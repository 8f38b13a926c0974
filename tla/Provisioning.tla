---------------------------- MODULE Provisioning ----------------------------
(***************************************************************************)
(* How the smart account the adapter works for comes to be: the operator's *)
(* scripts chain_adapter/scripts/provision-kernel.ts, which deploys it,    *)
(* and verify-installed-validator.ts, which checks what is deployed, run   *)
(* by hand in whatever shell environment, against whatever chain their     *)
(* endpoints serve, more than once and at the same time.                   *)
(*                                                                         *)
(* The chain is external: an account's address is a function of its first  *)
(* owner and a salt (CREATE2), a user operation is identified by its       *)
(* content, as its hash is, and a chain includes each at most once.        *)
(***************************************************************************)
EXTENDS Naturals, Sequences, FiniteSets

CONSTANTS EOAs,        \* externally owned accounts, each with its key
          Envs,        \* the environments the programs may be started in
          Provisions,  \* runs of provision-kernel.ts
          Checks,      \* runs of verify-installed-validator.ts
          Fees,        \* fees a bundler may ask for
          MaxChanges,  \* bound: accounts their owners change
          Absent,      \* an environment variable that is not set
          Malformed,   \* a placeholder, or text that is not what it should be
          None

Sepolia == "84532"
Mainnet == "8453"
ALLOWED_CHAIN_IDS == {Sepolia, Mainnet}

Account == EOAs \X {0, 1}
PINNED_KERNEL_VERSION == "0.3.1"

(* A key is named by the address it derives to, an endpoint by its chain. *)
Env == [address : EOAs \cup {Absent, Malformed},
        key : EOAs \cup {Absent, Malformed},
        index : {0, 1, Absent, Malformed},
        chain : ALLOWED_CHAIN_IDS \cup {"absent", "empty", "84532abc", "1"},
        rpc : ALLOWED_CHAIN_IDS \cup {Absent, Malformed},
        bundler : ALLOWED_CHAIN_IDS \cup {Absent, Malformed},
        account : Account \cup {Absent, Malformed},
        session : EOAs \cup {Absent, Malformed}]

ASSUME EnvAssumption == Envs \subseteq Env
ASSUME ProvisioningBounds == Fees \subseteq Nat /\ MaxChanges \in Nat

VARIABLES accounts,   \* each chain's kernel accounts
          pool,       \* operations each chain's bundler holds
          landed,     \* operations each chain has included, in order
          touched,    \* accounts whose owner has changed them
          provision,  \* the runs of the two scripts
          check

chainVars == <<accounts, pool, landed, touched>>
provisioningVars == <<chainVars, provision, check>>

-----------------------------------------------------------------------------
(* The chain and its bundler. *)

(* The six policy modules the adapter accepts, and any other. *)
AcceptedPolicies ==
  {"call", "gas", "rate_limit", "signature", "sudo", "timestamp"}
PolicyModules == AcceptedPolicies \cup {"unaudited"}

(* A permission is named, as its id is derived, by its session signer and  *)
(* its policies; a policy by its module, whose parameters are left out.    *)
Permission == [signer : EOAs, policies : SUBSET PolicyModules]

Kernel == [version : {PINNED_KERNEL_VERSION, "other"},
           root : {"ecdsa", "other"}, owner : EOAs,
           permissions : SUBSET Permission]

ASSUME NoneAssumption == None \notin Envs /\ None \notin Kernel /\ None \notin Account

(* creates: the account its init code deploys, if it carries any.          *)
(* permission: the permission it is about, if it is about one.             *)
Op == [kind : {"selfcall", "install", "uninstall"}, account : Account,
       chain : ALLOWED_CHAIN_IDS, signer : EOAs, creates : Account \cup {None},
       permission : Permission \cup {None}, nonce : Nat, fee : Fees]

Deployed(c, a) == accounts[c][a] # None

(* The sudo validator and each permission count their own operations. *)
Lane(op) == IF op.kind = "install" THEN op.permission ELSE None

NextNonce(c, a, lane) ==
  Cardinality({i \in DOMAIN landed[c] :
    landed[c][i].op.account = a /\ Lane(landed[c][i].op) = lane})

(* The first signature a kernel asks for is its owner's: the operation's   *)
(* own, or the enable signature of a permission.                           *)
Valid(op, c) ==
  /\ op.chain = c
  /\ op.nonce = NextNonce(c, op.account, Lane(op))
  /\ IF Deployed(c, op.account)
       THEN /\ op.creates = None
            /\ accounts[c][op.account].root = "ecdsa"
            /\ accounts[c][op.account].owner = op.signer
       ELSE op.creates = op.account /\ op.account[1] = op.signer

Fresh(a) == [version |-> PINNED_KERNEL_VERSION, root |-> "ecdsa",
             owner |-> a[1], permissions |-> {}]

(* A permission is installed while the operation is validated, whatever    *)
(* becomes of its call; it is uninstalled by the call.                     *)
After(op, success) ==
  LET k == IF op.creates = None THEN accounts[op.chain][op.account]
                                ELSE Fresh(op.account)
  IN CASE op.kind = "install" -> [k EXCEPT !.permissions = @ \cup {op.permission}]
       [] op.kind = "uninstall" /\ success ->
            [k EXCEPT !.permissions = @ \ {op.permission}]
       [] OTHER -> k

(* An account's call of nothing to itself succeeds. *)
Include(c) ==
  \E op \in pool[c], success \in BOOLEAN :
    /\ Valid(op, c)
    /\ op.kind = "selfcall" => success
    /\ pool' = [pool EXCEPT ![c] = @ \ {op}]
    /\ landed' = [landed EXCEPT ![c] = Append(@, [op |-> op,
                                                  success |-> success])]
    /\ accounts' = [accounts EXCEPT ![c][op.account] = After(op, success)]
    /\ UNCHANGED <<touched, provision, check>>

Drop(c) ==
  /\ \E op \in pool[c] : ~Valid(op, c) /\ pool' = [pool EXCEPT ![c] = @ \ {op}]
  /\ UNCHANGED <<accounts, landed, touched, provision, check>>

(* The owner upgrades the account, replaces its root, or hands it over; a  *)
(* check that has begun is marked as overtaken, which only properties read. *)
OwnerChanges(c, a) ==
  /\ Deployed(c, a) /\ <<c, a>> \notin touched
  /\ Cardinality(touched) < MaxChanges
  /\ touched' = touched \cup {<<c, a>>}
  /\ \/ accounts' = [accounts EXCEPT ![c][a].version = "other"]
     \/ accounts' = [accounts EXCEPT ![c][a].root = "other"]
     \/ \E o \in EOAs \ {accounts[c][a].owner} :
          accounts' = [accounts EXCEPT ![c][a].owner = o]
  /\ check' = [k \in Checks |->
       IF check[k].env # None /\ check[k].env.rpc = c /\ check[k].env.account = a
         THEN [check[k] EXCEPT !.overtaken = TRUE] ELSE check[k]]
  /\ UNCHANGED <<pool, landed, provision>>

(* eth_sendUserOperation: a bundler simulates what it is sent. *)
Takes(c, op) == Valid(op, c) /\ pool' = [pool EXCEPT ![c] = @ \cup {op}]

Receipts(c, op) == {l \in {landed[c][i] : i \in DOMAIN landed[c]} : l.op = op}

(* createKernelAccount adds init code while nothing answers at the address. *)
InitCode(c, a, owner, index) ==
  IF Deployed(c, a) THEN None ELSE <<owner, index>>

-----------------------------------------------------------------------------
(* The environment. *)

readAddress(value) == value \notin {Absent, Malformed}
readUrl(value) == value \notin {Absent, Malformed}
readPrivateKey(value) == value \notin {Absent, Malformed}
readIndex(env) == env.index # Malformed

(* ?? only replaces a variable that is not set; the text must be digits. *)
readChainId(env) == IF env.chain = "absent" THEN Sepolia ELSE env.chain

parseDryRunEnv(env) ==
  /\ readAddress(env.address)
  /\ readIndex(env)
  /\ readChainId(env) \in ALLOWED_CHAIN_IDS

parseBroadcastEnv(env) ==
  /\ parseDryRunEnv(env)
  /\ readPrivateKey(env.key) /\ env.key = env.address
  /\ readUrl(env.rpc) /\ readUrl(env.bundler)

(* Mutant of Salt: no default. *)
SaltUnset(env) == env.index

Salt(env) == IF env.index = Absent THEN 0 ELSE env.index

deriveExpectedKernelAddress(env) == <<env.address, Salt(env)>>

(* verify-installed-validator.ts has readers of its own, with these checks. *)
parseEnv(env) ==
  /\ readAddress(env.account)
  /\ readUrl(env.rpc)
  /\ readChainId(env) \in ALLOWED_CHAIN_IDS

-----------------------------------------------------------------------------
(* provision-kernel.ts *)

Receipt == [mode : {"dry-run", "broadcast"}, chain : ALLOWED_CHAIN_IDS,
            account : Account, owner : EOAs, op : Op \cup {None}]

buildDryRunReceipt(env) ==
  [mode |-> "dry-run", chain |-> readChainId(env),
   account |-> deriveExpectedKernelAddress(env), owner |-> env.address,
   op |-> None]

buildBroadcastReceipt(env, op) ==
  [buildDryRunReceipt(env) EXCEPT !.mode = "broadcast", !.op = op]

Run == [pc : {"idle", "checking", "building", "sending", "waiting", "printed",
              "failed"},
        env : Envs \cup {None}, op : Op \cup {None},
        receipt : Receipt \cup {None}]

NewRun == [pc |-> "idle", env |-> None, op |-> None, receipt |-> None]

ProvisionStep == UNCHANGED <<accounts, landed, touched, check>>

Printed(receipt) == [NewRun EXCEPT !.pc = "printed", !.receipt = receipt]

(* Without --broadcast nothing but the environment is read. *)
DryRun(r) ==
  /\ provision[r].pc = "idle"
  /\ \E env \in Envs :
       /\ parseDryRunEnv(env)
       /\ provision' = [provision EXCEPT ![r] = Printed(buildDryRunReceipt(env))]
  /\ ProvisionStep /\ UNCHANGED pool

Broadcast(r) ==
  /\ provision[r].pc = "idle"
  /\ \E env \in Envs :
       /\ parseBroadcastEnv(env)
       /\ provision' = [provision EXCEPT ![r].pc = "checking", ![r].env = env]
  /\ ProvisionStep /\ UNCHANGED pool

(* The operator mistyped the environment, an endpoint does not answer or   *)
(* answers with an error, or the terminal is closed.                       *)
ProvisionFails(r) ==
  /\ provision[r].pc \in {"idle", "checking", "building", "sending", "waiting"}
  /\ provision' = [provision EXCEPT ![r] = [NewRun EXCEPT !.pc = "failed"]]
  /\ ProvisionStep /\ UNCHANGED pool

RefuseRedeploy(r) ==
  /\ provision[r].pc = "checking"
  /\ ~Deployed(provision[r].env.rpc,
               deriveExpectedKernelAddress(provision[r].env))
  /\ provision' = [provision EXCEPT ![r].pc = "building"]
  /\ ProvisionStep /\ UNCHANGED pool

(* The operation is signed for the chain the environment names, with what  *)
(* the chain behind BASE_RPC_URL says of the account now.                  *)
BuildDeploy(r) ==
  LET env == provision[r].env
      account == deriveExpectedKernelAddress(env)
  IN /\ provision[r].pc = "building"
     /\ \E fee \in Fees :
          provision' = [provision EXCEPT ![r].pc = "sending", ![r].op =
            [kind |-> "selfcall", account |-> account,
             chain |-> readChainId(env), signer |-> env.key,
             creates |-> InitCode(env.rpc, account, env.key, Salt(env)),
             permission |-> None,
             nonce |-> NextNonce(env.rpc, account, None), fee |-> fee]]
     /\ ProvisionStep /\ UNCHANGED pool

SendDeploy(r) ==
  /\ provision[r].pc = "sending"
  /\ Takes(provision[r].env.bundler, provision[r].op)
  /\ provision' = [provision EXCEPT ![r].pc = "waiting"]
  /\ ProvisionStep

(* Mutant of ConfirmDeploy: the bundler's word that it took the operation *)
(* is enough.                                                             *)
ConfirmDeployUnseen(r) ==
  /\ provision[r].pc = "waiting"
  /\ provision' = [provision EXCEPT ![r] =
       Printed(buildBroadcastReceipt(provision[r].env, provision[r].op))]
  /\ ProvisionStep /\ UNCHANGED pool

(* The bundler's receipt; whether its call succeeded is not asked. *)
ConfirmDeploy(r) ==
  /\ provision[r].pc = "waiting"
  /\ Receipts(provision[r].env.bundler, provision[r].op) # {}
  /\ provision' = [provision EXCEPT ![r] =
       Printed(buildBroadcastReceipt(provision[r].env, provision[r].op))]
  /\ ProvisionStep /\ UNCHANGED pool

-----------------------------------------------------------------------------
(* verify-installed-validator.ts: five reads, one after the other, of what *)
(* BASE_RPC_URL serves, each against its pinned value.                     *)

Check == [pc : {"idle", "deployed", "implementation", "version", "nonce",
                "root", "ok", "failed"},
          env : Envs \cup {None}, ok : BOOLEAN, overtaken : BOOLEAN]

NewCheck == [pc |-> "idle", env |-> None, ok |-> TRUE, overtaken |-> FALSE]
FailedCheck == [NewCheck EXCEPT !.pc = "failed"]

CheckStep == UNCHANGED <<chainVars, provision>>

StartCheck(k) ==
  /\ check[k].pc = "idle"
  /\ \E env \in Envs :
       /\ parseEnv(env)
       /\ check' = [check EXCEPT ![k].pc = "deployed", ![k].env = env]
  /\ CheckStep

observed(k) == accounts[check[k].env.rpc][check[k].env.account]

observe(k, read, next, finding) ==
  /\ check[k].pc = read
  /\ check' = [check EXCEPT ![k] =
       IF next = "failed" THEN FailedCheck
                          ELSE [check[k] EXCEPT !.pc = next, !.ok = @ /\ finding]]
  /\ CheckStep

(* An account without code ends the reads. *)
ReadDeployed(k) ==
  /\ check[k].pc = "deployed"
  /\ observe(k, "deployed", IF observed(k) = None THEN "failed"
                                                  ELSE "implementation", TRUE)

(* The implementation slot and the version it answers change together. *)
PinnedVersion(k) == observed(k).version = PINNED_KERNEL_VERSION

ReadImplementation(k) ==
  /\ check[k].pc = "implementation"
  /\ observe(k, "implementation", "version", PinnedVersion(k))

ReadVersion(k) ==
  /\ check[k].pc = "version"
  /\ observe(k, "version", "nonce", PinnedVersion(k))

ReadNonce(k) == observe(k, "nonce", "root", TRUE)

(* The validator's address is compared; neither its type tag nor the owner *)
(* registered with it is. The receipt follows.                             *)
buildReceipt(k) ==
  /\ check[k].pc = "root"
  /\ LET finding == observed(k).root = "ecdsa"
     IN observe(k, "root", IF check[k].ok /\ finding THEN "ok" ELSE "failed",
                finding)

(* A read that errors, or an environment parseEnv refuses. *)
CheckFails(k) ==
  /\ check[k].pc \notin {"ok", "failed"}
  /\ check' = [check EXCEPT ![k] = FailedCheck]
  /\ CheckStep

-----------------------------------------------------------------------------
ProvisioningInit ==
  /\ accounts = [c \in ALLOWED_CHAIN_IDS |-> [a \in Account |-> None]]
  /\ pool = [c \in ALLOWED_CHAIN_IDS |-> {}]
  /\ landed = [c \in ALLOWED_CHAIN_IDS |-> << >>]
  /\ touched = {}
  /\ provision = [r \in Provisions |-> NewRun]
  /\ check = [k \in Checks |-> NewCheck]

ProvisioningNext ==
  \/ \E c \in ALLOWED_CHAIN_IDS :
       \/ Include(c) \/ Drop(c)
       \/ \E a \in Account : OwnerChanges(c, a)
  \/ \E r \in Provisions :
       \/ DryRun(r) \/ Broadcast(r) \/ ProvisionFails(r) \/ RefuseRedeploy(r)
       \/ BuildDeploy(r) \/ SendDeploy(r) \/ ConfirmDeploy(r)
  \/ \E k \in Checks :
       \/ StartCheck(k) \/ ReadDeployed(k) \/ ReadImplementation(k)
       \/ ReadVersion(k) \/ ReadNonce(k) \/ buildReceipt(k) \/ CheckFails(k)

ProvisioningTypeOK ==
  /\ accounts \in [ALLOWED_CHAIN_IDS -> [Account -> Kernel \cup {None}]]
  /\ pool \in [ALLOWED_CHAIN_IDS -> SUBSET Op]
  /\ landed \in [ALLOWED_CHAIN_IDS -> Seq([op : Op, success : BOOLEAN])]
  /\ touched \in SUBSET (ALLOWED_CHAIN_IDS \X Account)
  /\ provision \in [Provisions -> Run]
  /\ check \in [Checks -> Check]

(* provision-kernel.ts: what a printed broadcast receipt says is so. The   *)
(* operation it names landed on the chain it names, and the account it     *)
(* names is there, owned by the owner it names until the owner changes it, *)
(* whichever chains the two endpoints serve and whoever deploys meanwhile. *)
ReceiptTrue ==
  \A r \in Provisions :
    LET receipt == provision[r].receipt
    IN provision[r].pc = "printed" /\ receipt.mode = "broadcast" =>
         /\ Receipts(receipt.chain, receipt.op) # {}
         /\ Deployed(receipt.chain, receipt.account)
         /\ <<receipt.chain, receipt.account>> \notin touched =>
              accounts[receipt.chain][receipt.account].owner = receipt.owner
=============================================================================
