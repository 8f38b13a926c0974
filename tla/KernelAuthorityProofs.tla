------------------------ MODULE KernelAuthorityProofs ------------------------
(* Theorems about KernelAuthority for every set of keys, of environments,  *)
(* of runs and calls, and every bound.                                     *)
EXTENDS KernelAuthority, FiniteSetTheorems, SequenceTheorems,
        TLAPS

(* An operation that installs a permission is signed by another key than    *)
(* the permission's.                                                        *)
InstallOK(op) ==
  op.kind = "install" => /\ op.permission \in Permission
                         /\ op.signer # op.permission.signer

(* What a run of provision-kernel.ts, a check and a call hold at each of    *)
(* their points.                                                            *)
RunOK(run) ==
  /\ run.pc \in {"checking", "building", "sending", "waiting"} =>
       run.env \in Envs /\ parseBroadcastEnv(run.env)
  /\ run.pc \in {"sending", "waiting"} => run.op \in Op /\ run.op.kind = "selfcall"

CheckOK(ck) ==
  ck.pc \notin {"idle", "failed"} => ck.env \in Envs /\ parseEnv(ck.env)

CallOK(call) ==
  call.pc \in {"sending", "waiting", "granted", "revoked"} =>
    call.op \in Op /\ InstallOK(call.op)

GrantOK(call) ==
  /\ CallOK(call)
  /\ call.pc \in {"sending", "waiting", "granted", "revoked"} =>
       call.op.kind = "install"

RunsInv == /\ \A r \in Provisions : RunOK(provision[r])
           /\ \A k \in Checks : CheckOK(check[k])

AdapterInv ==
  /\ adapter.pc # "down" => adapter.env \in Envs /\ loadConfig(adapter.env)
  /\ adapter.pc = "up" => /\ adapter.env.rpc = baseChainId(adapter.env)
                          /\ adapter.env.bundler = baseChainId(adapter.env)

CallsInv ==
  /\ \A g \in Grants :
       /\ GrantOK(grant[g])
       /\ grant[g].pc \in {"sending", "waiting"} => adapter.pc = "up"
  /\ \A r \in Revokes :
       /\ CallOK(revoke[r])
       /\ revoke[r].pc \in {"sending", "waiting"} => adapter.pc = "up"

PoolInv == \A c \in ALLOWED_CHAIN_IDS : \A op \in pool[c] : InstallOK(op)

TInv == TypeOK /\ RunsInv /\ AdapterInv /\ CallsInv /\ PoolInv

-----------------------------------------------------------------------------
(* Lemmas about the operators. *)

(* A nonce is a number. *)
LEMMA NonceType ==
  ASSUME TypeOK, NEW c \in ALLOWED_CHAIN_IDS, NEW a, NEW lane
  PROVE  NextNonce(c, a, lane) \in Nat
<1> DEFINE N == {i \in DOMAIN landed[c] :
                   landed[c][i].op.account = a /\ Lane(landed[c][i].op) = lane}
<1>1. landed[c] \in Seq([op : Op, success : BOOLEAN])
  BY DEF TypeOK, ProvisioningTypeOK
<1>2. DOMAIN landed[c] = 1..Len(landed[c]) /\ Len(landed[c]) \in Nat
  BY <1>1
<1>3. IsFiniteSet(1..Len(landed[c])) /\ N \in SUBSET (1..Len(landed[c]))
  BY <1>2, FS_Interval
<1>5. IsFiniteSet(N)
  BY <1>3, FS_Subset
<1>4. Cardinality(N) \in Nat
  BY <1>5, FS_CardinalityType
<1> QED BY <1>4 DEF NextNonce

(* An environment is a record of its fields. *)
LEMMA EnvType ==
  ASSUME NEW env \in Envs
  PROVE  env \in Env
BY EnvAssumption

(* What an operation leaves of the account it is included for. *)
LEMMA AfterType ==
  ASSUME TypeOK, NEW c \in ALLOWED_CHAIN_IDS, NEW op \in pool[c],
         NEW success \in BOOLEAN, Valid(op, c), InstallOK(op)
  PROVE  /\ op \in Op
         /\ op.chain = c
         /\ After(op, success) \in Kernel
         /\ Deployed(c, op.account) =>
              /\ After(op, success).version = accounts[c][op.account].version
              /\ After(op, success).root = accounts[c][op.account].root
              /\ After(op, success).owner = accounts[c][op.account].owner
         /\ ~Deployed(c, op.account) =>
              After(op, success).owner = op.account[1]
         /\ \A p \in After(op, success).permissions :
              \/ p.signer # op.signer
              \/ Deployed(c, op.account) /\ p \in accounts[c][op.account].permissions
<1>1. op \in Op /\ op.chain = c
  BY DEF TypeOK, ProvisioningTypeOK, Valid
<1>2. op.account \in Account /\ op.account[1] \in EOAs
  BY <1>1 DEF Op, Account
<1>3. Fresh(op.account) \in Kernel
  BY <1>2 DEF Fresh, Kernel
<1> DEFINE k == IF op.creates = None THEN accounts[op.chain][op.account]
                                     ELSE Fresh(op.account)
<1>4. /\ k \in Kernel
      /\ Deployed(c, op.account) => k = accounts[c][op.account]
      /\ ~Deployed(c, op.account) => k = Fresh(op.account)
  <2>1. CASE Deployed(c, op.account)
    BY <1>1, <1>2, <2>1 DEF Valid, Deployed, TypeOK, ProvisioningTypeOK
  <2>2. CASE ~Deployed(c, op.account)
    BY <1>2, <1>3, <2>2, NoneAssumption DEF Valid
  <2> QED BY <2>1, <2>2
<1>5. ~Deployed(c, op.account) => k.owner = op.account[1] /\ k.permissions = {}
  BY <1>4 DEF Fresh
<1>6. /\ After(op, success) \in Kernel
      /\ After(op, success).version = k.version
      /\ After(op, success).root = k.root
      /\ After(op, success).owner = k.owner
      /\ \A p \in After(op, success).permissions :
           p.signer # op.signer \/ p \in k.permissions
  <2>1. CASE op.kind = "install"
    <3>1. After(op, success) = [k EXCEPT !.permissions = @ \cup {op.permission}]
      BY <2>1 DEF After
    <3>2. op.permission \in Permission /\ op.signer # op.permission.signer
      BY <2>1 DEF InstallOK
    <3> HIDE DEF k
    <3> QED BY <1>4, <3>1, <3>2 DEF Kernel
  <2>2. CASE op.kind = "uninstall" /\ success
    <3>1. After(op, success) = [k EXCEPT !.permissions = @ \ {op.permission}]
      BY <2>2 DEF After
    <3> HIDE DEF k
    <3> QED BY <1>4, <3>1 DEF Kernel
  <2>3. CASE op.kind # "install" /\ ~(op.kind = "uninstall" /\ success)
    <3>1. After(op, success) = k
      BY <2>3 DEF After
    <3> HIDE DEF k
    <3> QED BY <1>4, <3>1
  <2> QED BY <2>1, <2>2, <2>3
<1> HIDE DEF k
<1> QED BY <1>1, <1>4, <1>5, <1>6

-----------------------------------------------------------------------------
(* Type correctness: one lemma for each kind of step. *)

(* A step of the chain keeps the invariant. *)
LEMMA TypeChain ==
  ASSUME TInv, NEW c \in ALLOWED_CHAIN_IDS, UNCHANGED authorityVars,
         Include(c) \/ Drop(c) \/ \E a \in Account : OwnerChanges(c, a)
  PROVE  TInv'
<1> USE DEF TInv
<1>0. UNCHANGED <<provision, adapter, grant, revoke>>
  BY DEF Include, Drop, OwnerChanges, authorityVars
<1>1. CASE Include(c)
  <2>1. PICK op \in pool[c], success \in BOOLEAN :
          /\ Valid(op, c)
          /\ pool' = [pool EXCEPT ![c] = @ \ {op}]
          /\ landed' = [landed EXCEPT ![c] = Append(@, [op |-> op,
                                                        success |-> success])]
          /\ accounts' = [accounts EXCEPT ![c][op.account] = After(op, success)]
          /\ UNCHANGED <<touched, provision, check>>
    BY <1>1 DEF Include
  <2>2. op \in Op /\ After(op, success) \in Kernel
    BY <2>1, AfterType DEF PoolInv
  <2>3. accounts' \in [ALLOWED_CHAIN_IDS -> [Account -> Kernel \cup {None}]]
    BY <2>1, <2>2 DEF TypeOK, ProvisioningTypeOK, Op
  <2>4. pool' \in [ALLOWED_CHAIN_IDS -> SUBSET Op] /\ PoolInv'
    BY <2>1 DEF TypeOK, ProvisioningTypeOK, PoolInv
  <2>5. landed' \in [ALLOWED_CHAIN_IDS -> Seq([op : Op, success : BOOLEAN])]
    <3>1. landed[c] \in Seq([op : Op, success : BOOLEAN])
      BY DEF TypeOK, ProvisioningTypeOK
    <3>2. [op |-> op, success |-> success] \in [op : Op, success : BOOLEAN]
      BY <2>2
    <3>3. Append(landed[c], [op |-> op, success |-> success])
            \in Seq([op : Op, success : BOOLEAN])
      BY <3>1, <3>2, AppendProperties
    <3> QED BY <2>1, <3>3 DEF TypeOK, ProvisioningTypeOK
  <2> QED
    BY <1>0, <2>1, <2>3, <2>4, <2>5
    DEF TypeOK, ProvisioningTypeOK, RunsInv, AdapterInv, CallsInv
<1>2. CASE Drop(c)
  <2>1. pool' \in [ALLOWED_CHAIN_IDS -> SUBSET Op] /\ PoolInv'
    BY <1>2 DEF Drop, TypeOK, ProvisioningTypeOK, PoolInv
  <2> QED
    BY <1>0, <1>2, <2>1
    DEF Drop, TypeOK, ProvisioningTypeOK, RunsInv, AdapterInv, CallsInv
<1>3. ASSUME NEW a \in Account, OwnerChanges(c, a) PROVE TInv'
  <2>1. accounts[c][a] \in Kernel
    BY <1>3 DEF OwnerChanges, Deployed, TypeOK, ProvisioningTypeOK
  <2>2. \E k \in Kernel : accounts' = [accounts EXCEPT ![c][a] = k]
    <3>1. [accounts[c][a] EXCEPT !.version = "other"] \in Kernel
      BY <2>1 DEF Kernel
    <3>2. [accounts[c][a] EXCEPT !.root = "other"] \in Kernel
      BY <2>1 DEF Kernel
    <3>3. \A o \in EOAs : [accounts[c][a] EXCEPT !.owner = o] \in Kernel
      BY <2>1 DEF Kernel
    <3> QED BY <1>3, <3>1, <3>2, <3>3 DEF OwnerChanges
  <2>3. accounts' \in [ALLOWED_CHAIN_IDS -> [Account -> Kernel \cup {None}]]
    BY <2>2 DEF TypeOK, ProvisioningTypeOK
  <2>4. ASSUME NEW k \in Checks
        PROVE  check'[k] \in Check /\ CheckOK(check'[k])
    <3>1. check[k] \in Check /\ CheckOK(check[k])
      BY DEF TypeOK, ProvisioningTypeOK, RunsInv
    <3>2. [check[k] EXCEPT !.overtaken = TRUE] \in Check
          /\ CheckOK([check[k] EXCEPT !.overtaken = TRUE])
      BY <3>1 DEF Check, CheckOK
    <3> QED BY <1>3, <3>1, <3>2 DEF OwnerChanges
  <2>5. check' \in [Checks -> Check]
    BY <1>3, <2>4 DEF OwnerChanges
  <2>6. touched' \in SUBSET (ALLOWED_CHAIN_IDS \X Account)
    BY <1>3 DEF OwnerChanges, TypeOK, ProvisioningTypeOK
  <2> QED
    BY <1>0, <1>3, <2>3, <2>4, <2>5, <2>6
    DEF OwnerChanges, TypeOK, ProvisioningTypeOK, RunsInv, AdapterInv, CallsInv,
        PoolInv
<1> QED BY <1>1, <1>2, <1>3

(* Replacing a run of provision-kernel.ts by a well-formed one. *)
LEMMA TypeRun ==
  ASSUME TInv, NEW r \in Provisions, NEW run \in Run, RunOK(run),
         provision' = [provision EXCEPT ![r] = run], ProvisionStep,
         UNCHANGED authorityVars,
         pool' \in [ALLOWED_CHAIN_IDS -> SUBSET Op], PoolInv'
  PROVE  TInv'
<1>1. provision' \in [Provisions -> Run] /\ \A q \in Provisions : RunOK(provision'[q])
  BY DEF TInv, TypeOK, ProvisioningTypeOK, RunsInv
<1> QED
  BY <1>1
  DEF TInv, ProvisionStep, authorityVars, TypeOK, ProvisioningTypeOK, RunsInv,
      AdapterInv, CallsInv

(* What a good environment makes of a receipt and of an operation. *)
LEMMA DryRunReceiptType ==
  ASSUME NEW env \in Envs, parseDryRunEnv(env)
  PROVE  /\ deriveExpectedKernelAddress(env) \in Account
         /\ Salt(env) \in {0, 1} /\ readChainId(env) \in ALLOWED_CHAIN_IDS
         /\ buildDryRunReceipt(env) \in Receipt
<1>1. env \in Env
  BY EnvType
<1>2. env.address \in EOAs /\ Salt(env) \in {0, 1}
  BY <1>1 DEF Env, parseDryRunEnv, readAddress, readIndex, Salt
<1>3. readChainId(env) \in ALLOWED_CHAIN_IDS
  BY DEF parseDryRunEnv
<1>4. deriveExpectedKernelAddress(env) \in Account
  BY <1>2 DEF deriveExpectedKernelAddress, Account
<1> QED
  BY <1>2, <1>3, <1>4 DEF buildDryRunReceipt, Receipt

LEMMA BroadcastReceiptType ==
  ASSUME NEW env \in Envs, parseBroadcastEnv(env), NEW op \in Op
  PROVE  buildBroadcastReceipt(env, op) \in Receipt
<1>1. buildDryRunReceipt(env) \in Receipt
  BY DryRunReceiptType DEF parseBroadcastEnv
<1> QED BY <1>1 DEF buildBroadcastReceipt, Receipt

(* A step of provision-kernel.ts keeps the invariant. *)
LEMMA TypeProvision ==
  ASSUME TInv, NEW r \in Provisions, UNCHANGED authorityVars,
         \/ DryRun(r) \/ Broadcast(r) \/ ProvisionFails(r) \/ RefuseRedeploy(r)
         \/ BuildDeploy(r) \/ SendDeploy(r) \/ ConfirmDeploy(r)
  PROVE  TInv'
<1> DEFINE run == provision[r]
           env == run.env
<1>0. /\ run \in Run /\ RunOK(run) /\ PoolInv
      /\ pool \in [ALLOWED_CHAIN_IDS -> SUBSET Op]
  BY DEF TInv, TypeOK, ProvisioningTypeOK, RunsInv
<1>a. NewRun \in Run
  BY DEF NewRun, Run
<1>1. CASE DryRun(r)
  <2>1. PICK e \in Envs :
          /\ parseDryRunEnv(e)
          /\ provision' = [provision EXCEPT ![r] = Printed(buildDryRunReceipt(e))]
    BY <1>1 DEF DryRun
  <2>2. Printed(buildDryRunReceipt(e)) \in Run /\ RunOK(Printed(buildDryRunReceipt(e)))
    BY <1>a, <2>1, DryRunReceiptType DEF Printed, NewRun, Run, RunOK
  <2> QED BY <1>0, <1>1, <2>1, <2>2, TypeRun DEF DryRun, PoolInv
<1>2. CASE Broadcast(r)
  <2>1. PICK e \in Envs :
          /\ parseBroadcastEnv(e)
          /\ provision' = [provision EXCEPT ![r].pc = "checking", ![r].env = e]
    BY <1>2 DEF Broadcast
  <2> DEFINE new == [run EXCEPT !.pc = "checking", !.env = e]
  <2>2. provision' = [provision EXCEPT ![r] = new] /\ new \in Run /\ RunOK(new)
    BY <1>0, <2>1 DEF Run, RunOK, TInv, TypeOK, ProvisioningTypeOK
  <2> HIDE DEF new
  <2> QED BY <1>0, <1>2, <2>2, TypeRun DEF Broadcast, PoolInv
<1>3. CASE ProvisionFails(r)
  <2> DEFINE new == [NewRun EXCEPT !.pc = "failed"]
  <2>1. new \in Run /\ RunOK(new)
    BY <1>a DEF NewRun, Run, RunOK
  <2> QED BY <1>0, <1>3, <2>1, TypeRun DEF ProvisionFails, PoolInv
<1>4. CASE RefuseRedeploy(r)
  <2> DEFINE new == [run EXCEPT !.pc = "building"]
  <2>1. provision' = [provision EXCEPT ![r] = new] /\ new \in Run /\ RunOK(new)
    BY <1>0, <1>4 DEF RefuseRedeploy, Run, RunOK, TInv, TypeOK, ProvisioningTypeOK
  <2> HIDE DEF new
  <2> QED BY <1>0, <1>4, <2>1, TypeRun DEF RefuseRedeploy, PoolInv
<1>5. CASE BuildDeploy(r)
  <2>1. env \in Envs /\ parseBroadcastEnv(env) /\ env \in Env
    BY <1>0, <1>5, EnvType DEF BuildDeploy, RunOK
  <2>2. /\ env.key \in EOAs /\ env.rpc \in ALLOWED_CHAIN_IDS
        /\ env.key = env.address
    BY <2>1 DEF Env, parseBroadcastEnv, readPrivateKey, readUrl
  <2> DEFINE account == deriveExpectedKernelAddress(env)
             creates == InitCode(env.rpc, account, env.key, Salt(env))
  <2>3. account \in Account /\ readChainId(env) \in ALLOWED_CHAIN_IDS
        /\ Salt(env) \in {0, 1}
    BY <2>1, DryRunReceiptType DEF parseBroadcastEnv
  <2>4. creates \in Account \cup {None}
    BY <2>2, <2>3 DEF InitCode, Account
  <2>5. NextNonce(env.rpc, account, None) \in Nat
    BY <2>2, NonceType DEF TInv
  <2>6. PICK fee \in Fees :
          provision' = [provision EXCEPT ![r].pc = "sending", ![r].op =
            [kind |-> "selfcall", account |-> account,
             chain |-> readChainId(env), signer |-> env.key,
             creates |-> creates, permission |-> None,
             nonce |-> NextNonce(env.rpc, account, None), fee |-> fee]]
    BY <1>5 DEF BuildDeploy
  <2> DEFINE op == [kind |-> "selfcall", account |-> account,
             chain |-> readChainId(env), signer |-> env.key,
             creates |-> creates, permission |-> None,
             nonce |-> NextNonce(env.rpc, account, None), fee |-> fee]
             new == [run EXCEPT !.pc = "sending", !.op = op]
  <2>7. op \in Op /\ op.kind = "selfcall"
    BY <2>2, <2>3, <2>4, <2>5 DEF Op
  <2> HIDE DEF op
  <2>8. provision' = [provision EXCEPT ![r] = new]
    BY <1>0, <2>6 DEF op, TInv, TypeOK, ProvisioningTypeOK, Run
  <2>9. new \in Run /\ RunOK(new)
    BY <1>0, <2>1, <2>7 DEF Run, RunOK
  <2> HIDE DEF new
  <2> QED BY <1>0, <1>5, <2>8, <2>9, TypeRun DEF BuildDeploy, PoolInv
<1>6. CASE SendDeploy(r)
  <2> DEFINE new == [run EXCEPT !.pc = "waiting"]
  <2>1. provision' = [provision EXCEPT ![r] = new] /\ new \in Run /\ RunOK(new)
    BY <1>0, <1>6 DEF SendDeploy, Run, RunOK, TInv, TypeOK, ProvisioningTypeOK
  <2>2. run.op \in Op /\ InstallOK(run.op)
    BY <1>0, <1>6 DEF SendDeploy, RunOK, InstallOK
  <2>3. pool' \in [ALLOWED_CHAIN_IDS -> SUBSET Op] /\ PoolInv'
    BY <1>0, <1>6, <2>2 DEF SendDeploy, Takes, PoolInv
  <2> HIDE DEF new
  <2> QED BY <1>0, <1>6, <2>1, <2>3, TypeRun DEF SendDeploy
<1>7. CASE ConfirmDeploy(r)
  <2> DEFINE new == Printed(buildBroadcastReceipt(env, run.op))
  <2>1. new \in Run /\ RunOK(new)
    BY <1>0, <1>7, <1>a, BroadcastReceiptType
    DEF ConfirmDeploy, RunOK, Printed, NewRun, Run
  <2>2. provision' = [provision EXCEPT ![r] = new]
    BY <1>7 DEF ConfirmDeploy
  <2> HIDE DEF new
  <2> QED BY <1>0, <1>7, <2>1, <2>2, TypeRun DEF ConfirmDeploy, PoolInv
<1> QED BY <1>1, <1>2, <1>3, <1>4, <1>5, <1>6, <1>7

(* Replacing a check by a well-formed one. *)
LEMMA TypeCheckRecord ==
  ASSUME TInv, NEW k \in Checks, NEW ck \in Check, CheckOK(ck),
         check' = [check EXCEPT ![k] = ck], CheckStep, UNCHANGED authorityVars
  PROVE  TInv'
<1>1. check' \in [Checks -> Check] /\ \A j \in Checks : CheckOK(check'[j])
  BY DEF TInv, TypeOK, ProvisioningTypeOK, RunsInv
<1> QED
  BY <1>1
  DEF TInv, CheckStep, chainVars, authorityVars, TypeOK, ProvisioningTypeOK,
      RunsInv, AdapterInv, CallsInv, PoolInv

(* A step of verify-installed-validator.ts keeps the invariant. *)
LEMMA TypeVerify ==
  ASSUME TInv, NEW k \in Checks, UNCHANGED authorityVars,
         \/ StartCheck(k) \/ ReadDeployed(k) \/ ReadImplementation(k)
         \/ ReadVersion(k) \/ ReadNonce(k) \/ buildReceipt(k) \/ CheckFails(k)
  PROVE  TInv'
<1>0. check[k] \in Check /\ CheckOK(check[k]) /\ check \in [Checks -> Check]
  BY DEF TInv, TypeOK, ProvisioningTypeOK, RunsInv
<1>1. FailedCheck \in Check /\ CheckOK(FailedCheck)
  BY DEF FailedCheck, NewCheck, Check, CheckOK
<1>2. ASSUME NEW read \in {"deployed", "implementation", "version", "nonce", "root"},
             NEW next \in {"implementation", "version", "nonce", "root", "ok",
                           "failed"},
             NEW finding \in BOOLEAN, observe(k, read, next, finding)
      PROVE  TInv'
  <2>1. CASE next = "failed"
    BY <1>1, <1>2, <2>1, TypeCheckRecord DEF observe
  <2>2. CASE next # "failed"
    <3> DEFINE new == [check[k] EXCEPT !.pc = next, !.ok = @ /\ finding]
    <3>0. (check[k].ok /\ finding) \in BOOLEAN /\ check[k].pc = read
      BY <1>2 DEF observe
    <3>1. new \in Check
      BY <1>0, <3>0 DEF Check
    <3>3. new.env = check[k].env /\ CheckOK(new)
      BY <1>0, <3>0 DEF Check, CheckOK
    <3>2. check' = [check EXCEPT ![k] = IF next = "failed" THEN FailedCheck ELSE new]
          /\ CheckStep
      BY <1>2 DEF observe
    <3>4. check' = [check EXCEPT ![k] = new]
      BY <2>2, <3>2
    <3> HIDE DEF new
    <3> QED BY <3>1, <3>2, <3>3, <3>4, TypeCheckRecord
  <2> QED BY <2>1, <2>2
<1>3. CASE StartCheck(k)
  <2>1. PICK e \in Envs :
          parseEnv(e) /\ check' = [check EXCEPT ![k].pc = "deployed", ![k].env = e]
    BY <1>3 DEF StartCheck
  <2> DEFINE new == [check[k] EXCEPT !.pc = "deployed", !.env = e]
  <2>2. check' = [check EXCEPT ![k] = new] /\ new \in Check /\ CheckOK(new)
    BY <1>0, <2>1 DEF Check, CheckOK
  <2> HIDE DEF new
  <2> QED BY <1>3, <2>2, TypeCheckRecord DEF StartCheck
<1>4. CASE ReadDeployed(k)
  BY <1>2, <1>4 DEF ReadDeployed
<1>5. CASE ReadImplementation(k)
  BY <1>2, <1>5 DEF ReadImplementation, PinnedVersion
<1>6. CASE ReadVersion(k)
  BY <1>2, <1>6 DEF ReadVersion, PinnedVersion
<1>7. CASE ReadNonce(k)
  BY <1>2, <1>7 DEF ReadNonce
<1>8. CASE buildReceipt(k)
  <2> DEFINE finding == observed(k).root = "ecdsa"
  <2>1. observe(k, "root", IF check[k].ok /\ finding THEN "ok" ELSE "failed", finding)
    BY <1>8 DEF buildReceipt
  <2>2. finding \in BOOLEAN
    OBVIOUS
  <2> HIDE DEF finding
  <2> QED BY <1>2, <2>1, <2>2
<1>9. CASE CheckFails(k)
  BY <1>1, <1>9, TypeCheckRecord DEF CheckFails
<1> QED BY <1>3, <1>4, <1>5, <1>6, <1>7, <1>8, <1>9

(* What becomes of a call when its process ends. *)
Lost(call) == IF call.pc \in {"sending", "waiting"}
                THEN [call EXCEPT !.pc = "lost", !.op = None] ELSE call

LEMMA LostType ==
  ASSUME NEW call \in Call, CallOK(call)
  PROVE  /\ Lost(call) \in Call /\ CallOK(Lost(call))
         /\ GrantOK(call) => GrantOK(Lost(call))
         /\ Lost(call).pc \notin {"sending", "waiting"}
<1>1. CASE call.pc \in {"sending", "waiting"}
  <2> DEFINE new == [call EXCEPT !.pc = "lost", !.op = None]
  <2>1. new \in Call /\ new.pc = "lost"
    BY DEF Call
  <2> QED BY <1>1, <2>1 DEF CallOK, GrantOK, Lost
<1> QED BY <1>1 DEF Lost

(* A start or a stop of the adapter keeps the invariant. *)
LEMMA TypeAdapter ==
  ASSUME TInv, AdapterStarts \/ assertBaseChainIdentity \/ AdapterStops
  PROVE  TInv'
<1> USE DEF TInv
<1>1. CASE AdapterStarts
  <2>1. PICK e \in Envs :
          /\ loadConfig(e)
          /\ adapter' = [pc |-> "identity", env |-> e, boots |-> adapter.boots + 1]
    BY <1>1 DEF AdapterStarts
  <2>2. adapter.boots + 1 \in 0..MaxBoots
    BY <1>1, AuthorityAssumption DEF AdapterStarts, TypeOK
  <2>3. adapter'.pc = "identity" /\ adapter'.env = e /\ adapter.pc = "down"
    BY <1>1, <2>1 DEF AdapterStarts
  <2>4. TypeOK' /\ AdapterInv'
    BY <1>1, <2>1, <2>2, <2>3
    DEF AdapterStarts, TypeOK, AdapterInv, ProvisioningTypeOK, provisioningVars,
        chainVars
  <2> QED
    BY <1>1, <2>3, <2>4
    DEF AdapterStarts, provisioningVars, chainVars, RunsInv, CallsInv, PoolInv
<1>2. CASE assertBaseChainIdentity
  <2>1. /\ adapter' \in [pc : {"down", "identity", "up"}, env : Envs \cup {None},
                         boots : 0..MaxBoots]
        /\ adapter'.pc = "up" /\ adapter'.env = adapter.env
    BY <1>2 DEF assertBaseChainIdentity, TypeOK
  <2> QED
    BY <1>2, <2>1
    DEF assertBaseChainIdentity, TypeOK, ProvisioningTypeOK, provisioningVars,
        chainVars, RunsInv, AdapterInv, CallsInv, PoolInv
<1>3. CASE AdapterStops
  <2>2. grant \in [Grants -> Call] /\ revoke \in [Revokes -> Call]
    BY DEF TypeOK
  <2>3. /\ grant' = [g \in Grants |-> Lost(grant[g])]
        /\ revoke' = [r \in Revokes |-> Lost(revoke[r])]
    BY <1>3, <2>2 DEF AdapterStops, Lost
  <2>6. ASSUME NEW g \in Grants
        PROVE  /\ grant'[g] \in Call /\ GrantOK(grant'[g])
               /\ grant'[g].pc \notin {"sending", "waiting"}
    <3>1. grant[g] \in Call /\ CallOK(grant[g]) /\ GrantOK(grant[g])
      BY <2>2 DEF CallsInv, GrantOK
    <3>2. grant'[g] = Lost(grant[g])
      BY <2>3
    <3> QED BY <3>1, <3>2, LostType
  <2>7. ASSUME NEW r \in Revokes
        PROVE  /\ revoke'[r] \in Call /\ CallOK(revoke'[r])
               /\ revoke'[r].pc \notin {"sending", "waiting"}
    <3>1. revoke[r] \in Call /\ CallOK(revoke[r])
      BY <2>2 DEF CallsInv
    <3>2. revoke'[r] = Lost(revoke[r])
      BY <2>3
    <3> QED BY <3>1, <3>2, LostType
  <2>4. grant' \in [Grants -> Call] /\ revoke' \in [Revokes -> Call]
    BY <2>3, <2>6, <2>7
  <2>8. CallsInv'
    BY <2>6, <2>7 DEF CallsInv
  <2>5. /\ adapter' \in [pc : {"down", "identity", "up"}, env : Envs \cup {None},
                         boots : 0..MaxBoots]
        /\ adapter'.pc = "down"
    BY <1>3 DEF AdapterStops, TypeOK
  <2> QED
    BY <1>3, <2>4, <2>5, <2>8
    DEF AdapterStops, TypeOK, ProvisioningTypeOK, provisioningVars, chainVars,
        RunsInv, AdapterInv, PoolInv
<1> QED BY <1>1, <1>2, <1>3

(* What the adapter makes of its configuration. *)
LEMMA OperationType ==
  ASSUME TInv, adapter.pc = "up", CanBuild,
         NEW kind \in {"selfcall", "install", "uninstall"}, NEW signer \in EOAs,
         NEW permission \in Permission \cup {None}, NEW fee \in Fees
  PROVE  /\ Operation(kind, signer, permission, fee) \in Op
         /\ Operation(kind, signer, permission, fee).kind = kind
         /\ Operation(kind, signer, permission, fee).signer = signer
         /\ Operation(kind, signer, permission, fee).permission = permission
<1>1. loadConfig(adapter.env) /\ adapter.env.rpc = baseChainId(adapter.env)
  BY DEF TInv, AdapterInv
<1>2. adapter.env.rpc \in ALLOWED_CHAIN_IDS /\ baseChainId(adapter.env) \in ALLOWED_CHAIN_IDS
  BY <1>1 DEF loadConfig
<1>3. \A lane : NextNonce(adapter.env.rpc, adapter.env.account, lane) \in Nat
  BY <1>2, NonceType DEF TInv
<1>4. InitCode(adapter.env.rpc, adapter.env.account, signer, 0)
        \in Account \cup {None}
  BY DEF InitCode, Account
<1> QED BY <1>2, <1>3, <1>4 DEF Operation, Op, CanBuild

(* The two keys of an adapter that runs. *)
LEMMA KeysType ==
  ASSUME TInv, adapter.pc = "up"
  PROVE  /\ adapter.env.session \in EOAs
         /\ Operator # Absent => Operator \in EOAs /\ Operator # adapter.env.session
BY DEF TInv, AdapterInv, loadConfig, readOperatorSigner, Operator

(* Replacing a grant, or a revoke, by a well-formed one. *)
LEMMA TypeGrantRecord ==
  ASSUME TInv, NEW g \in Grants, NEW call \in Call, GrantOK(call),
         call.pc \in {"sending", "waiting"} => adapter.pc = "up",
         grant' = [grant EXCEPT ![g] = call], OnlyPool, UNCHANGED revoke,
         pool' \in [ALLOWED_CHAIN_IDS -> SUBSET Op], PoolInv'
  PROVE  TInv'
<1>1. /\ grant' \in [Grants -> Call]
      /\ \A h \in Grants :
           /\ GrantOK(grant'[h])
           /\ grant'[h].pc \in {"sending", "waiting"} => adapter.pc = "up"
  BY DEF TInv, TypeOK, CallsInv
<1> QED
  BY <1>1
  DEF TInv, OnlyPool, TypeOK, ProvisioningTypeOK, RunsInv, AdapterInv, CallsInv

LEMMA TypeRevokeRecord ==
  ASSUME TInv, NEW r \in Revokes, NEW call \in Call, CallOK(call),
         call.pc \in {"sending", "waiting"} => adapter.pc = "up",
         revoke' = [revoke EXCEPT ![r] = call], OnlyPool, UNCHANGED grant,
         pool' \in [ALLOWED_CHAIN_IDS -> SUBSET Op], PoolInv'
  PROVE  TInv'
<1>1. /\ revoke' \in [Revokes -> Call]
      /\ \A q \in Revokes :
           /\ CallOK(revoke'[q])
           /\ revoke'[q].pc \in {"sending", "waiting"} => adapter.pc = "up"
  BY DEF TInv, TypeOK, CallsInv
<1> QED
  BY <1>1
  DEF TInv, OnlyPool, TypeOK, ProvisioningTypeOK, RunsInv, AdapterInv, CallsInv

(* A step that touches neither the chain nor the other calls. *)
LEMMA StillPool ==
  ASSUME TInv, UNCHANGED provisioningVars, UNCHANGED adapter
  PROVE  /\ OnlyPool
         /\ pool' \in [ALLOWED_CHAIN_IDS -> SUBSET Op] /\ PoolInv'
BY DEF TInv, TypeOK, ProvisioningTypeOK, PoolInv, provisioningVars, chainVars,
       OnlyPool

(* Sending the operation of a well-formed call. *)
LEMMA SentPool ==
  ASSUME TInv, NEW call \in Call, CallOK(call), Sent(call)
  PROVE  pool' \in [ALLOWED_CHAIN_IDS -> SUBSET Op] /\ PoolInv'
<1>1. call.op \in Op /\ InstallOK(call.op)
  BY DEF Sent, CallOK
<1> QED BY <1>1 DEF Sent, Takes, TInv, TypeOK, ProvisioningTypeOK, PoolInv

(* A step of a grant keeps the invariant. *)
LEMMA TypeGrant ==
  ASSUME TInv, NEW g \in Grants,
         \/ GrantRefused(g) \/ GrantBuilds(g) \/ GrantSends(g)
         \/ GrantReceives(g) \/ GrantFails(g)
  PROVE  TInv'
<1>0. /\ grant[g] \in Call /\ grant \in [Grants -> Call]
      /\ GrantOK(grant[g]) /\ CallOK(grant[g])
  BY DEF TInv, TypeOK, CallsInv, GrantOK
<1>1. FailedGrant \in Call /\ GrantOK(FailedGrant) /\ FailedGrant.pc = "grant_failed"
  BY DEF FailedGrant, NewCall, Call, CallOK, GrantOK
<1>2. CASE GrantRefused(g) \/ GrantFails(g)
  <2>1. grant' = [grant EXCEPT ![g] = FailedGrant] /\ GrantStep
    BY <1>2 DEF GrantRefused, GrantFails
  <2> QED BY <1>1, <2>1, StillPool, TypeGrantRecord DEF GrantStep
<1>3. CASE GrantBuilds(g)
  <2>1. adapter.pc = "up" /\ Operator # Absent /\ CanBuild /\ GrantStep
    BY <1>3 DEF GrantBuilds
  <2>2. PICK fee \in Fees :
          grant' = [grant EXCEPT ![g].pc = "sending", ![g].op =
                     Operation("install", Operator, SessionPermission, fee)]
    BY <1>3 DEF GrantBuilds
  <2> DEFINE op == Operation("install", Operator, SessionPermission, fee)
             new == [grant[g] EXCEPT !.pc = "sending", !.op = op]
  <2>a. SessionPermission \in Permission
        /\ SessionPermission.signer = adapter.env.session
    BY <2>1, KeysType
    DEF SessionPermission, Permission, PolicyModules, AcceptedPolicies
  <2>3. op \in Op /\ InstallOK(op) /\ op.kind = "install"
    BY <2>1, <2>a, KeysType, OperationType DEF InstallOK
  <2> HIDE DEF op
  <2>4. grant' = [grant EXCEPT ![g] = new]
    BY <1>0, <2>2 DEF op
  <2>5. new \in Call /\ new.pc = "sending" /\ new.op = op
    BY <1>0, <2>3 DEF Call
  <2>6. GrantOK(new)
    BY <2>3, <2>5 DEF CallOK, GrantOK
  <2> HIDE DEF new
  <2> QED
    BY <2>1, <2>4, <2>5, <2>6, StillPool, TypeGrantRecord DEF GrantStep
<1>4. CASE GrantSends(g)
  <2> DEFINE new == [grant[g] EXCEPT !.pc = "waiting"]
  <2>1. Sent(grant[g]) /\ OnlyPool /\ UNCHANGED revoke
    BY <1>4 DEF GrantSends
  <2>2. grant' = [grant EXCEPT ![g] = new] /\ new \in Call /\ GrantOK(new)
    BY <1>0, <1>4 DEF GrantSends, Sent, Call, CallOK, GrantOK
  <2>3. adapter.pc = "up"
    BY <2>1 DEF Sent, TInv, CallsInv
  <2> HIDE DEF new
  <2> QED BY <1>0, <2>1, <2>2, <2>3, SentPool, TypeGrantRecord
<1>5. CASE GrantReceives(g)
  <2>1. /\ grant[g].op \in Op /\ grant[g].op.permission \in Permission
        /\ GrantStep
    BY <1>0, <1>5 DEF GrantReceives, CallOK, GrantOK, InstallOK
  <2>2. PICK l \in Receipts(adapter.env.bundler, grant[g].op) :
          grant' = [grant EXCEPT ![g] =
            IF l.success
              THEN [grant[g] EXCEPT !.pc = "granted", !.block = GrantedBlock(l.op)]
              ELSE FailedGrant]
    BY <1>5 DEF GrantReceives
  <2>3. l.op = grant[g].op
    BY DEF Receipts
  <2> DEFINE new == [grant[g] EXCEPT !.pc = "granted", !.block = GrantedBlock(l.op)]
  <2>4. CASE l.success
    <3>1. GrantedBlock(l.op) \in PermissionBlock
      BY <2>1, <2>3 DEF GrantedBlock, PermissionBlock, Permission
    <3>2. new \in Call /\ new.pc = "granted" /\ new.op = grant[g].op
      BY <1>0, <3>1 DEF Call
    <3>3. GrantOK(new)
      BY <1>0, <1>5, <3>2 DEF CallOK, GrantOK, GrantReceives
    <3>4. grant' = [grant EXCEPT ![g] = new]
      BY <2>2, <2>4
    <3> HIDE DEF new
    <3> QED BY <2>1, <3>2, <3>3, <3>4, StillPool, TypeGrantRecord DEF GrantStep
  <2>5. CASE ~l.success
    BY <1>1, <2>1, <2>2, <2>5, StillPool, TypeGrantRecord DEF GrantStep
  <2> QED BY <2>4, <2>5
<1> QED BY <1>2, <1>3, <1>4, <1>5

(* The blocks a revoke may be handed. *)
LEMMA BlocksType ==
  ASSUME TInv
  PROVE  Blocks \subseteq PermissionBlock
<1>1. \A g \in Grants : grant[g].block \in PermissionBlock \cup {None}
  BY DEF TInv, TypeOK, Call
<1> QED BY <1>1, AuthorityAssumption DEF Blocks

(* A step of a revoke keeps the invariant. *)
LEMMA TypeRevoke ==
  ASSUME TInv, NEW r \in Revokes,
         \/ SentinelBuilds(r) \/ RevokeRefused(r) \/ UninstallBuilds(r)
         \/ RevokeSends(r) \/ RevokeReceives(r) \/ RevokeFails(r)
  PROVE  TInv'
<1>0. revoke[r] \in Call /\ CallOK(revoke[r]) /\ revoke \in [Revokes -> Call]
  BY DEF TInv, TypeOK, CallsInv
<1>1. FailedRevoke \in Call /\ CallOK(FailedRevoke) /\ FailedRevoke.pc = "revoke_failed"
  BY DEF FailedRevoke, NewCall, Call, CallOK
<1>2. CASE RevokeRefused(r) \/ RevokeFails(r)
  <2>1. revoke' = [revoke EXCEPT ![r] = FailedRevoke] /\ RevokeStep
    BY <1>2 DEF RevokeRefused, RevokeFails
  <2> QED BY <1>1, <2>1, StillPool, TypeRevokeRecord DEF RevokeStep
<1>3. CASE SentinelBuilds(r)
  <2>1. adapter.pc = "up" /\ CanBuild /\ RevokeStep
    BY <1>3 DEF SentinelBuilds, RevokeStarts
  <2>2. PICK fee \in Fees :
          revoke' = [revoke EXCEPT ![r].pc = "sending", ![r].op =
                       Operation("selfcall", adapter.env.session, None, fee)]
    BY <1>3 DEF SentinelBuilds
  <2> DEFINE op == Operation("selfcall", adapter.env.session, None, fee)
             new == [revoke[r] EXCEPT !.pc = "sending", !.op = op]
  <2>a. adapter.env.session \in EOAs /\ None \in Permission \cup {None}
    BY <2>1, KeysType
  <2>b. \A permission \in Permission \cup {None} :
          LET made == Operation("selfcall", adapter.env.session, permission, fee)
          IN made \in Op /\ made.kind = "selfcall"
    BY <2>1, <2>a, OperationType
  <2>3. op \in Op /\ InstallOK(op)
    BY <2>a, <2>b DEF InstallOK
  <2> HIDE DEF op
  <2>4. revoke' = [revoke EXCEPT ![r] = new]
    BY <1>0, <2>2 DEF op
  <2>5. new \in Call /\ new.pc = "sending" /\ new.op = op
    BY <1>0, <2>3 DEF Call
  <2>6. CallOK(new)
    BY <2>3, <2>5 DEF CallOK
  <2> HIDE DEF new
  <2> QED
    BY <2>1, <2>4, <2>5, <2>6, StillPool, TypeRevokeRecord DEF RevokeStep
<1>4. CASE UninstallBuilds(r)
  <2>1. adapter.pc = "up" /\ CanBuild /\ RevokeStep
    BY <1>4 DEF UninstallBuilds, RevokeStarts
  <2>2. PICK block \in Blocks, fee \in Fees :
          /\ Revocable(block)
          /\ revoke' = [revoke EXCEPT ![r] =
               [pc |-> "sending", block |-> block,
                op |-> Operation("uninstall", Operator, Rebuilt(block), fee)]]
    BY <1>4 DEF UninstallBuilds
  <2>3. block \in PermissionBlock /\ Rebuilt(block) \in Permission
    BY <2>2, BlocksType DEF Revocable, PermissionBlock, Rebuilt, Permission
  <2> DEFINE op == Operation("uninstall", Operator, Rebuilt(block), fee)
             new == [pc |-> "sending", block |-> block, op |-> op]
  <2>4. op \in Op /\ InstallOK(op)
    BY <2>1, <2>2, <2>3, KeysType, OperationType DEF InstallOK, Revocable
  <2> HIDE DEF op
  <2>5. revoke' = [revoke EXCEPT ![r] = new]
    BY <2>2 DEF op
  <2>6. new \in Call /\ new.pc = "sending" /\ new.op = op
    BY <2>3, <2>4 DEF Call
  <2>7. CallOK(new)
    BY <2>4, <2>6 DEF CallOK
  <2> HIDE DEF new
  <2> QED
    BY <2>1, <2>5, <2>6, <2>7, StillPool, TypeRevokeRecord DEF RevokeStep
<1>5. CASE RevokeSends(r)
  <2> DEFINE new == [revoke[r] EXCEPT !.pc = "waiting"]
  <2>1. Sent(revoke[r]) /\ OnlyPool /\ UNCHANGED grant
    BY <1>5 DEF RevokeSends
  <2>2. revoke' = [revoke EXCEPT ![r] = new] /\ new \in Call /\ CallOK(new)
    BY <1>0, <1>5 DEF RevokeSends, Sent, Call, CallOK
  <2>3. adapter.pc = "up"
    BY <2>1 DEF Sent, TInv, CallsInv
  <2> HIDE DEF new
  <2> QED BY <1>0, <2>1, <2>2, <2>3, SentPool, TypeRevokeRecord
<1>6. CASE RevokeReceives(r)
  <2>1. PICK pc \in {"revoked", "revoke_failed"} :
          revoke' = [revoke EXCEPT ![r].pc = pc]
    BY <1>6 DEF RevokeReceives
  <2> DEFINE new == [revoke[r] EXCEPT !.pc = pc]
  <2>2. revoke[r].pc = "waiting" /\ RevokeStep
    BY <1>6 DEF RevokeReceives
  <2>3. new \in Call /\ new.pc = pc /\ new.op = revoke[r].op
    BY <1>0 DEF Call
  <2>4. CallOK(new) /\ revoke' = [revoke EXCEPT ![r] = new]
    BY <1>0, <2>1, <2>2, <2>3 DEF CallOK
  <2> HIDE DEF new
  <2> QED BY <2>2, <2>3, <2>4, StillPool, TypeRevokeRecord DEF RevokeStep
<1> QED BY <1>2, <1>3, <1>4, <1>5, <1>6

(* The invariant holds initially. *)
LEMMA TypeInit == Init => TInv
<1> SUFFICES ASSUME Init PROVE TInv
  OBVIOUS
<1> USE DEF Init, ProvisioningInit
<1>1. NewRun \in Run /\ RunOK(NewRun) /\ NewCheck \in Check /\ CheckOK(NewCheck)
  BY DEF NewRun, Run, RunOK, NewCheck, Check, CheckOK
<1>2. NewCall \in Call /\ CallOK(NewCall) /\ GrantOK(NewCall)
      /\ NewCall.pc = "idle"
  BY DEF NewCall, Call, CallOK, GrantOK
<1>3. ProvisioningTypeOK
  BY <1>1 DEF ProvisioningTypeOK
<1>4. TypeOK
  BY <1>2, <1>3, AuthorityAssumption DEF TypeOK
<1>5. RunsInv /\ AdapterInv /\ PoolInv
  BY <1>1 DEF RunsInv, AdapterInv, PoolInv
<1>6. CallsInv
  BY <1>2 DEF CallsInv
<1> QED BY <1>4, <1>5, <1>6 DEF TInv

(* So does every step preserve it. *)
LEMMA TypeNext == TInv /\ [Next]_vars => TInv'
<1> SUFFICES ASSUME TInv, [Next]_vars PROVE TInv'
  OBVIOUS
<1>1. CASE ProvisioningNext /\ UNCHANGED authorityVars
  BY <1>1, TypeChain, TypeProvision, TypeVerify DEF ProvisioningNext
<1>2. CASE AdapterStarts \/ assertBaseChainIdentity \/ AdapterStops
  BY <1>2, TypeAdapter
<1>3. ASSUME NEW g \in Grants,
             \/ GrantRefused(g) \/ GrantBuilds(g) \/ GrantSends(g)
             \/ GrantReceives(g) \/ GrantFails(g)
      PROVE  TInv'
  BY <1>3, TypeGrant
<1>4. ASSUME NEW r \in Revokes,
             \/ SentinelBuilds(r) \/ RevokeRefused(r) \/ UninstallBuilds(r)
             \/ RevokeSends(r) \/ RevokeReceives(r) \/ RevokeFails(r)
      PROVE  TInv'
  BY <1>4, TypeRevoke
<1>5. CASE UNCHANGED vars
  BY <1>5
  DEF vars, provisioningVars, chainVars, authorityVars, TInv, TypeOK,
      ProvisioningTypeOK, RunsInv, AdapterInv, CallsInv, PoolInv
<1> QED BY <1>1, <1>2, <1>3, <1>4, <1>5 DEF Next

LEMMA TypeInvariant == Spec => []TInv
<1> QED BY TypeInit, TypeNext, PTL DEF Spec

(* Every variable keeps its type: the accounts on the two chains, the       *)
(* operations in the pools and in the blocks, the operator's scripts, the   *)
(* adapter and its calls, whatever the environments and however many.       *)
THEOREM TypeCorrect == Spec => []TypeOK
<1>1. TInv => TypeOK
  BY DEF TInv
<1> QED BY <1>1, TypeInvariant, PTL

-----------------------------------------------------------------------------
(* The chain's history: what a step may do to an account. *)

(* Nothing; or operations its owner signed changed its permissions; or it   *)
(* was deployed; or its owner changed it.                                   *)
Kept(c, a) == accounts'[c][a] = accounts[c][a]

Operated(c, a) ==
  /\ Deployed(c, a)
  /\ accounts'[c][a] \in Kernel
  /\ accounts'[c][a].version = accounts[c][a].version
  /\ accounts'[c][a].root = accounts[c][a].root
  /\ accounts'[c][a].owner = accounts[c][a].owner
  /\ \A p \in accounts'[c][a].permissions :
       p \in accounts[c][a].permissions \/ p.signer # accounts[c][a].owner

Created(c, a) ==
  /\ ~Deployed(c, a)
  /\ accounts'[c][a].owner = a[1]
  /\ \A p \in accounts'[c][a].permissions : p.signer # a[1]

Changed(c, a) ==
  /\ Deployed(c, a)
  /\ accounts'[c][a] \in Kernel
  /\ accounts'[c][a].permissions = accounts[c][a].permissions
  /\ <<c, a>> \in touched'
  /\ \A k \in Checks :
       check[k].env # None /\ check[k].env.rpc = c /\ check[k].env.account = a
         => check'[k].overtaken

LEMMA AccountInclude ==
  ASSUME TInv, NEW d \in ALLOWED_CHAIN_IDS, Include(d),
         NEW c \in ALLOWED_CHAIN_IDS, NEW a \in Account
  PROVE  Kept(c, a) \/ Operated(c, a) \/ Created(c, a)
<1>1. PICK op \in pool[d], success \in BOOLEAN :
        /\ Valid(op, d)
        /\ accounts' = [accounts EXCEPT ![d][op.account] = After(op, success)]
  BY DEF Include
<1>2. InstallOK(op) /\ TypeOK
  BY DEF TInv, PoolInv
<1> DEFINE new == After(op, success)
<1>3. /\ op \in Op /\ op.chain = d /\ new \in Kernel
      /\ Deployed(d, op.account) =>
           /\ new.version = accounts[d][op.account].version
           /\ new.root = accounts[d][op.account].root
           /\ new.owner = accounts[d][op.account].owner
      /\ ~Deployed(d, op.account) => new.owner = op.account[1]
      /\ \A p \in new.permissions :
           \/ p.signer # op.signer
           \/ Deployed(d, op.account) /\ p \in accounts[d][op.account].permissions
  BY <1>1, <1>2, AfterType
<1>4. /\ Deployed(d, op.account) => accounts[d][op.account].owner = op.signer
      /\ ~Deployed(d, op.account) => op.account[1] = op.signer
  BY <1>1 DEF Valid
<1>5. accounts \in [ALLOWED_CHAIN_IDS -> [Account -> Kernel \cup {None}]]
      /\ op.account \in Account
  BY <1>2, <1>3 DEF TypeOK, ProvisioningTypeOK, Op
<1> HIDE DEF new
<1>6. accounts'[c][a] = IF c = d /\ a = op.account THEN new ELSE accounts[c][a]
  BY <1>1, <1>5 DEF new
<1>7. CASE c = d /\ a = op.account /\ Deployed(c, a)
  <2>1. accounts'[c][a] = new
    BY <1>6, <1>7
  <2> QED BY <1>3, <1>4, <1>7, <2>1 DEF Operated
<1>8. CASE c = d /\ a = op.account /\ ~Deployed(c, a)
  <2>1. accounts'[c][a] = new
    BY <1>6, <1>8
  <2> QED BY <1>3, <1>4, <1>8, <2>1 DEF Created
<1>9. CASE ~(c = d /\ a = op.account)
  BY <1>6, <1>9 DEF Kept
<1> QED BY <1>7, <1>8, <1>9

LEMMA AccountChange ==
  ASSUME TInv, NEW d \in ALLOWED_CHAIN_IDS, NEW b \in Account, OwnerChanges(d, b),
         NEW c \in ALLOWED_CHAIN_IDS, NEW a \in Account
  PROVE  Kept(c, a) \/ Changed(c, a)
<1>0. accounts \in [ALLOWED_CHAIN_IDS -> [Account -> Kernel \cup {None}]]
  BY DEF TInv, TypeOK, ProvisioningTypeOK
<1>1. accounts[d][b] \in Kernel
  BY <1>0 DEF OwnerChanges, Deployed
<1> DEFINE Alike(k) == k \in Kernel /\ k.permissions = accounts[d][b].permissions
<1>2. \E k : Alike(k) /\ accounts' = [accounts EXCEPT ![d][b] = k]
  <2>1. Alike([accounts[d][b] EXCEPT !.version = "other"])
    BY <1>1 DEF Kernel
  <2>2. Alike([accounts[d][b] EXCEPT !.root = "other"])
    BY <1>1 DEF Kernel
  <2>3. \A o \in EOAs : Alike([accounts[d][b] EXCEPT !.owner = o])
    BY <1>1 DEF Kernel
  <2> QED BY <2>1, <2>2, <2>3 DEF OwnerChanges
<1>3. CASE c = d /\ a = b
  <2>1. accounts'[c][a] \in Kernel
        /\ accounts'[c][a].permissions = accounts[c][a].permissions
    BY <1>0, <1>2, <1>3
  <2>2. Deployed(c, a) /\ <<c, a>> \in touched'
    BY <1>3 DEF OwnerChanges
  <2>3. ASSUME NEW k \in Checks, check[k].env # None, check[k].env.rpc = c,
               check[k].env.account = a
        PROVE  check'[k].overtaken
    <3>1. check'[k] = [check[k] EXCEPT !.overtaken = TRUE]
      BY <1>3, <2>3 DEF OwnerChanges
    <3>2. check[k] \in Check
      BY DEF TInv, TypeOK, ProvisioningTypeOK
    <3> QED BY <3>1, <3>2 DEF Check
  <2> QED BY <2>1, <2>2, <2>3 DEF Changed
<1>4. CASE ~(c = d /\ a = b)
  BY <1>0, <1>2, <1>4 DEF Kept
<1> QED BY <1>3, <1>4

(* The steps that leave the chain's accounts alone. *)
LEMMA AccountStep ==
  ASSUME TInv, [Next]_vars, NEW c \in ALLOWED_CHAIN_IDS, NEW a \in Account
  PROVE  /\ Kept(c, a) \/ Operated(c, a) \/ Created(c, a) \/ Changed(c, a)
         /\ touched \subseteq touched'
<1>1. CASE \E d \in ALLOWED_CHAIN_IDS : Include(d)
  BY <1>1, AccountInclude DEF Include
<1>2. CASE \E d \in ALLOWED_CHAIN_IDS : \E b \in Account : OwnerChanges(d, b)
  <2>1. PICK d \in ALLOWED_CHAIN_IDS : \E b \in Account : OwnerChanges(d, b)
    BY <1>2
  <2>2. PICK b \in Account : OwnerChanges(d, b)
    BY <2>1
  <2>3. touched \subseteq touched'
    BY <2>2 DEF OwnerChanges
  <2> QED BY <2>2, <2>3, AccountChange
<1>3. CASE UNCHANGED <<accounts, touched>>
  BY <1>3 DEF Kept
<1>4. ASSUME NEW r \in Provisions,
             \/ DryRun(r) \/ Broadcast(r) \/ ProvisionFails(r) \/ RefuseRedeploy(r)
             \/ BuildDeploy(r) \/ SendDeploy(r) \/ ConfirmDeploy(r)
      PROVE  UNCHANGED <<accounts, touched, landed>>
  BY <1>4
  DEF DryRun, Broadcast, ProvisionFails, RefuseRedeploy, BuildDeploy, SendDeploy,
      ConfirmDeploy, ProvisionStep
<1>5. ASSUME NEW k \in Checks,
             \/ StartCheck(k) \/ ReadDeployed(k) \/ ReadImplementation(k)
             \/ ReadVersion(k) \/ ReadNonce(k) \/ buildReceipt(k) \/ CheckFails(k)
      PROVE  UNCHANGED <<accounts, touched>>
  BY <1>5
  DEF StartCheck, ReadDeployed, ReadImplementation, ReadVersion, ReadNonce,
      buildReceipt, CheckFails, CheckStep, chainVars, observe
<1>6. ASSUME ~(ProvisioningNext /\ UNCHANGED authorityVars)
      PROVE  UNCHANGED <<accounts, touched>>
  BY <1>6
  DEF Next, vars, AdapterStarts, assertBaseChainIdentity, AdapterStops, GrantRefused,
      GrantBuilds, GrantSends, GrantReceives, GrantFails, GrantStep, OnlyPool,
      SentinelBuilds, RevokeRefused, UninstallBuilds, RevokeSends, RevokeReceives,
      RevokeFails, RevokeStep, provisioningVars, chainVars
<1>7. ASSUME NEW d \in ALLOWED_CHAIN_IDS, Drop(d)
      PROVE  UNCHANGED <<accounts, touched>>
  BY <1>7 DEF Drop
<1> QED BY <1>1, <1>2, <1>3, <1>4, <1>5, <1>6, <1>7 DEF ProvisioningNext

-----------------------------------------------------------------------------
(* A session key is never the account's own. *)

LEMMA SessionStep ==
  ASSUME TInv, SessionIsNotRoot, [Next]_vars
  PROVE  SessionIsNotRoot'
<1> SUFFICES ASSUME NEW c \in ALLOWED_CHAIN_IDS, NEW a \in Account,
                    Deployed(c, a)', <<c, a>> \notin touched'
             PROVE  \A p \in accounts'[c][a].permissions :
                      p.signer # accounts'[c][a].owner
  BY DEF SessionIsNotRoot
<1>1. /\ Kept(c, a) \/ Operated(c, a) \/ Created(c, a) \/ Changed(c, a)
      /\ touched \subseteq touched'
  BY AccountStep
<1>2. CASE Kept(c, a)
  BY <1>1, <1>2 DEF Kept, Deployed, SessionIsNotRoot
<1>3. CASE Operated(c, a)
  BY <1>1, <1>3 DEF Operated, SessionIsNotRoot
<1>4. CASE Created(c, a)
  BY <1>4 DEF Created
<1>5. CASE Changed(c, a)
  BY <1>5 DEF Changed
<1> QED BY <1>1, <1>2, <1>3, <1>4, <1>5

(* config/index.ts refuses an operator's key that is the session's, and a   *)
(* kernel takes an installation only with its owner's signature: no         *)
(* permission on an account its owner has left alone is for that owner's    *)
(* key, whatever environments the adapter was started with, how often, and  *)
(* whichever grants and revokes raced.                                      *)
THEOREM SessionNeverRoot == Spec => []SessionIsNotRoot
<1>1. Init => SessionIsNotRoot
  BY DEF Init, ProvisioningInit, SessionIsNotRoot, Deployed
<1>2. TInv /\ SessionIsNotRoot /\ [Next]_vars => SessionIsNotRoot'
  BY SessionStep
<1> QED BY <1>1, <1>2, TypeInvariant, PTL DEF Spec

-----------------------------------------------------------------------------
(* What a check has found stays true until the owner overtakes it. *)

FoundOf(ck, kernel) ==
  /\ ck.pc \in {"implementation", "version", "nonce", "root", "ok"} => kernel # None
  /\ ck.pc \in {"version", "nonce", "root", "ok"} /\ ck.ok /\ ~ck.overtaken =>
       kernel.version = PINNED_KERNEL_VERSION
  /\ ck.pc = "ok" => ck.ok /\ (~ck.overtaken => kernel.root = "ecdsa")

CheckedInv ==
  \A k \in Checks : check[k].pc \notin {"idle", "failed"} =>
    FoundOf(check[k], accounts[check[k].env.rpc][check[k].env.account])

LEMMA CheckedPlace ==
  ASSUME TInv, NEW k \in Checks, check[k].pc \notin {"idle", "failed"}
  PROVE  /\ check[k].env # None
         /\ check[k].env.rpc \in ALLOWED_CHAIN_IDS
         /\ check[k].env.account \in Account
<1>1. check[k].env \in Envs /\ parseEnv(check[k].env)
  BY DEF TInv, RunsInv, CheckOK
<1>2. check[k].env \in Env
  BY <1>1, EnvType
<1>3. check[k].env.rpc \in ALLOWED_CHAIN_IDS /\ check[k].env.account \in Account
  BY <1>1, <1>2 DEF Env, parseEnv, readAddress, readUrl
<1> QED BY <1>1, <1>3, NoneAssumption

(* What a check has found stays true of an account no owner changes. *)
LEMMA FoundStays ==
  ASSUME NEW c, NEW a, NEW ck, NEW later, FoundOf(ck, accounts[c][a]),
         later.pc = ck.pc, later.ok = ck.ok, ~later.overtaken => ~ck.overtaken,
         Changed(c, a) => later.overtaken,
         Kept(c, a) \/ Operated(c, a) \/ Created(c, a) \/ Changed(c, a)
  PROVE  FoundOf(later, accounts'[c][a])
<1>1. CASE Kept(c, a)
  BY <1>1 DEF Kept, FoundOf
<1>2. CASE Operated(c, a)
  <2>1. accounts'[c][a] # None
    BY <1>2, NoneAssumption DEF Operated
  <2>2. /\ accounts'[c][a].version = accounts[c][a].version
        /\ accounts'[c][a].root = accounts[c][a].root
    BY <1>2 DEF Operated
  <2> QED BY <2>1, <2>2 DEF FoundOf
<1>3. CASE Created(c, a)
  <2>1. accounts[c][a] = None
    BY <1>3 DEF Created, Deployed
  <2>2. ck.pc \notin {"implementation", "version", "nonce", "root", "ok"}
    BY <2>1 DEF FoundOf
  <2> QED BY <2>2 DEF FoundOf
<1>4. CASE Changed(c, a)
  <2>1. later.overtaken /\ accounts'[c][a] # None
    BY <1>4, NoneAssumption DEF Changed
  <2> QED BY <2>1 DEF FoundOf
<1> QED BY <1>1, <1>2, <1>3, <1>4

(* A step that leaves a check where it is, at most overtaken. *)
LEMMA CheckedStays ==
  ASSUME TInv, CheckedInv, [Next]_vars, NEW k \in Checks,
         check[k].pc \notin {"idle", "failed"},
         check'[k] = check[k] \/ check'[k] = [check[k] EXCEPT !.overtaken = TRUE],
         \A c \in ALLOWED_CHAIN_IDS, a \in Account :
           Changed(c, a) /\ check[k].env.rpc = c /\ check[k].env.account = a
             => check'[k].overtaken
  PROVE  FoundOf(check'[k], accounts'[check'[k].env.rpc][check'[k].env.account])
<1> DEFINE c == check[k].env.rpc
           a == check[k].env.account
<1>1. c \in ALLOWED_CHAIN_IDS /\ a \in Account
  BY CheckedPlace
<1>2. FoundOf(check[k], accounts[c][a])
  BY DEF CheckedInv
<1>3. check[k] \in Check
  BY DEF TInv, TypeOK, ProvisioningTypeOK
<1>4. /\ check'[k].env = check[k].env /\ check'[k].pc = check[k].pc
      /\ check'[k].ok = check[k].ok
      /\ ~check'[k].overtaken => ~check[k].overtaken
  BY <1>3 DEF Check
<1>5. Kept(c, a) \/ Operated(c, a) \/ Created(c, a) \/ Changed(c, a)
  BY <1>1, AccountStep
<1>6. Changed(c, a) => check'[k].overtaken
  BY <1>1
<1>7. FoundOf(check'[k], accounts'[c][a])
  BY <1>2, <1>4, <1>5, <1>6, FoundStays
<1> QED BY <1>4, <1>7

(* Reading the nonce adds nothing to what the check has found. *)
LEMMA FoundByNonce ==
  ASSUME NEW ck, NEW later, NEW kernel, FoundOf(ck, kernel),
         ck.pc = "nonce", later.pc = "root", later.ok = ck.ok,
         later.overtaken = ck.overtaken
  PROVE  FoundOf(later, kernel)
BY DEF FoundOf

(* A read, and what it adds to what the check has found. *)
LEMMA CheckedReads ==
  ASSUME TInv, CheckedInv, NEW k \in Checks,
         \/ StartCheck(k) \/ ReadDeployed(k) \/ ReadImplementation(k)
         \/ ReadVersion(k) \/ ReadNonce(k) \/ buildReceipt(k) \/ CheckFails(k)
  PROVE  CheckedInv'
<1>0. check \in [Checks -> Check] /\ check[k] \in Check
  BY DEF TInv, TypeOK, ProvisioningTypeOK
<1>1. ASSUME NEW ck, check' = [check EXCEPT ![k] = ck], UNCHANGED accounts,
             ck.pc \notin {"idle", "failed"} =>
               FoundOf(ck, accounts[ck.env.rpc][ck.env.account])
      PROVE  CheckedInv'
  BY <1>0, <1>1 DEF CheckedInv
<1>2. FailedCheck.pc = "failed"
  BY DEF FailedCheck, NewCheck
<1>a. check[k].pc \notin {"idle", "failed"} => FoundOf(check[k], observed(k))
  BY DEF CheckedInv, observed
<1>3. ASSUME NEW read \in {"deployed", "implementation", "version", "nonce", "root"},
             NEW next \in {"implementation", "version", "nonce", "root", "ok",
                           "failed"},
             NEW finding \in BOOLEAN, observe(k, read, next, finding),
             next # "failed" =>
               FoundOf([check[k] EXCEPT !.pc = next, !.ok = check[k].ok /\ finding],
                       observed(k))
      PROVE  CheckedInv'
  <2>1. UNCHANGED accounts
    BY <1>3 DEF observe, CheckStep, chainVars
  <2>2. CASE next = "failed"
    BY <1>1, <1>2, <1>3, <2>1, <2>2 DEF observe
  <2>3. CASE next # "failed"
    <3> DEFINE new == [check[k] EXCEPT !.pc = next, !.ok = check[k].ok /\ finding]
    <3>1. check' = [check EXCEPT ![k] = new]
      BY <1>0, <1>3, <2>3 DEF observe
    <3>2. new.env = check[k].env /\ FoundOf(new, observed(k))
      BY <1>0, <1>3, <2>3 DEF Check
    <3>3. FoundOf(new, accounts[new.env.rpc][new.env.account])
      BY <3>2 DEF observed
    <3> HIDE DEF new
    <3> QED BY <1>1, <2>1, <3>1, <3>3
  <2> QED BY <2>2, <2>3
<1>4. CASE StartCheck(k)
  <2>1. PICK e \in Envs : check' = [check EXCEPT ![k].pc = "deployed", ![k].env = e]
    BY <1>4 DEF StartCheck
  <2> DEFINE new == [check[k] EXCEPT !.pc = "deployed", !.env = e]
  <2>2. check' = [check EXCEPT ![k] = new] /\ new.pc = "deployed"
    BY <1>0, <2>1 DEF Check
  <2>3. UNCHANGED accounts
    BY <1>4 DEF StartCheck, CheckStep, chainVars
  <2>4. \A kernel : FoundOf(new, kernel)
    BY <2>2 DEF FoundOf
  <2> HIDE DEF new
  <2> QED BY <1>1, <2>2, <2>3, <2>4
<1>5. CASE ReadDeployed(k)
  BY <1>0, <1>3, <1>5 DEF ReadDeployed, FoundOf, Check
<1>6. CASE ReadImplementation(k)
  BY <1>0, <1>a, <1>3, <1>6 DEF ReadImplementation, PinnedVersion, FoundOf, Check
<1>7. CASE ReadVersion(k)
  BY <1>0, <1>a, <1>3, <1>7 DEF ReadVersion, PinnedVersion, FoundOf, Check
<1>8. CASE ReadNonce(k)
  <2>1. check[k].pc = "nonce" /\ observe(k, "nonce", "root", TRUE)
    BY <1>8 DEF ReadNonce, observe
  <2> DEFINE new == [check[k] EXCEPT !.pc = "root", !.ok = check[k].ok /\ TRUE]
  <2>2. /\ new.pc = "root" /\ new.overtaken = check[k].overtaken
        /\ new.ok = check[k].ok
    BY <1>0 DEF Check
  <2>3. FoundOf(check[k], observed(k))
    BY <1>a, <2>1
  <2>4. FoundOf(new, observed(k))
    BY <2>1, <2>2, <2>3, FoundByNonce
  <2> QED BY <1>3, <2>1, <2>4
<1>9. CASE buildReceipt(k)
  <2> DEFINE finding == observed(k).root = "ecdsa"
             next == IF check[k].ok /\ finding THEN "ok" ELSE "failed"
  <2>1. check[k].pc = "root" /\ observe(k, "root", next, finding)
    BY <1>9 DEF buildReceipt
  <2>2. next # "failed" =>
          FoundOf([check[k] EXCEPT !.pc = next, !.ok = check[k].ok /\ finding],
                  observed(k))
    BY <1>0, <1>a, <2>1 DEF FoundOf, Check
  <2>3. finding \in BOOLEAN /\ next \in {"ok", "failed"}
    OBVIOUS
  <2> HIDE DEF finding, next
  <2> QED BY <1>3, <2>1, <2>2, <2>3
<1>10. CASE CheckFails(k)
  BY <1>1, <1>2, <1>10 DEF CheckFails, CheckStep, chainVars
<1> QED BY <1>4, <1>5, <1>6, <1>7, <1>8, <1>9, <1>10

LEMMA CheckedStep ==
  ASSUME TInv, CheckedInv, [Next]_vars
  PROVE  CheckedInv'
<1>1. CASE \E k \in Checks :
             \/ StartCheck(k) \/ ReadDeployed(k) \/ ReadImplementation(k)
             \/ ReadVersion(k) \/ ReadNonce(k) \/ buildReceipt(k) \/ CheckFails(k)
  BY <1>1, CheckedReads
<1>0. \A k \in Checks : check[k] \in Check
  BY DEF TInv, TypeOK, ProvisioningTypeOK
<1>2. ASSUME NEW k \in Checks, check[k].pc \notin {"idle", "failed"},
             check'[k] = check[k] \/ check'[k] = [check[k] EXCEPT !.overtaken = TRUE]
      PROVE  FoundOf(check'[k], accounts'[check'[k].env.rpc][check'[k].env.account])
  BY <1>2, CheckedPlace, CheckedStays DEF Changed
<1>3. ASSUME \A k \in Checks :
               check'[k] = check[k] \/ check'[k] = [check[k] EXCEPT !.overtaken = TRUE]
      PROVE  CheckedInv'
  <2> SUFFICES ASSUME NEW k \in Checks, check'[k].pc \notin {"idle", "failed"}
               PROVE  FoundOf(check'[k],
                              accounts'[check'[k].env.rpc][check'[k].env.account])
    BY DEF CheckedInv
  <2>1. check[k].pc = check'[k].pc
    BY <1>0, <1>3 DEF Check
  <2> QED BY <1>2, <1>3, <2>1
<1>4. ASSUME NEW c \in ALLOWED_CHAIN_IDS, NEW a \in Account, OwnerChanges(c, a)
      PROVE  \A k \in Checks :
               check'[k] = check[k] \/ check'[k] = [check[k] EXCEPT !.overtaken = TRUE]
  BY <1>4 DEF OwnerChanges
<1>5. ASSUME NEW r \in Provisions,
             \/ DryRun(r) \/ Broadcast(r) \/ ProvisionFails(r) \/ RefuseRedeploy(r)
             \/ BuildDeploy(r) \/ SendDeploy(r) \/ ConfirmDeploy(r)
      PROVE  UNCHANGED check
  BY <1>5
  DEF DryRun, Broadcast, ProvisionFails, RefuseRedeploy, BuildDeploy, SendDeploy,
      ConfirmDeploy, ProvisionStep
<1>6. ASSUME ~(ProvisioningNext /\ UNCHANGED authorityVars)
      PROVE  UNCHANGED check
  BY <1>6
  DEF Next, vars, AdapterStarts, assertBaseChainIdentity, AdapterStops, GrantRefused,
      GrantBuilds, GrantSends, GrantReceives, GrantFails, GrantStep, OnlyPool,
      SentinelBuilds, RevokeRefused, UninstallBuilds, RevokeSends, RevokeReceives,
      RevokeFails, RevokeStep, provisioningVars
<1>7. ASSUME NEW c \in ALLOWED_CHAIN_IDS, Include(c) \/ Drop(c)
      PROVE  UNCHANGED check
  BY <1>7 DEF Include, Drop
<1> QED BY <1>1, <1>3, <1>4, <1>5, <1>6, <1>7 DEF ProvisioningNext

LEMMA CheckedInvariant == Spec => []CheckedInv
<1>1. Init => CheckedInv
  BY DEF Init, ProvisioningInit, CheckedInv, NewCheck
<1>2. TInv /\ CheckedInv /\ [Next]_vars => CheckedInv'
  BY CheckedStep
<1> QED BY <1>1, <1>2, TypeInvariant, PTL DEF Spec

(* The five reads of verify-installed-validator.ts are of five moments, and *)
(* the adapter is started later, from an environment that need not be the   *)
(* script's: yet an adapter that came up for the account and the endpoint   *)
(* an approving check read signs for the chain that was checked, for a      *)
(* deployed account of the pinned version and root, until its owner changes *)
(* it.                                                                      *)
THEOREM BootVerified == Spec => []BootedOnVerified
<1>1. ASSUME TInv, CheckedInv, NEW k \in Checks, check[k].pc = "ok",
             ~check[k].overtaken, adapter.pc = "up",
             adapter.env.account = check[k].env.account,
             adapter.env.rpc = check[k].env.rpc
      PROVE  LET kernel == accounts[baseChainId(adapter.env)][check[k].env.account]
             IN /\ kernel # None
                /\ kernel.version = PINNED_KERNEL_VERSION /\ kernel.root = "ecdsa"
  <2>1. baseChainId(adapter.env) = check[k].env.rpc
    BY <1>1 DEF TInv, AdapterInv
  <2> QED BY <1>1, <2>1 DEF CheckedInv, FoundOf
<1>2. TInv /\ CheckedInv => BootedOnVerified
  BY <1>1 DEF BootedOnVerified, Deployed
<1> QED BY <1>2, TypeInvariant, CheckedInvariant, PTL

-----------------------------------------------------------------------------
(* What a printed receipt says. *)

(* What a chain has included was meant for it, and left an account there;   *)
(* an account its owner has left alone is its first owner's.                *)
LandedInv ==
  \A c \in ALLOWED_CHAIN_IDS :
    /\ \A i \in DOMAIN landed[c] :
         /\ landed[c][i].op.chain = c
         /\ Deployed(c, landed[c][i].op.account)
    /\ \A a \in Account : Deployed(c, a) /\ <<c, a>> \notin touched =>
         accounts[c][a].owner = a[1]

(* A run's operation is for the account and the chain its receipt will name. *)
SentFor(run) ==
  run.pc \in {"sending", "waiting"} =>
    /\ run.op.account = deriveExpectedKernelAddress(run.env)
    /\ run.op.chain = readChainId(run.env)

ReceiptLanded(receipt) ==
  /\ receipt.chain \in ALLOWED_CHAIN_IDS /\ receipt.account \in Account
  /\ receipt.account[1] = receipt.owner
  /\ receipt.op.account = receipt.account
  /\ Receipts(receipt.chain, receipt.op) # {}

PrintedLanded(r) ==
  provision[r].pc = "printed" /\ provision[r].receipt.mode = "broadcast" =>
    ReceiptLanded(provision[r].receipt)

RInv ==
  /\ LandedInv
  /\ \A r \in Provisions : SentFor(provision[r]) /\ PrintedLanded(r)

(* A chain forgets nothing it has included. *)
LEMMA LandedStep ==
  ASSUME TInv, [Next]_vars, NEW c \in ALLOWED_CHAIN_IDS
  PROVE  /\ \/ landed'[c] = landed[c]
            \/ \E op \in pool[c], success \in BOOLEAN :
                 /\ Valid(op, c) /\ accounts'[c][op.account] # None
                 /\ landed'[c] = Append(landed[c], [op |-> op, success |-> success])
         /\ \A op : Receipts(c, op) \subseteq Receipts(c, op)'
<1>0. landed \in [ALLOWED_CHAIN_IDS -> Seq([op : Op, success : BOOLEAN])]
      /\ accounts \in [ALLOWED_CHAIN_IDS -> [Account -> Kernel \cup {None}]]
  BY DEF TInv, TypeOK, ProvisioningTypeOK
<1>1. CASE \E d \in ALLOWED_CHAIN_IDS : Include(d)
  <2>1. PICK d \in ALLOWED_CHAIN_IDS : Include(d)
    BY <1>1
  <2>2. PICK op \in pool[d], success \in BOOLEAN :
          /\ Valid(op, d)
          /\ landed' = [landed EXCEPT ![d] = Append(@, [op |-> op,
                                                        success |-> success])]
          /\ accounts' = [accounts EXCEPT ![d][op.account] = After(op, success)]
    BY <2>1 DEF Include
  <2>3. CASE d = c
    <3>1. op \in Op /\ After(op, success) \in Kernel
      BY <2>2, AfterType DEF TInv, PoolInv
    <3>2. accounts'[c][op.account] # None
      <4>1. accounts'[c][op.account] = After(op, success)
        BY <1>0, <2>2, <2>3, <3>1 DEF Op
      <4> QED BY <3>1, <4>1, NoneAssumption
    <3>3. landed'[c] = Append(landed[c], [op |-> op, success |-> success])
      BY <1>0, <2>2, <2>3
    <3>4. \A i \in DOMAIN landed[c] :
            i \in DOMAIN landed'[c] /\ landed'[c][i] = landed[c][i]
      <4>1. landed[c] \in Seq([op : Op, success : BOOLEAN])
        BY <1>0
      <4>2. [op |-> op, success |-> success] \in [op : Op, success : BOOLEAN]
        BY <3>1
      <4> QED BY <3>3, <4>1, <4>2, AppendProperties
    <3> QED BY <2>2, <2>3, <3>2, <3>3, <3>4 DEF Receipts
  <2>4. CASE d # c
    <3>1. landed'[c] = landed[c]
      BY <1>0, <2>2, <2>4
    <3> QED BY <3>1 DEF Receipts
  <2> QED BY <2>3, <2>4
<1>2. CASE UNCHANGED landed
  BY <1>2 DEF Receipts
<1>3. ASSUME NEW d \in ALLOWED_CHAIN_IDS, NEW a \in Account,
             Drop(d) \/ OwnerChanges(d, a)
      PROVE  UNCHANGED landed
  BY <1>3 DEF Drop, OwnerChanges
<1>4. ASSUME NEW r \in Provisions,
             \/ DryRun(r) \/ Broadcast(r) \/ ProvisionFails(r) \/ RefuseRedeploy(r)
             \/ BuildDeploy(r) \/ SendDeploy(r) \/ ConfirmDeploy(r)
      PROVE  UNCHANGED landed
  BY <1>4
  DEF DryRun, Broadcast, ProvisionFails, RefuseRedeploy, BuildDeploy, SendDeploy,
      ConfirmDeploy, ProvisionStep
<1>5. ASSUME NEW k \in Checks,
             \/ StartCheck(k) \/ ReadDeployed(k) \/ ReadImplementation(k)
             \/ ReadVersion(k) \/ ReadNonce(k) \/ buildReceipt(k) \/ CheckFails(k)
      PROVE  UNCHANGED landed
  BY <1>5, SMTT(40)
  DEF StartCheck, ReadDeployed, ReadImplementation, ReadVersion, ReadNonce,
      buildReceipt, CheckFails, CheckStep, chainVars, observe
<1>6. ASSUME ~(ProvisioningNext /\ UNCHANGED authorityVars)
      PROVE  UNCHANGED landed
  BY <1>6
  DEF Next, vars, AdapterStarts, assertBaseChainIdentity, AdapterStops, GrantRefused,
      GrantBuilds, GrantSends, GrantReceives, GrantFails, GrantStep, OnlyPool,
      SentinelBuilds, RevokeRefused, UninstallBuilds, RevokeSends, RevokeReceives,
      RevokeFails, RevokeStep, provisioningVars, chainVars
<1>7. ASSUME NEW d \in ALLOWED_CHAIN_IDS, Drop(d)
      PROVE  UNCHANGED landed
  BY <1>7 DEF Drop
<1> QED BY <1>1, <1>2, <1>3, <1>4, <1>5, <1>6, <1>7 DEF ProvisioningNext

LEMMA LandedPreserved ==
  ASSUME TInv, LandedInv, [Next]_vars
  PROVE  LandedInv'
<1> SUFFICES ASSUME NEW c \in ALLOWED_CHAIN_IDS
             PROVE  /\ \A i \in DOMAIN landed'[c] :
                         /\ landed'[c][i].op.chain = c
                         /\ accounts'[c][landed'[c][i].op.account] # None
                    /\ \A a \in Account :
                         accounts'[c][a] # None /\ <<c, a>> \notin touched' =>
                           accounts'[c][a].owner = a[1]
  BY DEF LandedInv, Deployed
<1>0. landed[c] \in Seq([op : Op, success : BOOLEAN])
  BY DEF TInv, TypeOK, ProvisioningTypeOK
<1>a. ASSUME NEW i \in DOMAIN landed[c]
      PROVE  landed[c][i].op.account \in Account
  <2>1. DOMAIN landed[c] = 1..Len(landed[c])
    BY <1>0
  <2>2. landed[c][i] \in [op : Op, success : BOOLEAN]
    BY <1>0, <2>1, ElementOfSeq
  <2>3. landed[c][i].op \in Op
    BY <2>2
  <2> QED BY <2>3 DEF Op
<1>1. ASSUME NEW a \in Account
      PROVE  /\ Deployed(c, a) => accounts'[c][a] # None
             /\ accounts'[c][a] # None /\ <<c, a>> \notin touched' =>
                  accounts'[c][a].owner = a[1]
  <2>0. Deployed(c, a) /\ <<c, a>> \notin touched => accounts[c][a].owner = a[1]
    BY DEF LandedInv
  <2>1. /\ Kept(c, a) \/ Operated(c, a) \/ Created(c, a) \/ Changed(c, a)
        /\ touched \subseteq touched'
    BY AccountStep
  <2>2. CASE Kept(c, a)
    BY <2>0, <2>1, <2>2 DEF Kept, Deployed
  <2>3. CASE Operated(c, a)
    BY <2>0, <2>1, <2>3, NoneAssumption DEF Operated, Deployed
  <2>4. CASE Created(c, a)
    BY <2>4 DEF Created
  <2>5. CASE Changed(c, a)
    BY <2>5, NoneAssumption DEF Changed, Deployed
  <2> QED BY <2>1, <2>2, <2>3, <2>4, <2>5
<1>2. \A i \in DOMAIN landed[c] :
        landed[c][i].op.chain = c /\ accounts'[c][landed[c][i].op.account] # None
  BY <1>a, <1>1 DEF LandedInv
<1>3. CASE landed'[c] = landed[c]
  BY <1>1, <1>2, <1>3
<1>4. CASE landed'[c] # landed[c]
  <2>1. PICK op \in pool[c], success \in BOOLEAN :
          /\ Valid(op, c) /\ accounts'[c][op.account] # None
          /\ landed'[c] = Append(landed[c], [op |-> op, success |-> success])
    BY <1>4, LandedStep
  <2>2. op.chain = c /\ op \in Op
    BY <2>1 DEF Valid, TInv, TypeOK, ProvisioningTypeOK
  <2> DEFINE new == [op |-> op, success |-> success]
  <2>3. new \in [op : Op, success : BOOLEAN] /\ new.op = op
    BY <2>2
  <2> HIDE DEF new
  <2>4. landed'[c] = Append(landed[c], new)
    BY <2>1 DEF new
  <2>5. ASSUME NEW i \in DOMAIN landed'[c]
        PROVE  \/ landed'[c][i] = new
               \/ i \in DOMAIN landed[c] /\ landed'[c][i] = landed[c][i]
    BY <1>0, <2>3, <2>4, <2>5, AppendProperties
  <2> QED BY <1>1, <1>2, <2>1, <2>2, <2>3, <2>5
<1> QED BY <1>3, <1>4

(* The steps of the runs themselves. *)
LEMMA SentForStep ==
  ASSUME TInv, RInv, [Next]_vars, NEW r \in Provisions,
         \/ DryRun(r) \/ Broadcast(r) \/ ProvisionFails(r) \/ RefuseRedeploy(r)
         \/ BuildDeploy(r) \/ SendDeploy(r) \/ ConfirmDeploy(r)
  PROVE  /\ UNCHANGED landed
         /\ \A q \in Provisions \ {r} : provision'[q] = provision[q]
         /\ SentFor(provision'[r])
         /\ provision'[r].pc = "printed" /\ provision'[r].receipt.mode = "broadcast"
              => ReceiptLanded(provision'[r].receipt)
<1> DEFINE run == provision[r]
           env == run.env
           Goal(new) ==
             /\ UNCHANGED landed
             /\ \A q \in Provisions \ {r} : provision'[q] = provision[q]
             /\ SentFor(new)
             /\ new.pc = "printed" /\ new.receipt.mode = "broadcast"
                  => ReceiptLanded(new.receipt)
<1>0. run \in Run /\ RunOK(run) /\ provision \in [Provisions -> Run] /\ SentFor(run)
  BY DEF TInv, TypeOK, ProvisioningTypeOK, RunsInv, RInv
<1>a. UNCHANGED landed
  BY DEF DryRun, Broadcast, ProvisionFails, RefuseRedeploy, BuildDeploy, SendDeploy,
         ConfirmDeploy, ProvisionStep
<1>b. ASSUME NEW new, provision' = [provision EXCEPT ![r] = new], SentFor(new),
             new.pc = "printed" /\ new.receipt.mode = "broadcast"
               => ReceiptLanded(new.receipt)
      PROVE  Goal(provision'[r])
  BY <1>0, <1>a, <1>b
<1>1. CASE DryRun(r)
  <2>1. PICK e \in Envs : provision' = [provision EXCEPT ![r] = Printed(buildDryRunReceipt(e))]
    BY <1>1 DEF DryRun
  <2> DEFINE new == Printed(buildDryRunReceipt(e))
  <2>2. new.pc = "printed" /\ new.receipt.mode = "dry-run"
    BY DEF Printed, NewRun, buildDryRunReceipt
  <2> HIDE DEF new
  <2>3. provision' = [provision EXCEPT ![r] = new]
    BY <2>1 DEF new
  <2> QED BY <1>b, <2>2, <2>3 DEF SentFor
<1>2. CASE Broadcast(r) \/ RefuseRedeploy(r)
  <2>1. provision'[r].pc \in {"checking", "building"}
        /\ \A q \in Provisions \ {r} : provision'[q] = provision[q]
    BY <1>0, <1>2 DEF Broadcast, RefuseRedeploy, Run
  <2> QED BY <1>a, <2>1 DEF SentFor
<1>3. CASE ProvisionFails(r)
  <2>1. provision'[r].pc = "failed"
        /\ \A q \in Provisions \ {r} : provision'[q] = provision[q]
    BY <1>0, <1>3 DEF ProvisionFails, NewRun
  <2> QED BY <1>a, <2>1 DEF SentFor
<1>4. CASE BuildDeploy(r)
  <2>1. PICK op :
          /\ op.account = deriveExpectedKernelAddress(env)
          /\ op.chain = readChainId(env)
          /\ provision' = [provision EXCEPT ![r].pc = "sending", ![r].op = op]
    <3>1. PICK fee \in Fees :
            provision' = [provision EXCEPT ![r].pc = "sending", ![r].op =
              [kind |-> "selfcall", account |-> deriveExpectedKernelAddress(env),
               chain |-> readChainId(env), signer |-> env.key,
               creates |-> InitCode(env.rpc, deriveExpectedKernelAddress(env),
                                    env.key, Salt(env)),
               permission |-> None,
               nonce |-> NextNonce(env.rpc, deriveExpectedKernelAddress(env), None),
               fee |-> fee]]
      BY <1>4 DEF BuildDeploy
    <3> QED BY <3>1
  <2> DEFINE new == [run EXCEPT !.pc = "sending", !.op = op]
  <2>2. new.pc = "sending" /\ new.op = op /\ new.env = env
    BY <1>0 DEF Run
  <2>3. provision' = [provision EXCEPT ![r] = new]
    BY <1>0, <2>1
  <2> HIDE DEF new
  <2>4. SentFor(new)
    BY <2>1, <2>2 DEF SentFor
  <2> QED BY <1>b, <2>2, <2>3, <2>4
<1>5. CASE SendDeploy(r)
  <2> DEFINE new == [run EXCEPT !.pc = "waiting"]
  <2>1. run.pc = "sending" /\ provision' = [provision EXCEPT ![r] = new]
    BY <1>0, <1>5 DEF SendDeploy
  <2>2. new.pc = "waiting" /\ new.op = run.op /\ new.env = env
    BY <1>0 DEF Run
  <2> HIDE DEF new
  <2>3. SentFor(new)
    BY <1>0, <2>1, <2>2 DEF SentFor
  <2> QED BY <1>b, <2>1, <2>2, <2>3
<1>6. CASE ConfirmDeploy(r)
  <2> DEFINE receipt == buildBroadcastReceipt(env, run.op)
             new == Printed(receipt)
  <2>0. run.pc = "waiting" /\ Receipts(env.bundler, run.op) # {}
        /\ provision' = [provision EXCEPT ![r] = new]
    BY <1>6 DEF ConfirmDeploy
  <2>1. env \in Envs /\ parseBroadcastEnv(env) /\ env \in Env
    BY <1>0, <2>0, EnvType DEF RunOK
  <2>2. env.bundler \in ALLOWED_CHAIN_IDS
    BY <2>1 DEF Env, parseBroadcastEnv, readUrl
  <2>3. readChainId(env) = env.bundler
    <3>1. PICK i \in DOMAIN landed[env.bundler] : landed[env.bundler][i].op = run.op
      BY <2>0 DEF Receipts
    <3>2. run.op.chain = env.bundler
      BY <2>2, <3>1 DEF RInv, LandedInv
    <3> QED BY <1>0, <2>0, <3>2 DEF SentFor
  <2>4. /\ receipt.chain = readChainId(env) /\ receipt.op = run.op
        /\ receipt.account = deriveExpectedKernelAddress(env)
        /\ receipt.owner = env.address
    BY DEF buildBroadcastReceipt, buildDryRunReceipt
  <2>5. deriveExpectedKernelAddress(env) \in Account
        /\ deriveExpectedKernelAddress(env)[1] = env.address
    BY <2>1, DryRunReceiptType DEF parseBroadcastEnv, deriveExpectedKernelAddress
  <2>6. run.op.account = deriveExpectedKernelAddress(env)
    BY <1>0, <2>0 DEF SentFor
  <2>7. ReceiptLanded(receipt)
    BY <2>0, <2>2, <2>3, <2>4, <2>5, <2>6 DEF ReceiptLanded
  <2>8. new.pc = "printed" /\ new.receipt = receipt
    BY DEF Printed, NewRun
  <2> HIDE DEF new, receipt
  <2>9. SentFor(new)
    BY <2>8 DEF SentFor
  <2> QED BY <1>b, <2>0, <2>7, <2>8, <2>9
<1> QED BY <1>1, <1>2, <1>3, <1>4, <1>5, <1>6

LEMMA ReceiptStep ==
  ASSUME TInv, RInv, [Next]_vars
  PROVE  RInv'
<1>1. LandedInv'
  BY LandedPreserved DEF RInv
<1>2. ASSUME NEW q \in Provisions, provision'[q] = provision[q]
      PROVE  SentFor(provision'[q]) /\ PrintedLanded(q)'
  <2>1. SentFor(provision[q]) /\ PrintedLanded(q)
    BY DEF RInv
  <2> DEFINE receipt == provision[q].receipt
  <2>2. ReceiptLanded(receipt) => ReceiptLanded(provision[q].receipt)'
    <3>1. Receipts(receipt.chain, receipt.op) \subseteq
            {l \in {landed'[receipt.chain][i] : i \in DOMAIN landed'[receipt.chain]} :
               l.op = receipt.op} \/ ~ReceiptLanded(receipt)
      BY LandedStep, SMTT(40) DEF ReceiptLanded, Receipts
    <3> QED BY <1>2, <3>1 DEF ReceiptLanded, Receipts
  <2> QED BY <1>2, <2>1, <2>2 DEF PrintedLanded
<1>3. CASE UNCHANGED provision
  BY <1>1, <1>2, <1>3 DEF RInv
<1>4. ASSUME NEW r \in Provisions,
             \/ DryRun(r) \/ Broadcast(r) \/ ProvisionFails(r) \/ RefuseRedeploy(r)
             \/ BuildDeploy(r) \/ SendDeploy(r) \/ ConfirmDeploy(r)
      PROVE  RInv'
  <2>1. /\ \A q \in Provisions \ {r} : provision'[q] = provision[q]
        /\ SentFor(provision'[r])
        /\ UNCHANGED landed
        /\ provision'[r].pc = "printed" /\ provision'[r].receipt.mode = "broadcast"
             => ReceiptLanded(provision'[r].receipt)
    BY <1>4, SentForStep
  <2>2. PrintedLanded(r)'
    BY <2>1 DEF PrintedLanded, ReceiptLanded, Receipts
  <2>3. \A q \in Provisions \ {r} : SentFor(provision'[q]) /\ PrintedLanded(q)'
    BY <1>2, <2>1
  <2> QED BY <1>1, <2>1, <2>2, <2>3 DEF RInv
<1>5. ASSUME NEW k \in Checks,
             \/ StartCheck(k) \/ ReadDeployed(k) \/ ReadImplementation(k)
             \/ ReadVersion(k) \/ ReadNonce(k) \/ buildReceipt(k) \/ CheckFails(k)
      PROVE  UNCHANGED provision
  BY <1>5, SMTT(40)
  DEF StartCheck, ReadDeployed, ReadImplementation, ReadVersion, ReadNonce,
      buildReceipt, CheckFails, CheckStep, observe
<1>6. ASSUME ~(ProvisioningNext /\ UNCHANGED authorityVars)
      PROVE  UNCHANGED provision
  BY <1>6
  DEF Next, vars, AdapterStarts, assertBaseChainIdentity, AdapterStops, GrantRefused,
      GrantBuilds, GrantSends, GrantReceives, GrantFails, GrantStep, OnlyPool,
      SentinelBuilds, RevokeRefused, UninstallBuilds, RevokeSends, RevokeReceives,
      RevokeFails, RevokeStep, provisioningVars
<1>7. ASSUME NEW c \in ALLOWED_CHAIN_IDS,
             Include(c) \/ Drop(c) \/ \E a \in Account : OwnerChanges(c, a)
      PROVE  UNCHANGED provision
  BY <1>7 DEF Include, Drop, OwnerChanges
<1> QED BY <1>3, <1>4, <1>5, <1>6, <1>7 DEF ProvisioningNext

(* provision-kernel.ts prints a broadcast receipt on the bundler's word,    *)
(* for the chain its environment names, and asks nothing of the chain       *)
(* again: yet the operation the receipt names landed on that chain, and the *)
(* account it names is there and its owner's until the owner changes it,    *)
(* whichever chains the endpoints serve and however many runs race.         *)
THEOREM ReceiptsAreTrue == Spec => []ReceiptTrue
<1>1. Init => RInv
  BY DEF Init, ProvisioningInit, RInv, LandedInv, SentFor, Deployed, NewRun, PrintedLanded
<1>2. TInv /\ RInv /\ [Next]_vars => RInv'
  BY ReceiptStep
<1>3. ASSUME TInv, RInv, NEW receipt, ReceiptLanded(receipt)
      PROVE  /\ Deployed(receipt.chain, receipt.account)
             /\ <<receipt.chain, receipt.account>> \notin touched =>
                  accounts[receipt.chain][receipt.account].owner = receipt.owner
  <2>1. PICK i \in DOMAIN landed[receipt.chain] :
          landed[receipt.chain][i].op = receipt.op
    BY <1>3 DEF ReceiptLanded, Receipts
  <2>2. Deployed(receipt.chain, receipt.account)
    BY <1>3, <2>1 DEF ReceiptLanded, RInv, LandedInv
  <2> QED BY <1>3, <2>2 DEF ReceiptLanded, RInv, LandedInv
<1>4. TInv /\ RInv => ReceiptTrue
  <2> SUFFICES ASSUME TInv, RInv, NEW r \in Provisions, provision[r].pc = "printed",
                      provision[r].receipt.mode = "broadcast"
               PROVE  /\ Receipts(provision[r].receipt.chain, provision[r].receipt.op) # {}
                      /\ Deployed(provision[r].receipt.chain,
                                  provision[r].receipt.account)
                      /\ <<provision[r].receipt.chain, provision[r].receipt.account>>
                           \notin touched =>
                         accounts[provision[r].receipt.chain]
                                 [provision[r].receipt.account].owner
                           = provision[r].receipt.owner
    BY DEF ReceiptTrue
  <2>1. ReceiptLanded(provision[r].receipt)
    BY DEF RInv, PrintedLanded
  <2>2. Receipts(provision[r].receipt.chain, provision[r].receipt.op) # {}
    BY <2>1 DEF ReceiptLanded
  <2> QED BY <1>3, <2>1, <2>2
<1> QED BY <1>1, <1>2, <1>4, TypeInvariant, PTL DEF Spec

-----------------------------------------------------------------------------
(* What the operations a chain has included have made of permissions. *)

(* A later operation of the kind, about the same permission.                *)
Overrun(c, i, kind) ==
  \E j \in DOMAIN landed[c] :
    /\ i < j
    /\ landed[c][j].op.kind = kind
    /\ landed[c][j].op.account = landed[c][i].op.account
    /\ landed[c][j].op.permission = landed[c][i].op.permission

Present(c, i) ==
  landed[c][i].op.permission \in accounts[c][landed[c][i].op.account].permissions

HistoryOf(c, i) ==
  /\ landed[c][i].op.kind = "install" => Present(c, i) \/ Overrun(c, i, "uninstall")
  /\ landed[c][i].op.kind = "uninstall" /\ landed[c][i].success =>
       ~Present(c, i) \/ Overrun(c, i, "install")

HistoryInv ==
  \A c \in ALLOWED_CHAIN_IDS : \A i \in DOMAIN landed[c] : HistoryOf(c, i)

(* An operation's effect on the permissions of its account. *)
LEMMA IncludeEffect ==
  ASSUME TInv, NEW d \in ALLOWED_CHAIN_IDS, Include(d)
  PROVE  \E op \in Op, success \in BOOLEAN :
           /\ landed' = [landed EXCEPT ![d] = Append(@, [op |-> op,
                                                         success |-> success])]
           /\ \A c \in ALLOWED_CHAIN_IDS, a \in Account :
                ~(c = d /\ a = op.account) => accounts'[c][a] = accounts[c][a]
           /\ accounts'[d][op.account].permissions =
                LET old == IF Deployed(d, op.account)
                             THEN accounts[d][op.account].permissions ELSE {}
                IN CASE op.kind = "install" -> old \cup {op.permission}
                     [] op.kind = "uninstall" /\ success -> old \ {op.permission}
                     [] OTHER -> old
<1>1. PICK op \in pool[d], success \in BOOLEAN :
        /\ Valid(op, d)
        /\ landed' = [landed EXCEPT ![d] = Append(@, [op |-> op,
                                                      success |-> success])]
        /\ accounts' = [accounts EXCEPT ![d][op.account] = After(op, success)]
  BY DEF Include
<1>2. InstallOK(op) /\ TypeOK
  BY DEF TInv, PoolInv
<1>3. op \in Op /\ op.chain = d /\ op.account \in Account
      /\ accounts \in [ALLOWED_CHAIN_IDS -> [Account -> Kernel \cup {None}]]
  BY <1>1, <1>2 DEF TypeOK, ProvisioningTypeOK, Valid, Op
<1> DEFINE old == IF Deployed(d, op.account)
                    THEN accounts[d][op.account].permissions ELSE {}
           k == IF op.creates = None THEN accounts[op.chain][op.account]
                                     ELSE Fresh(op.account)
<1>5. k \in Kernel /\ k.permissions = old
  <2>1. CASE Deployed(d, op.account)
    BY <1>1, <1>3, <2>1 DEF Valid, Deployed
  <2>2. CASE ~Deployed(d, op.account)
    <3>1. k = Fresh(op.account)
      BY <1>1, <1>3, <2>2, NoneAssumption DEF Valid
    <3>2. op.account[1] \in EOAs
      BY <1>3 DEF Account
    <3> QED BY <2>2, <3>1, <3>2 DEF Fresh, Kernel
  <2> QED BY <2>1, <2>2
<1>6. After(op, success).permissions =
        CASE op.kind = "install" -> old \cup {op.permission}
          [] op.kind = "uninstall" /\ success -> old \ {op.permission}
          [] OTHER -> old
  <2>1. CASE op.kind = "install"
    <3>1. After(op, success) = [k EXCEPT !.permissions = @ \cup {op.permission}]
      BY <2>1 DEF After
    <3> HIDE DEF k, old
    <3> QED BY <1>5, <2>1, <3>1 DEF Kernel
  <2>2. CASE op.kind = "uninstall" /\ success
    <3>1. After(op, success) = [k EXCEPT !.permissions = @ \ {op.permission}]
      BY <2>2 DEF After
    <3> HIDE DEF k, old
    <3> QED BY <1>5, <2>2, <3>1 DEF Kernel
  <2>3. CASE op.kind # "install" /\ ~(op.kind = "uninstall" /\ success)
    <3>1. After(op, success) = k
      BY <2>3 DEF After
    <3> HIDE DEF k, old
    <3> QED BY <1>5, <2>3, <3>1
  <2> QED BY <2>1, <2>2, <2>3
<1> HIDE DEF k
<1>7. /\ accounts'[d][op.account] = After(op, success)
      /\ \A c \in ALLOWED_CHAIN_IDS, a \in Account :
           ~(c = d /\ a = op.account) => accounts'[c][a] = accounts[c][a]
  BY <1>1, <1>3
<1>8. accounts'[d][op.account].permissions =
        CASE op.kind = "install" -> old \cup {op.permission}
          [] op.kind = "uninstall" /\ success -> old \ {op.permission}
          [] OTHER -> old
  BY <1>6, <1>7
<1> QED BY <1>1, <1>3, <1>7, <1>8

(* What has landed has its place for good. *)
LEMMA LandedElement ==
  ASSUME TInv, NEW c \in ALLOWED_CHAIN_IDS, NEW i \in DOMAIN landed[c]
  PROVE  /\ landed[c][i].op \in Op /\ landed[c][i].op.account \in Account
         /\ i \in 1..Len(landed[c])
<1>0. landed[c] \in Seq([op : Op, success : BOOLEAN])
  BY DEF TInv, TypeOK, ProvisioningTypeOK
<1>1. i \in 1..Len(landed[c])
  BY <1>0
<1>2. landed[c][i] \in [op : Op, success : BOOLEAN]
  BY <1>0, <1>1, ElementOfSeq
<1>3. landed[c][i].op \in Op
  BY <1>2
<1> QED BY <1>1, <1>3 DEF Op

LEMMA HistoryInclude ==
  ASSUME TInv, LandedInv, HistoryInv, NEW d \in ALLOWED_CHAIN_IDS, Include(d)
  PROVE  HistoryInv'
<1>0. landed \in [ALLOWED_CHAIN_IDS -> Seq([op : Op, success : BOOLEAN])]
  BY DEF TInv, TypeOK, ProvisioningTypeOK
<1>1. PICK op \in Op, success \in BOOLEAN :
        /\ landed' = [landed EXCEPT ![d] = Append(@, [op |-> op,
                                                      success |-> success])]
        /\ \A c \in ALLOWED_CHAIN_IDS, a \in Account :
             ~(c = d /\ a = op.account) => accounts'[c][a] = accounts[c][a]
        /\ accounts'[d][op.account].permissions =
             LET old == IF Deployed(d, op.account)
                          THEN accounts[d][op.account].permissions ELSE {}
             IN CASE op.kind = "install" -> old \cup {op.permission}
                  [] op.kind = "uninstall" /\ success -> old \ {op.permission}
                  [] OTHER -> old
  BY IncludeEffect
<1>n. PICK n : n = Len(landed[d]) + 1
  OBVIOUS
<1> DEFINE new == [op |-> op, success |-> success]
<1>2. new \in [op : Op, success : BOOLEAN] /\ new.op = op /\ new.success = success
  OBVIOUS
<1> HIDE DEF new
<1>3. /\ landed'[d] = Append(landed[d], new) /\ landed[d] \in Seq([op : Op, success : BOOLEAN])
      /\ \A c \in ALLOWED_CHAIN_IDS \ {d} : landed'[c] = landed[c]
  BY <1>0, <1>1 DEF new
<1>4. /\ n \in Nat /\ DOMAIN landed'[d] = 1..n /\ landed'[d][n] = new
      /\ \A i \in 1..Len(landed[d]) : landed'[d][i] = landed[d][i]
      /\ DOMAIN landed[d] = 1..Len(landed[d])
  BY <1>n, <1>2, <1>3, AppendProperties
<1>5. ASSUME NEW c \in ALLOWED_CHAIN_IDS \ {d}, NEW i \in DOMAIN landed'[c]
      PROVE  HistoryOf(c, i)'
  <2>1. landed'[c] = landed[c] /\ i \in DOMAIN landed[c]
    BY <1>3, <1>5
  <2>2. landed[c][i].op.account \in Account
    BY <2>1, LandedElement
  <2>3. accounts'[c][landed[c][i].op.account] = accounts[c][landed[c][i].op.account]
    BY <1>1, <2>2
  <2>4. HistoryOf(c, i)
    BY <2>1 DEF HistoryInv
  <2> QED BY <2>1, <2>3, <2>4 DEF HistoryOf, Present, Overrun
<1>6. ASSUME NEW i \in 1..Len(landed[d])
      PROVE  HistoryOf(d, i)'
  <2> DEFINE o == landed[d][i].op
  <2>1. i \in DOMAIN landed[d] /\ landed'[d][i] = landed[d][i]
    BY <1>4
  <2>2. HistoryOf(d, i) /\ o.account \in Account /\ Deployed(d, o.account)
    BY <2>1, LandedElement DEF HistoryInv, LandedInv
  <2>3. \A kind : Overrun(d, i, kind) => Overrun(d, i, kind)'
    <3>1. \A j \in DOMAIN landed[d] :
            j \in DOMAIN landed'[d] /\ landed'[d][j] = landed[d][j]
      BY <1>n, <1>3, <1>4
    <3> QED BY <2>1, <3>1 DEF Overrun
  <2>4. n \in DOMAIN landed'[d] /\ i < n
    BY <1>n, <1>4
  <2>5. o.account = op.account /\ o.permission = op.permission =>
          Overrun(d, i, op.kind)'
    BY <1>2, <1>4, <2>1, <2>4 DEF Overrun
  <2>6. CASE o.account # op.account
    <3>1. Present(d, i)' <=> Present(d, i)
      BY <1>1, <2>1, <2>2, <2>6 DEF Present
    <3> QED BY <2>1, <2>2, <2>3, <3>1 DEF HistoryOf
  <2>7. CASE o.account = op.account /\ o.permission = op.permission
    <3>1. CASE op.kind = "install" \/ (op.kind = "uninstall" /\ success)
      <4>1. op.kind = "install" => Present(d, i)'
        BY <1>1, <2>1, <2>7, <3>1 DEF Present
      <4>2. op.kind = "uninstall" /\ success => ~Present(d, i)'
        BY <1>1, <2>1, <2>7, <3>1 DEF Present
      <4> QED BY <2>1, <2>5, <2>7, <3>1, <4>1, <4>2 DEF HistoryOf
    <3>2. CASE op.kind # "install" /\ ~(op.kind = "uninstall" /\ success)
      <4>1. Present(d, i)' <=> Present(d, i)
        BY <1>1, <2>1, <2>2, <2>7, <3>2 DEF Present
      <4> QED BY <2>1, <2>2, <2>3, <4>1 DEF HistoryOf
    <3> QED BY <3>1, <3>2
  <2>8. CASE o.account = op.account /\ o.permission # op.permission
    <3>1. Present(d, i)' <=> Present(d, i)
      BY <1>1, <2>1, <2>2, <2>8 DEF Present
    <3> QED BY <2>1, <2>2, <2>3, <3>1 DEF HistoryOf
  <2> QED BY <2>6, <2>7, <2>8
<1>7. HistoryOf(d, n)'
  <2>1. op.kind = "install" => Present(d, n)'
    BY <1>1, <1>2, <1>4 DEF Present
  <2>2. op.kind = "uninstall" /\ success => ~Present(d, n)'
    BY <1>1, <1>2, <1>4 DEF Present
  <2> QED BY <1>2, <1>4, <2>1, <2>2 DEF HistoryOf
<1>8. \A i \in DOMAIN landed'[d] : HistoryOf(d, i)'
  <2>1. \A i \in 1..n : i \in 1..Len(landed[d]) \/ i = n
    BY <1>n, <1>4
  <2> QED BY <1>4, <1>6, <1>7, <2>1
<1> QED BY <1>5, <1>8 DEF HistoryInv

LEMMA HistoryStep ==
  ASSUME TInv, LandedInv, HistoryInv, [Next]_vars
  PROVE  HistoryInv'
<1>1. CASE \E d \in ALLOWED_CHAIN_IDS : Include(d)
  BY <1>1, HistoryInclude
<1>2. ASSUME UNCHANGED landed,
             \A c \in ALLOWED_CHAIN_IDS, a \in Account : Deployed(c, a) =>
               accounts'[c][a].permissions = accounts[c][a].permissions
      PROVE  HistoryInv'
  <2> SUFFICES ASSUME NEW c \in ALLOWED_CHAIN_IDS, NEW i \in DOMAIN landed[c]
               PROVE  HistoryOf(c, i)'
    BY <1>2 DEF HistoryInv
  <2>1. Present(c, i)' <=> Present(c, i)
    BY <1>2, LandedElement DEF Present, LandedInv
  <2> QED BY <1>2, <2>1 DEF HistoryInv, HistoryOf, Overrun
<1>3. ASSUME UNCHANGED <<landed, accounts>>
      PROVE  HistoryInv'
  BY <1>2, <1>3
<1>4. ASSUME NEW d \in ALLOWED_CHAIN_IDS, NEW b \in Account, OwnerChanges(d, b)
      PROVE  HistoryInv'
  <2>1. UNCHANGED landed
    BY <1>4 DEF OwnerChanges
  <2>2. \A c \in ALLOWED_CHAIN_IDS, a \in Account : Kept(c, a) \/ Changed(c, a)
    BY <1>4, AccountChange
  <2> QED BY <1>2, <2>1, <2>2 DEF Kept, Changed
<1>5. ASSUME NEW r \in Provisions,
             \/ DryRun(r) \/ Broadcast(r) \/ ProvisionFails(r) \/ RefuseRedeploy(r)
             \/ BuildDeploy(r) \/ SendDeploy(r) \/ ConfirmDeploy(r)
      PROVE  UNCHANGED <<landed, accounts>>
  BY <1>5
  DEF DryRun, Broadcast, ProvisionFails, RefuseRedeploy, BuildDeploy, SendDeploy,
      ConfirmDeploy, ProvisionStep
<1>6. ASSUME NEW k \in Checks,
             \/ StartCheck(k) \/ ReadDeployed(k) \/ ReadImplementation(k)
             \/ ReadVersion(k) \/ ReadNonce(k) \/ buildReceipt(k) \/ CheckFails(k)
      PROVE  UNCHANGED <<landed, accounts>>
  BY <1>6, SMTT(40)
  DEF StartCheck, ReadDeployed, ReadImplementation, ReadVersion, ReadNonce,
      buildReceipt, CheckFails, CheckStep, chainVars, observe
<1>7. ASSUME ~(ProvisioningNext /\ UNCHANGED authorityVars)
      PROVE  UNCHANGED <<landed, accounts>>
  BY <1>7
  DEF Next, vars, AdapterStarts, assertBaseChainIdentity, AdapterStops, GrantRefused,
      GrantBuilds, GrantSends, GrantReceives, GrantFails, GrantStep, OnlyPool,
      SentinelBuilds, RevokeRefused, UninstallBuilds, RevokeSends, RevokeReceives,
      RevokeFails, RevokeStep, provisioningVars, chainVars
<1>8. ASSUME NEW d \in ALLOWED_CHAIN_IDS, Drop(d)
      PROVE  UNCHANGED <<landed, accounts>>
  BY <1>8 DEF Drop
<1> QED BY <1>1, <1>3, <1>4, <1>5, <1>6, <1>7, <1>8 DEF ProvisioningNext

(* What a report of a grant or of a revoke has seen. *)
Succeeded(op) ==
  /\ op.chain \in ALLOWED_CHAIN_IDS
  /\ \E i \in DOMAIN landed[op.chain] :
       landed[op.chain][i].op = op /\ landed[op.chain][i].success

GrantReport(call) ==
  call.pc = "granted" => Succeeded(call.op) /\ call.block = GrantedBlock(call.op)

RevokeReport(call) ==
  /\ call.pc = "idle" => call.block = None
  /\ call.pc \in {"sending", "waiting", "revoked"} /\ call.block # None =>
       call.op.kind = "uninstall" /\ call.op.permission = Rebuilt(call.block)
  /\ call.pc = "revoked" => Succeeded(call.op)

ReportsInv == /\ \A g \in Grants : GrantReport(grant[g])
              /\ \A r \in Revokes : RevokeReport(revoke[r])

(* A success in a receipt is one of the operation's own chain. *)
LEMMA ReceiptSucceeded ==
  ASSUME TInv, LandedInv, adapter.pc = "up", NEW op,
         NEW l \in Receipts(adapter.env.bundler, op), l.success
  PROVE  Succeeded(op)
<1>1. adapter.env.bundler \in ALLOWED_CHAIN_IDS
  BY DEF TInv, AdapterInv, loadConfig
<1>2. PICK i \in DOMAIN landed[adapter.env.bundler] :
        landed[adapter.env.bundler][i] = l /\ l.op = op
  BY DEF Receipts
<1>3. op.chain = adapter.env.bundler
  BY <1>1, <1>2 DEF LandedInv
<1> QED BY <1>1, <1>2, <1>3 DEF Succeeded

LEMMA GrantReportStep ==
  ASSUME TInv, LandedInv, ReportsInv, NEW g \in Grants,
         \/ GrantRefused(g) \/ GrantBuilds(g) \/ GrantSends(g)
         \/ GrantReceives(g) \/ GrantFails(g)
  PROVE  /\ UNCHANGED <<landed, revoke>>
         /\ \A h \in Grants : GrantReport(grant'[h])
<1>0. grant[g] \in Call /\ grant \in [Grants -> Call]
  BY DEF TInv, TypeOK
<1>1. UNCHANGED <<landed, revoke>>
  BY DEF GrantRefused, GrantBuilds, GrantSends, GrantReceives, GrantFails, GrantStep,
         OnlyPool, provisioningVars, chainVars
<1>2. \A h \in Grants \ {g} : grant'[h] = grant[h]
  BY <1>0 DEF GrantRefused, GrantBuilds, GrantSends, GrantReceives, GrantFails
<1>3. GrantReport(grant'[g])
  <2>0. FailedGrant.pc = "grant_failed"
    BY DEF FailedGrant, NewCall
  <2>1. CASE GrantRefused(g) \/ GrantFails(g)
    BY <1>0, <2>0, <2>1 DEF GrantRefused, GrantFails, GrantReport
  <2>2. CASE GrantBuilds(g) \/ GrantSends(g)
    <3>1. grant'[g].pc \in {"sending", "waiting"}
      BY <1>0, <2>2 DEF GrantBuilds, GrantSends, Call
    <3> QED BY <3>1 DEF GrantReport
  <2>3. CASE GrantReceives(g)
    <3>1. PICK l \in Receipts(adapter.env.bundler, grant[g].op) :
            grant' = [grant EXCEPT ![g] =
              IF l.success
                THEN [grant[g] EXCEPT !.pc = "granted", !.block = GrantedBlock(l.op)]
                ELSE FailedGrant]
      BY <2>3 DEF GrantReceives
    <3>2. adapter.pc = "up"
      BY <2>3 DEF GrantReceives, TInv, CallsInv
    <3>3. CASE l.success
      <4>1. /\ grant'[g].op = grant[g].op
            /\ grant'[g].block = GrantedBlock(grant[g].op)
        BY <1>0, <3>1, <3>3 DEF Call, Receipts
      <4> QED BY <3>2, <3>3, <4>1, ReceiptSucceeded DEF GrantReport
    <3>4. CASE ~l.success
      <4>1. grant'[g].pc = "grant_failed"
        BY <1>0, <2>0, <3>1, <3>4
      <4> QED BY <4>1 DEF GrantReport
    <3> QED BY <3>3, <3>4
  <2> QED BY <2>1, <2>2, <2>3
<1> QED BY <1>1, <1>2, <1>3 DEF ReportsInv

LEMMA RevokeReportStep ==
  ASSUME TInv, LandedInv, ReportsInv, NEW r \in Revokes,
         \/ SentinelBuilds(r) \/ RevokeRefused(r) \/ UninstallBuilds(r)
         \/ RevokeSends(r) \/ RevokeReceives(r) \/ RevokeFails(r)
  PROVE  /\ UNCHANGED <<landed, grant>>
         /\ \A q \in Revokes : RevokeReport(revoke'[q])
<1>0. revoke[r] \in Call /\ revoke \in [Revokes -> Call] /\ RevokeReport(revoke[r])
  BY DEF TInv, TypeOK, ReportsInv
<1>1. UNCHANGED <<landed, grant>>
  BY DEF SentinelBuilds, RevokeRefused, UninstallBuilds, RevokeSends, RevokeReceives,
         RevokeFails, RevokeStep, OnlyPool, provisioningVars, chainVars
<1>2. \A q \in Revokes \ {r} : revoke'[q] = revoke[q]
  BY <1>0 DEF SentinelBuilds, RevokeRefused, UninstallBuilds, RevokeSends,
              RevokeReceives, RevokeFails
<1>3. RevokeReport(revoke'[r])
  <2>1. CASE RevokeRefused(r) \/ RevokeFails(r)
    <3>1. FailedRevoke.pc = "revoke_failed"
      BY DEF FailedRevoke, NewCall
    <3>2. revoke' = [revoke EXCEPT ![r] = FailedRevoke]
      BY <2>1 DEF RevokeRefused, RevokeFails
    <3>3. revoke'[r].pc = "revoke_failed"
      BY <1>0, <3>1, <3>2
    <3> QED BY <3>3 DEF RevokeReport
  <2>2. CASE SentinelBuilds(r)
    <3>0. PICK op : revoke' = [revoke EXCEPT ![r].pc = "sending", ![r].op = op]
      BY <2>2 DEF SentinelBuilds
    <3>1. revoke'[r].pc = "sending" /\ revoke'[r].block = revoke[r].block
      BY <1>0, <3>0 DEF Call
    <3>2. revoke[r].block = None
      BY <1>0, <2>2 DEF SentinelBuilds, RevokeStarts, RevokeReport
    <3> QED BY <3>1, <3>2 DEF RevokeReport
  <2>3. CASE UninstallBuilds(r)
    <3>1. /\ revoke'[r].pc = "sending" /\ revoke'[r].op.kind = "uninstall"
          /\ revoke'[r].op.permission = Rebuilt(revoke'[r].block)
      BY <1>0, <2>3 DEF UninstallBuilds, Operation
    <3> QED BY <3>1 DEF RevokeReport
  <2>4. CASE RevokeSends(r)
    <3>1. revoke[r].pc = "sending" /\ revoke'[r].pc = "waiting"
          /\ revoke'[r].op = revoke[r].op /\ revoke'[r].block = revoke[r].block
      BY <1>0, <2>4 DEF RevokeSends, Sent, Call
    <3> QED BY <1>0, <3>1 DEF RevokeReport
  <2>5. CASE RevokeReceives(r)
    <3>1. PICK l \in Receipts(adapter.env.bundler, revoke[r].op) :
            revoke' = [revoke EXCEPT ![r].pc = IF l.success THEN "revoked"
                                                           ELSE "revoke_failed"]
      BY <2>5 DEF RevokeReceives
    <3>2. adapter.pc = "up" /\ revoke[r].pc = "waiting"
      BY <2>5 DEF RevokeReceives, TInv, CallsInv
    <3>3. /\ revoke'[r].op = revoke[r].op /\ revoke'[r].block = revoke[r].block
          /\ revoke'[r].pc = IF l.success THEN "revoked" ELSE "revoke_failed"
      BY <1>0, <3>1 DEF Call
    <3>4. l.success => Succeeded(revoke[r].op)
      BY <3>2, ReceiptSucceeded
    <3> QED BY <1>0, <3>2, <3>3, <3>4 DEF RevokeReport
  <2> QED BY <2>1, <2>2, <2>3, <2>4, <2>5
<1> QED BY <1>1, <1>2, <1>3 DEF ReportsInv

LEMMA ReportsStep ==
  ASSUME TInv, LandedInv, ReportsInv, [Next]_vars
  PROVE  ReportsInv'
<1>1. ASSUME NEW op, Succeeded(op)
      PROVE  Succeeded(op)'
  <2>1. PICK i \in DOMAIN landed[op.chain] :
          landed[op.chain][i].op = op /\ landed[op.chain][i].success
    BY <1>1 DEF Succeeded
  <2>2. landed[op.chain][i] \in Receipts(op.chain, op)
    BY <2>1 DEF Receipts
  <2>3. landed[op.chain][i] \in Receipts(op.chain, op)'
    BY <1>1, <2>2, LandedStep DEF Succeeded
  <2> QED BY <1>1, <2>1, <2>3 DEF Succeeded, Receipts
<1>2. ASSUME UNCHANGED grant
      PROVE  \A g \in Grants : GrantReport(grant[g])'
  BY <1>1, <1>2 DEF ReportsInv, GrantReport, Succeeded
<1>3. ASSUME UNCHANGED revoke
      PROVE  \A r \in Revokes : RevokeReport(revoke[r])'
  BY <1>1, <1>3 DEF ReportsInv, RevokeReport, Succeeded
<1>4. ASSUME NEW g \in Grants,
             \/ GrantRefused(g) \/ GrantBuilds(g) \/ GrantSends(g)
             \/ GrantReceives(g) \/ GrantFails(g)
      PROVE  ReportsInv'
  <2>1. /\ UNCHANGED <<landed, revoke>>
        /\ \A h \in Grants : GrantReport(grant'[h])
    BY <1>4, GrantReportStep
  <2>2. \A h \in Grants : GrantReport(grant[h])'
    BY <2>1 DEF GrantReport, Succeeded
  <2> QED BY <1>3, <2>1, <2>2 DEF ReportsInv
<1>5. ASSUME NEW r \in Revokes,
             \/ SentinelBuilds(r) \/ RevokeRefused(r) \/ UninstallBuilds(r)
             \/ RevokeSends(r) \/ RevokeReceives(r) \/ RevokeFails(r)
      PROVE  ReportsInv'
  <2>1. /\ UNCHANGED <<landed, grant>>
        /\ \A q \in Revokes : RevokeReport(revoke'[q])
    BY <1>5, RevokeReportStep
  <2>2. \A q \in Revokes : RevokeReport(revoke[q])'
    BY <2>1 DEF RevokeReport, Succeeded
  <2> QED BY <1>2, <2>1, <2>2 DEF ReportsInv
<1>6. CASE AdapterStops
  <2>0. grant \in [Grants -> Call] /\ revoke \in [Revokes -> Call]
    BY DEF TInv, TypeOK
  <2>1. /\ UNCHANGED landed
        /\ grant' = [g \in Grants |-> Lost(grant[g])]
        /\ revoke' = [r \in Revokes |-> Lost(revoke[r])]
    BY <1>6, <2>0 DEF AdapterStops, Lost, provisioningVars, chainVars
  <2>2. \A call \in Call : Lost(call) = call \/ Lost(call).pc = "lost"
    BY DEF Lost, Call
  <2>3. ASSUME NEW g \in Grants
        PROVE  GrantReport(grant[g])'
    <3>1. grant'[g] = grant[g] \/ grant'[g].pc = "lost"
      BY <2>0, <2>1, <2>2
    <3> QED BY <2>1, <3>1 DEF ReportsInv, GrantReport, Succeeded
  <2>4. ASSUME NEW r \in Revokes
        PROVE  RevokeReport(revoke[r])'
    <3>1. revoke'[r] = revoke[r] \/ revoke'[r].pc = "lost"
      BY <2>0, <2>1, <2>2
    <3> QED BY <2>1, <3>1 DEF ReportsInv, RevokeReport, Succeeded
  <2> QED BY <2>3, <2>4 DEF ReportsInv
<1>7. CASE UNCHANGED <<grant, revoke>>
  BY <1>2, <1>3, <1>7 DEF ReportsInv
<1> QED
  BY <1>4, <1>5, <1>6, <1>7
  DEF Next, authorityVars, vars, AdapterStarts, assertBaseChainIdentity

LEMMA HistoryInvariant == Spec => [](LandedInv /\ HistoryInv /\ ReportsInv)
<1>1. Init => LandedInv /\ HistoryInv /\ ReportsInv
  BY DEF Init, ProvisioningInit, LandedInv, HistoryInv, ReportsInv, GrantReport,
         RevokeReport, NewCall, Deployed
<1>2. TInv /\ LandedInv /\ HistoryInv /\ ReportsInv /\ [Next]_vars
        => (LandedInv /\ HistoryInv /\ ReportsInv)'
  BY LandedPreserved, HistoryStep, ReportsStep
<1> QED BY <1>1, <1>2, TypeInvariant, PTL DEF Spec

(* A permission is installed and uninstalled by operations of racing calls, *)
(* of adapters that were restarted for other accounts and of operations     *)
(* that landed after their call had gone. Yet the permission whose id a     *)
(* granted report carries is on the account its operation names until a     *)
(* later operation uninstalls it, and the block reported with it rebuilds   *)
(* that permission; after a revoked report of a row whose block rebuilds    *)
(* the permission of its id, that permission is gone from the account       *)
(* until a later operation installs it.                                     *)
THEOREM PermissionsAsReported == Spec => []PermissionAsReported
<1>1. ASSUME HistoryInv, NEW op, Succeeded(op)
      PROVE  \E i \in DOMAIN landed[op.chain] :
               /\ landed[op.chain][i].op = op /\ landed[op.chain][i].success
               /\ HistoryOf(op.chain, i)
  BY <1>1 DEF Succeeded, HistoryInv
<1>2. ASSUME NEW call, NEW kind, NEW i \in DOMAIN landed[call.op.chain],
             landed[call.op.chain][i].op = call.op,
             landed[call.op.chain][i].success,
             call.block.permission_id = call.op.permission,
             Overrun(call.op.chain, i, kind)
      PROVE  Since(call, kind)
  <2>1. PICK j \in DOMAIN landed[call.op.chain] :
          /\ i < j /\ landed[call.op.chain][j].op.kind = kind
          /\ landed[call.op.chain][j].op.account
               = landed[call.op.chain][i].op.account
          /\ landed[call.op.chain][j].op.permission
               = landed[call.op.chain][i].op.permission
    BY <1>2 DEF Overrun
  <2> QED BY <1>2, <2>1 DEF Since
<1>3. ASSUME TInv, HistoryInv, ReportsInv, NEW g \in Grants, grant[g].pc = "granted"
      PROVE  /\ Faithful(grant[g].block)
             /\ Installed(grant[g]) \/ Since(grant[g], "uninstall")
  <2> DEFINE op == grant[g].op
  <2>1. /\ Succeeded(op) /\ grant[g].block = GrantedBlock(op)
        /\ op.kind = "install" /\ op.permission \in Permission
    BY <1>3
    DEF ReportsInv, GrantReport, TInv, CallsInv, GrantOK, CallOK, InstallOK
  <2>2. grant[g].block.permission_id = op.permission /\ Faithful(grant[g].block)
    BY <2>1 DEF GrantedBlock, Faithful, Rebuilt, Permission
  <2>3. PICK i \in DOMAIN landed[op.chain] :
          /\ landed[op.chain][i].op = op /\ landed[op.chain][i].success
          /\ HistoryOf(op.chain, i)
    BY <1>1, <1>3, <2>1
  <2>4. Present(op.chain, i) \/ Overrun(op.chain, i, "uninstall")
    BY <2>1, <2>3 DEF HistoryOf
  <2>5. Present(op.chain, i) => Installed(grant[g])
    BY <2>2, <2>3 DEF Present, Installed
  <2> QED BY <1>2, <2>2, <2>3, <2>4, <2>5
<1>4. ASSUME TInv, HistoryInv, ReportsInv, NEW r \in Revokes,
             revoke[r].pc = "revoked", revoke[r].block # None,
             Faithful(revoke[r].block)
      PROVE  ~Installed(revoke[r]) \/ Since(revoke[r], "install")
  <2> DEFINE op == revoke[r].op
  <2>1. /\ Succeeded(op) /\ op.kind = "uninstall"
        /\ revoke[r].block.permission_id = op.permission
    BY <1>4 DEF ReportsInv, RevokeReport, Faithful
  <2>2. PICK i \in DOMAIN landed[op.chain] :
          /\ landed[op.chain][i].op = op /\ landed[op.chain][i].success
          /\ HistoryOf(op.chain, i)
    BY <1>1, <1>4, <2>1
  <2>3. ~Present(op.chain, i) \/ Overrun(op.chain, i, "install")
    BY <2>1, <2>2 DEF HistoryOf
  <2>4. Installed(revoke[r]) => Present(op.chain, i)
    BY <2>1, <2>2 DEF Present, Installed
  <2> QED BY <1>2, <2>1, <2>2, <2>3, <2>4
<1>5. TInv /\ HistoryInv /\ ReportsInv => PermissionAsReported
  BY <1>3, <1>4 DEF PermissionAsReported
<1> QED BY <1>5, TypeInvariant, HistoryInvariant, PTL
=============================================================================
