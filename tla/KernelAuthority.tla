--------------------------- MODULE KernelAuthority ---------------------------
(***************************************************************************)
(* Who may act for the smart account: the adapter's start                  *)
(* (chain_adapter/src/server.ts, config/index.ts, chains/base/client.ts)   *)
(* from an environment the operator wrote after running the scripts of     *)
(* Provisioning, the installation of a session permission                  *)
(* (chains/base/grant.ts) and its revocation (chains/base/revoke.ts,       *)
(* uninstall_validation.ts) on the account that environment names.         *)
(*                                                                         *)
(* Phoenix's side of a grant and of a revoke, with its retries, is in      *)
(* Delegations; here each is one call of executeGrant or executeRevoke.    *)
(***************************************************************************)
EXTENDS Provisioning

CONSTANTS Grants,    \* calls of executeGrant
          Revokes,   \* calls of executeRevoke
          Stored,    \* permission blocks on rows of earlier installs
          MaxBoots   \* bound: starts of the adapter

(* An id is the permission it is derived from, validation_id the one it is *)
(* padded from. policies: those the blob carries.                          *)
PermissionBlock ==
  [permission_id : Permission, validation_id : Permission,
   package_version : {"pinned", "other"},
   session_signer_address : EOAs \cup {None},
   policies : (SUBSET PolicyModules) \cup {Malformed}]

ASSUME AuthorityAssumption == /\ Stored \subseteq PermissionBlock
                              /\ MaxBoots \in Nat

VARIABLES adapter,  \* the adapter process: its configuration and its starts
          grant,    \* the calls in it, and the reports they made
          revoke

authorityVars == <<adapter, grant, revoke>>
vars == <<provisioningVars, authorityVars>>

-----------------------------------------------------------------------------
(* The adapter starts. *)

required(value) == value # Absent

(* parseInt stops at the first character that is no digit. *)
baseChainId(env) ==
  CASE env.chain \in {"absent", "empty"} -> Mainnet
    [] env.chain = "84532abc" -> Sepolia
    [] OTHER -> env.chain

(* Mutant of readOperatorSigner: the root's key may serve as the session's. *)
readOperatorSignerConflated(env) ==
  \/ env.key = Absent /\ env.address = Absent
  \/ env.key \in EOAs /\ env.address = env.key

readOperatorSigner(env) ==
  \/ env.key = Absent /\ env.address = Absent
  \/ env.key \in EOAs /\ env.address = env.key /\ env.key # env.session

(* createBaseClients refuses a session key it cannot derive an address     *)
(* from, and a chain it does not know.                                     *)
loadConfig(env) ==
  /\ required(env.rpc) /\ required(env.bundler) /\ required(env.account)
  /\ required(env.session) /\ env.session \in EOAs
  /\ readOperatorSigner(env)
  /\ baseChainId(env) \in ALLOWED_CHAIN_IDS

AdapterStarts ==
  /\ adapter.pc = "down" /\ adapter.boots < MaxBoots
  /\ \E env \in Envs :
       /\ loadConfig(env)
       /\ adapter' = [pc |-> "identity", env |-> env, boots |-> adapter.boots + 1]
  /\ UNCHANGED <<provisioningVars, grant, revoke>>

(* Mutant of assertBaseChainIdentity: only the bundler is asked. *)
assertBaseChainIdentityOfBundler ==
  /\ adapter.pc = "identity"
  /\ adapter.env.bundler = baseChainId(adapter.env)
  /\ adapter' = [adapter EXCEPT !.pc = "up"]
  /\ UNCHANGED <<provisioningVars, grant, revoke>>

assertBaseChainIdentity ==
  /\ adapter.pc = "identity"
  /\ adapter.env.rpc = baseChainId(adapter.env)
  /\ adapter.env.bundler = baseChainId(adapter.env)
  /\ adapter' = [adapter EXCEPT !.pc = "up"]
  /\ UNCHANGED <<provisioningVars, grant, revoke>>

(* The process ends, or its start is refused; its calls end with it. *)
AdapterStops ==
  LET lost(calls) == [n \in DOMAIN calls |->
        IF calls[n].pc \in {"sending", "waiting"}
          THEN [calls[n] EXCEPT !.pc = "lost", !.op = None] ELSE calls[n]]
  IN /\ adapter.pc # "down"
     /\ adapter' = [adapter EXCEPT !.pc = "down", !.env = None]
     /\ grant' = lost(grant)
     /\ revoke' = lost(revoke)
     /\ UNCHANGED provisioningVars

-----------------------------------------------------------------------------
(* One call and its operation, built, sent and waited for. *)

Call == [pc : {"idle", "sending", "waiting", "granted", "grant_failed",
               "revoked", "revoke_failed", "lost"},
         block : PermissionBlock \cup {None}, op : Op \cup {None}]

NewCall == [pc |-> "idle", block |-> None, op |-> None]

Operator == adapter.env.key

(* What the SDK makes of the account now, with init code for the owner's   *)
(* first account while it is not deployed; userop.ts, which builds the     *)
(* sentinel, never adds any.                                               *)
Operation(kind, signer, permission, fee) ==
  LET env == adapter.env
      lane == IF kind = "install" THEN permission ELSE None
  IN [kind |-> kind, account |-> env.account, chain |-> baseChainId(env),
      signer |-> signer,
      creates |-> IF kind = "selfcall" THEN None
                    ELSE InitCode(env.rpc, env.account, signer, 0),
      permission |-> permission,
      nonce |-> NextNonce(env.rpc, env.account, lane), fee |-> fee]

(* What is not an address fails in the SDK. *)
CanBuild == adapter.env.account \in Account

Sent(call) == /\ call.pc = "sending"
              /\ Takes(adapter.env.bundler, call.op)

OnlyPool == UNCHANGED <<accounts, landed, touched, provision, check, adapter>>

-----------------------------------------------------------------------------
(* chains/base/grant.ts: executeGrant *)

(* emitGrantFailure names no operation. *)
FailedGrant == [NewCall EXCEPT !.pc = "grant_failed"]

GrantStep == UNCHANGED <<provisioningVars, adapter, revoke>>

(* operator_key_missing, or the dispatch's chain is not the adapter's. *)
GrantRefused(g) ==
  /\ grant[g].pc = "idle" /\ adapter.pc = "up"
  /\ \E chain \in ALLOWED_CHAIN_IDS :
       Operator = Absent \/ chain # baseChainId(adapter.env)
  /\ grant' = [grant EXCEPT ![g] = FailedGrant]
  /\ GrantStep

(* toPermissionValidator: the runtime's session key under the sudo policy. *)
SessionPermission == [signer |-> adapter.env.session, policies |-> {"sudo"}]

(* The operator's key signs the permission's enable data. *)
GrantBuilds(g) ==
  /\ grant[g].pc = "idle" /\ adapter.pc = "up"
  /\ Operator # Absent /\ CanBuild
  /\ \E fee \in Fees :
       grant' = [grant EXCEPT ![g].pc = "sending", ![g].op =
                   Operation("install", Operator, SessionPermission, fee)]
  /\ GrantStep

GrantSends(g) ==
  /\ Sent(grant[g])
  /\ grant' = [grant EXCEPT ![g].pc = "waiting"]
  /\ OnlyPool /\ UNCHANGED revoke

(* The block the granted report carries, and Phoenix stores. *)
GrantedBlock(op) ==
  [permission_id |-> op.permission, validation_id |-> op.permission,
   package_version |-> "pinned",
   session_signer_address |-> op.permission.signer,
   policies |-> op.permission.policies]

GrantReceives(g) ==
  /\ grant[g].pc = "waiting"
  /\ \E l \in Receipts(adapter.env.bundler, grant[g].op) :
       grant' = [grant EXCEPT ![g] =
         IF l.success
           THEN [grant[g] EXCEPT !.pc = "granted", !.block = GrantedBlock(l.op)]
           ELSE FailedGrant]
  /\ GrantStep

(* permission_install_failed or permission_serialization_failed. *)
GrantFails(g) ==
  /\ adapter.pc = "up" /\ grant[g].pc \in {"idle", "sending", "waiting"}
  /\ grant' = [grant EXCEPT ![g] = FailedGrant]
  /\ GrantStep

-----------------------------------------------------------------------------
(* chains/base/uninstall_validation.ts: the refusals *)

assertValidationIdConsistent(block) == block.validation_id = block.permission_id

assertPackageVersionPinned(block) == block.package_version = "pinned"

(* The signer's module is that of the stub revoke.ts builds, the pinned    *)
(* one; the policies' are the blob's.                                      *)
assertPolicyModulesAllowed(policies) ==
  policies # {} /\ policies \subseteq AcceptedPolicies

-----------------------------------------------------------------------------
(* chains/base/revoke.ts: executeRevoke *)

(* Only a receipt's failure is reported with its operation. *)
FailedRevoke == [NewCall EXCEPT !.pc = "revoke_failed"]

RevokeStep == UNCHANGED <<provisioningVars, adapter, grant>>

Blocks == Stored \cup ({grant[g].block : g \in Grants} \ {None})

RevokeStarts(r) == revoke[r].pc = "idle" /\ adapter.pc = "up"

(* Without a block: a call of the account to itself, signed by the         *)
(* session's key.                                                          *)
SentinelBuilds(r) ==
  /\ RevokeStarts(r) /\ CanBuild
  /\ \E fee \in Fees :
       revoke' = [revoke EXCEPT ![r].pc = "sending", ![r].op =
                    Operation("selfcall", adapter.env.session, None, fee)]
  /\ RevokeStep

Revocable(block) ==
  /\ Operator # Absent
  /\ assertValidationIdConsistent(block)
  /\ assertPackageVersionPinned(block)
  /\ block.session_signer_address # None
  /\ block.policies # Malformed
  /\ assertPolicyModulesAllowed(block.policies)

RevokeRefused(r) ==
  /\ RevokeStarts(r)
  /\ \E block \in Blocks :
       /\ ~Revocable(block)
       /\ revoke' = [revoke EXCEPT ![r] = FailedRevoke]
  /\ RevokeStep

(* The plugin deserializePermissionAccount rebuilds has the blob's         *)
(* policies and the signer beside it.                                      *)
Rebuilt(block) == [signer |-> block.session_signer_address,
                   policies |-> block.policies]

(* The rebuilt plugin, whose id nothing compares with the block's, is      *)
(* uninstalled from the account the adapter is configured for.             *)
UninstallBuilds(r) ==
  /\ RevokeStarts(r) /\ CanBuild
  /\ \E block \in Blocks, fee \in Fees :
       /\ Revocable(block)
       /\ revoke' = [revoke EXCEPT ![r] =
            [pc |-> "sending", block |-> block,
             op |-> Operation("uninstall", Operator, Rebuilt(block), fee)]]
  /\ RevokeStep

RevokeSends(r) ==
  /\ Sent(revoke[r])
  /\ revoke' = [revoke EXCEPT ![r].pc = "waiting"]
  /\ OnlyPool /\ UNCHANGED grant

(* Mutant of RevokeReceives: any receipt is a revocation. *)
RevokeReceivesAny(r) ==
  /\ revoke[r].pc = "waiting"
  /\ Receipts(adapter.env.bundler, revoke[r].op) # {}
  /\ revoke' = [revoke EXCEPT ![r].pc = "revoked"]
  /\ RevokeStep

RevokeReceives(r) ==
  /\ revoke[r].pc = "waiting"
  /\ \E l \in Receipts(adapter.env.bundler, revoke[r].op) :
       revoke' = [revoke EXCEPT ![r].pc =
                    IF l.success THEN "revoked" ELSE "revoke_failed"]
  /\ RevokeStep

(* The SDK, the bundler or the wait for the receipt gave up. *)
RevokeFails(r) ==
  /\ adapter.pc = "up" /\ revoke[r].pc \in {"idle", "sending", "waiting"}
  /\ revoke' = [revoke EXCEPT ![r] = FailedRevoke]
  /\ RevokeStep

-----------------------------------------------------------------------------
Init ==
  /\ ProvisioningInit
  /\ adapter = [pc |-> "down", env |-> None, boots |-> 0]
  /\ grant = [g \in Grants |-> NewCall]
  /\ revoke = [r \in Revokes |-> NewCall]

Next ==
  \/ ProvisioningNext /\ UNCHANGED authorityVars
  \/ AdapterStarts \/ assertBaseChainIdentity \/ AdapterStops
  \/ \E g \in Grants : \/ GrantRefused(g) \/ GrantBuilds(g) \/ GrantSends(g)
                        \/ GrantReceives(g) \/ GrantFails(g)
  \/ \E r \in Revokes : \/ SentinelBuilds(r) \/ RevokeRefused(r)
                         \/ UninstallBuilds(r) \/ RevokeSends(r)
                         \/ RevokeReceives(r) \/ RevokeFails(r)

Spec == Init /\ [][Next]_vars

-----------------------------------------------------------------------------
(* Every variable has its type. *)
TypeOK ==
  /\ ProvisioningTypeOK
  /\ adapter \in [pc : {"down", "identity", "up"}, env : Envs \cup {None},
                  boots : 0..MaxBoots]
  /\ grant \in [Grants -> Call]
  /\ revoke \in [Revokes -> Call]

(* verify-installed-validator.ts against server.ts: an adapter that took    *)
(* its start with the account and the endpoint a check approved works, on   *)
(* the chain it signs for, for the kernel version and the root validator    *)
(* that were checked, whatever the owner did before the check began; the    *)
(* check itself never asks the endpoint for its chain.                      *)
BootedOnVerified ==
  \A k \in Checks :
    LET env == check[k].env
    IN /\ check[k].pc = "ok" /\ ~check[k].overtaken /\ adapter.pc = "up"
       /\ adapter.env.account = env.account /\ adapter.env.rpc = env.rpc
       => /\ Deployed(baseChainId(adapter.env), env.account)
          /\ LET kernel == accounts[baseChainId(adapter.env)][env.account]
             IN kernel.version = PINNED_KERNEL_VERSION /\ kernel.root = "ecdsa"

(* config/index.ts: the key the adapter keeps for its sessions is not the   *)
(* account's own: no permission installed on an account its owner has left  *)
(* alone is for that owner's key, whatever environments the adapter has     *)
(* been started with.                                                       *)
SessionIsNotRoot ==
  \A c \in ALLOWED_CHAIN_IDS, a \in Account :
    Deployed(c, a) /\ <<c, a>> \notin touched =>
      \A p \in accounts[c][a].permissions : p.signer # accounts[c][a].owner

(* The call's operation succeeded, and after it the chain included one of  *)
(* the kind for the same account and the permission of the call's block.   *)
Since(call, kind) ==
  LET l == landed[call.op.chain]
  IN \E i, j \in DOMAIN l :
       /\ l[i].op = call.op /\ l[i].success
       /\ i < j /\ l[j].op.kind = kind
       /\ l[j].op.account = call.op.account
       /\ l[j].op.permission = call.block.permission_id

(* The permission the row is about, by the id the row has for it. *)
Installed(call) ==
  call.block.permission_id
    \in accounts[call.op.chain][call.op.account].permissions

(* The id a row has for its permission is that of the plugin its blob and  *)
(* its signer rebuild.                                                     *)
Faithful(block) == block.permission_id = Rebuilt(block)

(* grant.ts and revoke.ts, by the permission_id of the row. A granted       *)
(* report's permission was installed on the account and is there unless it  *)
(* was uninstalled since, and its block rebuilds that very permission.      *)
(* After a revoked report of a row whose block is of that kind, the row's   *)
(* permission is gone from the account, or was installed again since.       *)
PermissionAsReported ==
  /\ \A g \in Grants : grant[g].pc = "granted" =>
       /\ Faithful(grant[g].block)
       /\ Installed(grant[g]) \/ Since(grant[g], "uninstall")
  /\ \A r \in Revokes :
       /\ revoke[r].pc = "revoked" /\ revoke[r].block # None
       /\ Faithful(revoke[r].block)
       => ~Installed(revoke[r]) \/ Since(revoke[r], "install")

-----------------------------------------------------------------------------
(* What the code does not guarantee. *)

(* A revoked report of a row with a block says the row's permission is      *)
(* gone, or was installed again since, whatever the block (the guard of     *)
(* uninstall_validation.ts:155-160 "does not catch ... a                    *)
(* consistent-but-wrong pair").                                             *)
RevokedIsGone ==
  \A r \in Revokes : revoke[r].pc = "revoked" /\ revoke[r].block # None =>
    ~Installed(revoke[r]) \/ Since(revoke[r], "install")

(* A check that exits 0 has found an account "owned by the same EOA the     *)
(* operator used at provisioning time" (verify-installed-validator.ts:48-51 *)
(* says so; what it compares is the validator's address).                   *)
VerifiedOwner ==
  \A k \in Checks :
    LET env == check[k].env
    IN check[k].pc = "ok" /\ ~check[k].overtaken =>
         accounts[env.rpc][env.account].owner = env.account[1]

(* A broadcast receipt's operation is the one that deployed the account.    *)
ReceiptDeployed ==
  \A r \in Provisions :
    LET receipt == provision[r].receipt
    IN provision[r].pc = "printed" /\ receipt.mode = "broadcast" =>
         receipt.op.creates = receipt.account

(* A revoked report of a granted row says its permission has left the       *)
(* account it was installed on.                                             *)
RevokedWhereGranted ==
  \A g \in Grants, r \in Revokes :
    /\ grant[g].pc = "granted" /\ revoke[r].pc = "revoked"
    /\ revoke[r].block = grant[g].block
    => \E i, j \in DOMAIN landed[grant[g].op.chain] :
         LET l == landed[grant[g].op.chain]
         IN /\ i < j /\ l[i].op = grant[g].op /\ l[j].op.kind = "uninstall"
            /\ l[j].op.account = grant[g].op.account

(* While the adapter runs, an uninstallation on its way is one some call    *)
(* still waits for: a revoke that was reported failed changes nothing later. *)
FailedRevokeIsOver ==
  adapter.pc = "up" /\ adapter.boots = 1 =>
    \A c \in ALLOWED_CHAIN_IDS : \A op \in pool[c] :
      op.kind = "uninstall" =>
        \E r \in Revokes : revoke[r].pc = "waiting" /\ revoke[r].op = op
=============================================================================
