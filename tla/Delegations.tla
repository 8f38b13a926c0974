----------------------------- MODULE Delegations ----------------------------
(***************************************************************************)
(* The delegations of one smart account: how they are granted, installed   *)
(* by a browser, and revoked.  Sources: lib/bank/delegations.ex and        *)
(* delegations/delegation.ex (the rows), lib/bank/security.ex (the         *)
(* operator's revoke), lib/bank/runtime/workers/{revoke_delegation,        *)
(* grant_delegation,poll_install_receipt,verify_install_onchain}.ex,       *)
(* lib/bank/session_permissions/browser_install.ex, and the adapter's      *)
(* chain_adapter/src/dispatch/{revoke,grant}.ts and                        *)
(* chains/base/{revoke,grant}.ts.                                          *)
(*                                                                         *)
(* Adapter callbacks and the operator's write lock the row and re-check    *)
(* it; the two install workers do not: they write by primary key what they *)
(* decided on a row read earlier, so their reads and writes are steps of   *)
(* their own.  Every grant of the adapter installs the same permission     *)
(* (one session signer, one policy), hence the same delegation id; a       *)
(* browser install is identified by its user operation.                    *)
(***************************************************************************)
EXTENDS Naturals, Sequences

CONSTANTS Permission,   \* the delegation id of the adapter's grants
          Installs,     \* browser installs, each the id of its delegation
          Connects,     \* connect requests, each with its GrantDelegation job
          Revokes,      \* operator revokes, each with its RevokeDelegation job
          Refusals,     \* whether a revoke may be refused: mainnet off, 4xx
          Enforced,     \* validation_id_check is :enforce, and not :skip
          HonestBrowser,\* a browser confirms only an install that succeeded
          MaxAttempts,  \* Oban's max_attempts, the same for every worker
          MaxFaults     \* bound: lost calls, dead processes, restarts

ASSUME PermissionAssumption == Permission \notin Installs
ASSUME DelegationBounds ==
  /\ {Refusals, Enforced, HonestBrowser} \subseteq BOOLEAN
  /\ MaxAttempts \in Nat \ {0}
  /\ MaxFaults \in Nat

VARIABLES rows,      \* delegations rows in the order of insertion
          install,   \* browser installs: the browser, its user operation,
                     \* the deadline, the poller and verifier jobs
          connect,   \* GrantDelegation jobs
          revoke,    \* operator's call, RevokeDelegation job, HTTP handler
          run,       \* the adapter's revoke in flight for the account
          grantRun,  \* the adapter's grant in flight for the account
          late,      \* callbacks the adapter gave up on, still to be handled
          op,        \* the revoke user operation on chain
          chain,     \* is the account deployed, which ids are installed,
                     \* and for which ones has a revoke succeeded
          faults     \* bound left

vars ==
  <<rows, install, connect, revoke, run, grantRun, late, op, chain, faults>>

-----------------------------------------------------------------------------
Ids == {Permission} \cup Installs

NoId == "none"

Live == {"pending", "active", "revoking", "revoke_failed"}
RowState == Live \cup {"revoked", "install_failed"}
Row == [id : Ids, state : RowState]

JobState == {"none", "available", "loaded", "verified", "missing", "over"}

TypeOK ==
  /\ rows \in Seq(Row)
  /\ install \in [Installs ->
       [browser : {"idle", "signed", "waiting", "over"},
        userop : {"unsent", "pending", "success", "reverted"},
        late : BOOLEAN, poller : JobState, verifier : JobState,
        tries : 0..MaxAttempts]]
  /\ connect \in [Connects -> [job : JobState, tries : 0..MaxAttempts]]
  /\ revoke \in [Revokes ->
       [call : {"idle", "recording", "over"}, job : JobState,
        id : Ids \cup {NoId}, tries : 0..MaxAttempts,
        handler : {"none", "calling", "acked"}]]
  /\ run \in [pc : {"none", "building", "sent", "reporting", "closing"},
              id : Ids \cup {NoId},
              verdict : {"none", "revoked", "revoke_failed"}]
  /\ grantRun \in {"none", "installing", "reporting"}
  /\ late \subseteq [id : Ids, state : {"revoking", "revoked",
                                        "revoke_failed", "granted"}]
  /\ op \in [st : {"none", "pending", "success", "reverted"},
             id : Ids \cup {NoId}]
  /\ chain \in [deployed : BOOLEAN,
                installed : SUBSET Ids, uninstalled : SUBSET Ids]
  /\ faults \in 0..MaxFaults

Init ==
  /\ rows = <<>>
  /\ install = [i \in Installs |-> [browser |-> "idle", userop |-> "unsent",
                                    late |-> FALSE, poller |-> "none",
                                    verifier |-> "none", tries |-> 0]]
  /\ connect = [g \in Connects |-> [job |-> "none", tries |-> 0]]
  /\ revoke = [j \in Revokes |-> [call |-> "idle", job |-> "none",
                                  id |-> NoId, tries |-> 0,
                                  handler |-> "none"]]
  /\ run = [pc |-> "none", id |-> NoId, verdict |-> "none"]
  /\ grantRun = "none"
  /\ late = {}
  /\ op = [st |-> "none", id |-> NoId]
  /\ chain \in [deployed : BOOLEAN, installed : {{}}, uninstalled : {{}}]
  /\ faults = MaxFaults

Fault == faults > 0 /\ faults' = faults - 1

-----------------------------------------------------------------------------
(* The rows. *)

LiveRows == {r \in DOMAIN rows : rows[r].state \in Live}

RowsOf(id) == {r \in DOMAIN rows : rows[r].id = id}

(* Mutant of Admits: the index is not there. *)
AdmitsAnyRow(r, state) == TRUE

(* The partial unique index on smart_account_id over the live states: a    *)
(* row may be live when no other one is.                                   *)
Admits(r, state) == state \in Live => LiveRows \subseteq {r}

InsertRow(id, state) ==
  /\ Admits(Len(rows) + 1, state)
  /\ rows' = Append(rows, [id |-> id, state |-> state])

SetState(r, state) == rows' = [rows EXCEPT ![r].state = state]

RequestedFrom == {"active", "pending", "revoke_failed"}

(* record_revoke_requested: the live row of the account, whatever its id.  *)
RecordRevokeRequested ==
  \/ \E r \in LiveRows : /\ rows[r].state \in RequestedFrom
                         /\ SetState(r, "revoking")
  \/ /\ \A r \in LiveRows : rows[r].state \notin RequestedFrom
     /\ UNCHANGED rows

(* Mutant of CallbackTarget: the lock query does not look at the id. *)
CallbackTargetOfAccount(id) == LiveRows

CallbackTarget(id) == {r \in LiveRows : rows[r].id = id}

(* The states a callback moves a row from, and the state it moves it to. *)
CallbackFrom(state) ==
  IF state = "revoking" THEN RequestedFrom ELSE {"revoking"}

(* Mutant of GrantedCallback: the adapter's word is stored as the state. *)
GrantedCallbackRaw ==
  \/ /\ LiveRows = {}
     /\ InsertRow(Permission, "granted")
  \/ /\ LiveRows # {}
     /\ UNCHANGED rows

(* Mutant of GrantedCallback: a second grant wakes a row that is not active. *)
GrantedCallbackWakes ==
  \/ /\ LiveRows = {}
     /\ InsertRow(Permission, "active")
  \/ \E r \in CallbackTarget(Permission) : SetState(r, "active")
  \/ /\ LiveRows # {} /\ CallbackTarget(Permission) = {}
     /\ UNCHANGED rows

(* The row of another id is left alone, and a row of the adapter's id is   *)
(* inserted active: "pending" rows are browser installs.                   *)
GrantedCallback ==
  \/ /\ LiveRows = {}
     /\ InsertRow(Permission, "active")
  \/ /\ LiveRows # {}
     /\ UNCHANGED rows

(* Bank.Delegations.apply_callback; the controller acknowledges whatever    *)
(* comes out of it.                                                        *)
ApplyCallback(id, state) ==
  IF state = "granted" THEN GrantedCallback
  ELSE LET hit == {r \in CallbackTarget(id) :
                     rows[r].state \in CallbackFrom(state)}
       IN \/ \E r \in hit : SetState(r, state)
          \/ hit = {} /\ UNCHANGED rows

Callback(id, state) == [id |-> id, state |-> state]

(* A callback that failed for the adapter never reached Phoenix, or Phoenix *)
(* is still going to handle it.                                            *)
GivesUpOn(message) == Fault /\ late' \in {late, late \cup {message}}

DeliverLate ==
  /\ \E m \in late : ApplyCallback(m.id, m.state) /\ late' = late \ {m}
  /\ UNCHANGED <<install, connect, revoke, run, grantRun, op, chain, faults>>

-----------------------------------------------------------------------------
(* The operator's revoke: enqueue the job, then write the row. *)

RevokeDelegation(j) ==
  /\ revoke[j].call = "idle"
  /\ revoke' = [revoke EXCEPT ![j].call = "recording", ![j].job = "available"]
  /\ UNCHANGED <<rows, install, connect, run, grantRun, late, op, chain,
                 faults>>

RecordRequest(j) ==
  /\ revoke[j].call = "recording"
  /\ RecordRevokeRequested
  /\ revoke' = [revoke EXCEPT ![j].call = "over"]
  /\ UNCHANGED <<install, connect, run, grantRun, late, op, chain, faults>>

DiesBeforeRecord(j) ==
  /\ revoke[j].call = "recording"
  /\ Fault
  /\ revoke' = [revoke EXCEPT ![j].call = "over"]
  /\ UNCHANGED <<rows, install, connect, run, grantRun, late, op, chain>>

-----------------------------------------------------------------------------
(* Workers.RevokeDelegation and the adapter's handler of its request. *)

(* A failed attempt is retried until Oban has no attempt left. *)
Again(job) ==
  [job EXCEPT !.job = IF job.tries + 1 < MaxAttempts THEN "available"
                                                     ELSE "over",
              !.tries = @ + 1]

(* The worker reads the live row, if there is one, and calls the adapter;  *)
(* without one, or on a mainnet that is not enabled, the job is cancelled. *)
RevokeJob(j) ==
  /\ revoke[j].job = "available"
  /\ \/ \E r \in LiveRows :
          revoke' = [revoke EXCEPT ![j].job = "loaded",
                                   ![j].id = rows[r].id,
                                   ![j].handler = "calling"]
     \/ /\ Refusals \/ LiveRows = {}
        /\ revoke' = [revoke EXCEPT ![j].job = "over"]
  /\ UNCHANGED <<rows, install, connect, run, grantRun, late, op, chain,
                 faults>>

AdapterUnavailable(j) ==
  /\ revoke[j].handler = "calling"
  /\ Fault
  /\ revoke' = [revoke EXCEPT ![j] = [Again(@) EXCEPT !.handler = "none"]]
  /\ UNCHANGED <<rows, install, connect, run, grantRun, late, op, chain>>

(* A 4xx: the payload does not validate, or the caller is not authorized. *)
AdapterRejects(j) ==
  /\ Refusals
  /\ revoke[j].handler = "calling"
  /\ revoke' = [revoke EXCEPT ![j].job = "over", ![j].handler = "none"]
  /\ UNCHANGED <<rows, install, connect, run, grantRun, late, op, chain,
                 faults>>

HandlerCalls(j) ==
  /\ revoke[j].handler = "calling"
  /\ ApplyCallback(revoke[j].id, "revoking")
  /\ revoke' = [revoke EXCEPT ![j].handler = "acked"]
  /\ UNCHANGED <<install, connect, run, grantRun, late, op, chain, faults>>

HandlerCallFails(j) ==
  /\ revoke[j].handler = "calling"
  /\ GivesUpOn(Callback(revoke[j].id, "revoking"))
  /\ revoke' = [revoke EXCEPT ![j] = [Again(@) EXCEPT !.handler = "none"]]
  /\ UNCHANGED <<rows, install, connect, run, grantRun, op, chain>>

StartRun(id) ==
  IF run.pc = "none"
    THEN run' = [pc |-> "building", id |-> id, verdict |-> "none"]
    ELSE UNCHANGED run

HandlerAnswers(j) ==
  /\ revoke[j].handler = "acked"
  /\ StartRun(revoke[j].id)
  /\ revoke' = [revoke EXCEPT ![j].job = "over", ![j].handler = "none"]
  /\ UNCHANGED <<rows, install, connect, grantRun, late, op, chain, faults>>

(* The same, but the worker has stopped waiting for the answer. *)
HandlerAnswerLost(j) ==
  /\ revoke[j].handler = "acked"
  /\ Fault
  /\ StartRun(revoke[j].id)
  /\ revoke' = [revoke EXCEPT ![j] = [Again(@) EXCEPT !.handler = "none"]]
  /\ UNCHANGED <<rows, install, connect, grantRun, late, op, chain>>

-----------------------------------------------------------------------------
(* executeRevoke: build, send, wait for the receipt, report. *)

RunStep == UNCHANGED <<install, connect, revoke, grantRun, chain>>

Reporting(verdict) == [run EXCEPT !.pc = "reporting", !.verdict = verdict]

RunFails ==
  /\ run.pc = "building"
  /\ run' = Reporting("revoke_failed")
  /\ RunStep /\ UNCHANGED <<rows, late, op, faults>>

(* The operation takes the account's next nonce: one that is still pending *)
(* with the same nonce is replaced.                                        *)
RunSends ==
  /\ run.pc = "building"
  /\ run' = [run EXCEPT !.pc = "sent"]
  /\ op' = [st |-> "pending", id |-> run.id]
  /\ RunStep /\ UNCHANGED <<rows, late, faults>>

RunReceives ==
  /\ run.pc = "sent"
  /\ \/ op.st = "success" /\ run' = Reporting("revoked")
     \/ op.st = "reverted" /\ run' = Reporting("revoke_failed")
  /\ RunStep /\ UNCHANGED <<rows, late, op, faults>>

(* confirmation_failed: the operation is out there all the same. *)
RunGivesUp ==
  /\ run.pc = "sent"
  /\ run' = Reporting("revoke_failed")
  /\ RunStep /\ UNCHANGED <<rows, late, op, faults>>

RunReports ==
  /\ run.pc = "reporting"
  /\ ApplyCallback(run.id, run.verdict)
  /\ run' = [run EXCEPT !.pc = "closing"]
  /\ RunStep /\ UNCHANGED <<late, op, faults>>

RunReportFails ==
  /\ run.pc = "reporting"
  /\ GivesUpOn(Callback(run.id, run.verdict))
  /\ run' = [run EXCEPT !.pc = "closing"]
  /\ RunStep /\ UNCHANGED <<rows, op>>

NoRun == [pc |-> "none", id |-> NoId, verdict |-> "none"]

RunCloses ==
  /\ run.pc = "closing"
  /\ run' = NoRun
  /\ RunStep /\ UNCHANGED <<rows, late, op, faults>>

(* The chain decides.  An operation carries the account's init code when   *)
(* there is no code yet, and that part of it survives a revert.            *)
Deployed == [chain EXCEPT !.deployed = TRUE]

(* The sentinel of a browser-installed delegation leaves what is installed *)
(* alone; uninstallValidation removes it.                                  *)
OpLands ==
  /\ op.st = "pending"
  /\ op' = [op EXCEPT !.st = "success"]
  /\ chain' = [Deployed EXCEPT !.installed = @ \ ({op.id} \cap {Permission}),
                                !.uninstalled = @ \cup {op.id}]
  /\ UNCHANGED <<rows, install, connect, revoke, run, grantRun, late, faults>>

OpReverts ==
  /\ op.st = "pending"
  /\ op' = [op EXCEPT !.st = "reverted"]
  /\ chain' = Deployed
  /\ UNCHANGED <<rows, install, connect, revoke, run, grantRun, late, faults>>

(* Both in-flight sets are in memory. *)
AdapterRestart ==
  /\ Fault
  /\ run' = NoRun
  /\ grantRun' = "none"
  /\ revoke' = [j \in Revokes |->
                  IF revoke[j].handler = "none" THEN revoke[j]
                  ELSE [Again(revoke[j]) EXCEPT !.handler = "none"]]
  /\ UNCHANGED <<rows, install, connect, late, op, chain>>

-----------------------------------------------------------------------------
(* Connect: Delegations.request_connect, Workers.GrantDelegation and the   *)
(* adapter's executeGrant.                                                 *)

RequestConnect(g) ==
  /\ connect[g].job = "none"
  /\ connect' = [connect EXCEPT ![g].job = "available"]
  /\ UNCHANGED <<rows, install, revoke, run, grantRun, late, op, chain,
                 faults>>

StartGrant ==
  grantRun' = IF grantRun = "none" THEN "installing" ELSE grantRun

GrantJob(g) ==
  /\ connect[g].job = "available"
  /\ \/ StartGrant
     \/ UNCHANGED grantRun   \* refused with a 4xx
  /\ connect' = [connect EXCEPT ![g].job = "over"]
  /\ UNCHANGED <<rows, install, revoke, run, late, op, chain, faults>>

(* No answer: the adapter was down, or had started the grant already. *)
GrantJobFails(g) ==
  /\ connect[g].job = "available"
  /\ Fault
  /\ StartGrant \/ UNCHANGED grantRun
  /\ connect' = [connect EXCEPT ![g] = Again(@)]
  /\ UNCHANGED <<rows, install, revoke, run, late, op, chain>>

GrantedOnChain == [Deployed EXCEPT !.installed = @ \cup {Permission}]

GrantInstalls ==
  /\ grantRun = "installing"
  /\ grantRun' = "reporting"
  /\ chain' = GrantedOnChain
  /\ UNCHANGED <<rows, install, connect, revoke, run, late, op, faults>>

(* grant_failed writes no row; it is also what a lost receipt and a failed *)
(* serialization come to, when the permission is installed.                *)
GrantFails ==
  /\ grantRun = "installing"
  /\ grantRun' = "none"
  /\ chain' \in {chain, Deployed, GrantedOnChain}
  /\ UNCHANGED <<rows, install, connect, revoke, run, late, op, faults>>

GrantReports ==
  /\ grantRun = "reporting"
  /\ ApplyCallback(Permission, "granted")
  /\ grantRun' = "none"
  /\ UNCHANGED <<install, connect, revoke, run, late, op, chain, faults>>

GrantReportFails ==
  /\ grantRun = "reporting"
  /\ GivesUpOn(Callback(Permission, "granted"))
  /\ grantRun' = "none"
  /\ UNCHANGED <<rows, install, connect, revoke, run, op, chain>>

-----------------------------------------------------------------------------
(* A browser install: the browser, Workers.PollInstallReceipt and          *)
(* Workers.VerifyInstallOnchain.                                           *)

InstallStep == UNCHANGED <<connect, revoke, run, grantRun, late, op, faults>>

RowPending(i) == \E r \in RowsOf(i) : rows[r].state = "pending"

(* Oban's unique clause: an insert is a no-op while there is such a job.   *)
Enqueued(i) ==
  IF install[i].verifier = "none" THEN "available" ELSE install[i].verifier

Broadcast(i) ==
  /\ install[i].browser = "idle"
  /\ install' = [install EXCEPT ![i].browser = "signed",
                                ![i].userop = "pending"]
  /\ InstallStep /\ UNCHANGED <<rows, chain>>

InstallLands(i) ==
  /\ install[i].userop = "pending"
  /\ install' = [install EXCEPT ![i].userop = "success"]
  /\ chain' = [Deployed EXCEPT !.installed = @ \cup {i}]
  /\ InstallStep /\ UNCHANGED rows

InstallReverts(i) ==
  /\ install[i].userop = "pending"
  /\ install' = [install EXCEPT ![i].userop = "reverted"]
  /\ chain' = Deployed
  /\ InstallStep /\ UNCHANGED rows

(* The row and its poller are inserted in one transaction, or refused by   *)
(* the index.                                                              *)
Submitted(i) ==
  /\ install[i].browser = "signed"
  /\ \/ /\ InsertRow(i, "pending")
        /\ install' = [install EXCEPT ![i].browser = "waiting",
                                      ![i].poller = "available"]
     \/ /\ LiveRows # {}
        /\ install' = [install EXCEPT ![i].browser = "over"]
        /\ UNCHANGED rows
  /\ InstallStep /\ UNCHANGED chain

(* Phoenix checks nothing of the browser's word here: the verifier does.   *)
Confirmed(i) ==
  /\ install[i].browser = "waiting"
  /\ HonestBrowser => install[i].userop = "success"
  /\ install' = [install EXCEPT
       ![i].browser = "over",
       ![i].verifier = IF RowPending(i) THEN Enqueued(i) ELSE @]
  /\ InstallStep /\ UNCHANGED <<rows, chain>>

(* The receipt says reverted, or the browser has waited long enough: the   *)
(* row is marked whatever its state.                                       *)
FailureReported(i) ==
  /\ install[i].browser = "waiting"
  /\ install' = [install EXCEPT ![i].browser = "over"]
  /\ \E r \in RowsOf(i) : SetState(r, "install_failed")
  /\ InstallStep /\ UNCHANGED chain

DeadlinePasses(i) ==
  /\ install[i].poller # "none" /\ ~install[i].late
  /\ install' = [install EXCEPT ![i].late = TRUE]
  /\ InstallStep /\ UNCHANGED <<rows, chain>>

PollerLoads(i) ==
  /\ install[i].poller = "available"
  /\ install' = [install EXCEPT ![i].poller =
                   IF ~RowPending(i) THEN "over"
                   ELSE IF install[i].late THEN "missing" ELSE "loaded"]
  /\ InstallStep /\ UNCHANGED <<rows, chain>>

(* No receipt yet, or no answer: snooze or retry. *)
PollerWaits(i) ==
  /\ install[i].poller = "loaded"
  /\ install' = [install EXCEPT ![i].poller = "available"]
  /\ InstallStep /\ UNCHANGED <<rows, chain>>

(* Mutant of PollerHandsOver: any receipt will do, a reverted one too. *)
PollerHandsOverUnread(i) ==
  /\ install[i].poller = "loaded"
  /\ install[i].userop \in {"success", "reverted"}
  /\ install' = [install EXCEPT ![i].poller = "over",
                                ![i].verifier = Enqueued(i)]
  /\ InstallStep /\ UNCHANGED <<rows, chain>>

PollerHandsOver(i) ==
  /\ install[i].poller = "loaded"
  /\ install[i].userop = "success"
  /\ install' = [install EXCEPT ![i].poller = "over",
                                ![i].verifier = Enqueued(i)]
  /\ InstallStep /\ UNCHANGED <<rows, chain>>

(* Reverted, refused by the bundler, or the last attempt without answer.   *)
PollerConcludes(i) ==
  /\ install[i].poller = "loaded"
  /\ install' = [install EXCEPT ![i].poller = "missing"]
  /\ InstallStep /\ UNCHANGED <<rows, chain>>

PollerWrites(i) ==
  /\ install[i].poller = "missing"
  /\ \E r \in RowsOf(i) : SetState(r, "install_failed")
  /\ install' = [install EXCEPT ![i].poller = "over"]
  /\ InstallStep /\ UNCHANGED chain

VerifierLoads(i) ==
  /\ install[i].verifier = "available"
  /\ install' = [install EXCEPT ![i].verifier =
                   IF RowPending(i) THEN "loaded" ELSE "over"]
  /\ InstallStep /\ UNCHANGED <<rows, chain>>

(* Mutant of OnChain: the code of the account is taken for the permission. *)
OnChainByCode(i) == chain.deployed

(* KernelVerifier.verify: the account has code and, when the check is      *)
(* enforced, its validationConfig of the id is not empty.  Under :skip a   *)
(* made-up answer stands for the configuration.  On a Kernel that does not *)
(* expose the getter the call reverts, which is VerifierUnreachable.       *)
OnChain(i) == chain.deployed /\ (Enforced => i \in chain.installed)

VerifierReads(i) ==
  /\ install[i].verifier = "loaded"
  /\ \/ /\ OnChain(i)
        /\ install' = [install EXCEPT ![i].verifier = "verified"]
     \/ install' = [install EXCEPT ![i].verifier = "missing"]
  /\ InstallStep /\ UNCHANGED <<rows, chain>>

(* Mutant of Unreachable: an exhausted job is left to Oban to discard. *)
UnreachableDiscarded(tries) ==
  IF tries + 1 < MaxAttempts THEN "available" ELSE "over"

(* The node does not answer: retry, and conclude on the last attempt. *)
Unreachable(tries) == IF tries + 1 < MaxAttempts THEN "available" ELSE "missing"

VerifierUnreachable(i) ==
  /\ install[i].verifier = "loaded"
  /\ install' = [install EXCEPT ![i].verifier = Unreachable(install[i].tries),
                                ![i].tries = @ + 1]
  /\ InstallStep /\ UNCHANGED <<rows, chain>>

(* By primary key, from the row that was pending when it was read; when    *)
(* the index refuses, the job raises.                                      *)
VerifierActivates(i) ==
  /\ install[i].verifier = "verified"
  /\ \E r \in RowsOf(i) :
       IF Admits(r, "active") THEN SetState(r, "active") ELSE UNCHANGED rows
  /\ install' = [install EXCEPT ![i].verifier = "over"]
  /\ InstallStep /\ UNCHANGED chain

VerifierFails(i) ==
  /\ install[i].verifier = "missing"
  /\ \E r \in RowsOf(i) : SetState(r, "install_failed")
  /\ install' = [install EXCEPT ![i].verifier = "over"]
  /\ InstallStep /\ UNCHANGED chain

-----------------------------------------------------------------------------
RevokeNext ==
  \E j \in Revokes :
    \/ RevokeDelegation(j)
    \/ RecordRequest(j)
    \/ DiesBeforeRecord(j)
    \/ RevokeJob(j)
    \/ AdapterUnavailable(j)
    \/ AdapterRejects(j)
    \/ HandlerCalls(j)
    \/ HandlerCallFails(j)
    \/ HandlerAnswers(j)
    \/ HandlerAnswerLost(j)

RunNext ==
  \/ RunFails
  \/ RunSends
  \/ RunReceives
  \/ RunGivesUp
  \/ RunReports
  \/ RunReportFails
  \/ RunCloses

ConnectNext ==
  \/ \E g \in Connects : \/ RequestConnect(g)
                         \/ GrantJob(g)
                         \/ GrantJobFails(g)
  \/ GrantInstalls
  \/ GrantFails
  \/ GrantReports
  \/ GrantReportFails

InstallNext ==
  \E i \in Installs :
    \/ Broadcast(i)
    \/ InstallLands(i)
    \/ InstallReverts(i)
    \/ Submitted(i)
    \/ Confirmed(i)
    \/ FailureReported(i)
    \/ DeadlinePasses(i)
    \/ PollerLoads(i)
    \/ PollerWaits(i)
    \/ PollerHandsOver(i)
    \/ PollerConcludes(i)
    \/ PollerWrites(i)
    \/ VerifierLoads(i)
    \/ VerifierReads(i)
    \/ VerifierUnreachable(i)
    \/ VerifierActivates(i)
    \/ VerifierFails(i)

Next ==
  \/ RevokeNext
  \/ RunNext
  \/ ConnectNext
  \/ InstallNext
  \/ OpLands
  \/ OpReverts
  \/ AdapterRestart
  \/ DeliverLate

Spec == Init /\ [][Next]_vars

(* Oban runs what is available, time passes, and a started step goes on.   *)
(* Nothing is promised of the chain, the browser or the operator.          *)
JobsGoOn ==
  /\ \A i \in Installs :
       /\ WF_vars(DeadlinePasses(i))
       /\ WF_vars(PollerLoads(i))
       /\ WF_vars(PollerWaits(i) \/ PollerHandsOver(i) \/ PollerConcludes(i))
       /\ WF_vars(PollerWrites(i))
       /\ WF_vars(VerifierLoads(i))
       /\ WF_vars(VerifierReads(i) \/ VerifierUnreachable(i))
       /\ WF_vars(VerifierActivates(i) \/ VerifierFails(i))
  /\ \A j \in Revokes :
       /\ WF_vars(RecordRequest(j))
       /\ WF_vars(RevokeJob(j))
       /\ WF_vars(HandlerCalls(j))
       /\ WF_vars(HandlerAnswers(j))
  /\ WF_vars(RunFails \/ RunSends)
  /\ WF_vars(RunReceives \/ RunGivesUp)
  /\ WF_vars(RunReports)
  /\ WF_vars(RunCloses)

FairSpec == Spec /\ JobsGoOn

-----------------------------------------------------------------------------
(* Properties. *)

(* At most one delegation of the account is not over, although the install *)
(* workers write rows they read long ago and may bring one back to life    *)
(* after the account was granted another.                                  *)
OneLiveRow == \A q, r \in LiveRows : q = r

(* A delegation is recorded revoked only when a revoke operation for its   *)
(* id succeeded on chain, whichever callbacks were late, lost or meant for *)
(* an earlier delegation of the account.                                   *)
RevokedOnProof ==
  \A r \in DOMAIN rows :
    rows[r].state = "revoked" => rows[r].id \in chain.uninstalled

Established(i) ==
  /\ chain.deployed
  /\ Enforced \/ HonestBrowser => i \in chain.installed

(* A browser-installed delegation is active only on an account that is     *)
(* deployed, and only with its permission on chain: whatever the browser   *)
(* claimed when the verifier enforces the read of the validation id, and,  *)
(* when it skips that read, as long as browsers do not claim a receipt     *)
(* they have not seen.                                                     *)
ActiveWasVerified ==
  \A r \in DOMAIN rows :
    rows[r].state = "active" /\ rows[r].id \in Installs =>
      Established(rows[r].id)

(* The documented state machine, for the delegations of this account. *)
Lifecycle == INSTANCE DelegationLifecycle
               WITH history <- [r \in DOMAIN rows |-> rows[r].state]
ImplementsLifecycle == Lifecycle!LifecycleSpec

(* A submitted install does not stay pending: the poller's deadline or the *)
(* verifier's last attempt ends it even when the browser is gone.          *)
PendingSettles ==
  \A i \in Installs : RowPending(i) ~> ~RowPending(i)

-----------------------------------------------------------------------------
(* Claims of the documentation that the code does not keep. *)

(* kernel_verifier.ex: "Phoenix MUST NOT trust the browser's word", which  *)
(* the code does where validation_id_check is :skip (config/dev.exs).      *)
ActiveIsInstalled ==
  \A r \in DOMAIN rows :
    rows[r].state = "active" /\ rows[r].id \in Installs =>
      rows[r].id \in chain.installed

(* docs/incident-runbook.md: "Phoenix stays fail-closed the whole time", *)
(* from the moment revoking is written and through every revoke_failed.  *)
FailClosed ==
  [][\A r \in DOMAIN rows :
       rows[r].state \in {"revoking", "revoke_failed"} =>
         rows'[r].state # "active"]_vars

(* delegations.ex: ":revoked is terminal; a new grant produces a new record" *)
RevokedIsTerminal ==
  [][\A r \in DOMAIN rows :
       rows[r].state = "revoked" => rows'[r].state \notin Live]_vars

(* docs/design/browser-signed-install.md: a failure attestation marks the *)
(* pending row install_failed; a row already active is a no-op.           *)
InstallFailsFromPending ==
  [][\A r \in DOMAIN rows :
       rows[r].state = "active" => rows'[r].state # "install_failed"]_vars

(* delegation.ex: "the on-chain delegation is still live when a revoke *)
(* attempt fails (send rejected, confirmation timeout, ...)".          *)
FailedIsStillLive ==
  \A r \in DOMAIN rows :
    rows[r].state = "revoke_failed" /\ rows[r].id = Permission =>
      Permission \in chain.installed

(* dispatch/revoke.ts: "Phoenix never dangles in :revoking". *)
NeverDangles ==
  (\E r \in LiveRows : rows[r].state = "revoking") ~>
    (\A r \in LiveRows : rows[r].state # "revoking")
=============================================================================
