-------------------------- MODULE DelegationsProofs --------------------------
(* Theorems about Delegations for any number of browser installs, connect  *)
(* requests and revokes, and every bound on attempts and faults.           *)
EXTENDS Delegations, SequenceTheorems, TLAPS

InstallRow ==
  [browser : {"idle", "signed", "waiting", "over"},
   userop : {"unsent", "pending", "success", "reverted"},
   late : BOOLEAN, poller : JobState, verifier : JobState,
   tries : 0..MaxAttempts]

ConnectRow == [job : JobState, tries : 0..MaxAttempts]

RevokeRow == [call : {"idle", "recording", "over"}, job : JobState,
              id : Ids \cup {NoId}, tries : 0..MaxAttempts,
              handler : {"none", "calling", "acked"}]

Message == [id : Ids, state : {"revoking", "revoked", "revoke_failed",
                               "granted"}]

ChainRow ==
  [deployed : BOOLEAN, installed : SUBSET Ids, uninstalled : SUBSET Ids]

(* A job that can still run has attempts left.  An operation that succeeded *)
(* has installed its permission; an honest browser, like the poller, calls *)
(* the verifier only after one that did; and a verifier that found the     *)
(* permission had reason to.                                               *)
InstallInv ==
  \A i \in Installs :
    /\ install[i].verifier \in {"none", "available", "loaded"} =>
         install[i].tries < MaxAttempts
    /\ install[i].browser = "idle" => install[i].userop = "unsent"
    /\ install[i].userop = "success" => i \in chain.installed
    /\ HonestBrowser /\ install[i].verifier # "none" =>
         install[i].userop = "success"
    /\ install[i].verifier = "verified" => Established(i)

ConnectInv ==
  \A g \in Connects : connect[g].job # "over" => connect[g].tries < MaxAttempts

RevokeInv ==
  \A j \in Revokes :
    /\ revoke[j].call = "idle" => revoke[j].job = "none"
    /\ revoke[j].job # "over" => revoke[j].tries < MaxAttempts
    /\ revoke[j].handler # "none" =>
         revoke[j].job = "loaded" /\ revoke[j].id \in Ids

(* The run in flight owns the user operation it sent, and reports what     *)
(* became of it; an operation that succeeded has removed its id.           *)
RunInv ==
  /\ run.pc # "none" => run.id \in Ids
  /\ run.pc = "sent" => op.id = run.id
  /\ run.pc = "reporting" => run.verdict # "none"
  /\ run.verdict = "revoked" => run.id \in chain.uninstalled

OpInv ==
  /\ op.st # "none" => op.id \in Ids
  /\ op.st = "success" => op.id \in chain.uninstalled

(* What Phoenix may still handle is as true as what it handled in time. *)
LateInv == \A m \in late : m.state = "revoked" => m.id \in chain.uninstalled

RowsInv == OneLiveRow /\ RevokedOnProof /\ ActiveWasVerified

ProcessInv == InstallInv /\ ConnectInv /\ RevokeInv /\ RunInv /\ OpInv /\ LateInv

Inv == TypeOK /\ ProcessInv /\ RowsInv

-----------------------------------------------------------------------------
(* Lemmas about the rows. *)

LEMMA Bounds ==
  /\ MaxAttempts \in Nat \ {0} /\ MaxFaults \in Nat
  /\ Permission \in Ids /\ Permission \notin Installs /\ Installs \subseteq Ids
BY DelegationBounds, PermissionAssumption DEF Ids

LEMMA RowIds ==
  ASSUME rows \in Seq(Row)
  PROVE  /\ Len(rows) \in Nat /\ DOMAIN rows = 1..Len(rows)
         /\ \A r \in DOMAIN rows : rows[r] \in Row
         /\ \A r \in DOMAIN rows : rows[r].id \in Ids /\ rows[r].state \in RowState
         /\ LiveRows \subseteq DOMAIN rows
<1>1. /\ Len(rows) \in Nat /\ DOMAIN rows = 1..Len(rows)
      /\ \A r \in DOMAIN rows : rows[r] \in Row
  BY LenProperties, ElementOfSeq
<1> QED BY <1>1 DEF Row, LiveRows

(* A row changes its state and nothing else. *)
Moved(r, state) ==
  /\ rows' \in Seq(Row) /\ Len(rows') = Len(rows)
  /\ DOMAIN rows' = DOMAIN rows
  /\ \A q \in DOMAIN rows :
       /\ rows'[q].id = rows[q].id
       /\ rows'[q].state = IF q = r THEN state ELSE rows[q].state

(* A row is inserted behind the others. *)
Added(id, state) ==
  /\ rows' \in Seq(Row) /\ Len(rows') = Len(rows) + 1
  /\ DOMAIN rows' = DOMAIN rows \cup {Len(rows) + 1}
  /\ Len(rows) + 1 \notin DOMAIN rows
  /\ \A q \in DOMAIN rows : rows'[q] = rows[q]
  /\ rows'[Len(rows) + 1].id = id /\ rows'[Len(rows) + 1].state = state

LEMMA SetStateStep ==
  ASSUME rows \in Seq(Row), NEW r \in DOMAIN rows, NEW state \in RowState,
         SetState(r, state)
  PROVE  Moved(r, state)
<1> DEFINE row == [rows[r] EXCEPT !.state = state]
<1>1. row \in Row /\ row.id = rows[r].id /\ row.state = state
  BY RowIds DEF Row
<1>2. rows' = [rows EXCEPT ![r] = row]
  BY DEF SetState
<1>3. r \in 1..Len(rows)
  BY RowIds
<1> HIDE DEF row
<1>4. /\ rows' \in Seq(Row) /\ Len(rows') = Len(rows)
      /\ \A q \in 1..Len(rows) : rows'[q] = IF q = r THEN row ELSE rows[q]
  BY <1>1, <1>2, <1>3, ExceptSeq
<1>5. DOMAIN rows' = 1..Len(rows')
  BY <1>4, LenProperties
<1> QED BY <1>1, <1>4, <1>5, RowIds DEF Moved

LEMMA InsertRowStep ==
  ASSUME rows \in Seq(Row), NEW id \in Ids, NEW state \in Live,
         InsertRow(id, state)
  PROVE  Added(id, state) /\ LiveRows = {}
<1> DEFINE row == [id |-> id, state |-> state]
<1>1. row \in Row /\ row.id = id /\ row.state = state
  BY DEF Row, RowState
<1>2. rows' = Append(rows, row) /\ Len(rows) \in Nat
  BY RowIds DEF InsertRow
<1> HIDE DEF row
<1>3. /\ rows' \in Seq(Row) /\ Len(rows') = Len(rows) + 1
      /\ \A q \in 1..Len(rows) : rows'[q] = rows[q]
      /\ rows'[Len(rows) + 1] = row
  BY <1>1, <1>2
<1>4. DOMAIN rows' = 1..(Len(rows) + 1)
  BY <1>3, LenProperties
<1>5. Len(rows) + 1 \notin DOMAIN rows
  BY RowIds
<1>6. LiveRows = {}
  BY <1>5 DEF InsertRow, Admits, LiveRows
<1> QED BY <1>1, <1>3, <1>4, <1>5, <1>6, RowIds DEF Added

-----------------------------------------------------------------------------
(* What a step may do to the rows. *)

Requested == \E r \in LiveRows : /\ rows[r].state \in RequestedFrom
                                 /\ Moved(r, "revoking")

Refused == \E r \in LiveRows : /\ rows[r].state = "revoking"
                               /\ Moved(r, "revoke_failed")

Revoked == \E r \in LiveRows : /\ rows[r].state = "revoking"
                               /\ rows[r].id \in chain.uninstalled
                               /\ Moved(r, "revoked")

AdapterGranted == LiveRows = {} /\ Added(Permission, "active")

BrowserStep ==
  \E i \in Installs :
    \/ LiveRows = {} /\ Added(i, "pending")
    \/ \E r \in RowsOf(i) : Moved(r, "install_failed")
    \/ \E r \in RowsOf(i) : /\ LiveRows \subseteq {r} /\ Established(i)
                            /\ Moved(r, "active")

RowsStep == \/ UNCHANGED rows
            \/ Requested \/ Refused \/ Revoked \/ AdapterGranted
            \/ BrowserStep

LEMMA RecordStep ==
  ASSUME rows \in Seq(Row), RecordRevokeRequested
  PROVE  RowsStep
<1>1. "revoking" \in RowState
  BY DEF RowState, Live
<1> QED BY <1>1, RowIds, SetStateStep
        DEF RecordRevokeRequested, RowsStep, Requested

LEMMA CallbackStep ==
  ASSUME rows \in Seq(Row), NEW id \in Ids,
         NEW state \in {"revoking", "revoked", "revoke_failed", "granted"},
         state = "revoked" => id \in chain.uninstalled,
         ApplyCallback(id, state)
  PROVE  RowsStep
<1>1. {"revoking", "revoked", "revoke_failed", "active"} \subseteq RowState
      /\ "active" \in Live
  BY DEF RowState, Live
<1>2. CASE state = "granted"
  BY <1>1, <1>2, Bounds, InsertRowStep
     DEF ApplyCallback, GrantedCallback, RowsStep, AdapterGranted
<1>3. CASE state # "granted"
  <2>1. CASE UNCHANGED rows
    BY <2>1 DEF RowsStep
  <2>2. ASSUME NEW r \in CallbackTarget(id),
               rows[r].state \in CallbackFrom(state), SetState(r, state)
        PROVE  RowsStep
    <3>1. r \in LiveRows /\ rows[r].id = id /\ Moved(r, state)
      BY <1>1, <1>3, <2>2, RowIds, SetStateStep DEF CallbackTarget
    <3> QED BY <1>3, <2>2, <3>1
            DEF CallbackFrom, RowsStep, Requested, Refused, Revoked
  <2> QED BY <1>3, <2>1, <2>2 DEF ApplyCallback
<1> QED BY <1>2, <1>3

LEMMA BrowserRowStep ==
  ASSUME Inv, NEW i \in Installs,
         \/ Submitted(i) \/ FailureReported(i) \/ PollerWrites(i)
         \/ VerifierActivates(i) \/ VerifierFails(i)
  PROVE  RowsStep
<1>1. /\ rows \in Seq(Row) /\ i \in Ids
      /\ "pending" \in Live /\ "install_failed" \in RowState
      /\ "active" \in RowState /\ "active" \in Live
      /\ RowsOf(i) \subseteq DOMAIN rows
  BY Bounds DEF Inv, TypeOK, RowState, Live, RowsOf
<1>2. CASE Submitted(i)
  BY <1>1, <1>2, InsertRowStep DEF Submitted, RowsStep, BrowserStep
<1>3. CASE FailureReported(i) \/ PollerWrites(i) \/ VerifierFails(i)
  BY <1>1, <1>3, SetStateStep
     DEF FailureReported, PollerWrites, VerifierFails, RowsStep, BrowserStep
<1>4. CASE VerifierActivates(i)
  <2>1. Established(i)
    BY <1>4 DEF VerifierActivates, Inv, ProcessInv, InstallInv
  <2> QED BY <1>1, <1>4, <2>1, SetStateStep
          DEF VerifierActivates, Admits, RowsStep, BrowserStep
<1> QED BY <1>2, <1>3, <1>4

LEMMA RowsTake ==
  ASSUME Inv, Next
  PROVE  RowsStep
<1>1. rows \in Seq(Row)
  BY DEF Inv, TypeOK
<1>2. CASE RevokeNext
  <2>1. PICK j \in Revokes :
          \/ RecordRequest(j) \/ HandlerCalls(j) \/ UNCHANGED rows
    BY <1>2 DEF RevokeNext, RevokeDelegation, DiesBeforeRecord, RevokeJob,
       AdapterUnavailable, AdapterRejects, HandlerCallFails, HandlerAnswers,
       HandlerAnswerLost
  <2>2. CASE RecordRequest(j)
    BY <1>1, <2>2, RecordStep DEF RecordRequest
  <2>3. CASE HandlerCalls(j)
    <3>1. revoke[j].id \in Ids
      BY <2>3 DEF HandlerCalls, Inv, ProcessInv, RevokeInv
    <3> QED BY <1>1, <2>3, <3>1, CallbackStep DEF HandlerCalls
  <2> QED BY <2>1, <2>2, <2>3 DEF RowsStep
<1>3. CASE RunNext
  <2>1. RunReports \/ UNCHANGED rows
    BY <1>3 DEF RunNext, RunFails, RunSends, RunReceives, RunGivesUp,
       RunReportFails, RunCloses
  <2>2. CASE RunReports
    <3>1. /\ run.id \in Ids /\ run.verdict \in {"revoked", "revoke_failed"}
          /\ run.verdict = "revoked" => run.id \in chain.uninstalled
          /\ ApplyCallback(run.id, run.verdict)
      BY <2>2 DEF RunReports, Inv, ProcessInv, RunInv, TypeOK
    <3> QED BY <1>1, <3>1, CallbackStep
  <2> QED BY <2>1, <2>2 DEF RowsStep
<1>4. CASE ConnectNext
  <2>1. GrantReports \/ UNCHANGED rows
    BY <1>4 DEF ConnectNext, RequestConnect, GrantJob, GrantJobFails,
       GrantInstalls, GrantFails, GrantReportFails
  <2> QED BY <1>1, <2>1, Bounds, CallbackStep DEF GrantReports, RowsStep
<1>5. CASE InstallNext
  <2>1. PICK i \in Installs :
          \/ Submitted(i) \/ FailureReported(i) \/ PollerWrites(i)
          \/ VerifierActivates(i) \/ VerifierFails(i) \/ UNCHANGED rows
    BY <1>5 DEF InstallNext, Broadcast, InstallLands, InstallReverts,
       Confirmed, DeadlinePasses, PollerLoads, PollerWaits, PollerHandsOver,
       PollerConcludes, VerifierLoads, VerifierReads, VerifierUnreachable
  <2> QED BY <2>1, BrowserRowStep DEF RowsStep
<1>6. CASE DeliverLate
  <2>1. PICK m \in late : ApplyCallback(m.id, m.state)
    BY <1>6 DEF DeliverLate
  <2>2. /\ m.id \in Ids
        /\ m.state \in {"revoking", "revoked", "revoke_failed", "granted"}
        /\ m.state = "revoked" => m.id \in chain.uninstalled
    BY DEF Inv, TypeOK, ProcessInv, LateInv
  <2> QED BY <1>1, <2>1, <2>2, CallbackStep
<1>7. CASE OpLands \/ OpReverts \/ AdapterRestart
  BY <1>7 DEF OpLands, OpReverts, AdapterRestart, RowsStep
<1> QED BY <1>2, <1>3, <1>4, <1>5, <1>6, <1>7 DEF Next

-----------------------------------------------------------------------------
(* What a step may do to the processes. *)

(* What Oban makes of a failed attempt of a job with attempts left. *)
LEMMA AgainRevoke ==
  ASSUME NEW job \in RevokeRow, job.tries < MaxAttempts, NEW row,
         row = [Again(job) EXCEPT !.handler = "none"]
  PROVE  /\ row \in RevokeRow /\ row.handler = "none"
         /\ row.call = job.call /\ row.job \in {"available", "over"}
         /\ row.job # "over" => row.tries < MaxAttempts
<1> DEFINE next == IF job.tries + 1 < MaxAttempts THEN "available" ELSE "over"
           tries == job.tries + 1
<1>1. job.tries \in 0..MaxAttempts
  BY DEF RevokeRow
<1>2. /\ tries \in 0..MaxAttempts
      /\ next \in {"available", "over"} /\ next \in JobState
      /\ next # "over" => tries < MaxAttempts
  BY <1>1, Bounds DEF JobState
<1>3. row = [job EXCEPT !.job = next, !.tries = tries, !.handler = "none"]
  BY DEF Again, RevokeRow
<1> HIDE DEF next, tries
<1> QED BY <1>2, <1>3 DEF RevokeRow

LEMMA AgainConnect ==
  ASSUME NEW job \in ConnectRow, job.tries < MaxAttempts
  PROVE  /\ Again(job) \in ConnectRow
         /\ Again(job).job # "over" => Again(job).tries < MaxAttempts
<1> DEFINE next == IF job.tries + 1 < MaxAttempts THEN "available" ELSE "over"
           tries == job.tries + 1
<1>1. job.tries \in 0..MaxAttempts
  BY DEF ConnectRow
<1>2. /\ tries \in 0..MaxAttempts
      /\ next \in JobState
      /\ next # "over" => tries < MaxAttempts
  BY <1>1, Bounds DEF JobState
<1>3. Again(job) = [job EXCEPT !.job = next, !.tries = tries]
  BY DEF Again
<1> HIDE DEF next, tries
<1> QED BY <1>2, <1>3 DEF ConnectRow

(* What is on chain stays, but for the adapter's own permission; what a    *)
(* revoke has removed stays on record.                                     *)
ChainKeeps ==
  /\ chain' \in ChainRow
  /\ chain.uninstalled \subseteq chain'.uninstalled
  /\ chain.deployed => chain'.deployed
  /\ \A i \in Installs : i \in chain.installed => i \in chain'.installed

LEMMA ChainStep ==
  ASSUME Inv, Next
  PROVE  ChainKeeps
<1>1. chain \in ChainRow
  BY DEF Inv, TypeOK, ChainRow
<1>2. CASE OpLands
  <2>1. op.id \in Ids
    BY <1>2 DEF OpLands, Inv, ProcessInv, OpInv
  <2> QED BY <1>1, <1>2, <2>1, Bounds
          DEF OpLands, Deployed, ChainKeeps, ChainRow
<1>3. ASSUME chain' \in {Deployed, GrantedOnChain}
      PROVE  ChainKeeps
  <2>1. Deployed \in ChainRow /\ Deployed.deployed
        /\ Deployed.installed = chain.installed
        /\ Deployed.uninstalled = chain.uninstalled
    BY <1>1 DEF Deployed, ChainRow
  <2>2. CASE chain' = Deployed
    BY <2>1, <2>2 DEF ChainKeeps
  <2>3. CASE chain' = GrantedOnChain
    <3>1. /\ chain' \in ChainRow /\ chain'.deployed
          /\ chain'.uninstalled = chain.uninstalled
          /\ chain'.installed = chain.installed \cup {Permission}
      BY <2>1, <2>3, Bounds DEF GrantedOnChain, ChainRow
    <3> QED BY <3>1 DEF ChainKeeps
  <2> QED BY <1>3, <2>2, <2>3
<1>5. ASSUME NEW i \in Installs, InstallLands(i)
      PROVE  ChainKeeps
  BY <1>1, <1>5, Bounds DEF InstallLands, Deployed, ChainKeeps, ChainRow
<1>6. CASE UNCHANGED chain
  BY <1>1, <1>6 DEF ChainKeeps
<1>7. CASE RevokeNext
  BY <1>6, <1>7 DEF RevokeNext, RevokeDelegation, RecordRequest,
     DiesBeforeRecord, RevokeJob, AdapterUnavailable, AdapterRejects,
     HandlerCalls, HandlerCallFails, HandlerAnswers, HandlerAnswerLost
<1>8. CASE RunNext
  BY <1>6, <1>8 DEF RunNext, RunStep, RunFails, RunSends, RunReceives,
     RunGivesUp, RunReports, RunReportFails, RunCloses
<1>9. CASE ConnectNext
  BY <1>3, <1>6, <1>9 DEF ConnectNext, RequestConnect, GrantJob, GrantJobFails,
     GrantInstalls, GrantFails, GrantReports, GrantReportFails
<1>10. CASE InstallNext
  BY <1>3, <1>5, <1>6, <1>10
     DEF InstallNext, InstallStep, Broadcast, InstallReverts, Submitted,
         Confirmed, FailureReported, DeadlinePasses, PollerLoads, PollerWaits,
         PollerHandsOver, PollerConcludes, PollerWrites, VerifierLoads,
         VerifierReads, VerifierUnreachable, VerifierActivates, VerifierFails
<1>11. CASE OpReverts \/ AdapterRestart \/ DeliverLate
  BY <1>3, <1>6, <1>11 DEF OpReverts, AdapterRestart, DeliverLate
<1> QED BY <1>2, <1>7, <1>8, <1>9, <1>10, <1>11 DEF Next

LEMMA EstablishedStays ==
  ASSUME Inv, Next
  PROVE  \A i \in Installs : Established(i) => Established(i)'
BY ChainStep DEF ChainKeeps, Established

LEMMA ConnectStep ==
  ASSUME Inv, Next
  PROVE  connect' \in [Connects -> ConnectRow] /\ ConnectInv'
<1>1. /\ connect \in [Connects -> ConnectRow]
      /\ \A g \in Connects : connect[g].job # "over" =>
                               connect[g].tries < MaxAttempts
  BY DEF Inv, TypeOK, ConnectRow, ProcessInv, ConnectInv
<1>2. CASE UNCHANGED connect
  BY <1>1, <1>2 DEF ConnectInv
<1>3. ASSUME NEW g \in Connects, NEW row \in ConnectRow,
             connect' = [connect EXCEPT ![g] = row],
             row.job # "over" => row.tries < MaxAttempts
      PROVE  connect' \in [Connects -> ConnectRow] /\ ConnectInv'
  BY <1>1, <1>3 DEF ConnectInv
<1>4. ASSUME NEW g \in Connects, RequestConnect(g) \/ GrantJob(g)
      PROVE  connect' \in [Connects -> ConnectRow] /\ ConnectInv'
  <2>1. PICK job \in {"available", "over"} :
          /\ connect' = [connect EXCEPT ![g].job = job]
          /\ job = "available" => connect[g].tries < MaxAttempts
    BY <1>1, <1>4 DEF RequestConnect, GrantJob
  <2> DEFINE row == [connect[g] EXCEPT !.job = job]
  <2>2. row \in ConnectRow /\ row.job = job /\ row.tries = connect[g].tries
    BY <1>1 DEF ConnectRow, JobState
  <2>3. connect' = [connect EXCEPT ![g] = row]
    BY <2>1
  <2> HIDE DEF row
  <2> QED BY <1>3, <2>1, <2>2, <2>3
<1>5. ASSUME NEW g \in Connects, GrantJobFails(g)
      PROVE  connect' \in [Connects -> ConnectRow] /\ ConnectInv'
  <2>1. connect[g].tries < MaxAttempts /\ connect[g] \in ConnectRow
    BY <1>1, <1>5 DEF GrantJobFails
  <2>2. connect' = [connect EXCEPT ![g] = Again(connect[g])]
    BY <1>5 DEF GrantJobFails
  <2> QED BY <1>3, <2>1, <2>2, AgainConnect
<1>6. CASE ConnectNext
  BY <1>2, <1>4, <1>5, <1>6 DEF ConnectNext, GrantInstalls, GrantFails,
     GrantReports, GrantReportFails
<1>7. CASE RevokeNext
  BY <1>2, <1>7 DEF RevokeNext, RevokeDelegation, RecordRequest,
     DiesBeforeRecord, RevokeJob, AdapterUnavailable, AdapterRejects,
     HandlerCalls, HandlerCallFails, HandlerAnswers, HandlerAnswerLost
<1>8. CASE RunNext
  BY <1>2, <1>8 DEF RunNext, RunStep, RunFails, RunSends, RunReceives,
     RunGivesUp, RunReports, RunReportFails, RunCloses
<1>9. CASE InstallNext
  BY <1>2, <1>9
     DEF InstallNext, InstallStep, Broadcast, InstallLands, InstallReverts,
         Submitted, Confirmed, FailureReported, DeadlinePasses, PollerLoads,
         PollerWaits, PollerHandsOver, PollerConcludes, PollerWrites,
         VerifierLoads, VerifierReads, VerifierUnreachable, VerifierActivates,
         VerifierFails
<1>10. CASE OpLands \/ OpReverts \/ AdapterRestart \/ DeliverLate
  BY <1>2, <1>10 DEF OpLands, OpReverts, AdapterRestart, DeliverLate
<1> QED BY <1>6, <1>7, <1>8, <1>9, <1>10 DEF Next

(* A step changes one revoke of an operator, or the adapter restarts. *)
RevokeRowOK(row) ==
  /\ row.call = "idle" => row.job = "none"
  /\ row.job # "over" => row.tries < MaxAttempts
  /\ row.handler # "none" => row.job = "loaded" /\ row.id \in Ids

LEMMA RevokeStep ==
  ASSUME Inv, Next
  PROVE  revoke' \in [Revokes -> RevokeRow] /\ RevokeInv'
<1>1. /\ revoke \in [Revokes -> RevokeRow]
      /\ \A j \in Revokes : RevokeRowOK(revoke[j])
  BY DEF Inv, TypeOK, RevokeRow, ProcessInv, RevokeInv, RevokeRowOK
<1>2. CASE UNCHANGED revoke
  BY <1>1, <1>2 DEF RevokeInv, RevokeRowOK
<1>3. ASSUME NEW j \in Revokes, NEW row \in RevokeRow, RevokeRowOK(row),
             revoke' = [revoke EXCEPT ![j] = row]
      PROVE  revoke' \in [Revokes -> RevokeRow] /\ RevokeInv'
  BY <1>1, <1>3 DEF RevokeInv, RevokeRowOK
<1>4. ASSUME NEW j \in Revokes,
             NEW call \in {"idle", "recording", "over"}, NEW job \in JobState,
             NEW id \in Ids \cup {NoId},
             NEW handler \in {"none", "calling", "acked"},
             revoke' = [revoke EXCEPT ![j].call = call, ![j].job = job,
                                      ![j].id = id, ![j].handler = handler],
             call = "idle" => job = "none",
             job # "over" => revoke[j].tries < MaxAttempts,
             handler # "none" => job = "loaded" /\ id \in Ids
      PROVE  revoke' \in [Revokes -> RevokeRow] /\ RevokeInv'
  <2> DEFINE row == [revoke[j] EXCEPT !.call = call, !.job = job, !.id = id,
                                      !.handler = handler]
  <2>1. /\ row \in RevokeRow /\ row.call = call /\ row.job = job
        /\ row.id = id /\ row.handler = handler
        /\ row.tries = revoke[j].tries
    BY <1>1 DEF RevokeRow
  <2>2. revoke' = [revoke EXCEPT ![j] = row]
    BY <1>1, <1>4
  <2> HIDE DEF row
  <2>3. RevokeRowOK(row)
    BY <1>4, <2>1 DEF RevokeRowOK
  <2> QED BY <1>3, <2>1, <2>2, <2>3
<1>5. ASSUME NEW j \in Revokes, revoke[j].handler # "none",
             revoke' = [revoke EXCEPT
                          ![j] = [Again(revoke[j]) EXCEPT !.handler = "none"]]
      PROVE  revoke' \in [Revokes -> RevokeRow] /\ RevokeInv'
  <2> DEFINE row == [Again(revoke[j]) EXCEPT !.handler = "none"]
  <2>1. /\ revoke[j] \in RevokeRow /\ revoke[j].tries < MaxAttempts
        /\ revoke[j].call # "idle"
    BY <1>1, <1>5 DEF RevokeRowOK
  <2>2. row \in RevokeRow /\ RevokeRowOK(row)
    BY <2>1, AgainRevoke DEF RevokeRowOK
  <2> HIDE DEF row
  <2> QED BY <1>3, <1>5, <2>2 DEF row
<1>6. ASSUME NEW j \in Revokes, RevokeDelegation(j)
      PROVE  revoke' \in [Revokes -> RevokeRow] /\ RevokeInv'
  <2>1. /\ revoke[j].tries < MaxAttempts
        /\ revoke[j].handler = "none" /\ revoke[j].id \in Ids \cup {NoId}
    BY <1>1, <1>6 DEF RevokeDelegation, RevokeRowOK, RevokeRow
  <2>2. revoke' = [revoke EXCEPT ![j].call = "recording", ![j].job = "available",
                                 ![j].id = revoke[j].id, ![j].handler = "none"]
    BY <1>1, <1>6, <2>1 DEF RevokeDelegation, RevokeRow
  <2> QED BY <1>4, <2>1, <2>2 DEF JobState
<1>7. ASSUME NEW j \in Revokes, RecordRequest(j) \/ DiesBeforeRecord(j)
      PROVE  revoke' \in [Revokes -> RevokeRow] /\ RevokeInv'
  <2>1. /\ revoke[j].job \in JobState /\ revoke[j].id \in Ids \cup {NoId}
        /\ revoke[j].handler \in {"none", "calling", "acked"}
    BY <1>1 DEF RevokeRow
  <2>2. revoke' = [revoke EXCEPT ![j].call = "over", ![j].job = revoke[j].job,
                                 ![j].id = revoke[j].id,
                                 ![j].handler = revoke[j].handler]
    BY <1>1, <1>7 DEF RecordRequest, DiesBeforeRecord, RevokeRow
  <2> QED BY <1>1, <1>4, <2>1, <2>2 DEF RevokeRowOK
<1>8. ASSUME NEW j \in Revokes, RevokeJob(j)
      PROVE  revoke' \in [Revokes -> RevokeRow] /\ RevokeInv'
  <2>1. /\ revoke[j].call \in {"idle", "recording", "over"}
        /\ revoke[j].call # "idle" /\ revoke[j].tries < MaxAttempts
        /\ revoke[j].handler = "none" /\ revoke[j].id \in Ids \cup {NoId}
    BY <1>1, <1>8 DEF RevokeJob, RevokeRowOK, RevokeRow
  <2>2. CASE revoke' = [revoke EXCEPT ![j].job = "over"]
    <3>1. revoke' = [revoke EXCEPT ![j].call = revoke[j].call,
                       ![j].job = "over", ![j].id = revoke[j].id,
                       ![j].handler = "none"]
      BY <1>1, <2>1, <2>2 DEF RevokeRow
    <3> QED BY <1>4, <2>1, <3>1 DEF JobState
  <2>3. ASSUME NEW r \in LiveRows,
               revoke' = [revoke EXCEPT ![j].job = "loaded",
                            ![j].id = rows[r].id, ![j].handler = "calling"]
        PROVE  revoke' \in [Revokes -> RevokeRow] /\ RevokeInv'
    <3>1. rows[r].id \in Ids
      BY RowIds DEF Inv, TypeOK
    <3>2. revoke' = [revoke EXCEPT ![j].call = revoke[j].call,
                       ![j].job = "loaded", ![j].id = rows[r].id,
                       ![j].handler = "calling"]
      BY <1>1, <2>3 DEF RevokeRow
    <3> QED BY <1>4, <2>1, <3>1, <3>2 DEF JobState
  <2> QED BY <1>8, <2>2, <2>3 DEF RevokeJob
<1>9. ASSUME NEW j \in Revokes,
             AdapterUnavailable(j) \/ HandlerCallFails(j) \/ HandlerAnswerLost(j)
      PROVE  revoke' \in [Revokes -> RevokeRow] /\ RevokeInv'
  BY <1>5, <1>9 DEF AdapterUnavailable, HandlerCallFails, HandlerAnswerLost
<1>10. ASSUME NEW j \in Revokes, AdapterRejects(j) \/ HandlerAnswers(j)
       PROVE  revoke' \in [Revokes -> RevokeRow] /\ RevokeInv'
  <2>1. /\ revoke[j].call \in {"idle", "recording", "over"}
        /\ revoke[j].call # "idle" /\ revoke[j].id \in Ids \cup {NoId}
    BY <1>1, <1>10 DEF AdapterRejects, HandlerAnswers, RevokeRowOK, RevokeRow
  <2>2. revoke' = [revoke EXCEPT ![j].call = revoke[j].call, ![j].job = "over",
                     ![j].id = revoke[j].id, ![j].handler = "none"]
    BY <1>1, <1>10 DEF AdapterRejects, HandlerAnswers, RevokeRow
  <2> QED BY <1>4, <2>1, <2>2 DEF JobState
<1>11. ASSUME NEW j \in Revokes, HandlerCalls(j)
       PROVE  revoke' \in [Revokes -> RevokeRow] /\ RevokeInv'
  <2>1. /\ revoke[j].call \in {"idle", "recording", "over"}
        /\ revoke[j].call # "idle" /\ revoke[j].id \in Ids
        /\ revoke[j].job = "loaded" /\ revoke[j].tries < MaxAttempts
    BY <1>1, <1>11 DEF HandlerCalls, RevokeRowOK, RevokeRow
  <2>2. revoke' = [revoke EXCEPT ![j].call = revoke[j].call, ![j].job = "loaded",
                     ![j].id = revoke[j].id, ![j].handler = "acked"]
    BY <1>1, <1>11, <2>1 DEF HandlerCalls, RevokeRow
  <2> QED BY <1>4, <2>1, <2>2 DEF JobState
<1>12. CASE RevokeNext
  BY <1>6, <1>7, <1>8, <1>9, <1>10, <1>11, <1>12 DEF RevokeNext
<1>13. CASE AdapterRestart
  <2> DEFINE again(j) == [Again(revoke[j]) EXCEPT !.handler = "none"]
             row(j) == IF revoke[j].handler = "none" THEN revoke[j] ELSE again(j)
  <2>1. \A j \in Revokes : row(j) \in RevokeRow /\ RevokeRowOK(row(j))
    <3> TAKE j \in Revokes
    <3>1. CASE revoke[j].handler = "none"
      BY <1>1, <3>1
    <3>2. CASE revoke[j].handler # "none"
      <4>1. /\ revoke[j] \in RevokeRow /\ revoke[j].tries < MaxAttempts
            /\ revoke[j].call # "idle" /\ row(j) = again(j)
        BY <1>1, <3>2 DEF RevokeRowOK
      <4> HIDE DEF row
      <4>2. again(j) \in RevokeRow /\ RevokeRowOK(again(j))
        BY <4>1, AgainRevoke DEF RevokeRowOK
      <4> QED BY <4>1, <4>2
    <3> QED BY <3>1, <3>2
  <2>2. revoke' = [j \in Revokes |-> row(j)]
    BY <1>13 DEF AdapterRestart
  <2> HIDE DEF row
  <2> QED BY <2>1, <2>2 DEF RevokeInv, RevokeRowOK
<1>14. CASE RunNext
  BY <1>2, <1>14 DEF RunNext, RunStep, RunFails, RunSends, RunReceives,
     RunGivesUp, RunReports, RunReportFails, RunCloses
<1>15. CASE ConnectNext
  BY <1>2, <1>15 DEF ConnectNext, RequestConnect, GrantJob, GrantJobFails,
     GrantInstalls, GrantFails, GrantReports, GrantReportFails
<1>16. CASE InstallNext
  BY <1>2, <1>16
     DEF InstallNext, InstallStep, Broadcast, InstallLands, InstallReverts,
         Submitted, Confirmed, FailureReported, DeadlinePasses, PollerLoads,
         PollerWaits, PollerHandsOver, PollerConcludes, PollerWrites,
         VerifierLoads, VerifierReads, VerifierUnreachable, VerifierActivates,
         VerifierFails
<1>17. CASE OpLands \/ OpReverts \/ DeliverLate
  BY <1>2, <1>17 DEF OpLands, OpReverts, DeliverLate
<1> QED BY <1>12, <1>13, <1>14, <1>15, <1>16, <1>17 DEF Next

(* One browser install changes, and its operation and its verifier only to *)
(* what they may.                                                          *)
InstallChange(i) ==
  /\ install' \in [Installs -> InstallRow]
  /\ \A k \in Installs : k # i => install'[k] = install[k]
  /\ \/ /\ install'[i].verifier = install[i].verifier
        /\ install'[i].tries = install[i].tries
     \/ /\ install'[i].verifier \in {"available", "loaded"}
        /\ install'[i].tries < MaxAttempts
     \/ install'[i].verifier = "verified" /\ Established(i)
     \/ install'[i].verifier \in {"missing", "over"}
  /\ install'[i].browser = "idle" => install'[i].userop = "unsent"
  /\ install[i].userop = "success" => install'[i].userop = "success"
  /\ install'[i].userop = "success" =>
       install[i].userop = "success" \/ i \in chain'.installed
  /\ HonestBrowser /\ install'[i].verifier # "none" =>
       install[i].verifier # "none" \/ install[i].userop = "success"

LEMMA InstallOnly ==
  ASSUME Inv, NEW i \in Installs,
         \/ Broadcast(i) \/ InstallLands(i) \/ InstallReverts(i) \/ Submitted(i)
         \/ FailureReported(i) \/ DeadlinePasses(i) \/ PollerLoads(i)
         \/ PollerWaits(i) \/ PollerConcludes(i) \/ PollerWrites(i)
  PROVE  InstallChange(i)
<1>1. /\ install \in [Installs -> InstallRow]
      /\ install[i].browser = "idle" => install[i].userop = "unsent"
  BY DEF Inv, TypeOK, InstallRow, ProcessInv, InstallInv
<1>2. CASE Broadcast(i)
  BY <1>1, <1>2 DEF Broadcast, InstallChange, InstallRow
<1>3. CASE InstallLands(i)
  <2>1. chain' = [Deployed EXCEPT !.installed = @ \cup {i}]
    BY <1>3 DEF InstallLands
  <2>2. i \in chain'.installed
    BY <2>1 DEF Deployed, Inv, TypeOK
  <2> QED BY <1>1, <1>3, <2>2 DEF InstallLands, InstallChange, InstallRow
<1>4. CASE InstallReverts(i)
  BY <1>1, <1>4 DEF InstallReverts, InstallChange, InstallRow
<1>5. CASE Submitted(i)
  BY <1>1, <1>5 DEF Submitted, InstallChange, InstallRow, JobState
<1>6. CASE FailureReported(i)
  BY <1>1, <1>6 DEF FailureReported, InstallChange, InstallRow
<1>7. CASE DeadlinePasses(i)
  BY <1>1, <1>7 DEF DeadlinePasses, InstallChange, InstallRow
<1>8. CASE PollerLoads(i)
  BY <1>1, <1>8 DEF PollerLoads, InstallChange, InstallRow, JobState
<1>9. CASE PollerWaits(i)
  BY <1>1, <1>9 DEF PollerWaits, InstallChange, InstallRow, JobState
<1>10. CASE PollerConcludes(i)
  BY <1>1, <1>10 DEF PollerConcludes, InstallChange, InstallRow, JobState
<1>11. CASE PollerWrites(i)
  BY <1>1, <1>11 DEF PollerWrites, InstallChange, InstallRow, JobState
<1> QED BY <1>2, <1>3, <1>4, <1>5, <1>6, <1>7, <1>8, <1>9, <1>10, <1>11

LEMMA VerifierOnly ==
  ASSUME Inv, NEW i \in Installs,
         \/ Confirmed(i) \/ PollerHandsOver(i) \/ VerifierLoads(i)
         \/ VerifierReads(i) \/ VerifierUnreachable(i) \/ VerifierActivates(i)
         \/ VerifierFails(i)
  PROVE  InstallChange(i)
<1>1. /\ install \in [Installs -> InstallRow]
      /\ install[i].verifier \in {"none", "available", "loaded"} =>
           install[i].tries < MaxAttempts
      /\ install[i].browser = "idle" => install[i].userop = "unsent"
      /\ Enqueued(i) \in JobState
      /\ install[i].verifier \in JobState /\ install[i].tries \in 0..MaxAttempts
  BY DEF Inv, TypeOK, InstallRow, ProcessInv, InstallInv, Enqueued, JobState
<1>2. CASE Confirmed(i)
  <2> DEFINE next == IF RowPending(i) THEN Enqueued(i) ELSE install[i].verifier
  <2>1. /\ next \in JobState
        /\ next = install[i].verifier \/
             (next = "available" /\ install[i].tries < MaxAttempts)
    BY <1>1 DEF Enqueued
  <2>2. /\ install' = [install EXCEPT ![i].browser = "over",
                                       ![i].verifier = next]
        /\ HonestBrowser => install[i].userop = "success"
    BY <1>2 DEF Confirmed
  <2> HIDE DEF next
  <2> QED BY <1>1, <2>1, <2>2 DEF InstallChange, InstallRow
<1>3. CASE PollerHandsOver(i)
  <2> DEFINE next == Enqueued(i)
  <2>1. /\ next \in JobState /\ "over" \in JobState
        /\ next = install[i].verifier \/
             (next = "available" /\ install[i].tries < MaxAttempts)
    BY <1>1 DEF Enqueued, JobState
  <2>2. /\ install' = [install EXCEPT ![i].poller = "over",
                                       ![i].verifier = next]
        /\ install[i].userop = "success"
    BY <1>3 DEF PollerHandsOver
  <2> HIDE DEF next
  <2> QED BY <1>1, <2>1, <2>2 DEF InstallChange, InstallRow
<1>4. CASE VerifierLoads(i)
  BY <1>1, <1>4 DEF VerifierLoads, InstallChange, InstallRow, JobState
<1>5. CASE VerifierReads(i)
  <2>1. OnChain(i) /\ install[i].verifier = "loaded" => Established(i)
    BY DEF OnChain, Established, Inv, ProcessInv, InstallInv
  <2> QED BY <1>1, <1>5, <2>1
          DEF VerifierReads, InstallChange, InstallRow, JobState
<1>6. CASE VerifierUnreachable(i)
  <2> DEFINE next == Unreachable(install[i].tries)
             tries == install[i].tries + 1
  <2>1. /\ tries \in 0..MaxAttempts /\ next \in JobState
        /\ next \in {"available", "missing"}
        /\ next = "available" => tries < MaxAttempts
    BY <1>1, <1>6, Bounds DEF VerifierUnreachable, Unreachable, JobState
  <2>2. /\ install' = [install EXCEPT ![i].verifier = next, ![i].tries = tries]
        /\ install[i].verifier = "loaded"
    BY <1>6 DEF VerifierUnreachable
  <2> HIDE DEF next, tries
  <2> QED BY <1>1, <2>1, <2>2 DEF InstallChange, InstallRow
<1>7. CASE VerifierActivates(i)
  BY <1>1, <1>7 DEF VerifierActivates, InstallChange, InstallRow, JobState
<1>8. CASE VerifierFails(i)
  BY <1>1, <1>8 DEF VerifierFails, InstallChange, InstallRow, JobState
<1> QED BY <1>2, <1>3, <1>4, <1>5, <1>6, <1>7, <1>8

LEMMA InstallsStep ==
  ASSUME Inv, Next
  PROVE  install' \in [Installs -> InstallRow] /\ InstallInv'
<1>1. /\ install \in [Installs -> InstallRow] /\ InstallInv
      /\ \A i \in Installs : /\ i \in chain.installed => i \in chain'.installed
                             /\ Established(i) => Established(i)'
  BY ChainStep, EstablishedStays
     DEF Inv, TypeOK, InstallRow, ProcessInv, ChainKeeps
<1>2. CASE UNCHANGED install
  BY <1>1, <1>2 DEF InstallInv
<1>3. ASSUME NEW i \in Installs, InstallChange(i)
      PROVE  install' \in [Installs -> InstallRow] /\ InstallInv'
  BY <1>1, <1>3 DEF InstallInv, InstallChange
<1>4. CASE InstallNext
  BY <1>3, <1>4, InstallOnly, VerifierOnly DEF InstallNext
<1>5. CASE RevokeNext
  BY <1>2, <1>5 DEF RevokeNext, RevokeDelegation, RecordRequest,
     DiesBeforeRecord, RevokeJob, AdapterUnavailable, AdapterRejects,
     HandlerCalls, HandlerCallFails, HandlerAnswers, HandlerAnswerLost
<1>6. CASE RunNext
  BY <1>2, <1>6 DEF RunNext, RunStep, RunFails, RunSends, RunReceives,
     RunGivesUp, RunReports, RunReportFails, RunCloses
<1>7. CASE ConnectNext
  BY <1>2, <1>7 DEF ConnectNext, RequestConnect, GrantJob, GrantJobFails,
     GrantInstalls, GrantFails, GrantReports, GrantReportFails
<1>8. CASE OpLands \/ OpReverts \/ AdapterRestart \/ DeliverLate
  BY <1>2, <1>8 DEF OpLands, OpReverts, AdapterRestart, DeliverLate
<1> QED BY <1>4, <1>5, <1>6, <1>7, <1>8 DEF Next

(* The adapter's run, its user operation and its late callbacks.           *)
RunRow == [pc : {"none", "building", "sent", "reporting", "closing"},
           id : Ids \cup {NoId}, verdict : {"none", "revoked", "revoke_failed"}]

OpRow == [st : {"none", "pending", "success", "reverted"}, id : Ids \cup {NoId}]

LEMMA OpStep ==
  ASSUME Inv, Next
  PROVE  op' \in OpRow /\ OpInv' /\ (run'.pc = "sent" => op'.id = run'.id)
<1>1. /\ op \in OpRow /\ run \in RunRow /\ OpInv /\ RunInv
      /\ chain.uninstalled \subseteq chain'.uninstalled
      /\ chain \in ChainRow
  BY ChainStep DEF Inv, TypeOK, ProcessInv, OpRow, RunRow, ChainRow, ChainKeeps
<1>2. CASE RunSends
  BY <1>1, <1>2 DEF RunSends, OpInv, RunInv, OpRow, RunRow
<1>3. CASE OpLands
  BY <1>1, <1>3 DEF OpLands, Deployed, OpInv, RunInv, OpRow, ChainRow
<1>4. CASE OpReverts
  BY <1>1, <1>4 DEF OpReverts, OpInv, RunInv, OpRow
<1>5. CASE UNCHANGED op /\ (UNCHANGED run \/ run'.pc # "sent")
  BY <1>1, <1>5 DEF OpInv, RunInv
<1>6. CASE RunNext
  <2>1. CASE RunFails \/ RunReceives \/ RunGivesUp
    BY <1>1, <1>5, <2>1
       DEF RunFails, RunReceives, RunGivesUp, Reporting, RunRow
  <2>2. CASE RunReports \/ RunReportFails
    BY <1>1, <1>5, <2>2 DEF RunReports, RunReportFails, RunRow
  <2>3. CASE RunCloses
    BY <1>5, <2>3 DEF RunCloses, NoRun
  <2> QED BY <1>2, <1>6, <2>1, <2>2, <2>3 DEF RunNext
<1>7. CASE RevokeNext
  <2>1. UNCHANGED op
    BY <1>7 DEF RevokeNext, RevokeDelegation, RecordRequest,
       DiesBeforeRecord, RevokeJob, AdapterUnavailable, AdapterRejects,
       HandlerCalls, HandlerCallFails, HandlerAnswers, HandlerAnswerLost
  <2>2. UNCHANGED run \/ \E j \in Revokes : StartRun(revoke[j].id)
    BY <1>7 DEF RevokeNext, RevokeDelegation, RecordRequest,
       DiesBeforeRecord, RevokeJob, AdapterUnavailable, AdapterRejects,
       HandlerCalls, HandlerCallFails, HandlerAnswers, HandlerAnswerLost
  <2>3. UNCHANGED run \/ run'.pc # "sent"
    BY <2>2 DEF StartRun
  <2> QED BY <1>5, <2>1, <2>3
<1>8. CASE ConnectNext
  BY <1>5, <1>8 DEF ConnectNext, RequestConnect, GrantJob, GrantJobFails,
     GrantInstalls, GrantFails, GrantReports, GrantReportFails
<1>9. CASE InstallNext
  BY <1>5, <1>9
     DEF InstallNext, InstallStep, Broadcast, InstallLands, InstallReverts,
         Submitted, Confirmed, FailureReported, DeadlinePasses, PollerLoads,
         PollerWaits, PollerHandsOver, PollerConcludes, PollerWrites,
         VerifierLoads, VerifierReads, VerifierUnreachable, VerifierActivates,
         VerifierFails
<1>10. CASE AdapterRestart \/ DeliverLate
  BY <1>5, <1>10 DEF AdapterRestart, DeliverLate, NoRun
<1> QED BY <1>3, <1>4, <1>6, <1>7, <1>8, <1>9, <1>10 DEF Next

LEMMA RunTakes ==
  ASSUME Inv, Next
  PROVE  run' \in RunRow /\ RunInv'
<1>1. /\ op \in OpRow /\ run \in RunRow /\ OpInv /\ RunInv
      /\ chain.uninstalled \subseteq chain'.uninstalled
      /\ run'.pc = "sent" => op'.id = run'.id
  BY ChainStep, OpStep DEF Inv, TypeOK, ProcessInv, OpRow, RunRow, ChainKeeps
<1>2. CASE UNCHANGED run
  BY <1>1, <1>2 DEF RunInv
<1>3. CASE run' = NoRun
  BY <1>1, <1>3 DEF RunInv, NoRun, RunRow
<1>4. ASSUME NEW id \in Ids, StartRun(id)
      PROVE  run' \in RunRow /\ RunInv'
  BY <1>1, <1>2, <1>4 DEF StartRun, RunInv, RunRow
<1>5. ASSUME run.pc # "none", NEW verdict \in {"revoked", "revoke_failed"},
             run' = Reporting(verdict),
             verdict = "revoked" => run.id \in chain.uninstalled
      PROVE  run' \in RunRow /\ RunInv'
  <2>1. /\ run' \in RunRow /\ run'.id = run.id
        /\ run'.pc = "reporting" /\ run'.verdict = verdict
    BY <1>1, <1>5 DEF Reporting, RunRow
  <2> QED BY <1>1, <1>5, <2>1 DEF RunInv
<1>6. CASE RunNext
  <2>1. CASE RunFails \/ RunReceives \/ RunGivesUp
    BY <1>1, <1>5, <2>1 DEF RunFails, RunReceives, RunGivesUp, OpInv, RunInv
  <2>2. ASSUME NEW pc \in {"sent", "closing"}, run.pc # "none",
               run' = [run EXCEPT !.pc = pc]
        PROVE  run' \in RunRow /\ RunInv'
    BY <1>1, <2>2 DEF RunInv, RunRow
  <2>3. CASE RunSends \/ RunReports \/ RunReportFails
    BY <2>2, <2>3 DEF RunSends, RunReports, RunReportFails
  <2> QED BY <1>3, <1>6, <2>1, <2>3 DEF RunNext, RunCloses
<1>7. CASE RevokeNext
  <2>1. UNCHANGED run \/ \E j \in Revokes : /\ revoke[j].handler # "none"
                                            /\ StartRun(revoke[j].id)
    BY <1>7 DEF RevokeNext, RevokeDelegation, RecordRequest,
       DiesBeforeRecord, RevokeJob, AdapterUnavailable, AdapterRejects,
       HandlerCalls, HandlerCallFails, HandlerAnswers, HandlerAnswerLost
  <2> QED BY <1>2, <1>4, <2>1 DEF Inv, ProcessInv, RevokeInv
<1>8. CASE ConnectNext
  BY <1>2, <1>8 DEF ConnectNext, RequestConnect, GrantJob, GrantJobFails,
     GrantInstalls, GrantFails, GrantReports, GrantReportFails
<1>9. CASE InstallNext
  BY <1>2, <1>9
     DEF InstallNext, InstallStep, Broadcast, InstallLands, InstallReverts,
         Submitted, Confirmed, FailureReported, DeadlinePasses, PollerLoads,
         PollerWaits, PollerHandsOver, PollerConcludes, PollerWrites,
         VerifierLoads, VerifierReads, VerifierUnreachable, VerifierActivates,
         VerifierFails
<1>10. CASE OpLands \/ OpReverts \/ AdapterRestart \/ DeliverLate
  BY <1>2, <1>3, <1>10 DEF OpLands, OpReverts, AdapterRestart, DeliverLate
<1> QED BY <1>6, <1>7, <1>8, <1>9, <1>10 DEF Next

LEMMA LateStep ==
  ASSUME Inv, Next
  PROVE  late' \subseteq Message /\ LateInv'
<1>1. /\ late \subseteq Message /\ LateInv /\ RunInv /\ RevokeInv
      /\ chain.uninstalled \subseteq chain'.uninstalled
      /\ run \in RunRow
  BY ChainStep DEF Inv, TypeOK, ProcessInv, Message, RunRow, ChainKeeps
<1>2. CASE UNCHANGED late
  BY <1>1, <1>2 DEF LateInv
<1>3. ASSUME NEW id \in Ids,
             NEW state \in {"revoking", "revoked", "revoke_failed", "granted"},
             state = "revoked" => id \in chain.uninstalled,
             GivesUpOn(Callback(id, state))
      PROVE  late' \subseteq Message /\ LateInv'
  <2> DEFINE m == Callback(id, state)
  <2>1. m \in Message /\ m.id = id /\ m.state = state
    BY DEF Callback, Message
  <2>2. late' \subseteq late \cup {m}
    BY <1>3 DEF GivesUpOn
  <2> HIDE DEF m
  <2> QED BY <1>1, <1>3, <2>1, <2>2 DEF LateInv
<1>4. CASE RevokeNext
  <2>1. UNCHANGED late \/ \E j \in Revokes : HandlerCallFails(j)
    BY <1>4 DEF RevokeNext, RevokeDelegation, RecordRequest,
       DiesBeforeRecord, RevokeJob, AdapterUnavailable, AdapterRejects,
       HandlerCalls, HandlerAnswers, HandlerAnswerLost
  <2>2. ASSUME NEW j \in Revokes, HandlerCallFails(j)
        PROVE  late' \subseteq Message /\ LateInv'
    <3>1. revoke[j].id \in Ids
      BY <1>1, <2>2 DEF HandlerCallFails, RevokeInv
    <3> QED BY <1>3, <2>2, <3>1 DEF HandlerCallFails
  <2> QED BY <1>2, <2>1, <2>2
<1>5. CASE RunNext
  <2>1. UNCHANGED late \/ RunReportFails
    BY <1>5 DEF RunNext, RunFails, RunSends, RunReceives, RunGivesUp,
       RunReports, RunCloses
  <2>2. CASE RunReportFails
    <3>1. /\ run.id \in Ids /\ run.verdict \in {"revoked", "revoke_failed"}
          /\ run.verdict = "revoked" => run.id \in chain.uninstalled
      BY <1>1, <2>2 DEF RunReportFails, RunInv, RunRow
    <3> QED BY <1>3, <2>2, <3>1 DEF RunReportFails
  <2> QED BY <1>2, <2>1, <2>2
<1>6. CASE ConnectNext
  BY <1>2, <1>3, <1>6, Bounds
     DEF ConnectNext, RequestConnect, GrantJob, GrantJobFails, GrantInstalls,
         GrantFails, GrantReports, GrantReportFails
<1>7. CASE InstallNext
  BY <1>2, <1>7
     DEF InstallNext, InstallStep, Broadcast, InstallLands, InstallReverts,
         Submitted, Confirmed, FailureReported, DeadlinePasses, PollerLoads,
         PollerWaits, PollerHandsOver, PollerConcludes, PollerWrites,
         VerifierLoads, VerifierReads, VerifierUnreachable, VerifierActivates,
         VerifierFails
<1>8. CASE DeliverLate
  BY <1>1, <1>8 DEF DeliverLate, LateInv
<1>9. CASE OpLands \/ OpReverts \/ AdapterRestart
  BY <1>2, <1>9 DEF OpLands, OpReverts, AdapterRestart
<1> QED BY <1>4, <1>5, <1>6, <1>7, <1>8, <1>9 DEF Next

LEMMA FaultStep ==
  ASSUME Inv, Next
  PROVE  /\ grantRun' \in {"none", "installing", "reporting"}
         /\ faults' \in 0..MaxFaults
<1>1. /\ grantRun \in {"none", "installing", "reporting"}
      /\ faults \in 0..MaxFaults
      /\ Fault => faults' \in 0..MaxFaults
  BY Bounds DEF Inv, TypeOK, Fault
<1>2. CASE UNCHANGED grantRun /\ (UNCHANGED faults \/ Fault)
  BY <1>1, <1>2
<1>3. CASE RevokeNext
  BY <1>2, <1>3 DEF RevokeNext, RevokeDelegation, RecordRequest,
     DiesBeforeRecord, RevokeJob, AdapterUnavailable, AdapterRejects,
     HandlerCalls, HandlerCallFails, HandlerAnswers, HandlerAnswerLost, GivesUpOn
<1>4. CASE RunNext
  BY <1>2, <1>4 DEF RunNext, RunStep, RunFails, RunSends, RunReceives,
     RunGivesUp, RunReports, RunReportFails, RunCloses, GivesUpOn
<1>5. CASE ConnectNext
  BY <1>1, <1>2, <1>5 DEF ConnectNext, RequestConnect, GrantJob, GrantJobFails,
     GrantInstalls, GrantFails, GrantReports, GrantReportFails, GivesUpOn,
     StartGrant
<1>6. CASE InstallNext
  BY <1>2, <1>6
     DEF InstallNext, InstallStep, Broadcast, InstallLands, InstallReverts,
         Submitted, Confirmed, FailureReported, DeadlinePasses, PollerLoads,
         PollerWaits, PollerHandsOver, PollerConcludes, PollerWrites,
         VerifierLoads, VerifierReads, VerifierUnreachable, VerifierActivates,
         VerifierFails
<1>7. CASE OpLands \/ OpReverts \/ AdapterRestart \/ DeliverLate
  BY <1>1, <1>7 DEF OpLands, OpReverts, AdapterRestart, DeliverLate
<1> QED BY <1>3, <1>4, <1>5, <1>6, <1>7 DEF Next

-----------------------------------------------------------------------------
(* What the rows keep. *)

LEMMA RowsTyped ==
  ASSUME rows \in Seq(Row), RowsStep
  PROVE  rows' \in Seq(Row)
BY DEF RowsStep, Requested, Refused, Revoked, AdapterGranted, BrowserStep,
       Moved, Added

LEMMA RowsKeep ==
  ASSUME Inv, Next
  PROVE  RowsInv'
<1>1. /\ RowsStep
      /\ \A i \in Installs : Established(i) => Established(i)'
      /\ chain.uninstalled \subseteq chain'.uninstalled
      /\ OneLiveRow /\ RevokedOnProof /\ ActiveWasVerified
  BY RowsTake, ChainStep, EstablishedStays DEF Inv, RowsInv, ChainKeeps
<1>2. Live = {"pending", "active", "revoking", "revoke_failed"}
  BY DEF Live
<1>3. CASE UNCHANGED rows
  BY <1>1, <1>3
     DEF RowsInv, OneLiveRow, LiveRows, RevokedOnProof, ActiveWasVerified
<1>4. ASSUME NEW r \in LiveRows,
             NEW state \in {"revoking", "revoke_failed", "revoked"},
             state = "revoked" => rows[r].id \in chain.uninstalled,
             Moved(r, state)
      PROVE  RowsInv'
  <2>1. LiveRows' \subseteq LiveRows
    BY <1>4 DEF Moved, LiveRows
  <2> QED BY <1>1, <1>4, <2>1
          DEF Moved, RowsInv, OneLiveRow, RevokedOnProof, ActiveWasVerified,
              LiveRows
<1>5. ASSUME LiveRows = {}, NEW id, NEW state \in {"active", "pending"},
             state = "active" => id \notin Installs,
             Added(id, state)
      PROVE  RowsInv'
  <2>1. LiveRows' \subseteq {Len(rows) + 1}
    BY <1>5 DEF Added, LiveRows
  <2> QED BY <1>1, <1>5, <2>1
          DEF Added, RowsInv, OneLiveRow, RevokedOnProof, ActiveWasVerified
<1>6. ASSUME NEW i \in Installs, NEW r \in RowsOf(i), Moved(r, "install_failed")
      PROVE  RowsInv'
  <2>1. LiveRows' \subseteq LiveRows
    BY <1>2, <1>6 DEF Moved, LiveRows
  <2> QED BY <1>1, <1>6, <2>1
          DEF Moved, RowsInv, OneLiveRow, RevokedOnProof, ActiveWasVerified
<1>7. ASSUME NEW i \in Installs, NEW r \in RowsOf(i), LiveRows \subseteq {r},
             Established(i), Moved(r, "active")
      PROVE  RowsInv'
  <2>1. LiveRows' \subseteq {r} /\ rows[r].id = i
    BY <1>7 DEF Moved, LiveRows, RowsOf
  <2> QED BY <1>1, <1>7, <2>1
          DEF Moved, RowsInv, OneLiveRow, RevokedOnProof, ActiveWasVerified
<1> QED BY <1>1, <1>3, <1>4, <1>5, <1>6, <1>7, Bounds
        DEF RowsStep, Requested, Refused, Revoked, AdapterGranted, BrowserStep

LEMMA InitInv == Init => Inv
<1> SUFFICES ASSUME Init PROVE Inv
  OBVIOUS
<1>1. DOMAIN rows = {} /\ rows \in Seq(Row)
  BY DEF Init
<1>2. TypeOK
  BY <1>1, Bounds DEF Init, TypeOK, JobState
<1>3. ProcessInv
  BY Bounds DEF Init, ProcessInv, InstallInv, ConnectInv, RevokeInv, RunInv,
     OpInv, LateInv
<1>4. RowsInv
  BY <1>1 DEF RowsInv, OneLiveRow, LiveRows, RevokedOnProof, ActiveWasVerified
<1> QED BY <1>2, <1>3, <1>4 DEF Inv

(* The inductive invariant. *)
THEOREM Invariance == Spec => []Inv
<1>1. Inv /\ [Next]_vars => Inv'
  <2> SUFFICES ASSUME Inv, [Next]_vars PROVE Inv'
    OBVIOUS
  <2>1. CASE Next
    <3>1. TypeOK'
      <4>1. rows \in Seq(Row)
        BY DEF Inv, TypeOK
      <4> QED BY <2>1, <4>1, RowsTake, RowsTyped, InstallsStep, ConnectStep,
                 RevokeStep, RunTakes, LateStep, OpStep, ChainStep, FaultStep
              DEF TypeOK, InstallRow, ConnectRow, RevokeRow, RunRow, Message,
                  OpRow, ChainRow, ChainKeeps
    <3>2. ProcessInv'
      BY <2>1, InstallsStep, ConnectStep, RevokeStep, RunTakes, LateStep, OpStep
         DEF ProcessInv
    <3> QED BY <2>1, <3>1, <3>2, RowsKeep DEF Inv
  <2>2. CASE UNCHANGED vars
    BY <2>2 DEF vars, Inv, TypeOK, ProcessInv, InstallInv, ConnectInv,
       RevokeInv, RunInv, OpInv, LateInv, RowsInv, OneLiveRow, LiveRows,
       RevokedOnProof, ActiveWasVerified, Established
  <2> QED BY <2>1, <2>2
<1> QED BY <1>1, InitInv, PTL DEF Spec

(* Every variable of Delegations keeps its type. *)
THEOREM TypeCorrect == Spec => []TypeOK
BY Invariance, PTL DEF Inv

(* At most one delegation of the account is not over, whichever stale      *)
(* write of an install worker comes back to a row.                         *)
THEOREM SoleDelegation == Spec => []OneLiveRow
BY Invariance, PTL DEF Inv, RowsInv

(* A delegation recorded revoked had its revoke operation succeed, however *)
(* the callbacks, restarts and retries interleaved.                        *)
THEOREM RevokedForReal == Spec => []RevokedOnProof
BY Invariance, PTL DEF Inv, RowsInv

(* A browser-installed delegation is active only on a deployed account,    *)
(* and only with its permission on chain when the verifier enforces that   *)
(* check or no browser confirms what it has not seen.                      *)
THEOREM ActiveForReal == Spec => []ActiveWasVerified
BY Invariance, PTL DEF Inv, RowsInv

-----------------------------------------------------------------------------
(* The refinement. *)

HistoryOf(s) == [r \in DOMAIN s |-> s[r].state]

LEMMA HistoryLength ==
  ASSUME NEW s \in Seq(Row)
  PROVE  /\ HistoryOf(s) \in Seq(RowState) /\ Len(HistoryOf(s)) = Len(s)
         /\ DOMAIN HistoryOf(s) = DOMAIN s
<1>1. Len(s) \in Nat /\ DOMAIN s = 1..Len(s)
  BY LenProperties
<1>2. \A r \in DOMAIN s : s[r].state \in RowState
  <2>1. \A r \in DOMAIN s : s[r] \in Row
    BY <1>1, ElementOfSeq
  <2> QED BY <2>1 DEF Row
<1>3. HistoryOf(s) \in [1..Len(s) -> RowState]
  BY <1>1, <1>2 DEF HistoryOf
<1>4. DOMAIN HistoryOf(s) = DOMAIN s
  BY DEF HistoryOf
<1> HIDE DEF HistoryOf
<1> QED BY <1>1, <1>3, <1>4, SeqDef, LenProperties

LEMMA LifecycleMoves ==
  ASSUME rows \in Seq(Row), NEW r \in DOMAIN rows, NEW state,
         Moved(r, state)
  PROVE  HistoryOf(rows') = [HistoryOf(rows) EXCEPT ![r] = state]
<1>1. /\ DOMAIN rows' = DOMAIN rows
      /\ \A q \in DOMAIN rows :
           rows'[q].state = IF q = r THEN state ELSE rows[q].state
  BY DEF Moved
<1> QED BY <1>1 DEF HistoryOf

LEMMA LifecycleGrants ==
  ASSUME rows \in Seq(Row), NEW id, NEW state \in RowState, Added(id, state)
  PROVE  HistoryOf(rows') = Append(HistoryOf(rows), state)
<1> DEFINE h == HistoryOf(rows)
           hN == HistoryOf(rows')
           n == Len(rows)
<1>1. n \in Nat /\ DOMAIN rows = 1..n
  BY RowIds
<1>2. /\ h \in Seq(RowState) /\ hN \in Seq(RowState)
      /\ Len(h) = n /\ Len(hN) = n + 1
  BY HistoryLength DEF Added
<1>3. /\ \A r \in 1..n : hN[r] = h[r]
      /\ hN[n + 1] = state
  <2>1. /\ DOMAIN rows' = DOMAIN rows \cup {n + 1}
        /\ \A q \in DOMAIN rows : rows'[q].state = rows[q].state
        /\ rows'[n + 1].state = state
    BY DEF Added
  <2> HIDE DEF n
  <2> QED BY <1>1, <2>1 DEF HistoryOf
<1> HIDE DEF h, hN, n
<1>4. /\ Append(h, state) \in Seq(RowState)
      /\ Len(Append(h, state)) = n + 1
      /\ \A r \in 1..n : Append(h, state)[r] = h[r]
      /\ Append(h, state)[n + 1] = state
  BY <1>2, AppendProperties
<1>5. \A r \in 1..(n + 1) : hN[r] = Append(h, state)[r]
  BY <1>1, <1>3, <1>4
<1>6. hN = Append(h, state)
  BY <1>2, <1>4, <1>5, SeqEqual
<1> QED BY <1>6 DEF h, hN

(* Without browser installs, the rows implement the documented state       *)
(* machine: what is revoked or failed to install stays so, a delegation is *)
(* revoked only out of revoking, and a grant finds no live delegation.     *)
THEOREM Implementation == Installs = {} => (Spec => ImplementsLifecycle)
<1> SUFFICES ASSUME Installs = {} PROVE Spec => ImplementsLifecycle
  OBVIOUS
<1>1. Init => Lifecycle!LifecycleInit
  <2> SUFFICES ASSUME rows = <<>> PROVE HistoryOf(rows) = <<>>
    BY DEF Init, Lifecycle!LifecycleInit, HistoryOf
  <2>1. rows \in Seq(Row) /\ Len(rows) = 0
    OBVIOUS
  <2>2. HistoryOf(rows) \in Seq(RowState) /\ Len(HistoryOf(rows)) = 0
    BY <2>1, HistoryLength
  <2> HIDE DEF HistoryOf
  <2> QED BY <2>2, EmptySeq
<1>2. Inv /\ [Next]_vars =>
        [Lifecycle!LifecycleNext]_([r \in DOMAIN rows |-> rows[r].state])
  <2> SUFFICES ASSUME Inv, [Next]_vars
               PROVE  \/ Lifecycle!LifecycleNext
                      \/ HistoryOf(rows') = HistoryOf(rows)
    BY DEF HistoryOf
  <2>1. rows \in Seq(Row)
    BY DEF Inv, TypeOK
  <2>2. CASE UNCHANGED rows
    BY <2>2 DEF HistoryOf
  <2>3. ASSUME NEW r \in LiveRows, NEW to, Moved(r, to)
        PROVE  /\ r \in DOMAIN HistoryOf(rows)
               /\ HistoryOf(rows)[r] = rows[r].state
               /\ HistoryOf(rows') = [HistoryOf(rows) EXCEPT ![r] = to]
    BY <2>1, <2>3, LifecycleMoves, RowIds DEF HistoryOf
  <2>4. CASE Requested
    BY <2>3, <2>4 DEF Requested, RequestedFrom, HistoryOf,
       Lifecycle!LifecycleNext, Lifecycle!Moves
  <2>5. CASE Refused
    BY <2>3, <2>5 DEF Refused, HistoryOf,
       Lifecycle!LifecycleNext, Lifecycle!Moves
  <2>6. CASE Revoked
    BY <2>3, <2>6 DEF Revoked, HistoryOf,
       Lifecycle!LifecycleNext, Lifecycle!Moves
  <2>7. CASE AdapterGranted
    <3>1. HistoryOf(rows') = Append(HistoryOf(rows), "active")
      BY <2>1, <2>7, LifecycleGrants DEF AdapterGranted, RowState, Live
    <3>2. Lifecycle!LiveOnes = {}
      BY <2>1, <2>7, RowIds DEF AdapterGranted, LiveRows, RowState,
         Lifecycle!LiveOnes, Lifecycle!Over
    <3> QED BY <3>1, <3>2 DEF HistoryOf, Lifecycle!LifecycleNext,
                              Lifecycle!Granted
  <2> QED BY <2>2, <2>4, <2>5, <2>6, <2>7, RowsTake
          DEF RowsStep, BrowserStep, vars
<1> QED BY <1>1, <1>2, Invariance, PTL
        DEF Spec, ImplementsLifecycle, Lifecycle!LifecycleSpec
=============================================================================
