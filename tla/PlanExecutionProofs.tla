------------------------- MODULE PlanExecutionProofs -------------------------
(* Theorems about PlanExecution for every set of plans and every bound. *)
EXTENDS PlanExecution, TLAPS

(* A step of one request or of an operator keeps the types. *)
LEMMA TypeRequest ==
  ASSUME TypeOK, NEW p \in Plans, Request(p) \/ AbortPlan(p)
  PROVE  TypeOK'
<1>1. CASE GateRequest(p)
  BY <1>1 DEF GateRequest, TypeOK
<1>2. CASE InsertPlan(p)
  <2>1. [status |-> "prepared", active |-> TRUE] \in PlanRow
    BY DEF PlanRow, PlanStatus
  <2>2. plan' \in [Plans -> PlanRow]
    BY <1>2, <2>1 DEF InsertPlan, TypeOK
  <2> QED BY <1>2, <2>2 DEF InsertPlan, TypeOK
<1>3. CASE EnqueueExecution(p)
  <2>1. [job[p] EXCEPT !.pc = "available"] \in JobRow
    BY DEF JobRow, JobPc, TypeOK
  <2>2. job' \in [Plans -> JobRow]
    BY <1>3, <2>1 DEF EnqueueExecution, TypeOK
  <2> QED BY <1>3, <2>2 DEF EnqueueExecution, TypeOK
<1>4. CASE AbortPlan(p)
  <2>1. [plan[p] EXCEPT !.status = "aborted", !.active = FALSE] \in PlanRow
    BY DEF PlanRow, PlanStatus, Terminal, TypeOK
  <2>2. plan' \in [Plans -> PlanRow] /\ intent' \in IntentState
    BY <1>4, <2>1 DEF AbortPlan, TypeOK, IntentState
  <2> QED BY <1>4, <2>2 DEF AbortPlan, TypeOK
<1> QED BY <1>1, <1>2, <1>3, <1>4 DEF Request

(* Moving a worker on, or ending its attempt, keeps the job rows typed. *)
LEMMA TypeGoto ==
  ASSUME TypeOK, NEW j \in Plans, NEW pc \in JobPc, Goto(j, pc)
  PROVE  job' \in [Plans -> JobRow]
<1>1. [job[j] EXCEPT !.pc = pc] \in JobRow
  BY DEF JobRow, TypeOK
<1> QED BY <1>1 DEF Goto, TypeOK

LEMMA TypeLeave ==
  ASSUME TypeOK, NEW j \in Plans, NEW pc \in JobPc, Leave(j, pc)
  PROVE  job' \in [Plans -> JobRow]
<1>1. job[j] \in JobRow /\ "decided" \in IntentState
  BY DEF TypeOK, IntentState
<1>2. [job[j] EXCEPT !.pc = pc, !.target = NoPlan, !.seen = "decided"]
        \in JobRow
  BY <1>1 DEF JobRow
<1> QED BY <1>2 DEF Leave, TypeOK

(* Writing a status keeps the plan rows typed. *)
LEMMA TypeStatus ==
  ASSUME TypeOK, NEW p, NEW s \in PlanStatus,
         plan' = [plan EXCEPT ![p].status = s]
  PROVE  plan' \in [Plans -> PlanRow]
<1>1. CASE p \in Plans
  <2>1. [plan[p] EXCEPT !.status = s] \in PlanRow
    BY <1>1 DEF PlanRow, TypeOK
  <2> QED BY <1>1, <2>1 DEF TypeOK
<1> QED BY <1>1 DEF TypeOK

(* A step of a worker keeps the types. *)
LEMMA TypeWorker ==
  ASSUME TypeOK, JobInv, NEW j \in Plans, Worker(j) \/ WorkerFails(j)
  PROVE  TypeOK'
<1>1. CASE LoadEnvelope(j)
  <2> DEFINE pc == IF current THEN "enveloped" ELSE "done"
  <2>1. job[j].attempt + 1 \in 0..MaxAttempts
    BY <1>1, BoundsAssumption DEF LoadEnvelope, TypeOK, JobRow
  <2>2. job[j] \in JobRow /\ pc \in JobPc
    BY DEF TypeOK, JobPc
  <2>3. [job[j] EXCEPT !.pc = pc, !.attempt = @ + 1] \in JobRow
    BY <2>1, <2>2 DEF JobRow
  <2>4. job' \in [Plans -> JobRow]
    BY <1>1, <2>3 DEF LoadEnvelope, TypeOK
  <2> QED BY <1>1, <2>4 DEF LoadEnvelope, TypeOK
<1>2. CASE LoadActivePlan(j)
  <2>1. job' \in [Plans -> JobRow]
    <3>1. CASE Leave(j, "done")
      BY <3>1, TypeLeave DEF JobPc
    <3>2. ASSUME NEW p \in Plans,
                 job' = [job EXCEPT ![j].pc = "loaded", ![j].target = p,
                                    ![j].seen = intent]
          PROVE  job' \in [Plans -> JobRow]
      <4>1. job[j] \in JobRow /\ "loaded" \in JobPc /\ intent \in IntentState
        BY DEF TypeOK, JobPc
      <4>2. [job[j] EXCEPT !.pc = "loaded", !.target = p, !.seen = intent]
              \in JobRow
        BY <4>1 DEF JobRow
      <4> QED BY <3>2, <4>2 DEF TypeOK
    <3> QED BY <1>2, <3>1, <3>2 DEF LoadActivePlan
  <2> QED BY <1>2, <2>1 DEF LoadActivePlan, TypeOK
<1>3. CASE VerifyDelegation(j) \/ VerifyNotPaused(j) \/ VerifyEligible(j)
  <2>1. PICK pc \in JobPc : Goto(j, pc)
    BY <1>3 DEF VerifyDelegation, VerifyNotPaused, VerifyEligible, Gate, JobPc
  <2>2. job' \in [Plans -> JobRow]
    BY <2>1, TypeGoto
  <2> QED BY <1>3, <2>2 DEF VerifyDelegation, VerifyNotPaused, VerifyEligible,
                            Gate, TypeOK
<1>4. CASE ClaimPlanForDispatch(j)
  <2>1. CASE plan[job[j].target].status = "prepared"
    <3>1. job[j] \in JobRow /\ "claimed" \in JobPc /\ intent \in IntentState
      BY DEF TypeOK, JobPc
    <3>2. [job[j] EXCEPT !.pc = "claimed", !.seen = intent] \in JobRow
      BY <3>1 DEF JobRow
    <3>3. job' \in [Plans -> JobRow]
      BY <1>4, <2>1, <3>2 DEF ClaimPlanForDispatch, TypeOK
    <3>6. pausedSince' \in SUBSET Plans
      BY <1>4, <2>1 DEF ClaimPlanForDispatch, TypeOK
    <3>4. plan' = [plan EXCEPT ![job[j].target].status = "signing"]
      BY <1>4, <2>1 DEF ClaimPlanForDispatch
    <3>5. plan' \in [Plans -> PlanRow]
      BY <3>4, TypeStatus DEF PlanStatus
    <3> QED BY <1>4, <2>1, <3>3, <3>5, <3>6 DEF ClaimPlanForDispatch, TypeOK
  <2>2. CASE Leave(j, "done") /\ UNCHANGED <<plan, pausedSince>>
    <3>1. job' \in [Plans -> JobRow]
      BY <2>2, TypeLeave DEF JobPc
    <3> QED BY <1>4, <2>2, <3>1 DEF ClaimPlanForDispatch, TypeOK
  <2> QED BY <1>4, <2>1, <2>2 DEF ClaimPlanForDispatch
<1>5. CASE RecheckPause(j) \/ RefuseLocally(j) \/ Receive(j)
  <2>1. PICK pc \in JobPc : Goto(j, pc)
    BY <1>5 DEF RecheckPause, RefuseLocally, Receive, ReceiveAccepted,
                ReceiveRejected, ReceiveUnavailable, JobPc
  <2>2. job' \in [Plans -> JobRow]
    BY <2>1, TypeGoto
  <2> QED BY <1>5, <2>2 DEF RecheckPause, RefuseLocally, Receive,
          ReceiveAccepted, ReceiveRejected, ReceiveUnavailable, TypeOK
<1>6. CASE Dispatch(j)
  <2> DEFINE o == <<j, job[j].attempt>>
  <2>1. job' \in [Plans -> JobRow]
    BY <1>6, TypeGoto DEF Dispatch, JobPc
  <2>2. CASE o \in Ops
    <3>1. op[o] \in OpRow /\ "received" \in OpPc
      BY <2>2 DEF TypeOK, OpPc
    <3>2. job[j].target \in Plans \cup {NoPlan}
      BY DEF JobRow, TypeOK
    <3>3. [op[o] EXCEPT !.pc = "received", !.plan = job[j].target] \in OpRow
      BY <3>1, <3>2 DEF OpRow
    <3>4. op' \in [Ops -> OpRow]
      BY <1>6, <2>2, <3>3 DEF Dispatch, TypeOK
    <3> QED BY <1>6, <2>1, <3>4 DEF Dispatch, TypeOK
  <2>3. CASE o \notin Ops
    <3>1. op' \in [Ops -> OpRow]
      BY <1>6, <2>3 DEF Dispatch, TypeOK
    <3> QED BY <1>6, <2>1, <3>1 DEF Dispatch, TypeOK
  <2> QED BY <2>2, <2>3
<1>7. CASE ProgressAfterDispatch(j)
  <2>1. job' \in [Plans -> JobRow] /\ intent' \in IntentState
    BY <1>7, TypeLeave DEF ProgressAfterDispatch, JobPc, IntentState, TypeOK
  <2> QED BY <1>7, <2>1 DEF ProgressAfterDispatch, TypeOK
<1>8. CASE RevertClaim(j)
  <2> DEFINE p == job[j].target
             s == IF plan[p].status = "signing" THEN "prepared"
                                                ELSE plan[p].status
             a == IF job[j].pc = "snoozing" THEN job[j].attempt - 1
                                            ELSE job[j].attempt
  <2>1. plan' \in [Plans -> PlanRow]
    <3>1. CASE p \in Plans
      <4>1. [plan[p] EXCEPT !.status = s] \in PlanRow
        BY <3>1 DEF PlanRow, PlanStatus, TypeOK
      <4> QED BY <1>8, <3>1, <4>1 DEF RevertClaim, TypeOK
    <3> QED BY <1>8, <3>1 DEF RevertClaim, TypeOK
  <2>2. a \in 0..MaxAttempts
    <3>1. job[j].attempt > 0
      BY <1>8 DEF RevertClaim, JobInv, JobSound, Running, Carrying, Holding
    <3>2. job[j].attempt \in 0..MaxAttempts
      BY DEF TypeOK, JobRow
    <3> QED BY <3>1, <3>2, BoundsAssumption
  <2>3. [pc |-> "available", target |-> NoPlan, seen |-> "decided",
         attempt |-> a] \in JobRow
    BY <2>2 DEF JobRow, JobPc, IntentState
  <2>4. job' \in [Plans -> JobRow]
    BY <1>8, <2>3 DEF RevertClaim, TypeOK
  <2> QED BY <1>8, <2>1, <2>4 DEF RevertClaim, TypeOK
<1>9. CASE MarkPlanAborted(j)
  <2>1. plan' \in [Plans -> PlanRow]
    BY <1>9, TypeStatus DEF MarkPlanAborted, PlanStatus, Terminal
  <2>2. job' \in [Plans -> JobRow] /\ intent' \in IntentState
    BY <1>9, TypeLeave DEF MarkPlanAborted, JobPc, IntentState, TypeOK
  <2> QED BY <1>9, <2>1, <2>2 DEF MarkPlanAborted, TypeOK
<1>10. CASE WorkerFails(j)
  <2>1. PICK pc \in JobPc : Leave(j, pc)
    BY <1>10 DEF WorkerFails, JobPc
  <2>2. job' \in [Plans -> JobRow]
    BY <2>1, TypeLeave
  <2>3. budget' \in [changes : 0..MaxChanges, failures : 0..MaxFailures]
    BY <1>10, BoundsAssumption DEF WorkerFails, TypeOK
  <2> QED BY <1>10, <2>2, <2>3 DEF WorkerFails, TypeOK
<1> QED BY <1>1, <1>2, <1>3, <1>4, <1>5, <1>6, <1>7, <1>8, <1>9, <1>10
        DEF Worker

(* Applying an execution callback keeps the types of what it writes. *)
LEMMA TypeCallback ==
  ASSUME TypeOK, NEW kind \in Kinds, NEW p, ApplyExecutionCallback(kind, p)
  PROVE  plan' \in [Plans -> PlanRow] /\ intent' \in IntentState
<1> DEFINE row == [plan[p] EXCEPT !.status = StatusFor(kind),
                                  !.active = @ /\ kind = "broadcast"]
<1>1. StatusFor(kind) \in PlanStatus
  BY DEF StatusFor, Kinds, PlanStatus, Terminal
<1>2. IntentFor(kind, intent) \in IntentState
  BY DEF IntentFor, Kinds, IntentState, TypeOK
<1>3. CASE UNCHANGED <<plan, intent>>
  BY <1>3 DEF TypeOK
<1>4. CASE /\ plan' = [plan EXCEPT ![p].status = StatusFor(kind),
                                   ![p].active = @ /\ kind = "broadcast"]
           /\ intent' = IntentFor(kind, intent)
  <2>1. CASE p \in Plans
    <3>1. plan[p] \in PlanRow
      BY <2>1 DEF TypeOK
    <3>2. row \in PlanRow
      BY <1>1, <3>1 DEF PlanRow
    <3> QED BY <1>2, <1>4, <2>1, <3>2 DEF TypeOK
  <2>2. CASE p \notin Plans
    BY <1>2, <1>4, <2>2 DEF TypeOK
  <2> QED BY <2>1, <2>2
<1> QED BY <1>3, <1>4 DEF ApplyExecutionCallback

(* An adapter step writes the row it is given. *)
LEMMA TypeAdapterStep ==
  ASSUME TypeOK, NEW o \in Ops, NEW row \in OpRow, AdapterStep(o, row),
         plan' \in [Plans -> PlanRow], intent' \in IntentState
  PROVE  TypeOK'
<1>1. op' \in [Ops -> OpRow]
  BY DEF AdapterStep, TypeOK
<1> QED BY <1>1 DEF AdapterStep, TypeOK

(* The rows the adapter and the chain write. *)
LEMMA TypeOpRow ==
  ASSUME NEW r \in OpRow
  PROVE  /\ \A pc \in OpPc : [r EXCEPT !.pc = pc] \in OpRow
         /\ \A pc \in OpPc, n \in SUBSET Ops :
              [r EXCEPT !.pc = pc, !.nonce = n] \in OpRow
         /\ \A pc \in OpPc, c \in ChainState :
              [r EXCEPT !.pc = pc, !.chain = c] \in OpRow
         /\ \A pc \in OpPc, a \in Replies :
              [r EXCEPT !.pc = pc, !.reply = a] \in OpRow
         /\ \A c \in ChainState : [r EXCEPT !.chain = c] \in OpRow
BY DEF OpRow

(* A step of the adapter or of the chain keeps the types. *)
LEMMA TypeAdapter ==
  ASSUME TypeOK, NEW o \in Ops, Adapter(o) \/ Land(o)
  PROVE  TypeOK'
<1>1. PICK row \in OpRow : AdapterStep(o, row)
  <2>1. op[o] \in OpRow /\ Landed \in SUBSET Ops
    BY DEF TypeOK, Landed
  <2>2. /\ "done" \in OpPc /\ "built" \in OpPc /\ "confirming" \in OpPc
        /\ Kinds \subseteq OpPc
        /\ "mempool" \in ChainState /\ "success" \in ChainState
        /\ "failure" \in ChainState
        /\ "2xx" \in Replies /\ "4xx" \in Replies /\ "5xx" \in Replies
    BY DEF OpPc, ChainState, Replies
  <2>3. "broadcast" \in OpPc /\ "confirmed" \in OpPc /\ "reverted" \in OpPc
        /\ "aborted" \in OpPc
    BY DEF OpPc, Kinds
  <2>4. CASE RejectDispatch(o) \/ BuildUserOp(o) \/ SendUserOp(o)
    BY <2>1, <2>2, <2>3, <2>4, TypeOpRow
       DEF RejectDispatch, BuildUserOp, SendUserOp
  <2>5. CASE AwaitReceipt(o) \/ Land(o)
    BY <2>1, <2>2, <2>3, <2>5, TypeOpRow DEF AwaitReceipt, Land
  <2>6. CASE DeliverCallback(o) \/ LoseCallback(o)
    BY <2>1, <2>2, <2>6, TypeOpRow DEF DeliverCallback, LoseCallback
  <2> QED BY <2>4, <2>5, <2>6 DEF Adapter
<1>2. plan' \in [Plans -> PlanRow] /\ intent' \in IntentState
  <2>1. CASE UNCHANGED <<plan, intent>>
    BY <2>1 DEF TypeOK
  <2>2. CASE op[o].pc \in Kinds /\ ApplyExecutionCallback(op[o].pc, op[o].plan)
    BY <2>2, TypeCallback
  <2> QED BY <2>1, <2>2 DEF Adapter, RejectDispatch, BuildUserOp, SendUserOp,
          AwaitReceipt, Land, DeliverCallback, LoseCallback
<1> QED BY <1>1, <1>2, TypeAdapterStep

(* A step of the world around keeps the types. *)
LEMMA TypeEnvironment ==
  ASSUME TypeOK, Environment
  PROVE  TypeOK'
<1>1. ASSUME Spend
      PROVE  budget' \in [changes : 0..MaxChanges, failures : 0..MaxFailures]
  BY <1>1, BoundsAssumption DEF Spend, TypeOK
<1>2. CASE CheckCancellable \/ DoCancel
  BY <1>1, <1>2 DEF CheckCancellable, DoCancel, TypeOK, IntentState
<1>3. CASE Pause \/ Resume
  BY <1>1, <1>3 DEF Pause, Resume, TypeOK
<1>4. CASE Supersede
  BY <1>1, <1>4 DEF Supersede, TypeOK, IntentState
<1>5. ASSUME NEW s \in {"executable", "eligible"}, FlipSwitch(s)
      PROVE  TypeOK'
  BY <1>1, <1>5 DEF FlipSwitch, TypeOK
<1> QED BY <1>2, <1>3, <1>4, <1>5 DEF Environment

-----------------------------------------------------------------------------
(* The invariant Inv is inductive. *)

(* A worker that moves, without writing a row, keeps the invariant when    *)
(* what it now carries is what it carried, or was just read from the rows. *)
LEMMA InvWorkerMoves ==
  ASSUME TypeOK, Inv, NEW j \in Plans, job' \in [Plans -> JobRow],
         \A k \in Plans \ {j} : job'[k] = job[k],
         UNCHANGED <<plan, request, op, switch, aborted, pausedSince>>,
         Carrying(j)' => /\ job'[j].target \in Plans
                         /\ plan[job'[j].target].status # "none",
         Running(j)' => job'[j].attempt > 0,
         Running(j)' /\ job'[j].pc \notin {"waiting", "reverting", "accepted",
                                           "aborting"}
           => op[<<j, job'[j].attempt>>].pc = "unsent",
         \A a \in Attempts : a > job'[j].attempt => a > job[j].attempt,
         Holding(j)' => Holding(j) /\ job'[j].target = job[j].target,
         job'[j].pc \in {"cleared", "waiting"} => j \notin pausedSince
  PROVE  /\ JobInv' /\ PlanInv' /\ OpInv' /\ PauseInv'
         /\ ExclusiveClaim' /\ AbortBeatsDispatch' /\ PauseBeatsDispatch'
<1>1. \A k \in Plans \ {j} : /\ Holding(k)' <=> Holding(k)
                             /\ Carrying(k)' <=> Carrying(k)
                             /\ Running(k)' <=> Running(k)
  BY DEF Holding, Carrying, Running
<1>2. JobInv'
  BY <1>1 DEF Inv, JobInv, JobSound
<1>3. PlanInv' /\ OpInv' /\ PauseInv'
  BY DEF Inv, PlanInv, Live, OpInv, PauseInv
<1>4. ExclusiveClaim'
  BY <1>1 DEF Inv, ExclusiveClaim
<1>5. AbortBeatsDispatch'
  BY <1>1 DEF Inv, AbortBeatsDispatch
<1>6. PauseBeatsDispatch'
  BY DEF Inv, PauseBeatsDispatch
<1> QED BY <1>2, <1>3, <1>4, <1>5, <1>6

(* The intent and the ledger of outcomes agree as long as neither plan nor *)
(* operation changes and the intent is not made executed.                  *)
LEMMA SettledFrame ==
  ASSUME SettledTruthfully, UNCHANGED <<plan, op>>,
         intent' = "executed" => intent = "executed"
  PROVE  SettledTruthfully'
BY DEF SettledTruthfully, HasOutcome

(* What Goto and Leave write. *)
LEMMA GotoRow ==
  ASSUME TypeOK, NEW j \in Plans, NEW pc \in JobPc, Goto(j, pc)
  PROVE  /\ job' \in [Plans -> JobRow]
         /\ \A k \in Plans \ {j} : job'[k] = job[k]
         /\ job'[j].pc = pc /\ job'[j].attempt = job[j].attempt
         /\ job'[j].target = job[j].target /\ job'[j].seen = job[j].seen
<1>1. job' \in [Plans -> JobRow]
  BY TypeGoto
<1> QED BY <1>1 DEF Goto, TypeOK, JobRow

LEMMA LeaveRow ==
  ASSUME TypeOK, NEW j \in Plans, NEW pc \in JobPc, Leave(j, pc)
  PROVE  /\ job' \in [Plans -> JobRow]
         /\ \A k \in Plans \ {j} : job'[k] = job[k]
         /\ job'[j].pc = pc /\ job'[j].attempt = job[j].attempt
<1>1. job' \in [Plans -> JobRow]
  BY TypeLeave
<1> QED BY <1>1 DEF Leave, TypeOK, JobRow

(* The loads, the gates, the recheck of the pause, the local refusals, the *)
(* replies and the end of an attempt keep the invariant.                   *)
LEMMA InvWorker ==
  ASSUME TypeOK, Inv, NEW j \in Plans,
         \/ LoadEnvelope(j) \/ LoadActivePlan(j)
         \/ VerifyDelegation(j) \/ VerifyNotPaused(j) \/ VerifyEligible(j)
         \/ RecheckPause(j) \/ RefuseLocally(j) \/ Receive(j)
         \/ ProgressAfterDispatch(j) \/ WorkerFails(j)
  PROVE  Inv'
<1>1. SettledTruthfully'
  BY SettledFrame DEF Inv, LoadEnvelope, LoadActivePlan, VerifyDelegation,
     VerifyNotPaused, VerifyEligible, Gate, RecheckPause, RefuseLocally,
     Receive, ReceiveAccepted, ReceiveRejected, ReceiveUnavailable,
     ProgressAfterDispatch, WorkerFails
<1>2. CASE LoadEnvelope(j)
  <2>1. job' \in [Plans -> JobRow]
    BY <1>2, TypeWorker DEF Worker, Inv, TypeOK
  <2>2. /\ \A k \in Plans \ {j} : job'[k] = job[k]
        /\ job'[j].pc \in {"enveloped", "done"}
        /\ job'[j].attempt = job[j].attempt + 1
        /\ job[j].attempt \in 0..MaxAttempts /\ job[j].attempt < MaxAttempts
    BY <1>2 DEF LoadEnvelope, TypeOK, JobRow
  <2>3. /\ job[j].attempt + 1 > 0
        /\ job[j].attempt + 1 \in Attempts
        /\ \A a \in Attempts : a > job[j].attempt + 1 => a > job[j].attempt
        /\ job[j].attempt + 1 > job[j].attempt
    BY <2>2, BoundsAssumption DEF Attempts
  <2>4. op[<<j, job[j].attempt + 1>>].pc = "unsent"
    BY <2>3 DEF Inv, JobInv, JobSound
  <2> QED BY <1>1, <1>2, <2>1, <2>2, <2>3, <2>4, InvWorkerMoves
          DEF LoadEnvelope, Inv, Holding, Carrying, Running
<1>3. CASE LoadActivePlan(j)
  <2>1. CASE Leave(j, "done")
    <3>1. /\ job' \in [Plans -> JobRow]
          /\ \A k \in Plans \ {j} : job'[k] = job[k]
          /\ job'[j].pc = "done" /\ job'[j].attempt = job[j].attempt
      BY <2>1, LeaveRow DEF JobPc
    <3> QED BY <1>1, <1>3, <3>1, InvWorkerMoves
            DEF LoadActivePlan, Inv, Holding, Carrying, Running
  <2>2. ASSUME NEW p \in Plans, plan[p].status = "prepared",
               job' = [job EXCEPT ![j].pc = "loaded", ![j].target = p,
                                  ![j].seen = intent]
        PROVE  Inv'
    <3>1. job' \in [Plans -> JobRow]
      BY <1>3, TypeWorker DEF Worker, Inv, TypeOK
    <3>2. /\ \A k \in Plans \ {j} : job'[k] = job[k]
          /\ job'[j].pc = "loaded" /\ job'[j].attempt = job[j].attempt
          /\ job'[j].target = p
      BY <2>2 DEF TypeOK, JobRow
    <3>3. job[j].attempt > 0 /\ op[<<j, job[j].attempt>>].pc = "unsent"
      BY <1>3 DEF LoadActivePlan, Inv, JobInv, JobSound, Running
    <3>4. UNCHANGED <<plan, request, op, switch, aborted, pausedSince>>
      BY <1>3 DEF LoadActivePlan
    <3> QED BY <1>1, <2>2, <3>1, <3>2, <3>3, <3>4, InvWorkerMoves
            DEF Inv, Holding, Carrying, Running
  <2> QED BY <1>3, <2>1, <2>2 DEF LoadActivePlan
<1>4. CASE VerifyDelegation(j) \/ VerifyNotPaused(j) \/ VerifyEligible(j)
  <2>1. PICK pc \in {"delegated", "unpaused", "gated", "aborting"} : Goto(j, pc)
    BY <1>4 DEF VerifyDelegation, VerifyNotPaused, VerifyEligible, Gate
  <2>2. /\ job' \in [Plans -> JobRow]
        /\ \A k \in Plans \ {j} : job'[k] = job[k]
        /\ job'[j].pc = pc /\ job'[j].attempt = job[j].attempt
        /\ job'[j].target = job[j].target
    BY <2>1, GotoRow DEF JobPc
  <2>3. job[j].pc \in {"loaded", "delegated", "unpaused"}
    BY <1>4 DEF VerifyDelegation, VerifyNotPaused, VerifyEligible, Gate
  <2>4. /\ job[j].target \in Plans /\ plan[job[j].target].status # "none"
        /\ job[j].attempt > 0 /\ op[<<j, job[j].attempt>>].pc = "unsent"
    BY <2>3 DEF Inv, JobInv, JobSound, Carrying, Running
  <2>5. UNCHANGED <<plan, request, op, switch, aborted, pausedSince>>
    BY <1>4 DEF VerifyDelegation, VerifyNotPaused, VerifyEligible, Gate
  <2> QED BY <1>1, <2>2, <2>4, <2>5, InvWorkerMoves
          DEF Inv, Holding, Carrying, Running
<1>5. CASE RecheckPause(j)
  <2>1. PICK pc \in {"cleared", "snoozing"} :
          Goto(j, pc) /\ (pc = "cleared" => ~switch.paused)
    BY <1>5 DEF RecheckPause
  <2>2. /\ job' \in [Plans -> JobRow]
        /\ \A k \in Plans \ {j} : job'[k] = job[k]
        /\ job'[j].pc = pc /\ job'[j].attempt = job[j].attempt
        /\ job'[j].target = job[j].target
    BY <2>1, GotoRow DEF JobPc
  <2>3. /\ job[j].target \in Plans /\ plan[job[j].target].status # "none"
        /\ job[j].attempt > 0 /\ op[<<j, job[j].attempt>>].pc = "unsent"
        /\ Holding(j)
    BY <1>5 DEF RecheckPause, Inv, JobInv, JobSound, Holding, Carrying, Running
  <2>4. pc = "cleared" => j \notin pausedSince
    BY <2>1 DEF Inv, PauseInv
  <2> QED BY <1>1, <1>5, <2>2, <2>3, <2>4, InvWorkerMoves
          DEF RecheckPause, Inv, Carrying, Running
<1>6. CASE RefuseLocally(j) \/ Receive(j)
  <2>1. PICK pc \in {"accepted", "reverting", "aborting"} : Goto(j, pc)
    BY <1>6 DEF RefuseLocally, Receive, ReceiveAccepted, ReceiveRejected,
                ReceiveUnavailable
  <2>2. /\ job' \in [Plans -> JobRow]
        /\ \A k \in Plans \ {j} : job'[k] = job[k]
        /\ job'[j].pc = pc /\ job'[j].attempt = job[j].attempt
        /\ job'[j].target = job[j].target
    BY <2>1, GotoRow DEF JobPc
  <2>3. /\ job[j].target \in Plans /\ plan[job[j].target].status # "none"
        /\ job[j].attempt > 0 /\ Holding(j)
    BY <1>6 DEF RefuseLocally, Receive, ReceiveAccepted, ReceiveRejected,
                ReceiveUnavailable, Inv, JobInv, JobSound, Holding, Carrying, Running
  <2>4. UNCHANGED <<plan, request, op, switch, aborted, pausedSince>>
    BY <1>6 DEF RefuseLocally, Receive, ReceiveAccepted, ReceiveRejected,
                ReceiveUnavailable
  <2> QED BY <1>1, <2>2, <2>3, <2>4, InvWorkerMoves
          DEF Inv, Carrying, Running
<1>7. CASE ProgressAfterDispatch(j) \/ WorkerFails(j)
  <2>1. PICK pc \in {"done", "available", "orphaned"} : Leave(j, pc)
    BY <1>7 DEF ProgressAfterDispatch, WorkerFails
  <2>2. /\ job' \in [Plans -> JobRow]
        /\ \A k \in Plans \ {j} : job'[k] = job[k]
        /\ job'[j].pc = pc /\ job'[j].attempt = job[j].attempt
    BY <2>1, LeaveRow DEF JobPc
  <2>3. UNCHANGED <<plan, request, op, switch, aborted, pausedSince>>
    BY <1>7 DEF ProgressAfterDispatch, WorkerFails
  <2> QED BY <1>1, <2>2, <2>3, InvWorkerMoves
          DEF Inv, Holding, Carrying, Running
<1> QED BY <1>2, <1>3, <1>4, <1>5, <1>6, <1>7

(* The claim, under the row lock, keeps the invariant: it finds the plan   *)
(* prepared, so no other worker holds it and no operator has aborted it.   *)
LEMMA InvClaim ==
  ASSUME TypeOK, Inv, NEW j \in Plans, ClaimPlanForDispatch(j)
  PROVE  Inv'
<1> DEFINE t == job[j].target
<1>1. CASE plan[t].status # "prepared"
  <2>1. Leave(j, "done") /\ UNCHANGED <<plan, pausedSince>>
    BY <1>1 DEF ClaimPlanForDispatch
  <2>2. /\ job' \in [Plans -> JobRow]
        /\ \A k \in Plans \ {j} : job'[k] = job[k]
        /\ job'[j].pc = "done" /\ job'[j].attempt = job[j].attempt
    BY <2>1, LeaveRow DEF JobPc
  <2>3. UNCHANGED <<intent, plan, request, op, switch, aborted, pausedSince>>
    BY <2>1 DEF ClaimPlanForDispatch
  <2>4. SettledTruthfully'
    BY <2>3, SettledFrame DEF Inv
  <2> QED BY <2>2, <2>3, <2>4, InvWorkerMoves
          DEF Inv, Holding, Carrying, Running
<1>2. CASE plan[t].status = "prepared"
  <2>1. /\ t \in Plans /\ job[j].attempt > 0
        /\ op[<<j, job[j].attempt>>].pc = "unsent"
    BY DEF ClaimPlanForDispatch, Inv, JobInv, JobSound, Carrying, Running
  <2>2. /\ \A k \in Plans \ {j} : job'[k] = job[k]
        /\ job'[j].pc = "claimed" /\ job'[j].attempt = job[j].attempt
        /\ job'[j].target = t
    BY <1>2 DEF ClaimPlanForDispatch, TypeOK, JobRow
  <2>3. /\ \A p \in Plans \ {t} : plan'[p] = plan[p]
        /\ plan'[t].status = "signing" /\ plan'[t].active = plan[t].active
    BY <1>2, <2>1 DEF ClaimPlanForDispatch, TypeOK, PlanRow
  <2>4. UNCHANGED <<intent, request, op, switch, aborted>>
    BY DEF ClaimPlanForDispatch
  <2>5. pausedSince' = (pausedSince \ {j}) \cup
                       (IF switch.paused THEN {j} ELSE {})
    BY <1>2 DEF ClaimPlanForDispatch
  <2>6. \A k \in Plans : Holding(k) => job[k].target # t
    BY <1>2, <2>1 DEF Inv, ExclusiveClaim
  <2>7. \A k \in Plans \ {j} : /\ Holding(k)' <=> Holding(k)
                               /\ Carrying(k)' <=> Carrying(k)
                               /\ Running(k)' <=> Running(k)
    BY <2>2 DEF Holding, Carrying, Running
  <2>8. \A p \in Plans : plan'[p].status = "none" <=> plan[p].status = "none"
    BY <1>2, <2>3
  <2>9. JobInv'
    <3>1. Running(j) /\ job[j].pc = "gated"
      BY DEF ClaimPlanForDispatch, Running, Carrying
    <3>2. \A a \in Attempts : a > job[j].attempt => op[<<j, a>>].pc = "unsent"
      BY DEF Inv, JobInv, JobSound
    <3>3. JobSound(j)'
      BY <1>2, <2>1, <2>2, <2>4, <2>8, <3>2 DEF JobSound
    <3>4. ASSUME NEW k \in Plans \ {j}
          PROVE  JobSound(k)'
      <4>1. JobSound(k)
        BY DEF Inv, JobInv, JobSound
      <4> QED BY <2>2, <2>4, <2>7, <2>8, <4>1 DEF JobSound
    <3> QED BY <3>3, <3>4 DEF JobInv
  <2>10. PlanInv'
    BY <1>2, <2>1, <2>3, <2>4 DEF Inv, PlanInv, Live, Terminal
  <2>11. OpInv' /\ PauseInv'
    BY <2>4, <2>5 DEF Inv, OpInv, PauseInv
  <2>12. ExclusiveClaim'
    <3>1. \A k \in Plans : Holding(k) => job[k].target \in Plans
      BY DEF Inv, JobInv, JobSound, Carrying
    <3>2. \A k \in Plans : Holding(k) => k # j
      BY DEF ClaimPlanForDispatch, Holding
    <3> QED BY <2>1, <2>2, <2>3, <2>6, <2>7, <3>1, <3>2
            DEF Inv, ExclusiveClaim
  <2>13. AbortBeatsDispatch'
    <3>1. t \notin aborted
      BY <1>2, <2>1 DEF Inv, PlanInv, Terminal
    <3> QED BY <2>2, <2>4, <2>7, <3>1 DEF Inv, AbortBeatsDispatch
  <2>14. PauseBeatsDispatch'
    BY <2>2, <2>5 DEF Inv, PauseBeatsDispatch
  <2>15. SettledTruthfully'
    BY <2>3, <2>4 DEF Inv, SettledTruthfully, HasOutcome
  <2> QED BY <2>9, <2>10, <2>11, <2>12, <2>13, <2>14, <2>15 DEF Inv
<1> QED BY <1>1, <1>2

(* Sending the request keeps the invariant: the attempt had not sent one.  *)
LEMMA InvDispatch ==
  ASSUME TypeOK, Inv, NEW j \in Plans, Dispatch(j)
  PROVE  Inv'
<1> DEFINE n == <<j, job[j].attempt>>
           t == job[j].target
<1>1. /\ t \in Plans /\ plan[t].status # "none" /\ job[j].attempt > 0
      /\ op[n].pc = "unsent" /\ Holding(j)
  BY DEF Dispatch, Inv, JobInv, JobSound, Holding, Carrying, Running
<1>2. n \in Ops
  <2>1. job[j].attempt \in 0..MaxAttempts
    BY DEF TypeOK, JobRow
  <2> QED BY <1>1, <2>1, BoundsAssumption DEF Ops, Attempts
<1>3. /\ \A k \in Plans \ {j} : job'[k] = job[k]
      /\ job'[j].pc = "waiting" /\ job'[j].attempt = job[j].attempt
      /\ job'[j].target = t
  <2>1. Goto(j, "waiting")
    BY DEF Dispatch
  <2> QED BY <2>1, GotoRow DEF JobPc
<1>4. /\ \A o \in Ops \ {n} : op'[o] = op[o]
      /\ op'[n].pc = "received" /\ op'[n].plan = t
      /\ op'[n].chain = op[n].chain
  BY <1>2 DEF Dispatch, TypeOK, OpRow
<1>5. UNCHANGED <<plan, intent, request, switch, aborted, pausedSince>>
  BY DEF Dispatch
<1>6. \A k \in Plans : /\ Holding(k)' <=> Holding(k)
                       /\ Carrying(k)' <=> Carrying(k)
                       /\ Running(k)' <=> Running(k)
                       /\ job'[k].target = job[k].target
                       /\ job'[k].attempt = job[k].attempt
  BY <1>1, <1>3 DEF Holding, Carrying, Running
<1>7. JobInv'
  <2> SUFFICES ASSUME NEW k \in Plans PROVE JobSound(k)'
    BY DEF JobInv
  <2>1. /\ Carrying(k) => /\ job[k].target \in Plans
                          /\ plan[job[k].target].status # "none"
        /\ Running(k) => job[k].attempt > 0
    BY DEF Inv, JobInv, JobSound
  <2>2. job[k].attempt \in 0..MaxAttempts
    BY DEF TypeOK, JobRow
  <2>3. Running(k) => <<k, job[k].attempt>> \in Ops
    BY <2>1, <2>2, BoundsAssumption DEF Ops, Attempts
  <2>4. ASSUME Running(k), job'[k].pc \notin {"waiting", "reverting",
                                              "accepted", "aborting"}
        PROVE  op'[<<k, job[k].attempt>>].pc = "unsent"
    <3>1. k # j
      BY <1>3, <2>4
    <3>2. job[k].pc = job'[k].pc
      BY <1>3, <3>1
    <3>3. op[<<k, job[k].attempt>>].pc = "unsent"
      BY <2>4, <3>2 DEF Inv, JobInv, JobSound
    <3> QED BY <1>4, <2>3, <2>4, <3>1, <3>3
  <2>5. ASSUME NEW a \in Attempts, a > job[k].attempt
        PROVE  op'[<<k, a>>].pc = "unsent"
    <3>1. <<k, a>> \in Ops /\ op[<<k, a>>].pc = "unsent"
      BY <2>5 DEF Inv, JobInv, JobSound, Ops
    <3>2. <<k, a>> # n
      BY <2>2, <2>5, BoundsAssumption DEF Attempts
    <3> QED BY <1>4, <3>1, <3>2
  <2> QED BY <1>5, <1>6, <2>1, <2>4, <2>5 DEF JobSound
<1>8. PlanInv' /\ PauseInv'
  BY <1>5 DEF Inv, PlanInv, Live, PauseInv
<1>9. OpInv'
  BY <1>1, <1>2, <1>4 DEF Inv, OpInv
<1>10. ExclusiveClaim' /\ AbortBeatsDispatch'
  BY <1>5, <1>6 DEF Inv, ExclusiveClaim, AbortBeatsDispatch
<1>11. PauseBeatsDispatch'
  BY <1>3, <1>5 DEF Inv, PauseBeatsDispatch, Dispatch
<1>12. SettledTruthfully'
  <2>1. \A p \in Plans : HasOutcome(p, "success") => HasOutcome(p, "success")'
    BY <1>1, <1>2, <1>4 DEF HasOutcome, Inv, OpInv
  <2>2. \A p \in Plans : HasOutcome(p, "failure") => HasOutcome(p, "failure")'
    BY <1>1, <1>2, <1>4 DEF HasOutcome, Inv, OpInv
  <2> QED BY <1>5, <2>1, <2>2 DEF Inv, SettledTruthfully
<1> QED BY <1>7, <1>8, <1>9, <1>10, <1>11, <1>12 DEF Inv

(* A worker that lets go while it writes its plan's row keeps what Inv     *)
(* says of jobs: the row does not vanish, and becomes prepared only for a  *)
(* plan nobody else holds.                                                 *)
LEMMA JobsLetGo ==
  ASSUME TypeOK, Inv, NEW j \in Plans,
         \A k \in Plans \ {j} : job'[k] = job[k],
         job'[j].pc \in {"available", "done"},
         UNCHANGED <<op, aborted, pausedSince>>,
         \A a \in Attempts : a > job'[j].attempt => op[<<j, a>>].pc = "unsent",
         \A p \in Plans : plan'[p].status = "none" <=> plan[p].status = "none",
         \A p \in Plans : plan'[p].status = "prepared" =>
           \/ plan[p].status = "prepared"
           \/ Holding(j) /\ p = job[j].target
  PROVE  JobInv' /\ ExclusiveClaim' /\ AbortBeatsDispatch' /\ PauseBeatsDispatch'
<1>1. /\ \A k \in Plans \ {j} : /\ Holding(k)' <=> Holding(k)
                                /\ Carrying(k)' <=> Carrying(k)
                                /\ Running(k)' <=> Running(k)
      /\ ~Holding(j)' /\ ~Carrying(j)' /\ ~Running(j)'
  BY DEF Holding, Carrying, Running
<1>2. \A k \in Plans \ {j} : Carrying(k) => job[k].target \in Plans
  BY DEF Inv, JobInv, JobSound
<1>3. JobInv'
  <2>1. JobSound(j)'
    BY <1>1 DEF JobSound
  <2>2. ASSUME NEW k \in Plans \ {j} PROVE JobSound(k)'
    <3>1. JobSound(k)
      BY DEF Inv, JobInv
    <3> QED BY <1>1, <1>2, <3>1 DEF JobSound
  <2> QED BY <2>1, <2>2 DEF JobInv
<1>4. ExclusiveClaim'
  <2> SUFFICES ASSUME NEW k \in Plans, Holding(k)'
               PROVE  /\ plan'[job'[k].target].status # "prepared"
                      /\ \A l \in Plans : Holding(l)'
                           /\ job'[l].target = job'[k].target => l = k
    BY DEF ExclusiveClaim
  <2>1. k # j /\ Holding(k) /\ job'[k] = job[k] /\ job[k].target \in Plans
    BY <1>1, <1>2 DEF Carrying
  <2>2. Holding(j) => job[j].target # job[k].target
    BY <2>1 DEF Inv, ExclusiveClaim
  <2>3. plan[job[k].target].status # "prepared"
    BY <2>1 DEF Inv, ExclusiveClaim
  <2>4. \A l \in Plans : Holding(l)' => l # j /\ Holding(l) /\ job'[l] = job[l]
    BY <1>1
  <2> QED BY <2>1, <2>2, <2>3, <2>4 DEF Inv, ExclusiveClaim
<1>5. AbortBeatsDispatch'
  BY <1>1 DEF Inv, AbortBeatsDispatch
<1>6. PauseBeatsDispatch'
  BY DEF Inv, PauseBeatsDispatch
<1> QED BY <1>3, <1>4, <1>5, <1>6

(* Giving the claim back keeps the invariant: the plan is prepared again   *)
(* only when nothing happened to it meanwhile.                             *)
LEMMA InvRevert ==
  ASSUME TypeOK, Inv, NEW j \in Plans, RevertClaim(j)
  PROVE  Inv'
<1> DEFINE t == job[j].target
<1>1. /\ t \in Plans /\ job[j].attempt > 0 /\ Holding(j) /\ Running(j)
      /\ plan[t].status # "none"
  BY DEF RevertClaim, Inv, JobInv, JobSound, Carrying, Running, Holding
<1>2. /\ \A k \in Plans \ {j} : job'[k] = job[k]
      /\ job'[j].pc = "available"
      /\ job'[j].attempt = IF job[j].pc = "snoozing" THEN job[j].attempt - 1
                                                     ELSE job[j].attempt
  BY DEF RevertClaim, TypeOK, JobRow
<1>3. /\ \A p \in Plans \ {t} : plan'[p] = plan[p]
      /\ plan'[t].status = IF plan[t].status = "signing"
                             THEN "prepared" ELSE plan[t].status
      /\ plan'[t].active = plan[t].active
  BY <1>1 DEF RevertClaim, TypeOK, PlanRow
<1>4. UNCHANGED <<intent, request, op, switch, aborted, pausedSince>>
  BY DEF RevertClaim
<1>5. \A a \in Attempts : a > job'[j].attempt => op[<<j, a>>].pc = "unsent"
  <2>1. job[j].attempt \in Nat
    BY BoundsAssumption DEF TypeOK, JobRow
  <2>2. JobSound(j)
    BY DEF Inv, JobInv
  <2>3. CASE job[j].pc = "snoozing"
    <3>1. \A a \in Attempts : a > job'[j].attempt
            => a > job[j].attempt \/ a = job[j].attempt
      BY <1>2, <2>1, <2>3, BoundsAssumption DEF Attempts
    <3> QED BY <1>1, <2>2, <2>3, <3>1 DEF JobSound
  <2>4. CASE job[j].pc # "snoozing"
    BY <1>2, <2>2, <2>4 DEF JobSound
  <2> QED BY <2>3, <2>4
<1>6. JobInv' /\ ExclusiveClaim' /\ AbortBeatsDispatch' /\ PauseBeatsDispatch'
  <2>1. \A p \in Plans : /\ plan'[p].status = "none" <=> plan[p].status = "none"
                         /\ plan'[p].status = "prepared" =>
                              \/ plan[p].status = "prepared"
                              \/ Holding(j) /\ p = job[j].target
    BY <1>1, <1>3
  <2> QED BY <1>2, <1>4, <1>5, <2>1, JobsLetGo
<1>7. PlanInv'
  BY <1>1, <1>3, <1>4 DEF Inv, PlanInv, Live, Terminal
<1>8. OpInv' /\ PauseInv'
  BY <1>4 DEF Inv, OpInv, PauseInv
<1>9. SettledTruthfully'
  BY <1>1, <1>3, <1>4 DEF Inv, SettledTruthfully, HasOutcome
<1> QED BY <1>6, <1>7, <1>8, <1>9 DEF Inv

(* The worker's unlocked abort keeps the invariant: it only ever writes a  *)
(* terminal status, over any other.                                        *)
LEMMA InvMarkAborted ==
  ASSUME TypeOK, Inv, NEW j \in Plans, MarkPlanAborted(j)
  PROVE  Inv'
<1> DEFINE t == job[j].target
<1>1. t \in Plans /\ plan[t].status # "none"
  BY DEF MarkPlanAborted, Inv, JobInv, JobSound, Carrying
<1>2. /\ \A k \in Plans \ {j} : job'[k] = job[k]
      /\ job'[j].pc = "done" /\ job'[j].attempt = job[j].attempt
  <2>1. Leave(j, "done")
    BY DEF MarkPlanAborted
  <2> QED BY <2>1, LeaveRow DEF JobPc
<1>3. /\ \A p \in Plans \ {t} : plan'[p] = plan[p]
      /\ plan'[t].status = "aborted" /\ plan'[t].active = plan[t].active
  BY <1>1 DEF MarkPlanAborted, TypeOK, PlanRow
<1>4. UNCHANGED <<request, op, switch, aborted, pausedSince>>
  BY DEF MarkPlanAborted
<1>5. \A a \in Attempts : a > job'[j].attempt => op[<<j, a>>].pc = "unsent"
  BY <1>2 DEF Inv, JobInv, JobSound
<1>6. JobInv' /\ ExclusiveClaim' /\ AbortBeatsDispatch' /\ PauseBeatsDispatch'
  <2>1. \A p \in Plans : /\ plan'[p].status = "none" <=> plan[p].status = "none"
                         /\ plan'[p].status = "prepared"
                              => plan[p].status = "prepared"
    BY <1>1, <1>3
  <2> QED BY <1>2, <1>4, <1>5, <2>1, JobsLetGo
<1>7. PlanInv'
  BY <1>1, <1>3, <1>4 DEF Inv, PlanInv, Live, Terminal
<1>8. OpInv' /\ PauseInv'
  BY <1>4 DEF Inv, OpInv, PauseInv
<1>9. SettledTruthfully'
  <2>1. intent' = "executed" => intent = "executed"
    BY DEF MarkPlanAborted
  <2> QED BY <1>1, <1>3, <1>4, <2>1 DEF Inv, SettledTruthfully, HasOutcome
<1> QED BY <1>6, <1>7, <1>8, <1>9 DEF Inv

(* Steps that leave jobs alone: what Inv says of them survives when no row *)
(* vanishes or becomes prepared under a worker and no request is unsent.   *)
LEMMA JobsUndisturbed ==
  ASSUME TypeOK, Inv,
         UNCHANGED job,
         \A o \in Ops : op[o].pc = "unsent" => op'[o].pc = "unsent",
         \A p \in Plans : plan[p].status # "none" => plan'[p].status # "none",
         \A p \in Plans : plan'[p].status = "prepared" =>
                            plan[p].status \in {"none", "prepared"}
  PROVE  JobInv' /\ ExclusiveClaim'
<1>1. \A k \in Plans : /\ Holding(k)' <=> Holding(k)
                       /\ Carrying(k)' <=> Carrying(k)
                       /\ Running(k)' <=> Running(k)
  BY DEF Holding, Carrying, Running
<1>2. JobInv'
  <2> SUFFICES ASSUME NEW k \in Plans PROVE JobSound(k)'
    BY DEF JobInv
  <2>1. JobSound(k) /\ job[k].attempt \in 0..MaxAttempts
    BY DEF Inv, JobInv, TypeOK, JobRow
  <2>2. Running(k) => <<k, job[k].attempt>> \in Ops
    BY <2>1, BoundsAssumption DEF JobSound, Ops, Attempts
  <2>3. \A a \in Attempts : <<k, a>> \in Ops
    BY DEF Ops
  <2> QED BY <1>1, <2>1, <2>2, <2>3 DEF JobSound
<1>3. ExclusiveClaim'
  <2>1. \A k \in Plans : Holding(k) => /\ job[k].target \in Plans
                                       /\ plan[job[k].target].status # "none"
    BY DEF Inv, JobInv, JobSound, Carrying
  <2> QED BY <1>1, <2>1 DEF Inv, ExclusiveClaim
<1> QED BY <1>2, <1>3

(* The requests keep the invariant: the index admits one live plan.        *)
LEMMA InvRequest ==
  ASSUME TypeOK, Inv, NEW p \in Plans, Request(p)
  PROVE  Inv'
<1>1. CASE GateRequest(p)
  <2>1. UNCHANGED <<plan, intent, job, op, switch, aborted, pausedSince>>
    BY <1>1 DEF GateRequest
  <2>2. PlanInv'
    BY <1>1, <2>1 DEF GateRequest, Inv, PlanInv, Live, TypeOK
  <2>3. JobInv' /\ ExclusiveClaim'
    BY <2>1, JobsUndisturbed
  <2>4. OpInv' /\ PauseInv' /\ AbortBeatsDispatch' /\ PauseBeatsDispatch'
    BY <2>1 DEF Inv, OpInv, PauseInv, AbortBeatsDispatch, PauseBeatsDispatch,
                Holding
  <2>5. SettledTruthfully'
    BY <2>1, SettledFrame DEF Inv
  <2> QED BY <2>2, <2>3, <2>4, <2>5 DEF Inv
<1>2. CASE InsertPlan(p)
  <2>1. UNCHANGED <<intent, job, op, switch, aborted, pausedSince>>
    BY <1>2 DEF InsertPlan
  <2>2. /\ request'[p] \in {"refused", "inserted"}
        /\ \A q \in Plans \ {p} : request'[q] = request[q]
    BY <1>2 DEF InsertPlan, TypeOK
  <2>3. plan[p].status = "none"
    BY <1>2 DEF InsertPlan, Inv, PlanInv
  <2>4. OpInv' /\ PauseInv' /\ AbortBeatsDispatch' /\ PauseBeatsDispatch'
    BY <2>1 DEF Inv, OpInv, PauseInv, AbortBeatsDispatch, PauseBeatsDispatch,
                Holding
  <2>5. CASE plan' = plan
    <3>1. PlanInv'
      BY <2>1, <2>2, <2>5 DEF Inv, PlanInv, Live
    <3>2. JobInv' /\ ExclusiveClaim'
      BY <2>1, <2>5, JobsUndisturbed
    <3>3. SettledTruthfully'
      BY <2>1, <2>5, SettledFrame DEF Inv
    <3> QED BY <2>4, <3>1, <3>2, <3>3 DEF Inv
  <2>6. CASE /\ \A q \in Plans : ~plan[q].active
             /\ plan' = [plan EXCEPT ![p] = [status |-> "prepared",
                                             active |-> TRUE]]
    <3>1. /\ plan'[p].status = "prepared" /\ plan'[p].active
          /\ \A q \in Plans \ {p} : plan'[q] = plan[q]
      BY <2>6 DEF TypeOK
    <3>2. PlanInv'
      BY <2>1, <2>2, <2>3, <2>6, <3>1 DEF Inv, PlanInv, Live, Terminal
    <3>3. JobInv' /\ ExclusiveClaim'
      BY <2>1, <2>3, <3>1, JobsUndisturbed
    <3>4. SettledTruthfully'
      BY <2>1, <3>1 DEF Inv, SettledTruthfully, HasOutcome
    <3> QED BY <2>4, <3>2, <3>3, <3>4 DEF Inv
  <2> QED BY <1>2, <2>5, <2>6 DEF InsertPlan
<1>3. CASE EnqueueExecution(p)
  <2>1. UNCHANGED <<plan, intent, op, switch, aborted, pausedSince>>
    BY <1>3 DEF EnqueueExecution
  <2>2. /\ \A k \in Plans \ {p} : job'[k] = job[k]
        /\ job'[p].pc = "available" /\ job'[p].attempt = job[p].attempt
        /\ job'[p].target = job[p].target
    BY <1>3 DEF EnqueueExecution, TypeOK, JobRow
  <2>3. \A a \in Attempts : a > job'[p].attempt => op[<<p, a>>].pc = "unsent"
    BY <2>2 DEF Inv, JobInv, JobSound
  <2>4. JobInv' /\ ExclusiveClaim' /\ AbortBeatsDispatch' /\ PauseBeatsDispatch'
    BY <2>1, <2>2, <2>3, JobsLetGo
  <2>5. PlanInv'
    BY <1>3, <2>1 DEF EnqueueExecution, Inv, PlanInv, Live, TypeOK
  <2>6. OpInv' /\ PauseInv'
    BY <2>1 DEF Inv, OpInv, PauseInv
  <2>7. SettledTruthfully'
    BY <2>1, SettledFrame DEF Inv
  <2> QED BY <2>4, <2>5, <2>6, <2>7 DEF Inv
<1> QED BY <1>1, <1>2, <1>3 DEF Request

(* The operator's abort keeps the invariant: the plan it finds prepared is *)
(* held by nobody.                                                         *)
LEMMA InvAbort ==
  ASSUME TypeOK, Inv, NEW p \in Plans, AbortPlan(p)
  PROVE  Inv'
<1>1. UNCHANGED <<request, job, op, switch, pausedSince>>
  BY DEF AbortPlan
<1>2. /\ \A q \in Plans \ {p} : plan'[q] = plan[q]
      /\ plan[p].status = "prepared" /\ plan'[p].status = "aborted"
      /\ plan'[p].active = FALSE
  BY DEF AbortPlan, TypeOK, PlanRow
<1>3. aborted' = aborted \cup {p} /\ (intent' = "executed" => intent = "executed")
  BY DEF AbortPlan
<1>4. JobInv' /\ ExclusiveClaim'
  BY <1>1, <1>2, JobsUndisturbed
<1>5. PlanInv'
  BY <1>1, <1>2, <1>3 DEF Inv, PlanInv, Live, Terminal
<1>6. AbortBeatsDispatch'
  BY <1>1, <1>2, <1>3 DEF Inv, AbortBeatsDispatch, ExclusiveClaim, Holding
<1>7. OpInv' /\ PauseInv' /\ PauseBeatsDispatch'
  BY <1>1 DEF Inv, OpInv, PauseInv, PauseBeatsDispatch
<1>8. SettledTruthfully'
  BY <1>1, <1>2, <1>3 DEF Inv, SettledTruthfully, HasOutcome
<1> QED BY <1>4, <1>5, <1>6, <1>7, <1>8 DEF Inv

(* The switches, the cancel and the re-evaluation keep the invariant.      *)
LEMMA InvEnvironment ==
  ASSUME TypeOK, Inv, Environment
  PROVE  Inv'
<1>1. /\ UNCHANGED <<plan, request, job, op, aborted>>
      /\ intent' = "executed" => intent = "executed"
      /\ \/ pausedSince' = pausedSince /\ switch' = switch
         \/ pausedSince' = {}
         \/ pausedSince' = pausedSince /\ switch'.paused
         \/ pausedSince' = pausedSince /\ switch'.paused = switch.paused
  BY DEF Environment, CheckCancellable, DoCancel, Pause, Resume, Supersede,
         FlipSwitch, TypeOK
<1>2. JobInv' /\ ExclusiveClaim'
  BY <1>1, JobsUndisturbed
<1>3. PlanInv' /\ OpInv' /\ PauseInv' /\ AbortBeatsDispatch'
      /\ PauseBeatsDispatch'
  BY <1>1 DEF Inv, PlanInv, Live, OpInv, PauseInv, AbortBeatsDispatch,
              PauseBeatsDispatch, Holding
<1>4. SettledTruthfully'
  BY <1>1, SettledFrame DEF Inv
<1> QED BY <1>2, <1>3, <1>4 DEF Inv

(* What an adapter or chain step does to the request it serves: it stays   *)
(* sent, for the same plan, what landed stays as it landed, and it reports *)
(* the outcome that happened.                                              *)
LEMMA AdapterRow ==
  ASSUME TypeOK, Inv, NEW o \in Ops, Adapter(o) \/ Land(o)
  PROVE  /\ \A n \in Ops \ {o} : op'[n] = op[n]
         /\ op[o].pc # "unsent" /\ op'[o].pc # "unsent"
         /\ op'[o].plan = op[o].plan
         /\ op[o].chain \in {"success", "failure"} => op'[o].chain = op[o].chain
         /\ op'[o].pc \in {"received", "built"} => op'[o].chain = "none"
         /\ op'[o].pc = "confirmed" => op'[o].chain = "success"
         /\ op'[o].pc = "reverted" => op'[o].chain = "failure"
<1>1. op[o] \in OpRow
  BY DEF TypeOK
<1>2. /\ op[o].pc \in {"unsent", "received", "built"} => op[o].chain = "none"
      /\ op[o].pc = "confirmed" => op[o].chain = "success"
      /\ op[o].pc = "reverted" => op[o].chain = "failure"
  BY DEF Inv, OpInv
<1>4. DOMAIN op[o] = {"pc", "plan", "nonce", "chain", "reply"}
  BY <1>1 DEF OpRow
<1>5. CASE RejectDispatch(o) \/ BuildUserOp(o)
  <2>1. op[o].pc = "received" /\ op[o].chain = "none"
    BY <1>2, <1>5 DEF RejectDispatch, BuildUserOp
  <2>2. /\ op'[o].pc \in {"done", "built", "aborted"}
        /\ op'[o].plan = op[o].plan /\ op'[o].chain = op[o].chain
        /\ \A n \in Ops \ {o} : op'[n] = op[n]
    <3>1. CASE RejectDispatch(o)
      BY <1>4, <3>1 DEF RejectDispatch, AdapterStep, TypeOK
    <3>2. CASE AdapterStep(o, [op[o] EXCEPT !.pc = "built", !.nonce = Landed])
      BY <1>4, <3>2 DEF AdapterStep, TypeOK
    <3>3. CASE AdapterStep(o, [op[o] EXCEPT !.pc = "aborted"])
      BY <1>4, <3>3 DEF AdapterStep, TypeOK
    <3> QED BY <1>5, <3>1, <3>2, <3>3 DEF BuildUserOp
  <2> QED BY <2>1, <2>2
<1>6. CASE SendUserOp(o)
  <2>1. op[o].pc = "built" /\ op[o].chain = "none"
    BY <1>2, <1>6 DEF SendUserOp
  <2>2. /\ op'[o].pc \in {"broadcast", "aborted"}
        /\ op'[o].plan = op[o].plan
        /\ \A n \in Ops \ {o} : op'[n] = op[n]
    <3>1. CASE AdapterStep(o, [op[o] EXCEPT !.pc = "broadcast",
                                            !.chain = "mempool"])
      BY <1>4, <3>1 DEF AdapterStep, TypeOK
    <3>2. CASE AdapterStep(o, [op[o] EXCEPT !.pc = "aborted"])
      BY <1>4, <3>2 DEF AdapterStep, TypeOK
    <3>3. CASE AdapterStep(o, [op[o] EXCEPT !.pc = "aborted",
                                            !.chain = "mempool"])
      BY <1>4, <3>3 DEF AdapterStep, TypeOK
    <3> QED BY <1>6, <3>1, <3>2, <3>3 DEF SendUserOp
  <2> QED BY <2>1, <2>2
<1>7. CASE AwaitReceipt(o)
  BY <1>1, <1>2, <1>7 DEF AwaitReceipt, AdapterStep, OpRow, TypeOK
<1>8. CASE Land(o)
  BY <1>1, <1>2, <1>8 DEF Land, AdapterStep, OpRow, TypeOK
<1>9. CASE DeliverCallback(o) \/ LoseCallback(o)
  <2>1. op[o].pc \in {"broadcast", "confirmed", "reverted", "aborted"}
    BY <1>9 DEF DeliverCallback, LoseCallback, Kinds
  <2>2. /\ op'[o].pc \in {"done", "confirming"}
        /\ op'[o].plan = op[o].plan /\ op'[o].chain = op[o].chain
        /\ \A n \in Ops \ {o} : op'[n] = op[n]
    <3>1. CASE AdapterStep(o, [op[o] EXCEPT !.pc = "confirming"])
      BY <1>4, <3>1 DEF AdapterStep, TypeOK
    <3>2. CASE AdapterStep(o, [op[o] EXCEPT !.pc = "done", !.reply = "5xx"])
      BY <1>4, <3>2 DEF AdapterStep, TypeOK
    <3>3. CASE AdapterStep(o, [op[o] EXCEPT !.pc = "done", !.reply = "2xx"])
      BY <1>4, <3>3 DEF AdapterStep, TypeOK
    <3> QED BY <1>9, <3>1, <3>2, <3>3 DEF DeliverCallback, LoseCallback
  <2> QED BY <2>1, <2>2
<1> QED BY <1>5, <1>6, <1>7, <1>8, <1>9 DEF Adapter

(* What landed before the step has landed after it. *)
LEMMA OutcomesStay ==
  ASSUME TypeOK, Inv, NEW o \in Ops, Adapter(o) \/ Land(o), NEW p \in Plans
  PROVE  /\ HasOutcome(p, "success") => HasOutcome(p, "success")'
         /\ HasOutcome(p, "failure") => HasOutcome(p, "failure")'
BY AdapterRow DEF HasOutcome

(* What a callback that is applied writes. *)
LEMMA CallbackRow ==
  ASSUME TypeOK, NEW kind \in Kinds, NEW p \in Plans,
         ApplyExecutionCallback(kind, p)
  PROVE  \/ UNCHANGED <<plan, intent>>
         \/ /\ \A q \in Plans \ {p} : plan'[q] = plan[q]
            /\ plan[p].status \notin Terminal \cup {"none"}
            /\ plan'[p].status = IF kind = "broadcast" THEN "broadcasting"
                                                       ELSE kind
            /\ kind = "broadcast" => plan'[p].active = plan[p].active
            /\ kind # "broadcast" => plan'[p].active = FALSE
            /\ intent' = "executed" => kind = "confirmed" \/ intent = "executed"
<1>1. plan[p] \in PlanRow
  BY DEF TypeOK
<1>2. CASE /\ plan[p].status \notin Terminal
           /\ plan[p].status \in AllowedPriorStates(kind)
           /\ plan' = [plan EXCEPT ![p].status = StatusFor(kind),
                                   ![p].active = @ /\ kind = "broadcast"]
           /\ intent' = IntentFor(kind, intent)
  <2>1. plan[p].status # "none"
    BY <1>2 DEF AllowedPriorStates, Kinds
  <2>2. intent' = "executed" => kind = "confirmed" \/ intent = "executed"
    BY <1>2 DEF IntentFor, Kinds
  <2>3. plan'[p].active = (plan[p].active /\ kind = "broadcast")
    BY <1>2 DEF TypeOK
  <2>4. plan[p].active \in BOOLEAN
    BY <1>1 DEF PlanRow
  <2>5. /\ \A q \in Plans \ {p} : plan'[q] = plan[q]
        /\ plan'[p].status = StatusFor(kind)
    BY <1>1, <1>2 DEF TypeOK, PlanRow
  <2> QED BY <1>2, <2>1, <2>2, <2>3, <2>4, <2>5 DEF StatusFor
<1> QED BY <1>2 DEF ApplyExecutionCallback

(* The adapter, its callbacks and the chain keep the invariant.            *)
LEMMA InvAdapter ==
  ASSUME TypeOK, Inv, NEW o \in Ops, Adapter(o) \/ Land(o)
  PROVE  Inv'
<1> DEFINE p == op[o].plan
<1>1. UNCHANGED <<request, job, switch, aborted, pausedSince>>
  BY DEF Adapter, RejectDispatch, BuildUserOp, SendUserOp, AwaitReceipt,
         DeliverCallback, LoseCallback, Land, AdapterStep
<1>2. OpInv'
  BY AdapterRow DEF Inv, OpInv
<1>3. PauseInv' /\ PauseBeatsDispatch' /\ AbortBeatsDispatch'
  BY <1>1 DEF Inv, PauseInv, PauseBeatsDispatch, AbortBeatsDispatch, Holding
<1>4. p \in Plans
  BY AdapterRow DEF Inv, OpInv
<1>5. \A n \in Ops : op[n].pc = "unsent" => op'[n].pc = "unsent"
  BY AdapterRow
<1>6. CASE UNCHANGED <<plan, intent>>
  <2>1. JobInv' /\ ExclusiveClaim'
    BY <1>1, <1>5, <1>6, JobsUndisturbed
  <2>2. PlanInv'
    BY <1>1, <1>6 DEF Inv, PlanInv, Live
  <2>3. SettledTruthfully'
    BY <1>6, OutcomesStay DEF Inv, SettledTruthfully
  <2> QED BY <1>2, <1>3, <2>1, <2>2, <2>3 DEF Inv
<1>7. ASSUME NEW kind \in Kinds, op[o].pc = kind,
             ApplyExecutionCallback(kind, p), ~UNCHANGED <<plan, intent>>
      PROVE  Inv'
  <2>1. /\ \A q \in Plans \ {p} : plan'[q] = plan[q]
        /\ plan[p].status \notin Terminal \cup {"none"}
        /\ plan'[p].status = IF kind = "broadcast" THEN "broadcasting" ELSE kind
        /\ kind = "broadcast" => plan'[p].active = plan[p].active
        /\ kind # "broadcast" => plan'[p].active = FALSE
        /\ intent' = "executed" => kind = "confirmed" \/ intent = "executed"
    BY <1>4, <1>7, CallbackRow
  <2>2. plan'[p].status \in {"broadcasting"} \cup Terminal
    BY <2>1 DEF Kinds, Terminal
  <2>3. JobInv' /\ ExclusiveClaim'
    BY <1>1, <1>4, <1>5, <2>1, <2>2, JobsUndisturbed DEF Terminal
  <2>4. PlanInv'
    <3>1. kind # "broadcast" => plan'[p].status \in Terminal
      BY <2>1 DEF Kinds, Terminal
    <3> QED BY <1>1, <1>4, <2>1, <2>2, <3>1 DEF Inv, PlanInv, Live, Terminal
  <2>5. SettledTruthfully'
    <3>1. kind = "confirmed" => HasOutcome(p, "success")
      BY <1>7 DEF HasOutcome, Inv, OpInv
    <3>2. kind = "reverted" => HasOutcome(p, "failure")
      BY <1>7 DEF HasOutcome, Inv, OpInv
    <3>3. \A q \in Plans :
            /\ plan'[q].status = "confirmed" => HasOutcome(q, "success")
            /\ plan'[q].status = "reverted" => HasOutcome(q, "failure")
      BY <1>4, <2>1, <3>1, <3>2 DEF Inv, SettledTruthfully, Kinds
    <3>4. intent' = "executed" => \E q \in Plans : HasOutcome(q, "success")
      BY <1>4, <2>1, <3>1 DEF Inv, SettledTruthfully
    <3> QED BY <3>3, <3>4, OutcomesStay DEF SettledTruthfully
  <2> QED BY <1>2, <1>3, <2>3, <2>4, <2>5 DEF Inv
<1>8. \/ UNCHANGED <<plan, intent>>
      \/ op[o].pc \in Kinds /\ ApplyExecutionCallback(op[o].pc, p)
  BY DEF Adapter, RejectDispatch, BuildUserOp, SendUserOp, AwaitReceipt,
         DeliverCallback, LoseCallback, Land
<1> QED BY <1>6, <1>7, <1>8

(* The initial state satisfies the invariant. *)
LEMMA InvInit == Init => TypeOK /\ Inv
<1> SUFFICES ASSUME Init PROVE TypeOK /\ Inv
  OBVIOUS
<1>1. TypeOK
  <2>1. [status |-> "none", active |-> FALSE] \in PlanRow
    BY DEF PlanRow, PlanStatus
  <2>2. [pc |-> "none", attempt |-> 0, target |-> NoPlan, seen |-> "decided"]
          \in JobRow
    BY BoundsAssumption DEF JobRow, JobPc, IntentState
  <2>3. [pc |-> "unsent", plan |-> NoPlan, nonce |-> {}, chain |-> "none",
         reply |-> "none"] \in OpRow
    BY DEF OpRow, OpPc, ChainState, Replies
  <2>4. [changes |-> MaxChanges, failures |-> MaxFailures]
          \in [changes : 0..MaxChanges, failures : 0..MaxFailures]
    BY BoundsAssumption
  <2>5. plan \in [Plans -> PlanRow] /\ job \in [Plans -> JobRow]
        /\ op \in [Ops -> OpRow]
    BY <2>1, <2>2, <2>3 DEF Init
  <2> QED BY <2>4, <2>5 DEF Init, TypeOK, IntentState
<1>2. JobInv
  <2>1. \A j \in Plans, a \in Attempts : <<j, a>> \in Ops
    BY DEF Ops
  <2> QED BY <2>1 DEF Init, JobInv, JobSound, Running, Carrying, Holding
<1>3. PlanInv /\ OpInv /\ PauseInv
  BY DEF Init, PlanInv, Live, OpInv, PauseInv
<1>4. /\ ExclusiveClaim /\ AbortBeatsDispatch /\ PauseBeatsDispatch
      /\ SettledTruthfully
  BY DEF Init, ExclusiveClaim, AbortBeatsDispatch, PauseBeatsDispatch, Holding,
         SettledTruthfully
<1> QED BY <1>1, <1>2, <1>3, <1>4 DEF Inv

(* Every step keeps the types and the invariant. *)
LEMMA InvNext == TypeOK /\ Inv /\ [Next]_vars => TypeOK' /\ Inv'
<1> SUFFICES ASSUME TypeOK, Inv, [Next]_vars PROVE TypeOK' /\ Inv'
  OBVIOUS
<1>1. CASE UNCHANGED vars
  BY <1>1 DEF vars, TypeOK, Inv, JobInv, JobSound, Running, Carrying, Holding,
     PlanInv, Live, OpInv, PauseInv, ExclusiveClaim, AbortBeatsDispatch,
     PauseBeatsDispatch, SettledTruthfully, HasOutcome
<1>2. ASSUME NEW p \in Plans,
             Request(p) \/ Worker(p) \/ WorkerFails(p) \/ AbortPlan(p)
      PROVE  TypeOK' /\ Inv'
  <2>1. CASE Request(p) \/ AbortPlan(p)
    BY <2>1, TypeRequest, InvRequest, InvAbort
  <2>2. CASE Worker(p) \/ WorkerFails(p)
    <3>1. TypeOK'
      BY <2>2, TypeWorker DEF Inv
    <3>2. Inv'
      BY <2>2, InvWorker, InvClaim, InvDispatch, InvRevert, InvMarkAborted
         DEF Worker
    <3> QED BY <3>1, <3>2
  <2> QED BY <1>2, <2>1, <2>2
<1>3. ASSUME NEW o \in Ops, Adapter(o) \/ Land(o)
      PROVE  TypeOK' /\ Inv'
  BY <1>3, TypeAdapter, InvAdapter
<1>4. CASE Environment
  BY <1>4, TypeEnvironment, InvEnvironment
<1> QED BY <1>1, <1>2, <1>3, <1>4 DEF Next

(* Every reachable state is well typed and satisfies the inductive         *)
(* invariant.  With it: whatever the callbacks, retries, snoozes and       *)
(* crashes, the rows hold a status of the source's vocabulary and the      *)
(* attempt number stays within Oban's max_attempts.                        *)
THEOREM TypeCorrect == Spec => []TypeOK
BY InvInit, InvNext, PTL DEF Spec

(* The inductive invariant itself: what each job holds agrees with the rows *)
(* and with the callbacks in flight, which is what rules out a second claim, *)
(* an abort that loses and a pause that is overlooked.                     *)
THEOREM Invariance == Spec => []Inv
BY InvInit, InvNext, PTL DEF Spec

(* Two dispatchers never hold one plan (decisions.ex, the claim), for any  *)
(* number of plans, jobs, attempts and failures.                           *)
THEOREM OneDispatcher == Spec => []ExclusiveClaim
<1>1. Inv => ExclusiveClaim
  BY DEF Inv
<1> QED BY Invariance, <1>1, PTL

(* An operator abort that succeeded leaves no worker with the plan.        *)
THEOREM AbortWins == Spec => []AbortBeatsDispatch
<1>1. Inv => AbortBeatsDispatch
  BY DEF Inv
<1> QED BY Invariance, <1>1, PTL

(* A pause in force since before the claim stops the adapter call.         *)
THEOREM PauseWins == Spec => []PauseBeatsDispatch
<1>1. Inv => PauseBeatsDispatch
  BY DEF Inv
<1> QED BY Invariance, <1>1, PTL

(* A decision never has two plans that are not over.                       *)
THEOREM AtMostOneLive == Spec => []OneLivePlan
<1>1. Inv => OneLivePlan
  BY DEF Inv, PlanInv, OneLivePlan
<1> QED BY Invariance, <1>1, PTL

(* Confirmed, reverted and executed are said only of what the chain did.   *)
THEOREM Truthful == Spec => []SettledTruthfully
<1>1. Inv => SettledTruthfully
  BY DEF Inv
<1> QED BY Invariance, <1>1, PTL

-----------------------------------------------------------------------------
(* What one step does to the gate of a plan.                               *)

(* A step of a worker other than the claim, the revert and the abort       *)
(* writes no plan row.                                                     *)
LEMMA QuietWorker ==
  ASSUME NEW j \in Plans,
         \/ LoadEnvelope(j) \/ LoadActivePlan(j)
         \/ VerifyDelegation(j) \/ VerifyNotPaused(j) \/ VerifyEligible(j)
         \/ RecheckPause(j) \/ RefuseLocally(j) \/ Dispatch(j) \/ Receive(j)
         \/ ProgressAfterDispatch(j) \/ WorkerFails(j)
  PROVE  UNCHANGED <<plan, aborted>>
BY DEF LoadEnvelope, LoadActivePlan, VerifyDelegation, VerifyNotPaused,
       VerifyEligible, Gate, RecheckPause, RefuseLocally, Dispatch, Receive,
       ReceiveAccepted, ReceiveRejected, ReceiveUnavailable,
       ProgressAfterDispatch, WorkerFails

(* The adapter and the chain leave the plans alone or report on one that   *)
(* was live.                                                               *)
LEMMA AdapterPlan ==
  ASSUME TypeOK, Inv, NEW o \in Ops, Adapter(o) \/ Land(o)
  PROVE  /\ UNCHANGED <<job, aborted>>
         /\ \/ UNCHANGED plan
            \/ \E p \in Plans :
                 /\ \A q \in Plans \ {p} : plan'[q] = plan[q]
                 /\ plan[p].status \notin Terminal \cup {"none"}
                 /\ plan'[p].status \in {"broadcasting"} \cup Terminal
<1> DEFINE p == op[o].plan
<1>1. UNCHANGED <<job, aborted>>
  BY DEF Adapter, RejectDispatch, BuildUserOp, SendUserOp, AwaitReceipt,
         DeliverCallback, LoseCallback, Land, AdapterStep
<1>2. p \in Plans
  BY AdapterRow DEF Inv, OpInv
<1>3. \/ UNCHANGED <<plan, intent>>
      \/ op[o].pc \in Kinds /\ ApplyExecutionCallback(op[o].pc, p)
  BY DEF Adapter, RejectDispatch, BuildUserOp, SendUserOp, AwaitReceipt,
         DeliverCallback, LoseCallback, Land
<1>4. ASSUME NEW kind \in Kinds, ApplyExecutionCallback(kind, p)
      PROVE  \/ UNCHANGED plan
             \/ /\ \A q \in Plans \ {p} : plan'[q] = plan[q]
                /\ plan[p].status \notin Terminal \cup {"none"}
                /\ plan'[p].status \in {"broadcasting"} \cup Terminal
  BY <1>2, <1>4, CallbackRow DEF Kinds, Terminal
<1> QED BY <1>1, <1>2, <1>3, <1>4

(* A finished plan keeps its outcome, whatever runs late (decisions.ex,    *)
(* the revert's and the callbacks' guards), but for its worker's abort.    *)
THEOREM Finality == Spec => TerminalStaysTerminal
<1> DEFINE Final == \A p \in Plans :
               plan[p].status \in Terminal =>
                 plan'[p].status \in {plan[p].status, "aborted"}
<1>1. TypeOK /\ Inv /\ [Next]_vars => Final
  <2> SUFFICES ASSUME TypeOK, Inv, [Next]_vars, NEW p \in Plans,
                      plan[p].status \in Terminal
               PROVE  plan'[p].status \in {plan[p].status, "aborted"}
    OBVIOUS
  <2>1. CASE UNCHANGED plan
    BY <2>1
  <2>2. ASSUME NEW q \in Plans, InsertPlan(q)
        PROVE  plan'[p].status \in {plan[p].status, "aborted"}
    <3>1. plan[q].status = "none"
      BY <2>2 DEF InsertPlan, Inv, PlanInv
    <3>2. p # q
      BY <3>1 DEF Terminal
    <3> QED BY <2>2, <3>2 DEF InsertPlan, TypeOK
  <2>3. ASSUME NEW q \in Plans, AbortPlan(q)
        PROVE  plan'[p].status \in {plan[p].status, "aborted"}
    <3>1. p # q
      BY <2>3 DEF AbortPlan, Terminal
    <3> QED BY <2>3, <3>1 DEF AbortPlan, TypeOK
  <2>4. ASSUME NEW j \in Plans,
               ClaimPlanForDispatch(j) \/ RevertClaim(j) \/ MarkPlanAborted(j)
        PROVE  plan'[p].status \in {plan[p].status, "aborted"}
    <3> DEFINE t == job[j].target
    <3>1. t \in Plans
      BY <2>4 DEF ClaimPlanForDispatch, RevertClaim, MarkPlanAborted, Inv,
                  JobInv, JobSound, Carrying, Holding
    <3>2. CASE p # t
      BY <2>4, <3>1, <3>2 DEF ClaimPlanForDispatch, RevertClaim,
                              MarkPlanAborted, TypeOK
    <3>3. CASE p = t
      <4>1. plan[p].status \notin {"prepared", "signing"}
        BY DEF Terminal
      <4>2. plan[p] \in PlanRow
        BY DEF TypeOK
      <4>3. CASE ClaimPlanForDispatch(j)
        BY <3>3, <4>1, <4>3 DEF ClaimPlanForDispatch
      <4>4. CASE RevertClaim(j)
        BY <3>1, <3>3, <4>1, <4>2, <4>4 DEF RevertClaim, TypeOK, PlanRow
      <4>5. CASE MarkPlanAborted(j)
        BY <3>1, <3>3, <4>2, <4>5 DEF MarkPlanAborted, TypeOK, PlanRow, Terminal
      <4> QED BY <2>4, <4>3, <4>4, <4>5
    <3> QED BY <3>2, <3>3
  <2>5. ASSUME NEW o \in Ops, Adapter(o) \/ Land(o)
        PROVE  plan'[p].status \in {plan[p].status, "aborted"}
    BY <2>5, AdapterPlan
  <2>6. CASE Environment
    BY <2>1, <2>6 DEF Environment, CheckCancellable, DoCancel, Pause, Resume,
                      Supersede, FlipSwitch
  <2>7. ASSUME NEW q \in Plans, GateRequest(q) \/ EnqueueExecution(q)
        PROVE  plan'[p].status \in {plan[p].status, "aborted"}
    BY <2>1, <2>7 DEF GateRequest, EnqueueExecution
  <2> QED BY <2>1, <2>2, <2>3, <2>4, <2>5, <2>6, <2>7, QuietWorker
          DEF Next, vars, Request, Worker
<1> QED BY <1>1, TypeCorrect, Invariance, PTL DEF Spec, TerminalStaysTerminal

-----------------------------------------------------------------------------
(* PlanExecution implements DispatchLicence.                               *)

(* A step that moves no plan through the gate and lets no worker take or   *)
(* leave one is a stutter of the licence protocol.                         *)
LEMMA LicenceStutter ==
  ASSUME \A p \in Plans : GateOf(p)' = GateOf(p),
         \A p \in Plans : Holders(p)' = Holders(p),
         UNCHANGED aborted
  PROVE  UNCHANGED Licence!licenceVars
BY DEF Licence!licenceVars

(* The holder of a plan is alone. *)
LEMMA SoleHolder ==
  ASSUME Inv, NEW j \in Plans, Holding(j)
  PROVE  job[j].target \in Plans /\ Holders(job[j].target) = {j}
BY DEF Inv, JobInv, JobSound, Carrying, ExclusiveClaim, Holders

(* Worker j alone changes; who holds what is otherwise as before. *)
LEMMA HoldersStep ==
  ASSUME Inv, NEW j \in Plans, \A k \in Plans \ {j} : job'[k] = job[k],
         NEW p \in Plans
  PROVE  Holders(p)' = (Holders(p) \ {j}) \cup
           (IF Holding(j)' /\ job'[j].target = p THEN {j} ELSE {})
BY DEF Holders, Holding

(* A worker that keeps its plan, or had none and takes none, leaves the    *)
(* licences alone; one that lets go of its plan, written by nobody, drops  *)
(* its licence.                                                            *)
LEMMA LicenceKeepOrDrop ==
  ASSUME TypeOK, Inv, NEW j \in Plans, UNCHANGED <<plan, aborted>>,
         \A k \in Plans \ {j} : job'[k] = job[k],
         Holding(j)' => Holding(j) /\ job'[j].target = job[j].target
  PROVE  UNCHANGED Licence!licenceVars \/ Licence!LicenceNext
<1>1. \A p \in Plans : GateOf(p)' = GateOf(p)
  BY DEF GateOf
<1>2. CASE Holding(j)' <=> Holding(j)
  <2>1. \A p \in Plans : Holders(p)' = Holders(p)
    BY <1>2 DEF Holders, Holding
  <2> QED BY <1>1, <2>1, LicenceStutter
<1>3. CASE Holding(j) /\ ~Holding(j)'
  <2>1. PICK t \in Plans : t = job[j].target /\ Holders(t) = {j}
    BY <1>3, SoleHolder
  <2>2. Holders(t)' = {} /\ \A p \in Plans \ {t} : Holders(p)' = Holders(p)
    BY <1>3, <2>1, HoldersStep DEF Holders
  <2>3. Licence!Drop(t, j)
    BY <1>1, <2>1, <2>2 DEF Licence!Drop
  <2> QED BY <2>1, <2>3 DEF Licence!LicenceNext
<1> QED BY <1>2, <1>3

(* A plan that leaves the dispatch for good closes; its holder, if any,    *)
(* keeps the licence until the worker notices.                             *)
LEMMA LicenceClose ==
  ASSUME TypeOK, Inv, NEW p \in Plans, UNCHANGED aborted,
         \A q \in Plans \ {p} : plan'[q] = plan[q],
         plan[p].status # "none",
         plan'[p].status \in {"broadcasting"} \cup Terminal,
         \A q \in Plans : Holders(q)' = Holders(q)
  PROVE  Licence!LicenceNext
<1>1. GateOf(p) # "none" /\ GateOf(p)' = "closed"
  BY DEF GateOf, Terminal
<1>2. \A q \in Plans \ {p} : GateOf(q)' = GateOf(q)
  BY DEF GateOf
<1>3. PICK keep \in SUBSET Plans : keep = Holders(p)
  BY DEF Holders
<1>4. Licence!Close(p, keep)
  BY <1>1, <1>2, <1>3 DEF Licence!Close
<1> QED BY <1>4 DEF Licence!LicenceNext

(* The insert of a plan opens its gate. *)
LEMMA LicenceOfInsert ==
  ASSUME TypeOK, Inv, NEW p \in Plans, InsertPlan(p)
  PROVE  UNCHANGED Licence!licenceVars \/ Licence!LicenceNext
<1>1. UNCHANGED <<job, aborted>>
  BY DEF InsertPlan
<1>2. \A q \in Plans : Holders(q)' = Holders(q)
  BY <1>1 DEF Holders, Holding
<1>3. CASE UNCHANGED plan
  <2>1. \A q \in Plans : GateOf(q)' = GateOf(q)
    BY <1>3 DEF GateOf
  <2> QED BY <1>1, <1>2, <2>1, LicenceStutter
<1>4. CASE plan' = [plan EXCEPT ![p] = [status |-> "prepared", active |-> TRUE]]
  <2>1. plan[p].status = "none"
    BY DEF InsertPlan, Inv, PlanInv
  <2>2. /\ plan'[p].status = "prepared"
        /\ \A q \in Plans \ {p} : plan'[q] = plan[q]
    BY <1>4 DEF TypeOK
  <2>3. /\ GateOf(p) = "none" /\ GateOf(p)' = "open"
        /\ \A q \in Plans \ {p} : GateOf(q)' = GateOf(q)
    BY <2>1, <2>2 DEF GateOf
  <2>4. Licence!Open(p)
    BY <1>1, <1>2, <2>3 DEF Licence!Open
  <2> QED BY <2>4 DEF Licence!LicenceNext
<1> QED BY <1>3, <1>4 DEF InsertPlan

(* A successful claim is a grant: the plan is open and nobody holds it. *)
LEMMA LicenceOfClaim ==
  ASSUME TypeOK, Inv, NEW j \in Plans, ClaimPlanForDispatch(j)
  PROVE  UNCHANGED Licence!licenceVars \/ Licence!LicenceNext
<1>1. PICK t \in Plans : t = job[j].target
  BY DEF ClaimPlanForDispatch, Inv, JobInv, JobSound, Carrying
<1>2. ~Holding(j)
  BY DEF ClaimPlanForDispatch, Holding
<1>3. CASE plan[t].status # "prepared"
  <2>1. Leave(j, "done") /\ UNCHANGED <<plan, aborted>>
    BY <1>1, <1>3 DEF ClaimPlanForDispatch
  <2>2. /\ \A k \in Plans \ {j} : job'[k] = job[k]
        /\ job'[j].pc = "done"
    BY <2>1, LeaveRow DEF JobPc
  <2> QED BY <2>1, <2>2, LicenceKeepOrDrop DEF Holding
<1>4. CASE plan[t].status = "prepared"
  <2>1. /\ \A k \in Plans \ {j} : job'[k] = job[k]
        /\ job'[j].pc = "claimed" /\ job'[j].target = t
    BY <1>1, <1>4 DEF ClaimPlanForDispatch, TypeOK, JobRow
  <2>2. /\ \A p \in Plans \ {t} : plan'[p] = plan[p]
        /\ plan'[t].status = "signing" /\ UNCHANGED aborted
    BY <1>1, <1>4 DEF ClaimPlanForDispatch, TypeOK, PlanRow
  <2>3. Holders(t) = {}
    BY <1>4 DEF Inv, ExclusiveClaim, Holders
  <2>4. Holding(j)'
    BY <2>1 DEF Holding
  <2>5. /\ Holders(t)' = {j}
        /\ \A p \in Plans \ {t} : Holders(p)' = Holders(p)
    BY <1>2, <2>1, <2>3, <2>4, HoldersStep DEF Holders
  <2>6. /\ GateOf(t) = "open" /\ GateOf(t)' = "taken"
        /\ \A p \in Plans \ {t} : GateOf(p)' = GateOf(p)
    BY <1>4, <2>2 DEF GateOf
  <2>7. Licence!Grant(t, j)
    BY <2>2, <2>3, <2>5, <2>6 DEF Licence!Grant
  <2> QED BY <2>7 DEF Licence!LicenceNext
<1> QED BY <1>3, <1>4

(* The revert of a claim gives the licence back. *)
LEMMA LicenceOfRevert ==
  ASSUME TypeOK, Inv, NEW j \in Plans, RevertClaim(j)
  PROVE  UNCHANGED Licence!licenceVars \/ Licence!LicenceNext
<1>1. Holding(j)
  BY DEF RevertClaim, Holding
<1>2. PICK t \in Plans : t = job[j].target /\ Holders(t) = {j}
  BY <1>1, SoleHolder
<1>3. plan[t].status \notin {"none", "prepared"}
  BY <1>1, <1>2 DEF Inv, JobInv, JobSound, Carrying, ExclusiveClaim
<1>4. /\ \A k \in Plans \ {j} : job'[k] = job[k]
      /\ job'[j].pc = "available"
  BY DEF RevertClaim, TypeOK, JobRow
<1>5. /\ \A p \in Plans \ {t} : plan'[p] = plan[p]
      /\ plan'[t].status = IF plan[t].status = "signing"
                             THEN "prepared" ELSE plan[t].status
      /\ UNCHANGED aborted
  BY <1>2 DEF RevertClaim, TypeOK, PlanRow
<1>6. ~Holding(j)'
  BY <1>4 DEF Holding
<1>7. Holders(t)' = {} /\ \A p \in Plans \ {t} : Holders(p)' = Holders(p)
  BY <1>2, <1>4, <1>6, HoldersStep DEF Holders
<1>8. /\ GateOf(t)' = IF GateOf(t) = "taken" THEN "open" ELSE GateOf(t)
      /\ \A p \in Plans \ {t} : GateOf(p)' = GateOf(p)
  BY <1>3, <1>5 DEF GateOf
<1>9. Licence!GiveBack(t, j)
  BY <1>2, <1>5, <1>7, <1>8 DEF Licence!GiveBack
<1> QED BY <1>9 DEF Licence!LicenceNext

(* The worker's own abort closes the plan. *)
LEMMA LicenceOfMarkAborted ==
  ASSUME TypeOK, Inv, NEW j \in Plans, MarkPlanAborted(j)
  PROVE  UNCHANGED Licence!licenceVars \/ Licence!LicenceNext
<1>1. PICK t \in Plans : t = job[j].target /\ plan[t].status # "none"
  BY DEF MarkPlanAborted, Inv, JobInv, JobSound, Carrying
<1>2. /\ \A p \in Plans \ {t} : plan'[p] = plan[p]
      /\ plan'[t].status = "aborted" /\ UNCHANGED aborted
  BY <1>1 DEF MarkPlanAborted, TypeOK, PlanRow
<1>3. /\ \A k \in Plans \ {j} : job'[k] = job[k]
      /\ job'[j].pc = "done" /\ job[j].pc = "aborting"
  <2>1. Leave(j, "done") /\ job[j].pc = "aborting"
    BY DEF MarkPlanAborted
  <2> QED BY <2>1, LeaveRow DEF JobPc
<1>4. \A p \in Plans : Holders(p)' = Holders(p)
  BY <1>3 DEF Holders, Holding
<1> QED BY <1>1, <1>2, <1>4, LicenceClose DEF Terminal

(* The operator's abort withdraws an open plan. *)
LEMMA LicenceOfAbort ==
  ASSUME TypeOK, Inv, NEW p \in Plans, AbortPlan(p)
  PROVE  Licence!LicenceNext
<1>1. /\ \A q \in Plans \ {p} : plan'[q] = plan[q]
      /\ plan[p].status = "prepared" /\ plan'[p].status = "aborted"
      /\ aborted' = aborted \cup {p} /\ UNCHANGED job
  BY DEF AbortPlan, TypeOK, PlanRow
<1>2. Holders(p) = {} /\ \A q \in Plans : Holders(q)' = Holders(q)
  BY <1>1 DEF Inv, ExclusiveClaim, Holders, Holding
<1>3. /\ GateOf(p) = "open" /\ GateOf(p)' = "closed"
      /\ \A q \in Plans \ {p} : GateOf(q)' = GateOf(q)
  BY <1>1 DEF GateOf
<1>4. Licence!Withdraw(p)
  BY <1>1, <1>2, <1>3 DEF Licence!Withdraw
<1> QED BY <1>4 DEF Licence!LicenceNext

(* The other worker steps keep or drop a licence. *)
LEMMA LicenceOfQuietWorker ==
  ASSUME TypeOK, Inv, NEW j \in Plans,
         \/ LoadEnvelope(j) \/ LoadActivePlan(j)
         \/ VerifyDelegation(j) \/ VerifyNotPaused(j) \/ VerifyEligible(j)
         \/ RecheckPause(j) \/ RefuseLocally(j) \/ Dispatch(j) \/ Receive(j)
         \/ ProgressAfterDispatch(j) \/ WorkerFails(j)
  PROVE  UNCHANGED Licence!licenceVars \/ Licence!LicenceNext
<1>1. UNCHANGED <<plan, aborted>>
  BY QuietWorker
<1>2. ASSUME NEW pc \in JobPc, Goto(j, pc),
             pc \in {"claimed", "cleared", "waiting", "reverting", "snoozing"}
               => Holding(j)
      PROVE  UNCHANGED Licence!licenceVars \/ Licence!LicenceNext
  BY <1>1, <1>2, GotoRow, LicenceKeepOrDrop DEF Holding
<1>3. ASSUME NEW pc \in {"done", "available", "orphaned"}, Leave(j, pc)
      PROVE  UNCHANGED Licence!licenceVars \/ Licence!LicenceNext
  <2>1. pc \in JobPc
    BY DEF JobPc
  <2> QED BY <1>1, <1>3, <2>1, LeaveRow, LicenceKeepOrDrop DEF Holding
<1>4. CASE VerifyDelegation(j) \/ VerifyNotPaused(j) \/ VerifyEligible(j)
  <2>1. PICK pc \in {"delegated", "unpaused", "gated", "aborting"} : Goto(j, pc)
    BY <1>4 DEF VerifyDelegation, VerifyNotPaused, VerifyEligible, Gate
  <2> QED BY <1>2, <2>1 DEF JobPc
<1>5. CASE RecheckPause(j) \/ RefuseLocally(j) \/ Dispatch(j) \/ Receive(j)
  <2>1. PICK pc \in {"snoozing", "cleared", "aborting", "waiting", "accepted",
                     "reverting"} : Goto(j, pc)
    BY <1>5 DEF RecheckPause, RefuseLocally, Dispatch, Receive,
                ReceiveAccepted, ReceiveRejected, ReceiveUnavailable
  <2>2. Holding(j)
    BY <1>5 DEF RecheckPause, RefuseLocally, Dispatch, Receive,
                ReceiveAccepted, ReceiveRejected, ReceiveUnavailable, Holding
  <2> QED BY <1>2, <2>1, <2>2 DEF JobPc
<1>6. CASE ProgressAfterDispatch(j) \/ WorkerFails(j)
  <2>1. PICK pc \in {"done", "available", "orphaned"} : Leave(j, pc)
    BY <1>6 DEF ProgressAfterDispatch, WorkerFails
  <2> QED BY <1>3, <2>1
<1>7. CASE LoadEnvelope(j)
  <2>1. /\ \A k \in Plans \ {j} : job'[k] = job[k]
        /\ job'[j].pc \in {"enveloped", "done"}
    BY <1>7 DEF LoadEnvelope, TypeOK, JobRow
  <2> QED BY <1>1, <2>1, LicenceKeepOrDrop DEF Holding
<1>8. CASE LoadActivePlan(j)
  <2>1. CASE Leave(j, "done")
    BY <1>3, <2>1
  <2>2. ASSUME NEW p \in Plans,
               job' = [job EXCEPT ![j].pc = "loaded", ![j].target = p,
                                  ![j].seen = intent]
        PROVE  UNCHANGED Licence!licenceVars \/ Licence!LicenceNext
    <3>1. /\ \A k \in Plans \ {j} : job'[k] = job[k]
          /\ job'[j].pc = "loaded"
      BY <2>2 DEF TypeOK, JobRow
    <3> QED BY <1>1, <3>1, LicenceKeepOrDrop DEF Holding
  <2> QED BY <1>8, <2>1, <2>2 DEF LoadActivePlan
<1> QED BY <1>4, <1>5, <1>6, <1>7, <1>8

(* The rows, the workers, the adapter's callbacks and the operators        *)
(* implement the licence protocol, for any number of plans and jobs.       *)
THEOREM Implementation == Spec => ImplementsLicence
<1>1. Init => Licence!LicenceInit
  BY DEF Init, Licence!LicenceInit, GateOf, Holders, Holding
<1>2. TypeOK /\ Inv /\ [Next]_vars => [Licence!LicenceNext]_(Licence!licenceVars)
  <2> SUFFICES ASSUME TypeOK, Inv, [Next]_vars
               PROVE  UNCHANGED Licence!licenceVars \/ Licence!LicenceNext
    OBVIOUS
  <2>1. CASE UNCHANGED <<plan, job, aborted>>
    <3>1. \A p \in Plans : GateOf(p)' = GateOf(p) /\ Holders(p)' = Holders(p)
      BY <2>1 DEF GateOf, Holders, Holding
    <3> QED BY <2>1, <3>1, LicenceStutter
  <2>2. ASSUME NEW p \in Plans, Request(p) \/ AbortPlan(p)
        PROVE  UNCHANGED Licence!licenceVars \/ Licence!LicenceNext
    <3>1. CASE GateRequest(p)
      BY <2>1, <3>1 DEF GateRequest
    <3>2. CASE EnqueueExecution(p)
      <4>1. /\ \A k \in Plans \ {p} : job'[k] = job[k]
            /\ job'[p].pc = "available" /\ UNCHANGED <<plan, aborted>>
        BY <3>2 DEF EnqueueExecution, TypeOK, JobRow
      <4> QED BY <4>1, LicenceKeepOrDrop DEF Holding
    <3> QED BY <2>2, <3>1, <3>2, LicenceOfInsert, LicenceOfAbort DEF Request
  <2>3. ASSUME NEW j \in Plans, Worker(j) \/ WorkerFails(j)
        PROVE  UNCHANGED Licence!licenceVars \/ Licence!LicenceNext
    BY <2>3, LicenceOfQuietWorker, LicenceOfClaim, LicenceOfRevert,
       LicenceOfMarkAborted DEF Worker
  <2>4. ASSUME NEW o \in Ops, Adapter(o) \/ Land(o)
        PROVE  UNCHANGED Licence!licenceVars \/ Licence!LicenceNext
    <3>1. UNCHANGED <<job, aborted>>
      BY <2>4, AdapterPlan
    <3>2. \A p \in Plans : Holders(p)' = Holders(p)
      BY <3>1 DEF Holders, Holding
    <3>3. CASE UNCHANGED plan
      BY <2>1, <3>1, <3>3
    <3>4. CASE ~UNCHANGED plan
      <4>1. PICK p \in Plans :
              /\ \A q \in Plans \ {p} : plan'[q] = plan[q]
              /\ plan[p].status \notin Terminal \cup {"none"}
              /\ plan'[p].status \in {"broadcasting"} \cup Terminal
        BY <2>4, <3>4, AdapterPlan
      <4> QED BY <3>1, <3>2, <4>1, LicenceClose
    <3> QED BY <3>3, <3>4
  <2>5. CASE Environment
    BY <2>1, <2>5 DEF Environment, CheckCancellable, DoCancel, Pause, Resume,
                      Supersede, FlipSwitch
  <2> QED BY <2>1, <2>2, <2>3, <2>4, <2>5 DEF Next, vars
<1> QED BY <1>1, <1>2, TypeCorrect, Invariance, PTL
        DEF Spec, ImplementsLicence, Licence!LicenceSpec
=============================================================================
