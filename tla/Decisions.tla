----------------------------- MODULE Decisions ------------------------------
(***************************************************************************)
(* The verdicts on one submitted intent: the evaluation and re-evaluation  *)
(* workers, the operator's approval and rejection, the approval deadline,  *)
(* the agent's cancel, and the dispatch of execution plans that follows an *)
(* auto_exec verdict.  Sources: lib/bank/decisions.ex (evaluate_intent,    *)
(* approve, reject, dispatch_auto_exec, request_manual_execution),         *)
(* lib/bank/runtime/workers/{evaluate,reevaluate}_intent.ex and            *)
(* expire_approval.ex, lib/bank/intents.ex (submit, cancel).               *)
(*                                                                         *)
(* A database transaction is one step.  A worker reads the intent and the  *)
(* current envelope in steps of their own and carries what it read; Ecto   *)
(* writes a field only when it differs from the row that was read, so a    *)
(* state equal to the stale one is not written at all.  What happens to a  *)
(* plan after its worker has claimed it is PlanExecution's subject and a   *)
(* sketch here.                                                            *)
(***************************************************************************)
EXTENDS Naturals, Sequences

CONSTANTS Reevaluations,  \* jobs that evaluate a decided or blocked intent
          Requests,       \* operators' manual execution requests
          MaxEnvelopes,   \* bound: decision envelopes
          MaxPlans,       \* bound: execution plans
          MaxFailures     \* bound: processes that die between two steps

CONSTANT First            \* the EvaluateIntent job of the submission

ASSUME FirstAssumption == First \notin Reevaluations
ASSUME DecisionBounds ==
  MaxEnvelopes \in Nat /\ MaxPlans \in Nat /\ MaxFailures \in Nat

VARIABLES intent,     \* agent_intents row: state, pointer (current_decision_id)
          envelopes,  \* decision_envelopes rows in the order of insertion
          plans,      \* execution_plans rows in the order of insertion
          worker,     \* the evaluation jobs
          request,    \* the manual requests
          cancelling, \* the cancel call: its progress and what it read
          failures    \* bound left

vars == <<intent, envelopes, plans, worker, request, cancelling, failures>>

-----------------------------------------------------------------------------
Workers == {First} \cup Reevaluations

Outcomes == {"auto_exec", "approval_required", "hold", "block"}

IntentState == {"submitted", "decided", "blocked", "executing", "executed",
                "cancelled"}

(* What the process that committed an envelope does next, and the deadline *)
(* job of a pending approval: "enqueue" and "dispatch" are due after the   *)
(* commit, "gated" has passed the dispatch gates, "scheduled" has its job  *)
(* in the queue, "loaded" has the job running with the intent it read.     *)
FollowUp == {"none", "enqueue", "scheduled", "loaded", "dispatch", "gated",
             "lost", "over"}

(* No row: the id an intent or a worker has when there is no envelope.     *)
None == 0

Envelope == [outcome : Outcomes, by : Workers \cup {"operator", "deadline"},
             current : BOOLEAN, supersedes : Nat,
             next : FollowUp, seen : IntentState]

(* "loaded": the worker has read the envelope and found it current.        *)
PlanStatus == {"prepared", "loaded", "claimed", "confirmed", "failed"}

Plan == [decision : Nat, auto : BOOLEAN, status : PlanStatus, active : BOOLEAN]

TypeOK ==
  /\ intent \in [state : IntentState, pointer : 0..MaxEnvelopes]
  /\ envelopes \in Seq(Envelope) /\ Len(envelopes) <= MaxEnvelopes
  /\ plans \in Seq(Plan) /\ Len(plans) <= MaxPlans
  /\ worker \in [Workers -> [pc : {"unqueued", "available", "loaded", "ready",
                                   "over"},
                             seen : IntentState, prior : 0..MaxEnvelopes]]
  /\ request \in [Requests -> [pc : {"idle", "gated", "over"},
                               decision : 0..MaxEnvelopes]]
  /\ cancelling \in [pc : {"idle", "checked", "over"}, seen : IntentState]
  /\ failures \in 0..MaxFailures

Ids == DOMAIN envelopes

(* Intents.submit has inserted the intent; the job is not enqueued yet.     *)
Init ==
  /\ intent = [state |-> "submitted", pointer |-> None]
  /\ envelopes = <<>>
  /\ plans = <<>>
  /\ worker = [w \in Workers |->
                 [pc |-> IF w = First THEN "unqueued" ELSE "available",
                  seen |-> "submitted", prior |-> None]]
  /\ request = [r \in Requests |-> [pc |-> "idle", decision |-> None]]
  /\ cancelling = [pc |-> "idle", seen |-> "submitted"]
  /\ failures = MaxFailures

-----------------------------------------------------------------------------
(* Writing a successor. *)

Currents == {e \in Ids : envelopes[e].current}

FollowUpOf(outcome) ==
  CASE outcome = "approval_required" -> "enqueue"
    [] outcome = "auto_exec" -> "dispatch"
    [] OTHER -> "none"

(* Mutant of StateFor: the outcome is stored as the state. *)
StateForUnmapped(outcome) == outcome

StateFor(outcome) == IF outcome = "block" THEN "blocked" ELSE "decided"

(* A changeset built from a row that was read as `seen`. *)
Written(seen, target) == IF target = seen THEN intent.state ELSE target

(* The demotion is an UPDATE by primary key; the insert succeeds when the  *)
(* partial unique index on intent_id WHERE current has no other row.       *)
IndexAdmits(prior) == Currents \subseteq {prior}

WithSuccessor(prior, outcome, by) ==
  Append([e \in Ids |-> IF e = prior
                          THEN [envelopes[e] EXCEPT !.current = FALSE]
                          ELSE envelopes[e]],
         [outcome |-> outcome, by |-> by, current |-> TRUE,
          supersedes |-> prior, next |-> FollowUpOf(outcome),
          seen |-> "submitted"])

(* The transaction all three writers share: demote the prior envelope,     *)
(* insert its successor, point the intent at it and set its state.         *)
Supersede(prior, seen, outcome, by) ==
  /\ Len(envelopes) < MaxEnvelopes
  /\ envelopes' = WithSuccessor(prior, outcome, by)
  /\ intent' = [state |-> Written(seen, StateFor(outcome)),
                pointer |-> Len(envelopes) + 1]

SetNext(e, next) == envelopes' = [envelopes EXCEPT ![e].next = next]

-----------------------------------------------------------------------------
(* Evaluation. *)

(* Intents.submit: the job is inserted after the intent has committed. *)
EnqueueEvaluation ==
  /\ worker[First].pc = "unqueued"
  /\ worker' = [worker EXCEPT ![First].pc = "available"]
  /\ UNCHANGED <<intent, envelopes, plans, request, cancelling, failures>>

Evaluable(w) == IF w = First THEN {"submitted"} ELSE {"decided", "blocked"}

(* The job reads the intent; it is cancelled when the state is not one it  *)
(* evaluates.                                                              *)
LoadIntent(w) ==
  /\ worker[w].pc = "available"
  /\ worker' = [worker EXCEPT
                  ![w].pc = IF intent.state \in Evaluable(w) THEN "loaded"
                                                             ELSE "over",
                  ![w].seen = intent.state]
  /\ UNCHANGED <<intent, envelopes, plans, request, cancelling, failures>>

(* current_decision_for, after policy, trust and simulation. *)
ReadPrior(w) ==
  /\ worker[w].pc = "loaded"
  /\ \/ /\ Currents = {}
        /\ worker' = [worker EXCEPT ![w].pc = "ready", ![w].prior = None]
     \/ \E e \in Currents :
          worker' = [worker EXCEPT ![w].pc = "ready", ![w].prior = e]
  /\ UNCHANGED <<intent, envelopes, plans, request, cancelling, failures>>

(* Mutant of CommitEvaluation: no unique index backs the supersession. *)
CommitEvaluationUnindexed(w) ==
  /\ worker[w].pc = "ready"
  /\ \E outcome \in Outcomes :
       Supersede(worker[w].prior, worker[w].seen, outcome, w)
  /\ worker' = [worker EXCEPT ![w].pc = "over"]
  /\ UNCHANGED <<plans, request, cancelling, failures>>

(* run_evaluation's Multi.  When somebody else has superseded the prior    *)
(* envelope the insert violates the index, everything is rolled back and   *)
(* Oban runs the job again.                                                *)
CommitEvaluation(w) ==
  /\ worker[w].pc = "ready"
  /\ IF IndexAdmits(worker[w].prior)
       THEN /\ \E outcome \in Outcomes :
                 Supersede(worker[w].prior, worker[w].seen, outcome, w)
            /\ worker' = [worker EXCEPT ![w].pc = "over"]
       ELSE /\ worker' = [worker EXCEPT ![w].pc = "available"]
            /\ UNCHANGED <<intent, envelopes>>
  /\ UNCHANGED <<plans, request, cancelling, failures>>

-----------------------------------------------------------------------------
(* Approval, rejection and the deadline. *)

Approvable(e) ==
  envelopes[e].current /\ envelopes[e].outcome = "approval_required"

(* apply_approval_decision: one transaction that locks the envelope; the   *)
(* intent is read inside it, whatever its state.                           *)
ApplyApprovalDecision(e, outcome) ==
  /\ Approvable(e)
  /\ Supersede(e, intent.state, outcome, "operator")
  /\ UNCHANGED <<plans, worker, request, cancelling, failures>>

(* maybe_enqueue_approval_expiry, after the commit of the evaluation. *)
EnqueueApprovalExpiry(e) ==
  /\ envelopes[e].next = "enqueue"
  /\ SetNext(e, "scheduled")
  /\ UNCHANGED <<intent, plans, worker, request, cancelling, failures>>

(* Mutant of LoadExpiry: only a decided intent is expired. *)
LoadExpiryDecided(e) ==
  /\ envelopes[e].next = "scheduled"
  /\ envelopes' = [envelopes EXCEPT
       ![e].next = IF Approvable(e) /\ intent.state = "decided" THEN "loaded"
                                                               ELSE "over",
       ![e].seen = intent.state]
  /\ UNCHANGED <<intent, plans, worker, request, cancelling, failures>>

(* ExpireApproval, at any moment after it was scheduled, reads the         *)
(* envelope and the intent without a lock.                                 *)
LoadExpiry(e) ==
  /\ envelopes[e].next = "scheduled"
  /\ envelopes' = [envelopes EXCEPT
       ![e].next = IF Approvable(e) THEN "loaded" ELSE "over",
       ![e].seen = intent.state]
  /\ UNCHANGED <<intent, plans, worker, request, cancelling, failures>>

(* Mutant of CommitExpiry: the index does not stop a late deadline. *)
CommitExpiryUnindexed(e) ==
  /\ envelopes[e].next = "loaded"
  /\ Len(envelopes) < MaxEnvelopes
  /\ envelopes' = [WithSuccessor(e, "block", "deadline")
                     EXCEPT ![e].next = "over"]
  /\ intent' = [state |-> Written(envelopes[e].seen, "blocked"),
                pointer |-> Len(envelopes) + 1]
  /\ UNCHANGED <<plans, worker, request, cancelling, failures>>

(* Its Multi: a successor written meanwhile makes the insert violate the   *)
(* index; the job then fails and runs again, to find the envelope          *)
(* superseded.                                                             *)
CommitExpiry(e) ==
  /\ envelopes[e].next = "loaded"
  /\ IF IndexAdmits(e)
       THEN /\ Len(envelopes) < MaxEnvelopes
            /\ envelopes' = [WithSuccessor(e, "block", "deadline")
                               EXCEPT ![e].next = "over"]
            /\ intent' = [state |-> Written(envelopes[e].seen, "blocked"),
                          pointer |-> Len(envelopes) + 1]
       ELSE /\ SetNext(e, "scheduled")
            /\ UNCHANGED intent
  /\ UNCHANGED <<plans, worker, request, cancelling, failures>>

-----------------------------------------------------------------------------
(* Dispatch of an auto_exec envelope. *)

InFlight(i) == plans[i].status \in {"prepared", "loaded", "claimed"}

ActivePlan(e) ==
  \E i \in DOMAIN plans : plans[i].active /\ plans[i].decision = e

Executable(e) == envelopes[e].current /\ envelopes[e].outcome = "auto_exec"

(* Mutant of AutoGate: the automatic path asks no more than the manual one. *)
AutoGatePerDecision(e) ==
  /\ envelopes[e].next = "dispatch"
  /\ \/ Executable(e) /\ ~ActivePlan(e) /\ SetNext(e, "gated")
     \/ SetNext(e, "over")
  /\ UNCHANGED <<intent, plans, worker, request, cancelling, failures>>

(* dispatch_auto_exec: no active plan of the intent under any decision;    *)
(* the envelope executable; the pause, chain and delegation gates may      *)
(* refuse at any time, and a refusal leaves the envelope held.             *)
AutoGate(e) ==
  /\ envelopes[e].next = "dispatch"
  /\ \/ /\ Executable(e)
        /\ \A i \in DOMAIN plans : ~plans[i].active
        /\ SetNext(e, "gated")
     \/ SetNext(e, "over")
  /\ UNCHANGED <<intent, plans, worker, request, cancelling, failures>>

InsertPlan(e, auto) ==
  /\ Len(plans) < MaxPlans
  /\ plans' = Append(plans, [decision |-> e, auto |-> auto,
                             status |-> "prepared", active |-> TRUE])

(* The insert of the plan: an active plan of the same decision makes it    *)
(* raise; a re-evaluation job that dies of it is run again, the first      *)
(* evaluation is then in the wrong state.                                  *)
InsertAutoPlan(e) ==
  /\ envelopes[e].next = "gated"
  /\ SetNext(e, "over")
  /\ IF ActivePlan(e)
       THEN /\ worker' = [w \in Workers |->
                            IF w = envelopes[e].by
                              THEN [worker[w] EXCEPT !.pc = "available"]
                              ELSE worker[w]]
            /\ UNCHANGED plans
       ELSE /\ InsertPlan(e, TRUE)
            /\ UNCHANGED worker
  /\ UNCHANGED <<intent, request, cancelling, failures>>

(* request_manual_execution: the same gates for this decision only; a      *)
(* refused request changes nothing.                                        *)
ManualGate(r, e) ==
  /\ request[r].pc = "idle"
  /\ Executable(e) /\ ~ActivePlan(e)
  /\ request' = [request EXCEPT ![r] = [pc |-> "gated", decision |-> e]]
  /\ UNCHANGED <<intent, envelopes, plans, worker, cancelling, failures>>

InsertManualPlan(r) ==
  /\ request[r].pc = "gated"
  /\ request' = [request EXCEPT ![r].pc = "over"]
  /\ IF ActivePlan(request[r].decision)
       THEN UNCHANGED plans
       ELSE InsertPlan(request[r].decision, FALSE)
  /\ UNCHANGED <<intent, envelopes, worker, cancelling, failures>>

-----------------------------------------------------------------------------
(* What becomes of a plan: a sketch of PlanExecution. *)

SetPlan(i, status, active) ==
  plans' = [plans EXCEPT ![i].status = status, ![i].active = active]

SetState(state) == intent' = [intent EXCEPT !.state = state]

(* Mutant of LoadEnvelope: the job does not ask whether the envelope is    *)
(* still current.                                                          *)
LoadEnvelopeSuperseded(i) ==
  /\ plans[i].status = "prepared"
  /\ SetPlan(i, "loaded", TRUE)
  /\ UNCHANGED <<intent, envelopes, worker, request, cancelling, failures>>

(* RunExecution reads the envelope; a superseded one cancels the job.      *)
LoadEnvelope(i) ==
  /\ plans[i].status = "prepared"
  /\ envelopes[plans[i].decision].current
  /\ SetPlan(i, "loaded", TRUE)
  /\ UNCHANGED <<intent, envelopes, worker, request, cancelling, failures>>

ClaimPlan(i) ==
  /\ plans[i].status = "loaded"
  /\ SetPlan(i, "claimed", TRUE)
  /\ UNCHANGED <<intent, envelopes, worker, request, cancelling, failures>>

ProgressIntent(i) ==
  /\ plans[i].status = "claimed" /\ intent.state = "decided"
  /\ SetState("executing")
  /\ UNCHANGED <<envelopes, plans, worker, request, cancelling, failures>>

ConfirmPlan(i) ==
  /\ plans[i].status = "claimed"
  /\ SetPlan(i, "confirmed", FALSE)
  /\ SetState("executed")
  /\ UNCHANGED <<envelopes, worker, request, cancelling, failures>>

(* An operator's abort, a failure callback, or the worker's own abort,     *)
(* which leaves the plan active and judges the intent on its own copy.     *)
FailPlan(i) ==
  /\ \/ /\ plans[i].status \in {"prepared", "loaded"}
        /\ SetPlan(i, "failed", FALSE)
        /\ SetState(IF intent.state \in {"decided", "executing"}
                      THEN "blocked" ELSE intent.state)
     \/ /\ plans[i].status = "claimed"
        /\ SetPlan(i, "failed", FALSE)
        /\ SetState("blocked")
     \/ /\ plans[i].status \in {"loaded", "claimed"}
        /\ SetPlan(i, "failed", TRUE)
        /\ SetState("blocked") \/ UNCHANGED intent
  /\ UNCHANGED <<envelopes, worker, request, cancelling, failures>>

-----------------------------------------------------------------------------
(* The agent's cancel, and processes that die. *)

(* Intents.cancel reads the intent and checks its state. *)
CheckCancellable ==
  /\ cancelling.pc = "idle"
  /\ intent.state \in {"submitted", "decided"}
  /\ cancelling' = [pc |-> "checked", seen |-> intent.state]
  /\ UNCHANGED <<intent, envelopes, plans, worker, request, failures>>

(* do_cancel writes the state and nothing else. *)
DoCancel ==
  /\ cancelling.pc = "checked"
  /\ cancelling' = [cancelling EXCEPT !.pc = "over"]
  /\ SetState("cancelled")
  /\ UNCHANGED <<envelopes, plans, worker, request, failures>>

Fail == failures > 0 /\ failures' = failures - 1

(* An evaluation job that raises before its commit runs again; a           *)
(* submission that dies before the enqueue never gets a job.               *)
WorkerFails(w) ==
  /\ Fail
  /\ \/ /\ worker[w].pc \in {"loaded", "ready"}
        /\ worker' = [worker EXCEPT ![w].pc = "available"]
     \/ /\ worker[w].pc = "unqueued"
        /\ worker' = [worker EXCEPT ![w].pc = "over"]
  /\ UNCHANGED <<intent, envelopes, plans, request, cancelling>>

(* What follows a commit is lost with the process; the deadline job runs   *)
(* again.                                                                  *)
FollowUpFails(e) ==
  /\ Fail
  /\ \/ /\ envelopes[e].next \in {"enqueue", "dispatch", "gated"}
        /\ SetNext(e, "lost")
     \/ /\ envelopes[e].next = "loaded"
        /\ SetNext(e, "scheduled")
  /\ UNCHANGED <<intent, plans, worker, request, cancelling>>

-----------------------------------------------------------------------------
Evaluation(w) == LoadIntent(w) \/ ReadPrior(w) \/ CommitEvaluation(w)

Expiry(e) == e \in Ids /\ (LoadExpiry(e) \/ CommitExpiry(e))

Operator ==
  \E e \in Ids :
    \/ \E outcome \in {"auto_exec", "block"} : ApplyApprovalDecision(e, outcome)
    \/ \E r \in Requests : ManualGate(r, e)

Execution(i) ==
  \/ LoadEnvelope(i) \/ ClaimPlan(i) \/ ProgressIntent(i) \/ ConfirmPlan(i)
  \/ FailPlan(i)

Next ==
  \/ EnqueueEvaluation
  \/ \E w \in Workers : Evaluation(w) \/ WorkerFails(w)
  \/ \E e \in 1..MaxEnvelopes : Expiry(e)
  \/ \E e \in Ids : \/ EnqueueApprovalExpiry(e) \/ AutoGate(e)
                    \/ InsertAutoPlan(e) \/ FollowUpFails(e)
  \/ Operator
  \/ \E r \in Requests : InsertManualPlan(r)
  \/ \E i \in DOMAIN plans : Execution(i)
  \/ CheckCancellable \/ DoCancel

Spec == Init /\ [][Next]_vars

(* Oban runs the deadline jobs and the evaluation jobs it has, and the     *)
(* process that committed an envelope goes on to enqueue its deadline      *)
(* unless it dies.                                                         *)
Fairness ==
  /\ \A e \in 1..MaxEnvelopes :
       WF_vars(e \in Ids /\ EnqueueApprovalExpiry(e))
  /\ \A e \in 1..MaxEnvelopes : WF_vars(Expiry(e))
  /\ \A w \in Workers : WF_vars(Evaluation(w))

FairSpec == Spec /\ Fairness

-----------------------------------------------------------------------------
(* Safety. *)

(* The verdicts form a chain: every envelope supersedes the one inserted   *)
(* just before it, only the newest is current, and the intent points at    *)
(* it, whichever of the evaluation, approval and deadline transactions     *)
(* raced on stale reads (the index of decision_envelope.ex:117 makes the   *)
(* second successor fail).                                                 *)
ChainSound ==
  /\ \A e \in Ids : /\ envelopes[e].supersedes = e - 1
                    /\ envelopes[e].current <=> e = Len(envelopes)
  /\ intent.pointer = Len(envelopes)

(* Two automatic plans of one intent are never with their workers at the   *)
(* same time: the gate of dispatch_auto_exec and the worker's check that   *)
(* the envelope is current close together what neither closes alone.       *)
NoParallelAuto ==
  \A i, j \in DOMAIN plans :
    /\ plans[i].auto /\ plans[i].status \in {"loaded", "claimed"}
    /\ plans[j].auto /\ plans[j].status \in {"loaded", "claimed"}
    => i = j

(* Refinement: the envelopes are the log of VerdictLog, so an approval,    *)
(* a rejection and a deadline settle a pending verdict at most once and    *)
(* never anything else.                                                    *)
Author(by) == IF by \in Workers THEN "engine" ELSE by

Chain ==
  INSTANCE VerdictLog WITH
    log <- [e \in Ids |-> [outcome |-> envelopes[e].outcome,
                           by |-> Author(envelopes[e].by)]]

(* Every transaction appends one verdict VerdictLog allows, or none.       *)
ImplementsVerdictLog == Chain!LogSpec

(* Liveness: an approval whose deadline job is in the queue does not stay  *)
(* pending, whatever the agent did to the intent and although the job can  *)
(* lose its race or die (expire_approval.ex:61).                           *)
ApprovalSettles ==
  \A e \in 1..MaxEnvelopes :
    (e \in Ids /\ envelopes[e].next = "scheduled")
      ~> (e \in Ids /\ ~envelopes[e].current)

-----------------------------------------------------------------------------
(* What the text of the repository says and the code does not do; each is  *)
(* refuted by a configuration of its own.                                  *)

(* reevaluate_intent.ex:14: "`:cancelled` and `:expired` are terminal".    *)
CancelledIsTerminal ==
  [][intent.state = "cancelled" => intent'.state = "cancelled"]_vars

(* decisions.ex:199: evaluation is not legal in :executing, :executed,     *)
(* :cancelled: no evaluation's verdict is added to such an intent.         *)
EvaluatedOnlyWhenLegal ==
  [][Len(envelopes') > Len(envelopes) /\ envelopes'[Len(envelopes')].by \in Workers
       => intent.state \in {"submitted", "decided", "blocked"}]_vars

(* docs/bank-v0.1-domain-model.md:327: an intent in execution "never       *)
(* silently returns ... to `decided`".                                     *)
NeverBackToDecided ==
  [][intent.state \in {"executing", "executed"} => intent'.state # "decided"]_vars

(* decisions.ex:1583: the auto path "also rejects when any active          *)
(* execution plan exists for the same intent".                             *)
OneActiveAuto ==
  \A i, j \in DOMAIN plans :
    plans[i].auto /\ InFlight(i) /\ plans[j].auto /\ InFlight(j) => i = j

(* runtime.ex:109: the deadline is scheduled ahead "so a crashed worker    *)
(* doesn't let the deadline slip silently": every approval is settled.     *)
DeadlineNeverSlips ==
  \A e \in 1..MaxEnvelopes :
    (e \in Ids /\ envelopes[e].outcome = "approval_required")
      ~> (e \in Ids /\ ~envelopes[e].current)

(* docs/bank-v0.1-runtime-flow-and-api.md:98: for a hold "a hold timer     *)
(* arms"; the hold does not last for ever.                                 *)
HoldReleased ==
  \A e \in 1..MaxEnvelopes :
    (e \in Ids /\ envelopes[e].outcome = "hold")
      ~> (e \in Ids /\ ~envelopes[e].current)
=============================================================================
