--------------------------- MODULE DecisionsProofs ---------------------------
(* Theorems about Decisions for any number of re-evaluations and manual    *)
(* requests, and every bound on envelopes, plans and failures.             *)
EXTENDS Decisions, SequenceTheorems, TLAPS

(* What an evaluation read is no envelope still to be written. *)
ReadInv ==
  \A w \in Workers :
    worker[w].pc = "ready" => worker[w].prior <= Len(envelopes)

(* A deadline is only ever set for an approval. *)
DeadlineInv ==
  \A e \in Ids : envelopes[e].next \in {"enqueue", "scheduled", "loaded"} =>
                   envelopes[e].outcome = "approval_required"

(* A plan belongs to an envelope, and so does a request that passed its    *)
(* gates.                                                                  *)
DecisionInv ==
  /\ \A i \in DOMAIN plans : plans[i].decision \in Ids
  /\ \A r \in Requests :
       request[r].pc = "gated" => request[r].decision \in Ids

(* The unique index on the active plans of one decision. *)
OneActivePerDecision ==
  /\ \A i \in DOMAIN plans : InFlight(i) => plans[i].active
  /\ \A i, j \in DOMAIN plans :
       /\ plans[i].active /\ plans[j].active
       /\ plans[i].decision = plans[j].decision
       => i = j

Running(i) == plans[i].auto /\ plans[i].status \in {"loaded", "claimed"}

(* While the worker of an automatic plan runs it, no later envelope is     *)
(* between its gate and its insert, and none has a plan in flight: the     *)
(* envelope was the newest when the worker read it, and every gate since   *)
(* has seen the plan active.                                               *)
NewestRuns ==
  \A i \in DOMAIN plans : Running(i) =>
    /\ \A e \in Ids : envelopes[e].next = "gated" => e <= plans[i].decision
    /\ \A j \in DOMAIN plans :
         plans[j].auto /\ InFlight(j) => plans[j].decision <= plans[i].decision

VerdictInv == ChainSound /\ ReadInv /\ DeadlineInv

DispatchInv == DecisionInv /\ OneActivePerDecision /\ NewestRuns

Inv == VerdictInv /\ DispatchInv

-----------------------------------------------------------------------------
(* Lemmas about the operators. *)

(* The bounds and the identities of the workers. *)
LEMMA Bounds ==
  /\ MaxEnvelopes \in Nat /\ MaxPlans \in Nat /\ MaxFailures \in Nat
  /\ First \in Workers /\ None = 0
BY DecisionBounds DEF Workers, None

(* Rows of envelopes and of plans are numbered from one. *)
LEMMA RowIds ==
  ASSUME TypeOK
  PROVE  /\ Len(envelopes) \in Nat /\ Ids = 1..Len(envelopes)
         /\ Ids \subseteq 1..MaxEnvelopes
         /\ Len(plans) \in Nat /\ DOMAIN plans = 1..Len(plans)
         /\ \A e \in Ids : envelopes[e] \in Envelope
         /\ \A i \in DOMAIN plans : plans[i] \in Plan
         /\ Currents \subseteq Ids
<1>1. envelopes \in Seq(Envelope) /\ Len(envelopes) <= MaxEnvelopes
  BY DEF TypeOK
<1>2. plans \in Seq(Plan)
  BY DEF TypeOK
<1> QED BY <1>1, <1>2, Bounds, LenProperties, ElementOfSeq DEF Ids, Currents

(* The rows after a supersession: the prior one demoted, one more at the   *)
(* end.                                                                    *)
FollowsIn(s, prior, outcome, by) ==
  /\ s \in Seq(Envelope) /\ Len(s) = Len(envelopes) + 1
  /\ \A e \in Ids :
       /\ s[e].current <=> envelopes[e].current /\ e # prior
       /\ s[e].supersedes = envelopes[e].supersedes
       /\ s[e].outcome = envelopes[e].outcome
       /\ s[e].by = envelopes[e].by
       /\ s[e].next \in {envelopes[e].next, "over"}
  /\ s[Len(envelopes) + 1].current /\ s[Len(envelopes) + 1].supersedes = prior
  /\ s[Len(envelopes) + 1].outcome = outcome
  /\ s[Len(envelopes) + 1].by = by
  /\ s[Len(envelopes) + 1].next = FollowUpOf(outcome)

LEMMA SuccessorRows ==
  ASSUME TypeOK, NEW prior \in Nat, NEW outcome \in Outcomes,
         NEW by \in Workers \cup {"operator", "deadline"}
  PROVE  FollowsIn(WithSuccessor(prior, outcome, by), prior, outcome, by)
<1> DEFINE n == Len(envelopes)
           s == WithSuccessor(prior, outcome, by)
           old(e) == IF e = prior THEN [envelopes[e] EXCEPT !.current = FALSE]
                                  ELSE envelopes[e]
           demoted == [e \in Ids |-> old(e)]
           new == [outcome |-> outcome, by |-> by, current |-> TRUE,
                   supersedes |-> prior, next |-> FollowUpOf(outcome),
                   seen |-> "submitted"]
<1>1. n \in Nat /\ Ids = 1..n /\ \A e \in Ids : envelopes[e] \in Envelope
  BY RowIds
<1>2. \A e \in 1..n :
        /\ old(e) \in Envelope
        /\ old(e).current <=> envelopes[e].current /\ e # prior
        /\ old(e).supersedes = envelopes[e].supersedes
        /\ old(e).outcome = envelopes[e].outcome
        /\ old(e).by = envelopes[e].by
        /\ old(e).next = envelopes[e].next
  BY <1>1 DEF Envelope
<1>3. demoted \in Seq(Envelope) /\ Len(demoted) = n
  <2> HIDE DEF old
  <2>1. demoted \in [1..n -> Envelope]
    BY <1>1, <1>2
  <2> HIDE DEF demoted
  <2> QED BY <1>1, <2>1, SeqDef, LenProperties
<1>4. /\ new \in Envelope /\ new.current /\ new.supersedes = prior
      /\ new.outcome = outcome /\ new.by = by
      /\ new.next = FollowUpOf(outcome)
  BY DEF Envelope, FollowUpOf, FollowUp, IntentState, Outcomes
<1>5. s = Append(demoted, new)
  BY DEF WithSuccessor
<1>6. \A e \in Ids : demoted[e] = old(e)
  OBVIOUS
<1> HIDE DEF demoted, new, old
<1>7. /\ s \in Seq(Envelope)
      /\ Len(s) = n + 1
      /\ \A e \in 1..n : s[e] = demoted[e]
      /\ s[n + 1] = new
  BY <1>1, <1>3, <1>4, <1>5
<1> HIDE DEF s
<1>8. \A e \in Ids :
        /\ s[e].current <=> envelopes[e].current /\ e # prior
        /\ s[e].supersedes = envelopes[e].supersedes
        /\ s[e].outcome = envelopes[e].outcome
        /\ s[e].by = envelopes[e].by
        /\ s[e].next = envelopes[e].next
  BY <1>1, <1>2, <1>6, <1>7
<1> QED BY <1>4, <1>7, <1>8 DEF FollowsIn, s

(* What follows an envelope is noted on its row, and nothing else but what *)
(* a deadline saw.                                                         *)
Noted(e, next) ==
  /\ envelopes' \in Seq(Envelope) /\ Len(envelopes') = Len(envelopes)
  /\ Ids' = Ids
  /\ \A d \in Ids :
       /\ envelopes'[d].current <=> envelopes[d].current
       /\ envelopes'[d].supersedes = envelopes[d].supersedes
       /\ envelopes'[d].outcome = envelopes[d].outcome
       /\ envelopes'[d].by = envelopes[d].by
       /\ envelopes'[d].next = IF d = e THEN next ELSE envelopes[d].next

LEMMA NotedRow ==
  ASSUME TypeOK, NEW e \in Ids, NEW row \in Envelope, NEW next,
         envelopes' = [envelopes EXCEPT ![e] = row],
         row.current <=> envelopes[e].current,
         row.supersedes = envelopes[e].supersedes,
         row.outcome = envelopes[e].outcome,
         row.by = envelopes[e].by, row.next = next
  PROVE  Noted(e, next)
<1>1. envelopes \in Seq(Envelope) /\ e \in 1..Len(envelopes)
  BY RowIds DEF TypeOK
<1>2. /\ envelopes' \in Seq(Envelope) /\ Len(envelopes') = Len(envelopes)
      /\ \A d \in 1..Len(envelopes) :
           envelopes'[d] = IF d = e THEN row ELSE envelopes[d]
  BY <1>1, ExceptSeq
<1>3. Ids' = 1..Len(envelopes')
  BY <1>2, LenProperties DEF Ids
<1> QED BY <1>2, <1>3, RowIds DEF Noted

LEMMA SetNextStep ==
  ASSUME TypeOK, NEW e \in Ids, NEW next \in FollowUp, SetNext(e, next)
  PROVE  Noted(e, next)
<1> DEFINE row == [envelopes[e] EXCEPT !.next = next]
<1>1. /\ row \in Envelope /\ (row.current <=> envelopes[e].current)
      /\ row.supersedes = envelopes[e].supersedes
      /\ row.outcome = envelopes[e].outcome
      /\ row.by = envelopes[e].by /\ row.next = next
  BY RowIds DEF Envelope
<1>2. envelopes' = [envelopes EXCEPT ![e] = row]
  BY DEF SetNext
<1> HIDE DEF row
<1> QED BY <1>1, <1>2, NotedRow

LEMMA LoadExpiryStep ==
  ASSUME TypeOK, NEW e \in Ids, LoadExpiry(e)
  PROVE  \E next \in {"loaded", "over"} : Noted(e, next)
<1> DEFINE next == IF Approvable(e) THEN "loaded" ELSE "over"
           row == [envelopes[e] EXCEPT !.next = next, !.seen = intent.state]
<1>1. next \in FollowUp /\ next \in {"loaded", "over"}
  BY DEF FollowUp
<1>2. intent.state \in IntentState
  BY DEF TypeOK
<1>3. envelopes' = [envelopes EXCEPT ![e] = row]
  <2>1. envelopes \in [1..Len(envelopes) -> Envelope] /\ e \in 1..Len(envelopes)
    BY RowIds, LenProperties DEF TypeOK
  <2> QED BY <2>1 DEF LoadExpiry
<1> HIDE DEF next
<1>4. /\ row \in Envelope /\ (row.current <=> envelopes[e].current)
      /\ row.supersedes = envelopes[e].supersedes
      /\ row.outcome = envelopes[e].outcome
      /\ row.by = envelopes[e].by /\ row.next = next
  BY <1>1, <1>2, RowIds DEF Envelope
<1> HIDE DEF row
<1> QED BY <1>1, <1>3, <1>4, NotedRow

(* The status of one plan changes, and nothing else of the plans.          *)
Marked(i, status, active) ==
  /\ plans' \in Seq(Plan) /\ Len(plans') = Len(plans)
  /\ DOMAIN plans' = DOMAIN plans
  /\ plans'[i].status = status /\ (plans'[i].active <=> active)
  /\ plans'[i].decision = plans[i].decision
  /\ plans'[i].auto <=> plans[i].auto
  /\ \A j \in DOMAIN plans : j # i => plans'[j] = plans[j]

LEMMA SetPlanStep ==
  ASSUME TypeOK, NEW i \in DOMAIN plans, NEW status \in PlanStatus,
         NEW active \in BOOLEAN, SetPlan(i, status, active)
  PROVE  Marked(i, status, active)
<1> DEFINE row == [plans[i] EXCEPT !.status = status, !.active = active]
<1>1. /\ row \in Plan /\ row.status = status /\ (row.active <=> active)
      /\ row.decision = plans[i].decision /\ (row.auto <=> plans[i].auto)
  BY RowIds DEF Plan
<1>2. plans' = [plans EXCEPT ![i] = row]
  <2>1. plans \in [1..Len(plans) -> Plan]
    BY RowIds, LenProperties DEF TypeOK
  <2> QED BY <2>1, RowIds DEF SetPlan
<1>3. plans \in Seq(Plan) /\ i \in 1..Len(plans)
  BY RowIds DEF TypeOK
<1> HIDE DEF row
<1>4. /\ plans' \in Seq(Plan) /\ Len(plans') = Len(plans)
      /\ \A j \in 1..Len(plans) :
           plans'[j] = IF j = i THEN row ELSE plans[j]
  BY <1>1, <1>2, <1>3, ExceptSeq
<1>5. DOMAIN plans' = 1..Len(plans')
  BY <1>4, LenProperties
<1> QED BY <1>1, <1>3, <1>4, <1>5, RowIds DEF Marked

(* A new plan is prepared and active, and the last one.                    *)
Inserted(e, auto) ==
  /\ plans' \in Seq(Plan) /\ Len(plans') = Len(plans) + 1
  /\ Len(plans) < MaxPlans
  /\ DOMAIN plans' = DOMAIN plans \cup {Len(plans) + 1}
  /\ \A i \in DOMAIN plans : plans'[i] = plans[i]
  /\ plans'[Len(plans) + 1] = [decision |-> e, auto |-> auto,
                               status |-> "prepared", active |-> TRUE]

LEMMA InsertPlanStep ==
  ASSUME TypeOK, NEW e \in Nat, NEW auto \in BOOLEAN, InsertPlan(e, auto)
  PROVE  Inserted(e, auto)
<1> DEFINE row == [decision |-> e, auto |-> auto, status |-> "prepared",
                   active |-> TRUE]
<1>1. row \in Plan
  BY DEF Plan, PlanStatus
<1>2. plans' = Append(plans, row) /\ plans \in Seq(Plan) /\ Len(plans) \in Nat
  BY RowIds DEF InsertPlan, TypeOK
<1> HIDE DEF row
<1>3. /\ plans' \in Seq(Plan) /\ Len(plans') = Len(plans) + 1
      /\ \A i \in 1..Len(plans) : plans'[i] = plans[i]
      /\ plans'[Len(plans) + 1] = row
  BY <1>1, <1>2
<1>4. DOMAIN plans' = 1..(Len(plans) + 1)
  BY <1>3, LenProperties
<1> QED BY <1>2, <1>3, <1>4, RowIds DEF row, InsertPlan, Inserted

(* What a supersession does to the rows and the intent. *)
Superseded(prior, outcome, by) ==
  /\ FollowsIn(envelopes', prior, outcome, by)
  /\ Len(envelopes) < MaxEnvelopes /\ Ids' = Ids \cup {Len(envelopes) + 1}
  /\ intent' \in [state : IntentState, pointer : 0..MaxEnvelopes]
  /\ intent'.pointer = Len(envelopes) + 1

LEMMA NewIds ==
  ASSUME TypeOK, envelopes' \in Seq(Envelope),
         Len(envelopes') = Len(envelopes) + 1
  PROVE  Ids' = Ids \cup {Len(envelopes) + 1}
<1>1. Len(envelopes) \in Nat /\ Ids = 1..Len(envelopes)
  BY RowIds
<1>2. Ids' = 1..(Len(envelopes) + 1)
  BY LenProperties DEF Ids
<1> QED BY <1>1, <1>2

LEMMA SupersedeStep ==
  ASSUME TypeOK, NEW prior \in Nat, NEW seen \in IntentState,
         NEW outcome \in Outcomes,
         NEW by \in Workers \cup {"operator", "deadline"},
         Supersede(prior, seen, outcome, by)
  PROVE  Superseded(prior, outcome, by)
<1>1. /\ envelopes' = WithSuccessor(prior, outcome, by)
      /\ Len(envelopes) < MaxEnvelopes
      /\ intent' = [state |-> Written(seen, StateFor(outcome)),
                    pointer |-> Len(envelopes) + 1]
  BY DEF Supersede
<1>2. Len(envelopes) \in Nat
  BY RowIds
<1>3. intent' \in [state : IntentState, pointer : 0..MaxEnvelopes]
  BY <1>1, <1>2, Bounds
     DEF TypeOK, Written, StateFor, IntentState
<1>4. FollowsIn(envelopes', prior, outcome, by)
  BY <1>1, SuccessorRows
<1>5. Ids' = Ids \cup {Len(envelopes) + 1}
  BY <1>4, NewIds DEF FollowsIn
<1> QED BY <1>1, <1>3, <1>4, <1>5 DEF Superseded

(* The rows keep their form when what follows one of them is over. *)
LEMMA OverRows ==
  ASSUME TypeOK, NEW e \in Ids, NEW s, NEW outcome, NEW by,
         FollowsIn(s, e, outcome, by)
  PROVE  FollowsIn([s EXCEPT ![e].next = "over"], e, outcome, by)
<1> DEFINE n == Len(envelopes)
           row == [s[e] EXCEPT !.next = "over"]
           t == [s EXCEPT ![e] = row]
<1>1. n \in Nat /\ Ids = 1..n
  BY RowIds
<1>2. s \in Seq(Envelope) /\ Len(s) = n + 1
  BY DEF FollowsIn
<1>3. s \in [1..(n + 1) -> Envelope] /\ e \in 1..(n + 1) /\ n + 1 # e
  BY <1>1, <1>2, LenProperties
<1>4. /\ row \in Envelope /\ (row.current <=> s[e].current)
      /\ row.supersedes = s[e].supersedes /\ row.outcome = s[e].outcome
      /\ row.by = s[e].by /\ row.next = "over"
  BY <1>3 DEF Envelope, FollowUp
<1> HIDE DEF row
<1>5. /\ t \in Seq(Envelope) /\ Len(t) = n + 1
      /\ \A d \in 1..(n + 1) : t[d] = IF d = e THEN row ELSE s[d]
  BY <1>2, <1>3, <1>4, ExceptSeq
<1>6. [s EXCEPT ![e].next = "over"] = t
  BY DEF row
<1> HIDE DEF t
<1>7. FollowsIn(t, e, outcome, by)
  BY <1>1, <1>3, <1>4, <1>5 DEF FollowsIn
<1> QED BY <1>6, <1>7

(* A deadline that finds its envelope current supersedes it. *)
LEMMA ExpiryStep ==
  ASSUME TypeOK, NEW e \in Ids, Len(envelopes) < MaxEnvelopes,
         envelopes' = [WithSuccessor(e, "block", "deadline")
                         EXCEPT ![e].next = "over"],
         intent' = [state |-> Written(envelopes[e].seen, "blocked"),
                    pointer |-> Len(envelopes) + 1]
  PROVE  Superseded(e, "block", "deadline")
<1>1. /\ Len(envelopes) \in Nat /\ e \in Nat /\ envelopes[e] \in Envelope
      /\ "block" \in Outcomes
  BY RowIds DEF Outcomes
<1>2. FollowsIn(envelopes', e, "block", "deadline")
  BY <1>1, SuccessorRows, OverRows
<1>3. intent' \in [state : IntentState, pointer : 0..MaxEnvelopes]
  BY <1>1, Bounds DEF TypeOK, Written, IntentState, Envelope
<1>4. Ids' = Ids \cup {Len(envelopes) + 1}
  BY <1>2, NewIds DEF FollowsIn
<1> QED BY <1>2, <1>3, <1>4 DEF Superseded

-----------------------------------------------------------------------------
(* Type correctness. *)

(* Every transaction that supersedes does so to an envelope it knows.      *)
LEMMA CommitEvaluationStep ==
  ASSUME TypeOK, NEW w \in Workers, CommitEvaluation(w)
  PROVE  \/ /\ IndexAdmits(worker[w].prior)
            /\ \E outcome \in Outcomes :
                 Superseded(worker[w].prior, outcome, w)
            /\ worker' = [worker EXCEPT ![w].pc = "over"]
         \/ /\ worker' = [worker EXCEPT ![w].pc = "available"]
            /\ UNCHANGED <<intent, envelopes>>
<1>1. worker[w].prior \in Nat /\ worker[w].seen \in IntentState
  BY Bounds DEF TypeOK
<1> QED BY <1>1, SupersedeStep DEF CommitEvaluation

LEMMA CommitExpiryStep ==
  ASSUME TypeOK, NEW e \in Ids, CommitExpiry(e)
  PROVE  \/ IndexAdmits(e) /\ Superseded(e, "block", "deadline")
         \/ Noted(e, "scheduled") /\ UNCHANGED intent
<1>1. "scheduled" \in FollowUp
  BY DEF FollowUp
<1> QED BY <1>1, ExpiryStep, SetNextStep DEF CommitExpiry

LEMMA ApprovalStep ==
  ASSUME TypeOK, NEW e \in Ids, NEW outcome \in {"auto_exec", "block"},
         ApplyApprovalDecision(e, outcome)
  PROVE  Superseded(e, outcome, "operator")
<1>1. e \in Nat /\ intent.state \in IntentState /\ outcome \in Outcomes
  BY RowIds DEF TypeOK, Outcomes
<1> QED BY <1>1, SupersedeStep DEF ApplyApprovalDecision

(* What any step does to the rows of the envelopes and to the intent.      *)
EnvelopeStep ==
  \/ UNCHANGED <<envelopes, intent>>
  \/ UNCHANGED envelopes /\ \E state \in IntentState : SetState(state)
  \/ UNCHANGED intent /\ \E e \in Ids, next \in FollowUp : Noted(e, next)
  \/ \E prior \in Nat, outcome \in Outcomes,
        by \in Workers \cup {"operator", "deadline"} :
       Superseded(prior, outcome, by)

(* ... and to the rows of the plans. *)
PlanStep ==
  \/ UNCHANGED plans
  \/ \E i \in DOMAIN plans, status \in PlanStatus, active \in BOOLEAN :
       Marked(i, status, active)
  \/ \E e \in Nat, auto \in BOOLEAN : Inserted(e, auto)

LEMMA EnvelopeStepType ==
  ASSUME TypeOK, EnvelopeStep
  PROVE  /\ intent' \in [state : IntentState, pointer : 0..MaxEnvelopes]
         /\ envelopes' \in Seq(Envelope) /\ Len(envelopes') <= MaxEnvelopes
<1>1. CASE \E prior \in Nat, outcome \in Outcomes,
              by \in Workers \cup {"operator", "deadline"} :
             Superseded(prior, outcome, by)
  BY <1>1, RowIds, Bounds DEF Superseded, FollowsIn
<1>2. CASE UNCHANGED intent /\ \E e \in Ids, next \in FollowUp : Noted(e, next)
  BY <1>2 DEF Noted, TypeOK
<1>3. CASE UNCHANGED <<envelopes, intent>>
  BY <1>3 DEF TypeOK
<1>4. CASE UNCHANGED envelopes /\ \E state \in IntentState : SetState(state)
  BY <1>4 DEF TypeOK, SetState
<1> QED BY <1>1, <1>2, <1>3, <1>4 DEF EnvelopeStep

LEMMA PlanStepType ==
  ASSUME TypeOK, PlanStep
  PROVE  plans' \in Seq(Plan) /\ Len(plans') <= MaxPlans
<1>1. CASE UNCHANGED plans
  BY <1>1 DEF TypeOK
<1>2. CASE \E i \in DOMAIN plans, status \in PlanStatus, active \in BOOLEAN :
             Marked(i, status, active)
  BY <1>2 DEF TypeOK, Marked
<1>3. CASE \E e \in Nat, auto \in BOOLEAN : Inserted(e, auto)
  BY <1>3, RowIds, Bounds DEF Inserted
<1> QED BY <1>1, <1>2, <1>3 DEF PlanStep

WorkerPc == {"unqueued", "available", "loaded", "ready", "over"}

WorkerRow == [pc : WorkerPc, seen : IntentState, prior : 0..MaxEnvelopes]

(* The type of what the workers, the requests and the cancel hold. *)
ProcessesOK ==
  /\ worker \in [Workers -> WorkerRow]
  /\ request \in [Requests -> [pc : {"idle", "gated", "over"},
                               decision : 0..MaxEnvelopes]]
  /\ cancelling \in [pc : {"idle", "checked", "over"}, seen : IntentState]
  /\ failures \in 0..MaxFailures

(* A worker goes on, with what it read. *)
LEMMA WorkerType ==
  ASSUME TypeOK, NEW w \in Workers, NEW pc \in WorkerPc
  PROVE  /\ [worker EXCEPT ![w].pc = pc] \in [Workers -> WorkerRow]
         /\ \A seen \in IntentState :
              [worker EXCEPT ![w].pc = pc, ![w].seen = seen]
                \in [Workers -> WorkerRow]
         /\ \A prior \in 0..MaxEnvelopes :
              [worker EXCEPT ![w].pc = pc, ![w].prior = prior]
                \in [Workers -> WorkerRow]
BY DEF TypeOK, WorkerRow, WorkerPc

LEMMA EvaluationStep ==
  ASSUME TypeOK, NEW w \in Workers, Evaluation(w)
  PROVE  EnvelopeStep /\ PlanStep /\ ProcessesOK'
<1>1. CASE LoadIntent(w)
  <2> DEFINE pc == IF intent.state \in Evaluable(w) THEN "loaded" ELSE "over"
  <2>1. pc \in WorkerPc /\ intent.state \in IntentState
    BY DEF WorkerPc, TypeOK
  <2>2. worker' = [worker EXCEPT ![w].pc = pc, ![w].seen = intent.state]
    BY <1>1 DEF LoadIntent
  <2> HIDE DEF pc
  <2>3. worker' \in [Workers -> WorkerRow]
    BY <2>1, <2>2, WorkerType
  <2> QED BY <1>1, <2>3
          DEF LoadIntent, EnvelopeStep, PlanStep, TypeOK, ProcessesOK
<1>2. CASE ReadPrior(w)
  <2>1. \A e \in Currents \cup {None} : e \in 0..MaxEnvelopes
    BY RowIds, Bounds
  <2>2. PICK prior \in 0..MaxEnvelopes :
          worker' = [worker EXCEPT ![w].pc = "ready", ![w].prior = prior]
    BY <1>2, <2>1 DEF ReadPrior
  <2>3. worker' \in [Workers -> WorkerRow]
    BY <2>2, WorkerType DEF WorkerPc
  <2> QED BY <1>2, <2>3
          DEF ReadPrior, EnvelopeStep, PlanStep, TypeOK, ProcessesOK
<1>3. CASE CommitEvaluation(w)
  <2>1. EnvelopeStep
    <3>1. worker[w].prior \in Nat
      BY Bounds DEF TypeOK
    <3> QED BY <1>3, <3>1, CommitEvaluationStep DEF EnvelopeStep
  <2>2. PlanStep
    BY <1>3 DEF CommitEvaluation, PlanStep
  <2>3. PICK pc \in {"over", "available"} : worker' = [worker EXCEPT ![w].pc = pc]
    BY <1>3 DEF CommitEvaluation
  <2>4. worker' \in [Workers -> WorkerRow]
    BY <2>3, WorkerType DEF WorkerPc
  <2> QED BY <1>3, <2>1, <2>2, <2>4 DEF CommitEvaluation, TypeOK, ProcessesOK
<1> QED BY <1>1, <1>2, <1>3 DEF Evaluation

LEMMA ExpirationStep ==
  ASSUME TypeOK, NEW e, Expiry(e)
  PROVE  EnvelopeStep /\ PlanStep /\ ProcessesOK'
<1>1. e \in Ids /\ e \in Nat /\ "block" \in Outcomes
      /\ "loaded" \in FollowUp /\ "over" \in FollowUp /\ "scheduled" \in FollowUp
  BY RowIds DEF Expiry, Outcomes, FollowUp
<1>2. PlanStep /\ ProcessesOK'
  BY DEF Expiry, LoadExpiry, CommitExpiry, PlanStep, TypeOK, ProcessesOK,
         WorkerRow, WorkerPc
<1>3. CASE LoadExpiry(e)
  BY <1>1, <1>2, <1>3, LoadExpiryStep DEF LoadExpiry, EnvelopeStep
<1>4. CASE CommitExpiry(e)
  BY <1>1, <1>2, <1>4, CommitExpiryStep DEF EnvelopeStep
<1> QED BY <1>3, <1>4 DEF Expiry

LEMMA FollowUpStep ==
  ASSUME TypeOK, NEW e \in Ids,
         \/ EnqueueApprovalExpiry(e) \/ AutoGate(e)
         \/ InsertAutoPlan(e) \/ FollowUpFails(e)
  PROVE  EnvelopeStep /\ PlanStep /\ ProcessesOK'
<1> DEFINE kinds == {"scheduled", "gated", "over", "lost"}
<1>1. \E next \in kinds : SetNext(e, next)
  BY DEF EnqueueApprovalExpiry, AutoGate, InsertAutoPlan, FollowUpFails
<1>2. kinds \subseteq FollowUp
  BY DEF FollowUp
<1>3. EnvelopeStep
  BY <1>1, <1>2, SetNextStep
     DEF EnvelopeStep, EnqueueApprovalExpiry, AutoGate, InsertAutoPlan,
         FollowUpFails
<1>4. PlanStep
  <2>1. e \in Nat
    BY RowIds
  <2> QED BY <2>1, InsertPlanStep
          DEF PlanStep, EnqueueApprovalExpiry, AutoGate, InsertAutoPlan,
              FollowUpFails
<1>5. ProcessesOK'
  <2>1. CASE EnqueueApprovalExpiry(e) \/ AutoGate(e)
    BY <2>1 DEF EnqueueApprovalExpiry, AutoGate, TypeOK, ProcessesOK,
                WorkerRow, WorkerPc
  <2>2. CASE InsertAutoPlan(e)
    <3>1. CASE UNCHANGED worker
      BY <2>2, <3>1 DEF InsertAutoPlan, TypeOK, ProcessesOK, WorkerRow, WorkerPc
    <3>2. CASE worker' = [w \in Workers |->
                            IF w = envelopes[e].by
                              THEN [worker[w] EXCEPT !.pc = "available"]
                              ELSE worker[w]]
      <4>1. \A w \in Workers : worker'[w] \in WorkerRow
        BY <3>2 DEF TypeOK, WorkerRow, WorkerPc
      <4>2. worker' \in [Workers -> WorkerRow]
        BY <3>2, <4>1
      <4> QED BY <2>2, <4>2 DEF InsertAutoPlan, TypeOK, ProcessesOK
    <3> QED BY <2>2, <3>1, <3>2 DEF InsertAutoPlan
  <2>3. CASE FollowUpFails(e)
    BY <2>3, Bounds DEF FollowUpFails, Fail, TypeOK, ProcessesOK,
                        WorkerRow, WorkerPc
  <2> QED BY <2>1, <2>2, <2>3
<1> QED BY <1>3, <1>4, <1>5

LEMMA OperatorStep ==
  ASSUME TypeOK, Operator
  PROVE  EnvelopeStep /\ PlanStep /\ ProcessesOK'
<1>1. PICK e \in Ids :
        \/ \E outcome \in {"auto_exec", "block"} :
             ApplyApprovalDecision(e, outcome)
        \/ \E r \in Requests : ManualGate(r, e)
  BY DEF Operator
<1>2. e \in Nat /\ e \in 0..MaxEnvelopes
  BY RowIds, Bounds
<1>3. ASSUME NEW outcome \in {"auto_exec", "block"},
             ApplyApprovalDecision(e, outcome)
      PROVE  EnvelopeStep /\ PlanStep /\ ProcessesOK'
  <2>1. outcome \in Outcomes
    BY DEF Outcomes
  <2>2. EnvelopeStep
    BY <1>2, <1>3, <2>1, ApprovalStep DEF EnvelopeStep
  <2> QED BY <1>3, <2>2
          DEF ApplyApprovalDecision, PlanStep, TypeOK, ProcessesOK, WorkerRow,
              WorkerPc
<1>4. ASSUME NEW r \in Requests, ManualGate(r, e)
      PROVE  EnvelopeStep /\ PlanStep /\ ProcessesOK'
  BY <1>2, <1>4
     DEF ManualGate, EnvelopeStep, PlanStep, TypeOK, ProcessesOK, WorkerRow,
         WorkerPc
<1> QED BY <1>1, <1>3, <1>4

LEMMA ManualStep ==
  ASSUME TypeOK, NEW r \in Requests, InsertManualPlan(r)
  PROVE  EnvelopeStep /\ PlanStep /\ ProcessesOK'
<1>1. request[r].decision \in Nat
  BY Bounds DEF TypeOK
<1>2. PlanStep
  BY <1>1, InsertPlanStep DEF InsertManualPlan, PlanStep
<1> QED BY <1>2
        DEF InsertManualPlan, EnvelopeStep, TypeOK, ProcessesOK, WorkerRow,
            WorkerPc

LEMMA ExecutionStep ==
  ASSUME TypeOK, NEW i \in DOMAIN plans, Execution(i)
  PROVE  EnvelopeStep /\ PlanStep /\ ProcessesOK'
<1>1. intent.state \in IntentState /\ "executing" \in IntentState
      /\ "executed" \in IntentState /\ "blocked" \in IntentState
  BY DEF TypeOK, IntentState
<1>2. {"loaded", "claimed", "confirmed", "failed"} \subseteq PlanStatus
  BY DEF PlanStatus
<1>3. EnvelopeStep
  BY <1>1 DEF Execution, LoadEnvelope, ClaimPlan, ProgressIntent, ConfirmPlan,
              FailPlan, EnvelopeStep
<1>4. PlanStep
  BY <1>2, SetPlanStep
     DEF Execution, LoadEnvelope, ClaimPlan, ProgressIntent, ConfirmPlan,
         FailPlan, PlanStep
<1>5. ProcessesOK'
  BY DEF Execution, LoadEnvelope, ClaimPlan, ProgressIntent, ConfirmPlan,
         FailPlan, TypeOK, ProcessesOK, WorkerRow, WorkerPc
<1> QED BY <1>3, <1>4, <1>5

LEMMA OtherStep ==
  ASSUME TypeOK,
         \/ EnqueueEvaluation \/ \E w \in Workers : WorkerFails(w)
         \/ CheckCancellable \/ DoCancel
  PROVE  EnvelopeStep /\ PlanStep /\ ProcessesOK'
<1> USE DEF ProcessesOK, EnvelopeStep, PlanStep
<1>1. CASE EnqueueEvaluation
  <2>1. worker' \in [Workers -> WorkerRow]
    BY <1>1, Bounds, WorkerType DEF EnqueueEvaluation, WorkerPc
  <2> QED BY <1>1, <2>1 DEF EnqueueEvaluation, TypeOK
<1>2. CASE \E w \in Workers : WorkerFails(w)
  <2>1. PICK w \in Workers, pc \in {"available", "over"} :
          worker' = [worker EXCEPT ![w].pc = pc]
    BY <1>2 DEF WorkerFails
  <2>2. worker' \in [Workers -> WorkerRow]
    BY <2>1, WorkerType DEF WorkerPc
  <2> QED BY <1>2, <2>2, Bounds DEF WorkerFails, Fail, TypeOK
<1>3. CASE CheckCancellable
  BY <1>3 DEF CheckCancellable, TypeOK, WorkerRow, WorkerPc
<1>4. CASE DoCancel
  BY <1>4 DEF DoCancel, IntentState, TypeOK, WorkerRow, WorkerPc
<1> QED BY <1>1, <1>2, <1>3, <1>4

LEMMA NextStep ==
  ASSUME TypeOK, Next
  PROVE  EnvelopeStep /\ PlanStep /\ ProcessesOK'
BY EvaluationStep, ExpirationStep, FollowUpStep, OperatorStep, ManualStep,
   ExecutionStep, OtherStep DEF Next

LEMMA InitType == Init => TypeOK
<1> SUFFICES ASSUME Init PROVE TypeOK
  OBVIOUS
<1>1. envelopes \in Seq(Envelope) /\ Len(envelopes) <= MaxEnvelopes
  BY Bounds, EmptySeq DEF Init
<1>2. plans \in Seq(Plan) /\ Len(plans) <= MaxPlans
  BY Bounds, EmptySeq DEF Init
<1> QED BY <1>1, <1>2, Bounds DEF Init, TypeOK, IntentState

(* Every reachable state is well typed: rows refer to rows, and every      *)
(* process is at one of its steps.                                         *)
THEOREM TypeCorrect == Spec => []TypeOK
<1>1. TypeOK /\ [Next]_vars => TypeOK'
  <2> SUFFICES ASSUME TypeOK, [Next]_vars PROVE TypeOK'
    OBVIOUS
  <2>1. CASE Next
    BY <2>1, NextStep, EnvelopeStepType, PlanStepType
       DEF TypeOK, ProcessesOK, WorkerRow, WorkerPc
  <2>2. CASE UNCHANGED vars
    BY <2>2 DEF vars, TypeOK
  <2> QED BY <2>1, <2>2
<1> QED BY <1>1, InitType, PTL DEF Spec

-----------------------------------------------------------------------------
(* The chain of verdicts. *)

Deadline == {"enqueue", "scheduled", "loaded"}

(* Who may add a verdict, and to what. *)
MayAdd(outcome, by) ==
  \/ by \in Workers /\ outcome \in Outcomes
  \/ /\ by = "operator" /\ outcome \in {"auto_exec", "block"}
     /\ Len(envelopes) > 0
     /\ envelopes[Len(envelopes)].outcome = "approval_required"
  \/ /\ by = "deadline" /\ outcome = "block"
     /\ Len(envelopes) > 0
     /\ envelopes[Len(envelopes)].outcome = "approval_required"

(* The current envelope is the newest one, so a supersession that the      *)
(* unique index admits supersedes the newest.                              *)
LEMMA AdmitsNewest ==
  ASSUME TypeOK, VerdictInv, NEW prior \in Nat, prior <= Len(envelopes),
         IndexAdmits(prior)
  PROVE  prior = Len(envelopes)
<1>1. Len(envelopes) \in Nat /\ Ids = 1..Len(envelopes)
  BY RowIds
<1>2. CASE Len(envelopes) = 0
  BY <1>1, <1>2
<1>3. CASE Len(envelopes) > 0
  <2>1. Len(envelopes) \in Currents
    BY <1>1, <1>3 DEF VerdictInv, ChainSound, Currents
  <2> QED BY <2>1 DEF IndexAdmits
<1> QED BY <1>1, <1>2, <1>3

LEMMA CurrentNewest ==
  ASSUME TypeOK, VerdictInv, NEW e \in Ids, envelopes[e].current
  PROVE  e = Len(envelopes) /\ Len(envelopes) > 0
BY RowIds DEF VerdictInv, ChainSound

(* What a step does to the chain. *)
Extends ==
  /\ \E outcome \in Outcomes, by \in Workers \cup {"operator", "deadline"} :
       Superseded(Len(envelopes), outcome, by) /\ MayAdd(outcome, by)
  /\ UNCHANGED <<plans, request>>

Notes ==
  /\ \E e \in Ids, next \in FollowUp :
       /\ Noted(e, next)
       /\ next \in Deadline => envelopes[e].next \in Deadline
       /\ next = "gated" => UNCHANGED <<plans, request>> /\
                            \A i \in DOMAIN plans : ~plans[i].active
  /\ UNCHANGED intent

Leaves == UNCHANGED envelopes /\ intent'.pointer = intent.pointer

LEMMA ExtendsByEvaluation ==
  ASSUME TypeOK, Inv, NEW w \in Workers, CommitEvaluation(w)
  PROVE  Extends \/ Leaves
<1>1. /\ worker[w].prior \in Nat
      /\ UNCHANGED <<plans, request>>
      /\ worker[w].prior <= Len(envelopes)
  BY Bounds DEF TypeOK, CommitEvaluation, Inv, VerdictInv, ReadInv
<1>2. CASE UNCHANGED <<intent, envelopes>>
  BY <1>2 DEF Leaves
<1>3. ASSUME IndexAdmits(worker[w].prior), NEW outcome \in Outcomes,
             Superseded(worker[w].prior, outcome, w)
      PROVE  Extends
  <2>1. worker[w].prior = Len(envelopes)
    BY <1>1, <1>3, AdmitsNewest DEF Inv
  <2> QED BY <1>1, <1>3, <2>1 DEF Extends, MayAdd
<1> QED BY <1>2, <1>3, CommitEvaluationStep

LEMMA ExtendsByExpiry ==
  ASSUME TypeOK, Inv, NEW e, Expiry(e)
  PROVE  Extends \/ Notes
<1>1. /\ e \in Ids /\ e \in Nat /\ e <= Len(envelopes)
      /\ UNCHANGED <<plans, request>>
      /\ "loaded" \in FollowUp /\ "over" \in FollowUp /\ "scheduled" \in FollowUp
  BY RowIds DEF Expiry, LoadExpiry, CommitExpiry, FollowUp
<1>2. CASE LoadExpiry(e)
  <2>1. PICK next \in {"loaded", "over"} : Noted(e, next)
    BY <1>1, <1>2, LoadExpiryStep
  <2> QED BY <1>1, <1>2, <2>1 DEF LoadExpiry, Notes, Deadline
<1>3. CASE CommitExpiry(e)
  <2>1. /\ envelopes[e].next \in Deadline
        /\ envelopes[e].outcome = "approval_required"
    BY <1>1, <1>3 DEF CommitExpiry, Deadline, Inv, VerdictInv, DeadlineInv
  <2>2. CASE IndexAdmits(e) /\ Superseded(e, "block", "deadline")
    <3>1. e = Len(envelopes)
      BY <1>1, <2>2, AdmitsNewest DEF Inv
    <3> QED BY <1>1, <2>1, <2>2, <3>1, RowIds DEF Extends, MayAdd, Outcomes
  <2>3. CASE Noted(e, "scheduled") /\ UNCHANGED intent
    BY <1>1, <2>1, <2>3 DEF Notes
  <2> QED BY <1>1, <1>3, <2>2, <2>3, CommitExpiryStep
<1> QED BY <1>2, <1>3 DEF Expiry

LEMMA ExtendsByOperator ==
  ASSUME TypeOK, Inv, Operator
  PROVE  Extends \/ Leaves
<1>1. PICK e \in Ids :
        \/ \E outcome \in {"auto_exec", "block"} :
             ApplyApprovalDecision(e, outcome)
        \/ \E r \in Requests : ManualGate(r, e)
  BY DEF Operator
<1>2. ASSUME NEW outcome \in {"auto_exec", "block"},
             ApplyApprovalDecision(e, outcome)
      PROVE  Extends
  <2>1. Superseded(e, outcome, "operator") /\ UNCHANGED <<plans, request>>
    BY <1>2, ApprovalStep DEF ApplyApprovalDecision
  <2>2. /\ e = Len(envelopes) /\ Len(envelopes) > 0
        /\ envelopes[e].outcome = "approval_required"
    BY <1>2, CurrentNewest DEF ApplyApprovalDecision, Approvable, Inv
  <2> QED BY <2>1, <2>2 DEF Extends, MayAdd, Outcomes
<1> QED BY <1>1, <1>2 DEF ManualGate, Leaves

LEMMA NotesFollowUp ==
  ASSUME TypeOK, Inv, NEW e \in Ids,
         \/ EnqueueApprovalExpiry(e) \/ AutoGate(e)
         \/ InsertAutoPlan(e) \/ FollowUpFails(e)
  PROVE  Notes
<1>1. {"scheduled", "gated", "over", "lost"} \subseteq FollowUp
  BY DEF FollowUp
<1>2. CASE EnqueueApprovalExpiry(e)
  BY <1>1, <1>2, SetNextStep DEF EnqueueApprovalExpiry, Notes, Deadline
<1>3. CASE AutoGate(e)
  BY <1>1, <1>3, SetNextStep DEF AutoGate, Notes, Deadline
<1>4. CASE InsertAutoPlan(e)
  BY <1>1, <1>4, SetNextStep DEF InsertAutoPlan, Notes, Deadline
<1>5. CASE FollowUpFails(e)
  BY <1>1, <1>5, SetNextStep DEF FollowUpFails, Notes, Deadline
<1> QED BY <1>2, <1>3, <1>4, <1>5

LEMMA ChainStep ==
  ASSUME TypeOK, Inv, Next
  PROVE  Extends \/ Notes \/ Leaves
<1>1. ASSUME NEW w \in Workers, Evaluation(w)
      PROVE  Extends \/ Leaves
  BY <1>1, ExtendsByEvaluation DEF Evaluation, LoadIntent, ReadPrior, Leaves
<1>2. ASSUME \/ EnqueueEvaluation \/ CheckCancellable \/ DoCancel
             \/ \E w \in Workers : WorkerFails(w)
             \/ \E r \in Requests : InsertManualPlan(r)
      PROVE  Leaves
  BY <1>2 DEF EnqueueEvaluation, CheckCancellable, DoCancel, WorkerFails,
              InsertManualPlan, Leaves, SetState, TypeOK
<1>3. ASSUME NEW i \in DOMAIN plans, Execution(i)
      PROVE  Leaves
  BY <1>3 DEF Execution, LoadEnvelope, ClaimPlan, ProgressIntent, ConfirmPlan,
              FailPlan, Leaves, SetState, TypeOK
<1> QED BY <1>1, <1>2, <1>3, ExtendsByExpiry, ExtendsByOperator, NotesFollowUp
        DEF Next

(* Only ReadPrior makes a worker ready, with what it has just read. *)
LEMMA ReadStep ==
  ASSUME TypeOK, Next, NEW w \in Workers, worker'[w].pc = "ready"
  PROVE  worker'[w] = worker[w] \/ worker'[w].prior \in Currents \cup {None}
<1>1. worker \in [Workers -> WorkerRow]
  BY DEF TypeOK, WorkerRow, WorkerPc
<1>2. ASSUME NEW v \in Workers, Evaluation(v)
      PROVE  worker'[w] = worker[w] \/ worker'[w].prior \in Currents \cup {None}
  BY <1>1, <1>2 DEF Evaluation, LoadIntent, ReadPrior, CommitEvaluation,
                    WorkerRow
<1>3. ASSUME NEW v \in Workers, WorkerFails(v)
      PROVE  worker'[w] = worker[w]
  BY <1>1, <1>3 DEF WorkerFails, WorkerRow
<1>4. ASSUME NEW e \in Ids, InsertAutoPlan(e)
      PROVE  worker'[w] = worker[w]
  BY <1>1, <1>4 DEF InsertAutoPlan, WorkerRow
<1>5. ASSUME EnqueueEvaluation
      PROVE  worker'[w] = worker[w]
  BY <1>1, <1>5 DEF EnqueueEvaluation, WorkerRow
<1>6. ASSUME \/ CheckCancellable \/ DoCancel \/ Operator
             \/ \E e \in 1..MaxEnvelopes : Expiry(e)
             \/ \E e \in Ids : \/ EnqueueApprovalExpiry(e) \/ AutoGate(e)
                               \/ FollowUpFails(e)
             \/ \E r \in Requests : InsertManualPlan(r)
             \/ \E i \in DOMAIN plans : Execution(i)
      PROVE  worker'[w] = worker[w]
  BY <1>6 DEF CheckCancellable, DoCancel, Operator, ApplyApprovalDecision,
              ManualGate, Expiry, LoadExpiry, CommitExpiry,
              EnqueueApprovalExpiry, AutoGate, FollowUpFails, InsertManualPlan,
              Execution, LoadEnvelope, ClaimPlan, ProgressIntent, ConfirmPlan,
              FailPlan
<1> QED BY <1>2, <1>3, <1>4, <1>5, <1>6 DEF Next

LEMMA VerdictInvStep ==
  ASSUME TypeOK, Inv, Next
  PROVE  VerdictInv'
<1>1. /\ Len(envelopes) \in Nat /\ Ids = 1..Len(envelopes)
      /\ Len(envelopes) + 1 \notin Ids
  BY RowIds
<1>2. /\ \A e \in Ids : /\ envelopes[e].supersedes = e - 1
                        /\ envelopes[e].current <=> e = Len(envelopes)
      /\ intent.pointer = Len(envelopes)
  BY DEF Inv, VerdictInv, ChainSound
<1>3. CASE Extends
  <2>1. PICK outcome \in Outcomes, by \in Workers \cup {"operator", "deadline"} :
          Superseded(Len(envelopes), outcome, by)
    BY <1>3 DEF Extends
  <2>2. /\ Len(envelopes') = Len(envelopes) + 1
        /\ Ids' = Ids \cup {Len(envelopes) + 1}
        /\ intent'.pointer = Len(envelopes) + 1
        /\ FollowsIn(envelopes', Len(envelopes), outcome, by)
    BY <2>1 DEF Superseded, FollowsIn
  <2>3. ChainSound'
    BY <1>1, <1>2, <2>2 DEF ChainSound, FollowsIn
  <2>4. DeadlineInv'
    BY <1>1, <2>2 DEF DeadlineInv, FollowsIn, FollowUpOf, Inv, VerdictInv
  <2>5. ReadInv'
    <3>1. \A e \in Currents \cup {None} : e <= Len(envelopes)
      BY <1>1, RowIds, Bounds
    <3>2. \A w \in Workers : worker'[w].pc = "ready" =>
            worker'[w].prior <= Len(envelopes)
      BY <3>1, ReadStep DEF Inv, VerdictInv, ReadInv
    <3>3. \A w \in Workers : worker'[w].pc = "ready" => worker'[w].prior \in Nat
      BY RowIds, Bounds, ReadStep DEF TypeOK
    <3> QED BY <1>1, <2>2, <3>2, <3>3 DEF ReadInv
  <2> QED BY <2>3, <2>4, <2>5 DEF VerdictInv
<1>4. CASE Notes \/ Leaves
  <2>1. Len(envelopes') = Len(envelopes) /\ Ids' = Ids
        /\ intent'.pointer = intent.pointer
    BY <1>4 DEF Notes, Noted, Leaves, Ids
  <2>2. ChainSound'
    BY <1>2, <1>4, <2>1 DEF ChainSound, Notes, Noted, Leaves
  <2>3. DeadlineInv'
    BY <1>4, <2>1
       DEF DeadlineInv, Inv, VerdictInv, Notes, Noted, Leaves, Deadline
  <2>4. ReadInv'
    <3>1. \A e \in Currents \cup {None} : e <= Len(envelopes)
      BY <1>1, RowIds, Bounds
    <3> QED BY <2>1, <3>1, ReadStep DEF Inv, VerdictInv, ReadInv
  <2> QED BY <2>2, <2>3, <2>4 DEF VerdictInv
<1> QED BY <1>3, <1>4, ChainStep

-----------------------------------------------------------------------------
(* The dispatch of automatic plans. *)

(* A step that changes the status of a plan.                               *)
Marks ==
  /\ UNCHANGED <<envelopes, request>>
  /\ \E i \in DOMAIN plans, status \in PlanStatus, active \in BOOLEAN :
       /\ Marked(i, status, active)
       /\ status # "prepared"
       /\ active => plans[i].active
       /\ status \in {"loaded", "claimed"} => active
       /\ status = "loaded" => plans[i].status = "prepared" /\
                               envelopes[plans[i].decision].current
       /\ status = "claimed" => plans[i].status = "loaded"

(* A step that inserts one, for an envelope that has none.                 *)
Inserts ==
  \E e \in Ids, auto \in BOOLEAN :
    /\ Inserted(e, auto) /\ ~ActivePlan(e)
    /\ auto => envelopes[e].next = "gated" /\ UNCHANGED request /\
               Noted(e, "over")
    /\ ~auto => UNCHANGED envelopes
    /\ \A r \in Requests : request'[r].pc = "gated" => request'[r] = request[r]

(* A request passes the gates of one envelope. *)
Asks ==
  /\ UNCHANGED <<envelopes, plans>>
  /\ \A r \in Requests : request'[r].pc = "gated" =>
       request'[r] = request[r] \/ request'[r].decision \in Ids

LEMMA MarksExecution ==
  ASSUME TypeOK, Inv, NEW i \in DOMAIN plans, Execution(i)
  PROVE  Marks \/ UNCHANGED <<envelopes, plans, request>>
<1>1. {"loaded", "claimed", "confirmed", "failed"} \subseteq PlanStatus
  BY DEF PlanStatus
<1>2. plans[i].status \in {"prepared", "loaded", "claimed"} => plans[i].active
  BY DEF Inv, DispatchInv, OneActivePerDecision, InFlight
<1>3. CASE LoadEnvelope(i)
  BY <1>1, <1>2, <1>3, SetPlanStep DEF LoadEnvelope, Marks
<1>4. CASE ClaimPlan(i)
  BY <1>1, <1>2, <1>4, SetPlanStep DEF ClaimPlan, Marks
<1>5. CASE ConfirmPlan(i)
  BY <1>1, <1>2, <1>5, SetPlanStep DEF ConfirmPlan, Marks
<1>6. CASE FailPlan(i)
  BY <1>1, <1>2, <1>6, SetPlanStep DEF FailPlan, Marks
<1>7. CASE ProgressIntent(i)
  BY <1>7 DEF ProgressIntent
<1> QED BY <1>3, <1>4, <1>5, <1>6, <1>7 DEF Execution

LEMMA InsertsAuto ==
  ASSUME TypeOK, Inv, NEW e \in Ids, InsertAutoPlan(e)
  PROVE  Inserts \/ (Notes /\ UNCHANGED <<plans, request>>)
<1>1. "over" \in FollowUp /\ e \in Nat
  BY RowIds DEF FollowUp
<1>2. Noted(e, "over") /\ UNCHANGED <<intent, request>>
  BY <1>1, SetNextStep DEF InsertAutoPlan
<1>3. CASE UNCHANGED plans
  BY <1>1, <1>2, <1>3 DEF Notes, Deadline
<1>4. CASE ~ActivePlan(e) /\ InsertPlan(e, TRUE)
  BY <1>1, <1>2, <1>4, InsertPlanStep DEF InsertAutoPlan, Inserts
<1> QED BY <1>3, <1>4 DEF InsertAutoPlan

LEMMA InsertsManual ==
  ASSUME TypeOK, Inv, NEW r \in Requests, InsertManualPlan(r)
  PROVE  Inserts \/ Asks
<1>1. /\ request[r].decision \in Ids
      /\ UNCHANGED envelopes
  BY DEF InsertManualPlan, Inv, DispatchInv, DecisionInv
<1>2. \A q \in Requests : request'[q].pc = "gated" => request'[q] = request[q]
  BY DEF InsertManualPlan, TypeOK
<1>3. request[r].decision \in Nat
  BY <1>1, RowIds
<1>4. CASE UNCHANGED plans
  BY <1>1, <1>2, <1>4 DEF Asks
<1>5. CASE /\ ~ActivePlan(request[r].decision)
           /\ InsertPlan(request[r].decision, FALSE)
  BY <1>1, <1>2, <1>3, <1>5, InsertPlanStep DEF Inserts
<1> QED BY <1>4, <1>5 DEF InsertManualPlan

LEMMA DispatchStep ==
  ASSUME TypeOK, Inv, Next
  PROVE  \/ Marks \/ Inserts \/ Asks
         \/ ((Extends \/ Notes) /\ UNCHANGED <<plans, request>>)
<1>1. ASSUME \/ EnqueueEvaluation \/ CheckCancellable \/ DoCancel
             \/ \E w \in Workers : LoadIntent(w) \/ ReadPrior(w) \/ WorkerFails(w)
      PROVE  Asks
  BY <1>1 DEF EnqueueEvaluation, CheckCancellable, DoCancel, LoadIntent,
              ReadPrior, WorkerFails, Asks
<1>2. ASSUME NEW w \in Workers, CommitEvaluation(w)
      PROVE  Asks \/ (Extends /\ UNCHANGED <<plans, request>>)
  <2>1. UNCHANGED <<plans, request>>
    BY <1>2 DEF CommitEvaluation
  <2> QED BY <1>2, <2>1, ExtendsByEvaluation DEF Leaves, Asks
<1>3. ASSUME NEW e, Expiry(e)
      PROVE  (Extends \/ Notes) /\ UNCHANGED <<plans, request>>
  BY <1>3, ExtendsByExpiry DEF Expiry, LoadExpiry, CommitExpiry
<1>4. ASSUME NEW e \in Ids,
             EnqueueApprovalExpiry(e) \/ AutoGate(e) \/ FollowUpFails(e)
      PROVE  Notes /\ UNCHANGED <<plans, request>>
  BY <1>4, NotesFollowUp DEF EnqueueApprovalExpiry, AutoGate, FollowUpFails
<1>5. ASSUME Operator
      PROVE  Asks \/ (Extends /\ UNCHANGED <<plans, request>>)
  <2>1. PICK e \in Ids :
          \/ \E outcome \in {"auto_exec", "block"} :
               ApplyApprovalDecision(e, outcome)
          \/ \E r \in Requests : ManualGate(r, e)
    BY <1>5 DEF Operator
  <2>2. CASE \E r \in Requests : ManualGate(r, e)
    BY <2>2 DEF ManualGate, Asks, TypeOK
  <2>3. CASE \E outcome \in {"auto_exec", "block"} :
               ApplyApprovalDecision(e, outcome)
    <3>1. UNCHANGED <<plans, request>>
      BY <2>3 DEF ApplyApprovalDecision
    <3> QED BY <1>5, <3>1, ExtendsByOperator DEF Leaves, Asks
  <2> QED BY <2>1, <2>2, <2>3
<1>6. ASSUME NEW i \in DOMAIN plans, Execution(i)
      PROVE  Marks \/ Asks
  BY <1>6, MarksExecution DEF Asks
<1> QED BY <1>1, <1>2, <1>3, <1>4, <1>5, <1>6, InsertsAuto, InsertsManual
        DEF Next, Evaluation

(* The rows of plans keep their decision, and stay what they were unless   *)
(* they are marked.                                                        *)
LEMMA DispatchInvMarks ==
  ASSUME TypeOK, Inv, Marks
  PROVE  DispatchInv'
<1> USE DEF Inv, DispatchInv, InFlight, Running
<1>1. PICK i \in DOMAIN plans, status \in PlanStatus, active \in BOOLEAN :
        /\ Marked(i, status, active)
        /\ status # "prepared"
        /\ active => plans[i].active
        /\ status \in {"loaded", "claimed"} => active
        /\ status = "loaded" => plans[i].status = "prepared" /\
                                envelopes[plans[i].decision].current
        /\ status = "claimed" => plans[i].status = "loaded"
  BY DEF Marks
<1>2. /\ DOMAIN plans' = DOMAIN plans /\ UNCHANGED <<envelopes, request>>
      /\ Ids' = Ids
      /\ \A j \in DOMAIN plans :
           /\ plans'[j].decision = plans[j].decision
           /\ plans'[j].auto <=> plans[j].auto
           /\ plans'[j].active => plans[j].active
           /\ InFlight(j)' => InFlight(j)
      /\ \A j \in DOMAIN plans : Running(j)' =>
           Running(j) \/ envelopes[plans[j].decision].current
  BY <1>1 DEF Marked, Marks, Ids
<1>3. DecisionInv'
  BY <1>2 DEF DecisionInv
<1>4. OneActivePerDecision'
  BY <1>1, <1>2 DEF OneActivePerDecision, Marked
<1>5. NewestRuns'
  <2> SUFFICES ASSUME NEW j \in DOMAIN plans, Running(j)'
               PROVE  /\ \A e \in Ids : envelopes[e].next = "gated" =>
                                          e <= plans[j].decision
                      /\ \A k \in DOMAIN plans : plans[k].auto /\ InFlight(k)
                           => plans[k].decision <= plans[j].decision
    BY <1>2 DEF NewestRuns
  <2>1. CASE Running(j)
    BY <2>1 DEF NewestRuns
  <2>2. CASE envelopes[plans[j].decision].current
    <3>1. plans[j].decision = Len(envelopes)
      BY <2>2, CurrentNewest DEF DecisionInv
    <3> QED BY <3>1, RowIds DEF DecisionInv
  <2> QED BY <1>2, <2>1, <2>2
<1> QED BY <1>3, <1>4, <1>5

LEMMA DispatchInvInserts ==
  ASSUME TypeOK, Inv, Inserts
  PROVE  DispatchInv'
<1> USE DEF Inv, DispatchInv, InFlight, Running
<1>1. PICK e \in Ids, auto \in BOOLEAN :
        /\ Inserted(e, auto) /\ ~ActivePlan(e)
        /\ auto => envelopes[e].next = "gated" /\ UNCHANGED request /\
                   Noted(e, "over")
        /\ ~auto => UNCHANGED envelopes
        /\ \A r \in Requests :
             request'[r].pc = "gated" => request'[r] = request[r]
  BY DEF Inserts
<1> DEFINE n == Len(plans) + 1
<1>2. /\ Ids' = Ids /\ DOMAIN plans' = DOMAIN plans \cup {n}
      /\ \A d \in Ids : envelopes'[d].next = "gated" =>
                          envelopes[d].next = "gated"
      /\ \A i \in DOMAIN plans : plans'[i] = plans[i]
      /\ plans'[n].decision = e /\ (plans'[n].auto <=> auto)
      /\ plans'[n].status = "prepared" /\ plans'[n].active
      /\ n \notin DOMAIN plans
  BY <1>1, RowIds DEF Inserted, Noted, Ids
<1>3. DecisionInv'
  BY <1>1, <1>2 DEF DecisionInv
<1>4. OneActivePerDecision'
  BY <1>1, <1>2 DEF OneActivePerDecision, ActivePlan
<1>5. NewestRuns'
  BY <1>1, <1>2 DEF NewestRuns
<1> QED BY <1>3, <1>4, <1>5

LEMMA DispatchInvChain ==
  ASSUME TypeOK, Inv, Extends \/ Notes, UNCHANGED <<plans, request>>
  PROVE  DispatchInv'
<1> USE DEF Inv, DispatchInv, InFlight, Running
<1>1. Ids \subseteq Ids'
  BY DEF Extends, Superseded, Notes, Noted
<1>2. DecisionInv' /\ OneActivePerDecision'
  BY <1>1 DEF DecisionInv, OneActivePerDecision
<1>3. CASE Extends
  <2>1. \A e \in Ids' : envelopes'[e].next = "gated" =>
          e \in Ids /\ envelopes[e].next = "gated"
    BY <1>3 DEF Extends, Superseded, FollowsIn, FollowUpOf
  <2> QED BY <1>2, <2>1 DEF NewestRuns
<1>4. CASE Notes
  <2>1. PICK e \in Ids, next \in FollowUp :
          /\ Noted(e, next)
          /\ next = "gated" => \A i \in DOMAIN plans : ~plans[i].active
    BY <1>4 DEF Notes
  <2>2. CASE next = "gated"
    BY <1>2, <2>1, <2>2 DEF NewestRuns, OneActivePerDecision
  <2>3. CASE next # "gated"
    BY <1>2, <2>1, <2>3 DEF NewestRuns, Noted
  <2> QED BY <2>2, <2>3
<1> QED BY <1>3, <1>4

LEMMA DispatchInvStep ==
  ASSUME TypeOK, Inv, Next
  PROVE  DispatchInv'
<1>1. CASE Asks
  BY <1>1 DEF Asks, Inv, DispatchInv, DecisionInv, OneActivePerDecision,
              NewestRuns, Running, InFlight, Ids
<1> QED BY <1>1, DispatchStep, DispatchInvMarks, DispatchInvInserts,
           DispatchInvChain

LEMMA InitInv == Init => Inv
<1> SUFFICES ASSUME Init PROVE Inv
  OBVIOUS
<1>1. Ids = {} /\ DOMAIN plans = {} /\ Len(envelopes) = 0
  BY DEF Init, Ids
<1> QED BY <1>1 DEF Init, Inv, VerdictInv, ChainSound, ReadInv, DeadlineInv,
                    DispatchInv, DecisionInv, OneActivePerDecision, NewestRuns,
                    None

(* The inductive invariant. *)
THEOREM Invariance == Spec => []Inv
<1>1. TypeOK /\ Inv /\ [Next]_vars => Inv'
  <2> SUFFICES ASSUME TypeOK, Inv, [Next]_vars PROVE Inv'
    OBVIOUS
  <2>1. CASE Next
    BY <2>1, VerdictInvStep, DispatchInvStep DEF Inv
  <2>2. CASE UNCHANGED vars
    BY <2>2 DEF vars, Inv, VerdictInv, ChainSound, ReadInv, DeadlineInv,
                DispatchInv, DecisionInv, OneActivePerDecision, NewestRuns,
                Running, InFlight, Ids
  <2> QED BY <2>1, <2>2
<1> QED BY <1>1, InitInv, TypeCorrect, PTL DEF Spec

(* The verdicts form one chain whose newest envelope alone is current and  *)
(* is the one the intent points at, whichever transactions raced.          *)
THEOREM OneChain == Spec => []ChainSound
BY Invariance, PTL DEF Inv, VerdictInv

(* Two automatic plans of one intent are never with their workers at the   *)
(* same time.                                                              *)
THEOREM AutoAlone == Spec => []NoParallelAuto
<1>1. TypeOK /\ Inv => NoParallelAuto
  <2> SUFFICES ASSUME TypeOK, Inv,
                      NEW i \in DOMAIN plans, NEW j \in DOMAIN plans,
                      Running(i), Running(j)
               PROVE  i = j
    BY DEF NoParallelAuto, Running
  <2>1. InFlight(i) /\ InFlight(j) /\ plans[i].auto /\ plans[j].auto
    BY DEF Running, InFlight
  <2>2. plans[i].decision = plans[j].decision
    BY <2>1, RowIds DEF Inv, DispatchInv, NewestRuns, Plan
  <2> QED BY <2>1, <2>2 DEF Inv, DispatchInv, OneActivePerDecision
<1> QED BY <1>1, TypeCorrect, Invariance, PTL

-----------------------------------------------------------------------------
(* The refinement. *)

(* The log a sequence of envelopes stands for. *)
LogOf(s) == [e \in DOMAIN s |-> [outcome |-> s[e].outcome,
                                 by |-> Author(s[e].by)]]

Verdicts == [outcome : Outcomes, by : {"engine", "operator", "deadline"}]

LEMMA LogLength ==
  ASSUME NEW s \in Seq(Envelope)
  PROVE  /\ LogOf(s) \in Seq(Verdicts)
         /\ Len(LogOf(s)) = Len(s)
<1>1. Len(s) \in Nat /\ DOMAIN s = 1..Len(s)
  BY LenProperties
<1>2. \A e \in DOMAIN s : s[e] \in Envelope
  BY ElementOfSeq
<1>3. \A e \in DOMAIN s : /\ s[e].outcome \in Outcomes
                          /\ Author(s[e].by) \in
                               {"engine", "operator", "deadline"}
  BY <1>2 DEF Envelope, Author
<1>4. LogOf(s) \in [1..Len(s) -> Verdicts]
  BY <1>1, <1>3 DEF LogOf, Verdicts
<1> HIDE DEF LogOf
<1> QED BY <1>1, <1>4, SeqDef, LenProperties

(* A successor is one more verdict. *)
LEMMA ExtendsLog ==
  ASSUME TypeOK, Inv, Extends
  PROVE  Chain!LogNext
<1>1. PICK outcome \in Outcomes, by \in Workers \cup {"operator", "deadline"} :
        Superseded(Len(envelopes), outcome, by) /\ MayAdd(outcome, by)
  BY DEF Extends
<1> DEFINE n == Len(envelopes)
           log == LogOf(envelopes)
           logN == LogOf(envelopes')
           verdict == [outcome |-> outcome, by |-> Author(by)]
<1>2. /\ n \in Nat /\ DOMAIN envelopes = 1..n /\ DOMAIN envelopes' = 1..(n + 1)
      /\ FollowsIn(envelopes', n, outcome, by)
      /\ envelopes \in Seq(Envelope) /\ envelopes' \in Seq(Envelope)
      /\ Len(envelopes') = n + 1
  BY <1>1, RowIds DEF Superseded, FollowsIn, TypeOK, Ids
<1>3. /\ \A e \in 1..n : logN[e] = log[e]
      /\ logN[n + 1] = verdict
  <2>1. /\ \A e \in 1..n : /\ envelopes'[e].outcome = envelopes[e].outcome
                           /\ envelopes'[e].by = envelopes[e].by
        /\ envelopes'[n + 1].outcome = outcome
        /\ envelopes'[n + 1].by = by
    BY <1>2 DEF FollowsIn, Ids
  <2>2. /\ \A e \in 1..n : e \in DOMAIN envelopes /\ e \in DOMAIN envelopes'
        /\ n + 1 \in DOMAIN envelopes'
    BY <1>2
  <2> HIDE DEF n
  <2> QED BY <2>1, <2>2 DEF LogOf
<1>4. /\ log \in Seq(Verdicts) /\ logN \in Seq(Verdicts)
      /\ Len(log) = n /\ Len(logN) = n + 1
      /\ n > 0 => log[n].outcome = envelopes[n].outcome
  <2>1. n > 0 => log[n].outcome = envelopes[n].outcome
    BY <1>2 DEF LogOf
  <2> QED BY <1>2, <2>1, LogLength
<1>5. verdict \in Verdicts
  BY DEF Verdicts, Author
<1> HIDE DEF log, logN, verdict, n
<1>6. logN = Append(log, verdict)
  <2>1. /\ Append(log, verdict) \in Seq(Verdicts)
        /\ Len(Append(log, verdict)) = n + 1
        /\ \A e \in 1..n : Append(log, verdict)[e] = log[e]
        /\ Append(log, verdict)[n + 1] = verdict
    BY <1>4, <1>5, AppendProperties
  <2>2. \A e \in 1..(n + 1) : logN[e] = Append(log, verdict)[e]
    BY <1>2, <1>3, <2>1 DEF n
  <2> QED BY <1>4, <2>1, <2>2, SeqEqual
<1>7. CASE by \in Workers
  BY <1>6, <1>7 DEF verdict, log, logN, LogOf, Author, Ids, Outcomes,
     Chain!LogNext, Chain!Judge, Chain!Outcomes
<1>8. ASSUME by \notin Workers
      PROVE  /\ log # <<>> /\ log[Len(log)].outcome = "approval_required"
             /\ \/ by = "operator" /\ outcome \in {"auto_exec", "block"}
                \/ by = "deadline" /\ outcome = "block"
  BY <1>1, <1>2, <1>4, <1>8 DEF MayAdd, n
<1>9. CASE by \notin Workers
  BY <1>6, <1>8, <1>9 DEF verdict, log, logN, LogOf, Author, Ids, Outcomes,
     Chain!LogNext, Chain!Settle, Chain!Lapse, Chain!Pending, Chain!Outcomes
<1> QED BY <1>7, <1>9

LEMMA StutterLog ==
  ASSUME TypeOK, Notes \/ Leaves \/ UNCHANGED envelopes
  PROVE  LogOf(envelopes') = LogOf(envelopes)
<1>1. DOMAIN envelopes' = DOMAIN envelopes
  BY DEF Notes, Noted, Leaves, Ids
<1>2. \A e \in DOMAIN envelopes : /\ envelopes'[e].outcome = envelopes[e].outcome
                                  /\ envelopes'[e].by = envelopes[e].by
  BY DEF Notes, Noted, Leaves, Ids
<1> QED BY <1>1, <1>2 DEF LogOf, Author

(* Approvals, rejections, deadlines and evaluations implement the verdict  *)
(* log: a pending verdict is settled at most once, and nothing else is.    *)
THEOREM Implementation == Spec => ImplementsVerdictLog
<1>1. Init => Chain!LogInit
  <2> SUFFICES ASSUME envelopes = <<>> PROVE LogOf(envelopes) = <<>>
    BY DEF Init, Chain!LogInit, LogOf, Ids
  <2>1. DOMAIN envelopes = 1..0
    BY LenProperties
  <2>2. LogOf(envelopes) \in Seq(Verdicts) /\ Len(LogOf(envelopes)) = 0
    <3>1. envelopes \in Seq(Envelope) /\ Len(envelopes) = 0
      OBVIOUS
    <3> QED BY <3>1, LogLength
  <2> HIDE DEF LogOf
  <2> QED BY <2>2, EmptySeq
<1>2. TypeOK /\ Inv /\ [Next]_vars =>
        [Chain!LogNext]_([e \in Ids |-> [outcome |-> envelopes[e].outcome,
                                         by |-> Author(envelopes[e].by)]])
  <2> SUFFICES ASSUME TypeOK, Inv, [Next]_vars
               PROVE  Chain!LogNext \/ LogOf(envelopes') = LogOf(envelopes)
    BY DEF LogOf, Ids
  <2>1. CASE Next
    BY <2>1, ChainStep, ExtendsLog, StutterLog
  <2>2. CASE UNCHANGED vars
    BY <2>2, StutterLog DEF vars
  <2> QED BY <2>1, <2>2
<1> QED BY <1>1, <1>2, TypeCorrect, Invariance, PTL
        DEF Spec, ImplementsVerdictLog, Chain!LogSpec
=============================================================================
