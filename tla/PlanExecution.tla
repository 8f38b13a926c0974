--------------------------- MODULE PlanExecution ---------------------------
(***************************************************************************)
(* The execution of one decided, auto-executable decision envelope: the    *)
(* requests that create execution plans for it, the RunExecution job each  *)
(* plan enqueues, the chain adapter that signs and submits the operation   *)
(* and calls back, the operator's abort, and the kill switches around      *)
(* them.  Sources: lib/bank/decisions.ex (create_execution_plan,           *)
(* claim_plan_for_dispatch, revert_claim, abort_plan,                      *)
(* apply_execution_callback), lib/bank/runtime/workers/run_execution.ex    *)
(* and chain_adapter/src/chains/base/transfer.ts.                          *)
(*                                                                         *)
(* One database transaction is one step; what the code reads in one call   *)
(* and writes in a later one is two steps, with the values read kept in    *)
(* the worker (`seen` is the intent the worker's struct was loaded with).  *)
(* The request, the job and the plan it writes share an identifier p in    *)
(* Plans; a job dispatches the ACTIVE plan of the decision, which need not *)
(* be the plan it was enqueued for.                                        *)
(***************************************************************************)
EXTENDS Naturals

CONSTANTS Plans,        \* identifiers of plans, their requests and their jobs
          NoPlan,       \* "no plan loaded yet"
          MaxAttempts,  \* Oban's max_attempts (5 in the code)
          MaxChanges,   \* bound: pauses, revokes and other outside changes
          MaxFailures   \* bound: worker processes that die or raise

ASSUME PlansAssumption == NoPlan \notin Plans
ASSUME BoundsAssumption ==
  /\ MaxAttempts \in Nat \ {0}
  /\ MaxChanges \in Nat
  /\ MaxFailures \in Nat

VARIABLES plan,       \* execution_plans rows: status, active
          intent,     \* agent_intents.state of the owning intent
          current,    \* decision_envelopes.current of the decision
          request,    \* progress of each execution request
          job,        \* the RunExecution jobs
          op,         \* adapter requests, one per (job, attempt)
          switch,     \* paused, executable (delegation), eligible (mainnet/caps)
          cancelling, \* progress of the agent's cancel call
          budget,     \* bounds left: changes, failures
          aborted,    \* history: plans an operator aborted
          pausedSince \* history: jobs whose claim has known only pause

vars == <<plan, intent, current, request, job, op, switch, cancelling,
          budget, aborted, pausedSince>>

-----------------------------------------------------------------------------
(* The vocabulary of the rows. *)

Terminal == {"confirmed", "reverted", "aborted"}

PlanStatus == {"none", "prepared", "signing", "broadcasting",
               "pending_confirmation"} \cup Terminal

IntentState == {"decided", "executing", "executed", "blocked", "cancelled"}

(* What one worker attempt is doing.  "available" waits in the queue;      *)
(* "orphaned" is a job whose node died while Oban had it executing (no     *)
(* plugin rescues it).                                                     *)
JobPc == {"none", "available", "enveloped", "loaded", "delegated",
          "unpaused", "gated", "claimed", "cleared", "waiting", "accepted",
          "reverting", "snoozing", "aborting", "done", "orphaned"}

Attempts == 1..MaxAttempts

Ops == Plans \X Attempts

(* The execution callbacks.  An adapter request that is delivering one has  *)
(* its kind as program counter.                                            *)
Kinds == {"broadcast", "confirmed", "reverted", "aborted"}

OpPc == {"unsent", "received", "built", "confirming", "done"} \cup Kinds

ChainState == {"none", "mempool", "success", "failure"}

Replies == {"none", "2xx", "4xx", "5xx"}

PlanRow == [status : PlanStatus, active : BOOLEAN]

JobRow == [pc : JobPc, attempt : 0..MaxAttempts,
           target : Plans \cup {NoPlan}, seen : IntentState]

OpRow == [pc : OpPc, plan : Plans \cup {NoPlan}, nonce : SUBSET Ops,
          chain : ChainState, reply : Replies]

TypeOK ==
  /\ plan \in [Plans -> PlanRow]
  /\ intent \in IntentState
  /\ current \in BOOLEAN
  /\ request \in [Plans -> {"idle", "gated", "inserted", "done", "refused"}]
  /\ job \in [Plans -> JobRow]
  /\ op \in [Ops -> OpRow]
  /\ switch \in [paused : BOOLEAN, executable : BOOLEAN, eligible : BOOLEAN]
  /\ cancelling \in {"idle", "checked", "done"}
  /\ budget \in [changes : 0..MaxChanges, failures : 0..MaxFailures]
  /\ aborted \in SUBSET Plans
  /\ pausedSince \in SUBSET Plans

Init ==
  /\ plan = [p \in Plans |-> [status |-> "none", active |-> FALSE]]
  /\ intent = "decided"
  /\ current = TRUE
  /\ request = [p \in Plans |-> "idle"]
  /\ job = [p \in Plans |-> [pc |-> "none", attempt |-> 0,
                             target |-> NoPlan, seen |-> "decided"]]
  /\ op = [o \in Ops |-> [pc |-> "unsent", plan |-> NoPlan, nonce |-> {},
                          chain |-> "none", reply |-> "none"]]
  /\ switch = [paused |-> FALSE, executable |-> TRUE, eligible |-> TRUE]
  /\ cancelling = "idle"
  /\ budget = [changes |-> MaxChanges, failures |-> MaxFailures]
  /\ aborted = {}
  /\ pausedSince = {}

-----------------------------------------------------------------------------
(* Requests: request_manual_execution and dispatch_auto_exec share          *)
(* create_execution_plan.                                                   *)

(* The gates read the envelope, the active plan, the switches; a failing   *)
(* gate returns an error and writes nothing.                               *)
GateRequest(p) ==
  /\ request[p] = "idle"
  /\ current
  /\ \A q \in Plans : ~plan[q].active
  /\ ~switch.paused /\ switch.eligible /\ switch.executable
  /\ request' = [request EXCEPT ![p] = "gated"]
  /\ UNCHANGED <<plan, intent, current, job, op, switch, cancelling, budget,
                 aborted, pausedSince>>

(* Mutant of InsertPlan: no unique index backs the gate. *)
InsertPlanUnindexed(p) ==
  /\ request[p] = "gated"
  /\ request' = [request EXCEPT ![p] = "inserted"]
  /\ plan' = [plan EXCEPT ![p] = [status |-> "prepared", active |-> TRUE]]
  /\ UNCHANGED <<intent, current, job, op, switch, cancelling, budget,
                 aborted, pausedSince>>

(* Repo.insert of the plan: the partial unique index on decision_id WHERE  *)
(* active makes a second active plan raise.                                *)
InsertPlan(p) ==
  /\ request[p] = "gated"
  /\ IF \E q \in Plans : plan[q].active
       THEN /\ request' = [request EXCEPT ![p] = "refused"]
            /\ UNCHANGED plan
       ELSE /\ request' = [request EXCEPT ![p] = "inserted"]
            /\ plan' = [plan EXCEPT ![p] = [status |-> "prepared",
                                            active |-> TRUE]]
  /\ UNCHANGED <<intent, current, job, op, switch, cancelling, budget,
                 aborted, pausedSince>>

(* enqueue_execution runs after the insert has committed. *)
EnqueueExecution(p) ==
  /\ request[p] = "inserted"
  /\ request' = [request EXCEPT ![p] = "done"]
  /\ job' = [job EXCEPT ![p].pc = "available"]
  /\ UNCHANGED <<plan, intent, current, op, switch, cancelling, budget,
                 aborted, pausedSince>>

-----------------------------------------------------------------------------
(* The RunExecution worker. *)

Goto(j, pc) == job' = [job EXCEPT ![j].pc = pc]

(* The attempt ends: what the worker process had loaded is gone. *)
Leave(j, pc) == job' = [job EXCEPT ![j].pc = pc, ![j].target = NoPlan,
                                   ![j].seen = "decided"]

LastAttempt(j) == job[j].attempt >= MaxAttempts

(* Oban fetches the job and load_envelope reads the envelope. *)
LoadEnvelope(j) ==
  /\ job[j].pc = "available"
  /\ job[j].attempt < MaxAttempts
  /\ job' = [job EXCEPT ![j].pc = IF current THEN "enveloped" ELSE "done",
                        ![j].attempt = @ + 1]
  /\ UNCHANGED <<plan, intent, current, request, op, switch, cancelling,
                 budget, aborted, pausedSince>>

(* load_active_plan: cancels when the decision has no active plan or the   *)
(* active plan is not prepared; otherwise the plan and its intent are read *)
(* into the worker.                                                        *)
LoadActivePlan(j) ==
  /\ job[j].pc = "enveloped"
  /\ \/ /\ \A p \in Plans : plan[p].active => plan[p].status # "prepared"
        /\ Leave(j, "done")
     \/ \E p \in Plans :
          /\ plan[p].active /\ plan[p].status = "prepared"
          /\ job' = [job EXCEPT ![j].pc = "loaded", ![j].target = p,
                                ![j].seen = intent]
  /\ UNCHANGED <<plan, intent, current, request, op, switch, cancelling,
                 budget, aborted, pausedSince>>

Gate(j, from, ok, to) ==
  /\ job[j].pc = from
  /\ Goto(j, IF ok THEN to ELSE "aborting")
  /\ UNCHANGED <<plan, intent, current, request, op, switch, cancelling,
                 budget, aborted, pausedSince>>

VerifyDelegation(j) == Gate(j, "loaded", switch.executable, "delegated")

VerifyNotPaused(j) == Gate(j, "delegated", ~switch.paused, "unpaused")

(* verify_mainnet_allowed and verify_canary_caps. *)
VerifyEligible(j) == Gate(j, "unpaused", switch.eligible, "gated")

(* Mutant of ClaimPlanForDispatch: trusts the status the worker loaded. *)
ClaimUnlocked(j) ==
  /\ job[j].pc = "gated"
  /\ plan' = [plan EXCEPT ![job[j].target].status = "signing"]
  /\ job' = [job EXCEPT ![j].pc = "claimed", ![j].seen = intent]
  /\ pausedSince' = (pausedSince \ {j}) \cup
                    (IF switch.paused THEN {j} ELSE {})
  /\ UNCHANGED <<intent, current, request, op, switch, cancelling, budget,
                 aborted>>

(* claim_plan_for_dispatch: prepared -> signing under the row lock, and    *)
(* the intent is loaded again; any other status cancels the job.           *)
ClaimPlanForDispatch(j) ==
  LET p == job[j].target IN
  /\ job[j].pc = "gated"
  /\ IF plan[p].status = "prepared"
       THEN /\ plan' = [plan EXCEPT ![p].status = "signing"]
            /\ job' = [job EXCEPT ![j].pc = "claimed", ![j].seen = intent]
            /\ pausedSince' = (pausedSince \ {j}) \cup
                              (IF switch.paused THEN {j} ELSE {})
       ELSE /\ Leave(j, "done")
            /\ UNCHANGED <<plan, pausedSince>>
  /\ UNCHANGED <<intent, current, request, op, switch, cancelling, budget,
                 aborted>>

(* Mutant of RecheckPause: the pause is not read again. *)
RecheckPauseSkipped(j) ==
  /\ job[j].pc = "claimed"
  /\ Goto(j, "cleared")
  /\ UNCHANGED <<plan, intent, current, request, op, switch, cancelling,
                 budget, aborted, pausedSince>>

(* recheck_pause_before_dispatch: the pause is read again after the claim. *)
RecheckPause(j) ==
  /\ job[j].pc = "claimed"
  /\ Goto(j, IF switch.paused THEN "snoozing" ELSE "cleared")
  /\ UNCHANGED <<plan, intent, current, request, op, switch, cancelling,
                 budget, aborted, pausedSince>>

(* The swap and Morpho safety gates and the resolution of the target fail  *)
(* before the request is sent.                                             *)
RefuseLocally(j) ==
  /\ job[j].pc = "cleared"
  /\ Goto(j, "aborting")
  /\ UNCHANGED <<plan, intent, current, request, op, switch, cancelling,
                 budget, aborted, pausedSince>>

(* AdapterClient.post: the request leaves and the adapter has it. *)
Dispatch(j) ==
  /\ job[j].pc = "cleared"
  /\ Goto(j, "waiting")
  /\ op' = [op EXCEPT ![<<j, job[j].attempt>>].pc = "received",
                      ![<<j, job[j].attempt>>].plan = job[j].target]
  /\ UNCHANGED <<plan, intent, current, request, switch, cancelling, budget,
                 aborted, pausedSince>>

ReplyTo(j) == op[<<j, job[j].attempt>>].reply

(* A 2xx reply: adapter accepted. *)
ReceiveAccepted(j) ==
  /\ job[j].pc = "waiting" /\ ReplyTo(j) = "2xx"
  /\ Goto(j, "accepted")
  /\ UNCHANGED <<plan, intent, current, request, op, switch, cancelling,
                 budget, aborted, pausedSince>>

(* A 4xx reply aborts the plan. *)
ReceiveRejected(j) ==
  /\ job[j].pc = "waiting" /\ ReplyTo(j) = "4xx"
  /\ Goto(j, "aborting")
  /\ UNCHANGED <<plan, intent, current, request, op, switch, cancelling,
                 budget, aborted, pausedSince>>

(* Mutant of ReceiveUnavailable: no guard for the last attempt. *)
ReceiveUnavailableForever(j) ==
  /\ job[j].pc = "waiting" /\ ReplyTo(j) \in {"none", "5xx"}
  /\ Goto(j, "reverting")
  /\ UNCHANGED <<plan, intent, current, request, op, switch, cancelling,
                 budget, aborted, pausedSince>>

(* A 5xx reply, or no reply within the receive timeout (which may expire   *)
(* at any moment): the claim is reverted for a retry, except that the last *)
(* attempt aborts.                                                         *)
ReceiveUnavailable(j) ==
  /\ job[j].pc = "waiting" /\ ReplyTo(j) \in {"none", "5xx"}
  /\ Goto(j, IF LastAttempt(j) THEN "aborting" ELSE "reverting")
  /\ UNCHANGED <<plan, intent, current, request, op, switch, cancelling,
                 budget, aborted, pausedSince>>

(* progress_after_dispatch: decided -> executing, judged on the intent the *)
(* worker loaded when it claimed the plan.                                 *)
ProgressAfterDispatch(j) ==
  /\ job[j].pc = "accepted"
  /\ Leave(j, "done")
  /\ intent' = IF job[j].seen = "decided" THEN "executing" ELSE intent
  /\ UNCHANGED <<plan, current, request, op, switch, cancelling, budget,
                 aborted, pausedSince>>

(* Mutant of RevertClaim: prepares the plan again whatever its status. *)
RevertClaimUnguarded(j) ==
  /\ job[j].pc \in {"reverting", "snoozing"}
  /\ plan' = [plan EXCEPT ![job[j].target].status = "prepared"]
  /\ job' = [job EXCEPT ![j] =
       [pc |-> "available", target |-> NoPlan, seen |-> "decided",
        attempt |-> IF @.pc = "snoozing" THEN @.attempt - 1 ELSE @.attempt]]
  /\ UNCHANGED <<intent, current, request, op, switch, cancelling, budget,
                 aborted, pausedSince>>

(* revert_claim: signing -> prepared under the row lock, otherwise         *)
(* nothing; then Oban retries the job, or runs it again after the snooze   *)
(* without having used up an attempt.                                      *)
RevertClaim(j) ==
  /\ job[j].pc \in {"reverting", "snoozing"}
  /\ plan' = [plan EXCEPT ![job[j].target].status =
                IF @ = "signing" THEN "prepared" ELSE @]
  /\ job' = [job EXCEPT ![j] =
       [pc |-> "available", target |-> NoPlan, seen |-> "decided",
        attempt |-> IF @.pc = "snoozing" THEN @.attempt - 1 ELSE @.attempt]]
  /\ UNCHANGED <<intent, current, request, op, switch, cancelling, budget,
                 aborted, pausedSince>>

(* mark_plan_aborted: no lock, no look at the row: the status is           *)
(* overwritten, `active` is left alone, and the intent is blocked when the *)
(* worker's own copy says decided or executing.                            *)
MarkPlanAborted(j) ==
  /\ job[j].pc = "aborting"
  /\ plan' = [plan EXCEPT ![job[j].target].status = "aborted"]
  /\ intent' = IF job[j].seen \in {"decided", "executing"} THEN "blocked"
                                                           ELSE intent
  /\ Leave(j, "done")
  /\ UNCHANGED <<current, request, op, switch, cancelling, budget, aborted,
                 pausedSince>>

(* The worker process stops in the middle of an attempt: an exception, for *)
(* which Oban retries the job until its attempts are used up, or the death *)
(* of the node, after which nothing picks the job up.                      *)
WorkerFails(j) ==
  /\ job[j].pc \notin {"none", "available", "done", "orphaned"}
  /\ budget.failures > 0
  /\ budget' = [budget EXCEPT !.failures = @ - 1]
  /\ \/ Leave(j, "orphaned")
     \/ Leave(j, IF LastAttempt(j) THEN "done" ELSE "available")
  /\ UNCHANGED <<plan, intent, current, request, op, switch, cancelling,
                 aborted, pausedSince>>

-----------------------------------------------------------------------------
(* The chain adapter: handleTransferDispatch awaits executeTransfer, so    *)
(* the reply to a dispatch comes after all of its callbacks.  The adapter  *)
(* does not look for an earlier request of the same plan.                  *)

Landed == {o \in Ops : op[o].chain \in {"success", "failure"}}

AdapterStep(o, row) ==
  /\ op' = [op EXCEPT ![o] = row]
  /\ UNCHANGED <<request, job, current, switch, cancelling, budget, aborted,
                 pausedSince>>

(* Payload, chain or asset refused: 400 or 422. *)
RejectDispatch(o) ==
  /\ op[o].pc = "received"
  /\ AdapterStep(o, [op[o] EXCEPT !.pc = "done", !.reply = "4xx"])
  /\ UNCHANGED <<plan, intent>>

(* Build and sign the user operation with the account's next nonce (the    *)
(* operations that have landed so far stand for their number), or report   *)
(* userop_build_failed.                                                    *)
BuildUserOp(o) ==
  /\ op[o].pc = "received"
  /\ \/ AdapterStep(o, [op[o] EXCEPT !.pc = "built", !.nonce = Landed])
     \/ AdapterStep(o, [op[o] EXCEPT !.pc = "aborted"])
  /\ UNCHANGED <<plan, intent>>

(* Submit it: accepted, refused by the bundler, or accepted under another  *)
(* hash than the adapter computed.                                         *)
SendUserOp(o) ==
  /\ op[o].pc = "built"
  /\ \/ AdapterStep(o, [op[o] EXCEPT !.pc = "broadcast", !.chain = "mempool"])
     \/ AdapterStep(o, [op[o] EXCEPT !.pc = "aborted"])
     \/ AdapterStep(o, [op[o] EXCEPT !.pc = "aborted", !.chain = "mempool"])
  /\ UNCHANGED <<plan, intent>>

(* Mutant of AwaitReceipt: an included operation counts as a success. *)
AwaitReceiptOptimistic(o) ==
  /\ op[o].pc = "confirming"
  /\ \/ /\ op[o].chain \in {"success", "failure"}
        /\ AdapterStep(o, [op[o] EXCEPT !.pc = "confirmed"])
     \/ AdapterStep(o, [op[o] EXCEPT !.pc = "aborted"])
  /\ UNCHANGED <<plan, intent>>

(* The receipt arrives, or waiting for it fails (confirmation_failed). *)
AwaitReceipt(o) ==
  /\ op[o].pc = "confirming"
  /\ \/ /\ op[o].chain = "success"
        /\ AdapterStep(o, [op[o] EXCEPT !.pc = "confirmed"])
     \/ /\ op[o].chain = "failure"
        /\ AdapterStep(o, [op[o] EXCEPT !.pc = "reverted"])
     \/ AdapterStep(o, [op[o] EXCEPT !.pc = "aborted"])
  /\ UNCHANGED <<plan, intent>>

(* A submitted operation is included while its nonce is the account's next *)
(* one, whatever became of the request that submitted it.                  *)
Land(o) ==
  /\ op[o].chain = "mempool"
  /\ op[o].nonce = Landed
  /\ \/ AdapterStep(o, [op[o] EXCEPT !.chain = "success"])
     \/ AdapterStep(o, [op[o] EXCEPT !.chain = "failure"])
  /\ UNCHANGED <<plan, intent>>

AllowedPriorStates(kind) ==
  CASE kind = "broadcast" -> {"signing"}
    [] kind \in {"confirmed", "reverted"} -> {"broadcasting",
                                              "pending_confirmation"}
    [] kind = "aborted" -> {"prepared", "signing"}

(* Mutant of StatusFor: the callback's kind is stored as the status. *)
StatusForUnmapped(kind) == kind

StatusFor(kind) == IF kind = "broadcast" THEN "broadcasting" ELSE kind

(* advance_intent_for_kind: a broadcast only recovers a decided intent;    *)
(* a terminal callback moves the intent whatever its state.                *)
IntentFor(kind, state) ==
  CASE kind = "broadcast" -> IF state = "decided" THEN "executing" ELSE state
    [] kind = "confirmed" -> "executed"
    [] kind \in {"reverted", "aborted"} -> "blocked"

(* apply_execution_callback under the plan's row lock: a terminal plan and *)
(* an illegal prior state leave everything as it is (and the adapter still *)
(* gets a 200).                                                            *)
ApplyExecutionCallback(kind, p) ==
  IF /\ plan[p].status \notin Terminal
     /\ plan[p].status \in AllowedPriorStates(kind)
    THEN /\ plan' = [plan EXCEPT ![p].status = StatusFor(kind),
                                 ![p].active = @ /\ kind = "broadcast"]
         /\ intent' = IntentFor(kind, intent)
    ELSE UNCHANGED <<plan, intent>>

(* The callback reaches the control plane and its answer the adapter:      *)
(* after a broadcast the adapter goes on to wait for the receipt, after a  *)
(* terminal one it replies to the dispatch.                                *)
DeliverCallback(o) ==
  /\ op[o].pc \in Kinds
  /\ ApplyExecutionCallback(op[o].pc, op[o].plan)
  /\ \/ /\ op[o].pc = "broadcast"
        /\ AdapterStep(o, [op[o] EXCEPT !.pc = "confirming"])
     \/ /\ op[o].pc = "aborted"
        /\ AdapterStep(o, [op[o] EXCEPT !.pc = "done", !.reply = "5xx"])
     \/ /\ op[o].pc \in {"confirmed", "reverted"}
        /\ AdapterStep(o, [op[o] EXCEPT !.pc = "done", !.reply = "2xx"])

(* The delivery fails, before or after the control plane has applied it:   *)
(* CallbackError, the request ends with a 502 and nothing is sent again.   *)
LoseCallback(o) ==
  /\ op[o].pc \in Kinds
  /\ \/ UNCHANGED <<plan, intent>>
     \/ ApplyExecutionCallback(op[o].pc, op[o].plan)
  /\ AdapterStep(o, [op[o] EXCEPT !.pc = "done", !.reply = "5xx"])

-----------------------------------------------------------------------------
(* Operators, agents and the world around. *)

(* Mutant of AbortPlan: also aborts a plan a worker has claimed. *)
AbortAnyPlan(p) ==
  /\ plan[p].status \in {"prepared", "signing"}
  /\ plan' = [plan EXCEPT ![p].status = "aborted", ![p].active = FALSE]
  /\ intent' = IF intent \in {"decided", "executing"} THEN "blocked"
                                                      ELSE intent
  /\ aborted' = aborted \cup {p}
  /\ UNCHANGED <<current, request, job, op, switch, cancelling, budget,
                 pausedSince>>

(* abort_plan: only a prepared plan, under the row lock. *)
AbortPlan(p) ==
  /\ plan[p].status = "prepared"
  /\ plan' = [plan EXCEPT ![p].status = "aborted", ![p].active = FALSE]
  /\ intent' = IF intent \in {"decided", "executing"} THEN "blocked"
                                                      ELSE intent
  /\ aborted' = aborted \cup {p}
  /\ UNCHANGED <<current, request, job, op, switch, cancelling, budget,
                 pausedSince>>

Spend == /\ budget.changes > 0
         /\ budget' = [budget EXCEPT !.changes = @ - 1]

(* Intents.cancel reads the intent, checks its state, and writes later. *)
CheckCancellable ==
  /\ Spend /\ cancelling = "idle"
  /\ intent = "decided"
  /\ cancelling' = "checked"
  /\ UNCHANGED <<plan, intent, current, request, job, op, switch, aborted,
                 pausedSince>>

DoCancel ==
  /\ cancelling = "checked"
  /\ cancelling' = "done"
  /\ intent' = "cancelled"
  /\ UNCHANGED <<plan, current, request, job, op, switch, budget, aborted,
                 pausedSince>>

Pause ==
  /\ Spend /\ ~switch.paused
  /\ switch' = [switch EXCEPT !.paused = TRUE]
  /\ UNCHANGED <<plan, intent, current, request, job, op, cancelling,
                 aborted, pausedSince>>

(* An operator resumes, or the process that holds the pause restarts. *)
Resume ==
  /\ Spend /\ switch.paused
  /\ switch' = [switch EXCEPT !.paused = FALSE]
  /\ pausedSince' = {}
  /\ UNCHANGED <<plan, intent, current, request, job, op, cancelling,
                 aborted>>

(* The delegation is revoked, expires or becomes active again; the         *)
(* workspace loses or gains eligibility for the chain.                     *)
FlipSwitch(s) ==
  /\ Spend
  /\ switch' = [switch EXCEPT ![s] = ~@]
  /\ UNCHANGED <<plan, intent, current, request, job, op, cancelling,
                 aborted, pausedSince>>

(* A re-evaluation replaces the envelope and rewrites the intent's state   *)
(* from the state it had loaded (external to this module).                 *)
Supersede ==
  /\ Spend /\ current
  /\ current' = FALSE
  /\ intent' \in {"decided", "blocked"}
  /\ UNCHANGED <<plan, request, job, op, switch, cancelling, aborted,
                 pausedSince>>

-----------------------------------------------------------------------------
Request(p) == GateRequest(p) \/ InsertPlan(p) \/ EnqueueExecution(p)

Receive(j) == ReceiveAccepted(j) \/ ReceiveRejected(j) \/ ReceiveUnavailable(j)

Worker(j) ==
  \/ LoadEnvelope(j) \/ LoadActivePlan(j)
  \/ VerifyDelegation(j) \/ VerifyNotPaused(j) \/ VerifyEligible(j)
  \/ ClaimPlanForDispatch(j) \/ RecheckPause(j)
  \/ RefuseLocally(j) \/ Dispatch(j) \/ Receive(j)
  \/ ProgressAfterDispatch(j) \/ RevertClaim(j) \/ MarkPlanAborted(j)

Adapter(o) ==
  \/ RejectDispatch(o) \/ BuildUserOp(o) \/ SendUserOp(o) \/ AwaitReceipt(o)
  \/ DeliverCallback(o) \/ LoseCallback(o)

Environment ==
  \/ CheckCancellable \/ DoCancel
  \/ Pause \/ Resume \/ Supersede
  \/ \E s \in {"executable", "eligible"} : FlipSwitch(s)

Next ==
  \/ \E p \in Plans : Request(p) \/ Worker(p) \/ WorkerFails(p) \/ AbortPlan(p)
  \/ \E o \in Ops : Adapter(o) \/ Land(o)
  \/ Environment

Spec == Init /\ [][Next]_vars

(* Oban keeps running available jobs and the adapter's event loop keeps    *)
(* serving: every worker step and every adapter step that stays possible   *)
(* is taken.  Nothing is assumed of operators, agents, outages or the      *)
(* chain.                                                                  *)
Fairness ==
  /\ \A j \in Plans : WF_vars(Worker(j)) /\ WF_vars(EnqueueExecution(j))
  /\ \A o \in Ops : WF_vars(Adapter(o))

FairSpec == Spec /\ Fairness

-----------------------------------------------------------------------------
(* Safety. *)

(* A job between its successful claim and the end of its adapter call. *)
Holding(j) ==
  job[j].pc \in {"claimed", "cleared", "waiting", "reverting", "snoozing"}

(* Two workers never hold the same plan, and a held plan cannot be taken   *)
(* again: the claim (decisions.ex:2241) admits one dispatcher at a time,   *)
(* also when the job of an earlier plan of the decision is still retrying. *)
ExclusiveClaim ==
  \A j \in Plans : Holding(j) =>
    /\ plan[job[j].target].status # "prepared"
    /\ \A k \in Plans : Holding(k) /\ job[k].target = job[j].target => k = j

(* "Abort beats dispatch" (decisions.ex:2219): once an operator abort has  *)
(* succeeded no worker holds the plan, so none goes on to call the adapter *)
(* for it.                                                                 *)
AbortBeatsDispatch ==
  \A p \in aborted : \A j \in Plans : Holding(j) => job[j].target # p

(* The kill switch (run_execution.ex:432): a pause that was in force when  *)
(* the plan was claimed and has not been lifted since stops the adapter    *)
(* call, wherever between the gate and the request it was pulled.          *)
PauseBeatsDispatch ==
  \A j \in Plans : job[j].pc \in {"cleared", "waiting"} => j \notin pausedSince

(* A decision has at most one live plan: the slot the partial unique index *)
(* guards is released only by a plan that is over, so a second request     *)
(* (manual, automatic or concurrent) never runs beside a first.            *)
Live(p) == plan[p].status \notin Terminal \cup {"none"}

OneLivePlan == \A p, q \in Plans : Live(p) /\ Live(q) => p = q

(* What the rows say of money is true: a confirmed plan has an operation   *)
(* that succeeded on chain, a reverted one an operation that failed there, *)
(* and an intent is executed only when some plan's operation succeeded.    *)
HasOutcome(p, outcome) ==
  \E o \in Ops : op[o].plan = p /\ op[o].chain = outcome

SettledTruthfully ==
  /\ \A p \in Plans :
       /\ plan[p].status = "confirmed" => HasOutcome(p, "success")
       /\ plan[p].status = "reverted" => HasOutcome(p, "failure")
  /\ intent = "executed" => \E p \in Plans : HasOutcome(p, "success")

(* No step reopens a finished plan or turns its outcome into another one:  *)
(* neither the claim, the revert of a claim, a late callback nor an        *)
(* operator's cancel touches a terminal plan (decisions.ex:2275).  Only    *)
(* the abort of its worker, which locks nothing (run_execution.ex:733),    *)
(* may still be written over the outcome.                                  *)
TerminalStaysTerminal ==
  [][\A p \in Plans :
       plan[p].status \in Terminal =>
         plan'[p].status \in {plan[p].status, "aborted"}]_vars

(* The strengthening that makes the safety invariants inductive.           *)
(* What a worker holds it has loaded, an attempt that runs has a number,   *)
(* and it sends at most one request per attempt, after which the next      *)
(* attempt has a higher number.                                            *)
Carrying(j) == Holding(j) \/ job[j].pc \in {"loaded", "delegated", "unpaused",
                                            "gated", "accepted", "aborting"}

Running(j) == Carrying(j) \/ job[j].pc = "enveloped"

JobSound(j) ==
  /\ Carrying(j) => /\ job[j].target \in Plans
                    /\ plan[job[j].target].status # "none"
  /\ Running(j) => job[j].attempt > 0
  /\ Running(j) /\ job[j].pc \notin {"waiting", "reverting", "accepted",
                                    "aborting"}
       => op[<<j, job[j].attempt>>].pc = "unsent"
  /\ \A a \in Attempts : a > job[j].attempt => op[<<j, a>>].pc = "unsent"

JobInv == \A j \in Plans : JobSound(j)

(* A plan that is not over holds the slot of the unique index, only one    *)
(* plan holds it, a request inserts a plan that does not exist, and what   *)
(* an operator aborted is over.                                            *)
PlanInv ==
  /\ \A p \in Plans :
       /\ Live(p) => plan[p].active
       /\ request[p] \in {"idle", "gated"} => plan[p].status = "none"
       /\ p \in aborted => plan[p].status \in Terminal
  /\ \A p, q \in Plans : plan[p].active /\ plan[q].active => p = q

(* A request the adapter knows names a plan; a terminal callback reports   *)
(* what happened on chain.                                                 *)
OpInv ==
  \A o \in Ops :
    /\ op[o].pc # "unsent" => op[o].plan \in Plans
    /\ op[o].pc \in {"unsent", "received", "built"} => op[o].chain = "none"
    /\ op[o].pc = "confirmed" => op[o].chain = "success"
    /\ op[o].pc = "reverted" => op[o].chain = "failure"

(* The record of claims that have known only pause is empty unless there   *)
(* is one.                                                                 *)
PauseInv == pausedSince # {} => switch.paused

Inv ==
  /\ JobInv /\ PlanInv /\ OpInv /\ PauseInv
  /\ ExclusiveClaim /\ AbortBeatsDispatch /\ PauseBeatsDispatch
  /\ SettledTruthfully

(* Refinement: the rows and the workers implement DispatchLicence.  A      *)
(* prepared plan is open, a signing one taken; from the broadcast on it is *)
(* closed; the licence is the claim a worker holds.                        *)
GateOf(p) ==
  CASE plan[p].status = "none" -> "none"
    [] plan[p].status = "prepared" -> "open"
    [] plan[p].status = "signing" -> "taken"
    [] OTHER -> "closed"

Holders(p) == {j \in Plans : Holding(j) /\ job[j].target = p}

Licence ==
  INSTANCE DispatchLicence WITH
    Workers <- Plans,
    gate <- [p \in Plans |-> GateOf(p)],
    licence <- [p \in Plans |-> Holders(p)],
    withdrawn <- aborted

(* Every step of workers, adapter and operators is a step of the licence   *)
(* protocol or leaves it alone: claims are granted on open plans only and  *)
(* one at a time, an abort withdraws open plans only, and closed is final. *)
ImplementsLicence == Licence!LicenceSpec

(* Liveness: a plan does not rust in prepared or signing while its         *)
(* envelope is current; the last-attempt guard (run_execution.ex:115) ends *)
(* it when the adapter never answers.  This is promised of behaviours in   *)
(* which no worker dies: a death between the claim and the answer leaves   *)
(* the plan signing, and no code ever moves it again.                      *)
DispatchSettles ==
  [](budget.failures = MaxFailures) =>
    \A p \in Plans :
      <>[](plan[p].status \in {"prepared", "signing"} => ~current)

-----------------------------------------------------------------------------
(* What the text of the repository says and the code does not do; each is  *)
(* refuted by a configuration of its own.                                  *)

(* run_execution.ex:660: "Already past :decided ... Don't downgrade; just  *)
(* keep the intent where it is."                                           *)
AcceptedNeverDowngrades ==
  [][\A j \in Plans :
       job[j].pc = "accepted" /\ job'[j].pc = "done" /\ intent # "decided"
         => intent' = intent]_vars

(* run_execution.ex:192: a plan that moved past prepared, "a concurrent    *)
(* dispatch or a stale retry", is to "fail terminal rather than            *)
(* double-dispatch": no plan's operation succeeds on chain twice.          *)
PaidAtMostOnce ==
  \A o, q \in Ops :
    /\ op[o].plan = op[q].plan
    /\ op[o].chain = "success" /\ op[q].chain = "success"
    => o = q

(* decisions.ex:2334: "the plan never reached the adapter while in         *)
(* :prepared": nothing of an operator-aborted plan is submitted.           *)
AbortedNeverReachedAdapter ==
  \A p \in aborted : ~HasOutcome(p, "mempool") /\ ~HasOutcome(p, "success")

(* decisions.ex:2453: "both code paths share the symmetric                 *)
(* 'terminal -> !active' invariant".                                       *)
TerminalIsInactive ==
  \A p \in Plans : plan[p].status \in Terminal => ~plan[p].active

(* docs/incident-runbook.md:329: a plan whose callback never came "ages    *)
(* out to :aborted via the safety-net poller": a broadcast plan ends.      *)
BroadcastAgesOut ==
  \A p \in Plans :
    plan[p].status = "broadcasting" ~> plan[p].status \in Terminal
=============================================================================
