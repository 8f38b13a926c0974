-------------------------- MODULE DispatchLicence --------------------------
(***************************************************************************)
(* What the dispatch protocol of execution plans promises, without saying  *)
(* how: a plan is open, taken or closed, and a worker may hand a plan to   *)
(* the chain adapter only while it holds the plan's licence.  There is at  *)
(* most one licence per plan, it is granted only on an open plan, and a    *)
(* plan that closed is never opened again.  "Whichever transaction         *)
(* acquires the row lock first wins" (lib/bank/decisions.ex, the           *)
(* documentation of claim_plan_for_dispatch/1) is the claim that an        *)
(* operator abort and a licence exclude each other.                        *)
(*                                                                         *)
(* PlanExecution implements this module.                                   *)
(***************************************************************************)
CONSTANTS Plans,   \* execution plans
          Workers  \* the RunExecution jobs that dispatch them

VARIABLES gate,      \* plan -> may it be taken?
          licence,   \* plan -> the workers holding its licence
          withdrawn  \* plans an operator aborted

licenceVars == <<gate, licence, withdrawn>>

Gates == {"none", "open", "taken", "closed"}

LicenceTypeOK ==
  /\ gate \in [Plans -> Gates]
  /\ licence \in [Plans -> SUBSET Workers]
  /\ withdrawn \in SUBSET Plans

LicenceInit ==
  /\ gate = [p \in Plans |-> "none"]
  /\ licence = [p \in Plans |-> {}]
  /\ withdrawn = {}

(* A plan is created open. *)
Open(p) ==
  /\ gate[p] = "none"
  /\ gate' = [gate EXCEPT ![p] = "open"]
  /\ UNCHANGED <<licence, withdrawn>>

(* A worker takes an open plan: nobody else holds it. *)
Grant(p, w) ==
  /\ gate[p] = "open"
  /\ licence[p] = {}
  /\ gate' = [gate EXCEPT ![p] = "taken"]
  /\ licence' = [licence EXCEPT ![p] = {w}]
  /\ UNCHANGED withdrawn

(* The holder gives the licence back, and the plan opens again if it is    *)
(* still taken.                                                            *)
GiveBack(p, w) ==
  /\ w \in licence[p]
  /\ gate' = [gate EXCEPT ![p] = IF @ = "taken" THEN "open" ELSE @]
  /\ licence' = [licence EXCEPT ![p] = {}]
  /\ UNCHANGED withdrawn

(* The holder stops (finished, crashed): the plan stays as it is. *)
Drop(p, w) ==
  /\ w \in licence[p]
  /\ licence' = [licence EXCEPT ![p] = {}]
  /\ UNCHANGED <<gate, withdrawn>>

(* The plan moves past dispatch: the adapter reported on it, or a worker   *)
(* gave it up; a holder may stop in the same step.                         *)
Close(p, keep) ==
  /\ gate[p] # "none"
  /\ gate' = [gate EXCEPT ![p] = "closed"]
  /\ licence' = [licence EXCEPT ![p] = keep]
  /\ keep \in SUBSET licence[p]
  /\ UNCHANGED withdrawn

(* The operator abort closes an open plan, and only an open one. *)
Withdraw(p) ==
  /\ gate[p] = "open"
  /\ licence[p] = {}
  /\ gate' = [gate EXCEPT ![p] = "closed"]
  /\ withdrawn' = withdrawn \cup {p}
  /\ UNCHANGED licence

LicenceNext ==
  \E p \in Plans :
    \/ Open(p)
    \/ Withdraw(p)
    \/ \E keep \in SUBSET Workers : Close(p, keep)
    \/ \E w \in Workers : Grant(p, w) \/ GiveBack(p, w) \/ Drop(p, w)

LicenceSpec == LicenceInit /\ [][LicenceNext]_licenceVars
=============================================================================
