-------------------------- MODULE MCPlanExecution --------------------------
(* Small instances of PlanExecution for TLC. *)
EXTENDS PlanExecution, TLC, FiniteSets

(* Plans are interchangeable. *)
PlanSymmetry == Permutations(Plans)

(* A bound for the instances with two plans: at most two adapter requests, *)
(* whichever jobs and attempts send them.                                  *)
TwoDispatches == Cardinality({o \in Ops : op[o].pc # "unsent"}) <= 2
=============================================================================
