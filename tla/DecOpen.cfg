\* The code violates each property below; TLC stops at the first it finds, so
\* leave one in to see its own counterexample.
SPECIFICATION Spec
CONSTANTS
  First = First
  Reevaluations = {again}
  Requests = {}
  MaxEnvelopes = 4
  MaxPlans = 2
  MaxFailures = 0
INVARIANTS
  OneActiveAuto
PROPERTIES
  EvaluatedOnlyWhenLegal
  NeverBackToDecided
  CancelledIsTerminal
CHECK_DEADLOCK FALSE
