\* The code violates each property below; TLC stops at the first it finds, so
\* leave one in to see its own counterexample.
SPECIFICATION Spec
CONSTANTS
  Plans = {p1}
  NoPlan = NoPlan
  MaxAttempts = 2
  MaxChanges = 0
  MaxFailures = 0
INVARIANTS
  AbortedNeverReachedAdapter
  TerminalIsInactive
PROPERTIES
  AcceptedNeverDowngrades
CHECK_DEADLOCK FALSE
