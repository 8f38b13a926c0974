\* The code violates each property below; TLC stops at the first it finds, so
\* leave one in to see its own counterexample.
SPECIFICATION FairSpec
CONSTANTS
  First = First
  Reevaluations = {}
  Requests = {}
  MaxEnvelopes = 2
  MaxPlans = 0
  MaxFailures = 1
PROPERTIES
  DeadlineNeverSlips
  HoldReleased
CHECK_DEADLOCK FALSE
