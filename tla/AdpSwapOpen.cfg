\* The code violates each property below; TLC stops at the first it finds, so
\* leave one in to see its own counterexample.
SPECIFICATION Spec
CONSTANTS
  Plans = {p1}
  MaxPosts = 1
  Bodies <- OneSwap
  Headers = {"bearer"}
  Fees = {1}
  Funds = 3
  Horizon = 1
  ChainIds = {8453, 84532}
  MaxFaults = 0
  None = None
INVARIANTS
  SwapReportsExact
  BatchesOnTestnet
PROPERTIES
  SubmittedInTime
CHECK_DEADLOCK FALSE
