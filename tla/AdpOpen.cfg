\* The code violates each property below; TLC stops at the first it finds, so
\* leave one in to see its own counterexample.
SPECIFICATION Spec
CONSTANTS
  Plans = {p1, p2}
  MaxPosts = 1
  Bodies <- OneTransfer
  Headers = {"bearer"}
  Fees = {1}
  Funds = 3
  Horizon = 0
  ChainIds = {84532}
  MaxFaults = 0
  None = None
INVARIANTS
  ConfirmedApart
  RevertsReported
CHECK_DEADLOCK FALSE
