SPECIFICATION Spec
CONSTANTS
  Plans = {p1, p2}
  MaxPosts = 1
  Bodies <- RacingBodies
  Headers = {"bearer"}
  Fees = {1, 2}
  Funds = 3
  Horizon = 0
  ChainIds = {1, 8453, 84532}
  MaxFaults = 1
  None = None
INVARIANTS
  TypeOK
  SpendBounded
  ReportsOwnOp
PROPERTIES
  ImplementsReports
SYMMETRY PlanSymmetry
CHECK_DEADLOCK FALSE
