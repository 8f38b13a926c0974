SPECIFICATION FairSpec
CONSTANTS
  Plans = {p1}
  MaxPosts = 2
  Bodies <- CheckedBodies
  Headers = {"bearer", "wrong"}
  Fees = {1}
  Funds = 3
  Horizon = 1
  ChainIds = {84532}
  MaxFaults = 1
  None = None
PROPERTIES
  DispatchAnswered
CHECK_DEADLOCK FALSE
