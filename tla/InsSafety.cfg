SPECIFICATION FairSpec
CONSTANTS
  a = a
  b = b
  Clicks = {c1, c2}
  Bound = a
  Exposures <- OneAccount
  MaxActs = 1
  MaxQueue = 2
  None = None
INVARIANTS
  TypeOK
  AcceptedBeforeShown
  AwaitingIsBacked
PROPERTIES
  ClickAnswered
CHECK_DEADLOCK FALSE
