SPECIFICATION FairWorkersSpec
CONSTANTS
  a = a
  b = b
  Clicks = {c1}
  Bound = a
  Exposures <- OneAccount
  MaxActs = 0
  MaxQueue = 2
  None = None
PROPERTY
  FailureShown
CHECK_DEADLOCK FALSE
