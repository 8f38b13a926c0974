SPECIFICATION FairSpec
CONSTANTS
  Plans = {p1}
  NoPlan = NoPlan
  MaxAttempts = 2
  MaxChanges = 0
  MaxFailures = 0
PROPERTY
  BroadcastAgesOut
CHECK_DEADLOCK FALSE
