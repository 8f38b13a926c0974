SPECIFICATION Spec
CONSTANTS
  Plans = {p1}
  NoPlan = NoPlan
  MaxAttempts = 2
  MaxChanges = 0
  MaxFailures = 0
INVARIANT
  PaidAtMostOnce
CHECK_DEADLOCK FALSE
