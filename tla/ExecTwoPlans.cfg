SPECIFICATION Spec
CONSTANTS
  Plans = {p1, p2}
  NoPlan = NoPlan
  MaxAttempts = 2
  MaxChanges = 0
  MaxFailures = 0
INVARIANTS
  ExclusiveClaim
  OneLivePlan
SYMMETRY PlanSymmetry
CONSTRAINT TwoDispatches
CHECK_DEADLOCK FALSE
