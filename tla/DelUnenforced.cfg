SPECIFICATION Spec
CONSTANTS
  Permission = perm
  Installs = {i1, i2}
  Connects = {g1}
  Revokes = {}
  Refusals = FALSE
  Enforced = FALSE
  HonestBrowser = TRUE
  MaxAttempts = 2
  MaxFaults = 0
INVARIANTS
  ActiveWasVerified
CHECK_DEADLOCK FALSE
