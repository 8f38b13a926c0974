SPECIFICATION Spec
CONSTANTS
  Permission = perm
  Installs = {}
  Connects = {g1, g2}
  Revokes = {r1, r2}
  Refusals = TRUE
  Enforced = TRUE
  HonestBrowser = FALSE
  MaxAttempts = 2
  MaxFaults = 1
PROPERTIES
  ImplementsLifecycle
CHECK_DEADLOCK FALSE
