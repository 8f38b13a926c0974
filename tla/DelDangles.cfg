SPECIFICATION FairSpec
CONSTANTS
  Permission = perm
  Installs = {}
  Connects = {g1}
  Revokes = {r1, r2}
  Refusals = FALSE
  Enforced = TRUE
  HonestBrowser = FALSE
  MaxAttempts = 2
  MaxFaults = 0
PROPERTIES
  NeverDangles
CHECK_DEADLOCK FALSE
