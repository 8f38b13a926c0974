SPECIFICATION FairSpec
CONSTANTS
  Permission = perm
  Installs = {i1}
  Connects = {g1}
  Revokes = {r1}
  Refusals = TRUE
  Enforced = TRUE
  HonestBrowser = FALSE
  MaxAttempts = 2
  MaxFaults = 0
INVARIANTS
  TypeOK
  OneLiveRow
  RevokedOnProof
  ActiveWasVerified
PROPERTIES
  PendingSettles
CHECK_DEADLOCK FALSE
