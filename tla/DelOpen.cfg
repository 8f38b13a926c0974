\* The code violates each property below; TLC stops at the first it finds, so
\* leave one in to see its own counterexample.
SPECIFICATION Spec
CONSTANTS
  Permission = perm
  Installs = {i1}
  Connects = {g1}
  Revokes = {r1}
  Refusals = TRUE
  Enforced = FALSE
  HonestBrowser = FALSE
  MaxAttempts = 2
  MaxFaults = 0
INVARIANTS
  ActiveIsInstalled
  FailedIsStillLive
PROPERTIES
  FailClosed
  InstallFailsFromPending
  RevokedIsTerminal
CHECK_DEADLOCK FALSE
