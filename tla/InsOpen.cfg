\* The code violates each property below; TLC stops at the first it finds, so
\* leave one in to see its own counterexample.
SPECIFICATION Spec
CONSTANTS
  a = a
  b = b
  Clicks = {c1}
  Bound = a
  Exposures <- SwitchingAccounts
  MaxActs = 1
  MaxQueue = 2
  None = None
INVARIANTS
  SignedByBound
  AnchoredRow
PROPERTIES
  SignerFailureNamed
CHECK_DEADLOCK FALSE
