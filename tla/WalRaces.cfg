\* The code violates each property below; TLC stops at the first it finds, so
\* leave one in to see its own counterexample.
SPECIFICATION Spec
CONSTANTS
  Wallets = {w1, w2}
  Known = {w1}
  Legacy = None
  a = a
  b = b
  Accounts = {a, b}
  Exposures <- OneAccount
  MaxRows = 6
  MaxActs = 2
  MaxBusy = 2
  None = None
INVARIANTS
  PillReflects
PROPERTIES
  SelectionSticks
CHECK_DEADLOCK FALSE
