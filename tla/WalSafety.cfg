SPECIFICATION FairSpec
CONSTANTS
  Wallets = {w1, w2}
  Known = {w1}
  Legacy = None
  a = a
  b = b
  Accounts = {a, b}
  Exposures <- OneAccount
  MaxRows = 6
  MaxActs = 2
  MaxBusy = 0
  None = None
INVARIANTS
  TypeOK
  ProvenBinding
  CardShowsActive
  PillIsBacked
PROPERTIES
  ConnectAnswered
  ImplementsLifecycle
CHECK_DEADLOCK FALSE
