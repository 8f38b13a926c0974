SPECIFICATION Spec
CONSTANTS
  Wallets = {w1}
  Known = {w1}
  Legacy = None
  a = a
  b = b
  Accounts = {a, b}
  Exposures <- OneAccount
  MaxRows = 6
  MaxActs = 2
  MaxBusy = 0
  None = None
PROPERTIES
  DisconnectClears
CHECK_DEADLOCK FALSE
