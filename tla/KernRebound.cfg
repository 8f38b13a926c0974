SPECIFICATION Spec
CONSTANTS
  operator = operator
  session = session
  EOAs <- MCEOAs
  Envs <- TwoAccountEnvs
  Provisions = {p1, p2}
  Checks = {}
  Grants = {g}
  Revokes = {r}
  Fees = {0}
  MaxChanges = 0
  MaxBoots = 2
  Stored <- MCStored
  Absent = Absent
  Malformed = Malformed
  None = None
INVARIANTS
  RevokedWhereGranted
CHECK_DEADLOCK FALSE
