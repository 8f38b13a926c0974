SPECIFICATION Spec
CONSTANTS
  operator = operator
  session = session
  EOAs <- MCEOAs
  Envs <- IntendedEnvs
  Provisions = {p}
  Checks = {}
  Grants = {g}
  Revokes = {r}
  Fees = {0}
  MaxChanges = 0
  MaxBoots = 1
  Stored <- MCStored
  Absent = Absent
  Malformed = Malformed
  None = None
INVARIANTS
  FailedRevokeIsOver
CHECK_DEADLOCK FALSE
