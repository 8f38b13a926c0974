SPECIFICATION Spec
CONSTANTS
  operator = operator
  session = session
  EOAs <- MCEOAs
  Envs <- IntendedEnvs
  Provisions = {p}
  Checks = {}
  Grants = {g}
  Revokes = {r1, r2}
  Fees = {0}
  MaxChanges = 1
  MaxBoots = 2
  Stored <- MCStored
  Absent = Absent
  Malformed = Malformed
  None = None
INVARIANTS
  PermissionAsReported
CHECK_DEADLOCK FALSE
