SPECIFICATION Spec
CONSTANTS
  operator = operator
  session = session
  EOAs <- MCEOAs
  Envs <- SafetyEnvs
  Provisions = {p1, p2}
  Checks = {k}
  Grants = {g}
  Revokes = {r}
  Fees = {0}
  MaxChanges = 1
  MaxBoots = 1
  Stored <- OldBlock
  Absent = Absent
  Malformed = Malformed
  None = None
SYMMETRY ProvisionSymmetry
INVARIANTS
  TypeOK
  ReceiptTrue
  BootedOnVerified
  SessionIsNotRoot
  PermissionAsReported
CHECK_DEADLOCK FALSE
