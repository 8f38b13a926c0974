\* The code violates each property below; TLC stops at the first it finds, so
\* leave one in to see its own counterexample.
SPECIFICATION Spec
CONSTANTS
  operator = operator
  session = session
  EOAs <- MCEOAs
  Envs <- IntendedEnvs
  Provisions = {p1, p2}
  Checks = {k}
  Grants = {}
  Revokes = {}
  Fees = {0}
  MaxChanges = 1
  MaxBoots = 0
  Stored <- OldBlock
  Absent = Absent
  Malformed = Malformed
  None = None
INVARIANTS
  VerifiedOwner
  ReceiptDeployed
CHECK_DEADLOCK FALSE
