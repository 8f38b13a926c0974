SPECIFICATION Spec
CONSTANTS
  First = First
  Reevaluations = {again}
  Requests = {manual}
  MaxEnvelopes = 3
  MaxPlans = 2
  MaxFailures = 1
INVARIANTS
  TypeOK
  ChainSound
  NoParallelAuto
PROPERTIES
  ImplementsVerdictLog
CHECK_DEADLOCK FALSE
