SPECIFICATION FairSpec
CONSTANTS
  Plans = {p1}
  NoPlan = NoPlan
  MaxAttempts = 2
  MaxChanges = 2
  MaxFailures = 1
INVARIANTS
  TypeOK
  AbortBeatsDispatch
  PauseBeatsDispatch
  SettledTruthfully
PROPERTIES
  TerminalStaysTerminal
  ImplementsLicence
  DispatchSettles
CHECK_DEADLOCK FALSE
