SPECIFICATION FairSpec
CONSTANTS
  MaxCalls = 2
  ModelRequestLimit = 3
  MaxTurns = 1
  MaxSteers = 1
  AutomaticCompaction = TRUE
  Reviews = TRUE
  DoubleCheck = TRUE
  Refusals = TRUE
  InexactCommits = TRUE
INVARIANTS
  OneForeground
  RequestsOweNothing
  GatesPassed
  LastTurnSettled
  TerminalPrecedence
PROPERTIES
  NothingStartsAfterCancel
  CancelSettles
  CloseCompletes
CHECK_DEADLOCK FALSE
