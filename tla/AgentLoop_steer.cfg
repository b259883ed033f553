SPECIFICATION Spec
CONSTANTS
  MaxCalls = 2
  ModelRequestLimit = 3
  MaxTurns = 1
  MaxSteers = 1
  AutomaticCompaction = TRUE
  Reviews = TRUE
  DoubleCheck = TRUE
  Refusals = TRUE
  InexactCommits = TRUE
INVARIANTS
  NoFault
CHECK_DEADLOCK FALSE
