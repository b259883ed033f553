SPECIFICATION FairSpec
CONSTANTS
  MaxCalls = 2
  Interrupts = TRUE
INVARIANTS
  ResultsTruthful
  NothingRunsUnreported
  ContinuesAtRest
PROPERTIES
  ImplementsLedger
  CallSettles
CHECK_DEADLOCK FALSE
