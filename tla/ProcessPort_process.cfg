SPECIFICATION Spec
CONSTANTS
  Process = {1, 2}
  Leader = 1
  MaxOutput = 2
  MaxFaults = 1
  Budgets = {1, 3}
INVARIANTS ProofHolds OutcomeTruthful TerminalComplete
PROPERTIES CancelSettles NothingOutlivesOwner EndIsTold
CHECK_DEADLOCK FALSE
