SPECIFICATION Spec
CONSTANTS
  MaxCalls = 1
  Interrupts = TRUE
INVARIANTS
  HaltsOnlyOnFailure
CHECK_DEADLOCK FALSE
