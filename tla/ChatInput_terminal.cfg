SPECIFICATION Spec
CONSTANTS
  Worker = {1, 2, 3}
  MaxTyped = 3
  MaxFaults = 1
  Budget = 2
  MaxHeld = 1
INVARIANTS CloseLeavesNothing WorkersKeepTheirMemory InputInOrder
PROPERTIES PasteSettles CancelTold
CHECK_DEADLOCK FALSE
