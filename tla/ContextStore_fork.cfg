SPECIFICATION Spec
CONSTANTS
  Procs = {w1, w2}
  Paths = {"named", "renamed"}
  MaxFacts = 3
  AtomicReplace = FALSE
  Uses = {{"rename", "repair"}}
INVARIANTS
  OneOfficial
CHECK_DEADLOCK FALSE
