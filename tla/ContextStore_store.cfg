SPECIFICATION Spec
CONSTANTS
  Procs = {w1, w2}
  Paths = {"named", "renamed"}
  MaxFacts = 3
  AtomicReplace = FALSE
  Uses = {{"rename"}, {"repair"}}
INVARIANTS
  ConfirmedSurvives
  OneWriter
  OneOfficial
PROPERTIES
  ImplementsHistory
CHECK_DEADLOCK FALSE
