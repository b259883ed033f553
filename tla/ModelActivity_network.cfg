SPECIFICATION FairSpec
CONSTANTS
  retry_count = 2
  maximum_redirects = 2
  Budget = 3
  MaxBurst = 7
INVARIANTS
  RequestHeld
PROPERTIES
  NoReplay
  RequestEnds
CHECK_DEADLOCK FALSE
