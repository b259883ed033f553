SPECIFICATION Spec
CONSTANTS
  MaxCompactions = 4
  MaxFacts = 4
  maximum_attempts = 2
  failure_threshold = 2
INVARIANTS
  HaltsOnlyOnLoss
