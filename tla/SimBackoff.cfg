SPECIFICATION Spec
CONSTANTS
  DormantInterval = 3
  MaxBackoff = 12
  PassTime = 2
  MaxFails = 5
INVARIANTS ProbedInTime BackoffDoublesUpToMax
