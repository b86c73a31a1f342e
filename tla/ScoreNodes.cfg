SPECIFICATION Spec
CONSTANTS
  MaxLen = 4
  Uptimes = {98, 99}
  SIMPoolSizes = {0, 1, 2}
CHECK_DEADLOCK FALSE
INVARIANT SortedByUptimeThenPool
