SPECIFICATION Spec
CONSTANTS
  k1 = k1
  k2 = k2
  Workers = {1, 2}
  Directs = {3}
  Keys = {k1, k2}
  Operations <- MCOperations
  LoopBreaker = 2
  MaxOps = 3
  MaxFaults = 1
INVARIANT AllOrNothing
CHECK_DEADLOCK FALSE
