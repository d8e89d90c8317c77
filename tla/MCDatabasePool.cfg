SPECIFICATION Spec
CONSTANTS
  k1 = k1
  k2 = k2
  Workers = {1, 2}
  Directs = {3}
  Keys = {k1, k2}
  Operations <- MCOperations
  LoopBreaker = 2
  MaxOps = 3
  MaxFaults = 1
CONSTRAINT Once
INVARIANTS TypeOK OnlyRefusedAreLost OnceAndInOrder
PROPERTIES ImplementsStore EveryOperationEnds CloseCompletes
CHECK_DEADLOCK FALSE
