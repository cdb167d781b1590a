SPECIFICATION Spec
CONSTANTS
  N = 2
  w1 = w1
  w2 = w2
  Workers = {w1, w2}
  WorkCap = 1
  MaxBlocks = 4
  MaxRpcFails = 2
INVARIANTS
  ExitsAfterExactlyN
SYMMETRY WorkerSymmetry
CHECK_DEADLOCK FALSE
