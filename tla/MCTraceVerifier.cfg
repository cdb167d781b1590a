SPECIFICATION FairSpec
CONSTANTS
  N = 3
  w1 = w1
  w2 = w2
  Workers = {w1, w2}
  WorkCap = 1
  MaxBlocks = 4
  MaxRpcFails = 4
INVARIANTS
  TypeOK
  NoSendOnClosed
  MismatchMeansReorg
PROPERTIES
  StreamEndEndsRun
  HungCallHoldsOneBlock
  PoolSpec
CHECK_DEADLOCK FALSE
