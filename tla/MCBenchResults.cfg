SPECIFICATION Spec
CONSTANTS
  Programs <- SomePrograms
  Flags <- SomeFlags
  Numbers = {1, 2}
  Timeout = 1
  MaxArrivals = 2
  MaxLag = 1
  MaxTickLag = 1
  MaxTime = 7
INVARIANTS
  DeltaInBounds
  PayloadFromStream
  SummaryHonest
CHECK_DEADLOCK FALSE
