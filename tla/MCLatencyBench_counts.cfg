SPECIFICATION Spec
CONSTANTS
  Fetches = TRUE
  EofIsError = FALSE
  ChecksAck = TRUE
  ChCap = 1
  ErrCap = 2
  Timeout = 1
  Target = 2
  MaxHeight = 3
  MaxReorgs = 0
  MaxTickLag = 1
INVARIANTS
  CountsAreConsistent
CHECK_DEADLOCK FALSE
