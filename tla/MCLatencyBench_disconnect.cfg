SPECIFICATION Spec
CONSTANTS
  Fetches = FALSE
  EofIsError = FALSE
  ChecksAck = FALSE
  ChCap = 1
  ErrCap = 2
  Timeout = 1
  Target = 2
  MaxHeight = 2
  MaxReorgs = 0
  MaxTickLag = 0
INVARIANTS
  OtherBlocksContinue
CHECK_DEADLOCK FALSE
