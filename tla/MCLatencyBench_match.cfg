SPECIFICATION Spec
CONSTANTS
  Fetches = FALSE
  EofIsError = FALSE
  ChecksAck = FALSE
  ChCap = 1
  ErrCap = 2
  Timeout = 1
  Target = 2
  MaxHeight = 1
  MaxReorgs = 2
  MaxTickLag = 1
INVARIANTS
  TypeOK
  ArrivalsUsedOnce
  NoArrivalDropped
  NoEntryOverstays
CHECK_DEADLOCK FALSE
