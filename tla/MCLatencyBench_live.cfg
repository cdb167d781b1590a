SPECIFICATION FairSpec
CONSTANTS
  Fetches = TRUE
  EofIsError = TRUE
  ChecksAck = TRUE
  ChCap = 1
  ErrCap = 2
  Timeout = 1
  Target = 1
  MaxHeight = 2
  MaxReorgs = 0
  MaxTickLag = 0
PROPERTIES
  EntryResolved
  SubscriberNeverStuck
  FailureEndsRun
  CancelEndsRun
CHECK_DEADLOCK FALSE
