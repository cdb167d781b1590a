\* Two clients, a broadcast channel of two entries, a queue of one: a client
\* lags after three notifications.  A crash and a relaunch, so that the second
\* call can be made by a client that reconnects.
SPECIFICATION Spec
CONSTANTS
  Subs = {s1, s2}
  Readers = {}
  BroadcastCap = 2
  ClientCap = 1
  CanonCap = 2
  Kinds = {"commit", "reorg"}
  MaxCanon = 3
  MaxLaunches = 2
SYMMETRY CallSymmetry
INVARIANTS
  TypeOK
  DeliveredInOrder
  EveryGapCounted
  FinishedBeforeVisible
  NoUnexplainedGap
  ReconnectNeverRepeats
  StreamStaysOpen
PROPERTIES
  FeedSpec
CHECK_DEADLOCK FALSE
