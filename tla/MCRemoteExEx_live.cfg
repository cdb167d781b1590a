\* One client reads, the other need not; channels of one entry, so that three
\* notifications fill the queue, the task's hand and the broadcast channel.
SPECIFICATION FairSpec
CONSTANTS
  Subs = {s1, s2}
  Readers = {s1}
  BroadcastCap = 1
  ClientCap = 1
  CanonCap = 1
  Kinds = {"commit"}
  MaxCanon = 3
  MaxLaunches = 1
PROPERTIES
  ProducerNeverBlocks
  ReaderKeepsUp
  GoneTaskReaped
  ClosedEndsTasks
CHECK_DEADLOCK FALSE
