\* docs/design/exex-grpc-push-design.md:91 against the channel as it is.
SPECIFICATION Spec
CONSTANTS
  Subs = {s1, s2}
  Readers = {}
  BroadcastCap = 2
  ClientCap = 1
  CanonCap = 2
  Kinds = {"commit"}
  MaxCanon = 4
  MaxLaunches = 1
INVARIANTS
  OldestUnreadKept
CHECK_DEADLOCK FALSE
