SPECIFICATION Spec
CONSTANTS
  Pushed <- PushedBlocks
  Traced <- TracedBlocks
  Frames <- AllFrames
  Depth <- AllDepths
INVARIANTS
  NoFalseAlarm
  NothingMissed
  CountsComplete
