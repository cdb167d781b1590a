SPECIFICATION Spec
CONSTANTS
  Chains <- AllChains
  OldChains <- AllOldChains
  Frames <- AllFrames
  Depth <- AllDepths
INVARIANTS
  FlagsSelect
  TracesMatchTxs
  MessageReadable
  BenchTakesTip
  VerifierTakesTraced
  ConsumerShowsBlocks
  ConsumerTellsValues
CHECK_DEADLOCK FALSE
