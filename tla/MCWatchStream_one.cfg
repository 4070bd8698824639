SPECIFICATION FairSpec
CONSTANTS
  s1 = s1
  Streams = {s1}
  Cells <- MCCells
  Blank = "blank"
  Sizes <- MCSizes
  InitSize <- MCInitSize
  Cursors <- MCCursors
  Origin = 0
  NoBatch = NoBatch
  Data <- MCData
  OpsQueue = 2
  SubscriberBuffer = 1
  MaxCalls = 2
  WireCap = 2
CHECK_DEADLOCK FALSE
INVARIANTS
  StreamTypeOK
  ShadowFits
  CaughtUp
  DamageFits
  NothingOwedWhenIdle
  LoopNeverBlocks
  NoClosedSend
  ExitTold
  BurstBounded
PROPERTIES
  Converges
  ResyncLands
  StreamsEnd
