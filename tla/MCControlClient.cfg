SPECIFICATION FairSpec
CONSTANTS
  probe = probe
  flow = flow
  seed = seed
  keys = keys
  Calls = {probe, flow, seed, keys}
  CallLen <- MCCallLen
  AttachCalls <- MCAttach
  WatcherCalls = {probe, flow, seed}
  Captures = {seed}
  Outputs <- MCOutputs
  StdinCap = 1
CHECK_DEADLOCK FALSE
INVARIANTS
  TypeOK
  RepliesMatch
  ReaderNeverBlocks
  OutputExact
PROPERTIES
  EventsEnd
  ImplementsService
