SPECIFICATION Spec
CONSTANTS
  r1 = r1
  r2 = r2
  h1 = h1
  Refs = {r1, r2}
  Hosts = {h1}
  HostOf <- MCHostOf
  NoRef = NoRef
  ForwardBuffer = 1
  Lasting = {r2}
  MaxFetches = 3
  MaxWatches <- MCMaxWatches
  MaxUpdates <- MCMaxUpdates
  MaxGens = 2
CHECK_DEADLOCK FALSE
INVARIANTS
  TypeOK
  ViewsUnmixed
  FocusIsLive
  DrivenIffFocused
  NoStrayKeys
PROPERTY HealthyInputKept
