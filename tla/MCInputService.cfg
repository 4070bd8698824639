SPECIFICATION FairSpec
CONSTANTS
  s1 = s1
  p1 = p1
  Streams = {s1}
  Panes = {p1}
  PaneSize = 1
  OtherSize = 2
  Requests = {3, 4}
  KeyData <- MCKeyData
  Home <- MCHome
  MaxResizeDim = 3
  MaxEvents = 3
  MaxUnread = 1
  MaxFaults = 1
CHECK_DEADLOCK FALSE
INVARIANTS
  KeysExact
  NothingLeftDriven
PROPERTIES
  ErrorsHaveCause
  HandlersEnd
