SPECIFICATION Spec
CONSTANTS
  s1 = s1
  p1 = p1
  Streams = {s1}
  Panes = {p1}
  PaneSize = 1
  OtherSize = 2
  Requests = {3}
  KeyData <- MCText
  Home <- MCHome
  MaxResizeDim = 3
  MaxEvents = 4
  MaxUnread = 1
  MaxFaults = 0
CHECK_DEADLOCK FALSE
INVARIANT SizeIsRestored
