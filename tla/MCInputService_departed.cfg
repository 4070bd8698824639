SPECIFICATION Spec
CONSTANTS
  s1 = s1
  p1 = p1
  Streams = {s1}
  Panes = {p1}
  PaneSize = 1
  OtherSize = 2
  Requests = {}
  KeyData <- MCText
  Home <- MCHome
  MaxResizeDim = 3
  MaxEvents = 2
  MaxUnread = 1
  MaxFaults = 1
CHECK_DEADLOCK FALSE
INVARIANT DepartedIsDropped
