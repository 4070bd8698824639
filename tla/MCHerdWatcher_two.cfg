SPECIFICATION Spec
CONSTANTS
  p1 = p1
  p2 = p2
  Panes = {p1, p2}
  InitPanes = {p1}
  PaneSizes = {1, 2}
  AttachSize = 1
  OpsQueue = 1
  ResumeQueue = 1
  MaxOut = 1
  MaxResizes = 0
  MaxBackstops = 1
CHECK_DEADLOCK FALSE
INVARIANTS
  PauseKnown
  SeedsCompose
  HerdIsCurrent
