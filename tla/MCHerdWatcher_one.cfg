SPECIFICATION FairSpec
CONSTANTS
  p1 = p1
  p2 = p2
  Panes = {p1}
  InitPanes = {p1}
  PaneSizes = {1, 2}
  AttachSize = 1
  OpsQueue = 1
  ResumeQueue = 1
  MaxOut = 2
  MaxResizes = 2
  MaxBackstops = 1
CHECK_DEADLOCK FALSE
INVARIANTS
  TypeOK
  ResumePending
  SeedsCompose
PROPERTIES
  PausedIsResumed
  MirrorSettles
