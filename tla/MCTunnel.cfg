SPECIFICATION FairSpec
CONSTANTS
  s1 = s1
  s2 = s2
  p1 = p1
  p2 = p2
  Servers = {s1, s2}
  InitServing = {s1}
  StreamLocal = TRUE
  Silences = TRUE
  Proxies = {p1, p2}
  Nobody = Nobody
CHECK_DEADLOCK FALSE
INVARIANTS
  LostOnlyToOverlap
PROPERTIES
  DialReturnsUnlessLeft
  LeavesNothing
  Reconnects
