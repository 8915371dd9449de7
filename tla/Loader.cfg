SPECIFICATION Spec
CONSTANTS
  Clis = {c1}
  s1 = s1
  s2 = s2
  p1 = p1
  p2 = p2
  q1 = q1
  Segments <- MCSegments
  StopTicks = 2
  Frames = 2
  Columns = 2
  Lists <- MCLists
  Suitable <- MCSuitable
  None = None
INVARIANTS
  CodeInUse
  NothingOrphaned
  SplashGivesBack
  BlitsDisplayed
PROPERTY
  SplashEnds
