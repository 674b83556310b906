SPECIFICATION Spec
CONSTANTS
  c1 = c1
  c2 = c2
  c3 = c3
  None = None
  Call <- MCCall
  Tab <- MCTab
  Scenes <- MCScenes
  Threshold = 2
  MaxPairs = 3
INVARIANT TypeOK
INVARIANT RotatedOnce
INVARIANT DeactivatedGetsNothing
INVARIANT FetchesDoNotCollide
INVARIANT LocksAreEarned
\* Nobody may have anything more to ask for.
CHECK_DEADLOCK FALSE
