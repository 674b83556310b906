SPECIFICATION Spec
CONSTANTS
  r1 = r1
  r2 = r2
  k1 = k1
  k2 = k2
  None = None
  Request <- MCRequest
  Scenes <- MCScenes
  DaysPerMonth = 4
  Roster <- MCRoster
  Catalogue <- MCCatalogue
  Listed <- MCListed
  Benefits <- MCBenefits
  MaxEdits = 3
  MaxFaults = 1
INVARIANT ChargesAreAccounted
INVARIANT ChargesAreExact
\* Nobody may have anything more to ask for.
CHECK_DEADLOCK FALSE
