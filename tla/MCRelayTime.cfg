SPECIFICATION FairSpec
CONSTANTS
  i1 = i1
  i2 = i2
  Items = {i1}
  NoItem = NoItem
  Interval = 2
  LeaseTicks = 8
  MaxClaims = 1
  MarkerWritesFail = TRUE
INVARIANTS
  MarkerNeverInvents
PROPERTIES
  LapseIsSignalled
