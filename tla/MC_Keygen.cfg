CONSTANTS
  k1 = k1
  Empty = Empty
  NaN = NaN
  None = None
  KeyIds <- MCKeyIds
  Dates <- MCDates

SPECIFICATION FairSpec
INVARIANTS TypeOK HintMatchesMode
PROPERTIES RefinesDkgRequest ButtonReenabled
\* A user without any DKG permission gets a form whose every control is
\* disabled (keygen.js lines 117-123): that page has nothing left to do.
CHECK_DEADLOCK FALSE
