\* Overlapping loads over five answers: two visits, three load() calls.
CONSTANTS
  Ids = {"n1", "n2"}
  RawStates = {"ready", "NOT_READY", "DOWN"}
  Bad = Bad
  None = None
  MaxLoads = 3
  MaxVisits = 2
  Snapshots <- MCAnswers
SPECIFICATION Spec
INVARIANTS TypeOK BadgeSettles CardReadyMeansAllReady
\* Once the bounds are spent and the loads are over, the page is idle.
CHECK_DEADLOCK FALSE
