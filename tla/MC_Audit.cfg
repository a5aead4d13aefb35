CONSTANTS
  Inputs <- MCInputs
  CanVerify = TRUE
  Cap = 2
  PerPage = 1

SPECIFICATION Spec
INVARIANTS TypeOK CountMatchesSent BatchPageInRange
