\* Two clicks, so that they overlap; deadlock is not checked because the
\* user may stop clicking and the page then waits for ever.
CONSTANTS
  Shares <- MCShares
  Texts <- MCTexts
  Statuses <- MCStatuses
  Responses <- MCResponses
  Blank = Blank
  None = None
  MaxClicks = 2
SPECIFICATION Spec
INVARIANTS TypeOK SharesSentAsTyped SentOnlySealedShamir ProgressBarHonest OutcomeShown
CHECK_DEADLOCK FALSE
