SPECIFICATION FairSpec
CONSTANTS
  MaxRuns = 2
  MaxEvents <- FullThenSlow
  Outcomes <- Success
  MaxWire = 1
  MaxCancels = 1
  PageSize = 3
  MaxTroubles = 1
INVARIANTS ShowsPrefix OutcomeIsCommitted
PROPERTIES WindowLearnsTheEnd
CHECK_DEADLOCK FALSE
