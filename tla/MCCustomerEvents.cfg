CONSTANTS
  SalesLimit = 1
  MaxEvents = 3
  MaxMishaps = 1
SPECIFICATION FairSpec
INVARIANTS TypeOK AnalysisCoversEvents QueuedIsKept
PROPERTY EventuallySettled
CHECK_DEADLOCK FALSE
