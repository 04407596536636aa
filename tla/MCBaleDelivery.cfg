CONSTANTS
  Pollers = {p1, p2}
  NumNotes = 2
  BatchSize = 1
  MaxAttempts = 2
  Stale = 3
  MaxHold = 1
  MaxPause = 1
  MaxClock = 11
  MaxMishaps = 1
SPECIFICATION BaleFairSpec
INVARIANTS BaleTypeOK OneHolder NoDuplicates
PROPERTY EventuallySettled
CHECK_DEADLOCK FALSE
