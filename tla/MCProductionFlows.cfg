CONSTANTS
  FlowIds = {f1}
  Contents <- MCContents
  Serials <- MCSerials
  Trim <- MCTrim
  NoSerial = NoSerial
  Handlers = {h1, h2}
  MaxEdits = 2
  MaxRuns = 2
  MaxDays = 2
  MaxFaults = 1
SPECIFICATION Spec
INVARIANTS TypeOK FlowIsFrozen NumbersAreDense
CHECK_DEADLOCK FALSE
