CONSTANTS
  ann = ann
  bob = bob
  cyd = cyd
  Users = {ann, bob, cyd}
  Signers = {ann}
  Leavers = {bob}
  Charts <- MCCharts
  Nobody = Nobody
  Handlers = {h1, h2}
  MaxWork = 4
  MaxMoves = 2
  MaxFaults = 1
SPECIFICATION FairSpec
INVARIANTS DrawingsExist BothAreTold CyclesNeedOverlap
PROPERTY ClimbEnds
CHECK_DEADLOCK FALSE
