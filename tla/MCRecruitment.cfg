CONSTANTS
  Applications = {a1, a2}
  Phones = {"0912", "98912"}
  Mobiles = {"0912"}
  Normal <- MCNormal
  Staff = {ann, bob}
  MaxVersion = 6
  MaxChanges = 2
  MaxInFlight = 2
SPECIFICATION Spec
SYMMETRY MCSymmetry
CHECK_DEADLOCK FALSE
INVARIANTS HistoryIsPath HiredIsEvaluated OneAccountPerHire
