CONSTANTS
  Threads = {"t1", "t2"}
  MaxSwitches = 2
  MaxReloads = 1
  MaxOutages = 1
SPECIFICATION LiveFairSpec
INVARIANTS LiveTypeOK ConnectedIsRegistered LeftoversAreLate
PROPERTY EventuallyRegistered
CHECK_DEADLOCK FALSE
