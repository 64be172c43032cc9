SPECIFICATION Spec
CONSTANTS
  r1 = r1
  r2 = r2
  d1 = d1
  Runs = {r1, r2}
  Devices = {d1}
  DeviceOf <- MCDeviceOf
  None = None
  ReconnectAttempts = 2
  MaxFaults = 2
SYMMETRY RunSymmetry
INVARIANTS
  RunningHoldsLock
  LockHasKeeper
  DrivenAtMostOnce
  StatusTellsTruth
CHECK_DEADLOCK FALSE
