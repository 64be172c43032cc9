SPECIFICATION FairSpec
CONSTANTS
  a = a
  b = b
  d1 = d1
  Runs = {a, b}
  Devices = {d1}
  DeviceOf <- MCDeviceOf
  MaxFaults = 2
INVARIANTS
  DeviceIsExclusive
PROPERTIES
  KeepsPromise
  StartedRunsEnd
CHECK_DEADLOCK FALSE
