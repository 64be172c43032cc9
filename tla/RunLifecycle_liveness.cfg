SPECIFICATION FairSpec
CONSTANTS
  r1 = r1
  r2 = r2
  d1 = d1
  Runs = {r1}
  Devices = {d1}
  DeviceOf <- MCDeviceOf
  None = None
  ReconnectAttempts = 2
  MaxFaults = 4
PROPERTIES
  RunsEnd
CHECK_DEADLOCK FALSE
