\* Two tasks created in the same second, one device, nothing goes wrong.
SPECIFICATION Spec
CONSTANTS
  NumTasks = 2
  d1 = d1
  d2 = d2
  Device <- Devices
  DistinctIds = FALSE
  MaxSignals = 0
  DiskFails <- ReliableDisk
  OtherRunner = FALSE
INVARIANTS EveryUrlTested
