\* Two interrupts, the disk may fail, another runner comes and goes.
SPECIFICATION FairSpec
CONSTANTS
  NumTasks = 3
  d1 = d1
  d2 = d2
  Device <- Devices
  DistinctIds = TRUE
  MaxSignals = 2
  DiskFails <- AnyDisk
  OtherRunner = TRUE
INVARIANTS
  ArchiveIsFinal
  LockCoversWork
  NoTaskLost
  AllTasksTried
PROPERTIES
  ImplementsTaskPool
  BatchEnds
