\* A runner dies and is started again.
SPECIFICATION LockFairSpec
CONSTANTS
  r1 = r1
  r2 = r2
  r3 = r3
  w1 = w1
  w2 = w2
  w3 = w3
  Runner <- TwoRunners
  Worker <- ThreeWorkers
  RunnerOf <- TwoRunnersOf
  NoWorker = NoWorker
  Stale = 2
  AcquireTimeout = 1
  MaxBuild = 1
  MaxCrashes = 1
  MayRestart = TRUE
INVARIANTS
  ExclusionUntilCrash
PROPERTIES
  ReleasesOwnFile
  WaiterAnswered
