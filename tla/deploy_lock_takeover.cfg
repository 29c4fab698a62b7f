\* Three runners, one dies: two survivors find the same stale file.
SPECIFICATION LockSpec
CONSTANTS
  r1 = r1
  r2 = r2
  r3 = r3
  w1 = w1
  w2 = w2
  w3 = w3
  Runner <- ThreeRunners
  Worker <- ThreeWorkers
  RunnerOf <- OneWorkerEach
  NoWorker = NoWorker
  Stale = 3
  AcquireTimeout = 2
  MaxBuild = 2
  MaxCrashes = 1
  MayRestart = FALSE
INVARIANT
  BuildExclusion
