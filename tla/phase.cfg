\* Every configuration of executor and monitors.
SPECIFICATION FairSpec
CONSTANTS
  log = log
  net = net
  Monitor <- BothMonitors
  LogMonitor = log
INVARIANTS
  SuccessIsClean
  InTimeIsNoTimeout
  NothingLeftRunning
PROPERTIES
  ReportsFirstReason
  PhaseEnds
