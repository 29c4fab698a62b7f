\* One or two devices, with the plugin, errors and interrupts.
SPECIFICATION Spec
CONSTANTS
  t1 = t1
  t2 = t2
  t3 = t3
  g1 = g1
  g2 = g2
  Task <- Tasks
  Gid <- Gids
  MaxDevices = 2
  MaxRetries = 2
  MaxClock = 1
  Plugin = TRUE
  MayRaise = TRUE
SYMMETRY TasksAndGids
INVARIANTS
  KeepsLogsAlone
  NoLeftovers
  SourceStays
