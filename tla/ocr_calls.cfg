\* A device whose two tasks have different settings, and another device.
SPECIFICATION FairSpec
CONSTANTS
  d1 = d1
  d2 = d2
  s1 = s1
  s2 = s2
  Device <- Devices
  Config <- Configs
  DefaultConfig = s1
  Client <- Clients
  Sections <- Edited
INVARIANTS
  FitsTheTask
PROPERTIES
  CallsAnswered
CHECK_DEADLOCK FALSE
