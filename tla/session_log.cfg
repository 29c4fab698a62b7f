\* Two lines, two starts, default threshold (2.0 s at polls of 1.5 s).
SPECIFICATION FairSpec
CONSTANTS
  MaxLines = 2
  MaxStarts = 2
  MaxOutages = 1
  Absence = 2
  MaxRestarts = 2
  ClearOnRestart = TRUE
INVARIANTS
  NothingLost
  FinalLogComplete
  OneRestartPerAbsence
PROPERTIES
  MonitorReacts
