\* A stall is two polls without a change, a look at a passive screen every second one.
SPECIFICATION FairSpec
CONSTANTS
  None = None
  Screens <- FewScreens
  Settings <- FewSettings
  Patience = 2
  PassivePolls = 1
  MaxFailures = 1
INVARIANTS
  ReportIsFounded
  EnrichmentFits
CHECK_DEADLOCK FALSE
PROPERTIES
  DialogReported
  StopIsHeard
