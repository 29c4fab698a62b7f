\* Four attempts, three rounds of Modify.
SPECIFICATION Spec
CONSTANTS
  Patterns = {cdn, pkg}
  Ports = {443}
  Rules = {tunnel}
  NoRule = NoRule
  Limit = 4
  PatchTries = 2
  DeployTries = 2
  Proposals <- MCProposals
  Repairs <- MCRepairs
  Starts <- MCStarts
  None = None
INVARIANTS
  RoundsDoNotPileUp
  RestoreFindsBackup
  BriefIsOfThisRound
  NetworkOnlyWhenExhausted
