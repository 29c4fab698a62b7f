SPECIFICATION FairSpec
CONSTANTS
  Games <- MCGames
  Specs <- MCSpecs
  Answers <- MCAnswers
  Judgments <- MCJudgments
  LeafAttempts = 2
  BranchAttempts = 3
  MaxNodeAttempts = 1
  MaxStabilityRounds = 2
  MaxAdaptiveRounds = 3
  MaxAdaptiveNoProgress = 1
  MaxAdaptiveReplan = 1
  MaxFreeRounds = 2
  MaxFreeNoProgress = 1
  MaxFreeSameAction = 2
  MaxDynamicRounds = 3
  MaxDynamicNoProgress = 2
  MaxDynamicStepAttempts = 2
INVARIANTS SuccessIsEarned VerdictIsComplete LoginsBounded PassiveBeforeLogin
PROPERTIES PhasesStayDone KeepsVerdict
CHECK_DEADLOCK FALSE
