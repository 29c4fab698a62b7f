\* Interrupts and broken adb commands anywhere.
SPECIFICATION LoopFairSpec
CONSTANTS
  MaxRetries = 3
  AdbFails = TRUE
  Interrupts = TRUE
INVARIANTS ReturnsWhatItPublished
PROPERTIES RetryIsEarned RunEnds
