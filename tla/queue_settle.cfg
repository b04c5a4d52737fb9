SPECIFICATION FairSpec
CONSTANTS
  Sessions <- Two
  MaxAttempts = 2
  MaxTries = 1
  MaxChunks = 2
  Scenarios <- SettleScenarios
INVARIANTS TypeOK DoneIsAccounted VerdictsExclude
PROPERTY EverySessionSettles
CHECK_DEADLOCK FALSE
