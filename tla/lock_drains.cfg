SPECIFICATION FairSpec
CONSTANTS
  Collectors <- MCCollectors
  Owner <- MCOwner
  Canonical <- MCCanonical
  Sessions <- MCSessions
  Scenarios <- DrainScenarios
INVARIANTS TypeOK WorkersExclude
PROPERTY QueueDrains
CHECK_DEADLOCK FALSE
