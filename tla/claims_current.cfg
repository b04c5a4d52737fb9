SPECIFICATION Spec
CONSTANTS
  Notes = {n1, n2}
  Values = {v1, v2}
  None = none
  Ingesters = {"engine", "cli"}
  Scenarios <- ClaimScenarios
SYMMETRY Symmetry
INVARIANTS TypeOK CurrentIsNewest ProvenanceLives CurrentIsAsserted
CHECK_DEADLOCK FALSE
