SPECIFICATION Spec
CONSTANTS
  f1 = f1
  f2 = f2
  plain = plain
  rich = rich
  garbled = garbled
  Files = {f1, f2}
  Texts = {plain, rich, garbled}
  Terms = {"w"}
  Projects = {"p1", "p2"}
  InTitle <- MCInTitle
  InBody <- MCInBody
  ProjectOf <- MCProjectOf
  Garbled = {garbled}
  Absent = absent
  None = none
  Indexes = {"search", "ask"}
  Resident = {"search"}
  Requests <- MCRequests
  SavesPerTick = 1
  MaxChanges = 3
SYMMETRY Symmetry
INVARIANTS TypeOK HitsAreHonest NothingBetterMissed
