SPECIFICATION FairSpec
CONSTANTS
  Syncs = {"daily", "hand"}
  Scheduled = {"daily"}
  Last = 2
  Selected <- MCSelected
  p1 = p1
  p2 = p2
  Paths = {p1, p2}
  c1 = c1
  c2 = c2
  Contents = {c1, c2}
  Absent = absent
  Unread = unread
  None = none
  Language = "rust"
  Tree <- MCTree
  Initial <- MCInitial
  Budgets <- MCBudgets
INVARIANTS TypeOK KeysAreFresh RowsFollowHashes ReportMatchesStatus
PROPERTIES IdsSurviveEdits MirrorsRepository EventuallyMirrored
