SPECIFICATION Spec
CONSTANTS
  Names = {"p", "q", "# Done"}
  Marked = {"# Done"}
  Texts = {"fix", "FIX", "ship", "none"}
  Lower <- MCLower
  Placeholders = {"none"}
  Nothing = nothing
  n1 = n1
  n2 = n2
  old = old
  stuck1 = stuck1
  stuck2 = stuck2
  stuck3 = stuck3
  fresh = fresh
  fact = fact
  Docs = {n1, n2, old}
  Claims = {stuck1, stuck2, stuck3, fresh, fact}
  Aside = {old}
  Tagged = {old}
  OriginOf <- MCOriginOf
  ProjectOf <- MCProjectOf
  DocOf <- MCDocOf
  KindOf <- MCKindOf
  Anywhere = anywhere
  Windows <- MCWindows
  Reserve <- MCReserve
  Budget = 4
  Slots = 2
  Stall = 7
  Horizon = 30
  Clients = {"cron"}
  Scheduler = "scheduler"
  None = none
  Answers <- MCAnswers
  DocLimit = 2
  RowLimit = 2
  Projects = {"q"}
  Ages <- MCAges
  MaxDay = 2
  Budgets <- MCBudgets
INVARIANTS TypeOK SectionsFed NothingLost
PROPERTIES WrittenOnce NoticeMeansNothing StalledShareSlots
