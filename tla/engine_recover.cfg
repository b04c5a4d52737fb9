SPECIFICATION FairSpec
CONSTANTS
  Clients = {c1}
  Syncer = sync
  Nobody = nobody
  MaxId = 2
  draft = draft
  better = better
  other = other
  Notes = {draft, better, other}
  Absent = absent
  Blank = blank
  Forgotten = forgotten
  Session <- GateSession
  Similar <- DraftIsSimilar
  Event <- PairEvent
  Topic <- MCTopic
  Score <- MCScore
  Evidence <- MCEvidence
  Related <- MCRelated
  VectorOn = TRUE
  Limits <- RecoverLimits
INVARIANTS OneNotePerSession
PROPERTIES EventuallyMirrored RequestsReturn
