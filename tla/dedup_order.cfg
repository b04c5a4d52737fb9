SPECIFICATION FairSpec
CONSTANTS
  Clients = {c1}
  Syncer = sync
  Nobody = nobody
  MaxId = 3
  draft = draft
  better = better
  other = other
  Notes = {draft, better, other}
  Absent = absent
  Blank = blank
  Forgotten = forgotten
  Session <- OrderSession
  Similar <- DraftIsSimilar
  Event <- OneEvent
  Topic <- OrderTopic
  Score <- MCScore
  Evidence <- MCEvidence
  Related <- MCRelated
  VectorOn = TRUE
  Limits <- OrderLimits
PROPERTIES SessionGoesFirst
