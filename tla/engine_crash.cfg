SPECIFICATION Spec
CONSTANTS
  Clients = {c1, c2}
  Syncer = sync
  Nobody = nobody
  MaxId = 3
  draft = draft
  better = better
  other = other
  Notes = {draft, better, other}
  Absent = absent
  Blank = blank
  Forgotten = forgotten
  Session <- DoorSession
  Similar <- DraftIsSimilar
  Event <- PairEvent
  Topic <- MCTopic
  Score <- MCScore
  Evidence <- MCEvidence
  Related <- MCRelated
  VectorOn = TRUE
  Limits <- CrashLimits
SYMMETRY ClientsAreAlike
INVARIANTS TypeOK PathKeepsEvent FreshPathIsOwned PruneSparesLiveNotes DigestMeansIndexed
PROPERTIES EventStaysSearchable
