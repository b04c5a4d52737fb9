SPECIFICATION Spec
CONSTANTS
  first = first
  then = then
  akin = akin
  foreign = foreign
  Workers = {w1, w2}
  Askers = {"agent"}
  Docs = {"d1", "d2", "d3"}
  Versions = {first, then, akin, foreign}
  Absent = absent
  OwnerOf <- MCOwnerOf
  ProjectOf <- MCProjectOf
  TagsOf <- MCTagsOf
  TermsOf <- MCTermsOf
  ClaimsOf <- MCClaimsOf
  Near <- MCNear
  Text <- MCText
  Anywhere = anywhere
  Requests <- MCRequests
  Pool <- MCPool
  MaxLinked = 1
  Limits <- MCLimits
INVARIANTS TypeOK NodesOutliveEdges GraphSaysNote BestAreHits
SYMMETRY Alike
CHECK_DEADLOCK FALSE
