\* One parameter given and one missing, the marker among what users type; two
\* users who edit, or one who edits and one who asks.
CONSTANTS
  given = given
  missing = missing
  v1 = v1
  v2 = v2
  u1 = u1
  a = a
  b = b
  v = v
  Params = {given, missing}
  Extracts = {v1, v2}
  Answers = {u1, u2, Marker}
  Marker = Marker
  Extractions <- Generations
  SpecOf <- MCSpecOf
  Requests = {a, b}
  NoOne = NoOne
  MaxId = 2
  Visitors = {v}
  RowOrder <- Rows
  Offered <- MCOffered
  Unnamed = "DOC-001"
  TableLimit = 4
  Replies <- MCReplies
  Workloads <- MCWorkloads
SPECIFICATION QSpec
SYMMETRY AlikeRequests

INVARIANTS
  OverlayMatchesRows
  NothingDerivedIsStale
PROPERTIES
  NoLostEdits
  AnswersRestOnTheRecord
