SPECIFICATION AnswerSpec
CONSTANTS
  Anchors = {a1}
  Urls = {u1}
  Allowed = {u1}
  Calls = {c1, c2}
  GateLimit = 1
  MaxBatch = 1
  MaxMarks = 2
INVARIANT OrdinalsFollowMarkers
CHECK_DEADLOCK FALSE
