SPECIFICATION ConversationSpec
CONSTANTS
  MaxRuns = 2
  MaxChunks = 2
  MaxEvents = 1
  MaxFaults = 1
  Anchors = {a1}
  Urls = {u1, u2}
  Allowed = {u1}
  Calls = {c1, c2}
  GateLimit = 1
  MaxBatch = 2
  MaxMarks = 2
  Files = {f1, f2}
  MaxSends = 2
  MaxLosses = 1
INVARIANTS
  ConversationTypeOK
  ShownTokensResolve
  MarkersKeepSource
  FilesAccounted
PROPERTIES
  SnapshotHeals
  ImplementsAnswerView
  FetchCallsReturn
  SendUnblocks
CHECK_DEADLOCK FALSE
