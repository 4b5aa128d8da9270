SPECIFICATION PlatformSpec
CONSTANTS
  Uses = {u1, u2}
  ToolNames = {t1}
  MaxSpoken = 1
  Threads = {h1, h2}
  MaxTokens = 2
  Names = {n1, n2}
  FileNames = {n1, n2}
  Blobs = {b1}
  MaxDepth = 2
  MaxRows = 4
  MaxDocs = 2
  MaxRequests = 3
  Calls = {k1}
  PageFiles = {n1}
  MaxClicks = 2
  Pages = {p1}
  UploadFiles = {f1, f2}
  Contents = {b1}
  Deletions = {x1, x2}
  MaxPicks = 1
  MaxVersions = 2
  MaxFailures = 1
  Workers = {w1}
  Requests = {q1}
  Nil = Nil
  OutlineRequests = {o1, o2}
  DraftRequests = {d1, d2}
  MaxSections = 2
  MaxDeaths = 1
  PrivateDocs = {p1}
  LibraryDocs = {m1}
  Tagged = {m1}
  TopK = 1
  Candidates = 1
  MaxChanges = 1
  UserNames = {n1, n2}
  Registrations = {q1, q2, q3}
  Sessions = {s1, s2}
  AuthCalls = {c1, c2}
  ProfileEdits = {e1, e2}
  MaxProfiles = 2
INVARIANTS
  FirstIsAdmin
  EndedStaysEnded
  DefaultIsUsable
  TimelineTruthful
  PopoverIsRight
  TreeIntact
  SearchFollows
  ContentKept
  UploadsAccounted
  ReadyIsComplete
  TextOfItsSection
  ScopeRespected
  SettledIsSearchable
  ShowsOneDirectory
PROPERTIES
  RevokedStaysDead
  MoveKeepsShape
  HealthyRunNotExpired
SYMMETRY DeletionSymmetry
CHECK_DEADLOCK FALSE
