SPECIFICATION OperationsSpec
CONSTANTS
  Keys = {k1}
  MaxWord = 2
  Admins = {a1}
  MaxProcesses = 2
  MaxEdits = 1
  Runners = {r1, r2}
  Nobody = Nobody
  SettingRows = 1
  Spaces = 1
  MaxTroubles = 1
  MaxServices = 2
  Portless = {2}
  Commands = {d1, d2}
  MaxGroups = 2
  MaxKills = 1
  Workers = {w1, w2}
  Requests = {q9}
  MaxRuns = 1
  Lease = 1
  Beat = 1
  MaxClock = 1
  Env = {"stop", "stall", "shutdown"}
  Nil = Nil
INVARIANTS
  TypeOK
  RegisteredIsInProgress
  JobOutlivesStreaming
  StartedIsUpgraded
  StartedAlikeAgree
  ServicesAccounted
SYMMETRY WorkerSymmetry
CHECK_DEADLOCK FALSE
