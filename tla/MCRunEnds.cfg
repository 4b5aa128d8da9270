SPECIFICATION EndsSpec
CONSTANTS
  Workers = {w1}
  Requests = {q1}
  MaxRuns = 2
  Lease = 1
  Beat = 1
  MaxClock = 2
  Env = {"stop", "expire", "retry", "dberror", "rediserror"}
  Nil = Nil
INVARIANTS
  SettledOverFaults
PROPERTIES
  ExpiryRespectsLease
  StreamingEnds
  EndsByItself
CHECK_DEADLOCK FALSE
