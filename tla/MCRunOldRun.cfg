SPECIFICATION Spec
CONSTANTS
  Workers = {w1}
  Requests = {q1}
  MaxRuns = 2
  Lease = 1
  Beat = 1
  MaxClock = 1
  Env = {"stop", "retry"}
  Nil = Nil
PROPERTY OldRunNeverTakesOver
CHECK_DEADLOCK FALSE
