SPECIFICATION Spec
CONSTANTS
  Workers = {w1}
  Requests = {q1}
  MaxRuns = 1
  Lease = 1
  Beat = 1
  MaxClock = 1
  Env = {"stop"}
  Nil = Nil
PROPERTY FinalizedElsewhereIsKept
CHECK_DEADLOCK FALSE
