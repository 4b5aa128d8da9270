SPECIFICATION PromptSpec
CONSTANTS
  Workers = {w1}
  Requests = {q1}
  MaxRuns = 1
  Lease = 3
  Beat = 1
  MaxClock = 6
  Env = {"expire"}
  Nil = Nil
PROPERTY ExpiredOnlyIfWorkerLost
CHECK_DEADLOCK FALSE
