SPECIFICATION Spec
CONSTANTS
  MaxVersions = 1
  MaxRuns = 3
  Requests = {q1, q2}
  Env = {"retry"}
PROPERTY ReparseOnlySettledJobs
CHECK_DEADLOCK FALSE
