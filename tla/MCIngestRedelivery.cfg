SPECIFICATION Spec
CONSTANTS
  MaxVersions = 2
  MaxRuns = 2
  Requests = {q1}
  Env = {"fail", "crash", "stall", "rediserror"}
INVARIANTS TypeOK CompletedIsSearchable
CHECK_DEADLOCK FALSE
