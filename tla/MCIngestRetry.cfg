SPECIFICATION FairSpec
CONSTANTS
  MaxVersions = 2
  MaxRuns = 2
  Requests = {q1, q2}
  Env = {"fail", "retry", "delete"}
INVARIANTS OneRunPerVersion
PROPERTIES JobEnds DocumentSettles
CHECK_DEADLOCK FALSE
