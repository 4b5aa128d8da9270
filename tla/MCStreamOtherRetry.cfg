SPECIFICATION StreamSpec
CONSTANTS
  MaxRuns = 2
  MaxChunks = 2
  MaxEvents = 3
  MaxFaults = 1
PROPERTY ShowsOneRound
CHECK_DEADLOCK FALSE
