CONSTANTS
  Command <- Commands
  Script <- Poll
  Answer <- Answers
  Count <- Counts
  ReadTimeout = 8
  WaitTimeout = 2
  MaxChunks = 5
  MaxFaults = 0
SPECIFICATION Spec
CHECK_DEADLOCK FALSE
INVARIANTS AcceptedLineIsWhole
