CONSTANTS
  Command <- Commands
  Script <- Poll
  Answer <- Answers779
  Count <- Counts
  ReadTimeout = 8
  WaitTimeout = 2
  MaxChunks = 5
  MaxFaults = 1
SPECIFICATION Spec
CHECK_DEADLOCK FALSE
INVARIANTS TypeOK DecodesCompleteLine LineIsOneReply EndsSoonAfterDeadline FewChunks
