CONSTANTS
  t1 = t1
  t2 = t2
  Loader = Loader
  Flow = Flow
  Nobody = Nobody
  Task <- TwoTasks
  PollReads = 2
  ShutsFailed = TRUE
  MaxGens = 3
  MaxOps = 2
  MaxCancels = 0
SYMMETRY Symmetry
SPECIFICATION Spec
CHECK_DEADLOCK FALSE
INVARIANTS NoWriteWhileReadOnly
