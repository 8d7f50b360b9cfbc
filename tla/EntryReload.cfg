CONSTANTS
  t1 = t1
  t2 = t2
  Loader = Loader
  Flow = Flow
  Nobody = Nobody
  Task <- TwoTasks
  PollReads = 2
  ShutsFailed = TRUE
  MaxGens = 3
  MaxOps = 4
  MaxCancels = 1
SPECIFICATION FairSpec
CHECK_DEADLOCK FALSE
INVARIANTS TypeOK ReadOnlyCallsBarred ShutdownReleasesPort FlowReleasesPort
PROPERTY ReloadGetsThrough
