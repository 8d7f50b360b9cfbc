CONSTANTS
  t1 = t1
  t2 = t2
  t3 = t3
  r1 = r1
  r2 = r2
  NoTask = NoTask
  AnyReg = AnyReg
  Task <- TwoTasks
  Reg <- OneReg
  Kinds <- ReadWrite
  RawCommands <- NoRaws
  MaxOps = 4
  PeekItems = 3
  UseAbortToken = TRUE
  TimelyController = TRUE
  MaxCancels = 2
  MaxDesyncs = 0
  MaxDrops = 1
SYMMETRY Symmetry
SPECIFICATION Spec
CHECK_DEADLOCK FALSE
INVARIANTS AckedMeansApplied AppliedByOwnCommit NoStrandedSession AbortedNeverApplied
