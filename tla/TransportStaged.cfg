CONSTANTS
  t1 = t1
  t2 = t2
  t3 = t3
  r1 = r1
  r2 = r2
  NoTask = NoTask
  AnyReg = AnyReg
  Task <- TwoTasks
  Reg <- TwoRegs
  Kinds <- ReadWrite
  RawCommands <- NoRaws
  MaxOps = 3
  PeekItems = 2
  UseAbortToken = FALSE
  TimelyController = TRUE
  MaxCancels = 1
  MaxDesyncs = 0
  MaxDrops = 0
SPECIFICATION Spec
CHECK_DEADLOCK FALSE
INVARIANT AppliedByOwnCommit
