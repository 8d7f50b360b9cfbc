CONSTANTS
  t1 = t1
  t2 = t2
  t3 = t3
  r1 = r1
  r2 = r2
  NoTask = NoTask
  AnyReg = AnyReg
  Task <- ThreeTasks
  Reg <- TwoRegs
  Kinds <- ReadWrite
  RawCommands <- Raws
  MaxOps = 5
  PeekItems = 2
  UseAbortToken = FALSE
  TimelyController = TRUE
  MaxCancels = 0
  MaxDesyncs = 1
  MaxDrops = 0
SYMMETRY Symmetry
SPECIFICATION Spec
CHECK_DEADLOCK FALSE
INVARIANTS OwnReply RecoveryEndsSession
PROPERTY ServesInOrder
