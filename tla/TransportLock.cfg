CONSTANTS
  t1 = t1
  t2 = t2
  t3 = t3
  r1 = r1
  r2 = r2
  NoTask = NoTask
  AnyReg = AnyReg
  Task <- TwoTasks
  Reg <- OneReg
  Kinds <- AllKinds
  RawCommands <- NoRaws
  MaxOps = 3
  PeekItems = 2
  UseAbortToken = FALSE
  TimelyController = FALSE
  MaxCancels = 1
  MaxDesyncs = 0
  MaxDrops = 1
SPECIFICATION FairSpec
CHECK_DEADLOCK FALSE
INVARIANTS TypeOK LockInv UnbrokenHandshake FailedReadClosesPort
PROPERTY EveryCallEnds
