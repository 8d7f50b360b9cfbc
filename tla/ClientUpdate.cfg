CONSTANTS
  t1 = t1
  t2 = t2
  f1 = f1
  f2 = f2
  NoTask = NoTask
  Task <- TwoTasks
  Field <- TwoFields
  Kinds <- AllKinds
  PollReads = 2
  Cooldown = 5
  Pause = 2
  CommitWait = 5
  ReadMax = 9
  MaxOps = 3
  MaxFaults = 2
SPECIFICATION FairSpec
CHECK_DEADLOCK FALSE
INVARIANTS TypeOK NoLostUpdate
PROPERTIES ReservationsApart EveryCallEnds UpdatesAreAtomic
