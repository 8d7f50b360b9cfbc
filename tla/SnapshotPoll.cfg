CONSTANTS
  ReadLines = 30
  MaxPolls = 5
  MaxTrouble = 2
SPECIFICATION Spec
CHECK_DEADLOCK FALSE
INVARIANTS TypeOK OverviewOfOneReply BlocksAreOwn OnlyTotalTorn HealsInFourPolls OverviewLateness
