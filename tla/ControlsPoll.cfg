CONSTANTS
  Temp <- Temps
  First <- Automatic
  MaxCalls = 1
  MaxPanel = 1
  MaxFaults = 1
SPECIFICATION FairSpec
PROPERTIES SnapshotWasTrue ChoiceGetsShown
INVARIANTS TypeOK ChosenIsShown
