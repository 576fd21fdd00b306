SPECIFICATION FairSpec
CONSTANTS
  v1 = v1
  v2 = v2
  Versions = {v1, v2}
  HoldingDays = 2
  MaxCatchup = 2
  DayFloor = 1
  FirstDay = 3
  LastDay = 7
  MaxId = 1
  MaxFaults = 1
CHECK_DEADLOCK FALSE
INVARIANTS
  TypeOK
  RecordIsTheReplay
  GraduatedOnCompleteHolds
PROPERTIES
  CatchesUp
