SPECIFICATION Spec
CONSTANTS
  p1 = p1
  p2 = p2
  Passes = {p1, p2}
  EntryZ = 2
  ExitZ = 0
  Rule = "zscore"
  FitWindow = 1
  Window = 4
  MaxCatchup = 2
  Threshold = 2
  FirstDay = 4
  LastDay = 7
  MaxId = 1
  Calendars <- Swing
CHECK_DEADLOCK FALSE
PROPERTY RecordNeverShrinks
