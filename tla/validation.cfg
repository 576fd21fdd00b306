SPECIFICATION Spec
CONSTANTS
  p1 = p1
  p2 = p2
  Passes = {p1, p2}
  EntryZ = 2
  ExitZ = 0
  Rule = "zscore"
  FitWindow = 1
  Window = 3
  MaxCatchup = 1
  Threshold = 2
  FirstDay = 4
  LastDay = 7
  MaxId = 2
  Calendars <- Swing
CONSTRAINT Whole
SYMMETRY PassSymmetry
CHECK_DEADLOCK FALSE
INVARIANTS
  TypeOK
  RecordIsABacktest
  TradesMatchTheRecord
  NoSilentGap
  NoHindsight
PROPERTIES
  TrackRecordKept
