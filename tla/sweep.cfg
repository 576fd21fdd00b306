SPECIFICATION FairSpec
CONSTANTS
  Grids <- Overlapping
  BatchSize = 3
  MaxFaults = 2
CHECK_DEADLOCK FALSE
INVARIANTS
  EachCombinationOnce
PROPERTIES
  FairShare
  EverySweepCompletes
  EverySweepWorkedOff
