SPECIFICATION FairSpec
CONSTANTS
  Grids <- Overlapping
  BatchSize = 3
  MaxFaults = 1
CHECK_DEADLOCK FALSE
PROPERTY WorkedOffMeansCompleted
