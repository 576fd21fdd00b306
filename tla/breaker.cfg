SPECIFICATION Spec
CONSTANTS
  MaxPosition = 2
  MaxTotal = 2
  MinOrder = 1
  Strategies = {s1, s2}
  Tickers = {t}
  Signals <- BothWays
  Returns <- Losses
  MinDays = 2
  Lookback = 2
  HistoryLimit = 2
  LastDay = 3
  Reach = 2
SYMMETRY StrategySymmetry
INVARIANT TypeOK
PROPERTIES
  TripsOnDays
  FrozenStays
  PulledOpensNothing
