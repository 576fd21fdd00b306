SPECIFICATION Spec
CONSTANTS
  MaxPosition = 4
  MaxTotal = 4
  MinOrder = 1
  Strategies = {s1, s2}
  Tickers = {t}
  Signals <- BothWays
  Returns <- Losses
  MinDays = 2
  Lookback = 2
  HistoryLimit = 2
  LastDay = 2
  Reach = 2
INVARIANT SplitStaysBounded
