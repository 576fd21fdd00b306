SPECIFICATION Spec
CONSTANTS
  MaxPosition = 4
  MaxTotal = 4
  MinOrder = 1
  Strategies = {s1}
  Tickers = {t}
  Signals <- OneWay
  Returns <- Losses
  MinDays = 2
  Lookback = 2
  HistoryLimit = 2
  LastDay = 2
  Reach = 3
PROPERTY HaltedNeverTrades
