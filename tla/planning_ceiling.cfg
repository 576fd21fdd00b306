SPECIFICATION Spec
CONSTANTS
  MaxPosition = 8
  MaxTotal = 11
  MinOrder = 2
  Strategies = {s1, s2}
  Tickers = {a, b}
  Notionals <- WideNotionals
  Markets = {2, 3}
  Holdings <- SmallHoldings
  MaxMoves = 2
PROPERTY OrdersKeepCeiling
