SPECIFICATION Spec
CONSTANTS
  MaxPosition = 8
  MaxTotal = 11
  MinOrder = 2
  Strategies = {s1, s2}
  Tickers = {a, b}
  Notionals <- WideNotionals
  Markets = {2, 3}
  Holdings <- HandHoldings
  MaxMoves = 2
INVARIANTS
  TypeOK
  CapsHold
  ShapesAccepted
PROPERTY HandHeldUntouched
