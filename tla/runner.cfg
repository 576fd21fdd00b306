SPECIFICATION Spec
CONSTANTS
  MaxPosition = 1
  MaxTotal = 2
  MinOrder = 1
  Portfolios = {p}
  Tickers = {a, b}
  None = None
  Wants <- LongOnly
  Held <- ShortOrFlat
  MaxOrders = 2
  BatchSize = 1
  Unreadable = {}
  PostTimeouts = TRUE
SYMMETRY TickerSymmetry
INVARIANTS
  WriteAhead
  FinalRowsAgree
  OneWorkingOrder
  ExposureWithinTargets
  HandHeldUntouched
PROPERTY
  HaltOutlivesOneTick
