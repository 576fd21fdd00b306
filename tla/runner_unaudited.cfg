SPECIFICATION FairSpec
CONSTANTS
  MaxPosition = 1
  MaxTotal = 2
  MinOrder = 1
  Portfolios = {p}
  Tickers = {t}
  None = None
  Wants <- LongOnly
  Held <- Flat
  MaxOrders = 1
  BatchSize = 1
  Unreadable = {}
  PostTimeouts = FALSE
PROPERTY EveryOrderAudited
