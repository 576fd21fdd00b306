SPECIFICATION Spec
CONSTANTS
  Clients = {c1, c2}
  Tickers = {t1, t2}
  Unknown = {t2}
  None = None
  MaxDrops = 1
  MaxAsks = 3
PROPERTY LastSubscriberUnsubscribes
