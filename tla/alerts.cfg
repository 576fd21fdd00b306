SPECIFICATION AlertFairSpec
CONSTANTS
  Price = {p}
  Risk = {k}
  Macro = {m}
  Cooldown = 2
  StaleAfter = 2
  MaxFaults = 1
INVARIANTS
  CooldownHolds
PROPERTY EveryAlertArrives
