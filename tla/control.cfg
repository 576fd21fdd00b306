SPECIFICATION Spec
CONSTANTS
  r1 = r1
  r2 = r2
  k1 = k1
  Requests = {r1, r2}
  Ticks = {k1}
  LastDay = 3
SYMMETRY RequestSymmetry
INVARIANTS
  BreachHoldsUnlessRaced
PROPERTIES
  BreachNeverLaundered
  HaltSticksUnlessOverlapped
