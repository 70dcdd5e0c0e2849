\* Two writers, five rows, two hours of difference.
SPECIFICATION ViewsSpec
CONSTANTS
  w1 = w1  w2 = w2  fe = fe  be = be  None = None
  Writers = {w1, w2}
  Servers = {fe, be}
  Frontend = fe
  Lag = 2
  Limit = 2
  MaxTime = 2
  MaxRows = 5
SYMMETRY Interchangeable
INVARIANTS NewestShown DisplacedWithinLag
\* The bounds are used up.
CHECK_DEADLOCK FALSE
