\* One observer, no crashes.
CONSTANTS
  b = b
  s = s
  Buys = {b}
  Sells = {s}
  Size <- MCSize
  Observers = {w1}
  MayCrash = FALSE
  Incomplete = FALSE
SPECIFICATION Spec
INVARIANTS
  FillsAreIngested
