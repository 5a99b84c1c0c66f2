\* Two creations of one plan at once; nothing fails and nobody dies.
CONSTANTS
  Creators = {p1, p2}
  Members = {1, 2, 3}
  Plans <- MCPlans
  MaxCalls = 2
  MaxFaults = 0
  Overlap = TRUE
SPECIFICATION Spec
INVARIANTS
  AllOrNothing
CHECK_DEADLOCK FALSE
