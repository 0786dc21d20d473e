CONSTANTS
  Proc = {p1}
  Slot = {r1, r2}
  NoSlot = NoSlot
  MaxToken = 3
  Ops = {"rotate"}
  Overlaps = {TRUE, FALSE}
  Loses = TRUE
SPECIFICATION Spec
INVARIANTS
  NewTokenKept
CHECK_DEADLOCK FALSE
