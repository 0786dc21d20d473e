CONSTANTS
  Proc = {p1}
  Slot = {r1, r2}
  NoSlot = NoSlot
  MaxToken = 3
  Ops = {"rotate", "revoke"}
  Overlaps = {TRUE, FALSE}
  Loses = FALSE
SYMMETRY Requests
SPECIFICATION Spec
INVARIANTS
  TypeOK
  RevokedStaysRevoked
  NewTokenKept
PROPERTIES
  RotatedIsValid
