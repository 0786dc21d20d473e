CONSTANTS
  Req = {r1, r2}
  Isolate = {i1}
  MaxRev = 2
  Body <- OneBody
  Carries <- OneTargets
  Shared = {}
  Activates = "any"
SPECIFICATION Spec
PROPERTIES
  SwitchIsWhole
