CONSTANTS
  Req = {r1, r2}
  Isolate = {i1}
  MaxRev = 2
  Body <- Bodies
  Carries <- BodyTargets
  Shared = {"v2rayn"}
  Activates = "alone"
SPECIFICATION Spec
INVARIANTS
  TypeOK
  CompleteHistory
PROPERTIES
  SwitchIsWhole
  ForwardOnly
  ImplementsHistory
