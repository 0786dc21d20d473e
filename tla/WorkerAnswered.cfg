CONSTANTS
  Req = {r1, r2, r3}
  Isolate = {i1}
  MaxRev = 1
  Body <- OneBody
  Carries <- OneTargets
  Shared = {}
  Activates = "alone"
SPECIFICATION FairSpec
PROPERTIES
  EventuallyAnswered
