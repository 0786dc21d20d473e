SPECIFICATION Spec

CONSTANTS
  Params = 4
  Value = {v1, v2}
  Tuned = v2
  NoRecord = NoRecord
  MaxUdpCrash = 2
  MaxUdpFault = 2
  Admin = {a1, a2}
  Port = {22, 2222}
  Cidr = {c1, c2}
  MaxWhitelist = 1
  NoJail = NoJail
  Foreign = Foreign
  MaxJailCmd = 3
  MaxJailCrash = 1
  MaxJailFault = 2
  Span = {s1, s2}
  Listener = {443, 8443}
  NoSpan = NoSpan
  NoRule = NoRule
  MaxHopCmd = 6
  MaxHopCrash = 1
  MaxHopFault = 1
  Shell = {p1, p2}
  NoShell = NoShell
  Credential = {k1, k2}
  NoFile = NoFile
  MaxRevision = 2
  MaxSubCmd = 4
  MaxSubCrash = 1
  MaxSubFault = 2

INVARIANTS
  UdpTypeOK
  UdpOriginalKept
  UdpAllOrNothing
  JailTypeOK
  JailInForce
  HopRedirected
  SubTypeOK
  CredentialsPaired
  PublicationWasMade
