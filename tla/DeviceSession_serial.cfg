CONSTANTS
  u1 = u1
  u2 = u2
  d1 = d1
  d2 = d2
  r1 = r1
  r2 = r2
  Users <- TwoUsers
  Devices <- OneDevice
  Requests <- OneRequest
  AccessTTL = 2
  SessionTTL = 3
  RefreshTTL = 4
  MaxMints = 4
  MaxTime = 5
SPECIFICATION Spec
INVARIANTS OneRowPerDevice TokenSpeaksForOwner
PROPERTIES AdmittedWithinADay
SYMMETRY Symmetry
