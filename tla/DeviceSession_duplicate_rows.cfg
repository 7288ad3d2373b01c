CONSTANTS
  u1 = u1
  u2 = u2
  d1 = d1
  d2 = d2
  r1 = r1
  r2 = r2
  Users <- TwoUsers
  Devices <- OneDevice
  Requests <- TwoRequests
  AccessTTL = 1
  SessionTTL = 1
  RefreshTTL = 2
  MaxMints = 3
  MaxTime = 2
SPECIFICATION Spec
INVARIANT OneRowPerDevice
SYMMETRY Symmetry
