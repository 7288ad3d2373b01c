CONSTANTS
  u1 = u1
  u2 = u2
  p1 = p1
  p2 = p2
  c1 = c1
  c2 = c2
  i1 = i1
  i2 = i2
  r1 = r1
  r2 = r2
  Users <- TwoUsers
  Phones <- OnePhone
  Codes <- TwoCodes
  RowIds <- TwoRows
  Requests <- TwoRequests
  OtpTTL = 1
  CacheTTL = 1
  Faults = {"queue"}
SPECIFICATION Spec
INVARIANT EveryCodeHasAJob
