CONSTANTS
  r1 = r1
  r2 = r2
  Requests <- TwoRequests
  Endpoints <- OneEndpoint
  FiveMinutes = 1
  HaftHour = 2
  OneDay = 5
  MaxFill = 1
  MaxTime = 7
SPECIFICATION Spec
INVARIANTS TypeOK AnswersFresh
PROPERTIES BoundSpec HardlyGoesBack
SYMMETRY Symmetry
