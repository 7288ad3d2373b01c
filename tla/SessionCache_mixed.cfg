CONSTANTS
  r1 = r1
  r2 = r2
  Requests <- TwoRequests
  Endpoints <- MixedEndpoints
  FiveMinutes = 1
  HaftHour = 2
  OneDay = 5
  MaxFill = 1
  MaxTime = 3
SPECIFICATION Spec
INVARIANT AnswersWhole
SYMMETRY Symmetry
