CONSTANTS
  c1 = c1
  c2 = c2
  Clients <- TwoClients
  Fill <- SlowAndQuick
  HaftMinute = 1
  Minute = 1
  FiveMinutes = 1
  HaftHour = 1
  OneHour = 1
  OneDay = 2
  OneWeek = 2
  Exchanges <- TwoExchanges
  Industries <- TwoIndustries
  Orders <- TwoNumbers
  Types <- TwoNumbers
  Stocks <- FourStocks
SPECIFICATION MCSpec
INVARIANTS TypeOK  AgeBounded BoardIsIntraday
PROPERTIES FailsAlone
