---------------------------- MODULE HealthEndpoints ---------------------------
(* The handlers of FinanceHealthService: ratios of the sectors and of the stocks
   in them.  The query `q` has an exchange `ex` and sectors `inds`, or a number of
   periods `type` and their length `order`. *)
EXTENDS Programs

(* The periods are the last ones that have ratios. *)
PBIndustry(q) ==
  Cached(<<"PEPBIndustry", Floor(q.ex), q.order, q.type, q.inds>>, OneWeek,
            Ask(<<"ratioPeriods", q.order, q.type>>)
         \o Ask(<<"PBIndustry", Floor(q.ex), q.order, q.type, q.inds>>))

(* Here 'ALL' is a floor of its own. *)
PEIndustry(q) ==
  Cached(<<"PEIndustry", {q.ex}, q.order, q.type>>, OneWeek,
            Ask(<<"ratioPeriods", q.order, q.type>>)
         \o Ask(<<"PEIndustry", {q.ex}, q.order, q.type>>))

(* The last day, the day a year before it, the last period with ratios. *)
YearOfPrices ==
     Ask(<<"lastTradingDay">>)
  \o Ask(<<"tradingDayYearAgo">>)
  \o Ask(<<"lastRatioPeriod">>)

PETicker(q) ==
  Cached(<<"PETicker", Floor(q.ex), q.inds>>, OneWeek,
         YearOfPrices \o Ask(<<"PETicker", Floor(q.ex), q.inds>>))
PBTicker(q) ==
  Cached(<<"PBTicker", Floor(q.ex), q.inds>>, OneDay,
         YearOfPrices \o Ask(<<"PBTicker", Floor(q.ex), q.inds>>))

payoutRatio(q) ==
  Cached(<<"PayoutRatio", q.ex, q.order>>, OneWeek, Ask(<<"payoutRatio", q.ex, q.order>>))

(* Each of these asks for the last year its reports are of. *)
SinceLastReport(key, question, q) ==
  Cached(<<key, q.ex, q.order>>, OneWeek,
         Ask(<<"lastReportYear", key>>) \o Ask(<<question, q.ex, q.order>>))
cashRatio(q)        == SinceLastReport("CashRatio", "cashRatio", q)
rotationRatio(q)    == SinceLastReport("RotaionRatio", "rotationRatio", q)
indsDebtSolvency(q) == SinceLastReport("IndsDebtSolvency", "indsDebtSolvency", q)

indsProfitMargins(q) ==
  Cached(<<"IndsProfitMargins", Floor(q.ex), q.order, q.type>>, OneWeek,
         Ask(<<"indsProfitMargins", Floor(q.ex), q.order, q.type>>))
indsInterestCoverage(q) ==
  Cached(<<"IndsInterestCoverage", q.ex, q.order, q.type>>, OneWeek,
         Ask(<<"indsInterestCoverage", q.ex, q.order, q.type>>))
interestRatesOnLoans(q) ==
  Cached(<<"interestRatesOnLoans", q.ex, q.order, q.type>>, OneWeek,
         Ask(<<"interestRatesOnLoans", q.ex, q.order, q.type>>))
(* The test of what redis returned is commented out. *)
indsProfitMarginsTable(q) ==
  Unread(<<"indsProfitMarginsTable", q.ex, q.order>>, OneWeek,
            Ask(<<"lastPBDate">>)
         \o Ask(<<"indsProfitMarginsTable", q.ex, q.order>>))
netProfitMarginByIndustries(q) ==
  Cached(<<"netProfitMarginByIndustries", q.ex, q.order, q.type>>, OneWeek,
            Ask(<<"lastPBDate">>)
         \o Ask(<<"netProfitMargin", q.ex, q.order, q.type>>))

-------------------------------------------------------------------------------
(* The requests FinanceHealthController routes to them. *)
ByRatio        == [ex : Exchanges, order : Orders]
ByRatioPeriods == [ex : Exchanges, order : Orders, type : Types]
BySectorPrices == [ex : Exchanges, inds : Industries]
BySectorRatio  == [ex : Exchanges, order : Orders, type : Types, inds : Industries]

HealthEndpoints ==
       Serve("PBIndustry", BySectorRatio, PBIndustry)
  \cup Serve("PEIndustry", ByRatioPeriods, PEIndustry)
  \cup Serve("PETicker", BySectorPrices, PETicker)
  \cup Serve("PBTicker", BySectorPrices, PBTicker)
  \cup Serve("payoutRatio", ByRatio, payoutRatio)
  \cup Serve("cashRatio", ByRatio, cashRatio)
  \cup Serve("rotationRatio", ByRatio, rotationRatio)
  \cup Serve("indsDebtSolvency", ByRatio, indsDebtSolvency)
  \cup Serve("indsProfitMargins", ByRatioPeriods, indsProfitMargins)
  \cup Serve("indsInterestCoverage", ByRatioPeriods, indsInterestCoverage)
  \cup Serve("interestRatesOnLoans", ByRatioPeriods, interestRatesOnLoans)
  \cup Serve("indsProfitMarginsTable", ByRatio, indsProfitMarginsTable)
  \cup Serve("netProfitMarginByIndustries", ByRatioPeriods, netProfitMarginByIndustries)
===============================================================================
