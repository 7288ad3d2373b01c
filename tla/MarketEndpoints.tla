---------------------------- MODULE MarketEndpoints ----------------------------
(* The handlers of MarketService: changes of price, liquidity, equity and
   results by sector.  The query `q` has an exchange `ex` and either sectors
   `inds` or a number of periods `type` and their length `order`. *)
EXTENDS Programs

(* getSessionDate: every date comes from one query, and previousDate, weekDate,
   monthDate, yearDate and firstDateYear are not among them. *)
marketSessionDate(table) ==
  Cached(<<"SessionDate", table, "date">>, Default, Ask(<<"dates", table, "market">>))

(* The day itself is part of the key: <<q.order, i>> is the i-th period's last. *)
getNearestDate(table, day) ==
  Cached(<<"NearestDate", table, day>>, Default, Ask(<<"nearest", table, day>>))

priceChangePerformance(q) ==
  marketSessionDate("tickerTradeVND unquoted") \o Ask(<<"prices", Floor(q.ex), q.inds>>)

liquidityChangePerformance(q) ==
  Cached(<<"LiquidityChangePerformance", Floor(q.ex), q.inds>>, Default,
         Ask(<<"tradingDays">>) \o Ask(<<"liquidity", Floor(q.ex), q.inds>>))

marketCapChangePerformance(q) ==
  Cached(<<"marketCapChange", Floor(q.ex), q.order, q.type>>, OneDay,
         Ask(<<"firstRatioDay">>) \o Ask(<<"marketCap", Floor(q.ex), q.order, q.type>>))

(* Promise.all(dates.map(getNearestDate)): one lookup after the other here. *)
indsLiquidityChangePerformance(q) ==
  Cached(<<"IndusLiquidity", Floor(q.ex), q.order, q.type>>, OneDay,
            getNearestDate("tickerTradeVND", <<q.order, 0>>)
         \o getNearestDate("tickerTradeVND", <<q.order, 1>>)
         \o Ask(<<"indsLiquidity", Floor(q.ex), q.order, q.type>>))

(* Seven handlers differ in the key and the table only: a single query over the
   periods that the clock, `type` and `order` give. *)
ByFloorAndPeriods(key, question, q) ==
  Cached(<<key, Floor(q.ex), q.order, q.type>>, OneDay,
         Ask(<<question, Floor(q.ex), q.order, q.type>>))

equityIndsChangePerformance(q) ==
  ByFloorAndPeriods("EquityIndsChange", "equityInds", q)
liabilitiesIndsChangePerformance(q) ==
  ByFloorAndPeriods("LiabilitiesIndsChange", "liabilitiesInds", q)
netRevenueInds(q) ==
  ByFloorAndPeriods("netRevenueInds", "netRevenue", q)
profitInds(q) ==
  ByFloorAndPeriods("ProfitInds", "profit", q)
activityProfitInds(q) ==
  ByFloorAndPeriods("ActivityProfitInds", "activityProfit", q)
ebitdaInds(q) ==
  ByFloorAndPeriods("EBITDAInds", "ebitda", q)
cashDividend(q) ==
  ByFloorAndPeriods("CashDividend", "cashDividend", q)
(* The key has the floor, the query has not: the same rows under two keys. *)
epsInds(q) ==
  Cached(<<"EPSInds", Floor(q.ex), q.order, q.type>>, OneDay, Ask(<<"eps", q.order, q.type>>))

(* The two years compared are the last two that have a report. *)
equityChangePerformance(q) ==
  Cached(<<"EquityChange", Floor(q.ex), q.inds>>, OneDay,
         Ask(<<"lastTwoYears">>) \o Ask(<<"equity", Floor(q.ex), q.inds>>))

liabilitiesChangePerformance(q) ==
  Cached(<<"LiabilitiesChange", Floor(q.ex), q.inds>>, OneDay,
         Ask(<<"lastTwoYears">>) \o Ask(<<"liabilities", Floor(q.ex), q.inds>>))

topHotIndustry(q) ==
  Cached(<<"TopHotIndustry">>, OneDay,
         marketSessionDate("tickerTradeVND") \o Ask(<<"hotIndustry">>))

-------------------------------------------------------------------------------
(* The requests MarketController routes to them. *)
BySector == [ex : Exchanges, inds : Industries]
ByPeriod == [ex : Exchanges, type : Types, order : Orders]

MarketEndpoints ==
       Serve("priceChangePerformance", BySector, priceChangePerformance)
  \cup Serve("liquidityChangePerformance", BySector, liquidityChangePerformance)
  \cup Serve("equityChangePerformance", BySector, equityChangePerformance)
  \cup Serve("liabilitiesChangePerformance", BySector, liabilitiesChangePerformance)
  \cup Serve("marketCapChangePerformance", ByPeriod, marketCapChangePerformance)
  \cup Serve("indsLiquidityChangePerformance", ByPeriod, indsLiquidityChangePerformance)
  \cup Serve("equityIndsChangePerformance", ByPeriod, equityIndsChangePerformance)
  \cup Serve("liabilitiesIndsChangePerformance", ByPeriod, liabilitiesIndsChangePerformance)
  \cup Serve("netRevenueInds", ByPeriod, netRevenueInds)
  \cup Serve("profitInds", ByPeriod, profitInds)
  \cup Serve("activityProfitInds", ByPeriod, activityProfitInds)
  \cup Serve("ebitdaInds", ByPeriod, ebitdaInds)
  \cup Serve("cashDividend", ByPeriod, cashDividend)
  \cup Serve("epsInds", ByPeriod, epsInds)
  \cup Serve("topHotIndustry", NoQuery, topHotIndustry)
===============================================================================
