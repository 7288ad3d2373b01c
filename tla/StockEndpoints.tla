---------------------------- MODULE StockEndpoints ----------------------------
(* The handlers of StockService and ChartService: the boards of the trading day.
   Where a handler takes the trading dates of a table, it takes them through
   getSessionDate, which caches them for every service under one key.
   A definition marked "Mistake" is a wrong version of the next one, used only to
   see that a property would catch it. *)
EXTENDS Programs

(* The dates of the last twenty sessions, the first session since a year ago and
   the first of this year: three queries, one after the other. *)
stockSessionDate(table) ==
  Cached(<<"SessionDate", table, "date">>, Default,
            Ask(<<"dates", table, "stock">>)
         \o Ask(<<"lastYear", table>>)
         \o Ask(<<"firstDateYear", table>>))

(* `by` tells apart the ways the callers write a day into the key. *)
getExchangesVolume(by, period) ==
  Cached(<<"ExchangeVolume", by, period>>, Default,
         stockSessionDate("tickerTradeVND") \o Ask(<<"exchangesVolume", by, period>>))

(* The day is asked for even when the prices are cached, where it is not used.  An error
   is swallowed: the request ends with no answer at all. *)
getTickerPrice ==
     stockSessionDate("tickerTradeVND")
  \o Cached(<<"TickerPrice">>, Default, Ask(<<"tickerPrice">>))

(* One query per date that getSessionDate knows, all at once. *)
getMarketVolatility(q) ==
  Cached(<<"MarketVolatility">>, Default,
            stockSessionDate("database_chisotoday")
         \o Together({<<"volatility", d>> : d \in {"latest", "previous", "week", "month", "year"}}))

(* `order` sorts rows that are the same for every order. *)
getMarketLiquidity(q) ==
  Cached(<<"MarketLiquidity", q.order>>, Default,
            stockSessionDate("tickerTradeVND")
         \o getExchangesVolume("date", 0)
         \o Ask(<<"marketLiquidity">>))

(* Three child processes, each started when the one before has answered; the
   second one's two queries follow each other. *)
getIndustry(q) ==
  Cached(<<"Industry", q.ex>>, Minute,
            stockSessionDate("ratioInday")
         \o Ask(<<"industryChanges", q.ex>>)
         \o Ask(<<"industryBreadth", q.ex, "latest">>)
         \o Ask(<<"industryBreadth", q.ex, "previous">>)
         \o Ask(<<"buySellPressure", q.ex>>))

getNetTransactionValue(q) == Ask(<<"netTransactionValue", q.ex>>)
getNews(q)      == Cached(<<"StockNews">>, Default, Ask(<<"stockNews">>))
getMacroNews(q) == Cached(<<"StockMacroNews">>, Default, Ask(<<"macroNews">>))
getDomesticIndex(q) == Ask(<<"domesticIndex">>)

getTopNetForeign(q) ==
     stockSessionDate("foreign")
  \o Together({<<"topNetForeign", q.ex, "DESC">>, <<"topNetForeign", q.ex, "ASC">>})

getNetForeign(q) ==
  stockSessionDate("foreign") \o Ask(<<"netForeign", q.ex, q.order>>)

getTopROC(q) ==
  Cached(<<"TopRoc5", q.ex>>, Default,
            stockSessionDate(q.ex)
         \o Together({<<"topROC", q.ex, "DESC">>, <<"topROC", q.ex, "ASC">>}))

getTopNetForeignChangeByExchange(q) ==
  Cached(<<"TopNetForeignByEx", q.ex>>, Default,
            stockSessionDate("BCN_netvalue")
         \o Together({<<"netForeignChange", q.ex, "DESC">>, <<"netForeignChange", q.ex, "ASC">>}))

getMaterialPriceV2(q) == Ask(<<"materialPrice">>)
getStockEvents(q) == Cached(<<"StockEvents">>, Default, Ask(<<"stockEvents">>))

(* The test of what redis returned is commented out. *)
getMerchandisePrice(q) ==
  Unread(<<"MerchandisePrice", q.order>>, Default, Ask(<<"merchandisePrice", q.order>>))

marketEvaluation(q) ==
  Cached(<<"MarketEvaluation">>, Default,
         stockSessionDate("biendong-chiso-mainweb") \o Ask(<<"marketEvaluation">>))

(* The rows first, then the volume of the exchanges they are a share of. *)
getLiquidityContribute(q) ==
  Cached(<<"LiquidityContribute", q.type, q.order, q.ex>>, Default,
            stockSessionDate("TICKER_AC_CC")
         \o Ask(<<"liquidityContribute", q.type, q.order, q.ex>>)
         \o getExchangesVolume("period", q.order))

\* Mistake: milliseconds taken for seconds.
MapTooLong(q) ==
  Cached(<<"MarketMap", q.ex, q.map>>, 1000 * FiveMinutes,
     stockSessionDate("tickerTradeVND") \o Ask(<<"mapTrade", Floor(q.ex), q.map>>))
(* MarketMapEnum: by market capitalisation, value, volume, foreign trade. *)
getMarketMap(q) ==
  Cached(<<"MarketMap", q.ex, q.map>>, FiveMinutes,
     stockSessionDate("tickerTradeVND")
       \o CASE q.map = 3      -> stockSessionDate("foreign") \o Ask(<<"mapForeign", Floor(q.ex)>>)
            [] q.map = 0      -> Ask(<<"lastRatioDate">>) \o Ask(<<"mapMarketCap", Floor(q.ex)>>)
            [] q.map \in 1..2 -> Ask(<<"mapTrade", Floor(q.ex), q.map>>)
            [] OTHER          -> Refuse)

getUpDownTicker(q) ==
  Cached(<<"BienDongThiTruong", q.index>>, Default,
            stockSessionDate("tickerTradeVND")
         \o IF q.index \in {"VNINDEX", "VN30", "VNALL", "HNX", "HNX30", "UPCOM"}
            THEN Ask(<<"upDownTicker", q.index>>)
            ELSE Refuse)

-------------------------------------------------------------------------------
(* ChartService. *)

(* timeCheck: between midnight and 9:15 the answer is [] without a query; q.open
   says whether the session has opened. *)
SinceOpening(q, question) == IF q.open THEN Ask(question) ELSE <<>>

getMarketLiquidityYesterday(q) == SinceOpening(q, <<"liquidityYesterday">>)
getMarketLiquidityToday(q)     == SinceOpening(q, <<"liquidityToday">>)
getMarketBreadthNow(q)         == SinceOpening(q, <<"breadthNow", "HOSE">>)

getLineChartNow(q) == Ask(<<"lineChartNow", q.index>>)

getLineChart(q) ==
  IF q.type = 0
  THEN getLineChartNow(q)
  ELSE Cached(<<"LineChart", q.type, q.index>>, Default,
              stockSessionDate("indexTradeVND") \o Ask(<<"lineChart", q.type, q.index>>))

getTickerContribute(q) ==
  stockSessionDate("CPAH") \o Ask(<<"tickerContribute", q.type, q.order, q.ex>>)

getMarketCashFlow(q) == Ask(<<"marketCashFlow">>)

(* Before the cache is looked at, type 0 is answered from the running session:
   that of HOSE, or else of HNX. *)
getMarketBreadth(q) ==
  IF q.type = 0
  THEN SinceOpening(q, <<"breadthNow", IF q.ex = "HOSE" THEN "HOSE" ELSE "HNX">>)
  ELSE Cached(<<"MarketBreadth", q.ex, q.type>>, Default,
              stockSessionDate("tickerTradeVND") \o Ask(<<"marketBreadth", q.ex, q.type>>))

-------------------------------------------------------------------------------
(* The requests StockController and ChartController route to them. *)
ByExchange == [ex : Exchanges]
ByOrder    == [order : Orders]
ByOpening  == [open : BOOLEAN]
ByMap      == [ex : Exchanges, map : 0..4]
ByIndex    == [index : {"VNINDEX", "VN30", "VNXALL"}]
ByExchangeAndOrder == [ex : Exchanges, order : Orders]
ByContribution     == [ex : Exchanges, type : Types, order : Orders]
ByIndexAndType     == [index : {"VNINDEX", "VN30"}, type : Types]
ByBreadth          == [ex : Exchanges, type : Types, open : BOOLEAN]

StockEndpoints ==
       Serve("getMarketVolatility", NoQuery, getMarketVolatility)
  \cup Serve("getMarketLiquidity", ByOrder, getMarketLiquidity)
  \cup Serve("getIndustry", ByExchange, getIndustry)
  \cup Serve("getNetTransactionValue", ByExchange, getNetTransactionValue)
  \cup Serve("getNews", NoQuery, getNews)
  \cup Serve("getMacroNews", NoQuery, getMacroNews)
  \cup Serve("getDomesticIndex", NoQuery, getDomesticIndex)
  \cup Serve("getTopNetForeign", ByExchange, getTopNetForeign)
  \cup Serve("getNetForeign", ByExchangeAndOrder, getNetForeign)
  \cup Serve("getTopROC", ByExchange, getTopROC)
  \cup Serve("getTopNetForeignChangeByExchange", ByExchange, getTopNetForeignChangeByExchange)
  \cup Serve("getMaterialPriceV2", NoQuery, getMaterialPriceV2)
  \cup Serve("getStockEvents", NoQuery, getStockEvents)
  \cup Serve("getMerchandisePrice", ByOrder, getMerchandisePrice)
  \cup Serve("marketEvaluation", NoQuery, marketEvaluation)
  \cup Serve("getLiquidityContribute", ByContribution, getLiquidityContribute)
  \cup Serve("getMarketMap", ByMap, getMarketMap)
  \cup Serve("getUpDownTicker", ByIndex, getUpDownTicker)

ChartEndpoints ==
       Serve("getMarketLiquidityYesterday", ByOpening, getMarketLiquidityYesterday)
  \cup Serve("getMarketLiquidityToday", ByOpening, getMarketLiquidityToday)
  \cup Serve("getMarketBreadthNow", ByOpening, getMarketBreadthNow)
  \cup Serve("getLineChart", ByIndexAndType, getLineChart)
  \cup Serve("getLineChartNow", ByIndex, getLineChartNow)
  \cup Serve("getTickerContribute", ByContribution, getTickerContribute)
  \cup Serve("getMarketCashFlow", NoQuery, getMarketCashFlow)
  \cup Serve("getMarketBreadth", ByBreadth, getMarketBreadth)
===============================================================================
