--------------------------- MODULE SharesEndpoints ----------------------------
(* The handlers of SharesService: the page of one stock and its ratings.  The
   query `q` has the stock, and where the page has them a length of period
   `order`, a layout `chart` or a kind of stock or list `type`.
   A definition marked "Mistake" is a wrong version of the next one, used only to
   see that a property would catch it. *)
EXTENDS Programs

(* The short name of the sector, as the header's query computes it. *)
Kind(stock) == CASE LV2(stock) = "Ngan hang"         -> "NH"
                 [] LV2(stock) = "Dich vu tai chinh" -> "CK"
                 [] OTHER                            -> "CTCP"

searchStock(q) == Ask(<<"searchStock", q.stock>>)

(* A stock without ratios has no header; one of another kind than the page's is
   refused, after three of the queries. *)
header(q) ==
  Cached(<<"headerStock", q.stock, q.type>>, Minute,
     Ask(<<"ratioDate", q.stock>>)
       \o IF ~Known(q.stock) THEN Stop ELSE
               Ask(<<"tradeDate", q.stock>>)
            \o Ask(<<"kind", q.stock>>)
            \o IF Kind(q.stock) # q.type THEN Refuse ELSE
                    Ask(<<"monthAgo">>)
                 \o Ask(<<"yearAgo">>)
                 \o Ask(<<"header", q.stock, q.type>>))

candleChart(q) == Ask(<<"candles", q.stock>>)

transactionStatistics(q) ==
  Cached(<<"transactionStatistics", q.stock>>, HaftHour, Ask(<<"statistics", q.stock>>))
businessResults(q) ==
  Cached(<<"businessResults", q.order, q.stock, q.type>>, OneDay,
         Ask(<<"businessResults", q.order, q.stock, q.type>>))
balanceSheet(q) ==
  Cached(<<"balanceSheet", q.order, q.stock, q.type>>, OneDay,
         Ask(<<"balanceSheet", q.order, q.stock, q.type>>))
castFlow(q) ==
  Cached(<<"castFlow", q.order, q.stock>>, OneDay, Ask(<<"castFlow", q.order, q.stock>>))
financialIndicators(q) ==
  Cached(<<"financialIndicators", q.stock>>, OneWeek, Ask(<<"financialIndicators", q.stock>>))
enterprisesSameIndustry(q) ==
  Cached(<<"enterprisesSameIndustry", q.ex, q.stock>>, HaftHour,
         Ask(<<"ratioDate", q.stock>>) \o Ask(<<"sameIndustry", q.ex, q.stock>>))
eventCalendar(q) ==
  Cached(<<"eventCalendar", q.stock>>, OneDay, Ask(<<"eventCalendar", q.stock>>))
transactionData(q) == Ask(<<"transactionData", q.stock>>)

(* The days to compare with are looked up one after the other. *)
tradingPriceFluctuations(q) ==
  Cached(<<"tradingPriceFluctuations", q.stock>>, HaftHour,
            Ask(<<"lastTradingDay", "now">>)
         \o Ask(<<"lastTradingDay", "week">>)
         \o Ask(<<"lastTradingDay", "month">>)
         \o Ask(<<"lastTradingDay", "year">>)
         \o Ask(<<"lastTradingDay", "quarter_start">>)
         \o Ask(<<"lastTradingDay", "quarter_end">>)
         \o Ask(<<"priceFluctuations", q.stock>>))

averageTradingVolume(q) ==
  Cached(<<"averageTradingVolume", q.stock>>, HaftHour, Ask(<<"averageVolume", q.stock>>))
statisticsMonthQuarterYear(q) ==
  Cached(<<"statisticsMonthQuarterYear", q.order, q.stock>>, OneWeek,
         Ask(<<"statisticsByPeriod", q.order, q.stock>>))
tradingGroupsInvestors(q) ==
  Cached(<<"tradingGroupsInvestors", q.stock>>, HaftHour, Ask(<<"groupsInvestors", q.stock>>))

(* Types 0 and 1 are about the stock and its sector, 2 about all stocks. *)
eventCalendarDetail(q) ==
  Ask(IF q.order = 2 THEN <<"events", q.order>> ELSE <<"events", q.order, q.stock>>)
newsStock(q) ==
  Ask(IF q.order = 2 THEN <<"newsOf", q.order>> ELSE <<"newsOf", q.order, q.stock>>)

castFlowDetail(q) ==
  Cached(<<"castFlowDetail", q.order, q.stock, q.chart>>, OneWeek,
            Ask(<<"LV2", q.stock>>)
         \o Ask(<<"castFlowDetail", q.order, q.stock, q.chart>>))

(* The sector decides which lines of the report there are.  It is asked for even
   when the answer is cached, and without one the answer is []. *)
OfKnownSector(q, rest) == Ask(<<"LV2", q.stock>>) \o IF Known(q.stock) THEN rest ELSE Stop

businessResultDetail(q) ==
  OfKnownSector(q,
    Cached(<<"businessResultDetail", q.order, q.stock, q.chart>>, OneWeek,
           Ask(<<"businessResultDetail", q.order, q.stock, q.chart>>)))
balanceSheetDetail(q) ==
  OfKnownSector(q,
    Cached(<<"balanceSheetDetail", q.order, q.stock, q.chart>>, OneWeek,
           Ask(<<"balanceSheetDetail", q.order, q.stock, q.chart>>)))
balanceSheetDetailCircle(q) ==
  OfKnownSector(q,
    Cached(<<"balanceSheetDetailCircle", q.order, q.stock>>, OneWeek,
           Ask(<<"balanceSheetDetailCircle", q.order, q.stock>>)))
financialIndicatorsDetail(q) ==
  OfKnownSector(q,
    Cached(<<"financialIndicatorsDetail", q.order, q.stock, q.chart>>, OneDay,
           Ask(<<"financialIndicatorsDetail", q.order, q.stock, q.chart>>)))

-------------------------------------------------------------------------------
(* The ratings. *)

(* Banks: the stars of the whole market are taken from what the rating of a stock
   of another sector has left in redis, or else computed, and not kept. *)
financialHealthRatingNH(stock) ==
  Cached(<<"financialHealthRating", stock>>, OneDay,
            Together({<<"healthNH", stock>>, <<"healthNHQuarters">>})
         \o Ask(<<"ratingQuarter">>)
         \o Borrowed(<<"financialHealthRatingAll">>, OneDay, Ask(<<"healthAll">>)))

(* Securities and insurance. *)
financialHealthRatingCKBH(stock) ==
  Cached(<<"financialHealthRating", stock>>, OneDay, Ask(<<"healthCKBH", stock>>))

(* One query answers for the stock and for the whole market. *)
financialHealthRatingOther(stock) ==
  CachedThen(<<"financialHealthRating", stock>>, OneDay,
                Ask(<<"ratingQuarter">>)
             \o AskFor({<<"health", stock>>, <<"healthAll">>}),
             Share(<<"financialHealthRatingAll">>, OneDay, {<<"healthAll">>}))

financialHealthRating(q) ==
  Ask(<<"LV2", q.stock>>)
    \o CASE ~Known(q.stock)                       -> Refuse
         [] LV2(q.stock) = "Ngan hang"            -> financialHealthRatingNH(q.stock)
         [] LV2(q.stock) = "Dich vu tai chinh"    -> financialHealthRatingCKBH(q.stock)
         [] OTHER                                 -> financialHealthRatingOther(q.stock)

\* Mistake: one of the queries is awaited before the others, which already run.
TechniqueEarly(q) ==
  LET others == {<<"techniqueIndustry", q.stock>>, <<"techniqueMarket">>}
  IN Cached(<<"techniqueRating", q.stock>>, OneDay,
            Start(others) \o Ask(<<"technique", q.stock>>) \o Join(others))
techniqueRating(q) ==
  Cached(<<"techniqueRating", q.stock>>, OneDay,
         Together({<<"technique", q.stock>>, <<"techniqueIndustry", q.stock>>,
                   <<"techniqueMarket">>}))

(* No rows, no rating. *)
valuationRating(q) ==
  Cached(<<"valuationRating", q.stock>>, FiveMinutes,
            Together({<<"valuation", q.stock>>, <<"valuationIndustry", q.stock>>,
                      <<"valuationMarket">>})
         \o IF Known(q.stock) THEN <<>> ELSE Stop)

businessRating(q) ==
  Cached(<<"businessRating", q.stock>>, OneDay,
            Ask(<<"businessQuarter">>)
         \o Together({<<"business", i, q.stock>> : i \in 1..4} \cup {<<"LV2", q.stock>>}))

(* Three queries are under way while redis and the fourth are waited for: if either of
   the two fails they run on, and nobody waits for them.  What redis has of
   tyLeCoTucTienMat, the same for every stock, is asked before the fourth and decides
   only whether its rows are kept. *)
individualInvestorBenefitsRating(q) ==
  Cached(<<"individualInvestorBenefitsRating", q.stock>>, OneDay,
            Ask(<<"benefitDates", q.stock>>)
         \o Start({<<"benefits", i, q.stock>> : i \in {1, 2, 4}})
         \o Ask(<<"benefits", 3, q.stock>>)
         \o ShareIfAbsent(<<"tyLeCoTucTienMat">>, OneWeek, {<<"benefits", 3, q.stock>>})
         \o Join({}))

(* Each date is waited for while the queries before it are under way, and run on if
   the date cannot be read. *)
businessPositionRating(q) ==
  Cached(<<"businessPositionRating", q.stock>>, OneDay,
     Ask(<<"LV2", q.stock>>)
       \o IF ~Known(q.stock) THEN Refuse ELSE
               Start({<<"position", 1, q.stock>>, <<"position", 4, q.stock>>})
            \o Ask(<<"lastForeignDate">>)
            \o Ask(<<"foreignDateYearAgo">>)
            \o Start({<<"position", 2, q.stock>>})
            \o Ask(<<"reportQuarter">>)
            \o Join({<<"position", 3, q.stock>>}))

(* The test of what redis returned is commented out. *)
headerRating(q) ==
  Unread(<<"headerRating", q.stock>>, OneDay,
         Together({<<"headerRating", i, q.stock>> : i \in 1..4}))

(* Promise.all of three queries and three ratings, one after the other here. *)
canslimPrefilter(q) ==
  Cached(<<"canslimPrefilter", q.stock>>, OneDay,
            Ask(<<"canslimQuarter", q.stock>>)
         \o Together({<<"canslim", i, q.stock>> : i \in 1..3})
         \o individualInvestorBenefitsRating(q)
         \o businessPositionRating(q)
         \o businessRating(q))

-------------------------------------------------------------------------------
(* The requests SharesController routes to them. *)
ByStock           == [stock : Stocks]
ByStockAndType    == [stock : Stocks, type : {"NH", "CTCP"}]
ByStockAndOrder   == [stock : Stocks, order : Orders]
ByStockAndList    == [stock : Stocks, order : 0..2]
ByStockAndReport  == [stock : Stocks, order : Orders, type : {"NH", "CTCP"}]
ByStockAndLayout  == [stock : Stocks, order : Orders, chart : BOOLEAN]
ByStockAndFloor   == [stock : Stocks, ex : Exchanges]

SharesEndpoints ==
       Serve("searchStock", ByStock, searchStock)
  \cup Serve("header", ByStockAndType, header)
  \cup Serve("candleChart", ByStock, candleChart)
  \cup Serve("transactionStatistics", ByStock, transactionStatistics)
  \cup Serve("businessResults", ByStockAndReport, businessResults)
  \cup Serve("balanceSheet", ByStockAndReport, balanceSheet)
  \cup Serve("castFlow", ByStockAndOrder, castFlow)
  \cup Serve("financialIndicators", ByStock, financialIndicators)
  \cup Serve("enterprisesSameIndustry", ByStockAndFloor, enterprisesSameIndustry)
  \cup Serve("eventCalendar", ByStock, eventCalendar)
  \cup Serve("transactionData", ByStock, transactionData)
  \cup Serve("tradingPriceFluctuations", ByStock, tradingPriceFluctuations)
  \cup Serve("averageTradingVolume", ByStock, averageTradingVolume)
  \cup Serve("statisticsMonthQuarterYear", ByStockAndOrder, statisticsMonthQuarterYear)
  \cup Serve("tradingGroupsInvestors", ByStock, tradingGroupsInvestors)
  \cup Serve("eventCalendarDetail", ByStockAndList, eventCalendarDetail)
  \cup Serve("newsStock", ByStockAndList, newsStock)
  \cup Serve("castFlowDetail", ByStockAndLayout, castFlowDetail)
  \cup Serve("businessResultDetail", ByStockAndLayout, businessResultDetail)
  \cup Serve("balanceSheetDetail", ByStockAndLayout, balanceSheetDetail)
  \cup Serve("balanceSheetDetailCircle", ByStockAndOrder, balanceSheetDetailCircle)
  \cup Serve("financialIndicatorsDetail", ByStockAndLayout, financialIndicatorsDetail)

RatingEndpoints ==
       Serve("financialHealthRating", ByStock, financialHealthRating)
  \cup Serve("techniqueRating", ByStock, techniqueRating)
  \cup Serve("valuationRating", ByStock, valuationRating)
  \cup Serve("businessRating", ByStock, businessRating)
  \cup Serve("individualInvestorBenefitsRating", ByStock, individualInvestorBenefitsRating)
  \cup Serve("businessPositionRating", ByStock, businessPositionRating)
  \cup Serve("headerRating", ByStock, headerRating)
  \cup Serve("canslimPrefilter", ByStock, canslimPrefilter)
===============================================================================
