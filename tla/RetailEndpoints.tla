---------------------------- MODULE RetailEndpoints ---------------------------
(* The handlers of RetailService (retail and foreign trade), of NewsService and
   the reading ones of InvestmentService.
   A definition marked "Mistake" is a wrong version of the next one, used only to
   see that a property would catch it. *)
EXTENDS Programs

(* Rows by `order` of one table, kept for a week. *)
TradeTable(key, order) == Cached(<<key, order>>, OneWeek, Ask(<<key, order>>))

retailValue(q)        == TradeTable("retailValue", q.order)
retailPercentValue(q) == TradeTable("retailPercentValue", q.order)
retailValueTotal(q)   == Cached(<<"retailValueTotal">>, OneWeek, Ask(<<"retailValueTotal">>))
totalExportImport(q)  == TradeTable("exportImport", q.order)
mainExportImport(q)   == Cached(<<"exportImportMain">>, OneWeek, Ask(<<"exportImportMain">>))
mainExportImportMH(q) == TradeTable("exportImportMainMH", q.order)
mainImportMH(q)       == TradeTable("importMainMH", q.order)

\* Mistake: the set, which is commented out, is put back.
MapKept(q) ==
     Ask(<<"lastExportDate">>)
  \o Cached(<<"mapImportMain", q.order>>, OneDay, Ask(<<"mapExportImport", q.order, q.type>>))
(* The key has no `type`.  The set is commented out, so nothing is ever found. *)
mapExportImport(q) ==
     Ask(<<"lastExportDate">>)
  \o Borrowed(<<"mapImportMain", q.order>>, OneDay, Ask(<<"mapExportImport", q.order, q.type>>))

-------------------------------------------------------------------------------
(* NewsService. *)

(* A page or a limit of nothing or 0 is the first, of twenty. *)
OrDefault(n, default) == IF n = 0 THEN default ELSE n

getEvent(q) ==
  LET page  == OrDefault(q.page, 1)
      limit == OrDefault(q.limit, 20)
      floor == IF q.ex = "ALL" THEN {"HOSE", "UPCOM", "HNX"} ELSE {q.ex}
  IN Cached(<<"newsEvent", page, limit, floor, q.type>>, OneHour,
            Ask(<<"newsEvent", page, limit, floor, q.type>>))

newsEnterprise(q) ==
  Cached(<<"newsEnterprise">>, OneHour,
         Ask(<<"lastTradingDay">>) \o Ask(<<"newsEnterprise">>))

macroDomestic(q)      == Ask(<<"macroDomestic", OrDefault(q.page, 1), OrDefault(q.limit, 20)>>)
macroInternational(q) == Ask(<<"macroInternational", OrDefault(q.page, 1), OrDefault(q.limit, 20)>>)

newsCategories(q) == Cached(<<"filter">>, OneWeek, Ask(<<"filter">>))

newsFilter(q) ==
  LET page  == OrDefault(q.page, 1)
      limit == OrDefault(q.limit, 20)
      codes == IF q.codes = "all" THEN "" ELSE q.codes
  IN Cached(<<"newsFilter", page, limit, codes>>, HaftHour,
            Ask(<<"newsFilter", page, limit, codes>>))

getInfoStock(q) == Cached(<<"infoStock">>, OneDay, Ask(<<"infoStock">>))

-------------------------------------------------------------------------------
(* InvestmentService. *)

investmentFilter(q) == Ask(<<"filterInvesting", Floor(q.ex), q.inds>>)

(* The columns first, then their least and greatest values. *)
keyFilter(q) ==
  Cached(<<"minMaxFilter">>, OneHour, Ask(<<"columns">>) \o Ask(<<"minMax">>))

(* Months are counted from a January; `to` must not be in a month of the current
   month's name, of whatever year, nor before `from`.  Periodic savings need the first
   trading day of each month before the prices. *)
CurrentMonth == 14
emulatorInvestment(q) ==
  IF q.to % 12 = CurrentMonth % 12 \/ q.to < q.from
  THEN Refuse
  ELSE LET asked == <<q.from, q.to, q.isPeriodic>>
       IN    (IF q.isPeriodic THEN Ask(<<"firstDays", q.from, q.to>>) ELSE <<>>)
          \o Together({<<"prices", asked>>, <<"vnindex", asked>>, <<"bond">>})

search(q) == Ask(<<"search", q.stock>>)

-------------------------------------------------------------------------------
(* The requests the controllers route to them. *)
ByMonths       == [from : {12}, to : {2, 11, 13}, isPeriodic : BOOLEAN]
ByName         == [stock : Stocks]
ByTradeOrder   == [order : Orders]
ByTradeType    == [order : Orders, type : Types]
ByEventPage    == [page : {0, 2}, limit : {0, 10}, ex : Exchanges, type : Types]
ByPage         == [page : {0, 2}, limit : {0, 10}]
ByCodes        == [page : {0, 2}, limit : {0}, codes : {"all", "VIC,VCB"}]
BySectorFilter == [ex : Exchanges, inds : Industries]

RetailEndpoints ==
       Serve("retailValue", ByTradeOrder, retailValue)
  \cup Serve("retailPercentValue", ByTradeOrder, retailPercentValue)
  \cup Serve("retailValueTotal", NoQuery, retailValueTotal)
  \cup Serve("totalExportImport", ByTradeOrder, totalExportImport)
  \cup Serve("mainExportImport", NoQuery, mainExportImport)
  \cup Serve("mainExportImportMH", ByTradeOrder, mainExportImportMH)
  \cup Serve("mainImportMH", ByTradeOrder, mainImportMH)
  \cup Serve("mapExportImport", ByTradeType, mapExportImport)

NewsEndpoints ==
       Serve("getEvent", ByEventPage, getEvent)
  \cup Serve("newsEnterprise", NoQuery, newsEnterprise)
  \cup Serve("macroDomestic", ByPage, macroDomestic)
  \cup Serve("macroInternational", ByPage, macroInternational)
  \cup Serve("newsCategories", NoQuery, newsCategories)
  \cup Serve("newsFilter", ByCodes, newsFilter)
  \cup Serve("getInfoStock", NoQuery, getInfoStock)
  \cup Serve("investmentFilter", BySectorFilter, investmentFilter)
  \cup Serve("keyFilter", NoQuery, keyFilter)
  \cup Serve("emulatorInvestment", ByMonths, emulatorInvestment)
  \cup Serve("search", ByName, search)
===============================================================================
