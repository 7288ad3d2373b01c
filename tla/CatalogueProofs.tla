---------------------------- MODULE CatalogueProofs ----------------------------
(***************************************************************************)
(* What the handlers of the read endpoints have in common, for any         *)
(* parameters of the requests, any lifetimes and any time that a request   *)
(* may take.                                                               *)
(*                                                                         *)
(* The catalogue is gone through once, handler by handler, without regard  *)
(* to what happens at the same time: each handler "fits", that is, the     *)
(* frames can be foretold at each of its steps, and what it finds or keeps *)
(* under a key is what every handler finds or keeps under it, and not      *)
(* older; and each handler is "in time", that is, the caches around each   *)
(* step give room for all that comes out of them.  That what was foretold  *)
(* happens, however the requests overlap, is shown in EndpointCacheProofs, *)
(* once for all handlers.                                                  *)
(***************************************************************************)
EXTENDS EndpointCache, SequenceTheorems, FiniteSetTheorems, TLAPS

-------------------------------------------------------------------------------
(* What the keys mean *)

\* What a request asks, but for the trading dates.
Topics(program) == About(Questions(program))

\* Keys that are the question, by how long they are kept.
DayKeys ==
  {"centralExchangeRate", "exchangeRateIndexTable", "exchangeRateAndInterestRate",
   "interestRate", "infoStock", "businessResults", "balanceSheet", "castFlow",
   "eventCalendar", "financialIndicatorsDetail"}
HaftHourKeys ==
  {"averageDepositInterestRate", "totalOutstandingBalance",
   "estimatedValueOfCorporateBonds", "listOfBondsToMaturity",
   "listOfEnterprisesWithLateBond", "newsFilter"}
HourKeys == {"newsEvent"}
WeekKeys ==
  {"industryGDPValue", "gdpPrice", "idustryGDPContibute", "idustryGDPGrowthPercent",
   "idustryCPIPercent", "idustryCPITable", "idustryCPISameQuater", "idustryCPIChange",
   "cpiQuyenSo", "industrialIndex", "industrialIndexTable", "ippConsumAndInventory",
   "ippIndusProductionIndex", "ippMostIndusProduction", "laborForce", "unemployedRate",
   "laborRate", "informalLaborRate", "averageSalary", "employmentFluctuations",
   "totalPayment", "totalPaymentPercent", "balancePaymentInternational", "creditDebt",
   "creditDebtPercent", "creditInstitution", "totalInvestmentProjects", "accumulated",
   "totalRegisteredAndDisbursed", "retailValue", "retailPercentValue", "retailValueTotal",
   "exportImport", "exportImportMain", "exportImportMainMH", "importMainMH",
   "filter", "interestRatesOnLoans", "financialIndicators",
   "businessResultDetail", "balanceSheetDetail", "balanceSheetDetailCircle"}
PlainKeys == DayKeys \cup HaftHourKeys \cup HourKeys \cup WeekKeys
PlainTtl(name) ==
  IF name \in DayKeys THEN OneDay
  ELSE IF name \in HaftHourKeys THEN HaftHour
  ELSE IF name \in HourKeys THEN OneHour
  ELSE OneWeek

\* How the answers under the other keys come about, from what is in the key.
MarketKept(k) ==
  CASE k[1] = "NearestDate" -> Cached(k, Default, Ask(<<"nearest", k[2], k[3]>>))
    [] k[1] = "LiquidityChangePerformance" ->
         Cached(k, Default, Ask(<<"tradingDays">>) \o Ask(<<"liquidity", k[2], k[3]>>))
    [] k[1] = "marketCapChange" ->
         Cached(k, OneDay, Ask(<<"firstRatioDay">>) \o Ask(<<"marketCap", k[2], k[3], k[4]>>))
    [] k[1] = "IndusLiquidity" ->
         Cached(k, OneDay,
            getNearestDate("tickerTradeVND", <<k[3], 0>>)
         \o getNearestDate("tickerTradeVND", <<k[3], 1>>)
         \o Ask(<<"indsLiquidity", k[2], k[3], k[4]>>))
    [] k[1] = "EquityIndsChange" -> Cached(k, OneDay, Ask(<<"equityInds", k[2], k[3], k[4]>>))
    [] k[1] = "LiabilitiesIndsChange" ->
         Cached(k, OneDay, Ask(<<"liabilitiesInds", k[2], k[3], k[4]>>))
    [] k[1] = "netRevenueInds" -> Cached(k, OneDay, Ask(<<"netRevenue", k[2], k[3], k[4]>>))
    [] k[1] = "ProfitInds"     -> Cached(k, OneDay, Ask(<<"profit", k[2], k[3], k[4]>>))
    [] k[1] = "ActivityProfitInds" ->
         Cached(k, OneDay, Ask(<<"activityProfit", k[2], k[3], k[4]>>))
    [] k[1] = "EBITDAInds"     -> Cached(k, OneDay, Ask(<<"ebitda", k[2], k[3], k[4]>>))
    [] k[1] = "CashDividend"   -> Cached(k, OneDay, Ask(<<"cashDividend", k[2], k[3], k[4]>>))
    [] k[1] = "EPSInds"        -> Cached(k, OneDay, Ask(<<"eps", k[3], k[4]>>))
    [] k[1] = "EquityChange" ->
         Cached(k, OneDay, Ask(<<"lastTwoYears">>) \o Ask(<<"equity", k[2], k[3]>>))
    [] k[1] = "LiabilitiesChange" ->
         Cached(k, OneDay, Ask(<<"lastTwoYears">>) \o Ask(<<"liabilities", k[2], k[3]>>))
    [] k[1] = "TopHotIndustry" -> topHotIndustry(<<>>)

MarketKeys ==
  {"NearestDate", "LiquidityChangePerformance", "marketCapChange", "IndusLiquidity",
   "EquityIndsChange", "LiabilitiesIndsChange", "netRevenueInds", "ProfitInds",
   "ActivityProfitInds", "EBITDAInds", "CashDividend", "EPSInds", "EquityChange",
   "LiabilitiesChange", "TopHotIndustry"}

\* Those of the boards.
BoardKept(k) ==
  CASE k[1] = "ExchangeVolume"      -> getExchangesVolume(k[2], k[3])
    [] k[1] = "TickerPrice"         -> Cached(k, Default, Ask(<<"tickerPrice">>))
    [] k[1] = "MarketVolatility"    -> getMarketVolatility(<<>>)
    [] k[1] = "MarketLiquidity"     -> getMarketLiquidity([order |-> k[2]])
    [] k[1] = "Industry"            -> getIndustry([ex |-> k[2]])
    [] k[1] = "StockNews"           -> getNews(<<>>)
    [] k[1] = "StockMacroNews"      -> getMacroNews(<<>>)
    [] k[1] = "TopRoc5"             -> getTopROC([ex |-> k[2]])
    [] k[1] = "TopNetForeignByEx"   -> getTopNetForeignChangeByExchange([ex |-> k[2]])
    [] k[1] = "StockEvents"         -> getStockEvents(<<>>)
    [] k[1] = "MarketEvaluation"    -> marketEvaluation(<<>>)
    [] k[1] = "LiquidityContribute" ->
         getLiquidityContribute([type |-> k[2], order |-> k[3], ex |-> k[4]])
    [] k[1] = "MarketMap"           -> getMarketMap([ex |-> k[2], map |-> k[3]])
    [] k[1] = "BienDongThiTruong"   -> getUpDownTicker([index |-> k[2]])
    [] k[1] = "LineChart" ->
         Cached(k, Default,
                stockSessionDate("indexTradeVND") \o Ask(<<"lineChart", k[2], k[3]>>))
    [] k[1] = "MarketBreadth" ->
         Cached(k, Default,
                stockSessionDate("tickerTradeVND") \o Ask(<<"marketBreadth", k[2], k[3]>>))
    [] k[1] = "InvestorTransaction" ->
         getInvestorTransactions([time |-> k[2], investor |-> k[3]])
    [] k[1] = "InvestorTransactionRatio" -> getInvestorTransactionRatio(<<>>)
    [] k[1] = "Rsi"                 -> getRSI([ex |-> k[2], session |-> k[3]])
    [] k[1] = "TopNetBuyIndustry"   -> getTopNetBuyIndustry([time |-> k[2], ex |-> k[3]])
    [] k[1] = "InvestorCashFlowByIndustry" ->
         getInvestorCashFlowByIndustry([ex |-> k[2], time |-> k[3], investor |-> k[4]])

BoardKeys ==
  {"ExchangeVolume", "TickerPrice", "MarketVolatility", "MarketLiquidity", "Industry",
   "StockNews", "StockMacroNews", "TopRoc5", "TopNetForeignByEx", "StockEvents",
   "MarketEvaluation", "LiquidityContribute", "MarketMap", "BienDongThiTruong",
   "LineChart", "MarketBreadth", "InvestorTransaction", "InvestorTransactionRatio", "Rsi",
   "TopNetBuyIndustry", "InvestorCashFlowByIndustry"}

SharesKept(k) ==
  CASE k[1] = "headerStock" -> header([stock |-> k[2], type |-> k[3]])
    [] k[1] = "transactionStatistics" -> transactionStatistics([stock |-> k[2]])
    [] k[1] = "enterprisesSameIndustry" ->
         enterprisesSameIndustry([ex |-> k[2], stock |-> k[3]])
    [] k[1] = "tradingPriceFluctuations" -> tradingPriceFluctuations([stock |-> k[2]])
    [] k[1] = "averageTradingVolume" -> averageTradingVolume([stock |-> k[2]])
    [] k[1] = "statisticsMonthQuarterYear" ->
         statisticsMonthQuarterYear([order |-> k[2], stock |-> k[3]])
    [] k[1] = "tradingGroupsInvestors" -> tradingGroupsInvestors([stock |-> k[2]])
    [] k[1] = "castFlowDetail" ->
         castFlowDetail([order |-> k[2], stock |-> k[3], chart |-> k[4]])
    [] k[1] = "financialHealthRating" ->
         IF LV2(k[2]) = "Ngan hang" THEN financialHealthRatingNH(k[2])
         ELSE IF LV2(k[2]) = "Dich vu tai chinh" THEN financialHealthRatingCKBH(k[2])
         ELSE financialHealthRatingOther(k[2])
    [] k[1] = "financialHealthRatingAll" -> Cached(k, OneDay, Ask(<<"healthAll">>))
    [] k[1] = "techniqueRating" -> techniqueRating([stock |-> k[2]])
    [] k[1] = "valuationRating" -> valuationRating([stock |-> k[2]])
    [] k[1] = "businessRating" -> businessRating([stock |-> k[2]])
    [] k[1] = "individualInvestorBenefitsRating" ->
         individualInvestorBenefitsRating([stock |-> k[2]])
    [] k[1] = "businessPositionRating" -> businessPositionRating([stock |-> k[2]])
    [] k[1] = "canslimPrefilter" -> canslimPrefilter([stock |-> k[2]])

SharesKeys ==
  {"headerStock", "transactionStatistics", "enterprisesSameIndustry",
   "tradingPriceFluctuations", "averageTradingVolume", "statisticsMonthQuarterYear",
   "tradingGroupsInvestors", "castFlowDetail", "financialHealthRating",
   "financialHealthRatingAll", "techniqueRating", "valuationRating", "businessRating",
   "individualInvestorBenefitsRating", "businessPositionRating", "canslimPrefilter"}

OtherKept(k) ==
  CASE k[1] = "idustryGDPGrowth" -> Cached(k, OneWeek, Ask(<<"lastGDPDate">>) \o Ask(k))
    [] k[1] = "foreignInvestmentIndex" ->
         Cached(k, OneWeek, Ask(<<"lastFDIDates", k[2]>>) \o Ask(k))
    [] k[1] \in {"structureOfOutstandingDebt",
                 "proportionOfOutstandingLoansOfEnterprises"} ->
         Cached(k, HaftHour, Ask(<<"totalOfBonds">>) \o Ask(k))
    [] k[1] = "newsEnterprise" -> Cached(k, OneHour, Ask(<<"lastTradingDay">>) \o Ask(k))
    [] k[1] = "minMaxFilter" -> Cached(k, OneHour, Ask(<<"columns">>) \o Ask(<<"minMax">>))
    [] k[1] = "PEPBIndustry" ->
         Cached(k, OneWeek, Ask(<<"ratioPeriods", k[3], k[4]>>)
                              \o Ask(<<"PBIndustry", k[2], k[3], k[4], k[5]>>))
    [] k[1] = "PEIndustry" ->
         Cached(k, OneWeek, Ask(<<"ratioPeriods", k[3], k[4]>>) \o Ask(k))
    [] k[1] = "PETicker" -> Cached(k, OneWeek, YearOfPrices \o Ask(k))
    [] k[1] = "PBTicker" -> Cached(k, OneDay, YearOfPrices \o Ask(k))
    [] k[1] = "PayoutRatio" -> Cached(k, OneWeek, Ask(<<"payoutRatio", k[2], k[3]>>))
    [] k[1] = "CashRatio" ->
         Cached(k, OneWeek, Ask(<<"lastReportYear", k[1]>>) \o Ask(<<"cashRatio", k[2], k[3]>>))
    [] k[1] = "RotaionRatio" ->
         Cached(k, OneWeek,
                Ask(<<"lastReportYear", k[1]>>) \o Ask(<<"rotationRatio", k[2], k[3]>>))
    [] k[1] = "IndsDebtSolvency" ->
         Cached(k, OneWeek,
                Ask(<<"lastReportYear", k[1]>>) \o Ask(<<"indsDebtSolvency", k[2], k[3]>>))
    [] k[1] = "IndsProfitMargins" ->
         Cached(k, OneWeek, Ask(<<"indsProfitMargins", k[2], k[3], k[4]>>))
    [] k[1] = "IndsInterestCoverage" ->
         Cached(k, OneWeek, Ask(<<"indsInterestCoverage", k[2], k[3], k[4]>>))
    [] k[1] = "netProfitMarginByIndustries" ->
         Cached(k, OneWeek, Ask(<<"lastPBDate">>) \o Ask(<<"netProfitMargin", k[2], k[3], k[4]>>))

\* How every answer under a key comes about; under SessionDate there are only dates,
\* which each service asks for in its own way, and this is one of them.
Kept(k) ==
  IF k[1] = "SessionDate" THEN marketSessionDate(k[2])
  ELSE IF k[1] \in PlainKeys THEN Cached(k, PlainTtl(k[1]), Ask(k))
  ELSE IF k[1] \in BoardKeys THEN BoardKept(k)
  ELSE IF k[1] \in MarketKeys THEN MarketKept(k)
  ELSE IF k[1] \in SharesKeys THEN SharesKept(k)
  ELSE OtherKept(k)
Meaning(k) == Topics(Kept(k))

\* A key that is looked for and never kept, and those that are kept and never looked for.
Never(k) == k[1] = "mapImportMain"
UnlookedKeys ==
  {"tyLeCoTucTienMat", "MerchandisePrice", "CashFlowValue", "InvestorTransactionCashFlowRatio",
   "corporateBondsIssuedSuccessfully", "indsProfitMarginsTable", "headerRating"}
Unlooked(k) == k[1] \in UnlookedKeys

\* How old the answers on a board may get, with the time that they have left: two
\* kinds of keys may be inside another.  The age of the other answers is not told.
Any == -1
Level == HaftHour + MaxFill
Old(k) == IF k[1] \in {"SessionDate", "TickerPrice"} THEN Level
          ELSE IF k[1] = "ExchangeVolume" THEN 2 * Level
          ELSE IF k[1] \in BoardKeys THEN 3 * Level
          ELSE Any

-------------------------------------------------------------------------------
(* How old what is under the keys may get, in any handler *)

\* The time that the entries around a step of a program may stay, with the time that it
\* took to fill them; what each question that is asked has of it.
Inside(program, i) == Cardinality(UnitsAround(program, i))
Bounds(program) ==
  UNION {{<<Topic(q), Inside(program, i)>> : q \in Questions(<<program[i]>>)} :
           i \in DOMAIN program}
KeyBounds(k) == Bounds(Kept(k))

-------------------------------------------------------------------------------
(* Programs and what they ask *)

LEMMA MaxFillIs == MaxFill \in Nat /\ \A c \in Clients : Fill[c] \in Nat /\ Fill[c] <= MaxFill
<1>1. PICK slowest \in Clients : \A c \in Clients : Fill[c] <= Fill[slowest]
  BY EndpointCacheAssumption
<1>2. Range(Fill) \subseteq Nat /\ \A c \in Clients : Fill[c] \in Range(Fill)
  BY EndpointCacheAssumption DEF Range
<1>3. \A n \in Range(Fill) : Fill[slowest] >= n
  BY <1>1, <1>2, EndpointCacheAssumption DEF Range
<1>4. MaxFill \in Range(Fill) /\ \A n \in Range(Fill) : MaxFill >= n
  BY <1>2, <1>3 DEF MaxFill, Max
<1>. QED
  BY <1>2, <1>4

LEMMA LifetimesAre ==
  /\ HaftMinute \in Nat \ {0} /\ Minute \in Nat \ {0} /\ FiveMinutes \in Nat \ {0}
  /\ HaftHour \in Nat \ {0} /\ OneHour \in Nat \ {0} /\ OneDay \in Nat \ {0}
  /\ OneWeek \in Nat \ {0}
  /\ Minute <= HaftHour /\ FiveMinutes <= HaftHour
<1>1. /\ Lifetimes[1] = HaftMinute /\ Lifetimes[2] = Minute /\ Lifetimes[3] = FiveMinutes
      /\ Lifetimes[4] = HaftHour /\ Lifetimes[5] = OneHour /\ Lifetimes[6] = OneDay
      /\ Lifetimes[7] = OneWeek
  BY DEF Lifetimes
<1>2. /\ HaftMinute \in Nat \ {0} /\ Minute \in Nat \ {0} /\ FiveMinutes \in Nat \ {0}
      /\ HaftHour \in Nat \ {0} /\ OneHour \in Nat \ {0} /\ OneDay \in Nat \ {0}
      /\ OneWeek \in Nat \ {0}
  BY <1>1, LifetimesAssumption
<1>3. Minute <= FiveMinutes
  BY <1>1, LifetimesAssumption, 2 \in 1..6
<1>4. FiveMinutes <= HaftHour
  BY <1>1, LifetimesAssumption, 3 \in 1..6
<1>. QED
  BY <1>2, <1>3, <1>4

LEMMA LevelIs == Level \in Nat
  BY MaxFillIs, LifetimesAre DEF Level

IsProgram(p) == \E S : p \in Seq(S)

\* What one step asks.
Asked(step) == About(IF step.op \in {"ask", "start", "join"} THEN UNION step.queries
                     ELSE IF step.op = "insert" THEN step.rows ELSE {})

LEMMA Catenation ==
  ASSUME NEW p, NEW q, IsProgram(p), IsProgram(q)
  PROVE  /\ IsProgram(p \o q)
         /\ Len(p) \in Nat /\ DOMAIN p = 1..Len(p)
         /\ Len(p \o q) = Len(p) + Len(q) /\ DOMAIN (p \o q) = 1..(Len(p) + Len(q))
         /\ \A i \in 1..Len(p) : (p \o q)[i] = p[i]
         /\ \A i \in 1..Len(q) : (p \o q)[Len(p) + i] = q[i]
<1>1. PICK S : p \in Seq(S)
  BY DEF IsProgram
<1>2. PICK T : q \in Seq(T)
  BY DEF IsProgram
<1>3. p \in Seq(S \cup T) /\ q \in Seq(S \cup T)
  BY <1>1, <1>2
<1>4. p \o q \in Seq(S \cup T)
  BY <1>3
<1>. QED
  BY <1>3, <1>4 DEF IsProgram

LEMMA OneStep ==
  ASSUME NEW s
  PROVE  /\ IsProgram(<<s>>) /\ Len(<<s>>) = 1 /\ <<s>>[1] = s /\ DOMAIN <<s>> = {1}
         /\ IsProgram(<<>>) /\ Len(<<>>) = 0 /\ DOMAIN <<>> = {}
<1>1. <<s>> \in Seq({s}) /\ <<>> \in Seq({s})
  OBVIOUS
<1>2. IsProgram(<<s>>) /\ IsProgram(<<>>)
  BY <1>1 DEF IsProgram
<1>. QED
  BY <1>2

LEMMA TopicsAre ==
  ASSUME NEW p, NEW x
  PROVE  x \in Topics(p) <=> \E i \in DOMAIN p : x \in Asked(p[i])
<1>1. x \in Questions(p) <=>
        \E i \in DOMAIN p :
          \/ p[i].op \in {"ask", "start", "join"} /\ x \in UNION p[i].queries
          \/ p[i].op = "insert" /\ x \in p[i].rows
  <2>. DEFINE Reads == UNION {Positions(p, op) : op \in {"ask", "start", "join"}}
  <2>1. Reads = {i \in DOMAIN p : p[i].op \in {"ask", "start", "join"}}
    BY DEF Positions
  <2>2. Positions(p, "insert") = {i \in DOMAIN p : p[i].op = "insert"}
    BY DEF Positions
  <2>. DEFINE Queried == UNION {UNION p[i].queries : i \in Reads}
              Inserted == UNION {p[i].rows : i \in Positions(p, "insert")}
  <2>3. Questions(p) = Queried \cup Inserted
    BY DEF Questions
  <2>. HIDE DEF Reads
  <2>4. x \in Queried <=> \E i \in Reads : x \in UNION p[i].queries
    OBVIOUS
  <2>5. x \in Inserted <=> \E i \in Positions(p, "insert") : x \in p[i].rows
    OBVIOUS
  <2>. HIDE DEF Queried, Inserted
  <2>6. (\E i \in Reads : x \in UNION p[i].queries)
          <=> \E i \in DOMAIN p : /\ p[i].op \in {"ask", "start", "join"}
                                /\ x \in UNION p[i].queries
    BY <2>1
  <2>7. (\E i \in Positions(p, "insert") : x \in p[i].rows)
          <=> \E i \in DOMAIN p : p[i].op = "insert" /\ x \in p[i].rows
    BY <2>2
  <2>8. x \in Questions(p) <=> \/ \E i \in Reads : x \in UNION p[i].queries
                              \/ \E i \in Positions(p, "insert") : x \in p[i].rows
    BY <2>3, <2>4, <2>5
  <2>. QED
    BY <2>6, <2>7, <2>8
<1>2. x \in Topics(p) <=> x \in Questions(p) /\ x[1] \notin {"dates", "lastYear", "firstDateYear"}
  BY DEF Topics, About
<1>3. \A i : x \in Asked(p[i]) <=>
        /\ x[1] \notin {"dates", "lastYear", "firstDateYear"}
        /\ \/ p[i].op \in {"ask", "start", "join"} /\ x \in UNION p[i].queries
           \/ p[i].op = "insert" /\ x \in p[i].rows
  BY DEF Asked, About
<1>. QED
  BY <1>1, <1>2, <1>3

LEMMA TopicsOfStep == ASSUME NEW s PROVE Topics(<<s>>) = Asked(s) /\ Topics(<<>>) = {}
<1>1. \A x : x \in Topics(<<s>>) <=> x \in Asked(s)
  BY TopicsAre, OneStep
<1>2. \A x : x \notin Topics(<<>>)
  BY TopicsAre, OneStep
<1>. QED
  BY <1>1, <1>2

LEMMA TopicsOfBoth ==
  ASSUME NEW p, NEW q, IsProgram(p), IsProgram(q)
  PROVE  Topics(p \o q) = Topics(p) \cup Topics(q)
<1>. SUFFICES ASSUME NEW x PROVE x \in Topics(p \o q) <=> x \in Topics(p) \cup Topics(q)
  OBVIOUS
<1>0. Len(p) \in Nat /\ Len(q) \in Nat /\ DOMAIN p = 1..Len(p) /\ DOMAIN q = 1..Len(q)
  BY Catenation
<1>1. ASSUME NEW i \in DOMAIN (p \o q), x \in Asked((p \o q)[i])
      PROVE  x \in Topics(p) \cup Topics(q)
  <2>1. CASE i \in 1..Len(p)
    BY <2>1, <1>0, <1>1, Catenation, TopicsAre
  <2>2. CASE i \notin 1..Len(p)
    <3>1. i - Len(p) \in 1..Len(q) /\ Len(p) + (i - Len(p)) = i
      BY <2>2, <1>0, <1>1, Catenation
    <3>2. (p \o q)[i] = q[i - Len(p)]
      BY <3>1, Catenation
    <3>. QED
      BY <3>1, <3>2, <1>0, <1>1, TopicsAre
  <2>. QED
    BY <2>1, <2>2
<1>2. ASSUME NEW i \in DOMAIN p, x \in Asked(p[i])
      PROVE  x \in Topics(p \o q)
  <2>1. i \in DOMAIN (p \o q) /\ (p \o q)[i] = p[i]
    BY <1>0, Catenation
  <2>. QED
    BY <2>1, <1>2, TopicsAre
<1>3. ASSUME NEW i \in DOMAIN q, x \in Asked(q[i])
      PROVE  x \in Topics(p \o q)
  <2>1. Len(p) + i \in DOMAIN (p \o q) /\ (p \o q)[Len(p) + i] = q[i]
    BY <1>0, Catenation
  <2>. QED
    BY <2>1, <1>3, TopicsAre
<1>. QED
  BY <1>1, <1>2, <1>3, TopicsAre

-------------------------------------------------------------------------------
(* What can be foretold of a request *)

\* At each step: the topics in each frame and how old they were when the request came,
\* and what its table holds, when it has one.
Ages == Nat \cup {Any}
Covers(b, o) == b = Any \/ (o # Any /\ o <= b)
IsStack(U) == IsProgram(U) /\ \A j \in 1..Len(U) : U[j].old \in Ages
Rest(stack) == [stack |-> stack, table |-> FALSE, rows |-> {}]

TopOf(stack) == stack[Len(stack)]
Plus(stack, topics) ==
  [stack EXCEPT ![Len(stack)] = [said |-> @.said \cup topics, old |-> @.old]]
Merge(stack) == Plus(SubSeq(stack, 1, Len(stack) - 1), TopOf(stack).said)

Operations == {"ask", "start", "join", "look", "open", "close", "keep", "share", "create",
               "insert", "drop", "refuse", "stop"}

\* It is right to keep what has been said so far under the key.
Keeps(key, ttl, said, old) ==
  /\ ttl \in Nat \ {0} /\ ~Never(key)
  /\ Unlooked(key) \/ said = Meaning(key)
  /\ Old(key) # Any => old # Any /\ old + ttl + MaxFill <= Old(key)
Merges(here, next) ==
  /\ Len(here.stack) >= 2
  /\ Covers(here.stack[Len(here.stack) - 1].old, TopOf(here.stack).old)
  /\ next = Rest(Merge(here.stack))

\* A step leads from here to the next one; a hit lands further on.
StepFits(step, here, next, land, early) ==
  LET top == TopOf(here.stack)
  IN /\ step.op \in Operations
     /\ step.op \in {"insert", "drop"} => here.table = TRUE
     /\ step.op \notin {"insert", "drop"} => here.table = FALSE
     /\ step.op \in {"ask", "start", "join"} => next = Rest(Plus(here.stack, Asked(step)))
     /\ step.op = "start" => early
     /\ step.op = "look" =>
          /\ step.to \in Nat /\ ~Unlooked(step.key)
          /\ \E old \in Ages : next = Rest(Append(here.stack, [said |-> {}, old |-> old]))
          /\ Never(step.key) \/ /\ land = Rest(Plus(here.stack, Meaning(step.key)))
                                /\ Covers(top.old, Old(step.key))
     /\ step.op = "open" =>
          \E old \in Ages : next = Rest(Append(here.stack, [said |-> {}, old |-> old]))
     /\ step.op = "close" => Merges(here, next)
     /\ step.op = "keep" => /\ Merges(here, next)
                            /\ Keeps(step.key, step.ttl, top.said, top.old)
     /\ step.op = "share" =>
          next = here /\ Keeps(step.key, step.ttl, top.said \cap About(step.only), top.old)
     /\ step.op = "create" => next = [stack |-> here.stack, table |-> TRUE, rows |-> {}]
     /\ step.op = "insert" =>
          next = [stack |-> here.stack, table |-> TRUE, rows |-> here.rows \cup Asked(step)]
     /\ step.op = "drop" => next = Rest(Plus(here.stack, here.rows))

Lands(p, i) == IF p[i].op = "look" THEN i + p[i].to ELSE i + 1

Begun(U, A, b) == Rest(Append(U, [said |-> A, old |-> b]))

Runs(acc, p, U, A, b, n, early) ==
  /\ acc[1] = Begun(U, A, b) /\ acc[Len(p) + 1] = Begun(U, A \cup Topics(p), b)
  /\ \A i \in 1..(Len(p) + 1) :
       IsStack(acc[i].stack) /\ Len(acc[i].stack) \in 1..(Len(U) + 1 + n)
  /\ \A i \in 1..Len(p) :
       /\ Lands(p, i) \in 1..(Len(p) + 1)
       /\ StepFits(p[i], acc[i], acc[i + 1], acc[Lands(p, i)], early)

\* Whatever surrounds the program, as old as o or older, n more frames being enough.
Fits(p, n, o, early) ==
  /\ IsProgram(p)
  /\ \A U, A : \A b \in Ages :
       IsStack(U) /\ Covers(b, o) => \E acc : Runs(acc, p, U, A, b, n, early)

LEMMA Appending ==
  ASSUME NEW U, IsProgram(U), NEW f
  PROVE  /\ IsProgram(Append(U, f)) /\ Len(U) \in Nat /\ Len(Append(U, f)) = Len(U) + 1
         /\ DOMAIN Append(U, f) = 1..(Len(U) + 1) /\ DOMAIN U = 1..Len(U)
         /\ \A i \in 1..Len(U) : Append(U, f)[i] = U[i]
         /\ Append(U, f)[Len(U) + 1] = f /\ TopOf(Append(U, f)) = f
<1>1. PICK S : U \in Seq(S)
  BY DEF IsProgram
<1>2. U \in Seq(S \cup {f}) /\ f \in S \cup {f}
  BY <1>1
<1>3. Append(U, f) \in Seq(S \cup {f})
  BY <1>2
<1>4. IsProgram(Append(U, f)) /\ Len(U) \in Nat
  BY <1>2, <1>3 DEF IsProgram
<1>5. /\ Len(Append(U, f)) = Len(U) + 1
      /\ \A i \in 1..Len(U) : Append(U, f)[i] = U[i]
      /\ Append(U, f)[Len(U) + 1] = f
  BY <1>2, AppendProperties
<1>6. DOMAIN Append(U, f) = 1..(Len(U) + 1) /\ DOMAIN U = 1..Len(U)
  BY <1>2, <1>3, <1>5, LenProperties
<1>. QED
  BY <1>4, <1>5, <1>6 DEF TopOf

\* Two sequences of one length with the same elements are the same.
LEMMA SameSequence ==
  ASSUME NEW U, NEW W, IsProgram(U), IsProgram(W), Len(U) = Len(W),
         \A i \in 1..Len(U) : U[i] = W[i]
  PROVE  U = W
<1>1. PICK S : U \in Seq(S)
  BY DEF IsProgram
<1>2. PICK T : W \in Seq(T)
  BY DEF IsProgram
<1>3. U \in Seq(S \cup T) /\ W \in Seq(S \cup T)
  BY <1>1, <1>2
<1>. QED
  BY <1>3, SeqEqual

LEMMA Changing ==
  ASSUME NEW U, IsProgram(U), NEW f, NEW k
  PROVE  [Append(U, f) EXCEPT ![Len(U) + 1] = k] = Append(U, k)
<1>. DEFINE base == Append(U, f)
            changed == [base EXCEPT ![Len(U) + 1] = k]
<1>1. /\ IsProgram(base) /\ Len(base) = Len(U) + 1 /\ Len(U) \in Nat
      /\ DOMAIN base = 1..(Len(U) + 1) /\ \A i \in 1..Len(U) : base[i] = U[i]
  BY Appending
<1>. HIDE DEF base
<1>2. PICK S : base \in Seq(S)
  BY <1>1 DEF IsProgram
<1>3. base \in Seq(S \cup {k}) /\ k \in S \cup {k}
  BY <1>2
<1>4. changed \in Seq(S \cup {k}) /\ Len(changed) = Len(U) + 1
  BY <1>1, <1>3, ExceptSeq
<1>5. \A i \in 1..(Len(U) + 1) : changed[i] = IF i = Len(U) + 1 THEN k ELSE base[i]
  BY <1>1
<1>6. IsProgram(changed)
  BY <1>4 DEF IsProgram
<1>. HIDE DEF changed
<1>7. \A i \in 1..(Len(U) + 1) : changed[i] = Append(U, k)[i]
  <2>. SUFFICES ASSUME NEW i \in 1..(Len(U) + 1) PROVE changed[i] = Append(U, k)[i]
    OBVIOUS
  <2>1. CASE i = Len(U) + 1
    BY <2>1, <1>5, Appending
  <2>2. CASE i # Len(U) + 1
    BY <2>2, <1>1, <1>5, Appending
  <2>. QED
    BY <2>1, <2>2
<1>8. changed = Append(U, k)
  BY <1>4, <1>6, <1>7, Appending, SameSequence
<1>. QED
  BY <1>8 DEF changed, base

LEMMA Adds ==
  ASSUME NEW U, IsProgram(U), NEW A, NEW b, NEW T
  PROVE  Plus(Append(U, [said |-> A, old |-> b]), T)
           = Append(U, [said |-> A \cup T, old |-> b])
<1>. DEFINE f == [said |-> A, old |-> b]
            k == [said |-> A \cup T, old |-> b]
<1>1. Len(Append(U, f)) = Len(U) + 1 /\ Append(U, f)[Len(U) + 1] = f
      /\ Len(U) + 1 \in DOMAIN Append(U, f)
  BY Appending
<1>2. f.said = A /\ f.old = b
  OBVIOUS
<1>3. [Append(U, f) EXCEPT ![Len(U) + 1] = k] = Append(U, k)
  BY Changing
<1>4. k = [said |-> f.said \cup T, old |-> f.old]
  BY <1>2
<1>. HIDE DEF f, k
<1>5. Plus(Append(U, f), T) = [Append(U, f) EXCEPT ![Len(U) + 1] = k]
  BY <1>1, <1>4 DEF Plus
<1>. QED
  BY <1>3, <1>5 DEF f, k

LEMMA BegunIs ==
  ASSUME NEW U, IsStack(U), NEW A, NEW b \in Ages
  PROVE  /\ Begun(U, A, b).stack = Append(U, [said |-> A, old |-> b])
         /\ Begun(U, A, b).table = FALSE
         /\ IsStack(Begun(U, A, b).stack)
         /\ Len(Begun(U, A, b).stack) = Len(U) + 1 /\ Len(U) \in Nat
         /\ TopOf(Begun(U, A, b).stack) = [said |-> A, old |-> b]
<1>. DEFINE f == [said |-> A, old |-> b]
<1>1. Begun(U, A, b).stack = Append(U, f) /\ Begun(U, A, b).table = FALSE
  BY DEF Begun, Rest
<1>3. f.old \in Ages
  OBVIOUS
<1>. HIDE DEF f
<1>4. IsProgram(U) /\ \A i \in 1..Len(U) : U[i].old \in Ages
  BY DEF IsStack
<1>5. IsStack(Append(U, f))
  <2>1. \A i \in 1..(Len(U) + 1) : i \in 1..Len(U) \/ i = Len(U) + 1
    BY <1>4, Appending
  <2>. QED
    BY <2>1, <1>3, <1>4, Appending DEF IsStack
<1>. QED
  BY <1>1, <1>4, <1>5, Appending DEF f

LEMMA BegunPlus ==
  ASSUME NEW U, IsStack(U), NEW A, NEW b, NEW T
  PROVE  Rest(Plus(Begun(U, A, b).stack, T)) = Begun(U, A \cup T, b)
<1>1. Begun(U, A, b).stack = Append(U, [said |-> A, old |-> b])
  BY DEF Begun, Rest
<1>2. Plus(Append(U, [said |-> A, old |-> b]), T) = Append(U, [said |-> A \cup T, old |-> b])
  BY Adds DEF IsStack
<1>. QED
  BY <1>1, <1>2 DEF Begun

LEMMA BegunAsks ==
  ASSUME NEW U, IsStack(U), NEW A, NEW b, NEW s
  PROVE  Rest(Plus(Begun(U, A, b).stack, Asked(s))) = Begun(U, A \cup Asked(s), b)
<1>. DEFINE T == Asked(s)
<1>. HIDE DEF T
<1>1. Rest(Plus(Begun(U, A, b).stack, T)) = Begun(U, A \cup T, b)
  BY BegunPlus
<1>. QED
  BY <1>1 DEF T

LEMMA BegunTopics ==
  ASSUME NEW U, IsStack(U), NEW A, NEW b, NEW p
  PROVE  Rest(Plus(Begun(U, A, b).stack, Topics(p))) = Begun(U, A \cup Topics(p), b)
<1>. DEFINE T == Topics(p)
<1>. HIDE DEF T
<1>1. Rest(Plus(Begun(U, A, b).stack, T)) = Begun(U, A \cup T, b)
  BY BegunPlus
<1>. QED
  BY <1>1 DEF T

-------------------------------------------------------------------------------
(* What fits *)

LEMMA SingleFits ==
  ASSUME NEW s, NEW n \in Nat, NEW o \in Ages, NEW early, s.op # "look",
         \A U, A : \A b \in Ages : IsStack(U) =>
           StepFits(s, Begun(U, A, b), Begun(U, A \cup Asked(s), b),
                    Begun(U, A \cup Asked(s), b), early)
  PROVE  Fits(<<s>>, n, o, early)
<1>. DEFINE p == <<s>>
<1>1. IsProgram(p) /\ Len(p) = 1 /\ p[1] = s /\ Topics(p) = Asked(s)
  BY OneStep, TopicsOfStep
<1>. HIDE DEF p
<1>. SUFFICES ASSUME NEW U, NEW A, NEW b \in Ages, IsStack(U)
              PROVE  \E acc : Runs(acc, p, U, A, b, n, early)
  BY <1>1 DEF Fits, p
<1>. DEFINE first == Begun(U, A, b)
            last == Begun(U, A \cup Asked(s), b)
            acc == [i \in 1..2 |-> IF i = 1 THEN first ELSE last]
<1>2. StepFits(s, first, last, last, early)
  OBVIOUS
<1>3. /\ Len(U) \in Nat /\ Len(first.stack) = Len(U) + 1 /\ Len(last.stack) = Len(U) + 1
      /\ IsStack(first.stack) /\ IsStack(last.stack)
  BY BegunIs
<1>4. first = Begun(U, A, b) /\ last = Begun(U, A \cup Topics(p), b)
  BY <1>1
<1>. HIDE DEF first, last
<1>5. acc[1] = first /\ acc[2] = last
  OBVIOUS
<1>. HIDE DEF acc
<1>6. Len(p) + 1 = 2 /\ 1..Len(p) = {1} /\ 1..2 = {1, 2} /\ Lands(p, 1) = 2
  BY <1>1 DEF Lands
<1>7. \A i \in 1..2 : IsStack(acc[i].stack) /\ Len(acc[i].stack) \in 1..(Len(U) + 1 + n)
  BY <1>3, <1>5, <1>6
<1>8. Runs(acc, p, U, A, b, n, early)
  BY <1>1, <1>2, <1>4, <1>5, <1>6, <1>7 DEF Runs
<1>. QED
  BY <1>8

\* One step that asks something.
LEMMA ReadingFits ==
  ASSUME NEW s, NEW n \in Nat, NEW o \in Ages, NEW early,
         s.op \in {"ask", "join", "start"}, s.op = "start" => early
  PROVE  Fits(<<s>>, n, o, early)
<1>1. ASSUME NEW U, NEW A, NEW b \in Ages, IsStack(U)
      PROVE  StepFits(s, Begun(U, A, b), Begun(U, A \cup Asked(s), b),
                      Begun(U, A \cup Asked(s), b), early)
  <2>0. Rest(Plus(Begun(U, A, b).stack, Asked(s))) = Begun(U, A \cup Asked(s), b)
    BY <1>1, BegunAsks
  <2>. DEFINE here == Begun(U, A, b)
              next == Begun(U, A \cup Asked(s), b)
  <2>1. here.table = FALSE
    BY <1>1, BegunIs
  <2>2. next = Rest(Plus(here.stack, Asked(s)))
    BY <2>0
  <2>3. s.op \in Operations /\ s.op \notin {"insert", "drop"}
    BY DEF Operations
  <2>. HIDE DEF here, next
  <2>4. StepFits(s, here, next, next, early)
    BY <2>1, <2>2, <2>3 DEF StepFits
  <2>. QED
    BY <2>4 DEF here, next
<1>. QED
  BY <1>1, SingleFits

LEMMA RefusalFits ==
  ASSUME NEW s, NEW n \in Nat, NEW o \in Ages, NEW early, s.op \in {"refuse", "stop"}
  PROVE  Fits(<<s>>, n, o, early)
<1>1. ASSUME NEW U, NEW A, NEW b \in Ages, IsStack(U)
      PROVE  StepFits(s, Begun(U, A, b), Begun(U, A \cup Asked(s), b),
                      Begun(U, A \cup Asked(s), b), early)
  <2>. DEFINE here == Begun(U, A, b)
              next == Begun(U, A \cup Asked(s), b)
  <2>1. here.table = FALSE
    BY <1>1, BegunIs
  <2>2. s.op \in Operations /\ s.op \notin {"insert", "drop"}
    BY DEF Operations
  <2>. HIDE DEF here, next
  <2>3. StepFits(s, here, next, next, early)
    BY <2>1, <2>2 DEF StepFits
  <2>. QED
    BY <2>3 DEF here, next
<1>. QED
  BY <1>1, SingleFits

\* A part that is kept under a key that nobody looks for.
LEMMA SharingFits ==
  ASSUME NEW s, NEW n \in Nat, NEW o \in Ages, NEW early, s.op = "share",
         s.ttl \in Nat \ {0}, ~Never(s.key), Unlooked(s.key), Old(s.key) = Any
  PROVE  Fits(<<s>>, n, o, early)
<1>1. ASSUME NEW U, NEW A, NEW b \in Ages, IsStack(U)
      PROVE  StepFits(s, Begun(U, A, b), Begun(U, A \cup Asked(s), b),
                      Begun(U, A \cup Asked(s), b), early)
  <2>1. Begun(U, A, b).table = FALSE
    BY <1>1, BegunIs
  <2>2. Asked(s) = {} /\ A \cup Asked(s) = A
    BY DEF Asked, About
  <2>. DEFINE here == Begun(U, A, b)
  <2>3. s.op \in Operations /\ s.op \notin {"insert", "drop"}
    BY DEF Operations
  <2>4. Keeps(s.key, s.ttl, TopOf(here.stack).said \cap About(s.only), TopOf(here.stack).old)
    BY DEF Keeps
  <2>. HIDE DEF here
  <2>5. StepFits(s, here, here, here, early)
    BY <2>1, <2>3, <2>4 DEF StepFits, here
  <2>. QED
    BY <2>2, <2>5 DEF here
<1>. QED
  BY <1>1, SingleFits

LEMMA EmptyFits == ASSUME NEW n \in Nat, NEW o \in Ages, NEW early
                   PROVE  Fits(<<>>, n, o, early)
<1>1. IsProgram(<<>>) /\ Len(<<>>) = 0 /\ Topics(<<>>) = {}
  BY OneStep, TopicsOfStep
<1>. SUFFICES ASSUME NEW U, NEW A, NEW b \in Ages, IsStack(U)
              PROVE  \E acc : Runs(acc, <<>>, U, A, b, n, early)
  BY <1>1 DEF Fits
<1>. DEFINE first == Begun(U, A, b)
            acc == [i \in 1..1 |-> first]
<1>2. Len(U) \in Nat /\ Len(first.stack) = Len(U) + 1 /\ IsStack(first.stack)
  BY BegunIs
<1>3. first = Begun(U, A, b) /\ first = Begun(U, A \cup Topics(<<>>), b)
  BY <1>1
<1>. HIDE DEF first
<1>4. acc[1] = first /\ 1..1 = {1} /\ 1..0 = {}
  OBVIOUS
<1>. HIDE DEF acc
<1>5. Runs(acc, <<>>, U, A, b, n, early)
  BY <1>1, <1>2, <1>3, <1>4 DEF Runs
<1>. QED
  BY <1>5

\* One program after the other.
LEMMA BothFit ==
  ASSUME NEW p, NEW q, NEW n \in Nat, NEW o \in Ages, NEW early,
         Fits(p, n, o, early), Fits(q, n, o, early)
  PROVE  Fits(p \o q, n, o, early)
<1>. DEFINE r == p \o q
<1>1. IsProgram(p) /\ IsProgram(q)
  BY DEF Fits
<1>2. /\ IsProgram(r) /\ Len(r) = Len(p) + Len(q) /\ Len(p) \in Nat /\ Len(q) \in Nat
      /\ \A i \in 1..Len(p) : r[i] = p[i]
      /\ \A i \in 1..Len(q) : r[Len(p) + i] = q[i]
  BY <1>1, Catenation
<1>3. Topics(r) = Topics(p) \cup Topics(q)
  BY <1>1, TopicsOfBoth
<1>. HIDE DEF r
<1>. SUFFICES ASSUME NEW U, NEW A, NEW b \in Ages, IsStack(U), Covers(b, o)
              PROVE  \E acc : Runs(acc, r, U, A, b, n, early)
  BY <1>2 DEF Fits, r
<1>4. PICK acc1 : Runs(acc1, p, U, A, b, n, early)
  BY DEF Fits
<1>5. PICK acc2 : Runs(acc2, q, U, A \cup Topics(p), b, n, early)
  BY DEF Fits
<1>. DEFINE acc == [i \in 1..(Len(p) + Len(q) + 1) |->
                      IF i <= Len(p) THEN acc1[i] ELSE acc2[i - Len(p)]]
<1>6. \A i \in 1..(Len(p) + 1) : acc[i] = acc1[i]
  <2>1. acc1[Len(p) + 1] = acc2[1]
    BY <1>4, <1>5 DEF Runs
  <2>2. acc[Len(p) + 1] = acc2[1]
    BY <1>2
  <2>. QED
    BY <1>2, <2>1, <2>2
<1>7. \A i \in 1..(Len(q) + 1) : acc[Len(p) + i] = acc2[i]
  BY <1>2
<1>. HIDE DEF acc
<1>8. acc[1] = Begun(U, A, b)
  BY <1>2, <1>4, <1>6 DEF Runs
<1>9. acc[Len(r) + 1] = Begun(U, A \cup Topics(r), b)
  <2>1. acc[Len(p) + (Len(q) + 1)] = acc2[Len(q) + 1]
    <3>1. Len(q) + 1 \in 1..(Len(q) + 1)
      BY <1>2
    <3>. QED
      BY <3>1, <1>7
  <2>2. Len(p) + (Len(q) + 1) = Len(r) + 1 /\ (A \cup Topics(p)) \cup Topics(q) = A \cup Topics(r)
    BY <1>2, <1>3
  <2>. QED
    BY <1>5, <2>1, <2>2 DEF Runs
<1>10. ASSUME NEW i \in 1..(Len(r) + 1)
       PROVE  IsStack(acc[i].stack) /\ Len(acc[i].stack) \in 1..(Len(U) + 1 + n)
  <2>1. CASE i <= Len(p)
    <3>1. i \in 1..(Len(p) + 1)
      BY <2>1, <1>2
    <3>2. acc[i] = acc1[i]
      BY <3>1, <1>6
    <3>. QED
      BY <3>1, <3>2, <1>4 DEF Runs
  <2>2. CASE i > Len(p)
    <3>1. i - Len(p) \in 1..(Len(q) + 1) /\ Len(p) + (i - Len(p)) = i
      BY <2>2, <1>2
    <3>2. acc[i] = acc2[i - Len(p)]
      BY <3>1, <1>7
    <3>. QED
      BY <3>1, <3>2, <1>5 DEF Runs
  <2>. QED
    BY <2>1, <2>2, <1>2
<1>11. ASSUME NEW i \in 1..Len(r)
       PROVE  /\ Lands(r, i) \in 1..(Len(r) + 1)
              /\ StepFits(r[i], acc[i], acc[i + 1], acc[Lands(r, i)], early)
  <2>1. CASE i <= Len(p)
    <3>1. i \in 1..Len(p) /\ i \in 1..(Len(p) + 1) /\ i + 1 \in 1..(Len(p) + 1)
      BY <2>1, <1>2
    <3>2. Lands(r, i) = Lands(p, i) /\ r[i] = p[i]
      BY <3>1, <1>2 DEF Lands
    <3>3. /\ Lands(p, i) \in 1..(Len(p) + 1)
          /\ StepFits(p[i], acc1[i], acc1[i + 1], acc1[Lands(p, i)], early)
      BY <3>1, <1>4 DEF Runs
    <3>4. acc[i] = acc1[i] /\ acc[i + 1] = acc1[i + 1] /\ acc[Lands(p, i)] = acc1[Lands(p, i)]
      BY <3>1, <3>3, <1>6
    <3>. QED
      BY <3>2, <3>3, <3>4, <1>2
  <2>2. CASE i > Len(p)
    <3>. DEFINE j == i - Len(p)
    <3>1. j \in 1..Len(q) /\ j \in 1..(Len(q) + 1) /\ j + 1 \in 1..(Len(q) + 1)
            /\ Len(p) + j = i /\ Len(p) + (j + 1) = i + 1
      BY <2>2, <1>2
    <3>. HIDE DEF j
    <3>6. Len(p) \in Nat /\ j \in Nat /\ Len(p) + j = i /\ Len(p) + (j + 1) = i + 1
      BY <3>1, <1>2
    <3>2. r[i] = q[j]
      BY <3>1, <1>2
    <3>3. /\ Lands(q, j) \in 1..(Len(q) + 1)
          /\ StepFits(q[j], acc2[j], acc2[j + 1], acc2[Lands(q, j)], early)
      BY <3>1, <1>5 DEF Runs
    <3>4. Lands(r, i) = Len(p) + Lands(q, j)
      <4>1. CASE q[j].op = "look"
        <5>1. Lands(q, j) = j + q[j].to /\ Lands(r, i) = i + q[j].to
          BY <4>1, <3>2 DEF Lands
        <5>2. q[j].to \in Nat
          BY <4>1, <3>3 DEF StepFits
        <5>. QED
          BY <5>1, <5>2, <3>6
      <4>2. CASE q[j].op # "look"
        BY <4>2, <3>1, <3>2, <1>2 DEF Lands
      <4>. QED
        BY <4>1, <4>2
    <3>5. acc[i] = acc2[j] /\ acc[i + 1] = acc2[j + 1] /\ acc[Lands(r, i)] = acc2[Lands(q, j)]
      BY <3>1, <3>3, <3>4, <1>7
    <3>. QED
      BY <3>2, <3>3, <3>4, <3>5, <1>2
  <2>. QED
    BY <2>1, <2>2, <1>2
<1>12. Runs(acc, r, U, A, b, n, early)
  BY <1>8, <1>9, <1>10, <1>11 DEF Runs
<1>. QED
  BY <1>12

LEMMA Pushing ==
  ASSUME NEW U, IsStack(U), NEW A, NEW b \in Ages, NEW B, NEW c \in Ages, Covers(b, c)
  PROVE  /\ IsStack(Append(U, [said |-> A, old |-> b]))
         /\ Len(Append(U, [said |-> A, old |-> b])) = Len(U) + 1 /\ Len(U) \in Nat
         /\ Begun(Append(U, [said |-> A, old |-> b]), {}, c)
              = Rest(Append(Begun(U, A, b).stack, [said |-> {}, old |-> c]))
         /\ Merges(Begun(Append(U, [said |-> A, old |-> b]), B, c), Begun(U, A \cup B, b))
<1>. DEFINE f == [said |-> A, old |-> b]
            g == [said |-> B, old |-> c]
            W == Append(U, f)
<1>1. Begun(U, A, b).stack = W
  BY DEF Begun, Rest
<1>2. IsStack(W) /\ Len(W) = Len(U) + 1 /\ Len(U) \in Nat
  <2>1. /\ IsStack(Begun(U, A, b).stack) /\ Len(Begun(U, A, b).stack) = Len(U) + 1
        /\ Len(U) \in Nat
    BY BegunIs
  <2>. HIDE DEF W
  <2>. QED
    BY <1>1, <2>1
<1>3. Begun(W, {}, c) = Rest(Append(Begun(U, A, b).stack, [said |-> {}, old |-> c]))
  BY <1>1 DEF Begun
<1>4. Begun(W, B, c).stack = Append(W, g)
  BY DEF Begun, Rest
<1>5. IsProgram(U) /\ IsProgram(W)
  BY <1>2 DEF IsStack
<1>6. f.old = b /\ g.old = c /\ g.said = B
  OBVIOUS
<1>7. Plus(W, B) = Append(U, [said |-> A \cup B, old |-> b])
  BY <1>5, Adds
<1>8. W[Len(U) + 1] = f
  BY <1>5, Appending
<1>. HIDE DEF f, g, W
<1>9. /\ Len(Append(W, g)) = Len(W) + 1 /\ Append(W, g)[Len(W)] = W[Len(W)]
      /\ TopOf(Append(W, g)) = g
  BY <1>2, <1>5, Appending
<1>10. SubSeq(Append(W, g), 1, Len(W)) = W
  <2>1. PICK S : W \in Seq(S)
    BY <1>5 DEF IsProgram
  <2>2. W \in Seq(S \cup {g}) /\ g \in S \cup {g}
    BY <2>1
  <2>. QED
    BY <2>2
<1>11. Len(Append(W, g)) - 1 = Len(W) /\ Len(Append(W, g)) >= 2
  BY <1>2, <1>9
<1>12. Merge(Append(W, g)) = Append(U, [said |-> A \cup B, old |-> b])
  BY <1>6, <1>7, <1>9, <1>10, <1>11 DEF Merge
<1>13. Append(W, g)[Len(Append(W, g)) - 1].old = b
  BY <1>2, <1>6, <1>8, <1>9, <1>11
<1>14. Merges(Begun(W, B, c), Begun(U, A \cup B, b))
  BY <1>4, <1>6, <1>9, <1>11, <1>12, <1>13 DEF Merges, Begun
<1>. QED
  BY <1>2, <1>3, <1>14 DEF f, W

\* A look and what is done on a miss: the body, in a frame of its own, and the keeping of
\* what it has read; then perhaps a part of that is kept under another key.
Looks(step, T, o) ==
  step.op = "look" /\ ~Unlooked(step.key)
    /\ (Never(step.key) \/ (Meaning(step.key) = T /\ Covers(o, Old(step.key))))
Lingers(step, T, o, early) ==
  step.op # "look" /\ \A U, A : \A b \in Ages : IsStack(U) /\ Covers(b, o) =>
    StepFits(step, Begun(U, A \cup T, b), Begun(U, A \cup T, b), Begun(U, A \cup T, b), early)

IsBracket(p, body, rest, T, o, c, early) ==
  /\ Topics(p) = T /\ Topics(body) = T
  /\ IsProgram(p) /\ IsProgram(rest) /\ Len(p) = Len(body) + 2 + Len(rest)
  /\ \A i \in 1..Len(body) : p[i + 1] = body[i]
  /\ \A i \in 1..Len(rest) : p[Len(body) + 2 + i] = rest[i]
  /\ p[1].op = "open" \/ (p[1].to = Len(p) /\ Looks(p[1], T, o))
  /\ \/ p[Len(body) + 2].op = "close"
     \/ /\ p[Len(body) + 2].op = "keep"
        /\ Keeps(p[Len(body) + 2].key, p[Len(body) + 2].ttl, T, c)
  /\ \A i \in 1..Len(rest) : Lingers(rest[i], T, o, early)

LEMMA BracketFits ==
  ASSUME NEW p, NEW body, NEW rest, NEW n \in Nat, NEW o \in Ages, NEW c \in Ages, NEW early,
         NEW T, IsBracket(p, body, rest, T, o, c, early), Fits(body, n, c, early), Covers(o, c)
  PROVE  Fits(p, n + 1, o, early)
<1>. SUFFICES ASSUME NEW U, NEW A, NEW b \in Ages, IsStack(U), Covers(b, o)
              PROVE  \E acc : Runs(acc, p, U, A, b, n + 1, early)
  BY DEF Fits, IsBracket
<1>0. \A x \in Ages : Covers(o, x) => Covers(b, x)
  BY DEF Covers, Ages, Any
<1>1. Covers(b, c)
  BY <1>0
<1>. DEFINE W == Append(U, [said |-> A, old |-> b])
            first == Begun(U, A, b)
            last == Begun(U, A \cup T, b)
<1>2. /\ IsStack(W) /\ Len(W) = Len(U) + 1 /\ Len(U) \in Nat
      /\ Begun(W, {}, c) = Rest(Append(first.stack, [said |-> {}, old |-> c]))
      /\ Merges(Begun(W, T, c), last)
  BY <1>1, Pushing
<1>3. /\ IsStack(first.stack) /\ Len(first.stack) = Len(U) + 1
      /\ IsStack(last.stack) /\ Len(last.stack) = Len(U) + 1
      /\ first.table = FALSE /\ TopOf(first.stack) = [said |-> A, old |-> b]
  BY BegunIs
<1>5. last = Rest(Plus(first.stack, T))
  <2>1. Rest(Plus(Begun(U, A, b).stack, T)) = Begun(U, A \cup T, b)
    BY BegunPlus
  <2>. QED
    BY <2>1
<1>. HIDE DEF W, first, last
<1>4. /\ Begun(W, T, c).table = FALSE /\ TopOf(Begun(W, T, c).stack) = [said |-> T, old |-> c]
  BY <1>2, BegunIs
<1>6. PICK inner : Runs(inner, body, W, {}, c, n, early)
  <2>1. Covers(c, c)
    BY DEF Covers, Ages, Any
  <2>. QED
    BY <1>2, <2>1 DEF Fits
<1>7. Len(p) \in Nat /\ Len(body) \in Nat /\ Len(rest) \in Nat
  BY Catenation DEF Fits, IsBracket
<1>. DEFINE m == Len(body)
            acc == [i \in 1..(Len(p) + 1) |-> IF i = 1 THEN first
                                            ELSE IF i <= m + 2 THEN inner[i - 1] ELSE last]
<1>8. inner[1] = Begun(W, {}, c) /\ inner[m + 1] = Begun(W, T, c)
  <2>1. {} \cup Topics(body) = T
    BY DEF IsBracket
  <2>. QED
    BY <1>6, <2>1 DEF Runs
<1>20. Len(p) = m + 2 + Len(rest)
  BY DEF IsBracket
<1>9. /\ acc[1] = first /\ \A i \in 1..(m + 1) : acc[i + 1] = inner[i]
      /\ \A i \in (m + 3)..(Len(p) + 1) : acc[i] = last
  BY <1>7, <1>20
<1>. HIDE DEF acc, m
<1>10. m \in Nat /\ Len(p) = m + 2 + Len(rest)
  BY <1>7 DEF m, IsBracket
<1>11. \A i \in 1..m : p[i + 1] = body[i]
  BY DEF m, IsBracket
<1>12. ASSUME NEW i \in 1..(Len(p) + 1)
       PROVE  IsStack(acc[i].stack) /\ Len(acc[i].stack) \in 1..(Len(U) + 1 + (n + 1))
  <2>1. CASE i = 1
    BY <2>1, <1>2, <1>3, <1>9
  <2>2. CASE i \in 2..(m + 2)
    <3>1. i - 1 \in 1..(m + 1) /\ (i - 1) + 1 = i
      BY <2>2, <1>10
    <3>2. acc[i] = inner[i - 1]
      BY <3>1, <1>9
    <3>3. IsStack(inner[i - 1].stack) /\ Len(inner[i - 1].stack) \in 1..(Len(W) + 1 + n)
      BY <3>1, <1>6 DEF Runs, m
    <3>. QED
      BY <3>2, <3>3, <1>2
  <2>3. CASE i \in (m + 3)..(Len(p) + 1)
    BY <2>3, <1>2, <1>3, <1>9
  <2>. QED
    BY <2>1, <2>2, <2>3, <1>10
<1>21. p[1].op = "open" \/ (p[1].to = Len(p) /\ Looks(p[1], T, o))
  BY DEF IsBracket
<1>13. /\ Lands(p, 1) \in 1..(Len(p) + 1)
       /\ StepFits(p[1], acc[1], acc[1 + 1], acc[Lands(p, 1)], early)
  <2>1. acc[1 + 1] = Rest(Append(first.stack, [said |-> {}, old |-> c]))
    <3>1. 1 \in 1..(m + 1)
      BY <1>10
    <3>. QED
      BY <3>1, <1>2, <1>8, <1>9
  <2>2. CASE p[1].op = "open"
    <3>1. Lands(p, 1) \in 1..(Len(p) + 1)
      BY <2>2, <1>10, <1>7 DEF Lands
    <3>2. StepFits(p[1], first, Rest(Append(first.stack, [said |-> {}, old |-> c])),
                   acc[Lands(p, 1)], early)
      BY <2>2, <1>3 DEF StepFits, Operations
    <3>. QED
      BY <3>1, <3>2, <2>1, <1>9
  <2>3. CASE p[1].to = Len(p) /\ Looks(p[1], T, o)
    <3>1. p[1].op = "look" /\ Lands(p, 1) = Len(p) + 1 /\ p[1].to \in Nat
      BY <2>3, <1>7 DEF Lands, Looks
    <3>2. Len(p) + 1 \in (m + 3)..(Len(p) + 1)
      BY <1>10, <1>7
    <3>3. acc[Lands(p, 1)] = last
      BY <3>1, <3>2, <1>9
    <3>4. \/ Never(p[1].key)
          \/ last = Rest(Plus(first.stack, Meaning(p[1].key))) /\ Covers(b, Old(p[1].key))
      <4>1. CASE ~Never(p[1].key)
        <5>1. Meaning(p[1].key) = T /\ Covers(o, Old(p[1].key))
          BY <2>3, <4>1 DEF Looks
        <5>2. Old(p[1].key) \in Ages
          BY LevelIs DEF Old, Ages
        <5>. QED
          BY <5>1, <5>2, <1>0, <1>5
      <4>. QED
        BY <4>1
    <3>5. TopOf(first.stack).old = b
      BY <1>3
    <3>6. StepFits(p[1], first, Rest(Append(first.stack, [said |-> {}, old |-> c])), last, early)
      BY <2>3, <3>1, <3>4, <3>5, <1>3 DEF StepFits, Operations, Looks
    <3>. QED
      BY <3>1, <3>3, <3>6, <2>1, <1>7, <1>9
  <2>. QED
    BY <2>2, <2>3, <1>21
<1>14. ASSUME NEW i \in 2..(m + 1)
       PROVE  /\ Lands(p, i) \in 1..(Len(p) + 1)
              /\ StepFits(p[i], acc[i], acc[i + 1], acc[Lands(p, i)], early)
  <2>. DEFINE j == i - 1
  <2>1. j \in 1..m /\ j \in 1..(m + 1) /\ j + 1 \in 1..(m + 1) /\ j + 1 = i
          /\ (j + 1) + 1 = i + 1
    BY <1>10
  <2>. HIDE DEF j
  <2>2. p[i] = body[j]
    BY <2>1, <1>11
  <2>3. /\ Lands(body, j) \in 1..(m + 1)
        /\ StepFits(body[j], inner[j], inner[j + 1], inner[Lands(body, j)], early)
    BY <2>1, <1>6 DEF Runs, m
  <2>4. Lands(p, i) = Lands(body, j) + 1
    <3>1. CASE body[j].op = "look"
      <4>1. Lands(body, j) = j + body[j].to /\ Lands(p, i) = i + body[j].to
        BY <3>1, <2>2 DEF Lands
      <4>2. body[j].to \in Nat
        BY <3>1, <2>3 DEF StepFits
      <4>3. j \in Nat /\ i \in Nat /\ i = j + 1
        BY <2>1, <1>10
      <4>. QED
        BY <4>1, <4>2, <4>3
    <3>2. CASE body[j].op # "look"
      BY <3>2, <2>1, <2>2 DEF Lands
    <3>. QED
      BY <3>1, <3>2
  <2>5. acc[i] = inner[j] /\ acc[i + 1] = inner[j + 1] /\ acc[Lands(p, i)] = inner[Lands(body, j)]
    BY <2>1, <2>3, <2>4, <1>9
  <2>6. Lands(p, i) \in 1..(Len(p) + 1)
    BY <2>3, <2>4, <1>10, <1>7
  <2>7. StepFits(p[i], acc[i], acc[i + 1], acc[Lands(p, i)], early)
    BY <2>2, <2>3, <2>5
  <2>. QED
    BY <2>6, <2>7
<1>15. /\ Lands(p, m + 2) \in 1..(Len(p) + 1)
       /\ StepFits(p[m + 2], acc[m + 2], acc[(m + 2) + 1], acc[Lands(p, m + 2)], early)
  <2>1. m + 1 \in 1..(m + 1) /\ (m + 1) + 1 = m + 2 /\ (m + 2) + 1 \in (m + 3)..(Len(p) + 1)
    BY <1>10, <1>7
  <2>2. acc[m + 2] = Begun(W, T, c) /\ acc[(m + 2) + 1] = last
    BY <2>1, <1>8, <1>9
  <2>. DEFINE s == p[m + 2]
  <2>3. s.op = "close" \/ (s.op = "keep" /\ Keeps(s.key, s.ttl, T, c))
    BY DEF m, IsBracket
  <2>. HIDE DEF s
  <2>4. Lands(p, m + 2) = (m + 2) + 1
    BY <2>3 DEF Lands, s
  <2>5. TopOf(Begun(W, T, c).stack).said = T /\ TopOf(Begun(W, T, c).stack).old = c
    BY <1>4
  <2>6. StepFits(s, Begun(W, T, c), last, last, early)
    BY <2>3, <2>5, <1>2, <1>4 DEF StepFits, Operations
  <2>. QED
    BY <2>1, <2>2, <2>4, <2>6, <1>10, <1>7 DEF s
<1>16. ASSUME NEW i \in (m + 3)..Len(p)
       PROVE  /\ Lands(p, i) \in 1..(Len(p) + 1)
              /\ StepFits(p[i], acc[i], acc[i + 1], acc[Lands(p, i)], early)
  <2>. DEFINE j == i - (m + 2)
  <2>1. j \in 1..Len(rest) /\ m + 2 + j = i /\ i \in (m + 3)..(Len(p) + 1)
          /\ i + 1 \in (m + 3)..(Len(p) + 1) /\ i + 1 \in 1..(Len(p) + 1)
    BY <1>10, <1>7
  <2>. HIDE DEF j
  <2>2. p[i] = rest[j]
    BY <2>1 DEF m, IsBracket
  <2>3. Lands(p, i) = i + 1
    BY <2>1, <2>2 DEF Lands, Lingers, IsBracket
  <2>4. acc[i] = last /\ acc[i + 1] = last
    BY <2>1, <1>9
  <2>5. StepFits(rest[j], last, last, last, early)
    BY <2>1 DEF Lingers, last, IsBracket
  <2>. QED
    BY <2>1, <2>2, <2>3, <2>4, <2>5
<1>17. ASSUME NEW i \in 1..Len(p)
       PROVE  /\ Lands(p, i) \in 1..(Len(p) + 1)
              /\ StepFits(p[i], acc[i], acc[i + 1], acc[Lands(p, i)], early)
  <2>1. i = 1 \/ i \in 2..(m + 1) \/ i = m + 2 \/ i \in (m + 3)..Len(p)
    BY <1>10, <1>7
  <2>. QED
    BY <2>1, <1>13, <1>14, <1>15, <1>16
<1>18. acc[Len(p) + 1] = last
  BY <1>7, <1>9, <1>10
<1>22. Topics(p) = T
  BY DEF IsBracket
<1>19. Runs(acc, p, U, A, b, n + 1, early)
  BY <1>9, <1>12, <1>17, <1>18, <1>22 DEF Runs, first, last
<1>. QED
  BY <1>19

\* How the caches of Programs are put together.
LEMMA ThreeParts ==
  ASSUME NEW s, NEW body, NEW t, IsProgram(body), Asked(s) = {}, Asked(t) = {}
  PROVE  LET p == <<s>> \o body \o <<t>>
         IN /\ IsProgram(p) /\ Len(body) \in Nat /\ Len(p) = Len(body) + 2
            /\ p[1] = s /\ p[Len(body) + 2] = t
            /\ \A i \in 1..Len(body) : p[i + 1] = body[i]
            /\ Topics(p) = Topics(body)
<1>. DEFINE q == <<s>> \o body
            p == q \o <<t>>
<1>1. /\ IsProgram(<<s>>) /\ Len(<<s>>) = 1 /\ <<s>>[1] = s /\ Topics(<<s>>) = {}
      /\ IsProgram(<<t>>) /\ Len(<<t>>) = 1 /\ <<t>>[1] = t /\ Topics(<<t>>) = {}
  BY OneStep, TopicsOfStep
<1>2. /\ IsProgram(q) /\ Len(body) \in Nat /\ Len(q) = 1 + Len(body)
      /\ \A i \in 1..1 : q[i] = <<s>>[i]
      /\ \A i \in 1..Len(body) : q[1 + i] = body[i]
      /\ Topics(q) = Topics(<<s>>) \cup Topics(body)
  BY <1>1, Catenation, TopicsOfBoth
<1>. HIDE DEF q
<1>3. /\ IsProgram(p) /\ Len(p) = Len(q) + 1
      /\ \A i \in 1..Len(q) : p[i] = q[i]
      /\ \A i \in 1..1 : p[Len(q) + i] = <<t>>[i]
      /\ Topics(p) = Topics(q) \cup Topics(<<t>>)
  BY <1>1, <1>2, Catenation, TopicsOfBoth
<1>. HIDE DEF p
<1>4. p[1] = s /\ p[Len(body) + 2] = t
  <2>1. 1 \in 1..Len(q) /\ 1 \in 1..1 /\ Len(q) + 1 = Len(body) + 2
    BY <1>2
  <2>. QED
    BY <2>1, <1>1, <1>2, <1>3
<1>5. \A i \in 1..Len(body) : p[i + 1] = body[i]
  <2>1. \A i \in 1..Len(body) : i + 1 \in 1..Len(q) /\ i + 1 = 1 + i
    BY <1>2
  <2>. QED
    BY <2>1, <1>2, <1>3
<1>6. Topics(p) = Topics(body) /\ Len(p) = Len(body) + 2
  BY <1>1, <1>2, <1>3
<1>. QED
  BY <1>2, <1>3, <1>4, <1>5, <1>6 DEF p, q

LEMMA PairFits ==
  ASSUME NEW s, NEW body, NEW t, NEW n \in Nat, NEW o \in Ages, NEW c \in Ages, NEW early,
         NEW T, T = Topics(body), Fits(body, n, c, early), Covers(o, c),
         s.op = "open" \/ (s.to = Len(body) + 2 /\ Looks(s, T, o)),
         t.op = "close" \/ (t.op = "keep" /\ Keeps(t.key, t.ttl, T, c))
  PROVE  /\ Fits(<<s>> \o body \o <<t>>, n + 1, o, early)
         /\ Topics(<<s>> \o body \o <<t>>) = T
<1>. DEFINE p == <<s>> \o body \o <<t>>
<1>1. s.op \in {"open", "look"} /\ t.op \in {"close", "keep"}
  BY DEF Looks
<1>2. Asked(s) = {} /\ Asked(t) = {}
  BY <1>1 DEF Asked, About
<1>3. /\ IsProgram(p) /\ Len(body) \in Nat /\ Len(p) = Len(body) + 2
      /\ p[1] = s /\ p[Len(body) + 2] = t
      /\ \A i \in 1..Len(body) : p[i + 1] = body[i]
      /\ Topics(p) = T
  BY <1>2, ThreeParts DEF Fits
<1>. HIDE DEF p
<1>4. IsProgram(<<>>) /\ Len(<<>>) = 0
  BY OneStep
<1>7. 1..0 = {}
  OBVIOUS
<1>5. IsBracket(p, body, <<>>, T, o, c, early)
  BY <1>3, <1>4, <1>7 DEF IsBracket
<1>6. Fits(p, n + 1, o, early)
  BY <1>5, BracketFits
<1>. QED
  BY <1>3, <1>6 DEF p

-------------------------------------------------------------------------------
(* How old what a program reads may get *)

\* What one step asks, the trading dates with it, and asks now.
Read(step) == IF step.op \in {"ask", "start", "join"} THEN UNION step.queries
              ELSE IF step.op = "insert" THEN step.rows ELSE {}
Now(step) == {<<Topic(x), 0>> : x \in Read(step)}

\* Every bound of some is within the bounds of others; bounds of a later time.
Allows(wide, narrow) ==
  \A b \in narrow : b[2] \in Nat /\ \E a \in wide : a[2] \in Nat /\ a[1] = b[1] /\ b[2] <= a[2]
Later(bounds, n) == {<<b[1], b[2] + n>> : b \in bounds}
BoundsOf(bounds, questions) == {b \in bounds : \E x \in questions : Topic(x) = b[1]}

\* The bounds of each frame at each step: the same as long as there is the frame, but that
\* a hit may widen them.
Under1(ladder) == SubSeq(ladder, 1, Len(ladder) - 1)
Widens(here, next) ==
  /\ IsProgram(next) /\ Len(next) = Len(here)
  /\ \A j \in 1..Len(here) : here[j] \subseteq next[j]
KeepsInTime(key, ttl, bounds) ==
  Unlooked(key) \/ Allows(KeyBounds(key), Later(bounds, ttl + MaxFill))
Leaves(here, next) ==
  /\ Len(here) >= 2 /\ next = Under1(here)
  /\ Allows(here[Len(here) - 1], TopOf(here))

StepInTime(step, here, next, land) ==
  /\ step.op \in {"ask", "start", "join", "insert"} => next = here /\ Allows(TopOf(here), Now(step))
  /\ step.op = "look" => /\ \E S : next = Append(here, S)
                         /\ Widens(here, land)
                         /\ ~Unlooked(step.key)
                         /\ Never(step.key) \/ Allows(TopOf(land), KeyBounds(step.key))
  /\ step.op = "open" => \E S : next = Append(here, S)
  /\ step.op = "close" => Leaves(here, next)
  /\ step.op = "keep" => Leaves(here, next) /\ KeepsInTime(step.key, step.ttl, TopOf(here))
  /\ step.op = "share" => /\ Widens(here, next)
                          /\ KeepsInTime(step.key, step.ttl, BoundsOf(TopOf(here), step.only))
  /\ step.op \in {"create", "drop"} => next = here

Times(acc, p, from, to) ==
  /\ acc[1] = from /\ acc[Len(p) + 1] = to
  /\ \A i \in 1..(Len(p) + 1) : IsProgram(acc[i]) /\ Len(acc[i]) >= 1
  /\ \A i \in 1..Len(p) : /\ Lands(p, i) \in 1..(Len(p) + 1)
                          /\ StepInTime(p[i], acc[i], acc[i + 1], acc[Lands(p, i)])

\* A hit stays inside the program, and there is an end to the time around each step.
Measured(p) ==
  /\ IsProgram(p)
  /\ \A i \in 1..Len(p) :
       /\ p[i].op = "look" => p[i].to \in Nat /\ i + p[i].to <= Len(p) + 1
       /\ IsFiniteSet(UnitsAround(p, i))

\* Whatever surrounds the program, if that is wide enough; and as a whole request.
KeepsTime(p) ==
  /\ Measured(p)
  /\ \A U, A : IsProgram(U) /\ Allows(A, Bounds(p)) =>
       \E acc : Times(acc, p, Append(U, A), Append(U, A))
InTime(p) ==
  /\ Measured(p)
  /\ \E A, B : Allows(Bounds(p), B) /\ \E acc : Times(acc, p, <<A>>, <<B>>)

LEMMA Reading ==
  ASSUME NEW p, NEW x
  PROVE  x \in Questions(p) <=> \E i \in DOMAIN p : x \in Read(p[i])
<1>. DEFINE Places == UNION {Positions(p, op) : op \in {"ask", "start", "join"}}
            Queried == UNION {UNION p[i].queries : i \in Places}
            Inserted == UNION {p[i].rows : i \in Positions(p, "insert")}
<1>1. Places = {i \in DOMAIN p : p[i].op \in {"ask", "start", "join"}}
  BY DEF Positions
<1>2. Positions(p, "insert") = {i \in DOMAIN p : p[i].op = "insert"}
  BY DEF Positions
<1>3. Questions(p) = Queried \cup Inserted
  BY DEF Questions
<1>. HIDE DEF Places
<1>4. x \in Queried <=> \E i \in Places : x \in UNION p[i].queries
  OBVIOUS
<1>5. x \in Inserted <=> \E i \in Positions(p, "insert") : x \in p[i].rows
  OBVIOUS
<1>. HIDE DEF Queried, Inserted
<1>6. (\E i \in Places : x \in UNION p[i].queries)
        <=> \E i \in DOMAIN p : p[i].op \in {"ask", "start", "join"} /\ x \in UNION p[i].queries
  BY <1>1
<1>7. (\E i \in Positions(p, "insert") : x \in p[i].rows)
        <=> \E i \in DOMAIN p : p[i].op = "insert" /\ x \in p[i].rows
  BY <1>2
<1>8. \A i : x \in Read(p[i]) <=>
        \/ p[i].op \in {"ask", "start", "join"} /\ x \in UNION p[i].queries
        \/ p[i].op = "insert" /\ x \in p[i].rows
  BY DEF Read
<1>. QED
  BY <1>3, <1>4, <1>5, <1>6, <1>7, <1>8

LEMMA ReadingOfStep == ASSUME NEW s PROVE Questions(<<s>>) = Read(s)
<1>1. \A x : x \in Questions(<<s>>) <=> x \in Read(s)
  BY Reading, OneStep
<1>. QED
  BY <1>1

LEMMA BoundsAre ==
  ASSUME NEW p, NEW b
  PROVE  b \in Bounds(p) <=>
           \E i \in DOMAIN p : \E x \in Read(p[i]) : b = <<Topic(x), Inside(p, i)>>
<1>1. \A i : Questions(<<p[i]>>) = Read(p[i])
  BY ReadingOfStep
<1>2. b \in Bounds(p) <=>
        \E i \in DOMAIN p : b \in {<<Topic(q), Inside(p, i)>> : q \in Questions(<<p[i]>>)}
  BY DEF Bounds
<1>. QED
  BY <1>1, <1>2

LEMMA Allowances ==
  /\ \A a, b, c : Allows(a, b) /\ Allows(b, c) => Allows(a, c)
  /\ \A a, b, c : Allows(a, b \cup c) <=> Allows(a, b) /\ Allows(a, c)
  /\ \A a : Allows(a, {})
  /\ \A a, b, c : Allows(a, b) /\ c \subseteq b => Allows(a, c)
<1>1. ASSUME NEW a, NEW b, NEW c, Allows(a, b), Allows(b, c)
      PROVE  Allows(a, c)
  <2>. SUFFICES ASSUME NEW z \in c
                PROVE  z[2] \in Nat /\ \E x \in a : x[2] \in Nat /\ x[1] = z[1] /\ z[2] <= x[2]
    BY DEF Allows
  <2>1. PICK y \in b : y[2] \in Nat /\ y[1] = z[1] /\ z[2] <= y[2] /\ z[2] \in Nat
    BY <1>1 DEF Allows
  <2>2. PICK x \in a : x[2] \in Nat /\ x[1] = y[1] /\ y[2] <= x[2]
    BY <1>1, <2>1 DEF Allows
  <2>. QED
    BY <2>1, <2>2
<1>2. \A a, b, c : Allows(a, b \cup c) <=> Allows(a, b) /\ Allows(a, c)
  BY DEF Allows
<1>3. \A a : Allows(a, {})
  BY DEF Allows
<1>4. \A a, b, c : Allows(a, b) /\ c \subseteq b => Allows(a, c)
  BY DEF Allows
<1>. QED
  BY <1>1, <1>2, <1>3, <1>4

\* Bounds allow themselves, and the same later or earlier.
LEMMA SelfAllows ==
  ASSUME NEW S, \A b \in S : b[2] \in Nat
  PROVE  Allows(S, S) /\ \A n \in Nat : Allows(Later(S, n), S) /\ \A b \in Later(S, n) : b[2] \in Nat
<1>1. Allows(S, S)
  BY DEF Allows
<1>2. ASSUME NEW n \in Nat PROVE Allows(Later(S, n), S) /\ \A b \in Later(S, n) : b[2] \in Nat
  <2>1. \A b \in S : /\ <<b[1], b[2] + n>> \in Later(S, n)
                     /\ <<b[1], b[2] + n>>[2] \in Nat
                     /\ <<b[1], b[2] + n>>[1] = b[1] /\ b[2] <= <<b[1], b[2] + n>>[2]
    BY DEF Later
  <2>2. \A b \in Later(S, n) : \E a \in S : b = <<a[1], a[2] + n>>
    BY DEF Later
  <2>3. \A b \in Later(S, n) : b[2] \in Nat
    BY <2>2
  <2>. QED
    BY <2>1, <2>3 DEF Allows
<1>. QED
  BY <1>1, <1>2

LEMMA BoundsAreNumbers == ASSUME NEW p, Measured(p) PROVE \A b \in Bounds(p) : b[2] \in Nat
<1>. SUFFICES ASSUME NEW b \in Bounds(p) PROVE b[2] \in Nat
  OBVIOUS
<1>1. PICK i \in DOMAIN p : \E x \in Read(p[i]) : b = <<Topic(x), Inside(p, i)>>
  BY BoundsAre
<1>2. DOMAIN p = 1..Len(p)
  BY Catenation DEF Measured
<1>3. Inside(p, i) \in Nat
  BY <1>1, <1>2, FS_CardinalityType DEF Measured, Inside
<1>. QED
  BY <1>1, <1>3

\* Around a step of a program there is, inside a longer program, what was around it and
\* what is around the whole.
Outside(r, n, i) ==
  UNION {{j} \X (1..(r[j].ttl + MaxFill)) : j \in {h \in Around(r, n + i) : h <= n}}

LEMMA AroundIs ==
  ASSUME NEW r, NEW i, NEW j, IsProgram(r)
  PROVE  j \in Around(r, i) <=>
           /\ j \in 1..Len(r) /\ r[j].op = "look" /\ j < i /\ i < j + r[j].to - 1
<1>1. DOMAIN r = 1..Len(r)
  BY Catenation
<1>. QED
  BY <1>1 DEF Around, Positions

LEMMA UnitsAre ==
  ASSUME NEW r, NEW i, NEW u
  PROVE  u \in UnitsAround(r, i) <=>
           \E j \in Around(r, i) : \E k \in 1..(r[j].ttl + MaxFill) : u = <<j, k>>
BY DEF UnitsAround

\* A program q is in r after the first n steps.
Follows(r, n, q) ==
  /\ IsProgram(r) /\ IsProgram(q) /\ n \in Nat /\ n + Len(q) <= Len(r)
  /\ \A i \in 1..Len(q) : r[n + i] = q[i] /\ (q[i].op = "look" => q[i].to \in Nat)

LEMMA ShiftedUnits ==
  ASSUME NEW r, NEW q, NEW n, Follows(r, n, q),
         NEW i \in 1..Len(q), IsFiniteSet(UnitsAround(q, i)), IsFiniteSet(Outside(r, n, i))
  PROVE  /\ IsFiniteSet(UnitsAround(r, n + i))
         /\ Inside(r, n + i) = Cardinality(Outside(r, n, i)) + Inside(q, i)
<1>. /\ IsProgram(r) /\ IsProgram(q) /\ n \in Nat /\ n + Len(q) <= Len(r)
     /\ \A h \in 1..Len(q) : r[n + h] = q[h] /\ (q[h].op = "look" => q[h].to \in Nat)
  BY DEF Follows
<1>0. Len(q) \in Nat /\ Len(r) \in Nat
  BY Catenation
<1>. DEFINE Q == UnitsAround(q, i)
            O == Outside(r, n, i)
            Shifted == {<<u[1] + n, u[2]>> : u \in Q}
            f == [u \in Q |-> <<u[1] + n, u[2]>>]
<1>1. \A j : n + j \in Around(r, n + i) /\ n + j > n /\ j \in Int <=> j \in Around(q, i)
  <2>. SUFFICES ASSUME NEW j
                PROVE  n + j \in Around(r, n + i) /\ n + j > n /\ j \in Int <=> j \in Around(q, i)
    OBVIOUS
  <2>1. ASSUME j \in Around(q, i)
        PROVE  n + j \in Around(r, n + i) /\ n + j > n /\ j \in Int
    <3>1. j \in 1..Len(q) /\ q[j].op = "look" /\ j < i /\ i < j + q[j].to - 1
      BY <2>1, AroundIs
    <3>2. r[n + j] = q[j] /\ q[j].to \in Nat /\ n + j \in 1..Len(r)
      BY <3>1, <1>0
    <3>3. n + j < n + i /\ n + i < (n + j) + r[n + j].to - 1
      BY <3>1, <3>2, <1>0
    <3>4. \A h : h = n + j => h \in Around(r, n + i)
      BY <3>1, <3>2, <3>3, AroundIs
    <3>. QED
      BY <3>4, <3>3, <3>1, <1>0
  <2>2. ASSUME n + j \in Around(r, n + i), n + j > n, j \in Int
        PROVE  j \in Around(q, i)
    <3>1. /\ n + j \in 1..Len(r) /\ r[n + j].op = "look" /\ n + j < n + i
          /\ n + i < (n + j) + r[n + j].to - 1
      BY <2>2, AroundIs
    <3>2. j \in 1..Len(q) /\ j < i
      BY <2>2, <3>1, <1>0
    <3>3. r[n + j] = q[j] /\ q[j].op = "look" /\ q[j].to \in Nat
      BY <3>1, <3>2
    <3>4. i < j + q[j].to - 1
      BY <3>1, <3>2, <3>3, <1>0
    <3>. QED
      BY <3>2, <3>3, <3>4, AroundIs
  <2>. QED
    BY <2>1, <2>2
<1>2. \A j \in Around(q, i) : j \in 1..Len(q) /\ r[n + j] = q[j]
  BY AroundIs
<1>3. \A u \in Q : \E j \in Around(q, i) : \E k \in 1..(q[j].ttl + MaxFill) : u = <<j, k>>
  BY UnitsAre
<1>4. UnitsAround(r, n + i) = O \cup Shifted
  <2>. SUFFICES ASSUME NEW u PROVE u \in UnitsAround(r, n + i) <=> u \in O \/ u \in Shifted
    OBVIOUS
  <2>1. ASSUME u \in O PROVE u \in UnitsAround(r, n + i)
    BY <2>1 DEF Outside, UnitsAround
  <2>2. ASSUME u \in Shifted PROVE u \in UnitsAround(r, n + i)
    <3>1. PICK v \in Q : u = <<v[1] + n, v[2]>>
      BY <2>2
    <3>2a. PICK j \in Around(q, i) : \E k \in 1..(q[j].ttl + MaxFill) : v = <<j, k>>
      BY <1>3
    <3>2. PICK k \in 1..(q[j].ttl + MaxFill) : v = <<j, k>>
      BY <3>2a
    <3>3. u = <<n + j, k>> /\ k \in 1..(r[n + j].ttl + MaxFill) /\ n + j \in Around(r, n + i)
      BY <3>1, <3>2, <1>0, <1>1, <1>2
    <3>. QED
      BY <3>3, UnitsAre
  <2>3. ASSUME u \in UnitsAround(r, n + i) PROVE u \in O \/ u \in Shifted
    <3>0. PICK j \in Around(r, n + i) : \E k \in 1..(r[j].ttl + MaxFill) : u = <<j, k>>
      BY <2>3, UnitsAre
    <3>1. PICK k \in 1..(r[j].ttl + MaxFill) : u = <<j, k>>
      BY <3>0
    <3>2. j \in 1..Len(r)
      BY <3>1, AroundIs
    <3>3. CASE j <= n
      BY <3>1, <3>3 DEF Outside
    <3>4. CASE ~(j <= n)
      <4>1. PICK h \in Int : j = n + h /\ n + h > n
        <5>1. j - n \in Int /\ j = n + (j - n) /\ n + (j - n) > n
          BY <3>2, <3>4, <1>0
        <5>. QED
          BY <5>1
      <4>2. h \in Around(q, i) /\ r[n + h] = q[h]
        BY <3>1, <4>1, <1>1, <1>2
      <4>3. <<h, k>> \in Q
        BY <3>1, <4>1, <4>2, UnitsAre
      <4>4. u = <<<<h, k>>[1] + n, <<h, k>>[2]>>
        BY <3>1, <4>1
      <4>. QED
        BY <4>3, <4>4
    <3>. QED
      BY <3>3, <3>4
  <2>. QED
    BY <2>1, <2>2, <2>3
<1>5. ExistsBijection(Q, Shifted)
  <2>1. \A u \in Q : u = <<u[1], u[2]>> /\ u[1] \in Nat
    BY <1>2, <1>3
  <2>2. f \in [Q -> Shifted]
    OBVIOUS
  <2>3. ASSUME NEW u \in Q, NEW v \in Q, f[u] = f[v] PROVE u = v
    <3>1. <<u[1] + n, u[2]>> = <<v[1] + n, v[2]>>
      BY <2>3
    <3>2. u[1] = v[1] /\ u[2] = v[2]
      BY <3>1, <2>1
    <3>3. u = <<u[1], u[2]>> /\ v = <<v[1], v[2]>>
      BY <2>1
    <3>. QED
      BY <3>2, <3>3
  <2>4. \A t \in Shifted : \E u \in Q : f[u] = t
    OBVIOUS
  <2>. HIDE DEF f, Shifted, Q
  <2>5. f \in Injection(Q, Shifted)
    BY <2>2, <2>3 DEF Injection, IsInjective
  <2>6. f \in Surjection(Q, Shifted)
    BY <2>2, <2>4 DEF Surjection
  <2>. QED
    BY <2>5, <2>6 DEF ExistsBijection, Bijection
<1>6. O \cap Shifted = {}
  <2>. SUFFICES ASSUME NEW u, u \in O, u \in Shifted PROVE FALSE
    OBVIOUS
  <2>1. u[1] <= n
    BY DEF Outside
  <2>2. PICK v \in Q : u = <<v[1] + n, v[2]>>
    OBVIOUS
  <2>3. v[1] \in 1..Len(q)
    BY <1>2, <1>3
  <2>4. u[1] = v[1] + n
    BY <2>2
  <2>. QED
    BY <2>1, <2>3, <2>4, <1>0
<1>. HIDE DEF Q, O, Shifted, f
<1>7. IsFiniteSet(Q) /\ IsFiniteSet(O)
  BY DEF Q, O
<1>8. IsFiniteSet(Shifted) /\ Cardinality(Shifted) = Cardinality(Q)
  BY <1>5, <1>7, FS_Bijection
<1>9. /\ IsFiniteSet(O \cup Shifted)
      /\ Cardinality(O \cup Shifted)
           = Cardinality(O) + Cardinality(Shifted) - Cardinality(O \cap Shifted)
  BY <1>7, <1>8, FS_Union
<1>10. Cardinality(O) \in Nat /\ Cardinality(Q) \in Nat /\ Cardinality({}) = 0
  BY <1>7, FS_CardinalityType, FS_EmptySet
<1>11. Inside(r, n + i) = Cardinality(O \cup Shifted) /\ Inside(q, i) = Cardinality(Q)
  BY <1>4 DEF Inside, Q
<1>12. Cardinality(O \cup Shifted) = Cardinality(O) + Cardinality(Q)
  <2>1. Cardinality(O \cap Shifted) = 0
    BY <1>6, <1>10
  <2>2. Cardinality(O \cup Shifted)
           = Cardinality(O) + Cardinality(Shifted) - Cardinality(O \cap Shifted)
    BY <1>9
  <2>3. Cardinality(Shifted) = Cardinality(Q)
    BY <1>8
  <2>. QED
    BY <2>1, <2>2, <2>3, <1>10
<1>. QED
  BY <1>4, <1>9, <1>11, <1>12 DEF O

-------------------------------------------------------------------------------
(* Programs that keep to their time *)

\* What is asked first has around it only what was around it already.
LEMMA PrefixUnits ==
  ASSUME NEW r, NEW p, IsProgram(r), IsProgram(p), Len(p) <= Len(r),
         \A i \in 1..Len(p) : r[i] = p[i], NEW i \in 1..Len(p)
  PROVE  UnitsAround(r, i) = UnitsAround(p, i) /\ Inside(r, i) = Inside(p, i)
<1>0. Len(p) \in Nat /\ Len(r) \in Nat
  BY Catenation
<1>1. \A j : j \in Around(r, i) <=> j \in Around(p, i)
  <2>. SUFFICES ASSUME NEW j PROVE j \in Around(r, i) <=> j \in Around(p, i)
    OBVIOUS
  <2>1. ASSUME j \in Around(r, i) PROVE j \in Around(p, i)
    <3>1. j \in 1..Len(r) /\ r[j].op = "look" /\ j < i /\ i < j + r[j].to - 1
      BY <2>1, AroundIs
    <3>2. j \in 1..Len(p) /\ r[j] = p[j]
      BY <3>1, <1>0
    <3>. QED
      BY <3>1, <3>2, AroundIs
  <2>2. ASSUME j \in Around(p, i) PROVE j \in Around(r, i)
    <3>1. j \in 1..Len(p) /\ p[j].op = "look" /\ j < i /\ i < j + p[j].to - 1
      BY <2>2, AroundIs
    <3>2. j \in 1..Len(r) /\ r[j] = p[j]
      BY <3>1, <1>0
    <3>. QED
      BY <3>1, <3>2, AroundIs
  <2>. QED
    BY <2>1, <2>2
<1>2. \A j \in Around(p, i) : r[j] = p[j]
  BY AroundIs
<1>3. \A u : u \in UnitsAround(r, i) <=> u \in UnitsAround(p, i)
  BY <1>1, <1>2, UnitsAre
<1>4. UnitsAround(r, i) = UnitsAround(p, i)
  BY <1>3
<1>. QED
  BY <1>4 DEF Inside

\* Of two programs one after the other, each has its own bounds.
LEMMA BothMeasured ==
  ASSUME NEW p, NEW q, Measured(p), Measured(q)
  PROVE  Measured(p \o q) /\ Bounds(p \o q) = Bounds(p) \cup Bounds(q)
<1>. DEFINE r == p \o q
            n == Len(p)
<1>1. IsProgram(p) /\ IsProgram(q)
  BY DEF Measured
<1>2. /\ IsProgram(r) /\ Len(r) = n + Len(q) /\ n \in Nat /\ Len(q) \in Nat
      /\ \A i \in 1..n : r[i] = p[i]
      /\ \A i \in 1..Len(q) : r[n + i] = q[i]
      /\ DOMAIN r = 1..(n + Len(q)) /\ DOMAIN p = 1..n /\ DOMAIN q = 1..Len(q)
  BY <1>1, Catenation
<1>. HIDE DEF r
<1>3. ASSUME NEW i \in 1..n
      PROVE  /\ UnitsAround(r, i) = UnitsAround(p, i) /\ Inside(r, i) = Inside(p, i)
             /\ IsFiniteSet(UnitsAround(r, i))
  <2>1. UnitsAround(r, i) = UnitsAround(p, i) /\ Inside(r, i) = Inside(p, i)
    BY <1>1, <1>2, PrefixUnits
  <2>. QED
    BY <2>1 DEF Measured
<1>4. ASSUME NEW i \in 1..Len(q)
      PROVE  Inside(r, n + i) = Inside(q, i) /\ IsFiniteSet(UnitsAround(r, n + i))
  <2>1. \A j : ~(j \in Around(r, n + i) /\ j <= n)
    <3>. SUFFICES ASSUME NEW j, j \in Around(r, n + i), j <= n PROVE FALSE
      OBVIOUS
    <3>1. j \in 1..Len(r) /\ r[j].op = "look" /\ n + i < j + r[j].to - 1
      BY <1>2, AroundIs
    <3>2. j \in 1..n /\ r[j] = p[j]
      BY <3>1, <1>2
    <3>3. p[j].to \in Nat /\ j + p[j].to <= n + 1
      BY <3>1, <3>2 DEF Measured
    <3>. QED
      BY <3>1, <3>2, <3>3, <1>2
  <2>2. Outside(r, n, i) = {}
    <3>1. {h \in Around(r, n + i) : h <= n} = {}
      BY <2>1
    <3>. QED
      BY <3>1 DEF Outside
  <2>3. IsFiniteSet(Outside(r, n, i)) /\ Cardinality(Outside(r, n, i)) = 0
    BY <2>2, FS_EmptySet
  <2>4. IsFiniteSet(UnitsAround(q, i))
    BY DEF Measured
  <2>5. \A h \in 1..Len(q) : q[h].op = "look" => q[h].to \in Nat
    BY DEF Measured
  <2>6. /\ IsFiniteSet(UnitsAround(r, n + i))
        /\ Inside(r, n + i) = Cardinality(Outside(r, n, i)) + Inside(q, i)
    <3>. HIDE DEF n
    <3>1. Follows(r, n, q)
      BY <1>1, <1>2, <2>5 DEF Follows
    <3>. QED
      BY <3>1, <2>3, <2>4, ShiftedUnits
  <2>7. Inside(q, i) \in Nat
    BY <2>4, FS_CardinalityType DEF Inside
  <2>. QED
    BY <2>3, <2>6, <2>7
<1>5. ASSUME NEW i \in 1..Len(r)
      PROVE  i \in 1..n \/ \E j \in 1..Len(q) : i = n + j
  <2>1. CASE i <= n
    BY <2>1, <1>2
  <2>2. CASE i > n
    <3>1. i - n \in 1..Len(q) /\ i = n + (i - n)
      BY <2>2, <1>2
    <3>. QED
      BY <3>1
  <2>. QED
    BY <2>1, <2>2, <1>2
<1>6. Measured(r)
  <2>. SUFFICES ASSUME NEW i \in 1..Len(r)
                PROVE  /\ r[i].op = "look" => r[i].to \in Nat /\ i + r[i].to <= Len(r) + 1
                       /\ IsFiniteSet(UnitsAround(r, i))
    BY <1>2 DEF Measured
  <2>1. CASE i \in 1..n
    <3>1. p[i].op = "look" => p[i].to \in Nat /\ i + p[i].to <= n + 1
      BY <2>1 DEF Measured
    <3>2. r[i].op = "look" => r[i].to \in Nat /\ i + r[i].to <= Len(r) + 1
      BY <2>1, <3>1, <1>2
    <3>. QED
      BY <2>1, <3>2, <1>3
  <2>2. CASE \E j \in 1..Len(q) : i = n + j
    <3>0. PICK j \in 1..Len(q) : i = n + j
      BY <2>2
    <3>1. q[j].op = "look" => q[j].to \in Nat /\ j + q[j].to <= Len(q) + 1
      BY DEF Measured
    <3>2. r[i] = q[j]
      BY <3>0, <1>2
    <3>3. r[i].op = "look" => r[i].to \in Nat /\ i + r[i].to <= Len(r) + 1
      <4>. DEFINE t == q[j].to
      <4>1. ASSUME q[j].op = "look" PROVE t \in Nat /\ (n + j) + t <= (n + Len(q)) + 1
        <5>1. t \in Nat /\ j + t <= Len(q) + 1
          BY <3>1, <4>1
        <5>. HIDE DEF t, n
        <5>. QED
          BY <5>1, <1>2
      <4>. QED
        BY <3>0, <3>2, <4>1, <1>2
    <3>4. IsFiniteSet(UnitsAround(r, i))
      BY <3>0, <1>4
    <3>. QED
      BY <3>3, <3>4
  <2>. QED
    BY <2>1, <2>2, <1>5
<1>7. ASSUME NEW b PROVE b \in Bounds(r) <=> b \in Bounds(p) \/ b \in Bounds(q)
  <2>1. ASSUME b \in Bounds(r) PROVE b \in Bounds(p) \/ b \in Bounds(q)
    <3>1. PICK i \in 1..Len(r) : \E x \in Read(r[i]) : b = <<Topic(x), Inside(r, i)>>
      BY <2>1, <1>2, BoundsAre
    <3>2. CASE i \in 1..n
      <4>1. r[i] = p[i] /\ Inside(r, i) = Inside(p, i)
        BY <3>2, <1>2, <1>3
      <4>. QED
        BY <3>1, <3>2, <4>1, <1>2, BoundsAre
    <3>3. CASE \E j \in 1..Len(q) : i = n + j
      <4>0. PICK j \in 1..Len(q) : i = n + j
        BY <3>3
      <4>1. r[i] = q[j] /\ Inside(r, i) = Inside(q, j)
        BY <4>0, <1>2, <1>4
      <4>. QED
        BY <3>1, <4>1, <1>2, BoundsAre
    <3>. QED
      BY <3>2, <3>3, <1>5
  <2>2. ASSUME b \in Bounds(p) PROVE b \in Bounds(r)
    <3>1. PICK i \in 1..n : \E x \in Read(p[i]) : b = <<Topic(x), Inside(p, i)>>
      BY <2>2, <1>2, BoundsAre
    <3>2. r[i] = p[i] /\ Inside(r, i) = Inside(p, i) /\ i \in 1..(n + Len(q))
      BY <1>2, <1>3
    <3>. QED
      BY <3>1, <3>2, <1>2, BoundsAre
  <2>3. ASSUME b \in Bounds(q) PROVE b \in Bounds(r)
    <3>1. PICK i \in 1..Len(q) : \E x \in Read(q[i]) : b = <<Topic(x), Inside(q, i)>>
      BY <2>3, <1>2, BoundsAre
    <3>2. r[n + i] = q[i] /\ Inside(r, n + i) = Inside(q, i) /\ n + i \in 1..(n + Len(q))
      BY <1>2, <1>4
    <3>. QED
      BY <3>1, <3>2, <1>2, BoundsAre
  <2>. QED
    BY <2>1, <2>2, <2>3
<1>8. Bounds(r) = Bounds(p) \cup Bounds(q)
  BY <1>7
<1>. QED
  BY <1>6, <1>8 DEF r

\* Its bounds at each step: first those of the one, then those of the other.
LEMMA TimesBoth ==
  ASSUME NEW p, NEW q, Measured(p), Measured(q), NEW X, NEW Y, NEW Z, NEW acc1, NEW acc2,
         Times(acc1, p, X, Y), Times(acc2, q, Y, Z)
  PROVE  \E acc : Times(acc, p \o q, X, Z)
<1>. DEFINE r == p \o q
<1>1. IsProgram(p) /\ IsProgram(q)
  BY DEF Measured
<1>2. /\ IsProgram(r) /\ Len(r) = Len(p) + Len(q) /\ Len(p) \in Nat /\ Len(q) \in Nat
      /\ \A i \in 1..Len(p) : r[i] = p[i]
      /\ \A i \in 1..Len(q) : r[Len(p) + i] = q[i]
  BY <1>1, Catenation
<1>. HIDE DEF r
<1>. DEFINE acc == [i \in 1..(Len(p) + Len(q) + 1) |->
                      IF i <= Len(p) THEN acc1[i] ELSE acc2[i - Len(p)]]
<1>6. \A i \in 1..(Len(p) + 1) : acc[i] = acc1[i]
  <2>1. acc1[Len(p) + 1] = acc2[1]
    BY DEF Times
  <2>2. acc[Len(p) + 1] = acc2[1]
    BY <1>2
  <2>. QED
    BY <1>2, <2>1, <2>2
<1>7. \A i \in 1..(Len(q) + 1) : acc[Len(p) + i] = acc2[i]
  BY <1>2
<1>. HIDE DEF acc
<1>8. acc[1] = X
  BY <1>2, <1>6 DEF Times
<1>9. acc[Len(r) + 1] = Z
  <2>1. acc[Len(p) + (Len(q) + 1)] = acc2[Len(q) + 1]
    <3>1. Len(q) + 1 \in 1..(Len(q) + 1)
      BY <1>2
    <3>. QED
      BY <3>1, <1>7
  <2>2. Len(p) + (Len(q) + 1) = Len(r) + 1
    BY <1>2
  <2>. QED
    BY <2>1, <2>2 DEF Times
<1>10. ASSUME NEW i \in 1..(Len(r) + 1)
       PROVE  IsProgram(acc[i]) /\ Len(acc[i]) >= 1
  <2>1. CASE i <= Len(p)
    <3>1. i \in 1..(Len(p) + 1)
      BY <2>1, <1>2
    <3>2. acc[i] = acc1[i]
      BY <3>1, <1>6
    <3>. QED
      BY <3>1, <3>2 DEF Times
  <2>2. CASE i > Len(p)
    <3>1. i - Len(p) \in 1..(Len(q) + 1) /\ Len(p) + (i - Len(p)) = i
      BY <2>2, <1>2
    <3>2. acc[i] = acc2[i - Len(p)]
      BY <3>1, <1>7
    <3>. QED
      BY <3>1, <3>2 DEF Times
  <2>. QED
    BY <2>1, <2>2, <1>2
<1>11. ASSUME NEW i \in 1..Len(r)
       PROVE  /\ Lands(r, i) \in 1..(Len(r) + 1)
              /\ StepInTime(r[i], acc[i], acc[i + 1], acc[Lands(r, i)])
  <2>1. CASE i <= Len(p)
    <3>1. i \in 1..Len(p) /\ i \in 1..(Len(p) + 1) /\ i + 1 \in 1..(Len(p) + 1)
      BY <2>1, <1>2
    <3>2. Lands(r, i) = Lands(p, i) /\ r[i] = p[i]
      BY <3>1, <1>2 DEF Lands
    <3>3. /\ Lands(p, i) \in 1..(Len(p) + 1)
          /\ StepInTime(p[i], acc1[i], acc1[i + 1], acc1[Lands(p, i)])
      BY <3>1 DEF Times
    <3>4. acc[i] = acc1[i] /\ acc[i + 1] = acc1[i + 1] /\ acc[Lands(p, i)] = acc1[Lands(p, i)]
      BY <3>1, <3>3, <1>6
    <3>. QED
      BY <3>2, <3>3, <3>4, <1>2
  <2>2. CASE i > Len(p)
    <3>. DEFINE j == i - Len(p)
    <3>1. j \in 1..Len(q) /\ j \in 1..(Len(q) + 1) /\ j + 1 \in 1..(Len(q) + 1)
            /\ Len(p) + j = i /\ Len(p) + (j + 1) = i + 1
      BY <2>2, <1>2
    <3>. HIDE DEF j
    <3>6. Len(p) \in Nat /\ j \in Nat /\ Len(p) + j = i /\ Len(p) + (j + 1) = i + 1
      BY <3>1, <1>2
    <3>2. r[i] = q[j]
      BY <3>1, <1>2
    <3>3. /\ Lands(q, j) \in 1..(Len(q) + 1)
          /\ StepInTime(q[j], acc2[j], acc2[j + 1], acc2[Lands(q, j)])
      BY <3>1 DEF Times
    <3>4. Lands(r, i) = Len(p) + Lands(q, j)
      <4>1. CASE q[j].op = "look"
        <5>1. Lands(q, j) = j + q[j].to /\ Lands(r, i) = i + q[j].to
          BY <4>1, <3>2 DEF Lands
        <5>2. q[j].to \in Nat
          BY <4>1, <3>1 DEF Measured
        <5>. QED
          BY <5>1, <5>2, <3>6
      <4>2. CASE q[j].op # "look"
        BY <4>2, <3>1, <3>2, <1>2 DEF Lands
      <4>. QED
        BY <4>1, <4>2
    <3>5. acc[i] = acc2[j] /\ acc[i + 1] = acc2[j + 1] /\ acc[Lands(r, i)] = acc2[Lands(q, j)]
      BY <3>1, <3>3, <3>4, <1>7
    <3>7. Lands(r, i) \in 1..(Len(r) + 1)
      BY <3>3, <3>4, <1>2
    <3>8. StepInTime(r[i], acc[i], acc[i + 1], acc[Lands(r, i)])
      BY <3>2, <3>3, <3>5
    <3>. QED
      BY <3>7, <3>8
  <2>. QED
    BY <2>1, <2>2, <1>2
<1>12. Times(acc, r, X, Z)
  BY <1>8, <1>9, <1>10, <1>11 DEF Times
<1>. QED
  BY <1>12 DEF r

LEMMA KeepsTimeBoth ==
  ASSUME NEW p, NEW q, KeepsTime(p), KeepsTime(q)
  PROVE  KeepsTime(p \o q)
<1>1. Measured(p) /\ Measured(q)
  BY DEF KeepsTime
<1>2. Measured(p \o q) /\ Bounds(p \o q) = Bounds(p) \cup Bounds(q)
  BY <1>1, BothMeasured
<1>3. ASSUME NEW U, NEW A, IsProgram(U), Allows(A, Bounds(p \o q))
      PROVE  \E acc : Times(acc, p \o q, Append(U, A), Append(U, A))
  <2>1. Allows(A, Bounds(p)) /\ Allows(A, Bounds(q))
    BY <1>2, <1>3, Allowances
  <2>. DEFINE X == Append(U, A)
  <2>2. PICK acc1 : Times(acc1, p, X, X)
    BY <1>3, <2>1 DEF KeepsTime
  <2>3. PICK acc2 : Times(acc2, q, X, X)
    BY <1>3, <2>1 DEF KeepsTime
  <2>. HIDE DEF X
  <2>4. \E acc : Times(acc, p \o q, X, X)
    BY <1>1, <2>2, <2>3, TimesBoth
  <2>. QED
    BY <2>4 DEF X
<1>. QED
  BY <1>2, <1>3 DEF KeepsTime

\* As a whole request.
LEMMA KeptTimeIsInTime == ASSUME NEW p, KeepsTime(p) PROVE InTime(p)
<1>. DEFINE A == Bounds(p)
            X == <<A>>
<1>1. Measured(p)
  BY DEF KeepsTime
<1>2. \A b \in Bounds(p) : b[2] \in Nat
  BY <1>1, BoundsAreNumbers
<1>3. Allows(Bounds(p), A)
  BY <1>2, SelfAllows
<1>4. IsProgram(<<>>) /\ Append(<<>>, A) = X
  <2>1. IsProgram(<<>>)
    BY OneStep
  <2>. HIDE DEF A
  <2>2. Append(<<>>, A) = <<A>>
    OBVIOUS
  <2>. QED
    BY <2>1, <2>2
<1>5. \E acc : Times(acc, p, Append(<<>>, A), Append(<<>>, A))
  BY <1>3, <1>4 DEF KeepsTime
<1>6. \E acc : Times(acc, p, X, X)
  BY <1>4, <1>5
<1>. QED
  BY <1>1, <1>3, <1>6 DEF InTime

\* What looks nothing up and keeps nothing that others look for.
Flat(step) ==
  \/ step.op \in {"ask", "start", "join", "insert", "create", "drop", "refuse", "stop"}
  \/ step.op = "share" /\ Unlooked(step.key)

LEMMA FlatKeepsTime ==
  ASSUME NEW p, IsProgram(p), \A i \in 1..Len(p) : Flat(p[i])
  PROVE  KeepsTime(p)
<1>1. Len(p) \in Nat /\ DOMAIN p = 1..Len(p)
  BY Catenation
<1>2. \A i \in 1..Len(p) : p[i].op # "look"
  BY DEF Flat
<1>3. \A i : Around(p, i) = {}
  BY <1>2, AroundIs
<1>4. \A i : UnitsAround(p, i) = {}
  BY <1>3 DEF UnitsAround
<1>5. \A i : Inside(p, i) = 0 /\ IsFiniteSet(UnitsAround(p, i))
  BY <1>4, FS_EmptySet DEF Inside
<1>6. Measured(p)
  BY <1>2, <1>5 DEF Measured
<1>7. ASSUME NEW U, NEW A, IsProgram(U), Allows(A, Bounds(p))
      PROVE  \E acc : Times(acc, p, Append(U, A), Append(U, A))
  <2>. DEFINE X == Append(U, A)
              acc == [i \in 1..(Len(p) + 1) |-> X]
  <2>1. IsProgram(X) /\ Len(X) >= 1 /\ TopOf(X) = A
    BY <1>7, Appending
  <2>. HIDE DEF X
  <2>2. \A i \in 1..(Len(p) + 1) : acc[i] = X
    OBVIOUS
  <2>. HIDE DEF acc
  <2>3. ASSUME NEW i \in 1..Len(p)
        PROVE  /\ Lands(p, i) \in 1..(Len(p) + 1)
               /\ StepInTime(p[i], acc[i], acc[i + 1], acc[Lands(p, i)])
    <3>1. Lands(p, i) = i + 1 /\ i \in 1..(Len(p) + 1) /\ i + 1 \in 1..(Len(p) + 1)
      BY <1>1, <1>2 DEF Lands
    <3>2. acc[i] = X /\ acc[i + 1] = X
      BY <2>2, <3>1
    <3>3. Now(p[i]) \subseteq Bounds(p)
      <4>. SUFFICES ASSUME NEW b \in Now(p[i]) PROVE b \in Bounds(p)
        OBVIOUS
      <4>1. PICK x \in Read(p[i]) : b = <<Topic(x), 0>>
        BY DEF Now
      <4>2. b = <<Topic(x), Inside(p, i)>>
        BY <4>1, <1>5
      <4>. QED
        BY <4>1, <4>2, <1>1, BoundsAre
    <3>4. Allows(A, Now(p[i]))
      BY <3>3, <1>7, Allowances
    <3>5. Widens(X, X)
      BY <2>1 DEF Widens
    <3>6. Flat(p[i])
      OBVIOUS
    <3>. DEFINE s == p[i]
    <3>7. StepInTime(s, X, X, X)
      <4>. HIDE DEF s
      <4>0. Flat(s) /\ Allows(A, Now(s))
        BY <3>4, <3>6 DEF s
      <4>1. CASE s.op = "share" /\ Unlooked(s.key)
        BY <4>1, <3>5 DEF StepInTime, KeepsInTime
      <4>2. CASE s.op \in {"ask", "start", "join", "insert", "create", "drop", "refuse", "stop"}
        BY <4>2, <4>0, <2>1 DEF StepInTime
      <4>. QED
        BY <4>0, <4>1, <4>2 DEF Flat
    <3>. QED
      BY <3>1, <3>2, <3>7
  <2>4. Times(acc, p, X, X)
    <3>1. acc[1] = X /\ acc[Len(p) + 1] = X
      BY <2>2, <1>1
    <3>2. \A i \in 1..(Len(p) + 1) : IsProgram(acc[i]) /\ Len(acc[i]) >= 1
      BY <2>1, <2>2
    <3>. QED
      BY <3>1, <3>2, <2>3 DEF Times
  <2>. QED
    BY <2>4 DEF X
<1>. QED
  BY <1>6, <1>7 DEF KeepsTime

\* A cache: a look, or none, around a body; its answer is kept, or not; then perhaps a part
\* of it is shared.
IsCache(p, body, rest) ==
  /\ IsProgram(p) /\ IsProgram(rest) /\ Len(p) = Len(body) + 2 + Len(rest)
  /\ \A i \in 1..Len(body) : p[i + 1] = body[i]
  /\ \A i \in 1..Len(rest) : p[Len(body) + 2 + i] = rest[i]
  /\ p[1].op = "open" \/ (p[1].op = "look" /\ p[1].to = Len(p) /\ p[1].ttl \in Nat)
  /\ p[Len(body) + 2].op \in {"close", "keep"}
  /\ \A i \in 1..Len(rest) : rest[i].op = "share"

LEMMA OneColumn ==
  ASSUME NEW n \in Nat
  PROVE  IsFiniteSet({1} \X (1..n)) /\ Cardinality({1} \X (1..n)) = n
<1>. DEFINE S == 1..n
            T == {1} \X (1..n)
            f == [k \in S |-> <<1, k>>]
<1>1. f \in [S -> T]
  OBVIOUS
<1>2. \A k, h \in S : f[k] = f[h] => k = h
  OBVIOUS
<1>3. \A t \in T : \E k \in S : f[k] = t
  OBVIOUS
<1>4. IsFiniteSet(S) /\ Cardinality(S) = n
  <2>1. Cardinality(S) = (IF 1 > n THEN 0 ELSE n - 1 + 1) /\ IsFiniteSet(S)
    BY FS_Interval
  <2>. QED
    BY <2>1
<1>. HIDE DEF f, S, T
<1>5. f \in Injection(S, T)
  BY <1>1, <1>2 DEF Injection, IsInjective
<1>6. f \in Surjection(S, T)
  BY <1>1, <1>3 DEF Surjection
<1>7. ExistsBijection(S, T)
  BY <1>5, <1>6 DEF ExistsBijection, Bijection
<1>8. IsFiniteSet(T) /\ Cardinality(T) = n
  BY <1>4, <1>7, FS_Bijection
<1>. QED
  BY <1>8 DEF T

\* Whatever is asked inside the cache may be older by the time it is kept.
LEMMA CacheMeasured ==
  ASSUME NEW p, NEW body, NEW rest, IsCache(p, body, rest), Measured(body)
  PROVE  /\ Measured(p)
         /\ p[1].op = "look" => Bounds(p) = Later(Bounds(body), p[1].ttl + MaxFill)
         /\ p[1].op = "open" => Bounds(p) = Bounds(body)
<1>. DEFINE m == Len(body)
            n == p[1].ttl + MaxFill
            column == IF p[1].op = "look" THEN {1} \X (1..n) ELSE {}
            wait == IF p[1].op = "look" THEN n ELSE 0
<1>1. IsProgram(body) /\ IsProgram(p) /\ IsProgram(rest)
  BY DEF Measured, IsCache
<1>2. /\ m \in Nat /\ Len(rest) \in Nat /\ Len(p) = m + 2 + Len(rest) /\ Len(p) \in Nat
      /\ \A i \in 1..m : p[i + 1] = body[i]
      /\ \A i \in 1..Len(rest) : p[m + 2 + i] = rest[i]
      /\ p[m + 2].op \in {"close", "keep"} /\ \A i \in 1..Len(rest) : rest[i].op = "share"
      /\ DOMAIN p = 1..Len(p) /\ DOMAIN body = 1..m
  BY <1>1, Catenation DEF IsCache
<1>3. p[1].op = "open" \/ (p[1].op = "look" /\ p[1].to = Len(p) /\ p[1].ttl \in Nat)
  BY DEF IsCache
<1>. HIDE DEF m
<1>4. ASSUME NEW i \in 1..Len(p)
      PROVE  \/ i = 1 \/ \E j \in 1..m : i = j + 1 /\ p[i] = body[j]
             \/ i >= m + 2 /\ p[i].op \in {"close", "keep", "share"}
  <2>1. CASE i \in 2..(m + 1)
    <3>1. i - 1 \in 1..m /\ i = (i - 1) + 1
      BY <2>1, <1>2
    <3>. QED
      BY <3>1, <1>2
  <2>2. CASE i = m + 2
    BY <2>2, <1>2
  <2>3. CASE i \in (m + 3)..Len(p)
    <3>1. i - (m + 2) \in 1..Len(rest) /\ m + 2 + (i - (m + 2)) = i
      BY <2>3, <1>2
    <3>2. p[i] = rest[i - (m + 2)] /\ i >= m + 2
      BY <3>1, <2>3, <1>2
    <3>. QED
      BY <3>1, <3>2, <1>2
  <2>. QED
    BY <2>1, <2>2, <2>3, <1>2
<1>5. \A j \in 1..m : body[j].op = "look" => body[j].to \in Nat /\ j + body[j].to <= m + 1
  BY DEF Measured, m
<1>6. ASSUME NEW i \in 1..Len(p), p[i].op = "look"
      PROVE  p[i].to \in Nat /\ i + p[i].to <= Len(p) + 1
  <2>1. CASE i = 1
    BY <2>1, <1>2, <1>3, <1>6
  <2>2. CASE \E j \in 1..m : i = j + 1 /\ p[i] = body[j]
    <3>1. PICK j \in 1..m : i = j + 1 /\ p[i] = body[j]
      BY <2>2
    <3>. DEFINE t == body[j].to
    <3>2. t \in Nat /\ j + t <= m + 1 /\ p[i].to = t
      BY <3>1, <1>5, <1>6
    <3>. HIDE DEF t
    <3>. QED
      BY <3>1, <3>2, <1>2
  <2>. QED
    BY <2>1, <2>2, <1>4, <1>6
<1>7. Follows(p, 1, body)
  <2>1. 1 + Len(body) <= Len(p)
    BY <1>2 DEF m
  <2>2. \A h \in 1..Len(body) : p[1 + h] = body[h]
    <3>1. \A h \in 1..m : 1 + h = h + 1
      BY <1>2
    <3>. QED
      BY <3>1, <1>2 DEF m
  <2>3. \A h \in 1..Len(body) : body[h].op = "look" => body[h].to \in Nat
    BY <1>5 DEF m
  <2>. QED
    BY <2>1, <2>2, <2>3, <1>1 DEF Follows
<1>8. IsFiniteSet(column) /\ Cardinality(column) = wait /\ wait \in Nat
  <2>1. CASE p[1].op = "look"
    <3>1. n \in Nat
      BY <2>1, <1>3, MaxFillIs
    <3>2. column = {1} \X (1..n) /\ wait = n
      BY <2>1
    <3>. HIDE DEF n, column, wait
    <3>3. IsFiniteSet({1} \X (1..n)) /\ Cardinality({1} \X (1..n)) = n
      BY <3>1, OneColumn
    <3>. QED
      BY <3>1, <3>2, <3>3
  <2>2. CASE p[1].op # "look"
    <3>1. column = {} /\ wait = 0
      BY <2>2
    <3>. HIDE DEF column, wait
    <3>. QED
      BY <3>1, FS_EmptySet
  <2>. QED
    BY <2>1, <2>2
<1>9. \A j : 1 \in Around(p, j) => p[1].op = "look"
  BY <1>1, AroundIs
<1>10. ASSUME NEW j \in 1..m
       PROVE  Outside(p, 1, j) = column
  <2>1. ASSUME p[1].op = "look"
        PROVE  {h \in Around(p, 1 + j) : h <= 1} = {1}
    <3>1. 1 \in 1..Len(p) /\ 1 < 1 + j /\ 1 + j < 1 + p[1].to - 1
      BY <2>1, <1>2, <1>3
    <3>2. 1 \in Around(p, 1 + j)
      BY <2>1, <3>1, <1>1, AroundIs
    <3>3. \A h \in Around(p, 1 + j) : h \in 1..Len(p)
      BY <1>1, AroundIs
    <3>. QED
      BY <3>2, <3>3, <1>2
  <2>2. ASSUME p[1].op # "look"
        PROVE  {h \in Around(p, 1 + j) : h <= 1} = {}
    <3>1. \A h \in Around(p, 1 + j) : h \in 1..Len(p) /\ p[h].op = "look"
      BY <1>1, AroundIs
    <3>2. \A h \in Around(p, 1 + j) : ~(h <= 1)
      BY <2>2, <3>1, <1>2
    <3>. QED
      BY <3>2
  <2>3. CASE p[1].op = "look"
    <3>1. Outside(p, 1, j) = UNION {{h} \X (1..(p[h].ttl + MaxFill)) : h \in {1}}
      BY <2>1, <2>3 DEF Outside
    <3>2. UNION {{h} \X (1..(p[h].ttl + MaxFill)) : h \in {1}} = {1} \X (1..n)
      OBVIOUS
    <3>. QED
      BY <2>3, <3>1, <3>2
  <2>4. CASE p[1].op # "look"
    <3>1. Outside(p, 1, j) = UNION {{h} \X (1..(p[h].ttl + MaxFill)) : h \in {}}
      BY <2>2, <2>4 DEF Outside
    <3>. QED
      BY <2>4, <3>1
  <2>. QED
    BY <2>3, <2>4
<1>11. ASSUME NEW i \in 1..Len(p), ~\E j \in 1..m : i = j + 1
       PROVE  IsFiniteSet(UnitsAround(p, i))
  <2>1. ASSUME NEW h \in Around(p, i) PROVE h = 1 /\ p[1].op = "look"
    <3>1. h \in 1..Len(p) /\ p[h].op = "look" /\ h < i /\ i < h + p[h].to - 1
      BY <1>1, AroundIs
    <3>2. CASE h = 1
      BY <3>1, <3>2
    <3>3. CASE \E j \in 1..m : h = j + 1 /\ p[h] = body[j]
      <4>1. PICK j \in 1..m : h = j + 1 /\ p[h] = body[j]
        BY <3>3
      <4>. DEFINE t == body[j].to
      <4>2. t \in Nat /\ j + t <= m + 1 /\ i < h + t - 1 /\ h < i
        BY <3>1, <4>1, <1>5
      <4>. HIDE DEF t
      <4>3. i - 1 \in 1..m /\ i = (i - 1) + 1
        BY <4>1, <4>2, <1>2
      <4>. QED
        BY <4>3, <1>11
    <3>4. CASE h >= m + 2 /\ p[h].op \in {"close", "keep", "share"}
      BY <3>1, <3>4
    <3>. QED
      BY <3>1, <3>2, <3>3, <3>4, <1>4
  <2>2. UnitsAround(p, i) \subseteq column
    <3>. SUFFICES ASSUME NEW u \in UnitsAround(p, i) PROVE u \in column
      OBVIOUS
    <3>1. PICK h \in Around(p, i) : \E k \in 1..(p[h].ttl + MaxFill) : u = <<h, k>>
      BY UnitsAre
    <3>2. h = 1 /\ p[1].op = "look"
      BY <2>1
    <3>. QED
      BY <3>1, <3>2
  <2>. HIDE DEF column
  <2>. QED
    BY <1>8, <2>2, FS_Subset
<1>. HIDE DEF column
<1>12. ASSUME NEW j \in 1..m
       PROVE  /\ IsFiniteSet(UnitsAround(p, j + 1)) /\ Inside(p, j + 1) = wait + Inside(body, j)
              /\ Inside(body, j) \in Nat
  <2>1. j \in 1..Len(body) /\ IsFiniteSet(UnitsAround(body, j)) /\ 1 + j = j + 1
    BY <1>2 DEF m, Measured
  <2>2. IsFiniteSet(Outside(p, 1, j)) /\ Cardinality(Outside(p, 1, j)) = wait
    BY <1>8, <1>10
  <2>. HIDE DEF wait
  <2>3. /\ IsFiniteSet(UnitsAround(p, 1 + j))
        /\ Inside(p, 1 + j) = Cardinality(Outside(p, 1, j)) + Inside(body, j)
    BY <1>7, <2>1, <2>2, ShiftedUnits
  <2>4. Inside(body, j) \in Nat
    BY <2>1, FS_CardinalityType DEF Inside
  <2>. QED
    BY <2>1, <2>2, <2>3, <2>4
<1>13. Measured(p)
  <2>1. \A i \in 1..Len(p) : IsFiniteSet(UnitsAround(p, i))
    BY <1>11, <1>12
  <2>. QED
    BY <2>1, <1>1, <1>6 DEF Measured
<1>14. ASSUME NEW b
       PROVE  b \in Bounds(p) <=> \E j \in 1..m : \E x \in Read(body[j]) :
                                   b = <<Topic(x), wait + Inside(body, j)>>
  <2>1. ASSUME NEW i \in 1..Len(p), NEW x \in Read(p[i])
        PROVE  \E j \in 1..m : i = j + 1 /\ p[i] = body[j]
    <3>1. p[i].op \in {"ask", "start", "join", "insert"}
      BY DEF Read
    <3>2. i # 1
      BY <3>1, <1>3
    <3>. QED
      BY <3>1, <3>2, <1>4
  <2>2. ASSUME b \in Bounds(p)
        PROVE  \E j \in 1..m : \E x \in Read(body[j]) : b = <<Topic(x), wait + Inside(body, j)>>
    <3>1. PICK i \in 1..Len(p) : \E x \in Read(p[i]) : b = <<Topic(x), Inside(p, i)>>
      BY <2>2, <1>2, BoundsAre
    <3>2. PICK x \in Read(p[i]) : b = <<Topic(x), Inside(p, i)>>
      BY <3>1
    <3>3. PICK j \in 1..m : i = j + 1 /\ p[i] = body[j]
      BY <2>1
    <3>4. Inside(p, i) = wait + Inside(body, j)
      BY <3>3, <1>12
    <3>. QED
      BY <3>2, <3>3, <3>4
  <2>3. ASSUME NEW j \in 1..m, NEW x \in Read(body[j]), b = <<Topic(x), wait + Inside(body, j)>>
        PROVE  b \in Bounds(p)
    <3>1. j + 1 \in 1..Len(p) /\ p[j + 1] = body[j] /\ Inside(p, j + 1) = wait + Inside(body, j)
      BY <1>2, <1>12
    <3>2. x \in Read(p[j + 1]) /\ b = <<Topic(x), Inside(p, j + 1)>> /\ j + 1 \in DOMAIN p
      BY <2>3, <3>1, <1>2
    <3>. QED
      BY <3>2, BoundsAre
  <2>. QED
    BY <2>2, <2>3
<1>15. ASSUME NEW b
       PROVE  b \in Bounds(body) <=> \E j \in 1..m : \E x \in Read(body[j]) :
                                   b = <<Topic(x), Inside(body, j)>>
  BY <1>2, BoundsAre
<1>16. ASSUME p[1].op = "look" PROVE Bounds(p) = Later(Bounds(body), n)
  <2>1. wait = n /\ n \in Nat
    BY <1>3, <1>16, MaxFillIs
  <2>. HIDE DEF n, wait
  <2>2. ASSUME NEW b \in Bounds(p) PROVE b \in Later(Bounds(body), n)
    <3>1. PICK j \in 1..m : \E x \in Read(body[j]) : b = <<Topic(x), wait + Inside(body, j)>>
      BY <1>14
    <3>2. PICK x \in Read(body[j]) : b = <<Topic(x), wait + Inside(body, j)>>
      BY <3>1
    <3>. DEFINE a == <<Topic(x), Inside(body, j)>>
    <3>3. a \in Bounds(body)
      BY <1>15
    <3>4. a[1] = Topic(x) /\ a[2] = Inside(body, j)
      OBVIOUS
    <3>. HIDE DEF a
    <3>5. wait + Inside(body, j) = a[2] + n
      BY <2>1, <3>4, <1>12
    <3>. QED
      BY <3>2, <3>3, <3>4, <3>5 DEF Later
  <2>3. ASSUME NEW b \in Later(Bounds(body), n) PROVE b \in Bounds(p)
    <3>1. PICK a \in Bounds(body) : b = <<a[1], a[2] + n>>
      BY DEF Later
    <3>2. PICK j \in 1..m : \E x \in Read(body[j]) : a = <<Topic(x), Inside(body, j)>>
      BY <1>15
    <3>3. PICK x \in Read(body[j]) : a = <<Topic(x), Inside(body, j)>>
      BY <3>2
    <3>4. a[1] = Topic(x) /\ a[2] = Inside(body, j)
      BY <3>3
    <3>5. wait + Inside(body, j) = a[2] + n
      BY <2>1, <3>4, <1>12
    <3>. QED
      BY <3>1, <3>4, <3>5, <1>14
  <2>. QED
    BY <2>2, <2>3
<1>17. ASSUME p[1].op = "open" PROVE Bounds(p) = Bounds(body)
  <2>1. wait = 0
    BY <1>17
  <2>. HIDE DEF wait
  <2>2. \A j \in 1..m : wait + Inside(body, j) = Inside(body, j)
    BY <2>1, <1>12
  <2>3. \A b : b \in Bounds(p) <=> b \in Bounds(body)
    BY <2>2, <1>14, <1>15
  <2>. QED
    BY <2>3
<1>. QED
  BY <1>13, <1>16, <1>17

\* Its bounds at each step: V before and after the cache is filled, W at the end.
LEMMA CacheTimes ==
  ASSUME NEW p, NEW body, NEW rest, IsCache(p, body, rest), Measured(body), NEW V, NEW W, NEW S,
         IsProgram(V), Len(V) >= 1, Widens(V, W), NEW inner,
         Times(inner, body, Append(V, S), Append(V, S)), Allows(TopOf(V), S),
         p[1].op = "look" => /\ ~Unlooked(p[1].key)
                             /\ Never(p[1].key) \/ Allows(TopOf(W), KeyBounds(p[1].key)),
         p[Len(body) + 2].op = "keep" =>
           KeepsInTime(p[Len(body) + 2].key, p[Len(body) + 2].ttl, S),
         \/ Len(rest) = 0 /\ V = W
         \/ Len(rest) = 1 /\ KeepsInTime(rest[1].key, rest[1].ttl, BoundsOf(TopOf(V), rest[1].only))
  PROVE  \E acc : Times(acc, p, V, W)
<1>. DEFINE m == Len(body)
            F == Append(V, S)
<1>1. IsProgram(body) /\ IsProgram(p) /\ IsProgram(rest)
  BY DEF Measured, IsCache
<1>2. /\ m \in Nat /\ Len(rest) \in Nat /\ Len(p) = m + 2 + Len(rest) /\ Len(p) \in Nat
      /\ \A i \in 1..m : p[i + 1] = body[i]
      /\ \A i \in 1..Len(rest) : p[m + 2 + i] = rest[i]
      /\ p[m + 2].op \in {"close", "keep"} /\ \A i \in 1..Len(rest) : rest[i].op = "share"
  BY <1>1, Catenation DEF IsCache
<1>3. p[1].op = "open" \/ (p[1].op = "look" /\ p[1].to = Len(p) /\ p[1].ttl \in Nat)
  BY DEF IsCache
<1>4. IsProgram(W) /\ Len(W) = Len(V) /\ Len(V) \in Nat
  BY Catenation DEF Widens
<1>5. /\ IsProgram(F) /\ Len(F) = Len(V) + 1 /\ TopOf(F) = S /\ F[Len(V)] = TopOf(V)
  BY <1>4, Appending DEF TopOf
<1>6. Under1(F) = V
  <2>1. PICK Q : V \in Seq(Q)
    BY DEF IsProgram
  <2>2. V \in Seq(Q \cup {S}) /\ S \in Q \cup {S}
    BY <2>1
  <2>3. SubSeq(Append(V, S), 1, Len(V)) = V
    BY <2>2
  <2>4. Len(F) - 1 = Len(V)
    BY <1>4, <1>5
  <2>. QED
    BY <2>3, <2>4 DEF Under1
<1>7. Leaves(F, V)
  <2>1. Len(F) - 1 = Len(V) /\ Len(F) >= 2
    BY <1>4, <1>5
  <2>. HIDE DEF F
  <2>. QED
    BY <2>1, <1>5, <1>6 DEF Leaves
<1>8. /\ inner[1] = F /\ inner[m + 1] = F
      /\ \A i \in 1..(m + 1) : IsProgram(inner[i]) /\ Len(inner[i]) >= 1
      /\ \A i \in 1..m : /\ Lands(body, i) \in 1..(m + 1)
                         /\ StepInTime(body[i], inner[i], inner[i + 1], inner[Lands(body, i)])
  BY DEF Times
<1>. DEFINE acc == [i \in 1..(Len(p) + 1) |-> IF i = 1 THEN V
                                            ELSE IF i <= m + 2 THEN inner[i - 1]
                                            ELSE IF i = Len(p) + 1 THEN W ELSE V]
<1>9. /\ acc[1] = V /\ \A i \in 1..(m + 1) : acc[i + 1] = inner[i]
      /\ acc[Len(p) + 1] = W /\ (Len(rest) = 1 => acc[m + 3] = V)
  BY <1>2
<1>10. /\ Len(rest) = 0 => Len(p) = m + 2 /\ V = W
       /\ Len(rest) = 1 => Len(p) = m + 3
       /\ Len(rest) = 0 \/ Len(rest) = 1
  BY <1>2
<1>11. acc[m + 3] = V
  BY <1>2, <1>9, <1>10
<1>12. p[m + 2].op = "keep" => KeepsInTime(p[m + 2].key, p[m + 2].ttl, S)
  OBVIOUS
<1>13. \A j \in 1..m : body[j].op = "look" => body[j].to \in Nat
  BY DEF Measured
<1>. HIDE DEF acc, m, F
<1>14. ASSUME NEW i \in 1..(Len(p) + 1) PROVE IsProgram(acc[i]) /\ Len(acc[i]) >= 1
  <2>1. CASE i = 1
    BY <2>1, <1>9
  <2>2. CASE i \in 2..(m + 2)
    <3>1. i - 1 \in 1..(m + 1) /\ (i - 1) + 1 = i
      BY <2>2, <1>2
    <3>2. acc[i] = inner[i - 1]
      BY <3>1, <1>9
    <3>. QED
      BY <3>1, <3>2, <1>8
  <2>3. CASE i = m + 3
    BY <2>3, <1>11
  <2>4. CASE i = Len(p) + 1
    BY <2>4, <1>4, <1>9
  <2>. QED
    BY <2>1, <2>2, <2>3, <2>4, <1>2, <1>10
<1>15. /\ Lands(p, 1) \in 1..(Len(p) + 1)
       /\ StepInTime(p[1], acc[1], acc[1 + 1], acc[Lands(p, 1)])
  <2>1. acc[1 + 1] = F /\ 1 \in 1..(m + 1)
    BY <1>2, <1>8, <1>9
  <2>2. CASE p[1].op = "open"
    <3>1. Lands(p, 1) = 2 /\ 2 \in 1..(Len(p) + 1)
      BY <2>2, <1>2 DEF Lands
    <3>2. \A land : StepInTime(p[1], V, F, land)
      BY <2>2 DEF StepInTime, F
    <3>. QED
      BY <3>1, <3>2, <2>1, <1>9
  <2>3. CASE p[1].op = "look" /\ p[1].to = Len(p)
    <3>1. Lands(p, 1) = Len(p) + 1 /\ Len(p) + 1 \in 1..(Len(p) + 1)
      BY <2>3, <1>2 DEF Lands
    <3>2. StepInTime(p[1], V, F, W)
      BY <2>3 DEF StepInTime, F
    <3>. QED
      BY <3>1, <3>2, <2>1, <1>9
  <2>. QED
    BY <2>2, <2>3, <1>3
<1>16. ASSUME NEW i \in 2..(m + 1)
       PROVE  /\ Lands(p, i) \in 1..(Len(p) + 1)
              /\ StepInTime(p[i], acc[i], acc[i + 1], acc[Lands(p, i)])
  <2>. DEFINE j == i - 1
  <2>1. j \in 1..m /\ j \in 1..(m + 1) /\ j + 1 \in 1..(m + 1) /\ j + 1 = i
          /\ (j + 1) + 1 = i + 1
    BY <1>2
  <2>. HIDE DEF j
  <2>2. p[i] = body[j]
    BY <2>1, <1>2
  <2>3. /\ Lands(body, j) \in 1..(m + 1)
        /\ StepInTime(body[j], inner[j], inner[j + 1], inner[Lands(body, j)])
    BY <2>1, <1>8
  <2>4. Lands(p, i) = Lands(body, j) + 1
    <3>1. CASE body[j].op = "look"
      <4>1. Lands(body, j) = j + body[j].to /\ Lands(p, i) = i + body[j].to
        BY <3>1, <2>2 DEF Lands
      <4>2. body[j].to \in Nat
        BY <3>1, <2>1, <1>13
      <4>3. j \in Nat /\ i \in Nat /\ i = j + 1
        BY <2>1, <1>2
      <4>. QED
        BY <4>1, <4>2, <4>3
    <3>2. CASE body[j].op # "look"
      BY <3>2, <2>1, <2>2 DEF Lands
    <3>. QED
      BY <3>1, <3>2
  <2>5. acc[i] = inner[j] /\ acc[i + 1] = inner[j + 1] /\ acc[Lands(p, i)] = inner[Lands(body, j)]
    BY <2>1, <2>3, <2>4, <1>9
  <2>6. Lands(p, i) \in 1..(Len(p) + 1)
    BY <2>3, <2>4, <1>2
  <2>7. StepInTime(p[i], acc[i], acc[i + 1], acc[Lands(p, i)])
    BY <2>2, <2>3, <2>5
  <2>. QED
    BY <2>6, <2>7
<1>17. /\ Lands(p, m + 2) \in 1..(Len(p) + 1)
       /\ StepInTime(p[m + 2], acc[m + 2], acc[(m + 2) + 1], acc[Lands(p, m + 2)])
  <2>1. m + 1 \in 1..(m + 1) /\ (m + 1) + 1 = m + 2 /\ (m + 2) + 1 = m + 3
          /\ m + 3 \in 1..(Len(p) + 1)
    BY <1>2
  <2>2. acc[m + 2] = F /\ acc[(m + 2) + 1] = V
    BY <2>1, <1>8, <1>9, <1>11
  <2>. DEFINE s == p[m + 2]
  <2>3. s.op \in {"close", "keep"} /\ (s.op = "keep" => KeepsInTime(s.key, s.ttl, S))
    BY <1>2, <1>12
  <2>. HIDE DEF s
  <2>4. Lands(p, m + 2) = (m + 2) + 1
    BY <2>3 DEF Lands, s
  <2>6. StepInTime(s, F, V, V)
    BY <2>3, <1>5, <1>7 DEF StepInTime
  <2>. QED
    BY <2>1, <2>2, <2>4, <2>6 DEF s
<1>18. ASSUME Len(rest) = 1
       PROVE  /\ Lands(p, m + 3) \in 1..(Len(p) + 1)
              /\ StepInTime(p[m + 3], acc[m + 3], acc[(m + 3) + 1], acc[Lands(p, m + 3)])
  <2>1. p[m + 3] = rest[1] /\ rest[1].op = "share" /\ (m + 3) + 1 = Len(p) + 1
    <3>1. 1 \in 1..Len(rest) /\ m + 2 + 1 = m + 3
      BY <1>2, <1>18
    <3>. QED
      BY <3>1, <1>2, <1>10, <1>18
  <2>2. Lands(p, m + 3) = Len(p) + 1 /\ Len(p) + 1 \in 1..(Len(p) + 1)
    BY <2>1, <1>2 DEF Lands
  <2>3. KeepsInTime(rest[1].key, rest[1].ttl, BoundsOf(TopOf(V), rest[1].only))
    BY <1>18
  <2>4. StepInTime(rest[1], V, W, W)
    BY <2>1, <2>3 DEF StepInTime
  <2>. QED
    BY <2>1, <2>2, <2>4, <1>9, <1>11
<1>19. ASSUME NEW i \in 1..Len(p)
       PROVE  /\ Lands(p, i) \in 1..(Len(p) + 1)
              /\ StepInTime(p[i], acc[i], acc[i + 1], acc[Lands(p, i)])
  <2>1. i = 1 \/ i \in 2..(m + 1) \/ i = m + 2 \/ (i = m + 3 /\ Len(rest) = 1)
    BY <1>2, <1>10
  <2>. QED
    BY <2>1, <1>15, <1>16, <1>17, <1>18
<1>20. Times(acc, p, V, W)
  BY <1>9, <1>14, <1>19 DEF Times
<1>. QED
  BY <1>20

\* A cache as Programs makes them, ...
Encloses(p, s, body, t) ==
  /\ p = <<s>> \o body \o <<t>>
  /\ s.op = "open" \/ (s.op = "look" /\ s.to = Len(body) + 2 /\ s.ttl \in Nat)
  /\ t.op \in {"close", "keep"}

LEMMA CacheIs ==
  ASSUME NEW s, NEW body, NEW t, NEW p, Encloses(p, s, body, t), Measured(body)
  PROVE  /\ p[1] = s /\ p[Len(body) + 2] = t /\ IsCache(p, body, <<>>) /\ Measured(p)
         /\ s.op = "look" => Bounds(p) = Later(Bounds(body), s.ttl + MaxFill)
         /\ s.op = "open" => Bounds(p) = Bounds(body)
<1>0. IsProgram(body)
  BY DEF Measured
<1>6. /\ p = <<s>> \o body \o <<t>>
      /\ s.op = "open" \/ (s.op = "look" /\ s.to = Len(body) + 2 /\ s.ttl \in Nat)
      /\ t.op \in {"close", "keep"}
  BY DEF Encloses
<1>1. Asked(s) = {} /\ Asked(t) = {}
  BY <1>6 DEF Asked, About
<1>2. /\ IsProgram(p) /\ Len(body) \in Nat /\ Len(p) = Len(body) + 2
      /\ p[1] = s /\ p[Len(body) + 2] = t
      /\ \A i \in 1..Len(body) : p[i + 1] = body[i]
  BY <1>0, <1>1, <1>6, ThreeParts
<1>. DEFINE rest == <<>>
<1>3. IsProgram(rest) /\ Len(rest) = 0 /\ 1..Len(rest) = {}
  <2>1. IsProgram(<<>>) /\ Len(<<>>) = 0
    BY OneStep
  <2>. QED
    BY <2>1
<1>. HIDE DEF rest
<1>4. IsCache(p, body, rest)
  <2>1. Len(p) = Len(body) + 2 + Len(rest)
    BY <1>2, <1>3
  <2>2. p[1].op = "open" \/ (p[1].op = "look" /\ p[1].to = Len(p) /\ p[1].ttl \in Nat)
    BY <1>2, <1>6
  <2>3. p[Len(body) + 2].op \in {"close", "keep"}
    BY <1>2, <1>6
  <2>. QED
    BY <2>1, <2>2, <2>3, <1>2, <1>3 DEF IsCache
<1>5. /\ Measured(p)
      /\ s.op = "look" => Bounds(p) = Later(Bounds(body), s.ttl + MaxFill)
      /\ s.op = "open" => Bounds(p) = Bounds(body)
  BY <1>0, <1>2, <1>4, CacheMeasured
<1>. QED
  BY <1>2, <1>4, <1>5 DEF rest

LEMMA CachedBounds ==
  ASSUME NEW key, NEW ttl \in Nat, NEW body, Measured(body)
  PROVE  /\ Bounds(Cached(key, ttl, body)) = Later(Bounds(body), ttl + MaxFill)
         /\ Bounds(Borrowed(key, ttl, body)) = Later(Bounds(body), ttl + MaxFill)
<1>. DEFINE s == [op |-> "look", key |-> key, ttl |-> ttl, to |-> Len(body) + 2]
            t1 == [op |-> "keep", key |-> key, ttl |-> ttl]
            t2 == [op |-> "close"]
            p1 == <<s>> \o body \o <<t1>>
            p2 == <<s>> \o body \o <<t2>>
<1>1. /\ s.op = "look" /\ s.to = Len(body) + 2 /\ s.ttl = ttl
      /\ t1.op = "keep" /\ t2.op = "close"
  OBVIOUS
<1>2. Cached(key, ttl, body) = p1 /\ Borrowed(key, ttl, body) = p2
  BY DEF Cached, Borrowed
<1>3. Encloses(p1, s, body, t1) /\ Encloses(p2, s, body, t2)
  BY DEF Encloses
<1>. HIDE DEF s, t1, t2, p1, p2
<1>5. s.op = "look" => Bounds(p1) = Later(Bounds(body), s.ttl + MaxFill)
  BY <1>3, CacheIs
<1>6. s.op = "look" => Bounds(p2) = Later(Bounds(body), s.ttl + MaxFill)
  BY <1>3, CacheIs
<1>. QED
  BY <1>1, <1>2, <1>5, <1>6

LEMMA AskBounds ==
  ASSUME NEW question
  PROVE  Measured(Ask(question)) /\ Bounds(Ask(question)) = {<<Topic(question), 0>>}
<1>. DEFINE s == [op |-> "ask", queries |-> {{question}}]
            p == <<s>>
<1>1. s.op = "ask" /\ Read(s) = {question}
  BY DEF Read
<1>2. Ask(question) = p /\ p[1] = s /\ IsProgram(p) /\ Len(p) = 1 /\ DOMAIN p = {1}
  BY OneStep DEF Ask
<1>. HIDE DEF s, p
<1>3. UnitsAround(p, 1) = {}
  <2>1. Around(p, 1) = {}
    BY <1>2, AroundIs
  <2>. QED
    BY <2>1 DEF UnitsAround
<1>4. Inside(p, 1) = 0 /\ IsFiniteSet(UnitsAround(p, 1))
  BY <1>3, FS_EmptySet DEF Inside
<1>5. Measured(p)
  BY <1>1, <1>2, <1>4 DEF Measured
<1>6. \A b : b \in Bounds(p) <=> b = <<Topic(question), 0>>
  BY <1>1, <1>2, <1>4, BoundsAre
<1>. QED
  BY <1>2, <1>5, <1>6

\* ... keeps to its time, if it is the one all others have.
LEMMA CacheKeepsTime ==
  ASSUME NEW s, NEW body, NEW t, NEW p, p = <<s>> \o body \o <<t>>, KeepsTime(body),
         \/ s.op = "open"
         \/ /\ s.op = "look" /\ s.to = Len(body) + 2 /\ s.ttl \in Nat /\ ~Unlooked(s.key)
            /\ Never(s.key) \/ KeyBounds(s.key) = Bounds(p),
         \/ t.op = "close"
         \/ t.op = "keep" /\ Unlooked(t.key)
         \/ t.op = "keep" /\ s.op = "look" /\ t.ttl = s.ttl /\ KeyBounds(t.key) = Bounds(p)
  PROVE  KeepsTime(p)
<1>0. Measured(body) /\ IsProgram(body) /\ \A b \in Bounds(body) : b[2] \in Nat
  BY BoundsAreNumbers DEF KeepsTime, Measured
<1>. DEFINE rest == <<>>
<1>3. IsProgram(rest) /\ Len(rest) = 0
  BY OneStep
<1>5. /\ p[1] = s /\ p[Len(body) + 2] = t /\ IsCache(p, body, rest) /\ Measured(p)
      /\ s.op = "look" => Bounds(p) = Later(Bounds(body), s.ttl + MaxFill)
      /\ s.op = "open" => Bounds(p) = Bounds(body)
  <2>1. Encloses(p, s, body, t)
    BY DEF Encloses
  <2>. QED
    BY <1>0, <2>1, CacheIs
<1>. HIDE DEF rest
<1>6. s.op = "look" => s.ttl + MaxFill \in Nat
  BY MaxFillIs
<1>7. Allows(Bounds(p), Bounds(body))
  BY <1>0, <1>5, <1>6, SelfAllows
<1>8. \A b \in Bounds(p) : b[2] \in Nat
  BY <1>5, BoundsAreNumbers
<1>9. Allows(Bounds(p), Bounds(p))
  BY <1>8, SelfAllows
<1>. DEFINE S == Bounds(body)
<1>10. t.op = "keep" => KeepsInTime(t.key, t.ttl, S)
  BY <1>5, <1>9 DEF KeepsInTime
<1>11. Allows(S, S)
  BY <1>0, SelfAllows
<1>12. ASSUME NEW U, NEW A, IsProgram(U), Allows(A, Bounds(p))
       PROVE  \E acc : Times(acc, p, Append(U, A), Append(U, A))
  <2>. DEFINE V == Append(U, A)
  <2>1. IsProgram(V) /\ Len(V) >= 1 /\ TopOf(V) = A
    BY <1>12, Appending
  <2>. HIDE DEF V
  <2>2. Allows(A, S)
    BY <1>7, <1>12, Allowances
  <2>. HIDE DEF S
  <2>3. PICK inner : Times(inner, body, Append(V, S), Append(V, S))
    BY <2>1, <1>11 DEF KeepsTime, S
  <2>4. Widens(V, V)
    BY <2>1 DEF Widens
  <2>5. p[1].op = "look" => /\ ~Unlooked(p[1].key)
                            /\ Never(p[1].key) \/ Allows(TopOf(V), KeyBounds(p[1].key))
    BY <1>5, <1>12, <2>1
  <2>6. p[Len(body) + 2].op = "keep" =>
          KeepsInTime(p[Len(body) + 2].key, p[Len(body) + 2].ttl, S)
    BY <1>5, <1>10
  <2>7. \E acc : Times(acc, p, V, V)
    BY <1>0, <1>3, <1>5, <2>1, <2>2, <2>3, <2>4, <2>5, <2>6, CacheTimes
  <2>. QED
    BY <2>7 DEF V
<1>. QED
  BY <1>5, <1>12 DEF KeepsTime

-------------------------------------------------------------------------------
(* Kinds of programs, by the caches inside one another and the age of what they read *)

Foretold(p, d, o, early) ==
  \A n \in Nat : \A b \in Ages : n >= d /\ Covers(b, o) => Fits(p, n, b, early)
Within(p, d, o, early) == Foretold(p, d, o, early) /\ KeepsTime(p)

LEMMA AgesAre ==
  /\ \A k : Old(k) \in Ages
  /\ \A a, b, c \in Ages : Covers(a, b) /\ Covers(b, c) => Covers(a, c)
  /\ \A a \in Ages : Covers(a, a) /\ Covers(Any, a) /\ Covers(a, 0)
<1>1. \A k : Old(k) \in Ages
  BY LevelIs DEF Old, Ages
<1>. QED
  BY <1>1 DEF Covers, Ages, Any

LEMMA ForetoldMore ==
  ASSUME NEW p, NEW d \in Nat, NEW o \in Ages, NEW early, Foretold(p, d, o, early),
         NEW e \in Nat, d <= e, NEW c \in Ages, Covers(c, o)
  PROVE  Foretold(p, e, c, early)
<1>. SUFFICES ASSUME NEW n \in Nat, NEW b \in Ages, n >= e, Covers(b, c)
              PROVE  Fits(p, n, b, early)
  BY DEF Foretold
<1>1. n >= d /\ Covers(b, o)
  BY AgesAre
<1>. QED
  BY <1>1 DEF Foretold

LEMMA ForetoldBoth ==
  ASSUME NEW p, NEW q, NEW d \in Nat, NEW o \in Ages, NEW early,
         Foretold(p, d, o, early), Foretold(q, d, o, early)
  PROVE  Foretold(p \o q, d, o, early)
<1>. SUFFICES ASSUME NEW n \in Nat, NEW b \in Ages, n >= d, Covers(b, o)
              PROVE  Fits(p \o q, n, b, early)
  BY DEF Foretold
<1>1. Fits(p, n, b, early) /\ Fits(q, n, b, early)
  BY DEF Foretold
<1>. QED
  BY <1>1, BothFit

LEMMA ForetoldPair ==
  ASSUME NEW s, NEW body, NEW t, NEW d \in Nat, NEW o \in Ages, NEW c \in Ages, NEW early,
         Foretold(body, d, c, early), Covers(o, c),
         s.op = "open" \/ (s.to = Len(body) + 2 /\ Looks(s, Topics(body), o)),
         t.op = "close" \/ (t.op = "keep" /\ Keeps(t.key, t.ttl, Topics(body), c))
  PROVE  Foretold(<<s>> \o body \o <<t>>, d + 1, o, early)
<1>. DEFINE T == Topics(body)
<1>0. T = Topics(body)
  OBVIOUS
<1>. HIDE DEF T
<1>. SUFFICES ASSUME NEW n \in Nat, NEW b \in Ages, n >= d + 1, Covers(b, o)
              PROVE  Fits(<<s>> \o body \o <<t>>, n, b, early)
  BY DEF Foretold
<1>1. PICK m \in Nat : n = m + 1 /\ m >= d
  <2>1. n - 1 \in Nat /\ n = (n - 1) + 1 /\ n - 1 >= d
    OBVIOUS
  <2>. QED
    BY <2>1
<1>2. Fits(body, m, c, early)
  BY <1>1, AgesAre DEF Foretold
<1>3. Covers(b, c)
  BY AgesAre
<1>4. s.op = "open" \/ (s.to = Len(body) + 2 /\ Looks(s, T, b))
  BY <1>0, AgesAre DEF Looks
<1>5. t.op = "close" \/ (t.op = "keep" /\ Keeps(t.key, t.ttl, T, c))
  BY <1>0
<1>6. Fits(<<s>> \o body \o <<t>>, m + 1, b, early)
  BY <1>0, <1>2, <1>3, <1>4, <1>5, PairFits
<1>. QED
  BY <1>1, <1>6

LEMMA WithinMore ==
  ASSUME NEW p, NEW d \in Nat, NEW o \in Ages, NEW early, Within(p, d, o, early),
         NEW e \in Nat, d <= e, NEW c \in Ages, Covers(c, o)
  PROVE  Within(p, e, c, early)
<1>1. Foretold(p, d, o, early)
  BY DEF Within
<1>2. Foretold(p, e, c, early)
  BY <1>1, ForetoldMore
<1>. QED
  BY <1>2 DEF Within

LEMMA WithinBoth ==
  ASSUME NEW p, NEW q, NEW d \in Nat, NEW o \in Ages, NEW early,
         Within(p, d, o, early), Within(q, d, o, early)
  PROVE  Within(p \o q, d, o, early)
<1>1. Foretold(p, d, o, early) /\ Foretold(q, d, o, early) /\ KeepsTime(p) /\ KeepsTime(q)
  BY DEF Within
<1>2. Foretold(p \o q, d, o, early)
  BY <1>1, ForetoldBoth
<1>3. KeepsTime(p \o q)
  BY <1>1, KeepsTimeBoth
<1>. QED
  BY <1>2, <1>3 DEF Within

LEMMA UnlookedIs == ASSUME NEW k, Unlooked(k) PROVE Old(k) = Any /\ ~Never(k)
BY DEF Unlooked, UnlookedKeys, Old, Never, BoardKeys

\* What Programs makes of a body: looked for and kept, ...
LEMMA WithinCached ==
  ASSUME NEW key, NEW ttl \in Nat \ {0}, NEW body, NEW d \in Nat, NEW o \in Ages,
         NEW c \in Ages, NEW early, Within(body, d, c, early), Covers(o, c),
         ~Never(key), ~Unlooked(key), Meaning(key) = Topics(body), Covers(o, Old(key)),
         KeyBounds(key) = Bounds(Cached(key, ttl, body)),
         Old(key) # Any => c # Any /\ c + ttl + MaxFill <= Old(key)
  PROVE  Within(Cached(key, ttl, body), d + 1, o, early)
<1>. DEFINE s == [op |-> "look", key |-> key, ttl |-> ttl, to |-> Len(body) + 2]
            t == [op |-> "keep", key |-> key, ttl |-> ttl]
            p == <<s>> \o body \o <<t>>
<1>1. s.op = "look" /\ s.key = key /\ s.to = Len(body) + 2 /\ s.ttl = ttl
  OBVIOUS
<1>2. t.op = "keep" /\ t.key = key /\ t.ttl = ttl
  OBVIOUS
<1>3. Cached(key, ttl, body) = p
  BY DEF Cached
<1>0. Foretold(body, d, c, early) /\ KeepsTime(body)
  BY DEF Within
<1>. HIDE DEF s, t
<1>4. Looks(s, Topics(body), o)
  BY <1>1 DEF Looks
<1>5. Keeps(t.key, t.ttl, Topics(body), c)
  BY <1>2 DEF Keeps
<1>6. Foretold(p, d + 1, o, early)
  BY <1>0, <1>1, <1>2, <1>4, <1>5, ForetoldPair
<1>7. p = <<s>> \o body \o <<t>> /\ KeyBounds(key) = Bounds(p)
  BY <1>3
<1>. HIDE DEF p
<1>8. KeepsTime(p)
  <2>1. KeyBounds(s.key) = Bounds(p) /\ ~Unlooked(s.key) /\ s.ttl \in Nat
    BY <1>1, <1>7
  <2>2. KeyBounds(t.key) = Bounds(p) /\ t.ttl = s.ttl
    BY <1>1, <1>2, <1>7
  <2>. QED
    BY <1>0, <1>1, <1>2, <1>7, <2>1, <2>2, CacheKeepsTime
<1>. QED
  BY <1>3, <1>6, <1>8 DEF Within

\* ... kept without being looked for, ...
LEMMA WithinUnread ==
  ASSUME NEW key, NEW ttl \in Nat \ {0}, NEW body, NEW d \in Nat, NEW o \in Ages,
         NEW c \in Ages, NEW early, Within(body, d, c, early), Covers(o, c),
         Unlooked(key)
  PROVE  Within(Unread(key, ttl, body), d + 1, o, early)
<1>. DEFINE s == [op |-> "open"]
            t == [op |-> "keep", key |-> key, ttl |-> ttl]
            p == <<s>> \o body \o <<t>>
<1>1. s.op = "open" /\ t.op = "keep" /\ t.key = key /\ t.ttl = ttl
  OBVIOUS
<1>3. Unread(key, ttl, body) = p
  BY DEF Unread
<1>0. Foretold(body, d, c, early) /\ KeepsTime(body)
  BY DEF Within
<1>. HIDE DEF s, t
<1>5. Keeps(t.key, t.ttl, Topics(body), c)
  BY <1>1, UnlookedIs DEF Keeps
<1>6. Foretold(p, d + 1, o, early)
  BY <1>0, <1>1, <1>5, ForetoldPair
<1>7. p = <<s>> \o body \o <<t>>
  OBVIOUS
<1>. HIDE DEF p
<1>8. KeepsTime(p)
  BY <1>0, <1>1, <1>7, CacheKeepsTime
<1>. QED
  BY <1>3, <1>6, <1>8 DEF Within

\* ... or looked for without being kept.
LEMMA WithinBorrowed ==
  ASSUME NEW key, NEW ttl \in Nat, NEW body, NEW d \in Nat, NEW o \in Ages,
         NEW early, Within(body, d, o, early), ~Unlooked(key),
         \/ Never(key)
         \/ /\ Meaning(key) = Topics(body) /\ Covers(o, Old(key))
            /\ KeyBounds(key) = Bounds(Borrowed(key, ttl, body))
  PROVE  Within(Borrowed(key, ttl, body), d + 1, o, early)
<1>. DEFINE s == [op |-> "look", key |-> key, ttl |-> ttl, to |-> Len(body) + 2]
            t == [op |-> "close"]
            p == <<s>> \o body \o <<t>>
<1>1. /\ s.op = "look" /\ s.key = key /\ s.to = Len(body) + 2 /\ s.ttl = ttl
      /\ t.op = "close"
  OBVIOUS
<1>3. Borrowed(key, ttl, body) = p
  BY DEF Borrowed
<1>0. Foretold(body, d, o, early) /\ KeepsTime(body)
  BY DEF Within
<1>. HIDE DEF s, t
<1>4. Looks(s, Topics(body), o)
  BY <1>1 DEF Looks
<1>5. Covers(o, o)
  BY AgesAre
<1>6. Foretold(p, d + 1, o, early)
  BY <1>0, <1>1, <1>4, <1>5, ForetoldPair
<1>7. p = <<s>> \o body \o <<t>> /\ (Never(key) \/ KeyBounds(key) = Bounds(p))
  BY <1>3
<1>. HIDE DEF p
<1>8. KeepsTime(p)
  BY <1>0, <1>1, <1>7, CacheKeepsTime
<1>. QED
  BY <1>3, <1>6, <1>8 DEF Within

LEMMA ForetoldIsProgram ==
  ASSUME NEW p, NEW d \in Nat, NEW o \in Ages, NEW early, Foretold(p, d, o, early)
  PROVE  IsProgram(p)
<1>1. Any \in Ages /\ d >= d /\ Covers(Any, o)
  BY AgesAre DEF Ages
<1>2. Fits(p, d, Any, early)
  BY <1>1 DEF Foretold
<1>. QED
  BY <1>2 DEF Fits

LEMMA WithinIsProgram ==
  ASSUME NEW p, NEW d \in Nat, NEW o \in Ages, NEW early, Within(p, d, o, early)
  PROVE  IsProgram(p) /\ Measured(p)
BY ForetoldIsProgram DEF Within, KeepsTime

\* Redis hides what is asked, and adds nothing to it.
LEMMA TopicsOfCached ==
  ASSUME NEW key, NEW ttl, NEW body, IsProgram(body)
  PROVE  /\ Topics(Cached(key, ttl, body)) = Topics(body)
         /\ Topics(Unread(key, ttl, body)) = Topics(body)
<1>. DEFINE s == [op |-> "look", key |-> key, ttl |-> ttl, to |-> Len(body) + 2]
            s2 == [op |-> "open"]
            t == [op |-> "keep", key |-> key, ttl |-> ttl]
<1>1. s.op = "look" /\ s2.op = "open" /\ t.op = "keep"
  OBVIOUS
<1>2. /\ Cached(key, ttl, body) = <<s>> \o body \o <<t>>
      /\ Unread(key, ttl, body) = <<s2>> \o body \o <<t>>
  BY DEF Cached, Unread
<1>. HIDE DEF s, s2, t
<1>3. Asked(s) = {} /\ Asked(s2) = {} /\ Asked(t) = {}
  BY <1>1 DEF Asked, About
<1>4. Topics(<<s>> \o body \o <<t>>) = Topics(body)
  BY <1>3, ThreeParts
<1>5. Topics(<<s2>> \o body \o <<t>>) = Topics(body)
  BY <1>3, ThreeParts
<1>. QED
  BY <1>2, <1>4, <1>5

(* What asks only; what takes the trading dates or prices from redis; what takes the volume
   of the exchanges; what the boards do; what has answers in it of which the age is not
   told, one or more inside another. *)
Simple(p, early)  == Within(p, 0, 0, early)
Dated(p, early)   == Within(p, 1, Level, early)
Volumed(p, early) == Within(p, 2, 2 * Level, early)
OnBoard(p, early) == Within(p, 3, 3 * Level, early)
Timeless(p, early) == Within(p, 1, Any, early)
Nested(p, early)  == Within(p, 2, Any, early)
Served(p, early)  == Foretold(p, 3, Any, early) /\ InTime(p)

LEMMA LevelsAre ==
  /\ 0 \in Ages /\ Any \in Ages /\ Level \in Ages /\ 2 * Level \in Ages /\ 3 * Level \in Ages
  /\ Covers(Level, 0) /\ Covers(2 * Level, Level) /\ Covers(3 * Level, 2 * Level)
  /\ \A o \in Ages : Covers(Any, o) /\ Covers(o, 0)
BY LevelIs DEF Ages, Covers, Any

LEMMA AllKinds ==
  ASSUME NEW p, NEW early
  PROVE  /\ Simple(p, early) => Dated(p, early) /\ Timeless(p, early)
         /\ Dated(p, early) => Volumed(p, early) /\ Timeless(p, early)
         /\ Volumed(p, early) => OnBoard(p, early)
         /\ OnBoard(p, early) => Served(p, early)
         /\ Timeless(p, early) => Nested(p, early)
         /\ Nested(p, early) => Served(p, early)
<1>1. /\ Simple(p, early) => Dated(p, early) /\ Timeless(p, early)
      /\ Dated(p, early) => Volumed(p, early) /\ Timeless(p, early)
      /\ Volumed(p, early) => OnBoard(p, early)
      /\ Timeless(p, early) => Nested(p, early)
      /\ OnBoard(p, early) => Within(p, 3, Any, early)
      /\ Nested(p, early) => Within(p, 3, Any, early)
  BY LevelsAre, WithinMore DEF Simple, Dated, Volumed, OnBoard, Timeless, Nested
<1>2. Within(p, 3, Any, early) => Served(p, early)
  BY KeptTimeIsInTime DEF Within, Served
<1>. QED
  BY <1>1, <1>2

LEMMA SimpleBoth ==
  ASSUME NEW p, NEW q, NEW early, Simple(p, early), Simple(q, early)
  PROVE  Simple(p \o q, early)
BY LevelsAre, WithinBoth DEF Simple
LEMMA DatedBoth ==
  ASSUME NEW p, NEW q, NEW early, Dated(p, early), Dated(q, early)
  PROVE  Dated(p \o q, early)
BY LevelsAre, WithinBoth DEF Dated
LEMMA VolumedBoth ==
  ASSUME NEW p, NEW q, NEW early, Volumed(p, early), Volumed(q, early)
  PROVE  Volumed(p \o q, early)
BY LevelsAre, WithinBoth DEF Volumed
LEMMA TimelessBoth ==
  ASSUME NEW p, NEW q, NEW early, Timeless(p, early), Timeless(q, early)
  PROVE  Timeless(p \o q, early)
BY LevelsAre, WithinBoth DEF Timeless

LEMMA SimpleThree ==
  ASSUME NEW p, NEW q, NEW r, NEW early, Simple(p, early), Simple(q, early), Simple(r, early)
  PROVE  Simple(p \o q \o r, early)
<1>1. Simple(p \o q, early)
  BY SimpleBoth
<1>. QED
  BY <1>1, SimpleBoth
LEMMA DatedThree ==
  ASSUME NEW p, NEW q, NEW r, NEW early, Dated(p, early), Dated(q, early), Dated(r, early)
  PROVE  Dated(p \o q \o r, early)
<1>1. Dated(p \o q, early)
  BY DatedBoth
<1>. QED
  BY <1>1, DatedBoth
LEMMA VolumedThree ==
  ASSUME NEW p, NEW q, NEW r, NEW early, Volumed(p, early), Volumed(q, early), Volumed(r, early)
  PROVE  Volumed(p \o q \o r, early)
<1>1. Volumed(p \o q, early)
  BY VolumedBoth
<1>. QED
  BY <1>1, VolumedBoth

LEMMA KindsArePrograms ==
  ASSUME NEW p, NEW early, \/ Simple(p, early) \/ Dated(p, early) \/ Volumed(p, early)
                           \/ OnBoard(p, early) \/ Timeless(p, early) \/ Nested(p, early)
                           \/ Served(p, early)
  PROVE  IsProgram(p) /\ Measured(p)
BY LevelsAre, ForetoldIsProgram
   DEF Within, KeepsTime, InTime, Simple, Dated, Volumed, OnBoard, Timeless, Nested, Served

LEMMA StepSimple ==
  ASSUME NEW s, NEW early,
         s.op \in {"ask", "join", "refuse", "stop"} \/ (s.op = "start" /\ early)
  PROVE  Simple(<<s>>, early)
<1>1. Flat(<<s>>[1]) /\ IsProgram(<<s>>) /\ Len(<<s>>) = 1
  BY OneStep DEF Flat
<1>2. KeepsTime(<<s>>)
  BY <1>1, FlatKeepsTime
<1>. SUFFICES ASSUME NEW n \in Nat, NEW o \in Ages
              PROVE  Fits(<<s>>, n, o, early)
  BY <1>2 DEF Simple, Within, Foretold
<1>. QED
  BY ReadingFits, RefusalFits

\* The steps that ask something, ...
LEMMA AllSimple ==
  ASSUME NEW early
  PROVE  /\ \A question : Simple(Ask(question), early)
         /\ \A questions : /\ Simple(AskFor(questions), early)
                           /\ Simple(Together(questions), early)
                           /\ Simple(Join(questions), early)
         /\ Simple(Refuse, early) /\ Simple(Stop, early) /\ Simple(<<>>, early)
<1>1. ASSUME NEW question PROVE Simple(Ask(question), early)
  <2>. DEFINE s == [op |-> "ask", queries |-> {{question}}]
  <2>1. s.op = "ask"
    OBVIOUS
  <2>2. Ask(question) = <<s>>
    BY DEF Ask
  <2>. HIDE DEF s
  <2>. QED
    BY <2>1, <2>2, StepSimple
<1>2. ASSUME NEW questions PROVE Simple(AskFor(questions), early)
  <2>. DEFINE s == [op |-> "ask", queries |-> {questions}]
  <2>1. s.op = "ask"
    OBVIOUS
  <2>2. AskFor(questions) = <<s>>
    BY DEF AskFor
  <2>. HIDE DEF s
  <2>. QED
    BY <2>1, <2>2, StepSimple
<1>3. ASSUME NEW questions PROVE Simple(Together(questions), early)
  <2>. DEFINE s == [op |-> "ask", queries |-> {{q} : q \in questions}]
  <2>1. s.op = "ask"
    OBVIOUS
  <2>2. Together(questions) = <<s>>
    BY DEF Together
  <2>. HIDE DEF s
  <2>. QED
    BY <2>1, <2>2, StepSimple
<1>4. ASSUME NEW questions PROVE Simple(Join(questions), early)
  <2>. DEFINE s == [op |-> "join", queries |-> {{q} : q \in questions}]
  <2>1. s.op = "join"
    OBVIOUS
  <2>2. Join(questions) = <<s>>
    BY DEF Join
  <2>. HIDE DEF s
  <2>. QED
    BY <2>1, <2>2, StepSimple
<1>5. Simple(Refuse, early)
  <2>. DEFINE s == [op |-> "refuse"]
  <2>1. s.op = "refuse" /\ Refuse = <<s>>
    BY DEF Refuse
  <2>. HIDE DEF s
  <2>. QED
    BY <2>1, StepSimple
<1>6. Simple(Stop, early)
  <2>. DEFINE s == [op |-> "stop"]
  <2>1. s.op = "stop" /\ Stop = <<s>>
    BY DEF Stop
  <2>. HIDE DEF s
  <2>. QED
    BY <2>1, StepSimple
<1>7. Simple(<<>>, early)
  <2>1. IsProgram(<<>>) /\ Len(<<>>) = 0
    BY OneStep
  <2>2. KeepsTime(<<>>)
    BY <2>1, FlatKeepsTime
  <2>. QED
    BY <2>2, EmptyFits DEF Simple, Within, Foretold
<1>. QED
  BY <1>1, <1>2, <1>3, <1>4, <1>5, <1>6, <1>7

\* ... and those of the ratings that start queries early or share what others use.
LEMMA EarlySimple ==
  ASSUME NEW early, early
  PROVE  \A questions : Simple(Start(questions), early)
<1>. SUFFICES ASSUME NEW questions PROVE Simple(Start(questions), early)
  OBVIOUS
<1>. DEFINE s == [op |-> "start", queries |-> {{q} : q \in questions}]
<1>1. s.op = "start"
  OBVIOUS
<1>2. Start(questions) = <<s>>
  BY DEF Start
<1>. HIDE DEF s
<1>. QED
  BY <1>1, <1>2, StepSimple

LEMMA AllDated ==
  ASSUME NEW early
  PROVE  /\ \A question : Dated(Ask(question), early)
         /\ \A questions : Dated(Together(questions), early)
         /\ Dated(Refuse, early) /\ Dated(<<>>, early)
BY AllSimple, AllKinds

-------------------------------------------------------------------------------
(* The boards *)

LEMMA BoardMeaning ==
  ASSUME NEW k, k[1] \in BoardKeys
  PROVE  /\ Meaning(k) = Topics(BoardKept(k)) /\ KeyBounds(k) = Bounds(BoardKept(k))
         /\ ~Never(k) /\ ~Unlooked(k)
<1>1. Kept(k) = BoardKept(k)
  BY DEF Kept, BoardKeys, PlainKeys, DayKeys, HaftHourKeys, HourKeys, WeekKeys
<1>2. ~Never(k) /\ ~Unlooked(k)
  BY DEF BoardKeys, Never, Unlooked, UnlookedKeys
<1>. QED
  BY <1>1, <1>2 DEF Meaning, KeyBounds

LEMMA DatesAskNothing ==
  ASSUME NEW table
  PROVE  Topics(stockSessionDate(table)) = {} /\ Topics(marketSessionDate(table)) = {}
<1>. DEFINE a == Ask(<<"dates", table, "stock">>)
            b == Ask(<<"lastYear", table>>)
            c == Ask(<<"firstDateYear", table>>)
            d == Ask(<<"dates", table, "market">>)
            k == <<"SessionDate", table, "date">>
<1>1. Topics(a) = {} /\ Topics(b) = {} /\ Topics(c) = {} /\ Topics(d) = {}
  BY TopicsOfStep DEF Ask, Asked, About
<1>2. IsProgram(a) /\ IsProgram(b) /\ IsProgram(c) /\ IsProgram(d) /\ IsProgram(a \o b)
  <2>1. Simple(a, TRUE) /\ Simple(b, TRUE) /\ Simple(c, TRUE) /\ Simple(d, TRUE)
    BY AllSimple
  <2>. HIDE DEF a, b, c, d
  <2>2. Simple(a \o b, TRUE)
    BY <2>1, SimpleBoth
  <2>. QED
    BY <2>1, <2>2, KindsArePrograms
<1>3. /\ stockSessionDate(table) = Cached(k, Default, a \o b \o c)
      /\ marketSessionDate(table) = Cached(k, Default, d)
  BY DEF stockSessionDate, marketSessionDate
<1>. HIDE DEF a, b, c, d
<1>4. Topics(a \o b \o c) = {} /\ IsProgram(a \o b \o c)
  BY <1>1, <1>2, TopicsOfBoth, Catenation
<1>. QED
  BY <1>1, <1>2, <1>3, <1>4, TopicsOfCached

LEMMA DatesFit ==
  ASSUME NEW table, NEW early
  PROVE  Dated(stockSessionDate(table), early) /\ Dated(marketSessionDate(table), early)
<1>. DEFINE k == <<"SessionDate", table, "date">>
            three ==    Ask(<<"dates", table, "stock">>)
                     \o Ask(<<"lastYear", table>>)
                     \o Ask(<<"firstDateYear", table>>)
            one == Ask(<<"dates", table, "market">>)
<1>1. stockSessionDate(table) = Cached(k, Default, three)
      /\ marketSessionDate(table) = Cached(k, Default, one)
  BY DEF stockSessionDate, marketSessionDate
<1>2. Simple(three, early) /\ Simple(one, early)
  BY AllSimple, SimpleBoth
<1>3. Topics(Ask(<<"dates", table, "stock">>)) = {}
      /\ Topics(Ask(<<"lastYear", table>>)) = {}
      /\ Topics(Ask(<<"firstDateYear", table>>)) = {} /\ Topics(one) = {}
  BY TopicsOfStep DEF Ask, Asked, About
<1>4. Topics(three) = {}
  <2>1. /\ IsProgram(Ask(<<"dates", table, "stock">>)) /\ IsProgram(Ask(<<"lastYear", table>>))
        /\ IsProgram(Ask(<<"firstDateYear", table>>))
        /\ IsProgram(Ask(<<"dates", table, "stock">>) \o Ask(<<"lastYear", table>>))
    BY AllSimple, SimpleBoth, KindsArePrograms
  <2>. QED
    BY <2>1, <1>3, TopicsOfBoth
<1>9. Default \in Nat
  BY LifetimesAre DEF Default
<1>10. Bounds(three) = {<<<<"dates", table>>, 0>>} /\ Bounds(one) = {<<<<"dates", table>>, 0>>}
       /\ Measured(three) /\ Measured(one)
  <2>. DEFINE a == Ask(<<"dates", table, "stock">>)
              b == Ask(<<"lastYear", table>>)
              c == Ask(<<"firstDateYear", table>>)
  <2>1. /\ Measured(a) /\ Bounds(a) = {<<<<"dates", table>>, 0>>}
        /\ Measured(b) /\ Bounds(b) = {<<<<"dates", table>>, 0>>}
        /\ Measured(c) /\ Bounds(c) = {<<<<"dates", table>>, 0>>}
        /\ Measured(one) /\ Bounds(one) = {<<<<"dates", table>>, 0>>}
    BY AskBounds DEF Topic
  <2>2. three = a \o b \o c
    OBVIOUS
  <2>. HIDE DEF a, b, c, one, three
  <2>3. Measured(a \o b) /\ Bounds(a \o b) = {<<<<"dates", table>>, 0>>}
    BY <2>1, BothMeasured
  <2>4. Measured(three) /\ Bounds(three) = {<<<<"dates", table>>, 0>>}
    BY <2>1, <2>2, <2>3, BothMeasured
  <2>. QED
    BY <2>1, <2>4
<1>5. /\ Kept(k) = Cached(k, Default, one) /\ Meaning(k) = Topics(Cached(k, Default, one))
      /\ ~Never(k) /\ ~Unlooked(k) /\ Old(k) = Level
  BY DEF Meaning, Kept, marketSessionDate, Never, Unlooked, UnlookedKeys, Old
<1>6. Default \in Nat \ {0} /\ 0 + Default + MaxFill <= Level /\ Level # Any /\ 0 # Any
  BY LifetimesAre, MaxFillIs DEF Level, Default, Any
<1>. HIDE DEF k, three, one
<1>7. Covers(Level, Level) /\ Covers(Level, 0) /\ Level \in Ages /\ 0 \in Ages
  BY LevelsAre, AgesAre
<1>11. Meaning(k) = {} /\ KeyBounds(k) = Later(Bounds(one), Default + MaxFill)
  <2>1. IsProgram(one)
    BY <1>10 DEF Measured
  <2>. QED
    BY <2>1, <1>3, <1>5, <1>9, <1>10, TopicsOfCached, CachedBounds DEF KeyBounds
<1>12. \A body : Measured(body) /\ Bounds(body) = Bounds(one)
         => KeyBounds(k) = Bounds(Cached(k, Default, body))
  BY <1>9, <1>11, CachedBounds
<1>8. \A body : Simple(body, early) /\ Topics(body) = {} /\ Measured(body)
                  /\ Bounds(body) = Bounds(one)
        => Within(Cached(k, Default, body), 0 + 1, Level, early)
  BY <1>5, <1>6, <1>7, <1>11, <1>12, WithinCached DEF Simple
<1>. QED
  BY <1>1, <1>2, <1>3, <1>4, <1>8, <1>10 DEF Dated

LEMMA BoardCached ==
  ASSUME NEW k, k[1] \in BoardKeys \ {"TickerPrice", "ExchangeVolume"},
         NEW ttl \in {Minute, FiveMinutes, Default}, NEW body, NEW early, Volumed(body, early),
         BoardKept(k) = Cached(k, ttl, body)
  PROVE  OnBoard(Cached(k, ttl, body), early)
<1>1. Meaning(k) = Topics(body) /\ ~Never(k) /\ ~Unlooked(k)
      /\ KeyBounds(k) = Bounds(Cached(k, ttl, body))
  BY BoardMeaning, KindsArePrograms, TopicsOfCached
<1>2. Old(k) = 3 * Level
  BY DEF Old, BoardKeys
<1>3. ttl \in Nat \ {0} /\ ttl <= HaftHour
  BY LifetimesAre DEF Default
<1>4. 2 * Level + ttl + MaxFill <= 3 * Level /\ 2 * Level # Any
  BY <1>3, LifetimesAre, MaxFillIs DEF Level, Any
<1>5. Covers(3 * Level, 3 * Level) /\ Covers(3 * Level, 2 * Level) /\ 2 * Level \in Ages
      /\ 3 * Level \in Ages
  BY LevelsAre, AgesAre
<1>6. Within(body, 2, 2 * Level, early)
  BY DEF Volumed
<1>. DEFINE two == 2 * Level
            three == 3 * Level
<1>7. two = 2 * Level /\ three = 3 * Level
  OBVIOUS
<1>. HIDE DEF two, three
<1>8. Within(Cached(k, ttl, body), 2 + 1, three, early)
  BY <1>1, <1>2, <1>3, <1>4, <1>5, <1>6, <1>7, WithinCached
<1>. QED
  BY <1>7, <1>8 DEF OnBoard

LEMMA BoardUnread ==
  ASSUME NEW k, Unlooked(k), NEW body, NEW early, Volumed(body, early)
  PROVE  OnBoard(Unread(k, Default, body), early)
<1>1. Default \in Nat \ {0}
  BY LifetimesAre DEF Default
<1>. DEFINE two == 2 * Level
            three == 3 * Level
<1>2. Covers(three, two) /\ two \in Ages /\ three \in Ages
  BY LevelsAre
<1>3. Within(body, 2, two, early)
  BY DEF Volumed
<1>. HIDE DEF two, three
<1>4. Within(Unread(k, Default, body), 2 + 1, three, early)
  BY <1>1, <1>2, <1>3, WithinUnread
<1>. QED
  BY <1>4 DEF OnBoard, three

\* What boards read from one another.
LEMMA VolumeFits ==
  ASSUME NEW by, NEW period, NEW early
  PROVE  Volumed(getExchangesVolume(by, period), early)
<1>. DEFINE k == <<"ExchangeVolume", by, period>>
            last == Ask(<<"exchangesVolume", by, period>>)
            dates == stockSessionDate("tickerTradeVND")
            body == dates \o last
<1>1. getExchangesVolume(by, period) = Cached(k, Default, body)
  BY DEF getExchangesVolume
<1>2. Dated(body, early)
  BY DatesFit, AllDated, DatedBoth
<1>3. BoardKept(k) = Cached(k, Default, body)
  BY <1>1 DEF BoardKept
<1>4. IsProgram(body)
  BY <1>2, KindsArePrograms
<1>5. /\ Meaning(k) = Topics(body) /\ KeyBounds(k) = Bounds(Cached(k, Default, body))
      /\ ~Never(k) /\ ~Unlooked(k) /\ Old(k) = 2 * Level
  BY <1>3, <1>4, BoardMeaning, TopicsOfCached DEF Old, BoardKeys
<1>6. Default \in Nat \ {0} /\ Level + Default + MaxFill <= 2 * Level /\ Level # Any
  BY LifetimesAre, MaxFillIs DEF Level, Default, Any
<1>7. Covers(2 * Level, 2 * Level) /\ Covers(2 * Level, Level) /\ Level \in Ages
      /\ 2 * Level \in Ages
  BY LevelsAre, AgesAre
<1>. DEFINE two == 2 * Level
<1>8. two = 2 * Level
  OBVIOUS
<1>. HIDE DEF k, body, two
<1>9. Within(Cached(k, Default, body), 1 + 1, two, early)
  BY <1>2, <1>5, <1>6, <1>7, <1>8, WithinCached DEF Dated
<1>. QED
  BY <1>1, <1>8, <1>9 DEF Volumed

LEMMA PriceFits ==
  ASSUME NEW early
  PROVE  Dated(getTickerPrice, early)
<1>. DEFINE k == <<"TickerPrice">>
            body == Ask(<<"tickerPrice">>)
            dates == stockSessionDate("tickerTradeVND")
<1>1. getTickerPrice = dates \o Cached(k, Default, body)
  BY DEF getTickerPrice
<1>2. Simple(body, early)
  BY AllSimple
<1>3. BoardKept(k) = Cached(k, Default, body)
  BY DEF BoardKept
<1>5. /\ Meaning(k) = Topics(body) /\ KeyBounds(k) = Bounds(Cached(k, Default, body))
      /\ ~Never(k) /\ ~Unlooked(k) /\ Old(k) = Level
  BY <1>2, <1>3, BoardMeaning, KindsArePrograms, TopicsOfCached DEF Old, BoardKeys
<1>6. Default \in Nat \ {0} /\ 0 + Default + MaxFill <= Level /\ 0 # Any
  BY LifetimesAre, MaxFillIs DEF Level, Default, Any
<1>7. Covers(Level, Level) /\ Covers(Level, 0) /\ Level \in Ages /\ 0 \in Ages
  BY LevelsAre, AgesAre
<1>. HIDE DEF k, body
<1>9. Within(Cached(k, Default, body), 0 + 1, Level, early)
  BY <1>2, <1>5, <1>6, <1>7, WithinCached DEF Simple
<1>10. Dated(Cached(k, Default, body), early)
  BY <1>9 DEF Dated
<1>. QED
  BY <1>1, <1>10, DatesFit, DatedBoth

More(p, s) == p \o <<s>>

LEMMA OneMore ==
  ASSUME NEW p, NEW s, IsProgram(p)
  PROVE  /\ IsProgram(More(p, s)) /\ Len(p) \in Nat /\ Len(More(p, s)) = Len(p) + 1
         /\ \A i \in 1..Len(p) : More(p, s)[i] = p[i]
         /\ More(p, s)[Len(p) + 1] = s
         /\ Topics(More(p, s)) = Topics(p) \cup Asked(s)
<1>. DEFINE q == <<s>>
<1>1. IsProgram(q) /\ Len(q) = 1 /\ q[1] = s /\ Topics(q) = Asked(s)
  BY OneStep, TopicsOfStep
<1>. HIDE DEF q
<1>2. /\ IsProgram(p \o q) /\ Len(p) \in Nat /\ Len(p \o q) = Len(p) + 1
      /\ \A i \in 1..Len(p) : (p \o q)[i] = p[i]
      /\ \A i \in 1..Len(q) : (p \o q)[Len(p) + i] = q[i]
  <2>1. /\ IsProgram(p \o q) /\ Len(p) \in Nat /\ Len(p \o q) = Len(p) + Len(q)
        /\ \A i \in 1..Len(p) : (p \o q)[i] = p[i]
    BY <1>1, Catenation
  <2>2. \A i \in 1..Len(q) : (p \o q)[Len(p) + i] = q[i]
    BY <1>1, Catenation
  <2>3. Len(p) + Len(q) = Len(p) + 1
    BY <1>1
  <2>. QED
    BY <2>1, <2>2, <2>3
<1>3. (p \o q)[Len(p) + 1] = s
  <2>1. 1 \in 1..Len(q)
    BY <1>1
  <2>. QED
    BY <2>1, <1>1, <1>2
<1>4. Topics(p \o q) = Topics(p) \cup Asked(s)
  BY <1>1, TopicsOfBoth
<1>. QED
  BY <1>2, <1>3, <1>4 DEF q, More

\* The batch on ##TOP_TABLE.
LEMMA FiveSteps ==
  ASSUME NEW a, NEW b, NEW c, NEW d, NEW e
  PROVE  LET p == <<a>> \o <<b>> \o <<c>> \o <<d>> \o <<e>>
         IN /\ IsProgram(p) /\ Len(p) = 5
            /\ p[1] = a /\ p[2] = b /\ p[3] = c /\ p[4] = d /\ p[5] = e
            /\ Topics(p) = Asked(a) \cup Asked(b) \cup Asked(c) \cup Asked(d) \cup Asked(e)
<1>. DEFINE p1 == <<a>>
            p2 == More(p1, b)
            p3 == More(p2, c)
            p4 == More(p3, d)
            p5 == More(p4, e)
<1>1. IsProgram(p1) /\ Len(p1) = 1 /\ p1[1] = a /\ Topics(p1) = Asked(a)
  BY OneStep, TopicsOfStep
<1>. HIDE DEF p1
<1>2. /\ IsProgram(p2) /\ Len(p2) = 2
      /\ p2[1] = a /\ p2[2] = b
      /\ Topics(p2) = Asked(a) \cup Asked(b)
  <2>1. 1 \in 1..Len(p1) /\ Len(p1) + 1 = 2
    BY <1>1
  <2>2. IsProgram(p2)
    BY <1>1, OneMore
  <2>6. Len(p2) = 2
    BY <1>1, OneMore
  <2>5. p2[Len(p1) + 1] = b
    BY <1>1, OneMore
  <2>3. p2[1] = a
    <3>1. \A i \in 1..Len(p1) : p2[i] = p1[i]
      BY <1>1, OneMore
    <3>. QED
      BY <3>1, <2>1, <1>1
  <2>4. Topics(p2) = Topics(p1) \cup Asked(b)
    BY <1>1, OneMore
  <2>. QED
    BY <1>1, <2>1, <2>2, <2>3, <2>4, <2>5, <2>6
<1>. HIDE DEF p2
<1>3. /\ IsProgram(p3) /\ Len(p3) = 3
      /\ p3[1] = a /\ p3[2] = b /\ p3[3] = c
      /\ Topics(p3) = Asked(a) \cup Asked(b) \cup Asked(c)
  <2>1. 1 \in 1..Len(p2) /\ 2 \in 1..Len(p2) /\ Len(p2) + 1 = 3
    BY <1>2
  <2>2. IsProgram(p3)
    BY <1>2, OneMore
  <2>6. Len(p3) = Len(p2) + 1
    <3>1. IsProgram(p2)
      BY <1>2
    <3>. QED
      BY <3>1, OneMore
  <2>5. p3[Len(p2) + 1] = c
    <3>1. IsProgram(p2)
      BY <1>2
    <3>. QED
      BY <3>1, OneMore
  <2>3. p3[1] = a /\ p3[2] = b
    <3>1. \A i \in 1..Len(p2) : p3[i] = p2[i]
      BY <1>2, OneMore
    <3>. QED
      BY <3>1, <2>1, <1>2
  <2>4. Topics(p3) = Topics(p2) \cup Asked(c)
    BY <1>2, OneMore
  <2>. QED
    BY <1>2, <2>1, <2>2, <2>3, <2>4, <2>5, <2>6
<1>. HIDE DEF p3
<1>4. /\ IsProgram(p4) /\ Len(p4) = 4
      /\ p4[1] = a /\ p4[2] = b /\ p4[3] = c /\ p4[4] = d
      /\ Topics(p4) = Asked(a) \cup Asked(b) \cup Asked(c) \cup Asked(d)
  <2>1. 1 \in 1..Len(p3) /\ 2 \in 1..Len(p3) /\ 3 \in 1..Len(p3) /\ Len(p3) + 1 = 4
    BY <1>3
  <2>2. IsProgram(p4)
    BY <1>3, OneMore
  <2>6. Len(p4) = Len(p3) + 1
    <3>1. IsProgram(p3)
      BY <1>3
    <3>. QED
      BY <3>1, OneMore
  <2>5. p4[Len(p3) + 1] = d
    <3>1. IsProgram(p3)
      BY <1>3
    <3>. QED
      BY <3>1, OneMore
  <2>3. p4[1] = a /\ p4[2] = b /\ p4[3] = c
    <3>1. \A i \in 1..Len(p3) : p4[i] = p3[i]
      BY <1>3, OneMore
    <3>. QED
      BY <3>1, <2>1, <1>3
  <2>4. Topics(p4) = Topics(p3) \cup Asked(d)
    BY <1>3, OneMore
  <2>. QED
    BY <1>3, <2>1, <2>2, <2>3, <2>4, <2>5, <2>6
<1>. HIDE DEF p4
<1>5. /\ IsProgram(p5) /\ Len(p5) = 5
      /\ p5[1] = a /\ p5[2] = b /\ p5[3] = c /\ p5[4] = d /\ p5[5] = e
      /\ Topics(p5) = Asked(a) \cup Asked(b) \cup Asked(c) \cup Asked(d) \cup Asked(e)
  <2>1. 1 \in 1..Len(p4) /\ 2 \in 1..Len(p4) /\ 3 \in 1..Len(p4) /\ 4 \in 1..Len(p4) /\ Len(p4) + 1 = 5
    BY <1>4
  <2>2. IsProgram(p5)
    BY <1>4, OneMore
  <2>6. Len(p5) = Len(p4) + 1
    <3>1. IsProgram(p4)
      BY <1>4
    <3>. QED
      BY <3>1, OneMore
  <2>5. p5[Len(p4) + 1] = e
    <3>1. IsProgram(p4)
      BY <1>4
    <3>. QED
      BY <3>1, OneMore
  <2>3. p5[1] = a /\ p5[2] = b /\ p5[3] = c /\ p5[4] = d
    <3>1. \A i \in 1..Len(p4) : p5[i] = p4[i]
      BY <1>4, OneMore
    <3>. QED
      BY <3>1, <2>1, <1>4
  <2>4. Topics(p5) = Topics(p4) \cup Asked(e)
    BY <1>4, OneMore
  <2>. QED
    BY <1>4, <2>1, <2>2, <2>3, <2>4, <2>5, <2>6
<1>. HIDE DEF p5
<1>. QED
  BY <1>5 DEF p1, p2, p3, p4, p5, More

LEMMA BatchFits ==
  ASSUME NEW s1, NEW s2, NEW s3, NEW s4, NEW s5, NEW n \in Nat, NEW o \in Ages, NEW early,
         s1.op = "create", s2.op = "insert", s3.op = "insert", s4.op = "insert", s5.op = "drop"
  PROVE  Fits(<<s1>> \o <<s2>> \o <<s3>> \o <<s4>> \o <<s5>>, n, o, early)
<1>. DEFINE p == <<s1>> \o <<s2>> \o <<s3>> \o <<s4>> \o <<s5>>
<1>0. Asked(s1) = {} /\ Asked(s5) = {}
  BY DEF Asked, About
<1>1. /\ IsProgram(p) /\ Len(p) = 5
      /\ p[1] = s1 /\ p[2] = s2 /\ p[3] = s3 /\ p[4] = s4 /\ p[5] = s5
      /\ Topics(p) = Asked(s2) \cup Asked(s3) \cup Asked(s4)
  <2>1. /\ IsProgram(p) /\ Len(p) = 5
        /\ p[1] = s1 /\ p[2] = s2 /\ p[3] = s3 /\ p[4] = s4 /\ p[5] = s5
    BY FiveSteps
  <2>2. Topics(p) = Asked(s1) \cup Asked(s2) \cup Asked(s3) \cup Asked(s4) \cup Asked(s5)
    BY FiveSteps
  <2>. HIDE DEF p
  <2>. QED
    BY <1>0, <2>1, <2>2
<1>. HIDE DEF p
<1>. SUFFICES ASSUME NEW U, NEW A, NEW b \in Ages, IsStack(U)
              PROVE  \E acc : Runs(acc, p, U, A, b, n, early)
  BY <1>1 DEF Fits, p
<1>. DEFINE first == Begun(U, A, b)
            last == Begun(U, A \cup Topics(p), b)
            Filled(rows) == [stack |-> first.stack, table |-> TRUE, rows |-> rows]
            a2 == Filled({})
            a3 == Filled(Asked(s2))
            a4 == Filled(Asked(s2) \cup Asked(s3))
            a5 == Filled(Asked(s2) \cup Asked(s3) \cup Asked(s4))
            acc == [i \in 1..6 |-> CASE i = 1 -> first [] i = 2 -> a2 [] i = 3 -> a3
                                     [] i = 4 -> a4 [] i = 5 -> a5 [] i = 6 -> last]
<1>2. /\ Len(U) \in Nat /\ Len(first.stack) = Len(U) + 1 /\ Len(last.stack) = Len(U) + 1
      /\ IsStack(first.stack) /\ IsStack(last.stack) /\ first.table = FALSE
  BY BegunIs
<1>3. last = Rest(Plus(first.stack, Topics(p)))
  BY BegunTopics
<1>4. /\ a2.stack = first.stack /\ a2.table = TRUE /\ a2.rows = {}
      /\ a3.stack = first.stack /\ a3.table = TRUE /\ a3.rows = Asked(s2)
      /\ a4.stack = first.stack /\ a4.table = TRUE /\ a4.rows = Asked(s2) \cup Asked(s3)
      /\ a5.stack = first.stack /\ a5.table = TRUE /\ a5.rows = Topics(p)
  BY <1>1
<1>5. /\ a3 = [stack |-> a2.stack, table |-> TRUE, rows |-> a2.rows \cup Asked(s2)]
      /\ a4 = [stack |-> a3.stack, table |-> TRUE, rows |-> a3.rows \cup Asked(s3)]
      /\ a5 = [stack |-> a4.stack, table |-> TRUE, rows |-> a4.rows \cup Asked(s4)]
  OBVIOUS
<1>6. a2 = [stack |-> first.stack, table |-> TRUE, rows |-> {}]
  OBVIOUS
<1>7. first = Begun(U, A, b) /\ last = Begun(U, A \cup Topics(p), b)
  OBVIOUS
<1>. HIDE DEF first, last, a2, a3, a4, a5
<1>8. /\ acc[1] = first /\ acc[2] = a2 /\ acc[3] = a3 /\ acc[4] = a4 /\ acc[5] = a5
      /\ acc[6] = last
  OBVIOUS
<1>. HIDE DEF acc
<1>9. /\ StepFits(s1, first, a2, a2, early)
      /\ StepFits(s2, a2, a3, a3, early) /\ StepFits(s3, a3, a4, a4, early)
      /\ StepFits(s4, a4, a5, a5, early)
      /\ StepFits(s5, a5, last, last, early)
  <2>1. StepFits(s1, first, a2, a2, early)
    BY <1>2, <1>6 DEF StepFits, Operations
  <2>2. /\ StepFits(s2, a2, a3, a3, early) /\ StepFits(s3, a3, a4, a4, early)
        /\ StepFits(s4, a4, a5, a5, early)
    BY <1>4, <1>5 DEF StepFits, Operations
  <2>3. StepFits(s5, a5, last, last, early)
    BY <1>3, <1>4 DEF StepFits, Operations
  <2>. QED
    BY <2>1, <2>2, <2>3
<1>10. Lands(p, 1) = 2 /\ Lands(p, 2) = 3 /\ Lands(p, 3) = 4 /\ Lands(p, 4) = 5
       /\ Lands(p, 5) = 6
  BY <1>1 DEF Lands
<1>11. 1..Len(p) = {1, 2, 3, 4, 5} /\ 1..(Len(p) + 1) = {1, 2, 3, 4, 5, 6} /\ Len(p) + 1 = 6
  BY <1>1
<1>12. ASSUME NEW i \in 1..(Len(p) + 1)
       PROVE  IsStack(acc[i].stack) /\ Len(acc[i].stack) \in 1..(Len(U) + 1 + n)
  <2>1. acc[i].stack = first.stack \/ acc[i].stack = last.stack
    BY <1>4, <1>8, <1>11
  <2>. QED
    BY <2>1, <1>2
<1>13. ASSUME NEW i \in 1..Len(p)
       PROVE  /\ Lands(p, i) \in 1..(Len(p) + 1)
              /\ StepFits(p[i], acc[i], acc[i + 1], acc[Lands(p, i)], early)
  BY <1>1, <1>8, <1>9, <1>10, <1>11
<1>14. Runs(acc, p, U, A, b, n, early)
  BY <1>7, <1>8, <1>11, <1>12, <1>13 DEF Runs
<1>. QED
  BY <1>14

LEMMA TopTableSimple ==
  ASSUME NEW time, NEW floor, NEW early
  PROVE  Simple(TopTable(time, floor), early)
<1>. DEFINE s1 == [op |-> "create"]
            s2 == [op |-> "insert", rows |-> {<<"topForeign", time, floor>>}]
            s3 == [op |-> "insert", rows |-> {<<"topProprietary", time, floor>>}]
            s4 == [op |-> "insert", rows |-> {<<"topRetail", time, floor>>}]
            s5 == [op |-> "drop"]
<1>1. /\ s1.op = "create" /\ s2.op = "insert" /\ s3.op = "insert" /\ s4.op = "insert"
      /\ s5.op = "drop"
  OBVIOUS
<1>2. TopTable(time, floor) = <<s1>> \o <<s2>> \o <<s3>> \o <<s4>> \o <<s5>>
  BY DEF TopTable, Create, Insert, ReadAndDrop
<1>. HIDE DEF s1, s2, s3, s4, s5
<1>. DEFINE p == <<s1>> \o <<s2>> \o <<s3>> \o <<s4>> \o <<s5>>
<1>3. /\ IsProgram(p) /\ Len(p) = 5
      /\ p[1] = s1 /\ p[2] = s2 /\ p[3] = s3 /\ p[4] = s4 /\ p[5] = s5
  <2>1. IsProgram(p) /\ Len(p) = 5
    BY FiveSteps
  <2>2. p[1] = s1 /\ p[2] = s2 /\ p[3] = s3 /\ p[4] = s4 /\ p[5] = s5
    BY FiveSteps
  <2>. HIDE DEF p
  <2>. QED
    BY <2>1, <2>2
<1>4. \A n \in Nat : \A o \in Ages : Fits(p, n, o, early)
  BY <1>1, BatchFits
<1>. HIDE DEF p
<1>5. \A i \in 1..Len(p) : Flat(p[i])
  <2>1. 1..Len(p) = {1, 2, 3, 4, 5}
    BY <1>3
  <2>. QED
    BY <2>1, <1>1, <1>3 DEF Flat
<1>6. KeepsTime(p)
  BY <1>3, <1>5, FlatKeepsTime
<1>7. TopTable(time, floor) = p
  BY <1>2 DEF p
<1>. QED
  BY <1>4, <1>6, <1>7 DEF Simple, Within, Foretold

LEMMA GetMarketVolatilityFits ==
  ASSUME NEW q, NEW early
  PROVE  OnBoard(getMarketVolatility(q), early)
<1>. DEFINE k == <<"MarketVolatility">>
            body ==
                 stockSessionDate("database_chisotoday")
              \o Together({<<"volatility", d>> : d \in {"latest", "previous", "week", "month", "year"}})
<1>1. getMarketVolatility(q) = Cached(k, Default, body)
  BY DEF getMarketVolatility
<1>2. Dated(body, early)
  <2>1. /\ Dated(stockSessionDate("database_chisotoday"), early)
        /\ Dated(Together({<<"volatility", d>> : d \in {"latest", "previous", "week", "month", "year"}}), early)
    BY DatesFit, AllDated
  <2>. QED
    BY <2>1, DatedBoth
<1>3. k[1] = "MarketVolatility" /\ BoardKept(k) = getMarketVolatility(q)
  BY DEF BoardKept, getMarketVolatility
<1>. HIDE DEF k, body
<1>. QED
  BY <1>1, <1>2, <1>3, AllKinds, BoardCached DEF BoardKeys

LEMMA GetMarketLiquidityFits ==
  ASSUME NEW q, NEW early
  PROVE  OnBoard(getMarketLiquidity(q), early)
<1>. DEFINE k == <<"MarketLiquidity", q.order>>
            body ==
                 stockSessionDate("tickerTradeVND")
              \o getExchangesVolume("date", 0)
              \o Ask(<<"marketLiquidity">>)
<1>1. getMarketLiquidity(q) = Cached(k, Default, body)
  BY DEF getMarketLiquidity
<1>2. Volumed(body, early)
  <2>1. /\ Volumed(stockSessionDate("tickerTradeVND"), early)
        /\ Volumed(getExchangesVolume("date", 0), early)
        /\ Volumed(Ask(<<"marketLiquidity">>), early)
    BY VolumeFits, DatesFit, AllDated, AllKinds
  <2>. QED
    BY <2>1, VolumedThree
<1>3. k[1] = "MarketLiquidity" /\ BoardKept(k) = getMarketLiquidity(q)
  BY DEF BoardKept, getMarketLiquidity
<1>. HIDE DEF k, body
<1>. QED
  BY <1>1, <1>2, <1>3, AllKinds, BoardCached DEF BoardKeys

LEMMA GetIndustryFits ==
  ASSUME NEW q, NEW early
  PROVE  OnBoard(getIndustry(q), early)
<1>. DEFINE k == <<"Industry", q.ex>>
            body ==
                 stockSessionDate("ratioInday")
              \o Ask(<<"industryChanges", q.ex>>)
              \o Ask(<<"industryBreadth", q.ex, "latest">>)
              \o Ask(<<"industryBreadth", q.ex, "previous">>)
              \o Ask(<<"buySellPressure", q.ex>>)
<1>1. getIndustry(q) = Cached(k, Minute, body)
  BY DEF getIndustry
<1>2. Dated(body, early)
  <2>1. /\ Dated(stockSessionDate("ratioInday"), early)
        /\ Dated(Ask(<<"industryChanges", q.ex>>), early)
        /\ Dated(Ask(<<"industryBreadth", q.ex, "latest">>), early)
        /\ Dated(Ask(<<"industryBreadth", q.ex, "previous">>), early)
        /\ Dated(Ask(<<"buySellPressure", q.ex>>), early)
    BY DatesFit, AllDated
  <2>2. Dated(stockSessionDate("ratioInday") \o Ask(<<"industryChanges", q.ex>>) \o Ask(<<"industryBreadth", q.ex, "latest">>), early)
    BY <2>1, DatedThree
  <2>. QED
    BY <2>1, <2>2, DatedThree
<1>3. k[1] = "Industry" /\ BoardKept(k) = getIndustry(q)
  BY DEF BoardKept, getIndustry
<1>. HIDE DEF k, body
<1>. QED
  BY <1>1, <1>2, <1>3, AllKinds, BoardCached DEF BoardKeys

LEMMA GetNewsFits ==
  ASSUME NEW q, NEW early
  PROVE  OnBoard(getNews(q), early)
<1>. DEFINE k == <<"StockNews">>
            body == Ask(<<"stockNews">>)
<1>1. getNews(q) = Cached(k, Default, body)
  BY DEF getNews
<1>2. Simple(body, early)
  BY AllSimple
<1>3. k[1] = "StockNews" /\ BoardKept(k) = getNews(q)
  BY DEF BoardKept, getNews
<1>. HIDE DEF k, body
<1>. QED
  BY <1>1, <1>2, <1>3, AllKinds, BoardCached DEF BoardKeys

LEMMA GetMacroNewsFits ==
  ASSUME NEW q, NEW early
  PROVE  OnBoard(getMacroNews(q), early)
<1>. DEFINE k == <<"StockMacroNews">>
            body == Ask(<<"macroNews">>)
<1>1. getMacroNews(q) = Cached(k, Default, body)
  BY DEF getMacroNews
<1>2. Simple(body, early)
  BY AllSimple
<1>3. k[1] = "StockMacroNews" /\ BoardKept(k) = getMacroNews(q)
  BY DEF BoardKept, getMacroNews
<1>. HIDE DEF k, body
<1>. QED
  BY <1>1, <1>2, <1>3, AllKinds, BoardCached DEF BoardKeys

LEMMA GetTopROCFits ==
  ASSUME NEW q, NEW early
  PROVE  OnBoard(getTopROC(q), early)
<1>. DEFINE k == <<"TopRoc5", q.ex>>
            body ==
                 stockSessionDate(q.ex)
              \o Together({<<"topROC", q.ex, "DESC">>, <<"topROC", q.ex, "ASC">>})
<1>1. getTopROC(q) = Cached(k, Default, body)
  BY DEF getTopROC
<1>2. Dated(body, early)
  <2>1. /\ Dated(stockSessionDate(q.ex), early)
        /\ Dated(Together({<<"topROC", q.ex, "DESC">>, <<"topROC", q.ex, "ASC">>}), early)
    BY DatesFit, AllDated
  <2>. QED
    BY <2>1, DatedBoth
<1>3. k[1] = "TopRoc5" /\ BoardKept(k) = getTopROC(q)
  BY DEF BoardKept, getTopROC
<1>. HIDE DEF k, body
<1>. QED
  BY <1>1, <1>2, <1>3, AllKinds, BoardCached DEF BoardKeys

LEMMA GetTopNetForeignChangeByExchangeFits ==
  ASSUME NEW q, NEW early
  PROVE  OnBoard(getTopNetForeignChangeByExchange(q), early)
<1>. DEFINE k == <<"TopNetForeignByEx", q.ex>>
            body ==
                 stockSessionDate("BCN_netvalue")
              \o Together({<<"netForeignChange", q.ex, "DESC">>, <<"netForeignChange", q.ex, "ASC">>})
<1>1. getTopNetForeignChangeByExchange(q) = Cached(k, Default, body)
  BY DEF getTopNetForeignChangeByExchange
<1>2. Dated(body, early)
  <2>1. /\ Dated(stockSessionDate("BCN_netvalue"), early)
        /\ Dated(Together({<<"netForeignChange", q.ex, "DESC">>, <<"netForeignChange", q.ex, "ASC">>}), early)
    BY DatesFit, AllDated
  <2>. QED
    BY <2>1, DatedBoth
<1>3. k[1] = "TopNetForeignByEx" /\ BoardKept(k) = getTopNetForeignChangeByExchange(q)
  BY DEF BoardKept, getTopNetForeignChangeByExchange
<1>. HIDE DEF k, body
<1>. QED
  BY <1>1, <1>2, <1>3, AllKinds, BoardCached DEF BoardKeys

LEMMA GetStockEventsFits ==
  ASSUME NEW q, NEW early
  PROVE  OnBoard(getStockEvents(q), early)
<1>. DEFINE k == <<"StockEvents">>
            body == Ask(<<"stockEvents">>)
<1>1. getStockEvents(q) = Cached(k, Default, body)
  BY DEF getStockEvents
<1>2. Simple(body, early)
  BY AllSimple
<1>3. k[1] = "StockEvents" /\ BoardKept(k) = getStockEvents(q)
  BY DEF BoardKept, getStockEvents
<1>. HIDE DEF k, body
<1>. QED
  BY <1>1, <1>2, <1>3, AllKinds, BoardCached DEF BoardKeys

LEMMA GetMerchandisePriceFits ==
  ASSUME NEW q, NEW early
  PROVE  OnBoard(getMerchandisePrice(q), early)
<1>. DEFINE k == <<"MerchandisePrice", q.order>>
            body == Ask(<<"merchandisePrice", q.order>>)
<1>1. getMerchandisePrice(q) = Unread(k, Default, body)
  BY DEF getMerchandisePrice
<1>2. Simple(body, early)
  BY AllSimple
<1>3. Unlooked(k)
  BY DEF Unlooked, UnlookedKeys
<1>. HIDE DEF k, body
<1>. QED
  BY <1>1, <1>2, <1>3, AllKinds, BoardUnread

LEMMA MarketEvaluationFits ==
  ASSUME NEW q, NEW early
  PROVE  OnBoard(marketEvaluation(q), early)
<1>. DEFINE k == <<"MarketEvaluation">>
            body ==
                 stockSessionDate("biendong-chiso-mainweb")
              \o Ask(<<"marketEvaluation">>)
<1>1. marketEvaluation(q) = Cached(k, Default, body)
  BY DEF marketEvaluation
<1>2. Dated(body, early)
  <2>1. /\ Dated(stockSessionDate("biendong-chiso-mainweb"), early)
        /\ Dated(Ask(<<"marketEvaluation">>), early)
    BY DatesFit, AllDated
  <2>. QED
    BY <2>1, DatedBoth
<1>3. k[1] = "MarketEvaluation" /\ BoardKept(k) = marketEvaluation(q)
  BY DEF BoardKept, marketEvaluation
<1>. HIDE DEF k, body
<1>. QED
  BY <1>1, <1>2, <1>3, AllKinds, BoardCached DEF BoardKeys

LEMMA GetLiquidityContributeFits ==
  ASSUME NEW q, NEW early
  PROVE  OnBoard(getLiquidityContribute(q), early)
<1>. DEFINE k == <<"LiquidityContribute", q.type, q.order, q.ex>>
            body ==
                 stockSessionDate("TICKER_AC_CC")
              \o Ask(<<"liquidityContribute", q.type, q.order, q.ex>>)
              \o getExchangesVolume("period", q.order)
<1>1. getLiquidityContribute(q) = Cached(k, Default, body)
  BY DEF getLiquidityContribute
<1>2. Volumed(body, early)
  <2>1. /\ Volumed(stockSessionDate("TICKER_AC_CC"), early)
        /\ Volumed(Ask(<<"liquidityContribute", q.type, q.order, q.ex>>), early)
        /\ Volumed(getExchangesVolume("period", q.order), early)
    BY VolumeFits, DatesFit, AllDated, AllKinds
  <2>. QED
    BY <2>1, VolumedThree
<1>3. k[1] = "LiquidityContribute" /\ BoardKept(k) = getLiquidityContribute(q)
  BY DEF BoardKept, getLiquidityContribute
<1>. HIDE DEF k, body
<1>. QED
  BY <1>1, <1>2, <1>3, AllKinds, BoardCached DEF BoardKeys

LEMMA GetInvestorTransactionRatioFits ==
  ASSUME NEW q, NEW early
  PROVE  OnBoard(getInvestorTransactionRatio(q), early)
<1>. DEFINE k == <<"InvestorTransactionRatio">>
            body == Ask(<<"investorTransactionRatio">>)
<1>1. getInvestorTransactionRatio(q) = Cached(k, Default, body)
  BY DEF getInvestorTransactionRatio
<1>2. Simple(body, early)
  BY AllSimple
<1>3. k[1] = "InvestorTransactionRatio" /\ BoardKept(k) = getInvestorTransactionRatio(q)
  BY DEF BoardKept, getInvestorTransactionRatio
<1>. HIDE DEF k, body
<1>. QED
  BY <1>1, <1>2, <1>3, AllKinds, BoardCached DEF BoardKeys

LEMMA GetRSIFits ==
  ASSUME NEW q, NEW early
  PROVE  OnBoard(getRSI(q), early)
<1>. DEFINE k == <<"Rsi", q.ex, q.session>>
            body == Ask(<<"rsi", Floor(q.ex), q.session>>)
<1>1. getRSI(q) = Cached(k, Default, body)
  BY DEF getRSI
<1>2. Simple(body, early)
  BY AllSimple
<1>3. k[1] = "Rsi" /\ BoardKept(k) = getRSI(q)
  BY DEF BoardKept, getRSI
<1>. HIDE DEF k, body
<1>. QED
  BY <1>1, <1>2, <1>3, AllKinds, BoardCached DEF BoardKeys

LEMMA GetCashFlowValueFits ==
  ASSUME NEW q, NEW early
  PROVE  OnBoard(getCashFlowValue(q), early)
<1>. DEFINE k == <<"CashFlowValue", q.time>>
            body ==
                 getTickerPrice
              \o cashFlowSessionDate("tickerTradeVND")
              \o Ask(<<"cashFlowValue", q.time>>)
<1>1. getCashFlowValue(q) = Unread(k, Default, body)
  BY DEF getCashFlowValue
<1>2. Dated(body, early)
  <2>1. /\ Dated(getTickerPrice, early)
        /\ Dated(cashFlowSessionDate("tickerTradeVND"), early)
        /\ Dated(Ask(<<"cashFlowValue", q.time>>), early)
    BY PriceFits, DatesFit, AllDated DEF cashFlowSessionDate
  <2>. QED
    BY <2>1, DatedThree
<1>3. Unlooked(k)
  BY DEF Unlooked, UnlookedKeys
<1>. HIDE DEF k, body
<1>. QED
  BY <1>1, <1>2, <1>3, AllKinds, BoardUnread

LEMMA OnlyIfFits ==
  ASSUME NEW legal, NEW rest, NEW early
  PROVE  /\ Simple(rest, early) => Simple(OnlyIf(legal, rest), early)
         /\ Dated(rest, early) => Dated(OnlyIf(legal, rest), early)
BY AllSimple, AllDated DEF OnlyIf

LEMMA GetMarketMapFits ==
  ASSUME NEW q, NEW early
  PROVE  OnBoard(getMarketMap(q), early)
<1>. DEFINE k == <<"MarketMap", q.ex, q.map>>
            foreign == stockSessionDate("foreign") \o Ask(<<"mapForeign", Floor(q.ex)>>)
            capital == Ask(<<"lastRatioDate">>) \o Ask(<<"mapMarketCap", Floor(q.ex)>>)
            trade == Ask(<<"mapTrade", Floor(q.ex), q.map>>)
            rest == CASE q.map = 3      -> foreign
                      [] q.map = 0      -> capital
                      [] q.map \in 1..2 -> trade
                      [] OTHER          -> Refuse
            body == stockSessionDate("tickerTradeVND") \o rest
<1>1. getMarketMap(q) = Cached(k, FiveMinutes, body)
  BY DEF getMarketMap
<1>2. Dated(body, early)
  <2>1. /\ Dated(stockSessionDate("foreign"), early)
        /\ Dated(Ask(<<"mapForeign", Floor(q.ex)>>), early)
        /\ Dated(Ask(<<"lastRatioDate">>), early)
        /\ Dated(Ask(<<"mapMarketCap", Floor(q.ex)>>), early)
        /\ Dated(trade, early) /\ Dated(Refuse, early)
        /\ Dated(stockSessionDate("tickerTradeVND"), early)
    BY DatesFit, AllDated
  <2>2. Dated(foreign, early) /\ Dated(capital, early)
    BY <2>1, DatedBoth
  <2>3. rest \in {foreign, capital, trade, Refuse}
    OBVIOUS
  <2>. HIDE DEF foreign, capital, trade, rest
  <2>4. Dated(rest, early)
    BY <2>1, <2>2, <2>3
  <2>. QED
    BY <2>1, <2>4, DatedBoth
<1>3. k[1] = "MarketMap" /\ BoardKept(k) = getMarketMap(q)
  BY DEF BoardKept, getMarketMap
<1>. HIDE DEF k, body
<1>. QED
  BY <1>1, <1>2, <1>3, AllKinds, BoardCached DEF BoardKeys

LEMMA GetUpDownTickerFits ==
  ASSUME NEW q, NEW early
  PROVE  OnBoard(getUpDownTicker(q), early)
<1>. DEFINE k == <<"BienDongThiTruong", q.index>>
            rest == IF q.index \in {"VNINDEX", "VN30", "VNALL", "HNX", "HNX30", "UPCOM"}
                    THEN Ask(<<"upDownTicker", q.index>>)
                    ELSE Refuse
            body == stockSessionDate("tickerTradeVND") \o rest
<1>1. getUpDownTicker(q) = Cached(k, Default, body)
  BY DEF getUpDownTicker
<1>2. Dated(body, early)
  <2>1. Dated(stockSessionDate("tickerTradeVND"), early) /\ Dated(rest, early)
    BY DatesFit, AllDated
  <2>. QED
    BY <2>1, DatedBoth
<1>3. k[1] = "BienDongThiTruong" /\ BoardKept(k) = getUpDownTicker(q)
  BY DEF BoardKept, getUpDownTicker
<1>. HIDE DEF k, body
<1>. QED
  BY <1>1, <1>2, <1>3, AllKinds, BoardCached DEF BoardKeys

LEMMA GetLineChartFits ==
  ASSUME NEW q, NEW early
  PROVE  OnBoard(getLineChart(q), early)
<1>. DEFINE k == <<"LineChart", q.type, q.index>>
            body == stockSessionDate("indexTradeVND") \o Ask(<<"lineChart", q.type, q.index>>)
<1>1. CASE q.type = 0
  BY <1>1, AllSimple, AllKinds DEF getLineChart, getLineChartNow
<1>2. CASE q.type # 0
  <2>1. getLineChart(q) = Cached(k, Default, body)
    BY <1>2 DEF getLineChart
  <2>2. Dated(body, early)
    <3>1. Dated(stockSessionDate("indexTradeVND"), early) /\ Dated(Ask(<<"lineChart", q.type, q.index>>), early)
      BY DatesFit, AllDated
    <3>. QED
      BY <3>1, DatedBoth
  <2>3. k[1] = "LineChart" /\ BoardKept(k) = Cached(k, Default, body)
    BY DEF BoardKept
  <2>. HIDE DEF k, body
  <2>. QED
    BY <2>1, <2>2, <2>3, AllKinds, BoardCached DEF BoardKeys
<1>. QED
  BY <1>1, <1>2

LEMMA GetMarketBreadthFits ==
  ASSUME NEW q, NEW early
  PROVE  OnBoard(getMarketBreadth(q), early)
<1>. DEFINE k == <<"MarketBreadth", q.ex, q.type>>
            body == stockSessionDate("tickerTradeVND") \o Ask(<<"marketBreadth", q.ex, q.type>>)
<1>1. CASE q.type = 0
  BY <1>1, AllSimple, AllKinds DEF getMarketBreadth, SinceOpening
<1>2. CASE q.type # 0
  <2>1. getMarketBreadth(q) = Cached(k, Default, body)
    BY <1>2 DEF getMarketBreadth
  <2>2. Dated(body, early)
    <3>1. Dated(stockSessionDate("tickerTradeVND"), early) /\ Dated(Ask(<<"marketBreadth", q.ex, q.type>>), early)
      BY DatesFit, AllDated
    <3>. QED
      BY <3>1, DatedBoth
  <2>3. k[1] = "MarketBreadth" /\ BoardKept(k) = Cached(k, Default, body)
    BY DEF BoardKept
  <2>. HIDE DEF k, body
  <2>. QED
    BY <2>1, <2>2, <2>3, AllKinds, BoardCached DEF BoardKeys
<1>. QED
  BY <1>1, <1>2

LEMMA GetInvestorTransactionsFits ==
  ASSUME NEW q, NEW early
  PROVE  OnBoard(getInvestorTransactions(q), early)
<1>. DEFINE k == <<"InvestorTransaction", q.time, q.investor>>
            rows ==    cashFlowSessionDate(Investors[q.investor])
                    \o Ask(<<"investorTransactions", q.time, q.investor>>)
            rest == OnlyIf(q.investor \in DOMAIN Investors, rows)
            body == getTickerPrice \o rest
<1>1. getInvestorTransactions(q) = Cached(k, Default, body)
  BY DEF getInvestorTransactions
<1>2. Dated(body, early)
  <2>1. /\ Dated(cashFlowSessionDate(Investors[q.investor]), early)
        /\ Dated(Ask(<<"investorTransactions", q.time, q.investor>>), early)
        /\ Dated(getTickerPrice, early)
    BY DatesFit, PriceFits, AllDated DEF cashFlowSessionDate
  <2>2. Dated(rows, early)
    BY <2>1, DatedBoth
  <2>. HIDE DEF rows
  <2>3. Dated(rest, early)
    BY <2>2, OnlyIfFits
  <2>. QED
    BY <2>1, <2>3, DatedBoth
<1>3. k[1] = "InvestorTransaction" /\ BoardKept(k) = getInvestorTransactions(q)
  BY DEF BoardKept, getInvestorTransactions
<1>. HIDE DEF k, body
<1>. QED
  BY <1>1, <1>2, <1>3, AllKinds, BoardCached DEF BoardKeys

LEMMA GetInvestorTransactionCashFlowRatioFits ==
  ASSUME NEW q, NEW early
  PROVE  OnBoard(getInvestorTransactionCashFlowRatio(q), early)
<1>. DEFINE k == <<"InvestorTransactionCashFlowRatio", q.time, q.ex>>
            rows == Ask(<<"transactionCashFlowRatio", q.time, Floor(q.ex)>>)
            rest == OnlyIf(q.time \in 0..5, rows)
            body == cashFlowSessionDate("proprietary") \o rest
<1>1. getInvestorTransactionCashFlowRatio(q) = Unread(k, Default, body)
  BY DEF getInvestorTransactionCashFlowRatio
<1>2. Dated(body, early)
  <2>1. /\ Dated(cashFlowSessionDate("proprietary"), early) /\ Dated(rows, early)
    BY DatesFit, AllDated DEF cashFlowSessionDate
  <2>. HIDE DEF rows
  <2>2. Dated(rest, early)
    BY <2>1, OnlyIfFits
  <2>. QED
    BY <2>1, <2>2, DatedBoth
<1>3. Unlooked(k)
  BY DEF Unlooked, UnlookedKeys
<1>. HIDE DEF k, body
<1>. QED
  BY <1>1, <1>2, <1>3, AllKinds, BoardUnread

LEMMA GetTopNetBuyIndustryFits ==
  ASSUME NEW q, NEW early
  PROVE  OnBoard(getTopNetBuyIndustry(q), early)
<1>. DEFINE k == <<"TopNetBuyIndustry", q.time, q.ex>>
            rows == TopTable(q.time, Floor(q.ex))
            rest == OnlyIf(q.time \in 0..3, rows)
            body == cashFlowSessionDate("proprietary") \o rest
<1>1. getTopNetBuyIndustry(q) = Cached(k, Default, body)
  BY DEF getTopNetBuyIndustry
<1>2. Dated(body, early)
  <2>1. /\ Dated(cashFlowSessionDate("proprietary"), early) /\ Dated(rows, early)
    BY DatesFit, TopTableSimple, AllKinds DEF cashFlowSessionDate
  <2>. HIDE DEF rows
  <2>2. Dated(rest, early)
    BY <2>1, OnlyIfFits
  <2>. QED
    BY <2>1, <2>2, DatedBoth
<1>3. k[1] = "TopNetBuyIndustry" /\ BoardKept(k) = getTopNetBuyIndustry(q)
  BY DEF BoardKept, getTopNetBuyIndustry
<1>. HIDE DEF k, body
<1>. QED
  BY <1>1, <1>2, <1>3, AllKinds, BoardCached DEF BoardKeys

LEMMA GetInvestorCashFlowByIndustryFits ==
  ASSUME NEW q, NEW early
  PROVE  OnBoard(getInvestorCashFlowByIndustry(q), early)
<1>. DEFINE k == <<"InvestorCashFlowByIndustry", q.ex, q.time, q.investor>>
            rows == Ask(<<"investorCashFlow", Floor(q.ex), q.time, q.investor>>)
            rest == cashFlowSessionDate("proprietary") \o OnlyIf(q.time \in {2, 4, 5}, rows)
            body == OnlyIf(q.investor \in DOMAIN Investors, rest)
<1>1. getInvestorCashFlowByIndustry(q) = Cached(k, Default, body)
  BY DEF getInvestorCashFlowByIndustry
<1>2. Dated(body, early)
  <2>1. /\ Dated(cashFlowSessionDate("proprietary"), early) /\ Dated(rows, early)
    BY DatesFit, AllDated DEF cashFlowSessionDate
  <2>. HIDE DEF rows
  <2>2. Dated(OnlyIf(q.time \in {2, 4, 5}, rows), early)
    BY <2>1, OnlyIfFits
  <2>3. Dated(rest, early)
    BY <2>1, <2>2, DatedBoth
  <2>. HIDE DEF rest
  <2>. QED
    BY <2>3, OnlyIfFits
<1>3. k[1] = "InvestorCashFlowByIndustry" /\ BoardKept(k) = getInvestorCashFlowByIndustry(q)
  BY DEF BoardKept, getInvestorCashFlowByIndustry
<1>. HIDE DEF k, body
<1>. QED
  BY <1>1, <1>2, <1>3, AllKinds, BoardCached DEF BoardKeys

LEMMA GetTopNetForeignFits ==
  ASSUME NEW q, NEW early
  PROVE  OnBoard(getTopNetForeign(q), early)
<1>. DEFINE body == stockSessionDate("foreign") \o Together({<<"topNetForeign", q.ex, "DESC">>, <<"topNetForeign", q.ex, "ASC">>})
<1>1. Dated(body, early)
  <2>1. /\ Dated(stockSessionDate("foreign"), early)
        /\ Dated(Together({<<"topNetForeign", q.ex, "DESC">>, <<"topNetForeign", q.ex, "ASC">>}), early)
    BY DatesFit, AllDated
  <2>. QED
    BY <2>1, DatedBoth
<1>2. getTopNetForeign(q) = body
  BY DEF getTopNetForeign
<1>. HIDE DEF body
<1>. QED
  BY <1>1, <1>2, AllKinds

LEMMA GetNetForeignFits ==
  ASSUME NEW q, NEW early
  PROVE  OnBoard(getNetForeign(q), early)
<1>. DEFINE body == stockSessionDate("foreign") \o Ask(<<"netForeign", q.ex, q.order>>)
<1>1. Dated(body, early)
  <2>1. /\ Dated(stockSessionDate("foreign"), early)
        /\ Dated(Ask(<<"netForeign", q.ex, q.order>>), early)
    BY DatesFit, AllDated
  <2>. QED
    BY <2>1, DatedBoth
<1>2. getNetForeign(q) = body
  BY DEF getNetForeign
<1>. HIDE DEF body
<1>. QED
  BY <1>1, <1>2, AllKinds

LEMMA GetTickerContributeFits ==
  ASSUME NEW q, NEW early
  PROVE  OnBoard(getTickerContribute(q), early)
<1>. DEFINE body == stockSessionDate("CPAH") \o Ask(<<"tickerContribute", q.type, q.order, q.ex>>)
<1>1. Dated(body, early)
  <2>1. /\ Dated(stockSessionDate("CPAH"), early)
        /\ Dated(Ask(<<"tickerContribute", q.type, q.order, q.ex>>), early)
    BY DatesFit, AllDated
  <2>. QED
    BY <2>1, DatedBoth
<1>2. getTickerContribute(q) = body
  BY DEF getTickerContribute
<1>. HIDE DEF body
<1>. QED
  BY <1>1, <1>2, AllKinds

LEMMA GetLiquidityGrowthFits ==
  ASSUME NEW q, NEW early
  PROVE  OnBoard(getLiquidityGrowth(q), early)
<1>. DEFINE rows == Ask(<<"liquidityGrowth", q.time>>)
            rest == OnlyIf(q.time \in {1, 2, 3, 5}, rows)
<1>1. Dated(cashFlowSessionDate("indexTradeVND"), early) /\ Dated(rows, early)
  BY DatesFit, AllDated DEF cashFlowSessionDate
<1>2. getLiquidityGrowth(q) = cashFlowSessionDate("indexTradeVND") \o rest
  BY DEF getLiquidityGrowth
<1>. HIDE DEF rows
<1>3. Dated(rest, early)
  BY <1>1, OnlyIfFits
<1>. HIDE DEF rest
<1>. QED
  BY <1>1, <1>2, <1>3, DatedBoth, AllKinds

LEMMA GetIndustryCashFlowFits ==
  ASSUME NEW q, NEW early
  PROVE  OnBoard(getIndustryCashFlow(q), early)
<1>. DEFINE rows == Ask(<<"industryCashFlow", q.time, Floor(q.ex)>>)
            rest == OnlyIf(q.time \in 0..3, rows)
<1>1. Dated(cashFlowSessionDate("proprietary"), early) /\ Dated(rows, early)
  BY DatesFit, AllDated DEF cashFlowSessionDate
<1>2. getIndustryCashFlow(q) = cashFlowSessionDate("proprietary") \o rest
  BY DEF getIndustryCashFlow
<1>. HIDE DEF rows
<1>3. Dated(rest, early)
  BY <1>1, OnlyIfFits
<1>. HIDE DEF rest
<1>. QED
  BY <1>1, <1>2, <1>3, DatedBoth, AllKinds

LEMMA GetTotalTransactionValueFits ==
  ASSUME NEW q, NEW early
  PROVE  OnBoard(getTotalTransactionValue(q), early)
<1>. DEFINE rows == Ask(<<"totalTransactionValue", q.time, Floor(q.ex)>>)
            rest == OnlyIf(q.time \in {2, 4, 5}, rows)
<1>1. Dated(cashFlowSessionDate("tickerTradeVND"), early) /\ Dated(rows, early)
  BY DatesFit, AllDated DEF cashFlowSessionDate
<1>2. getTotalTransactionValue(q) = cashFlowSessionDate("tickerTradeVND") \o rest
  BY DEF getTotalTransactionValue
<1>. HIDE DEF rows
<1>3. Dated(rest, early)
  BY <1>1, OnlyIfFits
<1>. HIDE DEF rest
<1>. QED
  BY <1>1, <1>2, <1>3, DatedBoth, AllKinds

LEMMA PlainBoardsFit ==
  ASSUME NEW q, NEW early
  PROVE  /\ OnBoard(getNetTransactionValue(q), early) /\ OnBoard(getDomesticIndex(q), early)
         /\ OnBoard(getMaterialPriceV2(q), early) /\ OnBoard(getLineChartNow(q), early)
         /\ OnBoard(getMarketCashFlow(q), early)
         /\ OnBoard(getInvestorTransactionsValue(q), early)
         /\ OnBoard(getMarketLiquidityYesterday(q), early)
         /\ OnBoard(getMarketLiquidityToday(q), early) /\ OnBoard(getMarketBreadthNow(q), early)
BY AllSimple, AllKinds
DEF getNetTransactionValue, getDomesticIndex, getMaterialPriceV2, getLineChartNow,
    getMarketCashFlow, getInvestorTransactionsValue, getMarketLiquidityYesterday,
    getMarketLiquidityToday, getMarketBreadthNow, SinceOpening

-------------------------------------------------------------------------------
(* The other services: what is under a key, whatever its age *)

Ttls == {Minute, FiveMinutes, HaftHour, OneHour, OneDay, OneWeek, Default}
Ageless(k) == k[1] \notin BoardKeys \cup UnlookedKeys \cup {"SessionDate", "mapImportMain"}
OtherKeys ==
  {"idustryGDPGrowth", "foreignInvestmentIndex", "structureOfOutstandingDebt",
   "proportionOfOutstandingLoansOfEnterprises", "newsEnterprise", "minMaxFilter",
   "PEPBIndustry", "PEIndustry", "PETicker", "PBTicker", "PayoutRatio", "CashRatio",
   "RotaionRatio", "IndsDebtSolvency", "IndsProfitMargins", "IndsInterestCoverage",
   "netProfitMarginByIndustries"}

\* Which keys are whose.
LEMMA PlainKey ==
  ASSUME NEW k, k[1] \in PlainKeys
  PROVE  Ageless(k) /\ Kept(k) = Cached(k, PlainTtl(k[1]), Ask(k))
<1>1. Ageless(k)
  BY DEF Ageless, UnlookedKeys, BoardKeys, PlainKeys, DayKeys, HaftHourKeys, HourKeys, WeekKeys
<1>2. k[1] # "SessionDate"
  BY <1>1 DEF Ageless
<1>. QED
  BY <1>1, <1>2 DEF Kept

LEMMA MarketKey ==
  ASSUME NEW k, k[1] \in MarketKeys
  PROVE  Ageless(k) /\ Kept(k) = MarketKept(k)
<1>1. Ageless(k)
  BY DEF Ageless, UnlookedKeys, BoardKeys, MarketKeys
<1>2. k[1] \notin PlainKeys
  BY DEF MarketKeys, PlainKeys, DayKeys, HaftHourKeys, HourKeys, WeekKeys
<1>. QED
  BY <1>1, <1>2 DEF Ageless, Kept

LEMMA SharesKey ==
  ASSUME NEW k, k[1] \in SharesKeys
  PROVE  Ageless(k) /\ Kept(k) = SharesKept(k)
<1>1. Ageless(k)
  BY DEF Ageless, UnlookedKeys, BoardKeys, SharesKeys
<1>2. k[1] \notin PlainKeys
  BY DEF SharesKeys, PlainKeys, DayKeys, HaftHourKeys, HourKeys, WeekKeys
<1>3. k[1] \notin MarketKeys
  BY DEF SharesKeys, MarketKeys
<1>. QED
  BY <1>1, <1>2, <1>3 DEF Ageless, Kept

LEMMA OtherKey ==
  ASSUME NEW k, k[1] \in OtherKeys
  PROVE  Ageless(k) /\ Kept(k) = OtherKept(k)
<1>1. Ageless(k)
  BY DEF Ageless, UnlookedKeys, BoardKeys, OtherKeys
<1>2. k[1] \notin PlainKeys
  BY DEF OtherKeys, PlainKeys, DayKeys, HaftHourKeys, HourKeys, WeekKeys
<1>3. k[1] \notin MarketKeys /\ k[1] \notin SharesKeys
  BY DEF OtherKeys, MarketKeys, SharesKeys
<1>. QED
  BY <1>1, <1>2, <1>3 DEF Ageless, Kept

LEMMA AnyCached ==
  ASSUME NEW k, Ageless(k), NEW ttl \in Ttls, NEW body, NEW early,
         NEW d \in Nat, Within(body, d, Any, early), Kept(k) = Cached(k, ttl, body)
  PROVE  Within(Cached(k, ttl, body), d + 1, Any, early)
<1>0. IsProgram(body)
  BY LevelsAre, WithinIsProgram
<1>1. Meaning(k) = Topics(body) /\ KeyBounds(k) = Bounds(Cached(k, ttl, body))
  BY <1>0, TopicsOfCached DEF Meaning, KeyBounds
<1>2. ~Never(k) /\ ~Unlooked(k) /\ Old(k) = Any
  BY DEF Ageless, Never, Unlooked, Old, BoardKeys
<1>3. ttl \in Nat \ {0}
  BY LifetimesAre DEF Ttls, Default
<1>4. Covers(Any, Any) /\ Any \in Ages
  BY LevelsAre
<1>. QED
  BY <1>1, <1>2, <1>3, <1>4, WithinCached

LEMMA SimpleIsAny ==
  ASSUME NEW body, NEW early, Simple(body, early)
  PROVE  Within(body, 0, Any, early)
<1>1. Covers(Any, 0) /\ 0 \in Nat /\ 0 <= 0 /\ 0 \in Ages /\ Any \in Ages
  BY LevelsAre
<1>. QED
  BY <1>1, WithinMore DEF Simple

LEMMA TimelessCached ==
  ASSUME NEW k, Ageless(k), NEW ttl \in Ttls, NEW body, NEW early, Simple(body, early),
         Kept(k) = Cached(k, ttl, body)
  PROVE  Timeless(Cached(k, ttl, body), early)
<1>1. Within(body, 0, Any, early)
  BY SimpleIsAny
<1>2. Within(Cached(k, ttl, body), 0 + 1, Any, early)
  BY <1>1, AnyCached
<1>. QED
  BY <1>2 DEF Timeless

LEMMA TimelessUnread ==
  ASSUME NEW k, Unlooked(k), NEW ttl \in Ttls, NEW body, NEW early, Simple(body, early)
  PROVE  Timeless(Unread(k, ttl, body), early)
<1>1. Within(body, 0, Any, early)
  BY SimpleIsAny
<1>2. ttl \in Nat \ {0}
  BY LifetimesAre DEF Ttls, Default
<1>3. Covers(Any, Any) /\ Any \in Ages
  BY LevelsAre
<1>4. Within(Unread(k, ttl, body), 0 + 1, Any, early)
  BY <1>1, <1>2, <1>3, WithinUnread
<1>. QED
  BY <1>4 DEF Timeless

LEMMA NestedCached ==
  ASSUME NEW k, Ageless(k), NEW ttl \in Ttls, NEW body, NEW early, Timeless(body, early),
         Kept(k) = Cached(k, ttl, body)
  PROVE  Nested(Cached(k, ttl, body), early)
<1>1. Within(body, 1, Any, early)
  BY DEF Timeless
<1>2. Within(Cached(k, ttl, body), 1 + 1, Any, early)
  BY <1>1, AnyCached
<1>. QED
  BY <1>2 DEF Nested

LEMMA PlainTtls ==
  /\ \A n \in DayKeys : n \in PlainKeys /\ PlainTtl(n) = OneDay
  /\ \A n \in HaftHourKeys : n \in PlainKeys /\ PlainTtl(n) = HaftHour
  /\ \A n \in HourKeys : n \in PlainKeys /\ PlainTtl(n) = OneHour
  /\ \A n \in WeekKeys : n \in PlainKeys /\ PlainTtl(n) = OneWeek
<1>1. \A n \in HaftHourKeys : n \notin DayKeys
  BY DEF HaftHourKeys, DayKeys
<1>2. \A n \in HourKeys : n \notin DayKeys /\ n \notin HaftHourKeys
  BY DEF HourKeys, HaftHourKeys, DayKeys
<1>3. \A n \in WeekKeys : n \notin DayKeys /\ n \notin HaftHourKeys /\ n \notin HourKeys
  BY DEF WeekKeys, HourKeys, HaftHourKeys, DayKeys
<1>. QED
  BY <1>1, <1>2, <1>3 DEF PlainKeys, PlainTtl

LEMMA PlainFits ==
  ASSUME NEW k, k[1] \in PlainKeys, NEW early
  PROVE  Timeless(Cached(k, PlainTtl(k[1]), Ask(k)), early)
<1>1. Ageless(k) /\ Kept(k) = Cached(k, PlainTtl(k[1]), Ask(k))
  BY PlainKey
<1>2. PlainTtl(k[1]) \in Ttls
  BY DEF PlainTtl, Ttls
<1>3. Simple(Ask(k), early)
  BY AllSimple
<1>. QED
  BY <1>1, <1>2, <1>3, TimelessCached

LEMMA SeriesFit ==
  ASSUME NEW name \in PlainKeys, NEW ttl, ttl = PlainTtl(name), NEW early
  PROVE  /\ Timeless(Series(name, ttl), early)
         /\ \A order : Timeless(SeriesBy(name, order, ttl), early)
<1>1. Timeless(Series(name, ttl), early)
  <2>. DEFINE k == <<name>>
  <2>1. k[1] = name /\ Series(name, ttl) = Cached(k, ttl, Ask(k))
    BY DEF Series
  <2>. HIDE DEF k
  <2>. QED
    BY <2>1, PlainFits
<1>2. ASSUME NEW order PROVE Timeless(SeriesBy(name, order, ttl), early)
  <2>. DEFINE k == <<name, order>>
  <2>1. k[1] = name /\ SeriesBy(name, order, ttl) = Cached(k, ttl, Ask(k))
    BY DEF SeriesBy
  <2>. HIDE DEF k
  <2>. QED
    BY <2>1, PlainFits
<1>. QED
  BY <1>1, <1>2

LEMMA TradeTableFits ==
  ASSUME NEW name \in WeekKeys, NEW order, NEW early
  PROVE  Timeless(TradeTable(name, order), early)
<1>. DEFINE k == <<name, order>>
<1>1. k[1] = name /\ TradeTable(name, order) = Cached(k, OneWeek, Ask(k))
  BY DEF TradeTable
<1>2. name \in PlainKeys /\ PlainTtl(name) = OneWeek
  BY PlainTtls
<1>. HIDE DEF k
<1>. QED
  BY <1>1, <1>2, PlainFits

(* MacroService *)

LEMMA SeriesOfMacroFit ==
  ASSUME NEW q, NEW early
  PROVE  /\ Timeless(industryGDPValue(q), early)
         /\ Timeless(gdpPrice(q), early)
         /\ Timeless(idustryGDPContibute(q), early)
         /\ Timeless(idustryGDPGrowthPercent(q), early)
         /\ Timeless(idustryCPIPercent(q), early)
         /\ Timeless(idustryCPITable(q), early)
         /\ Timeless(idustryCPISameQuater(q), early)
         /\ Timeless(idustryCPIChange(q), early)
         /\ Timeless(cpiQuyenSo(q), early)
         /\ Timeless(industrialIndex(q), early)
         /\ Timeless(industrialIndexTable(q), early)
         /\ Timeless(ippConsumAndInventory(q), early)
         /\ Timeless(ippIndusProductionIndex(q), early)
         /\ Timeless(ippMostIndusProduction(q), early)
         /\ Timeless(laborForce(q), early)
         /\ Timeless(unemployedRate(q), early)
         /\ Timeless(laborRate(q), early)
         /\ Timeless(informalLaborRate(q), early)
         /\ Timeless(averageSalary(q), early)
         /\ Timeless(employmentFluctuations(q), early)
         /\ Timeless(totalPayment(q), early)
         /\ Timeless(totalPaymentPercent(q), early)
         /\ Timeless(balancePaymentInternational(q), early)
         /\ Timeless(creditDebt(q), early)
         /\ Timeless(creditDebtPercent(q), early)
         /\ Timeless(creditInstitution(q), early)
         /\ Timeless(totalInvestmentProjects(q), early)
         /\ Timeless(accumulated(q), early)
         /\ Timeless(totalRegisteredAndDisbursed(q), early)
         /\ Timeless(averageDepositInterestRate(q), early)
         /\ Timeless(totalOutstandingBalance(q), early)
         /\ Timeless(estimatedValueOfCorporateBonds(q), early)
         /\ Timeless(listOfBondsToMaturity(q), early)
         /\ Timeless(listOfEnterprisesWithLateBond(q), early)
         /\ Timeless(centralExchangeRate(q), early)
         /\ Timeless(exchangeRateIndexTable(q), early)
         /\ Timeless(macroInterestRate(q), early)
<1>1. Timeless(industryGDPValue(q), early)
  BY SeriesFit, PlainTtls DEF industryGDPValue, WeekKeys
<1>2. Timeless(gdpPrice(q), early)
  BY SeriesFit, PlainTtls DEF gdpPrice, WeekKeys
<1>3. Timeless(idustryGDPContibute(q), early)
  BY SeriesFit, PlainTtls DEF idustryGDPContibute, WeekKeys
<1>4. Timeless(idustryGDPGrowthPercent(q), early)
  BY SeriesFit, PlainTtls DEF idustryGDPGrowthPercent, WeekKeys
<1>5. Timeless(idustryCPIPercent(q), early)
  BY SeriesFit, PlainTtls DEF idustryCPIPercent, WeekKeys
<1>6. Timeless(idustryCPITable(q), early)
  BY SeriesFit, PlainTtls DEF idustryCPITable, WeekKeys
<1>7. Timeless(idustryCPISameQuater(q), early)
  BY SeriesFit, PlainTtls DEF idustryCPISameQuater, WeekKeys
<1>8. Timeless(idustryCPIChange(q), early)
  BY SeriesFit, PlainTtls DEF idustryCPIChange, WeekKeys
<1>9. Timeless(cpiQuyenSo(q), early)
  BY SeriesFit, PlainTtls DEF cpiQuyenSo, WeekKeys
<1>10. Timeless(industrialIndex(q), early)
  BY SeriesFit, PlainTtls DEF industrialIndex, WeekKeys
<1>11. Timeless(industrialIndexTable(q), early)
  BY SeriesFit, PlainTtls DEF industrialIndexTable, WeekKeys
<1>12. Timeless(ippConsumAndInventory(q), early)
  BY SeriesFit, PlainTtls DEF ippConsumAndInventory, WeekKeys
<1>13. Timeless(ippIndusProductionIndex(q), early)
  BY SeriesFit, PlainTtls DEF ippIndusProductionIndex, WeekKeys
<1>14. Timeless(ippMostIndusProduction(q), early)
  BY SeriesFit, PlainTtls DEF ippMostIndusProduction, WeekKeys
<1>15. Timeless(laborForce(q), early)
  BY SeriesFit, PlainTtls DEF laborForce, WeekKeys
<1>16. Timeless(unemployedRate(q), early)
  BY SeriesFit, PlainTtls DEF unemployedRate, WeekKeys
<1>17. Timeless(laborRate(q), early)
  BY SeriesFit, PlainTtls DEF laborRate, WeekKeys
<1>18. Timeless(informalLaborRate(q), early)
  BY SeriesFit, PlainTtls DEF informalLaborRate, WeekKeys
<1>19. Timeless(averageSalary(q), early)
  BY SeriesFit, PlainTtls DEF averageSalary, WeekKeys
<1>20. Timeless(employmentFluctuations(q), early)
  BY SeriesFit, PlainTtls DEF employmentFluctuations, WeekKeys
<1>21. Timeless(totalPayment(q), early)
  BY SeriesFit, PlainTtls DEF totalPayment, WeekKeys
<1>22. Timeless(totalPaymentPercent(q), early)
  BY SeriesFit, PlainTtls DEF totalPaymentPercent, WeekKeys
<1>23. Timeless(balancePaymentInternational(q), early)
  BY SeriesFit, PlainTtls DEF balancePaymentInternational, WeekKeys
<1>24. Timeless(creditDebt(q), early)
  BY SeriesFit, PlainTtls DEF creditDebt, WeekKeys
<1>25. Timeless(creditDebtPercent(q), early)
  BY SeriesFit, PlainTtls DEF creditDebtPercent, WeekKeys
<1>26. Timeless(creditInstitution(q), early)
  BY SeriesFit, PlainTtls DEF creditInstitution, WeekKeys
<1>27. Timeless(totalInvestmentProjects(q), early)
  BY SeriesFit, PlainTtls DEF totalInvestmentProjects, WeekKeys
<1>28. Timeless(accumulated(q), early)
  BY SeriesFit, PlainTtls DEF accumulated, WeekKeys
<1>29. Timeless(totalRegisteredAndDisbursed(q), early)
  BY SeriesFit, PlainTtls DEF totalRegisteredAndDisbursed, WeekKeys
<1>30. Timeless(averageDepositInterestRate(q), early)
  BY SeriesFit, PlainTtls DEF averageDepositInterestRate, HaftHourKeys
<1>31. Timeless(totalOutstandingBalance(q), early)
  BY SeriesFit, PlainTtls DEF totalOutstandingBalance, HaftHourKeys
<1>32. Timeless(estimatedValueOfCorporateBonds(q), early)
  BY SeriesFit, PlainTtls DEF estimatedValueOfCorporateBonds, HaftHourKeys
<1>33. Timeless(listOfBondsToMaturity(q), early)
  BY SeriesFit, PlainTtls DEF listOfBondsToMaturity, HaftHourKeys
<1>34. Timeless(listOfEnterprisesWithLateBond(q), early)
  BY SeriesFit, PlainTtls DEF listOfEnterprisesWithLateBond, HaftHourKeys
<1>35. Timeless(centralExchangeRate(q), early)
  BY SeriesFit, PlainTtls DEF centralExchangeRate, DayKeys
<1>36. Timeless(exchangeRateIndexTable(q), early)
  BY SeriesFit, PlainTtls DEF exchangeRateIndexTable, DayKeys
<1>37. Timeless(macroInterestRate(q), early)
  BY SeriesFit, PlainTtls DEF macroInterestRate, DayKeys
<1>. QED
  BY <1>1, <1>2, <1>3, <1>4, <1>5, <1>6, <1>7, <1>8, <1>9, <1>10, <1>11, <1>12, <1>13,
     <1>14, <1>15, <1>16, <1>17, <1>18, <1>19, <1>20, <1>21, <1>22, <1>23, <1>24,
     <1>25, <1>26, <1>27, <1>28, <1>29, <1>30, <1>31, <1>32, <1>33, <1>34, <1>35,
     <1>36, <1>37

LEMMA IdustryGDPGrowthFits ==
  ASSUME NEW q, NEW early
  PROVE  Timeless(idustryGDPGrowth(q), early)
<1>. DEFINE k == <<"idustryGDPGrowth", q.order>>
            body ==
                 Ask(<<"lastGDPDate">>)
              \o Ask(<<"idustryGDPGrowth", q.order>>)
<1>1. idustryGDPGrowth(q) = Cached(k, OneWeek, body) /\ OneWeek \in Ttls
  BY DEF idustryGDPGrowth, Ttls
<1>2. Simple(body, early)
  <2>1. /\ Simple(Ask(<<"lastGDPDate">>), early)
        /\ Simple(Ask(<<"idustryGDPGrowth", q.order>>), early)
    BY AllSimple
  <2>. QED
    BY <2>1, SimpleBoth
<1>3. k[1] = "idustryGDPGrowth" /\ OtherKept(k) = Cached(k, OneWeek, body)
  BY DEF OtherKept
<1>. HIDE DEF k, body
<1>4. Ageless(k) /\ Kept(k) = OtherKept(k)
  BY <1>3, OtherKey DEF OtherKeys
<1>. QED
  BY <1>1, <1>2, <1>3, <1>4, TimelessCached

LEMMA ForeignInvestmentIndexFits ==
  ASSUME NEW q, NEW early
  PROVE  Timeless(foreignInvestmentIndex(q), early)
<1>. DEFINE k == <<"foreignInvestmentIndex", q.type, q.order>>
            body ==
                 Ask(<<"lastFDIDates", q.type>>)
              \o Ask(<<"foreignInvestmentIndex", q.type, q.order>>)
<1>1. foreignInvestmentIndex(q) = Cached(k, OneWeek, body) /\ OneWeek \in Ttls
  BY DEF foreignInvestmentIndex, Ttls
<1>2. Simple(body, early)
  <2>1. /\ Simple(Ask(<<"lastFDIDates", q.type>>), early)
        /\ Simple(Ask(<<"foreignInvestmentIndex", q.type, q.order>>), early)
    BY AllSimple
  <2>. QED
    BY <2>1, SimpleBoth
<1>3. k[1] = "foreignInvestmentIndex" /\ OtherKept(k) = Cached(k, OneWeek, body)
  BY DEF OtherKept
<1>. HIDE DEF k, body
<1>4. Ageless(k) /\ Kept(k) = OtherKept(k)
  BY <1>3, OtherKey DEF OtherKeys
<1>. QED
  BY <1>1, <1>2, <1>3, <1>4, TimelessCached

LEMMA StructureOfOutstandingDebtFits ==
  ASSUME NEW q, NEW early
  PROVE  Timeless(structureOfOutstandingDebt(q), early)
<1>. DEFINE k == <<"structureOfOutstandingDebt">>
            body ==
                 Ask(<<"totalOfBonds">>)
              \o Ask(<<"structureOfOutstandingDebt">>)
<1>1. structureOfOutstandingDebt(q) = Cached(k, HaftHour, body) /\ HaftHour \in Ttls
  BY DEF structureOfOutstandingDebt, Ttls, ShareOfTotal
<1>2. Simple(body, early)
  <2>1. /\ Simple(Ask(<<"totalOfBonds">>), early)
        /\ Simple(Ask(<<"structureOfOutstandingDebt">>), early)
    BY AllSimple
  <2>. QED
    BY <2>1, SimpleBoth
<1>3. k[1] = "structureOfOutstandingDebt" /\ OtherKept(k) = Cached(k, HaftHour, body)
  BY DEF OtherKept
<1>. HIDE DEF k, body
<1>4. Ageless(k) /\ Kept(k) = OtherKept(k)
  BY <1>3, OtherKey DEF OtherKeys
<1>. QED
  BY <1>1, <1>2, <1>3, <1>4, TimelessCached

LEMMA ProportionOfOutstandingLoansOfEnterprisesFits ==
  ASSUME NEW q, NEW early
  PROVE  Timeless(proportionOfOutstandingLoansOfEnterprises(q), early)
<1>. DEFINE k == <<"proportionOfOutstandingLoansOfEnterprises">>
            body ==
                 Ask(<<"totalOfBonds">>)
              \o Ask(<<"proportionOfOutstandingLoansOfEnterprises">>)
<1>1. proportionOfOutstandingLoansOfEnterprises(q) = Cached(k, HaftHour, body) /\ HaftHour \in Ttls
  BY DEF proportionOfOutstandingLoansOfEnterprises, Ttls, ShareOfTotal
<1>2. Simple(body, early)
  <2>1. /\ Simple(Ask(<<"totalOfBonds">>), early)
        /\ Simple(Ask(<<"proportionOfOutstandingLoansOfEnterprises">>), early)
    BY AllSimple
  <2>. QED
    BY <2>1, SimpleBoth
<1>3. k[1] = "proportionOfOutstandingLoansOfEnterprises" /\ OtherKept(k) = Cached(k, HaftHour, body)
  BY DEF OtherKept
<1>. HIDE DEF k, body
<1>4. Ageless(k) /\ Kept(k) = OtherKept(k)
  BY <1>3, OtherKey DEF OtherKeys
<1>. QED
  BY <1>1, <1>2, <1>3, <1>4, TimelessCached

LEMMA PlainMacroFit ==
  ASSUME NEW q, NEW early
  PROVE  /\ Timeless(corporateBondsIssuedSuccessfully(q), early)
         /\ Timeless(exchangeRateAndInterestRate(q), early)
<1>1. Timeless(corporateBondsIssuedSuccessfully(q), early)
  <2>. DEFINE k == <<"corporateBondsIssuedSuccessfully">>
  <2>1. /\ corporateBondsIssuedSuccessfully(q) = Unread(k, HaftHour, Ask(k))
        /\ Unlooked(k) /\ HaftHour \in Ttls
    BY DEF corporateBondsIssuedSuccessfully, Unlooked, UnlookedKeys, Ttls
  <2>. HIDE DEF k
  <2>2. Simple(Ask(k), early)
    BY AllSimple
  <2>. QED
    BY <2>1, <2>2, TimelessUnread
<1>2. Timeless(exchangeRateAndInterestRate(q), early)
  <2>. DEFINE k == <<"exchangeRateAndInterestRate", q.type, q.order>>
  <2>1. /\ exchangeRateAndInterestRate(q) = Cached(k, OneDay, Ask(k))
        /\ k[1] \in PlainKeys /\ OneDay = PlainTtl(k[1])
    BY PlainTtls DEF exchangeRateAndInterestRate, DayKeys
  <2>. HIDE DEF k
  <2>. QED
    BY <2>1, PlainFits
<1>. QED
  BY <1>1, <1>2

(* RetailService, NewsService and InvestmentService *)

LEMMA TradeTablesFit ==
  ASSUME NEW q, NEW early
  PROVE  /\ Timeless(retailValue(q), early)
         /\ Timeless(retailPercentValue(q), early)
         /\ Timeless(totalExportImport(q), early)
         /\ Timeless(mainExportImportMH(q), early)
         /\ Timeless(mainImportMH(q), early)
<1>1. Timeless(retailValue(q), early)
  BY TradeTableFits DEF retailValue, WeekKeys
<1>2. Timeless(retailPercentValue(q), early)
  BY TradeTableFits DEF retailPercentValue, WeekKeys
<1>3. Timeless(totalExportImport(q), early)
  BY TradeTableFits DEF totalExportImport, WeekKeys
<1>4. Timeless(mainExportImportMH(q), early)
  BY TradeTableFits DEF mainExportImportMH, WeekKeys
<1>5. Timeless(mainImportMH(q), early)
  BY TradeTableFits DEF mainImportMH, WeekKeys
<1>. QED
  BY <1>1, <1>2, <1>3, <1>4, <1>5

LEMMA RetailValueTotalFits ==
  ASSUME NEW q, NEW early
  PROVE  Timeless(retailValueTotal(q), early)
<1>. DEFINE k == <<"retailValueTotal">>
<1>1. /\ retailValueTotal(q) = Cached(k, OneWeek, Ask(k))
      /\ k[1] \in PlainKeys /\ OneWeek = PlainTtl(k[1])
  BY PlainTtls DEF retailValueTotal, WeekKeys
<1>. HIDE DEF k
<1>. QED
  BY <1>1, PlainFits

LEMMA MainExportImportFits ==
  ASSUME NEW q, NEW early
  PROVE  Timeless(mainExportImport(q), early)
<1>. DEFINE k == <<"exportImportMain">>
<1>1. /\ mainExportImport(q) = Cached(k, OneWeek, Ask(k))
      /\ k[1] \in PlainKeys /\ OneWeek = PlainTtl(k[1])
  BY PlainTtls DEF mainExportImport, WeekKeys
<1>. HIDE DEF k
<1>. QED
  BY <1>1, PlainFits

\* The answers under this key are never kept, so that none has to be right.
LEMMA MapExportImportFits ==
  ASSUME NEW q, NEW early
  PROVE  Timeless(mapExportImport(q), early)
<1>. DEFINE k == <<"mapImportMain", q.order>>
            body == Ask(<<"mapExportImport", q.order, q.type>>)
            date == Ask(<<"lastExportDate">>)
<1>1. mapExportImport(q) = date \o Borrowed(k, OneDay, body)
  BY DEF mapExportImport
<1>2. Simple(body, early) /\ Simple(date, early)
  BY AllSimple
<1>3. Never(k) /\ ~Unlooked(k)
  BY DEF Never, Unlooked, UnlookedKeys
<1>. HIDE DEF k, body, date
<1>4. Within(body, 0, Any, early)
  BY <1>2, SimpleIsAny
<1>5. Within(Borrowed(k, OneDay, body), 0 + 1, Any, early)
  BY <1>3, <1>4, LevelsAre, LifetimesAre, WithinBorrowed
<1>6. Timeless(Borrowed(k, OneDay, body), early)
  BY <1>5 DEF Timeless
<1>. QED
  BY <1>1, <1>2, <1>6, AllKinds, TimelessBoth

LEMMA GetEventFits ==
  ASSUME NEW q, NEW early
  PROVE  Timeless(getEvent(q), early)
<1>. DEFINE page  == OrDefault(q.page, 1)
            limit == OrDefault(q.limit, 20)
            floor == IF q.ex = "ALL" THEN {"HOSE", "UPCOM", "HNX"} ELSE {q.ex}
            k == <<"newsEvent", page, limit, floor, q.type>>
<1>1. /\ getEvent(q) = Cached(k, OneHour, Ask(k))
      /\ k[1] \in PlainKeys /\ OneHour = PlainTtl(k[1])
  BY PlainTtls DEF getEvent, HourKeys
<1>. HIDE DEF k
<1>. QED
  BY <1>1, PlainFits

LEMMA NewsFilterFits ==
  ASSUME NEW q, NEW early
  PROVE  Timeless(newsFilter(q), early)
<1>. DEFINE page  == OrDefault(q.page, 1)
            limit == OrDefault(q.limit, 20)
            codes == IF q.codes = "all" THEN "" ELSE q.codes
            k == <<"newsFilter", page, limit, codes>>
<1>1. /\ newsFilter(q) = Cached(k, HaftHour, Ask(k))
      /\ k[1] \in PlainKeys /\ HaftHour = PlainTtl(k[1])
  BY PlainTtls DEF newsFilter, HaftHourKeys
<1>. HIDE DEF k
<1>. QED
  BY <1>1, PlainFits

LEMMA NewsCategoriesFits ==
  ASSUME NEW q, NEW early
  PROVE  Timeless(newsCategories(q), early)
<1>. DEFINE k == <<"filter">>
<1>1. /\ newsCategories(q) = Cached(k, OneWeek, Ask(k))
      /\ k[1] \in PlainKeys /\ OneWeek = PlainTtl(k[1])
  BY PlainTtls DEF newsCategories, WeekKeys
<1>. HIDE DEF k
<1>. QED
  BY <1>1, PlainFits

LEMMA GetInfoStockFits ==
  ASSUME NEW q, NEW early
  PROVE  Timeless(getInfoStock(q), early)
<1>. DEFINE k == <<"infoStock">>
<1>1. /\ getInfoStock(q) = Cached(k, OneDay, Ask(k))
      /\ k[1] \in PlainKeys /\ OneDay = PlainTtl(k[1])
  BY PlainTtls DEF getInfoStock, DayKeys
<1>. HIDE DEF k
<1>. QED
  BY <1>1, PlainFits

LEMMA NewsEnterpriseFits ==
  ASSUME NEW q, NEW early
  PROVE  Timeless(newsEnterprise(q), early)
<1>. DEFINE k == <<"newsEnterprise">>
            body ==
                 Ask(<<"lastTradingDay">>)
              \o Ask(<<"newsEnterprise">>)
<1>1. newsEnterprise(q) = Cached(k, OneHour, body) /\ OneHour \in Ttls
  BY DEF newsEnterprise, Ttls
<1>2. Simple(body, early)
  <2>1. /\ Simple(Ask(<<"lastTradingDay">>), early)
        /\ Simple(Ask(<<"newsEnterprise">>), early)
    BY AllSimple
  <2>. QED
    BY <2>1, SimpleBoth
<1>3. k[1] = "newsEnterprise" /\ OtherKept(k) = Cached(k, OneHour, body)
  BY DEF OtherKept
<1>. HIDE DEF k, body
<1>4. Ageless(k) /\ Kept(k) = OtherKept(k)
  BY <1>3, OtherKey DEF OtherKeys
<1>. QED
  BY <1>1, <1>2, <1>3, <1>4, TimelessCached

LEMMA KeyFilterFits ==
  ASSUME NEW q, NEW early
  PROVE  Timeless(keyFilter(q), early)
<1>. DEFINE k == <<"minMaxFilter">>
            body ==
                 Ask(<<"columns">>)
              \o Ask(<<"minMax">>)
<1>1. keyFilter(q) = Cached(k, OneHour, body) /\ OneHour \in Ttls
  BY DEF keyFilter, Ttls
<1>2. Simple(body, early)
  <2>1. /\ Simple(Ask(<<"columns">>), early)
        /\ Simple(Ask(<<"minMax">>), early)
    BY AllSimple
  <2>. QED
    BY <2>1, SimpleBoth
<1>3. k[1] = "minMaxFilter" /\ OtherKept(k) = Cached(k, OneHour, body)
  BY DEF OtherKept
<1>. HIDE DEF k, body
<1>4. Ageless(k) /\ Kept(k) = OtherKept(k)
  BY <1>3, OtherKey DEF OtherKeys
<1>. QED
  BY <1>1, <1>2, <1>3, <1>4, TimelessCached

LEMMA EmulatorInvestmentFits ==
  ASSUME NEW q, NEW early
  PROVE  Simple(emulatorInvestment(q), early)
<1>. DEFINE asked == <<q.from, q.to, q.isPeriodic>>
            days == IF q.isPeriodic THEN Ask(<<"firstDays", q.from, q.to>>) ELSE <<>>
            rows == Together({<<"prices", asked>>, <<"vnindex", asked>>, <<"bond">>})
<1>1. emulatorInvestment(q) = Refuse \/ emulatorInvestment(q) = days \o rows
  BY DEF emulatorInvestment
<1>2. Simple(days, early) /\ Simple(rows, early) /\ Simple(Refuse, early)
  BY AllSimple
<1>. HIDE DEF days, rows
<1>. QED
  BY <1>1, <1>2, SimpleBoth

LEMMA PlainNewsFit ==
  ASSUME NEW q, NEW early
  PROVE  /\ Simple(macroDomestic(q), early)
         /\ Simple(macroInternational(q), early)
         /\ Simple(investmentFilter(q), early)
         /\ Simple(search(q), early)
<1>1. Simple(macroDomestic(q), early)
  BY AllSimple DEF macroDomestic
<1>2. Simple(macroInternational(q), early)
  BY AllSimple DEF macroInternational
<1>3. Simple(investmentFilter(q), early)
  BY AllSimple DEF investmentFilter
<1>4. Simple(search(q), early)
  BY AllSimple DEF search
<1>. QED
  BY <1>1, <1>2, <1>3, <1>4

(* The tables of ReportService *)

LEMMA PlainReportsFit ==
  ASSUME NEW q, NEW early
  PROVE  /\ Simple(newsInternational(q), early)
         /\ Simple(newsDomestic(q), early)
         /\ Simple(reportNewsEnterprise(q), early)
         /\ Simple(event(q), early)
         /\ Simple(merchandise(q), early)
         /\ Simple(stockMarket(q), early)
         /\ Simple(morning(q), early)
         /\ Simple(morningHose(q), early)
         /\ Simple(topScore(q), early)
         /\ Simple(identifyMarket(q), early)
         /\ Simple(afternoonReport1(q), early)
         /\ Simple(afternoonReport2(q), early)
         /\ Simple(transactionValueFluctuations(q), early)
         /\ Simple(liquidityMarket(q), early)
         /\ Simple(cashFlowRatio(q), early)
         /\ Simple(topNetBuyingAndSelling(q), early)
         /\ Simple(cashFlow(q), early)
<1>1. Simple(newsInternational(q), early)
  BY AllSimple DEF newsInternational, Report
<1>2. Simple(newsDomestic(q), early)
  BY AllSimple DEF newsDomestic, Report
<1>3. Simple(reportNewsEnterprise(q), early)
  BY AllSimple DEF reportNewsEnterprise, Report
<1>4. Simple(event(q), early)
  BY AllSimple DEF event, Report
<1>5. Simple(merchandise(q), early)
  BY AllSimple DEF merchandise, Report
<1>7. Simple(stockMarket(q), early)
  BY AllSimple DEF stockMarket, Report
<1>8. Simple(morning(q), early)
  BY AllSimple DEF morning, Report
<1>9. Simple(morningHose(q), early)
  BY AllSimple DEF morningHose, Report
<1>10. Simple(topScore(q), early)
  BY AllSimple DEF topScore, Report
<1>11. Simple(identifyMarket(q), early)
  BY AllSimple DEF identifyMarket, Report
<1>12. Simple(afternoonReport1(q), early)
  BY AllSimple DEF afternoonReport1, Report
<1>13. Simple(afternoonReport2(q), early)
  BY AllSimple DEF afternoonReport2, Report
<1>14. Simple(transactionValueFluctuations(q), early)
  BY AllSimple DEF transactionValueFluctuations, Report
<1>15. Simple(liquidityMarket(q), early)
  BY AllSimple DEF liquidityMarket, Report
<1>16. Simple(cashFlowRatio(q), early)
  BY AllSimple DEF cashFlowRatio, Report
<1>17. Simple(topNetBuyingAndSelling(q), early)
  BY AllSimple DEF topNetBuyingAndSelling, Report
<1>18. Simple(cashFlow(q), early)
  BY AllSimple DEF cashFlow, Report
<1>. QED
  BY <1>1, <1>2, <1>3, <1>4, <1>5, <1>7, <1>8, <1>9, <1>10, <1>11, <1>12, <1>13, <1>14, <1>15, <1>16, <1>17, <1>18

LEMMA ExchangeRateFits ==
  ASSUME NEW q, NEW early
  PROVE  Simple(exchangeRate(q), early)
<1>. DEFINE body == Ask(<<"lastVCBDate">>) \o Ask(<<"exchangeRate">>)
<1>1. Simple(body, early)
  <2>1. /\ Simple(Ask(<<"lastVCBDate">>), early)
        /\ Simple(Ask(<<"exchangeRate">>), early)
    BY AllSimple
  <2>. QED
    BY <2>1, SimpleBoth
<1>. QED
  BY <1>1 DEF exchangeRate

LEMMA ReportInterestRateFits ==
  ASSUME NEW q, NEW early
  PROVE  Simple(reportInterestRate(q), early)
<1>. DEFINE body == Ask(<<"lastRateDate">>) \o Ask(<<"rateDates">>) \o Ask(<<"reportInterestRate">>)
<1>1. Simple(body, early)
  <2>1. /\ Simple(Ask(<<"lastRateDate">>), early)
        /\ Simple(Ask(<<"rateDates">>), early)
        /\ Simple(Ask(<<"reportInterestRate">>), early)
    BY AllSimple
  <2>. QED
    BY <2>1, SimpleThree
<1>. QED
  BY <1>1 DEF reportInterestRate

LEMMA ReportIndustryFits ==
  ASSUME NEW q, NEW early
  PROVE  Dated(reportIndustry(q), early)
<1>. DEFINE body == stockSessionDate("ratioInday") \o Ask(<<"reportIndustry", "marketCap">>) \o Ask(<<"reportIndustry", "latest">>) \o Ask(<<"reportIndustry", "previous">>)
<1>1. Dated(body, early)
  <2>1. /\ Dated(stockSessionDate("ratioInday"), early)
        /\ Dated(Ask(<<"reportIndustry", "marketCap">>), early)
        /\ Dated(Ask(<<"reportIndustry", "latest">>), early)
        /\ Dated(Ask(<<"reportIndustry", "previous">>), early)
    BY DatesFit, AllDated
  <2>2. Dated(stockSessionDate("ratioInday") \o Ask(<<"reportIndustry", "marketCap">>) \o Ask(<<"reportIndustry", "latest">>), early)
    BY <2>1, DatedThree
  <2>. QED
    BY <2>1, <2>2, DatedBoth
<1>. QED
  BY <1>1 DEF reportIndustry

-------------------------------------------------------------------------------
(* MarketService *)

LEMMA TimelessThree ==
  ASSUME NEW p, NEW q, NEW r, NEW early, Timeless(p, early), Timeless(q, early),
         Timeless(r, early)
  PROVE  Timeless(p \o q \o r, early)
<1>1. Timeless(p \o q, early)
  BY TimelessBoth
<1>. QED
  BY <1>1, TimelessBoth

LEMMA AllTimeless ==
  ASSUME NEW early
  PROVE  /\ \A question : Timeless(Ask(question), early)
         /\ \A questions : Timeless(Together(questions), early)
         /\ \A table : Timeless(marketSessionDate(table), early)
BY AllSimple, DatesFit, AllKinds

LEMMA NearestDateFits ==
  ASSUME NEW table, NEW day, NEW early
  PROVE  Timeless(getNearestDate(table, day), early)
<1>. DEFINE k == <<"NearestDate", table, day>>
            body == Ask(<<"nearest", table, day>>)
<1>1. getNearestDate(table, day) = Cached(k, Default, body) /\ Default \in Ttls
  BY DEF getNearestDate, Ttls
<1>2. Simple(body, early)
  BY AllSimple
<1>3. k[1] = "NearestDate" /\ MarketKept(k) = Cached(k, Default, body)
  BY DEF MarketKept
<1>. HIDE DEF k, body
<1>4. Ageless(k) /\ Kept(k) = MarketKept(k)
  BY <1>3, MarketKey DEF MarketKeys
<1>. QED
  BY <1>1, <1>2, <1>3, <1>4, TimelessCached

LEMMA PriceChangePerformanceFits ==
  ASSUME NEW q, NEW early
  PROVE  Dated(priceChangePerformance(q), early)
<1>. DEFINE body == marketSessionDate("tickerTradeVND unquoted") \o Ask(<<"prices", Floor(q.ex), q.inds>>)
<1>1. Dated(body, early)
  <2>1. /\ Dated(marketSessionDate("tickerTradeVND unquoted"), early)
        /\ Dated(Ask(<<"prices", Floor(q.ex), q.inds>>), early)
    BY DatesFit, AllDated
  <2>. QED
    BY <2>1, DatedBoth
<1>. QED
  BY <1>1 DEF priceChangePerformance

LEMMA LiquidityChangePerformanceFits ==
  ASSUME NEW q, NEW early
  PROVE  Timeless(liquidityChangePerformance(q), early)
<1>. DEFINE k == <<"LiquidityChangePerformance", Floor(q.ex), q.inds>>
            body ==
                 Ask(<<"tradingDays">>)
              \o Ask(<<"liquidity", Floor(q.ex), q.inds>>)
<1>1. liquidityChangePerformance(q) = Cached(k, Default, body) /\ Default \in Ttls
  BY DEF liquidityChangePerformance, Ttls
<1>2. Simple(body, early)
  <2>1. /\ Simple(Ask(<<"tradingDays">>), early)
        /\ Simple(Ask(<<"liquidity", Floor(q.ex), q.inds>>), early)
    BY AllSimple
  <2>. QED
    BY <2>1, SimpleBoth
<1>3. k[1] = "LiquidityChangePerformance" /\ MarketKept(k) = Cached(k, Default, body)
  BY DEF MarketKept
<1>. HIDE DEF k, body
<1>4. Ageless(k) /\ Kept(k) = MarketKept(k)
  BY <1>3, MarketKey DEF MarketKeys
<1>. QED
  BY <1>1, <1>2, <1>3, <1>4, TimelessCached

LEMMA MarketCapChangePerformanceFits ==
  ASSUME NEW q, NEW early
  PROVE  Timeless(marketCapChangePerformance(q), early)
<1>. DEFINE k == <<"marketCapChange", Floor(q.ex), q.order, q.type>>
            body ==
                 Ask(<<"firstRatioDay">>)
              \o Ask(<<"marketCap", Floor(q.ex), q.order, q.type>>)
<1>1. marketCapChangePerformance(q) = Cached(k, OneDay, body) /\ OneDay \in Ttls
  BY DEF marketCapChangePerformance, Ttls
<1>2. Simple(body, early)
  <2>1. /\ Simple(Ask(<<"firstRatioDay">>), early)
        /\ Simple(Ask(<<"marketCap", Floor(q.ex), q.order, q.type>>), early)
    BY AllSimple
  <2>. QED
    BY <2>1, SimpleBoth
<1>3. k[1] = "marketCapChange" /\ MarketKept(k) = Cached(k, OneDay, body)
  BY DEF MarketKept
<1>. HIDE DEF k, body
<1>4. Ageless(k) /\ Kept(k) = MarketKept(k)
  BY <1>3, MarketKey DEF MarketKeys
<1>. QED
  BY <1>1, <1>2, <1>3, <1>4, TimelessCached

LEMMA IndsLiquidityChangePerformanceFits ==
  ASSUME NEW q, NEW early
  PROVE  Nested(indsLiquidityChangePerformance(q), early)
<1>. DEFINE k == <<"IndusLiquidity", Floor(q.ex), q.order, q.type>>
            body ==
                 getNearestDate("tickerTradeVND", <<q.order, 0>>)
              \o getNearestDate("tickerTradeVND", <<q.order, 1>>)
              \o Ask(<<"indsLiquidity", Floor(q.ex), q.order, q.type>>)
<1>1. indsLiquidityChangePerformance(q) = Cached(k, OneDay, body) /\ OneDay \in Ttls
  BY DEF indsLiquidityChangePerformance, Ttls
<1>2. Timeless(body, early)
  <2>1. /\ Timeless(getNearestDate("tickerTradeVND", <<q.order, 0>>), early)
        /\ Timeless(getNearestDate("tickerTradeVND", <<q.order, 1>>), early)
        /\ Timeless(Ask(<<"indsLiquidity", Floor(q.ex), q.order, q.type>>), early)
    BY NearestDateFits, AllTimeless
  <2>. QED
    BY <2>1, TimelessThree
<1>3. k[1] = "IndusLiquidity" /\ MarketKept(k) = Cached(k, OneDay, body)
  BY DEF MarketKept
<1>. HIDE DEF k, body
<1>4. Ageless(k) /\ Kept(k) = MarketKept(k)
  BY <1>3, MarketKey DEF MarketKeys
<1>. QED
  BY <1>1, <1>2, <1>3, <1>4, NestedCached

LEMMA EquityIndsChangePerformanceFits ==
  ASSUME NEW q, NEW early
  PROVE  Timeless(equityIndsChangePerformance(q), early)
<1>. DEFINE k == <<"EquityIndsChange", Floor(q.ex), q.order, q.type>>
            body == Ask(<<"equityInds", Floor(q.ex), q.order, q.type>>)
<1>1. equityIndsChangePerformance(q) = Cached(k, OneDay, body) /\ OneDay \in Ttls
  BY DEF equityIndsChangePerformance, Ttls, ByFloorAndPeriods
<1>2. Simple(body, early)
  BY AllSimple
<1>3. k[1] = "EquityIndsChange" /\ MarketKept(k) = Cached(k, OneDay, body)
  BY DEF MarketKept
<1>. HIDE DEF k, body
<1>4. Ageless(k) /\ Kept(k) = MarketKept(k)
  BY <1>3, MarketKey DEF MarketKeys
<1>. QED
  BY <1>1, <1>2, <1>3, <1>4, TimelessCached

LEMMA LiabilitiesIndsChangePerformanceFits ==
  ASSUME NEW q, NEW early
  PROVE  Timeless(liabilitiesIndsChangePerformance(q), early)
<1>. DEFINE k == <<"LiabilitiesIndsChange", Floor(q.ex), q.order, q.type>>
            body == Ask(<<"liabilitiesInds", Floor(q.ex), q.order, q.type>>)
<1>1. liabilitiesIndsChangePerformance(q) = Cached(k, OneDay, body) /\ OneDay \in Ttls
  BY DEF liabilitiesIndsChangePerformance, Ttls, ByFloorAndPeriods
<1>2. Simple(body, early)
  BY AllSimple
<1>3. k[1] = "LiabilitiesIndsChange" /\ MarketKept(k) = Cached(k, OneDay, body)
  BY DEF MarketKept
<1>. HIDE DEF k, body
<1>4. Ageless(k) /\ Kept(k) = MarketKept(k)
  BY <1>3, MarketKey DEF MarketKeys
<1>. QED
  BY <1>1, <1>2, <1>3, <1>4, TimelessCached

LEMMA NetRevenueIndsFits ==
  ASSUME NEW q, NEW early
  PROVE  Timeless(netRevenueInds(q), early)
<1>. DEFINE k == <<"netRevenueInds", Floor(q.ex), q.order, q.type>>
            body == Ask(<<"netRevenue", Floor(q.ex), q.order, q.type>>)
<1>1. netRevenueInds(q) = Cached(k, OneDay, body) /\ OneDay \in Ttls
  BY DEF netRevenueInds, Ttls, ByFloorAndPeriods
<1>2. Simple(body, early)
  BY AllSimple
<1>3. k[1] = "netRevenueInds" /\ MarketKept(k) = Cached(k, OneDay, body)
  BY DEF MarketKept
<1>. HIDE DEF k, body
<1>4. Ageless(k) /\ Kept(k) = MarketKept(k)
  BY <1>3, MarketKey DEF MarketKeys
<1>. QED
  BY <1>1, <1>2, <1>3, <1>4, TimelessCached

LEMMA ProfitIndsFits ==
  ASSUME NEW q, NEW early
  PROVE  Timeless(profitInds(q), early)
<1>. DEFINE k == <<"ProfitInds", Floor(q.ex), q.order, q.type>>
            body == Ask(<<"profit", Floor(q.ex), q.order, q.type>>)
<1>1. profitInds(q) = Cached(k, OneDay, body) /\ OneDay \in Ttls
  BY DEF profitInds, Ttls, ByFloorAndPeriods
<1>2. Simple(body, early)
  BY AllSimple
<1>3. k[1] = "ProfitInds" /\ MarketKept(k) = Cached(k, OneDay, body)
  BY DEF MarketKept
<1>. HIDE DEF k, body
<1>4. Ageless(k) /\ Kept(k) = MarketKept(k)
  BY <1>3, MarketKey DEF MarketKeys
<1>. QED
  BY <1>1, <1>2, <1>3, <1>4, TimelessCached

LEMMA ActivityProfitIndsFits ==
  ASSUME NEW q, NEW early
  PROVE  Timeless(activityProfitInds(q), early)
<1>. DEFINE k == <<"ActivityProfitInds", Floor(q.ex), q.order, q.type>>
            body == Ask(<<"activityProfit", Floor(q.ex), q.order, q.type>>)
<1>1. activityProfitInds(q) = Cached(k, OneDay, body) /\ OneDay \in Ttls
  BY DEF activityProfitInds, Ttls, ByFloorAndPeriods
<1>2. Simple(body, early)
  BY AllSimple
<1>3. k[1] = "ActivityProfitInds" /\ MarketKept(k) = Cached(k, OneDay, body)
  BY DEF MarketKept
<1>. HIDE DEF k, body
<1>4. Ageless(k) /\ Kept(k) = MarketKept(k)
  BY <1>3, MarketKey DEF MarketKeys
<1>. QED
  BY <1>1, <1>2, <1>3, <1>4, TimelessCached

LEMMA EbitdaIndsFits ==
  ASSUME NEW q, NEW early
  PROVE  Timeless(ebitdaInds(q), early)
<1>. DEFINE k == <<"EBITDAInds", Floor(q.ex), q.order, q.type>>
            body == Ask(<<"ebitda", Floor(q.ex), q.order, q.type>>)
<1>1. ebitdaInds(q) = Cached(k, OneDay, body) /\ OneDay \in Ttls
  BY DEF ebitdaInds, Ttls, ByFloorAndPeriods
<1>2. Simple(body, early)
  BY AllSimple
<1>3. k[1] = "EBITDAInds" /\ MarketKept(k) = Cached(k, OneDay, body)
  BY DEF MarketKept
<1>. HIDE DEF k, body
<1>4. Ageless(k) /\ Kept(k) = MarketKept(k)
  BY <1>3, MarketKey DEF MarketKeys
<1>. QED
  BY <1>1, <1>2, <1>3, <1>4, TimelessCached

LEMMA CashDividendFits ==
  ASSUME NEW q, NEW early
  PROVE  Timeless(cashDividend(q), early)
<1>. DEFINE k == <<"CashDividend", Floor(q.ex), q.order, q.type>>
            body == Ask(<<"cashDividend", Floor(q.ex), q.order, q.type>>)
<1>1. cashDividend(q) = Cached(k, OneDay, body) /\ OneDay \in Ttls
  BY DEF cashDividend, Ttls, ByFloorAndPeriods
<1>2. Simple(body, early)
  BY AllSimple
<1>3. k[1] = "CashDividend" /\ MarketKept(k) = Cached(k, OneDay, body)
  BY DEF MarketKept
<1>. HIDE DEF k, body
<1>4. Ageless(k) /\ Kept(k) = MarketKept(k)
  BY <1>3, MarketKey DEF MarketKeys
<1>. QED
  BY <1>1, <1>2, <1>3, <1>4, TimelessCached

LEMMA EpsIndsFits ==
  ASSUME NEW q, NEW early
  PROVE  Timeless(epsInds(q), early)
<1>. DEFINE k == <<"EPSInds", Floor(q.ex), q.order, q.type>>
            body == Ask(<<"eps", q.order, q.type>>)
<1>1. epsInds(q) = Cached(k, OneDay, body) /\ OneDay \in Ttls
  BY DEF epsInds, Ttls
<1>2. Simple(body, early)
  BY AllSimple
<1>3. k[1] = "EPSInds" /\ MarketKept(k) = Cached(k, OneDay, body)
  BY DEF MarketKept
<1>. HIDE DEF k, body
<1>4. Ageless(k) /\ Kept(k) = MarketKept(k)
  BY <1>3, MarketKey DEF MarketKeys
<1>. QED
  BY <1>1, <1>2, <1>3, <1>4, TimelessCached

LEMMA EquityChangePerformanceFits ==
  ASSUME NEW q, NEW early
  PROVE  Timeless(equityChangePerformance(q), early)
<1>. DEFINE k == <<"EquityChange", Floor(q.ex), q.inds>>
            body ==
                 Ask(<<"lastTwoYears">>)
              \o Ask(<<"equity", Floor(q.ex), q.inds>>)
<1>1. equityChangePerformance(q) = Cached(k, OneDay, body) /\ OneDay \in Ttls
  BY DEF equityChangePerformance, Ttls
<1>2. Simple(body, early)
  <2>1. /\ Simple(Ask(<<"lastTwoYears">>), early)
        /\ Simple(Ask(<<"equity", Floor(q.ex), q.inds>>), early)
    BY AllSimple
  <2>. QED
    BY <2>1, SimpleBoth
<1>3. k[1] = "EquityChange" /\ MarketKept(k) = Cached(k, OneDay, body)
  BY DEF MarketKept
<1>. HIDE DEF k, body
<1>4. Ageless(k) /\ Kept(k) = MarketKept(k)
  BY <1>3, MarketKey DEF MarketKeys
<1>. QED
  BY <1>1, <1>2, <1>3, <1>4, TimelessCached

LEMMA LiabilitiesChangePerformanceFits ==
  ASSUME NEW q, NEW early
  PROVE  Timeless(liabilitiesChangePerformance(q), early)
<1>. DEFINE k == <<"LiabilitiesChange", Floor(q.ex), q.inds>>
            body ==
                 Ask(<<"lastTwoYears">>)
              \o Ask(<<"liabilities", Floor(q.ex), q.inds>>)
<1>1. liabilitiesChangePerformance(q) = Cached(k, OneDay, body) /\ OneDay \in Ttls
  BY DEF liabilitiesChangePerformance, Ttls
<1>2. Simple(body, early)
  <2>1. /\ Simple(Ask(<<"lastTwoYears">>), early)
        /\ Simple(Ask(<<"liabilities", Floor(q.ex), q.inds>>), early)
    BY AllSimple
  <2>. QED
    BY <2>1, SimpleBoth
<1>3. k[1] = "LiabilitiesChange" /\ MarketKept(k) = Cached(k, OneDay, body)
  BY DEF MarketKept
<1>. HIDE DEF k, body
<1>4. Ageless(k) /\ Kept(k) = MarketKept(k)
  BY <1>3, MarketKey DEF MarketKeys
<1>. QED
  BY <1>1, <1>2, <1>3, <1>4, TimelessCached

LEMMA TopHotIndustryFits ==
  ASSUME NEW q, NEW early
  PROVE  Nested(topHotIndustry(q), early)
<1>. DEFINE k == <<"TopHotIndustry">>
            body ==
                 marketSessionDate("tickerTradeVND")
              \o Ask(<<"hotIndustry">>)
<1>1. topHotIndustry(q) = Cached(k, OneDay, body) /\ OneDay \in Ttls
  BY DEF topHotIndustry, Ttls
<1>2. Timeless(body, early)
  <2>1. /\ Timeless(marketSessionDate("tickerTradeVND"), early)
        /\ Timeless(Ask(<<"hotIndustry">>), early)
    BY AllTimeless
  <2>. QED
    BY <2>1, TimelessBoth
<1>3. k[1] = "TopHotIndustry" /\ MarketKept(k) = topHotIndustry(q)
  BY DEF MarketKept, topHotIndustry
<1>. HIDE DEF k, body
<1>4. Ageless(k) /\ Kept(k) = MarketKept(k)
  BY <1>3, MarketKey DEF MarketKeys
<1>. QED
  BY <1>1, <1>2, <1>3, <1>4, NestedCached

(* FinanceHealthService *)

LEMMA PBIndustryFits ==
  ASSUME NEW q, NEW early
  PROVE  Timeless(PBIndustry(q), early)
<1>. DEFINE k == <<"PEPBIndustry", Floor(q.ex), q.order, q.type, q.inds>>
            body ==
                 Ask(<<"ratioPeriods", q.order, q.type>>)
              \o Ask(<<"PBIndustry", Floor(q.ex), q.order, q.type, q.inds>>)
<1>1. PBIndustry(q) = Cached(k, OneWeek, body) /\ OneWeek \in Ttls
  BY DEF PBIndustry, Ttls
<1>2. Simple(body, early)
  <2>1. /\ Simple(Ask(<<"ratioPeriods", q.order, q.type>>), early)
        /\ Simple(Ask(<<"PBIndustry", Floor(q.ex), q.order, q.type, q.inds>>), early)
    BY AllSimple
  <2>. QED
    BY <2>1, SimpleBoth
<1>3. k[1] = "PEPBIndustry" /\ OtherKept(k) = Cached(k, OneWeek, body)
  BY DEF OtherKept
<1>. HIDE DEF k, body
<1>4. Ageless(k) /\ Kept(k) = OtherKept(k)
  BY <1>3, OtherKey DEF OtherKeys
<1>. QED
  BY <1>1, <1>2, <1>3, <1>4, TimelessCached

LEMMA PEIndustryFits ==
  ASSUME NEW q, NEW early
  PROVE  Timeless(PEIndustry(q), early)
<1>. DEFINE k == <<"PEIndustry", {q.ex}, q.order, q.type>>
            body ==
                 Ask(<<"ratioPeriods", q.order, q.type>>)
              \o Ask(<<"PEIndustry", {q.ex}, q.order, q.type>>)
<1>1. PEIndustry(q) = Cached(k, OneWeek, body) /\ OneWeek \in Ttls
  BY DEF PEIndustry, Ttls
<1>2. Simple(body, early)
  <2>1. /\ Simple(Ask(<<"ratioPeriods", q.order, q.type>>), early)
        /\ Simple(Ask(<<"PEIndustry", {q.ex}, q.order, q.type>>), early)
    BY AllSimple
  <2>. QED
    BY <2>1, SimpleBoth
<1>3. k[1] = "PEIndustry" /\ OtherKept(k) = Cached(k, OneWeek, body)
  BY DEF OtherKept
<1>. HIDE DEF k, body
<1>4. Ageless(k) /\ Kept(k) = OtherKept(k)
  BY <1>3, OtherKey DEF OtherKeys
<1>. QED
  BY <1>1, <1>2, <1>3, <1>4, TimelessCached

LEMMA YearOfPricesSimple == ASSUME NEW early PROVE Simple(YearOfPrices, early)
<1>1. /\ Simple(Ask(<<"lastTradingDay">>), early)
      /\ Simple(Ask(<<"tradingDayYearAgo">>), early)
      /\ Simple(Ask(<<"lastRatioPeriod">>), early)
  BY AllSimple
<1>. QED
  BY <1>1, SimpleThree DEF YearOfPrices

LEMMA PETickerFits ==
  ASSUME NEW q, NEW early
  PROVE  Timeless(PETicker(q), early)
<1>. DEFINE k == <<"PETicker", Floor(q.ex), q.inds>>
            body ==
                 YearOfPrices
              \o Ask(<<"PETicker", Floor(q.ex), q.inds>>)
<1>1. PETicker(q) = Cached(k, OneWeek, body) /\ OneWeek \in Ttls
  BY DEF PETicker, Ttls
<1>2. Simple(body, early)
  <2>1. /\ Simple(YearOfPrices, early)
        /\ Simple(Ask(<<"PETicker", Floor(q.ex), q.inds>>), early)
    BY YearOfPricesSimple, AllSimple
  <2>. QED
    BY <2>1, SimpleBoth
<1>3. k[1] = "PETicker" /\ OtherKept(k) = Cached(k, OneWeek, body)
  BY DEF OtherKept
<1>. HIDE DEF k, body
<1>4. Ageless(k) /\ Kept(k) = OtherKept(k)
  BY <1>3, OtherKey DEF OtherKeys
<1>. QED
  BY <1>1, <1>2, <1>3, <1>4, TimelessCached

LEMMA PBTickerFits ==
  ASSUME NEW q, NEW early
  PROVE  Timeless(PBTicker(q), early)
<1>. DEFINE k == <<"PBTicker", Floor(q.ex), q.inds>>
            body ==
                 YearOfPrices
              \o Ask(<<"PBTicker", Floor(q.ex), q.inds>>)
<1>1. PBTicker(q) = Cached(k, OneDay, body) /\ OneDay \in Ttls
  BY DEF PBTicker, Ttls
<1>2. Simple(body, early)
  <2>1. /\ Simple(YearOfPrices, early)
        /\ Simple(Ask(<<"PBTicker", Floor(q.ex), q.inds>>), early)
    BY YearOfPricesSimple, AllSimple
  <2>. QED
    BY <2>1, SimpleBoth
<1>3. k[1] = "PBTicker" /\ OtherKept(k) = Cached(k, OneDay, body)
  BY DEF OtherKept
<1>. HIDE DEF k, body
<1>4. Ageless(k) /\ Kept(k) = OtherKept(k)
  BY <1>3, OtherKey DEF OtherKeys
<1>. QED
  BY <1>1, <1>2, <1>3, <1>4, TimelessCached

LEMMA PayoutRatioFits ==
  ASSUME NEW q, NEW early
  PROVE  Timeless(payoutRatio(q), early)
<1>. DEFINE k == <<"PayoutRatio", q.ex, q.order>>
            body == Ask(<<"payoutRatio", q.ex, q.order>>)
<1>1. payoutRatio(q) = Cached(k, OneWeek, body) /\ OneWeek \in Ttls
  BY DEF payoutRatio, Ttls
<1>2. Simple(body, early)
  BY AllSimple
<1>3. k[1] = "PayoutRatio" /\ OtherKept(k) = Cached(k, OneWeek, body)
  BY DEF OtherKept
<1>. HIDE DEF k, body
<1>4. Ageless(k) /\ Kept(k) = OtherKept(k)
  BY <1>3, OtherKey DEF OtherKeys
<1>. QED
  BY <1>1, <1>2, <1>3, <1>4, TimelessCached

LEMMA CashRatioFits ==
  ASSUME NEW q, NEW early
  PROVE  Timeless(cashRatio(q), early)
<1>. DEFINE k == <<"CashRatio", q.ex, q.order>>
            body ==
                 Ask(<<"lastReportYear", "CashRatio">>)
              \o Ask(<<"cashRatio", q.ex, q.order>>)
<1>1. cashRatio(q) = Cached(k, OneWeek, body) /\ OneWeek \in Ttls
  BY DEF cashRatio, Ttls, SinceLastReport
<1>2. Simple(body, early)
  <2>1. /\ Simple(Ask(<<"lastReportYear", "CashRatio">>), early)
        /\ Simple(Ask(<<"cashRatio", q.ex, q.order>>), early)
    BY AllSimple
  <2>. QED
    BY <2>1, SimpleBoth
<1>3. k[1] = "CashRatio" /\ OtherKept(k) = Cached(k, OneWeek, body)
  BY DEF OtherKept
<1>. HIDE DEF k, body
<1>4. Ageless(k) /\ Kept(k) = OtherKept(k)
  BY <1>3, OtherKey DEF OtherKeys
<1>. QED
  BY <1>1, <1>2, <1>3, <1>4, TimelessCached

LEMMA RotationRatioFits ==
  ASSUME NEW q, NEW early
  PROVE  Timeless(rotationRatio(q), early)
<1>. DEFINE k == <<"RotaionRatio", q.ex, q.order>>
            body ==
                 Ask(<<"lastReportYear", "RotaionRatio">>)
              \o Ask(<<"rotationRatio", q.ex, q.order>>)
<1>1. rotationRatio(q) = Cached(k, OneWeek, body) /\ OneWeek \in Ttls
  BY DEF rotationRatio, Ttls, SinceLastReport
<1>2. Simple(body, early)
  <2>1. /\ Simple(Ask(<<"lastReportYear", "RotaionRatio">>), early)
        /\ Simple(Ask(<<"rotationRatio", q.ex, q.order>>), early)
    BY AllSimple
  <2>. QED
    BY <2>1, SimpleBoth
<1>3. k[1] = "RotaionRatio" /\ OtherKept(k) = Cached(k, OneWeek, body)
  BY DEF OtherKept
<1>. HIDE DEF k, body
<1>4. Ageless(k) /\ Kept(k) = OtherKept(k)
  BY <1>3, OtherKey DEF OtherKeys
<1>. QED
  BY <1>1, <1>2, <1>3, <1>4, TimelessCached

LEMMA IndsDebtSolvencyFits ==
  ASSUME NEW q, NEW early
  PROVE  Timeless(indsDebtSolvency(q), early)
<1>. DEFINE k == <<"IndsDebtSolvency", q.ex, q.order>>
            body ==
                 Ask(<<"lastReportYear", "IndsDebtSolvency">>)
              \o Ask(<<"indsDebtSolvency", q.ex, q.order>>)
<1>1. indsDebtSolvency(q) = Cached(k, OneWeek, body) /\ OneWeek \in Ttls
  BY DEF indsDebtSolvency, Ttls, SinceLastReport
<1>2. Simple(body, early)
  <2>1. /\ Simple(Ask(<<"lastReportYear", "IndsDebtSolvency">>), early)
        /\ Simple(Ask(<<"indsDebtSolvency", q.ex, q.order>>), early)
    BY AllSimple
  <2>. QED
    BY <2>1, SimpleBoth
<1>3. k[1] = "IndsDebtSolvency" /\ OtherKept(k) = Cached(k, OneWeek, body)
  BY DEF OtherKept
<1>. HIDE DEF k, body
<1>4. Ageless(k) /\ Kept(k) = OtherKept(k)
  BY <1>3, OtherKey DEF OtherKeys
<1>. QED
  BY <1>1, <1>2, <1>3, <1>4, TimelessCached

LEMMA IndsProfitMarginsFits ==
  ASSUME NEW q, NEW early
  PROVE  Timeless(indsProfitMargins(q), early)
<1>. DEFINE k == <<"IndsProfitMargins", Floor(q.ex), q.order, q.type>>
            body == Ask(<<"indsProfitMargins", Floor(q.ex), q.order, q.type>>)
<1>1. indsProfitMargins(q) = Cached(k, OneWeek, body) /\ OneWeek \in Ttls
  BY DEF indsProfitMargins, Ttls
<1>2. Simple(body, early)
  BY AllSimple
<1>3. k[1] = "IndsProfitMargins" /\ OtherKept(k) = Cached(k, OneWeek, body)
  BY DEF OtherKept
<1>. HIDE DEF k, body
<1>4. Ageless(k) /\ Kept(k) = OtherKept(k)
  BY <1>3, OtherKey DEF OtherKeys
<1>. QED
  BY <1>1, <1>2, <1>3, <1>4, TimelessCached

LEMMA IndsInterestCoverageFits ==
  ASSUME NEW q, NEW early
  PROVE  Timeless(indsInterestCoverage(q), early)
<1>. DEFINE k == <<"IndsInterestCoverage", q.ex, q.order, q.type>>
            body == Ask(<<"indsInterestCoverage", q.ex, q.order, q.type>>)
<1>1. indsInterestCoverage(q) = Cached(k, OneWeek, body) /\ OneWeek \in Ttls
  BY DEF indsInterestCoverage, Ttls
<1>2. Simple(body, early)
  BY AllSimple
<1>3. k[1] = "IndsInterestCoverage" /\ OtherKept(k) = Cached(k, OneWeek, body)
  BY DEF OtherKept
<1>. HIDE DEF k, body
<1>4. Ageless(k) /\ Kept(k) = OtherKept(k)
  BY <1>3, OtherKey DEF OtherKeys
<1>. QED
  BY <1>1, <1>2, <1>3, <1>4, TimelessCached

LEMMA InterestRatesOnLoansFits ==
  ASSUME NEW q, NEW early
  PROVE  Timeless(interestRatesOnLoans(q), early)
<1>. DEFINE k == <<"interestRatesOnLoans", q.ex, q.order, q.type>>
<1>1. /\ interestRatesOnLoans(q) = Cached(k, OneWeek, Ask(k))
      /\ k[1] \in PlainKeys /\ OneWeek = PlainTtl(k[1])
  BY PlainTtls DEF interestRatesOnLoans, WeekKeys
<1>. HIDE DEF k
<1>. QED
  BY <1>1, PlainFits

LEMMA IndsProfitMarginsTableFits ==
  ASSUME NEW q, NEW early
  PROVE  Timeless(indsProfitMarginsTable(q), early)
<1>. DEFINE k == <<"indsProfitMarginsTable", q.ex, q.order>>
            body ==
                 Ask(<<"lastPBDate">>)
              \o Ask(<<"indsProfitMarginsTable", q.ex, q.order>>)
<1>1. indsProfitMarginsTable(q) = Unread(k, OneWeek, body) /\ OneWeek \in Ttls
  BY DEF indsProfitMarginsTable, Ttls
<1>2. Simple(body, early)
  <2>1. /\ Simple(Ask(<<"lastPBDate">>), early)
        /\ Simple(Ask(<<"indsProfitMarginsTable", q.ex, q.order>>), early)
    BY AllSimple
  <2>. QED
    BY <2>1, SimpleBoth
<1>3. Unlooked(k)
  BY DEF Unlooked, UnlookedKeys
<1>. HIDE DEF k, body
<1>. QED
  BY <1>1, <1>2, <1>3, TimelessUnread

LEMMA NetProfitMarginByIndustriesFits ==
  ASSUME NEW q, NEW early
  PROVE  Timeless(netProfitMarginByIndustries(q), early)
<1>. DEFINE k == <<"netProfitMarginByIndustries", q.ex, q.order, q.type>>
            body ==
                 Ask(<<"lastPBDate">>)
              \o Ask(<<"netProfitMargin", q.ex, q.order, q.type>>)
<1>1. netProfitMarginByIndustries(q) = Cached(k, OneWeek, body) /\ OneWeek \in Ttls
  BY DEF netProfitMarginByIndustries, Ttls
<1>2. Simple(body, early)
  <2>1. /\ Simple(Ask(<<"lastPBDate">>), early)
        /\ Simple(Ask(<<"netProfitMargin", q.ex, q.order, q.type>>), early)
    BY AllSimple
  <2>. QED
    BY <2>1, SimpleBoth
<1>3. k[1] = "netProfitMarginByIndustries" /\ OtherKept(k) = Cached(k, OneWeek, body)
  BY DEF OtherKept
<1>. HIDE DEF k, body
<1>4. Ageless(k) /\ Kept(k) = OtherKept(k)
  BY <1>3, OtherKey DEF OtherKeys
<1>. QED
  BY <1>1, <1>2, <1>3, <1>4, TimelessCached

(* SharesService *)

LEMMA PlainSharesFit ==
  ASSUME NEW q, NEW early
  PROVE  /\ Simple(searchStock(q), early)
         /\ Simple(candleChart(q), early)
         /\ Simple(transactionData(q), early)
         /\ Simple(eventCalendarDetail(q), early)
         /\ Simple(newsStock(q), early)
<1>1. Simple(searchStock(q), early)
  BY AllSimple DEF searchStock
<1>2. Simple(candleChart(q), early)
  BY AllSimple DEF candleChart
<1>3. Simple(transactionData(q), early)
  BY AllSimple DEF transactionData
<1>4. Simple(eventCalendarDetail(q), early)
  BY AllSimple DEF eventCalendarDetail
<1>5. Simple(newsStock(q), early)
  BY AllSimple DEF newsStock
<1>. QED
  BY <1>1, <1>2, <1>3, <1>4, <1>5

LEMMA HeaderFits ==
  ASSUME NEW q, NEW early
  PROVE  Timeless(header(q), early)
<1>. DEFINE k == <<"headerStock", q.stock, q.type>>
            last == Ask(<<"monthAgo">>) \o Ask(<<"yearAgo">>)
                      \o Ask(<<"header", q.stock, q.type>>)
            own == IF Kind(q.stock) # q.type THEN Refuse ELSE last
            known == Ask(<<"tradeDate", q.stock>>) \o Ask(<<"kind", q.stock>>) \o own
            rest == IF ~Known(q.stock) THEN Stop ELSE known
            body == Ask(<<"ratioDate", q.stock>>) \o rest
<1>1. header(q) = Cached(k, Minute, body) /\ Minute \in Ttls
  BY DEF header, Ttls
<1>2. Simple(body, early)
  <2>1. /\ Simple(Ask(<<"monthAgo">>), early) /\ Simple(Ask(<<"yearAgo">>), early)
        /\ Simple(Ask(<<"header", q.stock, q.type>>), early)
        /\ Simple(Ask(<<"tradeDate", q.stock>>), early)
        /\ Simple(Ask(<<"kind", q.stock>>), early)
        /\ Simple(Ask(<<"ratioDate", q.stock>>), early)
        /\ Simple(Refuse, early) /\ Simple(Stop, early)
    BY AllSimple
  <2>2. Simple(last, early)
    BY <2>1, SimpleThree
  <2>. HIDE DEF last
  <2>3. Simple(own, early)
    BY <2>1, <2>2
  <2>. HIDE DEF own
  <2>4. Simple(known, early)
    BY <2>1, <2>3, SimpleThree
  <2>. HIDE DEF known
  <2>5. Simple(rest, early)
    BY <2>1, <2>4
  <2>. QED
    BY <2>1, <2>5, SimpleBoth
<1>3. k[1] = "headerStock" /\ SharesKept(k) = header(q)
  BY DEF SharesKept, header
<1>. HIDE DEF k, body
<1>4. Ageless(k) /\ Kept(k) = SharesKept(k)
  BY <1>3, SharesKey DEF SharesKeys
<1>. QED
  BY <1>1, <1>2, <1>3, <1>4, TimelessCached

LEMMA TransactionStatisticsFits ==
  ASSUME NEW q, NEW early
  PROVE  Timeless(transactionStatistics(q), early)
<1>. DEFINE k == <<"transactionStatistics", q.stock>>
            body == Ask(<<"statistics", q.stock>>)
<1>1. transactionStatistics(q) = Cached(k, HaftHour, body) /\ HaftHour \in Ttls
  BY DEF transactionStatistics, Ttls
<1>2. Simple(body, early)
  BY AllSimple
<1>3. k[1] = "transactionStatistics" /\ SharesKept(k) = transactionStatistics(q)
  BY DEF SharesKept, transactionStatistics
<1>. HIDE DEF k, body
<1>4. Ageless(k) /\ Kept(k) = SharesKept(k)
  BY <1>3, SharesKey DEF SharesKeys
<1>. QED
  BY <1>1, <1>2, <1>3, <1>4, TimelessCached

LEMMA BusinessResultsFits ==
  ASSUME NEW q, NEW early
  PROVE  Timeless(businessResults(q), early)
<1>. DEFINE k == <<"businessResults", q.order, q.stock, q.type>>
<1>1. /\ businessResults(q) = Cached(k, OneDay, Ask(k))
      /\ k[1] \in PlainKeys /\ OneDay = PlainTtl(k[1])
  BY PlainTtls DEF businessResults, DayKeys
<1>. HIDE DEF k
<1>. QED
  BY <1>1, PlainFits

LEMMA BalanceSheetFits ==
  ASSUME NEW q, NEW early
  PROVE  Timeless(balanceSheet(q), early)
<1>. DEFINE k == <<"balanceSheet", q.order, q.stock, q.type>>
<1>1. /\ balanceSheet(q) = Cached(k, OneDay, Ask(k))
      /\ k[1] \in PlainKeys /\ OneDay = PlainTtl(k[1])
  BY PlainTtls DEF balanceSheet, DayKeys
<1>. HIDE DEF k
<1>. QED
  BY <1>1, PlainFits

LEMMA CastFlowFits ==
  ASSUME NEW q, NEW early
  PROVE  Timeless(castFlow(q), early)
<1>. DEFINE k == <<"castFlow", q.order, q.stock>>
<1>1. /\ castFlow(q) = Cached(k, OneDay, Ask(k))
      /\ k[1] \in PlainKeys /\ OneDay = PlainTtl(k[1])
  BY PlainTtls DEF castFlow, DayKeys
<1>. HIDE DEF k
<1>. QED
  BY <1>1, PlainFits

LEMMA FinancialIndicatorsFits ==
  ASSUME NEW q, NEW early
  PROVE  Timeless(financialIndicators(q), early)
<1>. DEFINE k == <<"financialIndicators", q.stock>>
<1>1. /\ financialIndicators(q) = Cached(k, OneWeek, Ask(k))
      /\ k[1] \in PlainKeys /\ OneWeek = PlainTtl(k[1])
  BY PlainTtls DEF financialIndicators, WeekKeys
<1>. HIDE DEF k
<1>. QED
  BY <1>1, PlainFits

LEMMA EnterprisesSameIndustryFits ==
  ASSUME NEW q, NEW early
  PROVE  Timeless(enterprisesSameIndustry(q), early)
<1>. DEFINE k == <<"enterprisesSameIndustry", q.ex, q.stock>>
            body ==
                 Ask(<<"ratioDate", q.stock>>)
              \o Ask(<<"sameIndustry", q.ex, q.stock>>)
<1>1. enterprisesSameIndustry(q) = Cached(k, HaftHour, body) /\ HaftHour \in Ttls
  BY DEF enterprisesSameIndustry, Ttls
<1>2. Simple(body, early)
  <2>1. /\ Simple(Ask(<<"ratioDate", q.stock>>), early)
        /\ Simple(Ask(<<"sameIndustry", q.ex, q.stock>>), early)
    BY AllSimple
  <2>. QED
    BY <2>1, SimpleBoth
<1>3. k[1] = "enterprisesSameIndustry" /\ SharesKept(k) = enterprisesSameIndustry(q)
  BY DEF SharesKept, enterprisesSameIndustry
<1>. HIDE DEF k, body
<1>4. Ageless(k) /\ Kept(k) = SharesKept(k)
  BY <1>3, SharesKey DEF SharesKeys
<1>. QED
  BY <1>1, <1>2, <1>3, <1>4, TimelessCached

LEMMA EventCalendarFits ==
  ASSUME NEW q, NEW early
  PROVE  Timeless(eventCalendar(q), early)
<1>. DEFINE k == <<"eventCalendar", q.stock>>
<1>1. /\ eventCalendar(q) = Cached(k, OneDay, Ask(k))
      /\ k[1] \in PlainKeys /\ OneDay = PlainTtl(k[1])
  BY PlainTtls DEF eventCalendar, DayKeys
<1>. HIDE DEF k
<1>. QED
  BY <1>1, PlainFits

LEMMA TradingPriceFluctuationsFits ==
  ASSUME NEW q, NEW early
  PROVE  Timeless(tradingPriceFluctuations(q), early)
<1>. DEFINE k == <<"tradingPriceFluctuations", q.stock>>
            body ==
                 Ask(<<"lastTradingDay", "now">>)
              \o Ask(<<"lastTradingDay", "week">>)
              \o Ask(<<"lastTradingDay", "month">>)
              \o Ask(<<"lastTradingDay", "year">>)
              \o Ask(<<"lastTradingDay", "quarter_start">>)
              \o Ask(<<"lastTradingDay", "quarter_end">>)
              \o Ask(<<"priceFluctuations", q.stock>>)
<1>1. tradingPriceFluctuations(q) = Cached(k, HaftHour, body) /\ HaftHour \in Ttls
  BY DEF tradingPriceFluctuations, Ttls
<1>2. Simple(body, early)
  <2>1. /\ Simple(Ask(<<"lastTradingDay", "now">>), early)
        /\ Simple(Ask(<<"lastTradingDay", "week">>), early)
        /\ Simple(Ask(<<"lastTradingDay", "month">>), early)
        /\ Simple(Ask(<<"lastTradingDay", "year">>), early)
        /\ Simple(Ask(<<"lastTradingDay", "quarter_start">>), early)
        /\ Simple(Ask(<<"lastTradingDay", "quarter_end">>), early)
        /\ Simple(Ask(<<"priceFluctuations", q.stock>>), early)
    BY AllSimple
  <2>2. Simple(Ask(<<"lastTradingDay", "now">>) \o Ask(<<"lastTradingDay", "week">>) \o Ask(<<"lastTradingDay", "month">>), early)
    BY <2>1, SimpleThree
  <2>3. Simple(Ask(<<"lastTradingDay", "now">>) \o Ask(<<"lastTradingDay", "week">>) \o Ask(<<"lastTradingDay", "month">>) \o Ask(<<"lastTradingDay", "year">>) \o Ask(<<"lastTradingDay", "quarter_start">>), early)
    BY <2>1, <2>2, SimpleThree
  <2>. QED
    BY <2>1, <2>3, SimpleThree
<1>3. k[1] = "tradingPriceFluctuations" /\ SharesKept(k) = tradingPriceFluctuations(q)
  BY DEF SharesKept, tradingPriceFluctuations
<1>. HIDE DEF k, body
<1>4. Ageless(k) /\ Kept(k) = SharesKept(k)
  BY <1>3, SharesKey DEF SharesKeys
<1>. QED
  BY <1>1, <1>2, <1>3, <1>4, TimelessCached

LEMMA AverageTradingVolumeFits ==
  ASSUME NEW q, NEW early
  PROVE  Timeless(averageTradingVolume(q), early)
<1>. DEFINE k == <<"averageTradingVolume", q.stock>>
            body == Ask(<<"averageVolume", q.stock>>)
<1>1. averageTradingVolume(q) = Cached(k, HaftHour, body) /\ HaftHour \in Ttls
  BY DEF averageTradingVolume, Ttls
<1>2. Simple(body, early)
  BY AllSimple
<1>3. k[1] = "averageTradingVolume" /\ SharesKept(k) = averageTradingVolume(q)
  BY DEF SharesKept, averageTradingVolume
<1>. HIDE DEF k, body
<1>4. Ageless(k) /\ Kept(k) = SharesKept(k)
  BY <1>3, SharesKey DEF SharesKeys
<1>. QED
  BY <1>1, <1>2, <1>3, <1>4, TimelessCached

LEMMA StatisticsMonthQuarterYearFits ==
  ASSUME NEW q, NEW early
  PROVE  Timeless(statisticsMonthQuarterYear(q), early)
<1>. DEFINE k == <<"statisticsMonthQuarterYear", q.order, q.stock>>
            body == Ask(<<"statisticsByPeriod", q.order, q.stock>>)
<1>1. statisticsMonthQuarterYear(q) = Cached(k, OneWeek, body) /\ OneWeek \in Ttls
  BY DEF statisticsMonthQuarterYear, Ttls
<1>2. Simple(body, early)
  BY AllSimple
<1>3. k[1] = "statisticsMonthQuarterYear" /\ SharesKept(k) = statisticsMonthQuarterYear(q)
  BY DEF SharesKept, statisticsMonthQuarterYear
<1>. HIDE DEF k, body
<1>4. Ageless(k) /\ Kept(k) = SharesKept(k)
  BY <1>3, SharesKey DEF SharesKeys
<1>. QED
  BY <1>1, <1>2, <1>3, <1>4, TimelessCached

LEMMA TradingGroupsInvestorsFits ==
  ASSUME NEW q, NEW early
  PROVE  Timeless(tradingGroupsInvestors(q), early)
<1>. DEFINE k == <<"tradingGroupsInvestors", q.stock>>
            body == Ask(<<"groupsInvestors", q.stock>>)
<1>1. tradingGroupsInvestors(q) = Cached(k, HaftHour, body) /\ HaftHour \in Ttls
  BY DEF tradingGroupsInvestors, Ttls
<1>2. Simple(body, early)
  BY AllSimple
<1>3. k[1] = "tradingGroupsInvestors" /\ SharesKept(k) = tradingGroupsInvestors(q)
  BY DEF SharesKept, tradingGroupsInvestors
<1>. HIDE DEF k, body
<1>4. Ageless(k) /\ Kept(k) = SharesKept(k)
  BY <1>3, SharesKey DEF SharesKeys
<1>. QED
  BY <1>1, <1>2, <1>3, <1>4, TimelessCached

LEMMA CastFlowDetailFits ==
  ASSUME NEW q, NEW early
  PROVE  Timeless(castFlowDetail(q), early)
<1>. DEFINE k == <<"castFlowDetail", q.order, q.stock, q.chart>>
            body ==
                 Ask(<<"LV2", q.stock>>)
              \o Ask(<<"castFlowDetail", q.order, q.stock, q.chart>>)
<1>1. castFlowDetail(q) = Cached(k, OneWeek, body) /\ OneWeek \in Ttls
  BY DEF castFlowDetail, Ttls
<1>2. Simple(body, early)
  <2>1. /\ Simple(Ask(<<"LV2", q.stock>>), early)
        /\ Simple(Ask(<<"castFlowDetail", q.order, q.stock, q.chart>>), early)
    BY AllSimple
  <2>. QED
    BY <2>1, SimpleBoth
<1>3. k[1] = "castFlowDetail" /\ SharesKept(k) = castFlowDetail(q)
  BY DEF SharesKept, castFlowDetail
<1>. HIDE DEF k, body
<1>4. Ageless(k) /\ Kept(k) = SharesKept(k)
  BY <1>3, SharesKey DEF SharesKeys
<1>. QED
  BY <1>1, <1>2, <1>3, <1>4, TimelessCached

LEMMA KnownSectorFits ==
  ASSUME NEW q, NEW rest, NEW early, Timeless(rest, early)
  PROVE  Timeless(OfKnownSector(q, rest), early)
<1>. DEFINE then == IF Known(q.stock) THEN rest ELSE Stop
<1>1. Timeless(Ask(<<"LV2", q.stock>>), early) /\ Timeless(Stop, early)
  BY AllSimple, AllKinds
<1>2. Timeless(then, early)
  BY <1>1
<1>3. OfKnownSector(q, rest) = Ask(<<"LV2", q.stock>>) \o then
  BY DEF OfKnownSector
<1>. HIDE DEF then
<1>. QED
  BY <1>1, <1>2, <1>3, TimelessBoth

LEMMA DetailsFit ==
  ASSUME NEW q, NEW early
  PROVE  /\ Timeless(businessResultDetail(q), early)
         /\ Timeless(balanceSheetDetail(q), early)
         /\ Timeless(balanceSheetDetailCircle(q), early)
         /\ Timeless(financialIndicatorsDetail(q), early)
<1>1. Timeless(businessResultDetail(q), early)
  <2>. DEFINE k == <<"businessResultDetail", q.order, q.stock, q.chart>>
  <2>1. /\ businessResultDetail(q) = OfKnownSector(q, Cached(k, OneWeek, Ask(k)))
        /\ k[1] \in PlainKeys /\ OneWeek = PlainTtl(k[1])
    BY PlainTtls DEF businessResultDetail, WeekKeys
  <2>. HIDE DEF k
  <2>. QED
    BY <2>1, PlainFits, KnownSectorFits
<1>2. Timeless(balanceSheetDetail(q), early)
  <2>. DEFINE k == <<"balanceSheetDetail", q.order, q.stock, q.chart>>
  <2>1. /\ balanceSheetDetail(q) = OfKnownSector(q, Cached(k, OneWeek, Ask(k)))
        /\ k[1] \in PlainKeys /\ OneWeek = PlainTtl(k[1])
    BY PlainTtls DEF balanceSheetDetail, WeekKeys
  <2>. HIDE DEF k
  <2>. QED
    BY <2>1, PlainFits, KnownSectorFits
<1>3. Timeless(balanceSheetDetailCircle(q), early)
  <2>. DEFINE k == <<"balanceSheetDetailCircle", q.order, q.stock>>
  <2>1. /\ balanceSheetDetailCircle(q) = OfKnownSector(q, Cached(k, OneWeek, Ask(k)))
        /\ k[1] \in PlainKeys /\ OneWeek = PlainTtl(k[1])
    BY PlainTtls DEF balanceSheetDetailCircle, WeekKeys
  <2>. HIDE DEF k
  <2>. QED
    BY <2>1, PlainFits, KnownSectorFits
<1>4. Timeless(financialIndicatorsDetail(q), early)
  <2>. DEFINE k == <<"financialIndicatorsDetail", q.order, q.stock, q.chart>>
  <2>1. /\ financialIndicatorsDetail(q) = OfKnownSector(q, Cached(k, OneDay, Ask(k)))
        /\ k[1] \in PlainKeys /\ OneDay = PlainTtl(k[1])
    BY PlainTtls DEF financialIndicatorsDetail, DayKeys
  <2>. HIDE DEF k
  <2>. QED
    BY <2>1, PlainFits, KnownSectorFits
<1>. QED
  BY <1>1, <1>2, <1>3, <1>4

(* The ratings *)

LEMMA TechniqueRatingFits ==
  ASSUME NEW q, NEW early
  PROVE  Timeless(techniqueRating(q), early)
<1>. DEFINE k == <<"techniqueRating", q.stock>>
            body == Together({<<"technique", q.stock>>, <<"techniqueIndustry", q.stock>>, <<"techniqueMarket">>})
<1>1. techniqueRating(q) = Cached(k, OneDay, body) /\ OneDay \in Ttls
  BY DEF techniqueRating, Ttls
<1>2. Simple(body, early)
  BY AllSimple
<1>3. k[1] = "techniqueRating" /\ SharesKept(k) = techniqueRating(q)
  BY DEF SharesKept, techniqueRating
<1>. HIDE DEF k, body
<1>4. Ageless(k) /\ Kept(k) = SharesKept(k)
  BY <1>3, SharesKey DEF SharesKeys
<1>. QED
  BY <1>1, <1>2, <1>3, <1>4, TimelessCached

LEMMA HeaderRatingFits ==
  ASSUME NEW q, NEW early
  PROVE  Timeless(headerRating(q), early)
<1>. DEFINE k == <<"headerRating", q.stock>>
            body == Together({<<"headerRating", i, q.stock>> : i \in 1..4})
<1>1. headerRating(q) = Unread(k, OneDay, body) /\ OneDay \in Ttls
  BY DEF headerRating, Ttls
<1>2. Simple(body, early)
  BY AllSimple
<1>3. Unlooked(k)
  BY DEF Unlooked, UnlookedKeys
<1>. HIDE DEF k, body
<1>. QED
  BY <1>1, <1>2, <1>3, TimelessUnread

LEMMA ValuationRatingFits ==
  ASSUME NEW q, NEW early
  PROVE  Timeless(valuationRating(q), early)
<1>. DEFINE k == <<"valuationRating", q.stock>>
            ask == Together({<<"valuation", q.stock>>, <<"valuationIndustry", q.stock>>,
                             <<"valuationMarket">>})
            rest == IF Known(q.stock) THEN <<>> ELSE Stop
            body == ask \o rest
<1>1. valuationRating(q) = Cached(k, FiveMinutes, body) /\ FiveMinutes \in Ttls
  BY DEF valuationRating, Ttls
<1>2. Simple(body, early)
  <2>1. Simple(ask, early) /\ Simple(<<>>, early) /\ Simple(Stop, early)
    BY AllSimple
  <2>2. Simple(rest, early)
    BY <2>1
  <2>. QED
    BY <2>1, <2>2, SimpleBoth
<1>3. k[1] = "valuationRating" /\ SharesKept(k) = valuationRating(q)
  BY DEF SharesKept, valuationRating
<1>. HIDE DEF k, body
<1>4. Ageless(k) /\ Kept(k) = SharesKept(k)
  BY <1>3, SharesKey DEF SharesKeys
<1>. QED
  BY <1>1, <1>2, <1>3, <1>4, TimelessCached

LEMMA BusinessRatingFits ==
  ASSUME NEW q, NEW early
  PROVE  Timeless(businessRating(q), early)
<1>. DEFINE k == <<"businessRating", q.stock>>
            asked == {<<"business", i, q.stock>> : i \in 1..4} \cup {<<"LV2", q.stock>>}
            body == Ask(<<"businessQuarter">>) \o Together(asked)
<1>1. businessRating(q) = Cached(k, OneDay, body) /\ OneDay \in Ttls
  BY DEF businessRating, Ttls
<1>2. Simple(body, early)
  <2>1. Simple(Ask(<<"businessQuarter">>), early) /\ Simple(Together(asked), early)
    BY AllSimple
  <2>. QED
    BY <2>1, SimpleBoth
<1>3. k[1] = "businessRating" /\ SharesKept(k) = businessRating(q)
  BY DEF SharesKept, businessRating
<1>. HIDE DEF k, body
<1>4. Ageless(k) /\ Kept(k) = SharesKept(k)
  BY <1>3, SharesKey DEF SharesKeys
<1>. QED
  BY <1>1, <1>2, <1>3, <1>4, TimelessCached

\* What redis has of tyLeCoTucTienMat is never looked at.
LEMMA IndividualInvestorBenefitsRatingFits ==
  ASSUME NEW q, NEW early, early
  PROVE  Timeless(individualInvestorBenefitsRating(q), early)
<1>. DEFINE k == <<"individualInvestorBenefitsRating", q.stock>>
            dates == Ask(<<"benefitDates", q.stock>>)
            started == Start({<<"benefits", i, q.stock>> : i \in {1, 2, 4}})
            third == Ask(<<"benefits", 3, q.stock>>)
            share == ShareIfAbsent(<<"tyLeCoTucTienMat">>, OneWeek, {<<"benefits", 3, q.stock>>})
            body == dates \o started \o third \o share \o Join({})
<1>1. individualInvestorBenefitsRating(q) = Cached(k, OneDay, body) /\ OneDay \in Ttls
  BY DEF individualInvestorBenefitsRating, Ttls
<1>2. Simple(share, early)
  <2>. DEFINE key == <<"tyLeCoTucTienMat">>
              s == [op |-> "share", key |-> key, ttl |-> OneWeek,
                    only |-> {<<"benefits", 3, q.stock>>}, absent |-> TRUE]
  <2>1. share = <<s>> /\ s.op = "share" /\ s.key = key /\ s.ttl = OneWeek
    BY DEF ShareIfAbsent
  <2>2. ~Never(key) /\ Unlooked(key) /\ Old(key) = Any
    BY UnlookedIs DEF Unlooked, UnlookedKeys
  <2>3. OneWeek \in Nat \ {0}
    BY LifetimesAre
  <2>. HIDE DEF s, key, share
  <2>4. ASSUME NEW n \in Nat, NEW o \in Ages PROVE Fits(<<s>>, n, o, early)
    BY <2>1, <2>2, <2>3, SharingFits
  <2>5. Flat(<<s>>[1]) /\ IsProgram(<<s>>) /\ Len(<<s>>) = 1
    BY <2>1, <2>2, OneStep DEF Flat
  <2>6. KeepsTime(<<s>>)
    BY <2>5, FlatKeepsTime
  <2>. QED
    BY <2>1, <2>4, <2>6 DEF Simple, Within, Foretold
<1>3. Simple(body, early)
  <2>1. /\ Simple(dates, early) /\ Simple(started, early) /\ Simple(third, early)
        /\ Simple(Join({}), early)
    BY AllSimple, EarlySimple
  <2>. HIDE DEF dates, started, third, share
  <2>2. Simple(dates \o started \o third, early)
    BY <2>1, SimpleThree
  <2>. QED
    BY <1>2, <2>1, <2>2, SimpleThree
<1>4. /\ k[1] = "individualInvestorBenefitsRating"
      /\ SharesKept(k) = individualInvestorBenefitsRating(q)
  BY DEF SharesKept, individualInvestorBenefitsRating
<1>. HIDE DEF k, body
<1>5. Ageless(k) /\ Kept(k) = SharesKept(k)
  BY <1>4, SharesKey DEF SharesKeys
<1>. QED
  BY <1>1, <1>3, <1>4, <1>5, TimelessCached

LEMMA BusinessPositionRatingFits ==
  ASSUME NEW q, NEW early, early
  PROVE  Timeless(businessPositionRating(q), early)
<1>. DEFINE k == <<"businessPositionRating", q.stock>>
            first == Start({<<"position", 1, q.stock>>, <<"position", 4, q.stock>>})
            now == Ask(<<"lastForeignDate">>)
            ago == Ask(<<"foreignDateYearAgo">>)
            second == Start({<<"position", 2, q.stock>>})
            quarter == Ask(<<"reportQuarter">>)
            join == Join({<<"position", 3, q.stock>>})
            known == first \o now \o ago \o second \o quarter \o join
            rest == IF ~Known(q.stock) THEN Refuse ELSE known
            body == Ask(<<"LV2", q.stock>>) \o rest
<1>1. businessPositionRating(q) = Cached(k, OneDay, body) /\ OneDay \in Ttls
  BY DEF businessPositionRating, Ttls
<1>2. Simple(body, early)
  <2>1. /\ Simple(now, early) /\ Simple(ago, early) /\ Simple(quarter, early)
        /\ Simple(join, early) /\ Simple(Refuse, early)
        /\ Simple(Ask(<<"LV2", q.stock>>), early)
    BY AllSimple
  <2>2. Simple(first, early) /\ Simple(second, early)
    BY EarlySimple
  <2>. HIDE DEF first, now, ago, second, quarter, join
  <2>3. Simple(first \o now \o ago, early)
    BY <2>1, <2>2, SimpleThree
  <2>4. Simple(first \o now \o ago \o second \o quarter, early)
    BY <2>1, <2>2, <2>3, SimpleThree
  <2>5. Simple(known, early)
    BY <2>1, <2>4, SimpleBoth
  <2>. HIDE DEF known
  <2>6. Simple(rest, early)
    BY <2>1, <2>5
  <2>. QED
    BY <2>1, <2>6, SimpleBoth
<1>3. k[1] = "businessPositionRating" /\ SharesKept(k) = businessPositionRating(q)
  BY DEF SharesKept, businessPositionRating
<1>. HIDE DEF k, body
<1>4. Ageless(k) /\ Kept(k) = SharesKept(k)
  BY <1>3, SharesKey DEF SharesKeys
<1>. QED
  BY <1>1, <1>2, <1>3, <1>4, TimelessCached

LEMMA CanslimPrefilterFits ==
  ASSUME NEW q, NEW early, early
  PROVE  Nested(canslimPrefilter(q), early)
<1>. DEFINE k == <<"canslimPrefilter", q.stock>>
            quarter == Ask(<<"canslimQuarter", q.stock>>)
            three == Together({<<"canslim", i, q.stock>> : i \in 1..3})
            benefits == individualInvestorBenefitsRating(q)
            position == businessPositionRating(q)
            business == businessRating(q)
            body == quarter \o three \o benefits \o position \o business
<1>1. canslimPrefilter(q) = Cached(k, OneDay, body) /\ OneDay \in Ttls
  BY DEF canslimPrefilter, Ttls
<1>2. Timeless(body, early)
  <2>1. /\ Timeless(quarter, early) /\ Timeless(three, early) /\ Timeless(benefits, early)
        /\ Timeless(position, early) /\ Timeless(business, early)
    BY AllTimeless, IndividualInvestorBenefitsRatingFits, BusinessPositionRatingFits,
       BusinessRatingFits
  <2>. HIDE DEF quarter, three, benefits, position, business
  <2>2. Timeless(quarter \o three \o benefits, early)
    BY <2>1, TimelessThree
  <2>. QED
    BY <2>1, <2>2, TimelessThree
<1>3. k[1] = "canslimPrefilter"
  OBVIOUS
<1>4. SharesKept(k) = canslimPrefilter(q)
  <2>. DEFINE s == [stock |-> q.stock]
  <2>1. SharesKept(k) = canslimPrefilter(s)
    BY DEF SharesKept
  <2>2. /\ individualInvestorBenefitsRating(s) = individualInvestorBenefitsRating(q)
        /\ businessPositionRating(s) = businessPositionRating(q)
        /\ businessRating(s) = businessRating(q)
    BY DEF individualInvestorBenefitsRating, businessPositionRating, businessRating
  <2>. QED
    BY <2>1, <2>2 DEF canslimPrefilter
<1>. HIDE DEF k, body
<1>5. Ageless(k) /\ Kept(k) = SharesKept(k)
  BY <1>3, SharesKey DEF SharesKeys
<1>. QED
  BY <1>1, <1>2, <1>3, <1>4, <1>5, NestedCached

\* A question that is not about the trading dates.
LEMMA OneTopic ==
  ASSUME NEW x, x[1] \notin {"dates", "lastYear", "firstDateYear"}
  PROVE  About({x}) = {x} /\ Topics(Ask(x)) = {x}
<1>. DEFINE s == [op |-> "ask", queries |-> {{x}}]
<1>1. About({x}) = {x}
  BY DEF About
<1>2. s.op = "ask" /\ UNION s.queries = {x} /\ Ask(x) = <<s>>
  BY DEF Ask
<1>. HIDE DEF s
<1>3. Asked(s) = {x}
  BY <1>1, <1>2 DEF Asked
<1>. QED
  BY <1>1, <1>2, <1>3, TopicsOfStep

\* The sectors that are rated in their own way.
IsBank(stock) == LV2(stock) = "Ngan hang"
IsBroker(stock) == LV2(stock) = "Dich vu tai chinh"

LEMMA RatingOfMarket ==
  LET k == <<"financialHealthRatingAll">>
      all == Ask(<<"healthAll">>)
  IN /\ Meaning(k) = {<<"healthAll">>}
     /\ KeyBounds(k) = Bounds(Borrowed(k, OneDay, all))
     /\ KeyBounds(k) = {<<Topic(<<"healthAll">>), OneDay + MaxFill>>}
     /\ ~Never(k) /\ ~Unlooked(k) /\ Old(k) = Any
<1>. DEFINE k == <<"financialHealthRatingAll">>
            x == <<"healthAll">>
            all == Ask(x)
<1>1. Topics(all) = {x}
  BY OneTopic
<1>2. k[1] \in SharesKeys /\ SharesKept(k) = Cached(k, OneDay, all)
  BY DEF SharesKept, SharesKeys
<1>3. ~Never(k) /\ ~Unlooked(k) /\ Old(k) = Any
  BY DEF Never, Unlooked, UnlookedKeys, Old, BoardKeys
<1>. HIDE DEF k, x
<1>4. Kept(k) = Cached(k, OneDay, all)
  BY <1>2, SharesKey
<1>5. Measured(all) /\ Bounds(all) = {<<Topic(x), 0>>}
  BY AskBounds
<1>6. OneDay \in Nat /\ MaxFill \in Nat
  BY LifetimesAre, MaxFillIs
<1>. HIDE DEF all
<1>7. /\ KeyBounds(k) = Later(Bounds(all), OneDay + MaxFill)
      /\ KeyBounds(k) = Bounds(Borrowed(k, OneDay, all))
  BY <1>4, <1>5, <1>6, CachedBounds DEF KeyBounds
<1>8. Later({<<Topic(x), 0>>}, OneDay + MaxFill) = {<<Topic(x), OneDay + MaxFill>>}
  <2>. DEFINE n == OneDay + MaxFill
  <2>1. n \in Nat /\ 0 + n = n
    BY <1>6
  <2>. HIDE DEF n
  <2>2. \A b : b \in Later({<<Topic(x), 0>>}, n) <=> b = <<Topic(x), 0 + n>>
    BY DEF Later
  <2>. QED
    BY <2>1, <2>2 DEF n
<1>9. Meaning(k) = {x}
  BY <1>1, <1>4, <1>5, TopicsOfCached DEF Meaning, Measured
<1>. QED
  BY <1>3, <1>5, <1>7, <1>8, <1>9 DEF k, x, all

LEMMA HealthBody ==
  ASSUME NEW stock
  PROVE  LET k == <<"financialHealthRating", stock>>
         IN /\ Ageless(k)
            /\ IsBank(stock) => Kept(k) = financialHealthRatingNH(stock)
            /\ ~IsBank(stock) /\ IsBroker(stock) => Kept(k) = financialHealthRatingCKBH(stock)
            /\ ~IsBank(stock) /\ ~IsBroker(stock) =>
                 Kept(k) = financialHealthRatingOther(stock)
<1>. DEFINE k == <<"financialHealthRating", stock>>
<1>1. Ageless(k) /\ Kept(k) = SharesKept(k)
  BY SharesKey DEF SharesKeys
<1>2. SharesKept(k) = IF IsBank(stock) THEN financialHealthRatingNH(stock)
                      ELSE IF IsBroker(stock) THEN financialHealthRatingCKBH(stock)
                      ELSE financialHealthRatingOther(stock)
  BY DEF SharesKept, IsBank, IsBroker
<1>. HIDE DEF k
<1>3. /\ IsBank(stock) => Kept(k) = financialHealthRatingNH(stock)
      /\ ~IsBank(stock) /\ IsBroker(stock) => Kept(k) = financialHealthRatingCKBH(stock)
      /\ ~IsBank(stock) /\ ~IsBroker(stock) => Kept(k) = financialHealthRatingOther(stock)
  BY <1>1, <1>2
<1>. QED
  BY <1>1, <1>3 DEF k

LEMMA HealthOfBanksFits ==
  ASSUME NEW stock, NEW early, IsBank(stock)
  PROVE  Nested(financialHealthRatingNH(stock), early)
<1>. DEFINE k == <<"financialHealthRating", stock>>
            own == Together({<<"healthNH", stock>>, <<"healthNHQuarters">>})
            quarter == Ask(<<"ratingQuarter">>)
            all == Borrowed(<<"financialHealthRatingAll">>, OneDay, Ask(<<"healthAll">>))
            body == own \o quarter \o all
<1>1. financialHealthRatingNH(stock) = Cached(k, OneDay, body) /\ OneDay \in Ttls
  BY DEF financialHealthRatingNH, Ttls
<1>2. Timeless(own, early) /\ Timeless(quarter, early)
  BY AllTimeless
<1>3. Timeless(all, early)
  <2>. DEFINE key == <<"financialHealthRatingAll">>
              last == Ask(<<"healthAll">>)
  <2>1. all = Borrowed(key, OneDay, last)
    OBVIOUS
  <2>2. Within(last, 0, Any, early)
    BY AllSimple, SimpleIsAny
  <2>3. Topics(last) = {<<"healthAll">>}
    BY OneTopic
  <2>4. /\ ~Unlooked(key) /\ Meaning(key) = Topics(last) /\ Covers(Any, Old(key))
        /\ Any \in Ages /\ KeyBounds(key) = Bounds(Borrowed(key, OneDay, last))
        /\ OneDay \in Nat
    BY <2>3, RatingOfMarket, LevelsAre, LifetimesAre
  <2>. HIDE DEF key, last, all
  <2>5. Within(Borrowed(key, OneDay, last), 0 + 1, Any, early)
    BY <2>2, <2>4, WithinBorrowed
  <2>. QED
    BY <2>1, <2>5 DEF Timeless
<1>4. Timeless(body, early)
  BY <1>2, <1>3, TimelessThree
<1>5. Ageless(k) /\ Kept(k) = financialHealthRatingNH(stock)
  BY HealthBody
<1>. HIDE DEF k, body
<1>. QED
  BY <1>1, <1>4, <1>5, NestedCached

LEMMA HealthOfBrokersFits ==
  ASSUME NEW stock, NEW early, ~IsBank(stock), IsBroker(stock)
  PROVE  Timeless(financialHealthRatingCKBH(stock), early)
<1>. DEFINE k == <<"financialHealthRating", stock>>
            body == Ask(<<"healthCKBH", stock>>)
<1>1. financialHealthRatingCKBH(stock) = Cached(k, OneDay, body) /\ OneDay \in Ttls
  BY DEF financialHealthRatingCKBH, Ttls
<1>2. Simple(body, early)
  BY AllSimple
<1>3. Ageless(k) /\ Kept(k) = financialHealthRatingCKBH(stock)
  BY HealthBody
<1>. HIDE DEF k, body
<1>. QED
  BY <1>1, <1>2, <1>3, TimelessCached

LEMMA FlatBounds ==
  ASSUME NEW p, IsProgram(p), \A i \in 1..Len(p) : Flat(p[i])
  PROVE  \A b \in Bounds(p) : b[2] = 0
<1>1. \A i \in 1..Len(p) : p[i].op # "look"
  BY DEF Flat
<1>2. \A i : Around(p, i) = {}
  BY <1>1, AroundIs
<1>3. \A i : UnitsAround(p, i) = {}
  BY <1>2 DEF UnitsAround
<1>4. \A i : Inside(p, i) = 0
  BY <1>3, FS_EmptySet DEF Inside
<1>. QED
  BY <1>4, BoundsAre

\* What is shared is what the market's stars are made of, and just read, whatever else has
\* been asked.  What the request may find instead of reading is older: its own frame has
\* the bounds A as long as it shares from it, and then B.
LEMMA HealthOfOthersFits ==
  ASSUME NEW stock, NEW early, ~IsBank(stock), ~IsBroker(stock)
  PROVE  /\ Foretold(financialHealthRatingOther(stock), 1, Any, early)
         /\ InTime(Ask(<<"LV2", stock>>) \o financialHealthRatingOther(stock))
<1>. DEFINE k == <<"financialHealthRating", stock>>
            key == <<"financialHealthRatingAll">>
            quarter == Ask(<<"ratingQuarter">>)
            health == AskFor({<<"health", stock>>, <<"healthAll">>})
            body == quarter \o health
            s == [op |-> "look", key |-> k, ttl |-> OneDay, to |-> Len(body) + 1 + 2]
            t == [op |-> "keep", key |-> k, ttl |-> OneDay]
            share == [op |-> "share", key |-> key, ttl |-> OneDay, only |-> {<<"healthAll">>},
                      absent |-> FALSE]
            both == <<s>> \o body \o <<t>>
            p == both \o <<share>>
<1>1. financialHealthRatingOther(stock) = p
  <2>1. Share(key, OneDay, {<<"healthAll">>}) = <<share>> /\ Len(<<share>>) = 1
    BY OneStep DEF Share
  <2>. QED
    BY <2>1 DEF financialHealthRatingOther, CachedThen
<1>2. /\ s.op = "look" /\ s.key = k /\ s.to = Len(body) + 3 /\ s.ttl = OneDay
      /\ t.op = "keep" /\ t.key = k /\ t.ttl = OneDay
      /\ share.op = "share" /\ share.key = key /\ share.ttl = OneDay
      /\ share.only = {<<"healthAll">>}
  <2>1. Len(body) \in Nat
    BY DEF Ask, AskFor
  <2>. QED
    BY <2>1
<1>3. Simple(quarter, early) /\ Simple(health, early) /\ Simple(body, early)
  BY AllSimple, SimpleBoth
<1>4. <<"healthAll">> \in Topics(body)
  <2>1. <<"healthAll">> \in Topics(health)
    <3>. DEFINE x == <<"healthAll">>
                asked == {<<"health", stock>>, x}
                step == [op |-> "ask", queries |-> {asked}]
    <3>1. step.op = "ask" /\ UNION step.queries = asked /\ health = <<step>>
      BY DEF AskFor
    <3>2. x \in asked /\ x[1] \notin {"dates", "lastYear", "firstDateYear"}
      OBVIOUS
    <3>. HIDE DEF x, asked, step, health
    <3>3. x \in Asked(step)
      BY <3>1, <3>2 DEF Asked, About
    <3>4. x \in Topics(health)
      BY <3>1, <3>3, TopicsOfStep
    <3>. QED
      BY <3>4 DEF x
  <2>2. IsProgram(quarter) /\ IsProgram(health)
    BY <1>3, KindsArePrograms
  <2>. HIDE DEF quarter, health
  <2>. QED
    BY <2>1, <2>2, TopicsOfBoth
<1>5. Ageless(k) /\ Kept(k) = p
  BY <1>1, HealthBody
<1>6. ~Never(k) /\ ~Unlooked(k) /\ Old(k) = Any
  BY DEF Ageless, Never, Unlooked, UnlookedKeys, Old, BoardKeys
<1>7. OneDay \in Nat \ {0}
  BY LifetimesAre
<1>8. About({<<"healthAll">>}) = {<<"healthAll">>}
  BY OneTopic
<1>25. \A b \in Bounds(body) : b[2] = 0
  <2>. DEFINE step == [op |-> "ask", queries |-> {{<<"health", stock>>, <<"healthAll">>}}]
  <2>1. step.op = "ask" /\ health = <<step>>
    BY DEF AskFor
  <2>. HIDE DEF step, health
  <2>2. IsProgram(health) /\ Len(health) = 1 /\ health[1] = step
    BY <2>1, OneStep
  <2>3. \A b \in Bounds(health) : b[2] = 0
    BY <2>1, <2>2, FlatBounds DEF Flat
  <2>4. \A b \in Bounds(quarter) : b[2] = 0
    BY AskBounds
  <2>5. Measured(quarter) /\ Measured(health)
    BY <1>3, KindsArePrograms
  <2>. HIDE DEF quarter
  <2>6. Bounds(quarter \o health) = Bounds(quarter) \cup Bounds(health)
    BY <2>5, BothMeasured
  <2>. QED
    BY <2>3, <2>4, <2>6
<1>. HIDE DEF k, body, s, t, share, p, both
<1>9. IsProgram(body)
  BY <1>3, KindsArePrograms
<1>10. Asked(s) = {} /\ Asked(t) = {} /\ Asked(share) = {}
  BY <1>2 DEF Asked, About
<1>11. /\ IsProgram(both) /\ Len(body) \in Nat /\ Len(both) = Len(body) + 2
       /\ both[1] = s /\ both[Len(body) + 2] = t
       /\ \A i \in 1..Len(body) : both[i + 1] = body[i]
       /\ Topics(both) = Topics(body)
  BY <1>9, <1>10, ThreeParts DEF both
<1>. DEFINE rest == <<share>>
<1>12. IsProgram(rest) /\ Len(rest) = 1 /\ rest[1] = share /\ Topics(rest) = {}
  BY <1>10, OneStep, TopicsOfStep
<1>. HIDE DEF rest
<1>13. /\ IsProgram(p) /\ Len(p) = Len(both) + 1
       /\ \A i \in 1..Len(both) : p[i] = both[i]
       /\ \A i \in 1..1 : p[Len(both) + i] = rest[i]
       /\ Topics(p) = Topics(both) \cup Topics(rest)
  BY <1>11, <1>12, Catenation, TopicsOfBoth DEF p, rest
<1>14. Topics(p) = Topics(body)
  BY <1>11, <1>12, <1>13
<1>15. Meaning(k) = Topics(body)
  BY <1>5, <1>14 DEF Meaning
<1>. DEFINE T == Topics(body)
<1>16. Looks(s, T, Any)
  BY <1>2, <1>6, <1>15, LevelsAre DEF Looks
<1>17. Keeps(t.key, t.ttl, T, Any)
  BY <1>2, <1>6, <1>7, <1>15 DEF Keeps
<1>18. Lingers(share, T, Any, early)
  <2>. SUFFICES ASSUME NEW U, NEW A, NEW b \in Ages, IsStack(U)
                PROVE  StepFits(share, Begun(U, A \cup T, b), Begun(U, A \cup T, b),
                                Begun(U, A \cup T, b), early)
    BY <1>2 DEF Lingers
  <2>. DEFINE B == A \cup T
              here == Begun(U, B, b)
  <2>1. here.table = FALSE /\ TopOf(here.stack).said = B
    <3>. HIDE DEF B
    <3>1. /\ Begun(U, B, b).table = FALSE
          /\ TopOf(Begun(U, B, b).stack) = [said |-> B, old |-> b]
      BY BegunIs
    <3>. QED
      BY <3>1
  <2>2. B \cap About(share.only) = {<<"healthAll">>}
    BY <1>2, <1>4, <1>8
  <2>. HIDE DEF B
  <2>3. Keeps(share.key, share.ttl, TopOf(here.stack).said \cap About(share.only),
              TopOf(here.stack).old)
    BY <1>2, <1>7, <2>1, <2>2, RatingOfMarket DEF Keeps, key
  <2>4. share.op \in Operations /\ share.op \notin {"insert", "drop"}
    BY <1>2 DEF Operations
  <2>. HIDE DEF here
  <2>5. StepFits(share, here, here, here, early)
    BY <1>2, <2>1, <2>3, <2>4 DEF StepFits
  <2>. QED
    BY <2>5 DEF here, B
<1>19. IsBracket(p, body, rest, T, Any, Any, early)
  <2>1. Len(p) = Len(body) + 2 + Len(rest) /\ Len(p) = Len(body) + 3
    BY <1>11, <1>12, <1>13
  <2>2. \A i \in 1..Len(body) : p[i + 1] = body[i]
    <3>1. \A i \in 1..Len(body) : i + 1 \in 1..Len(both)
      BY <1>11
    <3>. QED
      BY <3>1, <1>11, <1>13
  <2>3. \A i \in 1..Len(rest) : p[Len(body) + 2 + i] = rest[i]
    BY <1>11, <1>12, <1>13
  <2>4. p[1] = s /\ p[Len(body) + 2] = t
    <3>1. 1 \in 1..Len(both) /\ Len(body) + 2 \in 1..Len(both)
      BY <1>11
    <3>. QED
      BY <3>1, <1>11, <1>13
  <2>5. \A i \in 1..Len(rest) : Lingers(rest[i], T, Any, early)
    BY <1>12, <1>18
  <2>. QED
    BY <1>2, <1>12, <1>13, <1>14, <1>16, <1>17, <2>1, <2>2, <2>3, <2>4, <2>5 DEF IsBracket
<1>. HIDE DEF T
<1>20. Foretold(p, 1, Any, early)
  <2>. SUFFICES ASSUME NEW n \in Nat, NEW b \in Ages, n >= 1, Covers(b, Any)
                PROVE  Fits(p, n, b, early)
    BY DEF Foretold
  <2>1. b = Any /\ Any \in Ages /\ Covers(Any, Any)
    BY LevelsAre DEF Covers
  <2>2. PICK m \in Nat : n = m + 1
    <3>1. n - 1 \in Nat /\ n = (n - 1) + 1
      OBVIOUS
    <3>. QED
      BY <3>1
  <2>3. Fits(body, m, Any, early)
    <3>1. m >= 0 /\ Covers(Any, 0) /\ Any \in Ages
      BY LevelsAre
    <3>. QED
      BY <1>3, <3>1 DEF Simple, Within, Foretold
  <2>4. Fits(p, m + 1, Any, early)
    BY <1>19, <2>1, <2>3, BracketFits
  <2>. QED
    BY <2>1, <2>2, <2>4
<1>22. p[1] = s /\ p[Len(body) + 2] = t
  <2>1. 1 \in 1..Len(both) /\ Len(body) + 2 \in 1..Len(both)
    BY <1>11
  <2>. QED
    BY <2>1, <1>11, <1>13
<1>21. IsCache(p, body, rest)
  <2>1. Len(p) = Len(body) + 2 + Len(rest) /\ Len(p) = Len(body) + 3
    BY <1>11, <1>12, <1>13
  <2>2. p[1].op = "look" /\ p[1].to = Len(p) /\ p[1].ttl \in Nat
    BY <1>2, <1>7, <1>11, <1>12, <1>13, <1>22
  <2>3. p[Len(body) + 2].op \in {"close", "keep"}
    BY <1>2, <1>19 DEF IsBracket
  <2>4. \A i \in 1..Len(rest) : rest[i].op = "share"
    BY <1>2, <1>12
  <2>. QED
    BY <1>12, <1>13, <1>19, <2>1, <2>2, <2>3, <2>4 DEF IsCache, IsBracket
<1>. DEFINE x == <<"LV2", stock>>
            y == <<"healthAll">>
            S == Bounds(body)
            A == S \cup {<<Topic(x), 0>>}
            B == A \cup Bounds(p)
            n == OneDay + MaxFill
            V == <<A>>
            W == <<B>>
<1>23. n \in Nat
  BY <1>7, MaxFillIs
<1>24. /\ Measured(body) /\ Measured(p) /\ Bounds(p) = Later(S, n)
       /\ \A b \in S : b[2] \in Nat
  <2>1. Measured(body)
    BY <1>3, KindsArePrograms
  <2>2. \A b \in S : b[2] \in Nat
    BY <2>1, BoundsAreNumbers
  <2>. QED
    BY <1>2, <1>21, <1>22, <2>1, <2>2, CacheMeasured
<1>26. /\ Allows(Bounds(p), S) /\ Allows(Bounds(p), Bounds(p)) /\ Allows(S, S)
       /\ \A b \in Bounds(p) : b[2] \in Nat
  <2>1. \A b \in Bounds(p) : b[2] \in Nat
    BY <1>24, BoundsAreNumbers
  <2>2. Allows(Bounds(p), Bounds(p)) /\ Allows(S, S)
    BY <1>24, <2>1, SelfAllows
  <2>3. Allows(Later(S, n), S)
    BY <1>23, <1>24, SelfAllows
  <2>. QED
    BY <1>24, <2>1, <2>2, <2>3
<1>27. \A b \in A : b[2] = 0
  BY <1>25
<1>28. Allows(A, A) /\ Allows(B, B)
  <2>1. (\A b \in A : b[2] \in Nat) /\ (\A b \in B : b[2] \in Nat)
    BY <1>26, <1>27
  <2>. HIDE DEF A, B
  <2>. QED
    BY <2>1, SelfAllows
<1>29. Allows(A, S) /\ Allows(A, {<<Topic(x), 0>>}) /\ Allows(B, Bounds(p))
  BY <1>28, Allowances
<1>30. Measured(Ask(x)) /\ Bounds(Ask(x)) = {<<Topic(x), 0>>} /\ KeepsTime(Ask(x))
  BY AskBounds, AllSimple DEF Simple, Within
<1>31. KeepsTime(body)
  BY <1>3 DEF Simple, Within
<1>. HIDE DEF x, S, A, B, n
<1>32. /\ IsProgram(V) /\ Len(V) = 1 /\ TopOf(V) = A /\ V = Append(<<>>, A)
       /\ IsProgram(W) /\ Len(W) = 1 /\ TopOf(W) = B /\ IsProgram(<<>>)
       /\ V[1] = A /\ W[1] = B
  <2>1. IsProgram(V) /\ Len(V) = 1 /\ V[1] = A /\ IsProgram(<<>>)
    BY OneStep
  <2>2. IsProgram(W) /\ Len(W) = 1 /\ W[1] = B
    BY OneStep
  <2>3. V = Append(<<>>, A)
    OBVIOUS
  <2>. HIDE DEF V, W
  <2>. QED
    BY <2>1, <2>2, <2>3 DEF TopOf
<1>. HIDE DEF V, W
<1>33. PICK inner : Times(inner, body, Append(V, S), Append(V, S))
  <2>1. Allows(S, Bounds(body))
    BY <1>26 DEF S
  <2>. QED
    BY <1>31, <1>32, <2>1 DEF KeepsTime
<1>34. Widens(V, W)
  <2>1. A \subseteq B
    BY DEF B
  <2>. QED
    BY <1>32, <2>1 DEF Widens
<1>35. KeyBounds(k) = Bounds(p)
  BY <1>5 DEF KeyBounds
<1>36. KeepsInTime(rest[1].key, rest[1].ttl, BoundsOf(TopOf(V), rest[1].only))
  <2>1. /\ rest[1].key = key /\ rest[1].ttl = OneDay /\ rest[1].only = {y} /\ TopOf(V) = A
    BY <1>2, <1>12, <1>32
  <2>. DEFINE new == <<Topic(y), n>>
  <2>2. KeyBounds(key) = {new}
    BY RatingOfMarket DEF key, n
  <2>3. new[1] = Topic(y) /\ new[2] = n
    OBVIOUS
  <2>. HIDE DEF y, new
  <2>4. ASSUME NEW b \in Later(BoundsOf(A, {y}), n)
        PROVE  b[2] \in Nat /\ \E a \in {new} : a[2] \in Nat /\ a[1] = b[1] /\ b[2] <= a[2]
    <3>1. PICK a \in BoundsOf(A, {y}) : b = <<a[1], a[2] + n>>
      BY DEF Later
    <3>2. a \in A /\ a[1] = Topic(y)
      BY DEF BoundsOf
    <3>3. a[2] = 0
      BY <1>27, <3>2
    <3>4. b[1] = Topic(y) /\ b[2] = n
      BY <1>23, <3>1, <3>2, <3>3
    <3>. QED
      BY <1>23, <2>3, <3>4
  <2>5. Allows({new}, Later(BoundsOf(A, {y}), n))
    BY <2>4 DEF Allows
  <2>. QED
    BY <2>1, <2>2, <2>5 DEF KeepsInTime, n
<1>37. p[1].op = "look" => /\ ~Unlooked(p[1].key)
                           /\ Never(p[1].key) \/ Allows(TopOf(W), KeyBounds(p[1].key))
  BY <1>2, <1>6, <1>22, <1>29, <1>32, <1>35
<1>38. p[Len(body) + 2].op = "keep" =>
         KeepsInTime(p[Len(body) + 2].key, p[Len(body) + 2].ttl, S)
  BY <1>2, <1>22, <1>24, <1>26, <1>35 DEF KeepsInTime, n
<1>39. PICK acc2 : Times(acc2, p, V, W)
  <2>1. Len(V) >= 1 /\ Allows(TopOf(V), S)
    BY <1>29, <1>32
  <2>. QED
    BY <1>12, <1>21, <1>24, <1>32, <1>33, <1>34, <1>36, <1>37, <1>38, <2>1, CacheTimes
<1>40. PICK acc1 : Times(acc1, Ask(x), V, V)
  <2>1. Allows(A, Bounds(Ask(x)))
    BY <1>29, <1>30
  <2>. QED
    BY <1>30, <1>32, <2>1 DEF KeepsTime
<1>. DEFINE whole == Ask(x) \o p
<1>41. \E acc : Times(acc, whole, V, W)
  BY <1>24, <1>30, <1>39, <1>40, TimesBoth
<1>42. Measured(whole) /\ Bounds(whole) = Bounds(Ask(x)) \cup Bounds(p)
  BY <1>24, <1>30, BothMeasured
<1>43. Allows(Bounds(whole), B)
  <2>. DEFINE z == {<<Topic(x), 0>>}
  <2>1. Bounds(whole) = z \cup Bounds(p) /\ B = S \cup z \cup Bounds(p)
    BY <1>30, <1>42 DEF A, B
  <2>2. Allows(z, z)
    BY DEF Allows
  <2>3. \A a, b, c : Allows(a, c) => Allows(a \cup b, c) /\ Allows(b \cup a, c)
    BY DEF Allows
  <2>. HIDE DEF z, whole
  <2>4. /\ Allows(z \cup Bounds(p), S) /\ Allows(z \cup Bounds(p), z)
        /\ Allows(z \cup Bounds(p), Bounds(p))
    BY <1>26, <2>2, <2>3
  <2>. QED
    BY <2>1, <2>4, Allowances
<1>44. InTime(whole)
  <2>. HIDE DEF whole
  <2>. QED
    BY <1>41, <1>42, <1>43 DEF InTime, V, W
<1>. QED
  BY <1>1, <1>20, <1>44 DEF x

LEMMA FinancialHealthRatingFits ==
  ASSUME NEW q, NEW early
  PROVE  Served(financialHealthRating(q), early)
<1>. DEFINE sector == Ask(<<"LV2", q.stock>>)
            rest == CASE ~Known(q.stock)                    -> Refuse
                      [] LV2(q.stock) = "Ngan hang"         -> financialHealthRatingNH(q.stock)
                      [] LV2(q.stock) = "Dich vu tai chinh" -> financialHealthRatingCKBH(q.stock)
                      [] OTHER                              -> financialHealthRatingOther(q.stock)
<1>1. financialHealthRating(q) = sector \o rest
  BY DEF financialHealthRating
<1>2. Nested(sector, early) /\ Nested(Refuse, early)
  BY AllSimple, AllKinds
<1>3. Nested(rest, early)
      \/ (Foretold(rest, 1, Any, early) /\ InTime(sector \o rest))
  <2>1. IsBank(q.stock) => ~IsBroker(q.stock) /\ Known(q.stock)
    BY DEF IsBank, IsBroker, Known
  <2>2. IsBroker(q.stock) => Known(q.stock)
    BY DEF IsBroker, Known
  <2>3. /\ ~Known(q.stock) => rest = Refuse
        /\ IsBank(q.stock) => rest = financialHealthRatingNH(q.stock)
        /\ IsBroker(q.stock) => rest = financialHealthRatingCKBH(q.stock)
        /\ Known(q.stock) /\ ~IsBank(q.stock) /\ ~IsBroker(q.stock) =>
             rest = financialHealthRatingOther(q.stock)
    <3>1. ~Known(q.stock) => rest = Refuse
      BY <2>1, <2>2 DEF IsBank, IsBroker
    <3>2. IsBank(q.stock) => rest = financialHealthRatingNH(q.stock)
      BY <2>1, <2>2 DEF IsBank, IsBroker
    <3>3. IsBroker(q.stock) => rest = financialHealthRatingCKBH(q.stock)
      BY <2>1, <2>2 DEF IsBank, IsBroker
    <3>4. Known(q.stock) /\ ~IsBank(q.stock) /\ ~IsBroker(q.stock) =>
            rest = financialHealthRatingOther(q.stock)
      BY <2>1, <2>2 DEF IsBank, IsBroker
    <3>. QED
      BY <3>1, <3>2, <3>3, <3>4
  <2>4. IsBank(q.stock) => Nested(financialHealthRatingNH(q.stock), early)
    BY HealthOfBanksFits
  <2>5. IsBroker(q.stock) => Nested(financialHealthRatingCKBH(q.stock), early)
    BY <2>1, HealthOfBrokersFits, AllKinds
  <2>6. ~IsBank(q.stock) /\ ~IsBroker(q.stock) =>
          /\ Foretold(financialHealthRatingOther(q.stock), 1, Any, early)
          /\ InTime(sector \o financialHealthRatingOther(q.stock))
    BY HealthOfOthersFits
  <2>. HIDE DEF rest, sector
  <2>. QED
    BY <1>2, <2>3, <2>4, <2>5, <2>6
<1>. HIDE DEF sector, rest
<1>. DEFINE p == sector \o rest
<1>4. CASE Nested(rest, early)
  <2>1. Within(sector, 2, Any, early) /\ Within(rest, 2, Any, early)
    BY <1>2, <1>4 DEF Nested
  <2>2. Nested(p, early)
    BY <2>1, LevelsAre, WithinBoth DEF Nested
  <2>. HIDE DEF p
  <2>. QED
    BY <1>1, <2>2, AllKinds DEF p
<1>5. CASE Foretold(rest, 1, Any, early) /\ InTime(p)
  <2>1. Foretold(sector, 2, Any, early)
    BY <1>2 DEF Nested, Within
  <2>2. Covers(Any, Any) /\ Any \in Ages
    BY LevelsAre
  <2>3. Foretold(sector, 3, Any, early) /\ Foretold(rest, 3, Any, early)
    BY <1>5, <2>1, <2>2, ForetoldMore
  <2>4. Foretold(p, 3, Any, early)
    BY <2>2, <2>3, ForetoldBoth
  <2>. QED
    BY <1>1, <1>5, <2>4 DEF Served
<1>. QED
  BY <1>3, <1>4, <1>5

-------------------------------------------------------------------------------
(* The catalogue *)

BoardNamesAre ==
  {"getMarketVolatility", "getMarketLiquidity", "getIndustry", "getNetTransactionValue",
   "getNews", "getMacroNews", "getDomesticIndex", "getTopNetForeign", "getNetForeign",
   "getTopROC", "getTopNetForeignChangeByExchange", "getMaterialPriceV2",
   "getStockEvents", "getMerchandisePrice", "marketEvaluation", "getLiquidityContribute",
   "getMarketMap", "getUpDownTicker", "getMarketLiquidityYesterday",
   "getMarketLiquidityToday", "getMarketBreadthNow", "getLineChart", "getLineChartNow",
   "getTickerContribute", "getMarketCashFlow", "getMarketBreadth",
   "getInvestorTransactions", "getCashFlowValue", "getInvestorTransactionsValue",
   "getLiquidityGrowth", "getInvestorTransactionRatio",
   "getInvestorTransactionCashFlowRatio", "getIndustryCashFlow", "getRSI",
   "getTopNetBuyIndustry", "getInvestorCashFlowByIndustry", "getTotalTransactionValue"}

LEMMA StockEndpointsFit ==
  ASSUME NEW e \in StockEndpoints, NEW early
  PROVE  e[1] \in BoardNamesAre /\ OnBoard(e[3], early)
<1>1. ASSUME e \in Serve("getMarketVolatility", NoQuery, getMarketVolatility) PROVE e[1] \in BoardNamesAre /\ OnBoard(e[3], early)
  <2>1. PICK q : e = <<"getMarketVolatility", q, getMarketVolatility(q)>>
    BY <1>1 DEF Serve
  <2>2. e[1] = "getMarketVolatility" /\ e[3] = getMarketVolatility(q)
    BY <2>1
  <2>3. OnBoard(getMarketVolatility(q), early)
    BY GetMarketVolatilityFits
  <2>. QED
    BY <2>2, <2>3 DEF BoardNamesAre
<1>2. ASSUME e \in Serve("getMarketLiquidity", ByOrder, getMarketLiquidity) PROVE e[1] \in BoardNamesAre /\ OnBoard(e[3], early)
  <2>1. PICK q : e = <<"getMarketLiquidity", q, getMarketLiquidity(q)>>
    BY <1>2 DEF Serve
  <2>2. e[1] = "getMarketLiquidity" /\ e[3] = getMarketLiquidity(q)
    BY <2>1
  <2>3. OnBoard(getMarketLiquidity(q), early)
    BY GetMarketLiquidityFits
  <2>. QED
    BY <2>2, <2>3 DEF BoardNamesAre
<1>3. ASSUME e \in Serve("getIndustry", ByExchange, getIndustry) PROVE e[1] \in BoardNamesAre /\ OnBoard(e[3], early)
  <2>1. PICK q : e = <<"getIndustry", q, getIndustry(q)>>
    BY <1>3 DEF Serve
  <2>2. e[1] = "getIndustry" /\ e[3] = getIndustry(q)
    BY <2>1
  <2>3. OnBoard(getIndustry(q), early)
    BY GetIndustryFits
  <2>. QED
    BY <2>2, <2>3 DEF BoardNamesAre
<1>4. ASSUME e \in Serve("getNetTransactionValue", ByExchange, getNetTransactionValue) PROVE e[1] \in BoardNamesAre /\ OnBoard(e[3], early)
  <2>1. PICK q : e = <<"getNetTransactionValue", q, getNetTransactionValue(q)>>
    BY <1>4 DEF Serve
  <2>2. e[1] = "getNetTransactionValue" /\ e[3] = getNetTransactionValue(q)
    BY <2>1
  <2>3. OnBoard(getNetTransactionValue(q), early)
    BY PlainBoardsFit
  <2>. QED
    BY <2>2, <2>3 DEF BoardNamesAre
<1>5. ASSUME e \in Serve("getNews", NoQuery, getNews) PROVE e[1] \in BoardNamesAre /\ OnBoard(e[3], early)
  <2>1. PICK q : e = <<"getNews", q, getNews(q)>>
    BY <1>5 DEF Serve
  <2>2. e[1] = "getNews" /\ e[3] = getNews(q)
    BY <2>1
  <2>3. OnBoard(getNews(q), early)
    BY GetNewsFits
  <2>. QED
    BY <2>2, <2>3 DEF BoardNamesAre
<1>6. ASSUME e \in Serve("getMacroNews", NoQuery, getMacroNews) PROVE e[1] \in BoardNamesAre /\ OnBoard(e[3], early)
  <2>1. PICK q : e = <<"getMacroNews", q, getMacroNews(q)>>
    BY <1>6 DEF Serve
  <2>2. e[1] = "getMacroNews" /\ e[3] = getMacroNews(q)
    BY <2>1
  <2>3. OnBoard(getMacroNews(q), early)
    BY GetMacroNewsFits
  <2>. QED
    BY <2>2, <2>3 DEF BoardNamesAre
<1>7. ASSUME e \in Serve("getDomesticIndex", NoQuery, getDomesticIndex) PROVE e[1] \in BoardNamesAre /\ OnBoard(e[3], early)
  <2>1. PICK q : e = <<"getDomesticIndex", q, getDomesticIndex(q)>>
    BY <1>7 DEF Serve
  <2>2. e[1] = "getDomesticIndex" /\ e[3] = getDomesticIndex(q)
    BY <2>1
  <2>3. OnBoard(getDomesticIndex(q), early)
    BY PlainBoardsFit
  <2>. QED
    BY <2>2, <2>3 DEF BoardNamesAre
<1>8. ASSUME e \in Serve("getTopNetForeign", ByExchange, getTopNetForeign) PROVE e[1] \in BoardNamesAre /\ OnBoard(e[3], early)
  <2>1. PICK q : e = <<"getTopNetForeign", q, getTopNetForeign(q)>>
    BY <1>8 DEF Serve
  <2>2. e[1] = "getTopNetForeign" /\ e[3] = getTopNetForeign(q)
    BY <2>1
  <2>3. OnBoard(getTopNetForeign(q), early)
    BY GetTopNetForeignFits
  <2>. QED
    BY <2>2, <2>3 DEF BoardNamesAre
<1>9. ASSUME e \in Serve("getNetForeign", ByExchangeAndOrder, getNetForeign) PROVE e[1] \in BoardNamesAre /\ OnBoard(e[3], early)
  <2>1. PICK q : e = <<"getNetForeign", q, getNetForeign(q)>>
    BY <1>9 DEF Serve
  <2>2. e[1] = "getNetForeign" /\ e[3] = getNetForeign(q)
    BY <2>1
  <2>3. OnBoard(getNetForeign(q), early)
    BY GetNetForeignFits
  <2>. QED
    BY <2>2, <2>3 DEF BoardNamesAre
<1>10. ASSUME e \in Serve("getTopROC", ByExchange, getTopROC) PROVE e[1] \in BoardNamesAre /\ OnBoard(e[3], early)
  <2>1. PICK q : e = <<"getTopROC", q, getTopROC(q)>>
    BY <1>10 DEF Serve
  <2>2. e[1] = "getTopROC" /\ e[3] = getTopROC(q)
    BY <2>1
  <2>3. OnBoard(getTopROC(q), early)
    BY GetTopROCFits
  <2>. QED
    BY <2>2, <2>3 DEF BoardNamesAre
<1>11. ASSUME e \in Serve("getTopNetForeignChangeByExchange", ByExchange, getTopNetForeignChangeByExchange) PROVE e[1] \in BoardNamesAre /\ OnBoard(e[3], early)
  <2>1. PICK q : e = <<"getTopNetForeignChangeByExchange", q, getTopNetForeignChangeByExchange(q)>>
    BY <1>11 DEF Serve
  <2>2. e[1] = "getTopNetForeignChangeByExchange" /\ e[3] = getTopNetForeignChangeByExchange(q)
    BY <2>1
  <2>3. OnBoard(getTopNetForeignChangeByExchange(q), early)
    BY GetTopNetForeignChangeByExchangeFits
  <2>. QED
    BY <2>2, <2>3 DEF BoardNamesAre
<1>12. ASSUME e \in Serve("getMaterialPriceV2", NoQuery, getMaterialPriceV2) PROVE e[1] \in BoardNamesAre /\ OnBoard(e[3], early)
  <2>1. PICK q : e = <<"getMaterialPriceV2", q, getMaterialPriceV2(q)>>
    BY <1>12 DEF Serve
  <2>2. e[1] = "getMaterialPriceV2" /\ e[3] = getMaterialPriceV2(q)
    BY <2>1
  <2>3. OnBoard(getMaterialPriceV2(q), early)
    BY PlainBoardsFit
  <2>. QED
    BY <2>2, <2>3 DEF BoardNamesAre
<1>13. ASSUME e \in Serve("getStockEvents", NoQuery, getStockEvents) PROVE e[1] \in BoardNamesAre /\ OnBoard(e[3], early)
  <2>1. PICK q : e = <<"getStockEvents", q, getStockEvents(q)>>
    BY <1>13 DEF Serve
  <2>2. e[1] = "getStockEvents" /\ e[3] = getStockEvents(q)
    BY <2>1
  <2>3. OnBoard(getStockEvents(q), early)
    BY GetStockEventsFits
  <2>. QED
    BY <2>2, <2>3 DEF BoardNamesAre
<1>14. ASSUME e \in Serve("getMerchandisePrice", ByOrder, getMerchandisePrice) PROVE e[1] \in BoardNamesAre /\ OnBoard(e[3], early)
  <2>1. PICK q : e = <<"getMerchandisePrice", q, getMerchandisePrice(q)>>
    BY <1>14 DEF Serve
  <2>2. e[1] = "getMerchandisePrice" /\ e[3] = getMerchandisePrice(q)
    BY <2>1
  <2>3. OnBoard(getMerchandisePrice(q), early)
    BY GetMerchandisePriceFits
  <2>. QED
    BY <2>2, <2>3 DEF BoardNamesAre
<1>15. ASSUME e \in Serve("marketEvaluation", NoQuery, marketEvaluation) PROVE e[1] \in BoardNamesAre /\ OnBoard(e[3], early)
  <2>1. PICK q : e = <<"marketEvaluation", q, marketEvaluation(q)>>
    BY <1>15 DEF Serve
  <2>2. e[1] = "marketEvaluation" /\ e[3] = marketEvaluation(q)
    BY <2>1
  <2>3. OnBoard(marketEvaluation(q), early)
    BY MarketEvaluationFits
  <2>. QED
    BY <2>2, <2>3 DEF BoardNamesAre
<1>16. ASSUME e \in Serve("getLiquidityContribute", ByContribution, getLiquidityContribute) PROVE e[1] \in BoardNamesAre /\ OnBoard(e[3], early)
  <2>1. PICK q : e = <<"getLiquidityContribute", q, getLiquidityContribute(q)>>
    BY <1>16 DEF Serve
  <2>2. e[1] = "getLiquidityContribute" /\ e[3] = getLiquidityContribute(q)
    BY <2>1
  <2>3. OnBoard(getLiquidityContribute(q), early)
    BY GetLiquidityContributeFits
  <2>. QED
    BY <2>2, <2>3 DEF BoardNamesAre
<1>17. ASSUME e \in Serve("getMarketMap", ByMap, getMarketMap) PROVE e[1] \in BoardNamesAre /\ OnBoard(e[3], early)
  <2>1. PICK q : e = <<"getMarketMap", q, getMarketMap(q)>>
    BY <1>17 DEF Serve
  <2>2. e[1] = "getMarketMap" /\ e[3] = getMarketMap(q)
    BY <2>1
  <2>3. OnBoard(getMarketMap(q), early)
    BY GetMarketMapFits
  <2>. QED
    BY <2>2, <2>3 DEF BoardNamesAre
<1>18. ASSUME e \in Serve("getUpDownTicker", ByIndex, getUpDownTicker) PROVE e[1] \in BoardNamesAre /\ OnBoard(e[3], early)
  <2>1. PICK q : e = <<"getUpDownTicker", q, getUpDownTicker(q)>>
    BY <1>18 DEF Serve
  <2>2. e[1] = "getUpDownTicker" /\ e[3] = getUpDownTicker(q)
    BY <2>1
  <2>3. OnBoard(getUpDownTicker(q), early)
    BY GetUpDownTickerFits
  <2>. QED
    BY <2>2, <2>3 DEF BoardNamesAre
<1>. QED
  BY <1>1, <1>2, <1>3, <1>4, <1>5, <1>6, <1>7, <1>8, <1>9, <1>10, <1>11, <1>12, <1>13,
     <1>14, <1>15, <1>16, <1>17, <1>18
  DEF StockEndpoints, Serve

LEMMA ChartEndpointsFit ==
  ASSUME NEW e \in ChartEndpoints, NEW early
  PROVE  e[1] \in BoardNamesAre /\ OnBoard(e[3], early)
<1>1. ASSUME e \in Serve("getMarketLiquidityYesterday", ByOpening, getMarketLiquidityYesterday) PROVE e[1] \in BoardNamesAre /\ OnBoard(e[3], early)
  <2>1. PICK q : e = <<"getMarketLiquidityYesterday", q, getMarketLiquidityYesterday(q)>>
    BY <1>1 DEF Serve
  <2>2. e[1] = "getMarketLiquidityYesterday" /\ e[3] = getMarketLiquidityYesterday(q)
    BY <2>1
  <2>3. OnBoard(getMarketLiquidityYesterday(q), early)
    BY PlainBoardsFit
  <2>. QED
    BY <2>2, <2>3 DEF BoardNamesAre
<1>2. ASSUME e \in Serve("getMarketLiquidityToday", ByOpening, getMarketLiquidityToday) PROVE e[1] \in BoardNamesAre /\ OnBoard(e[3], early)
  <2>1. PICK q : e = <<"getMarketLiquidityToday", q, getMarketLiquidityToday(q)>>
    BY <1>2 DEF Serve
  <2>2. e[1] = "getMarketLiquidityToday" /\ e[3] = getMarketLiquidityToday(q)
    BY <2>1
  <2>3. OnBoard(getMarketLiquidityToday(q), early)
    BY PlainBoardsFit
  <2>. QED
    BY <2>2, <2>3 DEF BoardNamesAre
<1>3. ASSUME e \in Serve("getMarketBreadthNow", ByOpening, getMarketBreadthNow) PROVE e[1] \in BoardNamesAre /\ OnBoard(e[3], early)
  <2>1. PICK q : e = <<"getMarketBreadthNow", q, getMarketBreadthNow(q)>>
    BY <1>3 DEF Serve
  <2>2. e[1] = "getMarketBreadthNow" /\ e[3] = getMarketBreadthNow(q)
    BY <2>1
  <2>3. OnBoard(getMarketBreadthNow(q), early)
    BY PlainBoardsFit
  <2>. QED
    BY <2>2, <2>3 DEF BoardNamesAre
<1>4. ASSUME e \in Serve("getLineChart", ByIndexAndType, getLineChart) PROVE e[1] \in BoardNamesAre /\ OnBoard(e[3], early)
  <2>1. PICK q : e = <<"getLineChart", q, getLineChart(q)>>
    BY <1>4 DEF Serve
  <2>2. e[1] = "getLineChart" /\ e[3] = getLineChart(q)
    BY <2>1
  <2>3. OnBoard(getLineChart(q), early)
    BY GetLineChartFits
  <2>. QED
    BY <2>2, <2>3 DEF BoardNamesAre
<1>5. ASSUME e \in Serve("getLineChartNow", ByIndex, getLineChartNow) PROVE e[1] \in BoardNamesAre /\ OnBoard(e[3], early)
  <2>1. PICK q : e = <<"getLineChartNow", q, getLineChartNow(q)>>
    BY <1>5 DEF Serve
  <2>2. e[1] = "getLineChartNow" /\ e[3] = getLineChartNow(q)
    BY <2>1
  <2>3. OnBoard(getLineChartNow(q), early)
    BY PlainBoardsFit
  <2>. QED
    BY <2>2, <2>3 DEF BoardNamesAre
<1>6. ASSUME e \in Serve("getTickerContribute", ByContribution, getTickerContribute) PROVE e[1] \in BoardNamesAre /\ OnBoard(e[3], early)
  <2>1. PICK q : e = <<"getTickerContribute", q, getTickerContribute(q)>>
    BY <1>6 DEF Serve
  <2>2. e[1] = "getTickerContribute" /\ e[3] = getTickerContribute(q)
    BY <2>1
  <2>3. OnBoard(getTickerContribute(q), early)
    BY GetTickerContributeFits
  <2>. QED
    BY <2>2, <2>3 DEF BoardNamesAre
<1>7. ASSUME e \in Serve("getMarketCashFlow", NoQuery, getMarketCashFlow) PROVE e[1] \in BoardNamesAre /\ OnBoard(e[3], early)
  <2>1. PICK q : e = <<"getMarketCashFlow", q, getMarketCashFlow(q)>>
    BY <1>7 DEF Serve
  <2>2. e[1] = "getMarketCashFlow" /\ e[3] = getMarketCashFlow(q)
    BY <2>1
  <2>3. OnBoard(getMarketCashFlow(q), early)
    BY PlainBoardsFit
  <2>. QED
    BY <2>2, <2>3 DEF BoardNamesAre
<1>8. ASSUME e \in Serve("getMarketBreadth", ByBreadth, getMarketBreadth) PROVE e[1] \in BoardNamesAre /\ OnBoard(e[3], early)
  <2>1. PICK q : e = <<"getMarketBreadth", q, getMarketBreadth(q)>>
    BY <1>8 DEF Serve
  <2>2. e[1] = "getMarketBreadth" /\ e[3] = getMarketBreadth(q)
    BY <2>1
  <2>3. OnBoard(getMarketBreadth(q), early)
    BY GetMarketBreadthFits
  <2>. QED
    BY <2>2, <2>3 DEF BoardNamesAre
<1>. QED
  BY <1>1, <1>2, <1>3, <1>4, <1>5, <1>6, <1>7, <1>8
  DEF ChartEndpoints, Serve

LEMMA CashFlowEndpointsFit ==
  ASSUME NEW e \in CashFlowEndpoints, NEW early
  PROVE  e[1] \in BoardNamesAre /\ OnBoard(e[3], early)
<1>1. ASSUME e \in Serve("getInvestorTransactions", ByTimeAndInvestor, getInvestorTransactions) PROVE e[1] \in BoardNamesAre /\ OnBoard(e[3], early)
  <2>1. PICK q : e = <<"getInvestorTransactions", q, getInvestorTransactions(q)>>
    BY <1>1 DEF Serve
  <2>2. e[1] = "getInvestorTransactions" /\ e[3] = getInvestorTransactions(q)
    BY <2>1
  <2>3. OnBoard(getInvestorTransactions(q), early)
    BY GetInvestorTransactionsFits
  <2>. QED
    BY <2>2, <2>3 DEF BoardNamesAre
<1>2. ASSUME e \in Serve("getCashFlowValue", ByTime, getCashFlowValue) PROVE e[1] \in BoardNamesAre /\ OnBoard(e[3], early)
  <2>1. PICK q : e = <<"getCashFlowValue", q, getCashFlowValue(q)>>
    BY <1>2 DEF Serve
  <2>2. e[1] = "getCashFlowValue" /\ e[3] = getCashFlowValue(q)
    BY <2>1
  <2>3. OnBoard(getCashFlowValue(q), early)
    BY GetCashFlowValueFits
  <2>. QED
    BY <2>2, <2>3 DEF BoardNamesAre
<1>3. ASSUME e \in Serve("getInvestorTransactionsValue", NoQuery, getInvestorTransactionsValue) PROVE e[1] \in BoardNamesAre /\ OnBoard(e[3], early)
  <2>1. PICK q : e = <<"getInvestorTransactionsValue", q, getInvestorTransactionsValue(q)>>
    BY <1>3 DEF Serve
  <2>2. e[1] = "getInvestorTransactionsValue" /\ e[3] = getInvestorTransactionsValue(q)
    BY <2>1
  <2>3. OnBoard(getInvestorTransactionsValue(q), early)
    BY PlainBoardsFit
  <2>. QED
    BY <2>2, <2>3 DEF BoardNamesAre
<1>4. ASSUME e \in Serve("getLiquidityGrowth", ByTime, getLiquidityGrowth) PROVE e[1] \in BoardNamesAre /\ OnBoard(e[3], early)
  <2>1. PICK q : e = <<"getLiquidityGrowth", q, getLiquidityGrowth(q)>>
    BY <1>4 DEF Serve
  <2>2. e[1] = "getLiquidityGrowth" /\ e[3] = getLiquidityGrowth(q)
    BY <2>1
  <2>3. OnBoard(getLiquidityGrowth(q), early)
    BY GetLiquidityGrowthFits
  <2>. QED
    BY <2>2, <2>3 DEF BoardNamesAre
<1>5. ASSUME e \in Serve("getInvestorTransactionRatio", NoQuery, getInvestorTransactionRatio) PROVE e[1] \in BoardNamesAre /\ OnBoard(e[3], early)
  <2>1. PICK q : e = <<"getInvestorTransactionRatio", q, getInvestorTransactionRatio(q)>>
    BY <1>5 DEF Serve
  <2>2. e[1] = "getInvestorTransactionRatio" /\ e[3] = getInvestorTransactionRatio(q)
    BY <2>1
  <2>3. OnBoard(getInvestorTransactionRatio(q), early)
    BY GetInvestorTransactionRatioFits
  <2>. QED
    BY <2>2, <2>3 DEF BoardNamesAre
<1>6. ASSUME e \in Serve("getInvestorTransactionCashFlowRatio", ByTimeAndExchange, getInvestorTransactionCashFlowRatio) PROVE e[1] \in BoardNamesAre /\ OnBoard(e[3], early)
  <2>1. PICK q : e = <<"getInvestorTransactionCashFlowRatio", q, getInvestorTransactionCashFlowRatio(q)>>
    BY <1>6 DEF Serve
  <2>2. e[1] = "getInvestorTransactionCashFlowRatio" /\ e[3] = getInvestorTransactionCashFlowRatio(q)
    BY <2>1
  <2>3. OnBoard(getInvestorTransactionCashFlowRatio(q), early)
    BY GetInvestorTransactionCashFlowRatioFits
  <2>. QED
    BY <2>2, <2>3 DEF BoardNamesAre
<1>7. ASSUME e \in Serve("getIndustryCashFlow", ByTimeAndExchange, getIndustryCashFlow) PROVE e[1] \in BoardNamesAre /\ OnBoard(e[3], early)
  <2>1. PICK q : e = <<"getIndustryCashFlow", q, getIndustryCashFlow(q)>>
    BY <1>7 DEF Serve
  <2>2. e[1] = "getIndustryCashFlow" /\ e[3] = getIndustryCashFlow(q)
    BY <2>1
  <2>3. OnBoard(getIndustryCashFlow(q), early)
    BY GetIndustryCashFlowFits
  <2>. QED
    BY <2>2, <2>3 DEF BoardNamesAre
<1>8. ASSUME e \in Serve("getRSI", BySession, getRSI) PROVE e[1] \in BoardNamesAre /\ OnBoard(e[3], early)
  <2>1. PICK q : e = <<"getRSI", q, getRSI(q)>>
    BY <1>8 DEF Serve
  <2>2. e[1] = "getRSI" /\ e[3] = getRSI(q)
    BY <2>1
  <2>3. OnBoard(getRSI(q), early)
    BY GetRSIFits
  <2>. QED
    BY <2>2, <2>3 DEF BoardNamesAre
<1>9. ASSUME e \in Serve("getTopNetBuyIndustry", ByTimeAndExchange, getTopNetBuyIndustry) PROVE e[1] \in BoardNamesAre /\ OnBoard(e[3], early)
  <2>1. PICK q : e = <<"getTopNetBuyIndustry", q, getTopNetBuyIndustry(q)>>
    BY <1>9 DEF Serve
  <2>2. e[1] = "getTopNetBuyIndustry" /\ e[3] = getTopNetBuyIndustry(q)
    BY <2>1
  <2>3. OnBoard(getTopNetBuyIndustry(q), early)
    BY GetTopNetBuyIndustryFits
  <2>. QED
    BY <2>2, <2>3 DEF BoardNamesAre
<1>10. ASSUME e \in Serve("getInvestorCashFlowByIndustry", ByExTimeInvestor, getInvestorCashFlowByIndustry) PROVE e[1] \in BoardNamesAre /\ OnBoard(e[3], early)
  <2>1. PICK q : e = <<"getInvestorCashFlowByIndustry", q, getInvestorCashFlowByIndustry(q)>>
    BY <1>10 DEF Serve
  <2>2. e[1] = "getInvestorCashFlowByIndustry" /\ e[3] = getInvestorCashFlowByIndustry(q)
    BY <2>1
  <2>3. OnBoard(getInvestorCashFlowByIndustry(q), early)
    BY GetInvestorCashFlowByIndustryFits
  <2>. QED
    BY <2>2, <2>3 DEF BoardNamesAre
<1>11. ASSUME e \in Serve("getTotalTransactionValue", ByTimeAndExchange, getTotalTransactionValue) PROVE e[1] \in BoardNamesAre /\ OnBoard(e[3], early)
  <2>1. PICK q : e = <<"getTotalTransactionValue", q, getTotalTransactionValue(q)>>
    BY <1>11 DEF Serve
  <2>2. e[1] = "getTotalTransactionValue" /\ e[3] = getTotalTransactionValue(q)
    BY <2>1
  <2>3. OnBoard(getTotalTransactionValue(q), early)
    BY GetTotalTransactionValueFits
  <2>. QED
    BY <2>2, <2>3 DEF BoardNamesAre
<1>. QED
  BY <1>1, <1>2, <1>3, <1>4, <1>5, <1>6, <1>7, <1>8, <1>9, <1>10, <1>11
  DEF CashFlowEndpoints, Serve

LEMMA MarketEndpointsFit ==
  ASSUME NEW e \in MarketEndpoints, NEW early
  PROVE  e[1] \notin BoardNamesAre /\ Served(e[3], early)
<1>1. ASSUME e \in Serve("priceChangePerformance", BySector, priceChangePerformance) PROVE e[1] \notin BoardNamesAre /\ Served(e[3], early)
  <2>1. PICK q : e = <<"priceChangePerformance", q, priceChangePerformance(q)>>
    BY <1>1 DEF Serve
  <2>2. e[1] = "priceChangePerformance" /\ e[3] = priceChangePerformance(q)
    BY <2>1
  <2>3. Served(priceChangePerformance(q), early)
    BY PriceChangePerformanceFits, AllKinds
  <2>. QED
    BY <2>2, <2>3 DEF BoardNamesAre
<1>2. ASSUME e \in Serve("liquidityChangePerformance", BySector, liquidityChangePerformance) PROVE e[1] \notin BoardNamesAre /\ Served(e[3], early)
  <2>1. PICK q : e = <<"liquidityChangePerformance", q, liquidityChangePerformance(q)>>
    BY <1>2 DEF Serve
  <2>2. e[1] = "liquidityChangePerformance" /\ e[3] = liquidityChangePerformance(q)
    BY <2>1
  <2>3. Served(liquidityChangePerformance(q), early)
    BY LiquidityChangePerformanceFits, AllKinds
  <2>. QED
    BY <2>2, <2>3 DEF BoardNamesAre
<1>3. ASSUME e \in Serve("equityChangePerformance", BySector, equityChangePerformance) PROVE e[1] \notin BoardNamesAre /\ Served(e[3], early)
  <2>1. PICK q : e = <<"equityChangePerformance", q, equityChangePerformance(q)>>
    BY <1>3 DEF Serve
  <2>2. e[1] = "equityChangePerformance" /\ e[3] = equityChangePerformance(q)
    BY <2>1
  <2>3. Served(equityChangePerformance(q), early)
    BY EquityChangePerformanceFits, AllKinds
  <2>. QED
    BY <2>2, <2>3 DEF BoardNamesAre
<1>4. ASSUME e \in Serve("liabilitiesChangePerformance", BySector, liabilitiesChangePerformance) PROVE e[1] \notin BoardNamesAre /\ Served(e[3], early)
  <2>1. PICK q : e = <<"liabilitiesChangePerformance", q, liabilitiesChangePerformance(q)>>
    BY <1>4 DEF Serve
  <2>2. e[1] = "liabilitiesChangePerformance" /\ e[3] = liabilitiesChangePerformance(q)
    BY <2>1
  <2>3. Served(liabilitiesChangePerformance(q), early)
    BY LiabilitiesChangePerformanceFits, AllKinds
  <2>. QED
    BY <2>2, <2>3 DEF BoardNamesAre
<1>5. ASSUME e \in Serve("marketCapChangePerformance", ByPeriod, marketCapChangePerformance) PROVE e[1] \notin BoardNamesAre /\ Served(e[3], early)
  <2>1. PICK q : e = <<"marketCapChangePerformance", q, marketCapChangePerformance(q)>>
    BY <1>5 DEF Serve
  <2>2. e[1] = "marketCapChangePerformance" /\ e[3] = marketCapChangePerformance(q)
    BY <2>1
  <2>3. Served(marketCapChangePerformance(q), early)
    BY MarketCapChangePerformanceFits, AllKinds
  <2>. QED
    BY <2>2, <2>3 DEF BoardNamesAre
<1>6. ASSUME e \in Serve("indsLiquidityChangePerformance", ByPeriod, indsLiquidityChangePerformance) PROVE e[1] \notin BoardNamesAre /\ Served(e[3], early)
  <2>1. PICK q : e = <<"indsLiquidityChangePerformance", q, indsLiquidityChangePerformance(q)>>
    BY <1>6 DEF Serve
  <2>2. e[1] = "indsLiquidityChangePerformance" /\ e[3] = indsLiquidityChangePerformance(q)
    BY <2>1
  <2>3. Served(indsLiquidityChangePerformance(q), early)
    BY IndsLiquidityChangePerformanceFits, AllKinds
  <2>. QED
    BY <2>2, <2>3 DEF BoardNamesAre
<1>7. ASSUME e \in Serve("equityIndsChangePerformance", ByPeriod, equityIndsChangePerformance) PROVE e[1] \notin BoardNamesAre /\ Served(e[3], early)
  <2>1. PICK q : e = <<"equityIndsChangePerformance", q, equityIndsChangePerformance(q)>>
    BY <1>7 DEF Serve
  <2>2. e[1] = "equityIndsChangePerformance" /\ e[3] = equityIndsChangePerformance(q)
    BY <2>1
  <2>3. Served(equityIndsChangePerformance(q), early)
    BY EquityIndsChangePerformanceFits, AllKinds
  <2>. QED
    BY <2>2, <2>3 DEF BoardNamesAre
<1>8. ASSUME e \in Serve("liabilitiesIndsChangePerformance", ByPeriod, liabilitiesIndsChangePerformance) PROVE e[1] \notin BoardNamesAre /\ Served(e[3], early)
  <2>1. PICK q : e = <<"liabilitiesIndsChangePerformance", q, liabilitiesIndsChangePerformance(q)>>
    BY <1>8 DEF Serve
  <2>2. e[1] = "liabilitiesIndsChangePerformance" /\ e[3] = liabilitiesIndsChangePerformance(q)
    BY <2>1
  <2>3. Served(liabilitiesIndsChangePerformance(q), early)
    BY LiabilitiesIndsChangePerformanceFits, AllKinds
  <2>. QED
    BY <2>2, <2>3 DEF BoardNamesAre
<1>9. ASSUME e \in Serve("netRevenueInds", ByPeriod, netRevenueInds) PROVE e[1] \notin BoardNamesAre /\ Served(e[3], early)
  <2>1. PICK q : e = <<"netRevenueInds", q, netRevenueInds(q)>>
    BY <1>9 DEF Serve
  <2>2. e[1] = "netRevenueInds" /\ e[3] = netRevenueInds(q)
    BY <2>1
  <2>3. Served(netRevenueInds(q), early)
    BY NetRevenueIndsFits, AllKinds
  <2>. QED
    BY <2>2, <2>3 DEF BoardNamesAre
<1>10. ASSUME e \in Serve("profitInds", ByPeriod, profitInds) PROVE e[1] \notin BoardNamesAre /\ Served(e[3], early)
  <2>1. PICK q : e = <<"profitInds", q, profitInds(q)>>
    BY <1>10 DEF Serve
  <2>2. e[1] = "profitInds" /\ e[3] = profitInds(q)
    BY <2>1
  <2>3. Served(profitInds(q), early)
    BY ProfitIndsFits, AllKinds
  <2>. QED
    BY <2>2, <2>3 DEF BoardNamesAre
<1>11. ASSUME e \in Serve("activityProfitInds", ByPeriod, activityProfitInds) PROVE e[1] \notin BoardNamesAre /\ Served(e[3], early)
  <2>1. PICK q : e = <<"activityProfitInds", q, activityProfitInds(q)>>
    BY <1>11 DEF Serve
  <2>2. e[1] = "activityProfitInds" /\ e[3] = activityProfitInds(q)
    BY <2>1
  <2>3. Served(activityProfitInds(q), early)
    BY ActivityProfitIndsFits, AllKinds
  <2>. QED
    BY <2>2, <2>3 DEF BoardNamesAre
<1>12. ASSUME e \in Serve("ebitdaInds", ByPeriod, ebitdaInds) PROVE e[1] \notin BoardNamesAre /\ Served(e[3], early)
  <2>1. PICK q : e = <<"ebitdaInds", q, ebitdaInds(q)>>
    BY <1>12 DEF Serve
  <2>2. e[1] = "ebitdaInds" /\ e[3] = ebitdaInds(q)
    BY <2>1
  <2>3. Served(ebitdaInds(q), early)
    BY EbitdaIndsFits, AllKinds
  <2>. QED
    BY <2>2, <2>3 DEF BoardNamesAre
<1>13. ASSUME e \in Serve("cashDividend", ByPeriod, cashDividend) PROVE e[1] \notin BoardNamesAre /\ Served(e[3], early)
  <2>1. PICK q : e = <<"cashDividend", q, cashDividend(q)>>
    BY <1>13 DEF Serve
  <2>2. e[1] = "cashDividend" /\ e[3] = cashDividend(q)
    BY <2>1
  <2>3. Served(cashDividend(q), early)
    BY CashDividendFits, AllKinds
  <2>. QED
    BY <2>2, <2>3 DEF BoardNamesAre
<1>14. ASSUME e \in Serve("epsInds", ByPeriod, epsInds) PROVE e[1] \notin BoardNamesAre /\ Served(e[3], early)
  <2>1. PICK q : e = <<"epsInds", q, epsInds(q)>>
    BY <1>14 DEF Serve
  <2>2. e[1] = "epsInds" /\ e[3] = epsInds(q)
    BY <2>1
  <2>3. Served(epsInds(q), early)
    BY EpsIndsFits, AllKinds
  <2>. QED
    BY <2>2, <2>3 DEF BoardNamesAre
<1>15. ASSUME e \in Serve("topHotIndustry", NoQuery, topHotIndustry) PROVE e[1] \notin BoardNamesAre /\ Served(e[3], early)
  <2>1. PICK q : e = <<"topHotIndustry", q, topHotIndustry(q)>>
    BY <1>15 DEF Serve
  <2>2. e[1] = "topHotIndustry" /\ e[3] = topHotIndustry(q)
    BY <2>1
  <2>3. Served(topHotIndustry(q), early)
    BY TopHotIndustryFits, AllKinds
  <2>. QED
    BY <2>2, <2>3 DEF BoardNamesAre
<1>. QED
  BY <1>1, <1>2, <1>3, <1>4, <1>5, <1>6, <1>7, <1>8, <1>9, <1>10, <1>11, <1>12, <1>13,
     <1>14, <1>15
  DEF MarketEndpoints, Serve

LEMMA HealthEndpointsFit ==
  ASSUME NEW e \in HealthEndpoints, NEW early
  PROVE  e[1] \notin BoardNamesAre /\ Served(e[3], early)
<1>1. ASSUME e \in Serve("PBIndustry", BySectorRatio, PBIndustry) PROVE e[1] \notin BoardNamesAre /\ Served(e[3], early)
  <2>1. PICK q : e = <<"PBIndustry", q, PBIndustry(q)>>
    BY <1>1 DEF Serve
  <2>2. e[1] = "PBIndustry" /\ e[3] = PBIndustry(q)
    BY <2>1
  <2>3. Served(PBIndustry(q), early)
    BY PBIndustryFits, AllKinds
  <2>. QED
    BY <2>2, <2>3 DEF BoardNamesAre
<1>2. ASSUME e \in Serve("PEIndustry", ByRatioPeriods, PEIndustry) PROVE e[1] \notin BoardNamesAre /\ Served(e[3], early)
  <2>1. PICK q : e = <<"PEIndustry", q, PEIndustry(q)>>
    BY <1>2 DEF Serve
  <2>2. e[1] = "PEIndustry" /\ e[3] = PEIndustry(q)
    BY <2>1
  <2>3. Served(PEIndustry(q), early)
    BY PEIndustryFits, AllKinds
  <2>. QED
    BY <2>2, <2>3 DEF BoardNamesAre
<1>3. ASSUME e \in Serve("PETicker", BySectorPrices, PETicker) PROVE e[1] \notin BoardNamesAre /\ Served(e[3], early)
  <2>1. PICK q : e = <<"PETicker", q, PETicker(q)>>
    BY <1>3 DEF Serve
  <2>2. e[1] = "PETicker" /\ e[3] = PETicker(q)
    BY <2>1
  <2>3. Served(PETicker(q), early)
    BY PETickerFits, AllKinds
  <2>. QED
    BY <2>2, <2>3 DEF BoardNamesAre
<1>4. ASSUME e \in Serve("PBTicker", BySectorPrices, PBTicker) PROVE e[1] \notin BoardNamesAre /\ Served(e[3], early)
  <2>1. PICK q : e = <<"PBTicker", q, PBTicker(q)>>
    BY <1>4 DEF Serve
  <2>2. e[1] = "PBTicker" /\ e[3] = PBTicker(q)
    BY <2>1
  <2>3. Served(PBTicker(q), early)
    BY PBTickerFits, AllKinds
  <2>. QED
    BY <2>2, <2>3 DEF BoardNamesAre
<1>5. ASSUME e \in Serve("payoutRatio", ByRatio, payoutRatio) PROVE e[1] \notin BoardNamesAre /\ Served(e[3], early)
  <2>1. PICK q : e = <<"payoutRatio", q, payoutRatio(q)>>
    BY <1>5 DEF Serve
  <2>2. e[1] = "payoutRatio" /\ e[3] = payoutRatio(q)
    BY <2>1
  <2>3. Served(payoutRatio(q), early)
    BY PayoutRatioFits, AllKinds
  <2>. QED
    BY <2>2, <2>3 DEF BoardNamesAre
<1>6. ASSUME e \in Serve("cashRatio", ByRatio, cashRatio) PROVE e[1] \notin BoardNamesAre /\ Served(e[3], early)
  <2>1. PICK q : e = <<"cashRatio", q, cashRatio(q)>>
    BY <1>6 DEF Serve
  <2>2. e[1] = "cashRatio" /\ e[3] = cashRatio(q)
    BY <2>1
  <2>3. Served(cashRatio(q), early)
    BY CashRatioFits, AllKinds
  <2>. QED
    BY <2>2, <2>3 DEF BoardNamesAre
<1>7. ASSUME e \in Serve("rotationRatio", ByRatio, rotationRatio) PROVE e[1] \notin BoardNamesAre /\ Served(e[3], early)
  <2>1. PICK q : e = <<"rotationRatio", q, rotationRatio(q)>>
    BY <1>7 DEF Serve
  <2>2. e[1] = "rotationRatio" /\ e[3] = rotationRatio(q)
    BY <2>1
  <2>3. Served(rotationRatio(q), early)
    BY RotationRatioFits, AllKinds
  <2>. QED
    BY <2>2, <2>3 DEF BoardNamesAre
<1>8. ASSUME e \in Serve("indsDebtSolvency", ByRatio, indsDebtSolvency) PROVE e[1] \notin BoardNamesAre /\ Served(e[3], early)
  <2>1. PICK q : e = <<"indsDebtSolvency", q, indsDebtSolvency(q)>>
    BY <1>8 DEF Serve
  <2>2. e[1] = "indsDebtSolvency" /\ e[3] = indsDebtSolvency(q)
    BY <2>1
  <2>3. Served(indsDebtSolvency(q), early)
    BY IndsDebtSolvencyFits, AllKinds
  <2>. QED
    BY <2>2, <2>3 DEF BoardNamesAre
<1>9. ASSUME e \in Serve("indsProfitMargins", ByRatioPeriods, indsProfitMargins) PROVE e[1] \notin BoardNamesAre /\ Served(e[3], early)
  <2>1. PICK q : e = <<"indsProfitMargins", q, indsProfitMargins(q)>>
    BY <1>9 DEF Serve
  <2>2. e[1] = "indsProfitMargins" /\ e[3] = indsProfitMargins(q)
    BY <2>1
  <2>3. Served(indsProfitMargins(q), early)
    BY IndsProfitMarginsFits, AllKinds
  <2>. QED
    BY <2>2, <2>3 DEF BoardNamesAre
<1>10. ASSUME e \in Serve("indsInterestCoverage", ByRatioPeriods, indsInterestCoverage) PROVE e[1] \notin BoardNamesAre /\ Served(e[3], early)
  <2>1. PICK q : e = <<"indsInterestCoverage", q, indsInterestCoverage(q)>>
    BY <1>10 DEF Serve
  <2>2. e[1] = "indsInterestCoverage" /\ e[3] = indsInterestCoverage(q)
    BY <2>1
  <2>3. Served(indsInterestCoverage(q), early)
    BY IndsInterestCoverageFits, AllKinds
  <2>. QED
    BY <2>2, <2>3 DEF BoardNamesAre
<1>11. ASSUME e \in Serve("interestRatesOnLoans", ByRatioPeriods, interestRatesOnLoans) PROVE e[1] \notin BoardNamesAre /\ Served(e[3], early)
  <2>1. PICK q : e = <<"interestRatesOnLoans", q, interestRatesOnLoans(q)>>
    BY <1>11 DEF Serve
  <2>2. e[1] = "interestRatesOnLoans" /\ e[3] = interestRatesOnLoans(q)
    BY <2>1
  <2>3. Served(interestRatesOnLoans(q), early)
    BY InterestRatesOnLoansFits, AllKinds
  <2>. QED
    BY <2>2, <2>3 DEF BoardNamesAre
<1>12. ASSUME e \in Serve("indsProfitMarginsTable", ByRatio, indsProfitMarginsTable) PROVE e[1] \notin BoardNamesAre /\ Served(e[3], early)
  <2>1. PICK q : e = <<"indsProfitMarginsTable", q, indsProfitMarginsTable(q)>>
    BY <1>12 DEF Serve
  <2>2. e[1] = "indsProfitMarginsTable" /\ e[3] = indsProfitMarginsTable(q)
    BY <2>1
  <2>3. Served(indsProfitMarginsTable(q), early)
    BY IndsProfitMarginsTableFits, AllKinds
  <2>. QED
    BY <2>2, <2>3 DEF BoardNamesAre
<1>13. ASSUME e \in Serve("netProfitMarginByIndustries", ByRatioPeriods, netProfitMarginByIndustries) PROVE e[1] \notin BoardNamesAre /\ Served(e[3], early)
  <2>1. PICK q : e = <<"netProfitMarginByIndustries", q, netProfitMarginByIndustries(q)>>
    BY <1>13 DEF Serve
  <2>2. e[1] = "netProfitMarginByIndustries" /\ e[3] = netProfitMarginByIndustries(q)
    BY <2>1
  <2>3. Served(netProfitMarginByIndustries(q), early)
    BY NetProfitMarginByIndustriesFits, AllKinds
  <2>. QED
    BY <2>2, <2>3 DEF BoardNamesAre
<1>. QED
  BY <1>1, <1>2, <1>3, <1>4, <1>5, <1>6, <1>7, <1>8, <1>9, <1>10, <1>11, <1>12, <1>13
  DEF HealthEndpoints, Serve

LEMMA MacroEndpointsFit ==
  ASSUME NEW e \in MacroEndpoints, NEW early
  PROVE  e[1] \notin BoardNamesAre /\ Served(e[3], early)
<1>1. ASSUME e \in Serve("industryGDPValue", NoQuery, industryGDPValue) PROVE e[1] \notin BoardNamesAre /\ Served(e[3], early)
  <2>1. PICK q : e = <<"industryGDPValue", q, industryGDPValue(q)>>
    BY <1>1 DEF Serve
  <2>2. e[1] = "industryGDPValue" /\ e[3] = industryGDPValue(q)
    BY <2>1
  <2>3. Served(industryGDPValue(q), early)
    BY SeriesOfMacroFit, AllKinds
  <2>. QED
    BY <2>2, <2>3 DEF BoardNamesAre
<1>2. ASSUME e \in Serve("gdpPrice", NoQuery, gdpPrice) PROVE e[1] \notin BoardNamesAre /\ Served(e[3], early)
  <2>1. PICK q : e = <<"gdpPrice", q, gdpPrice(q)>>
    BY <1>2 DEF Serve
  <2>2. e[1] = "gdpPrice" /\ e[3] = gdpPrice(q)
    BY <2>1
  <2>3. Served(gdpPrice(q), early)
    BY SeriesOfMacroFit, AllKinds
  <2>. QED
    BY <2>2, <2>3 DEF BoardNamesAre
<1>3. ASSUME e \in Serve("idustryGDPContibute", NoQuery, idustryGDPContibute) PROVE e[1] \notin BoardNamesAre /\ Served(e[3], early)
  <2>1. PICK q : e = <<"idustryGDPContibute", q, idustryGDPContibute(q)>>
    BY <1>3 DEF Serve
  <2>2. e[1] = "idustryGDPContibute" /\ e[3] = idustryGDPContibute(q)
    BY <2>1
  <2>3. Served(idustryGDPContibute(q), early)
    BY SeriesOfMacroFit, AllKinds
  <2>. QED
    BY <2>2, <2>3 DEF BoardNamesAre
<1>4. ASSUME e \in Serve("idustryGDPGrowthPercent", NoQuery, idustryGDPGrowthPercent) PROVE e[1] \notin BoardNamesAre /\ Served(e[3], early)
  <2>1. PICK q : e = <<"idustryGDPGrowthPercent", q, idustryGDPGrowthPercent(q)>>
    BY <1>4 DEF Serve
  <2>2. e[1] = "idustryGDPGrowthPercent" /\ e[3] = idustryGDPGrowthPercent(q)
    BY <2>1
  <2>3. Served(idustryGDPGrowthPercent(q), early)
    BY SeriesOfMacroFit, AllKinds
  <2>. QED
    BY <2>2, <2>3 DEF BoardNamesAre
<1>5. ASSUME e \in Serve("idustryGDPGrowth", BySeriesOrder, idustryGDPGrowth) PROVE e[1] \notin BoardNamesAre /\ Served(e[3], early)
  <2>1. PICK q : e = <<"idustryGDPGrowth", q, idustryGDPGrowth(q)>>
    BY <1>5 DEF Serve
  <2>2. e[1] = "idustryGDPGrowth" /\ e[3] = idustryGDPGrowth(q)
    BY <2>1
  <2>3. Served(idustryGDPGrowth(q), early)
    BY IdustryGDPGrowthFits, AllKinds
  <2>. QED
    BY <2>2, <2>3 DEF BoardNamesAre
<1>6. ASSUME e \in Serve("idustryCPIPercent", NoQuery, idustryCPIPercent) PROVE e[1] \notin BoardNamesAre /\ Served(e[3], early)
  <2>1. PICK q : e = <<"idustryCPIPercent", q, idustryCPIPercent(q)>>
    BY <1>6 DEF Serve
  <2>2. e[1] = "idustryCPIPercent" /\ e[3] = idustryCPIPercent(q)
    BY <2>1
  <2>3. Served(idustryCPIPercent(q), early)
    BY SeriesOfMacroFit, AllKinds
  <2>. QED
    BY <2>2, <2>3 DEF BoardNamesAre
<1>7. ASSUME e \in Serve("idustryCPITable", NoQuery, idustryCPITable) PROVE e[1] \notin BoardNamesAre /\ Served(e[3], early)
  <2>1. PICK q : e = <<"idustryCPITable", q, idustryCPITable(q)>>
    BY <1>7 DEF Serve
  <2>2. e[1] = "idustryCPITable" /\ e[3] = idustryCPITable(q)
    BY <2>1
  <2>3. Served(idustryCPITable(q), early)
    BY SeriesOfMacroFit, AllKinds
  <2>. QED
    BY <2>2, <2>3 DEF BoardNamesAre
<1>8. ASSUME e \in Serve("idustryCPISameQuater", NoQuery, idustryCPISameQuater) PROVE e[1] \notin BoardNamesAre /\ Served(e[3], early)
  <2>1. PICK q : e = <<"idustryCPISameQuater", q, idustryCPISameQuater(q)>>
    BY <1>8 DEF Serve
  <2>2. e[1] = "idustryCPISameQuater" /\ e[3] = idustryCPISameQuater(q)
    BY <2>1
  <2>3. Served(idustryCPISameQuater(q), early)
    BY SeriesOfMacroFit, AllKinds
  <2>. QED
    BY <2>2, <2>3 DEF BoardNamesAre
<1>9. ASSUME e \in Serve("idustryCPIChange", BySeriesOrder, idustryCPIChange) PROVE e[1] \notin BoardNamesAre /\ Served(e[3], early)
  <2>1. PICK q : e = <<"idustryCPIChange", q, idustryCPIChange(q)>>
    BY <1>9 DEF Serve
  <2>2. e[1] = "idustryCPIChange" /\ e[3] = idustryCPIChange(q)
    BY <2>1
  <2>3. Served(idustryCPIChange(q), early)
    BY SeriesOfMacroFit, AllKinds
  <2>. QED
    BY <2>2, <2>3 DEF BoardNamesAre
<1>10. ASSUME e \in Serve("cpiQuyenSo", NoQuery, cpiQuyenSo) PROVE e[1] \notin BoardNamesAre /\ Served(e[3], early)
  <2>1. PICK q : e = <<"cpiQuyenSo", q, cpiQuyenSo(q)>>
    BY <1>10 DEF Serve
  <2>2. e[1] = "cpiQuyenSo" /\ e[3] = cpiQuyenSo(q)
    BY <2>1
  <2>3. Served(cpiQuyenSo(q), early)
    BY SeriesOfMacroFit, AllKinds
  <2>. QED
    BY <2>2, <2>3 DEF BoardNamesAre
<1>11. ASSUME e \in Serve("industrialIndex", BySeriesOrder, industrialIndex) PROVE e[1] \notin BoardNamesAre /\ Served(e[3], early)
  <2>1. PICK q : e = <<"industrialIndex", q, industrialIndex(q)>>
    BY <1>11 DEF Serve
  <2>2. e[1] = "industrialIndex" /\ e[3] = industrialIndex(q)
    BY <2>1
  <2>3. Served(industrialIndex(q), early)
    BY SeriesOfMacroFit, AllKinds
  <2>. QED
    BY <2>2, <2>3 DEF BoardNamesAre
<1>12. ASSUME e \in Serve("industrialIndexTable", NoQuery, industrialIndexTable) PROVE e[1] \notin BoardNamesAre /\ Served(e[3], early)
  <2>1. PICK q : e = <<"industrialIndexTable", q, industrialIndexTable(q)>>
    BY <1>12 DEF Serve
  <2>2. e[1] = "industrialIndexTable" /\ e[3] = industrialIndexTable(q)
    BY <2>1
  <2>3. Served(industrialIndexTable(q), early)
    BY SeriesOfMacroFit, AllKinds
  <2>. QED
    BY <2>2, <2>3 DEF BoardNamesAre
<1>13. ASSUME e \in Serve("ippConsumAndInventory", ByIPPIndustry, ippConsumAndInventory) PROVE e[1] \notin BoardNamesAre /\ Served(e[3], early)
  <2>1. PICK q : e = <<"ippConsumAndInventory", q, ippConsumAndInventory(q)>>
    BY <1>13 DEF Serve
  <2>2. e[1] = "ippConsumAndInventory" /\ e[3] = ippConsumAndInventory(q)
    BY <2>1
  <2>3. Served(ippConsumAndInventory(q), early)
    BY SeriesOfMacroFit, AllKinds
  <2>. QED
    BY <2>2, <2>3 DEF BoardNamesAre
<1>14. ASSUME e \in Serve("ippIndusProductionIndex", ByIPPIndustry, ippIndusProductionIndex) PROVE e[1] \notin BoardNamesAre /\ Served(e[3], early)
  <2>1. PICK q : e = <<"ippIndusProductionIndex", q, ippIndusProductionIndex(q)>>
    BY <1>14 DEF Serve
  <2>2. e[1] = "ippIndusProductionIndex" /\ e[3] = ippIndusProductionIndex(q)
    BY <2>1
  <2>3. Served(ippIndusProductionIndex(q), early)
    BY SeriesOfMacroFit, AllKinds
  <2>. QED
    BY <2>2, <2>3 DEF BoardNamesAre
<1>15. ASSUME e \in Serve("ippMostIndusProduction", ByIPPIndustry, ippMostIndusProduction) PROVE e[1] \notin BoardNamesAre /\ Served(e[3], early)
  <2>1. PICK q : e = <<"ippMostIndusProduction", q, ippMostIndusProduction(q)>>
    BY <1>15 DEF Serve
  <2>2. e[1] = "ippMostIndusProduction" /\ e[3] = ippMostIndusProduction(q)
    BY <2>1
  <2>3. Served(ippMostIndusProduction(q), early)
    BY SeriesOfMacroFit, AllKinds
  <2>. QED
    BY <2>2, <2>3 DEF BoardNamesAre
<1>16. ASSUME e \in Serve("laborForce", NoQuery, laborForce) PROVE e[1] \notin BoardNamesAre /\ Served(e[3], early)
  <2>1. PICK q : e = <<"laborForce", q, laborForce(q)>>
    BY <1>16 DEF Serve
  <2>2. e[1] = "laborForce" /\ e[3] = laborForce(q)
    BY <2>1
  <2>3. Served(laborForce(q), early)
    BY SeriesOfMacroFit, AllKinds
  <2>. QED
    BY <2>2, <2>3 DEF BoardNamesAre
<1>17. ASSUME e \in Serve("unemployedRate", NoQuery, unemployedRate) PROVE e[1] \notin BoardNamesAre /\ Served(e[3], early)
  <2>1. PICK q : e = <<"unemployedRate", q, unemployedRate(q)>>
    BY <1>17 DEF Serve
  <2>2. e[1] = "unemployedRate" /\ e[3] = unemployedRate(q)
    BY <2>1
  <2>3. Served(unemployedRate(q), early)
    BY SeriesOfMacroFit, AllKinds
  <2>. QED
    BY <2>2, <2>3 DEF BoardNamesAre
<1>18. ASSUME e \in Serve("laborRate", NoQuery, laborRate) PROVE e[1] \notin BoardNamesAre /\ Served(e[3], early)
  <2>1. PICK q : e = <<"laborRate", q, laborRate(q)>>
    BY <1>18 DEF Serve
  <2>2. e[1] = "laborRate" /\ e[3] = laborRate(q)
    BY <2>1
  <2>3. Served(laborRate(q), early)
    BY SeriesOfMacroFit, AllKinds
  <2>. QED
    BY <2>2, <2>3 DEF BoardNamesAre
<1>19. ASSUME e \in Serve("informalLaborRate", NoQuery, informalLaborRate) PROVE e[1] \notin BoardNamesAre /\ Served(e[3], early)
  <2>1. PICK q : e = <<"informalLaborRate", q, informalLaborRate(q)>>
    BY <1>19 DEF Serve
  <2>2. e[1] = "informalLaborRate" /\ e[3] = informalLaborRate(q)
    BY <2>1
  <2>3. Served(informalLaborRate(q), early)
    BY SeriesOfMacroFit, AllKinds
  <2>. QED
    BY <2>2, <2>3 DEF BoardNamesAre
<1>20. ASSUME e \in Serve("averageSalary", NoQuery, averageSalary) PROVE e[1] \notin BoardNamesAre /\ Served(e[3], early)
  <2>1. PICK q : e = <<"averageSalary", q, averageSalary(q)>>
    BY <1>20 DEF Serve
  <2>2. e[1] = "averageSalary" /\ e[3] = averageSalary(q)
    BY <2>1
  <2>3. Served(averageSalary(q), early)
    BY SeriesOfMacroFit, AllKinds
  <2>. QED
    BY <2>2, <2>3 DEF BoardNamesAre
<1>21. ASSUME e \in Serve("employmentFluctuations", NoQuery, employmentFluctuations) PROVE e[1] \notin BoardNamesAre /\ Served(e[3], early)
  <2>1. PICK q : e = <<"employmentFluctuations", q, employmentFluctuations(q)>>
    BY <1>21 DEF Serve
  <2>2. e[1] = "employmentFluctuations" /\ e[3] = employmentFluctuations(q)
    BY <2>1
  <2>3. Served(employmentFluctuations(q), early)
    BY SeriesOfMacroFit, AllKinds
  <2>. QED
    BY <2>2, <2>3 DEF BoardNamesAre
<1>22. ASSUME e \in Serve("totalPayment", NoQuery, totalPayment) PROVE e[1] \notin BoardNamesAre /\ Served(e[3], early)
  <2>1. PICK q : e = <<"totalPayment", q, totalPayment(q)>>
    BY <1>22 DEF Serve
  <2>2. e[1] = "totalPayment" /\ e[3] = totalPayment(q)
    BY <2>1
  <2>3. Served(totalPayment(q), early)
    BY SeriesOfMacroFit, AllKinds
  <2>. QED
    BY <2>2, <2>3 DEF BoardNamesAre
<1>23. ASSUME e \in Serve("totalPaymentPercent", NoQuery, totalPaymentPercent) PROVE e[1] \notin BoardNamesAre /\ Served(e[3], early)
  <2>1. PICK q : e = <<"totalPaymentPercent", q, totalPaymentPercent(q)>>
    BY <1>23 DEF Serve
  <2>2. e[1] = "totalPaymentPercent" /\ e[3] = totalPaymentPercent(q)
    BY <2>1
  <2>3. Served(totalPaymentPercent(q), early)
    BY SeriesOfMacroFit, AllKinds
  <2>. QED
    BY <2>2, <2>3 DEF BoardNamesAre
<1>24. ASSUME e \in Serve("balancePaymentInternational", NoQuery, balancePaymentInternational) PROVE e[1] \notin BoardNamesAre /\ Served(e[3], early)
  <2>1. PICK q : e = <<"balancePaymentInternational", q, balancePaymentInternational(q)>>
    BY <1>24 DEF Serve
  <2>2. e[1] = "balancePaymentInternational" /\ e[3] = balancePaymentInternational(q)
    BY <2>1
  <2>3. Served(balancePaymentInternational(q), early)
    BY SeriesOfMacroFit, AllKinds
  <2>. QED
    BY <2>2, <2>3 DEF BoardNamesAre
<1>25. ASSUME e \in Serve("creditDebt", NoQuery, creditDebt) PROVE e[1] \notin BoardNamesAre /\ Served(e[3], early)
  <2>1. PICK q : e = <<"creditDebt", q, creditDebt(q)>>
    BY <1>25 DEF Serve
  <2>2. e[1] = "creditDebt" /\ e[3] = creditDebt(q)
    BY <2>1
  <2>3. Served(creditDebt(q), early)
    BY SeriesOfMacroFit, AllKinds
  <2>. QED
    BY <2>2, <2>3 DEF BoardNamesAre
<1>26. ASSUME e \in Serve("creditDebtPercent", NoQuery, creditDebtPercent) PROVE e[1] \notin BoardNamesAre /\ Served(e[3], early)
  <2>1. PICK q : e = <<"creditDebtPercent", q, creditDebtPercent(q)>>
    BY <1>26 DEF Serve
  <2>2. e[1] = "creditDebtPercent" /\ e[3] = creditDebtPercent(q)
    BY <2>1
  <2>3. Served(creditDebtPercent(q), early)
    BY SeriesOfMacroFit, AllKinds
  <2>. QED
    BY <2>2, <2>3 DEF BoardNamesAre
<1>27. ASSUME e \in Serve("creditInstitution", NoQuery, creditInstitution) PROVE e[1] \notin BoardNamesAre /\ Served(e[3], early)
  <2>1. PICK q : e = <<"creditInstitution", q, creditInstitution(q)>>
    BY <1>27 DEF Serve
  <2>2. e[1] = "creditInstitution" /\ e[3] = creditInstitution(q)
    BY <2>1
  <2>3. Served(creditInstitution(q), early)
    BY SeriesOfMacroFit, AllKinds
  <2>. QED
    BY <2>2, <2>3 DEF BoardNamesAre
<1>28. ASSUME e \in Serve("totalInvestmentProjects", BySeriesOrder, totalInvestmentProjects) PROVE e[1] \notin BoardNamesAre /\ Served(e[3], early)
  <2>1. PICK q : e = <<"totalInvestmentProjects", q, totalInvestmentProjects(q)>>
    BY <1>28 DEF Serve
  <2>2. e[1] = "totalInvestmentProjects" /\ e[3] = totalInvestmentProjects(q)
    BY <2>1
  <2>3. Served(totalInvestmentProjects(q), early)
    BY SeriesOfMacroFit, AllKinds
  <2>. QED
    BY <2>2, <2>3 DEF BoardNamesAre
<1>29. ASSUME e \in Serve("accumulated", BySeriesOrder, accumulated) PROVE e[1] \notin BoardNamesAre /\ Served(e[3], early)
  <2>1. PICK q : e = <<"accumulated", q, accumulated(q)>>
    BY <1>29 DEF Serve
  <2>2. e[1] = "accumulated" /\ e[3] = accumulated(q)
    BY <2>1
  <2>3. Served(accumulated(q), early)
    BY SeriesOfMacroFit, AllKinds
  <2>. QED
    BY <2>2, <2>3 DEF BoardNamesAre
<1>30. ASSUME e \in Serve("totalRegisteredAndDisbursed", BySeriesOrder, totalRegisteredAndDisbursed) PROVE e[1] \notin BoardNamesAre /\ Served(e[3], early)
  <2>1. PICK q : e = <<"totalRegisteredAndDisbursed", q, totalRegisteredAndDisbursed(q)>>
    BY <1>30 DEF Serve
  <2>2. e[1] = "totalRegisteredAndDisbursed" /\ e[3] = totalRegisteredAndDisbursed(q)
    BY <2>1
  <2>3. Served(totalRegisteredAndDisbursed(q), early)
    BY SeriesOfMacroFit, AllKinds
  <2>. QED
    BY <2>2, <2>3 DEF BoardNamesAre
<1>31. ASSUME e \in Serve("foreignInvestmentIndex", BySeriesType, foreignInvestmentIndex) PROVE e[1] \notin BoardNamesAre /\ Served(e[3], early)
  <2>1. PICK q : e = <<"foreignInvestmentIndex", q, foreignInvestmentIndex(q)>>
    BY <1>31 DEF Serve
  <2>2. e[1] = "foreignInvestmentIndex" /\ e[3] = foreignInvestmentIndex(q)
    BY <2>1
  <2>3. Served(foreignInvestmentIndex(q), early)
    BY ForeignInvestmentIndexFits, AllKinds
  <2>. QED
    BY <2>2, <2>3 DEF BoardNamesAre
<1>32. ASSUME e \in Serve("corporateBondsIssuedSuccessfully", NoQuery, corporateBondsIssuedSuccessfully) PROVE e[1] \notin BoardNamesAre /\ Served(e[3], early)
  <2>1. PICK q : e = <<"corporateBondsIssuedSuccessfully", q, corporateBondsIssuedSuccessfully(q)>>
    BY <1>32 DEF Serve
  <2>2. e[1] = "corporateBondsIssuedSuccessfully" /\ e[3] = corporateBondsIssuedSuccessfully(q)
    BY <2>1
  <2>3. Served(corporateBondsIssuedSuccessfully(q), early)
    BY PlainMacroFit, AllKinds
  <2>. QED
    BY <2>2, <2>3 DEF BoardNamesAre
<1>33. ASSUME e \in Serve("averageDepositInterestRate", NoQuery, averageDepositInterestRate) PROVE e[1] \notin BoardNamesAre /\ Served(e[3], early)
  <2>1. PICK q : e = <<"averageDepositInterestRate", q, averageDepositInterestRate(q)>>
    BY <1>33 DEF Serve
  <2>2. e[1] = "averageDepositInterestRate" /\ e[3] = averageDepositInterestRate(q)
    BY <2>1
  <2>3. Served(averageDepositInterestRate(q), early)
    BY SeriesOfMacroFit, AllKinds
  <2>. QED
    BY <2>2, <2>3 DEF BoardNamesAre
<1>34. ASSUME e \in Serve("totalOutstandingBalance", NoQuery, totalOutstandingBalance) PROVE e[1] \notin BoardNamesAre /\ Served(e[3], early)
  <2>1. PICK q : e = <<"totalOutstandingBalance", q, totalOutstandingBalance(q)>>
    BY <1>34 DEF Serve
  <2>2. e[1] = "totalOutstandingBalance" /\ e[3] = totalOutstandingBalance(q)
    BY <2>1
  <2>3. Served(totalOutstandingBalance(q), early)
    BY SeriesOfMacroFit, AllKinds
  <2>. QED
    BY <2>2, <2>3 DEF BoardNamesAre
<1>35. ASSUME e \in Serve("estimatedValueOfCorporateBonds", NoQuery, estimatedValueOfCorporateBonds) PROVE e[1] \notin BoardNamesAre /\ Served(e[3], early)
  <2>1. PICK q : e = <<"estimatedValueOfCorporateBonds", q, estimatedValueOfCorporateBonds(q)>>
    BY <1>35 DEF Serve
  <2>2. e[1] = "estimatedValueOfCorporateBonds" /\ e[3] = estimatedValueOfCorporateBonds(q)
    BY <2>1
  <2>3. Served(estimatedValueOfCorporateBonds(q), early)
    BY SeriesOfMacroFit, AllKinds
  <2>. QED
    BY <2>2, <2>3 DEF BoardNamesAre
<1>36. ASSUME e \in Serve("listOfBondsToMaturity", NoQuery, listOfBondsToMaturity) PROVE e[1] \notin BoardNamesAre /\ Served(e[3], early)
  <2>1. PICK q : e = <<"listOfBondsToMaturity", q, listOfBondsToMaturity(q)>>
    BY <1>36 DEF Serve
  <2>2. e[1] = "listOfBondsToMaturity" /\ e[3] = listOfBondsToMaturity(q)
    BY <2>1
  <2>3. Served(listOfBondsToMaturity(q), early)
    BY SeriesOfMacroFit, AllKinds
  <2>. QED
    BY <2>2, <2>3 DEF BoardNamesAre
<1>37. ASSUME e \in Serve("listOfEnterprisesWithLateBond", NoQuery, listOfEnterprisesWithLateBond) PROVE e[1] \notin BoardNamesAre /\ Served(e[3], early)
  <2>1. PICK q : e = <<"listOfEnterprisesWithLateBond", q, listOfEnterprisesWithLateBond(q)>>
    BY <1>37 DEF Serve
  <2>2. e[1] = "listOfEnterprisesWithLateBond" /\ e[3] = listOfEnterprisesWithLateBond(q)
    BY <2>1
  <2>3. Served(listOfEnterprisesWithLateBond(q), early)
    BY SeriesOfMacroFit, AllKinds
  <2>. QED
    BY <2>2, <2>3 DEF BoardNamesAre
<1>38. ASSUME e \in Serve("structureOfOutstandingDebt", NoQuery, structureOfOutstandingDebt) PROVE e[1] \notin BoardNamesAre /\ Served(e[3], early)
  <2>1. PICK q : e = <<"structureOfOutstandingDebt", q, structureOfOutstandingDebt(q)>>
    BY <1>38 DEF Serve
  <2>2. e[1] = "structureOfOutstandingDebt" /\ e[3] = structureOfOutstandingDebt(q)
    BY <2>1
  <2>3. Served(structureOfOutstandingDebt(q), early)
    BY StructureOfOutstandingDebtFits, AllKinds
  <2>. QED
    BY <2>2, <2>3 DEF BoardNamesAre
<1>39. ASSUME e \in Serve("proportionOfOutstandingLoansOfEnterprises", NoQuery, proportionOfOutstandingLoansOfEnterprises) PROVE e[1] \notin BoardNamesAre /\ Served(e[3], early)
  <2>1. PICK q : e = <<"proportionOfOutstandingLoansOfEnterprises", q, proportionOfOutstandingLoansOfEnterprises(q)>>
    BY <1>39 DEF Serve
  <2>2. e[1] = "proportionOfOutstandingLoansOfEnterprises" /\ e[3] = proportionOfOutstandingLoansOfEnterprises(q)
    BY <2>1
  <2>3. Served(proportionOfOutstandingLoansOfEnterprises(q), early)
    BY ProportionOfOutstandingLoansOfEnterprisesFits, AllKinds
  <2>. QED
    BY <2>2, <2>3 DEF BoardNamesAre
<1>40. ASSUME e \in Serve("centralExchangeRate", NoQuery, centralExchangeRate) PROVE e[1] \notin BoardNamesAre /\ Served(e[3], early)
  <2>1. PICK q : e = <<"centralExchangeRate", q, centralExchangeRate(q)>>
    BY <1>40 DEF Serve
  <2>2. e[1] = "centralExchangeRate" /\ e[3] = centralExchangeRate(q)
    BY <2>1
  <2>3. Served(centralExchangeRate(q), early)
    BY SeriesOfMacroFit, AllKinds
  <2>. QED
    BY <2>2, <2>3 DEF BoardNamesAre
<1>41. ASSUME e \in Serve("exchangeRateIndexTable", NoQuery, exchangeRateIndexTable) PROVE e[1] \notin BoardNamesAre /\ Served(e[3], early)
  <2>1. PICK q : e = <<"exchangeRateIndexTable", q, exchangeRateIndexTable(q)>>
    BY <1>41 DEF Serve
  <2>2. e[1] = "exchangeRateIndexTable" /\ e[3] = exchangeRateIndexTable(q)
    BY <2>1
  <2>3. Served(exchangeRateIndexTable(q), early)
    BY SeriesOfMacroFit, AllKinds
  <2>. QED
    BY <2>2, <2>3 DEF BoardNamesAre
<1>42. ASSUME e \in Serve("exchangeRateAndInterestRate", BySeriesType, exchangeRateAndInterestRate) PROVE e[1] \notin BoardNamesAre /\ Served(e[3], early)
  <2>1. PICK q : e = <<"exchangeRateAndInterestRate", q, exchangeRateAndInterestRate(q)>>
    BY <1>42 DEF Serve
  <2>2. e[1] = "exchangeRateAndInterestRate" /\ e[3] = exchangeRateAndInterestRate(q)
    BY <2>1
  <2>3. Served(exchangeRateAndInterestRate(q), early)
    BY PlainMacroFit, AllKinds
  <2>. QED
    BY <2>2, <2>3 DEF BoardNamesAre
<1>43. ASSUME e \in Serve("interestRate", NoQuery, macroInterestRate) PROVE e[1] \notin BoardNamesAre /\ Served(e[3], early)
  <2>1. PICK q : e = <<"interestRate", q, macroInterestRate(q)>>
    BY <1>43 DEF Serve
  <2>2. e[1] = "interestRate" /\ e[3] = macroInterestRate(q)
    BY <2>1
  <2>3. Served(macroInterestRate(q), early)
    BY SeriesOfMacroFit, AllKinds
  <2>. QED
    BY <2>2, <2>3 DEF BoardNamesAre
<1>. QED
  BY <1>1, <1>2, <1>3, <1>4, <1>5, <1>6, <1>7, <1>8, <1>9, <1>10, <1>11, <1>12, <1>13,
     <1>14, <1>15, <1>16, <1>17, <1>18, <1>19, <1>20, <1>21, <1>22, <1>23, <1>24, <1>25,
     <1>26, <1>27, <1>28, <1>29, <1>30, <1>31, <1>32, <1>33, <1>34, <1>35, <1>36, <1>37,
     <1>38, <1>39, <1>40, <1>41, <1>42, <1>43
  DEF MacroEndpoints, Serve

LEMMA RetailEndpointsFit ==
  ASSUME NEW e \in RetailEndpoints, NEW early
  PROVE  e[1] \notin BoardNamesAre /\ Served(e[3], early)
<1>1. ASSUME e \in Serve("retailValue", ByTradeOrder, retailValue) PROVE e[1] \notin BoardNamesAre /\ Served(e[3], early)
  <2>1. PICK q : e = <<"retailValue", q, retailValue(q)>>
    BY <1>1 DEF Serve
  <2>2. e[1] = "retailValue" /\ e[3] = retailValue(q)
    BY <2>1
  <2>3. Served(retailValue(q), early)
    BY TradeTablesFit, AllKinds
  <2>. QED
    BY <2>2, <2>3 DEF BoardNamesAre
<1>2. ASSUME e \in Serve("retailPercentValue", ByTradeOrder, retailPercentValue) PROVE e[1] \notin BoardNamesAre /\ Served(e[3], early)
  <2>1. PICK q : e = <<"retailPercentValue", q, retailPercentValue(q)>>
    BY <1>2 DEF Serve
  <2>2. e[1] = "retailPercentValue" /\ e[3] = retailPercentValue(q)
    BY <2>1
  <2>3. Served(retailPercentValue(q), early)
    BY TradeTablesFit, AllKinds
  <2>. QED
    BY <2>2, <2>3 DEF BoardNamesAre
<1>3. ASSUME e \in Serve("retailValueTotal", NoQuery, retailValueTotal) PROVE e[1] \notin BoardNamesAre /\ Served(e[3], early)
  <2>1. PICK q : e = <<"retailValueTotal", q, retailValueTotal(q)>>
    BY <1>3 DEF Serve
  <2>2. e[1] = "retailValueTotal" /\ e[3] = retailValueTotal(q)
    BY <2>1
  <2>3. Served(retailValueTotal(q), early)
    BY RetailValueTotalFits, AllKinds
  <2>. QED
    BY <2>2, <2>3 DEF BoardNamesAre
<1>4. ASSUME e \in Serve("totalExportImport", ByTradeOrder, totalExportImport) PROVE e[1] \notin BoardNamesAre /\ Served(e[3], early)
  <2>1. PICK q : e = <<"totalExportImport", q, totalExportImport(q)>>
    BY <1>4 DEF Serve
  <2>2. e[1] = "totalExportImport" /\ e[3] = totalExportImport(q)
    BY <2>1
  <2>3. Served(totalExportImport(q), early)
    BY TradeTablesFit, AllKinds
  <2>. QED
    BY <2>2, <2>3 DEF BoardNamesAre
<1>5. ASSUME e \in Serve("mainExportImport", NoQuery, mainExportImport) PROVE e[1] \notin BoardNamesAre /\ Served(e[3], early)
  <2>1. PICK q : e = <<"mainExportImport", q, mainExportImport(q)>>
    BY <1>5 DEF Serve
  <2>2. e[1] = "mainExportImport" /\ e[3] = mainExportImport(q)
    BY <2>1
  <2>3. Served(mainExportImport(q), early)
    BY MainExportImportFits, AllKinds
  <2>. QED
    BY <2>2, <2>3 DEF BoardNamesAre
<1>6. ASSUME e \in Serve("mainExportImportMH", ByTradeOrder, mainExportImportMH) PROVE e[1] \notin BoardNamesAre /\ Served(e[3], early)
  <2>1. PICK q : e = <<"mainExportImportMH", q, mainExportImportMH(q)>>
    BY <1>6 DEF Serve
  <2>2. e[1] = "mainExportImportMH" /\ e[3] = mainExportImportMH(q)
    BY <2>1
  <2>3. Served(mainExportImportMH(q), early)
    BY TradeTablesFit, AllKinds
  <2>. QED
    BY <2>2, <2>3 DEF BoardNamesAre
<1>7. ASSUME e \in Serve("mainImportMH", ByTradeOrder, mainImportMH) PROVE e[1] \notin BoardNamesAre /\ Served(e[3], early)
  <2>1. PICK q : e = <<"mainImportMH", q, mainImportMH(q)>>
    BY <1>7 DEF Serve
  <2>2. e[1] = "mainImportMH" /\ e[3] = mainImportMH(q)
    BY <2>1
  <2>3. Served(mainImportMH(q), early)
    BY TradeTablesFit, AllKinds
  <2>. QED
    BY <2>2, <2>3 DEF BoardNamesAre
<1>8. ASSUME e \in Serve("mapExportImport", ByTradeType, mapExportImport) PROVE e[1] \notin BoardNamesAre /\ Served(e[3], early)
  <2>1. PICK q : e = <<"mapExportImport", q, mapExportImport(q)>>
    BY <1>8 DEF Serve
  <2>2. e[1] = "mapExportImport" /\ e[3] = mapExportImport(q)
    BY <2>1
  <2>3. Served(mapExportImport(q), early)
    BY MapExportImportFits, AllKinds
  <2>. QED
    BY <2>2, <2>3 DEF BoardNamesAre
<1>. QED
  BY <1>1, <1>2, <1>3, <1>4, <1>5, <1>6, <1>7, <1>8
  DEF RetailEndpoints, Serve

LEMMA NewsEndpointsFit ==
  ASSUME NEW e \in NewsEndpoints, NEW early
  PROVE  e[1] \notin BoardNamesAre /\ Served(e[3], early)
<1>1. ASSUME e \in Serve("getEvent", ByEventPage, getEvent) PROVE e[1] \notin BoardNamesAre /\ Served(e[3], early)
  <2>1. PICK q : e = <<"getEvent", q, getEvent(q)>>
    BY <1>1 DEF Serve
  <2>2. e[1] = "getEvent" /\ e[3] = getEvent(q)
    BY <2>1
  <2>3. Served(getEvent(q), early)
    BY GetEventFits, AllKinds
  <2>. QED
    BY <2>2, <2>3 DEF BoardNamesAre
<1>2. ASSUME e \in Serve("newsEnterprise", NoQuery, newsEnterprise) PROVE e[1] \notin BoardNamesAre /\ Served(e[3], early)
  <2>1. PICK q : e = <<"newsEnterprise", q, newsEnterprise(q)>>
    BY <1>2 DEF Serve
  <2>2. e[1] = "newsEnterprise" /\ e[3] = newsEnterprise(q)
    BY <2>1
  <2>3. Served(newsEnterprise(q), early)
    BY NewsEnterpriseFits, AllKinds
  <2>. QED
    BY <2>2, <2>3 DEF BoardNamesAre
<1>3. ASSUME e \in Serve("macroDomestic", ByPage, macroDomestic) PROVE e[1] \notin BoardNamesAre /\ Served(e[3], early)
  <2>1. PICK q : e = <<"macroDomestic", q, macroDomestic(q)>>
    BY <1>3 DEF Serve
  <2>2. e[1] = "macroDomestic" /\ e[3] = macroDomestic(q)
    BY <2>1
  <2>3. Served(macroDomestic(q), early)
    BY PlainNewsFit, AllKinds
  <2>. QED
    BY <2>2, <2>3 DEF BoardNamesAre
<1>4. ASSUME e \in Serve("macroInternational", ByPage, macroInternational) PROVE e[1] \notin BoardNamesAre /\ Served(e[3], early)
  <2>1. PICK q : e = <<"macroInternational", q, macroInternational(q)>>
    BY <1>4 DEF Serve
  <2>2. e[1] = "macroInternational" /\ e[3] = macroInternational(q)
    BY <2>1
  <2>3. Served(macroInternational(q), early)
    BY PlainNewsFit, AllKinds
  <2>. QED
    BY <2>2, <2>3 DEF BoardNamesAre
<1>5. ASSUME e \in Serve("newsCategories", NoQuery, newsCategories) PROVE e[1] \notin BoardNamesAre /\ Served(e[3], early)
  <2>1. PICK q : e = <<"newsCategories", q, newsCategories(q)>>
    BY <1>5 DEF Serve
  <2>2. e[1] = "newsCategories" /\ e[3] = newsCategories(q)
    BY <2>1
  <2>3. Served(newsCategories(q), early)
    BY NewsCategoriesFits, AllKinds
  <2>. QED
    BY <2>2, <2>3 DEF BoardNamesAre
<1>6. ASSUME e \in Serve("newsFilter", ByCodes, newsFilter) PROVE e[1] \notin BoardNamesAre /\ Served(e[3], early)
  <2>1. PICK q : e = <<"newsFilter", q, newsFilter(q)>>
    BY <1>6 DEF Serve
  <2>2. e[1] = "newsFilter" /\ e[3] = newsFilter(q)
    BY <2>1
  <2>3. Served(newsFilter(q), early)
    BY NewsFilterFits, AllKinds
  <2>. QED
    BY <2>2, <2>3 DEF BoardNamesAre
<1>7. ASSUME e \in Serve("getInfoStock", NoQuery, getInfoStock) PROVE e[1] \notin BoardNamesAre /\ Served(e[3], early)
  <2>1. PICK q : e = <<"getInfoStock", q, getInfoStock(q)>>
    BY <1>7 DEF Serve
  <2>2. e[1] = "getInfoStock" /\ e[3] = getInfoStock(q)
    BY <2>1
  <2>3. Served(getInfoStock(q), early)
    BY GetInfoStockFits, AllKinds
  <2>. QED
    BY <2>2, <2>3 DEF BoardNamesAre
<1>8. ASSUME e \in Serve("investmentFilter", BySectorFilter, investmentFilter) PROVE e[1] \notin BoardNamesAre /\ Served(e[3], early)
  <2>1. PICK q : e = <<"investmentFilter", q, investmentFilter(q)>>
    BY <1>8 DEF Serve
  <2>2. e[1] = "investmentFilter" /\ e[3] = investmentFilter(q)
    BY <2>1
  <2>3. Served(investmentFilter(q), early)
    BY PlainNewsFit, AllKinds
  <2>. QED
    BY <2>2, <2>3 DEF BoardNamesAre
<1>9. ASSUME e \in Serve("keyFilter", NoQuery, keyFilter) PROVE e[1] \notin BoardNamesAre /\ Served(e[3], early)
  <2>1. PICK q : e = <<"keyFilter", q, keyFilter(q)>>
    BY <1>9 DEF Serve
  <2>2. e[1] = "keyFilter" /\ e[3] = keyFilter(q)
    BY <2>1
  <2>3. Served(keyFilter(q), early)
    BY KeyFilterFits, AllKinds
  <2>. QED
    BY <2>2, <2>3 DEF BoardNamesAre
<1>10. ASSUME e \in Serve("emulatorInvestment", ByMonths, emulatorInvestment) PROVE e[1] \notin BoardNamesAre /\ Served(e[3], early)
  <2>1. PICK q : e = <<"emulatorInvestment", q, emulatorInvestment(q)>>
    BY <1>10 DEF Serve
  <2>2. e[1] = "emulatorInvestment" /\ e[3] = emulatorInvestment(q)
    BY <2>1
  <2>3. Served(emulatorInvestment(q), early)
    BY EmulatorInvestmentFits, AllKinds
  <2>. QED
    BY <2>2, <2>3 DEF BoardNamesAre
<1>11. ASSUME e \in Serve("search", ByName, search) PROVE e[1] \notin BoardNamesAre /\ Served(e[3], early)
  <2>1. PICK q : e = <<"search", q, search(q)>>
    BY <1>11 DEF Serve
  <2>2. e[1] = "search" /\ e[3] = search(q)
    BY <2>1
  <2>3. Served(search(q), early)
    BY PlainNewsFit, AllKinds
  <2>. QED
    BY <2>2, <2>3 DEF BoardNamesAre
<1>. QED
  BY <1>1, <1>2, <1>3, <1>4, <1>5, <1>6, <1>7, <1>8, <1>9, <1>10, <1>11
  DEF NewsEndpoints, Serve

LEMMA ReportEndpointsFit ==
  ASSUME NEW e \in ReportEndpoints, NEW early
  PROVE  e[1] \notin BoardNamesAre /\ Served(e[3], early)
<1>1. ASSUME e \in Serve("newsInternational", ByQuantity, newsInternational) PROVE e[1] \notin BoardNamesAre /\ Served(e[3], early)
  <2>1. PICK q : e = <<"newsInternational", q, newsInternational(q)>>
    BY <1>1 DEF Serve
  <2>2. e[1] = "newsInternational" /\ e[3] = newsInternational(q)
    BY <2>1
  <2>3. Served(newsInternational(q), early)
    BY PlainReportsFit, AllKinds
  <2>. QED
    BY <2>2, <2>3 DEF BoardNamesAre
<1>2. ASSUME e \in Serve("newsDomestic", ByQuantity, newsDomestic) PROVE e[1] \notin BoardNamesAre /\ Served(e[3], early)
  <2>1. PICK q : e = <<"newsDomestic", q, newsDomestic(q)>>
    BY <1>2 DEF Serve
  <2>2. e[1] = "newsDomestic" /\ e[3] = newsDomestic(q)
    BY <2>1
  <2>3. Served(newsDomestic(q), early)
    BY PlainReportsFit, AllKinds
  <2>. QED
    BY <2>2, <2>3 DEF BoardNamesAre
<1>3. ASSUME e \in Serve("reportNewsEnterprise", ByQuantity, reportNewsEnterprise) PROVE e[1] \notin BoardNamesAre /\ Served(e[3], early)
  <2>1. PICK q : e = <<"reportNewsEnterprise", q, reportNewsEnterprise(q)>>
    BY <1>3 DEF Serve
  <2>2. e[1] = "reportNewsEnterprise" /\ e[3] = reportNewsEnterprise(q)
    BY <2>1
  <2>3. Served(reportNewsEnterprise(q), early)
    BY PlainReportsFit, AllKinds
  <2>. QED
    BY <2>2, <2>3 DEF BoardNamesAre
<1>4. ASSUME e \in Serve("event", NoQuery, event) PROVE e[1] \notin BoardNamesAre /\ Served(e[3], early)
  <2>1. PICK q : e = <<"event", q, event(q)>>
    BY <1>4 DEF Serve
  <2>2. e[1] = "event" /\ e[3] = event(q)
    BY <2>1
  <2>3. Served(event(q), early)
    BY PlainReportsFit, AllKinds
  <2>. QED
    BY <2>2, <2>3 DEF BoardNamesAre
<1>5. ASSUME e \in Serve("exchangeRate", NoQuery, exchangeRate) PROVE e[1] \notin BoardNamesAre /\ Served(e[3], early)
  <2>1. PICK q : e = <<"exchangeRate", q, exchangeRate(q)>>
    BY <1>5 DEF Serve
  <2>2. e[1] = "exchangeRate" /\ e[3] = exchangeRate(q)
    BY <2>1
  <2>3. Served(exchangeRate(q), early)
    BY ExchangeRateFits, AllKinds
  <2>. QED
    BY <2>2, <2>3 DEF BoardNamesAre
<1>6. ASSUME e \in Serve("merchandise", NoQuery, merchandise) PROVE e[1] \notin BoardNamesAre /\ Served(e[3], early)
  <2>1. PICK q : e = <<"merchandise", q, merchandise(q)>>
    BY <1>6 DEF Serve
  <2>2. e[1] = "merchandise" /\ e[3] = merchandise(q)
    BY <2>1
  <2>3. Served(merchandise(q), early)
    BY PlainReportsFit, AllKinds
  <2>. QED
    BY <2>2, <2>3 DEF BoardNamesAre
<1>7. ASSUME e \in Serve("reportInterestRate", NoQuery, reportInterestRate) PROVE e[1] \notin BoardNamesAre /\ Served(e[3], early)
  <2>1. PICK q : e = <<"reportInterestRate", q, reportInterestRate(q)>>
    BY <1>7 DEF Serve
  <2>2. e[1] = "reportInterestRate" /\ e[3] = reportInterestRate(q)
    BY <2>1
  <2>3. Served(reportInterestRate(q), early)
    BY ReportInterestRateFits, AllKinds
  <2>. QED
    BY <2>2, <2>3 DEF BoardNamesAre
<1>8. ASSUME e \in Serve("stockMarket", NoQuery, stockMarket) PROVE e[1] \notin BoardNamesAre /\ Served(e[3], early)
  <2>1. PICK q : e = <<"stockMarket", q, stockMarket(q)>>
    BY <1>8 DEF Serve
  <2>2. e[1] = "stockMarket" /\ e[3] = stockMarket(q)
    BY <2>1
  <2>3. Served(stockMarket(q), early)
    BY PlainReportsFit, AllKinds
  <2>. QED
    BY <2>2, <2>3 DEF BoardNamesAre
<1>9. ASSUME e \in Serve("morning", NoQuery, morning) PROVE e[1] \notin BoardNamesAre /\ Served(e[3], early)
  <2>1. PICK q : e = <<"morning", q, morning(q)>>
    BY <1>9 DEF Serve
  <2>2. e[1] = "morning" /\ e[3] = morning(q)
    BY <2>1
  <2>3. Served(morning(q), early)
    BY PlainReportsFit, AllKinds
  <2>. QED
    BY <2>2, <2>3 DEF BoardNamesAre
<1>10. ASSUME e \in Serve("morningHose", NoQuery, morningHose) PROVE e[1] \notin BoardNamesAre /\ Served(e[3], early)
  <2>1. PICK q : e = <<"morningHose", q, morningHose(q)>>
    BY <1>10 DEF Serve
  <2>2. e[1] = "morningHose" /\ e[3] = morningHose(q)
    BY <2>1
  <2>3. Served(morningHose(q), early)
    BY PlainReportsFit, AllKinds
  <2>. QED
    BY <2>2, <2>3 DEF BoardNamesAre
<1>11. ASSUME e \in Serve("topScore", NoQuery, topScore) PROVE e[1] \notin BoardNamesAre /\ Served(e[3], early)
  <2>1. PICK q : e = <<"topScore", q, topScore(q)>>
    BY <1>11 DEF Serve
  <2>2. e[1] = "topScore" /\ e[3] = topScore(q)
    BY <2>1
  <2>3. Served(topScore(q), early)
    BY PlainReportsFit, AllKinds
  <2>. QED
    BY <2>2, <2>3 DEF BoardNamesAre
<1>12. ASSUME e \in Serve("identifyMarket", NoQuery, identifyMarket) PROVE e[1] \notin BoardNamesAre /\ Served(e[3], early)
  <2>1. PICK q : e = <<"identifyMarket", q, identifyMarket(q)>>
    BY <1>12 DEF Serve
  <2>2. e[1] = "identifyMarket" /\ e[3] = identifyMarket(q)
    BY <2>1
  <2>3. Served(identifyMarket(q), early)
    BY PlainReportsFit, AllKinds
  <2>. QED
    BY <2>2, <2>3 DEF BoardNamesAre
<1>13. ASSUME e \in Serve("afternoonReport1", NoQuery, afternoonReport1) PROVE e[1] \notin BoardNamesAre /\ Served(e[3], early)
  <2>1. PICK q : e = <<"afternoonReport1", q, afternoonReport1(q)>>
    BY <1>13 DEF Serve
  <2>2. e[1] = "afternoonReport1" /\ e[3] = afternoonReport1(q)
    BY <2>1
  <2>3. Served(afternoonReport1(q), early)
    BY PlainReportsFit, AllKinds
  <2>. QED
    BY <2>2, <2>3 DEF BoardNamesAre
<1>14. ASSUME e \in Serve("afternoonReport2", NoQuery, afternoonReport2) PROVE e[1] \notin BoardNamesAre /\ Served(e[3], early)
  <2>1. PICK q : e = <<"afternoonReport2", q, afternoonReport2(q)>>
    BY <1>14 DEF Serve
  <2>2. e[1] = "afternoonReport2" /\ e[3] = afternoonReport2(q)
    BY <2>1
  <2>3. Served(afternoonReport2(q), early)
    BY PlainReportsFit, AllKinds
  <2>. QED
    BY <2>2, <2>3 DEF BoardNamesAre
<1>15. ASSUME e \in Serve("transactionValueFluctuations", NoQuery, transactionValueFluctuations) PROVE e[1] \notin BoardNamesAre /\ Served(e[3], early)
  <2>1. PICK q : e = <<"transactionValueFluctuations", q, transactionValueFluctuations(q)>>
    BY <1>15 DEF Serve
  <2>2. e[1] = "transactionValueFluctuations" /\ e[3] = transactionValueFluctuations(q)
    BY <2>1
  <2>3. Served(transactionValueFluctuations(q), early)
    BY PlainReportsFit, AllKinds
  <2>. QED
    BY <2>2, <2>3 DEF BoardNamesAre
<1>16. ASSUME e \in Serve("liquidityMarket", NoQuery, liquidityMarket) PROVE e[1] \notin BoardNamesAre /\ Served(e[3], early)
  <2>1. PICK q : e = <<"liquidityMarket", q, liquidityMarket(q)>>
    BY <1>16 DEF Serve
  <2>2. e[1] = "liquidityMarket" /\ e[3] = liquidityMarket(q)
    BY <2>1
  <2>3. Served(liquidityMarket(q), early)
    BY PlainReportsFit, AllKinds
  <2>. QED
    BY <2>2, <2>3 DEF BoardNamesAre
<1>17. ASSUME e \in Serve("cashFlowRatio", NoQuery, cashFlowRatio) PROVE e[1] \notin BoardNamesAre /\ Served(e[3], early)
  <2>1. PICK q : e = <<"cashFlowRatio", q, cashFlowRatio(q)>>
    BY <1>17 DEF Serve
  <2>2. e[1] = "cashFlowRatio" /\ e[3] = cashFlowRatio(q)
    BY <2>1
  <2>3. Served(cashFlowRatio(q), early)
    BY PlainReportsFit, AllKinds
  <2>. QED
    BY <2>2, <2>3 DEF BoardNamesAre
<1>18. ASSUME e \in Serve("topNetBuyingAndSelling", ByInvestor, topNetBuyingAndSelling) PROVE e[1] \notin BoardNamesAre /\ Served(e[3], early)
  <2>1. PICK q : e = <<"topNetBuyingAndSelling", q, topNetBuyingAndSelling(q)>>
    BY <1>18 DEF Serve
  <2>2. e[1] = "topNetBuyingAndSelling" /\ e[3] = topNetBuyingAndSelling(q)
    BY <2>1
  <2>3. Served(topNetBuyingAndSelling(q), early)
    BY PlainReportsFit, AllKinds
  <2>. QED
    BY <2>2, <2>3 DEF BoardNamesAre
<1>19. ASSUME e \in Serve("cashFlow", ByInvestor, cashFlow) PROVE e[1] \notin BoardNamesAre /\ Served(e[3], early)
  <2>1. PICK q : e = <<"cashFlow", q, cashFlow(q)>>
    BY <1>19 DEF Serve
  <2>2. e[1] = "cashFlow" /\ e[3] = cashFlow(q)
    BY <2>1
  <2>3. Served(cashFlow(q), early)
    BY PlainReportsFit, AllKinds
  <2>. QED
    BY <2>2, <2>3 DEF BoardNamesAre
<1>20. ASSUME e \in Serve("reportIndustry", NoQuery, reportIndustry) PROVE e[1] \notin BoardNamesAre /\ Served(e[3], early)
  <2>1. PICK q : e = <<"reportIndustry", q, reportIndustry(q)>>
    BY <1>20 DEF Serve
  <2>2. e[1] = "reportIndustry" /\ e[3] = reportIndustry(q)
    BY <2>1
  <2>3. Served(reportIndustry(q), early)
    BY ReportIndustryFits, AllKinds
  <2>. QED
    BY <2>2, <2>3 DEF BoardNamesAre
<1>. QED
  BY <1>1, <1>2, <1>3, <1>4, <1>5, <1>6, <1>7, <1>8, <1>9, <1>10, <1>11, <1>12, <1>13,
     <1>14, <1>15, <1>16, <1>17, <1>18, <1>19, <1>20
  DEF ReportEndpoints, Serve

LEMMA SharesEndpointsFit ==
  ASSUME NEW e \in SharesEndpoints, NEW early
  PROVE  e[1] \notin BoardNamesAre /\ Served(e[3], early)
<1>1. ASSUME e \in Serve("searchStock", ByStock, searchStock) PROVE e[1] \notin BoardNamesAre /\ Served(e[3], early)
  <2>1. PICK q : e = <<"searchStock", q, searchStock(q)>>
    BY <1>1 DEF Serve
  <2>2. e[1] = "searchStock" /\ e[3] = searchStock(q)
    BY <2>1
  <2>3. Served(searchStock(q), early)
    BY PlainSharesFit, AllKinds
  <2>. QED
    BY <2>2, <2>3 DEF BoardNamesAre
<1>2. ASSUME e \in Serve("header", ByStockAndType, header) PROVE e[1] \notin BoardNamesAre /\ Served(e[3], early)
  <2>1. PICK q : e = <<"header", q, header(q)>>
    BY <1>2 DEF Serve
  <2>2. e[1] = "header" /\ e[3] = header(q)
    BY <2>1
  <2>3. Served(header(q), early)
    BY HeaderFits, AllKinds
  <2>. QED
    BY <2>2, <2>3 DEF BoardNamesAre
<1>3. ASSUME e \in Serve("candleChart", ByStock, candleChart) PROVE e[1] \notin BoardNamesAre /\ Served(e[3], early)
  <2>1. PICK q : e = <<"candleChart", q, candleChart(q)>>
    BY <1>3 DEF Serve
  <2>2. e[1] = "candleChart" /\ e[3] = candleChart(q)
    BY <2>1
  <2>3. Served(candleChart(q), early)
    BY PlainSharesFit, AllKinds
  <2>. QED
    BY <2>2, <2>3 DEF BoardNamesAre
<1>4. ASSUME e \in Serve("transactionStatistics", ByStock, transactionStatistics) PROVE e[1] \notin BoardNamesAre /\ Served(e[3], early)
  <2>1. PICK q : e = <<"transactionStatistics", q, transactionStatistics(q)>>
    BY <1>4 DEF Serve
  <2>2. e[1] = "transactionStatistics" /\ e[3] = transactionStatistics(q)
    BY <2>1
  <2>3. Served(transactionStatistics(q), early)
    BY TransactionStatisticsFits, AllKinds
  <2>. QED
    BY <2>2, <2>3 DEF BoardNamesAre
<1>5. ASSUME e \in Serve("businessResults", ByStockAndReport, businessResults) PROVE e[1] \notin BoardNamesAre /\ Served(e[3], early)
  <2>1. PICK q : e = <<"businessResults", q, businessResults(q)>>
    BY <1>5 DEF Serve
  <2>2. e[1] = "businessResults" /\ e[3] = businessResults(q)
    BY <2>1
  <2>3. Served(businessResults(q), early)
    BY BusinessResultsFits, AllKinds
  <2>. QED
    BY <2>2, <2>3 DEF BoardNamesAre
<1>6. ASSUME e \in Serve("balanceSheet", ByStockAndReport, balanceSheet) PROVE e[1] \notin BoardNamesAre /\ Served(e[3], early)
  <2>1. PICK q : e = <<"balanceSheet", q, balanceSheet(q)>>
    BY <1>6 DEF Serve
  <2>2. e[1] = "balanceSheet" /\ e[3] = balanceSheet(q)
    BY <2>1
  <2>3. Served(balanceSheet(q), early)
    BY BalanceSheetFits, AllKinds
  <2>. QED
    BY <2>2, <2>3 DEF BoardNamesAre
<1>7. ASSUME e \in Serve("castFlow", ByStockAndOrder, castFlow) PROVE e[1] \notin BoardNamesAre /\ Served(e[3], early)
  <2>1. PICK q : e = <<"castFlow", q, castFlow(q)>>
    BY <1>7 DEF Serve
  <2>2. e[1] = "castFlow" /\ e[3] = castFlow(q)
    BY <2>1
  <2>3. Served(castFlow(q), early)
    BY CastFlowFits, AllKinds
  <2>. QED
    BY <2>2, <2>3 DEF BoardNamesAre
<1>8. ASSUME e \in Serve("financialIndicators", ByStock, financialIndicators) PROVE e[1] \notin BoardNamesAre /\ Served(e[3], early)
  <2>1. PICK q : e = <<"financialIndicators", q, financialIndicators(q)>>
    BY <1>8 DEF Serve
  <2>2. e[1] = "financialIndicators" /\ e[3] = financialIndicators(q)
    BY <2>1
  <2>3. Served(financialIndicators(q), early)
    BY FinancialIndicatorsFits, AllKinds
  <2>. QED
    BY <2>2, <2>3 DEF BoardNamesAre
<1>9. ASSUME e \in Serve("enterprisesSameIndustry", ByStockAndFloor, enterprisesSameIndustry) PROVE e[1] \notin BoardNamesAre /\ Served(e[3], early)
  <2>1. PICK q : e = <<"enterprisesSameIndustry", q, enterprisesSameIndustry(q)>>
    BY <1>9 DEF Serve
  <2>2. e[1] = "enterprisesSameIndustry" /\ e[3] = enterprisesSameIndustry(q)
    BY <2>1
  <2>3. Served(enterprisesSameIndustry(q), early)
    BY EnterprisesSameIndustryFits, AllKinds
  <2>. QED
    BY <2>2, <2>3 DEF BoardNamesAre
<1>10. ASSUME e \in Serve("eventCalendar", ByStock, eventCalendar) PROVE e[1] \notin BoardNamesAre /\ Served(e[3], early)
  <2>1. PICK q : e = <<"eventCalendar", q, eventCalendar(q)>>
    BY <1>10 DEF Serve
  <2>2. e[1] = "eventCalendar" /\ e[3] = eventCalendar(q)
    BY <2>1
  <2>3. Served(eventCalendar(q), early)
    BY EventCalendarFits, AllKinds
  <2>. QED
    BY <2>2, <2>3 DEF BoardNamesAre
<1>11. ASSUME e \in Serve("transactionData", ByStock, transactionData) PROVE e[1] \notin BoardNamesAre /\ Served(e[3], early)
  <2>1. PICK q : e = <<"transactionData", q, transactionData(q)>>
    BY <1>11 DEF Serve
  <2>2. e[1] = "transactionData" /\ e[3] = transactionData(q)
    BY <2>1
  <2>3. Served(transactionData(q), early)
    BY PlainSharesFit, AllKinds
  <2>. QED
    BY <2>2, <2>3 DEF BoardNamesAre
<1>12. ASSUME e \in Serve("tradingPriceFluctuations", ByStock, tradingPriceFluctuations) PROVE e[1] \notin BoardNamesAre /\ Served(e[3], early)
  <2>1. PICK q : e = <<"tradingPriceFluctuations", q, tradingPriceFluctuations(q)>>
    BY <1>12 DEF Serve
  <2>2. e[1] = "tradingPriceFluctuations" /\ e[3] = tradingPriceFluctuations(q)
    BY <2>1
  <2>3. Served(tradingPriceFluctuations(q), early)
    BY TradingPriceFluctuationsFits, AllKinds
  <2>. QED
    BY <2>2, <2>3 DEF BoardNamesAre
<1>13. ASSUME e \in Serve("averageTradingVolume", ByStock, averageTradingVolume) PROVE e[1] \notin BoardNamesAre /\ Served(e[3], early)
  <2>1. PICK q : e = <<"averageTradingVolume", q, averageTradingVolume(q)>>
    BY <1>13 DEF Serve
  <2>2. e[1] = "averageTradingVolume" /\ e[3] = averageTradingVolume(q)
    BY <2>1
  <2>3. Served(averageTradingVolume(q), early)
    BY AverageTradingVolumeFits, AllKinds
  <2>. QED
    BY <2>2, <2>3 DEF BoardNamesAre
<1>14. ASSUME e \in Serve("statisticsMonthQuarterYear", ByStockAndOrder, statisticsMonthQuarterYear) PROVE e[1] \notin BoardNamesAre /\ Served(e[3], early)
  <2>1. PICK q : e = <<"statisticsMonthQuarterYear", q, statisticsMonthQuarterYear(q)>>
    BY <1>14 DEF Serve
  <2>2. e[1] = "statisticsMonthQuarterYear" /\ e[3] = statisticsMonthQuarterYear(q)
    BY <2>1
  <2>3. Served(statisticsMonthQuarterYear(q), early)
    BY StatisticsMonthQuarterYearFits, AllKinds
  <2>. QED
    BY <2>2, <2>3 DEF BoardNamesAre
<1>15. ASSUME e \in Serve("tradingGroupsInvestors", ByStock, tradingGroupsInvestors) PROVE e[1] \notin BoardNamesAre /\ Served(e[3], early)
  <2>1. PICK q : e = <<"tradingGroupsInvestors", q, tradingGroupsInvestors(q)>>
    BY <1>15 DEF Serve
  <2>2. e[1] = "tradingGroupsInvestors" /\ e[3] = tradingGroupsInvestors(q)
    BY <2>1
  <2>3. Served(tradingGroupsInvestors(q), early)
    BY TradingGroupsInvestorsFits, AllKinds
  <2>. QED
    BY <2>2, <2>3 DEF BoardNamesAre
<1>16. ASSUME e \in Serve("eventCalendarDetail", ByStockAndList, eventCalendarDetail) PROVE e[1] \notin BoardNamesAre /\ Served(e[3], early)
  <2>1. PICK q : e = <<"eventCalendarDetail", q, eventCalendarDetail(q)>>
    BY <1>16 DEF Serve
  <2>2. e[1] = "eventCalendarDetail" /\ e[3] = eventCalendarDetail(q)
    BY <2>1
  <2>3. Served(eventCalendarDetail(q), early)
    BY PlainSharesFit, AllKinds
  <2>. QED
    BY <2>2, <2>3 DEF BoardNamesAre
<1>17. ASSUME e \in Serve("newsStock", ByStockAndList, newsStock) PROVE e[1] \notin BoardNamesAre /\ Served(e[3], early)
  <2>1. PICK q : e = <<"newsStock", q, newsStock(q)>>
    BY <1>17 DEF Serve
  <2>2. e[1] = "newsStock" /\ e[3] = newsStock(q)
    BY <2>1
  <2>3. Served(newsStock(q), early)
    BY PlainSharesFit, AllKinds
  <2>. QED
    BY <2>2, <2>3 DEF BoardNamesAre
<1>18. ASSUME e \in Serve("castFlowDetail", ByStockAndLayout, castFlowDetail) PROVE e[1] \notin BoardNamesAre /\ Served(e[3], early)
  <2>1. PICK q : e = <<"castFlowDetail", q, castFlowDetail(q)>>
    BY <1>18 DEF Serve
  <2>2. e[1] = "castFlowDetail" /\ e[3] = castFlowDetail(q)
    BY <2>1
  <2>3. Served(castFlowDetail(q), early)
    BY CastFlowDetailFits, AllKinds
  <2>. QED
    BY <2>2, <2>3 DEF BoardNamesAre
<1>19. ASSUME e \in Serve("businessResultDetail", ByStockAndLayout, businessResultDetail) PROVE e[1] \notin BoardNamesAre /\ Served(e[3], early)
  <2>1. PICK q : e = <<"businessResultDetail", q, businessResultDetail(q)>>
    BY <1>19 DEF Serve
  <2>2. e[1] = "businessResultDetail" /\ e[3] = businessResultDetail(q)
    BY <2>1
  <2>3. Served(businessResultDetail(q), early)
    BY DetailsFit, AllKinds
  <2>. QED
    BY <2>2, <2>3 DEF BoardNamesAre
<1>20. ASSUME e \in Serve("balanceSheetDetail", ByStockAndLayout, balanceSheetDetail) PROVE e[1] \notin BoardNamesAre /\ Served(e[3], early)
  <2>1. PICK q : e = <<"balanceSheetDetail", q, balanceSheetDetail(q)>>
    BY <1>20 DEF Serve
  <2>2. e[1] = "balanceSheetDetail" /\ e[3] = balanceSheetDetail(q)
    BY <2>1
  <2>3. Served(balanceSheetDetail(q), early)
    BY DetailsFit, AllKinds
  <2>. QED
    BY <2>2, <2>3 DEF BoardNamesAre
<1>21. ASSUME e \in Serve("balanceSheetDetailCircle", ByStockAndOrder, balanceSheetDetailCircle) PROVE e[1] \notin BoardNamesAre /\ Served(e[3], early)
  <2>1. PICK q : e = <<"balanceSheetDetailCircle", q, balanceSheetDetailCircle(q)>>
    BY <1>21 DEF Serve
  <2>2. e[1] = "balanceSheetDetailCircle" /\ e[3] = balanceSheetDetailCircle(q)
    BY <2>1
  <2>3. Served(balanceSheetDetailCircle(q), early)
    BY DetailsFit, AllKinds
  <2>. QED
    BY <2>2, <2>3 DEF BoardNamesAre
<1>22. ASSUME e \in Serve("financialIndicatorsDetail", ByStockAndLayout, financialIndicatorsDetail) PROVE e[1] \notin BoardNamesAre /\ Served(e[3], early)
  <2>1. PICK q : e = <<"financialIndicatorsDetail", q, financialIndicatorsDetail(q)>>
    BY <1>22 DEF Serve
  <2>2. e[1] = "financialIndicatorsDetail" /\ e[3] = financialIndicatorsDetail(q)
    BY <2>1
  <2>3. Served(financialIndicatorsDetail(q), early)
    BY DetailsFit, AllKinds
  <2>. QED
    BY <2>2, <2>3 DEF BoardNamesAre
<1>. QED
  BY <1>1, <1>2, <1>3, <1>4, <1>5, <1>6, <1>7, <1>8, <1>9, <1>10, <1>11, <1>12, <1>13,
     <1>14, <1>15, <1>16, <1>17, <1>18, <1>19, <1>20, <1>21, <1>22
  DEF SharesEndpoints, Serve

LEMMA RatingEndpointsFit ==
  ASSUME NEW e \in RatingEndpoints, NEW early, e[1] \in EarlyStarters => early
  PROVE  e[1] \notin BoardNamesAre /\ Served(e[3], early)
<1>1. ASSUME e \in Serve("financialHealthRating", ByStock, financialHealthRating) PROVE e[1] \notin BoardNamesAre /\ Served(e[3], early)
  <2>1. PICK q : e = <<"financialHealthRating", q, financialHealthRating(q)>>
    BY <1>1 DEF Serve
  <2>2. e[1] = "financialHealthRating" /\ e[3] = financialHealthRating(q)
    BY <2>1
  <2>3. Served(financialHealthRating(q), early)
    BY FinancialHealthRatingFits
  <2>. QED
    BY <2>2, <2>3 DEF BoardNamesAre
<1>2. ASSUME e \in Serve("techniqueRating", ByStock, techniqueRating) PROVE e[1] \notin BoardNamesAre /\ Served(e[3], early)
  <2>1. PICK q : e = <<"techniqueRating", q, techniqueRating(q)>>
    BY <1>2 DEF Serve
  <2>2. e[1] = "techniqueRating" /\ e[3] = techniqueRating(q)
    BY <2>1
  <2>3. Served(techniqueRating(q), early)
    BY TechniqueRatingFits, AllKinds
  <2>. QED
    BY <2>2, <2>3 DEF BoardNamesAre
<1>3. ASSUME e \in Serve("valuationRating", ByStock, valuationRating) PROVE e[1] \notin BoardNamesAre /\ Served(e[3], early)
  <2>1. PICK q : e = <<"valuationRating", q, valuationRating(q)>>
    BY <1>3 DEF Serve
  <2>2. e[1] = "valuationRating" /\ e[3] = valuationRating(q)
    BY <2>1
  <2>3. Served(valuationRating(q), early)
    BY ValuationRatingFits, AllKinds
  <2>. QED
    BY <2>2, <2>3 DEF BoardNamesAre
<1>4. ASSUME e \in Serve("businessRating", ByStock, businessRating) PROVE e[1] \notin BoardNamesAre /\ Served(e[3], early)
  <2>1. PICK q : e = <<"businessRating", q, businessRating(q)>>
    BY <1>4 DEF Serve
  <2>2. e[1] = "businessRating" /\ e[3] = businessRating(q)
    BY <2>1
  <2>3. Served(businessRating(q), early)
    BY BusinessRatingFits, AllKinds
  <2>. QED
    BY <2>2, <2>3 DEF BoardNamesAre
<1>5. ASSUME e \in Serve("individualInvestorBenefitsRating", ByStock, individualInvestorBenefitsRating) PROVE e[1] \notin BoardNamesAre /\ Served(e[3], early)
  <2>1. PICK q : e = <<"individualInvestorBenefitsRating", q, individualInvestorBenefitsRating(q)>>
    BY <1>5 DEF Serve
  <2>2. e[1] = "individualInvestorBenefitsRating" /\ e[3] = individualInvestorBenefitsRating(q)
    BY <2>1
  <2>3. early
    BY <2>2 DEF EarlyStarters
  <2>4. Served(individualInvestorBenefitsRating(q), early)
    BY <2>3, IndividualInvestorBenefitsRatingFits, AllKinds
  <2>. QED
    BY <2>2, <2>4 DEF BoardNamesAre
<1>6. ASSUME e \in Serve("businessPositionRating", ByStock, businessPositionRating) PROVE e[1] \notin BoardNamesAre /\ Served(e[3], early)
  <2>1. PICK q : e = <<"businessPositionRating", q, businessPositionRating(q)>>
    BY <1>6 DEF Serve
  <2>2. e[1] = "businessPositionRating" /\ e[3] = businessPositionRating(q)
    BY <2>1
  <2>3. early
    BY <2>2 DEF EarlyStarters
  <2>4. Served(businessPositionRating(q), early)
    BY <2>3, BusinessPositionRatingFits, AllKinds
  <2>. QED
    BY <2>2, <2>4 DEF BoardNamesAre
<1>7. ASSUME e \in Serve("headerRating", ByStock, headerRating) PROVE e[1] \notin BoardNamesAre /\ Served(e[3], early)
  <2>1. PICK q : e = <<"headerRating", q, headerRating(q)>>
    BY <1>7 DEF Serve
  <2>2. e[1] = "headerRating" /\ e[3] = headerRating(q)
    BY <2>1
  <2>3. Served(headerRating(q), early)
    BY HeaderRatingFits, AllKinds
  <2>. QED
    BY <2>2, <2>3 DEF BoardNamesAre
<1>8. ASSUME e \in Serve("canslimPrefilter", ByStock, canslimPrefilter) PROVE e[1] \notin BoardNamesAre /\ Served(e[3], early)
  <2>1. PICK q : e = <<"canslimPrefilter", q, canslimPrefilter(q)>>
    BY <1>8 DEF Serve
  <2>2. e[1] = "canslimPrefilter" /\ e[3] = canslimPrefilter(q)
    BY <2>1
  <2>3. early
    BY <2>2 DEF EarlyStarters
  <2>4. Served(canslimPrefilter(q), early)
    BY <2>3, CanslimPrefilterFits, AllKinds
  <2>. QED
    BY <2>2, <2>4 DEF BoardNamesAre
<1>. QED
  BY <1>1, <1>2, <1>3, <1>4, <1>5, <1>6, <1>7, <1>8
  DEF RatingEndpoints, Serve

LEMMA CatalogueFits ==
  ASSUME NEW e \in Catalogue, NEW early, e[1] \in EarlyStarters => early
  PROVE  Served(e[3], early) /\ (e[1] \in BoardNames => OnBoard(e[3], early))
<1>1. CASE e \in Boards
  <2>1. OnBoard(e[3], early)
    BY <1>1, StockEndpointsFit, ChartEndpointsFit, CashFlowEndpointsFit DEF Boards
  <2>. QED
    BY <2>1, AllKinds
<1>2. CASE e \notin Boards
  <2>1. e[1] \notin BoardNamesAre /\ Served(e[3], early)
    BY <1>2, MarketEndpointsFit, SharesEndpointsFit, RatingEndpointsFit, MacroEndpointsFit,
       HealthEndpointsFit, RetailEndpointsFit, NewsEndpointsFit, ReportEndpointsFit
    DEF Catalogue
  <2>2. BoardNames \subseteq BoardNamesAre
    <3>. SUFFICES ASSUME NEW b \in Boards PROVE b[1] \in BoardNamesAre
      BY DEF BoardNames
    <3>. QED
      BY StockEndpointsFit, ChartEndpointsFit, CashFlowEndpointsFit DEF Boards
  <2>. QED
    BY <2>1, <2>2
<1>. QED
  BY <1>1, <1>2
===============================================================================
