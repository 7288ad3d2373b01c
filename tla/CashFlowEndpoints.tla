--------------------------- MODULE CashFlowEndpoints ---------------------------
(* The handlers of CashFlowService: who buys and who sells.  Its getSessionDate
   is that of StockService, under the same keys. *)
EXTENDS StockEndpoints

(* InvestorTypeEnum; any other investor is refused. *)
Investors == [i \in 0..2 |-> <<"foreign", "proprietary", "retail">>[i + 1]]
(* TransactionTimeTypeEnum: Latest, OneWeek, OneMonth, YearToDate, OneQuarter,
   YearToYear. *)
TimeTypes == 0..5

(* The handler goes on if the type of time (of investor) has a case for it, and
   answers 400 if not. *)
OnlyIf(legal, rest) == IF legal THEN rest ELSE Refuse

cashFlowSessionDate(table) == stockSessionDate(table)

getInvestorTransactions(q) ==
  Cached(<<"InvestorTransaction", q.time, q.investor>>, Default,
     getTickerPrice
       \o OnlyIf(q.investor \in DOMAIN Investors,
                    cashFlowSessionDate(Investors[q.investor])
                 \o Ask(<<"investorTransactions", q.time, q.investor>>)))

(* Stored, and looked for by nobody. *)
getCashFlowValue(q) ==
  Unread(<<"CashFlowValue", q.time>>, Default,
            getTickerPrice
         \o cashFlowSessionDate("tickerTradeVND")
         \o Ask(<<"cashFlowValue", q.time>>))

getInvestorTransactionsValue(q) == Ask(<<"investorTransactionsValue">>)

getLiquidityGrowth(q) ==
     cashFlowSessionDate("indexTradeVND")
  \o OnlyIf(q.time \in {1, 2, 3, 5}, Ask(<<"liquidityGrowth", q.time>>))

getInvestorTransactionRatio(q) ==
  Cached(<<"InvestorTransactionRatio">>, Default, Ask(<<"investorTransactionRatio">>))

(* The test of what redis returned is commented out. *)
getInvestorTransactionCashFlowRatio(q) ==
  Unread(<<"InvestorTransactionCashFlowRatio", q.time, q.ex>>, Default,
            cashFlowSessionDate("proprietary")
         \o OnlyIf(q.time \in 0..5, Ask(<<"transactionCashFlowRatio", q.time, Floor(q.ex)>>)))

getIndustryCashFlow(q) ==
     cashFlowSessionDate("proprietary")
  \o OnlyIf(q.time \in 0..3, Ask(<<"industryCashFlow", q.time, Floor(q.ex)>>))

getRSI(q) ==
  Cached(<<"Rsi", q.ex, q.session>>, Default, Ask(<<"rsi", Floor(q.ex), q.session>>))

(* The batch on ##TOP_TABLE. *)
TopTable(time, floor) ==
     Create
  \o Insert(<<"topForeign", time, floor>>)
  \o Insert(<<"topProprietary", time, floor>>)
  \o Insert(<<"topRetail", time, floor>>)
  \o ReadAndDrop

getTopNetBuyIndustry(q) ==
  Cached(<<"TopNetBuyIndustry", q.time, q.ex>>, Default,
            cashFlowSessionDate("proprietary")
         \o OnlyIf(q.time \in 0..3, TopTable(q.time, Floor(q.ex))))

(* The investor is tried before the dates are asked for, the time after. *)
getInvestorCashFlowByIndustry(q) ==
  Cached(<<"InvestorCashFlowByIndustry", q.ex, q.time, q.investor>>, Default,
     OnlyIf(q.investor \in DOMAIN Investors,
               cashFlowSessionDate("proprietary")
            \o OnlyIf(q.time \in {2, 4, 5},
                      Ask(<<"investorCashFlow", Floor(q.ex), q.time, q.investor>>))))

getTotalTransactionValue(q) ==
     cashFlowSessionDate("tickerTradeVND")
  \o OnlyIf(q.time \in {2, 4, 5}, Ask(<<"totalTransactionValue", q.time, Floor(q.ex)>>))

-------------------------------------------------------------------------------
(* The requests CashFlowController routes to them. *)
ByTime             == [time : TimeTypes]
ByTimeAndInvestor  == [time : {0, 2}, investor : {0, 1, 3}]
ByTimeAndExchange  == [time : {2, 4}, ex : Exchanges]
ByExTimeInvestor   == [ex : Exchanges, time : {0, 2, 4}, investor : {1, 3}]
BySession          == [ex : Exchanges, session : {20, 50}]

CashFlowEndpoints ==
       Serve("getInvestorTransactions", ByTimeAndInvestor, getInvestorTransactions)
  \cup Serve("getCashFlowValue", ByTime, getCashFlowValue)
  \cup Serve("getInvestorTransactionsValue", NoQuery, getInvestorTransactionsValue)
  \cup Serve("getLiquidityGrowth", ByTime, getLiquidityGrowth)
  \cup Serve("getInvestorTransactionRatio", NoQuery, getInvestorTransactionRatio)
  \cup Serve("getInvestorTransactionCashFlowRatio", ByTimeAndExchange,
             getInvestorTransactionCashFlowRatio)
  \cup Serve("getIndustryCashFlow", ByTimeAndExchange, getIndustryCashFlow)
  \cup Serve("getRSI", BySession, getRSI)
  \cup Serve("getTopNetBuyIndustry", ByTimeAndExchange, getTopNetBuyIndustry)
  \cup Serve("getInvestorCashFlowByIndustry", ByExTimeInvestor, getInvestorCashFlowByIndustry)
  \cup Serve("getTotalTransactionValue", ByTimeAndExchange, getTotalTransactionValue)
===============================================================================
