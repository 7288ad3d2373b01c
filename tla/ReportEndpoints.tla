---------------------------- MODULE ReportEndpoints ---------------------------
(* The reading handlers of ReportService: the tables of the morning and afternoon
   reports, read afresh for every request.  The drafts that some of them add are
   in ReportStore. *)
EXTENDS StockEndpoints

newsInternational(q)    == Ask(<<"reportNews", "international", q.quantity>>)
newsDomestic(q)         == Ask(<<"reportNews", "domestic", q.quantity>>)
reportNewsEnterprise(q) == Ask(<<"reportNews", "enterprise", q.quantity>>)
event(q)                == Ask(<<"reportEvents">>)
exchangeRate(q)         == Ask(<<"lastVCBDate">>) \o Ask(<<"exchangeRate">>)
merchandise(q)          == Ask(<<"merchandise">>)
reportInterestRate(q) ==
  Ask(<<"lastRateDate">>) \o Ask(<<"rateDates">>) \o Ask(<<"reportInterestRate">>)
stockMarket(q)          == Ask(<<"stockMarket">>)

(* Several tables, read all at once: the parts of one report. *)
Report(name, parts) == Together({<<name, i>> : i \in 1..parts})
morning(q)          == Report("morning", 2)
morningHose(q)      == Report("morningHose", 3)
topScore(q)         == Report("topScore", 4)
identifyMarket(q)   == Report("identifyMarket", 3)
afternoonReport1(q) == Report("afternoonReport1", 7)
afternoonReport2(q) == Ask(<<"afternoonReport2">>)

transactionValueFluctuations(q) == Ask(<<"transactionValueFluctuations">>)
liquidityMarket(q)              == Ask(<<"liquidityMarket">>)
cashFlowRatio(q)                == Ask(<<"cashFlowRatio">>)
topNetBuyingAndSelling(q)       == Ask(<<"topNetBuyingAndSelling", q.type>>)
cashFlow(q)                     == Ask(<<"cashFlow", q.type>>)

(* The rows of the two days are read one after the other. *)
reportIndustry(q) ==
     stockSessionDate("ratioInday")
  \o Ask(<<"reportIndustry", "marketCap">>)
  \o Ask(<<"reportIndustry", "latest">>)
  \o Ask(<<"reportIndustry", "previous">>)

-------------------------------------------------------------------------------
(* The requests ReportController routes to them. *)
ByQuantity == [quantity : {5, 10}]
ByInvestor == [type : Types]

ReportEndpoints ==
       Serve("newsInternational", ByQuantity, newsInternational)
  \cup Serve("newsDomestic", ByQuantity, newsDomestic)
  \cup Serve("reportNewsEnterprise", ByQuantity, reportNewsEnterprise)
  \cup Serve("event", NoQuery, event)
  \cup Serve("exchangeRate", NoQuery, exchangeRate)
  \cup Serve("merchandise", NoQuery, merchandise)
  \cup Serve("reportInterestRate", NoQuery, reportInterestRate)
  \cup Serve("stockMarket", NoQuery, stockMarket)
  \cup Serve("morning", NoQuery, morning)
  \cup Serve("morningHose", NoQuery, morningHose)
  \cup Serve("topScore", NoQuery, topScore)
  \cup Serve("identifyMarket", NoQuery, identifyMarket)
  \cup Serve("afternoonReport1", NoQuery, afternoonReport1)
  \cup Serve("afternoonReport2", NoQuery, afternoonReport2)
  \cup Serve("transactionValueFluctuations", NoQuery, transactionValueFluctuations)
  \cup Serve("liquidityMarket", NoQuery, liquidityMarket)
  \cup Serve("cashFlowRatio", NoQuery, cashFlowRatio)
  \cup Serve("topNetBuyingAndSelling", ByInvestor, topNetBuyingAndSelling)
  \cup Serve("cashFlow", ByInvestor, cashFlow)
  \cup Serve("reportIndustry", NoQuery, reportIndustry)
===============================================================================
