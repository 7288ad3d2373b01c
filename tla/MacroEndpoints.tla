---------------------------- MODULE MacroEndpoints ----------------------------
(* The handlers of MacroService: series of the economy that change monthly or
   quarterly, and bonds and exchange rates that change more often. *)
EXTENDS Programs

(* Handlers without parameters that differ in the name and the table only. *)
Series(name, ttl) == Cached(<<name>>, ttl, Ask(<<name>>))
(* The same with one parameter `order` of the request. *)
SeriesBy(name, order, ttl) == Cached(<<name, order>>, ttl, Ask(<<name, order>>))

industryGDPValue(q)        == Series("industryGDPValue", OneWeek)
gdpPrice(q)                == Series("gdpPrice", OneWeek)
idustryGDPContibute(q)     == Series("idustryGDPContibute", OneWeek)
idustryGDPGrowthPercent(q) == Series("idustryGDPGrowthPercent", OneWeek)
(* The series ends at the last date there is. *)
idustryGDPGrowth(q) ==
  Cached(<<"idustryGDPGrowth", q.order>>, OneWeek,
         Ask(<<"lastGDPDate">>) \o Ask(<<"idustryGDPGrowth", q.order>>))

idustryCPIPercent(q)    == Series("idustryCPIPercent", OneWeek)
idustryCPITable(q)      == Series("idustryCPITable", OneWeek)
idustryCPISameQuater(q) == Series("idustryCPISameQuater", OneWeek)
idustryCPIChange(q)     == SeriesBy("idustryCPIChange", q.order, OneWeek)
cpiQuyenSo(q)           == Series("cpiQuyenSo", OneWeek)

industrialIndex(q)      == SeriesBy("industrialIndex", q.order, OneWeek)
industrialIndexTable(q) == Series("industrialIndexTable", OneWeek)

(* IPPIndustyMapping[industry] || '': what is not an industry is all of them. *)
IPPIndusty(industry) == IF industry \in Industries THEN industry ELSE ""
ippConsumAndInventory(q) ==
  SeriesBy("ippConsumAndInventory", IPPIndusty(q.inds), OneWeek)
ippIndusProductionIndex(q) ==
  SeriesBy("ippIndusProductionIndex", IPPIndusty(q.inds), OneWeek)
ippMostIndusProduction(q) ==
  SeriesBy("ippMostIndusProduction", IPPIndusty(q.inds), OneWeek)

laborForce(q)             == Series("laborForce", OneWeek)
unemployedRate(q)         == Series("unemployedRate", OneWeek)
laborRate(q)              == Series("laborRate", OneWeek)
informalLaborRate(q)      == Series("informalLaborRate", OneWeek)
averageSalary(q)          == Series("averageSalary", OneWeek)
employmentFluctuations(q) == Series("employmentFluctuations", OneWeek)

totalPayment(q)                == Series("totalPayment", OneWeek)
totalPaymentPercent(q)         == Series("totalPaymentPercent", OneWeek)
balancePaymentInternational(q) == Series("balancePaymentInternational", OneWeek)
creditDebt(q)                  == Series("creditDebt", OneWeek)
creditDebtPercent(q)           == Series("creditDebtPercent", OneWeek)
creditInstitution(q)           == Series("creditInstitution", OneWeek)

totalInvestmentProjects(q) == SeriesBy("totalInvestmentProjects", q.order, OneWeek)
accumulated(q)             == SeriesBy("accumulated", q.order, OneWeek)
totalRegisteredAndDisbursed(q) ==
  SeriesBy("totalRegisteredAndDisbursed", q.order, OneWeek)
foreignInvestmentIndex(q) ==
  Cached(<<"foreignInvestmentIndex", q.type, q.order>>, OneWeek,
            Ask(<<"lastFDIDates", q.type>>)
         \o Ask(<<"foreignInvestmentIndex", q.type, q.order>>))

(* Bonds.  The test of what redis returned for the first is commented out. *)
corporateBondsIssuedSuccessfully(q) ==
  Unread(<<"corporateBondsIssuedSuccessfully">>, HaftHour,
         Ask(<<"corporateBondsIssuedSuccessfully">>))
averageDepositInterestRate(q)     == Series("averageDepositInterestRate", HaftHour)
totalOutstandingBalance(q)        == Series("totalOutstandingBalance", HaftHour)
estimatedValueOfCorporateBonds(q) == Series("estimatedValueOfCorporateBonds", HaftHour)
listOfBondsToMaturity(q)          == Series("listOfBondsToMaturity", HaftHour)
listOfEnterprisesWithLateBond(q)  == Series("listOfEnterprisesWithLateBond", HaftHour)

(* The parts are divided by a total that is read before them. *)
ShareOfTotal(name) ==
  Cached(<<name>>, HaftHour, Ask(<<"totalOfBonds">>) \o Ask(<<name>>))
structureOfOutstandingDebt(q) == ShareOfTotal("structureOfOutstandingDebt")
proportionOfOutstandingLoansOfEnterprises(q) ==
  ShareOfTotal("proportionOfOutstandingLoansOfEnterprises")

centralExchangeRate(q)    == Series("centralExchangeRate", OneDay)
exchangeRateIndexTable(q) == Series("exchangeRateIndexTable", OneDay)
exchangeRateAndInterestRate(q) ==
  Cached(<<"exchangeRateAndInterestRate", q.type, q.order>>, OneDay,
         Ask(<<"exchangeRateAndInterestRate", q.type, q.order>>))
macroInterestRate(q)      == Series("interestRate", OneDay)

-------------------------------------------------------------------------------
(* The requests MacroController routes to them. *)
BySeriesOrder == [order : Orders]
ByIPPIndustry == [inds : Industries \cup {"no industry", ""}]
BySeriesType  == [type : Types, order : Orders]

MacroEndpoints ==
       Serve("industryGDPValue", NoQuery, industryGDPValue)
  \cup Serve("gdpPrice", NoQuery, gdpPrice)
  \cup Serve("idustryGDPContibute", NoQuery, idustryGDPContibute)
  \cup Serve("idustryGDPGrowthPercent", NoQuery, idustryGDPGrowthPercent)
  \cup Serve("idustryGDPGrowth", BySeriesOrder, idustryGDPGrowth)
  \cup Serve("idustryCPIPercent", NoQuery, idustryCPIPercent)
  \cup Serve("idustryCPITable", NoQuery, idustryCPITable)
  \cup Serve("idustryCPISameQuater", NoQuery, idustryCPISameQuater)
  \cup Serve("idustryCPIChange", BySeriesOrder, idustryCPIChange)
  \cup Serve("cpiQuyenSo", NoQuery, cpiQuyenSo)
  \cup Serve("industrialIndex", BySeriesOrder, industrialIndex)
  \cup Serve("industrialIndexTable", NoQuery, industrialIndexTable)
  \cup Serve("ippConsumAndInventory", ByIPPIndustry, ippConsumAndInventory)
  \cup Serve("ippIndusProductionIndex", ByIPPIndustry, ippIndusProductionIndex)
  \cup Serve("ippMostIndusProduction", ByIPPIndustry, ippMostIndusProduction)
  \cup Serve("laborForce", NoQuery, laborForce)
  \cup Serve("unemployedRate", NoQuery, unemployedRate)
  \cup Serve("laborRate", NoQuery, laborRate)
  \cup Serve("informalLaborRate", NoQuery, informalLaborRate)
  \cup Serve("averageSalary", NoQuery, averageSalary)
  \cup Serve("employmentFluctuations", NoQuery, employmentFluctuations)
  \cup Serve("totalPayment", NoQuery, totalPayment)
  \cup Serve("totalPaymentPercent", NoQuery, totalPaymentPercent)
  \cup Serve("balancePaymentInternational", NoQuery, balancePaymentInternational)
  \cup Serve("creditDebt", NoQuery, creditDebt)
  \cup Serve("creditDebtPercent", NoQuery, creditDebtPercent)
  \cup Serve("creditInstitution", NoQuery, creditInstitution)
  \cup Serve("totalInvestmentProjects", BySeriesOrder, totalInvestmentProjects)
  \cup Serve("accumulated", BySeriesOrder, accumulated)
  \cup Serve("totalRegisteredAndDisbursed", BySeriesOrder, totalRegisteredAndDisbursed)
  \cup Serve("foreignInvestmentIndex", BySeriesType, foreignInvestmentIndex)
  \cup Serve("corporateBondsIssuedSuccessfully", NoQuery, corporateBondsIssuedSuccessfully)
  \cup Serve("averageDepositInterestRate", NoQuery, averageDepositInterestRate)
  \cup Serve("totalOutstandingBalance", NoQuery, totalOutstandingBalance)
  \cup Serve("estimatedValueOfCorporateBonds", NoQuery, estimatedValueOfCorporateBonds)
  \cup Serve("listOfBondsToMaturity", NoQuery, listOfBondsToMaturity)
  \cup Serve("listOfEnterprisesWithLateBond", NoQuery, listOfEnterprisesWithLateBond)
  \cup Serve("structureOfOutstandingDebt", NoQuery, structureOfOutstandingDebt)
  \cup Serve("proportionOfOutstandingLoansOfEnterprises", NoQuery,
             proportionOfOutstandingLoansOfEnterprises)
  \cup Serve("centralExchangeRate", NoQuery, centralExchangeRate)
  \cup Serve("exchangeRateIndexTable", NoQuery, exchangeRateIndexTable)
  \cup Serve("exchangeRateAndInterestRate", BySeriesType, exchangeRateAndInterestRate)
  \cup Serve("interestRate", NoQuery, macroInterestRate)
===============================================================================
