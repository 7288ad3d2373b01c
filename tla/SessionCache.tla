----------------------------- MODULE SessionCache -----------------------------
(***************************************************************************)
(* The two levels of caching behind the market-data endpoints.  An         *)
(* endpoint looks for its answer in redis; on a miss it asks getSessionDate *)
(* for the trading dates of a table, which looks for them in redis and on  *)
(* a miss reads them from the database; with the dates it runs its query,  *)
(* stores the answer and returns it.  Nothing is ever invalidated: entries *)
(* only run out, and concurrent handlers overwrite each other's.           *)
(*                                                                         *)
(* The endpoints are those whose dates are those of table tickerTradeVND,  *)
(* all kept under one key,                                                 *)
(*     session-date:[marketTrade].[dbo].[tickerTradeVND]:date              *)
(* though getSessionDate exists in several services, and that of           *)
(* MarketService stores other dates than that of the others.               *)
(* A definition marked "Mistake" is a wrong version of the next one, used  *)
(* only to see that a property would catch it.                             *)
(***************************************************************************)
EXTENDS Naturals

CONSTANTS Endpoints,      \* the endpoints in use
          Requests,       \* requests that can be in flight together
          FiveMinutes, HaftHour, OneDay,   \* TimeToLive; HaftHour is redis' default
          MaxFill,        \* longest time between two awaited calls of a handler
          MaxTime         \* bound: the clock

AllEndpoints == {"marketMap", "upDownTicker", "marketBreadth", "topHotIndustry",
                 "totalTransactionValue"}

ASSUME SessionCacheAssumption ==
  /\ Endpoints \subseteq AllEndpoints
  /\ FiveMinutes \in Nat /\ HaftHour \in Nat /\ OneDay \in Nat
  /\ MaxFill \in Nat /\ MaxTime \in Nat

\* The two shapes a session-date entry can have.
StockDates == {"latestDate", "previousDate", "weekDate", "monthDate", "yearDate",
               "firstDateYear"}
MarketDates == {"latestDate", "lastFiveDate", "lastQuarterDate", "firstYearDate",
                "lastYearDate"}

\* Mistake: the date is stored alone.
ShapeLatest == [e \in AllEndpoints |-> {"latestDate"}]
\* Mistake: every service stores what MarketService needs.
ShapeMarket == [e \in AllEndpoints |-> MarketDates]
\* What the getSessionDate of the endpoint's service stores.
Shape == [e \in AllEndpoints |-> IF e = "topHotIndustry" THEN MarketDates ELSE StockDates]

\* The dates the endpoint's query takes from what getSessionDate returns
\* (marketMap by value, marketBreadth for a month).
Needs == [marketMap             |-> {"latestDate"},
          upDownTicker          |-> {"latestDate", "previousDate"},
          marketBreadth         |-> {"latestDate", "monthDate"},
          topHotIndustry        |-> {"latestDate"},
          totalTransactionValue |-> {"latestDate"}]

\* How long the endpoint's answer is kept.
TTL == [marketMap             |-> FiveMinutes,
        upDownTicker          |-> HaftHour,
        marketBreadth         |-> HaftHour,
        topHotIndustry        |-> OneDay,
        totalTransactionValue |-> 0]

\* totalTransactionValue caches the dates but not its answer.
Cached == AllEndpoints \ {"totalTransactionValue"}

VARIABLES now,
          dates,     \* redis: the session-date entry
          answers,   \* redis: the answer of each endpoint (for one set of parameters)
          req,       \* requests in flight
          served     \* the latest answer each endpoint gave, and when

vars == <<now, dates, answers, req, served>>

Absent == [exp |-> 0]
Nothing == [when |-> 0]
Idle == [pc |-> "idle"]

DateEntries == [exp : Nat, at : Nat, fields : {StockDates, MarketDates}]
AnswerEntries == [exp : Nat, at : Nat, datesAt : Nat, whole : BOOLEAN]
Answers == [when : Nat, at : Nat, datesAt : Nat, whole : BOOLEAN]

\* due: when the awaited call will have returned at the latest.
ReqStates ==
       {Idle}
  \cup [pc : {"dates_get", "dates_db"}, e : Endpoints, due : Nat]
  \cup [pc : {"dates_year", "dates_first", "dates_set", "query"}, e : Endpoints, due : Nat,
        datesAt : Nat, fields : {StockDates, MarketDates}]
  \cup [pc : {"answer_set"}, e : Endpoints, due : Nat, datesAt : Nat, at : Nat,
        whole : BOOLEAN]

TypeOK ==
  /\ now \in Nat
  /\ dates \in DateEntries \cup {Absent}
  /\ answers \in [Endpoints -> AnswerEntries \cup {Absent}]
  /\ req \in [Requests -> ReqStates]
  /\ served \in [Endpoints -> Answers \cup {Nothing}]

Init ==
  /\ now = 0
  /\ dates = Absent
  /\ answers = [e \in Endpoints |-> Absent]
  /\ req = [r \in Requests |-> Idle]
  /\ served = [e \in Endpoints |-> Nothing]

Goto(r, state) == req' = [req EXCEPT ![r] = state]
\* Mistake: queries have no timeout.
DueNever == now + MaxTime
\* requestTimeout: when a call awaited from now on has returned or failed.
Due == now + MaxFill

\* Mistake: a ttl of -1, kept for ever.
HoldsForEver(entry) == entry.exp > 0
\* A redis entry is there until its ttl has run out.
Holds(entry) == now < entry.exp

Answer(e, at, datesAt, whole) ==
  served' = [served EXCEPT ![e] = [when |-> now, at |-> at, datesAt |-> datesAt,
                                   whole |-> whole]]

-----------------------------------------------------------------------------
\* redis.get found the answer.
AnswerHit(r, e) ==
  /\ req[r] = Idle
  /\ e \in Cached /\ Holds(answers[e])
  /\ Answer(e, answers[e].at, answers[e].datesAt, answers[e].whole)
  /\ UNCHANGED <<now, dates, answers, req>>

AnswerMiss(r, e) ==
  /\ req[r] = Idle
  /\ e \in Cached => ~Holds(answers[e])
  /\ Goto(r, [pc |-> "dates_get", e |-> e, due |-> Due])
  /\ UNCHANGED <<now, dates, answers, served>>

\* getSessionDate, when redis has an entry for the table and column.
DatesHit(r) ==
  /\ req[r].pc = "dates_get"
  /\ Holds(dates)
  /\ Goto(r, [pc |-> "query", e |-> req[r].e, due |-> Due, datesAt |-> dates.at,
              fields |-> dates.fields])
  /\ UNCHANGED <<now, dates, answers, served>>

DatesMiss(r) ==
  /\ req[r].pc = "dates_get"
  /\ ~Holds(dates)
  /\ Goto(r, [pc |-> "dates_db", e |-> req[r].e, due |-> Due])
  /\ UNCHANGED <<now, dates, answers, served>>

\* The latest dates are read from the table: by MarketService all that it needs,
\* by the others without the dates a year ago and at the start of the year, ...
DatesRead(r) ==
  /\ req[r].pc = "dates_db"
  /\ Goto(r, [pc |-> IF Shape[req[r].e] = MarketDates THEN "dates_set" ELSE "dates_year",
              e |-> req[r].e, due |-> Due, datesAt |-> now, fields |-> Shape[req[r].e]])
  /\ UNCHANGED <<now, dates, answers, served>>

\* ... which take a query each, one after the other ...
DatesMore(r) ==
  /\ req[r].pc \in {"dates_year", "dates_first"}
  /\ Goto(r, [pc |-> IF req[r].pc = "dates_year" THEN "dates_first" ELSE "dates_set",
              e |-> req[r].e, due |-> Due, datesAt |-> req[r].datesAt,
              fields |-> req[r].fields])
  /\ UNCHANGED <<now, dates, answers, served>>

\* ... and all are stored, with redis' default ttl.
DatesSet(r) ==
  /\ req[r].pc = "dates_set"
  /\ dates' = [exp |-> now + HaftHour, at |-> req[r].datesAt, fields |-> req[r].fields]
  /\ Goto(r, [pc |-> "query", e |-> req[r].e, due |-> Due, datesAt |-> req[r].datesAt,
              fields |-> req[r].fields])
  /\ UNCHANGED <<now, answers, served>>

\* The endpoint's query runs; a date that is undefined selects no rows.
Whole(r) == Needs[req[r].e] \subseteq req[r].fields

QueryOnly(r) ==
  /\ Answer(req[r].e, now, req[r].datesAt, Whole(r))
  /\ Goto(r, Idle)
  /\ UNCHANGED <<now, dates, answers>>

\* An endpoint that caches its answer stores it before it answers.
Query(r) ==
  /\ req[r].pc = "query"
  /\ IF req[r].e \in Cached
     THEN /\ Goto(r, [pc |-> "answer_set", e |-> req[r].e, due |-> Due,
                      datesAt |-> req[r].datesAt, at |-> now, whole |-> Whole(r)])
          /\ UNCHANGED <<now, dates, answers, served>>
     ELSE QueryOnly(r)

AnswerSet(r) ==
  /\ req[r].pc = "answer_set"
  /\ LET q == req[r]
     IN  /\ answers' = [answers EXCEPT ![q.e] = [exp |-> now + TTL[q.e], at |-> q.at,
                                                datesAt |-> q.datesAt, whole |-> q.whole]]
         /\ Answer(q.e, q.at, q.datesAt, q.whole)
  /\ Goto(r, Idle)
  /\ UNCHANGED <<now, dates>>

\* A query or redis fails, or the process dies: the caller gets an error.
Fail(r) ==
  /\ req[r] # Idle
  /\ Goto(r, Idle)
  /\ UNCHANGED <<now, dates, answers, served>>

\* Time passes, though an awaited call returns within MaxFill.
Tick ==
  /\ now < MaxTime
  /\ \A r \in Requests : req[r] # Idle => now < req[r].due
  /\ now' = now + 1
  /\ UNCHANGED <<dates, answers, req, served>>

Dates(r) == DatesHit(r) \/ DatesMiss(r) \/ DatesRead(r) \/ DatesMore(r) \/ DatesSet(r)

Next ==
  \/ \E r \in Requests, e \in Endpoints : AnswerHit(r, e) \/ AnswerMiss(r, e)
  \/ \E r \in Requests : Dates(r) \/ Query(r) \/ AnswerSet(r) \/ Fail(r)
  \/ Tick

Spec == Init /\ [][Next]_vars

-----------------------------------------------------------------------------
\* An answer is never older than its ttl and one fill, and the trading dates it
\* is for never older than the two ttls and the five fills in a row.
DataLimit == [e \in Endpoints |-> TTL[e] + MaxFill]
DatesLimit == [e \in Endpoints |-> TTL[e] + HaftHour + 5 * MaxFill]

Fresh(e) ==
  served[e] # Nothing =>
    /\ served[e].when <= served[e].at + DataLimit[e]
    /\ served[e].when <= served[e].datesAt + DatesLimit[e]

AnswersFresh == \A e \in Endpoints : Fresh(e)

Bound == INSTANCE BoundedStale WITH clock <- now
BoundSpec == Bound!Spec

\* The answers of an endpoint do not go back in time, except that a slow fill
\* may overwrite a newer one, and then by no more than the length of a fill.
HardlyGoesBack ==
  [][\A e \in Endpoints :
       served[e] # Nothing => served'[e].at + MaxFill >= served[e].at]_vars

\* No answer is computed from a date that the session-date entry does not have.
AnswersWhole == \A e \in Endpoints : served[e] # Nothing => served[e].whole
=============================================================================
