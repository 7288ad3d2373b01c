------------------------------ MODULE MCServices ------------------------------
(* Values for checking, one at a time, the services that share nothing with the
   others.  Each behaviour is one of KafkaFanout, SavedFilters, ReportStore or
   Ratings; or of Account with one request at a time; or of SessionCache with
   endpoints that keep the same dates. *)
EXTENDS KafkaFanout, SavedFilters, ReportStore, Ratings, TLC

CONSTANTS q1, q2

VARIABLES part,   \* which of them
          account, codes, jobs, cache, authReq, authSent, proven,
          now, dates, answers, datesReq, served

authVars == <<account, codes, jobs, cache, authReq, authSent, proven>>
datesVars == <<now, dates, answers, datesReq, served>>
vars == <<part, kafkaVars, filterVars, reportVars, ratingVars, authVars, datesVars>>

Auth == INSTANCE Account
          WITH req <- authReq, sent <- authSent, Requests <- {"r1"},
               Users <- {"u1", "u2"}, Phones <- {"p1", "p2"}, Codes <- {"c1"},
               RowIds <- {"i1", "i2"}, OtpTTL <- 1, CacheTTL <- 1,
               Faults <- {"sms", "queue", "job", "db"}

Dates == INSTANCE SessionCache
           WITH req <- datesReq, Requests <- {"r1", "r2"},
                Endpoints <- {"upDownTicker", "totalTransactionValue"},
                FiveMinutes <- 1, HaftHour <- 1, OneDay <- 2, MaxFill <- 1, MaxTime <- 2

TwoOwners == {"ann", "bob"}
TwoRequests == {q1, q2}
Symmetry == Permutations(TwoRequests)

(* Figures around every bound of the tables; and those few that are combined with all
   the others, among them lengths of lists of up to ten. *)
Few == -5..10
Figures == Few \cup 19..21 \cup 99..101 \cup 199..201 \cup 999..1001 \cup 1999..2001

MCInit ==
  /\ \/ /\ part \in {"kafka", "filters", "report", "auth", "dates"}
        /\ was = 0 /\ is = 0 /\ other = 0 /\ further = 0
     \/ part = "ratings" /\ was \in Few /\ is \in Few /\ other \in Few /\ further \in Few
     \/ part = "ratings" /\ was \in Figures /\ is \in Figures /\ other = 0 /\ further = 0
  /\ KafkaInit /\ FiltersInit /\ ReportInit /\ RatingsInit /\ Auth!Init /\ Dates!Init

MCNext ==
  /\ UNCHANGED part
  /\ \/ /\ part = "kafka" /\ KafkaNext
        /\ UNCHANGED <<filterVars, reportVars, ratingVars, authVars, datesVars>>
     \/ /\ part = "filters" /\ FiltersNext
        /\ UNCHANGED <<kafkaVars, reportVars, ratingVars, authVars, datesVars>>
     \/ /\ part = "report" /\ ReportNext
        /\ UNCHANGED <<kafkaVars, filterVars, ratingVars, authVars, datesVars>>
     \/ /\ part = "ratings" /\ RatingsNext
        /\ UNCHANGED <<kafkaVars, filterVars, reportVars, authVars, datesVars>>
     \/ /\ part = "auth" /\ Auth!Next
        /\ UNCHANGED <<kafkaVars, filterVars, reportVars, ratingVars, datesVars>>
     \/ /\ part = "dates" /\ Dates!Next
        /\ UNCHANGED <<kafkaVars, filterVars, reportVars, ratingVars, authVars>>

MCSpec == MCInit /\ [][MCNext]_vars

-----------------------------------------------------------------------------
\* A user never has two codes at a time: getVerifyOTP refuses to send a second one.
OneCodePerUser == Auth!OneCodePerUser

\* Two users never have the same phone: register looks it up first.
PhoneUnique == Auth!PhoneUnique

\* A verified user stays verified: no login writes the column back.
VerifiedStays == Auth!VerifiedStays

\* No answer is computed from a date that the session-date entry does not have.
AnswersWhole == Dates!AnswersWhole
===============================================================================
