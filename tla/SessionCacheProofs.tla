-------------------------- MODULE SessionCacheProofs --------------------------
(***************************************************************************)
(* Proofs about SessionCache, for any endpoints, any number of requests    *)
(* and any values of the ttls and of MaxFill.                              *)
(***************************************************************************)
EXTENDS SessionCache, TLAPS

USE SessionCacheAssumption

\* What the program counter says of the rest of a request.
LEMMA ReqShape ==
  ASSUME NEW q \in ReqStates
  PROVE  /\ q.pc \in {"dates_get", "dates_db"} =>
              q \in [pc : {"dates_get", "dates_db"}, e : Endpoints, due : Nat]
         /\ q.pc \in {"dates_year", "dates_first", "dates_set", "query"} =>
              q \in [pc : {"dates_year", "dates_first", "dates_set", "query"},
                     e : Endpoints, due : Nat, datesAt : Nat,
                     fields : {StockDates, MarketDates}]
         /\ q.pc = "answer_set" =>
              q \in [pc : {"answer_set"}, e : Endpoints, due : Nat, datesAt : Nat,
                     at : Nat, whole : BOOLEAN]
         /\ q # Idle => q.pc # "idle" /\ q.due \in Nat
BY DEF ReqStates, Idle

LEMMA TTLType == TTL \in [AllEndpoints -> Nat] /\ \A e \in Endpoints : TTL[e] \in Nat
BY DEF TTL, AllEndpoints

LEMMA TypeInit == Init => TypeOK
BY DEF Init, TypeOK, ReqStates

LEMMA TypeStep == TypeOK /\ [Next]_vars => TypeOK'
<1> SUFFICES ASSUME TypeOK, [Next]_vars PROVE TypeOK'
  OBVIOUS
<1> USE TTLType DEF TypeOK
<1>1. ASSUME NEW r \in Requests, NEW e \in Endpoints, AnswerHit(r, e) PROVE TypeOK'
  BY <1>1 DEF AnswerHit, Answer, Holds, AnswerEntries, Answers, Absent
<1>2. ASSUME NEW r \in Requests, NEW e \in Endpoints, AnswerMiss(r, e) PROVE TypeOK'
  <2>1. [pc |-> "dates_get", e |-> e, due |-> Due] \in ReqStates
    BY DEF Due, ReqStates
  <2> QED BY <1>2, <2>1 DEF AnswerMiss, Goto
<1>3. ASSUME NEW r \in Requests, DatesHit(r) PROVE TypeOK'
  <2>1. dates \in DateEntries /\ req[r].e \in Endpoints
    BY <1>3, ReqShape DEF DatesHit, Holds, Absent
  <2>2. [pc |-> "query", e |-> req[r].e, due |-> Due, datesAt |-> dates.at,
         fields |-> dates.fields] \in ReqStates
    BY <2>1 DEF Due, ReqStates, DateEntries
  <2> QED BY <1>3, <2>2 DEF DatesHit, Goto
<1>4. ASSUME NEW r \in Requests, DatesMiss(r) PROVE TypeOK'
  <2>1. [pc |-> "dates_db", e |-> req[r].e, due |-> Due] \in ReqStates
    BY <1>4, ReqShape DEF DatesMiss, Due, ReqStates
  <2> QED BY <1>4, <2>1 DEF DatesMiss, Goto
<1>5. ASSUME NEW r \in Requests, DatesRead(r) PROVE TypeOK'
  <2>1. req[r].e \in Endpoints /\ Shape[req[r].e] \in {StockDates, MarketDates}
    BY <1>5, ReqShape DEF DatesRead, Shape
  <2>2. [pc |-> IF Shape[req[r].e] = MarketDates THEN "dates_set" ELSE "dates_year",
         e |-> req[r].e, due |-> Due, datesAt |-> now, fields |-> Shape[req[r].e]]
           \in ReqStates
    BY <2>1 DEF Due, ReqStates
  <2> QED BY <1>5, <2>2 DEF DatesRead, Goto
<1>13. ASSUME NEW r \in Requests, DatesMore(r) PROVE TypeOK'
  <2>1. /\ req[r].e \in Endpoints /\ req[r].datesAt \in Nat
        /\ req[r].fields \in {StockDates, MarketDates}
    BY <1>13, ReqShape DEF DatesMore
  <2>2. [pc |-> IF req[r].pc = "dates_year" THEN "dates_first" ELSE "dates_set",
         e |-> req[r].e, due |-> Due, datesAt |-> req[r].datesAt,
         fields |-> req[r].fields] \in ReqStates
    BY <2>1 DEF Due, ReqStates
  <2> QED BY <1>13, <2>2 DEF DatesMore, Goto
<1>6. ASSUME NEW r \in Requests, DatesSet(r) PROVE TypeOK'
  <2>1. /\ req[r].e \in Endpoints /\ req[r].datesAt \in Nat
        /\ req[r].fields \in {StockDates, MarketDates}
    BY <1>6, ReqShape DEF DatesSet
  <2>2. [pc |-> "query", e |-> req[r].e, due |-> Due, datesAt |-> req[r].datesAt,
         fields |-> req[r].fields] \in ReqStates
    BY <2>1 DEF Due, ReqStates
  <2>3. dates' \in DateEntries
    BY <1>6, <2>1 DEF DatesSet, DateEntries
  <2> QED BY <1>6, <2>2, <2>3 DEF DatesSet, Goto
<1>7. ASSUME NEW r \in Requests, Query(r), req[r].e \in Cached PROVE TypeOK'
  <2>1. req[r].e \in Endpoints /\ req[r].datesAt \in Nat
    BY <1>7, ReqShape DEF Query
  <2>2. [pc |-> "answer_set", e |-> req[r].e, due |-> Due, datesAt |-> req[r].datesAt,
         at |-> now, whole |-> Whole(r)] \in ReqStates
    BY <2>1 DEF Due, ReqStates, Whole
  <2> QED BY <1>7, <2>2 DEF Query, Goto
<1>8. ASSUME NEW r \in Requests, Query(r), req[r].e \notin Cached PROVE TypeOK'
  <2>1. req[r].e \in Endpoints /\ req[r].datesAt \in Nat
    BY <1>8, ReqShape DEF Query
  <2>2. [when |-> now, at |-> now, datesAt |-> req[r].datesAt, whole |-> Whole(r)] \in Answers
    BY <2>1 DEF Answers, Whole
  <2>3. Idle \in ReqStates
    BY DEF ReqStates
  <2> QED BY <1>8, <2>2, <2>3 DEF Query, QueryOnly, Answer, Goto
<1>9. ASSUME NEW r \in Requests, AnswerSet(r) PROVE TypeOK'
  <2>1. req[r] \in [pc : {"answer_set"}, e : Endpoints, due : Nat, datesAt : Nat,
                    at : Nat, whole : BOOLEAN]
    BY <1>9, ReqShape DEF AnswerSet
  <2>2. /\ [when |-> now, at |-> req[r].at, datesAt |-> req[r].datesAt,
            whole |-> req[r].whole] \in Answers
        /\ [exp |-> now + TTL[req[r].e], at |-> req[r].at, datesAt |-> req[r].datesAt,
            whole |-> req[r].whole] \in AnswerEntries
    BY <2>1 DEF Answers, AnswerEntries
  <2>3. Idle \in ReqStates
    BY DEF ReqStates
  <2> QED BY <1>9, <2>1, <2>2, <2>3 DEF AnswerSet, Answer, Goto
<1>10. ASSUME NEW r \in Requests, Fail(r) PROVE TypeOK'
  BY <1>10 DEF Fail, Goto, ReqStates
<1>11. CASE Tick
  BY <1>11 DEF Tick
<1>12. CASE UNCHANGED vars
  BY <1>12 DEF vars
<1> QED
  BY <1>1, <1>2, <1>3, <1>4, <1>5, <1>6, <1>7, <1>8, <1>9, <1>10, <1>11, <1>12, <1>13
  DEF Next, Dates

\* Every reachable state has the types TypeOK gives.
THEOREM TypeCorrect == Spec => []TypeOK
  BY TypeInit, TypeStep, PTL DEF Spec

-----------------------------------------------------------------------------
(***************************************************************************)
(* The age of an answer is bounded because every step of the chain that    *)
(* leads to it is: an entry runs out a ttl after it was stored, and it was *)
(* stored at most MaxFill after the read it holds.  The invariant says so  *)
(* of each place where a date or an answer can be: redis, and a request    *)
(* between two awaits.                                                     *)
(***************************************************************************)
DatesBounded ==
  dates # Absent =>
    /\ dates.at <= now
    /\ dates.exp <= dates.at + 3 * MaxFill + HaftHour

EntryBounded(e) ==
  answers[e] # Absent =>
    /\ answers[e].at <= now /\ answers[e].datesAt <= now
    /\ answers[e].exp <= answers[e].at + DataLimit[e]
    /\ answers[e].exp <= answers[e].datesAt + DatesLimit[e]

ReqBounded(r) ==
  /\ req[r] # Idle => now <= req[r].due
  /\ req[r].pc = "dates_year" =>
       /\ req[r].datesAt <= now
       /\ req[r].due <= req[r].datesAt + MaxFill
  /\ req[r].pc = "dates_first" =>
       /\ req[r].datesAt <= now
       /\ req[r].due <= req[r].datesAt + 2 * MaxFill
  /\ req[r].pc = "dates_set" =>
       /\ req[r].datesAt <= now
       /\ req[r].due <= req[r].datesAt + 3 * MaxFill
  /\ req[r].pc = "query" =>
       /\ req[r].datesAt <= now
       /\ req[r].due <= req[r].datesAt + HaftHour + 4 * MaxFill
  /\ req[r].pc = "answer_set" =>
       /\ req[r].datesAt <= now /\ req[r].at <= now
       /\ req[r].due <= req[r].at + MaxFill
       /\ req[r].due <= req[r].datesAt + HaftHour + 5 * MaxFill

\* What was served is known to be fresh, and what redis holds is hardly older.
ServedBounded(e) ==
  served[e] # Nothing =>
    /\ served[e].at <= now
    /\ e \in Cached /\ answers[e] # Absent => served[e].at <= answers[e].at + MaxFill

IInv ==
  /\ TypeOK
  /\ DatesBounded
  /\ \A e \in Endpoints : EntryBounded(e) /\ ServedBounded(e) /\ Fresh(e)
  /\ \A r \in Requests : ReqBounded(r)

LEMMA LimitType ==
  \A e \in Endpoints : /\ DataLimit[e] = TTL[e] + MaxFill
                       /\ DatesLimit[e] = TTL[e] + HaftHour + 5 * MaxFill
                       /\ DataLimit[e] \in Nat /\ DatesLimit[e] \in Nat
<1> TAKE e \in Endpoints
<1>1. TTL[e] \in Nat
  BY TTLType
<1>2. DataLimit[e] = TTL[e] + MaxFill /\ DatesLimit[e] = TTL[e] + HaftHour + 5 * MaxFill
  BY DEF DataLimit, DatesLimit
<1> QED BY <1>1, <1>2

LEMMA IInvInit == Init => IInv
<1> SUFFICES ASSUME Init PROVE IInv
  OBVIOUS
<1>1. TypeOK
  BY TypeInit
<1>2. \A e \in Endpoints : EntryBounded(e) /\ ServedBounded(e) /\ Fresh(e)
  BY DEF Init, EntryBounded, ServedBounded, Fresh
<1>3. \A r \in Requests : ReqBounded(r)
  BY DEF Init, ReqBounded, Idle
<1> QED BY <1>1, <1>2, <1>3 DEF IInv, Init, DatesBounded

\* A step that leaves redis, the clock and the answers alone and moves one
\* request to a state within its bounds keeps the invariant.
LEMMA MoveRequest ==
  ASSUME IInv, TypeOK', NEW r \in Requests, NEW state,
         UNCHANGED <<now, dates, answers, served>>, Goto(r, state), ReqBounded(r)'
  PROVE  IInv'
<1>1. DatesBounded'
  BY DEF IInv, DatesBounded
<1>2. \A e \in Endpoints : (EntryBounded(e) /\ ServedBounded(e) /\ Fresh(e))'
  BY DEF IInv, EntryBounded, ServedBounded, Fresh
<1>3. \A s \in Requests : s # r => ReqBounded(s)'
  BY DEF IInv, TypeOK, ReqBounded, Goto
<1> QED BY <1>1, <1>2, <1>3 DEF IInv

\* A step that leaves the requests' bounds to a lemma of their own: the others
\* are not moved, and time does not pass.
LEMMA OthersBounded ==
  ASSUME IInv, NEW r \in Requests, NEW state, UNCHANGED now, Goto(r, state)
  PROVE  /\ \A s \in Requests : s # r => ReqBounded(s)'
         /\ req'[r] = state
BY DEF IInv, TypeOK, ReqBounded, Goto

LEMMA AskStep ==
  ASSUME IInv, TypeOK', NEW r \in Requests, NEW e \in Endpoints,
         AnswerHit(r, e) \/ AnswerMiss(r, e)
  PROVE  IInv'
<1>1. CASE AnswerHit(r, e)
  <2>1. answers[e] \in AnswerEntries /\ answers[e] # Absent
    BY <1>1 DEF IInv, TypeOK, AnswerHit, Holds, Absent
  <2>2. /\ served'[e] = [when |-> now, at |-> answers[e].at, datesAt |-> answers[e].datesAt,
                         whole |-> answers[e].whole]
        /\ \A f \in Endpoints : f # e => served'[f] = served[f]
        /\ UNCHANGED <<now, dates, answers, req>>
    BY <1>1 DEF IInv, TypeOK, AnswerHit, Answer
  <2>3. EntryBounded(e) /\ now < answers[e].exp /\ now \in Nat
    BY <1>1 DEF IInv, TypeOK, AnswerHit, Holds
  <2>4. Fresh(e)'
    BY <2>1, <2>2, <2>3, LimitType DEF Fresh, EntryBounded, AnswerEntries
  <2>5. ServedBounded(e)'
    BY <2>1, <2>2, <2>3 DEF ServedBounded, EntryBounded, AnswerEntries
  <2>6. \A f \in Endpoints : f # e => (ServedBounded(f) /\ Fresh(f))'
    BY <2>2 DEF IInv, ServedBounded, Fresh
  <2>7. DatesBounded' /\ (\A f \in Endpoints : EntryBounded(f)')
           /\ \A s \in Requests : ReqBounded(s)'
    BY <2>2 DEF IInv, DatesBounded, EntryBounded, ReqBounded
  <2> QED BY <2>4, <2>5, <2>6, <2>7 DEF IInv
<1>2. CASE AnswerMiss(r, e)
  <2> DEFINE state == [pc |-> "dates_get", e |-> e, due |-> Due]
  <2>1. Goto(r, state) /\ UNCHANGED <<now, dates, answers, served>>
    BY <1>2 DEF AnswerMiss
  <2>2. req'[r] = state
    BY <2>1, OthersBounded
  <2>3. ReqBounded(r)'
    BY <2>1, <2>2 DEF ReqBounded, Due, IInv, TypeOK
  <2> QED BY <2>1, <2>3, MoveRequest
<1> QED BY <1>1, <1>2

LEMMA DatesStep ==
  ASSUME IInv, TypeOK', NEW r \in Requests, Dates(r)
  PROVE  IInv'
<1>0. now \in Nat /\ ReqBounded(r) /\ req[r] \in ReqStates
  BY DEF IInv, TypeOK
<1>1. CASE DatesHit(r)
  <2> DEFINE state == [pc |-> "query", e |-> req[r].e, due |-> Due, datesAt |-> dates.at,
                       fields |-> dates.fields]
  <2>1. Goto(r, state) /\ UNCHANGED <<now, dates, answers, served>>
    BY <1>1 DEF DatesHit
  <2>2. req'[r] = state
    BY <2>1, OthersBounded
  <2>3. /\ dates.at \in Nat /\ dates.exp \in Nat /\ dates.at <= now
        /\ now < dates.at + 3 * MaxFill + HaftHour
    BY <1>1, <1>0 DEF DatesHit, Holds, Absent, IInv, TypeOK, DatesBounded, DateEntries
  <2>4. ReqBounded(r)'
    BY <1>0, <2>1, <2>2, <2>3 DEF ReqBounded, Due
  <2> QED BY <2>1, <2>4, MoveRequest
<1>2. CASE DatesMiss(r)
  <2> DEFINE state == [pc |-> "dates_db", e |-> req[r].e, due |-> Due]
  <2>1. Goto(r, state) /\ UNCHANGED <<now, dates, answers, served>>
    BY <1>2 DEF DatesMiss
  <2>2. req'[r] = state
    BY <2>1, OthersBounded
  <2>3. ReqBounded(r)'
    BY <1>0, <2>1, <2>2 DEF ReqBounded, Due
  <2> QED BY <2>1, <2>3, MoveRequest
<1>3. CASE DatesRead(r)
  <2> DEFINE state == [pc |-> IF Shape[req[r].e] = MarketDates THEN "dates_set"
                                                            ELSE "dates_year",
                       e |-> req[r].e, due |-> Due, datesAt |-> now,
                       fields |-> Shape[req[r].e]]
  <2>1. Goto(r, state) /\ UNCHANGED <<now, dates, answers, served>>
    BY <1>3 DEF DatesRead
  <2>2. req'[r] = state
    BY <2>1, OthersBounded
  <2>3. ReqBounded(r)'
    BY <1>0, <2>1, <2>2 DEF ReqBounded, Due
  <2> QED BY <2>1, <2>3, MoveRequest
<1>5. CASE DatesMore(r)
  <2> DEFINE state == [pc |-> IF req[r].pc = "dates_year" THEN "dates_first" ELSE "dates_set",
                       e |-> req[r].e, due |-> Due, datesAt |-> req[r].datesAt,
                       fields |-> req[r].fields]
  <2>1. Goto(r, state) /\ UNCHANGED <<now, dates, answers, served>>
    BY <1>5 DEF DatesMore
  <2>2. req'[r] = state
    BY <2>1, OthersBounded
  <2>3. /\ req[r].datesAt \in Nat /\ req[r].datesAt <= now
        /\ req[r].pc \in {"dates_year", "dates_first"}
        /\ req[r].pc = "dates_year" => now <= req[r].datesAt + MaxFill
        /\ req[r].pc = "dates_first" => now <= req[r].datesAt + 2 * MaxFill
    BY <1>0, <1>5, ReqShape DEF DatesMore, ReqBounded, Idle
  <2>4. ReqBounded(r)'
    BY <1>0, <2>1, <2>2, <2>3 DEF ReqBounded, Due
  <2> QED BY <2>1, <2>4, MoveRequest
<1>4. CASE DatesSet(r)
  <2> DEFINE state == [pc |-> "query", e |-> req[r].e, due |-> Due,
                       datesAt |-> req[r].datesAt, fields |-> req[r].fields]
  <2>1. /\ Goto(r, state) /\ UNCHANGED <<now, answers, served>>
        /\ dates' = [exp |-> now + HaftHour, at |-> req[r].datesAt, fields |-> req[r].fields]
    BY <1>4 DEF DatesSet
  <2>2. req'[r] = state /\ \A s \in Requests : s # r => ReqBounded(s)'
    BY <2>1, OthersBounded
  <2>3. /\ req[r].datesAt \in Nat /\ req[r].datesAt <= now
        /\ now <= req[r].datesAt + 3 * MaxFill
    BY <1>0, <1>4, ReqShape DEF DatesSet, ReqBounded, Idle
  <2>4. ReqBounded(r)'
    BY <1>0, <2>1, <2>2, <2>3 DEF ReqBounded, Due
  <2>5. DatesBounded'
    BY <1>0, <2>1, <2>3 DEF DatesBounded
  <2>6. \A e \in Endpoints : (EntryBounded(e) /\ ServedBounded(e) /\ Fresh(e))'
    BY <2>1 DEF IInv, EntryBounded, ServedBounded, Fresh
  <2> QED BY <2>2, <2>4, <2>5, <2>6 DEF IInv
<1> QED BY <1>1, <1>2, <1>3, <1>4, <1>5 DEF Dates

LEMMA QueryStep ==
  ASSUME IInv, TypeOK', NEW r \in Requests, Query(r)
  PROVE  IInv'
<1>0. /\ now \in Nat /\ req[r].pc = "query"
      /\ req[r].e \in Endpoints /\ req[r].datesAt \in Nat /\ req[r].datesAt <= now
      /\ now <= req[r].datesAt + HaftHour + 4 * MaxFill
  BY ReqShape DEF IInv, TypeOK, ReqBounded, Query, Idle
<1>1. CASE req[r].e \in Cached
  <2> DEFINE state == [pc |-> "answer_set", e |-> req[r].e, due |-> Due,
                       datesAt |-> req[r].datesAt, at |-> now, whole |-> Whole(r)]
  <2>1. Goto(r, state) /\ UNCHANGED <<now, dates, answers, served>>
    BY <1>1 DEF Query
  <2>2. req'[r] = state
    BY <2>1, OthersBounded
  <2>3. ReqBounded(r)'
    BY <1>0, <2>1, <2>2 DEF ReqBounded, Due
  <2> QED BY <2>1, <2>3, MoveRequest
<1>2. CASE req[r].e \notin Cached
  <2> DEFINE e == req[r].e
  <2>1. /\ Answer(e, now, req[r].datesAt, Whole(r))
        /\ Goto(r, Idle) /\ UNCHANGED <<now, dates, answers>>
    BY <1>2 DEF Query, QueryOnly
  <2>2. now <= now + DataLimit[e] /\ now <= req[r].datesAt + DatesLimit[e]
    BY <1>0, TTLType, LimitType
  <2> HIDE DEF e
  <2>3. /\ served'[e] = [when |-> now, at |-> now, datesAt |-> req[r].datesAt,
                         whole |-> Whole(r)]
        /\ \A f \in Endpoints : f # e => served'[f] = served[f]
    BY <1>0, <2>1 DEF IInv, TypeOK, Answer, e
  <2>4. e \notin Cached
    BY <1>2 DEF e
  <2>5. \A f \in Endpoints : (EntryBounded(f) /\ ServedBounded(f) /\ Fresh(f))'
    BY <1>0, <2>1, <2>2, <2>3, <2>4 DEF IInv, EntryBounded, ServedBounded, Fresh
  <2>6. req'[r] = Idle /\ \A s \in Requests : s # r => ReqBounded(s)'
    BY <2>1, OthersBounded
  <2>7. ReqBounded(r)' /\ DatesBounded'
    BY <2>1, <2>6 DEF ReqBounded, Idle, IInv, DatesBounded
  <2> QED BY <2>5, <2>6, <2>7 DEF IInv
<1> QED BY <1>1, <1>2

LEMMA AnswerSetStep ==
  ASSUME IInv, TypeOK', NEW r \in Requests, AnswerSet(r)
  PROVE  IInv'
<1>0. req[r].e \in Endpoints
  BY ReqShape DEF IInv, TypeOK, AnswerSet
<1> PICK e \in Endpoints : e = req[r].e
  BY <1>0
<1> DEFINE entry == [exp |-> now + TTL[e], at |-> req[r].at,
                     datesAt |-> req[r].datesAt, whole |-> req[r].whole]
<1>1. /\ now \in Nat
      /\ req[r].datesAt \in Nat /\ req[r].datesAt <= now
      /\ req[r].at \in Nat /\ req[r].at <= now
      /\ now <= req[r].at + MaxFill
      /\ now <= req[r].datesAt + HaftHour + 5 * MaxFill
  BY ReqShape DEF IInv, TypeOK, ReqBounded, AnswerSet, Idle
<1>2. /\ answers' = [answers EXCEPT ![e] = entry]
      /\ Answer(e, req[r].at, req[r].datesAt, req[r].whole)
      /\ Goto(r, Idle) /\ UNCHANGED <<now, dates>>
  BY DEF AnswerSet
<1>3. /\ now <= req[r].at + DataLimit[e] /\ now <= req[r].datesAt + DatesLimit[e]
      /\ entry.exp <= req[r].at + DataLimit[e]
      /\ entry.exp <= req[r].datesAt + DatesLimit[e]
  BY <1>1, TTLType, LimitType
<1>4. answers'[e] = entry /\ \A f \in Endpoints : f # e => answers'[f] = answers[f]
  BY <1>1, <1>2 DEF IInv, TypeOK
<1>5. EntryBounded(e)'
  BY <1>1, <1>2, <1>3, <1>4 DEF EntryBounded
<1>6. /\ served'[e] = [when |-> now, at |-> req[r].at, datesAt |-> req[r].datesAt,
                       whole |-> req[r].whole]
      /\ \A f \in Endpoints : f # e => served'[f] = served[f]
  BY <1>1, <1>2 DEF IInv, TypeOK, Answer
<1>7. ServedBounded(e)' /\ Fresh(e)'
  BY <1>1, <1>2, <1>3, <1>4, <1>6 DEF ServedBounded, Fresh
<1>8. \A f \in Endpoints : f # e => (EntryBounded(f) /\ ServedBounded(f) /\ Fresh(f))'
  BY <1>2, <1>4, <1>6 DEF IInv, EntryBounded, ServedBounded, Fresh
<1>9. req'[r] = Idle /\ \A s \in Requests : s # r => ReqBounded(s)'
  BY <1>2, OthersBounded
<1>10. ReqBounded(r)' /\ DatesBounded'
  BY <1>2, <1>9 DEF ReqBounded, Idle, IInv, DatesBounded
<1> QED BY <1>5, <1>7, <1>8, <1>9, <1>10 DEF IInv

LEMMA FailStep ==
  ASSUME IInv, TypeOK', NEW r \in Requests, Fail(r)
  PROVE  IInv'
<1>1. Goto(r, Idle) /\ UNCHANGED <<now, dates, answers, served>>
  BY DEF Fail
<1>2. req'[r] = Idle
  BY <1>1, OthersBounded
<1>3. ReqBounded(r)'
  BY <1>2 DEF ReqBounded, Idle
<1> QED BY <1>1, <1>3, MoveRequest

LEMMA TickStep ==
  ASSUME IInv, TypeOK', Tick
  PROVE  IInv'
<1>1. now \in Nat /\ now' = now + 1 /\ UNCHANGED <<dates, answers, req, served>>
  BY DEF Tick, IInv, TypeOK
<1>2. ASSUME NEW r \in Requests PROVE ReqBounded(r)'
  <2>1. req[r] # Idle => now + 1 <= req[r].due
    BY <1>1, ReqShape DEF IInv, TypeOK, Tick
  <2>2. req[r] \in ReqStates /\ ReqBounded(r)
    BY DEF IInv, TypeOK
  <2> QED BY <1>1, <2>1, <2>2, ReqShape DEF ReqBounded
<1>3. DatesBounded'
  BY <1>1 DEF IInv, DatesBounded, TypeOK, DateEntries
<1>4. ASSUME NEW e \in Endpoints PROVE (EntryBounded(e) /\ ServedBounded(e) /\ Fresh(e))'
  BY <1>1 DEF IInv, EntryBounded, ServedBounded, Fresh, TypeOK, AnswerEntries, Answers
<1> QED BY <1>2, <1>3, <1>4 DEF IInv

LEMMA IInvStep == IInv /\ [Next]_vars => IInv'
<1> SUFFICES ASSUME IInv, [Next]_vars PROVE IInv'
  OBVIOUS
<1>1. TypeOK'
  BY TypeStep DEF IInv
<1>2. CASE UNCHANGED vars
  BY <1>1, <1>2 DEF vars, IInv, DatesBounded, EntryBounded, ServedBounded, Fresh, ReqBounded
<1> QED
  BY <1>1, <1>2, AskStep, DatesStep, QueryStep, AnswerSetStep, FailStep, TickStep DEF Next

THEOREM InvariantHolds == Spec => []IInv
  BY IInvInit, IInvStep, PTL DEF Spec

\* However handlers overlap and whichever entries run out when, an answer is at
\* most its ttl and one fill old, and its dates two ttls and five fills.
THEOREM AnswersAreFresh == Spec => []AnswersFresh
<1>1. IInv => AnswersFresh
  BY DEF IInv, AnswersFresh
<1> QED BY <1>1, InvariantHolds, PTL

-----------------------------------------------------------------------------
(* SessionCache implements BoundedStale. *)

\* An answer made within its limits is one BoundedStale allows.
LEMMA ServeAllowed ==
  ASSUME TypeOK, NEW e \in Endpoints, NEW at \in Nat, NEW datesAt \in Nat,
         NEW whole \in BOOLEAN, Answer(e, at, datesAt, whole), UNCHANGED now,
         at <= now, datesAt <= now,
         now <= at + DataLimit[e], now <= datesAt + DatesLimit[e]
  PROVE  Bound!Serve(e)
<1>1. at \in 0 .. now /\ datesAt \in 0 .. now
  BY DEF TypeOK
<1>2. served' = [served EXCEPT ![e] = [when |-> now, at |-> at, datesAt |-> datesAt,
                                       whole |-> whole]]
  BY DEF Answer
<1> QED BY <1>1, <1>2, Zenon DEF Bound!Serve

LEMMA BoundStep == IInv /\ [Next]_vars => [Bound!Next]_Bound!vars
<1> SUFFICES ASSUME IInv, [Next]_vars PROVE [Bound!Next]_Bound!vars
  OBVIOUS
<1>0. now \in Nat /\ TypeOK
  BY DEF IInv, TypeOK
<1>1. ASSUME NEW r \in Requests, NEW e \in Endpoints, AnswerHit(r, e)
      PROVE  Bound!Serve(e)
  <2>1. answers[e] \in AnswerEntries /\ answers[e] # Absent
    BY <1>0, <1>1 DEF TypeOK, AnswerHit, Holds, Absent
  <2>2. EntryBounded(e) /\ now < answers[e].exp
    BY <1>1 DEF IInv, AnswerHit, Holds
  <2>3. /\ answers[e].at \in Nat /\ answers[e].datesAt \in Nat
        /\ answers[e].whole \in BOOLEAN /\ answers[e].exp \in Nat
    BY <2>1 DEF AnswerEntries
  <2>4. /\ answers[e].at <= now /\ answers[e].datesAt <= now
        /\ now <= answers[e].at + DataLimit[e]
        /\ now <= answers[e].datesAt + DatesLimit[e]
    BY <1>0, <2>1, <2>2, <2>3, LimitType DEF EntryBounded
  <2>5. Answer(e, answers[e].at, answers[e].datesAt, answers[e].whole) /\ UNCHANGED now
    BY <1>1 DEF AnswerHit
  <2> QED BY <1>0, <2>3, <2>4, <2>5, ServeAllowed
<1>2. ASSUME NEW r \in Requests, Query(r), req[r].e \notin Cached
      PROVE  \E e \in Endpoints : Bound!Serve(e)
  <2>1. /\ req[r].e \in Endpoints /\ req[r].datesAt \in Nat /\ req[r].datesAt <= now
        /\ now <= req[r].datesAt + HaftHour + 4 * MaxFill
    BY <1>0, <1>2, ReqShape DEF IInv, TypeOK, ReqBounded, Query, Idle
  <2>2. /\ now <= now + DataLimit[req[r].e]
        /\ now <= req[r].datesAt + DatesLimit[req[r].e]
    BY <1>0, <2>1, TTLType, LimitType
  <2>3. /\ Answer(req[r].e, now, req[r].datesAt, Whole(r)) /\ UNCHANGED now
        /\ Whole(r) \in BOOLEAN
    BY <1>2 DEF Query, QueryOnly, Whole
  <2>4. Bound!Serve(req[r].e)
    <3>1. now \in Nat /\ now <= now
      BY <1>0
    <3> QED BY <1>0, <2>1, <2>2, <2>3, <3>1, ServeAllowed, Zenon
  <2> QED BY <2>1, <2>4
<1>3. ASSUME NEW r \in Requests, AnswerSet(r)
      PROVE  \E e \in Endpoints : Bound!Serve(e)
  <2>1. /\ req[r].e \in Endpoints /\ req[r].whole \in BOOLEAN
        /\ req[r].datesAt \in Nat /\ req[r].datesAt <= now
        /\ req[r].at \in Nat /\ req[r].at <= now
        /\ now <= req[r].at + MaxFill
        /\ now <= req[r].datesAt + HaftHour + 5 * MaxFill
    BY <1>0, <1>3, ReqShape DEF IInv, TypeOK, ReqBounded, AnswerSet, Idle
  <2>2. /\ now <= req[r].at + DataLimit[req[r].e]
        /\ now <= req[r].datesAt + DatesLimit[req[r].e]
    BY <1>0, <2>1, TTLType, LimitType
  <2>3. /\ Answer(req[r].e, req[r].at, req[r].datesAt, req[r].whole) /\ UNCHANGED now
    BY <1>3 DEF AnswerSet
  <2>4. Bound!Serve(req[r].e)
    BY <1>0, <2>1, <2>2, <2>3, ServeAllowed
  <2> QED BY <2>1, <2>4
<1>4. ASSUME NEW r \in Requests, Dates(r) \/ Fail(r)
      PROVE  UNCHANGED Bound!vars
  BY <1>4 DEF Dates, DatesHit, DatesMiss, DatesRead, DatesMore, DatesSet, Fail, Bound!vars
<1>8. ASSUME NEW r \in Requests, Query(r), req[r].e \in Cached
      PROVE  UNCHANGED Bound!vars
  BY <1>8 DEF Query, Bound!vars
<1>5. ASSUME NEW r \in Requests, NEW e \in Endpoints, AnswerMiss(r, e)
      PROVE  UNCHANGED Bound!vars
  BY <1>5 DEF AnswerMiss, Bound!vars
<1>6. CASE Tick
  BY <1>6 DEF Tick, Bound!Next, Bound!Pass
<1>7. CASE UNCHANGED vars
  BY <1>7 DEF vars, Bound!vars
<1> QED
  BY <1>1, <1>2, <1>3, <1>4, <1>5, <1>6, <1>7, <1>8 DEF Next, Bound!Next

\* Every behaviour of the endpoints is one that BoundedStale allows.
THEOREM ImplementsBoundedStale == Spec => BoundSpec
<1>1. Init => Bound!Init
  BY DEF Init, Bound!Init, Nothing, Bound!Nothing
<1> QED BY <1>1, BoundStep, InvariantHolds, PTL DEF Spec, BoundSpec, Bound!Spec

\* Answers go back in time by no more than the length of a fill.
THEOREM AnswersHardlyGoBack == Spec => HardlyGoesBack
<1> DEFINE Step == \A e \in Endpoints :
                     served[e] # Nothing => served'[e].at + MaxFill >= served[e].at
<1>1. IInv /\ [Next]_vars => [Step]_vars
  <2> SUFFICES ASSUME IInv, Next, NEW e \in Endpoints, served[e] # Nothing
               PROVE  served'[e].at + MaxFill >= served[e].at
    OBVIOUS
  <2>0. /\ TypeOK /\ now \in Nat /\ served[e].at \in Nat /\ served[e].at <= now
        /\ ServedBounded(e)
    BY DEF IInv, TypeOK, Answers, ServedBounded
  <2>1. ASSUME served'[e] = served[e] PROVE served'[e].at + MaxFill >= served[e].at
    BY <2>0, <2>1
  <2>2. ASSUME NEW r \in Requests, AnswerHit(r, e)
        PROVE  served'[e].at + MaxFill >= served[e].at
    <3>1. answers[e] \in AnswerEntries /\ answers[e] # Absent /\ e \in Cached
      BY <2>0, <2>2 DEF TypeOK, AnswerHit, Holds, Absent
    <3>2. served'[e].at = answers[e].at
      BY <2>0, <2>2 DEF TypeOK, AnswerHit, Answer
    <3> QED BY <2>0, <3>1, <3>2 DEF ServedBounded, AnswerEntries
  <2>3. ASSUME NEW r \in Requests, Query(r), req[r].e \notin Cached, req[r].e = e
        PROVE  served'[e].at + MaxFill >= served[e].at
    <3>1. served'[e].at = now
      BY <2>0, <2>3 DEF TypeOK, Query, QueryOnly, Answer
    <3> QED BY <2>0, <3>1
  <2>4. ASSUME NEW r \in Requests, AnswerSet(r), req[r].e = e
        PROVE  served'[e].at + MaxFill >= served[e].at
    <3>1. served'[e].at = req[r].at
      BY <2>0, <2>4 DEF TypeOK, AnswerSet, Answer
    <3>2. req[r].at \in Nat /\ now <= req[r].at + MaxFill
      BY <2>0, <2>4, ReqShape DEF IInv, TypeOK, ReqBounded, AnswerSet, Idle
    <3> QED BY <2>0, <3>1, <3>2
  <2>5. ASSUME NEW r \in Requests, NEW f \in Endpoints, f # e, AnswerHit(r, f)
        PROVE  served'[e] = served[e]
    BY <2>0, <2>5 DEF TypeOK, AnswerHit, Answer
  <2>6. ASSUME NEW r \in Requests, Query(r) \/ AnswerSet(r), req[r].e # e
        PROVE  served'[e] = served[e]
    BY <2>0, <2>6 DEF TypeOK, Query, QueryOnly, AnswerSet, Answer
  <2>7. ASSUME NEW r \in Requests, NEW f \in Endpoints,
               AnswerMiss(r, f) \/ Dates(r) \/ Fail(r)
        PROVE  served'[e] = served[e]
    BY <2>7 DEF AnswerMiss, Dates, DatesHit, DatesMiss, DatesRead, DatesMore, DatesSet, Fail
  <2>9. ASSUME NEW r \in Requests, Query(r), req[r].e \in Cached
        PROVE  served'[e] = served[e]
    BY <2>9 DEF Query
  <2>8. ASSUME Tick PROVE served'[e] = served[e]
    BY <2>8 DEF Tick
  <2> QED
    BY <2>1, <2>2, <2>3, <2>4, <2>5, <2>6, <2>7, <2>8, <2>9 DEF Next
<1> QED BY <1>1, InvariantHolds, PTL DEF Spec, HardlyGoesBack

-----------------------------------------------------------------------------
(* Endpoints of one service, which keep the same dates under the key. *)

OneShape == \A e, f \in Endpoints : Shape[e] = Shape[f]

\* These dates are enough for the query of any endpoint in use.
Enough(fields) == \A e \in Endpoints : Needs[e] \subseteq fields

\* What the service stores is enough for its own endpoints.
LEMMA OwnShape == \A e \in Endpoints : Needs[e] \subseteq Shape[e]
<1> TAKE e \in Endpoints
<1>1. e \in AllEndpoints
  OBVIOUS
<1>2. CASE e = "topHotIndustry"
  BY <1>1, <1>2 DEF Needs, Shape, MarketDates, AllEndpoints
<1>3. CASE e # "topHotIndustry"
  <2>1. Shape[e] = StockDates
    BY <1>1, <1>3 DEF Shape
  <2>2. Needs[e] \subseteq {"latestDate", "previousDate", "monthDate"}
    BY <1>1, <1>3 DEF Needs, AllEndpoints
  <2> QED BY <2>1, <2>2 DEF StockDates
<1> QED BY <1>2, <1>3

LEMMA ShapeEnough == ASSUME OneShape PROVE \A f \in Endpoints : Enough(Shape[f])
<1> SUFFICES ASSUME NEW f \in Endpoints, NEW e \in Endpoints PROVE Needs[e] \subseteq Shape[f]
  BY DEF Enough
<1>1. Shape[e] = Shape[f]
  BY DEF OneShape
<1> QED BY <1>1, OwnShape

ReqWhole(r) ==
  /\ req[r].pc \in {"dates_year", "dates_first", "dates_set", "query"} => Enough(req[r].fields)
  /\ req[r].pc = "answer_set" => req[r].whole

EntryWhole(e) ==
  /\ answers[e] # Absent => answers[e].whole
  /\ served[e] # Nothing => served[e].whole

WholeInv ==
  /\ dates # Absent => Enough(dates.fields)
  /\ \A r \in Requests : ReqWhole(r)
  /\ \A e \in Endpoints : EntryWhole(e)

\* The step of one request that stores no answer and serves none.
LEMMA WholeMove ==
  ASSUME TypeOK, WholeInv, NEW r \in Requests, NEW state, Goto(r, state),
         UNCHANGED <<answers, served>>, dates' # Absent => Enough(dates'.fields),
         ReqWhole(r)'
  PROVE  WholeInv'
<1>1. \A s \in Requests : s # r => ReqWhole(s)'
  BY DEF TypeOK, Goto, WholeInv, ReqWhole
<1> QED BY <1>1 DEF WholeInv, EntryWhole

LEMMA WholeDates ==
  ASSUME OneShape, TypeOK, WholeInv, NEW r \in Requests, Dates(r)
  PROVE  WholeInv'
<1> ReqWhole(r) /\ req[r] \in ReqStates
  BY DEF WholeInv, TypeOK
<1>1. CASE DatesHit(r)
  <2>1. Enough(dates.fields)
    BY <1>1 DEF DatesHit, Holds, Absent, WholeInv, TypeOK
  <2>2. ReqWhole(r)'
    BY <1>1, <2>1 DEF DatesHit, ReqWhole, TypeOK, Goto
  <2> QED BY <1>1, <2>2, WholeMove DEF DatesHit, WholeInv
<1>2. CASE DatesMiss(r)
  <2>1. ReqWhole(r)'
    BY <1>2 DEF DatesMiss, ReqWhole, TypeOK, Goto
  <2> QED BY <1>2, <2>1, WholeMove DEF DatesMiss, WholeInv
<1>3. CASE DatesRead(r)
  <2>1. Enough(Shape[req[r].e])
    BY <1>3, ReqShape, ShapeEnough DEF DatesRead
  <2>2. /\ req'[r].fields = Shape[req[r].e]
        /\ req'[r].pc \in {"dates_set", "dates_year"}
    BY <1>3 DEF DatesRead, TypeOK, Goto
  <2>3. ReqWhole(r)'
    BY <2>1, <2>2 DEF ReqWhole
  <2> QED BY <1>3, <2>3, WholeMove DEF DatesRead, WholeInv
<1>4. CASE DatesMore(r)
  <2>1. /\ req'[r].fields = req[r].fields
        /\ req'[r].pc \in {"dates_set", "dates_first"}
    BY <1>4 DEF DatesMore, TypeOK, Goto
  <2>2. ReqWhole(r)'
    BY <1>4, <2>1 DEF ReqWhole, DatesMore
  <2> QED BY <1>4, <2>2, WholeMove DEF DatesMore, WholeInv
<1>5. CASE DatesSet(r)
  <2>1. req'[r].fields = req[r].fields /\ req'[r].pc = "query" /\ dates'.fields = req[r].fields
    BY <1>5 DEF DatesSet, TypeOK, Goto
  <2>2. ReqWhole(r)' /\ Enough(dates'.fields)
    BY <1>5, <2>1 DEF ReqWhole, DatesSet
  <2> QED BY <1>5, <2>2, WholeMove DEF DatesSet
<1> QED BY <1>1, <1>2, <1>3, <1>4, <1>5 DEF Dates

\* The step of a request that serves a whole answer and may store it.
LEMMA WholeServe ==
  ASSUME TypeOK, WholeInv, NEW f \in Endpoints, NEW at, NEW datesAt,
         Answer(f, at, datesAt, TRUE), UNCHANGED dates,
         \A e \in Endpoints : answers'[e] = answers[e] \/ answers'[e].whole,
         \A s \in Requests : ReqWhole(s)'
  PROVE  WholeInv'
<1>1. /\ served'[f].whole
      /\ \A e \in Endpoints : e # f => served'[e] = served[e]
  BY DEF TypeOK, Answer
<1> QED BY <1>1 DEF WholeInv, EntryWhole

LEMMA WholeStep == OneShape /\ TypeOK /\ WholeInv /\ [Next]_vars => WholeInv'
<1> SUFFICES ASSUME OneShape, TypeOK, WholeInv, [Next]_vars PROVE WholeInv'
  OBVIOUS
<1>1. ASSUME NEW r \in Requests, NEW e \in Endpoints, AnswerHit(r, e) PROVE WholeInv'
  <2>1. answers[e] # Absent /\ answers[e] \in AnswerEntries
    BY <1>1 DEF AnswerHit, Holds, Absent, TypeOK
  <2>2. answers[e].whole = TRUE
    BY <2>1 DEF WholeInv, EntryWhole, AnswerEntries
  <2>3. \A s \in Requests : ReqWhole(s)'
    BY <1>1 DEF AnswerHit, WholeInv, ReqWhole
  <2> QED BY <1>1, <2>2, <2>3, WholeServe DEF AnswerHit
<1>2. ASSUME NEW r \in Requests, NEW e \in Endpoints, AnswerMiss(r, e) PROVE WholeInv'
  <2>1. ReqWhole(r)'
    BY <1>2 DEF AnswerMiss, ReqWhole, TypeOK, Goto
  <2> QED BY <1>2, <2>1, WholeMove DEF AnswerMiss, WholeInv
<1>3. ASSUME NEW r \in Requests, Query(r) PROVE WholeInv'
  <2>1. Whole(r) = TRUE /\ req[r].e \in Endpoints
    BY <1>3, ReqShape DEF Query, Whole, WholeInv, ReqWhole, Enough, TypeOK
  <2>2. CASE req[r].e \in Cached
    <3> DEFINE state == [pc |-> "answer_set", e |-> req[r].e, due |-> Due,
                         datesAt |-> req[r].datesAt, at |-> now, whole |-> TRUE]
    <3>1. Goto(r, state)
      BY <1>3, <2>1, <2>2, Zenon DEF Query
    <3>2. ReqWhole(r)'
      <4>1. req'[r] = state
        BY <3>1 DEF TypeOK, Goto
      <4> QED BY <4>1 DEF ReqWhole
    <3>3. UNCHANGED <<dates, answers, served>>
      BY <1>3, <2>2 DEF Query
    <3>4. dates' # Absent => Enough(dates'.fields)
      BY <3>3 DEF WholeInv
    <3> QED BY <3>2, <3>1, <3>3, <3>4, WholeMove
  <2>3. CASE req[r].e \notin Cached
    <3>1. Goto(r, Idle) /\ UNCHANGED <<dates, answers>>
      BY <1>3, <2>3 DEF Query, QueryOnly
    <3>2. \A s \in Requests : ReqWhole(s)'
      BY <3>1 DEF ReqWhole, WholeInv, TypeOK, Goto, Idle
    <3> QED BY <1>3, <2>1, <2>3, <3>1, <3>2, WholeServe DEF Query, QueryOnly
  <2> QED BY <2>2, <2>3
<1>4. ASSUME NEW r \in Requests, AnswerSet(r) PROVE WholeInv'
  <2>1. req[r].whole = TRUE /\ req[r].e \in Endpoints
    BY <1>4, ReqShape DEF AnswerSet, WholeInv, ReqWhole, TypeOK
  <2>2. \A e \in Endpoints : answers'[e] = answers[e] \/ answers'[e].whole
    BY <1>4, <2>1 DEF AnswerSet, TypeOK
  <2>3. \A s \in Requests : ReqWhole(s)'
    BY <1>4 DEF AnswerSet, ReqWhole, WholeInv, TypeOK, Goto, Idle
  <2>4. Answer(req[r].e, req[r].at, req[r].datesAt, TRUE) /\ UNCHANGED dates
    BY <1>4, <2>1 DEF AnswerSet
  <2> QED BY <2>1, <2>2, <2>3, <2>4, WholeServe
<1>5. ASSUME NEW r \in Requests, Fail(r) PROVE WholeInv'
  <2>1. ReqWhole(r)'
    BY <1>5 DEF Fail, ReqWhole, TypeOK, Goto, Idle
  <2> QED BY <1>5, <2>1, WholeMove DEF Fail, WholeInv
<1>6. CASE Tick \/ UNCHANGED vars
  BY <1>6 DEF Tick, vars, WholeInv, ReqWhole, EntryWhole
<1> QED
  BY <1>1, <1>2, <1>3, <1>4, <1>5, <1>6, WholeDates DEF Next

\* As long as the endpoints in use belong to services that keep the same dates, no
\* answer is computed from a date that the session-date entry does not have.
THEOREM WholeWithOneShape == ASSUME OneShape PROVE Spec => []AnswersWhole
<1>1. Init => WholeInv
  BY DEF Init, WholeInv, ReqWhole, EntryWhole, Idle
<1>2. TypeOK /\ WholeInv /\ [Next]_vars => WholeInv'
  BY WholeStep
<1>3. WholeInv => AnswersWhole
  BY DEF WholeInv, EntryWhole, AnswersWhole
<1> QED BY <1>1, <1>2, <1>3, TypeCorrect, PTL DEF Spec
=============================================================================
