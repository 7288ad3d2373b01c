----------------------------- MODULE EndpointCache -----------------------------
(***************************************************************************)
(* The read endpoints of the API at work: the handlers of the catalogues,  *)
(* run by the clients over one redis and one database server.              *)
(*                                                                         *)
(* A step of a client is what happens when an awaited call ends.  What a   *)
(* handler does without awaiting (returning, throwing, starting a query)   *)
(* is a step of its own here, which nobody else sees.  Time is kept as the *)
(* age of what was read from the database and the time that redis entries  *)
(* have left, so that the model needs no bound on it.                      *)
(*                                                                         *)
(* What SessionCache models in detail, the shapes of the trading dates, is *)
(* left out here.                                                          *)
(* A definition marked "Mistake" is a wrong version of the next one, used  *)
(* only to see that a property would catch it.                             *)
(***************************************************************************)
EXTENDS MarketEndpoints, CashFlowEndpoints, SharesEndpoints, MacroEndpoints,
        HealthEndpoints, RetailEndpoints, ReportEndpoints, FiniteSetsExt, Functions

CONSTANTS Clients,
          Fill       \* longest time from each client's request to its answer

Boards    == StockEndpoints \cup ChartEndpoints \cup CashFlowEndpoints
Catalogue == Boards \cup MarketEndpoints \cup SharesEndpoints \cup RatingEndpoints
             \cup MacroEndpoints \cup HealthEndpoints \cup RetailEndpoints
             \cup NewsEndpoints \cup ReportEndpoints

(* What a client asks for if it asks for nothing. *)
Nothing == <<"nothing", <<>>, <<>>>>

ASSUME EndpointCacheAssumption ==
  /\ Fill \in [Clients -> Nat]
  /\ \E slowest \in Clients : \A c \in Clients : Fill[c] <= Fill[slowest]
MaxFill == Max(Range(Fill))

VARIABLES asks,      \* what each client asks for, over and over
          client,    \* the request of each client
          redis,     \* the entries there are
          topTable,  \* the rows of ##TOP_TABLE
          adrift     \* queries run on whose handler has failed without them

vars == <<asks, client, redis, topTable, adrift>>

Idle == [pc |-> 0]
NoTable == [made |-> FALSE, rows |-> {}]

Init ==
  /\ asks \in [Clients -> Catalogue \cup {Nothing}]
  /\ client = [c \in Clients |-> Idle]
  /\ redis = <<>>
  /\ topTable = NoTable
  /\ adrift = FALSE

Code(c) == asks[c][3]
Busy(c) == client[c].pc > 0
Step(c) == Code(c)[client[c].pc]
At(c, op) == Busy(c) /\ client[c].pc <= Len(Code(c)) /\ Step(c).op = op
Finished(c) == Busy(c) /\ client[c].pc > Len(Code(c))

Drop(c) == client' = [client EXCEPT ![c] = Idle]

(* Queries that the handler has started and does not await yet.  canslimPrefilter has
   its parts under way at once, each of which may be at any of its own steps. *)
EarlyStarters == {"individualInvestorBenefitsRating", "businessPositionRating",
                  "canslimPrefilter"}
Loose(c) ==
  \/ client[c].early /\ ~At(c, "join")
  \/ asks[c][1] = "canslimPrefilter" /\ client[c].pc \in 3..(Len(Code(c)) - 1)

(* The request ends; what its handler has started and not awaited runs on. *)
Leave(c) == Drop(c) /\ adrift' = (adrift \/ Loose(c))

(* A request has read something for its answer and, inside it, for each redis key
   it is about to fill: its frames, the innermost last. *)
Frames(c) == client[c].frames
TopFrame(c) == Frames(c)[Len(Frames(c))]
Under(c) == SubSeq(Frames(c), 1, Len(Frames(c)) - 1)
Adding(frames, parts) == [frames EXCEPT ![Len(frames)] = @ \cup parts]
Merged(c) == Adding(Under(c), TopFrame(c))

(* The queries that are sent on arriving at a step see the database of then; the
   handler goes on when the last of them is in. *)
Launched(c, pc) ==
  IF pc <= Len(Code(c)) /\ Code(c)[pc].op \in {"ask", "start", "join"}
  THEN (UNION Code(c)[pc].queries) \X {0}
  ELSE {}
Jump(c, pc, frames) ==
  client' = [client EXCEPT ![c] =
    [pc |-> pc, frames |-> Adding(frames, Launched(c, pc)), left |-> client[c].left,
     early |-> \/ client[c].early /\ ~At(c, "join")
               \/ At(c, "start")]]
Onward(c, frames) == Jump(c, client[c].pc + 1, frames)

(* redis.set: an entry holds answered questions and has some time left. *)
With(key, parts, ttl) ==
  [k \in DOMAIN redis \cup {key} |->
     IF k = key THEN [parts |-> parts, left |-> ttl] ELSE redis[k]]

-------------------------------------------------------------------------------
Begin(c) ==
  /\ ~Busy(c) /\ asks[c] # Nothing
  /\ client' = [client EXCEPT ![c] = [pc |-> 1, frames |-> <<Launched(c, 1)>>,
                                      left |-> Fill[c], early |-> FALSE]]
  /\ UNCHANGED <<asks, redis, topTable, adrift>>

\* Mistake: the entry is as good as new each time that it is read.
HitRenews(c) ==
  /\ At(c, "look") /\ Step(c).key \in DOMAIN redis
  /\ redis' = With(Step(c).key, redis[Step(c).key].parts, Step(c).ttl)
  /\ Jump(c, client[c].pc + Step(c).to, Adding(Frames(c), redis[Step(c).key].parts))
  /\ UNCHANGED <<asks, topTable, adrift>>
(* redis.get found the key. *)
Hit(c) ==
  /\ At(c, "look") /\ Step(c).key \in DOMAIN redis
  /\ Jump(c, client[c].pc + Step(c).to, Adding(Frames(c), redis[Step(c).key].parts))
  /\ UNCHANGED <<asks, redis, topTable, adrift>>

Miss(c) ==
  /\ At(c, "look") /\ Step(c).key \notin DOMAIN redis
  /\ Onward(c, Append(Frames(c), {}))
  /\ UNCHANGED <<asks, redis, topTable, adrift>>

Open(c) ==
  /\ At(c, "open")
  /\ Onward(c, Append(Frames(c), {}))
  /\ UNCHANGED <<asks, redis, topTable, adrift>>

Close(c) ==
  /\ At(c, "close")
  /\ Onward(c, Merged(c))
  /\ UNCHANGED <<asks, redis, topTable, adrift>>

Keep(c) ==
  /\ At(c, "keep")
  /\ redis' = With(Step(c).key, TopFrame(c), Step(c).ttl)
  /\ Onward(c, Merged(c))
  /\ UNCHANGED <<asks, topTable, adrift>>

(* Whether there is something under the key, redis was asked before the query whose
   rows go there, and it may be otherwise now. *)
ShareOut(c) ==
  /\ At(c, "share")
  /\ \/ redis' = With(Step(c).key, {p \in TopFrame(c) : p[1] \in Step(c).only}, Step(c).ttl)
     \/ Step(c).absent /\ redis' = redis
  /\ Onward(c, Frames(c))
  /\ UNCHANGED <<asks, topTable, adrift>>

(* The database has answered what the client waits for, or it waits for nothing. *)
Answered(c) ==
  /\ At(c, "ask") \/ At(c, "join") \/ At(c, "start")
  /\ Onward(c, Frames(c))
  /\ UNCHANGED <<asks, redis, topTable, adrift>>

(* CREATE TABLE ##TOP_TABLE is an error while there is one, whoever made it. *)
CreateTop(c) ==
  /\ At(c, "create")
  /\ IF topTable.made
     THEN Leave(c) /\ UNCHANGED topTable
     ELSE /\ Onward(c, Frames(c))
          /\ topTable' = [made |-> TRUE, rows |-> {}]
          /\ UNCHANGED adrift
  /\ UNCHANGED <<asks, redis>>

InsertTop(c) ==
  /\ At(c, "insert")
  /\ topTable' = [topTable EXCEPT !.rows = @ \cup Step(c).rows]
  /\ Onward(c, Frames(c))
  /\ UNCHANGED <<asks, redis, adrift>>

DropTop(c) ==
  /\ At(c, "drop")
  /\ Onward(c, Adding(Frames(c), topTable.rows \X {Fill[c] - client[c].left}))
  /\ topTable' = NoTable
  /\ UNCHANGED <<asks, redis, adrift>>

(* A table that a failed batch has left goes when its session is closed. *)
SessionCloses ==
  /\ topTable.made
  /\ \A c \in Clients : ~At(c, "insert") /\ ~At(c, "drop")
  /\ topTable' = NoTable
  /\ UNCHANGED <<asks, client, redis, adrift>>

(* The handler ends with its answer, with [] or with an error of its own. *)
Reply(c) ==
  /\ Finished(c) \/ At(c, "refuse") \/ At(c, "stop")
  /\ Leave(c)
  /\ UNCHANGED <<asks, redis, topTable>>

(* What the client awaits, a query, a batch or redis, fails or times out.  The answer
   is an error, or nothing where the handler swallows it. *)
Fail(c) ==
  /\ Busy(c) /\ ~Finished(c) /\ ~At(c, "start")
  /\ Leave(c)
  /\ UNCHANGED <<asks, redis, topTable>>

(* A query fails that was started and that nobody awaits, be its handler still at work
   or failed long ago: an unhandled rejection, at which node ends the process.  Redis
   stays. *)
Crash ==
  /\ adrift \/ \E c \in Clients : Busy(c) /\ Loose(c)
  /\ client' = [c \in Clients |-> Idle]
  /\ adrift' = FALSE
  /\ UNCHANGED <<asks, redis, topTable>>

(* The last of the queries that ran on has ended well. *)
LateAnswers ==
  /\ adrift
  /\ adrift' = FALSE
  /\ UNCHANGED <<asks, client, redis, topTable>>

\* Mistake: an entry stays until its time has run out, and one tick more.
StaysTooLong(key) == redis[key].left > 0
Stays(key) == redis[key].left > 1
Older(parts) == {<<p[1], p[2] + 1>> : p \in parts}
Tick ==
  /\ \A c \in Clients : Busy(c) => client[c].left > 0
  /\ client' = [c \in Clients |->
       IF Busy(c)
       THEN [client[c] EXCEPT !.left = @ - 1,
                              !.frames = [i \in DOMAIN @ |-> Older(@[i])]]
       ELSE Idle]
  /\ redis' = [k \in {k \in DOMAIN redis : Stays(k)} |->
                 [parts |-> Older(redis[k].parts), left |-> redis[k].left - 1]]
  /\ UNCHANGED <<asks, topTable, adrift>>

Next ==
  \/ \E c \in Clients :
       \/ Begin(c) \/ Hit(c) \/ Miss(c) \/ Open(c) \/ Close(c) \/ Keep(c) \/ ShareOut(c)
       \/ Answered(c) \/ CreateTop(c) \/ InsertTop(c) \/ DropTop(c)
       \/ Reply(c) \/ Fail(c)
  \/ Crash
  \/ LateAnswers
  \/ SessionCloses
  \/ Tick

Spec == Init /\ [][Next]_vars

-------------------------------------------------------------------------------
Parts(questions) == questions \X Nat
TypeOK ==
  /\ asks \in [Clients -> Catalogue \cup {Nothing}]
  /\ \A c \in Clients : Busy(c) =>
       /\ client[c].pc \in 1..(Len(Code(c)) + 1)
       /\ Len(Frames(c)) \in 1..4
       /\ \A i \in DOMAIN Frames(c) : \A p \in Frames(c)[i] : p[2] \in Nat
       /\ client[c].left \in 0..Fill[c]
       /\ client[c].early \in BOOLEAN
  /\ \A k \in DOMAIN redis : redis[k].left \in Nat \ {0}
  /\ topTable.made \in BOOLEAN
  /\ adrift \in BOOLEAN

(* The trading dates, which SessionCache is about. *)
About(questions) == {q \in questions : q[1] \notin {"dates", "lastYear", "firstDateYear"}}
Said(parts) == {p[1] : p \in parts}

(* Whatever is cached under which key by which handler, and however requests
   overlap, an answer says what its own request asks and nothing else: no key lacks
   a parameter that its query has, and no two handlers use one key for different
   things. *)
AnswersTheRequest ==
  \A c \in Clients : Finished(c) =>
    /\ Len(Frames(c)) = 1
    /\ About(Said(Frames(c)[1])) = About(Questions(Code(c)))

(* The trading dates of a table are one topic: which of them its entry has depends on
   the service that filled it, and is for SessionCache to tell. *)
Topic(question) ==
  IF question[1] \in {"dates", "lastYear", "firstDateYear"} THEN <<"dates", question[2]>>
                                                          ELSE question
Asking(program, topic) ==
  {i \in DOMAIN program : \E q \in Questions(<<program[i]>>) : Topic(q) = topic}

(* How old the answer to a question may be that is asked at step i: as old as the
   entries around it may get, one kept inside another, plus the time of the request
   that filled each and of this one.  The sum is counted one unit of time at a time. *)
UnitsAround(program, i) ==
  UNION {{j} \X (1..(program[j].ttl + MaxFill)) : j \in Around(program, i)}
AgeAt(program, i) == Cardinality(UnitsAround(program, i)) + MaxFill

AgeBounded ==
  \A c \in Clients : Finished(c) =>
    \A p \in Frames(c)[1] :
      \E i \in Asking(Code(c), Topic(p[1])) : p[2] <= AgeAt(Code(c), i)

(* The boards are those of the running session: however their parts are cached in
   one another, nothing on them is older than three times redis' default. *)
BoardNames == {e[1] : e \in Boards}
BoardIsIntraday ==
  \A c \in Clients : Finished(c) /\ asks[c][1] \in BoardNames =>
    \A p \in Frames(c)[1] : p[2] <= 3 * HaftHour + 4 * MaxFill

(* Two requests end at once only where one of the ratings is asked for that start
   queries before they wait for them: a failing query of any other handler ends the
   request it was made for and no other.  The rating need not be under way any more. *)
FailsAlone ==
  [][\A c, d \in Clients :
       c # d /\ Busy(c) /\ Busy(d) /\ ~Busy(c)' /\ ~Busy(d)' =>
         \E e \in Clients : asks[e][1] \in EarlyStarters]_vars
===============================================================================
