------------------------------- MODULE Programs -------------------------------
(* The vocabulary in which the handlers of the read endpoints are written: a
   handler is the sequence of its awaits.  What SQL computes is data; which
   question a query asks, with which parameters, under which redis key the
   answer is kept, and in which order, is control and is kept.

   A query is the set of the questions it answers, a question a tuple: a tag and
   the parameters of the request the SQL depends on.  An answer is a set of
   answered questions. *)
EXTENDS Integers, Sequences, FiniteSets

CONSTANTS
  HaftMinute, Minute, FiveMinutes, HaftHour, OneHour, OneDay, OneWeek,  \* TimeToLive
  Exchanges, Industries, Orders, Types, Stocks   \* values of the query parameters

Lifetimes == <<HaftMinute, Minute, FiveMinutes, HaftHour, OneHour, OneDay, OneWeek>>
ASSUME LifetimesAssumption ==
  /\ \A i \in 1..7 : Lifetimes[i] \in Nat \ {0}
  /\ \A i \in 1..6 : Lifetimes[i] <= Lifetimes[i + 1]

(* `redis.set(key, value)` and `redis.set(key, value, number)`: the store only
   looks at `{ttl}`, everything else gets the default of createRedisOptions. *)
Default == HaftHour

-------------------------------------------------------------------------------
(* Steps. *)

(* `await query(...)`. *)
Ask(question) == <<[op |-> "ask", queries |-> {{question}}]>>
(* One query whose rows answer several questions. *)
AskFor(questions) == <<[op |-> "ask", queries |-> {questions}]>>
(* `await Promise.all([...])` of queries: they end in any order. *)
Together(questions) == <<[op |-> "ask", queries |-> {{q} : q \in questions}]>>
(* Queries that are started and not awaited: other awaits come in between, ... *)
Start(questions) == <<[op |-> "start", queries |-> {{q} : q \in questions}]>>
(* ... until a Promise.all waits for all of them, and for those started with it. *)
Join(questions) == <<[op |-> "join", queries |-> {{q} : q \in questions}]>>
(* The statements of a batch on a temporary table that every connection to the
   server sees under one name: made, filled, read and dropped. *)
Create == <<[op |-> "create"]>>
Insert(question) == <<[op |-> "insert", rows |-> {question}]>>
ReadAndDrop == <<[op |-> "drop"]>>
(* `throw new ExceptionResponse(...)`. *)
Refuse == <<[op |-> "refuse"]>>
(* `return []` or `return {}` in the middle of a handler. *)
Stop == <<[op |-> "stop"]>>
(* `redis.set` of a part of what was read since the innermost `redis.get`; the second
   form only if there was nothing under the key when redis was asked, which the handler
   has done before it asked the last question. *)
Share(key, ttl, questions) ==
  <<[op |-> "share", key |-> key, ttl |-> ttl, only |-> questions, absent |-> FALSE]>>
ShareIfAbsent(key, ttl, questions) ==
  <<[op |-> "share", key |-> key, ttl |-> ttl, only |-> questions, absent |-> TRUE]>>

(* `const redisData = await redis.get(key); if (redisData) return redisData`,
   then the body, then `await redis.set(key, answer, {ttl})`. *)
Cached(key, ttl, body) ==
     <<[op |-> "look", key |-> key, ttl |-> ttl, to |-> Len(body) + 2]>>
  \o body
  \o <<[op |-> "keep", key |-> key, ttl |-> ttl]>>

(* The same, and more to do once the answer is kept. *)
CachedThen(key, ttl, body, rest) ==
     <<[op |-> "look", key |-> key, ttl |-> ttl, to |-> Len(body) + Len(rest) + 2]>>
  \o body
  \o <<[op |-> "keep", key |-> key, ttl |-> ttl]>>
  \o rest

(* The same with the `if` commented out, or with no get: stored, never read. *)
Unread(key, ttl, body) ==
     <<[op |-> "open"]>> \o body \o <<[op |-> "keep", key |-> key, ttl |-> ttl]>>

(* A get whose miss is computed but not stored by this handler. *)
Borrowed(key, ttl, body) ==
     <<[op |-> "look", key |-> key, ttl |-> ttl, to |-> Len(body) + 2]>>
  \o body
  \o <<[op |-> "close"]>>

-------------------------------------------------------------------------------
(* What a program is about. *)

Positions(program, op) == {i \in DOMAIN program : program[i].op = op}

Questions(program) ==
  LET reads == UNION {Positions(program, op) : op \in {"ask", "start", "join"}}
  IN (UNION {UNION program[i].queries : i \in reads})
       \cup (UNION {program[i].rows : i \in Positions(program, "insert")})

KeysOf(program) ==
  {program[i].key : i \in {j \in DOMAIN program : program[j].op \in {"look", "keep", "share"}}}

(* The caches around step i: those a hit of which skips it. *)
Around(program, i) ==
  {j \in Positions(program, "look") : j < i /\ i < j + program[j].to - 1}

-------------------------------------------------------------------------------
(* An endpoint is its name, a query it may be asked with and the program that
   serves it. *)
Serve(name, queries, handler(_)) == {<<name, q, handler(q)>> : q \in queries}
NoQuery == {<<>>}

-------------------------------------------------------------------------------
(* Conversions the handlers share. *)

(* `ex == 'ALL' ? ('HOSE', 'HNX', 'UPCOM') : (ex)`. *)
Floor(ex) == IF ex = "ALL" THEN {"HOSE", "HNX", "UPCOM"} ELSE {ex}

(* LV2 of a stock: its sector, as marketInfor.dbo.info has it. *)
LV2(stock) == CASE stock = "VCB" -> "Ngan hang"
                [] stock = "SSI" -> "Dich vu tai chinh"
                [] stock = "VIC" -> "Bat dong san"
                [] OTHER         -> "unknown"
Known(stock) == LV2(stock) # "unknown"
===============================================================================
