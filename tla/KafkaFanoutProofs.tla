-------------------------- MODULE KafkaFanoutProofs ---------------------------
(***************************************************************************)
(* Proofs about KafkaFanout, for any topics in use, logs of any length and *)
(* any number of crashes.                                                  *)
(***************************************************************************)
EXTENDS KafkaFanout, TLAPS

USE KafkaAssumption

(* The table of handlers, reduced to what the proofs need of it. *)

AsyncTopics == {"PhanNganh", "Foreign"}
AsyncEvents ==
  {"PhanNganh", "PhanNganhHOSE", "PhanNganhHNX", "PhanNganhUPCOM",
   "TopForeignHOSE", "TopForeignHNX", "TopForeignUPCOM"} \cup ForeignEvents

\* A handler that emits at once, and none of the events of the others.
OneShot(h) ==
  /\ DOMAIN h.steps = {1} /\ Len(h.steps) = 1
  /\ h.steps[1] # Wait
  /\ h.steps[1].events \cap AsyncEvents = {}

\* A handler that waits first, after each emission but the last, and never last;
\* the foreign lists are emitted together.
Waits(h) ==
  /\ Len(h.steps) \in Nat /\ DOMAIN h.steps = 1 .. Len(h.steps)
  /\ 1 \in DOMAIN h.steps /\ h.steps[1] = Wait
  /\ \A k \in DOMAIN h.steps :
       /\ h.steps[k] = Wait => k + 1 \in DOMAIN h.steps
       /\ h.steps[k] # Wait /\ k + 1 \in DOMAIN h.steps => h.steps[k + 1] = Wait
       /\ h.steps[k].events \subseteq AsyncEvents
       /\ \/ h.steps[k].events \cap ForeignEvents = {}
          \/ ForeignEvents \subseteq h.steps[k].events

LEMMA SyncHandlers ==
  /\ OneShot(handleMarketBreadth) /\ OneShot(handleMarketBreadthHNX)
  /\ OneShot(handleMarketLiquidityNow)
  /\ OneShot(handleDomesticIndex) /\ OneShot(handleDomesticIndex2)
  /\ OneShot(handleMarketVolatility) /\ OneShot(handleStockValue)
  /\ OneShot(handleLineChart) /\ OneShot(handleChartNen)
  /\ OneShot(handleTickerContribute)
<1>1. ASSUME NEW h, NEW E, h.steps = <<Emit(E)>>, E \cap AsyncEvents = {}
      PROVE  OneShot(h)
  BY <1>1 DEF OneShot, Emit, Wait
<1> USE <1>1 DEF Sync, Async, AsyncEvents, ForeignEvents
<1>2. OneShot(handleMarketBreadth) /\ OneShot(handleMarketBreadthHNX)
  BY DEF handleMarketBreadth, handleMarketBreadthHNX
<1>3. OneShot(handleMarketLiquidityNow)
  BY DEF handleMarketLiquidityNow
<1>4. OneShot(handleDomesticIndex) /\ OneShot(handleDomesticIndex2)
  BY DEF handleDomesticIndex, handleDomesticIndex2
<1>5. OneShot(handleMarketVolatility) /\ OneShot(handleStockValue)
  BY DEF handleMarketVolatility, handleStockValue
<1>6. OneShot(handleLineChart)
  BY DEF handleLineChart
<1>7. OneShot(handleChartNen)
  BY DEF handleChartNen
<1>8. OneShot(handleTickerContribute)
  BY DEF handleTickerContribute
<1> QED BY <1>2, <1>3, <1>4, <1>5, <1>6, <1>7, <1>8

LEMMA AsyncHandlers ==
  Waits(handleIndustry) /\ Waits(handleIndustryFloor)
    /\ Waits(handleForeign) /\ Waits(handleTopForeign)
<1> USE DEF Waits, Async, Emit, Wait, AsyncEvents
<1>1. Waits(handleIndustry)
  BY DEF handleIndustry, ForeignEvents
<1>2. Waits(handleIndustryFloor)
  <2> DEFINE s == handleIndustryFloor.steps
             floors == {"PhanNganhHOSE", "PhanNganhHNX", "PhanNganhUPCOM"}
  <2>1. /\ Len(s) = 7 /\ DOMAIN s = 1 .. 7
        /\ s[1] = Wait /\ s[2] = Wait /\ s[4] = Wait /\ s[6] = Wait
        /\ \A k \in {3, 5, 7} : s[k] # Wait /\ s[k].events \subseteq floors
    BY DEF handleIndustryFloor
  <2>2. Wait.events = {} /\ floors \subseteq AsyncEvents /\ floors \cap ForeignEvents = {}
    BY DEF ForeignEvents
  <2> HIDE DEF s, Wait, AsyncEvents, floors
  <2>3. \A k \in 1 .. 7 : /\ s[k] = Wait => k + 1 \in 1 .. 7
                          /\ s[k] # Wait /\ k + 1 \in 1 .. 7 => s[k + 1] = Wait
                          /\ s[k].events \subseteq AsyncEvents
                          /\ s[k].events \cap ForeignEvents = {}
    <3>1. \A k \in 1 .. 7 : k \in {1, 2, 4, 6} \/ k \in {3, 5, 7}
      OBVIOUS
    <3>2. \A k \in {1, 2, 4, 6} : s[k] = Wait /\ k + 1 \in 1 .. 7
      BY <2>1
    <3>3. \A k \in {3, 5, 7} : k + 1 \in 1 .. 7 => s[k + 1] = Wait
      BY <2>1
    <3> QED BY <2>1, <2>2, <3>1, <3>2, <3>3
  <2> QED BY <2>1, <2>3 DEF s
<1>3. Waits(handleForeign)
  <2> DEFINE s == handleForeign.steps
  <2>1. /\ Len(s) = 3 /\ DOMAIN s = 1 .. 3
        /\ s[1] = Wait /\ s[2] = Wait /\ s[3] # Wait /\ s[3].events = ForeignEvents
    BY DEF handleForeign
  <2>2. Wait.events = {} /\ ForeignEvents \subseteq AsyncEvents
    OBVIOUS
  <2> HIDE DEF s, Wait, AsyncEvents
  <2> QED BY <2>1, <2>2 DEF s
<1>4. Waits(handleTopForeign)
  BY DEF handleTopForeign, ForeignEvents
<1> QED BY <1>1, <1>2, <1>3, <1>4

LEMMA HandlerTable ==
  ASSUME NEW topic \in DOMAIN Handlers, NEW i \in DOMAIN Handlers[topic]
  PROVE  /\ topic \in AsyncTopics => Waits(Handlers[topic][i])
         /\ topic \notin AsyncTopics => OneShot(Handlers[topic][i])
BY SyncHandlers, AsyncHandlers DEF Handlers, AsyncTopics

-------------------------------------------------------------------------------
(* What is running *)

\* A handler of its message; it waits for its next step only if it belongs to a topic
\* whose handlers do.
Unfinished(run) == Steps(run)[run.done + 1] = Wait
RunOK(run) ==
  /\ run \in [message : 1 .. Len(log), handler : Nat, done : Nat]
  /\ run.handler \in DOMAIN Of(run.message)
  /\ Unfinished(run) => /\ log[run.message].topic \in AsyncTopics
                        /\ run.done + 1 \in DOMAIN Steps(run)

TypeInv ==
  /\ process \in {"down", "starting", "up"}
  /\ log \in Seq([topic : Topics, bad : SUBSET Nat])
  /\ read \in 0 .. Len(log) /\ committed \in 0 .. Len(log)
  /\ upFrom \in Nat
  /\ shown \in [Events -> Nat]
  /\ \A run \in running : RunOK(run)

\* The events of a step of a handler are events of its topic.
LEMMA StepEvents ==
  ASSUME NEW topic, NEW i \in DOMAIN Handlers[topic],
         NEW k \in DOMAIN Handlers[topic][i].steps
  PROVE  Handlers[topic][i].steps[k].events \subseteq TopicEvents(topic)
BY DEF TopicEvents, EventsOf

\* A message is of a topic in use.
LEMMA TopicOfMessage ==
  ASSUME TypeInv, NEW n \in 1 .. Len(log)
  PROVE  log[n].topic \in Topics /\ log[n].topic \in DOMAIN Handlers
<1> DEFINE M == [topic : Topics, bad : SUBSET Nat]
<1>1. log \in Seq(M)
  BY DEF TypeInv
<1>2. log[n] \in M
  <2> HIDE DEF M
  <2> QED BY <1>1
<1> QED BY <1>2

\* The handlers are numbered.
LEMMA Numbered ==
  ASSUME NEW topic \in DOMAIN Handlers, NEW i \in DOMAIN Handlers[topic]
  PROVE  i \in Nat
BY DEF Handlers

LEMMA LeftOK ==
  ASSUME TypeInv, NEW n \in 1 .. Len(log), NEW failed, NEW run \in Left(n, failed)
  PROVE  RunOK(run)
<1>1. PICK i \in DOMAIN Of(n) : run = [message |-> n, handler |-> i, done |-> 0]
  BY DEF Left, Called
<1>2. log[n].topic \in DOMAIN Handlers /\ i \in Nat
  BY <1>1, TopicOfMessage, Numbered DEF Of
<1>3. Steps(run) = Of(n)[i].steps
  BY <1>1 DEF Steps
<1>4. ASSUME Unfinished(run)
      PROVE  log[n].topic \in AsyncTopics /\ run.done + 1 \in DOMAIN Steps(run)
  <2>1. Of(n)[i].steps[1] = Wait
    BY <1>1, <1>3, <1>4 DEF Unfinished
  <2>2. log[n].topic \in AsyncTopics
    BY <1>1, <1>2, <2>1, HandlerTable DEF OneShot, Of
  <2>3. Waits(Of(n)[i])
    BY <1>1, <1>2, <2>2, HandlerTable DEF Of
  <2> QED BY <1>1, <1>3, <2>2, <2>3 DEF Waits
<1> QED BY <1>1, <1>2, <1>4 DEF RunOK

\* The next step of what is running is there, and after it the handler waits or is done.
LEMMA NextStepOK ==
  ASSUME TypeInv, NEW run \in running, Unfinished(run)
  PROVE  /\ run.done + 2 \in DOMAIN Steps(run)
         /\ NextStep(run).events \subseteq TopicEvents(log[run.message].topic)
         /\ NextStep(run).events \subseteq AsyncEvents
         /\ \/ NextStep(run).events \cap ForeignEvents = {}
            \/ ForeignEvents \subseteq NextStep(run).events
         /\ \A left \in After(run, run.done + IF NextStep(run) = Wait THEN 1 ELSE 2) :
              RunOK(left)
<1> DEFINE topic == log[run.message].topic
           h == Handlers[topic][run.handler]
<1>1. RunOK(run) /\ Steps(run) = h.steps /\ topic \in DOMAIN Handlers
  BY TopicOfMessage DEF TypeInv, RunOK, Steps, Of
<1>2. Waits(h)
  BY <1>1, HandlerTable DEF RunOK, Of
<1>3. run.done + 2 \in DOMAIN h.steps /\ NextStep(run) = h.steps[run.done + 2]
  <2>1. run.done \in Nat /\ run.done + 1 \in DOMAIN h.steps /\ h.steps[run.done + 1] = Wait
    BY <1>1 DEF RunOK, Unfinished
  <2>2. (run.done + 1) + 1 \in DOMAIN h.steps
    BY <1>2, <2>1 DEF Waits
  <2>3. (run.done + 1) + 1 = run.done + 2
    BY <2>1
  <2> QED BY <1>1, <2>2, <2>3 DEF NextStep
<1>4. NextStep(run).events \subseteq TopicEvents(topic)
  BY <1>1, <1>3, StepEvents DEF RunOK, Of
<1>5. ASSUME NEW left \in After(run, run.done + IF NextStep(run) = Wait THEN 1 ELSE 2)
      PROVE  RunOK(left)
  <2> DEFINE done == run.done + IF NextStep(run) = Wait THEN 1 ELSE 2
  <2>1. left = [run EXCEPT !.done = done] /\ done < Len(h.steps) /\ done \in Nat
    BY <1>1, <1>5 DEF After, RunOK
  <2>2. done + 1 \in DOMAIN h.steps /\ h.steps[done + 1] = Wait
    <3> DEFINE s == h.steps
               d == run.done
    <3>1. /\ d \in Nat /\ d + 2 \in DOMAIN s /\ NextStep(run) = s[d + 2]
          /\ DOMAIN s = 1 .. Len(s) /\ Len(s) \in Nat
          /\ \A k \in DOMAIN s : s[k] # Wait /\ k + 1 \in DOMAIN s => s[k + 1] = Wait
      BY <1>1, <1>2, <1>3 DEF RunOK, Waits
    <3>2. CASE NextStep(run) = Wait
      <4>1. done = d + 1
        BY <3>2
      <4> HIDE DEF done, s, d
      <4>2. done + 1 = d + 2 /\ d + 2 \in DOMAIN s /\ s[d + 2] = Wait
        BY <3>1, <3>2, <4>1
      <4>3. done + 1 \in DOMAIN s /\ s[done + 1] = Wait
        BY <4>2
      <4> QED BY <4>3 DEF s
    <3>3. CASE NextStep(run) # Wait
      <4>1. done = d + 2 /\ d + 2 < Len(s)
        BY <2>1, <3>3
      <4> HIDE DEF done, s, d
      <4>2. d + 3 \in DOMAIN s /\ s[d + 2] # Wait
        BY <3>1, <3>3, <4>1
      <4>3. s[(d + 2) + 1] = Wait
        <5>1. (d + 2) + 1 \in DOMAIN s
          BY <3>1, <4>2
        <5> QED BY <3>1, <4>2, <5>1
      <4>4. done + 1 = (d + 2) + 1 /\ (d + 2) + 1 = d + 3
        BY <3>1, <4>1
      <4>5. done + 1 \in DOMAIN s /\ s[done + 1] = Wait
        BY <4>2, <4>3, <4>4
      <4> QED BY <4>5 DEF s
    <3> QED BY <3>2, <3>3
  <2>3. /\ left \in [message : 1 .. Len(log), handler : Nat, done : Nat]
        /\ left.message = run.message /\ left.handler = run.handler /\ left.done = done
    BY <1>1, <2>1 DEF RunOK
  <2>4. Steps(left) = h.steps
    BY <2>3 DEF Steps, Of
  <2> QED BY <1>1, <2>2, <2>3, <2>4 DEF RunOK
<1>6. /\ NextStep(run).events \subseteq AsyncEvents
      /\ \/ NextStep(run).events \cap ForeignEvents = {}
         \/ ForeignEvents \subseteq NextStep(run).events
  BY <1>2, <1>3 DEF Waits
<1> QED BY <1>1, <1>3, <1>4, <1>5, <1>6

LEMMA TypeInit == KafkaInit => TypeInv
BY DEF KafkaInit, TypeInv

LEMMA ShownType ==
  ASSUME TypeInv, NEW events, NEW n \in Nat, Show(events, n)
  PROVE  shown' \in [Events -> Nat]
BY DEF TypeInv, Show

LEMMA TypeStep == TypeInv /\ [KafkaNext]_kafkaVars => TypeInv'
<1> SUFFICES ASSUME TypeInv, [KafkaNext]_kafkaVars PROVE TypeInv'
  OBVIOUS
<1>1. ASSUME NEW topic \in Topics, Produce(topic) PROVE TypeInv'
  <2>1. PICK bad \in SUBSET Readers(topic) :
          log' = Append(log, [topic |-> topic, bad |-> bad])
    BY <1>1 DEF Produce
  <2>2. bad \in SUBSET Nat
    BY Numbered DEF Readers
  <2>3. /\ log' \in Seq([topic : Topics, bad : SUBSET Nat]) /\ Len(log') = Len(log) + 1
        /\ \A n \in 1 .. Len(log) : log'[n] = log[n]
    <3>1. [topic |-> topic, bad |-> bad] \in [topic : Topics, bad : SUBSET Nat]
      BY <2>2
    <3>2. log \in Seq([topic : Topics, bad : SUBSET Nat])
      BY DEF TypeInv
    <3> HIDE KafkaAssumption
    <3> QED BY <2>1, <3>1, <3>2
  <2>4. ASSUME NEW run \in running PROVE RunOK(run)'
    <3>1. RunOK(run)
      BY DEF TypeInv
    <3>2. run.message \in 1 .. Len(log) /\ log'[run.message] = log[run.message]
      BY <2>3, <3>1 DEF RunOK
    <3>3. Of(run.message)' = Of(run.message) /\ Steps(run)' = Steps(run)
      BY <3>2 DEF Of, Steps
    <3>4. run \in [message : 1 .. Len(log'), handler : Nat, done : Nat]
      BY <2>3, <3>1 DEF RunOK
    <3> QED BY <3>1, <3>2, <3>3, <3>4 DEF RunOK, Unfinished
  <2> QED BY <1>1, <2>3, <2>4 DEF Produce, TypeInv
<1>2. ASSUME Consume \/ ConsumeEarly PROVE TypeInv'
  <2>1. PICK failed : /\ read + 1 \in 1 .. Len(log) /\ read' = read + 1 /\ log' = log
                      /\ running' = running \cup Left(read + 1, failed)
    <3>1. read \in Nat /\ Len(log) \in Nat
      BY DEF TypeInv
    <3> QED BY <1>2, <3>1 DEF Consume, ConsumeEarly
  <2>2. \A run \in running' : RunOK(run)
    BY <2>1, LeftOK DEF TypeInv
  <2>3. \A run \in running' : RunOK(run)'
    BY <2>1, <2>2 DEF RunOK, Unfinished, Steps, Of
  <2>4. shown' \in [Events -> Nat]
    <3>1. CASE ConsumeEarly
      BY <3>1 DEF ConsumeEarly, TypeInv
    <3>2. CASE Consume
      <4>1. PICK some : Show(AtOnce(read + 1) \cup some, read + 1)
        BY <3>2 DEF Consume
      <4> QED BY <2>1, <4>1, ShownType
    <3> QED BY <1>2, <3>1, <3>2
  <2> QED BY <1>2, <2>1, <2>3, <2>4 DEF Consume, ConsumeEarly, TypeInv
<1>3. ASSUME NEW run \in running, GoOn(run) PROVE TypeInv'
  <2>1. \A left \in running' : RunOK(left)
    BY <1>3, NextStepOK DEF GoOn, TypeInv, Unfinished
  <2>2. \A left \in running' : RunOK(left)'
    BY <1>3, <2>1 DEF GoOn, RunOK, Unfinished, Steps, Of
  <2>3. shown' \in [Events -> Nat]
    BY <1>3, ShownType DEF GoOn, TypeInv, RunOK
  <2> QED BY <1>3, <2>2, <2>3 DEF GoOn, TypeInv
<1>4. ASSUME Crash PROVE TypeInv'
  BY <1>4 DEF Crash, TypeInv
<1>5. CASE Commit \/ Restart \/ GatewayUp \/ UNCHANGED kafkaVars
  <2>1. UNCHANGED <<log, running, shown>>
    BY <1>5 DEF Commit, Restart, GatewayUp, kafkaVars
  <2>2. \A run \in running' : RunOK(run)'
    BY <2>1 DEF TypeInv, RunOK, Unfinished, Steps, Of
  <2> QED BY <1>5, <2>1, <2>2 DEF Commit, Restart, GatewayUp, kafkaVars, TypeInv
<1> QED BY <1>1, <1>2, <1>3, <1>4, <1>5 DEF KafkaNext, Reject

\* The counters stay in the log; what runs is a handler of its message, and waits only in
\* one of the two topics whose handlers wait.
THEOREM TypeCorrect == KafkaSpec => []TypeInv
  BY TypeInit, TypeStep, PTL DEF KafkaSpec

-------------------------------------------------------------------------------
(* What clients see *)

\* The topics whose handlers wait share no event with the others.
LEMMA EventsApart ==
  ASSUME NEW topic \in DOMAIN Handlers \ AsyncTopics
  PROVE  TopicEvents(topic) \cap AsyncEvents = {}
<1> SUFFICES ASSUME NEW i \in DOMAIN Handlers[topic],
                    NEW k \in DOMAIN Handlers[topic][i].steps
             PROVE  Handlers[topic][i].steps[k].events \cap AsyncEvents = {}
  BY DEF TopicEvents, EventsOf
<1>1. OneShot(Handlers[topic][i])
  BY HandlerTable
<1> QED BY <1>1 DEF OneShot

LEMMA AsyncApart ==
  ASSUME NEW topic \in DOMAIN Handlers \cap AsyncTopics
  PROVE  TopicEvents(topic) \subseteq AsyncEvents
<1> SUFFICES ASSUME NEW i \in DOMAIN Handlers[topic],
                    NEW k \in DOMAIN Handlers[topic][i].steps
             PROVE  Handlers[topic][i].steps[k].events \subseteq AsyncEvents
  BY DEF TopicEvents, EventsOf
<1>1. Waits(Handlers[topic][i])
  BY HandlerTable
<1> QED BY <1>1 DEF Waits

LEMMA SyncEventsApart == SyncEvents \subseteq Events /\ SyncEvents \cap AsyncEvents = {}
BY EventsApart DEF SyncEvents, Events, AsyncTopics

\* What a message has emitted when the consumer goes on to the next: what it owes, of the
\* events that are emitted at once, and none of the others.
LEMMA EmittedAtOnce ==
  ASSUME TypeInv, NEW n \in 1 .. Len(log)
  PROVE  /\ SyncEvents \cap AtOnce(n) = Due(n)
         /\ AsyncEvents \cap (AtOnce(n) \cup Partly(n)) = {}
<1> DEFINE topic == log[n].topic
<1>1. topic \in DOMAIN Handlers /\ Of(n) = Handlers[topic]
  BY TopicOfMessage DEF Of
<1>2. Sound(n) \subseteq DOMAIN Of(n) /\ Called(n) \subseteq DOMAIN Of(n)
  BY DEF Sound, Called
<1>3. CASE topic \in AsyncTopics
  <2>1. \A i \in DOMAIN Of(n) : Of(n)[i].steps[1].events = {}
    BY <1>1, <1>3, HandlerTable DEF Waits, Wait
  <2>2. AtOnce(n) = {} /\ Partly(n) = {}
    BY <1>2, <2>1 DEF AtOnce, Partly
  <2>3. \A i \in DOMAIN Of(n) : EventsOf(Of(n)[i]) \subseteq AsyncEvents
    BY <1>1, <1>3, AsyncApart DEF TopicEvents
  <2>4. Due(n) = {}
    BY <1>2, <2>3, SyncEventsApart DEF Due
  <2> QED BY <2>2, <2>4
<1>4. CASE topic \notin AsyncTopics
  <2>1. \A i \in DOMAIN Of(n) : OneShot(Of(n)[i])
    BY <1>1, <1>4, HandlerTable
  <2>2. \A i \in DOMAIN Of(n) : /\ EventsOf(Of(n)[i]) = Of(n)[i].steps[1].events
                                /\ Of(n)[i].steps[1].events \cap AsyncEvents = {}
    BY <2>1 DEF EventsOf, OneShot
  <2>3. SyncEvents \cap AtOnce(n) = Due(n)
    BY <1>2, <2>2 DEF AtOnce, Due
  <2>4. AsyncEvents \cap (AtOnce(n) \cup Partly(n)) = {}
    BY <1>2, <2>2 DEF AtOnce, Partly
  <2> QED BY <2>3, <2>4
<1> QED BY <1>3, <1>4

\* What a message owes is fixed when it is written.
LEMMA DueStays ==
  ASSUME NEW n, log'[n] = log[n]
  PROVE  Due(n)' = Due(n) /\ Partly(n)' = Partly(n)
BY DEF Due, Partly, Sound, Called, Of

\* The messages that owe event e and were consumed since the gateway came up.
Seen(e) == {n \in (upFrom + 1) .. read : e \in Due(n)}

\* SyncShowsLatest, without Max.
Latest(e) ==
  Seen(e) # {} =>
    \E m \in Seen(e) : /\ \A n \in Seen(e) : n <= m
                       /\ \/ shown[e] = m
                          \/ shown[e] \in {n \in (m + 1) .. read : e \in Partly(n)}

LatestInv == process = "up" => upFrom <= read /\ \A e \in SyncEvents : Latest(e)

LEMMA LatestStep == TypeInv /\ LatestInv /\ [KafkaNext]_kafkaVars => LatestInv'
<1> SUFFICES ASSUME TypeInv, LatestInv, [KafkaNext]_kafkaVars, process' = "up"
             PROVE  upFrom' <= read' /\ \A e \in SyncEvents : Latest(e)'
  BY DEF LatestInv
<1>0. read \in Nat /\ upFrom \in Nat /\ read <= Len(log) /\ shown \in [Events -> Nat]
  BY DEF TypeInv
<1>1. ASSUME NEW topic \in Topics, Produce(topic)
      PROVE  upFrom' <= read' /\ \A e \in SyncEvents : Latest(e)'
  <2>1. \A n \in 1 .. Len(log) : log'[n] = log[n]
    BY <1>1 DEF Produce, TypeInv
  <2>2. \A n \in 1 .. read : Due(n)' = Due(n) /\ Partly(n)' = Partly(n)
    BY <1>0, <2>1, DueStays
  <2>3. UNCHANGED <<process, upFrom, read, shown>>
    BY <1>1 DEF Produce
  <2>4. ASSUME NEW e \in SyncEvents PROVE Latest(e)'
    <3>1. Seen(e)' = Seen(e)
      BY <1>0, <2>2, <2>3 DEF Seen
    <3>2. \A m \in Seen(e) : {n \in (m + 1) .. read' : e \in Partly(n)'}
                               = {n \in (m + 1) .. read : e \in Partly(n)}
      BY <1>0, <2>2, <2>3 DEF Seen
    <3>3. Latest(e)
      BY <2>3 DEF LatestInv
    <3> QED BY <2>3, <3>1, <3>2, <3>3 DEF Latest
  <2> QED BY <2>3, <2>4 DEF LatestInv
<1>2. CASE Consume
  <2> DEFINE m == read + 1
  <2>1. PICK some \in SUBSET Partly(m) : Show(AtOnce(m) \cup some, m)
    BY <1>2 DEF Consume
  <2>2. /\ m \in 1 .. Len(log) /\ read' = m /\ log' = log /\ upFrom' = upFrom
        /\ process = "up" /\ upFrom <= read
    BY <1>0, <1>2 DEF Consume, LatestInv
  <2>3. \A n : Due(n)' = Due(n) /\ Partly(n)' = Partly(n)
    BY <2>2, DueStays
  <2>4. ASSUME NEW e \in SyncEvents PROVE Latest(e)'
    <3>1. e \in Events /\ (e \in AtOnce(m) <=> e \in Due(m))
      BY <2>2, SyncEventsApart, EmittedAtOnce
    <3>2. Latest(e)
      BY <2>2 DEF LatestInv
    <3>3. CASE e \in Due(m)
      <4>1. shown'[e] = m
        BY <2>1, <3>1, <3>3 DEF Show
      <4>2. m \in Seen(e)' /\ \A n \in Seen(e)' : n <= m
        BY <1>0, <2>2, <2>3, <3>3 DEF Seen
      <4> QED BY <4>1, <4>2 DEF Latest
    <3>4. CASE e \notin Due(m)
      <4>1. Seen(e)' = Seen(e)
        BY <1>0, <2>2, <2>3, <3>4 DEF Seen
      <4>2. \/ shown'[e] = shown[e]
            \/ shown'[e] = m /\ e \in Partly(m)
        BY <2>1, <3>1, <3>4 DEF Show
      <4>3. ASSUME Seen(e)' # {} PROVE
              \E k \in Seen(e)' : /\ \A n \in Seen(e)' : n <= k
                                  /\ \/ shown'[e] = k
                                     \/ shown'[e] \in {n \in (k + 1) .. read' : e \in Partly(n)'}
        <5>1. PICK k \in Seen(e) : /\ \A n \in Seen(e) : n <= k
                                   /\ \/ shown[e] = k
                                      \/ shown[e] \in {n \in (k + 1) .. read : e \in Partly(n)}
          BY <3>2, <4>1, <4>3 DEF Latest
        <5>2. k \in Nat /\ k <= read
          BY <1>0, <5>1 DEF Seen
        <5>3. {n \in (k + 1) .. read : e \in Partly(n)}
                \subseteq {n \in (k + 1) .. read' : e \in Partly(n)'}
          BY <1>0, <2>2, <2>3, <5>2
        <5>4. e \in Partly(m) => m \in {n \in (k + 1) .. read' : e \in Partly(n)'}
          BY <1>0, <2>2, <2>3, <5>2
        <5> QED BY <4>1, <4>2, <5>1, <5>3, <5>4
      <4> QED BY <4>3 DEF Latest
    <3> QED BY <3>3, <3>4
  <2> QED BY <1>0, <2>2, <2>4
<1>3. ASSUME NEW run \in running, GoOn(run)
      PROVE  upFrom' <= read' /\ \A e \in SyncEvents : Latest(e)'
  <2>1. UNCHANGED <<process, log, read, upFrom>> /\ Show(NextStep(run).events, run.message)
    BY <1>3 DEF GoOn
  <2>2. \A e \in SyncEvents : shown'[e] = shown[e]
    BY <1>3, <2>1, NextStepOK, SyncEventsApart DEF GoOn, Unfinished, Show
  <2>3. \A n : Due(n)' = Due(n) /\ Partly(n)' = Partly(n)
    BY <2>1, DueStays
  <2> QED BY <2>1, <2>2, <2>3 DEF LatestInv, Latest, Seen
<1>4. CASE Commit \/ UNCHANGED kafkaVars
  <2>1. UNCHANGED <<process, log, read, upFrom, shown>>
    BY <1>4 DEF Commit, kafkaVars
  <2>2. \A n : Due(n)' = Due(n) /\ Partly(n)' = Partly(n)
    BY <2>1, DueStays
  <2> QED BY <2>1, <2>2 DEF LatestInv, Latest, Seen
<1>5. CASE GatewayUp
  <2>1. upFrom' = read' /\ \A e \in SyncEvents : Seen(e)' = {}
    BY <1>0, <1>5 DEF GatewayUp, Seen
  <2> QED BY <1>0, <1>5, <2>1 DEF GatewayUp, Latest
<1>6. ~(ConsumeEarly \/ Crash \/ Restart)
  BY DEF ConsumeEarly, Crash, Restart
<1> QED BY <1>1, <1>2, <1>3, <1>4, <1>5, <1>6 DEF KafkaNext, Reject

LEMMA MaxIs ==
  ASSUME NEW S \in SUBSET Nat, NEW m \in S, \A n \in S : n <= m
  PROVE  Max(S) = m
<1>1. \E x \in S : \A y \in S : x >= y
  OBVIOUS
<1>2. Max(S) \in S /\ \A y \in S : Max(S) >= y
  BY <1>1 DEF Max
<1>3. Max(S) \in Nat /\ m \in Nat /\ Max(S) >= m /\ Max(S) <= m
  BY <1>2
<1> QED BY <1>3

\* Of an event whose handler awaits nothing, clients see the last message consumed since
\* the gateway came up that its handler could read, whatever the other topics' handlers
\* are at and whatever is malformed.
THEOREM ShowsLatest == KafkaSpec => []SyncShowsLatest
<1>1. KafkaInit => LatestInv
  BY DEF KafkaInit, LatestInv
<1>2. TypeInv /\ LatestInv => SyncShowsLatest
  <2> SUFFICES ASSUME TypeInv, LatestInv, process = "up", NEW e \in SyncEvents, Seen(e) # {}
               PROVE  \/ shown[e] = Max(Seen(e))
                      \/ shown[e] \in {n \in (Max(Seen(e)) + 1) .. read : e \in Partly(n)}
    BY DEF SyncShowsLatest, Seen
  <2>1. Seen(e) \in SUBSET Nat
    BY DEF Seen, TypeInv
  <2>2. PICK m \in Seen(e) : /\ \A n \in Seen(e) : n <= m
                             /\ \/ shown[e] = m
                                \/ shown[e] \in {n \in (m + 1) .. read : e \in Partly(n)}
    BY DEF LatestInv, Latest
  <2>3. Max(Seen(e)) = m
    BY <2>1, <2>2, MaxIs
  <2> QED BY <2>2, <2>3
<1> QED BY <1>1, <1>2, LatestStep, TypeCorrect, PTL DEF KafkaSpec

(* CommittedWasShown, of all that was consumed. *)
ShownInv ==
  /\ committed <= read
  /\ \A n \in 1 .. read : n \in missed \/ \A e \in Due(n) : shown[e] >= n

LEMMA ShownStep == TypeInv /\ ShownInv /\ [KafkaNext]_kafkaVars => ShownInv'
<1> SUFFICES ASSUME TypeInv, ShownInv, [KafkaNext]_kafkaVars PROVE ShownInv'
  OBVIOUS
<1>0. /\ read \in Nat /\ read <= Len(log) /\ committed \in Nat /\ committed <= read
      /\ shown \in [Events -> Nat]
      /\ \A n : Due(n) \subseteq Events
  BY SyncEventsApart DEF TypeInv, ShownInv, Due
<1>1. ASSUME UNCHANGED <<missed, shown>>, read' \in Nat, read' <= read, committed' <= read',
             \A n \in 1 .. Len(log) : log'[n] = log[n]
      PROVE  ShownInv'
  <2>1. \A n \in 1 .. read' : n \in 1 .. read /\ Due(n)' = Due(n)
    BY <1>0, <1>1, DueStays
  <2> QED BY <1>1, <2>1 DEF ShownInv
<1>2. ASSUME NEW topic \in Topics, Produce(topic) PROVE ShownInv'
  <2>1. \A n \in 1 .. Len(log) : log'[n] = log[n]
    BY <1>2 DEF Produce, TypeInv
  <2> QED BY <1>0, <1>1, <1>2, <2>1 DEF Produce
<1>3. CASE Consume
  <2> DEFINE m == read + 1
  <2>1. PICK some \in SUBSET Partly(m) : Show(AtOnce(m) \cup some, m)
    BY <1>3 DEF Consume
  <2>2. /\ m \in 1 .. Len(log) /\ read' = m /\ log' = log /\ committed' = committed
        /\ missed' = missed \ {m}
    BY <1>0, <1>3 DEF Consume
  <2>3. \A n : Due(n)' = Due(n)
    BY <2>2, DueStays
  <2>4. \A e \in Events : shown'[e] = m \/ shown'[e] = shown[e]
    BY <2>1 DEF Show
  <2>5. \A e \in Due(m) : shown'[e] = m
    BY <1>0, <2>1, <2>2, EmittedAtOnce DEF Show
  <2>6. ASSUME NEW n \in 1 .. m, n \notin missed', NEW e \in Due(n) PROVE shown'[e] >= n
    <3>1. CASE n = m
      BY <1>0, <2>5, <2>6, <3>1
    <3>2. CASE n # m
      <4>1. n \in 1 .. read /\ n \notin missed
        BY <1>0, <2>2, <2>6, <3>2
      <4>2. shown[e] >= n /\ e \in Events /\ n <= m
        BY <1>0, <2>6, <4>1 DEF ShownInv
      <4> QED BY <1>0, <2>4, <4>2
    <3> QED BY <3>1, <3>2
  <2> QED BY <1>0, <2>2, <2>3, <2>6 DEF ShownInv
<1>4. CASE ConsumeEarly
  <2>1. /\ read' = read + 1 /\ log' = log /\ UNCHANGED <<committed, shown>>
        /\ missed' = missed \cup {read + 1}
    BY <1>4 DEF ConsumeEarly
  <2>2. \A n : Due(n)' = Due(n)
    BY <2>1, DueStays
  <2>3. \A n \in 1 .. read' : n \in 1 .. read \/ n \in missed'
    BY <1>0, <2>1
  <2> QED BY <1>0, <2>1, <2>2, <2>3 DEF ShownInv
<1>5. ASSUME NEW run \in running, GoOn(run) PROVE ShownInv'
  <2>1. UNCHANGED <<log, read, committed, missed>> /\ Show(NextStep(run).events, run.message)
    BY <1>5 DEF GoOn
  <2>2. \A e \in SyncEvents : shown'[e] = shown[e]
    BY <1>5, <2>1, NextStepOK, SyncEventsApart DEF GoOn, Unfinished, Show
  <2>3. \A n : Due(n)' = Due(n) /\ Due(n) \subseteq SyncEvents
    BY <2>1, DueStays DEF Due
  <2> QED BY <2>1, <2>2, <2>3 DEF ShownInv
<1>6. CASE Crash \/ Commit \/ Restart \/ GatewayUp \/ UNCHANGED kafkaVars
  <2>1. /\ UNCHANGED <<log, missed, shown>> /\ read' \in Nat /\ read' <= read
        /\ committed' <= read'
    BY <1>0, <1>6 DEF Crash, Commit, Restart, GatewayUp, kafkaVars
  <2> QED BY <1>1, <2>1
<1> QED BY <1>2, <1>3, <1>4, <1>5, <1>6 DEF KafkaNext, Reject

\* Whatever fails and however often the process is started again: of a message that will
\* not be sent again, clients have seen what it owed them, or there was no gateway.
THEOREM NothingIsSkipped == KafkaSpec => []CommittedWasShown
<1>1. KafkaInit => ShownInv
  BY DEF KafkaInit, ShownInv
<1>2. TypeInv /\ ShownInv => CommittedWasShown
  BY DEF TypeInv, ShownInv, CommittedWasShown
<1> QED BY <1>1, <1>2, ShownStep, TypeCorrect, PTL DEF KafkaSpec

LEMMA TogetherStep ==
  TypeInv /\ ForeignTogether /\ [KafkaNext]_kafkaVars => ForeignTogether'
<1> SUFFICES ASSUME TypeInv, ForeignTogether, [KafkaNext]_kafkaVars,
                    NEW e \in ForeignEvents \cap Events, NEW f \in ForeignEvents \cap Events
             PROVE  shown'[e] = shown'[f]
  BY DEF ForeignTogether
<1>0. shown[e] = shown[f] /\ e \in AsyncEvents /\ f \in AsyncEvents
  BY DEF ForeignTogether, AsyncEvents
<1>1. CASE Consume
  <2>1. PICK some \in SUBSET Partly(read + 1) : Show(AtOnce(read + 1) \cup some, read + 1)
    BY <1>1 DEF Consume
  <2>2. read + 1 \in 1 .. Len(log)
    BY <1>1 DEF Consume, TypeInv
  <2>3. e \notin AtOnce(read + 1) \cup some /\ f \notin AtOnce(read + 1) \cup some
    BY <1>0, <2>2, EmittedAtOnce
  <2> QED BY <1>0, <2>1, <2>3 DEF Show
<1>2. ASSUME NEW run \in running, GoOn(run) PROVE shown'[e] = shown'[f]
  BY <1>0, <1>2, NextStepOK DEF GoOn, Unfinished, Show
<1>3. ASSUME UNCHANGED shown PROVE shown'[e] = shown'[f]
  BY <1>0, <1>3
<1> QED
  BY <1>1, <1>2, <1>3
  DEF KafkaNext, Produce, ConsumeEarly, Reject, Crash, Commit, Restart,
      GatewayUp, kafkaVars

\* The six lists of foreign trade are of one message, however the handlers of several
\* messages overlap: they are emitted between two awaits.
THEOREM ForeignOfOneMessage == KafkaSpec => []ForeignTogether
<1>1. KafkaInit => ForeignTogether
  BY DEF KafkaInit, ForeignTogether
<1> QED BY <1>1, TogetherStep, TypeCorrect, PTL DEF KafkaSpec
===============================================================================
