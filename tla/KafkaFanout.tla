----------------------------- MODULE KafkaFanout ------------------------------
(***************************************************************************)
(* From Kafka to the browsers: KafkaConsumer hands the messages of its     *)
(* topics to KafkaService, which emits events on the socket server that    *)
(* SocketGateway has put into global._server.  The consumer starts before  *)
(* the gateway does, calls the handlers without awaiting them, and         *)
(* processes the messages of all topics one after the other.               *)
(*                                                                         *)
(* A message is its offset in the log, its topic and which handlers find   *)
(* its payload malformed.  What clients see of an event is the offset of   *)
(* the message it was last emitted for.                                    *)
(* A definition marked "Mistake" is a wrong version of the next one, used  *)
(* only to see that a property would catch it.                             *)
(***************************************************************************)
EXTENDS Integers, Sequences, FiniteSets, FiniteSetsExt

CONSTANTS Topics,     \* the topics that have messages
          MaxLog,     \* bound: messages there ever are
          MaxCrashes  \* bound: how often the process ends

(* A handler is what it does between one await and the next, and how it reads the
   payload: not at all, whole before it emits, or item by item as it emits.  An error
   of a handler that is not async is caught by the consumer, which then skips the other
   handlers of the message; one of an async handler is a promise that is rejected and
   that nobody waits for. *)
Wait == [op |-> "wait", events |-> {}]
Emit(events) == [op |-> "emit", events |-> events]
Sync(reads, events) == [async |-> FALSE, reads |-> reads, steps |-> <<Emit(events)>>]
Async(reads, steps) == [async |-> TRUE, reads |-> reads, steps |-> steps]

handleMarketBreadth      == Sync("whole", {"DoRongThiTruong"})
handleMarketBreadthHNX   == Sync("whole", {"DoRongThiTruongHNX"})
\* Mistake: a lookup is awaited first.
LiquidityLooksUp == Async("nothing", <<Wait, Emit({"ThanhKhoanPhienHienTai"})>>)
handleMarketLiquidityNow == Sync("nothing", {"ThanhKhoanPhienHienTai"})
handleDomesticIndex      == Sync("whole", {"ChiSoTrongNuoc"})
handleDomesticIndex2     == Sync("whole", {"ChiSoTrongNuoc2"})
handleMarketVolatility   == Sync("whole", {"BienDongThiTruong"})
handleStockValue         == Sync("whole", {"PhanBoDongTien"})
(* One event per index of the payload. *)
handleLineChart == Sync("items", {"ChiSoVnIndex", "ChiSoVNAll", "ChiSoVN30",
                                  "ChiSoHNX30", "ChiSoHNX", "ChiSoUPCOM"})
handleChartNen  == Sync("items", {"CoPhieu"})
(* Async, though it awaits nothing; it catches its errors and throws them again. *)
handleTickerContribute ==
  Async("whole", <<Emit({"HsxTickerContribute0", "HnxTickerContribute0", "VN30TickerContribute0"})>>)

(* Dates and queries one after the other, and a single event. *)
handleIndustry == Async("nothing", <<Wait, Wait, Emit({"PhanNganh"})>>)
(* A query and an event for each floor. *)
handleIndustryFloor ==
  Async("nothing", <<Wait, Wait, Emit({"PhanNganhHOSE"}), Wait, Emit({"PhanNganhHNX"}),
                     Wait, Emit({"PhanNganhUPCOM"})>>)

ForeignEvents == {"ForeignBuyHSX", "ForeignBuyHNX", "ForeignBuyUPCOM",
                  "ForeignSellHSX", "ForeignSellHNX", "ForeignSellUPCOM"}
\* Mistake: each list is sent as soon as it is there.
ForeignAsReady == Async("whole", <<Wait, Emit({"ForeignBuyHSX"}), Wait,
                                   Emit(ForeignEvents \ {"ForeignBuyHSX"})>>)
(* Six lookups of the industries, the later of which find the first in redis. *)
handleForeign == Async("whole", <<Wait, Wait, Emit(ForeignEvents)>>)
(* The lists of an exchange's stocks are not in redis: the events are empty. *)
handleTopForeign ==
  Async("whole", <<Wait, Emit({"TopForeignHOSE", "TopForeignHNX", "TopForeignUPCOM"})>>)

(* What KafkaConsumer calls for a message, in this order; for one of TickerChange
   nothing, the calls being commented out. *)
Handlers ==
  [DoRongThiTruong        |-> <<handleMarketBreadth>>,
   DoRongThiTruongHNX     |-> <<handleMarketBreadthHNX>>,
   ThanhKhoanPhienHienTai |-> <<handleMarketLiquidityNow>>,
   PhanNganh              |-> <<handleIndustry, handleIndustryFloor>>,
   ChiSoTrongNuoc         |-> <<handleDomesticIndex, handleMarketVolatility>>,
   LineChart              |-> <<handleLineChart>>,
   StockValue             |-> <<handleStockValue>>,
   TickerChange           |-> <<>>,
   Foreign                |-> <<handleForeign, handleTopForeign>>,
   ChiSoTrongNuoc2        |-> <<handleDomesticIndex2>>,
   CoPhieuAnhHuong        |-> <<handleTickerContribute>>,
   ChartNenCoPhieu        |-> <<handleChartNen>>]

ASSUME KafkaAssumption ==
  /\ Topics \subseteq DOMAIN Handlers
  /\ MaxLog \in Nat /\ MaxCrashes \in Nat

EventsOf(handler) == UNION {handler.steps[i].events : i \in DOMAIN handler.steps}
TopicEvents(topic) == UNION {EventsOf(Handlers[topic][i]) : i \in DOMAIN Handlers[topic]}
Readers(topic) == {i \in DOMAIN Handlers[topic] : Handlers[topic][i].reads # "nothing"}
Events == UNION {TopicEvents(topic) : topic \in Topics}

VARIABLES process,    \* "down", "starting" (consuming, no gateway yet) or "up"
          log,        \* the messages: topic, handlers the payload is malformed for
          read,       \* messages consumed
          committed,  \* messages whose offset is committed
          running,    \* handlers that wait, or whose rejection nobody waits for: message,
                      \* index of the handler, steps done
          shown,      \* what clients last saw of each event
          upFrom,     \* messages consumed when the gateway came up
          missed,     \* those that were consumed, the last time, without a gateway
          crashes

kafkaVars == <<process, log, read, committed, running, shown, upFrom, missed, crashes>>

KafkaInit ==
  /\ process = "starting"
  /\ log = <<>> /\ read = 0 /\ committed = 0 /\ upFrom = 0 /\ crashes = 0
  /\ running = {} /\ missed = {}
  /\ shown = [e \in Events |-> 0]

Show(events, n) == shown' = [e \in Events |-> IF e \in events THEN n ELSE shown[e]]

(* An unhandled rejection: node ends the process, with all that it was doing. *)
Crash ==
  /\ process' = "down"
  /\ running' = {}
  /\ crashes' = crashes + 1
  /\ UNCHANGED <<log, read, committed, shown, upFrom, missed>>

Produce(topic) ==
  /\ Len(log) < MaxLog
  /\ \E bad \in SUBSET Readers(topic) : log' = Append(log, [topic |-> topic, bad |-> bad])
  /\ UNCHANGED <<process, read, committed, running, shown, upFrom, missed, crashes>>

(* What a message comes to: the handlers that are called, those among them that its
   payload is no error for, the events they emit at once, and those of which a handler
   may have emitted some when it comes upon a malformed item. *)
Of(n) == Handlers[log[n].topic]
Called(n) == {i \in DOMAIN Of(n) : \A j \in log[n].bad : j < i => Of(n)[j].async}
Sound(n) == Called(n) \ log[n].bad
AtOnce(n) == UNION {Of(n)[i].steps[1].events : i \in Sound(n)}
Partly(n) ==
  UNION {Of(n)[i].steps[1].events :
           i \in {i \in Called(n) \cap log[n].bad : Of(n)[i].reads = "items"}}

(* The handlers that wait when the consumer goes on to the next message, and the async
   ones that have failed: these end the process once what is queued before the
   rejection, perhaps the next messages, has been worked off. *)
Left(n, failed) ==
  {[message |-> n, handler |-> i, done |-> 0] :
     i \in {i \in Called(n) : Of(n)[i].steps[1] = Wait \/ (Of(n)[i].async /\ i \in failed)}}

Consume ==
  /\ process = "up" /\ read < Len(log)
  /\ read' = read + 1
  /\ running' = running \cup Left(read + 1, log[read + 1].bad)
  /\ \E some \in SUBSET Partly(read + 1) : Show(AtOnce(read + 1) \cup some, read + 1)
  /\ missed' = missed \ {read + 1}
  /\ UNCHANGED <<process, log, committed, upFrom, crashes>>

(* global._server is not set: what is emitted is an error, which the consumer logs or
   which is the rejection of an async handler. *)
ConsumeEarly ==
  /\ process = "starting" /\ read < Len(log)
  /\ read' = read + 1
  /\ running' = running \cup Left(read + 1, DOMAIN Of(read + 1))
  /\ missed' = missed \cup {read + 1}
  /\ UNCHANGED <<process, log, committed, shown, upFrom, crashes>>

(* What a handler has waited for is there: it goes on to its next await, emitting
   what there is to emit. *)
Steps(run) == Of(run.message)[run.handler].steps
NextStep(run) == Steps(run)[run.done + 2]
After(run, done) ==
  IF done < Len(Steps(run)) THEN {[run EXCEPT !.done = done]} ELSE {}

GoOn(run) ==
  /\ run \in running
  /\ Steps(run)[run.done + 1] = Wait
  /\ \/ NextStep(run) = Wait
     \/ process = "up" /\ run.handler \notin log[run.message].bad
  /\ running' = (running \ {run})
                  \cup After(run, run.done + IF NextStep(run) = Wait THEN 1 ELSE 2)
  /\ Show(NextStep(run).events, run.message)
  /\ UNCHANGED <<process, log, read, committed, upFrom, missed, crashes>>

(* An await of it has failed, its payload is malformed, or there is nothing to emit on. *)
Reject(run) ==
  /\ run \in running /\ crashes < MaxCrashes
  /\ Crash

(* The offsets of what was consumed are committed now and then. *)
Commit ==
  /\ process # "down" /\ committed # read
  /\ committed' = read
  /\ UNCHANGED <<process, log, read, running, shown, upFrom, missed, crashes>>

(* The consumer group resumes after the last committed offset. *)
Restart ==
  /\ process = "down"
  /\ process' = "starting"
  /\ read' = committed
  /\ UNCHANGED <<log, committed, running, shown, upFrom, missed, crashes>>

\* afterInit
GatewayUp ==
  /\ process = "starting"
  /\ process' = "up"
  /\ upFrom' = read
  /\ UNCHANGED <<log, read, committed, running, shown, missed, crashes>>

KafkaNext ==
  \/ \E topic \in Topics : Produce(topic)
  \/ Consume \/ ConsumeEarly
  \/ \E run \in running : GoOn(run) \/ Reject(run)
  \/ Commit \/ Restart \/ GatewayUp

KafkaSpec == KafkaInit /\ [][KafkaNext]_kafkaVars

-------------------------------------------------------------------------------
(* The topics whose handlers await nothing, and the events that a message owes the
   clients: those of the handlers that are called and can read its payload. *)
SyncEvents ==
  UNION {TopicEvents(topic) : topic \in
           Topics \ {"PhanNganh", "Foreign"}}
Due(n) == SyncEvents \cap UNION {EventsOf(Of(n)[i]) : i \in Sound(n)}

(* While the gateway is up, clients have seen the last message of each event that was
   consumed since it came up, or a later one that was malformed further on.  Nothing is
   skipped, and nothing older is shown over something newer. *)
SyncShowsLatest ==
  process = "up" =>
    \A e \in SyncEvents :
      LET seen == {n \in (upFrom + 1)..read : e \in Due(n)}
      IN seen # {} =>
           \/ shown[e] = Max(seen)
           \/ shown[e] \in {n \in (Max(seen) + 1)..read : e \in Partly(n)}

(* What the consumer group will not send again has been seen: of a message whose offset
   is committed, clients have seen each event it owes them, or a later one, unless there
   was no gateway when it came.  A restart repeats messages and skips none. *)
CommittedWasShown ==
  \A n \in 1..committed :
    n \in missed \/ \A e \in Due(n) : shown[e] >= n

(* The six lists of foreign trade that clients see are of one message, however the
   handlers of several overlap. *)
ForeignTogether ==
  \A e, f \in ForeignEvents \cap Events : shown[e] = shown[f]
===============================================================================
