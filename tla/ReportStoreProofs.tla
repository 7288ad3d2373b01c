--------------------------- MODULE ReportStoreProofs ---------------------------
(***************************************************************************)
(* Proofs about ReportStore, for any requests, any ids of news, any number *)
(* of saves and uploads and a clock that runs as long as one likes.        *)
(***************************************************************************)
EXTENDS ReportStore, SequenceTheorems, TLAPS

USE ReportAssumption

(* Types *)

Keys == {"morning-news-international", "morning-news-domestic", "morning-news-enterprise", "",
         "save-identify-market", "save-market-movements", "save-market-comment",
         "save-stock-recommend", "save-stock-sell-recommend", "image-report"}
Works == {"none", "saveNews", "saveIdentifyMarket", "saveMarketMovements", "saveMarketComment",
          "saveStockRecommend", "uploadImageReport", "getNews", "identifyMarketRedis",
          "afternoonReport1", "afternoonReport2"}
Values == [save : Nat, id : Nat]
Cmds == [op : {"get", "set"}, key : Keys, value : Values]
Steps == [to : {"redis"}, commands : Seq(Cmds)] \cup [to : {"minio"}, name : Nat]
           \cup [to : {"mssql"}]
Entries == [r : Requests, command : Cmds]

TypeInv ==
  /\ \A key \in DOMAIN slots : slots[key] \in Values
  /\ sent \in Seq(Entries) /\ replies \in Seq(Entries)
  /\ requests \in [Requests -> [work : Works, todo : Seq(Steps),
                                got : SUBSET (Keys \X Values)]]
  /\ saves \in Nat /\ seconds \in Nat /\ cut \in BOOLEAN

-------------------------------------------------------------------------------
(* What is left of the handlers' lists *)

Redis(commands) == [to |-> "redis", commands |-> commands]
Upload(name) == [to |-> "minio", name |-> name]
Ask == [to |-> "mssql"]

\* The commands that are sent alone, by requests that do nothing after them.
Plain(c) ==
  \/ \E id \in NewsIds : c = Get(NewsKey(id)) \/ \E n \in 0 .. saves : c = Set(NewsKey(id), n, id)
  \/ \E key \in {"save-identify-market", "save-market-movements", "save-market-comment"} :
       \E n \in 0 .. saves : c = Set(key, n, 0)
  \/ c = Get("image-report")

ThreeGets == <<Get("save-identify-market"), Get(Buy), Get(Sell)>>
SetBuy(n) == Redis(<<Set(Buy, n, 0)>>)
SetSell(n) == Redis(<<Set(Sell, n, 0)>>)
SetImage(now) == Redis(<<Set("image-report", now, 0)>>)

PlainPlan(q) == q.work \notin {"none", "saveStockRecommend", "uploadImageReport"}
                  /\ \E c \in Cmds : Plain(c) /\ q.todo = <<Redis(<<c>>)>>
ThreePlan(q) == q.work = "identifyMarketRedis" /\ q.todo = <<Redis(ThreeGets)>>
StockPlan(q) == q.work = "saveStockRecommend" /\ \E n \in 1 .. saves :
                  q.todo = <<SetBuy(n), SetSell(n)>> \/ q.todo = <<SetSell(n)>>
AfternoonPlan(q) ==
  /\ q.work \in {"afternoonReport1", "afternoonReport2"}
  /\ \/ q.todo = <<Redis(<<Get("save-market-movements")>>), Ask>>
     \/ q.todo = <<Ask>>
     \/ q.todo = <<Ask, Redis(<<Get("save-market-comment")>>), Redis(<<Get("image-report")>>)>>
     \/ q.todo = <<Redis(<<Get("save-market-comment")>>), Redis(<<Get("image-report")>>)>>
UploadPlan(q) ==
  /\ q.work = "uploadImageReport"
  /\ \E now \in 0 .. seconds :
       \/ q.todo = <<SetImage(now)>> /\ now \in unfinished
       \/ q.todo = <<SetImage(now), Upload(now)>>
       \/ q.todo = <<SetImage(now), Upload(now), Upload(now)>>
       \/ q.todo = <<Upload(now), Upload(now)>>
       \/ q.todo = <<Upload(now)>>

Plan(q) == \/ q.todo = <<>>
           \/ PlainPlan(q) \/ ThreePlan(q) \/ StockPlan(q) \/ AfternoonPlan(q) \/ UploadPlan(q)

\* The request of a command or of a reply waits for redis, for that command.
Awaited(e) == /\ Awaits(e.r, "redis")
              /\ \E k \in DOMAIN Head(requests[e.r].todo).commands :
                   LET c == Head(requests[e.r].todo).commands[k]
                   IN e.command.op = c.op /\ e.command.key = c.key

PlanInv ==
  /\ \A r \in Requests : Plan(requests[r]) /\ (requests[r].work = "none" => requests[r] = NoRequest)
  /\ \A i \in DOMAIN sent :
       /\ Awaits(sent[i].r, "redis")
       /\ \E k \in DOMAIN Head(requests[sent[i].r].todo).commands :
            sent[i].command = Head(requests[sent[i].r].todo).commands[k]
  /\ \A i \in DOMAIN replies : Awaited(replies[i])

-------------------------------------------------------------------------------
(* Sequences *)

LEMMA Tuples ==
  ASSUME NEW a, NEW b, NEW c
  PROVE  /\ <<a>> \o <<>> = <<a>> /\ <<a>> \o <<b>> = <<a, b>>
         /\ <<a, b>> \o <<>> = <<a, b>> /\ <<a, b>> \o <<c>> = <<a, b, c>>
<1> DEFINE S == {a, b, c}
<1>0. /\ <<a>> \in Seq(S) /\ <<b>> \in Seq(S) /\ <<c>> \in Seq(S)
      /\ <<a, b>> \in Seq(S) /\ <<a, b, c>> \in Seq(S)
  OBVIOUS
<1>1. \A s \in Seq(S) : s \o <<>> = s
  BY ConcatEmptySeq
<1>2. <<a>> \o <<b>> = <<a, b>>
  <2> DEFINE s == <<a>> \o <<b>>
  <2>1. s \in Seq(S) /\ Len(s) = 2 /\ s[1] = a /\ s[2] = b
    BY <1>0, ConcatProperties
  <2> HIDE DEF s, S
  <2>2. \A i \in 1 .. Len(s) : s[i] = <<a, b>>[i]
    BY <2>1
  <2> QED BY <1>0, <2>1, <2>2, SeqEqual DEF s
<1>3. <<a, b>> \o <<c>> = <<a, b, c>>
  <2> DEFINE s == <<a, b>> \o <<c>>
  <2>1. s \in Seq(S) /\ Len(s) = 3 /\ s[1] = a /\ s[2] = b /\ s[3] = c
    BY <1>0, ConcatProperties
  <2> HIDE DEF s, S
  <2>2. \A i \in 1 .. Len(s) : s[i] = <<a, b, c>>[i]
    BY <2>1
  <2> QED BY <1>0, <2>1, <2>2, SeqEqual DEF s
<1> QED BY <1>0, <1>1, <1>2, <1>3

LEMMA Heads ==
  ASSUME NEW a, NEW b, NEW c
  PROVE  /\ Head(<<a>>) = a /\ Tail(<<a>>) = <<>>
         /\ Head(<<a, b>>) = a /\ Tail(<<a, b>>) = <<b>>
         /\ Head(<<a, b, c>>) = a /\ Tail(<<a, b, c>>) = <<b, c>>
OBVIOUS

LEMMA Concats ==
  ASSUME NEW S, NEW s \in Seq(S), NEW t \in Seq(S)
  PROVE  /\ s \o t \in Seq(S) /\ DOMAIN (s \o t) = 1 .. Len(s) + Len(t)
         /\ \A i \in 1 .. Len(s) : (s \o t)[i] = s[i]
         /\ \A i \in 1 .. Len(t) : (s \o t)[Len(s) + i] = t[i]
         /\ Len(s) \in Nat /\ Len(t) \in Nat
         /\ DOMAIN s = 1 .. Len(s) /\ DOMAIN t = 1 .. Len(t)
OBVIOUS

LEMMA Tails ==
  ASSUME NEW S, NEW s \in Seq(S), s # <<>>
  PROVE  /\ Len(s) \in Nat \ {0} /\ DOMAIN s = 1 .. Len(s)
         /\ Tail(s) \in Seq(S) /\ DOMAIN Tail(s) = 1 .. Len(s) - 1
         /\ \A i \in 1 .. Len(s) - 1 : Tail(s)[i] = s[i + 1]
         /\ Head(s) = s[1] /\ s[1] \in S /\ Tail(s) # s
OBVIOUS

LEMMA Appends ==
  ASSUME NEW S, NEW s \in Seq(S), NEW e \in S
  PROVE  /\ Append(s, e) \in Seq(S) /\ DOMAIN Append(s, e) = 1 .. Len(s) + 1
         /\ \A i \in 1 .. Len(s) : Append(s, e)[i] = s[i]
         /\ Append(s, e)[Len(s) + 1] = e
         /\ Len(s) \in Nat /\ DOMAIN s = 1 .. Len(s)
OBVIOUS

-------------------------------------------------------------------------------
(* The handlers' lists *)

LEMMA CmdTypes ==
  /\ \A key \in Keys : Get(key) \in Cmds
  /\ \A key \in Keys, n \in Nat, id \in Nat : Set(key, n, id) \in Cmds
  /\ \A id \in Nat : NewsKey(id) \in Keys
<1>1. /\ \A key \in Keys : Get(key) \in Cmds
      /\ \A key \in Keys, n \in Nat, id \in Nat : Set(key, n, id) \in Cmds
  BY DEF Get, Set, Cmds, Values, Blank, Keys
<1>2. \A id \in Nat : NewsKey(id) \in Keys
  <2> TAKE id \in Nat
  <2>1. CASE id = 0
    BY <2>1 DEF NewsKey, Keys
  <2>2. CASE id = 1
    BY <2>2 DEF NewsKey, Keys
  <2>3. CASE id = 2
    BY <2>3 DEF NewsKey, Keys
  <2>4. CASE id # 0 /\ id # 1 /\ id # 2
    BY <2>4 DEF NewsKey, Keys
  <2> QED BY <2>1, <2>2, <2>3, <2>4
<1> QED BY <1>1, <1>2

LEMMA PlainTypes == ASSUME TypeInv, NEW c, Plain(c) PROVE c \in Cmds
<1>1. 0 .. saves \subseteq Nat
  BY DEF TypeInv
<1>2. ASSUME NEW id \in NewsIds,
             c = Get(NewsKey(id)) \/ \E n \in 0 .. saves : c = Set(NewsKey(id), n, id)
      PROVE  c \in Cmds
  BY <1>1, <1>2, CmdTypes
<1>3. ASSUME NEW key \in {"save-identify-market", "save-market-movements",
                          "save-market-comment"},
             \E n \in 0 .. saves : c = Set(key, n, 0)
      PROVE  c \in Cmds
  BY <1>1, <1>3, CmdTypes DEF Keys
<1>4. Get("image-report") \in Cmds
  BY CmdTypes DEF Keys
<1> QED BY <1>2, <1>3, <1>4 DEF Plain

LEMMA ReadForms ==
  /\ \A id : getNews(id) = <<Redis(<<Get(NewsKey(id))>>)>>
  /\ identifyMarketRedis = <<Redis(ThreeGets)>>
  /\ afternoonReport1 = <<Redis(<<Get("save-market-movements")>>), Ask>>
  /\ afternoonReport2 = <<Ask, Redis(<<Get("save-market-comment")>>),
                          Redis(<<Get("image-report")>>)>>
<1>1. \A id : getNews(id) = <<Redis(<<Get(NewsKey(id))>>)>>
  BY DEF getNews, Commands, Redis
<1>2. identifyMarketRedis = <<Redis(ThreeGets)>>
  BY DEF identifyMarketRedis, Commands, Redis, ThreeGets
<1>3. afternoonReport1 = <<Redis(<<Get("save-market-movements")>>), Ask>>
  BY Tuples DEF afternoonReport1, Commands, Query, Redis, Ask
<1>4. afternoonReport2 = <<Ask, Redis(<<Get("save-market-comment")>>),
                           Redis(<<Get("image-report")>>)>>
  BY Tuples DEF afternoonReport2, Commands, Query, Redis, Ask
<1> QED BY <1>1, <1>2, <1>3, <1>4

LEMMA SaveForms ==
  ASSUME NEW n
  PROVE  /\ \A id : saveNews(n, id) = <<Redis(<<Set(NewsKey(id), n, id)>>)>>
         /\ saveIdentifyMarket(n) = <<Redis(<<Set("save-identify-market", n, 0)>>)>>
         /\ saveMarketMovements(n) = <<Redis(<<Set("save-market-movements", n, 0)>>)>>
         /\ saveMarketComment(n) = <<Redis(<<Set("save-market-comment", n, 0)>>)>>
         /\ saveStockRecommend(n) = <<SetBuy(n), SetSell(n)>>
<1>1. saveStockRecommend(n) = <<SetBuy(n), SetSell(n)>>
  BY Tuples DEF saveStockRecommend, Commands, Redis, SetBuy, SetSell
<1> QED BY <1>1 DEF saveNews, saveIdentifyMarket, saveMarketMovements, saveMarketComment,
                    Commands, Redis

LEMMA UploadForms ==
  ASSUME NEW now
  PROVE  /\ uploadImageReport(now, 0) = <<SetImage(now)>>
         /\ uploadImageReport(now, 1) = <<SetImage(now), Upload(now)>>
         /\ uploadImageReport(now, 2) = <<SetImage(now), Upload(now), Upload(now)>>
<1>1. uploadImageReport(now, 0) = <<SetImage(now)>> \o <<>> \o <<>>
  BY DEF uploadImageReport, Commands, Put, Redis, SetImage, Upload
<1>2. uploadImageReport(now, 1) = <<SetImage(now)>> \o <<Upload(now)>> \o <<>>
  BY DEF uploadImageReport, Commands, Put, Redis, SetImage, Upload
<1>3. uploadImageReport(now, 2) = <<SetImage(now)>> \o <<Upload(now)>> \o <<Upload(now)>>
  BY DEF uploadImageReport, Commands, Put, Redis, SetImage, Upload
<1> QED BY <1>1, <1>2, <1>3, Tuples

-------------------------------------------------------------------------------
(* News *)

\* A value under the key of one of the three ids was saved with that id.
RightNews(key, value) == \A id \in 0 .. 2 : key = NewsKey(id) /\ value # Blank => value.id = id

NewsInv ==
  /\ \A key \in DOMAIN slots : RightNews(key, slots[key])
  /\ \A i \in DOMAIN replies :
       replies[i].command.op = "get" => RightNews(replies[i].command.key, replies[i].command.value)
  /\ \A r \in Requests : \A g \in requests[r].got : RightNews(g[1], g[2])

(* The image *)

Covered(name) ==
  \/ name \in objects \cup unfinished
  \/ \E r \in Requests : \E i \in DOMAIN requests[r].todo :
       requests[r].todo[i].to = "minio" /\ requests[r].todo[i].name = name

IsSet(e, key) == e.command.op = "set" /\ e.command.key = key
SaveOf(e) == e.command.value.save

ImageInv ==
  /\ ImageThere
  /\ InSlot("image-report").save <= seconds
  /\ \A i \in DOMAIN sent : IsSet(sent[i], "image-report") =>
       /\ Covered(SaveOf(sent[i]))
       /\ InSlot("image-report").save <= SaveOf(sent[i]) /\ SaveOf(sent[i]) <= seconds
       /\ \A j \in DOMAIN sent : i < j /\ IsSet(sent[j], "image-report") =>
            SaveOf(sent[i]) <= SaveOf(sent[j])

(* Recommendations: a save is never ahead of an earlier one, whether its command for the
   stocks to buy is under way or carried out, or its command for those to sell is. *)

\* The list to buy of this request is not yet known to be saved.
Stock(r, n) == requests[r].todo = <<SetBuy(n), SetSell(n)>>

\* Whatever is or will be in the slot of the stocks to buy is from this save or later.
Behind(n) ==
  /\ InSlot(Buy) # Blank => n <= InSlot(Buy).save
  /\ \A j \in DOMAIN sent : IsSet(sent[j], Buy) => n <= SaveOf(sent[j])

StockInv ==
  /\ InSlot(Sell).save <= saves /\ InSlot(Buy).save <= saves
  /\ InSlot(Buy) # Blank => InSlot(Buy).id = 0
  /\ Behind(InSlot(Sell).save)
  /\ \A i \in DOMAIN sent : IsSet(sent[i], Buy) =>
       \A j \in DOMAIN sent : i < j /\ IsSet(sent[j], Buy) => SaveOf(sent[i]) <= SaveOf(sent[j])
  /\ \A i \in DOMAIN sent : IsSet(sent[i], Sell) =>
       /\ Behind(SaveOf(sent[i]))
       /\ \A j \in DOMAIN sent : i < j /\ IsSet(sent[j], Sell) => SaveOf(sent[i]) <= SaveOf(sent[j])
       /\ \A j \in DOMAIN replies : \A n \in Nat :
            Stock(replies[j].r, n) => SaveOf(sent[i]) <= n
  /\ \A i \in DOMAIN replies : \A n \in Nat : Stock(replies[i].r, n) =>
       /\ Behind(n)
       /\ \A j \in DOMAIN replies : \A m \in Nat :
            i < j /\ Stock(replies[j].r, m) => n <= m

\* The stocks to sell of save n are still to be saved.
SellDue(r, n) ==
  /\ requests[r].work = "saveStockRecommend"
  /\ \/ Stock(r, n)
     \/ \E i \in DOMAIN sent : sent[i].r = r /\ sent[i].command = Set(Sell, n, 0)

\* None of those that are still to be saved are older than save n.
NoneOlder(n) ==
  /\ \A i \in DOMAIN sent : IsSet(sent[i], Sell) => n <= SaveOf(sent[i])
  /\ \A i \in DOMAIN replies : \A m \in Nat : Stock(replies[i].r, m) => n <= m

PairInv ==
  ~cut /\ InSlot(Buy) # Blank =>
    \/ \E r \in Requests : SellDue(r, InSlot(Buy).save)
    \/ /\ InSlot(Sell) \in {Blank, InSlot(Buy)}
       /\ NoneOlder(InSlot(Buy).save)

(* What a request has been shown *)

HasRead(r, key, v) ==
  \/ <<key, v>> \in requests[r].got
  \/ \E j \in DOMAIN replies :
       /\ replies[j].r = r
       /\ replies[j].command = [op |-> "get", key |-> key, value |-> v]

IsGet(e, key) == e.command.op = "get" /\ e.command.key = key

ReadInv ==
  /\ \A r \in Requests : \A v, w \in Values :
       HasRead(r, Buy, v) /\ HasRead(r, Sell, w) /\ v # Blank => w.save <= v.save
  /\ sent # <<>> /\ IsGet(sent[1], Sell) =>
       \A v \in Values : HasRead(sent[1].r, Buy, v) /\ v # Blank => InSlot(Sell).save <= v.save
  /\ \A j \in DOMAIN sent : IsGet(sent[j], Buy) =>
       /\ \A v \in Values : ~HasRead(sent[j].r, Buy, v) /\ ~HasRead(sent[j].r, Sell, v)
       /\ \A i \in 1 .. j - 1 :
            sent[i].r = sent[j].r => ~IsGet(sent[i], Buy) /\ ~IsGet(sent[i], Sell)
  /\ \A j \in DOMAIN sent : j > 1 /\ IsGet(sent[j], Sell) =>
       sent[j - 1].r = sent[j].r /\ IsGet(sent[j - 1], Buy)

-------------------------------------------------------------------------------
(* What the plans say of the step that is awaited, of the next and of the uploads *)

LEMMA NewsKeyValues ==
  /\ NewsKey(0) = "morning-news-international"
  /\ NewsKey(1) = "morning-news-domestic"
  /\ NewsKey(2) = "morning-news-enterprise"
  /\ \A id \in Nat \ {0, 1, 2} : NewsKey(id) = ""
BY DEF NewsKey

LEMMA NewsKeys ==
  ASSUME NEW id \in Nat
  PROVE  /\ NewsKey(id) \in {"morning-news-international", "morning-news-domestic",
                             "morning-news-enterprise", ""}
         /\ \A i \in 0 .. 2 : NewsKey(i) = NewsKey(id) => i = id
<1>1. id = 0 \/ id = 1 \/ id = 2 \/ id \in Nat \ {0, 1, 2}
  OBVIOUS
<1>2. \A i \in 0 .. 2 : i = 0 \/ i = 1 \/ i = 2
  OBVIOUS
<1> QED BY <1>1, <1>2, NewsKeyValues

LEMMA OtherKeys ==
  \A key \in {Buy, Sell, "image-report", "save-identify-market", "save-market-movements",
              "save-market-comment"} : \A i \in 0 .. 2 : key # NewsKey(i)
<1>1. \A i \in 0 .. 2 : i = 0 \/ i = 1 \/ i = 2
  OBVIOUS
<1> QED BY <1>1, NewsKeyValues DEF Buy, Sell

\* A command that request q is waiting for.
CommandFacts(q, c) ==
  /\ c \in Cmds
  /\ c.op = "set" => RightNews(c.key, c.value)
  /\ c.op = "set" /\ c.key = Buy =>
       /\ q.work = "saveStockRecommend" /\ c.value.id = 0
       /\ c.value.save \in 1 .. saves /\ c = Set(Buy, c.value.save, 0)
       /\ q.todo = <<SetBuy(c.value.save), SetSell(c.value.save)>>
  /\ c.op = "set" /\ c.key = Sell =>
       /\ q.work = "saveStockRecommend"
       /\ c.value.save \in 1 .. saves /\ c = Set(Sell, c.value.save, 0)
       /\ q.todo = <<SetSell(c.value.save)>>
  /\ c.op = "set" /\ c.key = "image-report" =>
       /\ c.value.save \in 0 .. seconds
       /\ \/ c.value.save \in unfinished
          \/ \E i \in DOMAIN q.todo : q.todo[i].to = "minio" /\ q.todo[i].name = c.value.save
  /\ c.op = "get" /\ c.key \in {Buy, Sell} => Head(q.todo) = Redis(ThreeGets)

HeadFacts(q) ==
  /\ q.work # "none" /\ Head(q.todo).to \in {"redis", "minio", "mssql"}
  /\ q.work = "saveStockRecommend" => Head(q.todo).to = "redis"
  /\ Head(q.todo).to = "redis" =>
       /\ Head(q.todo).commands \in Seq(Cmds) /\ Head(q.todo).commands # <<>>
       /\ \A k \in DOMAIN Head(q.todo).commands : CommandFacts(q, Head(q.todo).commands[k])

\* What is sent when the step is done: a read of neither list, or the second list.
NextFacts(q) ==
  Tail(q.todo) # <<>> /\ Head(Tail(q.todo)).to = "redis" =>
    \E c \in Cmds :
      /\ Head(Tail(q.todo)).commands = <<c>>
      /\ \/ c.op = "get" /\ c.key \notin {Buy, Sell}
         \/ \E n \in 1 .. saves : c = Set(Sell, n, 0) /\ q.todo = <<SetBuy(n), SetSell(n)>>

UploadFacts(q) ==
  /\ Head(q.todo).to = "minio" =>
       \A i \in DOMAIN q.todo : q.todo[i].to = "minio" /\ q.todo[i].name = Head(q.todo).name
  /\ Head(q.todo).to = "mssql" => \A i \in DOMAIN q.todo : q.todo[i].to # "minio"
  /\ \A i \in DOMAIN q.todo : Head(q.todo).to = "redis" /\ q.todo[i].to = "minio" =>
       /\ q.work = "uploadImageReport" /\ Len(q.todo) > 1
       /\ q.todo[i].name = Head(Tail(q.todo)).name

Facts(q) ==
  /\ HeadFacts(q) /\ NextFacts(q) /\ UploadFacts(q)
  /\ \A p : p.work = q.work /\ p.todo = Tail(q.todo) => Plan(p)

LEMMA SingleHead ==
  ASSUME NEW q, NEW c \in Cmds, q.work # "none", Head(q.todo) = Redis(<<c>>),
         CommandFacts(q, c)
  PROVE  HeadFacts(q)
<1> DEFINE cs == Head(q.todo).commands
<1>1. Head(q.todo).to = "redis" /\ cs = <<c>>
  BY DEF Redis
<1> HIDE DEF cs
<1>2. cs \in Seq(Cmds) /\ DOMAIN cs = {1} /\ cs[1] = c /\ cs # <<>>
  BY <1>1
<1>3. \A k \in DOMAIN cs : CommandFacts(q, cs[k])
  BY <1>2
<1> QED BY <1>1, <1>2, <1>3 DEF HeadFacts, cs

LEMMA PlainFacts ==
  ASSUME TypeInv, NEW q, q.work \in Works, PlainPlan(q)
  PROVE  Facts(q)
<1>1. PICK c \in Cmds : Plain(c) /\ q.todo = <<Redis(<<c>>)>>
  BY DEF PlainPlan
<1>2. Head(q.todo) = Redis(<<c>>) /\ Tail(q.todo) = <<>> /\ q.todo[1] = Redis(<<c>>)
      /\ DOMAIN q.todo = {1}
  BY <1>1
<1>3. CommandFacts(q, c)
  <2>1. ASSUME NEW id \in NewsIds, NEW n \in 0 .. saves, c = Set(NewsKey(id), n, id)
        PROVE  CommandFacts(q, c)
    BY <1>1, <2>1, NewsKeys DEF CommandFacts, RightNews, Set, Buy, Sell
  <2>2. ASSUME NEW id \in NewsIds, c = Get(NewsKey(id)) PROVE CommandFacts(q, c)
    BY <1>1, <2>2, NewsKeys DEF CommandFacts, Get, Buy, Sell
  <2>3. ASSUME NEW key \in {"save-identify-market", "save-market-movements",
                            "save-market-comment"}, NEW n \in 0 .. saves, c = Set(key, n, 0)
        PROVE  CommandFacts(q, c)
    BY <1>1, <2>3, OtherKeys DEF CommandFacts, RightNews, Set, Buy, Sell
  <2>4. ASSUME c = Get("image-report") PROVE CommandFacts(q, c)
    BY <1>1, <2>4 DEF CommandFacts, Get, Buy, Sell
  <2> QED BY <1>1, <2>1, <2>2, <2>3, <2>4 DEF Plain
<1>4. HeadFacts(q)
  BY <1>2, <1>3, SingleHead DEF PlainPlan
<1>5. NextFacts(q) /\ UploadFacts(q)
  BY <1>2 DEF NextFacts, UploadFacts, Redis
<1> QED BY <1>2, <1>4, <1>5 DEF Facts, Plan

LEMMA ThreeFacts ==
  ASSUME TypeInv, NEW q, q.work \in Works, ThreePlan(q)
  PROVE  Facts(q)
<1>1. Head(q.todo) = Redis(ThreeGets) /\ Tail(q.todo) = <<>> /\ q.todo[1] = Redis(ThreeGets)
      /\ DOMAIN q.todo = {1}
  BY DEF ThreePlan
<1>2. /\ CommandFacts(q, Get("save-identify-market"))
      /\ CommandFacts(q, Get(Buy)) /\ CommandFacts(q, Get(Sell))
  <2>1. \A key \in Keys : CommandFacts(q, Get(key))
    BY <1>1, CmdTypes DEF CommandFacts, Get
  <2> QED BY <2>1 DEF Buy, Sell, Keys
<1>3. Redis(ThreeGets).to = "redis" /\ Redis(ThreeGets).commands = ThreeGets
  BY DEF Redis
<1>4. /\ ThreeGets \in Seq(Cmds) /\ DOMAIN ThreeGets = 1 .. 3 /\ ThreeGets # <<>>
      /\ \A k \in DOMAIN ThreeGets : CommandFacts(q, ThreeGets[k])
  <2>1. /\ Get("save-identify-market") \in Cmds /\ Get(Buy) \in Cmds /\ Get(Sell) \in Cmds
    BY CmdTypes DEF Buy, Sell, Keys
  <2> QED BY <1>2, <2>1 DEF ThreeGets
<1>5. HeadFacts(q)
  <2> HIDE DEF ThreeGets
  <2> QED BY <1>1, <1>3, <1>4 DEF HeadFacts, ThreePlan
<1>6. NextFacts(q) /\ UploadFacts(q)
  BY <1>1, <1>3 DEF NextFacts, UploadFacts
<1> QED BY <1>1, <1>5, <1>6 DEF Facts, Plan

LEMMA StockFacts ==
  ASSUME TypeInv, NEW q, q.work \in Works, StockPlan(q)
  PROVE  Facts(q)
<1>0. q.work = "saveStockRecommend" /\ 1 .. saves \subseteq Nat
  BY DEF StockPlan, TypeInv
<1>1. PICK n \in 1 .. saves : q.todo = <<SetBuy(n), SetSell(n)>> \/ q.todo = <<SetSell(n)>>
  BY DEF StockPlan
<1>2. /\ SetBuy(n).to = "redis" /\ SetBuy(n).commands = <<Set(Buy, n, 0)>>
      /\ SetSell(n).to = "redis" /\ SetSell(n).commands = <<Set(Sell, n, 0)>>
      /\ Set(Buy, n, 0) \in Cmds /\ Set(Sell, n, 0) \in Cmds
  BY <1>0, CmdTypes DEF SetBuy, SetSell, Redis, Buy, Sell, Keys
<1>3. CASE q.todo = <<SetBuy(n), SetSell(n)>>
  <2>1. /\ Head(q.todo) = SetBuy(n) /\ Tail(q.todo) = <<SetSell(n)>> /\ DOMAIN q.todo = {1, 2}
        /\ q.todo[1] = SetBuy(n) /\ q.todo[2] = SetSell(n) /\ Head(Tail(q.todo)) = SetSell(n)
    BY <1>3
  <2>2. CommandFacts(q, Set(Buy, n, 0))
    BY <1>0, <1>2, <1>3, OtherKeys DEF CommandFacts, RightNews, Set, Buy, Sell
  <2>3. HeadFacts(q)
    BY <1>0, <1>2, <2>1, <2>2, SingleHead DEF SetBuy, SetSell
  <2>4. NextFacts(q)
    BY <1>2, <1>3, <2>1 DEF NextFacts
  <2>5. UploadFacts(q)
    BY <1>2, <2>1 DEF UploadFacts
  <2>6. \A p : p.work = q.work /\ p.todo = Tail(q.todo) => Plan(p)
    BY <1>0, <2>1 DEF Plan, StockPlan
  <2> QED BY <2>3, <2>4, <2>5, <2>6 DEF Facts
<1>4. CASE q.todo = <<SetSell(n)>>
  <2>1. /\ Head(q.todo) = SetSell(n) /\ Tail(q.todo) = <<>> /\ DOMAIN q.todo = {1}
        /\ q.todo[1] = SetSell(n)
    BY <1>4
  <2>2. CommandFacts(q, Set(Sell, n, 0))
    BY <1>0, <1>2, <1>4, OtherKeys DEF CommandFacts, RightNews, Set, Buy, Sell
  <2>3. HeadFacts(q)
    BY <1>0, <1>2, <2>1, <2>2, SingleHead DEF SetBuy, SetSell
  <2>4. NextFacts(q) /\ UploadFacts(q)
    BY <1>2, <2>1 DEF NextFacts, UploadFacts
  <2> QED BY <2>1, <2>3, <2>4 DEF Facts, Plan
<1> QED BY <1>1, <1>3, <1>4

LEMMA AfternoonFacts ==
  ASSUME TypeInv, NEW q, q.work \in Works, AfternoonPlan(q)
  PROVE  Facts(q)
<1> DEFINE m == Get("save-market-movements")
           c == Get("save-market-comment")
           i == Get("image-report")
<1>1. /\ m \in Cmds /\ c \in Cmds /\ i \in Cmds /\ m.op = "get" /\ c.op = "get" /\ i.op = "get"
      /\ {m.key, c.key, i.key} \cap {Buy, Sell} = {}
      /\ Plain(i)
  BY CmdTypes DEF Get, Keys, Buy, Sell, Plain
<1>2. /\ Ask.to = "mssql"
      /\ \A x : Redis(<<x>>).to = "redis" /\ Redis(<<x>>).commands = <<x>>
  BY DEF Ask, Redis
<1>3. CommandFacts(q, m) /\ CommandFacts(q, c) /\ CommandFacts(q, i)
  BY <1>1 DEF CommandFacts
<1>4. q.work \in {"afternoonReport1", "afternoonReport2"}
  BY DEF AfternoonPlan
<1> HIDE DEF m, c, i
<1>5. CASE q.todo = <<Redis(<<m>>), Ask>>
  <2>1. /\ Head(q.todo) = Redis(<<m>>) /\ Tail(q.todo) = <<Ask>> /\ Head(Tail(q.todo)) = Ask
        /\ DOMAIN q.todo = {1, 2} /\ q.todo[1] = Redis(<<m>>) /\ q.todo[2] = Ask
    BY <1>5
  <2>2. HeadFacts(q)
    BY <1>1, <1>3, <1>4, <2>1, SingleHead
  <2>3. NextFacts(q) /\ UploadFacts(q)
    BY <1>2, <2>1 DEF NextFacts, UploadFacts
  <2>4. \A p : p.work = q.work /\ p.todo = Tail(q.todo) => Plan(p)
    BY <1>4, <2>1 DEF Plan, AfternoonPlan
  <2> QED BY <2>2, <2>3, <2>4 DEF Facts
<1>6. CASE q.todo = <<Ask>>
  <2>1. Head(q.todo) = Ask /\ Tail(q.todo) = <<>> /\ DOMAIN q.todo = {1} /\ q.todo[1] = Ask
    BY <1>6
  <2>2. HeadFacts(q) /\ NextFacts(q) /\ UploadFacts(q)
    BY <1>2, <1>4, <2>1 DEF HeadFacts, NextFacts, UploadFacts
  <2> QED BY <2>1, <2>2 DEF Facts, Plan
<1>7. CASE q.todo = <<Ask, Redis(<<c>>), Redis(<<i>>)>>
  <2>1. /\ Head(q.todo) = Ask /\ Tail(q.todo) = <<Redis(<<c>>), Redis(<<i>>)>>
        /\ Head(Tail(q.todo)) = Redis(<<c>>) /\ DOMAIN q.todo = 1 .. 3
        /\ q.todo[1] = Ask /\ q.todo[2] = Redis(<<c>>) /\ q.todo[3] = Redis(<<i>>)
    BY <1>7
  <2>2. HeadFacts(q) /\ UploadFacts(q)
    BY <1>2, <1>4, <2>1 DEF HeadFacts, UploadFacts
  <2>3. NextFacts(q)
    BY <1>1, <1>2, <2>1 DEF NextFacts
  <2>4. \A p : p.work = q.work /\ p.todo = Tail(q.todo) => Plan(p)
    BY <1>4, <2>1 DEF Plan, AfternoonPlan, c, i
  <2> QED BY <2>2, <2>3, <2>4 DEF Facts
<1>8. CASE q.todo = <<Redis(<<c>>), Redis(<<i>>)>>
  <2>1. /\ Head(q.todo) = Redis(<<c>>) /\ Tail(q.todo) = <<Redis(<<i>>)>>
        /\ Head(Tail(q.todo)) = Redis(<<i>>)
        /\ DOMAIN q.todo = {1, 2} /\ q.todo[1] = Redis(<<c>>) /\ q.todo[2] = Redis(<<i>>)
    BY <1>8
  <2>2. HeadFacts(q)
    BY <1>1, <1>3, <1>4, <2>1, SingleHead
  <2>3. NextFacts(q) /\ UploadFacts(q)
    BY <1>1, <1>2, <2>1 DEF NextFacts, UploadFacts
  <2>4. \A p : p.work = q.work /\ p.todo = Tail(q.todo) => Plan(p)
    BY <1>1, <1>4, <2>1 DEF Plan, PlainPlan
  <2> QED BY <2>2, <2>3, <2>4 DEF Facts
<1> QED BY <1>5, <1>6, <1>7, <1>8 DEF AfternoonPlan, m, c, i

LEMMA ImageFacts ==
  ASSUME TypeInv, NEW q, q.work \in Works, UploadPlan(q)
  PROVE  Facts(q)
<1>1. PICK now \in 0 .. seconds :
       \/ q.todo = <<SetImage(now)>> /\ now \in unfinished
       \/ q.todo = <<SetImage(now), Upload(now)>>
       \/ q.todo = <<SetImage(now), Upload(now), Upload(now)>>
       \/ q.todo = <<Upload(now), Upload(now)>>
       \/ q.todo = <<Upload(now)>>
  BY DEF UploadPlan
<1> DEFINE c == Set("image-report", now, 0)
<1>2. /\ now \in Nat /\ c \in Cmds /\ c.op = "set" /\ c.key = "image-report" /\ c.value.save = now
      /\ c.key \notin {Buy, Sell} /\ q.work = "uploadImageReport"
      /\ SetImage(now).to = "redis" /\ SetImage(now) = Redis(<<c>>)
      /\ Upload(now).to = "minio" /\ Upload(now).name = now
  <2>1. now \in Nat
    BY DEF TypeInv
  <2>2. c \in Cmds
    BY <2>1, CmdTypes DEF Keys
  <2>3. c.op = "set" /\ c.key = "image-report" /\ c.value.save = now /\ c.key \notin {Buy, Sell}
    BY DEF Set, Buy, Sell
  <2>4. SetImage(now) = Redis(<<c>>)
    BY DEF SetImage
  <2> HIDE DEF c
  <2>5. /\ SetImage(now).to = "redis"
        /\ Upload(now).to = "minio" /\ Upload(now).name = now
    BY <2>4 DEF Redis, Upload
  <2> QED BY <2>1, <2>2, <2>3, <2>4, <2>5 DEF UploadPlan
<1>3. RightNews(c.key, c.value)
  BY <1>2, OtherKeys DEF RightNews
<1> HIDE DEF c
<1>4. ASSUME \/ now \in unfinished
             \/ \E i \in DOMAIN q.todo : q.todo[i].to = "minio" /\ q.todo[i].name = now
      PROVE  CommandFacts(q, c)
  BY <1>2, <1>3, <1>4 DEF CommandFacts
<1>5. CASE q.todo = <<SetImage(now)>> /\ now \in unfinished
  <2>1. /\ Head(q.todo) = SetImage(now) /\ Tail(q.todo) = <<>>
        /\ DOMAIN q.todo = {1} /\ q.todo[1] = SetImage(now)
    BY <1>5
  <2>2. HeadFacts(q)
    BY <1>2, <1>4, <1>5, <2>1, SingleHead
  <2>3. NextFacts(q) /\ UploadFacts(q)
    BY <1>2, <2>1 DEF NextFacts, UploadFacts
  <2> QED BY <2>1, <2>2, <2>3 DEF Facts, Plan
<1>6. CASE q.todo = <<SetImage(now), Upload(now)>>
  <2>1. /\ Head(q.todo) = SetImage(now) /\ Tail(q.todo) = <<Upload(now)>>
        /\ Head(Tail(q.todo)) = Upload(now) /\ Len(q.todo) = 2
        /\ DOMAIN q.todo = {1, 2} /\ q.todo[1] = SetImage(now) /\ q.todo[2] = Upload(now)
    BY <1>6
  <2>2. HeadFacts(q)
    BY <1>2, <1>4, <2>1, SingleHead
  <2>3. NextFacts(q) /\ UploadFacts(q)
    BY <1>2, <2>1 DEF NextFacts, UploadFacts
  <2>4. \A p : p.work = q.work /\ p.todo = Tail(q.todo) => Plan(p)
    BY <1>2, <2>1 DEF Plan, UploadPlan
  <2> QED BY <2>2, <2>3, <2>4 DEF Facts
<1>7. CASE q.todo = <<SetImage(now), Upload(now), Upload(now)>>
  <2>1. /\ Head(q.todo) = SetImage(now) /\ Tail(q.todo) = <<Upload(now), Upload(now)>>
        /\ Head(Tail(q.todo)) = Upload(now) /\ Len(q.todo) = 3
        /\ DOMAIN q.todo = 1 .. 3 /\ q.todo[1] = SetImage(now) /\ q.todo[2] = Upload(now)
        /\ q.todo[3] = Upload(now)
    BY <1>7
  <2>2. HeadFacts(q)
    BY <1>2, <1>4, <2>1, SingleHead
  <2>3. NextFacts(q) /\ UploadFacts(q)
    BY <1>2, <2>1 DEF NextFacts, UploadFacts
  <2>4. \A p : p.work = q.work /\ p.todo = Tail(q.todo) => Plan(p)
    BY <1>2, <2>1 DEF Plan, UploadPlan
  <2> QED BY <2>2, <2>3, <2>4 DEF Facts
<1>8. CASE q.todo = <<Upload(now), Upload(now)>>
  <2>1. /\ Head(q.todo) = Upload(now) /\ Tail(q.todo) = <<Upload(now)>>
        /\ Head(Tail(q.todo)) = Upload(now)
        /\ DOMAIN q.todo = {1, 2} /\ q.todo[1] = Upload(now) /\ q.todo[2] = Upload(now)
    BY <1>8
  <2>2. HeadFacts(q) /\ NextFacts(q) /\ UploadFacts(q)
    BY <1>2, <2>1 DEF HeadFacts, NextFacts, UploadFacts
  <2>4. \A p : p.work = q.work /\ p.todo = Tail(q.todo) => Plan(p)
    BY <1>2, <2>1 DEF Plan, UploadPlan
  <2> QED BY <2>2, <2>4 DEF Facts
<1>9. CASE q.todo = <<Upload(now)>>
  <2>1. /\ Head(q.todo) = Upload(now) /\ Tail(q.todo) = <<>>
        /\ DOMAIN q.todo = {1} /\ q.todo[1] = Upload(now)
    BY <1>9
  <2>2. HeadFacts(q) /\ NextFacts(q) /\ UploadFacts(q)
    BY <1>2, <2>1 DEF HeadFacts, NextFacts, UploadFacts
  <2> QED BY <2>1, <2>2 DEF Facts, Plan
<1> QED BY <1>1, <1>5, <1>6, <1>7, <1>8, <1>9

LEMMA PlanFacts ==
  ASSUME TypeInv, PlanInv, NEW r \in Requests, requests[r].todo # <<>>
  PROVE  Facts(requests[r])
<1>1. requests[r].work \in Works /\ Plan(requests[r])
  BY DEF TypeInv, PlanInv
<1> QED BY <1>1, PlainFacts, ThreeFacts, StockFacts, AfternoonFacts, ImageFacts DEF Plan

-------------------------------------------------------------------------------
(* What is sent *)

NewEntries(r, todo) ==
  IF todo # <<>> /\ Head(todo).to = "redis"
  THEN [i \in DOMAIN Head(todo).commands |-> [r |-> r, command |-> Head(todo).commands[i]]]
  ELSE <<>>

LEMMA NewTypes ==
  ASSUME NEW r \in Requests, NEW todo \in Seq(Steps)
  PROVE  /\ NewEntries(r, todo) \in Seq(Entries)
         /\ NewEntries(r, todo) # <<>> => todo # <<>> /\ Head(todo).to = "redis"
         /\ \A i \in DOMAIN NewEntries(r, todo) :
              /\ i \in DOMAIN Head(todo).commands
              /\ NewEntries(r, todo)[i].r = r
              /\ NewEntries(r, todo)[i].command = Head(todo).commands[i]
<1>1. CASE todo # <<>> /\ Head(todo).to = "redis"
  <2> DEFINE cs == Head(todo).commands
  <2>1. cs \in Seq(Cmds)
    BY <1>1 DEF Steps
  <2>2. NewEntries(r, todo) = [i \in DOMAIN cs |-> [r |-> r, command |-> cs[i]]]
    BY <1>1 DEF NewEntries
  <2> HIDE DEF cs
  <2>3. DOMAIN cs = 1 .. Len(cs) /\ Len(cs) \in Nat /\ \A i \in DOMAIN cs : cs[i] \in Cmds
    BY <2>1
  <2>4. \A i \in DOMAIN cs : [r |-> r, command |-> cs[i]] \in Entries
    BY <2>3 DEF Entries
  <2>5. [i \in DOMAIN cs |-> [r |-> r, command |-> cs[i]]] \in Seq(Entries)
    <3> DEFINE f == [i \in DOMAIN cs |-> [r |-> r, command |-> cs[i]]]
    <3>1. f \in [1 .. Len(cs) -> Entries]
      BY <2>3, <2>4
    <3> HIDE DEF f
    <3>2. f \in Seq(Entries)
      BY <2>3, <3>1
    <3> QED BY <3>2 DEF f
  <2> QED BY <1>1, <2>2, <2>5 DEF cs
<1>2. CASE ~(todo # <<>> /\ Head(todo).to = "redis")
  <2>1. NewEntries(r, todo) = <<>>
    BY <1>2 DEF NewEntries
  <2> QED BY <2>1
<1> QED BY <1>1, <1>2

LEMMA Sending ==
  ASSUME TypeInv, NEW r \in Requests, NEW todo \in Seq(Steps), SendsNext(r, todo)
  PROVE  /\ sent' = sent \o NewEntries(r, todo) /\ sent' \in Seq(Entries)
         /\ DOMAIN sent' = 1 .. Len(sent) + Len(NewEntries(r, todo))
         /\ DOMAIN sent = 1 .. Len(sent) /\ Len(sent) \in Nat
         /\ DOMAIN NewEntries(r, todo) = 1 .. Len(NewEntries(r, todo))
         /\ Len(NewEntries(r, todo)) \in Nat
         /\ \A i \in DOMAIN sent : i \in DOMAIN sent' /\ sent'[i] = sent[i]
         /\ \A i \in DOMAIN sent' \ DOMAIN sent :
              /\ i - Len(sent) \in DOMAIN NewEntries(r, todo)
              /\ sent'[i] = NewEntries(r, todo)[i - Len(sent)]
<1> DEFINE new == NewEntries(r, todo)
<1>1. sent \in Seq(Entries) /\ new \in Seq(Entries)
  BY NewTypes DEF TypeInv
<1>2. sent' = sent \o new
  <2>1. CASE todo # <<>> /\ Head(todo).to = "redis"
    BY <2>1 DEF SendsNext, NewEntries
  <2>2. CASE ~(todo # <<>> /\ Head(todo).to = "redis")
    BY <1>1, <2>2, ConcatEmptySeq DEF SendsNext, NewEntries
  <2> QED BY <2>1, <2>2
<1> HIDE DEF new
<1>3. /\ sent' \in Seq(Entries) /\ DOMAIN sent' = 1 .. Len(sent) + Len(new)
      /\ DOMAIN sent = 1 .. Len(sent) /\ Len(sent) \in Nat
      /\ DOMAIN new = 1 .. Len(new) /\ Len(new) \in Nat
      /\ \A i \in 1 .. Len(sent) : sent'[i] = sent[i]
      /\ \A i \in 1 .. Len(new) : sent'[Len(sent) + i] = new[i]
  BY <1>1, <1>2, Concats
<1>4. \A i \in DOMAIN sent' \ DOMAIN sent :
        i - Len(sent) \in 1 .. Len(new) /\ i = Len(sent) + (i - Len(sent))
  BY <1>3
<1>5. \A i \in DOMAIN sent' \ DOMAIN sent :
        i - Len(sent) \in DOMAIN new /\ sent'[i] = new[i - Len(sent)]
  BY <1>3, <1>4
<1>6. \A i \in DOMAIN sent : i \in DOMAIN sent' /\ sent'[i] = sent[i]
  BY <1>3
<1> QED BY <1>2, <1>3, <1>5, <1>6 DEF new

-------------------------------------------------------------------------------
(* Steps keep the types and the plans *)

LEMMA PlanGrows ==
  ASSUME TypeInv, saves' \in Nat, saves <= saves', seconds' \in Nat, seconds <= seconds',
         unfinished \subseteq unfinished', NEW q, Plan(q)
  PROVE  Plan(q)'
<1>1. 0 .. saves \subseteq 0 .. saves' /\ 1 .. saves \subseteq 1 .. saves'
      /\ 0 .. seconds \subseteq 0 .. seconds'
  BY DEF TypeInv
<1>2. \A c : Plain(c) => Plain(c)'
  BY <1>1 DEF Plain
<1> QED BY <1>1, <1>2 DEF Plan, PlainPlan, ThreePlan, StockPlan, AfternoonPlan, UploadPlan

LEMMA EntryTypes ==
  ASSUME TypeInv
  PROVE  /\ DOMAIN sent = 1 .. Len(sent) /\ Len(sent) \in Nat
         /\ DOMAIN replies = 1 .. Len(replies) /\ Len(replies) \in Nat
         /\ \A i \in DOMAIN sent :
              sent[i] \in Entries /\ sent[i].r \in Requests /\ sent[i].command \in Cmds
         /\ \A i \in DOMAIN replies :
              replies[i] \in Entries /\ replies[i].r \in Requests /\ replies[i].command \in Cmds
<1>1. sent \in Seq(Entries) /\ replies \in Seq(Entries)
  BY DEF TypeInv
<1>2. \A s \in Seq(Entries) : /\ DOMAIN s = 1 .. Len(s) /\ Len(s) \in Nat
                             /\ \A i \in DOMAIN s : s[i] \in Entries
  OBVIOUS
<1>3. \A e \in Entries : e.r \in Requests /\ e.command \in Cmds
  BY DEF Entries
<1> QED BY <1>1, <1>2, <1>3

Requested == [work : Works, todo : Seq(Steps), got : SUBSET (Keys \X Values)]

LEMMA Moving ==
  ASSUME TypeInv, PlanInv, NEW r \in Requests, NEW q \in Requested,
         Becomes(r, q), SendsNext(r, q.todo), q.work = "none" => q = NoRequest,
         saves' \in Nat, saves <= saves', seconds' \in Nat, seconds <= seconds',
         unfinished \subseteq unfinished', cut' \in BOOLEAN,
         \A key \in DOMAIN slots' : slots'[key] \in Values,
         \A i \in DOMAIN sent : sent[i].r # r,
         replies' \in Seq(Entries),
         \A i \in DOMAIN replies' : /\ replies'[i].r # r
                                    /\ \E j \in DOMAIN replies : replies'[i] = replies[j],
         Plan(q)'
  PROVE  TypeInv' /\ PlanInv'
<1>1. requests \in [Requests -> Requested] /\ sent \in Seq(Entries) /\ replies \in Seq(Entries)
  BY DEF TypeInv, Requested
<1>2. /\ requests' \in [Requests -> Requested] /\ requests'[r] = q
      /\ \A s \in Requests : s # r => requests'[s] = requests[s]
  BY <1>1 DEF Becomes
<1>3. q.todo \in Seq(Steps)
  BY DEF Requested
<1>4. TypeInv'
  BY <1>2, <1>3, Sending DEF TypeInv, Requested
<1>5. ASSUME NEW s \in Requests
      PROVE  Plan(requests[s])' /\ (requests'[s].work = "none" => requests'[s] = NoRequest)
  <2>1. CASE s = r
    BY <1>2, <2>1
  <2>2. CASE s # r
    BY <1>2, <2>2, PlanGrows DEF PlanInv
  <2> QED BY <2>1, <2>2
<1>6. ASSUME NEW i \in DOMAIN sent'
      PROVE  /\ Awaits(sent[i].r, "redis")'
             /\ \E k \in DOMAIN Head(requests'[sent'[i].r].todo).commands :
                  sent'[i].command = Head(requests'[sent'[i].r].todo).commands[k]
  <2>1. CASE i \in DOMAIN sent
    <3>1. sent'[i] = sent[i] /\ sent[i].r # r /\ sent[i].r \in Requests
      BY <1>3, <2>1, Sending, EntryTypes
    <3>2. requests'[sent'[i].r] = requests[sent[i].r]
      BY <1>2, <3>1
    <3> QED BY <2>1, <3>1, <3>2 DEF PlanInv, Awaits
  <2>2. CASE i \notin DOMAIN sent
    <3> DEFINE k == i - Len(sent)
    <3>1. k \in DOMAIN NewEntries(r, q.todo) /\ sent'[i] = NewEntries(r, q.todo)[k]
          /\ NewEntries(r, q.todo) # <<>>
      BY <1>3, <2>2, Sending
    <3>2. /\ q.todo # <<>> /\ Head(q.todo).to = "redis"
          /\ k \in DOMAIN Head(q.todo).commands
          /\ sent'[i].r = r /\ sent'[i].command = Head(q.todo).commands[k]
      BY <1>3, <3>1, NewTypes
    <3> HIDE DEF k
    <3> QED BY <1>2, <3>2 DEF Awaits
  <2> QED BY <2>1, <2>2
<1>7. ASSUME NEW i \in DOMAIN replies'
      PROVE  Awaited(replies[i])'
  <2>1. PICK j \in DOMAIN replies : replies'[i] = replies[j] /\ replies[j].r # r
    OBVIOUS
  <2>2. replies[j].r \in Requests /\ Awaited(replies[j])
    BY EntryTypes DEF PlanInv
  <2>3. requests'[replies'[i].r] = requests[replies[j].r]
    BY <1>2, <2>1, <2>2
  <2> QED BY <2>1, <2>2, <2>3 DEF Awaited, Awaits
<1>8. PlanInv'
  BY <1>5, <1>6, <1>7 DEF PlanInv
<1> QED BY <1>4, <1>8

\* A request that does not wait for redis has nothing on the way.
LEMMA Quiet ==
  ASSUME TypeInv, PlanInv, NEW r, ~Awaits(r, "redis")
  PROVE  /\ \A i \in DOMAIN sent : sent[i].r # r
         /\ \A i \in DOMAIN replies : replies[i].r # r
BY DEF PlanInv, Awaited

LEMMA Doing ==
  ASSUME TypeInv, PlanInv, NEW r \in Requests
  PROVE  /\ requests[r] \in Requested /\ requests[r].todo \in Seq(Steps)
         /\ requests[r].work = "none" => requests[r] = NoRequest /\ ~Awaits(r, "redis")
<1>1. requests[r] \in Requested
  BY DEF TypeInv, Requested
<1>2. requests[r].work = "none" => requests[r] = NoRequest
  BY DEF PlanInv
<1>3. requests[r] = NoRequest => ~Awaits(r, "redis")
  BY DEF Awaits, NoRequest
<1>4. requests[r].todo \in Seq(Steps)
  BY <1>1 DEF Requested
<1> QED BY <1>1, <1>2, <1>3, <1>4

LEMMA NoneTypes == NoRequest \in Requested /\ Plan(NoRequest) /\ Plan(NoRequest)'
  /\ NoRequest.todo = <<>> /\ NoRequest.got = {} /\ NoRequest.work = "none"
BY DEF NoRequest, Requested, Works, Plan

\* What a request may begin with.
Starts(q) ==
  \/ Head(q.todo) = Ask
  \/ \E c \in Cmds : /\ Head(q.todo) = Redis(<<c>>)
                     /\ c.key \notin {Buy, Sell} /\ (c.op = "set" => c.key # "image-report")
  \/ Head(q.todo) = Redis(ThreeGets)
  \/ saves' = saves + 1 /\ q.todo = <<SetBuy(saves'), SetSell(saves')>>
  \/ /\ Head(q.todo) = SetImage(seconds)
     /\ seconds \in unfinished' \/ \E i \in DOMAIN q.todo : q.todo[i] = Upload(seconds)

Begins(r, q) ==
  /\ requests[r].work = "none" /\ q.got = {} /\ q.work # "none"
  /\ Becomes(r, q) /\ SendsNext(r, q.todo) /\ Starts(q) /\ q.todo # <<>>
  /\ saves' \in {saves, saves + 1} /\ unfinished \subseteq unfinished'
  /\ Plan(q)'
  /\ UNCHANGED <<slots, objects, replies, seconds, cut>>

LEMMA BeginsOne ==
  ASSUME NEW r \in Requests, NEW work \in Works \ {"none"}, NEW todo \in Seq(Steps),
         BeginWork(r, work, todo), todo # <<>>,
         saves' \in {saves, saves + 1}, unfinished \subseteq unfinished',
         \A q : q.work = work /\ q.todo = todo => Plan(q)' /\ Starts(q)
  PROVE  \E q \in Requested : Begins(r, q)
<1> DEFINE q == [work |-> work, todo |-> todo, got |-> {}]
<1>1. /\ q \in Requested /\ q.work = work /\ q.todo = todo /\ q.got = {}
      /\ Becomes(r, q) /\ requests[r].work = "none"
      /\ UNCHANGED <<slots, objects, replies, seconds, cut>>
      /\ SendsNext(r, todo)
  BY DEF BeginWork, Requested
<1> HIDE DEF q
<1>2. Begins(r, q)
  BY <1>1 DEF Begins
<1> QED BY <1>1, <1>2

LEMMA CmdSteps ==
  /\ \A c \in Cmds : Redis(<<c>>) \in Steps
  /\ Ask \in Steps /\ Redis(ThreeGets) \in Steps
  /\ \A n \in Nat : Upload(n) \in Steps /\ SetImage(n) \in Steps
                    /\ SetBuy(n) \in Steps /\ SetSell(n) \in Steps
<1>1. \A c \in Cmds : Redis(<<c>>) \in Steps
  BY DEF Redis, Steps
<1>2. Ask \in Steps /\ \A n \in Nat : Upload(n) \in Steps
  BY DEF Ask, Upload, Steps
<1>3. Redis(ThreeGets) \in Steps
  <2>0. Get("save-identify-market") \in Cmds /\ Get(Buy) \in Cmds /\ Get(Sell) \in Cmds
    BY CmdTypes DEF Keys, Buy, Sell
  <2>1. ThreeGets \in Seq(Cmds)
    BY <2>0 DEF ThreeGets
  <2> HIDE DEF ThreeGets
  <2> QED BY <2>1 DEF Redis, Steps
<1>4. \A n \in Nat : /\ Set("image-report", n, 0) \in Cmds
                     /\ Set(Buy, n, 0) \in Cmds /\ Set(Sell, n, 0) \in Cmds
  BY CmdTypes DEF Keys, Buy, Sell
<1> QED BY <1>1, <1>2, <1>3, <1>4 DEF SetImage, SetBuy, SetSell

LEMMA BeginsPlain ==
  ASSUME TypeInv, NEW r \in Requests, NEW work \in Works, NEW c \in Cmds,
         BeginWork(r, work, <<Redis(<<c>>)>>), Plain(c)',
         work \notin {"none", "saveStockRecommend", "uploadImageReport"},
         c.key \notin {Buy, Sell}, c.op = "set" => c.key # "image-report",
         saves' \in {saves, saves + 1}, unfinished \subseteq unfinished'
  PROVE  \E q \in Requested : Begins(r, q)
<1> DEFINE todo == <<Redis(<<c>>)>>
<1>1. todo \in Seq(Steps) /\ todo # <<>> /\ Head(todo) = Redis(<<c>>)
  BY CmdSteps
<1>2. ASSUME NEW q, q.work = work, q.todo = todo
      PROVE  Plan(q)' /\ Starts(q)
  <2>1. Plan(q)'
    BY <1>2 DEF Plan, PlainPlan
  <2>2. Starts(q)
    BY <1>1, <1>2 DEF Starts
  <2> QED BY <2>1, <2>2
<1> HIDE DEF todo
<1>3. BeginWork(r, work, todo)
  BY DEF todo
<1> QED BY <1>1, <1>2, <1>3, BeginsOne

LEMMA SavesBegin ==
  ASSUME TypeInv, NEW r \in Requests, BeginSave(r)
  PROVE  \E q \in Requested : Begins(r, q)
<1>0. PICK n \in Nat : n = saves + 1
  BY DEF TypeInv
<1>1. /\ saves' = n /\ n = saves + 1 /\ n \in 0 .. saves' /\ n \in 1 .. saves' /\ saves' \in {saves, n}
      /\ unfinished \subseteq unfinished' /\ NewsIds \subseteq Nat
  BY <1>0 DEF BeginSave, TypeInv
<1>2. \/ \E id \in NewsIds : BeginWork(r, "saveNews", <<Redis(<<Set(NewsKey(id), n, id)>>)>>)
      \/ BeginWork(r, "saveIdentifyMarket", <<Redis(<<Set("save-identify-market", n, 0)>>)>>)
      \/ BeginWork(r, "saveMarketMovements", <<Redis(<<Set("save-market-movements", n, 0)>>)>>)
      \/ BeginWork(r, "saveMarketComment", <<Redis(<<Set("save-market-comment", n, 0)>>)>>)
      \/ BeginWork(r, "saveStockRecommend", <<SetBuy(n), SetSell(n)>>)
  BY <1>0, SaveForms DEF BeginSave
<1>3. ASSUME NEW id \in NewsIds,
             BeginWork(r, "saveNews", <<Redis(<<Set(NewsKey(id), n, id)>>)>>)
      PROVE  \E q \in Requested : Begins(r, q)
  <2> DEFINE c == Set(NewsKey(id), n, id)
  <2>1. c \in Cmds /\ Plain(c)'
    BY <1>1, CmdTypes DEF Plain
  <2>2. c.op = "set" /\ c.key \notin {Buy, Sell, "image-report"}
    BY <1>1, NewsKeys DEF Set, Buy, Sell
  <2> HIDE DEF c
  <2>3. BeginWork(r, "saveNews", <<Redis(<<c>>)>>)
    BY <1>3 DEF c
  <2> QED BY <1>1, <2>1, <2>2, <2>3, BeginsPlain DEF Works
<1>4. ASSUME NEW key \in {"save-identify-market", "save-market-movements",
                          "save-market-comment"},
             NEW work \in {"saveIdentifyMarket", "saveMarketMovements", "saveMarketComment"},
             BeginWork(r, work, <<Redis(<<Set(key, n, 0)>>)>>)
      PROVE  \E q \in Requested : Begins(r, q)
  <2> DEFINE c == Set(key, n, 0)
  <2>1. c \in Cmds
    BY <1>1, CmdTypes DEF Keys
  <2>2. Plain(c)'
    BY <1>1 DEF Plain
  <2>3. c.op = "set" /\ c.key \notin {Buy, Sell, "image-report"}
    BY DEF Set, Buy, Sell
  <2> HIDE DEF c
  <2>4. BeginWork(r, work, <<Redis(<<c>>)>>)
    BY <1>4 DEF c
  <2> QED BY <1>1, <2>1, <2>2, <2>3, <2>4, BeginsPlain DEF Works
<1>5. ASSUME BeginWork(r, "saveStockRecommend", <<SetBuy(n), SetSell(n)>>)
      PROVE  \E q \in Requested : Begins(r, q)
  <2> DEFINE todo == <<SetBuy(n), SetSell(n)>>
  <2>1. todo \in Seq(Steps) /\ todo # <<>>
    BY <1>1, CmdSteps
  <2>2. ASSUME NEW q, q.work = "saveStockRecommend", q.todo = todo
        PROVE  Plan(q)' /\ Starts(q)
    <3>1. Plan(q)'
      BY <1>1, <2>2 DEF Plan, StockPlan
    <3>2. Starts(q)
      BY <1>1, <2>2 DEF Starts
    <3> QED BY <3>1, <3>2
  <2> HIDE DEF todo
  <2>3. BeginWork(r, "saveStockRecommend", todo)
    BY <1>5 DEF todo
  <2> QED BY <1>1, <2>1, <2>2, <2>3, BeginsOne DEF Works
<1> QED BY <1>2, <1>3, <1>4, <1>5

LEMMA UploadsBegin ==
  ASSUME TypeInv, NEW r \in Requests, BeginUpload(r)
  PROVE  \E q \in Requested : Begins(r, q)
<1>0. PICK now \in Nat : now = seconds
  BY DEF TypeInv
<1>1. PICK files \in 0 .. 2 :
        /\ BeginWork(r, "uploadImageReport", uploadImageReport(now, files))
        /\ unfinished' = IF files = 0 THEN unfinished \cup {now} ELSE unfinished
  BY <1>0 DEF BeginUpload
<1>2. /\ saves' \in {saves, saves + 1} /\ unfinished \subseteq unfinished'
      /\ now \in 0 .. seconds' /\ seconds' = seconds /\ now = seconds
  BY <1>0, <1>1 DEF BeginUpload, BeginWork, TypeInv
<1> DEFINE todo == uploadImageReport(now, files)
<1>3. /\ todo \in Seq(Steps) /\ todo # <<>> /\ Head(todo) = SetImage(now)
      /\ \/ todo = <<SetImage(now)>> /\ now \in unfinished'
         \/ todo = <<SetImage(now), Upload(now)>>
         \/ todo = <<SetImage(now), Upload(now), Upload(now)>>
  <2>1. SetImage(now) \in Steps /\ Upload(now) \in Steps
    BY <1>2, CmdSteps
  <2>2. CASE files = 0
    <3>1. todo = <<SetImage(now)>> /\ now \in unfinished'
      BY <1>1, <2>2, UploadForms
    <3> QED BY <2>1, <3>1
  <2>3. CASE files = 1
    <3>1. todo = <<SetImage(now), Upload(now)>>
      BY <2>3, UploadForms
    <3> HIDE DEF todo
    <3> QED BY <2>1, <3>1
  <2>4. CASE files = 2
    <3>1. todo = <<SetImage(now), Upload(now), Upload(now)>>
      BY <2>4, UploadForms
    <3> HIDE DEF todo
    <3> QED BY <2>1, <3>1
  <2> QED BY <2>2, <2>3, <2>4
<1> HIDE DEF todo
<1>4. ASSUME NEW q, q.work = "uploadImageReport", q.todo = todo
      PROVE  Plan(q)' /\ Starts(q)
  <2>1. Plan(q)'
    BY <1>2, <1>3, <1>4 DEF Plan, UploadPlan
  <2>2. now \in unfinished' \/ \E i \in DOMAIN todo : todo[i] = Upload(now)
    <3>1. CASE todo = <<SetImage(now), Upload(now)>>
      <4>1. 2 \in DOMAIN todo /\ todo[2] = Upload(now)
        BY <3>1
      <4> QED BY <4>1
    <3>2. CASE todo = <<SetImage(now), Upload(now), Upload(now)>>
      <4>1. 2 \in DOMAIN todo /\ todo[2] = Upload(now)
        BY <3>2
      <4> QED BY <4>1
    <3> QED BY <1>3, <3>1, <3>2
  <2> QED BY <1>2, <1>3, <1>4, <2>1, <2>2 DEF Starts
<1>5. BeginWork(r, "uploadImageReport", todo)
  BY <1>1 DEF todo
<1> QED BY <1>2, <1>3, <1>4, <1>5, BeginsOne DEF Works

LEMMA ReadsBegin ==
  ASSUME TypeInv, NEW r \in Requests, BeginRead(r)
  PROVE  \E q \in Requested : Begins(r, q)
<1>1. saves' \in {saves, saves + 1} /\ unfinished \subseteq unfinished' /\ NewsIds \subseteq Nat
  BY DEF BeginRead
<1>2. \/ \E id \in NewsIds : BeginWork(r, "getNews", <<Redis(<<Get(NewsKey(id))>>)>>)
      \/ BeginWork(r, "identifyMarketRedis", <<Redis(ThreeGets)>>)
      \/ BeginWork(r, "afternoonReport1", <<Redis(<<Get("save-market-movements")>>), Ask>>)
      \/ BeginWork(r, "afternoonReport2", <<Ask, Redis(<<Get("save-market-comment")>>),
                                            Redis(<<Get("image-report")>>)>>)
  BY ReadForms DEF BeginRead
<1>3. ASSUME NEW id \in NewsIds, BeginWork(r, "getNews", <<Redis(<<Get(NewsKey(id))>>)>>)
      PROVE  \E q \in Requested : Begins(r, q)
  <2> DEFINE c == Get(NewsKey(id))
  <2>1. c \in Cmds /\ Plain(c)'
    BY <1>1, CmdTypes DEF Plain
  <2>2. c.op = "get" /\ c.key \notin {Buy, Sell}
    BY <1>1, NewsKeys DEF Get, Buy, Sell
  <2> HIDE DEF c
  <2>3. BeginWork(r, "getNews", <<Redis(<<c>>)>>)
    BY <1>3 DEF c
  <2> QED BY <1>1, <2>1, <2>2, <2>3, BeginsPlain DEF Works
<1>4. ASSUME BeginWork(r, "identifyMarketRedis", <<Redis(ThreeGets)>>)
      PROVE  \E q \in Requested : Begins(r, q)
  <2> DEFINE todo == <<Redis(ThreeGets)>>
  <2>1. todo \in Seq(Steps) /\ todo # <<>> /\ Head(todo) = Redis(ThreeGets)
    BY CmdSteps
  <2>2. ASSUME NEW q, q.work = "identifyMarketRedis", q.todo = todo
        PROVE  Plan(q)' /\ Starts(q)
    BY <2>1, <2>2 DEF Plan, ThreePlan, Starts
  <2> HIDE DEF todo
  <2>3. BeginWork(r, "identifyMarketRedis", todo)
    BY <1>4 DEF todo
  <2> QED BY <1>1, <2>1, <2>2, <2>3, BeginsOne DEF Works
<1> DEFINE m == Get("save-market-movements")
           c == Get("save-market-comment")
           i == Get("image-report")
<1>5. /\ m \in Cmds /\ c \in Cmds /\ i \in Cmds /\ m.op = "get" /\ m.key \notin {Buy, Sell}
      /\ Redis(<<m>>) \in Steps /\ Redis(<<c>>) \in Steps /\ Redis(<<i>>) \in Steps
  <2>1. /\ m \in Cmds /\ c \in Cmds /\ i \in Cmds /\ m.op = "get" /\ m.key \notin {Buy, Sell}
    BY CmdTypes DEF Get, Keys, Buy, Sell
  <2> HIDE DEF m, c, i
  <2> QED BY <2>1, CmdSteps
<1>6. ASSUME BeginWork(r, "afternoonReport1", <<Redis(<<m>>), Ask>>)
      PROVE  \E q \in Requested : Begins(r, q)
  <2> DEFINE todo == <<Redis(<<m>>), Ask>>
  <2>1. todo \in Seq(Steps) /\ todo # <<>> /\ Head(todo) = Redis(<<m>>)
    <3> HIDE DEF m
    <3> QED BY <1>5, CmdSteps
  <2>2. ASSUME NEW q, q.work = "afternoonReport1", q.todo = todo
        PROVE  Plan(q)' /\ Starts(q)
    <3>1. Plan(q)'
      BY <2>2 DEF Plan, AfternoonPlan
    <3>2. Starts(q)
      <4> HIDE DEF m, todo
      <4> QED BY <1>5, <2>1, <2>2 DEF Starts
    <3> QED BY <3>1, <3>2
  <2> HIDE DEF todo
  <2>3. BeginWork(r, "afternoonReport1", todo)
    BY <1>6 DEF todo
  <2> QED BY <1>1, <2>1, <2>2, <2>3, BeginsOne DEF Works
<1>7. ASSUME BeginWork(r, "afternoonReport2", <<Ask, Redis(<<c>>), Redis(<<i>>)>>)
      PROVE  \E q \in Requested : Begins(r, q)
  <2> DEFINE todo == <<Ask, Redis(<<c>>), Redis(<<i>>)>>
  <2>1. todo \in Seq(Steps) /\ todo # <<>> /\ Head(todo) = Ask
    <3> HIDE DEF c, i
    <3> QED BY <1>5, CmdSteps
  <2>2. ASSUME NEW q, q.work = "afternoonReport2", q.todo = todo
        PROVE  Plan(q)' /\ Starts(q)
    BY <2>1, <2>2 DEF Plan, AfternoonPlan, Starts
  <2> HIDE DEF todo
  <2>3. BeginWork(r, "afternoonReport2", todo)
    BY <1>7 DEF todo
  <2> QED BY <1>1, <2>1, <2>2, <2>3, BeginsOne DEF Works
<1> QED BY <1>2, <1>3, <1>4, <1>6, <1>7

-------------------------------------------------------------------------------
(* The kinds of step *)

\* The upload or the query that r was waiting for is done.
Continues(r, q) ==
  /\ requests[r].todo # <<>> /\ ~Awaits(r, "redis")
  /\ q.work = requests[r].work /\ q.got = requests[r].got /\ q.todo = Tail(requests[r].todo)
  /\ Becomes(r, q) /\ SendsNext(r, q.todo)
  /\ objects \subseteq objects'
  /\ Awaits(r, "minio") => Head(requests[r].todo).name \in objects'
  /\ UNCHANGED <<slots, replies, saves, seconds, unfinished, cut>>

\* Request r is over, with an answer or with an error that is not redis'.
Ends(r) ==
  /\ ~Awaits(r, "redis") /\ Becomes(r, NoRequest)
  /\ requests[r].todo # <<>> => Awaits(r, "minio") \/ Awaits(r, "mssql")
  /\ unfinished \subseteq unfinished'
  /\ Awaits(r, "minio") => Head(requests[r].todo).name \in unfinished'
  /\ UNCHANGED <<slots, objects, sent, replies, saves, seconds, cut>>

\* The first reply arrives.
Got(r) ==
  LET c == replies[1].command
  IN IF c.op = "get" THEN requests[r].got \cup {<<c.key, c.value>>} ELSE requests[r].got
Takes(r, q) ==
  /\ replies # <<>> /\ r = replies[1].r /\ replies' = Tail(replies)
  /\ q.work = requests[r].work /\ q.got = Got(r) /\ Becomes(r, q)
  /\ \/ q.todo = requests[r].todo /\ sent' = sent
     \/ /\ q.todo = Tail(requests[r].todo) /\ SendsNext(r, q.todo)
        /\ \A i \in DOMAIN sent : sent[i].r # r
        /\ \A i \in 2 .. Len(replies) : replies[i].r # r
  /\ UNCHANGED <<slots, objects, saves, seconds, unfinished, cut>>

\* Request r, a save without stocks to sell, is over once those to buy are saved.
Drops(r) ==
  /\ replies # <<>> /\ r = replies[1].r /\ replies' = Tail(replies) /\ Becomes(r, NoRequest)
  /\ \A i \in DOMAIN sent : sent[i].r # r
  /\ \A i \in 2 .. Len(replies) : replies[i].r # r
  /\ requests[r].work = "saveStockRecommend" /\ cut' = TRUE
  /\ UNCHANGED <<slots, objects, sent, saves, seconds, unfinished>>

LEMMA TodoTail ==
  ASSUME TypeInv, PlanInv, NEW r \in Requests, requests[r].todo # <<>>
  PROVE  /\ Tail(requests[r].todo) \in Seq(Steps) /\ Tail(requests[r].todo) # requests[r].todo
         /\ requests[r].work # "none"
<1>1. requests[r].todo \in Seq(Steps)
  BY Doing
<1>2. requests[r].work # "none"
  BY PlanFacts DEF Facts, HeadFacts
<1> QED BY <1>1, <1>2, Tails

LEMMA DoneContinues ==
  ASSUME TypeInv, PlanInv, NEW r \in Requests, requests[r].todo # <<>>, ~Awaits(r, "redis"),
         Becomes(r, [requests[r] EXCEPT !.todo = Tail(@)]),
         SendsNext(r, Tail(requests[r].todo)),
         objects \subseteq objects', Awaits(r, "minio") => Head(requests[r].todo).name \in objects',
         UNCHANGED <<slots, replies, saves, seconds, unfinished, cut>>
  PROVE  \E q \in Requested : Continues(r, q)
<1> DEFINE q == [requests[r] EXCEPT !.todo = Tail(@)]
<1>1. /\ q \in Requested /\ q.work = requests[r].work /\ q.got = requests[r].got
      /\ q.todo = Tail(requests[r].todo)
  BY Doing, TodoTail DEF Requested
<1> HIDE DEF q
<1>2. Becomes(r, q)
  BY DEF q
<1> QED BY <1>1, <1>2 DEF Continues

LEMMA ReceiveTakes ==
  ASSUME TypeInv, PlanInv, Receive
  PROVE  \E r \in Requests : \E q \in Requested : Takes(r, q)
<1> DEFINE r == replies[1].r
           c == replies[1].command
           more == \/ \E i \in 2 .. Len(replies) : replies[i].r = r
                   \/ \E i \in DOMAIN sent : sent[i].r = r
           todo == IF LastReply THEN Tail(requests[r].todo) ELSE requests[r].todo
<1>0. replies # <<>> /\ replies \in Seq(Entries)
  BY DEF Receive, TypeInv
<1>1. Head(replies) = replies[1] /\ 1 \in DOMAIN replies
  BY <1>0
<1>2. r \in Requests /\ requests[r].todo # <<>> /\ c \in Cmds /\ (LastReply <=> ~more)
  BY <1>1, EntryTypes DEF PlanInv, Awaited, Awaits, LastReply
<1>3. /\ Becomes(r, [requests[r] EXCEPT !.todo = todo, !.got = Got(r)])
      /\ IF todo = requests[r].todo THEN UNCHANGED sent ELSE SendsNext(r, todo)
      /\ replies' = Tail(replies)
      /\ UNCHANGED <<slots, objects, saves, seconds, unfinished, cut>>
  BY <1>1 DEF Receive, Got
<1>4. c.key \in Keys /\ c.value \in Values /\ Got(r) \in SUBSET (Keys \X Values)
  BY <1>2, Doing DEF Got, Cmds, Requested
<1>5. todo \in Seq(Steps) /\ (~more => todo # requests[r].todo /\ todo = Tail(requests[r].todo))
      /\ (more => todo = requests[r].todo)
  BY <1>2, TodoTail, Doing
<1> DEFINE q == [requests[r] EXCEPT !.todo = todo, !.got = Got(r)]
<1>6. /\ q \in Requested /\ q.work = requests[r].work /\ q.got = Got(r) /\ q.todo = todo
  <2> HIDE DEF todo, r
  <2> QED BY <1>2, <1>4, <1>5, Doing DEF Requested
<1> HIDE DEF q, todo
<1>7. Becomes(r, q)
  BY <1>3 DEF q
<1>8. CASE more
  BY <1>0, <1>2, <1>3, <1>5, <1>6, <1>7, <1>8 DEF Takes
<1>9. CASE ~more
  BY <1>0, <1>2, <1>3, <1>5, <1>6, <1>7, <1>9 DEF Takes
<1> QED BY <1>8, <1>9

LEMMA MissingDrops ==
  ASSUME TypeInv, PlanInv, SellMissing
  PROVE  \E r \in Requests : Drops(r)
<1>1. replies # <<>> /\ Head(replies) = replies[1] /\ 1 \in DOMAIN replies
  BY DEF SellMissing, TypeInv
<1>2. replies[1].r \in Requests
  BY <1>1, EntryTypes
<1> QED BY <1>1, <1>2 DEF SellMissing, LastReply, Drops

LEMMA StepKinds ==
  ASSUME TypeInv, PlanInv, [ReportNext]_reportVars
  PROVE  \/ \E r \in Requests : \E q \in Requested : Begins(r, q) \/ Continues(r, q) \/ Takes(r, q)
         \/ \E r \in Requests : Ends(r)
         \/ \E r \in Requests : Drops(r)
         \/ CarryOut \/ ConnectionLost
         \/ \E key \in DOMAIN slots : Expire(key)
         \/ Second
         \/ UNCHANGED reportVars
<1> DEFINE Goal == \/ \E r \in Requests : \E q \in Requested : Begins(r, q) \/ Continues(r, q) \/ Takes(r, q)
                   \/ \E r \in Requests : Ends(r)
                   \/ \E r \in Requests : Drops(r)
                   \/ CarryOut \/ ConnectionLost
                   \/ \E key \in DOMAIN slots : Expire(key)
                   \/ Second
                   \/ UNCHANGED reportVars
<1>1. ASSUME NEW r \in Requests, BeginSave(r) \/ BeginUpload(r) \/ BeginRead(r) PROVE Goal
  BY <1>1, SavesBegin, UploadsBegin, ReadsBegin
<1>2. ASSUME NEW r \in Requests, Uploaded(r) PROVE Goal
  <2>1. Awaits(r, "minio") /\ requests[r].todo # <<>> /\ ~Awaits(r, "redis")
    BY <1>2 DEF Uploaded, Awaits
  <2>2. \E q \in Requested : Continues(r, q)
    BY <1>2, <2>1, DoneContinues DEF Uploaded
  <2> QED BY <2>2
<1>3. ASSUME NEW r \in Requests, UploadFails(r) PROVE Goal
  <2>1. Awaits(r, "minio") /\ requests[r].todo # <<>> /\ ~Awaits(r, "redis")
    BY <1>3 DEF UploadFails, Awaits
  <2>2. Ends(r)
    BY <1>3, <2>1 DEF UploadFails, Ends
  <2> QED BY <2>2
<1>4. ASSUME NEW r \in Requests, QueryEnds(r) PROVE Goal
  <2>1. Awaits(r, "mssql") /\ requests[r].todo # <<>> /\ ~Awaits(r, "redis") /\ ~Awaits(r, "minio")
    BY <1>4 DEF QueryEnds, Awaits
  <2>2. CASE SendsNext(r, Tail(requests[r].todo)) /\ Becomes(r, [requests[r] EXCEPT !.todo = Tail(@)])
    BY <1>4, <2>1, <2>2, DoneContinues DEF QueryEnds
  <2>3. CASE Becomes(r, NoRequest) /\ UNCHANGED sent
    BY <1>4, <2>1, <2>3 DEF QueryEnds, Ends
  <2> QED BY <1>4, <2>2, <2>3 DEF QueryEnds
<1>5. ASSUME NEW r \in Requests, Answer(r) PROVE Goal
  <2>1. requests[r].todo = <<>> /\ ~Awaits(r, "redis") /\ ~Awaits(r, "minio")
    BY <1>5 DEF Answer, Awaits
  <2>2. Ends(r)
    BY <1>5, <2>1 DEF Answer, Ends
  <2> QED BY <2>2
<1>6. CASE Receive
  BY <1>6, ReceiveTakes
<1>7. CASE SellMissing
  BY <1>7, MissingDrops
<1> QED BY <1>1, <1>2, <1>3, <1>4, <1>5, <1>6, <1>7 DEF ReportNext

LEMMA BeginsKeep ==
  ASSUME TypeInv, PlanInv, NEW r \in Requests, NEW q \in Requested, Begins(r, q)
  PROVE  TypeInv' /\ PlanInv'
<1>1. ~Awaits(r, "redis")
  BY Doing DEF Begins
<1>2. /\ saves' \in Nat /\ saves <= saves' /\ seconds' \in Nat /\ seconds <= seconds'
      /\ cut' \in BOOLEAN /\ \A key \in DOMAIN slots' : slots'[key] \in Values
      /\ replies' = replies /\ replies' \in Seq(Entries) /\ unfinished \subseteq unfinished'
  BY DEF Begins, TypeInv
<1>3. Becomes(r, q) /\ SendsNext(r, q.todo) /\ Plan(q)' /\ (q.work = "none" => q = NoRequest)
  BY DEF Begins
<1> QED BY <1>1, <1>2, <1>3, Quiet, Moving

LEMMA ContinuesKeep ==
  ASSUME TypeInv, PlanInv, NEW r \in Requests, NEW q \in Requested, Continues(r, q)
  PROVE  TypeInv' /\ PlanInv'
<1>1. /\ saves' \in Nat /\ saves <= saves' /\ seconds' \in Nat /\ seconds <= seconds'
      /\ cut' \in BOOLEAN /\ \A key \in DOMAIN slots' : slots'[key] \in Values
      /\ replies' = replies /\ replies' \in Seq(Entries) /\ unfinished \subseteq unfinished'
  BY DEF Continues, TypeInv
<1>2. /\ Becomes(r, q) /\ SendsNext(r, q.todo) /\ q.work # "none" /\ ~Awaits(r, "redis")
  BY TodoTail DEF Continues
<1>3. Plan(q)
  BY PlanFacts DEF Facts, Continues
<1>4. Plan(q)'
  BY <1>1, <1>3, PlanGrows
<1> QED BY <1>1, <1>2, <1>4, Quiet, Moving

LEMMA EndsKeep ==
  ASSUME TypeInv, PlanInv, NEW r \in Requests, Ends(r)
  PROVE  TypeInv' /\ PlanInv'
<1>1. /\ saves' \in Nat /\ saves <= saves' /\ seconds' \in Nat /\ seconds <= seconds'
      /\ cut' \in BOOLEAN /\ \A key \in DOMAIN slots' : slots'[key] \in Values
      /\ replies' = replies /\ replies' \in Seq(Entries) /\ unfinished \subseteq unfinished'
  BY DEF Ends, TypeInv
<1>2. Becomes(r, NoRequest) /\ SendsNext(r, NoRequest.todo) /\ ~Awaits(r, "redis")
  BY NoneTypes DEF Ends, SendsNext
<1> QED BY <1>1, <1>2, NoneTypes, Quiet, Moving

LEMMA TakesKeep ==
  ASSUME TypeInv, PlanInv, NEW r \in Requests, NEW q \in Requested, Takes(r, q)
  PROVE  TypeInv' /\ PlanInv'
<1>1. /\ saves' \in Nat /\ saves <= saves' /\ seconds' \in Nat /\ seconds <= seconds'
      /\ cut' \in BOOLEAN /\ \A key \in DOMAIN slots' : slots'[key] \in Values
      /\ unfinished \subseteq unfinished' /\ Becomes(r, q)
  BY DEF Takes, TypeInv
<1>2. /\ replies \in Seq(Entries) /\ replies # <<>> /\ replies' = Tail(replies)
      /\ replies' \in Seq(Entries) /\ DOMAIN replies = 1 .. Len(replies)
      /\ \A i \in DOMAIN replies' : i + 1 \in 2 .. Len(replies) /\ replies'[i] = replies[i + 1]
      /\ 1 \in DOMAIN replies /\ Len(replies) \in Nat
  BY Tails DEF Takes, TypeInv
<1>3. r = replies[1].r /\ requests[r].todo # <<>> /\ q.work # "none"
  BY <1>2, TodoTail DEF Takes, PlanInv, Awaited, Awaits
<1>4. CASE /\ q.todo = Tail(requests[r].todo) /\ SendsNext(r, q.todo)
           /\ \A i \in DOMAIN sent : sent[i].r # r
           /\ \A i \in 2 .. Len(replies) : replies[i].r # r
  <2>1. Plan(q)
    BY <1>3, <1>4, PlanFacts DEF Facts, Takes
  <2>2. Plan(q)'
    BY <1>1, <2>1, PlanGrows
  <2>3. \A i \in DOMAIN replies' : /\ replies'[i].r # r
                                   /\ \E j \in DOMAIN replies : replies'[i] = replies[j]
    BY <1>2, <1>4
  <2> QED BY <1>1, <1>2, <1>3, <1>4, <2>2, <2>3, Moving
<1>5. CASE q.todo = requests[r].todo /\ sent' = sent
  <2>1. /\ requests' \in [Requests -> Requested] /\ requests'[r] = q
        /\ \A s \in Requests : s # r => requests'[s] = requests[s]
    BY <1>1 DEF Becomes, TypeInv, Requested
  <2>2. TypeInv'
    BY <1>1, <1>2, <1>5, <2>1 DEF TypeInv, Requested
  <2>3. \A s \in Requests : /\ requests'[s].todo = requests[s].todo
                            /\ requests'[s].work = requests[s].work
                            /\ requests'[s].work = "none" => requests'[s] = requests[s]
    BY <1>3, <1>5, <2>1 DEF Takes
  <2>4. ASSUME NEW s \in Requests
        PROVE  Plan(requests[s])' /\ (requests'[s].work = "none" => requests'[s] = NoRequest)
    <3>1. Plan(requests[s])
      BY DEF PlanInv
    <3>2. UNCHANGED <<saves, seconds, unfinished>>
      BY DEF Takes
    <3>3. Plan(requests[s])'
      BY <2>3, <3>1, <3>2 DEF Plan, PlainPlan, Plain, ThreePlan, StockPlan, AfternoonPlan, UploadPlan
    <3> QED BY <2>3, <3>3 DEF PlanInv
  <2>5. ASSUME NEW i \in DOMAIN sent'
        PROVE  /\ Awaits(sent[i].r, "redis")'
               /\ \E k \in DOMAIN Head(requests'[sent'[i].r].todo).commands :
                    sent'[i].command = Head(requests'[sent'[i].r].todo).commands[k]
    <3>1. i \in DOMAIN sent /\ sent'[i] = sent[i] /\ sent[i].r \in Requests
      BY <1>5, EntryTypes
    <3>2. requests'[sent'[i].r].todo = requests[sent[i].r].todo
      BY <2>3, <3>1
    <3> QED BY <3>1, <3>2 DEF PlanInv, Awaits
  <2>6. ASSUME NEW i \in DOMAIN replies'
        PROVE  Awaited(replies[i])'
    <3>1. PICK j \in DOMAIN replies : replies'[i] = replies[j]
      BY <1>2
    <3>2. replies[j].r \in Requests /\ Awaited(replies[j])
      BY EntryTypes DEF PlanInv
    <3>3. requests'[replies'[i].r].todo = requests[replies[j].r].todo
      BY <2>3, <3>1, <3>2
    <3> QED BY <3>1, <3>2, <3>3 DEF Awaited, Awaits
  <2>7. PlanInv'
    BY <2>4, <2>5, <2>6 DEF PlanInv
  <2> QED BY <2>2, <2>7
<1> QED BY <1>4, <1>5 DEF Takes

LEMMA DropsKeep ==
  ASSUME TypeInv, PlanInv, NEW r \in Requests, Drops(r)
  PROVE  TypeInv' /\ PlanInv'
<1>1. /\ saves' \in Nat /\ saves <= saves' /\ seconds' \in Nat /\ seconds <= seconds'
      /\ cut' \in BOOLEAN /\ \A key \in DOMAIN slots' : slots'[key] \in Values
      /\ unfinished \subseteq unfinished' /\ Becomes(r, NoRequest)
  BY DEF Drops, TypeInv
<1>2. SendsNext(r, NoRequest.todo)
  BY NoneTypes DEF Drops, SendsNext, NoRequest
<1>3. /\ replies \in Seq(Entries) /\ replies # <<>> /\ replies' = Tail(replies)
      /\ replies' \in Seq(Entries) /\ DOMAIN replies = 1 .. Len(replies)
      /\ \A i \in DOMAIN replies' : i + 1 \in 2 .. Len(replies) /\ replies'[i] = replies[i + 1]
  BY Tails DEF Drops, TypeInv
<1>4. \A i \in DOMAIN replies' : /\ replies'[i].r # r
                                 /\ \E j \in DOMAIN replies : replies'[i] = replies[j]
  BY <1>3 DEF Drops
<1>5. \A i \in DOMAIN sent : sent[i].r # r
  BY DEF Drops
<1> QED BY <1>1, <1>2, <1>3, <1>4, <1>5, NoneTypes, Moving

\* Redis carries out the first command.
LEMMA Carried ==
  ASSUME TypeInv, CarryOut
  PROVE  /\ sent # <<>> /\ 1 \in DOMAIN sent /\ sent' = Tail(sent) /\ sent' \in Seq(Entries)
         /\ DOMAIN sent' = 1 .. Len(sent) - 1
         /\ \A i \in DOMAIN sent' : i + 1 \in DOMAIN sent /\ sent'[i] = sent[i + 1]
         /\ sent[1].r \in Requests /\ sent[1].command \in Cmds
         /\ \E e \in Entries :
              /\ e.r = sent[1].r /\ e.command.op = sent[1].command.op
              /\ e.command.key = sent[1].command.key
              /\ e.command.op = "get" => e.command.value = InSlot(e.command.key)
              /\ replies' = Append(replies, e)
         /\ IF sent[1].command.op = "get" THEN slots' = slots
            ELSE slots' = [k \in DOMAIN slots \cup {sent[1].command.key} |->
                             IF k = sent[1].command.key THEN sent[1].command.value ELSE slots[k]]
         /\ UNCHANGED <<objects, requests, saves, seconds, unfinished, cut>>
<1>1. sent # <<>> /\ sent \in Seq(Entries)
  BY DEF CarryOut, TypeInv
<1>2. /\ 1 \in DOMAIN sent /\ Head(sent) = sent[1] /\ Tail(sent) \in Seq(Entries)
      /\ DOMAIN Tail(sent) = 1 .. Len(sent) - 1 /\ DOMAIN sent = 1 .. Len(sent)
      /\ \A i \in 1 .. Len(sent) - 1 : i + 1 \in DOMAIN sent /\ Tail(sent)[i] = sent[i + 1]
  BY <1>1, Tails
<1> DEFINE c == sent[1].command
           v == IF c.op = "get" THEN InSlot(c.key) ELSE Blank
           e == [r |-> sent[1].r, command |-> [op |-> c.op, key |-> c.key, value |-> v]]
<1>3. sent[1] \in Entries /\ c \in Cmds /\ sent[1].r \in Requests
  BY <1>2, EntryTypes
<1>4. v \in Values
  BY DEF TypeInv, InSlot, Blank, Values
<1>5. [sent[1] EXCEPT !.command.value = v] = e
  <2> HIDE DEF v
  <2> QED BY <1>3 DEF Entries, Cmds
<1>6. e \in Entries
  BY <1>3, <1>4 DEF Entries, Cmds
<1>7. replies' = Append(replies, [sent[1] EXCEPT !.command.value = v])
  BY <1>2 DEF CarryOut
<1>8. /\ e.r = sent[1].r /\ e.command.op = c.op /\ e.command.key = c.key
      /\ e.command.op = "get" => e.command.value = InSlot(e.command.key)
  OBVIOUS
<1>9. IF c.op = "get" THEN slots' = slots
      ELSE slots' = [k \in DOMAIN slots \cup {c.key} |-> IF k = c.key THEN c.value ELSE slots[k]]
  BY <1>2 DEF CarryOut
<1> HIDE DEF e
<1> QED BY <1>1, <1>2, <1>3, <1>5, <1>6, <1>7, <1>8, <1>9 DEF CarryOut

LEMMA CarryKeeps ==
  ASSUME TypeInv, PlanInv, CarryOut
  PROVE  TypeInv' /\ PlanInv'
<1>1. PICK e \in Entries :
        /\ e.r = sent[1].r /\ e.command.op = sent[1].command.op
        /\ e.command.key = sent[1].command.key /\ replies' = Append(replies, e)
  BY Carried
<1>2. /\ replies \in Seq(Entries) /\ replies' \in Seq(Entries)
      /\ \A i \in DOMAIN replies' : \/ i \in DOMAIN replies /\ replies'[i] = replies[i]
                                    \/ replies'[i] = e
  BY <1>1, Appends DEF TypeInv
<1>3. \A key \in DOMAIN slots' : slots'[key] \in Values
  <2>1. sent[1].command.value \in Values /\ \A key \in DOMAIN slots : slots[key] \in Values
    BY Carried DEF Cmds, TypeInv
  <2> QED BY <2>1, Carried
<1>4. TypeInv'
  BY <1>2, <1>3, Carried DEF TypeInv
<1>5. UNCHANGED <<requests, saves, seconds, unfinished>>
  BY Carried
<1>6. \A r \in Requests : Plan(requests[r])' /\ (requests'[r].work = "none" => requests'[r] = NoRequest)
  BY <1>5 DEF PlanInv, Plan, PlainPlan, Plain, ThreePlan, StockPlan, AfternoonPlan, UploadPlan
<1>7. ASSUME NEW i \in DOMAIN sent'
      PROVE  /\ Awaits(sent[i].r, "redis")'
             /\ \E k \in DOMAIN Head(requests'[sent'[i].r].todo).commands :
                  sent'[i].command = Head(requests'[sent'[i].r].todo).commands[k]
  <2>1. i + 1 \in DOMAIN sent /\ sent'[i] = sent[i + 1]
    BY Carried
  <2>2. /\ Awaits(sent[i + 1].r, "redis")
        /\ \E k \in DOMAIN Head(requests[sent[i + 1].r].todo).commands :
             sent[i + 1].command = Head(requests[sent[i + 1].r].todo).commands[k]
    BY <2>1 DEF PlanInv
  <2> QED BY <1>5, <2>1, <2>2 DEF Awaits
<1>8. Awaited(e)
  <2>1. /\ Awaits(sent[1].r, "redis")
        /\ \E k \in DOMAIN Head(requests[sent[1].r].todo).commands :
             sent[1].command = Head(requests[sent[1].r].todo).commands[k]
    BY Carried DEF PlanInv
  <2> QED BY <1>1, <2>1 DEF Awaited
<1>9. ASSUME NEW i \in DOMAIN replies' PROVE Awaited(replies[i])'
  <2>1. Awaited(replies'[i])
    BY <1>2, <1>8 DEF PlanInv
  <2> QED BY <1>5, <2>1 DEF Awaited, Awaits
<1>10. PlanInv'
  BY <1>6, <1>7, <1>9 DEF PlanInv
<1> QED BY <1>4, <1>10

\* What a loss of the connection leaves of request r.
LEMMA Lost ==
  ASSUME TypeInv, PlanInv, ConnectionLost
  PROVE  /\ sent' = <<>> /\ replies' = <<>> /\ DOMAIN sent' = {} /\ DOMAIN replies' = {}
         /\ requests' \in [Requests -> Requested]
         /\ \A r \in Requests : requests'[r] = IF Awaits(r, "redis") THEN NoRequest ELSE requests[r]
         /\ UNCHANGED <<slots, objects, saves, seconds>>
         /\ unfinished \subseteq unfinished'
<1>1. requests' = [r \in Requests |-> IF Awaits(r, "redis") THEN NoRequest ELSE requests[r]]
  BY DEF ConnectionLost
<1> QED BY <1>1, Doing, NoneTypes DEF ConnectionLost

LEMMA LostKeeps ==
  ASSUME TypeInv, PlanInv, ConnectionLost
  PROVE  TypeInv' /\ PlanInv'
<1>1. cut' \in BOOLEAN
  BY DEF ConnectionLost, TypeInv
<1>2. TypeInv'
  <2>1. \A key \in DOMAIN slots' : slots'[key] \in Values
    BY Lost DEF TypeInv
  <2>2. sent' \in Seq(Entries) /\ replies' \in Seq(Entries)
    BY Lost
  <2>3. saves' \in Nat /\ seconds' \in Nat
    BY Lost DEF TypeInv
  <2>4. requests' \in [Requests -> Requested]
    BY Lost
  <2> QED BY <1>1, <2>1, <2>2, <2>3, <2>4 DEF TypeInv, Requested
<1>3. ASSUME NEW r \in Requests
      PROVE  Plan(requests[r])' /\ (requests'[r].work = "none" => requests'[r] = NoRequest)
  <2>1. /\ saves' \in Nat /\ saves <= saves' /\ seconds' \in Nat /\ seconds <= seconds'
        /\ unfinished \subseteq unfinished'
    BY Lost DEF TypeInv
  <2>2. Plan(requests[r]) /\ (requests[r].work = "none" => requests[r] = NoRequest)
    BY DEF PlanInv
  <2>3. CASE Awaits(r, "redis")
    BY <2>3, Lost, NoneTypes
  <2>4. CASE ~Awaits(r, "redis")
    BY <2>1, <2>2, <2>4, Lost, PlanGrows
  <2> QED BY <2>3, <2>4
<1>4. PlanInv'
  BY <1>3, Lost DEF PlanInv
<1> QED BY <1>2, <1>4

LEMMA RestKeeps ==
  ASSUME TypeInv, PlanInv,
         (\E key \in DOMAIN slots : Expire(key)) \/ Second \/ UNCHANGED reportVars
  PROVE  TypeInv' /\ PlanInv'
<1>1. /\ UNCHANGED <<objects, sent, replies, requests, saves, unfinished, cut>>
      /\ seconds' \in Nat /\ seconds <= seconds'
      /\ \A key \in DOMAIN slots' : key \in DOMAIN slots /\ slots'[key] = slots[key]
  <2>1. CASE \E key \in DOMAIN slots : Expire(key)
    BY <2>1 DEF Expire, TypeInv
  <2>2. CASE Second
    BY <2>2 DEF Second, TypeInv
  <2>3. CASE UNCHANGED reportVars
    BY <2>3 DEF reportVars, TypeInv
  <2> QED BY <2>1, <2>2, <2>3
<1>2. TypeInv'
  BY <1>1 DEF TypeInv
<1>3. \A r \in Requests : Plan(requests[r])' /\ (requests'[r].work = "none" => requests'[r] = NoRequest)
  <2>1. saves' \in Nat /\ saves <= saves' /\ unfinished \subseteq unfinished'
    BY <1>1 DEF TypeInv
  <2> QED BY <1>1, <2>1, PlanGrows DEF PlanInv
<1>4. PlanInv'
  BY <1>1, <1>3 DEF PlanInv, Awaited, Awaits
<1> QED BY <1>2, <1>4

\* Every step keeps the types and the plans.
LEMMA TypesAndPlans == ASSUME TypeInv, PlanInv, [ReportNext]_reportVars PROVE TypeInv' /\ PlanInv'
BY StepKinds, BeginsKeep, ContinuesKeep, EndsKeep, TakesKeep, DropsKeep, CarryKeeps, LostKeeps, RestKeeps

-------------------------------------------------------------------------------
(* What a step adds to the commands on their way *)

LEMMA SentFacts ==
  ASSUME TypeInv, PlanInv, NEW i \in DOMAIN sent
  PROVE  /\ CommandFacts(requests[sent[i].r], sent[i].command)
         /\ sent[i].r \in Requests /\ Awaits(sent[i].r, "redis")
<1>1. /\ sent[i].r \in Requests /\ Awaits(sent[i].r, "redis")
      /\ \E k \in DOMAIN Head(requests[sent[i].r].todo).commands :
           sent[i].command = Head(requests[sent[i].r].todo).commands[k]
  BY EntryTypes DEF PlanInv
<1>2. HeadFacts(requests[sent[i].r])
  BY <1>1, PlanFacts DEF Facts, Awaits
<1> QED BY <1>1, <1>2 DEF HeadFacts, Awaits

\* The only command that is sent when todo begins with it.
LEMMA SendsSingle ==
  ASSUME TypeInv, NEW r \in Requests, NEW todo \in Seq(Steps), SendsNext(r, todo), todo # <<>>,
         NEW c, Head(todo) = Redis(<<c>>)
  PROVE  /\ DOMAIN sent' = 1 .. Len(sent) + 1 /\ DOMAIN sent = 1 .. Len(sent) /\ Len(sent) \in Nat
         /\ \A i \in DOMAIN sent : i \in DOMAIN sent' /\ sent'[i] = sent[i]
         /\ sent'[Len(sent) + 1].r = r /\ sent'[Len(sent) + 1].command = c
<1>1. Head(todo).to = "redis" /\ Head(todo).commands = <<c>>
  BY DEF Redis
<1>2. /\ NewEntries(r, todo) = [i \in DOMAIN <<c>> |-> [r |-> r, command |-> <<c>>[i]]]
  BY <1>1 DEF NewEntries
<1>3. Len(NewEntries(r, todo)) = 1 /\ NewEntries(r, todo)[1] = [r |-> r, command |-> c]
      /\ DOMAIN NewEntries(r, todo) = {1}
  BY <1>2
<1> DEFINE new == NewEntries(r, todo)
<1> HIDE DEF new
<1>4. Len(new) = 1 /\ new[1].r = r /\ new[1].command = c
  BY <1>3 DEF new
<1>5. /\ sent' = sent \o new /\ sent \in Seq(Entries) /\ new \in Seq(Entries)
  BY Sending, NewTypes DEF TypeInv, new
<1>6. \A i \in 1 .. Len(new) : sent'[Len(sent) + i] = new[i]
  BY <1>5, Concats
<1>7. /\ DOMAIN sent' = 1 .. Len(sent) + 1 /\ DOMAIN sent = 1 .. Len(sent) /\ Len(sent) \in Nat
      /\ \A i \in DOMAIN sent : i \in DOMAIN sent' /\ sent'[i] = sent[i]
  BY <1>4, Sending DEF new
<1> QED BY <1>4, <1>6, <1>7

LEMMA SendsNone ==
  ASSUME NEW r, NEW todo, SendsNext(r, todo), todo = <<>> \/ Head(todo).to # "redis"
  PROVE  sent' = sent
BY DEF SendsNext

LEMMA SendsThree ==
  ASSUME TypeInv, NEW r \in Requests, NEW todo \in Seq(Steps), SendsNext(r, todo), todo # <<>>,
         Head(todo) = Redis(ThreeGets)
  PROVE  /\ DOMAIN sent' = 1 .. Len(sent) + 3 /\ DOMAIN sent = 1 .. Len(sent) /\ Len(sent) \in Nat
         /\ \A i \in DOMAIN sent : i \in DOMAIN sent' /\ sent'[i] = sent[i]
         /\ \A i \in 1 .. 3 : sent'[Len(sent) + i].r = r
         /\ sent'[Len(sent) + 1].command = Get("save-identify-market")
         /\ sent'[Len(sent) + 2].command = Get(Buy)
         /\ sent'[Len(sent) + 3].command = Get(Sell)
<1> DEFINE new == NewEntries(r, todo)
<1>1. Head(todo).to = "redis" /\ Head(todo).commands = ThreeGets
  BY DEF Redis
<1>2. new = [i \in DOMAIN ThreeGets |-> [r |-> r, command |-> ThreeGets[i]]]
  BY <1>1 DEF NewEntries
<1>3. /\ DOMAIN ThreeGets = 1 .. 3 /\ ThreeGets[1] = Get("save-identify-market")
      /\ ThreeGets[2] = Get(Buy) /\ ThreeGets[3] = Get(Sell)
  BY DEF ThreeGets
<1>4. /\ DOMAIN new = 1 .. 3 /\ \A i \in 1 .. 3 : new[i].r = r /\ new[i].command = ThreeGets[i]
  BY <1>2, <1>3
<1> HIDE DEF new
<1>5. /\ sent' = sent \o new /\ sent \in Seq(Entries) /\ new \in Seq(Entries)
  BY Sending, NewTypes DEF TypeInv, new
<1>6. Len(new) = 3
  BY <1>4, <1>5
<1>7. \A i \in 1 .. Len(new) : sent'[Len(sent) + i] = new[i]
  BY <1>5, Concats
<1>8. /\ DOMAIN sent' = 1 .. Len(sent) + 3 /\ DOMAIN sent = 1 .. Len(sent) /\ Len(sent) \in Nat
      /\ \A i \in DOMAIN sent : i \in DOMAIN sent' /\ sent'[i] = sent[i]
  BY <1>6, Sending DEF new
<1> QED BY <1>3, <1>4, <1>6, <1>7, <1>8

\* The stocks to buy have been saved by request r: it now saves those to sell.
SendsSell(r, n) ==
  /\ requests[r].todo = <<SetBuy(n), SetSell(n)>>
  /\ DOMAIN sent' = 1 .. Len(sent) + 1
  /\ \A i \in DOMAIN sent : i \in DOMAIN sent' /\ sent'[i] = sent[i]
  /\ sent'[Len(sent) + 1].r = r /\ sent'[Len(sent) + 1].command = Set(Sell, n, 0)
SendsOther(r) ==
  /\ DOMAIN sent' = 1 .. Len(sent) + 1
  /\ \A i \in DOMAIN sent : i \in DOMAIN sent' /\ sent'[i] = sent[i]
  /\ sent'[Len(sent) + 1].r = r /\ sent'[Len(sent) + 1].command.key \notin {Buy, Sell}
  /\ ~IsSet(sent'[Len(sent) + 1], "image-report")

LEMMA NextSends ==
  ASSUME TypeInv, PlanInv, NEW r \in Requests, requests[r].todo # <<>>,
         SendsNext(r, Tail(requests[r].todo))
  PROVE  sent' = sent \/ SendsOther(r) \/ \E n \in 1 .. saves : SendsSell(r, n)
<1> DEFINE todo == Tail(requests[r].todo)
<1>1. CASE todo = <<>> \/ Head(todo).to # "redis"
  BY <1>1, SendsNone
<1>2. CASE todo # <<>> /\ Head(todo).to = "redis"
  <2>1. todo \in Seq(Steps) /\ NextFacts(requests[r])
    BY TodoTail, PlanFacts DEF Facts
  <2>2. PICK c \in Cmds :
          /\ Head(todo).commands = <<c>>
          /\ \/ c.op = "get" /\ c.key \notin {Buy, Sell}
             \/ \E n \in 1 .. saves : /\ c = Set(Sell, n, 0)
                                      /\ requests[r].todo = <<SetBuy(n), SetSell(n)>>
    BY <1>2, <2>1 DEF NextFacts
  <2> HIDE DEF todo
  <2>3. Head(todo) = Redis(<<c>>)
    <3>1. Head(todo) \in Steps
      BY <1>2, <2>1, Tails
    <3>2. Head(todo) = [to |-> "redis", commands |-> Head(todo).commands]
      BY <1>2, <3>1 DEF Steps
    <3> QED BY <2>2, <3>2 DEF Redis
  <2>4. /\ DOMAIN sent' = 1 .. Len(sent) + 1
        /\ \A i \in DOMAIN sent : i \in DOMAIN sent' /\ sent'[i] = sent[i]
        /\ sent'[Len(sent) + 1].r = r /\ sent'[Len(sent) + 1].command = c
    BY <1>2, <2>1, <2>3, SendsSingle DEF todo
  <2>5. CASE c.op = "get" /\ c.key \notin {Buy, Sell}
    BY <2>4, <2>5 DEF SendsOther, IsSet
  <2>6. ASSUME NEW n \in 1 .. saves, c = Set(Sell, n, 0),
               requests[r].todo = <<SetBuy(n), SetSell(n)>>
        PROVE  SendsSell(r, n)
    BY <2>4, <2>6 DEF SendsSell
  <2> QED BY <2>2, <2>5, <2>6
<1> QED BY <1>1, <1>2

SendsThreeGets(r) ==
  /\ DOMAIN sent' = 1 .. Len(sent) + 3
  /\ \A i \in DOMAIN sent : i \in DOMAIN sent' /\ sent'[i] = sent[i]
  /\ \A i \in 1 .. 3 : sent'[Len(sent) + i].r = r
  /\ sent'[Len(sent) + 1].command = Get("save-identify-market")
  /\ sent'[Len(sent) + 2].command = Get(Buy)
  /\ sent'[Len(sent) + 3].command = Get(Sell)
SendsBuy(r, q) ==
  /\ saves' = saves + 1 /\ q.todo = <<SetBuy(saves'), SetSell(saves')>>
  /\ DOMAIN sent' = 1 .. Len(sent) + 1
  /\ \A i \in DOMAIN sent : i \in DOMAIN sent' /\ sent'[i] = sent[i]
  /\ sent'[Len(sent) + 1].r = r /\ sent'[Len(sent) + 1].command = Set(Buy, saves', 0)
SendsImage(r, q) ==
  /\ seconds \in unfinished' \/ \E i \in DOMAIN q.todo : q.todo[i] = Upload(seconds)
  /\ DOMAIN sent' = 1 .. Len(sent) + 1
  /\ \A i \in DOMAIN sent : i \in DOMAIN sent' /\ sent'[i] = sent[i]
  /\ sent'[Len(sent) + 1].r = r /\ sent'[Len(sent) + 1].command = Set("image-report", seconds, 0)

LEMMA BeginSends ==
  ASSUME TypeInv, NEW r \in Requests, NEW q \in Requested, Begins(r, q)
  PROVE  \/ sent' = sent \/ SendsOther(r) \/ SendsThreeGets(r)
         \/ SendsBuy(r, q) \/ SendsImage(r, q)
<1>1. q.todo \in Seq(Steps) /\ q.todo # <<>> /\ SendsNext(r, q.todo) /\ Starts(q)
  BY DEF Begins, Requested
<1>2. CASE Head(q.todo) = Ask
  <2>1. Ask.to # "redis"
    BY DEF Ask
  <2> QED BY <1>1, <1>2, <2>1, SendsNone
<1>3. ASSUME NEW c \in Cmds, Head(q.todo) = Redis(<<c>>),
             c.key \notin {Buy, Sell}, c.op = "set" => c.key # "image-report"
      PROVE  SendsOther(r)
  BY <1>1, <1>3, SendsSingle DEF SendsOther, IsSet
<1>4. CASE Head(q.todo) = Redis(ThreeGets)
  BY <1>1, <1>4, SendsThree DEF SendsThreeGets
<1>5. CASE saves' = saves + 1 /\ q.todo = <<SetBuy(saves'), SetSell(saves')>>
  <2>1. Head(q.todo) = Redis(<<Set(Buy, saves', 0)>>)
    BY <1>5 DEF SetBuy
  <2> QED BY <1>1, <1>5, <2>1, SendsSingle DEF SendsBuy
<1>6. CASE /\ Head(q.todo) = SetImage(seconds)
           /\ seconds \in unfinished' \/ \E i \in DOMAIN q.todo : q.todo[i] = Upload(seconds)
  <2>1. Head(q.todo) = Redis(<<Set("image-report", seconds, 0)>>)
    BY <1>6 DEF SetImage
  <2> QED BY <1>1, <1>6, <2>1, SendsSingle DEF SendsImage
<1> QED BY <1>1, <1>2, <1>3, <1>4, <1>5, <1>6 DEF Starts

-------------------------------------------------------------------------------
(* Steps keep NewsInv *)

LEMMA Changed ==
  ASSUME TypeInv, NEW r \in Requests, NEW q, Becomes(r, q)
  PROVE  requests'[r] = q /\ \A s \in Requests : s # r => requests'[s] = requests[s]
BY DEF TypeInv, Becomes

LEMMA RestReplies ==
  ASSUME TypeInv, replies # <<>>, replies' = Tail(replies)
  PROVE  /\ DOMAIN replies' = 1 .. Len(replies) - 1 /\ DOMAIN replies = 1 .. Len(replies)
         /\ Len(replies) \in Nat \ {0} /\ 1 \in DOMAIN replies
         /\ \A i \in DOMAIN replies' : i + 1 \in DOMAIN replies /\ replies'[i] = replies[i + 1]
BY Tails DEF TypeInv

LEMMA NewsStep ==
  ASSUME TypeInv, PlanInv, NewsInv, [ReportNext]_reportVars
  PROVE  NewsInv'
<1>1. ASSUME NEW r \in Requests, NEW q \in Requested, Begins(r, q) \/ Continues(r, q)
      PROVE  NewsInv'
  <2>1. /\ UNCHANGED <<slots, replies>>
        /\ \A g \in q.got : g \in requests[r].got
        /\ requests'[r] = q /\ \A s \in Requests : s # r => requests'[s] = requests[s]
    BY <1>1, Changed DEF Begins, Continues
  <2> QED BY <2>1 DEF NewsInv
<1>2. ASSUME NEW r \in Requests, Ends(r)
      PROVE  NewsInv'
  <2>1. /\ UNCHANGED <<slots, replies>> /\ NoRequest.got = {}
        /\ requests'[r] = NoRequest /\ \A s \in Requests : s # r => requests'[s] = requests[s]
    BY <1>2, Changed DEF Ends, NoRequest
  <2> QED BY <2>1 DEF NewsInv
<1>3. ASSUME NEW r \in Requests, NEW q \in Requested, Takes(r, q)
      PROVE  NewsInv'
  <2>1. /\ slots' = slots /\ q.got = Got(r)
        /\ requests'[r] = q /\ \A s \in Requests : s # r => requests'[s] = requests[s]
        /\ 1 \in DOMAIN replies
        /\ \A i \in DOMAIN replies' : \E j \in DOMAIN replies : replies'[i] = replies[j]
    BY <1>3, Changed, RestReplies DEF Takes
  <2>2. ASSUME NEW g \in q.got PROVE RightNews(g[1], g[2])
    <3>1. CASE g \in requests[r].got
      BY <3>1 DEF NewsInv
    <3>2. CASE /\ replies[1].command.op = "get"
               /\ g = <<replies[1].command.key, replies[1].command.value>>
      BY <2>1, <3>2 DEF NewsInv
    <3> QED BY <2>1, <3>1, <3>2 DEF Got
  <2>3. \A s \in Requests : \A g \in requests'[s].got : RightNews(g[1], g[2])
    BY <2>1, <2>2 DEF NewsInv
  <2>4. \A i \in DOMAIN replies' : replies'[i].command.op = "get" =>
          RightNews(replies'[i].command.key, replies'[i].command.value)
    BY <2>1 DEF NewsInv
  <2> QED BY <2>1, <2>3, <2>4 DEF NewsInv
<1>4. CASE CarryOut
  <2>1. PICK e \in Entries :
          /\ e.command.op = sent[1].command.op /\ e.command.key = sent[1].command.key
          /\ e.command.op = "get" => e.command.value = InSlot(e.command.key)
          /\ replies' = Append(replies, e)
    BY <1>4, Carried
  <2>2. \A i \in DOMAIN replies' : \/ i \in DOMAIN replies /\ replies'[i] = replies[i]
                                   \/ replies'[i] = e
    BY <2>1, Appends DEF TypeInv
  <2>3. /\ sent[1].command \in Cmds
        /\ sent[1].command.op = "set" => RightNews(sent[1].command.key, sent[1].command.value)
    BY <1>4, Carried, SentFacts DEF CommandFacts
  <2>4. sent[1].command.op = "get" \/ sent[1].command.op = "set"
    BY <2>3 DEF Cmds
  <2>5. \A key \in DOMAIN slots' : RightNews(key, slots'[key])
    <3>1. CASE sent[1].command.op = "get"
      BY <1>4, <3>1, Carried DEF NewsInv
    <3>2. CASE sent[1].command.op = "set"
      <4>1. slots' = [k \in DOMAIN slots \cup {sent[1].command.key} |->
                        IF k = sent[1].command.key THEN sent[1].command.value ELSE slots[k]]
        BY <1>4, <3>2, Carried
      <4> QED BY <2>3, <3>2, <4>1 DEF NewsInv
    <3> QED BY <2>4, <3>1, <3>2
  <2>6. e.command.op = "get" => RightNews(e.command.key, e.command.value)
    <3>1. \A key : RightNews(key, InSlot(key))
      BY DEF NewsInv, InSlot, RightNews
    <3> QED BY <2>1, <3>1
  <2>7. \A i \in DOMAIN replies' : replies'[i].command.op = "get" =>
          RightNews(replies'[i].command.key, replies'[i].command.value)
    BY <2>2, <2>6 DEF NewsInv
  <2> QED BY <1>4, <2>5, <2>7, Carried DEF NewsInv
<1>5. CASE ConnectionLost
  <2>1. \A r \in Requests : \A g \in requests'[r].got : g \in requests[r].got
    BY <1>5, Lost, NoneTypes
  <2> QED BY <1>5, <2>1, Lost DEF NewsInv
<1>6. CASE (\E key \in DOMAIN slots : Expire(key)) \/ Second \/ UNCHANGED reportVars
  <2>1. /\ UNCHANGED <<replies, requests>>
        /\ \A key \in DOMAIN slots' : key \in DOMAIN slots /\ slots'[key] = slots[key]
    <3>1. CASE \E key \in DOMAIN slots : Expire(key)
      BY <3>1 DEF Expire
    <3> QED BY <1>6, <3>1 DEF Second, reportVars
  <2> QED BY <2>1 DEF NewsInv
<1>7. ASSUME NEW r \in Requests, Drops(r)
      PROVE  NewsInv'
  <2>1. /\ slots' = slots /\ NoRequest.got = {}
        /\ requests'[r] = NoRequest /\ \A s \in Requests : s # r => requests'[s] = requests[s]
        /\ \A i \in DOMAIN replies' : \E j \in DOMAIN replies : replies'[i] = replies[j]
    BY <1>7, Changed, RestReplies DEF Drops, NoRequest
  <2> QED BY <2>1 DEF NewsInv
<1> QED BY StepKinds, <1>1, <1>2, <1>3, <1>4, <1>5, <1>6, <1>7

-------------------------------------------------------------------------------
(* Steps keep ImageInv *)

LEMMA CoveredStays ==
  ASSUME TypeInv, PlanInv, [ReportNext]_reportVars, NEW name, Covered(name)
  PROVE  Covered(name)'
<1>1. objects \subseteq objects' /\ unfinished \subseteq unfinished'
  BY StepKinds, Lost DEF Begins, Continues, Takes, Drops, Ends, CarryOut, Expire, Second, reportVars
<1>2. CASE name \in objects \cup unfinished
  BY <1>1, <1>2 DEF Covered
<1>3. ASSUME NEW s \in Requests, NEW i \in DOMAIN requests[s].todo,
             requests[s].todo[i].to = "minio", requests[s].todo[i].name = name
      PROVE  Covered(name)'
  <2>0. /\ requests[s].todo # <<>> /\ requests[s].todo \in Seq(Steps)
        /\ UploadFacts(requests[s]) /\ requests[s].work # "none"
        /\ Head(requests[s].todo).to \in {"redis", "minio", "mssql"}
    BY <1>3, Doing, PlanFacts DEF Facts, HeadFacts
  <2>1. CASE requests'[s].todo = requests[s].todo
    BY <1>3, <2>1 DEF Covered
  <2>2. CASE requests'[s].todo = Tail(requests[s].todo) /\ Awaits(s, "redis")
    <3>1. i \in 2 .. Len(requests[s].todo)
      BY <1>3, <2>0, <2>2, Tails DEF Awaits
    <3>2. i - 1 \in DOMAIN requests'[s].todo /\ requests'[s].todo[i - 1] = requests[s].todo[i]
      BY <2>0, <2>2, <3>1, Tails
    <3> QED BY <1>3, <3>2 DEF Covered
  <2>3. CASE /\ Awaits(s, "minio")
             /\ Head(requests[s].todo).name \in objects' \cup unfinished'
    BY <1>3, <2>0, <2>3 DEF UploadFacts, Covered, Awaits
  <2>4. CASE Awaits(s, "mssql")
    BY <1>3, <2>0, <2>4 DEF UploadFacts, Awaits
  <2>5. ASSUME NEW r \in Requests, NEW q \in Requested, Begins(r, q) PROVE Covered(name)'
    <3>1. requests'[s].todo = requests[s].todo
      BY <2>0, <2>5, Changed DEF Begins
    <3> QED BY <2>1, <3>1
  <2>6. ASSUME NEW r \in Requests, NEW q \in Requested, Continues(r, q) PROVE Covered(name)'
    <3>1. CASE s # r
      BY <2>1, <2>6, <3>1, Changed DEF Continues
    <3>2. CASE s = r
      BY <2>0, <2>3, <2>4, <2>6, <3>2 DEF Continues, Awaits
    <3> QED BY <3>1, <3>2
  <2>7. ASSUME NEW r \in Requests, NEW q \in Requested, Takes(r, q) PROVE Covered(name)'
    <3>1. CASE s # r
      BY <2>1, <2>7, <3>1, Changed DEF Takes
    <3>2. CASE s = r
      <4>1. Awaits(s, "redis")
        BY <2>7, <3>2, RestReplies DEF Takes, PlanInv, Awaited
      <4> QED BY <2>1, <2>2, <2>7, <3>2, <4>1, Changed DEF Takes
    <3> QED BY <3>1, <3>2
  <2>8. ASSUME NEW r \in Requests, Ends(r) PROVE Covered(name)'
    <3>1. CASE s # r
      BY <2>1, <2>8, <3>1, Changed DEF Ends
    <3>2. CASE s = r
      BY <2>0, <2>3, <2>4, <2>8, <3>2 DEF Ends
    <3> QED BY <3>1, <3>2
  <2>9. CASE ConnectionLost
    <3>1. CASE ~Awaits(s, "redis")
      BY <2>1, <2>9, <3>1, Lost
    <3>2. CASE Awaits(s, "redis")
      <4>1. /\ requests[s].work = "uploadImageReport" /\ Len(requests[s].todo) > 1
            /\ name = Head(Tail(requests[s].todo)).name
        BY <1>3, <2>0, <3>2 DEF UploadFacts, Awaits
      <4>2. name \in unfinished'
        BY <2>9, <3>2, <4>1 DEF ConnectionLost
      <4> QED BY <4>2 DEF Covered
    <3> QED BY <3>1, <3>2
  <2>10. CASE CarryOut \/ (\E key \in DOMAIN slots : Expire(key)) \/ Second \/ UNCHANGED reportVars
    <3>1. requests' = requests
      BY <2>10 DEF CarryOut, Expire, Second, reportVars
    <3> QED BY <2>1, <3>1
  <2>11. ASSUME NEW r \in Requests, Drops(r) PROVE Covered(name)'
    <3>1. CASE s # r
      BY <2>1, <2>11, <3>1, Changed DEF Drops
    <3>2. CASE s = r
      <4>1. Awaits(s, "redis") /\ requests[s].work = "saveStockRecommend"
        BY <2>11, <3>2, RestReplies DEF Drops, PlanInv, Awaited
      <4> QED BY <1>3, <2>0, <4>1 DEF UploadFacts, Awaits
    <3> QED BY <3>1, <3>2
  <2> QED BY StepKinds, <2>5, <2>6, <2>7, <2>8, <2>9, <2>10, <2>11
<1> QED BY <1>2, <1>3 DEF Covered

\* The sends of the name of an image that step leaves on their way, or none.
SameImages ==
  \A i \in DOMAIN sent' : IsSet(sent'[i], "image-report") => i \in DOMAIN sent /\ sent'[i] = sent[i]

LEMMA ImageSame ==
  ASSUME TypeInv, PlanInv, ImageInv, [ReportNext]_reportVars, SameImages,
         seconds' \in Nat, seconds <= seconds',
         InSlot("image-report")' \in {InSlot("image-report"), Blank}
  PROVE  ImageInv'
<1> DEFINE now == InSlot("image-report").save
<1>1. /\ now \in Nat /\ Blank.save = 0
      /\ InSlot("image-report")' # Blank => InSlot("image-report")'.save = now
      /\ InSlot("image-report")'.save <= now /\ InSlot("image-report")'.save \in Nat
  BY DEF TypeInv, InSlot, Blank, Values
<1>2. /\ InSlot("image-report") # Blank => Covered(now)
      /\ now <= seconds
      /\ \A i \in DOMAIN sent : IsSet(sent[i], "image-report") =>
           /\ Covered(SaveOf(sent[i])) /\ now <= SaveOf(sent[i]) /\ SaveOf(sent[i]) <= seconds
           /\ \A j \in DOMAIN sent : i < j /\ IsSet(sent[j], "image-report") =>
                SaveOf(sent[i]) <= SaveOf(sent[j])
  BY DEF ImageInv, ImageThere, Covered
<1>3. \A i \in DOMAIN sent : SaveOf(sent[i]) \in Nat
  BY EntryTypes DEF SaveOf, Cmds, Values
<1>4. InSlot("image-report")' # Blank => Covered(now)'
  <2>1. PICK n \in Nat : n = now
    BY <1>1
  <2>2. InSlot("image-report")' # Blank => Covered(n)
    BY <1>2, <2>1
  <2>3. InSlot("image-report")' # Blank => Covered(n)'
    BY <2>2, CoveredStays
  <2>4. InSlot("image-report")' # Blank => now' = n
    BY <1>1, <2>1
  <2> QED BY <2>3, <2>4 DEF Covered
<1>5. ImageThere'
  BY <1>4 DEF ImageThere, Covered
<1>6. InSlot("image-report")'.save <= seconds'
  BY <1>1, <1>2 DEF TypeInv
<1>7. ASSUME NEW i \in DOMAIN sent', IsSet(sent'[i], "image-report")
      PROVE  /\ Covered(SaveOf(sent[i]))'
             /\ InSlot("image-report")'.save <= SaveOf(sent'[i]) /\ SaveOf(sent'[i]) <= seconds'
             /\ \A j \in DOMAIN sent' : i < j /\ IsSet(sent'[j], "image-report") =>
                  SaveOf(sent'[i]) <= SaveOf(sent'[j])
  <2>1. i \in DOMAIN sent /\ sent'[i] = sent[i] /\ IsSet(sent[i], "image-report")
    BY <1>7 DEF SameImages
  <2>2. \A j \in DOMAIN sent' : IsSet(sent'[j], "image-report") =>
          j \in DOMAIN sent /\ sent'[j] = sent[j]
    BY DEF SameImages
  <2>3. PICK n \in Nat : n = SaveOf(sent[i])
    BY <1>3, <2>1
  <2>4. Covered(n)'
    BY <1>2, <2>1, <2>3, CoveredStays
  <2>5. SaveOf(sent'[i]) = n
    BY <2>1, <2>3
  <2>6. Covered(SaveOf(sent[i]))'
    BY <2>4, <2>5 DEF Covered
  <2>7. now <= n /\ n <= seconds
    BY <1>2, <2>1, <2>3
  <2>8. InSlot("image-report")'.save <= n /\ n <= seconds'
    BY <1>1, <2>7 DEF TypeInv
  <2>9. \A j \in DOMAIN sent' : i < j /\ IsSet(sent'[j], "image-report") => n <= SaveOf(sent'[j])
    BY <1>2, <2>1, <2>2, <2>3
  <2> QED BY <2>5, <2>6, <2>8, <2>9
<1>8. \A i \in DOMAIN sent' : IsSet(sent[i], "image-report")' => IsSet(sent'[i], "image-report")
  BY DEF IsSet
<1> QED BY <1>5, <1>6, <1>7, <1>8 DEF ImageInv, SaveOf

\* What is in a slot after a command has been carried out.
LEMMA CarriedSlot ==
  ASSUME TypeInv, CarryOut, NEW key
  PROVE  InSlot(key)' = IF IsSet(sent[1], key) THEN sent[1].command.value ELSE InSlot(key)
<1>1. sent[1].command.op \in {"get", "set"}
  BY Carried DEF Cmds
<1>2. CASE sent[1].command.op = "get"
  BY <1>2, Carried DEF InSlot, IsSet
<1>3. CASE sent[1].command.op = "set"
  <2>1. slots' = [k \in DOMAIN slots \cup {sent[1].command.key} |->
                    IF k = sent[1].command.key THEN sent[1].command.value ELSE slots[k]]
    BY <1>3, Carried
  <2>2. CASE key = sent[1].command.key
    BY <1>3, <2>1, <2>2 DEF InSlot, IsSet
  <2>3. CASE key # sent[1].command.key
    BY <1>3, <2>1, <2>3 DEF InSlot, IsSet
  <2> QED BY <2>2, <2>3
<1> QED BY <1>1, <1>2, <1>3

LEMMA ImageCarried ==
  ASSUME TypeInv, PlanInv, ImageInv, CarryOut
  PROVE  ImageInv'
<1> DEFINE img == "image-report"
<1>1. /\ \A i \in DOMAIN sent' : i + 1 \in DOMAIN sent /\ sent'[i] = sent[i + 1] /\ i \in Nat \ {0}
      /\ 1 \in DOMAIN sent
      /\ UNCHANGED <<objects, requests, seconds, unfinished>>
  BY Carried DEF TypeInv
<1>2. /\ InSlot(img) # Blank => Covered(InSlot(img).save)
      /\ InSlot(img).save <= seconds
      /\ \A i \in DOMAIN sent : IsSet(sent[i], img) =>
           /\ Covered(SaveOf(sent[i]))
           /\ InSlot(img).save <= SaveOf(sent[i]) /\ SaveOf(sent[i]) <= seconds
           /\ \A j \in DOMAIN sent : i < j /\ IsSet(sent[j], img) =>
                SaveOf(sent[i]) <= SaveOf(sent[j])
  BY DEF ImageInv, ImageThere, Covered
<1>3. InSlot(img)' = IF IsSet(sent[1], img) THEN sent[1].command.value ELSE InSlot(img)
  BY CarriedSlot
<1>4. \A name : Covered(name)' <=> Covered(name)
  BY <1>1 DEF Covered
<1>5. (InSlot(img)' # Blank => Covered(InSlot(img)'.save)) /\ InSlot(img)'.save <= seconds
  BY <1>1, <1>2, <1>3 DEF SaveOf
<1>6. ImageThere' /\ InSlot(img)'.save <= seconds'
  <2>1. ImageThere'
    BY <1>1, <1>5 DEF ImageThere, Covered
  <2> QED BY <1>1, <1>5, <2>1
<1>7. ASSUME NEW i \in DOMAIN sent', IsSet(sent'[i], img)
      PROVE  /\ Covered(SaveOf(sent'[i]))
             /\ InSlot(img)'.save <= SaveOf(sent'[i]) /\ SaveOf(sent'[i]) <= seconds'
             /\ \A j \in DOMAIN sent' : i < j /\ IsSet(sent'[j], img) =>
                  SaveOf(sent'[i]) <= SaveOf(sent'[j])
  <2>1. i + 1 \in DOMAIN sent /\ sent'[i] = sent[i + 1] /\ i \in Nat \ {0} /\ 1 < i + 1
    BY <1>1
  <2>2. Covered(SaveOf(sent'[i])) /\ SaveOf(sent'[i]) <= seconds'
    BY <1>1, <1>2, <1>7, <2>1
  <2>3. InSlot(img)'.save <= SaveOf(sent'[i])
    BY <1>1, <1>2, <1>3, <1>7, <2>1 DEF SaveOf
  <2>4. ASSUME NEW j \in DOMAIN sent', i < j, IsSet(sent'[j], img)
        PROVE  SaveOf(sent'[i]) <= SaveOf(sent'[j])
    <3>1. j + 1 \in DOMAIN sent /\ sent'[j] = sent[j + 1] /\ i + 1 < j + 1
      BY <1>1, <2>1, <2>4
    <3> QED BY <1>2, <1>7, <2>1, <2>4, <3>1
  <2> QED BY <2>2, <2>3, <2>4
<1>8. \A i \in DOMAIN sent' : Covered(SaveOf(sent'[i])) => Covered(SaveOf(sent[i]))'
  BY <1>1 DEF Covered, SaveOf
<1>9. \A i \in DOMAIN sent' : IsSet(sent[i], img)' => IsSet(sent'[i], img)
  BY DEF IsSet
<1> QED BY <1>6, <1>7, <1>8, <1>9 DEF ImageInv, SaveOf

LEMMA ImageBegun ==
  ASSUME TypeInv, PlanInv, ImageInv, NEW r \in Requests, NEW q \in Requested, Begins(r, q),
         [ReportNext]_reportVars, SendsImage(r, q)
  PROVE  ImageInv'
<1> DEFINE img == "image-report"
           n == Len(sent) + 1
<1>1. /\ DOMAIN sent = 1 .. Len(sent) /\ Len(sent) \in Nat /\ DOMAIN sent' = 1 .. n
      /\ \A i \in DOMAIN sent : sent'[i] = sent[i]
      /\ SaveOf(sent'[n]) = seconds /\ seconds \in Nat
  BY EntryTypes DEF SendsImage, SaveOf, Set, TypeInv
<1>2. UNCHANGED <<slots, objects, seconds>> /\ InSlot(img)' = InSlot(img)
  BY DEF Begins, InSlot
<1>3. /\ InSlot(img) # Blank => Covered(InSlot(img).save)
      /\ InSlot(img).save <= seconds
      /\ \A i \in DOMAIN sent : IsSet(sent[i], img) =>
           /\ Covered(SaveOf(sent[i]))
           /\ InSlot(img).save <= SaveOf(sent[i]) /\ SaveOf(sent[i]) <= seconds
           /\ \A j \in DOMAIN sent : i < j /\ IsSet(sent[j], img) =>
                SaveOf(sent[i]) <= SaveOf(sent[j])
  BY DEF ImageInv, ImageThere, Covered
<1>4. \A name : Covered(name) => Covered(name)'
  BY CoveredStays
<1>5. PICK now \in Nat : now = seconds
  BY <1>1
<1>6. Covered(now)'
  <2>1. requests'[r] = q
    BY Changed DEF Begins
  <2>2. \A i \in DOMAIN q.todo : q.todo[i] = Upload(now) =>
          q.todo[i].to = "minio" /\ q.todo[i].name = now
    BY DEF Upload
  <2> QED BY <1>5, <2>1, <2>2 DEF SendsImage, Covered
<1>7. ImageThere'
  <2>1. PICK m : m = InSlot(img).save
    OBVIOUS
  <2>2. InSlot(img) # Blank => Covered(m)'
    BY <1>3, <1>4, <2>1
  <2> QED BY <1>2, <2>1, <2>2 DEF ImageThere, Covered
<1>8. \A i \in DOMAIN sent : SaveOf(sent[i]) \in Nat
  BY EntryTypes DEF SaveOf, Cmds, Values
<1>9. ASSUME NEW i \in DOMAIN sent', IsSet(sent'[i], img)
      PROVE  /\ Covered(SaveOf(sent[i]))'
             /\ InSlot(img)'.save <= SaveOf(sent'[i]) /\ SaveOf(sent'[i]) <= seconds'
             /\ \A j \in DOMAIN sent' : i < j /\ IsSet(sent'[j], img) =>
                  SaveOf(sent'[i]) <= SaveOf(sent'[j])
  <2>1. CASE i = n
    <3>1. Covered(SaveOf(sent[i]))'
      BY <1>1, <1>5, <1>6, <2>1 DEF SaveOf, Covered
    <3>2. \A j \in DOMAIN sent' : ~(i < j)
      BY <1>1, <2>1
    <3> QED BY <1>1, <1>2, <1>3, <2>1, <3>1, <3>2
  <2>2. CASE i \in DOMAIN sent
    <3>1. PICK m \in Nat : m = SaveOf(sent[i])
      BY <1>8, <2>2
    <3>2. Covered(m)' /\ InSlot(img).save <= m /\ m <= seconds
      BY <1>1, <1>3, <1>4, <1>9, <2>2, <3>1
    <3>3. SaveOf(sent'[i]) = m
      BY <1>1, <2>2, <3>1
    <3>4. Covered(SaveOf(sent[i]))'
      BY <3>2, <3>3 DEF Covered, SaveOf
    <3>5. ASSUME NEW j \in DOMAIN sent', i < j, IsSet(sent'[j], img)
          PROVE  m <= SaveOf(sent'[j])
      <4>1. CASE j = n
        BY <1>1, <3>2, <4>1
      <4>2. CASE j \in DOMAIN sent
        BY <1>1, <1>3, <1>9, <2>2, <3>1, <3>5, <4>2
      <4> QED BY <1>1, <4>1, <4>2
    <3> QED BY <1>2, <3>2, <3>3, <3>4, <3>5
  <2> QED BY <1>1, <2>1, <2>2
<1>10. \A i \in DOMAIN sent' : IsSet(sent[i], img)' => IsSet(sent'[i], img)
  BY DEF IsSet
<1> QED BY <1>2, <1>3, <1>7, <1>9, <1>10 DEF ImageInv, SaveOf

LEMMA ImageStep ==
  ASSUME TypeInv, PlanInv, ImageInv, [ReportNext]_reportVars
  PROVE  ImageInv'
<1>0. seconds \in Nat /\ DOMAIN sent = 1 .. Len(sent) /\ Len(sent) \in Nat
  BY EntryTypes DEF TypeInv
<1>1. ASSUME NEW r \in Requests, SendsOther(r) PROVE SameImages
  BY <1>0, <1>1 DEF SendsOther, SameImages
<1>2. ASSUME NEW r \in Requests, NEW n, SendsSell(r, n) PROVE SameImages
  <2>1. ~IsSet(sent'[Len(sent) + 1], "image-report")
    BY <1>2 DEF SendsSell, IsSet, Set, Sell
  <2> QED BY <1>0, <1>2, <2>1 DEF SendsSell, SameImages
<1>3. ASSUME NEW r \in Requests, NEW q \in Requested, Begins(r, q) PROVE ImageInv'
  <2>1. /\ seconds' \in Nat /\ seconds <= seconds' /\ InSlot("image-report")' = InSlot("image-report")
    BY <1>0, <1>3 DEF Begins, InSlot
  <2>2. CASE sent' = sent
    BY <2>1, <2>2, ImageSame DEF SameImages
  <2>3. CASE SendsOther(r)
    BY <1>1, <2>1, <2>3, ImageSame
  <2>4. CASE SendsThreeGets(r)
    <3>1. \A i \in 1 .. 3 : ~IsSet(sent'[Len(sent) + i], "image-report")
      <4>1. \A i \in 1 .. 3 : i = 1 \/ i = 2 \/ i = 3
        OBVIOUS
      <4>2. \A key : Get(key).op # "set"
        BY DEF Get
      <4> QED BY <2>4, <4>1, <4>2 DEF SendsThreeGets, IsSet
    <3>2. \A i \in DOMAIN sent' : i \in DOMAIN sent \/ (i - Len(sent) \in 1 .. 3 /\ i = Len(sent) + (i - Len(sent)))
      BY <1>0, <2>4 DEF SendsThreeGets
    <3>3. SameImages
      BY <2>4, <3>1, <3>2 DEF SendsThreeGets, SameImages
    <3> QED BY <2>1, <3>3, ImageSame
  <2>5. CASE SendsBuy(r, q)
    <3>1. ~IsSet(sent'[Len(sent) + 1], "image-report")
      BY <2>5 DEF SendsBuy, IsSet, Set, Buy
    <3>2. SameImages
      BY <1>0, <2>5, <3>1 DEF SendsBuy, SameImages
    <3> QED BY <2>1, <3>2, ImageSame
  <2>6. CASE SendsImage(r, q)
    BY <1>3, <2>6, ImageBegun
  <2> QED BY <1>3, <2>2, <2>3, <2>4, <2>5, <2>6, BeginSends
<1>4. ASSUME NEW r \in Requests, NEW q \in Requested, Continues(r, q) \/ Takes(r, q) PROVE ImageInv'
  <2>1. /\ seconds' \in Nat /\ seconds <= seconds' /\ InSlot("image-report")' = InSlot("image-report")
    BY <1>0, <1>4 DEF Continues, Takes, InSlot
  <2>2. CASE sent' = sent
    BY <2>1, <2>2, ImageSame DEF SameImages
  <2>3. CASE SendsNext(r, Tail(requests[r].todo))
    <3>1. requests[r].todo # <<>>
      BY <1>4, RestReplies DEF Continues, Takes, PlanInv, Awaited, Awaits
    <3>2. sent' = sent \/ SendsOther(r) \/ \E n \in 1 .. saves : SendsSell(r, n)
      BY <2>3, <3>1, NextSends
    <3> QED BY <1>1, <1>2, <2>1, <2>2, <3>2, ImageSame
  <2> QED BY <1>4, <2>2, <2>3 DEF Continues, Takes
<1>5. ASSUME NEW r \in Requests, Ends(r) PROVE ImageInv'
  BY <1>0, <1>5, ImageSame DEF Ends, SameImages, InSlot
<1>6. CASE CarryOut
  BY <1>6, ImageCarried
<1>7. CASE ConnectionLost
  BY <1>0, <1>7, Lost, ImageSame DEF SameImages, InSlot
<1>8. CASE (\E key \in DOMAIN slots : Expire(key)) \/ Second \/ UNCHANGED reportVars
  <2>1. /\ sent' = sent /\ seconds' \in Nat /\ seconds <= seconds'
        /\ InSlot("image-report")' \in {InSlot("image-report"), Blank}
    <3>1. CASE \E key \in DOMAIN slots : Expire(key)
      BY <1>0, <3>1 DEF Expire, InSlot
    <3>2. CASE Second
      BY <1>0, <3>2 DEF Second, InSlot
    <3>3. CASE UNCHANGED reportVars
      BY <1>0, <3>3 DEF reportVars, InSlot
    <3> QED BY <1>8, <3>1, <3>2, <3>3
  <2> QED BY <2>1, ImageSame DEF SameImages
<1>9. ASSUME NEW r \in Requests, Drops(r) PROVE ImageInv'
  BY <1>0, <1>9, ImageSame DEF Drops, SameImages, InSlot
<1> QED BY StepKinds, <1>3, <1>4, <1>5, <1>6, <1>7, <1>8, <1>9

-------------------------------------------------------------------------------
(* Theorems about types, news and the image *)

LEMMA Initially == ASSUME ReportInit PROVE TypeInv /\ PlanInv /\ NewsInv /\ ImageInv
<1>1. /\ DOMAIN slots = {} /\ DOMAIN sent = {} /\ DOMAIN replies = {} /\ InSlot("image-report") = Blank
      /\ \A r \in Requests : requests[r] = NoRequest
  BY DEF ReportInit, InSlot
<1>2. TypeInv
  <2>1. requests \in [Requests -> Requested]
    BY NoneTypes DEF ReportInit
  <2>2. sent \in Seq(Entries) /\ replies \in Seq(Entries)
    BY DEF ReportInit
  <2> QED BY <1>1, <2>1, <2>2 DEF TypeInv, ReportInit, Requested
<1>3. PlanInv
  BY <1>1, NoneTypes DEF PlanInv
<1>4. NewsInv
  BY <1>1, NoneTypes DEF NewsInv
<1>5. ImageInv
  <2>1. Blank.save <= seconds
    BY DEF ReportInit, Blank
  <2> QED BY <1>1, <2>1 DEF ImageInv, ImageThere
<1> QED BY <1>2, <1>3, <1>4, <1>5

(* The entries of redis, the commands and the replies on their way and what every request
   still has to do stay among those the handlers of ReportService can produce. *)
THEOREM TypeCorrect == ReportSpec => [](TypeInv /\ PlanInv)
<1>1. ReportInit => TypeInv /\ PlanInv
  BY Initially
<1>2. (TypeInv /\ PlanInv) /\ [ReportNext]_reportVars => (TypeInv /\ PlanInv)'
  BY TypesAndPlans
<1> QED BY <1>1, <1>2, PTL DEF ReportSpec

(* News saved under one of the three ids are never read under another (saveNews, getNews). *)
THEOREM NewsKeptApart == ReportSpec => []NewsApart
<1> DEFINE I == TypeInv /\ PlanInv /\ NewsInv
<1>1. ReportInit => I
  BY Initially
<1>2. I /\ [ReportNext]_reportVars => I'
  BY TypesAndPlans, NewsStep
<1>3. I => NewsApart
  BY DEF NewsApart, NewsInv, RightNews
<1> QED BY <1>1, <1>2, <1>3, PTL DEF ReportSpec

(* The image whose name uploadImageReport has put into redis is in the object storage, or
   on its way there, or one that failed. *)
THEOREM ImageNeverMissing == ReportSpec => []ImageThere
<1> DEFINE I == TypeInv /\ PlanInv /\ ImageInv
<1>1. ReportInit => I
  BY Initially
<1>2. I /\ [ReportNext]_reportVars => I'
  BY TypesAndPlans, ImageStep
<1>3. I => ImageThere
  BY DEF ImageInv
<1> QED BY <1>1, <1>2, <1>3, PTL DEF ReportSpec

\* The name of the image in redis changes only to a later one, or is dropped.
LEMMA ImageForward ==
  ASSUME TypeInv, PlanInv, ImageInv, [ReportNext]_reportVars
  PROVE  \/ InSlot("image-report").save <= InSlot("image-report")'.save
         \/ InSlot("image-report")' = Blank
<1> DEFINE now == InSlot("image-report")
<1>1. now.save \in Nat
  BY DEF TypeInv, InSlot, Blank, Values
<1>2. CASE CarryOut
  <2>1. now' = IF IsSet(sent[1], "image-report") THEN sent[1].command.value ELSE now
    BY <1>2, CarriedSlot
  <2>2. IsSet(sent[1], "image-report") => now.save <= sent[1].command.value.save
    BY <1>2, Carried DEF ImageInv, SaveOf
  <2> QED BY <1>1, <2>1, <2>2
<1>3. CASE \E key \in DOMAIN slots : Expire(key)
  BY <1>1, <1>3 DEF Expire, InSlot
<1>4. CASE slots' = slots
  <2>1. now' = now
    BY <1>4 DEF InSlot
  <2> QED BY <1>1, <2>1
<1> QED BY StepKinds, <1>2, <1>3, <1>4, Lost
        DEF Begins, Continues, Takes, Drops, Ends, Second, reportVars

(* However uploads overtake one another, the afternoon report never goes back to an older
   image (uploadImageReport, afternoonReport2). *)
THEOREM ImageOnlyForward == ReportSpec => ImageGoesForward
<1> DEFINE I == TypeInv /\ PlanInv /\ ImageInv
<1>1. ReportInit => I
  BY Initially
<1>2. I /\ [ReportNext]_reportVars => I'
  BY TypesAndPlans, ImageStep
<1>3. I /\ [ReportNext]_reportVars =>
        [(InSlot("image-report").save <= InSlot("image-report")'.save)
           \/ InSlot("image-report")' = Blank]_reportVars
  BY ImageForward
<1> QED BY <1>1, <1>2, <1>3, PTL DEF ReportSpec, ImageGoesForward

-------------------------------------------------------------------------------
(* Steps keep StockInv *)

LEMMA StockFields ==
  ASSUME NEW n
  PROVE  /\ SetBuy(n).to = "redis" /\ SetBuy(n).commands = <<Set(Buy, n, 0)>>
         /\ Set(Buy, n, 0).op = "set" /\ Set(Buy, n, 0).key = Buy
         /\ Set(Buy, n, 0).value = [save |-> n, id |-> 0]
         /\ Set(Sell, n, 0).op = "set" /\ Set(Sell, n, 0).key = Sell
         /\ Set(Sell, n, 0).value = [save |-> n, id |-> 0]
         /\ Buy # Sell
BY DEF SetBuy, Redis, Set, Buy, Sell

LEMMA StockUnique ==
  ASSUME NEW r, NEW n, NEW m, Stock(r, n), Stock(r, m)
  PROVE  n = m
<1>1. Head(requests[r].todo) = SetBuy(n) /\ Head(requests[r].todo) = SetBuy(m)
  BY DEF Stock
<1>2. Set(Buy, n, 0) = Set(Buy, m, 0)
  <2>1. <<Set(Buy, n, 0)>> = <<Set(Buy, m, 0)>>
    BY <1>1, StockFields
  <2>2. \A a, b : <<a>> = <<b>> => a = b
    OBVIOUS
  <2> QED BY <2>1, <2>2
<1>3. [save |-> n, id |-> 0] = [save |-> m, id |-> 0]
  BY <1>2, StockFields
<1> QED BY <1>3

LEMMA StockWaits ==
  ASSUME TypeInv, PlanInv, NEW r \in Requests, NEW n, Stock(r, n)
  PROVE  /\ Awaits(r, "redis") /\ n \in 1 .. saves /\ requests[r].work = "saveStockRecommend"
         /\ Tail(requests[r].todo) = <<SetSell(n)>>
<1>1. /\ requests[r].todo # <<>> /\ Head(requests[r].todo) = SetBuy(n)
      /\ Tail(requests[r].todo) = <<SetSell(n)>>
  BY DEF Stock
<1>2. Head(requests[r].todo).to = "redis" /\ Head(requests[r].todo).commands = <<Set(Buy, n, 0)>>
  BY <1>1, StockFields
<1>3. CommandFacts(requests[r], Set(Buy, n, 0))
  <2>1. \A k \in DOMAIN <<Set(Buy, n, 0)>> : CommandFacts(requests[r], <<Set(Buy, n, 0)>>[k])
    BY <1>1, <1>2, PlanFacts DEF Facts, HeadFacts
  <2>2. 1 \in DOMAIN <<Set(Buy, n, 0)>> /\ <<Set(Buy, n, 0)>>[1] = Set(Buy, n, 0)
    OBVIOUS
  <2> QED BY <2>1, <2>2
<1>4. Set(Buy, n, 0).value.save = n
  BY DEF Set
<1> QED BY <1>1, <1>2, <1>3, <1>4, StockFields DEF CommandFacts, Awaits

\* What a request that saves the stocks to buy has sent.
LEMMA StockSent ==
  ASSUME TypeInv, PlanInv, NEW i \in DOMAIN sent, NEW n, Stock(sent[i].r, n)
  PROVE  sent[i].command = Set(Buy, n, 0)
<1>1. Head(requests[sent[i].r].todo).commands = <<Set(Buy, n, 0)>>
  <2>1. Head(requests[sent[i].r].todo) = SetBuy(n)
    BY DEF Stock
  <2> QED BY <2>1, StockFields
<1>2. PICK k \in DOMAIN <<Set(Buy, n, 0)>> : sent[i].command = <<Set(Buy, n, 0)>>[k]
  BY <1>1 DEF PlanInv
<1>3. k = 1
  OBVIOUS
<1> QED BY <1>2, <1>3

LEMMA BuySent ==
  ASSUME TypeInv, PlanInv, NEW i \in DOMAIN sent, IsSet(sent[i], Buy)
  PROVE  /\ SaveOf(sent[i]) \in 1 .. saves /\ Stock(sent[i].r, SaveOf(sent[i]))
         /\ sent[i].command.value = [save |-> SaveOf(sent[i]), id |-> 0]
         /\ requests[sent[i].r].work = "saveStockRecommend"
<1>1. CommandFacts(requests[sent[i].r], sent[i].command)
  BY SentFacts
<1> QED BY <1>1, StockFields DEF CommandFacts, IsSet, SaveOf, Stock

LEMMA SellSent ==
  ASSUME TypeInv, PlanInv, NEW i \in DOMAIN sent, IsSet(sent[i], Sell)
  PROVE  /\ SaveOf(sent[i]) \in 1 .. saves
         /\ sent[i].command = Set(Sell, SaveOf(sent[i]), 0)
         /\ sent[i].command.value = [save |-> SaveOf(sent[i]), id |-> 0]
         /\ requests[sent[i].r].work = "saveStockRecommend"
<1>1. CommandFacts(requests[sent[i].r], sent[i].command)
  BY SentFacts
<1> QED BY <1>1, StockFields DEF CommandFacts, IsSet, SaveOf

LEMMA SlotTypes ==
  ASSUME TypeInv, NEW key
  PROVE  /\ InSlot(key) \in Values /\ InSlot(key).save \in Nat /\ Blank.save = 0
         /\ InSlot(key) = [save |-> InSlot(key).save, id |-> InSlot(key).id]
BY DEF TypeInv, InSlot, Blank, Values

\* The two lists are kept, their commands keep their order, and so do their replies.
StockKept(d, k) ==
  /\ InSlot(Buy)' \in {InSlot(Buy), Blank} /\ InSlot(Sell)' \in {InSlot(Sell), Blank}
  /\ saves <= saves'
  /\ \A i \in DOMAIN sent' : IsSet(sent'[i], Buy) \/ IsSet(sent'[i], Sell) =>
       i + d \in DOMAIN sent /\ sent'[i] = sent[i + d]
  /\ \A i \in DOMAIN replies' : \A n \in Nat :
       Stock(replies[i].r, n)' => i + k \in DOMAIN replies /\ Stock(replies[i + k].r, n)

LEMMA StockSame ==
  ASSUME TypeInv, PlanInv, StockInv, TypeInv', NEW d \in Nat, NEW k \in Nat, StockKept(d, k)
  PROVE  StockInv'
<1>1. /\ InSlot(Buy).save \in Nat /\ InSlot(Sell).save \in Nat /\ saves \in Nat /\ saves' \in Nat
      /\ Blank.save = 0
  BY SlotTypes DEF TypeInv
<1>2. \A i \in DOMAIN sent : SaveOf(sent[i]) \in Nat
  BY EntryTypes DEF SaveOf, Cmds, Values
<1>3. DOMAIN sent' \subseteq Nat /\ DOMAIN replies' \subseteq Nat
  BY DEF TypeInv
<1>4. ASSUME NEW n \in Nat, Behind(n) PROVE Behind(n)'
  <2>1. InSlot(Buy)' # Blank => n <= InSlot(Buy)'.save
    BY <1>4 DEF Behind, StockKept
  <2>2. ASSUME NEW j \in DOMAIN sent', IsSet(sent'[j], Buy) PROVE n <= SaveOf(sent'[j])
    BY <1>4, <2>2 DEF Behind, StockKept
  <2>3. \A j \in DOMAIN sent' : IsSet(sent[j], Buy)' => IsSet(sent'[j], Buy)
    BY DEF IsSet
  <2> QED BY <2>1, <2>2, <2>3 DEF Behind, SaveOf
<1>5. InSlot(Sell)'.save <= saves' /\ InSlot(Buy)'.save <= saves'
  BY <1>1 DEF StockInv, StockKept
<1>6. InSlot(Buy)' # Blank => InSlot(Buy)'.id = 0
  BY DEF StockInv, StockKept
<1>7. Behind(InSlot(Sell).save)'
  <2>1. Behind(0)
    BY <1>1, <1>2 DEF Behind
  <2>2. PICK n \in Nat : n = InSlot(Sell)'.save /\ Behind(n)
    BY <1>1, <2>1 DEF StockInv, StockKept
  <2>3. Behind(n)'
    BY <1>4, <2>2
  <2> QED BY <2>2, <2>3 DEF Behind
<1>8. ASSUME NEW i \in DOMAIN sent', IsSet(sent'[i], Buy) \/ IsSet(sent'[i], Sell),
             NEW j \in DOMAIN sent', IsSet(sent'[j], Buy) \/ IsSet(sent'[j], Sell), i < j
      PROVE  /\ i + d \in DOMAIN sent /\ sent'[i] = sent[i + d]
             /\ j + d \in DOMAIN sent /\ sent'[j] = sent[j + d] /\ i + d < j + d
  BY <1>3, <1>8 DEF StockKept
<1>9. ASSUME NEW i \in DOMAIN sent', IsSet(sent'[i], Buy),
             NEW j \in DOMAIN sent', i < j, IsSet(sent'[j], Buy)
      PROVE  SaveOf(sent'[i]) <= SaveOf(sent'[j])
  BY <1>8, <1>9 DEF StockInv
<1>10. ASSUME NEW i \in DOMAIN sent', IsSet(sent'[i], Sell)
       PROVE  /\ Behind(SaveOf(sent[i]))'
              /\ \A j \in DOMAIN sent' : i < j /\ IsSet(sent'[j], Sell) =>
                   SaveOf(sent'[i]) <= SaveOf(sent'[j])
              /\ \A j \in DOMAIN replies' : \A n \in Nat :
                   Stock(replies[j].r, n)' => SaveOf(sent'[i]) <= n
  <2>1. i + d \in DOMAIN sent /\ sent'[i] = sent[i + d]
    BY <1>10 DEF StockKept
  <2>2. PICK m \in Nat : m = SaveOf(sent[i + d])
    BY <1>2, <2>1
  <2>3. Behind(m)
    BY <1>10, <2>1, <2>2 DEF StockInv
  <2>4. Behind(m)' /\ SaveOf(sent'[i]) = m
    BY <1>4, <2>1, <2>2, <2>3
  <2>5. Behind(SaveOf(sent[i]))'
    BY <2>4 DEF Behind, SaveOf
  <2>6. ASSUME NEW j \in DOMAIN sent', i < j, IsSet(sent'[j], Sell)
        PROVE  SaveOf(sent'[i]) <= SaveOf(sent'[j])
    BY <1>8, <1>10, <2>6 DEF StockInv
  <2>7. ASSUME NEW j \in DOMAIN replies', NEW n \in Nat, Stock(replies[j].r, n)'
        PROVE  SaveOf(sent'[i]) <= n
    BY <1>10, <2>1, <2>7 DEF StockInv, StockKept
  <2> QED BY <2>5, <2>6, <2>7
<1>11. ASSUME NEW i \in DOMAIN replies', NEW n \in Nat, Stock(replies[i].r, n)'
       PROVE  /\ Behind(n)'
              /\ \A j \in DOMAIN replies' : \A m \in Nat :
                   i < j /\ Stock(replies[j].r, m)' => n <= m
  <2>1. i + k \in DOMAIN replies /\ Stock(replies[i + k].r, n)
    BY <1>11 DEF StockKept
  <2>2. Behind(n)'
    BY <1>4, <2>1 DEF StockInv
  <2>3. ASSUME NEW j \in DOMAIN replies', NEW m \in Nat, i < j, Stock(replies[j].r, m)'
        PROVE  n <= m
    <3>1. j + k \in DOMAIN replies /\ Stock(replies[j + k].r, m) /\ i + k < j + k
      BY <1>3, <2>3 DEF StockKept
    <3> QED BY <2>1, <3>1 DEF StockInv
  <2> QED BY <2>2, <2>3
<1>12. \A i \in DOMAIN sent' : /\ IsSet(sent[i], Buy)' => IsSet(sent'[i], Buy)
                               /\ IsSet(sent[i], Sell)' => IsSet(sent'[i], Sell)
  BY DEF IsSet
<1> QED BY <1>5, <1>6, <1>7, <1>9, <1>10, <1>11, <1>12 DEF StockInv, SaveOf

\* The commands for the two lists that a step leaves on their way are old ones.
OldLists == \A i \in DOMAIN sent' :
  IsSet(sent'[i], Buy) \/ IsSet(sent'[i], Sell) => i \in DOMAIN sent /\ sent'[i] = sent[i]

LEMMA OldSends ==
  ASSUME TypeInv, NEW r, NEW q,
         \/ sent' = sent \/ SendsOther(r) \/ SendsThreeGets(r) \/ SendsImage(r, q)
  PROVE  OldLists
<1>0. DOMAIN sent = 1 .. Len(sent) /\ Len(sent) \in Nat
  BY EntryTypes
<1>1. CASE sent' = sent
  BY <1>1 DEF OldLists
<1>2. CASE SendsOther(r)
  <2>1. ~IsSet(sent'[Len(sent) + 1], Buy) /\ ~IsSet(sent'[Len(sent) + 1], Sell)
    BY <1>2 DEF SendsOther, IsSet
  <2> QED BY <1>0, <1>2, <2>1 DEF SendsOther, OldLists
<1>3. CASE SendsImage(r, q)
  <2>1. ~IsSet(sent'[Len(sent) + 1], Buy) /\ ~IsSet(sent'[Len(sent) + 1], Sell)
    BY <1>3 DEF SendsImage, IsSet, Set, Buy, Sell
  <2> QED BY <1>0, <1>3, <2>1 DEF SendsImage, OldLists
<1>4. CASE SendsThreeGets(r)
  <2>1. \A i \in 1 .. 3 : ~IsSet(sent'[Len(sent) + i], Buy) /\ ~IsSet(sent'[Len(sent) + i], Sell)
    <3>1. \A i \in 1 .. 3 : i = 1 \/ i = 2 \/ i = 3
      OBVIOUS
    <3>2. \A key : Get(key).op # "set"
      BY DEF Get
    <3> QED BY <1>4, <3>1, <3>2 DEF SendsThreeGets, IsSet
  <2>2. \A i \in DOMAIN sent' :
          i \in DOMAIN sent \/ (i - Len(sent) \in 1 .. 3 /\ i = Len(sent) + (i - Len(sent)))
    BY <1>0, <1>4 DEF SendsThreeGets
  <2> QED BY <1>4, <2>1, <2>2 DEF SendsThreeGets, OldLists
<1> QED BY <1>1, <1>2, <1>3, <1>4

\* Replies of requests that do not change.
SameReplies(k) ==
  \A i \in DOMAIN replies' : /\ i + k \in DOMAIN replies /\ replies'[i] = replies[i + k]
                             /\ requests'[replies'[i].r].todo = requests[replies'[i].r].todo
                             /\ replies'[i].r \in Requests

LEMMA StockUnchanged ==
  ASSUME TypeInv, PlanInv, StockInv, TypeInv', OldLists, NEW k \in Nat, SameReplies(k),
         InSlot(Buy)' \in {InSlot(Buy), Blank}, InSlot(Sell)' \in {InSlot(Sell), Blank},
         saves <= saves'
  PROVE  StockInv'
<1>1. \A i \in DOMAIN replies' : \A n \in Nat :
        Stock(replies[i].r, n)' => i + k \in DOMAIN replies /\ Stock(replies[i + k].r, n)
  BY DEF SameReplies, Stock
<1>2. \A i \in DOMAIN sent' : IsSet(sent'[i], Buy) \/ IsSet(sent'[i], Sell) =>
        i + 0 \in DOMAIN sent /\ sent'[i] = sent[i + 0]
  BY EntryTypes DEF OldLists
<1> QED BY <1>1, <1>2, StockSame DEF StockKept

\* The replies that are on their way when nothing of r is.
LEMMA RepliesOfOthers ==
  ASSUME TypeInv, PlanInv, NEW r \in Requests, NEW q, Becomes(r, q), ~Awaits(r, "redis"),
         replies' = replies
  PROVE  SameReplies(0)
<1>1. DOMAIN replies \subseteq Nat
  BY EntryTypes
<1>2. \A i \in DOMAIN replies : replies[i].r # r /\ replies[i].r \in Requests
  BY Quiet, EntryTypes
<1>3. \A s \in Requests : s # r => requests'[s] = requests[s]
  BY Changed
<1> QED BY <1>1, <1>2, <1>3 DEF SameReplies

LEMMA StockBegun ==
  ASSUME TypeInv, PlanInv, StockInv, TypeInv', NEW r \in Requests, NEW q \in Requested,
         Begins(r, q), SendsBuy(r, q)
  PROVE  StockInv'
<1> DEFINE n == Len(sent) + 1
<1>1. /\ DOMAIN sent = 1 .. Len(sent) /\ Len(sent) \in Nat /\ DOMAIN sent' = 1 .. n
      /\ \A i \in DOMAIN sent : sent'[i] = sent[i]
      /\ sent'[n].command = Set(Buy, saves', 0) /\ saves' = saves + 1 /\ saves \in Nat
  BY EntryTypes DEF SendsBuy, TypeInv
<1>2. IsSet(sent'[n], Buy) /\ ~IsSet(sent'[n], Sell) /\ SaveOf(sent'[n]) = saves + 1
  BY <1>1 DEF IsSet, SaveOf, Set, Buy, Sell
<1>3. /\ InSlot(Buy)' = InSlot(Buy) /\ InSlot(Sell)' = InSlot(Sell)
      /\ InSlot(Buy).save \in Nat /\ InSlot(Sell).save \in Nat
  BY SlotTypes DEF Begins, InSlot
<1>4. \A i \in DOMAIN sent : IsSet(sent[i], Buy) \/ IsSet(sent[i], Sell) =>
        SaveOf(sent[i]) \in Nat /\ SaveOf(sent[i]) <= saves
  <2>1. \A i \in DOMAIN sent : IsSet(sent[i], Buy) \/ IsSet(sent[i], Sell) =>
          SaveOf(sent[i]) \in 1 .. saves
    BY BuySent, SellSent
  <2>2. \A m \in 1 .. saves : m \in Nat /\ m <= saves
    BY <1>1
  <2> QED BY <2>1, <2>2
<1>5. /\ DOMAIN replies' = DOMAIN replies
      /\ \A i \in DOMAIN replies, m \in Nat :
           Stock(replies[i].r, m)' => Stock(replies[i].r, m) /\ m <= saves
  <2>1. SameReplies(0) /\ DOMAIN replies \subseteq Nat /\ replies' = replies
    BY Doing, RepliesOfOthers, EntryTypes DEF Begins
  <2>2. \A i \in DOMAIN replies, m \in Nat : Stock(replies[i].r, m)' => Stock(replies[i].r, m)
    BY <2>1 DEF SameReplies, Stock
  <2>3. \A i \in DOMAIN replies, m \in Nat : Stock(replies[i].r, m) => m <= saves
    BY <1>1, StockWaits, EntryTypes
  <2> QED BY <2>1, <2>2, <2>3
<1>6. ASSUME NEW m \in Nat, m <= saves, Behind(m) PROVE Behind(m)'
  <2>1. \A j \in DOMAIN sent' : IsSet(sent'[j], Buy) => m <= SaveOf(sent'[j])
    BY <1>1, <1>2, <1>6 DEF Behind
  <2>2. \A j \in DOMAIN sent' : IsSet(sent[j], Buy)' => IsSet(sent'[j], Buy)
    BY DEF IsSet
  <2> QED BY <1>3, <1>6, <2>1, <2>2 DEF Behind, SaveOf
<1>7. /\ InSlot(Sell)'.save <= saves' /\ InSlot(Buy)'.save <= saves'
      /\ (InSlot(Buy)' # Blank => InSlot(Buy)'.id = 0)
  BY <1>1, <1>3 DEF StockInv
<1>8. Behind(InSlot(Sell).save)'
  <2>1. PICK m \in Nat : m = InSlot(Sell).save
    BY <1>3
  <2>2. Behind(m)'
    BY <1>6, <2>1 DEF StockInv
  <2> QED BY <1>3, <2>1, <2>2 DEF Behind
<1>9. ASSUME NEW i \in DOMAIN sent', IsSet(sent'[i], Buy),
             NEW j \in DOMAIN sent', i < j, IsSet(sent'[j], Buy)
      PROVE  SaveOf(sent'[i]) <= SaveOf(sent'[j])
  <2>1. i \in DOMAIN sent
    BY <1>1, <1>9
  <2>2. CASE j = n
    BY <1>1, <1>2, <1>4, <1>9, <2>1, <2>2
  <2>3. CASE j \in DOMAIN sent
    BY <1>1, <1>9, <2>1, <2>3 DEF StockInv
  <2> QED BY <1>1, <2>2, <2>3
<1>10. ASSUME NEW i \in DOMAIN sent', IsSet(sent'[i], Sell)
       PROVE  /\ Behind(SaveOf(sent[i]))'
              /\ \A j \in DOMAIN sent' : i < j /\ IsSet(sent'[j], Sell) =>
                   SaveOf(sent'[i]) <= SaveOf(sent'[j])
              /\ \A j \in DOMAIN replies' : \A m \in Nat :
                   Stock(replies[j].r, m)' => SaveOf(sent'[i]) <= m
  <2>1. i \in DOMAIN sent /\ sent'[i] = sent[i]
    BY <1>1, <1>2, <1>10
  <2>2. PICK m \in Nat : m = SaveOf(sent[i]) /\ m <= saves /\ Behind(m)
    BY <1>4, <1>10, <2>1 DEF StockInv
  <2>3. Behind(m)' /\ SaveOf(sent'[i]) = m
    BY <1>6, <2>1, <2>2
  <2>4. Behind(SaveOf(sent[i]))'
    BY <2>3 DEF Behind, SaveOf
  <2>5. \A j \in DOMAIN sent' : i < j /\ IsSet(sent'[j], Sell) => SaveOf(sent'[i]) <= SaveOf(sent'[j])
    BY <1>1, <1>2, <1>10, <2>1 DEF StockInv
  <2>6. ASSUME NEW j \in DOMAIN replies', NEW p \in Nat, Stock(replies[j].r, p)'
        PROVE  SaveOf(sent'[i]) <= p
    <3>1. j \in DOMAIN replies /\ Stock(replies[j].r, p)
      BY <1>5, <2>6
    <3> QED BY <1>10, <2>1, <3>1 DEF StockInv
  <2> QED BY <2>4, <2>5, <2>6
<1>11. ASSUME NEW i \in DOMAIN replies', NEW p \in Nat, Stock(replies[i].r, p)'
       PROVE  /\ Behind(p)'
              /\ \A j \in DOMAIN replies' : \A m \in Nat :
                   i < j /\ Stock(replies[j].r, m)' => p <= m
  <2>1. i \in DOMAIN replies /\ Stock(replies[i].r, p) /\ p <= saves
    BY <1>5, <1>11
  <2>2. Behind(p)'
    BY <1>6, <2>1 DEF StockInv
  <2>3. ASSUME NEW j \in DOMAIN replies', NEW m \in Nat, i < j, Stock(replies[j].r, m)'
        PROVE  p <= m
    <3>1. j \in DOMAIN replies /\ Stock(replies[j].r, m)
      BY <1>5, <2>3
    <3> QED BY <2>1, <2>3, <3>1 DEF StockInv
  <2> QED BY <2>2, <2>3
<1>12. \A i \in DOMAIN sent' : /\ IsSet(sent[i], Buy)' => IsSet(sent'[i], Buy)
                               /\ IsSet(sent[i], Sell)' => IsSet(sent'[i], Sell)
  BY DEF IsSet
<1> HIDE DEF n
<1> QED BY <1>7, <1>8, <1>9, <1>10, <1>11, <1>12 DEF StockInv, SaveOf

\* With the reply to the stocks to buy, request r sends those to sell.
LEMMA StockSell ==
  ASSUME TypeInv, PlanInv, StockInv, TypeInv', NEW r \in Requests, NEW q \in Requested,
         Takes(r, q), NEW p \in 1 .. saves, SendsSell(r, p),
         \A i \in DOMAIN replies' : /\ i + 1 \in DOMAIN replies /\ replies'[i] = replies[i + 1]
                                    /\ replies'[i].r # r /\ replies'[i].r \in Requests
  PROVE  StockInv'
<1> DEFINE n == Len(sent) + 1
<1>1. /\ DOMAIN sent = 1 .. Len(sent) /\ Len(sent) \in Nat /\ DOMAIN sent' = 1 .. n
      /\ \A i \in DOMAIN sent : sent'[i] = sent[i]
      /\ sent'[n].command = Set(Sell, p, 0) /\ p \in Nat
  BY EntryTypes DEF SendsSell, TypeInv
<1>2. ~IsSet(sent'[n], Buy) /\ IsSet(sent'[n], Sell) /\ SaveOf(sent'[n]) = p
  BY <1>1 DEF IsSet, SaveOf, Set, Buy, Sell
<1>3. /\ InSlot(Buy)' = InSlot(Buy) /\ InSlot(Sell)' = InSlot(Sell) /\ saves' = saves
      /\ InSlot(Sell).save \in Nat
  BY SlotTypes DEF Takes, InSlot
<1>4. /\ 1 \in DOMAIN replies /\ Stock(replies[1].r, p)
      /\ DOMAIN replies \subseteq Nat /\ DOMAIN replies' \subseteq Nat
      /\ \A i \in DOMAIN replies' : 1 < i + 1
  BY RestReplies, EntryTypes DEF Takes, SendsSell, Stock, TypeInv
<1>5. \A i \in DOMAIN replies', m \in Nat :
        Stock(replies[i].r, m)' => i + 1 \in DOMAIN replies /\ Stock(replies[i + 1].r, m)
  <2>1. \A s \in Requests : s # r => requests'[s] = requests[s]
    BY Changed DEF Takes
  <2> QED BY <2>1 DEF Stock
<1>6. ASSUME NEW m \in Nat, Behind(m) PROVE Behind(m)'
  <2>1. \A j \in DOMAIN sent' : IsSet(sent'[j], Buy) => m <= SaveOf(sent'[j])
    BY <1>1, <1>2, <1>6 DEF Behind
  <2>2. \A j \in DOMAIN sent' : IsSet(sent[j], Buy)' => IsSet(sent'[j], Buy)
    BY DEF IsSet
  <2> QED BY <1>3, <1>6, <2>1, <2>2 DEF Behind, SaveOf
<1>7. /\ InSlot(Sell)'.save <= saves' /\ InSlot(Buy)'.save <= saves'
      /\ (InSlot(Buy)' # Blank => InSlot(Buy)'.id = 0)
  BY <1>3 DEF StockInv
<1>8. Behind(InSlot(Sell).save)'
  <2>1. PICK m \in Nat : m = InSlot(Sell).save
    BY <1>3
  <2>2. Behind(m)'
    BY <1>6, <2>1 DEF StockInv
  <2> QED BY <1>3, <2>1, <2>2 DEF Behind
<1>9. ASSUME NEW i \in DOMAIN sent', IsSet(sent'[i], Buy),
             NEW j \in DOMAIN sent', i < j, IsSet(sent'[j], Buy)
      PROVE  SaveOf(sent'[i]) <= SaveOf(sent'[j])
  <2>1. i \in DOMAIN sent /\ j \in DOMAIN sent
    BY <1>1, <1>2, <1>9
  <2> QED BY <1>1, <1>9, <2>1 DEF StockInv
<1>10. ASSUME NEW i \in DOMAIN sent', IsSet(sent'[i], Sell)
       PROVE  /\ Behind(SaveOf(sent[i]))'
              /\ \A j \in DOMAIN sent' : i < j /\ IsSet(sent'[j], Sell) =>
                   SaveOf(sent'[i]) <= SaveOf(sent'[j])
              /\ \A j \in DOMAIN replies' : \A m \in Nat :
                   Stock(replies[j].r, m)' => SaveOf(sent'[i]) <= m
  <2>1. CASE i = n
    <3>1. Behind(p)'
      BY <1>1, <1>4, <1>6 DEF StockInv
    <3>2. Behind(SaveOf(sent[i]))'
      BY <1>2, <2>1, <3>1 DEF Behind, SaveOf
    <3>3. \A j \in DOMAIN sent' : ~(i < j)
      BY <1>1, <2>1
    <3>4. ASSUME NEW j \in DOMAIN replies', NEW m \in Nat, Stock(replies[j].r, m)'
          PROVE  p <= m
      <4>1. j + 1 \in DOMAIN replies /\ Stock(replies[j + 1].r, m) /\ 1 < j + 1
        BY <1>4, <1>5, <3>4
      <4> QED BY <1>1, <1>4, <4>1 DEF StockInv
    <3> QED BY <1>2, <2>1, <3>2, <3>3, <3>4
  <2>2. CASE i \in DOMAIN sent
    <3>1. IsSet(sent[i], Sell) /\ sent'[i] = sent[i] /\ SaveOf(sent[i]) \in Nat
      BY <1>1, <1>10, <2>2, EntryTypes DEF SaveOf, Cmds, Values
    <3>2. PICK m \in Nat : m = SaveOf(sent[i]) /\ Behind(m)
      BY <2>2, <3>1 DEF StockInv
    <3>3. Behind(m)' /\ SaveOf(sent'[i]) = m
      BY <1>6, <3>1, <3>2
    <3>4. Behind(SaveOf(sent[i]))'
      BY <3>3 DEF Behind, SaveOf
    <3>5. m <= p
      BY <1>1, <1>4, <2>2, <3>1, <3>2 DEF StockInv
    <3>6. ASSUME NEW j \in DOMAIN sent', i < j, IsSet(sent'[j], Sell)
          PROVE  m <= SaveOf(sent'[j])
      <4>1. CASE j = n
        BY <1>2, <3>5, <4>1
      <4>2. CASE j \in DOMAIN sent
        BY <1>1, <2>2, <3>1, <3>2, <3>6, <4>2 DEF StockInv
      <4> QED BY <1>1, <4>1, <4>2
    <3>7. ASSUME NEW j \in DOMAIN replies', NEW h \in Nat, Stock(replies[j].r, h)'
          PROVE  m <= h
      <4>1. j + 1 \in DOMAIN replies /\ Stock(replies[j + 1].r, h)
        BY <1>5, <3>7
      <4> QED BY <2>2, <3>1, <3>2, <4>1 DEF StockInv
    <3> QED BY <3>3, <3>4, <3>6, <3>7
  <2> QED BY <1>1, <2>1, <2>2
<1>11. ASSUME NEW i \in DOMAIN replies', NEW h \in Nat, Stock(replies[i].r, h)'
       PROVE  /\ Behind(h)'
              /\ \A j \in DOMAIN replies' : \A m \in Nat :
                   i < j /\ Stock(replies[j].r, m)' => h <= m
  <2>1. i + 1 \in DOMAIN replies /\ Stock(replies[i + 1].r, h)
    BY <1>5, <1>11
  <2>2. Behind(h)'
    BY <1>6, <2>1 DEF StockInv
  <2>3. ASSUME NEW j \in DOMAIN replies', NEW m \in Nat, i < j, Stock(replies[j].r, m)'
        PROVE  h <= m
    <3>1. j + 1 \in DOMAIN replies /\ Stock(replies[j + 1].r, m) /\ i + 1 < j + 1
      BY <1>4, <1>5, <2>3
    <3> QED BY <2>1, <3>1 DEF StockInv
  <2> QED BY <2>2, <2>3
<1>12. \A i \in DOMAIN sent' : /\ IsSet(sent[i], Buy)' => IsSet(sent'[i], Buy)
                               /\ IsSet(sent[i], Sell)' => IsSet(sent'[i], Sell)
  BY DEF IsSet
<1> HIDE DEF n
<1> QED BY <1>7, <1>8, <1>9, <1>10, <1>11, <1>12 DEF StockInv, SaveOf

\* What request r does after the stocks to buy have been saved.
LEMMA StockGoesOn ==
  ASSUME TypeInv, PlanInv, NEW r \in Requests, NEW n, Stock(r, n),
         SendsNext(r, Tail(requests[r].todo))
  PROVE  SendsSell(r, n)
<1>1. Tail(requests[r].todo) = <<SetSell(n)>> /\ n \in 1 .. saves
  BY StockWaits
<1>2. <<SetSell(n)>> \in Seq(Steps) /\ <<SetSell(n)>> # <<>> /\ Head(<<SetSell(n)>>) = SetSell(n)
  <2>1. n \in Nat
    BY <1>1 DEF TypeInv
  <2> QED BY <2>1, CmdSteps
<1>3. SetSell(n) = Redis(<<Set(Sell, n, 0)>>)
  BY DEF SetSell
<1> QED BY <1>1, <1>2, <1>3, SendsSingle DEF SendsSell, Stock

\* The commands move up by one, and the reply is the last.
LEMMA Shifted ==
  ASSUME TypeInv, PlanInv, CarryOut
  PROVE  /\ DOMAIN sent = 1 .. Len(sent) /\ Len(sent) \in Nat /\ 1 \in DOMAIN sent
         /\ \A i \in DOMAIN sent' : /\ i + 1 \in DOMAIN sent /\ sent'[i] = sent[i + 1]
                                    /\ i \in Nat \ {0} /\ 1 < i + 1
         /\ DOMAIN replies = 1 .. Len(replies) /\ Len(replies) \in Nat
         /\ DOMAIN replies' = 1 .. Len(replies) + 1
         /\ \A i \in DOMAIN replies : replies'[i] = replies[i]
         /\ replies'[Len(replies) + 1].r = sent[1].r
         /\ requests' = requests
<1>1. PICK e \in Entries : e.r = sent[1].r /\ replies' = Append(replies, e)
  BY Carried
<1>2. /\ DOMAIN replies = 1 .. Len(replies) /\ Len(replies) \in Nat
      /\ DOMAIN replies' = 1 .. Len(replies) + 1
      /\ \A i \in DOMAIN replies : replies'[i] = replies[i]
      /\ replies'[Len(replies) + 1] = e
  BY <1>1, Appends DEF TypeInv
<1>3. /\ DOMAIN sent = 1 .. Len(sent) /\ Len(sent) \in Nat /\ 1 \in DOMAIN sent
      /\ DOMAIN sent' = 1 .. Len(sent) - 1
      /\ \A i \in DOMAIN sent' : i + 1 \in DOMAIN sent /\ sent'[i] = sent[i + 1]
      /\ requests' = requests
  BY Carried, EntryTypes
<1> QED BY <1>1, <1>2, <1>3

LEMMA StockCarriesBuy ==
  ASSUME TypeInv, PlanInv, StockInv, TypeInv', CarryOut, IsSet(sent[1], Buy)
  PROVE  StockInv'
<1> DEFINE last == Len(replies) + 1
<1>1. PICK m \in 1 .. saves :
        /\ m = SaveOf(sent[1]) /\ Stock(sent[1].r, m) /\ m \in Nat /\ m <= saves
        /\ InSlot(Buy)' = [save |-> m, id |-> 0] /\ InSlot(Sell)' = InSlot(Sell) /\ saves' = saves
  <2>1. /\ SaveOf(sent[1]) \in 1 .. saves /\ Stock(sent[1].r, SaveOf(sent[1]))
        /\ sent[1].command.value = [save |-> SaveOf(sent[1]), id |-> 0]
    BY Shifted, BuySent
  <2>2. ~IsSet(sent[1], Sell)
    BY StockFields DEF IsSet
  <2>3. saves' = saves /\ saves \in Nat
    BY Carried DEF TypeInv
  <2> QED BY <2>1, <2>2, <2>3, CarriedSlot
<1>2. InSlot(Buy)'.save = m /\ InSlot(Buy)'.id = 0 /\ InSlot(Sell).save \in Nat
  BY <1>1, SlotTypes
<1>3. \A i \in DOMAIN sent : SaveOf(sent[i]) \in Nat
  BY EntryTypes DEF SaveOf, Cmds, Values
\* Those that come after the list to buy are later.
<1>4. ASSUME NEW n \in Nat, n <= m PROVE Behind(n)'
  <2>1. ASSUME NEW j \in DOMAIN sent', IsSet(sent'[j], Buy) PROVE n <= SaveOf(sent'[j])
    <3>1. j + 1 \in DOMAIN sent /\ 1 \in DOMAIN sent /\ sent'[j] = sent[j + 1] /\ 1 < j + 1
      BY Shifted
    <3>2. m <= SaveOf(sent[j + 1])
      BY <1>1, <2>1, <3>1 DEF StockInv
    <3> QED BY <1>3, <1>4, <3>1, <3>2
  <2>2. \A j \in DOMAIN sent' : IsSet(sent[j], Buy)' => IsSet(sent'[j], Buy)
    BY DEF IsSet
  <2> QED BY <1>2, <1>4, <2>1, <2>2 DEF Behind, SaveOf
<1>5. \A n \in Nat : Behind(n) => n <= m
  BY <1>1, Shifted DEF Behind
<1>6. \A i \in DOMAIN replies', n \in Nat : Stock(replies[i].r, n)' =>
        \/ i \in DOMAIN replies /\ Stock(replies[i].r, n)
        \/ i = last /\ n = m
  <2>1. \A s, n : Stock(s, n)' <=> Stock(s, n)
    BY Shifted DEF Stock
  <2>2. ASSUME NEW i \in DOMAIN replies', NEW n \in Nat, Stock(replies[i].r, n)'
        PROVE  \/ i \in DOMAIN replies /\ Stock(replies[i].r, n)
               \/ i = last /\ n = m
    <3>1. CASE i \in DOMAIN replies
      BY <2>2, <3>1, Shifted DEF Stock
    <3>2. CASE i = last
      <4>1. Stock(sent[1].r, n)
        BY <2>2, <3>2, Shifted DEF Stock
      <4> QED BY <1>1, <3>2, <4>1, StockUnique
    <3> QED BY <3>1, <3>2, Shifted
  <2> QED BY <2>2
<1>7. /\ InSlot(Sell)'.save <= saves' /\ InSlot(Buy)'.save <= saves'
      /\ (InSlot(Buy)' # Blank => InSlot(Buy)'.id = 0)
  BY <1>1, <1>2 DEF StockInv
<1>8. Behind(InSlot(Sell).save)'
  <2>1. PICK n \in Nat : n = InSlot(Sell).save /\ n <= m
    BY <1>2, <1>5 DEF StockInv
  <2>2. Behind(n)'
    BY <1>4, <2>1
  <2> QED BY <1>1, <2>1, <2>2 DEF Behind
<1>9. ASSUME NEW i \in DOMAIN sent', NEW j \in DOMAIN sent', i < j
      PROVE  /\ i + 1 \in DOMAIN sent /\ sent'[i] = sent[i + 1]
             /\ j + 1 \in DOMAIN sent /\ sent'[j] = sent[j + 1] /\ i + 1 < j + 1
  BY <1>9, Shifted
<1>10. ASSUME NEW i \in DOMAIN sent', IsSet(sent'[i], Buy),
              NEW j \in DOMAIN sent', i < j, IsSet(sent'[j], Buy)
       PROVE  SaveOf(sent'[i]) <= SaveOf(sent'[j])
  BY <1>9, <1>10 DEF StockInv
<1>11. ASSUME NEW i \in DOMAIN sent', IsSet(sent'[i], Sell)
       PROVE  /\ Behind(SaveOf(sent[i]))'
              /\ \A j \in DOMAIN sent' : i < j /\ IsSet(sent'[j], Sell) =>
                   SaveOf(sent'[i]) <= SaveOf(sent'[j])
              /\ \A j \in DOMAIN replies' : \A n \in Nat :
                   Stock(replies[j].r, n)' => SaveOf(sent'[i]) <= n
  <2>1. i + 1 \in DOMAIN sent /\ sent'[i] = sent[i + 1]
    BY Shifted
  <2>2. PICK h \in Nat : h = SaveOf(sent[i + 1]) /\ h <= m
    BY <1>3, <1>5, <1>11, <2>1 DEF StockInv
  <2>3. Behind(h)' /\ SaveOf(sent'[i]) = h
    BY <1>4, <2>1, <2>2
  <2>4. Behind(SaveOf(sent[i]))'
    BY <2>3 DEF Behind, SaveOf
  <2>5. \A j \in DOMAIN sent' : i < j /\ IsSet(sent'[j], Sell) => SaveOf(sent'[i]) <= SaveOf(sent'[j])
    BY <1>9, <1>11 DEF StockInv
  <2>6. \A j \in DOMAIN replies' : \A n \in Nat : Stock(replies[j].r, n)' => h <= n
    BY <1>6, <1>11, <2>1, <2>2 DEF StockInv
  <2> QED BY <2>3, <2>4, <2>5, <2>6
<1>12. ASSUME NEW i \in DOMAIN replies', NEW h \in Nat, Stock(replies[i].r, h)'
       PROVE  /\ Behind(h)'
              /\ \A j \in DOMAIN replies' : \A n \in Nat :
                   i < j /\ Stock(replies[j].r, n)' => h <= n
  <2>1. CASE i \in DOMAIN replies /\ Stock(replies[i].r, h)
    <3>1. h <= m
      BY <1>5, <2>1 DEF StockInv
    <3>2. Behind(h)'
      BY <1>4, <3>1
    <3>3. ASSUME NEW j \in DOMAIN replies', NEW n \in Nat, i < j, Stock(replies[j].r, n)'
          PROVE  h <= n
      <4>1. CASE j \in DOMAIN replies /\ Stock(replies[j].r, n)
        BY <2>1, <3>3, <4>1 DEF StockInv
      <4>2. CASE j = last /\ n = m
        BY <3>1, <4>2
      <4> QED BY <1>6, <3>3, <4>1, <4>2
    <3> QED BY <3>2, <3>3
  <2>2. CASE i = last /\ h = m
    <3>1. Behind(h)'
      BY <1>4, <2>2
    <3>2. \A j \in DOMAIN replies' : ~(i < j)
      BY <2>2, Shifted
    <3> QED BY <3>1, <3>2
  <2> QED BY <1>6, <1>12, <2>1, <2>2
<1>13. \A i \in DOMAIN sent' : /\ IsSet(sent[i], Buy)' => IsSet(sent'[i], Buy)
                               /\ IsSet(sent[i], Sell)' => IsSet(sent'[i], Sell)
  BY DEF IsSet
<1> HIDE DEF last
<1> QED BY <1>7, <1>8, <1>10, <1>11, <1>12, <1>13 DEF StockInv, SaveOf

\* No save is waiting for the reply to a command that is not for the stocks to buy.
LEMMA NotForBuy ==
  ASSUME TypeInv, PlanInv, CarryOut, ~IsSet(sent[1], Buy)
  PROVE  \A i \in DOMAIN replies', n \in Nat :
           Stock(replies[i].r, n)' => i \in DOMAIN replies /\ Stock(replies[i].r, n)
<1>1. \A n : ~Stock(sent[1].r, n)
  BY Shifted, StockSent, StockFields DEF IsSet
<1> QED BY <1>1, Shifted DEF Stock

LEMMA StockCarriesSell ==
  ASSUME TypeInv, PlanInv, StockInv, TypeInv', CarryOut, IsSet(sent[1], Sell)
  PROVE  StockInv'
<1>1. PICK m \in 1 .. saves :
        /\ m = SaveOf(sent[1]) /\ m \in Nat /\ m <= saves
        /\ InSlot(Sell)' = [save |-> m, id |-> 0] /\ InSlot(Buy)' = InSlot(Buy) /\ saves' = saves
  <2>1. /\ SaveOf(sent[1]) \in 1 .. saves
        /\ sent[1].command.value = [save |-> SaveOf(sent[1]), id |-> 0]
    BY Shifted, SellSent
  <2>2. ~IsSet(sent[1], Buy)
    BY StockFields DEF IsSet
  <2>3. saves' = saves /\ saves \in Nat
    BY Carried DEF TypeInv
  <2> QED BY <2>1, <2>2, <2>3, CarriedSlot
<1>2. \A i \in DOMAIN sent : SaveOf(sent[i]) \in Nat
  BY EntryTypes DEF SaveOf, Cmds, Values
<1>3. ASSUME NEW n \in Nat, Behind(n) PROVE Behind(n)'
  <2>1. \A j \in DOMAIN sent' : IsSet(sent'[j], Buy) => n <= SaveOf(sent'[j])
    BY <1>3, Shifted DEF Behind
  <2>2. \A j \in DOMAIN sent' : IsSet(sent[j], Buy)' => IsSet(sent'[j], Buy)
    BY DEF IsSet
  <2> QED BY <1>1, <1>3, <2>1, <2>2 DEF Behind, SaveOf
<1>4. ~IsSet(sent[1], Buy)
  BY StockFields DEF IsSet
<1>5. /\ InSlot(Sell)'.save <= saves' /\ InSlot(Buy)'.save <= saves'
      /\ (InSlot(Buy)' # Blank => InSlot(Buy)'.id = 0)
  BY <1>1 DEF StockInv
<1>6. Behind(InSlot(Sell).save)'
  <2>1. Behind(m)
    BY <1>1, Shifted DEF StockInv
  <2>2. Behind(m)' /\ InSlot(Sell)'.save = m
    BY <1>1, <1>3, <2>1
  <2> QED BY <2>2 DEF Behind
<1>7. ASSUME NEW i \in DOMAIN sent', NEW j \in DOMAIN sent', i < j
      PROVE  /\ i + 1 \in DOMAIN sent /\ sent'[i] = sent[i + 1]
             /\ j + 1 \in DOMAIN sent /\ sent'[j] = sent[j + 1] /\ i + 1 < j + 1
  BY <1>7, Shifted
<1>8. ASSUME NEW i \in DOMAIN sent', IsSet(sent'[i], Buy),
             NEW j \in DOMAIN sent', i < j, IsSet(sent'[j], Buy)
      PROVE  SaveOf(sent'[i]) <= SaveOf(sent'[j])
  BY <1>7, <1>8 DEF StockInv
<1>9. ASSUME NEW i \in DOMAIN sent', IsSet(sent'[i], Sell)
      PROVE  /\ Behind(SaveOf(sent[i]))'
             /\ \A j \in DOMAIN sent' : i < j /\ IsSet(sent'[j], Sell) =>
                  SaveOf(sent'[i]) <= SaveOf(sent'[j])
             /\ \A j \in DOMAIN replies' : \A n \in Nat :
                  Stock(replies[j].r, n)' => SaveOf(sent'[i]) <= n
  <2>1. i + 1 \in DOMAIN sent /\ sent'[i] = sent[i + 1]
    BY Shifted
  <2>2. PICK h \in Nat : h = SaveOf(sent[i + 1]) /\ Behind(h)
    BY <1>2, <1>9, <2>1 DEF StockInv
  <2>3. Behind(h)' /\ SaveOf(sent'[i]) = h
    BY <1>3, <2>1, <2>2
  <2>4. Behind(SaveOf(sent[i]))'
    BY <2>3 DEF Behind, SaveOf
  <2>5. \A j \in DOMAIN sent' : i < j /\ IsSet(sent'[j], Sell) => SaveOf(sent'[i]) <= SaveOf(sent'[j])
    BY <1>7, <1>9 DEF StockInv
  <2>6. \A j \in DOMAIN replies' : \A n \in Nat : Stock(replies[j].r, n)' => h <= n
    BY <1>4, <1>9, <2>1, <2>2, NotForBuy DEF StockInv
  <2> QED BY <2>3, <2>4, <2>5, <2>6
<1>10. ASSUME NEW i \in DOMAIN replies', NEW h \in Nat, Stock(replies[i].r, h)'
       PROVE  /\ Behind(h)'
              /\ \A j \in DOMAIN replies' : \A n \in Nat :
                   i < j /\ Stock(replies[j].r, n)' => h <= n
  <2>1. i \in DOMAIN replies /\ Stock(replies[i].r, h)
    BY <1>4, <1>10, NotForBuy
  <2>2. Behind(h)'
    BY <1>3, <2>1 DEF StockInv
  <2>3. \A j \in DOMAIN replies' : \A n \in Nat : i < j /\ Stock(replies[j].r, n)' => h <= n
    BY <1>4, <2>1, NotForBuy DEF StockInv
  <2> QED BY <2>2, <2>3
<1>11. \A i \in DOMAIN sent' : /\ IsSet(sent[i], Buy)' => IsSet(sent'[i], Buy)
                               /\ IsSet(sent[i], Sell)' => IsSet(sent'[i], Sell)
  BY DEF IsSet
<1> QED BY <1>5, <1>6, <1>8, <1>9, <1>10, <1>11 DEF StockInv, SaveOf

LEMMA StockStep ==
  ASSUME TypeInv, PlanInv, StockInv, [ReportNext]_reportVars
  PROVE  StockInv'
<1>0. TypeInv' /\ saves \in Nat
  BY TypesAndPlans DEF TypeInv
<1>1. ASSUME NEW r \in Requests, NEW q \in Requested, Begins(r, q) PROVE StockInv'
  <2>1. CASE sent' = sent \/ SendsOther(r) \/ SendsThreeGets(r) \/ SendsImage(r, q)
    <3>1. OldLists
      BY <2>1, OldSends
    <3>2. SameReplies(0) /\ saves <= saves'
      BY <1>0, <1>1, Doing, RepliesOfOthers DEF Begins
    <3>3. InSlot(Buy)' = InSlot(Buy) /\ InSlot(Sell)' = InSlot(Sell)
      BY <1>1 DEF Begins, InSlot
    <3> QED BY <1>0, <3>1, <3>2, <3>3, StockUnchanged
  <2>2. CASE SendsBuy(r, q)
    BY <1>0, <1>1, <2>2, StockBegun
  <2> QED BY <1>1, <2>1, <2>2, BeginSends
<1>2. ASSUME NEW r \in Requests, NEW q \in Requested, Continues(r, q) PROVE StockInv'
  <2>1. sent' = sent \/ SendsOther(r)
    <3>1. requests[r].todo # <<>> /\ SendsNext(r, Tail(requests[r].todo)) /\ ~Awaits(r, "redis")
      BY <1>2 DEF Continues
    <3>2. \A n : ~SendsSell(r, n)
      BY <3>1, StockWaits DEF SendsSell, Stock
    <3> QED BY <3>1, <3>2, NextSends
  <2>2. OldLists
    BY <2>1, OldSends
  <2>3. SameReplies(0) /\ saves <= saves'
    BY <1>0, <1>2, RepliesOfOthers DEF Continues
  <2>4. InSlot(Buy)' = InSlot(Buy) /\ InSlot(Sell)' = InSlot(Sell)
    BY <1>2 DEF Continues, InSlot
  <2> QED BY <1>0, <2>2, <2>3, <2>4, StockUnchanged
<1>3. ASSUME NEW r \in Requests, NEW q \in Requested, Takes(r, q) PROVE StockInv'
  <2>1. /\ 1 \in DOMAIN replies /\ requests[r].todo # <<>>
        /\ DOMAIN replies' = 1 .. Len(replies) - 1 /\ Len(replies) \in Nat
        /\ \A i \in DOMAIN replies' : /\ i + 1 \in DOMAIN replies /\ replies'[i] = replies[i + 1]
                                      /\ replies'[i].r \in Requests
        /\ \A s \in Requests : s # r => requests'[s] = requests[s]
        /\ requests'[r] = q
    BY <1>3, RestReplies, EntryTypes, Changed DEF Takes, PlanInv, Awaited, Awaits
  <2>2. InSlot(Buy)' = InSlot(Buy) /\ InSlot(Sell)' = InSlot(Sell) /\ saves <= saves'
    BY <1>0, <1>3 DEF Takes, InSlot
  <2>3. CASE q.todo = requests[r].todo /\ sent' = sent
    <3>1. SameReplies(1)
      BY <2>1, <2>3 DEF SameReplies
    <3>2. OldLists
      BY <2>3 DEF OldLists
    <3> QED BY <1>0, <2>2, <3>1, <3>2, StockUnchanged
  <2>4. CASE /\ SendsNext(r, Tail(requests[r].todo))
             /\ \A i \in 2 .. Len(replies) : replies[i].r # r
    <3>1. \A i \in DOMAIN replies' : i + 1 \in 2 .. Len(replies)
      BY <2>1
    <3>2. \A i \in DOMAIN replies' : replies'[i].r # r
      BY <2>1, <2>4, <3>1
    <3>3. CASE sent' = sent \/ SendsOther(r)
      <4>1. SameReplies(1)
        BY <2>1, <3>2 DEF SameReplies
      <4>2. OldLists
        BY <3>3, OldSends
      <4> QED BY <1>0, <2>2, <4>1, <4>2, StockUnchanged
    <3>4. ASSUME NEW n \in 1 .. saves, SendsSell(r, n) PROVE StockInv'
      BY <1>0, <1>3, <2>1, <3>2, <3>4, StockSell
    <3> QED BY <2>1, <2>4, <3>3, <3>4, NextSends
  <2> QED BY <1>3, <2>3, <2>4 DEF Takes
<1>4. ASSUME NEW r \in Requests, Ends(r) PROVE StockInv'
  <2>1. SameReplies(0) /\ saves <= saves'
    BY <1>0, <1>4, RepliesOfOthers DEF Ends
  <2>2. InSlot(Buy)' = InSlot(Buy) /\ InSlot(Sell)' = InSlot(Sell) /\ OldLists
    BY <1>4 DEF Ends, InSlot, OldLists
  <2> QED BY <1>0, <2>1, <2>2, StockUnchanged
<1>5. CASE CarryOut
  <2>1. CASE IsSet(sent[1], Buy)
    BY <1>0, <1>5, <2>1, StockCarriesBuy
  <2>2. CASE IsSet(sent[1], Sell)
    BY <1>0, <1>5, <2>2, StockCarriesSell
  <2>3. CASE ~IsSet(sent[1], Buy) /\ ~IsSet(sent[1], Sell)
    <3>1. InSlot(Buy)' = InSlot(Buy) /\ InSlot(Sell)' = InSlot(Sell) /\ saves <= saves'
      BY <1>0, <1>5, <2>3, CarriedSlot, Carried
    <3>2. \A i \in DOMAIN replies', n \in Nat :
            Stock(replies[i].r, n)' => i + 0 \in DOMAIN replies /\ Stock(replies[i + 0].r, n)
      <4>1. \A i \in DOMAIN replies : i + 0 = i
        BY EntryTypes
      <4> QED BY <1>5, <2>3, <4>1, NotForBuy
    <3>3. StockKept(1, 0)
      BY <1>5, <3>1, <3>2, Shifted DEF StockKept
    <3> QED BY <1>0, <3>3, StockSame
  <2> QED BY <2>1, <2>2, <2>3
<1>6. CASE ConnectionLost
  <2>1. SameReplies(0) /\ OldLists /\ saves <= saves'
    BY <1>0, <1>6, Lost DEF SameReplies, OldLists
  <2>2. InSlot(Buy)' = InSlot(Buy) /\ InSlot(Sell)' = InSlot(Sell)
    BY <1>6, Lost DEF InSlot
  <2> QED BY <1>0, <2>1, <2>2, StockUnchanged
<1>7. CASE (\E key \in DOMAIN slots : Expire(key)) \/ Second \/ UNCHANGED reportVars
  <2>1. /\ UNCHANGED <<sent, replies, requests, saves>>
        /\ InSlot(Buy)' \in {InSlot(Buy), Blank} /\ InSlot(Sell)' \in {InSlot(Sell), Blank}
    <3>1. CASE \E key \in DOMAIN slots : Expire(key)
      BY <3>1 DEF Expire, InSlot
    <3>2. CASE Second \/ UNCHANGED reportVars
      BY <3>2 DEF Second, reportVars, InSlot
    <3> QED BY <1>7, <3>1, <3>2
  <2>2. SameReplies(0)
    BY <2>1, EntryTypes DEF SameReplies
  <2>3. OldLists
    BY <2>1 DEF OldLists
  <2> QED BY <1>0, <2>1, <2>2, <2>3, StockUnchanged
<1>8. ASSUME NEW r \in Requests, Drops(r) PROVE StockInv'
  <2>1. /\ DOMAIN replies' = 1 .. Len(replies) - 1 /\ Len(replies) \in Nat
        /\ \A i \in DOMAIN replies' : /\ i + 1 \in DOMAIN replies /\ replies'[i] = replies[i + 1]
                                      /\ replies'[i].r \in Requests
        /\ \A s \in Requests : s # r => requests'[s] = requests[s]
    BY <1>8, RestReplies, EntryTypes, Changed DEF Drops
  <2>2. \A i \in DOMAIN replies' : i + 1 \in 2 .. Len(replies)
    BY <2>1
  <2>3. \A i \in DOMAIN replies' : replies'[i].r # r
    BY <1>8, <2>1, <2>2 DEF Drops
  <2>4. SameReplies(1) /\ OldLists /\ saves <= saves'
    BY <1>0, <1>8, <2>1, <2>3 DEF Drops, SameReplies, OldLists
  <2>5. InSlot(Buy)' = InSlot(Buy) /\ InSlot(Sell)' = InSlot(Sell)
    BY <1>8 DEF Drops, InSlot
  <2> QED BY <1>0, <2>4, <2>5, StockUnchanged
<1> QED BY StepKinds, <1>1, <1>2, <1>3, <1>4, <1>5, <1>6, <1>7, <1>8

-------------------------------------------------------------------------------
(* Steps keep PairInv *)

\* Nothing older is added to what is still to be sold, and no save gives up.
PairKept(d, k) ==
  /\ cut' = cut
  /\ InSlot(Buy)' \in {InSlot(Buy), Blank} /\ InSlot(Sell)' \in {InSlot(Sell), Blank}
  /\ \A s \in Requests, n \in Nat : SellDue(s, n) => SellDue(s, n)'
  /\ \A i \in DOMAIN sent' : IsSet(sent'[i], Sell) =>
       \/ i + d \in DOMAIN sent /\ sent'[i] = sent[i + d]
       \/ 1 \in DOMAIN replies /\ Stock(replies[1].r, SaveOf(sent'[i])) /\ SaveOf(sent'[i]) \in Nat
  /\ \A i \in DOMAIN replies' : \A n \in Nat :
       Stock(replies[i].r, n)' => i + k \in DOMAIN replies /\ Stock(replies[i + k].r, n)

LEMMA PairSame ==
  ASSUME TypeInv, PairInv, NEW d \in Nat, NEW k \in Nat, PairKept(d, k)
  PROVE  PairInv'
<1> SUFFICES ASSUME ~cut', InSlot(Buy)' # Blank
             PROVE  \/ \E r \in Requests : SellDue(r, InSlot(Buy).save)'
                    \/ /\ InSlot(Sell)' \in {Blank, InSlot(Buy)'}
                       /\ NoneOlder(InSlot(Buy).save)'
  BY DEF PairInv, SellDue, Stock
<1>1. ~cut /\ InSlot(Buy)' = InSlot(Buy) /\ InSlot(Buy) # Blank
  BY DEF PairKept
<1>2. PICK n \in Nat : n = InSlot(Buy).save
  BY SlotTypes
<1>3. CASE \E r \in Requests : SellDue(r, n)
  <2>1. PICK r \in Requests : SellDue(r, n)'
    BY <1>3 DEF PairKept
  <2>2. SellDue(r, InSlot(Buy).save)'
    BY <1>1, <1>2, <2>1 DEF SellDue, Stock
  <2> QED BY <2>2
<1>4. CASE InSlot(Sell) \in {Blank, InSlot(Buy)} /\ NoneOlder(n)
  <2>1. \A i \in DOMAIN sent' : IsSet(sent'[i], Sell) => n <= SaveOf(sent'[i])
    BY <1>4 DEF NoneOlder, PairKept
  <2>2. \A i \in DOMAIN replies' : \A m \in Nat : Stock(replies[i].r, m)' => n <= m
    BY <1>4 DEF NoneOlder, PairKept
  <2>3. \A i \in DOMAIN sent' : IsSet(sent[i], Sell)' => IsSet(sent'[i], Sell)
    BY DEF IsSet
  <2>4. NoneOlder(InSlot(Buy).save)'
    BY <1>1, <1>2, <2>1, <2>2, <2>3 DEF NoneOlder, SaveOf
  <2>5. InSlot(Sell)' \in {Blank, InSlot(Buy)'}
    BY <1>1, <1>4 DEF PairKept
  <2> QED BY <2>4, <2>5
<1> QED BY <1>1, <1>2, <1>3, <1>4 DEF PairInv

\* What is due stays due when its request and its command stay.
LEMMA DueStays ==
  ASSUME NEW s, NEW n, SellDue(s, n),
         requests'[s].todo = requests[s].todo, requests'[s].work = requests[s].work,
         \A i \in DOMAIN sent : i \in DOMAIN sent' /\ sent'[i] = sent[i]
  PROVE  SellDue(s, n)'
BY DEF SellDue, Stock

\* A request with something due waits for redis.
LEMMA DueWaits ==
  ASSUME TypeInv, PlanInv, NEW s \in Requests, NEW n, SellDue(s, n)
  PROVE  Awaits(s, "redis") /\ requests[s].work = "saveStockRecommend"
BY StockWaits DEF SellDue, PlanInv

LEMMA PairStep ==
  ASSUME TypeInv, PlanInv, StockInv, PairInv, [ReportNext]_reportVars
  PROVE  PairInv'
<1>0. DOMAIN sent = 1 .. Len(sent) /\ Len(sent) \in Nat /\ DOMAIN replies \subseteq Nat
  BY EntryTypes
\* A step of a request that waits for nothing of redis.
<1>1. ASSUME NEW r \in Requests, NEW q, Becomes(r, q), ~Awaits(r, "redis"), replies' = replies,
             slots' = slots, cut' = cut,
             \A i \in DOMAIN sent : i \in DOMAIN sent' /\ sent'[i] = sent[i],
             \A i \in DOMAIN sent' : IsSet(sent'[i], Sell) => i \in DOMAIN sent
      PROVE  PairInv'
  <2>1. \A s \in Requests, n \in Nat : SellDue(s, n) => SellDue(s, n)'
    <3> TAKE s \in Requests, n \in Nat
    <3> HAVE SellDue(s, n)
    <3>1. s # r
      BY <1>1, DueWaits
    <3>2. requests'[s] = requests[s]
      BY <1>1, <3>1, Changed
    <3> QED BY <1>1, <3>2, DueStays
  <2>2. SameReplies(0)
    BY <1>1, RepliesOfOthers
  <2>3. \A i \in DOMAIN replies' : \A n \in Nat :
          Stock(replies[i].r, n)' => i + 0 \in DOMAIN replies /\ Stock(replies[i + 0].r, n)
    BY <2>2 DEF SameReplies, Stock
  <2>4. InSlot(Buy)' = InSlot(Buy) /\ InSlot(Sell)' = InSlot(Sell)
    BY <1>1 DEF InSlot
  <2>5. \A i \in DOMAIN sent' : IsSet(sent'[i], Sell) => i + 0 \in DOMAIN sent /\ sent'[i] = sent[i + 0]
    BY <1>0, <1>1
  <2>6. PairKept(0, 0)
    BY <1>1, <2>1, <2>3, <2>4, <2>5 DEF PairKept
  <2> QED BY <2>6, PairSame
<1>2. ASSUME NEW r \in Requests, NEW q \in Requested, Begins(r, q) PROVE PairInv'
  <2>1. /\ Becomes(r, q) /\ ~Awaits(r, "redis") /\ UNCHANGED <<replies, slots, cut>>
        /\ q.todo \in Seq(Steps) /\ SendsNext(r, q.todo)
    BY <1>2, Doing DEF Begins, Requested
  <2>2. \A i \in DOMAIN sent : i \in DOMAIN sent' /\ sent'[i] = sent[i]
    BY <2>1, Sending
  <2>3. \A i \in DOMAIN sent' : IsSet(sent'[i], Sell) => i \in DOMAIN sent
    <3>1. CASE SendsBuy(r, q)
      <4>1. ~IsSet(sent'[Len(sent) + 1], Sell)
        BY <3>1, StockFields DEF SendsBuy, IsSet
      <4> QED BY <1>0, <3>1, <4>1 DEF SendsBuy
    <3>2. CASE sent' = sent \/ SendsOther(r) \/ SendsThreeGets(r) \/ SendsImage(r, q)
      BY <3>2, OldSends DEF OldLists
    <3> QED BY <1>2, <3>1, <3>2, BeginSends
  <2> QED BY <1>1, <2>1, <2>2, <2>3
<1>3. ASSUME NEW r \in Requests, NEW q \in Requested, Continues(r, q) PROVE PairInv'
  <2>1. /\ Becomes(r, q) /\ ~Awaits(r, "redis") /\ UNCHANGED <<replies, slots, cut>>
        /\ requests[r].todo # <<>> /\ SendsNext(r, Tail(requests[r].todo))
        /\ q.todo \in Seq(Steps) /\ SendsNext(r, q.todo)
    BY <1>3 DEF Continues, Requested
  <2>2. \A i \in DOMAIN sent : i \in DOMAIN sent' /\ sent'[i] = sent[i]
    BY <2>1, Sending
  <2>3. sent' = sent \/ SendsOther(r)
    <3>1. \A n : ~SendsSell(r, n)
      BY <2>1, StockWaits DEF SendsSell, Stock
    <3> QED BY <2>1, <3>1, NextSends
  <2>4. \A i \in DOMAIN sent' : IsSet(sent'[i], Sell) => i \in DOMAIN sent
    BY <2>3, OldSends DEF OldLists
  <2> QED BY <1>1, <2>1, <2>2, <2>4
<1>4. ASSUME NEW r \in Requests, Ends(r) PROVE PairInv'
  BY <1>1, <1>4 DEF Ends
<1>5. ASSUME NEW r \in Requests, NEW q \in Requested, Takes(r, q) PROVE PairInv'
  <2>1. /\ 1 \in DOMAIN replies /\ replies[1].r = r /\ requests[r].todo # <<>>
        /\ \A i \in DOMAIN replies' : /\ i + 1 \in DOMAIN replies /\ replies'[i] = replies[i + 1]
                                      /\ replies'[i].r \in Requests
        /\ DOMAIN replies' = 1 .. Len(replies) - 1 /\ Len(replies) \in Nat
        /\ \A s \in Requests : s # r => requests'[s] = requests[s]
        /\ requests'[r] = q /\ q.work = requests[r].work
        /\ slots' = slots /\ cut' = cut /\ q.todo \in Seq(Steps)
    BY <1>5, RestReplies, EntryTypes, Changed DEF Takes, PlanInv, Awaited, Awaits, Requested
  <2>2. InSlot(Buy)' = InSlot(Buy) /\ InSlot(Sell)' = InSlot(Sell)
    BY <2>1 DEF InSlot
  <2>3. CASE q.todo = requests[r].todo /\ sent' = sent
    <3>1. \A s \in Requests : requests'[s].todo = requests[s].todo /\ requests'[s].work = requests[s].work
      BY <2>1, <2>3
    <3>2. \A s \in Requests, n \in Nat : SellDue(s, n) => SellDue(s, n)'
      BY <2>3, <3>1, DueStays
    <3>3. \A i \in DOMAIN replies' : \A n \in Nat :
            Stock(replies[i].r, n)' => i + 1 \in DOMAIN replies /\ Stock(replies[i + 1].r, n)
      BY <2>1, <3>1 DEF Stock
    <3>4. \A i \in DOMAIN sent' : i + 0 \in DOMAIN sent /\ sent'[i] = sent[i + 0]
      BY <1>0, <2>3
    <3>5. PairKept(0, 1)
      BY <2>1, <2>2, <3>2, <3>3, <3>4 DEF PairKept
    <3> QED BY <3>5, PairSame
  <2>4. CASE /\ SendsNext(r, Tail(requests[r].todo)) /\ q.todo = Tail(requests[r].todo)
             /\ \A i \in DOMAIN sent : sent[i].r # r
             /\ \A i \in 2 .. Len(replies) : replies[i].r # r
    <3>0. \A i \in DOMAIN sent : i \in DOMAIN sent' /\ sent'[i] = sent[i]
      BY <2>1, <2>4, Sending
    <3>1. \A i \in DOMAIN replies' : replies'[i].r # r
      <4>1. \A i \in DOMAIN replies' : i + 1 \in 2 .. Len(replies)
        BY <2>1
      <4> QED BY <2>1, <2>4, <4>1
    <3>2. \A i \in DOMAIN replies' : \A n \in Nat :
            Stock(replies[i].r, n)' => i + 1 \in DOMAIN replies /\ Stock(replies[i + 1].r, n)
      BY <2>1, <3>1 DEF Stock
    <3>3. \A s \in Requests, n \in Nat : SellDue(s, n) => SellDue(s, n)'
      <4> TAKE s \in Requests, n \in Nat
      <4> HAVE SellDue(s, n)
      <4>1. CASE s # r
        BY <2>1, <3>0, <4>1, DueStays
      <4>2. CASE s = r
        <5>1. Stock(r, n) /\ requests[r].work = "saveStockRecommend"
          BY <2>4, <4>2 DEF SellDue
        <5>2. SendsSell(r, n)
          BY <2>4, <5>1, StockGoesOn
        <5>3. /\ Len(sent) + 1 \in DOMAIN sent' /\ sent'[Len(sent) + 1].r = r
              /\ sent'[Len(sent) + 1].command = Set(Sell, n, 0)
          BY <1>0, <5>2 DEF SendsSell
        <5> QED BY <2>1, <4>2, <5>1, <5>3 DEF SellDue
      <4> QED BY <4>1, <4>2
    <3>4. ASSUME NEW i \in DOMAIN sent', IsSet(sent'[i], Sell)
          PROVE  \/ i + 0 \in DOMAIN sent /\ sent'[i] = sent[i + 0]
                 \/ Stock(replies[1].r, SaveOf(sent'[i])) /\ SaveOf(sent'[i]) \in Nat
      <4>1. CASE sent' = sent \/ SendsOther(r)
        <5>1. i \in DOMAIN sent /\ sent'[i] = sent[i]
          BY <3>4, <4>1, OldSends DEF OldLists
        <5> QED BY <1>0, <5>1
      <4>2. ASSUME NEW n \in 1 .. saves, SendsSell(r, n)
            PROVE  \/ i + 0 \in DOMAIN sent /\ sent'[i] = sent[i + 0]
                   \/ Stock(replies[1].r, SaveOf(sent'[i])) /\ SaveOf(sent'[i]) \in Nat
        <5>1. CASE i \in DOMAIN sent
          BY <1>0, <3>0, <5>1
        <5>2. CASE i = Len(sent) + 1
          <6>1. SaveOf(sent'[i]) = n /\ n \in Nat
            BY <4>2, <5>2 DEF SendsSell, SaveOf, Set, TypeInv
          <6> QED BY <2>1, <4>2, <6>1 DEF SendsSell, Stock
        <5> QED BY <1>0, <4>2, <5>1, <5>2 DEF SendsSell
      <4> QED BY <2>1, <2>4, <4>1, <4>2, NextSends
    <3>5. PairKept(0, 1)
      BY <2>1, <2>2, <3>2, <3>3, <3>4 DEF PairKept
    <3> QED BY <3>5, PairSame
  <2> QED BY <1>5, <2>3, <2>4 DEF Takes
<1>6. CASE CarryOut
  <2>0. requests' = requests /\ cut' = cut
    BY <1>6, Carried
  \* The commands behind the first one are still there.
  <2>1. \A s \in Requests, n \in Nat :
          SellDue(s, n) /\ sent[1].command # Set(Sell, n, 0) => SellDue(s, n)'
    <3> TAKE s \in Requests, n \in Nat
    <3> HAVE SellDue(s, n) /\ sent[1].command # Set(Sell, n, 0)
    <3>1. CASE Stock(s, n)
      BY <2>0, <3>1 DEF SellDue, Stock
    <3>2. ASSUME NEW i \in DOMAIN sent, sent[i].r = s, sent[i].command = Set(Sell, n, 0)
          PROVE  SellDue(s, n)'
      <4>1. i # 1
        BY <3>2
      <4>2. i - 1 \in DOMAIN sent' /\ sent'[i - 1] = sent[i]
        BY <1>0, <1>6, <4>1, Carried, Shifted
      <4> QED BY <2>0, <3>2, <4>2 DEF SellDue
    <3> QED BY <3>1, <3>2 DEF SellDue
  <2>2. CASE IsSet(sent[1], Buy)
    <3>1. PICK s \in Requests, m \in 1 .. saves :
            /\ s = sent[1].r /\ m = SaveOf(sent[1])
            /\ Stock(s, m) /\ requests[s].work = "saveStockRecommend"
      BY <1>6, <2>2, Shifted, BuySent, Carried
    <3>2. InSlot(Buy)'.save = m
      BY <1>6, <2>2, <3>1, CarriedSlot DEF SaveOf
    <3>3. SellDue(s, m)'
      BY <2>0, <3>1 DEF SellDue, Stock
    <3>4. SellDue(s, InSlot(Buy).save)'
      BY <3>2, <3>3 DEF SellDue, Stock
    <3> QED BY <3>4 DEF PairInv
  <2>3. CASE IsSet(sent[1], Sell)
    <3>1. PICK m \in Nat : /\ sent[1].command = Set(Sell, m, 0) /\ m = SaveOf(sent[1])
                           /\ InSlot(Sell)' = [save |-> m, id |-> 0]
      <4>1. /\ SaveOf(sent[1]) \in Nat /\ sent[1].command = Set(Sell, SaveOf(sent[1]), 0)
            /\ sent[1].command.value = [save |-> SaveOf(sent[1]), id |-> 0]
        BY <1>6, <2>3, Shifted, SellSent DEF TypeInv
      <4>2. InSlot(Sell)' = sent[1].command.value
        BY <1>6, <2>3, CarriedSlot
      <4> QED BY <4>1, <4>2
    <3>2. ~IsSet(sent[1], Buy)
      BY <2>3, StockFields DEF IsSet
    <3>3. InSlot(Buy)' = InSlot(Buy)
      BY <1>6, <3>2, CarriedSlot
    <3> SUFFICES ASSUME ~cut, InSlot(Buy) # Blank
                 PROVE  \/ \E r \in Requests : SellDue(r, InSlot(Buy).save)'
                        \/ /\ InSlot(Sell)' \in {Blank, InSlot(Buy)'}
                           /\ NoneOlder(InSlot(Buy).save)'
      BY <2>0, <3>3 DEF PairInv, SellDue, Stock
    <3>4. PICK n \in Nat : n = InSlot(Buy).save /\ InSlot(Buy) = [save |-> n, id |-> 0]
      BY SlotTypes DEF StockInv
    <3>5. m <= n /\ 1 \in DOMAIN sent
      BY <1>6, <2>3, <3>1, <3>4, Shifted DEF StockInv, Behind
    <3>6. CASE m = n
      <4>1. \A i \in DOMAIN sent' : IsSet(sent'[i], Sell) => n <= SaveOf(sent'[i])
        <5> TAKE i \in DOMAIN sent'
        <5>1. i + 1 \in DOMAIN sent /\ 1 < i + 1 /\ sent'[i] = sent[i + 1]
          BY <1>6, Shifted
        <5> QED BY <2>3, <3>1, <3>5, <3>6, <5>1 DEF StockInv
      <4>2. \A i \in DOMAIN replies' : \A h \in Nat : Stock(replies[i].r, h)' => n <= h
        BY <1>6, <2>3, <3>1, <3>2, <3>5, <3>6, NotForBuy DEF StockInv
      <4>3. \A i \in DOMAIN sent' : IsSet(sent[i], Sell)' => IsSet(sent'[i], Sell)
        BY DEF IsSet
      <4>4. NoneOlder(InSlot(Buy).save)'
        BY <3>3, <3>4, <4>1, <4>2, <4>3 DEF NoneOlder, SaveOf
      <4> QED BY <3>1, <3>3, <3>4, <3>6, <4>4
    <3>7. CASE m # n
      <4>1. ~NoneOlder(n)
        BY <2>3, <3>1, <3>5, <3>7 DEF NoneOlder
      <4>2. PICK s \in Requests : SellDue(s, n)
        BY <3>4, <4>1 DEF PairInv
      <4>3. sent[1].command # Set(Sell, n, 0)
        BY <3>1, <3>7 DEF Set
      <4>4. SellDue(s, n)'
        BY <2>1, <4>2, <4>3
      <4>5. SellDue(s, InSlot(Buy).save)'
        BY <3>3, <3>4, <4>4 DEF SellDue, Stock
      <4> QED BY <4>5
    <3> QED BY <3>6, <3>7
  <2>4. CASE ~IsSet(sent[1], Buy) /\ ~IsSet(sent[1], Sell)
    <3>1. InSlot(Buy)' = InSlot(Buy) /\ InSlot(Sell)' = InSlot(Sell)
      BY <1>6, <2>4, CarriedSlot
    <3>2. \A n : sent[1].command # Set(Sell, n, 0)
      BY <2>4, StockFields DEF IsSet
    <3>3. \A s \in Requests, n \in Nat : SellDue(s, n) => SellDue(s, n)'
      BY <2>1, <3>2
    <3>4. \A i \in DOMAIN replies', n \in Nat :
            Stock(replies[i].r, n)' => i + 0 \in DOMAIN replies /\ Stock(replies[i + 0].r, n)
      <4>1. \A i \in DOMAIN replies : i + 0 = i
        BY <1>0
      <4> QED BY <1>6, <2>4, <4>1, NotForBuy
    <3>5. PairKept(1, 0)
      BY <1>6, <2>0, <3>1, <3>3, <3>4, Shifted DEF PairKept
    <3> QED BY <3>5, PairSame
  <2> QED BY <2>2, <2>3, <2>4
<1>7. CASE ConnectionLost
  <2> SUFFICES ASSUME ~cut', InSlot(Buy)' # Blank
               PROVE  InSlot(Sell)' \in {Blank, InSlot(Buy)'} /\ NoneOlder(InSlot(Buy).save)'
    BY DEF PairInv
  <2>1. ~cut /\ \A r \in Requests : requests[r].work # "saveStockRecommend"
    BY <1>7 DEF ConnectionLost
  <2>2. InSlot(Buy)' = InSlot(Buy) /\ InSlot(Sell)' = InSlot(Sell)
    BY <1>7, Lost DEF InSlot
  <2>3. InSlot(Sell) \in {Blank, InSlot(Buy)}
    BY <2>1, <2>2 DEF PairInv, SellDue
  <2>4. NoneOlder(InSlot(Buy).save)'
    BY <1>7, Lost DEF NoneOlder
  <2> QED BY <2>2, <2>3, <2>4
<1>8. CASE (\E key \in DOMAIN slots : Expire(key)) \/ Second \/ UNCHANGED reportVars
  <2>1. /\ UNCHANGED <<sent, replies, requests, cut>>
        /\ InSlot(Buy)' \in {InSlot(Buy), Blank} /\ InSlot(Sell)' \in {InSlot(Sell), Blank}
    <3>1. CASE \E key \in DOMAIN slots : Expire(key)
      BY <3>1 DEF Expire, InSlot
    <3>2. CASE Second \/ UNCHANGED reportVars
      BY <3>2 DEF Second, reportVars, InSlot
    <3> QED BY <1>8, <3>1, <3>2
  <2>2. \A s \in Requests, n \in Nat : SellDue(s, n) => SellDue(s, n)'
    BY <2>1, DueStays
  <2>3. \A i \in DOMAIN replies' : \A n \in Nat :
          Stock(replies[i].r, n)' => i + 0 \in DOMAIN replies /\ Stock(replies[i + 0].r, n)
    BY <1>0, <2>1 DEF Stock
  <2>4. \A i \in DOMAIN sent' : i + 0 \in DOMAIN sent /\ sent'[i] = sent[i + 0]
    BY <1>0, <2>1
  <2>5. PairKept(0, 0)
    BY <2>1, <2>2, <2>3, <2>4 DEF PairKept
  <2> QED BY <2>5, PairSame
<1>9. ASSUME NEW r \in Requests, Drops(r) PROVE PairInv'
  BY <1>9 DEF Drops, PairInv
<1> QED BY StepKinds, <1>2, <1>3, <1>4, <1>5, <1>6, <1>7, <1>8, <1>9

-------------------------------------------------------------------------------
(* Steps keep ReadInv *)

Lists == {Buy, Sell}

\* Nothing is read, and nothing is added to the reads on their way.
ReadKept ==
  /\ \A s \in Requests, key \in Lists, v \in Values : HasRead(s, key, v)' => HasRead(s, key, v)
  /\ InSlot(Sell)' \in {InSlot(Sell), Blank}
  /\ \A i \in DOMAIN sent' : IsGet(sent'[i], Buy) \/ IsGet(sent'[i], Sell) =>
       i \in DOMAIN sent /\ sent'[i] = sent[i]
  /\ \A i \in DOMAIN sent : 1 \in DOMAIN sent' => i \in DOMAIN sent' /\ sent'[i] = sent[i]

LEMMA ReadSame ==
  ASSUME TypeInv, PlanInv, ReadInv, TypeInv', ReadKept
  PROVE  ReadInv'
<1>0. /\ DOMAIN sent = 1 .. Len(sent) /\ Len(sent) \in Nat
      /\ DOMAIN sent' \subseteq Nat \ {0} /\ (sent' # <<>> => 1 \in DOMAIN sent')
      /\ \A i \in DOMAIN sent : sent[i].r \in Requests
      /\ \A v \in Values : v.save \in Nat
      /\ Buy \in Lists /\ Sell \in Lists
  BY EntryTypes DEF TypeInv, Values, Lists
<1>1. \A r \in Requests : \A v, w \in Values :
        HasRead(r, Buy, v)' /\ HasRead(r, Sell, w)' /\ v # Blank => w.save <= v.save
  BY <1>0 DEF ReadInv, ReadKept
<1>2. ASSUME sent' # <<>>, IsGet(sent'[1], Sell)
      PROVE  \A v \in Values : HasRead(sent[1].r, Buy, v)' /\ v # Blank => InSlot(Sell)'.save <= v.save
  <2>1. 1 \in DOMAIN sent /\ sent'[1] = sent[1] /\ sent # <<>> /\ IsGet(sent[1], Sell)
    BY <1>0, <1>2 DEF ReadKept
  <2>2. PICK s \in Requests : s = sent[1].r
    BY <1>0, <2>1
  <2>3. \A v \in Values : HasRead(s, Buy, v)' => HasRead(s, Buy, v)
    BY <1>0 DEF ReadKept
  <2>4. \A v \in Values : HasRead(s, Buy, v)' /\ v # Blank => InSlot(Sell).save <= v.save
    BY <2>1, <2>2, <2>3 DEF ReadInv
  <2>5. \A v \in Values : HasRead(s, Buy, v)' /\ v # Blank => InSlot(Sell)'.save <= v.save
    BY <1>0, <2>4, SlotTypes DEF ReadKept
  <2>6. \A v \in Values : HasRead(sent[1].r, Buy, v)' => HasRead(s, Buy, v)'
    BY <2>1, <2>2 DEF HasRead
  <2> QED BY <2>5, <2>6
<1>3. ASSUME NEW j \in DOMAIN sent', IsGet(sent'[j], Buy)
      PROVE  /\ \A v \in Values : ~HasRead(sent[j].r, Buy, v)' /\ ~HasRead(sent[j].r, Sell, v)'
             /\ \A i \in 1 .. j - 1 :
                  sent'[i].r = sent'[j].r => ~IsGet(sent'[i], Buy) /\ ~IsGet(sent'[i], Sell)
  <2>1. j \in DOMAIN sent /\ sent'[j] = sent[j] /\ IsGet(sent[j], Buy)
    BY <1>3 DEF ReadKept
  <2>2. PICK s \in Requests : s = sent[j].r
    BY <1>0, <2>1
  <2>3. \A v \in Values : ~HasRead(s, Buy, v)' /\ ~HasRead(s, Sell, v)'
    BY <1>0, <2>1, <2>2 DEF ReadInv, ReadKept
  <2>4. \A v \in Values : ~HasRead(sent[j].r, Buy, v)' /\ ~HasRead(sent[j].r, Sell, v)'
    BY <2>1, <2>2, <2>3 DEF HasRead
  <2>5. 1 \in DOMAIN sent'
    BY <1>0, <1>3
  <2>6. \A i \in 1 .. j - 1 : i \in DOMAIN sent /\ sent'[i] = sent[i]
    BY <1>0, <2>1, <2>5 DEF ReadKept
  <2> QED BY <2>1, <2>4, <2>6 DEF ReadInv
<1>4. ASSUME NEW j \in DOMAIN sent', j > 1, IsGet(sent'[j], Sell)
      PROVE  sent'[j - 1].r = sent'[j].r /\ IsGet(sent'[j - 1], Buy)
  <2>1. j \in DOMAIN sent /\ sent'[j] = sent[j] /\ j - 1 \in DOMAIN sent /\ 1 \in DOMAIN sent'
    BY <1>0, <1>4 DEF ReadKept
  <2>2. sent'[j - 1] = sent[j - 1]
    BY <2>1 DEF ReadKept
  <2> QED BY <1>4, <2>1, <2>2 DEF ReadInv
<1>5. \A i : (IsGet(sent[i], Buy)' => IsGet(sent'[i], Buy)) /\ (IsGet(sent[i], Sell)' => IsGet(sent'[i], Sell))
             /\ (IsGet(sent'[i], Buy) => IsGet(sent[i], Buy)')
  BY DEF IsGet
<1> QED BY <1>1, <1>2, <1>3, <1>4, <1>5 DEF ReadInv, IsGet

\* A read of both lists begins.
LEMMA ReadBegun ==
  ASSUME TypeInv, PlanInv, ReadInv, TypeInv', NEW r \in Requests, NEW q \in Requested,
         Begins(r, q), SendsThreeGets(r)
  PROVE  ReadInv'
<1> DEFINE n == Len(sent)
<1>0. /\ DOMAIN sent = 1 .. n /\ n \in Nat /\ DOMAIN sent' = 1 .. n + 3
      /\ \A i \in DOMAIN sent : sent'[i] = sent[i] /\ sent[i].r \in Requests
      /\ sent'[n + 1].r = r /\ sent'[n + 2].r = r /\ sent'[n + 3].r = r
      /\ (sent # <<>> => 1 \in DOMAIN sent)
  BY EntryTypes DEF SendsThreeGets, TypeInv
<1>1. /\ ~IsGet(sent'[n + 1], Buy) /\ ~IsGet(sent'[n + 1], Sell)
      /\ IsGet(sent'[n + 2], Buy) /\ ~IsGet(sent'[n + 2], Sell)
      /\ ~IsGet(sent'[n + 3], Buy) /\ IsGet(sent'[n + 3], Sell)
  BY DEF SendsThreeGets, IsGet, Get, Buy, Sell
<1>2. \A i \in DOMAIN sent : sent[i].r # r
  BY Doing, Quiet DEF Begins
<1>3. InSlot(Sell)' = InSlot(Sell) /\ replies' = replies
  BY DEF Begins, InSlot
<1>4. \A s \in Requests, key \in Lists, v \in Values :
        HasRead(s, key, v)' => HasRead(s, key, v) /\ s # r
  <2> TAKE s \in Requests, key \in Lists, v \in Values
  <2> HAVE HasRead(s, key, v)'
  <2>1. \A i \in DOMAIN replies : replies[i].r # r
    BY Doing, Quiet DEF Begins
  <2>2. requests'[r] = q /\ q.got = {} /\ (s # r => requests'[s] = requests[s])
    BY Changed DEF Begins
  <2> QED BY <1>3, <2>1, <2>2 DEF HasRead
<1> HIDE DEF n
<1>5. \A r1 \in Requests : \A v, w \in Values :
        HasRead(r1, Buy, v)' /\ HasRead(r1, Sell, w)' /\ v # Blank => w.save <= v.save
  BY <1>4 DEF ReadInv, Lists
<1>6. ASSUME sent' # <<>>, IsGet(sent'[1], Sell)
      PROVE  \A v \in Values : HasRead(sent[1].r, Buy, v)' /\ v # Blank => InSlot(Sell)'.save <= v.save
  <2>1. 1 \in DOMAIN sent /\ sent'[1] = sent[1] /\ sent # <<>>
    <3>1. CASE n = 0
      BY <1>0, <1>1, <1>6, <3>1
    <3>2. CASE n # 0
      BY <1>0, <3>2
    <3> QED BY <3>1, <3>2
  <2>2. PICK s \in Requests : s = sent[1].r
    BY <1>0, <2>1
  <2>3. \A v \in Values : HasRead(s, Buy, v)' /\ v # Blank => InSlot(Sell)'.save <= v.save
    BY <1>3, <1>4, <1>6, <2>1, <2>2 DEF ReadInv, Lists
  <2>4. \A v \in Values : HasRead(sent[1].r, Buy, v)' => HasRead(s, Buy, v)'
    BY <2>1, <2>2 DEF HasRead
  <2> QED BY <2>3, <2>4
<1>7. ASSUME NEW j \in DOMAIN sent', IsGet(sent'[j], Buy)
      PROVE  /\ \A v \in Values : ~HasRead(sent[j].r, Buy, v)' /\ ~HasRead(sent[j].r, Sell, v)'
             /\ \A i \in 1 .. j - 1 :
                  sent'[i].r = sent'[j].r => ~IsGet(sent'[i], Buy) /\ ~IsGet(sent'[i], Sell)
  <2>1. CASE j = n + 2
    <3>1. \A v \in Values : ~HasRead(r, Buy, v)' /\ ~HasRead(r, Sell, v)'
      BY <1>4 DEF Lists
    <3>2. \A v \in Values : ~HasRead(sent[j].r, Buy, v)' /\ ~HasRead(sent[j].r, Sell, v)'
      BY <1>0, <2>1, <3>1 DEF HasRead
    <3>3. \A i \in 1 .. j - 1 : i \in DOMAIN sent \/ i = n + 1
      BY <1>0, <2>1
    <3> QED BY <1>0, <1>1, <1>2, <2>1, <3>2, <3>3
  <2>2. CASE j \in DOMAIN sent
    <3>1. sent'[j] = sent[j] /\ IsGet(sent[j], Buy)
      BY <1>0, <1>7, <2>2
    <3>2. PICK s \in Requests : s = sent[j].r
      BY <1>0, <2>2
    <3>3. \A v \in Values : ~HasRead(s, Buy, v)' /\ ~HasRead(s, Sell, v)'
      BY <1>4, <2>2, <3>1, <3>2 DEF ReadInv, Lists
    <3>4. \A v \in Values : ~HasRead(sent[j].r, Buy, v)' /\ ~HasRead(sent[j].r, Sell, v)'
      BY <3>1, <3>2, <3>3 DEF HasRead
    <3>5. \A i \in 1 .. j - 1 : i \in DOMAIN sent /\ sent'[i] = sent[i]
      BY <1>0, <2>2
    <3> QED BY <2>2, <3>1, <3>4, <3>5 DEF ReadInv
  <2>3. j \in DOMAIN sent \/ j = n + 1 \/ j = n + 2 \/ j = n + 3
    BY <1>0
  <2> QED BY <1>1, <1>7, <2>1, <2>2, <2>3
<1>8. ASSUME NEW j \in DOMAIN sent', j > 1, IsGet(sent'[j], Sell)
      PROVE  sent'[j - 1].r = sent'[j].r /\ IsGet(sent'[j - 1], Buy)
  <2>1. CASE j = n + 3
    <3>1. j - 1 = n + 2
      BY <1>0, <2>1
    <3> QED BY <1>0, <1>1, <2>1, <3>1
  <2>2. CASE j \in DOMAIN sent
    <3>1. sent'[j] = sent[j] /\ j - 1 \in DOMAIN sent /\ sent'[j - 1] = sent[j - 1]
      BY <1>0, <1>8, <2>2
    <3> QED BY <1>8, <2>2, <3>1 DEF ReadInv
  <2>3. j \in DOMAIN sent \/ j = n + 1 \/ j = n + 2 \/ j = n + 3
    BY <1>0
  <2> QED BY <1>1, <1>8, <2>1, <2>2, <2>3
<1>9. \A i : (IsGet(sent[i], Buy)' => IsGet(sent'[i], Buy)) /\ (IsGet(sent[i], Sell)' => IsGet(sent'[i], Sell))
             /\ (IsGet(sent'[i], Buy) => IsGet(sent[i], Buy)')
  BY DEF IsGet
<1> QED BY <1>5, <1>6, <1>7, <1>8, <1>9 DEF ReadInv, IsGet

\* Redis carries out a command: a list is read, or none is.
LEMMA ReadCarried ==
  ASSUME TypeInv, PlanInv, StockInv, ReadInv, TypeInv', CarryOut
  PROVE  ReadInv'
<1>0. PICK e \in Entries :
        /\ e.r = sent[1].r /\ e.command.op = sent[1].command.op
        /\ e.command.key = sent[1].command.key
        /\ e.command.op = "get" => e.command.value = InSlot(e.command.key)
        /\ replies' = Append(replies, e)
  BY Carried
<1>1. /\ DOMAIN replies = 1 .. Len(replies) /\ Len(replies) \in Nat
      /\ DOMAIN replies' = 1 .. Len(replies) + 1
      /\ \A i \in DOMAIN replies : replies'[i] = replies[i]
      /\ replies'[Len(replies) + 1] = e
  BY <1>0, Appends DEF TypeInv
<1>2. /\ 1 \in DOMAIN sent /\ sent # <<>> /\ requests' = requests
      /\ DOMAIN sent = 1 .. Len(sent) /\ Len(sent) \in Nat
      /\ \A i \in DOMAIN sent' : /\ i + 1 \in DOMAIN sent /\ sent'[i] = sent[i + 1]
                                 /\ i \in Nat \ {0} /\ 1 < i + 1
      /\ \A i \in DOMAIN sent : sent[i].r \in Requests
      /\ DOMAIN sent' = 1 .. Len(sent') /\ Len(sent') \in Nat /\ (sent' # <<>> => 1 \in DOMAIN sent')
  <2>1. sent' \in Seq(Entries)
    BY DEF TypeInv
  <2>2. DOMAIN sent' = 1 .. Len(sent') /\ Len(sent') \in Nat /\ (sent' # <<>> => 1 \in DOMAIN sent')
    BY <2>1
  <2>3. sent # <<>> /\ \A i \in DOMAIN sent : sent[i].r \in Requests
    BY Carried, EntryTypes
  <2> QED BY <2>2, <2>3, Shifted
<1>3. \A s \in Requests, key \in Lists, v \in Values :
        HasRead(s, key, v)' => \/ HasRead(s, key, v)
                               \/ s = sent[1].r /\ IsGet(sent[1], key) /\ v = InSlot(key)
  <2> TAKE s \in Requests, key \in Lists, v \in Values
  <2> HAVE HasRead(s, key, v)'
  <2>1. CASE <<key, v>> \in requests[s].got
    BY <2>1 DEF HasRead
  <2>2. ASSUME NEW j \in DOMAIN replies', replies'[j].r = s,
               replies'[j].command = [op |-> "get", key |-> key, value |-> v]
        PROVE  \/ HasRead(s, key, v)
               \/ s = sent[1].r /\ IsGet(sent[1], key) /\ v = InSlot(key)
    <3>1. CASE j \in DOMAIN replies
      BY <1>1, <2>2, <3>1 DEF HasRead
    <3>2. CASE j = Len(replies) + 1
      BY <1>0, <1>1, <2>2, <3>2 DEF IsGet
    <3> QED BY <1>1, <3>1, <3>2
  <2> QED BY <1>2, <2>1, <2>2 DEF HasRead
<1>4. ~(IsGet(sent[1], Buy) /\ IsGet(sent[1], Sell))
  BY StockFields DEF IsGet
<1>5. ASSUME NEW s \in Requests, NEW v \in Values, NEW w \in Values,
             HasRead(s, Buy, v)', HasRead(s, Sell, w)', v # Blank
      PROVE  w.save <= v.save
  <2>1. CASE HasRead(s, Buy, v) /\ HasRead(s, Sell, w)
    BY <1>5, <2>1 DEF ReadInv
  <2>2. CASE s = sent[1].r /\ IsGet(sent[1], Buy) /\ v = InSlot(Buy)
    <3>1. ~HasRead(s, Sell, w)
      BY <1>2, <2>2 DEF ReadInv
    <3> QED BY <1>3, <1>4, <1>5, <2>2, <3>1 DEF Lists
  <2>3. CASE HasRead(s, Buy, v) /\ s = sent[1].r /\ IsGet(sent[1], Sell) /\ w = InSlot(Sell)
    BY <1>2, <1>5, <2>3 DEF ReadInv
  <2> QED BY <1>3, <1>5, <2>1, <2>2, <2>3 DEF Lists
<1>6. ASSUME sent' # <<>>, IsGet(sent'[1], Sell)
      PROVE  \A v \in Values : HasRead(sent[1].r, Buy, v)' /\ v # Blank => InSlot(Sell)'.save <= v.save
  <2>1. 2 \in DOMAIN sent /\ sent'[1] = sent[2] /\ IsGet(sent[2], Sell)
    BY <1>2, <1>6
  <2>2. sent[1].r = sent[2].r /\ IsGet(sent[1], Buy)
    <3>1. 2 > 1 /\ 2 - 1 = 1
      OBVIOUS
    <3> QED BY <2>1, <3>1 DEF ReadInv
  <2>3. PICK s \in Requests : s = sent[1].r
    BY <1>2
  <2>4. \A v \in Values : HasRead(s, Buy, v)' => v = InSlot(Buy)
    BY <1>2, <1>3, <2>2, <2>3 DEF ReadInv, Lists
  <2>5. InSlot(Sell)' = InSlot(Sell)
    <3>1. ~IsSet(sent[1], Sell)
      BY <2>2 DEF IsGet, IsSet
    <3> QED BY <3>1, CarriedSlot
  <2>6. InSlot(Buy) # Blank => InSlot(Sell).save <= InSlot(Buy).save
    BY DEF StockInv, Behind
  <2>7. \A v \in Values : HasRead(sent[1].r, Buy, v)' => HasRead(s, Buy, v)'
    BY <2>1, <2>2, <2>3 DEF HasRead
  <2> QED BY <2>4, <2>5, <2>6, <2>7
<1>7. ASSUME NEW j \in DOMAIN sent', IsGet(sent'[j], Buy)
      PROVE  /\ \A v \in Values : ~HasRead(sent[j].r, Buy, v)' /\ ~HasRead(sent[j].r, Sell, v)'
             /\ \A i \in 1 .. j - 1 :
                  sent'[i].r = sent'[j].r => ~IsGet(sent'[i], Buy) /\ ~IsGet(sent'[i], Sell)
  <2>1. j + 1 \in DOMAIN sent /\ sent'[j] = sent[j + 1] /\ IsGet(sent[j + 1], Buy)
        /\ 1 \in 1 .. (j + 1) - 1
    BY <1>2, <1>7
  <2>2. PICK s \in Requests : s = sent[j + 1].r
    BY <1>2, <2>1
  <2>3. s = sent[1].r => ~IsGet(sent[1], Buy) /\ ~IsGet(sent[1], Sell)
    BY <2>1, <2>2 DEF ReadInv
  <2>4. \A v \in Values : ~HasRead(s, Buy, v)' /\ ~HasRead(s, Sell, v)'
    BY <1>3, <2>1, <2>2, <2>3 DEF ReadInv, Lists
  <2>5. \A v \in Values : ~HasRead(sent[j].r, Buy, v)' /\ ~HasRead(sent[j].r, Sell, v)'
    BY <2>1, <2>2, <2>4 DEF HasRead
  <2>6. \A i \in 1 .. j - 1 : i + 1 \in 1 .. (j + 1) - 1 /\ i \in DOMAIN sent' /\ sent'[i] = sent[i + 1]
    <3> TAKE i \in 1 .. j - 1
    <3>1. j \in 1 .. Len(sent') /\ Len(sent') \in Nat
      BY <1>2
    <3>2. i \in 1 .. Len(sent') /\ i + 1 \in 1 .. (j + 1) - 1
      BY <3>1
    <3> QED BY <1>2, <3>2
  <2>7. \A i \in 1 .. j - 1 :
          sent'[i].r = sent'[j].r => ~IsGet(sent'[i], Buy) /\ ~IsGet(sent'[i], Sell)
    BY <2>1, <2>6 DEF ReadInv
  <2> QED BY <2>5, <2>7
<1>8. ASSUME NEW j \in DOMAIN sent', j > 1, IsGet(sent'[j], Sell)
      PROVE  sent'[j - 1].r = sent'[j].r /\ IsGet(sent'[j - 1], Buy)
  <2>1. j + 1 \in DOMAIN sent /\ sent'[j] = sent[j + 1] /\ j + 1 > 1 /\ (j + 1) - 1 = j
    BY <1>2, <1>8
  <2>2. j - 1 \in DOMAIN sent' /\ (j - 1) + 1 = j
    BY <1>2, <1>8
  <2>3. sent'[j - 1] = sent[j]
    BY <1>2, <2>2
  <2>4. sent[(j + 1) - 1].r = sent[j + 1].r /\ IsGet(sent[(j + 1) - 1], Buy)
    BY <1>8, <2>1 DEF ReadInv
  <2> QED BY <2>1, <2>3, <2>4
<1>9. \A i : (IsGet(sent[i], Buy)' => IsGet(sent'[i], Buy)) /\ (IsGet(sent[i], Sell)' => IsGet(sent'[i], Sell))
             /\ (IsGet(sent'[i], Buy) => IsGet(sent[i], Buy)')
  BY DEF IsGet
<1> QED BY <1>5, <1>6, <1>7, <1>8, <1>9 DEF ReadInv, IsGet

LEMMA ReadStep ==
  ASSUME TypeInv, PlanInv, StockInv, ReadInv, [ReportNext]_reportVars
  PROVE  ReadInv'
<1>0. TypeInv' /\ DOMAIN sent = 1 .. Len(sent) /\ Len(sent) \in Nat
  BY TypesAndPlans, EntryTypes
\* A step that sends nothing or one command that reads neither list.
<1>1. ASSUME \A s \in Requests, key \in Lists, v \in Values : HasRead(s, key, v)' => HasRead(s, key, v),
             slots' = slots,
             \/ sent' = sent
             \/ /\ DOMAIN sent' = 1 .. Len(sent) + 1
                /\ \A i \in DOMAIN sent : i \in DOMAIN sent' /\ sent'[i] = sent[i]
                /\ ~IsGet(sent'[Len(sent) + 1], Buy) /\ ~IsGet(sent'[Len(sent) + 1], Sell)
      PROVE  ReadInv'
  <2>1. InSlot(Sell)' = InSlot(Sell)
    BY <1>1 DEF InSlot
  <2>2. \A i \in DOMAIN sent' : IsGet(sent'[i], Buy) \/ IsGet(sent'[i], Sell) =>
          i \in DOMAIN sent /\ sent'[i] = sent[i]
    BY <1>0, <1>1
  <2>3. \A i \in DOMAIN sent : i \in DOMAIN sent' /\ sent'[i] = sent[i]
    BY <1>1
  <2>4. ReadKept
    BY <1>1, <2>1, <2>2, <2>3 DEF ReadKept
  <2> QED BY <1>0, <2>4, ReadSame
<1>2. ASSUME NEW r \in Requests, SendsOther(r)
      PROVE  /\ DOMAIN sent' = 1 .. Len(sent) + 1
             /\ \A i \in DOMAIN sent : i \in DOMAIN sent' /\ sent'[i] = sent[i]
             /\ ~IsGet(sent'[Len(sent) + 1], Buy) /\ ~IsGet(sent'[Len(sent) + 1], Sell)
  BY <1>2 DEF SendsOther, IsGet
\* Nothing new is read by a request that has forgotten what it had read, or that keeps it.
<1>3. ASSUME NEW r \in Requests, NEW q, Becomes(r, q), q.got \subseteq requests[r].got, replies' = replies
      PROVE  \A s \in Requests, key \in Lists, v \in Values : HasRead(s, key, v)' => HasRead(s, key, v)
  BY <1>3, Changed DEF HasRead
<1>4. ASSUME NEW r \in Requests, NEW q \in Requested, Begins(r, q) PROVE ReadInv'
  <2>1. CASE SendsThreeGets(r)
    BY <1>0, <1>4, <2>1, ReadBegun
  <2>2. Becomes(r, q) /\ q.got \subseteq requests[r].got /\ replies' = replies /\ slots' = slots
    BY <1>4 DEF Begins
  <2>3. CASE sent' = sent \/ SendsOther(r)
    BY <1>1, <1>2, <1>3, <2>2, <2>3
  <2>4. CASE SendsBuy(r, q)
    <3>1. ~IsGet(sent'[Len(sent) + 1], Buy) /\ ~IsGet(sent'[Len(sent) + 1], Sell)
      BY <2>4, StockFields DEF SendsBuy, IsGet
    <3> QED BY <1>1, <1>3, <2>2, <2>4, <3>1 DEF SendsBuy
  <2>5. CASE SendsImage(r, q)
    <3>1. ~IsGet(sent'[Len(sent) + 1], Buy) /\ ~IsGet(sent'[Len(sent) + 1], Sell)
      BY <2>5 DEF SendsImage, IsGet, Set
    <3> QED BY <1>1, <1>3, <2>2, <2>5, <3>1 DEF SendsImage
  <2> QED BY <1>4, <2>1, <2>3, <2>4, <2>5, BeginSends
<1>5. ASSUME NEW r \in Requests, NEW q \in Requested, Continues(r, q) \/ Takes(r, q) PROVE ReadInv'
  <2>1. \A s \in Requests, key \in Lists, v \in Values : HasRead(s, key, v)' => HasRead(s, key, v)
    <3>1. CASE Continues(r, q)
      BY <1>3, <3>1 DEF Continues
    <3>2. CASE Takes(r, q)
      <4>1. /\ requests'[r] = q /\ q.got = Got(r) /\ replies[1].r = r /\ 1 \in DOMAIN replies
            /\ \A s \in Requests : s # r => requests'[s] = requests[s]
            /\ \A i \in DOMAIN replies' : i + 1 \in DOMAIN replies /\ replies'[i] = replies[i + 1]
            /\ replies[1].command \in Cmds
        BY <3>2, Changed, RestReplies, EntryTypes DEF Takes
      <4>2. ASSUME NEW key, NEW v, <<key, v>> \in q.got PROVE HasRead(r, key, v)
        <5>1. CASE <<key, v>> \in requests[r].got
          BY <5>1 DEF HasRead
        <5>2. CASE /\ replies[1].command.op = "get"
                   /\ <<key, v>> = <<replies[1].command.key, replies[1].command.value>>
          <6>1. replies[1].command = [op |-> "get", key |-> key, value |-> v]
            BY <4>1, <5>2 DEF Cmds
          <6> QED BY <4>1, <6>1 DEF HasRead
        <5> QED BY <4>1, <4>2, <5>1, <5>2 DEF Got
      <4>3. ASSUME NEW s \in Requests, NEW key, NEW v, HasRead(s, key, v)' PROVE HasRead(s, key, v)
        <5>1. CASE <<key, v>> \in requests'[s].got
          BY <4>1, <4>2, <5>1 DEF HasRead
        <5>2. CASE \E j \in DOMAIN replies' :
                     /\ replies'[j].r = s
                     /\ replies'[j].command = [op |-> "get", key |-> key, value |-> v]
          BY <4>1, <5>2 DEF HasRead
        <5> QED BY <4>3, <5>1, <5>2 DEF HasRead
      <4> QED BY <4>3
    <3> QED BY <1>5, <3>1, <3>2
  <2>2. slots' = slots
    BY <1>5 DEF Continues, Takes
  <2>3. CASE sent' = sent \/ SendsOther(r)
    BY <1>1, <1>2, <2>1, <2>2, <2>3
  <2>4. ASSUME NEW n, SendsSell(r, n) PROVE ReadInv'
    <3>1. ~IsGet(sent'[Len(sent) + 1], Buy) /\ ~IsGet(sent'[Len(sent) + 1], Sell)
      BY <2>4, StockFields DEF SendsSell, IsGet
    <3> QED BY <1>1, <2>1, <2>2, <2>4, <3>1 DEF SendsSell
  <2>5. requests[r].todo # <<>>
    BY <1>5, RestReplies DEF Continues, Takes, PlanInv, Awaited, Awaits
  <2>6. sent' = sent \/ SendsNext(r, Tail(requests[r].todo))
    BY <1>5 DEF Continues, Takes
  <2> QED BY <2>3, <2>4, <2>5, <2>6, NextSends
<1>6. ASSUME NEW r \in Requests, Ends(r) PROVE ReadInv'
  <2>1. /\ Becomes(r, NoRequest) /\ NoRequest.got \subseteq requests[r].got
        /\ UNCHANGED <<replies, slots, sent>>
    BY <1>6, NoneTypes DEF Ends
  <2> QED BY <1>1, <1>3, <2>1
<1>7. CASE CarryOut
  BY <1>0, <1>7, ReadCarried
<1>8. CASE ConnectionLost
  <2>1. \A s \in Requests, key \in Lists, v \in Values : HasRead(s, key, v)' => HasRead(s, key, v)
    BY <1>8, Lost, NoneTypes DEF HasRead
  <2>2. ReadKept
    BY <1>8, <2>1, Lost DEF ReadKept, InSlot
  <2> QED BY <1>0, <2>2, ReadSame
<1>9. CASE (\E key \in DOMAIN slots : Expire(key)) \/ Second \/ UNCHANGED reportVars
  <2>1. UNCHANGED <<sent, replies, requests>> /\ InSlot(Sell)' \in {InSlot(Sell), Blank}
    <3>1. CASE \E key \in DOMAIN slots : Expire(key)
      BY <3>1 DEF Expire, InSlot
    <3>2. CASE Second \/ UNCHANGED reportVars
      BY <3>2 DEF Second, reportVars, InSlot
    <3> QED BY <1>9, <3>1, <3>2
  <2>2. ReadKept
    BY <2>1 DEF ReadKept, HasRead
  <2> QED BY <1>0, <2>2, ReadSame
<1>10. ASSUME NEW r \in Requests, Drops(r) PROVE ReadInv'
  <2>1. /\ requests'[r] = NoRequest /\ NoRequest.got = {}
        /\ \A s \in Requests : s # r => requests'[s] = requests[s]
        /\ \A i \in DOMAIN replies' : i + 1 \in DOMAIN replies /\ replies'[i] = replies[i + 1]
        /\ UNCHANGED <<slots, sent>>
    BY <1>10, Changed, RestReplies DEF Drops, NoRequest
  <2>2. \A s \in Requests, key \in Lists, v \in Values : HasRead(s, key, v)' => HasRead(s, key, v)
    BY <2>1 DEF HasRead
  <2> QED BY <1>1, <2>1, <2>2
<1> QED BY StepKinds, <1>4, <1>5, <1>6, <1>7, <1>8, <1>9, <1>10

-------------------------------------------------------------------------------
(* Theorems about recommendations *)

LEMMA InitiallyLists == ASSUME ReportInit PROVE StockInv /\ PairInv /\ ReadInv
<1>1. /\ sent = <<>> /\ replies = <<>> /\ DOMAIN sent = {} /\ DOMAIN replies = {} /\ saves = 0
      /\ InSlot(Buy) = Blank /\ InSlot(Sell) = Blank /\ Blank.save = 0
      /\ \A r \in Requests : requests[r].got = {}
  BY NoneTypes DEF ReportInit, InSlot, Blank
<1>2. StockInv
  BY <1>1 DEF StockInv, Behind
<1>3. PairInv
  BY <1>1 DEF PairInv
<1>4. ReadInv
  BY <1>1 DEF ReadInv, HasRead
<1> QED BY <1>2, <1>3, <1>4

(* Once no save of recommendations is under way, the stocks to buy and those to sell are
   those of one save, unless one was cut off between its two commands (saveStockRecommend). *)
THEOREM PairsStayWhole == ReportSpec => []PairWhole
<1> DEFINE I == TypeInv /\ PlanInv /\ StockInv /\ PairInv
<1>1. ReportInit => I
  BY Initially, InitiallyLists
<1>2. I /\ [ReportNext]_reportVars => I'
  BY TypesAndPlans, StockStep, PairStep
<1>3. I => PairWhole
  BY DEF PairInv, PairWhole, SellDue
<1> QED BY <1>1, <1>2, <1>3, PTL DEF ReportSpec

(* Nobody is shown stocks to sell that are newer than the stocks to buy beside them, however
   saves and reads overlap and whichever fail (identifyMarketRedis, saveStockRecommend). *)
THEOREM SellNeverAhead == ReportSpec => []SellNotAhead
<1> DEFINE I == TypeInv /\ PlanInv /\ StockInv /\ ReadInv
<1>1. ReportInit => I
  BY Initially, InitiallyLists
<1>2. I /\ [ReportNext]_reportVars => I'
  BY TypesAndPlans, StockStep, ReadStep
<1>3. I => SellNotAhead
  <2> SUFFICES ASSUME I, NEW r \in Requests, NEW b \in requests[r].got, NEW s \in requests[r].got,
                      b[1] = Buy, s[1] = Sell, b[2] # Blank
               PROVE  s[2].save <= b[2].save
    BY DEF SellNotAhead
  <2>1. requests[r].got \in SUBSET (Keys \X Values)
    BY DEF TypeInv
  <2>2. b = <<Buy, b[2]>> /\ s = <<Sell, s[2]>> /\ b[2] \in Values /\ s[2] \in Values
    BY <2>1
  <2>3. HasRead(r, Buy, b[2]) /\ HasRead(r, Sell, s[2])
    BY <2>2 DEF HasRead
  <2> QED BY <2>2, <2>3 DEF ReadInv
<1> QED BY <1>1, <1>2, <1>3, PTL DEF ReportSpec

===============================================================================
