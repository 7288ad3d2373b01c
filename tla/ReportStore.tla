------------------------------ MODULE ReportStore ------------------------------
(***************************************************************************)
(* What the editors of the daily reports save and upload, and what the     *)
(* reports show of it (ReportService): redis entries, and images in the    *)
(* object storage of which redis keeps the name.                           *)
(*                                                                         *)
(* The process has one connection to redis: commands are carried out in    *)
(* the order in which they were sent, and the replies come back in that    *)
(* order.  The object storage and the database answer whenever they do.    *)
(* A definition marked "Mistake" is a wrong version of the next one, used  *)
(* only to see that a property would catch it.                             *)
(***************************************************************************)
EXTENDS Integers, Sequences, FiniteSets

CONSTANTS Requests,   \* requests that can be served together
          NewsIds,    \* ids that news are saved with
          MaxSaves,   \* bound: requests that save or upload
          MaxSeconds  \* bound: the clock

ASSUME ReportAssumption ==
  NewsIds \subseteq Nat /\ MaxSaves \in Nat /\ MaxSeconds \in Nat

VARIABLES slots,     \* redis: under a key what save put there, and for which news id
          objects,   \* the images in the storage: their names are the seconds of a clock
          sent,      \* commands on their way to redis
          replies,   \* replies on their way back
          requests,  \* what each request still does and what it has read
          saves,     \* saves and uploads begun
          seconds,   \* the clock
          unfinished, \* images whose upload has failed, or that had no file to upload
          cut        \* whether a save of recommendations has ended with an error

reportVars ==
  <<slots, objects, sent, replies, requests, saves, seconds, unfinished, cut>>

Blank == [save |-> 0, id |-> 0]
NoRequest == [work |-> "none", todo |-> <<>>, got |-> {}]

-------------------------------------------------------------------------------
(* A handler is the list of what it awaits: redis commands that are sent together, an
   upload, or a query. *)
Commands(commands) == <<[to |-> "redis", commands |-> commands]>>
Put(name) == <<[to |-> "minio", name |-> name]>>
Query == <<[to |-> "mssql"]>>

Set(key, save, id) == [op |-> "set", key |-> key, value |-> [save |-> save, id |-> id]]
Get(key) == [op |-> "get", key |-> key, value |-> Blank]

\* Mistake: no break after the first case.
FallsThrough(id) == CASE id \in {0, 1} -> "morning-news-domestic"
                      [] id = 2       -> "morning-news-enterprise"
                      [] OTHER        -> ""
(* Any other id has the empty key. *)
NewsKey(id) == CASE id = 0 -> "morning-news-international"
                 [] id = 1 -> "morning-news-domestic"
                 [] id = 2 -> "morning-news-enterprise"
                 [] OTHER  -> ""

saveNews(n, id) == Commands(<<Set(NewsKey(id), n, id)>>)
getNews(id) == Commands(<<Get(NewsKey(id))>>)
saveIdentifyMarket(n)  == Commands(<<Set("save-identify-market", n, 0)>>)
saveMarketMovements(n) == Commands(<<Set("save-market-movements", n, 0)>>)
saveMarketComment(n)   == Commands(<<Set("save-market-comment", n, 0)>>)

Buy == "save-stock-recommend"
Sell == "save-stock-sell-recommend"
\* Mistake: the stocks to sell are looked up in between.
RecommendSlowly(n) == Commands(<<Set(Buy, n, 0)>>) \o Query \o Commands(<<Set(Sell, n, 0)>>)
\* Mistake: the other way round.
SellFirst(n) == Commands(<<Set(Sell, n, 0)>>) \o Commands(<<Set(Buy, n, 0)>>)
saveStockRecommend(n) == Commands(<<Set(Buy, n, 0)>>) \o Commands(<<Set(Sell, n, 0)>>)

identifyMarketRedis == Commands(<<Get("save-identify-market"), Get(Buy), Get(Sell)>>)

(* The queries of the first run while redis answers; the handler waits for both. *)
afternoonReport1 == Commands(<<Get("save-market-movements")>>) \o Query
afternoonReport2 == Query \o Commands(<<Get("save-market-comment")>>)
                          \o Commands(<<Get("image-report")>>)

\* Mistake: the name is used once the image is there.
ImageFirst(now, files) ==
  (IF files = 0 THEN <<>> ELSE Put(now)) \o Commands(<<Set("image-report", now, 0)>>)
\* Mistake: the time is taken anew for the name of the object.
TimeTakenTwice(now, files) ==
  Commands(<<Set("image-report", now, 0)>>) \o (IF files = 0 THEN <<>> ELSE Put(now + 1))
(* The name is in redis before the files, each under that same name, are uploaded. *)
uploadImageReport(now, files) ==
  Commands(<<Set("image-report", now, 0)>>)
    \o (IF files = 0 THEN <<>> ELSE Put(now))
    \o (IF files = 2 THEN Put(now) ELSE <<>>)

-------------------------------------------------------------------------------
ReportInit ==
  /\ slots = <<>> /\ objects = {} /\ unfinished = {}
  /\ sent = <<>> /\ replies = <<>>
  /\ requests = [r \in Requests |-> NoRequest]
  /\ saves = 0 /\ seconds = 1 /\ cut = FALSE

(* A request goes on to what it does next: commands are sent at once. *)
SendsNext(r, todo) ==
  sent' = IF todo # <<>> /\ Head(todo).to = "redis"
          THEN sent \o [i \in DOMAIN Head(todo).commands |->
                          [r |-> r, command |-> Head(todo).commands[i]]]
          ELSE sent
Becomes(r, request) == requests' = [requests EXCEPT ![r] = request]

BeginWork(r, work, todo) ==
  /\ requests[r].work = "none"
  /\ Becomes(r, [work |-> work, todo |-> todo, got |-> {}])
  /\ SendsNext(r, todo)
  /\ UNCHANGED <<slots, objects, replies, seconds, cut>>

BeginSave(r) ==
  /\ saves < MaxSaves
  /\ saves' = saves + 1
  /\ LET n == saves + 1
     IN \/ \E id \in NewsIds : BeginWork(r, "saveNews", saveNews(n, id))
        \/ BeginWork(r, "saveIdentifyMarket", saveIdentifyMarket(n))
        \/ BeginWork(r, "saveMarketMovements", saveMarketMovements(n))
        \/ BeginWork(r, "saveMarketComment", saveMarketComment(n))
        \/ BeginWork(r, "saveStockRecommend", saveStockRecommend(n))
  /\ UNCHANGED unfinished

BeginUpload(r) ==
  /\ saves < MaxSaves
  /\ saves' = saves + 1
  /\ \E files \in 0..2 :
       /\ BeginWork(r, "uploadImageReport", uploadImageReport(seconds, files))
       /\ unfinished' = IF files = 0 THEN unfinished \cup {seconds} ELSE unfinished

BeginRead(r) ==
  /\ \/ \E id \in NewsIds : BeginWork(r, "getNews", getNews(id))
     \/ BeginWork(r, "identifyMarketRedis", identifyMarketRedis)
     \/ BeginWork(r, "afternoonReport1", afternoonReport1)
     \/ BeginWork(r, "afternoonReport2", afternoonReport2)
  /\ UNCHANGED <<saves, unfinished>>

(* Redis carries out the next command. *)
InSlot(key) == IF key \in DOMAIN slots THEN slots[key] ELSE Blank
CarryOut ==
  /\ sent # <<>>
  /\ LET c == Head(sent).command
     IN /\ slots' = IF c.op = "get" THEN slots
                    ELSE [k \in DOMAIN slots \cup {c.key} |->
                            IF k = c.key THEN c.value ELSE slots[k]]
        /\ replies' = Append(replies, [Head(sent) EXCEPT !.command.value =
                                         IF c.op = "get" THEN InSlot(c.key) ELSE Blank])
  /\ sent' = Tail(sent)
  /\ UNCHANGED <<objects, requests, saves, seconds, unfinished, cut>>

(* The first reply on its way is the last one its request still waits for. *)
LastReply ==
  LET r == Head(replies).r
  IN /\ \A i \in 2..Len(replies) : replies[i].r # r
     /\ \A i \in DOMAIN sent : sent[i].r # r

(* A reply arrives; with the last one of those sent together the handler goes on. *)
Receive ==
  /\ replies # <<>>
  /\ LET r    == Head(replies).r
         c    == Head(replies).command
         got  == IF c.op = "get" THEN requests[r].got \cup {<<c.key, c.value>>}
                 ELSE requests[r].got
         todo == IF LastReply THEN Tail(requests[r].todo) ELSE requests[r].todo
     IN /\ Becomes(r, [requests[r] EXCEPT !.todo = todo, !.got = got])
        /\ IF todo = requests[r].todo THEN UNCHANGED sent ELSE SendsNext(r, todo)
  /\ replies' = Tail(replies)
  /\ UNCHANGED <<slots, objects, saves, seconds, unfinished, cut>>

(* redis.set refuses a list that is not there before it sends anything: of a save without
   stocks to sell only the stocks to buy are written.  (Any other save without its value
   writes nothing at all, as if it had not been asked for.) *)
SellMissing ==
  /\ replies # <<>> /\ LastReply
  /\ LET r == Head(replies).r
     IN /\ requests[r].work = "saveStockRecommend" /\ Len(requests[r].todo) = 2
        /\ Becomes(r, NoRequest)
  /\ replies' = Tail(replies)
  /\ cut' = TRUE
  /\ UNCHANGED <<slots, objects, sent, saves, seconds, unfinished>>

Awaits(r, to) == requests[r].todo # <<>> /\ Head(requests[r].todo).to = to

Uploaded(r) ==
  /\ Awaits(r, "minio")
  /\ objects' = objects \cup {Head(requests[r].todo).name}
  /\ Becomes(r, [requests[r] EXCEPT !.todo = Tail(@)])
  /\ SendsNext(r, Tail(requests[r].todo))
  /\ UNCHANGED <<slots, replies, saves, seconds, unfinished, cut>>

UploadFails(r) ==
  /\ Awaits(r, "minio")
  /\ unfinished' = unfinished \cup {Head(requests[r].todo).name}
  /\ Becomes(r, NoRequest)
  /\ UNCHANGED <<slots, objects, sent, replies, saves, seconds, cut>>

QueryEnds(r) ==
  /\ Awaits(r, "mssql")
  /\ \/ /\ Becomes(r, [requests[r] EXCEPT !.todo = Tail(@)])
        /\ SendsNext(r, Tail(requests[r].todo))
     \/ Becomes(r, NoRequest) /\ UNCHANGED sent
  /\ UNCHANGED <<slots, objects, replies, saves, seconds, unfinished, cut>>

(* The connection is lost: what was sent is refused, and the handlers that wait for it
   end with an error. *)
ConnectionLost ==
  /\ sent # <<>> \/ replies # <<>>
  /\ sent' = <<>> /\ replies' = <<>>
  /\ requests' = [r \in Requests |-> IF Awaits(r, "redis") THEN NoRequest ELSE requests[r]]
  /\ UNCHANGED <<slots, objects, saves, seconds>>
  /\ cut' = (cut \/ \E r \in Requests : requests[r].work = "saveStockRecommend")
  /\ unfinished' = unfinished \cup
       {Head(Tail(requests[r].todo)).name :
          r \in {r \in Requests : /\ Awaits(r, "redis")
                                  /\ requests[r].work = "uploadImageReport"
                                  /\ Len(requests[r].todo) > 1}}

Answer(r) ==
  /\ requests[r].work # "none" /\ requests[r].todo = <<>>
  /\ Becomes(r, NoRequest)
  /\ UNCHANGED <<slots, objects, sent, replies, saves, seconds, unfinished, cut>>

(* Redis drops an entry when its time is over: news and recommendations after a year,
   the name of the image after a day. *)
Expire(key) ==
  /\ key \in DOMAIN slots
  /\ slots' = [k \in DOMAIN slots \ {key} |-> slots[k]]
  /\ UNCHANGED <<objects, sent, replies, requests, saves, seconds, unfinished, cut>>

Second ==
  /\ seconds < MaxSeconds
  /\ seconds' = seconds + 1
  /\ UNCHANGED <<slots, objects, sent, replies, requests, saves, unfinished, cut>>

ReportNext ==
  \/ \E r \in Requests :
       \/ BeginSave(r) \/ BeginUpload(r) \/ BeginRead(r)
       \/ Uploaded(r) \/ UploadFails(r) \/ QueryEnds(r) \/ Answer(r)
  \/ CarryOut \/ Receive \/ SellMissing \/ ConnectionLost
  \/ \E key \in DOMAIN slots : Expire(key)
  \/ Second

ReportSpec == ReportInit /\ [][ReportNext]_reportVars

-------------------------------------------------------------------------------
(* News saved with one of the three ids are found under that id and no other. *)
NewsApart ==
  \A r \in Requests : requests[r].work = "getNews" =>
    \A g \in requests[r].got : \A id \in 0..2 :
      g[1] = NewsKey(id) /\ g[2] # Blank => g[2].id = id

(* The stocks to buy and those to sell are saved by two commands.  However saves and
   reads overlap, and whichever of them fail, nobody is shown stocks to sell that are
   newer than the stocks to buy shown with them. *)
SellNotAhead ==
  \A r \in Requests : \A b, s \in requests[r].got :
    b[1] = Buy /\ s[1] = Sell /\ b[2] # Blank => s[2].save <= b[2].save

(* Once no save of them is under way, the two lists are those of one save, whatever
   saves have overlapped, unless one was cut off between the two. *)
PairWhole ==
  LET buy  == InSlot(Buy)
      sell == InSlot(Sell)
  IN ~cut /\ Blank \notin {buy, sell} /\ buy # sell =>
       \E r \in Requests : requests[r].work = "saveStockRecommend"

(* The image of the report is in the storage, or is being uploaded, or its upload has
   failed or had no file. *)
ImageThere ==
  InSlot("image-report") # Blank =>
    LET name == InSlot("image-report").save
    IN \/ name \in objects \cup unfinished
       \/ \E r \in Requests : \E i \in DOMAIN requests[r].todo :
            requests[r].todo[i].to = "minio" /\ requests[r].todo[i].name = name

(* Uploads may overtake one another; the report never goes back to an older image. *)
ImageGoesForward ==
  [][(InSlot("image-report").save <= InSlot("image-report")'.save)
       \/ InSlot("image-report")' = Blank]_reportVars
===============================================================================
