# A TLA+ model of CompanyExchanges

CompanyExchanges is a NestJS service for the Vietnamese stock market: it
registers people and logs them in, answers some hundred queries about prices,
companies, sectors and the economy out of SQL Server through a redis cache,
pushes prices that arrive by Kafka to browsers through socket.io, and keeps
drafts of analysts' reports. This directory models the parts in which the
*order* of things matters, and the tables of its ratings, checks them with TLC
on small instances, and proves the main properties of each of them with TLAPS
for every instance.

All paths below are relative to the repository.

## 1. Inventory

| Component | State it keeps | Operations | Talks to |
|---|---|---|---|
| Device sessions (`src/auth/auth.service.ts`, `entities/device.entity.ts`) | table `AUTH.device`: one row per logged-in device with its user, `secret_key`, `refresh_token`, `expired_at` | login, logout, refresh-token, list and remove sessions | SQL, JWT, cookies |
| DeviceGuard (`src/guards/device.guard.ts`) | none of its own, reads `AUTH.device` | admits or refuses a request by its access token | sessions |
| Accounts and verification (`src/auth`, `src/user`) | tables `AUTH.user`, `AUTH.verify_otp`; redis `User:<id>` | register, getVerifyOTP, verifyOTP, sendOTP, getInfo | SMS, queue, redis, SQL |
| Delayed jobs (`src/queue`) | Bull queue in redis | addJob, handleJob (deletes an unused code after five minutes) | SQL |
| SMS (`src/sms`) | none | send | HTTP gateway |
| Session dates and answer caches (`src/stock`, `src/market`) | redis: `session-date:<table>:<column>` and one entry per endpoint and parameters; the temporary table `##TOP_TABLE` | some fifty GET endpoints | SQL, redis |
| The same for `src/shares`, `src/macro`, `src/retail`, `src/news`, `src/report`, `src/market/finance-health` | redis, one entry per endpoint and parameters | some hundred GET endpoints | SQL, redis |
| Ratings (`src/shares`) | none: stars as functions of figures | tables, ranks, comparisons, totals | |
| Kafka fan-out (`src/kafka`, `src/socket`) | a global socket server | one or two handlers per topic | Kafka, SQL, redis, socket.io |
| Reports (`src/report`) | drafts in redis under several keys, images in MinIO | save, read, upload | redis, MinIO, SQL |
| Investment (`src/investment`) | table of saved filters | filter, save, update, delete, emulator | SQL |
| Guards and middlewares (`src/guards`, `src/middlewares`) | none | admin check, real IP | JWT |
| Configuration (`src/config-module`, `src/enums`) | times to live, time-outs, job options | | |

The service is one Node process per instance. Nothing is preempted, but every
`await` lets any other handler run, and most handlers have three to six of
them. No database transaction spans two awaits. SQL, redis, the SMS gateway and
Bull can each fail at every call, and the process may stop between any two.
That is what is hard about the program:

* check, then act after an await (find a device, then insert it; find a phone,
  then insert the user; find a code, then store one);
* write back what was read earlier (`userRepo.save(user)` at the end of a
  login, the cached user in verifyOTP, any cache fill);
* two steps that belong together, of which the second fails (a stored code and
  the job that deletes it; a cookie and the row it must match);
* caches on top of caches, whose ages add up, and whose keys several services
  share without storing the same thing;
* un-awaited handlers of Kafka messages, and queries that are started and not
  awaited yet, or never will be because their handler has failed in the meantime:
  when they fail, node ends the process;
* bands of figures that are written by hand in a dozen places.

What makes each component correct:

* *Sessions*: a secret that was replaced or logged out never admits a request
  again; a logout is not undone; refreshing does not prolong a session past a
  day after the last login; one row per device; tokens speak for the row's user.
* *Accounts*: only a code sent to the phone verifies it; verification stays; a
  code lives for its five minutes and does not stay for ever; one code per
  user, one user per phone; redis catches up with the table.
* *Caches*: an answer is to the question that was asked, is never older than its
  bound and never goes back by more than a fill; no answer is computed from dates
  that were not looked up; a failure ends the request it belongs to and no other,
  except where a rating has queries under way that it does not await.
* *Kafka fan-out*: the last message of a topic is the last one shown, where the
  handlers allow it; a restart skips none that was owed to the clients; lists that
  belong together are of one message.
* *Reports, filters*: stocks to buy and to sell belong together; the image a report
  refers to is there; only its owner writes a filter, and a deleted one is gone.
* *Ratings*: every figure is rated, and a better one not lower.

`PROJECT.json` lists the components, the hazards with the lines where they
bite, and for every definition the lines it models.

## 2. Modules

```
CredentialLedger  <--implements--  DeviceSession  --  DeviceSessionProofs
                                        |
                                  MCDeviceSession
AccountProofs  --  Account  --  MCAccount
BoundedStale      <--implements--  SessionCache   --  SessionCacheProofs
                                        |
                                  MCSessionCache

Programs --  MarketEndpoints  StockEndpoints -- CashFlowEndpoints, ReportEndpoints
             SharesEndpoints  HealthEndpoints  MacroEndpoints  RetailEndpoints
                        \______________|______________/
                                 EndpointCache  --  MCEndpointCache
                                        |
                                 CatalogueProofs
                                        |
                               EndpointCacheProofs

KafkaFanoutProofs                        ReportStoreProofs
        |                                    |
   KafkaFanout         SavedFilters     ReportStore      Ratings
        \___________________|_______________|________________/
                               MCServices  --  (Account, SessionCache)
                                    |
                             ServicesProofs
```

Common to all: one action per stretch of code between two awaits. `req[r]` is
what request `r` carries over the await it is suspended at, `pc` names that
await, and the action that moves on from it does everything up to the next one.
`Fail(r)` ends a request at any await: the call failed or timed out, or the
process died; whatever is already committed stays. Early returns and exceptions
that change nothing are the absence of a step, or a step to `Idle` if an await
came first. Definitions marked *Mistake* are wrong versions of the definition
that follows them (a missing check, a swapped order, a missing reset). Nothing
uses them; they document which slip each property would reveal.

### DeviceSession

`login` and `handleDeviceSession`, `logout`, `refreshToken`, and
`DeviceGuard.canActivate` in front of the last two and of every other guarded
route (`UseHandler`).

| In the model | In the code |
|---|---|
| `devices` | rows of `AUTH.device` |
| `minted`, secrets `1, 2, ...` | the uuids drawn for `secret_key`; the id of a new row is numbered by the same draw |
| `access`, `refresh` | tokens that have been sent to somebody; clients may present any of them, at any time |
| `LoginStart`, `LoginFind`, `LoginSave`, `Reply` | the lookup of the device, `deviceRepo.save`, `userRepo.save` and the answer |
| `GuardStart`, `GuardAdmit`, `GuardRefuse` | `getSecretKey` and the verification of the token |
| `LogoutFind`, `LogoutDelete` | `findOne`, then `delete({device_id})` |
| `RefreshFind`, `RefreshRefuse`, `RefreshUpdate` | `findOne`, then `update({device_id}, ...)` |
| `CookieOf` | `res.cookie` is called before the update is awaited, so an error answer carries the new refresh token |

A device is `generateDeviceId` of IP address and user agent, so two people
behind one address share it; `LoginStart` lets any user use any device. A
refresh token has no nonce: two minted for one user and device in the same
clock unit are equal, as in the code. `findOne` has no order: where there are
several rows the model takes any.

`CredentialLedger` is the abstract specification: a credential is unborn, live
for one uninterrupted period, then dead. `LedgerSpec` maps a secret to *live*
while it is in the table and to *dead* once it has left it.

### Account

`register`, `getVerifyOTP`, `verifyOTP`, `sendOTP` with the SMS gateway, the
Bull job, `UserService.getInfo` and the part of a login that loads and saves
the user's row. Passwords, names and tokens are left out; a user is a phone and
the flag `is_verified`. `codes` is the table `verify_otp`, `jobs` the queue,
`cache` the redis entries. Time is what is left of each delay or ttl, so the
state space is finite without a bound on a clock. `sent` and `proven` are
history. `Faults` says which failures a run allows: `"sms"` (the gateway
refuses), `"queue"` (`addJob` throws), `"job"` (the job's delete fails: one
attempt and `removeOnFail`, so it is gone) and `"db"` (any awaited call fails,
or the process dies).

### SessionCache

The cached endpoints whose trading dates are those of
`[marketTrade].[dbo].[tickerTradeVND]`: `marketMap`, `upDownTicker`,
`marketBreadth`, `topHotIndustry` and, without a cache for its answer,
`totalTransactionValue`. An endpoint looks into redis (`AnswerHit`,
`AnswerMiss`), asks its service's `getSessionDate` (`DatesHit`, `DatesMiss`,
`DatesRead`, `DatesMore`, `DatesSet`), queries (`Query`, in which `QueryOnly`
answers at once for `totalTransactionValue`) and stores
the answer (`AnswerSet`). `Shape`, `Needs` and `TTL` are the tables in which the
endpoints differ. Data is represented by the time it was read. An awaited call
returns within `MaxFill` (`due`, and the guard of `Tick`).

`BoundedStale` is the abstract specification: an endpoint serves only answers
made of rows and of dates that are at most so old.

### Programs, the catalogues and EndpointCache

Some hundred and fifty handlers have the same make: look into redis, ask SQL a few
questions in some order, store the answer. `Programs` is a vocabulary for them: a
handler is the sequence of its awaits. Each catalogue translates the handlers of
its services into it, with what is control in them: whether and when redis is
looked at, under which key and for how long something is stored, which queries
follow one another, which run together, which are started early, and where the
handler refuses or returns early. A question is a tag and the parameters that its
SQL depends on; the rows are not modelled.

| In the model | In the code |
|---|---|
| `Cached(key, ttl, body)` | `const redisData = await redis.get(key); if (redisData) return redisData; ...; await redis.set(key, data, {ttl})` |
| `Unread` | the same with the `if` commented out |
| `Borrowed` | a get whose miss is computed but not stored |
| `Ask`, `Together` | `await query`, `await Promise.all([query, ...])` |
| `Start`, `Join` | `const promise = query(...)`, other awaits, and then the `Promise.all` |
| `Create`, `Insert`, `ReadAndDrop` | the batch on `##TOP_TABLE` |
| `Refuse`, `Stop` | `throw new ExceptionResponse`, `return []` |
| `Default` | `redis.set` without `{ttl}`: the store's default of half an hour |

| Module | Services |
|---|---|
| `StockEndpoints` | `StockService`, `ChartService` |
| `CashFlowEndpoints` | `CashFlowService` |
| `MarketEndpoints` | `MarketService` |
| `HealthEndpoints` | `FinanceHealthService` |
| `SharesEndpoints` | `SharesService` |
| `MacroEndpoints` | `MacroService` |
| `RetailEndpoints` | `RetailService`, `NewsService`, the reading part of `InvestmentService` |
| `ReportEndpoints` | the queries of `ReportService` |

`EndpointCache` runs them: `asks[c]` is the request that client `c` makes again
and again, `client[c]` where its handler is and what it has read, `redis` the
entries. `Hit`, `Miss`, `Keep`, `ShareOut` are redis, `Answered` the database,
`CreateTop`, `InsertTop`, `DropTop`, `SessionCloses` the temporary table, `Fail`
an error of an awaited call and `Crash` the rejection of a query that nobody
awaits, which ends the process and every request in it. Such queries outlive their
request: when a rating that has started some fails at an await of its own, they run on
(`Leave` sets `adrift`) until the last has answered (`LateAnswers`) or one has failed.

### KafkaFanout

`KafkaConsumer`, `KafkaService` and `SocketGateway`. A handler is the sequence of
what it emits and where it waits, and how it reads the payload; `Handlers` is the
table of topics. A message says for which of its handlers its payload is malformed
(not an array, an item that is null): `bad`. `Consume` runs the handlers of the next
message to their first await; `GoOn` takes one of the waiting handlers to its next
one, in any order.

A handler may fail on its payload, on an await, or because `main.ts` starts the
consumer before the HTTP server: `process` is first *starting*, and what is emitted
then finds `global._server` unset (`ConsumeEarly`). What comes of it depends on the
handler alone. If it is not `async`, the consumer catches the error, and the handlers
it would have called next for that message are not called (`Called`); one that emits
item by item may have emitted some (`Partly`). If it is `async`, its promise is
rejected and nobody waits for it: it stays in `running` until the rejection ends the
process (`Reject`), perhaps after further messages. `handleTickerContribute` is such a
handler although it awaits nothing. After that the consumer group resumes after the last
committed offset (`Restart`), so that a message which ends the process does so again
until its offset is committed. What clients see of an event is the message it was last
emitted for. `missed` is history: what was consumed without a gateway.

### ReportStore

The entries that editors save, the reports that read them, and the image whose
name is in redis. The redis client has one connection: commands are carried out in
the order in which they were sent (`CarryOut`) and their replies come back in that
order (`Receive`); `ConnectionLost` refuses all of them. `redis.set` also refuses a
value that is not there, and the DTO of the recommendations validates nothing: a save
without stocks to sell writes those to buy and then fails (`SellMissing`). A handler's
`todo` is what it still awaits. `unfinished` and `cut` are history: which images had no
upload, and whether a save of recommendations broke off between its two commands.

### SavedFilters

`saveFilter`, `getFilterUser`, `updateFilter` and `deleteFilter` of
`InvestmentService`: the row is looked up by id and owner, and written an await
later by id alone. A filter's value is the user who wrote it.

### Ratings

The functions of `SharesService` (and `checkStarCommon`) that turn figures into
stars, table by table. Figures are integers in a unit named with each table that is
at most half of the least bound, so that there are figures below, at and above every
bound. A behaviour is a figure, what it has grown to, and two figures it is
compared with.

## 3. Runs

| Run | Instance | Shows |
|---|---|---|
| `devicesession_overlap` | 2 users sharing 1 device, 2 requests at once, 3 secrets, clock to 2 | `RevokedStaysRevoked`, `LogoutSticks` and `LedgerSpec` under every interleaving and failure |
| `devicesession_serial` | 2 users, 1 device, one request at a time, 4 secrets, ttls 2/3/4, clock to 5 | `OneRowPerDevice`, `TokenSpeaksForOwner`, `AdmittedWithinADay` |
| `devicesession_duplicate_rows` | as overlap | **violated**: two first logins leave two rows |
| `account_overlap` | 1 user, 2 codes, 2 requests at once, all faults, ttls 2 | `VerifiedByCode`, `CodeLivesFiveMinutes` |
| `account_live` | 1 user, 1 code, 2 requests at once, no faults, fairness | `EveryCodeHasAJob`, `CodeGoesAway`, `StaleViewEnds` |
| `account_phone_twice` | 2 users, 1 phone, 2 requests | **violated**: both registrations find the phone free |
| `account_unverified` | 2 users, 2 requests | **violated**: a login writes `is_verified` back to 0 |
| `account_orphan_code` | faults `{"queue"}` | **violated**: a code that nothing will delete |
| `sessioncache_one` | `marketMap`, 2 requests, ttls 1/2/5, clock to 7 | `AnswersFresh`, `BoundSpec`, `HardlyGoesBack` |
| `sessioncache_mixed` | `upDownTicker` and `topHotIndustry`, 2 requests | **violated**: an answer computed from a date that is not there |
| `endpoints` | all handlers, 2 clients on redis keys in common, ttls 1/2 | `AnswersTheRequest`, `AgeBounded`, `BoardIsIntraday`, `FailsAlone` |
| `services`, part *kafka* | 12 topics, 2 messages, each malformed for any of its handlers, 1 crash | `SyncShowsLatest`, `CommittedWasShown`, `ForeignTogether` |
| `services`, part *filters* | 2 owners, 2 calls at once, 2 filters | `OnlyOwnerWrites`, `DeletedStaysDeleted` |
| `services`, part *report* | 2 requests at once, 2 saves or uploads, 2 seconds, all failures | `NewsApart`, `SellNotAhead`, `PairWhole`, `ImageThere`, `ImageGoesForward` |
| `services`, part *ratings* | figures around all bounds; -5..10 with all others | `StarsGrow`, `RankStarsGrow`, `ComparedStarsGrow`, `TotalsGrow` |
| `services`, part *auth* | `Account` with 2 users, 2 phones, one request at a time, all faults | `OneCodePerUser`, `PhoneUnique`, `VerifiedStays` |
| `services`, part *dates* | `SessionCache` with `upDownTicker` and `totalTransactionValue`, 2 requests | `AnswersWhole` |

`services` is one run of six specifications that have no variable in common: each
behaviour chooses its part at the start, and the others stand still. Nothing would
be gained by interleaving them, as they share no state in the code either.

Why the bounds are enough for the question each run asks:

* *Two requests* interleave in every way two handlers can; three would add only
  a third party to races that already exist between two. The theorems of
  section 5 are about any number. Requests that nothing tells apart are
  model values under `SYMMETRY`: in `Account`, `DeviceSession`, `SessionCache` and, in
  `services`, `ReportStore`
  (no run with symmetry checks a liveness property).
* *Secrets*: three allow a login, another person's login and a refresh in
  flight; four, in the serial run, a login and a chain of three refreshes, which
  with an access ttl of 2 reaches past the session ttl of 3: this is the case
  `AdmittedWithinADay` is about.
* *One device* is enough: rows of different devices share nothing but the ids,
  and ids are fresh.
* *Clock to 7* in `sessioncache_one`: dates and an answer can run out and be
  filled again, and an answer can be made of dates 6 units old, the oldest that
  ttls of 1 and 2 and five fills of 1 allow when an entry is last read one unit
  before it runs out. (The bound, 8, is what a finer clock comes near to.)
* *Two rows of `verify_otp`*: ids are reused once nothing mentions them, so two
  stand for any number of codes one after the other.
* *Workloads of `endpoints`*: handlers meet only in a redis key or in the temporary
  table, so a workload is two requests that have one in common, or one that has none.
  The parameters matter to nothing but keys and questions, so of all pairs of the
  same handlers taking the same steps, equal or different in their queries and in
  the kinds of keys they share, one is checked (`Likeness`). Nearly all handlers
  share dates of trading; of the pairs that have nothing else in common, those of a
  handler of `MarketService` and one of the boards are taken (`DatePairs`), as the
  two services store other dates under one key. One client is slow, taking up to a
  unit of time, and the other quick: this is enough for an entry to be filled late
  and for one to run out in between. `canslimPrefilter`, which calls three other
  ratings, is checked by itself and against the quick client's place only.
* *Times to live 1 and 2*: the default of half an hour and everything below it are one
  unit, a day and a week two. An entry that outlives the one inside it, and one that
  runs out first, both occur; a week need not differ from a day for that, as the
  bounds on ages are computed from the entries' own times. Section 5 has them for all
  times.
* *Two Kafka messages* are the fewest that can overtake one another; every pair of
  the twelve topics occurs, and a crash between any two steps.
* *Two saves and two seconds*: two editors at once, in one second or in two, and a
  reader in place of one of them.
* *Figures*: 19 to 21, 99 to 101 and so on are the bounds of the tables and their
  neighbours; all totals of stars arise from figures up to 10. Section 5 has the
  theorems for all integers.

`sessioncache_mixed` and the three violations of `Account` are real orders of
events in the code, not artefacts: each counterexample can be followed line by
line. They are listed with the text they contradict under "findings" in
`PROJECT.json`. `OneRowPerDevice`, `PhoneUnique` and `VerifiedStays` hold of
requests one at a time and fail of overlapping ones; the pairs of runs show both
halves (of the last two in `services`). Two more are true of single requests only.
`TokenSpeaksForOwner` fails when a login of another user takes the row of a shared
device over between the lookup and the update of a refresh: the update goes by
`device_id` alone and puts secrets into that row which were drawn for tokens of the
earlier user. Those secrets are new, so `RevokedStaysRevoked` and `LedgerSpec`, which are
about old ones, do not see it. (No text says what should happen, and no finding is
claimed.) `OneCodePerUser` may fail when two requests for a code overlap, but whether
they do harm depends on whether the table has the unique key that the
entity's `OneToOne` suggests. `synchronize` is `false` and the repository has no
schema, so no finding is claimed. Likewise nothing but the job ends a code's
life: `verifyOTP` does not look at its age, so a code is accepted for as long as
the job is late.

What the runs of the second half show beyond "it holds":

* `AnswersTheRequest` holds of `mapExportImport`, whose key lacks the parameter
  `type`, only because the line that would store the answer is commented out; and of
  the temporary table because two batches at once make the second one fail.
* `FailsAlone` needs its exception: `individualInvestorBenefitsRating` and
  `businessPositionRating` start queries long before they wait for them, and
  `canslimPrefilter` calls both. A query that fails in between ends the process, and so
  does one that fails after the rating itself has failed, when no rating is under way
  any more: the exception is that one of the three is asked for at all. What the property
  shows is that the other hundred and fifty handlers need none.
* `SyncShowsLatest` is about the topics whose handlers await nothing. Messages of
  `PhanNganh` and `Foreign` may be shown out of order; the six lists of foreign trade
  are at least always of one message (`ForeignTogether`), which holds because
  nothing is awaited between the six emits.
* `CommittedWasShown`: when the process ends, the messages that will not be sent again
  have been shown, because a handler that awaits nothing has emitted before the consumer
  can commit. The exceptions are messages that came before the gateway, which are lost,
  and what a malformed payload keeps a handler from emitting: in `ChiSoTrongNuoc` also
  the handler after it, which is then not called.
* `SellNotAhead` and `PairWhole` hold because the two commands of a save are sent in
  one order and redis answers one connection in order; a reader may see the stocks
  to buy of a newer save than the stocks to sell, but never the reverse. A pair stays
  apart only after a save that broke off between the two, as it does when the
  connection is lost and when the request has no stocks to sell.
* The image a report refers to may be missing while it is uploaded, and for a day
  if its upload fails: `ImageThere` says that nothing else makes it missing.

Left as they are and documented as hazards, since no text of the repository says
otherwise: `checkStarValuationRating` has no answer for exactly 20; thirteen trend
points, more than the last band has, are one star (`StarsGrow` leaves both values out); the
rating of the market compares
with a figure of the industry in one place (`ComparedStarsGrow` shows that this costs a
star only where the market's last four quarters are above its previous quarter and
the industry's are not); of the comparisons of securities firms
`x > y > z` compares a truth value; `checkMostStar` returns the last star instead of
the most frequent; the events of `handleTopForeign` are empty unless something else
has put the lists of the exchanges' stocks into redis.

## 4. Fairness

Only `account_live` needs any.

* `WF(Proceed(r))`: an awaited call returns, and Node runs the continuation. The
  SQL calls have a `requestTimeout`, and the run allows no failures.
* `WF(HandleJob)` per row: Bull runs a job once its delay is over. The code's
  processor has no condition under which it leaves a job alone.
* `WF(Tick)`: time passes.

There is no fairness for the arrival of requests. `CodeGoesAway` says that a
code is deleted eventually, so that `getVerifyOTP` is not refused for ever; with
the fault `"queue"` it fails, which is the finding of `account_orphan_code`.
`StaleViewEnds` says that once an account stays verified redis, too, comes to
show it as verified or not at all: entries run out, and an old one can be
written only by a `getInfo` that read the row before.

## 5. Proofs

The eight proof modules hold for all values of the constants, from the assumptions
named in the modules they extend (`TTLAssumption`, `SessionCacheAssumption`,
`AccountAssumption`: the times are natural numbers and the endpoints and faults are
known ones; `LifetimesAssumption`: the seven times to live of the enum are in their
order and not zero; `EndpointCacheAssumption`: no client is slower than the slowest;
`FiltersAssumption`: the number of filters is natural and no user is nobody;
`KafkaAssumption`, `ReportAssumption`: the bounds of the runs are natural
numbers; `ValuesAssumption`: figures are integers). Three hypotheses are stated in
theorems instead, as their properties are false without them: `Serial`, one request
at a time; `Faults \subseteq {"sms"}`, nothing but the SMS gateway fails; `OneShape`,
the endpoints in use keep their dates in one shape. Each has a run that satisfies it
and a finding or a run that shows what happens without it.

**DeviceSession**

* `TypeCorrect`: `Spec => []TypeOK`.
* `RevokedForGood`: `Spec => []RevokedStaysRevoked`. The property is not
  inductive: nothing in it stops two requests from being about to commit the
  same secret, or one that is already in the table. `SecretsInv` adds that every
  secret in a row, in a request about to commit or in `revoked` has been drawn,
  and that no two requests about to commit carry the same one. Every action is
  first shown to be of one of three kinds (`StepKinds`): *quiet*, leaving
  secrets alone or dropping them; *draws*, giving one request the next number;
  *publishes*, committing the secret of one request. Three short arguments then
  replace one per action.
* `ImplementsLedger`: `Spec => LedgerSpec`, from the same invariant: each kind
  of step is a step of the ledger or a stutter.
* `LogoutIsNotUndone`: `Spec => LogoutSticks`.
* `NoAdmissionAfterADay`: `Spec => AdmittedWithinADay`, from `LoginTrace`: the
  `expired_at` of every row, stored or about to be, is at most `SessionTTL`
  after `loginAt` of its device.
* `OneRowSerially`, `OwnerSerially`: from `Serial`, `Spec => []OneRowPerDevice` and
  `Spec => []TokenSpeaksForOwner`. `SerialInv` says of the request under way that the
  row it has found, or found missing, is still so, and whose secret it is about to
  write; that a device's row belongs to the user of the tokens made with its secret is
  invariant only together with it.

**Account**

* `TypeCorrect`, and `OnlyVerifiedByCode`: `Spec => []VerifiedByCode`, for any
  overlaps and failures. `IInv` follows the evidence: a user whose flag is set, in the
  table, in redis or in what any request has read and may write back, has been sent a
  code and has presented one, and so has one whose code a request is using up.
* `CodesLiveFiveMinutes`: `Spec => CodeLivesFiveMinutes`, since no job's delay is over
  before its code's five minutes are (`JobsNotEarly`, a part of `IInv`).
* `EveryCodeIsQueued`: if only the gateway fails, `Spec => []EveryCodeHasAJob`.
* `OneCodeSerially`, `PhoneUniqueSerially`, `VerifiedStaysSerially`: from `Serial`.
  `SerialInv` adds to `IInv` that what the one request under way has checked is still
  true when it acts.

**SessionCache**

* `TypeCorrect`, and `AnswersAreFresh`: `Spec => []AnswersFresh`. The inductive
  invariant `IInv` bounds the age of what a request carries by the number of
  awaits since it was read, and the age of each entry by what is left of its
  ttl.
* `ImplementsBoundedStale`: `Spec => BoundSpec`.
* `AnswersHardlyGoBack`: `Spec => HardlyGoesBack`: whatever has been served was
  read at least as long ago as any later fill allows.
* `WholeWithOneShape`: from `OneShape`, `Spec => []AnswersWhole`. The services share the
  keys of the dates, and store what their own endpoints need (`OwnShape`); where they
  agree on it (`WholeInv`), nobody finds less than it asks for.

**KafkaFanout**

* `TypeCorrect`: `KafkaSpec => []TypeInv`, which says of each handler that waits or was
  rejected which message it is of and what it has left.
* `NothingIsSkipped`: `KafkaSpec => []CommittedWasShown`. What was read since the last
  commit is what a restart reads again, so the invariant is about all messages read, not
  only those committed.
* `ShowsLatest`: `KafkaSpec => []SyncShowsLatest`, for any logs and crashes. `LatestInv` says
  what is shown of each event since the gateway came up; `EventsApart`, that no two
  topics share an event.
* `ForeignOfOneMessage`: `KafkaSpec => []ForeignTogether`: the six lists are emitted in one
  step of one handler.

**ReportStore**

* `PlanInv` is what the rest stands on: what a request still has to do is the rest of
  one of the handlers' lists, and every command that was sent and every reply that was
  not received belongs to a request that awaits it. `StepKinds` reduces the actions to
  what they do to the slots, to the queue and to what requests have been told.
* `NewsKeptApart`: `ReportSpec => []NewsApart`. A value under the key of an id was saved with
  that id (`NewsInv`), in the slots, among the replies and in what a request has got.
* `ImageNeverMissing`, `ImageOnlyForward`: `ReportSpec => []ImageThere` and
  `ReportSpec => ImageGoesForward`. `ImageInv` orders the names among the commands sent: no
  later one is older, and each has its upload done, to come, or failed.
* `SellNeverAhead`: `ReportSpec => []SellNotAhead`. `StockInv` says that whatever list to sell
  is stored or on its way, the lists to buy that are stored or on their way are not
  older; `ReadInv`, that the same holds of what a reader has been told, since it asks
  for the two in this order on one connection.
* `PairsStayWhole`: `ReportSpec => []PairWhole`, from `PairInv`: if the lists differ, the
  request that will complete the pair is there, or a save has broken off.

**SavedFilters** (in `ServicesProofs`)

* `AlwaysOnlyOwnerWrites`, `AlwaysDeletedStaysDeleted`. That an id keeps its owner
  is what makes a write by id alone safe: `IInv` adds that the row a call in flight
  has found is still its user's, as long as it is there, and that there are no rows
  for ids that were not given out yet.

**Ratings** (in `ServicesProofs`)

* `AlwaysStarsGrow`, `AlwaysRankStarsGrow`, `AlwaysComparedStarsGrow`,
  `AlwaysTotalsGrow`: for all integers, with the exceptions the properties name: the
  valuation 20 and trend points beyond the table, equal figures, and the market's
  comparison where the industry's figure it takes by mistake is on the wrong side. The
  figures never change, so the invariant
  is their type; the arithmetic is split by table. `CommonGrows`
  says of the bands of `checkStarCommon` that they are in order without a gap, for
  two, three and four parts; a total, and a total of totals, then grows with each of
  its parts (`TotalGrows`, `ThreePartsGrow`).

**The services together** (in `ServicesProofs`)

* `EachPartAlone`: a behaviour of the run `services` is one of each of the six
  specifications, standing still in all but the part it has chosen. What is proved
  of a component holds in the run, and what the run shows is about the components.
* `ServicesOneCode`, `ServicesPhoneUnique`, `ServicesVerifiedStays`,
  `ServicesAnswersWhole`: the properties of the parts *auth* and *dates*, from the
  theorems about `Account` and `SessionCache`, whose hypotheses `Serial` and
  `OneShape` are shown of these instances, not assumed.

**EndpointCache**

For any number of clients, each with any request of the catalogue, any values of the
parameters and any times to live in that order. The run goes through pairs of
requests; here the argument is in two halves, `CatalogueProofs` and
`EndpointCacheProofs`.

* *Each handler by itself.* A program `Fits` if, for each of its steps, one can foretell
  the frames: which questions each one holds, and how old they were when the
  request came. `Meaning(key)` is what everybody finds under a key and `Old(key)` how
  old that may get. Where a handler looks up a key, a hit must lead to the frames that a
  miss leads to in the end; where it keeps an answer, its innermost frame must be what
  the key means, and young enough. The lemmas go through the vocabulary of `Programs`
  (what fits in sequence, cached, borrowed, shared out, in a batch) and then through
  every handler of every catalogue, up to `CatalogueFits`. Nobody keeps anything under
  `mapImportMain` (`Never`), and nobody uses what is under seven other keys (`Unlooked`),
  among them `tyLeCoTucTienMat`, which is one key for all stocks.
* *All of them together.* `IInv` says that every request has the frames foretold for its
  step (`RequestsFit`), that every entry holds what its key means, with age and
  time left within the bound of the key (`RedisFits`), and that the temporary table
  belongs to one batch at most and has the rows which that batch has put there
  (`TableFits`). It is inductive (`AlwaysFits`) with one lemma per action, none of which
  looks at a handler again. None of the three parts could do alone: a hit makes
  a request's frames depend on redis, a kept answer makes redis depend on frames.
* `TypeCorrect`, `AnswersItsRequest`, `BoardsAreIntraday`: `Spec => []TypeOK`,
  `Spec => []AnswersTheRequest` and `Spec => []BoardIsIntraday`. A board is at most three
  levels deep, a level being redis' default and the time of the slowest request.
* `RequestsFailAlone`: `Spec => FailsAlone`. `IInv` has it that only a handler with a `Start`
  in it is ever `early`, and the catalogue, that there are three of them; `DriftInv`, that
  queries run on without their handler only where one of the three is asked for. It says
  nothing in favour of these three.
* `AgesAreBounded`: `Spec => []AgeBounded`, which has the same two halves. `Bounds(p)` are the
  topics that a program reads, each with the time that the caches around that step
  may take; that time is the number of elements of a set (`UnitsAround`), so that a step
  put behind others, or inside one more cache, moves or adds to the set by a bijection
  and the prover needs no induction (`ShiftedUnits`, `PrefixUnits`, `CacheMeasured`).
  `Kept(key)` is the handler whose answer is under a key, `KeyBounds(key)` its bounds. A
  program is `InTime` if there are bounds for each frame at each step (`Times`): what is
  asked is within those of the innermost frame; what is found is within those of its
  key; what is kept is within those of its key when its lifetime and the slowest request
  are added; at the end all are within `Bounds`. Each handler is in time. `AgeInv` then says
  that frames, entries and the rows of the temporary table are within these bounds,
  with the time that the request or the entry has left. It is inductive together with
  `IInv`, which says who may be at the table and that what has run out is not found.
  So nobody gets an older answer by a key that another handler fills from caches of its
  own than by its own handler's caches.

Out of the prover's reach and left to TLC: liveness under fairness (`CodeGoesAway`,
`StaleViewEnds`), `ENABLED`, and what a recursively defined operator computes for every
input.

## 6. Abstractions

* A TypeORM call is one step. `update` and `delete` by condition are one SQL
  statement. `save` is a SELECT and an INSERT or UPDATE: between them another
  handler may run, which the model does not show (section 7).
* Tokens are records; a signature is the secret it was made with. Signing and
  verifying are what `jwtService` does with them: compare secret and expiry.
* The clock is coarse: two steps in one unit are simultaneous for the clock and
  still ordered for the model.
* `Faults` excludes redis losing data; entries disappear only when they run out.
* redis calls have no time-out of their own in the configuration; `SessionCache`
  takes them to return within `MaxFill` like the SQL calls
  (`requestTimeout: 30000`). The freshness bounds rest on this.
* `marketMap` stands for its orders by value; the order by foreign trade reads
  another table. `marketBreadth` stands for a period of a month. An endpoint's
  entries for different parameters share no key, so one set of parameters is
  modelled. (`EndpointCache` has the parameters.)
* What is awaited with `Promise.all` and consists of more than queries (cached
  lookups, other ratings) is done one after the other. Queries that run together
  are one step: they see the database when they are sent, and the handler goes on
  when the last is in. If `canslimPrefilter` fails, those of the ratings it has called
  that are still at work go on as requests of their own would, which is not a step of
  the model except that their queries may still fail (`adrift`).
* A malformed payload is an error of the handler that reads it or is not one; what a
  handler emits for a payload that it can read is the message it is of.
* `redis.set` of a value that is not there is an error in `SellMissing` only. The other
  saves consist of one command, and then write nothing.
* Stocks are in upper case, as the DTOs make them; a sector is a function of the
  stock, two sectors with a treatment of their own among them.
* A restart of the process and a failure of all requests are the same to redis.
* Null and undefined figures are left out of `Ratings`, as is how a figure is
  computed.
* The clock that names images does not go back.
* Kafka keeps the order of a topic; with several partitions the consumer would see
  it per partition only.
* `removeLoginSession` is left out of `DeviceSession`: its route has no
  parameter for the device id its DTO requires, so it always refuses.

## 7. What could come next

In this order, the most important first:

1. `BrowserSession`: the cookies a browser keeps, composed with
   `DeviceSession`. The login and the refresh must name the cookie alike, and a
   refresh whose update fails has already replaced it.
2. `save` in two steps, in `DeviceSession` and `Account`, and what it adds.
3. `generateDeviceId`, and the period arithmetic of `src/utils` as operators
   against a reference.

## 8. Not modelled

Formatting of answers, wording, DTO validation, Swagger, logging and Docker
files: no state and no order. The SQL of the endpoints: what a query computes is
the database's business; the models need only when it is read, with which
parameters and for which dates. MinIO, socket.io, Bull, TypeORM, kafkajs and the JWT
library appear as what the code does with their results.

`AdminGuard` and `AuthGuard` look at one token and keep nothing. The technical
indicators and the emulator are arithmetic on rows. `checkYearConsecutive` and
`checkMostStar` count rows; `checkStarCommonV2` is `checkStarCommon` with a band
for nothing. The child processes of `getIndustry` are modelled as the queries
they make: that they are never ended is listed as a hazard. `SignVerifyMiddleware`
and `DeviceIdMiddleware` are on no route. `src/minio`'s controller reads objects
back for the browser.
