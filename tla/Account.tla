------------------------------- MODULE Account -------------------------------
(***************************************************************************)
(* Accounts and the verification of their phone numbers: register,         *)
(* getVerifyOTP, verifyOTP and sendOTP of src/auth/auth.service.ts, the    *)
(* delayed job that deletes an unused code (src/queue), the user cached in *)
(* redis (src/user/user.service.ts) and the write a login makes to the     *)
(* user's row.  One action per stretch between two awaits.  Time is kept   *)
(* as what is left of each delay, so nothing here needs a clock.           *)
(* A definition marked "Mistake" is a wrong version of the next one, used  *)
(* only to see that a property would catch it.                             *)
(***************************************************************************)
EXTENDS Naturals, FiniteSets

CONSTANTS Users, Phones, Codes,   \* user_id, phone and six-digit code values
          RowIds,                 \* ids of rows of table verify_otp
          Requests,               \* requests that can be in flight together
          OtpTTL,                 \* TimeToLive.FiveMinutesMilliSeconds
          CacheTTL,               \* default ttl of redis, TimeToLive.HaftHour
          Faults                  \* which failures may happen in this run

FaultKinds == {"sms",     \* the gateway answers with StatusCode # 1
               "queue",   \* addJob throws
               "job",     \* the delete of a delayed job fails
               "db"}      \* a query or redis fails, or the process dies

ASSUME AccountAssumption ==
  /\ OtpTTL \in Nat \ {0} /\ CacheTTL \in Nat \ {0}
  /\ Faults \subseteq FaultKinds

VARIABLES account,   \* rows of table AUTH.user, by user_id
          codes,     \* rows of table AUTH.verify_otp
          jobs,      \* delayed jobs 'delete-expired-otp'
          cache,     \* redis entries User:<user_id>
          req,       \* requests in flight
          sent,      \* history: codes sent by SMS to the phone of a user
          proven     \* history: users for whom a stored code was presented

vars == <<account, codes, jobs, cache, req, sent, proven>>

NoAccount == [phone |-> "none"]
Accounts == [phone : Phones, verified : BOOLEAN]
Miss == [ttl |-> 0]
Entries == [ttl : 1 .. CacheTTL, verified : BOOLEAN]
\* left: what remains of the five minutes the message promised.
CodeRows == [id : RowIds, user : Users, code : Codes, left : 0 .. OtpTTL]
Jobs == [row : RowIds, delay : 0 .. OtpTTL]

Senders == {"register", "resend"}     \* the callers of sendOTP

Idle == [pc |-> "idle"]
ReqStates ==
       {Idle}
  \cup [pc : {"reg_save"}, phone : Phones]
  \cup [pc : {"sms"}, op : Senders, user : Users]
  \cup [pc : {"otp_save"}, op : Senders, user : Users, code : Codes]
  \cup [pc : {"add_job"}, op : Senders, user : Users, row : RowIds]
  \cup [pc : {"reg_cache", "resend_user", "verify_update", "verify_get",
              "info_db"}, user : Users]
  \cup [pc : {"verify_delete"}, user : Users, row : RowIds]
  \cup [pc : {"verify_set", "info_set", "login_save"}, user : Users, seen : BOOLEAN]

TypeOK ==
  /\ account \in [Users -> Accounts \cup {NoAccount}]
  /\ codes \subseteq CodeRows
  /\ jobs \subseteq Jobs
  /\ cache \in [Users -> Entries \cup {Miss}]
  /\ req \in [Requests -> ReqStates]
  /\ sent \subseteq Users \X Codes
  /\ proven \subseteq Users

Known(u) == account[u] # NoAccount
CodesOf(u) == {c \in codes : c.user = u}

Init ==
  /\ account = [u \in Users |-> NoAccount]
  /\ codes = {} /\ jobs = {} /\ sent = {} /\ proven = {}
  /\ cache = [u \in Users |-> Miss]
  /\ req = [r \in Requests |-> Idle]

Goto(r, state) == req' = [req EXCEPT ![r] = state]

CacheUser(u, verified) ==
  cache' = [cache EXCEPT ![u] = [ttl |-> CacheTTL, verified |-> verified]]

-----------------------------------------------------------------------------
(* POST auth/register *)

\* Mistake: the phone is not looked up.
RegisterUnchecked(r, p) ==
  /\ req[r] = Idle
  /\ Goto(r, [pc |-> "reg_save", phone |-> p])
  /\ UNCHANGED <<account, codes, jobs, cache, sent, proven>>

\* No user has this phone, else 'Số điện thoại đã được đăng ký'; the
\* password is hashed and the insert awaited.
RegisterFind(r, p) ==
  /\ req[r] = Idle
  /\ \A u \in Users : account[u].phone # p
  /\ Goto(r, [pc |-> "reg_save", phone |-> p])
  /\ UNCHANGED <<account, codes, jobs, cache, sent, proven>>

RegisterSave(r) ==
  /\ req[r].pc = "reg_save"
  /\ \E u \in Users :
       /\ ~Known(u)
       /\ account' = [account EXCEPT ![u] = [phone |-> req[r].phone, verified |-> FALSE]]
       /\ Goto(r, [pc |-> "sms", op |-> "register", user |-> u])
  /\ UNCHANGED <<codes, jobs, cache, sent, proven>>

\* sendOTP has returned: the user as inserted goes to redis.
RegisterCache(r) ==
  /\ req[r].pc = "reg_cache"
  /\ CacheUser(req[r].user, FALSE)
  /\ Goto(r, Idle)
  /\ UNCHANGED <<account, codes, jobs, sent, proven>>

-----------------------------------------------------------------------------
(* sendOTP *)

\* The gateway accepted the message.
SmsSent(r) ==
  /\ req[r].pc = "sms"
  /\ \E c \in Codes :
       /\ Goto(r, [pc |-> "otp_save", op |-> req[r].op, user |-> req[r].user, code |-> c])
       /\ sent' = sent \cup {<<req[r].user, c>>}
  /\ UNCHANGED <<account, codes, jobs, cache, proven>>

\* Mistake: StatusCode is not checked.
SmsIgnored(r) ==
  /\ "sms" \in Faults
  /\ req[r].pc = "sms"
  /\ \E c \in Codes :
       Goto(r, [pc |-> "otp_save", op |-> req[r].op, user |-> req[r].user, code |-> c])
  /\ UNCHANGED <<account, codes, jobs, cache, sent, proven>>

\* 'Lỗi khi gửi OTP': a user just registered stays in the table.
SmsRejected(r) ==
  /\ "sms" \in Faults
  /\ req[r].pc = "sms"
  /\ Goto(r, Idle)
  /\ UNCHANGED <<account, codes, jobs, cache, sent, proven>>

\* An id is a fresh uuid: no row, job or request mentions it.
FreshRow(id) ==
  /\ \A c \in codes : c.id # id
  /\ \A j \in jobs : j.row # id
  /\ \A r \in Requests : req[r].pc \in {"add_job", "verify_delete"} => req[r].row # id

\* Mistake: no job is queued.
OtpSaveOnly(r) ==
  /\ req[r].pc = "otp_save"
  /\ \E id \in RowIds :
       /\ FreshRow(id)
       /\ codes' = codes \cup {[id |-> id, user |-> req[r].user,
                                code |-> req[r].code, left |-> OtpTTL]}
  /\ Goto(r, Idle)
  /\ UNCHANGED <<account, jobs, cache, sent, proven>>

OtpSave(r) ==
  /\ req[r].pc = "otp_save"
  /\ \E id \in RowIds :
       /\ FreshRow(id)
       /\ codes' = codes \cup {[id |-> id, user |-> req[r].user,
                                code |-> req[r].code, left |-> OtpTTL]}
       /\ Goto(r, [pc |-> "add_job", op |-> req[r].op, user |-> req[r].user, row |-> id])
  /\ UNCHANGED <<account, jobs, cache, sent, proven>>

\* Mistake: the delay is given in seconds.
JobForSeconds(id) == [row |-> id, delay |-> 0]
\* Mistake: the delay counts from a later moment.
JobForLater(id) == [row |-> id, delay |-> OtpTTL + 1]
\* The job that will delete row id.
JobFor(id) == [row |-> id, delay |-> OtpTTL]

\* The caller goes on: register to its cache write, getVerifyOTP to its answer.
AddJob(r) ==
  /\ req[r].pc = "add_job"
  /\ jobs' = jobs \cup {JobFor(req[r].row)}
  /\ Goto(r, IF req[r].op = "register"
             THEN [pc |-> "reg_cache", user |-> req[r].user] ELSE Idle)
  /\ UNCHANGED <<account, codes, cache, sent, proven>>

\* addJob threw: the code is stored and nothing will delete it.
AddJobFails(r) ==
  /\ "queue" \in Faults
  /\ req[r].pc = "add_job"
  /\ Goto(r, Idle)
  /\ UNCHANGED <<account, codes, jobs, cache, sent, proven>>

-----------------------------------------------------------------------------
(* POST auth/get-verify-otp/:userId *)

\* Mistake: no look for a stored code.
ResendUnchecked(r, u) ==
  /\ req[r] = Idle
  /\ Goto(r, [pc |-> "resend_user", user |-> u])
  /\ UNCHANGED <<account, codes, jobs, cache, sent, proven>>

\* A stored code means 'please wait, and try again later'.
ResendFind(r, u) ==
  /\ req[r] = Idle
  /\ CodesOf(u) = {}
  /\ Goto(r, [pc |-> "resend_user", user |-> u])
  /\ UNCHANGED <<account, codes, jobs, cache, sent, proven>>

ResendUser(r) ==
  /\ req[r].pc = "resend_user"
  /\ Goto(r, IF Known(req[r].user)
             THEN [pc |-> "sms", op |-> "resend", user |-> req[r].user] ELSE Idle)
  /\ UNCHANGED <<account, codes, jobs, cache, sent, proven>>

-----------------------------------------------------------------------------
(* POST auth/verify-otp/:userId *)

\* A row with this user and code was found, else 'OTP is not valid'.
VerifyFind(r, u, c) ==
  /\ req[r] = Idle
  /\ \E row \in CodesOf(u) :
       /\ row.code = c
       /\ Goto(r, [pc |-> "verify_delete", user |-> u, row |-> row.id])
  /\ proven' = proven \cup {u}
  /\ UNCHANGED <<account, codes, jobs, cache, sent>>

VerifyDelete(r) ==
  /\ req[r].pc = "verify_delete"
  /\ codes' = {c \in codes : c.id # req[r].row}
  /\ Goto(r, [pc |-> "verify_update", user |-> req[r].user])
  /\ UNCHANGED <<account, jobs, cache, sent, proven>>

VerifyUpdate(r) ==
  /\ req[r].pc = "verify_update"
  /\ account' = [account EXCEPT ![req[r].user].verified = TRUE]
  /\ Goto(r, [pc |-> "verify_get", user |-> req[r].user])
  /\ UNCHANGED <<codes, jobs, cache, sent, proven>>

\* The cached user, if there is one, is to be written back with the flag set.
VerifyCacheGet(r) ==
  /\ req[r].pc = "verify_get"
  /\ LET entry == cache[req[r].user]
     IN  Goto(r, IF entry = Miss THEN Idle
                 ELSE [pc |-> "verify_set", user |-> req[r].user, seen |-> entry.verified])
  /\ UNCHANGED <<account, codes, jobs, cache, sent, proven>>

VerifyCacheSet(r) ==
  /\ req[r].pc = "verify_set"
  /\ CacheUser(req[r].user, TRUE)
  /\ Goto(r, Idle)
  /\ UNCHANGED <<account, codes, jobs, sent, proven>>

-----------------------------------------------------------------------------
(* GET user/info *)

\* A hit is answered from redis and changes nothing; on a miss the row is read.
InfoGet(r, u) ==
  /\ req[r] = Idle
  /\ cache[u] = Miss
  /\ Goto(r, [pc |-> "info_db", user |-> u])
  /\ UNCHANGED <<account, codes, jobs, cache, sent, proven>>

InfoDb(r) ==
  /\ req[r].pc = "info_db"
  /\ LET u == req[r].user
     IN  Goto(r, IF Known(u)
                 THEN [pc |-> "info_set", user |-> u, seen |-> account[u].verified]
                 ELSE Idle)                                 \* 'user not found'
  /\ UNCHANGED <<account, codes, jobs, cache, sent, proven>>

InfoSet(r) ==
  /\ req[r].pc = "info_set"
  /\ CacheUser(req[r].user, req[r].seen)
  /\ Goto(r, Idle)
  /\ UNCHANGED <<account, codes, jobs, sent, proven>>

-----------------------------------------------------------------------------
(* POST auth/login, as far as it touches the user's row *)

\* Mistake: is_verified is not among the columns loaded.
LoginLoadPart(r, u) ==
  /\ req[r] = Idle
  /\ Known(u)
  /\ Goto(r, [pc |-> "login_save", user |-> u, seen |-> FALSE])
  /\ UNCHANGED <<account, codes, jobs, cache, sent, proven>>

\* findOne({phone}) loads the whole row.
LoginLoad(r, u) ==
  /\ req[r] = Idle
  /\ Known(u)
  /\ Goto(r, [pc |-> "login_save", user |-> u, seen |-> account[u].verified])
  /\ UNCHANGED <<account, codes, jobs, cache, sent, proven>>

\* userRepo.save(user) at the end of handleDeviceSession: every column of the
\* loaded entity that differs from the row is written, is_verified included.
LoginSaveUser(r) ==
  /\ req[r].pc = "login_save"
  /\ account' = [account EXCEPT ![req[r].user].verified = req[r].seen]
  /\ Goto(r, Idle)
  /\ UNCHANGED <<codes, jobs, cache, sent, proven>>

-----------------------------------------------------------------------------
(* The queue, failures and time *)

\* handleJob: delete the row the job was queued for.
HandleJob(j) ==
  /\ j.delay = 0
  /\ codes' = {c \in codes : c.id # j.row}
  /\ jobs' = jobs \ {j}
  /\ UNCHANGED <<account, cache, req, sent, proven>>

\* removeOnFail with a single attempt: the job is gone, the row is not.
HandleJobFails(j) ==
  /\ "job" \in Faults
  /\ j.delay = 0
  /\ jobs' = jobs \ {j}
  /\ UNCHANGED <<account, codes, cache, req, sent, proven>>

Fail(r) ==
  /\ "db" \in Faults
  /\ req[r] # Idle
  /\ Goto(r, Idle)
  /\ UNCHANGED <<account, codes, jobs, cache, sent, proven>>

Less(n) == IF n = 0 THEN 0 ELSE n - 1

\* Mistake: a ttl of -1, kept for ever.
AgedNever(entry) == entry
\* A redis entry disappears when its ttl has run out.
Aged(entry) == IF entry.ttl <= 1 THEN Miss ELSE [entry EXCEPT !.ttl = @ - 1]

Tick ==
  /\ codes' = {[c EXCEPT !.left = Less(c.left)] : c \in codes}
  /\ jobs' = {[j EXCEPT !.delay = Less(j.delay)] : j \in jobs}
  /\ cache' = [u \in Users |-> Aged(cache[u])]
  /\ UNCHANGED <<account, req, sent, proven>>

-----------------------------------------------------------------------------
\* What a request in flight does next when nothing fails.
Proceed(r) ==
  \/ RegisterSave(r) \/ SmsSent(r) \/ OtpSave(r) \/ AddJob(r) \/ RegisterCache(r)
  \/ ResendUser(r)
  \/ VerifyDelete(r) \/ VerifyUpdate(r) \/ VerifyCacheGet(r) \/ VerifyCacheSet(r)
  \/ InfoDb(r) \/ InfoSet(r)
  \/ LoginSaveUser(r)

Arrive(r) ==
  \/ \E p \in Phones : RegisterFind(r, p)
  \/ \E u \in Users : ResendFind(r, u) \/ InfoGet(r, u) \/ LoginLoad(r, u)
  \/ \E u \in Users, c \in Codes : VerifyFind(r, u, c)

Next ==
  \/ \E r \in Requests : Arrive(r) \/ Proceed(r) \/ SmsRejected(r) \/ AddJobFails(r) \/ Fail(r)
  \/ \E j \in jobs : HandleJob(j) \/ HandleJobFails(j)
  \/ Tick

Spec == Init /\ [][Next]_vars

\* Awaited calls return, time passes and Bull runs a job once it is due.
Fairness ==
  /\ \A r \in Requests : WF_vars(Proceed(r))
  /\ \A id \in RowIds : WF_vars(\E j \in jobs : j.row = id /\ HandleJob(j))
  /\ WF_vars(Tick)

FairSpec == Spec /\ Fairness

-----------------------------------------------------------------------------
\* An account counts as verified, in the table or in redis, only if somebody
\* presented a code that had been sent to that account's phone.
VerifiedByCode ==
  \A u \in Users :
    (Known(u) /\ account[u].verified) \/ (cache[u] # Miss /\ cache[u].verified) =>
      u \in proven /\ \E c \in Codes : <<u, c>> \in sent

\* A stored code disappears only because it was used, or after the five minutes
\* the message promises: no job ever deletes a younger code.
CodeLivesFiveMinutes ==
  [][\A c \in codes :
       c.left > 0 /\ (\A d \in codes' : d.id # c.id) =>
         \E r \in Requests : req[r].pc = "verify_delete" /\ req[r].row = c.id]_vars

\* Every stored code has a job that will delete it, though not before its five
\* minutes are over, unless sendOTP is about to queue that job.
EveryCodeHasAJob ==
  \A c \in codes :
    \/ \E j \in jobs : j.row = c.id /\ j.delay >= c.left
    \/ \E r \in Requests : req[r].pc = "add_job" /\ req[r].row = c.id

\* A user never has two codes outstanding (getVerifyOTP asks to wait).  It
\* holds of requests one at a time: the look and the insert are awaits apart.
OneCodePerUser == \A c, d \in codes : c.user = d.user => c = d

\* No two accounts have the same phone (register refuses a known one).  It
\* too holds of requests one at a time only.
PhoneUnique ==
  \A u, v \in Users : Known(u) /\ Known(v) /\ account[u].phone = account[v].phone => u = v

\* Verification is never taken back.  It holds of requests one at a time: two
\* of them and a login can write the flag back to what it read earlier.
VerifiedStays ==
  [][\A u \in Users : Known(u) /\ account[u].verified => account'[u].verified]_vars

\* A code does not stay for ever: unused, it is deleted, and a new one can be
\* asked for.
CodeGoesAway ==
  \A u \in Users : CodesOf(u) # {} ~> CodesOf(u) = {}

\* Once an account stays verified, redis stops showing it as unverified.
StaleViewEnds ==
  \A u \in Users :
    <>[](Known(u) /\ account[u].verified) => <>[](cache[u] = Miss \/ cache[u].verified)
=============================================================================
