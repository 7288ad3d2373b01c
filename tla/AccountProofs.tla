---------------------------- MODULE AccountProofs -----------------------------
(***************************************************************************)
(* Proofs about Account, for any users, phones, codes, row ids, ttls and   *)
(* failures, and for any number of requests at once unless a theorem says  *)
(* otherwise.                                                              *)
(***************************************************************************)
EXTENDS Account, TLAPS

USE AccountAssumption

\* What the program counter says of the rest of a request.
LEMMA ReqShape ==
  ASSUME NEW q \in ReqStates
  PROVE  /\ q.pc = "reg_save" => q \in [pc : {"reg_save"}, phone : Phones]
         /\ q.pc = "sms" => q \in [pc : {"sms"}, op : Senders, user : Users]
         /\ q.pc = "otp_save" =>
              q \in [pc : {"otp_save"}, op : Senders, user : Users, code : Codes]
         /\ q.pc = "add_job" =>
              q \in [pc : {"add_job"}, op : Senders, user : Users, row : RowIds]
         /\ q.pc \in {"reg_cache", "resend_user", "verify_update", "verify_get", "info_db"} =>
              q \in [pc : {"reg_cache", "resend_user", "verify_update", "verify_get",
                           "info_db"}, user : Users]
         /\ q.pc = "verify_delete" =>
              q \in [pc : {"verify_delete"}, user : Users, row : RowIds]
         /\ q.pc \in {"verify_set", "info_set", "login_save"} =>
              q \in [pc : {"verify_set", "info_set", "login_save"}, user : Users,
                     seen : BOOLEAN]
         /\ q # Idle => q.pc # "idle"
BY DEF ReqStates, Idle

\* Setting the flag of a row that is there, and of one that is not.
LEMMA SetVerified ==
  ASSUME NEW a \in Accounts \cup {NoAccount}, NEW b \in BOOLEAN
  PROVE  /\ a = NoAccount => [a EXCEPT !.verified = b] = NoAccount
         /\ a # NoAccount => /\ [a EXCEPT !.verified = b] = [phone |-> a.phone, verified |-> b]
                             /\ [a EXCEPT !.verified = b] \in Accounts
         /\ NoAccount \notin Accounts
BY DEF Accounts, NoAccount

LEMMA TypeInit == Init => TypeOK
BY DEF Init, TypeOK, ReqStates

\* A request moved to a state that the types allow.
LEMMA GotoType ==
  ASSUME TypeOK, NEW r \in Requests, NEW state \in ReqStates, Goto(r, state)
  PROVE  req' \in [Requests -> ReqStates]
BY DEF TypeOK, Goto

\* The write of the flag, of a row that may have been deleted.
LEMMA SetVerifiedType ==
  ASSUME TypeOK, NEW u \in Users, NEW b \in BOOLEAN,
         account' = [account EXCEPT ![u].verified = b]
  PROVE  account' \in [Users -> Accounts \cup {NoAccount}]
<1>1. account[u] \in Accounts \cup {NoAccount}
  BY DEF TypeOK
<1>2. [account[u] EXCEPT !.verified = b] \in Accounts \cup {NoAccount}
  BY <1>1, SetVerified
<1> DEFINE row == [account[u] EXCEPT !.verified = b]
<1>3. account' = [account EXCEPT ![u] = row]
  OBVIOUS
<1> HIDE DEF row
<1> QED BY <1>2, <1>3 DEF TypeOK, row

LEMMA CacheType ==
  ASSUME TypeOK, NEW u \in Users, NEW b \in BOOLEAN, CacheUser(u, b)
  PROVE  cache' \in [Users -> Entries \cup {Miss}]
BY DEF TypeOK, CacheUser, Entries

LEMMA ArriveType ==
  ASSUME TypeOK, NEW r \in Requests, Arrive(r)
  PROVE  TypeOK'
<1>1. ASSUME NEW p \in Phones, RegisterFind(r, p) PROVE TypeOK'
  <2>1. [pc |-> "reg_save", phone |-> p] \in ReqStates
    BY DEF ReqStates
  <2> QED BY <1>1, <2>1, GotoType DEF RegisterFind, TypeOK
<1>2. ASSUME NEW u \in Users, ResendFind(r, u) PROVE TypeOK'
  <2>1. [pc |-> "resend_user", user |-> u] \in ReqStates
    BY DEF ReqStates
  <2> QED BY <1>2, <2>1, GotoType DEF ResendFind, TypeOK
<1>3. ASSUME NEW u \in Users, InfoGet(r, u) PROVE TypeOK'
  <2>1. [pc |-> "info_db", user |-> u] \in ReqStates
    BY DEF ReqStates
  <2> QED BY <1>3, <2>1, GotoType DEF InfoGet, TypeOK
<1>4. ASSUME NEW u \in Users, LoginLoad(r, u) PROVE TypeOK'
  <2>1. account[u] \in Accounts
    BY <1>4 DEF LoginLoad, Known, TypeOK
  <2>2. [pc |-> "login_save", user |-> u, seen |-> account[u].verified] \in ReqStates
    BY <2>1 DEF ReqStates, Accounts
  <2> QED BY <1>4, <2>2, GotoType DEF LoginLoad, TypeOK
<1>5. ASSUME NEW u \in Users, NEW c \in Codes, VerifyFind(r, u, c) PROVE TypeOK'
  <2>1. PICK row \in CodesOf(u) :
          Goto(r, [pc |-> "verify_delete", user |-> u, row |-> row.id])
    BY <1>5 DEF VerifyFind
  <2>2. [pc |-> "verify_delete", user |-> u, row |-> row.id] \in ReqStates
    BY DEF ReqStates, CodesOf, TypeOK, CodeRows
  <2> QED BY <1>5, <2>1, <2>2, GotoType DEF VerifyFind, TypeOK
<1> QED BY <1>1, <1>2, <1>3, <1>4, <1>5 DEF Arrive

LEMMA ProceedType ==
  ASSUME TypeOK, NEW r \in Requests, Proceed(r)
  PROVE  TypeOK'
<1>0. req[r] \in ReqStates /\ Idle \in ReqStates
  BY DEF TypeOK, ReqStates
<1>1. CASE RegisterSave(r)
  <2>1. req[r].phone \in Phones
    BY <1>0, <1>1, ReqShape DEF RegisterSave
  <2>2. PICK u \in Users :
          /\ account' = [account EXCEPT ![u] = [phone |-> req[r].phone, verified |-> FALSE]]
          /\ Goto(r, [pc |-> "sms", op |-> "register", user |-> u])
    BY <1>1 DEF RegisterSave
  <2>3. [pc |-> "sms", op |-> "register", user |-> u] \in ReqStates
    BY DEF ReqStates, Senders
  <2>4. [phone |-> req[r].phone, verified |-> FALSE] \in Accounts
    BY <2>1 DEF Accounts
  <2> QED BY <1>1, <2>2, <2>3, <2>4, GotoType DEF RegisterSave, TypeOK
<1>2. CASE SmsSent(r)
  <2>1. req[r].op \in Senders /\ req[r].user \in Users
    BY <1>0, <1>2, ReqShape DEF SmsSent
  <2>2. PICK c \in Codes :
          /\ Goto(r, [pc |-> "otp_save", op |-> req[r].op, user |-> req[r].user, code |-> c])
          /\ sent' = sent \cup {<<req[r].user, c>>}
    BY <1>2 DEF SmsSent
  <2>3. [pc |-> "otp_save", op |-> req[r].op, user |-> req[r].user, code |-> c] \in ReqStates
    BY <2>1 DEF ReqStates
  <2> QED BY <1>2, <2>1, <2>2, <2>3, GotoType DEF SmsSent, TypeOK
<1>3. CASE OtpSave(r)
  <2>1. req[r].op \in Senders /\ req[r].user \in Users /\ req[r].code \in Codes
    BY <1>0, <1>3, ReqShape DEF OtpSave
  <2>2. PICK id \in RowIds :
          /\ codes' = codes \cup {[id |-> id, user |-> req[r].user,
                                   code |-> req[r].code, left |-> OtpTTL]}
          /\ Goto(r, [pc |-> "add_job", op |-> req[r].op, user |-> req[r].user, row |-> id])
    BY <1>3 DEF OtpSave
  <2>3. [pc |-> "add_job", op |-> req[r].op, user |-> req[r].user, row |-> id] \in ReqStates
    BY <2>1 DEF ReqStates
  <2>4. [id |-> id, user |-> req[r].user, code |-> req[r].code, left |-> OtpTTL] \in CodeRows
    BY <2>1 DEF CodeRows
  <2> QED BY <1>3, <2>2, <2>3, <2>4, GotoType DEF OtpSave, TypeOK
<1>4. CASE AddJob(r)
  <2>1. req[r].user \in Users /\ req[r].row \in RowIds
    BY <1>0, <1>4, ReqShape DEF AddJob
  <2>2. [pc |-> "reg_cache", user |-> req[r].user] \in ReqStates
    BY <2>1 DEF ReqStates
  <2>3. JobFor(req[r].row) \in Jobs
    BY <2>1 DEF JobFor, Jobs
  <2>4. req' \in [Requests -> ReqStates]
    BY <1>0, <1>4, <2>2, GotoType DEF AddJob
  <2> QED BY <1>4, <2>3, <2>4 DEF AddJob, TypeOK
<1>5. CASE RegisterCache(r)
  <2>1. req[r].user \in Users
    BY <1>0, <1>5, ReqShape DEF RegisterCache
  <2> QED BY <1>0, <1>5, <2>1, GotoType, CacheType DEF RegisterCache, TypeOK
<1>6. CASE ResendUser(r)
  <2>1. [pc |-> "sms", op |-> "resend", user |-> req[r].user] \in ReqStates
    BY <1>0, <1>6, ReqShape DEF ResendUser, ReqStates, Senders
  <2>2. req' \in [Requests -> ReqStates]
    BY <1>0, <1>6, <2>1, GotoType DEF ResendUser
  <2> QED BY <1>6, <2>2 DEF ResendUser, TypeOK
<1>7. CASE VerifyDelete(r)
  <2>1. [pc |-> "verify_update", user |-> req[r].user] \in ReqStates
    BY <1>0, <1>7, ReqShape DEF VerifyDelete, ReqStates
  <2> QED BY <1>7, <2>1, GotoType DEF VerifyDelete, TypeOK
<1>8. CASE VerifyUpdate(r)
  <2>1. req[r].user \in Users
    BY <1>0, <1>8, ReqShape DEF VerifyUpdate
  <2>2. [pc |-> "verify_get", user |-> req[r].user] \in ReqStates
    BY <2>1 DEF ReqStates
  <2> QED BY <1>8, <2>1, <2>2, GotoType, SetVerifiedType DEF VerifyUpdate, TypeOK
<1>9. CASE VerifyCacheGet(r)
  <2>1. req[r].user \in Users
    BY <1>0, <1>9, ReqShape DEF VerifyCacheGet
  <2>2. ASSUME cache[req[r].user] # Miss
        PROVE  [pc |-> "verify_set", user |-> req[r].user,
                seen |-> cache[req[r].user].verified] \in ReqStates
    BY <2>1, <2>2 DEF ReqStates, TypeOK, Entries
  <2>3. req' \in [Requests -> ReqStates]
    BY <1>0, <1>9, <2>2, GotoType DEF VerifyCacheGet
  <2> QED BY <1>9, <2>3 DEF VerifyCacheGet, TypeOK
<1>10. CASE VerifyCacheSet(r)
  <2>1. req[r].user \in Users
    BY <1>0, <1>10, ReqShape DEF VerifyCacheSet
  <2> QED BY <1>0, <1>10, <2>1, GotoType, CacheType DEF VerifyCacheSet, TypeOK
<1>11. CASE InfoDb(r)
  <2>1. req[r].user \in Users
    BY <1>0, <1>11, ReqShape DEF InfoDb
  <2>2. ASSUME Known(req[r].user)
        PROVE  [pc |-> "info_set", user |-> req[r].user,
                seen |-> account[req[r].user].verified] \in ReqStates
    BY <2>1, <2>2 DEF ReqStates, TypeOK, Known, Accounts
  <2>3. req' \in [Requests -> ReqStates]
    BY <1>0, <1>11, <2>2, GotoType DEF InfoDb
  <2> QED BY <1>11, <2>3 DEF InfoDb, TypeOK
<1>12. CASE InfoSet(r)
  <2>1. req[r].user \in Users /\ req[r].seen \in BOOLEAN
    BY <1>0, <1>12, ReqShape DEF InfoSet
  <2> QED BY <1>0, <1>12, <2>1, GotoType, CacheType DEF InfoSet, TypeOK
<1>13. CASE LoginSaveUser(r)
  <2>1. req[r].user \in Users /\ req[r].seen \in BOOLEAN
    BY <1>0, <1>13, ReqShape DEF LoginSaveUser
  <2> QED BY <1>0, <1>13, <2>1, GotoType, SetVerifiedType DEF LoginSaveUser, TypeOK
<1> QED
  BY <1>1, <1>2, <1>3, <1>4, <1>5, <1>6, <1>7, <1>8, <1>9, <1>10, <1>11, <1>12, <1>13
  DEF Proceed

LEMMA TickType ==
  ASSUME TypeOK, Tick
  PROVE  TypeOK'
<1>1. ASSUME NEW c \in codes PROVE [c EXCEPT !.left = Less(c.left)] \in CodeRows
  BY DEF TypeOK, CodeRows, Less
<1>2. ASSUME NEW j \in jobs PROVE [j EXCEPT !.delay = Less(j.delay)] \in Jobs
  BY DEF TypeOK, Jobs, Less
<1>3. ASSUME NEW u \in Users PROVE Aged(cache[u]) \in Entries \cup {Miss}
  BY DEF TypeOK, Entries, Miss, Aged
<1>4. cache' \in [Users -> Entries \cup {Miss}]
  BY <1>3 DEF Tick
<1>5. codes' \subseteq CodeRows /\ jobs' \subseteq Jobs
  BY <1>1, <1>2 DEF Tick
<1> QED BY <1>4, <1>5 DEF Tick, TypeOK

LEMMA TypeStep == TypeOK /\ [Next]_vars => TypeOK'
<1> SUFFICES ASSUME TypeOK, [Next]_vars PROVE TypeOK'
  OBVIOUS
<1>1. ASSUME NEW r \in Requests, SmsRejected(r) \/ AddJobFails(r) \/ Fail(r) PROVE TypeOK'
  <2>1. Idle \in ReqStates
    BY DEF ReqStates
  <2> QED BY <1>1, <2>1, GotoType DEF SmsRejected, AddJobFails, Fail, TypeOK
<1>2. ASSUME NEW j \in jobs, HandleJob(j) \/ HandleJobFails(j) PROVE TypeOK'
  BY <1>2 DEF HandleJob, HandleJobFails, TypeOK
<1>3. CASE UNCHANGED vars
  BY <1>3 DEF vars, TypeOK
<1> QED BY <1>1, <1>2, <1>3, ArriveType, ProceedType, TickType DEF Next

\* Every reachable state has the types TypeOK gives.
THEOREM TypeCorrect == Spec => []TypeOK
  BY TypeInit, TypeStep, PTL DEF Spec

-----------------------------------------------------------------------------
(***************************************************************************)
(* Whoever counts as verified has presented a code that was sent to the    *)
(* phone of the account.  The invariant follows the evidence through every *)
(* place where it can be: a stored code was sent to its user; a request    *)
(* that has presented one, or that carries a flag it read as set, acts for *)
(* a user with both.                                                       *)
(***************************************************************************)
Backed(u) == u \in proven /\ \E c \in Codes : <<u, c>> \in sent

UserStates == {"sms", "otp_save", "add_job", "reg_cache", "verify_delete", "verify_update",
               "verify_get", "verify_set", "info_set", "login_save"}
VerifyStates == {"verify_delete", "verify_update", "verify_get", "verify_set"}

ReqBacked(r) ==
  /\ req[r].pc \in UserStates => Known(req[r].user)
  /\ req[r].pc = "otp_save" => <<req[r].user, req[r].code>> \in sent
  /\ req[r].pc \in VerifyStates => Backed(req[r].user)
  /\ req[r].pc \in {"info_set", "login_save"} /\ req[r].seen => Backed(req[r].user)

CodesBacked == \A c \in codes : Known(c.user) /\ <<c.user, c.code>> \in sent

UserBacked(u) ==
  /\ Known(u) /\ account[u].verified => Backed(u)
  /\ cache[u] # Miss /\ cache[u].verified => Backed(u)

\* A job does not come before its code's five minutes are over.
JobsNotEarly == \A c \in codes, j \in jobs : j.row = c.id => j.delay >= c.left

IInv ==
  /\ TypeOK
  /\ \A r \in Requests : ReqBacked(r)
  /\ CodesBacked
  /\ \A u \in Users : UserBacked(u)
  /\ JobsNotEarly

LEMMA IInvInit == Init => IInv
BY TypeInit DEF Init, IInv, ReqBacked, CodesBacked, UserBacked, JobsNotEarly, Idle, Known,
   Miss, UserStates, VerifyStates

\* Evidence is never lost, and no account is ever deleted.
EvidenceKept ==
  /\ sent \subseteq sent' /\ proven \subseteq proven'
  /\ \A u \in Users : Known(u) => Known(u)'

LEMMA BackedStays ==
  ASSUME EvidenceKept, NEW u \in Users, Backed(u)
  PROVE  Backed(u)'
BY DEF EvidenceKept, Backed

\* The requests that a step does not move still have what they had.
LEMMA OthersBacked ==
  ASSUME IInv, EvidenceKept, NEW r \in Requests, req'[r] = req[r]
  PROVE  ReqBacked(r)'
<1>1. req[r] \in ReqStates /\ ReqBacked(r)
  BY DEF IInv, TypeOK
<1>2. req[r].pc \in UserStates => req[r].user \in Users
  BY <1>1, ReqShape DEF UserStates
<1>3. req[r].pc \in UserStates => Known(req[r].user)'
  BY <1>1, <1>2 DEF ReqBacked, EvidenceKept
<1>4. req[r].pc = "otp_save" => <<req[r].user, req[r].code>> \in sent'
  BY <1>1 DEF ReqBacked, EvidenceKept
<1>5. req[r].pc \in VerifyStates => Backed(req[r].user)'
  BY <1>1, <1>2, BackedStays DEF ReqBacked, VerifyStates, UserStates
<1>6. req[r].pc \in {"info_set", "login_save"} /\ req[r].seen => Backed(req[r].user)'
  BY <1>1, <1>2, BackedStays DEF ReqBacked, UserStates
<1> QED BY <1>3, <1>4, <1>5, <1>6 DEF ReqBacked

LEMMA OneMoves ==
  ASSUME TypeOK, NEW r \in Requests, NEW state, Goto(r, state)
  PROVE  req'[r] = state /\ \A s \in Requests : s # r => req'[s] = req[s]
BY DEF TypeOK, Goto

\* A step that moves one request and leaves the stores alone.
LEMMA MoveBacked ==
  ASSUME IInv, TypeOK', NEW r \in Requests, NEW state, Goto(r, state), EvidenceKept,
         UNCHANGED <<account, codes, jobs, cache>>, ReqBacked(r)'
  PROVE  IInv'
<1>1. \A s \in Requests : ReqBacked(s)'
  BY OneMoves, OthersBacked DEF IInv
<1>2. CodesBacked'
  BY DEF IInv, CodesBacked, Known, EvidenceKept
<1>3. ASSUME NEW u \in Users PROVE UserBacked(u)'
  <2>1. UserBacked(u)
    BY DEF IInv
  <2> QED BY <2>1, BackedStays DEF UserBacked, Known
<1>4. JobsNotEarly'
  BY DEF IInv, JobsNotEarly
<1> QED BY <1>1, <1>2, <1>3, <1>4 DEF IInv

LEMMA ArriveStep ==
  ASSUME IInv, TypeOK', NEW r \in Requests, Arrive(r)
  PROVE  IInv'
<1> TypeOK
  BY DEF IInv
<1>1. ASSUME NEW state, Goto(r, state), state.pc \notin UserStates,
             UNCHANGED <<account, codes, jobs, cache, sent, proven>>
      PROVE  IInv'
  <2>1. ReqBacked(r)'
    BY <1>1, OneMoves DEF ReqBacked, UserStates, VerifyStates
  <2> QED BY <1>1, <2>1, MoveBacked DEF EvidenceKept, Known
<1>2. ASSUME NEW p \in Phones, RegisterFind(r, p) PROVE IInv'
  BY <1>2, <1>1 DEF RegisterFind, UserStates
<1>3. ASSUME NEW u \in Users, ResendFind(r, u) \/ InfoGet(r, u) PROVE IInv'
  BY <1>3, <1>1 DEF ResendFind, InfoGet, UserStates
<1>4. ASSUME NEW u \in Users, LoginLoad(r, u) PROVE IInv'
  <2> DEFINE state == [pc |-> "login_save", user |-> u, seen |-> account[u].verified]
  <2>1. /\ Goto(r, state) /\ EvidenceKept /\ Known(u)
        /\ UNCHANGED <<account, codes, jobs, cache, sent, proven>>
    BY <1>4 DEF LoginLoad, EvidenceKept, Known
  <2>2. account[u].verified => Backed(u)'
    BY <2>1, BackedStays DEF IInv, UserBacked
  <2>3. ReqBacked(r)'
    BY <2>1, <2>2, OneMoves DEF ReqBacked, VerifyStates, Known
  <2> QED BY <2>1, <2>3, MoveBacked
<1>5. ASSUME NEW u \in Users, NEW c \in Codes, VerifyFind(r, u, c) PROVE IInv'
  <2>1. PICK row \in CodesOf(u) :
          Goto(r, [pc |-> "verify_delete", user |-> u, row |-> row.id])
    BY <1>5 DEF VerifyFind
  <2>2. EvidenceKept /\ u \in proven' /\ UNCHANGED <<account, codes, jobs, cache, sent>>
    BY <1>5 DEF VerifyFind, EvidenceKept, Known
  <2>3. Known(u) /\ <<u, row.code>> \in sent /\ row.code \in Codes
    BY DEF IInv, CodesBacked, CodesOf, TypeOK, CodeRows
  <2>4. Backed(u)' /\ Known(u)'
    BY <2>2, <2>3 DEF Backed, Known
  <2>5. ReqBacked(r)'
    BY <2>1, <2>4, OneMoves DEF ReqBacked, VerifyStates, UserStates
  <2> QED BY <2>1, <2>2, <2>5, MoveBacked
<1> QED BY <1>2, <1>3, <1>4, <1>5 DEF Arrive

\* The user is inserted unverified.
LEMMA RegisterSaveStep ==
  ASSUME IInv, TypeOK', NEW r \in Requests, RegisterSave(r)
  PROVE  IInv'
<1> TypeOK
  BY DEF IInv
<1>1. PICK u \in Users :
        /\ ~Known(u)
        /\ account' = [account EXCEPT ![u] = [phone |-> req[r].phone, verified |-> FALSE]]
        /\ Goto(r, [pc |-> "sms", op |-> "register", user |-> u])
  BY DEF RegisterSave
<1>2. UNCHANGED <<codes, jobs, cache, sent, proven>>
  BY DEF RegisterSave
<1>3. account'[u] = [phone |-> req[r].phone, verified |-> FALSE]
      /\ \A v \in Users : v # u => account'[v] = account[v]
  BY <1>1 DEF TypeOK
<1>4. Known(u)'
  BY <1>3 DEF Known, NoAccount
<1>5. EvidenceKept
  BY <1>2, <1>3, <1>4 DEF EvidenceKept, Known
<1>6. ReqBacked(r)'
  BY <1>1, <1>4, OneMoves DEF ReqBacked, VerifyStates
<1>7. \A s \in Requests : ReqBacked(s)'
  BY <1>1, <1>5, <1>6, OneMoves, OthersBacked
<1>8. CodesBacked'
  BY <1>2, <1>5 DEF IInv, CodesBacked, TypeOK, CodeRows, EvidenceKept
<1>9. ASSUME NEW v \in Users PROVE UserBacked(v)'
  <2>1. UserBacked(v)
    BY DEF IInv
  <2>2. Backed(v) => Backed(v)'
    BY <1>5, BackedStays
  <2> QED BY <1>2, <1>3, <2>1, <2>2 DEF UserBacked, Known
<1> QED BY <1>2, <1>7, <1>8, <1>9 DEF IInv, JobsNotEarly

\* The steps of sendOTP: a code is sent, then stored, then its job is queued.
LEMMA SendStep ==
  ASSUME IInv, TypeOK', NEW r \in Requests, SmsSent(r) \/ OtpSave(r) \/ AddJob(r)
  PROVE  IInv'
<1> TypeOK /\ ReqBacked(r) /\ req[r] \in ReqStates
  BY DEF IInv, TypeOK
<1> PICK u \in Users : u = req[r].user
  BY ReqShape DEF SmsSent, OtpSave, AddJob
<1>0. Known(u)
  BY DEF SmsSent, OtpSave, AddJob, ReqBacked, UserStates
<1>1. CASE SmsSent(r)
  <2>1. PICK c \in Codes :
          /\ Goto(r, [pc |-> "otp_save", op |-> req[r].op, user |-> u, code |-> c])
          /\ sent' = sent \cup {<<u, c>>}
    BY <1>1 DEF SmsSent
  <2>2. UNCHANGED <<account, codes, jobs, cache, proven>>
    BY <1>1 DEF SmsSent
  <2>3. EvidenceKept
    BY <2>1, <2>2 DEF EvidenceKept, Known
  <2>4. Known(u)'
    BY <1>0, <2>2 DEF Known
  <2>5. ReqBacked(r)'
    BY <2>1, <2>4, OneMoves DEF ReqBacked, VerifyStates
  <2> QED BY <2>1, <2>2, <2>3, <2>5, MoveBacked
<1>2. CASE OtpSave(r)
  <2>1. PICK id \in RowIds :
          /\ FreshRow(id)
          /\ codes' = codes \cup {[id |-> id, user |-> u,
                                   code |-> req[r].code, left |-> OtpTTL]}
          /\ Goto(r, [pc |-> "add_job", op |-> req[r].op, user |-> u, row |-> id])
    BY <1>2 DEF OtpSave
  <2>2. /\ UNCHANGED <<account, jobs, cache, sent, proven>> /\ EvidenceKept
        /\ req[r].pc = "otp_save"
    BY <1>2 DEF OtpSave, EvidenceKept, Known
  <2>3. Known(u) /\ <<u, req[r].code>> \in sent
    BY <1>0, <2>2 DEF ReqBacked
  <2>4. ReqBacked(r)'
    BY <2>1, <2>2, <2>3, OneMoves DEF ReqBacked, VerifyStates, Known
  <2>5. \A s \in Requests : ReqBacked(s)'
    BY <2>1, <2>2, <2>4, OneMoves, OthersBacked
  <2>6. CodesBacked'
    <3>1. ASSUME NEW c \in codes' PROVE Known(c.user) /\ <<c.user, c.code>> \in sent
      <4>1. CASE c \in codes
        BY <4>1 DEF IInv, CodesBacked
      <4>2. CASE c \notin codes
        BY <2>1, <2>3, <4>2
      <4> QED BY <4>1, <4>2
    <3> QED BY <2>2, <3>1 DEF CodesBacked, Known
  <2>7. JobsNotEarly'
    BY <2>1, <2>2 DEF IInv, JobsNotEarly, FreshRow
  <2> QED BY <2>2, <2>5, <2>6, <2>7 DEF IInv, UserBacked, Known, Backed
<1>3. CASE AddJob(r)
  <2> DEFINE state == IF req[r].op = "register"
                      THEN [pc |-> "reg_cache", user |-> u] ELSE Idle
  <2>1. /\ Goto(r, state) /\ jobs' = jobs \cup {JobFor(req[r].row)}
        /\ UNCHANGED <<account, codes, cache, sent, proven>> /\ EvidenceKept
        /\ req[r].pc = "add_job"
    BY <1>3 DEF AddJob, EvidenceKept, Known
  <2>2. Known(u)'
    BY <1>0, <2>1 DEF Known
  <2>3. ReqBacked(r)'
    BY <2>1, <2>2, OneMoves DEF ReqBacked, VerifyStates, UserStates, Idle
  <2>4. \A s \in Requests : ReqBacked(s)'
    BY <2>1, <2>3, OneMoves, OthersBacked
  <2>5. JobsNotEarly'
    BY <2>1 DEF IInv, JobsNotEarly, JobFor, TypeOK, CodeRows
  <2> QED BY <2>1, <2>4, <2>5 DEF IInv, UserBacked, Known, Backed, CodesBacked
<1> QED BY <1>1, <1>2, <1>3

\* What is written to redis of a user: the flag set is backed.
LEMMA CacheStep ==
  ASSUME IInv, TypeOK', NEW r \in Requests,
         RegisterCache(r) \/ VerifyCacheSet(r) \/ InfoSet(r)
  PROVE  IInv'
<1> TypeOK /\ ReqBacked(r) /\ req[r] \in ReqStates
  BY DEF IInv, TypeOK
<1> PICK u \in Users, b \in BOOLEAN : u = req[r].user /\ CacheUser(u, b) /\ (b => Backed(u))
  BY ReqShape DEF RegisterCache, VerifyCacheSet, InfoSet, ReqBacked, VerifyStates
<1>1. Goto(r, Idle) /\ UNCHANGED <<account, codes, jobs, sent, proven>>
  BY DEF RegisterCache, VerifyCacheSet, InfoSet
<1>2. EvidenceKept
  BY <1>1 DEF EvidenceKept, Known
<1>3. ReqBacked(r)'
  BY <1>1, OneMoves DEF ReqBacked, UserStates, VerifyStates, Idle
<1>4. \A s \in Requests : ReqBacked(s)'
  BY <1>1, <1>2, <1>3, OneMoves, OthersBacked
<1>5. /\ cache'[u] = [ttl |-> CacheTTL, verified |-> b]
      /\ \A v \in Users : v # u => cache'[v] = cache[v]
  BY DEF CacheUser, TypeOK
<1>6. ASSUME NEW v \in Users PROVE UserBacked(v)'
  <2>1. UserBacked(v) /\ (Backed(v) => Backed(v)')
    BY <1>2, BackedStays DEF IInv
  <2> QED BY <1>1, <1>5, <2>1 DEF UserBacked, Known
<1> QED BY <1>1, <1>4, <1>6 DEF IInv, CodesBacked, Known, JobsNotEarly

\* The write of the flag in the row: by verifyOTP set, by a login as it was read.
LEMMA FlagStep ==
  ASSUME IInv, TypeOK', NEW r \in Requests, VerifyUpdate(r) \/ LoginSaveUser(r)
  PROVE  IInv'
<1> TypeOK /\ ReqBacked(r) /\ req[r] \in ReqStates
  BY DEF IInv, TypeOK
<1>1. PICK u \in Users : u = req[r].user /\ Known(u)
  BY ReqShape DEF VerifyUpdate, LoginSaveUser, ReqBacked, UserStates
<1>2. PICK b \in BOOLEAN : /\ account' = [account EXCEPT ![u].verified = b]
                           /\ b => Backed(u)
  BY <1>1, ReqShape DEF VerifyUpdate, LoginSaveUser, ReqBacked, VerifyStates
<1>3. PICK state \in ReqStates :
        /\ Goto(r, state) /\ UNCHANGED <<codes, jobs, cache, sent, proven>>
        /\ \/ state = Idle
           \/ state = [pc |-> "verify_get", user |-> u] /\ Backed(u)
  <2>1. CASE VerifyUpdate(r)
    <3>1. [pc |-> "verify_get", user |-> u] \in ReqStates
      BY <1>1 DEF ReqStates
    <3>2. Backed(u)
      BY <1>1, <2>1 DEF VerifyUpdate, ReqBacked, VerifyStates
    <3>3. /\ Goto(r, [pc |-> "verify_get", user |-> u])
          /\ UNCHANGED <<codes, jobs, cache, sent, proven>>
      BY <1>1, <2>1 DEF VerifyUpdate
    <3> QED BY <3>1, <3>2, <3>3
  <2>2. CASE LoginSaveUser(r)
    <3>1. Idle \in ReqStates
      BY DEF ReqStates
    <3>2. Goto(r, Idle) /\ UNCHANGED <<codes, jobs, cache, sent, proven>>
      BY <2>2 DEF LoginSaveUser
    <3> QED BY <3>1, <3>2
  <2> QED BY <2>1, <2>2
<1>4. /\ account'[u] \in Accounts /\ account'[u].verified = b
      /\ \A v \in Users : v # u => account'[v] = account[v]
  <2>1. account[u] \in Accounts \cup {NoAccount} /\ account[u] # NoAccount
    BY <1>1 DEF TypeOK, Known
  <2>2. [account[u] EXCEPT !.verified = b] = [phone |-> account[u].phone, verified |-> b]
        /\ [account[u] EXCEPT !.verified = b] \in Accounts
    BY <2>1, SetVerified
  <2> DEFINE row == [account[u] EXCEPT !.verified = b]
  <2>3. account' = [account EXCEPT ![u] = row]
    BY <1>2
  <2>4. row.verified = b /\ row \in Accounts
    BY <2>2
  <2> HIDE DEF row
  <2> QED BY <1>1, <2>3, <2>4 DEF TypeOK
<1>5. Known(u)'
  BY <1>4, SetVerified DEF Known
<1>6. EvidenceKept
  BY <1>3, <1>4, <1>5 DEF EvidenceKept, Known
<1>7. ReqBacked(r)'
  <2>1. Backed(u) => Backed(u)'
    BY <1>1, <1>6, BackedStays
  <2> QED BY <1>3, <1>5, <2>1, OneMoves DEF ReqBacked, UserStates, VerifyStates, Idle
<1>8. \A s \in Requests : ReqBacked(s)'
  BY <1>3, <1>6, <1>7, OneMoves, OthersBacked
<1>9. ASSUME NEW v \in Users PROVE UserBacked(v)'
  <2>1. UserBacked(v) /\ (Backed(v) => Backed(v)')
    BY <1>6, BackedStays DEF IInv
  <2> QED BY <1>2, <1>3, <1>4, <2>1 DEF UserBacked, Known
<1>10. CodesBacked'
  BY <1>3, <1>6 DEF IInv, CodesBacked, TypeOK, CodeRows, EvidenceKept
<1> QED BY <1>3, <1>8, <1>9, <1>10 DEF IInv, JobsNotEarly

LEMMA VerifyDeleteStep ==
  ASSUME IInv, TypeOK', NEW r \in Requests, VerifyDelete(r)
  PROVE  IInv'
<1> TypeOK /\ ReqBacked(r) /\ req[r] \in ReqStates
  BY DEF IInv, TypeOK
<1>1. PICK u \in Users : u = req[r].user /\ Known(u) /\ Backed(u)
  BY ReqShape DEF VerifyDelete, ReqBacked, UserStates, VerifyStates
<1>2. /\ codes' \subseteq codes /\ Goto(r, [pc |-> "verify_update", user |-> u])
      /\ UNCHANGED <<account, jobs, cache, sent, proven>> /\ EvidenceKept
  BY <1>1 DEF VerifyDelete, EvidenceKept, Known
<1>3. ReqBacked(r)'
  BY <1>1, <1>2, OneMoves DEF ReqBacked, UserStates, VerifyStates, Known, Backed
<1>4. \A s \in Requests : ReqBacked(s)'
  BY <1>2, <1>3, OneMoves, OthersBacked
<1>5. CodesBacked' /\ JobsNotEarly'
  BY <1>2 DEF IInv, CodesBacked, JobsNotEarly, Known
<1> QED BY <1>2, <1>4, <1>5 DEF IInv, UserBacked, Known, Backed

\* The steps that only read: what they have read is backed.
LEMMA ReadStep ==
  ASSUME IInv, TypeOK', NEW r \in Requests,
         ResendUser(r) \/ VerifyCacheGet(r) \/ InfoDb(r)
  PROVE  IInv'
<1> TypeOK /\ ReqBacked(r) /\ req[r] \in ReqStates
  BY DEF IInv, TypeOK
<1>1. PICK u \in Users : u = req[r].user /\ UserBacked(u)
  BY ReqShape DEF ResendUser, VerifyCacheGet, InfoDb, IInv
<1>2. UNCHANGED <<account, codes, jobs, cache, sent, proven>> /\ EvidenceKept
  BY DEF ResendUser, VerifyCacheGet, InfoDb, EvidenceKept, Known
<1>3. PICK state :
        /\ Goto(r, state) /\ state.pc # "otp_save"
        /\ state.pc \in UserStates => state.user = u /\ Known(u)
        /\ state.pc \in VerifyStates => Backed(u)
        /\ state.pc \in {"info_set", "login_save"} /\ state.seen => Backed(u)
  <2>1. CASE ResendUser(r)
    BY <1>1, <2>1 DEF ResendUser, Idle, UserStates, VerifyStates
  <2>2. CASE VerifyCacheGet(r)
    BY <1>1, <2>2 DEF VerifyCacheGet, Idle, ReqBacked, UserStates, VerifyStates
  <2>3. CASE InfoDb(r)
    BY <1>1, <2>3 DEF InfoDb, Idle, UserStates, VerifyStates, UserBacked
  <2> QED BY <2>1, <2>2, <2>3
<1>4. ReqBacked(r)'
  BY <1>2, <1>3, OneMoves DEF ReqBacked, Known, Backed, VerifyStates, UserStates
<1> QED BY <1>2, <1>3, <1>4, MoveBacked

LEMMA EndStep ==
  ASSUME IInv, TypeOK', NEW r \in Requests, SmsRejected(r) \/ AddJobFails(r) \/ Fail(r)
  PROVE  IInv'
<1>1. /\ Goto(r, Idle) /\ EvidenceKept
      /\ UNCHANGED <<account, codes, jobs, cache, sent, proven>>
  BY DEF SmsRejected, AddJobFails, Fail, EvidenceKept, Known
<1>2. ReqBacked(r)'
  BY <1>1, OneMoves DEF IInv, ReqBacked, UserStates, VerifyStates, Idle
<1> QED BY <1>1, <1>2, MoveBacked

LEMMA QueueStep ==
  ASSUME IInv, TypeOK', NEW j \in jobs, HandleJob(j) \/ HandleJobFails(j)
  PROVE  IInv'
<1>1. /\ codes' \subseteq codes /\ jobs' \subseteq jobs
      /\ UNCHANGED <<account, cache, req, sent, proven>>
  BY DEF HandleJob, HandleJobFails
<1>2. CodesBacked' /\ JobsNotEarly'
  BY <1>1 DEF IInv, CodesBacked, JobsNotEarly, Known
<1> QED BY <1>1, <1>2 DEF IInv, ReqBacked, UserBacked, Known, Backed

LEMMA TickStep ==
  ASSUME IInv, TypeOK', Tick
  PROVE  IInv'
<1> TypeOK
  BY DEF IInv
<1>1. UNCHANGED <<account, req, sent, proven>>
  BY DEF Tick
<1>2. \A c \in codes' : \E d \in codes : /\ c.id = d.id /\ c.user = d.user /\ c.code = d.code
                                         /\ c.left = Less(d.left) /\ d.left \in Nat
  BY DEF Tick, TypeOK, CodeRows
<1>3. \A j \in jobs' : \E i \in jobs : j.row = i.row /\ j.delay = Less(i.delay)
                                         /\ i.delay \in Nat
  BY DEF Tick, TypeOK, Jobs
<1>4. CodesBacked'
  BY <1>1, <1>2 DEF IInv, CodesBacked, Known
<1>5. JobsNotEarly'
  BY <1>2, <1>3 DEF IInv, JobsNotEarly, Less
<1>6. ASSUME NEW u \in Users PROVE UserBacked(u)'
  <2>1. cache'[u] # Miss => cache[u] # Miss /\ cache'[u].verified = cache[u].verified
    BY DEF Tick, Aged, TypeOK, Entries, Miss
  <2> QED BY <1>1, <2>1 DEF IInv, UserBacked, Known, Backed
<1> QED BY <1>1, <1>4, <1>5, <1>6 DEF IInv, ReqBacked, Known, Backed

LEMMA IInvStep == IInv /\ [Next]_vars => IInv'
<1> SUFFICES ASSUME IInv, [Next]_vars PROVE IInv'
  OBVIOUS
<1>1. TypeOK'
  BY TypeStep DEF IInv
<1>2. CASE UNCHANGED vars
  BY <1>1, <1>2 DEF vars, IInv, ReqBacked, CodesBacked, UserBacked, JobsNotEarly, Known, Backed
<1>3. ASSUME NEW r \in Requests, Proceed(r) PROVE IInv'
  BY <1>1, <1>3, RegisterSaveStep, SendStep, CacheStep, FlagStep, VerifyDeleteStep, ReadStep
  DEF Proceed
<1> QED BY <1>1, <1>2, <1>3, ArriveStep, EndStep, QueueStep, TickStep DEF Next

\* The invariant holds in every reachable state.
THEOREM InvariantHolds == Spec => []IInv
  BY IInvInit, IInvStep, PTL DEF Spec

\* However requests overlap and whatever fails, an account counts as verified only
\* if somebody has presented a code that was sent to its phone.
THEOREM OnlyVerifiedByCode == Spec => []VerifiedByCode
<1>1. IInv => VerifiedByCode
  BY DEF IInv, UserBacked, Backed, VerifiedByCode
<1> QED BY <1>1, InvariantHolds, PTL

\* No job deletes a code before its five minutes are over.
THEOREM CodesLiveFiveMinutes == Spec => CodeLivesFiveMinutes
<1> DEFINE Step ==
      \A c \in codes :
        c.left > 0 /\ (\A d \in codes' : d.id # c.id) =>
          \E r \in Requests : req[r].pc = "verify_delete" /\ req[r].row = c.id
<1>1. IInv /\ [Next]_vars => [Step]_vars
  <2> SUFFICES ASSUME IInv, Next, NEW c \in codes, c.left > 0, \A d \in codes' : d.id # c.id
               PROVE  \E r \in Requests : req[r].pc = "verify_delete" /\ req[r].row = c.id
    OBVIOUS
  <2>0. c \notin codes' /\ c.left \in Nat
    BY DEF IInv, TypeOK, CodeRows
  <2>1. ASSUME NEW r \in Requests, VerifyDelete(r)
        PROVE  req[r].pc = "verify_delete" /\ req[r].row = c.id
    BY <2>0, <2>1 DEF VerifyDelete
  <2>2. ASSUME NEW j \in jobs, HandleJob(j) PROVE FALSE
    BY <2>0, <2>2 DEF HandleJob, IInv, JobsNotEarly
  <2>3. ASSUME Tick PROVE FALSE
    <3>1. [c EXCEPT !.left = Less(c.left)] \in codes'
      BY <2>3 DEF Tick
    <3>2. [c EXCEPT !.left = Less(c.left)].id = c.id
      BY DEF IInv, TypeOK, CodeRows
    <3> QED BY <3>1, <3>2
  <2>4. ASSUME codes \subseteq codes' PROVE FALSE
    BY <2>0, <2>4
  <2>5. ASSUME NEW r \in Requests, Arrive(r) PROVE codes \subseteq codes'
    BY <2>5 DEF Arrive, RegisterFind, ResendFind, InfoGet, LoginLoad, VerifyFind
  <2>6. ASSUME NEW r \in Requests, Proceed(r), ~VerifyDelete(r) PROVE codes \subseteq codes'
    BY <2>6 DEF Proceed, RegisterSave, SmsSent, OtpSave, AddJob, RegisterCache, ResendUser,
       VerifyUpdate, VerifyCacheGet, VerifyCacheSet, InfoDb, InfoSet, LoginSaveUser
  <2>7. ASSUME NEW r \in Requests, SmsRejected(r) \/ AddJobFails(r) \/ Fail(r)
        PROVE  codes \subseteq codes'
    BY <2>7 DEF SmsRejected, AddJobFails, Fail
  <2>8. ASSUME NEW j \in jobs, HandleJobFails(j) PROVE codes \subseteq codes'
    BY <2>8 DEF HandleJobFails
  <2> QED BY <2>1, <2>2, <2>3, <2>4, <2>5, <2>6, <2>7, <2>8 DEF Next
<1> QED BY <1>1, InvariantHolds, PTL DEF Spec, CodeLivesFiveMinutes

-----------------------------------------------------------------------------
(***************************************************************************)
(* What holds only when nothing fails between the insert of a code and its *)
(* job, or only of requests one at a time.                                 *)
(***************************************************************************)
\* The steps that touch neither codes nor jobs: none of them is one of a request that
\* is about to call addJob.
LEMMA CodesAlone ==
  ASSUME TypeOK, NEW r \in Requests,
         \/ Arrive(r)
         \/ Proceed(r) /\ ~OtpSave(r) /\ ~AddJob(r) /\ ~VerifyDelete(r)
         \/ SmsRejected(r)
  PROVE  /\ UNCHANGED <<codes, jobs>>
         /\ req[r].pc # "add_job"
         /\ \A s \in Requests : s # r => req'[s] = req[s]
<1>1. CASE Arrive(r)
  <2>1. UNCHANGED <<codes, jobs>> /\ req[r] = Idle
    BY <1>1 DEF Arrive, RegisterFind, ResendFind, InfoGet, LoginLoad, VerifyFind
  <2>2. \E state : Goto(r, state)
    BY <1>1 DEF Arrive, RegisterFind, ResendFind, InfoGet, LoginLoad, VerifyFind
  <2> QED BY <2>1, <2>2, OneMoves DEF Idle
<1>2. CASE Proceed(r) /\ ~OtpSave(r) /\ ~AddJob(r) /\ ~VerifyDelete(r)
  BY <1>2, OneMoves DEF Proceed, RegisterSave, SmsSent, RegisterCache, ResendUser,
     VerifyUpdate, VerifyCacheGet, VerifyCacheSet, InfoDb, InfoSet, LoginSaveUser
<1>3. CASE SmsRejected(r)
  BY <1>3, OneMoves DEF SmsRejected
<1> QED BY <1>1, <1>2, <1>3

HasAJob(c) ==
  \/ \E j \in jobs : j.row = c.id /\ j.delay >= c.left
  \/ \E r \in Requests : req[r].pc = "add_job" /\ req[r].row = c.id

LEMMA JobStep ==
  ASSUME Faults \subseteq {"sms"}, TypeOK, EveryCodeHasAJob, [Next]_vars
  PROVE  EveryCodeHasAJob'
<1> USE DEF EveryCodeHasAJob
<1>1. ASSUME NEW r \in Requests, OtpSave(r) PROVE EveryCodeHasAJob'
  <2>1. PICK id \in RowIds :
          /\ codes' = codes \cup {[id |-> id, user |-> req[r].user,
                                   code |-> req[r].code, left |-> OtpTTL]}
          /\ Goto(r, [pc |-> "add_job", op |-> req[r].op, user |-> req[r].user, row |-> id])
    BY <1>1 DEF OtpSave
  <2>2. jobs' = jobs /\ req[r].pc = "otp_save"
    BY <1>1 DEF OtpSave
  <2>3. req'[r].pc = "add_job" /\ req'[r].row = id
        /\ \A s \in Requests : s # r => req'[s] = req[s]
    BY <2>1, OneMoves
  <2>4. ASSUME NEW c \in codes PROVE HasAJob(c)'
    BY <2>2, <2>3 DEF HasAJob
  <2>5. \A c \in codes' : c \in codes \/ c.id = id
    BY <2>1
  <2> QED BY <2>3, <2>4, <2>5 DEF HasAJob
<1>2. ASSUME NEW r \in Requests, AddJob(r) PROVE EveryCodeHasAJob'
  <2>1. codes' = codes /\ jobs' = jobs \cup {JobFor(req[r].row)}
        /\ \A s \in Requests : s # r => req'[s] = req[s]
    BY <1>2, OneMoves DEF AddJob
  <2>2. \A c \in codes : OtpTTL >= c.left
    BY DEF TypeOK, CodeRows
  <2>3. JobFor(req[r].row) \in jobs' /\ JobFor(req[r].row).row = req[r].row
        /\ JobFor(req[r].row).delay = OtpTTL /\ jobs \subseteq jobs'
    BY <2>1 DEF JobFor
  <2>4. ASSUME NEW c \in codes PROVE HasAJob(c)'
    <3>1. CASE \E j \in jobs : j.row = c.id /\ j.delay >= c.left
      BY <2>3, <3>1 DEF HasAJob
    <3>2. CASE req[r].row = c.id
      BY <2>2, <2>3, <3>2 DEF HasAJob
    <3>3. CASE \E s \in Requests : s # r /\ req[s].pc = "add_job" /\ req[s].row = c.id
      BY <2>1, <3>3 DEF HasAJob
    <3> QED BY <3>1, <3>2, <3>3
  <2> QED BY <2>1, <2>4 DEF HasAJob
<1>3. ASSUME NEW r \in Requests, VerifyDelete(r) PROVE EveryCodeHasAJob'
  <2>1. codes' \subseteq codes /\ jobs' = jobs /\ req[r].pc # "add_job"
        /\ \A s \in Requests : s # r => req'[s] = req[s]
    BY <1>3, OneMoves DEF VerifyDelete
  <2> QED BY <2>1
<1>4. ASSUME NEW r \in Requests,
             \/ Arrive(r)
             \/ Proceed(r) /\ ~OtpSave(r) /\ ~AddJob(r) /\ ~VerifyDelete(r)
             \/ SmsRejected(r)
      PROVE  EveryCodeHasAJob'
  BY <1>4, CodesAlone
<1>5. ASSUME NEW j \in jobs, HandleJob(j) PROVE EveryCodeHasAJob'
  BY <1>5 DEF HandleJob
<1>6. CASE Tick
  <2>1. ASSUME NEW c \in codes' PROVE HasAJob(c)'
    <3>1. PICK d \in codes : c = [d EXCEPT !.left = Less(d.left)]
      BY <1>6 DEF Tick
    <3>2. c.id = d.id /\ c.left = Less(d.left) /\ d.left \in Nat
      BY <3>1 DEF TypeOK, CodeRows
    <3>3. ASSUME NEW j \in jobs, j.row = d.id, j.delay >= d.left PROVE HasAJob(c)'
      <4>1. [j EXCEPT !.delay = Less(j.delay)] \in jobs'
        BY <1>6 DEF Tick
      <4>2. /\ [j EXCEPT !.delay = Less(j.delay)].row = c.id
            /\ [j EXCEPT !.delay = Less(j.delay)].delay >= c.left
        BY <3>2, <3>3 DEF TypeOK, Jobs, Less
      <4> QED BY <4>1, <4>2 DEF HasAJob
    <3>4. ASSUME NEW r \in Requests, req[r].pc = "add_job", req[r].row = d.id
          PROVE  HasAJob(c)'
      BY <1>6, <3>2, <3>4 DEF HasAJob, Tick
    <3> QED BY <3>3, <3>4
  <2> QED BY <2>1 DEF HasAJob
<1>7. CASE UNCHANGED vars
  BY <1>7 DEF vars
<1>8. \A r \in Requests : ~AddJobFails(r) /\ ~Fail(r)
  BY DEF AddJobFails, Fail
<1>9. \A j \in jobs : ~HandleJobFails(j)
  BY DEF HandleJobFails
<1> QED BY <1>1, <1>2, <1>3, <1>4, <1>5, <1>6, <1>7, <1>8, <1>9 DEF Next

\* As long as only the SMS gateway fails, every stored code will be deleted by a job,
\* unless addJob is about to be called for it.
THEOREM EveryCodeIsQueued ==
  ASSUME Faults \subseteq {"sms"}
  PROVE  Spec => []EveryCodeHasAJob
<1>1. Init => EveryCodeHasAJob
  BY DEF Init, EveryCodeHasAJob
<1>2. TypeOK /\ EveryCodeHasAJob /\ [Next]_vars => EveryCodeHasAJob'
  BY JobStep
<1> QED BY <1>1, <1>2, TypeCorrect, PTL DEF Spec

-----------------------------------------------------------------------------
\* One request at a time.
Serial == \A r, s \in Requests : r = s

\* What a request has found when it was the only one still holds when it goes on.
ReqSerial(r) ==
  /\ req[r].pc \in {"resend_user", "sms", "otp_save"} => CodesOf(req[r].user) = {}
  /\ req[r].pc = "reg_save" => \A u \in Users : account[u].phone # req[r].phone
  /\ req[r].pc = "login_save" => req[r].seen = account[req[r].user].verified

SerialInv == IInv /\ OneCodePerUser /\ PhoneUnique /\ \A r \in Requests : ReqSerial(r)

\* Codes that go leave no user with two, and one without a code without one.
LEMMA FewerCodes ==
  ASSUME codes' \subseteq codes
  PROVE  /\ OneCodePerUser => OneCodePerUser'
         /\ \A u \in Users : CodesOf(u) = {} => CodesOf(u)' = {}
BY DEF OneCodePerUser, CodesOf

\* The step of a request that leaves accounts alone and adds no code.
LEMMA SerialMove ==
  ASSUME Serial, SerialInv, IInv', NEW r \in Requests, UNCHANGED account,
         codes' \subseteq codes, ReqSerial(r)'
  PROVE  SerialInv'
<1>1. \A s \in Requests : ReqSerial(s)'
  BY DEF Serial
<1> QED BY <1>1, FewerCodes DEF SerialInv, PhoneUnique, Known

LEMMA SerialArrive ==
  ASSUME Serial, SerialInv, IInv', NEW r \in Requests, Arrive(r)
  PROVE  SerialInv'
<1> TypeOK
  BY DEF SerialInv, IInv
<1>1. UNCHANGED <<account, codes>>
  BY DEF Arrive, RegisterFind, ResendFind, InfoGet, LoginLoad, VerifyFind
<1>2. ASSUME NEW p \in Phones, RegisterFind(r, p) PROVE ReqSerial(r)'
  BY <1>1, <1>2, OneMoves DEF RegisterFind, ReqSerial
<1>3. ASSUME NEW u \in Users, ResendFind(r, u) \/ InfoGet(r, u) \/ LoginLoad(r, u)
      PROVE  ReqSerial(r)'
  BY <1>1, <1>3, OneMoves DEF ResendFind, InfoGet, LoginLoad, ReqSerial, CodesOf
<1>4. ASSUME NEW u \in Users, NEW c \in Codes, VerifyFind(r, u, c) PROVE ReqSerial(r)'
  BY <1>4, OneMoves DEF VerifyFind, ReqSerial
<1> QED BY <1>1, <1>2, <1>3, <1>4, SerialMove DEF Arrive

LEMMA SerialProceed ==
  ASSUME Serial, SerialInv, IInv', NEW r \in Requests, Proceed(r)
  PROVE  SerialInv'
<1> TypeOK /\ IInv /\ ReqSerial(r) /\ req[r] \in ReqStates
  BY DEF SerialInv, IInv, TypeOK
<1>1. CASE RegisterSave(r)
  <2>1. PICK u \in Users :
          /\ ~Known(u)
          /\ account' = [account EXCEPT ![u] = [phone |-> req[r].phone, verified |-> FALSE]]
          /\ Goto(r, [pc |-> "sms", op |-> "register", user |-> u])
    BY <1>1 DEF RegisterSave
  <2>2. codes' = codes /\ req[r].pc = "reg_save"
    BY <1>1 DEF RegisterSave
  <2>3. account'[u].phone = req[r].phone /\ \A v \in Users : v # u => account'[v] = account[v]
    BY <2>1 DEF TypeOK
  <2>4. PhoneUnique'
    BY <2>2, <2>3 DEF PhoneUnique, SerialInv, Known, ReqSerial
  <2>5. CodesOf(u) = {}
    BY <2>1 DEF IInv, CodesBacked, CodesOf
  <2>6. ReqSerial(r)'
    <3>1. req'[r].pc = "sms" /\ req'[r].user = u
      BY <2>1, OneMoves
    <3> QED BY <2>2, <2>5, <3>1 DEF ReqSerial, CodesOf
  <2>7. \A s \in Requests : ReqSerial(s)'
    BY <2>6 DEF Serial
  <2> QED BY <2>2, <2>4, <2>7, FewerCodes DEF SerialInv
<1>2. CASE OtpSave(r)
  <2>1. PICK id \in RowIds :
          /\ codes' = codes \cup {[id |-> id, user |-> req[r].user,
                                   code |-> req[r].code, left |-> OtpTTL]}
          /\ Goto(r, [pc |-> "add_job", op |-> req[r].op, user |-> req[r].user, row |-> id])
    BY <1>2 DEF OtpSave
  <2>2. account' = account /\ CodesOf(req[r].user) = {}
    BY <1>2 DEF OtpSave, ReqSerial
  <2>3. OneCodePerUser'
    BY <2>1, <2>2 DEF OneCodePerUser, SerialInv, CodesOf
  <2>4. ReqSerial(r)'
    BY <2>1, OneMoves DEF ReqSerial
  <2>5. \A s \in Requests : ReqSerial(s)'
    BY <2>4 DEF Serial
  <2> QED BY <2>2, <2>3, <2>5 DEF SerialInv, PhoneUnique, Known
<1>3. CASE VerifyUpdate(r) \/ LoginSaveUser(r)
  <2>1. codes' = codes /\ req'[r].pc \in {"verify_get", "idle"}
    BY <1>3, OneMoves DEF VerifyUpdate, LoginSaveUser, Idle
  <2>2. \A s \in Requests : ReqSerial(s)'
    BY <2>1 DEF Serial, ReqSerial
  <2>3. PICK u \in Users, b \in BOOLEAN : account' = [account EXCEPT ![u].verified = b]
    BY <1>3, ReqShape DEF VerifyUpdate, LoginSaveUser
  <2>4. ASSUME NEW v \in Users
        PROVE  (Known(v)' => Known(v)) /\ (Known(v) => account'[v].phone = account[v].phone)
    <3>1. account[v] \in Accounts \cup {NoAccount}
      BY DEF TypeOK
    <3> DEFINE row == [account[u] EXCEPT !.verified = b]
    <3>2. account' = [account EXCEPT ![u] = row]
      BY <2>3
    <3>3. account'[v] = IF v = u THEN row ELSE account[v]
      BY <3>2, Zenon DEF TypeOK
    <3>4. CASE v = u /\ account[u] = NoAccount
      BY <3>3, <3>4, SetVerified DEF Known
    <3>5. CASE v = u /\ account[u] # NoAccount
      BY <3>1, <3>3, <3>5, SetVerified DEF Known
    <3> HIDE DEF row
    <3> QED BY <3>3, <3>4, <3>5 DEF Known
  <2>5. PhoneUnique'
    BY <2>4 DEF PhoneUnique, SerialInv
  <2> QED BY <2>1, <2>2, <2>5, FewerCodes DEF SerialInv
<1>4. CASE SmsSent(r) \/ ResendUser(r)
  <2>1. UNCHANGED <<account, codes>> /\ CodesOf(req[r].user) = {}
    BY <1>4 DEF SmsSent, ResendUser, ReqSerial
  <2>2. \/ req'[r].pc = "idle"
        \/ req'[r].pc \in {"sms", "otp_save"} /\ req'[r].user = req[r].user
    <3>1. CASE SmsSent(r)
      <4>1. PICK c \in Codes : Goto(r, [pc |-> "otp_save", op |-> req[r].op,
                                        user |-> req[r].user, code |-> c])
        BY <3>1 DEF SmsSent
      <4> QED BY <4>1, OneMoves
    <3>2. CASE ResendUser(r)
      BY <3>2, OneMoves DEF ResendUser, Idle
    <3> QED BY <1>4, <3>1, <3>2
  <2>3. ReqSerial(r)'
    BY <2>1, <2>2 DEF ReqSerial, CodesOf
  <2> QED BY <2>1, <2>3, SerialMove
<1>5. CASE AddJob(r) \/ RegisterCache(r) \/ VerifyDelete(r) \/ VerifyCacheGet(r)
             \/ VerifyCacheSet(r) \/ InfoDb(r) \/ InfoSet(r)
  <2>1. account' = account /\ codes' \subseteq codes
    BY <1>5 DEF AddJob, RegisterCache, VerifyDelete, VerifyCacheGet, VerifyCacheSet, InfoDb,
       InfoSet
  <2>2. req'[r].pc \in {"idle", "reg_cache", "verify_update", "verify_set", "info_set"}
    <3>1. CASE AddJob(r)
      BY <3>1, OneMoves DEF AddJob, Idle
    <3>2. CASE RegisterCache(r) \/ VerifyCacheSet(r) \/ InfoSet(r)
      <4>1. Goto(r, Idle)
        BY <3>2 DEF RegisterCache, VerifyCacheSet, InfoSet
      <4> QED BY <4>1, OneMoves DEF Idle
    <3>3. CASE VerifyDelete(r)
      BY <3>3, OneMoves DEF VerifyDelete
    <3>4. CASE VerifyCacheGet(r)
      BY <3>4, OneMoves DEF VerifyCacheGet, Idle
    <3>5. CASE InfoDb(r)
      BY <3>5, OneMoves DEF InfoDb, Idle
    <3> QED BY <1>5, <3>1, <3>2, <3>3, <3>4, <3>5
  <2>3. ReqSerial(r)'
    BY <2>2 DEF ReqSerial
  <2> QED BY <2>1, <2>3, SerialMove
<1> QED BY <1>1, <1>2, <1>3, <1>4, <1>5 DEF Proceed

LEMMA SerialStep ==
  ASSUME Serial
  PROVE  SerialInv /\ [Next]_vars => SerialInv'
<1> SUFFICES ASSUME SerialInv, [Next]_vars PROVE SerialInv'
  OBVIOUS
<1>0. IInv' /\ TypeOK
  BY IInvStep DEF SerialInv, IInv
<1>1. ASSUME NEW r \in Requests, SmsRejected(r) \/ AddJobFails(r) \/ Fail(r)
      PROVE  SerialInv'
  <2>1. UNCHANGED <<account, codes>> /\ req'[r] = Idle
    BY <1>0, <1>1, OneMoves DEF SmsRejected, AddJobFails, Fail
  <2>2. ReqSerial(r)'
    BY <2>1 DEF ReqSerial, Idle
  <2> QED BY <1>0, <2>1, <2>2, SerialMove
<1>2. ASSUME codes' \subseteq codes, UNCHANGED <<account, req>> PROVE SerialInv'
  <2>1. ASSUME NEW r \in Requests PROVE ReqSerial(r)'
    <3>1. req[r] \in ReqStates /\ ReqSerial(r)
      BY <1>0 DEF TypeOK, SerialInv
    <3>2. req[r].pc \in {"resend_user", "sms", "otp_save"} => req[r].user \in Users
      BY <3>1, ReqShape
    <3> QED BY <1>2, <3>1, <3>2, FewerCodes DEF ReqSerial
  <2> QED BY <1>0, <1>2, <2>1, FewerCodes DEF SerialInv, PhoneUnique, Known
<1>3. ASSUME NEW j \in jobs, HandleJob(j) \/ HandleJobFails(j) PROVE SerialInv'
  BY <1>2, <1>3 DEF HandleJob, HandleJobFails
<1>4. CASE Tick
  <2>1. codes' = {[c EXCEPT !.left = Less(c.left)] : c \in codes} /\ UNCHANGED <<account, req>>
    BY <1>4 DEF Tick
  <2>2. \A c \in codes : [c EXCEPT !.left = Less(c.left)].user = c.user
    BY <1>0 DEF TypeOK, CodeRows
  <2>3. OneCodePerUser'
    <3>1. ASSUME NEW c \in codes', NEW d \in codes', c.user = d.user PROVE c = d
      <4>1. PICK e \in codes, f \in codes :
              c = [e EXCEPT !.left = Less(e.left)] /\ d = [f EXCEPT !.left = Less(f.left)]
        BY <2>1
      <4>2. e = f
        BY <2>2, <3>1, <4>1 DEF SerialInv, OneCodePerUser
      <4> QED BY <4>1, <4>2
    <3> QED BY <3>1 DEF OneCodePerUser
  <2>4. \A u : CodesOf(u) = {} => CodesOf(u)' = {}
    BY <2>1, <2>2 DEF CodesOf
  <2>5. \A r \in Requests : ReqSerial(r)'
    BY <2>1, <2>4 DEF SerialInv, ReqSerial
  <2> QED BY <1>0, <2>1, <2>3, <2>5 DEF SerialInv, PhoneUnique, Known
<1>5. CASE UNCHANGED vars
  BY <1>2, <1>5 DEF vars
<1> QED BY <1>0, <1>1, <1>3, <1>4, <1>5, SerialArrive, SerialProceed DEF Next

LEMMA SerialInit == Init => SerialInv
BY IInvInit DEF Init, SerialInv, OneCodePerUser, PhoneUnique, ReqSerial, Idle, Known

\* Served one at a time, requests never leave a user with two codes, ...
THEOREM OneCodeSerially ==
  ASSUME Serial
  PROVE  Spec => []OneCodePerUser
<1>1. SerialInv /\ [Next]_vars => SerialInv'
  BY SerialStep
<1>2. SerialInv => OneCodePerUser
  BY DEF SerialInv
<1> QED BY <1>1, <1>2, SerialInit, PTL DEF Spec

\* ... nor two users with the same phone, ...
THEOREM PhoneUniqueSerially ==
  ASSUME Serial
  PROVE  Spec => []PhoneUnique
<1>1. SerialInv /\ [Next]_vars => SerialInv'
  BY SerialStep
<1>2. SerialInv => PhoneUnique
  BY DEF SerialInv
<1> QED BY <1>1, <1>2, SerialInit, PTL DEF Spec

\* ... nor a user who has been verified unverified.
THEOREM VerifiedStaysSerially ==
  ASSUME Serial
  PROVE  Spec => VerifiedStays
<1> DEFINE Step == \A u \in Users : Known(u) /\ account[u].verified => account'[u].verified
<1>1. SerialInv /\ [Next]_vars => SerialInv'
  BY SerialStep
<1>2. SerialInv /\ [Next]_vars => [Step]_vars
  <2> SUFFICES ASSUME SerialInv, Next, NEW u \in Users, Known(u), account[u].verified
               PROVE  account'[u].verified
    OBVIOUS
  <2>0. TypeOK /\ account[u] \in Accounts
    BY DEF SerialInv, IInv, TypeOK, Known
  <2>1. ASSUME NEW r \in Requests, RegisterSave(r) PROVE account'[u] = account[u]
    BY <2>0, <2>1 DEF RegisterSave, TypeOK
  <2>2. ASSUME NEW r \in Requests, VerifyUpdate(r) \/ LoginSaveUser(r)
        PROVE  account'[u].verified
    <3>1. PICK v \in Users, b \in BOOLEAN :
            account' = [account EXCEPT ![v].verified = b] /\ (v = u => b = TRUE)
      <4>1. req[r] \in ReqStates /\ ReqSerial(r)
        BY <2>0 DEF TypeOK, SerialInv
      <4> QED BY <2>2, <4>1, ReqShape DEF VerifyUpdate, LoginSaveUser, ReqSerial
    <3> DEFINE row == [account[v] EXCEPT !.verified = b]
    <3>2. account' = [account EXCEPT ![v] = row]
      BY <3>1
    <3>3. account'[u] = IF u = v THEN row ELSE account[u]
      BY <2>0, <3>2, Zenon DEF TypeOK
    <3>4. CASE u = v
      BY <2>0, <3>1, <3>3, <3>4, SetVerified
    <3> QED BY <3>3, <3>4
  <2>3. ASSUME account' = account PROVE account'[u].verified
    BY <2>3
  <2>4. ASSUME NEW r \in Requests, Proceed(r), ~RegisterSave(r), ~VerifyUpdate(r),
               ~LoginSaveUser(r)
        PROVE  account' = account
    BY <2>4 DEF Proceed, SmsSent, OtpSave, AddJob, RegisterCache, ResendUser, VerifyDelete,
       VerifyCacheGet, VerifyCacheSet, InfoDb, InfoSet
  <2>5. ASSUME NEW r \in Requests, Arrive(r) PROVE account' = account
    BY <2>5 DEF Arrive, RegisterFind, ResendFind, InfoGet, LoginLoad, VerifyFind
  <2>6. ASSUME NEW r \in Requests, SmsRejected(r) \/ AddJobFails(r) \/ Fail(r)
        PROVE  account' = account
    BY <2>6 DEF SmsRejected, AddJobFails, Fail
  <2>7. ASSUME NEW j \in jobs, HandleJob(j) \/ HandleJobFails(j) PROVE account' = account
    BY <2>7 DEF HandleJob, HandleJobFails
  <2>8. Tick => account' = account
    BY DEF Tick
  <2> QED BY <2>1, <2>2, <2>3, <2>4, <2>5, <2>6, <2>7, <2>8 DEF Next
<1> QED BY <1>1, <1>2, SerialInit, PTL DEF Spec, VerifiedStays
=============================================================================
