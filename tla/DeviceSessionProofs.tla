------------------------- MODULE DeviceSessionProofs -------------------------
(***************************************************************************)
(* Proofs about DeviceSession, for any users, devices, requests and times. *)
(***************************************************************************)
EXTENDS DeviceSession, TLAPS

USE TTLAssumption

\* What the program counter says of the rest of a request.
LEMMA ReqShape ==
  ASSUME NEW q \in ReqStates
  PROVE  /\ q.pc = "login_find" =>
              q.user \in Users /\ q.dev \in Devices
         /\ q.pc \in {"login_save", "login_user", "refresh_update", "refresh_reply"} =>
              q.new \in Rows /\ q.token \in AccessTokens
         /\ q.pc = "guard" => q.then \in Handlers
         /\ q.pc \in {"use_handler", "logout_find"} => q.at \in AccessTokens
         /\ q.pc = "refresh_find" => q.at \in AccessTokens /\ q.rt \in RefreshTokens
         /\ q.pc = "logout_delete" => q.dev \in Devices
BY DEF ReqStates, Handlers, Idle

LEMMA StateTypes ==
  /\ Idle \in ReqStates /\ Handlers \subseteq ReqStates
  /\ \A u \in Users, d \in Devices :
       [pc |-> "login_find", user |-> u, dev |-> d] \in ReqStates
  /\ \A pc \in {"login_save", "login_user", "refresh_update", "refresh_reply"},
       new \in Rows, token \in AccessTokens :
       [pc |-> pc, new |-> new, token |-> token] \in ReqStates
  /\ \A h \in Handlers : [pc |-> "guard", then |-> h] \in ReqStates
  /\ \A d \in Devices : [pc |-> "logout_delete", dev |-> d] \in ReqStates
BY DEF ReqStates

\* The credentials minted for a login or a refresh have their types.
LEMMA MintTypes ==
  ASSUME TypeOK, minted < MaxMints, NEW u \in Users, NEW d \in Devices
  PROVE  /\ minted + 1 \in Secrets
         /\ NewAccess(u, d) \in AccessTokens
         /\ NewRefresh(u, d) \in RefreshTokens
<1>1. minted + 1 \in Secrets /\ now \in Nat
  BY DEF TypeOK, Secrets
<1> QED BY <1>1 DEF NewAccess, NewRefresh, AccessTokens, RefreshTokens

LEMMA RekeyType ==
  ASSUME NEW row \in Rows, NEW s \in Secrets, NEW t \in RefreshTokens
  PROVE  Rekey(row, s, t) \in Rows
BY DEF Rekey, Rows

\* A commit of well-typed rows keeps the table and the history well typed.
LEMMA CommitTypes ==
  ASSUME TypeOK, NEW rows \in SUBSET Rows, Commit(rows)
  PROVE  devices' \subseteq Rows /\ revoked' \subseteq Secrets
<1>1. SecretsIn(devices) \subseteq Secrets
  BY DEF TypeOK, SecretsIn, Rows
<1> QED BY <1>1 DEF TypeOK, Commit

LEMMA TypeInit == Init => TypeOK
BY StateTypes DEF Init, TypeOK

LEMMA TypeStep == TypeOK /\ [Next]_vars => TypeOK'
<1> SUFFICES ASSUME TypeOK, [Next]_vars PROVE TypeOK'
  OBVIOUS
<1> USE DEF TypeOK
<1>1. ASSUME NEW r \in Requests, NEW u \in Users, NEW d \in Devices, LoginStart(r, u, d)
      PROVE  TypeOK'
  BY <1>1, StateTypes DEF LoginStart, Goto
<1>2. ASSUME NEW r \in Requests, LoginFind(r) PROVE TypeOK'
  <2>1. req[r].user \in Users /\ req[r].dev \in Devices /\ minted < MaxMints
    BY <1>2, ReqShape DEF LoginFind
  <2>2. PICK id \in IdsFor(req[r].dev) :
          Goto(r, [pc |-> "login_save", new |-> NewRow(id, req[r].user, req[r].dev),
                   token |-> NewAccess(req[r].user, req[r].dev)])
    BY <1>2 DEF LoginFind
  <2>3. id \in Secrets
    BY <2>1, MintTypes DEF IdsFor, RowsOf, Rows
  <2>4. NewRow(id, req[r].user, req[r].dev) \in Rows
    BY <2>1, <2>3, MintTypes DEF NewRow, Rows
  <2>5. req' \in [Requests -> ReqStates]
    BY <2>1, <2>2, <2>4, MintTypes, StateTypes DEF Goto
  <2> QED BY <1>2, <2>1, <2>5 DEF LoginFind
<1>3. ASSUME NEW r \in Requests, LoginSave(r) PROVE TypeOK'
  <2>1. req[r].new \in Rows /\ req[r].token \in AccessTokens
    BY <1>3, ReqShape DEF LoginSave
  <2>2. devices' \subseteq Rows /\ revoked' \subseteq Secrets
    BY <1>3, <2>1, CommitTypes DEF LoginSave
  <2> QED BY <1>3, <2>1, <2>2, StateTypes DEF LoginSave, Goto
<1>4. ASSUME NEW r \in Requests, Reply(r) PROVE TypeOK'
  <2>1. req[r].new.refresh \in RefreshTokens /\ req[r].token \in AccessTokens
    BY <1>4, ReqShape DEF Reply, Rows
  <2> QED BY <1>4, <2>1, StateTypes DEF Reply, Goto
<1>5. ASSUME NEW r \in Requests, NEW h \in Handlers, GuardStart(r, h) PROVE TypeOK'
  BY <1>5, StateTypes DEF GuardStart, Goto
<1>6. ASSUME NEW r \in Requests, GuardAdmit(r) PROVE TypeOK'
  <2>1. req[r].then \in ReqStates
    BY <1>6, ReqShape, StateTypes DEF GuardAdmit
  <2> QED BY <1>6, <2>1 DEF GuardAdmit, Goto
<1>7. ASSUME NEW r \in Requests, GuardRefuse(r) \/ UseHandler(r) \/ RefreshRefuse(r)
      PROVE  TypeOK'
  BY <1>7, StateTypes DEF GuardRefuse, UseHandler, RefreshRefuse, Goto
<1>8. ASSUME NEW r \in Requests, LogoutFind(r) PROVE TypeOK'
  <2>1. req[r].at.dev \in Devices
    BY <1>8, ReqShape DEF LogoutFind, AccessTokens
  <2> QED BY <1>8, <2>1, StateTypes DEF LogoutFind, Goto
<1>9. ASSUME NEW r \in Requests, LogoutDelete(r) PROVE TypeOK'
  <2>1. devices' \subseteq Rows /\ revoked' \subseteq Secrets
    BY <1>9, CommitTypes DEF LogoutDelete
  <2> QED BY <1>9, <2>1, StateTypes DEF LogoutDelete, Goto
<1>10. ASSUME NEW r \in Requests, RefreshFind(r) PROVE TypeOK'
  <2>1. PICK row \in RowsOf(req[r].at.dev) :
          Goto(r, [pc |-> "refresh_update",
                   new |-> Rekey(row, minted + 1, NewRefresh(row.user, row.dev)),
                   token |-> NewAccess(row.user, row.dev)])
    BY <1>10 DEF RefreshFind
  <2>2. row \in Rows /\ row.user \in Users /\ row.dev \in Devices
    BY DEF RowsOf, Rows
  <2>3. /\ Rekey(row, minted + 1, NewRefresh(row.user, row.dev)) \in Rows
        /\ NewAccess(row.user, row.dev) \in AccessTokens /\ minted + 1 \in Secrets
    BY <1>10, <2>2, MintTypes, RekeyType DEF RefreshFind
  <2> QED BY <1>10, <2>1, <2>3, StateTypes DEF RefreshFind, Goto, Secrets
<1>11. ASSUME NEW r \in Requests, RefreshUpdate(r) PROVE TypeOK'
  <2>1. req[r].new \in Rows /\ req[r].token \in AccessTokens
    BY <1>11, ReqShape DEF RefreshUpdate
  <2>2. req[r].new.secret \in Secrets /\ req[r].new.refresh \in RefreshTokens
    BY <2>1 DEF Rows
  <2>3. devices' \subseteq Rows /\ revoked' \subseteq Secrets
    <3>1. {IF x.dev = req[r].new.dev THEN Rekey(x, req[r].new.secret, req[r].new.refresh)
           ELSE x : x \in devices} \in SUBSET Rows
      BY <2>2, RekeyType
    <3> QED BY <1>11, <3>1, CommitTypes DEF RefreshUpdate
  <2> QED BY <1>11, <2>1, <2>3, StateTypes DEF RefreshUpdate, Goto
<1>12. ASSUME NEW r \in Requests, Fail(r) PROVE TypeOK'
  <2>1. CookieOf(r) \subseteq RefreshTokens
    BY ReqShape DEF CookieOf, Rows
  <2> QED BY <1>12, <2>1, StateTypes DEF Fail, Goto
<1>13. CASE Tick
  BY <1>13 DEF Tick
<1>14. CASE UNCHANGED vars
  BY <1>14 DEF vars
<1>15. ASSUME NEW r \in Requests, Guard(r) PROVE TypeOK'
  <2>1. ASSUME NEW at \in access, NEW pc \in {"use_handler", "logout_find"},
               GuardStart(r, [pc |-> pc, at |-> at])
        PROVE  TypeOK'
    BY <2>1, <1>5 DEF Handlers
  <2>2. ASSUME NEW at \in access, NEW rt \in refresh,
               GuardStart(r, [pc |-> "refresh_find", at |-> at, rt |-> rt])
        PROVE  TypeOK'
    BY <2>2, <1>5 DEF Handlers
  <2> QED BY <1>15, <1>6, <1>7, <2>1, <2>2 DEF Guard
<1> QED
  BY <1>1, <1>2, <1>3, <1>4, <1>7, <1>8, <1>9, <1>10, <1>11, <1>12, <1>13, <1>14, <1>15
  DEF Next, Login, Logout, Refresh

\* Every reachable state has the types TypeOK gives.
THEOREM TypeCorrect == Spec => []TypeOK
  BY TypeInit, TypeStep, PTL DEF Spec

-----------------------------------------------------------------------------
(* Secrets.  A step leaves them alone, or draws one, or publishes one. *)

\* No secret is drawn or committed; a request may give up the one it holds.
Quiet ==
  /\ LiveSecrets' = LiveSecrets /\ revoked' = revoked /\ minted' = minted
  /\ \A q \in Requests : Pending(q)' \subseteq Pending(q)

Draws(r) ==
  /\ LiveSecrets' = LiveSecrets /\ revoked' = revoked /\ minted' = minted + 1
  /\ Pending(r)' = {minted + 1}
  /\ \A q \in Requests \ {r} : Pending(q)' = Pending(q)

\* The table is committed with no secret but its own and that of r.
Publishes(r) ==
  /\ LiveSecrets' \subseteq LiveSecrets \cup Pending(r)
  /\ revoked' = revoked \cup (LiveSecrets \ LiveSecrets')
  /\ minted' = minted
  /\ Pending(r)' = {}
  /\ \A q \in Requests \ {r} : Pending(q)' = Pending(q)

\* A request that moves to a state without a secret gives up its own.
LEMMA GotoQuiet ==
  ASSUME TypeOK, NEW r \in Requests, NEW state, Goto(r, state),
         state.pc \notin {"login_save", "refresh_update"}
  PROVE  Pending(r)' = {} /\ \A q \in Requests \ {r} : Pending(q)' = Pending(q)
BY DEF TypeOK, Goto, Pending

LEMMA GotoDraws ==
  ASSUME TypeOK, NEW r \in Requests, NEW state, Goto(r, state),
         state.pc \in {"login_save", "refresh_update"}
  PROVE  /\ Pending(r)' = {state.new.secret}
         /\ \A q \in Requests \ {r} : Pending(q)' = Pending(q)
BY DEF TypeOK, Goto, Pending

LEMMA StepKinds ==
  ASSUME TypeOK, [Next]_vars
  PROVE  Quiet \/ \E r \in Requests : Draws(r) \/ Publishes(r)
<1>1. ASSUME NEW r \in Requests, NEW state, Goto(r, state), 
             UNCHANGED <<devices, revoked, minted>>,
             state.pc \notin {"login_save", "refresh_update"}
      PROVE  Quiet
  <2>1. \A q \in Requests : Pending(q)' \subseteq Pending(q)
    BY <1>1, GotoQuiet
  <2> QED BY <1>1, <2>1 DEF Quiet, LiveSecrets, SecretsIn
<1>2. ASSUME NEW r \in Requests, NEW u \in Users, NEW d \in Devices, LoginStart(r, u, d)
      PROVE  Quiet
  BY <1>1, <1>2 DEF LoginStart
<1>3. ASSUME NEW r \in Requests, LoginFind(r) PROVE Draws(r)
  <2>1. PICK id \in IdsFor(req[r].dev) :
          Goto(r, [pc |-> "login_save", new |-> NewRow(id, req[r].user, req[r].dev),
                   token |-> NewAccess(req[r].user, req[r].dev)])
    BY <1>3 DEF LoginFind
  <2>2. Pending(r)' = {minted + 1} /\ \A q \in Requests \ {r} : Pending(q)' = Pending(q)
    BY <2>1, GotoDraws DEF NewRow
  <2> QED BY <1>3, <2>2 DEF LoginFind, Draws, LiveSecrets, SecretsIn
<1>4. ASSUME NEW r \in Requests, LoginSave(r) PROVE Publishes(r)
  <2>1. Pending(r)' = {} /\ \A q \in Requests \ {r} : Pending(q)' = Pending(q)
    BY <1>4, GotoQuiet DEF LoginSave
  <2>2. Pending(r) = {req[r].new.secret}
    BY <1>4 DEF LoginSave, Pending
  <2> QED BY <1>4, <2>1, <2>2 DEF LoginSave, Publishes, Commit, LiveSecrets, SecretsIn
<1>5. ASSUME NEW r \in Requests, Reply(r) PROVE Quiet
  BY <1>1, <1>5 DEF Reply, Idle
<1>6. ASSUME NEW r \in Requests, NEW h, GuardStart(r, h) PROVE Quiet
  BY <1>1, <1>6 DEF GuardStart
<1>7. ASSUME NEW r \in Requests, GuardAdmit(r) PROVE Quiet
  <2>1. req[r].then \in Handlers
    BY <1>7, ReqShape DEF GuardAdmit, TypeOK
  <2>2. req[r].then.pc \notin {"login_save", "refresh_update"}
    BY <2>1 DEF Handlers
  <2> QED BY <1>1, <1>7, <2>2 DEF GuardAdmit
<1>8. ASSUME NEW r \in Requests,
             GuardRefuse(r) \/ UseHandler(r) \/ RefreshRefuse(r) \/ Fail(r)
      PROVE  Quiet
  BY <1>1, <1>8 DEF GuardRefuse, UseHandler, RefreshRefuse, Fail, Idle
<1>9. ASSUME NEW r \in Requests, LogoutFind(r) PROVE Quiet
  BY <1>1, <1>9 DEF LogoutFind, Idle
<1>10. ASSUME NEW r \in Requests, LogoutDelete(r) PROVE Publishes(r)
  <2>1. Pending(r)' = {} /\ \A q \in Requests \ {r} : Pending(q)' = Pending(q)
    BY <1>10, GotoQuiet DEF LogoutDelete, Idle
  <2> QED BY <1>10, <2>1 DEF LogoutDelete, Publishes, Commit, LiveSecrets, SecretsIn
<1>11. ASSUME NEW r \in Requests, RefreshFind(r) PROVE Draws(r)
  <2>1. PICK row \in RowsOf(req[r].at.dev) :
          Goto(r, [pc |-> "refresh_update",
                   new |-> Rekey(row, minted + 1, NewRefresh(row.user, row.dev)),
                   token |-> NewAccess(row.user, row.dev)])
    BY <1>11 DEF RefreshFind
  <2>2. Pending(r)' = {Rekey(row, minted + 1, NewRefresh(row.user, row.dev)).secret}
        /\ \A q \in Requests \ {r} : Pending(q)' = Pending(q)
    BY <2>1, GotoDraws
  <2>3. Pending(r)' = {minted + 1}
    BY <2>2 DEF Rekey
  <2> QED BY <1>11, <2>2, <2>3 DEF RefreshFind, Draws, LiveSecrets, SecretsIn
<1>12. ASSUME NEW r \in Requests, RefreshUpdate(r) PROVE Publishes(r)
  <2>1. Pending(r)' = {} /\ \A q \in Requests \ {r} : Pending(q)' = Pending(q)
    BY <1>12, GotoQuiet DEF RefreshUpdate
  <2>2. Pending(r) = {req[r].new.secret}
    BY <1>12 DEF RefreshUpdate, Pending
  <2>3. LiveSecrets' \subseteq LiveSecrets \cup Pending(r)
    BY <1>12, <2>2 DEF RefreshUpdate, Commit, LiveSecrets, SecretsIn, Rekey
  <2> QED BY <1>12, <2>1, <2>3 DEF RefreshUpdate, Publishes, Commit, LiveSecrets
<1>13. CASE Tick \/ UNCHANGED vars
  BY <1>13 DEF Tick, vars, Quiet, LiveSecrets, SecretsIn, Pending
<1>14. ASSUME NEW r \in Requests, Guard(r) PROVE Quiet
  BY <1>6, <1>7, <1>8, <1>14 DEF Guard
<1> QED
  BY <1>2, <1>3, <1>4, <1>5, <1>8, <1>9, <1>10, <1>11, <1>12, <1>13, <1>14
  DEF Next, Login, Logout, Refresh

\* What makes RevokedStaysRevoked inductive: all secrets in circulation were
\* drawn, no two requests hold the same one, and none that is in the table.
SecretsInv ==
  /\ LiveSecrets \cup revoked \subseteq 1 .. minted
  /\ LiveSecrets \cap revoked = {}
  /\ \A r \in Requests :
       /\ Pending(r) \subseteq 1 .. minted
       /\ Pending(r) \cap (LiveSecrets \cup revoked) = {}
  /\ \A r, q \in Requests : r # q => Pending(r) \cap Pending(q) = {}

LEMMA SecretsInit == Init => SecretsInv
BY DEF Init, SecretsInv, LiveSecrets, SecretsIn, Pending, Idle

LEMMA SecretsStep == TypeOK /\ SecretsInv /\ [Next]_vars => SecretsInv'
<1> SUFFICES ASSUME TypeOK, SecretsInv, [Next]_vars PROVE SecretsInv'
  OBVIOUS
<1>0. minted \in Nat
  BY DEF TypeOK
<1>1. CASE Quiet
  BY <1>1 DEF Quiet, SecretsInv
<1>2. ASSUME NEW r \in Requests, Draws(r) PROVE SecretsInv'
  BY <1>0, <1>2 DEF Draws, SecretsInv
<1>3. ASSUME NEW r \in Requests, Publishes(r) PROVE SecretsInv'
  BY <1>3 DEF Publishes, SecretsInv
<1> QED BY <1>1, <1>2, <1>3, StepKinds

THEOREM SecretsHold == Spec => []SecretsInv
  BY TypeCorrect, SecretsInit, SecretsStep, PTL DEF Spec

\* A secret put out of force never comes back, however requests overlap.
THEOREM RevokedForGood == Spec => []RevokedStaysRevoked
<1>1. SecretsInv => RevokedStaysRevoked
  BY DEF SecretsInv, RevokedStaysRevoked
<1> QED BY <1>1, SecretsHold, PTL

-----------------------------------------------------------------------------
(* The sessions implement CredentialLedger. *)

LEMMA LedgerInit == Init => Ledger!Init
BY DEF Init, Ledger!Init, StageOf, LiveSecrets, SecretsIn

\* A commit of the table is a commit of the ledger: what it brings in is unborn,
\* what it takes out is live.
LEMMA LedgerStep ==
  TypeOK /\ SecretsInv /\ [Next]_vars => [Ledger!Next]_[s \in Secrets |-> StageOf(s)]
<1> SUFFICES ASSUME TypeOK, SecretsInv, [Next]_vars
             PROVE  [Ledger!Next]_[s \in Secrets |-> StageOf(s)]
  OBVIOUS
<1>1. CASE Quiet
  <2>1. \A s \in Secrets : StageOf(s)' = StageOf(s)
    BY <1>1 DEF Quiet, StageOf
  <2> QED BY <2>1
<1>2. ASSUME NEW r \in Requests, Draws(r)
      PROVE  [Ledger!Next]_[s \in Secrets |-> StageOf(s)]
  <2>1. \A s \in Secrets : StageOf(s)' = StageOf(s)
    BY <1>2 DEF Draws, StageOf
  <2> QED BY <2>1
<1>3. ASSUME NEW r \in Requests, Publishes(r)
      PROVE  [Ledger!Next]_[s \in Secrets |-> StageOf(s)]
  <2> DEFINE born == {s \in Secrets : s \in LiveSecrets' /\ s \notin LiveSecrets}
             ended == {s \in Secrets : s \in LiveSecrets /\ s \notin LiveSecrets'}
  <2>1. \A s \in born : StageOf(s) = "unborn"
    BY <1>3 DEF Publishes, SecretsInv, StageOf
  <2>2. \A s \in ended : StageOf(s) = "live"
    BY DEF StageOf
  <2>3. \A s \in Secrets : StageOf(s)' = IF s \in born THEN "live"
                                         ELSE IF s \in ended THEN "dead" ELSE StageOf(s)
    BY <1>3 DEF Publishes, SecretsInv, StageOf
  <2>4. Ledger!Commit(born, ended)
    BY <2>1, <2>2, <2>3 DEF Ledger!Commit
  <2>5. born \in SUBSET Secrets /\ ended \in SUBSET Secrets
    OBVIOUS
  <2> QED BY <2>4, <2>5 DEF Ledger!Next
<1> QED BY <1>1, <1>2, <1>3, StepKinds

\* The device sessions keep the promise CredentialLedger makes of credentials.
THEOREM ImplementsLedger == Spec => LedgerSpec
  BY LedgerInit, LedgerStep, TypeCorrect, SecretsHold, PTL DEF Spec, LedgerSpec, Ledger!Spec

-----------------------------------------------------------------------------
(* Rows and logins *)

\* The table after a step: unchanged, or committed by one of three requests.
LEMMA TableSteps ==
  ASSUME TypeOK, [Next]_vars
  PROVE  \/ devices' = devices
         \/ \E r \in Requests : LoginSave(r) \/ LogoutDelete(r) \/ RefreshUpdate(r)
BY DEF Next, Login, LoginStart, LoginFind, Guard, GuardStart, GuardAdmit, GuardRefuse,
       UseHandler, Logout, LogoutFind, Refresh, RefreshFind, RefreshRefuse, Reply, Fail,
       Tick, vars

\* A logout is undone by nothing but a login.
THEOREM LogoutIsNotUndone == Spec => LogoutSticks
<1> DEFINE Sticks == \A d \in Devices : RowsOf(d) = {} /\ RowsOf(d)' # {} =>
             \E r \in Requests : req[r].pc = "login_save" /\ req[r].new.dev = d
<1>1. TypeOK /\ [Next]_vars => [Sticks]_vars
  <2> SUFFICES ASSUME TypeOK, [Next]_vars, NEW d \in Devices,
                      RowsOf(d) = {}, RowsOf(d)' # {}
               PROVE  \E r \in Requests : req[r].pc = "login_save" /\ req[r].new.dev = d
    OBVIOUS
  <2>1. CASE devices' = devices
    BY <2>1 DEF RowsOf
  <2>2. ASSUME NEW r \in Requests, LoginSave(r)
        PROVE  req[r].pc = "login_save" /\ req[r].new.dev = d
    BY <2>2 DEF LoginSave, Commit, RowsOf
  <2>3. ASSUME NEW r \in Requests, LogoutDelete(r) PROVE FALSE
    BY <2>3 DEF LogoutDelete, Commit, RowsOf
  <2>4. ASSUME NEW r \in Requests, RefreshUpdate(r) PROVE FALSE
    BY <2>4 DEF RefreshUpdate, Commit, RowsOf, Rekey
  <2> QED BY <2>1, <2>2, <2>3, <2>4, TableSteps
<1> QED BY <1>1, TypeCorrect, PTL DEF Spec, LogoutSticks

\* Rows, and the rows that logins are about to save, expire within a session's
\* length of the device's last login.
LoginTrace ==
  /\ \A d \in Devices : loginAt[d] <= now
  /\ \A x \in devices : x.exp <= loginAt[x.dev] + SessionTTL
  /\ \A r \in Requests : req[r].pc = "login_save" =>
       req[r].new.exp <= loginAt[req[r].new.dev] + SessionTTL

LEMMA TraceInit == Init => LoginTrace
BY DEF Init, LoginTrace, Idle

LEMMA TraceStep == TypeOK /\ LoginTrace /\ [Next]_vars => LoginTrace'
<1> SUFFICES ASSUME TypeOK, LoginTrace, [Next]_vars PROVE LoginTrace'
  OBVIOUS
<1>0. /\ now \in Nat /\ SessionTTL \in Nat
      /\ \A d \in Devices : loginAt[d] \in Nat
      /\ \A x \in Rows : x.dev \in Devices /\ x.exp \in Nat
      /\ devices \subseteq Rows
  BY DEF TypeOK, Rows
<1>1. \A r \in Requests : req[r].pc = "login_save" => req[r].new \in Rows
  BY ReqShape DEF TypeOK
\* Most steps move one request, and not to login_save.
<1>2. ASSUME NEW r \in Requests, NEW state, Goto(r, state), state.pc # "login_save",
             UNCHANGED <<now, devices, loginAt>>
      PROVE  LoginTrace'
  BY <1>2 DEF Goto, LoginTrace, TypeOK
<1>3. ASSUME NEW r \in Requests, LoginFind(r) PROVE LoginTrace'
  <2>1. req[r].user \in Users /\ req[r].dev \in Devices
    BY <1>3, ReqShape DEF LoginFind, TypeOK
  <2>2. PICK id \in IdsFor(req[r].dev) :
          Goto(r, [pc |-> "login_save", new |-> NewRow(id, req[r].user, req[r].dev),
                   token |-> NewAccess(req[r].user, req[r].dev)])
    BY <1>3 DEF LoginFind
  <2>3. /\ req'[r].new.dev = req[r].dev /\ req'[r].new.exp = now + SessionTTL
        /\ \A q \in Requests \ {r} : req'[q] = req[q]
    BY <2>2 DEF Goto, TypeOK, NewRow
  <2>4. /\ \A d \in Devices : loginAt[d] <= loginAt'[d] /\ loginAt'[d] <= now
        /\ loginAt'[req[r].dev] = now
        /\ now' = now /\ devices' = devices
    BY <1>0, <1>3, <2>1 DEF LoginFind, LoginTrace, TypeOK
  <2>5. \A d \in Devices : loginAt'[d] \in Nat
    BY <1>0, <1>3, <2>1 DEF LoginFind, TypeOK
  <2>6. \A x \in devices' : x.exp <= loginAt'[x.dev] + SessionTTL
    BY <1>0, <2>4, <2>5 DEF LoginTrace
  <2>7. ASSUME NEW q \in Requests, req'[q].pc = "login_save"
        PROVE  req'[q].new.exp <= loginAt'[req'[q].new.dev] + SessionTTL
    <3>1. CASE q = r
      BY <3>1, <1>0, <2>3, <2>4
    <3>2. CASE q # r
      BY <3>2, <1>0, <1>1, <2>3, <2>4, <2>5, <2>7 DEF LoginTrace
    <3> QED BY <3>1, <3>2
  <2> QED BY <2>4, <2>6, <2>7 DEF LoginTrace
<1>4. ASSUME NEW r \in Requests, NEW state, Goto(r, state), state.pc # "login_save",
             UNCHANGED <<now, loginAt>>,
             \A x \in devices' :
               x.exp <= loginAt[x.dev] + SessionTTL
      PROVE  LoginTrace'
  BY <1>4 DEF Goto, LoginTrace, TypeOK
<1>5. ASSUME NEW r \in Requests, LoginSave(r) PROVE LoginTrace'
  <2>1. \A x \in devices' : x.exp <= loginAt[x.dev] + SessionTTL
    BY <1>5 DEF LoginSave, Commit, LoginTrace
  <2> QED BY <1>4, <1>5, <2>1 DEF LoginSave
<1>6. ASSUME NEW r \in Requests, LogoutDelete(r) PROVE LoginTrace'
  <2>1. \A x \in devices' : x.exp <= loginAt[x.dev] + SessionTTL
    BY <1>6 DEF LogoutDelete, Commit, LoginTrace
  <2> QED BY <1>4, <1>6, <2>1 DEF LogoutDelete, Idle
<1>7. ASSUME NEW r \in Requests, RefreshUpdate(r) PROVE LoginTrace'
  <2>1. \A x \in devices' : x.exp <= loginAt[x.dev] + SessionTTL
    BY <1>7 DEF RefreshUpdate, Commit, LoginTrace, Rekey
  <2> QED BY <1>4, <1>7, <2>1 DEF RefreshUpdate
<1>8. ASSUME NEW r \in Requests, RefreshFind(r) PROVE LoginTrace'
  BY <1>2, <1>8 DEF RefreshFind
<1>9. ASSUME NEW r \in Requests, GuardAdmit(r) PROVE LoginTrace'
  <2>1. req[r].then.pc # "login_save"
    BY <1>9, ReqShape DEF GuardAdmit, TypeOK, Handlers
  <2> QED BY <1>2, <1>9, <2>1 DEF GuardAdmit
<1>10. ASSUME NEW r \in Requests,
              Reply(r) \/ GuardRefuse(r) \/ UseHandler(r) \/ LogoutFind(r)
                \/ RefreshRefuse(r) \/ Fail(r)
       PROVE  LoginTrace'
  BY <1>2, <1>10 DEF Reply, GuardRefuse, UseHandler, LogoutFind, RefreshRefuse, Fail, Idle
<1>11. ASSUME NEW r \in Requests, NEW h, GuardStart(r, h) PROVE LoginTrace'
  BY <1>2, <1>11 DEF GuardStart
<1>12. ASSUME NEW r \in Requests, NEW u \in Users, NEW d \in Devices, LoginStart(r, u, d)
       PROVE  LoginTrace'
  BY <1>2, <1>12 DEF LoginStart
<1>13. CASE Tick
  BY <1>0, <1>13 DEF Tick, LoginTrace
<1>14. CASE UNCHANGED vars
  BY <1>14 DEF vars, LoginTrace
<1>15. ASSUME NEW r \in Requests, Guard(r) PROVE LoginTrace'
  BY <1>9, <1>10, <1>11, <1>15 DEF Guard
<1> QED
  BY <1>3, <1>5, <1>6, <1>7, <1>8, <1>10, <1>12, <1>13, <1>14, <1>15
  DEF Next, Login, Logout, Refresh

\* No chain of refreshes outlives a day from the last login on the device.
THEOREM NoAdmissionAfterADay == Spec => AdmittedWithinADay
<1> DEFINE Within == \A r \in Requests :
             req[r].pc = "guard" /\ req'[r].pc \notin {"guard", "idle"} =>
               now <= loginAt[req[r].then.at.dev] + SessionTTL
<1>1. TypeOK /\ LoginTrace /\ [Next]_vars => [Within]_vars
  <2> SUFFICES ASSUME TypeOK, LoginTrace, [Next]_vars, NEW r \in Requests,
                      req[r].pc = "guard", req'[r].pc \notin {"guard", "idle"}
               PROVE  now <= loginAt[req[r].then.at.dev] + SessionTTL
    OBVIOUS
  <2>0. req \in [Requests -> ReqStates] /\ req'[r] # req[r]
    BY DEF TypeOK
  <2>1. GuardAdmit(r)
    <3>1. ASSUME NEW q \in Requests, NEW state, Goto(q, state) PROVE q = r /\ req'[r] = state
      BY <2>0, <3>1 DEF Goto
    <3>2. ASSUME NEW q \in Requests, Login(q) \/ Reply(q) \/ Logout(q) \/ Refresh(q)
          PROVE  FALSE
      <4>1. q = r
        BY <3>1, <3>2 DEF Login, LoginStart, LoginFind, LoginSave, Reply, Logout, LogoutFind,
               LogoutDelete, Refresh, RefreshFind, RefreshRefuse, RefreshUpdate
      <4>2. req[q].pc = "guard" /\ req[q] # Idle
        BY <4>1 DEF Idle
      <4>3. ~Login(q) /\ ~Reply(q)
        BY <4>2 DEF Login, LoginStart, LoginFind, LoginSave, Reply
      <4>4. ~Logout(q) /\ ~Refresh(q)
        BY <4>2 DEF Logout, LogoutFind, LogoutDelete, Refresh, RefreshFind, RefreshRefuse,
               RefreshUpdate
      <4> QED BY <3>2, <4>3, <4>4
    <3>3. ASSUME NEW q \in Requests, Fail(q) PROVE FALSE
      BY <3>1, <3>3 DEF Fail, Idle
    <3>4. ASSUME NEW q \in Requests, Guard(q) PROVE GuardAdmit(r)
      <4>1. ASSUME NEW h, GuardStart(q, h) PROVE FALSE
        BY <3>1, <4>1 DEF GuardStart, Idle
      <4>2. ASSUME GuardRefuse(q) \/ UseHandler(q) PROVE FALSE
        BY <3>1, <4>2 DEF GuardRefuse, UseHandler, Idle
      <4>3. ASSUME GuardAdmit(q) PROVE GuardAdmit(r)
        BY <3>1, <4>3 DEF GuardAdmit
      <4> QED BY <3>4, <4>1, <4>2, <4>3 DEF Guard
    <3>5. ~Tick /\ ~UNCHANGED vars
      BY <2>0 DEF Tick, vars
    <3> QED BY <3>2, <3>3, <3>4, <3>5 DEF Next
  <2>2. PICK row \in RowsOf(req[r].then.at.dev) : Verifies(req[r].then.at, row)
    BY <2>1 DEF GuardAdmit
  <2>3. req[r].then \in Handlers
    BY ReqShape DEF TypeOK
  <2>4. req[r].then.at.dev \in Devices
    BY <2>3 DEF Handlers, AccessTokens
  <2>5. row.exp \in Nat /\ now \in Nat /\ loginAt[req[r].then.at.dev] \in Nat
    BY <2>4 DEF RowsOf, TypeOK, Rows
  <2> QED BY <2>2, <2>5 DEF Verifies, LoginTrace, RowsOf
<1>2. Spec => []LoginTrace
  BY TypeCorrect, TraceInit, TraceStep, PTL DEF Spec
<1> QED BY <1>1, <1>2, TypeCorrect, PTL DEF Spec, AdmittedWithinADay

-----------------------------------------------------------------------------
(* One request at a time: the overlaps are what breaks the rest. *)

Serial == \A r, q \in Requests : r = q

\* A token signed with the secret of a row names the user of that row.
SpeaksFor(at, rows) ==
  \A row \in rows : row.dev = at.dev /\ row.secret = at.secret => row.user = at.user

\* What the request carries: a token for the row it saves or updates.
Matched(r) ==
  req[r].pc \in {"login_save", "login_user", "refresh_update", "refresh_reply"} =>
    /\ req[r].token.secret = req[r].new.secret /\ req[r].token.secret <= minted
    /\ req[r].token.dev = req[r].new.dev /\ req[r].token.user = req[r].new.user

\* What it has found when it was the only one still holds when it goes on.
ReqSerial(r) ==
  /\ Matched(r)
  /\ req[r].pc = "login_save" =>
       /\ req[r].new.id <= minted
       /\ \A x \in devices : x.dev = req[r].new.dev <=> x.id = req[r].new.id
  /\ req[r].pc = "refresh_update" =>
       \A x \in devices : x.dev = req[r].new.dev => x.user = req[r].new.user
  /\ req[r].pc \in {"login_user", "refresh_reply"} => SpeaksFor(req[r].token, devices)
  /\ req[r].pc \in {"login_save", "refresh_update"} =>
       \A at \in access : at.secret # req[r].new.secret

RowsApart ==
  /\ \A x \in devices : x.id <= minted
  /\ \A x, y \in devices : x.dev = y.dev \/ x.id = y.id => x = y

TokensSpeak == \A at \in access : at.secret <= minted /\ SpeaksFor(at, devices)

SerialInv == RowsApart /\ TokensSpeak /\ \A r \in Requests : ReqSerial(r)

\* The request that takes a step is in the state it goes to.
LEMMA OneMoves ==
  ASSUME TypeOK, NEW r \in Requests, NEW state, Goto(r, state)
  PROVE  req'[r] = state
BY DEF TypeOK, Goto

LEMMA NumbersAreNatural ==
  ASSUME TypeOK
  PROVE  /\ minted \in Nat
         /\ \A x \in devices : x.id \in Nat /\ x.secret \in Nat
         /\ \A at \in access : at.secret \in Nat
BY DEF TypeOK, Rows, AccessTokens, Secrets

\* The step of the one request to a state that has found nothing.
LEMMA SerialMove ==
  ASSUME Serial, TypeOK, SerialInv, NEW r \in Requests, NEW state, Goto(r, state),
         state.pc \notin {"login_save", "login_user", "refresh_update", "refresh_reply"},
         UNCHANGED <<devices, access, minted>>
  PROVE  SerialInv'
<1>1. ReqSerial(r)'
  BY OneMoves DEF ReqSerial, Matched
<1>2. \A q \in Requests : ReqSerial(q)'
  BY <1>1 DEF Serial
<1> QED BY <1>2 DEF SerialInv, RowsApart, TokensSpeak, SpeaksFor

LEMMA SerialLoginFind ==
  ASSUME Serial, TypeOK, SerialInv, NEW r \in Requests, LoginFind(r)
  PROVE  SerialInv'
<1> DEFINE d == req[r].dev
<1>1. PICK id \in IdsFor(d) :
        Goto(r, [pc |-> "login_save", new |-> NewRow(id, req[r].user, d),
                 token |-> NewAccess(req[r].user, d)])
  BY DEF LoginFind
<1>2. req'[r] = [pc |-> "login_save", new |-> NewRow(id, req[r].user, d),
                 token |-> NewAccess(req[r].user, d)]
  BY <1>1, OneMoves
<1>3. minted' = minted + 1 /\ devices' = devices /\ access' = access
  BY DEF LoginFind
<1>4. id <= minted + 1 /\ \A x \in devices : x.dev = d <=> x.id = id
  BY NumbersAreNatural DEF IdsFor, RowsOf, SerialInv, RowsApart
<1>5. Matched(r)'
  BY <1>2, <1>3, NumbersAreNatural DEF Matched, NewRow, NewAccess
<1>6. \A at \in access : at.secret # minted + 1
  BY NumbersAreNatural DEF SerialInv, TokensSpeak
<1>7. ReqSerial(r)'
  BY <1>2, <1>3, <1>4, <1>5, <1>6 DEF ReqSerial, NewRow
<1>8. \A q \in Requests : ReqSerial(q)'
  BY <1>7 DEF Serial
<1>9. RowsApart'
  BY <1>3, NumbersAreNatural DEF SerialInv, RowsApart
<1>10. TokensSpeak'
  BY <1>3, NumbersAreNatural DEF SerialInv, TokensSpeak, SpeaksFor
<1> QED BY <1>8, <1>9, <1>10 DEF SerialInv

LEMMA SerialLoginSave ==
  ASSUME Serial, TypeOK, SerialInv, NEW r \in Requests, LoginSave(r)
  PROVE  SerialInv'
<1> DEFINE new == req[r].new
<1>1. req'[r] = [pc |-> "login_user", new |-> new, token |-> req[r].token]
  BY OneMoves DEF LoginSave
<1>2. minted' = minted /\ access' = access
  BY DEF LoginSave
<1>3. devices' = {x \in devices : x.id # new.id} \cup {new}
  BY DEF LoginSave, Commit
<1>4. req[r].pc = "login_save" /\ ReqSerial(r)
  BY DEF LoginSave, SerialInv
<1>5. \A x \in devices' : x = new \/ (x \in devices /\ x.dev # new.dev /\ x.id # new.id)
  BY <1>3, <1>4 DEF ReqSerial
<1>6. RowsApart'
  BY <1>2, <1>4, <1>5 DEF SerialInv, RowsApart, ReqSerial
<1>7. TokensSpeak'
  BY <1>2, <1>4, <1>5 DEF SerialInv, TokensSpeak, SpeaksFor, ReqSerial
<1>8. SpeaksFor(req[r].token, devices')
  BY <1>4, <1>5 DEF SpeaksFor, ReqSerial, Matched
<1>9. ReqSerial(r)'
  BY <1>1, <1>2, <1>4, <1>8 DEF ReqSerial, Matched
<1>10. \A q \in Requests : ReqSerial(q)'
  BY <1>9 DEF Serial
<1> QED BY <1>6, <1>7, <1>10 DEF SerialInv

LEMMA SerialReply ==
  ASSUME Serial, TypeOK, SerialInv, NEW r \in Requests, Reply(r)
  PROVE  SerialInv'
<1>1. req'[r] = Idle /\ devices' = devices /\ minted' = minted
      /\ access' = access \cup {req[r].token}
  BY OneMoves DEF Reply
<1>2. SpeaksFor(req[r].token, devices) /\ req[r].token.secret <= minted
  BY DEF Reply, SerialInv, ReqSerial, Matched
<1>3. ReqSerial(r)'
  BY <1>1 DEF ReqSerial, Matched, Idle
<1>4. \A q \in Requests : ReqSerial(q)'
  BY <1>3 DEF Serial
<1>5. TokensSpeak'
  BY <1>1, <1>2 DEF SerialInv, TokensSpeak, SpeaksFor
<1> QED BY <1>1, <1>4, <1>5 DEF SerialInv, RowsApart

LEMMA SerialLogoutDelete ==
  ASSUME Serial, TypeOK, SerialInv, NEW r \in Requests, LogoutDelete(r)
  PROVE  SerialInv'
<1>1. req'[r] = Idle /\ devices' \subseteq devices /\ minted' = minted /\ access' = access
  BY OneMoves DEF LogoutDelete, Commit
<1>2. ReqSerial(r)'
  BY <1>1 DEF ReqSerial, Matched, Idle
<1>3. \A q \in Requests : ReqSerial(q)'
  BY <1>2 DEF Serial
<1> QED BY <1>1, <1>3 DEF SerialInv, RowsApart, TokensSpeak, SpeaksFor

\* The only row of the device is found: the update will meet it again.
LEMMA SerialRefreshFind ==
  ASSUME Serial, TypeOK, SerialInv, NEW r \in Requests, RefreshFind(r)
  PROVE  SerialInv'
<1>1. PICK row \in RowsOf(req[r].at.dev) :
        Goto(r, [pc |-> "refresh_update",
                 new |-> Rekey(row, minted + 1, NewRefresh(row.user, row.dev)),
                 token |-> NewAccess(row.user, row.dev)])
  BY DEF RefreshFind
<1> DEFINE new == Rekey(row, minted + 1, NewRefresh(row.user, row.dev))
<1>2. req'[r] = [pc |-> "refresh_update", new |-> new, token |-> NewAccess(row.user, row.dev)]
  BY <1>1, OneMoves
<1>3. new.secret = minted + 1 /\ new.dev = row.dev /\ new.user = row.user
  BY DEF Rekey
<1>4. minted' = minted + 1 /\ devices' = devices /\ access' = access
  BY DEF RefreshFind
<1>5. \A x \in devices : x.dev = row.dev => x.user = row.user
  BY DEF RowsOf, SerialInv, RowsApart
<1>6. Matched(r)'
  BY <1>2, <1>3, <1>4, NumbersAreNatural DEF Matched, NewAccess
<1>7. \A at \in access : at.secret # minted + 1
  BY NumbersAreNatural DEF SerialInv, TokensSpeak
<1>8. ReqSerial(r)'
  <2> HIDE DEF new
  <2> QED BY <1>2, <1>3, <1>4, <1>5, <1>6, <1>7 DEF ReqSerial
<1>9. \A q \in Requests : ReqSerial(q)'
  BY <1>8 DEF Serial
<1>10. RowsApart'
  BY <1>4, NumbersAreNatural DEF SerialInv, RowsApart
<1>11. TokensSpeak'
  BY <1>4, NumbersAreNatural DEF SerialInv, TokensSpeak, SpeaksFor
<1> QED BY <1>9, <1>10, <1>11 DEF SerialInv

LEMMA SerialRefreshUpdate ==
  ASSUME Serial, TypeOK, SerialInv, NEW r \in Requests, RefreshUpdate(r)
  PROVE  SerialInv'
<1> DEFINE new == req[r].new
           Updated(x) == IF x.dev = new.dev THEN Rekey(x, new.secret, new.refresh) ELSE x
<1>1. req'[r] = [pc |-> "refresh_reply", new |-> new, token |-> req[r].token]
  BY OneMoves DEF RefreshUpdate
<1>2. minted' = minted /\ access' = access
  BY DEF RefreshUpdate
<1>3. devices' = {Updated(x) : x \in devices}
  BY DEF RefreshUpdate, Commit
<1>4. req[r].pc = "refresh_update" /\ ReqSerial(r)
  BY DEF RefreshUpdate, SerialInv
<1>5. \A x \in devices :
        /\ Updated(x).id = x.id /\ Updated(x).dev = x.dev /\ Updated(x).user = x.user
        /\ x.dev = new.dev => Updated(x).secret = new.secret
        /\ x.dev # new.dev => Updated(x).secret = x.secret
  BY DEF Rekey
<1> HIDE DEF Updated
<1>6. RowsApart'
  BY <1>2, <1>3, <1>5 DEF SerialInv, RowsApart
<1>7. TokensSpeak'
  BY <1>2, <1>3, <1>4, <1>5 DEF SerialInv, TokensSpeak, SpeaksFor, ReqSerial
<1>8. SpeaksFor(req[r].token, devices')
  BY <1>3, <1>4, <1>5 DEF SpeaksFor, ReqSerial, Matched
<1>9. ReqSerial(r)'
  BY <1>1, <1>2, <1>4, <1>8 DEF ReqSerial, Matched
<1>10. \A q \in Requests : ReqSerial(q)'
  BY <1>9 DEF Serial
<1> QED BY <1>6, <1>7, <1>10 DEF SerialInv

LEMMA SerialGuard ==
  ASSUME Serial, TypeOK, SerialInv, NEW r \in Requests, Guard(r)
  PROVE  SerialInv'
<1>1. ASSUME NEW h, GuardStart(r, h) PROVE SerialInv'
  BY <1>1, SerialMove DEF GuardStart
<1>2. CASE GuardAdmit(r)
  <2>1. req[r].then \in Handlers
    BY <1>2, ReqShape DEF GuardAdmit, TypeOK
  <2>2. req[r].then.pc \in {"use_handler", "logout_find", "refresh_find"}
    BY <2>1 DEF Handlers
  <2> QED BY <1>2, <2>2, SerialMove DEF GuardAdmit
<1>3. CASE GuardRefuse(r) \/ UseHandler(r)
  BY <1>3, SerialMove DEF GuardRefuse, UseHandler, Idle
<1> QED BY <1>1, <1>2, <1>3 DEF Guard

LEMMA SerialStep == Serial /\ TypeOK /\ SerialInv /\ [Next]_vars => SerialInv'
<1> SUFFICES ASSUME Serial, TypeOK, SerialInv, [Next]_vars PROVE SerialInv'
  OBVIOUS
<1>1. ASSUME NEW r \in Requests, NEW u \in Users, NEW d \in Devices, LoginStart(r, u, d)
      PROVE  SerialInv'
  BY <1>1, SerialMove DEF LoginStart
<1>2. ASSUME NEW r \in Requests, LogoutFind(r) PROVE SerialInv'
  BY <1>2, SerialMove DEF LogoutFind, Idle
<1>3. ASSUME NEW r \in Requests, RefreshRefuse(r) \/ Fail(r) PROVE SerialInv'
  BY <1>3, SerialMove DEF RefreshRefuse, Fail, Idle
<1>4. CASE Tick \/ UNCHANGED vars
  <2>1. UNCHANGED <<devices, req, minted, access>>
    BY <1>4 DEF Tick, vars
  <2> QED BY <2>1 DEF SerialInv, RowsApart, TokensSpeak, SpeaksFor, ReqSerial, Matched
<1> QED
  BY <1>1, <1>2, <1>3, <1>4, SerialLoginFind, SerialLoginSave, SerialReply, SerialGuard,
     SerialLogoutDelete, SerialRefreshFind, SerialRefreshUpdate
  DEF Next, Login, Logout, Refresh

LEMMA SerialHolds == ASSUME Serial PROVE Spec => []SerialInv
<1>1. Init => SerialInv
  BY DEF Init, SerialInv, RowsApart, TokensSpeak, ReqSerial, Matched, Idle
<1>2. TypeOK /\ SerialInv /\ [Next]_vars => SerialInv'
  BY SerialStep
<1> QED BY <1>1, <1>2, TypeCorrect, PTL DEF Spec

\* When requests do not overlap, a device has one row at the most, whoever logs
\* in on it: the row findOne returned is the one that save updates.
THEOREM OneRowSerially == ASSUME Serial PROVE Spec => []OneRowPerDevice
<1>1. SerialInv => OneRowPerDevice
  BY DEF SerialInv, RowsApart, OneRowPerDevice
<1> QED BY <1>1, SerialHolds, PTL

\* And a token the guard would admit speaks for the user of the session's row,
\* also after another user has logged in on the device.
THEOREM OwnerSerially == ASSUME Serial PROVE Spec => []TokenSpeaksForOwner
<1>1. SerialInv => TokenSpeaksForOwner
  BY DEF SerialInv, TokensSpeak, SpeaksFor, TokenSpeaksForOwner, Verifies
<1> QED BY <1>1, SerialHolds, PTL
=============================================================================
