---------------------------- MODULE DeviceSession ----------------------------
(***************************************************************************)
(* The device sessions of src/auth/auth.service.ts and the guard that      *)
(* admits requests by them (src/guards/device.guard.ts).                   *)
(*                                                                         *)
(* Every handler is an async function: it runs without interruption        *)
(* between two awaits and may be overtaken at each.  An action below is    *)
(* one such stretch, ending with the database call that the next one       *)
(* awaits; req[r] is what request r carries across the await.  A device is *)
(* named by generateDeviceId (IP address and user agent), so several       *)
(* people may share one.  Clients may send any token ever sent to them.    *)
(* A definition marked "Mistake" is a wrong version of the next one, used  *)
(* only to see that a property would catch it.                             *)
(***************************************************************************)
EXTENDS Integers, FiniteSets

CONSTANTS Users, Devices,   \* user_id and device_id values
          Requests,         \* requests that can be in flight together
          AccessTTL,        \* TimeToLive.OneHour, life of an access token
          SessionTTL,       \* TimeToLive.OneDayMilliSeconds, expired_at
          RefreshTTL,       \* TimeToLive.OneWeek, life of a refresh token
          MaxMints,         \* bound: secrets drawn in a run
          MaxTime           \* bound: the clock

ASSUME TTLAssumption ==
  /\ AccessTTL \in Nat /\ SessionTTL \in Nat /\ RefreshTTL \in Nat
  /\ MaxMints \in Nat /\ MaxTime \in Nat

VARIABLES now,        \* Date.now()
          devices,    \* rows of table AUTH.device
          req,        \* requests in flight
          minted,     \* secrets drawn so far (uuids, numbered)
          access,     \* access tokens sent to clients
          refresh,    \* refresh tokens sent to clients
          revoked,    \* history: secrets that have left the table
          loginAt     \* history: when a login last drew a secret for a device

vars == <<now, devices, req, minted, access, refresh, revoked, loginAt>>

Secrets == 1 .. MaxMints

\* generateAccessToken: signed with the row's secret_key.
AccessTokens == [user : Users, dev : Devices, secret : Secrets, exp : Nat]
\* generateRefreshToken: no nonce, so two minted in the same second are equal.
RefreshTokens == [user : Users, dev : Devices, exp : Nat]

\* DeviceEntity; id is a random uuid, numbered by the secret drawn with it.
Rows == [id : Secrets, user : Users, dev : Devices, secret : Secrets,
         refresh : RefreshTokens, exp : Nat]

\* A request in flight, by the await it is suspended at.
Idle == [pc |-> "idle"]

\* The routes behind DeviceGuard: where their handlers start.
Handlers ==
       [pc : {"use_handler", "logout_find"}, at : AccessTokens]
  \cup [pc : {"refresh_find"}, at : AccessTokens, rt : RefreshTokens]

ReqStates ==
       {Idle}
  \cup [pc : {"login_find"}, user : Users, dev : Devices]
  \cup [pc : {"login_save", "login_user", "refresh_update", "refresh_reply"},
        new : Rows, token : AccessTokens]
  \cup [pc : {"guard"}, then : Handlers]
  \cup Handlers
  \cup [pc : {"logout_delete"}, dev : Devices]

TypeOK ==
  /\ now \in 0 .. MaxTime
  /\ devices \subseteq Rows
  /\ req \in [Requests -> ReqStates]
  /\ minted \in 0 .. MaxMints
  /\ access \subseteq AccessTokens
  /\ refresh \subseteq RefreshTokens
  /\ revoked \subseteq Secrets
  /\ loginAt \in [Devices -> Nat]

RowsOf(d) == {x \in devices : x.dev = d}
SecretsIn(rows) == {x.secret : x \in rows}

Init ==
  /\ now = 0 /\ devices = {} /\ req = [r \in Requests |-> Idle]
  /\ minted = 0 /\ access = {} /\ refresh = {} /\ revoked = {}
  /\ loginAt = [d \in Devices |-> 0]

Goto(r, state) == req' = [req EXCEPT ![r] = state]

\* Every commit to the table records the secrets it puts out of force.
Commit(rows) ==
  /\ devices' = rows
  /\ revoked' = revoked \cup (SecretsIn(devices) \ SecretsIn(rows))

-----------------------------------------------------------------------------
(* POST auth/login and handleDeviceSession *)

\* The phone and password were right (a wrong one changes nothing); the
\* handler awaits the lookup of the device.
LoginStart(r, u, d) ==
  /\ req[r] = Idle
  /\ Goto(r, [pc |-> "login_find", user |-> u, dev |-> d])
  /\ UNCHANGED <<now, devices, minted, access, refresh, revoked, loginAt>>

NewAccess(u, d) ==
  [user |-> u, dev |-> d, secret |-> minted + 1, exp |-> now + AccessTTL]
NewRefresh(u, d) == [user |-> u, dev |-> d, exp |-> now + RefreshTTL]

\* Mistake: no uuid for a new device.
IdsNeverSet(d) == IF RowsOf(d) = {} THEN {0} ELSE {x.id : x \in RowsOf(d)}
\* Mistake: the row found is not reused.
IdsAlwaysNew(d) == {minted + 1}
\* The id to save under: that of the row findOne returned, some row of the
\* device, or a new uuid.
IdsFor(d) == IF RowsOf(d) = {} THEN {minted + 1} ELSE {x.id : x \in RowsOf(d)}

OldRows(id) == {x \in devices : x.id = id}
\* Mistake: a known device keeps its secret_key.
NewRowOldSecret(id, u, d) ==
  [id |-> id, user |-> u, dev |-> d, refresh |-> NewRefresh(u, d), exp |-> now + SessionTTL,
   secret |-> IF OldRows(id) = {} THEN minted + 1 ELSE (CHOOSE x \in OldRows(id) : TRUE).secret]
\* Mistake: a known device keeps its user.
NewRowOldUser(id, u, d) ==
  [id |-> id, secret |-> minted + 1, dev |-> d, refresh |-> NewRefresh(u, d),
   exp |-> now + SessionTTL,
   user |-> IF OldRows(id) = {} THEN u ELSE (CHOOSE x \in OldRows(id) : TRUE).user]
\* What the login saves.
NewRow(id, u, d) ==
  [id |-> id, user |-> u, dev |-> d, secret |-> minted + 1,
   refresh |-> NewRefresh(u, d), exp |-> now + SessionTTL]

\* The lookup has returned; all that will be saved is computed and awaited.
LoginFind(r) ==
  /\ req[r].pc = "login_find" /\ minted < MaxMints
  /\ LET u == req[r].user
         d == req[r].dev
     IN  /\ \E id \in IdsFor(d) :
              Goto(r, [pc |-> "login_save", new |-> NewRow(id, u, d),
                       token |-> NewAccess(u, d)])
         /\ loginAt' = [loginAt EXCEPT ![d] = now]
  /\ minted' = minted + 1
  /\ UNCHANGED <<now, devices, access, refresh, revoked>>

\* deviceRepo.save: update the row with this id, or insert it.
LoginSave(r) ==
  /\ req[r].pc = "login_save"
  /\ Commit({x \in devices : x.id # req[r].new.id} \cup {req[r].new})
  /\ Goto(r, [pc |-> "login_user", new |-> req[r].new, token |-> req[r].token])
  /\ UNCHANGED <<now, minted, access, refresh, loginAt>>

\* The last await returned (userRepo.save, or the update of a refresh); the
\* answer carries both tokens, in cookies or in its body.
Reply(r) ==
  /\ req[r].pc \in {"login_user", "refresh_reply"}
  /\ access' = access \cup {req[r].token}
  /\ refresh' = refresh \cup {req[r].new.refresh}
  /\ Goto(r, Idle)
  /\ UNCHANGED <<now, devices, minted, revoked, loginAt>>

-----------------------------------------------------------------------------
(* DeviceGuard.canActivate, then the handler behind it *)

\* The device computed from the request must be the one in the token; the
\* guard awaits getSecretKey.
GuardStart(r, h) ==
  /\ req[r] = Idle
  /\ Goto(r, [pc |-> "guard", then |-> h])
  /\ UNCHANGED <<now, devices, minted, access, refresh, revoked, loginAt>>

Verifies(at, row) ==
  /\ ~(row.exp < now)              \* 'device is expired'
  /\ row.secret = at.secret        \* the signature ...
  /\ now < at.exp                  \* ... and exp, in jwtService.verify

\* getSecretKey returned any one row of the device and the token verified.
GuardAdmit(r) ==
  /\ req[r].pc = "guard"
  /\ LET at == req[r].then.at
     IN  \E row \in RowsOf(at.dev) : Verifies(at, row)
  /\ Goto(r, req[r].then)
  /\ UNCHANGED <<now, devices, minted, access, refresh, revoked, loginAt>>

\* It returned another row, or none (destructuring null throws), or the token
\* did not verify: the request is answered with an error.
GuardRefuse(r) ==
  /\ req[r].pc = "guard"
  /\ LET at == req[r].then.at
     IN  RowsOf(at.dev) = {} \/ \E row \in RowsOf(at.dev) : ~Verifies(at, row)
  /\ Goto(r, Idle)
  /\ UNCHANGED <<now, devices, minted, access, refresh, revoked, loginAt>>

\* Any other guarded route: its handler leaves the sessions alone.
UseHandler(r) ==
  /\ req[r].pc = "use_handler"
  /\ Goto(r, Idle)
  /\ UNCHANGED <<now, devices, minted, access, refresh, revoked, loginAt>>

-----------------------------------------------------------------------------
(* POST auth/logout *)

\* The session is looked up by device and by the user the token names.
OwnRow(at) == \E row \in RowsOf(at.dev) : row.user = at.user

LogoutFind(r) ==
  /\ req[r].pc = "logout_find"
  /\ Goto(r, IF OwnRow(req[r].at)
             THEN [pc |-> "logout_delete", dev |-> req[r].at.dev]
             ELSE Idle)            \* 'you are not allow to do that'
  /\ UNCHANGED <<now, devices, minted, access, refresh, revoked, loginAt>>

\* Every row of the device goes, whoever it belongs to by now.
LogoutDelete(r) ==
  /\ req[r].pc = "logout_delete"
  /\ Commit(devices \ RowsOf(req[r].dev))
  /\ Goto(r, Idle)
  /\ UNCHANGED <<now, minted, access, refresh, loginAt>>

-----------------------------------------------------------------------------
(* POST auth/refresh-token *)

\* Mistake: the secret_key is not renewed.
RekeyOldSecret(row, secret, token) ==
  [id |-> row.id, user |-> row.user, dev |-> row.dev, exp |-> row.exp,
   secret |-> row.secret, refresh |-> token]
\* Mistake: expired_at is renewed too.
RekeyRenews(row, secret, token) ==
  [id |-> row.id, user |-> row.user, dev |-> row.dev, exp |-> now + SessionTTL,
   secret |-> secret, refresh |-> token]
\* The row with another secret_key and refresh_token, all else as it is.
Rekey(row, secret, token) ==
  [id |-> row.id, user |-> row.user, dev |-> row.dev, exp |-> row.exp,
   secret |-> secret, refresh |-> token]

\* The row is found by refresh token and device; the new pair is minted for
\* the row's user and the update is awaited.
RefreshFind(r) ==
  /\ req[r].pc = "refresh_find" /\ minted < MaxMints
  /\ now < req[r].rt.exp
  /\ \E row \in RowsOf(req[r].at.dev) :
       /\ row.refresh = req[r].rt
       /\ Goto(r, [pc |-> "refresh_update",
                   new |-> Rekey(row, minted + 1, NewRefresh(row.user, row.dev)),
                   token |-> NewAccess(row.user, row.dev)])
  /\ minted' = minted + 1
  /\ UNCHANGED <<now, devices, access, refresh, revoked, loginAt>>

\* No such row, or the refresh token has expired: 'refresh token is not valid'.
RefreshRefuse(r) ==
  /\ req[r].pc = "refresh_find"
  /\ \/ ~(now < req[r].rt.exp)
     \/ \A row \in RowsOf(req[r].at.dev) : row.refresh # req[r].rt
  /\ Goto(r, Idle)
  /\ UNCHANGED <<now, devices, minted, access, refresh, revoked, loginAt>>

\* Mistake: the loaded entity is saved, which inserts it if it is gone.
RefreshSave(r) ==
  /\ req[r].pc = "refresh_update"
  /\ Commit({x \in devices : x.id # req[r].new.id} \cup {req[r].new})
  /\ Goto(r, [pc |-> "refresh_reply", new |-> req[r].new, token |-> req[r].token])
  /\ UNCHANGED <<now, minted, access, refresh, loginAt>>

\* update({device_id}, {secret_key, refresh_token}): all rows of the device,
\* which may be none by now; expired_at and the user stay.
RefreshUpdate(r) ==
  /\ req[r].pc = "refresh_update"
  /\ LET new == req[r].new
     IN  Commit({IF x.dev = new.dev THEN Rekey(x, new.secret, new.refresh) ELSE x :
                   x \in devices})
  /\ Goto(r, [pc |-> "refresh_reply", new |-> req[r].new, token |-> req[r].token])
  /\ UNCHANGED <<now, minted, access, refresh, loginAt>>

-----------------------------------------------------------------------------
\* res.cookie has put the new refresh token on the response before the update
\* is awaited, so an error answer carries it as well.
CookieOf(r) ==
  IF req[r].pc \in {"refresh_update", "refresh_reply"} THEN {req[r].new.refresh} ELSE {}

\* A database call fails or times out and the request is answered with an
\* error, or the process dies and it is not: what it has committed stays.
Fail(r) ==
  /\ req[r] # Idle
  /\ \E sent \in {{}, CookieOf(r)} : refresh' = refresh \cup sent
  /\ Goto(r, Idle)
  /\ UNCHANGED <<now, devices, minted, access, revoked, loginAt>>

Tick ==
  /\ now < MaxTime
  /\ now' = now + 1
  /\ UNCHANGED <<devices, req, minted, access, refresh, revoked, loginAt>>

Login(r) ==
  \/ \E u \in Users, d \in Devices : LoginStart(r, u, d)
  \/ LoginFind(r) \/ LoginSave(r)

Guard(r) ==
  \/ \E at \in access, pc \in {"use_handler", "logout_find"} :
        GuardStart(r, [pc |-> pc, at |-> at])
  \/ \E at \in access, rt \in refresh :
        GuardStart(r, [pc |-> "refresh_find", at |-> at, rt |-> rt])
  \/ GuardAdmit(r) \/ GuardRefuse(r) \/ UseHandler(r)

Logout(r) == LogoutFind(r) \/ LogoutDelete(r)

Refresh(r) == RefreshFind(r) \/ RefreshRefuse(r) \/ RefreshUpdate(r)

Next ==
  \/ \E r \in Requests : Login(r) \/ Guard(r) \/ Logout(r) \/ Refresh(r) \/ Reply(r) \/ Fail(r)
  \/ Tick

Spec == Init /\ [][Next]_vars
-----------------------------------------------------------------------------
LiveSecrets == SecretsIn(devices)

\* Drawn by a request that has yet to commit it.
Pending(r) ==
  IF req[r].pc \in {"login_save", "refresh_update"} THEN {req[r].new.secret} ELSE {}

\* A secret that a login, a refresh or a logout has put out of force (so that
\* DeviceGuard refuses its tokens) never comes back into the table, whatever
\* the requests that were in flight at the time still commit.
RevokedStaysRevoked ==
  /\ LiveSecrets \cap revoked = {}
  /\ \A r \in Requests : Pending(r) \cap revoked = {}

\* A device that has no row gets one only from a login's save: a logout is not
\* undone by a refresh the guard admitted before it.
LogoutSticks ==
  [][\A d \in Devices : RowsOf(d) = {} /\ RowsOf(d)' # {} =>
       \E r \in Requests : req[r].pc = "login_save" /\ req[r].new.dev = d]_vars

\* However often a session is refreshed, DeviceGuard admits a request only
\* within a day of somebody's login with a password on that device.
AdmittedWithinADay ==
  [][\A r \in Requests : req[r].pc = "guard" /\ req'[r].pc \notin {"guard", "idle"} =>
       now <= loginAt[req[r].then.at.dev] + SessionTTL]_vars

\* A device has at most one row.
OneRowPerDevice == \A x, y \in devices : x.dev = y.dev => x = y

\* A token DeviceGuard would admit speaks for the user the session's row
\* belongs to, the one logout and the list of sessions go by.
TokenSpeaksForOwner ==
  \A at \in access, row \in devices :
    row.dev = at.dev /\ Verifies(at, row) => row.user = at.user

\* The sessions keep the promise made of credentials.
StageOf(s) == IF s \in LiveSecrets THEN "live"
              ELSE IF s \in revoked THEN "dead" ELSE "unborn"
Ledger == INSTANCE CredentialLedger
            WITH Credentials <- Secrets, stage <- [s \in Secrets |-> StageOf(s)]
LedgerSpec == Ledger!Spec
=============================================================================
