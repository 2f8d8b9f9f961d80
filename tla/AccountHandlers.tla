-------------------------- MODULE AccountHandlers --------------------------
(***************************************************************************)
(* Signing in and out, two-factor codes, invitations and team membership:  *)
(* internal/api/handlers/{auth, sessions, invites, team}.go, internal/auth *)
(* and RequireAuth of internal/api/middleware.                             *)
(*                                                                         *)
(* A token pair is one id, drawn when it is issued; s.jwt keeps what the   *)
(* signature of each pair covers, which only the issuer can produce.  The  *)
(* clock s.now counts TOTP periods.  A TOTP code is the secret and the     *)
(* period it was made for, a backup code one without a period.  Passwords  *)
(* and hashes are values, equal when the password is right.                *)
(***************************************************************************)
EXTENDS Http

CONSTANTS AccessTTL, RefreshTTL,   \* 15 minutes and 7 days
          MaxSessions,             \* maxConcurrentSessions
          MaxFailed, LockTTL       \* maxFailedAttempts, accountLockoutWindow

NoCode == [secret |-> NoID, step |-> 0]
BackupCode(gen) == [secret |-> gen, step |-> -1]

GenerateTokenPair(s, user, tenant, role, jti) ==
  [s EXCEPT !.jwt = (jti :> [user |-> user, tenant |-> tenant, role |-> role, at |-> s.now]) @@ @]
ValidateAccessToken(s, jti) == jti \in DOMAIN s.jwt /\ s.now < s.jwt[jti].at + AccessTTL
ValidateRefreshToken(s, jti) == jti \in DOMAIN s.jwt /\ s.now < s.jwt[jti].at + RefreshTTL
RevokeAccessToken(s, jti) ==
  IF ValidateAccessToken(s, jti)
  THEN KVSet(s, "revoked_access_tokens", jti, TRUE, s.jwt[jti].at + AccessTTL - s.now) ELSE s
IsAccessTokenRevoked(s, jti) == KVLive(s, "revoked_access_tokens", jti)

\* Bearer token or cookie, else an API key whose role is the membership's.
RequireAuth(o, q) ==
  CASE q.auth = "claims" -> OK(o, q)
    [] q.auth = "jwt" -> IF ~ValidateAccessToken(o, q.tok) \/ IsAccessTokenRevoked(o, q.tok) THEN Err(401, o)
         ELSE OK(o, [q EXCEPT !.c = [tenant |-> o.jwt[q.tok].tenant, user |-> o.jwt[q.tok].user, role |-> o.jwt[q.tok].role]])
    [] q.auth = "key" -> IF ~KVLive(o, "api_keys", q.tok) THEN Err(401, o)
         ELSE LET k == KVGet(o, "api_keys", q.tok, "")
                  m == GetUserMembership(o.db, k.user)
              IN  IF k.until # 0 /\ o.now > k.until THEN Err(401, o)
                  ELSE OK(o, [q EXCEPT !.c = [tenant |-> k.tenant, user |-> k.user,
                                              role |-> IF m.err = "" THEN m.rows[1].role ELSE "none"]])
    [] OTHER -> Err(401, o)

---------------------------------------------------------------------------
\* Sessions of a user: one entry per refresh token, oldest first.
SessionsOf(s, user) == SetToSortSeq({k[2] : k \in {j \in KVList(s, "user_sessions") : j[1] = user}}, LAMBDA x, y : x < y)
RevokeSessions(s, user, jtis) ==
  FoldLeft(LAMBDA t, j : KVDelete(KVSet(t, "revoked_tokens", j, TRUE, RefreshTTL), "user_sessions", <<user, j>>), s, jtis)
revokeAllUserSessions(s, user) == RevokeSessions(s, user, SessionsOf(s, user))
enforceSessionLimit(s, user) ==
  LET all == SessionsOf(s, user)
  IN  IF Len(all) > MaxSessions THEN RevokeSessions(s, user, SubSeq(all, 1, Len(all) - MaxSessions)) ELSE s
trackSession(s, user, jti) == enforceSessionLimit(KVSet(s, "user_sessions", <<user, jti>>, TRUE, RefreshTTL), user)

\* Failed attempts of an account; a locked one is not counted further.
checkPerAccountRateLimit(s, email) ==
  KVLive(s, "account_rl", email) /\ s.now < KVGet(s, "account_rl", email, "").until
incrementPerAccountRateLimit(s, email) ==
  LET e == KVGet(s, "account_rl", email, [failed |-> 0, until |-> 0])
      n == e.failed + 1
  IN  IF e.until > 0 THEN s
      ELSE KVSet(s, "account_rl", email, [failed |-> n, until |-> IF n >= MaxFailed THEN s.now + LockTTL ELSE 0], LockTTL)

---------------------------------------------------------------------------
\* Two-factor codes.  A code for a period is taken once, in rising order of
\* periods; a backup code is struck from the list it was found in.
ValidateTOTPStep(s, u, code) == code.secret = u.secret /\ code.step \in s.now - 1 .. s.now + 1
validateStoredSecret(o, s, u, code, requireEnabled) ==
  LET ok == /\ u.secret # NoID /\ (requireEnabled => u.totp)
            /\ ValidateTOTPStep(s, u, code)
            /\ requireEnabled => code.step > KVGet(o, "totp_last_step", u.id, -1)
  IN  [ok |-> ok, s |-> IF ok /\ requireEnabled THEN KVSet(s, "totp_last_step", u.id, code.step, 0) ELSE s]
consumeBackupCode(s, u, code) ==
  LET ok == u.totp /\ code \in u.codes
  IN  [ok |-> ok, s |-> IF ok THEN [s EXCEPT !.db = UpdateTOTPBackupCodes(@, u.id, u.codes \ {code}).db] ELSE s]
ValidateContext(o, s, u, code) ==
  LET r == validateStoredSecret(o, s, u, code, TRUE) IN IF r.ok THEN r ELSE consumeBackupCode(s, u, code)

\* EnableTOTP without a code enrolls, with one confirms the pending secret.
EnableTOTP(o, s, q) ==
  Try(GetUser(o.db, q.c.user), 500, s, LAMBDA r : LET u == r.rows[1] IN
    IF u.totp THEN Err(400, s)
    ELSE IF q.code = NoCode THEN Commit(UpdateTOTPEnabled(s.db, u.id, FALSE, q.gen), 500, s, q.gen)
    ELSE IF ~validateStoredSecret(o, s, u, q.code, FALSE).ok THEN Err(400, s)
    ELSE Commit(UpdateTOTPEnabled(s.db, u.id, TRUE, u.secret), 500, s, "enabled"))
DisableTOTP(o, s, q) ==
  Try(GetUser(o.db, q.c.user), 500, s, LAMBDA r : LET v == ValidateContext(o, s, r.rows[1], q.code) IN
    IF ~q.ok \/ ~r.rows[1].totp \/ ~v.ok THEN Err(400, v.s)
    ELSE Commit(UpdateTOTPEnabled(v.s.db, q.c.user, FALSE, NoID), 500, v.s, "disabled"))
GetTOTPStatus(o, s, q) == Try(GetUser(o.db, q.c.user), 500, s, LAMBDA r : OK(s, r.rows[1].totp))
GenerateBackupCodes(o, s, q) ==
  Try(GetUser(o.db, q.c.user), 500, s, LAMBDA r : IF ~r.rows[1].totp THEN Err(400, s)
    ELSE Commit(UpdateTOTPBackupCodes(s.db, q.c.user, {BackupCode(q.gen)}), 500, s, q.gen))

---------------------------------------------------------------------------
\* The answer to a login, a refresh or a registration is the new pair's id.
Login(o, s, q) ==
  Decoded(s, q, Try(GetUserByEmail(o.db, q.email), 401, s, LAMBDA r : LET u == r.rows[1] IN
    IF checkPerAccountRateLimit(o, q.email) THEN Err(429, s)
    ELSE IF q.pw # u.hash THEN Err(401, incrementPerAccountRateLimit(s, q.email))
    ELSE IF u.totp /\ q.code = NoCode THEN Err(401, s)
    ELSE LET c == IF u.totp THEN ValidateContext(o, s, u, q.code) ELSE [ok |-> TRUE, s |-> s] IN
      IF ~c.ok THEN Err(401, incrementPerAccountRateLimit(c.s, q.email))
      ELSE Try(GetUserMembership(o.db, u.id), 500, c.s, LAMBDA m :
        LET t == GenerateTokenPair(c.s, u.id, m.rows[1].tenant, m.rows[1].role, q.gen)
        IN  OK(trackSession([t EXCEPT !.db = UpdateLastLogin(@, u.id).db], u.id, q.gen), q.gen))))

RefreshMutant(o, s, q) ==  \* the old refresh token is not put on the list
  IF ~ValidateRefreshToken(o, q.tok) \/ KVLive(o, "revoked_tokens", q.tok) THEN Err(401, s)
  ELSE Try(GetUserMembership(o.db, o.jwt[q.tok].user), 500, s, LAMBDA m :
         LET u == o.jwt[q.tok].user
         IN  OK(trackSession(GenerateTokenPair(s, u, m.rows[1].tenant, m.rows[1].role, q.gen), u, q.gen), q.gen))
Refresh(o, s, q) ==
  IF ~ValidateRefreshToken(o, q.tok) \/ KVLive(o, "revoked_tokens", q.tok) THEN Err(401, s)
  ELSE LET u == o.jwt[q.tok].user IN
    Try(GetUser(o.db, u), 401, s, LAMBDA r : Try(GetUserMembership(o.db, u), 500, s, LAMBDA m :
      LET t == RevokeAccessToken(KVSet(s, "revoked_tokens", q.tok, TRUE, RefreshTTL), q.tok)
      IN  OK(trackSession(GenerateTokenPair(t, u, m.rows[1].tenant, m.rows[1].role, q.gen), u, q.gen), q.gen)))
Logout(o, s, q) ==
  LET t == RevokeAccessToken(s, q.tok)
  IN  OK(IF ValidateRefreshToken(o, q.tok) THEN KVSet(t, "revoked_tokens", q.tok, TRUE, RefreshTTL) ELSE t, "out")

\* The invitation is taken before the user is created: a failure after
\* that leaves it used.
redeemInvite(o, s, code, email) ==
  Try(GetInviteByTokenHash(o.db, code), 403, s, LAMBDA i :
    IF i.rows[1].status # "pending" \/ o.now > i.rows[1].until \/ i.rows[1].email \notin {NoID, email} THEN Err(403, s)
    ELSE Commit(AcceptInvite(s.db, i.rows[1].id), 403, s, i.rows[1]))
AddUser(s, q, tenant, role, F(_)) ==
  Try(CreateUserWithMembership(s.db, [id |-> NoID, email |-> q.email, hash |-> q.pw, status |-> "active", login |-> FALSE,
        totp |-> FALSE, secret |-> NoID, codes |-> {}], tenant, role, q.gen), 500, s, LAMBDA u :
      Respond(201, F([s EXCEPT !.db = u.db]), q.gen))
Register(o, s, q) ==
  LET Join(t, tenant, role) == AddUser(t, q, tenant, role, LAMBDA u : GenerateTokenPair(u, q.gen, tenant, role, q.gen))
  IN
  IF s.mode = "disabled" THEN Err(403, s)
  ELSE Decoded(s, q, IF GetUserByEmail(o.db, q.email).err = "" THEN Err(409, s)
    ELSE IF s.mode \in {"open", "approval"}
         THEN Try(CreateTenantWithDefaults(s.db, [id |-> NoID, slug |-> q.gen, status |-> "", owner |-> NoID, plan |-> "free", meta |-> ""], q.gen),
                  500, s, LAMBDA t : Join([s EXCEPT !.db = t.db], q.gen, "owner"))
    ELSE IF q.tok = NoID THEN Err(403, s)
    ELSE LET i == redeemInvite(o, s, q.tok, q.email) IN Given(i, LAMBDA v : Join(i.s, v.tenant, v.role)))

---------------------------------------------------------------------------
GetCurrentUser(o, s, q) == Try(GetUser(o.db, q.c.user), 404, s, LAMBDA r : OK(s, r.rows[1]))
UpdateProfile(o, s, q) ==
  Decoded(s, q, Try(GetUser(o.db, q.c.user), 404, s, LAMBDA r : Commit(UpdateUser(s.db, r.rows[1]), 500, s, "updated")))
ChangePassword(o, s, q) ==
  Decoded(s, q, Try(GetUser(o.db, q.c.user), 404, s, LAMBDA r :
    IF q.pw # r.rows[1].hash THEN Err(401, s)
    ELSE Try(UpdatePassword(s.db, q.c.user, q.v), 500, s, LAMBDA u :
           OK(RevokeAccessToken(revokeAllUserSessions([s EXCEPT !.db = u.db], q.c.user), q.tok), "changed"))))
LogoutAllMutant(o, s, q) == OK(RevokeAccessToken(s, q.tok), "out")  \* only the caller's own access token
LogoutAll(o, s, q) == OK(RevokeAccessToken(revokeAllUserSessions(s, q.c.user), q.tok), "out")
ListSessions(o, s, q) == OK(s, SessionsOf(s, q.c.user))

---------------------------------------------------------------------------
RoleLevel(role) == CASE role = "super_admin" -> 6 [] role = "owner" -> 5 [] role = "admin" -> 4
                     [] role = "operator" -> 2 [] role = "viewer" -> 1 [] OTHER -> 3
CanAssignRole(inviter, target) == RoleLevel(target) <= RoleLevel(inviter)
canInviteWithRole(inviter, target) ==
  CanAssignRole(inviter.id, target.id) /\ \A p \in target.perms : HasPermission(inviter.perms, p)
\* The caller's role is read again from the store, not taken from the claims.
InviteCreate(o, s, q) ==
  Try(GetUserMembership(o.db, q.c.user), 403, s, LAMBDA m : Try(GetRole(o.db, m.rows[1].role), 403, s, LAMBDA r :
    IF m.rows[1].tenant # q.c.tenant \/ ~HasPermission(r.rows[1].perms, <<"member", "invite">>) THEN Err(403, s)
    ELSE Decoded(s, q, Try(GetRole(o.db, q.v), 400, s, LAMBDA t :
      IF t.rows[1].tenant \notin {NoID, q.c.tenant} THEN Err(400, s)
      ELSE IF ~canInviteWithRole(r.rows[1], t.rows[1]) THEN Err(403, s)
      ELSE Commit(CreateInvite(s.db, [id |-> NoID, tenant |-> q.c.tenant, email |-> q.email, role |-> q.v,
             hash |-> q.gen, until |-> s.now + RefreshTTL, status |-> "pending"], q.gen), 500, s, q.gen)))))
InviteList(o, s, q) == OK(s, ListInvitesByTenant(o.db, q.c.tenant).rows)

\* The users of the members are fetched in one query, GetUsersByIDs.
ListMembers(o, s, q) ==
  LET ms == ListTeamMembers(o.db, q.c.tenant).rows
  IN  IF ms = <<>> THEN OK(s, <<>>)
      ELSE Try(GetUsersByIDs(o.db, {ms[i].user : i \in DOMAIN ms}, q.c.tenant), 500, s, LAMBDA r : OK(s, ms))
RemoveMember(o, s, q) ==
  LET ms == SelectSeq(ListTeamMembers(o.db, q.c.tenant).rows, LAMBDA m : m.id = q.id)
  IN  IF ms = <<>> THEN Err(404, s) ELSE IF ms[1].user = q.c.user THEN Err(400, s)
      ELSE Commit(RemoveTeamMember(s.db, q.c.tenant, q.id), 404, s, "removed")
ListTeamRoles(o, s, q) == OK(s, ListRoles(o.db, q.c.tenant).rows)
GetAuditLog(o, s, q) ==
  LET pg == parsePagination(q.page, q.per) IN OK(s, ListAuditLogs(o.db, q.c.tenant, pg.perPage, pg.offset).rows)

\* First start: a platform tenant and its super admin, in two transactions.
firstRunSetup(s, gen) ==
  IF CountUsers(s.db).n > 0 THEN OK(s, "skipped")
  ELSE Try(CreateTenantWithDefaults(s.db, [id |-> NoID, slug |-> 0, status |-> "", owner |-> NoID, plan |-> "free", meta |-> ""], gen),
           500, s, LAMBDA t : AddUser([s EXCEPT !.db = t.db], [email |-> 1, pw |-> "admin", gen |-> gen + 2], gen, "super_admin", LAMBDA u : u))
===========================================================================
