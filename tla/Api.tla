-------------------------------- MODULE Api --------------------------------
(***************************************************************************)
(* The HTTP server of internal/api: requests on their way through the      *)
(* middleware chain of router.go to the handlers of module Routes, several *)
(* at a time.                                                              *)
(*                                                                         *)
(* A request arrives (idempotency look-up, authentication), enters (rate   *)
(* limiter, which keeps its mutex until the handler has returned) and      *)
(* finishes (permission, handler, audit, idempotency entry).  A handler's  *)
(* reads see the state at its entry and its writes the state at its end,   *)
(* so between the two any other request, job or tick may come, unless the  *)
(* limiter keeps it out.  st is the state of module Http.  The deadline of *)
(* a request, panics and the global per-address limiter are left out.      *)
(***************************************************************************)
EXTENDS Routes

CONSTANTS Areas,          \* names of groups of requests that are explored together
          Requests(_),    \* the requests of an area
          Start(_),       \* the state an area starts in
          MaxRequests(_), \* how many requests an area sees
          MaxOpen,        \* requests in flight at a time
          MaxNow(_),      \* where the clock of an area stops
          DefaultRate,    \* server.rate_limit_per_minute, when the limiter is on
          AuthRate,       \* the rate of the login, register and refresh limiters
          Services        \* services of a compose stack

VARIABLES area, limited,  \* chosen at the start: the requests, limiter on or off
          st,             \* the state the handlers work on
          n,              \* requests so far
          open,           \* requests in flight: id -> [q, key, rate, phase, o, after]
          held,           \* limiter mutexes that are taken
          answered        \* id -> the request, its answer, whether a handler ran,
                          \* and which requests had been answered when it arrived

vars == <<area, limited, st, n, open, held, answered>>

---------------------------------------------------------------------------
\* The limiter in front of a route; the tenant's also for its waiting line.
Public == {"Logout", "GetCurrentUser", "AnnouncementList", "Branding"}
Limiter(q) ==
  CASE q.h = "Login" -> "login" [] q.h = "Register" -> "register" [] q.h = "Refresh" -> "refresh"
    [] q.h \in Public /\ (q.h = "Branding" => q.get) -> "none"
    [] OTHER -> "tenant"

Rate(s, q) ==
  CASE Limiter(q) = "none" -> 0
    [] Limiter(q) # "tenant" -> AuthRate
    [] OTHER -> LET own == KVGet(s, "tenant_ratelimit", q.c.tenant, 0)
                IN  IF own > 0 THEN own ELSE IF limited THEN DefaultRate ELSE 0

\* The window of a key: one tick of the clock. The tenant limiter keys on the
\* tenant, the auth limiters on the client address: one address per tenant.
RateKey(q) == <<Limiter(q), q.c.tenant>>
Window(s, q) == KVGet(s, "ratelimit", RateKey(q), [count |-> 0, reset |-> s.now])
Throttled(s, f) ==
  f.rate > 0 /\ s.now < Window(s, f.q).reset /\ Window(s, f.q).count >= f.rate
Counted1(s, f) ==
  LET w == Window(s, f.q)
  IN  IF f.rate <= 0 THEN s
      ELSE KVSet(s, "ratelimit", RateKey(f.q),
             IF s.now >= w.reset THEN [count |-> 1, reset |-> s.now + 1] ELSE [w EXCEPT !.count = @ + 1], 1)

\* The mutex a request takes, if any, is kept until its handler returns.
MutexMutant(f) == {}   \* unlocked before next.ServeHTTP
Mutex(f) == IF f.rate > 0 THEN {Limiter(f.q)} ELSE {}

\* Method, path, header, credentials and body of the request.
scopedIdempotencyKey(q) == [q EXCEPT !.gen = 0]
Idempotent(q) == q.idem # 0 /\ ~q.get /\ q.g # "auth"
inFlightMutant == {}   \* the map of requests being processed is not consulted
inFlight == {open[i].key : i \in {j \in DOMAIN open : Idempotent(open[j].q)}}

\* AuditLog is outside RequireAuth: the request it holds has no claims, the
\* ones of the handler are in a copy.
AuditLog(s, claims, q, code) ==
  IF q.get \/ code >= 400 \/ claims = {} THEN s
  ELSE [s EXCEPT !.db = CreateAuditLog(@, [id |-> NoID, tenant |-> q.c.tenant, user |-> q.c.user,
                                           action |-> q.h, ref |-> q.id], q.gen).db]
OuterClaims == {}

ServeHTTP(o, s, q) ==
  CASE q.g = "auth" -> AuthRoutes(o, s, q)
    [] q.g = "app" -> AppRoutes(o, s, q)
    [] q.g = "config" -> AppConfigRoutes(o, s, q)
    [] q.g = "resource" -> ResourceRoutes(o, s, q)
    [] q.g = "infra" -> InfraRoutes(o, s, q)
    [] q.g = "workflow" -> WorkflowRoutes(o, s, q)
    [] q.g = "admin" -> AdminRoutes(o, s, q)

---------------------------------------------------------------------------
Init ==
  /\ area \in Areas /\ limited \in BOOLEAN
  /\ st = Start(area) /\ n = 0 /\ held = {}
  /\ open = <<>> /\ answered = <<>>

Close(q, code, out, ran, after) ==
  answered' = (q.gen :> [q |-> q, code |-> code, out |-> out, ran |-> ran, after |-> after]) @@ answered
Without(i) == [j \in DOMAIN open \ {i} |-> open[j]]

\* A request reaches the server: answered from the idempotency table, or
\* refused there, or refused by RequireAuth, or put in front of its limiter.
\* The mark in the in-flight table and the look-up that follows are one
\* step, for only the bearer of the mark writes the entry.
Arrive(r) ==
  LET q == [r EXCEPT !.gen = 100 + 10 * n]
      key == scopedIdempotencyKey(q)
      who == IF Limiter(q) = "tenant" \/ q.h = "GetCurrentUser" THEN RequireAuth(st, q) ELSE OK(st, q)
  IN  /\ n < MaxRequests(area) /\ Cardinality(DOMAIN open) < MaxOpen
      /\ n' = n + 1
      /\ \/ /\ Idempotent(q) /\ key \in inFlight
            /\ Close(q, 409, "", FALSE, DOMAIN answered) /\ UNCHANGED open
         \/ /\ Idempotent(q) /\ key \notin inFlight /\ KVLive(st, "idempotency", key)
            /\ LET e == KVGet(st, "idempotency", key, "") IN Close(q, e.code, e.out, FALSE, DOMAIN answered)
            /\ UNCHANGED open
         \/ /\ ~Idempotent(q) \/ (key \notin inFlight /\ ~KVLive(st, "idempotency", key))
            /\ IF who.code = 401
               THEN Close(q, 401, "", FALSE, DOMAIN answered) /\ UNCHANGED open
               ELSE /\ open' = (q.gen :> [q |-> who.out, key |-> key, rate |-> Rate(st, who.out),
                                          phase |-> "waits", o |-> <<>>, after |-> DOMAIN answered]) @@ open
                    /\ UNCHANGED answered
      /\ UNCHANGED <<area, limited, st, held>>

\* The limiter lets the request in, or answers 429.
Enter(i) ==
  LET f == open[i]
  IN  /\ f.phase = "waits" /\ Mutex(f) \cap held = {}
      /\ IF Throttled(st, f)
         THEN /\ Close(f.q, 429, "", FALSE, f.after) /\ open' = Without(i) /\ UNCHANGED <<st, held>>
         ELSE /\ st' = Counted1(st, f)
              /\ open' = [open EXCEPT ![i].phase = "runs", ![i].o = st']
              /\ held' = held \cup Mutex(f)
              /\ UNCHANGED answered
      /\ UNCHANGED <<area, limited, n>>

\* The handler's writes and its answer; then the middleware around it.
Finish(i) ==
  LET f == open[i]
  IN  /\ f.phase = "runs"
      /\ \E r \in {ServeHTTP(f.o, st, f.q)} : \E a \in {AuditLog(r.s, OuterClaims, f.q, r.code)} :
           /\ st' = IF Idempotent(f.q) /\ r.code \in 200..299
                    THEN KVSet(a, "idempotency", f.key, [code |-> r.code, out |-> r.out], 24) ELSE a
           /\ Close(f.q, r.code, r.out, TRUE, f.after)
      /\ held' = held \ Mutex(f) /\ open' = Without(i)
      /\ UNCHANGED <<area, limited, n>>

\* A goroutine a handler left behind ends.
RunJob(k) ==
  LET j == st.jobs[k]
      rest == [st EXCEPT !.jobs = RemoveAt(@, k)]
  IN  /\ \/ /\ j.kind = "domain"
            /\ \E cancelled \in BOOLEAN : st' = AutoDomain(rest, j, cancelled)
         \/ /\ j.kind = "stack"
            /\ \E fails \in 0..Services : st' = RunStack(rest, j, Services, fails)
      /\ UNCHANGED <<area, limited, n, open, held, answered>>

\* A container died; SubscribeRestartHistory keeps the event.
RestartEvent(app) ==
  /\ area = "ops" /\ n < MaxRequests(area) /\ n' = n + 1
  /\ st' = PersistRestart(st, app, "died", 100 + 10 * n)
  /\ UNCHANGED <<area, limited, open, held, answered>>

Tick ==
  /\ st.now < MaxNow(area) /\ st' = [st EXCEPT !.now = @ + 1]
  /\ UNCHANGED <<area, limited, n, open, held, answered>>

\* The hourly clean-up of routes_admin.go.
Cleanup ==
  /\ CleanupExpiredKeys(st) # st /\ st' = CleanupExpiredKeys(st)
  /\ UNCHANGED <<area, limited, n, open, held, answered>>

\* All requests are answered and all jobs have ended.
Quiet ==
  /\ n = MaxRequests(area) /\ open = <<>> /\ st.jobs = <<>>
  /\ UNCHANGED vars

Next ==
  \/ \E r \in Requests(area) : Arrive(r)
  \/ \E i \in DOMAIN open : Enter(i) \/ Finish(i)
  \/ \E k \in DOMAIN st.jobs : RunJob(k)
  \/ \E a \in OwnedApps(st.db, 10) : RestartEvent(a)
  \/ Tick \/ Cleanup \/ Quiet

Spec == Init /\ [][Next]_vars

---------------------------------------------------------------------------
\* What a tenant has: its rows, its entries, its containers and backups.
AppKeyed == {"basic_auth", "error_pages", "response_headers", "sticky_sessions", "log_retention", "gpu_config",
             "app_middleware", "maintenance", "deploy_notify", "autoscale", "redirects", "webhooks", "cronjobs"}
TenantKeyed == {"event_webhooks", "registries", "deploy_freeze"}
PairKeyed == {"registry_creds", "wildcard_ssl", "wildcard_ssl_domain", "git_connections", "topologies"}
Holdings(s, t) ==
  LET apps == OwnedApps(s.db, t)
      mine == {"projects", "apps", "members", "secrets", "invites", "servers"}
  IN  <<[b \in mine |-> SelectSeq(s.db[b], LAMBDA r : r.tenant = t)],
        [b \in {"deployments", "domains"} |-> SelectSeq(s.db[b], LAMBDA r : r.app \in apps)],
        [b \in AppKeyed |-> [k \in DOMAIN s.kv[b] \cap apps |-> s.kv[b][k]]],
        [b \in TenantKeyed |-> [k \in DOMAIN s.kv[b] \cap {t} |-> s.kv[b][k]]],
        [b \in PairKeyed |-> [k \in {j \in DOMAIN s.kv[b] : j[1] = t} |-> s.kv[b][k]]],
        SelectSeq(s.rt, LAMBDA c : c.tenant = t), {k \in DOMAIN s.store : k[1] = t}>>
Tenants == {st.db.tenants[i].id : i \in DOMAIN st.db.tenants}
Just == DOMAIN answered' \ DOMAIN answered


\* Answers that took effect.
Acked(hs) == {i \in DOMAIN answered : answered[i].ran /\ answered[i].q.h \in hs /\ answered[i].code < 300}
Lists ==
  {[add |-> "RedirectCreate", del |-> "RedirectDelete", b |-> "redirects", safe |-> TRUE, cap |-> RuleLimit],
   [add |-> "EventWebhookCreate", del |-> "EventWebhookDelete", b |-> "event_webhooks", safe |-> TRUE, cap |-> RuleLimit],
   [add |-> "FreezeCreate", del |-> "FreezeDelete", b |-> "deploy_freeze", safe |-> FALSE, cap |-> FreezeLimit],
   [add |-> "SSHKeyGenerate", del |-> "", b |-> "ssh_keys", safe |-> FALSE, cap |-> KeyLimit],
   [add |-> "RegistryAdd", del |-> "", b |-> "registries", safe |-> FALSE, cap |-> KeyLimit],
   [add |-> "AnnouncementCreate", del |-> "AnnouncementDismiss", b |-> "announcements", safe |-> FALSE, cap |-> KeyLimit]}
Items(b) ==
  LET all == FlattenSeq([i \in 1..Cardinality(KVList(st, b)) |-> KVGet(st, b, SetToSeq(KVList(st, b))[i], <<>>)])
  IN  IF b \in {"deploy_freeze", "announcements"} THEN {x.id : x \in {y \in ToSet(all) : y.active}} ELSE ToSet(all)

\* No acknowledged change of a list is lost: an entry whose creation was
\* acknowledged is there until its removal is asked for, is gone when the
\* removal came after, and no list grows past its limit.  The lists changed
\* inside KVStore.Mutate have it always; those read with Get and written with
\* Set only while the tenant limiter, which serialises handlers, is on.
ListsExact ==
  \A l \in Lists : limited \/ l.safe =>
    LET made == {answered[i].out : i \in Acked({l.add})}
        asked == {answered[i].q.ref : i \in Acked({l.del})}
        gone == {answered[i].q.ref : i \in {j \in Acked({l.del}) : answered[j].q.ref \in answered[j].after}}
    IN  /\ made \ asked \subseteq Items(l.b) /\ Items(l.b) \subseteq made \ gone
        /\ \A k \in KVList(st, l.b) : Len(KVGet(st, l.b, k, <<>>)) <= l.cap

\* The acknowledged writes of one column of an app that no later one replaced.
Newest1(hs, app) ==
  LET ws == {i \in Acked(hs) : answered[i].q.id = app}
  IN  {i \in ws : ~\E j \in ws : i \in answered[j].after}

\* Of the requests that carry the same idempotency key, one at most runs and
\* succeeds, also when the second arrives while the first is being served.
IdempotentOnce ==
  \A i, j \in DOMAIN answered : LET p == answered[i]  q == answered[j] IN
    /\ i # j /\ p.ran /\ q.ran /\ Idempotent(p.q)
    /\ scopedIdempotencyKey(p.q) = scopedIdempotencyKey(q.q)
    => p.code >= 300 \/ q.code >= 300


\* After "log out everywhere" or a password change, a session opened by a
\* login or a refresh before it can no longer be refreshed.
SignOutEnds ==
  \A r \in Acked({"Refresh"}), x \in Acked({"LogoutAll", "ChangePassword"}) :
    LET tok == answered[r].q.tok
    IN  ~(x \in answered[r].after /\ (tok = 70 \/ tok \in answered[x].after))

\* Page p of a list holds exactly the rows from (p-1)*per_page on, so the
\* pages together are the tenant's rows, each once.
Whole(s, q) ==
  CASE q.h = "AppList" -> Reverse(SelectSeq(s.db.apps, LAMBDA a : a.tenant = q.c.tenant))
    [] q.h = "ProjectList" -> ByName(SelectSeq(s.db.projects, LAMBDA p : p.tenant = q.c.tenant))
PagesExact ==
  [][\A i \in Just : LET a == answered'[i]  all == Whole(st, a.q) IN
       a.q.h \in {"AppList", "ProjectList"} /\ a.code = 200 =>
         /\ Len(a.out) = Min2(a.q.per, IF Len(all) > (a.q.page - 1) * a.q.per THEN Len(all) - (a.q.page - 1) * a.q.per ELSE 0)
         /\ \A k \in DOMAIN a.out : a.out[k] = all[(a.q.page - 1) * a.q.per + k]]_vars


\* With the limiter on, a tenant that only creates and deletes apps through
\* POST and DELETE /apps never has more than its plan allows.
QuotaHeld ==
  area = "quota" /\ limited =>
    \A t \in Tenants : Cardinality(OwnedApps(st.db, t)) <= effectiveAppLimit(st, t)

---------------------------------------------------------------------------
\* "Audit log with IP / timestamp / actor on every mutation."  (README.md)
MutationsAudited ==
  \A i \in DOMAIN answered : LET a == answered[i] IN
    a.ran /\ ~a.q.get /\ a.code < 400 /\ Limiter(a.q) = "tenant" =>
      \E k \in DOMAIN st.db.audit : st.db.audit[k].id = i

\* The mutex of the tenant limiter "protects kv operations for same key"
\* (tenant_ratelimit.go): a request never waits for one of another tenant.
WaitsOnlyForSameKey ==
  \A i, j \in DOMAIN open :
    /\ open[i].phase = "waits" /\ open[j].phase = "runs"
    /\ Mutex(open[i]) \cap Mutex(open[j]) # {}
    => RateKey(open[i].q) = RateKey(open[j].q)
===========================================================================
