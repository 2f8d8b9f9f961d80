-------------------------- MODULE PlatformHandlers --------------------------
(***************************************************************************)
(* What is not an application: secrets, servers, managed databases,        *)
(* backups, git connections, topologies, billing, the administrator's      *)
(* handlers and the read-only views: internal/api/handlers/{secrets,       *)
(* servers, databases, backups, gitsources, topology, billing, admin_ops,  *)
(* monitoring, buildcache, branding, notifications, agent_status,          *)
(* misc_handlers, observability, infra}.go.                                *)
(*                                                                         *)
(* s.vps holds the instances the cloud provider runs, s.store the backup   *)
(* storage (tenant and name to the app's row), s.img the runtime's images, *)
(* s.brand the branding kept in memory.  q.ext is the answer of whatever   *)
(* the handler calls outside: "yes", "no" (an error) or "none" (absent).   *)
(***************************************************************************)
EXTENDS PipelineHandlers

\* A row the request names must be the caller's; NoID names none.
Own(s, q, id, rep, F) ==
  IF id = NoID THEN F
  ELSE Try(rep, 404, s, LAMBDA r : IF r.rows[1].tenant # q.c.tenant THEN Err(403, s) ELSE F)

\* The secret and its first version are two transactions: when the second
\* fails (q.ext = "no") the secret stays, without a value.
SecretCreate(o, s, q) ==
  LET row == [id |-> NoID, tenant |-> q.c.tenant, scope |-> q.v, name |-> q.gen]
      first == [id |-> NoID, secret |-> q.gen, version |-> 1, value |-> q.gen]
  IN  Decoded(s, q, Own(s, q, q.id, GetApp(o.db, q.id), Own(s, q, q.ref, GetProject(o.db, q.ref),
        Try(CreateSecret(s.db, row, q.gen), 500, s, LAMBDA r :
          IF q.ext = "no" THEN Err(500, [s EXCEPT !.db = r.db])
          ELSE Try(CreateSecretVersion(r.db, first, q.gen), 500, [s EXCEPT !.db = r.db], LAMBDA v :
                 Respond(201, [s EXCEPT !.db = v.db], q.gen))))))
SecretDelete(o, s, q) ==
  Try(DeleteSecret(s.db, q.c.tenant, q.id), 404, s, LAMBDA r : Respond(204, [s EXCEPT !.db = r.db], q.id))
SecretList(o, s, q) == OK(s, ListSecretsByTenant(s.db, q.c.tenant).rows)

---------------------------------------------------------------------------
\* The instance is made at the provider, then recorded; removal forgets the
\* record and leaves the instance to the provider.
Provision(o, s, q) ==
  Decoded(s, q, CASE q.ext = "none" -> Err(400, s)
    [] q.ext = "no" -> Err(500, s)
    [] OTHER -> LET up == [s EXCEPT !.vps = @ \cup {q.gen}]
                IN  Try(CreateServer(up.db, [id |-> q.gen, tenant |-> q.c.tenant,
                                             status |-> IF q.v = "custom" THEN "active" ELSE "provisioning"], q.gen),
                        500, up, LAMBDA r : Respond(201, [up EXCEPT !.db = r.db], q.gen)))
Local == -1   \* the id "local" of the machine itself
ServerDelete(o, s, q) ==
  IF q.id = Local THEN Err(400, s)
  ELSE Try(GetServer(o.db, q.id), 404, s, LAMBDA r :
         IF r.rows[1].tenant # q.c.tenant THEN Err(403, s)   \* a shared server has no tenant
         ELSE Try(DeleteServer(s.db, q.id), 500, s, LAMBDA d : Respond(204, [s EXCEPT !.db = d.db], q.id)))
ServerList(o, s, q) == OK(s, <<[id |-> Local]>> \o ListServersByTenant(s.db, q.c.tenant).rows)
ProviderCall(s, q, missing) ==
  CASE q.ext = "none" -> Err(missing, s) [] q.ext = "no" -> Err(500, s) [] OTHER -> OK(s, "list")
ListRegions(o, s, q) == ProviderCall(s, q, 404)
ListSizes(o, s, q) == ProviderCall(s, q, 404)

\* A managed database is a container; nothing else records it.
ProvisionDatabase(s, q) ==
  [s EXCEPT !.rt = Append(@, [id |-> q.gen, app |-> NoID, tenant |-> q.c.tenant, kind |-> "db", state |-> "running"])]
DatabaseCreate(o, s, q) ==
  IF q.c.role \notin {"admin", "owner", "developer"} THEN Err(403, s)
  ELSE Decoded(s, q, CASE q.ext = "none" -> Err(503, s) [] q.ext = "no" -> Err(500, s)
                       [] OTHER -> Respond(201, ProvisionDatabase(s, q), q.gen))
DatabaseList(o, s, q) == OK(s, ListByLabels(s, LAMBDA c : c.kind = "db" /\ c.tenant = q.c.tenant))

---------------------------------------------------------------------------
\* A backup key is the tenant and a name; q.ok is isStrictBackupKey.
requireTenantBackupKey(s, q, F) ==
  IF ~q.ok THEN Err(400, s) ELSE IF q.ref # q.c.tenant THEN Err(404, s) ELSE F
Object(s, q, F) ==
  requireTenantBackupKey(s, q, IF q.ext = "none" THEN Err(503, s)
                               ELSE IF <<q.ref, q.id>> \notin DOMAIN s.store THEN Err(404, s) ELSE F)
BackupList(o, s, q) == OK(s, {k \in DOMAIN s.store : k[1] = q.c.tenant})
BackupCreate(o, s, q) ==
  Decoded(s, q, CASE q.ext = "none" -> Err(503, s) [] q.ext = "no" -> Err(500, s) [] OTHER -> Respond(202, s, "started"))
\* The stored row comes back under a new id, for the caller's tenant.
BackupRestore(o, s, q) ==
  Object(o, q, IF q.ext = "no" THEN Err(422, s)
    ELSE Try(CreateApp(s.db, [o.store[<<q.ref, q.id>>] EXCEPT !.id = NoID, !.tenant = q.c.tenant, !.status = "restoring"],
                       q.gen), 500, s, LAMBDA r :
           Respond(202, [s EXCEPT !.db = r.db], q.gen)))
BackupDownload(o, s, q) == Object(s, q, OK(s, "bytes"))

\* Git connections: one entry per tenant and provider type q.v.
GitConnect(o, s, q) ==
  Decoded(s, q, LET key == <<q.c.tenant, q.v>>
    IN  Respond(201, KVSet(s, "git_connections", key,
          [token |-> q.gen, created |-> IF KVLive(o, "git_connections", key) THEN KVGet(o, "git_connections", key, "").created
                                        ELSE q.gen], 0), q.v))
GitDisconnect(o, s, q) == Decoded(s, q, Respond(204, KVDelete(s, "git_connections", <<q.c.tenant, q.v>>), q.v))
GitProviders(o, s, q) == OK(s, {k \in KVList(s, "git_connections") : k[1] = q.c.tenant})
\* The tenant's own connection, else the platform's provider if there is one.
providerForRequest(s, q) == KVLive(s, "git_connections", <<q.c.tenant, q.v>>) \/ q.ext # "none"
ListRepos(o, s, q) ==
  IF ~providerForRequest(s, q) THEN Err(404, s) ELSE IF q.ext = "no" THEN Err(500, s) ELSE OK(s, "list")
ListBranches(o, s, q) == ListRepos(o, s, q)

---------------------------------------------------------------------------
\* A topology is one entry per tenant, project and environment.
TopologySave(o, s, q) ==
  Decoded(s, q, WithProject(o, s, q, LAMBDA p :
    OK(KVSet(s, "topologies", <<q.c.tenant, p.id, q.v>>, q.gen, 0), q.gen)))
TopologyLoad(o, s, q) ==
  Decoded(s, q, WithProject(o, s, q, LAMBDA p : OK(s, KVGet(s, "topologies", <<q.c.tenant, p.id, q.v>>, 0))))

\* The plan of a tenant, or the first one.
GetUsage(o, s, q) ==
  Try(GetTenant(o.db, q.c.tenant), 500, s, LAMBDA t :
    LET max == IF t.rows[1].plan \in DOMAIN PlanApps THEN PlanApps[t.rows[1].plan] ELSE PlanApps["free"]
        used == ListAppsByTenant(o.db, q.c.tenant, 1, 0).n
    IN  OK(s, [apps |-> used, ok |-> max < 0 \/ used < max]))
\* The value of the newest record of one of the metrics among the last 100.
latestUsageMetric(s, tenant, metrics) ==
  LET rows == SelectSeq(ListUsageRecordsByTenant(s.db, tenant, 100, 0).rows, LAMBDA r : r.metric \in metrics)
      best == SortSeq(rows, LAMBDA x, y : x.bucket > y.bucket)
  IN  IF best = <<>> THEN 0 ELSE best[1].value

---------------------------------------------------------------------------
\* Administrator only, by the route; requireSuperAdminClaims checks again.
LicenseGet(o, s, q) ==
  LET l == KVGet(s, "license", "current", [type |-> "community", until |-> 0])
  IN  OK(s, [type |-> l.type, status |-> IF l.until # 0 /\ s.now > l.until THEN "expired" ELSE "active"])
LicenseActivate(o, s, q) ==
  Decoded(s, q, OK(KVSet(s, "license", "current", [type |-> "enterprise", until |-> s.now + 365], 0), "activated"))
TenantRateLimit(o, s, q) ==
  IF q.get THEN OK(s, KVGet(s, "tenant_ratelimit", q.id, 100))
  ELSE Decoded(s, q, OK(KVSet(s, "tenant_ratelimit", q.id, IF q.ref <= 0 THEN 100 ELSE q.ref, 0), "updated"))
\* Read, changed in the fields sent, written back whole.
TenantSettings(o, s, q) ==
  Try(GetTenant(o.db, q.c.tenant), 500, s, LAMBDA r :
    IF q.get THEN OK(s, r.rows[1].meta)
    ELSE Decoded(s, q, Commit(UpdateTenant(s.db, [r.rows[1] EXCEPT !.meta = Or(q.v, @)]), 500, s, "updated")))
ListTenants(o, s, q) ==
  LET pg == parsePagination(q.page, q.per) IN OK(s, ListAllTenants(s.db, pg.perPage, pg.offset).rows)

\* API keys: a record per key and the index the list is read from.
APIKeyGenerate(o, s, q) ==
  RequireSuperAdmin(s, q,
    LET key == [user |-> q.c.user, tenant |-> q.c.tenant, until |-> 0]
    IN  Respond(201, KVSet(KVSet(s, "api_keys", q.gen, key, 0), "api_key_index", "all",
                           Append(KVGet(o, "api_key_index", "all", <<>>), q.gen), 0), q.gen))
APIKeyList(o, s, q) ==
  RequireSuperAdmin(s, q, OK(s, SelectSeq(KVGet(s, "api_key_index", "all", <<>>), LAMBDA k : KVLive(s, "api_keys", k))))
APIKeyRevoke(o, s, q) ==
  RequireSuperAdmin(s, q, LET gone == KVDelete(s, "api_keys", q.ref) IN Respond(204,
    IF ~KVLive(o, "api_key_index", "all") THEN gone
    ELSE KVSet(gone, "api_key_index", "all", SelectSeq(KVGet(o, "api_key_index", "all", <<>>), LAMBDA k : k # q.ref), 0), q.ref))
\* On a ticker: keys past their expiry, of which Generate sets none.
CleanupExpiredKeys(s) ==
  LET idx == KVGet(s, "api_key_index", "all", <<>>)
      Dead(k) == KVLive(s, "api_keys", k) /\ KVGet(s, "api_keys", k, "").until \in 1 .. s.now - 1
      dead == {k \in ToSet(idx) : Dead(k)}
  IN  IF dead = {} THEN s
      ELSE KVSet([s EXCEPT !.kv["api_keys"] = [k \in DOMAIN @ \ dead |-> @[k]]], "api_key_index", "all",
                 SelectSeq(idx, LAMBDA k : KVLive(s, "api_keys", k) /\ k \notin dead), 0)

Branding(o, s, q) == IF q.get THEN OK(s, s.brand) ELSE Decoded(s, q, OK([s EXCEPT !.brand = q.v], q.v))
NotificationTest(o, s, q) ==
  Decoded(s, q, CASE q.ext = "none" -> Err(503, s) [] q.ext = "no" -> Err(500, s) [] OTHER -> OK(s, "sent"))
\* Answers "updated" and keeps nothing.
UpdateSettings(o, s, q) == Decoded(s, q, OK(s, "updated"))

---------------------------------------------------------------------------
\* Images: those without a tag are removed; one that cannot be is skipped.
Dangling(s) == SelectSeq(s.img, LAMBDA i : ~i.tagged)
Prune(o, s, q) ==
  CASE q.ext = "none" -> Err(503, s)
    [] q.ext = "no" -> Err(500, s)
    [] OTHER -> OK([s EXCEPT !.img = SelectSeq(@, LAMBDA i : i.tagged \/ i.busy)],
                   Len(SelectSeq(Dangling(s), LAMBDA i : ~i.busy)))
DanglingImages(o, s, q) ==
  CASE q.ext = "none" -> Err(503, s) [] q.ext = "no" -> Err(500, s) [] OTHER -> OK(s, Len(Dangling(s)))
BuildCacheClear(o, s, q) ==
  IF q.ext = "no" THEN Err(500, s)
  ELSE OK(KVSet([s EXCEPT !.img = IF q.ext = "none" THEN @ ELSE SelectSeq(@, LAMBDA i : i.tagged \/ i.busy)],
                "buildcache", "stats", "zero", 0), "cleared")
BuildCacheStats(o, s, q) ==
  IF q.ext = "no" THEN Err(500, s) ELSE OK(s, <<IF q.ext = "none" THEN 0 ELSE Len(s.img), KVGet(s, "buildcache", "stats", "zero")>>)

\* Views over an app's containers: none is 404, no runtime 503.
InContainer(o, s, q, F(_)) ==
  WithApp(o, s, q, LAMBDA a :
    IF q.ext = "none" THEN Err(503, s) ELSE IF OfApp(s, a.id) = <<>> THEN Err(404, s) ELSE F(OfApp(s, a.id)[1]))
GetLogs(o, s, q) == InContainer(o, s, q, LAMBDA c : IF q.ext = "no" THEN Err(500, s) ELSE OK(s, c.id))
Top(o, s, q) == InContainer(o, s, q, LAMBDA c : OK(s, c.id))
LogDownload(o, s, q) ==
  IF q.ext = "none" THEN Err(503, s) ELSE IF OfApp(s, q.id) = <<>> THEN Err(404, s)
  ELSE IF q.ext = "no" THEN Err(500, s) ELSE OK(s, OfApp(s, q.id)[1].id)
AppStats(o, s, q) ==
  WithApp(o, s, q, LAMBDA a : CASE q.ext = "none" -> Err(503, s) [] q.ext = "no" -> Err(500, s)
    [] OTHER -> OK(s, [n |-> Len(OfApp(s, a.id)), up |-> Len(SelectSeq(OfApp(s, a.id), LAMBDA c : c.state = "running"))]))
AppDisk(o, s, q) ==
  WithApp(o, s, q, LAMBDA a :
    OK(s, IF q.ext = "none" THEN <<>> ELSE SelectSeq(s.img, LAMBDA i : \E c \in ToSet(OfApp(s, a.id)) : c.image = i.id)))
\* History: the stored ring, else a live or an empty one.
Ring(o, s, q, bucket, key) == WithApp(o, s, q, LAMBDA a : OK(s, KVGet(s, bucket, key, "empty")))
AppMetrics(o, s, q) == Ring(o, s, q, "metrics_ring", <<q.id, q.v>>)
ContainerHistory(o, s, q) == Ring(o, s, q, "metrics_ring", <<q.id, "">>)
MetricsExport(o, s, q) == Ring(o, s, q, "metrics_export", q.id)
UsageHourly(o, s, q) == OK(s, KVGet(s, "usage_history", <<q.c.tenant, q.v>>, "empty"))
BuildLog(o, s, q) ==
  WithApp(o, s, q, LAMBDA a : Try(GetLatestDeployment(s.db, a.id), 404, s, LAMBDA r : OK(s, r.rows[1].version)))

\* Views over a tenant.
Feed(o, s, q) ==
  LET pg == parsePagination(q.page, q.per) IN OK(s, ListAuditLogs(s.db, q.c.tenant, pg.perPage, pg.offset).rows)
AppsOf(s, q) == ListAppsByTenant(s.db, q.c.tenant, 10000, 0).rows
DashboardStats(o, s, q) ==
  OK(s, [apps |-> Len(AppsOf(s, q)), projects |-> Len(ListProjectsByTenant(s.db, q.c.tenant).rows),
         domains |-> FoldLeft(LAMBDA n, a : n + Len(ListDomainsByApp(s.db, a.id, q.c.tenant).rows), 0, AppsOf(s, q)),
         running |-> Len(ListByLabels(s, LAMBDA c : c.tenant = q.c.tenant /\ c.state = "running"))])
Search(o, s, q) ==
  LET Hit(rows) == SelectSeq(rows, LAMBDA r : r.name = q.ref)
      ids == {a.id : a \in ToSet(AppsOf(s, q))}
      found == Hit(AppsOf(s, q))
               \o SelectSeq(ListDomainsByAppIDs(s.db, ids, q.c.tenant).rows, LAMBDA d : d.fqdn = q.ref)
               \o Hit(ListProjectsByTenant(s.db, q.c.tenant).rows)
  IN  Decoded(s, q, OK(s, SubSeq(found, 1, Min2(20, Len(found)))))
\* The images of the latest deployments of the tenant's apps, and no others.
ImageTags(o, s, q) ==
  Decoded(s, q, LET apps == {a.id : a \in ToSet(AppsOf(s, q))}
                    mine == {x.image : x \in ToSet(GetLatestDeploymentsByAppIDs(s.db, apps).rows)}
    IN  IF q.ref \notin mine THEN Err(403, s) ELSE OK(s, SelectSeq(s.img, LAMBDA i : i.id = q.ref)))
VolumeList(o, s, q) == OK(s, {c.app : c \in ToSet(ListByLabels(s, LAMBDA c : c.tenant = q.c.tenant))} \ {NoID})
VolumeCreate(o, s, q) ==   \* answers "created" and makes nothing
  Decoded(s, q, IF q.id # NoID /\ q.id \notin OwnedApps(s.db, q.c.tenant) THEN Err(404, s) ELSE Respond(201, s, "created"))

\* Views over the platform.
Counted(s) == [all |-> Len(s.rt), up |-> Len(ListByLabels(s, LAMBDA c : c.state = "running"))]
ServerStats(o, s, q) == IF q.ext = "none" THEN Err(503, s) ELSE OK(s, Counted(s))
Metrics(o, s, q) == OK(s, Counted(s))
alertRule(value, threshold, available) == IF ~available THEN "unknown" ELSE IF value >= threshold THEN "alert" ELSE "ok"
Alerts(o, s, q) ==
  OK(s, [cpu |-> alertRule(q.ref, 90, q.ext = "yes"), down |-> alertRule(Counted(s).all - Counted(s).up, 1, q.ext # "none")])
\* modules: their health; the answer is 503 when one is down or the store is.
DetailedHealth(s, health, dbUp) ==
  Respond(IF (\A m \in DOMAIN health : health[m] \in {"ok", "degraded"}) /\ dbUp THEN 200 ELSE 503, s, health)
PlatformOverview(s, health) ==
  OK(s, [h \in {"ok", "degraded", "down"} |-> Cardinality({m \in DOMAIN health : health[m] = h})])
===========================================================================
