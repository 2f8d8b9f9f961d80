---------------------------- MODULE SQLiteStore ----------------------------
(***************************************************************************)
(* core.Store on SQLite (internal/db/*.go, type SQLiteDB), one operator    *)
(* per method: the database before, the arguments, the reply.              *)
(*                                                                         *)
(* Rows keep the columns some statement reads or writes on its own; the    *)
(* rest of a row is its field body.  gen is the id core.GenerateID would   *)
(* draw.  meta stands for a tenant's limits_json and metadata_json.        *)
(***************************************************************************)
EXTENDS Tables

CreateTenant(d, t, gen) == Tx(d, Insert(d, "tenants", WithID(t, gen)))
GetTenant(d, id) == One(d, Where(d, "tenants", LAMBDA r : r.id = id), "not found")
GetTenantBySlug(d, slug) == One(d, Where(d, "tenants", LAMBDA r : r.slug = slug), "not found")
UpdateTenant(d, t) ==
  Tx(d, Exec(Update(d, "tenants", LAMBDA r : r.id = t.id, LAMBDA r : [t EXCEPT !.owner = r.owner])))
DeleteTenant(d, id, tenant) ==
  Tx(d, Exec(Delete(d, "tenants", LAMBDA r : r.id = id /\ r.id = tenant)))
ListAllTenants(d, limit, offset) == Page(d, Reverse(d.tenants), limit, offset)

CreateUser(d, u, gen) == Tx(d, Insert(d, "users", WithID(u, gen)))
GetUser(d, id) == One(d, Where(d, "users", LAMBDA r : r.id = id), "not found")
GetUserByEmail(d, email) == One(d, Where(d, "users", LAMBDA r : r.email = email), "not found")
UpdateUser(d, u) ==
  Tx(d, Exec(Update(d, "users", LAMBDA r : r.id = u.id,
                    LAMBDA r : [r EXCEPT !.email = u.email, !.status = u.status])))
UpdatePassword(d, id, hash) ==
  Tx(d, Exec(Update(d, "users", LAMBDA r : r.id = id, LAMBDA r : [r EXCEPT !.hash = hash])))
UpdateLastLogin(d, id) ==
  Exec(Update(d, "users", LAMBDA r : r.id = id, LAMBDA r : [r EXCEPT !.login = TRUE]))
UpdateTOTPEnabled(d, id, on, secret) ==
  Exec(Update(d, "users", LAMBDA r : r.id = id, LAMBDA r : [r EXCEPT !.totp = on, !.secret = secret]))
UpdateTOTPBackupCodes(d, id, codes) ==
  Exec(Update(d, "users", LAMBDA r : r.id = id, LAMBDA r : [r EXCEPT !.codes = codes]))
\* The query filters on users.tenant_id, a column no migration creates.
GetUsersByIDs(d, ids, tenant) == IF ids = {} THEN Done(d) ELSE Fail(d, "error")
CountUsers(d) == Reply(d, "", <<>>, Len(d.users))

CreateTenantWithDefaults(d, t, gen) ==
  Tx(d, Then(Insert(d, "tenants", [t EXCEPT !.id = gen, !.status = "active", !.owner = NoID, !.meta = "{}"]),
        LAMBDA e : [Insert(e, "projects", [id |-> gen + 1, tenant |-> gen, name |-> DefaultName]) EXCEPT !.n = gen]))
CreateUserWithMembership(d, u, tenant, role, gen) ==
  Tx(d, Then(Insert(d, "users", [u EXCEPT !.id = gen]),
        LAMBDA e : Then(Insert(e, "members", [id |-> gen + 1, tenant |-> tenant, user |-> gen,
                                              role |-> role, status |-> "active"]),
        LAMBDA f : [Update(f, "tenants", LAMBDA r : r.id = tenant,
                           LAMBDA r : [r EXCEPT !.owner = gen]) EXCEPT !.n = gen])))
GetUserMembership(d, user) ==
  One(d, Where(d, "members", LAMBDA r : r.user = user /\ r.status = "active"), "not found")
ListTeamMembers(d, tenant) ==
  Capped(d, Where(d, "members", LAMBDA r : r.tenant = tenant /\ r.status = "active"))
RemoveTeamMember(d, tenant, id) ==
  Affected(Update(d, "members", LAMBDA r : r.id = id /\ r.tenant = tenant /\ r.status = "active",
                  LAMBDA r : [r EXCEPT !.status = "removed"]), "not found")
GetRole(d, id) == One(d, Where(d, "roles", LAMBDA r : r.id = id), "not found")
ListRoles(d, tenant) ==
  Capped(d, SortSeq(Where(d, "roles", LAMBDA r : r.tenant = tenant \/ r.builtin),
                    LAMBDA r, q : (r.builtin /\ ~q.builtin) \/ (r.builtin = q.builtin /\ r.name < q.name)))

CreateProject(d, p, gen) == Tx(d, Insert(d, "projects", WithID(p, gen)))
GetProject(d, id) == One(d, Where(d, "projects", LAMBDA r : r.id = id), "not found")
ListProjectsByTenant(d, tenant) == Capped(d, ByName(Where(d, "projects", LAMBDA r : r.tenant = tenant)))
DeleteProject(d, id) == Tx(d, Exec(Delete(d, "projects", LAMBDA r : r.id = id)))

CreateApp(d, a, gen) == Tx(d, Insert(d, "apps", WithID(a, gen)))
GetApp(d, id) == One(d, Where(d, "apps", LAMBDA r : r.id = id), "not found")
GetAppsByIDs(d, ids) == Reply(d, "", Where(d, "apps", LAMBDA r : r.id \in ids), 0)
GetAppByName(d, tenant, name) ==
  One(d, Where(d, "apps", LAMBDA r : r.tenant = tenant /\ r.name = name), "not found")
ListAppsByTenant(d, tenant, limit, offset) ==
  Page(d, Reverse(Where(d, "apps", LAMBDA r : r.tenant = tenant)), limit, offset)
ListAppsByProject(d, project, tenant) ==
  Capped(d, ByName(Where(d, "apps", LAMBDA r : r.project = project /\ r.tenant = tenant)))
UpdateApp(d, a) ==
  Tx(d, Exec(Update(d, "apps", LAMBDA r : r.id = a.id,
                    LAMBDA r : [r EXCEPT !.name = a.name, !.status = a.status, !.body = a.body])))
UpdateAppStatus(d, id, status, tenant) ==
  Exec(Update(d, "apps", LAMBDA r : r.id = id /\ r.tenant = tenant, LAMBDA r : [r EXCEPT !.status = status]))
DeleteApp(d, id, tenant) ==
  Tx(d, Exec(Delete(d, "apps", LAMBDA r : r.id = id /\ r.tenant = tenant)))

CreateDeployment(d, x, gen) == Tx(d, Insert(d, "deployments", WithID(x, gen)))
CreateDeploymentAtomicVersion(d, x, gen) ==
  LET v == MaxVersion(Where(d, "deployments", LAMBDA r : r.app = x.app)) + 1
  IN  Tx(d, [Insert(d, "deployments", [WithID(x, gen) EXCEPT !.version = v]) EXCEPT !.n = v])
UpdateDeployment(d, x) ==
  Tx(d, Exec(Update(d, "deployments", LAMBDA r : r.id = x.id, LAMBDA r : [r EXCEPT !.status = x.status])))
GetLatestDeployment(d, app) ==
  One(d, Newest(Where(d, "deployments", LAMBDA r : r.app = app)), "not found")
ListDeploymentsByStatus(d, status) ==
  Capped(d, Reverse(Where(d, "deployments", LAMBDA r : r.status = status)))
ListDeploymentsByApp(d, app, limit) ==
  LET rows == Newest(Where(d, "deployments", LAMBDA r : r.app = app))
  IN  [Page(d, rows, limit, 0) EXCEPT !.n = 0]
GetNextDeployVersion(d, app) ==
  Reply(d, "", <<>>, MaxVersion(Where(d, "deployments", LAMBDA r : r.app = app)) + 1)
\* Called by itself: BEGIN IMMEDIATE, the read and COMMIT leave the tables alone.
AtomicNextDeployVersion(d, app) == GetNextDeployVersion(d, app)
\* The rows with the maximum version of their app; the map keeps one per app.
GetLatestDeploymentsByAppIDs(d, apps) ==
  Reply(d, "", Where(d, "deployments", LAMBDA r :
     /\ r.app \in apps
     /\ r.version = MaxVersion(Where(d, "deployments", LAMBDA q : q.app = r.app))), 0)

CreateDomain(d, x, gen) == Tx(d, Insert(d, "domains", WithID(x, gen)))
GetDomainByFQDN(d, fqdn) == One(d, Where(d, "domains", LAMBDA r : r.fqdn = fqdn), "not found")
GetDomain(d, id) == One(d, Where(d, "domains", LAMBDA r : r.id = id), "not found")
OwnedApps(d, tenant) == {d.apps[i].id : i \in {j \in DOMAIN d.apps : d.apps[j].tenant = tenant}}
ListDomainsByApp(d, app, tenant) ==
  Capped(d, Where(d, "domains", LAMBDA r : r.app = app /\ app \in OwnedApps(d, tenant)))
DeleteDomainsByApp(d, app, tenant) ==
  Delete(d, "domains", LAMBDA r : r.app = app /\ r.app \in OwnedApps(d, tenant))
ListAllDomains(d) == Capped(d, d.domains)
DeleteDomain(d, id, tenant) ==
  Tx(d, Exec(Delete(d, "domains", LAMBDA r : r.id = id /\ r.app \in OwnedApps(d, tenant))))
ListDomainsByAppIDs(d, apps, tenant) ==
  LET allowed == apps \cap OwnedApps(d, tenant)
  IN  Reply(d, "", Where(d, "domains", LAMBDA r : r.app \in allowed), 0)

CreateSecret(d, x, gen) == Tx(d, Insert(d, "secrets", WithID(x, gen)))
CreateSecretVersion(d, v, gen) == Tx(d, Insert(d, "versions", WithID(v, gen)))
ListSecretsByTenant(d, tenant) == Capped(d, Reverse(Where(d, "secrets", LAMBDA r : r.tenant = tenant)))
DeleteSecret(d, tenant, id) ==
  Affected(Delete(d, "secrets", LAMBDA r : r.id = id /\ r.tenant = tenant), "not found")
GetSecretByScopeAndName(d, scope, name) ==
  One(d, Where(d, "secrets", LAMBDA r : r.scope = scope /\ r.name = name), "error")
ListAllSecretVersions(d) ==
  Capped(d, SortSeq(d.versions, LAMBDA r, q : \/ r.secret < q.secret
                                              \/ r.secret = q.secret /\ r.version < q.version))
UpdateSecretVersionValue(d, id, value) ==
  Tx(d, Exec(Update(d, "versions", LAMBDA r : r.id = id, LAMBDA r : [r EXCEPT !.value = value])))
GetLatestSecretVersion(d, secret) ==
  One(d, Newest(Where(d, "versions", LAMBDA r : r.secret = secret)), "error")

CreateInvite(d, x, gen) == Tx(d, Insert(d, "invites", WithID(x, gen)))
GetInviteByTokenHash(d, hash) == One(d, Where(d, "invites", LAMBDA r : r.hash = hash), "not found")
AcceptInvite(d, id) ==
  Affected(Update(d, "invites", LAMBDA r : r.id = id /\ r.status = "pending",
                  LAMBDA r : [r EXCEPT !.status = "accepted"]), "invalid token")
ListInvitesByTenant(d, tenant) == Capped(d, Reverse(Where(d, "invites", LAMBDA r : r.tenant = tenant)))

\* Empty columns take the defaults worker, custom, 22, provisioning, unknown.
CreateServer(d, x, gen) ==
  Tx(d, Insert(d, "servers",
     [WithID(x, gen) EXCEPT !.status = IF @ = "" THEN "provisioning" ELSE @]))
GetServer(d, id) == One(d, Where(d, "servers", LAMBDA r : r.id = id), "not found")
ListServersByTenant(d, tenant) ==
  Capped(d, Where(d, "servers", LAMBDA r : r.tenant \in {tenant, NoID}))
ListAllServers(d) == Capped(d, d.servers)
UpdateServerStatus(d, id, status) ==
  Tx(d, Exec(Update(d, "servers", LAMBDA r : r.id = id, LAMBDA r : [r EXCEPT !.status = status])))
DeleteServer(d, id) == Tx(d, Exec(Delete(d, "servers", LAMBDA r : r.id = id)))

PageSize(limit) == IF limit <= 0 THEN 20 ELSE limit
CreateBackup(d, b) == Insert(d, "backups", b)
ListBackupsByTenant(d, tenant, limit, offset) ==
  Page(d, Reverse(Where(d, "backups", LAMBDA r : r.tenant = tenant)), PageSize(limit), offset)
UpdateBackupStatus(d, id, status, tenant) ==
  Exec(Update(d, "backups", LAMBDA r : r.id = id /\ r.tenant = tenant,
       LAMBDA r : [r EXCEPT !.status = status, !.done = status \in {"completed", "failed"}]))
CreateUsageRecord(d, u, gen) == Insert(d, "usage", [u EXCEPT !.id = gen])
ListUsageRecordsByTenant(d, tenant, limit, offset) ==
  LET rows == Where(d, "usage", LAMBDA r : r.tenant = tenant)
  IN  Page(d, SortSeq(rows, LAMBDA r, q : r.bucket > q.bucket), PageSize(limit), offset)
CreateAuditLog(d, e, gen) == Insert(d, "audit", [e EXCEPT !.id = gen])
ListAuditLogs(d, tenant, limit, offset) ==
  Page(d, Reverse(Where(d, "audit", LAMBDA r : r.tenant = tenant)), limit, offset)
===========================================================================
