---------------------------- MODULE StoreParity ----------------------------
(***************************************************************************)
(* The two implementations of core.Store side by side: every write is made *)
(* on a SQLite and on a PostgreSQL database that started equal, and every  *)
(* read method is asked of both.  A deployment picks one of them at start  *)
(* (internal/db/module.go); nothing above core.Store knows which.          *)
(*                                                                         *)
(* area selects the tables a behaviour writes to, so that the state space  *)
(* is the sum over the areas and not their product.                        *)
(***************************************************************************)
EXTENDS Integers, Sequences

CONSTANTS ListCap, Areas, MaxGen, MaxCalls

VARIABLE db

lite == db.lite
pg == db.pg
last == db.last
gen == db.gen
area == db.area

L == INSTANCE SQLiteStore
P == INSTANCE PostgresStore

\* A caller sees the error, and the rows and counts when there is none.
Agree(l, p, Seen(_)) ==
  /\ l.err = p.err
  /\ l.err = "" => l.n = p.n /\ Seen(l.rows) = Seen(p.rows)

\* A reply without the limits and metadata of tenants.
NoMeta(rows) == [i \in DOMAIN rows |->
  IF "meta" \in DOMAIN rows[i] THEN [rows[i] EXCEPT !.meta = ""] ELSE rows[i]]

\* Rows a request may carry: ids of the two seeded tenants, or a fresh one.
Ids == 1 .. MaxGen
Tenant(i, s, m) == [id |-> i, slug |-> s, status |-> "active", owner |-> L!NoID, meta |-> m]
User(i, e) == [id |-> i, email |-> e, hash |-> "h0", status |-> "active",
               login |-> FALSE, totp |-> FALSE, secret |-> "", codes |-> {}]
App(i, t, p, n) == [id |-> i, tenant |-> t, project |-> p, name |-> n, status |-> "pending", body |-> 0]

Seed ==
  [tenants |-> <<Tenant(1, 1, "{}"), Tenant(2, 2, "{}")>>,
   users |-> <<User(1, 1)>>,
   members |-> <<[id |-> 1, tenant |-> 1, user |-> 1, role |-> "owner", status |-> "active"]>>,
   roles |-> <<[id |-> "viewer", tenant |-> 0, name |-> 2, builtin |-> TRUE],
               [id |-> "owner", tenant |-> 0, name |-> 1, builtin |-> TRUE]>>,
   projects |-> <<[id |-> 1, tenant |-> 1, name |-> 0], [id |-> 2, tenant |-> 2, name |-> 0]>>,
   apps |-> <<App(1, 1, 1, 1), App(2, 2, 2, 1)>>,
   deployments |-> <<>>, domains |-> <<>>,
   secrets |-> <<[id |-> 1, tenant |-> 1, scope |-> "tenant", name |-> 1]>>,
   versions |-> <<>>, invites |-> <<>>, servers |-> <<>>,
   backups |-> <<>>, usage |-> <<>>, audit |-> <<>>]

Init == \E a \in Areas :
  db = [lite |-> Seed, pg |-> Seed, last |-> "agree", gen |-> 2, calls |-> 0, area |-> a]

\* One call of a store method on each backend; ids used come from gen.
Call(a, l, p, used) ==
  /\ area = a
  /\ gen + used <= MaxGen /\ db.calls < MaxCalls
  /\ db' = [lite |-> l.db, pg |-> p.db, area |-> a, gen |-> gen + used, calls |-> db.calls + 1,
            last |-> IF Agree(l, p, LAMBDA rows : rows) THEN "agree"
                     ELSE IF Agree(l, p, NoMeta) THEN "meta" ELSE "differ"]

g == gen + 1

TenantCalls == \E i \in Ids, s \in 1..2, m \in {"{}", "stripe"} :
  \/ Call("tenants", L!CreateTenant(lite, Tenant(g, s + 1, m), g), P!CreateTenant(pg, Tenant(g, s + 1, m), g), 1)
  \/ Call("tenants", L!UpdateTenant(lite, Tenant(i, s, m)), P!UpdateTenant(pg, Tenant(i, s, m)), 0)
  \/ Call("tenants", L!DeleteTenant(lite, i, s), P!DeleteTenant(pg, i, s), 0)
  \/ Call("tenants", L!CreateTenantWithDefaults(lite, Tenant(0, s + 1, ""), g),
                     P!CreateTenantWithDefaults(pg, Tenant(0, s + 1, ""), g), 2)
  \/ Call("tenants", L!CreateProject(lite, [id |-> 0, tenant |-> i, name |-> s], g),
                     P!CreateProject(pg, [id |-> 0, tenant |-> i, name |-> s], g), 1)
  \/ Call("tenants", L!DeleteProject(lite, i), P!DeleteProject(pg, i), 0)

UserCalls == \E i \in Ids, e \in 1..2, t \in 1..2 :
  \/ Call("users", L!CreateUser(lite, User(0, e), g), P!CreateUser(pg, User(0, e), g), 1)
  \/ Call("users", L!UpdateUser(lite, [User(i, e) EXCEPT !.status = "suspended"]),
                   P!UpdateUser(pg, [User(i, e) EXCEPT !.status = "suspended"]), 0)
  \/ Call("users", L!UpdatePassword(lite, i, "h1"), P!UpdatePassword(pg, i, "h1"), 0)
  \/ Call("users", L!UpdateLastLogin(lite, i), P!UpdateLastLogin(pg, i), 0)
  \/ Call("users", L!UpdateTOTPEnabled(lite, i, e = 1, "s"), P!UpdateTOTPEnabled(pg, i, e = 1, "s"), 0)
  \/ Call("users", L!UpdateTOTPBackupCodes(lite, i, {e}), P!UpdateTOTPBackupCodes(pg, i, {e}), 0)
  \/ Call("users", L!CreateUserWithMembership(lite, User(0, e), t, "viewer", g),
                   P!CreateUserWithMembership(pg, User(0, e), t, "viewer", g), 2)
  \/ Call("users", L!RemoveTeamMember(lite, t, i), P!RemoveTeamMember(pg, t, i), 0)

AppCalls == \E i \in Ids, t \in 1..2, n \in 1..2, st \in {"running", "failed"} :
  \/ Call("apps", L!CreateApp(lite, App(0, t, n, n), g), P!CreateApp(pg, App(0, t, n, n), g), 1)
  \/ Call("apps", L!UpdateApp(lite, [App(i, t, n, n) EXCEPT !.body = 1, !.status = st]),
                  P!UpdateApp(pg, [App(i, t, n, n) EXCEPT !.body = 1, !.status = st]), 0)
  \/ Call("apps", L!UpdateAppStatus(lite, i, st, t), P!UpdateAppStatus(pg, i, st, t), 0)
  \/ Call("apps", L!DeleteApp(lite, i, t), P!DeleteApp(pg, i, t), 0)

Deployment(i, a, v, st) == [id |-> i, app |-> a, version |-> v, status |-> st]
DeploymentCalls == \E i \in Ids, a \in 1..2, v \in 1..3, st \in {"deploying", "failed"} :
  \/ Call("deployments", L!CreateDeployment(lite, Deployment(0, a, v, st), g),
                         P!CreateDeployment(pg, Deployment(0, a, v, st), g), 1)
  \/ Call("deployments", L!CreateDeploymentAtomicVersion(lite, Deployment(0, a, 0, st), g),
                         P!CreateDeploymentAtomicVersion(pg, Deployment(0, a, 0, st), g), 1)
  \/ Call("deployments", L!UpdateDeployment(lite, Deployment(i, a, v, st)),
                         P!UpdateDeployment(pg, Deployment(i, a, v, st)), 0)
  \/ Call("deployments", L!DeleteApp(lite, i, a), P!DeleteApp(pg, i, a), 0)

DomainCalls == \E i \in Ids, a \in 1..2, t \in 1..2, f \in 1..2 :
  \/ Call("domains", L!CreateDomain(lite, [id |-> 0, app |-> a, fqdn |-> f], g),
                     P!CreateDomain(pg, [id |-> 0, app |-> a, fqdn |-> f], g), 1)
  \/ Call("domains", L!DeleteDomain(lite, i, t), P!DeleteDomain(pg, i, t), 0)
  \/ Call("domains", L!DeleteDomainsByApp(lite, a, t), P!DeleteDomainsByApp(pg, a, t), 0)
  \/ Call("domains", L!DeleteApp(lite, i, t), P!DeleteApp(pg, i, t), 0)

Version(i, x, v, val) == [id |-> i, secret |-> x, version |-> v, value |-> val]
SecretCalls == \E i \in Ids, t \in 1..2, v \in 1..2 :
  \/ Call("secrets", L!CreateSecret(lite, [id |-> 0, tenant |-> t, scope |-> "tenant", name |-> v], g),
                     P!CreateSecret(pg, [id |-> 0, tenant |-> t, scope |-> "tenant", name |-> v], g), 1)
  \/ Call("secrets", L!CreateSecretVersion(lite, Version(0, i, v, "old"), g),
                     P!CreateSecretVersion(pg, Version(0, i, v, "old"), g), 1)
  \/ Call("secrets", L!UpdateSecretVersionValue(lite, i, "new"), P!UpdateSecretVersionValue(pg, i, "new"), 0)
  \/ Call("secrets", L!DeleteSecret(lite, t, i), P!DeleteSecret(pg, t, i), 0)

Invite(t, h) == [id |-> 0, tenant |-> t, hash |-> h, status |-> "pending"]
Server(t, st) == [id |-> 0, tenant |-> t, status |-> st]
OtherCalls == \E i \in Ids, t \in 1..2, h \in 1..2, st \in {"active", "completed"} :
  \/ Call("invites", L!CreateInvite(lite, Invite(t, h), g), P!CreateInvite(pg, Invite(t, h), g), 1)
  \/ Call("invites", L!AcceptInvite(lite, i), P!AcceptInvite(pg, i), 0)
  \/ Call("servers", L!CreateServer(lite, Server(t - 1, IF h = 1 THEN "" ELSE st), g),
                     P!CreateServer(pg, Server(t - 1, IF h = 1 THEN "" ELSE st), g), 1)
  \/ Call("servers", L!UpdateServerStatus(lite, i, st), P!UpdateServerStatus(pg, i, st), 0)
  \/ Call("servers", L!DeleteServer(lite, i), P!DeleteServer(pg, i), 0)
  \/ Call("records", L!CreateBackup(lite, [id |-> g, tenant |-> t, status |-> "pending", done |-> FALSE]),
                     P!CreateBackup(pg, [id |-> g, tenant |-> t, status |-> "pending", done |-> FALSE]), 1)
  \/ Call("records", L!UpdateBackupStatus(lite, i, st, t), P!UpdateBackupStatus(pg, i, st, t), 0)
  \/ Call("records", L!CreateUsageRecord(lite, [id |-> 0, tenant |-> t, bucket |-> h], g),
                     P!CreateUsageRecord(pg, [id |-> 0, tenant |-> t, bucket |-> h], g), 1)
  \/ Call("records", L!CreateAuditLog(lite, [id |-> 0, tenant |-> t], g),
                     P!CreateAuditLog(pg, [id |-> 0, tenant |-> t], g), 1)

Next ==
  \/ TenantCalls \/ UserCalls \/ AppCalls \/ DeploymentCalls
  \/ DomainCalls \/ SecretCalls \/ OtherCalls

Spec == Init /\ [][Next]_db

---------------------------------------------------------------------------
\* Every read method of core.Store, asked of both backends, by area: a pair
\* of the replies of the two.
Reads ==
  LET Pair(l, p) == [lite |-> l, pg |-> p]
  IN
  CASE area = "tenants" -> UNION {{
      Pair(L!GetTenant(lite, i), P!GetTenant(pg, i)),
      Pair(L!GetTenantBySlug(lite, i), P!GetTenantBySlug(pg, i)),
      Pair(L!ListAllTenants(lite, i, 1), P!ListAllTenants(pg, i, 1)),
      Pair(L!GetProject(lite, i), P!GetProject(pg, i)),
      Pair(L!ListProjectsByTenant(lite, i), P!ListProjectsByTenant(pg, i))} : i \in Ids}
    [] area = "users" -> UNION {{
      Pair(L!GetUser(lite, i), P!GetUser(pg, i)),
      Pair(L!GetUserByEmail(lite, i), P!GetUserByEmail(pg, i)),
      Pair(L!GetUsersByIDs(lite, {i}, 1), P!GetUsersByIDs(pg, {i}, 1)),
      Pair(L!CountUsers(lite), P!CountUsers(pg)),
      Pair(L!GetUserMembership(lite, i), P!GetUserMembership(pg, i)),
      Pair(L!ListTeamMembers(lite, i), P!ListTeamMembers(pg, i)),
      Pair(L!GetRole(lite, "owner"), P!GetRole(pg, "owner")),
      Pair(L!ListRoles(lite, i), P!ListRoles(pg, i))} : i \in Ids}
    [] area = "apps" -> UNION {{
      Pair(L!GetApp(lite, i), P!GetApp(pg, i)),
      Pair(L!GetAppsByIDs(lite, {i, 1}), P!GetAppsByIDs(pg, {i, 1})),
      Pair(L!GetAppByName(lite, 1, i), P!GetAppByName(pg, 1, i)),
      Pair(L!ListAppsByTenant(lite, 1, i, 1), P!ListAppsByTenant(pg, 1, i, 1)),
      Pair(L!ListAppsByProject(lite, i, 1), P!ListAppsByProject(pg, i, 1))} : i \in Ids}
    [] area = "deployments" -> UNION {{
      Pair(L!GetLatestDeployment(lite, i), P!GetLatestDeployment(pg, i)),
      Pair(L!ListDeploymentsByStatus(lite, "failed"), P!ListDeploymentsByStatus(pg, "failed")),
      Pair(L!ListDeploymentsByApp(lite, 1, i), P!ListDeploymentsByApp(pg, 1, i)),
      Pair(L!GetNextDeployVersion(lite, i), P!GetNextDeployVersion(pg, i)),
      Pair(L!AtomicNextDeployVersion(lite, i), P!AtomicNextDeployVersion(pg, i)),
      Pair(L!GetLatestDeploymentsByAppIDs(lite, {1, i}), P!GetLatestDeploymentsByAppIDs(pg, {1, i}))} : i \in Ids}
    [] area = "domains" -> UNION {{
      Pair(L!GetDomain(lite, i), P!GetDomain(pg, i)),
      Pair(L!GetDomainByFQDN(lite, i), P!GetDomainByFQDN(pg, i)),
      Pair(L!ListDomainsByApp(lite, i, 1), P!ListDomainsByApp(pg, i, 1)),
      Pair(L!ListAllDomains(lite), P!ListAllDomains(pg)),
      Pair(L!ListDomainsByAppIDs(lite, {1, i}, 1), P!ListDomainsByAppIDs(pg, {1, i}, 1))} : i \in Ids}
    [] area = "secrets" -> UNION {{
      Pair(L!ListSecretsByTenant(lite, i), P!ListSecretsByTenant(pg, i)),
      Pair(L!GetSecretByScopeAndName(lite, "tenant", i), P!GetSecretByScopeAndName(pg, "tenant", i)),
      Pair(L!ListAllSecretVersions(lite), P!ListAllSecretVersions(pg)),
      Pair(L!GetLatestSecretVersion(lite, i), P!GetLatestSecretVersion(pg, i))} : i \in Ids}
    [] area = "invites" -> UNION {{
      Pair(L!GetInviteByTokenHash(lite, i), P!GetInviteByTokenHash(pg, i)),
      Pair(L!ListInvitesByTenant(lite, i), P!ListInvitesByTenant(pg, i))} : i \in Ids}
    [] area = "servers" -> UNION {{
      Pair(L!GetServer(lite, i), P!GetServer(pg, i)),
      Pair(L!ListServersByTenant(lite, i), P!ListServersByTenant(pg, i)),
      Pair(L!ListAllServers(lite), P!ListAllServers(pg))} : i \in Ids}
    [] area = "records" -> UNION {{
      Pair(L!ListBackupsByTenant(lite, 1, i, 0), P!ListBackupsByTenant(pg, 1, i, 0)),
      Pair(L!ListUsageRecordsByTenant(lite, 1, i - 1, 1), P!ListUsageRecordsByTenant(pg, 1, i - 1, 1)),
      Pair(L!ListAuditLogs(lite, 1, i, 0), P!ListAuditLogs(pg, 1, i, 0))} : i \in Ids}

===========================================================================
