-------------------------- MODULE PipelineHandlers --------------------------
(***************************************************************************)
(* Creating, listing and removing applications, and what surrounds a       *)
(* deployment: internal/api/handlers/{apps_domain, deploy_pipeline, bulk,  *)
(* commands, exec, restart_history, import_export, compose,                *)
(* marketplace_deploy, cronjobs, autoscale, dependencies, filebrowser}.go  *)
(* with the compose and auto-domain code they start.  The deployment of a  *)
(* single image or repository is module AppDeploy.                         *)
(*                                                                         *)
(* s.rt is the sequence of containers the runtime lists, s.jobs the work a *)
(* handler left to a goroutine: it ends by RunJob, after other requests or *)
(* before.  Published events are left out.                                 *)
(***************************************************************************)
EXTENDS AppHandlers

CONSTANTS FreezeLimit,   \* 50 freeze windows, 50 cron jobs
          BulkLimit,     \* 50 apps in one bulk call
          AppCap,        \* limits.max_apps_per_tenant, 0 for none
          PlanApps       \* billing.BuiltinPlans: plan id -> MaxApps

\* ContainerRuntime.ListByLabels.
ListByLabels(s, P(_)) == SelectSeq(s.rt, P)
OfApp(s, app) == ListByLabels(s, LAMBDA c : c.app = app)

---------------------------------------------------------------------------
AppMiddleware(o, s, q) == Setting(o, s, q, "app_middleware", "default")
Maintenance(o, s, q) == Setting(o, s, q, "maintenance", "off")
DeployNotify(o, s, q) == Setting(o, s, q, "deploy_notify", "none")

Pin(o, s, q) ==
  WithApp(o, s, q, LAMBDA a :
    LET pins == KVGet(o, "app_pins", q.c.user, <<>>)
    IN  IF a.id \in ToSet(pins) THEN OK(s, "already pinned")
        ELSE OK(KVSet(s, "app_pins", q.c.user, Append(pins, a.id), 0), a.id))
Unpin(o, s, q) ==
  WithApp(o, s, q, LAMBDA a :
    IF ~KVLive(o, "app_pins", q.c.user) THEN OK(s, "not pinned")
    ELSE OK(KVSet(s, "app_pins", q.c.user,
                  SelectSeq(KVGet(o, "app_pins", q.c.user, <<>>), LAMBDA x : x # a.id), 0), a.id))

Rename(o, s, q) == Decoded(s, q, SaveApp(o, s, q, LAMBDA a : [a EXCEPT !.name = q.gen]))
AppUpdate(o, s, q) ==
  SaveApp(o, s, q, LAMBDA a : [a EXCEPT !.name = IF q.ref = NoID THEN @ ELSE q.ref,
                                        !.body.replicas = Or(q.v, @)])
AppList(o, s, q) ==
  LET pg == parsePagination(q.page, q.per)
  IN  Try(ListAppsByTenant(s.db, q.c.tenant, pg.perPage, pg.offset), 500, s, LAMBDA r : OK(s, r.rows))
AppGet(o, s, q) == WithApp(o, s, q, LAMBDA a : OK(s, a))

builtinPlanAppLimit(plan) == IF plan \in DOMAIN PlanApps THEN PlanApps[plan] ELSE 0
stricterPositiveLimit(a, b) == IF a <= 0 THEN b ELSE IF b <= 0 THEN a ELSE Min2(a, b)
effectiveAppLimit(o, tenant) ==
  LET t == GetTenant(o.db, tenant)
  IN  IF t.err # "" THEN AppCap ELSE stricterPositiveLimit(AppCap, builtinPlanAppLimit(t.rows[1].plan))

NewApp(q, name, project, status) ==
  [id |-> NoID, tenant |-> q.c.tenant, project |-> project, name |-> name, status |-> status,
   body |-> [env |-> "", labels |-> {}, replicas |-> "1"]]
AppCreate(o, s, q) ==
  LET limit == effectiveAppLimit(o, q.c.tenant)
  IN  Decoded(s, q,
        IF GetAppByName(o.db, q.c.tenant, q.gen).err = "" THEN Err(409, s)
        ELSE IF limit > 0 /\ ListAppsByTenant(o.db, q.c.tenant, 1, 0).n >= limit THEN Err(429, s)
        ELSE Try(CreateApp(s.db, NewApp(q, q.gen, q.ref, "pending"), q.gen), 500, s, LAMBDA r :
               Respond(201, [s EXCEPT !.db = r.db,
                                      !.jobs = Append(@, [kind |-> "domain", app |-> q.gen, tenant |-> q.c.tenant])], q.gen)))

\* The container asked for is "dm-<app>"; deployments name theirs
\* "dm-<app>-<version>", so Stop and Remove meet no container.
AppDelete(o, s, q) ==
  WithApp(o, s, q, LAMBDA a :
    Try(DeleteDomainsByApp(s.db, a.id, a.tenant), 500, s, LAMBDA r :
      Try(DeleteApp(r.db, a.id, a.tenant), 500, [s EXCEPT !.db = r.db], LAMBDA e :
        Respond(204, [s EXCEPT !.db = e.db], a.id))))

\* The goroutine of AppCreate works on the request's context, which ends
\* with the request: each of its two store calls may find it cancelled.
AutoDomain(s, j, cancelled) ==
  IF cancelled \/ GetDomainByFQDN(s.db, j.app).err = "" THEN s
  ELSE [s EXCEPT !.db = CreateDomain(@, [id |-> NoID, app |-> j.app, fqdn |-> j.app, type |-> "auto"], j.app).db]

---------------------------------------------------------------------------
\* Freeze windows of a tenant.
activeDeployFreeze(s, tenant) ==
  \E w \in ToSet(KVGet(s, "deploy_freeze", tenant, <<>>)) : w.active /\ w.from < s.now /\ s.now < w.to
FreezeGet(o, s, q) ==
  OK(s, [frozen |-> activeDeployFreeze(s, q.c.tenant),
         windows |-> SelectSeq(KVGet(s, "deploy_freeze", q.c.tenant, <<>>), LAMBDA w : w.active)])
FreezeCreate(o, s, q) ==
  LET list == KVGet(o, "deploy_freeze", q.c.tenant, <<>>)
      window == [id |-> q.gen, active |-> TRUE, from |-> o.now, to |-> o.now + 24]
  IN  Decoded(s, q, IF Len(list) >= FreezeLimit THEN Err(409, s)
        ELSE Respond(201, KVSet(s, "deploy_freeze", q.c.tenant, Append(list, window), 0), q.gen))
FreezeDelete(o, s, q) ==
  LET list == KVGet(o, "deploy_freeze", q.c.tenant, <<>>)
  IN  IF ~KVLive(o, "deploy_freeze", q.c.tenant) THEN Respond(204, s, "")
      ELSE Respond(204, KVSet(s, "deploy_freeze", q.c.tenant, [i \in DOMAIN list |->
             [list[i] EXCEPT !.active = @ /\ list[i].id # q.ref]], 0), q.ref)

\* Approval requests live in memory; nothing in the repository files one.
ApprovalList(o, s, q) == OK(s, {r \in ToSet(s.approvals) : r.status = "pending" /\ r.tenant = q.c.tenant})
Review(s, q, verdict) ==
  IF q.id \notin DOMAIN s.approvals THEN Err(404, s)
  ELSE IF s.approvals[q.id].status # "pending" THEN Err(409, s)
  ELSE IF s.approvals[q.id].tenant # q.c.tenant THEN Err(403, s)
  ELSE OK([s EXCEPT !.approvals[q.id].status = verdict], verdict)
Approve(o, s, q) == Review(s, q, "approved")
Reject(o, s, q) == Decoded(s, q, Review(s, q, "rejected"))

\* Reading the deployments of an app.
Versions(s, app, n) == ListDeploymentsByApp(s.db, app, n).rows
DeploymentList(o, s, q) ==
  WithApp(o, s, q, LAMBDA a : OK(s, Versions(s, a.id, parsePagination(q.page, q.per).perPage)))
DeploymentLatest(o, s, q) ==
  WithApp(o, s, q, LAMBDA a : Try(GetLatestDeployment(s.db, a.id), 404, s, LAMBDA r : OK(s, r.rows[1])))
DeployDiff(o, s, q) ==
  WithApp(o, s, q, LAMBDA a :
    LET found == {x \in ToSet(Versions(s, a.id, 50)) : x.version \in {q.ref, q.ref + 1}}
    IN  IF q.ref <= 0 THEN Err(400, s) ELSE IF Cardinality(found) < 2 THEN Err(404, s) ELSE OK(s, found))
DeployPreview(o, s, q) ==
  WithApp(o, s, q, LAMBDA a : OK(s,
    [next |-> GetNextDeployVersion(s.db, a.id).n, current |-> GetLatestDeployment(s.db, a.id).rows]))
ListVersions(o, s, q) ==
  WithApp(o, s, q, LAMBDA a :
    LET vs == Versions(s, a.id, 20)
    IN  OK(s, [i \in DOMAIN vs |-> [version |-> vs[i].version, current |-> i = 1]]))
\* The newest deployment of that commit goes to RollbackEngine, which
\* module AppDeploy models; the answer is its version.
RollbackToCommit(o, s, q) ==
  WithApp(o, s, q, LAMBDA a : Decoded(s, q,
    LET at == SelectSeq(Versions(s, a.id, 50), LAMBDA x : x.commit = q.ref)
    IN  IF at = <<>> THEN Err(404, s) ELSE OK(s, at[1].version)))

---------------------------------------------------------------------------
\* One row at a time; the first failure after a success puts the statuses
\* read at the start back, except for deletes.
BulkStep(s, q, original, acc, id) ==
  IF acc.stopped THEN acc
  ELSE
    LET app == SelectSeq(original, LAMBDA a : a.id = id)
        own == app # <<>> /\ app[1].tenant = q.c.tenant
        rep == CASE q.v = "start" -> UpdateAppStatus(acc.db, id, "running", q.c.tenant)
                 [] q.v \in {"stop", "restart"} -> UpdateAppStatus(acc.db, id, "stopped", q.c.tenant)
                 [] q.v = "delete" -> DeleteApp(acc.db, id, q.c.tenant)
                 [] OTHER -> Fail(acc.db, "unknown action")
        end == IF q.v = "restart" THEN UpdateAppStatus(rep.db, id, "running", q.c.tenant) ELSE rep
        Restored == FoldLeft(LAMBDA d, x : UpdateAppStatus(d, x.id, x.status, x.tenant).db, acc.db, acc.done)
    IN  IF own /\ end.err = ""
        THEN [acc EXCEPT !.db = end.db, !.n = @ + 1,
                         !.done = IF q.v = "delete" THEN @ ELSE Append(@, app[1])]
        ELSE IF acc.n > 0 THEN [acc EXCEPT !.db = Restored, !.stopped = TRUE] ELSE acc
BulkExecute(o, s, q) ==
  Decoded(s, q,
    IF Len(q.ids) > BulkLimit THEN Err(400, s)
    ELSE LET original == GetAppsByIDs(o.db, ToSet(q.ids)).rows
             end == FoldLeft(LAMBDA acc, id : BulkStep(s, q, original, acc, id),
                             [db |-> s.db, done |-> <<>>, n |-> 0, stopped |-> FALSE], q.ids)
         IN  OK([s EXCEPT !.db = end.db], [done |-> IF end.stopped THEN 0 ELSE end.n, back |-> end.stopped]))

---------------------------------------------------------------------------
\* A command in the app's first container; q.ext = "no" makes it fail.
CommandRun(o, s, q) ==
  WithApp(o, s, q, LAMBDA a : Decoded(s, q,
    IF OfApp(s, a.id) = <<>> THEN Err(404, s)
    ELSE Respond(IF q.ext = "yes" THEN 200 ELSE 502,
                 KVSet(s, "app_commands", <<a.id, q.gen>>, [by |-> q.c.user, ok |-> q.ext = "yes"], 30), q.gen)))
CommandHistory(o, s, q) ==
  WithApp(o, s, q, LAMBDA a : OK(s, {k \in KVList(s, "app_commands") : k[1] = a.id}))

auditExec(s, q, app, action) ==
  [s EXCEPT !.db = CreateAuditLog(@, [id |-> NoID, tenant |-> q.c.tenant, user |-> q.c.user, action |-> action, ref |-> app], q.gen).db]
Exec_(o, s, q) ==
  Decoded(s, q, WithApp(o, s, q, LAMBDA a :
    IF OfApp(s, a.id) = <<>> THEN Err(404, s)
    ELSE IF q.ext = "none" THEN Err(500, auditExec(s, q, a.id, "container.exec.failed"))
    ELSE OK(auditExec(s, q, a.id, "container.exec.success"), q.ext)))

\* persist of SubscribeRestartHistory, and its reader (newest first, 200).
PersistRestart(s, app, reason, gen) == KVSet(s, "restart_history", <<app, gen>>, reason, 30)
RestartHistoryList(o, s, q) ==
  WithApp(o, s, q, LAMBDA a : OK(s, {k \in KVList(s, "restart_history") : k[1] = a.id}))

AutoscaleUpdate(o, s, q) == Setting(o, s, q, "autoscale", "disabled")
CronList(o, s, q) == WithApp(o, s, q, LAMBDA a : OK(s, KVGet(s, "cronjobs", a.id, <<>>)))
DependencyGraph(o, s, q) ==
  WithApp(o, s, q, LAMBDA a : OK(s, <<a>> \o ListByLabels(s, LAMBDA c : c.kind = "stack" /\ c.tenant = q.c.tenant /\ c.app # a.id)))
FileList(o, s, q) ==
  WithApp(o, s, q, LAMBDA a : Decoded(s, q, IF OfApp(s, a.id) = <<>> THEN Err(404, s) ELSE OK(s, "entries")))

---------------------------------------------------------------------------
\* An app made from a manifest, a compose file, a template or a backup goes
\* to the first project of the tenant.
FirstProject(o, tenant) ==
  LET ps == ListProjectsByTenant(o.db, tenant).rows IN IF ps = <<>> THEN NoID ELSE ps[1].id
Export(o, s, q) ==
  WithApp(o, s, q, LAMBDA a : OK(s, [app |-> a.body, domains |-> ListDomainsByApp(s.db, a.id, a.tenant).rows]))
Import(o, s, q) ==
  Decoded(s, q, Try(CreateApp(s.db, NewApp(q, q.gen, FirstProject(o, q.c.tenant), "pending"), q.gen), 500, s, LAMBDA r :
    Respond(201, [s EXCEPT !.db = FoldLeft(LAMBDA d, f :
        CreateDomain(d, [id |-> NoID, app |-> q.gen, fqdn |-> f, type |-> "custom"], f).db, r.db, q.ids)], q.gen)))

Launch(o, s, q, status) ==
  Try(CreateApp(s.db, NewApp(q, q.gen, FirstProject(o, q.c.tenant), status), q.gen), 500, s, LAMBDA r :
    Respond(202, [s EXCEPT !.db = r.db,
                  !.jobs = Append(@, [kind |-> "stack", app |-> q.gen, tenant |-> q.c.tenant])], q.gen))
ComposeDeploy(o, s, q) ==
  IF activeDeployFreeze(o, q.c.tenant) THEN Err(423, s) ELSE Decoded(s, q, Launch(o, s, q, "deploying"))
ComposeValidate(o, s, q) == OK(s, q.ok)
MarketplaceDeploy(o, s, q) ==
  IF activeDeployFreeze(o, q.c.tenant) THEN Err(423, s)
  ELSE Decoded(s, q, IF q.ext = "none" THEN Err(404, s) ELSE Launch(o, s, q, "deploying"))

\* StackDeployer.Deploy: a container per service in dependency order; on a
\* failure after some were created, those are stopped and removed.
rollback(s, created) == [s EXCEPT !.rt = SelectSeq(@, LAMBDA c : c.id \notin created)]
deployService(s, j, i) == [s EXCEPT !.rt = Append(@, [id |-> <<j.app, i>>, app |-> j.app, tenant |-> j.tenant, kind |-> "stack", state |-> "running"])]
StackDeploy(s, j, services, fails) ==
  LET up == FoldLeft(LAMBDA t, i : deployService(t, j, i), s, [i \in 1..(IF fails = 0 THEN services ELSE fails - 1) |-> i])
  IN  IF fails = 0 THEN up ELSE rollback(up, {<<j.app, i>> : i \in 1..(fails - 1)})
\* The goroutine then records the outcome in the app's row, if it still exists.
RunStack(s, j, services, fails) ==
  [StackDeploy(s, j, services, fails) EXCEPT
     !.db = UpdateAppStatus(@, j.app, IF fails = 0 THEN "running" ELSE "failed", j.tenant).db]
===========================================================================
