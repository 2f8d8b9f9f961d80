------------------------------- MODULE MCApi -------------------------------
(***************************************************************************)
(* Instances of Api.  The database is set up by the program's own          *)
(* operations: first-run setup, two registrations (tenants 10 and 20) and  *)
(* their apps 30, 31 and 40.  Each area adds what its requests need.       *)
(* Requests name projects of the caller's own tenant only.                 *)
(***************************************************************************)
EXTENDS Api

MCPlanApps == [free |-> 3]

Role(id, name, perms) == [id |-> id, tenant |-> NoID, name |-> name, builtin |-> TRUE, perms |-> perms]
Manage == {<<w, "*">> : w \in {"app", "project", "member", "secret", "server", "domain", "db", "network",
             "volume", "registry", "backup", "git", "marketplace", "topology", "webhook", "deploy"}}
Roles == <<Role("super_admin", 1, {<<"*">>}),
           Role("owner", 2, Manage \cup {<<"tenant", "*">>}),
           Role("admin", 3, Manage),
           Role("viewer", 4, {<<"app", "view">>, <<"app", "logs">>, <<"project", "view">>})>>
TableNames == {"tenants", "users", "members", "roles", "projects", "apps", "deployments", "domains", "secrets",
               "versions", "invites", "servers", "backups", "usage", "audit"}
Buckets == {"basic_auth", "error_pages", "response_headers", "sticky_sessions", "log_retention", "gpu_config",
            "app_middleware", "maintenance", "deploy_notify", "autoscale", "redirects", "event_webhooks", "ssh_keys",
            "registries", "registry_creds", "announcements", "webhooks", "webhook_test_logs", "app_pins", "deploy_freeze",
            "app_commands", "restart_history", "cronjobs", "domain_verify", "certificates", "wildcard_ssl",
            "wildcard_ssl_domain", "revoked_access_tokens", "revoked_tokens", "user_sessions", "account_rl",
            "totp_last_step", "api_keys", "api_key_index", "git_connections", "topologies", "license",
            "tenant_ratelimit", "buildcache", "metrics_ring", "metrics_export", "usage_history", "ratelimit", "idempotency"}
Empty == [db |-> [t \in TableNames |-> IF t = "roles" THEN Roles ELSE <<>>], kv |-> [b \in Buckets |-> <<>>],
          now |-> 1, dns |-> {}, jwt |-> <<>>, mode |-> "open", rt |-> <<>>, jobs |-> <<>>, approvals |-> <<>>,
          vps |-> {}, store |-> <<>>, img |-> <<>>, brand |-> "dm"]

Nobody == [tenant |-> NoID, user |-> NoID, role |-> "none"]
Owner(t) == [tenant |-> t, user |-> t, role |-> "owner"]
Viewer(t) == [tenant |-> t, user |-> 50, role |-> "viewer"]
Admin == [tenant |-> 1, user |-> 3, role |-> "super_admin"]

\* A request with nothing but its route and caller; the areas fill in more.
Q(g, h, c) == [g |-> g, h |-> h, c |-> c, id |-> NoID, ref |-> NoID, v |-> "", get |-> FALSE, ok |-> TRUE, gen |-> 0,
               ext |-> "yes", page |-> 1, per |-> 2, auth |-> "claims", tok |-> NoID, code |-> NoCode, pw |-> "",
               email |-> NoID, ids |-> <<>>, idem |-> 0, at |-> 2]
On(id, g, hs, c) == {[Q(g, h, c) EXCEPT !.id = id] : h \in hs}
Get(rs) == {[r EXCEPT !.get = TRUE] : r \in rs}
With(v, rs) == {[r EXCEPT !.v = v] : r \in rs}
Ref(ref, rs) == {[r EXCEPT !.ref = ref] : r \in rs}
Bad(rs) == {[r EXCEPT !.ok = FALSE] : r \in rs}
Ext(es, rs) == {[r EXCEPT !.ext = e] : e \in es, r \in rs}

---------------------------------------------------------------------------
AppSettings == {"GPU", "LogRetention", "AppMiddleware"}
Settings == {"Maintenance", "ErrorPage", "StickySession", "Autoscale", "ResponseHeaders", "DeployNotify", "BasicAuth"}
O == Owner(10)
As(auth, tok, rs) == {[r EXCEPT !.auth = auth, !.tok = tok] : r \in rs}
Signed(h, email, pw, code) == [Q("auth", h, Nobody) EXCEPT !.email = email, !.pw = pw, !.code = code]
Code(step) == [secret |-> 71, step |-> step]

SettingRequests ==
  UNION {With("x", On(30, "app", AppSettings, c) \cup On(30, "config", Settings, c)) : c \in {O, Owner(20)}}
  \cup With("x", On(30, "config", {"Maintenance"}, Viewer(10)))
  \cup Get(On(30, "app", AppSettings, O) \cup On(30, "config", Settings, O))
  \cup With("l", On(30, "app", {"LabelsUpdate", "Rename", "CloneApp"}, O))
  \cup {[Q("app", "BulkExecute", O) EXCEPT !.v = v, !.ids = ids] : v \in {"start", "restart", "delete"}, ids \in {<<30, 31>>, <<30, 40>>}}
  \cup Bad(On(30, "app", {"PortUpdate", "HealthCheckUpdate"}, O) \cup On(30, "config", {"Maintenance", "SetLimits"}, O))
RowRequests ==
  With("e1", On(30, "resource", {"EnvUpdate"}, O)) \cup With("e2", On(30, "resource", {"EnvImport"}, O))
  \cup With("3", On(30, "config", {"ScaleApp"}, O) \cup On(30, "app", {"AppUpdate"}, O))
  \cup With("l", On(30, "app", {"RestartPolicyUpdate"}, O))
  \cup With("e3", On(30, "resource", {"EnvUpdate"}, Owner(20)))
  \cup Ref(20, On(30, "app", {"TransferApp"}, Admin)) \cup On(30, "app", {"AppDelete"}, O)
  \cup {[Q("app", "BulkExecute", O) EXCEPT !.v = "start", !.ids = <<30, 40>>]}
RuleRequests ==
  On(30, "config", {"RedirectCreate", "RedirectList"}, O) \cup Ref(100, On(30, "config", {"RedirectDelete"}, O))
  \cup {Q("workflow", h, O) : h \in {"EventWebhookCreate", "EventWebhookList"}}
  \cup Ref(100, {Q("workflow", "EventWebhookDelete", O)})
  \cup {Q("workflow", h, O) : h \in {"FreezeCreate", "FreezeGet"}} \cup Ref(100, {Q("workflow", "FreezeDelete", O)})
KeyRequests ==
  {Q("workflow", "SSHKeyGenerate", O), Q("workflow", "SSHKeyList", O)} \cup With("c", {Q("resource", "RegistryAdd", O)})
  \cup {Q("resource", "RegistryList", O)} \cup On(30, "app", {"Pin", "Unpin"}, O) \cup On(31, "app", {"Pin"}, O)
  \cup On(30, "config", {"WebhookRotate"}, O) \cup On(30, "app", {"WebhookTestDeliver"}, O)
AdminRequests ==
  {Q("admin", h, Admin) : h \in {"AnnouncementCreate", "APIKeyGenerate", "APIKeyList", "LicenseActivate", "LicenseGet",
                                 "UpdateSettings", "ListTenants"}}
  \cup Ref(100, {Q("admin", h, Admin) : h \in {"AnnouncementDismiss", "APIKeyRevoke"}})
  \cup {Q("admin", "AnnouncementList", Nobody), Q("admin", "AnnouncementCreate", O)}
  \cup Ref(1, On(10, "admin", {"TenantRateLimit"}, Admin)) \cup Get({Q("admin", "Branding", Nobody)})
  \cup With("b", {Q("admin", "Branding", Admin)}) \cup As("key", 100, {Q("app", "AppList", Nobody)})
  \cup As("key", 60, {Q("app", "AppList", Nobody)})
QuotaRequests ==
  Ref(11, {Q("app", "AppCreate", O)}) \cup Ref(21, {Q("app", "AppCreate", Owner(20))})
  \cup On(30, "app", {"AppDelete"}, O) \cup Bad(Ref(11, {Q("app", "AppCreate", O)}))
IdempotentRequests ==
  {[r EXCEPT !.idem = 1] : r \in {Q("resource", "ProjectCreate", O), Q("resource", "ProjectCreate", Viewer(10))}
                                 \cup With("c", {Q("resource", "RegistryAdd", O)})}
SessionRequests ==
  {Signed("Login", 10, pw, NoCode) : pw \in {"p", "bad"}}
  \cup As("none", 70, {Q("auth", "Refresh", Nobody), Q("auth", "Logout", Nobody)})
  \cup As("none", 100, {Q("auth", "Refresh", Nobody)})
  \cup As("jwt", 70, {Q("auth", h, Nobody) : h \in {"LogoutAll", "GetCurrentUser"}})
  \cup {[Q("auth", "ChangePassword", O) EXCEPT !.pw = "p", !.v = "p2", !.tok = 70]}
TOTPRequests ==
  {Signed("Login", 10, "p", c) : c \in {NoCode, Code(0), Code(1), BackupCode(72)}}
  \cup {[Q("auth", h, O) EXCEPT !.code = Code(1)] : h \in {"DisableTOTP", "EnableTOTP"}}
  \cup {Q("auth", h, O) : h \in {"GenerateBackupCodes", "GetTOTPStatus", "EnableTOTP", "ListSessions", "UpdateProfile"}}
TeamRequests ==
  {[Q("resource", "InviteCreate", O) EXCEPT !.v = v, !.email = e] : v \in {"admin", "super_admin"}, e \in {80}}
  \cup {[Signed("Register", e, "p", NoCode) EXCEPT !.tok = tok] : e \in {80, 81}, tok \in {75, 100}}
  \cup {Signed("Register", 80, "p", NoCode)}
  \cup {Q("resource", h, O) : h \in {"InviteList", "ListMembers", "ListTeamRoles", "GetAuditLog"}}
  \cup On(11, "resource", {"RemoveMember"}, O) \cup On(77, "resource", {"RemoveMember"}, O)
DomainRequests ==
  Ref(90, On(30, "resource", {"DomainCreate"}, O)) \cup Ref(90, On(40, "resource", {"DomainCreate"}, Owner(20)))
  \cup On(30, "resource", {"DomainDelete", "DomainVerify", "DomainList"}, O) \cup On(30, "resource", {"DomainDelete"}, Owner(20))
  \cup Ref(30, On(30, "resource", {"CertificateUpload", "BatchVerify"}, O)) \cup {Q("resource", "CertificateList", O)}
  \cup {Q("resource", "DomainList", O)} \cup On(30, "app", {"AppDelete"}, O)
  \cup Ref(30, {Q("resource", h, O) : h \in {"WildcardRequest", "SSLCheck", "DNSRecordCreate", "DNSRecordDelete", "DNSRecordList"}})
  \cup Ext({"no", "none"}, Ref(30, {Q("resource", h, O) : h \in {"WildcardRequest", "DNSRecordCreate"}}))
OpsRequests ==
  Ext({"yes", "no"}, On(30, "app", {"CommandRun"}, O)) \cup Ext({"yes", "none"}, On(30, "resource", {"Exec"}, O))
  \cup On(30, "app", {"CommandHistory", "RestartHistoryList", "AppDelete"}, O) \cup {Q("infra", "ComposeDeploy", O)}
  \cup With("3", On(100, "config", {"ScaleApp"}, O)) \cup {Q("infra", "MarketplaceDeploy", O), Q("workflow", "FreezeCreate", O)}
  \cup Get(On(30, "config", {"FileList"}, O)) \cup Get({Q("workflow", "ApprovalList", O)})
  \cup On(1, "workflow", {"Approve"}, O) \cup On(1, "workflow", {"Reject"}, Owner(20))
InfraRequests ==
  Ext({"yes", "no"}, With("s", {Q("infra", "SecretCreate", O)})) \cup On(100, "infra", {"SecretDelete"}, O)
  \cup Ext({"yes", "no"}, With("hetzner", {Q("infra", "Provision", O)})) \cup On(100, "infra", {"ServerDelete"}, O)
  \cup Ext({"yes", "none"}, {Q("infra", h, O) : h \in {"DatabaseCreate", "BackupCreate"}})
  \cup Ref(10, On(5, "infra", {"BackupRestore"}, O)) \cup Ref(10, On(5, "infra", {"BackupDownload"}, Owner(20)))
  \cup With("github", {Q("infra", h, O) : h \in {"GitConnect", "GitDisconnect", "ListRepos"}})
  \cup With("prod", On(11, "workflow", {"TopologySave", "TopologyLoad"}, O) \cup On(11, "workflow", {"TopologySave"}, Owner(20)))
  \cup With("m", {Q("infra", "TenantSettings", O)}) \cup {Q("resource", "Prune", O), Q("infra", "BuildCacheClear", O)}
  \cup On(11, "resource", {"ProjectDelete"}, O) \cup {[Q("app", "Import", O) EXCEPT !.ids = <<91, 40>>]}
  \cup {Q("workflow", "NotificationTest", O), Q("resource", "VolumeCreate", O)} \cup On(11, "config", {"ApplyPreset"}, O)
ViewRequests ==
  Get({[Q(g[1], g[2], O) EXCEPT !.page = p, !.per = k] : p \in 1..2, k \in 1..2,
        g \in {<<"app", "AppList">>, <<"resource", "ProjectList">>, <<"resource", "DomainList">>, <<"workflow", "Feed">>}})
  \cup Get(UNION {On(30, "app", {"Export", "AppGet", "MetricsExport", "LabelsGet", "AppDisk"}, c)
           \cup On(30, "config", {"DeployDiff", "BuildLog", "ContainerHistory", "Top", "CronList", "LogDownload", "ListVersions",
                "DeploymentList", "DeploymentLatest", "AppStats", "DependencyGraph", "AppMetrics"}, c)
           \cup On(30, "resource", {"EnvExport", "EnvGet", "GetLogs"}, c) : c \in {O, Owner(20)}})
  \cup On(30, "config", {"DeployPreview"}, O) \cup Ref(31, On(30, "workflow", {"EnvCompare"}, O))
  \cup Ref(1, On(30, "config", {"DeployDiff"}, O)) \cup Ref(7, On(30, "app", {"RollbackToCommit"}, O))
  \cup On(30, "app", {"SaveTemplate", "SnapshotCreate"}, O) \cup Ref(30, Get({Q("workflow", "Search", O)}))
  \cup Ref(61, Get({Q("resource", "ImageTags", O)})) \cup On(11, "resource", {"ProjectGet"}, O)
  \cup Get({Q("infra", h, O) : h \in {"DatabaseList", "BackupList", "ServerList", "ListRegions", "ListSizes", "BuildCacheStats",
        "TenantSettings", "GitProviders", "ListBranches", "ComposeValidate", "SecretList", "GetUsage", "UsageHourly"}})
  \cup Get({Q("app", "DashboardStats", O), Q("resource", "VolumeList", O), Q("resource", "DanglingImages", O)})
  \cup Get({Q("config", h, O) : h \in {"ServerStats", "Metrics", "Alerts"}})
  \cup On(30, "app", {"AppDelete"}, O)

MCRequests(a) ==
  CASE a = "settings" -> SettingRequests [] a = "row" -> RowRequests [] a = "rules" -> RuleRequests
    [] a = "keys" -> KeyRequests [] a = "admin" -> AdminRequests [] a = "quota" -> QuotaRequests
    [] a = "idempotency" -> IdempotentRequests [] a = "sessions" -> SessionRequests [] a = "totp" -> TOTPRequests
    [] a = "team" -> TeamRequests [] a = "domains" -> DomainRequests [] a = "ops" -> OpsRequests
    [] a = "infra" -> InfraRequests [] a = "views" -> ViewRequests

\* A container of app 30, a deployment, an image, a backup and an approval.
Step(q, gen) == [q EXCEPT !.gen = gen]
SignUp(gen) == Step([Q("auth", "Register", Nobody) EXCEPT !.email = gen, !.pw = "p"], gen)
NewAppOf(t, gen) == Step([Q("app", "AppCreate", Owner(t)) EXCEPT !.ref = t + 1], gen)
\* The requests served before the first one of an area, each with its job.
Before(a) ==
  <<SignUp(10), SignUp(20), NewAppOf(10, 30), NewAppOf(10, 31), NewAppOf(20, 40)>> \o
  CASE a = "sessions" -> <<Step(Signed("Login", 10, "p", NoCode), 70)>>
    [] a = "totp" -> <<Step(Q("auth", "EnableTOTP", O), 71), [Q("auth", "EnableTOTP", O) EXCEPT !.code = Code(1)],
                       Step(Q("auth", "GenerateBackupCodes", O), 72)>>
    [] a = "team" -> <<Step([Q("resource", "InviteCreate", O) EXCEPT !.v = "admin", !.email = 80], 75)>>
    [] a = "views" -> <<Step(Q("resource", "ProjectCreate", O), 63), Step(Q("resource", "ProjectCreate", O), 64)>>
    [] OTHER -> <<>>
Settled(s, cancelled) == IF s.jobs = <<>> THEN s ELSE AutoDomain([s EXCEPT !.jobs = <<>>], s.jobs[1], cancelled)
Served(s, q) == Settled(ServeHTTP(s, s, q).s, q.gen = 31)

\* What no request of the model brings about: a deployment by AppDeploy, an
\* API key, the registration mode.
Prepared(s, a) ==
  CASE a = "team" -> [s EXCEPT !.mode = "invite_only"]
    [] a = "admin" -> KVSet(KVSet(s, "api_keys", 60, [user |-> 10, tenant |-> 10, until |-> 1], 0), "api_key_index", "all", <<60>>, 0)
    [] a \in {"ops", "infra", "views"} ->
         [s EXCEPT
            !.db = CreateDeployment(@, [id |-> NoID, app |-> 30, version |-> 1, status |-> "running", commit |-> 7, image |-> 61], 60).db,
            !.rt = <<[id |-> <<30, 1>>, app |-> 30, tenant |-> 10, kind |-> "app", state |-> "running", image |-> 61]>>,
            !.img = <<[id |-> 61, tagged |-> TRUE, busy |-> TRUE], [id |-> 62, tagged |-> FALSE, busy |-> FALSE]>>,
            !.approvals = <<[tenant |-> 10, status |-> "pending"]>>,
            !.store = <<10, 5>> :> NewApp([c |-> O], 5, 11, "running")]
    [] OTHER -> s
MCStart(a) == Prepared(FoldLeft(Served, firstRunSetup(Empty, 1).s, Before(a)), a)
MCMaxRequests(a) ==
  IF a \in {"row", "rules", "quota", "idempotency", "sessions"} THEN 3 ELSE IF a = "views" THEN 1 ELSE 2
MCMaxNow(a) == IF a \in {"idempotency", "totp", "admin", "ops"} THEN 2 ELSE 1
===========================================================================
