------------------------------- MODULE Routes -------------------------------
(***************************************************************************)
(* The route table of internal/api/router.go and routes_admin.go: which    *)
(* handler answers a request and the permission in front of it.  q.h names *)
(* the handler; where a path takes GET and a write, q.get says which.      *)
(*                                                                         *)
(* Authentication and the limiters, which come before the permission, are  *)
(* steps of module Api.  Deployments, restarts and cron jobs are served by *)
(* modules AppDeploy and CronJobs.                                         *)
(***************************************************************************)
EXTENDS AccountHandlers, PlatformHandlers

\* The wrappers of registerRoutes around a handler F.
protected(o, s, q, F(_, _, _)) == F(o, s, q)
protectedPerm(o, s, q, perm, F(_, _, _)) == RequirePermission(o, s, q, perm, F(o, s, q))
adminOnly(o, s, q, F(_, _, _)) == RequireSuperAdmin(s, q, F(o, s, q))

\* GET is open to every member, PUT and PATCH need the permission.
GetOrPerm(o, s, q, perm, F(_, _, _)) ==
  IF q.get THEN protected(o, s, q, F) ELSE protectedPerm(o, s, q, perm, F)
Config(o, s, q, F(_, _, _)) == GetOrPerm(o, s, q, <<"app", "create">>, F)
Create(o, s, q, F(_, _, _)) == protectedPerm(o, s, q, <<"app", "create">>, F)
Domains(o, s, q, F(_, _, _)) == protectedPerm(o, s, q, <<"domain", "manage">>, F)
Servers(o, s, q, F(_, _, _)) == protectedPerm(o, s, q, <<"server", "manage">>, F)

AuthRoutes(o, s, q) ==
  CASE q.h = "Login" -> Login(o, s, q)
    [] q.h = "Register" -> Register(o, s, q)
    [] q.h = "Refresh" -> Refresh(o, s, q)
    [] q.h = "Logout" -> Logout(o, s, q)
    [] q.h = "GetCurrentUser" -> GetCurrentUser(o, s, q)
    [] q.h = "UpdateProfile" -> protected(o, s, q, UpdateProfile)
    [] q.h = "ChangePassword" -> protected(o, s, q, ChangePassword)
    [] q.h = "ListSessions" -> protected(o, s, q, ListSessions)
    [] q.h = "LogoutAll" -> protected(o, s, q, LogoutAll)
    [] q.h = "GetTOTPStatus" -> protected(o, s, q, GetTOTPStatus)
    [] q.h = "EnableTOTP" -> protected(o, s, q, EnableTOTP)
    [] q.h = "DisableTOTP" -> protected(o, s, q, DisableTOTP)
    [] q.h = "GenerateBackupCodes" -> protected(o, s, q, GenerateBackupCodes)

AppRoutes(o, s, q) ==
  CASE q.h = "DashboardStats" -> protected(o, s, q, DashboardStats)
    [] q.h = "AppList" -> protected(o, s, q, AppList)
    [] q.h = "AppCreate" -> Create(o, s, q, AppCreate)
    [] q.h = "Import" -> Create(o, s, q, Import)
    [] q.h = "Export" -> protected(o, s, q, Export)
    [] q.h = "AppGet" -> protected(o, s, q, AppGet)
    [] q.h = "AppUpdate" -> Create(o, s, q, AppUpdate)
    [] q.h = "AppDelete" -> protectedPerm(o, s, q, <<"app", "delete">>, AppDelete)
    [] q.h = "TransferApp" -> adminOnly(o, s, q, TransferApp)
    [] q.h = "MetricsExport" -> protected(o, s, q, MetricsExport)
    [] q.h = "Rename" -> Create(o, s, q, Rename)
    [] q.h = "GPU" -> Config(o, s, q, GPU)
    [] q.h = "Pin" -> Create(o, s, q, Pin)
    [] q.h = "Unpin" -> Create(o, s, q, Unpin)
    [] q.h = "SaveTemplate" -> Create(o, s, q, SaveTemplate)
    [] q.h = "RollbackToCommit" -> protectedPerm(o, s, q, <<"app", "deploy">>, RollbackToCommit)
    [] q.h = "SnapshotCreate" -> Create(o, s, q, SnapshotCreate)
    [] q.h = "CloneApp" -> Create(o, s, q, CloneApp)
    [] q.h = "BulkExecute" -> Create(o, s, q, BulkExecute)
    [] q.h = "RestartPolicyUpdate" -> Create(o, s, q, RestartPolicyUpdate)
    [] q.h = "LabelsGet" -> protected(o, s, q, LabelsGet)
    [] q.h = "LabelsUpdate" -> Create(o, s, q, LabelsUpdate)
    [] q.h = "AppDisk" -> protected(o, s, q, AppDisk)
    [] q.h = "WebhookTestDeliver" -> Create(o, s, q, WebhookTestDeliver)
    [] q.h = "PortUpdate" -> Create(o, s, q, PortUpdate)
    [] q.h = "HealthCheckUpdate" -> Create(o, s, q, HealthCheckUpdate)
    [] q.h = "CommandRun" -> protectedPerm(o, s, q, <<"app", "restart">>, CommandRun)
    [] q.h = "CommandHistory" -> protected(o, s, q, CommandHistory)
    [] q.h = "LogRetention" -> Config(o, s, q, LogRetention)
    [] q.h = "AppMiddleware" -> Config(o, s, q, AppMiddleware)
    [] q.h = "RestartHistoryList" -> protected(o, s, q, RestartHistoryList)

AppConfigRoutes(o, s, q) ==
  CASE q.h = "WebhookRotate" -> Create(o, s, q, WebhookRotate)
    [] q.h = "DeployPreview" -> protectedPerm(o, s, q, <<"app", "deploy">>, DeployPreview)
    [] q.h = "DeployDiff" -> protected(o, s, q, DeployDiff)
    [] q.h = "BuildLog" -> protected(o, s, q, BuildLog)
    [] q.h = "Maintenance" -> Config(o, s, q, Maintenance)
    [] q.h = "RedirectList" -> protected(o, s, q, RedirectList)
    [] q.h = "RedirectCreate" -> Create(o, s, q, RedirectCreate)
    [] q.h = "RedirectDelete" -> Create(o, s, q, RedirectDelete)
    [] q.h = "ErrorPage" -> Config(o, s, q, ErrorPage)
    [] q.h = "StickySession" -> Config(o, s, q, StickySession)
    [] q.h = "Autoscale" -> Config(o, s, q, AutoscaleUpdate)
    [] q.h = "ResponseHeaders" -> Config(o, s, q, ResponseHeaders)
    [] q.h = "ContainerHistory" -> protected(o, s, q, ContainerHistory)
    [] q.h = "DeployNotify" -> Config(o, s, q, DeployNotify)
    [] q.h = "BasicAuth" -> Config(o, s, q, BasicAuth)
    [] q.h = "Top" -> protected(o, s, q, Top)
    [] q.h = "CronList" -> protected(o, s, q, CronList)
    [] q.h = "LogDownload" -> protected(o, s, q, LogDownload)
    [] q.h = "ListVersions" -> protected(o, s, q, ListVersions)
    [] q.h = "DeploymentList" -> protected(o, s, q, DeploymentList)
    [] q.h = "DeploymentLatest" -> protected(o, s, q, DeploymentLatest)
    [] q.h = "FileList" -> protected(o, s, q, FileList)
    [] q.h = "AppStats" -> protected(o, s, q, AppStats)
    [] q.h = "ServerStats" -> protected(o, s, q, ServerStats)
    [] q.h = "Metrics" -> protected(o, s, q, Metrics)
    [] q.h = "Alerts" -> protected(o, s, q, Alerts)
    [] q.h = "ScaleApp" -> protectedPerm(o, s, q, <<"app", "deploy">>, ScaleApp)
    [] q.h = "SetLimits" -> Create(o, s, q, SetLimits)
    [] q.h = "DependencyGraph" -> protected(o, s, q, DependencyGraph)
    [] q.h = "AppMetrics" -> protected(o, s, q, AppMetrics)
    [] q.h = "ApplyPreset" -> protectedPerm(o, s, q, <<"project", "create">>, ApplyPreset)

ResourceRoutes(o, s, q) ==
  CASE q.h = "EnvImport" -> protectedPerm(o, s, q, <<"app", "env", "edit">>, EnvImport)
    [] q.h = "EnvExport" -> protected(o, s, q, EnvExport)
    [] q.h = "DNSRecordList" -> protected(o, s, q, DNSRecordList)
    [] q.h = "DNSRecordCreate" -> Domains(o, s, q, DNSRecordCreate)
    [] q.h = "DNSRecordDelete" -> Domains(o, s, q, DNSRecordDelete)
    [] q.h = "SSLCheck" -> protected(o, s, q, SSLCheck)
    [] q.h = "GetLogs" -> protected(o, s, q, GetLogs)
    [] q.h = "DomainVerify" -> Domains(o, s, q, DomainVerify)
    [] q.h = "BatchVerify" -> Domains(o, s, q, BatchVerify)
    [] q.h = "CertificateList" -> protected(o, s, q, CertificateList)
    [] q.h = "CertificateUpload" -> Domains(o, s, q, CertificateUpload)
    [] q.h = "WildcardRequest" -> Domains(o, s, q, WildcardRequest)
    [] q.h = "ImageTags" -> protected(o, s, q, ImageTags)
    [] q.h = "DanglingImages" -> protected(o, s, q, DanglingImages)
    [] q.h = "Prune" -> Servers(o, s, q, Prune)
    [] q.h = "VolumeList" -> protected(o, s, q, VolumeList)
    [] q.h = "VolumeCreate" -> protectedPerm(o, s, q, <<"volume", "manage">>, VolumeCreate)
    [] q.h = "ProjectList" -> protected(o, s, q, ProjectList)
    [] q.h = "ProjectCreate" -> protectedPerm(o, s, q, <<"project", "create">>, ProjectCreate)
    [] q.h = "ProjectGet" -> protected(o, s, q, ProjectGet)
    [] q.h = "ProjectDelete" -> protectedPerm(o, s, q, <<"project", "delete">>, ProjectDelete)
    [] q.h = "EnvGet" -> protected(o, s, q, EnvGet)
    [] q.h = "EnvUpdate" -> protectedPerm(o, s, q, <<"app", "env", "edit">>, EnvUpdate)
    [] q.h = "RegistryList" -> protected(o, s, q, RegistryList)
    [] q.h = "RegistryAdd" -> protectedPerm(o, s, q, <<"registry", "manage">>, RegistryAdd)
    [] q.h = "DomainList" -> protected(o, s, q, DomainList)
    [] q.h = "DomainCreate" -> Domains(o, s, q, DomainCreate)
    [] q.h = "DomainDelete" -> Domains(o, s, q, DomainDelete)
    [] q.h = "Exec" -> protectedPerm(o, s, q, <<"app", "restart">>, Exec_)
    [] q.h = "ListMembers" -> protected(o, s, q, ListMembers)
    [] q.h = "RemoveMember" -> protectedPerm(o, s, q, <<"member", "remove">>, RemoveMember)
    [] q.h = "ListTeamRoles" -> protected(o, s, q, ListTeamRoles)
    [] q.h = "InviteList" -> protected(o, s, q, InviteList)
    [] q.h = "InviteCreate" -> protectedPerm(o, s, q, <<"member", "invite">>, InviteCreate)
    [] q.h = "GetAuditLog" -> protected(o, s, q, GetAuditLog)

InfraRoutes(o, s, q) ==
  CASE q.h = "DatabaseList" -> protected(o, s, q, DatabaseList)
    [] q.h = "DatabaseCreate" -> protectedPerm(o, s, q, <<"db", "manage">>, DatabaseCreate)
    [] q.h = "BackupList" -> protected(o, s, q, BackupList)
    [] q.h = "BackupCreate" -> protectedPerm(o, s, q, <<"backup", "create">>, BackupCreate)
    [] q.h = "BackupRestore" -> protectedPerm(o, s, q, <<"backup", "restore">>, BackupRestore)
    [] q.h = "BackupDownload" -> protected(o, s, q, BackupDownload)
    [] q.h = "ServerList" -> protected(o, s, q, ServerList)
    [] q.h = "Provision" -> Servers(o, s, q, Provision)
    [] q.h = "ServerDelete" -> Servers(o, s, q, ServerDelete)
    [] q.h = "ListRegions" -> protected(o, s, q, ListRegions)
    [] q.h = "ListSizes" -> protected(o, s, q, ListSizes)
    [] q.h = "BuildCacheStats" -> protected(o, s, q, BuildCacheStats)
    [] q.h = "BuildCacheClear" -> Servers(o, s, q, BuildCacheClear)
    [] q.h = "TenantSettings" -> GetOrPerm(o, s, q, <<"tenant", "manage">>, TenantSettings)
    [] q.h = "GitProviders" -> protected(o, s, q, GitProviders)
    [] q.h = "GitConnect" -> protectedPerm(o, s, q, <<"git", "manage">>, GitConnect)
    [] q.h = "GitDisconnect" -> protectedPerm(o, s, q, <<"git", "manage">>, GitDisconnect)
    [] q.h = "ListRepos" -> protected(o, s, q, ListRepos)
    [] q.h = "ListBranches" -> protected(o, s, q, ListBranches)
    [] q.h = "ComposeDeploy" -> Create(o, s, q, ComposeDeploy)
    [] q.h = "ComposeValidate" -> protected(o, s, q, ComposeValidate)
    [] q.h = "SecretList" -> protected(o, s, q, SecretList)
    [] q.h = "SecretCreate" -> protectedPerm(o, s, q, <<"secret", "create">>, SecretCreate)
    [] q.h = "SecretDelete" -> protectedPerm(o, s, q, <<"secret", "delete">>, SecretDelete)
    [] q.h = "GetUsage" -> protected(o, s, q, GetUsage)
    [] q.h = "UsageHourly" -> protected(o, s, q, UsageHourly)
    [] q.h = "MarketplaceDeploy" -> protectedPerm(o, s, q, <<"marketplace", "deploy">>, MarketplaceDeploy)

WorkflowRoutes(o, s, q) ==
  CASE q.h = "TopologySave" -> protectedPerm(o, s, q, <<"topology", "manage">>, TopologySave)
    [] q.h = "TopologyLoad" -> protected(o, s, q, TopologyLoad)
    [] q.h = "EventWebhookList" -> protected(o, s, q, EventWebhookList)
    [] q.h = "EventWebhookCreate" -> protectedPerm(o, s, q, <<"webhook", "manage">>, EventWebhookCreate)
    [] q.h = "EventWebhookDelete" -> protectedPerm(o, s, q, <<"webhook", "manage">>, EventWebhookDelete)
    [] q.h = "FreezeGet" -> protected(o, s, q, FreezeGet)
    [] q.h = "FreezeCreate" -> protectedPerm(o, s, q, <<"deploy", "freeze", "manage">>, FreezeCreate)
    [] q.h = "FreezeDelete" -> protectedPerm(o, s, q, <<"deploy", "freeze", "manage">>, FreezeDelete)
    [] q.h = "EnvCompare" -> protected(o, s, q, EnvCompare)
    [] q.h = "NotificationTest" -> protectedPerm(o, s, q, <<"webhook", "manage">>, NotificationTest)
    [] q.h = "ApprovalList" -> protected(o, s, q, ApprovalList)
    [] q.h = "Approve" -> protectedPerm(o, s, q, <<"deploy", "approval", "manage">>, Approve)
    [] q.h = "Reject" -> protectedPerm(o, s, q, <<"deploy", "approval", "manage">>, Reject)
    [] q.h = "Search" -> protected(o, s, q, Search)
    [] q.h = "Feed" -> protected(o, s, q, Feed)
    [] q.h = "SSHKeyList" -> protected(o, s, q, SSHKeyList)
    [] q.h = "SSHKeyGenerate" -> Servers(o, s, q, SSHKeyGenerate)

AdminRoutes(o, s, q) ==
  CASE q.h = "AnnouncementList" -> AnnouncementList(o, s, q)
    [] q.h = "AnnouncementCreate" -> adminOnly(o, s, q, AnnouncementCreate)
    [] q.h = "AnnouncementDismiss" -> adminOnly(o, s, q, AnnouncementDismiss)
    [] q.h = "TenantRateLimit" -> adminOnly(o, s, q, TenantRateLimit)
    [] q.h = "LicenseGet" -> adminOnly(o, s, q, LicenseGet)
    [] q.h = "LicenseActivate" -> adminOnly(o, s, q, LicenseActivate)
    [] q.h = "APIKeyList" -> adminOnly(o, s, q, APIKeyList)
    [] q.h = "APIKeyGenerate" -> adminOnly(o, s, q, APIKeyGenerate)
    [] q.h = "APIKeyRevoke" -> adminOnly(o, s, q, APIKeyRevoke)
    [] q.h = "UpdateSettings" -> adminOnly(o, s, q, UpdateSettings)
    [] q.h = "ListTenants" -> adminOnly(o, s, q, ListTenants)
    [] q.h = "Branding" -> IF q.get THEN Branding(o, s, q) ELSE adminOnly(o, s, q, Branding)
===========================================================================
