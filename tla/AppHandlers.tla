---------------------------- MODULE AppHandlers ----------------------------
(***************************************************************************)
(* The handlers of an application's row and settings: internal/api/        *)
(* handlers/{app_features, env_ops, redirects, misc_handlers,              *)
(* observability, infra, event_webhooks, projects, sshkeys}.go.            *)
(*                                                                         *)
(* body holds the columns UpdateApp writes besides name and status.  Rows  *)
(* are read first and written back whole by UpdateApp, from what was read. *)
(* q.get tells a GET from a write; q.v is the value sent, "" for none.     *)
(***************************************************************************)
EXTENDS Http

CONSTANTS RuleLimit, KeyLimit   \* 200 redirects or 20 webhooks; 50 ssh keys, 20 registries, 100 announcements

Or(v, default) == IF v = "" THEN default ELSE v

\* requireTenantApp, the body, then the handler's change to the row it read,
\* saved by UpdateApp, which keeps tenant_id and project_id as they are.
SaveApp(o, s, q, F(_)) ==
  WithApp(o, s, q, LAMBDA a : Decoded(s, q, Commit(UpdateApp(s.db, F(a)), 500, s, "saved")))

ScaleApp(o, s, q) == SaveApp(o, s, q, LAMBDA a : [a EXCEPT !.body.replicas = q.v])
RestartPolicyUpdate(o, s, q) ==   \* the body first; merged into the labels read
  Decoded(s, q, SaveApp(o, s, q, LAMBDA a : [a EXCEPT !.body.labels = @ \cup {q.v}]))
LabelsUpdate(o, s, q) == SaveApp(o, s, q, LAMBDA a : [a EXCEPT !.body.labels = {q.v}])
LabelsGet(o, s, q) == WithApp(o, s, q, LAMBDA a : OK(s, a.body.labels))
EnvUpdate(o, s, q) == SaveApp(o, s, q, LAMBDA a : [a EXCEPT !.body.env = q.v])
EnvGet(o, s, q) == WithApp(o, s, q, LAMBDA a : OK(s, a.body.env))
EnvImport(o, s, q) ==             \* the body first; the error of UpdateApp is dropped
  Decoded(s, q, WithApp(o, s, q, LAMBDA a :
    OK([s EXCEPT !.db = UpdateApp(@, [a EXCEPT !.body.env = q.v]).db], "imported")))
EnvExport(o, s, q) == EnvGet(o, s, q)
EnvCompare(o, s, q) ==
  Decoded(s, q, Try(GetApp(o.db, q.id), 404, s, LAMBDA l : Try(GetApp(o.db, q.ref), 404, s, LAMBDA r :
      IF {l.rows[1].tenant, r.rows[1].tenant} # {q.c.tenant} THEN Err(404, s)
      ELSE OK(s, IF l.rows[1].body.env = r.rows[1].body.env THEN "same" ELSE "differ"))))

CloneApp(o, s, q) ==
  Decoded(s, q, WithApp(o, s, q, LAMBDA a :
    Commit(CreateApp(s.db, [a EXCEPT !.id = NoID, !.name = q.gen, !.status = "pending", !.body.env = ""], q.gen), 500, s, q.gen)))
SaveTemplate(o, s, q) == WithApp(o, s, q, LAMBDA a : Decoded(s, q, Respond(201, s, a.body)))
SnapshotCreate(o, s, q) == WithApp(o, s, q, LAMBDA a : Respond(201, s, "snapshot"))

\* The target tenant is put in the row that UpdateApp is given.
TransferApp(o, s, q) ==
  Decoded(s, q, Try(GetApp(o.db, q.id), 404, s, LAMBDA r :
    IF q.c.role # "super_admin" /\ r.rows[1].tenant # q.c.tenant THEN Err(403, s)
    ELSE Try(GetTenant(o.db, q.ref), 404, s, LAMBDA t :
           Commit(UpdateApp(s.db, [r.rows[1] EXCEPT !.tenant = q.ref]), 500, s, "transferred"))))

---------------------------------------------------------------------------
\* A setting of an app: one KV entry under the app's id, replaced as a whole
\* by PUT and read, or defaulted, by GET.
Setting(o, s, q, bucket, default) ==
  WithApp(o, s, q, LAMBDA a :
    IF q.get THEN OK(s, KVGet(s, bucket, a.id, default))
    ELSE Decoded(s, q, OK(KVSet(s, bucket, a.id, Or(q.v, default), 0), "updated")))

BasicAuth(o, s, q) == Setting(o, s, q, "basic_auth", "off")
ErrorPage(o, s, q) == Setting(o, s, q, "error_pages", "none")
ResponseHeaders(o, s, q) == Setting(o, s, q, "response_headers", "deny")
StickySession(o, s, q) == Setting(o, s, q, "sticky_sessions", "lax")
LogRetention(o, s, q) == Setting(o, s, q, "log_retention", "json-file")
GPU(o, s, q) == Setting(o, s, q, "gpu_config", "nvidia")

\* Handlers that check the body, answer "updated" and store nothing; their
\* GETs answer constants.
HealthCheckUpdate(o, s, q) == WithApp(o, s, q, LAMBDA a : Decoded(s, q, OK(s, "updated")))
PortUpdate(o, s, q) == WithApp(o, s, q, LAMBDA a : Decoded(s, q, OK(s, "updated")))
SetLimits(o, s, q) == WithApp(o, s, q, LAMBDA a : Decoded(s, q, OK(s, "updated")))
ApplyPreset(o, s, q) ==
  Try(GetProject(o.db, q.id), 404, s, LAMBDA r :
      IF r.rows[1].tenant # q.c.tenant THEN Err(403, s) ELSE OK(s, "updated"))

---------------------------------------------------------------------------
\* Lists in one KV entry, changed inside Mutate.
RedirectCreate(o, s, q) ==
  WithApp(o, s, q, LAMBDA a : Decoded(s, q,
    IF Len(KVGet(s, "redirects", a.id, <<>>)) >= RuleLimit THEN Err(409, s)
    ELSE Respond(201, mutateKVValue(o, s, "redirects", a.id, "add", q.gen), q.gen)))
RedirectDelete(o, s, q) ==
  WithApp(o, s, q, LAMBDA a :
    IF ~KVLive(s, "redirects", a.id) THEN Respond(204, s, "")
    ELSE Respond(204, mutateKVValue(o, s, "redirects", a.id, "remove", q.ref), q.ref))
RedirectList(o, s, q) == WithApp(o, s, q, LAMBDA a : OK(s, KVGet(s, "redirects", a.id, <<>>)))
EventWebhookCreate(o, s, q) ==
  Decoded(s, q,
    IF Len(KVGet(s, "event_webhooks", q.c.tenant, <<>>)) >= RuleLimit THEN Err(409, s)
    ELSE Respond(201, mutateKVValue(o, s, "event_webhooks", q.c.tenant, "add", q.gen), q.gen))
EventWebhookDelete(o, s, q) ==
  IF ~KVLive(s, "event_webhooks", q.c.tenant) THEN Respond(204, s, "")
  ELSE Respond(204, mutateKVValue(o, s, "event_webhooks", q.c.tenant, "remove", q.ref), q.ref)
EventWebhookList(o, s, q) == OK(s, KVGet(s, "event_webhooks", q.c.tenant, <<>>))

\* Lists in one KV entry, read with Get and written back with Set.
SSHKeyGenerate(o, s, q) ==
  LET list == KVGet(o, "ssh_keys", q.c.user, <<>>)
  IN  Decoded(s, q, IF Len(list) >= KeyLimit THEN Err(409, s)
                    ELSE Respond(201, KVSet(s, "ssh_keys", q.c.user, Append(list, q.gen), 0), q.gen))
SSHKeyList(o, s, q) == OK(s, KVGet(s, "ssh_keys", q.c.user, <<>>))
RegistryAdd(o, s, q) ==   \* the credentials go to a second entry
  LET list == KVGet(o, "registries", q.c.tenant, <<>>)
  IN  Decoded(s, q, IF Len(list) >= KeyLimit THEN Err(409, s)
        ELSE Respond(201, KVSet(KVSet(s, "registries", q.c.tenant, Append(list, q.gen), 0),
                                "registry_creds", <<q.c.tenant, q.gen>>, q.v, 0), q.gen))
RegistryList(o, s, q) == OK(s, KVGet(s, "registries", q.c.tenant, <<>>))
AnnouncementCreate(o, s, q) ==
  LET list == KVGet(o, "announcements", "all", <<>>)
  IN  RequireSuperAdmin(s, q, Decoded(s, q, IF Len(list) >= KeyLimit THEN Err(409, s)
        ELSE Respond(201, KVSet(s, "announcements", "all", Append(list, [id |-> q.gen, active |-> TRUE]), 0), q.gen)))
AnnouncementDismiss(o, s, q) ==
  LET list == KVGet(o, "announcements", "all", <<>>)
  IN  RequireSuperAdmin(s, q, IF ~KVLive(o, "announcements", "all") THEN Respond(204, s, "")
        ELSE Respond(204, KVSet(s, "announcements", "all", [i \in DOMAIN list |->
               [list[i] EXCEPT !.active = @ /\ list[i].id # q.ref]], 0), q.ref))
AnnouncementList(o, s, q) ==
  OK(s, SelectSeq(KVGet(s, "announcements", "all", <<>>), LAMBDA a : a.active))

---------------------------------------------------------------------------
\* Webhook secret of an app; the delivery logs.
WebhookRotate(o, s, q) ==
  WithApp(o, s, q, LAMBDA a : OK(KVSet(s, "webhooks", a.id,
    [hash |-> q.gen, created |-> IF KVLive(o, "webhooks", a.id) THEN KVGet(o, "webhooks", a.id, "").created ELSE q.gen], 0), q.gen))
WebhookTestDeliver(o, s, q) ==
  WithApp(o, s, q, LAMBDA a : OK(KVSet(s, "webhook_test_logs", q.gen, a.id, 1), q.gen))

ProjectList(o, s, q) == Try(ListProjectsByTenant(s.db, q.c.tenant), 500, s, LAMBDA r :
  Paged(s, q, r.rows))
ProjectCreate(o, s, q) == Decoded(s, q,
  Commit(CreateProject(s.db, [id |-> NoID, tenant |-> q.c.tenant, name |-> q.gen], q.gen), 500, s, q.gen))
ProjectGet(o, s, q) == WithProject(o, s, q, LAMBDA p : OK(s, p))
ProjectDelete(o, s, q) ==
  WithProject(o, s, q, LAMBDA p : Commit(DeleteProject(s.db, p.id), 500, s, "deleted"))

----------------------------------------------------------------------------
(***************************************************************************)
(* Domains of an app, their verification, certificates and DNS records:    *)
(* internal/api/handlers/domains_ssl.go.  q.ext is what the outside world  *)
(* (resolver, TLS dial, DNS provider) answers: "yes", "no", or "none" for  *)
(* a provider that is not configured.                                      *)
(***************************************************************************)

\* The domain's row, if its app is the caller's.
OwnDomain(o, s, q, rep) ==
  Try(rep, 404, s, LAMBDA d : Try(GetApp(o.db, d.rows[1].app), 500, s, LAMBDA a :
      IF a.rows[1].tenant # q.c.tenant THEN Err(403, s) ELSE OK(s, d.rows[1])))
requireTenantDomain(o, s, q) == OwnDomain(o, s, q, GetDomain(o.db, q.id))
requireTenantCertificateDomain(o, s, q) ==   \* by id, else by name
  OwnDomain(o, s, q, IF GetDomain(o.db, q.id).err = "" THEN GetDomain(o.db, q.id)
                     ELSE GetDomainByFQDN(o.db, q.id))

verifyDNS(q) == q.ext = "yes"
DomainVerify(o, s, q) ==
  Given(requireTenantDomain(o, s, q), LAMBDA d :
    IF q.ref \notin {NoID, d.fqdn} THEN Err(403, s)
    ELSE OK(KVSet(s, "domain_verify", d.id, verifyDNS(q), 0), verifyDNS(q)))
tenantDomainSet(o, tenant) ==
  LET apps == ListAppsByTenant(o.db, tenant, 10000, 0).rows
      rows == ListDomainsByAppIDs(o.db, {apps[i].id : i \in DOMAIN apps}, tenant).rows
  IN  {rows[i].fqdn : i \in DOMAIN rows}
BatchVerify(o, s, q) ==
  Decoded(s, q, IF {q.id, q.ref} \subseteq tenantDomainSet(o, q.c.tenant) THEN OK(s, verifyDNS(q)) ELSE Err(403, s))

---------------------------------------------------------------------------
\* The reads of the list see one state; each app's domains are its own query.
DomainList(o, s, q) ==
  IF q.id # NoID
  THEN Try(GetApp(o.db, q.id), 404, s, LAMBDA a :
         IF a.rows[1].tenant # q.c.tenant THEN Err(403, s)
         ELSE Paged(s, q, ListDomainsByApp(o.db, q.id, a.rows[1].tenant).rows))
  ELSE LET apps == ListAppsByTenant(o.db, q.c.tenant, 10000, 0).rows
       IN  Paged(s, q, FlattenSeq([i \in DOMAIN apps |-> ListDomainsByApp(o.db, apps[i].id, q.c.tenant).rows]))

\* The look-up by name and the insert are two statements: when another
\* request added the name in between, the unique index refuses the second.
DomainCreate(o, s, q) ==
  Decoded(s, q, Try(GetApp(o.db, q.id), 404, s, LAMBDA a :
    IF a.rows[1].tenant # q.c.tenant THEN Err(403, s)
    ELSE IF GetDomainByFQDN(o.db, q.ref).err = "" THEN Err(409, s)
    ELSE Commit(CreateDomain(s.db, [id |-> NoID, app |-> q.id, fqdn |-> q.ref, type |-> "custom"], q.gen), 500, s, q.gen)))
DomainDelete(o, s, q) ==
  Given(requireTenantDomain(o, s, q), LAMBDA d : Commit(DeleteDomain(s.db, d.id, q.c.tenant), 404, s, d.id))

---------------------------------------------------------------------------
\* A certificate's names: wild for an entry *.name, below the domains that
\* end in name.
certMatchesDomain(names, domain) ==
  \E n \in names : IF n.wild THEN domain \in n.below \ {n.name} ELSE n.name = domain
validateCertDomain(names, domain) == names # {} /\ certMatchesDomain(names, domain)

\* Two entries: the key pair under its own id, then the shared list, read
\* with Get and written back with Set.
CertificateUpload(o, s, q) ==
  Decoded(s, q, Given(requireTenantCertificateDomain(o, s, q), LAMBDA d :
    IF ~validateCertDomain({[wild |-> FALSE, name |-> q.ref, below |-> {}]}, d.fqdn) THEN Err(400, s)
    ELSE Respond(201, KVSet(KVSet(s, "certificates", <<"data", q.gen>>, "pem", 0), "certificates", <<"all", 0>>,
           Append(KVGet(o, "certificates", <<"all", 0>>, <<>>),
                  [id |-> q.gen, tenant |-> q.c.tenant, domain |-> d.fqdn, exp |-> q.at, status |-> "active"]), 0), q.gen)))
CertificateList(o, s, q) ==
  LET all == KVGet(o, "certificates", <<"all", 0>>, <<>>)
      Seen(x) == IF x.exp < s.now /\ x.status = "active" THEN [x EXCEPT !.status = "expired"] ELSE x
  IN  OK(s, SelectSeq([i \in DOMAIN all |-> Seen(all[i])], LAMBDA x : x.tenant = q.c.tenant))
\* The second entry is an index; when its write fails the answer is the same.
WildcardRequest(o, s, q) ==
  LET one == KVSet(s, "wildcard_ssl", <<q.c.tenant, q.gen>>, q.ref, 0)
  IN  Decoded(s, q, Respond(202,
        IF q.ext = "no" THEN one ELSE KVSet(one, "wildcard_ssl_domain", <<q.c.tenant, q.ref>>, q.gen, 0), q.gen))
\* Answers are cached for 300 s, one tick of the clock here.
SSLCheck(o, s, q) ==
  IF KVLive(o, "certificates", <<"ssl_check", q.ref>>) THEN OK(s, KVGet(o, "certificates", <<"ssl_check", q.ref>>, ""))
  ELSE OK(KVSet(s, "certificates", <<"ssl_check", q.ref>>, q.ext, 1), q.ext)

---------------------------------------------------------------------------
\* Records at the DNS provider, which is outside: s.dns is what it holds.
DNSRecordList(o, s, q) ==
  Decoded(s, q, IF q.ext = "no" THEN Err(500, s) ELSE OK(s, IF q.ext = "none" THEN {} ELSE s.dns))
DNSRecordCreate(o, s, q) ==
  Decoded(s, q, CASE q.ext = "none" -> Err(400, s) [] q.ext = "no" -> Err(500, s)
                  [] OTHER -> Respond(201, [s EXCEPT !.dns = @ \cup {q.ref}], q.ref))
DNSRecordDelete(o, s, q) ==
  Decoded(s, q, CASE q.ext = "none" -> Err(400, s) [] q.ext = "no" -> Err(500, s)
                  [] OTHER -> Respond(204, [s EXCEPT !.dns = @ \ {q.ref}], q.ref))
===========================================================================
