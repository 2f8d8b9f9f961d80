----------------------------- MODULE MCServices ----------------------------
(***************************************************************************)
(* The background services and algorithms, on small instances.  A          *)
(* behaviour picks one of them at the start (area) and runs that one, so   *)
(* the state space is the sum of theirs; st is the state of the one.       *)
(***************************************************************************)
EXTENDS Integers, Sequences, FiniteSets, TLC

CONSTANT Areas

VARIABLES area, st
vars == <<area, st>>

Pool == INSTANCE BuildPool WITH wp <- st, Jobs <- {"j1", "j2", "j3"}, maxWorkers <- 1
Hub == INSTANCE DeployHub WITH hub <- st, Conns <- {"c1", "c2"}, Casts <- {"b1", "b2"}
DnsJobs == {"r1", "r2"}
Dns == INSTANCE DnsSync WITH q <- st, Jobs <- DnsJobs, QueueCap <- 1, syncMaxRetries <- 2,
                             Stoppers <- {"s1", "s2"}
Meter == INSTANCE UsageMeter WITH m <- st, Tenants <- {"t1", "t2"}, Metered <- {"t1"},
                                  Stoppers <- {"s1", "s2"}, MaxTicks <- 2
RollbackEvents == {"e1", "e2"}
Rollback == INSTANCE AutoRollback WITH ar <- st, Events <- RollbackEvents, MaxDeploys <- 3,
                                       Stoppers <- {"s1", "s2"}
Monitor == INSTANCE Monitoring WITH mo <- st, Rules <- {"high_cpu"},
                                    Providers <- {"slack", "smtp"}, MaxTicks <- 2,
                                    maxRingPoints <- 1, MaxAttempts <- 2
Backup == INSTANCE Backups WITH s <- st, NApps <- 1, Versions <- {"v1", "v2"}, RetentionDays <- 0,
                                MaxDay <- 1, MaxRows <- 2, MaxEdits <- 2, Triggers <- TRUE, Stops <- FALSE
Nightly == INSTANCE Backups WITH s <- st, NApps <- 2, Versions <- {"v1", "v2"}, RetentionDays <- 0,
                                 MaxDay <- 1, MaxRows <- 3, MaxEdits <- 1, Triggers <- FALSE, Stops <- TRUE
Stripe == INSTANCE StripeEvents WITH b <- st, Deliveries <- 1 .. 3,
             EventOf <- <<"up", "down", "up">>,
             Type <- [up |-> "updated", down |-> "deleted"], Price <- [up |-> "p1", down |-> "p1"],
             PlanOf <- [p1 |-> "pro"], RateLimit <- 2
Invoice == INSTANCE StripeEvents WITH b <- st, Deliveries <- 1 .. 3,
             EventOf <- <<"up", "paid", "late">>,
             Type <- [up |-> "updated", paid |-> "paid", late |-> "failed"],
             Price <- [up |-> "p2", paid |-> "p1", late |-> "p1"],
             PlanOf <- [p1 |-> "pro"], RateLimit <- 3
Checkout == INSTANCE StripeEvents WITH b <- st, Deliveries <- 1 .. 2,
             EventOf <- <<"new", "new">>, Type <- [new |-> "checkout"], Price <- [new |-> "p1"],
             PlanOf <- [p1 |-> "pro"], RateLimit <- 3
Git == "X-GitHub-Event" :> "push" @@ "X-GitHub-Delivery" :> "d1"
Webhook == INSTANCE WebhookReceiver WITH w <- st, Deliveries <- 1 .. 4,
             Headers <- <<Git, Git, "X-Event-Key" :> "repo:push", "X-Gitlab-Event" :> "Push Hook">>,
             Hook <- <<"h1", "h1", "h1", "h1">>, Body <- <<"x", "x", "y", "y">>,
             Signature <- <<"good", "good", "none", "good">>
Master == INSTANCE Election WITH e <- st, Nodes <- {"n1", "n2", "n3"}, Lease <- 2, MaxTime <- 4
Keys == INSTANCE Vault WITH v <- st, Ids <- {"x1", "x2", "x3"}, MaxSalts <- 4, Crashes <- TRUE,
                            Writes <- TRUE
Schema == INSTANCE Migrations WITH g <- st, Versions <- 1 .. 3, HasDown <- {2, 3}, Again <- {2},
                                   Procs <- {"p1", "p2"}
Store == INSTANCE StoreParity WITH db <- st, ListCap <- 3, MaxGen <- 5, MaxCalls <- 3,
             Areas <- {"tenants", "users", "apps", "deployments", "domains", "secrets", "invites",
                       "servers", "records"}
Scaler == INSTANCE Autoscaler WITH x <- st, Loads <- {10, 90}, Target <- 70, Bounds <- {<<1, 3>>, <<2, 2>>},
                                   Delay <- 3, MaxAge <- 4
Breaker == INSTANCE Circuit WITH k <- st, Calls <- {"c1", "c2"}, failureThreshold <- 2,
                                 resetTimeout <- 2, halfOpenMax <- 1, MaxAttempts <- 2, MaxTime <- 5
Lb == INSTANCE Balancers WITH lb <- st, Backends <- <<"b1", "b2", "b3">>, MaxPicks <- 4,
             Weights <- {[b1 |-> x, b2 |-> y, b3 |-> z] : x \in 0 .. 3, y \in 0 .. 2, z \in 0 .. 1}
File == INSTANCE Compose WITH cf <- st, Services <- {"web", "db", "job"},
             References <- {[key |-> key, kind |-> kind, sensitive |-> key # "HOST"] :
                              key \in {"DB_PASSWORD", "HOST"}, kind \in {"plain", "weak", "default"}}
                           \cup {[key |-> "API_KEY", kind |-> "plain", sensitive |-> TRUE]},
             Vars <- {[k \in {} |-> ""], "DB_PASSWORD" :> "", "DB_PASSWORD" :> "chosen"}

Node(id, type, name) == [id |-> id, type |-> type, name |-> name, port |-> 0, target |-> "", url |-> <<>>,
                         pw |-> "", engine |-> "postgres", managed |-> FALSE, external |-> FALSE,
                         temporary |-> FALSE]
Apps == {[Node("a", "app", "web") EXCEPT !.port = p] : p \in {0, 80}}
Databases == {[Node("d", "database", n) EXCEPT !.managed = m, !.pw = p, !.engine = x] :
                n \in {"web", "db"}, m \in BOOLEAN, p \in {"", "pw"}, x \in {"postgres", "oracle"}}
             \cup {[Node("d", "database", "db") EXCEPT !.external = TRUE, !.url = <<"url">>]}
Others == {Node("w", "worker", n) : n \in {"db", "job"}}
          \cup {[Node("a2", "app", "api") EXCEPT !.port = 80],
                [Node("v", "volume", "data") EXCEPT !.temporary = TRUE], Node("v", "volume", "data")}
Domains == {[Node("f", "domain", "site") EXCEPT !.target = x] : x \in {"", "a", "gone"}}
Edge(type, from, to) == [type |-> type, source |-> from, target |-> to, env |-> "DATABASE_URL"]
Editor == INSTANCE Topology WITH t <- st,
             Nodes <- {<<>>} \cup {<<a, d, o>> : a \in Apps, d \in Databases, o \in Others}
                      \cup {<<a, d, f>> : a \in Apps, d \in Databases, f \in Domains},
             MaxDeploys <- 1,
             Edges <- {<<>>, <<Edge("dependency", "a", "d")>>, <<Edge("route", "f", "a")>>,
                       <<Edge("dependency", "a", "d"), Edge("dependency", "w", "d")>>,
                       <<Edge("route", "f", "gone")>>}

Init ==
    /\ area \in Areas
    /\ CASE area = "pool" -> Pool!Init     [] area = "hub" -> Hub!Init
         [] area = "dns" -> Dns!Init       [] area = "meter" -> Meter!Init
         [] area = "rollback" -> Rollback!Init [] area = "monitor" -> Monitor!Init
         [] area = "backup" -> Backup!Init [] area = "nightly" -> Nightly!Init
         [] area = "stripe" -> Stripe!Init
         [] area = "invoice" -> Invoice!Init [] area = "checkout" -> Checkout!Init
         [] area = "webhook" -> Webhook!Init [] area = "master" -> Master!Init
         [] area = "keys" -> Keys!Init     [] area = "schema" -> Schema!Init
         [] area = "store" -> Store!Init   [] area = "lb" -> Lb!Init
         [] area = "scaler" -> Scaler!Init [] area = "breaker" -> Breaker!Init
         [] area = "compose" -> File!Init  [] area = "topology" -> Editor!Init

Next ==
    /\ \/ area = "pool" /\ Pool!Next
       \/ area = "hub" /\ Hub!Next
       \/ area = "dns" /\ Dns!Next
       \/ area = "meter" /\ Meter!Next
       \/ area = "rollback" /\ Rollback!Next
       \/ area = "monitor" /\ Monitor!Next
       \/ area = "backup" /\ Backup!Next
       \/ area = "nightly" /\ Nightly!Next
       \/ area = "stripe" /\ Stripe!Next
       \/ area = "invoice" /\ Invoice!Next
       \/ area = "checkout" /\ Checkout!Next
       \/ area = "webhook" /\ Webhook!Next
       \/ area = "master" /\ Master!Next
       \/ area = "keys" /\ Keys!Next
       \/ area = "schema" /\ Schema!Next
       \/ area = "store" /\ Store!Next
       \/ area = "lb" /\ Lb!Next
       \/ area = "scaler" /\ Scaler!Next
       \/ area = "breaker" /\ Breaker!Next
       \/ area = "compose" /\ File!Next
       \/ area = "topology" /\ Editor!Next
    /\ UNCHANGED area

(* Goroutines that can run are run: the workers and callers inside a       *)
(* service, never those who might call it.                                 *)
Fairness ==
    /\ \A j \in {"j1", "j2", "j3"} :
         /\ WF_st(area = "pool" /\ st.closed /\ Pool!GiveUp(j))
         /\ WF_st(area = "pool" /\ (Pool!Free(j) \/ Pool!Done(j)))
    /\ \A c \in {"c1", "c2"} : WF_st(area = "hub" /\ Hub!Serve(c))
    /\ WF_st(area = "dns" /\ Dns!Worker)
    /\ \A j \in DnsJobs : /\ WF_st(area = "dns" /\ Dns!verify(j))
                          /\ WF_st(area = "dns" /\ st.caller[j] = "sending" /\ Dns!Enqueue(j))
    /\ WF_st(area = "meter" /\ Meter!Worker)
    /\ \A x \in RollbackEvents : WF_st(area = "rollback" /\ Rollback!Worker(x))
    /\ WF_st(area = "nightly" /\ (Nightly!Run("loop") \/ Nightly!LoopEnds))
    /\ WF_st(area = "monitor" /\ Monitor!Worker)
    /\ \A p \in {"slack", "smtp"} : WF_st(area = "monitor" /\ Monitor!Attempt(p))

Spec == Init /\ [][Next]_vars /\ Fairness

----------------------------------------------------------------------------
(* Stop is a barrier: once the Stop or Shutdown of a service has returned  *)
(* (and did not give up at its deadline), no goroutine of it is at work    *)
(* that the service tracks.                                                *)
StopIsBarrier ==
    CASE area = "pool" -> Pool!Drained [] area = "hub" -> Hub!Drained [] area = "dns" -> Dns!Drained
      [] area = "meter" -> Meter!Drained [] area = "rollback" -> Rollback!Drained
      [] area = "nightly" -> Nightly!Drained [] area = "monitor" -> Monitor!Drained
      [] OTHER -> TRUE

Closing ==
    CASE area \in {"pool", "hub", "dns", "rollback"} -> st.closed
      [] area \in {"meter", "nightly"} -> st.stopped
      [] area = "monitor" -> st.stopped /\ st.closed
      [] OTHER -> FALSE
Quiet ==
    CASE area = "pool" -> Pool!Inside = {} [] area = "hub" -> Hub!Inside = {}
      [] area = "dns" -> Dns!Inside = {} [] area = "meter" -> Meter!Inside = {}
      [] area = "rollback" -> Rollback!Inside = {} [] area = "nightly" -> Nightly!Inside = {}
      [] area = "monitor" -> Monitor!Inside = {}
      [] OTHER -> TRUE

(* A service that was told to stop comes to rest: nobody waits for a slot, *)
(* a socket, a job or a retry for ever; and every DNS job that Enqueue     *)
(* took is done, dropped or given up while the queue runs.                 *)
ComesToRest ==
    /\ Closing ~> Quiet
    /\ \A j \in DnsJobs : (area = "dns" /\ Dns!Taken(j)) ~> (area = "dns" => Dns!Settled(j))

(* No two instances act as the swarm master at once, through elections,    *)
(* renewals, crashes and lost sessions.                                    *)
OneMaster == area = "master" => Master!AtMostOne


(* A tenant's plan agrees with the subscription its row records: free      *)
(* without one, else the plan wired to the recorded price, in whatever     *)
(* order Stripe's events arrive, meet and are repeated.                    *)
PlanFollows ==
    CASE area = "stripe" -> Stripe!PlanFollows [] area = "invoice" -> Invoice!PlanFollows
      [] OTHER -> TRUE


(* Failed deployments are rolled back at most once in a cooldown, and to a *)
(* version that ran.                                                       *)
RollbacksSpaced == area = "rollback" => Rollback!Spaced


(* What the algorithms compute is what they are for: a start order, a      *)
(* closed compose file, a weighted share, a replica count in its bounds.   *)
ResultsExact ==
    CASE area = "compose" -> File!Ordered [] area = "topology" -> Editor!Closed
      [] area = "lb" -> Lb!Proportional [] area = "scaler" -> Scaler!Bounded [] OTHER -> TRUE


(* "A mid-migration crash leaves the legacy state intact and the next boot *)
(* retries" (migrateLegacyVault): without a persisted salt every stored    *)
(* version is under the legacy key.                                        *)
LegacyIntact == area = "keys" => Keys!LegacyIntact

(* "States: closed (normal) -> open (rejecting) -> half-open (probing) ->  *)
(* closed" (CircuitBreaker): past the reset timeout, and with no call in   *)
(* flight, the next call is let through as a probe.                        *)
ProbeAdmitted == area = "breaker" => Breaker!ProbeAdmitted
============================================================================
