----------------------------- MODULE MCProgress -----------------------------
(***************************************************************************)
(* The process lifecycle, the route table and the reverse proxy, on small  *)
(* instances and with the fairness the code's goroutines have.  As in      *)
(* MCControl a behaviour picks one of them (area); v1 .. v14 hold its      *)
(* variables, those it does not need are 0.                                *)
(***************************************************************************)
EXTENDS Integers, Sequences, FiniteSets, TLC

CONSTANTS Areas,
          api, db, dep, mkt, ghost, r1, r2, r3, j1,   \* modules, requests, a cron handler
          c1, c2, c3, app, other, h1, h2,             \* containers, applications, hosts
          b1,                                         \* a backend
          p1, p2, a1,                                 \* publishers, a subscription
          None

VARIABLES area, v1, v2, v3, v4, v5, v6, v7, v8, v9, v10, v11, v12, v13, v14
vars == <<v1, v2, v3, v4, v5, v6, v7, v8, v9, v10, v11, v12, v13, v14>>
From6 == <<v6, v7, v8, v9, v10, v11, v12, v13, v14>>
From9 == <<v9, v10, v11, v12, v13, v14>>
From10 == <<v10, v11, v12, v13, v14>>
Zero10 == v10 = 0 /\ v11 = 0 /\ v12 = 0 /\ v13 = 0 /\ v14 = 0
Zero9 == v9 = 0 /\ Zero10
Zero6 == v6 = 0 /\ v7 = 0 /\ v8 = 0 /\ Zero9

----------------------------------------------------------------------------
(* Four modules in five graphs (two orders, a cycle, a dependency on       *)
(* itself, an unknown one), two requests with a goroutine each and a cron  *)
(* handler.                                                                *)
Graph(a, b, c, d) == (db :> a) @@ (dep :> b) @@ (mkt :> c) @@ (api :> d)
DependencyGraphs ==
    { Graph(<<>>, <<db>>, <<db, dep>>, <<db, mkt>>),
      Graph(<<>>, <<db>>, <<dep>>, <<db>>),
      Graph(<<>>, <<mkt>>, <<dep>>, <<db>>),
      Graph(<<>>, <<dep>>, <<>>, <<mkt, db>>),
      Graph(<<>>, <<db>>, <<ghost>>, <<db, dep>>) }
Process == INSTANCE Lifecycle WITH
    Mods <- {api, db, dep, mkt}, Graphs <- DependencyGraphs, Api <- api, Reqs <- {r1, r2}, Jobs <- {j1},
    deps <- v1, phase <- v2, visited <- v3, visiting <- v4, stack <- v5, order <- v6, k <- v7,
    mod <- v8, apiStop <- v9, timedOut <- v10, req <- v11, bg <- v12, event <- v13, job <- v14

(* An application with two domains that is deployed twice, and another one *)
(* that takes over the second domain.                                      *)
OwnerOf == (c1 :> app) @@ (c2 :> app) @@ (c3 :> other)
HostsOf == (c1 :> {h1, h2}) @@ (c2 :> {h1}) @@ (c3 :> {h2})
Table == INSTANCE Routing WITH
    Conts <- {c1, c2, c3}, Hosts <- {h1, h2}, Owner <- OwnerOf, Labels <- HostsOf,
    cont <- v1, routes <- v2, sync <- v3, watcher <- v4, stop <- v5

(* Three requests on one backend, with an operator who drains it, resets   *)
(* its circuit and asks whether it is available; and two requests without. *)
Managed == INSTANCE Proxy WITH
    Backends <- {b1}, Reqs <- {r1, r2, r3}, FailureThreshold <- 4, SuccessThreshold <- 2, Operated <- TRUE,
    up <- v1, state <- v2, failureCount <- v3, successCount <- v4, waited <- v5, conns <- v6,
    draining <- v7, req <- v8, failed <- v9
Ingress == INSTANCE Proxy WITH
    Backends <- {b1}, Reqs <- {r1, r2}, FailureThreshold <- 4, SuccessThreshold <- 2, Operated <- FALSE,
    up <- v1, state <- v2, failureCount <- v3, successCount <- v4, waited <- v5, conns <- v6,
    draining <- v7, req <- v8, failed <- v9

(* One async handler that fails, one slot.                                 *)
Died == <<"container", "died">>
EventOf == [c \in {p1, p2} |-> Died]
Filter == (a1 :> [kind |-> "prefix", path |-> <<"container">>])
Leak == INSTANCE EventBus WITH
    Publishers <- {p1, p2}, AsyncCalls <- {}, Cancelable <- {}, Subs <- {a1}, AsyncSubs <- {a1},
    Fails <- {a1}, Panics <- {}, Republishes <- {}, Transient <- {}, Initial <- <<a1>>, SemCap <- 1,
    TypeOf <- EventOf, Pattern <- Filter,
    subscriptions <- v1, call <- v2, todo <- v3, delivery <- v4, asyncSem <- v5, asyncWG <- v6,
    errorCount <- v7, drain <- v8

Init ==
    /\ area \in Areas
    /\ CASE area = "process" -> Process!Init
         [] area = "table" -> Table!Init /\ Zero6
         [] area = "managed" -> Managed!Init /\ Zero10
         [] area = "ingress" -> Ingress!Init /\ Zero10
         [] area = "leak" -> Leak!Init /\ Zero9

Next ==
    /\ \/ area = "process" /\ Process!Next
       \/ area = "table" /\ Table!Next /\ UNCHANGED From6
       \/ area = "managed" /\ Managed!Next /\ UNCHANGED From10
       \/ area = "ingress" /\ Ingress!Next /\ UNCHANGED From10
       \/ area = "leak" /\ Leak!Next /\ UNCHANGED From9
    /\ UNCHANGED area

(* What is fair.  Process: Run goes on, and whatever was started ends, as  *)
(* contexts are cancelled.  Table: the watcher starts, its ticker ticks, a *)
(* sync that runs ends, and since Go ranges over a map from a random       *)
(* position no host of a container is passed over for ever.  Proxy:        *)
(* clients keep coming, a request that is served ends, time passes, a      *)
(* drain ends at its deadline, and who asks IsAvailable goes on asking.    *)
(* The area never changes, so one condition speaks for all of them.        *)
P(A) == area = "process" /\ A
T(A) == area = "table" /\ A /\ UNCHANGED From6
M(A) == area = "managed" /\ A /\ UNCHANGED From10
I(A) == area = "ingress" /\ A /\ UNCHANGED From10
Upserts(c, h) == T(\E s \in {"ticker", "event"} : Table!Upsert(s, c, h))
Fairness ==
    /\ WF_vars(P(Process!RunStep) \/ T(Table!WatcherStarts) \/ M(Managed!Serve(r1)) \/ I(Ingress!Serve(r1)))
    /\ WF_vars(P(Process!WorkEnds) \/ T(Table!ListByLabels("ticker")) \/ M(Managed!Serve(r2))
               \/ I(Ingress!Serve(r2)))
    /\ WF_vars(T(Table!SyncStep("ticker")) \/ M(Managed!Serve(r3)))
    /\ WF_vars(T(Table!SyncStep("event")) \/ M(\E r \in {r1, r2, r3} : Managed!Admit(r, b1))
               \/ I(\E r \in {r1, r2} : Ingress!Admit(r, b1)))
    /\ WF_vars(M(Managed!Drained(b1) \/ Managed!DrainTimesOut(b1)))
    /\ SF_vars(Upserts(c1, h1) \/ M(Managed!TimeoutPasses(b1)) \/ I(Ingress!TimeoutPasses(b1)))
    /\ SF_vars(Upserts(c1, h2) \/ M(Managed!AllowRequest(b1)))
    /\ SF_vars(Upserts(c2, h1))
    /\ SF_vars(Upserts(c3, h2))

(* Goroutines run, handlers come back and a Go channel serves its blocked  *)
(* senders in order, hence strong fairness on the acquires.                *)
LeakFairness ==
    /\ \A c \in {p1, p2} :
         /\ SF_vars(area = "leak" /\ Leak!DispatchAsync(c, a1) /\ UNCHANGED From9)
         /\ WF_vars(area = "leak" /\ (Leak!PublishBegin(c) \/ Leak!PublishEnd(c)) /\ UNCHANGED From9)
    /\ \A d \in {p1, p2} \X {a1} :
         /\ WF_vars(/\ area = "leak" /\ UNCHANGED From9
                    /\ \/ Leak!HandlerOk(d) \/ Leak!HandlerFails(d) \/ Leak!RetryOk(d)
                       \/ Leak!RetryFails(d))
         /\ SF_vars(area = "leak" /\ Leak!RetryAcquire(d) /\ UNCHANGED From9)

Spec == Init /\ [][Next]_<<area, vars>> /\ Fairness
LeakSpec == Init /\ [][Next]_<<area, vars>> /\ LeakFairness

----------------------------------------------------------------------------
(* The variables have their types: no connection, failure or success count *)
(* out of its range, no place unknown.                                     *)
TypeOK ==
    CASE area = "process" -> Process!TypeOK [] area = "table" -> Table!TypeOK
      [] area = "managed" -> Managed!TypeOK [] area = "ingress" -> Ingress!TypeOK
      [] area = "leak" -> Leak!TypeOK

(* Resolve fails just for a circular or unknown dependency and returns     *)
(* every module once, after its dependencies, in whatever order the map of *)
(* modules is walked; and a started module runs on started dependencies,   *)
(* through start-up and shutdown, failed steps included.                   *)
DependenciesUp == area = "process" => Process!ResolveExact /\ Process!DependenciesUp

(* Nothing runs on what was stopped: no cron handler once a module is      *)
(* down, no request on a stopped API unless the shutdown ran out of time,  *)
(* and no sync of the route table once the watcher was stopped, even if it *)
(* had not been scheduled yet.                                             *)
NothingAfterStop ==
    /\ area = "process" => Process!JobsOnLiveModules /\ Process!RequestsOnLiveModules
    /\ area = "table" => Table!StopIsFinal

(* The tracker holds exactly the requests a backend is working for,        *)
(* whatever way they end (Increment, Decrement).                           *)
ConnsExact == area = "managed" => Managed!ConnsExact

(* A closed circuit opens on failures since the last success, no fewer     *)
(* than half of FailureThreshold (RecordFailure, called twice a request).  *)
OpensOnFailures == [][area = "managed" => Managed!OpensOnFailures]_vars


(* Once the containers are left alone the route table settles: every host  *)
(* of a running container is routed to one that names it, and no route of  *)
(* a dead application is left (syncRoutes).                                *)
Converges == <>[](area = "table" => Table!InSync)


(* The same of the pipeline as the ingress runs it, where nobody calls     *)
(* IsAvailable.                                                            *)
IngressRecovers ==
    <>[](area = "ingress" => v1[b1] = "ok") => []<>(area = "ingress" => v2[b1] # "open")

(* Publish comes back: "a burst of failing handlers no longer blocks new   *)
(* publishes".                                                             *)
PublishReturns ==
    \A c \in {p1, p2} : (area = "leak" /\ v2[c] = "loop") ~> (area = "leak" => v2[c] # "loop")
=============================================================================
