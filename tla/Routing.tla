------------------------------ MODULE Routing ------------------------------
(***************************************************************************)
(* Service discovery: Watcher.syncRoutes (discovery/watcher.go) copies the *)
(* labels of the running containers into the route table of the ingress    *)
(* (ingress/router.go).  Two goroutines run it, the watcher's ticker and   *)
(* the handler of app.deployed, and nothing keeps them apart; containers   *)
(* start and stop between its steps.                                       *)
(*                                                                         *)
(* Every route the watcher writes has the same priority, the path "/" and  *)
(* one backend, so the table is a function from hosts to containers.       *)
(***************************************************************************)
EXTENDS Naturals, FiniteSets

CONSTANTS Conts,    \* containers that carry monster.enable
          Hosts,    \* fully qualified domain names
          Owner,    \* monster.app.id of each container
          Labels,   \* the hosts in the router rules of each container
          None      \* no route

VARIABLES cont,     \* per container: "new", "running" or "gone" (not listed as running)
          routes,   \* RouteTable: the backend of each host
          sync,     \* per goroutine: where it is in syncRoutes, and its locals
          watcher,  \* the goroutine of Watcher.Start: "spawned", "looping", "ended"
          stop      \* Watcher.Stop: "no", "waiting", "returned"

vars == <<cont, routes, sync, watcher, stop>>

Apps == {Owner[c] : c \in Conts}
Syncers == {"ticker", "event"}
Running == {c \in Conts : cont[c] = "running"}
Idle == [pc |-> "idle", todo |-> {}, active |-> {}, stale |-> {}]

TypeOK ==
    /\ cont \in [Conts -> {"new", "running", "gone"}]
    /\ routes \in [Hosts -> Conts \cup {None}]
    /\ \A s \in Syncers :
          /\ sync[s].pc \in {"idle", "upsert", "remove"}
          /\ sync[s].todo \subseteq Conts
          /\ sync[s].active \subseteq Apps
          /\ sync[s].stale \subseteq Apps \ sync[s].active
    /\ watcher \in {"spawned", "looping", "ended"}
    /\ stop \in {"no", "waiting", "returned"}

Init ==
    /\ cont = [c \in Conts |-> "new"]
    /\ routes = [h \in Hosts |-> None]
    /\ sync = [s \in Syncers |-> Idle]
    /\ watcher = "spawned"
    /\ stop = "no"
----------------------------------------------------------------------------
(* The containers, moved by deploys, rollbacks, crashes and deletes. *)

\* The labels are fixed when the container is created.
ContainerStarts(c) ==
    /\ cont[c] = "new"
    /\ cont' = [cont EXCEPT ![c] = "running"]
    /\ UNCHANGED <<routes, sync, watcher, stop>>

ContainerStops(c) ==
    /\ cont[c] = "running"
    /\ cont' = [cont EXCEPT ![c] = "gone"]
    /\ UNCHANGED <<routes, sync, watcher, stop>>
----------------------------------------------------------------------------
(* The watcher's goroutine *)

WatcherStartsMutant ==           \* stopped is not looked at
    /\ watcher = "spawned"
    /\ watcher' = "looping"
    /\ UNCHANGED <<cont, routes, sync, stop>>
\* Start, on the goroutine that Module.Start spawned: a no-op after Stop.
WatcherStarts ==
    /\ watcher = "spawned"
    /\ watcher' = IF stop = "no" THEN "looping" ELSE "ended"
    /\ UNCHANGED <<cont, routes, sync, stop>>

\* The loop sees stopCh between two syncs.
WatcherEnds ==
    /\ watcher = "looping" /\ sync["ticker"].pc = "idle" /\ stop # "no"
    /\ watcher' = "ended"
    /\ UNCHANGED <<cont, routes, sync, stop>>

Stop ==
    /\ stop = "no"
    /\ stop' = "waiting"
    /\ UNCHANGED <<cont, routes, sync, watcher>>

\* wg.Wait: the count is one from Start's wg.Add to the end of the loop.
StopReturns ==
    /\ stop = "waiting" /\ watcher # "looping"
    /\ stop' = "returned"
    /\ UNCHANGED <<cont, routes, sync, watcher>>
----------------------------------------------------------------------------
(* syncRoutes *)

\* The first pass of syncRoutes without its writes: which containers it will
\* look at and which applications it takes to be alive.  A listing that fails
\* returns at once and changes nothing; a container without a rule counts as
\* alive and has no route.
ListByLabels(s) ==
    /\ sync[s].pc = "idle"
    /\ s = "ticker" => watcher = "looping"
    /\ sync' = [sync EXCEPT ![s] =
                   [pc |-> "upsert", todo |-> {c \in Running : Labels[c] # {}},
                    active |-> {Owner[c] : c \in Running}, stale |-> {}]]
    /\ UNCHANGED <<cont, routes, watcher, stop>>

\* ParseLabelsToRoute takes the first rule of a map of labels, so any of the
\* container's hosts, and Upsert replaces the route of that host.
Upsert(s, c, h) ==
    /\ sync[s].pc = "upsert" /\ c \in sync[s].todo
    /\ routes' = [routes EXCEPT ![h] = c]
    /\ sync' = [sync EXCEPT ![s].todo = @ \ {c}]
    /\ UNCHANGED <<cont, watcher, stop>>

RoutedApps == {Owner[routes[h]] : h \in {g \in Hosts : routes[g] # None}}

FindStaleMutant(s) ==            \* the second pass finds nothing
    /\ sync[s].pc = "upsert" /\ sync[s].todo = {}
    /\ sync' = [sync EXCEPT ![s].pc = "remove", ![s].stale = {}]
    /\ UNCHANGED <<cont, routes, watcher, stop>>
\* The second pass takes a copy of the table.
FindStale(s) ==
    /\ sync[s].pc = "upsert" /\ sync[s].todo = {}
    /\ sync' = [sync EXCEPT ![s].pc = "remove",
                            ![s].stale = RoutedApps \ sync[s].active]
    /\ UNCHANGED <<cont, routes, watcher, stop>>

\* The table may have changed since the copy was taken.
RemoveByAppID(s, a) ==
    /\ sync[s].pc = "remove" /\ a \in sync[s].stale
    /\ routes' = [h \in Hosts |->
                    IF routes[h] # None /\ Owner[routes[h]] = a THEN None ELSE routes[h]]
    /\ sync' = [sync EXCEPT ![s].stale = @ \ {a}]
    /\ UNCHANGED <<cont, watcher, stop>>

SyncEnds(s) ==
    /\ sync[s].pc = "remove" /\ sync[s].stale = {}
    /\ sync' = [sync EXCEPT ![s] = Idle]
    /\ UNCHANGED <<cont, routes, watcher, stop>>
----------------------------------------------------------------------------
SyncStep(s) ==
    \/ \E c \in Conts : \E h \in Labels[c] : Upsert(s, c, h)
    \/ FindStale(s)
    \/ \E a \in Apps : RemoveByAppID(s, a)
    \/ SyncEnds(s)

Next ==
    \/ \E c \in Conts : ContainerStarts(c) \/ ContainerStops(c)
    \/ WatcherStarts \/ WatcherEnds \/ Stop \/ StopReturns
    \/ \E s \in Syncers : ListByLabels(s) \/ SyncStep(s)

Spec == Init /\ [][Next]_vars
----------------------------------------------------------------------------
Claimed(h) == \E c \in Running : h \in Labels[c]
Dead(h) == routes[h] # None /\ ~ \E c \in Running : Owner[c] = Owner[routes[h]]

\* Once the containers are left alone the table settles, whatever the two
\* goroutines had listed before: a host in the rules of a running container is
\* routed to a running container that names it, and no route is left of an
\* application without one ("reconciles the ingress route table", syncRoutes).
InSync ==
    stop = "no" =>
        \A h \in Hosts :
           /\ Claimed(h) => routes[h] \in Running /\ h \in Labels[routes[h]]
           /\ ~ Dead(h)

\* After Stop has returned the watcher's goroutine never syncs (again), also
\* when it had not been scheduled yet when Stop was called: Start is a no-op.
StopIsFinal == stop = "returned" => watcher # "looping" /\ sync["ticker"].pc = "idle"
============================================================================
