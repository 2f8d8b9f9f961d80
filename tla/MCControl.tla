------------------------------ MODULE MCControl -----------------------------
(***************************************************************************)
(* The event bus, the agent link, the scheduler and the deploys of an      *)
(* application, on small instances.  A behaviour picks one of them at the  *)
(* start (area) and runs that one, so the state space is the sum of        *)
(* theirs; v1 .. v17 hold its variables, those it does not need are 0.     *)
(***************************************************************************)
EXTENDS Integers, Sequences, FiniteSets, TLC

CONSTANTS Areas,
          p1, p2, sync, a1, a2,                          \* bus: publishers, subscriptions
          c1, c2, r1, ping, s1, srv,                     \* agent: connections, requests
          j1, j2, cr, de, o1, o2, o3, o4, f0, f1, f2,    \* cron: jobs, users, objects, refreshes
          g1, g2, i1, i2, rb, mon, st, sr, sus, res, del,  \* app: operations
          None

VARIABLES area, v1, v2, v3, v4, v5, v6, v7, v8, v9, v10, v11, v12, v13, v14, v15, v16, v17
vars == <<v1, v2, v3, v4, v5, v6, v7, v8, v9, v10, v11, v12, v13, v14, v15, v16, v17>>
From9 == <<v9, v10, v11, v12, v13, v14, v15, v16, v17>>
From12 == <<v12, v13, v14, v15, v16, v17>>
From15 == <<v15, v16, v17>>
Zero15 == v15 = 0 /\ v16 = 0 /\ v17 = 0
Zero12 == v12 = 0 /\ v13 = 0 /\ v14 = 0 /\ Zero15
Zero9 == v9 = 0 /\ v10 = 0 /\ v11 = 0 /\ Zero12

----------------------------------------------------------------------------
(* A PublishAsync and a Publish race with Subscribe, Unsubscribe and       *)
(* Drain; handlers may fail, panic and publish; two slots.  a1 is the      *)
(* subscription of AutoRestarter, which publishes app.crashed, and a2 an   *)
(* event stream with filter "*".                                           *)
Died == <<"container", "died">>
Crashed == <<"app", "crashed">>
EventOf == [c \in {p1, p2} \cup ({p1, p2} \X {a1}) |-> IF c \in {p1, p2} THEN Died ELSE Crashed]
Filter == (a1 :> [kind |-> "prefix", path |-> <<"container">>])
       @@ (a2 :> [kind |-> "all", path |-> <<>>]) @@ (sync :> [kind |-> "exact", path |-> Died])
Bus == INSTANCE EventBus WITH
    Publishers <- {p1, p2}, AsyncCalls <- {p1}, Cancelable <- {p2},
    Subs <- {sync, a1, a2}, AsyncSubs <- {a1, a2}, Fails <- {sync, a1}, Panics <- {sync, a2},
    Republishes <- {a1}, Transient <- {a1}, Initial <- <<sync, a1, a2>>, SemCap <- 2,
    TypeOf <- EventOf, Pattern <- Filter,
    subscriptions <- v1, call <- v2, todo <- v3, delivery <- v4, asyncSem <- v5, asyncWG <- v6,
    errorCount <- v7, drain <- v8

(* One agent connects twice while a build command it answers twice and a   *)
(* ping are under way, or a ping and Stop.                                 *)
Links == {c1, c2}
AgentOf == [c \in Links |-> srv]
Asks == {r1, ping}
Addressee == [r \in Asks |-> srv]
Agent == INSTANCE AgentLink WITH
    Conns <- Links, ServerOf <- AgentOf, Reqs <- Asks, Pings <- {ping}, ToServer <- Addressee,
    Twice <- {r1}, Stoppers <- {}, MaxHandlers <- 1,
    closed <- v1, agents <- v2, wg <- v3, beat <- v4, stop <- v5, loop <- v6, open <- v7,
    pending <- v8, call <- v9, target <- v10, chan <- v11, cur <- v12, inbox <- v13, running <- v14,
    replied <- v15, toAgent <- v16, toMaster <- v17
PingTo == (ping :> srv)
Closing == INSTANCE AgentLink WITH
    Conns <- Links, ServerOf <- AgentOf, Reqs <- {ping}, Pings <- {ping}, ToServer <- PingTo,
    Twice <- {}, Stoppers <- {s1}, MaxHandlers <- 1,
    closed <- v1, agents <- v2, wg <- v3, beat <- v4, stop <- v5, loop <- v6, open <- v7,
    pending <- v8, call <- v9, target <- v10, chan <- v11, cur <- v12, inbox <- v13, running <- v14,
    replied <- v15, toAgent <- v16, toMaster <- v17

(* A job is created and deleted while jobs run, and Stop.                  *)
Asked == (cr :> "create") @@ (de :> "delete")
About == (cr :> j1) @@ (de :> j1)
Cron == INSTANCE CronJobs WITH
    Jobs <- {j1, j2}, Users <- {cr, de}, Kind <- Asked, JobOf <- About, Objs <- {o1, o2, o3, o4},
    Refreshes <- {f0, f1, f2}, Boot <- f0,
    Stoppers <- {s1}, Serial <- TRUE,
    kv <- v1, user <- v2, list <- v3, refresh <- v4, todo <- v5, stale <- v6, jobs <- v7, idOf <- v8,
    due <- v9, running <- v10, loop <- v11, stopped <- v12, wg <- v13, stop <- v14

(* Two deploys and a rollback of one application race, or a deploy, a      *)
(* rollback and a Delete; the first container may die, the master may      *)
(* crash twice.                                                            *)
KindOf == (g1 :> "git") @@ (g2 :> "git") @@ (i1 :> "image") @@ (i2 :> "image")
       @@ (rb :> "rollback") @@ (mon :> "monitor") @@ (st :> "stop") @@ (sr :> "start")
       @@ (sus :> "suspend") @@ (res :> "resume") @@ (del :> "delete")
Racers == {g1, g2, rb}
RacerKind == [p \in Racers |-> KindOf[p]]
Race == INSTANCE AppDeploy WITH
    Procs <- Racers, Kind <- RacerKind, MayDie <- {1}, Serial <- FALSE,
    MaxCrashes <- 2, MaxRetries <- 2,
    exists <- v1, appStatus <- v2, rows <- v3, cont <- v4, boot <- v5, crashes <- v6, pc <- v7,
    ver <- v8, tgt <- v9, todo <- v10, tries <- v11
Removers == {g1, rb, del}
RemoverKind == [p \in Removers |-> KindOf[p]]
Removal == INSTANCE AppDeploy WITH
    Procs <- Removers, Kind <- RemoverKind, MayDie <- {1}, Serial <- FALSE,
    MaxCrashes <- 2, MaxRetries <- 2,
    exists <- v1, appStatus <- v2, rows <- v3, cont <- v4, boot <- v5, crashes <- v6, pc <- v7,
    ver <- v8, tgt <- v9, todo <- v10, tries <- v11

(* Every operation on an image application, one after the other, in every  *)
(* order: the buttons, and Suspend with Resume.                            *)
Pressed == {i1, i2, rb, mon, st, sr}
PressedKind == [p \in Pressed |-> KindOf[p]]
Buttons == INSTANCE AppDeploy WITH
    Procs <- Pressed, Kind <- PressedKind, MayDie <- {},
    Serial <- TRUE, MaxCrashes <- 0, MaxRetries <- 1,
    exists <- v1, appStatus <- v2, rows <- v3, cont <- v4, boot <- v5, crashes <- v6, pc <- v7,
    ver <- v8, tgt <- v9, todo <- v10, tries <- v11
Paused == {i1, i2, rb, mon, sus, res}
PausedKind == [p \in Paused |-> KindOf[p]]
Pauses == INSTANCE AppDeploy WITH
    Procs <- Paused, Kind <- PausedKind, MayDie <- {},
    Serial <- TRUE, MaxCrashes <- 0, MaxRetries <- 1,
    exists <- v1, appStatus <- v2, rows <- v3, cont <- v4, boot <- v5, crashes <- v6, pc <- v7,
    ver <- v8, tgt <- v9, todo <- v10, tries <- v11

Init ==
    /\ area \in Areas
    /\ CASE area = "bus" -> Bus!Init /\ Zero9
         [] area = "agent" -> Agent!Init
         [] area = "closing" -> Closing!Init
         [] area = "cron" -> Cron!Init /\ Zero15
         [] area = "race" -> Race!Init /\ Zero12
         [] area = "removal" -> Removal!Init /\ Zero12
         [] area = "buttons" -> Buttons!Init /\ Zero12
         [] area = "pauses" -> Pauses!Init /\ Zero12

Next ==
    /\ \/ area = "bus" /\ Bus!Next /\ UNCHANGED From9
       \/ area = "agent" /\ Agent!Next
       \/ area = "closing" /\ Closing!Next
       \/ area = "cron" /\ Cron!Next /\ UNCHANGED From15
       \/ area = "race" /\ Race!Next /\ UNCHANGED From12
       \/ area = "removal" /\ Removal!Next /\ UNCHANGED From12
       \/ area = "buttons" /\ Buttons!Next /\ UNCHANGED From12
       \/ area = "pauses" /\ Pauses!Next /\ UNCHANGED From12
    /\ UNCHANGED area

Spec == Init /\ [][Next]_<<area, vars>>

----------------------------------------------------------------------------
(* The variables have their types: no WaitGroup or channel count is        *)
(* negative or over its capacity, no place unknown.                        *)
TypeOK ==
    CASE area = "bus" -> Bus!TypeOK [] area = "agent" -> Agent!TypeOK [] area = "closing" -> Closing!TypeOK
      [] area = "cron" -> Cron!TypeOK [] area = "race" -> Race!TypeOK [] area = "removal" -> Removal!TypeOK
      [] area = "buttons" -> Buttons!TypeOK [] area = "pauses" -> Pauses!TypeOK

(* What was told to stop has stopped: when Drain of the bus returns, no    *)
(* handler, no backoff and no PublishAsync called before is left; after    *)
(* Stop of the agent server, no read loop, ping or heartbeat; after Stop   *)
(* of the scheduler, no loop and no handler.                               *)
StopDrains ==
    [][/\ area = "bus" => Bus!DrainWaitsForAll
       /\ area = "closing" => Closing!StopDrains'
       /\ area = "cron" => Cron!StopDrains']_vars

(* However retries, panics and nested publishes interleave, at most SemCap *)
(* async handlers run, a failed delivery is counted once, and no standing  *)
(* subscription is lost when Unsubscribe fills its hole.                   *)
DeliveryExact ==
    area = "bus" => Bus!HandlersBounded /\ Bus!ErrorsCountedOnce /\ Bus!NoSubscriptionLost

(* The table of waiting Sends is right through lost connections and late,  *)
(* repeated or misdirected answers: nobody waits outside it, a delivery    *)
(* never blocks, and a finished Send leaves nothing behind.                *)
PendingExact ==
    /\ area = "agent" => Agent!NoOrphanedSend /\ Agent!DeliveryNeverBlocks /\ Agent!NoLeakedEntry
    /\ area = "closing" => Closing!NoOrphanedSend /\ Closing!DeliveryNeverBlocks /\ Closing!NoLeakedEntry


(* A reserved version belongs to one operation: while the master is up a   *)
(* row that says "deploying" has one that still works on it, crashes and   *)
(* the reclaim sweep included, and the container name an operation is      *)
(* about to create was never used (CreateDeploymentAtomicVersion).         *)
VersionOwned ==
    /\ area = "race" => Race!InFlightRowOwned /\ Race!NameFree
    /\ area = "removal" => Removal!InFlightRowOwned /\ Removal!NameFree



(* "ConnectedAgents returns info about all currently connected agents":    *)
(* a registered connection that is open at both ends is in the map.        *)
ConnectedListed == area = "agent" => Agent!ConnectedListed
=============================================================================
