----------------------------- MODULE CronJobs ------------------------------
(***************************************************************************)
(* The cron jobs of an app, from the API to their runs:                    *)
(*   - api/handlers/cronjobs.go reads the persisted list, changes it,      *)
(*     writes it back and publishes an event;                              *)
(*   - cron/module.go refreshes the scheduler from the list, once per      *)
(*     event and in a goroutine of its own;                                *)
(*   - core/scheduler.go keeps a map of job objects, dispatches the due    *)
(*     ones and drains them in Stop.                                       *)
(*                                                                         *)
(* A refresh Adds a new object for every job of the list, also for one     *)
(* that is scheduled: the object it replaces may still be running.  Objs   *)
(* bounds the objects; an object that is neither in the map nor running is *)
(* free to be used again.                                                  *)
(***************************************************************************)
EXTENDS Integers, FiniteSets

CONSTANTS Jobs,      \* the ids of the jobs users create
          Users,     \* API requests
          Kind,      \* of each: "create" or "delete"
          JobOf,     \* and the job it is about
          Objs,      \* CronJob structs
          Refreshes, \* calls of refresh
          Boot,      \* the one made by Module.Start
          Stoppers,  \* calls of Scheduler.Stop
          Serial,    \* TRUE: a user waits until the last change has settled
          None

VARIABLES kv,        \* the jobs of the persisted list
          user,      \* per request: "idle", "read", "publish" or "done"
          list,      \* per request and per refresh: the list it read
          refresh,   \* per refresh: "idle", "called", "attach", "drop", "done"
          todo,      \* per refresh: the jobs still to be added or removed
          stale,     \* the last refresh could not read the list
          jobs,      \* Scheduler.jobs: the object of each job, or None
          idOf,      \* per object: its job
          due,       \* per object: NextRun has passed
          running,   \* per object: CronJob.Running
          loop,      \* the scheduler's loop: "off", "on" or "done"
          stopped,   \* Scheduler.stopped
          wg,        \* Scheduler.wg
          stop       \* per call of Stop: "idle", "waiting" or "returned"

api == <<kv, user>>
sched == <<jobs, idOf, due, running, loop, stopped, wg, stop>>
mod == <<refresh, todo, stale>>
vars == <<api, list, mod, sched>>

TypeOK ==
    /\ kv \subseteq Jobs
    /\ user \in [Users -> {"idle", "read", "publish", "done"}]
    /\ list \in [Users \cup Refreshes -> SUBSET Jobs]
    /\ refresh \in [Refreshes -> {"idle", "called", "attach", "drop", "done"}]
    /\ todo \in [Refreshes -> SUBSET Jobs]
    /\ stale \in BOOLEAN
    /\ jobs \in [Jobs -> Objs \cup {None}]
    /\ idOf \in [Objs -> Jobs \cup {None}]
    /\ due \in [Objs -> BOOLEAN] /\ running \in [Objs -> BOOLEAN]
    /\ loop \in {"off", "on", "done"}
    /\ stopped \in BOOLEAN
    /\ wg \in 0..(Cardinality(Objs) + 1)
    /\ stop \in [Stoppers -> {"idle", "waiting", "returned"}]

Init ==
    /\ kv \in SUBSET Jobs
    /\ user = [u \in Users |-> "idle"]
    /\ list = [x \in Users \cup Refreshes |-> {}]
    /\ refresh = [f \in Refreshes |-> IF f = Boot THEN "called" ELSE "idle"]
    /\ todo = [f \in Refreshes |-> {}]
    /\ stale = FALSE
    /\ jobs = [j \in Jobs |-> None]
    /\ idOf = [o \in Objs |-> None]
    /\ due = [o \in Objs |-> FALSE]
    /\ running = [o \in Objs |-> FALSE]
    /\ loop = "off"
    /\ stopped = FALSE
    /\ wg = 0
    /\ stop = [s \in Stoppers |-> "idle"]

Scheduled == {j \in Jobs : jobs[j] # None}
InMap == {jobs[j] : j \in Scheduled}
Settled ==
    /\ \A u \in Users : user[u] \in {"idle", "done"}
    /\ \A f \in Refreshes : refresh[f] \in {"idle", "done"}
----------------------------------------------------------------------------
(* CronJobHandler.Create and Delete: Get, change, Set, Publish *)

UserReads(u) ==
    /\ user[u] = "idle"
    /\ Serial => Settled
    /\ Kind[u] = "create" => JobOf[u] \notin kv   \* a generated id
    /\ user' = [user EXCEPT ![u] = "read"]
    /\ list' = [list EXCEPT ![u] = kv]
    /\ UNCHANGED <<kv, mod, sched>>

\* The whole list is written back; then the event is published.
UserWrites(u) ==
    /\ user[u] = "read"
    /\ kv' = IF Kind[u] = "create" THEN list[u] \cup {JobOf[u]} ELSE list[u] \ {JobOf[u]}
    /\ user' = [user EXCEPT ![u] = "publish"]
    /\ UNCHANGED <<list, mod, sched>>

\* The list could not be written.
UserFails(u) ==
    /\ user[u] = "read"
    /\ user' = [user EXCEPT ![u] = "done"]
    /\ UNCHANGED <<kv, list, mod, sched>>

UserPublishes(u, f) ==
    /\ user[u] = "publish" /\ refresh[f] = "idle"
    /\ user' = [user EXCEPT ![u] = "done"]
    /\ refresh' = [refresh EXCEPT ![f] = "called"]
    /\ UNCHANGED <<kv, list, todo, stale, sched>>
----------------------------------------------------------------------------
(* Module.refresh *)

RefreshReads(f) ==
    /\ refresh[f] = "called"
    /\ list' = [list EXCEPT ![f] = kv]
    /\ todo' = [todo EXCEPT ![f] = kv]
    /\ refresh' = [refresh EXCEPT ![f] = "attach"]
    /\ stale' = FALSE
    /\ UNCHANGED <<api, sched>>

\* kv.List fails: nothing is done.
RefreshListFails(f) ==
    /\ refresh[f] = "called"
    /\ refresh' = [refresh EXCEPT ![f] = "done"]
    /\ stale' = TRUE
    /\ UNCHANGED <<api, list, todo, sched>>

\* kv.Get fails for the app: its jobs count as deleted.
RefreshGetFails(f) ==
    /\ refresh[f] = "called"
    /\ list' = [list EXCEPT ![f] = {}]
    /\ refresh' = [refresh EXCEPT ![f] = "attach"]
    /\ stale' = TRUE
    /\ UNCHANGED <<api, todo, sched>>

Free == {o \in Objs : o \notin InMap /\ ~running[o]}

\* attach and Scheduler.Add, job by job.
Attach(f, j) ==
    /\ refresh[f] = "attach" /\ j \in todo[f] /\ Free # {}
    /\ LET o == CHOOSE x \in Free : TRUE      \* objects are alike
       IN  /\ jobs' = [jobs EXCEPT ![j] = o]
           /\ idOf' = [idOf EXCEPT ![o] = j]
           /\ due' = [due EXCEPT ![o] = FALSE]
    /\ todo' = [todo EXCEPT ![f] = @ \ {j}]
    /\ UNCHANGED <<api, list, refresh, stale, running, loop, stopped, wg, stop>>

\* Scheduler.Jobs: what is scheduled and not in the list.
RefreshDiff(f) ==
    /\ refresh[f] = "attach" /\ todo[f] = {}
    /\ todo' = [todo EXCEPT ![f] = Scheduled \ list[f]]
    /\ refresh' = [refresh EXCEPT ![f] = "drop"]
    /\ UNCHANGED <<api, list, stale, sched>>

RefreshDrops(f) ==
    /\ refresh[f] = "drop"
    /\ jobs' = [j \in Jobs |-> IF j \in todo[f] THEN None ELSE jobs[j]]
    /\ todo' = [todo EXCEPT ![f] = {}]
    /\ refresh' = [refresh EXCEPT ![f] = "done"]
    /\ UNCHANGED <<api, list, stale, idOf, due, running, loop, stopped, wg, stop>>
----------------------------------------------------------------------------
(* Scheduler *)

Start ==
    /\ loop = "off" /\ ~stopped
    /\ refresh[Boot] = "done"          \* Core.Run: StartAll comes first
    /\ loop' = "on"
    /\ wg' = wg + 1
    /\ UNCHANGED <<api, list, mod, jobs, idOf, due, running, stopped, stop>>

Time(o) ==
    /\ o \in InMap /\ ~due[o]
    /\ due' = [due EXCEPT ![o] = TRUE]
    /\ UNCHANGED <<api, list, mod, jobs, idOf, running, loop, stopped, wg, stop>>

Ready == {o \in InMap : due[o] /\ ~running[o]}

\* Every due job that is not running is dispatched, under mu.
Tick ==
    /\ loop = "on" /\ ~stopped /\ Ready # {}
    /\ running' = [o \in Objs |-> running[o] \/ o \in Ready]
    /\ wg' = wg + Cardinality(Ready)
    /\ UNCHANGED <<api, list, mod, jobs, idOf, due, loop, stopped, stop>>

\* The handler returns, fails or panics: the deferred functions run.
RunEnd(o) ==
    /\ running[o]
    /\ running' = [running EXCEPT ![o] = FALSE]
    /\ due' = [due EXCEPT ![o] = FALSE]
    /\ wg' = wg - 1
    /\ UNCHANGED <<api, list, mod, jobs, idOf, loop, stopped, stop>>

LoopExit ==
    /\ loop = "on" /\ stopped
    /\ loop' = "done"
    /\ wg' = wg - 1
    /\ UNCHANGED <<api, list, mod, jobs, idOf, due, running, stopped, stop>>

StopCall(s) ==
    /\ stop[s] = "idle"
    /\ stopped' = TRUE
    /\ stop' = [stop EXCEPT ![s] = "waiting"]
    /\ UNCHANGED <<api, list, mod, jobs, idOf, due, running, loop, wg>>

StopReturnMutant(s) ==           \* waits for the loop only
    /\ stop[s] = "waiting" /\ loop # "on"
    /\ stop' = [stop EXCEPT ![s] = "returned"]
    /\ UNCHANGED <<api, list, mod, jobs, idOf, due, running, loop, stopped, wg>>
\* wg.Wait: the loop and every handler.
StopReturn(s) ==
    /\ stop[s] = "waiting" /\ wg = 0
    /\ stop' = [stop EXCEPT ![s] = "returned"]
    /\ UNCHANGED <<api, list, mod, jobs, idOf, due, running, loop, stopped, wg>>

Next ==
    \/ \E u \in Users : UserReads(u) \/ UserWrites(u) \/ UserFails(u)
    \/ \E u \in Users : \E f \in Refreshes : UserPublishes(u, f)
    \/ \E f \in Refreshes : RefreshReads(f) \/ RefreshListFails(f) \/ RefreshGetFails(f)
    \/ \E f \in Refreshes : RefreshDiff(f) \/ RefreshDrops(f)
    \/ \E f \in Refreshes : \E j \in Jobs : Attach(f, j)
    \/ Start \/ Tick \/ LoopExit
    \/ \E o \in Objs : Time(o) \/ RunEnd(o)
    \/ \E s \in Stoppers : StopCall(s) \/ StopReturn(s)

Spec == Init /\ [][Next]_vars
----------------------------------------------------------------------------
(* Properties *)

\* Once a Scheduler.Stop has returned, no handler runs and no loop is left to
\* dispatch one: Core.Run stops the modules the handlers use next.
StopDrains ==
    (\E s \in Stoppers : stop[s] = "returned") =>
        loop # "on" /\ \A o \in Objs : ~running[o]

============================================================================
