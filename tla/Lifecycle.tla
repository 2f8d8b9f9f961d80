----------------------------- MODULE Lifecycle -----------------------------
(***************************************************************************)
(* The life of the process: Core.Run resolves the modules, initialises and *)
(* starts them, waits for the signal and shuts down (core/app.go,          *)
(* core/registry.go), while API requests, the background goroutines they   *)
(* start (safeGo), cron handlers and asynchronous event handlers are under *)
(* way; api.Module.Stop drains the requests and the goroutines.            *)
(*                                                                         *)
(* Resolve is the depth-first search of the code, with its stack: the loop *)
(* over the map of modules takes them in any order.                        *)
(***************************************************************************)
EXTENDS Integers, Sequences, FiniteSets

CONSTANTS Mods,     \* the registered modules
          Graphs,   \* the dependencies: functions from Mods to sequences of ids
          Api,      \* the API module
          Reqs,     \* API requests
          Jobs      \* cron handlers

VARIABLES deps,      \* Dependencies() of each module
          phase,     \* where Run is
          visited, visiting, stack, order,   \* Resolve
          k,         \* the loop index of InitAll, StartAll and StopAll
          mod,       \* per module: "new", "inited", "started" or "stopped"
          apiStop,   \* where api.Module.Stop is: "off", "drain", "bg", "shutdown"
          timedOut,  \* the 30 s of the shutdown were over when it mattered
          req,       \* per request: "idle", "checked", "in" or "done"
          bg,        \* per request: the goroutine it starts
          event,     \* per request and cron handler: the event it publishes
          job        \* per cron handler

resolve == <<visited, visiting, stack, order>>
work == <<req, bg, event, job>>
vars == <<deps, phase, resolve, k, mod, apiStop, timedOut, work>>

Activity == {"none", "running", "done"}
Phases == {"resolve", "init", "start", "ready", "stop_scheduler", "drain_events",
           "stop_modules", "exited", "failed"}
DepsOf(m) == {deps[m][i] : i \in DOMAIN deps[m]}

TypeOK ==
    /\ deps \in Graphs
    /\ phase \in Phases
    /\ visited \subseteq Mods /\ visiting \subseteq Mods
    /\ order \in Seq(Mods) /\ Len(order) <= Cardinality(Mods)
    /\ \A i \in DOMAIN stack : stack[i].id \in visiting
    /\ k \in 0..(Cardinality(Mods) + 1)
    /\ mod \in [Mods -> {"new", "inited", "started", "stopped"}]
    /\ apiStop \in {"off", "drain", "bg", "shutdown"}
    /\ timedOut \in BOOLEAN
    /\ req \in [Reqs -> {"idle", "checked", "in", "done"}]
    /\ bg \in [Reqs -> Activity]
    /\ event \in [Reqs \cup Jobs -> Activity]
    /\ job \in [Jobs -> Activity]

Init ==
    /\ deps \in Graphs
    /\ phase = "resolve"
    /\ visited = {} /\ visiting = {} /\ stack = <<>> /\ order = <<>>
    /\ k = 1
    /\ mod = [m \in Mods |-> "new"]
    /\ apiStop = "off"
    /\ timedOut = FALSE
    /\ req = [r \in Reqs |-> "idle"]
    /\ bg = [r \in Reqs |-> "none"]
    /\ event = [x \in Reqs \cup Jobs |-> "none"]
    /\ job = [j \in Jobs |-> "none"]
----------------------------------------------------------------------------
(* Registry.Resolve *)

Push(d) == [id |-> d, rest |-> deps[d]]

\* The loop over the modules calls visit for the next one.
VisitRoot(m) ==
    /\ phase = "resolve" /\ stack = <<>> /\ m \notin visited
    /\ stack' = <<Push(m)>>
    /\ visiting' = visiting \cup {m}
    /\ UNCHANGED <<deps, phase, visited, order, k, mod, apiStop, timedOut, work>>

\* visit looks at the next dependency of the module on top of the stack.
VisitDep ==
    /\ phase = "resolve" /\ stack # <<>>
    /\ LET n == Len(stack)
           top == stack[n] IN
       /\ top.rest # <<>>
       /\ LET d == Head(top.rest)
              popped == [stack EXCEPT ![n].rest = Tail(@)] IN
          \/ /\ d \in visited
             /\ stack' = popped
             /\ UNCHANGED <<phase, visiting>>
          \/ /\ d \in visiting \/ d \notin Mods     \* circular or unknown
             /\ phase' = "failed"
             /\ UNCHANGED <<stack, visiting>>
          \/ /\ d \in Mods \ (visited \cup visiting)
             /\ stack' = Append(popped, Push(d))
             /\ visiting' = visiting \cup {d}
             /\ UNCHANGED phase
    /\ UNCHANGED <<deps, visited, order, k, mod, apiStop, timedOut, work>>

VisitEndMutant ==                \* the order is built back to front
    /\ phase = "resolve" /\ stack # <<>>
    /\ LET n == Len(stack)
           m == stack[n].id IN
       /\ stack[n].rest = <<>>
       /\ stack' = SubSeq(stack, 1, n - 1)
       /\ visiting' = visiting \ {m}
       /\ visited' = visited \cup {m}
       /\ order' = <<m>> \o order
    /\ UNCHANGED <<deps, phase, k, mod, apiStop, timedOut, work>>
\* Its dependencies are in the order, and now the module is.
VisitEnd ==
    /\ phase = "resolve" /\ stack # <<>>
    /\ LET n == Len(stack)
           m == stack[n].id IN
       /\ stack[n].rest = <<>>
       /\ stack' = SubSeq(stack, 1, n - 1)
       /\ visiting' = visiting \ {m}
       /\ visited' = visited \cup {m}
       /\ order' = Append(order, m)
    /\ UNCHANGED <<deps, phase, k, mod, apiStop, timedOut, work>>

Resolved ==
    /\ phase = "resolve" /\ stack = <<>> /\ visited = Mods
    /\ phase' = "init"
    /\ UNCHANGED <<deps, resolve, k, mod, apiStop, timedOut, work>>
----------------------------------------------------------------------------
(* InitAll and StartAll: the first error ends Run, and nothing is stopped. *)

Walk(from, to, next, first) ==
    /\ phase = from
    /\ IF k <= Len(order)
       THEN \/ /\ mod' = [mod EXCEPT ![order[k]] = to]
               /\ k' = k + 1
               /\ UNCHANGED phase
            \/ /\ phase' = "failed"
               /\ UNCHANGED <<mod, k>>
       ELSE /\ phase' = next
            /\ k' = first
            /\ UNCHANGED mod
    /\ UNCHANGED <<deps, resolve, apiStop, timedOut, work>>

InitAll == Walk("init", "inited", "start", 1)

StartAllMutant == Walk("start", "started", "ready", 1)   \* StopAll from the front
\* After the last Start, the scheduler is started and the core is ready.
StartAll == Walk("start", "started", "ready", Len(order))
----------------------------------------------------------------------------
(* Shutdown: the scheduler, the event bus, then the modules in reverse *)

Signal ==
    /\ phase = "ready"
    /\ phase' = "stop_scheduler"
    /\ UNCHANGED <<deps, resolve, k, mod, apiStop, timedOut, work>>

StopSchedulerMutant ==           \* it does not wait
    /\ phase = "stop_scheduler"
    /\ phase' = "drain_events"
    /\ UNCHANGED <<deps, resolve, k, mod, apiStop, timedOut, work>>
\* Scheduler.Stop returns once no handler runs.
StopScheduler ==
    /\ phase = "stop_scheduler"
    /\ \A j \in Jobs : job[j] # "running"
    /\ phase' = "drain_events"
    /\ UNCHANGED <<deps, resolve, k, mod, apiStop, timedOut, work>>

\* Events.Drain returns once no asynchronous handler runs.
DrainEvents ==
    /\ phase = "drain_events"
    /\ \A x \in DOMAIN event : event[x] # "running"
    /\ phase' = "stop_modules"
    /\ UNCHANGED <<deps, resolve, k, mod, apiStop, timedOut, work>>

\* StopAll: an error of a Stop is kept and the loop goes on.
StopModule ==
    /\ phase = "stop_modules" /\ k > 0 /\ order[k] # Api
    /\ mod' = [mod EXCEPT ![order[k]] = "stopped"]
    /\ k' = k - 1
    /\ UNCHANGED <<deps, phase, resolve, apiStop, timedOut, work>>

Exit ==
    /\ phase = "stop_modules" /\ k = 0
    /\ phase' = "exited"
    /\ UNCHANGED <<deps, resolve, k, mod, apiStop, timedOut, work>>

StoppingApi == phase = "stop_modules" /\ k > 0 /\ order[k] = Api

\* api.Module.Stop: StartDraining.
ApiStartDraining ==
    /\ StoppingApi /\ apiStop = "off"
    /\ apiStop' = "drain"
    /\ UNCHANGED <<deps, phase, resolve, k, mod, timedOut, work>>

\* InFlight() is zero: wait for the goroutines; or the context is over.
ApiDrained ==
    /\ apiStop = "drain"
    /\ \/ /\ \A r \in Reqs : req[r] # "in"
          /\ apiStop' = "bg"
          /\ UNCHANGED timedOut
       \/ /\ \E r \in Reqs : req[r] = "in"
          /\ apiStop' = "shutdown"
          /\ timedOut' = TRUE
    /\ UNCHANGED <<deps, phase, resolve, k, mod, work>>

\* WaitForBackground.
ApiWaited ==
    /\ apiStop = "bg"
    /\ \A r \in Reqs : bg[r] # "running"
    /\ apiStop' = "shutdown"
    /\ UNCHANGED <<deps, phase, resolve, k, mod, timedOut, work>>

\* http.Server.Shutdown: no new connection, and every request is waited for,
\* unless the context is over.
ApiShutdown ==
    /\ apiStop = "shutdown" /\ mod[Api] = "started"
    /\ (\E r \in Reqs : req[r] \in {"checked", "in"}) => timedOut
    /\ mod' = [mod EXCEPT ![Api] = "stopped"]
    /\ k' = k - 1
    /\ UNCHANGED <<deps, phase, resolve, apiStop, timedOut, work>>
----------------------------------------------------------------------------
(* What goes on meanwhile *)

\* GracefulShutdown.Middleware looks at draining and counts the request.
ReqArrives(r) ==
    /\ req[r] = "idle" /\ mod[Api] = "started" /\ apiStop # "shutdown"
    /\ req' = [req EXCEPT ![r] = IF apiStop = "off" THEN "checked" ELSE "done"]
    /\ UNCHANGED <<deps, phase, resolve, k, mod, apiStop, timedOut, bg, event, job>>

ReqEnters(r) ==
    /\ req[r] = "checked"
    /\ req' = [req EXCEPT ![r] = "in"]
    /\ UNCHANGED <<deps, phase, resolve, k, mod, apiStop, timedOut, bg, event, job>>

\* safeGo in a handler.
ReqSpawns(r) ==
    /\ req[r] = "in" /\ bg[r] = "none"
    /\ bg' = [bg EXCEPT ![r] = "running"]
    /\ UNCHANGED <<deps, phase, resolve, k, mod, apiStop, timedOut, req, event, job>>

ReqEnds(r) ==
    /\ req[r] = "in"
    /\ req' = [req EXCEPT ![r] = "done"]
    /\ UNCHANGED <<deps, phase, resolve, k, mod, apiStop, timedOut, bg, event, job>>

BgEnds(r) ==
    /\ bg[r] = "running"
    /\ bg' = [bg EXCEPT ![r] = "done"]
    /\ UNCHANGED <<deps, phase, resolve, k, mod, apiStop, timedOut, req, event, job>>

\* PublishAsync in a handler, in a goroutine or in a cron handler.
Publishes(x) ==
    /\ event[x] = "none"
    /\ IF x \in Reqs THEN req[x] = "in" \/ bg[x] = "running" ELSE job[x] = "running"
    /\ event' = [event EXCEPT ![x] = "running"]
    /\ UNCHANGED <<deps, phase, resolve, k, mod, apiStop, timedOut, req, bg, job>>

EventEnds(x) ==
    /\ event[x] = "running"
    /\ event' = [event EXCEPT ![x] = "done"]
    /\ UNCHANGED <<deps, phase, resolve, k, mod, apiStop, timedOut, req, bg, job>>

\* The scheduler dispatches until Stop.
JobStarts(j) ==
    /\ phase = "ready" /\ job[j] = "none"
    /\ job' = [job EXCEPT ![j] = "running"]
    /\ UNCHANGED <<deps, phase, resolve, k, mod, apiStop, timedOut, req, bg, event>>

JobEnds(j) ==
    /\ job[j] = "running"
    /\ job' = [job EXCEPT ![j] = "done"]
    /\ UNCHANGED <<deps, phase, resolve, k, mod, apiStop, timedOut, req, bg, event>>

RunStep ==
    \/ VisitDep \/ VisitEnd \/ Resolved \/ InitAll \/ StartAll
    \/ StopScheduler \/ DrainEvents \/ StopModule \/ Exit
    \/ ApiStartDraining \/ ApiDrained \/ ApiWaited \/ ApiShutdown

WorkEnds ==
    \/ \E r \in Reqs : ReqEnters(r) \/ ReqEnds(r) \/ BgEnds(r)
    \/ \E x \in Reqs \cup Jobs : EventEnds(x)
    \/ \E j \in Jobs : JobEnds(j)

Next ==
    \/ RunStep \/ WorkEnds \/ Signal
    \/ \E m \in Mods : VisitRoot(m)
    \/ \E r \in Reqs : ReqArrives(r) \/ ReqSpawns(r)
    \/ \E x \in Reqs \cup Jobs : Publishes(x)
    \/ \E j \in Jobs : JobStarts(j)

Spec == Init /\ [][Next]_vars
----------------------------------------------------------------------------
(* Properties *)

\* A graph can be started when its modules can be ranked, dependencies first.
Rankable ==
    \E rank \in [Mods -> 1..Cardinality(Mods)] :
        \A m \in Mods : \A d \in DepsOf(m) : d \in Mods /\ rank[d] < rank[m]

\* Resolve fails just for a circular or unknown dependency, and what it returns
\* has every module once, after all its dependencies, in whatever order the map
\* of modules is walked.
ResolveExact ==
    /\ phase = "failed" /\ visited # Mods => ~Rankable
    /\ phase \notin {"resolve", "failed"} =>
         /\ Len(order) = Cardinality(Mods)
         /\ \A i \in DOMAIN order : DepsOf(order[i]) \subseteq {order[h] : h \in 1..(i - 1)}

\* A started module runs on started dependencies, all the way through start-up
\* and shutdown, failed steps included.
DependenciesUp ==
    \A m \in Mods : mod[m] = "started" =>
        \A d \in DepsOf(m) : mod[d] = "started"

\* No cron handler runs before every module was started or once one was stopped.
JobsOnLiveModules ==
    (\E j \in Jobs : job[j] = "running") => \A m \in Mods : mod[m] = "started"

\* An API handler runs on a started API module, and so on started dependencies,
\* unless the shutdown ran out of time: also the request that passed the look at
\* draining just before StartDraining.
RequestsOnLiveModules ==
    (\E r \in Reqs : req[r] \in {"checked", "in"}) /\ ~timedOut => mod[Api] = "started"
============================================================================
