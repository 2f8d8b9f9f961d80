----------------------------- MODULE AppDeploy -----------------------------
(***************************************************************************)
(* The life of one application: its row and deployment rows in the store,  *)
(* its Docker containers, and the goroutines that work on them.            *)
(*                                                                         *)
(*   git       deployGitApp          internal/api/handlers/deploy_pipeline *)
(*   image     TriggerDeploy         (an image app)                        *)
(*   rollback  RollbackEngine        internal/deploy/rollback.go           *)
(*   monitor   AutoRestarter         internal/deploy/autorestart.go        *)
(*   stop, start, suspend, resume, delete                                  *)
(*                                   the handlers of the app's buttons     *)
(*                                                                         *)
(* Nothing serialises them: the code has no lock per application.  Every   *)
(* store write and every Docker call is a step of its own.  A container is *)
(* named by the version whose deploy created it (dm-<app>-<version>), 0 is *)
(* "no container".  The store itself does not fail.                        *)
(***************************************************************************)
EXTENDS Integers, Sequences, FiniteSets

CONSTANTS Procs,       \* operations somebody starts, at most once each
          Kind,        \* which operation
          MayDie,      \* the containers whose process may exit by itself
          Serial,      \* the callers wait for each other (nothing in the code does)
          MaxCrashes,  \* bound on the crashes of the master
          MaxRetries   \* AutoRestarter.maxRetries

Kinds == {"git", "image", "rollback", "monitor", "stop", "start", "suspend",
          "resume", "delete"}
Versions == 1..Cardinality(Procs)

VARIABLES exists,     \* the application row is there
          appStatus,  \* applications.status
          rows,       \* the deployment rows, by version
          cont,       \* the state of each container
          boot,       \* the master: "up", or how far its start is
          crashes,    \* how often the master crashed
          pc,         \* per operation: where it is
          ver,        \* the version it reserved
          tgt,        \* the container it acts on, or is to replace
          todo,       \* the containers of a listing it still has to visit
          tries       \* restart attempts of the monitor

local == <<pc, ver, tgt, todo, tries>>
vars == <<exists, appStatus, rows, cont, boot, crashes, local>>

Statuses == {"pending", "building", "deploying", "running", "failed", "crashed",
             "stopped", "suspended"}
Row == [status : {"deploying", "running", "failed"}, container : Versions \cup {0},
        source : Versions]   \* source: the first version that used this image

TypeOK ==
    /\ exists \in BOOLEAN
    /\ appStatus \in Statuses
    /\ rows \in Seq(Row) /\ Len(rows) <= Cardinality(Procs)
    /\ cont \in [Versions -> {"none", "created", "running", "exited", "gone"}]
    /\ boot \in {"up", "down", "reclaim", "reclaimApp"}
    /\ crashes \in 0..MaxCrashes
    /\ pc \in [Procs -> {"idle", "build", "reserve", "mark", "create", "failRow", "failApp",
                         "record", "list", "clean", "health", "unhealthy", "removeOld", "finalize",
                         "setRunning", "act", "retry", "setStatus", "done"}]
    /\ ver \in [Procs -> Versions \cup {0}]
    /\ tgt \in [Procs -> Versions \cup {0}]
    /\ todo \in [Procs -> SUBSET Versions]
    /\ tries \in [Procs -> 0..MaxRetries]

Init ==
    /\ exists = TRUE
    /\ appStatus = "pending"
    /\ rows = <<>>
    /\ cont = [v \in Versions |-> "none"]
    /\ boot = "up"
    /\ crashes = 0
    /\ pc = [p \in Procs |-> "idle"]
    /\ ver = [p \in Procs |-> 0]
    /\ tgt = [p \in Procs |-> 0]
    /\ todo = [p \in Procs |-> {}]
    /\ tries = [p \in Procs |-> 0]
----------------------------------------------------------------------------
(* The store and Docker *)

\* UpdateAppStatus: no row, no change.
UpdateAppStatus(s) == appStatus' = IF exists THEN s ELSE appStatus

CreateDeploymentAtomicVersionMutant(p, source) ==   \* MAX over the finished rows
    LET v == Cardinality({w \in DOMAIN rows : rows[w].status # "deploying"}) + 1
        row == [status |-> "deploying", container |-> 0,
                source |-> IF source = 0 THEN v ELSE source]
    IN  /\ rows' = SubSeq(rows, 1, v - 1) \o <<row>> \o SubSeq(rows, v + 1, Len(rows))
        /\ ver' = [ver EXCEPT ![p] = v]
\* CreateDeploymentAtomicVersion: INSERT ... SELECT MAX(version) + 1.
CreateDeploymentAtomicVersion(p, source) ==
    LET v == Len(rows) + 1
    IN  /\ rows' = Append(rows, [status |-> "deploying", container |-> 0,
                                  source |-> IF source = 0 THEN v ELSE source])
        /\ ver' = [ver EXCEPT ![p] = v]

\* UpdateDeployment on the row of version v; a deleted row is no error.
UpdateDeployment(v, status, container) ==
    rows' = IF v \in DOMAIN rows
              THEN [rows EXCEPT ![v].status = status, ![v].container = container]
              ELSE rows

\* GetLatestDeployment(...).ContainerID
LatestContainer == IF rows = <<>> THEN 0 ELSE rows[Len(rows)].container

Present == {v \in Versions : cont[v] \in {"created", "running", "exited"}}
Running == {v \in Versions : cont[v] = "running"}

\* A running process dies and its restart policy does not bring it back.
ContainerDies(v) ==
    /\ v \in MayDie /\ cont[v] = "running"
    /\ cont' = [cont EXCEPT ![v] = "exited"]
    /\ UNCHANGED <<exists, appStatus, rows, boot, crashes, local>>
----------------------------------------------------------------------------
(* Steps shared by the operations *)

At(p, kinds, l) ==
    /\ boot = "up" /\ Kind[p] \in kinds /\ pc[p] = l
    /\ Serial /\ l = "idle" => \A q \in Procs : pc[q] \in {"idle", "done"}
Goto(p, l) == pc' = [pc EXCEPT ![p] = l]

\* One step that only writes the app's status.
StatusStep(p, status, l) ==
    /\ UpdateAppStatus(status)
    /\ Goto(p, l)
    /\ UNCHANGED <<exists, rows, cont, boot, crashes, ver, tgt, todo, tries>>

\* The row is finalized; CreateAndStart's container is the row's container.
FinalizeRow(p) ==
    /\ At(p, {"git", "rollback"}, "finalize")
    /\ UpdateDeployment(ver[p], "running", ver[p])
    /\ Goto(p, "setRunning")
    /\ UNCHANGED <<exists, appStatus, cont, boot, crashes, ver, tgt, todo, tries>>

SetRunning(p) ==
    /\ At(p, {"git", "image", "rollback"}, "setRunning")
    /\ StatusStep(p, "running", "done")

\* CreateAndStart succeeds.
CreateAndStart(p) ==
    /\ At(p, {"git", "image", "rollback"}, "create")
    /\ cont' = [cont EXCEPT ![ver[p]] = "running"]
    /\ Goto(p, CASE Kind[p] = "git" -> "list" [] Kind[p] = "image" -> "record"
                 [] OTHER -> "health")
    /\ UNCHANGED <<exists, appStatus, rows, boot, crashes, ver, tgt, todo, tries>>

\* The app is gone when an image deploy or a rollback wants to insert its row.
ReserveFails(p) ==
    /\ At(p, {"image", "rollback"}, "reserve") /\ ~exists
    /\ Goto(p, "done")
    /\ UNCHANGED <<exists, appStatus, rows, cont, boot, crashes, ver, tgt, todo, tries>>

\* No connection, no network, or CreateAndStart fails, possibly after Docker
\* created the container.
CreateFails(p) ==
    /\ At(p, {"git", "image"}, "create")
    /\ cont' \in {cont, [cont EXCEPT ![ver[p]] = "created"]}
    /\ Goto(p, "failApp")
    /\ UNCHANGED <<exists, appStatus, rows, boot, crashes, ver, tgt, todo, tries>>

\* A git deploy marks its row next (failReservedDeployment), a rollback has
\* marked it before, an image deploy leaves it.
FailApp(p) ==
    /\ At(p, {"git", "image", "rollback"}, "failApp")
    /\ StatusStep(p, "failed", IF Kind[p] = "git" THEN "failRow" ELSE "done")

\* cleanupPreviousAppContainers: the listing, then one container at a time.
ListPrevious(p) ==
    /\ At(p, {"git", "image"}, "list")
    /\ todo' = [todo EXCEPT ![p] = Present \ {ver[p]}]
    /\ Goto(p, "clean")
    /\ UNCHANGED <<exists, appStatus, rows, cont, boot, crashes, ver, tgt, tries>>

RemovePrevious(p) ==
    /\ At(p, {"git", "image"}, "clean")
    /\ \/ /\ todo[p] = {}
          /\ Goto(p, IF Kind[p] = "git" THEN "finalize" ELSE "setRunning")
          /\ UNCHANGED <<cont, todo>>
       \/ \E v \in todo[p] :
            /\ cont' = [cont EXCEPT ![v] = "gone"]
            /\ todo' = [todo EXCEPT ![p] = @ \ {v}]
            /\ UNCHANGED pc
    /\ UNCHANGED <<exists, appStatus, rows, boot, crashes, ver, tgt, tries>>
----------------------------------------------------------------------------
(* git: deployGitApp *)

GitStart(p) ==
    /\ At(p, {"git"}, "idle") /\ exists
    /\ StatusStep(p, "building", "build")

GitBuildFails(p) ==
    /\ At(p, {"git"}, "build")
    /\ StatusStep(p, "failed", "done")

GitBuilt(p) ==
    /\ At(p, {"git"}, "build")
    /\ StatusStep(p, "deploying", "reserve")

\* The target server is not connected, or the row cannot be inserted because
\* the application is gone.
GitNotReserved(p) ==
    /\ At(p, {"git"}, "reserve")
    /\ StatusStep(p, "failed", "done")

GitReserve(p) ==
    /\ At(p, {"git"}, "reserve") /\ exists
    /\ CreateDeploymentAtomicVersion(p, 0)
    /\ Goto(p, "create")
    /\ UNCHANGED <<exists, appStatus, cont, boot, crashes, tgt, todo, tries>>

GitFailRow(p) ==
    /\ At(p, {"git"}, "failRow")
    /\ UpdateDeployment(ver[p], "failed", 0)
    /\ Goto(p, "done")
    /\ UNCHANGED <<exists, appStatus, cont, boot, crashes, ver, tgt, todo, tries>>
----------------------------------------------------------------------------
(* image: TriggerDeploy of an image app *)

ImageStart(p) ==
    /\ At(p, {"image"}, "idle") /\ exists
    /\ StatusStep(p, "deploying", "reserve")

ImageReserve(p) ==
    /\ At(p, {"image"}, "reserve") /\ exists
    /\ CreateDeploymentAtomicVersion(p, 0)
    /\ Goto(p, "create")
    /\ UNCHANGED <<exists, appStatus, cont, boot, crashes, tgt, todo, tries>>

\* The container is recorded; dep.Status is still "deploying".
ImageRecord(p) ==
    /\ At(p, {"image"}, "record")
    /\ UpdateDeployment(ver[p], "deploying", ver[p])
    /\ Goto(p, "list")
    /\ UNCHANGED <<exists, appStatus, cont, boot, crashes, ver, tgt, todo, tries>>
----------------------------------------------------------------------------
(* rollback: RollbackEngine.Rollback *)

\* Find the target, whose image is remembered, and the current container.
RollbackStart(p) ==
    /\ At(p, {"rollback"}, "idle") /\ exists
    /\ \E v \in DOMAIN rows : ver' = [ver EXCEPT ![p] = rows[v].source]
    /\ tgt' = [tgt EXCEPT ![p] = LatestContainer]
    /\ Goto(p, "reserve")
    /\ UNCHANGED <<exists, appStatus, rows, cont, boot, crashes, todo, tries>>

RollbackReserve(p) ==
    /\ At(p, {"rollback"}, "reserve") /\ exists
    /\ CreateDeploymentAtomicVersion(p, ver[p])
    /\ Goto(p, "mark")
    /\ UNCHANGED <<exists, appStatus, cont, boot, crashes, tgt, todo, tries>>

RollbackMark(p) ==
    /\ At(p, {"rollback"}, "mark")
    /\ StatusStep(p, "deploying", "create")

\* CreateAndStart fails; what it may have created is removed again.
RollbackCreateFails(p) ==
    /\ At(p, {"rollback"}, "create")
    /\ UpdateDeployment(ver[p], "failed", 0)
    /\ Goto(p, "failApp")
    /\ UNCHANGED <<exists, appStatus, cont, boot, crashes, ver, tgt, todo, tries>>

RollbackHealthy(p) ==
    /\ At(p, {"rollback"}, "health")
    /\ cont[ver[p]] = "running"
    /\ Goto(p, "removeOld")
    /\ UNCHANGED <<exists, appStatus, rows, cont, boot, crashes, ver, tgt, todo, tries>>

\* Not running, or Stats kept failing: the new container is removed.
RollbackUnhealthy(p) ==
    /\ At(p, {"rollback"}, "health")
    /\ cont' = [cont EXCEPT ![ver[p]] = "gone"]
    /\ Goto(p, "unhealthy")
    /\ UNCHANGED <<exists, appStatus, rows, boot, crashes, ver, tgt, todo, tries>>

RollbackUnhealthyRow(p) ==
    /\ At(p, {"rollback"}, "unhealthy")
    /\ UpdateDeployment(ver[p], "failed", ver[p])
    /\ Goto(p, "setRunning")
    /\ UNCHANGED <<exists, appStatus, cont, boot, crashes, ver, tgt, todo, tries>>

RollbackRemoveOld(p) ==
    /\ At(p, {"rollback"}, "removeOld")
    /\ cont' = IF tgt[p] \in Present THEN [cont EXCEPT ![tgt[p]] = "gone"] ELSE cont
    /\ Goto(p, "finalize")
    /\ UNCHANGED <<exists, appStatus, rows, boot, crashes, ver, tgt, todo, tries>>
----------------------------------------------------------------------------
(* monitor: AutoRestarter.checkCrashed and handleCrash *)

MonitorTick(p) ==
    /\ At(p, {"monitor"}, "idle")
    /\ \E v \in Versions : cont[v] = "exited"
    /\ todo' = [todo EXCEPT ![p] = {v \in Versions : cont[v] = "exited"}]
    /\ Goto(p, "act")
    /\ UNCHANGED <<exists, appStatus, rows, cont, boot, crashes, ver, tgt, tries>>

MonitorCrash(p) ==
    /\ At(p, {"monitor"}, "act")
    /\ \/ /\ todo[p] = {}
          /\ Goto(p, "idle")
          /\ UNCHANGED <<appStatus, tgt, todo, tries>>
       \/ \E v \in todo[p] :
            /\ todo' = [todo EXCEPT ![p] = @ \ {v}]
            /\ tgt' = [tgt EXCEPT ![p] = v]
            /\ tries' = [tries EXCEPT ![p] = 0]
            /\ UpdateAppStatus("crashed")
            /\ Goto(p, "retry")
    /\ UNCHANGED <<exists, rows, cont, boot, crashes, ver>>

MonitorRestarted(p) ==
    /\ At(p, {"monitor"}, "retry")
    /\ tgt[p] \in Present
    /\ cont' = [cont EXCEPT ![tgt[p]] = "running"]
    /\ Goto(p, "setStatus")
    /\ UNCHANGED <<exists, appStatus, rows, boot, crashes, ver, tgt, todo, tries>>

MonitorRestartFails(p) ==
    /\ At(p, {"monitor"}, "retry")
    /\ tries' = [tries EXCEPT ![p] = @ + 1]
    /\ Goto(p, IF tries[p] + 1 = MaxRetries THEN "failApp" ELSE "retry")
    /\ UNCHANGED <<exists, appStatus, rows, cont, boot, crashes, ver, tgt, todo>>

MonitorRunning(p) ==
    /\ At(p, {"monitor"}, "setStatus")
    /\ StatusStep(p, "running", "act")

MonitorGivesUp(p) ==
    /\ At(p, {"monitor"}, "failApp")
    /\ StatusStep(p, "failed", "act")
----------------------------------------------------------------------------
(* The buttons: Stop and Start act on the first container of the listing,   *)
(* Suspend and Resume on all of them, Delete on the name "dm-<app>"         *)

Stopped(c) == IF c = "running" THEN "exited" ELSE c

ButtonLookup(p) ==
    /\ At(p, {"stop", "start"}, "idle") /\ exists
    /\ \/ \E v \in Present : tgt' = [tgt EXCEPT ![p] = v] /\ Goto(p, "act")
       \/ /\ Present = {}
          /\ Goto(p, IF Kind[p] = "stop" THEN "setStatus" ELSE "done")
          /\ UNCHANGED tgt
    /\ UNCHANGED <<exists, appStatus, rows, cont, boot, crashes, ver, todo, tries>>

ButtonAct(p) ==
    /\ At(p, {"stop", "start"}, "act")
    /\ \/ /\ tgt[p] \in Present
          /\ cont' = [cont EXCEPT ![tgt[p]] =
                        IF Kind[p] = "stop" THEN Stopped(@) ELSE "running"]
          /\ Goto(p, "setStatus")
       \/ tgt[p] \notin Present /\ Goto(p, "done") /\ UNCHANGED cont
    /\ UNCHANGED <<exists, appStatus, rows, boot, crashes, ver, tgt, todo, tries>>

SuspendList(p) ==
    /\ At(p, {"suspend", "resume"}, "idle") /\ exists
    /\ (appStatus = "suspended") <=> (Kind[p] = "resume")
    /\ todo' = [todo EXCEPT ![p] = Present]
    /\ Goto(p, "act")
    /\ UNCHANGED <<exists, appStatus, rows, cont, boot, crashes, ver, tgt, tries>>

SuspendAct(p) ==
    /\ At(p, {"suspend", "resume"}, "act")
    /\ \/ todo[p] = {} /\ Goto(p, "setStatus") /\ UNCHANGED <<cont, todo>>
       \/ \E v \in todo[p] \cap Present :
            /\ cont' = [cont EXCEPT ![v] =
                          IF Kind[p] = "suspend" THEN Stopped(@) ELSE "running"]
            /\ todo' = [todo EXCEPT ![p] = @ \ {v}]
            /\ UNCHANGED pc
       \/ \E v \in todo[p] \ Present : Goto(p, "done") /\ UNCHANGED <<cont, todo>>
    /\ UNCHANGED <<exists, appStatus, rows, boot, crashes, ver, tgt, tries>>

ButtonStatus(p) ==
    /\ At(p, {"stop", "start", "suspend", "resume"}, "setStatus")
    /\ StatusStep(p, CASE Kind[p] = "stop" -> "stopped" [] Kind[p] = "suspend" -> "suspended"
                       [] OTHER -> "running", "done")

\* No container is called "dm-<app>", so Stop and Remove fail and are ignored;
\* the deployment rows go with the application (ON DELETE CASCADE).
Delete(p) ==
    /\ At(p, {"delete"}, "idle") /\ exists
    /\ exists' = FALSE
    /\ rows' = <<>>
    /\ Goto(p, "done")
    /\ UNCHANGED <<appStatus, cont, boot, crashes, ver, tgt, todo, tries>>
----------------------------------------------------------------------------
(* The master crashes and starts: deploy.Module.Start *)

Crash ==
    /\ boot # "down" /\ crashes < MaxCrashes
    /\ boot' = "down"
    /\ crashes' = crashes + 1
    /\ pc' = [p \in Procs |-> IF pc[p] = "idle" \/ Kind[p] = "monitor" THEN "idle" ELSE "done"]
    /\ todo' = [p \in Procs |-> {}]
    /\ UNCHANGED <<exists, appStatus, rows, cont, ver, tgt, tries>>

BootBegin ==
    /\ boot = "down"
    /\ boot' = "reclaim"
    /\ UNCHANGED <<exists, appStatus, rows, cont, crashes, local>>

StaleMutant == {v \in {Len(rows)} \cap DOMAIN rows : rows[v].status = "deploying"}
                                 \* only the latest row of an app is looked at
Stale == {v \in DOMAIN rows : rows[v].status = "deploying"}

\* reclaimStaleDeployments, newest row first: the row ...
ReclaimRow ==
    /\ boot = "reclaim"
    /\ \E v \in Stale :
         /\ \A w \in Stale : w <= v
         /\ rows' = [rows EXCEPT ![v].status = "failed"]
    /\ boot' = "reclaimApp"
    /\ UNCHANGED <<exists, appStatus, cont, crashes, local>>

\* ... then the application.
ReclaimApp ==
    /\ boot = "reclaimApp"
    /\ UpdateAppStatus("failed")
    /\ boot' = "reclaim"
    /\ UNCHANGED <<exists, rows, cont, crashes, local>>

\* cleanOrphanContainers looks for a label; app containers carry these.
Labels == {"monster.enable", "monster.app.id", "monster.app.name", "monster.project",
           "monster.tenant", "monster.deploy.version"}
Orphans == {v \in Present : "monster.managed" \in Labels /\ ~exists}

BootDone ==
    /\ boot = "reclaim" /\ Stale = {}
    /\ cont' = [v \in Versions |-> IF v \in Orphans THEN "gone" ELSE cont[v]]
    /\ boot' = "up"
    /\ UNCHANGED <<exists, appStatus, rows, crashes, local>>

DeployStep(p) ==
    \/ GitStart(p) \/ GitBuildFails(p) \/ GitBuilt(p) \/ GitNotReserved(p) \/ GitReserve(p)
    \/ GitFailRow(p) \/ ImageStart(p) \/ ImageReserve(p) \/ ImageRecord(p)
    \/ RollbackStart(p) \/ RollbackReserve(p) \/ RollbackMark(p) \/ RollbackCreateFails(p)
    \/ RollbackHealthy(p) \/ RollbackUnhealthy(p)
    \/ RollbackUnhealthyRow(p) \/ RollbackRemoveOld(p)
    \/ ReserveFails(p) \/ CreateAndStart(p) \/ CreateFails(p) \/ FailApp(p) \/ ListPrevious(p) \/ RemovePrevious(p) \/ FinalizeRow(p)
    \/ SetRunning(p)

OtherStep(p) ==
    \/ MonitorTick(p) \/ MonitorCrash(p) \/ MonitorRestarted(p) \/ MonitorRestartFails(p)
    \/ MonitorRunning(p) \/ MonitorGivesUp(p)
    \/ ButtonLookup(p) \/ ButtonAct(p) \/ SuspendList(p) \/ SuspendAct(p) \/ ButtonStatus(p)
    \/ Delete(p)

Next ==
    \/ \E p \in Procs : DeployStep(p) \/ OtherStep(p)
    \/ \E v \in Versions : ContainerDies(v)
    \/ Crash \/ BootBegin \/ ReclaimRow \/ ReclaimApp \/ BootDone

Spec == Init /\ [][Next]_vars
----------------------------------------------------------------------------
(* Properties *)

InFlight(p) == pc[p] \notin {"idle", "done"}
Steps(p, kinds) ==
    Kind[p] \in kinds /\ boot' = "up" /\ (pc'[p] # pc[p] \/ todo'[p] # todo[p])

\* While the master is up, a deployment row that says "deploying" has an
\* operation that reserved it and still works on it: failReservedDeployment,
\* the finalization and the reclaim sweep leave no phantom record.
InFlightRowOwned ==
    boot = "up" =>
        \A v \in DOMAIN rows : rows[v].status = "deploying" =>
            \E p \in Procs : ver[p] = v /\ InFlight(p) /\ pc[p] # "reserve"

\* The name dm-<app>-<version> an operation is about to create was never used:
\* CreateDeploymentAtomicVersion gives no version twice, whatever interleaves
\* and whenever the master crashes.
NameFree ==
    \A p \in Procs : pc[p] = "create" =>
        /\ cont[ver[p]] = "none"
        /\ \A q \in Procs \ {p} : InFlight(q) /\ pc[q] # "reserve" => ver[q] # ver[p]


=============================================================================
