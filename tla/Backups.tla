------------------------------ MODULE Backups ------------------------------
(***************************************************************************)
(* Scheduled backups: src/internal/backup/scheduler.go and module.go.  The *)
(* loop runs once a day, TriggerNow on a goroutine nobody waits for; both  *)
(* walk the applications of a tenant, write a row, upload the archive of a *)
(* full backup, complete the row, and sweep the storage.  A backup of an   *)
(* unchanged application is incremental: no archive, the path of the last. *)
(*                                                                         *)
(* s.cfg is the configuration of each application, standing for its hash;  *)
(* s.rows the backups table, oldest first; s.objs the storage, by path;    *)
(* s.wrong tells that restoring a full backup gave something else (a       *)
(* history variable).                                                      *)
(***************************************************************************)
EXTENDS Integers, Sequences, FiniteSets, Functions, SequencesExt

CONSTANTS NApps, Versions, RetentionDays, MaxDay, MaxRows,
          Triggers,   \* TriggerNow is called
          Stops,      \* StopCtx is called
          MaxEdits    \* of an application by its owner, restores included

VARIABLE s

Apps == 1 .. NApps
Runs == {"loop", "now"}
Idle == [at |-> "idle", cfg |-> <<>>, app |-> 0, row |-> 0, type |-> "", path |-> 0]

Init == s = [day |-> 0, cfg |-> [a \in Apps |-> CHOOSE v \in Versions : TRUE], rows |-> <<>>,
             objs |-> <<>>, stopped |-> FALSE, wg |-> 1, lastRunDate |-> -1,
             run |-> [r \in Runs |-> Idle], stop |-> "no", edits |-> 0, wrong |-> FALSE]

At(r, p) == s.run[r].at = p

(* The daily run, and the one the API asks for.                            *)
loop ==
    /\ At("loop", "idle") /\ ~s.stopped /\ s.lastRunDate # s.day
    /\ s' = [s EXCEPT !.lastRunDate = s.day, !.run["loop"].at = "start"]

LoopEnds ==
    /\ At("loop", "idle") /\ s.stopped
    /\ s' = [s EXCEPT !.run["loop"].at = "ended", !.wg = @ - 1]

TriggerNow ==
    /\ Triggers /\ At("now", "idle")
    /\ s' = [s EXCEPT !.run["now"].at = "start"]

Ended(r) == [Idle EXCEPT !.at = IF r = "loop" THEN "idle" ELSE "ended"]

(* A cancelled run ends at the next look at the context; the applications  *)
(* are read a page at a time.  The run ends early, too, without a storage  *)
(* or when a query fails.                                                  *)
runBackupsCtx(r) ==
    /\ At(r, "start")
    /\ \/ s' = [s EXCEPT !.run[r] = Ended(r)]
       \/ ~s.stopped /\ s' = [s EXCEPT !.run[r].at = "apps", !.run[r].cfg = s.cfg, !.run[r].app = 1]

(* One row, the newest of the tenant, is looked at; it counts if it is of  *)
(* this application and complete.                                          *)
findLastBackupForApp(a) ==
    IF s.rows = <<>> THEN <<>>
    ELSE LET b == Last(s.rows) IN
         IF b.app = a /\ b.status = "completed" THEN <<b>> ELSE <<>>

backupApp(r) ==
    LET a == s.run[r].app  last == findLastBackupForApp(a) IN
    /\ At(r, "apps") /\ a \in Apps
    /\ \/ s.stopped /\ s' = [s EXCEPT !.run[r].at = "cleanup"]
       \/ /\ ~s.stopped /\ Len(s.rows) < MaxRows
          /\ s' = IF last # <<>> /\ last[1].hash = s.run[r].cfg[a]
                  THEN [s EXCEPT !.run[r].at = "create", !.run[r].type = "incremental",
                                 !.run[r].path = last[1].path]
                  ELSE [s EXCEPT !.run[r].at = "create", !.run[r].type = "full",
                                 !.run[r].path = 0]

NextApp(x, r) == [x EXCEPT !.run[r].at = "apps", !.run[r].app = @ + 1]

(* A full backup has a path of its own: its number.                        *)
CreateBackup(r) ==
    LET n == Len(s.rows) + 1  p == s.run[r] IN
    /\ At(r, "create")
    /\ \/ s' = NextApp(s, r)
       \/ n <= MaxRows
          /\ s' = [s EXCEPT !.rows = Append(@, [app |-> p.app, type |-> p.type, status |-> "pending",
                                                hash |-> p.cfg[p.app], day |-> s.day,
                                                path |-> IF p.type = "full" THEN n ELSE p.path]),
                            !.run[r].row = n,
                            !.run[r].at = IF p.type = "full" THEN "upload" ELSE "complete"]

(* A failed upload marks the row failed.                                   *)
Upload(r) ==
    LET n == s.run[r].row IN
    /\ At(r, "upload")
    /\ \/ s' = NextApp([s EXCEPT !.rows[n].status = "failed"], r)
       \/ s' = [s EXCEPT !.run[r].at = "complete",
                         !.objs = (n :> [hash |-> s.rows[n].hash, day |-> s.day]) @@ @]

(* A status that cannot be written is only logged.                         *)
UpdateBackupStatus(r) ==
    /\ At(r, "complete")
    /\ \E ok \in BOOLEAN :
         s' = NextApp(IF ok THEN [s EXCEPT !.rows[s.run[r].row].status = "completed"] ELSE s, r)


(* Nothing is deleted when the storage cannot be listed.                   *)
CleanupOldBackups(r) ==
    /\ At(r, "cleanup") \/ (At(r, "apps") /\ s.run[r].app \notin Apps)
    /\ \/ s' = [s EXCEPT !.run[r] = Ended(r)]
       \/ s' = [s EXCEPT !.run[r] = Ended(r),
                         !.objs = Restrict(@, {p \in DOMAIN @ : s.day - @[p].day <= RetentionDays})]

StopCtx ==
    \/ /\ Stops /\ s.stop = "no"
       /\ s' = [s EXCEPT !.stopped = TRUE, !.stop = "waiting"]
    \/ /\ s.stop = "waiting"
       /\ \/ s.wg = 0 /\ s' = [s EXCEPT !.stop = "drained"]
          \/ s' = [s EXCEPT !.stop = "deadline"]

(* The archive an incremental row is restored from: the list is newest     *)
(* first and the loop keeps the last match.                                *)
Target(n) ==
    IF s.rows[n].type = "full" THEN n
    ELSE LET fulls == {k \in 1 .. n - 1 : s.rows[k].app = s.rows[n].app /\ s.rows[k].type = "full"}
         IN  IF fulls = {} THEN 0 ELSE CHOOSE k \in fulls : \A l \in fulls : k <= l

RestoreBackup(n) ==
    LET t == Target(n) IN
    /\ s.rows[n].status = "completed" /\ s.edits < MaxEdits
    /\ t # 0 /\ s.rows[t].path \in DOMAIN s.objs
    /\ s' = [s EXCEPT !.edits = @ + 1, !.cfg[s.rows[n].app] = s.objs[s.rows[t].path].hash,
                      !.wrong = @ \/ (t = n /\ s.objs[n].hash # s.rows[n].hash)]

EditApp(a, v) ==
    /\ s.cfg[a] # v /\ s.edits < MaxEdits
    /\ s' = [s EXCEPT !.cfg[a] = v, !.edits = @ + 1]

NextDay == s.day < MaxDay /\ s' = [s EXCEPT !.day = @ + 1]

Run(r) == \/ runBackupsCtx(r) \/ backupApp(r) \/ CreateBackup(r) \/ Upload(r)
          \/ UpdateBackupStatus(r) \/ CleanupOldBackups(r)

Next ==
    \/ loop \/ LoopEnds \/ TriggerNow \/ StopCtx \/ NextDay
    \/ \E r \in Runs : Run(r)
    \/ \E n \in 1 .. Len(s.rows) : RestoreBackup(n)
    \/ \E a \in Apps, v \in Versions : EditApp(a, v)

Spec == Init /\ [][Next]_s

(* The goroutines that Stop or Shutdown waits for; once it has returned    *)
(* without giving up at its deadline, none is at work.                     *)
Inside == IF At("loop", "ended") THEN {} ELSE {"loop"}
Drained == s.stop = "drained" => Inside = {}

============================================================================
