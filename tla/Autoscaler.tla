----------------------------- MODULE Autoscaler ----------------------------
(***************************************************************************)
(* The autoscaler: src/internal/autoscale/module.go.  A tick reads the     *)
(* settings and the row of an application, samples its containers, looks   *)
(* at the last decision, and writes the row and its own decision back.     *)
(* Meanwhile users change the settings and the row.  x.app is the row,     *)
(* x.last the persisted decision with its age in ticks; x.since the age of *)
(* the last change of replicas the autoscaler made (a history variable).   *)
(***************************************************************************)
EXTENDS Integers

CONSTANTS Loads,        \* utilisation in percent
          Target,       \* CPUTarget and RAMTarget
          Bounds,       \* the <<MinReplicas, MaxReplicas>> users choose from
          Delay,        \* ScaleUpDelay and ScaleDownDelay, in ticks
          MaxAge        \* ages are counted up to this

VARIABLE x

Init == x = [app |-> [replicas |-> 1, status |-> "running"],
             cfg |-> [enabled |-> TRUE, bounds |-> CHOOSE p \in Bounds : TRUE],
             last |-> [action |-> "none", age |-> MaxAge], since |-> MaxAge,
             at |-> "select", seen |-> <<>>, loop |-> "running", lost |-> FALSE]

Older(n) == IF n < MaxAge THEN n + 1 ELSE n

(* A tick: the settings and the row are read.                              *)
evaluateAll ==
    /\ x.loop = "running" /\ x.at = "select"
    /\ x' = [x EXCEPT !.last.age = Older(@), !.since = Older(@),
                      !.at = IF x.cfg.enabled THEN "evaluate" ELSE "select",
                      !.seen = IF x.cfg.enabled THEN <<x.app, x.cfg.bounds>> ELSE <<>>]

persist(action) == [x EXCEPT !.last = [action |-> action, age |-> 0], !.at = "select", !.seen = <<>>]

(* No runtime, no row, no container or no sample.                          *)
Skip ==
    /\ x.at = "evaluate"
    /\ x' = persist("skip")

Cooling == x.last.action \in {"scale_up", "scale_down"} /\ x.last.age < Delay

DesiredMutant(cpu, mem, app, bounds) ==  \* the bounds are read as exclusive on one side only
    IF (cpu >= Target \/ mem >= Target) /\ app.replicas <= bounds[2] THEN app.replicas + 1
    ELSE IF cpu * 10 < Target * 7 /\ mem * 10 < Target * 7 /\ app.replicas > bounds[1]
    THEN app.replicas - 1 ELSE app.replicas

(* Up at the target, down below 0.7 of it, by one, within the bounds.      *)
Desired(cpu, mem, app, bounds) ==
    IF (cpu >= Target \/ mem >= Target) /\ app.replicas < bounds[2] THEN app.replicas + 1
    ELSE IF cpu * 10 < Target * 7 /\ mem * 10 < Target * 7 /\ app.replicas > bounds[1]
    THEN app.replicas - 1 ELSE app.replicas

(* UpdateApp writes the whole row that was read.                           *)
evaluate(cpu, mem) ==
    /\ x.at = "evaluate"
    /\ LET app == x.seen[1]  d == Desired(cpu, mem, app, x.seen[2])
           wrote == [persist(IF d > app.replicas THEN "scale_up" ELSE "scale_down")
                        EXCEPT !.app = [app EXCEPT !.replicas = d], !.since = 0,
                               !.lost = x.app # app]
       IN  IF Cooling THEN x' = persist("cooldown")
           ELSE IF d = app.replicas THEN x' = persist("hold")
           ELSE x' = persist("skip") \/ x' = wrote

SetConfig(on, p) ==
    /\ x.cfg # [enabled |-> on, bounds |-> p]
    /\ x' = [x EXCEPT !.cfg = [enabled |-> on, bounds |-> p]]

(* A user scales the application or stops it.                              *)
EditApp(r, st) ==
    /\ x.app # [replicas |-> r, status |-> st]
    /\ x' = [x EXCEPT !.app = [replicas |-> r, status |-> st]]

StopLoop == x.loop = "running" /\ x' = [x EXCEPT !.loop = "stopping"]

(* Stop waits for the evaluation in progress.                              *)
Stopped == x.loop = "stopping" /\ x.at = "select" /\ x' = [x EXCEPT !.loop = "off"]

StartLoop == x.loop = "off" /\ x' = [x EXCEPT !.loop = "running"]

Replicas == UNION {{p[1], p[2]} : p \in Bounds}

Next ==
    \/ evaluateAll \/ Skip \/ StopLoop \/ Stopped \/ StartLoop
    \/ \E cpu, mem \in Loads : evaluate(cpu, mem)
    \/ \E on \in BOOLEAN, p \in Bounds : SetConfig(on, p)
    \/ \E r \in Replicas, st \in {"running", "stopped"} : EditApp(r, st)

Spec == Init /\ [][Next]_x

(* A decision moves the replicas by one at most, and never away from the   *)
(* bounds that were read: past the maximum going up, past the minimum      *)
(* going down.                                                             *)
Bounded ==
    x.at = "evaluate" => \A cpu, mem \in Loads :
       LET old == x.seen[1].replicas  b == x.seen[2]  new == Desired(cpu, mem, x.seen[1], b) IN
       \/ new = old
       \/ new = old + 1 /\ new <= b[2]
       \/ new = old - 1 /\ new >= b[1]

(* Two changes of the autoscaler are at least the delay apart.             *)
CoolsDown == x.at = "evaluate" /\ x'.since = 0 => x.since >= Delay
============================================================================
