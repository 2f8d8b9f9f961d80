---------------------------- MODULE AutoRollback ---------------------------
(***************************************************************************)
(* The manager that rolls a failed deployment back                         *)
(* (src/internal/deploy/autorollback.go).  Its handler of deploy.failed    *)
(* looks at closed, registers with wg under mu, looks at closed and at the *)
(* cooldown of the application under mu, then searches the deployments of  *)
(* the application and calls RollbackEngine.Rollback.  ar.deps are the     *)
(* statuses of the deployment rows of one application, oldest first;       *)
(* ar.cooling says that lastAttempt is younger than the cooldown, ar.tries *)
(* counts the attempts since it last was not.                              *)
(***************************************************************************)
EXTENDS Integers, Sequences, FiniteSetsExt

CONSTANTS Events,       \* deploy.failed events, delivered on goroutines of the bus
          MaxDeploys,
          Stoppers

VARIABLE ar

Init == ar = [closed |-> FALSE, wg |-> 0, deps |-> <<>>, cooling |-> FALSE,
              handler |-> [e \in Events |-> "new"], target |-> [e \in Events |-> 0],
              tries |-> 0, stop |-> [s \in Stoppers |-> "new"]]

(* A deployment ends, well or badly; a bad one publishes deploy.failed.    *)
Deployed(ok) ==
    /\ Len(ar.deps) < MaxDeploys
    /\ \/ ok /\ ar' = [ar EXCEPT !.deps = Append(@, "running")]
       \/ /\ ~ok
          /\ \E e \in Events :
               /\ ar.handler[e] = "new"
               /\ ar' = [ar EXCEPT !.deps = Append(@, "failed"), !.handler[e] = "published"]

(* The subscriber: isClosed, then the second check with wg.Add.            *)
Handle(e) ==
    \/ /\ ar.handler[e] = "published"
       /\ ar' = [ar EXCEPT !.handler[e] = IF ar.closed THEN "done" ELSE "checked"]
    \/ /\ ar.handler[e] = "checked"
       /\ ar' = IF ar.closed THEN [ar EXCEPT !.handler[e] = "done"]
                ELSE [ar EXCEPT !.handler[e] = "inside", !.wg = @ + 1]

handleFailureMutant(e) ==  \* the attempt is not noted
    /\ ar.handler[e] = "inside"
    /\ ar' = IF ar.closed \/ ar.cooling THEN [ar EXCEPT !.handler[e] = "leave"]
             ELSE [ar EXCEPT !.handler[e] = "search", !.tries = @ + 1]

handleFailure(e) ==
    /\ ar.handler[e] = "inside"
    /\ ar' = IF ar.closed \/ ar.cooling THEN [ar EXCEPT !.handler[e] = "leave"]
             ELSE [ar EXCEPT !.handler[e] = "search", !.cooling = TRUE, !.tries = @ + 1]

CooldownOver ==
    /\ ar.cooling
    /\ ar' = [ar EXCEPT !.cooling = FALSE, !.tries = 0]

(* The newest row that is running, the newest row of all left out.         *)
findLastStable(e) ==
    /\ ar.handler[e] = "search"
    /\ LET ok == {v \in 1 .. Len(ar.deps) - 1 : ar.deps[v] = "running"} IN
       ar' = IF ok = {} THEN [ar EXCEPT !.handler[e] = "leave"]
             ELSE [ar EXCEPT !.handler[e] = "rollback", !.target[e] = Max(ok)]

(* The engine is asked; it adds a row when it succeeds.                    *)
Rollback(e) ==
    /\ ar.handler[e] = "rollback"
    /\ \E ok \in BOOLEAN :
         ar' = [ar EXCEPT !.handler[e] = "leave",
                          !.deps = IF ok THEN Append(@, "running") ELSE @]

Done(e) ==
    /\ ar.handler[e] = "leave"
    /\ ar' = [ar EXCEPT !.handler[e] = "done", !.wg = @ - 1]

Stop(s) ==
    \/ /\ ar.stop[s] = "new"
       /\ ar' = [ar EXCEPT !.closed = TRUE, !.stop[s] = "waiting"]
    \/ /\ ar.stop[s] = "waiting" /\ ar.wg = 0
       /\ ar' = [ar EXCEPT !.stop[s] = "returned"]

Worker(e) == Handle(e) \/ handleFailure(e) \/ findLastStable(e) \/ Rollback(e) \/ Done(e)

Next ==
    \/ \E ok \in BOOLEAN : Deployed(ok)
    \/ \E e \in Events : Worker(e)
    \/ \E s \in Stoppers : Stop(s)
    \/ CooldownOver

Spec == Init /\ [][Next]_ar

(* The goroutines that Stop or Shutdown waits for; once it has returned    *)
(* without giving up at its deadline, none is at work.                     *)
Inside == {e \in Events : ar.handler[e] \in {"inside", "search", "rollback", "leave"}}
Drained == (\E s \in Stoppers : ar.stop[s] = "returned") => Inside = {}

(* One attempt per cooldown, and always at a version that ran.             *)
Spaced ==
    /\ ar.tries <= 1
    /\ \A e \in Events : ar.handler[e] = "rollback" => ar.deps[ar.target[e]] = "running"
============================================================================
