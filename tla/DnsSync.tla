------------------------------ MODULE DnsSync ------------------------------
(***************************************************************************)
(* The queue that creates DNS records for new domains:                     *)
(* src/internal/dns/sync.go, started and stopped by dns/module.go.         *)
(*                                                                         *)
(* One worker takes jobs from a bounded channel and calls the provider; a  *)
(* failed job waits out its backoff in the worker and goes to the tail, a  *)
(* synced one gets a verification goroutine.  Enqueue looks at closed      *)
(* under mu but sends after the unlock.  q.end is how each job ended:      *)
(* "" (not yet), "synced", "abandoned", "dropped", "noprovider".           *)
(***************************************************************************)
EXTENDS Integers, Sequences, FiniteSets, FiniteSetsExt

CONSTANTS Jobs,            \* records somebody wants, one Enqueue each
          QueueCap,        \* the capacity of the channel (100)
          syncMaxRetries,
          Stoppers         \* callers of Stop

VARIABLE q

Init == q = [closed |-> FALSE, started |-> FALSE, wg |-> 0, jobs |-> <<>>,
             loop |-> "off", job |-> <<>>, Retries |-> [j \in Jobs |-> 0],
             caller |-> [j \in Jobs |-> "new"], end |-> [j \in Jobs |-> ""],
             verify |-> {}, stop |-> [s \in Stoppers |-> "new"]]

(* The select of Enqueue: send if there is room, drop otherwise.           *)
Send(r, j) ==
    IF Len(r.jobs) < QueueCap THEN [r EXCEPT !.jobs = Append(@, j)]
    ELSE [r EXCEPT !.end[j] = "dropped"]

Enqueue(j) ==
    \/ /\ q.caller[j] = "new"
       /\ q' = IF q.closed THEN [q EXCEPT !.caller[j] = "done", !.end[j] = "dropped"]
               ELSE [q EXCEPT !.caller[j] = "sending"]
    \/ /\ q.caller[j] = "sending"
       /\ q' = Send([q EXCEPT !.caller[j] = "done"], j)

Start ==
    /\ ~q.closed /\ ~q.started
    /\ q' = [q EXCEPT !.started = TRUE, !.wg = @ + 1, !.loop = "select"]

(* A Stop that finds the queue closed by another waits as well.            *)
Stop(s) ==
    \/ /\ q.stop[s] = "new"
       /\ q' = [q EXCEPT !.closed = TRUE,
                         !.stop[s] = IF q.closed \/ q.started THEN "waiting" ELSE "returned"]
    \/ /\ q.stop[s] = "waiting" /\ q.wg = 0
       /\ q' = [q EXCEPT !.stop[s] = "returned"]

(* select picks any ready case.                                            *)
loop ==
    /\ q.loop = "select"
    /\ \/ /\ q.jobs # <<>>
          /\ q' = [q EXCEPT !.job = <<Head(q.jobs)>>, !.jobs = Tail(@), !.loop = "process"]
       \/ /\ q.closed
          /\ q' = [q EXCEPT !.loop = "ended", !.wg = @ - 1]

Failed(j) == q.Retries[j] + 1

processMutant ==  \* retried for as long as it fails
    /\ q.loop = "process"
    /\ LET j == q.job[1]  done == [q EXCEPT !.job = <<>>, !.loop = "select"] IN
       \/ q' = [done EXCEPT !.end[j] = "noprovider"]
       \/ q' = [done EXCEPT !.end[j] = "synced", !.wg = @ + 1, !.verify = @ \cup {j}]
       \/ q' = [q EXCEPT !.loop = "backoff"]

(* The provider is missing, answers, or fails.                             *)
process ==
    /\ q.loop = "process"
    /\ LET j == q.job[1]  done == [q EXCEPT !.job = <<>>, !.loop = "select"] IN
       \/ q' = [done EXCEPT !.end[j] = "noprovider"]
       \/ q' = [done EXCEPT !.end[j] = "synced", !.wg = @ + 1, !.verify = @ \cup {j}]
       \/ q' = IF Failed(j) >= syncMaxRetries
               THEN [done EXCEPT !.end[j] = "abandoned", !.Retries[j] = Failed(j)]
               ELSE [q EXCEPT !.loop = "backoff", !.Retries[j] = Failed(j)]

(* The backoff passes and the job is enqueued anew, or stopCh closes and   *)
(* the worker returns to its select.                                       *)
backoff ==
    /\ q.loop = "backoff"
    /\ LET j == q.job[1]  done == [q EXCEPT !.job = <<>>, !.loop = "select"] IN
       \/ q' = IF q.closed THEN [done EXCEPT !.end[j] = "dropped"] ELSE Send(done, j)
       \/ q.closed /\ q' = [done EXCEPT !.end[j] = "dropped"]

verify(j) ==
    /\ j \in q.verify
    /\ q' = [q EXCEPT !.verify = @ \ {j}, !.wg = @ - 1]

Worker == loop \/ process \/ backoff

Next ==
    \/ \E j \in Jobs : Enqueue(j) \/ verify(j)
    \/ \E s \in Stoppers : Stop(s)
    \/ Start \/ Worker

Spec == Init /\ [][Next]_q

(* The goroutines that Stop or Shutdown waits for; once it has returned    *)
(* without giving up at its deadline, none is at work.                     *)
Inside == q.verify \cup IF q.loop \in {"off", "ended"} THEN {} ELSE {"loop"}
Drained == (\E s \in Stoppers : q.stop[s] = "returned") => Inside = {}


(* A job that was enqueued on a running queue ends in one of four ways, or *)
(* with the queue.                                                         *)
Taken(j) == q.started /\ q.caller[j] # "new"
Settled(j) == q.end[j] # "" \/ q.closed
============================================================================
