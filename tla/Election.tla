------------------------------ MODULE Election -----------------------------
(***************************************************************************)
(* Election of the swarm master: PostgresLeaderElector of                  *)
(* src/internal/db/postgres.go under startWithElection, leaderRenewLoop    *)
(* and Stop of src/internal/swarm/module.go.  The lease is a row with an   *)
(* instance and an expiry, renewed at half the lease; time is counted in   *)
(* renewal intervals.  The winner also takes an advisory lock, which stays *)
(* with the pooled session of its transaction until the pool closes it.    *)
(*                                                                         *)
(* Timing assumed: a process renews within an interval (it is not stopped  *)
(* for longer), and the pool keeps the session that took the lock for one  *)
(* interval (it closes sessions after 2 to 5 minutes).                     *)
(***************************************************************************)
EXTENDS Integers, FiniteSets

CONSTANTS Nodes, Lease,   \* leaderLeaseDuration in renewal intervals
          MaxTime

VARIABLE e

None == "none"

Init == e = [now |-> 0, holder |-> None, expires |-> 0,   \* the row
             tx |-> None, claim |-> 0,                     \* the open election transaction
             lock |-> None, fresh |-> FALSE,               \* the session with the lock
             node |-> [n \in Nodes |-> "off"], isLeader |-> [n \in Nodes |-> FALSE],
             due |-> [n \in Nodes |-> FALSE]]

Valid == e.holder # None /\ e.expires > e.now

(* Expired rows are deleted, the claim is inserted unless a row is there,  *)
(* and the holder is read back; an instance that finds itself goes on with *)
(* the expiry it finds.  Another open claim makes the insert wait.  An     *)
(* error leaves the instance passive, like a lost election.                *)
Elect(n) ==
    /\ e.node[n] = "off"
    /\ \/ e' = [e EXCEPT !.node[n] = "passive"]
       \/ /\ e.tx = None /\ (~Valid \/ e.holder = n)
          /\ e' = [e EXCEPT !.node[n] = "locking", !.tx = n,
                            !.claim = IF Valid THEN e.expires ELSE e.now + Lease]

LockMutant(n) ==  \* no advisory lock
    /\ e.node[n] = "locking"
    /\ e' = [e EXCEPT !.node[n] = "leading", !.isLeader[n] = TRUE, !.tx = None,
                      !.holder = n, !.expires = e.claim]

(* pg_advisory_lock waits for the session that has it; then the commit.    *)
Lock(n) ==
    /\ e.node[n] = "locking"
    /\ \/ e' = [e EXCEPT !.node[n] = "passive", !.tx = None]
       \/ /\ e.lock = None
          /\ e' = [e EXCEPT !.node[n] = "leading", !.isLeader[n] = TRUE, !.tx = None,
                            !.holder = n, !.expires = e.claim, !.lock = n, !.fresh = TRUE]

(* The pool closes the session, or the process ended: the lock is free.    *)
SessionClosed ==
    /\ e.lock # None
    /\ e.node[e.lock] = "off" \/ (~e.fresh /\ ~e.due[e.lock])
    /\ e' = [e EXCEPT !.lock = None]

Lost(n) == [e EXCEPT !.node[n] = "passive", !.isLeader[n] = FALSE, !.due[n] = FALSE]

(* A renewal that fails gives the leadership up.                           *)
RenewCheck(n) ==
    /\ e.node[n] = "leading" /\ e.due[n]
    /\ \/ e' = Lost(n)
       \/ Valid /\ e.holder = n /\ e' = [e EXCEPT !.node[n] = "renewing"]

(* UPDATE ... WHERE instance_id = ...; nobody looks at the rows affected.  *)
RenewWrite(n) ==
    /\ e.node[n] = "renewing"
    /\ \/ e' = Lost(n)
       \/ e' = [e EXCEPT !.node[n] = "leading", !.due[n] = FALSE,
                         !.expires = IF e.holder = n THEN e.now + Lease ELSE @]

(* Stop resigns when it believes to lead.                                  *)
Resign(n) ==
    /\ e.node[n] \in {"leading", "renewing", "passive"}
    /\ e' = [e EXCEPT !.node[n] = "off", !.isLeader[n] = FALSE, !.due[n] = FALSE,
                      !.holder = IF e.isLeader[n] /\ @ = n THEN None ELSE @]

(* The process dies; its row stays.                                        *)
Crash(n) ==
    /\ e.node[n] # "off"
    /\ e' = [e EXCEPT !.node[n] = "off", !.isLeader[n] = FALSE, !.due[n] = FALSE,
                      !.tx = IF @ = n THEN None ELSE @]

Tick ==
    /\ e.now < MaxTime
    /\ \A n \in Nodes : ~e.due[n]
    /\ e' = [e EXCEPT !.now = @ + 1, !.fresh = FALSE,
                      !.due = [n \in Nodes |-> e.node[n] \in {"leading", "renewing"}]]

Next == Tick \/ SessionClosed
        \/ \E n \in Nodes : \/ Elect(n) \/ Lock(n) \/ RenewCheck(n) \/ RenewWrite(n)
                            \/ Resign(n) \/ Crash(n)

Spec == Init /\ [][Next]_e

(* No two instances act as the master at once.                             *)
AtMostOne == Cardinality({n \in Nodes : e.isLeader[n]}) <= 1
============================================================================
