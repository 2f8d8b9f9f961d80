------------------------------- MODULE Proxy -------------------------------
(***************************************************************************)
(* The request pipeline of the ingress (ReverseProxy.ServeHTTP in          *)
(* ingress/proxy.go) with the circuit breaker, the connection tracker and  *)
(* the drain manager it uses (deploy/graceful).  A route has one backend   *)
(* (see Routing), so the load balancer has nothing to choose.              *)
(*                                                                         *)
(* Every breaker, tracker and drain call takes a lock of its own: a        *)
(* request's calls interleave with those of other requests.  Time is one   *)
(* bit: whether the breaker's Timeout has passed since the last failure.   *)
(***************************************************************************)
EXTENDS Naturals, FiniteSets

CONSTANTS Backends,
          Reqs,              \* requests in flight at a time
          FailureThreshold, SuccessThreshold,
          Operated           \* somebody calls IsAvailable, Reset and DrainBackend;
                             \* in the repository only tests do

VARIABLES up,        \* how each backend answers: "ok", "error" (>= 500), "dead"
          state, failureCount, successCount,   \* CircuitBreaker, per backend
          waited,    \* time.Since(lastFailTime) > Timeout
          conns,     \* ConnectionTracker.conns
          draining,  \* DrainManager: the backends WaitForDrain is waiting for
          req,       \* per request: where it is and its backend
          failed     \* history: requests that failed since the last success

breaker == <<state, failureCount, successCount, waited, failed>>
vars == <<up, breaker, conns, draining, req>>

\* Where a request is: not there, past the filter, counted, a failure
\* recorded and the reply not written, replied.
Places == {"idle", "admitted", "proxying", "erring", "leaving"}
On(b, where) == {r \in Reqs : req[r].pc \in where /\ req[r].backend = b}

TypeOK ==
    /\ up \in [Backends -> {"ok", "error", "dead"}]
    /\ state \in [Backends -> {"closed", "open", "half-open"}]
    /\ failureCount \in [Backends -> 0..FailureThreshold]
    /\ successCount \in [Backends -> 0..(SuccessThreshold - 1)]
    /\ waited \in [Backends -> BOOLEAN]
    /\ conns \in [Backends -> 0..Cardinality(Reqs)]
    /\ draining \subseteq Backends
    /\ req \in [Reqs -> [pc : Places, backend : Backends]]
    /\ failed \in [Backends -> 0..FailureThreshold]

Init ==
    /\ up = [b \in Backends |-> "ok"]
    /\ state = [b \in Backends |-> "closed"]
    /\ failureCount = [b \in Backends |-> 0]
    /\ successCount = [b \in Backends |-> 0]
    /\ waited = [b \in Backends |-> FALSE]
    /\ conns = [b \in Backends |-> 0]
    /\ draining = {}
    /\ req \in [Reqs -> [pc : {"idle"}, backend : Backends]]
    /\ failed = [b \in Backends |-> 0]
----------------------------------------------------------------------------
(* CircuitBreaker *)

RecordSuccess(b) ==
    /\ CASE state[b] = "closed" ->
              /\ failureCount' = [failureCount EXCEPT ![b] = 0]
              /\ UNCHANGED <<state, successCount>>
         [] state[b] = "half-open" /\ successCount[b] + 1 >= SuccessThreshold ->
              /\ state' = [state EXCEPT ![b] = "closed"]
              /\ failureCount' = [failureCount EXCEPT ![b] = 0]
              /\ successCount' = [successCount EXCEPT ![b] = 0]
         [] state[b] = "half-open" /\ successCount[b] + 1 < SuccessThreshold ->
              /\ successCount' = [successCount EXCEPT ![b] = @ + 1]
              /\ UNCHANGED <<state, failureCount>>
         [] OTHER -> UNCHANGED <<state, failureCount, successCount>>
    /\ failed' = [failed EXCEPT ![b] = 0]
    /\ UNCHANGED waited

RecordFailureMutant(b) ==        \* the first failure opens the circuit
    /\ waited' = [waited EXCEPT ![b] = FALSE]
    /\ failureCount' = [failureCount EXCEPT ![b] = IF state[b] = "closed" THEN FailureThreshold ELSE @]
    /\ state' = [state EXCEPT ![b] = "open"]
    /\ successCount' = [successCount EXCEPT ![b] = IF state[b] = "half-open" THEN 0 ELSE @]
RecordFailureTypeMutant(b) ==    \* the circuit stays closed at the threshold
    /\ waited' = [waited EXCEPT ![b] = FALSE]
    /\ failureCount' = [failureCount EXCEPT ![b] = IF state[b] = "closed" THEN @ + 1 ELSE @]
    /\ state' = [state EXCEPT ![b] = IF failureCount[b] > FailureThreshold THEN "open" ELSE @]
    /\ successCount' = [successCount EXCEPT ![b] = IF state[b] = "half-open" THEN 0 ELSE @]
\* lastFailTime is set in every state, also by the late answer of a request
\* that was let through before the circuit opened.
RecordFailure(b) ==
    LET opens == \/ state[b] = "half-open"
                 \/ state[b] = "closed" /\ failureCount[b] + 1 >= FailureThreshold IN
    /\ waited' = [waited EXCEPT ![b] = FALSE]
    /\ failureCount' = [failureCount EXCEPT ![b] = IF state[b] = "closed" THEN @ + 1 ELSE @]
    /\ state' = [state EXCEPT ![b] = IF opens THEN "open" ELSE @]
    /\ successCount' = [successCount EXCEPT ![b] = IF state[b] = "half-open" THEN 0 ELSE @]

\* IsAvailable: an open circuit half-opens for the first caller after the Timeout.
AllowRequest(b) ==
    /\ Operated /\ state[b] = "open" /\ waited[b]
    /\ state' = [state EXCEPT ![b] = "half-open"]
    /\ successCount' = [successCount EXCEPT ![b] = 0]
    /\ UNCHANGED <<up, failureCount, waited, failed, conns, draining, req>>

Reset(b) ==
    /\ Operated
    /\ state' = [state EXCEPT ![b] = "closed"]
    /\ failureCount' = [failureCount EXCEPT ![b] = 0]
    /\ successCount' = [successCount EXCEPT ![b] = 0]
    /\ UNCHANGED <<up, waited, failed, conns, draining, req>>

TimeoutPasses(b) ==
    /\ state[b] = "open" /\ ~ waited[b]
    /\ waited' = [waited EXCEPT ![b] = TRUE]
    /\ UNCHANGED <<up, state, failureCount, successCount, failed, conns, draining, req>>
----------------------------------------------------------------------------
(* ReverseProxy.ServeHTTP *)

Goes(r, where) == req' = [req EXCEPT ![r].pc = where]
At(r, where) == req[r].pc = where

\* The route is matched and its backend passes filterHealthyBackends; a request
\* without a route or a healthy backend is answered 502 or 503 and leaves no trace.
Admit(r, b) ==
    /\ At(r, "idle")
    /\ b \notin draining
    /\ state[b] # "open"
    /\ req' = [req EXCEPT ![r] = [pc |-> "admitted", backend |-> b]]
    /\ UNCHANGED <<up, breaker, conns, draining>>

\* tracker.Increment
Connect(r) ==
    /\ At(r, "admitted")
    /\ conns' = [conns EXCEPT ![req[r].backend] = @ + 1]
    /\ Goes(r, "proxying")
    /\ UNCHANGED <<up, breaker, draining>>

\* responseTracker.WriteHeader or Write with a status below 500
AnswerOk(r) ==
    /\ At(r, "proxying") /\ up[req[r].backend] = "ok"
    /\ RecordSuccess(req[r].backend)
    /\ Goes(r, "leaving")
    /\ UNCHANGED <<up, conns, draining>>

\* Capped, for the model.
CountFailed(b) ==
    failed' = [failed EXCEPT ![b] = IF @ < FailureThreshold THEN @ + 1 ELSE @]

\* responseTracker.WriteHeader with a status of 500 or more
AnswerError(r) ==
    /\ At(r, "proxying") /\ up[req[r].backend] = "error"
    /\ RecordFailure(req[r].backend)
    /\ CountFailed(req[r].backend)
    /\ Goes(r, "leaving")
    /\ UNCHANGED <<up, conns, draining>>

\* ErrorHandler: the backend cannot be reached, or the client has gone.
ProxyError(r) ==
    /\ At(r, "proxying")
    /\ RecordFailure(req[r].backend)
    /\ UNCHANGED failed
    /\ Goes(r, "erring")
    /\ UNCHANGED <<up, conns, draining>>

\* ErrorHandler's http.Error goes through the responseTracker, which records
\* the 502 as a failure of its own.
ErrorReply(r) ==
    /\ At(r, "erring")
    /\ RecordFailure(req[r].backend)
    /\ CountFailed(req[r].backend)
    /\ Goes(r, "leaving")
    /\ UNCHANGED <<up, conns, draining>>

LeaveMutant(r) ==                \* the deferred Decrement is lost after an error
    /\ At(r, "leaving")
    /\ conns' = [conns EXCEPT ![req[r].backend] =
                    IF @ > 0 /\ state[req[r].backend] # "open" THEN @ - 1 ELSE @]
    /\ Goes(r, "idle")
    /\ UNCHANGED <<up, breaker, draining>>
\* The deferred tracker.Decrement, which never goes below zero.
Leave(r) ==
    /\ At(r, "leaving")
    /\ conns' = [conns EXCEPT ![req[r].backend] = IF @ > 0 THEN @ - 1 ELSE @]
    /\ Goes(r, "idle")
    /\ UNCHANGED <<up, breaker, draining>>
----------------------------------------------------------------------------
(* DrainManager.WaitForDrain; a second call for a draining backend returns at once. *)

StartDrain(b) ==
    /\ Operated /\ b \notin draining
    /\ draining' = draining \cup {b}
    /\ UNCHANGED <<up, breaker, conns, req>>

\* A tick of the loop finds no connection: nil is returned.
Drained(b) ==
    /\ b \in draining /\ conns[b] = 0
    /\ draining' = draining \ {b}
    /\ UNCHANGED <<up, breaker, conns, req>>

\* The deadline: ErrDrainTimeout.
DrainTimesOut(b) ==
    /\ b \in draining /\ conns[b] > 0
    /\ draining' = draining \ {b}
    /\ UNCHANGED <<up, breaker, conns, req>>
----------------------------------------------------------------------------
BackendChanges(b, how) ==
    /\ up[b] # how
    /\ up' = [up EXCEPT ![b] = how]
    /\ UNCHANGED <<breaker, conns, draining, req>>

Serve(r) ==
    Connect(r) \/ AnswerOk(r) \/ AnswerError(r) \/ ProxyError(r) \/ ErrorReply(r) \/ Leave(r)

Next ==
    \/ \E r \in Reqs : Serve(r) \/ \E b \in Backends : Admit(r, b)
    \/ \E b \in Backends :
          \/ AllowRequest(b) \/ Reset(b) \/ TimeoutPasses(b)
          \/ StartDrain(b) \/ Drained(b) \/ DrainTimesOut(b)
          \/ \E how \in {"ok", "error", "dead"} : BackendChanges(b, how)

Spec == Init /\ [][Next]_vars
----------------------------------------------------------------------------
\* The tracker holds exactly the requests a backend is working for, whatever way
\* they end: a count that drifts makes WaitForDrain return too early or never,
\* and the clamp in Decrement would hide it.
ConnsExact ==
    \A b \in Backends : conns[b] = Cardinality(On(b, {"proxying", "erring", "leaving"}))

\* A closed circuit opens on failures of that backend since its last success,
\* and on no fewer than half of FailureThreshold: a request that fails counts
\* twice at most (ProxyError, ErrorReply), however its two records interleave
\* with the successes that reset the count.
OpensOnFailures ==
    \A b \in Backends :
          state[b] = "closed" /\ state'[b] = "open" =>
             2 * failed'[b] + Cardinality(On(b, {"erring"})') >= FailureThreshold
============================================================================
