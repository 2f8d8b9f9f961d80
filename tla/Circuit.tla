------------------------------ MODULE Circuit ------------------------------
(***************************************************************************)
(* Calls to a VPS provider: the circuit breaker of                         *)
(* src/internal/core/circuitbreaker.go inside Retry (core/retry.go), as    *)
(* vpsDoRequest of src/internal/vps/providers/vps_http.go nests them.      *)
(* k.call[c] is where a call stands and its attempts so far.               *)
(***************************************************************************)
EXTENDS Integers, FiniteSets

CONSTANTS Calls, failureThreshold, resetTimeout, halfOpenMax, MaxAttempts, MaxTime

VARIABLE k

Init == k = [state |-> "closed", failures |-> 0, successes |-> 0, last |-> 0, halfOpenCalls |-> 0,
             now |-> 0, call |-> [c \in Calls |-> [at |-> "idle", tries |-> 0]]]

currentState ==
    IF k.state = "open" /\ k.now - k.last >= resetTimeout THEN "half-open" ELSE k.state

(* A refused attempt is an error like another: it is retried.              *)
Failed(r, c) ==
    IF k.call[c].tries + 1 < MaxAttempts
    THEN [r EXCEPT !.call[c] = [at |-> "waiting", tries |-> @.tries + 1]]
    ELSE [r EXCEPT !.call[c] = [at |-> "idle", tries |-> 0]]

beforeCall(c) ==
    /\ k.call[c].at \in {"idle", "waiting"}
    /\ k' = IF currentState = "open" \/ (currentState = "half-open" /\ k.halfOpenCalls >= halfOpenMax)
            THEN Failed(k, c)
            ELSE [k EXCEPT !.halfOpenCalls = IF currentState = "half-open" THEN @ + 1 ELSE @,
                           !.call[c].at = "calling"]

Reset(r) == [r EXCEPT !.state = "closed", !.failures = 0, !.successes = 0, !.halfOpenCalls = 0]

onSuccess(r) ==
    CASE currentState = "half-open" ->
           IF r.successes + 1 >= halfOpenMax THEN Reset(r) ELSE [r EXCEPT !.successes = @ + 1]
      [] currentState = "closed" -> [r EXCEPT !.failures = 0]
      [] OTHER -> r

Least(a, b) == IF a < b THEN a ELSE b

(* The count is kept no further than the threshold.                        *)
onFailure(r) ==
    LET f == [r EXCEPT !.failures = Least(@ + 1, failureThreshold), !.last = k.now] IN
    CASE currentState = "closed" ->
           IF f.failures >= failureThreshold THEN [f EXCEPT !.state = "open"] ELSE f
      [] currentState = "half-open" -> [f EXCEPT !.state = "open", !.halfOpenCalls = 0, !.successes = 0]
      [] OTHER -> f

(* A success, a 5xx, a 429 or a transport error, or a 4xx: the last is     *)
(* neither a success nor a failure, and ends the call.                     *)
afterCall(c) ==
    /\ k.call[c].at = "calling"
    /\ \/ k' = [onSuccess(k) EXCEPT !.call[c] = [at |-> "idle", tries |-> 0]]
       \/ k' = Failed(onFailure(k), c)
       \/ k' = [k EXCEPT !.call[c] = [at |-> "idle", tries |-> 0]]

(* The context ends between attempts.                                      *)
Cancel(c) ==
    /\ k.call[c].at = "waiting"
    /\ k' = [k EXCEPT !.call[c] = [at |-> "idle", tries |-> 0]]

Tick == k.now < MaxTime /\ k' = [k EXCEPT !.now = @ + 1]

Next == Tick \/ \E c \in Calls : beforeCall(c) \/ afterCall(c) \/ Cancel(c)

Spec == Init /\ [][Next]_k

(* Open, half-open, closed: once the timeout has passed, and with no call  *)
(* in flight, the next call goes through as a probe.                       *)
ProbeAdmitted ==
    currentState = "half-open" /\ (\A c \in Calls : k.call[c].at # "calling") =>
        k.halfOpenCalls < halfOpenMax
============================================================================
