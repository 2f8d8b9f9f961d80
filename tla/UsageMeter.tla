----------------------------- MODULE UsageMeter ----------------------------
(***************************************************************************)
(* The hourly metering of billing (src/internal/billing/metering.go): the  *)
(* started/stopped state machine under mu, the loop, and one collect that  *)
(* writes a usage record per tenant and then reports to Stripe, looking at *)
(* the context between tenants.  m.todo and m.report are the tenants the   *)
(* collect in progress has still to record and to report.                  *)
(***************************************************************************)
EXTENDS Integers, FiniteSets

CONSTANTS Tenants, Metered,   \* the tenants with a subscription item
          Stoppers, MaxTicks

VARIABLE m

Init == m = [started |-> FALSE, stopped |-> FALSE, wg |-> 0, loop |-> "off", ticks |-> 0,
             todo |-> {}, seen |-> {}, report |-> {}, usage |-> [t \in Tenants |-> 0],
             sent |-> [t \in Tenants |-> 0], stop |-> [s \in Stoppers |-> "new"]]

Start ==
    /\ ~m.started /\ ~m.stopped
    /\ m' = [m EXCEPT !.started = TRUE, !.wg = @ + 1, !.loop = "select"]

Stop(s) ==
    \/ /\ m.stop[s] = "new"
       /\ m' = [m EXCEPT !.stopped = TRUE,
                         !.stop[s] = IF m.stopped \/ m.started THEN "waiting" ELSE "returned"]
    \/ /\ m.stop[s] = "waiting" /\ m.wg = 0
       /\ m' = [m EXCEPT !.stop[s] = "returned"]

(* A tick that meets a stop ends the loop like stopCh does.                *)
loop ==
    /\ m.loop = "select"
    /\ \/ m.stopped /\ m' = [m EXCEPT !.loop = "ended", !.wg = @ - 1]
       \/ ~m.stopped /\ m.ticks < MaxTicks
          /\ m' = [m EXCEPT !.loop = "collect", !.ticks = @ + 1]

(* The containers are listed, with the call failing, or grouped by the     *)
(* tenant on their label.                                                  *)
collect ==
    /\ m.loop = "collect"
    /\ \/ m' = [m EXCEPT !.loop = "select"]
       \/ \E ts \in SUBSET Tenants :
             m' = [m EXCEPT !.loop = "record", !.todo = ts, !.seen = ts]

CreateUsageRecord ==
    /\ m.loop = "record"
    /\ IF m.todo = {} THEN m' = [m EXCEPT !.loop = "report", !.report = m.seen]
       ELSE IF m.stopped THEN m' = [m EXCEPT !.loop = "select", !.todo = {}]
       ELSE \E t \in m.todo, ok \in BOOLEAN :
              m' = [m EXCEPT !.todo = @ \ {t}, !.usage[t] = IF ok THEN @ + 1 ELSE @]

reportUsageToStripe ==
    /\ m.loop = "report"
    /\ IF m.report = {} \/ m.stopped THEN m' = [m EXCEPT !.loop = "select", !.report = {}]
       ELSE \E t \in m.report, ok \in BOOLEAN :
              m' = [m EXCEPT !.report = @ \ {t},
                             !.sent[t] = IF ok /\ t \in Metered THEN @ + 1 ELSE @]

Worker == loop \/ collect \/ CreateUsageRecord \/ reportUsageToStripe
Next == Start \/ Worker \/ \E s \in Stoppers : Stop(s)

Spec == Init /\ [][Next]_m

(* The goroutines that Stop or Shutdown waits for; once it has returned    *)
(* without giving up at its deadline, none is at work.                     *)
Inside == IF m.loop \in {"off", "ended"} THEN {} ELSE {"loop"}
Drained == (\E s \in Stoppers : m.stop[s] = "returned") => Inside = {}
============================================================================
