----------------------------- MODULE Monitoring ----------------------------
(***************************************************************************)
(* From metrics to messages: the collection loop and the alert engine of   *)
(* src/internal/resource (module.go, alerts.go), and the notification      *)
(* module that its events reach (src/internal/notifications/module.go),    *)
(* whose Send and Stop are a gate of their own.  mo.events are the alert   *)
(* events on the asynchronous bus, mo.sends the notifications inside Send  *)
(* with the attempts of their Retry.                                       *)
(***************************************************************************)
EXTENDS Integers, Sequences, FiniteSets, SequencesExt

CONSTANTS Rules, Providers,
          MaxTicks, maxRingPoints, MaxAttempts

VARIABLE mo

Init == mo = [loop |-> "off", stopped |-> FALSE, wg |-> 0, stop |-> "new", ticks |-> 0,
              firing |-> [r \in Rules |-> FALSE], todo |-> {}, over |-> {}, ring |-> <<>>,
              events |-> {}, sends |-> [p \in Providers |-> 0], queue |-> {},
              closed |-> FALSE, nstop |-> "new", late |-> FALSE]

Start ==
    /\ mo.loop = "off" /\ ~mo.stopped
    /\ mo' = [mo EXCEPT !.loop = "select", !.wg = @ + 1]

(* CollectServer: the rules whose condition holds now, or nothing.         *)
collectionLoop ==
    /\ mo.loop = "select"
    /\ \/ mo.stopped /\ mo' = [mo EXCEPT !.loop = "ended", !.wg = @ - 1]
       \/ /\ mo.ticks < MaxTicks
          /\ \/ mo' = [mo EXCEPT !.loop = "store", !.ticks = @ + 1]
             \/ \E over \in SUBSET Rules :
                  mo' = [mo EXCEPT !.loop = "evaluate", !.ticks = @ + 1, !.over = over, !.todo = Rules]

(* One rule: an event when it begins or ends to hold.                      *)
Evaluate ==
    /\ mo.loop = "evaluate"
    /\ IF mo.todo = {} THEN mo' = [mo EXCEPT !.loop = "store", !.over = {}]
       ELSE \E r \in mo.todo :
              mo' = [mo EXCEPT !.todo = @ \ {r}, !.firing[r] = r \in mo.over,
                               !.events = IF mo.firing[r] = (r \in mo.over) THEN @
                                          ELSE @ \cup {<<r, mo.ticks, r \in mo.over>>}]

(* batchStoreMetrics and appendPoint: the newest points, or a failed write.*)
batchStoreMetrics ==
    /\ mo.loop = "store"
    /\ LET ring == Append(mo.ring, mo.ticks)
           from == IF Len(ring) > maxRingPoints THEN Len(ring) - maxRingPoints + 1 ELSE 1
       IN  \/ mo' = [mo EXCEPT !.loop = "select"]
           \/ mo' = [mo EXCEPT !.loop = "select", !.ring = SubSeq(ring, from, Len(ring))]

Stop ==
    \/ /\ mo.stop = "new" /\ mo' = [mo EXCEPT !.stop = "waiting", !.stopped = TRUE]
    \/ /\ mo.stop = "waiting" /\ mo.wg = 0 /\ mo' = [mo EXCEPT !.stop = "returned"]

(* The bus runs the subscription: one Send after another.  One event is in *)
(* hand at a time (a bound: the bus may run two).                          *)
dispatchAlert ==
    /\ mo.queue = {}
    /\ \E e \in mo.events : mo' = [mo EXCEPT !.events = @ \ {e}, !.queue = Providers]

SendMutant(p) ==  \* closed is not looked at
    /\ p \in mo.queue /\ \A o \in Providers : mo.sends[o] = 0
    /\ mo' = [mo EXCEPT !.queue = @ \ {p}, !.sends[p] = 1]

Send(p) ==
    /\ p \in mo.queue /\ \A o \in Providers : mo.sends[o] = 0
    /\ mo' = IF mo.closed THEN [mo EXCEPT !.queue = @ \ {p}]
             ELSE [mo EXCEPT !.queue = @ \ {p}, !.sends[p] = 1]

(* An attempt succeeds, or fails and is retried; after a cancelled context *)
(* or the last attempt the error is returned.                              *)
Attempt(p) ==
    /\ mo.sends[p] > 0
    /\ \/ mo' = [mo EXCEPT !.sends[p] = 0]
       \/ mo.sends[p] < MaxAttempts /\ mo' = [mo EXCEPT !.sends[p] = @ + 1]

(* The notification module's Stop: it waits for the Sends, or until its    *)
(* deadline.                                                               *)
StopNotifications ==
    \/ /\ mo.nstop = "new" /\ mo' = [mo EXCEPT !.nstop = "waiting", !.closed = TRUE]
    \/ /\ mo.nstop = "waiting"
       /\ \/ (\A p \in Providers : mo.sends[p] = 0) /\ mo' = [mo EXCEPT !.nstop = "returned"]
          \/ mo' = [mo EXCEPT !.nstop = "returned", !.late = TRUE]

Worker == collectionLoop \/ Evaluate \/ batchStoreMetrics
Next == \/ Start \/ Worker \/ Stop \/ dispatchAlert \/ StopNotifications
        \/ \E p \in Providers : Send(p) \/ Attempt(p)

Spec == Init /\ [][Next]_mo

Sending == {p \in Providers : mo.sends[p] > 0}
(* The goroutines that Stop or Shutdown waits for; once it has returned    *)
(* without giving up at its deadline, none is at work.                     *)
Inside == Sending \cup IF mo.loop \in {"off", "ended"} THEN {} ELSE {"loop"}
Drained ==
    /\ mo.stop = "returned" => mo.loop \in {"off", "ended"}
    /\ mo.nstop = "returned" /\ ~mo.late => Sending = {}
============================================================================
