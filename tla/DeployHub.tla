----------------------------- MODULE DeployHub -----------------------------
(***************************************************************************)
(* The hub that pushes deployment progress to the browser:                 *)
(* src/internal/api/ws/deploy.go.  A ServeWS goroutine runs per socket;    *)
(* broadcasts write to a snapshot of the clients without the lock and      *)
(* evict the ones that failed; Shutdown closes what is registered and      *)
(* waits for the goroutines.  hub.sock is the socket of each connection    *)
(* as this process sees it ("open", "broken": the next read or write       *)
(* fails, "closed"), hub.serve where its goroutine is.                     *)
(***************************************************************************)
EXTENDS Integers

CONSTANTS Conns,    \* sockets the browser opens
          Casts     \* broadcasts of the deployment, each at most once

VARIABLE hub

Init == hub = [closed |-> FALSE, wg |-> 0, clients |-> {}, shutdown |-> "no",
               sock |-> [c \in Conns |-> "none"], serve |-> [c \in Conns |-> "new"],
               cast |-> [b \in Casts |-> "new"], left |-> [b \in Casts |-> {}],
               dead |-> [b \in Casts |-> {}]]

enter(c) ==
    /\ hub.serve[c] = "new"
    /\ hub' = IF hub.closed THEN [hub EXCEPT !.serve[c] = "refused"]
              ELSE [hub EXCEPT !.serve[c] = "entered", !.wg = @ + 1]

Upgrade(c) ==
    /\ hub.serve[c] = "entered"
    /\ \/ hub' = [hub EXCEPT !.serve[c] = "upgraded", !.sock[c] = "open"]
       \/ hub' = [hub EXCEPT !.serve[c] = "leaving"]


Register(c) ==
    /\ hub.serve[c] = "upgraded"
    /\ hub' = IF hub.closed
              THEN [hub EXCEPT !.serve[c] = "leaving", !.sock[c] = "closed"]
              ELSE [hub EXCEPT !.serve[c] = "reading", !.clients = @ \cup {c}]

Break(c) ==
    /\ hub.sock[c] = "open"
    /\ hub' = [hub EXCEPT !.sock[c] = "broken"]

(* The read loop ends on an error, of the peer or because somebody here    *)
(* closed the socket, or at the frame limit; the deferred calls follow.    *)
ReadLoop(c) ==
    /\ hub.serve[c] = "reading"
    /\ hub.sock[c] # "open"
    /\ hub' = [hub EXCEPT !.serve[c] = "unregister"]

FrameLimit(c) ==
    /\ hub.serve[c] = "reading"
    /\ hub' = [hub EXCEPT !.serve[c] = "unregister"]

Unregister(c) ==
    /\ hub.serve[c] = "unregister"
    /\ hub' = [hub EXCEPT !.serve[c] = "leaving", !.clients = @ \ {c}, !.sock[c] = "closed"]

leave(c) ==
    /\ hub.serve[c] = "leaving"
    /\ hub' = [hub EXCEPT !.serve[c] = "gone", !.wg = @ - 1]

snapshotClients(b) ==
    /\ hub.cast[b] = "new"
    /\ hub' = [hub EXCEPT !.cast[b] = "writing",
                          !.left[b] = IF hub.closed THEN {} ELSE hub.clients]

safeWrite(b, c) ==
    /\ hub.cast[b] = "writing" /\ c \in hub.left[b]
    /\ hub' = [hub EXCEPT !.left[b] = @ \ {c},
                          !.dead[b] = IF hub.sock[c] = "open" THEN @ ELSE @ \cup {c}]

evictDead(b) ==
    /\ hub.cast[b] = "writing" /\ hub.left[b] = {}
    /\ hub' = [hub EXCEPT !.cast[b] = "done", !.clients = @ \ hub.dead[b],
                          !.sock = [c \in Conns |-> IF c \in hub.dead[b] THEN "closed" ELSE @[c]]]

Shutdown ==
    /\ hub.shutdown = "no"
    /\ hub' = [hub EXCEPT !.closed = TRUE, !.shutdown = "waiting", !.clients = {},
                          !.sock = [c \in Conns |-> IF c \in hub.clients THEN "closed" ELSE @[c]]]

Return ==
    /\ hub.shutdown = "waiting"
    /\ \/ hub.wg = 0 /\ hub' = [hub EXCEPT !.shutdown = "drained"]
       \/ hub' = [hub EXCEPT !.shutdown = "deadline"]

Serve(c) == Upgrade(c) \/ Register(c) \/ ReadLoop(c) \/ Unregister(c) \/ leave(c)

Next ==
    \/ \E c \in Conns : enter(c) \/ Serve(c) \/ Break(c) \/ FrameLimit(c)
    \/ \E b \in Casts : snapshotClients(b) \/ evictDead(b) \/ \E c \in Conns : safeWrite(b, c)
    \/ Shutdown \/ Return

Spec == Init /\ [][Next]_hub

(* The goroutines that Stop or Shutdown waits for; once it has returned    *)
(* without giving up at its deadline, none is at work.                     *)
Inside == {c \in Conns : hub.serve[c] \notin {"new", "refused", "gone"}}
Drained == hub.shutdown = "drained" => Inside = {} /\ hub.clients = {}
============================================================================
