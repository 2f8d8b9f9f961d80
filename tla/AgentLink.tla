----------------------------- MODULE AgentLink -----------------------------
(***************************************************************************)
(* The link between the master and its agents (internal/swarm): the        *)
(* master's AgentServer with one readLoop per connection, the heartbeat    *)
(* and its pings, Send with its table of pending requests, and Stop; the   *)
(* agents' AgentClient, which reconnects and answers every command from a  *)
(* goroutine of its own.                                                   *)
(*                                                                         *)
(* A connection is in loop state                                           *)
(*   new, handshake, refused   HandleConnect has not registered it         *)
(*   up                 registered, the readLoop reads                     *)
(*   closed, forgot, swept, gone   the four steps of removeAgent and the   *)
(*                      deferred wg.Done                                   *)
(* and both directions of its socket are sets: the handlers run            *)
(* concurrently, so answers come in any order.                             *)
(***************************************************************************)
EXTENDS Integers, FiniteSets

CONSTANTS Conns,     \* the connections that are made
          ServerOf,  \* and the agent that makes them
          Reqs,      \* the requests that are sent
          Pings,     \* those sent by the heartbeat
          ToServer,  \* the agent the others are for
          Twice,     \* answered twice: handleBuildTask without a build module
          Stoppers,  \* the calls of Stop
          MaxHandlers, \* maxConcurrentHandlers
          None

Servers == {ServerOf[c] : c \in Conns}

VARIABLES closed,    \* AgentServer.closed
          agents,    \* AgentServer.agents: the connection of each server
          wg,        \* AgentServer.wg
          beat,      \* the heartbeat loop: "off", "on" or "done"
          stop,      \* per call of Stop: "idle", "waiting", "returned"
          loop,      \* per connection: see above
          open,      \* per connection: the master has not closed the socket
          pending,   \* per connection: AgentConn.pending
          call,      \* per request: where Send is
          target,    \* per request: its connection
          chan,      \* per request: its channel, "empty", "full" or "closed"
          cur,       \* per agent: the connection it uses, or None
          inbox,     \* per agent: commands that wait for a handler slot
          running,   \* per agent: commands being handled
          replied,   \* per request: how many answers were written
          toAgent, toMaster   \* per connection: what is on the wire

master == <<closed, agents, wg, beat, stop>>
conn == <<loop, open, pending>>
send == <<call, target, chan>>
agent == <<cur, inbox, running, replied>>
wire == <<toAgent, toMaster>>
vars == <<master, conn, send, agent, wire>>

Unregistered == {"new", "handshake", "refused"}

TypeOK ==
    /\ closed \in BOOLEAN
    /\ agents \in [Servers -> Conns \cup {None}]
    /\ wg \in 0..(Cardinality(Conns) + Cardinality(Pings) + 1)
    /\ beat \in {"off", "on", "done"}
    /\ stop \in [Stoppers -> {"idle", "waiting", "returned"}]
    /\ loop \in [Conns -> Unregistered \cup {"up", "closed", "forgot", "swept", "gone"}]
    /\ open \in [Conns -> BOOLEAN]
    /\ pending \in [Conns -> SUBSET Reqs]
    /\ call \in [Reqs -> {"idle", "get", "registered", "waiting", "done"}]
    /\ target \in [Reqs -> Conns \cup {None}]
    /\ chan \in [Reqs -> {"empty", "full", "closed"}]
    /\ cur \in [Servers -> Conns \cup {None}]
    /\ inbox \in [Servers -> SUBSET Reqs] /\ running \in [Servers -> SUBSET Reqs]
    /\ replied \in [Reqs -> 0..2]
    /\ toAgent \in [Conns -> SUBSET Reqs] /\ toMaster \in [Conns -> SUBSET Reqs]

Init ==
    /\ closed = FALSE
    /\ agents = [s \in Servers |-> None]
    /\ wg = 0
    /\ beat = "off"
    /\ stop = [s \in Stoppers |-> "idle"]
    /\ loop = [c \in Conns |-> "new"]
    /\ open = [c \in Conns |-> FALSE]
    /\ pending = [c \in Conns |-> {}]
    /\ call = [r \in Reqs |-> "idle"]
    /\ target = [r \in Reqs |-> None]
    /\ chan = [r \in Reqs |-> "empty"]
    /\ cur = [s \in Servers |-> None]
    /\ inbox = [s \in Servers |-> {}]
    /\ running = [s \in Servers |-> {}]
    /\ replied = [r \in Reqs |-> 0]
    /\ toAgent = [c \in Conns |-> {}]
    /\ toMaster = [c \in Conns |-> {}]

Advance(c, l) == loop' = [loop EXCEPT ![c] = l]
Goto(r, l) == call' = [call EXCEPT ![r] = l]
----------------------------------------------------------------------------
(* HandleConnect *)

\* The agent dials and is upgraded; its AgentInfo is on the way.
Dial(c) ==
    /\ loop[c] = "new" /\ cur[ServerOf[c]] = None
    /\ Advance(c, "handshake")
    /\ open' = [open EXCEPT ![c] = TRUE]
    /\ cur' = [cur EXCEPT ![ServerOf[c]] = c]
    /\ UNCHANGED <<master, pending, send, inbox, running, replied, wire>>

\* No AgentInfo in time, a bad one, or the server is stopping.
Refuse(c) ==
    /\ loop[c] = "handshake"
    /\ Advance(c, "refused")
    /\ open' = [open EXCEPT ![c] = FALSE]
    /\ UNCHANGED <<master, pending, send, agent, wire>>

RegisterMutant(c) ==             \* closed is not looked at
    /\ loop[c] = "handshake"
    /\ LET s == ServerOf[c] IN
       /\ open' = [d \in Conns |-> open[d] /\ d # agents[s]]
       /\ agents' = [agents EXCEPT ![s] = c]
    /\ wg' = wg + 1
    /\ Advance(c, "up")
    /\ UNCHANGED <<closed, beat, stop, pending, send, agent, wire>>
\* Under mu: the server's old connection is closed, the new one takes its place.
Register(c) ==
    /\ loop[c] = "handshake" /\ ~closed
    /\ LET s == ServerOf[c] IN
       /\ open' = [d \in Conns |-> open[d] /\ d # agents[s]]
       /\ agents' = [agents EXCEPT ![s] = c]
    /\ wg' = wg + 1
    /\ Advance(c, "up")
    /\ UNCHANGED <<closed, beat, stop, pending, send, agent, wire>>
----------------------------------------------------------------------------
(* readLoop and removeAgent *)

DeliverMutant(c, r) ==           \* the entry is left in pending
    /\ loop[c] = "up" /\ open[c] /\ r \in toMaster[c]
    /\ toMaster' = [toMaster EXCEPT ![c] = @ \ {r}]
    /\ chan' = [chan EXCEPT ![r] = IF r \in pending[c] THEN "full" ELSE @]
    /\ UNCHANGED <<master, conn, call, target, agent, toAgent>>
\* handleAgentMessage routes an answer; one nobody waits for is dropped.
Deliver(c, r) ==
    /\ loop[c] = "up" /\ open[c] /\ r \in toMaster[c]
    /\ toMaster' = [toMaster EXCEPT ![c] = @ \ {r}]
    /\ pending' = [pending EXCEPT ![c] = @ \ {r}]
    /\ chan' = [chan EXCEPT ![r] = IF r \in pending[c] THEN "full" ELSE @]
    /\ UNCHANGED <<master, loop, open, call, target, agent, toAgent>>

ReadErrorMutant(c) ==            \* the socket is not closed
    /\ loop[c] = "up"
    /\ Advance(c, "closed")
    /\ UNCHANGED <<master, open, pending, send, agent, wire>>
\* EOF, a closed socket, the 90 s deadline or a panic ends the loop, and
\* removeAgent closes the connection.
ReadError(c) ==
    /\ loop[c] = "up"
    /\ Advance(c, "closed")
    /\ open' = [open EXCEPT ![c] = FALSE]
    /\ UNCHANGED <<master, pending, send, agent, wire>>

\* delete(s.agents, ac.ServerID), whichever connection is registered there.
Forget(c) ==
    /\ loop[c] = "closed"
    /\ Advance(c, "forgot")
    /\ agents' = [agents EXCEPT ![ServerOf[c]] = None]
    /\ UNCHANGED <<closed, wg, beat, stop, open, pending, send, agent, wire>>

Sweep(c) ==
    /\ loop[c] = "forgot"
    /\ Advance(c, "swept")
    /\ pending' = [pending EXCEPT ![c] = {}]
    /\ chan' = [r \in Reqs |-> IF r \in pending[c] THEN "closed" ELSE chan[r]]
    /\ UNCHANGED <<master, open, call, target, agent, wire>>

LoopDone(c) ==
    /\ loop[c] = "swept"
    /\ Advance(c, "gone")
    /\ wg' = wg - 1
    /\ UNCHANGED <<closed, agents, beat, stop, open, pending, send, agent, wire>>
----------------------------------------------------------------------------
(* Send, sendCommand and the pings *)

\* NodeManager.Get, then a command on the executor it returned.
Get(r) ==
    /\ call[r] = "idle" /\ r \notin Pings
    /\ LET c == agents[ToServer[r]] IN
       /\ target' = [target EXCEPT ![r] = c]
       /\ Goto(r, IF c = None THEN "done" ELSE "get")
    /\ UNCHANGED <<master, conn, chan, agent, wire>>

\* heartbeatTick pings a connection of its snapshot, gone since then or not.
HeartbeatPing(r, c) ==
    /\ beat = "on" /\ ~closed
    /\ call[r] = "idle" /\ r \in Pings
    /\ loop[c] \notin Unregistered /\ ServerOf[c] = ToServer[r]
    /\ target' = [target EXCEPT ![r] = c]
    /\ Goto(r, "get")
    /\ wg' = wg + 1
    /\ UNCHANGED <<closed, agents, beat, stop, conn, chan, agent, wire>>

SendRegister(r) ==
    /\ call[r] = "get"
    /\ pending' = [pending EXCEPT ![target[r]] = @ \cup {r}]
    /\ Goto(r, "registered")
    /\ UNCHANGED <<master, loop, open, target, chan, agent, wire>>

SendEncode(r) ==
    /\ call[r] = "registered" /\ open[target[r]]
    /\ toAgent' = [toAgent EXCEPT ![target[r]] = @ \cup {r}]
    /\ Goto(r, "waiting")
    /\ UNCHANGED <<master, conn, target, chan, agent, toMaster>>

\* Send returns; a ping's goroutine ends with it.
Finish(r) ==
    /\ Goto(r, "done")
    /\ wg' = IF r \in Pings THEN wg - 1 ELSE wg

SendFailsMutant(r) ==            \* the entry stays in the table
    /\ call[r] = "registered"
    /\ Finish(r)
    /\ UNCHANGED <<closed, agents, beat, stop, conn, target, chan, agent, wire>>
\* A write to a closed socket fails, and any write may.
SendFails(r) ==
    /\ call[r] = "registered"
    /\ pending' = [pending EXCEPT ![target[r]] = @ \ {r}]
    /\ Finish(r)
    /\ UNCHANGED <<closed, agents, beat, stop, loop, open, target, chan, agent, wire>>

SendReceive(r) ==
    /\ call[r] = "waiting" /\ chan[r] # "empty"
    /\ Finish(r)
    /\ UNCHANGED <<closed, agents, beat, stop, conn, target, chan, agent, wire>>

\* ctx: the caller's, 30 s (commands) or 5 s under stopCtx (pings).
SendTimeout(r) ==
    /\ call[r] = "waiting"
    /\ pending' = [pending EXCEPT ![target[r]] = @ \ {r}]
    /\ Finish(r)
    /\ UNCHANGED <<closed, agents, beat, stop, loop, open, target, chan, agent, wire>>
----------------------------------------------------------------------------
(* The heartbeat and Stop *)

StartHeartbeat ==
    /\ beat = "off" /\ ~closed
    /\ beat' = "on"
    /\ wg' = wg + 1
    /\ UNCHANGED <<closed, agents, stop, conn, send, agent, wire>>

\* Nothing was heard from the agent for heartbeatDead.
HeartbeatDead(c) ==
    /\ beat = "on" /\ loop[c] \notin Unregistered
    /\ open[c]
    /\ open' = [open EXCEPT ![c] = FALSE]
    /\ UNCHANGED <<master, loop, pending, send, agent, wire>>

HeartbeatExit ==
    /\ beat = "on" /\ closed
    /\ beat' = "done"
    /\ wg' = wg - 1
    /\ UNCHANGED <<closed, agents, stop, conn, send, agent, wire>>

\* stopOnce.Do: every connection in the map is closed.
StopCall(s) ==
    /\ stop[s] = "idle"
    /\ stop' = [stop EXCEPT ![s] = "waiting"]
    /\ closed' = TRUE
    /\ open' = [c \in Conns |-> open[c] /\ (closed \/ c \notin {agents[v] : v \in Servers})]
    /\ agents' = [v \in Servers |-> IF closed THEN agents[v] ELSE None]
    /\ UNCHANGED <<wg, beat, loop, pending, send, agent, wire>>

StopReturn(s) ==
    /\ stop[s] = "waiting" /\ wg = 0
    /\ stop' = [stop EXCEPT ![s] = "returned"]
    /\ UNCHANGED <<closed, agents, wg, beat, conn, send, agent, wire>>
----------------------------------------------------------------------------
(* AgentClient: ConnectWithRetry, readLoop and handleMessage *)

AgentRead(s, r) ==
    /\ cur[s] # None
    /\ r \in toAgent[cur[s]]
    /\ toAgent' = [toAgent EXCEPT ![cur[s]] = @ \ {r}]
    /\ inbox' = [inbox EXCEPT ![s] = @ \cup {r}]
    /\ UNCHANGED <<master, conn, send, cur, running, replied, toMaster>>

AgentHandle(s, r) ==
    /\ r \in inbox[s] /\ Cardinality(running[s]) < MaxHandlers
    /\ inbox' = [inbox EXCEPT ![s] = @ \ {r}]
    /\ running' = [running EXCEPT ![s] = @ \cup {r}]
    /\ UNCHANGED <<master, conn, send, cur, replied, wire>>

\* sendResponse uses the encoder of the connection the agent has now, which may
\* not be the one the command came from.
AgentRespond(s, r) ==
    /\ r \in running[s]
    /\ replied' = [replied EXCEPT ![r] = @ + 1]
    /\ running' = [running EXCEPT ![s] =
                     IF replied[r] = 0 /\ r \in Twice THEN @ ELSE @ \ {r}]
    /\ toMaster' = [c \in Conns |-> IF c = cur[s] THEN toMaster[c] \cup {r} ELSE toMaster[c]]
    /\ UNCHANGED <<master, conn, send, cur, inbox, toAgent>>

\* The agent loses the connection: its side is closed, what it was sent is lost.
AgentDrop(s) ==
    /\ cur[s] # None
    /\ cur' = [cur EXCEPT ![s] = None]
    /\ toAgent' = [toAgent EXCEPT ![cur[s]] = {}]
    /\ UNCHANGED <<master, conn, send, inbox, running, replied, toMaster>>

\* Its process dies, as it does when a handler panics: recover is not deferred.
AgentCrash(s) ==
    /\ inbox[s] \cup running[s] # {}
    /\ cur' = [cur EXCEPT ![s] = None]
    /\ inbox' = [inbox EXCEPT ![s] = {}]
    /\ running' = [running EXCEPT ![s] = {}]
    /\ UNCHANGED <<master, conn, send, replied, wire>>

MasterStep ==
    \/ \E c \in Conns : Refuse(c) \/ Register(c) \/ Forget(c) \/ Sweep(c) \/ LoopDone(c)
    \/ \E c \in Conns : \E r \in Reqs : Deliver(c, r)
    \/ \E r \in Reqs : SendRegister(r) \/ SendEncode(r) \/ SendReceive(r)
    \/ HeartbeatExit
    \/ \E s \in Stoppers : StopReturn(s)

AgentStep ==
    \E s \in Servers : \E r \in Reqs :
        AgentRead(s, r) \/ AgentHandle(s, r) \/ AgentRespond(s, r)

Next ==
    \/ MasterStep \/ AgentStep
    \/ \E c \in Conns : Dial(c) \/ ReadError(c) \/ HeartbeatDead(c)
    \/ \E r \in Reqs : Get(r) \/ SendFails(r) \/ SendTimeout(r)
    \/ \E r \in Reqs : \E c \in Conns : HeartbeatPing(r, c)
    \/ StartHeartbeat
    \/ \E s \in Stoppers : StopCall(s)
    \/ \E s \in Servers : AgentDrop(s) \/ AgentCrash(s)

Spec == Init /\ [][Next]_vars
----------------------------------------------------------------------------
(* Properties *)

Tracked == {c \in Conns : loop[c] \in {"up", "closed", "forgot", "swept"}}
PingsOut == {r \in Pings : call[r] \notin {"idle", "done"}}

\* Once a Stop has returned, no read loop, no ping and no heartbeat is left, and
\* none is started any more ("Add-before-Wait ... even under a concurrent Stop
\* storm").
StopDrains ==
    (\E s \in Stoppers : stop[s] = "returned") =>
        Tracked = {} /\ PingsOut = {} /\ beat # "on"

\* A Send that waits is in the table of a connection whose sweep is still to
\* come, or its channel is ready: a lost agent never leaves a caller to its
\* timeout only.  It holds because the socket is closed before the sweep.
NoOrphanedSend ==
    \A r \in Reqs : call[r] = "waiting" /\ chan[r] = "empty" =>
        /\ r \in pending[target[r]]
        /\ loop[target[r]] \notin {"swept", "gone"}

\* A request in the table has an empty channel: the read loop's "ch <- msg"
\* neither blocks nor hits a closed channel, however late, often or on whichever
\* connection an agent answers.
DeliveryNeverBlocks ==
    \A c \in Conns : \A r \in pending[c] : chan[r] = "empty"

\* A finished Send has left nothing behind in the table of its connection,
\* whether it was answered, failed to write, timed out or was disconnected.
NoLeakedEntry ==
    \A r \in Reqs : call[r] = "done" /\ target[r] # None =>
        r \notin pending[target[r]]

\* ConnectedAgents and Get show every agent that is connected: a registered
\* connection that is open at both ends is in the map.
ConnectedListed ==
    \A c \in Conns : loop[c] = "up" /\ open[c] /\ cur[ServerOf[c]] = c =>
        agents[ServerOf[c]] = c
=============================================================================
