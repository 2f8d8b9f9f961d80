-------------------------- MODULE AgentLinkProofs --------------------------
(***************************************************************************)
(* Proofs about AgentLink for every finite set of connections and          *)
(* requests, and every number of agents, handlers and calls of Stop.       *)
(***************************************************************************)
EXTENDS AgentLink, FiniteSetTheorems, TLAPS

\* What the proofs ask of the constants.
Constants ==
    /\ None \notin Conns
    /\ IsFiniteSet(Conns) /\ IsFiniteSet(Pings)
    /\ Pings \subseteq Reqs
    /\ ToServer \in [Reqs -> Servers]

LoopStates == {"new", "handshake", "refused", "up", "closed", "forgot", "swept", "gone"}
CallStates == {"idle", "get", "registered", "waiting", "done"}

\* The master's part of TypeOK.
MasterType ==
    /\ closed \in BOOLEAN
    /\ agents \in [Servers -> Conns \cup {None}]
    /\ wg \in Int
    /\ beat \in {"off", "on", "done"}
    /\ stop \in [Stoppers -> {"idle", "waiting", "returned"}]
    /\ loop \in [Conns -> LoopStates]
    /\ open \in [Conns -> BOOLEAN]
    /\ pending \in [Conns -> SUBSET Reqs]
    /\ call \in [Reqs -> CallStates]
    /\ target \in [Reqs -> Conns \cup {None}]
    /\ chan \in [Reqs -> {"empty", "full", "closed"}]

LEMMA InitType == ASSUME Constants, Init PROVE MasterType
<1>1. open \in [Conns -> BOOLEAN] /\ closed \in BOOLEAN
  BY Zenon DEF Init
<1>2. pending \in [Conns -> SUBSET Reqs]
  BY DEF Init
<1>. QED
  BY <1>1, <1>2 DEF Init, MasterType, LoopStates, CallStates

LEMMA NextType == ASSUME Constants, MasterType, [Next]_vars PROVE MasterType'
<1>. USE DEF Constants, MasterType, LoopStates, CallStates, Advance, Goto, Finish,
             master, conn, send, agent, wire
<1>1. ASSUME NEW c \in Conns, Refuse(c) \/ Register(c) \/ Forget(c) PROVE MasterType'
  <2>1. ServerOf[c] \in Servers
    BY DEF Servers
  <2>2. CASE Refuse(c)
    BY <2>2 DEF Refuse
  <2>3. CASE Register(c)
    BY <2>1, <2>3 DEF Register
  <2>4. CASE Forget(c)
    BY <2>1, <2>4 DEF Forget
  <2>. QED
    BY <1>1, <2>2, <2>3, <2>4
<1>2. ASSUME NEW c \in Conns, Sweep(c) \/ LoopDone(c) PROVE MasterType'
  BY <1>2 DEF Sweep, LoopDone
<1>3. ASSUME NEW c \in Conns, NEW r \in Reqs, Deliver(c, r) PROVE MasterType'
  BY <1>3 DEF Deliver
<1>4. ASSUME NEW r \in Reqs, SendRegister(r) \/ SendEncode(r) \/ SendReceive(r) PROVE MasterType'
  BY <1>4 DEF SendRegister, SendEncode, SendReceive
<1>5. ASSUME HeartbeatExit \/ StartHeartbeat PROVE MasterType'
  BY <1>5 DEF HeartbeatExit, StartHeartbeat
<1>6. ASSUME NEW s \in Stoppers, StopReturn(s) \/ StopCall(s) PROVE MasterType'
  BY <1>6 DEF StopReturn, StopCall
<1>7. ASSUME NEW s \in Servers, NEW r \in Reqs,
             AgentRead(s, r) \/ AgentHandle(s, r) \/ AgentRespond(s, r)
      PROVE  MasterType'
  BY <1>7 DEF AgentRead, AgentHandle, AgentRespond
<1>8. ASSUME NEW c \in Conns, Dial(c) \/ ReadError(c) \/ HeartbeatDead(c) PROVE MasterType'
  BY <1>8 DEF Dial, ReadError, HeartbeatDead
<1>9. ASSUME NEW r \in Reqs, Get(r) \/ SendFails(r) \/ SendTimeout(r) PROVE MasterType'
  BY <1>9 DEF Get, SendFails, SendTimeout
<1>10. ASSUME NEW r \in Reqs, NEW c \in Conns, HeartbeatPing(r, c) PROVE MasterType'
  BY <1>10 DEF HeartbeatPing
<1>11. ASSUME NEW s \in Servers, AgentDrop(s) \/ AgentCrash(s) PROVE MasterType'
  BY <1>11 DEF AgentDrop, AgentCrash
<1>12. CASE UNCHANGED vars
  BY <1>12 DEF vars
<1>. QED
  BY <1>1, <1>2, <1>3, <1>4, <1>5, <1>6, <1>7, <1>8, <1>9, <1>10, <1>11, <1>12
     DEF Next, MasterStep, AgentStep

----------------------------------------------------------------------------
\* The table of pending requests and the calls of Send agree.  The last two
\* conjuncts are why removeAgent closes the socket before it sweeps: a
\* request reaches "waiting" only through an open socket, so its sweep is
\* still to come.
TableInv ==
    /\ \A c \in Conns : \A r \in pending[c] :
          target[r] = c /\ call[r] \in {"registered", "waiting"} /\ chan[r] = "empty"
    /\ \A r \in Reqs : call[r] \in {"idle", "get"} => chan[r] = "empty"
    /\ \A r \in Reqs : call[r] \in {"get", "registered", "waiting"} => target[r] \in Conns
    /\ \A r \in Reqs : call[r] \in {"registered", "waiting"} /\ chan[r] = "empty" =>
          r \in pending[target[r]]
    /\ \A c \in Conns : open[c] => loop[c] \in {"handshake", "up"}
    /\ \A r \in Reqs : call[r] = "waiting" /\ chan[r] = "empty" =>
          loop[target[r]] \notin {"swept", "gone"}

LEMMA InitTable == ASSUME Constants, Init PROVE TableInv
  BY DEF Init, TableInv

LEMMA NextTable == ASSUME Constants, MasterType, TableInv, [Next]_vars PROVE TableInv'
<1>. USE DEF Constants, MasterType, LoopStates, CallStates, Advance, Goto, Finish,
             master, conn, send, agent, wire, TableInv
<1>1. ASSUME NEW c \in Conns, Refuse(c) PROVE TableInv'
  BY <1>1 DEF Refuse
<1>2. ASSUME NEW c \in Conns, Register(c) PROVE TableInv'
  BY <1>2 DEF Register
<1>3. ASSUME NEW c \in Conns, Forget(c) PROVE TableInv'
  BY <1>3 DEF Forget
<1>4. ASSUME NEW c \in Conns, Sweep(c) PROVE TableInv'
  BY <1>4 DEF Sweep
<1>5. ASSUME NEW c \in Conns, LoopDone(c) PROVE TableInv'
  BY <1>5 DEF LoopDone
<1>6. ASSUME NEW c \in Conns, NEW r \in Reqs, Deliver(c, r) PROVE TableInv'
  BY <1>6 DEF Deliver
<1>7. ASSUME NEW r \in Reqs, SendRegister(r) PROVE TableInv'
  BY <1>7 DEF SendRegister
<1>8. ASSUME NEW r \in Reqs, SendEncode(r) PROVE TableInv'
  BY <1>8 DEF SendEncode
<1>9. ASSUME NEW r \in Reqs, SendReceive(r) PROVE TableInv'
  BY <1>9 DEF SendReceive
<1>10. ASSUME HeartbeatExit \/ StartHeartbeat PROVE TableInv'
  BY <1>10 DEF HeartbeatExit, StartHeartbeat
<1>11. ASSUME NEW s \in Stoppers, StopReturn(s) \/ StopCall(s) PROVE TableInv'
  BY <1>11 DEF StopReturn, StopCall
<1>12. ASSUME NEW s \in Servers, NEW r \in Reqs,
              AgentRead(s, r) \/ AgentHandle(s, r) \/ AgentRespond(s, r)
       PROVE  TableInv'
  BY <1>12 DEF AgentRead, AgentHandle, AgentRespond
<1>13. ASSUME NEW c \in Conns, Dial(c) PROVE TableInv'
  BY <1>13 DEF Dial
<1>14. ASSUME NEW c \in Conns, ReadError(c) \/ HeartbeatDead(c) PROVE TableInv'
  BY <1>14 DEF ReadError, HeartbeatDead
<1>15. ASSUME NEW r \in Reqs, Get(r) PROVE TableInv'
  BY <1>15 DEF Get
<1>16. ASSUME NEW r \in Reqs, SendFails(r) \/ SendTimeout(r) PROVE TableInv'
  BY <1>16 DEF SendFails, SendTimeout
<1>17. ASSUME NEW r \in Reqs, NEW c \in Conns, HeartbeatPing(r, c) PROVE TableInv'
  BY <1>17 DEF HeartbeatPing
<1>18. ASSUME NEW s \in Servers, AgentDrop(s) \/ AgentCrash(s) PROVE TableInv'
  BY <1>18 DEF AgentDrop, AgentCrash
<1>19. CASE UNCHANGED vars
  BY <1>19 DEF vars
<1>. QED
  BY <1>1, <1>2, <1>3, <1>4, <1>5, <1>6, <1>7, <1>8, <1>9, <1>10, <1>11, <1>12, <1>13,
     <1>14, <1>15, <1>16, <1>17, <1>18, <1>19
     DEF Next, MasterStep, AgentStep

\* Send, the read loop and removeAgent: a lost agent never leaves a caller to
\* its timeout, the read loop never blocks on or panics at a channel, and a
\* finished Send has left nothing in the table.
THEOREM CallersReleased ==
  ASSUME Constants
  PROVE  Spec => [](NoOrphanedSend /\ DeliveryNeverBlocks /\ NoLeakedEntry)
<1>1. Init => MasterType /\ TableInv
  BY InitType, InitTable
<1>2. MasterType /\ TableInv /\ [Next]_vars => (MasterType /\ TableInv)'
  BY NextType, NextTable
<1>3. MasterType /\ TableInv => NoOrphanedSend /\ DeliveryNeverBlocks /\ NoLeakedEntry
  BY DEF Constants, MasterType, CallStates, TableInv, NoOrphanedSend, DeliveryNeverBlocks, NoLeakedEntry
<1>. QED
  BY <1>1, <1>2, <1>3, PTL DEF Spec

----------------------------------------------------------------------------
\* wg counts the read loops, the pings and the heartbeat, and a Stop that has
\* returned found it at zero with closed set.
Running == {"up", "closed", "forgot", "swept"}
Over == {"idle", "done"}
Beating == IF beat = "on" THEN 1 ELSE 0
DrainInv ==
    /\ wg = Cardinality(Tracked) + Cardinality(PingsOut) + Beating
    /\ \A s \in Stoppers : stop[s] # "idle" => closed
    /\ \A s \in Stoppers : stop[s] = "returned" => wg = 0

\* The two sets are finite, and empty when nothing is in them.
LEMMA Counts ==
  ASSUME Constants
  PROVE  /\ IsFiniteSet(Tracked) /\ Cardinality(Tracked) \in Nat
         /\ IsFiniteSet(PingsOut) /\ Cardinality(PingsOut) \in Nat
         /\ Cardinality(Tracked) = 0 => Tracked = {}
         /\ Cardinality(PingsOut) = 0 => PingsOut = {}
<1>1. IsFiniteSet(Tracked) /\ IsFiniteSet(PingsOut)
  BY FS_Subset DEF Constants, Tracked, PingsOut
<1>. QED
  BY <1>1, FS_CardinalityType, FS_EmptySet

\* How one connection's move changes the number of read loops.
LEMMA LoopMove ==
  ASSUME Constants, loop \in [Conns -> LoopStates], NEW c \in Conns, NEW l \in LoopStates,
         Advance(c, l)
  PROVE  /\ Cardinality(Tracked') = Cardinality(Tracked)
              + (IF l \in Running THEN 1 ELSE 0) - (IF loop[c] \in Running THEN 1 ELSE 0)
         /\ loop[c] \in Running => Cardinality(Tracked) > 0
<1>1. Tracked' = IF l \in Running THEN Tracked \cup {c} ELSE Tracked \ {c}
  BY DEF Tracked, Advance, Running
<1>2. c \in Tracked <=> loop[c] \in Running
  BY DEF Tracked, Running
<1>3. IsFiniteSet(Tracked) /\ Cardinality(Tracked) \in Nat /\ (Cardinality(Tracked) = 0 => Tracked = {})
  BY Counts
<1>4. /\ Cardinality(Tracked \cup {c}) = IF c \in Tracked THEN Cardinality(Tracked) ELSE Cardinality(Tracked) + 1
      /\ Cardinality(Tracked \ {c}) = IF c \in Tracked THEN Cardinality(Tracked) - 1 ELSE Cardinality(Tracked)
  BY <1>3, FS_AddElement, FS_RemoveElement
<1>. QED
  BY <1>1, <1>2, <1>3, <1>4

\* How one request's move changes the number of pings that are out.
LEMMA CallMove ==
  ASSUME Constants, call \in [Reqs -> CallStates], NEW r \in Reqs, NEW l \in CallStates,
         Goto(r, l)
  PROVE  /\ r \notin Pings => PingsOut' = PingsOut
         /\ r \in Pings => Cardinality(PingsOut') = Cardinality(PingsOut)
              + (IF l \in Over THEN 0 ELSE 1) - (IF call[r] \in Over THEN 0 ELSE 1)
         /\ r \in Pings /\ call[r] \notin Over => Cardinality(PingsOut) > 0
<1>1. r \notin Pings => PingsOut' = PingsOut
  BY DEF PingsOut, Goto, Constants
<1>2. r \in Pings => PingsOut' = IF l \in Over THEN PingsOut \ {r} ELSE PingsOut \cup {r}
  BY DEF PingsOut, Goto, Constants, Over
<1>3. r \in PingsOut <=> r \in Pings /\ call[r] \notin Over
  BY DEF PingsOut, Over
<1>4. IsFiniteSet(PingsOut) /\ Cardinality(PingsOut) \in Nat /\ (Cardinality(PingsOut) = 0 => PingsOut = {})
  BY Counts
<1>5. /\ Cardinality(PingsOut \cup {r}) = IF r \in PingsOut THEN Cardinality(PingsOut) ELSE Cardinality(PingsOut) + 1
      /\ Cardinality(PingsOut \ {r}) = IF r \in PingsOut THEN Cardinality(PingsOut) - 1 ELSE Cardinality(PingsOut)
  BY <1>4, FS_AddElement, FS_RemoveElement
<1>6. ASSUME r \in Pings, l \in Over
      PROVE  Cardinality(PingsOut') = Cardinality(PingsOut) - (IF call[r] \in Over THEN 0 ELSE 1)
  <2>1. PingsOut' = PingsOut \ {r}
    BY <1>2, <1>6
  <2>2. r \in PingsOut <=> call[r] \notin Over
    BY <1>3, <1>6
  <2>. QED
    BY <1>4, <1>5, <2>1, <2>2
<1>7. ASSUME r \in Pings, l \notin Over
      PROVE  Cardinality(PingsOut') = Cardinality(PingsOut) + 1 - (IF call[r] \in Over THEN 0 ELSE 1)
  <2>1. PingsOut' = PingsOut \cup {r}
    BY <1>2, <1>7
  <2>2. r \in PingsOut <=> call[r] \notin Over
    BY <1>3, <1>7
  <2>. QED
    BY <1>4, <1>5, <2>1, <2>2
<1>8. r \in Pings /\ call[r] \notin Over => Cardinality(PingsOut) > 0
  BY <1>3, <1>4
<1>. QED
  BY <1>1, <1>4, <1>6, <1>7, <1>8

LEMMA InitDrain == ASSUME Constants, Init PROVE DrainInv
<1>1. Tracked = {} /\ PingsOut = {}
  BY DEF Init, Tracked, PingsOut, Constants
<1>. QED
  BY <1>1, FS_EmptySet DEF Init, DrainInv, Beating

LEMMA NextDrain == ASSUME Constants, MasterType, DrainInv, [Next]_vars PROVE DrainInv'
<1>. USE DEF MasterType, DrainInv, master, conn, send, agent, wire
<1>. DEFINE T == Cardinality(Tracked)
            P == Cardinality(PingsOut)
<1>0. T \in Nat /\ P \in Nat
  BY Counts
<1>1. UNCHANGED loop => Tracked' = Tracked
  BY DEF Tracked
<1>2. UNCHANGED call => PingsOut' = PingsOut
  BY DEF PingsOut
<1>3. ASSUME NEW c \in Conns, Register(c) PROVE DrainInv'
  <2>1. Advance(c, "up") /\ loop[c] = "handshake" /\ UNCHANGED call
    BY <1>3 DEF Register
  <2>2. T' = T + 1
    BY <2>1, <1>0, LoopMove DEF LoopStates, Running
  <2>. QED
    BY <1>0, <1>2, <1>3, <2>1, <2>2 DEF Register, Beating
<1>4. ASSUME NEW c \in Conns, LoopDone(c) PROVE DrainInv'
  <2>1. Advance(c, "gone") /\ loop[c] = "swept" /\ UNCHANGED call
    BY <1>4 DEF LoopDone
  <2>2. T' = T - 1 /\ T > 0
    BY <2>1, <1>0, LoopMove DEF LoopStates, Running
  <2>. QED
    BY <1>0, <1>2, <1>4, <2>1, <2>2 DEF LoopDone, Beating
<1>5. ASSUME NEW c \in Conns, Refuse(c) \/ Forget(c) \/ Sweep(c) \/ Dial(c) \/ ReadError(c) PROVE DrainInv'
  <2>1. PICK l \in LoopStates : Advance(c, l) /\ (l \in Running <=> loop[c] \in Running)
    BY <1>5 DEF Refuse, Forget, Sweep, Dial, ReadError, LoopStates, Running
  <2>2. T' = T
    BY <2>1, <1>0, LoopMove
  <2>. QED
    BY <1>0, <1>2, <1>5, <2>2 DEF Refuse, Forget, Sweep, Dial, ReadError, Beating
<1>6. ASSUME NEW r \in Reqs, Get(r) \/ SendRegister(r) \/ SendEncode(r) PROVE DrainInv'
  <2>1. PICK l \in CallStates : Goto(r, l) /\ (r \in Pings => (l \in Over <=> call[r] \in Over))
    BY <1>6 DEF Get, SendRegister, SendEncode, CallStates, Over
  <2>2. P' = P
    BY <2>1, <1>0, CallMove
  <2>. QED
    BY <1>0, <1>1, <1>6, <2>2 DEF Get, SendRegister, SendEncode, Beating
<1>7. ASSUME NEW r \in Reqs, SendFails(r) \/ SendReceive(r) \/ SendTimeout(r) PROVE DrainInv'
  <2>1. Goto(r, "done") /\ call[r] \notin Over /\ UNCHANGED <<loop, beat, closed, stop>>
        /\ wg' = IF r \in Pings THEN wg - 1 ELSE wg
    BY <1>7 DEF SendFails, SendReceive, SendTimeout, Finish, Over
  <2>2. P' = (IF r \in Pings THEN P - 1 ELSE P) /\ (r \in Pings => P > 0)
    BY <2>1, <1>0, CallMove DEF CallStates, Over
  <2>. QED
    BY <1>0, <1>1, <2>1, <2>2 DEF Beating
<1>8. ASSUME NEW r \in Reqs, NEW c \in Conns, HeartbeatPing(r, c) PROVE DrainInv'
  <2>1. Goto(r, "get") /\ call[r] = "idle" /\ r \in Pings /\ UNCHANGED loop
    BY <1>8 DEF HeartbeatPing
  <2>2. P' = P + 1
    BY <2>1, <1>0, CallMove DEF CallStates, Over
  <2>. QED
    BY <1>0, <1>1, <1>8, <2>1, <2>2 DEF HeartbeatPing, Beating
<1>9. CASE HeartbeatExit \/ StartHeartbeat
  BY <1>0, <1>1, <1>2, <1>9 DEF HeartbeatExit, StartHeartbeat, Beating
<1>10. ASSUME NEW s \in Stoppers, StopReturn(s) \/ StopCall(s) PROVE DrainInv'
  BY <1>0, <1>1, <1>2, <1>10 DEF StopReturn, StopCall, Beating
<1>11. ASSUME UNCHANGED <<loop, call, wg, beat, stop, closed>> PROVE DrainInv'
  BY <1>1, <1>2, <1>11 DEF Beating
<1>12. ASSUME NEW c \in Conns, HeartbeatDead(c) \/ (\E r \in Reqs : Deliver(c, r)) PROVE DrainInv'
  BY <1>11, <1>12 DEF HeartbeatDead, Deliver
<1>13. ASSUME NEW s \in Servers,
              \/ AgentDrop(s) \/ AgentCrash(s)
              \/ \E r \in Reqs : AgentRead(s, r) \/ AgentHandle(s, r) \/ AgentRespond(s, r)
       PROVE  DrainInv'
  BY <1>11, <1>13 DEF AgentDrop, AgentCrash, AgentRead, AgentHandle, AgentRespond
<1>14. CASE UNCHANGED vars
  BY <1>11, <1>14 DEF vars
<1>. QED
  BY <1>3, <1>4, <1>5, <1>6, <1>7, <1>8, <1>9, <1>10, <1>12, <1>13, <1>14
     DEF Next, MasterStep, AgentStep

\* Stop of AgentServer: once a call of it has returned, no read loop, no ping
\* and no heartbeat is left and none is started any more, however many calls
\* of Stop meet.
THEOREM StopIsFinal == ASSUME Constants PROVE Spec => []StopDrains
<1>1. Init => MasterType /\ DrainInv
  BY InitType, InitDrain
<1>2. MasterType /\ DrainInv /\ [Next]_vars => (MasterType /\ DrainInv)'
  BY NextType, NextDrain
<1>3. MasterType /\ DrainInv => StopDrains
  <2>. SUFFICES ASSUME MasterType, DrainInv, NEW s \in Stoppers, stop[s] = "returned"
                PROVE  Tracked = {} /\ PingsOut = {} /\ beat # "on"
    BY DEF StopDrains
  <2>1. Cardinality(Tracked) \in Nat /\ Cardinality(PingsOut) \in Nat /\ Beating \in {0, 1}
    BY Counts DEF Beating
  <2>2. Cardinality(Tracked) + Cardinality(PingsOut) + Beating = 0
    BY DEF DrainInv
  <2>3. Cardinality(Tracked) = 0 /\ Cardinality(PingsOut) = 0 /\ Beating = 0
    BY <2>1, <2>2
  <2>. QED
    BY <2>3, Counts DEF Beating
<1>. QED
  BY <1>1, <1>2, <1>3, PTL DEF Spec
============================================================================
