------------------------- MODULE TenantQueueProofs -------------------------
(***************************************************************************)
(* Proofs about TenantQueue for every finite set of Submit calls, every    *)
(* set of tenants and Shutdown calls and every pair of configured caps.    *)
(***************************************************************************)
EXTENDS TenantQueue, FiniteSetTheorems, TLAPS

\* Submit, the goroutine and Shutdown keep the queue's invariant.  The first
\* two conjuncts need each other: a release never drives a counter below zero
\* because the counter counts the releasing job.  The third says that a nil
\* return of Shutdown is final, as nobody registers once closed is set.
DrainFinal ==
    /\ \A s \in Stoppers : stop[s] # "idle" => closed
    /\ \A s \in Stoppers : stop[s] = "drained" => wg = 0

IInv == TypeOK /\ SlotAccounting /\ DrainFinal

\* The clamped capacities are positive, so no channel is unbuffered.
LEMMA CapsPositive == globalCap \in Nat \ {0} /\ perTenant \in Nat \ {0}
  BY TenantQueueAssumption DEF globalCap, perTenant, Clamp

\* How one job's move changes the number of jobs in a set of phases.
LEMMA PhaseMove ==
  ASSUME NEW S, NEW j \in Jobs, NEW l \in PCs, pc \in [Jobs -> PCs], Goto(j, l)
  PROVE  /\ Cardinality(InPhase(S)) \in Nat
         /\ Cardinality(InPhase(S)') =
              Cardinality(InPhase(S))
                + (IF l \in S THEN 1 ELSE 0) - (IF pc[j] \in S THEN 1 ELSE 0)
         /\ pc[j] \in S => Cardinality(InPhase(S)) > 0
<1>1. IsFiniteSet(InPhase(S))
  BY FS_Subset, TenantQueueAssumption DEF InPhase
<1>2. Cardinality(InPhase(S)) \in Nat
  BY <1>1, FS_CardinalityType
<1>3. pc[j] \in S => j \in InPhase(S)
  BY DEF InPhase
<1>4. pc[j] \in S => Cardinality(InPhase(S)) > 0
  BY <1>1, <1>2, <1>3, FS_EmptySet
<1>5. InPhase(S)' = IF l \in S THEN InPhase(S) \cup {j} ELSE InPhase(S) \ {j}
  BY DEF InPhase, Goto
<1>6. j \in InPhase(S) <=> pc[j] \in S
  BY DEF InPhase
<1>7. /\ Cardinality(InPhase(S) \cup {j}) = IF pc[j] \in S THEN Cardinality(InPhase(S)) ELSE Cardinality(InPhase(S)) + 1
      /\ Cardinality(InPhase(S) \ {j}) = IF pc[j] \in S THEN Cardinality(InPhase(S)) - 1 ELSE Cardinality(InPhase(S))
  BY <1>1, <1>6, FS_AddElement, FS_RemoveElement
<1>. QED
  BY <1>2, <1>4, <1>5, <1>7

\* The same for the jobs of one tenant that hold its slot.
LEMMA HolderMove ==
  ASSUME NEW t \in Tenants, NEW j \in Jobs, NEW l \in PCs, pc \in [Jobs -> PCs], Goto(j, l)
  PROVE  /\ Cardinality(TenantHolders(t)) \in Nat
         /\ Cardinality(TenantHolders(t)') =
              IF TenantOf[j] # t THEN Cardinality(TenantHolders(t))
              ELSE Cardinality(TenantHolders(t))
                     + (IF l \in HoldsTenant THEN 1 ELSE 0)
                     - (IF pc[j] \in HoldsTenant THEN 1 ELSE 0)
         /\ (TenantOf[j] = t /\ pc[j] \in HoldsTenant) => Cardinality(TenantHolders(t)) > 0
<1>. DEFINE H == TenantHolders(t)
<1>1. IsFiniteSet(H)
  BY FS_Subset, TenantQueueAssumption DEF TenantHolders
<1>2. Cardinality(H) \in Nat
  BY <1>1, FS_CardinalityType
<1>3. j \in H <=> (TenantOf[j] = t /\ pc[j] \in HoldsTenant)
  BY DEF TenantHolders
<1>4. j \in H => Cardinality(H) > 0
  BY <1>1, <1>2, FS_EmptySet
<1>5. H' = IF TenantOf[j] = t /\ l \in HoldsTenant THEN H \cup {j} ELSE H \ {j}
  BY DEF TenantHolders, Goto, HoldsTenant
<1>6. /\ Cardinality(H \cup {j}) = IF j \in H THEN Cardinality(H) ELSE Cardinality(H) + 1
      /\ Cardinality(H \ {j}) = IF j \in H THEN Cardinality(H) - 1 ELSE Cardinality(H)
  BY <1>1, FS_AddElement, FS_RemoveElement
<1>. QED
  BY <1>2, <1>3, <1>4, <1>5, <1>6

\* The queue starts empty and open.
LEMMA InitIInv == Init => IInv
<1>. SUFFICES ASSUME Init PROVE IInv
  OBVIOUS
<1>1. TypeOK
  <2>1. 0 \in 0..perTenant /\ 0 \in 0..globalCap /\ 0 \in Nat
    BY CapsPositive
  <2>. QED
    BY <2>1, Zenon DEF Init, TypeOK, PCs
<1>2. /\ InPhase(Registered) = {} /\ InPhase(HoldsGlobal) = {}
      /\ \A t \in Tenants : TenantHolders(t) = {}
  BY DEF Init, InPhase, TenantHolders, Registered, HoldsGlobal, HoldsTenant
<1>3. SlotAccounting
  BY <1>2, FS_EmptySet DEF Init, SlotAccounting
<1>4. DrainFinal
  BY DEF Init, DrainFinal
<1>. QED
  BY <1>1, <1>3, <1>4 DEF IInv

\* Every step of a Submit call or of its goroutine keeps the invariant.
LEMMA JobStep ==
  ASSUME IInv, NEW j \in Jobs, SubmitStep(j) \/ GoroutineStep(j)
  PROVE  IInv'
<1>. USE CapsPositive
<1>. DEFINE Move(l) ==
       /\ Cardinality(InPhase(Registered)') = Cardinality(InPhase(Registered))
            + (IF l \in Registered THEN 1 ELSE 0) - (IF pc[j] \in Registered THEN 1 ELSE 0)
       /\ Cardinality(InPhase(HoldsGlobal)') = Cardinality(InPhase(HoldsGlobal))
            + (IF l \in HoldsGlobal THEN 1 ELSE 0) - (IF pc[j] \in HoldsGlobal THEN 1 ELSE 0)
       /\ \A t \in Tenants : Cardinality(TenantHolders(t)') =
            IF TenantOf[j] # t THEN Cardinality(TenantHolders(t))
            ELSE Cardinality(TenantHolders(t))
                   + (IF l \in HoldsTenant THEN 1 ELSE 0)
                   - (IF pc[j] \in HoldsTenant THEN 1 ELSE 0)
       /\ pc[j] \in Registered => wg > 0
       /\ pc[j] \in HoldsGlobal => global > 0
       /\ pc[j] \in HoldsTenant => tenant[TenantOf[j]] > 0
<1>0. /\ TypeOK /\ SlotAccounting /\ DrainFinal /\ TenantOf[j] \in Tenants
  BY TenantQueueAssumption DEF IInv
<1>1. ASSUME NEW l \in PCs, Goto(j, l) PROVE Move(l)
  BY <1>0, <1>1, PhaseMove, HolderMove DEF TypeOK, SlotAccounting
<1>2. CASE SubmitEnter(j) /\ closed
  <2>1. Goto(j, "refused") /\ pc[j] = "idle" /\ UNCHANGED <<tenant, global, wg, closed, stop>>
    BY <1>2 DEF SubmitEnter
  <2>2. Move("refused")
    BY <1>1, <2>1 DEF PCs
  <2>. QED
    BY <1>0, <2>1, <2>2 DEF IInv, TypeOK, SlotAccounting, DrainFinal, Goto, PCs, Registered, HoldsGlobal, HoldsTenant
<1>3. CASE SubmitEnter(j) /\ ~closed
  <2>1. Goto(j, "tenant") /\ pc[j] = "idle" /\ wg' = wg + 1 /\ UNCHANGED <<tenant, global, closed, stop>>
    BY <1>3 DEF SubmitEnter
  <2>2. Move("tenant")
    BY <1>1, <2>1 DEF PCs
  <2>. QED
    BY <1>0, <1>3, <2>1, <2>2 DEF IInv, TypeOK, SlotAccounting, DrainFinal, Goto, PCs, Registered, HoldsGlobal, HoldsTenant
<1>4. CASE TakeTenantSlot(j)
  <2>1. Move("global") /\ Goto(j, "global")
    BY <1>1, <1>4 DEF PCs, TakeTenantSlot
  <2>. QED
    BY <1>0, <1>4, <2>1 DEF IInv, TakeTenantSlot, TypeOK, SlotAccounting, DrainFinal, Goto, PCs, Registered, HoldsGlobal, HoldsTenant
<1>5. CASE RefuseInPhase1(j)
  <2>1. Move("refuse") /\ Goto(j, "refuse")
    BY <1>1, <1>5 DEF PCs, RefuseInPhase1
  <2>. QED
    BY <1>0, <1>5, <2>1 DEF IInv, RefuseInPhase1, TypeOK, SlotAccounting, DrainFinal, Goto, PCs, Registered, HoldsGlobal, HoldsTenant
<1>6. CASE TakeGlobalSlot(j)
  <2>1. Move("fn") /\ Goto(j, "fn")
    BY <1>1, <1>6 DEF PCs, TakeGlobalSlot
  <2>. QED
    BY <1>0, <1>6, <2>1 DEF IInv, TakeGlobalSlot, TypeOK, SlotAccounting, DrainFinal, Goto, PCs, Registered, HoldsGlobal, HoldsTenant
<1>7. CASE RefuseInPhase2(j)
  <2>1. Move("undo") /\ Goto(j, "undo")
    BY <1>1, <1>7 DEF PCs, RefuseInPhase2
  <2>. QED
    BY <1>0, <1>7, <2>1 DEF IInv, RefuseInPhase2, TypeOK, SlotAccounting, DrainFinal, Goto, PCs, Registered, HoldsGlobal, HoldsTenant
<1>8. CASE UndoTenantSlot(j)
  <2>1. Move("refuse") /\ Goto(j, "refuse")
    BY <1>1, <1>8 DEF PCs, UndoTenantSlot
  <2>. QED
    BY <1>0, <1>8, <2>1 DEF IInv, UndoTenantSlot, TypeOK, SlotAccounting, DrainFinal, Goto, PCs, Registered, HoldsGlobal, HoldsTenant
<1>9. CASE RefuseDone(j)
  <2>1. Move("refused") /\ Goto(j, "refused")
    BY <1>1, <1>9 DEF PCs, RefuseDone
  <2>. QED
    BY <1>0, <1>9, <2>1 DEF IInv, RefuseDone, TypeOK, SlotAccounting, DrainFinal, Goto, PCs, Registered, HoldsGlobal, HoldsTenant
<1>10. CASE FnReturns(j)
  <2>1. Move("relTenant") /\ Goto(j, "relTenant")
    BY <1>1, <1>10 DEF PCs, FnReturns
  <2>. QED
    BY <1>0, <1>10, <2>1 DEF IInv, FnReturns, TypeOK, SlotAccounting, DrainFinal, Goto, PCs, Registered, HoldsGlobal, HoldsTenant
<1>11. CASE ReleaseTenantSlot(j)
  <2>1. Move("wgDone") /\ Goto(j, "wgDone")
    BY <1>1, <1>11 DEF PCs, ReleaseTenantSlot
  <2>. QED
    BY <1>0, <1>11, <2>1 DEF IInv, ReleaseTenantSlot, TypeOK, SlotAccounting, DrainFinal, Goto, PCs, Registered, HoldsGlobal, HoldsTenant
<1>12. CASE GoroutineDone(j)
  <2>1. Move("ran") /\ Goto(j, "ran")
    BY <1>1, <1>12 DEF PCs, GoroutineDone
  <2>. QED
    BY <1>0, <1>12, <2>1 DEF IInv, GoroutineDone, TypeOK, SlotAccounting, DrainFinal, Goto, PCs, Registered, HoldsGlobal, HoldsTenant
<1>. QED
  BY <1>2, <1>3, <1>4, <1>5, <1>6, <1>7, <1>8, <1>9, <1>10, <1>11, <1>12 DEF SubmitStep, GoroutineStep

\* Every step of a Shutdown call keeps the invariant.
LEMMA StopStep ==
  ASSUME IInv, NEW s \in Stoppers,
         ShutdownClose(s) \/ ShutdownDrained(s) \/ ShutdownExpired(s)
  PROVE  IInv'
<1>1. UNCHANGED <<pc, tenant, global, wg>>
  BY DEF ShutdownClose, ShutdownDrained, ShutdownExpired
<1>2. TypeOK'
  BY <1>1 DEF IInv, TypeOK, ShutdownClose, ShutdownDrained, ShutdownExpired
<1>3. SlotAccounting'
  BY <1>1 DEF IInv, SlotAccounting, InPhase, TenantHolders
<1>4. DrainFinal'
  BY DEF IInv, TypeOK, DrainFinal, ShutdownClose, ShutdownDrained, ShutdownExpired
<1>. QED
  BY <1>2, <1>3, <1>4 DEF IInv

\* A step that changes nothing keeps the invariant.
LEMMA StutterStep == IInv /\ UNCHANGED vars => IInv'
<1>. SUFFICES ASSUME IInv, UNCHANGED vars PROVE IInv'
  OBVIOUS
<1>1. TypeOK' /\ DrainFinal'
  BY DEF IInv, TypeOK, DrainFinal, vars
<1>2. SlotAccounting'
  BY DEF IInv, SlotAccounting, InPhase, TenantHolders, vars
<1>. QED
  BY <1>1, <1>2 DEF IInv

LEMMA IInvAlways == Spec => []IInv
<1>1. IInv /\ [Next]_vars => IInv'
  <2>. SUFFICES ASSUME IInv, [Next]_vars PROVE IInv'
    OBVIOUS
  <2>1. CASE \E j \in Jobs : SubmitStep(j) \/ GoroutineStep(j)
    BY <2>1, JobStep
  <2>2. CASE \E s \in Stoppers : ShutdownClose(s) \/ ShutdownDrained(s) \/ ShutdownExpired(s)
    BY <2>2, StopStep
  <2>3. CASE UNCHANGED vars
    BY <2>3, StutterStep
  <2>. QED
    BY <2>1, <2>2, <2>3 DEF Next
<1>. QED
  BY <1>1, InitIInv, PTL DEF Spec

\* TypeOK: in particular no channel is ever over its capacity or below zero.
THEOREM TypeCorrect == Spec => []TypeOK
<1>1. IInv => TypeOK
  BY DEF IInv
<1>. QED
  BY <1>1, IInvAlways, PTL

\* SlotAccounting: Submit and the goroutine neither leak nor double-release a
\* tenant slot, a global slot or a WaitGroup registration.
THEOREM SlotsNeverLeak == Spec => []SlotAccounting
<1>1. IInv => SlotAccounting
  BY DEF IInv
<1>. QED
  BY <1>1, IInvAlways, PTL

\* CapsRespected: the builds running at once fit the two configured caps.
THEOREM ConcurrencyBounded == Spec => []CapsRespected
<1>1. IInv => CapsRespected
  <2>. SUFFICES ASSUME IInv PROVE CapsRespected
    OBVIOUS
  <2>1. Cardinality(InPhase({"fn"})) <= globalCap
    BY DEF IInv, TypeOK, SlotAccounting, HoldsGlobal
  <2>2. ASSUME NEW t \in Tenants PROVE Cardinality(Running(t)) <= perTenant
    <3>1. Running(t) \subseteq TenantHolders(t)
      BY DEF Running, TenantHolders, HoldsTenant
    <3>2. IsFiniteSet(TenantHolders(t))
      BY FS_Subset, TenantQueueAssumption DEF TenantHolders
    <3>3. /\ Cardinality(Running(t)) <= Cardinality(TenantHolders(t))
          /\ Cardinality(Running(t)) \in Nat /\ Cardinality(TenantHolders(t)) \in Nat
      BY <3>1, <3>2, FS_Subset, FS_CardinalityType
    <3>4. Cardinality(TenantHolders(t)) <= perTenant
      BY DEF IInv, TypeOK, SlotAccounting
    <3>. QED
      BY <3>3, <3>4, CapsPositive
  <2>. QED
    BY <2>1, <2>2 DEF CapsRespected
<1>. QED
  BY <1>1, IInvAlways, PTL

\* DrainedMeansQuiet: a nil return of Shutdown really is the end of all work.
THEOREM DrainIsComplete == Spec => []DrainedMeansQuiet
<1>1. IInv => DrainedMeansQuiet
  <2>. SUFFICES ASSUME IInv, NEW s \in Stoppers, stop[s] = "drained"
                PROVE  closed /\ InPhase(Registered) = {}
    BY DEF DrainedMeansQuiet
  <2>1. closed /\ wg = 0
    BY DEF IInv, DrainFinal
  <2>2. IsFiniteSet(InPhase(Registered)) /\ Cardinality(InPhase(Registered)) = 0
    BY <2>1, FS_Subset, TenantQueueAssumption DEF InPhase, IInv, SlotAccounting
  <2>. QED
    BY <2>1, <2>2, FS_EmptySet
<1>. QED
  BY <1>1, IInvAlways, PTL
\* A job that moves between two phases of the same side of the gate leaves the
\* set of registered jobs alone; else it enters or leaves that set.
LEMMA RegisteredMove ==
  ASSUME NEW j \in Jobs, NEW l \in PCs, pc \in [Jobs -> PCs], Goto(j, l)
  PROVE  InPhase(Registered)' =
           IF l \in Registered THEN InPhase(Registered) \cup {j}
                               ELSE InPhase(Registered) \ {j}
  BY DEF InPhase, Goto

\* Every step of a Submit call or of its goroutine is a step of the gate.
LEMMA JobStepRefines ==
  ASSUME IInv, NEW j \in Jobs, SubmitStep(j) \/ GoroutineStep(j)
  PROVE  \/ Gate!Enter(j) \/ Gate!Leave(j)
         \/ UNCHANGED <<closed, stop, InPhase(Registered)>>
<1>. DEFINE R == InPhase(Registered)
<1>0. /\ pc \in [Jobs -> PCs] /\ UNCHANGED <<closed, stop>>
      /\ j \in R <=> pc[j] \in Registered
  BY DEF IInv, TypeOK, InPhase, SubmitStep, GoroutineStep, SubmitEnter, TakeTenantSlot,
         RefuseInPhase1, TakeGlobalSlot, RefuseInPhase2, UndoTenantSlot, RefuseDone,
         FnReturns, ReleaseTenantSlot, GoroutineDone
<1>1. CASE SubmitEnter(j) /\ closed
  <2>1. Goto(j, "refused") /\ pc[j] = "idle"
    BY <1>1 DEF SubmitEnter
  <2>2. R' = R \ {j}
    BY <1>0, <2>1, RegisteredMove DEF PCs, Registered
  <2>. QED
    BY <1>0, <2>1, <2>2 DEF Registered
<1>2. CASE SubmitEnter(j) /\ ~closed
  <2>1. Goto(j, "tenant") /\ pc[j] = "idle"
    BY <1>2 DEF SubmitEnter
  <2>2. R' = R \cup {j} /\ j \notin R
    BY <1>0, <2>1, RegisteredMove DEF PCs, Registered
  <2>. QED
    BY <1>0, <1>2, <2>2 DEF Gate!Enter
<1>3. CASE RefuseDone(j) \/ GoroutineDone(j)
  <2>1. PICK l \in {"refused", "ran"} : Goto(j, l)
    BY <1>3 DEF RefuseDone, GoroutineDone
  <2>2. R' = R \ {j} /\ j \in R
    BY <1>0, <1>3, <2>1, RegisteredMove DEF PCs, Registered, RefuseDone, GoroutineDone
  <2>. QED
    BY <1>0, <2>2 DEF Gate!Leave
<1>4. CASE \/ TakeTenantSlot(j) \/ RefuseInPhase1(j) \/ TakeGlobalSlot(j) \/ RefuseInPhase2(j)
           \/ UndoTenantSlot(j) \/ FnReturns(j) \/ ReleaseTenantSlot(j)
  <2>1. PICK l \in Registered : Goto(j, l)
    BY <1>4 DEF Registered, TakeTenantSlot, RefuseInPhase1, TakeGlobalSlot, RefuseInPhase2,
                UndoTenantSlot, FnReturns, ReleaseTenantSlot
  <2>2. pc[j] \in Registered
    BY <1>4 DEF Registered, TakeTenantSlot, RefuseInPhase1, TakeGlobalSlot, RefuseInPhase2,
                UndoTenantSlot, FnReturns, ReleaseTenantSlot
  <2>3. R' = R \cup {j}
    BY <1>0, <2>1, RegisteredMove DEF PCs, Registered
  <2>. QED
    BY <1>0, <2>2, <2>3
<1>. QED
  BY <1>1, <1>2, <1>3, <1>4 DEF SubmitStep, GoroutineStep

\* Every step of a Shutdown call is a step of the gate: the WaitGroup it waits
\* for counts exactly the jobs inside.
LEMMA StopStepRefines ==
  ASSUME IInv, NEW s \in Stoppers,
         ShutdownClose(s) \/ ShutdownDrained(s) \/ ShutdownExpired(s)
  PROVE  Gate!Close \/ Gate!Report \/ UNCHANGED Gate!gate
<1>. DEFINE told == \E r \in Stoppers : stop[r] = "drained"
<1>0. /\ InPhase(Registered)' = InPhase(Registered)
      /\ stop \in [Stoppers -> {"idle", "waiting", "drained", "expired"}]
  BY DEF IInv, TypeOK, InPhase, ShutdownClose, ShutdownDrained, ShutdownExpired
<1>1. CASE ShutdownClose(s)
  <2>1. told' = told
    BY <1>0, <1>1 DEF ShutdownClose
  <2>. QED
    BY <1>0, <1>1, <2>1 DEF ShutdownClose, Gate!Close
<1>2. CASE ShutdownDrained(s)
  <2>1. told' = TRUE
    BY <1>0, <1>2 DEF ShutdownDrained
  <2>2. closed /\ wg = 0 /\ closed' = closed
    BY <1>2 DEF ShutdownDrained, IInv, DrainFinal
  <2>3. IsFiniteSet(InPhase(Registered)) /\ Cardinality(InPhase(Registered)) = 0
    BY <2>2, FS_Subset, TenantQueueAssumption DEF InPhase, IInv, SlotAccounting
  <2>4. InPhase(Registered) = {}
    BY <2>3, FS_EmptySet
  <2>. QED
    BY <1>0, <2>1, <2>2, <2>4 DEF Gate!Report
<1>3. CASE ShutdownExpired(s)
  <2>1. told' = told
    BY <1>0, <1>3 DEF ShutdownExpired
  <2>. QED
    BY <1>0, <1>3, <2>1 DEF ShutdownExpired, Gate!gate
<1>. QED
  BY <1>1, <1>2, <1>3

\* ImplementsDrainGate: Submit, the build goroutines and Shutdown together are a
\* drain gate, for any number of them.
THEOREM QueueIsDrainGate == Spec => ImplementsDrainGate
<1>1. Init => Gate!Init
  <2>. SUFFICES ASSUME Init PROVE Gate!Init
    OBVIOUS
  <2>1. InPhase(Registered) = {}
    BY DEF Init, InPhase, Registered
  <2>2. ~closed = TRUE
    BY DEF Init
  <2>3. (\E s \in Stoppers : stop[s] = "drained") = FALSE
    BY DEF Init
  <2>. QED
    BY <2>1, <2>2, <2>3 DEF Gate!Init
<1>2. IInv /\ [Next]_vars => [Gate!Next]_(Gate!gate)
  <2>. SUFFICES ASSUME IInv, [Next]_vars PROVE Gate!Next \/ UNCHANGED Gate!gate
    OBVIOUS
  <2>1. ASSUME NEW j \in Jobs, SubmitStep(j) \/ GoroutineStep(j)
        PROVE  Gate!Next \/ UNCHANGED Gate!gate
    <3>1. CASE Gate!Enter(j) \/ Gate!Leave(j)
      BY <3>1 DEF Gate!Next
    <3>2. CASE UNCHANGED <<closed, stop, InPhase(Registered)>>
      BY <3>2 DEF Gate!gate
    <3>. QED
      BY <2>1, <3>1, <3>2, JobStepRefines
  <2>2. ASSUME NEW s \in Stoppers, ShutdownClose(s) \/ ShutdownDrained(s) \/ ShutdownExpired(s)
        PROVE  Gate!Next \/ UNCHANGED Gate!gate
    BY <2>2, StopStepRefines DEF Gate!Next
  <2>3. CASE UNCHANGED vars
    BY <2>3 DEF vars, Gate!gate, InPhase
  <2>. QED
    BY <2>1, <2>2, <2>3 DEF Next
<1>. QED
  BY <1>1, <1>2, IInvAlways, PTL DEF Spec, ImplementsDrainGate, Gate!Spec
============================================================================
