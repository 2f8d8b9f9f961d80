---------------------------- MODULE TenantQueue ----------------------------
(***************************************************************************)
(* The per-tenant build queue, internal/build/tenant_queue.go.             *)
(*                                                                         *)
(* A job is one call of Submit together with the goroutine it spawns; a    *)
(* stopper is one call of Shutdown.  The two counting semaphores (buffered *)
(* channels of empty structs) and the WaitGroup are modelled by counters,  *)
(* as they are anonymous in the code; who holds what is the program        *)
(* counter of the job.  A Go select with several ready cases picks any of  *)
(* them, so a waiting Submit may still take a slot after Shutdown.         *)
(***************************************************************************)
EXTENDS Integers, FiniteSets

CONSTANTS Jobs,          \* calls of Submit
          Tenants,
          TenantOf,      \* the tenantID argument of each call
          Hung,          \* the jobs whose fn never returns (a wedged build)
          Cancelable,    \* the jobs whose ctx may end while Submit waits
          Stoppers,      \* calls of Shutdown
          GlobalCap,     \* globalCap argument of NewTenantQueue, any integer
          PerTenantCap   \* perTenantCap argument of NewTenantQueue

ASSUME TenantQueueAssumption ==
    /\ IsFiniteSet(Jobs)
    /\ TenantOf \in [Jobs -> Tenants]
    /\ Hung \subseteq Jobs
    /\ Cancelable \subseteq Jobs
    /\ GlobalCap \in Int
    /\ PerTenantCap \in Int

VARIABLES pc,        \* where each Submit call, then its goroutine, is
          tenant,    \* len of each tenant's channel
          global,    \* len of the global channel
          wg,        \* the WaitGroup counter
          closed,    \* closed, which is also stopCh being closed
          stop       \* where each Shutdown call is

vars == <<pc, tenant, global, wg, closed, stop>>

\* NewTenantQueue: a non-positive capacity is clamped to 1.
Clamp(n) == IF n < 1 THEN 1 ELSE n
globalCap == Clamp(GlobalCap)
perTenant == Clamp(PerTenantCap)

\* "tenant" waits for the tenant slot, "global" for the global one, "fn" runs,
\* "relGlobal"/"relTenant"/"done" are the deferred releases, "undo" gives the
\* tenant slot back after a refusal in phase 2, "refuse" is the last wg.Done.
PCs == {"idle", "tenant", "global", "fn", "relTenant", "wgDone", "ran",
        "undo", "refuse", "refused"}
Registered == {"tenant", "global", "fn", "relTenant", "wgDone", "undo", "refuse"}
HoldsTenant == {"global", "fn", "relTenant", "undo"}
HoldsGlobal == {"fn"}

TypeOK ==
    /\ pc \in [Jobs -> PCs]
    /\ tenant \in [Tenants -> 0..perTenant]
    /\ global \in 0..globalCap
    /\ wg \in Nat
    /\ closed \in BOOLEAN
    /\ stop \in [Stoppers -> {"idle", "waiting", "drained", "expired"}]

Init ==
    /\ pc = [j \in Jobs |-> "idle"]
    /\ tenant = [t \in Tenants |-> 0]
    /\ global = 0
    /\ wg = 0
    /\ closed = FALSE
    /\ stop = [s \in Stoppers |-> "idle"]
----------------------------------------------------------------------------
(* Submit *)

Goto(j, l) == pc' = [pc EXCEPT ![j] = l]

SubmitEnterMutant(j) ==          \* registers without looking at closed
    /\ pc[j] = "idle"
    /\ Goto(j, "tenant") /\ wg' = wg + 1
    /\ UNCHANGED <<tenant, global, closed, stop>>
\* The critical section: refuse when closed, else register with the WaitGroup.
SubmitEnter(j) ==
    /\ pc[j] = "idle"
    /\ IF closed
         THEN Goto(j, "refused") /\ UNCHANGED wg
         ELSE Goto(j, "tenant") /\ wg' = wg + 1
    /\ UNCHANGED <<tenant, global, closed, stop>>

\* Phase 1, the case that takes the tenant slot.
TakeTenantSlotMutant(j) ==       \* no per-tenant gate
    /\ pc[j] = "tenant"
    /\ Goto(j, "global")
    /\ tenant' = [tenant EXCEPT ![TenantOf[j]] = @ + 1]
    /\ UNCHANGED <<global, wg, closed, stop>>
TakeTenantSlot(j) ==
    /\ pc[j] = "tenant"
    /\ tenant[TenantOf[j]] < perTenant
    /\ Goto(j, "global")
    /\ tenant' = [tenant EXCEPT ![TenantOf[j]] = @ + 1]
    /\ UNCHANGED <<global, wg, closed, stop>>

\* Phase 1, the stopCh and ctx.Done cases.  A ctx may end at any moment, and
\* only a select looks at it, so its end is the choice of that case.
RefuseInPhase1Mutant(j) ==       \* does not watch stopCh
    /\ pc[j] = "tenant"
    /\ j \in Cancelable
    /\ Goto(j, "refuse")
    /\ UNCHANGED <<tenant, global, wg, closed, stop>>
RefuseInPhase1(j) ==
    /\ pc[j] = "tenant"
    /\ closed \/ j \in Cancelable
    /\ Goto(j, "refuse")
    /\ UNCHANGED <<tenant, global, wg, closed, stop>>

\* Phase 2, the case that takes the global slot and starts the goroutine.
TakeGlobalSlot(j) ==
    /\ pc[j] = "global"
    /\ global < globalCap
    /\ Goto(j, "fn")
    /\ global' = global + 1
    /\ UNCHANGED <<tenant, wg, closed, stop>>

\* Phase 2, the stopCh and ctx.Done cases.
RefuseInPhase2Mutant(j) ==       \* forgets to hand the tenant slot back
    /\ pc[j] = "global"
    /\ closed \/ j \in Cancelable
    /\ Goto(j, "refuse")
    /\ UNCHANGED <<tenant, global, wg, closed, stop>>
RefuseInPhase2(j) ==
    /\ pc[j] = "global"
    /\ closed \/ j \in Cancelable
    /\ Goto(j, "undo")
    /\ UNCHANGED <<tenant, global, wg, closed, stop>>

UndoTenantSlot(j) ==
    /\ pc[j] = "undo"
    /\ Goto(j, "refuse")
    /\ tenant' = [tenant EXCEPT ![TenantOf[j]] = @ - 1]
    /\ UNCHANGED <<global, wg, closed, stop>>

RefuseDone(j) ==
    /\ pc[j] = "refuse"
    /\ Goto(j, "refused")
    /\ wg' = wg - 1
    /\ UNCHANGED <<tenant, global, closed, stop>>
----------------------------------------------------------------------------
(* The goroutine: fn, whether it returns or panics, then the releases *)

FnReturns(j) ==
    /\ pc[j] = "fn"
    /\ j \notin Hung
    /\ Goto(j, "relTenant")
    /\ global' = global - 1
    /\ UNCHANGED <<tenant, wg, closed, stop>>

ReleaseTenantSlot(j) ==
    /\ pc[j] = "relTenant"
    /\ Goto(j, "wgDone")
    /\ tenant' = [tenant EXCEPT ![TenantOf[j]] = @ - 1]
    /\ UNCHANGED <<global, wg, closed, stop>>

GoroutineDone(j) ==
    /\ pc[j] = "wgDone"
    /\ Goto(j, "ran")
    /\ wg' = wg - 1
    /\ UNCHANGED <<tenant, global, closed, stop>>
----------------------------------------------------------------------------
(* Shutdown: close, then wait for the WaitGroup or for ctx *)

ShutdownClose(s) ==
    /\ stop[s] = "idle"
    /\ closed' = TRUE
    /\ stop' = [stop EXCEPT ![s] = "waiting"]
    /\ UNCHANGED <<pc, tenant, global, wg>>

ShutdownDrained(s) ==
    /\ stop[s] = "waiting"
    /\ wg = 0
    /\ stop' = [stop EXCEPT ![s] = "drained"]
    /\ UNCHANGED <<pc, tenant, global, wg, closed>>

ShutdownExpired(s) ==
    /\ stop[s] = "waiting"
    /\ stop' = [stop EXCEPT ![s] = "expired"]
    /\ UNCHANGED <<pc, tenant, global, wg, closed>>

SubmitStep(j) ==
    \/ SubmitEnter(j) \/ TakeTenantSlot(j) \/ RefuseInPhase1(j)
    \/ TakeGlobalSlot(j) \/ RefuseInPhase2(j) \/ UndoTenantSlot(j) \/ RefuseDone(j)

GoroutineStep(j) == FnReturns(j) \/ ReleaseTenantSlot(j) \/ GoroutineDone(j)

Next ==
    \/ \E j \in Jobs : SubmitStep(j) \/ GoroutineStep(j)
    \/ \E s \in Stoppers : ShutdownClose(s) \/ ShutdownDrained(s) \/ ShutdownExpired(s)

Spec == Init /\ [][Next]_vars

(***************************************************************************)
(* Fairness.  Go channels queue blocked senders first come first served,   *)
(* so a Submit that is offered a free slot again and again gets one:       *)
(* strong fairness on the two acquires.  A goroutine that can run does     *)
(* run, and a build that is not Hung returns: weak fairness on the rest.   *)
(* Nothing makes a caller cancel or Shutdown be called.                    *)
(***************************************************************************)
FairSpec ==
    /\ Spec
    /\ \A j \in Jobs :
         /\ SF_vars(TakeTenantSlot(j)) /\ SF_vars(TakeGlobalSlot(j))
         /\ WF_vars(closed /\ (RefuseInPhase1(j) \/ RefuseInPhase2(j)))
         /\ WF_vars(UndoTenantSlot(j) \/ RefuseDone(j))
         /\ WF_vars(GoroutineStep(j))
    /\ \A s \in Stoppers : WF_vars(ShutdownDrained(s))
----------------------------------------------------------------------------
(* Properties *)

Running(t) == {j \in Jobs : TenantOf[j] = t /\ pc[j] = "fn"}
InPhase(S) == {j \in Jobs : pc[j] \in S}
TenantHolders(t) == {j \in Jobs : TenantOf[j] = t /\ pc[j] \in HoldsTenant}

\* Every counter equals the number of jobs that own a unit of it, on every
\* path through Submit and the goroutine: no slot and no WaitGroup
\* registration is leaked or returned twice.
SlotAccounting ==
    /\ wg = Cardinality(InPhase(Registered))
    /\ global = Cardinality(InPhase(HoldsGlobal))
    /\ \A t \in Tenants : tenant[t] = Cardinality(TenantHolders(t))

\* At most globalCap builds run at once and at most perTenant of one tenant,
\* whatever order Submit, cancellation and Shutdown come in.
CapsRespected ==
    /\ Cardinality(InPhase({"fn"})) <= globalCap
    /\ \A t \in Tenants : Cardinality(Running(t)) <= perTenant

\* Once a Shutdown has returned nil no Submit is waiting, no build runs, and
\* both are so for ever: Submit registers before it releases mu, so "a racing
\* Shutdown" cannot return "before this job runs".
DrainedMeansQuiet ==
    (\E s \in Stoppers : stop[s] = "drained") =>
        closed /\ InPhase(Registered) = {}

\* The queue is a drain gate: no Submit registers once closed is set, closed is
\* never reset, and Shutdown returns nil only at a moment when every registered
\* Submit and every build is over.
Gate == INSTANCE DrainGate
          WITH Workers <- Jobs, open <- ~closed, inside <- InPhase(Registered),
               drained <- \E s \in Stoppers : stop[s] = "drained"
ImplementsDrainGate == Gate!Spec

\* A tenant with no wedged build is served however many builds of the others
\* hang, as long as the hanging tenants cannot fill the global channel: each
\* Submit ends with its build run or with an error.
HungTenants == {TenantOf[j] : j \in Hung}
HealthyTenantServed ==
    \A j \in Jobs :
        (pc[j] = "tenant" /\ TenantOf[j] \notin HungTenants)
            ~> (pc[j] \in {"ran", "refused"})

\* Shutdown releases every Submit blocked on either slot, even when the slots
\* are held by builds that never return.
ShutdownUnblocksSubmit ==
    closed ~> InPhase({"tenant", "global"}) = {}
============================================================================
