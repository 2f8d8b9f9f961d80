----------------------------- MODULE BuildPool -----------------------------
(***************************************************************************)
(* The pool that limits concurrent builds: WorkerPool of                   *)
(* src/internal/build/module.go.  A submission passes the closed check and *)
(* wg.Add under mu, then waits for a slot of sem, for stopCh or for its    *)
(* context; the job gives its slot back before it calls wg.Done.  The      *)
(* fields of wp are those of the struct; wp.job is where each submission   *)
(* is and wp.shutdown where the caller of Shutdown is.                     *)
(***************************************************************************)
EXTENDS Integers, FiniteSets, FiniteSetTheorems, TLAPS

CONSTANTS Jobs, maxWorkers

VARIABLE wp

NewWorkerPoolWithLogger == IF maxWorkers < 0 THEN 0 ELSE maxWorkers

Init == wp = [closed |-> FALSE, sem |-> 0, wg |-> 0,
              job |-> [j \in Jobs |-> "new"], shutdown |-> "no"]

SubmitCtxMutant(j) ==  \* the closed flag is not looked at
    /\ wp.job[j] = "new"
    /\ wp' = [wp EXCEPT !.job[j] = "waiting", !.wg = @ + 1]

SubmitCtx(j) ==
    /\ wp.job[j] = "new"
    /\ wp' = IF wp.closed THEN [wp EXCEPT !.job[j] = "refused"]
             ELSE [wp EXCEPT !.job[j] = "waiting", !.wg = @ + 1]

(* The select that follows: a slot, stopCh, or the caller's context, which *)
(* may end at any time.                                                    *)
Acquire(j) ==
    /\ wp.job[j] = "waiting" /\ wp.sem < NewWorkerPoolWithLogger
    /\ wp' = [wp EXCEPT !.job[j] = "running", !.sem = @ + 1]

GiveUp(j) ==
    /\ wp.job[j] = "waiting"
    /\ wp' = [wp EXCEPT !.job[j] = "refused", !.wg = @ - 1]

(* fn returns or panics; the deferred function frees the slot first.       *)
Free(j) ==
    /\ wp.job[j] = "running"
    /\ wp' = [wp EXCEPT !.job[j] = "freed", !.sem = @ - 1]

Done(j) ==
    /\ wp.job[j] = "freed"
    /\ wp' = [wp EXCEPT !.job[j] = "done", !.wg = @ - 1]

Shutdown ==
    /\ wp.shutdown = "no"
    /\ wp' = [wp EXCEPT !.closed = TRUE, !.shutdown = "waiting"]

Return ==
    /\ wp.shutdown = "waiting"
    /\ \/ wp.wg = 0 /\ wp' = [wp EXCEPT !.shutdown = "drained"]
       \/ wp' = [wp EXCEPT !.shutdown = "deadline"]

Next ==
    \/ \E j \in Jobs : SubmitCtx(j) \/ Acquire(j) \/ GiveUp(j) \/ Free(j) \/ Done(j)
    \/ Shutdown \/ Return

Spec == Init /\ [][Next]_wp

(* The goroutines that Stop or Shutdown waits for; once it has returned    *)
(* without giving up at its deadline, none is at work.                     *)
Inside == {j \in Jobs : wp.job[j] \in {"waiting", "running", "freed"}}
Drained == wp.shutdown = "drained" => Inside = {} /\ wp.sem = 0

----------------------------------------------------------------------------
(***************************************************************************)
(* The proof, for every finite set of submissions and every number of      *)
(* workers.                                                                *)
(***************************************************************************)

Places == {"new", "waiting", "running", "freed", "refused", "done"}
Holding == {"running"}                       \* the states with a slot of sem
Counted == {"waiting", "running", "freed"}   \* the states wg counts
Stops == {"no", "waiting", "drained", "deadline"}

At(S) == {j \in Jobs : wp.job[j] \in S}

Typed == wp \in [closed : BOOLEAN, sem : Int, wg : Int, job : [Jobs -> Places], shutdown : Stops]

(* sem and wg are exact counts, which is why a drained pool is empty; no   *)
(* submission is let in once Shutdown has been called.                     *)
Exact == /\ wp.sem = Cardinality(At(Holding)) /\ wp.sem <= NewWorkerPoolWithLogger
         /\ wp.wg = Cardinality(At(Counted))
Shut == /\ wp.shutdown # "no" => wp.closed = TRUE
        /\ wp.shutdown = "drained" => wp.wg = 0

IInv == Typed /\ Exact /\ Shut

(* What a step does to the fields: job j goes to place l.                  *)
Moved(j, l, sem, wg) ==
    /\ wp' \in [closed : BOOLEAN, sem : Int, wg : Int, job : [Jobs -> Places], shutdown : Stops]
    /\ wp'.job = [wp.job EXCEPT ![j] = l] /\ wp'.sem = sem /\ wp'.wg = wg
    /\ wp'.closed = wp.closed /\ wp'.shutdown = wp.shutdown

(* The counters follow the move, the cap holds, and the pool is open to    *)
(* what comes in.                                                          *)
Balanced(j, l, sem, wg) ==
    /\ sem = wp.sem + (IF l \in Holding THEN 1 ELSE 0) - (IF wp.job[j] \in Holding THEN 1 ELSE 0)
    /\ wg = wp.wg + (IF l \in Counted THEN 1 ELSE 0) - (IF wp.job[j] \in Counted THEN 1 ELSE 0)
    /\ sem <= NewWorkerPoolWithLogger
    /\ l \in Counted /\ wp.job[j] \notin Counted => wp.closed = FALSE

LEMMA Update ==
    ASSUME Typed, NEW j \in Jobs, NEW l \in Places, NEW sem \in Int, NEW wg \in Int,
           wp' = [wp EXCEPT !.job[j] = l, !.sem = sem, !.wg = wg]
    PROVE  Moved(j, l, sem, wg)
<1> DEFINE f == [wp.job EXCEPT ![j] = l]
<1>1. f \in [Jobs -> Places]
  BY DEF Typed
<1>2. wp' = [wp EXCEPT !.job = f, !.sem = sem, !.wg = wg]
  BY DEF Typed
<1> HIDE DEF f
<1>3. /\ wp'.job = f /\ wp'.sem = sem /\ wp'.wg = wg
      /\ wp'.closed = wp.closed /\ wp'.shutdown = wp.shutdown
  BY <1>2 DEF Typed
<1>4. wp' \in [closed : BOOLEAN, sem : Int, wg : Int, job : [Jobs -> Places], shutdown : Stops]
  BY <1>1, <1>2 DEF Typed
<1> QED
  BY <1>3, <1>4 DEF Moved, f

LEMMA AtFinite ==
    ASSUME IsFiniteSet(Jobs), NEW S
    PROVE  IsFiniteSet(At(S)) /\ Cardinality(At(S)) \in Nat /\ (Cardinality(At(S)) = 0 => At(S) = {})
<1>1. IsFiniteSet(At(S))
  BY FS_Subset DEF At
<1> QED
  BY <1>1, FS_CardinalityType, FS_EmptySet

(* How the move of one job changes the number of those in a set of places. *)
LEMMA CountMove ==
    ASSUME IsFiniteSet(Jobs), Typed, NEW j \in Jobs, NEW l, NEW sem, NEW wg, Moved(j, l, sem, wg), NEW S
    PROVE  Cardinality(At(S)') = Cardinality(At(S))
             + (IF l \in S THEN 1 ELSE 0) - (IF wp.job[j] \in S THEN 1 ELSE 0)
<1> DEFINE D == At(S)
<1>1. D' = IF l \in S THEN D \cup {j} ELSE D \ {j}
  BY DEF At, Moved, Typed
<1>2. j \in D <=> wp.job[j] \in S
  BY DEF At
<1>3. IsFiniteSet(D) /\ Cardinality(D) \in Nat
  BY AtFinite
<1>4. /\ Cardinality(D \cup {j}) = IF j \in D THEN Cardinality(D) ELSE Cardinality(D) + 1
      /\ Cardinality(D \ {j}) = IF j \in D THEN Cardinality(D) - 1 ELSE Cardinality(D)
  BY <1>3, FS_AddElement, FS_RemoveElement
<1> HIDE DEF D
<1>5. Cardinality(D') = Cardinality(D) + (IF l \in S THEN 1 ELSE 0) - (IF wp.job[j] \in S THEN 1 ELSE 0)
  BY <1>1, <1>2, <1>3, <1>4
<1> QED
  BY <1>5 DEF D

(* A move that keeps the counts exact keeps IInv; one into the pool needs  *)
(* the pool open.                                                          *)
LEMMA MoveIInv ==
    ASSUME IsFiniteSet(Jobs), IInv, NEW j \in Jobs, NEW l \in Places, NEW sem, NEW wg,
           Moved(j, l, sem, wg),
           Balanced(j, l, sem, wg)
    PROVE  IInv'
<1>1. Typed'
  BY DEF Moved, Typed
<1>2. /\ Cardinality(At(Holding)') = sem /\ Cardinality(At(Counted)') = wg
  BY CountMove DEF IInv, Exact, Balanced
<1>3. Exact'
  BY <1>2 DEF Exact, Moved, Balanced, At, Holding, Counted
<1>4. wp.shutdown = "drained" => wg = 0
  <2> SUFFICES ASSUME wp.shutdown = "drained" PROVE wg = 0
    OBVIOUS
  <2>1. wp.wg = 0 /\ wp.closed = TRUE /\ At(Counted) = {}
    BY AtFinite DEF IInv, Shut, Exact
  <2>2. wp.job[j] \notin Counted
    BY <2>1 DEF At
  <2> QED
    BY <2>1, <2>2 DEF Balanced
<1>5. Shut'
  BY <1>4 DEF IInv, Shut, Moved
<1> QED
  BY <1>1, <1>3, <1>5 DEF IInv

LEMMA InitIInv ==
    ASSUME maxWorkers \in Int, Init
    PROVE  IInv
<1>1. Typed /\ Shut
  BY DEF Init, Typed, Shut, Places, Stops
<1>2. At(Holding) = {} /\ At(Counted) = {}
  BY DEF Init, At, Holding, Counted
<1> QED
  BY <1>1, <1>2, FS_EmptySet DEF IInv, Exact, Init, NewWorkerPoolWithLogger

LEMMA NextIInv ==
    ASSUME IsFiniteSet(Jobs), maxWorkers \in Int, IInv, [Next]_wp
    PROVE  IInv'
<1>0. Typed /\ NewWorkerPoolWithLogger \in Int
  BY DEF IInv, NewWorkerPoolWithLogger
<1>1. ASSUME NEW j \in Jobs, SubmitCtx(j)
      PROVE  IInv'
  <2>1. CASE wp.closed
    <3>1. Moved(j, "refused", wp.sem, wp.wg)
      <4>1. wp' = [wp EXCEPT !.job[j] = "refused", !.sem = wp.sem, !.wg = wp.wg]
        BY <1>0, <1>1, <2>1 DEF SubmitCtx, Typed
      <4>2. "refused" \in Places /\ wp.sem \in Int /\ wp.wg \in Int
        BY <1>0 DEF Typed, Places
      <4> QED
        BY <1>0, <4>1, <4>2, Update
    <3>3. Balanced(j, "refused", wp.sem, wp.wg) /\ "refused" \in Places
      BY <1>0, <1>1, <2>1 DEF SubmitCtx, Balanced, IInv, Exact, Typed, Places, Holding, Counted
    <3> QED
      BY <3>1, <3>3, MoveIInv
  <2>2. CASE ~wp.closed
    <3>1. Moved(j, "waiting", wp.sem, wp.wg + 1)
      <4>1. wp' = [wp EXCEPT !.job[j] = "waiting", !.sem = wp.sem, !.wg = wp.wg + 1]
        BY <1>0, <1>1, <2>2 DEF SubmitCtx, Typed
      <4>2. "waiting" \in Places /\ wp.sem \in Int /\ wp.wg + 1 \in Int
        BY <1>0 DEF Typed, Places
      <4> QED
        BY <1>0, <4>1, <4>2, Update
    <3>3. Balanced(j, "waiting", wp.sem, wp.wg + 1) /\ "waiting" \in Places
      BY <1>0, <1>1, <2>2 DEF SubmitCtx, Balanced, IInv, Exact, Typed, Places, Holding, Counted
    <3> QED
      BY <3>1, <3>3, MoveIInv
  <2> QED
    BY <2>1, <2>2
<1>2. ASSUME NEW j \in Jobs, Acquire(j)
      PROVE  IInv'
  <2>1. Moved(j, "running", wp.sem + 1, wp.wg)
    <3>1. wp' = [wp EXCEPT !.job[j] = "running", !.sem = wp.sem + 1, !.wg = wp.wg]
      BY <1>0, <1>2 DEF Acquire, Typed
    <3>2. "running" \in Places /\ wp.sem + 1 \in Int /\ wp.wg \in Int
      BY <1>0 DEF Typed, Places
    <3> QED
      BY <1>0, <3>1, <3>2, Update
  <2>3. Balanced(j, "running", wp.sem + 1, wp.wg) /\ "running" \in Places
    BY <1>0, <1>2 DEF Acquire, Balanced, IInv, Exact, Typed, Places, Holding, Counted
  <2> QED
    BY <2>1, <2>3, MoveIInv
<1>3. ASSUME NEW j \in Jobs, GiveUp(j)
      PROVE  IInv'
  <2>1. Moved(j, "refused", wp.sem, wp.wg - 1)
    <3>1. wp' = [wp EXCEPT !.job[j] = "refused", !.sem = wp.sem, !.wg = wp.wg - 1]
      BY <1>0, <1>3 DEF GiveUp, Typed
    <3>2. "refused" \in Places /\ wp.sem \in Int /\ wp.wg - 1 \in Int
      BY <1>0 DEF Typed, Places
    <3> QED
      BY <1>0, <3>1, <3>2, Update
  <2>3. Balanced(j, "refused", wp.sem, wp.wg - 1) /\ "refused" \in Places
    BY <1>0, <1>3 DEF GiveUp, Balanced, IInv, Exact, Typed, Places, Holding, Counted
  <2> QED
    BY <2>1, <2>3, MoveIInv
<1>4. ASSUME NEW j \in Jobs, Free(j)
      PROVE  IInv'
  <2>1. Moved(j, "freed", wp.sem - 1, wp.wg)
    <3>1. wp' = [wp EXCEPT !.job[j] = "freed", !.sem = wp.sem - 1, !.wg = wp.wg]
      BY <1>0, <1>4 DEF Free, Typed
    <3>2. "freed" \in Places /\ wp.sem - 1 \in Int /\ wp.wg \in Int
      BY <1>0 DEF Typed, Places
    <3> QED
      BY <1>0, <3>1, <3>2, Update
  <2>3. Balanced(j, "freed", wp.sem - 1, wp.wg) /\ "freed" \in Places
    BY <1>0, <1>4 DEF Free, Balanced, IInv, Exact, Typed, Places, Holding, Counted
  <2> QED
    BY <2>1, <2>3, MoveIInv
<1>5. ASSUME NEW j \in Jobs, Done(j)
      PROVE  IInv'
  <2>1. Moved(j, "done", wp.sem, wp.wg - 1)
    <3>1. wp' = [wp EXCEPT !.job[j] = "done", !.sem = wp.sem, !.wg = wp.wg - 1]
      BY <1>0, <1>5 DEF Done, Typed
    <3>2. "done" \in Places /\ wp.sem \in Int /\ wp.wg - 1 \in Int
      BY <1>0 DEF Typed, Places
    <3> QED
      BY <1>0, <3>1, <3>2, Update
  <2>3. Balanced(j, "done", wp.sem, wp.wg - 1) /\ "done" \in Places
    BY <1>0, <1>5 DEF Done, Balanced, IInv, Exact, Typed, Places, Holding, Counted
  <2> QED
    BY <2>1, <2>3, MoveIInv
<1>6. CASE Shutdown \/ Return \/ UNCHANGED wp
  <2>1. /\ wp'.job = wp.job /\ wp'.sem = wp.sem /\ wp'.wg = wp.wg /\ Typed'
    BY <1>0, <1>6 DEF Shutdown, Return, Typed, Stops
  <2>2. Exact'
    BY <2>1 DEF IInv, Exact, At
  <2>3. Shut'
    BY <1>0, <1>6 DEF IInv, Shutdown, Return, Shut, Typed
  <2> QED
    BY <2>1, <2>2, <2>3 DEF IInv
<1> QED
  BY <1>1, <1>2, <1>3, <1>4, <1>5, <1>6 DEF Next

(* SubmitCtx and Shutdown: at most maxWorkers builds run, and when         *)
(* Shutdown has returned without an error no goroutine of the pool is left *)
(* and none comes.                                                         *)
THEOREM PoolDrained ==
    ASSUME IsFiniteSet(Jobs), maxWorkers \in Int
    PROVE  Spec => [](Drained /\ Cardinality({j \in Jobs : wp.job[j] = "running"}) <= NewWorkerPoolWithLogger)
<1>1. Init => IInv
  BY InitIInv
<1>2. IInv /\ [Next]_wp => IInv'
  BY NextIInv
<1>3. IInv => Drained /\ Cardinality({j \in Jobs : wp.job[j] = "running"}) <= NewWorkerPoolWithLogger
  <2> SUFFICES ASSUME IInv
               PROVE  Drained /\ Cardinality({j \in Jobs : wp.job[j] = "running"}) <= NewWorkerPoolWithLogger
    OBVIOUS
  <2>1. At(Holding) = {j \in Jobs : wp.job[j] = "running"} /\ At(Holding) \subseteq At(Counted)
    BY DEF At, Holding, Counted
  <2>2. wp.shutdown = "drained" => At(Counted) = {} /\ At(Holding) = {}
    BY <2>1, AtFinite DEF IInv, Exact, Shut
  <2>3. Inside = At(Counted)
    BY DEF Inside, At, Counted
  <2>4. Drained
    BY <2>2, <2>3, FS_EmptySet DEF Drained, IInv, Exact
  <2> QED
    BY <2>1, <2>4 DEF IInv, Exact
<1> QED
  BY <1>1, <1>2, <1>3, PTL DEF Spec
============================================================================
