--------------------------- MODULE EventBusProofs ---------------------------
(***************************************************************************)
(* Proofs about EventBus for every finite set of publishers and            *)
(* subscriptions, every behaviour of the handlers and every size of the    *)
(* semaphore.                                                              *)
(***************************************************************************)
EXTENDS EventBus, FiniteSetTheorems, SequenceTheorems, TLAPS

\* What the proofs ask of the constants; a nested call is not a top-level one.
Constants ==
    /\ IsFiniteSet(Publishers) /\ IsFiniteSet(Subs)
    /\ AsyncSubs \subseteq Subs /\ Transient \subseteq Subs
    /\ AsyncCalls \subseteq Publishers
    /\ Publishers \cap Nested = {}
    /\ SemCap \in Nat
    /\ Initial \in Seq(Subs)

DeliveryStates == {"none", "run", "backoff", "retry", "done"}
CallStates == {"idle", "spawned", "loop", "returned", "errored", "panicked"}
Handling == {"run", "retry"}

\* The handlers that run, the delivery goroutines and the PublishAsync ones.
Handlers == Cardinality(DeliveriesIn(Handling))
Goroutines == Cardinality(DeliveriesIn(ActiveDelivery))
Background == Cardinality(BackgroundCalls)

Move(d, l) == delivery' = [delivery EXCEPT ![d] = l]
Turn(c, l) == call' = [call EXCEPT ![c] = l]

\* The part of TypeOK that counting needs.
Types ==
    /\ delivery \in [AllDeliveries -> DeliveryStates]
    /\ call \in [Calls -> CallStates]
    /\ asyncSem \in 0..SemCap
    /\ asyncWG \in Int
    /\ drain \in {"idle", "waiting", "returned"}

\* The semaphore covers the handlers that run and the WaitGroup covers the
\* goroutines that are out.  Neither is an equality: a retry keeps its slot
\* for ever.
Covered ==
    /\ Handlers <= asyncSem
    /\ Goroutines + Background <= asyncWG

IInv == Types /\ Covered

LEMMA Finite ==
  ASSUME Constants
  PROVE  /\ IsFiniteSet(BackgroundCalls) /\ Cardinality(BackgroundCalls) \in Nat
         /\ Cardinality(BackgroundCalls) = 0 => BackgroundCalls = {}
         /\ \A S : /\ IsFiniteSet(DeliveriesIn(S)) /\ Cardinality(DeliveriesIn(S)) \in Nat
                   /\ Cardinality(DeliveriesIn(S)) = 0 => DeliveriesIn(S) = {}
<1>1. IsFiniteSet(AsyncSubs) /\ IsFiniteSet(AsyncCalls)
  BY FS_Subset DEF Constants
<1>2. IsFiniteSet(Deliveries)
  BY <1>1, FS_Product DEF Constants, Deliveries
<1>3. IsFiniteSet(Nested)
  BY <1>2, FS_Subset DEF Nested
<1>4. IsFiniteSet(Nested \X AsyncSubs)
  BY <1>1, <1>3, FS_Product
<1>5. IsFiniteSet(AllDeliveries)
  BY <1>2, <1>4, FS_Union DEF AllDeliveries
<1>6. IsFiniteSet(BackgroundCalls)
  BY <1>1, FS_Subset DEF BackgroundCalls
<1>7. ASSUME NEW S PROVE IsFiniteSet(DeliveriesIn(S))
  BY <1>5, FS_Subset DEF DeliveriesIn
<1>. QED
  BY <1>6, <1>7, FS_CardinalityType, FS_EmptySet

\* How the move of one delivery changes the number of those in a set of states.
LEMMA StateMove ==
  ASSUME Constants, delivery \in [AllDeliveries -> DeliveryStates],
         NEW S, NEW d \in AllDeliveries, NEW l \in DeliveryStates, Move(d, l)
  PROVE  /\ Cardinality(DeliveriesIn(S)') = Cardinality(DeliveriesIn(S))
              + (IF l \in S THEN 1 ELSE 0) - (IF delivery[d] \in S THEN 1 ELSE 0)
         /\ delivery[d] \in S => Cardinality(DeliveriesIn(S)) > 0
<1>. DEFINE D == DeliveriesIn(S)
<1>1. D' = IF l \in S THEN D \cup {d} ELSE D \ {d}
  BY DEF DeliveriesIn, Move
<1>2. d \in D <=> delivery[d] \in S
  BY DEF DeliveriesIn
<1>3. IsFiniteSet(D) /\ Cardinality(D) \in Nat /\ (Cardinality(D) = 0 => D = {})
  BY Finite
<1>4. /\ Cardinality(D \cup {d}) = IF d \in D THEN Cardinality(D) ELSE Cardinality(D) + 1
      /\ Cardinality(D \ {d}) = IF d \in D THEN Cardinality(D) - 1 ELSE Cardinality(D)
  BY <1>3, FS_AddElement, FS_RemoveElement
<1>. HIDE DEF D
<1>5. /\ Cardinality(D') = Cardinality(D)
           + (IF l \in S THEN 1 ELSE 0) - (IF delivery[d] \in S THEN 1 ELSE 0)
      /\ delivery[d] \in S => Cardinality(D) > 0
  BY <1>1, <1>2, <1>3, <1>4
<1>. QED
  BY <1>5 DEF D

LEMMA DeliveryMove ==
  ASSUME Constants, delivery \in [AllDeliveries -> DeliveryStates],
         NEW d \in AllDeliveries, NEW l \in DeliveryStates, Move(d, l)
  PROVE  /\ Handlers' = Handlers
              + (IF l \in Handling THEN 1 ELSE 0) - (IF delivery[d] \in Handling THEN 1 ELSE 0)
         /\ delivery[d] \in Handling => Handlers > 0
         /\ Goroutines' = Goroutines
              + (IF l \in ActiveDelivery THEN 1 ELSE 0) - (IF delivery[d] \in ActiveDelivery THEN 1 ELSE 0)
         /\ delivery' \in [AllDeliveries -> DeliveryStates]
<1>1. delivery' \in [AllDeliveries -> DeliveryStates]
  BY DEF Move
<1>2. /\ Handlers' = Handlers
           + (IF l \in Handling THEN 1 ELSE 0) - (IF delivery[d] \in Handling THEN 1 ELSE 0)
      /\ delivery[d] \in Handling => Handlers > 0
  BY StateMove DEF Handlers
<1>3. Goroutines' = Goroutines
        + (IF l \in ActiveDelivery THEN 1 ELSE 0) - (IF delivery[d] \in ActiveDelivery THEN 1 ELSE 0)
  BY StateMove DEF Goroutines
<1>. QED
  BY <1>1, <1>2, <1>3

\* The same for the PublishAsync goroutines.
LEMMA CallMove ==
  ASSUME Constants, call \in [Calls -> CallStates], NEW c \in Calls, NEW l \in CallStates,
         Turn(c, l)
  PROVE  /\ c \notin AsyncCalls => Background' = Background
         /\ c \in AsyncCalls => Background' = Background
              + (IF l \in ActiveCall THEN 1 ELSE 0) - (IF call[c] \in ActiveCall THEN 1 ELSE 0)
         /\ call' \in [Calls -> CallStates]
<1>. DEFINE B == BackgroundCalls
<1>1. c \notin AsyncCalls => B' = B
  BY DEF BackgroundCalls, Constants, Calls, Turn
<1>2. ASSUME c \in AsyncCalls
      PROVE  B' = IF l \in ActiveCall THEN B \cup {c} ELSE B \ {c}
  BY <1>2 DEF BackgroundCalls, Constants, Calls, Turn
<1>3. ASSUME c \in AsyncCalls PROVE c \in B <=> call[c] \in ActiveCall
  BY <1>3 DEF BackgroundCalls
<1>4. IsFiniteSet(B) /\ Cardinality(B) \in Nat
  BY Finite
<1>5. /\ Cardinality(B \cup {c}) = IF c \in B THEN Cardinality(B) ELSE Cardinality(B) + 1
      /\ Cardinality(B \ {c}) = IF c \in B THEN Cardinality(B) - 1 ELSE Cardinality(B)
  BY <1>4, FS_AddElement, FS_RemoveElement
<1>. HIDE DEF B
<1>6. ASSUME c \in AsyncCalls
      PROVE  Cardinality(B') = Cardinality(B)
               + (IF l \in ActiveCall THEN 1 ELSE 0) - (IF call[c] \in ActiveCall THEN 1 ELSE 0)
  <2>1. B' = IF l \in ActiveCall THEN B \cup {c} ELSE B \ {c}
    BY <1>2, <1>6
  <2>2. c \in B <=> call[c] \in ActiveCall
    BY <1>3, <1>6
  <2>. QED
    BY <1>4, <1>5, <2>1, <2>2
<1>7. call' \in [Calls -> CallStates]
  BY DEF Turn
<1>. QED
  BY <1>1, <1>6, <1>7 DEF B, Background

LEMMA InitIInv == ASSUME Constants, Init PROVE IInv
<1>1. DeliveriesIn(Handling) = {} /\ DeliveriesIn(ActiveDelivery) = {}
  BY DEF Init, DeliveriesIn, Handling, ActiveDelivery
<1>2. BackgroundCalls = {}
  BY DEF Init, BackgroundCalls, ActiveCall, Calls, Constants
<1>3. Covered
  BY <1>1, <1>2, FS_EmptySet DEF Init, Covered, Handlers, Goroutines, Background
<1>. QED
  BY <1>3 DEF Init, IInv, Types, DeliveryStates, CallStates, Constants

LEMMA NextIInv == ASSUME Constants, IInv, [Next]_vars PROVE IInv'
<1>. USE DEF IInv, Types, Covered
<1>0. Handlers \in Nat /\ Goroutines \in Nat /\ Background \in Nat /\ SemCap \in Nat
  BY Finite DEF Constants, Handlers, Goroutines, Background
<1>1. UNCHANGED delivery => Handlers' = Handlers /\ Goroutines' = Goroutines
  BY DEF DeliveriesIn, Handlers, Goroutines
<1>2. UNCHANGED call => Background' = Background
  BY DEF BackgroundCalls, Background
<1>3. ASSUME UNCHANGED <<delivery, call, asyncSem, asyncWG>>, drain' \in {"idle", "waiting", "returned"}
      PROVE  IInv'
  BY <1>1, <1>2, <1>3
<1>4. ASSUME NEW s \in Transient, Subscribe(s) \/ Unsubscribe(s) PROVE IInv'
  BY <1>3, <1>4 DEF Subscribe, Unsubscribe
<1>5. CASE DrainCall \/ DrainReturn
  BY <1>3, <1>5 DEF DrainCall, DrainReturn
<1>6. ASSUME NEW c \in Calls, NEW s \in Subs, SyncOk(c, s) PROVE IInv'
  BY <1>3, <1>6 DEF SyncOk
<1>7. ASSUME NEW c \in Calls, PublishAsync(c) PROVE IInv'
  <2>1. c \in AsyncCalls /\ call[c] = "idle" /\ Turn(c, "spawned")
        /\ asyncWG' = asyncWG + 1 /\ UNCHANGED <<delivery, asyncSem, drain>>
    BY <1>7 DEF PublishAsync, Turn
  <2>2. Background' = Background + 1
    BY <1>0, <2>1, CallMove DEF ActiveCall, CallStates
  <2>3. call' \in [Calls -> CallStates]
    BY <2>1, CallMove DEF CallStates
  <2>. QED
    BY <1>0, <1>1, <2>1, <2>2, <2>3
<1>8. ASSUME NEW c \in Calls, PublishBegin(c) PROVE IInv'
  <2>1. Turn(c, "loop") /\ (c \in AsyncCalls => call[c] = "spawned")
        /\ UNCHANGED <<delivery, asyncSem, asyncWG, drain>>
    BY <1>8 DEF PublishBegin, Constants, Turn
  <2>2. Background' = Background
    BY <1>0, <2>1, CallMove DEF ActiveCall, CallStates
  <2>3. call' \in [Calls -> CallStates]
    BY <2>1, CallMove DEF CallStates
  <2>. QED
    BY <1>0, <1>1, <2>1, <2>2, <2>3
<1>9. ASSUME NEW c \in Calls,
             PublishEnd(c) \/ (\E s \in Subs : SyncFails(c, s) \/ SyncPanics(c, s))
      PROVE  IInv'
  <2>1. PICK how \in {"returned", "errored", "panicked"} : call[c] = "loop" /\ Turn(c, how)
    BY <1>9 DEF PublishEnd, SyncFails, SyncPanics, Next1, Return, Turn
  <2>2. UNCHANGED <<delivery, asyncSem, drain>>
    BY <1>9 DEF PublishEnd, SyncFails, SyncPanics
  <2>3. Background' = (IF c \in AsyncCalls THEN Background - 1 ELSE Background)
    BY <1>0, <2>1, CallMove DEF ActiveCall, CallStates
  <2>4. call' \in [Calls -> CallStates]
    BY <2>1, CallMove DEF CallStates
  <2>5. asyncWG' = (IF c \in AsyncCalls THEN asyncWG - 1 ELSE asyncWG)
    BY <1>9 DEF PublishEnd, SyncFails, SyncPanics, Return
  <2>. QED
    BY <1>0, <1>1, <2>2, <2>3, <2>4, <2>5
<1>10. ASSUME NEW c \in Calls, NEW s \in Subs, DispatchAsync(c, s) PROVE IInv'
  <2>1. <<c, s>> \in AllDeliveries
    BY <1>10 DEF DispatchAsync, AllDeliveries, Deliveries, Calls
  <2>2. Move(<<c, s>>, "run") /\ asyncSem < SemCap
        /\ asyncSem' = asyncSem + 1 /\ asyncWG' = asyncWG + 1 /\ UNCHANGED <<call, drain>>
    BY <1>10 DEF DispatchAsync, Move
  <2>3. Handlers' \in {Handlers, Handlers + 1}
    BY <1>0, <2>1, <2>2, DeliveryMove DEF Handling, DeliveryStates
  <2>4. Goroutines' \in {Goroutines, Goroutines + 1}
    BY <1>0, <2>1, <2>2, DeliveryMove DEF ActiveDelivery, DeliveryStates
  <2>5. delivery' \in [AllDeliveries -> DeliveryStates]
    BY <2>1, <2>2, DeliveryMove DEF DeliveryStates
  <2>6. Background' = Background
    BY <1>2, <2>2
  <2>7. Covered'
    <3>1. Handlers' <= asyncSem'
      BY <1>0, <2>2, <2>3
    <3>2. Goroutines' + Background' <= asyncWG'
      <4>1. asyncWG' = asyncWG + 1
        BY <2>2
      <4>2. CASE Goroutines' = Goroutines
        BY <1>0, <2>6, <4>1, <4>2
      <4>3. CASE Goroutines' = Goroutines + 1
        BY <1>0, <2>6, <4>1, <4>3
      <4>. QED
        BY <2>4, <4>2, <4>3
    <3>. QED
      BY <3>1, <3>2
  <2>8. Types'
    BY <1>0, <2>2, <2>5
  <2>. QED
    BY <2>7, <2>8
<1>11. ASSUME NEW d \in AllDeliveries, HandlerOk(d) \/ HandlerPanics(d) PROVE IInv'
  <2>1. delivery[d] = "run" /\ Move(d, "done")
        /\ asyncSem' = asyncSem - 1 /\ asyncWG' = asyncWG - 1 /\ UNCHANGED <<call, drain>>
    BY <1>11 DEF HandlerOk, HandlerPanics, FinishDelivery, Move
  <2>2. Handlers' = Handlers - 1 /\ Handlers > 0
    BY <1>0, <2>1, DeliveryMove DEF Handling, DeliveryStates
  <2>3. Goroutines' = Goroutines - 1
    BY <1>0, <2>1, DeliveryMove DEF ActiveDelivery, DeliveryStates
  <2>4. delivery' \in [AllDeliveries -> DeliveryStates]
    BY <2>1, DeliveryMove DEF DeliveryStates
  <2>. QED
    BY <1>0, <1>2, <2>1, <2>2, <2>3, <2>4
<1>12. ASSUME NEW d \in AllDeliveries, HandlerFails(d) PROVE IInv'
  <2>1. delivery[d] = "run" /\ Move(d, "backoff")
        /\ asyncSem' = asyncSem - 1 /\ UNCHANGED <<call, drain, asyncWG>>
    BY <1>12 DEF HandlerFails, Move
  <2>2. Handlers' = Handlers - 1 /\ Handlers > 0
    BY <1>0, <2>1, DeliveryMove DEF Handling, DeliveryStates
  <2>3. Goroutines' = Goroutines
    BY <1>0, <2>1, DeliveryMove DEF ActiveDelivery, DeliveryStates
  <2>4. delivery' \in [AllDeliveries -> DeliveryStates]
    BY <2>1, DeliveryMove DEF DeliveryStates
  <2>. QED
    BY <1>0, <1>2, <2>1, <2>2, <2>3, <2>4
<1>13. ASSUME NEW d \in AllDeliveries, BackoffCanceled(d) \/ RetryOk(d) \/ RetryFails(d) PROVE IInv'
  <2>1. delivery[d] \in {"backoff", "retry"} /\ Move(d, "done")
        /\ asyncWG' = asyncWG - 1 /\ UNCHANGED <<call, drain, asyncSem>>
    BY <1>13 DEF BackoffCanceled, RetryOk, RetryFails, FinishDelivery, Move
  <2>2. Handlers' <= Handlers /\ Handlers' \in Int
    BY <1>0, <2>1, DeliveryMove DEF Handling, DeliveryStates
  <2>3. Goroutines' = Goroutines - 1
    BY <1>0, <2>1, DeliveryMove DEF ActiveDelivery, DeliveryStates
  <2>4. delivery' \in [AllDeliveries -> DeliveryStates]
    BY <2>1, DeliveryMove DEF DeliveryStates
  <2>. QED
    BY <1>0, <1>2, <2>1, <2>2, <2>3, <2>4
<1>14. ASSUME NEW d \in AllDeliveries, RetryAcquire(d) PROVE IInv'
  <2>1. delivery[d] = "backoff" /\ Move(d, "retry")
        /\ asyncSem < SemCap /\ asyncSem' = asyncSem + 1 /\ UNCHANGED <<call, drain, asyncWG>>
    BY <1>14 DEF RetryAcquire, Move
  <2>2. Handlers' = Handlers + 1
    BY <1>0, <2>1, DeliveryMove DEF Handling, DeliveryStates
  <2>3. Goroutines' = Goroutines
    BY <1>0, <2>1, DeliveryMove DEF ActiveDelivery, DeliveryStates
  <2>4. delivery' \in [AllDeliveries -> DeliveryStates]
    BY <2>1, DeliveryMove DEF DeliveryStates
  <2>. QED
    BY <1>0, <1>2, <2>1, <2>2, <2>3, <2>4
<1>15. CASE UNCHANGED vars
  BY <1>3, <1>15 DEF vars
<1>. QED
  BY <1>4, <1>5, <1>6, <1>7, <1>8, <1>9, <1>10, <1>11, <1>12, <1>13, <1>14, <1>15
     DEF Next, CallStep, DeliveryStep

\* The worker limit of the bus: however retries, panics and nested publishes
\* interleave, at most SemCap (DefaultAsyncWorkers) async handlers run at once.
THEOREM WorkersBounded ==
  ASSUME Constants
  PROVE  Spec => [](HandlersBounded /\ asyncSem <= SemCap)
<1>1. Init => IInv
  BY InitIInv
<1>2. IInv /\ [Next]_vars => IInv'
  BY NextIInv
<1>3. IInv => HandlersBounded /\ asyncSem <= SemCap
  BY DEF IInv, Types, Covered, HandlersBounded, Handlers, Handling, Constants
<1>. QED
  BY <1>1, <1>2, <1>3, PTL DEF Spec

\* Drain "waits for all in-flight async handlers": when it returns, no handler,
\* no backoff and no PublishAsync goroutine is left, whoever publishes what
\* while it waits.
THEOREM DrainIsExact == ASSUME Constants PROVE Spec => [][DrainWaitsForAll]_vars
<1>1. Init => IInv
  BY InitIInv
<1>2. IInv /\ [Next]_vars => IInv'
  BY NextIInv
<1>3. IInv /\ [Next]_vars => [DrainWaitsForAll]_vars
  <2>. SUFFICES ASSUME IInv, [Next]_vars, drain = "waiting", drain' = "returned"
                PROVE  DeliveriesIn(ActiveDelivery) = {} /\ BackgroundCalls = {}
    BY DEF DrainWaitsForAll
  <2>1. DrainReturn
    BY DEF Next, vars, Subscribe, Unsubscribe, CallStep, DeliveryStep, PublishAsync, PublishBegin,
           PublishEnd, DispatchAsync, SyncOk, SyncFails, SyncPanics, HandlerOk, HandlerPanics,
           HandlerFails, BackoffCanceled, RetryAcquire, RetryOk, RetryFails, FinishDelivery, DrainCall
  <2>2. Goroutines \in Nat /\ Background \in Nat
    BY Finite DEF Goroutines, Background
  <2>3. Goroutines = 0 /\ Background = 0
    BY <2>1, <2>2 DEF DrainReturn, IInv, Types, Covered
  <2>. QED
    BY <2>3, Finite DEF Goroutines, Background
<1>. QED
  BY <1>1, <1>2, <1>3, PTL DEF Spec

-----------------------------------------------------------------------------
\* Unsubscribe moves the last subscription into the hole it makes, so only the
\* one it was called for is gone.
LEMMA SwapRemoves ==
  ASSUME subscriptions \in Seq(Subs), NEW s \in Subs, Unsubscribe(s)
  PROVE  /\ subscriptions' \in Seq(Subs)
         /\ \A x \in Registered \ {s} : x \in Registered'
<1>. DEFINE n == Len(subscriptions)
            i == CHOOSE k \in 1..n : subscriptions[k] = s
            m == [subscriptions EXCEPT ![i] = subscriptions[n]]
<1>1. i \in 1..n /\ subscriptions[i] = s
  BY DEF Unsubscribe, Registered
<1>2. subscriptions' = SubSeq(m, 1, n - 1)
  BY DEF Unsubscribe
<1>. HIDE DEF i
<1>3. n \in Nat \ {0} /\ DOMAIN subscriptions = 1..n
  BY <1>1
<1>4. m \in Seq(Subs) /\ Len(m) = n
  BY <1>1, <1>3
<1>5. /\ SubSeq(m, 1, n - 1) \in Seq(Subs) /\ Len(SubSeq(m, 1, n - 1)) = n - 1
      /\ \A k \in 1..(n - 1) : SubSeq(m, 1, n - 1)[k] = m[k]
  BY <1>3, <1>4
<1>6. ASSUME NEW x \in Registered \ {s} PROVE x \in Registered'
  <2>1. PICK k \in 1..n : subscriptions[k] = x
    BY <1>3 DEF Registered
  <2>2. k # i
    BY <1>1, <2>1
  <2>3. CASE k < n
    <3>1. k \in 1..(n - 1) /\ m[k] = x
      BY <1>3, <2>1, <2>2, <2>3
    <3>. QED
      BY <1>2, <1>5, <3>1 DEF Registered
  <2>4. CASE k = n
    <3>1. i \in 1..(n - 1) /\ m[i] = x
      BY <1>1, <1>3, <2>1, <2>2, <2>4
    <3>. QED
      BY <1>2, <1>5, <3>1 DEF Registered
  <2>5. k < n \/ k = n
    OBVIOUS
  <2>. QED
    BY <2>3, <2>4, <2>5
<1>. QED
  BY <1>2, <1>5, <1>6

\* Subscribe and Unsubscribe: a subscription made while the modules start, and
\* that nobody removes, is never lost, whichever event streams come and go.
THEOREM SubscriptionsKept == ASSUME Constants PROVE Spec => []NoSubscriptionLost
<1>. DEFINE Inv == subscriptions \in Seq(Subs) /\ NoSubscriptionLost
<1>1. Init => Inv
  BY DEF Init, Constants, NoSubscriptionLost, Registered
<1>2. Inv /\ [Next]_vars => Inv'
  <2>. SUFFICES ASSUME Inv, [Next]_vars PROVE Inv'
    OBVIOUS
  <2>1. CASE UNCHANGED subscriptions
    BY <2>1 DEF NoSubscriptionLost, Registered
  <2>2. ASSUME NEW s \in Transient, Subscribe(s) PROVE Inv'
    <3>1. s \in Subs /\ subscriptions' = Append(subscriptions, s)
      BY <2>2 DEF Subscribe, Constants
    <3>2. subscriptions' \in Seq(Subs)
      BY <3>1
    <3>3. \A x \in Registered : x \in Registered'
      BY <3>1 DEF Registered
    <3>. QED
      BY <3>2, <3>3 DEF NoSubscriptionLost
  <2>3. ASSUME NEW s \in Transient, Unsubscribe(s) PROVE Inv'
    <3>1. s \in Subs
      BY DEF Constants
    <3>2. subscriptions' \in Seq(Subs) /\ \A x \in Registered \ {s} : x \in Registered'
      BY <2>3, <3>1, SwapRemoves
    <3>. QED
      BY <3>2 DEF NoSubscriptionLost
  <2>. QED
    BY <2>1, <2>2, <2>3
       DEF Next, vars, CallStep, DeliveryStep, PublishAsync, PublishBegin, PublishEnd, DispatchAsync,
           SyncOk, SyncFails, SyncPanics, HandlerOk, HandlerPanics, HandlerFails, BackoffCanceled,
           RetryAcquire, RetryOk, RetryFails, FinishDelivery, DrainCall, DrainReturn
<1>3. Inv => NoSubscriptionLost
  OBVIOUS
<1>. QED
  BY <1>1, <1>2, <1>3, PTL DEF Spec
=============================================================================
