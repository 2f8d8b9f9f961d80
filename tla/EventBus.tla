------------------------------ MODULE EventBus ------------------------------
(***************************************************************************)
(* The event bus, internal/core/events.go.                                 *)
(*                                                                         *)
(* A call is one invocation of Publish, made directly or by the goroutine  *)
(* of PublishAsync; a delivery <<c, s>> is the goroutine that Publish call *)
(* c starts for async subscription s.  A handler may itself call Publish:  *)
(* that nested call is named by the delivery it is made from.  A handler   *)
(* returns nil, returns an error or panics, as the constants allow.        *)
(***************************************************************************)
EXTENDS Integers, Sequences, FiniteSets

CONSTANTS Publishers,   \* top-level calls
          AsyncCalls,   \* those of them made by PublishAsync
          Cancelable,   \* those of them whose ctx may end during a backoff
          Subs,         \* subscriptions
          AsyncSubs,    \* those registered with Async
          Fails,        \* those whose handler may return an error
          Panics,       \* those whose handler may panic
          Republishes,  \* those whose handler may call Publish
          TypeOf,       \* Event.Type of a call, a sequence of dot-free names
          Pattern,      \* Subscription.EventType
          Initial,      \* the subscriptions made while the modules start
          Transient,    \* those made and removed later (event streams)
          SemCap        \* DefaultAsyncWorkers

Deliveries == Publishers \X AsyncSubs
Nested == {d \in Deliveries : d[2] \in Republishes}
Calls == Publishers \cup Nested

VARIABLES subscriptions,  \* the registered subscriptions, in order
          call,           \* where each Publish call is
          todo,           \* the matched subscriptions it has not reached yet
          delivery,       \* where each delivery goroutine is
          asyncSem,       \* len(asyncSem)
          asyncWG,        \* the WaitGroup counter
          errorCount,
          drain           \* the call of Drain: where it is

vars == <<subscriptions, call, todo, delivery, asyncSem, asyncWG, errorCount, drain>>

\* The goroutines the WaitGroup counts.
ActiveDelivery == {"run", "backoff", "retry"}
ActiveCall == {"spawned", "loop"}
AllDeliveries == Deliveries \cup (Nested \X AsyncSubs)

TypeOK ==
    /\ subscriptions \in Seq(Subs)
    /\ call \in [Calls -> {"idle", "spawned", "loop", "returned", "errored", "panicked"}]
    /\ todo \in [Calls -> Seq(Subs)]
    /\ delivery \in [AllDeliveries -> {"none", "run", "backoff", "retry", "done"}]
    /\ asyncSem \in 0..SemCap
    /\ asyncWG \in Nat
    /\ errorCount \in Nat
    /\ drain \in {"idle", "waiting", "returned"}

Init ==
    /\ subscriptions = Initial
    /\ call = [c \in Calls |-> "idle"]
    /\ todo = [c \in Calls |-> <<>>]
    /\ delivery = [d \in AllDeliveries |-> "none"]
    /\ asyncSem = 0
    /\ asyncWG = 0
    /\ errorCount = 0
    /\ drain = "idle"
-----------------------------------------------------------------------------
(* Subscriptions *)

\* matchSubscriptions: "*", the exact type, or a "prefix.*" of it.
Matches(s, type) ==
    \/ Pattern[s].kind = "all"
    \/ Pattern[s].kind = "exact" /\ Pattern[s].path = type
    \/ /\ Pattern[s].kind = "prefix"
       /\ Len(type) > Len(Pattern[s].path)
       /\ SubSeq(type, 1, Len(Pattern[s].path)) = Pattern[s].path
matchSubscriptions(type) == SelectSeq(subscriptions, LAMBDA s : Matches(s, type))

Registered == {subscriptions[i] : i \in DOMAIN subscriptions}

Subscribe(s) ==
    /\ s \notin Registered
    /\ subscriptions' = Append(subscriptions, s)
    /\ UNCHANGED <<call, todo, delivery, asyncSem, asyncWG, errorCount, drain>>

\* The last subscription takes the place of the removed one.
UnsubscribeMutant(s) ==         \* truncates without moving the last one first
    /\ s \in Registered
    /\ subscriptions' = SubSeq(subscriptions, 1, Len(subscriptions) - 1)
    /\ UNCHANGED <<call, todo, delivery, asyncSem, asyncWG, errorCount, drain>>
Unsubscribe(s) ==
    /\ s \in Registered
    /\ LET n == Len(subscriptions)
           i == CHOOSE k \in 1..n : subscriptions[k] = s
       IN  subscriptions' =
             SubSeq([subscriptions EXCEPT ![i] = subscriptions[n]], 1, n - 1)
    /\ UNCHANGED <<call, todo, delivery, asyncSem, asyncWG, errorCount, drain>>
-----------------------------------------------------------------------------
(* Publish and PublishAsync *)

\* PublishAsync counts its goroutine before starting it.
PublishAsync(c) ==
    /\ c \in AsyncCalls /\ call[c] = "idle"
    /\ call' = [call EXCEPT ![c] = "spawned"]
    /\ asyncWG' = asyncWG + 1
    /\ UNCHANGED <<subscriptions, todo, delivery, asyncSem, errorCount, drain>>

\* Publish takes its snapshot of the matching subscriptions.  A nested call is
\* made by a handler that is running.
PublishBegin(c) ==
    /\ \/ c \in AsyncCalls /\ call[c] = "spawned"
       \/ c \in Publishers \ AsyncCalls /\ call[c] = "idle"
       \/ c \in Nested /\ call[c] = "idle" /\ delivery[c] \in {"run", "retry"}
    /\ call' = [call EXCEPT ![c] = "loop"]
    /\ todo' = [todo EXCEPT ![c] = matchSubscriptions(TypeOf[c])]
    /\ UNCHANGED <<subscriptions, delivery, asyncSem, asyncWG, errorCount, drain>>

Next1(c, s) == call[c] = "loop" /\ todo[c] # <<>> /\ s = Head(todo[c])

\* An async subscription: wait for a slot, count the goroutine and start it.
DispatchAsyncMutant(c, s) ==    \* does not wait for a slot
    /\ Next1(c, s) /\ s \in AsyncSubs
    /\ asyncSem' = asyncSem + 1
    /\ asyncWG' = asyncWG + 1
    /\ delivery' = [delivery EXCEPT ![<<c, s>>] = "run"]
    /\ todo' = [todo EXCEPT ![c] = Tail(@)]
    /\ UNCHANGED <<subscriptions, call, errorCount, drain>>
DispatchAsync(c, s) ==
    /\ Next1(c, s) /\ s \in AsyncSubs
    /\ asyncSem < SemCap
    /\ asyncSem' = asyncSem + 1
    /\ asyncWG' = asyncWG + 1
    /\ delivery' = [delivery EXCEPT ![<<c, s>>] = "run"]
    /\ todo' = [todo EXCEPT ![c] = Tail(@)]
    /\ UNCHANGED <<subscriptions, call, errorCount, drain>>

\* What a Publish call that ends does: the PublishAsync goroutine is done.
Return(c, how) ==
    /\ call' = [call EXCEPT ![c] = how]
    /\ asyncWG' = IF c \in AsyncCalls THEN asyncWG - 1 ELSE asyncWG

\* A synchronous subscription whose handler returns nil.
SyncOk(c, s) ==
    /\ Next1(c, s) /\ s \notin AsyncSubs
    /\ todo' = [todo EXCEPT ![c] = Tail(@)]
    /\ UNCHANGED <<subscriptions, call, delivery, asyncSem, asyncWG, errorCount, drain>>

\* Its handler returns an error: the loop is abandoned.
SyncFails(c, s) ==
    /\ Next1(c, s) /\ s \in Fails \ AsyncSubs
    /\ errorCount' = errorCount + 1
    /\ Return(c, "errored")
    /\ UNCHANGED <<subscriptions, todo, delivery, asyncSem, drain>>

\* Its handler panics: the panic unwinds Publish, and PublishAsync recovers.
SyncPanics(c, s) ==
    /\ Next1(c, s) /\ s \in Panics \ AsyncSubs
    /\ Return(c, "panicked")
    /\ UNCHANGED <<subscriptions, todo, delivery, asyncSem, errorCount, drain>>

PublishEnd(c) ==
    /\ call[c] = "loop" /\ todo[c] = <<>>
    /\ Return(c, "returned")
    /\ UNCHANGED <<subscriptions, todo, delivery, asyncSem, errorCount, drain>>
-----------------------------------------------------------------------------
(* The delivery goroutine *)

\* A handler is not back while the Publish it made is not.
HandlerBack(d) == d \in Nested => call[d] # "loop"

\* The deferred functions: give the slot back unless slotReleased, then Done.
FinishDelivery(d, released, failed) ==
    /\ delivery' = [delivery EXCEPT ![d] = "done"]
    /\ asyncSem' = IF released THEN asyncSem ELSE asyncSem - 1
    /\ asyncWG' = asyncWG - 1
    /\ errorCount' = IF failed THEN errorCount + 1 ELSE errorCount
    /\ UNCHANGED <<subscriptions, call, todo, drain>>

HandlerOk(d) ==
    /\ delivery[d] = "run" /\ HandlerBack(d)
    /\ FinishDelivery(d, FALSE, FALSE)

HandlerPanics(d) ==
    /\ delivery[d] = "run" /\ HandlerBack(d) /\ d[2] \in Panics
    /\ FinishDelivery(d, FALSE, TRUE)

\* An error: the slot is given back for the duration of the backoff.
HandlerFails(d) ==
    /\ delivery[d] = "run" /\ HandlerBack(d) /\ d[2] \in Fails
    /\ delivery' = [delivery EXCEPT ![d] = "backoff"]
    /\ asyncSem' = asyncSem - 1
    /\ UNCHANGED <<subscriptions, call, todo, asyncWG, errorCount, drain>>

\* ctx ends during the backoff.
BackoffCanceled(d) ==
    /\ delivery[d] = "backoff" /\ d[1] \in Cancelable
    /\ FinishDelivery(d, TRUE, TRUE)

\* The timer fires and a slot is taken again; slotReleased stays set.
RetryAcquireMutant(d) ==        \* runs the retry without taking a slot
    /\ delivery[d] = "backoff"
    /\ delivery' = [delivery EXCEPT ![d] = "retry"]
    /\ UNCHANGED <<subscriptions, call, todo, asyncSem, asyncWG, errorCount, drain>>
RetryAcquire(d) ==
    /\ delivery[d] = "backoff" /\ asyncSem < SemCap
    /\ delivery' = [delivery EXCEPT ![d] = "retry"]
    /\ asyncSem' = asyncSem + 1
    /\ UNCHANGED <<subscriptions, call, todo, asyncWG, errorCount, drain>>

RetryOk(d) ==
    /\ delivery[d] = "retry" /\ HandlerBack(d)
    /\ FinishDelivery(d, TRUE, FALSE)

RetryFailsMutant(d) ==          \* the failure is also counted when it is first seen
    /\ delivery[d] = "retry" /\ HandlerBack(d) /\ d[2] \in Fails \cup Panics
    /\ delivery' = [delivery EXCEPT ![d] = "done"]
    /\ asyncWG' = asyncWG - 1
    /\ errorCount' = errorCount + 2
    /\ UNCHANGED <<subscriptions, call, todo, asyncSem, drain>>
RetryFails(d) ==
    /\ delivery[d] = "retry" /\ HandlerBack(d) /\ d[2] \in Fails \cup Panics
    /\ FinishDelivery(d, TRUE, TRUE)
-----------------------------------------------------------------------------
(* Drain *)

DrainCall ==
    /\ drain = "idle"
    /\ drain' = "waiting"
    /\ UNCHANGED <<subscriptions, call, todo, delivery, asyncSem, asyncWG, errorCount>>

DrainReturn ==
    /\ drain = "waiting" /\ asyncWG = 0
    /\ drain' = "returned"
    /\ UNCHANGED <<subscriptions, call, todo, delivery, asyncSem, asyncWG, errorCount>>

CallStep(c) ==
    \/ PublishAsync(c) \/ PublishBegin(c) \/ PublishEnd(c)
    \/ \E s \in Subs : DispatchAsync(c, s) \/ SyncOk(c, s) \/ SyncFails(c, s) \/ SyncPanics(c, s)

DeliveryStep(d) ==
    \/ HandlerOk(d) \/ HandlerPanics(d) \/ HandlerFails(d) \/ BackoffCanceled(d)
    \/ RetryAcquire(d) \/ RetryOk(d) \/ RetryFails(d)

Next ==
    \/ \E s \in Transient : Subscribe(s) \/ Unsubscribe(s)
    \/ \E c \in Calls : CallStep(c)
    \/ \E d \in AllDeliveries : DeliveryStep(d)
    \/ DrainCall \/ DrainReturn

Spec == Init /\ [][Next]_vars
-----------------------------------------------------------------------------
(* Properties *)

DeliveriesIn(S) == {d \in AllDeliveries : delivery[d] \in S}
BackgroundCalls == {c \in AsyncCalls : call[c] \in ActiveCall}

\* Async handlers are bounded by the semaphore: however retries, panics and
\* nested publishes interleave, at most SemCap handlers run at once.
HandlersBounded ==
    Cardinality(DeliveriesIn({"run", "retry"})) <= asyncSem

\* Drain "waits for all in-flight async handlers": at the moment it returns no
\* handler, no backoff and no PublishAsync that was called before is left,
\* even one whose goroutine had not reached Publish when Drain was called.
DrainWaitsForAll ==
    drain = "waiting" /\ drain' = "returned" =>
        DeliveriesIn(ActiveDelivery) = {} /\ BackgroundCalls = {}

\* A handler failure is counted once: the first error of a delivery that is
\* retried is not, its last one is.
ErrorsCountedOnce ==
    errorCount <= Cardinality({d \in DeliveriesIn({"done"}) : d[2] \in Fails \cup Panics})
                   + Cardinality({c \in Calls : call[c] = "errored"})

\* A subscription that nobody removes is never lost, although Unsubscribe moves
\* the last one into the hole it makes.
NoSubscriptionLost ==
    \A i \in 1..Len(Initial) : Initial[i] \notin Transient => Initial[i] \in Registered
=============================================================================
