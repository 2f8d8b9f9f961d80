---------------------------- MODULE StripeEvents ---------------------------
(***************************************************************************)
(* Stripe's webhook events: src/internal/billing/stripe_webhook.go, called *)
(* by the handler of src/internal/api/handlers/stripe_webhook.go.  Stripe  *)
(* delivers an event until it is answered with success, possibly twice at  *)
(* once and in any order.  A delivery looks at the seen map, loads the     *)
(* tenant, writes the whole row back and marks the event, each a step of   *)
(* its own.  b.ran counts the dispatches of an event that began when none  *)
(* of it was in progress, since the event was last forgotten.              *)
(***************************************************************************)
EXTENDS Integers, FiniteSets

CONSTANTS Deliveries, EventOf,  \* the event each delivery carries
          Type,                 \* of each event: "updated", "deleted", "paid", "failed", "checkout"
          Price,                \* of each event of type "updated"
          PlanOf,               \* the plans the operator wired to price ids
          RateLimit             \* deliveries per window (stripeWebhookRateLimit)

VARIABLE b

Free == "free"
None == "none"

Init == b = [tenant |-> [plan |-> Free, sub |-> FALSE, price |-> None, status |-> None],
             seen |-> {}, at |-> [d \in Deliveries |-> "new"],
             row |-> [d \in Deliveries |-> <<>>], ran |-> [d \in Deliveries |-> 0],
             landed |-> {}, count |-> 0]

Busy(e) == {d \in Deliveries : EventOf[d] = e /\ b.at[d] \in {"load", "write", "mark"}}

(* The limiter of the HTTP handler, for the address Stripe calls from.     *)
ServeHTTP(d) ==
    /\ b.at[d] = "new"
    /\ b' = IF b.count >= RateLimit THEN [b EXCEPT !.at[d] = "429"]
            ELSE [b EXCEPT !.at[d] = "handle", !.count = @ + 1]

NewWindow ==
    /\ b.count # 0
    /\ b' = [b EXCEPT !.count = 0]

(* The signature is checked, then alreadyProcessed.                        *)
Handle(d) ==
    /\ b.at[d] = "handle"
    /\ \/ b' = [b EXCEPT !.at[d] = "invalid"]
       \/ EventOf[d] \in b.seen /\ b' = [b EXCEPT !.at[d] = "ok"]
       \/ /\ EventOf[d] \notin b.seen
          /\ b' = [b EXCEPT !.at[d] = IF Type[EventOf[d]] = "checkout" THEN "mark" ELSE "load",
                            !.ran[d] = IF Busy(EventOf[d]) = {} THEN 1 ELSE 0]

(* The subscription handlers report a failed load or write, the invoice    *)
(* handlers go on without it.                                              *)
Refused(d) ==
    [b EXCEPT !.at[d] = IF Type[EventOf[d]] \in {"updated", "deleted"} THEN "retry" ELSE "mark"]

GetTenant(d) ==
    /\ b.at[d] = "load"
    /\ \/ b' = [b EXCEPT !.at[d] = "write", !.row[d] = b.tenant]
       \/ b' = Refused(d)

(* PlanByStripePriceID: a price nobody wired leaves the plan alone.        *)
handleSubscriptionUpdated(t, p) ==
    [t EXCEPT !.sub = TRUE, !.price = p, !.status = "active",
              !.plan = IF p \in DOMAIN PlanOf THEN PlanOf[p] ELSE @]

handleSubscriptionCanceledMutant(t) ==  \* the plan is kept
    [t EXCEPT !.sub = FALSE, !.price = None, !.status = "canceled"]

handleSubscriptionCanceled(t) ==
    [t EXCEPT !.sub = FALSE, !.price = None, !.status = "canceled", !.plan = Free]

handleInvoicePaid(t) == [t EXCEPT !.status = "active"]

handleInvoicePaymentFailed(t) == [t EXCEPT !.status = "past_due"]

Applied(t, e) ==
    CASE Type[e] = "updated" -> handleSubscriptionUpdated(t, Price[e])
      [] Type[e] = "deleted" -> handleSubscriptionCanceled(t)
      [] Type[e] = "paid"    -> handleInvoicePaid(t)
      [] Type[e] = "failed"  -> handleInvoicePaymentFailed(t)

UpdateTenant(d) ==
    /\ b.at[d] = "write"
    /\ \/ b' = [b EXCEPT !.at[d] = "mark", !.tenant = Applied(b.row[d], EventOf[d]),
                         !.landed = @ \cup {EventOf[d]}]
       \/ b' = Refused(d)


markProcessed(d) ==
    /\ b.at[d] = "mark"
    /\ b' = [b EXCEPT !.at[d] = "ok", !.seen = @ \cup {EventOf[d]}]

(* The entry outlives its TTL, which is as long as Stripe retries.         *)
sweepLocked(e) ==
    /\ e \in b.seen /\ \A d \in Deliveries : EventOf[d] = e => b.at[d] \notin {"new", "handle"}
    /\ b' = [b EXCEPT !.seen = @ \ {e}]

Next ==
    \/ NewWindow
    \/ \E d \in Deliveries : ServeHTTP(d) \/ Handle(d) \/ GetTenant(d) \/ UpdateTenant(d) \/ markProcessed(d)
    \/ \E d \in Deliveries : sweepLocked(EventOf[d])

Spec == Init /\ [][Next]_b

Answered(e) == {d \in Deliveries : EventOf[d] = e /\ b.at[d] = "ok"}

(* Of the dispatches of an event that did not run into each other, one was *)
(* answered with success; and a subscription event that was, landed.       *)
Once ==
    /\ \A d1, d2 \in Deliveries :
         /\ d1 # d2 /\ EventOf[d1] = EventOf[d2]
         /\ b.ran[d1] = 1 /\ b.ran[d2] = 1
         => ~(b.at[d1] = "ok" /\ b.at[d2] = "ok")
    /\ \A d \in Deliveries :
         b.at[d] = "ok" /\ Type[EventOf[d]] \in {"updated", "deleted"} => EventOf[d] \in b.landed

(* The plan follows the subscription, whatever the order of the writes.    *)
PlanFollows ==
    /\ ~b.tenant.sub => b.tenant.plan = Free
    /\ b.tenant.price \in DOMAIN PlanOf => b.tenant.plan = PlanOf[b.tenant.price]
============================================================================
