--------------------------- MODULE WebhookReceiver -------------------------
(***************************************************************************)
(* Webhooks of git providers: HandleWebhook of                             *)
(* src/internal/webhooks/receiver.go.  A delivery is verified, looked up   *)
(* in the dedup bucket, recorded there, parsed and published, in that      *)
(* order: the record precedes the work.                                    *)
(***************************************************************************)
EXTENDS Integers, Sequences, FiniteSets, SequencesExt

CONSTANTS Deliveries,
          Headers,     \* the headers of each delivery: a function from names to values
          Hook, Body,  \* its webhook and its body; "" is an empty body
          Signature    \* "good", "bad", or "none" when no header carries one

VARIABLE w

(* The headers that identify a delivery, in the order they are tried.      *)
IdHeaders == <<"X-GitHub-Delivery", "X-Gitlab-Event-UUID", "X-Gitea-Delivery",
               "X-Gogs-Delivery", "X-Hook-UUID", "X-Request-Id">>

First(d, names) == SelectInSeq(names, LAMBDA h : h \in DOMAIN Headers[d])

deliveryDedupKey(d) ==
    LET i == First(d, IdHeaders) IN
    IF i # 0 THEN <<Hook[d], "id", Headers[d][IdHeaders[i]]>>
    ELSE IF Body[d] = "" THEN <<>> ELSE <<Hook[d], "sum", Body[d]>>

detectProvider(d) ==
    LET events == <<"X-GitHub-Event", "X-Gitlab-Event", "X-Gitea-Event", "X-Gogs-Event",
                    "X-Event-Key">>
        names  == <<"github", "gitlab", "gitea", "gogs", "bitbucket">>
        i      == First(d, events)
    IN  IF i # 0 THEN names[i] ELSE "generic"

Init == w = [seen |-> {}, at |-> [d \in Deliveries |-> "new"], published |-> <<>>,
             raced |-> {}]

(* Bitbucket Cloud and unknown senders need not sign.                      *)
VerifySignature(d) ==
    \/ Signature[d] = "good"
    \/ Signature[d] = "none" /\ detectProvider(d) \in {"bitbucket", "generic"}

(* GetWebhookSecret may fail as well.                                      *)
HandleWebhook(d) ==
    /\ w.at[d] = "new"
    /\ \/ w' = [w EXCEPT !.at[d] = "401"]
       \/ /\ VerifySignature(d)
          /\ w' = [w EXCEPT !.at[d] = IF deliveryDedupKey(d) = <<>> THEN "parse" ELSE "check"]

CheckSeen(d) ==
    /\ w.at[d] = "check"
    /\ w' = [w EXCEPT !.at[d] = IF deliveryDedupKey(d) \in w.seen THEN "duplicate" ELSE "record"]

(* A failed Set is logged and the delivery processed all the same.         *)
RecordSeen(d) ==
    /\ w.at[d] = "record"
    /\ \/ w' = [w EXCEPT !.at[d] = "parse", !.seen = @ \cup {deliveryDedupKey(d)},
                         !.raced = IF deliveryDedupKey(d) \in w.seen THEN @ \cup {d} ELSE @]
       \/ w' = [w EXCEPT !.at[d] = "parse", !.raced = @ \cup {d}]

parsePayload(d) ==
    /\ w.at[d] = "parse"
    /\ \/ w' = [w EXCEPT !.at[d] = "400"]
       \/ w' = [w EXCEPT !.at[d] = "200",
                         !.published = Append(@, <<d, detectProvider(d)>>)]

(* The dedup window passes.                                                *)
Expire(k) ==
    /\ \A d \in Deliveries : w.at[d] \notin {"new", "check", "record"} \/ deliveryDedupKey(d) # k
    /\ w' = [w EXCEPT !.seen = @ \ {k}]

Next == \/ \E d \in Deliveries : \/ HandleWebhook(d) \/ CheckSeen(d)
                                 \/ RecordSeen(d) \/ parsePayload(d)
        \/ \E k \in w.seen : Expire(k)

Spec == Init /\ [][Next]_w

(* Two deliveries with one key are published once, unless they met between *)
(* the lookup and the record.                                              *)
Once ==
    \A i, j \in 1 .. Len(w.published) :
       LET d == w.published[i][1]  e == w.published[j][1] IN
       /\ i < j /\ deliveryDedupKey(d) = deliveryDedupKey(e) /\ deliveryDedupKey(d) # <<>>
       => d \in w.raced \/ e \in w.raced
============================================================================
