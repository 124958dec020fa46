------------------------------ MODULE Receipts ------------------------------
(***************************************************************************)
(* order.placed events from publishEvent (src/src/broker/publisher.ts)     *)
(* through the broker to the receipts consumer                             *)
(* (src/src/order-receipts-consumer.ts).                                   *)
(*                                                                         *)
(* A copy <<e, k>> is the k-th publication of event e: a caller whose      *)
(* publishEvent failed may call it again with the same event.  The queue   *)
(* is a quorum queue with manual acks: what a consumer holds goes back to  *)
(* the queue when its connection is lost, in any order, and a copy that    *)
(* was given back more than DeliveryLimit times is dead-lettered.          *)
(* Dead-lettering is a step of its own and is not reliable: the queue is   *)
(* declared without a dead-letter-strategy, so the broker forwards a copy  *)
(* to the DLQ at most once, and it may get lost on the way.                *)
(***************************************************************************)
EXTENDS Naturals, FiniteSets

CONSTANTS
    Events,         \* by eventId
    Valid,          \* the events parseOrderPlaced accepts
    OrderOf,        \* event -> data.orderId
    Consumers,      \* the consumer processes (replicas, restarts included)
    NoConsumer,
    Prefetch,       \* PREFETCH
    DeliveryLimit,  \* DELIVERY_LIMIT
    MaxCopies,      \* bound: event -> how often it may be published
    MaxCrashes      \* bound: connection losses in a behaviour

ASSUME EventsAssumption == Valid \subseteq Events /\ DOMAIN OrderOf = Events
ASSUME ConsumersAssumption == NoConsumer \notin Consumers
ASSUME LimitsAssumption == /\ {Prefetch, DeliveryLimit, MaxCrashes} \subseteq Nat
                            /\ MaxCopies \in [Events -> Nat]

VARIABLES
    bound,          \* assertTopology has bound the queue to the exchange
    published,      \* event -> how often it was published
    outcome,        \* event -> what publishEvent knows of the last publication
    copy,           \* copy -> "absent", "ready", "unacked", "acked", or dead-lettered:
                    \* "dying" on its way, then "dead" in the DLQ, or "lost"
    holder,         \* copy -> the consumer it is delivered to
    stage,          \* copy -> "handle" before the INSERT, "ack" after it
    returns,        \* copy -> the broker's x-delivery-count
    up,             \* the consumers that are connected
    receipts,       \* order_receipts: event -> the rows it inserted
    crashes,
    deliveries      \* copy -> how often it was delivered (history variable)

vars == <<bound, published, outcome, copy, holder, stage, returns, up, receipts, crashes,
          deliveries>>

Copies == UNION {{e} \X (1..MaxCopies[e]) : e \in Events}

queue == <<copy, holder, stage, returns, deliveries>>
publisher == <<published, outcome>>

Init ==
    /\ bound = FALSE
    /\ published = [e \in Events |-> 0]
    /\ outcome = [e \in Events |-> "none"]
    /\ copy = [m \in Copies |-> "absent"]
    /\ holder = [m \in Copies |-> NoConsumer]
    /\ stage = [m \in Copies |-> "none"]
    /\ returns = [m \in Copies |-> 0]
    /\ up = {}
    /\ receipts = [e \in Events |-> 0]
    /\ crashes = 0
    /\ deliveries = [m \in Copies |-> 0]

-----------------------------------------------------------------------------
(* publishEvent on a confirm channel, with `mandatory`.                    *)

Publish(e) ==
    /\ outcome[e] \in {"none", "error", "unroutable"}
    /\ published[e] < MaxCopies[e]
    /\ published' = [published EXCEPT ![e] = @ + 1]
    /\ outcome' = [outcome EXCEPT ![e] = "sent"]
    /\ UNCHANGED <<bound, queue, up, receipts, crashes>>

\* The broker routes the message and persists it, or returns it as unroutable.
\* The return is sent before the confirm.
Route(e) ==
    /\ outcome[e] = "sent"
    /\ IF bound
       THEN /\ copy' = [copy EXCEPT ![<<e, published[e]>>] = "ready"]
            /\ outcome' = [outcome EXCEPT ![e] = "taken"]
       ELSE /\ outcome' = [outcome EXCEPT ![e] = "returned"]
            /\ UNCHANGED copy
    /\ UNCHANGED <<bound, published, holder, stage, returns, up, receipts, crashes, deliveries>>

\* Mutant of Confirm: the returned set is not looked at.
ConfirmBlindly(e) ==
    /\ outcome[e] \in {"taken", "returned"}
    /\ outcome' = [outcome EXCEPT ![e] = "ok"]
    /\ UNCHANGED <<bound, published, queue, up, receipts, crashes>>

\* The confirm callback: publishEvent resolves, or throws for a returned message.
Confirm(e) ==
    /\ outcome[e] \in {"taken", "returned"}
    /\ outcome' = [outcome EXCEPT ![e] = IF @ = "returned" THEN "unroutable" ELSE "ok"]
    /\ UNCHANGED <<bound, published, queue, up, receipts, crashes>>

\* The publisher's connection dies: it cannot tell whether the broker has it.
LoseConfirm(e) ==
    /\ outcome[e] \in {"sent", "taken", "returned"}
    /\ outcome' = [outcome EXCEPT ![e] = "error"]
    /\ UNCHANGED <<bound, published, queue, up, receipts, crashes>>

\* runDemo, the topology bootstrap of the demos: the queues are declared and
\* bound before any consumer runs.
Bootstrap ==
    /\ ~bound
    /\ bound' = TRUE
    /\ UNCHANGED <<publisher, queue, up, receipts, crashes>>

-----------------------------------------------------------------------------
(* The consumer.                                                           *)

\* main: connect, assertTopology, prefetch, consume.
StartConsumer(c) ==
    /\ c \notin up
    /\ up' = up \cup {c}
    /\ bound' = TRUE
    /\ UNCHANGED <<publisher, queue, receipts, crashes>>

Deliver(c, m) ==
    /\ c \in up
    /\ copy[m] = "ready"
    /\ Cardinality({n \in Copies : holder[n] = c}) < Prefetch
    /\ copy' = [copy EXCEPT ![m] = "unacked"]
    /\ holder' = [holder EXCEPT ![m] = c]
    /\ stage' = [stage EXCEPT ![m] = "handle"]
    /\ deliveries' = [deliveries EXCEPT ![m] = @ + 1]
    /\ UNCHANGED <<bound, publisher, returns, up, receipts, crashes>>

\* The copy leaves its consumer, and is ready, acked or dying then.
Settle(m, where) ==
    /\ copy' = [copy EXCEPT ![m] = where]
    /\ holder' = [holder EXCEPT ![m] = NoConsumer]
    /\ stage' = [stage EXCEPT ![m] = "none"]

\* The broker takes a copy back: the limit decides whether it is delivered again.
GiveBack(m) ==
    /\ Settle(m, IF returns[m] >= DeliveryLimit THEN "dying" ELSE "ready")
    /\ returns' = [returns EXCEPT ![m] = @ + 1]
    /\ UNCHANGED deliveries

\* Mutant of RejectPoison: the handler returns without rejecting the message.
ForgetPoison(m) ==
    /\ stage[m] = "handle"
    /\ m[1] \notin Valid
    /\ stage' = [stage EXCEPT ![m] = "none"]
    /\ UNCHANGED <<bound, publisher, copy, holder, returns, up, receipts, crashes, deliveries>>

\* A body that does not parse is rejected without requeue.
RejectPoison(m) ==
    /\ stage[m] = "handle"
    /\ m[1] \notin Valid
    /\ Settle(m, "dying")
    /\ UNCHANGED <<bound, publisher, returns, up, receipts, crashes, deliveries>>

\* The queue forwards a dead-lettered copy to the DLQ, at most once.
Forward(m) ==
    /\ copy[m] = "dying"
    /\ \E end \in {"dead", "lost"} : copy' = [copy EXCEPT ![m] = end]
    /\ UNCHANGED <<bound, publisher, holder, stage, returns, up, receipts, crashes, deliveries>>

\* order_receipts has a row with this order_id or this event_id.
HasReceipt(e) == \E f \in Events : receipts[f] > 0 /\ (f = e \/ OrderOf[f] = OrderOf[e])

\* Mutant of Insert: the keys of order_receipts are not there.
InsertAlways(e) == receipts' = [receipts EXCEPT ![e] = @ + 1]

\* INSERT ... ON CONFLICT DO NOTHING, committed.
Insert(e) ==
    IF HasReceipt(e) THEN UNCHANGED receipts ELSE receipts' = [receipts EXCEPT ![e] = @ + 1]

\* issueReceipt succeeds; ch.ack is on its way.
IssueReceipt(m) ==
    /\ stage[m] = "handle"
    /\ m[1] \in Valid
    /\ Insert(m[1])
    /\ stage' = [stage EXCEPT ![m] = "ack"]
    /\ UNCHANGED <<bound, publisher, copy, holder, returns, up, crashes, deliveries>>

\* Mutant of IssueFails: a nack, which the delivery limit does not count.
IssueFailsNacked(m) ==
    /\ stage[m] = "handle"
    /\ m[1] \in Valid
    /\ Insert(m[1]) \/ UNCHANGED receipts
    /\ Settle(m, "ready")
    /\ UNCHANGED <<bound, publisher, returns, up, crashes, deliveries>>

\* issueReceipt throws, with the row committed or not: reject with requeue.
IssueFails(m) ==
    /\ stage[m] = "handle"
    /\ m[1] \in Valid
    /\ Insert(m[1]) \/ UNCHANGED receipts
    /\ GiveBack(m)
    /\ UNCHANGED <<bound, publisher, up, crashes>>

Ack(m) ==
    /\ stage[m] = "ack"
    /\ Settle(m, "acked")
    /\ UNCHANGED <<bound, publisher, returns, up, receipts, crashes, deliveries>>

\* The process is killed, exits on basic.cancel or loses its connection: the
\* broker takes back everything it holds, acks under way included.  Whether that
\* counts towards the limit is the broker's business.
Crash(c) ==
    LET held == {m \in Copies : holder[m] = c} IN
    /\ c \in up
    /\ crashes < MaxCrashes
    /\ crashes' = crashes + 1
    /\ up' = up \ {c}
    /\ holder' = [m \in Copies |-> IF m \in held THEN NoConsumer ELSE holder[m]]
    /\ stage' = [m \in Copies |-> IF m \in held THEN "none" ELSE stage[m]]
    /\ \/ /\ copy' = [m \in Copies |-> IF m \in held THEN "ready" ELSE copy[m]]
          /\ UNCHANGED returns
       \/ /\ copy' = [m \in Copies |->
                         IF m \notin held THEN copy[m]
                         ELSE IF returns[m] >= DeliveryLimit THEN "dying" ELSE "ready"]
          /\ returns' = [m \in Copies |-> IF m \in held THEN returns[m] + 1 ELSE returns[m]]
    /\ UNCHANGED <<bound, publisher, receipts, deliveries>>

Handle(m) == RejectPoison(m) \/ IssueReceipt(m) \/ IssueFails(m) \/ Ack(m)

\* The broker is done with the copy.
Settled(m) == copy[m] \in {"acked", "dead", "lost"}

\* The copy was given up: rejected, or returned beyond the limit.
DeadLettered(m) == copy[m] \in {"dying", "dead", "lost"}

\* Every publication was confirmed or failed for good and every copy is settled.
Quiet ==
    /\ \A e \in Events : outcome[e] = "ok" \/ (outcome[e] \in {"error", "unroutable"}
                                               /\ published[e] = MaxCopies[e])
    /\ \A m \in Copies : copy[m] = "absent" \/ Settled(m)
    /\ UNCHANGED vars

Next ==
    \/ \E e \in Events : Publish(e) \/ Route(e) \/ Confirm(e) \/ LoseConfirm(e)
    \/ \E c \in Consumers : StartConsumer(c) \/ Crash(c) \/ \E m \in Copies : Deliver(c, m)
    \/ \E m \in Copies : Handle(m) \/ Forward(m)
    \/ Bootstrap
    \/ Quiet

Spec == Init /\ [][Next]_vars

\* A supervisor restarts consumers, a connected consumer with room is sent the
\* copies that are ready, its handler ends, and the broker forwards what it
\* dead-letters; nothing makes callers publish.
FairSpec ==
    /\ Spec
    /\ \A c \in Consumers : WF_vars(StartConsumer(c))
    /\ \A m \in Copies : /\ WF_vars(\E c \in Consumers : Deliver(c, m))
                        /\ WF_vars(Handle(m)) /\ WF_vars(Forward(m))

-----------------------------------------------------------------------------
TypeOK ==
    /\ bound \in BOOLEAN
    /\ published \in [Events -> Nat] /\ \A e \in Events : published[e] <= MaxCopies[e]
    /\ outcome \in [Events -> {"none", "sent", "taken", "returned", "ok", "unroutable", "error"}]
    /\ copy \in [Copies -> {"absent", "ready", "unacked", "acked", "dying", "dead", "lost"}]
    /\ holder \in [Copies -> Consumers \cup {NoConsumer}]
    /\ stage \in [Copies -> {"none", "handle", "ack"}]
    /\ returns \in [Copies -> 0..(DeliveryLimit + 1)]
    /\ up \subseteq Consumers
    /\ receipts \in [Events -> Nat]
    /\ crashes \in 0..MaxCrashes
    /\ deliveries \in [Copies -> Nat]

\* "One receipt per order" (1790100000000-OrderReceipts.ts): republication,
\* redelivery, a second consumer and a lost ack never write a second one.
OneReceiptPerOrder ==
    \A e, f \in Events :
        /\ receipts[e] <= 1
        /\ e # f /\ receipts[e] > 0 /\ receipts[f] > 0 => OrderOf[e] # OrderOf[f]

\* "The ack goes out only AFTER the receipt row is committed"
\* (order-receipts-consumer.ts): the queue forgets a copy only if it is of a valid
\* event whose order has its receipt.
AckedHasReceipt == \A m \in Copies : copy[m] = "acked" => m[1] \in Valid /\ HasReceipt(m[1])

\* "Resolves only once the broker has taken responsibility for THIS message"
\* (publisher.ts), "a crash before the ack makes the broker redeliver, never
\* lose": once publishEvent has resolved, the event has its receipt, is in the
\* queue or in the hands of a consumer, or was given up, which for an event that
\* parses takes more than DeliveryLimit deliveries.  What is given up may be lost
\* on its way to the DLQ; nothing is lost before.
LostOnlyByGivingUp ==
    \A e \in Events : outcome[e] = "ok" =>
        \/ HasReceipt(e)
        \/ \E k \in 1..MaxCopies[e] :
              \/ copy[<<e, k>>] \in {"ready", "unacked"}
              \/ DeadLettered(<<e, k>>) /\ (e \in Valid => deliveries[<<e, k>>] > DeliveryLimit)

\* "A message that keeps failing transiently goes to the DLQ on its 6th delivery
\* attempt" (topology.ts): an event that parses is given up neither before
\* DeliveryLimit + 1 deliveries of that copy nor after more; only a lost
\* connection, which need not count, adds one.
GivesUpAtTheLimit ==
    \A m \in Copies :
        /\ deliveries[m] <= DeliveryLimit + 1 + crashes
        /\ DeadLettered(m) /\ m[1] \in Valid => deliveries[m] > DeliveryLimit

\* "So the loop is bounded" (order-receipts-consumer.ts): whatever fails, each
\* copy in the queue is acked or dead-lettered in the end.
EveryCopySettles == \A m \in Copies : (copy[m] = "ready") ~> Settled(m)
=============================================================================
