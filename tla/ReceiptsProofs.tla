--------------------------- MODULE ReceiptsProofs ---------------------------
(***************************************************************************)
(* Proofs about Receipts for any events, consumers, prefetch, delivery     *)
(* limit and any number of publications and crashes.  The invariant adds   *)
(* to the properties                                                       *)
(*   HoldInv     a copy is in the hands of a consumer or in a handler only *)
(*               while it is unacked;                                      *)
(*   AckInv      a handler that is about to ack a copy handled an event    *)
(*               that parses and has its receipt;                          *)
(*   LimitInv    a copy that may still be delivered was given back at most *)
(*               DeliveryLimit times;                                      *)
(*   FreshInv    a publication under way has no copy yet;                  *)
(*   TakenInv    an event that was sent was published, and one the broker  *)
(*               has taken has a copy;                                     *)
(*   DeadInv     a copy of an event that parses was given up only beyond   *)
(*               the limit, and an event that does not has no receipt;     *)
(*   CountInv    a copy was delivered as often as it was given back, once  *)
(*               more while it is held, and once more for each lost        *)
(*               connection that was not counted.                          *)
(***************************************************************************)
EXTENDS Receipts, TLAPS

HoldInv ==
    \A m \in Copies :
        /\ holder[m] # NoConsumer => copy[m] = "unacked"
        /\ stage[m] # "none" => copy[m] = "unacked"

AckInv == \A m \in Copies : stage[m] = "ack" => m[1] \in Valid /\ HasReceipt(m[1])

LimitInv == \A m \in Copies : copy[m] \in {"absent", "ready", "unacked"} => returns[m] <= DeliveryLimit

FreshInv ==
    \A m \in Copies : copy[m] # "absent" =>
        m[2] <= published[m[1]] /\ (m[2] = published[m[1]] => outcome[m[1]] # "sent")

TakenInv ==
    \A e \in Events :
        /\ outcome[e] \in {"sent", "taken", "returned"} => published[e] > 0
        /\ outcome[e] \in {"taken", "ok"} =>
               \E k \in 1..MaxCopies[e] : copy[<<e, k>>] # "absent"

DeadInv ==
    /\ \A m \in Copies : DeadLettered(m) /\ m[1] \in Valid => returns[m] > DeliveryLimit
    /\ \A e \in Events \ Valid : receipts[e] = 0

CountInv ==
    \A m \in Copies :
        /\ returns[m] <= deliveries[m]
        /\ copy[m] = "unacked" => returns[m] < deliveries[m]
        /\ deliveries[m] <= returns[m] + crashes + 1
        /\ copy[m] \in {"absent", "ready"} \/ returns[m] > DeliveryLimit =>
              deliveries[m] <= returns[m] + crashes

QueueInv == TypeOK /\ HoldInv /\ LimitInv /\ FreshInv
ReceiptInv == AckInv /\ AckedHasReceipt /\ OneReceiptPerOrder
IInv == QueueInv /\ ReceiptInv /\ TakenInv /\ DeadInv /\ CountInv

USE EventsAssumption, ConsumersAssumption, LimitsAssumption

-----------------------------------------------------------------------------
\* A copy is a publication of an event.
LEMMA CopyShape ==
    \A m \in Copies : m[1] \in Events /\ m[2] \in 1..MaxCopies[m[1]] /\ m = <<m[1], m[2]>>
  BY DEF Copies

\* The publications of an event are its copies.
LEMMA CopyOfPublication ==
    ASSUME NEW e \in Events, NEW k \in 1..MaxCopies[e]
    PROVE  <<e, k>> \in Copies
  BY DEF Copies

\* The initial states satisfy every part of the invariant.
LEMMA InitIInv == Init => IInv
<1> SUFFICES ASSUME Init PROVE IInv
  OBVIOUS
<1>1. QueueInv
  <2>1. TypeOK
    <3>1. 0 \in 0..(DeliveryLimit + 1) /\ 0 \in 0..MaxCrashes /\ \A e \in Events : 0 <= MaxCopies[e]
      OBVIOUS
    <3> QED
      BY <3>1 DEF Init, TypeOK
  <2>2. HoldInv /\ LimitInv /\ FreshInv
    BY DEF Init, HoldInv, LimitInv, FreshInv
  <2> QED
    BY <2>1, <2>2 DEF QueueInv
<1>2. ReceiptInv
  BY DEF Init, ReceiptInv, AckInv, AckedHasReceipt, OneReceiptPerOrder
<1>3. TakenInv /\ DeadInv /\ CountInv
  BY DEF Init, TakenInv, DeadInv, DeadLettered, CountInv
<1> QED
  BY <1>1, <1>2, <1>3 DEF IInv

\* Each step keeps the types and the broker's bookkeeping: a copy that is given
\* back was unacked, so it was given back at most DeliveryLimit times before.
LEMMA QueueStep == QueueInv /\ TakenInv /\ [Next]_vars => QueueInv'
<1> SUFFICES ASSUME QueueInv, TakenInv, [Next]_vars PROVE QueueInv'
  OBVIOUS
<1> USE CopyShape DEF QueueInv, TypeOK, HoldInv, LimitInv, FreshInv, queue, publisher
<1>1. ASSUME NEW e \in Events, Publish(e) PROVE QueueInv'
  <2>1. TypeOK' /\ HoldInv' /\ LimitInv'
    BY <1>1 DEF Publish
  <2>2. FreshInv'
    BY <1>1 DEF Publish
  <2> QED
    BY <2>1, <2>2
<1>2. ASSUME NEW e \in Events, Route(e) PROVE QueueInv'
  <2> DEFINE n == <<e, published[e]>>
  <2>1. n \in Copies /\ n[1] = e /\ n[2] = published[e]
    BY <1>2, CopyOfPublication DEF Route, TakenInv
  <2>2. copy[n] = "absent"
    BY <1>2, <2>1 DEF Route
  <2> HIDE DEF n
  <2>3. CASE bound
    <3>1. copy' = [copy EXCEPT ![n] = "ready"] /\ outcome' = [outcome EXCEPT ![e] = "taken"]
          /\ UNCHANGED <<bound, published, holder, stage, returns, up, receipts, crashes, deliveries>>
      BY <1>2, <2>3 DEF Route, n
    <3>2. TypeOK' /\ HoldInv' /\ LimitInv'
      BY <3>1, <2>1, <2>2
    <3>3. FreshInv'
      BY <3>1, <2>1
    <3> QED
      BY <3>2, <3>3
  <2>4. CASE ~bound
    BY <1>2, <2>4 DEF Route
  <2> QED
    BY <2>3, <2>4
<1>3. ASSUME NEW e \in Events, Confirm(e) PROVE QueueInv'
  BY <1>3 DEF Confirm
<1>4. ASSUME NEW e \in Events, LoseConfirm(e) PROVE QueueInv'
  BY <1>4 DEF LoseConfirm
<1>5. ASSUME NEW c \in Consumers, StartConsumer(c) PROVE QueueInv'
  BY <1>5 DEF StartConsumer
<1>6. ASSUME NEW c \in Consumers, Crash(c) PROVE QueueInv'
  <2>1. TypeOK' /\ HoldInv' /\ LimitInv'
    BY <1>6 DEF Crash
  <2>2. FreshInv'
    BY <1>6 DEF Crash
  <2> QED
    BY <2>1, <2>2
<1>7. ASSUME NEW c \in Consumers, NEW m \in Copies, Deliver(c, m) PROVE QueueInv'
  BY <1>7 DEF Deliver
<1>8. ASSUME NEW m \in Copies, RejectPoison(m) PROVE QueueInv'
  BY <1>8 DEF RejectPoison, Settle
<1>9. ASSUME NEW m \in Copies, IssueReceipt(m) PROVE QueueInv'
  BY <1>9 DEF IssueReceipt, Insert
<1>10. ASSUME NEW m \in Copies, IssueFails(m) PROVE QueueInv'
  <2>1. TypeOK' /\ HoldInv' /\ LimitInv'
    BY <1>10 DEF IssueFails, Insert, GiveBack, Settle
  <2>2. FreshInv'
    BY <1>10 DEF IssueFails, GiveBack, Settle
  <2> QED
    BY <2>1, <2>2
<1>11. ASSUME NEW m \in Copies, Ack(m) PROVE QueueInv'
  BY <1>11 DEF Ack, Settle
<1>12. CASE UNCHANGED vars
  BY <1>12 DEF vars
<1>13. CASE Bootstrap
  BY <1>13 DEF Bootstrap
<1>14. ASSUME NEW m \in Copies, Forward(m) PROVE QueueInv'
  BY <1>14 DEF Forward
<1> QED
  BY <1>1, <1>2, <1>3, <1>4, <1>5, <1>6, <1>7, <1>8, <1>9, <1>10, <1>11, <1>12, <1>13, <1>14
     DEF Next, Handle, Quiet

-----------------------------------------------------------------------------
\* INSERT ... ON CONFLICT DO NOTHING: afterwards the order has a receipt, no
\* receipt has gone, and no order has two.
LEMMA InsertIssues ==
    ASSUME TypeOK, OneReceiptPerOrder, NEW e \in Valid, Insert(e)
    PROVE  /\ HasReceipt(e)'
           /\ \A f \in Events : HasReceipt(f) => HasReceipt(f)'
           /\ OneReceiptPerOrder'
<1> USE DEF TypeOK, HasReceipt
<1>1. CASE HasReceipt(e)
  BY <1>1 DEF Insert, OneReceiptPerOrder
<1>2. CASE ~HasReceipt(e)
  <2>1. receipts' = [receipts EXCEPT ![e] = @ + 1] /\ receipts[e] = 0
    BY <1>2 DEF Insert
  <2>2. HasReceipt(e)'
    BY <2>1
  <2>3. \A f \in Events : HasReceipt(f) => HasReceipt(f)'
    BY <2>1
  <2>4. OneReceiptPerOrder'
    BY <2>1, <1>2 DEF OneReceiptPerOrder
  <2> QED
    BY <2>2, <2>3, <2>4
<1> QED
  BY <1>1, <1>2

\* Each step keeps the receipts unique and acks only what has one.
LEMMA ReceiptStep == QueueInv /\ ReceiptInv /\ [Next]_vars => ReceiptInv'
<1> SUFFICES ASSUME QueueInv, ReceiptInv, [Next]_vars PROVE ReceiptInv'
  OBVIOUS
<1> USE CopyShape DEF QueueInv, TypeOK, HoldInv, ReceiptInv, AckInv, AckedHasReceipt, queue, publisher
<1>1. ASSUME UNCHANGED receipts,
             \A m \in Copies : stage'[m] = "ack" => stage[m] = "ack",
             \A m \in Copies : copy'[m] = "acked" => copy[m] = "acked" \/ stage[m] = "ack"
      PROVE  ReceiptInv'
  BY <1>1 DEF HasReceipt, OneReceiptPerOrder
<1>2. ASSUME NEW e \in Events, Publish(e) \/ Route(e) \/ Confirm(e) \/ LoseConfirm(e) PROVE ReceiptInv'
  <2>1. UNCHANGED <<receipts, stage>>
    BY <1>2 DEF Publish, Route, Confirm, LoseConfirm
  <2>2. \A m \in Copies : copy'[m] = "acked" => copy[m] = "acked"
    BY <1>2 DEF Publish, Route, Confirm, LoseConfirm
  <2> QED
    BY <1>1, <2>1, <2>2
<1>3. ASSUME NEW c \in Consumers, StartConsumer(c) \/ Crash(c) \/ \E m \in Copies : Deliver(c, m)
      PROVE  ReceiptInv'
  <2>1. UNCHANGED receipts
    BY <1>3 DEF StartConsumer, Crash, Deliver
  <2>2. \A m \in Copies : stage'[m] = "ack" => stage[m] = "ack"
    BY ZenonT(60), <1>3 DEF StartConsumer, Crash, Deliver
  <2>3. \A m \in Copies : copy'[m] = "acked" => copy[m] = "acked"
    BY ZenonT(60), <1>3 DEF StartConsumer, Crash, Deliver
  <2> QED
    BY <1>1, <2>1, <2>2, <2>3
<1>4. ASSUME NEW m \in Copies, RejectPoison(m) \/ Ack(m) PROVE ReceiptInv'
  BY <1>1, <1>4 DEF RejectPoison, Ack, Settle
<1>5. ASSUME NEW m \in Copies, IssueReceipt(m) PROVE ReceiptInv'
  <2>1. m[1] \in Valid /\ Insert(m[1]) /\ UNCHANGED copy /\ stage' = [stage EXCEPT ![m] = "ack"]
    BY <1>5 DEF IssueReceipt
  <2>2. HasReceipt(m[1])' /\ (\A f \in Events : HasReceipt(f) => HasReceipt(f)') /\ OneReceiptPerOrder'
    BY <2>1, InsertIssues
  <2> QED
    BY <2>1, <2>2
<1>6. ASSUME NEW m \in Copies, IssueFails(m) PROVE ReceiptInv'
  <2>1. /\ \A n \in Copies : stage'[n] = "ack" => stage[n] = "ack"
        /\ \A n \in Copies : copy'[n] = "acked" => copy[n] = "acked"
    BY <1>6 DEF IssueFails, GiveBack, Settle
  <2>2. CASE UNCHANGED receipts
    BY <1>1, <2>1, <2>2
  <2>3. CASE Insert(m[1])
    <3>1. (\A f \in Events : HasReceipt(f) => HasReceipt(f)') /\ OneReceiptPerOrder'
      BY <1>6, <2>3, InsertIssues DEF IssueFails
    <3> QED
      BY <2>1, <3>1
  <2> QED
    BY <1>6, <2>2, <2>3 DEF IssueFails
<1>7. CASE UNCHANGED vars
  BY <1>1, <1>7 DEF vars
<1>8. CASE Bootstrap
  BY <1>1, <1>8 DEF Bootstrap
<1>9. ASSUME NEW m \in Copies, Forward(m) PROVE ReceiptInv'
  BY <1>1, <1>9 DEF Forward
<1> QED
  BY <1>2, <1>3, <1>4, <1>5, <1>6, <1>7, <1>8, <1>9 DEF Next, Handle, Quiet

\* Each step keeps what the publisher was told true: no copy is taken out of
\* existence once the broker has it.
LEMMA TakenStep == QueueInv /\ TakenInv /\ [Next]_vars => TakenInv'
<1> SUFFICES ASSUME QueueInv, TakenInv, [Next]_vars PROVE TakenInv'
  OBVIOUS
<1> USE DEF QueueInv, TypeOK, HoldInv, TakenInv, queue, publisher
<1>1. ASSUME UNCHANGED publisher,
             \A m \in Copies : copy[m] # "absent" => copy'[m] # "absent"
      PROVE  TakenInv'
  BY <1>1, CopyOfPublication
<1>2. ASSUME NEW e \in Events, Publish(e) PROVE TakenInv'
  BY <1>2 DEF Publish
<1>3. ASSUME NEW e \in Events, Route(e) PROVE TakenInv'
  <2> DEFINE n == <<e, published[e]>>
  <2>1. n \in Copies /\ published[e] \in 1..MaxCopies[e]
    BY <1>3, CopyOfPublication DEF Route
  <2>2. CASE bound
    <3>1. copy'[n] = "ready" /\ \A m \in Copies : copy[m] # "absent" => copy'[m] # "absent"
      BY <1>3, <2>1, <2>2 DEF Route
    <3>2. UNCHANGED published /\ outcome' = [outcome EXCEPT ![e] = "taken"]
      BY <1>3, <2>2 DEF Route
    <3>3. \A f \in Events : outcome'[f] \in {"sent", "taken", "returned"} => published'[f] > 0
      BY <3>2, <2>1
    <3>4. ASSUME NEW f \in Events, outcome'[f] \in {"taken", "ok"}
          PROVE  \E k \in 1..MaxCopies[f] : copy'[<<f, k>>] # "absent"
      <4>1. CASE f = e
        BY <4>1, <3>1, <2>1
      <4>2. CASE f # e
        BY SMTT(60), <4>2, <3>1, <3>2, <3>4, CopyOfPublication
      <4> QED
        BY <4>1, <4>2
    <3> QED
      BY <3>3, <3>4
  <2>3. CASE ~bound
    BY <1>3, <2>3 DEF Route
  <2> QED
    BY <2>2, <2>3
<1>4. ASSUME NEW e \in Events, Confirm(e) \/ LoseConfirm(e) PROVE TakenInv'
  <2>1. UNCHANGED <<published, copy>> /\ \A f \in Events : f # e => outcome'[f] = outcome[f]
    BY <1>4 DEF Confirm, LoseConfirm
  <2>2. outcome'[e] \in {"ok", "unroutable", "error"} /\ (outcome'[e] = "ok" => outcome[e] = "taken")
    BY <1>4 DEF Confirm, LoseConfirm
  <2> QED
    BY <2>1, <2>2
<1>5. ASSUME NEW c \in Consumers, StartConsumer(c) \/ Crash(c) \/ \E m \in Copies : Deliver(c, m)
      PROVE  TakenInv'
  <2>1. UNCHANGED publisher
    BY <1>5 DEF StartConsumer, Crash, Deliver
  <2>2. \A m \in Copies : copy[m] # "absent" => copy'[m] # "absent"
    BY ZenonT(60), <1>5 DEF StartConsumer, Crash, Deliver
  <2> QED
    BY <1>1, <2>1, <2>2
<1>6. ASSUME NEW m \in Copies, Handle(m) PROVE TakenInv'
  <2>1. UNCHANGED publisher
    BY <1>6 DEF Handle, RejectPoison, IssueReceipt, IssueFails, Ack
  <2>2. \A n \in Copies : copy[n] # "absent" => copy'[n] # "absent"
    BY <1>6 DEF Handle, RejectPoison, IssueReceipt, IssueFails, Ack, GiveBack, Settle
  <2> QED
    BY <1>1, <2>1, <2>2
<1>7. CASE UNCHANGED vars
  BY <1>7 DEF vars
<1>8. CASE Bootstrap
  BY <1>1, <1>8 DEF Bootstrap
<1>9. ASSUME NEW m \in Copies, Forward(m) PROVE TakenInv'
  BY <1>1, <1>9 DEF Forward
<1> QED
  BY <1>2, <1>3, <1>4, <1>5, <1>6, <1>7, <1>8, <1>9 DEF Next, Quiet

\* Each step dead-letters a valid event only at the limit, and inserts no receipt
\* for an event that does not parse.
LEMMA DeadStep == QueueInv /\ DeadInv /\ [Next]_vars => DeadInv'
<1> SUFFICES ASSUME QueueInv, DeadInv, [Next]_vars PROVE DeadInv'
  OBVIOUS
<1> USE CopyShape DEF QueueInv, TypeOK, HoldInv, LimitInv, DeadInv, DeadLettered, queue, publisher
<1>1. ASSUME NEW e \in Events, Publish(e) \/ Route(e) \/ Confirm(e) \/ LoseConfirm(e)
      PROVE  DeadInv'
  BY <1>1 DEF Publish, Route, Confirm, LoseConfirm
<1>2. ASSUME NEW c \in Consumers, StartConsumer(c) \/ \E m \in Copies : Deliver(c, m)
      PROVE  DeadInv'
  BY ZenonT(60), <1>2 DEF StartConsumer, Deliver
<1>3. ASSUME NEW c \in Consumers, Crash(c) PROVE DeadInv'
  BY <1>3 DEF Crash
<1>4. ASSUME NEW m \in Copies, RejectPoison(m) \/ Ack(m) PROVE DeadInv'
  BY <1>4 DEF RejectPoison, Ack, Settle
<1>5. ASSUME NEW m \in Copies, IssueReceipt(m) PROVE DeadInv'
  BY <1>5 DEF IssueReceipt, Insert
<1>6. ASSUME NEW m \in Copies, IssueFails(m) PROVE DeadInv'
  BY <1>6 DEF IssueFails, Insert, GiveBack, Settle
<1>7. CASE UNCHANGED vars
  BY <1>7 DEF vars
<1>8. CASE Bootstrap
  BY <1>8 DEF Bootstrap
<1>9. ASSUME NEW m \in Copies, Forward(m) PROVE DeadInv'
  BY <1>9 DEF Forward
<1> QED
  BY <1>1, <1>2, <1>3, <1>4, <1>5, <1>6, <1>7, <1>8, <1>9 DEF Next, Handle, Quiet

\* Each step keeps the count of deliveries: one more for each copy that is handed
\* out, one less owed for each that is given back.
LEMMA CountStep == QueueInv /\ TakenInv /\ CountInv /\ [Next]_vars => CountInv'
<1> SUFFICES ASSUME QueueInv, TakenInv, CountInv, [Next]_vars PROVE CountInv'
  OBVIOUS
<1> USE CopyShape DEF QueueInv, TypeOK, HoldInv, LimitInv, FreshInv, CountInv, queue, publisher
<1>1. ASSUME NEW e \in Events, Publish(e) \/ Confirm(e) \/ LoseConfirm(e) PROVE CountInv'
  BY <1>1 DEF Publish, Confirm, LoseConfirm
<1>2. ASSUME NEW e \in Events, Route(e) PROVE CountInv'
  <2> DEFINE n == <<e, published[e]>>
  <2>1. n \in Copies /\ n[1] = e /\ n[2] = published[e]
    BY <1>2, CopyOfPublication DEF Route, TakenInv
  <2>2. copy[n] = "absent"
    BY <1>2, <2>1 DEF Route
  <2> QED
    BY <1>2, <2>1, <2>2 DEF Route
<1>3. ASSUME NEW c \in Consumers, StartConsumer(c) PROVE CountInv'
  BY <1>3 DEF StartConsumer
<1>4. ASSUME NEW c \in Consumers, NEW m \in Copies, Deliver(c, m) PROVE CountInv'
  BY <1>4 DEF Deliver
<1>5. ASSUME NEW c \in Consumers, Crash(c) PROVE CountInv'
  BY <1>5 DEF Crash
<1>6. ASSUME NEW m \in Copies, RejectPoison(m) \/ Ack(m) PROVE CountInv'
  BY <1>6 DEF RejectPoison, Ack, Settle
<1>7. ASSUME NEW m \in Copies, IssueReceipt(m) PROVE CountInv'
  BY <1>7 DEF IssueReceipt
<1>8. ASSUME NEW m \in Copies, IssueFails(m) PROVE CountInv'
  BY <1>8 DEF IssueFails, GiveBack, Settle
<1>9. ASSUME NEW m \in Copies, Forward(m) PROVE CountInv'
  BY <1>9 DEF Forward
<1>10. CASE UNCHANGED vars
  BY <1>10 DEF vars
<1>11. CASE Bootstrap
  BY <1>11 DEF Bootstrap
<1> QED
  BY <1>1, <1>2, <1>3, <1>4, <1>5, <1>6, <1>7, <1>8, <1>9, <1>10, <1>11 DEF Next, Handle, Quiet

-----------------------------------------------------------------------------
\* The invariant holds throughout, for every value of the constants.
LEMMA Invariance == Spec => []IInv
<1>1. IInv /\ [Next]_vars => IInv'
  BY QueueStep, ReceiptStep, TakenStep, DeadStep, CountStep DEF IInv
<1> QED
  BY InitIInv, <1>1, PTL DEF Spec

\* The queue, the publishers and the consumers stay in their types: a copy is
\* given back at most DeliveryLimit + 1 times.
THEOREM TypeCorrect == Spec => []TypeOK
<1>1. IInv => TypeOK
  BY DEF IInv, QueueInv
<1> QED
  BY Invariance, <1>1, PTL

\* However often an event is published and delivered, to however many consumers,
\* an order gets at most one receipt.
THEOREM OneReceiptPerOrderHolds == Spec => []OneReceiptPerOrder
<1>1. IInv => OneReceiptPerOrder
  BY DEF IInv, ReceiptInv
<1> QED
  BY Invariance, <1>1, PTL

\* The queue forgets a copy only if its order has a receipt.
THEOREM AckedHasReceiptHolds == Spec => []AckedHasReceipt
<1>1. IInv => AckedHasReceipt
  BY DEF IInv, ReceiptInv
<1> QED
  BY Invariance, <1>1, PTL

\* What publishEvent resolved for has its receipt, is in the queue or at a
\* consumer, or was given up: as poison, or after more than DeliveryLimit
\* deliveries.  The dead-letter hop, which may lose it, is the only one that does.
THEOREM LostOnlyByGivingUpHolds == Spec => []LostOnlyByGivingUp
<1>1. IInv => LostOnlyByGivingUp
  <2> SUFFICES ASSUME IInv, NEW e \in Events, outcome[e] = "ok", ~HasReceipt(e)
               PROVE  \E k \in 1..MaxCopies[e] :
                         \/ copy[<<e, k>>] \in {"ready", "unacked"}
                         \/ /\ DeadLettered(<<e, k>>)
                            /\ e \in Valid => deliveries[<<e, k>>] > DeliveryLimit
    BY DEF LostOnlyByGivingUp
  <2>1. PICK k \in 1..MaxCopies[e] : copy[<<e, k>>] # "absent"
    BY DEF IInv, TakenInv
  <2> DEFINE n == <<e, k>>
  <2>2. n \in Copies /\ n[1] = e
    BY CopyOfPublication
  <2> HIDE DEF n
  <2>3. copy[n] \in {"absent", "ready", "unacked", "acked", "dying", "dead", "lost"}
    BY <2>2 DEF IInv, QueueInv, TypeOK
  <2>4. copy[n] # "acked"
    BY <2>2 DEF IInv, ReceiptInv, AckedHasReceipt
  <2>5. CASE copy[n] \in {"dying", "dead", "lost"}
    <3>1. DeadLettered(n)
      BY <2>5 DEF DeadLettered
    <3>2. e \in Valid => returns[n] > DeliveryLimit
      BY <2>2, <3>1 DEF IInv, DeadInv
    <3>3. returns[n] <= deliveries[n] /\ returns[n] \in Nat /\ deliveries[n] \in Nat
      BY <2>2 DEF IInv, CountInv, QueueInv, TypeOK
    <3>4. e \in Valid => deliveries[n] > DeliveryLimit
      BY <3>2, <3>3
    <3> QED
      BY <3>1, <3>4 DEF n
  <2> QED
    BY <2>1, <2>3, <2>4, <2>5 DEF n
<1> QED
  BY Invariance, <1>1, PTL

\* A copy of an event that parses is given up at its delivery number
\* DeliveryLimit + 1, or one later for each lost connection.
THEOREM GivesUpAtTheLimitHolds == Spec => []GivesUpAtTheLimit
<1>1. IInv => GivesUpAtTheLimit
  <2> SUFFICES ASSUME IInv, NEW m \in Copies
               PROVE  /\ deliveries[m] <= DeliveryLimit + 1 + crashes
                      /\ DeadLettered(m) /\ m[1] \in Valid => deliveries[m] > DeliveryLimit
    BY DEF GivesUpAtTheLimit
  <2>1. /\ returns[m] \in 0..(DeliveryLimit + 1) /\ deliveries[m] \in Nat /\ crashes \in Nat
        /\ returns[m] <= deliveries[m] /\ deliveries[m] <= returns[m] + crashes + 1
        /\ returns[m] > DeliveryLimit => deliveries[m] <= returns[m] + crashes
    BY DEF IInv, CountInv, QueueInv, TypeOK
  <2>2. DeadLettered(m) /\ m[1] \in Valid => returns[m] > DeliveryLimit
    BY DEF IInv, DeadInv
  <2> QED
    BY <2>1, <2>2
<1> QED
  BY Invariance, <1>1, PTL
=============================================================================
