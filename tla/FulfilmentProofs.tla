-------------------------- MODULE FulfilmentProofs --------------------------
(***************************************************************************)
(* What module Fulfilment guarantees for every set of orders, disputes and *)
(* workers and any number of parcels: what the order's status says of its  *)
(* shipment and disputes is on record, and the shipment is a consignment.  *)
(***************************************************************************)
EXTENDS Fulfilment, TLAPS

\* What a slot holds at each await.  Whoever is about to advance the order for a
\* booking, a webhook or a dispute has saved that before.
SlotInv == \A w \in Workers :
  /\ pc[w] \in {"insert", "deliver", "advance", "save"} => ord[w] \in Orders
  /\ pc[w] = "insert" =>
       mem[w] \in Shipment /\ mem[w].status = "booked" /\ mem[w].parcel <= parcels[ord[w]]
  /\ pc[w] = "deliver" =>
       /\ mem[w] \in Shipment /\ mem[w].parcel = shipment[ord[w]].parcel
       /\ mem[w].parcel \in arrived[ord[w]] /\ "Delivered" \in events[ord[w]]
  /\ pc[w] \in {"advance", "save"} =>
       /\ tgt[w] \in OrderStatus
       /\ tgt[w] \notin byHand[ord[w]] =>
            \/ tgt[w] = "SHIPMENT_BOOKED" /\ shipment[ord[w]] # NoShipment
            \/ tgt[w] = "DELIVERED" /\ shipment[ord[w]].status = "delivered"
            \/ tgt[w] = "DISPUTE_OPEN" /\ \E d \in Disputes : dispute[d].order = ord[w]
       /\ mem[w] # NoShipment => mem[w] \in Shipment
  /\ pc[w] = "reopen" => ord[w] \in Disputes /\ dispute[ord[w]] # NoDispute

\* A shipment is of a parcel the courier has made.
ParcelInv == \A o \in Orders : shipment[o] # NoShipment => shipment[o].parcel <= parcels[o]

IInv == TypeOK /\ SlotInv /\ ParcelInv /\ BookedHasShipment /\ DeliveredIsTrue /\ DisputeIsRecorded

\* The initial states satisfy the inductive invariant.
LEMMA InitIInv == Init => IInv
<1> SUFFICES ASSUME Init PROVE IInv
  OBVIOUS
<1> USE FulfilmentAssumption DEF Init
<1>1. TypeOK
  <2>1. "PAID" \in OrderStatus
    BY DEF OrderStatus
  <2>2. quiet \in BOOLEAN
    BY Zenon
  <2> QED
    BY <2>1, <2>2 DEF TypeOK
<1>2. SlotInv /\ ParcelInv /\ BookedHasShipment /\ DeliveredIsTrue /\ DisputeIsRecorded
  BY DEF SlotInv, ParcelInv, BookedHasShipment, DeliveredIsTrue, DisputeIsRecorded, NoShipment
<1> QED
  BY <1>1, <1>2 DEF IInv

\* Every step keeps it.
LEMMA NextIInv == ASSUME IInv, [Next]_vars PROVE IInv'
<1> USE FulfilmentAssumption
    DEF IInv, TypeOK, SlotInv, ParcelInv, BookedHasShipment, DeliveredIsTrue, DisputeIsRecorded,
        Shipment, NoShipment, Dispute, NoDispute, Providers, Parcels, News, rows, cases, courier, slot
<1>0. {"PAID", "SHIPMENT_BOOKED", "DELIVERED", "DISPUTE_OPEN"} \subseteq OrderStatus
  BY DEF OrderStatus
<1>1. ASSUME NEW w \in Workers, AdvanceRead(w) PROVE IInv'
  <2>1. TypeOK'
    <3> HIDE DEF Shipment, NoShipment, Dispute, NoDispute
    <3> QED
      BY <1>1, <1>0 DEF AdvanceRead, Await, Finish
  <2>2. SlotInv'
    BY <1>1, <1>0 DEF AdvanceRead, Await, Finish
  <2>3. (ParcelInv /\ BookedHasShipment /\ DeliveredIsTrue /\ DisputeIsRecorded)'
    BY <1>1, <1>0 DEF AdvanceRead, Await, Finish
  <2> QED
    BY <2>1, <2>2, <2>3
<1>2. ASSUME NEW w \in Workers, AdvanceSave(w) PROVE IInv'
  <2>1. TypeOK'
    BY <1>2, <1>0 DEF AdvanceSave, Await, Finish
  <2>2. SlotInv'
    BY <1>2, <1>0 DEF AdvanceSave, Await, Finish
  <2>3. (ParcelInv /\ BookedHasShipment /\ DeliveredIsTrue /\ DisputeIsRecorded)'
    BY <1>2, <1>0 DEF AdvanceSave, Await, Finish
  <2> QED
    BY <2>1, <2>2, <2>3
<1>3. ASSUME NEW w \in Workers, InsertShipment(w) PROVE IInv'
  <2>1. TypeOK'
    <3>1. mem[w] \in Shipment /\ ord[w] \in Orders
      BY <1>3 DEF InsertShipment
    <3> HIDE DEF Shipment, NoShipment, Dispute, NoDispute
    <3>2. shipment' \in [Orders -> Shipment \cup {NoShipment}]
      BY <1>3, <3>1 DEF InsertShipment
    <3>3. CASE shipment[ord[w]] = NoShipment
      BY <1>3, <1>0, <3>1, <3>2, <3>3 DEF InsertShipment, AdvanceTo, Await
    <3>4. CASE shipment[ord[w]] # NoShipment
      BY <1>3, <3>2, <3>4 DEF InsertShipment, Await, Finish
    <3> QED
      BY <3>3, <3>4
  <2>2. SlotInv'
    BY <1>3, <1>0 DEF InsertShipment, AdvanceTo, Await, Finish
  <2>3. (ParcelInv /\ BookedHasShipment /\ DeliveredIsTrue /\ DisputeIsRecorded)'
    <3>1. CASE shipment[ord[w]] = NoShipment
      <4>1. /\ mem[w] # NoShipment /\ mem[w].status = "booked"
            /\ mem[w].parcel <= parcels[ord[w]] /\ ord[w] \in Orders
        BY <1>3 DEF InsertShipment
      <4>2. shipment' = [shipment EXCEPT ![ord[w]] = mem[w]]
        BY <1>3, <3>1 DEF InsertShipment
      <4> HIDE DEF Shipment, NoShipment, Dispute, NoDispute
      <4>3. \A o \in Orders : order[o] = "DELIVERED" /\ "DELIVERED" \notin byHand[o]
                              => shipment[o].status = "delivered"
        OBVIOUS
      <4>4. NoShipment.status = "none"
        BY DEF NoShipment
      <4> QED
        BY <1>3, <3>1, <4>1, <4>2, <4>3, <4>4 DEF InsertShipment
    <3>2. CASE shipment[ord[w]] # NoShipment
      BY <1>3, <3>2 DEF InsertShipment
    <3> QED
      BY <3>1, <3>2
  <2> QED
    BY <2>1, <2>2, <2>3
<1>4. ASSUME NEW w \in Workers, WebhookDeliver(w) PROVE IInv'
  <2>1. TypeOK'
    BY <1>4, <1>0 DEF WebhookDeliver, Await
  <2>2. SlotInv'
    BY <1>4, <1>0 DEF WebhookDeliver, Await
  <2>3. (ParcelInv /\ BookedHasShipment /\ DeliveredIsTrue /\ DisputeIsRecorded)'
    BY <1>4, <1>0 DEF WebhookDeliver, Await
  <2> QED
    BY <2>1, <2>2, <2>3
<1>5. ASSUME NEW w \in Workers, ReopenSave(w) PROVE IInv'
  BY <1>5, <1>0 DEF ReopenSave, Await, Finish
<1>6. ASSUME NEW w \in Workers, Abort(w) PROVE IInv'
  BY <1>6, <1>0 DEF Abort, Await, Finish
<1>7. ASSUME NEW w \in Workers, NEW o \in Orders, NEW s \in Patches, Patch(w, o, s) PROVE IInv'
  BY <1>7, <1>0 DEF Patch, AdvanceTo, Await
<1>8. ASSUME NEW w \in Workers, NEW o \in Orders, NEW p \in Providers, Book(w, o, p) PROVE IInv'
  BY <1>8, <1>0 DEF Book, CreateParcel, Await
<1>9. ASSUME NEW w \in Workers, NEW o \in Orders, NEW n \in Parcels, NEW s \in {"Moving",
             "Delivered"}, Webhook(w, o, n, s)
      PROVE IInv'
  <2>1. TypeOK'
    <3> HIDE DEF Shipment, NoShipment, Dispute, NoDispute
    <3>1. CASE s = "Delivered"
      BY <1>9, <1>0, <3>1 DEF Webhook, Consigned, Await
    <3>2. CASE s # "Delivered"
      BY <1>9, <3>2 DEF Webhook
    <3> QED
      BY <3>1, <3>2
  <2>2. SlotInv'
    BY <1>9, <1>0 DEF Webhook, Consigned, Await
  <2>3. (ParcelInv /\ BookedHasShipment /\ DeliveredIsTrue /\ DisputeIsRecorded)'
    BY <1>9, <1>0 DEF Webhook, Consigned, Await
  <2> QED
    BY <2>1, <2>2, <2>3
<1>10. ASSUME NEW o \in Orders, NEW n \in Parcels, WebhookUnknown(o, n) PROVE IInv'
  BY <1>10, <1>0 DEF WebhookUnknown
<1>11. ASSUME NEW o \in Orders, NEW n \in Parcels, Arrive(o, n) PROVE IInv'
  BY <1>11, <1>0 DEF Arrive
<1>12. ASSUME NEW w \in Workers, NEW o \in Orders, NEW d \in Disputes, OpenDispute(w, o, d) PROVE IInv'
  BY <1>12, <1>0 DEF OpenDispute, AdvanceTo, Await
<1>13. ASSUME NEW d \in Disputes, AddEvidence(d) PROVE IInv'
  BY <1>13, <1>0 DEF AddEvidence
<1>14. ASSUME NEW d \in Disputes, Resolve(d) PROVE IInv'
  BY <1>14, <1>0 DEF Resolve
<1>15. ASSUME NEW w \in Workers, NEW d \in Disputes, ReopenRead(w, d) PROVE IInv'
  <2>1. TypeOK'
    BY <1>15, <1>0 DEF ReopenRead, Await
  <2>2. SlotInv'
    BY <1>15, <1>0 DEF ReopenRead, Await
  <2>3. (ParcelInv /\ BookedHasShipment /\ DeliveredIsTrue /\ DisputeIsRecorded)'
    BY <1>15, <1>0 DEF ReopenRead, Await
  <2> QED
    BY <2>1, <2>2, <2>3
<1>16. CASE UNCHANGED vars
  BY <1>16 DEF vars
<1> HIDE DEF IInv
<1> QED
  BY <1>1, <1>2, <1>3, <1>4, <1>5, <1>6, <1>7, <1>8, <1>9, <1>10, <1>11, <1>12, <1>13,
     <1>14, <1>15, <1>16
  DEF Next, LogisticsRequest, DisputesRequest, Progress

\* The inductive invariant: every reachable state satisfies it.
THEOREM Invariance == Spec => []IInv
<1>1. Init => IInv
  BY InitIInv
<1>2. IInv /\ [Next]_vars => IInv'
  BY NextIInv
<1> QED
  BY <1>1, <1>2, PTL DEF Spec

\* Every variable keeps its type.
THEOREM TypeCorrect == Spec => []TypeOK
<1>1. IInv => TypeOK
  BY DEF IInv
<1> QED
  BY <1>1, Invariance, PTL

\* bookShipment inserts the row before it advances the order, so whatever fails or
\* runs in between, a booked order that nobody moved by a PATCH has its shipment.
THEOREM BookedFirst == Spec => []BookedHasShipment
<1>1. IInv => BookedHasShipment
  BY DEF IInv
<1> QED
  BY <1>1, Invariance, PTL

\* The webhook records the event, saves the shipment and then advances the order, for
\* the parcel the row names: no early, late or repeated webhook reports a delivery
\* that was none.
THEOREM DeliveriesAreTrue == Spec => []DeliveredIsTrue
<1>1. IInv => DeliveredIsTrue
  BY DEF IInv
<1> QED
  BY <1>1, Invariance, PTL

\* openDispute inserts the dispute before it advances the order.
THEOREM DisputesAreRecorded == Spec => []DisputeIsRecorded
<1>1. IInv => DisputeIsRecorded
  BY DEF IInv
<1> QED
  BY <1>1, Invariance, PTL

\* The shipments table, with bookings and webhooks running and failing at any await,
\* implements the consignment of each order to one parcel.
THEOREM Refinement == Spec => ImplementsConsignment
<1> DEFINE cons == [o \in Orders |-> shipment[o].parcel]
           rep  == {o \in Orders : shipment[o].status = "delivered"}
<1>1. Init => Shipped!Init
  BY DEF Init, Shipped!Init, NoShipment
<1>2. IInv /\ [Next]_vars => [Shipped!Next]_(Shipped!vars)
  <2> SUFFICES ASSUME IInv, [Next]_vars PROVE [Shipped!Next]_(Shipped!vars)
    OBVIOUS
  <2>0. TypeOK /\ SlotInv /\ DeliveredIsTrue
    BY DEF IInv
  <2>1. ASSUME NEW w \in Workers, InsertShipment(w), shipment[ord[w]] = NoShipment
        PROVE  Shipped!Next
    <3>1. /\ ord[w] \in Orders /\ mem[w].parcel \in Parcels /\ mem[w].status = "booked"
          /\ shipment' = [shipment EXCEPT ![ord[w]] = mem[w]] /\ arrived' = arrived
      BY <2>0, <2>1 DEF InsertShipment, SlotInv, Shipment, courier
    <3>2. cons[ord[w]] = 0 /\ cons' = [cons EXCEPT ![ord[w]] = mem[w].parcel]
      <4>1. NoShipment.parcel = 0
        BY DEF NoShipment
      <4>2. \A o \in Orders : shipment'[o] = IF o = ord[w] THEN mem[w] ELSE shipment[o]
        BY <2>0, <3>1 DEF TypeOK
      <4> QED
        BY <2>1, <3>1, <4>1, <4>2
    <3>3. rep' = rep
      BY <2>0, <2>1, <3>1 DEF TypeOK, NoShipment
    <3> QED
      BY <3>1, <3>2, <3>3 DEF Shipped!Next, Shipped!Consign
  <2>2. ASSUME NEW w \in Workers, WebhookDeliver(w) PROVE Shipped!Next
    <3>1. /\ ord[w] \in Orders /\ mem[w].parcel = shipment[ord[w]].parcel
          /\ mem[w] \in Shipment /\ mem[w].parcel \in arrived[ord[w]] /\ arrived' = arrived
          /\ shipment' = [shipment EXCEPT ![ord[w]] = [mem[w] EXCEPT !.status = "delivered"]]
      BY <2>0, <2>2 DEF WebhookDeliver, SlotInv, courier
    <3>2. cons' = cons /\ cons[ord[w]] \in arrived[ord[w]]
      BY <2>0, <3>1 DEF TypeOK, Shipment
    <3>3. rep' = rep \cup {ord[w]}
      BY <2>0, <3>1 DEF TypeOK, Shipment
    <3> QED
      BY <3>1, <3>2, <3>3 DEF Shipped!Next, Shipped!Report
  <2>3. ASSUME NEW o \in Orders, NEW n \in Parcels, Arrive(o, n) PROVE Shipped!Next
    BY <2>3 DEF Arrive, rows, Shipped!Next, Shipped!Arrive
  <2>4. CASE shipment' = shipment /\ arrived' = arrived
    BY <2>4 DEF Shipped!vars
  <2>5. CASE \E w \in Workers : InsertShipment(w)
    BY <2>1, <2>4, <2>5 DEF InsertShipment, courier
  <2> QED
    BY <2>2, <2>3, <2>4, <2>5
    DEF Next, LogisticsRequest, DisputesRequest, Progress, AdvanceRead, AdvanceSave, ReopenSave,
        Abort, Patch, Book, Webhook, WebhookUnknown, OpenDispute, AddEvidence, Resolve, ReopenRead,
        rows, courier, vars
<1> QED
  BY <1>1, <1>2, Invariance, PTL DEF Spec, ImplementsConsignment, Shipped!Spec
=============================================================================
