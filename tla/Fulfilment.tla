----------------------------- MODULE Fulfilment -----------------------------
(***************************************************************************)
(* From a paid order to its delivery and its disputes: booking a courier   *)
(* (logistics/logistics.service.ts), the courier's webhook, disputes       *)
(* (disputes/disputes.service.ts) and their reopening by administrators.   *)
(* The n-th parcel a courier makes for an order is the number n.           *)
(***************************************************************************)
EXTENDS OrderStatus, Naturals, FiniteSets

CONSTANTS
  Orders,      \* the orders
  NoOrder,     \* a request that handles no order
  Disputes,    \* the rows the disputes table may hold
  Workers,     \* the slots of concurrent requests and webhooks
  Patches,     \* bound: statuses asked for by PATCH orders/:id/status
  MaxParcels   \* bound: parcels made for one order

ASSUME FulfilmentAssumption ==
  NoOrder \notin Orders /\ Patches \subseteq OrderStatus /\ MaxParcels \in Nat

VARIABLES
  order,      \* order -> its status
  shipment,   \* order -> its shipments row
  events,     \* order -> the statuses recorded in shipment_events
  dispute,    \* id -> its disputes row
  evidence,   \* the disputes with evidence
  parcels,    \* order -> the number of parcels couriers made for it
  arrived,    \* order -> the parcels couriers have delivered
  told,       \* order -> the parcels whose Delivered webhook was answered with 200
  pc, ord,    \* worker -> the next await to return, the order it handles
  tgt,        \* worker -> the status it advances the order to
  mem,        \* worker -> the shipment it has in memory
  byHand,     \* history: order -> the statuses a PATCH gave it
  quiet       \* no call fails any more and the server does not restart

rows    == <<shipment, events>>
cases   == <<dispute, evidence>>
courier == <<parcels, arrived, told>>
slot    == <<pc, ord, tgt, mem>>
vars    == <<order, byHand, rows, cases, courier, slot, quiet>>

\* Only pathao calls a webhook; paperfly, redx and ecourier are one to the service.
Providers   == {"pathao", "other"}
Parcels     == 1 .. MaxParcels
Shipment    == [provider : Providers, parcel : Parcels, status : {"booked", "delivered"}]
NoShipment  == [provider |-> "none", parcel |-> 0, status |-> "none"]
News        == {"Moving", "Delivered"}   \* what the courier reports: the event's status
\* "resolved" stands for resolved_seller, resolved_buyer and closed.
Dispute     == [order : Orders, status : {"open", "resolved"}]
NoDispute   == [order |-> NoOrder, status |-> "none"]

TypeOK ==
  /\ order \in [Orders -> OrderStatus]
  /\ shipment \in [Orders -> Shipment \cup {NoShipment}]
  /\ events \in [Orders -> SUBSET News]
  /\ dispute \in [Disputes -> Dispute \cup {NoDispute}]
  /\ evidence \subseteq Disputes
  /\ parcels \in [Orders -> 0 .. MaxParcels]
  /\ arrived \in [Orders -> SUBSET Parcels] /\ told \in [Orders -> SUBSET Parcels]
  /\ pc \in [Workers -> {"idle", "insert", "deliver", "advance", "save", "reopen"}]
  /\ ord \in [Workers -> Orders \cup Disputes \cup {NoOrder}]
  /\ tgt \in [Workers -> OrderStatus \cup {NONE}]
  /\ mem \in [Workers -> Shipment \cup {NoShipment}]
  /\ byHand \in [Orders -> SUBSET OrderStatus]
  /\ quiet \in BOOLEAN

Init ==
  /\ order = [o \in Orders |-> "PAID"]
  /\ shipment = [o \in Orders |-> NoShipment]
  /\ events = [o \in Orders |-> {}]
  /\ dispute = [d \in Disputes |-> NoDispute] /\ evidence = {}
  /\ parcels = [o \in Orders |-> 0]
  /\ arrived = [o \in Orders |-> {}] /\ told = [o \in Orders |-> {}]
  /\ pc = [w \in Workers |-> "idle"] /\ ord = [w \in Workers |-> NoOrder]
  /\ tgt = [w \in Workers |-> NONE] /\ mem = [w \in Workers |-> NoShipment]
  /\ byHand = [o \in Orders |-> {}]
  /\ quiet \in BOOLEAN

Await(w, at, x, s, m) ==
  /\ pc' = [pc EXCEPT ![w] = at]
  /\ ord' = [ord EXCEPT ![w] = x]
  /\ tgt' = [tgt EXCEPT ![w] = s]
  /\ mem' = [mem EXCEPT ![w] = m]

AdvanceTo(w, o, s) == Await(w, "advance", o, s, NoShipment)
Finish(w)          == Await(w, "idle", NoOrder, NONE, NoShipment)

\* Mutant: any shipment of the order will do.
ConsignedAny(o, n) == shipment[o].provider = "pathao"

\* The order's row in shipments is the one with parcel n's consignment_id.
Consigned(o, n) == shipment[o].provider = "pathao" /\ shipment[o].parcel = n

-----------------------------------------------------------------------------
\* OrdersService.advanceStatus: read and check ...
AdvanceRead(w) ==
  /\ pc[w] = "advance"
  /\ IF tgt[w] \in ORDER_TRANSITIONS[order[ord[w]]]
     THEN Await(w, "save", ord[w], tgt[w], mem[w])
     ELSE Finish(w)
  /\ UNCHANGED <<order, byHand, rows, cases, courier, quiet>>

\* ... then save.  The courier's webhook has nothing left to do but answer.
AdvanceSave(w) ==
  /\ pc[w] = "save"
  /\ order' = [order EXCEPT ![ord[w]] = tgt[w]]
  /\ told' = IF tgt[w] = "DELIVERED" /\ mem[w] # NoShipment
             THEN [told EXCEPT ![ord[w]] = @ \cup {mem[w].parcel}] ELSE told
  /\ Finish(w)
  /\ UNCHANGED <<byHand, rows, cases, parcels, arrived, quiet>>

\* PATCH orders/:id/status.
Patch(w, o, s) ==
  /\ pc[w] = "idle"
  /\ byHand' = [byHand EXCEPT ![o] = @ \cup {s}]
  /\ AdvanceTo(w, o, s)
  /\ UNCHANGED <<order, rows, cases, courier, quiet>>

-----------------------------------------------------------------------------
\* The courier takes the order's address and makes one more parcel for it.
CreateParcel(o) == parcels' = [parcels EXCEPT ![o] = @ + 1]

\* Mutants: the status is left to the column's default; the order is advanced and the
\* row comes after; the row is saved over the one the order has.
BookPending(w, o, p) ==
  /\ pc[w] = "idle" /\ parcels[o] < MaxParcels
  /\ CreateParcel(o)
  /\ Await(w, "insert", o, "SHIPMENT_BOOKED",
           [provider |-> p, parcel |-> parcels[o] + 1, status |-> "pending"])
  /\ UNCHANGED <<order, byHand, rows, cases, arrived, told, quiet>>

AdvanceFirst(w) ==
  /\ pc[w] = "insert"
  /\ AdvanceTo(w, ord[w], "SHIPMENT_BOOKED")
  /\ UNCHANGED <<order, byHand, rows, cases, courier, quiet>>

InsertOver(w) ==
  /\ pc[w] = "insert"
  /\ shipment' = [shipment EXCEPT ![ord[w]] = mem[w]]
  /\ AdvanceTo(w, ord[w], "SHIPMENT_BOOKED")
  /\ UNCHANGED <<order, byHand, events, cases, courier, quiet>>

\* bookShipment: the courier makes a parcel, whatever the order's status ...
Book(w, o, p) ==
  /\ pc[w] = "idle"
  /\ parcels[o] < MaxParcels
  /\ CreateParcel(o)
  /\ Await(w, "insert", o, "SHIPMENT_BOOKED",
           [provider |-> p, parcel |-> parcels[o] + 1, status |-> "booked"])
  /\ UNCHANGED <<order, byHand, rows, cases, arrived, told, quiet>>

\* ... then the row is inserted; order_id is unique, so a second one is refused ...
InsertShipment(w) ==
  /\ pc[w] = "insert"
  /\ IF shipment[ord[w]] = NoShipment
     THEN /\ shipment' = [shipment EXCEPT ![ord[w]] = mem[w]]
          /\ AdvanceTo(w, ord[w], "SHIPMENT_BOOKED")
     ELSE shipment' = shipment /\ Finish(w)
  /\ UNCHANGED <<order, byHand, events, cases, courier, quiet>>

\* Mutant: a webhook whose event is on record is taken for a duplicate.
WebhookOnce(w, o, n, s) ==
  /\ pc[w] = "idle" /\ n <= parcels[o]
  /\ s = "Delivered" => n \in arrived[o]
  /\ Consigned(o, n) /\ s \notin events[o]
  /\ events' = [events EXCEPT ![o] = @ \cup {s}]
  /\ IF s = "Delivered" THEN Await(w, "deliver", o, "DELIVERED", shipment[o]) ELSE UNCHANGED slot
  /\ UNCHANGED <<order, byHand, shipment, cases, courier, quiet>>

\* Pathao's webhook about parcel n, at any time and any number of times: find the row
\* and record the event ...
Webhook(w, o, n, s) ==
  /\ pc[w] = "idle"
  /\ n <= parcels[o]
  /\ s = "Delivered" => n \in arrived[o]
  /\ Consigned(o, n)
  /\ events' = [events EXCEPT ![o] = @ \cup {s}]
  /\ IF s = "Delivered" THEN Await(w, "deliver", o, "DELIVERED", shipment[o]) ELSE UNCHANGED slot
  /\ UNCHANGED <<order, byHand, shipment, cases, courier, quiet>>

\* ... or answer 200 when no row is found ...
WebhookUnknown(o, n) ==
  /\ n \in arrived[o] /\ ~Consigned(o, n)
  /\ told' = [told EXCEPT ![o] = @ \cup {n}]
  /\ UNCHANGED <<order, byHand, rows, cases, parcels, arrived, slot, quiet>>

\* ... and on a delivery save the row and advance the order.
WebhookDeliver(w) ==
  /\ pc[w] = "deliver"
  /\ shipment' = [shipment EXCEPT ![ord[w]] = [mem[w] EXCEPT !.status = "delivered"]]
  /\ Await(w, "advance", ord[w], "DELIVERED", mem[w])
  /\ UNCHANGED <<order, byHand, events, cases, courier, quiet>>

\* The courier delivers a parcel.
Arrive(o, n) ==
  /\ n <= parcels[o] /\ n \notin arrived[o]
  /\ arrived' = [arrived EXCEPT ![o] = @ \cup {n}]
  /\ UNCHANGED <<order, byHand, rows, cases, parcels, told, slot, quiet>>

-----------------------------------------------------------------------------
\* Mutant: the order is advanced, and the dispute inserted afterwards.
OpenUnrecorded(w, o, d) ==
  /\ pc[w] = "idle" /\ dispute[d] = NoDispute
  /\ AdvanceTo(w, o, "DISPUTE_OPEN")
  /\ UNCHANGED <<order, byHand, rows, cases, courier, quiet>>

\* openDispute: insert the dispute, then advance the order.  (openDisputePublic
\* sets no raised_by_user_id, which the column does not allow: its insert fails.)
OpenDispute(w, o, d) ==
  /\ pc[w] = "idle"
  /\ dispute[d] = NoDispute
  /\ dispute' = [dispute EXCEPT ![d] = [order |-> o, status |-> "open"]]
  /\ AdvanceTo(w, o, "DISPUTE_OPEN")
  /\ UNCHANGED <<order, byHand, rows, evidence, courier, quiet>>

AddEvidence(d) ==
  /\ dispute[d] # NoDispute
  /\ evidence' = evidence \cup {d}
  /\ UNCHANGED <<order, byHand, rows, dispute, courier, slot, quiet>>

\* resolve: save the resolution, whatever the dispute's status; the order and its
\* hold are left alone.
Resolve(d) ==
  /\ dispute[d] # NoDispute
  /\ dispute' = [dispute EXCEPT ![d].status = "resolved"]
  /\ UNCHANGED <<order, byHand, rows, evidence, courier, slot, quiet>>

\* AdminService.reopenDispute: read a resolved dispute ...
ReopenRead(w, d) ==
  /\ pc[w] = "idle"
  /\ dispute[d].status = "resolved"
  /\ Await(w, "reopen", d, NONE, NoShipment)
  /\ UNCHANGED <<order, byHand, rows, cases, courier, quiet>>

\* ... and save it open.
ReopenSave(w) ==
  /\ pc[w] = "reopen"
  /\ dispute' = [dispute EXCEPT ![ord[w]].status = "open"]
  /\ Finish(w)
  /\ UNCHANGED <<order, byHand, rows, evidence, courier, quiet>>

-----------------------------------------------------------------------------
\* The awaited call fails, or the server restarts.
Abort(w) ==
  /\ pc[w] # "idle" /\ ~quiet
  /\ Finish(w)
  /\ UNCHANGED <<order, byHand, rows, cases, courier, quiet>>

Progress(w) ==
  \/ AdvanceRead(w) \/ AdvanceSave(w) \/ InsertShipment(w)
  \/ WebhookDeliver(w) \/ ReopenSave(w)

LogisticsRequest(w) == \E o \in Orders :
  \/ \E p \in Providers : Book(w, o, p)
  \/ \E n \in Parcels, s \in News : Webhook(w, o, n, s)

DisputesRequest(w) == \E d \in Disputes :
  \/ \E o \in Orders : OpenDispute(w, o, d)
  \/ ReopenRead(w, d)

Next ==
  \/ \E w \in Workers : LogisticsRequest(w) \/ DisputesRequest(w) \/ Progress(w) \/ Abort(w)
  \/ \E w \in Workers, o \in Orders, s \in Patches : Patch(w, o, s)
  \/ \E o \in Orders, n \in Parcels : Arrive(o, n) \/ WebhookUnknown(o, n)
  \/ \E d \in Disputes : AddEvidence(d) \/ Resolve(d)

Spec == Init /\ [][Next]_vars

\* At some moment the failures end.
Settle ==
  /\ ~quiet
  /\ quiet' = TRUE
  /\ UNCHANGED <<order, byHand, rows, cases, courier, slot>>

\* Node runs a callback whose await has returned, and Pathao repeats the news of a
\* delivery until it is answered with 200.
DeliverySpec ==
  /\ Init /\ [][Next \/ Settle]_vars
  /\ WF_vars(Settle) /\ \A w \in Workers : WF_vars(Progress(w))
  /\ \A o \in Orders, n \in Parcels :
       SF_vars(n \notin told[o] /\ \E w \in Workers : Webhook(w, o, n, "Delivered"))

-----------------------------------------------------------------------------
\* An order that a booking took to SHIPMENT_BOOKED, and no PATCH, has a row in
\* shipments for a parcel the courier made, whatever fails in between.
BookedHasShipment == \A o \in Orders :
  order[o] = "SHIPMENT_BOOKED" /\ "SHIPMENT_BOOKED" \notin byHand[o] =>
    shipment[o] # NoShipment /\ shipment[o].parcel <= parcels[o]

\* A shipment is delivered only when the courier delivered that very parcel, and
\* not another one booked for the order, and with the event on record; an order
\* only when its shipment is.
DeliveredIsTrue == \A o \in Orders :
  /\ shipment[o].status = "delivered" =>
       shipment[o].parcel \in arrived[o] /\ "Delivered" \in events[o]
  /\ order[o] = "DELIVERED" /\ "DELIVERED" \notin byHand[o] => shipment[o].status = "delivered"

\* The insert comes before the status: an order that openDispute, and no PATCH, took to
\* DISPUTE_OPEN has a row in disputes, which may be resolved by now, for resolving does
\* not move the order.
DisputeIsRecorded == \A o \in Orders :
  order[o] = "DISPUTE_OPEN" /\ "DISPUTE_OPEN" \notin byHand[o] =>
    \E d \in Disputes : dispute[d].order = o

\* The shipment of an order, as others see it.
Shipped == INSTANCE Consignment WITH
  consigned <- [o \in Orders |-> shipment[o].parcel],
  reported  <- {o \in Orders : shipment[o].status = "delivered"}

\* Bookings that race or are tried again never change the parcel of a shipment, and
\* webhooks that come early, twice or about another parcel, and save a copy read
\* before, neither report a delivery that was none nor take one back.
ImplementsConsignment == Shipped!Spec

\* The news of a delivery that came too early, or was lost to a failure, still gets
\* to the order once it is IN_TRANSIT.
DeliveryReachesOrder == \A o \in Orders : \A n \in Parcels :
  order[o] = "IN_TRANSIT" /\ Consigned(o, n) /\ n \in arrived[o] \ told[o]
    ~> order[o] # "IN_TRANSIT"
=============================================================================
