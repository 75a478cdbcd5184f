---------------------------- MODULE Consignment -----------------------------
(***************************************************************************)
(* What the logistics service promises about an order's shipment: it is    *)
(* consigned once, to one parcel, and reported delivered once the courier  *)
(* has delivered that parcel, for good.  Failures, repeated bookings and   *)
(* webhooks in any order do not show.                                      *)
(***************************************************************************)
EXTENDS Naturals

CONSTANTS Orders, Parcels

VARIABLES
  consigned,  \* order -> the parcel of its shipment, 0 without one
  arrived,    \* order -> the parcels couriers have delivered
  reported    \* the orders whose shipment is delivered

vars == <<consigned, arrived, reported>>

Init ==
  /\ consigned = [o \in Orders |-> 0]
  /\ arrived = [o \in Orders |-> {}]
  /\ reported = {}

Consign(o, n) ==
  /\ consigned[o] = 0
  /\ consigned' = [consigned EXCEPT ![o] = n]
  /\ UNCHANGED <<arrived, reported>>

Arrive(o, n) ==
  /\ arrived' = [arrived EXCEPT ![o] = @ \cup {n}]
  /\ UNCHANGED <<consigned, reported>>

Report(o) ==
  /\ consigned[o] \in arrived[o]
  /\ reported' = reported \cup {o}
  /\ UNCHANGED <<consigned, arrived>>

Next == \E o \in Orders :
  \/ Report(o)
  \/ \E n \in Parcels : Consign(o, n) \/ Arrive(o, n)

Spec == Init /\ [][Next]_vars
=============================================================================
