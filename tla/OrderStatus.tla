---------------------------- MODULE OrderStatus ----------------------------
(***************************************************************************)
(* The status of an order and the transitions the orders service accepts   *)
(* (orders/entities/order.entity.ts).  Shared by every module in which an  *)
(* order moves.                                                            *)
(***************************************************************************)
EXTENDS Naturals

OrderStatus ==
  {"DRAFT", "CHECKOUT_STARTED", "PAYMENT_PENDING", "PAID", "SHIPMENT_BOOKED",
   "IN_TRANSIT", "DELIVERED", "COMPLETED", "CANCELLED", "DISPUTE_OPEN",
   "RETURN_IN_TRANSIT", "REFUNDED"}

ORDER_TRANSITIONS == [s \in OrderStatus |->
  CASE s = "DRAFT"             -> {"CHECKOUT_STARTED", "CANCELLED"}
    [] s = "CHECKOUT_STARTED"  -> {"PAYMENT_PENDING", "CANCELLED"}
    [] s = "PAYMENT_PENDING"   -> {"PAID", "CANCELLED"}
    [] s = "PAID"              -> {"SHIPMENT_BOOKED", "CANCELLED", "DISPUTE_OPEN"}
    [] s = "SHIPMENT_BOOKED"   -> {"IN_TRANSIT", "CANCELLED"}
    [] s = "IN_TRANSIT"        -> {"DELIVERED", "DISPUTE_OPEN", "RETURN_IN_TRANSIT"}
    [] s = "DELIVERED"         -> {"COMPLETED", "DISPUTE_OPEN", "RETURN_IN_TRANSIT"}
    [] s = "CANCELLED"         -> {"REFUNDED"}
    [] s = "DISPUTE_OPEN"      -> {"COMPLETED", "REFUNDED", "RETURN_IN_TRANSIT"}
    [] s = "RETURN_IN_TRANSIT" -> {"REFUNDED"}
    [] s \in {"COMPLETED", "REFUNDED"} -> {}]

\* The status of an order whose row does not exist yet.
NONE == "NONE"

\* The statuses that an order should only reach once it has been PAID.
PostPaid == {"SHIPMENT_BOOKED", "IN_TRANSIT", "DELIVERED", "COMPLETED",
             "DISPUTE_OPEN", "RETURN_IN_TRANSIT"}
=============================================================================
