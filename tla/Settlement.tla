----------------------------- MODULE Settlement -----------------------------
(***************************************************************************)
(* What the escrow promises: an order's money is held once; from then on   *)
(* it is released, refunded or frozen, never held again; an order is       *)
(* completed once its money has gone out, cancelled once it was frozen, or *)
(* moved by hand.  Requests, the job and its list, and failures do not     *)
(* show.                                                                   *)
(***************************************************************************)
EXTENDS OrderStatus

CONSTANT Orders

VARIABLES
  order,   \* order -> its status
  hold,    \* order -> the status of its hold, "none" without one
  past,    \* order -> the statuses its hold has had
  byHand   \* order -> the statuses somebody gave it by hand

vars == <<order, hold, past, byHand>>

Init ==
  /\ order = [o \in Orders |-> "PAYMENT_PENDING"]
  /\ hold = [o \in Orders |-> "none"]
  /\ past = [o \in Orders |-> {}]
  /\ byHand = [o \in Orders |-> {}]

Hold(o) ==
  /\ hold[o] = "none"
  /\ hold' = [hold EXCEPT ![o] = "held"]
  /\ past' = [past EXCEPT ![o] = @ \cup {"held"}]
  /\ UNCHANGED <<order, byHand>>

Settle(o, s) ==
  /\ hold[o] # "none"
  /\ hold' = [hold EXCEPT ![o] = s]
  /\ past' = [past EXCEPT ![o] = @ \cup {s}]
  /\ UNCHANGED <<order, byHand>>

Move(o, s) ==
  /\ s = "COMPLETED" => "released" \in past[o]
  /\ s = "CANCELLED" => "dispute_frozen" \in past[o]
  /\ order' = [order EXCEPT ![o] = s]
  /\ UNCHANGED <<hold, past, byHand>>

ByHand(o, s) ==
  /\ order' = [order EXCEPT ![o] = s]
  /\ byHand' = [byHand EXCEPT ![o] = @ \cup {s}]
  /\ UNCHANGED <<hold, past>>

Next == \E o \in Orders :
  \/ Hold(o)
  \/ \E s \in {"released", "refunded", "dispute_frozen"} : Settle(o, s)
  \/ \E s \in {"PAID", "DISPUTE_OPEN", "COMPLETED", "CANCELLED"} : Move(o, s)
  \/ \E s \in OrderStatus : ByHand(o, s)

Spec == Init /\ [][Next]_vars
=============================================================================
