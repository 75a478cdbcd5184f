--------------------------- MODULE OrderLifecycle ---------------------------
(***************************************************************************)
(* What the orders service promises of an order, however its requests      *)
(* overlap: it is born CHECKOUT_STARTED, once, and from then on its status *)
(* changes only along ORDER_TRANSITIONS, from a status it has had (not     *)
(* always the last one), unless an administrator overrides it.             *)
(***************************************************************************)
EXTENDS OrderStatus

CONSTANT Orders

VARIABLES status,   \* order -> its status, NONE before it exists
          seen,     \* order -> the statuses it has had
          forced    \* order -> those an administrator has set

Init ==
  /\ status = [o \in Orders |-> NONE]
  /\ seen   = [o \in Orders |-> {}]
  /\ forced = [o \in Orders |-> {}]

Become(o, s) ==
  /\ status' = [status EXCEPT ![o] = s]
  /\ seen'   = [seen EXCEPT ![o] = @ \cup {s}]

Create(o) ==
  /\ status[o] = NONE
  /\ Become(o, "CHECKOUT_STARTED")
  /\ UNCHANGED forced

Advance(o) ==
  /\ \E q \in seen[o] : \E s \in ORDER_TRANSITIONS[q] : Become(o, s)
  /\ UNCHANGED forced

Override(o) ==
  /\ status[o] # NONE
  /\ \E s \in OrderStatus :
       /\ Become(o, s)
       /\ forced' = [forced EXCEPT ![o] = @ \cup {s}]

Next == \E o \in Orders : Create(o) \/ Advance(o) \/ Override(o)

Spec == Init /\ [][Next]_<<status, seen, forced>>
=============================================================================
