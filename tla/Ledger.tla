------------------------------- MODULE Ledger -------------------------------
(***************************************************************************)
(* What paying for an order promises: a session at a gateway is paid or    *)
(* declined once; a payment is recorded if a gateway has money that covers *)
(* it, and stays recorded; only then is the order PAID and its money held, *)
(* once; it is given back only after a refund was opened, and never held   *)
(* again.  Others may write the hold at any time.  Requests, failures,     *)
(* repeated and overlapping notifications, the idempotency keys, the       *)
(* markers and the job do not show.                                        *)
(***************************************************************************)
EXTENDS OrderStatus

CONSTANTS
  Intents,  \* the payments of the order
  Others,   \* payments made for other orders
  Covers    \* <<j, i>>: the money of session j may be recorded for intent i

VARIABLES
  order,     \* the status of the order
  manual,    \* somebody has set it by hand
  gateway,   \* payment -> its session at the gateway
  recorded,  \* the intents with a transaction
  hold,      \* the escrow: "none", "held", "refunded", or "moved" by others
  refunds    \* the refunds opened

Sessions == Intents \cup Others

vars == <<order, manual, gateway, recorded, hold, refunds>>

Init ==
  /\ order = "CHECKOUT_STARTED"
  /\ manual = FALSE
  /\ gateway = [j \in Sessions |-> IF j \in Intents THEN "none" ELSE "paid"]
  /\ recorded = {}
  /\ hold = "none"
  /\ refunds = 0

\* A session is opened, and the buyer pays or declines.
Offer(i) ==
  /\ gateway[i] = "none"
  /\ gateway' = [gateway EXCEPT ![i] = "open"]
  /\ UNCHANGED <<order, manual, recorded, hold, refunds>>

Decide(i, verdict) ==
  /\ gateway[i] = "open"
  /\ gateway' = [gateway EXCEPT ![i] = verdict]
  /\ UNCHANGED <<order, manual, recorded, hold, refunds>>

\* The money is recorded, then held.
Record(i) ==
  /\ \E j \in Sessions : gateway[j] = "paid" /\ <<j, i>> \in Covers
  /\ recorded' = recorded \cup {i}
  /\ UNCHANGED <<order, manual, gateway, hold, refunds>>

Hold ==
  /\ recorded # {}
  /\ hold = "none"
  /\ hold' = "held"
  /\ UNCHANGED <<order, manual, gateway, recorded, refunds>>

\* A refund is opened for money a gateway has, and then the escrow gives it back.
Refund ==
  /\ \E j \in Sessions : gateway[j] = "paid"
  /\ refunds' = refunds + 1
  /\ UNCHANGED <<order, manual, gateway, recorded, hold>>

GiveBack ==
  /\ hold \in {"held", "moved"} /\ refunds > 0
  /\ hold' = "refunded"
  /\ UNCHANGED <<order, manual, gateway, recorded, refunds>>

MoveHold ==
  /\ hold' = "moved"
  /\ UNCHANGED <<order, manual, gateway, recorded, refunds>>

\* The order starts its checkout again, is PAID by recorded money, or is moved by hand.
Start ==
  /\ order' \in {"CHECKOUT_STARTED", "PAYMENT_PENDING"}
  /\ UNCHANGED <<manual, gateway, recorded, hold, refunds>>

MarkPaid ==
  /\ recorded # {}
  /\ order' = "PAID"
  /\ UNCHANGED <<manual, gateway, recorded, hold, refunds>>

ByHand ==
  /\ order' \in OrderStatus
  /\ manual' = TRUE
  /\ UNCHANGED <<gateway, recorded, hold, refunds>>

Next ==
  \/ \E i \in Intents : Offer(i) \/ Decide(i, "paid") \/ Decide(i, "declined") \/ Record(i)
  \/ Hold \/ Refund \/ GiveBack \/ MoveHold
  \/ Start \/ MarkPaid \/ ByHand

Spec == Init /\ [][Next]_vars
=============================================================================
