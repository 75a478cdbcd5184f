------------------------------- MODULE Orders -------------------------------
(***************************************************************************)
(* The orders service (orders/orders.service.ts), and the admin override   *)
(* of an order's status (admin/admin.service.ts).  A request is a slot     *)
(* with a program counter: it runs alone between two awaits, and any other *)
(* request may run at an await.  No transaction or lock spans two of them. *)
(* A request that is refused changes nothing, so a refusal is the absence  *)
(* of a step, and a request that dies between two awaits is Abort.         *)
(***************************************************************************)
EXTENDS OrderStatus, FiniteSets

CONSTANTS Orders,    \* the rows the orders table may hold
          Sessions,  \* the checkout sessions sellers have shared
          Requests,  \* the slots of concurrent requests
          Overrides  \* bound: the statuses administrators force orders into

VARIABLES
  status,   \* order -> its stored status, NONE while there is no row
  live,     \* the sessions that are active and not past expiresAt
  pc,       \* request -> what it does when its await returns
  ord,      \* request -> the order it handles
  rd,       \* request -> the status it read
  tgt,      \* request -> the status it will save
  seen,     \* history: order -> every status saved so far
  forced    \* history: order -> the statuses saved by the admin override

vars == <<status, live, pc, ord, rd, tgt, seen, forced>>
slot == <<pc, ord, rd, tgt>>

ASSUME OrdersAssumption == NONE \notin Orders /\ Overrides \subseteq OrderStatus

TypeOK ==
  /\ status \in [Orders -> OrderStatus \cup {NONE}]
  /\ live \subseteq Sessions
  /\ pc \in [Requests -> {"idle", "insert", "save", "override"}]
  /\ ord \in [Requests -> Orders \cup {NONE}]
  /\ rd \in [Requests -> OrderStatus \cup {NONE}]
  /\ tgt \in [Requests -> OrderStatus \cup {NONE}]
  /\ seen \in [Orders -> SUBSET OrderStatus]
  /\ forced \in [Orders -> SUBSET OrderStatus]

Init ==
  /\ status = [o \in Orders |-> NONE]
  /\ live = Sessions
  /\ pc = [r \in Requests |-> "idle"]
  /\ ord = [r \in Requests |-> NONE]
  /\ rd = [r \in Requests |-> NONE]
  /\ tgt = [r \in Requests |-> NONE]
  /\ seen = [o \in Orders |-> {}]
  /\ forced = [o \in Orders |-> {}]

\* Request r awaits with these locals; Finish returns its slot.
Await(r, at, o, read, target) ==
  /\ pc' = [pc EXCEPT ![r] = at]
  /\ ord' = [ord EXCEPT ![r] = o]
  /\ rd' = [rd EXCEPT ![r] = read]
  /\ tgt' = [tgt EXCEPT ![r] = target]

Finish(r) == Await(r, "idle", NONE, NONE, NONE)

SaveStatus(o, s) ==
  /\ status' = [status EXCEPT ![o] = s]
  /\ seen' = [seen EXCEPT ![o] = @ \cup {s}]

-----------------------------------------------------------------------------
\* createFromCheckout: findByToken refuses a session that is not live ...
ReadSession(r, s) ==
  /\ pc[r] = "idle"
  /\ s \in live
  /\ Await(r, "insert", NONE, NONE, NONE)
  /\ UNCHANGED <<status, live, seen, forced>>

\* Mutants: the insert forgets the status, or leaves it to the column's default.
InsertWithoutStatus(r, o) ==
  pc[r] = "insert" /\ status[o] = NONE /\ SaveStatus(o, NONE) /\ Finish(r)
  /\ UNCHANGED <<live, forced>>

InsertAsDraft(r, o) ==
  pc[r] = "insert" /\ status[o] = NONE /\ SaveStatus(o, "DRAFT") /\ Finish(r)
  /\ UNCHANGED <<live, forced>>

\* ... and the row is inserted later, with a fresh id.
InsertOrder(r, o) ==
  /\ pc[r] = "insert"
  /\ status[o] = NONE
  /\ SaveStatus(o, "CHECKOUT_STARTED")
  /\ Finish(r)
  /\ UNCHANGED <<live, forced>>

\* The clock passes the session's expiresAt.
ExpireSession(s) ==
  /\ s \in live
  /\ live' = live \ {s}
  /\ UNCHANGED <<status, seen, forced, slot>>

\* Mutant: advanceStatus does not check the transition.
AdvanceUnchecked(r, o, s) ==
  /\ pc[r] = "idle" /\ status[o] # NONE
  /\ Await(r, "save", o, status[o], s)
  /\ UNCHANGED <<status, live, seen, forced>>

\* advanceStatus: read the order and check the transition ...
AdvanceRead(r, o, s) ==
  /\ pc[r] = "idle"
  /\ status[o] # NONE
  /\ s \in ORDER_TRANSITIONS[status[o]]
  /\ Await(r, "save", o, status[o], s)
  /\ UNCHANGED <<status, live, seen, forced>>

\* ... then save the row that was read, whatever it holds by now.
AdvanceSave(r) ==
  /\ pc[r] = "save"
  /\ SaveStatus(ord[r], tgt[r])
  /\ Finish(r)
  /\ UNCHANGED <<live, forced>>

\* forceUpdateOrderStatus: read the row, no check of the transition ...
ForceRead(r, o, s) ==
  /\ pc[r] = "idle"
  /\ status[o] # NONE
  /\ s \in Overrides
  /\ Await(r, "override", o, status[o], s)
  /\ UNCHANGED <<status, live, seen, forced>>

\* ... then save it.
ForceSave(r) ==
  /\ pc[r] = "override"
  /\ SaveStatus(ord[r], tgt[r])
  /\ forced' = [forced EXCEPT ![ord[r]] = @ \cup {tgt[r]}]
  /\ Finish(r)
  /\ UNCHANGED live

\* The awaited call fails, or the server restarts.
Abort(r) ==
  /\ pc[r] # "idle"
  /\ Finish(r)
  /\ UNCHANGED <<status, live, seen, forced>>

Next ==
  \/ \E r \in Requests, s \in Sessions : ReadSession(r, s)
  \/ \E r \in Requests, o \in Orders : InsertOrder(r, o)
  \/ \E s \in Sessions : ExpireSession(s)
  \/ \E r \in Requests, o \in Orders, s \in OrderStatus : AdvanceRead(r, o, s)
  \/ \E r \in Requests : AdvanceSave(r)
  \/ \E r \in Requests, o \in Orders, s \in OrderStatus : ForceRead(r, o, s)
  \/ \E r \in Requests : ForceSave(r)
  \/ \E r \in Requests : Abort(r)

Spec == Init /\ [][Next]_vars

-----------------------------------------------------------------------------
\* Every status an order has had was its first one, the admin override's, or
\* a legal successor of another status it has had: the check of advanceStatus
\* is made on a status the order did have, even when it is stale at the save.
HistoryCausal ==
  \A o \in Orders : \A s \in seen[o] :
    \/ s = "CHECKOUT_STARTED"
    \/ s \in forced[o]
    \/ \E q \in seen[o] : s \in ORDER_TRANSITIONS[q]

\* No interleaving of requests ships, delivers, disputes or completes an
\* order that was never PAID, unless the admin override put it there.
PaidBeforeShipping ==
  \A o \in Orders :
    (seen[o] \cap PostPaid # {} /\ forced[o] \cap PostPaid = {})
      => "PAID" \in seen[o]

\* What the service promises about the status column.
Lifecycle == INSTANCE OrderLifecycle

\* However requests overlap, an order is created once, and every save of a status is
\* a legal transition from a status the order has had, or an override.
ImplementsLifecycle == Lifecycle!Spec
=============================================================================
