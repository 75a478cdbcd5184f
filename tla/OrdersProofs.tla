---------------------------- MODULE OrdersProofs ----------------------------
(***************************************************************************)
(* What module Orders guarantees for every set of orders, sessions,        *)
(* requests and overrides.                                                 *)
(***************************************************************************)
EXTENDS Orders, TLAPS

\* The facts about ORDER_TRANSITIONS the proofs use: it stays within OrderStatus,
\* and only a PAID or later order is one transition away from PostPaid.
LEMMA Transitions ==
  ASSUME NEW q \in OrderStatus, NEW s \in ORDER_TRANSITIONS[q]
  PROVE  /\ s \in OrderStatus
         /\ s \in PostPaid => q \in PostPaid \cup {"PAID"}
  BY DEF ORDER_TRANSITIONS, OrderStatus, PostPaid

\* What a request holds while it awaits its save: a status its order has had,
\* and a legal successor of it; a row once there stays.
SlotInv == \A r \in Requests :
  /\ pc[r] = "override" => status[ord[r]] # NONE
  /\ pc[r] \in {"save", "override"} => ord[r] \in Orders /\ tgt[r] \in OrderStatus
  /\ pc[r] = "save" => rd[r] \in seen[ord[r]] /\ tgt[r] \in ORDER_TRANSITIONS[rd[r]]

\* The current status of an order is one it has had.
SeenInv == \A o \in Orders : status[o] # NONE => status[o] \in seen[o]

IInv == TypeOK /\ SlotInv /\ SeenInv

\* The initial states satisfy the inductive invariant ...
LEMMA InitIInv == Init => IInv
  BY OrdersAssumption DEF Init, IInv, TypeOK, SlotInv, SeenInv, OrderStatus, NONE

\* ... every step keeps it ...
LEMMA NextIInv == IInv /\ [Next]_vars => IInv'
<1> SUFFICES ASSUME IInv, [Next]_vars PROVE IInv'
  OBVIOUS
<1> USE OrdersAssumption DEF IInv
<1>0. NONE \notin OrderStatus
  BY DEF NONE, OrderStatus
<1>1. ASSUME NEW r \in Requests, NEW s \in Sessions, ReadSession(r, s) PROVE IInv'
  BY <1>1 DEF ReadSession, Await, TypeOK, SlotInv, SeenInv
<1>2. ASSUME NEW r \in Requests, NEW o \in Orders, InsertOrder(r, o) PROVE IInv'
  <2>1. "CHECKOUT_STARTED" \in OrderStatus
    BY DEF OrderStatus
  <2> QED
    BY <1>2, <2>1 DEF InsertOrder, SaveStatus, Finish, Await, TypeOK, SlotInv, SeenInv
<1>3. ASSUME NEW s \in Sessions, ExpireSession(s) PROVE IInv'
  BY <1>3 DEF ExpireSession, slot, TypeOK, SlotInv, SeenInv
<1>4. ASSUME NEW r \in Requests, NEW o \in Orders, NEW s \in OrderStatus,
             AdvanceRead(r, o, s) PROVE IInv'
  BY <1>4 DEF AdvanceRead, Await, TypeOK, SlotInv, SeenInv
<1>5. ASSUME NEW r \in Requests, AdvanceSave(r) PROVE IInv'
  BY <1>5, <1>0 DEF AdvanceSave, SaveStatus, Finish, Await, TypeOK, SlotInv, SeenInv
<1>6. ASSUME NEW r \in Requests, NEW o \in Orders, NEW s \in OrderStatus,
             ForceRead(r, o, s) PROVE IInv'
  BY <1>6 DEF ForceRead, Await, TypeOK, SlotInv, SeenInv
<1>7. ASSUME NEW r \in Requests, ForceSave(r) PROVE IInv'
  BY <1>7, <1>0 DEF ForceSave, SaveStatus, Finish, Await, TypeOK, SlotInv, SeenInv
<1>8. ASSUME NEW r \in Requests, Abort(r) PROVE IInv'
  BY <1>8 DEF Abort, Finish, Await, TypeOK, SlotInv, SeenInv
<1>9. CASE UNCHANGED vars
  BY <1>9 DEF vars, TypeOK, SlotInv, SeenInv
<1> QED
  BY <1>1, <1>2, <1>3, <1>4, <1>5, <1>6, <1>7, <1>8, <1>9 DEF Next

\* ... so every reachable state satisfies it.
LEMMA IInvariant == Spec => []IInv
  BY InitIInv, NextIInv, PTL DEF Spec

\* Whatever the requests and their interleaving, the tables and the slots hold
\* what their types say.
THEOREM TypeCorrect == Spec => []TypeOK
<1>1. IInv => TypeOK
  BY DEF IInv
<1> QED
  BY <1>1, IInvariant, PTL

-----------------------------------------------------------------------------
\* A step adds to an order's history only a first status, a forced one, or a
\* legal successor of a status already there.
LEMMA SeenStep ==
  ASSUME IInv, [Next]_vars, NEW o \in Orders
  PROVE  /\ seen[o] \subseteq seen'[o] /\ forced[o] \subseteq forced'[o]
         /\ \A s \in seen'[o] \ seen[o] :
              \/ s = "CHECKOUT_STARTED"
              \/ s \in forced'[o]
              \/ \E q \in seen[o] : s \in ORDER_TRANSITIONS[q]
<1> USE DEF IInv, TypeOK, SlotInv
<1>1. ASSUME NEW r \in Requests, NEW p \in Orders, InsertOrder(r, p)
      PROVE  seen' = [seen EXCEPT ![p] = @ \cup {"CHECKOUT_STARTED"}] /\ forced' = forced
  BY <1>1 DEF InsertOrder, SaveStatus
<1>2. ASSUME NEW r \in Requests, AdvanceSave(r)
      PROVE  /\ seen' = [seen EXCEPT ![ord[r]] = @ \cup {tgt[r]}] /\ forced' = forced
             /\ rd[r] \in seen[ord[r]] /\ tgt[r] \in ORDER_TRANSITIONS[rd[r]]
  BY <1>2 DEF AdvanceSave, SaveStatus
<1>3. ASSUME NEW r \in Requests, ForceSave(r)
      PROVE  /\ seen' = [seen EXCEPT ![ord[r]] = @ \cup {tgt[r]}]
             /\ forced' = [forced EXCEPT ![ord[r]] = @ \cup {tgt[r]}]
  BY <1>3 DEF ForceSave, SaveStatus
<1>4. ASSUME ~ \E r \in Requests, p \in Orders : InsertOrder(r, p),
             ~ \E r \in Requests : AdvanceSave(r) \/ ForceSave(r)
      PROVE  seen' = seen /\ forced' = forced
  BY <1>4 DEF Next, vars, ReadSession, ExpireSession, AdvanceRead, ForceRead, Abort
<1> QED
  BY <1>1, <1>2, <1>3, <1>4

\* No interleaving gives an order a status that is neither its first one, nor
\* forced, nor a legal successor of another status it has had.
THEOREM Causality == Spec => []HistoryCausal
<1>1. Init => HistoryCausal
  BY DEF Init, HistoryCausal
<1>2. IInv /\ HistoryCausal /\ [Next]_vars => HistoryCausal'
  BY SeenStep DEF HistoryCausal
<1> QED
  BY <1>1, <1>2, IInvariant, PTL DEF Spec

\* No interleaving ships, disputes or completes an order that was never PAID.
THEOREM PaidFirst == Spec => []PaidBeforeShipping
<1>1. Init => PaidBeforeShipping
  BY DEF Init, PaidBeforeShipping
<1>2. IInv /\ PaidBeforeShipping /\ [Next]_vars => PaidBeforeShipping'
  <2> SUFFICES ASSUME IInv, PaidBeforeShipping, [Next]_vars, NEW o \in Orders,
                      NEW s \in seen'[o], s \in PostPaid, forced'[o] \cap PostPaid = {}
               PROVE  "PAID" \in seen'[o]
    BY DEF PaidBeforeShipping
  <2>1. seen[o] \subseteq seen'[o] /\ forced[o] \cap PostPaid = {}
    BY SeenStep
  <2>2. CASE s \in seen[o]
    BY <2>1, <2>2 DEF PaidBeforeShipping
  <2>3. CASE s \notin seen[o]
    <3>1. PICK q \in seen[o] : s \in ORDER_TRANSITIONS[q]
      BY <2>3, SeenStep DEF PostPaid
    <3>2. q \in PostPaid \cup {"PAID"}
      BY <3>1, Transitions DEF IInv, TypeOK
    <3> QED
      BY <2>1, <3>1, <3>2 DEF PaidBeforeShipping
  <2> QED
    BY <2>2, <2>3
<1> QED
  BY <1>1, <1>2, IInvariant, PTL DEF Spec

-----------------------------------------------------------------------------
\* However its requests overlap, the service implements the lifecycle it promises.
THEOREM Refinement == Spec => ImplementsLifecycle
<1> USE DEF Lifecycle!Become, Lifecycle!NONE, NONE
<1>1. Init => Lifecycle!Init
  BY DEF Init, Lifecycle!Init
<1>2. IInv /\ [Next]_vars => [Lifecycle!Next]_<<status, seen, forced>>
  <2> SUFFICES ASSUME IInv, [Next]_vars
               PROVE  [Lifecycle!Next]_<<status, seen, forced>>
    OBVIOUS
  <2>1. ASSUME NEW r \in Requests, NEW o \in Orders, InsertOrder(r, o)
        PROVE  Lifecycle!Create(o)
    BY <2>1 DEF InsertOrder, SaveStatus, Lifecycle!Create
  <2>2. ASSUME NEW r \in Requests, AdvanceSave(r)
        PROVE  ord[r] \in Orders /\ Lifecycle!Advance(ord[r])
    BY <2>2 DEF AdvanceSave, SaveStatus, Lifecycle!Advance, IInv, SlotInv,
                Lifecycle!ORDER_TRANSITIONS, ORDER_TRANSITIONS, Lifecycle!OrderStatus, OrderStatus
  <2>3. ASSUME NEW r \in Requests, ForceSave(r)
        PROVE  ord[r] \in Orders /\ Lifecycle!Override(ord[r])
    <3>1. /\ ord[r] \in Orders /\ tgt[r] \in Lifecycle!OrderStatus /\ status[ord[r]] # NONE
          /\ Lifecycle!Become(ord[r], tgt[r])
          /\ forced' = [forced EXCEPT ![ord[r]] = @ \cup {tgt[r]}]
      BY <2>3 DEF ForceSave, SaveStatus, IInv, SlotInv, Lifecycle!OrderStatus, OrderStatus
    <3> QED
      BY <3>1 DEF Lifecycle!Override
  <2>4. CASE /\ ~ \E r \in Requests, o \in Orders : InsertOrder(r, o)
             /\ ~ \E r \in Requests : AdvanceSave(r) \/ ForceSave(r)
    BY <2>4 DEF Next, vars, ReadSession, ExpireSession, AdvanceRead, ForceRead, Abort
  <2> QED
    BY <2>1, <2>2, <2>3, <2>4 DEF Lifecycle!Next
<1> QED
  BY <1>1, <1>2, IInvariant, PTL DEF Spec, ImplementsLifecycle, Lifecycle!Spec
=============================================================================
