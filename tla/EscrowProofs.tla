---------------------------- MODULE EscrowProofs ----------------------------
(***************************************************************************)
(* What module Escrow guarantees for every set of orders and workers: the  *)
(* order in which the hold and the order are saved leaves the money safe,  *)
(* whatever fails in between.                                              *)
(***************************************************************************)
EXTENDS Escrow, TLAPS

\* What each operation's slot holds at each await: a risk hold freezes a hold that there
\* is, and once a release or a risk hold has reached the order, the hold has been saved.
SlotInv == \A p \in Processes :
  /\ pc[p] # "idle" => ord[p] \in Orders
  /\ pc[p] \in {"find", "make", "freeze"} => op[p] = "hold" /\ snap[p] \in OrderStatus
  /\ pc[p] = "freeze" => hold[ord[p]] # "none"
  /\ pc[p] \in {"advance", "save"} =>
       \/ op[p] = "patch" /\ tgt[p] \in OrderStatus
       \/ op[p] = "capture" /\ tgt[p] = "PAID"
       \/ op[p] = "dispute" /\ tgt[p] = "DISPUTE_OPEN"
       \/ op[p] = "release" /\ tgt[p] = "COMPLETED" /\ "released" \in past[ord[p]]
       \/ op[p] = "hold" /\ tgt[p] = "CANCELLED" /\ "dispute_frozen" \in past[ord[p]]

IInv == TypeOK /\ SlotInv /\ CompletedAfterPayout /\ CancelledAfterFreeze

\* The initial states satisfy the inductive invariant.
LEMMA InitIInv == Init => IInv
<1> SUFFICES ASSUME Init PROVE IInv
  OBVIOUS
<1> USE EscrowAssumption DEF Init, Processes
<1>1. TypeOK
  <2>1. "PAYMENT_PENDING" \in OrderStatus
    BY DEF OrderStatus
  <2>2. quiet \in BOOLEAN
    BY Zenon
  <2> QED
    BY <2>1, <2>2 DEF TypeOK, HoldStatus
<1>2. SlotInv /\ CompletedAfterPayout /\ CancelledAfterFreeze
  BY DEF SlotInv, CompletedAfterPayout, CancelledAfterFreeze
<1> QED
  BY <1>1, <1>2 DEF IInv

\* Every step keeps it.
LEMMA NextIInv == ASSUME IInv, [Next]_vars PROVE IInv'
<1> USE EscrowAssumption
    DEF Processes, IInv, TypeOK, SlotInv, CompletedAfterPayout, CancelledAfterFreeze, HoldStatus,
        statuses, holds, slot
<1>0. {"PAID", "DISPUTE_OPEN", "COMPLETED", "CANCELLED"} \subseteq OrderStatus
  BY DEF OrderStatus
<1>1. ASSUME NEW p \in Processes, AdvanceRead(p) PROVE IInv'
  BY <1>1, <1>0 DEF AdvanceRead, Await, Finish
<1>2. ASSUME NEW p \in Processes, AdvanceSave(p) PROVE IInv'
  BY <1>2, <1>0 DEF AdvanceSave, Goto, Await, Finish
<1>3. ASSUME NEW p \in Processes, CaptureHold(p) PROVE IInv'
  BY <1>3, <1>0 DEF CaptureHold, CreateHold, SaveHold, Await, Finish
<1>4. ASSUME NEW p \in Processes, HoldFind(p) PROVE IInv'
  BY <1>4, <1>0 DEF HoldFind, Goto, Await
<1>5. ASSUME NEW p \in Processes, HoldMake(p) PROVE IInv'
  BY <1>5, <1>0 DEF HoldMake, CreateHold, SaveHold, Goto, Await, Finish
<1>6. ASSUME NEW p \in Processes, HoldFreeze(p) PROVE IInv'
  BY <1>6, <1>0 DEF HoldFreeze, SaveHold, AdvanceTo, Await, Finish
<1>7. ASSUME NEW p \in Processes, Abort(p) PROVE IInv'
  BY <1>7, <1>0 DEF Abort, Await, Finish
<1>8. ASSUME NEW w \in Workers, NEW o \in Orders, NEW s \in Patches, Patch(w, o, s) PROVE IInv'
  BY <1>8, <1>0 DEF Patch, AdvanceTo, Await
<1>9. ASSUME NEW w \in Workers, NEW o \in Orders, Capture(w, o) PROVE IInv'
  BY <1>9, <1>0 DEF Capture, AdvanceTo, Await
<1>10. ASSUME NEW w \in Workers, NEW o \in Orders, OpenDispute(w, o) PROVE IInv'
  BY <1>10, <1>0 DEF OpenDispute, AdvanceTo, Await
<1>11. ASSUME NEW w \in Workers, NEW o \in Orders, Refund(w, o) PROVE IInv'
  BY <1>11, <1>0 DEF Refund, SaveHold
<1>12. ASSUME NEW w \in Workers, NEW o \in Orders, AdminRelease(w, o) PROVE IInv'
  BY <1>12, <1>0 DEF AdminRelease, ReleaseHold, SaveHold, AdvanceTo, Await
<1>13. ASSUME NEW w \in Workers, NEW o \in Orders, HoldRead(w, o) PROVE IInv'
  BY <1>13, <1>0 DEF HoldRead, Await
<1>14. ASSUME Scan PROVE IInv'
  BY <1>14, <1>0 DEF Scan
<1>15. ASSUME NEW o \in Orders, JobRelease(o) PROVE IInv'
  BY <1>15, <1>0 DEF JobRelease, ReleaseHold, SaveHold, AdvanceTo, Await
<1>16. ASSUME NEW o \in Orders, JobSkip(o) PROVE IInv'
  BY <1>16, <1>0 DEF JobSkip
<1>17. ASSUME NEW o \in Orders, FallDue(o) PROVE IInv'
  BY <1>17, <1>0 DEF FallDue
<1>18. CASE UNCHANGED vars
  BY <1>18 DEF vars
<1> QED
  BY <1>1, <1>2, <1>3, <1>4, <1>5, <1>6, <1>7, <1>8, <1>9, <1>10, <1>11, <1>12, <1>13,
     <1>14, <1>15, <1>16, <1>17, <1>18
  DEF Next, Request, Progress, JobStep

\* The inductive invariant: every reachable state satisfies it.
THEOREM Invariance == Spec => []IInv
<1>1. Init => IInv
  BY InitIInv
<1>2. IInv /\ [Next]_vars => IInv'
  BY NextIInv
<1> QED
  BY <1>1, <1>2, PTL DEF Spec

\* Every variable keeps its type.
THEOREM TypeCorrect == Spec => []TypeOK
<1>1. IInv => TypeOK
  BY DEF IInv
<1> QED
  BY <1>1, Invariance, PTL

\* releaseHold saves the hold before it completes the order, so whatever fails or
\* runs in between, an order nobody completed by a PATCH has been paid out.
THEOREM PayoutFirst == Spec => []CompletedAfterPayout
<1>1. IInv => CompletedAfterPayout
  BY DEF IInv
<1> QED
  BY <1>1, Invariance, PTL

\* holdOrder freezes the hold before it cancels the order, so an order nobody
\* cancelled by a PATCH has had its money frozen.
THEOREM FreezeFirst == Spec => []CancelledAfterFreeze
<1>1. IInv => CancelledAfterFreeze
  BY DEF IInv
<1> QED
  BY <1>1, Invariance, PTL

\* The one way to make a hold held is to insert it, and order_id is unique: no
\* interleaving of webhooks, risk holds and the job revives a settled hold.
THEOREM HeldOnce == Spec => NeverHeldAgain
<1>1. ASSUME TypeOK, [Next]_vars, NEW o \in Orders, hold[o] \notin {"none", "held"}
      PROVE  hold'[o] # "held"
  <2> USE <1>1 DEF TypeOK, SaveHold, holds
  <2>1. ASSUME NEW p \in Processes, CaptureHold(p) PROVE hold'[o] # "held"
    BY <2>1 DEF CaptureHold, CreateHold
  <2>2. ASSUME NEW p \in Processes, HoldMake(p) PROVE hold'[o] # "held"
    BY <2>2 DEF HoldMake, CreateHold
  <2>3. ASSUME NEW p \in Processes, HoldFreeze(p) PROVE hold'[o] # "held"
    BY <2>3 DEF HoldFreeze
  <2>4. ASSUME NEW p, NEW q \in Orders, ReleaseHold(p, q) PROVE hold'[o] # "held"
    BY <2>4 DEF ReleaseHold
  <2>5. ASSUME NEW w \in Workers, NEW q \in Orders, Refund(w, q) PROVE hold'[o] # "held"
    BY <2>5 DEF Refund
  <2>6. CASE UNCHANGED hold
    BY <2>6
  <2> QED
    BY <2>1, <2>2, <2>3, <2>4, <2>5, <2>6
    DEF Next, Request, Progress, JobStep, AdvanceRead, AdvanceSave, HoldFind, Abort, Patch,
        Capture, OpenDispute, AdminRelease, HoldRead, Scan, JobRelease, JobSkip, FallDue, vars
<1>2. TypeOK /\ [Next]_vars => [\A o \in Orders : hold[o] \notin {"none", "held"} => hold'[o] # "held"]_vars
  BY <1>1
<1> QED
  BY <1>2, TypeCorrect, PTL DEF Spec, NeverHeldAgain

\* The requests and the job, failing at any await, implement the settlement of each
\* order's money.
THEOREM Refinement == Spec => ImplementsSettlement
<1>1. Init => Money!Init
  BY DEF Init, Money!Init
<1>2. IInv /\ [Next]_vars => [Money!Next]_(Money!vars)
  <2> SUFFICES ASSUME IInv, [Next]_vars PROVE [Money!Next]_(Money!vars)
    OBVIOUS
  <2>0. TypeOK /\ SlotInv
    BY DEF IInv
  <2>1. ASSUME NEW o \in Orders, CreateHold(o), UNCHANGED statuses PROVE Money!Next
    BY <2>1 DEF CreateHold, SaveHold, statuses, Money!Next, Money!Hold
  <2>2. ASSUME NEW o \in Orders, NEW s \in {"released", "refunded", "dispute_frozen"},
               hold[o] # "none", SaveHold(o, s), UNCHANGED statuses
        PROVE  Money!Next
    BY <2>2 DEF SaveHold, statuses, Money!Next, Money!Settle
  <2>3. ASSUME NEW p \in Processes, AdvanceSave(p) PROVE Money!Next
    <3>1. /\ ord[p] \in Orders /\ order' = [order EXCEPT ![ord[p]] = tgt[p]]
          /\ hold' = hold /\ past' = past
      BY <2>0, <2>3 DEF AdvanceSave, SlotInv, holds
    <3>2. CASE op[p] = "patch"
      <4>1. tgt[p] \in OrderStatus /\ byHand' = [byHand EXCEPT ![ord[p]] = @ \cup {tgt[p]}]
        BY <2>0, <2>3, <3>2 DEF AdvanceSave, SlotInv
      <4> QED
        BY <3>1, <4>1 DEF Money!Next, Money!ByHand, OrderStatus, Money!OrderStatus
    <3>3. CASE op[p] # "patch"
      <4>1. /\ byHand' = byHand /\ tgt[p] \in {"PAID", "DISPUTE_OPEN", "COMPLETED", "CANCELLED"}
            /\ tgt[p] = "COMPLETED" => "released" \in past[ord[p]]
            /\ tgt[p] = "CANCELLED" => "dispute_frozen" \in past[ord[p]]
        BY <2>0, <2>3, <3>3 DEF AdvanceSave, SlotInv
      <4> QED
        BY <3>1, <4>1 DEF Money!Next, Money!Move
    <3> QED
      BY <3>2, <3>3
  <2>4. ASSUME NEW p \in Processes, CaptureHold(p) PROVE [Money!Next]_(Money!vars)
    BY <2>0, <2>1, <2>4 DEF CaptureHold, SlotInv, holds, statuses, Money!vars
  <2>5. ASSUME NEW p \in Processes, HoldMake(p) PROVE [Money!Next]_(Money!vars)
    BY <2>0, <2>1, <2>5 DEF HoldMake, SlotInv, holds, statuses, Money!vars
  <2>6. ASSUME NEW p \in Processes, HoldFreeze(p) PROVE Money!Next
    BY <2>0, <2>2, <2>6 DEF HoldFreeze, SlotInv
  <2>7. ASSUME NEW w \in Workers, NEW o \in Orders, Refund(w, o) PROVE Money!Next
    BY <2>2, <2>7 DEF Refund
  <2>8. ASSUME NEW p, NEW o \in Orders, ReleaseHold(p, o) PROVE Money!Next
    BY <2>2, <2>8 DEF ReleaseHold
  <2>9. CASE UNCHANGED <<order, hold, past, byHand>>
    BY <2>9 DEF Money!vars
  <2> QED
    BY <2>3, <2>4, <2>5, <2>6, <2>7, <2>8, <2>9
    DEF Next, Request, Progress, JobStep, AdvanceRead, HoldFind, Abort, Patch, Capture, OpenDispute,
        AdminRelease, HoldRead, Scan, JobRelease, JobSkip, FallDue, statuses, holds, vars
<1> QED
  BY <1>1, <1>2, Invariance, PTL DEF Spec, ImplementsSettlement, Money!Spec
=============================================================================
