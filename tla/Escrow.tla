------------------------------- MODULE Escrow -------------------------------
(***************************************************************************)
(* The escrow holds (payments/escrow.service.ts), the hourly job that      *)
(* releases them (jobs/escrow-release.processor.ts), and everything that   *)
(* touches a hold or races with it over the order's status: the end of a   *)
(* payment webhook, refunds, the administrators' risk hold and release,    *)
(* disputes and PATCHes.  The orders start awaiting their payment, which   *)
(* module Payments follows call by call.                                   *)
(***************************************************************************)
EXTENDS OrderStatus, FiniteSets

CONSTANTS
  Orders,     \* the orders
  NoOrder,    \* a process that handles no order
  Workers,    \* the slots of concurrent requests
  Job,        \* the escrow release job
  Requested,  \* bound: the operations clients and administrators call
  Patches     \* bound: statuses asked for by PATCH orders/:id/status

ASSUME EscrowAssumption ==
  NoOrder \notin Orders /\ Job \notin Workers /\ Patches \subseteq OrderStatus

VARIABLES
  order,      \* order -> its status
  hold,       \* order -> the status of its hold, "none" without one
  due,        \* the orders whose hold is past release_after
  captured,   \* the orders with a succeeded payment intent
  disputes,   \* the orders with a dispute row
  pc, op,     \* process -> the next await to return, the operation it runs
  ord,        \* process -> the order it handles
  tgt,        \* process -> the status it advances the order to
  snap,       \* worker -> the status holdOrder read
  todo,       \* the orders the job has still to release
  past,       \* history: order -> the statuses its hold has had
  byHand,     \* history: order -> the statuses a PATCH gave it
  quiet       \* no call fails any more and the server does not restart

vars  == <<order, hold, due, captured, disputes, pc, op, ord, tgt, snap, todo,
           past, byHand, quiet>>
slot  == <<pc, op, ord, tgt, snap>>
holds == <<hold, past>>
statuses == <<order, byHand>>

Processes  == Workers \cup {Job}
HoldStatus == {"held", "released", "refunded", "dispute_frozen"}

TypeOK ==
  /\ order \in [Orders -> OrderStatus]
  /\ hold \in [Orders -> HoldStatus \cup {"none"}]
  /\ due \subseteq Orders /\ captured \subseteq Orders /\ disputes \subseteq Orders
  /\ pc \in [Processes -> {"idle", "advance", "save", "create", "find", "make", "freeze"}]
  /\ op \in [Processes -> {"none", "capture", "release", "hold", "dispute", "patch"}]
  /\ ord \in [Processes -> Orders \cup {NoOrder}]
  /\ tgt \in [Processes -> OrderStatus \cup {NONE}]
  /\ snap \in [Processes -> OrderStatus \cup {NONE}]
  /\ todo \subseteq Orders
  /\ past \in [Orders -> SUBSET HoldStatus]
  /\ byHand \in [Orders -> SUBSET OrderStatus]
  /\ quiet \in BOOLEAN

Init ==
  /\ order = [o \in Orders |-> "PAYMENT_PENDING"]
  /\ hold = [o \in Orders |-> "none"]
  /\ due = {} /\ captured = {} /\ disputes = {} /\ todo = {}
  /\ pc = [p \in Processes |-> "idle"]
  /\ op = [p \in Processes |-> "none"]
  /\ ord = [p \in Processes |-> NoOrder]
  /\ tgt = [p \in Processes |-> NONE]
  /\ snap = [p \in Processes |-> NONE]
  /\ past = [o \in Orders |-> {}]
  /\ byHand = [o \in Orders |-> {}]
  /\ quiet \in BOOLEAN

Await(p, at, operation, o, s, read) ==
  /\ pc' = [pc EXCEPT ![p] = at]
  /\ op' = [op EXCEPT ![p] = operation]
  /\ ord' = [ord EXCEPT ![p] = o]
  /\ tgt' = [tgt EXCEPT ![p] = s]
  /\ snap' = [snap EXCEPT ![p] = read]

Goto(p, at) == Await(p, at, op[p], ord[p], NONE, snap[p])
AdvanceTo(p, operation, o, s) == Await(p, "advance", operation, o, s, NONE)
Finish(p)   == Await(p, "idle", "none", NoOrder, NONE, NONE)

\* Save the hold of o with status s, whatever it was.
SaveHold(o, s) ==
  /\ hold' = [hold EXCEPT ![o] = s]
  /\ past' = [past EXCEPT ![o] = @ \cup {s}]

\* createHold inserts; order_id is unique, so a second insert is refused.
CreateHold(o) ==
  /\ hold[o] = "none"
  /\ SaveHold(o, "held")

-----------------------------------------------------------------------------
\* OrdersService.advanceStatus, called by every operation below: read and check ...
AdvanceRead(p) ==
  /\ pc[p] = "advance"
  /\ IF tgt[p] \in ORDER_TRANSITIONS[order[ord[p]]]
     THEN Await(p, "save", op[p], ord[p], tgt[p], NONE)
     ELSE Finish(p)
  /\ UNCHANGED <<statuses, holds, due, captured, disputes, todo, quiet>>

\* ... then save; a payment webhook goes on to create the hold.
AdvanceSave(p) ==
  /\ pc[p] = "save"
  /\ order' = [order EXCEPT ![ord[p]] = tgt[p]]
  /\ byHand' = IF op[p] = "patch" THEN [byHand EXCEPT ![ord[p]] = @ \cup {tgt[p]}] ELSE byHand
  /\ IF op[p] = "capture" THEN Goto(p, "create") ELSE Finish(p)
  /\ UNCHANGED <<holds, due, captured, disputes, todo, quiet>>

\* PATCH orders/:id/status, and the courier's webhook for DELIVERED.
Patch(w, o, s) ==
  /\ pc[w] = "idle"
  /\ AdvanceTo(w, "patch", o, s)
  /\ UNCHANGED <<statuses, holds, due, captured, disputes, todo, quiet>>

\* The end of a successful payment webhook: PAID, then the hold.
Capture(w, o) ==
  /\ pc[w] = "idle"
  /\ captured' = captured \cup {o}
  /\ AdvanceTo(w, "capture", o, "PAID")
  /\ UNCHANGED <<statuses, holds, due, disputes, todo, quiet>>

CaptureHold(w) ==
  /\ pc[w] = "create"
  /\ CreateHold(ord[w]) \/ (hold[ord[w]] # "none" /\ UNCHANGED holds)
  /\ Finish(w)
  /\ UNCHANGED <<statuses, due, captured, disputes, todo, quiet>>

\* openDispute: insert the dispute, then advance the order; the hold is left alone.
OpenDispute(w, o) ==
  /\ pc[w] = "idle"
  /\ disputes' = disputes \cup {o}
  /\ AdvanceTo(w, "dispute", o, "DISPUTE_OPEN")
  /\ UNCHANGED <<statuses, holds, due, captured, todo, quiet>>

\* Mutant: a refund makes the hold it does not find.
RefundUnheld(w, o) ==
  /\ pc[w] = "idle"
  /\ o \in captured
  /\ SaveHold(o, "refunded")
  /\ UNCHANGED <<statuses, due, captured, disputes, todo, slot, quiet>>

\* The end of initiateRefund: refundHold, whatever the hold's status.
Refund(w, o) ==
  /\ pc[w] = "idle"
  /\ o \in captured /\ hold[o] # "none"
  /\ SaveHold(o, "refunded")
  /\ UNCHANGED <<statuses, due, captured, disputes, todo, slot, quiet>>

-----------------------------------------------------------------------------
\* Mutant: the order is advanced, the hold is not saved.
ReleaseUnsaved(p, o) ==
  /\ pc[p] = "idle" /\ hold[o] # "none"
  /\ AdvanceTo(p, "release", o, "COMPLETED")
  /\ UNCHANGED <<statuses, holds, due, captured, disputes, quiet>>

\* releaseHold by process p: release the hold, whatever its status, then advance.
ReleaseHold(p, o) ==
  /\ pc[p] = "idle"
  /\ hold[o] # "none"
  /\ SaveHold(o, "released")
  /\ AdvanceTo(p, "release", o, "COMPLETED")
  /\ UNCHANGED <<statuses, due, captured, disputes, quiet>>

\* AdminService.releaseRiskHold.
AdminRelease(w, o) == ReleaseHold(w, o) /\ UNCHANGED todo

\* Mutant: the job looks for another status.
ScanFrozen ==
  /\ pc[Job] = "idle" /\ todo = {}
  /\ todo' = {o \in due : hold[o] = "dispute_frozen"}
  /\ UNCHANGED <<statuses, holds, due, captured, disputes, slot, quiet>>

\* releaseEligibleEscrows: list the holds that are held and due ...
Scan ==
  /\ pc[Job] = "idle" /\ todo = {}
  /\ todo' = {o \in due : hold[o] = "held"}
  /\ UNCHANGED <<statuses, holds, due, captured, disputes, slot, quiet>>

\* ... and release them one by one.
JobRelease(o) ==
  /\ o \in todo
  /\ todo' = todo \ {o}
  /\ ReleaseHold(Job, o)

\* The release of one fails before its hold is saved.
JobSkip(o) ==
  /\ pc[Job] = "idle" /\ ~quiet
  /\ o \in todo
  /\ todo' = todo \ {o}
  /\ UNCHANGED <<statuses, holds, due, captured, disputes, slot, quiet>>

-----------------------------------------------------------------------------
\* Mutants: a hold created by holdOrder is not frozen; the frozen status is misspelt.
MakeUnfrozen(w) ==
  /\ pc[w] = "make"
  /\ \/ CreateHold(ord[w]) /\ AdvanceTo(w, "hold", ord[w], "CANCELLED")
     \/ hold[ord[w]] # "none" /\ UNCHANGED holds /\ Finish(w)
  /\ UNCHANGED <<statuses, due, captured, disputes, todo, quiet>>

FreezeMisspelt(w) ==
  /\ pc[w] = "freeze"
  /\ SaveHold(ord[w], "frozen")
  /\ AdvanceTo(w, "hold", ord[w], "CANCELLED")
  /\ UNCHANGED <<statuses, due, captured, disputes, todo, quiet>>

\* AdminService.holdOrder: read the order ...
HoldRead(w, o) ==
  /\ pc[w] = "idle"
  /\ Await(w, "find", "hold", o, NONE, order[o])
  /\ UNCHANGED <<statuses, holds, due, captured, disputes, todo, quiet>>

\* ... look for its hold ...
HoldFind(w) ==
  /\ pc[w] = "find"
  /\ Goto(w, IF hold[ord[w]] = "none" THEN "make" ELSE "freeze")
  /\ UNCHANGED <<statuses, holds, due, captured, disputes, todo, quiet>>

\* ... create one if there was none ...
HoldMake(w) ==
  /\ pc[w] = "make"
  /\ \/ CreateHold(ord[w]) /\ Goto(w, "freeze")
     \/ hold[ord[w]] # "none" /\ UNCHANGED holds /\ Finish(w)
  /\ UNCHANGED <<statuses, due, captured, disputes, todo, quiet>>

\* ... freeze it, and cancel the order if the status read first allows it.
HoldFreeze(w) ==
  /\ pc[w] = "freeze"
  /\ SaveHold(ord[w], "dispute_frozen")
  /\ IF "CANCELLED" \in ORDER_TRANSITIONS[snap[w]]
     THEN AdvanceTo(w, "hold", ord[w], "CANCELLED") ELSE Finish(w)
  /\ UNCHANGED <<statuses, due, captured, disputes, todo, quiet>>

-----------------------------------------------------------------------------
\* Seven days have passed since the hold was created.
FallDue(o) ==
  /\ hold[o] # "none" /\ o \notin due
  /\ due' = due \cup {o}
  /\ UNCHANGED <<statuses, holds, captured, disputes, todo, slot, quiet>>

\* The awaited call fails, or the process dies: the job's catch goes on with the
\* next hold, a restart drops the list.
Abort(p) ==
  /\ pc[p] # "idle" /\ ~quiet
  /\ Finish(p)
  /\ todo' \in IF p = Job THEN {todo, {}} ELSE {todo}
  /\ UNCHANGED <<statuses, holds, due, captured, disputes, quiet>>

Progress(p) ==
  \/ AdvanceRead(p) \/ AdvanceSave(p) \/ CaptureHold(p)
  \/ HoldFind(p) \/ HoldMake(p) \/ HoldFreeze(p)

Request(w) == \E o \in Orders :
  \/ \E s \in Patches : Patch(w, o, s)
  \/ "capture" \in Requested /\ Capture(w, o)
  \/ "dispute" \in Requested /\ OpenDispute(w, o)
  \/ "refund"  \in Requested /\ Refund(w, o)
  \/ "release" \in Requested /\ AdminRelease(w, o)
  \/ "hold"    \in Requested /\ HoldRead(w, o)

JobStep == Scan \/ \E o \in Orders : JobRelease(o) \/ JobSkip(o)

Next ==
  \/ \E w \in Workers : Request(w)
  \/ \E p \in Processes : Progress(p) \/ Abort(p)
  \/ JobStep
  \/ \E o \in Orders : FallDue(o)

Spec == Init /\ [][Next]_vars

\* For liveness: at some moment the failures end.
Settle ==
  /\ ~quiet
  /\ quiet' = TRUE
  /\ UNCHANGED <<statuses, holds, due, captured, disputes, todo, slot>>

\* Node runs a callback whose await has returned, and cron starts the job again.
\* Nothing obliges anyone to send a request.
JobSpec ==
  /\ Init /\ [][Next \/ Settle]_vars
  /\ \A p \in Processes : WF_vars(Progress(p))
  /\ WF_vars(Scan) /\ WF_vars(\E o \in Orders : JobRelease(o)) /\ WF_vars(Settle)

-----------------------------------------------------------------------------
\* An order the service completed by itself was paid out before: releaseHold saves
\* the hold first, and a crash between its two saves never completes an unpaid one.
CompletedAfterPayout == \A o \in Orders :
  order[o] = "COMPLETED" /\ "COMPLETED" \notin byHand[o] => "released" \in past[o]

\* A risk hold cancels an order only after its money was frozen, so a failure in
\* between leaves the money safe.
CancelledAfterFreeze == \A o \in Orders :
  order[o] = "CANCELLED" /\ "CANCELLED" \notin byHand[o] => "dispute_frozen" \in past[o]

\* A hold that was released, frozen or refunded never becomes held again, not even
\* when a payment webhook and a risk hold race to create it.
NeverHeldAgain ==
  [][\A o \in Orders : hold[o] \notin {"none", "held"} => hold'[o] # "held"]_vars

\* A hold that is due does not stay held: failures of the job, and of the release of
\* other orders, are made good by a later run.
DueHoldIsSettled == \A o \in Orders : o \in due /\ hold[o] = "held" ~> hold[o] # "held"

\* README: a dispute opened during the release window blocks the payout.
DisputeBlocksPayout == [][\A o \in Orders :
  JobRelease(o) => order[o] # "DISPUTE_OPEN"]_vars

\* The escrow, its job and all that race with them implement the settlement.
Money == INSTANCE Settlement

\* Whatever overlaps or fails, money is held once and by an insert, only what is held is
\* settled, and the service completes or cancels an order only after its money moved.
ImplementsSettlement == Money!Spec
=============================================================================
