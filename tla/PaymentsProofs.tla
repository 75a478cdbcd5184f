--------------------------- MODULE PaymentsProofs ---------------------------
(***************************************************************************)
(* What module Payments guarantees for every set of intents, workers and   *)
(* keys: whatever the interleaving, the failures and the notifications,    *)
(* money is recorded, held and given back only where a gateway has some    *)
(* that the code accepts for it.                                           *)
(***************************************************************************)
EXTENDS Payments, TLAPS

\* The intents that a gateway has money for as far as the code looks, and whether
\* any gateway has money.
PaidFor(i) ==
  \/ gateway[i] = "paid"
  \/ i \in ByIpn /\ \E v \in ByIpn \cup Others : gateway[v] = "paid"
Paid == {i \in Intents : PaidFor(i)}
SomePaid == \E j \in Sessions : gateway[j] = "paid"

\* What each operation's slots hold at each await.
OpInv == \A p \in Processes :
  /\ pc[p] \in {"insert", "session", "store", "reread", "answer"} => op[p] = "initiate"
  /\ pc[p] \in {"find", "succeed", "fail", "hold", "mark"} => op[p] = "webhook"
  /\ pc[p] = "credit" => op[p] \in {"webhook", "job"}
  /\ pc[p] = "recheck" => op[p] = "job"
  /\ pc[p] \in {"refund", "unhold"} => op[p] = "refund"
  /\ pc[p] \in {"advance", "save"} =>
       op[p] \in {"initiate", "webhook", "patch", "job"} /\ tgt[p] \in OrderStatus
  /\ pc[p] \in {"advance", "save"} /\ op[p] = "initiate" =>
       tgt[p] \in {"CHECKOUT_STARTED", "PAYMENT_PENDING"}
  /\ pc[p] \in {"advance", "save"} /\ op[p] \in {"webhook", "job"} => tgt[p] = "PAID"
  /\ pc[p] \in {"session", "store", "succeed", "credit", "fail"} => int[p] \in Intents
  /\ pc[p] = "find" => int[p] \notin ByIpn

IntentInv ==
  /\ \A i \in Intents : gateway[i] # "none" => intent[i] # "none"
  /\ \A i \in linked : intent[i] # "none"
  /\ \A p \in Processes : op[p] = "initiate" /\ pc[p] # "insert" =>
       /\ int[p] \in Intents
       /\ intent[int[p]] # "none"
       /\ key[int[p]] = kreq[p]
  /\ \A p \in Processes :
       op[p] = "initiate" /\ pc[p] \notin {"insert", "session", "store"} =>
         int[p] \in linked

\* A gateway's verdict is final: a session is opened once, by one request.
SessionInv ==
  /\ \A p \in Processes : pc[p] = "session" => gateway[int[p]] = "none"
  /\ \A p, q \in Processes :
       pc[p] = "session" /\ pc[q] = "session" /\ int[p] = int[q] => p = q

\* Money is recorded for what a gateway has ...
MoneyInv ==
  /\ \A i \in ipn \cap ByIpn : i \in Paid
  /\ todo \subseteq Paid
  /\ \A i \in Intents : intent[i] = "succeeded" => i \in Paid
  /\ \A i \in Intents : credits[i] > 0 => i \in Paid
  /\ \A p \in Processes :
       /\ pc[p] \in {"succeed", "credit"} => int[p] \in Paid
       /\ pc[p] = "fail" /\ int[p] \in ByIpn => int[p] \in Paid
       /\ pc[p] = "refund" => SomePaid
       /\ pc[p] = "unhold" => refunds > 0
  /\ refunds > 0 => SomePaid

\* ... and is recorded before the order is PAID and its marker set.
OrderInv ==
  /\ order = "PAID" /\ ~manual => Credited
  /\ \A p \in Processes :
       /\ pc[p] \in {"hold", "recheck"} => Credited
       /\ pc[p] \in {"advance", "save"} /\ op[p] \in {"webhook", "job"} => Credited
       /\ pc[p] = "mark" => (hold # "none" /\ Credited) \/ webhookKey(int[p]) \in failed
  /\ MarkerMeansSettled

IInv == TypeOK /\ OpInv /\ IntentInv /\ SessionInv /\ MoneyInv /\ OrderInv /\ AnswerIsPayable
        /\ WaitingHasUrl

\* The initial states satisfy the inductive invariant.
LEMMA InitIInv == Init => IInv
<1> SUFFICES ASSUME Init PROVE IInv
  OBVIOUS
<1> USE PaymentsAssumption DEF Init, Processes
<1>1. TypeOK
  <2>1. "CHECKOUT_STARTED" \in OrderStatus
    BY DEF OrderStatus
  <2>2. /\ int \in [Processes -> Intents \cup {NoIntent}] /\ kreq \in [Processes -> Keys \cup {NoKey}]
        /\ tgt \in [Processes -> OrderStatus \cup {NONE}]
    OBVIOUS
  <2>3. /\ order \in OrderStatus /\ hold \in {"none", "held", "moved", "refunded"} /\ refunds \in 0 .. MaxRefunds
        /\ linked \subseteq Intents /\ payUrl \subseteq Intents /\ ipn \subseteq Intents
        /\ bare \subseteq Processes /\ failed \subseteq Intents \cup {NoIntent}
        /\ marker \subseteq Intents \cup {NoIntent} /\ todo \subseteq Intents
    BY <2>1
  <2>7. manual \in BOOLEAN /\ quiet \in BOOLEAN
    BY Zenon
  <2>4. /\ key \in [Intents -> Keys \cup {NoKey}] /\ credits \in [Intents -> 0 .. MaxCredits]
        /\ cache \in [Keys -> Intents \cup {NoIntent}]
    OBVIOUS
  <2>5. /\ intent \in [Intents -> {"none", "pending", "processing", "succeeded", "failed"}]
        /\ gateway \in [Sessions -> {"none", "open", "paid", "declined"}]
        /\ op \in [Processes -> {"none", "initiate", "webhook", "patch", "refund", "job"}]
    OBVIOUS
  <2>6. pc \in [Processes ->
          {"idle", "insert", "session", "store", "reread", "advance", "save", "answer",
           "find", "succeed", "fail", "credit", "hold", "mark", "recheck",
           "refund", "unhold"}]
    OBVIOUS
  <2> HIDE DEF Init, Processes
  <2> QED
    BY <2>2, <2>3, <2>4, <2>5, <2>6, <2>7, Zenon DEF TypeOK
<1>2. OpInv
  BY DEF OpInv
<1>3. IntentInv /\ SessionInv
  BY DEF IntentInv, SessionInv, Sessions
<1>4. MoneyInv
  BY DEF MoneyInv
<1>5. OrderInv
  BY DEF OrderInv, MarkerMeansSettled
<1>6. AnswerIsPayable
  BY DEF AnswerIsPayable
<1>7. WaitingHasUrl
  BY DEF WaitingHasUrl
<1> QED
  BY <1>1, <1>2, <1>3, <1>4, <1>5, <1>6, <1>7 DEF IInv

\* Every step keeps the types, and what the slots hold.
LEMMA TypeOpStep ==
  ASSUME TypeOK, OpInv, [Next]_vars PROVE TypeOK' /\ OpInv'
<1> USE PaymentsAssumption DEF Processes, TypeOK, OpInv, rows, env, slot
<1>0. {"CHECKOUT_STARTED", "PAYMENT_PENDING", "PAID"} \subseteq OrderStatus
  BY DEF OrderStatus
<1>1. ASSUME NEW p \in Processes, AdvanceRead(p) PROVE TypeOK' /\ OpInv'
  BY <1>1 DEF AdvanceRead, Await, Slot, Finish
<1>2. ASSUME NEW p \in Processes, AdvanceSave(p) PROVE TypeOK' /\ OpInv'
  BY <1>2, <1>0 DEF AdvanceSave, Await, Slot, Finish, Goto, AdvanceTo
<1>3. ASSUME NEW p \in Processes, NEW i \in Intents, InitiateInsert(p, i) PROVE TypeOK' /\ OpInv'
  BY <1>3 DEF InitiateInsert, SetIntent, Await, Slot
<1>4. ASSUME NEW p \in Processes, InitiateSession(p) PROVE TypeOK' /\ OpInv'
  BY <1>4, <1>0 DEF InitiateSession, Goto, Await, Slot
<1>5. ASSUME NEW p \in Processes, InitiateStore(p) PROVE TypeOK' /\ OpInv'
  BY <1>5, <1>0 DEF InitiateStore, SetIntent, Goto, Await, Slot
<1>6. ASSUME NEW p \in Processes, InitiateReread(p) PROVE TypeOK' /\ OpInv'
  <2>1. CASE order = "DRAFT"
    BY <1>6, <2>1, <1>0 DEF InitiateReread, AdvanceTo, Await, Slot
  <2>2. CASE order # "DRAFT"
    BY <1>6, <2>2, <1>0 DEF InitiateReread, AdvanceTo, Await, Slot
  <2> QED
    BY <2>1, <2>2
<1>7. ASSUME NEW p \in Processes, InitiateAnswer(p) PROVE TypeOK' /\ OpInv'
  BY <1>7, <1>0 DEF InitiateAnswer, Finish, Await, Slot
<1>8. ASSUME NEW p \in Processes, FindSslcommerz(p) PROVE TypeOK' /\ OpInv'
  <2>1. ASSUME NEW i \in ByIpn, NEW verdict \in {"succeed", "fail"},
               Slot(p, verdict, "webhook", i, NoKey, NONE, i \notin payUrl)
        PROVE  TypeOK' /\ OpInv'
    BY <1>8, <1>0, <2>1 DEF FindSslcommerz, Slot, ByIpn
  <2>2. CASE Finish(p)
    BY <1>8, <1>0, <2>2 DEF FindSslcommerz, Finish, Await, Slot
  <2> QED
    BY <1>8, <2>1, <2>2 DEF FindSslcommerz
<1>31. ASSUME NEW p \in Processes, FindBkash(p) PROVE TypeOK' /\ OpInv'
  BY <1>31, <1>0 DEF FindBkash, Goto, Finish, Await, Slot
<1>9. ASSUME NEW p \in Processes, WebhookSucceed(p) PROVE TypeOK' /\ OpInv'
  BY <1>9, <1>0 DEF WebhookSucceed, SaveCopy, SetIntent, Goto, Await, Slot
<1>10. ASSUME NEW p \in Processes, Credit(p) PROVE TypeOK' /\ OpInv'
  BY <1>10, <1>0 DEF Credit, UpTo, AdvanceTo, Goto, Await, Slot
<1>11. ASSUME NEW p \in Processes, CreateHold(p) PROVE TypeOK' /\ OpInv'
  BY <1>11, <1>0 DEF CreateHold, Goto, Finish, Await, Slot
<1>12. ASSUME NEW p \in Processes, WebhookFail(p) PROVE TypeOK' /\ OpInv'
  BY <1>12, <1>0 DEF WebhookFail, webhookKey, SaveCopy, SetIntent, Goto, Await, Slot
<1>13. ASSUME NEW p \in Processes, WebhookMark(p) PROVE TypeOK' /\ OpInv'
  BY <1>13, <1>0 DEF WebhookMark, webhookKey, Finish, Await, Slot
<1>14. ASSUME NEW p \in Processes, RefundInsert(p) PROVE TypeOK' /\ OpInv'
  BY <1>14, <1>0 DEF RefundInsert, UpTo, Goto, Await, Slot
<1>15. ASSUME NEW p \in Processes, RefundHold(p) PROVE TypeOK' /\ OpInv'
  BY <1>15, <1>0 DEF RefundHold, Finish, Await, Slot
<1>16. ASSUME NEW p \in Processes, Abort(p) PROVE TypeOK' /\ OpInv'
  BY <1>16, <1>0 DEF Abort, Finish, Await, Slot
<1>17. ASSUME NEW w \in Workers, NEW s \in Patches, Patch(w, s) PROVE TypeOK' /\ OpInv'
  BY <1>17, <1>0 DEF Patch, Await, Slot
<1>18. ASSUME NEW w \in Workers, NEW k \in Keys \cup {NoKey}, InitiateCheck(w, k) PROVE TypeOK' /\ OpInv'
  BY <1>18, <1>0 DEF InitiateCheck, Await, Slot
<1>19. ASSUME NEW w \in Workers, NEW i \in Intents, WebhookCheck(w, webhookKey(i)) PROVE TypeOK' /\ OpInv'
  BY <1>19, <1>0 DEF WebhookCheck, webhookKey, ByIpn, Await, Slot
<1>20. ASSUME NEW w \in Workers, NEW i \in Intents, RefundFind(w, i) PROVE TypeOK' /\ OpInv'
  BY <1>20, <1>0 DEF RefundFind, Await, Slot
<1>21. ASSUME Scan PROVE TypeOK' /\ OpInv'
  BY <1>21, <1>0 DEF Scan
<1>22. ASSUME NEW i \in Intents, Reconcile(i) PROVE TypeOK' /\ OpInv'
  BY <1>22, <1>0 DEF Reconcile, SaveCopy, SetIntent, Await, Slot
<1>23. ASSUME NEW i \in Intents, Skip(i) PROVE TypeOK' /\ OpInv'
  BY <1>23, <1>0 DEF Skip
<1>24. ASSUME Recheck PROVE TypeOK' /\ OpInv'
  BY <1>24, <1>0 DEF Recheck, AdvanceTo, Finish, Await, Slot
<1>25. ASSUME NEW s \in Overrides, Override(s) PROVE TypeOK' /\ OpInv'
  BY <1>25, <1>0 DEF Override
<1>26. ASSUME NEW i \in Intents, Pay(i) PROVE TypeOK' /\ OpInv'
  BY <1>26, <1>0 DEF Pay, Sessions
<1>27. ASSUME MoveHold PROVE TypeOK' /\ OpInv'
  BY <1>27, <1>0 DEF MoveHold
<1>28. ASSUME NEW m \in marker, ExpireMarker(m) PROVE TypeOK' /\ OpInv'
  BY <1>28, <1>0 DEF ExpireMarker
<1>29. ASSUME NEW k \in Keys, ExpireAnswer(k) PROVE TypeOK' /\ OpInv'
  BY <1>29, <1>0 DEF ExpireAnswer
<1>30. CASE UNCHANGED vars
  BY <1>30 DEF vars
<1> QED
  BY <1>1, <1>2, <1>3, <1>4, <1>5, <1>6, <1>7, <1>8, <1>9, <1>10, <1>11, <1>12, <1>13, <1>14, <1>15, <1>16, <1>17, <1>18, <1>19, <1>20, <1>21, <1>22, <1>23, <1>24, <1>25, <1>26, <1>27, <1>28, <1>29, <1>30, <1>31
  DEF Next, Request, Progress, JobStep, Environment

\* What no step undoes.
Stable ==
  /\ \A j \in Sessions : gateway[j] \in {"paid", "declined"} => gateway'[j] = gateway[j]
  /\ \A i \in Intents : intent[i] # "none" => intent'[i] # "none" /\ key'[i] = key[i]
  /\ linked \subseteq linked' /\ failed \subseteq failed'
  /\ hold # "none" => hold' # "none"
  /\ \A i \in Intents : credits[i] > 0 => credits'[i] > 0

\* No step takes back a gateway's verdict, a row, a saved pay URL or money.
LEMMA StepIsStable ==
  ASSUME TypeOK, OpInv, SessionInv, [Next]_vars PROVE Stable
<1> USE DEF Processes, TypeOK, Stable, rows, env, slot
<1>1. ASSUME NEW p \in Processes, NEW i \in Intents, InitiateInsert(p, i) PROVE Stable
  BY <1>1 DEF InitiateInsert, SetIntent
<1>2. ASSUME NEW p \in Processes, InitiateSession(p) PROVE Stable
  BY <1>2 DEF InitiateSession, SessionInv, OpInv
<1>3. ASSUME NEW p \in Processes, InitiateStore(p) PROVE Stable
  BY <1>3 DEF InitiateStore, SetIntent
<1>4. ASSUME NEW p \in Processes, WebhookSucceed(p) PROVE Stable
  BY <1>4 DEF WebhookSucceed, SaveCopy, SetIntent
<1>5. ASSUME NEW p \in Processes, Credit(p) PROVE Stable
  BY <1>5, PaymentsAssumption DEF Credit, UpTo
<1>6. ASSUME NEW p \in Processes, CreateHold(p) PROVE Stable
  BY <1>6 DEF CreateHold
<1>7. ASSUME NEW p \in Processes, WebhookFail(p) PROVE Stable
  BY <1>7 DEF WebhookFail, SaveCopy, SetIntent
<1>8. ASSUME NEW p \in Processes, RefundHold(p) PROVE Stable
  BY <1>8 DEF RefundHold
<1>9. ASSUME NEW i \in Intents, Reconcile(i) PROVE Stable
  BY <1>9 DEF Reconcile, SaveCopy, SetIntent
<1>10. ASSUME NEW i \in Intents, Pay(i) PROVE Stable
  BY <1>10 DEF Pay
<1>11. ASSUME MoveHold PROVE Stable
  BY <1>11 DEF MoveHold
<1>12. CASE UNCHANGED <<intent, key, linked, credits, hold, gateway, failed>>
  BY <1>12
<1> HIDE DEF Processes, TypeOK, Stable
<1> QED
  BY <1>1, <1>2, <1>3, <1>4, <1>5, <1>6, <1>7, <1>8, <1>9, <1>10, <1>11, <1>12
  DEF Next, Request, Progress, JobStep, Environment, AdvanceRead, AdvanceSave,
      InitiateReread, InitiateAnswer, FindSslcommerz, FindBkash, WebhookMark, RefundInsert, Abort, Patch,
      InitiateCheck, WebhookCheck, RefundFind, Scan, Skip, Recheck, Override,
      ExpireMarker, ExpireAnswer, vars

\* So what is paid and credited stays so.
LEMMA PaidIsStable ==
  ASSUME TypeOK, Stable
  PROVE  Paid \subseteq Paid' /\ (SomePaid => SomePaid') /\ (Credited => Credited')
<1>1. Paid \subseteq Paid'
  BY DEF Stable, Paid, PaidFor, ByIpn, Sessions
<1>2. SomePaid => SomePaid'
  BY DEF Stable, SomePaid
<1>3. Credited => Credited'
  BY DEF Stable, Credited
<1> QED
  BY <1>1, <1>2, <1>3

\* Every step keeps the intents and the gateway's sessions in agreement.
LEMMA IntentStep ==
  ASSUME TypeOK, OpInv, IntentInv, SessionInv, Stable, [Next]_vars
  PROVE  IntentInv' /\ SessionInv'
<1> USE PaymentsAssumption
    DEF Processes, TypeOK, OpInv, IntentInv, SessionInv, Stable, rows, env, slot
<1>1. ASSUME NEW p \in Processes, AdvanceRead(p) PROVE IntentInv' /\ SessionInv'
  BY <1>1 DEF AdvanceRead, Await, Slot, Finish
<1>2. ASSUME NEW p \in Processes, AdvanceSave(p) PROVE IntentInv' /\ SessionInv'
  BY <1>2 DEF AdvanceSave, Await, Slot, Finish, Goto, AdvanceTo
<1>3. ASSUME NEW p \in Processes, NEW i \in Intents, InitiateInsert(p, i) PROVE IntentInv' /\ SessionInv'
  BY <1>3 DEF InitiateInsert, SetIntent, Await, Slot
<1>4. ASSUME NEW p \in Processes, InitiateSession(p) PROVE IntentInv' /\ SessionInv'
  BY <1>4 DEF InitiateSession, Goto, Await, Slot
<1>5. ASSUME NEW p \in Processes, InitiateStore(p) PROVE IntentInv' /\ SessionInv'
  BY <1>5 DEF InitiateStore, SetIntent, Goto, Await, Slot
<1>6. ASSUME NEW p \in Processes, InitiateReread(p) PROVE IntentInv' /\ SessionInv'
  BY <1>6 DEF InitiateReread, AdvanceTo, Await, Slot
<1>7. ASSUME NEW p \in Processes, InitiateAnswer(p) PROVE IntentInv' /\ SessionInv'
  BY <1>7 DEF InitiateAnswer, Finish, Await, Slot
<1>8. ASSUME NEW p \in Processes, FindSslcommerz(p) PROVE IntentInv' /\ SessionInv'
  BY <1>8 DEF FindSslcommerz, Finish, Await, Slot
<1>31. ASSUME NEW p \in Processes, FindBkash(p) PROVE IntentInv' /\ SessionInv'
  BY <1>31 DEF FindBkash, Goto, Finish, Await, Slot
<1>9. ASSUME NEW p \in Processes, WebhookSucceed(p) PROVE IntentInv' /\ SessionInv'
  BY <1>9 DEF WebhookSucceed, SaveCopy, SetIntent, Goto, Await, Slot
<1>10. ASSUME NEW p \in Processes, Credit(p) PROVE IntentInv' /\ SessionInv'
  BY <1>10 DEF Credit, UpTo, AdvanceTo, Goto, Await, Slot
<1>11. ASSUME NEW p \in Processes, CreateHold(p) PROVE IntentInv' /\ SessionInv'
  BY <1>11 DEF CreateHold, Goto, Finish, Await, Slot
<1>12. ASSUME NEW p \in Processes, WebhookFail(p) PROVE IntentInv' /\ SessionInv'
  BY <1>12 DEF WebhookFail, SaveCopy, SetIntent, Goto, Await, Slot
<1>13. ASSUME NEW p \in Processes, WebhookMark(p) PROVE IntentInv' /\ SessionInv'
  BY <1>13 DEF WebhookMark, webhookKey, Finish, Await, Slot
<1>14. ASSUME NEW p \in Processes, RefundInsert(p) PROVE IntentInv' /\ SessionInv'
  BY <1>14 DEF RefundInsert, UpTo, Goto, Await, Slot
<1>15. ASSUME NEW p \in Processes, RefundHold(p) PROVE IntentInv' /\ SessionInv'
  BY <1>15 DEF RefundHold, Finish, Await, Slot
<1>16. ASSUME NEW p \in Processes, Abort(p) PROVE IntentInv' /\ SessionInv'
  BY <1>16 DEF Abort, Finish, Await, Slot
<1>17. ASSUME NEW w \in Workers, NEW s \in Patches, Patch(w, s) PROVE IntentInv' /\ SessionInv'
  BY <1>17 DEF Patch, Await, Slot
<1>18. ASSUME NEW w \in Workers, NEW k \in Keys \cup {NoKey}, InitiateCheck(w, k) PROVE IntentInv' /\ SessionInv'
  BY <1>18 DEF InitiateCheck, Await, Slot
<1>19. ASSUME NEW w \in Workers, NEW i \in Intents, WebhookCheck(w, webhookKey(i)) PROVE IntentInv' /\ SessionInv'
  BY <1>19 DEF WebhookCheck, webhookKey, Await, Slot
<1>20. ASSUME NEW w \in Workers, NEW i \in Intents, RefundFind(w, i) PROVE IntentInv' /\ SessionInv'
  BY <1>20 DEF RefundFind, Await, Slot
<1>21. ASSUME Scan PROVE IntentInv' /\ SessionInv'
  BY <1>21 DEF Scan
<1>22. ASSUME NEW i \in Intents, Reconcile(i) PROVE IntentInv' /\ SessionInv'
  BY <1>22 DEF Reconcile, SaveCopy, SetIntent, Await, Slot
<1>23. ASSUME NEW i \in Intents, Skip(i) PROVE IntentInv' /\ SessionInv'
  BY <1>23 DEF Skip
<1>24. ASSUME Recheck PROVE IntentInv' /\ SessionInv'
  BY <1>24 DEF Recheck, AdvanceTo, Finish, Await, Slot
<1>25. ASSUME NEW s \in Overrides, Override(s) PROVE IntentInv' /\ SessionInv'
  BY <1>25 DEF Override
<1>26. ASSUME NEW i \in Intents, Pay(i) PROVE IntentInv' /\ SessionInv'
  BY <1>26 DEF Pay
<1>27. ASSUME MoveHold PROVE IntentInv' /\ SessionInv'
  BY <1>27 DEF MoveHold
<1>28. ASSUME NEW m \in marker, ExpireMarker(m) PROVE IntentInv' /\ SessionInv'
  BY <1>28 DEF ExpireMarker
<1>29. ASSUME NEW k \in Keys, ExpireAnswer(k) PROVE IntentInv' /\ SessionInv'
  BY <1>29 DEF ExpireAnswer
<1>30. CASE UNCHANGED vars
  BY <1>30 DEF vars
<1> QED
  BY <1>1, <1>2, <1>3, <1>4, <1>5, <1>6, <1>7, <1>8, <1>9, <1>10, <1>11, <1>12, <1>13,
     <1>14, <1>15, <1>16, <1>17, <1>18, <1>19, <1>20, <1>21, <1>22, <1>23, <1>24, <1>25,
     <1>26, <1>27, <1>28, <1>29, <1>30, <1>31
  DEF Next, Request, Progress, JobStep, Environment

\* Every step records money only where the gateway has it.
LEMMA MoneyStep ==
  ASSUME TypeOK, OpInv, MoneyInv, Stable, [Next]_vars PROVE MoneyInv'
<1> USE PaymentsAssumption DEF Processes, TypeOK, OpInv, MoneyInv, rows, env, slot
<1>0. /\ Paid \subseteq Paid' /\ (SomePaid => SomePaid')
  BY PaidIsStable
<1>1. ASSUME NEW p \in Processes, AdvanceRead(p) PROVE MoneyInv'
  BY <1>1, <1>0 DEF AdvanceRead, Await, Slot, Finish
<1>2. ASSUME NEW p \in Processes, AdvanceSave(p) PROVE MoneyInv'
  BY <1>2, <1>0 DEF AdvanceSave, Await, Slot, Finish, Goto, AdvanceTo
<1>3. ASSUME NEW p \in Processes, NEW i \in Intents, InitiateInsert(p, i) PROVE MoneyInv'
  BY <1>3, <1>0 DEF InitiateInsert, SetIntent, Await, Slot
<1>4. ASSUME NEW p \in Processes, InitiateSession(p) PROVE MoneyInv'
  BY <1>4, <1>0 DEF InitiateSession, Goto, Await, Slot
<1>5. ASSUME NEW p \in Processes, InitiateStore(p) PROVE MoneyInv'
  BY <1>5, <1>0 DEF InitiateStore, SetIntent, Goto, Await, Slot
<1>6. ASSUME NEW p \in Processes, InitiateReread(p) PROVE MoneyInv'
  BY <1>6, <1>0 DEF InitiateReread, AdvanceTo, Await, Slot
<1>7. ASSUME NEW p \in Processes, InitiateAnswer(p) PROVE MoneyInv'
  BY <1>7, <1>0 DEF InitiateAnswer, Finish, Await, Slot
<1>8. ASSUME NEW p \in Processes, FindSslcommerz(p) PROVE MoneyInv'
  <2>1. ASSUME NEW v \in ByIpn \cup Others, NEW i \in ByIpn, gateway[v] = "paid" PROVE i \in Paid
    BY <2>1 DEF Paid, PaidFor, ByIpn
  <2>2. ASSUME NEW v \in ByIpn \cup Others, NEW i \in ByIpn, NEW verdict \in {"succeed", "fail"},
               gateway[v] = "paid",
               Slot(p, verdict, "webhook", i, NoKey, NONE, i \notin payUrl)
        PROVE  MoneyInv'
    BY <1>8, <1>0, <2>1, <2>2 DEF FindSslcommerz, Slot, ByIpn
  <2>3. CASE Finish(p)
    BY <1>8, <1>0, <2>3 DEF FindSslcommerz, Finish, Await, Slot
  <2> QED
    BY <1>8, <2>2, <2>3 DEF FindSslcommerz
<1>31. ASSUME NEW p \in Processes, FindBkash(p) PROVE MoneyInv'
  <2>1. int[p] \in Intents /\ int[p] \notin ByIpn
    BY <1>31, <1>0 DEF FindBkash
  <2>2. gateway[int[p]] = "paid" => int[p] \in Paid
    BY <2>1 DEF Paid, PaidFor
  <2> QED
    BY <1>31, <1>0, <2>1, <2>2 DEF FindBkash, Goto, Finish, Await, Slot
<1>9. ASSUME NEW p \in Processes, WebhookSucceed(p) PROVE MoneyInv'
  BY <1>9, <1>0 DEF WebhookSucceed, SaveCopy, SetIntent, Goto, Await, Slot
<1>10. ASSUME NEW p \in Processes, Credit(p) PROVE MoneyInv'
  BY <1>10, <1>0 DEF Credit, UpTo, AdvanceTo, Goto, Await, Slot
<1>11. ASSUME NEW p \in Processes, CreateHold(p) PROVE MoneyInv'
  BY <1>11, <1>0 DEF CreateHold, Goto, Finish, Await, Slot
<1>12. ASSUME NEW p \in Processes, WebhookFail(p) PROVE MoneyInv'
  BY <1>12, <1>0 DEF WebhookFail, SaveCopy, SetIntent, Goto, Await, Slot
<1>13. ASSUME NEW p \in Processes, WebhookMark(p) PROVE MoneyInv'
  BY <1>13, <1>0 DEF WebhookMark, webhookKey, Finish, Await, Slot
<1>14. ASSUME NEW p \in Processes, RefundInsert(p) PROVE MoneyInv'
  BY <1>14, <1>0 DEF RefundInsert, UpTo, Goto, Await, Slot
<1>15. ASSUME NEW p \in Processes, RefundHold(p) PROVE MoneyInv'
  BY <1>15, <1>0 DEF RefundHold, Finish, Await, Slot
<1>16. ASSUME NEW p \in Processes, Abort(p) PROVE MoneyInv'
  BY <1>16, <1>0 DEF Abort, Finish, Await, Slot
<1>17. ASSUME NEW w \in Workers, NEW s \in Patches, Patch(w, s) PROVE MoneyInv'
  BY <1>17, <1>0 DEF Patch, Await, Slot
<1>18. ASSUME NEW w \in Workers, NEW k \in Keys \cup {NoKey}, InitiateCheck(w, k) PROVE MoneyInv'
  BY <1>18, <1>0 DEF InitiateCheck, Await, Slot
<1>19. ASSUME NEW w \in Workers, NEW i \in Intents, WebhookCheck(w, webhookKey(i)) PROVE MoneyInv'
  BY <1>19, <1>0 DEF WebhookCheck, webhookKey, Await, Slot
<1>20. ASSUME NEW w \in Workers, NEW i \in Intents, RefundFind(w, i) PROVE MoneyInv'
  <2>1. SomePaid
    BY <1>20 DEF RefundFind, Paid, PaidFor, SomePaid, Sessions, ByIpn
  <2> QED
    BY <1>20, <1>0, <2>1 DEF RefundFind, Await, Slot
<1>21. ASSUME Scan PROVE MoneyInv'
  BY <1>21, <1>0 DEF Scan
<1>22. ASSUME NEW i \in Intents, Reconcile(i) PROVE MoneyInv'
  BY <1>22, <1>0 DEF Reconcile, SaveCopy, SetIntent, Await, Slot
<1>23. ASSUME NEW i \in Intents, Skip(i) PROVE MoneyInv'
  BY <1>23, <1>0 DEF Skip
<1>24. ASSUME Recheck PROVE MoneyInv'
  BY <1>24, <1>0 DEF Recheck, AdvanceTo, Finish, Await, Slot
<1>25. ASSUME NEW s \in Overrides, Override(s) PROVE MoneyInv'
  BY <1>25, <1>0 DEF Override
<1>26. ASSUME NEW i \in Intents, Pay(i) PROVE MoneyInv'
  BY <1>26, <1>0 DEF Pay
<1>27. ASSUME MoveHold PROVE MoneyInv'
  BY <1>27, <1>0 DEF MoveHold
<1>28. ASSUME NEW m \in marker, ExpireMarker(m) PROVE MoneyInv'
  BY <1>28, <1>0 DEF ExpireMarker
<1>29. ASSUME NEW k \in Keys, ExpireAnswer(k) PROVE MoneyInv'
  BY <1>29, <1>0 DEF ExpireAnswer
<1>30. CASE UNCHANGED vars
  BY <1>30, <1>0 DEF vars
<1> QED
  BY <1>1, <1>2, <1>3, <1>4, <1>5, <1>6, <1>7, <1>8, <1>9, <1>10, <1>11, <1>12, <1>13,
     <1>14, <1>15, <1>16, <1>17, <1>18, <1>19, <1>20, <1>21, <1>22, <1>23, <1>24, <1>25,
     <1>26, <1>27, <1>28, <1>29, <1>30, <1>31
  DEF Next, Request, Progress, JobStep, Environment

\* Every step settles the order, the hold and the marker after the transaction.
LEMMA OrderStep ==
  ASSUME TypeOK, OpInv, MoneyInv, OrderInv, Stable, [Next]_vars PROVE OrderInv'
<1> USE PaymentsAssumption
    DEF Processes, TypeOK, OpInv, OrderInv, MarkerMeansSettled, rows, env, slot
<1>0. /\ Credited => Credited'
      /\ hold # "none" => hold' # "none"
      /\ failed \subseteq failed'
  BY PaidIsStable DEF Stable
<1>1. ASSUME NEW p \in Processes, AdvanceRead(p) PROVE OrderInv'
  BY <1>1, <1>0 DEF AdvanceRead, Await, Slot, Finish
<1>2. ASSUME NEW p \in Processes, AdvanceSave(p) PROVE OrderInv'
  <2>1. op[p] \in {"webhook", "job"} => Credited
    BY <1>2 DEF AdvanceSave
  <2>2. order' = "PAID" /\ ~manual' => Credited
    BY <1>2, <2>1 DEF AdvanceSave
  <2> QED
    BY <1>2, <1>0, <2>1, <2>2 DEF AdvanceSave, Await, Slot, Finish, Goto, AdvanceTo
<1>3. ASSUME NEW p \in Processes, NEW i \in Intents, InitiateInsert(p, i) PROVE OrderInv'
  BY <1>3, <1>0 DEF InitiateInsert, SetIntent, Await, Slot
<1>4. ASSUME NEW p \in Processes, InitiateSession(p) PROVE OrderInv'
  BY <1>4, <1>0 DEF InitiateSession, Goto, Await, Slot
<1>5. ASSUME NEW p \in Processes, InitiateStore(p) PROVE OrderInv'
  BY <1>5, <1>0 DEF InitiateStore, SetIntent, Goto, Await, Slot
<1>6. ASSUME NEW p \in Processes, InitiateReread(p) PROVE OrderInv'
  BY <1>6, <1>0 DEF InitiateReread, AdvanceTo, Await, Slot
<1>7. ASSUME NEW p \in Processes, InitiateAnswer(p) PROVE OrderInv'
  BY <1>7, <1>0 DEF InitiateAnswer, Finish, Await, Slot
<1>8. ASSUME NEW p \in Processes, FindSslcommerz(p) PROVE OrderInv'
  BY <1>8, <1>0 DEF FindSslcommerz, Finish, Await, Slot
<1>31. ASSUME NEW p \in Processes, FindBkash(p) PROVE OrderInv'
  BY <1>31, <1>0 DEF FindBkash, Goto, Finish, Await, Slot
<1>9. ASSUME NEW p \in Processes, WebhookSucceed(p) PROVE OrderInv'
  BY <1>9, <1>0 DEF WebhookSucceed, SaveCopy, SetIntent, Goto, Await, Slot
<1>10. ASSUME NEW p \in Processes, Credit(p) PROVE OrderInv'
  <2>1. Credited'
    BY <1>10 DEF Credit, UpTo, Credited
  <2> QED
    BY <1>10, <1>0, <2>1 DEF Credit, AdvanceTo, Goto, Await, Slot
<1>11. ASSUME NEW p \in Processes, CreateHold(p) PROVE OrderInv'
  BY <1>11, <1>0 DEF CreateHold, Goto, Finish, Await, Slot
<1>12. ASSUME NEW p \in Processes, WebhookFail(p) PROVE OrderInv'
  BY <1>12, <1>0 DEF WebhookFail, SaveCopy, webhookKey, Goto, Await, Slot
<1>13. ASSUME NEW p \in Processes, WebhookMark(p) PROVE OrderInv'
  BY <1>13, <1>0 DEF WebhookMark, webhookKey, Finish, Await, Slot
<1>14. ASSUME NEW p \in Processes, RefundInsert(p) PROVE OrderInv'
  BY <1>14, <1>0 DEF RefundInsert, UpTo, Goto, Await, Slot
<1>15. ASSUME NEW p \in Processes, RefundHold(p) PROVE OrderInv'
  BY <1>15, <1>0 DEF RefundHold, Finish, Await, Slot
<1>16. ASSUME NEW p \in Processes, Abort(p) PROVE OrderInv'
  BY <1>16, <1>0 DEF Abort, Finish, Await, Slot
<1>17. ASSUME NEW w \in Workers, NEW s \in Patches, Patch(w, s) PROVE OrderInv'
  BY <1>17, <1>0 DEF Patch, Await, Slot
<1>18. ASSUME NEW w \in Workers, NEW k \in Keys \cup {NoKey}, InitiateCheck(w, k) PROVE OrderInv'
  BY <1>18, <1>0 DEF InitiateCheck, Await, Slot
<1>19. ASSUME NEW w \in Workers, NEW i \in Intents, WebhookCheck(w, webhookKey(i)) PROVE OrderInv'
  BY <1>19, <1>0 DEF WebhookCheck, webhookKey, Await, Slot
<1>20. ASSUME NEW w \in Workers, NEW i \in Intents, RefundFind(w, i) PROVE OrderInv'
  BY <1>20, <1>0 DEF RefundFind, Await, Slot
<1>21. ASSUME Scan PROVE OrderInv'
  BY <1>21, <1>0 DEF Scan
<1>22. ASSUME NEW i \in Intents, Reconcile(i) PROVE OrderInv'
  BY <1>22, <1>0 DEF Reconcile, SaveCopy, SetIntent, Await, Slot
<1>23. ASSUME NEW i \in Intents, Skip(i) PROVE OrderInv'
  BY <1>23, <1>0 DEF Skip
<1>24. ASSUME Recheck PROVE OrderInv'
  BY <1>24, <1>0 DEF Recheck, AdvanceTo, Finish, Await, Slot
<1>25. ASSUME NEW s \in Overrides, Override(s) PROVE OrderInv'
  BY <1>25, <1>0 DEF Override
<1>26. ASSUME NEW i \in Intents, Pay(i) PROVE OrderInv'
  BY <1>26, <1>0 DEF Pay
<1>27. ASSUME MoveHold PROVE OrderInv'
  BY <1>27, <1>0 DEF MoveHold
<1>28. ASSUME NEW m \in marker, ExpireMarker(m) PROVE OrderInv'
  BY <1>28, <1>0 DEF ExpireMarker
<1>29. ASSUME NEW k \in Keys, ExpireAnswer(k) PROVE OrderInv'
  BY <1>29, <1>0 DEF ExpireAnswer
<1>30. CASE UNCHANGED vars
  BY <1>30, <1>0 DEF vars
<1> QED
  BY <1>1, <1>2, <1>3, <1>4, <1>5, <1>6, <1>7, <1>8, <1>9, <1>10, <1>11, <1>12, <1>13,
     <1>14, <1>15, <1>16, <1>17, <1>18, <1>19, <1>20, <1>21, <1>22, <1>23, <1>24, <1>25,
     <1>26, <1>27, <1>28, <1>29, <1>30, <1>31
  DEF Next, Request, Progress, JobStep, Environment

\* Every step keeps the cached answers payable.
LEMMA AnswerStep ==
  ASSUME TypeOK, OpInv, IntentInv, AnswerIsPayable, Stable, [Next]_vars PROVE AnswerIsPayable'
<1> USE DEF TypeOK, AnswerIsPayable, Stable, IntentInv, Processes, rows, env, slot
<1>1. ASSUME NEW p \in Processes, InitiateAnswer(p) PROVE AnswerIsPayable'
  BY <1>1, PaymentsAssumption DEF InitiateAnswer, OpInv
<1>2. ASSUME NEW k \in Keys, ExpireAnswer(k) PROVE AnswerIsPayable'
  BY <1>2 DEF ExpireAnswer
<1>3. CASE UNCHANGED cache
  BY <1>3
<1> HIDE DEF TypeOK, AnswerIsPayable, Stable, IntentInv, Processes
<1> QED
  BY <1>1, <1>2, <1>3
  DEF Next, Request, Progress, JobStep, Environment, AdvanceRead, AdvanceSave,
      InitiateInsert, InitiateSession, InitiateStore, InitiateReread, FindSslcommerz, FindBkash,
      WebhookSucceed, Credit, CreateHold, WebhookFail, WebhookMark, RefundInsert, RefundHold,
      Abort, Patch, InitiateCheck, WebhookCheck, RefundFind, Scan, Reconcile, Skip, Recheck,
      Override, Pay, MoveHold, ExpireMarker, vars

\* Every step keeps the pay URLs of the intents that wait.
LEMMA UrlStep ==
  ASSUME TypeOK, OpInv, WaitingHasUrl, [Next]_vars PROVE WaitingHasUrl'
<1> USE DEF TypeOK, WaitingHasUrl, Processes, rows, env, slot
<1>1. ASSUME NEW p \in Processes, NEW i \in Intents, InitiateInsert(p, i) PROVE WaitingHasUrl'
  BY <1>1 DEF InitiateInsert, SetIntent
<1>2. ASSUME NEW p \in Processes, InitiateStore(p) PROVE WaitingHasUrl'
  BY <1>2 DEF InitiateStore, SetIntent
<1>3. ASSUME NEW p \in Processes, NEW i \in Intents, NEW s \in {"succeeded", "failed"},
             SaveCopy(p, i, s)
      PROVE  WaitingHasUrl'
  BY <1>3 DEF SaveCopy, SetIntent
<1>4. ASSUME NEW p \in Processes, WebhookSucceed(p) PROVE WaitingHasUrl'
  BY <1>3, <1>4 DEF WebhookSucceed, OpInv
<1>5. ASSUME NEW p \in Processes, WebhookFail(p) PROVE WaitingHasUrl'
  BY <1>3, <1>5 DEF WebhookFail, OpInv
<1>6. ASSUME NEW i \in Intents, Reconcile(i) PROVE WaitingHasUrl'
  BY <1>3, <1>6 DEF Reconcile
<1>7. CASE UNCHANGED <<intent, payUrl>>
  BY <1>7
<1> HIDE DEF TypeOK, WaitingHasUrl, Processes
<1> QED
  BY <1>1, <1>2, <1>4, <1>5, <1>6, <1>7
  DEF Next, Request, Progress, JobStep, Environment, AdvanceRead, AdvanceSave,
      InitiateSession, InitiateReread, InitiateAnswer, FindSslcommerz, FindBkash, Credit,
      CreateHold, WebhookMark, RefundInsert, RefundHold, Abort, Patch, InitiateCheck,
      WebhookCheck, RefundFind, Scan, Skip, Recheck, Override, Pay, MoveHold, ExpireMarker,
      ExpireAnswer, vars

\* The inductive invariant: every reachable state satisfies it.
THEOREM Invariance == Spec => []IInv
<1>1. Init => IInv
  BY InitIInv
<1>2. IInv /\ [Next]_vars => IInv'
  <2> SUFFICES ASSUME IInv, [Next]_vars PROVE IInv'
    OBVIOUS
  <2>1. TypeOK /\ OpInv /\ IntentInv /\ SessionInv /\ MoneyInv /\ OrderInv /\ AnswerIsPayable
        /\ WaitingHasUrl
    BY DEF IInv
  <2>2. Stable
    BY <2>1, StepIsStable
  <2> QED
    BY <2>1, <2>2, TypeOpStep, IntentStep, MoneyStep, OrderStep, AnswerStep, UrlStep DEF IInv
<1> QED
  BY <1>1, <1>2, PTL DEF Spec

\* Every variable keeps its type.
THEOREM TypeCorrect == Spec => []TypeOK
<1>1. IInv => TypeOK
  BY DEF IInv
<1> QED
  BY <1>1, Invariance, PTL

\* A notification that handleSslcommerzIPN or handleBkashWebhook drops because of its
\* marker comes after one that was worked through to the hold, or after one whose
\* intent was saved as failed.
THEOREM MarkersAreSettled == Spec => []MarkerMeansSettled
<1>1. IInv => MarkerMeansSettled
  BY DEF IInv, OrderInv
<1> QED
  BY <1>1, Invariance, PTL

\* An order that no PATCH and no administrator moved is PAID only with a recorded
\* transaction.
THEOREM PaidIsBacked == Spec => []PaidIsCredited
<1>1. IInv => PaidIsCredited
  BY DEF IInv, OrderInv, PaidIsCredited
<1> QED
  BY <1>1, Invariance, PTL

\* However many requests overlap, an answer initiatePayment takes from its cache names
\* an intent made for the same Idempotency-Key, whose session was saved before.
THEOREM AnswersArePayable == Spec => []AnswerIsPayable
<1>1. IInv => AnswerIsPayable
  BY DEF IInv
<1> QED
  BY <1>1, Invariance, PTL

\* An intent whose status says that the buyer is paying has its pay URL in the row,
\* whatever copies of it webhooks and the job save.
THEOREM WaitingHavePayUrl == Spec => []WaitingHasUrl
<1>1. IInv => WaitingHasUrl
  BY DEF IInv
<1> QED
  BY <1>1, Invariance, PTL

\* The payments service, with its requests and its job running and failing at any
\* await, implements the ledger of its order.
THEOREM Refinement == Spec => ImplementsLedger
<1> DEFINE rec == {i \in Intents : credits[i] > 0}
           cov == {<<i, i>> : i \in Intents} \cup ((ByIpn \cup Others) \X ByIpn)
<1>1. Init => Money!Init
  BY DEF Init, Money!Init, Sessions, Money!Sessions
<1>2. IInv /\ [Next]_vars => [Money!Next]_(Money!vars)
  <2> SUFFICES ASSUME IInv, [Next]_vars PROVE [Money!Next]_(Money!vars)
    OBVIOUS
  <2>0. TypeOK /\ OpInv /\ SessionInv /\ MoneyInv /\ OrderInv
    BY DEF IInv
  <2>1. Credited => rec # {}
    BY DEF Credited
  <2>2. ASSUME NEW p \in Processes, AdvanceSave(p) PROVE Money!Next
    <3>1. /\ order' = tgt[p] /\ manual' = (manual \/ op[p] = "patch") /\ tgt[p] \in OrderStatus
          /\ gateway' = gateway /\ credits' = credits /\ hold' = hold /\ refunds' = refunds
      BY <2>0, <2>2 DEF AdvanceSave, OpInv, rows
    <3>2. CASE op[p] = "patch"
      <4>1. manual' = TRUE
        BY <3>1, <3>2
      <4> QED
        BY <3>1, <4>1 DEF Money!Next, Money!ByHand, OrderStatus, Money!OrderStatus
    <3>3. CASE op[p] = "initiate"
      <4>1. tgt[p] \in {"CHECKOUT_STARTED", "PAYMENT_PENDING"}
        BY <2>0, <2>2, <3>3 DEF AdvanceSave, OpInv
      <4>2. manual' = manual
        BY <2>0, <3>1, <3>3 DEF TypeOK
      <4> QED
        BY <3>1, <4>1, <4>2 DEF Money!Next, Money!Start
    <3>4. CASE op[p] \in {"webhook", "job"}
      <4>1. tgt[p] = "PAID" /\ Credited
        BY <2>0, <2>2, <3>4 DEF AdvanceSave, OpInv, OrderInv
      <4>2. manual' = manual
        BY <2>0, <3>1, <3>4 DEF TypeOK
      <4> QED
        BY <2>1, <3>1, <4>1, <4>2 DEF Money!Next, Money!MarkPaid
    <3> QED
      BY <2>0, <2>2, <3>2, <3>3, <3>4 DEF AdvanceSave, OpInv
  <2>3. ASSUME NEW p \in Processes, InitiateSession(p) PROVE Money!Next
    BY <2>0, <2>3 DEF InitiateSession, OpInv, SessionInv, rows, Money!Next, Money!Offer
  <2>4. ASSUME NEW p \in Processes, Credit(p) PROVE Money!Next
    <3>1. /\ int[p] \in Intents /\ int[p] \in Paid
          /\ order' = order /\ manual' = manual /\ gateway' = gateway
          /\ hold' = hold /\ refunds' = refunds
      BY <2>0, <2>4 DEF Credit, OpInv, MoneyInv, env
    <3>2. rec' = rec \cup {int[p]}
      BY <2>0, <2>4, <3>1, PaymentsAssumption DEF Credit, TypeOK, UpTo
    <3>3. \E j \in Money!Sessions : gateway[j] = "paid" /\ <<j, int[p]>> \in cov
      BY <3>1 DEF Paid, PaidFor, ByIpn, Money!Sessions
    <3> QED
      BY <3>1, <3>2, <3>3 DEF Money!Next, Money!Record
  <2>5. ASSUME NEW p \in Processes, CreateHold(p) PROVE [Money!Next]_(Money!vars)
    BY <2>0, <2>1, <2>5 DEF CreateHold, OrderInv, env, Money!Next, Money!Hold, Money!vars
  <2>6. ASSUME NEW p \in Processes, RefundInsert(p) PROVE [Money!Next]_(Money!vars)
    <3>1. \E j \in Money!Sessions : gateway[j] = "paid"
      BY <2>0, <2>6 DEF RefundInsert, MoneyInv, SomePaid, Sessions, Money!Sessions
    <3> QED
      BY <2>0, <2>6, <3>1, PaymentsAssumption
      DEF RefundInsert, UpTo, TypeOK, env, Money!Next, Money!Refund, Money!vars
  <2>7. ASSUME NEW p \in Processes, RefundHold(p) PROVE [Money!Next]_(Money!vars)
    <3>1. refunds > 0
      BY <2>0, <2>7 DEF RefundHold, MoneyInv
    <3> QED
      BY <2>0, <2>7, <3>1 DEF RefundHold, TypeOK, env, Money!Next, Money!GiveBack, Money!vars
  <2>8. ASSUME NEW s \in Overrides, Override(s) PROVE Money!Next
    BY <2>8, PaymentsAssumption
    DEF Override, rows, Money!Next, Money!ByHand, OrderStatus, Money!OrderStatus
  <2>9. ASSUME NEW i \in Intents, Pay(i) PROVE Money!Next
    BY <2>9 DEF Pay, rows, Money!Next, Money!Decide
  <2>11. ASSUME MoveHold PROVE Money!Next
    BY <2>11 DEF MoveHold, env, Money!Next, Money!MoveHold
  <2>10. CASE UNCHANGED <<order, manual, gateway, credits, hold, refunds>>
    BY <2>10 DEF Money!vars
  <2> QED
    BY <2>2, <2>3, <2>4, <2>5, <2>6, <2>7, <2>8, <2>9, <2>10, <2>11
    DEF Next, Request, Progress, JobStep, Environment, AdvanceRead, InitiateInsert,
        InitiateStore, InitiateReread, InitiateAnswer, FindSslcommerz, FindBkash, WebhookSucceed, WebhookFail,
        WebhookMark, Abort, Patch, InitiateCheck, WebhookCheck, RefundFind, Scan, Reconcile,
        Skip, Recheck, ExpireMarker, ExpireAnswer, rows, env, vars
<1> QED
  BY <1>1, <1>2, Invariance, PTL DEF Spec, ImplementsLedger, Money!Spec
=============================================================================
