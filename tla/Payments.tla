------------------------------ MODULE Payments ------------------------------
(***************************************************************************)
(* The payments service of one order (payments/payments.service.ts), the   *)
(* escrow holds it creates and refunds, the reconciliation job, and the    *)
(* payment gateways as the adapters see them.  All rows and Redis keys are *)
(* those of one order, except the idempotency cache, whose keys the caller *)
(* chooses.  A worker is an HTTP request being handled; it runs alone from *)
(* one await to the next, and the workers interleave at the awaits.        *)
(* Notifications come at any time, about any payment, and need not match:  *)
(* nothing compares the order and the amount an SSLCommerz notification    *)
(* names with the payment it is validated by.                              *)
(***************************************************************************)
EXTENDS OrderStatus, FiniteSets

CONSTANTS
  Intents,      \* the rows the payment_intents table may hold
  Provider,     \* intent -> the provider its row names
  Others,       \* payments made at SSLCommerz for something else than this order
  Keys,         \* the Idempotency-Key headers clients send
  NoKey,        \* a request without that header
  NoIntent,     \* a request that handles no intent
  Workers,      \* the slots of concurrent requests
  Job,          \* the reconciliation job
  Patches,      \* bound: statuses asked for by PATCH orders/:id/status
  Overrides,    \* bound: statuses administrators force the order into
  MaxCredits,   \* bound: the transactions counted for one intent
  MaxRefunds    \* bound: the refund rows counted

ASSUME PaymentsAssumption ==
  /\ Provider \in [Intents -> {"sslcommerz", "bkash"}]
  /\ Others \cap Intents = {}
  /\ NoKey \notin Keys /\ NoIntent \notin Intents \cup Others /\ Job \notin Workers
  /\ Patches \cup Overrides \subseteq OrderStatus
  /\ MaxCredits \in Nat \ {0} /\ MaxRefunds \in Nat \ {0}

VARIABLES
  order,    \* the order's status
  intent,   \* intent -> its status, "none" while there is no row
  key,      \* intent -> its idempotencyKey
  linked,   \* the intents whose session was saved: the buyer may have its pay
            \* URL, and bKash's providerRef is in the row to stay
  payUrl,   \* the intents whose row has its pay URL now
  ipn,      \* the intents whose rawIpn is saved
  credits,  \* intent -> its successful payment_txns rows
  hold,     \* the order's escrow hold: "none", "held" as the payment made it,
            \* "refunded", or "moved" by the escrow or an administrator
  refunds,  \* the number of refund rows
  marker,   \* the webhook:* keys in Redis
  cache,    \* payment_idempotency:* in Redis: key -> the intent answered
  gateway,  \* payment -> its session at the gateway
  pc, op,   \* process -> the next await to return, the operation it runs
  int,      \* process -> the intent it has loaded
  kreq,     \* worker -> the idempotency key it was sent
  tgt,      \* process -> the status it advances the order to
  bare,     \* the processes whose copy of the intent has no pay URL
  todo,     \* the stale intents the job has still to reconcile
  manual,   \* history: a PATCH or an administrator has set the status
  failed,   \* history: the webhook keys of the notifications taken for failures
  quiet     \* no call fails any more and the server does not restart

vars == <<order, intent, key, linked, payUrl, ipn, credits, hold, refunds, marker, cache,
          gateway, pc, op, int, kreq, tgt, bare, todo, manual, failed, quiet>>
slot == <<pc, op, int, kreq, tgt, bare>>
rows == <<intent, key, linked, payUrl, ipn, credits, hold, refunds>>
env  == <<marker, cache, gateway, todo, manual, failed, quiet>>

Processes == Workers \cup {Job}
Sessions  == Intents \cup Others

\* webhook:sslcommerz:<tran_id> is one key for the order, webhook:bkash:<paymentID>
\* is one key for each intent.
webhookKey(i) == IF Provider[i] = "sslcommerz" THEN NoIntent ELSE i

\* The intents whose payments SSLCommerz reports.
ByIpn == {i \in Intents : Provider[i] = "sslcommerz"}

TypeOK ==
  /\ order \in OrderStatus
  /\ intent \in [Intents -> {"none", "pending", "processing", "succeeded", "failed"}]
  /\ key \in [Intents -> Keys \cup {NoKey}]
  /\ linked \subseteq Intents /\ payUrl \subseteq Intents
  /\ ipn \subseteq Intents
  /\ credits \in [Intents -> 0 .. MaxCredits]
  /\ hold \in {"none", "held", "moved", "refunded"}
  /\ refunds \in 0 .. MaxRefunds
  /\ marker \subseteq Intents \cup {NoIntent}
  /\ cache \in [Keys -> Intents \cup {NoIntent}]
  /\ gateway \in [Sessions -> {"none", "open", "paid", "declined"}]
  /\ pc \in [Processes ->
       {"idle", "insert", "session", "store", "reread", "advance", "save", "answer",
        "find", "succeed", "fail", "credit", "hold", "mark", "recheck",
        "refund", "unhold"}]
  /\ op \in [Processes -> {"none", "initiate", "webhook", "patch", "refund", "job"}]
  /\ int \in [Processes -> Intents \cup {NoIntent}]
  /\ kreq \in [Processes -> Keys \cup {NoKey}]
  /\ tgt \in [Processes -> OrderStatus \cup {NONE}]
  /\ bare \subseteq Processes
  /\ todo \subseteq Intents
  /\ failed \subseteq Intents \cup {NoIntent}
  /\ manual \in BOOLEAN /\ quiet \in BOOLEAN

Init ==
  /\ order = "CHECKOUT_STARTED"
  /\ intent = [i \in Intents |-> "none"]
  /\ key = [i \in Intents |-> NoKey]
  /\ linked = {} /\ payUrl = {} /\ ipn = {}
  /\ credits = [i \in Intents |-> 0]
  /\ hold = "none"
  /\ refunds = 0
  /\ marker = {}
  /\ cache = [k \in Keys |-> NoIntent]
  /\ gateway = [j \in Sessions |-> IF j \in Intents THEN "none" ELSE "paid"]
  /\ pc = [p \in Processes |-> "idle"]
  /\ op = [p \in Processes |-> "none"]
  /\ int = [p \in Processes |-> NoIntent]
  /\ kreq = [p \in Processes |-> NoKey]
  /\ tgt = [p \in Processes |-> NONE]
  /\ bare = {} /\ todo = {}
  /\ failed = {}
  /\ manual = FALSE /\ quiet = FALSE

\* Process p, running operation o on intent i, awaits at; k is the key it was
\* sent, s the status it advances the order to, and c says that its copy of the
\* intent lacks the pay URL.
Slot(p, at, o, i, k, s, c) ==
  /\ pc' = [pc EXCEPT ![p] = at]
  /\ op' = [op EXCEPT ![p] = o]
  /\ int' = [int EXCEPT ![p] = i]
  /\ kreq' = [kreq EXCEPT ![p] = k]
  /\ tgt' = [tgt EXCEPT ![p] = s]
  /\ bare' = IF c THEN bare \cup {p} ELSE bare \ {p}

Await(p, at, o, i, k, s) == Slot(p, at, o, i, k, s, FALSE)

Goto(p, at)       == Await(p, at, op[p], int[p], kreq[p], NONE)
AdvanceTo(p, s)   == Await(p, "advance", op[p], int[p], kreq[p], s)
Finish(p)         == Await(p, "idle", "none", NoIntent, NoKey, NONE)
SetIntent(i, s)   == intent' = [intent EXCEPT ![i] = s]

\* save(intent) compares p's copy with the row and writes what differs, the pay
\* URL included: one stored or wiped meanwhile may go back to what p has read.
SaveCopy(p, i, s) ==
  /\ SetIntent(i, s)
  /\ payUrl' \in {payUrl, IF p \in bare THEN payUrl \ {i} ELSE payUrl \cup {i}}

\* The row counters stop at their bound.
UpTo(max, n) == IF n <= max THEN n ELSE max

-----------------------------------------------------------------------------
\* OrdersService.advanceStatus, called by initiate, the webhooks, the job and
\* PATCH: read the order and check the transition (a refusal ends the caller) ...
AdvanceRead(p) ==
  /\ pc[p] = "advance"
  /\ IF tgt[p] \in ORDER_TRANSITIONS[order]
     THEN Await(p, "save", op[p], int[p], kreq[p], tgt[p])
     ELSE Finish(p)
  /\ UNCHANGED <<order, rows, env>>

\* ... then save it, and return to the caller; the job makes no hold.
AdvanceSave(p) ==
  /\ pc[p] = "save"
  /\ order' = tgt[p]
  /\ manual' = (manual \/ op[p] = "patch")
  /\ \/ op[p] = "initiate" /\ tgt[p] = "CHECKOUT_STARTED" /\ AdvanceTo(p, "PAYMENT_PENDING")
     \/ op[p] = "initiate" /\ tgt[p] # "CHECKOUT_STARTED" /\ Goto(p, "answer")
     \/ op[p] = "webhook" /\ Goto(p, "hold")
     \/ op[p] \in {"patch", "job"} /\ Finish(p)
  /\ UNCHANGED <<rows, marker, cache, gateway, todo, failed, quiet>>

\* PATCH orders/:id/status.
Patch(w, s) ==
  /\ pc[w] = "idle"
  /\ Await(w, "advance", "patch", NoIntent, NoKey, s)
  /\ UNCHANGED <<order, rows, env>>

\* The admin override of the status.
Override(s) ==
  /\ order' = s
  /\ manual' = TRUE
  /\ UNCHANGED <<rows, marker, cache, gateway, todo, slot, failed, quiet>>

-----------------------------------------------------------------------------
\* initiatePayment: answer from the cache, or else (while the model has a row left
\* for the request) ...
InitiateCheck(w, k) ==
  /\ pc[w] = "idle"
  /\ Cardinality({i \in Intents : intent[i] = "none"})
       > Cardinality({v \in Workers : pc[v] = "insert"})
  /\ k \in Keys => cache[k] = NoIntent
  /\ Await(w, "insert", "initiate", NoIntent, k, NONE)
  /\ UNCHANGED <<order, rows, env>>

\* ... insert a new intent ...
InitiateInsert(w, i) ==
  /\ pc[w] = "insert"
  /\ intent[i] = "none"
  /\ SetIntent(i, "pending")
  /\ key' = [key EXCEPT ![i] = kreq[w]]
  /\ Await(w, "session", op[w], i, kreq[w], NONE)
  /\ UNCHANGED <<order, linked, payUrl, ipn, credits, hold, refunds, env>>

\* Mutant: the answer is cached as soon as the gateway has given it.
SessionCachesAnswer(w) ==
  /\ pc[w] = "session"
  /\ gateway' = [gateway EXCEPT ![int[w]] = "open"]
  /\ cache' = IF kreq[w] \in Keys THEN [cache EXCEPT ![kreq[w]] = int[w]] ELSE cache
  /\ Goto(w, "store")
  /\ UNCHANGED <<order, rows, marker, todo, manual, failed, quiet>>

\* ... open a session at the gateway ...
InitiateSession(w) ==
  /\ pc[w] = "session"
  /\ gateway' = [gateway EXCEPT ![int[w]] = "open"]
  /\ Goto(w, "store")
  /\ UNCHANGED <<order, rows, marker, cache, todo, manual, failed, quiet>>

\* ... save the intent as it is in memory, without a rawIpn: the ORM compares it with
\* the row, writes what differs, and so keeps or wipes a payload stored meanwhile ...
InitiateStore(w) ==
  /\ pc[w] = "store"
  /\ SetIntent(int[w], "processing")
  /\ linked' = linked \cup {int[w]}
  /\ payUrl' = payUrl \cup {int[w]}
  /\ ipn' \in {ipn, ipn \ {int[w]}}
  /\ Goto(w, "reread")
  /\ UNCHANGED <<order, key, credits, hold, refunds, env>>

\* ... move the order to PAYMENT_PENDING, through CHECKOUT_STARTED if DRAFT ...
InitiateReread(w) ==
  /\ pc[w] = "reread"
  /\ AdvanceTo(w, IF order = "DRAFT" THEN "CHECKOUT_STARTED" ELSE "PAYMENT_PENDING")
  /\ UNCHANGED <<order, rows, env>>

\* ... and cache the answer.
InitiateAnswer(w) ==
  /\ pc[w] = "answer"
  /\ cache' = IF kreq[w] \in Keys THEN [cache EXCEPT ![kreq[w]] = int[w]] ELSE cache
  /\ Finish(w)
  /\ UNCHANGED <<order, rows, marker, gateway, todo, manual, failed, quiet>>

-----------------------------------------------------------------------------
\* Mutants: the marker is set before the work, the transaction is not recorded, a
\* declined intent gets a status of its own, a failed one is put back to wait.
CheckMarksFirst(w, m) ==
  /\ pc[w] = "idle"
  /\ m \notin marker
  /\ marker' = marker \cup {m}
  /\ Await(w, "find", "webhook", m, NoKey, NONE)
  /\ UNCHANGED <<order, rows, cache, gateway, todo, manual, failed, quiet>>

SucceedUnrecorded(w) ==
  /\ pc[w] = "succeed"
  /\ SaveCopy(w, int[w], "succeeded") /\ ipn' = ipn \cup {int[w]}
  /\ AdvanceTo(w, "PAID")
  /\ UNCHANGED <<order, key, linked, credits, hold, refunds, env>>

FailUnlisted(w) ==
  /\ pc[w] = "fail"
  /\ SaveCopy(w, int[w], "declined") /\ ipn' = ipn \cup {int[w]}
  /\ failed' = failed \cup {webhookKey(int[w])}
  /\ Goto(w, "mark")
  /\ UNCHANGED <<order, key, linked, credits, hold, refunds, marker, cache, gateway, todo,
                 manual, quiet>>

FailWaits(w) ==
  /\ pc[w] = "fail"
  /\ SaveCopy(w, int[w], "processing") /\ ipn' = ipn \cup {int[w]}
  /\ failed' = failed \cup {webhookKey(int[w])}
  /\ Goto(w, "mark")
  /\ UNCHANGED <<order, key, linked, credits, hold, refunds, marker, cache, gateway, todo,
                 manual, quiet>>

\* handleSslcommerzIPN, handleBkashWebhook: a notification comes, at any time and any
\* number of times or never, and its marker is not set ...
WebhookCheck(w, m) ==
  /\ pc[w] = "idle"
  /\ m \notin marker
  /\ Await(w, "find", "webhook", m, NoKey, NONE)
  /\ UNCHANGED <<order, rows, env>>

\* ... for SSLCommerz it validates if its val_id is that of a paid session, of whatever
\* order; then any SSLCommerz intent of the order it names is found, and the status
\* it claims decides ...
FindSslcommerz(w) ==
  /\ pc[w] = "find" /\ int[w] = NoIntent
  /\ \/ Finish(w)
     \/ \E v \in ByIpn \cup Others, i \in ByIpn, verdict \in {"succeed", "fail"} :
          /\ gateway[v] = "paid"
          /\ intent[i] # "none"
          /\ Slot(w, verdict, "webhook", i, NoKey, NONE, i \notin payUrl)
  /\ UNCHANGED <<order, rows, env>>

\* ... for bKash the intent is found by its paymentID, and bKash is asked: whatever is
\* not completed, an open payment too, has failed.
FindBkash(w) ==
  /\ pc[w] = "find" /\ int[w] # NoIntent
  /\ \/ int[w] \notin linked /\ Finish(w)
     \/ int[w] \in linked /\ gateway[int[w]] = "paid" /\ Goto(w, "succeed")
     \/ int[w] \in linked /\ gateway[int[w]] # "paid" /\ Goto(w, "fail")
  /\ UNCHANGED <<order, rows, env>>

WebhookSucceed(w) ==
  /\ pc[w] = "succeed"
  /\ SaveCopy(w, int[w], "succeeded")
  /\ ipn' = ipn \cup {int[w]}
  /\ Goto(w, "credit")
  /\ UNCHANGED <<order, key, linked, credits, hold, refunds, env>>

\* Record the payment_txns row; the job goes on to look at the order.
Credit(p) ==
  /\ pc[p] = "credit"
  /\ credits' = [credits EXCEPT ![int[p]] = UpTo(MaxCredits, @ + 1)]
  /\ IF op[p] = "job" THEN Goto(p, "recheck") ELSE AdvanceTo(p, "PAID")
  /\ UNCHANGED <<order, intent, key, linked, payUrl, ipn, hold, refunds, env>>

\* Mutant: the hold is saved over one there is.
HoldOver(w) ==
  /\ pc[w] = "hold"
  /\ hold' = "held" /\ Goto(w, "mark")
  /\ UNCHANGED <<order, intent, key, linked, payUrl, ipn, credits, refunds, env>>

\* EscrowService.createHold: order_id is unique, so a second insert is refused.
CreateHold(w) ==
  /\ pc[w] = "hold"
  /\ IF hold = "none" THEN hold' = "held" /\ Goto(w, "mark")
                      ELSE hold' = hold /\ Finish(w)
  /\ UNCHANGED <<order, intent, key, linked, payUrl, ipn, credits, refunds, env>>

WebhookFail(w) ==
  /\ pc[w] = "fail"
  /\ SaveCopy(w, int[w], "failed")
  /\ ipn' = ipn \cup {int[w]}
  /\ failed' = failed \cup {webhookKey(int[w])}
  /\ Goto(w, "mark")
  /\ UNCHANGED <<order, key, linked, credits, hold, refunds, marker, cache, gateway, todo,
                 manual, quiet>>

\* The marker is set last, for 24 hours.
WebhookMark(w) ==
  /\ pc[w] = "mark"
  /\ marker' = marker \cup {webhookKey(int[w])}
  /\ Finish(w)
  /\ UNCHANGED <<order, rows, cache, gateway, todo, manual, failed, quiet>>

-----------------------------------------------------------------------------
\* initiateRefund: find a paid intent, insert the refund, refund the hold.
RefundFind(w, i) ==
  /\ pc[w] = "idle"
  /\ intent[i] = "succeeded"
  /\ Await(w, "refund", "refund", i, NoKey, NONE)
  /\ UNCHANGED <<order, rows, env>>

RefundInsert(w) ==
  /\ pc[w] = "refund"
  /\ refunds' = UpTo(MaxRefunds, refunds + 1)
  /\ Goto(w, "unhold")
  /\ UNCHANGED <<order, intent, key, linked, payUrl, ipn, credits, hold, env>>

RefundHold(w) ==
  /\ pc[w] = "unhold"
  /\ hold' = IF hold = "none" THEN "none" ELSE "refunded"
  /\ Finish(w)
  /\ UNCHANGED <<order, intent, key, linked, payUrl, ipn, credits, refunds, env>>

-----------------------------------------------------------------------------
\* reconcilePendingPayments: list the intents that wait for more than an hour, of which
\* only SSLCommerz ones with a stored payload come to anything ...
Scan ==
  /\ pc[Job] = "idle" /\ todo = {}
  /\ todo' \in SUBSET {i \in ByIpn \cap ipn : intent[i] = "processing"}
  /\ UNCHANGED <<order, rows, marker, cache, gateway, slot, manual, failed, quiet>>

\* ... and settle them one by one, with the gateway's word for the stored payload
\* and the copies it listed, which had their pay URLs.
Reconcile(i) ==
  /\ pc[Job] = "idle"
  /\ i \in todo
  /\ todo' = todo \ {i}
  /\ SaveCopy(Job, i, "succeeded")
  /\ ipn' = ipn \cup {i}
  /\ Await(Job, "credit", "job", i, NoKey, NONE)
  /\ UNCHANGED <<order, key, linked, credits, hold, refunds, marker, cache,
                 gateway, manual, failed, quiet>>

\* ... or skip one: its validation fails, and the job's catch goes on with the next.
Skip(i) ==
  /\ pc[Job] = "idle" /\ ~quiet
  /\ i \in todo
  /\ todo' = todo \ {i}
  /\ UNCHANGED <<order, rows, marker, cache, gateway, manual, slot, failed, quiet>>

Recheck ==
  /\ pc[Job] = "recheck"
  /\ IF order = "PAYMENT_PENDING" THEN AdvanceTo(Job, "PAID") ELSE Finish(Job)
  /\ UNCHANGED <<order, rows, env>>

-----------------------------------------------------------------------------
\* A buyer opens the pay URL, and pays or does not.
Pay(i) ==
  /\ gateway[i] = "open" /\ i \in linked
  /\ \E outcome \in {"paid", "declined"} :
       gateway' = [gateway EXCEPT ![i] = outcome]
  /\ UNCHANGED <<order, rows, marker, cache, todo, manual, failed, quiet, slot>>

\* The rest of the escrow writes the hold, whatever its status: holdOrder creates or
\* freezes it, releaseHold releases it.
MoveHold ==
  /\ hold # "moved"
  /\ hold' = "moved"
  /\ UNCHANGED <<order, intent, key, linked, payUrl, ipn, credits, refunds, env, slot>>

\* A Redis key reaches its 24 hours.
ExpireMarker(m) ==
  /\ m \in marker
  /\ marker' = marker \ {m}
  /\ UNCHANGED <<order, rows, cache, gateway, todo, manual, failed, quiet, slot>>

ExpireAnswer(k) ==
  /\ cache[k] # NoIntent
  /\ cache' = [cache EXCEPT ![k] = NoIntent]
  /\ UNCHANGED <<order, rows, marker, gateway, todo, manual, failed, quiet, slot>>

\* The awaited call fails, or the process dies: the job's catch goes on with the
\* next intent, a restart drops the list.
Abort(p) ==
  /\ pc[p] # "idle" /\ ~quiet
  /\ Finish(p)
  /\ todo' \in IF p = Job THEN {todo, {}} ELSE {todo}
  /\ UNCHANGED <<order, rows, marker, cache, gateway, manual, failed, quiet>>

-----------------------------------------------------------------------------
\* What a process does next once its await has returned.
Progress(p) ==
  \/ AdvanceRead(p) \/ AdvanceSave(p)
  \/ \E i \in Intents : InitiateInsert(p, i)
  \/ InitiateSession(p) \/ InitiateStore(p) \/ InitiateReread(p) \/ InitiateAnswer(p)
  \/ FindSslcommerz(p) \/ FindBkash(p)
  \/ WebhookSucceed(p) \/ Credit(p) \/ CreateHold(p) \/ WebhookFail(p) \/ WebhookMark(p)
  \/ RefundInsert(p) \/ RefundHold(p)

JobStep == Scan \/ (\E i \in Intents : Reconcile(i) \/ Skip(i)) \/ Recheck

Request(w) ==
  \/ \E s \in Patches : Patch(w, s)
  \/ \E k \in Keys \cup {NoKey} : InitiateCheck(w, k)
  \/ \E i \in Intents : WebhookCheck(w, webhookKey(i)) \/ RefundFind(w, i)

Environment ==
  \/ \E s \in Overrides : Override(s)
  \/ \E i \in Intents : Pay(i)
  \/ MoveHold
  \/ \E m \in marker : ExpireMarker(m)
  \/ \E k \in Keys : ExpireAnswer(k)

Next ==
  \/ \E w \in Workers : Request(w)
  \/ \E p \in Processes : Progress(p) \/ Abort(p)
  \/ JobStep
  \/ Environment

Spec == Init /\ [][Next]_vars

\* For liveness: at some moment the failures end.
Settle ==
  /\ ~quiet
  /\ quiet' = TRUE
  /\ UNCHANGED <<order, rows, marker, cache, gateway, todo, manual, failed, slot>>

\* Node runs a callback whose await has returned, and cron starts the job again.
\* Nothing obliges a client, a buyer or a gateway to call.
Scheduling ==
  /\ \A p \in Processes : WF_vars(Progress(p))
  /\ WF_vars(JobStep) /\ WF_vars(Settle)

\* bKash repeats the notification of a payment that was paid until it is answered.
Redelivery == \A i \in Intents : Provider[i] = "bkash" =>
  SF_vars(gateway[i] = "paid" /\ \E w \in Workers : WebhookCheck(w, i))

JobSpec      == Init /\ [][Next \/ Settle]_vars /\ Scheduling
DeliverySpec == JobSpec /\ Redelivery

-----------------------------------------------------------------------------
Credited == \E i \in Intents : credits[i] > 0

\* A webhook marker is set only once the notification it stands for was worked
\* through: the money is recorded and held, or the intent was saved as failed.
MarkerMeansSettled == \A m \in marker :
  \/ hold # "none" /\ Credited
  \/ m \in failed

\* An order nobody moved by hand is PAID only when a transaction was recorded.
PaidIsCredited == order = "PAID" /\ ~manual => Credited

\* An intent that waits for its payment has its pay URL: a webhook's stale copy may
\* wipe it, but only together with the status.
WaitingHasUrl == \A i \in Intents : intent[i] = "processing" => i \in payUrl

\* An answer served from the idempotency cache names an intent made for that key,
\* whose session was saved before.
AnswerIsPayable == \A k \in Keys :
  cache[k] # NoIntent => cache[k] \in linked /\ key[cache[k]] = k

\* With redelivery, every bKash payment is credited in the end, whatever failed
\* before, unless a notification of it was taken for its failure.
PaymentIsCredited == \A i \in Intents :
  gateway[i] = "paid" /\ Provider[i] = "bkash" ~> credits[i] > 0 \/ i \in failed

\* README: a duplicate IPN does not credit twice.
NoDoubleCredit ==
  Cardinality({t \in Intents \X (1 .. MaxCredits) : t[2] <= credits[t[1]]})
    <= Cardinality({j \in Sessions : gateway[j] = "paid"})

\* What no repeated notification mends: the order became PAID and nobody is about to
\* make its hold, or it can be paid for and nobody is about to make it PAYMENT_PENDING.
Torn ==
  \/ order = "PAID" /\ hold = "none" /\ \A p \in Processes : pc[p] # "hold"
  \/ order = "CHECKOUT_STARTED" /\ linked # {} /\ \A p \in Processes : op[p] # "initiate"

\* With redelivery, every bKash payment ends up in the escrow, whatever failed before,
\* unless somebody moves the order by hand, a notification of the payment was taken for
\* its failure, or a failure tore the order's status from its money.
PaymentIsHeld == \A i \in Intents :
  gateway[i] = "paid" /\ Provider[i] = "bkash" ~>
    hold # "none" \/ manual \/ i \in failed \/ Torn

\* The service does for one order what the ledger promises.
Money == INSTANCE Ledger WITH
  recorded <- {i \in Intents : credits[i] > 0},
  Covers   <- {<<i, i>> : i \in Intents} \cup ((ByIpn \cup Others) \X ByIpn)

\* Requests that overlap, repeat or fail never take a gateway's verdict or a
\* transaction back, hold money before it is recorded, or again after it was given
\* back, give it back before the refund is on record, or make an order PAID for nothing.
ImplementsLedger == Money!Spec
=============================================================================
