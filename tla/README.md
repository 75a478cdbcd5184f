# SafeCart: models and proofs

TLA+ models of the SafeCart backend (`src/backend`) and its web applications
(`src/frontend/apps`), the TLC runs that check them and theorems about them that
TLAPS checks. SafeCart is a NestJS server over
PostgreSQL (TypeORM) and Redis, with two payment gateways, four couriers and three
web applications around it. A buyer pays an order through a gateway, the platform
keeps the money in an escrow hold, and the hold is released to the seller, or
refunded, or frozen.

## 1. The system

| Component | State | Operations | Correct when |
|---|---|---|---|
| Orders | `orders` rows, above all `status` | create from a checkout session, `advanceStatus` | the status follows `ORDER_TRANSITIONS`; nothing is shipped that was not paid |
| Payments | `payment_intents`, `payment_txns`, `refunds`; Redis markers and cached answers | initiate, SSLCommerz IPN, bKash webhook, refund | money is recorded when a gateway has it, only then, and once; paid money is held |
| Escrow | `escrow_holds` | create, release, freeze, refund a hold | money is paid out once, after delivery, and not while in dispute |
| Reconciliation job | a list of stale intents | every 30 minutes: settle them | a payment is found even if its notification is lost |
| Escrow release job | a list of due holds | every hour: release them | every due hold is dealt with |
| Administration | rows of the others | override a status, risk hold, release, refund rows, users, organisations | a risk hold leaves the money safe |
| Checkout | `checkout_sessions` | create with the price locked, look up | an order is made from a live session, at its price |
| Disputes | `disputes`, evidence | open, resolve, reopen | a dispute stops the payout |
| Logistics | `shipments`, events | book, courier webhook | one parcel per order; delivery reaches the order |
| Identity | `users`, `sessions`, OTP keys in Redis | send and verify an OTP, refresh, log out | a code or a refresh token works once |
| Verification | cases, documents | submit, add a document, approve, reject | one open case per organisation |
| Organisations, Catalog | `orgs`, members, compliance; products, variants | create, update, invite | an organisation has an owner; a price is the price shown |
| Notifications, Audit | append-only rows | send, log | nothing in the server calls or attaches them |
| Courier polling, SLA jobs | none | read and log | |
| HTTP layer | none (the idempotency interceptor is attached to no route) | guards, pipes, filters | |
| Web applications | the token and the organisation in the browser, what a page shows, its ticks and panels | sign in and out, load, change, bulk change, fill in a form | a user sees his own organisation, changes what he sees, and is never left with dead controls |

Everything interacts by method calls inside one Node process and through the
rows. Payments, disputes, logistics, escrow and administration all call
`OrdersService.advanceStatus`; the payment webhooks call
`EscrowService.createHold`; refunds call `refundHold`; the release job and the
administrators call `releaseHold`; `holdOrder` calls `createHold` and
`freezeHold`. The web applications call the REST API and nothing calls them. There is
no transaction and no lock anywhere.

What makes it hard:

- *Interleaving.* A handler runs alone between two `await`s and any other handler
  may run at an `await`. Rows are read, checked, and saved after an `await`.
- *Partial failure.* A handler makes up to six writes. Any of them may be the last
  one (an exception, a restart), and the caller may try again.
- *Delivery.* Gateways notify several times, late, concurrently, or never.
- *Overwriting.* A save writes the row the handler has in memory over what others
  stored meanwhile.
- *Late answers.* A page sends a request while another is under way, and the user goes on
  meanwhile: filters, ticks, leaves, signs out.

`PROJECT.json` lists the hazards, each at its line.

## 2. The modules

| Module | Models | State and actions |
|---|---|---|
| `OrderStatus` | `order.entity.ts` | the statuses and `ORDER_TRANSITIONS` |
| `Orders` | `orders.service.ts`, the override in `admin.service.ts` | many orders, many request slots; one action per step between two awaits |
| `OrderLifecycle` | what `Orders` promises, however requests overlap | abstract: create, advance along a transition from a status the order has had, override |
| `OrdersProofs` | theorems about `Orders` | |
| `Payments` | `payments.service.ts`, the reconciliation job, the gateways as the adapters see them | one order, several intents, several requests, the job |
| `Ledger` | what `Payments` promises | abstract: offer, decide, record, hold, refund, give back, mark PAID; others move the hold and the order |
| `PaymentsProofs` | theorems about `Payments` | |
| `Escrow` | `escrow.service.ts`, the release job, `holdOrder`, `releaseRiskHold`, `openDispute` | several orders and their holds, several requests, the job |
| `Settlement` | what `Escrow` promises | abstract: hold, settle a hold, move the order, move it by hand |
| `EscrowProofs` | theorems about `Escrow` | |
| `Identity` | `otp.service.ts`, `token.service.ts`, `identity.service.ts`, `updateUser` in `admin.service.ts` | one phone, its codes, its user, his sessions, several requests |
| `Account` | what `Identity` promises while requests do not overlap | abstract: send, register, open, exchange, log out, administer |
| `IdentityProofs` | theorems about `Identity` | |
| `Fulfilment` | `logistics.service.ts`, `disputes.service.ts`, `reopenDispute` in `admin.service.ts`, the couriers as the webhook sees them | orders, their shipments and disputes, several requests |
| `Consignment` | what `Fulfilment` promises of a shipment | abstract: consign to a parcel, arrive, report |
| `FulfilmentProofs` | theorems about `Fulfilment` | |
| `Sellers` | `orgs.service.ts`, `verification.service.ts`, `create` of `catalog.service.ts` and `checkout.service.ts`, the administrators' statuses of organisations | organisations, members, cases, links, several requests |
| `SellersProofs` | theorems about `Sellers` | |
| `Pages` | the pages of the three web applications over the API (`pages/*.tsx`, `checkout-web/app`) | a table of rows, ticks, a panel, the requests under way; one record for each page |
| `SignIn` | `AuthContext.tsx`, the login, onboarding and profile pages | the browser's storage, React's copies, the answers waited for |
| `Web` | `App.tsx` and `ProtectedRoute.tsx`: `SignIn` and `Pages` composed | who sees which page |
| `PagesProofs` | theorems about the pages, as `Web` composes them | |
| `WebProofs` | a theorem about the sessions of `Web` | |
| `MCOrders`, `MCPayments`, `MCEscrow`, `MCIdentity`, `MCFulfilment`, `MCSellers`, `MCWeb` | instances for TLC | symmetry sets, values of functions |

`Payments` keeps one order and follows each call a payment makes. `Escrow`
starts where `Payments` ends, with a payment that has succeeded, and follows the
hold from there on; `Capture` stands for the webhook up to `advanceStatus(PAID)`. The other way round,
`MoveHold` of `Payments` stands for all that `Escrow` and the administrators write into the hold, `holdOrder`'s
insert without a payment included.
`Identity` shares nothing with the others but the administrators; it follows one phone,
since all keys and rows are of one phone or one session. `Fulfilment` starts with a PAID
order and follows it to the courier, to DELIVERED and into disputes; `Escrow` has the
money of the same statuses. `Sellers` ends where `Orders` begins, with a checkout link.
`Pages` sees the backend as rows with two statuses, which the controls move them between:
the races of the handlers are the other modules' matter.

Conventions shared by the modules:

- A *request* is a slot with a program counter `pc`, the operation `op` it runs and
  its local variables. An action is the code from one `await` to the next. The
  slots bound how many requests run at once, not how many there are.
- A request that is refused (a 4xx answer, an early return) changes nothing. Where
  the refusal is the first thing that happens it is the absence of a step; later on
  it frees the slot (`Finish`).
- `Abort` is an exception in the awaited call or a restart, at any `await`; what was
  written stays written. The job's `catch` goes on with its list, a restart drops it.
- Lookups that cannot fail any more (a row is never deleted) are part of the action
  that uses them, and so is a `findOne` directly followed by a `save` that sets the
  status whatever it was (`refundHold`, `freezeHold`, `releaseHold`, the override).
- History variables (marked so where they are declared: `seen`, `forced`, `past`, `byHand`,
  `origin`, `left`, `creator`, `ruled`, `late`, `blind`, `crossed` and others) record what
  the rows no longer show. `alone` (`Sellers`) and `calm` (`Pages`) pick, at the start, behaviours
  without overlap.
- `quiet` says that no call fails any more. `Settle` sets it; the safety runs start
  with either value. Without it a server that crashes for ever would make every
  liveness property false.

Details that matter:

- *rawIpn.* `initiatePayment` saves its in-memory intent a second time. TypeORM
  compares it with the row at that moment and writes what differs, so whether a
  payload stored by a webhook meanwhile survives depends on when it arrived;
  `InitiateStore` allows both.
- *payUrl.* The webhooks and the job save whole copies of the intent as well. A copy read before the session
  was stored has no pay URL (`bare`), and saving it may wipe the URL stored since; one read before may also put it
  back. `SaveCopy` allows each.
- *SSLCommerz.* `tran_id` is the order's id. `FindSslcommerz` takes any SSLCommerz
  intent of the order (`findOne` without an order), and the marker is one per order.
  `validateIPN` asks the gateway about the `val_id` and nothing else: the payment that validates a
  notification may be of another intent or another order (`Others`), of any amount, and the status the
  notification itself claims decides what becomes of the intent.
- *bKash* is asked about the payment itself. The buyer's browser is sent to the same endpoint
  (`callbackURL`), whatever he did there, so a notification may come while the payment is open, and `FindBkash` then takes
  it for failed.
- *The gateways* are external. `gateway[i]` is `open` after the session was made, and
  `paid` or `declined` after the buyer acted, which takes the saved pay URL. Notifications
  come at any time, any number of times. `executePayment`, the call that
  would complete a bKash payment, is made by nobody; that the gateway reports it
  completed all the same is an assumption of the model.
- *Codes and tokens* are random. `Identity` numbers them, and so takes them to differ;
  the hashing is left out. A request gives a code that was sent, or a token that was
  made, and only the right one goes on. `blocked` stands for `blocked` and `deleted`, which
  the service does not tell apart, and `buyer` for every role but `admin`. The rate limit
  is modelled as it is in production, where no variable switches it off.
- *Saves* of a user or a session go the way of `rawIpn`: `Saved` and `RefreshSave` let a column the
  request did not set be overwritten, or keep what another request stored just before.
- *The courier.* A parcel is the number of its booking. `CreateParcel` happens inside `Book`:
  the courier has made the parcel, whatever becomes of the request. `arrived` is what the
  courier knows, `told` which deliveries the server has answered with 200; `WebhookUnknown`
  is the answer given to news of a parcel that no shipment names.
- *Compliance records.* `updateCompliance` copies whatever the body holds over the record, `id` and `orgId`
  included, and saves it: a record may be made for another organisation, or be taken from one
  (`UpdateCompliance`; `moved` remembers which).
- *Profile saves* carry the organisation as it was read, so `UpdateSave` may put the old status
  back. A member who joined meanwhile makes the ORM clear a column that is not nullable, and
  nothing is saved.
- *Pages* are records: which rows a page asks for, whether it can load again, what a failed
  load does, whether loading hides it, and its controls, each with where it is, the rows it is
  offered for, what it disables and what follows its answer (the row merged in, the row marked, the
  table loaded again, the page left). The handlers of all pages are then the same few
  actions. A filter makes a load return any of the matching rows. An answer comes in two steps,
  `Serve` (the API writes) and `Apply` (React shows it), and requests overtake each other in both. `Fail` is a
  refusal, an error or a lost answer. A release of a risk hold may be refused after the hold was stored
  as released (`Tearing`): that is a failure after `Serve`, in `calm` too, and `torn` remembers the row.
- *Leaving* a page, or signing out, unmounts it: what its requests do to the database stays
  possible before that, and React ignores their answers after it. A request that has not been served when
  the page goes is dropped from the model; that it may still be served is as if another user
  had written (`Other`).
- *Organisations in the browser* are named by the user they belong to. An invited member
  has no organisation there: only `POST /api/orgs` and a profile save store one.
- *The webhook keys* and the cached answers live 24 hours: `ExpireMarker`,
  `ExpireAnswer`.

## 3. The runs

Passing runs. TLC explores each to the end.

| Run | Instance | Shows |
|---|---|---|
| `OrdersConcurrent` | 1 order, 2 requests, overrides to 2 statuses | types; `HistoryCausal`; `PaidBeforeShipping`; `ImplementsLifecycle` |
| `PaymentsSafety` | two SSLCommerz intents, 2 requests, the job | `MarkerMeansSettled`, `PaidIsCredited`, `WaitingHasUrl`; `ImplementsLedger`, while the job and the webhooks take each other's intents |
| `PaymentsMixed` | an SSLCommerz and a bKash intent, a payment of another order, 1 request and the job, 1 key, override to DRAFT | `AnswerIsPayable`; `ImplementsLedger` |
| `PaymentsDelivery` | a bKash intent, 2 requests, 1 key, PATCH to CANCELLED, notifications early, late and repeated | types; `PaymentIsCredited`, `PaymentIsHeld` |
| `EscrowSafety` | 1 order, 2 requests, every operation | types; `CompletedAfterPayout`, `CancelledAfterFreeze`; `ImplementsSettlement` |
| `EscrowJob` | 2 orders, 1 request, the job | `DueHoldIsSettled` |
| `IdentitySerial` | 1 request, 2 sessions, 3 codes, 3 tokens a session, the phone is `ADMIN_PHONE` | types; `TokenOnce`, `UsedIsRefused`, `BlockIsKept`; `ImplementsAccount`; `LimitIsLifted` |
| `FulfilmentDelivery` | 1 order, 2 requests, 2 parcels, 1 dispute, PATCH to IN_TRANSIT | types; `BookedHasShipment`, `DeliveredIsTrue`, `DisputeIsRecorded`; `ImplementsConsignment`; `DeliveryReachesOrder` |
| `SellersSafety` | 1 new organisation, 1 of before, 1 slug, 2 users, 2 cases, 2 requests; administrators suspend | types; `WholeOrg`, `LinkByOwner`, `CasesOverlap`, `StatusIsKept`, `NothingUnseen` |
| `Web` | the three applications and all their pages, 2 rows, 2 requests of a page, 2 users of the browser | `SelectionIsShown`, `RowsAreFresh`, `OrgOfUser`; `ControlsReturn` |

Runs that end in a counterexample: each checks what a document, a comment or a
README of the repository says, and the code does otherwise. `PROJECT.json` quotes
the lines.

| Run | The code |
|---|---|
| `PaymentsDoubleCredit` | a repeated notification credits twice after a failure |
| `EscrowDisputePayout` | an order in dispute is paid out |

Further points that reading the code for these models brought up, and that no run
is spent on: after a failure between PAID and the hold every repeated notification is refused
by the status check, and the paid order never gets a hold (`PaymentIsHeld` leaves that state
out, `Torn`); nothing compares the order and the amount of an SSLCommerz notification with the payment that
validates it (`payments.service.ts:110`, against Technical Doc.md:1359), so that `Ledger` lets any
SSLCommerz payment cover any SSLCommerz intent; a bKash callback that comes while the payment is
open marks the intent as failed, and its marker hides the completion for 24 hours (`PaymentIsCredited`
leaves such intents out, `failed`); a stale save may wipe the pay URL of a settled intent, or put a settled
intent back to `processing`; the job settles only intents whose notification was stored, so one that is lost
stays lost (`payment-reconciliation.processor.ts:43`, against Technical Doc.md:1358); a counter of
the rate limit whose `expire` failed never expires (`LimitIsLifted` asks for no failure, too); a
blocked user's open sessions can be refreshed, though the access tokens they yield are refused; an upgrade to
administrator that overlaps a block undoes it (`BlockIsKept` asks for no overlap);
an idempotency key used by two requests at once makes two intents
(looked up first, stored last); a refund that is requested twice is inserted twice (the
intent stays `succeeded`); the release date counts from the payment, not from the
delivery (`escrow.service.ts:8` and `:19`); the job releases a hold that was frozen after it
read its list; a hold released while its order is neither DELIVERED nor DISPUTE_OPEN leaves
the order short of COMPLETED for good.

On orders and sessions: with two requests at a time a stale save by `advanceStatus` takes a transition that is not
allowed (`orders.service.ts:89`, against Technical Doc.md:811), and a refresh that overlaps a
logout makes the session active again (`token.service.ts:73`, against SRS.md:193); two overlapping
verifications of a code, or refreshes with a token, both succeed. `HistoryCausal` and `ImplementsLifecycle` say
what is left of the transitions then; the properties of `Identity` are for requests
that do not overlap, all but `UsedIsRefused`: whatever overlaps, a used code or token is refused to those
who come later. The run has one request; the theorem any number.

On logistics and disputes: a second booking makes a parcel at the courier and then fails on the unique
order id, so the parcel is an orphan; a booking before PAID, or one that fails between its row and
`advanceStatus`, leaves the order unable to become SHIPMENT_BOOKED through the service; the couriers are told
to collect the total though the order is prepaid; the webhook of a delivery is refused until a
PATCH makes the order IN_TRANSIT, which no webhook does; `openDisputePublic` never inserts,
since `raised_by_user_id` is not nullable; resolving a dispute moves neither order nor hold, so an order in
dispute may have none to resolve (`DisputeIsRecorded` asks for a row, not an open one); the news of a delivery that
finds no shipment yet is answered and lost.

On sellers: a failure inside `create` leaves an organisation without owner and its slug taken; an update of
a compliance record may name another organisation's, which loses it (`WholeOrg` leaves the records so moved out); a profile save
that was under way undoes a suspension (`StatusIsKept` therefore asks for no overlap, as
`NothingUnseen` does: a document may land in a case that was decided meanwhile); approving a case changes
no organisation; invited members are never activated and yet pass `assertOwnerOrAdmin`; PATCH and
DELETE of a product are always refused.

On the web: a failed load empties the table and keeps the ticks, so a bulk change is then sent for rows nobody
sees (`SelectionIsShown` leaves this out); filters do not cancel the load before, so a late answer
shows another filter's rows; a release of a risk hold that is refused because its order cannot be completed has
released the hold all the same, while the page goes on showing it as held (`RowsAreFresh` leaves that row out);
a bulk change reloads with the filters it was pressed with; a retry after the
answer to a checkout form was lost makes a second order; a profile save answered after
the sign-out stores the old organisation again, and signing in over another user keeps his
(`OrgOfUser` leaves both out); after a sign-out a seller's organisation is asked for nowhere, so he is
shown the onboarding page again; a failed restore in the administrators' application clears
a token stored meanwhile; the seller's order page offers no control, its statuses being
in lower case.

Bounds, and why they are enough. The handlers interact in pairs: one writes between
another one's read and save, so two requests (and the job as a third process) show
every such race. Two intents are what it takes to confuse them. One order suffices
where the code of different orders shares nothing but the table; the release job
shares its list, so `EscrowJob` has two. `Patches`, `Overrides` and `Requested` limit
what clients ask for, never what the code does about it. `MaxCredits`,
`MaxRefunds`, `MaxSends` and `MaxTokens` stop the counters: beyond 1 where counting
matters, at 1 where only "any" matters. Three codes reach the rate limit; three tokens
make a token that was exchanged, its successor and the one after. Two
parcels make one the shipment names and one it does not (`MaxParcels`). One organisation is
created and one is there already (`Others`): organisations meet in the slug, where all that matters is that it is taken,
and in the compliance records that move between them. Two rows are a row that is ticked and one that is not; two requests of a page (`MaxCalls`) are one
that overtakes another. `Settled` (`Web`) has pages opened by one of the users, when no sign-in or save is
under way: a page reads nothing of the session but whether it may be shown, and the session goes through
all its steps while no page is open. `PaymentsMixed` has one request, and the job, since overlaps are those of
`PaymentsSafety`; what it adds is the other gateway, the key and a request that starts over after a failure.
The proofs do without all these bounds.

Fairness. Node runs a callback whose await has returned: weak fairness of
each process's own steps. Cron starts the jobs again and again, hours pass, and the
failures end: weak fairness of `JobStep` (of `Scan` and of the releases in `Escrow`)
and of `Settle`. Redis expires a key that has an expiry: weak fairness of
`ExpireCount`. No client, buyer or administrator has to do anything. `Redelivery` (strong
fairness, in `DeliverySpec` only) is bKash repeating the notification of a payment that was paid for as long as the
server accepts it; it is strong since slots are
occupied now and then. So is the news of a delivery in `Fulfilment`: Pathao repeats a webhook until it is
answered with 200, and may repeat it afterwards. In `Web` the browser ends each request, with an answer or an error: weak
fairness of `Handle(1)`, the oldest request of the page. Nobody has to press, load or
stay. `calm` behaviours, which only `RowsAreFresh` speaks of, have nobody else write, answers in
order, and no answer lost.

Mutants. The modules hold a few operators marked *Mutant*: an action with a plausible
bug (a dropped check, a swapped order, a missing save). No specification uses
them. Put in the place of the action they vary, they make TLC find each property of
each passing run violated, which shows that the properties can fail.

## 4. The proofs

`OrdersProofs`, for any sets of orders, sessions, requests and overrides:

- `TypeCorrect`, `Causality` and `PaidFirst`: `TypeOK`, `HistoryCausal` and
  `PaidBeforeShipping` are invariants. `HistoryCausal` is not inductive: nothing in it
  says where the status a request is about to save comes from. `IInv` adds that a
  request in `save` holds a status its order has had and a legal successor of it,
  that a request in `override` holds an existing order, and that a stored status is in
  the history. `PaidFirst` adds a fact about the transition table: the statuses after
  payment are entered only from PAID and from each other.
- `Refinement`: however requests overlap, the service implements `OrderLifecycle`, which lets a status be
  reached from any the order has had. That is what the slots remember (`IInv`): the status a request is about to save is
  legal after one in the history, though perhaps not after the one stored by then.

`PaymentsProofs`, for any intents at any mix of the two gateways, any requests, keys,
statuses asked for and bounds of the counters:

- The invariants (`MarkerMeansSettled`, `PaidIsCredited`, `WaitingHasUrl`, `AnswerIsPayable` and `TypeOK`) are
  theorems. `IInv` adds what the slots hold at each `await` (`OpInv`), that a
  gateway session is opened once, by the one request that inserted the intent
  (`SessionInv`, from `IntentInv`), that a stored IPN, a succeeded intent, a transaction and an intent on
  the job's list all stand for money that a gateway has and the code accepts for that intent (`Paid`, `MoneyInv`:
  for SSLCommerz any SSLCommerz payment), and that whoever is
  about to make the hold, move the order or set the marker has the transaction, or the failed
  notification, behind him (`OrderInv`).
- `Refinement`: `Payments` implements `Ledger`, at any mix of gateways, intents, requests and failures. The
  ledger sees the order, the gateways, which intents have a transaction, the hold, and how many refunds
  were opened. `InitiateSession` is an `Offer`, the buyer's step a `Decide`, the webhook's and the job's
  transaction a `Record` (a second transaction for the same intent stutters), `CreateHold` a `Hold`, the
  insert of a refund a `Refund` and the refund of the hold a `GiveBack`; an order is saved as `Start`,
  `MarkPaid` or `ByHand`; the rest stutters. Two facts had to be added to `IInv` for it: a webhook and the job
  advance the order to nothing but PAID, and whoever is about to give the hold back has opened a refund.
  An administrator's risk hold, which may hold money for an order nobody paid (`holdOrder`), is a `MoveHold` of both.
- `StepIsStable` comes first: no step takes back a gateway's verdict, a row, a saved
  session (`linked`; the URL in the row may go), a transaction, a notification taken for a failure or the existence of
  the hold. With it, what another process
  does between two awaits cannot falsify what a slot relies on, and each action is
  left with what it does itself.

`EscrowProofs`, for any orders and requests:

- `PayoutFirst` and `FreezeFirst`: `CompletedAfterPayout` and `CancelledAfterFreeze`. The
  inductive invariant says that a slot which is about to advance an order to COMPLETED
  (CANCELLED) for `releaseHold` (`holdOrder`) has its hold's payout (freeze) in the
  history, which only grows.
- `HeldOnce`: `NeverHeldAgain` holds of every step, since only an insert writes `held`.
- `Refinement`: `Escrow` implements `Settlement`, which has neither requests nor the job's list: money is held
  once, then settled, and the order moves to COMPLETED or CANCELLED after that or by hand. The step that
  needed more than the invariants above is the freeze of `holdOrder`, which writes whatever row
  its order has: `SlotInv` adds that there is one by then.

`IdentityProofs`, for one phone, any number of sessions, codes and tokens and finitely many requests:

- However the requests overlap and fail: `TypeCorrect` and `UsedIsOver`, that `UsedIsRefused` is an
  invariant. The inductive invariant `BaseInv` adds to the types that a request which goes on to open a
  session holds a code that was sent and is stored no more, that codes and tokens are numbered in the
  order they were made, and that a session stores the last token made for it (`UsedInv`). The types need
  `RoomInv`: the guards that keep the counters within `MaxSends` and `MaxTokens` count the requests on
  their way to them, so the lemmas `SendingStep` and `RefreshingStep` are about the cardinalities of those sets.
- As long as requests do not overlap (`Serial`; failures and restarts may come anywhere): `CodesWorkOnce`,
  `TokensWorkOnce`, `LogoutLasts`, `BlockLasts` and `OpensForActive`. `SessionInv` adds that a request which
  goes on to open a session is the first to do so with its code, that one which refreshes a session holds its
  last token, and that nobody has logged out since; `UserInv` that what a request is about to
  save is the user as stored but for what it sets.
- `Refinement`, under `Serial` as well: `Identity` implements `Account`, where a session has no requests between its
  code and its logout. What a request read is still so when it writes: that is what `SessionInv` and `UserInv` say,
  and the refinement adds that a session being refreshed is still active.
- Without `Serial` those six do not hold: a refresh that saves what it read before a logout undoes the logout, and two
  requests may read a code or a token before either takes it.

`FulfilmentProofs`, for any orders, disputes, parcels and requests:

- `BookedFirst`, `DeliveriesAreTrue`, `DisputesAreRecorded` and `TypeCorrect`. What the three invariants lack is what
  a request holds between two awaits (`SlotInv`): one about to insert a shipment holds a parcel that
  was made; one about to save a delivery holds a copy that names the order's own parcel, delivered
  and on record; one about to advance the order has its row behind it. Only `InsertShipment` sets
  the parcel of a shipment, and only on an order without one, which makes the copies good for ever.
- `Refinement`: `Fulfilment` implements `Consignment` with no assumption on overlaps. An insert is a
  `Consign`, the save of a delivery a `Report`, the courier's step an `Arrive`, all else stutters.

`SellersProofs`, for any organisations, users, cases and requests:

- `CreatedWhole`, `LinksAreOwned`, `CasesOverlapOnly`, `StatusKept`, `DocumentsAreSeen` and `TypeCorrect`. `SlotInv`
  again says what a request relies on (of compliance records that no update has moved); `PeopleInv` that a team has its creator as an active member and no
  other active one; `CaseInv`, stronger than `CasesOverlap`, that every case a request saw when it looked for
  a pending one is decided, which stays true since no decision is taken back.

`PagesProofs`, for any rows and any number of requests of a page:

- `SelectionShown`: `SelectionIsShown`. What it lacks is how rows get from an answer into the page: `ViewOK`
  (which `ViewTypes` proves) follows every request from the call to the answer, and says that the answer to
  a change gives each row it names the status that was asked for, so that merging it shows and hides the
  same rows as loading would.
- `RowsGetFresh`: `RowsAreFresh`. While requests are under way, what a page shows and what its answers say
  may both be outdated. `FreshInv` says that each such row is mended by a request that comes later:
  a load, or an answer that names the row; or the row is in `torn`, since its release was refused after it was
  stored. It needs that requests are served in order and that no answer is lost: that is what `calm` is for. `RemoveAtProperties` is the lemma about the queue that
  all of it rests on.

`WebProofs`, for any users, pages and rows:

- `OrgIsOfUser`: `OrgOfUser`. The invariant is `SInv`: unless steps have crossed, all that the browser stores,
  shows or waits for is one user's. It follows the answers still to come, which `OrgOfUser` does not.

The constants' assumptions (`OrdersAssumption`, `PaymentsAssumption`,
`EscrowAssumption`, `IdentityAssumption`, `FulfilmentAssumption`, `SellersAssumption`,
`SignInAssumption`, `PagesAssumption`) say that the special values are no members of the sets and that the
requested statuses are statuses, that the counters may reach 1, and (`Identity`) that the requests under way at
a time are finitely many. Nothing else is assumed.

Only model-checked: the liveness properties (`PaymentIsCredited`, `PaymentIsHeld`,
`DueHoldIsSettled`, `LimitIsLifted`, `DeliveryReachesOrder`, `ControlsReturn`), which need fairness and are
beyond the proof system. Every invariant of the passing runs, and every
refinement they check, is a theorem. Some theorems say what no run checks, since a refinement that the run checks
says it already: `NeverHeldAgain` (`Settlement`), `CodeOnce`,
`LogoutIsFinal` and `OpenedForActive` (`Account`).

## 5. Not modelled

The HTTP layer, the adapters' exchanges and the jobs that only log keep no state a property
could be about. Notifications, audit and the idempotency interceptor are called by nobody.
Amounts are not modelled: each transaction, hold and refund takes the order's whole amount. Of the
web applications, what is drawn, the search in rows that are loaded, the downloads and the
static pages (home, pricing, terms) are left out, and so is a second tab of a browser. Product variants are
plain inserts; statistics, quotes, tracking and exports read.

## 6. Plan

In this order:

1. `SafeCart`: payments, escrow and fulfilment of one order composed, for the
   path from the payment to the payout.
2. The idempotency interceptor, once a route uses it.
