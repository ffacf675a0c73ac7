# SaniPay: a TLA+ model of money and accounts

SaniPay is a NestJS backend over PostgreSQL (Prisma), with a Flutter app and a
Next.js administration console in front of it. Users fund a wallet through a
payment gateway, transfer money to each other, buy airtime, data, electricity
and cable TV from a reseller's API, and earn referral rewards. Every one of
these is a few `await`s of a request handler on the same few rows, and the
handlers interleave at each of them. This directory models those handlers, checks
what they promise with TLC and proves the core of it with TLAPS.

All paths below are relative to `src/backend/src/` unless they start elsewhere.

## 1. Inventory

| Component | State | Operations | What is hard | What makes it correct |
|---|---|---|---|---|
| Wallets and ledger rows (`modules/wallet`, `prisma/schema.prisma`) | `wallets`, `wallet_transactions` | `creditWallet`, `debitWallet`, always inside a caller's transaction | the row is read without a lock and written back as an absolute value | no negative balance; the newest ledger row is the balance; trails reconcile when transactions do not overlap |
| Transfers (`WalletService.transferFunds`) | `transactions` (unique `idempotency_key`), two wallets | lookup, PIN, one transaction with a debit and a credit, notifications | two wallets locked in the sender's order; key looked up outside; crash before the answer | once per key, whole or not at all, true answers, no lock left behind, every request ends |
| Purchases (`modules/airtime`, `data`, `electricity`, `cable`) | `transactions.status`, in-memory verification sessions | debit transaction, provider call, SUCCESS or refund transaction | the provider call between two transactions; one `catch` for everything after the debit; prices that change meanwhile | an order is paid, delivered, then confirmed or refunded, each at once; nothing delivered unpaid, a refund reverses its own debit once, statuses backed by facts, paid orders are settled |
| Manual refunds (`AdminService.processRefund`) | `refunds` (unique `transaction_id`), the order, the wallet | check, one transaction, audit row | the check is outside the transaction, races with handlers and administrators | one manual refund per order |
| Payments (`modules/payments`, `initializeFunding`) | `transactions.status`, `payment_transactions` | initialise, three webhooks, verify, `_fulfillPayment` | repeated deliveries, verification at the same time; any transaction is found by its reference | status and credit together; a gateway's word credits only what was paid |
| Referral rewards (`modules/referrals`, `_fulfillPayment`) | `referrals`, `referral_rewards` | qualify (inside a fulfilment), `claimRewards` | both write a referral's status; the rewards of a claim are read before its transaction | one reward per referral; status only advances; a paid reward is in the ledger |
| Payment gateway adapters (`providers/payment`) | none | `verifyWebhookSignature`, reading an event, `verifyPayment` | unsigned, failed and foreign events; API failures; a sandbox fallback | what no gateway has vouched for is not fulfilled, but for the sandbox's ways in |
| VTU adapters (`providers/vtu`) | none | purchases, verification of meters and smartcards | a reply that says yes or no in any of several fields; amounts in naira | success only for what was delivered, worth what was asked |
| Authentication, OTP, users (`modules/auth`, `modules/users`, `AdminService.updateUserStatus`) | `users`, `refresh_tokens`, an in-memory map of codes | register, verify / resend code, login, refresh, forgot / reset / change password, status changes | a password hash lies between reading a row and acting on it; counters read and written back; rotation in two writes; a restart empties the map | unique emails and phones; failed logins counted, lockouts earned by as many of them; a code is used up once; sessions only of verified phones; a refreshed token is revoked; true answers |
| Support, notifications (`modules/support`, `modules/notifications`) | `support_tickets`, `support_messages`, `notifications` | open, reply, change status; dispatch, mark one or all as read, broadcast | a reply decides on a status read earlier and is stored in three writes; notifications follow the work and may fail | threads are whole, an agent's closing never swallows a later reply, notifications are true |
| Transaction history, lists, dashboards | none | reads | - | - |
| Pricing (`AdminService.updateNetworkDiscount`, `updateDataPlanPrice`) | `networks.airtime_discount_bps`, `data_plans.selling_price_kobo`, audit rows | single-row writes | orders priced before and refunded after a change; an audit row after the write | refunds return what was paid |
| Settings (`modules/admin`) | single rows nothing in the backend reads | upserts | - | - |
| Guards, filters, interceptors, configuration, health; console; app | none of the backend's | - | - | - |

The components meet in the database. Transfers, purchases, refunds, fulfilments
and claims all write `wallets` and `wallet_transactions`, all but the manual
refund and the claim through `creditWallet` and `debitWallet`; the manual refund
writes the rows of a purchase whose handler may be running; a fulfilment writes
the referral rewards a claim reads; an administrator's price changes the next
order. Every money path ends in a notification, after its commit. Accounts meet
the money paths only in the id of a request's user, so `AuthService` is a module
beside them; support and notifications share nothing else with them either
(`SupportService`). There is one process; there are no queues, jobs or retries
in it. `PrismaService.lockWallet`, which would take a wallet's row with `SELECT
... FOR UPDATE`, has no caller, and neither has
`ReferralsService.qualifyReferral` outside its unit test.

## 2. Modules

| Module | Models |
|---|---|
| `WalletLedger` | the row layer: committed balances and ledger rows, at most one uncommitted version per wallet row, the read / check / write / commit / rollback operators |
| `WalletService` | EXTENDS it: `transferFunds`, one action per await |
| `LedgerContract` | the abstract ledger: a transfer is one move, `AtomicSpec` from current balances, `SnapshotSpec` from balances the wallet has had |
| `VtuProviders` | the VTPass, ClubKonnect and mock adapters as operators: the request built for an order, the result made of a reply |
| `VtuPurchase` | EXTENDS `WalletLedger`, `VtuProviders`: the four purchase services, `processRefund`, and the administrator's price changes |
| `OrderContract` | the abstract order: placed and paid, delivered, confirmed or returned, reimbursed once |
| `FundingContract` | the abstract funding: asked for, credited with the referral it qualifies, paid out; `OnceSpec` without repetitions |
| `PaymentGateways` | the Paystack, Flutterwave and mock adapters as operators: signatures, event bodies, the status of a payment |
| `PaymentsService` | EXTENDS `WalletLedger`, `PaymentGateways`: `initializeFunding`, webhooks, `verifyPayment`, `_fulfillPayment`, `claimRewards` |
| `AuthService` | accounts, codes and sessions: `AuthService`, `OtpService`, `UsersService.changePassword`, `AdminService.updateUserStatus` |
| `SupportService` | `SupportService` and `NotificationsService`: tickets, threads, status changes, inboxes, broadcasts |
| `MCWalletService`, `MCVtuPurchase`, `MCPaymentsService`, `MCAuthService`, `MCSupportService` | constants of the TLC runs |
| `WalletLedgerProofs` | lemmas about the row layer, for the three services that write wallets: types, and when trails reconcile |
| `WalletServiceProofs` | invariants of `WalletService`; who waits for whom, and its only deadlocks |
| `WalletRefinementProofs` | `WalletService` implements `LedgerContract`, atomically while no transfer has to wait for a wallet |
| `VtuPurchaseProofs` | invariants of `VtuPurchase`, which implements `OrderContract`; no deadlock; what a double compensation and a broken trail take |
| `PaymentsServiceProofs` | invariants of `PaymentsService`, which implements `FundingContract`; no deadlock; what a double credit, a double payout and a broken trail take |
| `AuthServiceProofs` | types of `AuthService`, and what one step of it may write |
| `AuthSafetyProofs` | its safety properties |
| `SupportServiceProofs` | invariants of `SupportService` |

### The row layer

The code runs interactive transactions and names no isolation level, so
PostgreSQL's READ COMMITTED applies: `findUnique` returns the committed row and
takes no lock (`ReadWallet` copies it into `seen[p]`); `update` waits for the row
lock and leaves a version only its transaction sees (`WriteWallet`, `dirty[u]`);
a commit publishes a transaction's versions at once, a rollback drops them. A
unique column behaves alike: an insert waits for an uncommitted row with the same
value and fails on a committed one (`claim`/`master`, `keyClaim`/`keyRow`,
`refundClaim`/`refund`). `dirty[u]` also carries the ledger row that goes with the
version, because every writer inserts it in the same transaction and no handler
writes one wallet twice.

### Handlers

Each handler is a process with a program counter that stands between two awaits.
Steps that only read rows nobody changes (the recipient, the plan, the provider)
are merged into the next one. A crash ends every running handler, rolls back
open transactions and, in `VtuPurchase`, empties the verification sessions. A
client that repeats a request after no answer is simply another handler with the
same key.

### Adapters

An adapter keeps no state, so it is a set of operators. A reply is a record of the
fields the adapter reads, each of them saying yes, saying something else, or
absent (`x ?? y` is `Coalesce`); a reply that cannot be read is what the `catch`
clause sees. `Deliver` gives the company the request names, the naira it asks for
and the result made of the reply; `CallProvider` in `VtuPurchase` chooses
the reply, and whether the provider has delivered, among all that are `Truthful`:
no field says yes unless the order was delivered. In the same way
`PaymentsService` lets a delivery bring any body under any signature; a body signed
with the key tells of a payment the customer has made (`paid`), as does an answer of the
API. Nothing else is a payment: a webhook under the literal test signature, the mock
webhook, the mock adapter and a call of the API that was not made or came to nothing
leave `paid` as it is, and a delivery that goes on by one of them is remembered in
`unproven`. A reference may name a purchase as well (`Purchases`), for which no payment
is ever due.

### Accounts

`AuthService` has no transactions longer than a statement (`register`'s inserts
only new rows), so its rows need no version layer: each write is one atomic
action, and the interesting state is what a handler read before it. An account is
named after the handler of `register` that inserts it. `otp` is `OtpService`'s
map, whose operations run without an await; `spent[p]` remembers the entry a
handler used up. `tokens` is `refresh_tokens` in the order of `createdAt`, the
order in which `refreshToken` looks at it; `stored[p]` is the row it found. A
login keeps the whole row it read in `seen[p]` and decides on it two writes later.

### Support

Only `createTicket` has a transaction, and it inserts new rows; everything else is
one statement at a time, so `SupportService` has no version layer either. Tickets,
messages and notifications are named after the handler that inserts them: `thread[t]`
is a sequence of handlers, `inbox[u][p]` is the row handler `p` dispatched to `u`.
Two history variables serve a property: `closings`, the status changes that closed
a ticket, and `known[p]`, those a reply could have read.

Every definition is tied to its source lines by `PROJECT.json` ("map").
Definitions whose comment starts with "Mutant of" are not part of the model: they
are the bugs each property was tried against.

## 3. What is checked

| Run | Instance | Shows |
|---|---|---|
| `transfers` | 2 users, 3 transfers, 2 keys, every step may fail, crashes | no negative balance, newest row = balance, once per key, whole, true answers, no orphan lock, implements `SnapshotSpec` |
| `transfers_live` | 3 users (one locked wallet), 2 transfers, 2 amounts, fairness | every request is answered or dies with the server; deadlocks are broken |
| `transfers_race` | as `transfers`, 2 transfers | **violated**: trails do not reconcile under overlap (`README.md:45-46` of the repository says they do) |
| `purchases` | 1 wallet, 2 airtime orders through VTPass, 2 keys, 1 administrator, discounts 0 and 2.5 percent, faults | implements `OrderContract`; nothing delivered unpaid, one debit per key, refunds reverse their debit, statuses backed, deliveries worth what was asked, balances hold |
| `purchases_live` | 1 order of data, electricity or cable TV, through ClubKonnect or the mock, 2 administrators, 2 plan prices, fairness, no faults | a paid order is settled; one manual refund per order |
| `fundings` | 3 users, a purchase with the mock gateway and a Paystack funding, 2 deliveries, 1 claim, production, a live key, failing API calls, faults | implements `FundingContract`; SUCCESS = credited, one reward per referral, paid rewards are in the ledger, a gateway's word credits only what was paid |
| `fundings_live` | 2 users, a mock and a Flutterwave funding in the sandbox, 2 deliveries, 1 claim, failing API calls, fairness | a delivered event ends in SUCCESS |
| `accounts` | 1 seeded account, 3 handlers of any of 9 kinds, 2 emails, phones, passwords and codes, lockout at 2 failures, 1 wrong code, faults | unique emails and phones, lockouts take as many failed logins as the limit, failures in turn are all counted, codes used up once, sessions verified, exchanged tokens revoked, true answers |
| `support` | a customer, an agent, 4 handlers of any kind, failing statements, crashes | threads are whole, no reply is buried, notifications are true |
| `credited_unpaid` | 1 Paystack funding, 1 delivery, production, a live key | **violated**: only paid fundings credited (`docs/PHASE_8_PAYMENT_GATEWAYS.md:55-56`: an invalid signature is refused) |
| `credited_twice` | 1 funding, 2 deliveries | **violated**: one payment credited once (`docs/PHASE_8_PAYMENT_GATEWAYS.md:51,63`) |
| `claimed_twice` | 1 reward, 2 claims | **violated**: one reward paid once (`docs/PHASE_10_REFERRALS_AND_COMMISSIONS.md:208`) |

**Bounds.** Every hazard here needs two handlers on one wallet, key, order or
referral, and a third one in between at most; the balances allow two but not
three of the operations, so both sides of every funds check happen. Purchases
keep one wallet: two users' orders share nothing but keys; of the four services,
which differ in how an order is priced and requested, one is interleaved with
itself under faults and the others run alone. The face value is no whole number
of naira (5075 kobo), so that rounding shows, and discount (0 or 250 basis
points), fee (100 kobo) and plan price (4000 or 6000 kobo) make the net amount
differ from it. Every reply of the two real providers that their adapters can
tell apart is tried. Support needs a ticket, two replies or a reply and a status
change, and one handler more, to notify or to mark. `Procs`, `Keys` and the
kinds of handlers are symmetric wherever a run is free of liveness; users are
not, because their initial balances and referrers differ. Three handlers on
accounts are a registration, its verification and a login, or two sessions and a
refresh: the longest chain any of its properties needs; two failures and one
wrong code put both limits within reach of them. Sequences grow by at most one
row per handler, so no bound is needed on them.

**Deadlock** is checked in every run. `Terminated` is the only step left when
every handler has ended, so a state where all wait for each other would be
reported; `transfers` passes because a blocked transaction can always be failed
by the database.

**Fairness.** Node.js runs a handler on as long as its awaits are answered: weak
fairness of each handler's own steps. Nothing makes a fault, a crash, a client or
an administrator's click happen. In `WalletService` opposite transfers really do
wait for each other, and PostgreSQL's deadlock detector or Prisma's transaction
timeout ends one of them: weak fairness of `LockTimeout`, which is enabled only
while a row is locked by someone else. No other deadlock of transfers exists
(`OnlyRingsDeadlock`, section 4). Purchases and payments need no such assumption,
since all their handlers take rows in one order: `WaitsFormNoCircle` and
`NoDeadlock` prove it for each of the two.

### What the code does not promise

The following are reachable in the models and follow from the code as it is. They
have no run of their own:

- after a manual refund the newest ledger row and the balance may differ
  (`docs/PHASE_3_DATABASE_DESIGN.md:115` says they never do): `processRefund`
  increments the balance under the row's lock but computes its ledger row from the
  balance it read before (`modules/admin/admin.service.ts:462`). `BalancesHold`
  therefore speaks of the newest row only while there is no manual refund. This,
  and every trail that does not reconcile, takes a handler that found a wallet's row
  locked when it came to write it (`TrailUnlessContended`);
- an order is compensated by its handler and by an administrator: the handler's
  refund looks neither at the status nor at `refunds` (`modules/admin/admin.service.ts:399`
  accepts PROCESSING orders). It takes an administrator who does not wait for the
  handler's end (`CompensatedOnceIfAdminsWait`);
- an order the provider confirmed is refunded when the SUCCESS transaction fails:
  one `catch` covers both (`modules/airtime/airtime.service.ts:192`, and its three
  siblings);
- a client hears of a failed purchase although the refund itself failed
  (`airtime.service.ts:244`), and the order then stays PROCESSING;
- an order whose server died after the debit stays PROCESSING: no job resumes it;
- a gateway API call that fails during `verifyPayment` falls through to the
  sandbox result, a success (`providers/payment/paystack.adapter.ts:103-120`,
  `flutterwave.adapter.ts:157-175`). `GatewayErrors` switches this on, and `fundings`
  has it on;
- what nobody paid is credited by a webhook under one of two literal signatures, which
  the Paystack adapter accepts in production too (`paystack.adapter.ts:125`; run
  `credited_unpaid`), and by the mock webhook, a public route in every environment
  (`modules/payments/payments.controller.ts:52`). `docs/PHASE_8_PAYMENT_GATEWAYS.md:55-56`
  has an invalid signature refused, `:85` calls the mock webhook one for local
  development. `UnpaidIsUnproven` shows that besides these, the mock adapter and the
  fall-through above, there is no other way;
- the client chooses the gateway, the mock one too, and a delivery fulfils whatever
  transaction its reference names, a purchase as well, even a refunded one
  (`modules/payments/payments.service.ts:145,212`);
- a provider's timeout after delivery is a failure and is refunded; there is no
  requery, and VTPass is given a fresh `request_id`, unknown to the order
  (`providers/vtu/vtpass.adapter.ts:118`);
- a VTPass reply with a code other than `000` is a failure even where its
  transaction's status is `delivered`: the first field present decides
  (`vtpass.adapter.ts:155`);
- the seed calls Jos Electric `JED` (`src/backend/prisma/seed.ts:146`), both
  adapters' tables `JEDC`, so the request names it by the seed's code, which no
  table lists;
- of failed logins that read the same count one is lost, since each writes it back
  plus one (`modules/auth/auth.service.ts:192`); the late one erases a lockout or undoes
  a reset as well. `docs/PHASE_5_AUTHENTICATION_AND_AUTHORIZATION.md:30` ("Upon 5
  consecutive failed login attempts, the account is temporarily locked") therefore
  holds only of failures in turn, and `FailuresAreCounted` excepts the others
  (`FailedInTurn`): without that condition two parallel failures violate it;
- two refreshes with one token may both succeed: both find the row unrevoked and
  revoke it by id (`auth.service.ts:250`, `270`). It takes two that stand between the
  two statements at once (`ExchangedOnceUnlessTwice`);
- a session that a refresh or a login stores after `changePassword` has revoked the
  others stays, and all of them do if the revocation fails
  (`modules/users/users.service.ts:162-171`);
- a reply that read OPEN may be stored in a ticket an agent has closed meanwhile,
  and one that read CLOSED sets the ticket to OPEN over an agent's later
  IN_PROGRESS (`modules/support/support.service.ts:260-266`); the reopening stays if
  the message then fails, and a client that repeats a reply stores it twice.
  `docs/PHASE_12` (lines 45-57) draws CLOSED as final; any status may follow
  any other in `updateTicketStatus`;
- a notification whose insert fails is lost (`notifications.service.ts:153`);
- `verifyOtp` sets the status to ACTIVE whatever it was (`auth.service.ts:129`).

## 4. What is proved

### Transfers

For every set of users, handlers, keys and amounts, every initial balance and
every number of steps (`WalletServiceProofs`, `WalletRefinementProofs`):

| Theorem | Says |
|---|---|
| `TypeCorrect` | `Spec => []TypeOK` |
| `Invariance` | `Spec => []IInv` |
| `LocksAreReleased` | `[]NoOrphanLocks` |
| `BalancesStayNonNegative` | `[]NonNegative` |
| `LedgerEndsAtBalance` | `[]LatestEntryIsBalance` |
| `KeysAreUsedOnce` | `[]OneTransferPerKey` |
| `ClientsAreToldTheTruth` | `[]AnswersAreTrue` |
| `TransfersAreWhole` | `[]TransferWhole` |
| `SnapshotRefinement` | `Spec => ImplementsSnapshotLedger` |
| `TrailUnlessContended` | `Spec /\ []Uncontended => []TrailReconciles` |
| `AtomicUnlessContended` | `Spec /\ []Uncontended => ImplementsAtomicLedger` |
| `WaitsAreForOpposites` | `[]WaitsAreOrdered`: waits go to later rows, but for a credit that waits for the credit of its recipient's own transfer |
| `OnlyRingsDeadlock` | `[]DeadlocksAreRings`: if all that run wait, some of them form a ring of such credits |
| `WaitingIsBlocking` | `Spec => WaitersStay`: who waits takes no step but to fail |

The only assumptions are `WalletAssumption` and `ServiceAssumption`: balances
start as naturals, amounts are positive, handlers name the rows they insert, and
the three sentinels are none of the values they stand beside.

**The argument.** None of the properties is inductive alone. `IInv` adds:

- `LocksHeld`, `KeysHeld`: which rows and keys a handler at a given point of its
  transaction holds, and that an uncommitted row has an open owner; from this
  follow `NoOrphanLocks` and, with the unique column, `OneTransferPerKey`;
- `RowsSettled`: a handler has ledger rows exactly when it has committed;
- `SeenIsPast`: what a handler has read is a balance its wallet has had, and for
  a debit at least the amount;
- `DraftsMatch`: an uncommitted version and its ledger row agree, and start from
  such a balance;
- `PastNonNegative`: every balance a wallet has had is non-negative. This is why
  `NonNegative` holds although the check and the write are apart: what is written
  is computed from the balance that was checked, not from the current one;
- `KeysBacked`: a used key belongs to a committed handler.

`Invariance` is one lemma per action. `TransfersAreWhole` is inductive over `IInv`:
a handler has no rows before its commit (`RowsSettled`), its commit appends one to
each of its two wallets (`CommitIsWhole`), and another's commit adds none of its
rows. `SnapshotRefinement` shows that `Commit` is a `SnapshotTransfer`, with the
balances found by `SeenIsPast` as witnesses, and every other step a stutter.

**Stale reads and waiting.** A balance can go stale between a handler's read and its
write only if another one has the row in that time, and then the handler stands
before its write while the row is locked: it waits. `Uncontended` says that this does
not happen. Then `ReadsCurrent` (what was read is still the balance), `DraftsCurrent`
(an uncommitted version starts from it) and `Reconciled` (each ledger row starts
where the row before it ended) are inductive together, which gives the trails and
`AtomicTransfer`. The lemmas about them (`WriteReconciles`, `CommitReconciles`,
`QuietReconciles`) are about the row layer alone, and the other two services use them
as well. `Uncontended` is a hypothesis about a behaviour, nothing the code ensures:
`transfers_race` shows what happens without it.

**Deadlocks.** `WaitsFor(p, q)` holds where the guard of `p`'s next step needs a row
or key that `q` holds; `WaitingIsBlocking` shows that it is what blocks. `Depth` numbers
the rows in the order in which a transfer takes them: key, sender's wallet,
recipient's. A wait goes to a handler further on, except between two credits, where
the one waits for a wallet the other has debited. Among handlers that all wait, one
of the greatest depth can therefore only be a credit waiting for a credit, and so on
around: the ring `transferFunds` is known for, and no other deadlock.

### Purchases

For every set of users, orders, administrators and keys, every price, adapter,
reply and fault (`VtuPurchaseProofs`):

| Theorem | Says |
|---|---|
| `PurchaseTypeCorrect` | `Spec => []TypeOK` |
| `PurchaseInvariant` | `Spec => []IInv` |
| `DeliveredArePaid` | `[]DeliveredIsPaid` |
| `KeysPayOnce` | `[]OneDebitPerKey` |
| `AutoRefundsReverse` | `[]AutoRefundReverses` |
| `AdminsRefundOnce` | `[]OneAdminRefund` |
| `StatusesAreBacked` | `[]StatusIsBacked` |
| `DeliveriesAreWorthIt` | `[]DeliveredIsWorthIt` |
| `BalancesAreHeld` | `[]BalancesHold` |
| `OrderRefinement` | `Spec => ImplementsOrderContract` |
| `WaitsFormNoCircle` | `[]WaitsAreOrdered` |
| `NoDeadlock` | `[]SomeoneGoesOn`: while any handler runs, one of them does not wait |
| `WaitingIsBlocking` | `Spec => WaitersStay` |
| `CompensatedOnceIfAdminsWait` | `Spec /\ []AdminsWait => []CompensatedOnce` |
| `TrailUnlessContended` | `Spec /\ []Uncontended => []Reconciled` |

The assumptions are `WalletAssumption` and `PurchaseAssumption`: purchases and
administrators are different handlers, prices and face values are positive, a
discount is at most 2000 basis points, a bill is for what its provider knows, and
the sentinels are none of the values they stand beside.

**The argument.** `IInv` says what a handler holds, what its drafts contain, and
what committed rows stand for:

- `Placed`: at each place of a handler, whether its order exists and is paid, and
  that what was delivered is worth what was asked;
- `KeysHeld`, `RefundsHeld`: the two unique columns, with the rows that handlers
  inside a transaction have inserted and not committed; `OneDebitPerKey` and
  `OneAdminRefund` rest on them;
- `StatusHeld`: an uncommitted status is REFUNDED, of the handler or administrator
  who has the order's row, so a commit cannot publish another's draft;
- `WalletsHeld`, `Covered`: an uncommitted wallet row is the debit or credit its
  handler is about to commit, of the net amount, and not negative;
- `RowsStand`, `RowsOnce`: a committed ledger row is the debit of a paid order, the
  credit of one whose handler has said sorry, or that of the one committed manual
  refund; a handler has one debit and at most one credit, after it;
- `Backed`: the converse, that a paid order has its debit and a refunded one a credit;
- `Latest`: balances and newest rows agree as long as no manual refund is committed.

That nothing undelivered is recorded as SUCCESS is a fact about the adapters first:
`VTPassIsTrue`, `ClubKonnectIsTrue`, `MockIsTrue` and `ResultIsTrue` show, for every
reply a truthful provider may give, that an adapter reports success only of what was
delivered, and the amount it asks for. `DebitCommitStep`, `RefundCommitStep` and
`AdminCommitStep` then share `Published`, which says what one commit adds to one
wallet.

`OrderRefinement` maps an order to its contract by the receipts of the ledger rows
written for it. `ReceiptsAre` reads off `IInv` which receipts there are at each
place of a handler, `CommitFrame` which one a commit adds; three commits, the
provider's answer and the recorded success are then the five steps of
`OrderContract`, and every other step leaves its variables alone (`QuietStep`): an
administrator who picks an order has no rows yet.

Every handler takes a unique row (its key, the order's refund), then the order, then
the wallet. `Depth` numbers these, waits go up, and the handler of the greatest depth
waits for nobody (`NoDeadlock`).

The last two theorems say what the flaws in section 3 take. `AdminsWait` has no
administrator between his check and his commit while the order's handler runs; then
he has found it unreturned, which is inductive (`FoundUnreturned`). `Uncontended` is as
for transfers, and covers a manual refund's `{ increment }` beside the absolute
writes.

### Payments

For every set of users, fundings, deliveries and claims, every amount, threshold,
reward and referrer (`PaymentsServiceProofs`):

| Theorem | Says |
|---|---|
| `PaymentsTypeCorrect` | `Spec => []TypeOK` |
| `PaymentsInvariant` | `Spec => []IInv` |
| `SuccessesAreCredited` | `[]SuccessIsCredited` |
| `LedgersKeepUp` | `[]LatestEntryIsBalance` |
| `ReferralsPayOnce` | `[]OneRewardPerReferral` |
| `PaidRewardsAreCredited` | `[]PaidRewardIsCredited` |
| `ReferralsAdvance` | `Spec => ReferralAdvances` |
| `UnpaidAreUnproven` | `[]UnpaidIsUnproven` |
| `FundingRefinement` | `Spec => ImplementsFundingContract` |
| `FundingRefinementOnce` | the same of the contract's `OnceSpec`, if `[]OneFulfilmentAtATime` and `[]OneClaimAtATime` |
| `CreditedOnceUnlessTwice` | `[]CreditedOnce`, if `[]OneFulfilmentAtATime` |
| `ClaimedOnceUnlessTwice` | `[]ClaimedOnce`, if `[]OneClaimAtATime` |
| `WaitsFormNoCircle` | `[]WaitsAreOrdered` |
| `NoDeadlock` | `[]SomeoneGoesOn` |
| `WaitingIsBlocking` | `Spec => WaitersStay` |
| `TrailUnlessContended` | `Spec /\ []Uncontended => []Reconciled` |

The assumptions are `WalletAssumption` and `PaymentsAssumption`: the kinds of
handlers are apart, the deliveries are finitely many (their rewards are added up),
amounts are positive, nobody refers himself, and purchases are of the mock gateway.
Nothing is assumed of the deployment's key, of its environment or of the API.

**The argument.** The pieces of `IInv`:

- `Standing`: what a request knows where its handler is;
- `Marked`: a fulfilment has its funding's row from `MarkSuccess` on;
- `WalletsHeld`: who has written a wallet still has its row, and its draft is the
  credit due to that wallet, for that funding or claim;
- `Granting`: who is granting a reward has found PENDING_QUALIFICATION while it had
  the wallet of the referred user. Nobody else can grant for this user before it
  commits, since he would need the same wallet row: this, and not a check, is why
  `OneRewardPerReferral` holds;
- `Rewarded`, `Claiming`: a reward there is belongs to an ended fulfilment whose
  referral has moved on, a paid one to a claim that has ended;
- `RowsStand`, `Credited`: what ledger rows stand for, and that what has succeeded
  has its row.

`UnpaidAreUnproven` needs one more invariant, `Confirmed`: a handler that goes on to
fulfil does it for a funding that has been paid, because the event was signed or the API
said so, unless it is one of the `unproven`; neither `paid` nor `unproven` ever shrinks,
so what others do in between cannot take this away.

`FundingRefinement` reads a funding's credits and a user's payouts off the ledger rows
written for them. Besides `IInv` it needs that a funding's key is its own
(`KeysOwned`), that a fulfilment about to commit has drafted a referral if its amount
qualifies it and not otherwise (`Judged`), that a claim pays some reward
(`ClaimsSome`), and that unpaid rewards are of QUALIFIED referrals (`Outstanding`);
`KInv` is their conjunction. `ReferralsAdvance`, which no
run checks since the contract implies it, is proved apart.

The code lets two deliveries of one funding pass the check of its status together, and
two claims read the same rewards; `credited_twice` and `claimed_twice` find what comes
of it. The theorems ending in `UnlessTwice` show that nothing else leads there:
`OneFulfilmentAtATime` and `OneClaimAtATime` say that handlers of one funding, or of
one user, are not in these places at once, and then `FulfilsOnce` (what is being
fulfilled is not SUCCESS) and `ClaimsOnce` (what is being claimed is not paid) are
inductive. The code guarantees neither hypothesis.

A fulfilment takes its funding's row, then the wallet, then the referral, and a claim
the wallet: waits go up this order (`Depth`), and for a referral nobody ever waits,
since whoever holds it holds the same user's wallet (`GrantIsFree`).

### Accounts

For every set of handlers, emails, phones, passwords and codes, and every limit of
attempts above zero (`AuthServiceProofs`, `AuthSafetyProofs`):

| Theorem | Says |
|---|---|
| `TypeCorrect` | `Spec => []TypeOK` |
| `AccountsAreUnique` | `[]UniqueAccounts` |
| `LockoutsAreEarned` | `[]LockoutIsEarned` |
| `FailuresCounted` | `[]FailuresAreCounted` |
| `CodesSpentOnce` | `[]CodesAreSpentOnce` |
| `ExchangedRevoked` | `[]ExchangedIsRevoked` |
| `SessionsVerified` | `[]SessionsAreVerified` |
| `AnswersTrue` | `[]AnswersAreTrue` |
| `ExchangedOnceUnlessTwice` | `Spec /\ []OneRefreshAtATime => []ExchangedOnce` |

The only assumption is `AuthAssumption`: the seeded account is no handler, its
email, phone and password are some of those there are, both limits are positive,
and the two sentinels are none of the values they stand beside.

**The argument.** `TypeInv` adds to the types what a request looks like at each
place of a handler and that accounts which were found stay; on it rest lemmas that
say what one step may write: `AccountUpdated` (an update keeps identity and
verification), `TokensStep` (rows are appended or
revoked), `OthersKeep`. Each property then needs its own strengthening:

- `UniqueAccounts` is inductive over `TypeInv`;
- `LockoutInv`: only logins have read a row (`SeenInv`), and no count, written or read by
  a login that may write it back, exceeds the failed logins there are (`Backed`), which
  never become fewer. While nobody is pardoned and no two have read the same count, it
  is their number: a failure that adds to `n` of them has read `n`, since every smaller
  count was read by one of them already, so it writes `n + 1`;
- `CodesInv`: the code a handler sends is pending at one phone or used up by one
  handler, and a handler that may still send one has sent none;
- `ExchangeInv`: tokens belong to handlers that have ended, and a refresh has
  revoked the row it found before it may store a token;
- `VerifiedInv`: what a handler knows of a verification where it stands
  (`Cleared`), that an account once inserted is not overwritten, and that the code
  by which it was verified (`Proven`) stays used up;
- `AnswersInv`, with `VerifiedInv`: a handler has stored one token if it answered a
  login and none otherwise, and the row a conflict was about keeps its email and
  phone;
- `ExchangedInv`: the row a refresh has exchanged is revoked, which nothing undoes, so
  no later refresh finds it; and no other one holds it, if no two refreshes stand
  between finding one row and revoking it (`OneRefreshAtATime`, which the code does
  not ensure).

### Support

For every set of users, agents, administrators who broadcast, and handlers
(`SupportServiceProofs`):

| Theorem | Says |
|---|---|
| `SupportTypeCorrect` | `Spec => []TypeOK` |
| `SupportInvariant` | `Spec => []IInv` |
| `ThreadsWhole` | `[]ThreadsAreWhole` |
| `RepliesAreHeard` | `[]NoReplyIsBuried` |
| `NotificationsAreTrue` | `[]NotifiedIsTrue` |

The only assumption is `SupportAssumption`: agents and broadcasters are users, and
the sentinel is neither a user nor a handler.

**The argument.** The properties speak of what is stored, and a handler that stores
next must know enough where it stands. `IInv` adds:

- `Standing`: which ticket exists, what was inserted and what was not, at each place
  of a handler;
- `Posted`: a message is in the one thread its handler is about, and only after it
  was posted, so a thread never holds it twice;
- `Entitled`: who is about to reopen or post is the owner or an agent;
- `Heard`: what `NoReplyIsBuried` says of stored replies holds already of those
  about to be stored; reading the ticket or reopening it establishes it, and a
  closing that comes later is its own witness, being in `closings` but not in
  `known[p]` (`Closing`);
- `Deserved`: what a handler is about to tell is true.

`SupportInvariant` is one lemma per action, with one step per conjunct.

**Only model-checked:** everything under fairness, which is beyond the prover:
`EveryRequestEnds`, `PaidIsSettled`, `DeliveredIsCredited`.

## 5. Abstractions

- `ledgerBalanceKobo` and `version` are written beside `balanceKobo` and read by
  no decision; they are left out, as are names, phones, metadata and wording.
- The PIN is right or wrong; `verifyTransactionPin`, `changePin` and
  `setTransactionPin` are not modelled.
- A phone number stands for either identifier a user may type at login. The fields
  of a profile, roles and `lastLoginAt` are left out.
- A code that has expired is removed from the map at once, although the code
  removes it when it is next looked at: no operation tells the two apart. A refresh
  token's own expiry after 30 days is not modelled.
- A refresh token is signed over its user and the second it is issued in, so a new
  one may be the same string as an older one of the user; the model allows any
  older one.
- Steps that look up a row which is never deleted, and then write it by id, are
  one action (`ActivateUser`, `StorePassword`, `UpdateUserStatus`). The
  administrator who changes a status is not one of the accounts.
- A failed transaction is one the database rolled back. A commit whose
  acknowledgement is lost is not modelled.
- A delivery names a funding or a purchase; transfers and bonuses are SUCCESS when they
  are committed, so the code ignores a delivery of them. A purchase appears in
  `PaymentsService` as a transaction of its user that is PENDING until it is fulfilled:
  its own debit and refund are not composed with the credit a delivery gives it. The
  amount credited is the transaction's own, as in the code, so the event's does not
  appear.
- A claim's idempotency key is fresh: the app sends none.
- The fees of meter and cable providers are constants; no code changes them.
- Providers are assumed `Truthful` and bodies signed with the key honest; nothing is
  assumed of a provider that says no or nothing, nor of any other body. Names,
  tokens, units and messages in replies are left out, and so is `providerName`, which
  orders store as `MOCK` whatever the adapter.
- Support keeps no priorities, categories, linked transactions, attachments or
  `updatedAt`, none of which decides anything; a taken ticket number fails the insert
  like any other error. Roles do not change. The audience of a broadcast is any set of
  users. Only the notifications of support and broadcasts are in `inbox`: the other
  services dispatch in the same way after their commits.
- A verification session is one per bill service instead of one per meter, and
  its check is one step with the key lookup: nothing after it reads the session.
- Manual refunds of fundings, transfers and bonuses are not modelled, only those
  of purchases.

## 6. Plan

1. (done) `WalletLedger`, `WalletService`, `LedgerContract`, their proofs.
2. (done) `VtuPurchase` with manual refunds and price changes, the VTU adapters,
   `OrderContract`; `PaymentsService` with rewards and the gateway adapters.
3. (done) `AuthService` and its proofs. Left of it: transaction PINs as a secret
   the transfers are given.
4. (done) `SupportService` and its proofs.
5. (done) Proofs of `VtuPurchase` and `PaymentsService`.
6. (done) `FundingContract`. Who waits for whom, and which deadlocks there are. What
   each flaw of section 3 takes that two handlers bring about: double credits, payouts,
   compensations and exchanges, broken trails.
7. The whole ledger: transfers, purchases and fulfilments on one wallet. The lemmas
   about trails in `WalletLedgerProofs` are written for any writer of wallets.
8. `verifyTransactionPin` and sessions after `changePassword`: which live sessions can
   be left of those stored before it.

**Not modelled.** Transaction history, dashboards and lists only read. A system
setting is one upsert no code of the backend reads. Guards, filters,
interceptors, configuration and health keep no state. The web console and the app
are clients of the REST API: their requests are the handlers of the models. PIN
and profile writes are single rows that no other handler decides on, but for the PIN
a money path compares, which is right or wrong in the models.

## 7. Running

    tlc -workers 2 -config Transfers.cfg MCWalletService.tla
    tlapm WalletServiceProofs.tla

`PROJECT.json` lists each run with its module and configuration, the theorems,
the hazards the properties are aimed at, and a mutant of the code for each
property.
