# A formal model of FinCo-Pilot

FinCo-Pilot is a personal and business finance application: a FastAPI,
SQLAlchemy and Celery backend (`src/backend/app`), an MCP server
(`src/backend/mcp_server`), a React frontend and deployment material. This
directory holds TLA+ modules translated from the backend's source, TLC
configurations that check them on small instances, and TLAPS proofs for every
value of the constants.

What is modelled is where several actors meet: where the code takes money or
destroys data, where reports of a provider or a bank arrive late, twice or under
another name, where two people answer one question, and where a process dies
between two commits:

* payments: founder checkout, activation of a plan, renewals, cancellation and
  refunds;
* accounts: their deletion, and what the rest may assume of it;
* books of a workspace: bank synchronisation and its merge, recurring bills,
  invoices with the payments that settle them, actions of external agents.

Contents: 1 inventory, 2 modules and how they correspond to the code, 3 runs
and bounds, 4 fairness, 5 proofs, 6 where the code and its documents disagree,
7 observations, 8 what is not modelled, 9 plan.

## 1. Inventory

All paths are under `src/backend/app` unless said otherwise. The database is
PostgreSQL under READ COMMITTED; `SELECT ... FOR UPDATE` and unique constraints
are what requests synchronise on. Celery runs with two processes
(`src/docker-compose.yml`), acknowledges tasks late, and beats without a lock
against overlapping runs (`worker.py`).

| Component | State | Operations | Interacts with | Hard because |
|---|---|---|---|---|
| Founder checkout: `billing/offer_service.py`, `billing/checkout_orders.py`, `billing/offers.py`, `api/checkout.py`, `models/pricing_offer.py` | campaign row, checkout reservations, founding members | quote, allocate a slot, dispatch one provider order, cancel, verify, edit the campaign | payment provider, activation, deletion | two reads of the slots in use; POSTs that time out and execute later; expiry racing payment; clock read before a lock |
| Webhook inbox and activation: `billing/webhook_inbox.py`, `billing/activation.py`, `api/payment_webhooks.py`, `tasks/payment_tasks.py` | receipts, activations, subscriptions | store a receipt, scan, fetch, grant, back off, quarantine | provider, checkout, deletion, administration | duplicate and reordered deliveries; overlapping scans; evidence fetched before the lock; crash between two transactions |
| Personal account deletion: `services/account_deletion_service.py`, `api/account_deletion.py`, `core/account_deletion.py`, `models/account_deletion.py` | deletion requests, holds, lease, manifest, stored objects | request, cancel, review, attest, execute, clean up, prove backups expired | every table, storage, operators | leases that run out; a purge followed by cleanup that may fail with an unknown outcome; reviews that go stale |
| Renewals: `billing/renewal_mandates.py`, `billing/renewal_cycles.py`, `billing/payment_recovery.py` | mandates, cycles, recoveries, subscription term | enrol, charge, fail, grace, recover | provider, cancellation, refunds | a single POST whose reply may be lost; cycles out of order; evidence that is stale when it is used; grace deadlines |
| Cancellation and refunds: `billing/cancellation.py`, `billing/refunds.py` | cancellation claims, refund intents and observations | dispatch once, reconcile | provider, renewals, deletion | 'sending' is committed before the POST and never re-sent; refunds issued at the provider's own dashboard |
| Entitlements and quotas: `billing/service.py`, `billing/guards.py`, `billing/usage.py`, `billing/catalog.py` | subscription, usage counters | effective plan, enforce, consume | every create endpoint | counters at their limit under concurrent creates |
| Bank synchronisation: `services/connection_service.py`, `tasks/sync_tasks.py`, `api/connections.py`, `providers/` | connections, Redis lock, job status, transactions | schedule, lock, renew, sync, merge | bank APIs, transactions, recurring bills, rules | a lock with a time to live whose loss does not stop the sync; one operation reported under two ids beside a second one that looks the same |
| Recurring transactions: `services/recurring_transaction_service.py`, `services/recurring_match_service.py`, `tasks/recurring_tasks.py` | schedules and generated rows | generate, match, advance | dashboard, bank sync | the charge and its announcement may come in either order; generation from two places without a row lock |
| Invoices and reconciliation: `services/invoice_service.py`, `services/reconciliation_*.py`, `api/invoices.py`, `api/reconciliation.py` | invoices, numbers, allocations, suggestions | draft, issue, void, allocate, match either way, ask, answer, expire | transactions, bank sync | a question answered by two users; a counter read before its lock; rounding of shares |
| Workspace deletion: `services/workspace_deletion_service.py`, `api/workspace_deletion.py` | as account deletion | as account deletion | account deletion, storage | as account deletion |
| Ledger, budgets, goals, assets, loans, groups and settlements, imports, reports, dashboard: the rest of `services/` | one set of rows per feature | create, edit, delete, report | each other | mostly one request, one transaction |
| Agents and MCP: `agents/`, `services/mcp_*`, `src/backend/mcp_server` | conversations, approvals, tokens, usage | chat loop, tool calls, approve, execute | LLM providers, every service | an approval used twice; a tool that commits and then fails |
| Identity: `core/auth.py`, `api/*auth*.py`, `api/two_factor.py`, `api/passkeys.py`, `services/admin*` | users, epochs, factors | sign in, rotate, administer | everything | one-time codes, first-administrator race |
| Currency, price and asset jobs: `tasks/fx_*`, `tasks/asset_tasks.py`, `providers/market_price.py` | caches of quotations | refresh | external quotations | idempotent upserts |
| Disaster recovery: `services/disaster_recovery.py`, `services/backup_service.py` | manifests outside the database | back up, restore, verify | operators, storage | run alone, on a stopped system |
| Frontend, landing page, charts, ops, scripts | - | - | backend API | - |

What makes the modelled components correct:

* Checkout: a slot is promised once; a customer gets one order per quote and
  one introductory price; whatever may charge the customer is backed by the
  quote it was made for; a captured payment can always be recorded; the public
  page hides no free slot and overstates by no more than what is sold while it
  is counting.
* Activation: one grant per user; a receipt is "processed" only if its own
  payment was granted; a settled receipt stays settled; nobody whose account is
  disabled or being deleted is given a plan, also when that happens between the
  check of the account and the grant; a captured payment buys its plan.
* Deletion: nothing is destroyed before the purge; what is purged is what was
  reviewed; a legal hold excludes a purge; "primary data deleted" means that
  every object is gone; an interrupted cleanup finishes.
* Renewals and reversals: paid terms adjoin, never overlap and are never cut
  short; the plan is had in the terms paid for and kept, and in the grace of a
  debt that exists; one agreement at most may charge; creating, cancelling and
  refunding are each sent once; a stop is final; what became of returned money is
  on record before anything is closed.
* Bank feed: no posted operation is lost, none is booked twice, and an
  occurrence of a bill is not both announced and charged; one worker imports a
  connection unless it lost its heartbeat.
* Invoices: a question that was answered is not asked again, and one that is
  shown as declined settled nothing.
* Agents: an approved action changes the books at most once, a rejected one
  never.

`PROJECT.json` lists the hazards of this code line by line, with the property
that would catch each one going wrong, or the reason there is none yet.

## 2. Modules

```
Campaign <- Checkout <- FounderStatus        AccountFence <- Activation <- MCActivation
              |           +- MCCheckout             ^            |
              |  refines FounderSlots               | refines    +- ActivationProofs
              +- CheckoutProofs              AccountDeletion <- MCAccountDeletion
                   +- CheckoutSafety                +- DeletionProofs
                     (with FounderStatus)

Renewal <- Reversal <- MCReversal            BankFeed  SyncJob  Invoices  Approvals
              |  refines PrepaidPlan              ^       ^        ^  ^       ^
              +- ReversalProofs                   +-------+-- Workspace ------+
                   +- RefundProofs                             | MCInvoices
                                             Workspace <- MCWorkspace
                                             BankFeed  <- FeedProofs <- WorkspaceProofs
                                             BankFeed  <- MCBankFeed
```

An operator named "Fault: ..." in its comment is a plausible bug, kept beside
the operator it distorts; no specification uses it. TLC is run with it in that
operator's place, to confirm that the property it should break can be broken.

### Campaign

The row of `pricing_campaigns` (state, window, launch, version) and the clock.
`UpdateCampaign` is `update_campaign`: optimistic version, transition table,
date checks; rejected edits roll back and are no step. `IsLive` is
`campaign_is_live`. Instants are small integers.

### Checkout

`rows` is `checkout_reservations`, `members` is `founding_members`. A handler
is one request with a program counter; a step is one transaction or one
provider call:

| Step | Code |
|---|---|
| `CreateOrder` | `create_order`: read the clock and the user, go on to the quote |
| `Reserve` | `reserve_checkout_offer` up to the first read of the slots in use: expire, prior purchase, reuse an active quote, price; takes the user's and the campaign's row locks |
| `AllocateFounder` | the second read, lowest free slot, INSERT under the unique constraints, commit |
| `ClaimDispatch`, `SendPost`, `PostReply`, `LookUp`, `CallFails`, `RecordUncertain`, `AttachOrder` | `ensure_provider_order`: compare-and-set to `creating`, one POST or a look-up by receipt, `uncertain` on any failure, attach under the row lock |
| `CancelReservation` | `cancel_checkout_reservation` |
| `VerifyPayment`, `FetchEvidence`, `SettlePayment` | `verify_payment` and the webhook worker: fetch the evidence without a lock, then `mark_reservation_verified` under it |
| `Crash` | the process dies; its transaction rolls back, its POST stays in flight |
| `ExecutePost`, `AttemptPayment`, `CapturePayment` | the provider, modelled from how the code uses it: a POST executes at any time after it was sent |

The two reads of `_founder_positions_in_use` are two steps because READ
COMMITTED gives each statement its own snapshot. The row lock that `Reserve`
keeps until `AllocateFounder` is the guard `LockFree` on the campaign and
`RowFree` on rows. Amounts, signatures and identifiers are abstracted to the
offer of a quote; `validate_order` becomes a comparison of offers.

`FounderSlots` is the promise of checkout about each numbered slot: free, held,
ordered, sold; held may lapse, ordered may only be sold. `SlotPromise` says
that Checkout implements it under the refinement mapping `slot`.

### FounderStatus

The public page beside checkout (`campaign_status`, `GET /founder-campaign`).
`page` is one request: the instant it took as now, and the counts it has so far.
`OpenPage` begins it, each `CountNext` is one of the four statements of
`_wave_counts` (members, then held quotes, of wave 1 and then of wave 2),
`Reply` answers from the counts. Nothing is locked, so any step of checkout may
come between two statements. A slot that is verified between the two counts of
its wave is in neither, and the page shows it as left (`CountersHonest` says by
how much). What the page says of the campaign row (dates, state, price of the
current wave) is left out.

### Activation

`inbox`, `received` and `rest` are the columns of `payment_webhook_events`;
`grants` is `payment_activations`, `plan` the paid plan of `subscriptions`,
`verified` the effect of `mark_reservation_verified`. A worker is one run of
`reconcile_payments`. `ReadReceipt` and `FetchCapture`/`FetchFails` are the first
transaction of `process_receipt` and the fetch. The second transaction is two
steps: `LockUser` takes the user's row FOR UPDATE and looks at the account and its
deletion, `Apply` does the rest and commits, deciding in the code's order:
receipt, evidence, existing grant, earlier purchase. `Apply` does not look at the
account again, as the code does not: that the answer of `LockUser` still holds is
due to the row lock, which is the guard `UserFree` of whatever else writes the
account (an administrator's edit, a deletion request with its foreign key, the
purge). Withdrawing a deletion does not touch that row and may come in between.
`Dispose` is `disposition`, `TransactionFails` the `except` of `scan_receipts`,
`CrashWorker` the loss of the process.

Abstractions. A backed-off receipt rests for `Rest` scans; the code doubles 30
seconds up to an hour. `payment` is what the provider would answer, and
`validate_capture` is the comparison with `captured`. `Buyer` is fixed: an order
attached late is one whose receipts are retried, like those of a foreign order.
Only `payment.captured` and `order.paid` are modelled; other events are handed
to other processors. A changed provider key and switching billing off are not
modelled.

### AccountFence and AccountDeletion

`AccountFence` is what the rest of the system may assume of an account:
enabled or not, deletion requested, withdrawn or final. Activation is composed
with it: its steps are free to happen between any two steps of a worker.
`AccountDeletion` is the workflow behind it and implements it
(`FencesAccount`): what Activation assumes of an account is what the deletion
code guarantees.

`jobs` is `account_deletions`; `version` stands for everything the inventory's
fingerprint covers, so `Write` moves it on and a review remembers it. An
executor is one `POST .../execute`:

| Step | Code |
|---|---|
| `RequestDeletion`, `Cancel` | `request_deletion`, `cancel` |
| `Review`, `RecordReceipt`, `CompleteBackups` | the functions of those names |
| `AddHold`, `ReleaseHold`, `SetEnabled` | the operators' endpoints, `update_user` |
| `TakeLease` | `execute_deletion` up to its first commit |
| `PurgePrimary`, `PurgeFails`, `GiveBack`, `Resume`, `NothingToResume` | what it does when it has locked the request again |
| `CleanObject`, `CleanFails` | one turn of the loop of `cleanup_objects`: delete, checkpoint, renew the lease. A failure leaves the object deleted or not |
| `LoseLease`, `RecordFailure`, `Finish` | what follows the loop |

Abstractions. Deadlines are flags: a lease or review may lapse at any time,
which covers every duration. `lock_inventory` locks every table, so a step that
calls it is atomic. Holds are the only blocker told apart; others appear as a
version that was not reviewed, and a purge may always fail. That the user is
active is read before the row is locked, so no step may rely on it. The
cutoff of a backup proof is reduced to the proof being recorded.

### Renewal

One customer's subscription row (`sub`), `renewal_mandates` (`mandate`),
`renewal_cycles` (`cycles`), `payment_recoveries` (`recovery`), the receipts of
`payment_webhook_events` (`inbox`), and the provider: its subscriptions, the
POSTs on their way (`post`). Every handler reads the provider outside a
transaction, then takes the user's row and decides on that snapshot, so each is
two steps with anything in between:

| Step | Code |
|---|---|
| `EnrolNew`, `EnrolAgain`, `ClaimDispatch`, `FetchEnrolment`, `EnrolmentUncertain`, `Attach` | `create_mandate` of `renewal_mandates.py`: the row, the compare-and-set to `creating`, the POST or the look-up, the binding |
| `FetchCharge`, `ApplyCharge` | `renewal_cycles.py`: evidence, then the decision `ChargeOutcome`, in the code's order of checks |
| `RejectFailure`, `FetchFailure`, `ApplyFailure` | `payment_recovery.py`: grace or past due |
| `Dies` | the process or the request dies between two of its steps |
| `ExecuteCreate`, `Expires`, `ChargeSucceeds`, `ChargeFails` | the provider, external |

`Entitled` is `effective_plan` of `billing/service.py`. Time is counted in ticks,
a cycle takes `CycleLen` of them; a charge may come a tick before its period.

### Reversal

EXTENDS `Renewal` and composes it with `cancellation.py` and `refunds.py`: every
step of renewal goes on beside a cancellation or a refund. `claim` is
`payment_cancellations`, `intent` `payment_refunds`, `observed`
`refund_observations`. `CancelRequested`, `CancelDecided`, `CancelReplied`,
`CancelRecorded` are the transactions and calls of one cancel request,
`RefundRead`, `RefundDispatched`, `RefundReplied`, `RefundRecorded` those of one
refund request; `FetchStopReceipt`/`ApplyStopReceipt` and
`FetchRefundReceipt`/`ApplyRefundReceipt` are the receipts. The provider may
stop a subscription or return money on its own (`ProviderStops`,
`ProviderRefunds`), and a refund settles either way (`RefundSettles`).

`PrepaidPlan` is the promise about the plan itself: a set of paid terms, where the
plan ends, whether the term it stands on was returned, and the day. A term is
added where the last one ended or later and not before its time; none is moved,
shortened or taken back; a revoked plan comes back only with a new term.
`PaidTerms` says that Reversal implements it, the terms being the first grant and
the periods of `renewal_cycles` (`termsPaid`): enrolling again, failed charges,
grace, a cancellation and a refund all leave those books alone.

### Workspace

The books of a workspace: `BankFeed`, `SyncJob`, `Invoices` and `Approvals` side by
side. A step of the workspace is a step of one of them that leaves the others as
they were, in any order. `TypeOK` is the conjunction of their types.

### BankFeed

The ledger of one account. `feed` is what the bank reports, `rows` the
transactions, `nextOcc` the pointer of a recurring bill. `Merged` folds one
report into the ledger in the order of `sync_connection`: same id, typed twin,
synced twin in another state, placeholder of a bill, a new row that may fulfil
the bill. `Generated` is one occurrence of `generate_pending`. A sync or a
generation reads everything it needs in one step (`SyncReads`, `GenerateReads`)
and writes it in another (`Commits`), with the SQL meaning of an ORM flush:
changed columns are written, other columns keep what others committed meanwhile,
and the update of a row that is gone fails the whole transaction.

Folds over reports and sums of shares are written with the folds of the community
modules, which read their result from the table of a recursive function, so that
they can be reasoned about.

What two matchers cannot tell apart (amount, direction, day, description) is the
`Window` of an operation. `hand` is a history variable: the days on which the
user typed or hid something.

### SyncJob

`status` and `age` are columns of `bank_connections`, `lock` the Redis key,
`beating` the heartbeat threads. A click is three steps (`ClickChecks`,
`ClickQueues`, `ClickSends`), since the endpoint reads the row, writes it and
sends the task without a lock; `BeatQueues` is `sync_all_connections`; a worker
takes the key, starts, refreshes, syncs, reports and releases. The heartbeat may
stop, a worker may die anywhere, the key may expire as soon as no heartbeat
renews it.

### Invoices

`inv` and `nextNumber` are the documents and the counter, `allocs`
`invoice_allocations`, `asked` `reconciliation_suggestions`, `req` what an open
request read and is about to write. An endpoint is a step that reads and decides
(`Creates`, `Issues`, `Voids`, `Allocates`, `Arrives`, `Accepts`, ...) and the
step `Writes`, which checks the database's constraints (`Fails`, `Clashes`) and
waits for rows that another request holds (`Waits`). `Decisions` is the engine:
which pairs look alike is the user's policy, hence any answer; what a payment
settles of them is `ShareOut`, computed with the code's rounding.

### Approvals

`mcp_approvals` with the request that approves or rejects it (`press`). The claim
`executing` is committed before `CallsTool`; a tool may change the books, raise,
or do both; `effects` counts the changes.

## 3. Runs

| Run | What it asks | Bounds |
|---|---|---|
| `MCCheckout` | `SlotsExclusive`, `MembersPaid`, `SingleDispatch`, `OrdersBacked`, `OneIntroduction`, `CapturesSettle`, `CountersHonest`, and that every behaviour is one of `FounderSlots` (`SlotPromise`) | 2 users, 2 handlers, 2 plans, 2 quotes, 3 provider orders, one slot per wave, TTL and settle time 1, clock 0..2, 2 campaign versions; three scenes |
| `MCActivation` | `OneGrant`, `ProcessedGranted`, `TerminalReceipts`, `GrantsOnlyEntitled` | 1 user, 2 payments, 3 receipts (two of one payment), 2 overlapping scans, batch 2, rest 1 |
| `MCActivationLive` | `ReceiptsSettle`, `CaptureGranted` under `FairSpec` | 1 worker, batch 1: one foreign receipt that is retried for ever and one local one |
| `MCAccountDeletion` | the six invariants of deletion and `FencesAccount` | 2 requests, 2 executors, 2 objects, one requirement before and one after the purge, 4 inventory versions |
| `MCDeletionLive` | `CleanupFinishes` under `FairSpec` | 1 request, 2 executors, 2 objects, 1 version |
| `MCReversal` | `AccessAsPaid`, `SentOnce`, `StopIsFinal`, `DebtIsHonest`, `RefundsOnRecord`, `GraceFixed`, and that every behaviour is one of `PrepaidPlan` (in `PaidTerms`) | 2 mandates of 2 cycles of 2 ticks, clock 0..4, grace 0 or 1, 2 refunds of a price of 2, 2 handlers; four scenes |
| `MCWorkspace` | `CountedOnce`, `OccurrenceOnce`, `NothingLost`, `SyncsApart`, `QueueAgrees`, `NeverReasked`, `ApprovedOnce` | five scenes, below |
| `MCLeasedPurge`, `MCPaidCyclesCount`, `MCInvoiceNumbers`, `MCSharesFit`, `MCBillTwice` | statements of documents and comments that the code does not keep (section 6) | as their positive counterparts; `MCInvoiceNumbers` and `MCSharesFit` have three invoices and one payment; `MCBillTwice` one operation, one occurrence, two row ids, and two writers of which one syncs and one generates |

`TypeOK` (`RefundTypeOK`) is checked in the same runs.

Why these bounds are enough to be interesting: two handlers are the least for
every race in checkout (allocate against verify, dispatch against look-up,
quote against cancel); three provider orders for two quotes leave one spare, so
that a second order for a quote would show; one slot per wave makes the second
customer meet the boundary of wave 1 and a full campaign; one tick is enough to
expire a quote, two to expire it after the settle time. `MCCheckout` has three
scenes, each behaviour staying in the one it starts in: "slots" (two customers, one
plan, clock 0..1), "orders" (one customer, two plans, clock 0..2) and "page" (two
customers, one plan, clock 0..1, one request at a time besides the page). The page
needs no second request: what shifts its counts is a single verification,
cancellation or quote, and further requests only repeat these. In activation two
receipts of one payment and one of a second are the least for "duplicate" and
"second purchase" together, and batch 2 leaves one receipt to the next scan. In
deletion a second request exists only after the first was withdrawn; the second
executor is the one that takes a lease over; the fourth version lets a hold be
added, released and reviewed again.

`MCReversal`. Two mandates are the least for "enrol again after the first
expired or completed", two cycles for "a later receipt before an earlier one",
two ticks per cycle for an instant inside a term that is neither end, grace 0
and 1 for a deadline that passed and one that did not, price 2 and two refunds
for partial and full returns. The full product is beyond TLC, so that each
behaviour stays in one scene that `InScene` names: "mandates" (two mandates, the
whole clock, one handler at a time, no refunds), "workers" (two handlers that
interleave on one mandate), "refunds" (two refunds, partial and full, of the
first purchase), "terms" (one mandate with paid cycles whose payments are
returned in full). What no scene covers: two mandates with two handlers, refunds
together with failed charges, partial refunds of cycles.

`MCWorkspace`. The four components share no variable, so a product of their
states would show nothing that each alone does not; one run plays them in turn.
"twins": two operations that look alike, posted or pending, under one id or
another, beside typed rows, no bill, no row hidden. "bill": one operation, one
occurrence, at most two rows, hiding and unlinking allowed. Three row ids allow
two bank rows and a typed one or a placeholder. "jobs": two workers, one tab, one
job of each sort in the queue. "answers": two invoices of 5 and a payment of 8,
so that one is covered and two are covered in part; one request does anything,
the other answers questions. "agents": two actions, two presses, one action an
hour.

`BankFeed` has one writer in the run: two overlapping syncs are what `SyncsApart`
excludes while heartbeats live. A generation takes part in no such exclusion, and
beside a sync it does break `OccurrenceOnce`: that is the run `MCBillTwice`, where
everything is as in `MCWorkspace` but for the second writer. What `MCWorkspace`
shows of `OccurrenceOnce` is therefore about order (charge first, placeholder
first, edits of the user in between) and not about two writers at once.

Symmetry is used only in runs without liveness. Deadlock is not checked where
the system may come to rest: a completed deletion, the end of the clock of
`MCReversal` with every receipt settled, a workspace whose row ids are used up.

## 4. Fairness

`Activation!FairSpec`: the provider redelivers until it is answered (weak
fairness of `Deliver`; the endpoint answers 200 only after the commit), beat
starts scans for ever (weak fairness of `Scan`). Reading, fetching, locking the
user, applying and disposing are strongly fair per worker and receipt: each may fail any
number of times (provider down, lock timeout, crash), but one that is attempted
again and again succeeds once. Nothing is assumed of people, of refunds or of
the account.

`AccountDeletion!FairSpec`: nothing is assumed before the purge; a request may
stay unreviewed for ever. After it, operators execute again and attest when
the request waits for it, leases run out, an executor that is running goes on,
and deleting an object, resuming and finishing succeed once if they can be
attempted again and again.

## 5. Proofs

Every module of proofs extends the modules it is about, and nothing is assumed
but the named `ASSUME`s on constants, which TLC evaluates in the runs: the sets
may have any size, the clock and the versions any bound, waves any capacity. They
say that bounds are naturals, that a null is none of the values it stands beside
(`None \notin Users`, `Nobody \notin Workers`), that there are finitely many
operations, row ids, invoices and payments, that refund ids are not cycles (both
are what a handler may be about) and that grace is shorter than a cycle (72 hours
at most, against a month).

**Checkout.** `CheckoutProofs` proves the inductive invariant: `TypeOK`, plus what
a handler in each program counter may rely on (a handler at `post` owns the only
claim; one at `attach` holds an order of its own quote), what the lock of a
user's quote guarantees, and which rows may have an order. `TypeCorrect`,
`MembersHavePaid`, `OrdersAreBacked`, `IntroductionOnce` and `NoStrandedCapture`
follow. `CheckoutSafety` adds `SlotsStayExclusive` (the unique constraint modelled
in `InsertQuote`, and that verification moves a slot rather than copying it),
`CountersAreReal` and `DispatchedOnce`, whose argument is that the claim, the POST in flight and the
order it becomes are one token. It ends with `CheckoutKeepsPromise`: every step of
checkout maps to a step of `FounderSlots` or to a stutter.

`CountersAreReal` is about `PageSpec`, checkout with the page beside it, and what
commits between two counts. Members and holds of a wave have each a slot of it to
themselves, so that counting people and counting slots is the same within one
state (`FreeIsLeft`); membership is never taken away (`MembersStay`), so that the
first count of a wave is at most the members at the second (`PageSound`); the
difference is what was sold in between, and the remainder is off by exactly that
(`CountIsHonest`).

**Activation.** The invariant adds that a settled receipt's payment was granted
and that a plan in force has its grant; `GrantedOnce`, `NoChargeDropped`,
`ReceiptsStaySettled`. `NoResurrection` rests on an invariant of its own,
`Fenced`: the customer of a worker between its check and its commit is enabled and
under no deletion. No guard of the grant says so; it is kept by every step of
people and of the deletion (`PeopleKeepFence`: whoever takes an account out of use
needs the row that the worker holds, and the one step that does not, a
withdrawal, harms nothing) and by every step of any other worker
(`WorkKeepsFence`).

**Deletion.** `OneLive` (no two live requests), `ManifestCovers` (every object
still stored is on the list of the request that will delete it) and `LeaseHeld`
(who is past the purge worked under a lease) strengthen the six invariants; the
module ends with `DeletionFences`, the refinement of `AccountFence`.

**Renewals, cancellation and refunds.** `ReversalProofs` begins with the types of
what handlers carry (`TypeIInv`): evidence is read in one step and used in another,
so that every later argument is about a snapshot. Each further part is
inductive together with those before it:

| Part | Says | Needed for |
|---|---|---|
| `TermIInv` | one mandate at most is active and it starts where the paid terms end; the cycles of a mandate are paid without holes; `sub.end` is the end of the last paid cycle | `TermsFollow`, `PlanAsPaid` |
| `SentIInv` | nothing is sent for a mandate before its claim, what a handler is about to attach exists at the provider, the provider's count of charges is at least ours | `SentForOnce`, and all that follows |
| `OnceIInv` | of a payment's request on its way and its refunds with our receipt there is one at most, and before the claim none | `SentForOnce` |
| `StopIInv` | who carries the word "cancelled" had it from the provider; claims are made for the mandate of the plan alone | `StoppedStays` |
| `DebtIInv` | whoever is reduced has an open case for the next unpaid term; a charge that the provider could not collect has its receipt, also if it is only in a handler's snapshot | `DebtsAreHonest`, `GraceStays` |

`RefundProofs` is about what two readers of the provider's refunds may believe.
Its core is `InOrder`: any two views of one payment's refunds (the provider's,
the table's and each handler's) are stages of one history. From it,
`RecordIInv`: a view in which all the money is back misses no refund, and a
receipt that was set aside is older than some refund on record, so that whoever
sees that one sees what the receipt reports. That gives `RecordsAreTrue`.
`AccessIsAsPaid` takes everything together, with `ServedIInv` (no moment of the
plan lies outside the paid terms, and no deadline is further than the longest
grace), `Visited` (only payments on file are asked about) and `RevokesItsTerm`
itself: a snapshot written late cannot revoke a newer term nor give back a
revoked one.

`PlanAsPaid` is the refinement of `PrepaidPlan`. A step either makes the day pass
and nothing else (`ClockMoves`), or adds a term (`RenewalAdds`, which takes from
`TermIInv` that every term on record ended before the mandate that renews began,
or is one of its own cycles), or leaves the terms where they are (`TermKinds`) and
at most revokes (`NotedRevokes` is about when, `PlanStep` about nothing else).

**Bank feed.** `FeedProofs` is about any number of operations, look-alikes, rows,
occurrences and writers. Its invariant `FeedIInv` says of the ledger, and of what
every open transaction is about to write (`OpenSound`), that it is `Sound`:

| Part | Says |
|---|---|
| `RowSound` | a row of the bank carries an id of an operation of its own window, in the status the bank gave it; what is typed or hidden is remembered as such |
| `OwnIds` | no id is on two rows |
| `Attributed` | on a day without typing, the rows from the bank inject into the operations the bank has reported: there is an operation for each |
| `Alone` | an announced occurrence has no second row that announces or charges it |

and that what is open still fits what others did meanwhile (`Follows`: the user
hides, unlinks, types and deletes; a row the transaction knows has moved no
further). The argument: a report writes one row, and each branch of `Merged`
keeps the ledger sound (`MergeCases`, `MergedSound`); the fold over all reports is read from
a table that is followed down by well-founded induction (`MergedInSteps`,
`GeneratedInSteps`: the result lies in any set that each step stays in); a
commit writes what was computed over what is there, and the two are drawn
together by `Follows` (`DrawnSound`). For `NothingLost` the same induction carries which
operations already have a row: as long as there is room no row is written over
(`Keeps`), so that each posted operation keeps a row of its own until the fold
ends. Theorems: `BankCountedOnce`, `SyncLosesNothing`.

These two, which are about the bank's operations, have a hypothesis, `[]OneOpen`: no
two transactions that read rows of the account, to write them later, are open at
once. For syncs it is what `OneImportPerKey` gives while heartbeats live; it also
leaves out a generation that overlaps with a sync, which nothing in the code
prevents. About the bill no theorem is stated: overlapping writers are the case
that matters for it, and there `OccurrenceOnce` fails (section 6). The types
(`FeedTyped`) are proved without the hypothesis.

**Workspace.** `WorkspaceProofs` begins with three short arguments. `ExecutedOnce`: a
press is about one action and no other press is about it meanwhile, and the books
are untouched until the call a claim allows. `OneImportPerKey`: a beating worker
holds the key and is not idle. `DeclinedStaysOpen` and `AskedOnce`: an open answer
holds the row of its question, which is pending, and covers all the members of
that question (`SafeRequest`); every pair of a question about several documents
carries the same set (`Coherent`); a link that an answer made has its question on
record.

`InvTypes` says that every link is a positive amount of a payment that is on the
books, and that no question is about a negative one. The amounts come out of
`ShareOut`, so that the argument is about sums: a sum over a finite set does not
depend on the order of its elements (`SumParts`), and what holds of each summand
up to a factor holds of the sums (`SumCompare`). The shares of all but the last
promise are rounded down, so that together they are at most the payment, and the
last one gets what is left, which is not negative (`ShareTyped`). That it may be
more than its promise is owed is `SharesFit`, which the code does not keep (section
6). `WorkspaceTyped` puts the types of the four components together: a step of the
workspace is a step or a stutter of each of them.

Only model-checked:

* the liveness properties (`ReceiptsSettle`, `CaptureGranted`,
  `CleanupFinishes`), which need fairness and ENABLED, which the provers do not
  reach;
* `OccurrenceOnce`, which holds in `MCWorkspace` with one writer and fails in
  `MCBillTwice` with two;
* the other four statements that the code does not keep (section 6).

## 6. Where code and documents disagree

* `LeasedPurge`: the purge does not look at the lease. An executor that lost it
  can still purge; the review it acts on is re-checked under the lock
  (`PurgedAsReviewed`), and it then stops with 409, leaving cleanup to the
  owner.
* `PaidCyclesCount`: "exactly-once paid invoice reconciliation". A paid cycle
  whose receipt is read while the provider already retries the next charge finds
  its subscription `pending`, which `validate_invoice` does not accept, and is
  quarantined for good. The customer has paid a term that is never recorded;
  `PaidTerms` shows that at least no other term is confused with it.
* `NumberedOnce`: `_settings_for_update` locks the row of the counter, but the
  session already has an instance of it, read without a lock, and keeps its
  values. Two documents issued at once get one number; the unique constraint
  does not see it, as the series is NULL by default.
* `OccurrenceOnce`, with a sync and a generation that overlap: the sync "advances
  the bill past the fulfilled occurrence so generate_pending won't later duplicate
  it", and generation links a charge that is there "instead of writing a duplicate
  placeholder". Each holds of what is committed. `generate_pending` reads the due
  bills without a row lock, the button and the daily task take no key that a sync
  job holds, and nothing is unique about a bill and a day, so that both insert
  their row and both set `next_occurrence` to the same value. Two generations at
  once do the same.
* `SharesFit`: `_share_out` rounds every share down and gives the rest to the
  last promise, which may then be more than that promise is owed; `allocate`
  refuses it and the whole group is dropped.

## 7. Observations

Behaviour of the model, and of the code, that no document contradicts:

* Checkout. A quote whose dispatch was started keeps its slot after it expired;
  `OrdersBacked` and `CapturesSettle` show what that protects. A request is
  priced at the time it began to wait for the campaign row. The two reads of the
  slots in use can straddle a verification; the slot chosen is then taken and the
  INSERT fails on the unique constraint, so that the slot is safe and the
  request is not. The public page counts in the same manner and has no constraint
  to stop it: it shows a slot as left that was sold while it was counting.
* Refunds. Dispatch asks that collection was stopped, enrolment does not ask
  about refunds: an enrolment that starts while a refund is on its way ends with
  an agreement that charges after a term that was returned. `AccessAsPaid` holds
  all the same.
* Bank feed. A row typed by hand may absorb both the pending and the posted
  report of two different operations, so that `CountedOnce`, `NothingLost` and
  `OccurrenceOnce` are stated for days on which nothing was typed. The
  opening balance is reconciled before phantom rows are removed, so that the rows
  add up to the bank's balance only after the next sync.
* Invoices. `allocate` reads the balance without a lock, so that two requests may
  allocate more than is owed; two documents issued at once may each take the one
  free payment; a document may be voided while it is being settled, or issued
  while its draft is being deleted; a document issued twice at once gets
  a second number over its first.
* Questions. `expire_stale` takes no lock and may overwrite an acceptance; the
  allocation stays. A question about several invoices locks only the row that
  was named: answers that name different members may both win, which is why
  `QueueAgrees` speaks of questions about one invoice.
* Agents. An action whose process died stays `executing`, and nothing takes it
  up again. Asking for the same action twice makes two actions.

## 8. Not modelled

Within the modelled components: rotation of the provider key, switching
features off at run time, webhook signatures and encryption of snapshots,
deletion of a user who has open quotes, `/status` endpoints and other reads;
plans and prices of renewals (one plan, one price), currencies of refunds and
`refunds_overview`; credit-card bills and instalments, holdings, institutions,
currencies, the synthetic opening balance and reconnection in the merge; weekends
and calendar arithmetic of bills and their editing; lines, taxes, documents,
sharing links and credit notes of invoices, questions about recurring bills and
the editor of matching rules; what each MCP tool does.

Whole components, with `PROJECT.json` naming each: workspace deletion is the
state machine of `AccountDeletion` with another inventory; identity is
cryptographic checks and calls to identity providers around locked
transactions; caches of quotations are idempotent upserts; disaster recovery
runs alone on a stopped system; the frontend keeps no state that the backend
does not check again. Quotas are not modelled: `enforce_limit` holds the
subscription row until its caller commits, so that the question is which of some
forty callers commit once.

The map covers about 7 % of the implementation. Most of the remaining services
are reports, dashboards, imports, chat with LLM providers and editors of one
table: each request is one transaction over its own rows, its correctness is
arithmetic over decimals and dates or the wording of an answer, and there is no
order of steps a model checker could vary. To map those lines would mean to
transcribe them.

## 9. Plan

The parts of the system in which actors interleave have their modules, and every
safety property of the runs is proved but for `OccurrenceOnce`; those of the bank's
operations while no two transactions on an account overlap. What is left: `SyncJob`
and `BankFeed` joined, with a worker's import as the writer, so that
`OneImportPerKey` discharges `OneOpen` for syncs, and a proof that a generation,
which adds no row of the bank, may overlap without harm to the bank's operations.
