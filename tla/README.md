# CampusPass IQ bot: a TLA+ verification development

CampusPass is a Telegram bot with an HTTP API and a scheduler, all over one
PostgreSQL database. Students order subscriptions of providers ("platforms"), pay by
transfer (a reviewer confirms the receipt) or by card (a gateway calls back), and are
sent an account from the provider's stock. The modules here model how goods and money
move through orders, groups, bundles, warranties and invoices, and the machinery under
them: queues with leases, the scheduler's cycle, notices to many users, cached settings.

How to run: `tlc -workers 2 -config Commerce.cfg MCCommerce.tla` (each run's module and
configuration are in `PROJECT.json`), `tlapm Commerce_proofs.tla`.

## 1. Inventory

All state lives in database rows; a *transaction* is the unit of atomicity. Three
facts of `app/core/database.py` and `app/bot/middleware.py` shape everything:

* one transaction per Telegram update, committed when the handler returns. A handler
  that catches a `ValueError` and answers the student still commits what was done
  before the error;
* the session factory sets `autoflush=False`: a query does not see attribute changes
  of the same transaction that were not flushed;
* it sets `expire_on_commit=False`, and nothing uses `populate_existing`: a row that
  a session has loaded is not refreshed by a later `SELECT ... FOR UPDATE`. A lock
  taken after an unlocked load protects nothing that was read before. A column is
  written only if its value differs from the one that was loaded.

Events of one chat are isolated (`main.py:167`), so a student runs one handler at a
time; different students, reviewers, webhook calls, replicas and the scheduler
interleave.

| component | state | operations | what is hard, what makes it correct | modules |
|---|---|---|---|---|
| order workflow (`services/workflows.py`) | the table of status moves | `assert_transition`, `record_transition` | the check must be made against the status in the row | `Workflow` |
| order lifecycle and stock (`services/orders.py`, `bot/handlers/orders.py`) | order status, reservation, inventory item | create, choose method, cancel, extend, confirm, release, expire, acknowledge, complete | cancel, sweep and confirmation of one reservation race; no stock lost, none sold twice | `OrderFlow` |
| payments (`services/payments.py`, `api/server.py`) | receipts, payments, webhook events | submit, confirm, reject, gateway notice | duplicate, late and reordered notices, crash between payment and fulfilment; each receipt decided once | `OrderFlow`, `SaleContract` |
| delivery outbox (`services/fulfillment.py`, `notifications.py`) | delivery jobs with a lease, notification log | enqueue, claim, send, finalise, retry | three transactions per delivery; the account goes out once, after the money | `DeliveryOutbox`, `OrderFlow` |
| wallets and coupons (`services/wallets.py`, `order_coupons.py`) | balance, ledger entries by idempotency key, invoice and snapshot of the order | post, deduct fee, refund, overpayment, coupons | operations in any order; the ledger explains the balance, nobody under-pays | `WalletFees` |
| friends-only packages (`services/friend_packages.py`) | group, members, escrow | open, join, pay, complete, expire | concurrent joins and payments, expiry against completion; escrow exact, all or nobody | `FriendPackages` |
| warranties (`services/warranties.py`) | claims, replacements, their delivery jobs | open, new code, answer, replace, confirm, report | stale claims at several desks; a replacement belongs to one claim and arrives | `Warranty` |
| email codes (`services/email_codes.py`, OTP leases of `provider_operations.py`) | mailbox, reservations, used mails | reserve, poll, expire, new code | replicas reading one mailbox; one code per student, no mailbox held for ever | `EmailCodes` |
| hybrid bundles (`services/owner_commerce.py`) | purchase, holds, proofs, shares | buy, prove, approve, reject, expire | several proofs, late proofs; shares once, items back | `HybridBundles` |
| billing of platforms (`owner_commerce.py`, `enterprise.py`) | invoices, proofs, platform status, ledger | issue, enforce, prove, review, API payment | booked once, the debtor suspended, the payer restored | `ProviderBilling` |
| advertisements and announcements (`announcements.py`, `owner_commerce.py`) | notices, campaigns, a row per notice and user | publish, dispatch, visit, stop, end | overlapping transactions and deadlocks; everybody once | `Announcements` |
| scheduler (`tasks/scheduler.py`), scheduled runs (`operations.py`) | advisory lock, runs of the hour and the day | one cycle runs every periodic task | commits in mid-cycle release the lock; effects once | `SchedulerCycle` |
| Telegram update inbox (`telegram_updates.py`) | rows with status, attempts, lease | enqueue, claim, done, failed, purge | consumers die, leases lapse; every update settled | `UpdateInbox`, `AtLeastOnce` |
| AI question queue (`enterprise_scale.py`, `ai_support_worker.py`) | jobs with status, attempts, lease | enqueue, claim, finish, prune | `finish_job` asks for no owner; the student hears one thing | `AISupport` |
| runtime lease (`core/runtime_lock.py`) | one lease row | acquire, heartbeat, release | one poller at a time, an overlap ends | `RuntimeLease` |
| completion, points, settlements (`finance.py`, `users.py`, `settlements.py`, `admin/finance.py`) | revenue, points, settlements | complete, ask, upload, review, ban | stale points and sums at several desks | `Collections` |
| plans of platforms (`subscriptions.py`) | plan, coupon uses | pause, extend, grant, redeem, refresh | every read saves what it computed | `ProviderPlans` |
| subscriptions of students (`student_subscriptions.py`) | status, dates, reminder flags | approve, deliver, activate, object, sync | the hourly job against a new delivery | `StudentPlans` |
| cached settings (`features.py`, `cache_coherence.py`, `menus.py`) | flag, generation, each process's copies | read, toggle | coroutines between read and cache | `ConfigCache` |
| resource seats (`resources.py`) | seats | – | the service is built and never called | – |
| screens, catalog, pricing, reports, backups, key rotation, authorization, evidence | their rows | mostly one row per operation | see section 8 | – |

`PROJECT.json` lists the parts with their files and the hazards line by line.

## 2. Modules

| module | models | extends |
|---|---|---|
| `Workflow` | the order statuses and the relation of allowed moves | – |
| `SaleContract` | abstract: one sale receives money, then hands over goods, each once | – |
| `OrderFlow` | orders, stock, receipts, card notices, delivery; composes student, reviewer, gateway, webhook endpoint, scheduler and courier | `Workflow`; instantiates `SaleContract` |
| `WalletFees` | the money of one student's orders | `FiniteSetsExt` |
| `FriendPackages` | one friends-only group with its members' orders | `Workflow`, `FiniteSetsExt` |
| `Owners` | the owner column of a row that nobody holds | – |
| `AtLeastOnce` | abstract: what is accepted is answered at least once or given up | – |
| `UpdateInbox` | the inbox and its consumers | `Owners`; instantiates `AtLeastOnce` |
| `AISupport` | the queue of questions and its workers | – |
| `DeliveryOutbox` | one delivery job and several couriers | `Owners` |
| `RuntimeLease` | the polling lease | `Owners` |
| `SchedulerCycle` | the cycles of several replicas | `Owners` |
| `Announcements` | notices, campaigns and the transactions that send them | `Owners` |
| `Warranty` | the claims of one subscription | `Owners` |
| `EmailCodes` | one mailbox, its reservations and readers | `Owners` |
| `HybridBundles` | purchases of one bundle | `Owners` |
| `ProviderBilling` | what one platform owes | `Owners` |
| `Collections` | completion of orders and collection of their revenue | `Functions`, `Owners` |
| `ProviderPlans` | plans and a coupon | `Owners` |
| `StudentPlans` | one student's subscription | – |
| `ConfigCache` | one flag in several processes | `Owners` |
| `MCOrderFlow` | symmetry sets for TLC | `OrderFlow` |
| `MCReplicas` | what replicas share, composed | `UpdateInbox`, `AISupport`, `DeliveryOutbox`, `RuntimeLease`, `SchedulerCycle`, `Announcements` |
| `MCCommerce` | the sales beside the plain order, composed | `FriendPackages`, `Warranty`, `EmailCodes`, `HybridBundles`, `ProviderBilling` |
| `MCBackOffice` | books and settings, composed | `WalletFees`, `Collections`, `ProviderPlans`, `StudentPlans`, `ConfigCache` |
| `SumTheorems` | lemmas about the community modules' `SumFunctionOnSet` | `Functions`, `FiniteSetTheorems` |
| `OrderFlow_proofs`, `WalletFees_proofs`, `FriendPackages_proofs`, `UpdateInbox_proofs` | theorems about the module | the module; the two about money also `SumTheorems` |
| `Commerce_proofs` | theorems about `HybridBundles`, `ProviderBilling`, `Warranty`, `EmailCodes` and the composition | `MCCommerce`, `FriendPackages_proofs` |
| `Replicas_proofs` | theorems about `DeliveryOutbox`, `RuntimeLease`, `AISupport`, `SchedulerCycle`, `Announcements` and the composition | `MCReplicas`, `UpdateInbox_proofs` |
| `BackOffice_proofs` | theorems about `ConfigCache`, `StudentPlans`, `ProviderPlans`, `Collections` and the composition | `MCBackOffice`, `WalletFees_proofs` |

The parts of `MCReplicas`, `MCCommerce` and `MCBackOffice` meet in no row of the
database: a variable `part` says which of them moves in a behaviour. A step of one part
leaves the variables of the others alone, so that every behaviour of the free
composition, seen from one part, is one of those behaviours with stuttering; the
product of their state spaces would show nothing more. Where parts do meet, they are in
one module: the order, its stock, its payment and its courier in `OrderFlow`; a claim,
its replacement and the delivery of it in `Warranty`; mailbox, reservation, order and
OTP lease in `EmailCodes`; the group, its members' orders, the other shoppers and the
delivery in `FriendPackages`.

Conventions. An action is one database transaction, or the part of one between two
points at which another transaction can take effect: a handler that decides on rows it
loaded without a lock is a load (`Open...`, `Load...`) and a write. A variable that
records what a handler has loaded is the copy in its session. `Nobody` stands in an
owner column for NULL. Ghost variables, which no action of the code reads, say only
that two handlers crossed (`raced`, `crossed`, `overtaken`, `coupon_raced`, `cut`,
`overrun`, `unproved`) or count the faults (`..._faults`, `crashes`, `refusals`,
`stalls`, `lost_replies`, `timeouts`, `lost`); a property names the crossing or the fault
under which the code does not keep it, so that the property says exactly when it does.

### OrderFlow

State: `status` (order), `reservation`, `item`, `lapsed` (reservation row and whether
its time is over), `inventory`, `reserved_order` (item row), `proof`, `proofs`,
`manual` (latest receipt, number of receipts, payments made from receipts), `card`,
`event`, `webhook` (gateway payment, webhook event, calls between payment and
fulfilment), `job`, `delivered_msg`, `acknowledged` (delivery), and the open
transactions `desk` (the student's handler) with `copy`, `late` (a confirmation that
came too late), `sweep` and `courier`. `copy`, `late` and the sweep's record hold the
status of the inventory item that the transaction has read.

| action | code |
|---|---|
| `Create` | `OrderService.create`, `_reserve_inventory` |
| `OpenCancel`, `ReadStock`, `Cancel` | `cancel_order`: load the order and check it, read reservation and item, then flush and commit |
| `OpenProof`, `SubmitProof` | `proof_reference` loads, `submit_proof` decides on it |
| `Acknowledge`, `Complete`, `AskSupport` | `acknowledge_delivery`, `complete_order`, `order_problem_reason` |
| `ConfirmProof`, `RejectProof` | `review_confirm_final` (`confirm` and `fulfill`), `reject` |
| `ConfirmTooLate`, `RefuseLate` | the same handler when the hold is over: `confirm_reservation` reads the item and raises, the handler catches the error, answers and commits |
| `CardSuccess`, `CardDuplicate`, `CardFailure` | `process_gateway_notification` |
| `WebhookFulfill`, `WebhookCrash` | the second transaction of the payment webhook, or its loss |
| `Lapse` | the clock passes `expires_at` |
| `SweepLoad`, `SweepItem`, `SweepCommit` | `expire_reservations`: reservation and order, the item, the flush |
| `CourierClaim`, `CourierSend`, `CourierFinish`, `CourierRetry`, `CourierCrash` | `process_next_delivery`: its three transactions, its error path and its loss |

`Overlap` says whether other transactions may commit between a load and its commit: with
`FALSE` every transaction runs alone, which shows whether a failure needs a race at all.

Abstractions: offers are of inventory type, without a required student e-mail (that
path waits for the student and then fulfils the same way); students are one per order; a
receipt or a payment is its status; the pending branch of `CourierRetry` also stands
for an activation guide that the student has not acknowledged.

An inventory item is read without a lock (`orders.py:458`, `:480`, `:538`) and written
at a later flush, so it is given back by the copy that was read (`FreeItem`). With
`Overlap` a courier's DELIVERED that is committed in between is overwritten with
AVAILABLE, as it is in the code: that a shipped item never returns to the shop is not
true, and no property says it. What remains true, `ReturnedThroughAnEnd`, is that stock
comes back through the end of a reservation only. The sweep takes one lapsed
reservation at a time, while the code flushes all of a cycle together; the courier loads
the item when it claims the job (`fulfillment.py:243`), and a later lock does not
refresh it.

### WalletFees

State: the order (`status`, `hold`), its invoice (`subtotal`, `fee`, `total`,
`coupon`), the deduction noted in `payment_snapshot` (`snapshot`), whether a receipt is
`pending`, the amount of the latest `checkout`, the checkouts whose payment is
`captured`, the sum `cash` of the confirmed payments, and the wallet (`balance`,
`ledger` by idempotency key).

A handler and the sweep load the order without a lock; the `SELECT ... FOR UPDATE` of
`OrderCouponService.apply` and of `change_status` waits for other writers and leaves
the loaded object as it was. `LoadRow` adds the row as it is to the versions in `loaded`;
`ChooseMethod`, `FixedCoupon`, `FeeWaiver`, `SubmitProof`, `Cancel` and `Expire` take
such a version `c`, decide and compute by it, and write the columns they change. A
version may be used again and at any later time, so that any number of overlapping
sessions, even of one student, are covered. What the code asks of the database under
its lock is fresh: the redemption of a coupon, a pending receipt, the wallet. `Confirm`,
`Reject` and `CardPaid` lock the order before they load it.

`CardPaid` is a success notice: an amount other than the present total is refused
before the payment is touched; a cancelled order gets its payment confirmed and is left
for review; a paid order stays paid; a repeated notice is the same payment. Notices of a
failure, or of no final status, confirm nothing here and are `OrderFlow`'s
(`CardFailure`). A PERCENT coupon is a FIXED one of another value; a FREE_REPORT coupon
moves no money; nothing in the code freezes a wallet; the split between provider and
owner is left out. The hold of a paid order is `OrderFlow`'s.

### FriendPackages

State: the `group`, whether it `lapsed`, each `member` and its position `index`, the
members' `order` statuses, `paid_members`, `escrow`, refunds in `wallet`, delivery
`job`s, and the group's `item`. `autoflush` is the session's setting: the code's is
FALSE. With TRUE the count in `mark_order_paid` works as its comment intends; both are
in the run `commerce`, because without the defect of section 6 no group ever
completes and the properties of completion would say nothing. `ConfirmProof` commits what
`_complete_group` did before an error (the handler catches it), `CardPaid` rolls back.
`OtherOrder` is another shopper who takes the item the creator's cancellation freed.
One group is modelled; the wallet-covered part of a member's fee is `WalletFees`'
subject; the creator's own hold ends with the group or with its cancellation; status
COMPLETED is never set by the code.

### UpdateInbox and AtLeastOnce

State: the rows (`row_status`, `row_attempts`, `lease_owner`, `lease_over`), each
consumer's `batch` and the `phase` of its head, `applied` and `refused` (what the
handler committed, what the rate limiter turned away), `hot` (the student's limiter).
`ClaimBatch` takes the first eligible rows under one lease; the rows are then worked
one by one: `TurnAway` (`RateLimitMiddleware`), `HandlerCommits` or `HandlerRaises`, and
`MarkDone` or `MarkFailed`, which settle a row only for its owner. Faults: `DoneLost`,
`FailureLost` (the settling transaction), `ConsumerCrash`, `SlowBatch` (the lease ends
under a living consumer). `RowLeaseLapses`, `Purge`, `IntervalEnds` are time. The
abstract module knows updates as accepted, answered, finished and dead; the mapping
takes an update as answered when its handler committed or the limiter answered.

### AISupport

`EnqueueQuestion`, `ClaimJobs`, `StartJob`, `DeliverAnswer`, `CallRefused`, `FinishJob`,
`AskingFails`, `HandleFailure`, `Apologise`, `PruneJob`; faults `AnswerReplyLost`,
`FinishLost`, `WorkerCrash`, `JobOverruns`. `_deliver_answer` edits the placeholder
("asking") and, when that raises, sends a message ("resend"), whose exception is a
failure of the job. Either call may raise although Telegram has accepted it
(`AnswerReplyLost`): the student has then heard the answer and hears it, or the apology,
again. `finish_job` takes no owner, so the last writer decides the status.

### DeliveryOutbox

The job (`delivery`, attempts, lease), the notification row that proves the message
(`note`, `inserter`), the message itself (`messages`), each courier's stage. The first
attempt inserts the row under its unique key before it sends (`InsertRow` waits for an
open insert and is refused by a committed one); a row left by a failed attempt is only
updated, and nothing then holds back a second courier. `send_user` catches every
exception: `SendRefused` is one without a message, `ReplyLost` one that follows
Telegram's acceptance, and the code cannot tell them apart. `PutBack` is the guide that
was not acknowledged; it uses up an attempt. `OrderFlow` has the same job with one
courier.

### RuntimeLease and SchedulerCycle

`RuntimeLease`: `Acquire`, `GiveUpWaiting`, `StartPolling`, `Renew`, `FindLost`,
`StopPoller`, `ReleaseLease`, `PollerCrash`, `LeaseExpires`; a poller that stalled past
its lease finds out at its next heartbeat.
`SchedulerCycle`: the order of `Scheduler.run`: webhooks (`PostWebhook`, which may raise
and be retried after the endpoint has accepted the event: `timeouts`), deliveries,
whose commit (`DeliverJob`) gives the advisory lock away, the hourly run (`ClaimHour`,
`DoHour`), the daily backup (`ClaimDay`, `CommitCycle`, `FinishBackup`, the last in a
session of its own), `AbortCycle` (an exception or the end of the process). `release`
is chosen initially: replicas of one release own each other's runs.

### Announcements

`notice`, `ad` (campaign), `over` (end passed), and for every notice and user the
committed `row`, the open transaction's `draft` and its `holder`. `BeginDispatch` is
`process_due` in a cycle, `Visit` a user's menu; each then works off its copies:
`SendOne`, `Block` (the insert waits), a commit, or `Fails`: the unique row was inserted
by another, two transactions wait for each other, or the end of a campaign raises.
A call of Telegram may raise with or without the message (`Raises`); `send_one` records
a failure in both cases and the next cycle sends again. `booked` counts the messages
whose transaction was not rolled back, `lost` those of them whose call raised. Pinning a
message is not modelled.

### Warranty

One order (`sold`), the bound item, spare items, claims, their `replacement` and
`parcel` (the delivery job), staff `desk`s with the loaded status, and the courier's
`trip`. `SetClaim` is the unique index on active claims. `AllocateReplacement` commits
although `change_status` raised, as the handler does; `FinishRaises` is the last step
that a completed order refuses.

### EmailCodes

One mailbox: reservations (`wait`), the OTP lease `otp`, mails, `used` rows, taps on
"new code", readers in `poll_pending`. Nothing makes order and attempt unique
(`models.py:578`): taps that overlap check the limit against the count they loaded and
each add a row, so there may be more rows than `max_code_attempts`, while the count,
which they write over each other, never passes it. `MaxRows` bounds the rows of the
model. `OverdueExpires` is `_expire` at the start of a
cycle, `Expire`, `Fetch`, `TellCode`, `CommitCode` and their failures the reading of one
mailbox in the middle of it. `Poisoned` says that a waiting reservation's order is
completed: `_expire` then raises in every cycle.

### HybridBundles and ProviderBilling

`HybridBundles`: every operation locks the purchase and is one action; `hold` keeps the
row of a released hold, whose unique item it blocks for ever.
`ProviderBilling`: `OpenReview` stands at the count of overdue invoices in
`_restore_provider_if_clear`, `ApproveTransfer` at the commit; `ApiLoad` and `ApiPaid`
are the HTTP call, of which one per invoice is in flight (a bound of the model: two calls
with different keys book twice as well). `raced` marks an invoice which the call paid
although a review had.

### Collections, ProviderPlans, StudentPlans, ConfigCache

`Collections`: `OpenComplete` loads order and buyer, `Finalize` is `finalize_order` with
the points of that copy; `OpenRequest`/`CreateDue` are the two updates of an
administrator who asks for an amount; `OpenUpload`/`SubmitReceipt`, `ApproveDue`,
`RejectDue` the receipt; `OpenBan`/`CommitBan` the ban.
`ProviderPlans`: a desk is a handler with a copy of the plan; `SaveRefreshed` is any read
of it (`get_subscription`, `effective_entitlement`, `sync_lifecycle`). The days of grace
are part of "running"; a trial is an active plan. `decision` is what was last decided.
`StudentPlans`: the three hands are the courier, the student and the hourly job;
`period` is what is left until `ends_at`: not started ("none"), no end ("open"), more
than a week ("long"), a week or less ("week"), past ("over"). `_compute_end` is `EndAt`:
a number of days or months is "long" or "week"; a fixed end is a date, which may be
within a week or past; the end of an inventory account is unknown, hence none, before
its delivery (`mark_payment_approved` passes no item) or when the account has no date.
`ConfigCache`: coroutines of `enabled` wait for the generation (`AskGeneration`,
`TakeGeneration`) and for the flag (`AskFlag`, `CacheFlag`); a toggle is `BeginToggle`,
`Bump`, and `CommitToggle` or `RollBackToggle`.

## 3. Runs

| run | module, instance | distinct states | shows |
|---|---|---|---|
| `order_stock` | `MCOrderFlow`: 2 orders, 1 item, 1 receipt each, overlap | 3,272,516 | `StockOwned`, `CancelledHoldsNothing`, `ReturnedThroughAnEnd`, `EndedStaysEnded` |
| `order_money` | `OrderFlow`: 1 order, 3 receipts, overlap, fairness | 10,478 | `PaidBeforeGoods`, `ReceiptDecidedOnce`, `ContractSpec`, `LapsedHoldEnds` |
| `back_office` | `MCBackOffice` | 1,308,047 | `LedgerExplainsBalance`, `RefundWithinFee`, `NeverUndercharged`, `ChargedExactly`, `PointsExplained`, `AskedWithinRevenue`, `DecisionsHold`, `NeverCutShort`, `CurrentGenerationIsFresh`, `OfficeTypeOK` |
| `replicas` | `MCReplicas`, fairness | 168,667 | `OnceWithoutFaults`, `HeardOnceButForFaults`, `SentOnce`, `OnePollerUnlessStalled`, `EffectsOnce`, `AnnouncedOnce`, `AnsweredAtLeastOnce`, `QueuesDrain`, `OverlapEnds`, `ReachesEverybody`, `SystemTypeOK` |
| `commerce` | `MCCommerce`, fairness | 177,323 | `EscrowExact`, `RefundsExact`, `AllPaidBeforeDelivery`, `ReplacementsOwned`, `CodeOnce`, `SharesPostedOnce`, `InvoiceBookedOnce`, `ReplacementFinishes`, `HeldIsReleased`, `DebtIsEnforced`, `CommerceTypeOK` |
| `order_double_sale` | `MCOrderFlow`: 3 orders, 1 item, no overlap | – | violated: `NoDoubleSale` |
| `order_status_steps` | `MCOrderFlow`: 1 order, overlap | – | violated: `LegalStatusSteps` |
| `wallet_fee_returned` | `WalletFees` | – | violated: `FeeReturned` |
| `friends_count` | `FriendPackages`: 2 friends | – | violated: `CountIncludesPayer` |
| `friends_refund` | `FriendPackages`: 2 friends, fairness | – | violated: `LapsedGroupEnds` |
| `ads_end` | `Announcements`: 1 advertisement, fairness | – | violated: `AdsEnd` |
| `billing_back` | `ProviderBilling` | – | violated: `BackAfterPayment` |

The bounds and why they are enough:

* `OrderFlow`: a conflict over stock needs one item wanted by two orders (three for the
  double sale: one whose late confirmation frees the item, two that get it). Three
  receipts let one be rejected, one confirmed and one sent late. In `order_money` the
  sweep, the courier and the student overlap although there is one order only: money and
  receipts of different orders do not touch each other.
* `WalletFees`: two orders; the balance of 1 covers one fee of 1 and not two, so the
  second order sees what the first one's refund gave back; coupons of 1 and 3 lie below
  and above the price of 2. Two versions of rows may be loaded (`MaxVersions`), so one
  stale session overlaps another, and the student pays 3 in all (`MaxCash`), one order
  in full. One order with price 3, fee 2, coupons of 1 and 4, a balance of 3, three
  versions and payments of 9 was checked once (1,162,580 states).
* `FriendPackages`: 4 friends for 3 seats, so one stays out; price 5 leaves a remainder.
* `Collections`: two sales of the invited student and one of the inviter, two
  settlements and two administrators: two requests overlap, one is refused and revived
  beside the other. `ProviderPlans`: two platforms, two desks, a coupon for one use.
  `ConfigCache`: two processes, two coroutines, two changes, one of which may be rolled
  back (checked once with three: 1,362,754 states). `StudentPlans`: three periods, with
  every trigger and validity and an end that is far, near, past or not known.
* `replicas`: two consumers, workers, couriers and replicas, three pollers. Two updates
  in a batch of two and two attempts: the second row waits under the lease of the first,
  and an update can fail, be retried and die. One fault for the inbox and the AI queue
  (their safety checked once with two each: 258,356 and 198,826 states); the outbox has
  one crash, two overlong leases and three attempts, each of which may lose its reply
  (checked once with two crashes and three couriers: 221,075). `Announcements` has one
  cycle beside two visitors, one call that raises and no lost transaction; its safety
  was checked once with two cycles (3,771,438 states) and with one lost transaction
  (188,083).
* `commerce`: two claims and one spare item that other orders want (safety checked once
  with two: 276,537); two mails for one order with two code attempts, two taps that may
  overlap, three rows and two readers (safety checked once with two mails and a fault
  more: 2,615,147); two purchases, three proofs, two items of the stocked component; two
  invoices, three transfers, the API call for one invoice.

Bounds the code does not have are named in the modules: `MaxProofs`, `MaxExcess`,
`Max...Faults`, `MaxCrashes`, `MaxOverlong`, `MaxStalls`, `MaxAborts`, `MaxLapses`,
`MaxFailures`, `MaxUnreachable`, `MaxBroken`, `MaxMails`, `MaxRows`, `MaxPeriods`,
`MaxGeneration`, `MaxVersions`, `MaxCash`, and, without a name of its own, the one API
call per invoice of `ApiLoad`.
`MaxPending`, `UpdateAttempts`, `JobAttempts`, `DeliveryAttempts`, `BatchSize`,
`MaxCodes` and `MaxUses` are settings of the code. `BackOffice.cfg` gives sets of
different parts the same members, as one part moves at a time: one group of
permutations then serves all of them. No liveness is checked with symmetry.
Deadlock is not checked: orders, groups and queues come to rest.

## 4. Properties

Orders. `StockOwned`: an item kept out of the shop is kept for a live reservation of it.
`CancelledHoldsNothing`: a cancelled order keeps none. `EndedStaysEnded`: an ended
reservation is never live again. `ReturnedThroughAnEnd`: an item is in the shop again,
or in a second order's hands, only if a reservation of it has ended, whatever stale
copies are written back. `PaidBeforeGoods`, `ReceiptDecidedOnce` and the refinement
`ContractSpec` are about money, `LapsedHoldEnds` is the liveness of stock.

Money. `NeverUndercharged` and `ChargedExactly` compare what a student paid, by transfer
and from the wallet, with the price after coupons. The second is about the payment that
makes an order paid, whatever versions of its row the coupon, the method and the checkout
were computed from. Its two exceptions are what the code does: choosing a method forgets
the wallet's deduction and a FIXED coupon then charges the fee a second time; and an
order that the sweep cancelled, with the fee returned, may be revived by a receipt that
had loaded it before, and is then paid for at the total it had. Payments after the first
are not the order's charge any more: a stale receipt on a paid order lets a student pay
twice. `EscrowExact`, `RefundsExact` and `AllPaidBeforeDelivery` are the promises of the
group's release notes. `SharesPostedOnce` and `InvoiceBookedOnce` count the postings of bundles and invoices.
`PointsExplained` and `AskedWithinRevenue` relate points and settlements to the
transactions that explain them.

Once. `SentOnce`, `OnceWithoutFaults`, `HeardOnceButForFaults`, `AnnouncedOnce`,
`CodeOnce`, `EffectsOnce` and `OnePollerUnlessStalled` say how often something happens,
and under which faults more often: crashes, rolled back transactions, leases outlived,
and, as the code takes every exception of a network call for a failure, replies that are
lost after the message or the event was accepted. Each fault explains one repetition at
most. `AnsweredAtLeastOnce` is the refinement of
`AtLeastOnce`. `ReplacementsOwned`: a warranty item belongs to one claim.

To an end. `QueuesDrain` (the inbox, the AI queue, a delivery whose guide was read),
`OverlapEnds`, `ReachesEverybody`, `ReplacementFinishes`, `HeldIsReleased` (mailboxes of
code reservations, items of bundles), `DebtIsEnforced`.

Decisions. `DecisionsHold`: a platform is paused exactly when it was decided last;
`NeverCutShort`: no subscription is expired while paid time remains or while it has no
end, none is said to expire soon that has more than a week, and none runs that was not
started; `CurrentGenerationIsFresh`: a process at the committed generation serves the
committed flag.

These three do not say that the code is safe from the crossings that it allows. Two
handlers that load one row and write it do lose a decision (`overtaken`,
`coupon_raced`), a start of a subscription (`cut`) or a changed flag (`overrun`): the
ghosts record exactly these crossings, the properties except them, and what is checked
is that nothing else goes wrong.

Each property of a passing run has a mutant in a module, a plausible bug of the code
that TLC must find. `OfficeTypeOK`, `SystemTypeOK` and `CommerceTypeOK` join the type
invariants of the parts.

## 5. Fairness

* `OrderFlow!FairSpec`: a transaction that has loaded its rows commits or dies (weak
  fairness), and `expire_reservations` runs in every scheduler cycle and visits every
  lapsed hold, without a limit (strong fairness per order, as an order may leave and
  re-enter the set between cycles). It assumes that no step of the cycle raises: the
  whole cycle is one transaction, so a step of another part that raises every time rolls
  back the sweep as well; `friends_refund` and `ads_end` show states in which one does.
* `SystemFairness`: consumers, workers and couriers are loops that run as long as their
  process (weak fairness of their steps; the number of crashes is bounded, so some
  process is alive or restarted), leases lapse with time, the lease's owner beats. A
  cycle that dispatches may be kept out by visitors again and again, hence strong
  fairness of `BeginDispatch`; an open transaction goes on, or waits for one that does.
* `CommerceFairness`: the scheduler repeats its cycle. A job of a replacement may be
  taken back and claimed anew, hence strong fairness of `Trip`; the sweep of email codes
  is fair only while no completed order poisons the cycle (`~Poisoned`); the hourly job
  and the commit of an open review are weakly fair. Nothing is assumed of students,
  platforms, reviewers and gateways. The parts share one cycle, however, and a step of
  any of them that raises (a poisoned reservation, a lapsed group with a paid member, an
  advertisement at its end) rolls back what the others did in it: bundles are then not
  expired, mailboxes not freed and debtors not suspended either. `HeldIsReleased`,
  `DebtIsEnforced` and `ReplacementFinishes` hold of cycles that no other part poisons.
* `AnnouncementFairness` and `FriendPackages!FairSpec`, of the violation runs: the cycle
  is repeated for ever.

## 6. What the code does differently from its documents

1. `order_double_sale`: a confirmation that comes after the hold ended frees the item
   by its status, although another order has reserved it since; the item is sold twice.
2. `order_status_steps`: `change_status` consults the table with the status its session
   loaded; with a commit in between the row makes a move the table does not list.
3. `wallet_fee_returned`: choosing a payment method overwrites the note of the fee that
   the wallet paid; expiry and waiver then return nothing.
4. `friends_count`: with autoflush off the count of paid members misses the one who is
   paying, so a group never completes.
5. `friends_refund`: PAID to REFUNDED is not in the table, so a lapsed group with a
   paid member is never refunded, and every scheduler cycle is rolled back.
6. `ads_end`: the end of a campaign names a status that the enum does not have; the
   campaign goes on and every later cycle is rolled back.
7. `billing_back`: the count of overdue invoices sees the one that is being paid; a
   platform suspended while its transfer waited stays suspended.

The quotations and lines are in `PROJECT.json`. The modules contain more behaviour that
a maintainer should know of; no property is stated against it where no document says
otherwise, or where a property names it as its exception:

* Orders: a cancellation, a late confirmation or the sweep that has read an item as
  reserved overwrites a DELIVERED that is committed before its flush with AVAILABLE
  (`orders.py:459`, `:481`, `:539`), and the account is sold again.
* Payments and coupons: coupon, payment method and receipt compute from an order that
  was loaded before the lock (`order_coupons.py:41`). A receipt that crosses the sweep
  revives the cancelled order although its fee was returned; one that crosses a payment
  puts the paid order under review, where it may be paid again.
* Whatever calls Telegram or a webhook takes every exception for a refusal
  (`notifications.py:68`, `announcements.py:183`, `ai_support_worker.py:207`,
  `enterprise_scale.py:158-186`): after a timeout that follows the acceptance the
  account, the notice, the answer or the event is sent again.
* Friends: the seat of a member who cancelled is never free again
  (`friend_packages.py:243`); the creator's cancellation frees the group's item although
  the group stays open (`bot/handlers/orders.py:442`), so another order may take it;
  `mark_order_paid` and `expire_groups` lock rows in different orders (`:351`):
  PostgreSQL aborts one, and the next cycle repeats it.
* Email codes: "new code" on a completed order leaves a waiting reservation whose expiry
  raises in every cycle; two taps write `code_attempts` over each other and each add a
  reservation, at the limit as well; after a cancelled reservation without a successor
  the order stays in `waiting_code`.
* Warranty: `allocate_replacement` always raises in `change_status` for a delivered
  order, and what was written before is committed without its event; the delivery for a
  completed order raises at its last step after every lease; an old "problem" button
  reopens a resolved claim.
* Bundles: an item whose hold was released can never be held again, as the hold's item
  is unique; rejecting a second proof sets a fulfilling purchase to `failed`.
* Billing: an API call that overlaps a review books the payment again; two approvals
  that each see the other's invoice as overdue leave the platform suspended, and an
  approval that crosses `enforce_overdue_billing` leaves a debtor active; a restore lifts
  a suspension whoever imposed it.
* Announcements: an advertisement is sent to all active users although an audience and
  an opt-in were configured, as `recipients` knows no scope "campaign"; a dispatch that
  loaded a notice as scheduled writes ACTIVE (`announcements.py:208`) over a concurrent
  stop; approving a finished campaign activates it again.
* Delivery: a guide that was not read uses up the attempts of the job.
* Collections: a reward that arrives while the inviter completes an order is overwritten
  (`users.py:198`); a rejected settlement can be confirmed or sent again and counts
  anew (`settlements.py:92-113`); a ban cancels the orders it loaded, also those
  completed since (`admin/finance.py:759-766`).
* Plans of platforms: a platform that was paused is active again with a plan or trial
  coupon of its own (`subscriptions.py:754`); a coupon may shorten a paid plan; an
  extension gives an unlimited plan an end; one made on a stale copy may leave the
  platform paused.
* Subscriptions of students: each new code starts the whole period again
  (`email_codes.py:427`); reminder flags are never reset; an objection to an expiring
  subscription freezes it, although `mark_needs_support` says it does not
  (`student_subscriptions.py:202`); with the trigger `payment_approved` a delivery sets
  a running subscription to waiting, which the hourly job does not visit.
* Cached settings: a value read before a commit is cached after it under the new
  generation and served for its whole time to live; a rolled-back change leaves a number
  that the next change will use.

## 7. Proofs

The prover checks, for every value of the constants under the named assumptions:

| module | theorems | property of a run | invariant |
|---|---|---|---|
| `SumTheorems` | lemmas: a sum after one value or one element changed, over disjoint sets, of equal and constant values, over an indexed set | – | – |
| `OrderFlow_proofs` | `TypeCorrect`, `NoLostStock`, `CancelledOrdersHoldNothing`, `EndedReservationsStayEnded`, `StockReturnsThroughAnEnd`, `NoGoodsBeforePayment`, `ReceiptsDecidedOnce`, `ImplementsContract` | `StockOwned`, `CancelledHoldsNothing`, `EndedStaysEnded`, `ReturnedThroughAnEnd`, `PaidBeforeGoods`, `ReceiptDecidedOnce`, `ContractSpec` | `TypeInv`, `StockInv`, `MoneyInv` |
| `WalletFees_proofs` | `TypeCorrect`, `LedgerExplained`, `FeeRefundedAtMostOnce`, `NeverUnderPrice`, `ExactCharge` | `LedgerExplainsBalance`, `RefundWithinFee`, `NeverUndercharged`, `ChargedExactly` | `MoneyInv` per order |
| `FriendPackages_proofs` | `TypeCorrect`, `NobodyBeforeAllPaid`, `DepositsReturned`, `EscrowAddsUp` | `AllPaidBeforeDelivery`, `RefundsExact`, `EscrowExact` | `GroupInv`, `EscrowInv` |
| `UpdateInbox_proofs` | `TypeCorrect`, `ImplementsAtLeastOnce`, `HandledOnce` | `AnsweredAtLeastOnce`, `OnceWithoutFaults` | `InboxInv`, `Quiet` |
| `Commerce_proofs` | `SharesOnce`, `BookedOnce`, `OneClaimPerReplacement`, `CodesToldOnce` | `SharesPostedOnce`, `InvoiceBookedOnce`, `ReplacementsOwned`, `CodeOnce` | `ShareInv`, `LedgerInv`, `WarrantyInv`, `ToldInv` |
| | `CommerceIsItsParts`, `CommerceTypeCorrect`, `CommerceSafe` | `CommerceTypeOK`; all safety properties of `commerce` | – |
| `Replicas_proofs` | `ProofBeforeDelivery`, `SentOnceButForFaults`, `OnePoller`, `QuestionHeardOnce`, `CyclesActOnce`, `NoticeSentOnce` | `SentOnce`, `OnePollerUnlessStalled`, `HeardOnceButForFaults`, `EffectsOnce`, `AnnouncedOnce` | `OutboxInv`, `LeaseInv`, `AIInv`, `CycleInv`, `NoticeInv` |
| | `SystemIsItsParts`, `SystemTypeCorrect`, `SystemSafe`, `SystemAnswers` | `SystemTypeOK`, `AnsweredAtLeastOnce`; all safety properties of `replicas` | – |
| `BackOffice_proofs` | `CurrentIsFresh`, `PaidTimeKept`, `PausesHold`, `PointsAreExplained`, `AskedIsOwed` | `CurrentGenerationIsFresh`, `NeverCutShort`, `DecisionsHold`, `PointsExplained`, `AskedWithinRevenue` | `CacheInv`, `StudentInv`, `PlanInv`, `PointsInv`, `OffersCovered` |
| | `OfficeIsItsParts`, `OfficeTypeCorrect`, `OfficeSafe` | `OfficeTypeOK`; all safety properties of `back_office` | – |

Each part has its type theorem beside these. So every invariant, every action property
and both refinements of the passing runs are theorems.

`OrderFlow`. `TypeInv` adds to `TypeOK` that a student whose receipt is being stored
still has room for one (`ReceiptRoom`: `SubmitProof` counts up in a later step than the
one that checked the bound) and that an open transaction knows an item only of an order
that has one (`ItemKnown`). `StockInv` is `StockOwned` and `CancelledHoldsNothing` with
what makes them inductive: an order that does not exist has no reservation (or `Create`,
which overwrites the item of its order, could orphan one), the sweep only loads orders
that exist (`SweptExists`), and `CopiesTrue`, `CopyOfCancel`: whoever has read the item
of an order that still owns it has read that it is reserved, and will give it back. The
central lemmas are `EndedReservationFreesItem` and, for `ReturnedThroughAnEnd`,
`EndedHolderStays`: an order whose reservation has ended keeps the item it had, so it
remains the explanation of what came back. `MoneyInv` adds to `PaidBeforeGoods` that
status `paid`, and a delivery job, each imply a recorded payment, and that the courier
works on a job that exists. `ImplementsContract` maps a sale's money to `PaidOrders` and
its goods to `HandedOrders`; every step moves at most one order into one of the sets,
the second only for an order already in the first, or stutters.

Sums. `SumFunctionOnSet` is a fold, and a fold is a recursive function over subsets.
`SumTheorems` shows that such a function exists and is unique (`SumsExist`,
`SumsUnique`) without induction on a predicate: it counts, for each element, the units
of its value and adds the cardinalities (`UnitsFinite`, `CountsSumUp`). From the
recursion follow the laws that the accounts need; they ask for finite sets, hence the
assumptions that orders, friends and settlements are finitely many.

`WalletFees`. The properties compare the ledger with the invoice, while the code decides
by the snapshot, and by one that may be stale. `MoneyInv` ties them together for each
order: `Noted` (the snapshot shows the deduction of the ledger or has forgotten it),
`Versioned` (so does every version that a session has loaded, which is of the present
invoice as long as no coupon was redeemed), `Booked` (an excess is booked only with a
payment) and `Invoiced` (total and wallet fee cover the invoice, exactly so while the
snapshot knows the deduction). So an amount that is computed from any loaded version is
right, or is one that the exceptions name. The other orders keep theirs by lemma
`Frame`. `LedgerExplained`: a posting changes one entry and the balance by the same
amount, and one that meets its idempotency key changes neither.

`FriendPackages`. `Stage` says what the group's status implies of its members: an open
group has shipped and refunded nothing, one that delivers has all its payments, and only
such a group has jobs. It is what makes `AllPaidBeforeDelivery` inductive, and lets
`ExpireGroup` refund every paid member once. `EscrowInv` adds `Positions` (the members
have the positions 0 to n - 1, each its own) and `PayersWait`; the shares of all
positions add up to the price because the remainder goes to the first (`SharesAddUp`).

`UpdateInbox`. `InboxInv` has `OwnerIffProcessing` (a consumer that still owns a row when
it settles it settles a row that nobody settled), `BatchesStored` and `ReturnedAnswered`;
with them every step is a step of `AtLeastOnce` or a stutter. `HandledOnce` needs
`Quiet`: without a fault no lease is over, so batches are disjoint and owned, and a
handler that committed has its row closed or is just about to close it.

`DeliveryOutbox`. `Budget` bounds the messages sent by those that can still be sent: the
couriers before their message, and one more if another courier may join without a fault
that is not yet counted; a message whose reply was lost is paid for by that fault.
`FirstAttempt` says that without a refusal every sender is the
one who inserted the row, so only its crash leaves a message without a proof.
`ProofBeforeDelivery` is the comment in `fulfillment.py` on persisting the proof first.

`RuntimeLease`: `OwnersBeat`, without a stall whoever beats owns a lease that is not
late, hence there is one. `AISupport`: `VoiceBudget`, what was said about a question and
what the workers that still ask may say, and one more if the job may be claimed again,
stay within one and the faults counted; without a fault the last writer of `finish_job`
is the only one. `SchedulerCycle`: `HookInv`, whoever posted a webhook and has not
committed still holds the advisory lock, and every other post was rolled back or raised;
`HourInv` and `DayClaimed` are the row locks of the scheduled runs; `BackupInv`, a
running backup is the one of the day's row. `Announcements`: `CopyInv`, a message that
counts is in the committed row or in one open transaction's draft, never in both, or its
call raised.

`HybridBundles`: `ShareInv`, a purchase has all its shares and items after an approval and
none before. `ProviderBilling`: `BookedBy`, an invoice's ledger has no key, one, or the
key of a review and the API's if they raced. `Warranty`: `TripsKnown`, the courier's trip
has its job leased and only a claim with a replacement has a job, so no stale desk gives
a claim a second account. `EmailCodes`: `ToldInv`, whoever was told a code is in the
committed row of the mail or in one that a reader has inserted, and the unique keys of
`used` hold for both kinds of rows together; `LoadedKnown` bounds the attempts that
several taps write over each other.

`ConfigCache`: `AnswersFresh`, an answer on its way to the cache is the committed value
unless a change overran it. `StudentPlans`: `EndSeen`, a job that saw the end still sees
it or a start crossed it. `ProviderPlans`: `CopiesTrue`, a copy is paused exactly when the
row is, unless another desk decided meanwhile. `Collections`: `CompletedOnce` (an order
that an open completion has loaded has no revenue yet) and `PointsSeen` (its points are
out of date only when a reward crossed it) for the points; `OffersCovered` (an open
request and what was asked once fit into the revenue) for the settlements.

Composition. The parts of a composed run share no variable: a step is a step of one part
and leaves the variables of the others alone. `...IsItsParts` says so, and the theorems
about the parts then hold of the composed specification, which is what the runs check.

Only model-checked: liveness (`LapsedHoldEnds`, `QueuesDrain`, `OverlapEnds`,
`ReachesEverybody`, `ReplacementFinishes`, `HeldIsReleased`, `DebtIsEnforced`), which
needs fairness and ENABLED. The seven violated properties of section 6 are
counterexamples and have no theorem.

## 8. Not modelled, and the plan

* `ResourceService` (seats): constructed at start and never called. Likewise never
  called: `SettlementService.build` and `apply_provider_wallet`, and
  `FinanceService.apply_refund_reversal` (which looks for a referral key, line 313, that
  the award, line 162, does not write). Withdrawals are off by default.
* Evidence: storage of files with a retention date; the hourly job deletes what is due,
  one row at a time, and nothing else depends on it.
* Temporary access in provider operations: `escalate` and `confirm_logout_proof`
  (`provider_operations.py:642`, `:695`) could join `EmailCodes`.
* Refunds and disputes decided by hand, component allocation by hand, purchase limits,
  versioned workflow copies, discounts of campaigns, price rules, offers and catalog:
  one row changed on the input of a form.
* Authorization and the permission cache: who may act is not a subject here.
* Screens, keyboards, menus, reports, PDF and web pages: they show data. Backups, key
  rotation, health, AI prompts, image moderation, plugins: I/O around the system. These
  make up most of the lines of the repository, which is why the definitions map to a
  small share of it.

Plan, in this order: temporary access in `EmailCodes`; two offers with one stock in
`OrderFlow` with manual and email-code delivery; a property for the group whose creator
cancelled (`bot/handlers/orders.py:442`), whose item another order may take.
