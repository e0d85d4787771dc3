# A TLA+ model of utility-cis

utility-cis is a customer information system for utilities: a Fastify API over
PostgreSQL (Prisma), background workers on BullMQ and Redis, and a Next.js web
client. This directory models the parts of its core where a wrong step costs
money or cuts off supply: the accounts-receivable ledger, the billing run and
the dispatcher that starts it, payment plans, the collections ladder with its
fees and work orders, imports, bill documents and the notification outbox (all
under `packages/api/src`, in `services` and `workers`). TLC checks the modules
on small instances. TLAPS proves, for every value of the constants, the
invariants and step properties of all of them and the refinement of the ledger,
some under a hypothesis that section 4 states; liveness stays with TLC.

`PROJECT.json` lists the components, the runs, the source lines behind every
definition, the findings and the hazards.

## 1. The system

| Component | State it keeps | Operations | What is hard | What makes it correct |
|---|---|---|---|---|
| **AR ledger** (`services/ar`) | `ledger_entry` (signed amount, `open_amount`), `ledger_application`, the cached `account.balance`, `.depositAmount`, `.lastDueDate` | post a bill, assess a fee, adjust, pay, take a deposit, waive, write off, refund, reverse | long histories in which a reversal undoes an allocation that other operations built on; two pools of credit in one table; four redundant records of one amount | open items, applications and cached figures agree; deposits never pay a charge; a reversed entry is spent by nobody; payments are allocated in the documented order |
| **Billing run** (`services/billing-run`, `billing-run-worker`) | `billing_run`, `billing_run_item`, queue jobs | create, generate, cancel, resume, post, reclaim at boot | several workers, jobs and operators on one row, held by a liveness claim and no lock; a process may die between any two statements | one pass at a time; nobody is billed twice; the status says what the items say; a posting ends and a dead run is picked up |
| **Bills and segments** (`bill.service`, `bill-segment.service`) | `bill_segment`, `bill`, `meter_read.billed_at` | rate an agreement, aggregate an account | two transactions per account; the read is marked by the first | a period is rated once, and what is rated is billed |
| **Billing dispatcher** (`billing-dispatcher`, `billing-notice.service`) | the ledger of notices in the tenant's scheduler settings | each hour: decide what is due, start runs, tell of windows that did not bill | the tenant's clock against UTC dates, clamped bill days, clocks that jump, sweeps that die half way | a window whose reads are in is billed; one that closes unbilled is told once |
| **Payment plans** (`services/payment-plan`) | `payment_plan`, `payment_plan_debit` | create, sweep, cancel | the sweep judges on a snapshot while payments, reversals and cancellations arrive | a plan ends once, for the reason that holds |
| **Delinquency** (`delinquency*.service`) | `delinquency_action`, late fees, the service requests of its actions | evaluate, charge, escalate, resolve, cancel, raise work orders, reconnect | balances and plans read before the loop that acts on them; evaluations that overlap; requests that fail | a tier charges a bill once, and in the end always; no disconnection is closed without its reconnection |
| **Imports** (`imports`, `import-worker`) | `import_batch`, `import_row` | stage, process, cancel, retry, reclaim | counts kept apart from the rows, heartbeats, a boot sweep that does not look again before it writes | a row is imported once; a batch ends, with a status its rows support |
| **Bill documents** (`bill-document.service`) | `bill_document`, the tenant's object store | claim, upload, complete, regenerate | an upload between two transactions, concurrent calls on one row | a finished document is never lost, is created once, names the store that holds it |
| **Notifications and delivery** (`notification.service`, `bill-delivery.service`) | the `notification` outbox | queue, claim, send, retry | a provider's call between two updates, overlapping drains | a message is sent once, and every row settles |
| **Service suspensions, service requests** | status columns | the state machine, the nightly sweep | sweep against operator | no status is skipped or revived |
| **Queues and worker processes** | BullMQ queues, pause flags, limits, worker ids | enqueue, pause, start, stop | Redis unreachable; a process killed | nothing waits for ever |
| **Meter data and time of use** | reads, intervals, rollups, calendars | submit, correct, roll up | windows that overlap or leave gaps | an interval is counted once |
| **Rate engine** | none | rate a period | tiers, proration, minimum bills, rounding | pure computation |
| Customers, premises, configuration, roles, presentation, routes, web client | rows | one request, one row | nothing concurrent | out of scope |

How they interact. A **run** rates and aggregates each account (segments, then a
bill), and in a separate pass posts each bill to the **ledger**. Payments,
deposits, fees and adjustments reach the ledger from the routes. **Delinquency**
reads the ledger's cached balance and posts late fees back to it; an active
**payment plan** takes its debits out of delinquency and to the back of the
payment queue. The actions of a tier that names a request type become
**service requests** for a crew, and a cleared balance asks for the
reconnection. The **dispatcher** creates the runs and hands them to the queue.
A posted bill gets a **document**, and is **delivered** as a row of the outbox.
Shared state is the database; calls between components are function calls
inside a transaction or jobs on a queue.

## 2. The modules

| Module | Models |
|---|---|
| `Sums` | sums over entries `1..n`, the form of every `SUM(...)` the ledger asks for |
| `Ledger` | the ledger of one account: every operation that writes it |
| `AccountPosition` | what the ledger promises: the two figures of an account and how each kind of posting moves them |
| `BillingRun` | one billing run, its jobs, passes, operators, crashes and boots |
| `PlanTerms` | what a plan's schedule asks for and when, and when it is late, missed and broken |
| `PaymentPlan` | the plans of one account: agreement, cancellation, the sweep |
| `Delinquency` | the collections ladder of one account: evaluations, clerk, plan, fees |
| `ServiceRequest` | the statuses of a service request and its legal moves |
| `WorkOrders` | the sweeps that turn actions into field work and close them (extends `ServiceRequest`) |
| `Imports` | one import batch: passes, operators, crashes, the boot sweep |
| `BillDocument` | the stored PDF of one bill, several generations at once |
| `Outbox` | the delivery rows of one bill, and the drains that send them |
| `BillingDispatch` | the hourly billing sweep of one tenant and cycle, and its notices |
| `MCBillingDispatch` | the instance of `BillingDispatch` TLC checks; the other modules need only constants |
| `SumTheorems` | facts about sums, proved by induction along `1..n` |
| `LedgerProofs` | the inductive invariants of `Ledger`, the theorems, the refinement of `AccountPosition` |
| `PlanProofs` | theorems about the schedules of `PlanTerms` and the plans of `PaymentPlan` |
| `BillingProofs` | the inductive invariant of a calm `BillingRun`, what holds of every run, and the calendar and the inductive invariant of `BillingDispatch` |
| `ImportProofs` | the inductive invariant of `Imports` and the theorems |
| `DocumentProofs` | the inductive invariant of `BillDocument` and the theorems |
| `CollectionsProofs` | the inductive invariants of `WorkOrders` and of `Delinquency`, and the theorems |
| `OutboxProofs` | the inductive invariant of `Outbox` and the theorems |

### Ledger

One account is the whole state: no operation reads or writes another account's
entries. Each operation is one transaction that takes the account's row lock
(`lockAccount`) before it reads anything it decides on, so one action is one
operation; an operation that throws rolls back and is a guard that is false.

* `ledger` is the sequence of entries in `posted_at` order, with the columns no
  operation updates: type, amount, due date, `reverses_id`.
* `open[i]` is `open_amount`; `app[<<c, d>>]` is the amount of the application
  from credit `c` to debit `d` (0: no row).
* `cache` is the account row, `billed` the bills whose `posted_at` is set, and
  `plan` the latest payment plan as the allocator sees it.

`Walk` is the one loop of the allocator: a candidate gets what those before it
left, up to its room. `PaidBefore` is the order of `compareDebits` and
`orderByPlanCover`; `Pool` is the filter that keeps deposits apart.
`PostCredit` and `PostDebit` are the common tail of the operations: insert,
allocate, recompute the cache. A plan enters and leaves by `CreatePaymentPlan`
and `EndPaymentPlan`: its whole life as far as the ledger is concerned.
`EndPaymentPlan` stands for every way a plan ends (completed, defaulted,
cancelled) and does not ask which.

Left out: reasons, receipts, tender and audit rows; effective dates (they are
only displayed); the holds that make `postBill` refuse, which only disable an
action. Amounts are whole cents, as `Decimal(14,2)` holds them. A bill's total
is `Decimal(14,4)`, and `postBill` rounds it before it becomes an entry: the
model's amounts are those after that rounding.

### BillingRun

A pass is one job in the hands of one worker. Nothing locks a run: each
statement or transaction of a pass is an action of its own, and passes,
operators, crashes and boots interleave between any two. Where a pass stands is
`pass[p].at`; its snapshot of the items is `pass[p].todo`.

* `run`: the status, `cancel_requested`, `posting_started_at` and `posted_at`
  as set or not, and `quiet`: `last_progress_at` older than five minutes, or
  null.
* `item`, `read`, `loose`, `bill`: per account, the item's status, whether the
  period's read is billed, the segments on no bill, and the bill.
* `queue`, `swept`: waiting jobs by kind, and the reclaim job ids BullMQ has
  seen this hour.
* `tally`: the bounds still left, the resumes between their status check and
  their transaction, and processes that have crashed and not booted.

`Unheld` is the WHERE of both claims (`claim.ts`). `CheckResume` and
`CommitResume` are apart because `resumeBillingRun` reads the status outside the
transaction. `Count` and `Finalise` are apart because `finalise` is two
statements. `Rate`, `CreateSegment` and `Aggregate` are the three places between
which an account can be left half done: each may fail, and so may the update
that says BILLED, which the `catch` turns into FAILED (`RecordItem`). A pass
ends before its time (`Crash`) with its process, or by a statement outside the
`try` that throws; only the first kind boots and sweeps. `NextItem` joins the
read of `cancel_requested` with the eligibility query: nothing between the two
depends on the order. A claim is joined with the list of items it is followed
by; only a pass or a resume changes items, so what this loses is a stale resume
between the two, which does as much harm a step later.

Left out: the documents rendered while posting (they change nothing the run
reads), bulk sending, several agreements per account (one read per account
stands for them), the audit rows, and one run's effect on another.

**Time.** A run turns `quiet` when nobody has said anything for five minutes
(`GoQuiet`). A generating pass stamps `last_progress_at` after every account,
and the model takes no account to last that long; nor does a posting job wait
that long between its check and its claim. A posting pass is another matter: it
stamps a bill it has posted and goes on past a bill that is held
(`posting.ts:168`) or that fails (`:180`) without a word. So `GoQuiet` may come
while a posting pass is among its bills, although `claim.ts` says that "a live
pass is never five minutes silent", and another pass may then begin beside it.

### PlanTerms and PaymentPlan

`PlanTerms` is the arithmetic, without state: `Base` and `First` split the
balance (`splitInstallments`), `Asked` is the running total of
`scheduleAmounts`, and `Due`, `Late`, `Missed` and `Broken` are `planProgress`,
as sets of payments where the code counts.

`PaymentPlan` is one account. `createPaymentPlan` holds the account's lock
throughout and is one action. The sweep holds none, so each of its statements
is an action:

* `StartSweep` is the query of the satisfied plans, `Complete` one closing,
  `FindLive` the query of the live ones;
* per plan, `ReadPaid` (`paidTowardPlan` and `planProgress`), `ReadBill`
  (`hasUncoveredPastDue`), then `Default`, `SayNothing`, or `Notify` and
  `MarkNotice`, which are apart because a crash may come between them.

`cancelPaymentPlan` is `ReadForCancel` and `CancelPaymentPlan`: its transaction
locks nothing when it reads. `open` is the `open_amount` of the account's
debits, which `LedgerMoves` sets to anything: payments, waivers, write-offs and
reversals all do no more than that to a plan (which debit a payment reaches is
`Ledger`'s subject). Several sweeps of one account may be at work, as two jobs
of a tenant may (see `WorkOrders`). The notice itself leaves no trace but its
watermark (`noticed`). `seen` is no part of the program. It remembers, for each
sweep, which plans were settled and which were behind in some state since the
sweep began, and only the properties read it. What "behind" means there is
taken from the schedule that `createPaymentPlan` returns to the customer
(`Shown`), and not from `planProgress`, which is what is being judged.

Left out: several accounts (the sweep treats them one by one), entries other
than bill debits, `open_amount` below zero (the queries clamp it), and the
suppression of fees. `addPeriods` is a fixed number of days: the calendar month
that clamps at the 31st is not modelled, and all the theorems use of it is that
a schedule's dates increase.

### Delinquency

One account, with a fixed ladder. An evaluation (`evaluateAll`) holds no lock
until it charges, so each of its statements is an action: `ReadAccount`,
`ReadActions`, `ReadClock` (the due dates that no plan covers), then per tier
`FileAction` and `Notify`, then `Charge`, which is one transaction under the
account's lock (`chargeOverdueBills`). The nightly job goes on to close the
actions of a clear account (`FindPaidUp`, `Close`); an evaluation asked for by
a route ends after the charge. `FileAction` meets the partial unique index when
the other evaluation was first.

* `filed` is `delinquency_action`; `fees` the late fees with the action and
  the bill each is for; `open` the bills with an open amount, each named by its
  due date; `plan` the bills a plan covers and whether it is ACTIVE.
* `desk` is a request of the console between its read and its write:
  cancelling one action, resolving the account, escalating it.
* `LedgerMoves` is every payment, reversal, credit and waiver: which bills are
  open may become anything.

A late fee is itself a debit with a due date, which the request may give and
which is otherwise some days after its posting: `ReadClock` takes any date
after the first bill's. Left out: the filters that only make fewer tiers apply
(minimum balance, account type, effective date, protected accounts,
`autoApply`), amounts and caps of fees, and `suppress_fees_while_kept`.

### WorkOrders and ServiceRequest

The two sweeps of `delinquency-work-order.service.ts` in the order of
`runDelinquencyPasses`: reconnections (`FindCleared`, `Reconnect` or
`ReconnectFails`, `Resolve`) before work orders (`FindDue`, `RaiseOrder`). Each
lists its actions in one query and works the list a statement at a time; what
it saw in the query (`cut`, `ask`) goes with it. Creating a request may fail,
and the sweep goes on. `CheckMove` and `Move` are one transition of a request,
read and then written by id; `Leave` is any other way an action ends (resolved,
cancelled). The jobs of a tenant (`Sweeper`) are at work at once: the tenant
queue works five, the job's id changes with the hour, and an evaluation still
going after an hour looks to the dispatcher like a missed night. The ladder
itself is `File`: which tiers it files and when is `Delinquency`'s subject.

### Imports

A pass is one job. `Claim` marks the batch, `ListRows` reads the rows of its
scope, `ParseRows` fails those that do not parse, `CountRows` takes the
baseline; then per row `ProcessRow` (the handler's transaction) and
`MarkImported` or `MarkError` are apart, for a crash may come between;
`Heartbeat` writes the counts and looks for a cancel every `Chunk` rows. The
batch's counts are carried in the pass, as the code carries them.
The `try` of a row covers the update after the entity's transaction: `MarkFails`
is that update (or the read before it) failing, whereupon the `catch` marks the
row ERROR, entity or not, and counts it on top of what was counted before.

Whoever puts a batch back does so in one statement and enqueues its job in the
next: `Boot` (the list), `PutBack` and `Reenqueue` for the sweep at boot,
`ReadForRetry`, `WriteRetry` and `EnqueueRetry` for `retryImport`. `Enqueue` may
lose the job, because `enqueueSafely` swallows a queue it cannot reach and a
process may die before it asks; `createImport` may lose the first one (`Init`).
`lost` counts these. `GoQuiet` is five minutes without a heartbeat, into which
falls a batch that nobody works, and also one whose pass has yet to come to its
rows: that phase writes none.

Two passes can come to work on one batch: two retries, a job the queue hands on
while its worker is slow, a sweep that takes a pass in its first phase for dead
or between whose statements the batch was retried. Each keeps counts of its own.
`met` counts the passes that begin beside another.

### BillDocument

`generateBillDocument` is `Begin` (read the row), `ReadSettings`, `Render`,
`ClaimRow` or, on the unique key, `Adopt`, then `Put`, then `StoreRow` with its
audit row in one transaction; `PutFails` goes to `Drop`, which deletes the
claim if it is this call's own and still unfinished. A rendering is the
version of the data it was made from, so equal data gives equal hashes.
`object` is what each store holds under the bill's key: an upload overwrites.
The first `StoreRow` is conditional on `sha256` being null, and the call that
loses writes no audit row (lines 293-302).
`Edit` and `ChooseStore` change the data and the settings at any time. `sole`
and `torn` are history, for `DocumentIsReadable` alone.

### Outbox

The rows of one bill. `Ask` and `Queue` are `deliverBill`'s check for a row in
flight and the insert after it; two callers may both pass the check. A drain
takes a `List`, and then row by row `Claim`, `Send` or `SendFails`, and
`MarkSent` or `PutBack`; `MarkFails` is an update that throws after the
provider took the message, which the `catch` treats as a failed send. The claim
is inside the same `try`: `ClaimFails` is one that throws, before or after it
was made, and the `catch` then puts back a row that may be another drain's.
`misclaimed` counts them per row. Attempts
are counted from the list (`AttemptsAfter`), not from the row. Left out: quiet
hours, the tenant's switch and the batch size, which only delay a row, and
templates.

### BillingDispatch

Time is in hours of UTC on a calendar of a few short months, so that every hour
of three months is visited. `DueAt` is `billingDueAt` on the tenant's clock;
`WindowAt` is `computeBillPeriod` on UTC dates; both use the one clamp
`BillDayIn`. A sweep is `Start`, then for a due cycle `Plan`, `CheckReads`,
`Create`, `EnqueueRun`, and then in every case `FindClosed`, `ReadLedger`,
`Send`, `WriteLedger`, all at the instant the sweep began. `Dies`, a lost
enqueue and an hour without a sweep draw on `MaxFaults`. `reads`, `runs` and
`queued` are sets of windows, a window named by its month. Left out: several
tenants and cycles (a failing one does not stop the others), frequencies other
than monthly, the stamp of the scheduler's last run, two sweeps that overlap,
and the operator whose patch of the scheduler's settings writes an empty ledger
of notices over the one that is there (`automation-config.service.ts:197`). The
bill day is after the 1st because a cycle's read day comes before it
(`billing-cycle.ts`).


## 3. The runs

Eleven runs pass, and the last finds a sentence of the code violated (what
happens is told below):

| Run | Bounds | Shows |
|---|---|---|
| `ledger` | 4 entries, 3 cents, 1 due date, 1 bill, no plan | the ledger's safety, step and refinement properties |
| `ledger_order` | 4 entries, 2 cents, 2 due dates, plans over up to 2 debits, no bills | `PaymentOrder`, with payments that reach two debits, and plans that cover some of what is owed |
| `billing_run` | 2 accounts, 2 workers, 2 resumes one at a time, 2 posts, lost enqueues, no crash | what a run says is true and posting ends, under cancel, resume and silent postings |
| `billing_run_crash` | 2 accounts, 2 workers, 2 crashes, 1 post, no resume | exclusion and reclaim under crashes, redelivery and boots |
| `payment_plan` | 1 plan, 2 debits of 1 cent, 3 days, 1 or 2 instalments with or without a down payment, 1 sweep, 1 crash | a plan ends for a cause and does not run on |
| `delinquency` | 2 bills due a day apart, 2 tiers, both charging, the upper one replacing, 2 evaluations, 3 days, 2 events | a tier charges a bill once, and in the end always |
| `work_orders` | 2 jobs at once, 2 tiers, one with orders, 1 action, 2 failures or crashes, 1 clerk | a reconnection per disconnection, and a clear account off the ladder |
| `imports` | 2 rows, 1 that cannot be parsed, a heartbeat every row, 2 passes that meet once, 1 retry, 1 crash, 1 failed update, 1 lost job | counts and status tell the rows, a row is made once, a batch ends |
| `bill_document` | 2 generations, forced or not, 2 stores, 2 versions of the data, 3 claims, 2 failures | a document stays, is created once, and is where its row says |
| `outbox` | 2 callers, 2 rows, 2 drains, 3 attempts, 1 fault | a row is sent once but for failed claims, and settles |
| `billing_dispatch` | 3 short months, 3 zones, 1 fault | a window is billed by the end of its month, or told once |
| `billing_dispatch_late` | the months of `billing_dispatch` in UTC | `StaysDispatchable` is violated |

Why the bounds are enough. Every hazard of the ledger involves at most a debit,
a credit that pays it, a reversal or refund of one of them, and one operation
that meets the result: four entries. With three cents an amount can be less
than, equal to and more than another with something left over. The order has
three keys and a cover; two values of each give every pair of debits that can
meet, and a payment of two cents reaches both, or one and stops. A run's passes
interact pairwise, so two workers; two accounts are the least at which one is
billed and one is not. Two crashes let the reclaiming pass die as well.

A plan needs a payment that is met beside one that is missed (a down payment
and an instalment), a debit it covers beside one it does not, and a day for
each of due, late and missed: three days with one day of grace. With one plan
the guard of a second plan never bites. Sweeps that overlap are left to the
theorem `PlansCloseForACause`, which is for any number of them: with two sweeps
over two debits the run is too large. Two jobs and two passes are the pairs that
can meet, and what they contend for is one action, which may be of the tier with
orders or of the other, and one batch.

On the ladder the second bill reaches a tier a day after the action of the
first was filed, the third day is past every threshold, and two events are
enough for a payment and its reversal, a plan, or a crash beside a clerk. Two
evaluations are the most that can meet under one unique index. An import needs
a row that fails by itself and one that does not, with a heartbeat between them,
and a retry that finds what a pass left. Two generations are the pair of every
race the code's comments name (adopt, fail, complete), and a third claim comes
after one that was dropped. Two drains overlap, with attempts enough that each
puts the other's back. Three months with a short one in the middle give a bill
day that is clamped, one that is not, and a window that closes on each side.

`CHECK_DEADLOCK FALSE` everywhere: the bounds on entries, resumes, posts,
days, retries and crashes stop the model where the program would go on.

What the properties say:

* `OpenItemBalance`, `OpenWithinAmount`, `NetPosition`: the four records of an
  amount (entry, open item, application, cached figure) agree after any
  history, and the database CHECKs on `open_amount` never reject an operation.
* `DepositIsolation`, `ReversedIsSettled`, `RefundStaysBacked`: money that must
  not be spent twice, or by the wrong act, is not; a refund is short of
  something only by the reversal of what paid for it.
* `PaymentOrder`, `ChargesAbsorbCredit`, `ConcessionsDoNotSpill`,
  `HistoryIsKept`: what one posting may do to the entries before it.
* `ImplementsPosition`: the ledger refines `AccountPosition`, in which there
  are no open items and no allocation.
* `OneGenerationPass`: exclusion, among runs that crash.
* `RatedOnce`, `BilledItemHasBill`, `StatusTellsItems`:
  nobody is charged twice, and what the run says of itself is true.
* `PostingFinishes`, `ZombieIsReclaimed`: it ends. The second excepts a corpse
  beside which a silent posting is at work, since that posting may speak again.
* `ClosedForACause`: although a sweep reads in several queries and acts later,
  what it does to a plan, completing or defaulting it, was right at some moment
  since it began.
* `SettledIsClosed`, `BrokenIsEnded`: a plan that stays settled, or stays
  broken in one way, is ended.
* `FeeOncePerTier`, `EveryBillIsCharged`: who is charged, by which tier and
  when, against a ledger, a plan and actions that all move while
  an evaluation is under way.
* `ClosedWithReconnection`, `EpisodeCloses`: field work is undone before its
  action is closed, and the ladder cleared.
* `SummaryTellsRows`, `RowImportedOnce`, `BatchEnds`: the arithmetic an import
  keeps apart from its rows comes out right, and it comes out; but for what each
  crash, failed update, lost job and meeting of two passes costs, which the
  properties state.
* `DocumentIsReadable`, `FinishedStays`, `CreatedOnce`: what is true of a
  document whichever calls raced for it. The first excepts what nothing in the
  code orders (a call that dies after its upload, data or settings that move
  under a call), until a generation that runs alone has put it right.
* `ResentByFailedClaims`, `EveryRowSettles`: the outbox, one more message at
  most for each claim that failed, and but for a message whose row
  was never told, and a row whose drain died over it.
* `BilledByMonthEnd`, `UnbilledIsToldOnce`: the dispatcher does not forget a
  window, nor repeat itself.

**Fairness.** For runs it is weak fairness of each pass's steps (a worker that
has a job works it, and an idle worker takes a job that waits), of the
transaction of a resume that has been checked (its request is being answered),
of the boot of a process that crashed, and of the clock (`NextHour`,
`GoQuiet`). None is assumed of operators, crashes or readers.
For plans it is weak fairness of each sweep: the delinquency dispatcher starts
one every night (and again when a night was missed), for a tenant whose
scheduler is on, and one that has started goes on. None of the calendar, the
ledger or operators.
For delinquency it is weak fairness of the nightly job's evaluation and of the
sweeps that follow it, which the dispatcher starts every night; none of the
route's evaluation, the clerk or the ledger. For field work it is that some job
of the tenant begins again and again, and that one at work goes on. For imports
it is of each pass's steps, of a retry that has begun, of the clock that makes a
silent batch quiet, and of the boots with each statement of their sweep; for the
outbox, of each drain's work, since ticks keep coming.
The dispatcher has none: its two properties say what is so by a date.

**What the passing runs do not reach.** `billing_run` has one resume between
check and commit at a time (`ResumesAtOnce = 1`), and no crash;
`billing_run_crash` has no resume. Beyond that `RatedOnce`, `StatusTellsItems`
and `OneGenerationPass` fail: with two requests to resume at once (the table
below) and, in the same way, with a resume between whose check and commit the
redelivered job of a crash begins the run. No run sets `QueueMayFail` beside a
crash. A crash between the commit of a bill and the update of its item leaves a
DRAFT bill under an item that the next pass marks SKIPPED, and an update that
fails leaves it under a FAILED one: the run never posts it, and
`BilledItemHasBill` is about the other direction only. That every run ends is no
property: one whose job is not enqueued, or that is resumed while it is being
posted, stays PENDING. `payment_plan` does not count part payments; where they
count, `ClosedForACause` fails in one case (below).

### Where the code and its words differ

One run checks a sentence and finds it violated; the quotation with its line is
in `PROJECT.json`.

| Run | Sentence | What happens |
|---|---|---|
| `billing_dispatch_late` | "the window stays dispatchable until the next bill day closes it (SCH-BILL-7)" (`billing-dispatcher.ts:121`) | `billingDueAt` compares today's day with the bill day of the current month, so on the first of the next month it says "the window is open" of a window that ended weeks ago and that the planner would still plan; reads that arrive then are not billed by the dispatcher, and the tenant is told at the next bill day that the window closed unbilled |

These were met while modelling, and no run is spent on them. A property that
is checked excepts such a case, does not speak of it, or is checked within
bounds that keep it out, as said above:

| Sentence | What happens |
|---|---|
| "every application on a refund points at credits of one kind" (`refund.service.ts:120`) | two deposits are refunded, one is reversed, and the next payment pays what is open on the refund |
| "an account cannot be billed twice" (`billing-run/lifecycle.ts:54`) | two resumes read FAILED; the second commits when the run is RUNNING again and lets a second pass in: the status check belongs inside the transaction |
| "a live pass is never five minutes silent" (`claim.ts:32`) | a posting among held bills is, and a second one begins beside it |
| PENDING is "already being worked" (`billing-run/lifecycle.ts:34`) | a resume during a posting strands the run: its job is spent on a refused claim |
| "an enqueue failure is no worse than a job running late" (`queues.ts:283`) | nothing enqueues the job later: the run, or the batch, stays PENDING |
| "told once per instalment, not once per sweep" (`payment-plan/lifecycle.ts:375`) | the watermark is the last payment due, not the last one late: when the next one falls due the customer is told again of the one before |
| "a second instalment going late notifies again" (`payment-plan/lifecycle.ts:380`) | a notice sent on its due date marks it as told, and its lateness goes unsaid |
| late is what "has been paid does not cover" (`payment-plan/lifecycle.ts:129`) | with part payments counted, a down payment of 0 is missed, and breaks the plan |
| "cancelling an already-ended plan is a no-op" (`payment-plan/lifecycle.ts:13`) | `cancelPaymentPlan` reads without a lock and overwrites a plan the sweep has ended since |
| both sweeps are "idempotent by construction" (`delinquency-work-order.service.ts:23`) | one after the other, yes; two jobs that overlap raise two orders for one action |
| "one batch is always one worker" (`import-worker.ts:23`) | the sweep takes a pass that is still parsing for dead and enqueues the batch again |
| "each writes its own audit row" (`bill-document.service.ts:140`) | of two concurrent first generations the one that loses the first store writes none, as the later comment at 293 has it and as `CreatedOnce` states: the older comment is out of date |
| "the other worker owns this notification" (`notification.service.ts:655`) | a claim that throws puts the row back under the worker that owns it, and it is sent twice |
| "a balance needs no allocation history" (`statement-snapshot.ts`) | a refunded deposit is counted as owed: the REFUND is in the sum, the deposit is not |
| one job per run (spec 27, SCH-CONC-8) | from the second posting on, `posted_at` of the first hides the pass (`claim.ts`) |
| skipped is "nothing to bill" (`execution.ts`) | an account that was rated and not aggregated is skipped, its segment on no bill |
| a stopped pass "is picked up automatically" (`claim.ts`) | the one sweep of a quick restart comes before the five minutes are over |

And three where the code says nothing of the case: a disconnection carried out
after the sweep resolved its action is on an action no sweep looks at again, so
no reconnection is asked for; a notice completes its action by id, and a
cancelled one is live again; a drain that dies over a row leaves it SENDING,
and every later delivery of that bill is refused as in flight.

## 4. The proofs

`LedgerProofs` proves, for any number of entries, amounts, due dates and bills:

* `Invariance`: `Spec => []IInv`, with `IInv` the conjunction of `TypeOK`,
  `NoStrays`, `SignOfType`, `OpenItemBalance`, `DepositIsolation` and
  `ReversedIsSettled`;
* `TypeCorrect`, `Conservation`, `DepositsIsolated`, `ReversalsSettled`: its
  parts that are properties of the runs;
* `HistoryKept`: `Spec => HistoryIsKept`.

Why the strengthening. `OpenItemBalance` is not inductive by itself: posting an
entry must know that no application already mentions the new number, which is
`NoStrays`; reversing must know which side of an application an entry can be
on, which is `SignOfType` with `NoStrays`. `ReversedIsSettled` needs
`OpenItemBalance` (an entry with nothing open and one application is settled by
it) and `DepositIsolation` needs that a reversal never takes part in a later
allocation, which is `ReversedIsSettled`.

The argument is one lemma per way of writing the ledger (`PostCreditKeeps`,
`PostDebitKeeps`, `ReverseEntryKeeps`, `SameLedgerKeeps`), each with a step per
conjunct, over lemmas that say what the walk returns (`WalkBounds`) and how a
sum changes when one place, one row or one column of `app` does. `NextIInv` has
a step per action. Assumed are only the constants' types
(`MaxEntriesAssumption` and its neighbours), which TLC evaluates in every run of
the ledger. `SumTheorems` builds the facts about sums from the definition of
the recursive function, by induction over the naturals that is itself proved
from the least-element property.

On top of it stand the figures:

* `FiguresInvariance`: `Spec => []FInv`, and from it `WithinAmount` and
  `NetPositionHolds`;
* `RefundsBacked`, `ConcessionsKept`, `ChargesKept` and `PaymentsKept`: what one
  step may do to the entries before it;
* `LedgerImplementsPosition`: the ledger implements `AccountPosition`.

`FInv` adds to `IInv` that value flows from credits to debits only
(`SidesHaveSigns`), `OpenWithinAmount`, that the cached columns are those a
recomputation would write (`CacheIsTrue`), and that what is open adds up to what
was posted (`NetIsPosted`): `NetPosition` is about the cache and so follows only
from the last two together. A reversal gives back what it finds in `app`, which
keeps an open amount below its entry only since `OpenItemBalance` says what was
taken. The step properties rest on what the walk does with its candidates in
order: it fills one before it reaches the next (`WalkInOrder`), and it gives all
that is wanted or fills them all (`WalkFills`). A refund is left short by a
reversal alone, since a posted debit or credit takes nothing from an earlier
debit and a reversal gives back exactly the one cell of `app` between the two.
For the refinement, a step of the ledger appends one posting (`MovesPosted`),
and by `FInv` both figures can be read off the ledger (`FiguresFollow`). All
that is left of the allocation is how much of the deposits it moved: the held
figure moves by that and the owed one by the rest (`HeldMoves`). It is nothing
for most postings, the amount itself for a deposit, and for a reversal no more
than the entry had (`UndoHeld`).

`PlanProofs` proves, for every balance, down payment, number of instalments,
day and setting of the terms (`Agreed` is what `createPaymentPlan` has checked
when it writes a plan):

* `SplitFits` and `ScheduleAsksTheBalance`: the rounding loses and adds no cent;
* `SettledIsOnTrack`: when the balance has gone nothing is late, so "a plan
  cannot be both satisfied and broken", which is why the sweep may complete
  first and judge the rest;
* `PayingNeverHurts` and `TimeNeverHelps`: being broken is monotone. A sweep
  that read the payments early can only be too strict and one that judges by
  an early day only too lenient. That is what makes `ClosedForACause` hold of
  defaults.

They rest on `AskedIs` and `AskedBounds`: through payment `i` a schedule asks
for the balance less the instalments after it.

And of the plans of an account:

* `PlansCloseForACause`: `DownIsAsked => (Spec => ClosedForACause)`, for any
  number of sweeps, plans, debits, crashes and cancellations.

The cause is kept by `CauseInv`: what a sweep carries between two statements
has been seen since it began. The plans it still has to complete were settled
when it asked (`NothingOpen`: a sum of nothing has no open term), and a plan it
holds to be broken misses its schedule at that moment (`BrokenMisses`) or owes
a new bill. For the schedule that needs the link between the two ways to read a
schedule: `scheduleAmounts`, added up, is what `planProgress` asks for
(`ShownThroughIs`), and a payment it calls missed on the sweep's day is unpaid
by the customer's schedule today (`MissedIsUnpaid`). That fails in one case
only, part payments counted and nothing paid down (section 3); `DownIsAsked`
excludes that case and no other. No step brings a plan back to life
(`NoneRevived`), so that an UPDATE that finds it ACTIVE finds what the sweep saw.

`DocumentProofs` proves, for any number of generations at once, of stores,
versions of the data, claims and failures:

* `DocumentInvariance`: `Spec => []IInv`, with `IInv` the conjunction of
  `TypeOK`, `Identified` (an id names one row), `AllStand` and `CreatedOnce`;
* `DocumentCreatedOnce`: the audit log creates a document once for a row;
* `DocumentStays`: a document that is finished stays so, whatever other calls do.

`FinishedStays` needs to know what a call remembers of its claim while others
write the row: the call that read its claim as finished is one that will not
drop it, and the row it read is still there, finished (`Stands`, for every call
in `AllStand`). That holds only because ids are never given twice
(`Identified`): a call whose claim was dropped and made anew under it finds
another id. `MoveKeeps` covers the steps that write only the call, `NextIInv`
the others. Assumed is `DocumentAssumption`.

* `DocumentReadable`: `Spec => []DocumentIsReadable`.

It needs a second invariant, `RInv`, because a `Put` over a finished document
leaves its row naming bytes that are gone until the transaction of that call
comes: the property holds only of rest, and induction must speak of flight. It
says what a call carries as long as nothing is `torn` (`Current`: the data and
the store as they are, and a row that this call took for unfinished can only
have been finished like that since), that a finished row is right or a call is
about to write it (`Backed`), and that a call which ran alone from its start
stands by its own upload even where something was torn (`Alone`), which is how
a document becomes readable again.

`CollectionsProofs` has the theorems of the field work and of the ladder; the
names of `Delinquency`, like those of `BillingDispatch`, are chosen so that a
module can extend two components. Of the field work, for any number of tiers,
actions, clerks, failures and crashes:

* `WorkOrderInvariance`: `Spec => []IInv`;
* `NoneClosedInTheDark`: `Spec => ClosedWithReconnection`.

A job acts on what its query returned, and other jobs, clerks and the ladder go
on meanwhile. `IInv` is `TypeOK`, `Counted` and `Listed` (a list holds actions
there are) with `InHand`: what a job found disconnected and need not ask for is
asked for. That stays so because a request once created is never deleted and
keeps its action and kind (`SameRequests`); it does not need that a job is
alone, which is why this half of the design survives overlapping jobs and "one
request per action" does not (section 3).

And of the ladder, for any tiers, thresholds, evaluations, jobs, bills and days,
and without a bound on actions:

* `LadderInvariance`: `LadderSpec => []LInv`;
* `ChargedOnce`: `FeeOncePerTier`.

Assumed is `LadderAssumption`. `FeeOncePerTier` compares fees by the tier of
their action, so it rests on more than the lock. An action keeps its tier
through everything that may happen to it (`KeepsTiers`), and the action an
evaluation holds for a tier is of that tier, though it was read several
statements ago (`Recognised`); else a charge would look for earlier fees of one
tier and file its own under another. Within one charge the new fees are
distinct because they enumerate a set (`FeesDueAre`, `ChargeRaises`).
`Escalates` says of the clerk's request only what its tier is.

`OutboxProofs` proves, for any number of callers, rows, drains, attempts and
faults:

* `OutboxInvariance`: `Spec => []IInv`;
* `SentOnce`: `ResentByFailedClaims`.

A claim that fails makes two drains handle one row, so there is no owner to
reason about. The invariant counts instead (`Within`): the messages a row was
told of, the drains that may still send it (`Handlers`) and its turn to be
claimed (`Turn`, while it is PENDING or not yet there) are together one, plus
one per failed claim. A claim spends the turn and makes a handler, a message
told spends a handler, a `catch` turns a handler back into a turn, and only
`ClaimFails` adds one. `TickMoves` covers the steps in which a drain moves,
`HandlersMove` what that does to the count. `Told` is the second half of the
property, and `Tries` keeps the count of attempts within its bound, which two
drains that listed the same row could else be thought to pass.

`BillingProofs` proves of a run, for any number of accounts, workers, operators,
posts, crashes and boots:

* `RunInvariance`, and from it `GenerationIsAlone`, `PeriodsRatedOnce`,
  `StatusIsTrue` and `BilledHaveBills`, each `Calm => (Spec => ...)`;
* `EveryBilledItemHasBill`: `Spec => [](TypeOK /\ BilledIsBilled)`, without that
  hypothesis: no item says BILLED of an account without a bill, whatever is
  resumed, dies or overlaps.

`Calm` is about the bounds: nothing dies and requests to resume come one by one
(`NothingDies`), or nothing is resumed (`NothingResumes`). They are the bounds
of `billing_run` and of `billing_run_crash`, with every other bound free. The
code ensures neither: the status is read outside the transaction that resumes,
and two requests at once can rate a period twice (section 3). The
theorems say what the claims do give. The way there is that in a calm run no
resume commits on a run that is no longer what its check found (`ResumeIsFresh`,
`FreshInvariance`): without resumes trivially, and without crashes because there
is one job at a time (`OneJob`): it waits while the run is PENDING, a pass has
it while it is RUNNING, and a resume that was checked is the only one that can
move a run at rest.

In the invariant, `Fit` says of a generating pass that the run shows it and has
been heard of lately, so that the claim cannot be had against it (of a posting
pass nothing of the kind is so); that
the accounts it has in hand are still to do; and which of the three places of
`Rate`, `CreateSegment` and `Aggregate` its account is at, so that `Rated`, that
a read which is billed gives one segment and that segment goes on one bill,
survives a death at each. `Tells` is kept by a pass that finalises by what it
counted: the counts are still right, since it is alone.

And of the dispatcher, on every calendar, for every bill day, run hour, zone and
number of faults that `CalendarAssumption` allows:

* `DispatchInvariance`: `DispatchSpec => []DispatchInv`;
* `ToldOnce`: `UnbilledIsToldOnce`;
* `BilledInTime`: `BilledByMonthEnd`, where also `RunHourIsKept`.

The assumption asks that a notice is kept for the length of two consecutive
months: `NOTICE_RETENTION_DAYS` is 90. That is what `ToldOnce` turns on. A
window can be noticed in its own month and in the next (`NoticedInTime`); by
the time the ledger drops it, those are over (`DroppedIsPast`), so a window
that was told and that the ledger does not hold is past noticing
(`ToldIsKept`). The exceptions are the one sweep that has sent and not written,
and those that died there, which the faults count.

For `BilledInTime` the invariant keeps, of every hour so far, that if it was due
and planned a window whose reads had landed, the window has a run
(`DueHoursPlanned`). Left is arithmetic: before the tenant's clock leaves a
month there was an hour that was due and planned that month's window on UTC
dates (`DueHour`). It is the last hour of the tenant's month, or where summer
time begins just then, the last before the jump. `RunHourIsKept` says that no
jump leads from the run hour, or an hour before it, to the next day, and it is
needed: with a run hour of 23, a bill day that is the month's last, and a clock
that goes from 23:00 to midnight on it, no hour of that month is due (with such
a zone in place of its three TLC finds `billing_dispatch` violated). The code
takes any hour with any zone and does not exclude it; a zone that jumps in the
small hours, or at midnight, satisfies it whatever the run hour, as the zones of
the run do. The bill day 1 is outside the module, as the read day of a cycle comes
before it.

`ImportProofs` proves, for any number of rows, passes, operators, retries and
crashes and any distance of heartbeats:

* `ImportInvariance`: `Spec => []IInv`;
* `ImportedOnce` and `SummariesAreTrue`: `RowImportedOnce` and
  `SummaryTellsRows`.

`SummaryTellsRows` is of batches that two passes have not met over (`met`),
which the code does not rule out (section 2). Up to that moment `Alone` holds:
there is one pass, the batch does not look ended, and the counts it carries are
those of the rows (`Works`), the errors up to the updates that failed
(`ErrorsWithin`), although the batch's own columns lag behind them until the
next heartbeat. `InChunk` keeps the count to the next heartbeat within a chunk.
`met` is carried by the invariant, never assumed.

`RowImportedOnce` has no such exception, for any number of passes at once, and
has an argument of its own (`OInv`). For each row (`Owed`), the entities it has
made and the passes that may still make one (`Makers`) are together one more at
most than the accidents so far (`Spent`: crashes, failed updates, meetings); no
more than the accidents while nobody has the row before him and it is not marked
(`Free`), so that the pass to come has one in hand; or the row is marked and
before no pass. A pass that begins beside another draws on the meeting it is,
one that dies or fails to mark a row on that accident.
`LetsGo` and `OwedKept` are the two shapes of step.

`TypeCorrect` is about `TypeOK` of `Ledger`, which no run checks any more since
it is proved.

Only model-checked: all liveness (`PostingFinishes`, `ZombieIsReclaimed`,
`SettledIsClosed`, `BrokenIsEnded`, `EveryBillIsCharged`, `EpisodeCloses`,
`BatchEnds`, `EveryRowSettles`), which with ENABLED and with induction over data
that is not a segment of the naturals is out of the prover's reach.
`StaysDispatchable` is false and so not proved.

## 5. The plan

Done: `Ledger`, `AccountPosition`, `LedgerProofs`, `PlanTerms`, `PaymentPlan`,
`PlanProofs`, `BillingRun`, `BillingDispatch`, `BillingProofs`, `Delinquency`,
`WorkOrders`, `CollectionsProofs`, `Imports`, `ImportProofs`, `BillDocument`,
`DocumentProofs`, `Outbox`, `OutboxProofs`.

Left:

1. `BillPosting`: `postBill` statement by statement beside payments and holds,
   implementing the ledger's one-step `PostBill`.
2. `PaymentPlan` and `Delinquency` over `Ledger`: open amounts moved by the
   ledger's own operations.

**Not modelled.**

* Service suspensions, bill holds and the SLA sweep: one conditional update of
  one column each; no second piece of state has to agree with it.
* Meter reads, intervals and rollups, effective dating, time-of-use calendars,
  the rate engine: computations over dates and decimals inside one request,
  with no interleaving; the models take their outcome (a read is there, an
  account is rated or fails).
* Customers, premises, meters, containers, configuration, identity and roles:
  one request writes one row.
* AR reads and reasons, queue administration, bill presentation, routes, the
  web client and the seed: they show state or refuse requests and keep none of
  their own. The web client and the seed are more than half of the source.
