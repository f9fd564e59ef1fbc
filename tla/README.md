# GAMETECH billing system: TLA+ models and proofs

This directory models the GAMETECH billing, dispatch and network system (Django,
Postgres, Redis, Celery, MikroTik routers) in TLA+.  TLC checks the models on small
instances; TLAPS proves most of the properties for every value of the constants.

1. The system - 2. Modules - 3. Runs - 4. Proofs - 5. Where code and comments
disagree - 6. What is not modelled - 7. Plan

## 1. The system

gunicorn runs 4 workers of 4 threads; Celery beat runs the polls, the nightly sweep,
the retries and the clean-ups beside them.  Postgres runs READ COMMITTED and
`ATOMIC_REQUESTS` is off: every `save()` commits on its own unless a view opens a
transaction, and a view that fetches a row and saves it later writes back every
column it read, unless it takes `select_for_update()` and reads again.
`post_save` signals run inside the save and may save other rows.  Redis holds what
workers share: results of polls, blocks of routers, counters of failed logins.

| Part | State | Operations | Talks to |
|---|---|---|---|
| Customer account (`billing/views/payments`, `customer_portal/views/payments.py`, `billing/services/expiry_sweep.py`, `auto_suspend`) | `Customer` row (status, `expires_at`, `outstanding_balance`, plan), `Payment` rows | pay at the desk, pay online, rebate, rollback, transfer or correct a payment, force suspend and reactivate, edit date or balance, nightly sweep, auto-suspend | router services after the commit; incentives by a signal on every `Payment` |
| Dispatch pipeline (`dispatch/views*.py`, `dispatch/models/tickets.py`, `dispatch/signals.py`) | `JobTicket` with status, bounce and call counters, flags, crew; call log; hand-over history | create, assign, undispatch, edit, hand over, arrive, done, call, return, QA pass and bounce, approve, close, reopen, delete | writes `installation_status` and `status` of the customer; a waiting customer gets a ticket by a signal |
| Agent program (`billing/views/agents.py`, `prospects.py`, `payouts.py`, `billing/services/incentives.py`) | `Prospect`, `AgentQualificationEvent` and `AgentPayoutBatch` rows | refer, edit, review, decline, reopen, convert; qualify or revoke after each payment; make a payout batch, mark it paid | reads `Payment` rows; a conversion makes a customer |
| Sync border (`network_manager/views/sync.py`, `sync_services.py`, `services/users.py`) | `sync_status`, pairing log, `ROUTER_MODE`, the secrets on the routers | pair, push, override, auto-fix, delete, bulk actions, five-minute retry, reconcile, cut off, restore | routers; customer screens; the import |
| Live monitoring, breaker, customer state (`billing/utils.py`, `billing/diagnostics.py`, `billing/customer_state.py`, `network_manager/services/base.py`) | Redis keys with lives: live data, active names, heartbeats, blocks, attempts | poll by Celery and by pages, heartbeat, trip and reset the breaker, classify, diagnose | every router call; the gate of auto-suspend |
| Cignal (`billing/views/cignal_dashboard.py`, `services.py`, `customer_portal/views/payments.py`) | `CignalSubscription` rows, requests, tickets, payments | apply, activate, approve, pay, edit, pull out, restore, purge | dispatch tickets |
| Monitoring records (`dispatch/views.py`, `customer_portal/views/tickets.py`, SLA tasks of `billing/tasks.py`) | records, dispatch log, tickets, options, notifications | submit a concern, dispatch, done, form, delete, options, rebate days, late alerts | due dates of customers |
| Import and cut-over (`billing/management/commands`, `billing/legacy_import`) | customers, payments, history, staged file, plans, barangays, signal wiring of each worker process | pre-flight, import, rulings, pairing, reset, recovery, older migrations, plan and barangay commands | the border (every import takes pairings back) |
| Access (`billing/views/auth.py`, `staff.py`, `billing/security.py`, `customer_portal/views/auth.py`) | logins, staff mirror, roles, groups, portal passwords, lockout keys, list of customers online | staff forms, role editor, set-up commands, password reset and change, sign-in and sign-out | every gate of a page |

`PROJECT.json` lists these and the remaining parts (past-due alert, ticket numbers,
messages, invoices), which no model depends on.

What makes each part correct:

* **Account** - no peso is lost or counted twice; an online payment never shortens
  time already paid for; the newest receipt shows the account's due date.
* **Dispatch** - an active line has a due date or a payment behind it; an approved
  ticket was signed by an admin or is a clean, called repair; repeated bounces and
  one user in several roles stay flagged; a ticket with a crew has a current row
  in the hand-over history.
* **Agents** - one referral becomes one customer; one commission per customer and
  agent, and only an earned one counts; ledger and batches agree; what was paid out is final.
* **Border** - nothing is written to a router but by the gates the policy names; a row
  says `Synced` only for a secret that is there; an approval is about the row as it
  is; a suspended line stays cut; a failed write comes back to the queue.
* **Monitoring** - nobody is shown connected, and nobody may be suspended, on news
  older than the lives of the keys promise; what works again is shown again.
* **Cignal** - every payment is on the subscription, in money and in days; no
  job waits for a plan that was pulled out.
* **Records** - one log entry per finished record; every concern is in the customer's history;
  rebate days given are days recorded; alerts are twelve hours apart.
* **Cut-over** - imports are whole; rulings and passwords stand; older pairings end;
  signals come back; an import ends.
* **Access** - a login and its mirror row stay together; who has a counter role can pay;
  a password handed to a customer opens the portal; the door opens again.

## 2. Modules

| Module | Models | Theorems |
|---|---|---|
| `CustomerAccount` | every handler that moves money, due date or billing status of a subscriber | `CustomerAccount_proofs` |
| `DispatchPipeline` | every handler that moves a job ticket, its crew and the customer's installation | `DispatchPipeline_proofs` |
| `AgentProgram` | referrals, conversion, commissions, payout batches | `AgentProgram_proofs` |
| `SyncBorder`, `BorderPolicy` | the writers of the routers, and the policy they implement | `SyncBorder_proofs` |
| `NetworkView` | polls, keys with lives, the breaker, classification and diagnosis | `NetworkView_proofs` |
| `CignalPlay` | Cignal subscriptions, requests and payments | `CignalPlay_proofs` |
| `FieldRecords` | records, the dispatch log, concerns and the SLA tasks | `FieldRecords_proofs` |
| `CutOver` | the legacy import and all that runs beside it | `CutOver_proofs` |
| `Access` | logins, roles, portal passwords, lockout, customers online | `CustomerAccount_proofs`, second half |

`MC<module>` gives the constants their values for TLC and defines the refuted claims
of section 5.

Common form.  A view that reads a row and saves it later is two actions, `Open...` (the
fetch and the checks before the write) and `Commit...` or `Save...` (the write), and anything may
happen in between; what it read is in its `session` (`job` in `Access`).  A view that locks the row reads
it again in the second action.  A handler of several commits is as many actions.  Each
behaviour fixes a set of handlers, `duty`, out of `Duties` (a constant), so that one run
covers many mixes of handlers; `Exclusive` names the handlers (in `DispatchPipeline`, the
sets) that run only while no other request is under way.  `CustomerAccount` and `NetworkView` run all handlers of a configuration,
in the former the set `Handlers`.  The code enforces no such order:
where a property needs it, section 5 says what happens without.

### CustomerAccount

`row` is the `Customer` table, `receipts` the `Payment` table in the order of
`paid_at`, `today` the clock in days.  `session` holds, per thread, what a request
has read and is about to write.  A view is an `Open...` action (the fetch and
the checks before the write) and a `Commit...` action (the transaction); anything
may happen between the two.  `CommitPay` and `CommitPortal` read the row again,
because the code takes `select_for_update()`; `CommitRebate`, `CommitRollback`,
`CommitEditExpiration`, `CommitEditBalance`, `SuspendCustomer` and `SuspendRogue`
write the row the session saw, because the code saves a whole model object.
`SweepCustomer` writes two columns (`update_fields`) computed from the old row.
`Saved` is the rule in `Customer.save` that a suspended row has no due date.

Two operations take more than one commit and are more than one action.  A rollback
saves the customer (`CommitRollback`) and then creates the negative `Payment`
(`RecordRefund`).  A renewal by auto-suspend saves the customer
(`Renews`, in `SuspendCustomer`) and then creates the `Payment` (`RecordRenewal`);
the batch's `owed` set says whose row is still to be written.  A desk payment ends with the
router step (`PayRouter`), which may save the customer again.

`collected` and `used` are history variables: the cash on the `Payment` rows, and
the money that has become service (with the balance the row opened with).  The
books balance when `collected + balance = used`.

Time is in days.  `CalendarMonth` is what `add_one_month` adds and `BaseDays`
the thirty days of the prorated price; the runs use different small values, so that
mixing the two up shows.

* `TypeOK` - every table and every request in flight is typed; a transfer or a
  correction writes a `Payment` row that exists; batches renew only dated rows.
* `Reconciles` - per customer the books balance, or a rollback is between its two
  commits.
* `MoneyIsConserved` - over all customers they balance, also when one payment is
  transferred twice at the same time.
* `RenewalKeepsPaidDays` - a payment never brings a running line's date forward.
* `ReceiptShowsDueDate` - a new receipt shows the account's due date, whoever renewed.

### DispatchPipeline

No dispatch handler locks the ticket row.  A request reads the ticket and computes
its copy (`Open...`), and what it has still to save is the `todo` list of its
session: `"ticket"` saves the whole copy, `"crew"` the technicians, `"rows"`,
`"retire"`, `"current"` the three writes of the hand-over history, `"close"`,
`"install"`, `"approve"` and the like a column or the whole row of the customer.
Each entry is one commit, in the order of the code, and other requests come in
between.  `seen` is the customer row as the request first read it
(`ticket.customer` is fetched on first use and cached after).

The two signals are part of the save that fires them: `SaveCustomer` completes the
open installations of an installed line (`Settled`) and asks for a ticket for a
waiting one (`Wanted`); a saved completed installation marks its customer installed
(`Finishes`, `AfterSave`), which fires the first signal again.  Only the `create` of
the signal is a step of its own, between its `exists()` and its insert, because that is
where another request can do the same.

Abstracted: time stamps, timers, durations, report fields, photographs, stage
credits, ticket numbers and audit rows; a technician is the same as their user;
`hands` keeps of `same_person_stages` what decides the flag.  Billing appears as the
three transactions tickets can see (`AddCustomer`, `Pay`, `Suspend`).

* `TypeOK` - tables typed and of one length; a request saves a ticket that existed.
* `NoFreeRide` - an active line has a due date or a payment behind it.
* `SignedOff` - an approved ticket was signed by an admin, or is a repair that QA
  called and that never bounced twice.
* `PatternsFlagged` - two bounces raise the alert, and several stages by one user
  raise the flag, also when requests overwrite each other.
* `SomeoneIsSeated` - at rest, a ticket with technicians has a current row in the
  hand-over history.

### AgentProgram

`referral`, `customer`, `event` and `batch` are the tables, `paid` the sum of a customer's
`Payment` rows in months of the plan price.  The conversion of a referral and every payment
lock the row and read it again; the other requests save what they read (`CommitEdit`
writes a whole `Prospect` back).  The signal on every `Payment` evaluates the
commission: `ReadLedger` sums the payments, `WriteLedger` writes the event as `Verdict` has it.
A batch is made in two actions, because `create_batch` chooses its events before the transaction
(`OpenBatch`, `CommitBatch`), and so is its payment.

* `ConvertedOnce` - a referral becomes a second customer only if staff reopened it.
* `OneCommission` - a customer earns an agent one commission.
* `QualifiedIsEarned` - at rest, a commission not paid out stands on two paid months,
  unless a payment was moved away or the agent changed.
* `LedgersAgree`, `BatchesAreWorth` - an event is paid out iff its batch is; a batch is
  worth its events.
* `PaidIsFinal` - a paid-out commission is never written again.

### SyncBorder and BorderPolicy

`row` is the `Customer` table by account name, `approvals` the `SYNC_PAIR_APPROVED` log rows,
`line` what each router does about each account (secret there, disabled, bridge rule),
`lock` the `ROUTER_MODE` and the write tokens.  A request reads the row, calls the router and records the
outcome: `Open...`, `Call...`, `Mark...` (or `CommitRetry`, `ReadReconcile`).  Of the two clients,
`sync_services` looks at the mode only (`SyncWrites`) and `network_manager` also asks for both
tokens and the pairing (`MainWrites`, `LetThrough`).  A router call may be refused, done or
failed after the write (`Answers`).

`BorderPolicy` is the abstract specification: a line of an account that is held changes only
while writing is on, for an account that is paired, or for which a request passed the gate
(an Admin may sign), or through the tools that ask for nothing.  `SyncBorder` instantiates it as `Policy`.

* `KeepsPolicy` - `SyncBorder` implements `BorderPolicy`.
* `SyncedIsThere` - a `Synced` row has its secret on its router, unless somebody removes secrets.
* `PairedIsReviewed` - a pairing that counts was given for the data the row now holds.
* `SuspendedIsCut` - what the command suspended stays cut off at the router, where no handler of
  the duty set suspends without the router's answer or moves the account.
* `FailedIsQueued` - a failed write is queued again while the account has a router.

### NetworkView

Redis keys are values with the ticks they still live: `active` (names with a session), `live`,
`uplink`, `counts`, `lastOk`, `beat`, `block` and `tries` of the breaker.  A poll is `StartPoll`, one
`PollRouter` per router (skipped when blocked) and `EndPoll`, which writes what it collected; polls of Celery and of
pages overlap, and the keys are those of the last to end.  `Fault` changes a router, the office tunnel or the subscriber's
equipment, `Tick` ages the keys.  The screens are operators: `Billing`, `Hardware`,
`Lifecycle`, `Listed`, `Counted`, `Verdict` and `Visible` (the gate of `auto_suspend`).
`seen` and `heard` are history: ticks since a session, or any router, was read.

* `ConnectedWasSeen` - a line called connected or healthy was read at most one poll and one life of `active` ago.
* `GateNeedsEyes` - when the gate opens, some router answered within `Horizon`.
* `RecoveredIsSeen` - a line that works again for good is found up again.

### CignalPlay

`play` is the subscription table, `request` the add-on requests, `ticket` the job made with a
subscription, `receipt` its `Payment` rows, `number` the legacy Cignal numbers, `typed` what staff last typed
(for the properties).  A payment holds the row locked from `OpenPay` to `CommitPay`; others write back
what they read.  Saving a whole row that was purged meanwhile inserts it again (`CommitEdit`); saving
some columns of it fails.  A pull-out is four steps, as in the code: tickets, flag, count of the
remaining plans, numbers.

* `PaidIsReceipted` - the amount on a subscription is the sum of its payments.
* `LoadsAddUp` - every load paid for since staff typed a date moved it on.
* `JobHasPlan` - a job nobody started belongs to a customer with a live plan.

### FieldRecords

Nothing locks a row or opens a transaction, so every save of a whole row may be stale and may insert a
deleted row again.  A portal concern is three actions (`Submit`, `SubmitRecord`, `SubmitTicket`), and
`Stop` kills the worker between them.  `LogDone` and `LinkLog` are Done's `update_or_create` and the
save of the link.  The SLA task walks a list it read (`SlaNext`, `SlaExtend`, `SlaRebate`, `SlaGiven`), the late-job check another
(`CheckNext`, `CheckRaise`).  Tabs, lists, exports and the report are operators.  Handlers in
`Exclusive` run while no other request is open; those in `Lone` run once at a time beside all others.

* `LoggedOnce` - a record has at most one entry of the dispatch log, and it says done.
* `SlaDaysMatch` - a due date has moved by what was paid and by the rebate days on record.
* `ConcernIsShown` - a concern is in its customer's history, and once while it has a ticket.
* `AlertsSpaced` - a subject is announced at most once in twelve hours.

### CutOver

An import is one transaction (`Begin`, `ReadRow` and `WriteRow` per row, `RowsDone`, `Pay`,
`Commit` or a failure): what it writes stays in its session until `Commit`, and the rows it wrote are locked.  Two
side effects are outside the transaction and belong to the worker process: `wired`, the save signals, and
`queued`, the payments to update.  `Deadlock` aborts one of two imports that wait for each other, `Stop` kills a worker.  Beside it run
the pre-flight (`Stage`), rulings (`Review`), pairings, the customer form, reset, recovery, the older
migrations and the plan and barangay commands.  `ruled`, `given` and `book` are history.

* `SignalsComeBack` - the signals are connected in each worker in which no import runs.
* `AllOrNothing` - rows of an import are there only with its history entry, and the ledger is the last export's.
* `OldPairingEnds` - no pairing older than an import opens the border for what it wrote.
* `ReviewStands` - rulings and passwords of before an import stand through it.
* `ImportEnds` - an import that began ends.

### Access

`login` is `auth_user`, `mirror` the rows of the Staff & Admins page, tied to it by name only;
`role` and `group` are the two sources of permissions.  `account` has the portal passwords, `told` what a
customer was last handed or chose; `tries`, `lock` and `posts` are the lockout and the limit per
address; `signedIn`, `seen` and `online` are the customers signed in and the list staff see.
Openings start a behaviour in the tables its duty set needs.

* `MirrorFollows` - every row of the page stands for one login, active and superuser as it says.
* `CounterCanPay` - an active CSR has the permission of the counter.
* `HandedWorks` - the password last handed or chosen is the one stored, and opens the portal.
* `DoorOpens` - a lock ends, and a limited address is served again.

## 3. Runs

| Run | Question | Properties | Bounds |
|---|---|---|---|
| `account_desk` | does each handler alone keep the books of two accounts, and does each receipt show the due date | `Reconciles`, `ReceiptShowsDueDate` | 2 customers, 1 thread, 2 plans with a fee |
| `account_online` | does an online payment keep paid days beside rebates, edits of date and balance, reactivations, receipt corrections and auto-suspend | `TypeOK`, `RenewalKeepsPaidDays` | 1 customer, 2 threads |
| `account_transfers` | is the total conserved when payments are transferred twice or crosswise | `MoneyIsConserved` | 2 customers, 2 threads |
| `dispatch_jobs` | can racing assignments, reviews and hand-overs lose a crew, a flag or a signature | `SomeoneIsSeated`, `SignedOff`, `PatternsFlagged` | 1 subscriber, 2 threads, 2 technicians, 1 repair, 2 bounces |
| `dispatch_line` | can an installation finished by anybody, in any order, activate an unpaid line | `TypeOK`, `NoFreeRide` | 1 customer (applicant or running line), 2 threads, 5 duty sets, 4 of them one request at a time |
| `agents_program` | do commissions and batches stay right through refunds, transfers and payouts | `ConvertedOnce`, `OneCommission`, `QualifiedIsEarned`, `LedgersAgree`, `BatchesAreWorth`, `PaidIsFinal` | 2 agents, 2 phones, 2 referrals, 2 customers, 1 batch, 2 threads, 6 duty sets |
| `border` | do row, approvals and routers agree, and is the policy kept | `SyncedIsThere`, `PairedIsReviewed`, `SuspendedIsCut`, `KeepsPolicy`, `FailedIsQueued` | 1 customer, 2 routers, 2 threads and the beat, 1 import, 1 restart, 17 duty sets |
| `network_view` | do screens and gate rest on fresh news | `ConnectedWasSeen`, `GateNeedsEyes`, `RecoveredIsSeen` | 1 router, 1 customer, 1 worker, 1 page, 1 fault, lives of 1 to 3 ticks |
| `cignal` | is any payment lost, does any job wait for nothing | `PaidIsReceipted`, `LoadsAddUp`, `JobHasPlan` | 1 customer, 2 subscriptions, 1 request, 2 threads, 5 duty sets |
| `records` | do records, log, history and days agree | `LoggedOnce`, `SlaDaysMatch`, `ConcernIsShown`, `AlertsSpaced` | 1 customer, 2 ticket numbers, 2 records, 3 log rows, 4 ticks, 1 kill, 2 threads, 8 duty sets |
| `cutover` | are imports whole and people's decisions kept | `SignalsComeBack`, `AllOrNothing`, `OldPairingEnds`, `ReviewStands`, `ImportEnds` | 2 customers, 5 exports, 2 imports, 3 ticks, 1 kill, 2 threads of one worker, 9 duty sets |
| `access` | do the two tables of staff agree, do passwords and doors open | `MirrorFollows`, `CounterCanPay`, `HandedWorks`, `DoorOpens` | 2 ids, 3 names, 2 customers, 2 devices, 2 tries, 3 passwords, 2 threads, 9 duty sets |

Every run passes: each property holds in every state, or behaviour, of its bounds.
`network_view` and `border` are the largest state spaces (690,000 and 1,050,000 states), and no run
takes more than a few minutes.

Bounds.  Every race here is between one stale reader and one writer, so two
threads are enough; where a job of Celery races with both, it is a third worker (`border`).  Two customers are enough for a
transfer, a batch of payments and two imports that lock in opposite order.  `LastDay`, `LastTick`
and `LastTime` let a date be in the future, today and in the past.  `MaxReceipts`, `MaxMoves`, `MaxPaid` and the
other `Max...` constants are named where they are declared; each leaves room for the second
write that the race needs.  `MaxTickets` of `DispatchPipeline` reserves two tickets per running request, because a save
may create one through the signal.  Two bounces raise the alert; two months earn the commission.  The lives
of keys differ where an inequality between them matters.

Duty sets.  A run over all handlers at once is out of reach and would break most properties at
once by the stale saves of section 5.  The sets put side by side the handlers that touch the same rows, and what they leave out
is a row of section 5 or a hypothesis of a theorem.

Fairness.  The system retries little by itself, and only what it does retry is assumed:
weak fairness of the five-minute retry (`Retry`, `FailedIsQueued`); of the beat's poll and its
steps and of the clock (`StartPoll`, `PollRouter`, `EndPoll`, `Tick`; settings.py:292-303, `RecoveredIsSeen`); of a running import,
with Postgres' deadlock detection as an action (`Import`, `ImportEnds`); and of time (`Tick`,
`DoorOpens`).  Requests of people are never assumed to come.

Deadlock is checked except in `border`, `records`, `cutover` and `access`, where a bound on imports, log
rows, ticks or passwords can end a behaviour.

The following hold too, when they are added to the configuration of their module, and are
kept out of the runs because they say less: `TypeOK` of `AgentProgram`,
`SyncBorder`, `NetworkView`, `CignalPlay`, `FieldRecords` and `CutOver`;
`DuplicatesFlagged` and `PortalShowsLedger` (agents); `BoxesAddUp` and `ScreensAgree` (Cignal);
`OneTab` (records); `ProfilePerCode` and `PlaceKept` (cut-over).

## 4. Proofs

Each theorem is about the module's own `Spec` (`AccessSpec` in `Access`), for every number of threads, customers, routers,
tickets and so on, and for every other value of the constants.  The assumptions on the constants
(`ASSUME` in the modules) give them types and positive bounds, keep the values that stand for nothing apart,
order two pairs of times as the code does, make the sets of customers and of login ids finite (so that a sum over all customers, or the first
free id, means something), and say that no opening row is an active line without a date; TLC evaluates them
in every run.  A theorem that holds only for some sets of handlers says so in its statement:
as a hypothesis on the constants (`ASSUME ... PROVE`), or as a condition on `duty`.  TLC refutes
each of these properties without its condition (section 5), so none of them is there for the
proof's sake only.  One refutation is the model's and not the code's: `SyncBorder` knows a row by its account name, so
that with `deleteCustomer` an approval in flight may meet a row made again under that name, where the code's primary
key would miss it.

`Exclusive` in a hypothesis means: these handlers run while no other request is under way.  The code
does not enforce it.  The theorem then says that everything else in the module, in any number and
order, keeps the property.

### CustomerAccount

* `TypeCorrect`: `Spec => []TypeOK`.  `TypeOK` is the conjunction of
  `TablesTyped` and `JobsSound`, and only the conjunction is inductive: a
  transfer keeps the `Payment` table typed because the row its session names
  exists, and a renewal keeps the date an integer because its session's row has
  a date; both facts are about sessions, and hold because the `Payment` table
  never shrinks (`ReceiptsStay`).
* `ReconcilesLocked`: with only the handlers that lock the row, and the force buttons, `Spec => []Reconciles`.
  The invariant is `TypeOK /\ OnlyLocked /\ Balanced`, where
  `Balanced` says that every account balances; the arithmetic is in
  `SettleType` and `BillType` (amount = fee + month + balance taken off), the
  payment in `BookedBalances`, the steps that leave the books alone in `SameBooks`.
* `ReconcilesAlone`: `Spec => []Reconciles` with the handlers that save a whole row too, when one request or batch runs at a
  time (`OneAtATime`; the force buttons and the clock act at any moment) and nobody types an amount anew (`NothingTyped`:
  neither `editBalance` nor `editPayment` runs, which change one side of the books by design).  The invariant has two parts.
  `CopiesFit` says that what the request has read still counts for what is in the table: the balance of the row, the `Payment`
  to be transferred, in a batch the balances of all rows.  `AllKept` says what the books are at a rollback's half-way
  point, where `Balanced` fails: they are off by the very amount its session is about to record.  Each handler is then a lemma
  that it keeps the three (`Keeping`), or moves the `Payment` of a renewal, after which `Reconciles` claims nothing.
* `PortalKeepsPaidDays`: without the cashier's page, `Spec => RenewalKeepsPaidDays`,
  with every unlocked handler running.  It rests on `NewExpiryNotEarlier` and on
  `NoPay`, that no session holds a desk payment.
* `ReceiptsShowDates`: `Spec => ReceiptShowsDueDate` with all handlers, when one request or batch runs at a time
  (`OneAtATime`, a hypothesis on `Staff`; the force buttons and the clock act at any moment) and the two force buttons
  are not both in use (`OneForce`).  The invariant `OwedSound` is about the renewals of the batches, which save the row in one
  commit and write its `Payment` in the next: the loop's own copy has the row's due date, unless
  the line has been forced off in between.
* `MoneyStays`: `Spec => []MoneyIsConserved`, for any number of customers and threads, when only the locking handlers and
  `transfer` run (`MovingHandlers`).  Two transfers of one `Payment` row leave each customer with a wrong balance, so
  `Balanced` is no help; the sum over all customers stays because a transfer takes from one what it gives to the other, whatever
  the row has become.  The invariant `MovesSound` says that the copy of the `Payment` row a transfer has read counts for what the row counts for.
  What the sum is after one or two terms changed (`SumSame`, `SumChanges`, `TotalChanges`) is proved by induction over the
  finite subsets: a least subset for which it fails (`WFMin` of the library, no operator parameter) would have a smaller one.

### DispatchPipeline

All five rest on `Inv`: `TypeOK`, `SessionsSound` (a session saves a ticket that existed, and what is left
of its `todo` list is a list its handler can have, `Planned`) and `SeatsBounded`.  Most handlers share the save of
the ticket and the two signals, so that the lemmas are about saves (`AtOnceInv`, `AfterSave`), not about handlers.

* `TypeCorrect`: `TypeOK`, no condition.
* `FlagsHold`: `PatternsFlagged`, no condition.  `FlagInv` says of each copy about to be saved what the property says of the table: a
  lost update puts back a counter and its alert of one moment together.
* `ApprovedIsSigned`: `SignedOff`, when `duty` has none of `updateStatus`, `edit`, `replace`
  (`Overwriting`).  `SignInv` again speaks of the copies.  The hand-over is among the three because it saves a
  whole ticket it read before: an old copy that is `APPROVED` returns over a bounce.
* `LinesAreBilled`: `NoFreeRide`, when `duty` has no `suspend`, or none of the handlers that activate a line
  (`Covered`).  `FreeInv` says of every customer row a session has seen, `seen`, that the line has a date or a payment.
* `SomebodyIsSeated`: `SomeoneIsSeated`, when `duty` has neither `edit` nor `delete` (`Unseating`): the
  edit form saves a crew without any row of the history, and a deletion takes the rows from under a running assignment.  `SeatInv` follows each
  assignment through its three writes: a crew is seated, or some session has a row for it to make current (`Soon`).

### AgentProgram

* `TypeCorrect`: no condition; the sessions' ids are rows that exist (`Holds`).
* `CommissionIsOne`, `CommissionIsEarned`: `OneCommission` and `QualifiedIsEarned`, when refunds and
  corrections are in `Exclusive` (`OnePost`: they lock no row).  `CommissionInv`: a payment excludes others of the same customer (`Locked`, from the
  row lock), what its request read of the ledger still holds (`UpToDate`), and a commission that is not earned any more is being mended by
  the request that unearned it (`Earned`, `Mending`).
* `LedgersAlwaysAgree`, `BatchesKeepWorth`, `PaidOutIsFinal`: `LedgersAgree`, `BatchesAreWorth` and the action
  property `PaidIsFinal`, when the two payout handlers are in `Exclusive` (`OnePayout`).  `BatchInv`: what a request read of a
  commission was not paid out since (`Fresh`), and the events of a batch about to be made are free and as many as were
  counted (`Counted`).
* `ReferralConvertsOnce`: `ConvertedOnce`, when the agent's edit and the staff's first look are in `Exclusive` (`OneLook`: both save a
  whole row).  `ReferralInv`: a referral a customer came from is closed or was reopened (`Shut`).

### SyncBorder

* `TypeCorrect`: no condition.  `BorderInvCorrect` adds that a session's handler is one of `duty`.
* `Refines`: `Spec => KeepsPolicy`, the refinement of `BorderPolicy`, no condition.  The mapping is read off
  the state: `granted` is the set of requests past the gate.  Each step of `SyncBorder` is a `Desk`, `Grant`, `Write`, `Redeploy` or a
  stutter of the policy; the proof goes handler by handler, and what it needs of a handler is which gate it passed when it was opened.
* `PairingIsCurrent`: `PairedIsReviewed`, when `import` is in `Exclusive` and `duty` has no `deleteCustomer`.
  `ReviewInv`: an approval at least as new as the row's stamp is for the row's data, nothing is newer
  than the imports, and what a request has read is what the row still says.
* `SuspensionHolds`: `SuspendedIsCut`, no condition beyond the one in the property.  `CutInv`: the command has cut the line before it
  marks the row.
* `SyncedHasSecret`: `SyncedIsThere`, when `edit` and `import` are in `Exclusive` (`Undisturbed`).  `ThereInv` says of the row,
  and of every copy a request has read, that it is not `Synced` or has its secret, and of a request about to mark the row that
  what it was told by the router is still so (`Seen`, `RowsAreThere`); nobody but the handlers the property excludes removes a secret.

### NetworkView

No conditions.  `TypeCorrect`: `TypeOK`, from `Types`, which also has that blocks are powers of two up to the cap.
`GateHasEyes`: `GateNeedsEyes`.  `ConnectedLineWasSeen`: `ConnectedWasSeen`.  Both follow from `AgeInv`, four
statements about ages: a ping's result and the time it still lives (`PingAge`), what a running poll has collected and how
long it may still run (`PollAge`), and the two keys a poll writes (`LiveAge`, `ActiveAge`).  Each is a sum that no tick changes, because a
tick adds one to an age and takes one from a life; overlapping polls are no case of their own, since each poll satisfies `PollAge` alone.

### CignalPlay

* `TypeCorrect`: no condition.
* `ReceiptsAddUp`, `LoadsKeepDays`: `PaidIsReceipted` and `LoadsAddUp`, when `edit` is in `Exclusive` (the correction saves a whole row without
  a lock).  `BookInv`: one payment at a time holds a row (`OneTill`), what it read is still there (`Fair`), and
  every row, purged or not, is what its receipts say (`Square`).  Purged rows are included because a stale save may bring them back.
* `JobsHavePlans`: `JobHasPlan`, when `crew` is in `Exclusive` (a crew's step writes an old ticket back over a
  cancellation).  `JobInv`: a job that waits is of a live row that no request is about to take off the air.

### FieldRecords

* `InvCorrect`: `Inv`, no condition: `Tables` (types), `Numbered` (a ticket number belongs to one customer and at most one live ticket),
  `Linked` (an entry made of a record is done, is of its concern and is alone), `Sessions`
  (a copy keeps its row's customer and number; the SLA task's list has no entry made of a record).  All steps only add
  rows and keep their customer and number (`Grown`), which is why copies stay sound.
* `EntriesAreOne`: `LoggedOnce`, no condition.
* `ConcernsShown`: `ConcernIsShown`, when `~Crowded`: no two submissions in one second, which is where the
  ticket number comes from.
* `AlertsAreSpaced`: `AlertsSpaced`, when the late-job check runs once at a time.  `AlertInv`: what the check found not told
  yet is still not told when it writes (`Asked`).
* `SlaDaysAddUp`: `SlaDaysMatch`, when one rebate task runs at a time, a payment runs alone, and no duty set has the task with
  `form` or `stop` (`OneGiver`).  `MoneyInv` follows the task through its three writes: the due date first, the rebate
  next, the entry's days last, so that the sum over the entries lags by the one in hand (`Ledger`, `Sound`).

### CutOver

* `SignalsReturn`: `SignalsComeBack`, no condition.
* `ImportIsWhole`: `AllOrNothing`, when no export of a duty set has a payment the database refuses: its queued updates survive
  the rollback in the worker's list (payments.py:230).  `Recorded`: the number on a row is that of an import in the history, and on a row of a running
  import its own.  `Ledgers`: the lists are empty between imports and the ledger has the amounts of the last export.
* `PairingsEnd`: `OldPairingEnds`, when no duty set has both `edit` and `pair`: a form opened before the import saves the old stamp over the new one.
  `Pairings`: a row's stamp is not older than the beginning of any import that has it, or no approval is older.
* `RulingsStand`: `ReviewStands`, when each duty set is `Sole`: not both of the form and the rulings, neither beside the older migration, and the form beside a
  recovery only if the routers' secrets are not blank.  `Standing` says of every row, of every row in a running import and of what an import has
  read that rulings and passwords stand in it.

### Access

`AccessTypeCorrect`: the tables and what requests have read keep their types, and an agent's login exists; no condition.  The
other three have an invariant each, and name the handlers that must not meet:

* `MirrorAlwaysFollows`: `MirrorFollows`, under `StaffKept`: the edit form runs alone; no duty set has agents' logins together with
  the edit form or the persona command, nor the persona command with the forms; and the opening tables fit.  `StaffInv`: the two
  tables have unique names, each row's login exists and says the same (`Follows`), and an open form's row is still the table's
  (`EditsFresh`).  `MirrorFollows` alone is not inductive: with two logins of one name the signal would write to the wrong row.
* `CounterAlwaysPays`: `CounterCanPay`, under `StaffKept` and `CounterKept`: `setup_rbac`, whose matrix takes the permission away, is
  not mixed with the forms that make a CSR, nor run where there is one.  `PayInv` adds that every CSR's login is in the group
  and that the group has the permission (`Paying`).
* `HandedStayWorking`: `HandedWorks`, under `HandKept`: the desk's form and the bulk reset run alone, the bulk reset is not
  killed, the gateway refuses no message.  `HandInv`: a desk form's copy is the row (`DeskFresh`), and the rows a bulk reset has
  passed have the passwords it holds (`BulkGoes`), which are told only at its end.

### What the proofs changed

Three definitions had a meaning that TLC settles and the logic does not: `Marked` (`SyncBorder`) and a status of the agents' ledger
(`AgentProgram`) were `CASE`s whose branches overlapped, and `Role` (`Access`) read `SUBSET Acts \cup {Ungranted}` without
parentheses.  They now say what TLC took them to say.

### Only model-checked

* Liveness: `FailedIsQueued`, `RecoveredIsSeen`, `ImportEnds`, `DoorOpens`.  TLAPS has no rule for fairness that
  the installed provers can use (`ENABLED`).

## 5. Where code and comments disagree

TLC refutes each definition below when it is named in the configuration of its module's run, changed
as the table says (`-` for not at all).  They are claims of comments, documents and screens, and are defined in the `MC` modules
unless the name is a property of section 2.  No run checks them: what they show is a stale save, a
missing lock or a status nobody looks at, and the properties of the runs are stated beside
them.  Line numbers are those of the code that makes the difference.

### CustomerAccount

| Definition | Handlers | Code | Said at |
|---|---|---|---|
| `RenewalKeepsPaidDays` | `pay` alone, 2 threads | `transactions.py:84-94` computes the date before the lock at 97: of two payments at once one month is lost | `billing/views/__init__.py:62` |
| `CutsOnlyPastDue` | `pay`, `portal`, `suspend`; `Opening <- Lapsed` | `auto_suspend.py:247-252` saves the row it read at the start, though the customer has paid since | `auto_suspend.py:91` |
| `ActiveHasDueDate` | `pay`, `forceSuspend`, `forceReactivate` | `actions.py:197-200` reactivates without a date | `models.py:346-348` |
| `PaidMonthStays` | `pay`, `editBalance`; read-only routers, suspended opening row | `transactions.py:326-334` saves a suspended row, `models.py:766` drops its date | `transactions.py:308-309` |
| `ReceiptShowsDueDate` | `suspend`, `forceSuspend`, `forceReactivate` | `auto_suspend.py:188-191` saves a renewal and creates its `Payment` in a later commit: a line forced off and on in between has lost the date the receipt shows | `billing/tests/test_payment_ledger.py:153` |
| `ReceiptShowsDueDate`, 2 threads | `pay`, `sweep` | `expiry_sweep.py:63-64`: a payment between the save and the `Payment` row moves the due date on | `billing/tests/test_payment_ledger.py:153` |
| `MoneyIsConserved` | `pay`, `editExpiration` | `actions.py:258-275` reads the row, types a date into it and saves all of it: the credit of a payment committed in between is lost | `gametech_filing_index.md:108` |
| `MoneyIsConserved` | `pay` and `editPayment`, or `editBalance` | `management.py:75-80`, `actions.py:358-362`: an amount is typed anew, by design, and no account follows | - |
| `Reconciles`, 2 threads | `pay`, `rebate` | `rebates.py:78` saves the row it read | `gametech_filing_index.md:108` |
| `Reconciles`, 1 thread | `pay` and `editPayment`, or `editBalance` | as for `MoneyIsConserved` above, by design | - |

### DispatchPipeline

| Definition | Handlers | Code | Said at |
|---|---|---|---|
| `InstalledHasNoOpenInstall` | `dispatch_line` with `Exclusive = {}` | `signals.py:39, 113`: an unpaid line keeps `status='pending'`, and the signal opens a second installation | `signals.py:33` |
| `InstalledIsNotClosed` | `create`, `return`; `Opening <- Subscriber` | `views_tech.py:498`: returning any job closes the customer as not installed | `views_tech.py:478`, "if applicable" |
| `OneOpenInstall` | `add`, `pay`, `reopen`, `close`, `delete`, `approve`; `Opening <- Applicant` | `signals.py:68-113` looks, then creates | `signals.py:67` |
| `ClosedHasNoOpenInstall` | `close` | `views_approval.py:502-504`: the closed customer's status is still `pending` | `docs/SPEC.md`, decision 12 |
| `ReturnedAfterCalls` | `create`, `return` | `views_tech.py:489-495` counts no attempt | `views_tech.py:477` |
| `CancelledStays` | `qa`, `close` | `views_approval.py:128-135` sets the status whatever it is | `views.py:681` |
| `CallsCounted` | `call`, 2 threads | `views_tech.py:439-441` increments its copy | `tickets.py:122` |
| `InstallsAreSigned` | `updateStatus` | `views.py:675-685` sets any status | `docs/SPEC.md:3` |
| `SiteVisitsSkipApproval` | `qa` | `views_approval.py:120` does not look at the type | `tickets.py:170` |
| `ActiveIsDated` | `approve`, `pay` | `views_approval.py:303`, `models.py:361-363`: any payment suffices | `models.py:346-348` |
| `ActorsStay` | two stages at once | `tickets.py:186-198`: the actors are one JSON column | `docs/SPEC.md:15` |
| `CrewAgrees` | `undispatch` | `views_queue.py:367` clears one of two records | `views_queue.py:190` |
| `RelievedStayRelieved` | `create`, `assign`, `replace` | `views_queue.py:203` seats a relieved row again | `tickets.py:331` |
| `NobodyReplacesThemselves` | `create`, `assign`, `replace`, 2 threads | `views_handover.py:176` checks the page's list | `views_handover.py:174` |
| `ReopenedHasJob` | `reopen` | `views_approval.py:543`: the status written is none the signal knows | `views_approval.py:536` |
| `SomeoneIsSeated` | `assign`, `delete`; or `edit` | a deletion takes the history from under an assignment; the edit form saves a crew only | - |
| `SignedOff` | `updateStatus`, `edit` or `replace` beside the reviews | a whole ticket is saved as it was read, an old `APPROVED` too | `docs/SPEC.md:3` |
| `NoFreeRide` | `suspend` beside the handlers of a finished installation; `Exclusive = {}` | a stale row makes a line that was cut off active, without date or payment | `models.py:346-348` |

### AgentProgram

| Definition | Change to the run | Code and claim |
|---|---|---|
| `ConvertedStays` | - | a referral is declined whatever its status, a converted one too (claim: `crud.py:290`) |
| `DeclinedIsNotConverted` | - | `crud.py:295` asks for `reopened_at`, which stays set after a second decline |
| `RevokedIsNotPaid` | - | `incentives.py:340` pays every event of the batch, whatever became of it (claim: `incentives.py:57`) |
| `EarnedStaysEarned` | - | `management.py:191`: a transfer evaluates the receiver only (claim: `incentives.py:57`) |
| `PhonesUnique` | - | `crud.py:148` looks for the number when the form is opened, and no constraint repeats it |
| `OpenedIsLocked` | `add`, `edit`, `open`; `Exclusive = {}` | the agent's edit saves the whole row (`agents.py:214`), over the staff's first look (claim: `agents.py:143`) |
| `OneAgentPerCustomer` | `convert`, `reassign`, `pay`, `refund`; `Exclusive = {}` | `incentives.py:76` looks for an event of customer and agent (claim: `docs/SPEC.md`, decision 7) |
| `ConvertedOnce` | `add`, `edit`, `open`, `convert`; `edit` or `open` not exclusive | a stale save makes a converted referral one to convert again |
| `OneCommission` | `convert`, `pay`, `correct`; `Months = {1, 2}`, `MaxPaid = 3`, `Exclusive = {}` | a correction locks no customer: two of them find no event and make one each |
| `QualifiedIsEarned` | `convert`, `pay`, `refund`, `correct`, the last two not exclusive | a verdict is written on a sum read before |
| `LedgersAgree`, `BatchesAreWorth`, `PaidIsFinal` | `batch`, `markPaid` not exclusive | `incentives.py:301, 326`: what the batch holds is read before the transaction and without a lock |

### SyncBorder

| Definition | Change to the run | Code and claim |
|---|---|---|
| `TwoKeys` | - | `sync_services` asks for the mode only (claim: `services/base.py:26`) |
| `UnpairedIsNotWritten` | - | edit and delete of the Winbox page ask for no pairing (claim: `models.py:418`) |
| `UnpaidIsConnected` | - | `sync.py:220` looks at the disabled flag; a bridge rule cuts too (claim: `sync.py:433`) |
| `PaidCutOffIsPaid` | - | the tag `cut_off` does not ask for the due date (claim: `sync.py:416`) |
| `BlockedIsKept` | - | the retry saves `Pending` over what the row says by then (claim: `signals.py:75`) |
| `PairedStays` | - | the log clean-up removes approvals of 90 days (claim: `models.py:566`) |
| `SyncedIsThere` | `edit` not exclusive (with `push`, `approve`) | the form saves the old `sync_status` with a new router |
| `SyncedIsThere` | `import` not exclusive (with `push`, `approve`) | an approval finds the secret on the router of the row it read, and marks the row the import has given another router since |
| `PairedIsReviewed` | `import` not exclusive | an approval is stamped when it is written, for a row read before |
| `SuspendedIsCut` for every duty set | `suspend` or `cutBatch`, writing off | the row is suspended though the router refused; a bulk transfer leaves the secret on the old router |

### NetworkView

All as they are.  The common cause is that `get_active_pppoe_users` answers with an empty list for a router it
could not reach, so that the poll counts the router as read, and that the keys end at different times.

| Definition | Claim |
|---|---|
| `OfflineIsMeasured` | `customer_state`: a line is never called offline when the network cannot be seen |
| `BridgeIsHeard` | `get_live_monitoring_data_sync`: a router is listed only if it answered |
| `DispatchIsMeasured` | `diagnose_link`: "safe to dispatch" rests on names that were read |
| `ScreensAgree` | the list's "dispatch" and the diagnosis' "do not dispatch" exclude each other |
| `CounterOutlivesBlock` | `_trip_breaker`: blocks grow 30 s, 2 m, 5 m, 15 m |
| `FilterIsCount` | the plan page's filter lists the lines its card counts |
| `UplinksAgree`, `OfflineIsListed` | two pages about one router, or one line, say the same |
| `SecretIsAsked` | "Secret Not Found on Router" is of a router that was asked |

### CignalPlay

| Definition | Change to the run | Code and claim |
|---|---|---|
| `WithdrawnStaysGone` | - | a request deleted while staff resolve it is saved again (claim: `cignal_dashboard.py:660`) |
| `AnsweredOnce` | - | two activations of one request make two subscriptions (claim: `services.py:642`) |
| `PurgedStaysGone` | `activate`, `edit`, `cancel`, `purge`; `Exclusive = {}` | the edit inserts the purged row again (claim: `cignal_dashboard.py:591`) |
| `NumberHasPlan` | `form`, `cancel`, `edit`; `Exclusive = {}` | the numbers are cleared after a count of plans that may be stale (claim: `cignal_dashboard.py:531`) |
| `PaidIsReceipted`, `LoadsAddUp` | `edit` not exclusive | the correction saves the amount, date and count it read |
| `JobHasPlan` | `crew` not exclusive | a crew's step writes the old ticket over the cancellation |

### FieldRecords

| Definition | Change to the run | Code and claim |
|---|---|---|
| `TabsCountTickets` | - | no tab counts an approved ticket (claim: `views.py:976`) |
| `QueueShowsAll` | - | a pending ticket with a team is under no tab (claim: `views_queue.py:26`) |
| `ExportIsList` | - | the list knows groups of statuses, the export compares the word (`views.py:1320`) |
| `LogIsExported` | - | `d.done_at - d.date` is a time less a date: a `TypeError` once a row is done (`views.py:1968, 2071`) |
| `PageOpens` | `submit`, `dispatch` | `combine(r.date, start)` gets a time that is not one (`views.py:1240`) |
| `SubmittedIsQueued` | - | the ticket's insert may fail or never be reached (`customer_portal/views/tickets.py:134`) |
| `ConcernsAreTwo` | - | two log entries of one number are one line of the history, once their record was deleted |
| `OverIsNotOwed` | - | `tasks.py:102` looks for entries not done: a portal concern's stays so after its record is done |
| `LogLinksBack` | - | the link is a save of its own, after the entry (`views.py:1940`), and the worker may stop before it |
| `FinishedIsLogged` | - | the completion form finishes a record without an entry (claim: `records.py:46`) |
| `DeletedStaysGone` | - | a stale save inserts the record again (claim: `views.py:1422`) |
| `PendingIsPending` | - | a record done once stays under Completed, whatever its label (claim: `views.py:1839`) |
| `ApprovedEarnsTwo`, `SigningKeepsRate` | - | opener and closer may be nobody; an approved ticket is not counted as closed (`reports.py:11, 83`) |
| `LateIsRed` | - | an alert told early is not told again in red within its twelve hours (`tasks.py:511`) |
| `EachIsAnnounced` | - | an applicant is looked up by name: two of one name get one alert (`tasks.py:527`) |
| `SlaDaysMatch` | a payment, a second task or the completion form beside the task, or a stop in it | `tasks.py:134` saves the whole customer, and the days afterwards |
| `ConcernIsShown` | `Crowded = TRUE`, 2 customers | two customers get one ticket number |
| `AlertsSpaced` | two checks at once | both find nothing told yet |

Both SLA tasks (`tasks.py:94, 509`) are on no schedule of beat; they run where the old pages start them.

### CutOver

| Definition | Change to the run | Code and claim |
|---|---|---|
| `PairedSawThis` | - | an approval that read the row before the import is stamped after it (claim: `import_legacy_customers.py:401`) |
| `RulingStands` | - | a ruling made during an import is overwritten by it (claim: `actions.py:108`) |
| `ReportIsTrue` | - | the report file is written before the commit |
| `ImportIsQuiet`, `OnlyImportIsQuiet` | - | the signals belong to the worker process, not to the import (claim: `import_legacy_customers.py:174`) |
| `EveryRowIsRead` | - | a `;` in a value ends the statement, and its remaining lines are not read (claim: `parser.py:198`) |
| `DoneAsForetold` | - | the system has changed since the summary, or the click brings a file of its own (claim: `settings.py:396`) |
| `PlanNamesDiffer` | - | an import makes two plans of one name for two codes of one price and speed |
| `PlanKept`, `NeverBlank`, `SyncedIsPaired` | - | the recovery and the older migrations write over what was there |
| `PendingWaits` | `import`; `Content` with `waits` | a pending row is imported (claim: `preflight.py:123`) |
| `PlanFits`, `ProfilePerCode` | `map`; `Catalogues <- OddCatalogue` | `map_plans` takes a plan by its name, and one plan for two codes |
| `RoutersUntouched` | `import`, `first`, `reset`; `Armed = TRUE` | deleting a customer removes its secret (claim: `reset_operational_data.py`) |
| `PlaceKept` | `import`, `places`, `edit`, `first` | a form saves the barangay that was merged away |
| `OldPairingEnds` | `import`, `edit`, `pair` | a form opened before the import saves the old stamp |
| `AllOrNothing` | an export with a payment the database refuses | `payments.py:230`: the list of updates survives the rollback |
| `ReviewStands` | duty sets that are not `Sole` (section 4) | stale forms, rulings and migrations overwrite each other |

### Access

| Definition | Change to the run | Code and claim |
|---|---|---|
| `NoFormFails` | - | the Admin role of the forms (`add_staff.html:212`, `edit_staff.html:212`) makes a second mirror row, and the transaction fails |
| `OpensTheOneNamed` | - | the page's key may be of a login or of a mirror row (claim: `changelog.html:470`) |
| `EditorRules` | - | the name of the role opens pages that the editor closed (claim: `decorators.py:16`) |
| `TickedIsKept` | - | with no subtab ticked all are granted (`staff.py:237`) |
| `RenamedKeepsMembers`, `LeavesTheCounter` | - | neither rows nor groups follow a role that is renamed or left |
| `DeletedStaysGone` | - | the list makes a mirror row for every login that is left (claim: `staff.py:582`) |
| `DeactivatedStaysOut` | `list`, `link`; `Openings <- Dismissed` | `link_persona_profiles` switches the login on (claim: its line 24) |
| `OnlineIsShown` | `Sampled = 1` | the page looks through the first sessions only |
| `GoneIsNotShown` | `page`, `logout`, `poll`, `clock`, `login`; `Exclusive = {}` | the list is read, changed and put back (`billing/views/auth.py:470`) |
| `HandedWorks` | the bulk reset killed, a refused message, or a form of the desk beside it | the new password was told to nobody, or an old one is saved again (`views.py:1583`) |
| `CounterCanPay` | `rbac` on the office's tables, or with the forms | the matrix of `setup_rbac` takes the permission of the counter away (claim: `setup_dispatch_permissions.py:26`) |
| `MirrorFollows` | `edit` not exclusive; or `edit` with `agent` (3 ids); or `link` with `agent`, `edit` or `add` | the form saves the row it read when it was opened; a persona that waits for its profile, or an agent's login, is changed by the one page and not by the other |

## 6. What is not modelled

* Account: the customer form and the deletion of a customer, add-on charges, the first
  installation's billing.  All customers of `CustomerAccount` are installed.
  Auto-suspend's count, its `exists()` and the query its loop runs are taken as one read.
* Dispatch: timers and durations, report fields, credits, teams and duty; the
  synchronisation of an open ticket's address and plan (`signals.py:74-99`); `pipeline_views.py` and the
  handlers of `views.py` that no route reaches.
* Agents: the agents' own records, the cash-out note (it only logs), the cascade of deletions.
* Border: Winbox profiles, the device screens, the page's cache of the router's answer, `dry_run`.  Rows and approvals are
  known by account name: a request that holds a deleted row finds the one made again under its name, where the code's
  primary key would not.
* Monitoring: traffic rates, health flags set by staff, payload caches of 20 to 30 s, the legacy login.
* Cignal: lists, search and the wording of notices; a crew's own handlers are in `DispatchPipeline`.
* Records: what a crew measures (`JobDetail`), the edit of teams and technicians, the renaming of an option that
  screens look for by its word.
* Cut-over: the issue lists and the readiness report, which only read; dry runs.
* Access: the policy on the text of a password, the administrator's access keys, the limit on API calls, the edit of one's
  own profile, the audit trail; one module stands for all in the role editor.
* Whole parts: the past-due alert (one notification a night), ticket numbers (tickets are named by their place; a
  collision of numbers fails the request), messages and notifications (no state depends on them; the welcome message is in
  `Access`), Xendit invoices (the payment enters by the portal handler), backups, maps and charts.
* A crash between two commits of one request has no action of its own in `CustomerAccount`, `DispatchPipeline`, `AgentProgram`, `SyncBorder` and
  `CignalPlay`.  Each commit is an action, so every state a crash leaves behind is a state of the model and the safety properties hold
  in it; those that speak of rest (`Quiet`, no session open) are not claimed for a system where a request
  died half way.  `FieldRecords`, `CutOver` and `Access` have the stop as an action, since a handler there is
  long or has side effects outside the database; `SyncBorder` has the restart of the process that holds the write tokens.
* Who may call a handler, beyond the roles the sign-off and the gates of `Access` depend on.

## 7. Plan

1. A key beside the account name in `SyncBorder`, after which `PairingIsCurrent` needs no word about deletion.
2. What no theorem can reach stays with TLC: liveness (section 4).
