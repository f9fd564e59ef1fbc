-------------------------- MODULE CustomerAccount --------------------------
(***************************************************************************)
(* The billing side of a subscriber: the Customer row, the Payment rows    *)
(* and every handler that moves money, the due date or the billing status. *)
(*                                                                         *)
(* gunicorn runs the handlers on sixteen threads and Postgres runs READ    *)
(* COMMITTED without ATOMIC_REQUESTS, so the row a view fetched may be old *)
(* when it writes.  Each request is therefore a session that first reads   *)
(* (Open...) and later writes (Commit...); anything may happen in between. *)
(* Handlers that write with select_for_update() re-read the row inside     *)
(* Commit; the others write back the row they saw.                         *)
(*                                                                         *)
(* Time is counted in days.  All modelled customers are installed.         *)
(***************************************************************************)
EXTENDS Integers, Sequences, FiniteSets, Functions

CONSTANTS
    Customers,      \* subscribers
    Staff,          \* threads that serve requests or run the beat tasks
    Plans,          \* subscription plans
    Price,          \* monthly price of each plan; 0 stands for "no plan"
    Gimi,           \* the plans whose name contains GIMI
    UpgradeFee,     \* one-time fee for moving to a GIMI plan (500 in the code)
    BaseDays,       \* the month of the prorated price (30 in the code)
    CalendarMonth,  \* the days add_one_month adds
    Amounts,        \* the amounts a request may carry
    Dates,          \* the due dates a request may carry
    Opening,        \* the rows the table may start with
    Handlers,       \* the handlers this configuration runs
    Staggered,      \* customers for whom can_pay_staggered holds
    Paired,         \* customers with a device whose pairing a human approved
    Rogue,          \* unverified customers with suspicious_reasons
    ReadOnly,       \* TRUE when the router API resolves to read_only
    SuspendLimit,   \* BULK_SUSPEND_THRESHOLD
    LastDay,        \* bound on the clock
    MaxReceipts,    \* bound on the number of Payment rows
    MaxMoves,       \* bound on the transfers of one Payment row
    NoDate,         \* expires_at IS NULL
    NoPlan          \* the request names no plan to change to

Statuses == {"active", "expired", "suspended", "inactive", "pending"}
Cut      == {"suspended", "inactive", "expired"}

Row     == [status : Statuses, expires : Int \cup {NoDate}, balance : Int, plan : Plans]
Receipt == [cust : Customers, amount : Int, expires : Int \cup {NoDate}, cash : BOOLEAN,
            moves : Nat]

ASSUME PeopleAssumption == IsFiniteSet(Customers) /\ Rogue \subseteq Customers

ASSUME PlanAssumption ==
    /\ Price \in [Plans -> Nat]
    /\ Gimi \subseteq Plans
    /\ NoPlan \notin Plans
    /\ UpgradeFee \in Nat
    /\ BaseDays \in Nat
    /\ CalendarMonth \in Nat

ASSUME RequestAssumption ==
    /\ Amounts \subseteq Nat
    /\ NoDate \notin Int
    /\ Dates \subseteq Int \cup {NoDate}
    /\ Opening \subseteq Row
    /\ ReadOnly \in BOOLEAN
    /\ SuspendLimit \in Nat
    /\ LastDay \in Nat

VARIABLES
    row,        \* the Customer table
    receipts,   \* the Payment table, in the order of paid_at
    today,      \* timezone.now()
    session,    \* what each thread has read and is about to write
    collected,  \* history: total of each customer's cash Payment rows
    used        \* history: money's worth of service each customer has had, with
                \* the balance the row opened with

vars == <<row, receipts, today, session, collected, used>>

Idle == [op |-> "idle"]

-----------------------------------------------------------------------------
(* Pure computations of the billing code *)

Future(d) == d # NoDate /\ d > today
Past(d)   == d # NoDate /\ d <= today

Smaller(a, b) == IF a < b THEN a ELSE b
Later(a, b)   == IF a < b THEN b ELSE a

\* Mutant: a renewal always starts today.
StartOfToday(r) == today

\* Where a renewal starts when the row's own due date may have lapsed.
StartOf(r) == IF Future(r.expires) THEN r.expires ELSE today

\* Days an amount buys when it is not exactly one monthly price.
Prorated(amount, price) == (amount * BaseDays) \div price

NewExpiry(start, amount, price) ==
    IF price <= 0 \/ amount <= 0 THEN start
    ELSE Later(start, today)
           + (IF amount = price THEN CalendarMonth ELSE Prorated(amount, price))

\* Mutant: the debt is settled, but the full amount still buys service.
SettleWithoutDeduction(balance, money, price) ==
    LET debt  == IF balance > 0 THEN Smaller(money, balance) ELSE 0
        month == IF price > 0 /\ money > price THEN price ELSE money
    IN  [balance |-> balance - debt - (money - month), month |-> month]

\* Debt first, then at most one month of service, the rest to the wallet.
Settle(balance, money, price) ==
    LET debt  == IF balance > 0 THEN Smaller(money, balance) ELSE 0
        left  == money - debt
        month == IF price > 0 /\ left > price THEN price ELSE left
    IN  [balance |-> balance - debt - (left - month), month |-> month]

FeeFor(old, new) == IF new \in Gimi /\ old \notin Gimi THEN UpgradeFee ELSE 0

\* Customer.save: a suspended row loses its due date unless told otherwise.
Saved(r) == IF r.status = "suspended" THEN [r EXCEPT !.expires = NoDate] ELSE r

\* Mutant: a status that is not one of the model's choices.
RedatedReinstated(r, d) ==
    [r EXCEPT !.expires = d, !.status = IF Future(d) /\ @ \in Cut THEN "reinstated" ELSE @]

\* The "dynamic status update" of rebates and rollbacks.
Redated(r, d) ==
    [r EXCEPT !.expires = d,
              !.status = IF Past(d) /\ @ = "active" THEN "expired"
                         ELSE IF Future(d) /\ @ \in Cut THEN "active" ELSE @]

\* get_customer_base_expiration: the due date before any advance payment, from
\* the earliest Payment row of the running cycle or else the earliest of all.
Earliest(S) == {k \in S : \A m \in S : k <= m}
BaseExpiration(c, r) ==
    LET mine == {k \in DOMAIN receipts : receipts[k].cust = c}
        live == {k \in mine : receipts[k].expires # NoDate /\ receipts[k].expires >= today}
    IN  IF mine = {} THEN {IF r.expires # NoDate THEN r.expires ELSE BaseDays}
        ELSE IF live # {} THEN {receipts[k].expires : k \in Earliest(live)}
        ELSE {IF receipts[k].expires # NoDate THEN receipts[k].expires ELSE r.expires :
                 k \in Earliest(mine)}
-----------------------------------------------------------------------------
Init ==
    /\ row \in [Customers -> Opening]
    /\ receipts = <<>>
    /\ today = 0
    /\ session = [s \in Staff |-> Idle]
    /\ collected = [c \in Customers |-> 0]
    /\ used = [c \in Customers |-> row[c].balance]

Begin(s, h, job) ==
    /\ h \in Handlers
    /\ session[s] = Idle
    /\ session' = [session EXCEPT ![s] = job]

\* The bound on Payment rows: no request that would add one is started above it.
Room == Len(receipts) < MaxReceipts

At(s, op)    == session[s].op = op
Finish(s)    == session' = [session EXCEPT ![s] = Idle]
Table        == <<row, receipts, today, collected, used>>
Write(c, r)  == row' = [row EXCEPT ![c] = r]

\* One Payment row more, of cash taken (or handed back) for customer c.
Record(c, amount, due) ==
    /\ receipts' = Append(receipts, [cust |-> c, amount |-> amount, expires |-> due,
                                     cash |-> TRUE, moves |-> 0])
    /\ collected' = [collected EXCEPT ![c] = @ + amount]
\* One Payment row replaced by another.
CashOf(p, c) == IF p.cash /\ p.cust = c THEN p.amount ELSE 0
Recount(old, new) ==
    collected' = [c \in Customers |-> collected[c] - CashOf(old, c) + CashOf(new, c)]
-----------------------------------------------------------------------------
(* pay_customer_view: the cashier's Pay button *)

OpenPay(s, c, amount, start, plan) ==
    /\ amount > 0
    /\ Room
    /\ Begin(s, "pay",
         [op |-> "pay", cust |-> c, amount |-> amount, plan |-> plan,
          price |-> Price[row[c].plan],
          start |-> IF start # NoDate THEN start ELSE StartOf(row[c])])
    /\ UNCHANGED Table

CommitPay(s) ==
    /\ At(s, "pay")
    /\ LET j    == session[s]
           r    == row[j.cust]
           move == j.plan # NoPlan /\ j.plan # r.plan
           plan == IF move THEN j.plan ELSE r.plan
           price == IF move THEN Price[plan] ELSE j.price
           fee  == Smaller(j.amount, FeeFor(r.plan, plan))
           bill == Settle(r.balance, j.amount - fee, price)
           due  == NewExpiry(j.start, bill.month, price)
       IN  /\ Write(j.cust, [status |-> IF r.status \in Cut \cup {"pending"}
                                          THEN "active" ELSE r.status,
                             expires |-> due, balance |-> bill.balance, plan |-> plan])
           /\ Record(j.cust, j.amount, due)
           /\ used' = [used EXCEPT ![j.cust] = @ + fee + bill.month]
           /\ session' = [session EXCEPT ![s] =
                [op |-> "payRouter", cust |-> j.cust, cut |-> r.status \in Cut]]
    /\ UNCHANGED today

\* After the commit: an approved pairing reaches the router, and in read_only
\* mode a reactivation is put back to suspended by a queryset update.
PayRouter(s) ==
    /\ At(s, "payRouter")
    /\ LET j == session[s]
       IN  IF j.cust \in Paired /\ ReadOnly /\ j.cut
           THEN row' = [row EXCEPT ![j.cust].status = "suspended"]
           ELSE UNCHANGED row
    /\ Finish(s)
    /\ UNCHANGED <<receipts, today, collected, used>>
-----------------------------------------------------------------------------
(* portal_process_mock_payment: the customer pays online *)

OpenPortal(s, c, amount, plan) ==
    /\ Room
    /\ c \in Staggered \/ amount >= Price[row[c].plan]
    /\ Begin(s, "portal",
         [op |-> "portal", cust |-> c, amount |-> amount, plan |-> plan,
          price |-> Price[row[c].plan]])
    /\ UNCHANGED Table

CommitPortal(s) ==
    /\ At(s, "portal")
    /\ LET j    == session[s]
           r    == row[j.cust]
           move == j.plan # NoPlan /\ j.plan # r.plan
           plan == IF move THEN j.plan ELSE r.plan
           price == IF move THEN Price[plan] ELSE j.price
           fee  == Smaller(j.amount, FeeFor(r.plan, plan))
           bill == Settle(r.balance, j.amount - fee, price)
           due  == NewExpiry(StartOf(r), bill.month, price)
       IN  IF move /\ price < Price[r.plan]
           THEN UNCHANGED <<row, receipts, collected, used>>
           ELSE /\ Write(j.cust, [status |-> IF r.status \in Cut THEN "active" ELSE r.status,
                                  expires |-> due, balance |-> bill.balance, plan |-> plan])
                /\ Record(j.cust, j.amount, due)
                /\ used' = [used EXCEPT ![j.cust] = @ + fee + bill.month]
    /\ Finish(s)
    /\ UNCHANGED today
-----------------------------------------------------------------------------
(* customer_rebate_view and customer_rollback_view: no lock, whole-row save *)

OpenRebate(s, c, d) ==
    /\ d # NoDate
    /\ Begin(s, "rebate", [op |-> "rebate", cust |-> c, seen |-> row[c], date |-> d])
    /\ UNCHANGED Table

CommitRebate(s) ==
    /\ At(s, "rebate")
    /\ LET j == session[s]
       IN  Write(j.cust, Saved(Redated(j.seen, j.date)))
    /\ Finish(s)
    /\ UNCHANGED <<receipts, today, collected, used>>

OpenRollback(s, c, d, amount) ==
    /\ d # NoDate
    /\ Room
    /\ Begin(s, "rollback", [op |-> "rollback", cust |-> c, seen |-> row[c],
                             date |-> d, amount |-> amount])
    /\ UNCHANGED Table

CommitRollback(s) ==
    /\ At(s, "rollback")
    /\ LET j == session[s]
       IN  /\ Write(j.cust, Saved(Redated([j.seen EXCEPT !.balance = @ + j.amount], j.date)))
           /\ session' = [session EXCEPT ![s] =
                IF j.amount > 0 THEN [op |-> "refund", cust |-> j.cust, amount |-> j.amount]
                                ELSE Idle]
    /\ UNCHANGED <<receipts, today, collected, used>>

\* The negative Payment row comes after the save, in no transaction with it.
RecordRefund(s) ==
    /\ At(s, "refund")
    /\ Record(session[s].cust, -session[s].amount, NoDate)
    /\ Finish(s)
    /\ UNCHANGED <<row, today, used>>
-----------------------------------------------------------------------------
(* revert_transfer_payment: move a Payment row to another customer *)

OpenTransfer(s, k, c) ==
    /\ k \in DOMAIN receipts
    /\ receipts[k].cust # c
    /\ receipts[k].moves < MaxMoves
    /\ Begin(s, "transfer", [op |-> "transfer", id |-> k, cust |-> c, seen |-> receipts[k]])
    /\ UNCHANGED Table

\* Each transfer prefixes the row's reason with [TRANSFERRED FROM ...]; moves
\* counts the prefixes.  First the customer who should not have had the payment.
Debited(r, amount) ==
    LET price == Price[r.plan]
        d     == IF price > 0 /\ r.expires # NoDate
                 THEN r.expires - Prorated(amount, price) ELSE r.expires
    IN  Saved(Redated([r EXCEPT !.balance = @ + amount], d))

\* Mutant: days only, no wallet credit.
CreditedDaysOnly(r, amount) ==
    [r EXCEPT !.expires = NewExpiry(StartOf(r), amount, Price[r.plan])]

\* Then the customer who should: days and wallet credit for the full amount.
Credited(r, amount) ==
    [r EXCEPT !.expires = NewExpiry(StartOf(r), amount, Price[r.plan]),
              !.balance = @ - amount,
              !.status = IF @ \in Cut THEN "active" ELSE @]

CommitTransfer(s) ==
    /\ At(s, "transfer")
    /\ LET j     == session[s]
           wrong == j.seen.cust
           good  == Credited(row[j.cust], j.seen.amount)
           held  == receipts[j.id]
       IN  /\ row' = [row EXCEPT ![wrong] = Debited(@, j.seen.amount), ![j.cust] = good]
           /\ receipts' = [receipts EXCEPT ![j.id] =
                [j.seen EXCEPT !.cust = j.cust, !.expires = good.expires, !.moves = @ + 1]]
           /\ Recount(held, [j.seen EXCEPT !.cust = j.cust])
    /\ Finish(s)
    /\ UNCHANGED <<today, used>>

\* Two transfers in opposite directions lock the two rows in opposite orders;
\* Postgres aborts one of them and nothing of it is kept.
AbortTransfer(s) ==
    /\ At(s, "transfer")
    /\ \E t \in Staff \ {s} :
         /\ At(t, "transfer")
         /\ session[t].seen.cust = session[s].cust
         /\ session[t].cust = session[s].seen.cust
    /\ Finish(s)
    /\ UNCHANGED Table
-----------------------------------------------------------------------------
(* edit_payment_log_view: an administrator corrects a Payment row *)

OpenEditPayment(s, k, amount) ==
    /\ k \in DOMAIN receipts
    /\ amount # receipts[k].amount
    /\ Begin(s, "editPayment", [op |-> "editPayment", id |-> k, seen |-> receipts[k],
                                amount |-> amount])
    /\ UNCHANGED Table

CommitEditPayment(s) ==
    /\ At(s, "editPayment")
    /\ LET j    == session[s]
           held == receipts[j.id]
       IN  /\ receipts' = [receipts EXCEPT ![j.id] = [j.seen EXCEPT !.amount = j.amount]]
           /\ Recount(held, [j.seen EXCEPT !.amount = j.amount])
    /\ Finish(s)
    /\ UNCHANGED <<row, today, used>>
-----------------------------------------------------------------------------
(* customer_force_suspend, customer_force_reactivate: named fields only *)

ForceSuspend(c) ==
    /\ "forceSuspend" \in Handlers
    /\ row' = [row EXCEPT ![c].status = "suspended", ![c].expires = NoDate]
    /\ UNCHANGED <<receipts, today, session, collected, used>>

ForceReactivate(c) ==
    /\ "forceReactivate" \in Handlers
    /\ row' = [row EXCEPT ![c].status = "active"]
    /\ UNCHANGED <<receipts, today, session, collected, used>>
-----------------------------------------------------------------------------
(* edit_customer_expiration, edit_customer_balance: whole-row saves *)

OpenEditExpiration(s, c, d) ==
    /\ Begin(s, "editExpiration", [op |-> "editExpiration", cust |-> c,
                                   seen |-> row[c], date |-> d])
    /\ UNCHANGED Table

\* A given date is preserved even on a suspended row.
CommitEditExpiration(s) ==
    /\ At(s, "editExpiration")
    /\ LET j == session[s]
       IN  Write(j.cust, [j.seen EXCEPT !.expires = j.date])
    /\ Finish(s)
    /\ UNCHANGED <<receipts, today, collected, used>>

OpenEditBalance(s, c, amount, d) ==
    /\ \E base \in BaseExpiration(c, row[c]) :
         Begin(s, "editBalance",
            [op |-> "editBalance", cust |-> c, seen |-> row[c], amount |-> amount,
             date |-> IF amount = 0 /\ d \in {NoDate, row[c].expires} THEN base ELSE d])
    /\ UNCHANGED Table

CommitEditBalance(s) ==
    /\ At(s, "editBalance")
    /\ LET j == session[s]
       IN  Write(j.cust, Saved([j.seen EXCEPT
                 !.balance = j.amount,
                 !.expires = IF j.date # NoDate THEN j.date ELSE @]))
    /\ Finish(s)
    /\ UNCHANGED <<receipts, today, collected, used>>
-----------------------------------------------------------------------------
(* sweep_expiry (nightly) and auto_suspend (run by hand) *)

PastDue == {c \in Customers : row[c].status = "active" /\ Past(row[c].expires)}

\* The queryset is evaluated once; the loop works on the rows it returned.
OpenSweep(s) ==
    /\ PastDue # {}
    /\ Room
    /\ Begin(s, "sweep", [op |-> "sweep", rows |-> row, todo |-> PastDue, owed |-> {}])
    /\ UNCHANGED Table

Renewable(r) == Price[r.plan] > 0 /\ r.balance <= -Price[r.plan]
Renewed(r)   == [r EXCEPT !.expires = NewExpiry(@, Price[r.plan], Price[r.plan]),
                          !.balance = @ + Price[r.plan]]

\* Mutant: the receipt is dated the day of the renewal.
RenewalReceiptOfToday(c, r) ==
    [cust |-> c, amount |-> Price[r.plan], expires |-> today, cash |-> FALSE, moves |-> 0]

\* The Payment row of a renewal: the wallet pays the monthly price, no cash.
RenewalReceipt(c, r) ==
    [cust |-> c, amount |-> Price[r.plan], expires |-> r.expires, cash |-> FALSE, moves |-> 0]

\* A renewal changes the loop's own copy too, and owes a Payment row.
Renews(s, c) ==
    LET j == session[s]
    IN  /\ session' = [session EXCEPT ![s] =
               [j EXCEPT !.rows = [j.rows EXCEPT ![c] = Renewed(@)], !.owed = {c}]]
        /\ used' = [used EXCEPT ![c] = @ + Price[j.rows[c].plan]]

\* The loop moves on to its next customer, or ends.
Advance(s, c) ==
    LET j == session[s]
    IN  session' = [session EXCEPT ![s] =
            IF j.todo = {c} /\ j.op # "suspend" THEN Idle
            ELSE [j EXCEPT !.todo = j.todo \ {c}, !.owed = {}]]

\* The loop has reached customer c of batch op.
Reached(s, op, c) ==
    /\ At(s, op)
    /\ c \in session[s].todo
    /\ session[s].owed = {}

\* Payment.objects.create of a renewal, in no transaction with the save.
RecordRenewal(s, c) ==
    /\ At(s, "sweep") \/ At(s, "suspend")
    /\ c \in session[s].owed
    /\ receipts' = Append(receipts, RenewalReceipt(c, session[s].rows[c]))
    /\ Advance(s, c)
    /\ UNCHANGED <<row, today, collected, used>>

SweepCustomer(s, c) ==
    /\ Reached(s, "sweep", c)
    /\ LET r == session[s].rows[c]
       IN  IF Renewable(r)
           THEN /\ row' = [row EXCEPT ![c].expires = Renewed(r).expires,
                                      ![c].balance = Renewed(r).balance]
                /\ Renews(s, c)
           ELSE Advance(s, c) /\ UNCHANGED <<row, used>>
    /\ UNCHANGED <<receipts, today, collected>>

\* Aborts (does nothing) above the limit, and when the routers are not visible.
OpenSuspend(s) ==
    /\ Cardinality(PastDue) <= SuspendLimit
    /\ Room
    /\ Begin(s, "suspend", [op |-> "suspend", rows |-> row, todo |-> PastDue, owed |-> {}])
    /\ UNCHANGED Table

\* suspend_pppoe_user succeeds only for a paired customer on a writable router.
Cuttable(c) == c \in Paired /\ ~ReadOnly

SuspendCustomer(s, c) ==
    /\ Reached(s, "suspend", c)
    /\ LET r == session[s].rows[c]
       IN  IF Renewable(r)
           THEN Write(c, Renewed(r)) /\ Renews(s, c)
           ELSE /\ \/ Cuttable(c) /\ Write(c, Saved([r EXCEPT !.status = "suspended"]))
                   \/ UNCHANGED row
                /\ Advance(s, c)
                /\ UNCHANGED used
    /\ UNCHANGED <<receipts, today, collected>>

\* Part 2 queries again, for unverified suspicious customers.
OpenRogue(s) ==
    /\ At(s, "suspend")
    /\ session[s].todo = {}
    /\ LET bad == {c \in Rogue : row[c].status = "active"}
       IN  session' = [session EXCEPT ![s] =
              IF bad = {} THEN Idle
              ELSE [op |-> "rogue", rows |-> row, todo |-> bad, owed |-> {}]]
    /\ UNCHANGED Table

SuspendRogue(s, c) ==
    /\ Reached(s, "rogue", c)
    /\ \/ Cuttable(c) /\ Write(c, Saved([session[s].rows[c] EXCEPT !.status = "suspended"]))
       \/ UNCHANGED row
    /\ Advance(s, c)
    /\ UNCHANGED <<receipts, today, collected, used>>
-----------------------------------------------------------------------------
NextDay ==
    /\ today < LastDay
    /\ today' = today + 1
    /\ UNCHANGED <<row, receipts, session, collected, used>>

\* Nobody asks for anything any more; a session left half way is a deadlock.
AtRest ==
    /\ \A s \in Staff : session[s] = Idle
    /\ UNCHANGED vars

Request(s, c) ==
    \/ \E a \in Amounts, d \in Dates, p \in Plans \cup {NoPlan} : OpenPay(s, c, a, d, p)
    \/ \E a \in Amounts, p \in Plans \cup {NoPlan} : OpenPortal(s, c, a, p)
    \/ \E d \in Dates : OpenRebate(s, c, d)
    \/ \E a \in Amounts, d \in Dates : OpenRollback(s, c, d, a)
    \/ \E k \in 1..MaxReceipts : OpenTransfer(s, k, c)
    \/ \E d \in Dates : OpenEditExpiration(s, c, d)
    \/ \E a \in Amounts, d \in Dates : OpenEditBalance(s, c, a, d) \/ OpenEditBalance(s, c, -a, d)

Commit(s) ==
    \/ CommitPay(s) \/ PayRouter(s) \/ CommitPortal(s)
    \/ CommitRebate(s) \/ CommitRollback(s) \/ RecordRefund(s)
    \/ CommitTransfer(s) \/ AbortTransfer(s) \/ CommitEditPayment(s)
    \/ CommitEditExpiration(s) \/ CommitEditBalance(s)

Batch(s) ==
    \/ OpenSweep(s) \/ OpenSuspend(s) \/ OpenRogue(s)
    \/ \E c \in Customers :
          \/ SweepCustomer(s, c) \/ SuspendCustomer(s, c) \/ SuspendRogue(s, c)
          \/ RecordRenewal(s, c)

Next ==
    \/ \E s \in Staff, c \in Customers : Request(s, c)
    \/ \E s \in Staff, k \in 1..MaxReceipts, a \in Amounts : OpenEditPayment(s, k, a)
    \/ \E s \in Staff : Commit(s) \/ Batch(s)
    \/ \E c \in Customers : ForceSuspend(c) \/ ForceReactivate(c)
    \/ NextDay
    \/ AtRest

Spec == Init /\ [][Next]_vars
-----------------------------------------------------------------------------
(* Properties *)

\* What a session holds between its read and its write, per handler.
PayJob            == [op : {"pay"}, cust : Customers, amount : Nat,
                      plan : Plans \cup {NoPlan}, price : Nat, start : Int]
PayRouterJob      == [op : {"payRouter"}, cust : Customers, cut : BOOLEAN]
PortalJob         == [op : {"portal"}, cust : Customers, amount : Nat,
                      plan : Plans \cup {NoPlan}, price : Nat]
RebateJob         == [op : {"rebate"}, cust : Customers, seen : Row, date : Int]
RollbackJob       == [op : {"rollback"}, cust : Customers, seen : Row, date : Int, amount : Nat]
RefundJob         == [op : {"refund"}, cust : Customers, amount : Nat]
TransferJob       == [op : {"transfer"}, id : Nat, cust : Customers, seen : Receipt]
EditPaymentJob    == [op : {"editPayment"}, id : Nat, seen : Receipt, amount : Nat]
EditExpirationJob == [op : {"editExpiration"}, cust : Customers, seen : Row,
                      date : Int \cup {NoDate}]
EditBalanceJob    == [op : {"editBalance"}, cust : Customers, seen : Row, amount : Int,
                      date : Int \cup {NoDate}]
BatchJob          == [op : {"sweep", "suspend", "rogue"},
                      rows : [Customers -> Row], todo : SUBSET Customers,
                      owed : SUBSET Customers]

Job == {Idle} \cup PayJob \cup PayRouterJob \cup PortalJob \cup RebateJob \cup RollbackJob
         \cup RefundJob \cup TransferJob \cup EditPaymentJob \cup EditExpirationJob
         \cup EditBalanceJob \cup BatchJob

TablesTyped ==
    /\ row \in [Customers -> Row]
    /\ receipts \in Seq(Receipt)
    /\ today \in Nat
    /\ session \in [Staff -> Job]
    /\ collected \in [Customers -> Int]
    /\ used \in [Customers -> Int]

SoundJob(j) ==
    /\ j.op \in {"transfer", "editPayment"} => j.id \in DOMAIN receipts
    /\ j.op \in {"sweep", "suspend"} => \A c \in j.todo : j.rows[c].expires # NoDate

JobsSound == \A s \in Staff : SoundJob(session[s])

\* Every column and every session holds a value of its type; a request that is
\* about to write a Payment row writes one that exists, and a batch renews only
\* rows that have a due date.
TypeOK == TablesTyped /\ JobsSound

\* The books balance: every peso of a customer's cash Payment rows has become
\* service, has settled a debt, or stands as credit in outstanding_balance.
\* Two handlers working on one row must neither lose nor double an amount.  A
\* rollback is on the account before its negative row is written; and the row
\* of a renewal, which is no cash, spoils two books when it is transferred.
Balances(c)  == collected[c] + row[c].balance = used[c]
Refunding(c) == \E s \in Staff : At(s, "refund") /\ session[s].cust = c
RenewalMoved == \E k \in DOMAIN receipts : ~receipts[k].cash /\ receipts[k].moves > 0
Reconciles   == RenewalMoved \/ \A c \in Customers : Balances(c) \/ Refunding(c)

Total(f) == SumFunctionOnSet(f, Customers)

\* Over all customers together no handler makes or loses money, even when two
\* administrators transfer the same Payment row at the same time (which leaves
\* each of the two customers with a wrong balance).
MoneyIsConserved ==
    Total(collected) + Total([c \in Customers |-> row[c].balance]) = Total(used)

\* A receipt of cash for customer c is written in this step.
Pays(c) ==
    /\ Len(receipts') > Len(receipts)
    /\ LET p == receipts'[Len(receipts')] IN p.cust = c /\ p.cash /\ p.amount > 0

\* calculate_new_expiration_date: "an early renewal keeps the days already paid
\* for".  A payment never brings a running line's due date forward, whatever
\* was committed between the page being opened and the payment.
RenewalKeepsPaidDays ==
    [][\A c \in Customers : Pays(c) /\ Future(row[c].expires)
          => row'[c].expires # NoDate /\ row'[c].expires >= row[c].expires]_vars

\* test_receipt_expiry_matches_customer_expiry: what the Statement of Account
\* prints on a customer's newest Payment row is the due date of the account,
\* whichever of counter, portal and the two batches renewed it; a batch writes
\* the row first and the receipt in a later step, and only a suspension that
\* comes between the two may part them.
ReceiptShowsDueDate ==
    [][Len(receipts') > Len(receipts) =>
          LET p == receipts'[Len(receipts')]
          IN  p.amount > 0 /\ row'[p.cust].status # "suspended"
                 => p.expires = row'[p.cust].expires]_vars
=============================================================================
