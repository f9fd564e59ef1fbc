----------------------- MODULE CustomerAccount_proofs -----------------------
(* Theorems about CustomerAccount for every value of its constants and, in the   *)
(* second half, about Access: the customer's two kinds of columns, of money and  *)
(* days and of the portal, with the staff who may change them.  The two modules  *)
(* share no state, and no lemma of one half is about the other.                  *)
EXTENDS CustomerAccount, Access, SequenceTheorems, FiniteSetTheorems, WellFoundedInduction, TLAPS

Date == Int \cup {NoDate}

-----------------------------------------------------------------------------
(* The pure computations stay within their types *)

LEMMA ProratedType ==
    ASSUME NEW a \in Int, NEW p \in Nat, p > 0
    PROVE  Prorated(a, p) \in Int
  BY PlanAssumption DEF Prorated

LEMMA NewExpiryType ==
    ASSUME NEW d \in Int, NEW a \in Int, NEW p \in Nat, today \in Nat
    PROVE  NewExpiry(d, a, p) \in Int
  <1>1. CASE p <= 0 \/ a <= 0  BY <1>1 DEF NewExpiry
  <1>2. CASE ~(p <= 0 \/ a <= 0)
    <2>1. Prorated(a, p) \in Int  BY <1>2, ProratedType
    <2>2. CalendarMonth \in Int  BY PlanAssumption
    <2>3. Later(d, today) \in Int  BY DEF Later
    <2> QED  BY <1>2, <2>1, <2>2, <2>3 DEF NewExpiry
  <1> QED  BY <1>1, <1>2

LEMMA SavedType ==
    ASSUME NEW r \in Row
    PROVE  Saved(r) \in Row
  BY DEF Saved, Row

LEMMA RedatedType ==
    ASSUME NEW r \in Row, NEW d \in Date
    PROVE  Redated(r, d) \in Row
  BY DEF Redated, Row, Date, Statuses, Cut

LEMMA SettleType ==
    ASSUME NEW b \in Int, NEW m \in Nat, NEW p \in Nat
    PROVE  /\ Settle(b, m, p).balance \in Int
           /\ Settle(b, m, p).month \in Nat
           /\ m = b - Settle(b, m, p).balance + Settle(b, m, p).month
  BY DEF Settle, Smaller

LEMMA BaseExpirationType ==
    ASSUME TablesTyped, NEW c \in Customers, NEW r \in Row
    PROVE  BaseExpiration(c, r) \subseteq Date
  <1>1. r.expires \in Date /\ BaseDays \in Date  BY PlanAssumption DEF Row, Date
  <1>2. \A k \in DOMAIN receipts : receipts[k] \in Receipt  BY DEF TablesTyped
  <1>3. \A k \in DOMAIN receipts : receipts[k].expires \in Date  BY <1>2 DEF Receipt, Date
  <1> QED  BY <1>1, <1>3 DEF BaseExpiration, Earliest
-----------------------------------------------------------------------------
(* The type invariant *)

LEMMA BeginType ==
    ASSUME TablesTyped, NEW s \in Staff, NEW h, NEW j \in Job, Begin(s, h, j), UNCHANGED Table
    PROVE  TablesTyped'
  BY DEF TablesTyped, Begin, Table

LEMMA FinishType ==
    ASSUME TablesTyped, NEW s \in Staff, Finish(s)
    PROVE  session' \in [Staff -> Job]
  BY DEF TablesTyped, Finish, Job

LEMMA WriteType ==
    ASSUME TablesTyped, NEW c \in Customers, NEW r \in Row, Write(c, r)
    PROVE  row' \in [Customers -> Row]
  BY DEF TablesTyped, Write

LEMMA RecordType ==
    ASSUME TablesTyped, NEW c \in Customers, NEW a \in Int, NEW d \in Date, Record(c, a, d)
    PROVE  /\ receipts' \in Seq(Receipt)
           /\ collected' \in [Customers -> Int]
  BY DEF TablesTyped, Record, Receipt, Date

LEMMA EditReceiptType ==
    ASSUME NEW seq \in Seq(Receipt), NEW k \in DOMAIN seq, NEW p \in Receipt
    PROVE  /\ [seq EXCEPT ![k] = p] \in Seq(Receipt)
           /\ Len([seq EXCEPT ![k] = p]) = Len(seq)
  <1>1. k \in 1..Len(seq)  OBVIOUS
  <1> QED  BY <1>1, ExceptSeq

LEMMA RecountType ==
    ASSUME TablesTyped, NEW old \in Receipt, NEW new \in Receipt, Recount(old, new)
    PROVE  collected' \in [Customers -> Int]
  BY DEF TablesTyped, Recount, CashOf, Receipt

\* A session that stands at an operation holds that operation's job.
LEMMA JobTypes ==
    ASSUME TablesTyped, NEW s \in Staff
    PROVE  /\ At(s, "pay") => session[s] \in PayJob
           /\ At(s, "payRouter") => session[s] \in PayRouterJob
           /\ At(s, "portal") => session[s] \in PortalJob
           /\ At(s, "rebate") => session[s] \in RebateJob
           /\ At(s, "rollback") => session[s] \in RollbackJob
           /\ At(s, "refund") => session[s] \in RefundJob
           /\ At(s, "transfer") => session[s] \in TransferJob
           /\ At(s, "editPayment") => session[s] \in EditPaymentJob
           /\ At(s, "editExpiration") => session[s] \in EditExpirationJob
           /\ At(s, "editBalance") => session[s] \in EditBalanceJob
           /\ At(s, "sweep") \/ At(s, "suspend") \/ At(s, "rogue") => session[s] \in BatchJob
  <1>1. session[s] \in Job  BY DEF TablesTyped
  <1> QED
    BY <1>1 DEF Job, At, Idle, PayJob, PayRouterJob, PortalJob, RebateJob, RollbackJob,
       RefundJob, TransferJob, EditPaymentJob, EditExpirationJob, EditBalanceJob, BatchJob

LEMMA TypeInit ==
    Init => TablesTyped
  <1> SUFFICES ASSUME Init PROVE TablesTyped  OBVIOUS
  <1>1. row \in [Customers -> Row]  BY RequestAssumption DEF Init
  <1>2. used \in [Customers -> Int]  BY <1>1 DEF Init, Row
  <1>3. session \in [Staff -> Job]  BY DEF Init, Job
  <1> QED  BY <1>1, <1>2, <1>3 DEF Init, TablesTyped

\* What a payment of amount a writes into the row.
Bills(r, a, p, plan, fee, bill) ==
    fee = Smaller(a, FeeFor(r.plan, plan)) /\ bill = Settle(r.balance, a - fee, p)
LEMMA BillType ==
    ASSUME NEW r \in Row, NEW a \in Nat, NEW p \in Nat, NEW plan \in Plans, NEW fee, NEW bill,
           Bills(r, a, p, plan, fee, bill)
    PROVE  /\ fee \in Nat /\ bill.balance \in Int /\ bill.month \in Nat
           /\ a = fee + bill.month + r.balance - bill.balance
  <1>1. fee \in Nat /\ a - fee \in Nat
    BY PlanAssumption DEF Bills, FeeFor, Smaller
  <1>2. r.balance \in Int  BY DEF Row
  <1>3. /\ bill.balance \in Int /\ bill.month \in Nat
        /\ a - fee = r.balance - bill.balance + bill.month
    <2> DEFINE m == a - fee
    <2>1. m \in Nat /\ bill = Settle(r.balance, m, p)  BY <1>1 DEF Bills
    <2> HIDE DEF m
    <2>2. m = r.balance - bill.balance + bill.month /\ bill.balance \in Int /\ bill.month \in Nat
      BY <1>2, <2>1, SettleType
    <2> QED  BY <2>2 DEF m
  <1> QED  BY <1>1, <1>2, <1>3

LEMMA PayType ==
    ASSUME TablesTyped, NEW s \in Staff, CommitPay(s)
    PROVE  TablesTyped'
  <1> DEFINE j    == session[s]
             r    == row[j.cust]
             move == j.plan # NoPlan /\ j.plan # r.plan
             plan == IF move THEN j.plan ELSE r.plan
             price == IF move THEN Price[plan] ELSE j.price
             fee  == Smaller(j.amount, FeeFor(r.plan, plan))
             bill == Settle(r.balance, j.amount - fee, price)
             due  == NewExpiry(j.start, bill.month, price)
             new  == [status |-> IF r.status \in Cut \cup {"pending"} THEN "active" ELSE r.status,
                      expires |-> due, balance |-> bill.balance, plan |-> plan]
  <1>0. today \in Nat /\ used \in [Customers -> Int]  BY DEF TablesTyped
  <1>1. j \in PayJob  BY JobTypes DEF CommitPay
  <1>2. /\ j.cust \in Customers /\ j.amount \in Nat /\ j.price \in Nat /\ j.start \in Int
        /\ j.plan \in Plans \cup {NoPlan}
    BY <1>1 DEF PayJob
  <1>3. r \in Row  BY <1>2 DEF TablesTyped
  <1>4. plan \in Plans /\ price \in Nat  BY <1>2, <1>3, PlanAssumption DEF Row
  <1>5. fee \in Nat /\ bill.balance \in Int /\ bill.month \in Nat
    <2>1. Bills(r, j.amount, price, plan, fee, bill)  BY DEF Bills
    <2> HIDE DEF j, r, move, plan, price, fee, bill
    <2> QED  BY <1>2, <1>3, <1>4, <2>1, BillType, Zenon
  <1> HIDE DEF bill, fee, price, plan, move
  <1>6. due \in Int
    <2>1. /\ j.start \in Int /\ bill.month \in Int /\ price \in Nat /\ today \in Nat
      BY <1>0, <1>2, <1>4, <1>5
    <2> HIDE DEF j
    <2> QED  BY <2>1, NewExpiryType
  <1>7. new \in Row
    BY <1>3, <1>4, <1>5, <1>6 DEF Row, Statuses
  <1> HIDE DEF new, due, r
  <1>8. /\ Write(j.cust, new) /\ Record(j.cust, j.amount, due)
        /\ used' = [used EXCEPT ![j.cust] = @ + fee + bill.month]
        /\ session' = [session EXCEPT ![s] =
             [op |-> "payRouter", cust |-> j.cust, cut |-> r.status \in Cut]]
        /\ today' = today
    BY DEF CommitPay, new, due, bill, fee, price, plan, move, r
  <1>9. [op |-> "payRouter", cust |-> j.cust, cut |-> r.status \in Cut] \in Job
    BY <1>2 DEF Job, PayRouterJob
  <1>10. session' \in [Staff -> Job]  BY <1>8, <1>9 DEF TablesTyped
  <1>11. used' \in [Customers -> Int]  BY <1>0, <1>2, <1>5, <1>8
  <1>12. due \in Date  BY <1>6 DEF Date
  <1> QED  BY <1>2, <1>7, <1>8, <1>10, <1>11, <1>12, WriteType, RecordType DEF TablesTyped

LEMMA PayRouterType ==
    ASSUME TablesTyped, NEW s \in Staff, PayRouter(s)
    PROVE  TablesTyped'
  <1>1. session[s] \in PayRouterJob  BY JobTypes DEF PayRouter
  <1>2. session[s].cust \in Customers  BY <1>1 DEF PayRouterJob
  <1>3. [row[session[s].cust] EXCEPT !.status = "suspended"] \in Row
    BY <1>2 DEF TablesTyped, Row, Statuses
  <1>4. row' \in [Customers -> Row]
    BY <1>2, <1>3 DEF TablesTyped, PayRouter
  <1>5. session' \in [Staff -> Job]  BY FinishType DEF PayRouter
  <1> QED  BY <1>4, <1>5 DEF TablesTyped, PayRouter

LEMMA PortalType ==
    ASSUME TablesTyped, NEW s \in Staff, CommitPortal(s)
    PROVE  TablesTyped'
  <1> DEFINE j    == session[s]
             r    == row[j.cust]
             move == j.plan # NoPlan /\ j.plan # r.plan
             plan == IF move THEN j.plan ELSE r.plan
             price == IF move THEN Price[plan] ELSE j.price
             fee  == Smaller(j.amount, FeeFor(r.plan, plan))
             bill == Settle(r.balance, j.amount - fee, price)
             due  == NewExpiry(StartOf(r), bill.month, price)
             new  == [status |-> IF r.status \in Cut THEN "active" ELSE r.status,
                      expires |-> due, balance |-> bill.balance, plan |-> plan]
  <1>0. today \in Nat /\ used \in [Customers -> Int]  BY DEF TablesTyped
  <1>1. j \in PortalJob  BY JobTypes DEF CommitPortal
  <1>2. /\ j.cust \in Customers /\ j.amount \in Nat /\ j.price \in Nat
        /\ j.plan \in Plans \cup {NoPlan}
    BY <1>1 DEF PortalJob
  <1>3. r \in Row  BY <1>2 DEF TablesTyped
  <1>4. plan \in Plans /\ price \in Nat  BY <1>2, <1>3, PlanAssumption DEF Row
  <1>5. fee \in Nat /\ bill.balance \in Int /\ bill.month \in Nat
    <2>1. Bills(r, j.amount, price, plan, fee, bill)  BY DEF Bills
    <2> HIDE DEF j, r, move, plan, price, fee, bill
    <2> QED  BY <1>2, <1>3, <1>4, <2>1, BillType, Zenon
  <1>6. StartOf(r) \in Int  BY <1>0, <1>3 DEF StartOf, Future, Row
  <1> HIDE DEF bill, fee, price, plan, move
  <1>7. due \in Int
    <2>1. /\ StartOf(r) \in Int /\ bill.month \in Int /\ price \in Nat /\ today \in Nat
      BY <1>0, <1>4, <1>5, <1>6
    <2> HIDE DEF r
    <2> QED  BY <2>1, NewExpiryType
  <1>8. new \in Row  BY <1>3, <1>4, <1>5, <1>7 DEF Row, Statuses
  <1>9. session' \in [Staff -> Job]  BY FinishType DEF CommitPortal
  <1> HIDE DEF new, due, r
  <1>10. CASE move /\ price < Price[r.plan]
    <2>1. UNCHANGED <<row, receipts, today, collected, used>>
      BY <1>10 DEF CommitPortal, new, due, bill, fee, price, plan, move, r
    <2> QED  BY <1>9, <2>1 DEF TablesTyped
  <1>11. CASE ~(move /\ price < Price[r.plan])
    <2>1. /\ Write(j.cust, new) /\ Record(j.cust, j.amount, due)
          /\ used' = [used EXCEPT ![j.cust] = @ + fee + bill.month]
          /\ today' = today
      BY <1>11 DEF CommitPortal, new, due, bill, fee, price, plan, move, r
    <2>2. used' \in [Customers -> Int]  BY <1>0, <1>2, <1>5, <2>1
    <2>3. due \in Date  BY <1>7 DEF Date
    <2> QED  BY <1>2, <1>8, <1>9, <2>1, <2>2, <2>3, WriteType, RecordType DEF TablesTyped
  <1> QED  BY <1>10, <1>11

LEMMA RebateType ==
    ASSUME TablesTyped, NEW s \in Staff, CommitRebate(s)
    PROVE  TablesTyped'
  <1> DEFINE j == session[s]
  <1>1. j \in RebateJob  BY JobTypes DEF CommitRebate
  <1>2. j.cust \in Customers /\ j.seen \in Row /\ j.date \in Date
    BY <1>1 DEF RebateJob, Date
  <1>3. Saved(Redated(j.seen, j.date)) \in Row  BY <1>2, RedatedType, SavedType
  <1>4. session' \in [Staff -> Job]  BY FinishType DEF CommitRebate
  <1>5. row' \in [Customers -> Row]  BY <1>2, <1>3, WriteType DEF CommitRebate
  <1> QED  BY <1>4, <1>5 DEF TablesTyped, CommitRebate

LEMMA RollbackType ==
    ASSUME TablesTyped, NEW s \in Staff, CommitRollback(s)
    PROVE  TablesTyped'
  <1> DEFINE j == session[s]
             owing == [j.seen EXCEPT !.balance = @ + j.amount]
             next == IF j.amount > 0 THEN [op |-> "refund", cust |-> j.cust, amount |-> j.amount]
                     ELSE Idle
  <1>1. j \in RollbackJob  BY JobTypes DEF CommitRollback
  <1>2. j.cust \in Customers /\ j.seen \in Row /\ j.date \in Date /\ j.amount \in Nat
    BY <1>1 DEF RollbackJob, Date
  <1>3. owing \in Row  BY <1>2 DEF Row
  <1>4. Saved(Redated(owing, j.date)) \in Row  BY <1>2, <1>3, RedatedType, SavedType
  <1>5. next \in Job  BY <1>2 DEF Job, RefundJob
  <1>6. session' = [session EXCEPT ![s] = next]  BY DEF CommitRollback
  <1>7. row' \in [Customers -> Row]  BY <1>2, <1>4, WriteType DEF CommitRollback
  <1> HIDE DEF next
  <1>8. session' \in [Staff -> Job]  BY <1>5, <1>6 DEF TablesTyped
  <1> QED  BY <1>7, <1>8 DEF TablesTyped, CommitRollback

LEMMA RefundType ==
    ASSUME TablesTyped, NEW s \in Staff, RecordRefund(s)
    PROVE  TablesTyped'
  <1>1. session[s] \in RefundJob  BY JobTypes DEF RecordRefund
  <1>2. session[s].cust \in Customers /\ -session[s].amount \in Int /\ NoDate \in Date
    BY <1>1 DEF RefundJob, Date
  <1>3. receipts' \in Seq(Receipt) /\ collected' \in [Customers -> Int]
    BY <1>2, RecordType DEF RecordRefund
  <1>4. session' \in [Staff -> Job]  BY FinishType DEF RecordRefund
  <1> QED  BY <1>3, <1>4 DEF TablesTyped, RecordRefund

LEMMA CreditedType ==
    ASSUME today \in Nat, NEW r \in Row, NEW a \in Int
    PROVE  Credited(r, a) \in Row
  <1>1. StartOf(r) \in Int  BY DEF StartOf, Future, Row
  <1>2. Price[r.plan] \in Nat  BY PlanAssumption DEF Row
  <1>3. NewExpiry(StartOf(r), a, Price[r.plan]) \in Int  BY <1>1, <1>2, NewExpiryType
  <1>4. r.balance - a \in Int  BY DEF Row
  <1> QED  BY <1>3, <1>4 DEF Credited, Row, Statuses

LEMMA DebitedType ==
    ASSUME NEW r \in Row, NEW a \in Int
    PROVE  Debited(r, a) \in Row
  <1> DEFINE d == IF Price[r.plan] > 0 /\ r.expires # NoDate
                  THEN r.expires - Prorated(a, Price[r.plan]) ELSE r.expires
             owing == [r EXCEPT !.balance = @ + a]
  <1>1. Price[r.plan] \in Nat  BY PlanAssumption DEF Row
  <1>2. r.expires \in Date  BY DEF Row, Date
  <1>3. d \in Date  BY <1>1, <1>2, ProratedType DEF Date
  <1>4. owing \in Row  BY DEF Row
  <1> HIDE DEF d, owing
  <1>5. Saved(Redated(owing, d)) \in Row  BY <1>3, <1>4, RedatedType, SavedType
  <1> QED  BY <1>5 DEF Debited, d, owing

LEMMA MovedType ==
    ASSUME NEW p \in Receipt, NEW c \in Customers, NEW d \in Date
    PROVE  [p EXCEPT !.cust = c, !.expires = d, !.moves = @ + 1] \in Receipt
  <1>1. p.moves + 1 \in Nat  BY DEF Receipt
  <1>2. [p EXCEPT !.cust = c] \in Receipt  BY DEF Receipt
  <1>3. [p EXCEPT !.cust = c, !.expires = d] \in Receipt  BY <1>2 DEF Receipt, Date
  <1> QED  BY <1>1, <1>3 DEF Receipt

LEMMA TransferType ==
    ASSUME TablesTyped, JobsSound, NEW s \in Staff, CommitTransfer(s)
    PROVE  TablesTyped'
  <1> DEFINE j     == session[s]
             amt   == j.seen.amount
             wrong == j.seen.cust
             good  == Credited(row[j.cust], amt)
             bad   == Debited(row[wrong], amt)
             held  == receipts[j.id]
             moved == [j.seen EXCEPT !.cust = j.cust, !.expires = good.expires, !.moves = @ + 1]
             away  == [j.seen EXCEPT !.cust = j.cust]
  <1>0. today \in Nat /\ receipts \in Seq(Receipt) /\ row \in [Customers -> Row]
    BY DEF TablesTyped
  <1>1. j \in TransferJob  BY JobTypes DEF CommitTransfer
  <1>2. j.cust \in Customers /\ j.seen \in Receipt  BY <1>1 DEF TransferJob
  <1>3. amt \in Int /\ wrong \in Customers  BY <1>2 DEF Receipt
  <1>4. j.id \in DOMAIN receipts  BY DEF JobsSound, SoundJob, CommitTransfer, At
  <1> HIDE DEF j
  <1>5. row[j.cust] \in Row /\ row[wrong] \in Row  BY <1>0, <1>2, <1>3
  <1> HIDE DEF amt, wrong
  <1>6. good \in Row /\ bad \in Row  BY <1>0, <1>3, <1>5, CreditedType, DebitedType
  <1>7. good.expires \in Date  BY <1>6 DEF Row, Date
  <1> HIDE DEF good, bad
  <1>8. moved \in Receipt  BY <1>2, <1>7, MovedType
  <1>9. away \in Receipt  BY <1>2 DEF Receipt
  <1> HIDE DEF moved, away
  <1>10. /\ row' = [row EXCEPT ![wrong] = bad, ![j.cust] = good]
         /\ receipts' = [receipts EXCEPT ![j.id] = moved]
         /\ Recount(held, away)
         /\ UNCHANGED <<today, used>>
         /\ Finish(s)
    BY DEF CommitTransfer, good, bad, moved, away, j, amt, wrong
  <1>11. row' \in [Customers -> Row]  BY <1>0, <1>2, <1>3, <1>6, <1>10 DEF wrong
  <1>12. receipts' \in Seq(Receipt)  BY <1>0, <1>4, <1>8, <1>10, EditReceiptType
  <1>13. held \in Receipt  BY <1>0, <1>4
  <1>14. collected' \in [Customers -> Int]
    <2> HIDE DEF held
    <2> QED  BY <1>9, <1>10, <1>13, RecountType
  <1>15. session' \in [Staff -> Job]  BY <1>10, FinishType
  <1> QED  BY <1>10, <1>11, <1>12, <1>14, <1>15 DEF TablesTyped

LEMMA EditPaymentType ==
    ASSUME TablesTyped, JobsSound, NEW s \in Staff, CommitEditPayment(s)
    PROVE  TablesTyped'
  <1> DEFINE j    == session[s]
             held == receipts[j.id]
             new  == [j.seen EXCEPT !.amount = j.amount]
  <1>0. receipts \in Seq(Receipt)  BY DEF TablesTyped
  <1>1. j \in EditPaymentJob  BY JobTypes DEF CommitEditPayment
  <1>2. j.seen \in Receipt /\ j.amount \in Nat  BY <1>1 DEF EditPaymentJob
  <1>3. j.id \in DOMAIN receipts  BY DEF JobsSound, SoundJob, CommitEditPayment, At
  <1> HIDE DEF j
  <1>4. new \in Receipt  BY <1>2 DEF Receipt
  <1>5. held \in Receipt  BY <1>0, <1>3
  <1> HIDE DEF new, held
  <1>6. /\ receipts' = [receipts EXCEPT ![j.id] = new]
        /\ Recount(held, new)
        /\ Finish(s)
        /\ UNCHANGED <<row, today, used>>
    BY DEF CommitEditPayment, new, held, j
  <1>7. receipts' \in Seq(Receipt)  BY <1>0, <1>3, <1>4, <1>6, EditReceiptType
  <1>8. collected' \in [Customers -> Int]  BY <1>4, <1>5, <1>6, RecountType
  <1>9. session' \in [Staff -> Job]  BY <1>6, FinishType
  <1> QED  BY <1>6, <1>7, <1>8, <1>9 DEF TablesTyped

LEMMA ForceType ==
    ASSUME TablesTyped, NEW c \in Customers, ForceSuspend(c) \/ ForceReactivate(c)
    PROVE  TablesTyped'
  <1>1. /\ [row[c] EXCEPT !.status = "suspended", !.expires = NoDate] \in Row
        /\ [row[c] EXCEPT !.status = "active"] \in Row
    BY DEF TablesTyped, Row, Statuses
  <1>2. row' \in [Customers -> Row]
    BY <1>1 DEF TablesTyped, ForceSuspend, ForceReactivate
  <1> QED  BY <1>2 DEF TablesTyped, ForceSuspend, ForceReactivate

LEMMA EditExpirationType ==
    ASSUME TablesTyped, NEW s \in Staff, CommitEditExpiration(s)
    PROVE  TablesTyped'
  <1> DEFINE j == session[s]
  <1>1. j \in EditExpirationJob  BY JobTypes DEF CommitEditExpiration
  <1>2. j.cust \in Customers /\ [j.seen EXCEPT !.expires = j.date] \in Row
    BY <1>1 DEF EditExpirationJob, Row
  <1>3. row' \in [Customers -> Row]  BY <1>2, WriteType DEF CommitEditExpiration
  <1>4. session' \in [Staff -> Job]  BY FinishType DEF CommitEditExpiration
  <1> QED  BY <1>3, <1>4 DEF TablesTyped, CommitEditExpiration

LEMMA EditBalanceType ==
    ASSUME TablesTyped, NEW s \in Staff, CommitEditBalance(s)
    PROVE  TablesTyped'
  <1> DEFINE j == session[s]
             new == [j.seen EXCEPT !.balance = j.amount,
                                   !.expires = IF j.date # NoDate THEN j.date ELSE @]
  <1>1. j \in EditBalanceJob  BY JobTypes DEF CommitEditBalance
  <1>2. j.cust \in Customers /\ new \in Row
    BY <1>1 DEF EditBalanceJob, Row
  <1> HIDE DEF new
  <1>3. Saved(new) \in Row  BY <1>2, SavedType
  <1>4. row' \in [Customers -> Row]  BY <1>2, <1>3, WriteType DEF CommitEditBalance, new
  <1>5. session' \in [Staff -> Job]  BY FinishType DEF CommitEditBalance
  <1> QED  BY <1>4, <1>5 DEF TablesTyped, CommitEditBalance

LEMMA RenewedType ==
    ASSUME today \in Nat, NEW r \in Row, r.expires # NoDate
    PROVE  Renewed(r) \in Row /\ Renewed(r).expires \in Int
  <1> DEFINE p == Price[r.plan]
             d == r.expires
  <1>1. p \in Nat /\ d \in Int  BY PlanAssumption DEF Row
  <1>2. r.balance + p \in Int  BY <1>1 DEF Row
  <1> HIDE DEF p, d
  <1>3. NewExpiry(d, p, p) \in Int  BY <1>1, NewExpiryType
  <1>4. /\ Renewed(r) = [r EXCEPT !.expires = NewExpiry(d, p, p), !.balance = r.balance + p]
    BY DEF Renewed, p, d
  <1> QED  BY <1>2, <1>3, <1>4 DEF Row

LEMMA AdvanceType ==
    ASSUME TablesTyped, NEW s \in Staff, session[s] \in BatchJob, NEW c, Advance(s, c)
    PROVE  session' \in [Staff -> Job]
  <1> DEFINE rest == [session[s] EXCEPT !.todo = session[s].todo \ {c}, !.owed = {}]
             next == IF session[s].todo = {c} /\ session[s].op # "suspend" THEN Idle ELSE rest
  <1>1. rest \in Job  BY DEF Job, BatchJob
  <1>2. next \in Job  BY <1>1 DEF Job
  <1>3. session' = [session EXCEPT ![s] = next]  BY DEF Advance
  <1> HIDE DEF next
  <1> QED  BY <1>2, <1>3 DEF TablesTyped

\* A batch that renews a customer keeps a well-typed job.
LEMMA RenewsJob ==
    ASSUME TablesTyped, NEW j \in BatchJob, NEW c \in Customers, j.rows[c].expires # NoDate
    PROVE  /\ [j EXCEPT !.rows = [j.rows EXCEPT ![c] = Renewed(@)], !.owed = {c}] \in BatchJob
           /\ [j.rows EXCEPT ![c] = Renewed(@)][c].expires # NoDate
  <1> DEFINE new == [j.rows EXCEPT ![c] = Renewed(@)]
  <1>1. j.rows \in [Customers -> Row] /\ today \in Nat  BY DEF BatchJob, TablesTyped
  <1>2. Renewed(j.rows[c]) \in Row /\ Renewed(j.rows[c]).expires \in Int
    BY <1>1, RenewedType
  <1>3. new \in [Customers -> Row] /\ new[c].expires \in Int  BY <1>1, <1>2
  <1>4. [j EXCEPT !.rows = [j.rows EXCEPT ![c] = Renewed(@)], !.owed = {c}]
          = [j EXCEPT !.rows = new, !.owed = {c}]
    OBVIOUS
  <1>5. new[c].expires # NoDate  BY <1>3, RequestAssumption
  <1> HIDE DEF new
  <1>6. [j EXCEPT !.rows = new, !.owed = {c}] \in BatchJob  BY <1>3 DEF BatchJob
  <1> QED  BY <1>4, <1>5, <1>6 DEF new

LEMMA RenewsType ==
    ASSUME TablesTyped, NEW s \in Staff, NEW c \in Customers, session[s] \in BatchJob,
           session[s].rows[c].expires # NoDate, Renews(s, c)
    PROVE  /\ session' \in [Staff -> Job]
           /\ used' \in [Customers -> Int]
  <1> DEFINE j == session[s]
             new == [j EXCEPT !.rows = [j.rows EXCEPT ![c] = Renewed(@)], !.owed = {c}]
             price == Price[j.rows[c].plan]
  <1>1. new \in Job
    <2>1. new \in BatchJob  BY RenewsJob
    <2> HIDE DEF new
    <2> QED  BY <2>1 DEF Job
  <1>2. session' = [session EXCEPT ![s] = new]  BY DEF Renews
  <1>3. price \in Nat  BY PlanAssumption DEF BatchJob, Row
  <1>4. used' = [used EXCEPT ![c] = @ + price]  BY DEF Renews
  <1> HIDE DEF new, price
  <1> QED  BY <1>1, <1>2, <1>3, <1>4 DEF TablesTyped

LEMMA RenewalReceiptType ==
    ASSUME NEW c \in Customers, NEW r \in Row
    PROVE  RenewalReceipt(c, r) \in Receipt
  <1>1. Price[r.plan] \in Nat /\ r.expires \in Date  BY PlanAssumption DEF Row, Date
  <1> QED  BY <1>1 DEF RenewalReceipt, Receipt, Date

LEMMA RecordRenewalType ==
    ASSUME TablesTyped, NEW s \in Staff, NEW c \in Customers, RecordRenewal(s, c)
    PROVE  TablesTyped'
  <1> DEFINE r == session[s].rows[c]
  <1>1. session[s] \in BatchJob  BY JobTypes DEF RecordRenewal
  <1>2. r \in Row  BY <1>1 DEF BatchJob
  <1>3. RenewalReceipt(c, r) \in Receipt  BY <1>2, RenewalReceiptType
  <1>4. receipts' \in Seq(Receipt)  BY <1>3 DEF RecordRenewal, TablesTyped
  <1>5. session' \in [Staff -> Job]  BY <1>1, AdvanceType DEF RecordRenewal
  <1> QED  BY <1>4, <1>5 DEF TablesTyped, RecordRenewal

LEMMA SweepType ==
    ASSUME TablesTyped, JobsSound, NEW s \in Staff, NEW c \in Customers, SweepCustomer(s, c)
    PROVE  TablesTyped'
  <1> DEFINE r == session[s].rows[c]
  <1>0. today \in Nat /\ row[c] \in Row  BY DEF TablesTyped
  <1>1. session[s] \in BatchJob  BY JobTypes DEF SweepCustomer, Reached
  <1>2. r \in Row  BY <1>1 DEF BatchJob
  <1>3. r.expires # NoDate  BY DEF JobsSound, SoundJob, SweepCustomer, Reached, At
  <1>4. CASE Renewable(r)
    <2> DEFINE new == [row[c] EXCEPT !.expires = Renewed(r).expires,
                                     !.balance = Renewed(r).balance]
    <2>1. Renews(s, c)  BY <1>4 DEF SweepCustomer
    <2>2. session' \in [Staff -> Job] /\ used' \in [Customers -> Int]
      BY <1>1, <1>3, <2>1, RenewsType
    <2>3. Renewed(r) \in Row  BY <1>0, <1>2, <1>3, RenewedType
    <2> HIDE DEF r
    <2>4. new \in Row  BY <1>0, <2>3 DEF Row
    <2>5. row' = [row EXCEPT ![c].expires = Renewed(r).expires,
                             ![c].balance = Renewed(r).balance]
      BY <1>4 DEF SweepCustomer, r
    <2>6. row' = [row EXCEPT ![c] = new]  BY <2>5 DEF TablesTyped
    <2> HIDE DEF new
    <2> QED  BY <2>2, <2>4, <2>6 DEF TablesTyped, SweepCustomer
  <1>5. CASE ~Renewable(r)
    <2>1. Advance(s, c) /\ UNCHANGED <<row, used>>  BY <1>5 DEF SweepCustomer
    <2>2. session' \in [Staff -> Job]  BY <1>1, <2>1, AdvanceType
    <2> QED  BY <2>1, <2>2 DEF TablesTyped, SweepCustomer
  <1> QED  BY <1>4, <1>5

LEMMA SuspendType ==
    ASSUME TablesTyped, JobsSound, NEW s \in Staff, NEW c \in Customers, SuspendCustomer(s, c)
    PROVE  TablesTyped'
  <1> DEFINE r == session[s].rows[c]
             off == Saved([r EXCEPT !.status = "suspended"])
  <1>0. today \in Nat  BY DEF TablesTyped
  <1>1. session[s] \in BatchJob  BY JobTypes DEF SuspendCustomer, Reached
  <1>2. r \in Row  BY <1>1 DEF BatchJob
  <1>3. r.expires # NoDate  BY DEF JobsSound, SoundJob, SuspendCustomer, Reached, At
  <1>4. [r EXCEPT !.status = "suspended"] \in Row  BY <1>2 DEF Row, Statuses
  <1>5. off \in Row  BY <1>4, SavedType
  <1>6. CASE Renewable(r)
    <2>1. Write(c, Renewed(r)) /\ Renews(s, c)  BY <1>6 DEF SuspendCustomer
    <2>2. session' \in [Staff -> Job] /\ used' \in [Customers -> Int]
      BY <1>1, <1>3, <2>1, RenewsType
    <2>3. Renewed(r) \in Row  BY <1>0, <1>2, <1>3, RenewedType
    <2>4. row' \in [Customers -> Row]  BY <2>1, <2>3, WriteType
    <2> QED  BY <2>2, <2>4 DEF TablesTyped, SuspendCustomer
  <1>7. CASE ~Renewable(r)
    <2>1. Write(c, off) \/ UNCHANGED row  BY <1>7 DEF SuspendCustomer
    <2>2. row' \in [Customers -> Row]  BY <1>5, <2>1, WriteType DEF TablesTyped
    <2>3. Advance(s, c) /\ UNCHANGED used  BY <1>7 DEF SuspendCustomer
    <2>4. session' \in [Staff -> Job]  BY <1>1, <2>3, AdvanceType
    <2> QED  BY <2>2, <2>3, <2>4 DEF TablesTyped, SuspendCustomer
  <1> QED  BY <1>6, <1>7

LEMMA RogueType ==
    ASSUME TablesTyped, NEW s \in Staff, NEW c \in Customers, SuspendRogue(s, c)
    PROVE  TablesTyped'
  <1> DEFINE r == session[s].rows[c]
             off == Saved([r EXCEPT !.status = "suspended"])
  <1>1. session[s] \in BatchJob  BY JobTypes DEF SuspendRogue, Reached
  <1>2. r \in Row  BY <1>1 DEF BatchJob
  <1>3. session' \in [Staff -> Job]  BY <1>1, AdvanceType DEF SuspendRogue
  <1>4. [r EXCEPT !.status = "suspended"] \in Row  BY <1>2 DEF Row, Statuses
  <1>5. off \in Row  BY <1>4, SavedType
  <1>6. Write(c, off) \/ UNCHANGED row  BY DEF SuspendRogue
  <1>7. row' \in [Customers -> Row]  BY <1>5, <1>6, WriteType DEF TablesTyped
  <1> QED  BY <1>3, <1>7 DEF TablesTyped, SuspendRogue

LEMMA BatchOpenType ==
    ASSUME TablesTyped, NEW s \in Staff, OpenSweep(s) \/ OpenSuspend(s) \/ OpenRogue(s)
    PROVE  TablesTyped'
  <1>1. PastDue \in SUBSET Customers  BY DEF PastDue
  <1>2. /\ [op |-> "sweep", rows |-> row, todo |-> PastDue, owed |-> {}] \in Job
        /\ [op |-> "suspend", rows |-> row, todo |-> PastDue, owed |-> {}] \in Job
    BY <1>1 DEF Job, BatchJob, TablesTyped
  <1>3. CASE OpenSweep(s)  BY <1>2, <1>3, BeginType DEF OpenSweep
  <1>4. CASE OpenSuspend(s)  BY <1>2, <1>4, BeginType DEF OpenSuspend
  <1>5. CASE OpenRogue(s)
    <2> DEFINE bad == {c \in Rogue : row[c].status = "active"}
    <2>1. bad \in SUBSET Customers  BY PeopleAssumption
    <2>2. [op |-> "rogue", rows |-> row, todo |-> bad, owed |-> {}] \in Job /\ Idle \in Job
      BY <2>1 DEF Job, BatchJob, TablesTyped
    <2> QED  BY <1>5, <2>2 DEF OpenRogue, TablesTyped, Table
  <1> QED  BY <1>3, <1>4, <1>5

LEMMA RequestType ==
    ASSUME TablesTyped, NEW s \in Staff, NEW c \in Customers, Request(s, c)
    PROVE  TablesTyped'
  <1>0. row[c] \in Row /\ today \in Nat /\ Price[row[c].plan] \in Nat
    BY PlanAssumption DEF TablesTyped, Row
  <1>1. ASSUME NEW a \in Amounts, NEW d \in Dates, NEW p \in Plans \cup {NoPlan},
               OpenPay(s, c, a, d, p)
        PROVE  TablesTyped'
    <2>1. StartOf(row[c]) \in Int  BY <1>0 DEF StartOf, Future, Row
    <2>2. a \in Nat /\ (IF d # NoDate THEN d ELSE StartOf(row[c])) \in Int
      BY <2>1, RequestAssumption
    <2>3. [op |-> "pay", cust |-> c, amount |-> a, plan |-> p, price |-> Price[row[c].plan],
           start |-> IF d # NoDate THEN d ELSE StartOf(row[c])] \in Job
      BY <1>0, <2>2 DEF Job, PayJob
    <2> QED  BY <1>1, <2>3, BeginType DEF OpenPay
  <1>2. ASSUME NEW a \in Amounts, NEW p \in Plans \cup {NoPlan}, OpenPortal(s, c, a, p)
        PROVE  TablesTyped'
    <2>1. [op |-> "portal", cust |-> c, amount |-> a, plan |-> p,
           price |-> Price[row[c].plan]] \in Job
      BY <1>0, RequestAssumption DEF Job, PortalJob
    <2> QED  BY <1>2, <2>1, BeginType DEF OpenPortal
  <1>3. ASSUME NEW d \in Dates, OpenRebate(s, c, d)
        PROVE  TablesTyped'
    <2>1. [op |-> "rebate", cust |-> c, seen |-> row[c], date |-> d] \in Job
      BY <1>0, <1>3, RequestAssumption DEF Job, RebateJob, OpenRebate
    <2> QED  BY <1>3, <2>1, BeginType DEF OpenRebate
  <1>4. ASSUME NEW a \in Amounts, NEW d \in Dates, OpenRollback(s, c, d, a)
        PROVE  TablesTyped'
    <2>1. [op |-> "rollback", cust |-> c, seen |-> row[c], date |-> d, amount |-> a] \in Job
      BY <1>0, <1>4, RequestAssumption DEF Job, RollbackJob, OpenRollback
    <2> QED  BY <1>4, <2>1, BeginType DEF OpenRollback
  <1>5. ASSUME NEW k \in 1..MaxReceipts, OpenTransfer(s, k, c)
        PROVE  TablesTyped'
    <2>1. receipts[k] \in Receipt /\ k \in Nat  BY <1>5 DEF TablesTyped, OpenTransfer
    <2>2. [op |-> "transfer", id |-> k, cust |-> c, seen |-> receipts[k]] \in Job
      BY <2>1 DEF Job, TransferJob
    <2> QED  BY <1>5, <2>2, BeginType DEF OpenTransfer
  <1>6. ASSUME NEW d \in Dates, OpenEditExpiration(s, c, d)
        PROVE  TablesTyped'
    <2>1. [op |-> "editExpiration", cust |-> c, seen |-> row[c], date |-> d] \in Job
      BY <1>0, RequestAssumption DEF Job, EditExpirationJob
    <2> QED  BY <1>6, <2>1, BeginType DEF OpenEditExpiration
  <1>7. ASSUME NEW a \in Int, NEW d \in Dates, OpenEditBalance(s, c, a, d)
        PROVE  TablesTyped'
    <2> DEFINE opened(base) ==
          [op |-> "editBalance", cust |-> c, seen |-> row[c], amount |-> a,
           date |-> IF a = 0 /\ d \in {NoDate, row[c].expires} THEN base ELSE d]
    <2>1. PICK base \in BaseExpiration(c, row[c]) : Begin(s, "editBalance", opened(base))
      BY <1>7 DEF OpenEditBalance
    <2>2. base \in Date  BY <1>0, BaseExpirationType
    <2>3. opened(base) \in Job
      BY <1>0, <2>2, RequestAssumption DEF Job, EditBalanceJob, Date
    <2> HIDE DEF opened
    <2> QED  BY <1>7, <2>1, <2>3, BeginType DEF OpenEditBalance
  <1>8. \A a \in Amounts : a \in Int /\ -a \in Int  BY RequestAssumption
  <1> QED
    BY <1>1, <1>2, <1>3, <1>4, <1>5, <1>6, <1>7, <1>8 DEF Request

LEMMA OpenEditPaymentType ==
    ASSUME TablesTyped, NEW s \in Staff, NEW k \in 1..MaxReceipts, NEW a \in Amounts,
           OpenEditPayment(s, k, a)
    PROVE  TablesTyped'
  <1>1. receipts[k] \in Receipt /\ k \in Nat  BY DEF TablesTyped, OpenEditPayment
  <1>2. [op |-> "editPayment", id |-> k, seen |-> receipts[k], amount |-> a] \in Job
    BY <1>1, RequestAssumption DEF Job, EditPaymentJob
  <1> QED  BY <1>2, BeginType DEF OpenEditPayment

LEMMA TypeStep ==
    TablesTyped /\ JobsSound /\ [Next]_vars => TablesTyped'
  <1> SUFFICES ASSUME TablesTyped, JobsSound, [Next]_vars PROVE TablesTyped'  OBVIOUS
  <1>1. ASSUME NEW s \in Staff, NEW c \in Customers, Request(s, c) PROVE TablesTyped'
    BY <1>1, RequestType
  <1>2. ASSUME NEW s \in Staff, NEW k \in 1..MaxReceipts, NEW a \in Amounts,
               OpenEditPayment(s, k, a)
        PROVE  TablesTyped'
    BY <1>2, OpenEditPaymentType
  <1>3. ASSUME NEW s \in Staff, Commit(s) PROVE TablesTyped'
    <2>1. CASE AbortTransfer(s)
      BY <2>1, FinishType DEF AbortTransfer, TablesTyped, Table
    <2> QED
      BY <1>3, <2>1, PayType, PayRouterType, PortalType, RebateType, RollbackType,
         RefundType, TransferType, EditPaymentType, EditExpirationType, EditBalanceType DEF Commit
  <1>4. ASSUME NEW s \in Staff, Batch(s) PROVE TablesTyped'
    BY <1>4, BatchOpenType, SweepType, SuspendType, RogueType, RecordRenewalType
    DEF Batch
  <1>5. ASSUME NEW c \in Customers, ForceSuspend(c) \/ ForceReactivate(c) PROVE TablesTyped'
    BY <1>5, ForceType
  <1>6. CASE NextDay  BY <1>6 DEF NextDay, TablesTyped
  <1>7. CASE AtRest \/ UNCHANGED vars  BY <1>7 DEF AtRest, TablesTyped, vars
  <1> QED  BY <1>1, <1>2, <1>3, <1>4, <1>5, <1>6, <1>7 DEF Next
-----------------------------------------------------------------------------
(* Sessions stay sound *)

\* The Payment table never shrinks.
LEMMA ReceiptsStay ==
    ASSUME TablesTyped, JobsSound, [Next]_vars
    PROVE  DOMAIN receipts \subseteq DOMAIN receipts'
  <1>0. receipts \in Seq(Receipt)  BY DEF TablesTyped
  <1>1. ASSUME NEW x, receipts' = Append(receipts, x) PROVE DOMAIN receipts \subseteq DOMAIN receipts'
    BY <1>0, <1>1
  <1>2. ASSUME NEW k, NEW x, receipts' = [receipts EXCEPT ![k] = x] PROVE DOMAIN receipts \subseteq DOMAIN receipts'
    BY <1>0, <1>2
  <1>3. CASE UNCHANGED receipts  BY <1>3
  <1>4. ASSUME NEW s \in Staff, Commit(s) PROVE DOMAIN receipts \subseteq DOMAIN receipts'
    <2>1. CASE CommitPay(s)  BY <1>1, <2>1 DEF CommitPay, Record
    <2>2. CASE CommitPortal(s)  BY <1>1, <1>3, <2>2 DEF CommitPortal, Record
    <2>3. CASE RecordRefund(s)  BY <1>1, <2>3 DEF RecordRefund, Record
    <2>4. CASE CommitTransfer(s)  BY <1>2, <2>4 DEF CommitTransfer
    <2>5. CASE CommitEditPayment(s)  BY <1>2, <2>5 DEF CommitEditPayment
    <2>6. CASE \/ PayRouter(s) \/ CommitRebate(s) \/ CommitRollback(s) \/ AbortTransfer(s)
               \/ CommitEditExpiration(s) \/ CommitEditBalance(s)
      BY <1>3, <2>6
      DEF PayRouter, CommitRebate, CommitRollback, AbortTransfer, CommitEditExpiration,
          CommitEditBalance, Table
    <2> QED  BY <1>4, <2>1, <2>2, <2>3, <2>4, <2>5, <2>6 DEF Commit
  <1>5. ASSUME NEW s \in Staff, Batch(s) PROVE DOMAIN receipts \subseteq DOMAIN receipts'
    BY <1>1, <1>3, <1>5
    DEF Batch, OpenSweep, OpenSuspend, OpenRogue, SweepCustomer, SuspendCustomer,
        SuspendRogue, RecordRenewal, Table
  <1>6. ASSUME NEW s \in Staff, NEW c \in Customers, Request(s, c) PROVE DOMAIN receipts \subseteq DOMAIN receipts'
    BY <1>3, <1>6
    DEF Request, OpenPay, OpenPortal, OpenRebate, OpenRollback, OpenTransfer,
        OpenEditExpiration, OpenEditBalance, Table
  <1>7. ASSUME NEW s \in Staff, NEW k, NEW a, OpenEditPayment(s, k, a) PROVE DOMAIN receipts \subseteq DOMAIN receipts'
    BY <1>3, <1>7 DEF OpenEditPayment, Table
  <1>8. ASSUME NEW c \in Customers, ForceSuspend(c) \/ ForceReactivate(c) PROVE DOMAIN receipts \subseteq DOMAIN receipts'
    BY <1>3, <1>8 DEF ForceSuspend, ForceReactivate
  <1>9. CASE NextDay \/ AtRest \/ UNCHANGED vars
    BY <1>3, <1>9 DEF NextDay, AtRest, vars
  <1> QED  BY <1>4, <1>5, <1>6, <1>7, <1>8, <1>9 DEF Next

\* Giving one session a job that is sound now keeps every session sound.
LEMMA NewJobSound ==
    ASSUME TablesTyped, JobsSound, NEW s \in Staff, NEW j, SoundJob(j),
           session' = [session EXCEPT ![s] = j], DOMAIN receipts \subseteq DOMAIN receipts'
    PROVE  JobsSound'
  BY DEF TablesTyped, JobsSound, SoundJob

LEMMA SameJobsSound ==
    ASSUME JobsSound, UNCHANGED session, DOMAIN receipts \subseteq DOMAIN receipts'
    PROVE  JobsSound'
  BY DEF JobsSound, SoundJob

LEMMA AdvanceSound ==
    ASSUME TablesTyped, JobsSound, NEW s \in Staff, NEW c, Advance(s, c),
           session[s] \in BatchJob, DOMAIN receipts \subseteq DOMAIN receipts'
    PROVE  JobsSound'
  <1> DEFINE j    == session[s]
             rest == [j EXCEPT !.todo = j.todo \ {c}, !.owed = {}]
             next == IF j.todo = {c} /\ j.op # "suspend" THEN Idle ELSE rest
  <1>1. SoundJob(j)  BY DEF JobsSound
  <1>2. /\ rest.op = j.op /\ rest.rows = j.rows /\ rest.todo = j.todo \ {c}
        /\ j.op \in {"sweep", "suspend", "rogue"}
    BY DEF BatchJob
  <1>3. SoundJob(rest)  BY <1>1, <1>2 DEF SoundJob
  <1>4. SoundJob(Idle)  BY DEF SoundJob, Idle
  <1>5. session' = [session EXCEPT ![s] = next]  BY DEF Advance
  <1>6. SoundJob(next)  BY <1>3, <1>4
  <1> HIDE DEF next
  <1> QED  BY <1>5, <1>6, NewJobSound

LEMMA RenewsSound ==
    ASSUME TablesTyped, JobsSound, NEW s \in Staff, NEW c \in Customers, Renews(s, c),
           Reached(s, "sweep", c) \/ Reached(s, "suspend", c),
           session[s] \in BatchJob, DOMAIN receipts \subseteq DOMAIN receipts'
    PROVE  JobsSound'
  <1> DEFINE j   == session[s]
             new == [j EXCEPT !.rows = [j.rows EXCEPT ![c] = Renewed(@)], !.owed = {c}]
             rows == [j.rows EXCEPT ![c] = Renewed(@)]
  <1>1. \A d \in j.todo : j.rows[d].expires # NoDate
    BY DEF JobsSound, SoundJob, Reached, At
  <1>2. c \in j.todo /\ j.todo \subseteq Customers /\ j.op \in {"sweep", "suspend", "rogue"}
        /\ j.rows \in [Customers -> Row]
    BY DEF Reached, BatchJob
  <1>3. rows[c].expires # NoDate  BY <1>1, <1>2, RenewsJob
  <1>4. new.op = j.op /\ new.rows = rows /\ new.todo = j.todo  BY DEF BatchJob
  <1>5. \A d \in j.todo : d # c => rows[d] = j.rows[d]  BY <1>2
  <1> HIDE DEF rows
  <1>6. \A d \in j.todo : rows[d].expires # NoDate  BY <1>1, <1>3, <1>5
  <1>7. session' = [session EXCEPT ![s] = new]  BY DEF Renews
  <1> HIDE DEF new
  <1>8. SoundJob(new)  BY <1>2, <1>4, <1>6 DEF SoundJob
  <1> QED  BY <1>7, <1>8, NewJobSound

LEMMA SoundStep ==
    TablesTyped /\ JobsSound /\ [Next]_vars => JobsSound'
  <1> SUFFICES ASSUME TablesTyped, JobsSound, [Next]_vars PROVE JobsSound'  OBVIOUS
  <1>1. DOMAIN receipts \subseteq DOMAIN receipts'  BY ReceiptsStay
  <1>2. ASSUME NEW s \in Staff, NEW h, NEW j, SoundJob(j), Begin(s, h, j) PROVE JobsSound'
    BY <1>1, <1>2, NewJobSound DEF Begin
  <1>3. ASSUME NEW s \in Staff, Finish(s) PROVE JobsSound'
    <2>1. SoundJob(Idle)  BY DEF SoundJob, Idle
    <2> QED  BY <1>1, <1>3, <2>1, NewJobSound DEF Finish
  <1>4. CASE UNCHANGED session  BY <1>1, <1>4, SameJobsSound
  <1>5. ASSUME NEW s \in Staff, NEW c \in Customers, Request(s, c) PROVE JobsSound'
    <2>1. ASSUME NEW a \in Amounts, NEW d \in Dates, NEW p \in Plans \cup {NoPlan},
                 OpenPay(s, c, a, d, p)
          PROVE  JobsSound'
      <3> DEFINE j == [op |-> "pay", cust |-> c, amount |-> a, plan |-> p,
                       price |-> Price[row[c].plan],
                       start |-> IF d # NoDate THEN d ELSE StartOf(row[c])]
      <3>1. SoundJob(j)  BY DEF SoundJob
      <3>2. Begin(s, "pay", j)  BY <2>1 DEF OpenPay
      <3> HIDE DEF j
      <3> QED  BY <1>2, <3>1, <3>2
    <2>2. ASSUME NEW a \in Amounts, NEW p \in Plans \cup {NoPlan}, OpenPortal(s, c, a, p)
          PROVE  JobsSound'
      <3> DEFINE j == [op |-> "portal", cust |-> c, amount |-> a, plan |-> p,
                       price |-> Price[row[c].plan]]
      <3>1. SoundJob(j)  BY DEF SoundJob
      <3>2. Begin(s, "portal", j)  BY <2>2 DEF OpenPortal
      <3> HIDE DEF j
      <3> QED  BY <1>2, <3>1, <3>2
    <2>3. ASSUME NEW d \in Dates, OpenRebate(s, c, d) PROVE JobsSound'
      <3> DEFINE j == [op |-> "rebate", cust |-> c, seen |-> row[c], date |-> d]
      <3>1. SoundJob(j)  BY DEF SoundJob
      <3> QED  BY <1>2, <2>3, <3>1 DEF OpenRebate
    <2>4. ASSUME NEW a \in Amounts, NEW d \in Dates, OpenRollback(s, c, d, a) PROVE JobsSound'
      <3> DEFINE j == [op |-> "rollback", cust |-> c, seen |-> row[c], date |-> d, amount |-> a]
      <3>1. SoundJob(j)  BY DEF SoundJob
      <3> QED  BY <1>2, <2>4, <3>1 DEF OpenRollback
    <2>5. ASSUME NEW k \in 1..MaxReceipts, OpenTransfer(s, k, c) PROVE JobsSound'
      <3> DEFINE j == [op |-> "transfer", id |-> k, cust |-> c, seen |-> receipts[k]]
      <3>1. SoundJob(j)  BY <2>5 DEF SoundJob, OpenTransfer
      <3> QED  BY <1>2, <2>5, <3>1 DEF OpenTransfer
    <2>6. ASSUME NEW d \in Dates, OpenEditExpiration(s, c, d) PROVE JobsSound'
      <3> DEFINE j == [op |-> "editExpiration", cust |-> c, seen |-> row[c], date |-> d]
      <3>1. SoundJob(j)  BY DEF SoundJob
      <3> QED  BY <1>2, <2>6, <3>1 DEF OpenEditExpiration
    <2>7. ASSUME NEW a, NEW d \in Dates, OpenEditBalance(s, c, a, d) PROVE JobsSound'
      <3> DEFINE j(base) ==
            [op |-> "editBalance", cust |-> c, seen |-> row[c], amount |-> a,
             date |-> IF a = 0 /\ d \in {NoDate, row[c].expires} THEN base ELSE d]
      <3>1. PICK base : Begin(s, "editBalance", j(base))  BY <2>7 DEF OpenEditBalance
      <3>2. SoundJob(j(base))  BY DEF SoundJob
      <3> HIDE DEF j
      <3> QED  BY <1>2, <3>1, <3>2
    <2> QED  BY <1>5, <2>1, <2>2, <2>3, <2>4, <2>5, <2>6, <2>7 DEF Request
  <1>6. ASSUME NEW s \in Staff, NEW k, NEW a, OpenEditPayment(s, k, a) PROVE JobsSound'
    <2> DEFINE j == [op |-> "editPayment", id |-> k, seen |-> receipts[k], amount |-> a]
    <2>1. SoundJob(j)  BY <1>6 DEF SoundJob, OpenEditPayment
    <2> QED  BY <1>2, <1>6, <2>1 DEF OpenEditPayment
  <1>7. ASSUME NEW s \in Staff, Commit(s) PROVE JobsSound'
    <2>1. CASE CommitPay(s)
      <3> DEFINE c == session[s].cust
                 j == [op |-> "payRouter", cust |-> c, cut |-> row[c].status \in Cut]
      <3>1. SoundJob(j)  BY DEF SoundJob
      <3>2. session' = [session EXCEPT ![s] = j]  BY <2>1 DEF CommitPay
      <3> HIDE DEF j
      <3> QED  BY <1>1, <3>1, <3>2, NewJobSound
    <2>2. CASE CommitRollback(s)
      <3> DEFINE k == session[s]
                 j == IF k.amount > 0 THEN [op |-> "refund", cust |-> k.cust, amount |-> k.amount]
                      ELSE Idle
      <3>1. SoundJob(j)  BY DEF SoundJob, Idle
      <3>2. session' = [session EXCEPT ![s] = j]  BY <2>2 DEF CommitRollback
      <3> HIDE DEF j
      <3> QED  BY <1>1, <3>1, <3>2, NewJobSound
    <2>3. CASE ~CommitPay(s) /\ ~CommitRollback(s)
      BY <1>3, <1>7, <2>3
      DEF Commit, PayRouter, CommitPortal, CommitRebate, RecordRefund, CommitTransfer,
          AbortTransfer, CommitEditPayment, CommitEditExpiration, CommitEditBalance
    <2> QED  BY <2>1, <2>2, <2>3
  <1>8. ASSUME NEW s \in Staff, Batch(s) PROVE JobsSound'
    <2>1. SoundJob([op |-> "sweep", rows |-> row, todo |-> PastDue, owed |-> {}])
      BY DEF SoundJob, PastDue, Past
    <2>2. SoundJob([op |-> "suspend", rows |-> row, todo |-> PastDue, owed |-> {}])
      BY DEF SoundJob, PastDue, Past
    <2>3. CASE OpenSweep(s)  BY <1>2, <2>1, <2>3 DEF OpenSweep
    <2>4. CASE OpenSuspend(s)  BY <1>2, <2>2, <2>4 DEF OpenSuspend
    <2>5. CASE OpenRogue(s)
      <3> DEFINE bad == {c \in Rogue : row[c].status = "active"}
                 j   == [op |-> "rogue", rows |-> row, todo |-> bad, owed |-> {}]
                 nxt == IF bad = {} THEN Idle ELSE j
      <3>1. SoundJob(j) /\ SoundJob(Idle)  BY DEF SoundJob, Idle
      <3>2. SoundJob(nxt)  BY <3>1
      <3>3. session' = [session EXCEPT ![s] = nxt]  BY <2>5 DEF OpenRogue
      <3> HIDE DEF nxt
      <3> QED  BY <1>1, <3>2, <3>3, NewJobSound
    <2>6. ASSUME NEW c \in Customers,
                 \/ SweepCustomer(s, c) \/ SuspendCustomer(s, c) \/ SuspendRogue(s, c)
                 \/ RecordRenewal(s, c)
          PROVE  JobsSound'
      <3>1. session[s] \in BatchJob
        BY <2>6, JobTypes
        DEF SweepCustomer, SuspendCustomer, SuspendRogue, Reached, RecordRenewal
      <3>2. CASE Advance(s, c)  BY <1>1, <3>1, <3>2, AdvanceSound
      <3>3. CASE Renews(s, c) /\ (Reached(s, "sweep", c) \/ Reached(s, "suspend", c))
        BY <1>1, <3>1, <3>3, RenewsSound
      <3> QED
        BY <2>6, <3>2, <3>3 DEF SweepCustomer, SuspendCustomer, SuspendRogue, RecordRenewal
    <2> QED  BY <1>8, <2>3, <2>4, <2>5, <2>6 DEF Batch
  <1>9. ASSUME NEW c \in Customers, ForceSuspend(c) \/ ForceReactivate(c) PROVE JobsSound'
    BY <1>4, <1>9 DEF ForceSuspend, ForceReactivate
  <1>10. CASE NextDay \/ AtRest \/ UNCHANGED vars
    BY <1>4, <1>10 DEF NextDay, AtRest, vars
  <1> QED  BY <1>5, <1>6, <1>7, <1>8, <1>9, <1>10 DEF Next

\* Every column, and every row a request carries from its read to its write,
\* keeps its type; a transfer or a correction writes a Payment row that exists,
\* and a batch renews only rows that have a due date (a renewal adds days to it).
THEOREM TypeCorrect == Spec => []TypeOK
  <1>1. Init => TypeOK
    <2>1. Init => JobsSound  BY DEF Init, JobsSound, SoundJob, Idle
    <2> QED  BY <2>1, TypeInit DEF TypeOK
  <1>2. TypeOK /\ [Next]_vars => TypeOK'
    BY TypeStep, SoundStep DEF TypeOK
  <1> QED  BY <1>1, <1>2, PTL DEF Spec
-----------------------------------------------------------------------------
(* Which handlers the sessions come from *)

\* What a session stands at is a handler that runs, or what one goes on to.
Begun(j) ==
    \/ j.op \in Handlers \cup {"idle"}
    \/ j.op = "payRouter" /\ "pay" \in Handlers
    \/ j.op = "refund" /\ "rollback" \in Handlers
    \/ j.op = "rogue" /\ "suspend" \in Handlers
OnlyBegun == \A s \in Staff : Begun(session[s])

LEMMA BegunStep ==
    TypeOK /\ OnlyBegun /\ [Next]_vars => OnlyBegun'
  <1> SUFFICES ASSUME TypeOK, OnlyBegun, [Next]_vars PROVE OnlyBegun'  OBVIOUS
  <1>0. session \in [Staff -> Job]  BY DEF TypeOK, TablesTyped
  <1>1. ASSUME NEW s \in Staff, NEW j, Begun(j), session' = [session EXCEPT ![s] = j]
        PROVE  OnlyBegun'
    BY <1>0, <1>1 DEF OnlyBegun, Begun
  <1>2. CASE UNCHANGED session  BY <1>2 DEF OnlyBegun, Begun
  <1>3. ASSUME NEW s \in Staff, Finish(s) PROVE OnlyBegun'
    <2>1. Begun(Idle)  BY DEF Begun, Idle
    <2> QED  BY <1>1, <1>3, <2>1 DEF Finish
  <1>4. ASSUME NEW s \in Staff, NEW h, NEW j, Begin(s, h, j), j.op = h PROVE OnlyBegun'
    <2>1. Begun(j)  BY <1>4 DEF Begin, Begun
    <2> QED  BY <1>1, <1>4, <2>1 DEF Begin
  <1>5. ASSUME NEW s \in Staff, NEW c \in Customers, Request(s, c) PROVE OnlyBegun'
    <2>1. ASSUME NEW a, NEW d, NEW p, OpenPay(s, c, a, d, p) PROVE OnlyBegun'
      <3> DEFINE j == [op |-> "pay", cust |-> c, amount |-> a, plan |-> p,
                       price |-> Price[row[c].plan],
                       start |-> IF d # NoDate THEN d ELSE StartOf(row[c])]
      <3>1. j.op = "pay"  OBVIOUS
      <3>2. Begin(s, "pay", j)  BY <2>1 DEF OpenPay
      <3> HIDE DEF j
      <3> QED  BY <1>4, <3>1, <3>2
    <2>2. ASSUME NEW a, NEW p, OpenPortal(s, c, a, p) PROVE OnlyBegun'
      BY <1>4, <2>2 DEF OpenPortal
    <2>3. ASSUME NEW d, OpenRebate(s, c, d) PROVE OnlyBegun'  BY <1>4, <2>3 DEF OpenRebate
    <2>4. ASSUME NEW a, NEW d, OpenRollback(s, c, d, a) PROVE OnlyBegun'
      BY <1>4, <2>4 DEF OpenRollback
    <2>5. ASSUME NEW k, OpenTransfer(s, k, c) PROVE OnlyBegun'  BY <1>4, <2>5 DEF OpenTransfer
    <2>6. ASSUME NEW d, OpenEditExpiration(s, c, d) PROVE OnlyBegun'
      BY <1>4, <2>6 DEF OpenEditExpiration
    <2>7. ASSUME NEW a, NEW d, OpenEditBalance(s, c, a, d) PROVE OnlyBegun'
      <3> DEFINE j(base) ==
            [op |-> "editBalance", cust |-> c, seen |-> row[c], amount |-> a,
             date |-> IF a = 0 /\ d \in {NoDate, row[c].expires} THEN base ELSE d]
      <3>1. PICK base : Begin(s, "editBalance", j(base))  BY <2>7 DEF OpenEditBalance
      <3>2. j(base).op = "editBalance"  OBVIOUS
      <3> HIDE DEF j
      <3> QED  BY <1>4, <3>1, <3>2
    <2> QED  BY <1>5, <2>1, <2>2, <2>3, <2>4, <2>5, <2>6, <2>7 DEF Request
  <1>6. ASSUME NEW s \in Staff, NEW k, NEW a, OpenEditPayment(s, k, a) PROVE OnlyBegun'
    BY <1>4, <1>6 DEF OpenEditPayment
  <1>7. ASSUME NEW s \in Staff, Commit(s) PROVE OnlyBegun'
    <2>0. Begun(session[s])  BY DEF OnlyBegun
    <2>1. CASE CommitPay(s)
      <3> DEFINE c == session[s].cust
                 j == [op |-> "payRouter", cust |-> c, cut |-> row[c].status \in Cut]
      <3>1. Begun(j)  BY <2>0, <2>1 DEF CommitPay, At, Begun
      <3>2. session' = [session EXCEPT ![s] = j]  BY <2>1 DEF CommitPay
      <3> HIDE DEF j
      <3> QED  BY <1>1, <3>1, <3>2
    <2>2. CASE CommitRollback(s)
      <3> DEFINE k == session[s]
                 j == IF k.amount > 0 THEN [op |-> "refund", cust |-> k.cust, amount |-> k.amount]
                      ELSE Idle
      <3>1. Begun(j)  BY <2>0, <2>2 DEF CommitRollback, At, Begun, Idle
      <3>2. session' = [session EXCEPT ![s] = j]  BY <2>2 DEF CommitRollback
      <3> HIDE DEF j
      <3> QED  BY <1>1, <3>1, <3>2
    <2> QED
      BY <1>3, <1>7, <2>1, <2>2
      DEF Commit, PayRouter, CommitPortal, CommitRebate, RecordRefund,
          CommitTransfer, AbortTransfer, CommitEditPayment, CommitEditExpiration,
          CommitEditBalance
  <1>8. ASSUME NEW s \in Staff, Batch(s) PROVE OnlyBegun'
    <2>0. Begun(session[s])  BY DEF OnlyBegun
    <2>1. CASE OpenSweep(s)  BY <1>4, <2>1 DEF OpenSweep
    <2>2. CASE OpenSuspend(s)  BY <1>4, <2>2 DEF OpenSuspend
    <2>3. CASE OpenRogue(s)
      <3> DEFINE bad == {c \in Rogue : row[c].status = "active"}
                 j   == IF bad = {} THEN Idle
                        ELSE [op |-> "rogue", rows |-> row, todo |-> bad, owed |-> {}]
      <3>1. Begun(j)  BY <2>0, <2>3 DEF OpenRogue, At, Begun, Idle
      <3>2. session' = [session EXCEPT ![s] = j]  BY <2>3 DEF OpenRogue
      <3> HIDE DEF j
      <3> QED  BY <1>1, <3>1, <3>2
    <2>4. ASSUME NEW c, Advance(s, c), session[s] \in BatchJob PROVE OnlyBegun'
      <3> DEFINE rest == [session[s] EXCEPT !.todo = session[s].todo \ {c}, !.owed = {}]
                 next == IF session[s].todo = {c} /\ session[s].op # "suspend"
                         THEN Idle ELSE rest
      <3>1. rest.op = session[s].op /\ Idle.op = "idle"  BY <2>4 DEF BatchJob, Idle
      <3>2. session' = [session EXCEPT ![s] = next]  BY <2>4 DEF Advance
      <3> HIDE DEF rest
      <3>3. Begun(next)  BY <2>0, <3>1 DEF Begun
      <3> HIDE DEF next
      <3> QED  BY <1>1, <3>2, <3>3
    <2>5. ASSUME NEW c, Renews(s, c), session[s] \in BatchJob PROVE OnlyBegun'
      <3> DEFINE j == session[s]
                 next == [j EXCEPT !.rows = [j.rows EXCEPT ![c] = Renewed(@)], !.owed = {c}]
      <3>1. next.op = j.op  BY <2>5 DEF BatchJob
      <3>2. session' = [session EXCEPT ![s] = next]  BY <2>5 DEF Renews
      <3> HIDE DEF next
      <3>3. Begun(next)  BY <2>0, <3>1 DEF Begun
      <3> QED  BY <1>1, <3>2, <3>3
    <2>6. ASSUME NEW c \in Customers,
                 \/ SweepCustomer(s, c) \/ SuspendCustomer(s, c) \/ SuspendRogue(s, c)
                 \/ RecordRenewal(s, c)
          PROVE  OnlyBegun'
      <3>1. session[s] \in BatchJob
        BY <2>6, JobTypes
        DEF SweepCustomer, SuspendCustomer, SuspendRogue, Reached, RecordRenewal, TypeOK
      <3>2. Advance(s, c) \/ Renews(s, c)
        BY <2>6 DEF SweepCustomer, SuspendCustomer, SuspendRogue, RecordRenewal
      <3> QED  BY <2>4, <2>5, <3>1, <3>2
    <2> QED  BY <1>8, <2>1, <2>2, <2>3, <2>6 DEF Batch
  <1>9. ASSUME NEW c \in Customers, ForceSuspend(c) \/ ForceReactivate(c) PROVE OnlyBegun'
    BY <1>2, <1>9 DEF ForceSuspend, ForceReactivate
  <1>10. CASE NextDay \/ AtRest \/ UNCHANGED vars
    BY <1>2, <1>10 DEF NextDay, AtRest, vars
  <1> QED  BY <1>5, <1>6, <1>7, <1>8, <1>9, <1>10 DEF Next

\* No session ever stands at a handler that does not run.
LEMMA AlwaysBegun == Spec => []OnlyBegun
  <1>1. Init => OnlyBegun  BY DEF Init, OnlyBegun, Begun, Idle
  <1>2. TypeOK /\ OnlyBegun /\ [Next]_vars => OnlyBegun'  BY BegunStep
  <1> QED  BY <1>1, <1>2, TypeCorrect, PTL DEF Spec
-----------------------------------------------------------------------------
(* The books of the handlers that lock the row *)

\* The handlers that re-read the row under select_for_update, or write single
\* columns that the books do not count.
LockedHandlers == {"pay", "portal", "forceSuspend", "forceReactivate"}

\* The sessions those handlers leave behind.
LockedOps  == LockedHandlers \cup {"idle", "payRouter"}
OnlyLocked == \A s \in Staff : session[s].op \in LockedOps

\* No rollback is under way, so every account balances at every moment.
Balanced == \A c \in Customers : Balances(c)

\* What a committed payment of amount a does to the books of customer c: a fee,
\* some service, and the rest in the balance of the row.
Booked ==
    \E c \in Customers, a \in Nat, fee \in Nat, month \in Nat, new \in Row : \E due :
       /\ a = fee + month + row[c].balance - new.balance
       /\ Write(c, new)
       /\ Record(c, a, due)
       /\ used' = [used EXCEPT ![c] = @ + fee + month]

LEMMA PayIsBooked ==
    ASSUME TablesTyped, NEW s \in Staff, CommitPay(s)
    PROVE  Booked
  <1> DEFINE j    == session[s]
             r    == row[j.cust]
             move == j.plan # NoPlan /\ j.plan # r.plan
             plan == IF move THEN j.plan ELSE r.plan
             price == IF move THEN Price[plan] ELSE j.price
             fee  == Smaller(j.amount, FeeFor(r.plan, plan))
             bill == Settle(r.balance, j.amount - fee, price)
             due  == NewExpiry(j.start, bill.month, price)
             new  == [status |-> IF r.status \in Cut \cup {"pending"} THEN "active" ELSE r.status,
                      expires |-> due, balance |-> bill.balance, plan |-> plan]
  <1>1. j \in PayJob  BY JobTypes DEF CommitPay
  <1>2. /\ j.cust \in Customers /\ j.amount \in Nat /\ j.price \in Nat
        /\ j.plan \in Plans \cup {NoPlan}
    BY <1>1 DEF PayJob
  <1>3. r \in Row  BY <1>2 DEF TablesTyped
  <1>4. plan \in Plans /\ price \in Nat  BY <1>2, <1>3, PlanAssumption DEF Row
  <1>5. /\ fee \in Nat /\ bill.balance \in Int /\ bill.month \in Nat
        /\ j.amount = fee + bill.month + r.balance - bill.balance
    <2>1. Bills(r, j.amount, price, plan, fee, bill)  BY DEF Bills
    <2> HIDE DEF j, r, move, plan, price, fee, bill
    <2> QED  BY <1>2, <1>3, <1>4, <2>1, BillType
  <1>6. row' \in [Customers -> Row]  BY PayType DEF TablesTyped
  <1> HIDE DEF bill, fee, price, plan, move
  <1>7. new.balance = bill.balance  OBVIOUS
  <1> HIDE DEF new, due
  <1>8. /\ Write(j.cust, new) /\ Record(j.cust, j.amount, due)
        /\ used' = [used EXCEPT ![j.cust] = @ + fee + bill.month]
    BY DEF CommitPay, new, due, bill, fee, price, plan, move
  <1>9. new \in Row  BY <1>2, <1>6, <1>8 DEF Write, TablesTyped
  <1>10. j.amount = fee + bill.month + row[j.cust].balance - new.balance
    BY <1>5, <1>7
  <1> HIDE DEF j, r
  <1> QED  BY <1>2, <1>5, <1>8, <1>9, <1>10 DEF Booked

LEMMA PortalIsBooked ==
    ASSUME TablesTyped, NEW s \in Staff, CommitPortal(s)
    PROVE  Booked \/ UNCHANGED <<row, receipts, collected, used>>
  <1> DEFINE j    == session[s]
             r    == row[j.cust]
             move == j.plan # NoPlan /\ j.plan # r.plan
             plan == IF move THEN j.plan ELSE r.plan
             price == IF move THEN Price[plan] ELSE j.price
             fee  == Smaller(j.amount, FeeFor(r.plan, plan))
             bill == Settle(r.balance, j.amount - fee, price)
             due  == NewExpiry(StartOf(r), bill.month, price)
             new  == [status |-> IF r.status \in Cut THEN "active" ELSE r.status,
                      expires |-> due, balance |-> bill.balance, plan |-> plan]
  <1>1. j \in PortalJob  BY JobTypes DEF CommitPortal
  <1>2. /\ j.cust \in Customers /\ j.amount \in Nat /\ j.price \in Nat
        /\ j.plan \in Plans \cup {NoPlan}
    BY <1>1 DEF PortalJob
  <1>3. r \in Row  BY <1>2 DEF TablesTyped
  <1>4. plan \in Plans /\ price \in Nat  BY <1>2, <1>3, PlanAssumption DEF Row
  <1>5. /\ fee \in Nat /\ bill.balance \in Int /\ bill.month \in Nat
        /\ j.amount = fee + bill.month + r.balance - bill.balance
    <2>1. Bills(r, j.amount, price, plan, fee, bill)  BY DEF Bills
    <2> HIDE DEF j, r, move, plan, price, fee, bill
    <2> QED  BY <1>2, <1>3, <1>4, <2>1, BillType
  <1>6. row' \in [Customers -> Row]  BY PortalType DEF TablesTyped
  <1> HIDE DEF bill, fee, price, plan, move
  <1>7. new.balance = bill.balance  OBVIOUS
  <1> HIDE DEF new, due
  <1>8. CASE move /\ price < Price[r.plan]
    <2>1. UNCHANGED <<row, receipts, collected, used>>
      BY <1>8 DEF CommitPortal, new, due, bill, fee, price, plan, move
    <2> QED  BY <2>1
  <1>9. CASE ~(move /\ price < Price[r.plan])
    <2>1. /\ Write(j.cust, new) /\ Record(j.cust, j.amount, due)
          /\ used' = [used EXCEPT ![j.cust] = @ + fee + bill.month]
      BY <1>9 DEF CommitPortal, new, due, bill, fee, price, plan, move
    <2>2. new \in Row  BY <1>2, <1>6, <2>1 DEF Write, TablesTyped
    <2>3. j.amount = fee + bill.month + row[j.cust].balance - new.balance
      BY <1>5, <1>7
    <2> HIDE DEF j, r
    <2> QED  BY <1>2, <1>5, <2>1, <2>2, <2>3 DEF Booked
  <1> QED  BY <1>8, <1>9

LEMMA BookedBalances ==
    ASSUME TablesTyped, Balanced, Booked
    PROVE  Balanced'
  <1> PICK c \in Customers, a \in Nat, fee \in Nat, month \in Nat, new \in Row :
        \E due : /\ a = fee + month + row[c].balance - new.balance
                /\ Write(c, new)
                /\ Record(c, a, due)
                /\ used' = [used EXCEPT ![c] = @ + fee + month]
    BY DEF Booked
  <1> PICK due : /\ a = fee + month + row[c].balance - new.balance
                 /\ Write(c, new)
                 /\ Record(c, a, due)
                 /\ used' = [used EXCEPT ![c] = @ + fee + month]
    OBVIOUS
  <1> SUFFICES ASSUME NEW d \in Customers
               PROVE  collected'[d] + row'[d].balance = used'[d]
    BY DEF Balanced, Balances
  <1>0. /\ collected[d] \in Int /\ used[d] \in Int /\ row[d].balance \in Int
        /\ new.balance \in Int
        /\ collected[d] + row[d].balance = used[d]
    BY DEF TablesTyped, Balanced, Balances, Row
  <1>1. CASE d = c
    <2>1. /\ collected'[d] = collected[d] + a /\ row'[d] = new
          /\ used'[d] = used[d] + fee + month
      BY <1>1 DEF TablesTyped, Record, Write
    <2> QED  BY <1>0, <1>1, <2>1
  <1>2. CASE d # c
    <2>1. collected'[d] = collected[d] /\ row'[d] = row[d] /\ used'[d] = used[d]
      BY <1>2 DEF TablesTyped, Record, Write
    <2> QED  BY <1>0, <2>1
  <1> QED  BY <1>1, <1>2


\* The columns the books count: nothing else of the row.
LEMMA SameBooks ==
    ASSUME Balanced, UNCHANGED <<collected, used>>,
           \A c \in Customers : row'[c].balance = row[c].balance
    PROVE  Balanced'
  BY DEF Balanced, Balances

\* Those handlers leave no other sessions behind.
LEMMA LockedBegun ==
    ASSUME Handlers \subseteq LockedHandlers, OnlyBegun
    PROVE  OnlyLocked
  BY DEF OnlyBegun, Begun, OnlyLocked, LockedOps, LockedHandlers

LEMMA BalancedStep ==
    TypeOK /\ OnlyLocked /\ Balanced /\ [Next]_vars => Balanced'
  <1> SUFFICES ASSUME TypeOK, OnlyLocked, Balanced, [Next]_vars PROVE Balanced'  OBVIOUS
  <1>0. TablesTyped /\ row \in [Customers -> Row]  BY DEF TypeOK, TablesTyped
  <1>1. CASE UNCHANGED Table  BY <1>1, SameBooks DEF Table
  <1>2. ASSUME NEW s \in Staff, NEW c \in Customers, Request(s, c) PROVE Balanced'
    BY <1>1, <1>2
    DEF Request, OpenPay, OpenPortal, OpenRebate, OpenRollback, OpenTransfer,
        OpenEditExpiration, OpenEditBalance
  <1>3. ASSUME NEW s \in Staff, NEW k, NEW a, OpenEditPayment(s, k, a) PROVE Balanced'
    BY <1>1, <1>3 DEF OpenEditPayment
  <1>4. ASSUME NEW s \in Staff, Commit(s) PROVE Balanced'
    <2>1. CASE CommitPay(s)  BY <1>0, <2>1, PayIsBooked, BookedBalances
    <2>2. CASE CommitPortal(s)
      <3>1. CASE Booked  BY <1>0, <3>1, BookedBalances
      <3>2. CASE UNCHANGED <<row, receipts, collected, used>>  BY <3>2, SameBooks
      <3> QED  BY <1>0, <2>2, <3>1, <3>2, PortalIsBooked
    <2>3. CASE PayRouter(s)
      <3>1. session[s].cust \in Customers
        BY <1>0, <2>3, JobTypes DEF PayRouter, PayRouterJob
      <3>2. \A d \in Customers : row'[d].balance = row[d].balance
        BY <1>0, <2>3, <3>1 DEF PayRouter, Row
      <3> QED  BY <2>3, <3>2, SameBooks DEF PayRouter
    <2> QED
      BY <1>4, <2>1, <2>2, <2>3
      DEF Commit, CommitRebate, CommitRollback, RecordRefund, CommitTransfer, AbortTransfer,
          CommitEditPayment, CommitEditExpiration, CommitEditBalance, At, OnlyLocked, LockedOps,
          LockedHandlers
  <1>5. ASSUME NEW s \in Staff, Batch(s) PROVE Balanced'
    BY <1>1, <1>5
    DEF Batch, OpenSweep, OpenSuspend, OpenRogue, SweepCustomer, SuspendCustomer,
        SuspendRogue, Reached, RecordRenewal, OnlyLocked, LockedOps, LockedHandlers, At
  <1>6. ASSUME NEW c \in Customers, ForceSuspend(c) \/ ForceReactivate(c) PROVE Balanced'
    <2>1. \A d \in Customers : row'[d].balance = row[d].balance
      BY <1>0, <1>6 DEF ForceSuspend, ForceReactivate, Row
    <2> QED  BY <1>6, <2>1, SameBooks DEF ForceSuspend, ForceReactivate
  <1>7. CASE NextDay  BY <1>7, SameBooks DEF NextDay
  <1>8. CASE AtRest \/ UNCHANGED vars  BY <1>1, <1>8 DEF AtRest, vars, Table
  <1> QED  BY <1>2, <1>3, <1>4, <1>5, <1>6, <1>7, <1>8 DEF Next

\* With any number of cashiers and customers paying at once, on any plans and
\* prices, and administrators forcing the line off and on in between, the books
\* balance: no payment is lost and none is counted twice.
THEOREM ReconcilesLocked ==
    ASSUME Handlers \subseteq LockedHandlers
    PROVE  Spec => []Reconciles
  <1>1. Init => Balanced
    <2> SUFFICES ASSUME Init PROVE Balanced  OBVIOUS
    <2>1. \A c \in Customers : row[c].balance \in Int
      BY RequestAssumption DEF Init, Row
    <2> QED  BY <2>1 DEF Init, Balanced, Balances
  <1>2. TypeOK /\ OnlyBegun /\ Balanced /\ [Next]_vars => Balanced'
    BY LockedBegun, BalancedStep
  <1>3. Balanced => Reconciles  BY DEF Balanced, Reconciles
  <1> QED  BY <1>1, <1>2, <1>3, TypeCorrect, AlwaysBegun, PTL DEF Spec
-----------------------------------------------------------------------------
(* What a fold over a finite set computes. *)

\* One step of the fold, in terms of the sums of the smaller sets.
AddNext(f, it, s) ==
    LET x == CHOOSE x \in s : TRUE IN IF s = {} THEN 0 ELSE f[x] + it[s \ {x}]
AddsUp(f, it, S) == it = [s \in SUBSET S |-> AddNext(f, it, s)]

\* Induction over the subsets of a finite set, in the form the provers can use.
LEMMA LeastSubset ==
    ASSUME NEW S, IsFiniteSet(S), NEW T, T \subseteq SUBSET S, T # {}
    PROVE  \E u \in T : \A v \in T : v \subseteq u => v = u
  <1>1. IsWellFoundedOn(StrictSubsetOrdering(S), SUBSET S)
    BY FS_FiniteSubsetsOfFinite, FS_StrictSubsetOrderingWellFounded
  <1>2. PICK u \in T : \A v \in T : <<v, u>> \notin StrictSubsetOrdering(S)
    BY <1>1, WFMin
  <1> QED  BY <1>2 DEF StrictSubsetOrdering

LEMMA PickOne ==
    ASSUME NEW s, s # {}
    PROVE  (CHOOSE x \in s : TRUE) \in s
  OBVIOUS

LEMMA SumsAgree ==
    ASSUME NEW S, IsFiniteSet(S), NEW f, NEW U, U \subseteq S, NEW V, V \subseteq S,
           NEW g, AddsUp(f, g, U), NEW h, AddsUp(f, h, V)
    PROVE  \A s \in SUBSET (U \cap V) : g[s] = h[s]
  <1> DEFINE T == {s \in SUBSET (U \cap V) : g[s] # h[s]}
  <1> SUFFICES ASSUME T # {} PROVE FALSE  OBVIOUS
  <1>1. PICK u \in T : \A v \in T : v \subseteq u => v = u
    <2>1. T \subseteq SUBSET S  OBVIOUS
    <2> HIDE DEF T
    <2> QED  BY <2>1, LeastSubset
  <1> DEFINE x == CHOOSE x \in u : TRUE
  <1>2. g[u] = AddNext(f, g, u) /\ h[u] = AddNext(f, h, u)  BY DEF AddsUp
  <1>3. CASE u = {}  BY <1>2, <1>3 DEF AddNext
  <1>4. CASE u # {}
    <2>1. x \in u  BY <1>4, PickOne
    <2>2. u \ {x} \in SUBSET (U \cap V) /\ u \ {x} # u /\ u \ {x} \subseteq u  BY <2>1
    <2>3. g[u \ {x}] = h[u \ {x}]  BY <1>1, <2>2
    <2>4. g[u] = f[x] + g[u \ {x}] /\ h[u] = f[x] + h[u \ {x}]  BY <1>2, <1>4 DEF AddNext
    <2> QED  BY <2>3, <2>4
  <1> QED  BY <1>3, <1>4

LEMMA SumsExist ==
    ASSUME NEW S, IsFiniteSet(S), NEW f
    PROVE  \E it : AddsUp(f, it, S)
  <1> DEFINE T == {s \in SUBSET S : ~\E it : AddsUp(f, it, s)}
  <1> SUFFICES ASSUME T # {} PROVE FALSE  OBVIOUS
  <1>1. PICK u \in T : \A v \in T : v \subseteq u => v = u
    <2>1. T \subseteq SUBSET S  OBVIOUS
    <2> HIDE DEF T
    <2> QED  BY <2>1, LeastSubset
  <1> DEFINE x(s)   == CHOOSE x \in s : TRUE
             its(s) == CHOOSE h : AddsUp(f, h, s)
             g      == [s \in SUBSET u |-> IF s = {} THEN 0
                                           ELSE f[x(s)] + its(s \ {x(s)})[s \ {x(s)}]]
  <1>2. ASSUME NEW v, v \subseteq u, v # u PROVE AddsUp(f, its(v), v)
    BY <1>1, <1>2
  <1>3. ASSUME NEW s \in SUBSET u PROVE g[s] = AddNext(f, g, s)
    <2>1. CASE s = {}  BY <2>1 DEF AddNext
    <2>2. CASE s # {}
      <3> DEFINE v == s \ {x(s)}
      <3>0. x(s) \in s  BY <2>2, PickOne
      <3>1. v \subseteq u /\ v # u  BY <3>0
      <3>2. AddsUp(f, its(v), v)  BY <1>2, <3>1
      <3>3. its(v)[v] = AddNext(f, its(v), v)  BY <3>2 DEF AddsUp
      <3>4. g[v] = its(v)[v]
        <4>1. CASE v = {}
          <5>1. its(v)[v] = 0  BY <3>3, <4>1 DEF AddNext
          <5>2. g[v] = 0  BY <4>1
          <5> QED  BY <5>1, <5>2
        <4>2. CASE v # {}
          <5> DEFINE w == v \ {x(v)}
          <5>1. x(v) \in v  BY <4>2, PickOne
          <5>2. w \subseteq u /\ w # u /\ w \subseteq v  BY <3>1, <5>1
          <5>3. AddsUp(f, its(w), w)  BY <1>2, <5>2
          <5>4. its(v)[w] = its(w)[w]
            <6>1. w \in SUBSET (v \cap w) /\ v \subseteq S /\ w \subseteq S  BY <3>1, <5>2
            <6> HIDE DEF its, v, w
            <6> QED  BY <3>2, <5>3, <6>1, SumsAgree
          <5>5. its(v)[v] = f[x(v)] + its(v)[w]  BY <3>3, <4>2 DEF AddNext
          <5>6. g[v] = f[x(v)] + its(w)[w]  BY <3>1, <4>2
          <5> QED  BY <5>4, <5>5, <5>6
        <4> QED  BY <4>1, <4>2
      <3>5. g[s] = f[x(s)] + its(v)[v]  BY <2>2
      <3>6. AddNext(f, g, s) = f[x(s)] + g[v]  BY <2>2 DEF AddNext
      <3> QED  BY <3>4, <3>5, <3>6
    <2> QED  BY <2>1, <2>2
  <1>4. AddsUp(f, g, u)
    <2>1. g = [s \in SUBSET u |-> g[s]]  OBVIOUS
    <2> HIDE DEF g
    <2> QED  BY <1>3, <2>1 DEF AddsUp
  <1> QED  BY <1>4

\* The community modules' sum, in those terms.
LEMMA SumAddsUp ==
    ASSUME NEW f, NEW S
    PROVE  SumFunctionOnSet(f, S) = (CHOOSE it : AddsUp(f, it, S))[S]
  BY DEF SumFunctionOnSet, FoldFunctionOnSet, MapThenFoldSet, AddsUp, AddNext

LEMMA SumEmpty ==
    ASSUME NEW f PROVE SumFunctionOnSet(f, {}) = 0
  <1> DEFINE it == CHOOSE g : AddsUp(f, g, {})
  <1>1. AddsUp(f, it, {})  BY SumsExist, FS_EmptySet
  <1>2. it[{}] = 0  BY <1>1 DEF AddsUp, AddNext
  <1> QED  BY <1>2, SumAddsUp

LEMMA SumPicks ==
    ASSUME NEW S, IsFiniteSet(S), S # {}, NEW f
    PROVE  LET x == CHOOSE x \in S : TRUE
           IN  SumFunctionOnSet(f, S) = f[x] + SumFunctionOnSet(f, S \ {x})
  <1> DEFINE x  == CHOOSE x \in S : TRUE
             v  == S \ {x}
             it == CHOOSE g : AddsUp(f, g, S)
             iv == CHOOSE g : AddsUp(f, g, v)
  <1>1. x \in S  BY PickOne
  <1>2. IsFiniteSet(v)  BY FS_Subset
  <1>3. AddsUp(f, it, S) /\ AddsUp(f, iv, v)  BY <1>2, SumsExist
  <1>4. it[v] = iv[v]
    <2>1. v \in SUBSET (S \cap v) /\ v \subseteq S  OBVIOUS
    <2> HIDE DEF it, iv, v
    <2> QED  BY <1>3, <2>1, SumsAgree
  <1>5. it[S] = f[x] + it[v]  BY <1>3 DEF AddsUp, AddNext
  <1>6. SumFunctionOnSet(f, S) = it[S] /\ SumFunctionOnSet(f, v) = iv[v]  BY SumAddsUp
  <1> QED  BY <1>4, <1>5, <1>6

LEMMA SumType ==
    ASSUME NEW S, IsFiniteSet(S), NEW f, \A c \in S : f[c] \in Int
    PROVE  SumFunctionOnSet(f, S) \in Int
  <1> DEFINE T == {s \in SUBSET S : SumFunctionOnSet(f, s) \notin Int}
  <1> SUFFICES ASSUME T # {} PROVE FALSE  OBVIOUS
  <1>1. PICK u \in T : \A v \in T : v \subseteq u => v = u
    <2>1. T \subseteq SUBSET S  OBVIOUS
    <2> HIDE DEF T
    <2> QED  BY <2>1, LeastSubset
  <1> DEFINE x == CHOOSE x \in u : TRUE
  <1>2. u # {}  BY SumEmpty
  <1>3. x \in u  BY <1>2, PickOne
  <1>4. SumFunctionOnSet(f, u \ {x}) \in Int  BY <1>1, <1>3
  <1>5. SumFunctionOnSet(f, u) = f[x] + SumFunctionOnSet(f, u \ {x})
    <2>1. IsFiniteSet(u)  BY FS_Subset
    <2> QED  BY <1>2, <2>1, SumPicks
  <1> QED  BY <1>3, <1>4, <1>5

LEMMA SumZero ==
    ASSUME NEW S, IsFiniteSet(S), NEW f, \A c \in S : f[c] = 0
    PROVE  SumFunctionOnSet(f, S) = 0
  <1> DEFINE T == {s \in SUBSET S : SumFunctionOnSet(f, s) # 0}
  <1> SUFFICES ASSUME T # {} PROVE FALSE  OBVIOUS
  <1>1. PICK u \in T : \A v \in T : v \subseteq u => v = u
    <2>1. T \subseteq SUBSET S  OBVIOUS
    <2> HIDE DEF T
    <2> QED  BY <2>1, LeastSubset
  <1> DEFINE x == CHOOSE x \in u : TRUE
  <1>2. u # {}  BY SumEmpty
  <1>3. x \in u  BY <1>2, PickOne
  <1>4. SumFunctionOnSet(f, u \ {x}) = 0  BY <1>1, <1>3
  <1>5. SumFunctionOnSet(f, u) = f[x] + SumFunctionOnSet(f, u \ {x})
    <2>1. IsFiniteSet(u)  BY FS_Subset
    <2> QED  BY <1>2, <2>1, SumPicks
  <1> QED  BY <1>3, <1>4, <1>5

\* Any element may be taken out first.
LEMMA SumSplits ==
    ASSUME NEW S, IsFiniteSet(S), NEW f, \A c \in S : f[c] \in Int, NEW c \in S
    PROVE  SumFunctionOnSet(f, S) = f[c] + SumFunctionOnSet(f, S \ {c})
  <1> DEFINE T == {s \in SUBSET S : \E d \in s :
                     SumFunctionOnSet(f, s) # f[d] + SumFunctionOnSet(f, s \ {d})}
  <1> SUFFICES ASSUME T # {} PROVE FALSE  OBVIOUS
  <1>1. PICK u \in T : \A v \in T : v \subseteq u => v = u
    <2>1. T \subseteq SUBSET S  OBVIOUS
    <2> HIDE DEF T
    <2> QED  BY <2>1, LeastSubset
  <1>2. PICK d \in u : SumFunctionOnSet(f, u) # f[d] + SumFunctionOnSet(f, u \ {d})  BY <1>1
  <1> DEFINE x == CHOOSE x \in u : TRUE
             w == (u \ {x}) \ {d}
  <1>3. x \in u  BY <1>2, PickOne
  <1>4. \A s \in SUBSET S : IsFiniteSet(s) /\ SumFunctionOnSet(f, s) \in Int
    BY FS_Subset, SumType
  <1>5. SumFunctionOnSet(f, u) = f[x] + SumFunctionOnSet(f, u \ {x})
    BY <1>2, <1>4, SumPicks
  <1>6. x # d  BY <1>2, <1>5
  <1>7. \A s \in SUBSET S : s \subseteq u /\ s # u =>
          \A e \in s : SumFunctionOnSet(f, s) = f[e] + SumFunctionOnSet(f, s \ {e})
    BY <1>1
  <1>8. SumFunctionOnSet(f, u \ {x}) = f[d] + SumFunctionOnSet(f, w)
    <2>1. u \ {x} \in SUBSET S /\ u \ {x} # u /\ d \in u \ {x}  BY <1>3, <1>6
    <2> QED  BY <1>7, <2>1
  <1>9. SumFunctionOnSet(f, u \ {d}) = f[x] + SumFunctionOnSet(f, w)
    <2>1. u \ {d} \in SUBSET S /\ u \ {d} # u /\ x \in u \ {d}  BY <1>3, <1>6
    <2>2. (u \ {d}) \ {x} = w  OBVIOUS
    <2> HIDE DEF w
    <2> QED  BY <1>7, <2>1, <2>2
  <1>10. SumFunctionOnSet(f, w) \in Int /\ f[x] \in Int /\ f[d] \in Int  BY <1>3, <1>4
  <1> HIDE DEF w, x, T
  <1> QED  BY <1>2, <1>5, <1>8, <1>9, <1>10

\* The sum depends on the values on the set only.
LEMMA SumSame ==
    ASSUME NEW S, IsFiniteSet(S), NEW f, NEW g, \A c \in S : f[c] = g[c]
    PROVE  SumFunctionOnSet(f, S) = SumFunctionOnSet(g, S)
  <1> DEFINE T == {s \in SUBSET S : SumFunctionOnSet(f, s) # SumFunctionOnSet(g, s)}
  <1> SUFFICES ASSUME T # {} PROVE FALSE  OBVIOUS
  <1>1. PICK u \in T : \A v \in T : v \subseteq u => v = u
    <2>1. T \subseteq SUBSET S  OBVIOUS
    <2> HIDE DEF T
    <2> QED  BY <2>1, LeastSubset
  <1> DEFINE x == CHOOSE x \in u : TRUE
  <1>2. u # {}  BY SumEmpty
  <1>3. x \in u  BY <1>2, PickOne
  <1>4. SumFunctionOnSet(f, u \ {x}) = SumFunctionOnSet(g, u \ {x})  BY <1>1, <1>3
  <1>5. /\ SumFunctionOnSet(f, u) = f[x] + SumFunctionOnSet(f, u \ {x})
        /\ SumFunctionOnSet(g, u) = g[x] + SumFunctionOnSet(g, u \ {x})
    <2>1. IsFiniteSet(u)  BY FS_Subset
    <2> QED  BY <1>2, <2>1, SumPicks
  <1> QED  BY <1>3, <1>4, <1>5

LEMMA SumChanges ==
    ASSUME NEW S, IsFiniteSet(S), NEW f, NEW g, NEW c \in S,
           \A d \in S : f[d] \in Int /\ g[d] \in Int,
           \A d \in S \ {c} : g[d] = f[d]
    PROVE  SumFunctionOnSet(g, S) = SumFunctionOnSet(f, S) - f[c] + g[c]
  <1>1. IsFiniteSet(S \ {c})  BY FS_Subset
  <1>2. SumFunctionOnSet(f, S \ {c}) = SumFunctionOnSet(g, S \ {c})  BY <1>1, SumSame
  <1>3. /\ SumFunctionOnSet(f, S) = f[c] + SumFunctionOnSet(f, S \ {c})
        /\ SumFunctionOnSet(g, S) = g[c] + SumFunctionOnSet(g, S \ {c})
    BY SumSplits
  <1>4. SumFunctionOnSet(f, S \ {c}) \in Int  BY <1>1, SumType
  <1> QED  BY <1>2, <1>3, <1>4
-----------------------------------------------------------------------------
(* All customers together: no payment and no transfer makes or loses money *)

\* The handlers that write under locks, the transfer of a Payment row with them.
MovingHandlers == LockedHandlers \cup {"transfer"}
MovingOps      == MovingHandlers \cup {"idle", "payRouter"}
OnlyMoving     == \A s \in Staff : session[s].op \in MovingOps

\* A transfer takes the amount off one customer and puts it on another, and the
\* Payment row it saves back is, in what it counts for, the row that is there:
\* two transfers of one row may both have read it, but none corrects it.
SoundMove(j) ==
    /\ j.seen.cust # j.cust
    /\ receipts[j.id].amount = j.seen.amount
    /\ receipts[j.id].cash = j.seen.cash
MovesSound == \A s \in Staff : At(s, "transfer") => SoundMove(session[s])

LEMMA TotalChanges ==
    ASSUME NEW f, NEW g, NEW c \in Customers,
           \A d \in Customers : f[d] \in Int /\ g[d] \in Int,
           \A d \in Customers \ {c} : g[d] = f[d]
    PROVE  Total(g) = Total(f) - f[c] + g[c] /\ Total(f) \in Int
  <1>1. IsFiniteSet(Customers)  BY PeopleAssumption
  <1>2. SumFunctionOnSet(g, Customers) = SumFunctionOnSet(f, Customers) - f[c] + g[c]
    BY <1>1, SumChanges
  <1>3. SumFunctionOnSet(f, Customers) \in Int  BY <1>1, SumType
  <1> QED  BY <1>2, <1>3 DEF Total

\* The balance of each customer.
Owing == [c \in Customers |-> row[c].balance]

\* What a payment does to the totals.
LEMMA BookedKeepsTotal ==
    ASSUME TablesTyped, MoneyIsConserved, Booked
    PROVE  MoneyIsConserved'
  <1>1. PICK c \in Customers, a \in Nat, fee \in Nat, month \in Nat, new \in Row :
        \E due : /\ a = fee + month + row[c].balance - new.balance
                 /\ Write(c, new)
                 /\ Record(c, a, due)
                 /\ used' = [used EXCEPT ![c] = @ + fee + month]
    BY DEF Booked
  <1>2. /\ \A d \in Customers : Owing[d] \in Int /\ Owing'[d] \in Int
        /\ \A d \in Customers \ {c} : Owing'[d] = Owing[d]
        /\ Owing[c] = row[c].balance /\ Owing'[c] = new.balance
    BY <1>1 DEF TablesTyped, Write, Row, Owing
  <1>3. /\ \A d \in Customers : collected[d] \in Int /\ collected'[d] \in Int
        /\ \A d \in Customers \ {c} : collected'[d] = collected[d]
        /\ collected'[c] = collected[c] + a
    BY <1>1 DEF TablesTyped, Record
  <1>4. /\ \A d \in Customers : used[d] \in Int /\ used'[d] \in Int
        /\ \A d \in Customers \ {c} : used'[d] = used[d]
        /\ used'[c] = used[c] + fee + month
    BY <1>1 DEF TablesTyped
  <1>5. Total(Owing') = Total(Owing) - Owing[c] + Owing'[c] /\ Total(Owing) \in Int
    BY <1>2, TotalChanges
  <1>6. /\ Total(collected') = Total(collected) - collected[c] + collected'[c]
        /\ Total(collected) \in Int
    BY <1>3, TotalChanges
  <1>7. Total(used') = Total(used) - used[c] + used'[c] /\ Total(used) \in Int
    BY <1>4, TotalChanges
  <1>8. Total(collected) + Total(Owing) = Total(used)  BY DEF MoneyIsConserved, Owing
  <1>9. a = fee + month + Owing[c] - Owing'[c]  BY <1>1, <1>2
  <1>10. Total(collected') + Total(Owing') = Total(used')
    BY <1>2, <1>3, <1>4, <1>5, <1>6, <1>7, <1>8, <1>9
  <1> QED  BY <1>10 DEF MoneyIsConserved, Owing, Total

\* The sums see the balances only.
LEMMA SameTotals ==
    ASSUME MoneyIsConserved, UNCHANGED <<collected, used>>,
           \A c \in Customers : row'[c].balance = row[c].balance
    PROVE  MoneyIsConserved'
  <1>1. [c \in Customers |-> row'[c].balance] = [c \in Customers |-> row[c].balance]
    OBVIOUS
  <1> QED  BY <1>1 DEF MoneyIsConserved, Total

\* An amount that goes from one customer to another leaves the total as it was.
LEMMA TotalMoves ==
    ASSUME NEW f, NEW g, NEW p \in Customers, NEW q \in Customers, p # q,
           \A d \in Customers : f[d] \in Int /\ g[d] \in Int,
           g[p] + g[q] = f[p] + f[q],
           \A d \in Customers \ {p, q} : g[d] = f[d]
    PROVE  Total(g) = Total(f)
  <1> DEFINE h == [d \in Customers |-> IF d = p THEN g[p] ELSE f[d]]
  <1>1. /\ \A d \in Customers : h[d] \in Int
        /\ \A d \in Customers \ {p} : h[d] = f[d]
        /\ \A d \in Customers \ {q} : g[d] = h[d]
        /\ h[p] = g[p] /\ h[q] = f[q]
    OBVIOUS
  <1> HIDE DEF h
  <1>2. Total(h) = Total(f) - f[p] + h[p] /\ Total(f) \in Int  BY <1>1, TotalChanges
  <1>3. Total(g) = Total(h) - h[q] + g[q] /\ Total(h) \in Int  BY <1>1, TotalChanges
  <1>4. f[p] \in Int /\ f[q] \in Int /\ g[p] \in Int /\ g[q] \in Int  OBVIOUS
  <1> QED  BY <1>1, <1>2, <1>3, <1>4

LEMMA DebitedOwes ==
    ASSUME NEW r \in Row, NEW a \in Int
    PROVE  Debited(r, a).balance = r.balance + a
  <1> DEFINE d == IF Price[r.plan] > 0 /\ r.expires # NoDate
                  THEN r.expires - Prorated(a, Price[r.plan]) ELSE r.expires
             owing == [r EXCEPT !.balance = @ + a]
  <1>1. owing \in Row /\ owing.balance = r.balance + a  BY DEF Row
  <1> HIDE DEF d, owing
  <1>2. Redated(owing, d).balance = owing.balance  BY <1>1 DEF Redated, Row
  <1>3. Saved(Redated(owing, d)).balance = Redated(owing, d).balance
    <2> DEFINE r2 == Redated(owing, d)
    <2>1. r2 = [r2 EXCEPT !.balance = @] /\ "balance" \in DOMAIN r2
      BY <1>1 DEF Redated, Row
    <2> HIDE DEF r2
    <2> QED  BY <2>1 DEF Saved
  <1>4. Debited(r, a) = Saved(Redated(owing, d))  BY DEF Debited, d, owing
  <1> QED  BY <1>1, <1>2, <1>3, <1>4

LEMMA TransferKeepsTotal ==
    ASSUME TablesTyped, JobsSound, MovesSound, MoneyIsConserved, NEW s \in Staff,
           CommitTransfer(s)
    PROVE  MoneyIsConserved'
  <1> DEFINE j     == session[s]
             amt   == j.seen.amount
             wrong == j.seen.cust
             good  == Credited(row[j.cust], amt)
             bad   == Debited(row[wrong], amt)
             held  == receipts[j.id]
             away  == [j.seen EXCEPT !.cust = j.cust]
  <1>0. receipts \in Seq(Receipt) /\ row \in [Customers -> Row]
    BY DEF TablesTyped
  <1>1. j \in TransferJob  BY JobTypes DEF CommitTransfer
  <1>2. j.cust \in Customers /\ j.seen \in Receipt  BY <1>1 DEF TransferJob
  <1>3. amt \in Int /\ wrong \in Customers  BY <1>2 DEF Receipt
  <1>4. j.id \in DOMAIN receipts  BY DEF JobsSound, SoundJob, CommitTransfer, At
  <1>5. SoundMove(j)  BY DEF MovesSound, CommitTransfer
  <1>6. held \in Receipt  BY <1>0, <1>4
  <1>7. /\ held.amount = amt /\ held.cash = j.seen.cash /\ wrong # j.cust
    BY <1>5 DEF SoundMove
  <1>8. /\ away.amount = amt /\ away.cash = j.seen.cash /\ away.cust = j.cust
    BY <1>2 DEF Receipt
  <1>9. /\ row' = [row EXCEPT ![wrong] = bad, ![j.cust] = good]
        /\ Recount(held, away)
        /\ UNCHANGED used
    BY DEF CommitTransfer
  <1>10. bad.balance = row[wrong].balance + amt /\ bad \in Row
    <2>1. row[wrong] \in Row  BY <1>0, <1>3
    <2> QED  BY <1>3, <2>1, DebitedOwes, DebitedType
  <1>11. good.balance = row[j.cust].balance - amt /\ good \in Row
    <2>1. row[j.cust] \in Row /\ today \in Nat  BY <1>0, <1>2 DEF TablesTyped
    <2>2. good \in Row  BY <1>3, <2>1, CreditedType
    <2>3. good.balance = row[j.cust].balance - amt  BY <2>1 DEF Credited, Row
    <2> QED  BY <2>2, <2>3
  <1>20. j.seen.cash \in BOOLEAN /\ held.cust \in Customers  BY <1>2, <1>6 DEF Receipt
  <1> HIDE DEF j, amt, wrong, good, bad, held, away
  <1>12. Total(Owing') = Total(Owing)
    <2>1. \A d \in Customers : Owing[d] = row[d].balance /\ Owing'[d] = row'[d].balance
      BY DEF Owing
    <2>2. row'[wrong] = bad /\ row'[j.cust] = good
      BY <1>0, <1>2, <1>3, <1>7, <1>9
    <2>3. \A d \in Customers \ {wrong, j.cust} : row'[d] = row[d]  BY <1>0, <1>9
    <2>4. \A d \in Customers : row[d].balance \in Int /\ row'[d].balance \in Int
      BY <1>0, <1>2, <1>3, <1>10, <1>11, <2>2, <2>3 DEF Row
    <2>5. /\ Owing'[j.cust] = Owing[j.cust] - amt
          /\ Owing'[wrong] = Owing[wrong] + amt
          /\ \A d \in Customers \ {j.cust, wrong} : Owing'[d] = Owing[d]
      BY <1>2, <1>3, <1>10, <1>11, <2>1, <2>2, <2>3
    <2>6. \A d \in Customers : Owing[d] \in Int /\ Owing'[d] \in Int  BY <2>1, <2>4
    <2>7. Owing'[j.cust] + Owing'[wrong] = Owing[j.cust] + Owing[wrong]
      BY <1>2, <1>3, <2>5, <2>6
    <2>8. \A d \in Customers \ {j.cust, wrong} : Owing'[d] = Owing[d]  BY <2>5
    <2> QED  BY <1>2, <1>3, <1>7, <2>6, <2>7, <2>8, TotalMoves
  <1>13. Total(collected') = Total(collected)
    <2> DEFINE n == IF j.seen.cash THEN amt ELSE 0
    <2>1. n \in Int  BY <1>3, <1>20
    <2>2. \A d \in Customers : /\ collected'[d] = collected[d] - CashOf(held, d) + CashOf(away, d)
                               /\ collected[d] \in Int
      BY <1>9 DEF Recount, TablesTyped
    <2>3. \A d \in Customers : /\ CashOf(held, d) = IF d = held.cust THEN n ELSE 0
                               /\ CashOf(away, d) = IF d = j.cust THEN n ELSE 0
      BY <1>7, <1>8, <1>20 DEF CashOf
    <2> HIDE DEF n
    <2>4. CASE held.cust = j.cust
      <3>1. \A d \in Customers : collected'[d] = collected[d]  BY <2>1, <2>2, <2>3, <2>4
      <3>2. IsFiniteSet(Customers)  BY PeopleAssumption
      <3> QED  BY <3>1, <3>2, SumSame DEF Total
    <2>5. CASE held.cust # j.cust
      <3>1. /\ collected'[held.cust] = collected[held.cust] - n
            /\ collected'[j.cust] = collected[j.cust] + n
            /\ \A d \in Customers \ {held.cust, j.cust} : collected'[d] = collected[d]
        BY <1>2, <1>20, <2>1, <2>2, <2>3, <2>5
      <3>2. \A d \in Customers : collected[d] \in Int /\ collected'[d] \in Int
        BY <2>1, <2>2, <2>3
      <3>3. collected'[held.cust] + collected'[j.cust] = collected[held.cust] + collected[j.cust]
        BY <1>2, <1>20, <2>1, <3>1, <3>2
      <3>4. \A d \in Customers \ {held.cust, j.cust} : collected'[d] = collected[d]  BY <3>1
      <3>5. ASSUME NEW p \in Customers, NEW q \in Customers, p # q,
                   collected'[p] + collected'[q] = collected[p] + collected[q],
                   \A d \in Customers \ {p, q} : collected'[d] = collected[d]
            PROVE  Total(collected') = Total(collected)
        BY <3>2, <3>5, TotalMoves
      <3> QED  BY <1>2, <1>20, <2>5, <3>3, <3>4, <3>5
    <2> QED  BY <2>4, <2>5
  <1> QED  BY <1>9, <1>12, <1>13 DEF MoneyIsConserved, Owing, Total

LEMMA MovingBegun ==
    ASSUME Handlers \subseteq MovingHandlers, OnlyBegun
    PROVE  OnlyMoving
  BY DEF OnlyBegun, Begun, OnlyMoving, MovingOps, MovingHandlers, LockedHandlers

LEMMA KeptTotalStep ==
    TypeOK /\ OnlyMoving /\ MovesSound /\ MoneyIsConserved /\ [Next]_vars => MoneyIsConserved'
  <1> SUFFICES ASSUME TypeOK, OnlyMoving, MovesSound, MoneyIsConserved, [Next]_vars
               PROVE  MoneyIsConserved'
    OBVIOUS
  <1>0. TablesTyped /\ JobsSound /\ row \in [Customers -> Row]  BY DEF TypeOK, TablesTyped
  <1>1. CASE UNCHANGED Table  BY <1>1, SameTotals DEF Table
  <1>2. ASSUME NEW s \in Staff, NEW c \in Customers, Request(s, c) PROVE MoneyIsConserved'
    BY <1>1, <1>2
    DEF Request, OpenPay, OpenPortal, OpenRebate, OpenRollback, OpenTransfer,
        OpenEditExpiration, OpenEditBalance
  <1>3. ASSUME NEW s \in Staff, NEW k, NEW a, OpenEditPayment(s, k, a) PROVE MoneyIsConserved'
    BY <1>1, <1>3 DEF OpenEditPayment
  <1>4. ASSUME NEW s \in Staff, Commit(s) PROVE MoneyIsConserved'
    <2>1. CASE CommitPay(s)  BY <1>0, <2>1, PayIsBooked, BookedKeepsTotal
    <2>2. CASE CommitPortal(s)
      <3>1. CASE Booked  BY <1>0, <3>1, BookedKeepsTotal
      <3>2. CASE UNCHANGED <<row, receipts, collected, used>>  BY <3>2, SameTotals
      <3> QED  BY <1>0, <2>2, <3>1, <3>2, PortalIsBooked
    <2>3. CASE PayRouter(s)
      <3>1. session[s].cust \in Customers
        BY <1>0, <2>3, JobTypes DEF PayRouter, PayRouterJob
      <3>2. \A d \in Customers : row'[d].balance = row[d].balance
        BY <1>0, <2>3, <3>1 DEF PayRouter, Row
      <3> QED  BY <2>3, <3>2, SameTotals DEF PayRouter
    <2>4. CASE CommitTransfer(s)  BY <1>0, <2>4, TransferKeepsTotal
    <2>5. CASE AbortTransfer(s)  BY <1>1, <2>5 DEF AbortTransfer
    <2> QED
      BY <1>4, <2>1, <2>2, <2>3, <2>4, <2>5
      DEF Commit, CommitRebate, CommitRollback, RecordRefund, CommitEditPayment,
          CommitEditExpiration, CommitEditBalance, At, OnlyMoving, MovingOps, MovingHandlers,
          LockedHandlers
  <1>5. ASSUME NEW s \in Staff, Batch(s) PROVE MoneyIsConserved'
    BY <1>1, <1>5
    DEF Batch, OpenSweep, OpenSuspend, OpenRogue, SweepCustomer, SuspendCustomer,
        SuspendRogue, Reached, RecordRenewal, OnlyMoving, MovingOps, MovingHandlers,
        LockedHandlers, At
  <1>6. ASSUME NEW c \in Customers, ForceSuspend(c) \/ ForceReactivate(c)
        PROVE  MoneyIsConserved'
    <2>1. \A d \in Customers : row'[d].balance = row[d].balance
      BY <1>0, <1>6 DEF ForceSuspend, ForceReactivate, Row
    <2> QED  BY <1>6, <2>1, SameTotals DEF ForceSuspend, ForceReactivate
  <1>7. CASE NextDay  BY <1>7, SameTotals DEF NextDay
  <1>8. CASE AtRest \/ UNCHANGED vars  BY <1>1, <1>8 DEF AtRest, vars, Table
  <1> QED  BY <1>2, <1>3, <1>4, <1>5, <1>6, <1>7, <1>8 DEF Next

\* What these handlers leave of a Payment row: its amount, and whether it is cash.
SameMoney ==
    \A k \in DOMAIN receipts :
        receipts'[k].amount = receipts[k].amount /\ receipts'[k].cash = receipts[k].cash

LEMMA MoneyStaysInRows ==
    ASSUME TypeOK, OnlyMoving, MovesSound, [Next]_vars
    PROVE  SameMoney
  <1>0. TablesTyped /\ JobsSound /\ receipts \in Seq(Receipt)  BY DEF TypeOK, TablesTyped
  <1>1. CASE UNCHANGED receipts  BY <1>1 DEF SameMoney
  <1>2. ASSUME NEW x, receipts' = Append(receipts, x) PROVE SameMoney
    BY <1>0, <1>2 DEF SameMoney
  <1>3. ASSUME NEW s \in Staff, CommitTransfer(s) PROVE SameMoney
    <2> DEFINE j     == session[s]
               good  == Credited(row[j.cust], j.seen.amount)
               moved == [j.seen EXCEPT !.cust = j.cust, !.expires = good.expires, !.moves = @ + 1]
    <2>1. j \in TransferJob  BY <1>0, <1>3, JobTypes DEF CommitTransfer
    <2>2. SoundMove(j)  BY <1>3 DEF MovesSound, CommitTransfer
    <2>3. moved.amount = j.seen.amount /\ moved.cash = j.seen.cash
      BY <2>1 DEF TransferJob, Receipt
    <2>4. receipts' = [receipts EXCEPT ![j.id] = moved]  BY <1>3 DEF CommitTransfer
    <2> HIDE DEF moved, j
    <2> QED  BY <1>0, <2>2, <2>3, <2>4 DEF SameMoney, SoundMove
  <1>4. ASSUME NEW s \in Staff, Commit(s) PROVE SameMoney
    <2>1. CASE CommitPay(s)  BY <1>2, <2>1 DEF CommitPay, Record
    <2>2. CASE CommitPortal(s)  BY <1>1, <1>2, <2>2 DEF CommitPortal, Record
    <2>3. CASE PayRouter(s) \/ AbortTransfer(s)
      BY <1>1, <2>3 DEF PayRouter, AbortTransfer, Table
    <2> QED
      BY <1>3, <1>4, <2>1, <2>2, <2>3
      DEF Commit, CommitRebate, CommitRollback, RecordRefund, CommitEditPayment,
          CommitEditExpiration, CommitEditBalance, At, OnlyMoving, MovingOps, MovingHandlers,
          LockedHandlers
  <1>5. ASSUME NEW s \in Staff, Batch(s) PROVE SameMoney
    BY <1>1, <1>5
    DEF Batch, OpenSweep, OpenSuspend, OpenRogue, SweepCustomer, SuspendCustomer,
        SuspendRogue, Reached, RecordRenewal, OnlyMoving, MovingOps, MovingHandlers,
        LockedHandlers, At, Table
  <1>6. ASSUME NEW s \in Staff, NEW c \in Customers, Request(s, c) PROVE SameMoney
    BY <1>1, <1>6
    DEF Request, OpenPay, OpenPortal, OpenRebate, OpenRollback, OpenTransfer,
        OpenEditExpiration, OpenEditBalance, Table
  <1>7. ASSUME NEW s \in Staff, NEW k, NEW a, OpenEditPayment(s, k, a) PROVE SameMoney
    BY <1>1, <1>7 DEF OpenEditPayment, Table
  <1>8. ASSUME NEW c \in Customers, ForceSuspend(c) \/ ForceReactivate(c) PROVE SameMoney
    BY <1>1, <1>8 DEF ForceSuspend, ForceReactivate
  <1>9. CASE NextDay \/ AtRest \/ UNCHANGED vars
    BY <1>1, <1>9 DEF NextDay, AtRest, vars
  <1> QED  BY <1>4, <1>5, <1>6, <1>7, <1>8, <1>9 DEF Next

\* A transfer that had read its Payment row before still has it right.
LEMMA MovesSoundStep ==
    ASSUME Handlers \subseteq MovingHandlers
    PROVE  TypeOK /\ OnlyMoving /\ MovesSound /\ [Next]_vars => MovesSound'
  <1> SUFFICES ASSUME TypeOK, OnlyMoving, MovesSound, [Next]_vars PROVE MovesSound'  OBVIOUS
  <1>0. session \in [Staff -> Job] /\ JobsSound  BY DEF TypeOK, TablesTyped
  <1>1. SameMoney  BY MoneyStaysInRows
  <1>2. ASSUME NEW t \in Staff, session'[t] = session[t], At(t, "transfer")'
        PROVE  SoundMove(session[t])'
    <2>1. At(t, "transfer") /\ session[t].id \in DOMAIN receipts
      BY <1>0, <1>2 DEF JobsSound, SoundJob, At
    <2>2. SoundMove(session[t])  BY <2>1 DEF MovesSound
    <2>3. /\ receipts'[session[t].id].amount = receipts[session[t].id].amount
          /\ receipts'[session[t].id].cash = receipts[session[t].id].cash
      BY <1>1, <2>1 DEF SameMoney
    <2> QED  BY <1>2, <2>2, <2>3 DEF SoundMove
  <1>3. ASSUME NEW s \in Staff, NEW j, j.op # "transfer", session' = [session EXCEPT ![s] = j]
        PROVE  MovesSound'
    <2> SUFFICES ASSUME NEW t \in Staff, At(t, "transfer")' PROVE SoundMove(session[t])'
      BY DEF MovesSound
    <2>1. t # s  BY <1>0, <1>3 DEF At
    <2>2. session'[t] = session[t]  BY <1>0, <1>3, <2>1
    <2> QED  BY <1>2, <2>2
  <1>4. CASE UNCHANGED session  BY <1>2, <1>4 DEF MovesSound
  <1>5. ASSUME NEW s \in Staff, Finish(s) PROVE MovesSound'
    BY <1>3, <1>5 DEF Finish, Idle
  <1>6. ASSUME NEW s \in Staff, NEW c \in Customers, Request(s, c) PROVE MovesSound'
    <2>1. ASSUME NEW a, NEW d, NEW p, OpenPay(s, c, a, d, p) PROVE MovesSound'
      <3> DEFINE j == [op |-> "pay", cust |-> c, amount |-> a, plan |-> p,
                       price |-> Price[row[c].plan],
                       start |-> IF d # NoDate THEN d ELSE StartOf(row[c])]
      <3>1. j.op # "transfer"  OBVIOUS
      <3>2. session' = [session EXCEPT ![s] = j]  BY <2>1 DEF OpenPay, Begin
      <3> HIDE DEF j
      <3> QED  BY <1>3, <3>1, <3>2
    <2>2. ASSUME NEW a, NEW p, OpenPortal(s, c, a, p) PROVE MovesSound'
      BY <1>3, <2>2 DEF OpenPortal, Begin
    <2>3. ASSUME NEW k, OpenTransfer(s, k, c) PROVE MovesSound'
      <3> DEFINE j == [op |-> "transfer", id |-> k, cust |-> c, seen |-> receipts[k]]
      <3> SUFFICES ASSUME NEW t \in Staff, At(t, "transfer")' PROVE SoundMove(session[t])'
        BY DEF MovesSound
      <3>1. session' = [session EXCEPT ![s] = j] /\ UNCHANGED receipts /\ receipts[k].cust # c
        BY <2>3 DEF OpenTransfer, Begin, Table
      <3>2. CASE t # s
        <4>1. session'[t] = session[t]  BY <1>0, <3>1, <3>2
        <4> QED  BY <1>2, <4>1
      <3>3. CASE t = s
        <4>1. session'[t] = j  BY <1>0, <3>1, <3>3
        <4> QED  BY <3>1, <4>1 DEF SoundMove
      <3> QED  BY <3>2, <3>3
    <2> QED
      BY <1>6, <2>1, <2>2, <2>3
      DEF Request, OpenRebate, OpenRollback, OpenEditExpiration, OpenEditBalance, Begin,
          MovingHandlers, LockedHandlers
  <1>7. ASSUME NEW s \in Staff, NEW k, NEW a, OpenEditPayment(s, k, a) PROVE MovesSound'
    BY <1>7 DEF OpenEditPayment, Begin, MovingHandlers, LockedHandlers
  <1>8. ASSUME NEW s \in Staff, Commit(s) PROVE MovesSound'
    <2>1. CASE CommitPay(s)
      <3> DEFINE c == session[s].cust
                 j == [op |-> "payRouter", cust |-> c, cut |-> row[c].status \in Cut]
      <3>1. j.op # "transfer"  OBVIOUS
      <3>2. session' = [session EXCEPT ![s] = j]  BY <2>1 DEF CommitPay
      <3> HIDE DEF j
      <3> QED  BY <1>3, <3>1, <3>2
    <2>2. ~CommitRollback(s)
      BY DEF CommitRollback, At, OnlyMoving, MovingOps, MovingHandlers, LockedHandlers
    <2> QED
      BY <1>5, <1>8, <2>1, <2>2
      DEF Commit, PayRouter, CommitPortal, CommitRebate, RecordRefund, CommitTransfer,
          AbortTransfer, CommitEditPayment, CommitEditExpiration, CommitEditBalance
  <1>9. ASSUME NEW s \in Staff, Batch(s) PROVE MovesSound'
    BY <1>9
    DEF Batch, OpenSweep, OpenSuspend, OpenRogue, SweepCustomer, SuspendCustomer,
        SuspendRogue, Reached, RecordRenewal, Begin, MovingHandlers, LockedHandlers,
        OnlyMoving, MovingOps, At
  <1>10. ASSUME NEW c \in Customers, ForceSuspend(c) \/ ForceReactivate(c) PROVE MovesSound'
    BY <1>4, <1>10 DEF ForceSuspend, ForceReactivate
  <1>11. CASE NextDay \/ AtRest \/ UNCHANGED vars
    BY <1>4, <1>11 DEF NextDay, AtRest, vars
  <1> QED  BY <1>6, <1>7, <1>8, <1>9, <1>10, <1>11 DEF Next

\* However many cashiers, subscribers and administrators work at once, every peso
\* of all the cash Payment rows is, over all the customers, service, settled debt
\* or credit: also when two administrators transfer one Payment row, each to a
\* customer of his own (revert_transfer_payment locks the two accounts it writes,
\* never the Payment row).  Handlers that write a row they read without a lock
\* are excluded: they do lose an amount.
THEOREM MoneyStays ==
    ASSUME Handlers \subseteq MovingHandlers
    PROVE  Spec => []MoneyIsConserved
  <1>1. Init => MovesSound  BY DEF Init, MovesSound, At, Idle
  <1>2. Init => MoneyIsConserved
    <2> SUFFICES ASSUME Init PROVE MoneyIsConserved  OBVIOUS
    <2>0. IsFiniteSet(Customers)  BY PeopleAssumption
    <2>1. \A c \in Customers : row[c].balance \in Int  BY RequestAssumption DEF Init, Row
    <2>2. used = Owing  BY DEF Init, Owing
    <2>3. Total(collected) = 0
      <3>1. \A c \in Customers : collected[c] = 0  BY DEF Init
      <3> QED  BY <2>0, <3>1, SumZero DEF Total
    <2>4. Total(Owing) \in Int
      <3>1. \A c \in Customers : Owing[c] \in Int  BY <2>1 DEF Owing
      <3> QED  BY <2>0, <3>1, SumType DEF Total
    <2> QED  BY <2>2, <2>3, <2>4 DEF MoneyIsConserved, Owing
  <1>3. OnlyBegun => OnlyMoving  BY MovingBegun
  <1>4. TypeOK /\ OnlyMoving /\ MovesSound /\ MoneyIsConserved /\ [Next]_vars
          => MovesSound' /\ MoneyIsConserved'
    BY MovesSoundStep, KeptTotalStep
  <1> QED  BY <1>1, <1>2, <1>3, <1>4, TypeCorrect, AlwaysBegun, PTL DEF Spec
-----------------------------------------------------------------------------
(* The portal never shortens the time already paid for *)

LEMMA NewExpiryNotEarlier ==
    ASSUME NEW d \in Int, NEW a \in Int, NEW p \in Nat, today \in Nat
    PROVE  NewExpiry(d, a, p) >= d
  <1>1. CASE p <= 0 \/ a <= 0  BY <1>1 DEF NewExpiry
  <1>2. CASE ~(p <= 0 \/ a <= 0)
    <2>1. a * BaseDays \in Nat  BY <1>2, PlanAssumption
    <2>2. Prorated(a, p) \in Nat
      <3> DEFINE n == a * BaseDays
      <3> HIDE DEF n
      <3>1. n \in Nat  BY <2>1 DEF n
      <3>2. n \div p \in Nat  BY <1>2, <3>1
      <3> QED  BY <3>2 DEF Prorated, n
    <2>3. CalendarMonth \in Nat  BY PlanAssumption
    <2>4. Later(d, today) \in Int /\ Later(d, today) >= d  BY DEF Later
    <2> QED  BY <1>2, <2>2, <2>3, <2>4 DEF NewExpiry
  <1> QED  BY <1>1, <1>2

NoPay == \A s \in Staff : session[s].op # "pay"

\* The step itself: this is RenewalKeepsPaidDays without its temporal operators.
KeepsPaidDays ==
    \A c \in Customers : Pays(c) /\ Future(row[c].expires)
       => row'[c].expires # NoDate /\ row'[c].expires >= row[c].expires

LEMMA PortalKeeps ==
    ASSUME TablesTyped, NEW s \in Staff, CommitPortal(s)
    PROVE  KeepsPaidDays
  <1> DEFINE j    == session[s]
             r    == row[j.cust]
             move == j.plan # NoPlan /\ j.plan # r.plan
             plan == IF move THEN j.plan ELSE r.plan
             price == IF move THEN Price[plan] ELSE j.price
             fee  == Smaller(j.amount, FeeFor(r.plan, plan))
             bill == Settle(r.balance, j.amount - fee, price)
             due  == NewExpiry(StartOf(r), bill.month, price)
             new  == [status |-> IF r.status \in Cut THEN "active" ELSE r.status,
                      expires |-> due, balance |-> bill.balance, plan |-> plan]
  <1>0. today \in Nat /\ receipts \in Seq(Receipt) /\ row \in [Customers -> Row]
    BY DEF TablesTyped
  <1>1. j \in PortalJob  BY JobTypes DEF CommitPortal
  <1>2. /\ j.cust \in Customers /\ j.amount \in Nat /\ j.price \in Nat
        /\ j.plan \in Plans \cup {NoPlan}
    BY <1>1 DEF PortalJob
  <1>3. r \in Row  BY <1>0, <1>2
  <1>4. plan \in Plans /\ price \in Nat  BY <1>2, <1>3, PlanAssumption DEF Row
  <1>5. bill.month \in Nat
    <2>1. Bills(r, j.amount, price, plan, fee, bill)  BY DEF Bills
    <2> HIDE DEF j, r, move, plan, price, fee, bill
    <2> QED  BY <1>2, <1>3, <1>4, <2>1, BillType, Zenon
  <1>6. StartOf(r) \in Int /\ (Future(r.expires) => StartOf(r) = r.expires)
    BY <1>0, <1>3 DEF StartOf, Future, Row
  <1> HIDE DEF bill, fee, price, plan, move
  <1>7. due \in Int /\ due >= StartOf(r)
    <2>1. StartOf(r) \in Int /\ bill.month \in Int /\ price \in Nat /\ today \in Nat
      BY <1>0, <1>4, <1>5, <1>6
    <2> HIDE DEF r
    <2> QED  BY <2>1, NewExpiryType, NewExpiryNotEarlier
  <1>8. new.expires = due  OBVIOUS
  <1>9. due # NoDate  BY <1>7, RequestAssumption
  <1> HIDE DEF new, due, r
  <1>10. CASE move /\ price < Price[r.plan]
    <2>1. receipts' = receipts
      BY <1>10 DEF CommitPortal, new, due, bill, fee, price, plan, move, r
    <2> QED  BY <1>0, <2>1 DEF KeepsPaidDays, Pays
  <1>11. CASE ~(move /\ price < Price[r.plan])
    <2>1. Write(j.cust, new) /\ Record(j.cust, j.amount, due)
      BY <1>11 DEF CommitPortal, new, due, bill, fee, price, plan, move, r
    <2> SUFFICES ASSUME NEW c \in Customers, Pays(c), Future(row[c].expires)
                 PROVE  row'[c].expires # NoDate /\ row'[c].expires >= row[c].expires
      BY DEF KeepsPaidDays
    <2>2. c = j.cust  BY <1>0, <2>1 DEF Pays, Record
    <2>3. row'[c].expires = due  BY <1>0, <1>2, <1>8, <2>1, <2>2 DEF Write
    <2>4. due >= row[c].expires  BY <1>6, <1>7, <2>2 DEF r
    <2> QED  BY <1>9, <2>3, <2>4
  <1> QED  BY <1>10, <1>11

LEMMA KeepsStep ==
    TypeOK /\ NoPay /\ [Next]_vars => KeepsPaidDays
  <1> SUFFICES ASSUME TypeOK, NoPay, [Next]_vars PROVE KeepsPaidDays  OBVIOUS
  <1>0. TablesTyped /\ receipts \in Seq(Receipt)  BY DEF TypeOK, TablesTyped
  <1>1. CASE Len(receipts') <= Len(receipts)  BY <1>0, <1>1 DEF KeepsPaidDays, Pays
  <1>2. CASE UNCHANGED receipts
    <2>1. Len(receipts') <= Len(receipts)  BY <1>0, <1>2
    <2> QED  BY <1>1, <2>1
  <1>3. ASSUME NEW k, NEW x, receipts' = [receipts EXCEPT ![k] = x] PROVE KeepsPaidDays
    <2>1. Len(receipts') <= Len(receipts)  BY <1>0, <1>3
    <2> QED  BY <1>1, <2>1
  <1>4. ASSUME NEW x, receipts' = Append(receipts, x), ~(x.cash /\ x.amount > 0)
        PROVE  KeepsPaidDays
    BY <1>0, <1>4 DEF KeepsPaidDays, Pays
  <1>5. ASSUME NEW s \in Staff, NEW c \in Customers, Request(s, c) PROVE KeepsPaidDays
    BY <1>2, <1>5
    DEF Request, OpenPay, OpenPortal, OpenRebate, OpenRollback, OpenTransfer,
        OpenEditExpiration, OpenEditBalance, Table
  <1>6. ASSUME NEW s \in Staff, NEW k, NEW a, OpenEditPayment(s, k, a) PROVE KeepsPaidDays
    BY <1>2, <1>6 DEF OpenEditPayment, Table
  <1>7. ASSUME NEW s \in Staff, Commit(s) PROVE KeepsPaidDays
    <2>1. CASE CommitPay(s)  BY <2>1 DEF CommitPay, NoPay, At
    <2>2. CASE CommitPortal(s)  BY <1>0, <2>2, PortalKeeps
    <2>3. CASE RecordRefund(s)
      <3> DEFINE j == session[s]
                 x == [cust |-> j.cust, amount |-> -j.amount, expires |-> NoDate,
                       cash |-> TRUE, moves |-> 0]
      <3>1. j.amount \in Nat
        BY <1>0, <2>3, JobTypes DEF RecordRefund, RefundJob
      <3>2. x.amount = -j.amount  OBVIOUS
      <3>3. ~(x.cash /\ x.amount > 0)  BY <3>1, <3>2
      <3>4. receipts' = Append(receipts, x)  BY <2>3 DEF RecordRefund, Record
      <3> HIDE DEF x
      <3> QED  BY <1>4, <3>3, <3>4
    <2>4. CASE CommitTransfer(s)  BY <1>3, <2>4 DEF CommitTransfer
    <2>5. CASE CommitEditPayment(s)  BY <1>3, <2>5 DEF CommitEditPayment
    <2>6. CASE \/ PayRouter(s) \/ CommitRebate(s) \/ CommitRollback(s) \/ AbortTransfer(s)
               \/ CommitEditExpiration(s) \/ CommitEditBalance(s)
      BY <1>2, <2>6
      DEF PayRouter, CommitRebate, CommitRollback, AbortTransfer, CommitEditExpiration,
          CommitEditBalance, Table
    <2> QED  BY <1>7, <2>1, <2>2, <2>3, <2>4, <2>5, <2>6 DEF Commit
  <1>8. ASSUME NEW s \in Staff, Batch(s) PROVE KeepsPaidDays
    <2>1. ASSUME NEW c \in Customers, RecordRenewal(s, c) PROVE KeepsPaidDays
      <3> DEFINE x == RenewalReceipt(c, session[s].rows[c])
      <3>1. ~x.cash  BY DEF RenewalReceipt
      <3>2. receipts' = Append(receipts, x)  BY <2>1 DEF RecordRenewal
      <3> HIDE DEF x
      <3> QED  BY <1>4, <3>1, <3>2
    <2> QED
      BY <1>2, <1>8, <2>1
      DEF Batch, OpenSweep, OpenSuspend, OpenRogue, SweepCustomer, SuspendCustomer,
          SuspendRogue, Table
  <1>9. ASSUME NEW c \in Customers, ForceSuspend(c) \/ ForceReactivate(c) PROVE KeepsPaidDays
    BY <1>2, <1>9 DEF ForceSuspend, ForceReactivate
  <1>10. CASE NextDay \/ AtRest \/ UNCHANGED vars
    BY <1>2, <1>10 DEF NextDay, AtRest, vars
  <1> QED  BY <1>5, <1>6, <1>7, <1>8, <1>9, <1>10 DEF Next

\* A payment through the portal never brings forward the due date of a running
\* line, whatever the desk edits, transfers or sweeps between the customer's
\* click and the commit.  Only the cashier's Pay page, which carries a start
\* date computed before the lock, is excluded.
THEOREM PortalKeepsPaidDays ==
    ASSUME "pay" \notin Handlers
    PROVE  Spec => RenewalKeepsPaidDays
  <1>1. OnlyBegun => NoPay  BY DEF OnlyBegun, Begun, NoPay
  <1>2. TypeOK /\ NoPay /\ [Next]_vars =>
          [\A c \in Customers : Pays(c) /\ Future(row[c].expires)
             => row'[c].expires # NoDate /\ row'[c].expires >= row[c].expires]_vars
    BY KeepsStep DEF KeepsPaidDays
  <1> QED  BY <1>1, <1>2, TypeCorrect, AlwaysBegun, PTL DEF Spec, RenewalKeepsPaidDays
-----------------------------------------------------------------------------
(* With one request or batch at a time, receipts show the due date *)

\* Between the save of a renewal and its Payment row nothing has touched the
\* due date, unless the line was forced off in between.
Undisturbed(c, r) ==
    \/ row[c].expires = r.expires
    \/ "forceSuspend" \in Handlers /\ row[c].status = "suspended"

Renewing == {"sweep", "suspend"}
OwedSound ==
    \A s \in Staff : session[s].op \in Renewing =>
       \A c \in session[s].owed : Undisturbed(c, session[s].rows[c])

OneAtATime == \A s, t \in Staff : s = t
OneForce   == ~({"forceSuspend", "forceReactivate"} \subseteq Handlers)

\* The only thread has gone on to something that owes no Payment row.
LEMMA NothingOwed ==
    ASSUME OneAtATime, session \in [Staff -> Job], NEW s \in Staff, NEW j,
           session' = [session EXCEPT ![s] = j],
           j.op \in Renewing => j.owed = {}
    PROVE  OwedSound'
  <1> SUFFICES ASSUME NEW t \in Staff, session'[t].op \in Renewing
               PROVE  session'[t].owed = {}
    BY DEF OwedSound, Renewing
  <1>1. t = s  BY DEF OneAtATime
  <1> QED  BY <1>1

\* A request that no batch runs.
LEMMA RequestOwesNothing ==
    ASSUME OneAtATime, TypeOK, NEW s \in Staff, NEW c \in Customers, Request(s, c)
    PROVE  OwedSound'
  <1>0. session \in [Staff -> Job]  BY DEF TypeOK, TablesTyped
  <1>1. ASSUME NEW h, h \notin Renewing, NEW j, j.op = h, Begin(s, h, j) PROVE OwedSound'
    BY <1>0, <1>1, NothingOwed DEF Begin
  <1>2. ASSUME NEW a, NEW d, NEW p, OpenPay(s, c, a, d, p) PROVE OwedSound'
    <2> DEFINE j == [op |-> "pay", cust |-> c, amount |-> a, plan |-> p,
                     price |-> Price[row[c].plan],
                     start |-> IF d # NoDate THEN d ELSE StartOf(row[c])]
    <2>1. j.op = "pay"  OBVIOUS
    <2>2. Begin(s, "pay", j)  BY <1>2 DEF OpenPay
    <2> HIDE DEF j
    <2> QED  BY <1>1, <2>1, <2>2 DEF Renewing
  <1>3. ASSUME NEW a, NEW p, OpenPortal(s, c, a, p) PROVE OwedSound'
    BY <1>1, <1>3 DEF OpenPortal, Renewing
  <1>4. ASSUME NEW d, OpenRebate(s, c, d) PROVE OwedSound'
    BY <1>1, <1>4 DEF OpenRebate, Renewing
  <1>5. ASSUME NEW a, NEW d, OpenRollback(s, c, d, a) PROVE OwedSound'
    BY <1>1, <1>5 DEF OpenRollback, Renewing
  <1>6. ASSUME NEW k, OpenTransfer(s, k, c) PROVE OwedSound'
    BY <1>1, <1>6 DEF OpenTransfer, Renewing
  <1>7. ASSUME NEW d, OpenEditExpiration(s, c, d) PROVE OwedSound'
    BY <1>1, <1>7 DEF OpenEditExpiration, Renewing
  <1>8. ASSUME NEW a, NEW d, OpenEditBalance(s, c, a, d) PROVE OwedSound'
    <2> DEFINE j(base) ==
          [op |-> "editBalance", cust |-> c, seen |-> row[c], amount |-> a,
           date |-> IF a = 0 /\ d \in {NoDate, row[c].expires} THEN base ELSE d]
    <2>1. PICK base : Begin(s, "editBalance", j(base))  BY <1>8 DEF OpenEditBalance
    <2>2. j(base).op = "editBalance"  OBVIOUS
    <2> HIDE DEF j
    <2> QED  BY <1>1, <2>1, <2>2 DEF Renewing
  <1> QED  BY <1>2, <1>3, <1>4, <1>5, <1>6, <1>7, <1>8 DEF Request

LEMMA CommitOwesNothing ==
    ASSUME OneAtATime, TypeOK, NEW s \in Staff, Commit(s)
    PROVE  OwedSound'
  <1>0. session \in [Staff -> Job]  BY DEF TypeOK, TablesTyped
  <1>1. ASSUME Finish(s) PROVE OwedSound'
    <2>1. Idle.op \notin Renewing  BY DEF Idle, Renewing
    <2> QED  BY <1>0, <1>1, <2>1, NothingOwed DEF Finish
  <1>2. CASE CommitPay(s)
    <2> DEFINE c == session[s].cust
               j == [op |-> "payRouter", cust |-> c, cut |-> row[c].status \in Cut]
    <2>1. j.op \notin Renewing  BY DEF Renewing
    <2>2. session' = [session EXCEPT ![s] = j]  BY <1>2 DEF CommitPay
    <2> HIDE DEF j
    <2> QED  BY <1>0, <2>1, <2>2, NothingOwed
  <1>3. CASE CommitRollback(s)
    <2> DEFINE k == session[s]
               j == IF k.amount > 0 THEN [op |-> "refund", cust |-> k.cust, amount |-> k.amount]
                    ELSE Idle
    <2>1. j.op \notin Renewing  BY DEF Idle, Renewing
    <2>2. session' = [session EXCEPT ![s] = j]  BY <1>3 DEF CommitRollback
    <2> HIDE DEF j
    <2> QED  BY <1>0, <2>1, <2>2, NothingOwed
  <1> QED
    BY <1>1, <1>2, <1>3
    DEF Commit, PayRouter, CommitPortal, CommitRebate, RecordRefund, CommitTransfer,
        AbortTransfer, CommitEditPayment, CommitEditExpiration, CommitEditBalance

\* The save of a renewal and the loop's own copy agree on the new due date.
LEMMA RenewalIsOwed ==
    ASSUME OneAtATime, TypeOK, NEW s \in Staff, NEW c \in Customers, Renews(s, c),
           session[s] \in BatchJob,
           row'[c].expires = Renewed(session[s].rows[c]).expires
    PROVE  OwedSound'
  <1> DEFINE j    == session[s]
             rows == [j.rows EXCEPT ![c] = Renewed(@)]
             next == [j EXCEPT !.rows = rows, !.owed = {c}]
  <1>0. session \in [Staff -> Job]  BY DEF TypeOK, TablesTyped
  <1>1. session'[s] = next  BY <1>0 DEF Renews
  <1>2. next.owed = {c} /\ next.rows = rows  BY DEF BatchJob
  <1>3. rows[c] = Renewed(j.rows[c])  BY DEF BatchJob
  <1> SUFFICES ASSUME NEW t \in Staff, NEW d \in session'[t].owed
               PROVE  row'[d].expires = session'[t].rows[d].expires
    BY DEF OwedSound, Undisturbed
  <1>4. t = s  BY DEF OneAtATime
  <1> HIDE DEF next, rows
  <1>5. d = c /\ session'[t].rows[d] = Renewed(j.rows[c])  BY <1>1, <1>2, <1>3, <1>4
  <1> QED  BY <1>5

LEMMA BatchOwes ==
    ASSUME OneAtATime, TypeOK, NEW s \in Staff, Batch(s)
    PROVE  OwedSound'
  <1>0. session \in [Staff -> Job] /\ row \in [Customers -> Row]
    BY DEF TypeOK, TablesTyped
  <1>1. CASE OpenSweep(s)
    <2> DEFINE j == [op |-> "sweep", rows |-> row, todo |-> PastDue, owed |-> {}]
    <2>1. session' = [session EXCEPT ![s] = j]  BY <1>1 DEF OpenSweep, Begin
    <2>2. j.owed = {}  OBVIOUS
    <2> HIDE DEF j
    <2> QED  BY <1>0, <2>1, <2>2, NothingOwed
  <1>2. CASE OpenSuspend(s)
    <2> DEFINE j == [op |-> "suspend", rows |-> row, todo |-> PastDue, owed |-> {}]
    <2>1. session' = [session EXCEPT ![s] = j]  BY <1>2 DEF OpenSuspend, Begin
    <2>2. j.owed = {}  OBVIOUS
    <2> HIDE DEF j
    <2> QED  BY <1>0, <2>1, <2>2, NothingOwed
  <1>3. CASE OpenRogue(s)
    <2> DEFINE bad == {c \in Rogue : row[c].status = "active"}
               j   == IF bad = {} THEN Idle
                      ELSE [op |-> "rogue", rows |-> row, todo |-> bad, owed |-> {}]
    <2>1. session' = [session EXCEPT ![s] = j]  BY <1>3 DEF OpenRogue
    <2>2. j.op \notin Renewing  BY DEF Idle, Renewing
    <2> HIDE DEF j
    <2> QED  BY <1>0, <2>1, <2>2, NothingOwed
  <1>4. ASSUME NEW c \in Customers, Advance(s, c), session[s] \in BatchJob PROVE OwedSound'
    <2> DEFINE rest == [session[s] EXCEPT !.todo = session[s].todo \ {c}, !.owed = {}]
               next == IF session[s].todo = {c} /\ session[s].op # "suspend"
                       THEN Idle ELSE rest
    <2>1. rest.owed = {} /\ Idle.op \notin Renewing  BY <1>4 DEF BatchJob, Idle, Renewing
    <2>2. session' = [session EXCEPT ![s] = next]  BY <1>4 DEF Advance
    <2> HIDE DEF rest
    <2>3. next.op \in Renewing => next.owed = {}  BY <2>1
    <2> HIDE DEF next
    <2> QED  BY <1>0, <2>2, <2>3, NothingOwed
  <1>5. ASSUME NEW c \in Customers,
               \/ SweepCustomer(s, c) \/ SuspendCustomer(s, c) \/ SuspendRogue(s, c)
               \/ RecordRenewal(s, c)
        PROVE  OwedSound'
    <2>1. session[s] \in BatchJob
      BY <1>5, JobTypes
      DEF SweepCustomer, SuspendCustomer, SuspendRogue, Reached, RecordRenewal, TypeOK
    <2>2. CASE Advance(s, c)  BY <1>4, <2>1, <2>2
    <2>3. CASE Renews(s, c) /\ ~Advance(s, c)
      <3> DEFINE new == Renewed(session[s].rows[c])
      <3>1. CASE row' = [row EXCEPT ![c].expires = new.expires, ![c].balance = new.balance]
        <4>1. row'[c].expires = new.expires
          <5> HIDE DEF new
          <5> QED  BY <1>0, <3>1 DEF Row
        <4> QED  BY <2>1, <2>3, <4>1, RenewalIsOwed
      <3>2. CASE Write(c, new)
        <4>1. row'[c].expires = new.expires  BY <1>0, <3>2 DEF Write
        <4> QED  BY <2>1, <2>3, <4>1, RenewalIsOwed
      <3> QED
        BY <1>5, <2>3, <3>1, <3>2
        DEF SweepCustomer, SuspendCustomer, SuspendRogue, RecordRenewal
    <2> QED
      BY <1>5, <2>2, <2>3 DEF SweepCustomer, SuspendCustomer, SuspendRogue, RecordRenewal
  <1> QED  BY <1>1, <1>2, <1>3, <1>5 DEF Batch

LEMMA OwedSoundStep ==
    ASSUME OneAtATime, OneForce
    PROVE  TypeOK /\ OwedSound /\ [Next]_vars => OwedSound'
  <1> SUFFICES ASSUME TypeOK, OwedSound, [Next]_vars PROVE OwedSound'  OBVIOUS
  <1>0. session \in [Staff -> Job] /\ row \in [Customers -> Row]
    BY DEF TypeOK, TablesTyped
  <1>1. CASE UNCHANGED <<row, session>>  BY <1>1 DEF OwedSound, Undisturbed
  <1>2. \A s \in Staff : session[s].op \in Renewing => session[s].owed \subseteq Customers
    BY <1>0 DEF Job, Idle, Renewing, BatchJob, PayJob, PayRouterJob, PortalJob, RebateJob,
                RollbackJob, RefundJob, TransferJob, EditPaymentJob, EditExpirationJob,
                EditBalanceJob
  <1>3. ASSUME NEW s \in Staff, NEW k, NEW a, OpenEditPayment(s, k, a) PROVE OwedSound'
    <2> DEFINE j == [op |-> "editPayment", id |-> k, seen |-> receipts[k], amount |-> a]
    <2>1. session' = [session EXCEPT ![s] = j]  BY <1>3 DEF OpenEditPayment, Begin
    <2>2. j.op \notin Renewing  BY DEF Renewing
    <2> HIDE DEF j
    <2> QED  BY <1>0, <2>1, <2>2, NothingOwed
  <1>4. ASSUME NEW c \in Customers, ForceSuspend(c) PROVE OwedSound'
    <2>1. "forceSuspend" \in Handlers /\ session' = session  BY <1>4 DEF ForceSuspend
    <2>2. \A d \in Customers : d # c => row'[d] = row[d]  BY <1>0, <1>4 DEF ForceSuspend
    <2>3. row'[c].status = "suspended"  BY <1>0, <1>4 DEF ForceSuspend, Row
    <2> QED  BY <1>2, <2>1, <2>2, <2>3 DEF OwedSound, Undisturbed
  <1>5. ASSUME NEW c \in Customers, ForceReactivate(c) PROVE OwedSound'
    <2>1. "forceSuspend" \notin Handlers /\ session' = session
      BY <1>5 DEF ForceReactivate, OneForce
    <2>2. \A d \in Customers : row'[d].expires = row[d].expires
      BY <1>0, <1>5 DEF ForceReactivate, Row
    <2> SUFFICES ASSUME NEW s \in Staff, session[s].op \in Renewing,
                        NEW d \in session[s].owed
                 PROVE  row'[d].expires = session[s].rows[d].expires
      BY <2>1 DEF OwedSound, Undisturbed
    <2> QED  BY <1>2, <2>1, <2>2 DEF OwedSound, Undisturbed
  <1>6. CASE NextDay \/ AtRest \/ UNCHANGED vars
    BY <1>1, <1>6 DEF NextDay, AtRest, vars
  <1> QED
    BY <1>3, <1>4, <1>5, <1>6, RequestOwesNothing, CommitOwesNothing, BatchOwes DEF Next

\* The step itself: this is ReceiptShowsDueDate without its temporal operators.
ShowsDueDate ==
    Len(receipts') > Len(receipts) =>
       LET p == receipts'[Len(receipts')]
       IN  p.amount > 0 /\ row'[p.cust].status # "suspended"
              => p.expires = row'[p.cust].expires

LEMMA NewReceiptShows ==
    ASSUME receipts \in Seq(Receipt), NEW x, receipts' = Append(receipts, x),
           x.amount > 0 /\ row'[x.cust].status # "suspended"
              => x.expires = row'[x.cust].expires
    PROVE  ShowsDueDate
  <1>1. receipts'[Len(receipts')] = x  OBVIOUS
  <1> QED  BY <1>1 DEF ShowsDueDate

\* The two payment handlers write the row and its receipt together.
LEMMA PaymentShows ==
    ASSUME TablesTyped, NEW c \in Customers, NEW new, NEW a, Write(c, new),
           Record(c, a, new.expires)
    PROVE  ShowsDueDate
  <1> DEFINE x == [cust |-> c, amount |-> a, expires |-> new.expires, cash |-> TRUE,
                   moves |-> 0]
  <1>1. receipts \in Seq(Receipt) /\ row \in [Customers -> Row]  BY DEF TablesTyped
  <1>2. receipts' = Append(receipts, x)  BY DEF Record
  <1>3. row'[c] = new  BY <1>1 DEF Write
  <1>4. x.expires = row'[x.cust].expires  BY <1>3
  <1> HIDE DEF x
  <1> QED  BY <1>1, <1>2, <1>4, NewReceiptShows

LEMMA ShowsStep ==
    TypeOK /\ OwedSound /\ [Next]_vars => ShowsDueDate
  <1> SUFFICES ASSUME TypeOK, OwedSound, [Next]_vars PROVE ShowsDueDate  OBVIOUS
  <1>0. TablesTyped /\ receipts \in Seq(Receipt)  BY DEF TypeOK, TablesTyped
  <1>1. CASE Len(receipts') <= Len(receipts)  BY <1>0, <1>1 DEF ShowsDueDate
  <1>2. CASE UNCHANGED receipts
    <2>1. Len(receipts') <= Len(receipts)  BY <1>0, <1>2
    <2> QED  BY <1>1, <2>1
  <1>3. ASSUME NEW k, NEW x, receipts' = [receipts EXCEPT ![k] = x] PROVE ShowsDueDate
    <2>1. Len(receipts') <= Len(receipts)  BY <1>0, <1>3
    <2> QED  BY <1>1, <2>1
  <1>4. ASSUME NEW s \in Staff, NEW c \in Customers, Request(s, c) PROVE ShowsDueDate
    BY <1>2, <1>4
    DEF Request, OpenPay, OpenPortal, OpenRebate, OpenRollback, OpenTransfer,
        OpenEditExpiration, OpenEditBalance, Table
  <1>5. ASSUME NEW s \in Staff, NEW k, NEW a, OpenEditPayment(s, k, a) PROVE ShowsDueDate
    BY <1>2, <1>5 DEF OpenEditPayment, Table
  <1>6. ASSUME NEW s \in Staff, Commit(s) PROVE ShowsDueDate
    <2>1. CASE CommitPay(s)
      <3>1. session[s].cust \in Customers  BY <1>0, <2>1, JobTypes DEF CommitPay, PayJob
      <3>2. PICK st, due, b, p, a :
              /\ Write(session[s].cust, [status |-> st, expires |-> due, balance |-> b,
                                         plan |-> p])
              /\ Record(session[s].cust, a, due)
        BY <2>1 DEF CommitPay
      <3> QED  BY <1>0, <3>1, <3>2, PaymentShows
    <2>2. CASE CommitPortal(s)
      <3>1. session[s].cust \in Customers  BY <1>0, <2>2, JobTypes DEF CommitPortal, PortalJob
      <3>2. CASE ~UNCHANGED receipts
        <4>1. PICK st, due, b, p, a :
                /\ Write(session[s].cust, [status |-> st, expires |-> due, balance |-> b,
                                           plan |-> p])
                /\ Record(session[s].cust, a, due)
          BY <2>2, <3>2 DEF CommitPortal
        <4> QED  BY <1>0, <3>1, <4>1, PaymentShows
      <3> QED  BY <1>2, <3>2
    <2>3. CASE RecordRefund(s)
      <3> DEFINE x == [cust |-> session[s].cust, amount |-> -session[s].amount,
                       expires |-> NoDate, cash |-> TRUE, moves |-> 0]
      <3>1. session[s].amount \in Nat
        BY <1>0, <2>3, JobTypes DEF RecordRefund, RefundJob
      <3>2. x.amount = -session[s].amount  OBVIOUS
      <3>3. receipts' = Append(receipts, x)  BY <2>3 DEF RecordRefund, Record
      <3>4. ~(x.amount > 0)  BY <3>1, <3>2
      <3> HIDE DEF x
      <3> QED  BY <1>0, <3>3, <3>4, NewReceiptShows
    <2>4. CASE CommitTransfer(s)  BY <1>3, <2>4 DEF CommitTransfer
    <2>5. CASE CommitEditPayment(s)  BY <1>3, <2>5 DEF CommitEditPayment
    <2>6. CASE \/ PayRouter(s) \/ CommitRebate(s) \/ CommitRollback(s) \/ AbortTransfer(s)
               \/ CommitEditExpiration(s) \/ CommitEditBalance(s)
      BY <1>2, <2>6
      DEF PayRouter, CommitRebate, CommitRollback, AbortTransfer, CommitEditExpiration,
          CommitEditBalance, Table
    <2> QED  BY <1>6, <2>1, <2>2, <2>3, <2>4, <2>5, <2>6 DEF Commit
  <1>7. ASSUME NEW s \in Staff, Batch(s) PROVE ShowsDueDate
    <2>1. ASSUME NEW c \in Customers, RecordRenewal(s, c) PROVE ShowsDueDate
      <3> DEFINE x == RenewalReceipt(c, session[s].rows[c])
      <3>1. x.cust = c /\ x.expires = session[s].rows[c].expires  BY DEF RenewalReceipt
      <3>2. receipts' = Append(receipts, x) /\ row' = row  BY <2>1 DEF RecordRenewal
      <3>3. Undisturbed(c, session[s].rows[c])
        BY <2>1 DEF RecordRenewal, At, OwedSound, Renewing
      <3> HIDE DEF x
      <3>4. row'[x.cust].status # "suspended" => x.expires = row'[x.cust].expires
        BY <3>1, <3>2, <3>3 DEF Undisturbed
      <3> QED  BY <1>0, <3>2, <3>4, NewReceiptShows
    <2> QED
      BY <1>2, <1>7, <2>1
      DEF Batch, OpenSweep, OpenSuspend, OpenRogue, SweepCustomer, SuspendCustomer,
          SuspendRogue, Table
  <1>8. ASSUME NEW c \in Customers, ForceSuspend(c) \/ ForceReactivate(c) PROVE ShowsDueDate
    BY <1>2, <1>8 DEF ForceSuspend, ForceReactivate
  <1>9. CASE NextDay \/ AtRest \/ UNCHANGED vars
    BY <1>2, <1>9 DEF NextDay, AtRest, vars
  <1> QED  BY <1>4, <1>5, <1>6, <1>7, <1>8, <1>9 DEF Next

\* With one request or batch at a time, every positive receipt, of the counter,
\* the portal, the sweep or the suspension task, carries the due date that the
\* row of a line not suspended shows, on any plans and prices.  The batches save
\* the row and write its Payment row in two steps: an administrator may force
\* the line off in between, or force it on, but not both, for the second would
\* bring back a line whose due date the first has cleared.
THEOREM ReceiptsShowDates ==
    ASSUME OneAtATime, OneForce
    PROVE  Spec => ReceiptShowsDueDate
  <1>1. Init => OwedSound  BY DEF Init, OwedSound, Renewing, Idle
  <1>2. TypeOK /\ OwedSound /\ [Next]_vars => OwedSound'  BY OwedSoundStep
  <1>3. TypeOK /\ OwedSound /\ [Next]_vars =>
          [Len(receipts') > Len(receipts) =>
             LET p == receipts'[Len(receipts')]
             IN  p.amount > 0 /\ row'[p.cust].status # "suspended"
                    => p.expires = row'[p.cust].expires]_vars
    BY ShowsStep DEF ShowsDueDate
  <1> QED  BY <1>1, <1>2, <1>3, TypeCorrect, PTL DEF Spec, ReceiptShowsDueDate
-----------------------------------------------------------------------------
(* With one request or batch at a time, every handler keeps the books *)

\* Nobody types an amount anew, in a Payment row or in a balance.
NothingTyped == Handlers \cap {"editPayment", "editBalance"} = {}

\* What the one request has read is still so, as far as the books count it: the
\* handlers that save a whole row hold its balance, a transfer the Payment row,
\* a batch the balances of all the rows.
Saving  == {"rebate", "rollback", "editExpiration"}
Batches == {"sweep", "suspend", "rogue"}
CopyFits(j, rows, paid) ==
    /\ j.op \in Saving => j.seen.balance = rows[j.cust].balance
    /\ j.op = "transfer" => paid[j.id] = j.seen /\ j.seen.cust # j.cust
    /\ j.op \in Batches => \A c \in Customers : j.rows[c].balance = rows[c].balance
CopiesFit == \A s \in Staff : CopyFits(session[s], row, receipts)

\* The books of a customer, when a rollback may still owe its negative Payment row.
StillOwes(s, c) == At(s, "refund") /\ session[s].cust = c
BooksKept(c) ==
    /\ (\A s \in Staff : ~StillOwes(s, c)) => Balances(c)
    /\ \A s \in Staff :
          StillOwes(s, c) => collected[c] + row[c].balance - session[s].amount = used[c]
AllKept == \A c \in Customers : BooksKept(c)

\* A step that keeps the books, or moves the Payment row of a renewal.
Keeping ==
    /\ CopiesFit'
    /\ RenewalMoved => RenewalMoved'
    /\ AllKept => AllKept' \/ RenewalMoved'

LEMMA OneCopy ==
    ASSUME OneAtATime, session \in [Staff -> Job], NEW s \in Staff, NEW j,
           session' = [session EXCEPT ![s] = j], CopyFits(j, row', receipts')
    PROVE  CopiesFit'
  <1> SUFFICES ASSUME NEW t \in Staff PROVE CopyFits(session'[t], row', receipts')
    BY DEF CopiesFit
  <1>1. session'[t] = j  BY DEF OneAtATime
  <1> QED  BY <1>1

\* Where no rollback is half done the books balance, and the other way round.
LEMMA KeptIsBalanced ==
    ASSUME OneAtATime, NEW s \in Staff, session[s].op # "refund"
    PROVE  AllKept <=> Balanced
  <1>1. \A t \in Staff, c \in Customers : ~StillOwes(t, c)  BY DEF OneAtATime, StillOwes, At
  <1> QED  BY <1>1 DEF AllKept, BooksKept, Balanced

LEMMA KeptNext ==
    ASSUME OneAtATime, session \in [Staff -> Job], NEW s \in Staff, NEW j,
           session' = [session EXCEPT ![s] = j], j.op # "refund", Balanced'
    PROVE  AllKept'
  <1>1. \A t \in Staff : session'[t] = j  BY DEF OneAtATime
  <1>2. \A t \in Staff, c \in Customers : ~StillOwes(t, c)'  BY <1>1 DEF StillOwes, At
  <1> QED  BY <1>2 DEF AllKept, BooksKept, Balanced

\* A step after which the one thread holds j, as far as the rows go.
LEMMA KeepsBooks ==
    ASSUME OneAtATime, TypeOK, NEW s \in Staff, NEW j, session[s].op # "refund",
           session' = [session EXCEPT ![s] = j], j.op # "refund",
           CopyFits(j, row', receipts'), RenewalMoved => RenewalMoved',
           Balanced => Balanced' \/ RenewalMoved'
    PROVE  Keeping
  <1>0. session \in [Staff -> Job]  BY DEF TypeOK, TablesTyped
  <1>1. CopiesFit'  BY <1>0, OneCopy
  <1>2. Balanced' => AllKept'  BY <1>0, KeptNext
  <1> QED  BY <1>1, <1>2, KeptIsBalanced DEF Keeping

\* Payment rows that are added, or not, leave the moved ones where they are.
LEMMA MovedStays ==
    ASSUME TablesTyped, RenewalMoved,
           UNCHANGED receipts \/ \E x : receipts' = Append(receipts, x)
    PROVE  RenewalMoved'
  <1>0. receipts \in Seq(Receipt)  BY DEF TablesTyped
  <1>1. CASE UNCHANGED receipts  BY <1>1 DEF RenewalMoved
  <1>2. ASSUME NEW x, receipts' = Append(receipts, x) PROVE RenewalMoved'
    <2>1. PICK k \in DOMAIN receipts : ~receipts[k].cash /\ receipts[k].moves > 0
      BY DEF RenewalMoved
    <2>2. k \in DOMAIN receipts' /\ receipts'[k] = receipts[k]  BY <1>0, <1>2
    <2> QED  BY <2>1, <2>2 DEF RenewalMoved
  <1> QED  BY <1>1, <1>2

\* The whole-row saves leave the balance as they found it.
LEMMA SavedOwes ==
    ASSUME NEW r \in Row
    PROVE  Saved(r).balance = r.balance
  BY DEF Saved, Row

LEMMA RedatedOwes ==
    ASSUME NEW r \in Row, NEW d \in Date
    PROVE  Redated(r, d) \in Row /\ Saved(Redated(r, d)).balance = r.balance
  <1>1. Redated(r, d).balance = r.balance  BY DEF Redated, Row
  <1> QED  BY <1>1, RedatedType, SavedOwes

\* A step that begins a request: nothing is written, and what is read is there.
Opens(s) ==
    /\ session[s] = Idle /\ UNCHANGED Table
    /\ \E j : /\ session' = [session EXCEPT ![s] = j] /\ j.op # "refund"
              /\ CopyFits(j, row, receipts)

LEMMA OpensKeep ==
    ASSUME OneAtATime, TypeOK, NEW s \in Staff, Opens(s)
    PROVE  Keeping
  <1>1. PICK j : /\ session' = [session EXCEPT ![s] = j] /\ j.op # "refund"
                 /\ CopyFits(j, row, receipts)
    BY DEF Opens
  <1>2. session[s].op # "refund"  BY DEF Opens, Idle
  <1>3. CopyFits(j, row', receipts')  BY <1>1 DEF Opens, Table
  <1>4. Balanced => Balanced'  BY SameBooks DEF Opens, Table
  <1>5. RenewalMoved => RenewalMoved'  BY MovedStays DEF Opens, Table, TypeOK
  <1> QED  BY <1>1, <1>2, <1>3, <1>4, <1>5, KeepsBooks

LEMMA RequestOpens ==
    ASSUME NothingTyped, NEW s \in Staff, NEW c \in Customers, Request(s, c)
    PROVE  Opens(s)
  <1>0. ASSUME NEW h, NEW j, Begin(s, h, j), UNCHANGED Table, j.op = h,
               h \notin {"refund"} \cup Saving \cup Batches \cup {"transfer"}
        PROVE  Opens(s)
    BY <1>0 DEF Begin, Opens, CopyFits
  <1>1. ASSUME NEW h \in Saving, NEW j, Begin(s, h, j), UNCHANGED Table, j.op = h,
               j.seen = row[c], j.cust = c
        PROVE  Opens(s)
    BY <1>1 DEF Begin, Opens, CopyFits, Saving, Batches
  <1>2. ASSUME NEW a, NEW d, NEW p, OpenPay(s, c, a, d, p) PROVE Opens(s)
    <2> DEFINE j == [op |-> "pay", cust |-> c, amount |-> a, plan |-> p,
                     price |-> Price[row[c].plan],
                     start |-> IF d # NoDate THEN d ELSE StartOf(row[c])]
    <2>1. j.op = "pay"  OBVIOUS
    <2>2. Begin(s, "pay", j) /\ UNCHANGED Table  BY <1>2 DEF OpenPay
    <2> HIDE DEF j
    <2> QED  BY <1>0, <2>1, <2>2 DEF Saving, Batches
  <1>3. ASSUME NEW a, NEW p, OpenPortal(s, c, a, p) PROVE Opens(s)
    BY <1>0, <1>3 DEF OpenPortal, Saving, Batches
  <1>4. ASSUME NEW d, OpenRebate(s, c, d) PROVE Opens(s)
    BY <1>1, <1>4 DEF OpenRebate, Saving
  <1>5. ASSUME NEW a, NEW d, OpenRollback(s, c, d, a) PROVE Opens(s)
    BY <1>1, <1>5 DEF OpenRollback, Saving
  <1>6. ASSUME NEW k, OpenTransfer(s, k, c) PROVE Opens(s)
    <2> DEFINE j == [op |-> "transfer", id |-> k, cust |-> c, seen |-> receipts[k]]
    <2>1. /\ session[s] = Idle /\ UNCHANGED Table /\ session' = [session EXCEPT ![s] = j]
          /\ receipts[k].cust # c
      BY <1>6 DEF OpenTransfer, Begin
    <2>2. CopyFits(j, row, receipts) /\ j.op # "refund"
      BY <2>1 DEF CopyFits, Saving, Batches
    <2> QED  BY <2>1, <2>2 DEF Opens
  <1>7. ASSUME NEW d, OpenEditExpiration(s, c, d) PROVE Opens(s)
    BY <1>1, <1>7 DEF OpenEditExpiration, Saving
  <1>8. ASSUME NEW a, NEW d, OpenEditBalance(s, c, a, d) PROVE FALSE
    BY <1>8 DEF OpenEditBalance, Begin, NothingTyped
  <1> QED  BY <1>2, <1>3, <1>4, <1>5, <1>6, <1>7, <1>8 DEF Request

\* A commit after which the thread is free.
LEMMA FinishKeeps ==
    ASSUME OneAtATime, TypeOK, NEW s \in Staff, session[s].op # "refund", Finish(s),
           RenewalMoved => RenewalMoved', Balanced => Balanced' \/ RenewalMoved'
    PROVE  Keeping
  <1>1. session' = [session EXCEPT ![s] = Idle]  BY DEF Finish
  <1>2. Idle.op # "refund" /\ CopyFits(Idle, row', receipts')
    BY DEF Idle, CopyFits, Saving, Batches
  <1> QED  BY <1>1, <1>2, KeepsBooks

\* A whole row saved whose balance is the one that was there.
LEMMA SaveKeepsBalance ==
    ASSUME TablesTyped, NEW c \in Customers, NEW r, Write(c, r),
           r.balance = row[c].balance, UNCHANGED <<collected, used>>
    PROVE  Balanced => Balanced'
  <1>1. \A d \in Customers : row'[d].balance = row[d].balance  BY DEF Write, TablesTyped
  <1> QED  BY <1>1, SameBooks

LEMMA PaymentsKeep ==
    ASSUME OneAtATime, TypeOK, NEW s \in Staff,
           CommitPay(s) \/ CommitPortal(s) \/ PayRouter(s)
    PROVE  Keeping
  <1>0. TablesTyped /\ row \in [Customers -> Row]  BY DEF TypeOK, TablesTyped
  <1>1. session[s].op # "refund"  BY DEF CommitPay, CommitPortal, PayRouter, At
  <1>2. RenewalMoved => RenewalMoved'
    BY <1>0, MovedStays DEF CommitPay, CommitPortal, PayRouter, Record
  <1>3. CASE CommitPay(s)
    <2> DEFINE c == session[s].cust
               j == [op |-> "payRouter", cust |-> c, cut |-> row[c].status \in Cut]
    <2>1. j.op # "refund" /\ CopyFits(j, row', receipts')
      BY DEF CopyFits, Saving, Batches
    <2>2. session' = [session EXCEPT ![s] = j]  BY <1>3 DEF CommitPay
    <2>3. Balanced => Balanced'  BY <1>0, <1>3, PayIsBooked, BookedBalances
    <2> HIDE DEF j
    <2> QED  BY <1>1, <1>2, <2>1, <2>2, <2>3, KeepsBooks
  <1>4. CASE CommitPortal(s)
    <2>1. Balanced => Balanced'
      <3>1. CASE Booked  BY <1>0, <3>1, BookedBalances
      <3>2. CASE UNCHANGED <<row, receipts, collected, used>>  BY <3>2, SameBooks
      <3> QED  BY <1>0, <1>4, <3>1, <3>2, PortalIsBooked
    <2>2. Finish(s)  BY <1>4 DEF CommitPortal
    <2> QED  BY <1>1, <1>2, <2>1, <2>2, FinishKeeps
  <1>5. CASE PayRouter(s)
    <2>1. session[s].cust \in Customers
      BY <1>0, <1>5, JobTypes DEF PayRouter, PayRouterJob
    <2>2. \A d \in Customers : row'[d].balance = row[d].balance
      BY <1>0, <1>5, <2>1 DEF PayRouter, Row
    <2>3. Balanced => Balanced'  BY <1>5, <2>2, SameBooks DEF PayRouter
    <2>4. Finish(s)  BY <1>5 DEF PayRouter
    <2> QED  BY <1>1, <1>2, <2>3, <2>4, FinishKeeps
  <1> QED  BY <1>3, <1>4, <1>5

\* A rebate or a typed date, saved with the row read before.
LEMMA SavesKeep ==
    ASSUME OneAtATime, TypeOK, CopiesFit, NEW s \in Staff,
           CommitRebate(s) \/ CommitEditExpiration(s)
    PROVE  Keeping
  <1> DEFINE j == session[s]
  <1>0. TablesTyped /\ row \in [Customers -> Row]  BY DEF TypeOK, TablesTyped
  <1>1. CopyFits(j, row, receipts)  BY DEF CopiesFit
  <1>2. /\ j.op \in {"rebate", "editExpiration"} /\ Finish(s)
        /\ UNCHANGED <<receipts, collected, used>>
    BY DEF CommitRebate, CommitEditExpiration, At
  <1>3. /\ j.cust \in Customers /\ j.seen \in Row /\ j.date \in Date
        /\ j.seen.balance = row[j.cust].balance
    BY <1>0, <1>1, <1>2, JobTypes DEF At, RebateJob, EditExpirationJob, CopyFits, Saving, Date
  <1>4. RenewalMoved => RenewalMoved'  BY <1>0, <1>2, MovedStays
  <1>5. PICK r : Write(j.cust, r) /\ r.balance = j.seen.balance
    <2>1. CASE CommitRebate(s)
      BY <1>3, <2>1, RedatedOwes DEF CommitRebate
    <2>2. CASE CommitEditExpiration(s)
      <3>1. [j.seen EXCEPT !.expires = j.date].balance = j.seen.balance  BY <1>3 DEF Row
      <3> QED  BY <2>2, <3>1 DEF CommitEditExpiration
    <2> QED  BY <2>1, <2>2
  <1>6. Balanced => Balanced'  BY <1>0, <1>2, <1>3, <1>5, SaveKeepsBalance
  <1> QED  BY <1>2, <1>4, <1>6, FinishKeeps

\* A rollback puts its amount on the account first and in the log afterwards.
LEMMA RollbackKeeps ==
    ASSUME OneAtATime, TypeOK, CopiesFit, NEW s \in Staff, CommitRollback(s)
    PROVE  Keeping
  <1> DEFINE j   == session[s]
             c   == j.cust
             due == [op |-> "refund", cust |-> c, amount |-> j.amount]
             new == Saved(Redated([j.seen EXCEPT !.balance = @ + j.amount], j.date))
  <1>0. TablesTyped /\ row \in [Customers -> Row] /\ session \in [Staff -> Job]
    BY DEF TypeOK, TablesTyped
  <1>1. /\ c \in Customers /\ j.amount \in Nat /\ j.seen \in Row /\ j.date \in Date
        /\ j.seen.balance = row[c].balance /\ j.op = "rollback"
    BY <1>0, JobTypes
    DEF CopiesFit, CopyFits, CommitRollback, At, RollbackJob, Saving, Date
  <1>2. new.balance = row[c].balance + j.amount
    <2>1. /\ [j.seen EXCEPT !.balance = @ + j.amount] \in Row
          /\ [j.seen EXCEPT !.balance = @ + j.amount].balance = j.seen.balance + j.amount
      BY <1>1 DEF Row
    <2> QED  BY <1>1, <2>1, RedatedOwes
  <1>3. /\ Write(c, new) /\ UNCHANGED <<receipts, collected, used>>
        /\ session' = [session EXCEPT ![s] = IF j.amount > 0 THEN due ELSE Idle]
    BY DEF CommitRollback
  <1>4. RenewalMoved => RenewalMoved'  BY <1>0, <1>3, MovedStays
  <1>5. CASE ~(j.amount > 0)
    <2>1. new.balance = row[c].balance
      <3>1. j.amount = 0 /\ row[c].balance \in Int  BY <1>0, <1>1, <1>5 DEF Row
      <3> HIDE DEF new
      <3> QED  BY <1>2, <3>1
    <2>2. Finish(s)  BY <1>3, <1>5 DEF Finish
    <2> HIDE DEF new
    <2>3. Balanced => Balanced'  BY <1>0, <1>1, <1>3, <2>1, SaveKeepsBalance
    <2> QED  BY <1>1, <1>4, <2>2, <2>3, FinishKeeps
  <1>6. CASE j.amount > 0
    <2>1. session' = [session EXCEPT ![s] = due]  BY <1>3, <1>6
    <2>2. CopyFits(due, row', receipts')  BY DEF CopyFits, Saving, Batches
    <2>3. CopiesFit'
      <3> HIDE DEF due
      <3> QED  BY <1>0, <2>1, <2>2, OneCopy
    <2>4. \A t \in Staff : session'[t] = due  BY <1>0, <2>1 DEF OneAtATime
    <2>5. due.op = "refund" /\ due.cust = c /\ due.amount = j.amount  OBVIOUS
    <2> HIDE DEF due, new
    <2>6. ASSUME Balanced, NEW d \in Customers PROVE BooksKept(d)'
      <3>1. /\ collected[d] + row[d].balance = used[d]
            /\ collected[d] \in Int /\ row[d].balance \in Int /\ used[d] \in Int
        BY <1>0, <2>6 DEF Balanced, Balances, TablesTyped, Row
      <3>2. CASE d = c
        <4>1. row'[d] = new  BY <1>0, <1>1, <1>3, <3>2 DEF Write
        <4>2. collected'[d] + row'[d].balance - j.amount = used'[d]
          BY <1>1, <1>2, <1>3, <3>1, <3>2, <4>1
        <4>3. \A t \in Staff : StillOwes(t, d)'  BY <2>4, <2>5, <3>2 DEF StillOwes, At
        <4>4. \A t \in Staff : session'[t].amount = j.amount  BY <2>4, <2>5
        <4> QED  BY <4>2, <4>3, <4>4 DEF BooksKept
      <3>3. CASE d # c
        <4>1. row'[d] = row[d]  BY <1>0, <1>3, <3>3 DEF Write
        <4>2. \A t \in Staff : ~StillOwes(t, d)'  BY <2>4, <2>5, <3>3 DEF StillOwes, At
        <4>3. Balances(d)'  BY <1>3, <3>1, <4>1 DEF Balances
        <4> QED  BY <4>2, <4>3 DEF BooksKept
      <3> QED  BY <3>2, <3>3
    <2>7. AllKept => AllKept'  BY <1>1, <2>6, KeptIsBalanced DEF AllKept
    <2> QED  BY <1>4, <2>3, <2>7 DEF Keeping
  <1> QED  BY <1>5, <1>6

LEMMA RefundKeeps ==
    ASSUME OneAtATime, TypeOK, NEW s \in Staff, RecordRefund(s)
    PROVE  Keeping
  <1> DEFINE j == session[s]
             c == j.cust
  <1>0. /\ TablesTyped /\ row \in [Customers -> Row] /\ session \in [Staff -> Job]
        /\ collected \in [Customers -> Int] /\ used \in [Customers -> Int]
    BY DEF TypeOK, TablesTyped
  <1>1. c \in Customers /\ j.amount \in Nat /\ j.op = "refund"
    BY <1>0, JobTypes DEF RecordRefund, At, RefundJob
  <1>2. /\ session' = [session EXCEPT ![s] = Idle] /\ UNCHANGED <<row, used>>
        /\ collected' = [collected EXCEPT ![c] = @ + (-j.amount)]
    BY DEF RecordRefund, Record, Finish
  <1>3. RenewalMoved => RenewalMoved'  BY <1>0, MovedStays DEF RecordRefund, Record
  <1>4. CopyFits(Idle, row', receipts') /\ Idle.op # "refund"
    BY DEF CopyFits, Saving, Batches, Idle
  <1>5. CopiesFit'  BY <1>0, <1>2, <1>4, OneCopy
  <1>6. ASSUME AllKept, NEW d \in Customers PROVE Balances(d)'
    <2>1. BooksKept(d) /\ collected[d] \in Int /\ row[d].balance \in Int /\ used[d] \in Int
      BY <1>0, <1>6 DEF AllKept, Row
    <2>2. CASE d = c
      <3>1. StillOwes(s, d)  BY <1>1, <2>2 DEF StillOwes, At
      <3>2. collected[d] + row[d].balance - j.amount = used[d]  BY <2>1, <3>1 DEF BooksKept
      <3>3. collected'[d] = collected[d] - j.amount  BY <1>0, <1>1, <1>2, <2>2
      <3> QED  BY <1>1, <1>2, <2>1, <3>2, <3>3 DEF Balances
    <2>3. CASE d # c
      <3>1. \A t \in Staff : ~StillOwes(t, d)  BY <2>3 DEF OneAtATime, StillOwes
      <3>2. collected'[d] = collected[d]  BY <1>0, <1>2, <2>3
      <3> QED  BY <1>2, <2>1, <3>1, <3>2 DEF BooksKept, Balances
    <2> QED  BY <2>2, <2>3
  <1>7. AllKept => Balanced'  BY <1>6 DEF Balanced
  <1>8. AllKept => AllKept'  BY <1>0, <1>2, <1>4, <1>7, KeptNext
  <1> QED  BY <1>3, <1>5, <1>8 DEF Keeping

\* A transfer moves the amount in both books, or it moves a renewal's row, after
\* which the books are not claimed any more.
LEMMA TransferKeeps ==
    ASSUME OneAtATime, TypeOK, CopiesFit, NEW s \in Staff, CommitTransfer(s)
    PROVE  Keeping
  <1> DEFINE j     == session[s]
             amt   == j.seen.amount
             wrong == j.seen.cust
             good  == Credited(row[j.cust], amt)
             bad   == Debited(row[wrong], amt)
             moved == [j.seen EXCEPT !.cust = j.cust, !.expires = good.expires, !.moves = @ + 1]
             away  == [j.seen EXCEPT !.cust = j.cust]
  <1>0. /\ TablesTyped /\ row \in [Customers -> Row] /\ receipts \in Seq(Receipt)
        /\ session \in [Staff -> Job]
        /\ collected \in [Customers -> Int] /\ used \in [Customers -> Int]
    BY DEF TypeOK, TablesTyped
  <1>1. j \in TransferJob /\ j.op = "transfer"  BY <1>0, JobTypes DEF CommitTransfer, At
  <1>2. j.cust \in Customers /\ j.seen \in Receipt  BY <1>1 DEF TransferJob
  <1>3. /\ amt \in Int /\ wrong \in Customers /\ j.seen.cash \in BOOLEAN /\ j.seen.moves \in Nat
    BY <1>2 DEF Receipt
  <1>4. /\ j.id \in DOMAIN receipts /\ receipts[j.id] = j.seen /\ wrong # j.cust
    BY <1>1 DEF TypeOK, JobsSound, SoundJob, CopiesFit, CopyFits
  <1>5. /\ row' = [row EXCEPT ![wrong] = bad, ![j.cust] = good]
        /\ receipts' = [receipts EXCEPT ![j.id] = moved]
        /\ Recount(j.seen, away) /\ UNCHANGED used /\ Finish(s)
    BY <1>4 DEF CommitTransfer
  <1>6. bad.balance = row[wrong].balance + amt  BY <1>0, <1>3, DebitedOwes
  <1>7. good.balance = row[j.cust].balance - amt
    BY <1>0, <1>2, <1>3 DEF Credited, Row
  <1>8. /\ away.amount = amt /\ away.cash = j.seen.cash /\ away.cust = j.cust
        /\ moved.cash = j.seen.cash /\ moved.moves = j.seen.moves + 1
    BY <1>2 DEF Receipt
  <1> HIDE DEF amt, wrong, good, bad, moved, away, j
  <1>9. DOMAIN receipts' = DOMAIN receipts /\ receipts'[j.id] = moved
    BY <1>0, <1>4, <1>5
  <1>10. RenewalMoved => RenewalMoved'
    <2> SUFFICES ASSUME NEW k \in DOMAIN receipts, ~receipts[k].cash, receipts[k].moves > 0
                 PROVE  ~receipts'[k].cash /\ receipts'[k].moves > 0
      BY <1>9 DEF RenewalMoved
    <2>1. CASE k = j.id  BY <1>3, <1>4, <1>8, <1>9, <2>1
    <2>2. CASE k # j.id
      <3>1. receipts'[k] = receipts[k]  BY <1>0, <1>5, <2>2
      <3> QED  BY <3>1
    <2> QED  BY <2>1, <2>2
  <1>11. CASE ~j.seen.cash
    <2>1. ~moved.cash /\ moved.moves > 0  BY <1>3, <1>8, <1>11
    <2>2. RenewalMoved'  BY <1>4, <1>9, <2>1 DEF RenewalMoved
    <2>3. j.op # "refund"  BY <1>1
    <2> QED  BY <1>5, <2>2, <2>3, FinishKeeps DEF j
  <1>12. CASE j.seen.cash
    <2>1. ASSUME Balanced, NEW d \in Customers PROVE Balances(d)'
      <3>1. /\ collected[d] + row[d].balance = used[d] /\ used'[d] = used[d]
            /\ collected[d] \in Int /\ row[d].balance \in Int /\ used[d] \in Int
        BY <1>0, <1>5, <2>1 DEF Balanced, Balances, Row
      <3>2. collected'[d] = collected[d] - (IF wrong = d THEN amt ELSE 0)
                                         + (IF j.cust = d THEN amt ELSE 0)
        BY <1>5, <1>8, <1>12 DEF Recount, CashOf, amt, wrong
      <3>3. CASE d = wrong
        <4>1. row'[d] = bad  BY <1>0, <1>3, <1>4, <1>5, <3>3
        <4> QED  BY <1>3, <1>4, <1>6, <3>1, <3>2, <3>3, <4>1 DEF Balances
      <3>4. CASE d = j.cust
        <4>1. row'[d] = good  BY <1>0, <1>2, <1>5, <3>4
        <4> QED  BY <1>3, <1>4, <1>7, <3>1, <3>2, <3>4, <4>1 DEF Balances
      <3>5. CASE d # wrong /\ d # j.cust
        <4>1. row'[d] = row[d]  BY <1>0, <1>5, <3>5
        <4> QED  BY <3>1, <3>2, <3>5, <4>1 DEF Balances
      <3> QED  BY <3>3, <3>4, <3>5
    <2>2. Balanced => Balanced'  BY <2>1 DEF Balanced
    <2>3. j.op # "refund"  BY <1>1
    <2> QED  BY <1>5, <1>10, <2>2, <2>3, FinishKeeps DEF j
  <1> QED  BY <1>11, <1>12

LEMMA CommitKeeps ==
    ASSUME OneAtATime, NothingTyped, TypeOK, OnlyBegun, CopiesFit, NEW s \in Staff, Commit(s)
    PROVE  Keeping
  <1>1. ~CommitEditPayment(s) /\ ~CommitEditBalance(s)
    BY DEF CommitEditPayment, CommitEditBalance, OnlyBegun, Begun, At, NothingTyped
  <1>2. ~AbortTransfer(s)  BY DEF AbortTransfer, OneAtATime
  <1> QED
    BY <1>1, <1>2, PaymentsKeep, SavesKeep, RollbackKeeps, RefundKeeps, TransferKeeps DEF Commit

\* The loops of the batches: the copies of all the rows go along with the rows.
LEMMA AdvanceKeeps ==
    ASSUME OneAtATime, TypeOK, CopiesFit, NEW s \in Staff, NEW c, session[s] \in BatchJob,
           Advance(s, c), \A d \in Customers : row'[d].balance = row[d].balance,
           UNCHANGED <<collected, used>>, RenewalMoved => RenewalMoved'
    PROVE  Keeping
  <1> DEFINE j    == session[s]
             rest == [j EXCEPT !.todo = j.todo \ {c}, !.owed = {}]
             next == IF j.todo = {c} /\ j.op # "suspend" THEN Idle ELSE rest
  <1>1. /\ rest.op \in Batches /\ j.op \in Batches
        /\ \A d \in Customers : rest.rows[d] = j.rows[d]
    BY DEF BatchJob, Batches
  <1>2. \A d \in Customers : j.rows[d].balance = row[d].balance
    BY <1>1 DEF CopiesFit, CopyFits
  <1>3. session' = [session EXCEPT ![s] = next]  BY DEF Advance
  <1>4. CopyFits(Idle, row', receipts') /\ Idle.op # "refund"
    BY DEF CopyFits, Saving, Batches, Idle
  <1> HIDE DEF rest
  <1>5. CopyFits(rest, row', receipts') /\ rest.op # "refund" /\ j.op # "refund"
    BY <1>1, <1>2 DEF CopyFits, Saving, Batches
  <1>6. CopyFits(next, row', receipts') /\ next.op # "refund"  BY <1>4, <1>5
  <1>7. Balanced => Balanced'  BY SameBooks
  <1> HIDE DEF next
  <1> QED  BY <1>3, <1>5, <1>6, <1>7, KeepsBooks

LEMMA RenewsKeep ==
    ASSUME OneAtATime, TypeOK, CopiesFit, NEW s \in Staff, NEW c \in Customers,
           session[s] \in BatchJob, Renews(s, c), UNCHANGED <<receipts, collected>>,
           row'[c].balance = Renewed(session[s].rows[c]).balance,
           \A d \in Customers \ {c} : row'[d] = row[d]
    PROVE  Keeping
  <1> DEFINE j    == session[s]
             r    == j.rows[c]
             rows == [j.rows EXCEPT ![c] = Renewed(@)]
             next == [j EXCEPT !.rows = rows, !.owed = {c}]
  <1>0. /\ TablesTyped /\ row \in [Customers -> Row] /\ used \in [Customers -> Int]
        /\ collected \in [Customers -> Int]
    BY DEF TypeOK, TablesTyped
  <1>1. /\ next.op \in Batches /\ j.op \in Batches /\ next.rows = rows
        /\ j.rows \in [Customers -> Row]
    BY DEF BatchJob, Batches
  <1>2. \A d \in Customers : j.rows[d].balance = row[d].balance
    BY <1>1 DEF CopiesFit, CopyFits
  <1>3. rows[c] = Renewed(r) /\ \A d \in Customers \ {c} : rows[d] = j.rows[d]
    BY <1>1
  <1>4. r \in Row /\ Price[r.plan] \in Nat /\ r.balance = row[c].balance
    BY <1>1, <1>2, PlanAssumption DEF Row
  <1>5. Renewed(r).balance = r.balance + Price[r.plan]  BY <1>4 DEF Renewed, Row
  <1>6. /\ session' = [session EXCEPT ![s] = next]
        /\ used' = [used EXCEPT ![c] = @ + Price[r.plan]]
    BY DEF Renews
  <1> HIDE DEF next, rows, r
  <1>7. \A d \in Customers : next.rows[d].balance = row'[d].balance
    BY <1>1, <1>2, <1>3 DEF r
  <1>8. CopyFits(next, row', receipts') /\ next.op # "refund" /\ j.op # "refund"
    BY <1>1, <1>7 DEF CopyFits, Saving, Batches
  <1>9. ASSUME Balanced, NEW d \in Customers PROVE Balances(d)'
    <2>1. /\ collected[d] + row[d].balance = used[d]
          /\ collected[d] \in Int /\ row[d].balance \in Int /\ used[d] \in Int
      BY <1>0, <1>9 DEF Balanced, Balances, Row
    <2>2. CASE d = c
      <3>1. used'[d] = used[d] + Price[r.plan]  BY <1>0, <1>6, <2>2
      <3>2. row'[d].balance = row[d].balance + Price[r.plan]  BY <1>4, <1>5, <2>2 DEF r
      <3> QED  BY <1>4, <2>1, <3>1, <3>2 DEF Balances
    <2>3. CASE d # c  BY <1>0, <1>6, <2>1, <2>3 DEF Balances
    <2> QED  BY <2>2, <2>3
  <1>10. Balanced => Balanced'  BY <1>9 DEF Balanced
  <1>11. RenewalMoved => RenewalMoved'  BY <1>0, MovedStays
  <1> QED  BY <1>6, <1>8, <1>10, <1>11, KeepsBooks

LEMMA BatchKeeps ==
    ASSUME OneAtATime, TypeOK, CopiesFit, NEW s \in Staff, Batch(s)
    PROVE  Keeping
  <1> DEFINE j == session[s]
  <1>0. TablesTyped /\ row \in [Customers -> Row]  BY DEF TypeOK, TablesTyped
  <1>1. CASE OpenSweep(s)
    <2> DEFINE new == [op |-> "sweep", rows |-> row, todo |-> PastDue, owed |-> {}]
    <2>1. CopyFits(new, row, receipts) /\ new.op # "refund"
      BY DEF CopyFits, Saving, Batches
    <2> HIDE DEF new
    <2>2. Opens(s)  BY <1>1, <2>1 DEF OpenSweep, Begin, Opens, new
    <2> QED  BY <2>2, OpensKeep
  <1>2. CASE OpenSuspend(s)
    <2> DEFINE new == [op |-> "suspend", rows |-> row, todo |-> PastDue, owed |-> {}]
    <2>1. CopyFits(new, row, receipts) /\ new.op # "refund"
      BY DEF CopyFits, Saving, Batches
    <2> HIDE DEF new
    <2>2. Opens(s)  BY <1>2, <2>1 DEF OpenSuspend, Begin, Opens, new
    <2> QED  BY <2>2, OpensKeep
  <1>3. CASE OpenRogue(s)
    <2> DEFINE bad == {c \in Rogue : row[c].status = "active"}
               new == IF bad = {} THEN Idle
                      ELSE [op |-> "rogue", rows |-> row, todo |-> bad, owed |-> {}]
    <2>1. /\ session' = [session EXCEPT ![s] = new] /\ UNCHANGED Table
          /\ j.op # "refund"
      BY <1>3 DEF OpenRogue, At
    <2>2. CopyFits(new, row, receipts) /\ new.op # "refund"
      BY DEF CopyFits, Saving, Batches, Idle
    <2> HIDE DEF new
    <2>3. CopyFits(new, row', receipts')  BY <2>1, <2>2 DEF Table
    <2>4. Balanced => Balanced'  BY <2>1, SameBooks DEF Table
    <2>5. RenewalMoved => RenewalMoved'  BY <1>0, <2>1, MovedStays DEF Table
    <2> QED  BY <2>1, <2>2, <2>3, <2>4, <2>5, KeepsBooks
  <1>4. ASSUME NEW c \in Customers,
               \/ SweepCustomer(s, c) \/ SuspendCustomer(s, c) \/ SuspendRogue(s, c)
               \/ RecordRenewal(s, c)
        PROVE  Keeping
    <2> DEFINE r == j.rows[c]
    <2>0. j \in BatchJob
      BY <1>0, <1>4, JobTypes
      DEF SweepCustomer, SuspendCustomer, SuspendRogue, Reached, RecordRenewal
    <2>1. r \in Row /\ r.balance = row[c].balance
      BY <2>0 DEF BatchJob, CopiesFit, CopyFits, Batches
    <2>2. RenewalMoved => RenewalMoved'
      BY <1>0, <1>4, MovedStays
      DEF SweepCustomer, SuspendCustomer, SuspendRogue, RecordRenewal
    <2>3. CASE Renews(s, c) /\ ~RecordRenewal(s, c) /\ ~SuspendRogue(s, c)
               /\ ~Advance(s, c)
      <3> DEFINE new == Renewed(r)
      <3>1. /\ UNCHANGED <<receipts, collected>>
            /\ \/ row' = [row EXCEPT ![c].expires = new.expires, ![c].balance = new.balance]
               \/ Write(c, new)
        BY <1>4, <2>3 DEF SweepCustomer, SuspendCustomer
      <3> HIDE DEF new
      <3>2. row'[c].balance = new.balance /\ \A d \in Customers \ {c} : row'[d] = row[d]
        BY <1>0, <3>1 DEF Write, Row
      <3> QED  BY <2>0, <2>3, <3>1, <3>2, RenewsKeep DEF new
    <2>4. CASE Advance(s, c)
      <3> DEFINE cut == [r EXCEPT !.status = "suspended"]
      <3>1. cut \in Row /\ cut.balance = r.balance  BY <2>1 DEF Row, Statuses
      <3>2. Saved(cut).balance = row[c].balance  BY <2>1, <3>1, SavedOwes
      <3> HIDE DEF cut
      <3>3. CASE UNCHANGED <<row, collected, used>>
        BY <2>0, <2>2, <2>4, <3>3, AdvanceKeeps
      <3>4. CASE Write(c, Saved(cut)) /\ UNCHANGED <<collected, used>>
        <4>1. \A d \in Customers : row'[d].balance = row[d].balance
          BY <1>0, <3>2, <3>4 DEF Write
        <4> QED  BY <2>0, <2>2, <2>4, <3>4, <4>1, AdvanceKeeps
      <3>5. CASE Renews(s, c)
        <4> DEFINE rest == [j EXCEPT !.todo = j.todo \ {c}, !.owed = {}]
                   next == [j EXCEPT !.rows = [j.rows EXCEPT ![c] = Renewed(@)], !.owed = {c}]
        <4>1. next.owed = {c} /\ rest.owed = {} /\ next # Idle
          BY <2>0 DEF BatchJob, Idle
        <4>2. session'[s] = next  BY <1>0, <3>5 DEF Renews, TablesTyped
        <4>3. session'[s] \in {Idle, rest}  BY <1>0, <2>4 DEF Advance, TablesTyped
        <4> HIDE DEF next, rest
        <4> QED  BY <4>1, <4>2, <4>3
      <3> QED
        BY <1>4, <3>3, <3>4, <3>5
        DEF SweepCustomer, SuspendCustomer, SuspendRogue, RecordRenewal, cut
    <2> QED
      BY <1>4, <2>3, <2>4 DEF SweepCustomer, SuspendCustomer, SuspendRogue, RecordRenewal
  <1> QED  BY <1>1, <1>2, <1>3, <1>4 DEF Batch

\* The Force buttons write no column that the books count, nor does the clock.
LEMMA StandingKeeps ==
    ASSUME TablesTyped, CopiesFit,
           session' = session, receipts' = receipts, UNCHANGED <<collected, used>>,
           \A c \in Customers : row'[c].balance = row[c].balance
    PROVE  Keeping
  <1>1. ASSUME NEW s \in Staff, CopyFits(session[s], row, receipts)
        PROVE  CopyFits(session'[s], row', receipts')
    <2>1. session[s].op \in Saving => session[s].cust \in Customers
      BY JobTypes DEF At, Saving, RebateJob, RollbackJob, EditExpirationJob
    <2> QED  BY <1>1, <2>1 DEF CopyFits
  <1>2. CopiesFit'  BY <1>1 DEF CopiesFit
  <1>3. RenewalMoved => RenewalMoved'  BY DEF RenewalMoved
  <1>4. AllKept => AllKept'  BY DEF AllKept, BooksKept, StillOwes, Balances, At
  <1> QED  BY <1>2, <1>3, <1>4 DEF Keeping

LEMMA BooksStep ==
    ASSUME OneAtATime, NothingTyped
    PROVE  TypeOK /\ OnlyBegun /\ CopiesFit /\ (RenewalMoved \/ AllKept) /\ [Next]_vars
             => CopiesFit' /\ (RenewalMoved \/ AllKept)'
  <1> SUFFICES ASSUME TypeOK, OnlyBegun, CopiesFit, RenewalMoved \/ AllKept, [Next]_vars
               PROVE  Keeping
    BY DEF Keeping
  <1>0. TablesTyped /\ row \in [Customers -> Row]  BY DEF TypeOK, TablesTyped
  <1>1. ASSUME NEW s \in Staff, NEW c \in Customers, Request(s, c) PROVE Keeping
    BY <1>1, RequestOpens, OpensKeep
  <1>2. ASSUME NEW s \in Staff, NEW k, NEW a, OpenEditPayment(s, k, a) PROVE FALSE
    BY <1>2 DEF OpenEditPayment, Begin, NothingTyped
  <1>3. ASSUME NEW s \in Staff, Commit(s) PROVE Keeping  BY <1>3, CommitKeeps
  <1>4. ASSUME NEW s \in Staff, Batch(s) PROVE Keeping  BY <1>4, BatchKeeps
  <1>5. ASSUME NEW c \in Customers, ForceSuspend(c) \/ ForceReactivate(c) PROVE Keeping
    <2>1. \A d \in Customers : row'[d].balance = row[d].balance
      BY <1>0, <1>5 DEF ForceSuspend, ForceReactivate, Row
    <2> QED  BY <1>0, <1>5, <2>1, StandingKeeps DEF ForceSuspend, ForceReactivate
  <1>6. CASE NextDay \/ AtRest \/ UNCHANGED vars
    BY <1>0, <1>6, StandingKeeps DEF NextDay, AtRest, vars
  <1> QED  BY <1>1, <1>2, <1>3, <1>4, <1>5, <1>6 DEF Next

\* With one request or batch at a time, and the Force buttons pressed in between,
\* no handler loses or doubles an amount: payments, rebates, rollbacks, transfers,
\* typed due dates, the sweep and the suspension task, in any order, over any
\* number of customers and on any plans and prices.  Left out are the two handlers
\* in which somebody types the amount itself, a balance or a Payment row.
THEOREM ReconcilesAlone ==
    ASSUME OneAtATime, NothingTyped
    PROVE  Spec => []Reconciles
  <1>1. Init => CopiesFit /\ AllKept
    <2> SUFFICES ASSUME Init PROVE CopiesFit /\ AllKept  OBVIOUS
    <2>1. CopiesFit  BY DEF Init, Idle, CopiesFit, CopyFits, Saving, Batches
    <2>2. \A c \in Customers : row[c].balance \in Int
      BY RequestAssumption DEF Init, Row
    <2>3. \A c \in Customers : Balances(c)  BY <2>2 DEF Init, Balances
    <2>4. \A s \in Staff, c \in Customers : ~StillOwes(s, c)
      BY DEF Init, StillOwes, At, Idle
    <2> QED  BY <2>1, <2>3, <2>4 DEF AllKept, BooksKept
  <1>2. TypeOK /\ OnlyBegun /\ CopiesFit /\ (RenewalMoved \/ AllKept) /\ [Next]_vars
          => CopiesFit' /\ (RenewalMoved \/ AllKept)'
    BY BooksStep
  <1>3. RenewalMoved \/ AllKept => Reconciles
    BY DEF AllKept, BooksKept, StillOwes, Reconciles, Refunding
  <1> QED  BY <1>1, <1>2, <1>3, TypeCorrect, AlwaysBegun, PTL DEF Spec
-----------------------------------------------------------------------------
(* Access: the shape of its state *)

EditJob   == [h : {"edit"}, key : Ids, pk : Ids, row : Mirror]
VisitJob == [h : {"change", "page"}, c : Subscribers]
ListJob   == [h : {"enter", "logout"}, c : Subscribers, list : [Subscribers -> Nat]]
PollJob   == [h : {"poll"}, list : [Subscribers -> Nat]]
DeskJob   == [h : {"desk"}, c : Subscribers, row : Account]
BulkJob   == [h : {"bulk"}, left : SUBSET Subscribers, rows : [Subscribers -> 0 .. MaxPasswords]]
Jobs      == EditJob \cup VisitJob \cup ListJob \cup PollJob \cup DeskJob \cup BulkJob \cup {NoJob}

StaffTyped ==
    /\ login \in [Ids -> Login \cup {Gone}] /\ mirror \in [Ids -> Mirror \cup {Gone}]
    /\ role \in [Roles -> Role \cup {Gone}] /\ DOMAIN group = Roles
    /\ agent \in [Agents -> Ids \cup {NoUser, NoAgent}] /\ crewman \subseteq Ids
    /\ answer \in {"done", "failed"}
\* The login of an agent is a row of its table.
KeysHold == \A a \in Agents : agent[a] \in Ids => login[agent[a]] # Gone
PortalTyped ==
    /\ account \in [Subscribers -> Account]
    /\ told \in [Subscribers -> [pw : 0 .. MaxPasswords, own : BOOLEAN, age : 0 .. Life + 1]]
    /\ issued \in 0 .. MaxPasswords
DoorTyped ==
    /\ tries \in [Ips \X Subscribers -> [n : Nat, left : Nat]]
    /\ lock \in [Subscribers -> Nat]
    /\ posts \in [Ips -> [n : Nat, left : Nat]]
LineTyped ==
    /\ signedIn \in [Devices -> Subscribers \cup {"nobody"}]
    /\ seen \in [Subscribers -> Nat] /\ online \in [Subscribers -> Nat]
AccessTypeOK ==
    /\ StaffTyped /\ KeysHold /\ PortalTyped /\ DoorTyped /\ LineTyped
    /\ job \in [Threads -> Jobs] /\ duty \in Duties

LEMMA RolesThere ==
    /\ {"Admin", "CSR", "Agent", "Technician"} \subseteq Roles
    /\ Ids \subseteq Nat \ {0} /\ Offered \cup Edited \subseteq Roles
  BY AccessAssumption DEF Matrix

LEMMA RowsAreNotGone ==
    /\ \A u \in Login : u # Gone
    /\ \A r \in Mirror : r # Gone
    /\ \A p \in Role : p # Gone
  BY DEF Login, Mirror, Role, Gone

LEMMA JobsHaveNames ==
    \A j \in Jobs :
        /\ j # NoJob <=> j.h # "idle"
        /\ j.h = "edit" <=> j \in EditJob
        /\ j.h = "desk" <=> j \in DeskJob
        /\ j.h = "bulk" <=> j \in BulkJob
        /\ j.h \in {"change", "page"} <=> j \in VisitJob
        /\ j.h \in {"enter", "logout"} <=> j \in ListJob
        /\ j.h = "poll" <=> j \in PollJob
  BY DEF Jobs, EditJob, VisitJob, ListJob, PollJob, DeskJob, BulkJob, NoJob

\* The two ways of picking a row pick one, when there is one.
LEMMA TheOnePicked ==
    ASSUME NEW S, S \subseteq Ids
    PROVE  /\ S # {} => TheOne(S) \in S
           /\ TheOne(S) = Nobody <=> S = {}
  BY AccessAssumption DEF TheOne, Nobody

LEMMA LeastNumber ==
    ASSUME NEW S, S \subseteq Nat, IsFiniteSet(S), S # {}
    PROVE  \E i \in S : \A k \in S : i <= k
  <1> DEFINE Below(i) == {j \in S : j <= i}
  <1>1. PICK T : T = {Below(i) : i \in S}  OBVIOUS
  <1>2. T \subseteq SUBSET S /\ T # {}  BY <1>1
  <1>3. PICK u \in T : \A v \in T : v \subseteq u => v = u
    BY ONLY IsFiniteSet(S), <1>2, LeastSubset
  <1>4. PICK i \in S : u = Below(i)  BY <1>1
  <1>5. ASSUME NEW k \in S, ~(i <= k) PROVE FALSE
    <2>1. Below(k) \in T  BY <1>1
    <2>2. i \in Nat /\ k \in Nat  OBVIOUS
    <2>3. Below(k) \subseteq Below(i)
      <3> SUFFICES ASSUME NEW j \in Below(k) PROVE j \in Below(i)  OBVIOUS
      <3>1. j \in S /\ j \in Nat /\ j <= k  OBVIOUS
      <3> QED  BY <1>5, <2>2, <3>1
    <2>4. Below(k) = u  BY <1>3, <1>4, <2>1, <2>3
    <2>5. i \in Below(i) /\ i \notin Below(k)  BY <1>5, <2>2
    <2> QED  BY <1>4, <2>4, <2>5
  <1> QED  BY <1>5

LEMMA FirstPicked ==
    ASSUME NEW table, FreeIds(table) # {}
    PROVE  FirstFree(table) \in FreeIds(table)
  <1>1. FreeIds(table) \subseteq Nat /\ IsFiniteSet(FreeIds(table))
    BY AccessAssumption, FS_Subset DEF FreeIds
  <1>2. \E i \in FreeIds(table) : \A k \in FreeIds(table) : i <= k  BY <1>1, LeastNumber
  <1> QED  BY <1>2 DEF FirstFree

LEMMA SyncedTyped ==
    ASSUME NEW table \in [Ids -> Mirror \cup {Gone}], NEW u \in Login
    PROVE  Synced(table, u) \in [Ids -> Mirror \cup {Gone}]
  <1>1. [name |-> u.name, role |-> "Admin", status |-> StatusOf(u.active)] \in Mirror
    BY RolesThere DEF Login, Mirror, StatusOf
  <1> HIDE DEF Mirror
  <1> QED  BY <1>1 DEF Synced

LEMMA FromFormTyped ==
    ASSUME NEW open \in BOOLEAN, NEW tabs \in SUBSET Tabs, NEW acts \in SUBSET Acts,
           NEW others \in BOOLEAN, NEW prior \in (SUBSET Acts) \cup {Ungranted}
    PROVE  FromForm(open, tabs, acts, others, prior) \in Role
  BY DEF FromForm, Role

LEMMA StaffListTyped ==
    ASSUME AccessTypeOK, StaffList  PROVE  StaffTyped' /\ job' = job
  <1> DEFINE shown == {i \in Rows(login) : login[i].staff \/ login[i].super}
             new   == {i \in shown : Called(mirror, login[i].name) = {}}
             fresh(u) == [name |-> u.name, status |-> StatusOf(u.active),
                          role |-> IF u.super THEN "Admin" ELSE "Viewer"]
  <1>1. PICK at \in [new -> FreeIds(mirror)] :
           mirror' = [m \in Ids |->
                    IF \E i \in new : at[i] = m
                    THEN fresh(login[CHOOSE i \in new : at[i] = m])
                    ELSE IF mirror[m] # Gone /\ (\E i \in shown : login[i].super
                                                   /\ login[i].name = mirror[m].name)
                    THEN [mirror[m] EXCEPT !.role = "Admin"] ELSE mirror[m]]
    BY DEF StaffList
  <1>2. \A u \in Login : fresh(u) \in Mirror
    BY RolesThere DEF Login, Mirror, StatusOf
  <1>3. \A r \in Mirror : [r EXCEPT !.role = "Admin"] \in Mirror
    BY RolesThere DEF Mirror
  <1>4. login \in [Ids -> Login \cup {Gone}] /\ mirror \in [Ids -> Mirror \cup {Gone}]
    BY DEF AccessTypeOK, StaffTyped
  <1>5. \A i \in new : login[i] \in Login  BY <1>4 DEF Rows
  <1> HIDE DEF fresh
  <1>6. ASSUME NEW m \in Ids, \E i \in new : at[i] = m
        PROVE  mirror'[m] \in Mirror
    <2>1. (CHOOSE i \in new : at[i] = m) \in new  BY <1>6
    <2> HIDE DEF new
    <2> QED  BY <1>1, <1>2, <1>5, <1>6, <2>1
  <1>7. ASSUME NEW m \in Ids, ~(\E i \in new : at[i] = m)
        PROVE  mirror'[m] \in Mirror \cup {Gone}
    <2> HIDE DEF new, shown
    <2> QED  BY <1>1, <1>3, <1>4, <1>7
  <1>8. DOMAIN mirror' = Ids /\ mirror' = [m \in Ids |-> mirror'[m]]  BY <1>1
  <1>9. mirror' \in [Ids -> Mirror \cup {Gone}]  BY <1>6, <1>7, <1>8
  <1> QED  BY <1>9 DEF StaffList, AccessTypeOK, StaffTyped

LEMMA AddStaffTyped ==
    ASSUME AccessTypeOK, NEW n \in Names, NEW r \in Offered, NEW active \in BOOLEAN,
           AddStaff(n, r, active)
    PROVE  StaffTyped' /\ job' = job
  <1> DEFINE u == [name |-> n, staff |-> TRUE, super |-> r = "Admin", active |-> active,
                   groups |-> {r}]
             got == [name |-> n, role |-> r, status |-> StatusOf(active)]
  <1>1. u \in Login /\ got \in Mirror /\ r \in Roles
    BY RolesThere DEF Login, Mirror, StatusOf
  <1>2. \/ UNCHANGED <<login, mirror, group>>
        \/ /\ login' = [login EXCEPT ![FirstFree(login)] = u]
           /\ mirror' = [mirror EXCEPT ![FirstFree(mirror)] = got]
           /\ group' = [group EXCEPT ![r] = IF @ = NoGroup THEN {} ELSE @]
    BY DEF AddStaff
  <1>3. answer' \in {"done", "failed"} /\ UNCHANGED <<role, agent, crewman, job>>
    BY DEF AddStaff
  <1> HIDE DEF u, got
  <1> QED  BY <1>1, <1>2, <1>3 DEF AccessTypeOK, StaffTyped

LEMMA OpenEditTyped ==
    ASSUME AccessTypeOK, NEW t \in Threads, NEW k \in Ids, OpenEdit(t, k)
    PROVE  StaffTyped' /\ job' \in [Threads -> Jobs]
  <1> DEFINE m   == TheOne(Called(mirror, login[k].name))
             new == [name |-> login[k].name, status |-> StatusOf(login[k].active),
                     role |-> IF login[k].super THEN "Admin" ELSE "Standard"]
             pk  == IF m = Nobody THEN FirstFree(mirror) ELSE m
             got == IF m = Nobody THEN new ELSE mirror[m]
             job1(p, r) == [h |-> "edit", key |-> k, pk |-> p, row |-> r]
  <1>1. login \in [Ids -> Login \cup {Gone}] /\ mirror \in [Ids -> Mirror \cup {Gone}]
        /\ job \in [Threads -> Jobs]
    BY DEF AccessTypeOK, StaffTyped
  <1>2. \A p \in Ids, r \in Mirror : job1(p, r) \in Jobs
    BY DEF Jobs, EditJob
  <1> HIDE DEF job1
  <1>3. CASE mirror[k] # Gone
    <2>1. job' = [job EXCEPT ![t] = job1(k, mirror[k])] /\ mirror' = mirror
      BY <1>3 DEF OpenEdit, job1
    <2>2. mirror[k] \in Mirror  BY <1>1, <1>3
    <2>3. job' \in [Threads -> Jobs]  BY <1>1, <1>2, <2>1, <2>2
    <2> QED  BY <2>1, <2>3 DEF OpenEdit, AccessTypeOK, StaffTyped
  <1>4. CASE mirror[k] = Gone
    <2>1. login[k] # Gone /\ mirror' = [mirror EXCEPT ![pk] = got]
          /\ job' = [job EXCEPT ![t] = job1(pk, got)]
      BY <1>4 DEF OpenEdit, job1
    <2>2. login[k] \in Login  BY <1>1, <2>1
    <2>3. new \in Mirror  BY <2>2, RolesThere DEF Login, Mirror, StatusOf
    <2>4. m # Nobody => m \in Ids /\ mirror[m] \in Mirror
      <3>1. Called(mirror, login[k].name) \subseteq Ids  BY DEF Called, Rows
      <3>2. m # Nobody => m \in Called(mirror, login[k].name)  BY <3>1, TheOnePicked
      <3> QED  BY <1>1, <3>2 DEF Called, Rows
    <2>5. FirstFree(mirror) \in Ids
      BY <1>4, FirstPicked DEF FreeIds, Rows
    <2> HIDE DEF m, new
    <2>6. pk \in Ids /\ got \in Mirror  BY <2>3, <2>4, <2>5
    <2> HIDE DEF pk, got
    <2>7. job' \in [Threads -> Jobs]  BY <1>1, <1>2, <2>1, <2>6
    <2>8. mirror' \in [Ids -> Mirror \cup {Gone}]  BY <1>1, <2>1, <2>6
    <2> QED  BY <2>7, <2>8 DEF OpenEdit, AccessTypeOK, StaffTyped
  <1> QED  BY <1>3, <1>4

\* What the two steps that look a login up by the name of a row have found.
LEMMA TheOneCalled ==
    ASSUME NEW table, NEW n
    PROVE  /\ TheOne(Called(table, n)) = Nobody <=> Called(table, n) = {}
           /\ TheOne(Called(table, n)) # Nobody =>
                /\ TheOne(Called(table, n)) \in Called(table, n)
                /\ TheOne(Called(table, n)) \in Ids
                /\ table[TheOne(Called(table, n))] # Gone
                /\ table[TheOne(Called(table, n))].name = n
  <1>1. Called(table, n) \subseteq Ids  BY DEF Called, Rows
  <1>2. \A i \in Called(table, n) : i \in Ids /\ table[i] # Gone /\ table[i].name = n
    BY DEF Called, Rows
  <1> QED  BY <1>1, <1>2, TheOnePicked

Put(f, x, v) == [f EXCEPT ![x] = v]
LEMMA PutLogin ==
    ASSUME NEW l \in [Ids -> Login \cup {Gone}], NEW x, NEW v \in Login \cup {Gone}
    PROVE  /\ Put(l, x, v) \in [Ids -> Login \cup {Gone}]
           /\ \A i \in Ids : Put(l, x, v)[i] = IF i = x THEN v ELSE l[i]
  BY DEF Put
LEMMA PutMirror ==
    ASSUME NEW m \in [Ids -> Mirror \cup {Gone}], NEW x, NEW v \in Mirror \cup {Gone}
    PROVE  /\ Put(m, x, v) \in [Ids -> Mirror \cup {Gone}]
           /\ \A i \in Ids : Put(m, x, v)[i] = IF i = x THEN v ELSE m[i]
  BY DEF Put
LEMMA StaffTypes ==
    ASSUME AccessTypeOK
    PROVE  /\ login \in [Ids -> Login \cup {Gone}] /\ mirror \in [Ids -> Mirror \cup {Gone}]
           /\ agent \in [Agents -> Ids \cup {NoUser, NoAgent}] /\ job \in [Threads -> Jobs]
           /\ DOMAIN group = Roles
  BY DEF AccessTypeOK, StaffTyped

\* The login the saved form is about.
Sought(t) == TheOne(Called(login, job[t].row.name))

\* What the form makes of that login.
SavedAs(u, t, n, r, status) ==
    /\ u.name = n /\ (u.active <=> status = "Active") /\ (u.super <=> r = "Admin")
    /\ u.staff = login[Sought(t)].staff
    /\ u.groups = GroupsAfter(login[Sought(t)], job[t].row.role, r)

LEMMA SaveEditIs ==
    ASSUME AccessTypeOK, NEW t \in Threads, NEW n \in Names, NEW r \in Offered,
           NEW status \in {"Active", "Inactive"}, SaveEdit(t, n, r, status),
           ~(login' = login /\ mirror' = mirror)
    PROVE  /\ mirror' = Put(mirror, job[t].pk, [name |-> n, role |-> r, status |-> status])
           /\ [name |-> n, role |-> r, status |-> status] \in Mirror
           /\ Called(mirror, n) \subseteq {job[t].pk}
           /\ n = job[t].row.name \/ Called(login, n) = {}
           /\ Sought(t) = Nobody => login' = login
           /\ Sought(t) # Nobody => \E u \in Login :
                login' = Put(login, Sought(t), u) /\ SavedAs(u, t, n, r, status)
  <1> DEFINE j == job[t]
             i == Sought(t)
             u == [login[i] EXCEPT !.name = n, !.active = status = "Active",
                                   !.super = r = "Admin",
                                   !.groups = GroupsAfter(login[i], j.row.role, r)]
             got == [name |-> n, role |-> r, status |-> status]
  <1>1. /\ ~(n # j.row.name /\ Called(login, n) # {})
        /\ ~(Called(mirror, n) \ {j.pk} # {})
        /\ mirror' = Put(mirror, j.pk, got)
        /\ login' = IF i = Nobody THEN login ELSE Put(login, i, u)
    BY DEF SaveEdit, Sought, Put
  <1>2. got \in Mirror /\ r \in Roles  BY RolesThere DEF Mirror
  <1>3. ASSUME i # Nobody
        PROVE  u \in Login /\ SavedAs(u, t, n, r, status)
    <2>1. i \in Ids /\ login[i] # Gone  BY <1>3, TheOneCalled DEF Sought
    <2>2. login[i] \in Login  BY <2>1 DEF AccessTypeOK, StaffTyped
    <2>3. GroupsAfter(login[i], j.row.role, r) \in SUBSET Roles
      BY <1>2, <2>2 DEF GroupsAfter, Login
    <2>4. /\ u.name = n /\ (u.active <=> status = "Active") /\ (u.super <=> r = "Admin")
          /\ u.staff = login[i].staff /\ u.groups = GroupsAfter(login[i], j.row.role, r)
      <3> HIDE DEF j, i
      <3> QED  BY <2>2 DEF Login
    <2>5. u \in Login
      <3> HIDE DEF j, i
      <3> QED  BY <2>2, <2>3 DEF Login
    <2> QED  BY <2>4, <2>5 DEF SavedAs
  <1> HIDE DEF u
  <1> QED  BY <1>1, <1>2, <1>3

LEMMA SaveEditTyped ==
    ASSUME AccessTypeOK, NEW t \in Threads, NEW n \in Names, NEW r \in Offered,
           NEW status \in {"Active", "Inactive"}, SaveEdit(t, n, r, status)
    PROVE  StaffTyped' /\ job' = [job EXCEPT ![t] = NoJob]
  <1>1. /\ answer' \in {"done", "failed"}
        /\ job' = [job EXCEPT ![t] = NoJob]
        /\ UNCHANGED <<role, group, agent, crewman>>
    BY DEF SaveEdit
  <1>2. CASE login' = login /\ mirror' = mirror  BY <1>1, <1>2 DEF AccessTypeOK, StaffTyped
  <1>3. CASE ~(login' = login /\ mirror' = mirror)
    <2>1. /\ mirror' = Put(mirror, job[t].pk, [name |-> n, role |-> r, status |-> status])
          /\ [name |-> n, role |-> r, status |-> status] \in Mirror
      BY <1>3, SaveEditIs, Zenon
    <2>2. \/ login' = login
          \/ \E u \in Login : login' = Put(login, Sought(t), u)
      BY <1>3, SaveEditIs, Zenon
    <2>3. login' \in [Ids -> Login \cup {Gone}]  BY <2>2, StaffTypes, PutLogin
    <2>4. mirror' \in [Ids -> Mirror \cup {Gone}]  BY <2>1, StaffTypes, PutMirror
    <2> QED  BY <1>1, <2>3, <2>4 DEF AccessTypeOK, StaffTyped
  <1> QED  BY <1>2, <1>3

\* m is the row of the page, if there is one, n the name of the member, and i the
\* login of that name.
IsMember(k, m, n, i) ==
    /\ i = TheOne(Called(login, n))
    /\ IF m = Nobody THEN mirror[k] = Gone /\ Called(mirror, n) = {}
                     ELSE mirror[m] # Gone /\ mirror[m].name = n
Removed(m, i) ==
    /\ agent' = [a \in Agents |-> IF agent[a] = i THEN NoAgent ELSE agent[a]]
    /\ login' = IF i = Nobody THEN login ELSE Put(login, i, Gone)
    /\ mirror' = IF m = Nobody THEN mirror ELSE Put(mirror, m, Gone)
SwitchedOff(m, n, i, u) ==
    /\ i # Nobody /\ agent' = [a \in Agents |-> agent[a]]
    /\ u.name = n /\ ~u.staff /\ ~u.active /\ (u.super <=> login[i].super)
    /\ u.groups = login[i].groups
    /\ login' = Put(login, i, u)
    /\ mirror' = IF m = Nobody THEN Synced(mirror, u) ELSE Put(Synced(mirror, u), m, Gone)

LEMMA DeleteStaffIs ==
    ASSUME AccessTypeOK, NEW k \in Ids, NEW held \in BOOLEAN, DeleteStaff(k, held)
    PROVE  \E m \in Ids \cup {Nobody} : \E n, i :
             /\ IsMember(k, m, n, i)
             /\ Removed(m, i) \/ \E u \in Login : SwitchedOff(m, n, i, u)
  <1> DEFINE m    == IF mirror[k] # Gone THEN k
                     ELSE IF login[k] # Gone THEN TheOne(Called(mirror, login[k].name)) ELSE Nobody
             name == IF m # Nobody THEN mirror[m].name ELSE login[k].name
             i    == TheOne(Called(login, name))
             off  == [login[i] EXCEPT !.staff = FALSE, !.active = FALSE]
             kept == IF i # Nobody /\ held THEN Synced(mirror, off) ELSE mirror
  <1>1. /\ mirror[k] # Gone \/ login[k] # Gone
        /\ i = Nobody => ~held
        /\ login' = IF i = Nobody THEN login ELSE [login EXCEPT ![i] = IF held THEN off ELSE Gone]
        /\ mirror' = IF m = Nobody THEN kept ELSE [kept EXCEPT ![m] = Gone]
        /\ agent' = [a \in Agents |-> IF agent[a] = i /\ ~held THEN NoAgent ELSE agent[a]]
    BY DEF DeleteStaff
  <1>2. /\ m \in Ids \cup {Nobody}
        /\ IF m = Nobody THEN mirror[k] = Gone /\ Called(mirror, name) = {}
                         ELSE mirror[m] # Gone /\ mirror[m].name = name
    <2>1. CASE mirror[k] # Gone
      <3>1. k # Nobody  BY RolesThere DEF Nobody
      <3> QED  BY <2>1, <3>1
    <2>2. CASE mirror[k] = Gone
      <3>1. login[k] # Gone  BY <1>1, <2>2
      <3> QED  BY <2>2, <3>1, TheOneCalled
    <2> QED  BY <2>1, <2>2
  <1>3. ASSUME i # Nobody
        PROVE  /\ off \in Login /\ off.name = name /\ ~off.staff /\ ~off.active
               /\ (off.super <=> login[i].super) /\ off.groups = login[i].groups
    <2>1. i \in Ids /\ login[i] # Gone /\ login[i].name = name  BY <1>3, TheOneCalled
    <2>2. login[i] \in Login  BY <2>1 DEF AccessTypeOK, StaffTyped
    <2> HIDE DEF i, m, name
    <2> QED  BY <2>1, <2>2 DEF Login
  <1>4. IsMember(k, m, name, i)  BY <1>2 DEF IsMember
  <1> HIDE DEF off, m, name, i
  <1>5. CASE held
    <2>1. kept = Synced(mirror, off)  BY <1>1, <1>5
    <2> HIDE DEF kept
    <2>2. SwitchedOff(m, name, i, off)
      BY <1>1, <1>3, <1>5, <2>1 DEF SwitchedOff, Put
    <2> QED  BY <1>1, <1>2, <1>3, <1>4, <1>5, <2>2
  <1>6. CASE ~held
    <2>1. kept = mirror  BY <1>6
    <2> HIDE DEF kept
    <2>2. Removed(m, i)  BY <1>1, <1>6, <2>1 DEF Removed, Put
    <2> QED  BY <1>2, <1>4, <2>2
  <1> QED  BY <1>5, <1>6

LEMMA DeleteStaffTyped ==
    ASSUME AccessTypeOK, NEW k \in Ids, NEW held \in BOOLEAN, DeleteStaff(k, held)
    PROVE  StaffTyped' /\ job' = job
  <1>1. /\ \E i : crewman' = crewman \ {i}
        /\ answer' = "done" /\ UNCHANGED <<role, group, job>>
    BY DEF DeleteStaff
  <1>2. PICK m \in Ids \cup {Nobody} : \E n, i :
            Removed(m, i) \/ \E u \in Login : SwitchedOff(m, n, i, u)
    BY DeleteStaffIs
  <1>m. PICK n, i : Removed(m, i) \/ \E u \in Login : SwitchedOff(m, n, i, u)  BY <1>2
  <1>3. CASE Removed(m, i)
    <2>1. login' \in [Ids -> Login \cup {Gone}] /\ mirror' \in [Ids -> Mirror \cup {Gone}]
          /\ agent' \in [Agents -> Ids \cup {NoUser, NoAgent}]
      BY <1>3, PutLogin, PutMirror, StaffTypes DEF Removed
    <2> QED  BY <1>1, <2>1 DEF AccessTypeOK, StaffTyped
  <1>4. ASSUME NEW u \in Login, SwitchedOff(m, n, i, u) PROVE StaffTyped'
    <2>1. Synced(mirror, u) \in [Ids -> Mirror \cup {Gone}]
      BY SyncedTyped DEF AccessTypeOK, StaffTyped
    <2>2. login' = Put(login, i, u) /\ agent' = [a \in Agents |-> agent[a]]
          /\ mirror' = IF m = Nobody THEN Synced(mirror, u) ELSE Put(Synced(mirror, u), m, Gone)
      BY <1>4 DEF SwitchedOff
    <2>3. mirror' \in [Ids -> Mirror \cup {Gone}]  BY <2>1, <2>2, PutMirror
    <2>4. login' \in [Ids -> Login \cup {Gone}]  BY <2>2, StaffTypes, PutLogin
    <2> QED  BY <1>1, <2>2, <2>3, <2>4 DEF AccessTypeOK, StaffTyped
  <1> QED  BY <1>1, <1>m, <1>3, <1>4

LEMMA StaffSignsInTyped ==
    ASSUME AccessTypeOK, NEW i \in Ids, StaffSignsIn(i)
    PROVE  StaffTyped' /\ job' = job
  <1>1. login[i] \in Login  BY DEF StaffSignsIn, AccessTypeOK, StaffTyped
  <1>2. mirror' \in [Ids -> Mirror \cup {Gone}]
    BY <1>1, SyncedTyped DEF StaffSignsIn, AccessTypeOK, StaffTyped
  <1> QED  BY <1>2 DEF StaffSignsIn, AccessTypeOK, StaffTyped

LEMMA SaveEditKeeps ==
    ASSUME AccessTypeOK, NEW t \in Threads, NEW n \in Names, NEW r \in Offered,
           NEW status \in {"Active", "Inactive"}, SaveEdit(t, n, r, status)
    PROVE  agent' = agent /\ Rows(login) \subseteq Rows(login')
  <1>1. agent' = agent  BY DEF SaveEdit
  <1>2. CASE login' = login  BY <1>1, <1>2 DEF Rows
  <1>3. ASSUME NEW i, NEW u \in Login, login' = Put(login, i, u)
        PROVE  Rows(login) \subseteq Rows(login')
    BY <1>3, RowsAreNotGone, PutLogin, StaffTypes DEF Rows
  <1>4. CASE ~(login' = login /\ mirror' = mirror)
    BY <1>1, <1>2, <1>3, <1>4, SaveEditIs
  <1> QED  BY <1>2, <1>4

LEMMA DeleteStaffKeeps ==
    ASSUME AccessTypeOK, NEW k \in Ids, NEW held \in BOOLEAN, DeleteStaff(k, held)
    PROVE  KeysHold'
  <1>1. PICK m \in Ids \cup {Nobody} : \E n, i :
            Removed(m, i) \/ \E u \in Login : SwitchedOff(m, n, i, u)
    BY DeleteStaffIs
  <1>2. PICK n, i : Removed(m, i) \/ \E u \in Login : SwitchedOff(m, n, i, u)  BY <1>1
  <1>3. NoAgent \notin Ids  BY RolesThere DEF NoAgent
  <1>4. /\ agent \in [Agents -> Ids \cup {NoUser, NoAgent}] /\ login \in [Ids -> Login \cup {Gone}]
        /\ KeysHold
    BY DEF AccessTypeOK, StaffTyped
  <1>5. CASE Removed(m, i)
    BY <1>3, <1>4, <1>5, PutLogin DEF Removed, KeysHold
  <1>6. ASSUME NEW u \in Login, SwitchedOff(m, n, i, u) PROVE KeysHold'
    BY <1>4, <1>6, PutLogin, RowsAreNotGone DEF SwitchedOff, KeysHold
  <1> QED  BY <1>2, <1>5, <1>6

LEMMA RolePageTyped ==
    ASSUME AccessTypeOK, RolePage  PROVE  StaffTyped' /\ job' = job
  <1>0. role \in [Roles -> Role \cup {Gone}] /\ Edited \subseteq Roles
    BY RolesThere DEF AccessTypeOK, StaffTyped
  <1>1. PICK r \in Edited :
            \/ \E open, others \in BOOLEAN, tabs \in SUBSET Tabs, acts \in SUBSET Acts :
                 \/ CreateRole(r, open, tabs, acts, others)
                 \/ \E n \in Edited : EditRole(r, n, open, tabs, acts, others)
            \/ DeleteRole(r)
    BY DEF RolePage
  <1>2. CASE DeleteRole(r)
    BY <1>0, <1>2 DEF DeleteRole, RoleForm, AccessTypeOK, StaffTyped
  <1>3. ASSUME NEW open \in BOOLEAN, NEW others \in BOOLEAN, NEW tabs \in SUBSET Tabs,
               NEW acts \in SUBSET Acts, CreateRole(r, open, tabs, acts, others)
        PROVE  StaffTyped' /\ job' = job
    <2>0. Ungranted \in (SUBSET Acts) \cup {Ungranted}  OBVIOUS
    <2>1. FromForm(open, tabs, acts, others, Ungranted) \in Role  BY <2>0, FromFormTyped
    <2> QED  BY <1>0, <1>3, <2>1 DEF CreateRole, RoleForm, AccessTypeOK, StaffTyped
  <1>4. ASSUME NEW open \in BOOLEAN, NEW others \in BOOLEAN, NEW tabs \in SUBSET Tabs,
               NEW acts \in SUBSET Acts, NEW n \in Edited,
               EditRole(r, n, open, tabs, acts, others)
        PROVE  StaffTyped' /\ job' = job
    <2>1. role[r] \in Role  BY <1>0, <1>4 DEF EditRole
    <2>2. role[r].acts \in (SUBSET Acts) \cup {Ungranted}  BY <2>1 DEF Role
    <2>3. FromForm(open, tabs, acts, others, role[r].acts) \in Role  BY <2>2, FromFormTyped
    <2> QED  BY <1>0, <1>4, <2>3 DEF EditRole, RoleForm, AccessTypeOK, StaffTyped
  <1> QED  BY <1>1, <1>2, <1>3, <1>4

LEMMA ProfilesTyped ==
    ASSUME AccessTypeOK, Profiles  PROVE  StaffTyped' /\ job' = job
  <1>0. /\ login \in [Ids -> Login \cup {Gone}] /\ mirror \in [Ids -> Mirror \cup {Gone}]
        /\ DOMAIN group = Roles /\ crewman \subseteq Ids
        /\ agent \in [Agents -> Ids \cup {NoUser, NoAgent}]
    BY DEF AccessTypeOK, StaffTyped
  <1>1. CASE SetupDispatch
    <2> DEFINE joins(i) == IF login[i].super THEN {"Admin"} ELSE {RoleOf(i)} \cap DOMAIN Matrix
    <2>1. /\ group' = [g \in Roles |-> IF g \in DOMAIN Matrix THEN Matrix[g] ELSE group[g]]
          /\ login' = [i \in Ids |-> IF login[i] = Gone THEN Gone
                                     ELSE [login[i] EXCEPT !.groups = @ \cup joins(i)]]
          /\ UNCHANGED <<mirror, role, agent, crewman, answer, job>>
      BY <1>1 DEF SetupDispatch
    <2>3. \A i \in Ids : login[i] # Gone =>
              [login[i] EXCEPT !.groups = @ \cup joins(i)] \in Login
      <3>1. \A i \in Ids : joins(i) \subseteq Roles  BY RolesThere DEF Matrix
      <3> HIDE DEF joins
      <3> QED  BY <1>0, <3>1 DEF Login
    <2> HIDE DEF joins
    <2> QED  BY <1>0, <2>1, <2>3 DEF AccessTypeOK, StaffTyped
  <1>2. CASE SetupRbac
    <2> QED  BY <1>0, <1>2 DEF SetupRbac, AccessTypeOK, StaffTyped
  <1>3. CASE LinkPersonas
    <2>0. PICK made \in SUBSET {i \in Lacking("Agent") : AgentsOf(i) = {}},
               hired \in SUBSET (Lacking("Technician") \ crewman) : Profiled(made, hired)
      BY <1>3 DEF LinkPersonas
    <2>a. made \subseteq Rows(login) /\ hired \subseteq Rows(login)  BY DEF Lacking
    <2>1. PICK at \in [made -> {a \in Agents : agent[a] = NoAgent}] :
              agent' = [a \in Agents |-> IF \E i \in made : at[i] = a
                                         THEN CHOOSE i \in made : at[i] = a
                                         ELSE agent[a]]
      BY <2>0 DEF Profiled
    <2>b. /\ crewman' = crewman \cup hired
          /\ login' = [i \in Ids |->
                IF i \notin made \cup hired THEN login[i]
                ELSE [login[i] EXCEPT !.staff = FALSE, !.super = FALSE, !.active = TRUE]]
      BY <2>0 DEF Profiled
    <2>2. ASSUME NEW i \in made \cup hired
          PROVE  [login[i] EXCEPT !.staff = FALSE, !.super = FALSE, !.active = TRUE] \in Login
      <3>1. login[i] \in Login  BY <1>0, <2>a DEF Rows
      <3> QED  BY <3>1 DEF Login
    <2>3. login' \in [Ids -> Login \cup {Gone}]
      <3> HIDE DEF Rows
      <3> QED  BY <1>0, <2>b, <2>2
    <2> HIDE DEF Rows
    <2>m. made \subseteq Ids /\ hired \subseteq Ids  BY <2>a DEF Rows
    <2>4. \A a \in Agents : (\E i \in made : at[i] = a) => (CHOOSE i \in made : at[i] = a) \in Ids
      BY <2>m
    <2>5. agent' \in [Agents -> Ids \cup {NoUser, NoAgent}]  BY <1>0, <2>1, <2>4
    <2>6. crewman' \subseteq Ids  BY <1>0, <2>b, <2>m
    <2> QED  BY <1>3, <2>3, <2>5, <2>6 DEF LinkPersonas, AccessTypeOK, StaffTyped
  <1>4. ASSUME NEW a \in Agents, AddAgent(a) \/ DeleteAgent(a)
        PROVE  StaffTyped' /\ job' = job
    BY <1>4 DEF AddAgent, DeleteAgent, AccessTypeOK, StaffTyped
  <1>5. ASSUME NEW a \in Agents, ToggleAgentLogin(a)
        PROVE  StaffTyped' /\ job' = job
    <2>1. agent[a] \in Ids /\ login' = [login EXCEPT ![agent[a]].active = ~@]
          /\ mirror' = Synced(mirror, login'[agent[a]])
          /\ UNCHANGED <<role, group, agent, crewman, answer, job>>
      BY <1>5 DEF ToggleAgentLogin
    <2>2. login[agent[a]] # Gone  BY <2>1 DEF AccessTypeOK, KeysHold
    <2> DEFINE u == [login[agent[a]] EXCEPT !.active = ~@]
    <2>3. u \in Login /\ login' = [login EXCEPT ![agent[a]] = u]
      <3>1. login[agent[a]] \in Login  BY <1>0, <2>1, <2>2
      <3>2. u \in Login  BY <3>1 DEF Login
      <3>3. login' = [login EXCEPT ![agent[a]] = u]  BY <1>5 DEF ToggleAgentLogin
      <3> QED  BY <3>2, <3>3
    <2> HIDE DEF u
    <2>4. login' \in [Ids -> Login \cup {Gone}] /\ login'[agent[a]] \in Login
      BY <1>0, <2>1, <2>3
    <2>5. mirror' \in [Ids -> Mirror \cup {Gone}]  BY <1>0, <2>1, <2>4, SyncedTyped
    <2> QED  BY <2>1, <2>4, <2>5 DEF AccessTypeOK, StaffTyped
  <1>6. ASSUME NEW a \in Agents, NEW n \in Names, SetupAgentLogin(a, n)
        PROVE  StaffTyped' /\ job' = job
    <2> DEFINE e == TheOne(Called(login, n))
               linked == agent[a] # NoUser
               i     == IF linked THEN agent[a] ELSE IF e # Nobody THEN e ELSE FirstFree(login)
               old   == IF login[i] = Gone THEN {} ELSE login[i].groups
               u == [name |-> n, staff |-> FALSE, super |-> FALSE,
                     active |-> TRUE, groups |-> old]
    <2>1. /\ agent[a] # NoAgent
          /\ ~linked /\ e = Nobody => FreeIds(login) # {}
          /\ login' = [login EXCEPT ![i] = u]
          /\ agent' = [agent EXCEPT ![a] = i]
          /\ UNCHANGED <<mirror, role, group, crewman, answer, job>>
      BY <1>6 DEF SetupAgentLogin
    <2>2. Called(login, n) \subseteq Ids /\ FreeIds(login) \subseteq Ids
      BY DEF Called, Rows, FreeIds
    <2>3. e # Nobody => e \in Ids  BY <2>2, TheOnePicked
    <2>4. FreeIds(login) # {} => FirstFree(login) \in Ids  BY <2>2, FirstPicked
    <2> HIDE DEF e
    <2>5. i \in Ids  BY <1>0, <2>1, <2>3, <2>4 DEF NoUser, NoAgent
    <2> HIDE DEF i
    <2>6. u \in Login  BY <1>0, <2>5 DEF Login
    <2> HIDE DEF u
    <2>7. login' \in [Ids -> Login \cup {Gone}]  BY <1>0, <2>1, <2>6
    <2>8. agent' \in [Agents -> Ids \cup {NoUser, NoAgent}]  BY <1>0, <2>1, <2>5
    <2> QED  BY <2>1, <2>7, <2>8 DEF AccessTypeOK, StaffTyped
  <1> QED  BY <1>1, <1>2, <1>3, <1>4, <1>5, <1>6 DEF Profiles

LEMMA KeysKept ==
    ASSUME AccessTypeOK, StaffPage \/ RolePage \/ Profiles
    PROVE  KeysHold'
  <1>0. /\ login \in [Ids -> Login \cup {Gone}] /\ agent \in [Agents -> Ids \cup {NoUser, NoAgent}]
        /\ \A a \in Agents : agent[a] \in Ids => login[agent[a]] # Gone
        /\ login' \in [Ids -> Login \cup {Gone}]
    BY StaffListTyped, AddStaffTyped, OpenEditTyped, SaveEditTyped, DeleteStaffTyped,
       StaffSignsInTyped, RolePageTyped, ProfilesTyped
       DEF AccessTypeOK, StaffTyped, KeysHold, StaffPage
  \* Most steps remove no login.
  <1>1. ASSUME agent' = agent, Rows(login) \subseteq Rows(login') PROVE KeysHold'
    BY <1>0, <1>1 DEF Rows, KeysHold
  <1>2. ASSUME agent' = agent, login' = login PROVE KeysHold'
    BY <1>0, <1>2 DEF KeysHold
  <1>3. ASSUME agent' = agent, NEW i, NEW u \in Login, login' = [login EXCEPT ![i] = u]
        PROVE  KeysHold'
    BY <1>0, <1>1, <1>3, RowsAreNotGone DEF Rows
  <1>4. CASE StaffList  BY <1>2, <1>4 DEF StaffList
  <1>5. ASSUME NEW n \in Names, NEW r \in Offered, NEW active \in BOOLEAN, AddStaff(n, r, active)
        PROVE  KeysHold'
    <2> DEFINE u == [name |-> n, staff |-> TRUE, super |-> r = "Admin", active |-> active,
                     groups |-> {r}]
    <2>1. u \in Login  BY RolesThere DEF Login
    <2>2. agent' = agent /\ (login' = login \/ login' = [login EXCEPT ![FirstFree(login)] = u])
      BY <1>5 DEF AddStaff
    <2> HIDE DEF u
    <2> QED  BY <1>2, <1>3, <2>1, <2>2
  <1>6. ASSUME NEW t \in Threads, NEW k \in Ids, OpenEdit(t, k) PROVE KeysHold'
    BY <1>2, <1>6 DEF OpenEdit
  <1>7. ASSUME NEW t \in Threads, NEW n \in Names, NEW r \in Offered,
               NEW status \in {"Active", "Inactive"}, SaveEdit(t, n, r, status)
        PROVE  KeysHold'
    <2>1. agent' = agent /\ Rows(login) \subseteq Rows(login')  BY <1>7, SaveEditKeeps
    <2> QED  BY <1>1, <2>1
  <1>8. ASSUME NEW k \in Ids, NEW held \in BOOLEAN, DeleteStaff(k, held) PROVE KeysHold'
    BY <1>8, DeleteStaffKeeps
  <1>9. ASSUME NEW i \in Ids, StaffSignsIn(i) PROVE KeysHold'  BY <1>2, <1>9 DEF StaffSignsIn
  <1>10. CASE RolePage
    BY <1>2, <1>10 DEF RolePage, CreateRole, EditRole, DeleteRole, RoleForm
  <1>11. CASE SetupDispatch
    <2>1. \A i \in Ids : login[i] # Gone => login'[i] # Gone
      BY <1>0, <1>11, RowsAreNotGone DEF SetupDispatch, Login, Gone
    <2> QED  BY <1>1, <1>11, <2>1 DEF SetupDispatch, Rows
  <1>12. CASE SetupRbac  BY <1>2, <1>12 DEF SetupRbac
  <1>13. CASE LinkPersonas
    <2>1. PICK made \in SUBSET {i \in Lacking("Agent") : AgentsOf(i) = {}},
               hired \in SUBSET (Lacking("Technician") \ crewman) : Profiled(made, hired)
      BY <1>13 DEF LinkPersonas
    <2>2. made \subseteq Rows(login) /\ hired \subseteq Rows(login)  BY DEF Lacking
    <2>3. login' = [i \in Ids |->
                IF i \notin made \cup hired THEN login[i]
                ELSE [login[i] EXCEPT !.staff = FALSE, !.super = FALSE, !.active = TRUE]]
      BY <2>1 DEF Profiled
    <2>4. \A i \in Ids : login[i] # Gone => login'[i] # Gone
      BY <1>0, <2>3, RowsAreNotGone DEF Login, Gone
    <2>5. \A a \in Agents : agent'[a] = agent[a] \/ agent'[a] \in made
      BY <2>1 DEF Profiled
    <2> QED  BY <1>0, <2>2, <2>4, <2>5 DEF KeysHold, Rows
  <1>14. ASSUME NEW a \in Agents, AddAgent(a) \/ DeleteAgent(a) PROVE KeysHold'
    BY <1>0, <1>14, RolesThere DEF AddAgent, DeleteAgent, KeysHold, NoUser, NoAgent
  <1>15. ASSUME NEW a \in Agents, ToggleAgentLogin(a) PROVE KeysHold'
    <2>1. login[agent[a]] \in Login  BY <1>0, <1>15 DEF ToggleAgentLogin
    <2>2. [login[agent[a]] EXCEPT !.active = ~@] \in Login  BY <2>1 DEF Login
    <2>3. login' = [login EXCEPT ![agent[a]] = [login[agent[a]] EXCEPT !.active = ~@]]
      BY <1>15 DEF ToggleAgentLogin
    <2> QED  BY <1>3, <1>15, <2>2, <2>3 DEF ToggleAgentLogin
  <1>16. ASSUME NEW a \in Agents, NEW n \in Names, SetupAgentLogin(a, n) PROVE KeysHold'
    <2> DEFINE u(gs) == [name |-> n, staff |-> FALSE, super |-> FALSE,
                         active |-> TRUE, groups |-> gs]
    <2>1. \E i, gs : login' = [login EXCEPT ![i] = u(gs)] /\ agent' = [agent EXCEPT ![a] = i]
      BY <1>16, Zenon DEF SetupAgentLogin
    <2>2. \A gs : u(gs) # Gone  BY DEF Gone
    <2> HIDE DEF u
    <2> QED  BY <1>0, <2>1, <2>2 DEF KeysHold
  <1> QED
    BY <1>4, <1>5, <1>6, <1>7, <1>8, <1>9, <1>10, <1>11, <1>12, <1>13, <1>14, <1>15, <1>16
       DEF StaffPage, Profiles

\* What the pages leave alone.  The pages of the staff, of the roles and of the
\* profiles do not touch the portal, its door and the lines, and the last two run
\* only while their handler is on duty.
LEMMA StaffPageLeaves ==
    ASSUME StaffPage  PROVE  Staffing
  <1>1. StaffList => Staffing  BY DEF StaffList
  <1>2. ASSUME NEW n, NEW r, NEW active, AddStaff(n, r, active) PROVE Staffing
    BY <1>2 DEF AddStaff
  <1>3. ASSUME NEW t, NEW k, OpenEdit(t, k) PROVE Staffing  BY <1>3 DEF OpenEdit
  <1>4. ASSUME NEW t, NEW n, NEW r, NEW status, SaveEdit(t, n, r, status) PROVE Staffing
    BY <1>4 DEF SaveEdit
  <1>5. ASSUME NEW k, NEW held, DeleteStaff(k, held) PROVE Staffing  BY <1>5 DEF DeleteStaff
  <1>6. ASSUME NEW i, StaffSignsIn(i) PROVE Staffing  BY <1>6 DEF StaffSignsIn
  <1> QED  BY <1>1, <1>2, <1>3, <1>4, <1>5, <1>6 DEF StaffPage

LEMMA RolePageLeaves ==
    ASSUME RolePage  PROVE  RoleForm /\ May("roles")
  <1>1. ASSUME NEW r, NEW open, NEW tabs, NEW acts, NEW others,
               CreateRole(r, open, tabs, acts, others)
        PROVE  RoleForm /\ May("roles")
    BY <1>1 DEF CreateRole
  <1>2. ASSUME NEW r, NEW n, NEW open, NEW tabs, NEW acts, NEW others,
               EditRole(r, n, open, tabs, acts, others)
        PROVE  RoleForm /\ May("roles")
    BY <1>2 DEF EditRole
  <1>3. ASSUME NEW r, DeleteRole(r) PROVE RoleForm /\ May("roles")  BY <1>3 DEF DeleteRole
  <1> QED  BY <1>1, <1>2, <1>3 DEF RolePage

LEMMA ProfilesLeave ==
    ASSUME Profiles  PROVE  Staffing /\ \E h : May(h)
  <1>1. SetupDispatch => Staffing /\ May("setup")  BY DEF SetupDispatch
  <1>2. SetupRbac => Staffing /\ May("rbac")  BY DEF SetupRbac
  <1>3. LinkPersonas => Staffing /\ May("link")  BY DEF LinkPersonas
  <1>4. ASSUME NEW a, AddAgent(a) PROVE Staffing /\ May("agent")  BY <1>4 DEF AddAgent
  <1>5. ASSUME NEW a, DeleteAgent(a) PROVE Staffing /\ May("agent")  BY <1>5 DEF DeleteAgent
  <1>6. ASSUME NEW a, ToggleAgentLogin(a) PROVE Staffing /\ May("agent")
    BY <1>6 DEF ToggleAgentLogin
  <1>7. ASSUME NEW a, NEW n, SetupAgentLogin(a, n) PROVE Staffing /\ May("agent")
    BY <1>7 DEF SetupAgentLogin
  <1> QED  BY <1>1, <1>2, <1>3, <1>4, <1>5, <1>6, <1>7 DEF Profiles

\* The handlers of passwords leave all but the portal's own columns alone.
LEMMA PasswordsLeave ==
    ASSUME Passwords  PROVE  InPortal
  <1>1. ASSUME NEW c, ResetPassword(c) PROVE InPortal  BY <1>1 DEF ResetPassword
  <1>2. ASSUME NEW c, NEW sent, WelcomeSms(c, sent) PROVE InPortal  BY <1>2 DEF WelcomeSms
  <1>3. ASSUME NEW t, NEW d, OpenChange(t, d) PROVE InPortal  BY <1>3 DEF OpenChange
  <1>4. ASSUME NEW t, NEW c, OpenDesk(t, c) PROVE InPortal  BY <1>4 DEF OpenDesk
  <1>5. ASSUME NEW t, NEW c, BulkReset(t, c) PROVE InPortal  BY <1>5 DEF BulkReset
  <1>6. ASSUME NEW t, SaveChange(t) PROVE InPortal  BY <1>6 DEF SaveChange
  <1>7. ASSUME NEW t, SaveDesk(t) PROVE InPortal  BY <1>7 DEF SaveDesk
  <1>8. ASSUME NEW t, OpenBulk(t) PROVE InPortal  BY <1>8 DEF OpenBulk
  <1>9. ASSUME NEW t, BulkFile(t) PROVE InPortal  BY <1>9 DEF BulkFile
  <1>10. ASSUME NEW t, Killed(t) PROVE InPortal  BY <1>10 DEF Killed
  <1>11. Day => InPortal  BY DEF Day
  <1> QED
    BY <1>1, <1>2, <1>3, <1>4, <1>5, <1>6, <1>7, <1>8, <1>9, <1>10, <1>11 DEF Passwords

\* Signing in and out, the pages and the polls leave the staff and the passwords alone.
LEMMA PortalLeaves ==
    ASSUME Portal  PROVE  UNCHANGED <<staffVars, portalVars, duty>>
  <1> DEFINE Left == UNCHANGED <<staffVars, portalVars, duty>>
  <1>0. OnLine => Left  BY DEF OnLine
  <1>1. ASSUME NEW t, NEW ip, NEW c, NEW d, NEW right, SignIn(t, ip, c, d, right) PROVE Left
    BY <1>1 DEF SignIn
  <1>2. Tick => Left  BY DEF Tick
  <1> HIDE DEF Left
  <1>3. ASSUME NEW t, NEW d, OpenPage(t, d) PROVE Left  BY <1>0, <1>3 DEF OpenPage
  <1>4. ASSUME NEW t, NEW d, OpenSignOut(t, d) PROVE Left  BY <1>0, <1>4 DEF OpenSignOut
  <1>5. ASSUME NEW t, Entered(t) PROVE Left  BY <1>0, <1>5 DEF Entered
  <1>6. ASSUME NEW t, PageDone(t) PROVE Left  BY <1>0, <1>6 DEF PageDone
  <1>7. ASSUME NEW t, SignedOut(t) PROVE Left  BY <1>0, <1>7 DEF SignedOut
  <1>8. ASSUME NEW t, OpenPoll(t) PROVE Left  BY <1>0, <1>8 DEF OpenPoll
  <1>9. ASSUME NEW t, Polled(t) PROVE Left  BY <1>0, <1>9 DEF Polled
  <1>10. Left
    BY <1>1, <1>2, <1>3, <1>4, <1>5, <1>6, <1>7, <1>8, <1>9 DEF Portal
  <1> QED  BY <1>10 DEF Left

LEMMA StaffStepTyped ==
    ASSUME AccessTypeOK, StaffPage \/ RolePage \/ Profiles
    PROVE  AccessTypeOK'
  <1>1. StaffTyped' /\ job' \in [Threads -> Jobs]
    <2>1. ASSUME job' = job PROVE job' \in [Threads -> Jobs]  BY <2>1 DEF AccessTypeOK
    <2>2. ASSUME NEW t \in Threads, job' = [job EXCEPT ![t] = NoJob]
          PROVE  job' \in [Threads -> Jobs]
      <3>1. NoJob \in Jobs  BY DEF Jobs
      <3> HIDE DEF Jobs
      <3> QED  BY <2>2, <3>1 DEF AccessTypeOK
    <2>3. CASE StaffPage
      BY <2>1, <2>2, <2>3, StaffListTyped, AddStaffTyped, OpenEditTyped, SaveEditTyped,
         DeleteStaffTyped, StaffSignsInTyped DEF StaffPage
    <2>4. CASE RolePage \/ Profiles
      BY <2>1, <2>4, RolePageTyped, ProfilesTyped
    <2> QED  BY <2>3, <2>4
  <1>2. UNCHANGED <<portalVars, doorVars, lineVars, duty>>
    <2>1. Staffing  BY StaffPageLeaves, RolePageLeaves, ProfilesLeave DEF RoleForm
    <2> QED  BY <2>1 DEF Staffing
  <1>3. PortalTyped' /\ DoorTyped' /\ LineTyped' /\ duty' \in Duties
    BY <1>2 DEF AccessTypeOK, PortalTyped, DoorTyped, LineTyped, portalVars, doorVars, lineVars
  <1> QED  BY <1>1, <1>3, KeysKept DEF AccessTypeOK

LEMMA JobKinds ==
    ASSUME AccessTypeOK, NEW t \in Threads
    PROVE  /\ job[t].h = "desk" => job[t].c \in Subscribers /\ job[t].row \in Account
           /\ job[t].h = "change" => job[t].c \in Subscribers
           /\ job[t].h = "page" => job[t].c \in Subscribers
           /\ job[t].h = "bulk" => /\ job[t].left \in SUBSET Subscribers
                                   /\ job[t].rows \in [Subscribers -> 0 .. MaxPasswords]
           /\ job[t].h \in {"enter", "logout"} =>
                job[t].c \in Subscribers /\ job[t].list \in [Subscribers -> Nat]
           /\ job[t].h = "poll" => job[t].list \in [Subscribers -> Nat]
  <1>1. job[t] \in Jobs  BY DEF AccessTypeOK
  <1> DEFINE j == job[t]
  <1> HIDE DEF j
  <1>2. j \in Jobs  BY <1>1 DEF j
  <1>3. /\ j.h = "desk" => j \in DeskJob
        /\ j.h \in {"change", "page"} => j \in VisitJob
        /\ j.h = "bulk" => j \in BulkJob
        /\ j.h \in {"enter", "logout"} => j \in ListJob
        /\ j.h = "poll" => j \in PollJob
    BY <1>2, JobsHaveNames
  <1> QED  BY <1>3 DEF j, DeskJob, VisitJob, BulkJob, ListJob, PollJob

LEMMA Widths ==
    /\ Life \in Nat /\ MaxPasswords \in Nat /\ LockTime \in Nat /\ Window \in Nat
    /\ Lately \in Nat /\ MaxTries \in Nat
    /\ \A n \in Never .. Life + 1 : Older(n) \in Never .. Life + 1
    /\ \A n \in 0 .. Life + 1 : Older(n) \in 0 .. Life + 1
    /\ \A pw \in 0 .. MaxPasswords :
         /\ Temporary(pw) \in Account
         /\ HandedOver(pw) \in [pw : 0 .. MaxPasswords, own : BOOLEAN, age : 0 .. Life + 1]
         /\ \A got \in Account : Chosen(got, pw) \in Account
  <1>1. /\ Life \in Nat /\ MaxPasswords \in Nat /\ LockTime \in Nat /\ Window \in Nat
        /\ Lately \in Nat /\ MaxTries \in Nat
    BY AccessAssumption
  <1>2. \A n \in Never .. Life + 1 : Older(n) \in Never .. Life + 1
    BY <1>1 DEF Older, Never
  <1>3. \A n \in 0 .. Life + 1 : Older(n) \in 0 .. Life + 1
    BY <1>1 DEF Older
  <1>4. ASSUME NEW pw \in 0 .. MaxPasswords
        PROVE  /\ Temporary(pw) \in Account
               /\ HandedOver(pw) \in [pw : 0 .. MaxPasswords, own : BOOLEAN, age : 0 .. Life + 1]
               /\ \A got \in Account : Chosen(got, pw) \in Account
    <2>1. Temporary(pw) \in Account  BY <1>1 DEF Temporary, Account, Never
    <2>2. HandedOver(pw) \in [pw : 0 .. MaxPasswords, own : BOOLEAN, age : 0 .. Life + 1]
      BY <1>1 DEF HandedOver
    <2>3. ASSUME NEW got \in Account PROVE Chosen(got, pw) \in Account
      <3>1. Never \in Never .. Life + 1  BY <1>1 DEF Never
      <3> QED  BY <3>1 DEF Chosen, Account
    <2> QED  BY <2>1, <2>2, <2>3
  <1> QED  BY <1>1, <1>2, <1>3, <1>4

Told == [pw : 0 .. MaxPasswords, own : BOOLEAN, age : 0 .. Life + 1]

LEMMA PortalTypes ==
    ASSUME AccessTypeOK
    PROVE  /\ account \in [Subscribers -> Account] /\ told \in [Subscribers -> Told]
           /\ issued \in 0 .. MaxPasswords /\ job \in [Threads -> Jobs]
           /\ signedIn \in [Devices -> Subscribers \cup {"nobody"}]
  BY DEF AccessTypeOK, PortalTyped, LineTyped, Told

LEMMA OneMore ==
    ASSUME AccessTypeOK, Made
    PROVE  issued' \in 0 .. MaxPasswords /\ issued' = issued + 1
  BY Widths DEF Made, AccessTypeOK, PortalTyped

LEMMA PasswordsTyped ==
    ASSUME AccessTypeOK, Passwords
    PROVE  PortalTyped' /\ job' \in [Threads -> Jobs]
  <1>0. /\ account \in [Subscribers -> Account] /\ told \in [Subscribers -> Told]
        /\ issued \in 0 .. MaxPasswords /\ job \in [Threads -> Jobs]
        /\ NoJob \in Jobs
    BY PortalTypes DEF Jobs
  <1> SUFFICES /\ account' \in [Subscribers -> Account] /\ told' \in [Subscribers -> Told]
               /\ issued' \in 0 .. MaxPasswords /\ job' \in [Threads -> Jobs]
    BY DEF PortalTyped, Told
  <1> DEFINE Typed == /\ account' \in [Subscribers -> Account] /\ told' \in [Subscribers -> Told]
                      /\ issued' \in 0 .. MaxPasswords /\ job' \in [Threads -> Jobs]
  <1>1. ASSUME NEW c \in Subscribers, ResetPassword(c) PROVE Typed
    BY <1>0, <1>1, OneMore, Widths DEF ResetPassword, Told
  <1>2. ASSUME NEW c \in Subscribers, NEW sent \in BOOLEAN, WelcomeSms(c, sent) PROVE Typed
    BY <1>0, <1>2, OneMore, Widths DEF WelcomeSms, Told
  <1>3. ASSUME NEW t \in Threads, NEW d \in Devices, OpenChange(t, d) PROVE Typed
    <2>1. signedIn[d] \in Subscribers  BY <1>3, PortalTypes DEF OpenChange
    <2>2. [h |-> "change", c |-> signedIn[d]] \in Jobs  BY <2>1 DEF Jobs, VisitJob
    <2> QED  BY <1>0, <1>3, <2>2 DEF OpenChange, portalVars
  <1>4. ASSUME NEW t \in Threads, NEW c \in Subscribers, OpenDesk(t, c) PROVE Typed
    <2>1. [h |-> "desk", c |-> c, row |-> account[c]] \in Jobs
      BY <1>0 DEF Jobs, DeskJob
    <2> QED  BY <1>0, <1>4, <2>1 DEF OpenDesk, portalVars
  <1>5. ASSUME NEW t \in Threads, NEW c \in Subscribers, BulkReset(t, c) PROVE Typed
    <2>1. job[t].h = "bulk" /\ job[t] \in Jobs  BY <1>0, <1>5 DEF BulkReset
    <2>2. job[t] \in BulkJob  BY <2>1, JobsHaveNames
    <2>3. issued' \in 0 .. MaxPasswords  BY <1>5, OneMore DEF BulkReset
    <2> DEFINE j == [job[t] EXCEPT !.left = @ \ {c}, !.rows[c] = issued']
    <2>4. j \in BulkJob  BY <2>2, <2>3 DEF BulkJob
    <2>5. j \in Jobs  BY <2>4 DEF Jobs
    <2>6. job' = [job EXCEPT ![t] = j]  BY <1>5, Zenon DEF BulkReset
    <2> HIDE DEF j
    <2> QED  BY <1>0, <1>5, <2>3, <2>5, <2>6, Widths DEF BulkReset
  <1>6. ASSUME NEW t \in Threads, SaveChange(t) PROVE Typed
    <2>1. job[t].c \in Subscribers  BY <1>6, JobKinds DEF SaveChange
    <2>2. issued' \in 0 .. MaxPasswords  BY <1>6, OneMore DEF SaveChange
    <2>3. [pw |-> issued', own |-> TRUE, age |-> 0] \in Told  BY <2>2, Widths DEF Told
    <2>4. Chosen(account[job[t].c], issued') \in Account  BY <1>0, <2>1, <2>2, Widths
    <2> QED  BY <1>0, <1>6, <2>2, <2>3, <2>4 DEF SaveChange
  <1>7. ASSUME NEW t \in Threads, SaveDesk(t) PROVE Typed
    <2>1. job[t].row \in Account  BY <1>7, JobKinds DEF SaveDesk
    <2> QED  BY <1>0, <1>7, <2>1 DEF SaveDesk
  <1>8. ASSUME NEW t \in Threads, OpenBulk(t) PROVE Typed
    <2>1. [h |-> "bulk", left |-> Subscribers, rows |-> [c \in Subscribers |-> 0]] \in Jobs
      BY Widths DEF Jobs, BulkJob
    <2> QED  BY <1>0, <1>8, <2>1 DEF OpenBulk, portalVars
  <1>9. ASSUME NEW t \in Threads, BulkFile(t) PROVE Typed
    <2>1. job[t].rows \in [Subscribers -> 0 .. MaxPasswords]  BY <1>9, JobKinds DEF BulkFile
    <2>2. \A c \in Subscribers : HandedOver(job[t].rows[c]) \in Told  BY <2>1, Widths DEF Told
    <2> QED  BY <1>0, <1>9, <2>2 DEF BulkFile
  <1>10. ASSUME NEW t \in Threads, Killed(t) PROVE Typed
    BY <1>0, <1>10 DEF Killed, portalVars
  <1>11. CASE Day
    <2>1. \A r \in Account : [r EXCEPT !.temp = Older(@)] \in Account  BY Widths DEF Account
    <2>2. \A r \in Told : [r EXCEPT !.age = Older(@)] \in Told  BY Widths DEF Told
    <2>3. /\ account' = [c \in Subscribers |-> [account[c] EXCEPT !.temp = Older(@)]]
          /\ told' = [c \in Subscribers |-> [told[c] EXCEPT !.age = Older(@)]]
          /\ UNCHANGED <<issued, job>>
      BY <1>11 DEF Day
    <2> QED  BY <1>0, <2>1, <2>2, <2>3
  <1> QED
    BY <1>1, <1>2, <1>3, <1>4, <1>5, <1>6, <1>7, <1>8, <1>9, <1>10, <1>11 DEF Passwords

LEMMA PasswordStepTyped ==
    ASSUME AccessTypeOK, Passwords  PROVE  AccessTypeOK'
  <1>1. UNCHANGED <<staffVars, doorVars, lineVars, duty>>
    BY PasswordsLeave DEF InPortal
  <1>2. StaffTyped' /\ KeysHold' /\ DoorTyped' /\ LineTyped' /\ duty' \in Duties
    BY <1>1 DEF AccessTypeOK, StaffTyped, KeysHold, DoorTyped, LineTyped,
                staffVars, doorVars, lineVars
  <1> QED  BY <1>2, PasswordsTyped DEF AccessTypeOK

\* What the clock makes of an open request: its list grows older.
Aged(j) == IF "list" \in DOMAIN j
           THEN [j EXCEPT !.list = [c \in Subscribers |-> Less(@[c])]] ELSE j
LEMMA TickKeepsJobs ==
    ASSUME NEW j \in Jobs
    PROVE  /\ Aged(j) \in Jobs /\ Aged(j).h = j.h
           /\ j.h \in {"idle", "edit", "desk", "bulk"} => Aged(j) = j
  <1>n. \A n \in Nat : Less(n) \in Nat  BY DEF Less
  <1>1. CASE j \in ListJob
    <2>1. Aged(j) \in ListJob /\ Aged(j).h = j.h  BY <1>1, <1>n DEF Aged, ListJob
    <2>2. j.h \in {"enter", "logout"}  BY <1>1 DEF ListJob
    <2> QED  BY <2>1, <2>2 DEF Jobs
  <1>2. CASE j \in PollJob
    <2>1. Aged(j) \in PollJob /\ Aged(j).h = j.h  BY <1>2, <1>n DEF Aged, PollJob
    <2>2. j.h = "poll"  BY <1>2 DEF PollJob
    <2> QED  BY <2>1, <2>2 DEF Jobs
  <1>3. CASE j \in EditJob \cup VisitJob \cup DeskJob \cup BulkJob \cup {NoJob}
    <2>1. "list" \notin DOMAIN j
      BY <1>3 DEF EditJob, VisitJob, DeskJob, BulkJob, NoJob
    <2> QED  BY <2>1 DEF Aged
  <1> QED  BY <1>1, <1>2, <1>3 DEF Jobs

LEMMA PortalStepTyped ==
    ASSUME AccessTypeOK, Portal  PROVE  AccessTypeOK'
  <1>0. /\ tries \in [Ips \X Subscribers -> [n : Nat, left : Nat]]
        /\ lock \in [Subscribers -> Nat] /\ posts \in [Ips -> [n : Nat, left : Nat]]
        /\ signedIn \in [Devices -> Subscribers \cup {"nobody"}]
        /\ seen \in [Subscribers -> Nat] /\ online \in [Subscribers -> Nat]
        /\ job \in [Threads -> Jobs] /\ NoJob \in Jobs
    BY DEF AccessTypeOK, DoorTyped, LineTyped, Jobs
  <1> SUFFICES DoorTyped' /\ LineTyped' /\ job' \in [Threads -> Jobs]
    <2>1. UNCHANGED <<staffVars, portalVars, duty>>  BY PortalLeaves
    <2>2. StaffTyped' /\ KeysHold' /\ PortalTyped' /\ duty' \in Duties
      BY <2>1 DEF AccessTypeOK, StaffTyped, KeysHold, PortalTyped, staffVars, portalVars
    <2> QED  BY <2>2 DEF AccessTypeOK
  <1>n. \A n \in Nat : Less(n) \in Nat  BY DEF Less
  <1>d. ASSUME OnLine PROVE DoorTyped'
    BY <1>d DEF OnLine, doorVars, AccessTypeOK, DoorTyped
  <1>1. ASSUME NEW t \in Threads, NEW ip \in Ips, NEW c \in Subscribers, NEW d \in Devices,
               NEW right \in BOOLEAN, SignIn(t, ip, c, d, right)
        PROVE  DoorTyped' /\ LineTyped' /\ job' \in [Threads -> Jobs]
    <2>1. posts' \in [Ips -> [n : Nat, left : Nat]]
      <3> DEFINE p == IF posts[ip].left = 0 THEN [n |-> 1, left |-> Window]
                      ELSE [posts[ip] EXCEPT !.n = @ + 1]
      <3>1. p \in [n : Nat, left : Nat]  BY <1>0, Widths
      <3>2. posts' = [posts EXCEPT ![ip] = p]  BY <1>1 DEF SignIn, Counted
      <3> HIDE DEF p
      <3> QED  BY <1>0, <3>1, <3>2
    <2>2. tries' \in [Ips \X Subscribers -> [n : Nat, left : Nat]] /\ lock' \in [Subscribers -> Nat]
      <3>1. CASE UNCHANGED <<tries, lock>>  BY <1>0, <3>1
      <3>2. CASE Clears(ip, c)  BY <1>0, <3>2 DEF Clears
      <3>3. CASE Fails(ip, c)
        <4> DEFINE n == IF tries[<<ip, c>>].left = 0 THEN 1
                        ELSE IF tries[<<ip, c>>].n < MaxTries THEN tries[<<ip, c>>].n + 1
                             ELSE MaxTries
        <4>1. n \in Nat  BY <1>0, Widths
        <4>2. /\ tries' = [tries EXCEPT ![<<ip, c>>] = [n |-> n, left |-> LockTime]]
              /\ lock' = lock \/ lock' = [lock EXCEPT ![c] = LockTime]
          BY <3>3 DEF Fails
        <4> HIDE DEF n
        <4> QED  BY <1>0, <4>1, <4>2, Widths
      <3> QED  BY <1>1, <3>1, <3>2, <3>3 DEF SignIn, TurnedAway
    <2>3. LineTyped' /\ job' \in [Threads -> Jobs]
      <3>1. [h |-> "enter", c |-> c, list |-> online] \in Jobs  BY <1>0 DEF Jobs, ListJob
      <3> QED  BY <1>0, <1>1, <3>1, Widths DEF SignIn, LineTyped
    <2> QED  BY <2>1, <2>2, <2>3 DEF DoorTyped
  <1>2. ASSUME NEW t \in Threads, Entered(t)
        PROVE  DoorTyped' /\ LineTyped' /\ job' \in [Threads -> Jobs]
    <2>1. job[t].list \in [Subscribers -> Nat]  BY <1>2, JobKinds DEF Entered, Ends
    <2>2. OnLine /\ UNCHANGED <<signedIn, seen>> /\ job' = [job EXCEPT ![t] = NoJob]
          /\ online' = [job[t].list EXCEPT ![job[t].c] = Lately]
      BY <1>2 DEF Entered, Ends
    <2> QED  BY <1>0, <1>d, <2>1, <2>2, Widths DEF LineTyped
  <1>3. ASSUME NEW t \in Threads, NEW d \in Devices, OpenPage(t, d)
        PROVE  DoorTyped' /\ LineTyped' /\ job' \in [Threads -> Jobs]
    <2>1. signedIn[d] \in Subscribers  BY <1>0, <1>3 DEF OpenPage
    <2>2. [h |-> "page", c |-> signedIn[d]] \in Jobs  BY <2>1 DEF Jobs, VisitJob
    <2> QED  BY <1>0, <1>3, <1>d, <2>2 DEF OpenPage, LineTyped, lineVars
  <1>4. ASSUME NEW t \in Threads, PageDone(t)
        PROVE  DoorTyped' /\ LineTyped' /\ job' \in [Threads -> Jobs]
    BY <1>0, <1>4, <1>d, Widths DEF PageDone, Ends, LineTyped
  <1>5. ASSUME NEW t \in Threads, NEW d \in Devices, OpenSignOut(t, d)
        PROVE  DoorTyped' /\ LineTyped' /\ job' \in [Threads -> Jobs]
    <2>1. signedIn[d] \in Subscribers  BY <1>0, <1>5 DEF OpenSignOut
    <2>2. [h |-> "logout", c |-> signedIn[d], list |-> online] \in Jobs
      BY <1>0, <2>1 DEF Jobs, ListJob
    <2> QED  BY <1>0, <1>5, <1>d, <2>2 DEF OpenSignOut, LineTyped
  <1>6. ASSUME NEW t \in Threads, SignedOut(t)
        PROVE  DoorTyped' /\ LineTyped' /\ job' \in [Threads -> Jobs]
    <2>1. job[t].list \in [Subscribers -> Nat]  BY <1>6, JobKinds DEF SignedOut, Ends
    <2>2. /\ OnLine /\ seen' = seen /\ job' = [job EXCEPT ![t] = NoJob]
          /\ online' = [job[t].list EXCEPT ![job[t].c] = 0]
          /\ signedIn' = [d \in Devices |-> IF signedIn[d] = job[t].c THEN "nobody" ELSE signedIn[d]]
      BY <1>6 DEF SignedOut, Ends, WithoutEntry
    <2> QED  BY <1>0, <1>d, <2>1, <2>2 DEF LineTyped
  <1>7. ASSUME NEW t \in Threads, OpenPoll(t)
        PROVE  DoorTyped' /\ LineTyped' /\ job' \in [Threads -> Jobs]
    <2>1. [h |-> "poll", list |-> online] \in Jobs  BY <1>0 DEF Jobs, PollJob
    <2> QED  BY <1>0, <1>7, <1>d, <2>1 DEF OpenPoll, LineTyped, lineVars
  <1>8. ASSUME NEW t \in Threads, Polled(t)
        PROVE  DoorTyped' /\ LineTyped' /\ job' \in [Threads -> Jobs]
    <2> DEFINE kept == [c \in Subscribers |-> IF seen[c] > 0 THEN job[t].list[c] ELSE 0]
    <2>1. job[t].list \in [Subscribers -> Nat]  BY <1>8, JobKinds DEF Polled, Ends
    <2>2. kept \in [Subscribers -> Nat]  BY <2>1
    <2>3. OnLine /\ UNCHANGED <<signedIn, seen>> /\ job' = [job EXCEPT ![t] = NoJob]
          /\ (online' = online \/ online' = kept)
      BY <1>8 DEF Polled, Ends
    <2> HIDE DEF kept
    <2> QED  BY <1>0, <1>d, <2>2, <2>3 DEF LineTyped
  <1>9. CASE Tick
    <2> DEFINE old(r) == IF r.left > 1 THEN [r EXCEPT !.left = @ - 1] ELSE [n |-> 0, left |-> 0]
    <2>1. /\ tries' = [k \in Ips \X Subscribers |-> old(tries[k])]
          /\ lock' = [c \in Subscribers |-> Less(lock[c])]
          /\ posts' = [ip \in Ips |-> old(posts[ip])]
          /\ seen' = [c \in Subscribers |-> Less(seen[c])]
          /\ online' = [c \in Subscribers |-> Less(online[c])]
          /\ signedIn' = signedIn
      BY <1>9 DEF Tick
    <2>2. \A r \in [n : Nat, left : Nat] : old(r) \in [n : Nat, left : Nat]  OBVIOUS
    <2> HIDE DEF old
    <2>3. DoorTyped'  BY <1>0, <1>n, <2>1, <2>2 DEF DoorTyped
    <2>4. LineTyped'  BY <1>0, <1>n, <2>1 DEF LineTyped
    <2>5. job' \in [Threads -> Jobs]
      <3>1. job' = [t \in Threads |-> Aged(job[t])]  BY <1>9 DEF Tick, Aged
      <3> QED  BY <1>0, <3>1, TickKeepsJobs
    <2> QED  BY <2>3, <2>4, <2>5
  <1> QED  BY <1>1, <1>2, <1>3, <1>4, <1>5, <1>6, <1>7, <1>8, <1>9 DEF Portal

LEMMA AccessStepTyped ==
    ASSUME AccessTypeOK, [AccessNext]_accessVars  PROVE  AccessTypeOK'
  <1>1. CASE AccessNext
    BY <1>1, StaffStepTyped, PasswordStepTyped, PortalStepTyped DEF AccessNext
  <1>2. CASE UNCHANGED accessVars
    BY <1>2 DEF AccessTypeOK, StaffTyped, KeysHold, PortalTyped, DoorTyped, LineTyped,
                accessVars, staffVars, portalVars, doorVars, lineVars
  <1> QED  BY <1>1, <1>2

LEMMA AccessStartTyped ==
    ASSUME AccessInit  PROVE  AccessTypeOK
  <1>1. PICK o \in Openings :
          /\ account = o.account /\ signedIn = o.signedIn
          /\ login = o.login /\ mirror = o.mirror /\ role = o.role /\ group = o.group
          /\ agent = o.agent /\ crewman = o.crewman
    BY DEF AccessInit
  <1>2. StaffTyped /\ KeysHold
    BY <1>1, AccessAssumption DEF AccessInit, StaffTyped, KeysHold
  <1>3. PortalTyped
    BY <1>1, AccessAssumption, Widths DEF AccessInit, PortalTyped
  <1>4. DoorTyped /\ job \in [Threads -> Jobs]
    BY DEF AccessInit, DoorTyped, Jobs
  <1>5. LineTyped
    BY <1>1, AccessAssumption DEF AccessInit, LineTyped
  <1> QED  BY <1>2, <1>3, <1>4, <1>5 DEF AccessInit, AccessTypeOK

\* Under every page, signal, command and job the tables keep their types, a login
\* named by an agent exists, and what a request has read is of the kind its
\* handler reads.
THEOREM AccessTypeCorrect == AccessSpec => []AccessTypeOK
  BY AccessStartTyped, AccessStepTyped, PTL DEF AccessSpec
-----------------------------------------------------------------------------
(* Access: what the rows of the page and the logins have to do with each other *)

Logins  == [Ids -> Login \cup {Gone}]
Mirrors == [Ids -> Mirror \cup {Gone}]

Named(table) == \A i, k \in Rows(table) : table[i].name = table[k].name => i = k
Fits(r, u) ==
    r.name = u.name /\ r.status = StatusOf(u.active) /\ (r.role = "Admin" <=> u.super)
Stands(l, m) == \A k \in Rows(m) : \E i \in Rows(l) : Fits(m[k], l[i])
\* The logins the agents' page gives and takes have no row on the staff page.
Unstaffed(u) == ~u.staff /\ ~u.super
Bare(l, m)   == \A i \in Rows(l) : Unstaffed(l[i]) => Called(m, l[i].name) = {}
Linked(l, a) == \A x \in Agents : a[x] \in Ids => Unstaffed(l[a[x]])
\* A persona whose profile is missing is active.
Ready(m) == \A k \in Rows(m) : m[k].role \in {"Agent", "Technician"} => m[k].status = "Active"

Follows(l, m, a, D) ==
    /\ Named(l) /\ Named(m) /\ Stands(l, m)
    /\ "link" \in D => Ready(m)
    /\ "agent" \in D => Bare(l, m) /\ Linked(l, a)

LEMMA PutRows ==
    /\ \A l \in Logins, i \in Ids, u \in Login :
         Put(l, i, u) \in Logins /\ Rows(Put(l, i, u)) = Rows(l) \cup {i}
    /\ \A l \in Logins, i \in Ids :
         Put(l, i, Gone) \in Logins /\ Rows(Put(l, i, Gone)) = Rows(l) \ {i}
    /\ \A m \in Mirrors, i \in Ids, r \in Mirror :
         Put(m, i, r) \in Mirrors /\ Rows(Put(m, i, r)) = Rows(m) \cup {i}
    /\ \A m \in Mirrors, i \in Ids :
         Put(m, i, Gone) \in Mirrors /\ Rows(Put(m, i, Gone)) = Rows(m) \ {i}
  BY PutLogin, PutMirror, RowsAreNotGone DEF Rows, Logins, Mirrors

\* A login and its row are written together, under a name no other has.
LEMMA BothWritten ==
    ASSUME NEW l \in Logins, NEW m \in Mirrors, NEW i \in Ids, NEW p \in Ids,
           NEW u \in Login, NEW r \in Mirror,
           Named(l), Named(m), Stands(l, m), Fits(r, u),
           \A x \in Rows(l) \ {i} : l[x].name # u.name,
           \A x \in Rows(m) \ {p} : m[x].name # u.name,
           \A x \in Rows(m) \ {p} : l[i] # Gone => m[x].name # l[i].name
    PROVE  /\ Named(Put(l, i, u)) /\ Named(Put(m, p, r))
           /\ Stands(Put(l, i, u), Put(m, p, r))
  <1> DEFINE l1 == Put(l, i, u)
             m1 == Put(m, p, r)
  <1>1. /\ l1 \in Logins /\ Rows(l1) = Rows(l) \cup {i}
        /\ m1 \in Mirrors /\ Rows(m1) = Rows(m) \cup {p}
    BY PutRows
  <1>2. /\ \A x \in Ids : l1[x] = IF x = i THEN u ELSE l[x]
        /\ \A x \in Ids : m1[x] = IF x = p THEN r ELSE m[x]
    BY PutLogin, PutMirror DEF Logins, Mirrors
  <1>3. Rows(l) \subseteq Ids /\ Rows(m) \subseteq Ids  BY DEF Rows
  <1>4. r.name = u.name  BY DEF Fits
  <1> HIDE DEF l1, m1
  <1>5. Named(l1)  BY <1>1, <1>2, <1>3 DEF Named
  <1>6. Named(m1)  BY <1>1, <1>2, <1>3, <1>4 DEF Named
  <1>7. ASSUME NEW k \in Rows(m1) PROVE \E x \in Rows(l1) : Fits(m1[k], l1[x])
    <2>1. CASE k = p
      <3>1. i \in Rows(l1) /\ l1[i] = u /\ m1[k] = r  BY <1>1, <1>2, <2>1
      <3> QED  BY <3>1
    <2>2. CASE k # p
      <3>1. k \in Rows(m) \ {p} /\ m1[k] = m[k]  BY <1>1, <1>2, <1>3, <2>2
      <3>2. PICK x \in Rows(l) : Fits(m[k], l[x])  BY <3>1 DEF Stands
      <3>3. m[k].name = l[x].name /\ l[x] # Gone  BY <3>2 DEF Fits, Rows
      <3>4. x # i  BY <3>1, <3>3
      <3>5. x \in Rows(l1) /\ l1[x] = l[x]  BY <1>1, <1>2, <1>3, <3>4
      <3> QED  BY <3>1, <3>2, <3>5
    <2> QED  BY <2>1, <2>2
  <1> QED  BY <1>5, <1>6, <1>7 DEF l1, m1, Stands

\* Only a login is written or removed, one that no row stands for any more.
LEMMA LoginWritten ==
    ASSUME NEW l \in Logins, NEW m \in Mirrors, NEW m1 \in Mirrors, NEW i \in Ids,
           NEW u \in Login \cup {Gone},
           Named(l), Named(m), Stands(l, m),
           \A k \in Rows(m1) : k \in Rows(m) /\ m1[k] = m[k],
           u # Gone => \A x \in Rows(l) \ {i} : l[x].name # u.name,
           l[i] # Gone => \A x \in Rows(m1) : m1[x].name # l[i].name
    PROVE  Named(Put(l, i, u)) /\ Named(m1) /\ Stands(Put(l, i, u), m1)
  <1> DEFINE l1 == Put(l, i, u)
  <1>1. l1 \in Logins /\ Rows(l1) = IF u = Gone THEN Rows(l) \ {i} ELSE Rows(l) \cup {i}
    BY PutRows
  <1>2. \A x \in Ids : l1[x] = IF x = i THEN u ELSE l[x]
    BY PutLogin DEF Logins
  <1>3. Rows(l) \subseteq Ids /\ Rows(m) \subseteq Ids  BY DEF Rows
  <1> HIDE DEF l1
  <1>4. Named(l1)  BY <1>1, <1>2, <1>3 DEF Named
  <1>5. Named(m1)  BY DEF Named
  <1>6. ASSUME NEW k \in Rows(m1) PROVE \E x \in Rows(l1) : Fits(m1[k], l1[x])
    <2>1. k \in Rows(m) /\ m1[k] = m[k]  OBVIOUS
    <2>2. PICK x \in Rows(l) : Fits(m[k], l[x])  BY <2>1 DEF Stands
    <2>3. m[k].name = l[x].name /\ l[x] # Gone  BY <2>2 DEF Fits, Rows
    <2>4. x # i  BY <2>1, <2>3
    <2>5. x \in Rows(l1) /\ l1[x] = l[x]  BY <1>1, <1>2, <1>3, <2>4
    <2> QED  BY <2>1, <2>2, <2>5
  <1> QED  BY <1>4, <1>5, <1>6 DEF l1, Stands

\* A member's row is removed, and the login with it or not.
LEMMA RowRemoved ==
    ASSUME NEW l \in Logins, NEW m \in Mirrors, NEW p \in Ids, Named(l), Named(m), Stands(l, m)
    PROVE  Named(Put(m, p, Gone)) /\ Stands(l, Put(m, p, Gone))
  <1>1. Rows(Put(m, p, Gone)) = Rows(m) \ {p}  BY PutRows
  <1>2. \A x \in Rows(m) \ {p} : Put(m, p, Gone)[x] = m[x]
    BY PutMirror DEF Mirrors, Rows
  <1> QED  BY <1>1, <1>2 DEF Named, Stands

\* The signal leaves the table alone, or writes the one row of that name.
LEMMA SyncedIs ==
    ASSUME NEW m \in Mirrors, NEW u \in Login, Named(m),
           u.super /\ Called(m, u.name) = {} => FreeIds(m) # {}
    PROVE  /\ ~u.super => Synced(m, u) = m
           /\ u.super => \E p \in Ids, r \in Mirror :
                /\ Synced(m, u) = Put(m, p, r) /\ Fits(r, u) /\ r.role = "Admin"
                /\ \A x \in Rows(m) \ {p} : m[x].name # u.name
                /\ p \in Rows(m) => m[p].name = u.name
  <1>1. ~u.super => Synced(m, u) = m  BY DEF Synced
  <1>2. ASSUME u.super
        PROVE  \E p \in Ids, r \in Mirror :
                /\ Synced(m, u) = Put(m, p, r) /\ Fits(r, u) /\ r.role = "Admin"
                /\ \A x \in Rows(m) \ {p} : m[x].name # u.name
                /\ p \in Rows(m) => m[p].name = u.name
    <2> DEFINE k == TheOne(Called(m, u.name))
               p == IF k = Nobody THEN FirstFree(m) ELSE k
               r == [name |-> u.name, role |-> "Admin", status |-> StatusOf(u.active)]
    <2>1. Synced(m, u) = Put(m, p, r)  BY <1>2 DEF Synced, Put
    <2>2. r \in Mirror /\ r.role = "Admin"  BY RolesThere DEF Mirror, Login, StatusOf
    <2>3. Fits(r, u)  BY <1>2 DEF Fits
    <2>4. CASE k = Nobody
      <3>1. Called(m, u.name) = {}  BY <2>4, TheOneCalled
      <3>2. p \in FreeIds(m)  BY <1>2, <2>4, <3>1, FirstPicked
      <3>3. p \in Ids /\ p \notin Rows(m)  BY <3>2 DEF FreeIds
      <3>4. \A x \in Rows(m) : m[x].name # u.name  BY <3>1 DEF Called
      <3> HIDE DEF p, r
      <3> QED  BY <2>1, <2>2, <2>3, <3>3, <3>4
    <2>5. CASE k # Nobody
      <3>1. k \in Ids /\ m[k] # Gone /\ m[k].name = u.name  BY <2>5, TheOneCalled
      <3>2. p = k /\ k \in Rows(m)  BY <2>5, <3>1 DEF Rows
      <3>3. \A x \in Rows(m) \ {k} : m[x].name # u.name  BY <3>1, <3>2 DEF Named
      <3> HIDE DEF p, r, k
      <3> QED  BY <2>1, <2>2, <2>3, <3>1, <3>2, <3>3
    <2> QED  BY <2>4, <2>5
  <1> QED  BY <1>1, <1>2

\* Where every row has its own login, a login without a row leaves one free.
LEMMA ALoginWithoutRow ==
    ASSUME NEW l \in Logins, NEW m \in Mirrors, NEW i \in Rows(l),
           Named(l), Named(m), Stands(l, m), Called(m, l[i].name) = {}
    PROVE  FreeIds(m) # {}
  <1> SUFFICES ASSUME FreeIds(m) = {} PROVE FALSE  OBVIOUS
  <1>1. Rows(m) = Ids /\ Rows(l) \subseteq Ids /\ i \in Ids  BY DEF FreeIds, Rows
  <1> DEFINE of == [k \in Ids |-> CHOOSE x \in Rows(l) : Fits(m[k], l[x])]
  <1>2. \A k \in Ids : of[k] \in Rows(l) /\ Fits(m[k], l[of[k]])
    BY <1>1 DEF Stands
  <1>3. \A k \in Ids : m[k].name = l[of[k]].name  BY <1>2 DEF Fits
  <1> HIDE DEF of
  <1>4. \A k \in Ids : of[k] # i
    BY <1>1, <1>3 DEF Called
  <1>5. of \in [Ids -> Ids \ {i}]  BY <1>1, <1>2, <1>4 DEF of
  <1>6. IsFiniteSet(Ids) /\ IsFiniteSet(Ids \ {i})
    BY AccessAssumption, FS_RemoveElement
  <1>7. Cardinality(Ids \ {i}) < Cardinality(Ids)
    BY <1>1, <1>6, FS_RemoveElement, FS_CardinalityType
  <1>8. \E x, y \in Ids : x # y /\ of[x] = of[y]
    BY <1>5, <1>6, <1>7, FS_PigeonHole
  <1> QED  BY <1>1, <1>3, <1>8 DEF Named
-----------------------------------------------------------------------------
(* Access: the requests that are open *)

Single == {"edit", "desk", "bulk"}
Turned(t, j) ==
    /\ job' = [job EXCEPT ![t] = j]
    /\ j # NoJob => /\ job[t] = NoJob
                    /\ \E h : May(h) /\ (j.h \in Single => j.h = h)
                    /\ j.h = "edit" => \E k \in Ids : OpenEdit(t, k)
                    /\ j.h = "desk" => \E c \in Subscribers : OpenDesk(t, c)
                    /\ j.h = "bulk" => OpenBulk(t)
Steady ==
    \A t \in Threads :
        /\ job'[t].h = job[t].h
        /\ job[t].h \in {"edit", "desk"} => job'[t] = job[t]
        /\ job[t].h = "bulk" => job'[t] = job[t] \/ \E c \in Subscribers : BulkReset(t, c)

LEMMA JobMoves ==
    ASSUME AccessTypeOK, AccessNext
    PROVE  Steady \/ \E t \in Threads, j \in Jobs : Turned(t, j)
  <1> DEFINE Goal == Steady \/ \E t \in Threads, j \in Jobs : Turned(t, j)
  <1>0. job \in [Threads -> Jobs] /\ NoJob \in Jobs /\ job' \in [Threads -> Jobs]
    BY AccessStepTyped DEF AccessTypeOK, Jobs
  <1>a. ASSUME job' = job PROVE Goal  BY <1>a DEF Steady
  <1>b. ASSUME NEW t \in Threads, job' = [job EXCEPT ![t] = NoJob] PROVE Goal
    BY <1>0, <1>b DEF Turned
  <1>c. ASSUME NEW t \in Threads, NEW h, NEW j, May(h), job[t] = NoJob, j.h \notin Single,
               job' = [job EXCEPT ![t] = j]
        PROVE  Goal
    <2>1. job'[t] = j /\ job'[t] \in Jobs  BY <1>0, <1>c
    <2> QED  BY <1>c, <2>1 DEF Turned, Single
  <1>1. CASE StaffPage
    <2>1. ASSUME NEW t \in Threads, NEW k \in Ids, OpenEdit(t, k) PROVE Goal
      <3>1. PICK j : /\ May("edit") /\ job[t] = NoJob /\ j.h = "edit"
                     /\ job' = [job EXCEPT ![t] = j]
        <4>1. \/ job' = [job EXCEPT ![t] = [h |-> "edit", key |-> k, pk |-> k, row |-> mirror[k]]]
              \/ \E pk, got : job' = [job EXCEPT ![t] = [h |-> "edit", key |-> k, pk |-> pk, row |-> got]]
          BY <2>1, Zenon DEF OpenEdit
        <4>2. \E j : j.h = "edit" /\ job' = [job EXCEPT ![t] = j]  BY <4>1
        <4> QED  BY <2>1, <4>2 DEF OpenEdit
      <3>2. job'[t] = j /\ j \in Jobs  BY <1>0, <3>1
      <3> QED  BY <2>1, <3>1, <3>2 DEF Turned
    <2>2. ASSUME NEW t \in Threads, NEW n, NEW r, NEW status, SaveEdit(t, n, r, status) PROVE Goal
      BY <1>b, <2>2 DEF SaveEdit
    <2> QED
      BY <1>1, <1>a, <2>1, <2>2 DEF StaffPage, StaffList, AddStaff, DeleteStaff, StaffSignsIn
  <1>2. CASE RolePage \/ Profiles
    BY <1>2, <1>a, RolePageTyped, ProfilesTyped
  <1>3. CASE Passwords
    <2>1. ASSUME NEW t \in Threads, NEW d \in Devices, OpenChange(t, d) PROVE Goal
      <3> DEFINE j == [h |-> "change", c |-> signedIn[d]]
      <3>1. May("change") /\ job[t] = NoJob /\ job' = [job EXCEPT ![t] = j]
        BY <2>1 DEF OpenChange
      <3>2. j.h \notin Single  BY DEF Single
      <3> QED  BY <1>c, <3>1, <3>2
    <2>2. ASSUME NEW t \in Threads, NEW c \in Subscribers, OpenDesk(t, c) PROVE Goal
      <3> DEFINE j == [h |-> "desk", c |-> c, row |-> account[c]]
      <3>1. May("desk") /\ job[t] = NoJob /\ job' = [job EXCEPT ![t] = j]
        BY <2>2 DEF OpenDesk
      <3>2. job'[t] = j /\ j \in Jobs /\ j.h = "desk"  BY <1>0, <3>1
      <3> HIDE DEF j
      <3> QED  BY <2>2, <3>1, <3>2 DEF Turned
    <2>3. ASSUME NEW t \in Threads, OpenBulk(t) PROVE Goal
      <3> DEFINE j == [h |-> "bulk", left |-> Subscribers, rows |-> [c \in Subscribers |-> 0]]
      <3>1. May("bulk") /\ job[t] = NoJob /\ job' = [job EXCEPT ![t] = j]
        BY <2>3 DEF OpenBulk
      <3>2. job'[t] = j /\ j \in Jobs /\ j.h = "bulk"  BY <1>0, <3>1
      <3> HIDE DEF j
      <3> QED  BY <2>3, <3>1, <3>2 DEF Turned
    <2>4. ASSUME NEW t \in Threads, NEW c \in Subscribers, BulkReset(t, c) PROVE Goal
      <3>1. PICK j : job' = [job EXCEPT ![t] = j] /\ j.h = job[t].h /\ job[t].h = "bulk"
        <4> DEFINE j == [job[t] EXCEPT !.left = @ \ {c}, !.rows[c] = issued']
        <4>1. job[t].h = "bulk" /\ job[t] \in Jobs  BY <1>0, <2>4 DEF BulkReset
        <4>2. job[t] \in BulkJob  BY <4>1, JobsHaveNames
        <4>3. j.h = job[t].h  BY <4>2 DEF BulkJob
        <4>4. job' = [job EXCEPT ![t] = j]  BY <2>4, Zenon DEF BulkReset
        <4> HIDE DEF j
        <4> QED  BY <4>1, <4>3, <4>4
      <3> QED  BY <1>0, <2>4, <3>1 DEF Steady
    <2>5. ASSUME NEW t \in Threads, SaveChange(t) \/ SaveDesk(t) \/ BulkFile(t) \/ Killed(t)
          PROVE  Goal
      BY <1>b, <2>5 DEF SaveChange, SaveDesk, BulkFile, Killed
    <2> QED
      BY <1>3, <1>a, <2>1, <2>2, <2>3, <2>4, <2>5 DEF Passwords, ResetPassword, WelcomeSms, Day
  <1>4. CASE Portal
    <2>1. ASSUME NEW t \in Threads, NEW ip \in Ips, NEW c \in Subscribers, NEW d \in Devices,
                 NEW right \in BOOLEAN, SignIn(t, ip, c, d, right)
          PROVE  Goal
      <3> DEFINE j == [h |-> "enter", c |-> c, list |-> online]
      <3>1. /\ May("login") /\ job[t] = NoJob
            /\ job' = job \/ job' = [job EXCEPT ![t] = j]
        BY <2>1 DEF SignIn
      <3>2. j.h \notin Single  BY DEF Single
      <3> QED  BY <1>a, <1>c, <3>1, <3>2
    <2>2. ASSUME NEW t \in Threads, NEW d \in Devices, OpenPage(t, d) PROVE Goal
      <3> DEFINE j == [h |-> "page", c |-> signedIn[d]]
      <3>1. May("page") /\ job[t] = NoJob /\ job' = [job EXCEPT ![t] = j]
        BY <2>2 DEF OpenPage
      <3>2. j.h \notin Single  BY DEF Single
      <3> QED  BY <1>c, <3>1, <3>2
    <2>3. ASSUME NEW t \in Threads, NEW d \in Devices, OpenSignOut(t, d) PROVE Goal
      <3> DEFINE j == [h |-> "logout", c |-> signedIn[d], list |-> online]
      <3>1. May("logout") /\ job[t] = NoJob /\ job' = [job EXCEPT ![t] = j]
        BY <2>3 DEF OpenSignOut
      <3>2. j.h \notin Single  BY DEF Single
      <3> QED  BY <1>c, <3>1, <3>2
    <2>4. ASSUME NEW t \in Threads, OpenPoll(t) PROVE Goal
      <3> DEFINE j == [h |-> "poll", list |-> online]
      <3>1. May("poll") /\ job[t] = NoJob /\ job' = [job EXCEPT ![t] = j]
        BY <2>4 DEF OpenPoll
      <3>2. j.h \notin Single  BY DEF Single
      <3> QED  BY <1>c, <3>1, <3>2
    <2>5. ASSUME NEW t \in Threads, Entered(t) \/ PageDone(t) \/ SignedOut(t) \/ Polled(t)
          PROVE  Goal
      BY <1>b, <2>5 DEF Entered, PageDone, SignedOut, Polled, Ends
    <2>6. CASE Tick
      <3>1. job' = [t \in Threads |-> Aged(job[t])]  BY <2>6 DEF Tick, Aged
      <3>2. \A t \in Threads : /\ job'[t].h = job[t].h
                               /\ job[t].h \in {"idle", "edit", "desk", "bulk"} => job'[t] = job[t]
        BY <1>0, <3>1, TickKeepsJobs
      <3> QED  BY <3>2 DEF Steady
    <2> QED  BY <1>4, <2>1, <2>2, <2>3, <2>4, <2>5, <2>6 DEF Portal
  <1> QED  BY <1>1, <1>2, <1>3, <1>4 DEF AccessNext

\* A request whose handler is alone has no other beside it.
OnlyOne ==
    \A t, s \in Threads : job[t].h \in Single \cap Exclusive /\ s # t => job[s] = NoJob

LEMMA IdleIsIdle ==
    ASSUME AccessTypeOK, NEW t \in Threads
    PROVE  (job[t] = NoJob <=> job[t].h = "idle") /\ NoJob.h = "idle"
  BY JobsHaveNames DEF AccessTypeOK, NoJob

LEMMA OnlyOneStays ==
    ASSUME AccessTypeOK, OnlyOne, AccessNext  PROVE  OnlyOne'
  <1>0. AccessTypeOK' /\ job \in [Threads -> Jobs]
    BY AccessStepTyped DEF AccessTypeOK
  <1>1. \A t \in Threads : (job'[t] = NoJob <=> job'[t].h = "idle") /\ (job[t] = NoJob <=> job[t].h = "idle")
    BY <1>0, IdleIsIdle, JobsHaveNames DEF AccessTypeOK
  <1>2. CASE Steady
    BY <1>1, <1>2 DEF Steady, OnlyOne
  <1>3. ASSUME NEW t \in Threads, NEW j \in Jobs, Turned(t, j), j = NoJob PROVE OnlyOne'
    <2>1. \A s \in Threads : job'[s] = IF s = t THEN NoJob ELSE job[s]
      BY <1>0, <1>3 DEF Turned
    <2>2. NoJob.h \notin Single  BY DEF NoJob, Single
    <2> QED  BY <2>1, <2>2 DEF OnlyOne
  <1>4. ASSUME NEW t \in Threads, NEW j \in Jobs, Turned(t, j), j # NoJob PROVE OnlyOne'
    <2>1. \A s \in Threads : job'[s] = IF s = t THEN j ELSE job[s]
      BY <1>0, <1>4 DEF Turned
    <2>2. PICK h : May(h) /\ (j.h \in Single => j.h = h)  BY <1>4 DEF Turned
    <2>3. \A s \in Threads : job[s].h \in Single \cap Exclusive => FALSE
      <3>1. \A s \in Threads : job[s] # NoJob => job[s].h \notin Exclusive
        BY <2>2 DEF May, Busy
      <3> QED  BY <1>1, <3>1 DEF Single
    <2>4. j.h \in Single \cap Exclusive => \A s \in Threads : job[s] = NoJob
      BY <2>2 DEF May, Busy
    <2> QED  BY <2>1, <2>3, <2>4 DEF OnlyOne
  <1> QED  BY <1>2, <1>3, <1>4, JobMoves
-----------------------------------------------------------------------------
(* Access: the steps of the staff page *)

\* What the invariant of the page needs: an edit is not disturbed; agents' logins
\* are not edited on the staff page, and no persona waits for its profile while
\* members are added or edited; and the tables fit in the first state.
StaffKept ==
    /\ "edit" \in Exclusive
    /\ \A D \in Duties :
          /\ "agent" \in D => D \cap {"edit", "link"} = {}
          /\ "link" \in D => D \cap {"add", "edit"} = {}
          /\ \A o \in Openings : o.starts \in D => Follows(o.login, o.mirror, o.agent, D)

\* The row a form of the page was filled from is still what the table has.
EditsFresh ==
    \A t \in Threads :
        job[t].h = "edit" => "edit" \in duty /\ mirror[job[t].pk] = job[t].row

StaffInv ==
    /\ AccessTypeOK /\ OnlyOne /\ EditsFresh
    /\ Follows(login, mirror, agent, duty)

\* No step but the two forms makes a CSR of a row.
CsrRowsOld == \A k \in Rows(mirror') : mirror'[k].role = "CSR" => k \in Rows(mirror) /\ mirror'[k] = mirror[k]

LEMMA Duty ==
    ASSUME StaffKept, AccessTypeOK
    PROVE  /\ "agent" \in duty => "edit" \notin duty /\ "link" \notin duty
           /\ "link" \in duty => "add" \notin duty /\ "edit" \notin duty /\ "agent" \notin duty
  BY DEF StaffKept, AccessTypeOK

LEMMA Tables ==
    ASSUME AccessTypeOK
    PROVE  /\ login \in Logins /\ mirror \in Mirrors
           /\ \A i \in Rows(login) : i \in Ids /\ login[i] \in Login
           /\ \A k \in Rows(mirror) : k \in Ids /\ mirror[k] \in Mirror
  BY StaffTypes DEF Logins, Mirrors, Rows

LEMMA StaffListIs ==
    ASSUME StaffInv, StaffList
    PROVE  /\ UNCHANGED <<login, agent, group, duty, job>>
           /\ \A k \in Rows(mirror) : k \in Rows(mirror') /\ mirror'[k] = mirror[k]
           /\ Named(mirror')
           /\ \A k \in Rows(mirror') : k \notin Rows(mirror) =>
                \E i \in Rows(login) :
                    /\ Fits(mirror'[k], login[i]) /\ mirror'[k].role \in {"Admin", "Viewer"}
                    /\ ~Unstaffed(login[i])
  <1> DEFINE shown == {i \in Rows(login) : login[i].staff \/ login[i].super}
             new   == {i \in shown : Called(mirror, login[i].name) = {}}
             fresh(u) == [name |-> u.name, status |-> StatusOf(u.active),
                          role |-> IF u.super THEN "Admin" ELSE "Viewer"]
             Super(m) == \E i \in shown : login[i].super /\ login[i].name = mirror[m].name
  <1>0. AccessTypeOK /\ Named(login) /\ Named(mirror) /\ Stands(login, mirror)
    BY DEF StaffInv, Follows
  <1>1. PICK at \in [new -> FreeIds(mirror)] :
          /\ \A i, k \in new : at[i] = at[k] => i = k
          /\ mirror' = [m \in Ids |->
                    IF \E i \in new : at[i] = m
                    THEN fresh(login[CHOOSE i \in new : at[i] = m])
                    ELSE IF mirror[m] # Gone /\ Super(m)
                    THEN [mirror[m] EXCEPT !.role = "Admin"] ELSE mirror[m]]
    BY DEF StaffList
  <1>2. UNCHANGED <<login, agent, group, duty, job>>  BY DEF StaffList, Staffing
  <1>3. \A i \in new : i \in Rows(login) /\ at[i] \in Ids \ Rows(mirror)
                       /\ Called(mirror, login[i].name) = {} /\ ~Unstaffed(login[i])
    BY <1>1 DEF FreeIds, Unstaffed
  <1>4. \A u \in Login : Fits(fresh(u), u) /\ fresh(u).role \in {"Admin", "Viewer"}
                         /\ fresh(u) # Gone /\ fresh(u).name = u.name
    BY DEF Fits, Gone
  <1>5. \A r \in Mirror : r.role = "Admin" => [r EXCEPT !.role = "Admin"] = r
    BY DEF Mirror
  <1>6. ASSUME NEW m \in Rows(mirror) PROVE Super(m) => mirror[m].role = "Admin"
    <2>1. PICK x \in Rows(login) : Fits(mirror[m], login[x])  BY <1>0 DEF Stands
    <2>2. \A i \in shown : login[i].name = mirror[m].name => i = x
      BY <1>0, <2>1 DEF Named, Fits
    <2> QED  BY <2>1, <2>2 DEF Fits
  <1> HIDE DEF new, shown, fresh, Super
  <1>7. ASSUME NEW m \in Rows(mirror) PROVE m \in Rows(mirror') /\ mirror'[m] = mirror[m]
    <2>1. m \in Ids /\ mirror[m] \in Mirror /\ mirror[m] # Gone  BY <1>0, Tables DEF Rows
    <2>2. ~(\E i \in new : at[i] = m)  BY <1>3
    <2>3. mirror'[m] = mirror[m]  BY <1>1, <1>5, <1>6, <2>1, <2>2
    <2> QED  BY <2>1, <2>3 DEF Rows
  <1>8. ASSUME NEW m \in Rows(mirror'), m \notin Rows(mirror)
        PROVE  \E i \in new : at[i] = m /\ mirror'[m] = fresh(login[i])
    <2>1. m \in Ids /\ mirror'[m] # Gone /\ mirror[m] = Gone  BY <1>8 DEF Rows
    <2>2. \E i \in new : at[i] = m  BY <1>1, <2>1
    <2>3. (CHOOSE i \in new : at[i] = m) \in new /\ at[CHOOSE i \in new : at[i] = m] = m
      BY <2>2
    <2> QED  BY <1>1, <2>1, <2>2, <2>3
  <1>9. ASSUME NEW m \in Rows(mirror'), m \notin Rows(mirror)
        PROVE  \E i \in new : /\ at[i] = m /\ Fits(mirror'[m], login[i])
                              /\ mirror'[m].role \in {"Admin", "Viewer"}
    <2>1. PICK i \in new : at[i] = m /\ mirror'[m] = fresh(login[i])  BY <1>8, <1>9
    <2>2. login[i] \in Login  BY <1>0, <1>3, Tables
    <2> QED  BY <1>4, <2>1, <2>2
  <1>10. Named(mirror')
    <2> SUFFICES ASSUME NEW i \in Rows(mirror'), NEW k \in Rows(mirror'),
                        mirror'[i].name = mirror'[k].name
                 PROVE  i = k
      BY DEF Named
    <2>1. CASE i \in Rows(mirror) /\ k \in Rows(mirror)
      BY <1>0, <1>7, <2>1 DEF Named
    <2>2. ASSUME NEW p \in Rows(mirror'), NEW q \in Rows(mirror'), p \in Rows(mirror),
                 q \notin Rows(mirror), mirror'[p].name = mirror'[q].name
          PROVE  FALSE
      <3>1. PICK x \in new : Fits(mirror'[q], login[x])  BY <1>9, <2>2
      <3>2. mirror[p].name = login[x].name  BY <1>7, <2>2, <3>1 DEF Fits
      <3>3. p \in Called(mirror, login[x].name)  BY <2>2, <3>2 DEF Called
      <3> QED  BY <1>3, <3>3
    <2>3. CASE i \notin Rows(mirror) /\ k \notin Rows(mirror)
      <3>1. PICK x \in new : at[x] = i /\ Fits(mirror'[i], login[x])  BY <1>9, <2>3
      <3>2. PICK y \in new : at[y] = k /\ Fits(mirror'[k], login[y])  BY <1>9, <2>3
      <3>3. login[x].name = login[y].name  BY <3>1, <3>2 DEF Fits
      <3>4. x = y  BY <1>0, <1>3, <3>3 DEF Named
      <3> QED  BY <3>1, <3>2, <3>4
    <2> QED  BY <2>1, <2>2, <2>3
  <1> QED  BY <1>2, <1>3, <1>7, <1>9, <1>10

LEMMA StaffListFollows ==
    ASSUME StaffInv, StaffList
    PROVE  Follows(login', mirror', agent', duty') /\ CsrRowsOld
  <1>0. Named(login) /\ Named(mirror) /\ Stands(login, mirror)
    BY DEF StaffInv, Follows
  <1>1. Stands(login, mirror')  BY <1>0, StaffListIs DEF Stands
  <1>2. Ready(mirror) => Ready(mirror')  BY StaffListIs DEF Ready
  <1>3. ASSUME Bare(login, mirror), NEW i \in Rows(login), Unstaffed(login[i])
        PROVE  Called(mirror', login[i].name) = {}
    <2> SUFFICES ASSUME NEW k \in Rows(mirror'), mirror'[k].name = login[i].name PROVE FALSE
      BY DEF Called
    <2>1. CASE k \in Rows(mirror)
      <3>1. k \in Called(mirror, login[i].name)  BY <2>1, StaffListIs DEF Called
      <3> QED  BY <1>3, <3>1 DEF Bare
    <2>2. CASE k \notin Rows(mirror)
      <3>1. PICK x \in Rows(login) : Fits(mirror'[k], login[x]) /\ ~Unstaffed(login[x])
        BY <2>2, StaffListIs
      <3>2. x = i  BY <1>0, <3>1 DEF Fits, Named
      <3> QED  BY <1>3, <3>1, <3>2
    <2> QED  BY <2>1, <2>2
  <1>4. Bare(login, mirror) => Bare(login, mirror')  BY <1>3 DEF Bare
  <1>5. UNCHANGED <<login, agent, duty>> /\ Named(mirror')  BY StaffListIs
  <1>6. Follows(login', mirror', agent', duty')
    BY <1>0, <1>1, <1>2, <1>4, <1>5 DEF StaffInv, Follows
  <1>7. CsrRowsOld  BY StaffListIs DEF CsrRowsOld
  <1> QED  BY <1>6, <1>7

LEMMA PutSame ==
    /\ \A l \in Logins, i \in Ids : Put(l, i, l[i]) = l
    /\ \A m \in Mirrors, i \in Ids : Put(m, i, m[i]) = m
    /\ \A m \in Mirrors, i \in Ids : \A r, s : Put(Put(m, i, r), i, s) = Put(m, i, s)
  BY DEF Put, Logins, Mirrors

LEMMA PutAt ==
    /\ \A l \in Logins, i \in Ids, u \in Login \cup {Gone} :
         \A x \in Ids : Put(l, i, u)[x] = IF x = i THEN u ELSE l[x]
    /\ \A m \in Mirrors, i \in Ids, r \in Mirror \cup {Gone} :
         \A x \in Ids : Put(m, i, r)[x] = IF x = i THEN r ELSE m[x]
  BY PutLogin, PutMirror DEF Logins, Mirrors

LEMMA RowsAreIds == \A table : Rows(table) \subseteq Ids
  BY DEF Rows

LEMMA PutLoginIn ==
    ASSUME NEW l \in Logins, NEW i \in Ids, NEW u \in Login
    PROVE  /\ Put(l, i, u) \in Logins /\ Rows(Put(l, i, u)) = Rows(l) \cup {i}
           /\ Put(l, i, u)[i] = u
           /\ \A x \in Ids : x # i => Put(l, i, u)[x] = l[x]
           /\ \A x \in Rows(l) : x # i => Put(l, i, u)[x] = l[x]
  BY PutRows, PutAt, RowsAreIds

LEMMA PutMirrorIn ==
    ASSUME NEW m \in Mirrors, NEW i \in Ids, NEW r \in Mirror
    PROVE  /\ Put(m, i, r) \in Mirrors /\ Rows(Put(m, i, r)) = Rows(m) \cup {i}
           /\ Put(m, i, r)[i] = r
           /\ \A x \in Rows(m) : x # i => Put(m, i, r)[x] = m[x]
  BY PutRows, PutAt, RowsAreIds

LEMMA LoginOut ==
    ASSUME NEW l \in Logins, NEW i \in Ids
    PROVE  /\ Put(l, i, Gone) \in Logins /\ Rows(Put(l, i, Gone)) = Rows(l) \ {i}
           /\ \A x \in Ids : x # i => Put(l, i, Gone)[x] = l[x]
           /\ \A x \in Rows(l) : x # i => Put(l, i, Gone)[x] = l[x]
  BY PutRows, PutAt, RowsAreIds

LEMMA MirrorOut ==
    ASSUME NEW m \in Mirrors, NEW i \in Ids
    PROVE  /\ Put(m, i, Gone) \in Mirrors /\ Rows(Put(m, i, Gone)) = Rows(m) \ {i}
           /\ \A x \in Rows(m) : x # i => Put(m, i, Gone)[x] = m[x]
  BY PutRows, PutAt, RowsAreIds

LEMMA NoEditOpen ==
    ASSUME AccessTypeOK, "edit" \in Exclusive, NEW h, May(h)
    PROVE  \A t \in Threads : job[t].h # "edit"
  <1>1. \A t \in Threads : job[t] # NoJob => job[t].h \notin Exclusive  BY DEF May, Busy
  <1>2. \A t \in Threads : job[t].h = "edit" => job[t] # NoJob  BY DEF NoJob
  <1> QED  BY <1>1, <1>2

LEMMA AddStaffFollows ==
    ASSUME StaffKept, StaffInv, NEW n \in Names, NEW r \in Offered, NEW active \in BOOLEAN,
           AddStaff(n, r, active)
    PROVE  Follows(login', mirror', agent', duty')
  <1> DEFINE i == FirstFree(login)
             p == FirstFree(mirror)
             u == [name |-> n, staff |-> TRUE, super |-> r = "Admin", active |-> active,
                   groups |-> {r}]
             got == [name |-> n, role |-> r, status |-> StatusOf(active)]
  <1>0. AccessTypeOK /\ Follows(login, mirror, agent, duty)  BY DEF StaffInv
  <1>1. /\ May("add") /\ Called(login, n) = {} /\ Called(mirror, n) = {}
        /\ FreeIds(login) # {} /\ FreeIds(mirror) # {}
        /\ UNCHANGED <<agent, duty>>
        /\ \/ UNCHANGED <<login, mirror>>
           \/ /\ ~u.super
              /\ login' = Put(login, i, u) /\ mirror' = Put(mirror, p, got)
    BY DEF AddStaff, Staffing, Put
  <1>2. u \in Login /\ got \in Mirror /\ Fits(got, u) /\ u.name = n /\ got.name = n /\ u.staff
    BY RolesThere DEF Login, Mirror, StatusOf, Fits
  <1>3. i \in Ids \ Rows(login) /\ p \in Ids \ Rows(mirror) /\ login[i] = Gone
    BY <1>1, FirstPicked DEF FreeIds, Rows
  <1>4. /\ \A x \in Rows(login) : login[x].name # n
        /\ \A x \in Rows(mirror) : mirror[x].name # n
    BY <1>1 DEF Called
  <1>5. CASE UNCHANGED <<login, mirror>>  BY <1>0, <1>1, <1>5
  <1>6. CASE login' = Put(login, i, u) /\ mirror' = Put(mirror, p, got)
    <2> HIDE DEF u, got, i, p
    <2>1. login \in Logins /\ mirror \in Mirrors  BY <1>0, Tables
    <2>2. Named(login') /\ Named(mirror') /\ Stands(login', mirror')
      BY <1>0, <1>2, <1>3, <1>4, <1>6, <2>1, BothWritten DEF Follows
    <2>3. "link" \notin duty  BY <1>0, <1>1, Duty DEF May
    <2>4. /\ Rows(login') = Rows(login) \cup {i} /\ Rows(mirror') = Rows(mirror) \cup {p}
          /\ \A x \in Rows(login) : login'[x] = login[x]
          /\ \A x \in Rows(mirror) : mirror'[x] = mirror[x]
          /\ login'[i] = u /\ mirror'[p] = got
      BY <1>2, <1>3, <1>6, <2>1, PutLoginIn, PutMirrorIn
    <2>5. ASSUME Bare(login, mirror) PROVE Bare(login', mirror')
      <3> SUFFICES ASSUME NEW x \in Rows(login'), Unstaffed(login'[x]),
                          NEW k \in Rows(mirror'), mirror'[k].name = login'[x].name
                   PROVE  FALSE
        BY DEF Bare, Called
      <3>1. x # i  BY <1>2, <2>4 DEF Unstaffed
      <3>2. x \in Rows(login) /\ login'[x] = login[x] /\ login[x].name # n  BY <1>4, <2>4, <3>1
      <3>3. k # p  BY <1>2, <2>4, <3>2
      <3>4. k \in Called(mirror, login[x].name)  BY <2>4, <3>2, <3>3 DEF Called
      <3> QED  BY <2>5, <3>2, <3>4 DEF Bare
    <2>6. ASSUME Linked(login, agent) PROVE Linked(login', agent)
      <3>1. \A x \in Agents : agent[x] \in Ids => agent[x] \in Rows(login)
        BY <1>0 DEF AccessTypeOK, KeysHold, Rows
      <3> QED  BY <2>4, <2>6, <3>1 DEF Linked
    <2> QED  BY <1>0, <1>1, <2>2, <2>3, <2>5, <2>6 DEF Follows
  <1> QED  BY <1>1, <1>5, <1>6

LEMMA OpenEditIs ==
    ASSUME StaffKept, StaffInv, NEW t \in Threads, NEW k \in Ids, OpenEdit(t, k)
    PROVE  /\ mirror'[job'[t].pk] = job'[t].row
           /\ UNCHANGED <<login, agent, group, duty>> /\ May("edit")
           /\ job' = [job EXCEPT ![t] = job'[t]]
           /\ \/ mirror' = mirror
              \/ \E p \in FreeIds(mirror), r \in Mirror :
                    /\ mirror' = Put(mirror, p, r) /\ k \in Rows(login)
                    /\ Fits(r, login[k]) /\ r.role \in {"Admin", "Standard"}
                    /\ Called(mirror, login[k].name) = {}
  <1> DEFINE m   == TheOne(Called(mirror, login[k].name))
             new == [name |-> login[k].name, status |-> StatusOf(login[k].active),
                     role |-> IF login[k].super THEN "Admin" ELSE "Standard"]
             pk  == IF m = Nobody THEN FirstFree(mirror) ELSE m
             got == IF m = Nobody THEN new ELSE mirror[m]
             job1(q, r) == [h |-> "edit", key |-> k, pk |-> q, row |-> r]
  <1>0. AccessTypeOK  BY DEF StaffInv
  <1>1. login \in Logins /\ mirror \in Mirrors /\ job \in [Threads -> Jobs]
    BY <1>0, Tables DEF AccessTypeOK
  <1>2. UNCHANGED <<login, agent, group, duty>> /\ May("edit")  BY DEF OpenEdit, Staffing
  <1>3. \A q, r : job1(q, r).pk = q /\ job1(q, r).row = r  OBVIOUS
  <1> HIDE DEF job1
  <1>4. ASSUME NEW q, NEW r, job' = [job EXCEPT ![t] = job1(q, r)]
        PROVE  job'[t].pk = q /\ job'[t].row = r /\ job' = [job EXCEPT ![t] = job'[t]]
    BY <1>1, <1>3, <1>4
  <1>5. CASE mirror[k] # Gone
    <2>1. job' = [job EXCEPT ![t] = job1(k, mirror[k])] /\ mirror' = mirror
      BY <1>5 DEF OpenEdit, job1
    <2> QED  BY <1>2, <1>4, <2>1
  <1>6. CASE mirror[k] = Gone
    <2>1. login[k] # Gone /\ mirror' = Put(mirror, pk, got)
          /\ job' = [job EXCEPT ![t] = job1(pk, got)]
      BY <1>6 DEF OpenEdit, job1, Put
    <2>2. login[k] \in Login /\ k \in Rows(login)  BY <1>1, <2>1 DEF Logins, Rows
    <2>3. CASE m # Nobody
      <3>1. m \in Ids  BY <2>3, TheOneCalled
      <3>2. pk = m /\ got = mirror[m]  BY <2>3
      <3> HIDE DEF m, pk, got
      <3>3. mirror' = mirror  BY <1>1, <2>1, <3>1, <3>2, PutSame
      <3> QED  BY <1>2, <1>4, <2>1, <3>2, <3>3
    <2>4. CASE m = Nobody
      <3>1. Called(mirror, login[k].name) = {}  BY <2>4, TheOneCalled
      <3>2. FirstFree(mirror) \in FreeIds(mirror)  BY <1>6, FirstPicked DEF FreeIds, Rows
      <3>3. pk = FirstFree(mirror) /\ got = new  BY <2>4
      <3>4. new \in Mirror /\ Fits(new, login[k]) /\ new.role \in {"Admin", "Standard"}
        BY <2>2, RolesThere DEF Login, Mirror, StatusOf, Fits
      <3> HIDE DEF m, pk, got, new
      <3>5. pk \in Ids  BY <3>2, <3>3 DEF FreeIds
      <3>6. mirror'[pk] = got  BY <1>1, <2>1, <3>3, <3>4, <3>5, PutMirrorIn
      <3> QED  BY <1>2, <1>4, <2>1, <2>2, <3>1, <3>2, <3>3, <3>4, <3>6
    <2> QED  BY <2>3, <2>4
  <1> QED  BY <1>5, <1>6

LEMMA OpenEditFollows ==
    ASSUME StaffKept, StaffInv, NEW t \in Threads, NEW k \in Ids, OpenEdit(t, k)
    PROVE  Follows(login', mirror', agent', duty') /\ CsrRowsOld
  <1>0. AccessTypeOK /\ Follows(login, mirror, agent, duty)  BY DEF StaffInv
  <1>1. login \in Logins /\ mirror \in Mirrors  BY <1>0, Tables
  <1>2. "link" \notin duty /\ "agent" \notin duty  BY <1>0, OpenEditIs, Duty DEF May
  <1>3. UNCHANGED <<login, agent, duty>>  BY OpenEditIs
  <1>4. CASE mirror' = mirror  BY <1>0, <1>3, <1>4 DEF CsrRowsOld
  <1>5. CASE mirror' # mirror
    <2>1. PICK p \in FreeIds(mirror), r \in Mirror :
              /\ mirror' = Put(mirror, p, r) /\ k \in Rows(login)
              /\ Fits(r, login[k]) /\ r.role \in {"Admin", "Standard"}
              /\ Called(mirror, login[k].name) = {}
      BY <1>5, OpenEditIs
    <2>2. p \in Ids /\ p \notin Rows(mirror)  BY DEF FreeIds
    <2>3. login[k] \in Login /\ Put(login, k, login[k]) = login /\ k \in Ids
      BY <1>0, <1>1, <2>1, PutSame, Tables
    <2>4. \A x \in Rows(login) \ {k} : login[x].name # login[k].name
      BY <1>0, <2>1 DEF Follows, Named
    <2>5. \A x \in Rows(mirror) : mirror[x].name # login[k].name  BY <2>1 DEF Called
    <2>6. Named(login) /\ Named(mirror') /\ Stands(login, mirror')
      BY <1>0, <1>1, <2>1, <2>2, <2>3, <2>4, <2>5, BothWritten DEF Follows
    <2>7. Rows(mirror') = Rows(mirror) \cup {p} /\ mirror'[p] = r
          /\ \A x \in Rows(mirror) : mirror'[x] = mirror[x]
      BY <1>1, <2>1, <2>2, PutMirrorIn
    <2>8. CsrRowsOld  BY <2>1, <2>7 DEF CsrRowsOld
    <2> QED  BY <1>2, <1>3, <2>6, <2>8 DEF Follows
  <1> QED  BY <1>4, <1>5

\* What is saved is the row that was read, and its login.
Saves(n, r, i, p, u, got) ==
    /\ login' = Put(login, i, u) /\ mirror' = Put(mirror, p, got)
    /\ Fits(got, u) /\ u.name = n /\ got.role = r
    /\ Fits(mirror[p], login[i])
    /\ u.groups = GroupsAfter(login[i], mirror[p].role, r)
    /\ \A x \in Rows(login) \ {i} : login[x].name # n
    /\ \A x \in Rows(mirror) \ {p} : mirror[x].name # n
LEMMA SaveEditMoves ==
    ASSUME StaffInv, NEW t \in Threads, NEW n \in Names, NEW r \in Offered,
           NEW status \in {"Active", "Inactive"}, SaveEdit(t, n, r, status),
           ~(login' = login /\ mirror' = mirror)
    PROVE  \E i \in Rows(login), p \in Rows(mirror), u \in Login, got \in Mirror :
             Saves(n, r, i, p, u, got)
  <1>0. AccessTypeOK /\ Named(login) /\ Stands(login, mirror)
    BY DEF StaffInv, Follows
  <1>e. /\ mirror' = Put(mirror, job[t].pk, [name |-> n, role |-> r, status |-> status])
        /\ [name |-> n, role |-> r, status |-> status] \in Mirror
        /\ Called(mirror, n) \subseteq {job[t].pk}
        /\ n = job[t].row.name \/ Called(login, n) = {}
        /\ Sought(t) = Nobody => login' = login
        /\ Sought(t) # Nobody => \E u \in Login :
             login' = Put(login, Sought(t), u) /\ SavedAs(u, t, n, r, status)
    BY <1>0, SaveEditIs, Zenon
  <1> DEFINE i == Sought(t)
             p == job[t].pk
             got == [name |-> n, role |-> r, status |-> status]
  <1>1. /\ mirror' = Put(mirror, p, got) /\ got \in Mirror
        /\ Called(mirror, n) \subseteq {p}
        /\ n = job[t].row.name \/ Called(login, n) = {}
    BY <1>e
  <1>u. i # Nobody => \E u \in Login : login' = Put(login, i, u) /\ SavedAs(u, t, n, r, status)
    BY <1>e
  <1>2. job[t].h = "edit" /\ mirror[p] = job[t].row /\ job[t] \in EditJob
    <2>1. job[t] \in Jobs /\ job[t].h = "edit"  BY <1>0 DEF SaveEdit, AccessTypeOK
    <2> QED  BY <2>1, JobsHaveNames DEF StaffInv, EditsFresh
  <1>3. p \in Ids /\ mirror[p] \in Mirror /\ p \in Rows(mirror)
    <2>1. p \in Ids /\ job[t].row \in Mirror  BY <1>2 DEF EditJob
    <2> QED  BY <1>2, <2>1, RowsAreNotGone DEF Rows
  <1>4. PICK x \in Rows(login) : Fits(mirror[p], login[x])  BY <1>0, <1>3 DEF Stands
  <1>5. x \in Called(login, job[t].row.name)  BY <1>2, <1>4 DEF Called, Fits
  <1>6. i # Nobody /\ i \in Rows(login) /\ login[i].name = job[t].row.name
    BY <1>5, TheOneCalled DEF Sought, Rows
  <1>7. i = x  BY <1>0, <1>2, <1>4, <1>6 DEF Named, Fits
  <1>8. PICK u \in Login : login' = Put(login, i, u) /\ SavedAs(u, t, n, r, status)
    BY <1>6, <1>u
  <1>9. Fits(got, u) /\ u.name = n /\ got.role = r
    BY <1>8 DEF Fits, SavedAs, StatusOf
  <1>10. u.groups = GroupsAfter(login[i], mirror[p].role, r)
    BY <1>2, <1>8 DEF SavedAs
  <1>11. \A y \in Rows(login) \ {i} : login[y].name # n
    BY <1>0, <1>1, <1>6 DEF Called, Named
  <1>12. \A y \in Rows(mirror) \ {p} : mirror[y].name # n
    BY <1>1 DEF Called
  <1> HIDE DEF i, p, got
  <1>13. mirror' = Put(mirror, p, got) /\ Fits(mirror[p], login[i])
    BY <1>1, <1>4, <1>7
  <1> i \in Rows(login) /\ p \in Rows(mirror) /\ got \in Mirror
    BY <1>1, <1>3, <1>6
  <1> WITNESS i \in Rows(login), p \in Rows(mirror), u \in Login, got \in Mirror
  <1> QED  BY <1>8, <1>9, <1>10, <1>11, <1>12, <1>13 DEF Saves

LEMMA SaveEditFollows ==
    ASSUME StaffKept, StaffInv, NEW t \in Threads, NEW n \in Names, NEW r \in Offered,
           NEW status \in {"Active", "Inactive"}, SaveEdit(t, n, r, status)
    PROVE  Follows(login', mirror', agent', duty')
  <1>0. AccessTypeOK /\ Follows(login, mirror, agent, duty)  BY DEF StaffInv
  <1>1. UNCHANGED <<agent, duty>> /\ job[t].h = "edit"  BY DEF SaveEdit, Staffing
  <1>2. "link" \notin duty /\ "agent" \notin duty
    BY <1>0, <1>1, Duty DEF StaffInv, EditsFresh
  <1>3. CASE login' = login /\ mirror' = mirror  BY <1>0, <1>1, <1>3
  <1>4. CASE ~(login' = login /\ mirror' = mirror)
    <2>1. PICK i \in Rows(login), p \in Rows(mirror), u \in Login, got \in Mirror :
             Saves(n, r, i, p, u, got)
      BY <1>4, SaveEditMoves
    <2>a. /\ login' = Put(login, i, u) /\ mirror' = Put(mirror, p, got)
          /\ Fits(got, u) /\ u.name = n /\ Fits(mirror[p], login[i])
          /\ \A x \in Rows(login) \ {i} : login[x].name # n
          /\ \A x \in Rows(mirror) \ {p} : mirror[x].name # n
      BY <2>1 DEF Saves
    <2>2. login \in Logins /\ mirror \in Mirrors /\ i \in Ids /\ p \in Ids  BY <1>0, Tables
    <2>3. \A x \in Rows(mirror) \ {p} : mirror[x].name # login[i].name
      BY <1>0, <2>a DEF Follows, Named, Fits
    <2>4. Named(login') /\ Named(mirror') /\ Stands(login', mirror')
      BY <1>0, <2>a, <2>2, <2>3, BothWritten DEF Follows
    <2> QED  BY <1>1, <1>2, <2>4 DEF Follows
  <1> QED  BY <1>3, <1>4

\* A member leaves, or what is left of one is taken off the page.
LEMMA RemovedFollows ==
    ASSUME StaffInv, NEW k \in Ids, NEW m \in Ids \cup {Nobody}, NEW n, NEW i,
           IsMember(k, m, n, i), Removed(m, i)
    PROVE  Follows(login', mirror', agent', duty) /\ CsrRowsOld
  <1>0. AccessTypeOK /\ Follows(login, mirror, agent, duty)  BY DEF StaffInv
  <1>1. login \in Logins /\ mirror \in Mirrors  BY <1>0, Tables
  <1>2. /\ agent' = [a \in Agents |-> IF agent[a] = i THEN NoAgent ELSE agent[a]]
        /\ login' = IF i = Nobody THEN login ELSE Put(login, i, Gone)
        /\ mirror' = IF m = Nobody THEN mirror ELSE Put(mirror, m, Gone)
    BY DEF Removed
  <1>3. i # Nobody => i \in Ids /\ i \in Rows(login) /\ login[i].name = n
    BY TheOneCalled DEF IsMember, Rows
  <1>4. IF m = Nobody THEN Called(mirror, n) = {} ELSE m \in Rows(mirror) /\ mirror[m].name = n
    BY DEF IsMember, Rows
  <1>5. /\ mirror' \in Mirrors
        /\ \A x \in Rows(mirror') : x \in Rows(mirror) /\ mirror'[x] = mirror[x] /\ x # m
    <2>1. CASE m = Nobody
      BY <1>1, <1>2, <2>1, RowsAreIds, RolesThere DEF Nobody
    <2>2. CASE m # Nobody
      <3>1. m \in Ids /\ mirror' = Put(mirror, m, Gone)  BY <1>2, <2>2
      <3> QED  BY <1>1, <3>1, MirrorOut
    <2> QED  BY <2>1, <2>2
  <1>6. \A x \in Rows(login') : x \in Rows(login) /\ login'[x] = login[x] /\ x # i
    <2>1. CASE i = Nobody
      <3>1. Nobody \notin Ids /\ login' = login  BY <1>2, <2>1, RolesThere DEF Nobody
      <3> QED  BY <2>1, <3>1, RowsAreIds
    <2>2. CASE i # Nobody
      <3>1. i \in Ids /\ login' = Put(login, i, Gone)  BY <1>2, <1>3, <2>2
      <3> QED  BY <1>1, <3>1, LoginOut
    <2> QED  BY <2>1, <2>2
  <1>7. \A x \in Rows(mirror') : mirror'[x].name # n
    BY <1>0, <1>4, <1>5 DEF Follows, Named, Called
  <1>8. Named(login') /\ Named(mirror') /\ Stands(login', mirror')
    <2>1. CASE i = Nobody
      BY <1>0, <1>2, <1>5, <2>1 DEF Follows, Named, Stands
    <2>2. CASE i # Nobody
      <3>1. login' = Put(login, i, Gone) /\ i \in Ids /\ login[i].name = n  BY <1>2, <1>3, <2>2
      <3>2. Named(login) /\ Named(mirror) /\ Stands(login, mirror)  BY <1>0 DEF Follows
      <3>3. \A x \in Rows(mirror') : x \in Rows(mirror) /\ mirror'[x] = mirror[x]  BY <1>5
      <3>4. \A x \in Rows(mirror') : mirror'[x].name # login[i].name  BY <1>7, <3>1
      <3> QED  BY <1>1, <1>5, <3>1, <3>2, <3>3, <3>4, LoginWritten
    <2> QED  BY <2>1, <2>2
  <1>9. Ready(mirror) => Ready(mirror')  BY <1>5 DEF Ready
  <1>10. Bare(login, mirror) => Bare(login', mirror')  BY <1>5, <1>6 DEF Bare, Called
  <1>11. ASSUME Linked(login, agent) PROVE Linked(login', agent')
    <2> SUFFICES ASSUME NEW a \in Agents, agent'[a] \in Ids PROVE Unstaffed(login'[agent'[a]])
      BY DEF Linked
    <2>1. agent'[a] = agent[a] /\ agent[a] # i  BY <1>2, RolesThere DEF NoAgent
    <2>2. login'[agent[a]] = login[agent[a]]
      <3>1. agent[a] \in Ids  BY <2>1
      <3>2. CASE i = Nobody  BY <1>2, <3>2
      <3>3. CASE i # Nobody
        <4>1. login' = Put(login, i, Gone) /\ i \in Ids  BY <1>2, <1>3, <3>3
        <4> QED  BY <1>1, <2>1, <3>1, <4>1, LoginOut
      <3> QED  BY <3>2, <3>3
    <2> QED  BY <1>11, <2>1, <2>2 DEF Linked
  <1>12. CsrRowsOld  BY <1>5 DEF CsrRowsOld
  <1> QED  BY <1>0, <1>8, <1>9, <1>10, <1>11, <1>12 DEF Follows

\* The row of a member goes, its login stays and is switched off.
LEMMA SwitchedOffMirror ==
    ASSUME StaffInv, NEW k \in Ids, NEW m \in Ids \cup {Nobody}, NEW n, NEW i,
           NEW u \in Login, IsMember(k, m, n, i), SwitchedOff(m, n, i, u)
    PROVE  /\ Follows(login', mirror', agent, {}) /\ mirror' \in Mirrors
           /\ \/ \A x \in Rows(mirror') : x \in Rows(mirror) /\ mirror'[x] = mirror[x]
                                          /\ mirror'[x].name # n
              \/ /\ u.super /\ \E p \in Ids : 
                    /\ p \in Rows(mirror') /\ mirror'[p].role = "Admin" /\ mirror'[p].name = n
                    /\ \A x \in Rows(mirror') \ {p} : x \in Rows(mirror) /\ mirror'[x] = mirror[x]
  <1>0. Named(login) /\ Named(mirror) /\ Stands(login, mirror)
    BY DEF StaffInv, Follows
  <1>1. login \in Logins /\ mirror \in Mirrors  BY Tables DEF StaffInv
  <1>2. /\ i # Nobody /\ u.name = n
        /\ login' = Put(login, i, u)
        /\ mirror' = IF m = Nobody THEN Synced(mirror, u) ELSE Put(Synced(mirror, u), m, Gone)
    BY DEF SwitchedOff
  <1>3. i \in Ids /\ i \in Rows(login) /\ login[i].name = n
    BY <1>2, TheOneCalled DEF IsMember, Rows
  <1>4. IF m = Nobody THEN Called(mirror, n) = {} ELSE m \in Rows(mirror) /\ mirror[m].name = n
    BY DEF IsMember, Rows
  <1>5. u.super /\ Called(mirror, u.name) = {} => FreeIds(mirror) # {}
    BY <1>0, <1>1, <1>2, <1>3, ALoginWithoutRow
  <1>6. \A x \in Rows(login) \ {i} : login[x].name # u.name
    BY <1>0, <1>2, <1>3 DEF Named
  <1>a. ASSUME mirror' \in Mirrors,
               \A x \in Rows(mirror') : x \in Rows(mirror) /\ mirror'[x] = mirror[x]
                                        /\ mirror'[x].name # n
        PROVE  Follows(login', mirror', agent, {})
    <2>1. u # Gone  BY RowsAreNotGone
    <2>2. Named(login') /\ Named(mirror') /\ Stands(login', mirror')
      BY <1>0, <1>1, <1>2, <1>3, <1>6, <1>a, LoginWritten
    <2> QED  BY <2>2 DEF Follows
  <1>7. CASE m = Nobody /\ ~u.super
    <2>1. mirror' = mirror  BY <1>0, <1>1, <1>2, <1>7, SyncedIs
    <2>2. \A x \in Rows(mirror) : mirror[x].name # n  BY <1>4, <1>7 DEF Called
    <2> QED  BY <1>1, <1>a, <2>1, <2>2
  <1>8. CASE m = Nobody /\ u.super
    <2>1. PICK p \in Ids, r \in Mirror :
                /\ Synced(mirror, u) = Put(mirror, p, r) /\ Fits(r, u) /\ r.role = "Admin"
                /\ \A x \in Rows(mirror) \ {p} : mirror[x].name # u.name
      BY <1>0, <1>1, <1>5, <1>8, SyncedIs
    <2>2. mirror' = Put(mirror, p, r)  BY <1>2, <1>8, <2>1
    <2>3. \A x \in Rows(mirror) \ {p} : mirror[x].name # login[i].name
      BY <1>2, <1>3, <2>1
    <2>4. Named(login') /\ Named(mirror') /\ Stands(login', mirror')
      BY <1>0, <1>1, <1>2, <1>3, <1>6, <2>1, <2>2, <2>3, BothWritten
    <2>5. mirror' \in Mirrors /\ Rows(mirror') = Rows(mirror) \cup {p} /\ mirror'[p] = r
          /\ \A x \in Rows(mirror) \ {p} : mirror'[x] = mirror[x]
      BY <1>1, <2>1, <2>2, PutMirrorIn
    <2>6. r.name = n  BY <1>2, <2>1 DEF Fits
    <2> QED  BY <1>8, <2>1, <2>4, <2>5, <2>6 DEF Follows
  <1>9. CASE m # Nobody
    <2>1. m \in Ids /\ mirror' = Put(Synced(mirror, u), m, Gone)  BY <1>2, <1>9
    <2>2. mirror' = Put(mirror, m, Gone)
      <3>1. CASE ~u.super
        BY <1>0, <1>1, <2>1, <3>1, SyncedIs
      <3>2. CASE u.super
        <4>1. PICK p \in Ids, r \in Mirror :
                /\ Synced(mirror, u) = Put(mirror, p, r)
                /\ \A x \in Rows(mirror) \ {p} : mirror[x].name # u.name
          BY <1>0, <1>1, <1>5, <3>2, SyncedIs
        <4>2. p = m  BY <1>2, <1>4, <1>9, <4>1
        <4> QED  BY <1>1, <2>1, <4>1, <4>2, PutSame
      <3> QED  BY <3>1, <3>2
    <2>3. /\ mirror' \in Mirrors /\ Rows(mirror') = Rows(mirror) \ {m}
          /\ \A x \in Rows(mirror) \ {m} : mirror'[x] = mirror[x]
      BY <1>1, <2>1, <2>2, MirrorOut
    <2>4. \A x \in Rows(mirror) \ {m} : mirror[x].name # n
      BY <1>0, <1>4, <1>9 DEF Named
    <2> QED  BY <1>a, <2>3, <2>4
  <1> QED  BY <1>7, <1>8, <1>9

LEMMA SwitchedOffFollows ==
    ASSUME StaffInv, NEW k \in Ids, NEW m \in Ids \cup {Nobody}, NEW n, NEW i,
           NEW u \in Login, IsMember(k, m, n, i), SwitchedOff(m, n, i, u)
    PROVE  Follows(login', mirror', agent', duty) /\ CsrRowsOld
  <1>0. AccessTypeOK /\ Follows(login, mirror, agent, duty)  BY DEF StaffInv
  <1>1. login \in Logins /\ mirror \in Mirrors /\ agent \in [Agents -> Ids \cup {NoUser, NoAgent}]
    BY <1>0, Tables, StaffTypes
  <1>2. /\ i # Nobody /\ u.name = n /\ ~u.staff /\ (u.super <=> login[i].super)
        /\ agent' = [a \in Agents |-> agent[a]]
        /\ login' = Put(login, i, u)
    BY DEF SwitchedOff
  <1>3. i \in Ids /\ i \in Rows(login) /\ login[i].name = n
    BY <1>2, TheOneCalled DEF IsMember, Rows
  <1>4. Named(login') /\ Named(mirror') /\ Stands(login', mirror') /\ mirror' \in Mirrors
    BY SwitchedOffMirror DEF Follows
  <1>5. agent' = agent  BY <1>1, <1>2
  <1>6. /\ Rows(login') = Rows(login) /\ login'[i] = u
        /\ \A x \in Ids : x # i => login'[x] = login[x]
    <2>1. login' = Put(login, i, u) /\ login \in Logins /\ i \in Ids  BY <1>1, <1>2, <1>3
    <2>2. Rows(login') = Rows(login) \cup {i} /\ login'[i] = u
          /\ \A x \in Ids : x # i => login'[x] = login[x]
      BY <2>1, PutLoginIn
    <2> QED  BY <1>3, <2>2
  <1>7. ASSUME NEW x \in Rows(mirror'), x \notin Rows(mirror) \/ mirror'[x] # mirror[x]
        PROVE  u.super /\ mirror'[x].role = "Admin" /\ mirror'[x].name = n
    BY <1>7, SwitchedOffMirror
  <1>8. Ready(mirror) => Ready(mirror')  BY <1>7 DEF Ready
  <1>9. CsrRowsOld  BY <1>7 DEF CsrRowsOld
  <1>10. ASSUME Bare(login, mirror), NEW x \in Rows(login'), Unstaffed(login'[x]),
                NEW y \in Rows(mirror'), mirror'[y].name = login'[x].name
         PROVE  FALSE
    <2>1. CASE y \notin Rows(mirror) \/ mirror'[y] # mirror[y]
      <3>1. u.super /\ login'[x].name = n  BY <1>7, <1>10, <2>1
      <3>2. x = i  BY <1>2, <1>3, <1>4, <1>6, <3>1 DEF Named
      <3> QED  BY <1>6, <1>10, <3>1, <3>2 DEF Unstaffed
    <2>2. CASE y \in Rows(mirror) /\ mirror'[y] = mirror[y] /\ x # i
      <3>1. x \in Rows(login) /\ login'[x] = login[x]  BY <1>6, <1>10, <2>2 DEF Rows
      <3>2. y \in Called(mirror, login[x].name)  BY <1>10, <2>2, <3>1 DEF Called
      <3> QED  BY <1>10, <3>1, <3>2 DEF Bare
    <2>3. CASE x = i
      <3>1. ~u.super /\ mirror'[y].name = n  BY <1>2, <1>6, <1>10, <2>3 DEF Unstaffed
      <3> QED  BY <3>1, SwitchedOffMirror
    <2> QED  BY <2>1, <2>2, <2>3
  <1>11. Bare(login, mirror) => Bare(login', mirror')  BY <1>10 DEF Bare, Called
  <1>12. Linked(login, agent) => Linked(login', agent)
    BY <1>2, <1>6 DEF Linked, Unstaffed
  <1> QED  BY <1>0, <1>4, <1>5, <1>8, <1>9, <1>11, <1>12 DEF Follows

LEMMA DeleteStaffFollows ==
    ASSUME StaffInv, NEW k \in Ids, NEW held \in BOOLEAN, DeleteStaff(k, held)
    PROVE  Follows(login', mirror', agent', duty') /\ CsrRowsOld
  <1>1. PICK m \in Ids \cup {Nobody} : \E n, i :
             /\ IsMember(k, m, n, i)
             /\ Removed(m, i) \/ \E u \in Login : SwitchedOff(m, n, i, u)
    BY DeleteStaffIs DEF StaffInv
  <1>2. PICK n, i : /\ IsMember(k, m, n, i)
                    /\ Removed(m, i) \/ \E u \in Login : SwitchedOff(m, n, i, u)
    BY <1>1
  <1>3. duty' = duty  BY DEF DeleteStaff, Staffing
  <1> QED  BY <1>2, <1>3, RemovedFollows, SwitchedOffFollows

LEMMA StaffSignsInFollows ==
    ASSUME StaffInv, NEW i \in Ids, StaffSignsIn(i)
    PROVE  Follows(login', mirror', agent', duty') /\ CsrRowsOld
  <1>0. AccessTypeOK /\ Follows(login, mirror, agent, duty)  BY DEF StaffInv
  <1>1. login \in Logins /\ mirror \in Mirrors  BY <1>0, Tables
  <1>2. /\ i \in Rows(login) /\ mirror' = Synced(mirror, login[i])
        /\ UNCHANGED <<login, agent, duty>>
    BY DEF StaffSignsIn, Staffing, Rows
  <1>3. login[i] \in Login /\ Put(login, i, login[i]) = login  BY <1>0, <1>1, <1>2, Tables, PutSame
  <1>4. login[i].super /\ Called(mirror, login[i].name) = {} => FreeIds(mirror) # {}
    BY <1>0, <1>1, <1>2, ALoginWithoutRow DEF Follows
  <1>5. CASE ~login[i].super
    <2>1. mirror' = mirror  BY <1>0, <1>1, <1>2, <1>3, <1>5, SyncedIs DEF Follows
    <2> QED  BY <1>0, <1>2, <2>1 DEF CsrRowsOld
  <1>6. CASE login[i].super
    <2>1. PICK p \in Ids, r \in Mirror :
                /\ Synced(mirror, login[i]) = Put(mirror, p, r) /\ Fits(r, login[i])
                /\ r.role = "Admin"
                /\ \A x \in Rows(mirror) \ {p} : mirror[x].name # login[i].name
      BY <1>0, <1>1, <1>3, <1>4, <1>6, SyncedIs DEF Follows
    <2>2. \A x \in Rows(login) \ {i} : login[x].name # login[i].name
      BY <1>0, <1>2 DEF Follows, Named
    <2>3. mirror' = Put(mirror, p, r)  BY <1>2, <2>1
    <2>4. Named(login) /\ Named(mirror') /\ Stands(login, mirror')
      BY <1>0, <1>1, <1>3, <2>1, <2>2, <2>3, BothWritten DEF Follows
    <2>5. /\ Rows(mirror') = Rows(mirror) \cup {p} /\ mirror'[p] = r
          /\ \A x \in Rows(mirror) \ {p} : mirror'[x] = mirror[x]
      BY <1>1, <2>1, <2>3, PutMirrorIn
    <2>6. CsrRowsOld  BY <2>1, <2>5 DEF CsrRowsOld
    <2>7. Ready(mirror) => Ready(mirror')  BY <2>1, <2>5 DEF Ready
    <2>8. ASSUME Bare(login, mirror), NEW x \in Rows(login), Unstaffed(login[x]),
                 NEW y \in Rows(mirror'), mirror'[y].name = login[x].name
          PROVE  FALSE
      <3>1. x # i  BY <1>6, <2>8 DEF Unstaffed
      <3>2. y # p
        <4>1. r.name = login[i].name  BY <2>1 DEF Fits
        <4> QED  BY <2>2, <2>5, <2>8, <3>1, <4>1
      <3>3. y \in Called(mirror, login[x].name)  BY <2>5, <2>8, <3>2 DEF Called
      <3> QED  BY <2>8, <3>3 DEF Bare
    <2>9. Bare(login, mirror) => Bare(login, mirror')  BY <2>8 DEF Bare, Called
    <2> QED  BY <1>0, <1>2, <2>4, <2>6, <2>7, <2>9 DEF Follows
  <1> QED  BY <1>5, <1>6
-----------------------------------------------------------------------------
(* Access: the set-up commands and the profiles of agents and technicians *)

\* Nothing the invariant looks at differs in the logins.
LEMMA SameLogins ==
    ASSUME StaffInv, mirror' = mirror, Rows(login') = Rows(login),
           \A i \in Rows(login) : \A r : Fits(r, login[i]) <=> Fits(r, login'[i]),
           \A i \in Rows(login) : login'[i].name = login[i].name,
           \A i \in Rows(login) : Unstaffed(login'[i]) => Unstaffed(login[i]),
           \A a \in Agents : agent'[a] \in Ids => agent'[a] = agent[a] /\ agent[a] \in Rows(login),
           \A i \in Rows(login) : Unstaffed(login[i]) => Unstaffed(login'[i])
    PROVE  Follows(login', mirror', agent', duty)
  <1>0. Follows(login, mirror, agent, duty)  BY DEF StaffInv
  <1>1. Named(login') /\ Named(mirror')  BY <1>0 DEF Follows, Named
  <1>2. Stands(login', mirror')  BY <1>0 DEF Follows, Stands
  <1>3. Bare(login, mirror) => Bare(login', mirror')  BY DEF Bare
  <1>4. Linked(login, agent) => Linked(login', agent')  BY DEF Linked
  <1> QED  BY <1>0, <1>1, <1>2, <1>3, <1>4 DEF Follows

LEMMA SetupFollows ==
    ASSUME StaffInv, SetupDispatch
    PROVE  Follows(login', mirror', agent', duty') /\ CsrRowsOld
  <1> DEFINE joins(i) == IF login[i].super THEN {"Admin"} ELSE {RoleOf(i)} \cap DOMAIN Matrix
  <1>1. /\ login' = [i \in Ids |-> IF login[i] = Gone THEN Gone
                                   ELSE [login[i] EXCEPT !.groups = @ \cup joins(i)]]
        /\ UNCHANGED <<mirror, agent, duty>>
    BY DEF SetupDispatch, Staffing
  <1>0. AccessTypeOK  BY DEF StaffInv
  <1> HIDE DEF joins
  <1>2. ASSUME NEW i \in Rows(login)
        PROVE  /\ login'[i] = [login[i] EXCEPT !.groups = @ \cup joins(i)]
               /\ i \in Ids /\ login[i] \in Login
    BY <1>0, <1>1, <1>2, Tables DEF Rows
  <1>3. ASSUME NEW u \in Login, NEW S
        PROVE  LET v == [u EXCEPT !.groups = u.groups \cup S]
               IN  /\ v # Gone /\ v.name = u.name /\ v.staff = u.staff
                   /\ (v.super <=> u.super) /\ (v.active <=> u.active)
    BY DEF Login, Gone
  <1>4. ASSUME NEW i \in Rows(login)
        PROVE  /\ login'[i] # Gone /\ login'[i].name = login[i].name
               /\ login'[i].staff = login[i].staff
               /\ (login'[i].super <=> login[i].super)
               /\ (login'[i].active <=> login[i].active)
    <2>1. PICK u \in Login : u = login[i]  BY <1>2
    <2>2. login'[i] = [u EXCEPT !.groups = u.groups \cup joins(i)]  BY <1>2, <2>1
    <2> QED  BY <1>3, <2>1, <2>2
  <1>5. Rows(login') = Rows(login)
    <2>1. \A i \in Ids : login[i] = Gone => login'[i] = Gone  BY <1>1
    <2> QED  BY <1>4, <2>1 DEF Rows
  <1>6. \A i \in Rows(login) : \A r : Fits(r, login[i]) <=> Fits(r, login'[i])
    BY <1>4 DEF Fits, StatusOf
  <1>7. \A i \in Rows(login) : Unstaffed(login'[i]) <=> Unstaffed(login[i])
    BY <1>4 DEF Unstaffed
  <1>8. \A a \in Agents : agent'[a] \in Ids => agent'[a] = agent[a] /\ agent[a] \in Rows(login)
    BY <1>0, <1>1 DEF AccessTypeOK, KeysHold, Rows
  <1> QED  BY <1>1, <1>4, <1>5, <1>6, <1>7, <1>8, SameLogins DEF CsrRowsOld

LEMMA AgentRowsFollow ==
    ASSUME StaffInv, NEW a \in Agents, AddAgent(a) \/ DeleteAgent(a)
    PROVE  Follows(login', mirror', agent', duty') /\ CsrRowsOld
  <1>0. AccessTypeOK  BY DEF StaffInv
  <1>1. UNCHANGED <<login, mirror, duty>> /\ \A x \in Agents : agent'[x] = agent[x] \/ agent'[x] \notin Ids
    BY <1>0, RolesThere DEF AddAgent, DeleteAgent, Staffing, AccessTypeOK, StaffTyped, NoUser, NoAgent
  <1>2. \A x \in Agents : agent'[x] \in Ids => agent'[x] = agent[x] /\ agent[x] \in Rows(login)
    BY <1>0, <1>1 DEF AccessTypeOK, KeysHold, Rows
  <1> QED  BY <1>1, <1>2, SameLogins DEF CsrRowsOld

LEMMA SetupLoginFollows ==
    ASSUME StaffKept, StaffInv, NEW a \in Agents, NEW n \in Names, SetupAgentLogin(a, n)
    PROVE  Follows(login', mirror', agent', duty') /\ CsrRowsOld
  <1> DEFINE e == TheOne(Called(login, n))
             linked == agent[a] # NoUser
             i     == IF linked THEN agent[a] ELSE IF e # Nobody THEN e ELSE FirstFree(login)
             old   == IF login[i] = Gone THEN {} ELSE login[i].groups
             u == [name |-> n, staff |-> FALSE, super |-> FALSE,
                   active |-> TRUE, groups |-> old]
  <1>0. AccessTypeOK /\ Follows(login, mirror, agent, duty)  BY DEF StaffInv
  <1>1. /\ agent[a] # NoAgent /\ "agent" \in duty
        /\ e # Nobody => IF linked THEN e = agent[a] ELSE Unstaffed(login[e])
        /\ ~linked /\ e = Nobody => FreeIds(login) # {}
        /\ login' = Put(login, i, u) /\ agent' = [agent EXCEPT ![a] = i]
        /\ UNCHANGED <<mirror, duty>>
    BY DEF SetupAgentLogin, Staffing, Put, May, Unstaffed
  <1>2. login \in Logins /\ mirror \in Mirrors /\ agent \in [Agents -> Ids \cup {NoUser, NoAgent}]
    BY <1>0, Tables, StaffTypes
  <1>3. Bare(login, mirror) /\ Linked(login, agent) /\ "link" \notin duty
    BY <1>0, <1>1, Duty DEF Follows
  <1>4. u.name = n /\ Unstaffed(u)  BY DEF Unstaffed
  <1>5. /\ i \in Ids
        /\ i \in Rows(login) => Unstaffed(login[i]) \* it has no row on the page
        /\ \A x \in Rows(login) : login[x].name = n => x = i
    <2>1. CASE linked
      <3>1. i = agent[a] /\ i \in Ids  BY <1>1, <1>2, <2>1
      <3>2. Unstaffed(login[i])  BY <1>3, <3>1 DEF Linked
      <3>3. ASSUME NEW x \in Rows(login), login[x].name = n PROVE x = i
        <4>1. x \in Called(login, n)  BY <3>3 DEF Called
        <4>2. e \in Called(login, n) /\ e = agent[a]  BY <1>1, <2>1, <4>1, TheOneCalled
        <4>3. e = x  BY <1>0, <4>1, <4>2 DEF Follows, Named, Called
        <4> QED  BY <3>1, <4>2, <4>3
      <3> QED  BY <3>1, <3>2, <3>3
    <2>2. CASE ~linked /\ e # Nobody
      <3>1. i = e /\ e \in Called(login, n) /\ e \in Ids /\ Unstaffed(login[e])
        BY <1>1, <2>2, TheOneCalled
      <3>2. \A x \in Rows(login) : login[x].name = n => x = e
        BY <1>0, <3>1 DEF Follows, Named, Called
      <3> HIDE DEF i, e
      <3> QED  BY <3>1, <3>2
    <2>3. CASE ~linked /\ e = Nobody
      <3>1. Called(login, n) = {} /\ i = FirstFree(login) /\ i \in FreeIds(login)
        BY <1>1, <2>3, TheOneCalled, FirstPicked
      <3> HIDE DEF i, e
      <3> QED  BY <3>1 DEF Called, FreeIds
    <2> QED  BY <2>1, <2>2, <2>3
  <1>6. u \in Login
    <2> HIDE DEF i
    <2>1. login[i] \in Login \cup {Gone}  BY <1>2, <1>5 DEF Logins
    <2>2. old \in SUBSET Roles  BY <2>1 DEF Login
    <2> HIDE DEF old
    <2> QED  BY <2>2 DEF Login
  <1> HIDE DEF u, i, e
  <1>7. ASSUME login[i] # Gone, NEW x \in Rows(mirror), mirror[x].name = login[i].name PROVE FALSE
    <2>1. i \in Rows(login) /\ Unstaffed(login[i])  BY <1>5, <1>7 DEF Rows
    <2>2. x \in Called(mirror, login[i].name)  BY <1>7 DEF Called
    <2> QED  BY <1>3, <2>1, <2>2 DEF Bare
  <1>8. \A x \in Rows(login) \ {i} : login[x].name # n  BY <1>5
  <1>9. u # Gone /\ u \in Login \cup {Gone}  BY <1>6, RowsAreNotGone
  <1>10. Named(login') /\ Named(mirror') /\ Stands(login', mirror')
    <2>1. Named(login) /\ Named(mirror) /\ Stands(login, mirror) /\ i \in Ids /\ mirror' = mirror
          /\ login' = Put(login, i, u)
      BY <1>0, <1>1, <1>5 DEF Follows
    <2> QED  BY <1>2, <1>4, <1>7, <1>8, <1>9, <2>1, LoginWritten
  <1>11. Rows(login') = Rows(login) \cup {i} /\ login'[i] = u
         /\ \A x \in Ids : x # i => login'[x] = login[x]
    BY <1>1, <1>2, <1>5, <1>6, PutLoginIn
  <1>12. ASSUME NEW x \in Rows(login'), Unstaffed(login'[x]),
                NEW y \in Rows(mirror), mirror[y].name = login'[x].name
         PROVE  FALSE
    <2>1. PICK z \in Rows(login) : Fits(mirror[y], login[z])  BY <1>0 DEF Follows, Stands
    <2>2. mirror[y].name = login[z].name  BY <2>1 DEF Fits
    <2>3. CASE x = i
      <3>1. login[z].name = n  BY <1>4, <1>11, <1>12, <2>2, <2>3
      <3>2. z = i  BY <1>5, <3>1
      <3> QED  BY <1>7, <2>2, <3>2 DEF Rows
    <2>4. CASE x # i
      <3>1. x \in Rows(login) /\ login'[x] = login[x]  BY <1>11, <2>4, RowsAreIds
      <3>2. y \in Called(mirror, login[x].name)  BY <1>12, <3>1 DEF Called
      <3> QED  BY <1>3, <1>12, <3>1, <3>2 DEF Bare
    <2> QED  BY <2>3, <2>4
  <1>13. Bare(login', mirror')  BY <1>1, <1>12 DEF Bare, Called
  <1>14. Linked(login', agent')
    <2> SUFFICES ASSUME NEW x \in Agents, agent'[x] \in Ids PROVE Unstaffed(login'[agent'[x]])
      BY DEF Linked
    <2>1. CASE agent'[x] = i  BY <1>4, <1>11, <2>1
    <2>2. CASE agent'[x] # i
      <3>1. agent'[x] = agent[x]  BY <1>1, <1>2, <2>2
      <3> QED  BY <1>3, <1>11, <2>2, <3>1 DEF Linked
    <2> QED  BY <2>1, <2>2
  <1> QED  BY <1>1, <1>3, <1>10, <1>13, <1>14 DEF Follows, CsrRowsOld

LEMMA ToggleFollows ==
    ASSUME StaffInv, NEW a \in Agents, ToggleAgentLogin(a)
    PROVE  Follows(login', mirror', agent', duty') /\ CsrRowsOld
  <1> DEFINE i == agent[a]
             u == [login[i] EXCEPT !.active = ~@]
  <1>0. AccessTypeOK /\ Follows(login, mirror, agent, duty)  BY DEF StaffInv
  <1>1. /\ "agent" \in duty /\ i \in Ids /\ login' = Put(login, i, u)
        /\ mirror' = Synced(mirror, login'[i])
        /\ UNCHANGED <<agent, duty>>
    BY DEF ToggleAgentLogin, Staffing, Put, May
  <1>2. login \in Logins /\ mirror \in Mirrors  BY <1>0, Tables
  <1>3. Bare(login, mirror) /\ Linked(login, agent) /\ Named(login) /\ Named(mirror)
        /\ Stands(login, mirror)
    BY <1>0, <1>1 DEF Follows
  <1>4. i \in Rows(login) /\ login[i] \in Login /\ Unstaffed(login[i])
    <2>1. i \in Rows(login)  BY <1>0, <1>1 DEF AccessTypeOK, KeysHold, Rows
    <2> QED  BY <1>0, <1>1, <1>3, <2>1, Tables DEF Linked
  <1> HIDE DEF i
  <1>5. u \in Login /\ u.name = login[i].name /\ Unstaffed(u)
    BY <1>4 DEF Login, Unstaffed
  <1> HIDE DEF u
  <1>6. Rows(login') = Rows(login) /\ login'[i] = u
        /\ \A x \in Ids : x # i => login'[x] = login[x]
    <2>1. Rows(login') = Rows(login) \cup {i} /\ login'[i] = u
          /\ \A x \in Ids : x # i => login'[x] = login[x]
      BY <1>1, <1>2, <1>5, PutLoginIn
    <2> QED  BY <1>4, <2>1
  <1>7. mirror' = mirror
    <2>1. ~u.super  BY <1>5 DEF Unstaffed
    <2> QED  BY <1>1, <1>2, <1>3, <1>5, <1>6, <2>1, SyncedIs
  <1>8. \A x \in Rows(mirror) : mirror[x].name # login[i].name
    BY <1>3, <1>4 DEF Bare, Called
  <1>9. \A x \in Rows(login) \ {i} : login[x].name # u.name  BY <1>3, <1>4, <1>5 DEF Named
  <1>10. Named(login') /\ Stands(login', mirror)
    <2>1. u \in Login \cup {Gone} /\ \A x \in Rows(mirror) : x \in Rows(mirror) /\ mirror[x] = mirror[x]
      BY <1>5
    <2> QED  BY <1>1, <1>2, <1>3, <1>8, <1>9, <2>1, LoginWritten
  <1>11. \A x \in Rows(login) : login'[x].name = login[x].name
         /\ (Unstaffed(login'[x]) <=> Unstaffed(login[x]))
    BY <1>4, <1>5, <1>6, RowsAreIds
  <1>12. Bare(login', mirror)  BY <1>3, <1>6, <1>11 DEF Bare
  <1>13. \A x \in Agents : agent[x] \in Ids => agent[x] \in Rows(login)
    BY <1>0 DEF AccessTypeOK, KeysHold, Rows
  <1>14. Linked(login', agent)  BY <1>3, <1>11, <1>13 DEF Linked
  <1> QED  BY <1>0, <1>1, <1>3, <1>7, <1>10, <1>12, <1>14 DEF Follows, CsrRowsOld

\* A persona has the row its role came from.
LEMMA PersonasAreActive ==
    ASSUME StaffInv, "link" \in duty, NEW i \in Rows(login), NEW k \in Rows(mirror),
           Fits(mirror[k], login[i]),
           \/ RoleOf(i) = "Technician"
           \/ RoleOf(i) = "Agent" /\ AgentsOf(i) = {}
    PROVE  ~login[i].super /\ login[i].active
  <1>0. AccessTypeOK /\ Follows(login, mirror, agent, duty)  BY DEF StaffInv
  <1>1. ~login[i].super  BY DEF RoleOf
  <1>2. k = TheOne(Called(mirror, login[i].name))
    <2>1. k \in Called(mirror, login[i].name)  BY DEF Called, Fits
    <2>2. TheOne(Called(mirror, login[i].name)) \in Called(mirror, login[i].name)
      BY <2>1, TheOneCalled
    <2> QED  BY <1>0, <2>1, <2>2 DEF Follows, Named, Called
  <1>3. k # Nobody  BY RolesThere DEF Rows, Nobody
  <1>4. mirror[k].role \in {"Agent", "Technician"}
    <2>1. ~(AgentsOf(i) # {} /\ ~login[i].staff) => RoleOf(i) = mirror[k].role
      BY <1>1, <1>2, <1>3 DEF RoleOf
    <2>2. AgentsOf(i) # {} /\ ~login[i].staff => RoleOf(i) = "Agent"
      BY <1>1 DEF RoleOf
    <2> QED  BY <2>1, <2>2
  <1>5. mirror[k].status = "Active"  BY <1>0, <1>4 DEF Follows, Ready
  <1> QED  BY <1>1, <1>5 DEF Fits, StatusOf

LEMMA LinkFollows ==
    ASSUME StaffKept, StaffInv, LinkPersonas
    PROVE  Follows(login', mirror', agent', duty') /\ CsrRowsOld
  <1>0. AccessTypeOK /\ Follows(login, mirror, agent, duty)  BY DEF StaffInv
  <1>1. "link" \in duty /\ "agent" \notin duty /\ UNCHANGED <<mirror, duty>>
    BY <1>0, Duty DEF LinkPersonas, May, Staffing
  <1>2. PICK made \in SUBSET {i \in Lacking("Agent") : AgentsOf(i) = {}},
             hired \in SUBSET (Lacking("Technician") \ crewman) : Profiled(made, hired)
    BY DEF LinkPersonas
  <1>3. /\ \A i \in made : i \in Rows(login) /\ RoleOf(i) = "Agent" /\ AgentsOf(i) = {}
        /\ \A i \in hired : i \in Rows(login) /\ RoleOf(i) = "Technician"
    BY DEF Lacking
  <1>4. login' = [i \in Ids |->
          IF i \notin made \cup hired THEN login[i]
          ELSE [login[i] EXCEPT !.staff = FALSE, !.super = FALSE, !.active = TRUE]]
    BY <1>2 DEF Profiled
  <1>5. ASSUME NEW u \in Login
        PROVE  LET v == [u EXCEPT !.staff = FALSE, !.super = FALSE, !.active = TRUE]
               IN  v # Gone /\ v.name = u.name /\ ~v.super /\ v.active
    BY DEF Login, Gone
  <1>6. ASSUME NEW i \in Rows(login)
        PROVE  /\ login'[i] # Gone /\ login'[i].name = login[i].name
               /\ i \notin made \cup hired => login'[i] = login[i]
               /\ i \in made \cup hired => ~login'[i].super /\ login'[i].active
    <2>1. i \in Ids /\ login[i] \in Login /\ login[i] # Gone  BY <1>0, Tables DEF Rows
    <2> QED  BY <1>4, <1>5, <2>1
  <1>7. Rows(login') = Rows(login)
    <2>1. \A i \in Ids : i \in Rows(login) => login'[i] # Gone  BY <1>6
    <2>2. \A i \in Ids : i \notin Rows(login) => login'[i] = login[i]  BY <1>3, <1>4
    <2> QED  BY <2>1, <2>2 DEF Rows
  <1>8. Named(login')  BY <1>0, <1>6, <1>7 DEF Follows, Named
  <1>9. ASSUME NEW k \in Rows(mirror) PROVE \E i \in Rows(login') : Fits(mirror[k], login'[i])
    <2>1. PICK i \in Rows(login) : Fits(mirror[k], login[i])  BY <1>0 DEF Follows, Stands
    <2>2. CASE i \notin made \cup hired  BY <1>6, <1>7, <2>1, <2>2
    <2>3. CASE i \in made \cup hired
      <3>1. ~login[i].super /\ login[i].active
        BY <1>1, <1>3, <2>1, <2>3, PersonasAreActive
      <3>2. Fits(mirror[k], login'[i])  BY <1>6, <2>1, <2>3, <3>1 DEF Fits, StatusOf
      <3> QED  BY <1>7, <3>2
    <2> QED  BY <2>2, <2>3
  <1>10. Stands(login', mirror')  BY <1>1, <1>9 DEF Stands
  <1> QED  BY <1>0, <1>1, <1>8, <1>10 DEF Follows, CsrRowsOld

\* The steps of the portal leave the staff tables alone.
LEMMA PortalLeavesStaff ==
    ASSUME Passwords \/ Portal
    PROVE  UNCHANGED <<login, mirror, role, group, agent, duty>>
  <1>1. CASE Passwords  BY <1>1, PasswordsLeave DEF InPortal, staffVars
  <1>2. CASE Portal  BY <1>2, PortalLeaves DEF staffVars
  <1> QED  BY <1>1, <1>2

LEMMA RolesLeaveStaff ==
    ASSUME RolePage \/ SetupRbac
    PROVE  UNCHANGED <<login, mirror, agent, duty>>
  <1>1. CASE RolePage  BY <1>1, RolePageLeaves DEF RoleForm, Staffing
  <1>2. CASE SetupRbac  BY <1>2 DEF SetupRbac, Staffing
  <1> QED  BY <1>1, <1>2

LEMMA FollowsKept ==
    ASSUME StaffKept, StaffInv, AccessNext
    PROVE  Follows(login', mirror', agent', duty')
  <1>1. ASSUME UNCHANGED <<login, mirror, agent, duty>> PROVE Follows(login', mirror', agent', duty')
    BY <1>1 DEF StaffInv
  <1>2. CASE StaffPage
    BY <1>2, StaffListFollows, AddStaffFollows, OpenEditFollows, SaveEditFollows,
       DeleteStaffFollows, StaffSignsInFollows DEF StaffPage
  <1>3. CASE RolePage  BY <1>1, <1>3, RolesLeaveStaff
  <1>4. CASE Profiles
    BY <1>1, <1>4, RolesLeaveStaff, SetupFollows, LinkFollows, AgentRowsFollow, ToggleFollows,
       SetupLoginFollows DEF Profiles
  <1>5. CASE Passwords \/ Portal  BY <1>1, <1>5, PortalLeavesStaff
  <1> QED  BY <1>2, <1>3, <1>4, <1>5 DEF AccessNext

\* Beside an open form no other request of the page runs.
LEMMA EditsStayFresh ==
    ASSUME StaffKept, StaffInv, AccessNext
    PROVE  EditsFresh'
  <1>0. AccessTypeOK /\ "edit" \in Exclusive /\ job \in [Threads -> Jobs]
    BY DEF StaffKept, StaffInv, AccessTypeOK
  <1>1. ASSUME job' = job, NEW h, May(h) PROVE EditsFresh'
    <2>1. \A t \in Threads : job'[t].h # "edit"  BY <1>0, <1>1, NoEditOpen
    <2> QED  BY <2>1 DEF EditsFresh
  <1>2. ASSUME NEW t \in Threads, NEW k \in Ids, OpenEdit(t, k) PROVE EditsFresh'
    <2>1. /\ May("edit") /\ mirror'[job'[t].pk] = job'[t].row /\ duty' = duty
          /\ job' = [job EXCEPT ![t] = job'[t]]
      BY <1>2, OpenEditIs
    <2>2. \A s \in Threads : job[s].h # "edit"  BY <1>0, <2>1, NoEditOpen
    <2>3. \A s \in Threads : s # t => job'[s] = job[s]  BY <1>0, <2>1
    <2>4. "edit" \in duty  BY <2>1 DEF May
    <2> QED  BY <2>1, <2>2, <2>3, <2>4 DEF EditsFresh
  <1>3. ASSUME NEW t \in Threads, NEW n, NEW r, NEW status, SaveEdit(t, n, r, status)
        PROVE  EditsFresh'
    <2>1. job[t].h = "edit" /\ job' = [job EXCEPT ![t] = NoJob]  BY <1>3 DEF SaveEdit
    <2>2. \A s \in Threads : s # t => job[s] = NoJob
      BY <1>0, <2>1 DEF StaffInv, OnlyOne, Single
    <2>3. \A s \in Threads : job'[s] = NoJob  BY <1>0, <2>1, <2>2
    <2>4. NoJob.h # "edit"  BY DEF NoJob
    <2> QED  BY <2>3, <2>4 DEF EditsFresh
  <1>4. CASE StaffPage
    <2>1. CASE StaffList  BY <1>1, <2>1 DEF StaffList
    <2>2. ASSUME NEW n, NEW r, NEW active, AddStaff(n, r, active) PROVE EditsFresh'
      BY <1>1, <2>2 DEF AddStaff
    <2>3. ASSUME NEW k, NEW held, DeleteStaff(k, held) PROVE EditsFresh'
      BY <1>1, <2>3 DEF DeleteStaff
    <2>4. ASSUME NEW i, StaffSignsIn(i) PROVE EditsFresh'
      BY <1>1, <2>4 DEF StaffSignsIn
    <2> QED  BY <1>2, <1>3, <1>4, <2>1, <2>2, <2>3, <2>4 DEF StaffPage
  <1>5. CASE RolePage \/ Profiles
    <2>1. job' = job  BY <1>0, <1>5, RolePageTyped, ProfilesTyped
    <2>2. \E h : May(h)  BY <1>5, RolePageLeaves, ProfilesLeave
    <2> QED  BY <1>1, <2>1, <2>2
  <1>6. CASE Passwords \/ Portal
    <2>1. mirror' = mirror /\ duty' = duty  BY <1>6, PortalLeavesStaff
    <2>2. CASE Steady
      <3>1. \A t \in Threads : job'[t].h = "edit" => job'[t] = job[t] /\ job[t].h = "edit"
        BY <2>2 DEF Steady
      <3> QED  BY <2>1, <3>1 DEF StaffInv, EditsFresh
    <2>3. ASSUME NEW t \in Threads, NEW j \in Jobs, Turned(t, j) PROVE EditsFresh'
      <3>1. CASE \E k \in Ids : OpenEdit(t, k)  BY <1>2, <3>1
      <3>2. CASE ~(\E k \in Ids : OpenEdit(t, k))
        <4>1. j.h # "edit"  BY <2>3, <3>2 DEF Turned, NoJob
        <4>2. job' = [job EXCEPT ![t] = j]  BY <2>3 DEF Turned
        <4>3. \A s \in Threads : job'[s].h = "edit" => s # t /\ job'[s] = job[s]
          BY <1>0, <4>1, <4>2
        <4> QED  BY <2>1, <4>3 DEF StaffInv, EditsFresh
      <3> QED  BY <3>1, <3>2
    <2> QED  BY <1>0, <2>2, <2>3, JobMoves
  <1> QED  BY <1>4, <1>5, <1>6 DEF AccessNext

LEMMA StaffInvStarts ==
    ASSUME StaffKept, AccessInit
    PROVE  StaffInv
  <1>1. AccessTypeOK  BY AccessStartTyped
  <1>2. \A t \in Threads : job[t] = NoJob  BY DEF AccessInit
  <1>3. NoJob.h = "idle"  BY DEF NoJob
  <1>4. OnlyOne /\ EditsFresh  BY <1>2, <1>3 DEF OnlyOne, EditsFresh, Single
  <1>5. Follows(login, mirror, agent, duty)
    <2>1. PICK o \in Openings : o.starts \in duty /\ login = o.login /\ mirror = o.mirror
                                /\ agent = o.agent
      BY DEF AccessInit
    <2> QED  BY <2>1 DEF StaffKept, AccessInit
  <1> QED  BY <1>1, <1>4, <1>5 DEF StaffInv

LEMMA StaffInvHolds ==
    ASSUME StaffKept
    PROVE  AccessSpec => []StaffInv
  <1>1. AccessInit => StaffInv  BY StaffInvStarts
  <1>2. StaffInv /\ [AccessNext]_accessVars => StaffInv'
    <2> SUFFICES ASSUME StaffInv, [AccessNext]_accessVars PROVE StaffInv'  OBVIOUS
    <2>1. CASE AccessNext
      <3>1. AccessTypeOK'  BY <2>1, AccessStepTyped DEF StaffInv
      <3>2. OnlyOne'  BY <2>1, OnlyOneStays DEF StaffInv
      <3>3. EditsFresh' /\ Follows(login', mirror', agent', duty')
        BY <2>1, EditsStayFresh, FollowsKept
      <3> QED  BY <3>1, <3>2, <3>3 DEF StaffInv
    <2>2. CASE UNCHANGED accessVars
      <3>1. AccessTypeOK'
        BY <2>2 DEF StaffInv, AccessTypeOK, StaffTyped, KeysHold, PortalTyped, DoorTyped,
           LineTyped, accessVars, staffVars, portalVars, doorVars, lineVars
      <3>2. UNCHANGED <<login, mirror, agent, duty, job>>
        BY <2>2 DEF accessVars, staffVars
      <3> QED  BY <3>1, <3>2 DEF StaffInv, OnlyOne, EditsFresh
    <2> QED  BY <2>1, <2>2
  <1> QED  BY <1>1, <1>2, PTL DEF AccessSpec

\* Where nothing runs beside an open form of the page, no two set-ups that give
\* or take logins are mixed with it, and the rows and logins of the first state
\* fit, every row of the Staff & Admins page goes on standing for one login that
\* is active and a superuser as it says.
THEOREM MirrorAlwaysFollows ==
    ASSUME StaffKept
    PROVE  AccessSpec => []MirrorFollows
  <1>1. StaffInv => MirrorFollows
    <2> SUFFICES ASSUME StaffInv, NEW k \in Rows(mirror)
                 PROVE  \E i \in Rows(login) :
                          /\ login[i].name = mirror[k].name
                          /\ mirror[k].status = StatusOf(login[i].active)
                          /\ (mirror[k].role = "Admin") = login[i].super
      BY DEF MirrorFollows
    <2>1. PICK i \in Rows(login) : Fits(mirror[k], login[i])
      BY DEF StaffInv, Follows, Stands
    <2>2. login[i].super \in BOOLEAN
      <3>1. login[i] \in Login  BY Tables DEF StaffInv
      <3> QED  BY <3>1 DEF Login
    <2>3. (mirror[k].role = "Admin") = login[i].super  BY <2>1, <2>2, Zenon DEF Fits
    <2> QED  BY <2>1, <2>3 DEF Fits
  <1> QED  BY <1>1, StaffInvHolds, PTL
-----------------------------------------------------------------------------
(* Access: the permission behind the counter *)

CounterRows(l, m) ==
    \A k \in Rows(m), i \in Rows(l) :
        m[k].name = l[i].name /\ m[k].role = "CSR" => "CSR" \in l[i].groups
Paying(l, m, g, D) ==
    /\ CounterRows(l, m)
    /\ IF "rbac" \in D THEN \A k \in Rows(m) : m[k].role # "CSR"
                       ELSE g["CSR"] # NoGroup /\ "counter" \in g["CSR"]

\* The old set-up command takes the permission from the group of the CSRs: it is
\* not used beside the forms that make them, nor where there are some.
CounterKept ==
    \A D \in Duties :
        /\ "rbac" \in D => D \cap {"add", "edit"} = {}
        /\ \A o \in Openings : o.starts \in D => Paying(o.login, o.mirror, o.group, D)

PayInv == StaffInv /\ Paying(login, mirror, group, duty)

\* No step but the two forms gives a login a row of a CSR.
LEMMA PayingGoesOn ==
    ASSUME Paying(login, mirror, group, duty), CsrRowsOld, duty' = duty,
           \A i \in Rows(login') :
              \/ i \in Rows(login) /\ login'[i].name = login[i].name
                 /\ login[i].groups \subseteq login'[i].groups
              \/ Called(mirror', login'[i].name) = {},
           \/ "rbac" \in duty
           \/ group' = group
           \/ group'["CSR"] = {"counter"}
    PROVE  Paying(login', mirror', group', duty')
  <1>1. CounterRows(login', mirror')
    <2> SUFFICES ASSUME NEW k \in Rows(mirror'), NEW i \in Rows(login'),
                        mirror'[k].name = login'[i].name, mirror'[k].role = "CSR"
                 PROVE  "CSR" \in login'[i].groups
      BY DEF CounterRows
    <2>1. k \in Rows(mirror) /\ mirror'[k] = mirror[k]  BY DEF CsrRowsOld
    <2>2. k \in Called(mirror', login'[i].name)  BY DEF Called
    <2>3. /\ i \in Rows(login) /\ login'[i].name = login[i].name
          /\ login[i].groups \subseteq login'[i].groups
      BY <2>2
    <2>4. "CSR" \in login[i].groups  BY <2>1, <2>3 DEF Paying, CounterRows
    <2> QED  BY <2>3, <2>4
  <1>2. CASE "rbac" \in duty
    BY <1>1, <1>2 DEF Paying, CsrRowsOld
  <1>3. CASE "rbac" \notin duty
    <2>1. {"counter"} # NoGroup  BY DEF NoGroup
    <2>2. group'["CSR"] # NoGroup /\ "counter" \in group'["CSR"]  BY <1>3, <2>1 DEF Paying
    <2> QED  BY <1>1, <1>3, <2>2 DEF Paying
  <1> QED  BY <1>2, <1>3

LEMMA AddStaffPays ==
    ASSUME CounterKept, PayInv, NEW n \in Names, NEW r \in Offered, NEW active \in BOOLEAN,
           AddStaff(n, r, active)
    PROVE  Paying(login', mirror', group', duty')
  <1> DEFINE i == FirstFree(login)
             p == FirstFree(mirror)
             u == [name |-> n, staff |-> TRUE, super |-> r = "Admin", active |-> active,
                   groups |-> {r}]
             got == [name |-> n, role |-> r, status |-> StatusOf(active)]
  <1>0. AccessTypeOK /\ Paying(login, mirror, group, duty)  BY DEF PayInv, StaffInv
  <1>1. /\ May("add") /\ Called(login, n) = {} /\ Called(mirror, n) = {}
        /\ FreeIds(login) # {} /\ FreeIds(mirror) # {} /\ duty' = duty
        /\ \/ UNCHANGED <<login, mirror, group>>
           \/ /\ login' = Put(login, i, u) /\ mirror' = Put(mirror, p, got)
              /\ group' = [group EXCEPT ![r] = IF @ = NoGroup THEN {} ELSE @]
    BY DEF AddStaff, Staffing, Put
  <1>2. /\ u \in Login /\ got \in Mirror /\ u.name = n /\ u.groups = {r}
        /\ got.name = n /\ got.role = r
    BY RolesThere DEF Login, Mirror, StatusOf
  <1>3. i \in Ids /\ p \in Ids  BY <1>1, FirstPicked DEF FreeIds
  <1>4. CASE UNCHANGED <<login, mirror, group>>  BY <1>0, <1>1, <1>4
  <1>5. CASE /\ login' = Put(login, i, u) /\ mirror' = Put(mirror, p, got)
             /\ group' = [group EXCEPT ![r] = IF @ = NoGroup THEN {} ELSE @]
    <2> HIDE DEF i, p, u, got
    <2>1. login \in Logins /\ mirror \in Mirrors /\ DOMAIN group = Roles
      BY <1>0, Tables, StaffTypes
    <2>2. "rbac" \notin duty
      <3>1. duty \in Duties  BY <1>0 DEF AccessTypeOK
      <3> QED  BY <1>1, <3>1 DEF CounterKept, May
    <2>3. group["CSR"] # NoGroup /\ "counter" \in group["CSR"]  BY <1>0, <2>2 DEF Paying
    <2>4. group'["CSR"] = group["CSR"]
      <3>1. CASE r = "CSR"  BY <1>5, <2>1, <2>3, <3>1
      <3>2. CASE r # "CSR"  BY <1>5, <3>2
      <3> QED  BY <3>1, <3>2
    <2>5. /\ Rows(login') = Rows(login) \cup {i} /\ login'[i] = u
          /\ \A x \in Rows(login) : x # i => login'[x] = login[x]
          /\ Rows(mirror') = Rows(mirror) \cup {p} /\ mirror'[p] = got
          /\ \A x \in Rows(mirror) : x # p => mirror'[x] = mirror[x]
      BY <1>2, <1>3, <1>5, <2>1, PutLoginIn, PutMirrorIn
    <2>6. /\ \A x \in Rows(login) : login[x].name # n
          /\ \A x \in Rows(mirror) : mirror[x].name # n
      BY <1>1 DEF Called
    <2>7. CounterRows(login', mirror')
      <3> SUFFICES ASSUME NEW k \in Rows(mirror'), NEW x \in Rows(login'),
                          mirror'[k].name = login'[x].name, mirror'[k].role = "CSR"
                   PROVE  "CSR" \in login'[x].groups
        BY DEF CounterRows
      <3>1. CASE k = p /\ x = i  BY <1>2, <2>5, <3>1
      <3>2. CASE k # p /\ x # i
        <4>1. k \in Rows(mirror) /\ x \in Rows(login) /\ mirror'[k] = mirror[k]
              /\ login'[x] = login[x]
          BY <2>5, <3>2
        <4> QED  BY <1>0, <4>1 DEF Paying, CounterRows
      <3>3. CASE k = p /\ x # i
        <4>1. mirror'[k].name = n /\ x \in Rows(login) /\ login'[x] = login[x]
          BY <1>2, <2>5, <3>3
        <4> QED  BY <2>6, <4>1
      <3>4. CASE k # p /\ x = i
        <4>1. login'[x].name = n /\ k \in Rows(mirror) /\ mirror'[k] = mirror[k]
          BY <1>2, <2>5, <3>4
        <4> QED  BY <2>6, <4>1
      <3> QED  BY <3>1, <3>2, <3>3, <3>4
    <2> QED  BY <1>1, <2>2, <2>3, <2>4, <2>7 DEF Paying
  <1> QED  BY <1>1, <1>4, <1>5

LEMMA SaveEditPays ==
    ASSUME CounterKept, PayInv, NEW t \in Threads, NEW n \in Names, NEW r \in Offered,
           NEW status \in {"Active", "Inactive"}, SaveEdit(t, n, r, status)
    PROVE  Paying(login', mirror', group', duty')
  <1>0. AccessTypeOK /\ Paying(login, mirror, group, duty) /\ StaffInv
    BY DEF PayInv, StaffInv
  <1>1. UNCHANGED <<group, duty>> /\ job[t].h = "edit"  BY DEF SaveEdit, Staffing
  <1>2. "rbac" \notin duty
    <2>1. "edit" \in duty /\ duty \in Duties  BY <1>0, <1>1 DEF StaffInv, EditsFresh, AccessTypeOK
    <2> QED  BY <2>1 DEF CounterKept
  <1>3. group["CSR"] # NoGroup /\ "counter" \in group["CSR"]  BY <1>0, <1>2 DEF Paying
  <1>4. CASE login' = login /\ mirror' = mirror  BY <1>0, <1>1, <1>4
  <1>5. CASE ~(login' = login /\ mirror' = mirror)
    <2>1. PICK i \in Rows(login), p \in Rows(mirror), u \in Login, got \in Mirror :
             Saves(n, r, i, p, u, got)
      BY <1>0, <1>5, SaveEditMoves
    <2>2. /\ login' = Put(login, i, u) /\ mirror' = Put(mirror, p, got)
          /\ got.name = n /\ u.name = n /\ got.role = r
          /\ u.groups = GroupsAfter(login[i], mirror[p].role, r)
          /\ \A x \in Rows(login) \ {i} : login[x].name # n
          /\ \A x \in Rows(mirror) \ {p} : mirror[x].name # n
      BY <2>1 DEF Saves, Fits
    <2>3. login \in Logins /\ mirror \in Mirrors /\ i \in Ids /\ p \in Ids
      BY <1>0, Tables
    <2>4. /\ Rows(login') = Rows(login) /\ login'[i] = u
          /\ \A x \in Rows(login) : x # i => login'[x] = login[x]
          /\ Rows(mirror') = Rows(mirror) /\ mirror'[p] = got
          /\ \A x \in Rows(mirror) : x # p => mirror'[x] = mirror[x]
      <3>1. /\ Rows(login') = Rows(login) \cup {i} /\ login'[i] = u
            /\ \A x \in Rows(login) : x # i => login'[x] = login[x]
        BY <2>2, <2>3, PutLoginIn
      <3>2. /\ Rows(mirror') = Rows(mirror) \cup {p} /\ mirror'[p] = got
            /\ \A x \in Rows(mirror) : x # p => mirror'[x] = mirror[x]
        BY <2>2, <2>3, PutMirrorIn
      <3> QED  BY <3>1, <3>2
    <2>5. CounterRows(login', mirror')
      <3> SUFFICES ASSUME NEW k \in Rows(mirror'), NEW x \in Rows(login'),
                          mirror'[k].name = login'[x].name, mirror'[k].role = "CSR"
                   PROVE  "CSR" \in login'[x].groups
        BY DEF CounterRows
      <3>1. CASE k = p /\ x = i
        <4>1. r = "CSR" /\ login'[x].groups = GroupsAfter(login[i], mirror[p].role, r)
          BY <2>2, <2>4, <3>1
        <4> QED  BY <1>3, <4>1 DEF GroupsAfter
      <3>2. CASE k # p /\ x # i
        <4>1. k \in Rows(mirror) /\ x \in Rows(login) /\ mirror'[k] = mirror[k]
              /\ login'[x] = login[x]
          BY <2>4, <3>2
        <4> QED  BY <1>0, <4>1 DEF Paying, CounterRows
      <3>3. CASE k = p /\ x # i
        <4>1. mirror'[k].name = n /\ x \in Rows(login) \ {i} /\ login'[x] = login[x]
          BY <2>2, <2>4, <3>3
        <4> QED  BY <2>2, <4>1
      <3>4. CASE k # p /\ x = i
        <4>1. login'[x].name = n /\ k \in Rows(mirror) \ {p} /\ mirror'[k] = mirror[k]
          BY <2>2, <2>4, <3>4
        <4> QED  BY <2>2, <4>1
      <3> QED  BY <3>1, <3>2, <3>3, <3>4
    <2> QED  BY <1>1, <1>2, <1>3, <2>5 DEF Paying
  <1> QED  BY <1>4, <1>5

\* What the other steps do to the logins and groups.
LEMMA LoginsKeepGroups ==
    ASSUME StaffKept, StaffInv,
           \/ StaffList
           \/ \E t \in Threads, k \in Ids : OpenEdit(t, k)
           \/ \E k \in Ids, held \in BOOLEAN : DeleteStaff(k, held)
           \/ \E i \in Ids : StaffSignsIn(i)
           \/ RolePage \/ Profiles
    PROVE  /\ CsrRowsOld /\ duty' = duty
           /\ \A i \in Rows(login') :
                 \/ i \in Rows(login) /\ login'[i].name = login[i].name
                    /\ login[i].groups \subseteq login'[i].groups
                 \/ Called(mirror', login'[i].name) = {}
           /\ "rbac" \in duty \/ group' = group \/ group'["CSR"] = {"counter"}
  <1> DEFINE Kept == \A i \in Rows(login') :
                        \/ i \in Rows(login) /\ login'[i].name = login[i].name
                           /\ login[i].groups \subseteq login'[i].groups
                        \/ Called(mirror', login'[i].name) = {}
             Goal == /\ CsrRowsOld /\ duty' = duty /\ Kept
                     /\ "rbac" \in duty \/ group' = group \/ group'["CSR"] = {"counter"}
  <1>0. AccessTypeOK /\ Named(login)  BY DEF StaffInv, Follows
  <1>t. login \in Logins /\ mirror \in Mirrors /\ agent \in [Agents -> Ids \cup {NoUser, NoAgent}]
    BY <1>0, Tables, StaffTypes
  <1>a. ASSUME login' = login PROVE Kept  BY <1>a
  <1>b. ASSUME NEW i \in Ids, NEW u \in Login, login' = Put(login, i, u), i \in Rows(login),
               u.name = login[i].name, u.groups = login[i].groups
        PROVE  Kept
    <2>1. /\ Rows(login') = Rows(login) \cup {i} /\ login'[i] = u
          /\ \A x \in Rows(login) : x # i => login'[x] = login[x]
      BY <1>b, <1>t, PutLoginIn
    <2> QED  BY <1>b, <2>1
  <1>1. CASE StaffList
    BY <1>a, <1>1, StaffListIs, StaffListFollows
  <1>2. ASSUME NEW t \in Threads, NEW k \in Ids, OpenEdit(t, k) PROVE Goal
    BY <1>a, <1>2, OpenEditIs, OpenEditFollows
  <1>3. ASSUME NEW k \in Ids, NEW held \in BOOLEAN, DeleteStaff(k, held) PROVE Goal
    <2>1. CsrRowsOld /\ UNCHANGED <<group, duty>>
      BY <1>3, DeleteStaffFollows DEF DeleteStaff, Staffing
    <2>2. PICK m \in Ids \cup {Nobody} : \E n, i :
             /\ IsMember(k, m, n, i)
             /\ Removed(m, i) \/ \E u \in Login : SwitchedOff(m, n, i, u)
      BY <1>0, <1>3, DeleteStaffIs
    <2>3. PICK n, i : /\ IsMember(k, m, n, i)
                      /\ Removed(m, i) \/ \E u \in Login : SwitchedOff(m, n, i, u)
      BY <2>2
    <2>4. i # Nobody => i \in Ids /\ i \in Rows(login) /\ login[i].name = n
      BY <2>3, TheOneCalled DEF IsMember, Rows
    <2>5. CASE Removed(m, i) /\ i = Nobody
      BY <1>a, <2>1, <2>5 DEF Removed
    <2>6. CASE Removed(m, i) /\ i # Nobody
      <3>1. login' = Put(login, i, Gone) /\ i \in Ids  BY <2>4, <2>6 DEF Removed
      <3>2. /\ Rows(login') = Rows(login) \ {i}
            /\ \A x \in Rows(login) : x # i => login'[x] = login[x]
        BY <1>t, <3>1, LoginOut
      <3> QED  BY <2>1, <3>2
    <2>7. ASSUME NEW u \in Login, SwitchedOff(m, n, i, u) PROVE Goal
      <3>1. /\ i # Nobody /\ u.name = n /\ u.groups = login[i].groups
            /\ login' = Put(login, i, u)
        BY <2>7 DEF SwitchedOff
      <3>2. Kept  BY <1>b, <2>4, <3>1
      <3> QED  BY <2>1, <3>2
    <2> QED  BY <2>3, <2>5, <2>6, <2>7
  <1>4. ASSUME NEW i \in Ids, StaffSignsIn(i) PROVE Goal
    BY <1>a, <1>4, StaffSignsInFollows DEF StaffSignsIn, Staffing
  <1>5. CASE RolePage
    <2>1. UNCHANGED <<login, mirror, agent, duty>>  BY <1>5, RolesLeaveStaff
    <2>2. group' = group  BY <1>5, RolePageLeaves DEF RoleForm
    <2> QED  BY <1>a, <2>1, <2>2 DEF CsrRowsOld
  <1>6. CASE SetupDispatch
    <2> DEFINE joins(i) == IF login[i].super THEN {"Admin"} ELSE {RoleOf(i)} \cap DOMAIN Matrix
    <2>1. /\ login' = [i \in Ids |-> IF login[i] = Gone THEN Gone
                                     ELSE [login[i] EXCEPT !.groups = @ \cup joins(i)]]
          /\ duty' = duty
          /\ group' = [g \in Roles |-> IF g \in DOMAIN Matrix THEN Matrix[g] ELSE group[g]]
      BY <1>6 DEF SetupDispatch, Staffing
    <2>2. group'["CSR"] = {"counter"}  BY <2>1, RolesThere DEF Matrix
    <2> HIDE DEF joins
    <2>3. ASSUME NEW i \in Rows(login')
          PROVE  i \in Rows(login) /\ login'[i].name = login[i].name
                 /\ login[i].groups \subseteq login'[i].groups
      <3>1. i \in Ids /\ login[i] # Gone  BY <2>1 DEF Rows
      <3>2. PICK u \in Login : u = login[i]  BY <1>t, <3>1 DEF Logins
      <3>3. login'[i] = [u EXCEPT !.groups = u.groups \cup joins(i)]  BY <2>1, <3>1, <3>2
      <3>4. login'[i].name = u.name /\ login'[i].groups = u.groups \cup joins(i)
        BY <3>3 DEF Login
      <3> QED  BY <3>1, <3>2, <3>4 DEF Rows
    <2>4. CsrRowsOld  BY <1>6, SetupFollows
    <2> QED  BY <2>1, <2>2, <2>3, <2>4
  <1>7. CASE SetupRbac
    <2>1. UNCHANGED <<login, mirror, agent, duty>>  BY <1>7, RolesLeaveStaff
    <2>2. "rbac" \in duty  BY <1>7 DEF SetupRbac, May
    <2> QED  BY <1>a, <2>1, <2>2 DEF CsrRowsOld
  <1>8. CASE LinkPersonas
    <2>1. PICK made \in SUBSET {i \in Lacking("Agent") : AgentsOf(i) = {}},
               hired \in SUBSET (Lacking("Technician") \ crewman) : Profiled(made, hired)
      BY <1>8 DEF LinkPersonas
    <2>2. login' = [i \in Ids |->
          IF i \notin made \cup hired THEN login[i]
          ELSE [login[i] EXCEPT !.staff = FALSE, !.super = FALSE, !.active = TRUE]]
      BY <2>1 DEF Profiled
    <2>m. made \cup hired \subseteq Rows(login)  BY DEF Lacking
    <2>3. ASSUME NEW i \in Rows(login')
          PROVE  i \in Rows(login) /\ login'[i].name = login[i].name
                 /\ login[i].groups \subseteq login'[i].groups
      <3>0. i \in Ids /\ login'[i] # Gone  BY DEF Rows
      <3>1. CASE i \notin made \cup hired  BY <2>2, <3>0, <3>1 DEF Rows
      <3>2. CASE i \in made \cup hired
        <4>1. i \in Rows(login) /\ login[i] \in Login  BY <1>0, <2>m, <3>2, Tables
        <4>2. PICK u \in Login : u = login[i]  BY <4>1
        <4>3. login'[i] = [u EXCEPT !.staff = FALSE, !.super = FALSE, !.active = TRUE]
          BY <2>2, <3>0, <3>2, <4>2
        <4>4. login'[i].name = u.name /\ login'[i].groups = u.groups  BY <4>3 DEF Login
        <4> QED  BY <4>1, <4>2, <4>4
      <3> QED  BY <3>1, <3>2
    <2>4. CsrRowsOld /\ UNCHANGED <<group, duty>>
      BY <1>8, LinkFollows DEF LinkPersonas, Staffing
    <2> QED  BY <2>3, <2>4
  <1>9. ASSUME NEW a \in Agents, AddAgent(a) \/ DeleteAgent(a) PROVE Goal
    <2>1. UNCHANGED <<login, group, duty>>  BY <1>9 DEF AddAgent, DeleteAgent, Staffing
    <2>2. CsrRowsOld  BY <1>9, AgentRowsFollow
    <2> QED  BY <1>a, <2>1, <2>2
  <1>10. ASSUME NEW a \in Agents, ToggleAgentLogin(a) PROVE Goal
    <2> DEFINE i == agent[a]
               u == [login[i] EXCEPT !.active = ~@]
    <2>1. i \in Ids /\ login' = Put(login, i, u) /\ UNCHANGED <<group, duty>>
      BY <1>10 DEF ToggleAgentLogin, Staffing, Put
    <2>2. i \in Rows(login) /\ login[i] \in Login
      <3>1. i \in Rows(login)  BY <1>0, <2>1 DEF AccessTypeOK, KeysHold, Rows
      <3> QED  BY <1>0, <3>1, Tables
    <2> HIDE DEF i
    <2>3. u \in Login /\ u.name = login[i].name /\ u.groups = login[i].groups
      BY <2>2 DEF Login
    <2> HIDE DEF u
    <2>4. Kept  BY <1>b, <2>1, <2>2, <2>3
    <2>5. CsrRowsOld  BY <1>10, ToggleFollows
    <2> QED  BY <2>1, <2>4, <2>5
  <1>11. ASSUME NEW a \in Agents, NEW n \in Names, SetupAgentLogin(a, n) PROVE Goal
    <2>1. CsrRowsOld /\ Bare(login', mirror') /\ UNCHANGED <<group, duty>>
      <3>1. "agent" \in duty /\ UNCHANGED <<group, duty>>
        BY <1>11 DEF SetupAgentLogin, May, Staffing
      <3> QED  BY <1>11, <3>1, SetupLoginFollows DEF Follows
    <2> DEFINE u(gs) == [name |-> n, staff |-> FALSE, super |-> FALSE,
                         active |-> TRUE, groups |-> gs]
    <2>2. \E i, gs : login' = [login EXCEPT ![i] = u(gs)]
      BY <1>11, Zenon DEF SetupAgentLogin
    <2>3. PICK i, gs : login' = [login EXCEPT ![i] = u(gs)]  BY <2>2
    <2>4. Unstaffed(u(gs))  BY DEF Unstaffed
    <2> HIDE DEF u
    <2>5. \A x \in Ids : login'[x] = login[x] \/ login'[x] = u(gs)
      BY <1>t, <2>3 DEF Logins
    <2>6. ASSUME NEW x \in Rows(login')
          PROVE  \/ x \in Rows(login) /\ login'[x] = login[x]
                 \/ Called(mirror', login'[x].name) = {}
      <3>1. CASE login'[x] = u(gs)  BY <2>1, <2>4, <3>1 DEF Bare
      <3>2. CASE login'[x] = login[x]  BY <3>2 DEF Rows
      <3> QED  BY <2>5, <3>1, <3>2 DEF Rows
    <2> QED  BY <2>1, <2>6
  <1> QED
    BY <1>1, <1>2, <1>3, <1>4, <1>5, <1>6, <1>7, <1>8, <1>9, <1>10, <1>11 DEF Profiles

LEMMA PayInvHolds ==
    ASSUME StaffKept, CounterKept
    PROVE  AccessSpec => []PayInv
  <1>1. AccessInit => PayInv
    <2> SUFFICES ASSUME AccessInit PROVE PayInv  OBVIOUS
    <2>1. PICK o \in Openings : o.starts \in duty /\ login = o.login /\ mirror = o.mirror
                                /\ group = o.group
      BY DEF AccessInit
    <2>2. duty \in Duties  BY DEF AccessInit
    <2> QED  BY <2>1, <2>2, StaffInvStarts DEF CounterKept, PayInv
  <1>2. PayInv /\ StaffInv' /\ [AccessNext]_accessVars => PayInv'
    <2> SUFFICES ASSUME PayInv, StaffInv', [AccessNext]_accessVars PROVE PayInv'  OBVIOUS
    <2>0. StaffInv /\ Paying(login, mirror, group, duty)  BY DEF PayInv
    <2> SUFFICES Paying(login', mirror', group', duty')  BY DEF PayInv
    <2>1. ASSUME NEW n \in Names, NEW r \in Offered, NEW active \in BOOLEAN, AddStaff(n, r, active)
          PROVE  Paying(login', mirror', group', duty')
      BY <2>1, AddStaffPays
    <2>2. ASSUME NEW t \in Threads, NEW n \in Names, NEW r \in Offered,
                 NEW status \in {"Active", "Inactive"}, SaveEdit(t, n, r, status)
          PROVE  Paying(login', mirror', group', duty')
      BY <2>2, SaveEditPays
    <2>3. CASE \/ StaffList
               \/ \E t \in Threads, k \in Ids : OpenEdit(t, k)
               \/ \E k \in Ids, held \in BOOLEAN : DeleteStaff(k, held)
               \/ \E i \in Ids : StaffSignsIn(i)
               \/ RolePage \/ Profiles
      BY <2>0, <2>3, LoginsKeepGroups, PayingGoesOn
    <2>4. CASE Passwords \/ Portal
      <3>1. UNCHANGED <<login, mirror, group, duty>>  BY <2>4, PortalLeavesStaff
      <3> QED  BY <2>0, <3>1
    <2>5. CASE UNCHANGED accessVars
      <3>1. UNCHANGED <<login, mirror, group, duty>>  BY <2>5 DEF accessVars, staffVars
      <3> QED  BY <2>0, <3>1
    <2> QED  BY <2>1, <2>2, <2>3, <2>4, <2>5 DEF AccessNext, StaffPage
  <1> QED  BY <1>1, <1>2, StaffInvHolds, PTL DEF AccessSpec

\* Under the same conditions, and where the old set-up command that takes the
\* permission away meets no CSR, every active CSR of the page can work the counter.
THEOREM CounterAlwaysPays ==
    ASSUME StaffKept, CounterKept
    PROVE  AccessSpec => []CounterCanPay
  <1>1. PayInv => CounterCanPay
    <2> SUFFICES ASSUME PayInv, NEW k \in Rows(mirror), NEW i \in Rows(login),
                        mirror[k].name = login[i].name, mirror[k].role = "CSR", login[i].active
                 PROVE  HasPerm(i, "counter")
      BY DEF CounterCanPay
    <2>1. "CSR" \in login[i].groups  BY DEF PayInv, Paying, CounterRows
    <2>2. group["CSR"] # NoGroup /\ "counter" \in group["CSR"]  BY DEF PayInv, Paying
    <2> QED  BY <2>1, <2>2 DEF HasPerm
  <1> QED  BY <1>1, PayInvHolds, PTL
-----------------------------------------------------------------------------
(* Access: the password a customer was handed or chose *)

\* The desk's form and the reset of all passwords are not disturbed, the latter
\* is not stopped half way, and no message with a password is refused.
HandKept ==
    /\ {"desk", "bulk"} \subseteq Exclusive
    /\ \A D \in Duties : "refused" \notin D /\ ("kill" \in D => "bulk" \notin D)

Works(a, h) ==
    /\ a.pw = h.pw /\ (a.must <=> ~h.own)
    /\ a.temp = IF h.own THEN Never ELSE h.age

Whole == {"desk", "bulk"}
DeskFresh == \A t \in Threads : job[t].h = "desk" => account[job[t].c] = job[t].row
BulkGoes ==
    \A t \in Threads : job[t].h = "bulk" =>
        /\ "bulk" \in duty
        /\ \A c \in Subscribers \ job[t].left : account[c] = Temporary(job[t].rows[c])
AllWork == \A c \in Subscribers : told[c].pw > 0 => Works(account[c], told[c])

HandInv ==
    /\ AccessTypeOK /\ OnlyOne /\ DeskFresh /\ BulkGoes
    /\ (\A t \in Threads : job[t].h # "bulk") => AllWork

LEMMA WhatWorks ==
    /\ \A pw : Works(Temporary(pw), HandedOver(pw))
    /\ \A got \in Account : \A pw : Works(Chosen(got, pw), [pw |-> pw, own |-> TRUE, age |-> 0])
    /\ \A a \in Account, h \in Told :
         Works(a, h) => Works([a EXCEPT !.temp = Older(a.temp)], [h EXCEPT !.age = Older(h.age)])
  <1>1. \A pw : Works(Temporary(pw), HandedOver(pw))
    BY DEF Works, Temporary, HandedOver
  <1>2. \A got \in Account : \A pw : Works(Chosen(got, pw), [pw |-> pw, own |-> TRUE, age |-> 0])
    BY DEF Works, Chosen, Account
  <1>3. ASSUME NEW a \in Account, NEW h \in Told, Works(a, h)
        PROVE  Works([a EXCEPT !.temp = Older(a.temp)], [h EXCEPT !.age = Older(h.age)])
    <2>1. Older(Never) = Never  BY Widths DEF Older, Never
    <2>2. Older(a.temp) = IF h.own THEN Never ELSE Older(h.age)  BY <1>3, <2>1 DEF Works
    <2> DEFINE x == Older(a.temp)
               y == Older(h.age)
    <2>3. x = IF h.own THEN Never ELSE y  BY <2>2
    <2> HIDE DEF x, y
    <2>4. Works([a EXCEPT !.temp = x], [h EXCEPT !.age = y])
      BY <1>3, <2>3 DEF Works, Account, Told
    <2> QED  BY <2>4 DEF x, y
  <1> QED  BY <1>1, <1>2, <1>3

\* A step that leaves the passwords alone, and the two long requests too.
LEMMA HandStays ==
    ASSUME HandInv, UNCHANGED <<account, told, duty>>,
           \A t \in Threads :
              job'[t] = job[t] \/ (job'[t].h \notin Whole /\ job[t].h # "bulk")
    PROVE  DeskFresh' /\ BulkGoes' /\ ((\A t \in Threads : job'[t].h # "bulk") => AllWork')
  <1>1. \A t \in Threads : job'[t].h \in Whole => job'[t] = job[t]  OBVIOUS
  <1>2. DeskFresh'  BY <1>1 DEF HandInv, DeskFresh, Whole
  <1>3. BulkGoes'  BY <1>1 DEF HandInv, BulkGoes, Whole
  <1>4. (\A t \in Threads : job'[t].h # "bulk") => \A t \in Threads : job[t].h # "bulk"
    OBVIOUS
  <1> QED  BY <1>2, <1>3, <1>4 DEF HandInv, AllWork

LEMMA NoneWhole ==
    ASSUME HandKept, HandInv, NEW h, May(h)
    PROVE  \A t \in Threads : job[t].h \notin Whole
  <1>1. \A t \in Threads : job[t] # NoJob => job[t].h \notin Exclusive  BY DEF May, Busy
  <1>2. NoJob.h \notin Whole  BY DEF NoJob, Whole
  <1>3. Whole \subseteq Exclusive  BY DEF HandKept, Whole
  <1> QED  BY <1>1, <1>2, <1>3

\* Where neither is open after a step, the rest of the invariant is AllWork.
LEMMA HandCalm ==
    ASSUME \A t \in Threads : job'[t].h \notin Whole, AllWork'
    PROVE  DeskFresh' /\ BulkGoes' /\ ((\A t \in Threads : job'[t].h # "bulk") => AllWork')
  BY DEF DeskFresh, BulkGoes, Whole

Handed1 == DeskFresh' /\ BulkGoes' /\ ((\A t \in Threads : job'[t].h # "bulk") => AllWork')

LEMMA PasswordsHand ==
    ASSUME HandKept, HandInv, Passwords
    PROVE  Handed1
  <1>0. /\ AccessTypeOK /\ duty \in Duties
        /\ account \in [Subscribers -> Account] /\ told \in [Subscribers -> Told]
        /\ job \in [Threads -> Jobs]
    BY PortalTypes DEF HandInv, AccessTypeOK
  <1>d. duty' = duty  BY PortalLeavesStaff
  <1>w. (\A t \in Threads : job[t].h \notin Whole) => AllWork  BY DEF HandInv, Whole
  <1>n. NoJob.h \notin Whole  BY DEF NoJob, Whole
  \* One customer's password is written, and told or chosen.
  <1>s. ASSUME NEW c \in Subscribers, NEW a, NEW h, Works(a, h),
               account' = [account EXCEPT ![c] = a], told' = [told EXCEPT ![c] = h],
               \A t \in Threads : job[t].h \notin Whole,
               \A t \in Threads : job'[t].h \notin Whole
        PROVE  Handed1
    <2>1. AllWork  BY <1>w, <1>s
    <2>2. \A x \in Subscribers : \/ account'[x] = a /\ told'[x] = h
                                 \/ account'[x] = account[x] /\ told'[x] = told[x]
      BY <1>0, <1>s
    <2>3. AllWork'  BY <1>s, <2>1, <2>2 DEF AllWork
    <2> QED  BY <1>s, <2>3, HandCalm DEF Handed1
  <1>1. ASSUME NEW c \in Subscribers, NEW h,
               May(h), account' = [account EXCEPT ![c] = Temporary(issued')],
               told' = [told EXCEPT ![c] = HandedOver(issued')], job' = job
        PROVE  Handed1
    <2>1. \A t \in Threads : job[t].h \notin Whole  BY <1>1, NoneWhole
    <2>2. Works(Temporary(issued'), HandedOver(issued'))  BY WhatWorks
    <2> HIDE DEF Handed1
    <2> QED  BY <1>1, <1>s, <2>1, <2>2
  <1>2. ASSUME NEW c \in Subscribers, ResetPassword(c) PROVE Handed1
    BY <1>1, <1>2 DEF ResetPassword
  <1>3. ASSUME NEW c \in Subscribers, NEW sent \in BOOLEAN, WelcomeSms(c, sent) PROVE Handed1
    <2>1. sent  BY <1>0, <1>3 DEF WelcomeSms, HandKept
    <2> QED  BY <1>1, <1>3, <2>1 DEF WelcomeSms
  <1>4. ASSUME NEW t \in Threads, NEW d \in Devices, OpenChange(t, d) PROVE Handed1
    <2> DEFINE j == [h |-> "change", c |-> signedIn[d]]
    <2>1. UNCHANGED <<account, told>> /\ job[t] = NoJob /\ job' = [job EXCEPT ![t] = j]
      BY <1>4 DEF OpenChange, portalVars
    <2>2. j.h \notin Whole  BY DEF Whole
    <2> HIDE DEF j
    <2>3. \A s \in Threads : job'[s] = IF s = t THEN j ELSE job[s]  BY <1>0, <2>1
    <2>4. \A s \in Threads :
              job'[s] = job[s] \/ (job'[s].h \notin Whole /\ job[s].h # "bulk")
      BY <1>n, <2>1, <2>2, <2>3 DEF Whole
    <2> QED  BY <1>d, <2>1, <2>4, HandStays DEF Handed1
  <1>5. ASSUME NEW t \in Threads, SaveChange(t) PROVE Handed1
    <2> DEFINE c == job[t].c
    <2>1. /\ job[t].h = "change" /\ c \in Subscribers
          /\ account' = [account EXCEPT ![c] = Chosen(account[c], issued')]
          /\ told' = [told EXCEPT ![c] = [pw |-> issued', own |-> TRUE, age |-> 0]]
          /\ job' = [job EXCEPT ![t] = NoJob]
      BY <1>0, <1>5, JobKinds DEF SaveChange
    <2>2. \A s \in Threads : job[s].h \notin Whole
      <3>1. job[t] # NoJob  BY <1>5 DEF SaveChange
      <3>2. \A s \in Threads : job[s].h \in Whole => s = t
        BY <3>1 DEF HandInv, HandKept, OnlyOne, Whole, Single
      <3> QED  BY <2>1, <3>2 DEF Whole
    <2>3. \A s \in Threads : job'[s].h \notin Whole  BY <1>0, <1>n, <2>1, <2>2
    <2>4. Works(Chosen(account[c], issued'), [pw |-> issued', own |-> TRUE, age |-> 0])
      BY <1>0, <2>1, WhatWorks
    <2> HIDE DEF c, Handed1
    <2> QED  BY <1>s, <2>1, <2>2, <2>3, <2>4
  <1>6. ASSUME NEW t \in Threads, NEW c \in Subscribers, OpenDesk(t, c) PROVE Handed1
    <2> DEFINE j == [h |-> "desk", c |-> c, row |-> account[c]]
    <2>1. UNCHANGED <<account, told>> /\ May("desk") /\ job' = [job EXCEPT ![t] = j]
      BY <1>6 DEF OpenDesk, portalVars
    <2>2. \A s \in Threads : job[s].h \notin Whole  BY <2>1, NoneWhole
    <2>3. j.h = "desk" /\ account[j.c] = j.row  OBVIOUS
    <2> HIDE DEF j
    <2>4. \A s \in Threads : job'[s] = IF s = t THEN j ELSE job[s]  BY <1>0, <2>1
    <2>5. DeskFresh'  BY <2>1, <2>2, <2>3, <2>4 DEF DeskFresh, Whole
    <2>6. BulkGoes'  BY <2>2, <2>3, <2>4 DEF BulkGoes, Whole
    <2>7. AllWork'  BY <1>w, <2>1, <2>2 DEF AllWork
    <2> QED  BY <2>5, <2>6, <2>7 DEF Handed1
  <1>7. ASSUME NEW t \in Threads, SaveDesk(t) PROVE Handed1
    <2>1. /\ job[t].h = "desk" /\ told' = told /\ job[t].c \in Subscribers
          /\ account' = [account EXCEPT ![job[t].c] = job[t].row]
          /\ job' = [job EXCEPT ![t] = NoJob]
      BY <1>0, <1>7, JobKinds DEF SaveDesk
    <2>2. job[t].row = account[job[t].c]  BY <2>1 DEF HandInv, DeskFresh
    <2>3. account' = account  BY <1>0, <2>1, <2>2
    <2>4. \A s \in Threads : job'[s] = IF s = t THEN NoJob ELSE job[s]  BY <1>0, <2>1
    <2>5. \A s \in Threads :
              job'[s] = job[s] \/ (job'[s].h \notin Whole /\ job[s].h # "bulk")
      BY <1>n, <2>1, <2>4
    <2> QED  BY <1>d, <2>1, <2>3, <2>5, HandStays DEF Handed1
  <1>8. ASSUME NEW t \in Threads, OpenBulk(t) PROVE Handed1
    <2> DEFINE j == [h |-> "bulk", left |-> Subscribers, rows |-> [c \in Subscribers |-> 0]]
    <2>1. May("bulk") /\ job' = [job EXCEPT ![t] = j]
      BY <1>8 DEF OpenBulk
    <2>2. \A s \in Threads : job[s].h \notin Whole  BY <2>1, NoneWhole
    <2>3. j.h = "bulk" /\ j.left = Subscribers  OBVIOUS
    <2> HIDE DEF j
    <2>4. \A s \in Threads : job'[s] = IF s = t THEN j ELSE job[s]  BY <1>0, <2>1
    <2>5. DeskFresh'  BY <2>2, <2>3, <2>4 DEF DeskFresh, Whole
    <2>6. "bulk" \in duty  BY <2>1 DEF May
    <2>7. BulkGoes'  BY <1>d, <2>2, <2>3, <2>4, <2>6 DEF BulkGoes, Whole
    <2>8. job'[t].h = "bulk"  BY <2>3, <2>4
    <2> QED  BY <2>5, <2>7, <2>8 DEF Handed1
  <1>9. ASSUME NEW t \in Threads, NEW c \in Subscribers, BulkReset(t, c) PROVE Handed1
    <2> DEFINE j == [job[t] EXCEPT !.left = @ \ {c}, !.rows[c] = issued']
    <2>1. /\ job[t] # NoJob /\ job[t].h = "bulk" /\ c \in job[t].left
          /\ account' = [account EXCEPT ![c] = Temporary(issued')]
          /\ job' = [job EXCEPT ![t] = j]
      BY <1>9, Zenon DEF BulkReset
    <2>2. job[t] \in BulkJob  BY <1>0, <2>1, JobsHaveNames
    <2>3. /\ j.h = "bulk" /\ j.left = job[t].left \ {c}
          /\ j.rows = [job[t].rows EXCEPT ![c] = issued']
      BY <2>2 DEF BulkJob
    <2>4. job[t].rows \in [Subscribers -> 0 .. MaxPasswords] /\ job[t].left \in SUBSET Subscribers
      BY <2>2 DEF BulkJob
    <2> HIDE DEF j
    <2>5. \A s \in Threads : job'[s] = IF s = t THEN j ELSE job[s]  BY <1>0, <2>1
    <2>6. \A s \in Threads : s # t => job[s] = NoJob
      BY <2>1 DEF HandInv, HandKept, OnlyOne, Single
    <2>7. \A s \in Threads : job'[s].h \in Whole => s = t /\ job'[s] = j
      BY <1>n, <2>5, <2>6
    <2>8. DeskFresh'  BY <2>3, <2>7 DEF DeskFresh, Whole
    <2>9. ASSUME NEW x \in Subscribers, x \notin j.left PROVE account'[x] = Temporary(j.rows[x])
      <3>1. CASE x = c  BY <1>0, <2>1, <2>3, <2>4, <3>1
      <3>2. CASE x # c
        <4>1. x \notin job[t].left  BY <2>3, <2>9, <3>2
        <4>2. account[x] = Temporary(job[t].rows[x])  BY <2>1, <4>1 DEF HandInv, BulkGoes
        <4>3. account'[x] = account[x] /\ j.rows[x] = job[t].rows[x]
          BY <1>0, <2>1, <2>3, <2>4, <3>2
        <4> QED  BY <4>2, <4>3
      <3> QED  BY <3>1, <3>2
    <2>10. "bulk" \in duty  BY <2>1 DEF HandInv, BulkGoes
    <2>11. BulkGoes'  BY <1>d, <2>7, <2>9, <2>10 DEF BulkGoes, Whole
    <2>12. job'[t].h = "bulk"  BY <2>3, <2>5
    <2> QED  BY <2>8, <2>11, <2>12 DEF Handed1
  <1>10. ASSUME NEW t \in Threads, BulkFile(t) PROVE Handed1
    <2>1. /\ job[t] # NoJob /\ job[t].h = "bulk" /\ job[t].left = {} /\ account' = account
          /\ told' = [c \in Subscribers |-> HandedOver(job[t].rows[c])]
          /\ job' = [job EXCEPT ![t] = NoJob]
      BY <1>10 DEF BulkFile
    <2>2. \A c \in Subscribers : account[c] = Temporary(job[t].rows[c])
      BY <2>1 DEF HandInv, BulkGoes
    <2>3. AllWork'  BY <2>1, <2>2, WhatWorks DEF AllWork
    <2>4. \A s \in Threads : s # t => job[s] = NoJob
      BY <2>1 DEF HandInv, HandKept, OnlyOne, Single
    <2>5. \A s \in Threads : job'[s] = NoJob  BY <1>0, <2>1, <2>4
    <2> QED  BY <1>n, <2>3, <2>5, HandCalm DEF Handed1
  <1>11. ASSUME NEW t \in Threads, Killed(t) PROVE Handed1
    <2>1. UNCHANGED <<account, told>> /\ "kill" \in duty /\ job' = [job EXCEPT ![t] = NoJob]
      BY <1>11 DEF Killed, portalVars
    <2>2. job[t].h # "bulk"  BY <1>0, <2>1 DEF HandInv, BulkGoes, HandKept
    <2>3. \A s \in Threads : job'[s] = IF s = t THEN NoJob ELSE job[s]  BY <1>0, <2>1
    <2>4. \A s \in Threads :
              job'[s] = job[s] \/ (job'[s].h \notin Whole /\ job[s].h # "bulk")
      BY <1>n, <2>2, <2>3
    <2> QED  BY <1>d, <2>1, <2>4, HandStays DEF Handed1
  <1>12. CASE Day
    <2>1. /\ \A t \in Threads : job[t] = NoJob
          /\ account' = [c \in Subscribers |-> [account[c] EXCEPT !.temp = Older(@)]]
          /\ told' = [c \in Subscribers |-> [told[c] EXCEPT !.age = Older(@)]]
          /\ job' = job
      BY <1>12 DEF Day, Busy
    <2>2. \A t \in Threads : job'[t].h \notin Whole /\ job[t].h \notin Whole  BY <1>n, <2>1
    <2>3. ASSUME NEW c \in Subscribers, told'[c].pw > 0 PROVE Works(account'[c], told'[c])
      <3>1. account[c] \in Account /\ told[c] \in Told  BY <1>0
      <3>2. /\ account'[c] = [account[c] EXCEPT !.temp = Older(account[c].temp)]
            /\ told'[c] = [told[c] EXCEPT !.age = Older(told[c].age)]
        BY <2>1
      <3>3. told'[c].pw = told[c].pw  BY <3>1, <3>2 DEF Told
      <3>4. Works(account[c], told[c])  BY <1>w, <2>2, <2>3, <3>3 DEF AllWork
      <3> QED  BY <3>1, <3>2, <3>4, WhatWorks
    <2>4. AllWork'  BY <2>3 DEF AllWork
    <2> QED  BY <2>2, <2>4, HandCalm DEF Handed1
  <1> HIDE DEF Handed1
  <1> QED
    BY <1>2, <1>3, <1>4, <1>5, <1>6, <1>7, <1>8, <1>9, <1>10, <1>11, <1>12 DEF Passwords

LEMMA OthersHand ==
    ASSUME HandInv, StaffPage \/ RolePage \/ Profiles \/ Portal
    PROVE  Handed1
  <1>0. AccessTypeOK /\ job \in [Threads -> Jobs]  BY DEF HandInv, AccessTypeOK
  <1>1. UNCHANGED <<account, told, duty>>
    <2>1. CASE Portal  BY <2>1, PortalLeaves DEF portalVars
    <2>2. CASE StaffPage \/ RolePage \/ Profiles
      <3>1. Staffing  BY <2>2, StaffPageLeaves, RolePageLeaves, ProfilesLeave DEF RoleForm
      <3> QED  BY <3>1 DEF Staffing, portalVars
    <2> QED  BY <2>1, <2>2
  <1> DEFINE Apart == \A t \in Threads :
                        job'[t] = job[t] \/ (job'[t].h \notin Whole /\ job[t].h # "bulk")
  <1>n. NoJob.h \notin Whole  BY DEF NoJob, Whole
  <1>a. ASSUME job' = job PROVE Apart  BY <1>a
  <1>b. ASSUME NEW t \in Threads, NEW j, job' = [job EXCEPT ![t] = j],
               job[t].h # "bulk", j.h \notin Whole
        PROVE  Apart
    <2>1. \A s \in Threads : job'[s] = IF s = t THEN j ELSE job[s]  BY <1>0, <1>b
    <2> QED  BY <1>b, <2>1
  <1>c. ASSUME NEW t \in Threads, NEW j, job' = [job EXCEPT ![t] = j],
               job[t] = NoJob, j.h \notin Whole
        PROVE  Apart
    <2>1. job[t].h # "bulk"  BY <1>c, <1>n DEF Whole
    <2> HIDE DEF Apart
    <2> QED  BY <1>b, <1>c, <2>1
  <1>d. ASSUME NEW t \in Threads, job' = [job EXCEPT ![t] = NoJob], job[t].h # "bulk"
        PROVE  Apart
    <2> HIDE DEF Apart
    <2> QED  BY <1>b, <1>d, <1>n
  <1> HIDE DEF Apart
  <1>2. ASSUME RolePage \/ Profiles PROVE Apart
    BY <1>0, <1>2, <1>a, RolePageTyped, ProfilesTyped
  <1>3. ASSUME StaffPage PROVE Apart
    <2>1. ASSUME NEW t \in Threads, NEW k \in Ids, OpenEdit(t, k) PROVE Apart
      <3>1. \E j : job[t] = NoJob /\ j.h = "edit" /\ job' = [job EXCEPT ![t] = j]
        <4>1. \/ job' = [job EXCEPT ![t] = [h |-> "edit", key |-> k, pk |-> k, row |-> mirror[k]]]
              \/ \E pk, got : job' = [job EXCEPT ![t] = [h |-> "edit", key |-> k, pk |-> pk, row |-> got]]
          BY <2>1, Zenon DEF OpenEdit
        <4>2. \E j : j.h = "edit" /\ job' = [job EXCEPT ![t] = j]  BY <4>1
        <4> QED  BY <2>1, <4>2 DEF OpenEdit
      <3> QED  BY <1>c, <3>1 DEF Whole
    <2>2. ASSUME NEW t \in Threads, NEW n, NEW r, NEW status, SaveEdit(t, n, r, status) PROVE Apart
      BY <1>d, <2>2 DEF SaveEdit
    <2> QED
      BY <1>3, <1>a, <2>1, <2>2 DEF StaffPage, StaffList, AddStaff, DeleteStaff, StaffSignsIn
  <1>4. ASSUME Portal PROVE Apart
    <2>1. ASSUME NEW t \in Threads, NEW ip \in Ips, NEW c \in Subscribers, NEW d \in Devices,
                 NEW right \in BOOLEAN, SignIn(t, ip, c, d, right)
          PROVE  Apart
      <3> DEFINE j == [h |-> "enter", c |-> c, list |-> online]
      <3>1. job[t] = NoJob /\ (job' = job \/ job' = [job EXCEPT ![t] = j])
        BY <2>1 DEF SignIn
      <3>2. j.h \notin Whole  BY DEF Whole
      <3> QED  BY <1>a, <1>c, <3>1, <3>2
    <2>2. ASSUME NEW t \in Threads, NEW d \in Devices, OpenPage(t, d) PROVE Apart
      <3> DEFINE j == [h |-> "page", c |-> signedIn[d]]
      <3>1. job[t] = NoJob /\ job' = [job EXCEPT ![t] = j]  BY <2>2 DEF OpenPage
      <3>2. j.h \notin Whole  BY DEF Whole
      <3> QED  BY <1>c, <3>1, <3>2
    <2>3. ASSUME NEW t \in Threads, NEW d \in Devices, OpenSignOut(t, d) PROVE Apart
      <3> DEFINE j == [h |-> "logout", c |-> signedIn[d], list |-> online]
      <3>1. job[t] = NoJob /\ job' = [job EXCEPT ![t] = j]  BY <2>3 DEF OpenSignOut
      <3>2. j.h \notin Whole  BY DEF Whole
      <3> QED  BY <1>c, <3>1, <3>2
    <2>4. ASSUME NEW t \in Threads, OpenPoll(t) PROVE Apart
      <3> DEFINE j == [h |-> "poll", list |-> online]
      <3>1. job[t] = NoJob /\ job' = [job EXCEPT ![t] = j]  BY <2>4 DEF OpenPoll
      <3>2. j.h \notin Whole  BY DEF Whole
      <3> QED  BY <1>c, <3>1, <3>2
    <2>5. ASSUME NEW t \in Threads, Entered(t) \/ PageDone(t) \/ SignedOut(t) \/ Polled(t)
          PROVE  Apart
      BY <1>d, <2>5 DEF Entered, PageDone, SignedOut, Polled, Ends
    <2>6. CASE Tick
      <3>1. job' = [t \in Threads |-> Aged(job[t])]  BY <2>6 DEF Tick, Aged
      <3>2. \A t \in Threads : /\ job'[t].h = job[t].h
                               /\ job[t].h \in {"idle", "edit", "desk", "bulk"} => job'[t] = job[t]
        BY <1>0, <3>1, TickKeepsJobs
      <3> QED  BY <3>2 DEF Apart, Whole
    <2> QED  BY <1>4, <2>1, <2>2, <2>3, <2>4, <2>5, <2>6 DEF Portal
  <1> QED  BY <1>1, <1>2, <1>3, <1>4, HandStays DEF Handed1, Apart

LEMMA HandInvHolds ==
    ASSUME HandKept
    PROVE  AccessSpec => []HandInv
  <1>1. AccessInit => HandInv
    <2> SUFFICES ASSUME AccessInit PROVE HandInv  OBVIOUS
    <2>1. AccessTypeOK  BY AccessStartTyped
    <2>2. /\ \A t \in Threads : job[t] = NoJob
          /\ told = [c \in Subscribers |-> HandedOver(0)]
      BY DEF AccessInit
    <2>3. NoJob.h = "idle" /\ HandedOver(0).pw = 0  BY DEF NoJob, HandedOver
    <2> QED  BY <2>1, <2>2, <2>3 DEF HandInv, OnlyOne, DeskFresh, BulkGoes, AllWork, Single
  <1>2. HandInv /\ [AccessNext]_accessVars => HandInv'
    <2> SUFFICES ASSUME HandInv, [AccessNext]_accessVars PROVE HandInv'  OBVIOUS
    <2>0. AccessTypeOK'  BY AccessStepTyped DEF HandInv
    <2>1. CASE AccessNext
      <3>1. OnlyOne'  BY <2>1, OnlyOneStays DEF HandInv
      <3>2. Handed1  BY <2>1, PasswordsHand, OthersHand DEF AccessNext
      <3> QED  BY <2>0, <3>1, <3>2 DEF HandInv, Handed1
    <2>2. CASE UNCHANGED accessVars
      <3>1. UNCHANGED <<account, told, job, duty>>  BY <2>2 DEF accessVars, staffVars, portalVars
      <3> QED  BY <2>0, <3>1 DEF HandInv, OnlyOne, DeskFresh, BulkGoes, AllWork
    <2> QED  BY <2>1, <2>2
  <1> QED  BY <1>1, <1>2, PTL DEF AccessSpec

\* Where the desk's form and the reset of all passwords run alone and to their end
\* and the gateway takes every message, the password a customer was handed last,
\* or chose after that, is the stored one and opens the portal for its days.
THEOREM HandedStayWorking ==
    ASSUME HandKept
    PROVE  AccessSpec => []HandedWorks
  <1>1. HandInv => HandedWorks
    <2> SUFFICES ASSUME HandInv, \A t \in Busy : job[t].h # "bulk", NEW c \in Subscribers,
                        told[c].pw > 0
                 PROVE  /\ account[c].pw = told[c].pw
                        /\ account[c].must = ~told[c].own
                        /\ (told[c].own \/ told[c].age <= Life) => ~Expired(c)
      BY DEF HandedWorks
    <2>1. \A t \in Threads : job[t].h # "bulk"  BY DEF Busy, NoJob
    <2>2. Works(account[c], told[c])  BY <2>1 DEF HandInv, AllWork
    <2>3. account[c] \in Account /\ told[c] \in Told  BY PortalTypes DEF HandInv
    <2>4. account[c].must \in BOOLEAN /\ told[c].own \in BOOLEAN
      BY <2>3 DEF Account, Told
    <2>5. account[c].must = ~told[c].own  BY <2>2, <2>4 DEF Works
    <2>6. ASSUME told[c].own \/ told[c].age <= Life PROVE ~Expired(c)
      <3>1. told[c].age \in 0 .. Life + 1 /\ Life \in Nat  BY <2>3, Widths DEF Told
      <3>2. account[c].temp = Never \/ (account[c].temp = told[c].age /\ told[c].age <= Life)
        BY <2>2, <2>6 DEF Works
      <3> DEFINE x == account[c].temp
                 y == told[c].age
      <3>3. y \in 0 .. Life + 1 /\ (x = -1 \/ (x = y /\ y <= Life))  BY <3>1, <3>2 DEF Never
      <3> HIDE DEF x, y
      <3>4. ~(x > Life)  BY <3>1, <3>3
      <3> QED  BY <3>4 DEF x, Expired
    <2> QED  BY <2>2, <2>5, <2>6 DEF Works
  <1> QED  BY <1>1, HandInvHolds, PTL
=============================================================================
