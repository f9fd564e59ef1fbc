----------------------------- MODULE CignalPlay -----------------------------
(***************************************************************************)
(* Cignal subscriptions: applications from the portal, activation with its   *)
(* job ticket, load and hardware payments, corrections by staff, pull-outs,  *)
(* restores and purges, and what the dashboard's tabs, the export and the    *)
(* morning notice say of a subscription.                                     *)
(*                                                                           *)
(* A payment holds the row of the subscription locked; nothing else locks.   *)
(* A request reads (Open... actions) and writes later; a write to a locked   *)
(* row waits.  Saving a whole row that was deleted meanwhile inserts it      *)
(* again, saving some of its columns fails.                                  *)
(***************************************************************************)
EXTENDS Integers, Sequences, FiniteSets, Functions

CONSTANTS
    Threads,        \* threads that serve requests
    Customers,      \* subscribers
    Duties,         \* sets of handlers; each behaviour runs those of one set
    Exclusive,      \* those of them that run while no other request does
    Months,         \* installments of a box: 12
    LoadDays,       \* days of one load: 30
    SoonDays,       \* the dashboard's expiry radar: 5
    NoticeDays,     \* the morning notice: 3
    BoxFee, BothFee, CashFee,   \* 250, 399 and 3000 pesos
    Offers,         \* activations: hardware, load plan and first payment
    Payments,       \* what a cashier enters: kind and amount
    Corrections,    \* what staff types over: hardware, count and date (or Kept), number
    MaxPlays,       \* bound on the CignalPlay table
    MaxRequests,    \* bound on the AddOnRequest table
    MaxPaid,        \* bound on what all Payment rows add up to
    LastDay,        \* bound on the calendar
    LastDue         \* bound on due dates

NoDate == 0     \* a date column that is empty; the calendar starts at 1
Kept   == -1    \* a field the page leaves as it is
Days   == 1 .. LastDue
Hardware == {"cashout", "installment", "none"}

ASSUME CignalAssumption ==
    /\ {Months, LoadDays} \subseteq Nat \ {0}
    /\ {SoonDays, NoticeDays, BoxFee, BothFee, CashFee} \subseteq Nat
    /\ NoticeDays <= SoonDays
    /\ Offers \subseteq Hardware \X {"149", "399"} \X Nat
    /\ Payments \subseteq {"load", "box", "both", "cashout", ""} \X Nat
    /\ Corrections \subseteq Hardware \X (0 .. Months \cup {Kept}) \X (Nat \cup {Kept}) \X BOOLEAN

\* A CignalPlay row: due for expiration_date, end for end_date, no for having an
\* account number, from for the request it answers (0 for none).
Play == [cust : Customers, st : {"live", "cancelled", "gone"}, hw : Hardware, n : Nat,
         plan : {"149", "399"}, due : Nat, end : Nat, paid : Nat, no : BOOLEAN, from : Nat]

\* The CIGNAL JobTicket of an activation; begun once a crew arrived.
Ticket == [st : {"none", "PENDING", "ASSIGNED", "IN_PROGRESS", "COMPLETED", "CANCELLED"},
           begun : BOOLEAN]
Unticketed == [st |-> "none", begun |-> FALSE]

\* The Payment rows of a subscription: their sum, and how many of them added a
\* load or an installment since staff last typed the date or the count.
Receipts == [paid : Nat, loads : Nat, boxes : Nat]
NoReceipts == [paid |-> 0, loads |-> 0, boxes |-> 0]

VARIABLES
    play,       \* the CignalPlay table, in the order of created_at
    request,    \* the AddOnRequest table
    ticket,     \* per subscription, the job ticket made with it
    receipt,    \* per subscription, its Payment rows
    typed,      \* per subscription, the date and the count staff last typed
    number,     \* customers with a legacy Cignal number
    today,
    session,    \* what each thread has read and is about to write
    duty        \* the handlers in use, which never change

vars   == <<play, request, ticket, receipt, typed, number, today, session, duty>>
Tables == <<play, request, ticket, receipt, typed, number>>
Idle   == [h |-> "idle"]
-----------------------------------------------------------------------------
(* What the code looks up and decides *)

Rows(c)    == {i \in DOMAIN play : play[i].cust = c /\ play[i].st # "gone"}
Live(c)    == {i \in Rows(c) : play[i].st = "live"}
Newest(S)  == IF S = {} THEN 0 ELSE CHOOSE i \in S : \A j \in S : j <= i
Pending(c) == Newest({r \in DOMAIN request : request[r].cust = c /\ request[r].st = "Pending"})

Later(a, b) == IF a < b THEN b ELSE a
Due(p)      == IF p.due # NoDate THEN p.due ELSE p.end
Ongoing(p)  == p.hw = "installment" /\ p.n < Months

NewPlay(c, no) ==
    [cust |-> c, st |-> "live", hw |-> "none", n |-> 0, plan |-> "149", due |-> NoDate,
     end |-> NoDate, paid |-> 0, no |-> no, from |-> 0]

\* The row of an activation or an approval.
Granted(c, r, hw, n, plan, date, paid) ==
    [cust |-> c, st |-> "live", hw |-> hw, n |-> n, plan |-> plan, due |-> date,
     end |-> date, paid |-> paid, no |-> TRUE, from |-> r]

\* The date staff typed, or one load after the later of now and the due date.
Loaded(p, kind, date) ==
    LET d == IF date # NoDate THEN date ELSE Later(Due(p), today) + LoadDays
    IN  IF kind = "box" THEN p ELSE [p EXCEPT !.due = d, !.end = d]

\* The kind of payment says what it is for, or else its amount does.
BuysBox(p, kind, amount) ==
    \/ kind \in {"box", "both"}
    \/ kind # "load" /\ Ongoing(p) /\ amount = BothFee /\ p.plan = "149"
    \/ kind # "load" /\ Ongoing(p) /\ amount = BoxFee
Boxed(p, kind, amount) ==
    CASE BuysBox(p, kind, amount) /\ Ongoing(p) ->
            [p EXCEPT !.n = @ + 1, !.hw = IF p.n + 1 >= Months THEN "cashout" ELSE @]
      [] ~BuysBox(p, kind, amount) /\ (kind = "cashout" \/ amount >= CashFee) ->
            [p EXCEPT !.n = Months, !.hw = "cashout"]
      [] OTHER -> p
-----------------------------------------------------------------------------
Init ==
    /\ play = <<>> /\ request = <<>>
    /\ ticket = <<>> /\ receipt = <<>> /\ typed = <<>>
    /\ number = {}
    /\ today = 1
    /\ session = [s \in Threads |-> Idle]
    /\ duty \in Duties

Busy        == {s \in Threads : session[s] # Idle}
Doing(s, h) == session[s].h = h
End(s)      == session' = [session EXCEPT ![s] = Idle]
Go(s, job)  == session' = [session EXCEPT ![s] = job]

\* A request of handler h may start on thread s.
Free(s, h) ==
    /\ h \in duty /\ s \notin Busy
    /\ h \in Exclusive => Busy = {}
    /\ \A t \in Busy : session[t].h \notin Exclusive

\* Mutant: the payment locks no row.
LockedNever(i) == FALSE
Locked(i) == i # 0 /\ \E t \in Busy : session[t].h = "pay" /\ session[t].id = i

\* The bound of the table leaves room for the rows under way.
Space == Len(play) + Cardinality({s \in Busy : session[s].h \in {"activate", "approve"}
                                     \/ (session[s].h = "pay" /\ session[s].id = 0)}) < MaxPlays

Takings == FoldFunction(+, 0, [i \in DOMAIN receipt |-> receipt[i].paid])
              + FoldFunction(+, 0, [s \in Threads |-> IF session[s].h = "activate" THEN session[s].row.paid
                                                   ELSE IF session[s].h = "pay" THEN session[s].amount ELSE 0])

Added(p, t, paid) ==
    /\ play'    = Append(play, p)
    /\ ticket'  = Append(ticket, t)
    /\ receipt' = Append(receipt, [paid |-> paid, loads |-> 0, boxes |-> 0])
    /\ typed'   = Append(typed, [due |-> Due(p), n |-> p.n])
-----------------------------------------------------------------------------
(* Applications *)

Apply(c) ==
    /\ "portal" \in duty
    /\ Len(request) < MaxRequests
    /\ request' = Append(request, [cust |-> c, st |-> "Pending"])
    /\ UNCHANGED <<play, ticket, receipt, typed, number, session>>

\* The subscriber withdraws a request that was pending, staff any request.
OpenWithdraw(s, r, staff) ==
    /\ Free(s, "portal")
    /\ request[r].st = "Pending" \/ (staff /\ request[r].st # "deleted")
    /\ Go(s, [h |-> "withdraw", req |-> r])
    /\ UNCHANGED Tables
CommitWithdraw(s) ==
    /\ Doing(s, "withdraw")
    /\ request' = [request EXCEPT ![session[s].req].st = "deleted"]
    /\ End(s)
    /\ UNCHANGED <<play, ticket, receipt, typed, number>>

\* From the bell or the network page, without a subscription.
OpenResolve(s, r) ==
    /\ Free(s, "resolve") /\ request[r].st # "deleted"
    /\ Go(s, [h |-> "resolve", req |-> r])
    /\ UNCHANGED Tables
Resolved(r) == IF r = 0 THEN request ELSE [request EXCEPT ![r].st = "Resolved"]
CommitResolve(s) ==
    /\ Doing(s, "resolve")
    /\ request' = Resolved(session[s].req)
    /\ End(s)
    /\ UNCHANGED <<play, ticket, receipt, typed, number>>
-----------------------------------------------------------------------------
(* Activation *)

Counted(hw) == CASE hw = "cashout" -> Months [] hw = "installment" -> 1 [] OTHER -> 0

\* With a request named on the page, whatever its status, or with the newest
\* pending one of the customer, if there is one.
OpenActivate(s, c, r, hw, plan, date, amount) ==
    /\ Free(s, "activate") /\ Space /\ Takings + amount <= MaxPaid
    /\ r # 0 => request[r].st # "deleted"
    /\ LET q == IF r # 0 THEN r ELSE Pending(c)
       IN  Go(s, [h |-> "activate", req |-> q,
                  row |-> Granted(c, q, hw, Counted(hw), plan, date, amount)])
    /\ UNCHANGED Tables

CommitActivate(s) ==
    /\ Doing(s, "activate")
    /\ LET j == session[s]
       IN  /\ Added(j.row, [st |-> "PENDING", begun |-> FALSE], j.row.paid)
           /\ request' = Resolved(j.req)
    /\ End(s)
    /\ UNCHANGED number

\* Approval of a request, whatever its status: no ticket and no payment.
OpenApprove(s, r, hw, plan, date) ==
    /\ Free(s, "approve") /\ Space /\ request[r].st # "deleted"
    /\ Go(s, [h |-> "approve", req |-> r,
              row |-> Granted(request[r].cust, r, hw, 0, plan, date, 0)])
    /\ UNCHANGED Tables
CommitApprove(s) ==
    /\ Doing(s, "approve")
    /\ LET j == session[s]
       IN  /\ Added(j.row, Unticketed, 0)
           /\ number' = number \cup {j.row.cust}
           /\ request' = Resolved(j.req)
    /\ End(s)

\* The old form leaves the expiration date empty.
Form(c, date) ==
    /\ "form" \in duty /\ Space
    /\ Added([NewPlay(c, FALSE) EXCEPT !.end = date], Unticketed, 0)
    /\ UNCHANGED <<request, number, session>>
-----------------------------------------------------------------------------
(* Payments *)

\* The row that was named, or the newest of the customer, cancelled ones
\* included, or none: then one is created with the payment.
OpenPay(s, c, i, kind, amount, date) ==
    /\ Free(s, "pay")
    /\ i \in Rows(c) \/ (i = 0 /\ Rows(c) = {} /\ Space)
    /\ ~Locked(i)
    /\ LET p == IF i = 0 THEN NewPlay(c, c \in number) ELSE play[i]
       IN  /\ Takings + amount <= MaxPaid
           /\ Loaded(p, kind, date).due <= LastDue
           /\ Go(s, [h |-> "pay", id |-> i, row |-> p, kind |-> kind, amount |-> amount,
                     date |-> date])
    /\ UNCHANGED Tables

\* Mutant: an amount under the price of the box is not added up.
PaidForBox(p, amount) == [p EXCEPT !.paid = IF amount < BoxFee THEN @ ELSE @ + amount]
Paid(p, amount)       == [p EXCEPT !.paid = @ + amount]

\* A date on the page starts the count of loads anew.
TypedBy(j, b) == IF j.date = NoDate \/ j.kind = "box" THEN b ELSE [b EXCEPT !.due = j.date]
Receipted(j, r) ==
    [paid  |-> r.paid + j.amount,
     loads |-> CASE j.kind = "box"                      -> r.loads
                 [] j.kind # "box" /\ j.date = NoDate -> r.loads + 1
                 [] OTHER                               -> 0,
     boxes |-> IF BuysBox(j.row, j.kind, j.amount) /\ Ongoing(j.row) THEN r.boxes + 1 ELSE r.boxes]

CommitPay(s) ==
    /\ Doing(s, "pay")
    /\ LET j == session[s]
           p == Paid(Boxed(Loaded(j.row, j.kind, j.date), j.kind, j.amount), j.amount)
       IN  IF j.id = 0
           THEN /\ play' = Append(play, p) /\ ticket' = Append(ticket, Unticketed)
                /\ typed' = Append(typed, TypedBy(j, [due |-> NoDate, n |-> 0]))
                /\ receipt' = Append(receipt, Receipted(j, NoReceipts))
           ELSE /\ play' = [play EXCEPT ![j.id] = p]
                /\ typed' = [typed EXCEPT ![j.id] = TypedBy(j, @)]
                /\ receipt' = [receipt EXCEPT ![j.id] = Receipted(j, @)]
                /\ UNCHANGED ticket
    /\ End(s)
    /\ UNCHANGED <<request, number>>
-----------------------------------------------------------------------------
(* Staff correct, pull out, restore and purge *)

\* The whole row is read without a lock; a count typed with a cashout stands.
OpenEdit(s, i, hw, n, date, no) ==
    /\ Free(s, "edit") /\ play[i].st # "gone"
    /\ Go(s, [h |-> "edit", id |-> i, no |-> no, dated |-> date # Kept,
              row |-> [play[i] EXCEPT !.hw = hw, !.no = no,
                          !.n = IF n # Kept THEN n ELSE IF hw = "cashout" THEN Months ELSE @,
                          !.due = IF date = Kept THEN @ ELSE date,
                          !.end = IF date = Kept THEN @ ELSE date]])
    /\ UNCHANGED Tables
CommitEdit(s) ==
    /\ Doing(s, "edit")
    /\ ~Locked(session[s].id)
    /\ LET j == session[s]
       IN  /\ play' = [play EXCEPT ![j.id] = j.row]
           /\ number' = IF j.no THEN number \cup {j.row.cust} ELSE number
           /\ typed' = [typed EXCEPT ![j.id] =
                  [n |-> j.row.n, due |-> IF j.dated THEN j.row.due ELSE @.due]]
           /\ receipt' = [receipt EXCEPT ![j.id] =
                  [paid |-> @.paid, boxes |-> 0, loads |-> IF j.dated THEN 0 ELSE @.loads]]
    /\ End(s)
    /\ UNCHANGED <<request, ticket>>
\* Without a row it makes one and edits that.
EditNew(c, hw) ==
    /\ \E s \in Threads : Free(s, "edit")
    /\ Rows(c) = {} /\ Space
    /\ Added([NewPlay(c, c \in number) EXCEPT !.hw = hw, !.n = IF hw = "cashout" THEN Months ELSE 0],
             Unticketed, 0)
    /\ UNCHANGED <<request, number, session>>

\* Mutant: a ticket that has its crew is left alone.
PulledOutPending(t) == IF t.st = "PENDING" THEN [t EXCEPT !.st = "CANCELLED"] ELSE t
PulledOut(t) == IF t.st \in {"PENDING", "ASSIGNED"} THEN [t EXCEPT !.st = "CANCELLED"] ELSE t

\* First every waiting Cignal ticket of the customer, then the flag, then the
\* legacy numbers: three statements in no transaction.
OpenCancel(s, i) ==
    /\ Free(s, "cancel") /\ play[i].st # "gone"
    /\ ticket' = [k \in DOMAIN ticket |->
                    IF play[k].cust = play[i].cust THEN PulledOut(ticket[k]) ELSE ticket[k]]
    /\ Go(s, [h |-> "cancel", id |-> i])
    /\ UNCHANGED <<play, request, receipt, typed, number>>
FlagCancel(s) ==
    /\ Doing(s, "cancel")
    /\ ~Locked(session[s].id)
    /\ LET i == session[s].id
       IN  IF play[i].st = "gone"
           THEN End(s) /\ UNCHANGED play
           ELSE /\ play' = [play EXCEPT ![i].st = "cancelled"]
                /\ Go(s, [h |-> "clear", cust |-> play[i].cust])
    /\ UNCHANGED <<request, ticket, receipt, typed, number>>
ReadRemaining(s) ==
    /\ Doing(s, "clear")
    /\ IF Live(session[s].cust) = {} THEN Go(s, [session[s] EXCEPT !.h = "erase"]) ELSE End(s)
    /\ UNCHANGED Tables
EraseNumbers(s) ==
    /\ Doing(s, "erase")
    /\ number' = number \ {session[s].cust}
    /\ End(s)
    /\ UNCHANGED <<play, request, ticket, receipt, typed>>

OpenRestore(s, i) ==
    /\ Free(s, "restore") /\ play[i].st = "cancelled"
    /\ Go(s, [h |-> "restore", id |-> i])
    /\ UNCHANGED Tables
CommitRestore(s) ==
    /\ Doing(s, "restore")
    /\ ~Locked(session[s].id)
    /\ LET i == session[s].id
       IN  IF play[i].st = "gone" THEN UNCHANGED <<play, number>>
           ELSE /\ play' = [play EXCEPT ![i].st = "live"]
                /\ number' = IF play[i].no THEN number \cup {play[i].cust} ELSE number
    /\ End(s)
    /\ UNCHANGED <<request, ticket, receipt, typed>>

Gone(p) == [p EXCEPT !.st = "gone"]
Purge(i) ==
    /\ "purge" \in duty
    /\ play[i].st = "cancelled" /\ ~Locked(i)
    /\ play' = [play EXCEPT ![i] = Gone(@)]
    /\ UNCHANGED <<request, ticket, receipt, typed, number, session>>
\* The legacy numbers of customers who have no row left go too.
PurgeAll ==
    /\ "purge" \in duty
    /\ \A i \in DOMAIN play : play[i].st = "cancelled" => ~Locked(i)
    /\ play' = [i \in DOMAIN play |-> IF play[i].st = "cancelled" THEN Gone(play[i]) ELSE play[i]]
    /\ number' = {c \in number : \E i \in Rows(c) : play[i].st = "live"}
    /\ UNCHANGED <<request, ticket, receipt, typed, session>>
-----------------------------------------------------------------------------
(* The crew on an activation; DispatchPipeline has the handlers *)

OpenCrew(s, i, next) ==
    /\ Free(s, "crew")
    /\ <<ticket[i].st, next>> \in {<<"PENDING", "ASSIGNED">>, <<"ASSIGNED", "IN_PROGRESS">>,
            <<"ASSIGNED", "PENDING">>, <<"IN_PROGRESS", "COMPLETED">>, <<"IN_PROGRESS", "ASSIGNED">>}
    /\ Go(s, [h |-> "crew", id |-> i, next |->
              [st |-> next, begun |-> ticket[i].begun \/ next = "IN_PROGRESS"]])
    /\ UNCHANGED Tables
CommitCrew(s) ==
    /\ Doing(s, "crew")
    /\ ticket' = [ticket EXCEPT ![session[s].id] = session[s].next]
    /\ End(s)
    /\ UNCHANGED <<play, request, receipt, typed, number>>

Tick ==
    /\ "clock" \in duty /\ today < LastDay
    /\ today' = today + 1
    /\ UNCHANGED <<Tables, session>>
-----------------------------------------------------------------------------
(* What the screens, the export and the morning notice say of a live row *)

Within(d, k) == d # NoDate /\ d >= today /\ d <= today + k
ExpiringTab(p) == Within(p.due, SoonDays) \/ Within(p.end, SoonDays)
ExpiredTab(p)  == Due(p) # NoDate /\ Due(p) < today
Exported(p)    == CASE Due(p) = NoDate -> "No Due Date"
                    [] Due(p) # NoDate /\ Due(p) < today -> "Overdue"
                    [] Within(Due(p), SoonDays) -> "Soon"
                    [] OTHER -> "Active"
Announced(p)   == Within(p.due, NoticeDays)
IsActive(p)    == p.st = "live" /\ Due(p) # NoDate /\ Due(p) >= today
InstallmentTab(p) == Ongoing(p)
FullyPaidTab(p)   == p.hw = "cashout" \/ (p.hw = "installment" /\ p.n >= Months)
-----------------------------------------------------------------------------
Applying(s) ==
    \/ \E r \in DOMAIN request, staff \in BOOLEAN : OpenWithdraw(s, r, staff)
    \/ \E r \in DOMAIN request : OpenResolve(s, r)
    \/ CommitWithdraw(s) \/ CommitResolve(s)

Activating(s) ==
    \/ \E c \in Customers, r \in {0} \cup DOMAIN request, o \in Offers, wait \in {0, LoadDays} :
          OpenActivate(s, c, r, o[1], o[2], today + wait, o[3])
    \/ \E r \in DOMAIN request, o \in Offers : OpenApprove(s, r, o[1], o[2], today + LoadDays)
    \/ CommitActivate(s) \/ CommitApprove(s)

Paying(s) ==
    \/ \E c \in Customers, i \in {0} \cup DOMAIN play, p \in Payments, date \in {NoDate, today} :
          OpenPay(s, c, i, p[1], p[2], date)
    \/ CommitPay(s)

Correcting(s) ==
    \/ \E i \in DOMAIN play, e \in Corrections : OpenEdit(s, i, e[1], e[2], e[3], e[4])
    \/ \E i \in DOMAIN play : OpenCancel(s, i) \/ OpenRestore(s, i)
    \/ CommitEdit(s) \/ FlagCancel(s) \/ ReadRemaining(s) \/ EraseNumbers(s) \/ CommitRestore(s)

Step ==
    \/ \E s \in Threads : Applying(s) \/ Activating(s) \/ Paying(s) \/ Correcting(s)
    \/ \E s \in Threads, i \in DOMAIN ticket, next \in {"PENDING", "ASSIGNED", "IN_PROGRESS", "COMPLETED"} :
          OpenCrew(s, i, next)
    \/ \E s \in Threads : CommitCrew(s)
    \/ \E c \in Customers : Apply(c) \/ Form(c, today + 1)
    \/ \E c \in Customers, hw \in Hardware : EditNew(c, hw)
    \/ \E i \in DOMAIN play : Purge(i)
    \/ PurgeAll

AtRest == Busy = {} /\ UNCHANGED vars

Next == (Step /\ UNCHANGED <<today, duty>>) \/ (Tick /\ UNCHANGED duty) \/ AtRest

Spec == Init /\ [][Next]_vars
-----------------------------------------------------------------------------
(* Properties *)

TypeOK ==
    /\ play \in Seq(Play) /\ ticket \in Seq(Ticket) /\ receipt \in Seq(Receipts)
    /\ typed \in Seq([due : Nat, n : 0 .. Months])
    /\ Len(ticket) = Len(play) /\ Len(receipt) = Len(play) /\ Len(typed) = Len(play)
    /\ request \in Seq([cust : Customers, st : {"Pending", "Resolved", "deleted"}])
    /\ \A i \in DOMAIN play : play[i].n <= Months /\ play[i].from \in 0 .. Len(request)
    /\ number \in SUBSET Customers /\ today \in Nat

\* What the subscription says was paid is what its Payment rows add up to, with
\* two cashiers, a pull-out and a restore at once (cignal_dashboard.py:242, 321).
PaidIsReceipted ==
    \A i \in DOMAIN play : play[i].st # "gone" => play[i].paid = receipt[i].paid

\* Every load paid for moves the due date on by its days, whoever else pays or
\* pulls the plan out meanwhile (cignal_dashboard.py:280-289).
LoadsAddUp ==
    \A i \in DOMAIN play : play[i].st # "gone" =>
        Due(play[i]) >= typed[i].due + LoadDays * receipt[i].loads

\* Every installment paid for is counted once, to the last (cignal_dashboard.py:297-314).
BoxesAddUp ==
    \A i \in DOMAIN play :
        play[i].hw = "installment" => play[i].n = typed[i].n + receipt[i].boxes

\* A job nobody started belongs to a customer who still has a plan: no crew is
\* sent to a line that was pulled out (cignal_dashboard.py:519-524).
JobHasPlan ==
    \A i \in DOMAIN ticket :
        ticket[i].st \in {"PENDING", "ASSIGNED"} /\ ~ticket[i].begun => Live(play[i].cust) # {}

\* The tabs, the export, the notice and the account page agree on each live row.
ScreensAgree ==
    \A i \in DOMAIN play : play[i].st = "live" =>
        LET p == play[i]
        IN  /\ ExpiredTab(p)  <=> Exported(p) = "Overdue"
            /\ ExpiringTab(p) <=> Exported(p) = "Soon"
            /\ IsActive(p)    <=> Exported(p) \in {"Soon", "Active"}
            /\ Announced(p) => ExpiringTab(p) /\ ~ExpiredTab(p)
            /\ ~(InstallmentTab(p) /\ FullyPaidTab(p))
=============================================================================
