---------------------------- MODULE AgentProgram ----------------------------
(***************************************************************************)
(* The sales agents' program: referrals from submission to conversion, the   *)
(* commission a converted customer earns with the second paid month, and the *)
(* payout batches.                                                           *)
(*                                                                           *)
(* A request reads (Open... actions) and writes later (Commit... actions);   *)
(* the conversion of a referral and every payment hold a row lock and read   *)
(* again under it, nothing else does.  The commission of a customer is       *)
(* evaluated by the post_save signal of every Payment, inside the request    *)
(* that saved it.  Money is in months of the plan price.                     *)
(***************************************************************************)
EXTENDS Integers, Sequences, FiniteSets

CONSTANTS
    Threads,        \* threads that serve requests
    Agents,         \* sales agents
    Phones,         \* phone numbers of applicants
    NoOne,          \* no agent, or no phone number
    Duties,         \* sets of handlers; each behaviour runs those of one set
    Exclusive,      \* those of them that run while no other request does
    BatchSize,      \* IncentiveSetting.batch_size
    Rate,           \* IncentiveSetting.incentive_amount
    Months,         \* the amounts of payments, refunds and corrections
    MaxReferrals,   \* bound on the Prospect table
    MaxCustomers,   \* bound on the Customer table
    MaxPaid,        \* bound on what a customer has paid
    MaxBatches      \* bound on the AgentPayoutBatch table

ASSUME AgentAssumption ==
    /\ NoOne \notin Agents \cup Phones
    /\ BatchSize \in Nat \ {0}
    /\ Rate \in Nat
    /\ Months \subseteq Nat \ {0}

\* Prospect.status, without the values nothing sets.
Statuses == {"submitted", "under_review", "converted", "declined"}

Referral == [agent : Agents, phone : Phones \cup {NoOne}, status : Statuses,
             opened : BOOLEAN, reopened : BOOLEAN, dup : BOOLEAN, cust : Nat]

\* A Customer row.  from is the referral its checklist confirmation names, 0 for
\* none; closed for closed_not_installed; moved for a payment transferred away.
Customer == [phone : Phones, agent : Agents \cup {NoOne}, original : Agents \cup {NoOne},
             from : Nat, closed : BOOLEAN, moved : BOOLEAN]

\* An AgentQualificationEvent row; batch 0 is none.
Event   == [cust : Nat, agent : Agents, status : {"qualified", "revoked", "paid_out"},
            batch : Nat]
NoEvent == [status |-> "none"]

\* An AgentPayoutBatch row.
Batch == [agent : Agents, amount : Nat, status : {"pending", "paid"}]

VARIABLES
    referral,   \* the Prospect table
    customer,   \* the Customer table
    paid,       \* the sum of each customer's Payment rows
    event,      \* the AgentQualificationEvent table
    batch,      \* the AgentPayoutBatch table
    session,    \* what each thread has read and is about to write
    duty        \* the handlers in use, which never change

vars == <<referral, customer, paid, event, batch, session, duty>>
Idle == [h |-> "idle"]
-----------------------------------------------------------------------------
(* What the code looks up and decides *)

AgentOf(c) == IF customer[c].original # NoOne THEN customer[c].original ELSE customer[c].agent

\* An installation closed before the commission was earned never counts.
Threshold == 2
Net(sum)  == IF sum < 0 THEN 0 ELSE sum

\* The newest event of a customer and the agent it counts for.
EventsOf(c)    == {i \in DOMAIN event : event[i].cust = c /\ event[i].agent = AgentOf(c)}
Newest(S)      == IF S = {} THEN 0 ELSE CHOOSE i \in S : \A j \in S : j <= i
EventOf(c)     == Newest(EventsOf(c))
Known(c)       == IF EventOf(c) = 0 THEN NoEvent ELSE event[EventOf(c)]

\* Mutant: the early return of a commission that was paid out is gone.
VerdictWithoutReturn(c, known, net) ==
    IF AgentOf(c) = NoOne THEN "nothing"
    ELSE IF known.status \in {"qualified", "paid_out"}
         THEN IF net < Threshold THEN "revoke" ELSE "nothing"
    ELSE IF net < Threshold \/ customer[c].closed THEN "nothing"
    ELSE IF known = NoEvent THEN "create" ELSE "requalify"
\* Mutant: a refund does not revoke.
VerdictKept(c, known, net) ==
    IF AgentOf(c) = NoOne \/ known.status \in {"paid_out", "qualified"} THEN "nothing"
    ELSE IF net < Threshold \/ customer[c].closed THEN "nothing"
    ELSE IF known = NoEvent THEN "create" ELSE "requalify"
\* evaluate_agent_qualification: what is to be done about a commission.
Verdict(c, known, net) ==
    CASE AgentOf(c) = NoOne \/ known.status = "paid_out"   -> "nothing"
      [] AgentOf(c) # NoOne /\ known.status = "qualified"  ->
            IF net < Threshold THEN "revoke" ELSE "nothing"
      [] OTHER -> IF net < Threshold \/ customer[c].closed THEN "nothing"
                  ELSE IF known = NoEvent THEN "create" ELSE "requalify"

\* ... and the table after it: a revocation writes the status, a second
\* qualification the whole row that was read, with the batch it was in.
Evaluated(j) ==
    CASE j.verdict = "nothing"   -> event
      [] j.verdict = "revoke"    -> [event EXCEPT ![j.id].status = "revoked"]
      [] j.verdict = "requalify" -> [event EXCEPT ![j.id] = [j.known EXCEPT !.status = "qualified"]]
      [] j.verdict = "create"    -> Append(event, [cust |-> j.cust, agent |-> j.agent,
                                                   status |-> "qualified", batch |-> 0])

\* Qualified, and in no batch: what the agent may cash out.
Unpaid(a) == {i \in DOMAIN event : /\ event[i].agent = a
                                   /\ event[i].status = "qualified"
                                   /\ event[i].batch = 0}
\* The n oldest of them.
Oldest(S, n) == {i \in S : Cardinality({j \in S : j < i}) < n}
\* The sizes the payout page offers.
Offered(a) == {n \in 1 .. Cardinality(Unpaid(a)) : n % BatchSize = 0}

\* Another customer or open referral has the phone number.
Matches(phone, except, closed) ==
    phone # NoOne /\
    \/ \E c \in DOMAIN customer : customer[c].phone = phone
    \/ \E i \in DOMAIN referral \ {except} :
          referral[i].phone = phone /\ referral[i].status \notin closed
-----------------------------------------------------------------------------
Init ==
    /\ referral = <<>> /\ customer = <<>> /\ paid = <<>>
    /\ event = <<>> /\ batch = <<>>
    /\ session = [s \in Threads |-> Idle]
    /\ duty \in Duties

Busy   == {s \in Threads : session[s] # Idle}
Tables == <<referral, customer, paid, event, batch>>

\* A request of handler h may start.
Free(h) ==
    /\ h \in duty
    /\ h \in Exclusive => Busy = {}
    /\ \A t \in Busy : session[t].h \notin Exclusive

Begin(s, job) ==
    /\ Free(job.h)
    /\ s \notin Busy
    /\ session' = [session EXCEPT ![s] = job]
    /\ UNCHANGED Tables

\* The bound of a table leaves room for the rows under way.
Space(table, h, max) == Len(table) + Cardinality({s \in Threads : session[s].h = h}) < max

Doing(s, h) == session[s].h = h
End(s)      == session' = [session EXCEPT ![s] = Idle]
-----------------------------------------------------------------------------
(* The agent's portal *)

NewReferral(a, phone, status, opened, dup) ==
    [agent |-> a, phone |-> phone, status |-> status, opened |-> opened,
     reopened |-> FALSE, dup |-> dup, cust |-> 0]

\* The duplicate check, and then the insert.
OpenAdd(s, a, phone) ==
    Begin(s, [h |-> "add", row |-> NewReferral(a, phone, "submitted", FALSE,
                                      Matches(phone, 0, {"declined", "converted"}))])
CommitAdd(s) ==
    /\ Doing(s, "add")
    /\ referral' = Append(referral, session[s].row)
    /\ End(s)
    /\ UNCHANGED <<customer, paid, event, batch>>

\* Only while no staff member opened it, as read; the whole row is saved.
OpenEdit(s, i, phone) ==
    /\ i \in DOMAIN referral
    /\ ~referral[i].opened /\ referral[i].status = "submitted"
    /\ Begin(s, [h |-> "edit", id |-> i,
                 row |-> [referral[i] EXCEPT !.phone = phone,
                                             !.dup = Matches(phone, i, {"declined"})]])
CommitEdit(s) ==
    /\ Doing(s, "edit")
    /\ referral' = [referral EXCEPT ![session[s].id] = session[s].row]
    /\ End(s)
    /\ UNCHANGED <<customer, paid, event, batch>>
-----------------------------------------------------------------------------
(* The staff's inbox and checklist *)

StaffAdd(a) ==
    /\ Free("staffAdd")
    /\ Len(referral) < MaxReferrals
    /\ referral' = Append(referral, NewReferral(a, NoOne, "under_review", TRUE, FALSE))
    /\ UNCHANGED <<customer, paid, event, batch, session>>

\* The first look locks the agent out; the status goes back as read.
OpenDetail(s, i) ==
    /\ i \in DOMAIN referral /\ ~referral[i].opened
    /\ Begin(s, [h |-> "open", id |-> i,
                 status |-> IF referral[i].status = "submitted" THEN "under_review"
                                                                ELSE referral[i].status])
CommitDetail(s) ==
    /\ Doing(s, "open")
    /\ referral' = [referral EXCEPT ![session[s].id] =
                        [@ EXCEPT !.opened = TRUE, !.status = session[s].status]]
    /\ End(s)
    /\ UNCHANGED <<customer, paid, event, batch>>

\* From the inbox, or as the checklist's answer: whatever the status is.
Decline(i) ==
    /\ Free("decline")
    /\ referral' = [referral EXCEPT ![i].status = "declined"]
    /\ UNCHANGED <<customer, paid, event, batch, session>>

\* The stamp of a reopening is never taken back.
OpenReopen(s, i) ==
    /\ i \in DOMAIN referral /\ referral[i].status = "declined"
    /\ Begin(s, [h |-> "reopen", id |-> i])
CommitReopen(s) ==
    /\ Doing(s, "reopen")
    /\ referral' = [referral EXCEPT ![session[s].id] =
                        [@ EXCEPT !.status = "under_review", !.reopened = TRUE]]
    /\ End(s)
    /\ UNCHANGED <<customer, paid, event, batch>>

\* Mutant: what was read before the lock is good enough.
ConvertibleAsRead(r) == TRUE
Convertible(r) == r.status # "converted" /\ (r.status = "declined" => r.reopened)

\* The customer form: the phone number must be new; with a referral (i > 0) it is
\* locked and looked at again.  The override for installed lines leaves it alone.
OpenCustomer(s, i, phone, a, installed) ==
    /\ \A c \in DOMAIN customer : customer[c].phone # phone
    /\ Begin(s, [h |-> "convert", id |-> IF installed THEN 0 ELSE i, phone |-> phone,
                 agent |-> IF a # NoOne \/ i = 0 \/ installed THEN a ELSE referral[i].agent])
CommitCustomer(s) ==
    /\ Doing(s, "convert")
    /\ LET j == session[s]
       IN  IF j.id # 0 /\ ~Convertible(referral[j.id])
           THEN UNCHANGED Tables
           ELSE /\ customer' = Append(customer, [phone |-> j.phone, agent |-> j.agent,
                                   original |-> j.agent, from |-> j.id,
                                   closed |-> FALSE, moved |-> FALSE])
                /\ paid' = Append(paid, 0)
                /\ referral' = IF j.id = 0 THEN referral
                               ELSE [referral EXCEPT ![j.id] =
                                       [@ EXCEPT !.status = "converted", !.cust = Len(customer) + 1]]
                /\ UNCHANGED <<event, batch>>
    /\ End(s)

\* The customer form changes the agent, never the original one.
Reassign(c, a) ==
    /\ Free("reassign")
    /\ customer' = [customer EXCEPT ![c].agent = a]
    /\ UNCHANGED <<referral, paid, event, batch, session>>

\* Dispatch closes an installation that never came to be.
CloseInstall(c) ==
    /\ Free("close")
    /\ customer' = [customer EXCEPT ![c].closed = TRUE]
    /\ UNCHANGED <<referral, paid, event, batch, session>>
-----------------------------------------------------------------------------
(* Payments, and the commission each of them evaluates *)

Job(h, c, d, amount, net) ==
    [h |-> h, cust |-> c, left |-> d, amount |-> amount, agent |-> AgentOf(c), id |-> EventOf(c),
     known |-> Known(c), verdict |-> Verdict(c, Known(c), net)]

\* Mutant: the payment locks no row.
UnlockedAnyway(c) == TRUE
\* No transaction holds the lock of the customer's row.
Unlocked(c) == \A t \in Busy : session[t].h \in {"pay", "transfer"} => c \notin {session[t].cust, session[t].left}

OpenPay(s, c, amount) ==
    /\ paid[c] + amount <= MaxPaid
    /\ Unlocked(c)
    /\ Begin(s, Job("pay", c, 0, amount, Net(paid[c] + amount)))
\* An admin moves a payment from customer d to c: only c is evaluated.
OpenTransfer(s, c, d, amount) ==
    /\ c # d /\ paid[d] >= amount /\ paid[c] + amount <= MaxPaid
    /\ Unlocked(c) /\ Unlocked(d)
    /\ Begin(s, Job("transfer", c, d, amount, Net(paid[c] + amount)))
CommitPay(s) ==
    /\ Doing(s, "pay")
    /\ LET j == session[s]
       IN  /\ paid' = [paid EXCEPT ![j.cust] = @ + j.amount]
           /\ event' = Evaluated(j)
    /\ End(s)
    /\ UNCHANGED <<referral, customer, batch>>
CommitTransfer(s) ==
    /\ Doing(s, "transfer")
    /\ LET j == session[s]
       IN  /\ paid' = [paid EXCEPT ![j.cust] = @ + j.amount, ![j.left] = @ - j.amount]
           /\ customer' = [customer EXCEPT ![j.left].moved = TRUE]
           /\ event' = Evaluated(j)
    /\ End(s)
    /\ UNCHANGED <<referral, batch>>

\* A rollback or a correction saves a Payment row in no transaction; then its
\* signal reads and writes, and after a rollback the view evaluates once more.
Post(s, h, c, delta, rounds) ==
    /\ Free(h)
    /\ s \notin Busy
    /\ paid[c] + delta \in 0 .. MaxPaid
    /\ paid' = [paid EXCEPT ![c] = @ + delta]
    /\ session' = [session EXCEPT ![s] = [h |-> h, todo |-> rounds, cust |-> c]]
    /\ UNCHANGED <<referral, customer, event, batch>>
Refund(s, c, amount)    == Post(s, "refund", c, -amount, 2)
Correct(s, c, old, new) == Post(s, "correct", c, new - old, 1)

Reading(s) == session[s].h \in {"refund", "correct"} /\ "verdict" \notin DOMAIN session[s]
ReadLedger(s) ==
    /\ Reading(s)
    /\ LET j == session[s]
           k == Job(j.h, j.cust, 0, 0, Net(paid[j.cust]))
       IN  session' = [session EXCEPT ![s] = [h |-> j.h, todo |-> j.todo - 1, cust |-> j.cust,
                          agent |-> k.agent, id |-> k.id, known |-> k.known, verdict |-> k.verdict]]
    /\ UNCHANGED Tables
WriteLedger(s) ==
    /\ session[s].h \in {"refund", "correct"} /\ ~Reading(s)
    /\ LET j == session[s]
       IN  /\ event' = Evaluated(j)
           /\ session' = [session EXCEPT ![s] =
                 IF j.todo = 0 THEN Idle ELSE [h |-> j.h, todo |-> j.todo, cust |-> j.cust]]
    /\ UNCHANGED <<referral, customer, paid, batch>>
-----------------------------------------------------------------------------
(* Payout batches; a request whose batch number another took meanwhile fails and
   changes nothing *)

OpenBatch(s, a, n) ==
    /\ n \in Offered(a)
    /\ Len(batch) < MaxBatches
    /\ Begin(s, [h |-> "batch", agent |-> a, size |-> n, events |-> Oldest(Unpaid(a), n)])

\* Mutant: the amount is that of everything the agent could claim.
WorthOfAll(j) == Rate * Cardinality(Unpaid(j.agent))
Worth(j)      == Rate * j.size
CommitBatch(s) ==
    /\ Doing(s, "batch")
    /\ LET j == session[s]
       IN  /\ batch' = Append(batch, [agent |-> j.agent, amount |-> Worth(j), status |-> "pending"])
           /\ event' = [i \in DOMAIN event |->
                           IF i \in j.events THEN [event[i] EXCEPT !.batch = Len(batch) + 1]
                                             ELSE event[i]]
    /\ End(s)
    /\ UNCHANGED <<referral, customer, paid>>
OpenMarkPaid(s, b) ==
    /\ b \in DOMAIN batch /\ batch[b].status = "pending"
    /\ Begin(s, [h |-> "markPaid", id |-> b])

\* Mutant: only commissions still qualified are marked.
PaidOutIfQualified(e, b) ==
    IF e.batch = b /\ e.status = "qualified" THEN [e EXCEPT !.status = "paid_out"] ELSE e
PaidOut(e, b) == IF e.batch = b THEN [e EXCEPT !.status = "paid_out"] ELSE e
CommitMarkPaid(s) ==
    /\ Doing(s, "markPaid")
    /\ LET b == session[s].id
       IN  /\ batch' = [batch EXCEPT ![b].status = "paid"]
           /\ event' = [i \in DOMAIN event |-> PaidOut(event[i], b)]
    /\ End(s)
    /\ UNCHANGED <<referral, customer, paid>>
-----------------------------------------------------------------------------
Referring(s) ==
    \/ \E a \in Agents, phone \in Phones : Space(referral, "add", MaxReferrals) /\ OpenAdd(s, a, phone)
    \/ CommitAdd(s)
    \/ \E i \in DOMAIN referral, phone \in Phones : OpenEdit(s, i, phone)
    \/ CommitEdit(s)

Reviewing(s) ==
    \/ \E i \in DOMAIN referral : OpenDetail(s, i) \/ OpenReopen(s, i)
    \/ CommitDetail(s) \/ CommitReopen(s)
    \/ \E i \in {0} \cup DOMAIN referral, phone \in Phones, a \in Agents \cup {NoOne},
          installed \in BOOLEAN :
          Space(customer, "convert", MaxCustomers) /\ OpenCustomer(s, i, phone, a, installed)
    \/ CommitCustomer(s)

Paying(s) ==
    \/ \E c \in DOMAIN customer, amount \in Months : OpenPay(s, c, amount) \/ Refund(s, c, amount)
    \/ \E c, d \in DOMAIN customer, amount \in Months : OpenTransfer(s, c, d, amount)
    \/ \E c \in DOMAIN customer, old, new \in Months : paid[c] >= old /\ Correct(s, c, old, new)
    \/ CommitPay(s) \/ CommitTransfer(s) \/ ReadLedger(s) \/ WriteLedger(s)

CashingOut(s) ==
    \/ \E a \in Agents, n \in 1 .. MaxCustomers : OpenBatch(s, a, n)
    \/ CommitBatch(s)
    \/ \E b \in DOMAIN batch : OpenMarkPaid(s, b)
    \/ CommitMarkPaid(s)

Step ==
    \/ \E s \in Threads : Referring(s) \/ Reviewing(s) \/ Paying(s) \/ CashingOut(s)
    \/ \E a \in Agents : StaffAdd(a)
    \/ \E i \in DOMAIN referral : Decline(i)
    \/ \E c \in DOMAIN customer, a \in Agents \cup {NoOne} : Reassign(c, a)
    \/ \E c \in DOMAIN customer : CloseInstall(c)

AtRest == Busy = {} /\ UNCHANGED vars

Next == (Step /\ UNCHANGED duty) \/ AtRest

Spec == Init /\ [][Next]_vars
-----------------------------------------------------------------------------
(* Properties *)

Quiet == Busy = {}

\* Rows refer to rows that exist, also the ones a request is about to write.
TypeOK ==
    /\ referral \in Seq(Referral) /\ customer \in Seq(Customer)
    /\ paid \in Seq(Int) /\ Len(paid) = Len(customer)
    /\ event \in Seq(Event) /\ batch \in Seq(Batch)
    /\ \A i \in DOMAIN referral : referral[i].cust \in 0 .. Len(customer)
    /\ \A c \in DOMAIN customer : customer[c].from \in 0 .. Len(referral)
    /\ \A e \in DOMAIN event : /\ event[e].cust \in DOMAIN customer
                               /\ event[e].batch \in 0 .. Len(batch)
    /\ \A s \in Busy :
          "verdict" \in DOMAIN session[s] /\ session[s].verdict \in {"revoke", "requalify"}
              => session[s].id \in DOMAIN event

\* A referral becomes a second customer only if staff reopened it in between, two
\* clerks on one referral included (crud.py:289-296).
ConvertedOnce ==
    \A c, d \in DOMAIN customer :
        c # d /\ customer[c].from = customer[d].from /\ customer[c].from # 0
            => referral[customer[c].from].reopened

\* Of two open referrals with one phone number that staff never reopened, one is
\* flagged, whichever agent sent or edited which first (agents.py:74, 200).
DuplicatesFlagged ==
    \A i, j \in DOMAIN referral :
        /\ i # j /\ referral[i].phone = referral[j].phone /\ referral[i].phone # NoOne
        /\ \A k \in {i, j} :
              referral[k].status \in {"submitted", "under_review"} /\ ~referral[k].reopened
        => referral[i].dup \/ referral[j].dup

\* A customer earns an agent one commission, however often it is revoked and
\* earned again (incentives.py:58, "never creates duplicate events").
OneCommission ==
    \A i, j \in DOMAIN event :
        event[i].cust = event[j].cust /\ event[i].agent = event[j].agent => i = j

\* A commission that was not paid out yet is backed by two paid months, refunds and
\* corrections included, unless its payment was transferred or its agent is not the
\* original one.
QualifiedIsEarned ==
    Quiet => \A e \in DOMAIN event :
        LET c == event[e].cust
        IN  event[e].status = "qualified" /\ event[e].agent = customer[c].original /\ ~customer[c].moved
                => paid[c] >= Threshold

\* The ledger and the batches tell the same: an event is paid out if and only if
\* its batch is.
LedgersAgree ==
    \A e \in DOMAIN event :
        event[e].status = "paid_out"
            <=> event[e].batch # 0 /\ batch[event[e].batch].status = "paid"

\* A batch is worth its customers, from its creation to the payment.
BatchesAreWorth ==
    \A b \in DOMAIN batch :
        batch[b].amount = Rate * Cardinality({e \in DOMAIN event : event[e].batch = b})

\* What the agent's portal says of the customer a referral became.
Shown(i) ==
    LET c == referral[i].cust
        S == {e \in DOMAIN event : event[e].cust = c /\ event[e].agent = referral[i].agent}
    IN  IF S # {} THEN event[Newest(S)].status
        ELSE IF customer[c].closed THEN "cancelled"
        ELSE IF Net(paid[c]) >= Threshold THEN "qualified" ELSE "in_progress"

\* The portal promises no commission that the ledger does not have.
PortalShowsLedger ==
    Quiet => \A i \in DOMAIN referral :
        LET c == referral[i].cust
        IN  c # 0 /\ customer[c].original = referral[i].agent /\ Shown(i) = "qualified"
                => \E e \in EventsOf(c) : event[e].status = "qualified"

\* A paid-out commission is a permanent record (incentives.py:104).
PaidIsFinal ==
    [][\A e \in DOMAIN event : event[e].status = "paid_out" => event'[e] = event[e]]_vars
=============================================================================
