---------------------------- MODULE FieldRecords ----------------------------
(***************************************************************************)
(* The record screens beside the ticket queue: concerns sent from the        *)
(* portal, monitoring records and the dispatch log made from them, the       *)
(* status options an administrator edits, the days given back for late       *)
(* repairs and the late-job alerts, and what the screens, the exports, the   *)
(* report and the customer's history say of all this.                        *)
(*                                                                           *)
(* Nothing here locks a row or opens a transaction.  A request reads a row   *)
(* (Open... actions) and saves all of it later; saving a row that was        *)
(* deleted meanwhile inserts it again.  The customers are subscribers with   *)
(* an installed line, so saving one moves no installation; DispatchPipeline  *)
(* has what it does to an applicant.                                         *)
(***************************************************************************)
EXTENDS Integers, Sequences, FiniteSets, Functions

CONSTANTS
    Threads,        \* threads that serve requests and tasks
    Customers,      \* subscribers
    Staff,          \* people who open and close tickets
    Boss,           \* the first superuser, who opens the portal's tickets
    Applicants, NameOf,   \* prospects not verified yet, and their names
    Numbers,        \* portal ticket numbers: the second of the submission
    Crowded,        \* two submissions may fall in the same second
    Labels,         \* MONITORING status options an administrator may have, by id
    Words,          \* the words screens look for in each label
    Duties,         \* sets of handlers; each behaviour runs those of one set
    Exclusive,      \* those of them that run while no other request does
    Lone,           \* those of which one runs at a time
    Opening,        \* accounts of the first state
    Stocks,         \* the sets of options the first state may have
    PayTime,        \* half days a payment buys
    MaxRecords,     \* bound on the MonitoringRecord table
    MaxLogs,        \* bound on the DispatchRecord table
    MaxDesk,        \* bound on the rows of either table the desk enters
    MaxStops,       \* bound on requests that die
    LastTime        \* bound on the clock, in half days

NoOne    == "no one"
NoNumber == "no number"
NoLabel  == "no label"
NoDate   == -100
Status   == {"PENDING", "ASSIGNED", "IN_PROGRESS", "COMPLETED", "QA_PASSED", "APPROVED", "CANCELLED"}
LineStatus == {"active", "expired", "inactive", "pending", "suspended", "pull out", "closed_not_installed"}
LabelNames == {Labels[k] : k \in DOMAIN Labels}

ASSUME FieldAssumption ==
    /\ Boss \in Staff /\ NoOne \notin Customers \cup Staff
    /\ \A l \in LabelNames \cup {"Done", NoLabel} : Words[l] \subseteq {"Pending", "Ongoing", "Done", "Cancelled"}
    /\ Words["Done"] = {"Done"} /\ Words[NoLabel] = {}
    /\ DOMAIN Labels \subseteq Nat

ASSUME OpeningAssumption ==
    /\ Opening \in [Customers -> [due : Int, st : LineStatus]]
    /\ PayTime \in Nat

\* A MonitoringRecord: label for status_option, log for its dispatch (0 for none).
\* What a crew measures, its JobDetail, is left out.
Record == [cust : Customers \cup {NoOne}, num : Numbers \cup {NoNumber},
           label : LabelNames \cup {"Done", NoLabel}, started : BOOLEAN, done : BOOLEAN,
           log : Nat, gone : BOOLEAN]
\* A DispatchRecord: from for its monitoring_record, given for sla_rebates_given.
Log == [cust : Customers \cup {NoOne}, num : Numbers \cup {NoNumber}, from : Nat,
        done : BOOLEAN, at : Nat, given : Nat]
\* A JobTicket of the portal.
Ticket == [cust : Customers, num : Numbers, st : Status \cup {"gone"}, team : BOOLEAN,
           at : Nat, opener : Staff, closer : Staff \cup {NoOne}]

VARIABLES
    option,     \* per label: "absent", or whether it is active
    record,     \* the MonitoringRecord table
    log,        \* the DispatchRecord table
    ticket,     \* the JobTicket table
    account,    \* status and due date of the customers, in half days
    rebates,    \* days of each customer's Rebate rows
    paid,       \* half days each customer has paid for
    waiting,    \* applicants not verified
    alert,      \* the Notification rows of the late-job check
    now, stops,
    session,    \* what each thread has read and is about to write
    duty        \* the handlers in use, which never change

vars == <<option, record, log, ticket, account, rebates, paid, waiting, alert, now, stops, session, duty>>
Papers == <<record, log, ticket>>
Money  == <<account, rebates, paid>>
Rest   == <<option, waiting, alert, now, stops, duty>>
Idle   == [h |-> "idle"]
-----------------------------------------------------------------------------
(* Rows and their changes *)

Min(S) == CHOOSE x \in S : \A y \in S : x <= y
Live(r) == ~record[r].gone

\* The first option, by id, whose label has the word; NoLabel when there is none.
Find(word) ==
    LET K == {k \in DOMAIN Labels : option[Labels[k]] # "absent" /\ word \in Words[Labels[k]]}
    IN  IF K = {} THEN NoLabel ELSE Labels[Min(K)]
FirstOption ==
    LET K == {k \in DOMAIN Labels : option[Labels[k]] # "absent"}
    IN  IF K = {} THEN NoLabel ELSE Labels[Min(K)]
PortalLabel == IF Find("Pending") # NoLabel THEN Find("Pending") ELSE FirstOption

NewRecord(c, n, l, k) ==
    [cust |-> c, num |-> n, label |-> l, started |-> FALSE, done |-> FALSE, log |-> k,
     gone |-> FALSE]
NewLog(c, n) ==
    [cust |-> c, num |-> n, from |-> 0, done |-> FALSE, at |-> now, given |-> 0]
NewTicket(c, n) ==
    [cust |-> c, num |-> n, st |-> "PENDING", team |-> FALSE, at |-> now, opener |-> Boss, closer |-> NoOne]

\* An option that was never made, or was deleted, leaves the label as it was.
Relabelled(row, l) == IF l = NoLabel THEN row ELSE [row EXCEPT !.label = l]
Dispatched(row)    == [Relabelled(row, Find("Ongoing")) EXCEPT !.started = TRUE]
Undispatched(row)  == [Relabelled(row, Find("Pending")) EXCEPT !.started = FALSE]
Finished(row)      == [Relabelled(row, Find("Done")) EXCEPT !.done = TRUE]
\* The form takes the first Done of either module; the dispatch log has one.
Filled(row)        == [row EXCEPT !.label = "Done", !.done = TRUE]

\* The open ticket a completed form closes: the customer's newest.
OpenTickets(c) == {i \in DOMAIN ticket : ticket[i].cust = c /\ ticket[i].st \in {"PENDING", "ASSIGNED", "IN_PROGRESS"}}
Closed(T, c) ==
    IF OpenTickets(c) = {} THEN T
    ELSE [T EXCEPT ![CHOOSE i \in OpenTickets(c) : \A j \in OpenTickets(c) : j <= i].st = "COMPLETED"]

\* Days of 24 hours a record has been open, and the account they are added to.
Owed(row) == (now - row.at) \div 2
Extended(a, days) ==
    LET e == a.due + 2 * days
    IN  [due |-> e,
         st  |-> IF e <= now /\ a.st = "active" THEN "expired"
                 ELSE IF e > now /\ a.st \in {"suspended", "inactive", "expired"} THEN "active"
                 ELSE a.st]

\* Mutant: the days given are those of this run.
GivenThisTime(row) == [row EXCEPT !.given = Owed(row) - row.given]
Given(row)         == [row EXCEPT !.given = Owed(row)]

\* Late subjects are those of 24 hours; an alert keeps the next away for 12.
Late(at)      == now - at > 2
IsRed(at)     == now - at >= 4
\* Mutant: an alert keeps the next away for less than 12 hours.
ToldJustNow(x) == \E k \in DOMAIN alert : alert[k].about = x /\ alert[k].at = now
Told(x)        == \E k \in DOMAIN alert : alert[k].about = x /\ alert[k].at >= now - 1
LateApplicants == {a \in waiting : Late(0)}
LateTickets    == {i \in DOMAIN ticket : ticket[i].st = "PENDING" /\ Late(ticket[i].at)}
-----------------------------------------------------------------------------
Init ==
    /\ \E L \in Stocks : option = [l \in LabelNames |-> IF l \in L THEN "active" ELSE "absent"]
    /\ record = <<>> /\ log = <<>> /\ ticket = <<>> /\ alert = <<>>
    /\ account = Opening
    /\ rebates = [c \in Customers |-> 0] /\ paid = [c \in Customers |-> 0]
    /\ waiting = Applicants
    /\ now = 0 /\ stops = 0
    /\ session = [s \in Threads |-> Idle]
    /\ duty \in Duties

Busy        == {s \in Threads : session[s] # Idle}
At(s, h, a) == session[s].h = h /\ session[s].at = a
End(s)      == session' = [session EXCEPT ![s] = Idle]
Go(s, job)  == session' = [session EXCEPT ![s] = job]

\* A request of handler h may start on thread s.
Free(s, h) ==
    /\ h \in duty /\ s \notin Busy
    /\ h \in Exclusive => Busy = {}
    /\ \A t \in Busy : session[t].h \notin Exclusive /\ (h \in Lone => session[t].h # h)

\* The bounds leave room for the rows under way.
Coming(H) == Cardinality({t \in Busy : session[t].h \in H})
RecordFits == Len(record) + Coming({"submit"}) < MaxRecords
LogFits    == Len(log) + Coming({"done"}) < MaxLogs
-----------------------------------------------------------------------------
(* A concern from the portal: three rows, one after the other *)

Submit(s, c, n) ==
    /\ Free(s, "submit") /\ RecordFits /\ LogFits
    /\ Crowded \/ \A i \in DOMAIN log : log[i].num # n
    /\ log' = Append(log, NewLog(c, n))
    /\ Go(s, [h |-> "submit", at |-> "record", cust |-> c, num |-> n, log |-> Len(log) + 1])
    /\ UNCHANGED <<record, ticket, Money, Rest>>

SubmitRecord(s) ==
    /\ At(s, "submit", "record")
    /\ LET j == session[s]
       IN  /\ record' = Append(record, NewRecord(j.cust, j.num, PortalLabel, j.log))
           /\ Go(s, [j EXCEPT !.at = "ticket"])
    /\ UNCHANGED <<log, ticket, Money, Rest>>

\* The number is unique among tickets; a second ticket is logged and forgotten.
SubmitTicket(s) ==
    /\ At(s, "submit", "ticket")
    /\ LET j == session[s]
       IN  ticket' = IF \E i \in DOMAIN ticket : ticket[i].num = j.num /\ ticket[i].st # "gone"
                     THEN ticket ELSE Append(ticket, NewTicket(j.cust, j.num))
    /\ End(s)
    /\ UNCHANGED <<record, log, Money, Rest>>

\* The desk enters a record or a line of the dispatch log for anyone.
DeskRecord(s) ==
    /\ Free(s, "desk") /\ RecordFits
    /\ Cardinality({r \in DOMAIN record : record[r].cust = NoOne}) < MaxDesk
    /\ \E l \in {x \in LabelNames : option[x] = "active"} \cup {NoLabel} :
          record' = Append(record, NewRecord(NoOne, NoNumber, l, 0))
    /\ UNCHANGED <<log, ticket, Money, Rest, session>>

DeskLog(s) ==
    /\ Free(s, "desk") /\ LogFits
    /\ Cardinality({i \in DOMAIN log : log[i].cust = NoOne /\ log[i].from = 0}) < MaxDesk
    /\ log' = Append(log, NewLog(NoOne, NoNumber))
    /\ UNCHANGED <<record, ticket, Money, Rest, session>>
-----------------------------------------------------------------------------
(* The buttons of a record *)

OpenRecord(s, h, r) ==
    /\ Free(s, h) /\ Live(r)
    /\ h = "done" => LogFits
    /\ Go(s, [h |-> h, at |-> "save", id |-> r, row |-> record[r]])
    /\ UNCHANGED <<Papers, Money, Rest>>

SaveDispatched(s) ==
    /\ At(s, "dispatch", "save")
    /\ record' = [record EXCEPT ![session[s].id] = Dispatched(session[s].row)]
    /\ End(s)
    /\ UNCHANGED <<log, ticket, Money, Rest>>

SaveUndispatched(s) ==
    /\ At(s, "undispatch", "save")
    /\ record' = [record EXCEPT ![session[s].id] = Undispatched(session[s].row)]
    /\ End(s)
    /\ UNCHANGED <<log, ticket, Money, Rest>>

SaveDone(s) ==
    /\ At(s, "done", "save")
    /\ LET row == Finished(session[s].row)
       IN  /\ record' = [record EXCEPT ![session[s].id] = row]
           /\ Go(s, [session[s] EXCEPT !.at = "log", !.row = row])
    /\ UNCHANGED <<log, ticket, Money, Rest>>

\* Mutant: the entry is looked for by the record's own link.
EntriesByLink(r) == {i \in DOMAIN log : record[r].log = i /\ log[i].from = r}
Entries(r)       == {i \in DOMAIN log : log[i].from = r}

\* update_or_create: one entry of the dispatch log per record.
LogDone(s) ==
    /\ At(s, "done", "log")
    /\ LET r == session[s].id  row == session[s].row
           i == IF Entries(r) = {} THEN Len(log) + 1 ELSE Min(Entries(r))
       IN  IF record[r].gone THEN End(s) /\ UNCHANGED log
           ELSE /\ log' = IF Entries(r) = {}
                          THEN Append(log, [NewLog(row.cust, row.num) EXCEPT !.from = r, !.done = TRUE])
                          ELSE [log EXCEPT ![i].done = TRUE, ![i].cust = row.cust, ![i].num = row.num]
                /\ Go(s, [session[s] EXCEPT !.at = "link", !.row.log = i])
    /\ UNCHANGED <<record, ticket, Money, Rest>>

LinkLog(s) ==
    /\ At(s, "done", "link")
    /\ record' = [record EXCEPT ![session[s].id] = session[s].row]
    /\ End(s)
    /\ UNCHANGED <<log, ticket, Money, Rest>>

\* The completion form saves the JobDetail first, which fails for a deleted record.
SaveForm(s) ==
    /\ At(s, "form", "save")
    /\ LET r == session[s].id  row == Filled(session[s].row)
       IN  IF record[r].gone THEN End(s) /\ UNCHANGED record
           ELSE /\ record' = [record EXCEPT ![r] = row]
                /\ IF row.cust = NoOne THEN End(s)
                   ELSE Go(s, [h |-> "form", at |-> "customer", cust |-> row.cust, row |-> account[row.cust]])
    /\ UNCHANGED <<log, ticket, Money, Rest>>

SaveFormCustomer(s) ==
    /\ At(s, "form", "customer")
    /\ account' = [account EXCEPT ![session[s].cust] = session[s].row]
    /\ ticket' = Closed(ticket, session[s].cust)
    /\ End(s)
    /\ UNCHANGED <<record, log, rebates, paid, Rest>>

\* Staff delete anything, others only what is not done.
DeleteRecord(s, r, staff) ==
    /\ Free(s, "delete") /\ Live(r)
    /\ staff \/ ~(record[r].done \/ "Done" \in Words[record[r].label])
    /\ record' = [record EXCEPT ![r].gone = TRUE]
    /\ log' = [i \in DOMAIN log |-> IF log[i].from = r THEN [log[i] EXCEPT !.from = 0] ELSE log[i]]
    /\ UNCHANGED <<ticket, Money, Rest, session>>
-----------------------------------------------------------------------------
(* Tickets, in the steps the screens tell apart *)

DeleteTicket(s, i, staff) ==
    /\ Free(s, "deleteTicket") /\ ticket[i].st # "gone"
    /\ staff \/ ticket[i].st \notin {"COMPLETED", "QA_PASSED"}
    /\ ticket' = [ticket EXCEPT ![i].st = "gone"]
    /\ UNCHANGED <<record, log, Money, Rest, session>>

Assign(s, i) ==
    /\ Free(s, "assign") /\ ticket[i].st = "PENDING"
    /\ ticket' = [ticket EXCEPT ![i].st = "ASSIGNED", ![i].team = TRUE]
    /\ UNCHANGED <<record, log, Money, Rest, session>>

\* Any status, except out of a cancellation.
UpdateStatus(s, i, st) ==
    /\ Free(s, "status") /\ ticket[i].st \notin {"CANCELLED", "gone", st}
    /\ ticket' = [ticket EXCEPT ![i].st = st]
    /\ UNCHANGED <<record, log, Money, Rest, session>>

Approve(s, i, u) ==
    /\ Free(s, "approve") /\ ticket[i].st \notin {"gone", "APPROVED"}
    /\ ticket' = [ticket EXCEPT ![i].st = "APPROVED", ![i].closer = u]
    /\ account' = [account EXCEPT ![ticket[i].cust].st = "active"]
    /\ UNCHANGED <<record, log, rebates, paid, Rest, session>>
-----------------------------------------------------------------------------
(* Days given back for open records: every row of the list as it was read *)

Sla(s) ==
    /\ Free(s, "sla")
    /\ Go(s, [h |-> "sla", at |-> "next", rows |-> log,
              todo |-> {i \in DOMAIN log : ~log[i].done /\ log[i].cust # NoOne}])
    /\ UNCHANGED <<Papers, Money, Rest>>

SlaNext(s) ==
    /\ At(s, "sla", "next")
    /\ LET j == session[s]  i == Min(j.todo)
       IN  IF j.todo = {} THEN End(s)
           ELSE IF Owed(j.rows[i]) > j.rows[i].given /\ account[j.rows[i].cust].due # NoDate
           THEN Go(s, [h |-> "sla", at |-> "account", rows |-> j.rows, todo |-> j.todo, id |-> i,
                       days |-> Owed(j.rows[i]) - j.rows[i].given,
                       cust |-> j.rows[i].cust, row |-> account[j.rows[i].cust]])
           ELSE Go(s, [j EXCEPT !.todo = @ \ {i}])
    /\ UNCHANGED <<Papers, Money, Rest>>

SlaExtend(s) ==
    /\ At(s, "sla", "account")
    /\ account' = [account EXCEPT ![session[s].cust] = Extended(session[s].row, session[s].days)]
    /\ Go(s, [session[s] EXCEPT !.at = "rebate"])
    /\ UNCHANGED <<Papers, rebates, paid, Rest>>

SlaRebate(s) ==
    /\ At(s, "sla", "rebate")
    /\ rebates' = [rebates EXCEPT ![session[s].cust] = @ + session[s].days]
    /\ Go(s, [session[s] EXCEPT !.at = "given"])
    /\ UNCHANGED <<Papers, account, paid, Rest>>

SlaGiven(s) ==
    /\ At(s, "sla", "given")
    /\ LET j == session[s]
       IN  /\ log' = [log EXCEPT ![j.id] = Given(j.rows[j.id])]
           /\ Go(s, [h |-> "sla", at |-> "next", rows |-> j.rows, todo |-> j.todo \ {j.id}])
    /\ UNCHANGED <<record, ticket, Money, Rest>>

\* A payment, which holds the customer's row.
Pay(s, c) ==
    /\ Free(s, "pay") /\ paid[c] = 0
    /\ LET a == account[c]  from == IF a.due # NoDate /\ a.due > now THEN a.due ELSE now
       IN  /\ account' = [account EXCEPT ![c] = [due |-> from + PayTime, st |-> "active"]]
           /\ paid' = [paid EXCEPT ![c] = from + PayTime - a.due]
    /\ UNCHANGED <<Papers, rebates, Rest, session>>
-----------------------------------------------------------------------------
(* The late-job check: applicants, then tickets nobody was sent to *)

Check(s) ==
    /\ Free(s, "check")
    /\ Go(s, [h |-> "check", at |-> "applicants", todo |-> LateApplicants])
    /\ UNCHANGED <<Papers, Money, Rest>>

CheckNext(s) ==
    /\ session[s].h = "check" /\ session[s].at \in {"applicants", "tickets"}
    /\ LET j == session[s]
           x == CHOOSE x \in j.todo : TRUE
           about == IF j.at = "applicants" THEN NameOf[x] ELSE ticket[x].num
           at    == IF j.at = "applicants" THEN 0 ELSE ticket[x].at
       IN  IF j.todo # {}
           THEN IF Told(about) THEN Go(s, [j EXCEPT !.todo = @ \ {x}])
                ELSE Go(s, [h |-> "check", at |-> "raise", back |-> j.at, todo |-> j.todo \ {x},
                            about |-> about, red |-> IsRed(at)])
           ELSE IF j.at = "applicants" THEN Go(s, [j EXCEPT !.at = "tickets", !.todo = LateTickets])
           ELSE End(s)
    /\ UNCHANGED <<Papers, Money, Rest>>

CheckRaise(s) ==
    /\ At(s, "check", "raise")
    /\ LET j == session[s]
       IN  /\ alert' = Append(alert, [about |-> j.about, at |-> now, red |-> j.red])
           /\ Go(s, [h |-> "check", at |-> j.back, todo |-> j.todo])
    /\ UNCHANGED <<Papers, Money, option, waiting, now, stops, duty>>

\* A prospect is verified.
Verify(s, a) ==
    /\ Free(s, "verify")
    /\ waiting' = waiting \ {a}
    /\ UNCHANGED <<Papers, Money, option, alert, now, stops, duty, session>>
-----------------------------------------------------------------------------
(* The status options; those the code looks for, but Ongoing, cannot be renamed   *)
(* or deleted.  Renaming Ongoing is left out.                                      *)

IsLocked(l) == l \in {"Done", "Cancelled", "Pending"}
InUse(l)    == \E r \in DOMAIN record : Live(r) /\ record[r].label = l

AddOption(s, l) ==
    /\ Free(s, "options") /\ option[l] = "absent"
    /\ option' = [option EXCEPT ![l] = "active"]
    /\ UNCHANGED <<Papers, Money, waiting, alert, now, stops, duty, session>>

ToggleOption(s, l) ==
    /\ Free(s, "options") /\ option[l] # "absent"
    /\ option' = [option EXCEPT ![l] = IF @ = "active" THEN "inactive" ELSE "active"]
    /\ UNCHANGED <<Papers, Money, waiting, alert, now, stops, duty, session>>

\* A label some record has is protected by the database.
DeleteOption(s, l) ==
    /\ Free(s, "options") /\ option[l] # "absent" /\ ~IsLocked(l) /\ ~InUse(l)
    /\ option' = [option EXCEPT ![l] = "absent"]
    /\ UNCHANGED <<Papers, Money, waiting, alert, now, stops, duty, session>>

Tick ==
    /\ "clock" \in duty /\ Busy = {} /\ now < LastTime
    /\ now' = now + 1
    /\ UNCHANGED <<Papers, Money, option, waiting, alert, stops, duty, session>>

\* A worker is killed between two of its writes.
Stop(s) ==
    /\ "stop" \in duty /\ s \in Busy /\ stops < MaxStops
    /\ stops' = stops + 1
    /\ End(s)
    /\ UNCHANGED <<Papers, Money, option, waiting, alert, now, duty>>

Request(s) ==
    \/ \E c \in Customers, n \in Numbers : Submit(s, c, n)
    \/ DeskRecord(s) \/ DeskLog(s)
    \/ \E h \in {"dispatch", "undispatch", "done", "form"}, r \in DOMAIN record : OpenRecord(s, h, r)
    \/ \E r \in DOMAIN record, staff \in BOOLEAN : DeleteRecord(s, r, staff)
    \/ \E i \in DOMAIN ticket, staff \in BOOLEAN : DeleteTicket(s, i, staff)
    \/ \E i \in DOMAIN ticket : Assign(s, i)
    \/ \E i \in DOMAIN ticket, st \in Status : UpdateStatus(s, i, st)
    \/ \E i \in DOMAIN ticket, u \in Staff : Approve(s, i, u)
    \/ \E c \in Customers : Pay(s, c)
    \/ \E a \in waiting : Verify(s, a)
    \/ \E l \in LabelNames : AddOption(s, l) \/ ToggleOption(s, l) \/ DeleteOption(s, l)
    \/ Sla(s) \/ Check(s)

Continue(s) ==
    \/ SubmitRecord(s) \/ SubmitTicket(s)
    \/ SaveDispatched(s) \/ SaveUndispatched(s)
    \/ SaveDone(s) \/ LogDone(s) \/ LinkLog(s)
    \/ SaveForm(s) \/ SaveFormCustomer(s)
    \/ SlaNext(s) \/ SlaExtend(s) \/ SlaRebate(s) \/ SlaGiven(s)
    \/ CheckNext(s) \/ CheckRaise(s) \/ Stop(s)

Next == Tick \/ \E s \in Threads : Request(s) \/ (s \in Busy /\ Continue(s))

Spec == Init /\ [][Next]_vars
-----------------------------------------------------------------------------
(* What the screens say *)

\* The tabs of the monitoring pages a record is listed under.
Tabs(row) ==
    LET completed == "Done" \in Words[row.label] \/ row.done
        cancelled == "Cancelled" \in Words[row.label]
        started   == "Ongoing" \in Words[row.label] \/ row.started
    IN  (IF completed THEN {"completed"} ELSE {}) \cup (IF cancelled THEN {"cancelled"} ELSE {})
          \cup (IF completed \/ cancelled THEN {} ELSE IF started THEN {"ongoing"} ELSE {"pending"})
\* The tabs of the same pages a ticket is counted under.
TicketTab(t) ==
    CASE t.st = "PENDING" -> "pending"
      [] t.st \in {"ASSIGNED", "IN_PROGRESS"} -> "ongoing"
      [] t.st \in {"COMPLETED", "QA_PASSED"} -> "completed"
      [] t.st = "CANCELLED" -> "cancelled"
      [] OTHER -> "none"
\* The tabs of the dispatch queue; attention is left to bounces and calls.
QueueTab(t) ==
    CASE t.st = "PENDING" /\ ~t.team -> "unassigned"
      [] t.st \in {"ASSIGNED", "IN_PROGRESS"} -> "ongoing"
      [] t.st \in {"COMPLETED", "QA_PASSED", "APPROVED", "CANCELLED"} -> "completed"
      [] OTHER -> "none"
\* What the dispatch dashboard lists, and what its export writes, for a filter.
Listed(t, filter) ==
    CASE filter = "ONGOING" -> t.st \in {"ASSIGNED", "IN_PROGRESS"}
      [] filter \in {"CLOSED", "DONE", "COMPLETED"} -> t.st \in {"COMPLETED", "QA_PASSED"}
      [] OTHER -> t.st = filter
Exported(t, filter) == t.st = filter

\* The dispatch log's export subtracts a date from a time for rows that are done.
CsvFails(rows)   == \E i \in DOMAIN rows : rows[i].done
ExcelFails(rows) == \E i \in DOMAIN rows : rows[i].done
\* The customer's page combines a date with a time that is not one.
PageFails(c) == \E r \in DOMAIN record : Live(r) /\ record[r].cust = c /\ record[r].started

\* Times a concern is in the customer's history: tickets, then records whose number
\* no ticket has.
\* Mutant: the numbers of the tickets are not left out.
ShownTwice(c, n) ==
    Cardinality({i \in DOMAIN ticket : ticket[i].cust = c /\ ticket[i].num = n /\ ticket[i].st # "gone"})
      + Cardinality({i \in DOMAIN log : log[i].cust = c /\ log[i].num = n})
Shown(c, n) ==
    LET T == {i \in DOMAIN ticket : ticket[i].cust = c /\ ticket[i].num = n /\ ticket[i].st # "gone"}
    IN  IF T # {} THEN Cardinality(T)
        ELSE Cardinality({i \in DOMAIN log : log[i].cust = c /\ log[i].num = n})

\* The performance report: jobs opened, of these closed and cancelled, and credit.
Handled(u)   == {i \in DOMAIN ticket : ticket[i].opener = u /\ ticket[i].st # "gone"}
ClosedBy(u)  == {i \in Handled(u) : ticket[i].st \in {"COMPLETED", "QA_PASSED"}}
Dropped(u)   == {i \in Handled(u) : ticket[i].st = "CANCELLED"}
Rate(u) ==
    LET base == Cardinality(Handled(u)) - Cardinality(Dropped(u))
    IN  IF base <= 0 THEN 0 ELSE (100 * Cardinality(ClosedBy(u))) \div base
Credit(u) ==
    Cardinality({i \in DOMAIN ticket : ticket[i].st = "APPROVED" /\ ticket[i].opener = u})
      + Cardinality({i \in DOMAIN ticket : ticket[i].st = "APPROVED" /\ ticket[i].closer = u})
-----------------------------------------------------------------------------
(* Properties *)

TypeOK ==
    /\ option \in [LabelNames -> {"absent", "active", "inactive"}]
    /\ record \in Seq(Record) /\ Len(record) <= MaxRecords
    /\ log \in Seq(Log) /\ Len(log) <= MaxLogs
    /\ ticket \in Seq(Ticket)
    /\ \A r \in DOMAIN record : record[r].log \in 0 .. Len(log)
    /\ \A i \in DOMAIN log : log[i].from \in 0 .. Len(record)
    /\ waiting \subseteq Applicants /\ now \in 0 .. LastTime

\* A record is under one tab of its page, whoever presses which button on which
\* copy and whatever the options become (dispatch/views.py:965-970).
OneTab == \A r \in DOMAIN record : Live(r) => Cardinality(Tabs(record[r])) = 1

\* However often Done is pressed, one entry of the dispatch log comes of a record,
\* and it says done (dispatch/views.py:1936).
LoggedOnce ==
    \A r \in DOMAIN record :
        /\ Cardinality({i \in DOMAIN log : log[i].from = r}) <= 1
        /\ \A i \in DOMAIN log : log[i].from = r => log[i].done

\* A due date has moved by what was paid and by the days of the rebates, and these
\* are the days the open records of the customer say were given (tasks.py:118-148).
SlaDaysMatch ==
    Busy = {} => \A c \in Customers :
        /\ account[c].due = Opening[c].due + paid[c] + 2 * rebates[c]
        /\ rebates[c] = SumFunctionOnSet([i \in DOMAIN log |-> log[i].given],
                                         {i \in DOMAIN log : log[i].cust = c})

\* A concern is in its customer's history: once, as a ticket, while there is one,
\* also when the request died half way (customer_portal/views/tickets.py:155-199).
ConcernIsShown ==
    \A i \in DOMAIN log : log[i].cust # NoOne =>
        /\ Shown(log[i].cust, log[i].num) >= 1
        /\ (\E k \in DOMAIN ticket : ticket[k].num = log[i].num /\ ticket[k].st # "gone")
              => Shown(log[i].cust, log[i].num) = 1

\* An applicant or a ticket is announced at most once in 12 hours (tasks.py:539, 567).
AlertsSpaced ==
    \A j, k \in DOMAIN alert :
        j < k /\ alert[j].about = alert[k].about => alert[k].at - alert[j].at > 1
=============================================================================
