--------------------------- MODULE MCFieldRecords ---------------------------
(* Constants for TLC, and claims of the documents. *)
EXTENDS FieldRecords, TLC

\* The options by id, and what the screens find in them.
MCLabels == <<"Done", "Ongoing", "Cancelled", "Pending">>
MCWords  == [l \in {"Done", "Ongoing", "Cancelled", "Pending", NoLabel} |->
                IF l = NoLabel THEN {} ELSE {l}]

\* Two applicants of one name.
MCNames == [a \in Applicants |-> "ana"]

MCOpening == [c \in Customers |-> [due |-> 1, st |-> "active"]]

Symmetry == Permutations(Threads)
-----------------------------------------------------------------------------
(* What documents say of this part and the code does not do (README, section
   5): TLC refutes each when it is named in a configuration. *)

\* The tabs count everything the page lists (dispatch/views.py:976).
TabsCountTickets == \A i \in DOMAIN ticket : ticket[i].st # "gone" => TicketTab(ticket[i]) # "none"

\* Every ticket is under a tab of the queue (dispatch/views_queue.py:26).
QueueShowsAll == \A i \in DOMAIN ticket : ticket[i].st # "gone" => QueueTab(ticket[i]) # "none"

\* The export is filtered by status as the list is (dispatch/views.py:1320).
ExportIsList ==
    \A i \in DOMAIN ticket, f \in {"ONGOING", "COMPLETED", "PENDING"} :
        Listed(ticket[i], f) <=> Exported(ticket[i], f)

\* The dispatch log can be exported (dispatch/views.py:1968, 2071).
LogIsExported == ~CsvFails(log) /\ ~ExcelFails(log)

\* The page opens for the customers with real job history (dispatch/views.py:1240).
PageOpens == \A c \in Customers : ~PageFails(c)

\* A submitted concern is in the queue (customer_portal/views/tickets.py:134).
SubmittedIsQueued ==
    Busy = {} => \A i \in DOMAIN log : log[i].cust # NoOne =>
        \E k \in DOMAIN ticket : ticket[k].cust = log[i].cust /\ ticket[k].num = log[i].num

\* Two concerns are two lines of the history.
ConcernsAreTwo ==
    Busy = {} => \A i, j \in DOMAIN log :
        /\ i # j /\ log[i].cust = log[j].cust /\ log[i].cust # NoOne
        /\ log[i].from = 0 /\ log[j].from = 0 /\ log[i].num = log[j].num
        => Shown(log[i].cust, log[i].num) = 2

\* A repair that is over earns no more days (tasks.py:102).
OverIsNotOwed ==
    \A i \in DOMAIN log : log[i].given > 0 =>
        \E r \in DOMAIN record : record[r].num = log[i].num /\ ~record[r].done

\* A record points to the entry made from it (dispatch/views.py:1940).
LogLinksBack ==
    Busy = {} => \A i \in DOMAIN log :
        log[i].from # 0 => record[log[i].from].log = i /\ record[log[i].from].done

\* A finished job is in the dispatch log (records.py:46).
FinishedIsLogged ==
    Busy = {} => \A r \in DOMAIN record : Live(r) /\ record[r].done => Entries(r) # {}

\* A deleted record stays deleted (dispatch/views.py:1422).
DeletedStaysGone ==
    [][\A r \in DOMAIN record : record[r].gone => record'[r].gone]_vars

\* A record returned to Pending is under Pending (dispatch/views.py:1839).
PendingIsPending ==
    Busy = {} => \A r \in DOMAIN record :
        Live(r) /\ record[r].label = "Pending" /\ ~record[r].started => Tabs(record[r]) = {"pending"}

\* An approved ticket earns its opener and its closer a point (reports.py:83).
ApprovedEarnsTwo ==
    Cardinality({i \in DOMAIN ticket : ticket[i].st = "APPROVED"}) * 2
      = SumFunction([u \in Staff |-> Credit(u)])

\* Signing a job off does not lower its opener's rate (reports.py:11).
SigningKeepsRate ==
    [][\A u \in Staff : (\E i \in DOMAIN ticket : ticket[i].st = "COMPLETED" /\ ticket'[i].st = "APPROVED")
          => Rate(u)' >= Rate(u)]_vars

\* Past 48 hours the alert is red (tasks.py:511).
LateIsRed ==
    \A s \in Threads : At(s, "check", "raise") \/ session[s].h # "check" \/ session[s].todo # {} \/
        \A i \in LateTickets : IsRed(ticket[i].at) /\ session[s].at = "tickets"
            => \E k \in DOMAIN alert : alert[k].about = ticket[i].num /\ alert[k].red

\* Every applicant who waits too long is announced (tasks.py:527).
EachIsAnnounced ==
    \A s \in Threads : session[s].h = "check" /\ session[s].at = "tickets" =>
        Cardinality({k \in DOMAIN alert : alert[k].at >= now - 1 /\ alert[k].about = "ana"}) >= Cardinality(LateApplicants)
=============================================================================
