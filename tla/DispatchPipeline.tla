-------------------------- MODULE DispatchPipeline --------------------------
(***************************************************************************)
(* Job orders: the JobTicket table, the crew on each ticket, the two        *)
(* signals that tie tickets and customers together, and every handler that  *)
(* moves a ticket from the queue to the final sign-off.                     *)
(*                                                                         *)
(* No handler locks the ticket row.  A request fetches the ticket (Open...  *)
(* actions), changes its copy, and later saves the whole copy.  What it     *)
(* still has to save is its todo list; each save commits on its own, with   *)
(* the post_save signals it fires, and other requests may come in between.  *)
(* ticket.customer is fetched when the request first uses it (seen).        *)
(*                                                                         *)
(* Time stamps, durations, report fields and the history rows are left out. *)
(***************************************************************************)
EXTENDS Integers, Sequences, FiniteSets

CONSTANTS
    Customers,      \* subscribers
    Threads,        \* threads that serve requests
    Dispatchers,    \* users with the dispatch, QA and staff screens
    Admins,         \* users who may grant the final approval
    Techs,          \* field technicians, named by their user
    Kinds,          \* the ticket types this configuration opens by hand
    Opening,        \* the customer rows the table may start with
    Duties,         \* sets of handlers; each behaviour runs those of one set
    Exclusive,      \* those sets whose requests run one at a time
    MaxTickets,     \* bound on the number of tickets
    MaxJobs,        \* bound on the tickets when one more is opened by hand
    MaxBounces,     \* bound on bounce_count
    MaxCalls,       \* bound on contact_attempt_count and the call log
    MaxSequence     \* bound on the sequence of a crew row

Users    == Dispatchers \cup Admins \cup Techs
Unfinished == {"PENDING", "ASSIGNED", "IN_PROGRESS"}
Status   == Unfinished \cup {"COMPLETED", "QA_PASSED", "APPROVED", "CANCELLED"}
Stages == {"ASSIGNMENT", "TIMER_CORRECTED", "FIELD_ARRIVED", "FIELD_DONE",
           "RETURNED_UNREACHABLE", "QA_REVIEW", "QA_BOUNCE", "ADMIN_APPROVED",
           "ADMIN_BOUNCE", "CLOSED_UNREACHABLE"}
Types  == {"INSTALLATION", "REPAIR", "CIGNAL", "MIGRATION", "RELOCATION",
           "PULL_OUT", "SITE_VISIT"}

\* installation_status; the last value is not one of the model's choices.
Installs == {"installed", "pending", "closed_not_installed", "pending_installation"}

\* A Customer row; "new" stands for no row yet, dated for expires_at being set
\* and since for installed_at being set.
Row == [status : {"new", "pending", "active", "suspended"}, install : Installs,
        dated : BOOLEAN, since : BOOLEAN]

\* hands is what same_person_stages says of a user: no stage, the only stage
\* that user did, or "several".  "DELETED" stands for a row that is gone.
Ticket == [cust : Customers, kind : Types, status : Status \cup {"DELETED"},
           bounces : Nat, alert : BOOLEAN, flagged : BOOLEAN, calls : Nat,
           called : BOOLEAN, signed : BOOLEAN, same : BOOLEAN,
           hands : [Users -> Stages \cup {"none", "several"}]]

\* A TicketTechnicianAssignment row.
Seat == [tech : Techs, sequence : Nat, current : BOOLEAN, replacedBy : Techs \cup {"nobody"}]

ASSUME DispatchAssumption ==
    /\ Kinds \subseteq Types
    /\ Opening \subseteq Row
    /\ \A r \in Opening : r.status = "active" => r.dated
    /\ IsFiniteSet(Techs) /\ "nobody" \notin Techs

VARIABLES
    row,        \* the Customer table, the columns dispatch reads or writes
    paid,       \* customers with a Payment row
    ticket,     \* the JobTicket table
    attempts,   \* rows of CallAttemptLog, per ticket
    crew,       \* JobTicket.technicians, per ticket
    seats,      \* TicketTechnicianAssignment rows, per ticket
    session,    \* what each thread has read and has still to save
    duty        \* the handlers of this behaviour

vars   == <<row, paid, ticket, attempts, crew, seats, session, duty>>

Idle   == [todo |-> <<>>]
Unread == [status |-> "unread"]
-----------------------------------------------------------------------------
(* The lifecycle table and what the signals decide *)

Allowed ==
    [PENDING     |-> {"ASSIGNED", "CANCELLED"},
     ASSIGNED    |-> {"IN_PROGRESS", "PENDING", "CANCELLED"},
     IN_PROGRESS |-> {"COMPLETED", "ASSIGNED", "CANCELLED"},
     COMPLETED   |-> {"QA_PASSED", "APPROVED", "ASSIGNED", "IN_PROGRESS", "CANCELLED"},
     QA_PASSED   |-> {"APPROVED", "COMPLETED", "ASSIGNED", "IN_PROGRESS", "CANCELLED"},
     APPROVED    |-> {"CANCELLED"},
     CANCELLED   |-> {"PENDING"}]

CanTransition(t, target) ==
    \/ t.status = target
    \/ t.kind = "SITE_VISIT" /\ t.status = "IN_PROGRESS" /\ target \in {"COMPLETED", "APPROVED"}
    \/ target \in Allowed[t.status]

\* record_stage_action: who did the stage, and the flag when it is not their first.
Acted(t, u, stage) ==
    LET now == IF t.hands[u] \in {"none", stage} THEN stage ELSE "several"
    IN  [t EXCEPT !.hands = [@ EXCEPT ![u] = now], !.same = @ \/ now = "several"]

\* Mutant: the alert needs a third bounce.
BouncedLate(t) == [t EXCEPT !.bounces = @ + 1, !.alert = @ \/ t.bounces >= 2]
Bounced(t)     == [t EXCEPT !.bounces = @ + 1, !.alert = @ \/ t.bounces >= 1]

\* Mutant: a clean report is enough, whatever bounced before.
NeedsAdminUnlessFlagged(t) == t.kind # "REPAIR" \/ t.flagged \/ t.same
NeedsAdmin(t) == t.kind # "REPAIR" \/ t.bounces >= 2 \/ t.alert \/ t.flagged \/ t.same

NewTicket(c, kind) ==
    [cust |-> c, kind |-> kind, status |-> "PENDING", bounces |-> 0, alert |-> FALSE,
     flagged |-> FALSE, calls |-> 0, called |-> FALSE, signed |-> FALSE, same |-> FALSE,
     hands |-> [u \in Users |-> "none"]]

OpenInstalls(c, table) ==
    {i \in DOMAIN table : /\ table[i].cust = c
                          /\ table[i].kind = "INSTALLATION"
                          /\ table[i].status \in Unfinished}

Waiting(r) == r.status = "pending" \/ r.install = "pending"
LineIn(r)  == ~Waiting(r) /\ r.install = "installed"

\* Mutant: a status that other screens test for but the model does not list.
CompletedAndVerified(c, table) ==
    [i \in DOMAIN table |-> IF i \in OpenInstalls(c, table)
                              THEN [table[i] EXCEPT !.status = "COMPLETED_AND_VERIFIED"]
                              ELSE table[i]]
\* The customer signal completes the open installations of an installed line ...
Completed(c, table) ==
    [i \in DOMAIN table |-> IF i \in OpenInstalls(c, table)
                              THEN [table[i] EXCEPT !.status = "COMPLETED"] ELSE table[i]]
Settled(c, r, table) == IF LineIn(r) THEN Completed(c, table) ELSE table
\* ... and wants a ticket for a waiting one that has none open.
Wanted(c, r, table) == Waiting(r) /\ OpenInstalls(c, table) = {}

\* The ticket signal marks the customer of a completed installation installed.
Finishes(t, r) ==
    /\ t.kind = "INSTALLATION" /\ t.status = "COMPLETED"
    /\ r.install # "installed" \/ ~r.since

InstalledRow(r) == [r EXCEPT !.install = "installed", !.since = TRUE]

\* Mutant: the technician's work activates the line.
ActivatedAnyway(c, r) == [r EXCEPT !.install = "installed", !.status = "active"]
\* Installed; active too unless the first payment is still awaited.
Activated(c, r) ==
    [r EXCEPT !.install = "installed",
              !.status = IF r.dated \/ c \in paid THEN "active" ELSE @]
-----------------------------------------------------------------------------
Init ==
    /\ row \in [Customers -> Opening]
    /\ paid = {c \in Customers : row[c].status \in {"active", "suspended"}}
    /\ ticket = <<>>
    /\ attempts = <<>>
    /\ crew = <<>>
    /\ seats = <<>>
    /\ session = [s \in Threads |-> Idle]
    /\ duty \in Duties

Busy == {s \in Threads : session[s].todo # <<>>}
\* The bound on tickets: no request starts that could exceed it (one that is
\* under way may create two).
Room == Len(ticket) + 2 * Cardinality(Busy) + 2 <= MaxTickets

Tables == <<row, paid, ticket, attempts, crew, seats>>

\* A request has passed its checks; job is what it has read and has to save.
Begin(s, h, job) ==
    /\ h \in duty
    /\ s \notin Busy
    /\ duty \in Exclusive => Busy = {}
    /\ Room
    /\ session' = [session EXCEPT ![s] = job]
    /\ UNCHANGED <<Tables, duty>>

\* get_object_or_404 found ticket i, and the handler changed its copy to t.
Current(i) == {x \in seats[i] : x.current}
Found(i)   == i \in DOMAIN ticket /\ ticket[i].status # "DELETED"
CrewRequest(s, h, todo, i, t, team, out) ==
    Begin(s, h, [todo |-> todo, id |-> i, cust |-> t.cust, job |-> t, seen |-> Unread,
                 team |-> team, out |-> out, held |-> IF out = {} THEN {} ELSE Current(i)])
Request(s, h, todo, i, t) == CrewRequest(s, h, todo, i, t, {}, {})
\* A request about customer c; seen is the row it fetched, if it did.
CustomerRequest(s, h, todo, c, seen) ==
    Begin(s, h, [todo |-> todo, id |-> 0, cust |-> c, job |-> NewTicket(c, "INSTALLATION"),
                 seen |-> seen, team |-> {}, out |-> {}, held |-> {}])

Doing(s, step) == session[s].todo # <<>> /\ Head(session[s].todo) = step

\* The step is over; the signal's step, if any, comes before the rest.
Continue(s, extra, seen) ==
    /\ session' = [session EXCEPT ![s] =
           LET rest == extra \o Tail(session[s].todo)
           IN  IF rest = <<>> THEN Idle ELSE [session[s] EXCEPT !.todo = rest, !.seen = seen]]
    /\ UNCHANGED duty

\* An IntegrityError or DatabaseError: the handler answers 500.
Fail(s) ==
    /\ session' = [session EXCEPT ![s] = Idle]
    /\ UNCHANGED <<Tables, duty>>

\* The customer this request works with.
Known(s, c) == IF session[s].seen = Unread THEN row[c] ELSE session[s].seen

Insert(t, table) ==
    /\ ticket' = Append(table, t)
    /\ attempts' = Append(attempts, 0)
    /\ crew' = Append(crew, {})
    /\ seats' = Append(seats, {})

\* The table after the save of ticket t, and the ticket signal with customer r.
AfterSave(s, table, t, r) ==
    LET c    == t.cust
        done == Finishes(t, r)
        rin  == InstalledRow(r)
    IN  IF done
        THEN /\ ticket' = Settled(c, rin, table)
             /\ row' = [row EXCEPT ![c] = [@ EXCEPT !.install = "installed", !.since = TRUE]]
             /\ Continue(s, IF Wanted(c, rin, table) THEN <<"create">> ELSE <<>>, rin)
        ELSE /\ ticket' = table
             /\ UNCHANGED row
             /\ Continue(s, <<>>, session[s].seen)

\* The save of customer r completes tickets, whose own signal stamps installed_at.
Settles(c, r) == LineIn(r) /\ OpenInstalls(c, ticket) # {}

\* The customer signal, after a save that left row r2 in the table.
AfterCustomer(s, c, r, r2) ==
    /\ row' = [row EXCEPT ![c] = r2]
    /\ ticket' = Settled(c, r, ticket)
    /\ Continue(s, IF Wanted(c, r, ticket) THEN <<"create">> ELSE <<>>, r)

\* customer.save() of the whole row r; a suspended one has no due date.
SaveCustomer(s, c, r) ==
    AfterCustomer(s, c, r, [r EXCEPT !.since = @ \/ Settles(c, r),
                                     !.dated = @ /\ r.status # "suspended"])

\* customer.save(update_fields=...) of r, which leaves install in its column.
SaveColumns(s, c, r, install) ==
    AfterCustomer(s, c, r, [row[c] EXCEPT !.install = IF Settles(c, r) THEN "installed" ELSE install,
                                          !.since = @ \/ Settles(c, r),
                                          !.dated = @ /\ r.status # "suspended"])
-----------------------------------------------------------------------------
(* The steps of a request *)

Crewless == <<paid, attempts, crew, seats>>

SaveTicket(s) ==
    /\ Doing(s, "ticket")
    /\ LET j == session[s]
       IN  AfterSave(s, [ticket EXCEPT ![j.id] = j.job], j.job, Known(s, j.cust))
    /\ UNCHANGED Crewless

\* The attempt count, and then its log row.
SaveCalls(s) ==
    /\ Doing(s, "calls")
    /\ LET j == session[s]
       IN  IF ~Found(j.id) THEN Fail(s)
           ELSE /\ AfterSave(s, [ticket EXCEPT ![j.id] = [@ EXCEPT !.calls = j.job.calls]],
                             j.job, Known(s, j.cust))
                /\ UNCHANGED Crewless

SaveAttempt(s) ==
    /\ Doing(s, "attempt")
    /\ LET j == session[s]
       IN  IF ~Found(j.id) THEN Fail(s)
           ELSE /\ attempts' = [attempts EXCEPT ![j.id] = @ + 1]
                /\ Continue(s, <<>>, j.seen)
                /\ UNCHANGED <<row, paid, ticket, crew, seats>>

SavePlace(s) ==
    /\ Doing(s, "place")
    /\ LET j == session[s]
       IN  IF ~Found(j.id) THEN Fail(s)
           ELSE AfterSave(s, ticket, j.job, Known(s, j.cust)) /\ UNCHANGED Crewless

\* The rows that mirror the crew of an assignment: added where missing, retired
\* when the technician is not on the job, current when it is.
FirstSeat(t) == [tech |-> t, sequence |-> 1, current |-> TRUE, replacedBy |-> "nobody"]
Mirrored(step, rows, team) ==
    CASE step = "rows" -> rows \cup {FirstSeat(t) : t \in
            {v \in team : \A x \in rows : <<x.tech, x.sequence>> # <<v, 1>>}}
      [] step = "retire"  -> {[x EXCEPT !.current = @ /\ x.tech \in team] : x \in rows}
      [] step = "current" -> {[x EXCEPT !.current = @ \/ x.tech \in team] : x \in rows}

SaveSeats(s, step) ==
    /\ Doing(s, step)
    /\ LET j == session[s]
       IN  IF step = "rows" /\ ~Found(j.id) THEN Fail(s)
           ELSE /\ seats' = [seats EXCEPT ![j.id] = Mirrored(step, @, j.team)]
                /\ Continue(s, <<>>, j.seen)
                /\ UNCHANGED <<row, paid, ticket, attempts, crew>>

\* technicians.set, or clear.
SaveCrew(s) ==
    /\ Doing(s, "crew")
    /\ LET j == session[s]
       IN  IF ~Found(j.id) /\ j.team # {} THEN Fail(s)
           ELSE /\ crew' = [crew EXCEPT ![j.id] = j.team]
                /\ Continue(s, <<>>, j.seen)
                /\ UNCHANGED <<row, paid, ticket, attempts, seats>>

\* Hand-over, one transaction: retire whoever is current, seat the incoming in
\* some order, and save the status read when the request began.
Highest(S) == IF S = {} THEN 0 ELSE CHOOSE n \in S : \A m \in S : m <= n
Last(rows) == Highest({x.sequence : x \in rows})
Outgoing(rows, out) ==
    rows \cup {[FirstSeat(t) EXCEPT !.sequence = Last(rows) + 1] : t \in out}
Incoming(rows, order) ==
    {[FirstSeat(order[n]) EXCEPT !.sequence = Last(rows) + n] : n \in DOMAIN order}
Retired(rows, order) ==
    {IF x.current THEN [x EXCEPT !.current = FALSE, !.replacedBy = order[1]] ELSE x : x \in rows}
\* Mutant: everyone current is retired after the incoming were seated.
RelievedLast(rows, order) == Retired(rows \cup Incoming(rows, order), order)
Relieved(rows, order)     == Retired(rows, order) \cup Incoming(rows, order)
Orders(team) ==
    {f \in [1 .. Cardinality(team) -> team] : \A m, n \in DOMAIN f : f[m] = f[n] => m = n}

\* The locked rows are those current, minus any that stopped being so while the
\* transaction waited; if none is left, rows are made for the outgoing.
Waited(held, rows) == held # {} /\ \A x \in held \cap rows : ~x.current

SaveHandover(s) ==
    /\ Doing(s, "handover")
    /\ LET j == session[s]
           t == [j.job EXCEPT !.status = IF @ = "IN_PROGRESS" THEN "ASSIGNED" ELSE @]
           S == seats[j.id]
           before == (IF \E x \in S : x.current THEN {S} ELSE {})
                       \cup (IF (\A x \in S : ~x.current) \/ Waited(j.held, S)
                             THEN {Outgoing(S, j.out)} ELSE {})
       IN  IF ~Found(j.id) THEN Fail(s)
           ELSE /\ \E rows \in before, order \in Orders(j.team) :
                     seats' = [seats EXCEPT ![j.id] = Relieved(rows, order)]
                /\ crew' = [crew EXCEPT ![j.id] = j.team]
                /\ AfterSave(s, [ticket EXCEPT ![j.id] = [@ EXCEPT !.status = t.status]],
                             t, Known(s, j.cust))
                /\ UNCHANGED <<paid, attempts>>

\* The signal's objects.create: what it looked for was missing when it looked.
CreateTicket(s) ==
    /\ Doing(s, "create")
    /\ Insert(NewTicket(session[s].cust, "INSTALLATION"), ticket)
    /\ Continue(s, <<>>, session[s].seen)
    /\ UNCHANGED <<row, paid>>

MarkLine(s, step, install) ==
    /\ Doing(s, step)
    /\ LET c == session[s].cust
       IN  SaveColumns(s, c, [Known(s, c) EXCEPT !.install = install], install)
    /\ UNCHANGED Crewless

\* A save of some other column of the customer.
TouchCustomer(s) ==
    /\ Doing(s, "touch")
    /\ LET c == session[s].cust IN SaveColumns(s, c, Known(s, c), row[c].install)
    /\ UNCHANGED Crewless

ApproveCustomer(s) ==
    /\ Doing(s, "approve")
    /\ LET c == session[s].cust
       IN  SaveCustomer(s, c, [Activated(c, Known(s, c)) EXCEPT !.since = TRUE])
    /\ UNCHANGED Crewless

\* A job form of another tab saves the whole customer it read, too.
SaveAsRead(s) ==
    /\ Doing(s, "save")
    /\ LET c == session[s].cust IN SaveCustomer(s, c, Known(s, c))
    /\ UNCHANGED Crewless

RecordCustomer(s) ==
    /\ Doing(s, "record")
    /\ LET c == session[s].cust IN SaveCustomer(s, c, Activated(c, Known(s, c)))
    /\ UNCHANGED Crewless

\* The newest open ticket of the customer, of whatever type, is done too.
CompleteFirst(s) ==
    /\ Doing(s, "first")
    /\ LET c    == session[s].cust
           left == {i \in DOMAIN ticket : ticket[i].cust = c /\ ticket[i].status \in Unfinished}
           t    == [ticket[Highest(left)] EXCEPT !.status = "COMPLETED"]
       IN  IF left = {}
           THEN /\ Continue(s, <<>>, session[s].seen)
                /\ UNCHANGED <<row, ticket>>
           ELSE AfterSave(s, [ticket EXCEPT ![Highest(left)] = t], t, row[c])
    /\ UNCHANGED Crewless

\* mark_customer_installed: the row, the optional Payment ...
SaveInstalled(s) ==
    /\ Doing(s, "installed")
    /\ LET c == session[s].cust
       IN  SaveCustomer(s, c, [InstalledRow(Known(s, c)) EXCEPT
                 !.status = IF @ = "pending" THEN "active" ELSE @, !.dated = TRUE])
    /\ UNCHANGED Crewless

SavePayment(s) ==
    /\ Doing(s, "payment")
    /\ \E money \in BOOLEAN : paid' = IF money THEN paid \cup {session[s].cust} ELSE paid
    /\ Continue(s, <<>>, session[s].seen)
    /\ UNCHANGED <<row, ticket, attempts, crew, seats>>

\* ... and the queryset update of its open installations, which fires no signal.
CompleteAll(s) ==
    /\ Doing(s, "all")
    /\ ticket' = Completed(session[s].cust, ticket)
    /\ Continue(s, <<>>, session[s].seen)
    /\ UNCHANGED <<row, paid, attempts, crew, seats>>

Step(s) ==
    \/ SaveTicket(s) \/ SaveCalls(s) \/ SaveAttempt(s) \/ SavePlace(s) \/ SaveCrew(s)
    \/ SaveSeats(s, "rows") \/ SaveSeats(s, "retire") \/ SaveSeats(s, "current")
    \/ SaveHandover(s) \/ CreateTicket(s)
    \/ MarkLine(s, "install", "installed") \/ MarkLine(s, "close", "closed_not_installed")
    \/ MarkLine(s, "reopen", "pending_installation")
    \/ TouchCustomer(s) \/ ApproveCustomer(s) \/ SaveAsRead(s) \/ RecordCustomer(s)
    \/ CompleteFirst(s)
    \/ SaveInstalled(s) \/ SavePayment(s) \/ CompleteAll(s)
-----------------------------------------------------------------------------
(* The queue: create, assign, undispatch, edit, delete *)

CreateJob(c, kind) ==
    /\ "create" \in duty
    /\ row[c].status # "new"
    /\ Len(ticket) < MaxJobs
    /\ Room
    /\ Insert(NewTicket(c, kind), ticket)
    /\ UNCHANGED <<row, paid, session, duty>>

\* A field technician may not dispatch, whatever other roles they hold.
OpenAssign(s, u, i, team) ==
    /\ u \in Dispatchers \ Techs
    /\ Found(i)
    /\ CanTransition(ticket[i], "ASSIGNED")
    /\ team # {}
    /\ CrewRequest(s, "assign", <<"crew", "rows", "retire", "current", "ticket">>, i,
           Acted([ticket[i] EXCEPT !.status = "ASSIGNED"], u, "ASSIGNMENT"), team, {})

OpenUndispatch(s, i) ==
    /\ Found(i)
    /\ ticket[i].status \in {"ASSIGNED", "IN_PROGRESS"}
    /\ Request(s, "undispatch", <<"crew", "ticket">>, i, [ticket[i] EXCEPT !.status = "PENDING"])

\* out is what the page lists as outgoing, or else those current now.
CurrentTechs(i) == {x.tech : x \in Current(i)}
OpenReplace(s, i, named, incoming) ==
    LET out == IF named # {} THEN named
               ELSE IF Current(i) # {} THEN CurrentTechs(i) ELSE crew[i]
    IN  /\ Found(i)
        /\ incoming # {}
        /\ out # {}
        /\ out \cap incoming = {}
        /\ Last(seats[i]) + 1 + Cardinality(incoming) <= MaxSequence
        /\ CrewRequest(s, "replace", <<"handover">>, i, ticket[i], incoming, out)

OpenCorrectTimer(s, u, i) ==
    /\ Found(i)
    /\ Request(s, "correctTimer", <<"ticket">>, i, Acted(ticket[i], u, "TIMER_CORRECTED"))

\* The status buttons: only a cancelled ticket is refused.
OpenUpdateStatus(s, i, status) ==
    /\ Found(i)
    /\ ticket[i].status = "CANCELLED" => status = "CANCELLED"
    /\ Request(s, "updateStatus", <<"ticket">>, i, [ticket[i] EXCEPT !.status = status])

\* The edit form, with or without technicians and e-mail; its customer was
\* fetched with the ticket.
OpenEdit(s, i, status, kind, crewed, team, email) ==
    /\ Found(i)
    /\ Begin(s, "edit",
           [todo |-> <<"ticket">> \o (IF crewed THEN <<"crew">> ELSE <<>>)
                                  \o (IF email THEN <<"touch">> ELSE <<>>),
            id |-> i, cust |-> ticket[i].cust,
            job |-> [ticket[i] EXCEPT !.status = status, !.kind = kind],
            seen |-> row[ticket[i].cust],
            team |-> IF crewed THEN team ELSE {}, out |-> {}, held |-> {}])

OpenLocation(s, i) ==
    /\ Found(i)
    /\ Request(s, "location", <<"place", "touch">>, i, ticket[i])

\* The rows that hang on the ticket go with it.
DeleteJob(i) ==
    /\ "delete" \in duty
    /\ Found(i)
    /\ ticket' = [ticket EXCEPT ![i].status = "DELETED"]
    /\ attempts' = [attempts EXCEPT ![i] = 0]
    /\ crew' = [crew EXCEPT ![i] = {}]
    /\ seats' = [seats EXCEPT ![i] = {}]
    /\ UNCHANGED <<row, paid, session, duty>>
-----------------------------------------------------------------------------
(* In the field; any signed-in user may call these *)

OpenArrived(s, u, i) ==
    /\ Found(i)
    /\ CanTransition(ticket[i], "IN_PROGRESS")
    /\ Request(s, "arrived", <<"ticket">>, i,
           Acted([ticket[i] EXCEPT !.status = "IN_PROGRESS"], u, "FIELD_ARRIVED"))

\* With a new modem the customer's MAC is saved too.
OpenDone(s, u, i, modem) ==
    /\ Found(i)
    /\ CanTransition(ticket[i], "COMPLETED")
    /\ Request(s, "done", <<"ticket">> \o (IF modem THEN <<"touch">> ELSE <<>>), i,
           Acted([ticket[i] EXCEPT !.status = "COMPLETED"], u, "FIELD_DONE"))

OpenCallAttempt(s, i) ==
    /\ Found(i)
    /\ ticket[i].calls < MaxCalls /\ attempts[i] < MaxCalls
    /\ Request(s, "call", <<"calls", "attempt">>, i, [ticket[i] EXCEPT !.calls = @ + 1])

OpenReturn(s, u, i) ==
    /\ Found(i)
    /\ Request(s, "return", <<"ticket", "close">>, i,
           Acted([ticket[i] EXCEPT !.status = "CANCELLED"], u, "RETURNED_UNREACHABLE"))
-----------------------------------------------------------------------------
(* Quality review and final approval *)

\* A clean repair is closed here and its customer saved first.
OpenQaPass(s, u, i, flag) ==
    /\ u \in Dispatchers \cup Admins
    /\ Found(i)
    /\ LET t == Acted([ticket[i] EXCEPT !.called = TRUE, !.flagged = @ \/ flag], u, "QA_REVIEW")
       IN  IF NeedsAdmin(t)
           THEN Request(s, "qa", <<"ticket">>, i, [t EXCEPT !.status = "QA_PASSED"])
           ELSE Request(s, "qa", <<"install", "ticket">>, i, [t EXCEPT !.status = "APPROVED"])

OpenQaBounce(s, u, i, revisit) ==
    /\ u \in Dispatchers \cup Admins
    /\ Found(i)
    /\ ticket[i].bounces < MaxBounces
    /\ Request(s, "bounce", <<"ticket">>, i,
           Acted([Bounced(ticket[i]) EXCEPT !.status = IF revisit THEN "ASSIGNED" ELSE "IN_PROGRESS"],
                 u, "QA_BOUNCE"))

OpenApprove(s, u, i) ==
    /\ u \in Admins
    /\ Found(i)
    /\ Request(s, "approve", <<"ticket", "approve">>, i,
           Acted([ticket[i] EXCEPT !.status = "APPROVED", !.signed = TRUE], u, "ADMIN_APPROVED"))

OpenAdminBounce(s, u, i) ==
    /\ u \in Admins
    /\ Found(i)
    /\ ticket[i].bounces < MaxBounces
    /\ Request(s, "adminBounce", <<"ticket">>, i,
           Acted([Bounced(ticket[i]) EXCEPT !.status = "COMPLETED"], u, "ADMIN_BOUNCE"))

OpenCloseUnreachable(s, u, i) ==
    /\ u \in Dispatchers \cup Admins
    /\ Found(i)
    /\ Request(s, "close", <<"ticket", "close">>, i,
           Acted([ticket[i] EXCEPT !.status = "CANCELLED"], u, "CLOSED_UNREACHABLE"))

OpenReopen(s, c) ==
    /\ row[c].status # "new"
    /\ CustomerRequest(s, "reopen", <<"reopen">>, c, row[c])

\* The monitoring screens: a job form, and the Done button of an install record.
OpenJobForm(s, c, internet) ==
    /\ row[c].status # "new"
    /\ CustomerRequest(s, "jobForm",
           IF internet THEN <<"record", "first">> ELSE <<"save", "first">>, c, row[c])
OpenRecordDone(s, c) ==
    /\ row[c].status # "new"
    /\ CustomerRequest(s, "recordDone", <<"record">>, c, row[c])
-----------------------------------------------------------------------------
(* Billing, as far as tickets see it: each is one transaction *)

\* The customer signal inside that transaction.
Announce(c, r) ==
    /\ row' = [row EXCEPT ![c] = [r EXCEPT !.since = @ \/ Settles(c, r)]]
    /\ IF Wanted(c, r, ticket)
       THEN Insert(NewTicket(c, "INSTALLATION"), ticket)
       ELSE ticket' = Settled(c, r, ticket) /\ UNCHANGED <<attempts, crew, seats>>
    /\ UNCHANGED <<session, duty>>

\* The form may carry a due date and a scheduled date.
AddCustomer(c, dated, since) ==
    /\ "add" \in duty
    /\ row[c].status = "new"
    /\ Room
    /\ Announce(c, [status |-> "pending", install |-> "pending", dated |-> dated, since |-> since])
    /\ UNCHANGED paid

Pay(c) ==
    /\ "pay" \in duty
    /\ row[c].status # "new"
    /\ Room
    /\ Announce(c, [row[c] EXCEPT !.status = "active", !.dated = TRUE])
    /\ paid' = paid \cup {c}

Suspend(c) ==
    /\ "suspend" \in duty
    /\ row[c].status = "active"
    /\ Room
    /\ Announce(c, [row[c] EXCEPT !.status = "suspended", !.dated = FALSE])
    /\ UNCHANGED paid

OpenMarkInstalled(s, c) ==
    /\ row[c].status # "new"
    /\ CustomerRequest(s, "markInstalled", <<"installed", "payment", "all">>, c, row[c])
-----------------------------------------------------------------------------
AtRest == Busy = {} /\ UNCHANGED vars

Dispatching(s, i) ==
    \/ \E u \in Users, team \in SUBSET Techs : OpenAssign(s, u, i, team)
    \/ \E named, incoming \in SUBSET Techs : OpenReplace(s, i, named, incoming)
    \/ \E u \in Dispatchers : OpenCorrectTimer(s, u, i)
    \/ \E status \in Status : OpenUpdateStatus(s, i, status)
    \/ \E status \in Status, kind \in Kinds \cup {"INSTALLATION"},
          team \in SUBSET Techs, crewed, email \in BOOLEAN :
          OpenEdit(s, i, status, kind, crewed, team, email)
    \/ OpenUndispatch(s, i)
    \/ OpenLocation(s, i)

InTheField(s, i) ==
    \/ \E u \in Users : OpenArrived(s, u, i) \/ OpenReturn(s, u, i)
    \/ \E u \in Users, modem \in BOOLEAN : OpenDone(s, u, i, modem)
    \/ OpenCallAttempt(s, i)

Reviewing(s, i) ==
    \/ \E u \in Users, yes \in BOOLEAN : OpenQaPass(s, u, i, yes) \/ OpenQaBounce(s, u, i, yes)
    \/ \E u \in Users :
          OpenApprove(s, u, i) \/ OpenAdminBounce(s, u, i) \/ OpenCloseUnreachable(s, u, i)

ForCustomer(s, c) ==
    \/ OpenReopen(s, c)
    \/ \E internet \in BOOLEAN : OpenJobForm(s, c, internet)
    \/ OpenRecordDone(s, c)
    \/ OpenMarkInstalled(s, c)

Next ==
    \/ \E s \in Threads : Step(s)
    \/ \E s \in Threads, i \in DOMAIN ticket :
          Dispatching(s, i) \/ InTheField(s, i) \/ Reviewing(s, i)
    \/ \E s \in Threads, c \in Customers : ForCustomer(s, c)
    \/ \E c \in Customers, kind \in Kinds : CreateJob(c, kind)
    \/ \E i \in DOMAIN ticket : DeleteJob(i)
    \/ \E c \in Customers, dated, since \in BOOLEAN : AddCustomer(c, dated, since)
    \/ \E c \in Customers : Pay(c) \/ Suspend(c)
    \/ AtRest

Spec == Init /\ [][Next]_vars
-----------------------------------------------------------------------------
(* Properties *)

StepNames == {"ticket", "calls", "attempt", "place", "rows", "retire",
              "current", "crew", "handover", "create", "install",
              "close", "reopen", "touch", "approve", "save", "record", "first", "installed",
              "payment", "all"}

Job == [todo : Seq(StepNames), id : Nat, cust : Customers, job : Ticket,
        seen : Row \cup {Unread}, team : SUBSET Techs, out : SUBSET Techs,
        held : SUBSET Seat]

\* The tables are typed and of one length, and a request saves a ticket that
\* has existed for the customer it belongs to.
TypeOK ==
    /\ row \in [Customers -> Row]
    /\ paid \subseteq Customers
    /\ ticket \in Seq(Ticket)
    /\ attempts \in Seq(Nat) /\ Len(attempts) = Len(ticket)
    /\ crew \in Seq(SUBSET Techs) /\ Len(crew) = Len(ticket)
    /\ seats \in Seq(SUBSET Seat) /\ Len(seats) = Len(ticket)
    /\ session \in [Threads -> Job \cup {Idle}]
    /\ \A s \in Busy : session[s].id \in 0 .. Len(ticket)

\* Nobody surfs for free: an active line has a due date or a Payment behind it.
\* Six handlers that finish an installation work on old copies of the customer
\* and must not turn "the fibre is in" into "the line is active".
NoFreeRide ==
    \A c \in Customers : row[c].status = "active" => row[c].dated \/ c \in paid

\* An approved ticket was signed by an admin, or is a repair whose client QA
\* called and which never bounced twice, whatever copies the crew, QA and the
\* admins saved over each other.
SignedOff ==
    \A i \in DOMAIN ticket : ticket[i].status = "APPROVED" =>
        \/ ticket[i].signed
        \/ ticket[i].kind = "REPAIR" /\ ticket[i].called /\ ticket[i].bounces < 2

\* Two bounces raise the alert, and a user with two stages raises the flag, also
\* when one of the two requests that did it overwrote the other.
PatternsFlagged ==
    \A i \in DOMAIN ticket :
        /\ ticket[i].bounces >= 2 => ticket[i].alert
        /\ (\E u \in Users : ticket[i].hands[u] = "several") => ticket[i].same

Quiet == Busy = {}

\* When nothing is in flight a ticket with technicians has a current row in the
\* hand-over history: assignments, each four saves, and hand-overs of one ticket
\* that run at the same time never retire everybody.
SomeoneIsSeated ==
    Quiet => \A i \in DOMAIN ticket : crew[i] # {} => Current(i) # {}
=============================================================================
