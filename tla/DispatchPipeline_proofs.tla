----------------------- MODULE DispatchPipeline_proofs -----------------------
(* Theorems about DispatchPipeline for every value of its constants. *)
EXTENDS DispatchPipeline, SequenceTheorems, FiniteSetTheorems, TLAPS

-----------------------------------------------------------------------------
(* Numbers, sequences and the rows built from them *)

\* What the helper returns on a bounded, non-empty set of numbers.
LEMMA HighestIs ==
    ASSUME NEW S \in SUBSET Nat, S # {}, NEW n \in Nat, \A m \in S : m <= n
    PROVE  Highest(S) \in S /\ \A m \in S : m <= Highest(S)
  <1> DEFINE T == {n - m : m \in S}
             R == OpToRel(<, Nat)
  <1>1. T \subseteq Nat /\ T # {}
    <2>1. ASSUME NEW m \in S PROVE n - m \in Nat
      <3>1. m \in Nat /\ m <= n  OBVIOUS
      <3> QED  BY <3>1
    <2> QED  BY <2>1
  <1>2. PICK x \in T : \A y \in T : ~(<<y, x>> \in R)
    <2> HIDE DEF T, R
    <2>1. IsWellFoundedOn(R, Nat)  BY NatLessThanWellFounded DEF R
    <2> QED  BY <1>1, <2>1, WFMin
  <1>3. \A y \in T : ~(y < x)  BY <1>1, <1>2 DEF OpToRel
  <1>4. PICK h \in S : x = n - h  OBVIOUS
  <1>5. \A m \in S : m <= h
    <2> SUFFICES ASSUME NEW m \in S PROVE m <= h  OBVIOUS
    <2>1. n - m \in T  OBVIOUS
    <2>2. ~(n - m < n - h)  BY <1>3, <1>4, <2>1
    <2>3. m \in Nat /\ h \in Nat  OBVIOUS
    <2> HIDE DEF T, R
    <2> QED  BY <2>2, <2>3
  <1>6. Highest(S) = CHOOSE k \in S : \A m \in S : m <= k  BY DEF Highest
  <1> QED  BY <1>4, <1>5, <1>6

LEMMA SeqWrite ==
    ASSUME NEW S, NEW q \in Seq(S), NEW i \in Nat, NEW e, i \in 1 .. Len(q) => e \in S
    PROVE  /\ [q EXCEPT ![i] = e] \in Seq(S)
           /\ Len([q EXCEPT ![i] = e]) = Len(q)
           /\ \A k \in 1 .. Len(q) : [q EXCEPT ![i] = e][k] = IF k = i THEN e ELSE q[k]
  <1>1. CASE i \in 1 .. Len(q)  BY <1>1, ExceptSeq
  <1>2. CASE i \notin 1 .. Len(q)
    <2>1. [q EXCEPT ![i] = e] = q  BY <1>2, LenProperties
    <2> QED  BY <1>2, <2>1
  <1> QED  BY <1>1, <1>2

LEMMA Juxtaposed ==
    ASSUME NEW S, NEW a \in S, NEW b \in S, NEW c \in S
    PROVE  <<a>> \o <<b>> = <<a, b>> /\ <<a, b>> \o <<c>> = <<a, b, c>>
  <1>1. ASSUME NEW q \in Seq(S), NEW e \in S, NEW r \in Seq(S), Len(r) = Len(q) + 1,
               r[Len(r)] = e, \A i \in 1 .. Len(q) : r[i] = q[i]
        PROVE  q \o <<e>> = r
    <2>1. q \o <<e>> = Append(q, e) /\ Append(q, e) \in Seq(S)  BY AppendIsConcat, AppendProperties
    <2>2. Len(Append(q, e)) = Len(r) /\ \A i \in 1 .. Len(r) : Append(q, e)[i] = r[i]
      <3>1. Len(q) \in Nat  BY LenProperties
      <3> QED  BY <1>1, <3>1, AppendProperties
    <2>3. Append(q, e) = r  BY <2>1, <2>2, <1>1, SeqEqual
    <2> QED  BY <2>1, <2>3
  <1>2. <<a>> \o <<b>> = <<a, b>>
    <2>1. <<a>> \in Seq(S) /\ <<a, b>> \in Seq(S) /\ Len(<<a, b>>) = Len(<<a>>) + 1
          /\ <<a, b>>[Len(<<a, b>>)] = b /\ \A i \in 1 .. Len(<<a>>) : <<a, b>>[i] = <<a>>[i]
      OBVIOUS
    <2> QED  BY <2>1, <1>1
  <1>3. <<a, b>> \o <<c>> = <<a, b, c>>
    <2>1. <<a, b>> \in Seq(S) /\ <<a, b, c>> \in Seq(S) /\ Len(<<a, b, c>>) = Len(<<a, b>>) + 1
          /\ <<a, b, c>>[Len(<<a, b, c>>)] = c
          /\ \A i \in 1 .. Len(<<a, b>>) : <<a, b, c>>[i] = <<a, b>>[i]
      OBVIOUS
    <2> QED  BY <2>1, <1>1
  <1> QED  BY <1>2, <1>3

LEMMA SetStatusType ==
    ASSUME NEW t \in Ticket, NEW st \in Status \cup {"DELETED"}
    PROVE  [t EXCEPT !.status = st] \in Ticket
  BY DEF Ticket

LEMMA ActedType ==
    ASSUME NEW t \in Ticket, NEW u \in Users, NEW stage \in Stages
    PROVE  /\ Acted(t, u, stage) \in Ticket
           /\ Acted(t, u, stage).status = t.status /\ Acted(t, u, stage).cust = t.cust
           /\ Acted(t, u, stage).kind = t.kind /\ Acted(t, u, stage).bounces = t.bounces
           /\ Acted(t, u, stage).alert = t.alert /\ Acted(t, u, stage).signed = t.signed
           /\ Acted(t, u, stage).called = t.called /\ Acted(t, u, stage).flagged = t.flagged
           /\ (t.same \/ Acted(t, u, stage).hands[u] = "several") => Acted(t, u, stage).same
           /\ \A v \in Users \ {u} : Acted(t, u, stage).hands[v] = t.hands[v]
  <1> DEFINE now == IF t.hands[u] \in {"none", stage} THEN stage ELSE "several"
             hands == [t.hands EXCEPT ![u] = now]
             same == t.same \/ now = "several"
  <1>1. t.hands \in [Users -> Stages \cup {"none", "several"}]  BY DEF Ticket
  <1>2. now \in Stages \cup {"none", "several"}  OBVIOUS
  <1>3. hands \in [Users -> Stages \cup {"none", "several"}] /\ hands[u] = now
        /\ \A v \in Users \ {u} : hands[v] = t.hands[v]
    <2> HIDE DEF now
    <2> QED  BY <1>1, <1>2
  <1>4. same \in BOOLEAN  BY DEF Ticket
  <1>5. Acted(t, u, stage) = [t EXCEPT !.hands = hands, !.same = same]  BY DEF Acted
  <1>6. now = "several" => same  OBVIOUS
  <1>7. t.same => same  OBVIOUS
  <1> HIDE DEF now, hands, same
  <1> QED  BY ZenonT(30), <1>3, <1>4, <1>5, <1>6, <1>7 DEF Ticket

LEMMA BouncedType ==
    ASSUME NEW t \in Ticket
    PROVE  /\ Bounced(t) \in Ticket
           /\ Bounced(t).cust = t.cust /\ Bounced(t).hands = t.hands /\ Bounced(t).same = t.same
           /\ Bounced(t).bounces = t.bounces + 1
           /\ Bounced(t).signed = t.signed /\ Bounced(t).kind = t.kind
           /\ Bounced(t).alert = (t.alert \/ t.bounces >= 1)
  <1> DEFINE n == t.bounces + 1
             a == t.alert \/ t.bounces >= 1
  <1>1. n \in Nat  BY DEF Ticket
  <1>2. a \in BOOLEAN  OBVIOUS
  <1>3. Bounced(t) = [t EXCEPT !.bounces = n, !.alert = a]  BY DEF Bounced
  <1> HIDE DEF n, a
  <1>4. /\ Bounced(t) \in Ticket /\ Bounced(t).bounces = n /\ Bounced(t).alert = a
        /\ Bounced(t).cust = t.cust /\ Bounced(t).hands = t.hands /\ Bounced(t).same = t.same
        /\ Bounced(t).signed = t.signed /\ Bounced(t).kind = t.kind
    BY <1>1, <1>2, <1>3 DEF Ticket
  <1> QED  BY <1>4 DEF n, a

LEMMA NewTicketType ==
    ASSUME NEW c \in Customers, NEW kind \in Types
    PROVE  NewTicket(c, kind) \in Ticket
  BY DEF NewTicket, Ticket, Status, Unfinished

\* The signals only move open tickets to COMPLETED.
LEMMA CompletedType ==
    ASSUME NEW c \in Customers, NEW table \in Seq(Ticket)
    PROVE  /\ Completed(c, table) \in Seq(Ticket)
           /\ Len(Completed(c, table)) = Len(table)
           /\ \A i \in 1 .. Len(table) :
                 \/ Completed(c, table)[i] = table[i]
                 \/ Completed(c, table)[i] = [table[i] EXCEPT !.status = "COMPLETED"]
  <1> DEFINE e(i) == IF i \in OpenInstalls(c, table)
                     THEN [table[i] EXCEPT !.status = "COMPLETED"] ELSE table[i]
             f == [i \in 1 .. Len(table) |-> e(i)]
  <1>1. DOMAIN table = 1 .. Len(table) /\ Len(table) \in Nat  BY LenProperties
  <1>2. Completed(c, table) = f  BY <1>1 DEF Completed
  <1>3. ASSUME NEW i \in 1 .. Len(table) PROVE e(i) \in Ticket
    <2>1. table[i] \in Ticket  BY ElementOfSeq
    <2>2. [table[i] EXCEPT !.status = "COMPLETED"] \in Ticket  BY <2>1, SetStatusType DEF Status
    <2> QED  BY <2>1, <2>2
  <1>4. f \in [1 .. Len(table) -> Ticket]  BY <1>3
  <1>5. f \in Seq(Ticket) /\ Len(f) = Len(table)
    <2> HIDE DEF f
    <2> QED  BY <1>1, <1>4
  <1> QED  BY <1>2, <1>5

LEMMA SettledType ==
    ASSUME NEW c \in Customers, NEW r, NEW table \in Seq(Ticket)
    PROVE  /\ Settled(c, r, table) \in Seq(Ticket)
           /\ Len(Settled(c, r, table)) = Len(table)
           /\ \A i \in 1 .. Len(table) :
                 \/ Settled(c, r, table)[i] = table[i]
                 \/ Settled(c, r, table)[i] = [table[i] EXCEPT !.status = "COMPLETED"]
  BY CompletedType DEF Settled

LEMMA RowWrite ==
    ASSUME NEW r \in Row, NEW install \in Installs, NEW since \in BOOLEAN, NEW dated \in BOOLEAN,
           NEW status \in {"new", "pending", "active", "suspended"}
    PROVE  /\ [r EXCEPT !.install = install] \in Row
           /\ [r EXCEPT !.since = since] \in Row
           /\ [r EXCEPT !.install = install, !.since = since] \in Row
           /\ [r EXCEPT !.install = install, !.status = status] \in Row
           /\ [r EXCEPT !.status = status, !.dated = dated] \in Row
           /\ [r EXCEPT !.since = since, !.dated = dated] \in Row
           /\ [r EXCEPT !.install = install, !.since = since, !.dated = dated] \in Row
  BY DEF Row

\* What the ticket signal and the two closing handlers make of a customer.
LEMMA InstalledRowIs ==
    ASSUME NEW r \in Row
    PROVE  /\ InstalledRow(r) \in Row
           /\ InstalledRow(r).status = r.status /\ InstalledRow(r).dated = r.dated
  BY DEF InstalledRow, Row, Installs

LEMMA ActivatedIs ==
    ASSUME NEW r \in Row, NEW c \in Customers
    PROVE  /\ Activated(c, r) \in Row
           /\ Activated(c, r).dated = r.dated
           /\ Activated(c, r).status = IF r.dated \/ c \in paid THEN "active" ELSE r.status
  <1> DEFINE st == IF r.dated \/ c \in paid THEN "active" ELSE r.status
  <1>1. st \in {"new", "pending", "active", "suspended"}  BY DEF Row
  <1>2. Activated(c, r) = [r EXCEPT !.install = "installed", !.status = st]  BY DEF Activated
  <1> HIDE DEF st
  <1>3. /\ Activated(c, r) \in Row /\ Activated(c, r).dated = r.dated
        /\ Activated(c, r).status = st
    BY <1>1, <1>2 DEF Row, Installs
  <1> QED  BY <1>3 DEF st
-----------------------------------------------------------------------------
(* What holds of a request under way, and of the rows that mirror the crews *)

\* The steps that may activate a line, and the handlers that have them.
ActivatingSteps == {"approve", "record", "installed"}
Activating == {"approve", "recordDone", "jobForm", "markInstalled"}
CrewSteps == {"crew", "rows", "retire", "current", "handover"}

\* A request never loses the plan of its handler.
Planned(j) ==
    /\ \/ j.todo \in Seq(StepNames \ {"handover"})
       \/ j.todo = <<"handover">> /\ j.team # {} /\ "replace" \in duty
    /\ duty \cap Activating = {} => j.todo \in Seq(StepNames \ ActivatingSteps)

Sound(j) ==
    \/ j = Idle
    \/ /\ j \in Job /\ j.todo # <<>>
       /\ j.id \in 0 .. Len(ticket)
       /\ j.job.cust = j.cust
       /\ Planned(j)

SessionsSound == \A s \in Threads : Sound(session[s])

\* Hand-overs number their rows upwards, from a highest number that exists.
SeatsBounded ==
    \A i \in 1 .. Len(seats) : \E n \in Nat : \A x \in seats[i] : x.sequence <= n

Inv == TypeOK /\ SessionsSound /\ SeatsBounded

LEMMA BusyIs ==
    ASSUME Inv, NEW s \in Threads
    PROVE  /\ s \in Busy => /\ session[s] \in Job /\ session[s].todo # <<>>
                            /\ session[s].id \in 0 .. Len(ticket)
                            /\ session[s].job.cust = session[s].cust
                            /\ Planned(session[s])
           /\ s \notin Busy => session[s] = Idle
  <1>1. Sound(session[s])  BY DEF Inv, SessionsSound
  <1>2. Idle.todo = <<>>  BY DEF Idle
  <1> QED  BY <1>1, <1>2 DEF Sound, Busy

LEMMA TablesAre ==
    ASSUME Inv
    PROVE  /\ DOMAIN ticket = 1 .. Len(ticket) /\ Len(ticket) \in Nat
           /\ DOMAIN attempts = 1 .. Len(ticket) /\ DOMAIN crew = 1 .. Len(ticket)
           /\ DOMAIN seats = 1 .. Len(ticket)
           /\ \A i \in 1 .. Len(ticket) : /\ ticket[i] \in Ticket /\ attempts[i] \in Nat
                                          /\ crew[i] \in SUBSET Techs /\ seats[i] \in SUBSET Seat
  BY LenProperties, ElementOfSeq DEF Inv, TypeOK

LEMMA TailTodo ==
    ASSUME NEW S, NEW q \in Seq(S), q # <<>>, NEW e \in Seq(S)
    PROVE  e \o Tail(q) \in Seq(S)
  BY HeadTailProperties, ConcatProperties

\* The step of a request that goes on: only its own session changes, and there
\* only what is left to do and the customer it has read.
Steady(s) ==
    /\ session' \in [Threads -> Job \cup {Idle}]
    /\ \A q \in Threads \ {s} : session'[q] = session[q]
    /\ \/ session'[s] = Idle
       \/ /\ session'[s] \in Job /\ session'[s].todo # <<>>
          /\ session'[s].todo \in {Tail(session[s].todo), <<"create">> \o Tail(session[s].todo)}
          /\ session'[s].id = session[s].id /\ session'[s].cust = session[s].cust
          /\ session'[s].job = session[s].job /\ session'[s].team = session[s].team
          /\ session'[s].out = session[s].out /\ session'[s].held = session[s].held
    /\ duty' = duty

LEMMA ContinueIs ==
    ASSUME Inv, NEW s \in Threads, s \in Busy, NEW extra \in {<<>>, <<"create">>},
           NEW seen \in Row \cup {Unread}, Continue(s, extra, seen)
    PROVE  Steady(s) /\ (session'[s] = Idle \/ session'[s].seen = seen)
           /\ (session'[s] = Idle \/ session'[s].todo = extra \o Tail(session[s].todo))
           /\ (session'[s] = Idle => extra \o Tail(session[s].todo) = <<>>)
  <1> DEFINE j == session[s]
             rest == extra \o Tail(j.todo)
             k == [j EXCEPT !.todo = rest, !.seen = seen]
             e == IF rest = <<>> THEN Idle ELSE k
  <1>1. j \in Job /\ j.todo # <<>>  BY BusyIs
  <1>2. session \in [Threads -> Job \cup {Idle}]  BY DEF Inv, TypeOK
  <1>3. session' = [session EXCEPT ![s] = e] /\ duty' = duty  BY DEF Continue
  <1>4. extra \in Seq(StepNames) /\ j.todo \in Seq(StepNames)
    <2>1. <<>> \in Seq(StepNames) /\ <<"create">> \in Seq(StepNames)  BY DEF StepNames
    <2>2. j.todo \in Seq(StepNames)  BY <1>1 DEF Job
    <2> QED  BY <2>1, <2>2
  <1>5. rest \in Seq(StepNames)  BY <1>1, <1>4, TailTodo
  <1>6. rest \in {Tail(j.todo), <<"create">> \o Tail(j.todo)}
    <2>1. Tail(j.todo) \in Seq(StepNames)  BY <1>1, <1>4, HeadTailProperties
    <2>2. <<>> \o Tail(j.todo) = Tail(j.todo)  BY <2>1, ConcatEmptySeq
    <2> QED  BY <2>2
  <1> HIDE DEF rest
  <1>7. /\ k \in Job /\ k.todo = rest /\ k.seen = seen /\ k.id = j.id /\ k.cust = j.cust
        /\ k.job = j.job /\ k.team = j.team /\ k.out = j.out /\ k.held = j.held
    BY <1>1, <1>5 DEF Job
  <1>8. Idle.todo = <<>>  BY DEF Idle
  <1> HIDE DEF j, k
  <1>9. e \in Job \cup {Idle}  BY <1>7
  <1>10. session' \in [Threads -> Job \cup {Idle}] /\ session'[s] = e
         /\ \A q \in Threads \ {s} : session'[q] = session[q]
    <2> HIDE DEF e
    <2> QED  BY <1>2, <1>3, <1>9
  <1>11. CASE rest = <<>>
    <2>1. session'[s] = Idle  BY <1>10, <1>11
    <2> QED  BY <2>1, <1>3, <1>10, <1>11 DEF Steady, rest, j
  <1>12. CASE rest # <<>>
    <2>1. session'[s] = k  BY <1>10, <1>12
    <2>2. session'[s].todo # <<>>  BY <2>1, <1>7, <1>12
    <2>3. Steady(s)  BY <2>1, <2>2, <1>3, <1>6, <1>7, <1>10 DEF Steady, j
    <2>4. k # Idle  BY <1>7, <1>8, <1>12
    <2> QED  BY <2>1, <2>3, <2>4, <1>7 DEF rest, j
  <1> QED  BY <1>11, <1>12

LEMMA FailIs ==
    ASSUME Inv, NEW s \in Threads, Fail(s)
    PROVE  Steady(s) /\ session'[s] = Idle /\ UNCHANGED Tables
  BY DEF Inv, TypeOK, Fail, Steady

\* What is sound stays so while the tickets only grow in number.
LEMMA SteadySound ==
    ASSUME Inv, NEW s \in Threads, s \in Busy, Steady(s), Len(ticket') \in Nat, Len(ticket') >= Len(ticket)
    PROVE  SessionsSound' /\ \A q \in Busy' : session'[q].id \in 0 .. Len(ticket')
  <1>0. Len(ticket) \in Nat  BY TablesAre
  <1>1. ASSUME NEW q \in Threads, q # s PROVE Sound(session[q])'
    <2>1. session'[q] = session[q]  BY <1>1 DEF Steady
    <2>2. Sound(session[q])  BY DEF Inv, SessionsSound
    <2>3. Planned(session[q]) => Planned(session[q])'  BY <2>1 DEF Planned, Steady
    <2> QED  BY <1>0, <2>1, <2>2, <2>3 DEF Sound
  <1>2. Sound(session[s])'
    <2> DEFINE j == session[s]
               k == session'[s]
    <2>1. CASE k = Idle  BY <2>1 DEF Sound
    <2>2. CASE k # Idle
      <3>1. /\ k \in Job /\ k.todo # <<>> /\ k.id = j.id /\ k.cust = j.cust /\ k.job = j.job
            /\ k.todo \in {Tail(j.todo), <<"create">> \o Tail(j.todo)} /\ k.team = j.team /\ duty' = duty
        BY <2>2 DEF Steady
      <3>2. /\ j \in Job /\ j.todo # <<>> /\ j.id \in 0 .. Len(ticket) /\ j.job.cust = j.cust /\ Planned(j)
        BY BusyIs
      <3>3. ASSUME NEW S \in SUBSET StepNames, "create" \in S, j.todo \in Seq(S) PROVE k.todo \in Seq(S)
        <4>1. <<"create">> \in Seq(S) /\ <<>> \in Seq(S)  BY <3>3
        <4>2. Tail(j.todo) \in Seq(S)  BY <3>2, <3>3, HeadTailProperties
        <4>3. <<"create">> \o Tail(j.todo) \in Seq(S)  BY <3>2, <3>3, <4>1, TailTodo
        <4> QED  BY <3>1, <4>2, <4>3
      <3> HIDE DEF j, k
      <3>4. k.todo \in Seq(StepNames \ {"handover"})
        <4>1. CASE j.todo \in Seq(StepNames \ {"handover"})
          <5>1. "create" \in StepNames \ {"handover"}  BY DEF StepNames
          <5> QED  BY <4>1, <5>1, <3>3
        <4>2. CASE j.todo = <<"handover">>
          <5>1. Tail(j.todo) = <<>>  BY <4>2
          <5>2. k.todo \in {<<>>, <<"create">>}
            <6>1. <<"create">> \o <<>> = <<"create">>  OBVIOUS
            <6> QED  BY <5>1, <6>1, <3>1
          <5>3. "create" \in StepNames \ {"handover"}  BY DEF StepNames
          <5>4. <<"create">> \in Seq(StepNames \ {"handover"}) /\ <<>> \in Seq(StepNames \ {"handover"})
            BY <5>3
          <5> QED  BY <5>2, <5>4
        <4> QED  BY <4>1, <4>2, <3>2 DEF Planned
      <3>5. duty \cap Activating = {} => k.todo \in Seq(StepNames \ ActivatingSteps)
        <4>1. "create" \in StepNames \ ActivatingSteps  BY DEF StepNames, ActivatingSteps
        <4> QED  BY <3>2, <3>3, <4>1 DEF Planned
      <3>6. Planned(session[s])'  BY <3>1, <3>4, <3>5 DEF Planned, k
      <3> QED  BY <1>0, <3>1, <3>2, <3>6 DEF Sound, k
    <2> QED  BY <2>1, <2>2
  <1>3. SessionsSound'  BY <1>1, <1>2 DEF SessionsSound
  <1>4. ASSUME NEW q \in Busy' PROVE session'[q].id \in 0 .. Len(ticket')
    <2>1. q \in Threads /\ session'[q].todo # <<>>  BY DEF Busy
    <2>2. session'[q] # Idle  BY <2>1 DEF Idle
    <2> QED  BY <1>3, <2>1, <2>2 DEF SessionsSound, Sound
  <1> QED  BY <1>3, <1>4
-----------------------------------------------------------------------------
(* Requests that begin *)

\* A repair's record that says who signed it, and one that says who is suspect.
Flagged(t) ==
    /\ t.bounces >= 2 => t.alert
    /\ (\E u \in Users : t.hands[u] = "several") => t.same
Signed(t) ==
    t.status = "APPROVED" => t.signed \/ (t.kind = "REPAIR" /\ t.called /\ t.bounces < 2)

LEMMA FlaggedIs == PatternsFlagged <=> \A i \in DOMAIN ticket : Flagged(ticket[i])
  BY DEF PatternsFlagged, Flagged
LEMMA SignedIs == SignedOff <=> \A i \in DOMAIN ticket : Signed(ticket[i])
  BY DEF SignedOff, Signed

\* Only the handler's first look at ticket i and its customer is in the copy.
Plans(h, todo, team) ==
    /\ todo \in Seq(StepNames) /\ todo # <<>>
    /\ IF h = "replace" THEN todo = <<"handover">> /\ team # {}
                        ELSE todo \in Seq(StepNames \ {"handover"})
    /\ h \notin Activating => todo \in Seq(StepNames \ ActivatingSteps)
    /\ h = "assign" => todo = <<"crew", "rows", "retire", "current", "ticket">> /\ team # {}
    /\ h = "undispatch" => todo = <<"crew", "ticket">> /\ team = {}
    /\ h \notin {"assign", "undispatch", "replace", "edit"} => todo \in Seq(StepNames \ CrewSteps)

Copies(h, t) ==
    /\ PatternsFlagged => Flagged(t)
    /\ SignedOff /\ h \notin {"updateStatus", "edit"} => Signed(t)
    /\ t.status # "DELETED"

\* The request of thread s that begins with handler h.
Begun(s, h) ==
    LET j == session'[s]
    IN  /\ h \in duty /\ session[s] = Idle
        /\ session' = [session EXCEPT ![s] = j]
        /\ UNCHANGED <<Tables, duty>>
        /\ j \in Job /\ j.id \in 0 .. Len(ticket) /\ j.job.cust = j.cust
        /\ j.seen \in {Unread, row[j.cust]}
        /\ Plans(h, j.todo, j.team)
        /\ Copies(h, j.job)

LEMMA BeginIs ==
    ASSUME Inv, NEW s \in Threads, NEW h, NEW j \in Job, Begin(s, h, j)
    PROVE  h \in duty /\ session[s] = Idle /\ session'[s] = j
           /\ session' = [session EXCEPT ![s] = session'[s]] /\ UNCHANGED <<Tables, duty>>
  <1>1. s \notin Busy /\ session' = [session EXCEPT ![s] = j] /\ h \in duty /\ UNCHANGED <<Tables, duty>>
    BY DEF Begin
  <1>2. session \in [Threads -> Job \cup {Idle}]  BY DEF Inv, TypeOK
  <1>3. session'[s] = j  BY <1>1, <1>2
  <1> QED  BY <1>1, <1>3, BusyIs

LEMMA CrewRequestIs ==
    ASSUME Inv, NEW s \in Threads, NEW h, NEW todo, NEW i \in DOMAIN ticket, NEW t \in Ticket,
           NEW team \in SUBSET Techs, NEW out \in SUBSET Techs,
           Plans(h, todo, team), Copies(h, t), CrewRequest(s, h, todo, i, t, team, out)
    PROVE  Begun(s, h)
  <1> DEFINE held == IF out = {} THEN {} ELSE Current(i)
             j == [todo |-> todo, id |-> i, cust |-> t.cust, job |-> t, seen |-> Unread,
                   team |-> team, out |-> out, held |-> held]
  <1>1. held \in SUBSET Seat  BY TablesAre DEF Current
  <1>2. Begin(s, h, j)  BY DEF CrewRequest
  <1>3. todo \in Seq(StepNames) /\ t.cust \in Customers /\ i \in Nat  BY TablesAre DEF Plans, Ticket
  <1> HIDE DEF held
  <1>4. j \in Job  BY <1>1, <1>3 DEF Job
  <1>5. /\ j.id = i /\ j.job = t /\ j.cust = t.cust /\ j.seen = Unread /\ j.todo = todo /\ j.team = team
    OBVIOUS
  <1> HIDE DEF j
  <1>6. /\ h \in duty /\ session[s] = Idle /\ session'[s] = j
        /\ session' = [session EXCEPT ![s] = session'[s]] /\ UNCHANGED <<Tables, duty>>
    BY <1>2, <1>4, BeginIs
  <1>7. i \in 0 .. Len(ticket)  BY TablesAre
  <1> QED  BY <1>4, <1>5, <1>6, <1>7 DEF Begun

LEMMA RequestIs ==
    ASSUME Inv, NEW s \in Threads, NEW h, NEW todo, NEW i \in DOMAIN ticket, NEW t \in Ticket,
           Plans(h, todo, {}), Copies(h, t), Request(s, h, todo, i, t)
    PROVE  Begun(s, h)
  BY CrewRequestIs DEF Request

LEMMA CustomerRequestIs ==
    ASSUME Inv, NEW s \in Threads, NEW h, NEW todo, NEW c \in Customers,
           Plans(h, todo, {}), CustomerRequest(s, h, todo, c, row[c])
    PROVE  Begun(s, h)
  <1> DEFINE t == NewTicket(c, "INSTALLATION")
             j == [todo |-> todo, id |-> 0, cust |-> c, job |-> t,
                   seen |-> row[c], team |-> {}, out |-> {}, held |-> {}]
  <1>1. t \in Ticket  BY NewTicketType DEF Types
  <1>2. t.cust = c /\ Flagged(t) /\ Signed(t) /\ t.status # "DELETED"
    BY DEF NewTicket, Flagged, Signed
  <1>3. Begin(s, h, j)  BY DEF CustomerRequest
  <1>4. row[c] \in Row  BY DEF Inv, TypeOK
  <1> HIDE DEF t
  <1>5. j \in Job  BY <1>1, <1>4 DEF Job, Plans
  <1>6. j.id = 0 /\ j.job = t /\ j.cust = c /\ j.seen = row[c] /\ j.todo = todo /\ j.team = {}
    OBVIOUS
  <1> HIDE DEF j
  <1>7. /\ h \in duty /\ session[s] = Idle /\ session'[s] = j
        /\ session' = [session EXCEPT ![s] = session'[s]] /\ UNCHANGED <<Tables, duty>>
    BY <1>3, <1>5, BeginIs
  <1>8. 0 \in 0 .. Len(ticket)  BY TablesAre
  <1>9. Copies(h, t)  BY <1>2 DEF Copies
  <1> QED  BY <1>2, <1>5, <1>6, <1>7, <1>8, <1>9 DEF Begun

\* A copy with another status, and one on which a stage was recorded.
LEMMA StatusCopy ==
    ASSUME NEW t \in Ticket, NEW st
    PROVE  /\ Flagged(t) => Flagged([t EXCEPT !.status = st])
           /\ st # "APPROVED" => Signed([t EXCEPT !.status = st])
           /\ [t EXCEPT !.status = st].status = st /\ [t EXCEPT !.status = st].cust = t.cust
  BY DEF Flagged, Signed, Ticket

LEMMA ActedCopy ==
    ASSUME NEW t \in Ticket, NEW u \in Users, NEW stage \in Stages
    PROVE  /\ Acted(t, u, stage) \in Ticket
           /\ Flagged(t) => Flagged(Acted(t, u, stage))
           /\ Signed(t) => Signed(Acted(t, u, stage))
           /\ Acted(t, u, stage).status = t.status
  <1> DEFINE a == Acted(t, u, stage)
  <1>1. /\ a \in Ticket /\ a.status = t.status /\ a.kind = t.kind /\ a.bounces = t.bounces
        /\ a.alert = t.alert /\ a.signed = t.signed /\ a.called = t.called
        /\ (t.same \/ a.hands[u] = "several") => a.same
        /\ \A v \in Users \ {u} : a.hands[v] = t.hands[v]
    BY ActedType
  <1> HIDE DEF a
  <1>2. Flagged(t) => Flagged(a)
    <2> SUFFICES ASSUME Flagged(t) PROVE Flagged(a)  OBVIOUS
    <2>1. a.bounces >= 2 => a.alert  BY <1>1 DEF Flagged
    <2>2. ASSUME NEW v \in Users, a.hands[v] = "several" PROVE a.same
      BY <1>1, <2>2 DEF Flagged
    <2> QED  BY <2>1, <2>2 DEF Flagged
  <1>3. Signed(t) => Signed(a)  BY <1>1 DEF Signed
  <1> QED  BY <1>1, <1>2, <1>3 DEF a

\* Handlers whose saves touch neither crew nor the activation of a line.
PlainSteps == StepNames \ (CrewSteps \cup ActivatingSteps)
LEMMA PlainPlan ==
    ASSUME NEW h, h \notin {"assign", "undispatch", "replace"}, NEW team,
           NEW todo \in Seq(PlainSteps), todo # <<>>
    PROVE  Plans(h, todo, team)
  <1>1. ASSUME NEW S, PlainSteps \subseteq S PROVE todo \in Seq(S)  BY <1>1
  <1>2. PlainSteps \subseteq StepNames /\ PlainSteps \subseteq StepNames \ {"handover"}
        /\ PlainSteps \subseteq StepNames \ ActivatingSteps
        /\ PlainSteps \subseteq StepNames \ CrewSteps
    BY DEF PlainSteps, CrewSteps
  <1> QED  BY <1>1, <1>2 DEF Plans

LEMMA ActivatingPlan ==
    ASSUME NEW h \in Activating, NEW team,
           NEW todo \in Seq(StepNames \ CrewSteps), todo # <<>>
    PROVE  Plans(h, todo, team)
  <1>1. ASSUME NEW S, StepNames \ CrewSteps \subseteq S PROVE todo \in Seq(S)  BY <1>1
  <1>2. StepNames \ CrewSteps \subseteq StepNames
        /\ StepNames \ CrewSteps \subseteq StepNames \ {"handover"}
    BY DEF CrewSteps
  <1>3. h \notin {"assign", "undispatch", "replace"}  BY DEF Activating
  <1> QED  BY <1>1, <1>2, <1>3 DEF Plans

\* The todo lists of the handlers on one ticket, and of those on one customer.
LEMMA TicketPlans ==
    /\ \A h \in {"correctTimer", "updateStatus", "arrived", "done", "qa", "bounce", "adminBounce", "edit"} :
          \A team : Plans(h, <<"ticket">>, team)
    /\ \A team : Plans("edit", <<"ticket", "touch">>, team)
    /\ Plans("location", <<"place", "touch">>, {}) /\ Plans("done", <<"ticket", "touch">>, {})
    /\ Plans("call", <<"calls", "attempt">>, {}) /\ Plans("return", <<"ticket", "close">>, {})
    /\ Plans("close", <<"ticket", "close">>, {}) /\ Plans("qa", <<"install", "ticket">>, {})
    /\ Plans("reopen", <<"reopen">>, {})
  <1>1. /\ <<"ticket">> \in Seq(PlainSteps) /\ <<"ticket", "touch">> \in Seq(PlainSteps)
        /\ <<"place", "touch">> \in Seq(PlainSteps) /\ <<"calls", "attempt">> \in Seq(PlainSteps)
        /\ <<"ticket", "close">> \in Seq(PlainSteps) /\ <<"install", "ticket">> \in Seq(PlainSteps)
        /\ <<"reopen">> \in Seq(PlainSteps)
    <2>1. {"ticket", "touch", "place", "calls", "attempt", "close", "install", "reopen"} \subseteq PlainSteps
      BY DEF PlainSteps, StepNames, CrewSteps, ActivatingSteps
    <2> QED  BY <2>1
  <1> QED  BY <1>1, PlainPlan

LEMMA CustomerPlans ==
    /\ Plans("approve", <<"ticket", "approve">>, {})
    /\ Plans("jobForm", <<"record", "first">>, {}) /\ Plans("jobForm", <<"save", "first">>, {})
    /\ Plans("recordDone", <<"record">>, {})
    /\ Plans("markInstalled", <<"installed", "payment", "all">>, {})
  <1>1. {"ticket", "approve", "record", "first", "save", "installed", "payment", "all"}
           \subseteq StepNames \ CrewSteps
    BY DEF StepNames, CrewSteps
  <1> DEFINE S == StepNames \ CrewSteps
  <1>2. /\ <<"ticket", "approve">> \in Seq(S) /\ <<"record", "first">> \in Seq(S)
        /\ <<"save", "first">> \in Seq(S) /\ <<"record">> \in Seq(S)
        /\ <<"installed", "payment", "all">> \in Seq(S)
    BY <1>1
  <1> HIDE DEF S
  <1>3. {"approve", "jobForm", "recordDone", "markInstalled"} \subseteq Activating  BY DEF Activating
  <1> QED  BY <1>2, <1>3, ActivatingPlan DEF S

LEMMA CrewPlans ==
    /\ \A team : team # {} => Plans("assign", <<"crew", "rows", "retire", "current", "ticket">>, team)
    /\ Plans("undispatch", <<"crew", "ticket">>, {})
    /\ \A team : team # {} => Plans("replace", <<"handover">>, team)
    /\ \A team : Plans("edit", <<"ticket", "crew">>, team) /\ Plans("edit", <<"ticket", "crew", "touch">>, team)
  <1> DEFINE S == StepNames \ ({"handover"} \cup ActivatingSteps)
  <1>1. {"ticket", "crew", "touch", "rows", "retire", "current"} \subseteq S
    BY DEF StepNames, ActivatingSteps
  <1>2. /\ <<"crew", "rows", "retire", "current", "ticket">> \in Seq(S) /\ <<"crew", "ticket">> \in Seq(S)
        /\ <<"ticket", "crew">> \in Seq(S) /\ <<"ticket", "crew", "touch">> \in Seq(S)
    BY <1>1
  <1>3. \A q \in Seq(S) : /\ q \in Seq(StepNames) /\ q \in Seq(StepNames \ {"handover"})
                          /\ q \in Seq(StepNames \ ActivatingSteps)
    OBVIOUS
  <1>4. <<"handover">> \in Seq(StepNames) /\ <<"handover">> \in Seq(StepNames \ ActivatingSteps)
    BY DEF StepNames, ActivatingSteps
  <1> HIDE DEF S
  <1>5. \A h \in {"assign", "undispatch", "replace", "edit"} : h \notin Activating  BY DEF Activating
  <1> QED  BY <1>2, <1>3, <1>4, <1>5 DEF Plans

\* The handler's copy of ticket i: another status, and perhaps a stage on record.
LEMMA FoundCopy ==
    ASSUME Inv, NEW i \in DOMAIN ticket, NEW st \in Status, NEW u \in Users, NEW stage \in Stages
    PROVE  LET t == [ticket[i] EXCEPT !.status = st]
           IN  /\ ticket[i] \in Ticket /\ t \in Ticket
               /\ Acted(t, u, stage) \in Ticket /\ Acted(ticket[i], u, stage) \in Ticket
               /\ PatternsFlagged => /\ Flagged(ticket[i]) /\ Flagged(t) /\ Flagged(Acted(t, u, stage))
                                     /\ Flagged(Acted(ticket[i], u, stage))
               /\ SignedOff => Signed(ticket[i]) /\ Signed(Acted(ticket[i], u, stage))
               /\ st # "APPROVED" => Signed(t) /\ Signed(Acted(t, u, stage))
               /\ t.status # "DELETED" /\ Acted(t, u, stage).status # "DELETED"
               /\ Acted(ticket[i], u, stage).status = ticket[i].status
  <1> DEFINE t == [ticket[i] EXCEPT !.status = st]
  <1>1. ticket[i] \in Ticket  BY TablesAre
  <1>2. t \in Ticket  BY <1>1, SetStatusType
  <1>3. /\ Flagged(ticket[i]) => Flagged(t)
        /\ st # "APPROVED" => Signed(t)
        /\ t.status # "DELETED"
    BY <1>1, StatusCopy DEF Status, Unfinished
  <1>4. PatternsFlagged => Flagged(ticket[i])  BY FlaggedIs
  <1>5. SignedOff => Signed(ticket[i])  BY SignedIs
  <1> HIDE DEF t
  <1>6. /\ Acted(t, u, stage) \in Ticket
        /\ Flagged(t) => Flagged(Acted(t, u, stage))
        /\ Signed(t) => Signed(Acted(t, u, stage))
        /\ Acted(t, u, stage).status = t.status
    BY <1>2, ActedCopy
  <1>7. /\ Acted(ticket[i], u, stage) \in Ticket
        /\ Flagged(ticket[i]) => Flagged(Acted(ticket[i], u, stage))
        /\ Signed(ticket[i]) => Signed(Acted(ticket[i], u, stage))
        /\ Acted(ticket[i], u, stage).status = ticket[i].status
    BY <1>1, ActedCopy
  <1> QED  BY <1>1, <1>2, <1>3, <1>4, <1>5, <1>6, <1>7 DEF t

LEMMA DispatchingIs ==
    ASSUME Inv, NEW s \in Threads, NEW i \in DOMAIN ticket, Dispatching(s, i)
    PROVE  \E h \in duty : Begun(s, h)
  <1>0. /\ {"ASSIGNED", "PENDING"} \subseteq Status /\ {"ASSIGNMENT", "TIMER_CORRECTED"} \subseteq Stages
        /\ Dispatchers \subseteq Users
    BY DEF Status, Unfinished, Stages, Users
  <1>1. ASSUME NEW u \in Users, NEW team \in SUBSET Techs, OpenAssign(s, u, i, team)
        PROVE  Begun(s, "assign")
    <2> DEFINE t == Acted([ticket[i] EXCEPT !.status = "ASSIGNED"], u, "ASSIGNMENT")
    <2>1. t \in Ticket /\ Copies("assign", t)  BY <1>0, FoundCopy DEF Copies
    <2>2. Plans("assign", <<"crew", "rows", "retire", "current", "ticket">>, team)
      BY <1>1, CrewPlans DEF OpenAssign
    <2>3. CrewRequest(s, "assign", <<"crew", "rows", "retire", "current", "ticket">>, i, t, team, {})
      BY <1>1 DEF OpenAssign
    <2> HIDE DEF t
    <2> QED  BY <2>1, <2>2, <2>3, CrewRequestIs
  <1>2. ASSUME NEW named \in SUBSET Techs, NEW incoming \in SUBSET Techs, OpenReplace(s, i, named, incoming)
        PROVE  Begun(s, "replace")
    <2>1. PICK out \in SUBSET Techs : CrewRequest(s, "replace", <<"handover">>, i, ticket[i], incoming, out)
      <3> DEFINE out == IF named # {} THEN named ELSE IF Current(i) # {} THEN CurrentTechs(i) ELSE crew[i]
      <3>1. CrewRequest(s, "replace", <<"handover">>, i, ticket[i], incoming, out)
        BY <1>2 DEF OpenReplace
      <3>2. crew[i] \in SUBSET Techs /\ seats[i] \in SUBSET Seat  BY TablesAre
      <3>3. CurrentTechs(i) \in SUBSET Techs  BY <3>2 DEF CurrentTechs, Current, Seat
      <3>4. out \in SUBSET Techs  BY <3>2, <3>3
      <3> HIDE DEF out
      <3> QED  BY <3>1, <3>4
    <2>2. ticket[i] \in Ticket /\ Copies("replace", ticket[i])
      BY <1>2, FlaggedIs, SignedIs, TablesAre DEF Copies, OpenReplace, Found
    <2>3. Plans("replace", <<"handover">>, incoming)  BY <1>2, CrewPlans DEF OpenReplace
    <2> QED  BY <2>1, <2>2, <2>3, CrewRequestIs
  <1>3. ASSUME NEW u \in Dispatchers, OpenCorrectTimer(s, u, i) PROVE Begun(s, "correctTimer")
    <2> DEFINE t == Acted(ticket[i], u, "TIMER_CORRECTED")
    <2>1. t \in Ticket /\ Copies("correctTimer", t)
      <3>1. "PENDING" \in Status /\ ticket[i].status # "DELETED"  BY <1>0, <1>3 DEF OpenCorrectTimer, Found
      <3> QED  BY <1>0, <3>1, FoundCopy DEF Copies
    <2>2. Request(s, "correctTimer", <<"ticket">>, i, t)  BY <1>3 DEF OpenCorrectTimer
    <2> HIDE DEF t
    <2> QED  BY <2>1, <2>2, TicketPlans, RequestIs
  <1>4. ASSUME NEW st \in Status, OpenUpdateStatus(s, i, st) PROVE Begun(s, "updateStatus")
    <2> DEFINE t == [ticket[i] EXCEPT !.status = st]
    <2>1. ticket[i] \in Ticket  BY TablesAre
    <2>2. t \in Ticket /\ (PatternsFlagged => Flagged(t)) /\ t.status # "DELETED"
      BY <2>1, SetStatusType, StatusCopy, FlaggedIs DEF Status, Unfinished
    <2>3. Copies("updateStatus", t)  BY <2>2 DEF Copies
    <2>4. Request(s, "updateStatus", <<"ticket">>, i, t)  BY <1>4 DEF OpenUpdateStatus
    <2> HIDE DEF t
    <2> QED  BY <2>2, <2>3, <2>4, TicketPlans, RequestIs
  <1>5. ASSUME NEW st \in Status, NEW kind \in Kinds \cup {"INSTALLATION"}, NEW team \in SUBSET Techs,
               NEW crewed \in BOOLEAN, NEW email \in BOOLEAN, OpenEdit(s, i, st, kind, crewed, team, email)
        PROVE  Begun(s, "edit")
    <2> DEFINE t == [ticket[i] EXCEPT !.status = st, !.kind = kind]
               c == ticket[i].cust
               todo == <<"ticket">> \o (IF crewed THEN <<"crew">> ELSE <<>>)
                                    \o (IF email THEN <<"touch">> ELSE <<>>)
               staff == IF crewed THEN team ELSE {}
               j == [todo |-> todo, id |-> i, cust |-> c, job |-> t, seen |-> row[c],
                     team |-> staff, out |-> {}, held |-> {}]
    <2>1. ticket[i] \in Ticket /\ kind \in Types  BY TablesAre, DispatchAssumption DEF Types
    <2>2. /\ t \in Ticket /\ t.cust = c /\ c \in Customers /\ (PatternsFlagged => Flagged(t))
          /\ t.status # "DELETED"
      <3>1. (PatternsFlagged => Flagged(ticket[i])) /\ st # "DELETED"
        BY FlaggedIs DEF Status, Unfinished
      <3> QED  BY <2>1, <3>1 DEF Ticket, Flagged
    <2>3. row[c] \in Row  BY <2>2 DEF Inv, TypeOK
    <2>4. todo \in {<<"ticket">>, <<"ticket", "crew">>, <<"ticket", "touch">>, <<"ticket", "crew", "touch">>}
      <3>1. {"ticket", "crew", "touch"} \subseteq StepNames  BY DEF StepNames
      <3>2. <<"ticket">> \o <<"crew">> = <<"ticket", "crew">> /\ <<"ticket">> \o <<"touch">> = <<"ticket", "touch">>
            /\ <<"ticket", "crew">> \o <<"touch">> = <<"ticket", "crew", "touch">>
        BY <3>1, Juxtaposed
      <3>3. <<"ticket">> \in Seq(StepNames) /\ <<"ticket", "crew">> \in Seq(StepNames)  BY <3>1
      <3>4. <<"ticket">> \o <<>> = <<"ticket">> /\ <<"ticket", "crew">> \o <<>> = <<"ticket", "crew">>
        BY <3>3, ConcatEmptySeq
      <3> QED  BY <3>2, <3>4, Zenon
    <2>5. Plans("edit", todo, staff)
      <3> HIDE DEF todo, staff
      <3> QED  BY <2>4, TicketPlans, CrewPlans
    <2>6. Begin(s, "edit", j)  BY <1>5 DEF OpenEdit
    <2>7. staff \in SUBSET Techs /\ i \in Nat /\ i \in 0 .. Len(ticket)  BY TablesAre
    <2>8. Copies("edit", t)  BY <2>2 DEF Copies
    <2>9. todo \in Seq(StepNames)  BY <2>5 DEF Plans
    <2> HIDE DEF todo, staff, c, t
    <2>10. j \in Job  BY <2>2, <2>3, <2>7, <2>9 DEF Job
    <2>11. /\ j.id = i /\ j.job = t /\ j.cust = c /\ j.seen = row[c] /\ j.todo = todo /\ j.team = staff
      OBVIOUS
    <2> HIDE DEF j
    <2>12. /\ "edit" \in duty /\ session[s] = Idle /\ session'[s] = j
           /\ session' = [session EXCEPT ![s] = session'[s]] /\ UNCHANGED <<Tables, duty>>
      BY <2>6, <2>10, BeginIs
    <2> QED  BY <2>2, <2>5, <2>7, <2>8, <2>10, <2>11, <2>12 DEF Begun
  <1>6. ASSUME OpenUndispatch(s, i) PROVE Begun(s, "undispatch")
    <2> DEFINE t == [ticket[i] EXCEPT !.status = "PENDING"]
    <2>1. ticket[i] \in Ticket  BY TablesAre
    <2>2. t \in Ticket /\ (PatternsFlagged => Flagged(t)) /\ Signed(t) /\ t.status # "DELETED"
      BY <1>0, <2>1, SetStatusType, StatusCopy, FlaggedIs
    <2>3. Copies("undispatch", t)  BY <2>2 DEF Copies
    <2>4. Request(s, "undispatch", <<"crew", "ticket">>, i, t)  BY <1>6 DEF OpenUndispatch
    <2> HIDE DEF t
    <2> QED  BY <2>2, <2>3, <2>4, CrewPlans, RequestIs
  <1>7. ASSUME OpenLocation(s, i) PROVE Begun(s, "location")
    <2>1. ticket[i] \in Ticket /\ Copies("location", ticket[i])
      BY <1>7, FlaggedIs, SignedIs, TablesAre DEF Copies, OpenLocation, Found
    <2> QED  BY <1>7, <2>1, TicketPlans, RequestIs DEF OpenLocation
  <1> QED  BY <1>1, <1>2, <1>3, <1>4, <1>5, <1>6, <1>7 DEF Dispatching, Begun

LEMMA InTheFieldIs ==
    ASSUME Inv, NEW s \in Threads, NEW i \in DOMAIN ticket, InTheField(s, i)
    PROVE  \E h \in duty : Begun(s, h)
  <1>0. /\ {"IN_PROGRESS", "COMPLETED", "CANCELLED"} \subseteq Status /\ "APPROVED" \notin {"IN_PROGRESS", "COMPLETED", "CANCELLED"}
        /\ {"FIELD_ARRIVED", "FIELD_DONE", "RETURNED_UNREACHABLE"} \subseteq Stages
    BY DEF Status, Unfinished, Stages
  <1>1. ASSUME NEW u \in Users, OpenArrived(s, u, i) PROVE Begun(s, "arrived")
    <2> DEFINE t == Acted([ticket[i] EXCEPT !.status = "IN_PROGRESS"], u, "FIELD_ARRIVED")
    <2>1. t \in Ticket /\ Copies("arrived", t)  BY <1>0, FoundCopy DEF Copies
    <2>2. Request(s, "arrived", <<"ticket">>, i, t)  BY <1>1 DEF OpenArrived
    <2> HIDE DEF t
    <2> QED  BY <2>1, <2>2, TicketPlans, RequestIs
  <1>2. ASSUME NEW u \in Users, NEW modem \in BOOLEAN, OpenDone(s, u, i, modem) PROVE Begun(s, "done")
    <2> DEFINE t == Acted([ticket[i] EXCEPT !.status = "COMPLETED"], u, "FIELD_DONE")
               todo == <<"ticket">> \o (IF modem THEN <<"touch">> ELSE <<>>)
    <2>1. t \in Ticket /\ Copies("done", t)  BY <1>0, FoundCopy DEF Copies
    <2>2. Request(s, "done", todo, i, t)  BY <1>2 DEF OpenDone
    <2>3. todo \in {<<"ticket">>, <<"ticket", "touch">>}
      <3>1. {"ticket", "touch"} \subseteq StepNames  BY DEF StepNames
      <3>2. <<"ticket">> \o <<"touch">> = <<"ticket", "touch">>  BY <3>1, Juxtaposed
      <3>3. <<"ticket">> \in Seq(StepNames)  BY <3>1
      <3>4. <<"ticket">> \o <<>> = <<"ticket">>  BY <3>3, ConcatEmptySeq
      <3> QED  BY <3>2, <3>4, Zenon
    <2> HIDE DEF t, todo
    <2>4. Plans("done", todo, {})  BY <2>3, TicketPlans
    <2> QED  BY <2>1, <2>2, <2>4, RequestIs
  <1>3. ASSUME OpenCallAttempt(s, i) PROVE Begun(s, "call")
    <2> DEFINE x == ticket[i]
               n == x.calls + 1
               t == [x EXCEPT !.calls = n]
    <2>1. x \in Ticket /\ (PatternsFlagged => Flagged(x)) /\ (SignedOff => Signed(x)) /\ x.status # "DELETED"
      BY <1>3, TablesAre, FlaggedIs, SignedIs DEF OpenCallAttempt, Found
    <2>2. n \in Nat  BY <2>1 DEF Ticket
    <2>3. Request(s, "call", <<"calls", "attempt">>, i, t)  BY <1>3 DEF OpenCallAttempt
    <2> HIDE DEF x, n
    <2>4. t \in Ticket /\ (Flagged(x) => Flagged(t)) /\ (Signed(x) => Signed(t)) /\ t.status = x.status
      BY <2>1, <2>2 DEF Ticket, Flagged, Signed
    <2>5. Copies("call", t)  BY <2>1, <2>4 DEF Copies
    <2> HIDE DEF t
    <2> QED  BY <2>3, <2>4, <2>5, TicketPlans, RequestIs
  <1>4. ASSUME NEW u \in Users, OpenReturn(s, u, i) PROVE Begun(s, "return")
    <2> DEFINE t == Acted([ticket[i] EXCEPT !.status = "CANCELLED"], u, "RETURNED_UNREACHABLE")
    <2>1. t \in Ticket /\ Copies("return", t)  BY <1>0, FoundCopy DEF Copies
    <2>2. Request(s, "return", <<"ticket", "close">>, i, t)  BY <1>4 DEF OpenReturn
    <2> HIDE DEF t
    <2> QED  BY <2>1, <2>2, TicketPlans, RequestIs
  <1> QED  BY <1>1, <1>2, <1>3, <1>4 DEF InTheField, Begun

LEMMA ReviewingIs ==
    ASSUME Inv, NEW s \in Threads, NEW i \in DOMAIN ticket, Reviewing(s, i)
    PROVE  \E h \in duty : Begun(s, h)
  <1>0. /\ Status = {"PENDING", "ASSIGNED", "IN_PROGRESS", "COMPLETED", "QA_PASSED", "APPROVED", "CANCELLED"}
        /\ {"QA_REVIEW", "QA_BOUNCE", "ADMIN_APPROVED", "ADMIN_BOUNCE", "CLOSED_UNREACHABLE"} \subseteq Stages
    BY DEF Status, Unfinished, Stages
  <1> DEFINE x == ticket[i]
  <1>x. x \in Ticket /\ (PatternsFlagged => Flagged(x)) /\ (SignedOff => Signed(x))
    BY TablesAre, FlaggedIs, SignedIs
  <1>1. ASSUME NEW u \in Users, NEW flag \in BOOLEAN, OpenQaPass(s, u, i, flag) PROVE Begun(s, "qa")
    <2> DEFINE f == x.flagged \/ flag
               y == [x EXCEPT !.called = TRUE, !.flagged = f]
               t == Acted(y, u, "QA_REVIEW")
               p == [t EXCEPT !.status = "QA_PASSED"]
               a == [t EXCEPT !.status = "APPROVED"]
    <2>0. [x EXCEPT !.called = TRUE, !.flagged = @ \/ flag] = y  OBVIOUS
    <2>1. IF NeedsAdmin(t) THEN Request(s, "qa", <<"ticket">>, i, p)
                           ELSE Request(s, "qa", <<"install", "ticket">>, i, a)
      BY <1>1, <2>0 DEF OpenQaPass
    <2>2. f \in BOOLEAN  BY <1>x DEF Ticket
    <2> HIDE DEF x, f
    <2>3. y \in Ticket /\ (Flagged(x) => Flagged(y)) /\ y.called  BY <1>x, <2>2 DEF Ticket, Flagged
    <2> HIDE DEF y
    <2>4. t \in Ticket /\ (Flagged(y) => Flagged(t)) /\ t.called  BY <1>0, <2>3, ActedCopy, ActedType
    <2> HIDE DEF t
    <2>5. p \in Ticket /\ a \in Ticket  BY <1>0, <2>4, SetStatusType
    <2>6. (Flagged(t) => Flagged(p) /\ Flagged(a)) /\ Signed(p) /\ p.status # "DELETED" /\ a.status # "DELETED"
      BY <2>4, StatusCopy
    <2>7. Copies("qa", p)  BY <1>x, <2>3, <2>4, <2>6 DEF Copies
    <2>8. ~NeedsAdmin(t) => Signed(a)
      <3>1. a.kind = t.kind /\ a.called = t.called /\ a.bounces = t.bounces /\ t.bounces \in Nat
        BY <2>4 DEF Ticket
      <3> HIDE DEF a
      <3> QED  BY <3>1, <2>4 DEF Signed, NeedsAdmin
    <2>9. ~NeedsAdmin(t) => Copies("qa", a)  BY <1>x, <2>3, <2>4, <2>6, <2>8 DEF Copies
    <2> HIDE DEF p, a
    <2> QED  BY <2>1, <2>5, <2>7, <2>9, TicketPlans, RequestIs
  <1>2. ASSUME NEW u \in Users, NEW st \in Status, st # "APPROVED", NEW h \in {"bounce", "adminBounce"},
               NEW stage \in Stages,
               Request(s, h, <<"ticket">>, i, Acted([Bounced(x) EXCEPT !.status = st], u, stage))
        PROVE  Begun(s, h)
    <2> DEFINE b == Bounced(x)
               y == [b EXCEPT !.status = st]
               t == Acted(y, u, stage)
    <2>1. b \in Ticket /\ (Flagged(x) => Flagged(b))
      <3>1. /\ b \in Ticket /\ b.bounces = x.bounces + 1 /\ b.alert = (x.alert \/ x.bounces >= 1)
            /\ b.hands = x.hands /\ b.same = x.same
        BY <1>x, BouncedType
      <3>2. x.bounces \in Nat  BY <1>x DEF Ticket
      <3> HIDE DEF b, x
      <3>a. b.bounces >= 2 => x.bounces >= 1
        <4>1. b.bounces = x.bounces + 1  BY <3>1
        <4> QED  BY <3>2, <4>1
      <3>b. x.bounces >= 1 => b.alert  BY <3>1, Zenon
      <3>3. b.bounces >= 2 => b.alert  BY <3>a, <3>b
      <3> QED  BY <3>1, <3>3 DEF Flagged
    <2> HIDE DEF b
    <2>2. y \in Ticket /\ (Flagged(b) => Flagged(y)) /\ Signed(y) /\ y.status # "DELETED"
      BY <1>0, <1>2, <2>1, SetStatusType, StatusCopy
    <2> HIDE DEF y
    <2>3. t \in Ticket /\ (Flagged(y) => Flagged(t)) /\ Signed(t) /\ t.status # "DELETED"
      BY <2>2, ActedCopy
    <2>4. Request(s, h, <<"ticket">>, i, t)  BY <1>2 DEF t, y, b
    <2> HIDE DEF t
    <2>5. Copies(h, t)  BY <1>x, <2>1, <2>2, <2>3 DEF Copies
    <2> QED  BY <2>3, <2>4, <2>5, TicketPlans, RequestIs
  <1>3. ASSUME NEW u \in Users, NEW yes \in BOOLEAN, OpenQaBounce(s, u, i, yes) PROVE Begun(s, "bounce")
    <2> DEFINE st == IF yes THEN "ASSIGNED" ELSE "IN_PROGRESS"
    <2>1. st \in Status /\ st # "APPROVED"  BY <1>0
    <2>2. Request(s, "bounce", <<"ticket">>, i, Acted([Bounced(x) EXCEPT !.status = st], u, "QA_BOUNCE"))
      BY <1>3 DEF OpenQaBounce
    <2> HIDE DEF st
    <2> QED  BY <1>0, <1>2, <2>1, <2>2
  <1>4. ASSUME NEW u \in Users, OpenAdminBounce(s, u, i) PROVE Begun(s, "adminBounce")
    <2>1. Request(s, "adminBounce", <<"ticket">>, i,
                  Acted([Bounced(x) EXCEPT !.status = "COMPLETED"], u, "ADMIN_BOUNCE"))
      BY <1>4 DEF OpenAdminBounce
    <2> QED  BY <1>0, <1>2, <2>1
  <1>5. ASSUME NEW u \in Users, OpenApprove(s, u, i) PROVE Begun(s, "approve")
    <2> DEFINE y == [x EXCEPT !.status = "APPROVED", !.signed = TRUE]
               t == Acted(y, u, "ADMIN_APPROVED")
    <2>1. Request(s, "approve", <<"ticket", "approve">>, i, t)  BY <1>5 DEF OpenApprove
    <2> HIDE DEF x
    <2>2. y \in Ticket /\ (Flagged(x) => Flagged(y)) /\ Signed(y) /\ y.status # "DELETED"
      BY <1>0, <1>x DEF Ticket, Flagged, Signed
    <2> HIDE DEF y
    <2>3. t \in Ticket /\ (Flagged(y) => Flagged(t)) /\ Signed(t) /\ t.status # "DELETED"
      BY <1>0, <2>2, ActedCopy
    <2> HIDE DEF t
    <2>4. Copies("approve", t)  BY <1>x, <2>2, <2>3 DEF Copies
    <2> QED  BY <2>1, <2>3, <2>4, CustomerPlans, RequestIs
  <1>6. ASSUME NEW u \in Users, OpenCloseUnreachable(s, u, i) PROVE Begun(s, "close")
    <2> DEFINE t == Acted([ticket[i] EXCEPT !.status = "CANCELLED"], u, "CLOSED_UNREACHABLE")
    <2>1. t \in Ticket /\ Copies("close", t)  BY ZenonT(30), <1>0, FoundCopy DEF Copies
    <2>2. Request(s, "close", <<"ticket", "close">>, i, t)  BY <1>6 DEF OpenCloseUnreachable
    <2> HIDE DEF t
    <2> QED  BY <2>1, <2>2, TicketPlans, RequestIs
  <1> QED  BY <1>1, <1>3, <1>4, <1>5, <1>6 DEF Reviewing, Begun

LEMMA ForCustomerIs ==
    ASSUME Inv, NEW s \in Threads, NEW c \in Customers, ForCustomer(s, c)
    PROVE  \E h \in duty : Begun(s, h)
  <1>1. CASE OpenReopen(s, c)
    BY <1>1, TicketPlans, CustomerRequestIs DEF OpenReopen, Begun
  <1>2. ASSUME NEW internet \in BOOLEAN, OpenJobForm(s, c, internet) PROVE Begun(s, "jobForm")
    <2> DEFINE todo == IF internet THEN <<"record", "first">> ELSE <<"save", "first">>
    <2>1. CustomerRequest(s, "jobForm", todo, c, row[c])  BY <1>2 DEF OpenJobForm
    <2>2. Plans("jobForm", todo, {})  BY CustomerPlans
    <2> HIDE DEF todo
    <2> QED  BY <2>1, <2>2, CustomerRequestIs
  <1>3. CASE OpenRecordDone(s, c)
    BY <1>3, CustomerPlans, CustomerRequestIs DEF OpenRecordDone, Begun
  <1>4. CASE OpenMarkInstalled(s, c)
    BY <1>4, CustomerPlans, CustomerRequestIs DEF OpenMarkInstalled, Begun
  <1> QED  BY <1>1, <1>2, <1>3, <1>4 DEF ForCustomer, Begun
-----------------------------------------------------------------------------
(* The steps of a request under way *)

\* Two versions of a ticket that differ in status and calls only.
SameRecord(u, t) ==
    /\ u.cust = t.cust /\ u.kind = t.kind /\ u.bounces = t.bounces /\ u.alert = t.alert
    /\ u.flagged = t.flagged /\ u.called = t.called /\ u.signed = t.signed
    /\ u.same = t.same /\ u.hands = t.hands

\* u is t, or t that a signal completed.
Reported(u, t) == SameRecord(u, t) /\ u.status \in {t.status, "COMPLETED"}

\* Where a row of the new table comes from.
Moved(s, i, u) ==
    \/ i \in 1 .. Len(ticket) /\ Reported(u, ticket[i])
    \/ i = session[s].id /\ Reported(u, session[s].job)
    \/ /\ i \in 1 .. Len(ticket) /\ SameRecord(u, ticket[i]) /\ "replace" \in duty
       /\ u.status \in {session[s].job.status, "ASSIGNED", "COMPLETED"}
    \/ i = Len(ticket) + 1 /\ u = NewTicket(session[s].cust, "INSTALLATION")

TicketsMove(s) ==
    /\ ticket' \in Seq(Ticket)
    /\ Len(ticket') \in {Len(ticket), Len(ticket) + 1}
    /\ \A i \in 1 .. Len(ticket') : Moved(s, i, ticket'[i])

CrewTyped ==
    /\ paid \subseteq Customers
    /\ attempts \in Seq(Nat) /\ Len(attempts) = Len(ticket)
    /\ crew \in Seq(SUBSET Techs) /\ Len(crew) = Len(ticket)
    /\ seats \in Seq(SUBSET Seat) /\ Len(seats) = Len(ticket)
    /\ SeatsBounded

Stepped(s) == row' \in [Customers -> Row] /\ TicketsMove(s) /\ CrewTyped' /\ Steady(s)

LEMMA CompletedIs ==
    ASSUME NEW t \in Ticket
    PROVE  Reported([t EXCEPT !.status = "COMPLETED"], t)
  BY DEF Reported, SameRecord, Ticket

LEMMA ReportedAgain ==
    ASSUME NEW t, NEW u, NEW v, Reported(u, t), Reported(v, u)
    PROVE  Reported(v, t)
  BY DEF Reported, SameRecord

LEMMA KnownIs ==
    ASSUME Inv, NEW s \in Threads, s \in Busy
    PROVE  /\ session[s].cust \in Customers /\ session[s].job \in Ticket
           /\ session[s].job.cust = session[s].cust
           /\ session[s].seen \in Row \cup {Unread} /\ session[s].id \in 0 .. Len(ticket)
           /\ Known(s, session[s].cust) \in Row
           /\ Known(s, session[s].cust) \in {session[s].seen, row[session[s].cust]}
           /\ session[s].team \in SUBSET Techs /\ session[s].out \in SUBSET Techs
  <1>1. /\ session[s] \in Job /\ session[s].job.cust = session[s].cust
        /\ session[s].id \in 0 .. Len(ticket)
    BY BusyIs
  <1>2. row \in [Customers -> Row]  BY DEF Inv, TypeOK
  <1>3. /\ session[s].cust \in Customers /\ session[s].job \in Ticket
        /\ session[s].seen \in Row \cup {Unread}
        /\ session[s].team \in SUBSET Techs /\ session[s].out \in SUBSET Techs
    BY <1>1 DEF Job
  <1> QED  BY <1>1, <1>2, <1>3 DEF Known

\* A save with the ticket signal behind it.
LEMMA AfterSaveIs ==
    ASSUME Inv, NEW s \in Threads, s \in Busy, NEW table \in Seq(Ticket), Len(table) = Len(ticket),
           NEW t \in Ticket, NEW r \in Row, AfterSave(s, table, t, r)
    PROVE  /\ row' \in [Customers -> Row]
           /\ \A c \in Customers : row'[c].status = row[c].status /\ row'[c].dated = row[c].dated
           /\ ticket' \in Seq(Ticket) /\ Len(ticket') = Len(ticket)
           /\ \A i \in 1 .. Len(ticket) : Reported(ticket'[i], table[i])
           /\ Steady(s)
           /\ session'[s] = Idle \/ session'[s].seen \in {session[s].seen, InstalledRow(r)}
  <1> DEFINE c == t.cust
             rin == InstalledRow(r)
             new == [row[c] EXCEPT !.install = "installed", !.since = TRUE]
  <1>1. c \in Customers /\ rin \in Row  BY InstalledRowIs DEF Ticket
  <1>2. row \in [Customers -> Row] /\ row[c] \in Row  BY <1>1 DEF Inv, TypeOK
  <1>3. \A i \in 1 .. Len(table) : table[i] \in Ticket /\ Reported(table[i], table[i])
    BY ElementOfSeq DEF Reported, SameRecord
  <1>4. CASE Finishes(t, r)
    <2>1. ticket' = Settled(c, rin, table)  BY <1>4 DEF AfterSave
    <2>2. row' = [row EXCEPT ![c] = [@ EXCEPT !.install = "installed", !.since = TRUE]]
      BY <1>4 DEF AfterSave
    <2>3. Continue(s, IF Wanted(c, rin, table) THEN <<"create">> ELSE <<>>, rin)
      BY <1>4 DEF AfterSave
    <2>4. row' = [row EXCEPT ![c] = new]  BY <2>2
    <2> HIDE DEF rin
    <2>5. /\ ticket' \in Seq(Ticket) /\ Len(ticket') = Len(table)
          /\ \A i \in 1 .. Len(table) : \/ ticket'[i] = table[i]
                                        \/ ticket'[i] = [table[i] EXCEPT !.status = "COMPLETED"]
      BY <1>1, <2>1, SettledType
    <2>6. \A i \in 1 .. Len(table) : Reported(ticket'[i], table[i])  BY <1>3, <2>5, CompletedIs
    <2>7. new \in Row /\ new.status = row[c].status /\ new.dated = row[c].dated
      BY <1>2 DEF Row, Installs
    <2> HIDE DEF new, c
    <2>8. row' \in [Customers -> Row]
          /\ \A d \in Customers : row'[d].status = row[d].status /\ row'[d].dated = row[d].dated
      BY <1>1, <1>2, <2>4, <2>7
    <2>9. Steady(s) /\ (session'[s] = Idle \/ session'[s].seen = rin)  BY <1>1, <2>3, ContinueIs
    <2> QED  BY <2>5, <2>6, <2>8, <2>9 DEF rin
  <1>5. CASE ~Finishes(t, r)
    <2>1. ticket' = table /\ row' = row /\ Continue(s, <<>>, session[s].seen)
      BY <1>5 DEF AfterSave
    <2>2. session[s].seen \in Row \cup {Unread}  BY KnownIs
    <2>3. Steady(s) /\ (session'[s] = Idle \/ session'[s].seen = session[s].seen)
      BY <2>1, <2>2, ContinueIs
    <2> QED  BY <1>2, <1>3, <2>1, <2>3
  <1> QED  BY <1>4, <1>5

\* A save of the customer with the customer signal behind it.
LEMMA AfterCustomerIs ==
    ASSUME Inv, NEW s \in Threads, s \in Busy, NEW c \in Customers, NEW r \in Row, NEW r2 \in Row,
           AfterCustomer(s, c, r, r2)
    PROVE  /\ row' = [row EXCEPT ![c] = r2] /\ row' \in [Customers -> Row]
           /\ ticket' \in Seq(Ticket) /\ Len(ticket') = Len(ticket)
           /\ \A i \in 1 .. Len(ticket) : Reported(ticket'[i], ticket[i])
           /\ Steady(s)
           /\ session'[s] = Idle \/ session'[s].seen = r
  <1>1. row \in [Customers -> Row] /\ ticket \in Seq(Ticket)  BY DEF Inv, TypeOK
  <1>2. row' = [row EXCEPT ![c] = r2] /\ ticket' = Settled(c, r, ticket)
        /\ Continue(s, IF Wanted(c, r, ticket) THEN <<"create">> ELSE <<>>, r)
    BY DEF AfterCustomer
  <1>3. /\ ticket' \in Seq(Ticket) /\ Len(ticket') = Len(ticket)
        /\ \A i \in 1 .. Len(ticket) : \/ ticket'[i] = ticket[i]
                                       \/ ticket'[i] = [ticket[i] EXCEPT !.status = "COMPLETED"]
    BY <1>1, <1>2, SettledType
  <1>4. \A i \in 1 .. Len(ticket) : ticket[i] \in Ticket /\ Reported(ticket[i], ticket[i])
    BY TablesAre DEF Reported, SameRecord
  <1>5. \A i \in 1 .. Len(ticket) : Reported(ticket'[i], ticket[i])  BY <1>3, <1>4, CompletedIs
  <1>6. Steady(s) /\ (session'[s] = Idle \/ session'[s].seen = r)  BY <1>2, ContinueIs
  <1>7. row' \in [Customers -> Row]  BY <1>1, <1>2
  <1> QED  BY <1>2, <1>3, <1>5, <1>6, <1>7

\* The other tables, when a step leaves them and the number of tickets alone.
LEMMA CrewStays ==
    ASSUME Inv, UNCHANGED Crewless, Len(ticket') = Len(ticket)
    PROVE  CrewTyped'
  BY DEF Inv, TypeOK, CrewTyped, SeatsBounded, Crewless

LEMMA TicketsStay ==
    ASSUME Inv, NEW s \in Threads, ticket' \in Seq(Ticket), Len(ticket') = Len(ticket),
           \A i \in 1 .. Len(ticket) : Reported(ticket'[i], ticket[i])
    PROVE  TicketsMove(s)
  <1>1. ticket \in Seq(Ticket)  BY DEF Inv, TypeOK
  <1> QED  BY <1>1 DEF TicketsMove, Moved

LEMMA CustomerStep ==
    ASSUME Inv, NEW s \in Threads, s \in Busy, NEW c \in Customers, NEW r \in Row, NEW r2 \in Row,
           AfterCustomer(s, c, r, r2), UNCHANGED Crewless
    PROVE  Stepped(s)
  BY AfterCustomerIs, CrewStays, TicketsStay DEF Stepped

LEMMA SaveTicketIs ==
    ASSUME Inv, NEW s \in Threads, SaveTicket(s)
    PROVE  Stepped(s) /\ s \in Busy
  <1> DEFINE j == session[s]
             table == [ticket EXCEPT ![j.id] = j.job]
             r == Known(s, j.cust)
  <1>1. s \in Busy  BY DEF SaveTicket, Doing, Busy
  <1>2. /\ j.id \in Nat /\ j.job \in Ticket /\ r \in Row
        /\ ticket \in Seq(Ticket) /\ Len(ticket) \in Nat
    BY <1>1, KnownIs, TablesAre DEF Inv, TypeOK
  <1>3. /\ table \in Seq(Ticket) /\ Len(table) = Len(ticket)
        /\ \A i \in 1 .. Len(ticket) : table[i] = IF i = j.id THEN j.job ELSE ticket[i]
    BY <1>2, SeqWrite
  <1>4. AfterSave(s, table, j.job, r) /\ UNCHANGED Crewless  BY DEF SaveTicket
  <1> HIDE DEF table, r
  <1>5. /\ row' \in [Customers -> Row] /\ ticket' \in Seq(Ticket) /\ Len(ticket') = Len(ticket)
        /\ \A i \in 1 .. Len(ticket) : Reported(ticket'[i], table[i])
        /\ Steady(s)
    BY <1>1, <1>2, <1>3, <1>4, AfterSaveIs
  <1>6. TicketsMove(s)  BY <1>3, <1>5 DEF TicketsMove, Moved
  <1> QED  BY <1>1, <1>4, <1>5, <1>6, CrewStays DEF Stepped

LEMMA SaveCallsIs ==
    ASSUME Inv, NEW s \in Threads, SaveCalls(s)
    PROVE  Stepped(s) /\ s \in Busy
  <1> DEFINE j == session[s]
             i == j.id
             x == [ticket[i] EXCEPT !.calls = j.job.calls]
             table == [ticket EXCEPT ![i] = [@ EXCEPT !.calls = j.job.calls]]
             r == Known(s, j.cust)
  <1>1. s \in Busy  BY DEF SaveCalls, Doing, Busy
  <1>2. CASE ~Found(i)
    <2>1. Fail(s)  BY <1>2 DEF SaveCalls
    <2>2. Steady(s) /\ UNCHANGED Tables  BY <2>1, FailIs
    <2>3. \A k \in 1 .. Len(ticket) : Reported(ticket[k], ticket[k])  BY DEF Reported, SameRecord
    <2>4. TicketsMove(s) /\ row' \in [Customers -> Row]
      BY <2>2, <2>3, TicketsStay DEF Inv, TypeOK, Tables
    <2>5. CrewTyped'  BY <2>2, CrewStays DEF Tables, Crewless
    <2> QED  BY <1>1, <2>2, <2>4, <2>5 DEF Stepped
  <1>3. CASE Found(i)
    <2>1. /\ i \in 1 .. Len(ticket) /\ ticket[i] \in Ticket /\ j.job \in Ticket /\ r \in Row
          /\ ticket \in Seq(Ticket) /\ Len(ticket) \in Nat
      BY <1>1, <1>3, KnownIs, TablesAre DEF Inv, TypeOK, Found
    <2>2. j.job.calls \in Nat  BY <2>1 DEF Ticket
    <2>3. x \in Ticket /\ Reported(x, ticket[i])  BY <2>1, <2>2 DEF Ticket, Reported, SameRecord
    <2>4. table = [ticket EXCEPT ![i] = x]  BY <2>1
    <2>5. AfterSave(s, table, j.job, r) /\ UNCHANGED Crewless  BY <1>3 DEF SaveCalls
    <2> HIDE DEF x, table, r, i
    <2>6. /\ table \in Seq(Ticket) /\ Len(table) = Len(ticket)
          /\ \A k \in 1 .. Len(ticket) : table[k] = IF k = i THEN x ELSE ticket[k]
      BY <2>1, <2>3, <2>4, SeqWrite
    <2>7. /\ row' \in [Customers -> Row] /\ ticket' \in Seq(Ticket) /\ Len(ticket') = Len(ticket)
          /\ \A k \in 1 .. Len(ticket) : Reported(ticket'[k], table[k])
          /\ Steady(s)
      BY <1>1, <2>1, <2>5, <2>6, AfterSaveIs
    <2>8. \A k \in 1 .. Len(ticket) : Reported(ticket'[k], ticket[k])
      <3> SUFFICES ASSUME NEW k \in 1 .. Len(ticket) PROVE Reported(ticket'[k], ticket[k])  OBVIOUS
      <3>1. CASE k = i  BY <2>3, <2>6, <2>7, <3>1, ReportedAgain
      <3>2. CASE k # i  BY <2>6, <2>7, <3>2
      <3> QED  BY <3>1, <3>2
    <2> QED  BY <1>1, <2>5, <2>7, <2>8, CrewStays, TicketsStay DEF Stepped
  <1> QED  BY <1>2, <1>3

\* Tickets left as they are.
LEMMA NoTicketMoves ==
    ASSUME Inv, NEW s \in Threads, ticket' = ticket
    PROVE  TicketsMove(s)
  BY TicketsStay DEF Reported, SameRecord, Inv, TypeOK

LEMMA FailStep ==
    ASSUME Inv, NEW s \in Threads, Fail(s)
    PROVE  Stepped(s)
  <1>1. Steady(s) /\ UNCHANGED Tables  BY FailIs
  <1>2. TicketsMove(s) /\ row' \in [Customers -> Row]
    BY <1>1, NoTicketMoves DEF Inv, TypeOK, Tables
  <1>3. CrewTyped'  BY <1>1, CrewStays DEF Tables, Crewless
  <1> QED  BY <1>1, <1>2, <1>3 DEF Stepped

LEMMA SaveAttemptIs ==
    ASSUME Inv, NEW s \in Threads, SaveAttempt(s)
    PROVE  Stepped(s) /\ s \in Busy
  <1> DEFINE j == session[s]
             n == attempts[j.id] + 1
  <1>1. s \in Busy  BY DEF SaveAttempt, Doing, Busy
  <1>2. CASE ~Found(j.id)
    <2>1. Fail(s)  BY <1>2 DEF SaveAttempt
    <2> QED  BY <1>1, <2>1, FailStep
  <1>3. CASE Found(j.id)
    <2>1. attempts' = [attempts EXCEPT ![j.id] = @ + 1] /\ Continue(s, <<>>, j.seen)
          /\ UNCHANGED <<row, paid, ticket, crew, seats>>
      BY <1>3 DEF SaveAttempt
    <2>2. j.id \in 1 .. Len(ticket) /\ attempts[j.id] \in Nat /\ attempts \in Seq(Nat)
          /\ Len(attempts) = Len(ticket)
      BY <1>3, TablesAre DEF Found, Inv, TypeOK
    <2>3. attempts' = [attempts EXCEPT ![j.id] = n] /\ n \in Nat  BY <2>1, <2>2
    <2> HIDE DEF n
    <2>4. attempts' \in Seq(Nat) /\ Len(attempts') = Len(attempts)  BY <2>2, <2>3, ExceptSeq
    <2>5. CrewTyped'
      BY <2>1, <2>2, <2>4 DEF CrewTyped, SeatsBounded, Inv, TypeOK
    <2>6. j.seen \in Row \cup {Unread}  BY <1>1, KnownIs
    <2>7. Steady(s)  BY <1>1, <2>1, <2>6, ContinueIs
    <2>8. TicketsMove(s) /\ row' \in [Customers -> Row]
      BY <2>1, NoTicketMoves DEF Inv, TypeOK
    <2> QED  BY <1>1, <2>5, <2>7, <2>8 DEF Stepped
  <1> QED  BY <1>2, <1>3

LEMMA SavePlaceIs ==
    ASSUME Inv, NEW s \in Threads, SavePlace(s)
    PROVE  Stepped(s) /\ s \in Busy
  <1> DEFINE j == session[s]
             r == Known(s, j.cust)
  <1>1. s \in Busy  BY DEF SavePlace, Doing, Busy
  <1>2. CASE ~Found(j.id)
    <2>1. Fail(s)  BY <1>2 DEF SavePlace
    <2> QED  BY <1>1, <2>1, FailStep
  <1>3. CASE Found(j.id)
    <2>1. AfterSave(s, ticket, j.job, r) /\ UNCHANGED Crewless  BY <1>3 DEF SavePlace
    <2>2. j.job \in Ticket /\ r \in Row /\ ticket \in Seq(Ticket)  BY <1>1, KnownIs DEF Inv, TypeOK
    <2> HIDE DEF r
    <2>3. /\ row' \in [Customers -> Row] /\ ticket' \in Seq(Ticket) /\ Len(ticket') = Len(ticket)
          /\ \A i \in 1 .. Len(ticket) : Reported(ticket'[i], ticket[i])
          /\ Steady(s)
      BY <1>1, <2>1, <2>2, AfterSaveIs
    <2> QED  BY <1>1, <2>1, <2>3, CrewStays, TicketsStay DEF Stepped
  <1> QED  BY <1>2, <1>3

Bounded(rows) == \E n \in Nat : \A x \in rows : x.sequence <= n

LEMMA SeatsBoundedIs ==
    SeatsBounded <=> \A i \in 1 .. Len(seats) : Bounded(seats[i])
  BY DEF SeatsBounded, Bounded

LEMMA FirstSeatIs ==
    ASSUME NEW t \in Techs, NEW n \in Nat
    PROVE  /\ FirstSeat(t) \in Seat /\ FirstSeat(t).sequence = 1
           /\ FirstSeat(t).tech = t /\ FirstSeat(t).current
           /\ [FirstSeat(t) EXCEPT !.sequence = n] \in Seat
           /\ [FirstSeat(t) EXCEPT !.sequence = n].sequence = n
           /\ [FirstSeat(t) EXCEPT !.sequence = n].current
  BY DEF FirstSeat, Seat

LEMMA SeatWrite ==
    ASSUME NEW x \in Seat, NEW c \in BOOLEAN, NEW t \in Techs
    PROVE  /\ [x EXCEPT !.current = c] \in Seat
           /\ [x EXCEPT !.current = c].sequence = x.sequence
           /\ [x EXCEPT !.current = c].tech = x.tech
           /\ [x EXCEPT !.current = c].current = c
           /\ [x EXCEPT !.current = c, !.replacedBy = t] \in Seat
           /\ [x EXCEPT !.current = c, !.replacedBy = t].sequence = x.sequence
           /\ [x EXCEPT !.current = c, !.replacedBy = t].tech = x.tech
  BY DEF Seat

LEMMA MirroredIs ==
    ASSUME NEW rows \in SUBSET Seat, Bounded(rows), NEW team \in SUBSET Techs,
           NEW step \in {"rows", "retire", "current"}
    PROVE  Mirrored(step, rows, team) \in SUBSET Seat /\ Bounded(Mirrored(step, rows, team))
  <1>1. PICK n \in Nat : \A x \in rows : x.sequence <= n  BY DEF Bounded
  <1>2. \A x \in rows : x.sequence \in Nat /\ x.current \in BOOLEAN  BY DEF Seat
  <1>3. CASE step = "rows"
    <2> DEFINE V == {v \in team : \A x \in rows : <<x.tech, x.sequence>> # <<v, 1>>}
               new == {FirstSeat(t) : t \in V}
    <2>1. Mirrored(step, rows, team) = rows \cup new  BY <1>3 DEF Mirrored
    <2>2. \A x \in new : x \in Seat /\ x.sequence = 1
      <3>1. ASSUME NEW v \in V PROVE FirstSeat(v) \in Seat /\ FirstSeat(v).sequence = 1
        <4>1. v \in Techs /\ 0 \in Nat  OBVIOUS
        <4> QED  BY <4>1, FirstSeatIs
      <3> HIDE DEF V
      <3> QED  BY <3>1
    <2> HIDE DEF new
    <2>3. \A x \in rows \cup new : x.sequence <= n + 1  BY <1>1, <1>2, <2>2
    <2>4. n + 1 \in Nat  OBVIOUS
    <2> QED  BY <2>1, <2>2, <2>3, <2>4 DEF Bounded
  <1>4. CASE step = "retire"
    <2> DEFINE f(x) == [x EXCEPT !.current = x.current /\ x.tech \in team]
    <2>1. Mirrored(step, rows, team) = {f(x) : x \in rows}  BY <1>4 DEF Mirrored
    <2>2. ASSUME NEW x \in rows PROVE f(x) \in Seat /\ f(x).sequence <= n
      <3> DEFINE c == x.current /\ x.tech \in team
      <3>1. c \in BOOLEAN /\ x \in Seat  BY <1>2
      <3>2. f(x) = [x EXCEPT !.current = c]  OBVIOUS
      <3> HIDE DEF c, f
      <3>3. f(x) \in Seat /\ f(x).sequence = x.sequence  BY <3>1, <3>2, SeatWrite, DispatchAssumption DEF Seat
      <3> QED  BY <1>1, <3>3
    <2> HIDE DEF f
    <2> QED  BY <2>1, <2>2 DEF Bounded
  <1>5. CASE step = "current"
    <2> DEFINE f(x) == [x EXCEPT !.current = x.current \/ x.tech \in team]
    <2>1. Mirrored(step, rows, team) = {f(x) : x \in rows}  BY <1>5 DEF Mirrored
    <2>2. ASSUME NEW x \in rows PROVE f(x) \in Seat /\ f(x).sequence <= n
      <3> DEFINE c == x.current \/ x.tech \in team
      <3>1. c \in BOOLEAN /\ x \in Seat  BY <1>2
      <3>2. f(x) = [x EXCEPT !.current = c]  OBVIOUS
      <3> HIDE DEF c, f
      <3>3. f(x) \in Seat /\ f(x).sequence = x.sequence  BY <3>1, <3>2, SeatWrite DEF Seat
      <3> QED  BY <1>1, <3>3
    <2> HIDE DEF f
    <2> QED  BY <2>1, <2>2 DEF Bounded
  <1> QED  BY <1>3, <1>4, <1>5

LEMMA LastIs ==
    ASSUME NEW rows \in SUBSET Seat, Bounded(rows)
    PROVE  Last(rows) \in Nat /\ \A x \in rows : x.sequence <= Last(rows)
  <1> DEFINE S == {x.sequence : x \in rows}
  <1>1. PICK n \in Nat : \A x \in rows : x.sequence <= n  BY DEF Bounded
  <1>2. S \in SUBSET Nat /\ \A m \in S : m <= n  BY <1>1 DEF Seat
  <1>3. Last(rows) = Highest(S)  BY DEF Last
  <1>4. CASE S = {}
    <2>1. Highest(S) = 0 /\ rows = {}
      <3>1. rows = {}  BY <1>4
      <3> HIDE DEF S
      <3> QED  BY <1>4, <3>1 DEF Highest
    <2> QED  BY <1>3, <2>1
  <1>5. CASE S # {}
    <2>1. \A x \in rows : x.sequence \in S  OBVIOUS
    <2> HIDE DEF S
    <2>2. Highest(S) \in S /\ \A m \in S : m <= Highest(S)  BY <1>2, <1>5, HighestIs
    <2> QED  BY <1>2, <1>3, <2>1, <2>2
  <1> QED  BY <1>4, <1>5

LEMMA OutgoingIs ==
    ASSUME NEW rows \in SUBSET Seat, Bounded(rows), NEW out \in SUBSET Techs
    PROVE  Outgoing(rows, out) \in SUBSET Seat /\ Bounded(Outgoing(rows, out))
  <1> DEFINE n == Last(rows) + 1
             new == {[FirstSeat(t) EXCEPT !.sequence = n] : t \in out}
  <1>1. n \in Nat /\ \A x \in rows : x.sequence <= n
    <2>1. Last(rows) \in Nat /\ \A x \in rows : x.sequence <= Last(rows)  BY LastIs
    <2>2. \A x \in rows : x.sequence \in Nat  BY DEF Seat
    <2> QED  BY <2>1, <2>2
  <1>2. Outgoing(rows, out) = rows \cup new  BY DEF Outgoing
  <1> HIDE DEF n
  <1>3. \A x \in new : x \in Seat /\ x.sequence = n
    <2> DEFINE g(t) == [FirstSeat(t) EXCEPT !.sequence = n]
    <2>1. ASSUME NEW t \in out PROVE g(t) \in Seat /\ g(t).sequence = n  BY <1>1, FirstSeatIs
    <2>2. new = {g(t) : t \in out}  OBVIOUS
    <2> HIDE DEF g, new
    <2> QED  BY <2>1, <2>2
  <1> HIDE DEF new
  <1>4. \A x \in rows \cup new : x.sequence <= n  BY <1>1, <1>3
  <1> QED  BY <1>1, <1>2, <1>3, <1>4 DEF Bounded

\* The rows after a hand-over; somebody incoming is current.
LEMMA RelievedIs ==
    ASSUME NEW rows \in SUBSET Seat, Bounded(rows), NEW team \in SUBSET Techs, team # {},
           NEW order \in Orders(team)
    PROVE  /\ Relieved(rows, order) \in SUBSET Seat /\ Bounded(Relieved(rows, order))
           /\ \E x \in Relieved(rows, order) : x.current
           /\ \A x \in rows : \E y \in Relieved(rows, order) : y.tech = x.tech
  <1>1. Cardinality(team) \in Nat /\ Cardinality(team) >= 1
    <2>1. IsFiniteSet(team)  BY DispatchAssumption, FS_Subset
    <2>2. Cardinality(team) \in Nat  BY <2>1, FS_CardinalityType
    <2>3. Cardinality(team) # 0  BY <2>1, FS_EmptySet
    <2> QED  BY <2>2, <2>3
  <1>2. order \in [1 .. Cardinality(team) -> team] /\ DOMAIN order = 1 .. Cardinality(team)
    BY DEF Orders
  <1>3. 1 \in DOMAIN order /\ order[1] \in Techs  BY <1>1, <1>2
  <1> DEFINE m == Last(rows)
             k == Cardinality(team)
             f(x) == IF x.current THEN [x EXCEPT !.current = FALSE, !.replacedBy = order[1]] ELSE x
             g(n) == [FirstSeat(order[n]) EXCEPT !.sequence = m + n]
  <1>4. Retired(rows, order) = {f(x) : x \in rows}  BY DEF Retired
  <1>5. Incoming(rows, order) = {g(n) : n \in DOMAIN order}  BY DEF Incoming
  <1>6. m \in Nat /\ \A x \in rows : x.sequence <= m  BY LastIs
  <1>7. ASSUME NEW x \in rows PROVE f(x) \in Seat /\ f(x).sequence <= m /\ f(x).tech = x.tech
    <2>1. x \in Seat /\ FALSE \in BOOLEAN  OBVIOUS
    <2>2. f(x) \in Seat /\ f(x).sequence = x.sequence /\ f(x).tech = x.tech  BY <1>3, <2>1, SeatWrite
    <2> HIDE DEF f
    <2> QED  BY <1>6, <2>2
  <1>8. ASSUME NEW n \in DOMAIN order PROVE g(n) \in Seat /\ g(n).sequence <= m + k /\ g(n).current
    <2>1. n \in Nat /\ n <= k /\ order[n] \in Techs  BY <1>1, <1>2
    <2>2. m + n \in Nat /\ m + n <= m + k  BY <1>1, <1>6, <2>1
    <2>3. g(n) \in Seat /\ g(n).sequence = m + n /\ g(n).current
      <3> DEFINE q == m + n
      <3> HIDE DEF q
      <3>1. g(n) = [FirstSeat(order[n]) EXCEPT !.sequence = q]  BY DEF q
      <3>2. q \in Nat  BY <2>2 DEF q
      <3> HIDE DEF g
      <3>3. g(n) \in Seat /\ g(n).sequence = q /\ g(n).current  BY <2>1, <3>1, <3>2, FirstSeatIs
      <3> QED  BY <3>3 DEF q
    <2> HIDE DEF g
    <2> QED  BY <2>2, <2>3
  <1>9. m + k \in Nat /\ m <= m + k  BY <1>1, <1>6
  <1>10. \A x \in Seat : x.sequence \in Nat  BY DEF Seat
  <1> HIDE DEF f, g, m, k
  <1>11. \A x \in Retired(rows, order) : x \in Seat /\ x.sequence <= m + k
    BY <1>4, <1>6, <1>7, <1>9, <1>10
  <1>12. \A x \in Incoming(rows, order) : x \in Seat /\ x.sequence <= m + k /\ x.current
    BY <1>5, <1>8
  <1>13. Incoming(rows, order) # {}  BY <1>3, <1>5
  <1>14. \A x \in rows : \E y \in Retired(rows, order) : y.tech = x.tech  BY <1>4, <1>7
  <1> QED  BY <1>14, <1>9, <1>11, <1>12, <1>13 DEF Relieved, Bounded

LEMMA SeatsWritten ==
    ASSUME Inv, NEW i \in 1 .. Len(ticket), NEW rows \in SUBSET Seat, Bounded(rows),
           seats' = [seats EXCEPT ![i] = rows]
    PROVE  /\ seats' \in Seq(SUBSET Seat) /\ Len(seats') = Len(ticket) /\ SeatsBounded'
           /\ seats'[i] = rows /\ \A k \in 1 .. Len(ticket) : k # i => seats'[k] = seats[k]
  <1>1. seats \in Seq(SUBSET Seat) /\ Len(seats) = Len(ticket) /\ Len(ticket) \in Nat
    BY TablesAre DEF Inv, TypeOK
  <1>2. /\ seats' \in Seq(SUBSET Seat) /\ Len(seats') = Len(seats)
        /\ \A k \in 1 .. Len(seats) : seats'[k] = IF k = i THEN rows ELSE seats[k]
    BY <1>1, ExceptSeq
  <1>3. \A k \in 1 .. Len(seats) : Bounded(seats[k])  BY SeatsBoundedIs DEF Inv
  <1>4. \A k \in 1 .. Len(seats') : Bounded(seats'[k])
    <2> SUFFICES ASSUME NEW k \in 1 .. Len(seats') PROVE Bounded(seats'[k])  OBVIOUS
    <2> QED  BY <1>1, <1>2, <1>3
  <1>5. SeatsBounded'  BY <1>4 DEF SeatsBounded, Bounded
  <1> QED  BY <1>1, <1>2, <1>5

LEMMA CrewWritten ==
    ASSUME Inv, NEW i, i \in 1 .. Len(ticket) \/ i = 0, NEW team \in SUBSET Techs,
           crew' = [crew EXCEPT ![i] = team]
    PROVE  /\ crew' \in Seq(SUBSET Techs) /\ Len(crew') = Len(ticket)
           /\ \A k \in 1 .. Len(ticket) : crew'[k] = IF k = i THEN team ELSE crew[k]
  <1>1. crew \in Seq(SUBSET Techs) /\ Len(crew) = Len(ticket) /\ i \in Nat  BY TablesAre DEF Inv, TypeOK
  <1> QED  BY <1>1, SeqWrite

LEMMA SaveSeatsIs ==
    ASSUME Inv, NEW s \in Threads, NEW step \in {"rows", "retire", "current"}, SaveSeats(s, step)
    PROVE  Stepped(s) /\ s \in Busy
  <1> DEFINE j == session[s]
             i == j.id
             rows == Mirrored(step, seats[i], j.team)
  <1>1. s \in Busy  BY DEF SaveSeats, Doing, Busy
  <1>2. CASE step = "rows" /\ ~Found(i)
    <2>1. Fail(s)  BY <1>2 DEF SaveSeats
    <2> QED  BY <1>1, <2>1, FailStep
  <1>3. CASE ~(step = "rows" /\ ~Found(i))
    <2>1. seats' = [seats EXCEPT ![i] = Mirrored(step, @, j.team)] /\ Continue(s, <<>>, j.seen)
          /\ UNCHANGED <<row, paid, ticket, attempts, crew>>
      BY <1>3 DEF SaveSeats
    <2>2. seats' \in Seq(SUBSET Seat) /\ Len(seats') = Len(ticket) /\ SeatsBounded'
      <3>1. CASE i \in 1 .. Len(ticket)
        <4>1. seats' = [seats EXCEPT ![i] = rows]  BY <2>1
        <4>2. seats[i] \in SUBSET Seat /\ j.team \in SUBSET Techs  BY <1>1, <3>1, TablesAre, KnownIs
        <4>3. Bounded(seats[i])  BY <3>1, SeatsBoundedIs DEF Inv, TypeOK
        <4>4. rows \in SUBSET Seat /\ Bounded(rows)  BY <4>2, <4>3, MirroredIs
        <4> HIDE DEF rows
        <4> QED  BY <3>1, <4>1, <4>4, SeatsWritten
      <3>2. CASE i \notin 1 .. Len(ticket)
        <4>1. seats \in [1 .. Len(ticket) -> SUBSET Seat]  BY LenProperties DEF Inv, TypeOK
        <4> DEFINE e == Mirrored(step, seats[i], j.team)
        <4>3. seats' = [seats EXCEPT ![i] = e]  BY <2>1
        <4> HIDE DEF e
        <4>2. seats' = seats  BY <3>2, <4>1, <4>3
        <4> QED  BY <4>2 DEF Inv, TypeOK, SeatsBounded
      <3> QED  BY <3>1, <3>2
    <2>3. CrewTyped'  BY <2>1, <2>2 DEF CrewTyped, Inv, TypeOK
    <2>4. j.seen \in Row \cup {Unread}  BY <1>1, KnownIs
    <2>5. Steady(s)  BY <1>1, <2>1, <2>4, ContinueIs
    <2>6. TicketsMove(s) /\ row' \in [Customers -> Row]  BY <2>1, NoTicketMoves DEF Inv, TypeOK
    <2> QED  BY <1>1, <2>3, <2>5, <2>6 DEF Stepped
  <1> QED  BY <1>2, <1>3

LEMMA SaveCrewIs ==
    ASSUME Inv, NEW s \in Threads, SaveCrew(s)
    PROVE  Stepped(s) /\ s \in Busy
  <1> DEFINE j == session[s]
             i == j.id
  <1>1. s \in Busy  BY DEF SaveCrew, Doing, Busy
  <1>2. CASE ~Found(i) /\ j.team # {}
    <2>1. Fail(s)  BY <1>2 DEF SaveCrew
    <2> QED  BY <1>1, <2>1, FailStep
  <1>3. CASE ~(~Found(i) /\ j.team # {})
    <2>1. crew' = [crew EXCEPT ![i] = j.team] /\ Continue(s, <<>>, j.seen)
          /\ UNCHANGED <<row, paid, ticket, attempts, seats>>
      BY <1>3 DEF SaveCrew
    <2>2. j.team \in SUBSET Techs /\ i \in 0 .. Len(ticket) /\ j.seen \in Row \cup {Unread}
          /\ Len(ticket) \in Nat
      BY <1>1, KnownIs, TablesAre
    <2>a. i \in 1 .. Len(ticket) \/ i = 0  BY <2>2
    <2>3. crew' \in Seq(SUBSET Techs) /\ Len(crew') = Len(ticket)  BY <2>1, <2>2, <2>a, CrewWritten
    <2>4. CrewTyped'  BY <2>1, <2>3 DEF CrewTyped, SeatsBounded, Inv, TypeOK
    <2>5. Steady(s)  BY <1>1, <2>1, <2>2, ContinueIs
    <2>6. TicketsMove(s) /\ row' \in [Customers -> Row]  BY <2>1, NoTicketMoves DEF Inv, TypeOK
    <2> QED  BY <1>1, <2>4, <2>5, <2>6 DEF Stepped
  <1> QED  BY <1>2, <1>3

\* The rows a hand-over starts from are the ticket's, or those and the outgoing.
LEMMA HandoverIs ==
    ASSUME Inv, NEW s \in Threads, SaveHandover(s), Found(session[s].id)
    PROVE  /\ s \in Busy /\ session[s].id \in 1 .. Len(ticket) /\ session[s].team # {}
           /\ "replace" \in duty
           /\ \E rows \in SUBSET Seat, order \in Orders(session[s].team) :
                 /\ Bounded(rows) /\ seats[session[s].id] \subseteq rows
                 /\ seats' = [seats EXCEPT ![session[s].id] = Relieved(rows, order)]
  <1> DEFINE j == session[s]
             i == j.id
             S == seats[i]
             out == Outgoing(S, j.out)
  <1>1. s \in Busy  BY DEF SaveHandover, Doing, Busy
  <1>2. i \in 1 .. Len(ticket)  BY TablesAre DEF Found
  <1>3. j.team # {} /\ "replace" \in duty
    <2>1. Planned(j) /\ j.todo # <<>> /\ Head(j.todo) = "handover"
      BY <1>1, BusyIs DEF SaveHandover, Doing
    <2>2. j.todo \notin Seq(StepNames \ {"handover"})
      <3> SUFFICES ASSUME j.todo \in Seq(StepNames \ {"handover"}) PROVE FALSE  OBVIOUS
      <3>1. Head(j.todo) \in StepNames \ {"handover"}  BY <2>1, HeadTailProperties
      <3> QED  BY <2>1, <3>1
    <2> QED  BY <2>1, <2>2 DEF Planned
  <1>4. S \in SUBSET Seat /\ Bounded(S) /\ j.out \in SUBSET Techs
    BY <1>1, <1>2, TablesAre, KnownIs, SeatsBoundedIs DEF Inv, TypeOK
  <1>5. out \in SUBSET Seat /\ Bounded(out)  BY <1>4, OutgoingIs
  <1>s. S \subseteq out  BY DEF Outgoing
  <1> DEFINE before == (IF \E x \in S : x.current THEN {S} ELSE {})
                       \cup (IF (\A x \in S : ~x.current) \/ Waited(j.held, S) THEN {out} ELSE {})
  <1>6. \E rows \in before, order \in Orders(j.team) : seats' = [seats EXCEPT ![i] = Relieved(rows, order)]
    BY DEF SaveHandover
  <1>7. \A rows \in before : rows = S \/ rows = out  OBVIOUS
  <1> HIDE DEF S, out, before
  <1>8. PICK rows \in before, order \in Orders(j.team) : seats' = [seats EXCEPT ![i] = Relieved(rows, order)]
    BY <1>6
  <1>9. rows \in SUBSET Seat /\ Bounded(rows) /\ S \subseteq rows  BY <1>4, <1>5, <1>7, <1>s
  <1> QED  BY <1>1, <1>2, <1>3, <1>8, <1>9 DEF S

LEMMA SaveHandoverIs ==
    ASSUME Inv, NEW s \in Threads, SaveHandover(s)
    PROVE  Stepped(s) /\ s \in Busy
  <1> DEFINE j == session[s]
             i == j.id
             st == IF j.job.status = "IN_PROGRESS" THEN "ASSIGNED" ELSE j.job.status
             t == [j.job EXCEPT !.status = st]
             x == [ticket[i] EXCEPT !.status = t.status]
             table == [ticket EXCEPT ![i] = x]
             r == Known(s, j.cust)
  <1>1. s \in Busy  BY DEF SaveHandover, Doing, Busy
  <1>2. CASE ~Found(i)
    <2>1. Fail(s)  BY <1>2 DEF SaveHandover
    <2> QED  BY <1>1, <2>1, FailStep
  <1>3. CASE Found(i)
    <2>1. crew' = [crew EXCEPT ![i] = j.team] /\ UNCHANGED <<paid, attempts>>
      BY <1>3 DEF SaveHandover
    <2>2. AfterSave(s, table, t, r)
      <3>1. [j.job EXCEPT !.status = IF @ = "IN_PROGRESS" THEN "ASSIGNED" ELSE @] = t  OBVIOUS
      <3>2. [ticket EXCEPT ![i] = [@ EXCEPT !.status = t.status]] = table
        <4>1. i \in DOMAIN ticket  BY <1>3 DEF Found
        <4> HIDE DEF t
        <4> QED  BY <4>1
      <3> HIDE DEF t, table, r
      <3> QED  BY <1>3, <3>1, <3>2 DEF SaveHandover, r
    <2>3. /\ i \in 1 .. Len(ticket) /\ ticket[i] \in Ticket /\ j.job \in Ticket /\ r \in Row
          /\ ticket \in Seq(Ticket) /\ Len(ticket) \in Nat /\ j.team \in SUBSET Techs
      BY <1>1, <1>3, KnownIs, TablesAre DEF Inv, TypeOK, Found
    <2>4. st \in Status \cup {"DELETED"} /\ st \in {j.job.status, "ASSIGNED"}
      BY <2>3 DEF Ticket, Status, Unfinished
    <2> HIDE DEF st
    <2>5. t \in Ticket /\ t.status = st  BY <2>3, <2>4, SetStatusType, StatusCopy
    <2>6. t.status \in Status \cup {"DELETED"}  BY <2>5 DEF Ticket
    <2> HIDE DEF t
    <2>7. x \in Ticket /\ SameRecord(x, ticket[i]) /\ x.status = t.status
      BY <2>3, <2>6 DEF Ticket, SameRecord
    <2> HIDE DEF x
    <2>8. /\ table \in Seq(Ticket) /\ Len(table) = Len(ticket)
          /\ \A k \in 1 .. Len(ticket) : table[k] = IF k = i THEN x ELSE ticket[k]
      BY <2>3, <2>7, SeqWrite
    <2> HIDE DEF table, r
    <2>9. /\ row' \in [Customers -> Row] /\ ticket' \in Seq(Ticket) /\ Len(ticket') = Len(ticket)
          /\ \A k \in 1 .. Len(ticket) : Reported(ticket'[k], table[k])
          /\ Steady(s)
      BY <1>1, <2>2, <2>3, <2>5, <2>8, AfterSaveIs
    <2>10. PICK rows \in SUBSET Seat, order \in Orders(j.team) :
              Bounded(rows) /\ seats' = [seats EXCEPT ![i] = Relieved(rows, order)]
      BY <1>3, HandoverIs
    <2>11. j.team # {} /\ "replace" \in duty  BY <1>3, HandoverIs
    <2>12. Relieved(rows, order) \in SUBSET Seat /\ Bounded(Relieved(rows, order))
      BY <2>3, <2>10, <2>11, RelievedIs
    <2>13. seats' \in Seq(SUBSET Seat) /\ Len(seats') = Len(ticket) /\ SeatsBounded'
      BY <2>3, <2>10, <2>12, SeatsWritten
    <2>14. crew' \in Seq(SUBSET Techs) /\ Len(crew') = Len(ticket)  BY <2>1, <2>3, CrewWritten
    <2>15. CrewTyped'  BY <2>1, <2>9, <2>13, <2>14 DEF CrewTyped, Inv, TypeOK
    <2>16. \A k \in 1 .. Len(ticket') : Moved(s, k, ticket'[k])
      <3> SUFFICES ASSUME NEW k \in 1 .. Len(ticket) PROVE Moved(s, k, ticket'[k])  BY <2>9
      <3>1. CASE k = i
        <4>1. Reported(ticket'[k], x)  BY <2>8, <2>9, <3>1
        <4>2. SameRecord(ticket'[k], ticket[k])  BY <2>7, <3>1, <4>1 DEF Reported, SameRecord
        <4>3. ticket'[k].status \in {j.job.status, "ASSIGNED", "COMPLETED"}
          BY <2>4, <2>5, <2>7, <4>1 DEF Reported
        <4> QED  BY <2>11, <4>2, <4>3 DEF Moved
      <3>2. CASE k # i
        <4>1. Reported(ticket'[k], ticket[k])  BY <2>8, <2>9, <3>2
        <4> QED  BY <4>1 DEF Moved
      <3> QED  BY <3>1, <3>2
    <2>17. TicketsMove(s)  BY <2>9, <2>16 DEF TicketsMove
    <2> QED  BY <1>1, <2>9, <2>15, <2>17 DEF Stepped
  <1> QED  BY <1>2, <1>3

\* ... and what it saves of the ticket.
LEMMA HandoverSave ==
    ASSUME Inv, NEW s \in Threads, SaveHandover(s), Found(session[s].id)
    PROVE  /\ paid' = paid
           /\ \E table \in Seq(Ticket), t \in Ticket :
                 /\ Len(table) = Len(ticket)
                 /\ AfterSave(s, table, t, Known(s, session[s].cust))
  <1> DEFINE j == session[s]
             i == j.id
             st == IF j.job.status = "IN_PROGRESS" THEN "ASSIGNED" ELSE j.job.status
             t == [j.job EXCEPT !.status = st]
             x == [ticket[i] EXCEPT !.status = t.status]
             table == [ticket EXCEPT ![i] = x]
             r == Known(s, j.cust)
  <1>1. s \in Busy  BY DEF SaveHandover, Doing, Busy
  <1>2. AfterSave(s, table, t, r) /\ paid' = paid
    <2>1. [j.job EXCEPT !.status = IF @ = "IN_PROGRESS" THEN "ASSIGNED" ELSE @] = t  OBVIOUS
    <2>2. [ticket EXCEPT ![i] = [@ EXCEPT !.status = t.status]] = table
      <3>1. i \in DOMAIN ticket  BY DEF Found
      <3> HIDE DEF t
      <3> QED  BY <3>1
    <2> HIDE DEF t, table, r
    <2> QED  BY <2>1, <2>2 DEF SaveHandover, r
  <1>3. /\ i \in 1 .. Len(ticket) /\ ticket[i] \in Ticket /\ j.job \in Ticket
        /\ ticket \in Seq(Ticket)
    BY <1>1, KnownIs, TablesAre DEF Inv, TypeOK, Found
  <1>4. st \in Status \cup {"DELETED"}  BY <1>3 DEF Ticket, Status, Unfinished
  <1> HIDE DEF st
  <1>5. t \in Ticket  BY <1>3, <1>4, SetStatusType
  <1>6. t.status \in Status \cup {"DELETED"}  BY <1>5 DEF Ticket
  <1> HIDE DEF t
  <1>7. x \in Ticket  BY <1>3, <1>6 DEF Ticket
  <1> HIDE DEF x
  <1>8. table \in Seq(Ticket) /\ Len(table) = Len(ticket)  BY <1>3, <1>7, ExceptSeq
  <1> QED  BY <1>2, <1>5, <1>8

\* One more ticket, with nobody on it.
LEMMA InsertIs ==
    ASSUME Inv, NEW c \in Customers, NEW kind \in Types, Insert(NewTicket(c, kind), ticket), paid' \subseteq Customers
    PROVE  /\ ticket' \in Seq(Ticket) /\ Len(ticket') = Len(ticket) + 1
           /\ \A i \in 1 .. Len(ticket) : ticket'[i] = ticket[i]
           /\ ticket'[Len(ticket) + 1] = NewTicket(c, kind)
           /\ CrewTyped'
           /\ \A i \in 1 .. Len(ticket) : crew'[i] = crew[i] /\ seats'[i] = seats[i]
           /\ crew'[Len(ticket) + 1] = {}
  <1> DEFINE t == NewTicket(c, kind)
             n == Len(ticket)
  <1>1. t \in Ticket  BY NewTicketType
  <1>2. ticket' = Append(ticket, t) /\ attempts' = Append(attempts, 0)
        /\ crew' = Append(crew, {}) /\ seats' = Append(seats, {})
    BY DEF Insert
  <1>3. /\ ticket \in Seq(Ticket) /\ attempts \in Seq(Nat) /\ Len(attempts) = n
        /\ crew \in Seq(SUBSET Techs) /\ Len(crew) = n
        /\ seats \in Seq(SUBSET Seat) /\ Len(seats) = n /\ n \in Nat
    BY TablesAre DEF Inv, TypeOK
  <1> HIDE DEF t
  <1>4. /\ ticket' \in Seq(Ticket) /\ Len(ticket') = n + 1
        /\ \A i \in 1 .. n : ticket'[i] = ticket[i]
        /\ ticket'[n + 1] = t
    BY <1>1, <1>2, <1>3, AppendProperties
  <1>5. attempts' \in Seq(Nat) /\ Len(attempts') = n + 1
    <2>1. 0 \in Nat  OBVIOUS
    <2> QED  BY <1>2, <1>3, <2>1, AppendProperties
  <1>6. /\ crew' \in Seq(SUBSET Techs) /\ Len(crew') = n + 1 /\ crew'[n + 1] = {}
        /\ \A i \in 1 .. n : crew'[i] = crew[i]
    <2>1. {} \in SUBSET Techs  OBVIOUS
    <2> QED  BY <1>2, <1>3, <2>1, AppendProperties
  <1>7. /\ seats' \in Seq(SUBSET Seat) /\ Len(seats') = n + 1 /\ seats'[n + 1] = {}
        /\ \A i \in 1 .. n : seats'[i] = seats[i]
    <2>1. {} \in SUBSET Seat  OBVIOUS
    <2> QED  BY <1>2, <1>3, <2>1, AppendProperties
  <1>8. SeatsBounded'
    <2>1. SeatsBounded /\ 0 \in Nat  BY DEF Inv
    <2>2. ASSUME NEW i \in 1 .. n + 1 PROVE Bounded(seats'[i])
      <3>1. CASE i \in 1 .. n
        <4>1. seats'[i] = seats[i] /\ Bounded(seats[i])  BY <1>3, <1>7, <2>1, <3>1, SeatsBoundedIs
        <4> QED  BY <4>1
      <3>2. CASE i = n + 1
        <4>1. seats'[i] = {}  BY <1>7, <3>2
        <4> QED  BY <2>1, <4>1 DEF Bounded
      <3> QED  BY <1>3, <3>1, <3>2
    <2> QED  BY <1>7, <2>2 DEF SeatsBounded, Bounded
  <1> QED  BY <1>3, <1>4, <1>5, <1>6, <1>7, <1>8 DEF CrewTyped, t

LEMMA CreateTicketIs ==
    ASSUME Inv, NEW s \in Threads, CreateTicket(s)
    PROVE  Stepped(s) /\ s \in Busy
  <1> DEFINE c == session[s].cust
             n == Len(ticket)
  <1>1. s \in Busy  BY DEF CreateTicket, Doing, Busy
  <1>2. c \in Customers /\ session[s].seen \in Row \cup {Unread}  BY <1>1, KnownIs
  <1>3. "INSTALLATION" \in Types  BY DEF Types
  <1>4. Insert(NewTicket(c, "INSTALLATION"), ticket) /\ Continue(s, <<>>, session[s].seen)
        /\ UNCHANGED <<row, paid>>
    BY DEF CreateTicket
  <1>5. /\ ticket' \in Seq(Ticket) /\ Len(ticket') = n + 1
        /\ \A i \in 1 .. n : ticket'[i] = ticket[i]
        /\ ticket'[n + 1] = NewTicket(c, "INSTALLATION")
        /\ CrewTyped'
    <2>1. paid' \subseteq Customers  BY <1>4 DEF Inv, TypeOK
    <2> QED  BY <1>2, <1>3, <1>4, <2>1, InsertIs
  <1>6. n \in Nat  BY TablesAre
  <1>7. \A i \in 1 .. n + 1 : Moved(s, i, ticket'[i])
    <2>1. \A i \in 1 .. n : Moved(s, i, ticket'[i])  BY <1>5 DEF Moved, Reported, SameRecord
    <2>2. Moved(s, n + 1, ticket'[n + 1])  BY <1>5 DEF Moved
    <2> QED  BY <1>6, <2>1, <2>2
  <1>8. TicketsMove(s)  BY <1>5, <1>7 DEF TicketsMove
  <1>9. Steady(s)  BY <1>1, <1>2, <1>4, ContinueIs
  <1> QED  BY <1>1, <1>4, <1>5, <1>8, <1>9 DEF Stepped, Inv, TypeOK

\* Saves of the whole customer row r, and of some columns of it.
LEMMA SaveCustomerIs ==
    ASSUME Inv, NEW s \in Threads, s \in Busy, NEW c \in Customers, NEW r \in Row, SaveCustomer(s, c, r)
    PROVE  \E r2 \in Row : /\ AfterCustomer(s, c, r, r2)
                           /\ r2.status = r.status
                           /\ r2.dated = (r.dated /\ r.status # "suspended")
  <1> DEFINE since == r.since \/ Settles(c, r)
             dated == r.dated /\ r.status # "suspended"
             r2 == [r EXCEPT !.since = since, !.dated = dated]
  <1>1. since \in BOOLEAN /\ dated \in BOOLEAN  BY DEF Settles, Row, LineIn
  <1>2. AfterCustomer(s, c, r, r2)  BY DEF SaveCustomer
  <1> HIDE DEF since, dated
  <1>3. r2 \in Row /\ r2.status = r.status /\ r2.dated = dated  BY <1>1 DEF Row
  <1> QED  BY <1>2, <1>3 DEF dated

LEMMA SaveColumnsIs ==
    ASSUME Inv, NEW s \in Threads, s \in Busy, NEW c \in Customers, NEW r \in Row, NEW install \in Installs,
           SaveColumns(s, c, r, install)
    PROVE  \E r2 \in Row : /\ AfterCustomer(s, c, r, r2)
                           /\ r2.status = row[c].status
                           /\ r2.dated = (row[c].dated /\ r.status # "suspended")
  <1> DEFINE into == IF Settles(c, r) THEN "installed" ELSE install
             since == row[c].since \/ Settles(c, r)
             dated == row[c].dated /\ r.status # "suspended"
             r2 == [row[c] EXCEPT !.install = into, !.since = since, !.dated = dated]
  <1>0. row[c] \in Row  BY DEF Inv, TypeOK
  <1>1. since \in BOOLEAN /\ dated \in BOOLEAN /\ into \in Installs
    BY <1>0 DEF Settles, Row, LineIn, Installs
  <1>2. AfterCustomer(s, c, r, r2)  BY DEF SaveColumns
  <1> HIDE DEF since, dated, into
  <1>3. r2 \in Row /\ r2.status = row[c].status /\ r2.dated = dated  BY <1>0, <1>1 DEF Row
  <1> QED  BY <1>2, <1>3 DEF dated

LEMMA MarkLineIs ==
    ASSUME Inv, NEW s \in Threads, NEW step, NEW install \in Installs, MarkLine(s, step, install)
    PROVE  s \in Busy /\ UNCHANGED Crewless
           /\ \E r, r2 \in Row : /\ AfterCustomer(s, session[s].cust, r, r2)
                                 /\ r.status = Known(s, session[s].cust).status
                                 /\ r.dated = Known(s, session[s].cust).dated
                                 /\ r2.status = row[session[s].cust].status
                                 /\ r2.dated = (row[session[s].cust].dated /\ r.status # "suspended")
  <1> DEFINE c == session[s].cust
             k == Known(s, c)
             r == [k EXCEPT !.install = install]
  <1>1. s \in Busy /\ UNCHANGED Crewless  BY DEF MarkLine, Doing, Busy
  <1>2. c \in Customers /\ k \in Row  BY <1>1, KnownIs
  <1>3. SaveColumns(s, c, r, install)  BY DEF MarkLine
  <1> HIDE DEF k
  <1>4. r \in Row /\ r.status = k.status /\ r.dated = k.dated  BY <1>2 DEF Row
  <1> HIDE DEF r
  <1>5. PICK r2 \in Row : /\ AfterCustomer(s, c, r, r2) /\ r2.status = row[c].status
                          /\ r2.dated = (row[c].dated /\ r.status # "suspended")
    BY <1>1, <1>2, <1>3, <1>4, SaveColumnsIs
  <1> QED  BY <1>1, <1>4, <1>5 DEF k

LEMMA TouchCustomerIs ==
    ASSUME Inv, NEW s \in Threads, TouchCustomer(s)
    PROVE  s \in Busy /\ UNCHANGED Crewless
           /\ \E r, r2 \in Row : /\ AfterCustomer(s, session[s].cust, r, r2)
                                 /\ r.status = Known(s, session[s].cust).status
                                 /\ r.dated = Known(s, session[s].cust).dated
                                 /\ r2.status = row[session[s].cust].status
                                 /\ r2.dated = (row[session[s].cust].dated /\ r.status # "suspended")
  <1> DEFINE c == session[s].cust
             k == Known(s, c)
  <1>1. s \in Busy /\ UNCHANGED Crewless  BY DEF TouchCustomer, Doing, Busy
  <1>2. c \in Customers /\ k \in Row  BY <1>1, KnownIs
  <1>3. SaveColumns(s, c, k, row[c].install) /\ row[c].install \in Installs
    <2>1. row[c] \in Row  BY <1>2 DEF Inv, TypeOK
    <2> QED  BY <2>1 DEF TouchCustomer, Row
  <1> HIDE DEF k
  <1>4. PICK r2 \in Row : /\ AfterCustomer(s, c, k, r2) /\ r2.status = row[c].status
                          /\ r2.dated = (row[c].dated /\ k.status # "suspended")
    BY <1>1, <1>2, <1>3, SaveColumnsIs
  <1> QED  BY <1>1, <1>2, <1>4 DEF k

\* A save of the whole row that activates no line.
LEMMA SaveAsReadIs ==
    ASSUME Inv, NEW s \in Threads, SaveAsRead(s)
    PROVE  s \in Busy /\ UNCHANGED Crewless
           /\ \E r, r2 \in Row : /\ AfterCustomer(s, session[s].cust, r, r2)
                                 /\ r = Known(s, session[s].cust)
                                 /\ r2.status = r.status
                                 /\ r2.dated = (r.dated /\ r.status # "suspended")
  <1> DEFINE c == session[s].cust
             k == Known(s, c)
  <1>1. s \in Busy /\ UNCHANGED Crewless  BY DEF SaveAsRead, Doing, Busy
  <1>2. c \in Customers /\ k \in Row  BY <1>1, KnownIs
  <1>3. SaveCustomer(s, c, k)  BY DEF SaveAsRead
  <1> HIDE DEF k
  <1>4. PICK r2 \in Row : /\ AfterCustomer(s, c, k, r2) /\ r2.status = k.status
                          /\ r2.dated = (k.dated /\ k.status # "suspended")
    BY <1>1, <1>2, <1>3, SaveCustomerIs
  <1> QED  BY <1>1, <1>2, <1>4 DEF k

\* A save of the whole row that may.
LEMMA ActivatingIs ==
    ASSUME Inv, NEW s \in Threads, ApproveCustomer(s) \/ RecordCustomer(s)
    PROVE  s \in Busy /\ UNCHANGED Crewless
           /\ \E r, r2 \in Row :
                 LET k == Known(s, session[s].cust)
                 IN  /\ AfterCustomer(s, session[s].cust, r, r2)
                     /\ r.status = IF k.dated \/ session[s].cust \in paid THEN "active" ELSE k.status
                     /\ r.dated = k.dated
                     /\ r2.status = r.status
                     /\ r2.dated = (r.dated /\ r.status # "suspended")
  <1> DEFINE c == session[s].cust
             k == Known(s, c)
             a == Activated(c, k)
             b == [a EXCEPT !.since = TRUE]
  <1>1. s \in Busy /\ UNCHANGED Crewless  BY DEF ApproveCustomer, RecordCustomer, Doing, Busy
  <1>2. c \in Customers /\ k \in Row  BY <1>1, KnownIs
  <1>3. SaveCustomer(s, c, b) \/ SaveCustomer(s, c, a)  BY DEF ApproveCustomer, RecordCustomer
  <1> HIDE DEF k
  <1>4. /\ a \in Row /\ a.dated = k.dated
        /\ a.status = IF k.dated \/ c \in paid THEN "active" ELSE k.status
    BY <1>2, ActivatedIs
  <1> HIDE DEF a
  <1>5. b \in Row /\ b.dated = a.dated /\ b.status = a.status  BY <1>4 DEF Row
  <1> HIDE DEF b
  <1>6. PICK r \in {a, b} : SaveCustomer(s, c, r)  BY <1>3
  <1>7. r \in Row /\ r.dated = k.dated /\ r.status = IF k.dated \/ c \in paid THEN "active" ELSE k.status
    BY <1>4, <1>5
  <1>8. PICK r2 \in Row : /\ AfterCustomer(s, c, r, r2) /\ r2.status = r.status
                          /\ r2.dated = (r.dated /\ r.status # "suspended")
    BY <1>1, <1>2, <1>6, <1>7, SaveCustomerIs
  <1> QED  BY <1>1, <1>7, <1>8 DEF k

LEMMA SaveInstalledIs ==
    ASSUME Inv, NEW s \in Threads, SaveInstalled(s)
    PROVE  s \in Busy /\ UNCHANGED Crewless
           /\ \E r, r2 \in Row :
                 LET k == Known(s, session[s].cust)
                 IN  /\ AfterCustomer(s, session[s].cust, r, r2)
                     /\ r.status = IF k.status = "pending" THEN "active" ELSE k.status
                     /\ r.dated
                     /\ r2.status = r.status
                     /\ r2.dated = (r.dated /\ r.status # "suspended")
  <1> DEFINE c == session[s].cust
             k == Known(s, c)
             a == InstalledRow(k)
             st == IF a.status = "pending" THEN "active" ELSE a.status
             r == [a EXCEPT !.status = st, !.dated = TRUE]
  <1>1. s \in Busy /\ UNCHANGED Crewless  BY DEF SaveInstalled, Doing, Busy
  <1>2. c \in Customers /\ k \in Row  BY <1>1, KnownIs
  <1>3. SaveCustomer(s, c, r)  BY DEF SaveInstalled
  <1> HIDE DEF k
  <1>4. a \in Row /\ a.status = k.status  BY <1>2, InstalledRowIs
  <1> HIDE DEF a
  <1>5. st \in {"new", "pending", "active", "suspended"}  BY <1>4 DEF Row
  <1> HIDE DEF st
  <1>6. r \in Row /\ r.status = st /\ r.dated  BY <1>4, <1>5 DEF Row
  <1> HIDE DEF r
  <1>7. PICK r2 \in Row : /\ AfterCustomer(s, c, r, r2) /\ r2.status = r.status
                          /\ r2.dated = (r.dated /\ r.status # "suspended")
    BY <1>1, <1>2, <1>3, <1>6, SaveCustomerIs
  <1> QED  BY <1>1, <1>4, <1>6, <1>7 DEF k, st

\* The ticket a form completes, with the number the helper finds.
LEMMA CompleteFirstIs ==
    ASSUME Inv, NEW s \in Threads, CompleteFirst(s)
    PROVE  /\ s \in Busy /\ Stepped(s)
           /\ \/ UNCHANGED <<row, paid, ticket>> /\ Continue(s, <<>>, session[s].seen)
              \/ \E table \in Seq(Ticket), t \in Ticket :
                    /\ Len(table) = Len(ticket) /\ t.cust = session[s].cust /\ UNCHANGED Crewless
                    /\ AfterSave(s, table, t, row[session[s].cust])
  <1> DEFINE c == session[s].cust
             left == {i \in DOMAIN ticket : ticket[i].cust = c /\ ticket[i].status \in Unfinished}
             h == Highest(left)
             t == [ticket[h] EXCEPT !.status = "COMPLETED"]
             table == [ticket EXCEPT ![h] = t]
  <1>1. s \in Busy /\ UNCHANGED Crewless  BY DEF CompleteFirst, Doing, Busy
  <1>2. c \in Customers /\ session[s].seen \in Row \cup {Unread}  BY <1>1, KnownIs
  <1>3. row[c] \in Row /\ row \in [Customers -> Row]  BY <1>2 DEF Inv, TypeOK
  <1>4. CASE left = {}
    <2>1. Continue(s, <<>>, session[s].seen) /\ UNCHANGED <<row, ticket>>
      BY <1>4 DEF CompleteFirst
    <2>2. Steady(s)  BY <1>1, <1>2, <2>1, ContinueIs
    <2>3. TicketsMove(s) /\ CrewTyped'
      BY <1>1, <2>1, NoTicketMoves, CrewStays
    <2> QED  BY <1>1, <1>3, <2>1, <2>2, <2>3 DEF Stepped, Crewless
  <1>5. CASE left # {}
    <2>1. /\ DOMAIN ticket = 1 .. Len(ticket) /\ Len(ticket) \in Nat /\ ticket \in Seq(Ticket)
          /\ \A i \in 1 .. Len(ticket) : ticket[i] \in Ticket
      BY TablesAre DEF Inv, TypeOK
    <2>2. AfterSave(s, table, t, row[c])  BY <1>5 DEF CompleteFirst
    <2>3. left \in SUBSET Nat /\ \A m \in left : m <= Len(ticket)  BY <2>1
    <2>4. h \in 1 .. Len(ticket) /\ ticket[h].cust = c
      <3>1. h \in left
        <4> HIDE DEF left
        <4> QED  BY <1>5, <2>1, <2>3, HighestIs
      <3> HIDE DEF h
      <3> QED  BY <2>1, <3>1
    <2> HIDE DEF h, left
    <2>5. t \in Ticket /\ t.cust = c /\ Reported(t, ticket[h])
      <3>1. ticket[h] \in Ticket /\ "COMPLETED" \in Status  BY <2>1, <2>4 DEF Status
      <3> QED  BY <2>4, <3>1, SetStatusType, StatusCopy, CompletedIs
    <2> HIDE DEF t
    <2>6. /\ table \in Seq(Ticket) /\ Len(table) = Len(ticket)
          /\ \A k \in 1 .. Len(ticket) : table[k] = IF k = h THEN t ELSE ticket[k]
      BY <2>1, <2>4, <2>5, ExceptSeq
    <2> HIDE DEF table
    <2>7. /\ row' \in [Customers -> Row] /\ ticket' \in Seq(Ticket) /\ Len(ticket') = Len(ticket)
          /\ \A k \in 1 .. Len(ticket) : Reported(ticket'[k], table[k])
          /\ Steady(s)
      BY <1>1, <1>3, <2>2, <2>5, <2>6, AfterSaveIs
    <2>8. \A k \in 1 .. Len(ticket) : Reported(ticket'[k], ticket[k])
      <3> SUFFICES ASSUME NEW k \in 1 .. Len(ticket) PROVE Reported(ticket'[k], ticket[k])  OBVIOUS
      <3>1. CASE k = h  BY <2>5, <2>6, <2>7, <3>1, ReportedAgain
      <3>2. CASE k # h  BY <2>6, <2>7, <3>2
      <3> QED  BY <3>1, <3>2
    <2>9. Stepped(s)  BY <1>1, <2>7, <2>8, CrewStays, TicketsStay DEF Stepped
    <2> QED  BY <1>1, <2>2, <2>5, <2>6, <2>9
  <1> QED  BY <1>4, <1>5

LEMMA SavePaymentIs ==
    ASSUME Inv, NEW s \in Threads, SavePayment(s)
    PROVE  /\ s \in Busy /\ Stepped(s) /\ paid \subseteq paid' /\ row' = row
           /\ session'[s] = Idle \/ session'[s].seen = session[s].seen
  <1>1. s \in Busy  BY DEF SavePayment, Doing, Busy
  <1>2. session[s].cust \in Customers /\ session[s].seen \in Row \cup {Unread}  BY <1>1, KnownIs
  <1>3. /\ \E money \in BOOLEAN : paid' = IF money THEN paid \cup {session[s].cust} ELSE paid
        /\ Continue(s, <<>>, session[s].seen) /\ UNCHANGED <<row, ticket, attempts, crew, seats>>
    BY DEF SavePayment
  <1>4. paid \subseteq paid' /\ paid' \subseteq Customers  BY <1>2, <1>3 DEF Inv, TypeOK
  <1>5. Steady(s) /\ (session'[s] = Idle \/ session'[s].seen = session[s].seen)
    BY <1>1, <1>2, <1>3, ContinueIs
  <1>6. CrewTyped'  BY <1>3, <1>4 DEF CrewTyped, SeatsBounded, Inv, TypeOK
  <1>7. TicketsMove(s)  BY <1>3, NoTicketMoves
  <1> QED  BY <1>1, <1>3, <1>4, <1>5, <1>6, <1>7 DEF Stepped, Inv, TypeOK

LEMMA CompleteAllIs ==
    ASSUME Inv, NEW s \in Threads, CompleteAll(s)
    PROVE  /\ s \in Busy /\ Stepped(s) /\ UNCHANGED <<paid, row>>
           /\ session'[s] = Idle \/ session'[s].seen = session[s].seen
  <1> DEFINE c == session[s].cust
  <1>1. s \in Busy  BY DEF CompleteAll, Doing, Busy
  <1>2. c \in Customers /\ session[s].seen \in Row \cup {Unread}  BY <1>1, KnownIs
  <1>3. ticket' = Completed(c, ticket) /\ Continue(s, <<>>, session[s].seen)
        /\ UNCHANGED <<row, paid, attempts, crew, seats>>
    BY DEF CompleteAll
  <1>4. ticket \in Seq(Ticket)  BY DEF Inv, TypeOK
  <1>5. /\ ticket' \in Seq(Ticket) /\ Len(ticket') = Len(ticket)
        /\ \A i \in 1 .. Len(ticket) : \/ ticket'[i] = ticket[i]
                                       \/ ticket'[i] = [ticket[i] EXCEPT !.status = "COMPLETED"]
    BY <1>2, <1>3, <1>4, CompletedType
  <1>6. \A i \in 1 .. Len(ticket) : ticket[i] \in Ticket /\ Reported(ticket[i], ticket[i])
    BY TablesAre DEF Reported, SameRecord
  <1>7. \A i \in 1 .. Len(ticket) : Reported(ticket'[i], ticket[i])  BY <1>5, <1>6, CompletedIs
  <1>8. Steady(s) /\ (session'[s] = Idle \/ session'[s].seen = session[s].seen)
    BY <1>1, <1>2, <1>3, ContinueIs
  <1>9. CrewTyped'  BY <1>3, <1>5, CrewStays DEF Crewless
  <1>10. TicketsMove(s)  BY <1>5, <1>7, TicketsStay
  <1> QED  BY <1>1, <1>3, <1>8, <1>9, <1>10 DEF Stepped, Inv, TypeOK

LEMMA StepIs ==
    ASSUME Inv, NEW s \in Threads, Step(s)
    PROVE  Stepped(s) /\ s \in Busy
  <1>0. {"installed", "closed_not_installed", "pending_installation"} \subseteq Installs  BY DEF Installs
  <1>1. ASSUME NEW r \in Row, NEW r2 \in Row, AfterCustomer(s, session[s].cust, r, r2),
               UNCHANGED Crewless, s \in Busy
        PROVE  Stepped(s)
    BY <1>1, KnownIs, CustomerStep
  <1>2. ASSUME \/ MarkLine(s, "install", "installed") \/ MarkLine(s, "close", "closed_not_installed")
               \/ MarkLine(s, "reopen", "pending_installation")
        PROVE  Stepped(s) /\ s \in Busy
    BY <1>0, <1>1, <1>2, MarkLineIs
  <1>3. CASE TouchCustomer(s)  BY <1>1, <1>3, TouchCustomerIs
  <1>4. CASE ApproveCustomer(s) \/ RecordCustomer(s)  BY <1>1, <1>4, ActivatingIs
  <1>5. CASE SaveAsRead(s)  BY <1>1, <1>5, SaveAsReadIs
  <1>6. CASE SaveInstalled(s)  BY <1>1, <1>6, SaveInstalledIs
  <1>7. CASE SaveSeats(s, "rows") \/ SaveSeats(s, "retire") \/ SaveSeats(s, "current")
    BY <1>7, SaveSeatsIs
  <1>8. CASE SaveTicket(s) \/ SaveCalls(s) \/ SaveAttempt(s) \/ SavePlace(s) \/ SaveCrew(s)
    BY <1>8, SaveTicketIs, SaveCallsIs, SaveAttemptIs, SavePlaceIs, SaveCrewIs
  <1>9. CASE SaveHandover(s) \/ CreateTicket(s) \/ CompleteFirst(s) \/ SavePayment(s) \/ CompleteAll(s)
    BY <1>9, SaveHandoverIs, CreateTicketIs, CompleteFirstIs, SavePaymentIs, CompleteAllIs
  <1> QED  BY <1>2, <1>3, <1>4, <1>5, <1>6, <1>7, <1>8, <1>9 DEF Step

LEMMA SteppedInv ==
    ASSUME Inv, NEW s \in Threads, s \in Busy, Stepped(s)
    PROVE  Inv'
  <1>1. Len(ticket') \in Nat /\ Len(ticket') >= Len(ticket)
    <2>1. Len(ticket) \in Nat  BY TablesAre
    <2>2. Len(ticket') \in {Len(ticket), Len(ticket) + 1}  BY DEF Stepped, TicketsMove
    <2> QED  BY <2>1, <2>2
  <1>2. SessionsSound' /\ \A q \in Busy' : session'[q].id \in 0 .. Len(ticket')
    BY <1>1, SteadySound DEF Stepped
  <1> QED  BY <1>2 DEF Stepped, TicketsMove, CrewTyped, Steady, Inv, TypeOK

LEMMA BegunInv ==
    ASSUME Inv, NEW s \in Threads, NEW h, Begun(s, h)
    PROVE  Inv'
  <1> DEFINE j == session'[s]
  <1>1. /\ h \in duty /\ session' = [session EXCEPT ![s] = j] /\ UNCHANGED <<Tables, duty>>
        /\ j \in Job /\ j.id \in 0 .. Len(ticket) /\ j.job.cust = j.cust
        /\ Plans(h, j.todo, j.team)
    BY DEF Begun
  <1>2. session \in [Threads -> Job \cup {Idle}]  BY DEF Inv, TypeOK
  <1> HIDE DEF j
  <1>3. session' \in [Threads -> Job \cup {Idle}] /\ session'[s] = j
        /\ \A q \in Threads \ {s} : session'[q] = session[q]
    BY <1>1, <1>2
  <1>4. Planned(j) /\ j.todo # <<>>
    <2>1. duty \cap Activating = {} => h \notin Activating  BY <1>1
    <2> QED  BY <1>1, <2>1 DEF Plans, Planned
  <1>5. ASSUME NEW q \in Threads PROVE Sound(session[q])'
    <2>1. Planned(session[q])' <=> Planned(session'[q])  BY <1>1 DEF Planned
    <2>2. CASE q = s  BY <1>1, <1>3, <1>4, <2>1, <2>2 DEF Sound, Tables
    <2>3. CASE q # s
      <3>1. session'[q] = session[q] /\ Sound(session[q])  BY <1>3, <2>3 DEF Inv, SessionsSound
      <3> QED  BY <1>1, <2>1, <3>1 DEF Sound, Tables
    <2> QED  BY <2>2, <2>3
  <1>6. SessionsSound'  BY <1>5 DEF SessionsSound
  <1>7. ASSUME NEW q \in Busy' PROVE session'[q].id \in 0 .. Len(ticket')
    <2>1. q \in Threads /\ session'[q].todo # <<>>  BY DEF Busy
    <2>2. session'[q] # Idle  BY <2>1 DEF Idle
    <2> QED  BY <1>6, <2>1, <2>2 DEF SessionsSound, Sound
  <1> QED  BY <1>1, <1>3, <1>6, <1>7 DEF Inv, TypeOK, SeatsBounded, Tables
-----------------------------------------------------------------------------
(* Requests of one transaction *)

\* Where a row of the new table comes from when no copy is saved.
Placed(i, u) ==
    \/ i \in 1 .. Len(ticket) /\ SameRecord(u, ticket[i])
                              /\ \/ u.status \in {ticket[i].status, "COMPLETED"}
                                 \/ u.status = "DELETED" /\ "delete" \in duty
    \/ i = Len(ticket) + 1 /\ \E c \in Customers, kind \in Types : u = NewTicket(c, kind)

AtOnce ==
    /\ row' \in [Customers -> Row]
    /\ ticket' \in Seq(Ticket)
    /\ Len(ticket') \in {Len(ticket), Len(ticket) + 1}
    /\ \A i \in 1 .. Len(ticket') : Placed(i, ticket'[i])
    /\ CrewTyped'
    /\ UNCHANGED <<session, duty>>

\* Only a deletion touches the crew of a ticket there is.
KeepsCrews ==
    /\ \A i \in 1 .. Len(ticket) : crew'[i] = crew[i] /\ seats'[i] = seats[i]
    /\ \A i \in 1 .. Len(ticket') : crew'[i] # {} => i \in 1 .. Len(ticket)
CrewsKept == "delete" \in duty \/ KeepsCrews

LEMMA InsertAtOnce ==
    ASSUME Inv, NEW c \in Customers, NEW kind \in Types, Insert(NewTicket(c, kind), ticket), paid' \subseteq Customers
    PROVE  /\ ticket' \in Seq(Ticket) /\ Len(ticket') = Len(ticket) + 1
           /\ \A i \in 1 .. Len(ticket') : Placed(i, ticket'[i])
           /\ CrewTyped' /\ CrewsKept
  <1>1. /\ ticket' \in Seq(Ticket) /\ Len(ticket') = Len(ticket) + 1
        /\ \A i \in 1 .. Len(ticket) : ticket'[i] = ticket[i]
        /\ ticket'[Len(ticket) + 1] = NewTicket(c, kind)
        /\ CrewTyped'
        /\ \A i \in 1 .. Len(ticket) : crew'[i] = crew[i] /\ seats'[i] = seats[i]
        /\ crew'[Len(ticket) + 1] = {}
    BY InsertIs
  <1>2. Len(ticket) \in Nat  BY TablesAre
  <1>3. \A i \in 1 .. Len(ticket) : Placed(i, ticket'[i])  BY <1>1 DEF Placed, SameRecord
  <1>4. Placed(Len(ticket) + 1, ticket'[Len(ticket) + 1])  BY <1>1 DEF Placed
  <1>5. \A i \in 1 .. Len(ticket') : i \in 1 .. Len(ticket) \/ i = Len(ticket) + 1  BY <1>1, <1>2
  <1> QED  BY <1>1, <1>3, <1>4, <1>5 DEF CrewsKept, KeepsCrews

LEMMA AnnounceIs ==
    ASSUME Inv, NEW c \in Customers, NEW r \in Row, Announce(c, r), paid' \subseteq Customers
    PROVE  /\ AtOnce /\ CrewsKept
           /\ \A d \in Customers \ {c} : row'[d] = row[d]
           /\ row'[c].status = r.status /\ row'[c].dated = r.dated
  <1> DEFINE since == r.since \/ Settles(c, r)
             r2 == [r EXCEPT !.since = since]
  <1>1. since \in BOOLEAN  BY DEF Settles, Row, LineIn
  <1>2. row' = [row EXCEPT ![c] = r2] /\ UNCHANGED <<session, duty>>  BY DEF Announce
  <1> HIDE DEF since
  <1>3. r2 \in Row /\ r2.status = r.status /\ r2.dated = r.dated  BY <1>1 DEF Row
  <1> HIDE DEF r2
  <1>4. row \in [Customers -> Row]  BY DEF Inv, TypeOK
  <1>5. /\ row' \in [Customers -> Row]
        /\ \A d \in Customers \ {c} : row'[d] = row[d]
        /\ row'[c].status = r.status /\ row'[c].dated = r.dated
    BY <1>2, <1>3, <1>4
  <1>6. CASE Wanted(c, r, ticket)
    <2>1. Insert(NewTicket(c, "INSTALLATION"), ticket)  BY <1>6 DEF Announce
    <2>2. "INSTALLATION" \in Types  BY DEF Types
    <2> QED  BY <1>2, <1>5, <2>1, <2>2, InsertAtOnce DEF AtOnce
  <1>7. CASE ~Wanted(c, r, ticket)
    <2>1. ticket' = Settled(c, r, ticket) /\ UNCHANGED <<attempts, crew, seats>>
      BY <1>7 DEF Announce
    <2>2. ticket \in Seq(Ticket)  BY DEF Inv, TypeOK
    <2>3. /\ ticket' \in Seq(Ticket) /\ Len(ticket') = Len(ticket)
          /\ \A i \in 1 .. Len(ticket) : \/ ticket'[i] = ticket[i]
                                         \/ ticket'[i] = [ticket[i] EXCEPT !.status = "COMPLETED"]
      BY <2>1, <2>2, SettledType
    <2>4. \A i \in 1 .. Len(ticket) : ticket[i] \in Ticket /\ Reported(ticket[i], ticket[i])
      BY TablesAre DEF Reported, SameRecord
    <2>5. \A i \in 1 .. Len(ticket) : Reported(ticket'[i], ticket[i])  BY <2>3, <2>4, CompletedIs
    <2>6. \A i \in 1 .. Len(ticket') : Placed(i, ticket'[i])  BY <2>3, <2>5 DEF Placed, Reported
    <2>7. CrewTyped'  BY <2>1, <2>3 DEF CrewTyped, SeatsBounded, Inv, TypeOK
    <2>8. CrewsKept  BY <2>1, <2>3 DEF CrewsKept, KeepsCrews
    <2> QED  BY <1>2, <1>5, <2>3, <2>6, <2>7, <2>8 DEF AtOnce
  <1> QED  BY <1>6, <1>7

LEMMA CreateJobIs ==
    ASSUME Inv, NEW c \in Customers, NEW kind \in Kinds, CreateJob(c, kind)
    PROVE  AtOnce /\ CrewsKept /\ UNCHANGED <<row, paid>>
  <1>1. Insert(NewTicket(c, kind), ticket) /\ UNCHANGED <<row, paid, session, duty>>
    BY DEF CreateJob
  <1>2. kind \in Types /\ paid' \subseteq Customers /\ row' \in [Customers -> Row]
    BY <1>1, DispatchAssumption DEF Inv, TypeOK
  <1> QED  BY <1>1, <1>2, InsertAtOnce DEF AtOnce

LEMMA DeleteJobIs ==
    ASSUME Inv, NEW i \in DOMAIN ticket, DeleteJob(i)
    PROVE  AtOnce /\ CrewsKept /\ UNCHANGED <<row, paid>>
  <1> DEFINE x == [ticket[i] EXCEPT !.status = "DELETED"]
  <1>1. /\ ticket' = [ticket EXCEPT ![i].status = "DELETED"] /\ attempts' = [attempts EXCEPT ![i] = 0]
        /\ crew' = [crew EXCEPT ![i] = {}] /\ seats' = [seats EXCEPT ![i] = {}]
        /\ UNCHANGED <<row, paid, session, duty>> /\ "delete" \in duty
    BY DEF DeleteJob
  <1>2. /\ ticket \in Seq(Ticket) /\ attempts \in Seq(Nat) /\ Len(attempts) = Len(ticket)
        /\ i \in 1 .. Len(ticket) /\ ticket[i] \in Ticket /\ Len(ticket) \in Nat
        /\ row \in [Customers -> Row] /\ paid \subseteq Customers
    BY TablesAre DEF Inv, TypeOK
  <1>3. x \in Ticket /\ SameRecord(x, ticket[i]) /\ x.status = "DELETED"
    BY <1>2 DEF Ticket, SameRecord
  <1>4. ticket' = [ticket EXCEPT ![i] = x]  BY <1>1, <1>2
  <1> HIDE DEF x
  <1>5. /\ ticket' \in Seq(Ticket) /\ Len(ticket') = Len(ticket)
        /\ \A k \in 1 .. Len(ticket) : ticket'[k] = IF k = i THEN x ELSE ticket[k]
    BY <1>2, <1>3, <1>4, ExceptSeq
  <1>6. \A k \in 1 .. Len(ticket') : Placed(k, ticket'[k])
    <2> SUFFICES ASSUME NEW k \in 1 .. Len(ticket) PROVE Placed(k, ticket'[k])  BY <1>5
    <2>1. CASE k = i  BY <1>1, <1>3, <1>5, <2>1 DEF Placed
    <2>2. CASE k # i  BY <1>5, <2>2 DEF Placed, SameRecord
    <2> QED  BY <2>1, <2>2
  <1>7. attempts' \in Seq(Nat) /\ Len(attempts') = Len(attempts)
    <2>1. 0 \in Nat /\ i \in 1 .. Len(attempts)  BY <1>2
    <2> QED  BY <1>1, <1>2, <2>1, ExceptSeq
  <1>8. crew' \in Seq(SUBSET Techs) /\ Len(crew') = Len(ticket)
    <2>1. {} \in SUBSET Techs  OBVIOUS
    <2> QED  BY <1>1, <1>2, <2>1, CrewWritten
  <1>9. seats' \in Seq(SUBSET Seat) /\ Len(seats') = Len(ticket) /\ SeatsBounded'
    <2>1. {} \in SUBSET Seat /\ Bounded({})
      <3>1. 0 \in Nat  OBVIOUS
      <3> QED  BY <3>1 DEF Bounded
    <2> QED  BY <1>1, <1>2, <2>1, SeatsWritten
  <1>10. CrewTyped'  BY <1>1, <1>2, <1>5, <1>7, <1>8, <1>9 DEF CrewTyped
  <1> QED  BY <1>1, <1>2, <1>5, <1>6, <1>10 DEF AtOnce, CrewsKept, KeepsCrews

LEMMA AddCustomerIs ==
    ASSUME Inv, NEW c \in Customers, NEW dated \in BOOLEAN, NEW since \in BOOLEAN,
           AddCustomer(c, dated, since)
    PROVE  /\ AtOnce /\ CrewsKept /\ paid' = paid
           /\ \A d \in Customers \ {c} : row'[d] = row[d]
           /\ row'[c].status = "pending"
  <1> DEFINE r == [status |-> "pending", install |-> "pending", dated |-> dated, since |-> since]
  <1>1. Announce(c, r) /\ paid' = paid  BY DEF AddCustomer
  <1>2. r \in Row /\ r.status = "pending"  BY DEF Row, Installs
  <1> HIDE DEF r
  <1>3. paid' \subseteq Customers  BY <1>1 DEF Inv, TypeOK
  <1> QED  BY <1>1, <1>2, <1>3, AnnounceIs

LEMMA PayIs ==
    ASSUME Inv, NEW c \in Customers, Pay(c)
    PROVE  /\ AtOnce /\ CrewsKept /\ paid' = paid \cup {c}
           /\ \A d \in Customers \ {c} : row'[d] = row[d]
           /\ row'[c].status = "active" /\ row'[c].dated
  <1> DEFINE r == [row[c] EXCEPT !.status = "active", !.dated = TRUE]
  <1>1. Announce(c, r) /\ paid' = paid \cup {c}  BY DEF Pay
  <1>2. row[c] \in Row /\ paid' \subseteq Customers  BY <1>1 DEF Inv, TypeOK
  <1>3. r \in Row /\ r.status = "active" /\ r.dated  BY <1>2 DEF Row
  <1> HIDE DEF r
  <1> QED  BY <1>1, <1>2, <1>3, AnnounceIs

LEMMA SuspendIs ==
    ASSUME Inv, NEW c \in Customers, Suspend(c)
    PROVE  /\ AtOnce /\ CrewsKept /\ paid' = paid /\ "suspend" \in duty
           /\ \A d \in Customers \ {c} : row'[d] = row[d]
           /\ row[c].status = "active" /\ row'[c].status = "suspended"
  <1> DEFINE r == [row[c] EXCEPT !.status = "suspended", !.dated = FALSE]
  <1>1. Announce(c, r) /\ paid' = paid /\ "suspend" \in duty /\ row[c].status = "active"  BY DEF Suspend
  <1>2. row[c] \in Row /\ paid' \subseteq Customers  BY <1>1 DEF Inv, TypeOK
  <1>3. r \in Row /\ r.status = "suspended"  BY <1>2 DEF Row
  <1> HIDE DEF r
  <1> QED  BY <1>1, <1>2, <1>3, AnnounceIs

\* The next-state relation, by the kind of its steps.
LEMMA NextIs ==
    ASSUME Inv, [Next]_vars
    PROVE  \/ \E s \in Threads : s \in Busy /\ Step(s) /\ Stepped(s)
           \/ \E s \in Threads, h \in duty : Begun(s, h)
           \/ AtOnce /\ CrewsKept /\ UNCHANGED <<row, paid>>
           \/ \E c \in Customers, dated \in BOOLEAN, since \in BOOLEAN : AddCustomer(c, dated, since)
           \/ \E c \in Customers : Pay(c) \/ Suspend(c)
           \/ UNCHANGED vars
  <1>1. ASSUME NEW s \in Threads, NEW i \in DOMAIN ticket, Dispatching(s, i) \/ InTheField(s, i) \/ Reviewing(s, i)
        PROVE  \E h \in duty : Begun(s, h)
    BY <1>1, DispatchingIs, InTheFieldIs, ReviewingIs
  <1>2. CASE \E s \in Threads : Step(s)  BY <1>2, StepIs
  <1>3. CASE \E s \in Threads, i \in DOMAIN ticket : Dispatching(s, i) \/ InTheField(s, i) \/ Reviewing(s, i)
    BY <1>1, <1>3
  <1>4. CASE \E s \in Threads, c \in Customers : ForCustomer(s, c)  BY <1>4, ForCustomerIs
  <1>5. CASE \E c \in Customers, kind \in Kinds : CreateJob(c, kind)  BY <1>5, CreateJobIs
  <1>6. CASE \E i \in DOMAIN ticket : DeleteJob(i)  BY <1>6, DeleteJobIs
  <1>7. CASE AtRest \/ UNCHANGED vars  BY <1>7 DEF AtRest
  <1>8. CASE \E c \in Customers, dated, since \in BOOLEAN : AddCustomer(c, dated, since)  BY <1>8
  <1>9. CASE \E c \in Customers : Pay(c) \/ Suspend(c)  BY <1>9
  <1>10. Next \/ UNCHANGED vars  OBVIOUS
  <1> QED  BY <1>2, <1>3, <1>4, <1>5, <1>6, <1>7, <1>8, <1>9, <1>10 DEF Next

LEMMA AtOnceInv ==
    ASSUME Inv, AtOnce
    PROVE  Inv'
  <1>1. Len(ticket) \in Nat /\ Len(ticket') \in Nat /\ Len(ticket') >= Len(ticket)
    <2>1. Len(ticket) \in Nat  BY TablesAre
    <2> QED  BY <2>1 DEF AtOnce
  <1>2. ASSUME NEW q \in Threads PROVE Sound(session[q])'
    <2>1. session'[q] = session[q] /\ duty' = duty /\ Sound(session[q])  BY DEF AtOnce, Inv, SessionsSound
    <2>2. Planned(session[q])' <=> Planned(session[q])  BY <2>1 DEF Planned
    <2> QED  BY <1>1, <2>1, <2>2 DEF Sound
  <1>3. SessionsSound'  BY <1>2 DEF SessionsSound
  <1>4. ASSUME NEW q \in Busy' PROVE session'[q].id \in 0 .. Len(ticket')
    <2>1. q \in Threads /\ session'[q].todo # <<>>  BY DEF Busy
    <2>2. session'[q] # Idle  BY <2>1 DEF Idle
    <2> QED  BY <1>3, <2>1, <2>2 DEF SessionsSound, Sound
  <1>5. session' \in [Threads -> Job \cup {Idle}]  BY DEF AtOnce, Inv, TypeOK
  <1> QED  BY <1>3, <1>4, <1>5 DEF AtOnce, CrewTyped, Inv, TypeOK

LEMMA InitInv == Init => Inv
  <1> SUFFICES ASSUME Init PROVE Inv  OBVIOUS
  <1>1. row \in [Customers -> Row] /\ paid \subseteq Customers  BY DispatchAssumption DEF Init
  <1>2. ticket = <<>> /\ attempts = <<>> /\ crew = <<>> /\ seats = <<>>
        /\ session = [s \in Threads |-> Idle]
    BY DEF Init
  <1>3. <<>> \in Seq(Ticket) /\ <<>> \in Seq(Nat) /\ <<>> \in Seq(SUBSET Techs) /\ <<>> \in Seq(SUBSET Seat)
    BY EmptySeq
  <1>4. Len(ticket) = 0 /\ Len(attempts) = 0 /\ Len(crew) = 0 /\ Len(seats) = 0  BY <1>2, EmptySeq
  <1>5. Busy = {}  BY <1>2 DEF Busy, Idle
  <1>6. SessionsSound /\ session \in [Threads -> Job \cup {Idle}]  BY <1>2 DEF SessionsSound, Sound
  <1>7. SeatsBounded  BY <1>4 DEF SeatsBounded
  <1>8. TypeOK  BY <1>1, <1>2, <1>3, <1>4, <1>5, <1>6 DEF TypeOK
  <1> QED  BY <1>6, <1>7, <1>8 DEF Inv

LEMMA NextInv == Inv /\ [Next]_vars => Inv'
  <1> SUFFICES ASSUME Inv, [Next]_vars PROVE Inv'  OBVIOUS
  <1>1. CASE \E s \in Threads : s \in Busy /\ Step(s) /\ Stepped(s)  BY <1>1, SteppedInv
  <1>2. CASE \E s \in Threads, h \in duty : Begun(s, h)  BY <1>2, BegunInv
  <1>3. CASE AtOnce  BY <1>3, AtOnceInv
  <1>4. CASE \E c \in Customers, dated \in BOOLEAN, since \in BOOLEAN : AddCustomer(c, dated, since)
    BY <1>4, AddCustomerIs, AtOnceInv
  <1>5. CASE \E c \in Customers : Pay(c) \/ Suspend(c)  BY <1>5, PayIs, SuspendIs, AtOnceInv
  <1>6. CASE UNCHANGED vars
    BY <1>6 DEF vars, Inv, TypeOK, SessionsSound, Sound, Planned, SeatsBounded, Busy
  <1> QED  BY <1>1, <1>2, <1>3, <1>4, <1>5, <1>6, NextIs

THEOREM InvCorrect == Spec => []Inv
  BY InitInv, NextInv, PTL DEF Spec

\* The tables keep their types and their common length, and every request under
\* way saves a ticket that has existed, for the customer it belongs to.
THEOREM TypeCorrect == Spec => []TypeOK
  <1>1. Inv => TypeOK  BY DEF Inv
  <1> QED  BY <1>1, InvCorrect, PTL
-----------------------------------------------------------------------------
(* What a review may not lose: the flags and the signature *)

LEMMA NewTicketClean ==
    ASSUME NEW c, NEW kind
    PROVE  Flagged(NewTicket(c, kind)) /\ Signed(NewTicket(c, kind))
  BY DEF NewTicket, Flagged, Signed

LEMMA SameFlags ==
    ASSUME NEW t, NEW u, SameRecord(u, t), Flagged(t)
    PROVE  Flagged(u)
  BY DEF SameRecord, Flagged

LEMMA SameSignature ==
    ASSUME NEW t, NEW u, SameRecord(u, t), Signed(t), u.status \in {t.status, "COMPLETED", "DELETED"}
    PROVE  Signed(u)
  BY DEF SameRecord, Signed

\* Tickets and copies of requests alike carry their flags: a lost update puts
\* back the counter and the alert of one moment together.
FlagInv ==
    /\ Inv
    /\ PatternsFlagged
    /\ \A s \in Busy : Flagged(session[s].job)

LEMMA CopiesOfSteps ==
    ASSUME Inv, NEW s \in Threads, s \in Busy, Steady(s), NEW q \in Busy'
    PROVE  q \in Busy /\ session'[q].job = session[q].job
  <1>1. q \in Threads /\ session'[q].todo # <<>>  BY DEF Busy
  <1>2. session'[q] # Idle  BY <1>1 DEF Idle
  <1> QED  BY <1>1, <1>2 DEF Steady, Busy

LEMMA FlagNext == FlagInv /\ [Next]_vars => FlagInv'
  <1> SUFFICES ASSUME FlagInv, [Next]_vars PROVE FlagInv'  OBVIOUS
  <1>1. Inv /\ Inv' /\ PatternsFlagged  BY NextInv DEF FlagInv
  <1>2. DOMAIN ticket = 1 .. Len(ticket) /\ DOMAIN ticket' = 1 .. Len(ticket')
    BY <1>1, LenProperties DEF Inv, TypeOK
  <1>3. \A i \in 1 .. Len(ticket) : Flagged(ticket[i])  BY <1>1, <1>2, FlaggedIs
  <1>4. (\A i \in 1 .. Len(ticket') : Flagged(ticket'[i])) => PatternsFlagged'
    BY <1>2 DEF PatternsFlagged, Flagged
  <1>5. ASSUME NEW s \in Threads, s \in Busy, Stepped(s) PROVE FlagInv'
    <2>1. Flagged(session[s].job)  BY <1>5 DEF FlagInv
    <2>2. ASSUME NEW i \in 1 .. Len(ticket') PROVE Flagged(ticket'[i])
      <3>1. Moved(s, i, ticket'[i])  BY <1>5 DEF Stepped, TicketsMove
      <3> QED  BY <1>3, <2>1, <3>1, SameFlags, NewTicketClean DEF Moved, Reported
    <2>3. ASSUME NEW q \in Busy' PROVE Flagged(session'[q].job)
      <3>1. q \in Busy /\ session'[q].job = session[q].job  BY <1>1, <1>5, CopiesOfSteps DEF Stepped
      <3> QED  BY <3>1 DEF FlagInv
    <2>4. \A q \in Busy' : Flagged(session'[q].job)  BY <2>3
    <2> QED  BY <1>1, <1>4, <2>2, <2>4 DEF FlagInv, Flagged
  <1>6. ASSUME NEW s \in Threads, NEW h \in duty, Begun(s, h) PROVE FlagInv'
    <2>1. /\ Flagged(session'[s].job) /\ session' = [session EXCEPT ![s] = session'[s]]
          /\ UNCHANGED Tables
      BY <1>1, <1>6 DEF Begun, Copies
    <2>2. ASSUME NEW q \in Busy' PROVE Flagged(session'[q].job)
      <3>1. CASE q = s  BY <2>1, <3>1
      <3>2. CASE q # s
        <4>1. session'[q] = session[q]  BY <1>1, <2>1, <3>2 DEF Inv, TypeOK, Busy
        <4> QED  BY <4>1 DEF FlagInv, Busy
      <3> QED  BY <3>1, <3>2
    <2>3. \A q \in Busy' : Flagged(session'[q].job)  BY <2>2
    <2>4. PatternsFlagged'  BY <1>1, <2>1 DEF PatternsFlagged, Tables
    <2> QED  BY <1>1, <2>3, <2>4 DEF FlagInv, Flagged
  <1>7. ASSUME AtOnce PROVE FlagInv'
    <2>1. ASSUME NEW i \in 1 .. Len(ticket') PROVE Flagged(ticket'[i])
      <3>1. Placed(i, ticket'[i])  BY <1>7 DEF AtOnce
      <3> QED  BY <1>3, <3>1, SameFlags, NewTicketClean DEF Placed
    <2>2. session' = session  BY <1>7 DEF AtOnce
    <2>3. \A q \in Busy' : Flagged(session'[q].job)  BY <2>2 DEF FlagInv, Busy
    <2> QED  BY <1>1, <1>4, <2>1, <2>3 DEF FlagInv, Flagged
  <1>8. CASE UNCHANGED vars
    BY <1>1, <1>8 DEF vars, FlagInv, PatternsFlagged, Flagged, Busy
  <1> QED  BY <1>1, <1>5, <1>6, <1>7, <1>8, NextIs, AddCustomerIs, PayIs, SuspendIs

\* Two bounces raise the alert and a second stage of one user the flag, with any
\* number of threads, users and tickets and whatever copies overwrite each other.
THEOREM FlagsHold == Spec => []PatternsFlagged
  <1>1. Init => FlagInv
    <2> SUFFICES ASSUME Init PROVE FlagInv  OBVIOUS
    <2>1. Inv /\ Busy = {} /\ DOMAIN ticket = {}
      BY InitInv, EmptySeq, LenProperties DEF Init, Busy, Idle, Inv, TypeOK
    <2> QED  BY <2>1 DEF FlagInv, PatternsFlagged
  <1>2. FlagInv => PatternsFlagged  BY DEF FlagInv
  <1> QED  BY <1>1, <1>2, FlagNext, PTL DEF Spec

\* The handlers that put the status of a form or an old copy on a ticket.
Overwriting == {"updateStatus", "edit", "replace"}

SignInv ==
    /\ Inv
    /\ duty \cap Overwriting = {} =>
          /\ SignedOff
          /\ \A s \in Busy : Signed(session[s].job)

LEMMA SignNext == SignInv /\ [Next]_vars => SignInv'
  <1> SUFFICES ASSUME SignInv, [Next]_vars PROVE SignInv'  OBVIOUS
  <1>1. Inv /\ Inv'  BY NextInv DEF SignInv
  <1>2. DOMAIN ticket = 1 .. Len(ticket) /\ DOMAIN ticket' = 1 .. Len(ticket')
    BY <1>1, LenProperties DEF Inv, TypeOK
  <1>3. duty' = duty  BY <1>1, NextIs, AddCustomerIs, PayIs, SuspendIs DEF Stepped, Steady, Begun, AtOnce, vars
  <1> SUFFICES ASSUME duty \cap Overwriting = {}
               PROVE  SignedOff' /\ \A s \in Busy' : Signed(session'[s].job)
    BY <1>1, <1>3 DEF SignInv, Signed
  <1>4. SignedOff /\ (\A s \in Busy : Signed(session[s].job))
        /\ \A i \in 1 .. Len(ticket) : Signed(ticket[i])
    BY <1>2, SignedIs DEF SignInv
  <1>5. (\A i \in 1 .. Len(ticket') : Signed(ticket'[i])) => SignedOff'
    BY <1>2 DEF SignedOff, Signed
  <1>6. ASSUME NEW s \in Threads, s \in Busy, Stepped(s)
        PROVE  SignedOff' /\ \A q \in Busy' : Signed(session'[q].job)
    <2>1. Signed(session[s].job) /\ "replace" \notin duty  BY <1>4, <1>6 DEF Overwriting
    <2>2. ASSUME NEW i \in 1 .. Len(ticket') PROVE Signed(ticket'[i])
      <3>1. Moved(s, i, ticket'[i])  BY <1>6 DEF Stepped, TicketsMove
      <3> QED  BY <1>4, <2>1, <3>1, SameSignature, NewTicketClean DEF Moved, Reported
    <2>3. ASSUME NEW q \in Busy' PROVE Signed(session'[q].job)
      <3>1. q \in Busy /\ session'[q].job = session[q].job  BY <1>1, <1>6, CopiesOfSteps DEF Stepped
      <3> QED  BY <1>4, <3>1
    <2> QED  BY <1>5, <2>2, <2>3
  <1>7. ASSUME NEW s \in Threads, NEW h \in duty, Begun(s, h)
        PROVE  SignedOff' /\ \A q \in Busy' : Signed(session'[q].job)
    <2>0. h \notin {"updateStatus", "edit"}  BY DEF Overwriting
    <2>1. /\ Signed(session'[s].job) /\ session' = [session EXCEPT ![s] = session'[s]]
          /\ UNCHANGED Tables
      BY <1>4, <1>7, <2>0 DEF Begun, Copies
    <2>2. ASSUME NEW q \in Busy' PROVE Signed(session'[q].job)
      <3>1. CASE q = s  BY <2>1, <3>1
      <3>2. CASE q # s
        <4>1. session'[q] = session[q]  BY <1>1, <2>1, <3>2 DEF Inv, TypeOK, Busy
        <4> QED  BY <1>4, <4>1 DEF Busy
      <3> QED  BY <3>1, <3>2
    <2>3. SignedOff'  BY <1>4, <2>1 DEF SignedOff, Tables
    <2> QED  BY <2>2, <2>3
  <1>8. ASSUME AtOnce PROVE SignedOff' /\ \A q \in Busy' : Signed(session'[q].job)
    <2>1. ASSUME NEW i \in 1 .. Len(ticket') PROVE Signed(ticket'[i])
      <3>1. Placed(i, ticket'[i])  BY <1>8 DEF AtOnce
      <3> QED  BY <1>4, <3>1, SameSignature, NewTicketClean DEF Placed
    <2>2. session' = session  BY <1>8 DEF AtOnce
    <2> QED  BY <1>4, <1>5, <2>1, <2>2 DEF Busy
  <1>9. CASE UNCHANGED vars
    BY <1>4, <1>9 DEF vars, SignedOff, Busy
  <1> QED  BY <1>1, <1>6, <1>7, <1>8, <1>9, NextIs, AddCustomerIs, PayIs, SuspendIs

\* Without the status buttons, the edit form and the hand-over every approved
\* ticket is signed, or is a repair QA called about that bounced once at most.
THEOREM ApprovedIsSigned == Spec => [](duty \cap Overwriting = {} => SignedOff)
  <1>1. Init => SignInv
    <2> SUFFICES ASSUME Init PROVE SignInv  OBVIOUS
    <2>1. Inv /\ Busy = {} /\ DOMAIN ticket = {}
      BY InitInv, EmptySeq, LenProperties DEF Init, Busy, Idle, Inv, TypeOK
    <2> QED  BY <2>1 DEF SignInv, SignedOff
  <1>2. SignInv => (duty \cap Overwriting = {} => SignedOff)  BY DEF SignInv
  <1> QED  BY <1>1, <1>2, SignNext, PTL DEF Spec
-----------------------------------------------------------------------------
(* Nobody surfs for free *)

\* What makes row r of customer c harmless, P being the payers and D the duty:
\* an active line is dated or paid, and one cut off, which a stale copy may
\* strip of its date once it is active again, is paid.
Free(P, D, c, r) ==
    /\ r.status = "active" => r.dated \/ c \in P
    /\ r.status = "suspended" => c \in P
    /\ "suspend" \in D /\ r.status = "active" => c \in P

\* No cut-off next to a handler that activates dated lines nobody paid for.
Covered(D) == "suspend" \in D => D \cap Activating = {}

FreeInv ==
    /\ Inv
    /\ Covered(duty) =>
          /\ \A c \in Customers : Free(paid, duty, c, row[c])
          /\ \A s \in Busy : \/ session[s].seen = Unread
                             \/ Free(paid, duty, session[s].cust, session[s].seen)

LEMMA FreeGrows ==
    ASSUME NEW P, NEW Q, P \subseteq Q, NEW D, NEW c, NEW r, Free(P, D, c, r)
    PROVE  Free(Q, D, c, r)
  BY DEF Free

\* Status and date decide.
LEMMA FreeAlike ==
    ASSUME NEW P, NEW D, NEW c, NEW r, NEW x, Free(P, D, c, r),
           x.status = r.status, x.dated = r.dated
    PROVE  Free(P, D, c, x)
  BY DEF Free

\* The rows and the copy a step leaves behind.
Harmless(s) ==
    /\ \A c \in Customers : Free(paid', duty', c, row'[c])
    /\ session'[s] = Idle \/ session'[s].seen = Unread
         \/ Free(paid', duty', session[s].cust, session'[s].seen)

LEMMA KnownFree ==
    ASSUME FreeInv, Covered(duty), NEW s \in Threads, s \in Busy
    PROVE  /\ Free(paid, duty, session[s].cust, Known(s, session[s].cust))
           /\ Free(paid, duty, session[s].cust, row[session[s].cust])
           /\ \A c \in Customers : Free(paid, duty, c, row[c])
  <1>1. session[s].cust \in Customers  BY KnownIs DEF FreeInv
  <1>2. /\ session[s].seen = Unread \/ Free(paid, duty, session[s].cust, session[s].seen)
        /\ Free(paid, duty, session[s].cust, row[session[s].cust])
        /\ \A c \in Customers : Free(paid, duty, c, row[c])
    BY <1>1 DEF FreeInv
  <1> QED  BY <1>2 DEF Known

LEMMA TicketSaveHarmless ==
    ASSUME FreeInv, Covered(duty), NEW s \in Threads, s \in Busy,
           NEW table \in Seq(Ticket), Len(table) = Len(ticket),
           NEW t \in Ticket, NEW r \in Row, AfterSave(s, table, t, r), paid' = paid,
           Free(paid, duty, session[s].cust, r)
    PROVE  Harmless(s)
  <1>1. /\ \A c \in Customers : row'[c].status = row[c].status /\ row'[c].dated = row[c].dated
        /\ Steady(s)
        /\ session'[s] = Idle \/ session'[s].seen \in {session[s].seen, InstalledRow(r)}
    BY AfterSaveIs DEF FreeInv
  <1>2. duty' = duty  BY <1>1 DEF Steady
  <1>3. \A c \in Customers : Free(paid, duty, c, row'[c])  BY <1>1, KnownFree, FreeAlike
  <1>4. Free(paid, duty, session[s].cust, InstalledRow(r))  BY InstalledRowIs, FreeAlike
  <1>5. session[s].seen = Unread \/ Free(paid, duty, session[s].cust, session[s].seen)  BY DEF FreeInv
  <1> QED  BY <1>1, <1>2, <1>3, <1>4, <1>5 DEF Harmless

LEMMA CustomerSaveHarmless ==
    ASSUME FreeInv, Covered(duty), NEW s \in Threads, s \in Busy, NEW r \in Row, NEW r2 \in Row,
           AfterCustomer(s, session[s].cust, r, r2), paid' = paid,
           Free(paid, duty, session[s].cust, r), Free(paid, duty, session[s].cust, r2)
    PROVE  Harmless(s)
  <1> DEFINE c == session[s].cust
  <1>1. c \in Customers /\ row \in [Customers -> Row]  BY KnownIs DEF FreeInv, Inv, TypeOK
  <1>2. row' = [row EXCEPT ![c] = r2] /\ Steady(s) /\ (session'[s] = Idle \/ session'[s].seen = r)
    BY <1>1, AfterCustomerIs DEF FreeInv
  <1>3. duty' = duty  BY <1>2 DEF Steady
  <1>4. \A d \in Customers : Free(paid, duty, d, row'[d])  BY <1>1, <1>2, KnownFree
  <1> QED  BY <1>2, <1>3, <1>4 DEF Harmless

\* A step that leaves rows and copies alone.
LEMMA StillHarmless ==
    ASSUME FreeInv, Covered(duty), NEW s \in Threads, s \in Busy, row' = row, paid \subseteq paid',
           duty' = duty, session'[s] = Idle \/ session'[s].seen = session[s].seen
    PROVE  Harmless(s)
  <1>1. session[s].seen = Unread \/ Free(paid, duty, session[s].cust, session[s].seen)  BY DEF FreeInv
  <1>2. \A c \in Customers : Free(paid', duty, c, row[c])  BY KnownFree, FreeGrows
  <1>3. session[s].seen = Unread \/ Free(paid', duty, session[s].cust, session[s].seen)
    BY <1>1, FreeGrows
  <1> QED  BY <1>2, <1>3 DEF Harmless

LEMMA FailHarmless ==
    ASSUME FreeInv, Covered(duty), NEW s \in Threads, s \in Busy, Fail(s)
    PROVE  Harmless(s)
  <1>1. Steady(s) /\ session'[s] = Idle /\ UNCHANGED Tables  BY FailIs DEF FreeInv
  <1> QED  BY <1>1, StillHarmless DEF Steady, Tables

LEMMA GoOnHarmless ==
    ASSUME FreeInv, Covered(duty), NEW s \in Threads, s \in Busy, UNCHANGED <<row, paid>>,
           Continue(s, <<>>, session[s].seen)
    PROVE  Harmless(s)
  <1>1. session[s].seen \in Row \cup {Unread}  BY KnownIs DEF FreeInv
  <1>2. Steady(s) /\ (session'[s] = Idle \/ session'[s].seen = session[s].seen)
    BY <1>1, ContinueIs DEF FreeInv
  <1> QED  BY <1>2, StillHarmless DEF Steady

\* No step that activates is under way where a handler cuts lines off.
LEMMA NoActivation ==
    ASSUME Inv, Covered(duty), "suspend" \in duty, NEW s \in Threads, NEW step \in ActivatingSteps
    PROVE  ~Doing(s, step)
  <1> SUFFICES ASSUME Doing(s, step) PROVE FALSE  OBVIOUS
  <1>1. s \in Busy  BY DEF Doing, Busy
  <1>2. session[s].todo \in Seq(StepNames \ ActivatingSteps) /\ session[s].todo # <<>>
    BY <1>1, BusyIs DEF Covered, Planned
  <1>3. Head(session[s].todo) \in StepNames \ ActivatingSteps  BY <1>2, HeadTailProperties
  <1> QED  BY <1>3 DEF Doing

LEMMA PayersStay ==
    ASSUME Inv, NEW s \in Threads, Step(s)
    PROVE  paid \subseteq paid'
  <1>1. \/ paid' = paid
        \/ SavePayment(s) \/ SaveHandover(s) \/ SaveCalls(s) \/ SaveAttempt(s) \/ SavePlace(s)
    BY DEF Step, SaveTicket, SaveSeats, SaveCrew, CreateTicket, MarkLine, TouchCustomer, ApproveCustomer,
           SaveAsRead, RecordCustomer, CompleteFirst, SaveInstalled, CompleteAll, Crewless, Fail, Tables
  <1>2. SaveHandover(s) \/ SaveCalls(s) \/ SaveAttempt(s) \/ SavePlace(s) => paid' = paid
    BY DEF SaveHandover, SaveCalls, SaveAttempt, SavePlace, Crewless, Fail, Tables
  <1> QED  BY <1>1, <1>2, SavePaymentIs

LEMMA StepHarmless ==
    ASSUME FreeInv, Covered(duty), NEW s \in Threads, s \in Busy, Step(s)
    PROVE  Harmless(s)
  <1> DEFINE j == session[s]
             c == j.cust
             k == Known(s, c)
  <1>1. /\ Inv /\ c \in Customers /\ j.job \in Ticket /\ j.job.cust = c /\ k \in Row
        /\ row[c] \in Row /\ ticket \in Seq(Ticket) /\ Len(ticket) \in Nat /\ j.id \in Nat
        /\ \A i \in 1 .. Len(ticket) : ticket[i] \in Ticket
    BY KnownIs, TablesAre DEF FreeInv, Inv, TypeOK
  <1>2. Free(paid, duty, c, k) /\ Free(paid, duty, c, row[c])  BY KnownFree
  <1>3. CASE SaveTicket(s)
    <2> DEFINE table == [ticket EXCEPT ![j.id] = j.job]
    <2>1. AfterSave(s, table, j.job, k) /\ paid' = paid  BY <1>3 DEF SaveTicket, Crewless
    <2>2. table \in Seq(Ticket) /\ Len(table) = Len(ticket)  BY <1>1, SeqWrite
    <2> HIDE DEF table
    <2> QED  BY <1>1, <1>2, <2>1, <2>2, TicketSaveHarmless
  <1>4. CASE SaveCalls(s)
    <2>1. CASE ~Found(j.id)
      <3>1. Fail(s)  BY <1>4, <2>1 DEF SaveCalls
      <3> QED  BY <3>1, FailHarmless
    <2>2. CASE Found(j.id)
      <3> DEFINE i == j.id
                 x == [ticket[i] EXCEPT !.calls = j.job.calls]
                 table == [ticket EXCEPT ![i] = [@ EXCEPT !.calls = j.job.calls]]
      <3>1. AfterSave(s, table, j.job, k) /\ paid' = paid  BY <1>4, <2>2 DEF SaveCalls, Crewless
      <3>2. i \in 1 .. Len(ticket) /\ j.job.calls \in Nat  BY <1>1, <2>2, TablesAre DEF Found, Ticket
      <3>3. x \in Ticket  BY <1>1, <3>2 DEF Ticket
      <3>4. table = [ticket EXCEPT ![i] = x]  BY <3>2
      <3> HIDE DEF x, table
      <3>5. table \in Seq(Ticket) /\ Len(table) = Len(ticket)  BY <1>1, <3>2, <3>3, <3>4, ExceptSeq
      <3> QED  BY <1>1, <1>2, <3>1, <3>5, TicketSaveHarmless
    <2> QED  BY <2>1, <2>2
  <1>5. CASE SaveAttempt(s)
    <2>1. CASE ~Found(j.id)
      <3>1. Fail(s)  BY <1>5, <2>1 DEF SaveAttempt
      <3> QED  BY <3>1, FailHarmless
    <2>2. CASE Found(j.id)
      <3>1. Continue(s, <<>>, j.seen) /\ UNCHANGED <<row, paid>>  BY <1>5, <2>2 DEF SaveAttempt
      <3> QED  BY <3>1, GoOnHarmless
    <2> QED  BY <2>1, <2>2
  <1>6. CASE SavePlace(s)
    <2>1. CASE ~Found(j.id)
      <3>1. Fail(s)  BY <1>6, <2>1 DEF SavePlace
      <3> QED  BY <3>1, FailHarmless
    <2>2. CASE Found(j.id)
      <3>1. AfterSave(s, ticket, j.job, k) /\ paid' = paid  BY <1>6, <2>2 DEF SavePlace, Crewless
      <3> QED  BY <1>1, <1>2, <3>1, TicketSaveHarmless
    <2> QED  BY <2>1, <2>2
  <1>7. CASE SaveCrew(s)
    <2>1. CASE ~Found(j.id) /\ j.team # {}
      <3>1. Fail(s)  BY <1>7, <2>1 DEF SaveCrew
      <3> QED  BY <3>1, FailHarmless
    <2>2. CASE ~(~Found(j.id) /\ j.team # {})
      <3>1. Continue(s, <<>>, j.seen) /\ UNCHANGED <<row, paid>>  BY <1>7, <2>2 DEF SaveCrew
      <3> QED  BY <3>1, GoOnHarmless
    <2> QED  BY <2>1, <2>2
  <1>8. ASSUME NEW step \in {"rows", "retire", "current"}, SaveSeats(s, step) PROVE Harmless(s)
    <2>1. CASE step = "rows" /\ ~Found(j.id)
      <3>1. Fail(s)  BY <1>8, <2>1 DEF SaveSeats
      <3> QED  BY <3>1, FailHarmless
    <2>2. CASE ~(step = "rows" /\ ~Found(j.id))
      <3>1. Continue(s, <<>>, j.seen) /\ UNCHANGED <<row, paid>>  BY <1>8, <2>2 DEF SaveSeats
      <3> QED  BY <3>1, GoOnHarmless
    <2> QED  BY <2>1, <2>2
  <1>9. CASE SaveHandover(s)
    <2>1. CASE ~Found(j.id)
      <3>1. Fail(s)  BY <1>9, <2>1 DEF SaveHandover
      <3> QED  BY <3>1, FailHarmless
    <2>2. CASE Found(j.id)
      <3>1. PICK table \in Seq(Ticket), t \in Ticket :
               Len(table) = Len(ticket) /\ AfterSave(s, table, t, k) /\ paid' = paid
        BY <1>1, <1>9, <2>2, HandoverSave
      <3> QED  BY <1>1, <1>2, <3>1, TicketSaveHarmless
    <2> QED  BY <2>1, <2>2
  <1>10. CASE CreateTicket(s)
    <2>1. Continue(s, <<>>, j.seen) /\ UNCHANGED <<row, paid>>  BY <1>10 DEF CreateTicket
    <2> QED  BY <2>1, GoOnHarmless
  <1>11. CASE CompleteFirst(s)
    <2>1. \/ UNCHANGED <<row, paid, ticket>> /\ Continue(s, <<>>, session[s].seen)
          \/ \E table \in Seq(Ticket), t \in Ticket :
                /\ Len(table) = Len(ticket) /\ t.cust = session[s].cust /\ UNCHANGED Crewless
                /\ AfterSave(s, table, t, row[session[s].cust])
      <3> HIDE DEF j, c, k
      <3> QED  BY <1>1, <1>11, CompleteFirstIs, Zenon
    <2>2. CASE UNCHANGED <<row, paid, ticket>> /\ Continue(s, <<>>, session[s].seen)  BY <2>2, GoOnHarmless
    <2>3. ASSUME NEW table \in Seq(Ticket), NEW t \in Ticket, Len(table) = Len(ticket),
                 UNCHANGED Crewless, AfterSave(s, table, t, row[c])
          PROVE  Harmless(s)
      <3>1. paid' = paid  BY <2>3 DEF Crewless
      <3> QED  BY <1>1, <1>2, <2>3, <3>1, TicketSaveHarmless
    <2> QED  BY <2>1, <2>2, <2>3
  <1>12. CASE SavePayment(s) \/ CompleteAll(s)
    <2>1. /\ Stepped(s) /\ paid \subseteq paid' /\ row' = row
          /\ session'[s] = Idle \/ session'[s].seen = j.seen
      BY <1>1, <1>12, SavePaymentIs, CompleteAllIs
    <2> QED  BY <2>1, StillHarmless DEF Stepped, Steady
  <1>13. ASSUME NEW r \in Row, NEW r2 \in Row, AfterCustomer(s, c, r, r2), UNCHANGED Crewless,
                r.status = k.status, r.dated = k.dated,
                r2.status = row[c].status, r2.dated = (row[c].dated /\ r.status # "suspended")
         PROVE  Harmless(s)
    <2>1. Free(paid, duty, c, r)  BY <1>2, <1>13, FreeAlike
    <2>2. Free(paid, duty, c, r2)  BY <1>2, <1>13, <2>1 DEF Free
    <2> QED  BY <1>13, <2>1, <2>2, CustomerSaveHarmless DEF Crewless
  <1>14. ASSUME NEW install \in Installs, NEW step, MarkLine(s, step, install) PROVE Harmless(s)
    BY <1>1, <1>13, <1>14, MarkLineIs
  <1>15. CASE TouchCustomer(s)  BY <1>1, <1>13, <1>15, TouchCustomerIs
  <1>16. CASE SaveAsRead(s)
    <2>1. PICK r \in Row, r2 \in Row :
             /\ AfterCustomer(s, c, r, r2) /\ r = k /\ r2.status = r.status
             /\ r2.dated = (r.dated /\ r.status # "suspended")
      BY <1>1, <1>16, SaveAsReadIs
    <2>2. Free(paid, duty, c, r) /\ Free(paid, duty, c, r2)  BY <1>2, <2>1 DEF Free
    <2>3. paid' = paid  BY <1>16 DEF SaveAsRead, Crewless
    <2> QED  BY <2>1, <2>2, <2>3, CustomerSaveHarmless
  <1>17. CASE ApproveCustomer(s) \/ RecordCustomer(s)
    <2>0. "suspend" \notin duty  BY <1>1, <1>17, NoActivation DEF ApproveCustomer, RecordCustomer, ActivatingSteps
    <2>1. PICK r \in Row, r2 \in Row :
             /\ AfterCustomer(s, c, r, r2)
             /\ r.status = IF k.dated \/ c \in paid THEN "active" ELSE k.status
             /\ r.dated = k.dated /\ r2.status = r.status
             /\ r2.dated = (r.dated /\ r.status # "suspended")
      BY <1>1, <1>17, ActivatingIs
    <2>2. Free(paid, duty, c, r) /\ Free(paid, duty, c, r2)  BY <1>2, <2>0, <2>1 DEF Free
    <2>3. paid' = paid  BY <1>17 DEF ApproveCustomer, RecordCustomer, Crewless
    <2> QED  BY <2>1, <2>2, <2>3, CustomerSaveHarmless
  <1>18. CASE SaveInstalled(s)
    <2>0. "suspend" \notin duty  BY <1>1, <1>18, NoActivation DEF SaveInstalled, ActivatingSteps
    <2>1. PICK r \in Row, r2 \in Row :
             /\ AfterCustomer(s, c, r, r2)
             /\ r.status = IF k.status = "pending" THEN "active" ELSE k.status
             /\ r.dated /\ r2.status = r.status
             /\ r2.dated = (r.dated /\ r.status # "suspended")
      BY <1>1, <1>18, SaveInstalledIs
    <2>2. Free(paid, duty, c, r) /\ Free(paid, duty, c, r2)  BY <1>2, <2>0, <2>1 DEF Free
    <2>3. paid' = paid  BY <1>18 DEF SaveInstalled, Crewless
    <2> QED  BY <2>1, <2>2, <2>3, CustomerSaveHarmless
  <1>19. {"installed", "closed_not_installed", "pending_installation"} \subseteq Installs  BY DEF Installs
  <1> QED
    BY <1>3, <1>4, <1>5, <1>6, <1>7, <1>8, <1>9, <1>10, <1>11, <1>12, <1>14, <1>15, <1>16, <1>17,
       <1>18, <1>19
    DEF Step

LEMMA FreeNext == FreeInv /\ [Next]_vars => FreeInv'
  <1> SUFFICES ASSUME FreeInv, [Next]_vars PROVE FreeInv'  OBVIOUS
  <1>1. Inv /\ Inv'  BY NextInv DEF FreeInv
  <1>2. duty' = duty  BY <1>1, NextIs, AddCustomerIs, PayIs, SuspendIs DEF Stepped, Steady, Begun, AtOnce, vars
  <1> DEFINE Goal == /\ \A c \in Customers : Free(paid', duty', c, row'[c])
                     /\ \A s \in Busy' : \/ session'[s].seen = Unread
                                         \/ Free(paid', duty', session'[s].cust, session'[s].seen)
  <1> SUFFICES ASSUME Covered(duty) PROVE Goal
    BY <1>1, <1>2 DEF FreeInv, Free
  <1>3. /\ \A c \in Customers : Free(paid, duty, c, row[c])
        /\ \A s \in Busy : \/ session[s].seen = Unread
                           \/ Free(paid, duty, session[s].cust, session[s].seen)
    BY DEF FreeInv
  <1>4. ASSUME NEW s \in Threads, s \in Busy, Step(s), Stepped(s) PROVE Goal
    <2>1. Harmless(s) /\ Steady(s)  BY <1>4, StepHarmless DEF Stepped
    <2>2. paid \subseteq paid'  BY <1>1, <1>4, PayersStay
    <2>3. ASSUME NEW q \in Busy'
          PROVE  session'[q].seen = Unread \/ Free(paid', duty', session'[q].cust, session'[q].seen)
      <3>1. q \in Threads /\ session'[q].todo # <<>>  BY DEF Busy
      <3>2. session'[q] # Idle  BY <3>1 DEF Idle
      <3>3. CASE q = s  BY <2>1, <3>2, <3>3 DEF Harmless, Steady
      <3>4. CASE q # s
        <4>1. session'[q] = session[q] /\ q \in Busy  BY <2>1, <3>1, <3>4 DEF Steady, Busy
        <4> QED  BY <1>2, <1>3, <2>2, <4>1, FreeGrows
      <3> QED  BY <3>3, <3>4
    <2> QED  BY <2>1, <2>3 DEF Harmless
  <1>5. ASSUME NEW s \in Threads, NEW h \in duty, Begun(s, h) PROVE Goal
    <2> DEFINE j == session'[s]
    <2>1. /\ j.seen \in {Unread, row[j.cust]} /\ session' = [session EXCEPT ![s] = j] /\ j \in Job
          /\ row' = row /\ paid' = paid /\ duty' = duty
      BY <1>5 DEF Begun, Tables
    <2>2. j.cust \in Customers  BY <2>1 DEF Job
    <2> HIDE DEF j
    <2>3. ASSUME NEW q \in Busy'
          PROVE  session'[q].seen = Unread \/ Free(paid', duty', session'[q].cust, session'[q].seen)
      <3>1. CASE q = s  BY <1>3, <2>1, <2>2, <3>1 DEF j
      <3>2. CASE q # s
        <4>1. session'[q] = session[q] /\ q \in Busy  BY <1>1, <2>1, <3>2 DEF Inv, TypeOK, Busy
        <4> QED  BY <1>3, <2>1, <4>1
      <3> QED  BY <3>1, <3>2
    <2> QED  BY <1>3, <2>1, <2>3
  <1>6. ASSUME UNCHANGED <<session, duty>>, paid \subseteq paid',
               \A c \in Customers : Free(paid', duty, c, row'[c])
        PROVE  Goal
    <2>1. Busy' = Busy  BY <1>6 DEF Busy
    <2> QED  BY <1>3, <1>6, <2>1, FreeGrows
  <1>7. CASE AtOnce /\ UNCHANGED <<row, paid>>  BY <1>3, <1>6, <1>7 DEF AtOnce
  <1>8. ASSUME NEW c \in Customers, NEW dated \in BOOLEAN, NEW since \in BOOLEAN,
               AddCustomer(c, dated, since)
        PROVE  Goal
    <2>1. /\ AtOnce /\ paid' = paid
          /\ \A d \in Customers \ {c} : row'[d] = row[d]
          /\ row'[c].status = "pending"
      BY <1>1, <1>8, AddCustomerIs
    <2>2. Free(paid', duty, c, row'[c])  BY <2>1 DEF Free
    <2> QED  BY <1>3, <1>6, <2>1, <2>2 DEF AtOnce
  <1>9. ASSUME NEW c \in Customers, Pay(c) PROVE Goal
    <2>1. /\ AtOnce /\ paid' = paid \cup {c}
          /\ \A d \in Customers \ {c} : row'[d] = row[d]
          /\ row'[c].status = "active" /\ row'[c].dated
      BY <1>1, <1>9, PayIs
    <2>2. Free(paid', duty, c, row'[c])  BY <2>1 DEF Free
    <2>3. paid \subseteq paid'  BY <2>1
    <2>4. \A d \in Customers \ {c} : Free(paid', duty, d, row'[d])  BY <1>3, <2>1, <2>3, FreeGrows
    <2> QED  BY <1>6, <2>1, <2>2, <2>3, <2>4 DEF AtOnce
  <1>10. ASSUME NEW c \in Customers, Suspend(c) PROVE Goal
    <2>1. /\ AtOnce /\ paid' = paid /\ "suspend" \in duty
          /\ \A d \in Customers \ {c} : row'[d] = row[d]
          /\ row[c].status = "active" /\ row'[c].status = "suspended"
      BY <1>1, <1>10, SuspendIs
    <2>2. c \in paid  BY <1>3, <2>1 DEF Free
    <2>3. Free(paid', duty, c, row'[c])  BY <2>1, <2>2 DEF Free
    <2> QED  BY <1>3, <1>6, <2>1, <2>3 DEF AtOnce
  <1>11. CASE UNCHANGED vars  BY <1>3, <1>6, <1>11 DEF vars
  <1> QED  BY <1>1, <1>4, <1>5, <1>7, <1>8, <1>9, <1>10, <1>11, NextIs

\* An active line has a due date or a payment behind it, with any number of
\* threads and stale copies, unless lines are cut off while a handler activates
\* dated lines nobody has paid for.
THEOREM LinesAreBilled == Spec => [](Covered(duty) => NoFreeRide)
  <1>1. Init => FreeInv
    <2> SUFFICES ASSUME Init PROVE FreeInv  OBVIOUS
    <2>1. Inv /\ Busy = {}  BY InitInv DEF Init, Busy, Idle
    <2>2. ASSUME NEW c \in Customers PROVE Free(paid, duty, c, row[c])
      <3>1. row[c] \in Opening /\ paid = {d \in Customers : row[d].status \in {"active", "suspended"}}
        BY DEF Init
      <3> QED  BY <3>1 DEF Free
    <2> QED  BY <2>1, <2>2 DEF FreeInv
  <1>2. FreeInv => (Covered(duty) => NoFreeRide)  BY DEF FreeInv, NoFreeRide, Free
  <1> QED  BY <1>1, <1>2, FreeNext, PTL DEF Spec
-----------------------------------------------------------------------------
(* Somebody is seated *)

\* What an assignment has still to do, from its first save to its last but one.
Assigning   == <<"crew", "rows", "retire", "current", "ticket">>
AfterCrew   == <<"rows", "retire", "current", "ticket">>
AfterRows   == <<"retire", "current", "ticket">>
AfterRetire == <<"current", "ticket">>

\* The edit form saves a crew without seating it, and a deletion takes seats away.
Unseating == {"edit", "delete"}

Seated(rows) == \E x \in rows : x.current

\* Request j saved the crew of ticket i and will make it current.
Soon(j, i) == j.id = i /\ j.todo \in {AfterCrew, AfterRows, AfterRetire}

\* Where the crew plans of the handlers lead; from the second save of an
\* assignment on, one of its technicians has a row of the n tickets' rows.
CrewPlan(j, n, table) ==
    \/ j.todo \in Seq(StepNames \ CrewSteps)
    \/ j.todo = <<"handover">>
    \/ j.todo = <<"crew", "ticket">> /\ j.team = {}
    \/ j.todo \in {Assigning, AfterCrew} /\ j.team # {}
    \/ /\ j.todo \in {AfterRows, AfterRetire}
       /\ j.id \in 1 .. n /\ \E x \in table[j.id] : x.tech \in j.team

SeatInv ==
    /\ Inv
    /\ duty \cap Unseating = {} =>
          /\ \A i \in 1 .. Len(ticket) : ticket[i].status # "DELETED"
          /\ \A s \in Busy : /\ session[s].job.status # "DELETED"
                             /\ CrewPlan(session[s], Len(ticket), seats)
          /\ \A i \in 1 .. Len(ticket) : crew[i] # {} =>
                Seated(seats[i]) \/ \E s \in Busy : Soon(session[s], i)

LEMMA PlanTails ==
    /\ Head(Assigning) = "crew" /\ Tail(Assigning) = AfterCrew
    /\ Head(AfterCrew) = "rows" /\ Tail(AfterCrew) = AfterRows
    /\ Head(AfterRows) = "retire" /\ Tail(AfterRows) = AfterRetire
    /\ Head(AfterRetire) = "current" /\ Tail(AfterRetire) = <<"ticket">>
    /\ Head(<<"crew", "ticket">>) = "crew" /\ Tail(<<"crew", "ticket">>) = <<"ticket">>
    /\ Head(<<"handover">>) = "handover" /\ Tail(<<"handover">>) = <<>>
    /\ <<"ticket">> \in Seq(StepNames \ CrewSteps) /\ <<>> \in Seq(StepNames \ CrewSteps)
    /\ <<"ticket">> # <<>>
  <1>1. <<"ticket">> \in Seq(StepNames \ CrewSteps)
    <2>1. "ticket" \in StepNames \ CrewSteps  BY DEF StepNames, CrewSteps
    <2> QED  BY <2>1
  <1>2. Head(Assigning) = "crew" /\ Tail(Assigning) = AfterCrew  BY DEF Assigning, AfterCrew
  <1>3. Head(AfterCrew) = "rows" /\ Tail(AfterCrew) = AfterRows  BY DEF AfterCrew, AfterRows
  <1>4. Head(AfterRows) = "retire" /\ Tail(AfterRows) = AfterRetire  BY DEF AfterRows, AfterRetire
  <1>5. Head(AfterRetire) = "current" /\ Tail(AfterRetire) = <<"ticket">>  BY DEF AfterRetire
  <1>6. /\ Head(<<"crew", "ticket">>) = "crew" /\ Tail(<<"crew", "ticket">>) = <<"ticket">>
        /\ Head(<<"handover">>) = "handover" /\ Tail(<<"handover">>) = <<>>
    OBVIOUS
  <1> QED  BY <1>1, <1>2, <1>3, <1>4, <1>5, <1>6

\* What the next step says of the plan.
LEMMA PlanNow ==
    ASSUME SeatInv, duty \cap Unseating = {}, NEW s \in Threads, NEW step \in StepNames, Doing(s, step)
    PROVE  LET j == session[s]
           IN  /\ s \in Busy
               /\ step \notin CrewSteps => j.todo \in Seq(StepNames \ CrewSteps)
               /\ step = "crew" => \/ j.todo = <<"crew", "ticket">> /\ j.team = {}
                                   \/ j.todo = Assigning /\ j.team # {}
               /\ step = "rows" => j.todo = AfterCrew /\ j.team # {}
               /\ step = "retire" => j.todo = AfterRows
               /\ step = "current" => j.todo = AfterRetire
               /\ step = "handover" => j.todo = <<"handover">>
               /\ step \in {"retire", "current"} =>
                     j.id \in 1 .. Len(ticket) /\ \E x \in seats[j.id] : x.tech \in j.team
  <1> DEFINE j == session[s]
  <1>1. s \in Busy /\ j.todo # <<>> /\ Head(j.todo) = step  BY DEF Doing, Busy
  <1>2. CrewPlan(j, Len(ticket), seats)  BY <1>1 DEF SeatInv
  <1> HIDE DEF j
  <1>3. CASE j.todo \in Seq(StepNames \ CrewSteps)
    <2>1. step \in StepNames \ CrewSteps  BY <1>1, <1>3, HeadTailProperties
    <2> QED  BY <1>1, <1>3, <2>1 DEF CrewSteps, j
  <1>4. CASE j.todo = <<"handover">>
    <2>1. step = "handover"  BY <1>1, <1>4, PlanTails
    <2> QED  BY <1>1, <1>4, <2>1 DEF CrewSteps, j
  <1>5. CASE j.todo = <<"crew", "ticket">> /\ j.team = {}
    <2>1. step = "crew"  BY <1>1, <1>5, PlanTails
    <2> QED  BY <1>1, <1>5, <2>1 DEF CrewSteps, j
  <1>6. CASE j.todo = Assigning /\ j.team # {}
    <2>1. step = "crew"  BY <1>1, <1>6, PlanTails
    <2> QED  BY <1>1, <1>6, <2>1 DEF CrewSteps, j
  <1>7. CASE j.todo = AfterCrew /\ j.team # {}
    <2>1. step = "rows"  BY <1>1, <1>7, PlanTails
    <2> QED  BY <1>1, <1>7, <2>1 DEF CrewSteps, j
  <1>8. CASE /\ j.todo \in {AfterRows, AfterRetire}
             /\ j.id \in 1 .. Len(ticket) /\ \E x \in seats[j.id] : x.tech \in j.team
    <2>1. CASE j.todo = AfterRows
      <3>1. step = "retire"  BY <1>1, <2>1, PlanTails
      <3> QED  BY <1>1, <1>8, <2>1, <3>1 DEF CrewSteps, j
    <2>2. CASE j.todo = AfterRetire
      <3>1. step = "current"  BY <1>1, <2>2, PlanTails
      <3> QED  BY <1>1, <1>8, <2>2, <3>1 DEF CrewSteps, j
    <2> QED  BY <1>8, <2>1, <2>2
  <1> QED  BY <1>2, <1>3, <1>4, <1>5, <1>6, <1>7, <1>8 DEF CrewPlan

\* No plan left is mistaken for an assignment's.
LEMMA NotSoon ==
    ASSUME NEW j, NEW i, Soon(j, i)
    PROVE  /\ j.todo # <<"crew", "ticket">> /\ j.todo # <<"handover">> /\ j.todo # Assigning
           /\ j.todo \notin Seq(StepNames \ CrewSteps) /\ j.todo # <<>>
  <1>1. Head(j.todo) \in {"rows", "retire", "current"}  BY PlanTails DEF Soon
  <1>2. j.todo # <<>>  BY DEF Soon, AfterCrew, AfterRows, AfterRetire
  <1>3. j.todo \in Seq(StepNames \ CrewSteps) => Head(j.todo) \in StepNames \ CrewSteps
    BY <1>2, HeadTailProperties
  <1> QED  BY <1>1, <1>2, <1>3, PlanTails DEF CrewSteps

\* A step of thread s, as far as crews and their rows go.
SeatStep(s) ==
    /\ Steady(s)
    /\ session'[s] # Idle => CrewPlan(session'[s], Len(ticket'), seats')
    /\ \A i \in 1 .. Len(ticket) : \A x \in seats[i] : \E y \in seats'[i] : y.tech = x.tech
    /\ \A i \in 1 .. Len(ticket') : crew'[i] # {} =>
          \/ Seated(seats'[i])
          \/ session'[s] # Idle /\ Soon(session'[s], i)
          \/ /\ i \in 1 .. Len(ticket) /\ crew[i] # {} /\ ~Soon(session[s], i)
             /\ Seated(seats[i]) => Seated(seats'[i])

LEMMA FailSeats ==
    ASSUME Inv, NEW s \in Threads, Fail(s), \A i \in 1 .. Len(ticket) : ~Soon(session[s], i)
    PROVE  SeatStep(s)
  <1>1. Steady(s) /\ session'[s] = Idle /\ UNCHANGED Tables  BY FailIs
  <1> QED  BY <1>1 DEF SeatStep, Tables

LEMMA PlainSeats ==
    ASSUME SeatInv, duty \cap Unseating = {}, NEW s \in Threads, Stepped(s), KeepsCrews,
           NEW step \in StepNames \ CrewSteps, Doing(s, step)
    PROVE  SeatStep(s)
  <1> DEFINE S == StepNames \ CrewSteps
             q == session[s].todo
  <1>1. q \in Seq(S) /\ q # <<>>  BY PlanNow DEF Doing
  <1>2. \A i : ~Soon(session[s], i)  BY <1>1, NotSoon
  <1>3. Tail(q) \in Seq(S) /\ <<"create">> \o Tail(q) \in Seq(S)
    <2>1. "create" \in S  BY DEF StepNames, CrewSteps
    <2> HIDE DEF S, q
    <2>2. <<"create">> \in Seq(S)  BY <2>1
    <2> QED  BY <1>1, <2>2, TailTodo, HeadTailProperties
  <1>4. Steady(s)  BY DEF Stepped
  <1>5. session'[s] # Idle => session'[s].todo \in Seq(S)
    <2> HIDE DEF S
    <2> QED  BY <1>3, <1>4 DEF Steady
  <1> QED  BY <1>2, <1>4, <1>5 DEF SeatStep, KeepsCrews, CrewPlan

\* A crew step of a request that goes on with what is left of its plan.
LEMMA GoesOn ==
    ASSUME Inv, NEW s \in Threads, s \in Busy, Continue(s, <<>>, session[s].seen)
    PROVE  /\ Steady(s)
           /\ session'[s] # Idle => session'[s].todo = Tail(session[s].todo)
           /\ session'[s] = Idle => Tail(session[s].todo) = <<>>
  <1>1. session[s].seen \in Row \cup {Unread}  BY KnownIs
  <1>2. /\ Steady(s)
        /\ session'[s] = Idle \/ session'[s].todo = <<>> \o Tail(session[s].todo)
        /\ session'[s] = Idle => <<>> \o Tail(session[s].todo) = <<>>
    BY <1>1, ContinueIs
  <1>3. session[s].todo \in Seq(StepNames) /\ session[s].todo # <<>>  BY BusyIs DEF Job
  <1>4. Tail(session[s].todo) \in Seq(StepNames)  BY <1>3, HeadTailProperties
  <1>5. <<>> \o Tail(session[s].todo) = Tail(session[s].todo)  BY <1>4, ConcatEmptySeq
  <1> QED  BY <1>2, <1>5

LEMMA CrewSeats ==
    ASSUME SeatInv, duty \cap Unseating = {}, NEW s \in Threads, SaveCrew(s)
    PROVE  SeatStep(s)
  <1> DEFINE j == session[s]
  <1>0. Inv /\ "crew" \in StepNames /\ Doing(s, "crew")  BY DEF SeatInv, StepNames, SaveCrew
  <1>1. /\ s \in Busy
        /\ \/ j.todo = <<"crew", "ticket">> /\ j.team = {}
           \/ j.todo = Assigning /\ j.team # {}
    BY <1>0, PlanNow
  <1>2. \A i : ~Soon(j, i)  BY <1>1, NotSoon
  <1>3. CASE ~Found(j.id) /\ j.team # {}
    <2>1. Fail(s)  BY <1>3 DEF SaveCrew
    <2> QED  BY <1>0, <1>2, <2>1, FailSeats
  <1>4. CASE ~(~Found(j.id) /\ j.team # {})
    <2>1. crew' = [crew EXCEPT ![j.id] = j.team] /\ Continue(s, <<>>, j.seen)
          /\ UNCHANGED <<row, paid, ticket, attempts, seats>>
      BY <1>4 DEF SaveCrew
    <2>2. /\ Steady(s)
          /\ session'[s] # Idle => session'[s].todo = Tail(j.todo)
          /\ session'[s] = Idle => Tail(j.todo) = <<>>
      BY <1>0, <1>1, <2>1, GoesOn
    <2>3. /\ session'[s] # Idle => session'[s].id = j.id /\ session'[s].team = j.team
      BY <2>2 DEF Steady
    <2>4. j.id \in 0 .. Len(ticket) /\ j.team \in SUBSET Techs /\ Len(ticket) \in Nat
      BY <1>0, <1>1, KnownIs, TablesAre
    <2>5. \A k \in 1 .. Len(ticket) : crew'[k] = IF k = j.id THEN j.team ELSE crew[k]
      <3>1. j.id \in 1 .. Len(ticket) \/ j.id = 0  BY <2>4
      <3> QED  BY <1>0, <2>1, <2>4, <3>1, CrewWritten
    <2>6. CASE j.todo = <<"crew", "ticket">> /\ j.team = {}
      <3>1. Tail(j.todo) \in Seq(StepNames \ CrewSteps)  BY <2>6, PlanTails
      <3> HIDE DEF j
      <3> QED  BY <1>2, <2>1, <2>2, <2>5, <2>6, <3>1 DEF SeatStep, CrewPlan, j
    <2>7. CASE j.todo = Assigning /\ j.team # {}
      <3>1. Tail(j.todo) = AfterCrew /\ AfterCrew # <<>>  BY <2>7, PlanTails DEF AfterCrew
      <3>2. session'[s] # Idle /\ session'[s].todo = AfterCrew /\ Soon(session'[s], j.id)
        BY <2>2, <2>3, <3>1 DEF Soon
      <3>3. CrewPlan(session'[s], Len(ticket'), seats')  BY <2>3, <2>7, <3>2 DEF CrewPlan
      <3> HIDE DEF j
      <3> QED  BY <1>2, <2>1, <2>2, <2>5, <3>2, <3>3 DEF SeatStep, j
    <2> QED  BY <1>1, <2>6, <2>7
  <1> QED  BY <1>3, <1>4

\* What each of the three writes makes of the rows, for a team that has one.
LEMMA MirrorSeats ==
    ASSUME NEW rows \in SUBSET Seat, NEW team \in SUBSET Techs, NEW step \in {"rows", "retire", "current"}
    PROVE  LET now == Mirrored(step, rows, team)
           IN  /\ \A x \in rows : \E y \in now : y.tech = x.tech
               /\ step # "retire" => (Seated(rows) => Seated(now))
               /\ step = "rows" /\ team # {} => \E x \in now : x.tech \in team
               /\ step = "current" /\ (\E x \in rows : x.tech \in team) => Seated(now)
  <1>1. \A x \in rows : x.current \in BOOLEAN /\ x \in Seat  BY DEF Seat
  <1>2. CASE step = "rows"
    <2> DEFINE V == {v \in team : \A x \in rows : <<x.tech, x.sequence>> # <<v, 1>>}
               new == {FirstSeat(t) : t \in V}
    <2>1. Mirrored(step, rows, team) = rows \cup new  BY <1>2 DEF Mirrored
    <2>2. ASSUME team # {} PROVE \E x \in rows \cup new : x.tech \in team
      <3>1. PICK v \in team : TRUE  BY <2>2
      <3>2. CASE v \in V
        <4>1. FirstSeat(v) \in new /\ FirstSeat(v).tech = v  BY <3>2 DEF FirstSeat
        <4> HIDE DEF new
        <4> QED  BY <4>1
      <3>3. CASE v \notin V
        <4>1. PICK x \in rows : <<x.tech, x.sequence>> = <<v, 1>>  BY <3>1, <3>3
        <4>2. x.tech = v  BY <4>1
        <4> HIDE DEF new
        <4> QED  BY <4>2
      <3> QED  BY <3>2, <3>3
    <2> HIDE DEF new
    <2> QED  BY <1>2, <2>1, <2>2 DEF Seated
  <1>3. CASE step = "retire"
    <2> DEFINE f(x) == [x EXCEPT !.current = x.current /\ x.tech \in team]
    <2>1. Mirrored(step, rows, team) = {f(x) : x \in rows}  BY <1>3 DEF Mirrored
    <2>2. ASSUME NEW x \in rows PROVE f(x).tech = x.tech
      <3>1. x \in Seat  OBVIOUS
      <3> QED  BY <3>1 DEF Seat
    <2> HIDE DEF f
    <2> QED  BY <1>3, <2>1, <2>2
  <1>4. CASE step = "current"
    <2> DEFINE f(x) == [x EXCEPT !.current = x.current \/ x.tech \in team]
    <2>1. Mirrored(step, rows, team) = {f(x) : x \in rows}  BY <1>4 DEF Mirrored
    <2>2. ASSUME NEW x \in rows PROVE f(x).tech = x.tech /\ (x.current \/ x.tech \in team => f(x).current)
      <3> DEFINE c == x.current \/ x.tech \in team
      <3>1. c \in BOOLEAN /\ x \in Seat  BY <1>1
      <3>2. f(x) = [x EXCEPT !.current = c]  OBVIOUS
      <3> HIDE DEF c, f
      <3>3. f(x).tech = x.tech /\ f(x).current = c
        <4>1. x \in [tech : Techs, sequence : Nat, current : BOOLEAN, replacedBy : Techs \cup {"nobody"}]
          BY <3>1 DEF Seat
        <4> QED  BY <3>2, <4>1
      <3> QED  BY <3>3 DEF c
    <2> HIDE DEF f
    <2>3. \A x \in rows : f(x) \in Mirrored(step, rows, team)  BY <2>1
    <2> QED  BY <1>4, <2>1, <2>2, <2>3 DEF Seated
  <1> QED  BY <1>2, <1>3, <1>4

LEMMA RowSeats ==
    ASSUME SeatInv, duty \cap Unseating = {}, NEW s \in Threads, NEW step \in {"rows", "retire", "current"},
           SaveSeats(s, step)
    PROVE  SeatStep(s)
  <1> DEFINE j == session[s]
             i == j.id
             now == Mirrored(step, seats[i], j.team)
  <1>0. Inv /\ step \in StepNames /\ Doing(s, step)  BY DEF SeatInv, StepNames, SaveSeats
  <1>1. /\ s \in Busy
        /\ step = "rows" => j.todo = AfterCrew /\ j.team # {}
        /\ step = "retire" => j.todo = AfterRows
        /\ step = "current" => j.todo = AfterRetire
        /\ step \in {"retire", "current"} =>
              i \in 1 .. Len(ticket) /\ \E x \in seats[i] : x.tech \in j.team
    BY <1>0, PlanNow
  <1>2. CASE step = "rows" /\ ~Found(i)
    <2>1. Fail(s)  BY <1>2 DEF SaveSeats
    <2>2. i \notin 1 .. Len(ticket)  BY <1>0, <1>2, TablesAre DEF Found, SeatInv
    <2> QED  BY <1>0, <2>1, <2>2, FailSeats DEF Soon
  <1>3. CASE ~(step = "rows" /\ ~Found(i))
    <2>1. seats' = [seats EXCEPT ![i] = Mirrored(step, @, j.team)] /\ Continue(s, <<>>, j.seen)
          /\ UNCHANGED <<row, paid, ticket, attempts, crew>>
      BY <1>3 DEF SaveSeats
    <2>2. i \in 1 .. Len(ticket)  BY <1>0, <1>1, <1>3, TablesAre DEF Found
    <2>3. seats[i] \in SUBSET Seat /\ j.team \in SUBSET Techs  BY <1>0, <1>1, <2>2, TablesAre, KnownIs
    <2>4. seats' = [seats EXCEPT ![i] = now]  BY <2>1
    <2>5. /\ \A x \in seats[i] : \E y \in now : y.tech = x.tech
          /\ step = "rows" => \E x \in now : x.tech \in j.team
          /\ step = "current" => Seated(now)
      BY <1>1, <2>3, MirrorSeats
    <2> HIDE DEF now
    <2>6. seats'[i] = now /\ \A k \in 1 .. Len(ticket) : k # i => seats'[k] = seats[k]
      BY <1>0, <2>2, <2>4 DEF Inv, TypeOK
    <2>7. /\ Steady(s)
          /\ session'[s] # Idle => session'[s].todo = Tail(j.todo)
          /\ session'[s] = Idle => Tail(j.todo) = <<>>
      BY <1>0, <1>1, <2>1, GoesOn
    <2>8. session'[s] # Idle => session'[s].id = i /\ session'[s].team = j.team
      BY <2>7 DEF Steady
    <2>9. \/ Seated(seats'[i])
          \/ session'[s] # Idle /\ Soon(session'[s], i)
      <3>1. CASE step = "rows"
        <4>1. Tail(j.todo) = AfterRows /\ AfterRows # <<>>  BY <1>1, <3>1, PlanTails DEF AfterRows
        <4> QED  BY <2>7, <2>8, <4>1 DEF Soon
      <3>2. CASE step = "retire"
        <4>1. Tail(j.todo) = AfterRetire /\ AfterRetire # <<>>  BY <1>1, <3>2, PlanTails DEF AfterRetire
        <4> QED  BY <2>7, <2>8, <4>1 DEF Soon
      <3>3. CASE step = "current"  BY <2>5, <2>6, <3>3
      <3> QED  BY <3>1, <3>2, <3>3
    <2>10. session'[s] # Idle => CrewPlan(session'[s], Len(ticket'), seats')
      <3>1. CASE step = "rows"
        <4>1. Tail(j.todo) = AfterRows  BY <1>1, <3>1, PlanTails
        <4> QED  BY <2>1, <2>2, <2>5, <2>6, <2>7, <2>8, <3>1, <4>1 DEF CrewPlan
      <3>2. CASE step = "retire"
        <4>1. Tail(j.todo) = AfterRetire  BY <1>1, <3>2, PlanTails
        <4>2. \E x \in now : x.tech \in j.team  BY <1>1, <2>5, <3>2
        <4> QED  BY <2>1, <2>2, <2>6, <2>7, <2>8, <4>1, <4>2 DEF CrewPlan
      <3>3. CASE step = "current"
        <4>1. Tail(j.todo) \in Seq(StepNames \ CrewSteps)  BY <1>1, <3>3, PlanTails
        <4> QED  BY <2>7, <4>1 DEF CrewPlan
      <3> QED  BY <3>1, <3>2, <3>3
    <2>11. ASSUME NEW k \in 1 .. Len(ticket), k # i
           PROVE  ~Soon(j, k) /\ seats'[k] = seats[k] /\ crew'[k] = crew[k]
      BY <2>1, <2>6, <2>11 DEF Soon
    <2>12. \A k \in 1 .. Len(ticket) : \A x \in seats[k] : \E y \in seats'[k] : y.tech = x.tech
      BY <2>5, <2>6
    <2> HIDE DEF i, j
    <2> QED  BY <2>1, <2>7, <2>9, <2>10, <2>11, <2>12 DEF SeatStep, i, j
  <1> QED  BY <1>2, <1>3

LEMMA HandoverSeats ==
    ASSUME SeatInv, duty \cap Unseating = {}, NEW s \in Threads, SaveHandover(s)
    PROVE  SeatStep(s)
  <1> DEFINE j == session[s]
             i == j.id
  <1>0. Inv /\ "handover" \in StepNames /\ Doing(s, "handover")  BY DEF SeatInv, StepNames, SaveHandover
  <1>1. s \in Busy /\ j.todo = <<"handover">>  BY <1>0, PlanNow
  <1>2. \A k : ~Soon(j, k)  BY <1>1, NotSoon
  <1>3. CASE ~Found(i)
    <2>1. Fail(s)  BY <1>3 DEF SaveHandover
    <2> QED  BY <1>0, <1>2, <2>1, FailSeats
  <1>4. CASE Found(i)
    <2>1. /\ i \in 1 .. Len(ticket) /\ j.team # {}
          /\ \E rows \in SUBSET Seat, order \in Orders(j.team) :
                /\ Bounded(rows) /\ seats[i] \subseteq rows
                /\ seats' = [seats EXCEPT ![i] = Relieved(rows, order)]
      BY <1>0, <1>4, HandoverIs
    <2>2. PICK rows \in SUBSET Seat, order \in Orders(j.team) :
             /\ Bounded(rows) /\ seats[i] \subseteq rows
             /\ seats' = [seats EXCEPT ![i] = Relieved(rows, order)]
      BY <2>1
    <2> DEFINE now == Relieved(rows, order)
    <2>3. /\ Seated(now)
          /\ \A x \in rows : \E y \in now : y.tech = x.tech
      <3>1. j.team \in SUBSET Techs  BY <1>0, <1>1, KnownIs
      <3> QED  BY <2>1, <2>2, <3>1, RelievedIs DEF Seated
    <2>4. seats' = [seats EXCEPT ![i] = now]  BY <2>2
    <2> HIDE DEF now
    <2>5. seats'[i] = now /\ \A k \in 1 .. Len(ticket) : k # i => seats'[k] = seats[k]
      BY <1>0, <2>1, <2>4 DEF Inv, TypeOK
    <2>6. crew' = [crew EXCEPT ![i] = j.team]  BY <1>4 DEF SaveHandover
    <2>7. \A k \in 1 .. Len(ticket) : k # i => crew'[k] = crew[k]  BY <1>0, <2>1, <2>6 DEF Inv, TypeOK
    <2>8. Steady(s) /\ Len(ticket') = Len(ticket)
      <3>1. PICK table \in Seq(Ticket), t \in Ticket :
               Len(table) = Len(ticket) /\ AfterSave(s, table, t, Known(s, j.cust))
        BY <1>0, <1>4, HandoverSave
      <3>2. Known(s, j.cust) \in Row  BY <1>0, <1>1, KnownIs
      <3> QED  BY <1>0, <1>1, <3>1, <3>2, AfterSaveIs
    <2>9. session'[s] # Idle => session'[s].todo \in Seq(StepNames \ CrewSteps)
      <3>1. Tail(j.todo) = <<>>  BY <1>1, PlanTails
      <3>2. <<"create">> \o <<>> = <<"create">>  OBVIOUS
      <3>3. "create" \in StepNames \ CrewSteps  BY DEF StepNames, CrewSteps
      <3>4. <<"create">> \in Seq(StepNames \ CrewSteps) /\ <<>> \in Seq(StepNames \ CrewSteps)  BY <3>3
      <3>5. session'[s] # Idle => session'[s].todo \in {<<>>, <<"create">>}
        BY <2>8, <3>1, <3>2 DEF Steady
      <3> QED  BY <3>4, <3>5
    <2>10. \A k \in 1 .. Len(ticket) : \A x \in seats[k] : \E y \in seats'[k] : y.tech = x.tech
      BY <2>2, <2>3, <2>5
    <2> HIDE DEF i, j
    <2> QED  BY <1>2, <2>3, <2>5, <2>7, <2>8, <2>9, <2>10 DEF SeatStep, CrewPlan, i, j
  <1> QED  BY <1>3, <1>4

\* Every other step keeps the crews and their rows.
LEMMA StepSeats ==
    ASSUME SeatInv, duty \cap Unseating = {}, NEW s \in Threads, s \in Busy, Step(s), Stepped(s)
    PROVE  SeatStep(s)
  <1>0. Inv  BY DEF SeatInv
  <1>1. ASSUME UNCHANGED <<crew, seats>> PROVE KeepsCrews
    <2>1. Len(crew') = Len(ticket') /\ Len(crew) = Len(ticket)  BY <1>0 DEF Stepped, CrewTyped, Inv, TypeOK
    <2>2. Len(ticket') = Len(ticket)  BY <1>1, <2>1
    <2> QED  BY <1>1, <2>2 DEF KeepsCrews
  <1>2. ASSUME NEW step \in StepNames \ CrewSteps, Doing(s, step), UNCHANGED <<crew, seats>> PROVE SeatStep(s)
    BY <1>1, <1>2, PlainSeats
  <1>3. {"ticket", "calls", "attempt", "place", "create", "install", "close", "reopen", "touch", "approve",
         "save", "record", "first", "installed", "payment", "all"} \subseteq StepNames \ CrewSteps
    BY DEF StepNames, CrewSteps
  <1>4. CASE SaveCrew(s)  BY <1>4, CrewSeats
  <1>5. CASE SaveSeats(s, "rows") \/ SaveSeats(s, "retire") \/ SaveSeats(s, "current")  BY <1>5, RowSeats
  <1>6. CASE SaveHandover(s)  BY <1>6, HandoverSeats
  <1>7. CASE CreateTicket(s)
    <2>1. /\ Doing(s, "create") /\ Insert(NewTicket(session[s].cust, "INSTALLATION"), ticket)
          /\ paid' = paid
      BY <1>7 DEF CreateTicket
    <2>2. session[s].cust \in Customers /\ "INSTALLATION" \in Types /\ paid' \subseteq Customers
      BY <1>0, <2>1, KnownIs DEF Types, Inv, TypeOK
    <2>3. /\ Len(ticket') = Len(ticket) + 1
          /\ \A i \in 1 .. Len(ticket) : crew'[i] = crew[i] /\ seats'[i] = seats[i]
          /\ crew'[Len(ticket) + 1] = {}
      BY <1>0, <2>1, <2>2, InsertIs
    <2>4. \A i \in 1 .. Len(ticket') : i \in 1 .. Len(ticket) \/ i = Len(ticket) + 1
      BY <1>0, <2>3, TablesAre
    <2>5. KeepsCrews  BY <2>3, <2>4 DEF KeepsCrews
    <2> QED  BY <1>3, <2>1, <2>5, PlainSeats
  <1>8. CASE SaveTicket(s)  BY <1>2, <1>3, <1>8 DEF SaveTicket, Crewless
  <1>9. CASE SaveCalls(s)  BY <1>2, <1>3, <1>9 DEF SaveCalls, Crewless, Fail, Tables
  <1>10. CASE SaveAttempt(s)  BY <1>2, <1>3, <1>10 DEF SaveAttempt, Fail, Tables
  <1>11. CASE SavePlace(s)  BY <1>2, <1>3, <1>11 DEF SavePlace, Crewless, Fail, Tables
  <1>12. CASE \/ MarkLine(s, "install", "installed") \/ MarkLine(s, "close", "closed_not_installed")
              \/ MarkLine(s, "reopen", "pending_installation")
    BY <1>2, <1>3, <1>12 DEF MarkLine, Crewless
  <1>13. CASE TouchCustomer(s) \/ ApproveCustomer(s) \/ SaveAsRead(s) \/ RecordCustomer(s)
    BY <1>2, <1>3, <1>13 DEF TouchCustomer, ApproveCustomer, SaveAsRead, RecordCustomer, Crewless
  <1>14. CASE CompleteFirst(s) \/ SaveInstalled(s)
    BY <1>2, <1>3, <1>14 DEF CompleteFirst, SaveInstalled, Crewless
  <1>15. CASE SavePayment(s) \/ CompleteAll(s)  BY <1>2, <1>3, <1>15 DEF SavePayment, CompleteAll
  <1> QED
    BY <1>4, <1>5, <1>6, <1>7, <1>8, <1>9, <1>10, <1>11, <1>12, <1>13, <1>14, <1>15 DEF Step

\* What is left of the others' plans and promises after a step of thread s.
LEMMA SeatStepInv ==
    ASSUME SeatInv, duty \cap Unseating = {}, NEW s \in Threads, s \in Busy, Step(s), Stepped(s)
    PROVE  /\ \A q \in Busy' : CrewPlan(session'[q], Len(ticket'), seats')
           /\ \A i \in 1 .. Len(ticket') : crew'[i] # {} =>
                 Seated(seats'[i]) \/ \E q \in Busy' : Soon(session'[q], i)
  <1>1. SeatStep(s)  BY StepSeats
  <1>2. Len(ticket) \in Nat /\ Len(ticket') \in {Len(ticket), Len(ticket) + 1}
    BY TablesAre DEF SeatInv, Stepped, TicketsMove
  <1>3. \A q \in Threads \ {s} : session'[q] = session[q]  BY <1>1 DEF SeatStep, Steady
  <1>4. ASSUME NEW q \in Busy' PROVE CrewPlan(session'[q], Len(ticket'), seats')
    <2>1. q \in Threads /\ session'[q] # Idle  BY DEF Busy, Idle
    <2>2. CASE q = s  BY <1>1, <2>1, <2>2 DEF SeatStep
    <2>3. CASE q # s
      <3> DEFINE j == session[q]
      <3>1. session'[q] = j /\ q \in Busy  BY <1>3, <2>1, <2>3 DEF Busy
      <3>2. CrewPlan(j, Len(ticket), seats)  BY <3>1 DEF SeatInv
      <3> HIDE DEF j
      <3>3. ASSUME j.id \in 1 .. Len(ticket), \E x \in seats[j.id] : x.tech \in j.team
            PROVE  j.id \in 1 .. Len(ticket') /\ \E x \in seats'[j.id] : x.tech \in j.team
        <4>1. PICK x \in seats[j.id] : x.tech \in j.team  BY <3>3
        <4>2. PICK y \in seats'[j.id] : y.tech = x.tech  BY <1>1, <3>3 DEF SeatStep
        <4> QED  BY <1>2, <3>3, <4>1, <4>2
      <3>4. CrewPlan(j, Len(ticket'), seats')  BY <3>2, <3>3 DEF CrewPlan
      <3> QED  BY <3>1, <3>4
    <2> QED  BY <2>2, <2>3
  <1>5. ASSUME NEW i \in 1 .. Len(ticket'), crew'[i] # {}
        PROVE  Seated(seats'[i]) \/ \E q \in Busy' : Soon(session'[q], i)
    <2>1. CASE Seated(seats'[i])  BY <2>1
    <2>2. CASE session'[s] # Idle /\ Soon(session'[s], i)
      <3>1. session'[s].todo # <<>>  BY <2>2, NotSoon
      <3>2. s \in Busy'  BY <3>1 DEF Busy
      <3> QED  BY <2>2, <3>2
    <2>3. CASE /\ i \in 1 .. Len(ticket) /\ crew[i] # {} /\ ~Soon(session[s], i)
               /\ Seated(seats[i]) => Seated(seats'[i])
      <3>1. Seated(seats[i]) \/ \E q \in Busy : Soon(session[q], i)  BY <2>3 DEF SeatInv
      <3>2. ASSUME NEW q \in Busy, Soon(session[q], i) PROVE q \in Busy' /\ Soon(session'[q], i)
        <4>1. q \in Threads /\ q # s  BY <2>3, <3>2 DEF Busy
        <4>2. session'[q] = session[q]  BY <1>3, <4>1
        <4> QED  BY <3>2, <4>1, <4>2 DEF Busy
      <3> QED  BY <2>3, <3>1, <3>2
    <2> QED  BY <1>1, <1>5, <2>1, <2>2, <2>3 DEF SeatStep
  <1> QED  BY <1>4, <1>5

\* What a handler starts with.
LEMMA BegunPlan ==
    ASSUME NEW s \in Threads, NEW h \in duty, duty \cap Unseating = {}, Begun(s, h), NEW n, NEW table
    PROVE  session'[s].job.status # "DELETED" /\ CrewPlan(session'[s], n, table)
  <1> DEFINE j == session'[s]
  <1>1. Plans(h, j.todo, j.team) /\ Copies(h, j.job) /\ h # "edit"  BY DEF Begun, Unseating
  <1> HIDE DEF j
  <1>2. CASE h = "assign"  BY <1>1, <1>2 DEF Plans, Copies, CrewPlan, Assigning, j
  <1>3. CASE h = "undispatch"  BY <1>1, <1>3 DEF Plans, Copies, CrewPlan, j
  <1>4. CASE h = "replace"  BY <1>1, <1>4 DEF Plans, Copies, CrewPlan, j
  <1>5. CASE h \notin {"assign", "undispatch", "replace"}  BY <1>1, <1>5 DEF Plans, Copies, CrewPlan, j
  <1> QED  BY <1>2, <1>3, <1>4, <1>5

LEMMA SeatNext == SeatInv /\ [Next]_vars => SeatInv'
  <1> SUFFICES ASSUME SeatInv, [Next]_vars PROVE SeatInv'  OBVIOUS
  <1>1. Inv /\ Inv'  BY NextInv DEF SeatInv
  <1>2. duty' = duty  BY <1>1, NextIs, AddCustomerIs, PayIs, SuspendIs DEF Stepped, Steady, Begun, AtOnce, vars
  <1> DEFINE Goal == /\ \A i \in 1 .. Len(ticket') : ticket'[i].status # "DELETED"
                     /\ \A q \in Busy' : /\ session'[q].job.status # "DELETED"
                                         /\ CrewPlan(session'[q], Len(ticket'), seats')
                     /\ \A i \in 1 .. Len(ticket') : crew'[i] # {} =>
                           Seated(seats'[i]) \/ \E q \in Busy' : Soon(session'[q], i)
  <1> SUFFICES ASSUME duty \cap Unseating = {} PROVE Goal
    BY <1>1, <1>2 DEF SeatInv, CrewPlan, Seated, Soon
  <1>3. /\ \A i \in 1 .. Len(ticket) : ticket[i].status # "DELETED"
        /\ \A q \in Busy : session[q].job.status # "DELETED" /\ CrewPlan(session[q], Len(ticket), seats)
        /\ \A i \in 1 .. Len(ticket) : crew[i] # {} =>
              Seated(seats[i]) \/ \E q \in Busy : Soon(session[q], i)
    BY DEF SeatInv
  <1>4. ASSUME NEW s \in Threads, s \in Busy, Step(s), Stepped(s) PROVE Goal
    <2>1. session[s].job.status # "DELETED"  BY <1>3, <1>4
    <2>2. ASSUME NEW i \in 1 .. Len(ticket') PROVE ticket'[i].status # "DELETED"
      <3>1. Moved(s, i, ticket'[i])  BY <1>4 DEF Stepped, TicketsMove
      <3> QED  BY <1>3, <2>1, <3>1 DEF Moved, Reported, NewTicket
    <2>3. \A q \in Busy' : session'[q].job.status # "DELETED"
      BY <1>1, <1>3, <1>4, CopiesOfSteps DEF Stepped
    <2> QED  BY <1>4, <2>2, <2>3, SeatStepInv
  <1>5. ASSUME NEW s \in Threads, NEW h \in duty, Begun(s, h) PROVE Goal
    <2>1. /\ session' = [session EXCEPT ![s] = session'[s]] /\ UNCHANGED Tables /\ session[s] = Idle
      BY <1>5 DEF Begun
    <2>2. \A q \in Threads : q # s => session'[q] = session[q]  BY <1>1, <2>1 DEF Inv, TypeOK
    <2>3. ASSUME NEW q \in Busy'
          PROVE  session'[q].job.status # "DELETED" /\ CrewPlan(session'[q], Len(ticket'), seats')
      <3>1. CASE q = s  BY <1>5, <3>1, BegunPlan
      <3>2. CASE q # s
        <4>1. session'[q] = session[q] /\ q \in Busy  BY <2>2, <3>2 DEF Busy
        <4> QED  BY <1>3, <2>1, <4>1 DEF Tables
      <3> QED  BY <3>1, <3>2
    <2>4. ASSUME NEW q \in Busy PROVE q \in Busy' /\ session'[q] = session[q]
      <3>1. q \in Threads /\ q # s  BY <2>1 DEF Busy, Idle
      <3> QED  BY <2>2, <3>1 DEF Busy
    <2> QED  BY <1>3, <2>1, <2>3, <2>4 DEF Tables
  <1>6. ASSUME AtOnce, CrewsKept PROVE Goal
    <2>1. KeepsCrews /\ session' = session  BY <1>6 DEF CrewsKept, AtOnce, Unseating
    <2>2. ASSUME NEW i \in 1 .. Len(ticket') PROVE ticket'[i].status # "DELETED"
      <3>1. Placed(i, ticket'[i]) /\ "delete" \notin duty  BY <1>6 DEF AtOnce, Unseating
      <3>2. \A c, kind : NewTicket(c, kind).status = "PENDING"  BY DEF NewTicket
      <3> QED  BY <1>3, <3>1, <3>2 DEF Placed
    <2>3. Busy' = Busy  BY <2>1 DEF Busy
    <2>4. ASSUME NEW q \in Busy PROVE CrewPlan(session[q], Len(ticket'), seats')
      <3>1. CrewPlan(session[q], Len(ticket), seats)  BY <1>3
      <3>2. Len(ticket) \in Nat /\ Len(ticket') \in {Len(ticket), Len(ticket) + 1}
        BY <1>1, <1>6, TablesAre DEF AtOnce
      <3> QED  BY <2>1, <3>1, <3>2 DEF CrewPlan, KeepsCrews
    <2>5. ASSUME NEW i \in 1 .. Len(ticket'), crew'[i] # {}
          PROVE  Seated(seats'[i]) \/ \E q \in Busy : Soon(session[q], i)
      <3>1. i \in 1 .. Len(ticket) /\ crew[i] # {} /\ seats'[i] = seats[i]
        BY <2>1, <2>5 DEF KeepsCrews
      <3> QED  BY <1>3, <3>1
    <2> QED  BY <1>3, <2>1, <2>2, <2>3, <2>4, <2>5
  <1>7. CASE UNCHANGED vars
    <2>1. Busy' = Busy  BY <1>7 DEF vars, Busy
    <2> QED  BY <1>3, <1>7, <2>1 DEF vars
  <1> QED  BY <1>1, <1>4, <1>5, <1>6, <1>7, NextIs, AddCustomerIs, PayIs, SuspendIs

\* With nothing in flight a ticket with technicians has a current row in the
\* hand-over history, with any number of threads, tickets, assignments and
\* hand-overs at once, as long as nobody edits a crew or deletes a ticket.
THEOREM SomebodyIsSeated == Spec => [](duty \cap Unseating = {} => SomeoneIsSeated)
  <1>1. Init => SeatInv
    <2> SUFFICES ASSUME Init PROVE SeatInv  OBVIOUS
    <2>1. Inv /\ Busy = {} /\ Len(ticket) = 0  BY InitInv, EmptySeq DEF Init, Busy, Idle
    <2> QED  BY <2>1 DEF SeatInv
  <1>2. SeatInv => (duty \cap Unseating = {} => SomeoneIsSeated)
    <2> SUFFICES ASSUME SeatInv, duty \cap Unseating = {}, Quiet, NEW i \in DOMAIN ticket, crew[i] # {}
                 PROVE  Current(i) # {}
      BY DEF SomeoneIsSeated
    <2>1. Seated(seats[i])  BY TablesAre DEF SeatInv, Quiet
    <2> QED  BY <2>1 DEF Seated, Current
  <1> QED  BY <1>1, <1>2, SeatNext, PTL DEF Spec
=============================================================================
