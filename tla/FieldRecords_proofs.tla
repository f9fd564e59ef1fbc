------------------------ MODULE FieldRecords_proofs ------------------------
(* Theorems about FieldRecords for every value of its constants. *)
EXTENDS FieldRecords, SequenceTheorems, FiniteSetTheorems, WellFoundedInduction, TLAPS

-----------------------------------------------------------------------------
(* Numbers and sequences *)

\* A set of naturals has a least member, and a bounded one a greatest.
LEMMA MinIn ==
    ASSUME NEW S, S \subseteq Nat, S # {}
    PROVE  Min(S) \in S
  <1> DEFINE R == OpToRel(<, Nat)
  <1>1. PICK x \in S : \A y \in S : ~(<<y, x>> \in R)
    <2> HIDE DEF R
    <2>1. IsWellFoundedOn(R, Nat)  BY NatLessThanWellFounded DEF R
    <2> QED  BY <2>1, WFMin
  <1>2. \A y \in S : ~(y < x)  BY <1>1 DEF OpToRel
  <1> HIDE DEF R
  <1>3. \A y \in S : x <= y  BY <1>2
  <1> QED  BY <1>3 DEF Min

LEMMA LastIn ==
    ASSUME NEW S, NEW n \in Nat, S \subseteq 1 .. n, S # {}
    PROVE  (CHOOSE i \in S : \A j \in S : j <= i) \in S
  <1> DEFINE T == {n - m : m \in S}
  <1>1. T \subseteq Nat
    <2>1. ASSUME NEW m \in S PROVE n - m \in Nat
      <3>1. m \in 1 .. n  OBVIOUS
      <3> QED  BY <3>1
    <2> QED  BY <2>1
  <1>2. T # {}  OBVIOUS
  <1>3. PICK x \in T : \A y \in T : x <= y
    <2> HIDE DEF T
    <2> DEFINE R == OpToRel(<, Nat)
    <2>1. PICK x \in T : \A y \in T : ~(<<y, x>> \in R)
      <3> HIDE DEF R
      <3>1. IsWellFoundedOn(R, Nat)  BY NatLessThanWellFounded DEF R
      <3> QED  BY <1>1, <1>2, <3>1, WFMin
    <2>2. \A y \in T : ~(y < x)  BY <1>1, <2>1 DEF OpToRel
    <2> HIDE DEF R
    <2>3. \A y \in T : x <= y  BY <1>1, <2>2
    <2> QED  BY <2>3
  <1>4. PICK h \in S : x = n - h  OBVIOUS
  <1>5. \A m \in S : m <= h
    <2> SUFFICES ASSUME NEW m \in S PROVE m <= h  OBVIOUS
    <2>1. n - h <= n - m  BY <1>3, <1>4
    <2>2. m \in 1 .. n /\ h \in 1 .. n  OBVIOUS
    <2> HIDE DEF T
    <2> QED  BY <2>1, <2>2
  <1> QED  BY <1>5

LEMMA SeqWrite ==
    ASSUME NEW S, NEW q \in Seq(S), NEW i \in 1 .. Len(q), NEW e \in S
    PROVE  /\ [q EXCEPT ![i] = e] \in Seq(S)
           /\ Len([q EXCEPT ![i] = e]) = Len(q)
           /\ \A k \in 1 .. Len(q) : [q EXCEPT ![i] = e][k] = IF k = i THEN e ELSE q[k]
  BY ExceptSeq

LEMMA SeqAdd ==
    ASSUME NEW S, NEW q \in Seq(S), NEW e \in S
    PROVE  /\ Append(q, e) \in Seq(S) /\ Len(Append(q, e)) = Len(q) + 1 /\ Len(q) \in Nat
           /\ \A k \in 1 .. Len(q) : Append(q, e)[k] = q[k]
           /\ Append(q, e)[Len(q) + 1] = e
  BY AppendProperties

-----------------------------------------------------------------------------
(* What holds of the tables and of a request under way *)

\* A DispatchRecord whose days given are not counted.
Entry == [cust : Customers \cup {NoOne}, num : Numbers \cup {NoNumber}, from : Nat,
          done : BOOLEAN, at : Nat, given : Int]
Alarm == [about : Numbers \cup {NameOf[a] : a \in Applicants}, at : Nat, red : BOOLEAN]

Tables ==
    /\ record \in Seq(Record) /\ log \in Seq(Entry) /\ ticket \in Seq(Ticket)
    /\ alert \in Seq(Alarm)
    /\ waiting \subseteq Applicants /\ now \in Nat

\* A customer has sent a concern with this number.
Sent(c, n) == \E i \in DOMAIN log : log[i].cust = c /\ log[i].num = n

\* Every number is of one customer, and of one ticket.
Numbered ==
    /\ \A i, k \in DOMAIN log :
          ~Crowded /\ log[i].cust # NoOne /\ log[k].cust # NoOne /\ log[i].num = log[k].num
              => log[i].cust = log[k].cust
    /\ \A r \in DOMAIN record : record[r].cust # NoOne => Sent(record[r].cust, record[r].num)
    /\ \A k \in DOMAIN ticket : Sent(ticket[k].cust, ticket[k].num)
    /\ \A k, m \in DOMAIN ticket :
          ticket[k].st # "gone" /\ ticket[m].st # "gone" /\ ticket[k].num = ticket[m].num => k = m

\* An entry made of a record is done, is of that record's concern and is alone.
Linked ==
    /\ \A i \in DOMAIN log : log[i].from # 0 =>
          /\ log[i].done /\ log[i].from \in DOMAIN record
          /\ log[i].cust = record[log[i].from].cust /\ log[i].num = record[log[i].from].num
    /\ \A i, k \in DOMAIN log : log[i].from # 0 /\ log[i].from = log[k].from => i = k

\* A copy of a row that is saved whole is of the row it is saved over.
CopyOf(r, row) ==
    /\ r \in DOMAIN record /\ row \in Record
    /\ row.cust = record[r].cust /\ row.num = record[r].num
\* The list of open entries the rebate task walks.
ListOf(todo, rows) ==
    /\ todo \subseteq DOMAIN log
    /\ \A i \in todo :
          /\ rows[i] \in Entry /\ rows[i].from = 0 /\ log[i].from = 0
          /\ rows[i].cust = log[i].cust /\ rows[i].num = log[i].num
Lates(back, todo) ==
    \/ back = "applicants" /\ todo \subseteq Applicants
    \/ back = "tickets" /\ todo \subseteq DOMAIN ticket

Holds(j) ==
    \/ j = Idle
    \/ /\ j.h = "submit" /\ DOMAIN j = {"h", "at", "cust", "num", "log"}
       /\ j.at \in {"record", "ticket"} /\ j.cust \in Customers /\ j.num \in Numbers
       /\ j.log \in Nat /\ Sent(j.cust, j.num)
    \/ /\ j.h \in {"dispatch", "undispatch", "done", "form"} /\ DOMAIN j = {"h", "at", "id", "row"}
       /\ j.at \in {"save", "log", "link"} /\ CopyOf(j.id, j.row)
    \/ j.h = "form" /\ j.at = "customer"
    \/ /\ j.h = "sla" /\ DOMAIN j = {"h", "at", "rows", "todo"}
       /\ j.at = "next" /\ ListOf(j.todo, j.rows)
    \/ /\ j.h = "sla" /\ DOMAIN j = {"h", "at", "rows", "todo", "id", "days", "cust", "row"}
       /\ j.at \in {"account", "rebate", "given"} /\ ListOf(j.todo, j.rows) /\ j.id \in j.todo
    \/ /\ j.h = "check" /\ DOMAIN j = {"h", "at", "todo"}
       /\ j.at \in {"applicants", "tickets"} /\ Lates(j.at, j.todo)
    \/ /\ j.h = "check" /\ DOMAIN j = {"h", "at", "back", "todo", "about", "red"}
       /\ j.at = "raise" /\ j.back \in {"applicants", "tickets"} /\ Lates(j.back, j.todo)
       /\ j.about \in Numbers \cup {NameOf[a] : a \in Applicants} /\ j.red \in BOOLEAN

Sessions == DOMAIN session = Threads /\ \A s \in Threads : Holds(session[s])

Inv == Tables /\ Numbered /\ Linked /\ Sessions

-----------------------------------------------------------------------------
(* What every step keeps of the tables *)

\* Rows are added, and keep their customer and their number.
Grown ==
    /\ DOMAIN record \subseteq DOMAIN record' /\ DOMAIN log \subseteq DOMAIN log'
    /\ DOMAIN ticket \subseteq DOMAIN ticket'
    /\ \A r \in DOMAIN record : record'[r].cust = record[r].cust /\ record'[r].num = record[r].num
    /\ \A i \in DOMAIN log : log'[i].cust = log[i].cust /\ log'[i].num = log[i].num
    /\ \A i \in DOMAIN log : log[i].from = 0 => log'[i].from = 0

LEMMA StillSent ==
    ASSUME Grown, NEW c, NEW n, Sent(c, n)
    PROVE  Sent(c, n)'
  <1>1. PICK i \in DOMAIN log : log[i].cust = c /\ log[i].num = n  BY DEF Sent
  <1>2. i \in DOMAIN log' /\ log'[i].cust = c /\ log'[i].num = n  BY <1>1 DEF Grown
  <1> QED  BY <1>2 DEF Sent

LEMMA StillCopy ==
    ASSUME Grown, NEW r, NEW row, CopyOf(r, row)
    PROVE  CopyOf(r, row)'
  BY DEF Grown, CopyOf

LEMMA StillList ==
    ASSUME Grown, NEW todo, NEW rows, ListOf(todo, rows)
    PROVE  ListOf(todo, rows)'
  <1>1. todo \subseteq DOMAIN log'  BY DEF Grown, ListOf
  <1>2. ASSUME NEW i \in todo
        PROVE  /\ rows[i] \in Entry /\ rows[i].from = 0 /\ log'[i].from = 0
               /\ rows[i].cust = log'[i].cust /\ rows[i].num = log'[i].num
    BY <1>2 DEF Grown, ListOf
  <1> QED  BY <1>1, <1>2 DEF ListOf

\* What a thread holds stays true of it while others write.
LEMMA StillHolds ==
    ASSUME Grown, NEW j, Holds(j)
    PROVE  Holds(j)'
  <1>1. CASE j = Idle  BY <1>1 DEF Holds
  <1>2. CASE j.h = "submit" /\ DOMAIN j = {"h", "at", "cust", "num", "log"}
             /\ j.at \in {"record", "ticket"} /\ j.cust \in Customers /\ j.num \in Numbers
             /\ j.log \in Nat /\ Sent(j.cust, j.num)
    <2>1. Sent(j.cust, j.num)'  BY <1>2, StillSent
    <2> QED  BY <1>2, <2>1 DEF Holds
  <1>3. CASE j.h \in {"dispatch", "undispatch", "done", "form"} /\ DOMAIN j = {"h", "at", "id", "row"}
             /\ j.at \in {"save", "log", "link"} /\ CopyOf(j.id, j.row)
    <2>1. CopyOf(j.id, j.row)'  BY <1>3, StillCopy
    <2> QED  BY <1>3, <2>1 DEF Holds
  <1>4. CASE j.h = "form" /\ j.at = "customer"  BY <1>4 DEF Holds
  <1>5. CASE j.h = "sla" /\ DOMAIN j = {"h", "at", "rows", "todo"}
             /\ j.at = "next" /\ ListOf(j.todo, j.rows)
    <2>1. ListOf(j.todo, j.rows)'  BY <1>5, StillList
    <2> QED  BY <1>5, <2>1 DEF Holds
  <1>6. CASE j.h = "sla" /\ DOMAIN j = {"h", "at", "rows", "todo", "id", "days", "cust", "row"}
             /\ j.at \in {"account", "rebate", "given"} /\ ListOf(j.todo, j.rows) /\ j.id \in j.todo
    <2>1. ListOf(j.todo, j.rows)'  BY <1>6, StillList
    <2> QED  BY <1>6, <2>1 DEF Holds
  <1>7. CASE j.h = "check" /\ DOMAIN j = {"h", "at", "todo"}
             /\ j.at \in {"applicants", "tickets"} /\ Lates(j.at, j.todo)
    <2>1. Lates(j.at, j.todo)'  BY <1>7 DEF Lates, Grown
    <2> QED  BY <1>7, <2>1 DEF Holds
  <1>8. CASE j.h = "check" /\ DOMAIN j = {"h", "at", "back", "todo", "about", "red"}
             /\ j.at = "raise" /\ j.back \in {"applicants", "tickets"} /\ Lates(j.back, j.todo)
             /\ j.about \in Numbers \cup {NameOf[a] : a \in Applicants} /\ j.red \in BOOLEAN
    <2>1. Lates(j.back, j.todo)'  BY <1>8 DEF Lates, Grown
    <2> QED  BY <1>8, <2>1 DEF Holds
  <1> QED  BY <1>1, <1>2, <1>3, <1>4, <1>5, <1>6, <1>7, <1>8 DEF Holds

\* A thread that took a step, and all the others.
LEMMA SessionsStep ==
    ASSUME Sessions, Grown, NEW s \in Threads, NEW j, Go(s, j), Holds(j)'
    PROVE  Sessions'
  <1>1. DOMAIN session' = Threads  BY DEF Go, Sessions
  <1>2. ASSUME NEW t \in Threads PROVE Holds(session[t])'
    <2>1. CASE t = s
      <3>1. session'[t] = j  BY <2>1 DEF Go, Sessions
      <3> QED  BY <3>1
    <2>2. CASE t # s
      <3>1. session'[t] = session[t]  BY <2>2 DEF Go, Sessions
      <3>2. PICK k : k = session[t]  OBVIOUS
      <3>3. Holds(k)  BY <3>2 DEF Sessions
      <3>4. Holds(k)'  BY <3>3, StillHolds
      <3> QED  BY <3>1, <3>2, <3>4
    <2> QED  BY <2>1, <2>2
  <1> QED  BY <1>1, <1>2 DEF Sessions

LEMMA SessionsEnd ==
    ASSUME Sessions, Grown, NEW s \in Threads, End(s)
    PROVE  Sessions'
  <1>1. Go(s, Idle)  BY DEF Go, End
  <1>2. Holds(Idle)'  BY DEF Holds
  <1> QED  BY <1>1, <1>2, SessionsStep

LEMMA SessionsKept ==
    ASSUME Sessions, Grown, UNCHANGED session
    PROVE  Sessions'
  <1>1. ASSUME NEW t \in Threads PROVE Holds(session[t])'
    <2>1. PICK k : k = session[t]  OBVIOUS
    <2>2. Holds(k)'  BY <2>1, StillHolds DEF Sessions
    <2> QED  BY <2>1, <2>2
  <1> QED  BY <1>1 DEF Sessions

\* Nothing of the tables changes.
LEMMA NothingWritten ==
    ASSUME Inv, UNCHANGED Papers
    PROVE  Grown /\ Numbered' /\ Linked'
  <1> record' = record /\ log' = log /\ ticket' = ticket  BY DEF Papers
  <1>1. Grown  BY DEF Grown
  <1>2. Numbered'
    <2>1. \A c, n : Sent(c, n)' <=> Sent(c, n)  BY DEF Sent
    <2> QED  BY <2>1 DEF Inv, Numbered
  <1>3. Linked'  BY DEF Inv, Linked
  <1> QED  BY <1>1, <1>2, <1>3

-----------------------------------------------------------------------------
(* The ways a step writes to the tables *)

LEMMA RecordWritten ==
    ASSUME Inv, NEW r, NEW row, CopyOf(r, row), record' = [record EXCEPT ![r] = row],
           UNCHANGED <<log, ticket>>
    PROVE  record' \in Seq(Record) /\ record'[r] = row /\ Grown /\ Numbered' /\ Linked'
  <1>1. record \in Seq(Record) /\ r \in 1 .. Len(record) /\ row \in Record
    BY DEF Inv, Tables, CopyOf
  <1>2. /\ record' \in Seq(Record) /\ Len(record') = Len(record)
        /\ \A k \in 1 .. Len(record) : record'[k] = IF k = r THEN row ELSE record[k]
    BY <1>1, SeqWrite
  <1>3. DOMAIN record = 1 .. Len(record) /\ DOMAIN record' = 1 .. Len(record)  BY <1>1, <1>2
  <1>4. \A k \in DOMAIN record : record'[k].cust = record[k].cust /\ record'[k].num = record[k].num
    BY <1>2, <1>3 DEF CopyOf
  <1>5. Grown  BY <1>3, <1>4 DEF Grown
  <1>6. Numbered'
    <2>1. \A c, n : Sent(c, n)' <=> Sent(c, n)  BY DEF Sent
    <2> QED  BY <1>3, <1>4, <2>1 DEF Inv, Numbered
  <1>7. Linked'  BY <1>3, <1>4 DEF Inv, Linked
  <1> QED  BY <1>1, <1>2, <1>5, <1>6, <1>7

LEMMA RecordAdded ==
    ASSUME Inv, NEW row \in Record, record' = Append(record, row), UNCHANGED <<log, ticket>>,
           row.cust # NoOne => Sent(row.cust, row.num)
    PROVE  record' \in Seq(Record) /\ Grown /\ Numbered' /\ Linked'
  <1>1. record \in Seq(Record)  BY DEF Inv, Tables
  <1>2. /\ record' \in Seq(Record) /\ Len(record') = Len(record) + 1 /\ Len(record) \in Nat
        /\ \A k \in 1 .. Len(record) : record'[k] = record[k]
        /\ record'[Len(record) + 1] = row
    BY <1>1, SeqAdd
  <1>3. DOMAIN record = 1 .. Len(record) /\ DOMAIN record' = 1 .. Len(record) + 1  BY <1>1, <1>2
  <1>4. Grown  BY <1>2, <1>3 DEF Grown
  <1>5. Numbered'
    <2>1. \A c, n : Sent(c, n)' <=> Sent(c, n)  BY DEF Sent
    <2>2. \A k \in DOMAIN record' : record'[k].cust # NoOne => Sent(record'[k].cust, record'[k].num)
      <3>1. ASSUME NEW k \in DOMAIN record', record'[k].cust # NoOne
            PROVE Sent(record'[k].cust, record'[k].num)
        <4>1. CASE k = Len(record) + 1  BY <1>2, <3>1, <4>1
        <4>2. CASE k \in DOMAIN record  BY <1>2, <1>3, <3>1, <4>2 DEF Inv, Numbered
        <4> QED  BY <1>2, <1>3, <4>1, <4>2
      <3> QED  BY <3>1
    <2> QED  BY <2>1, <2>2 DEF Inv, Numbered
  <1>6. Linked'  BY <1>2, <1>3 DEF Inv, Linked
  <1> QED  BY <1>2, <1>4, <1>5, <1>6

LEMMA TicketWritten ==
    ASSUME Inv, NEW i \in DOMAIN ticket, NEW t \in Ticket, ticket' = [ticket EXCEPT ![i] = t],
           t.cust = ticket[i].cust, t.num = ticket[i].num,
           ticket[i].st = "gone" => t.st = "gone",
           UNCHANGED <<record, log>>
    PROVE  ticket' \in Seq(Ticket) /\ Grown /\ Numbered' /\ Linked'
  <1>1. ticket \in Seq(Ticket) /\ i \in 1 .. Len(ticket)  BY DEF Inv, Tables
  <1>2. /\ ticket' \in Seq(Ticket) /\ Len(ticket') = Len(ticket)
        /\ \A k \in 1 .. Len(ticket) : ticket'[k] = IF k = i THEN t ELSE ticket[k]
    BY <1>1, SeqWrite
  <1>3. DOMAIN ticket = 1 .. Len(ticket) /\ DOMAIN ticket' = 1 .. Len(ticket)  BY <1>1, <1>2
  <1>4. Grown  BY <1>3 DEF Grown
  <1>5. Numbered'
    <2>1. \A c, n : Sent(c, n)' <=> Sent(c, n)  BY DEF Sent
    <2>2. \A k \in DOMAIN ticket' :
            /\ k \in DOMAIN ticket /\ ticket'[k].num = ticket[k].num /\ ticket'[k].cust = ticket[k].cust
            /\ ticket'[k].st # "gone" => ticket[k].st # "gone"
      BY <1>2, <1>3
    <2> QED  BY <2>1, <2>2 DEF Inv, Numbered
  <1>6. Linked'  BY DEF Inv, Linked
  <1> QED  BY <1>2, <1>4, <1>5, <1>6

LEMMA TicketAdded ==
    ASSUME Inv, NEW t \in Ticket, ticket' = Append(ticket, t), Sent(t.cust, t.num),
           \A i \in DOMAIN ticket : ticket[i].num = t.num => ticket[i].st = "gone",
           UNCHANGED <<record, log>>
    PROVE  ticket' \in Seq(Ticket) /\ Grown /\ Numbered' /\ Linked'
  <1>1. ticket \in Seq(Ticket)  BY DEF Inv, Tables
  <1>2. /\ ticket' \in Seq(Ticket) /\ Len(ticket') = Len(ticket) + 1 /\ Len(ticket) \in Nat
        /\ \A k \in 1 .. Len(ticket) : ticket'[k] = ticket[k]
        /\ ticket'[Len(ticket) + 1] = t
    BY <1>1, SeqAdd
  <1>3. DOMAIN ticket = 1 .. Len(ticket) /\ DOMAIN ticket' = 1 .. Len(ticket) + 1  BY <1>1, <1>2
  <1>4. Grown  BY <1>2, <1>3 DEF Grown
  <1>5. Numbered'
    <2>1. \A c, n : Sent(c, n)' <=> Sent(c, n)  BY DEF Sent
    <2>2. \A k \in DOMAIN ticket' : (ticket'[k] = t /\ k = Len(ticket) + 1)
                                    \/ (k \in DOMAIN ticket /\ ticket'[k] = ticket[k])
      BY <1>2, <1>3
    <2>3. \A k \in DOMAIN ticket' : Sent(ticket'[k].cust, ticket'[k].num)
      BY <2>2 DEF Inv, Numbered
    <2>4. \A k, m \in DOMAIN ticket' :
            ticket'[k].st # "gone" /\ ticket'[m].st # "gone" /\ ticket'[k].num = ticket'[m].num => k = m
      BY <2>2 DEF Inv, Numbered
    <2> QED  BY <2>1, <2>3, <2>4 DEF Inv, Numbered
  <1>6. Linked'  BY DEF Inv, Linked
  <1> QED  BY <1>2, <1>4, <1>5, <1>6

\* An entry of the dispatch log is written in place.
LEMMA LogWritten ==
    ASSUME Inv, NEW i \in DOMAIN log, NEW e \in Entry, log' = [log EXCEPT ![i] = e],
           e.cust = log[i].cust, e.num = log[i].num, e.from = log[i].from,
           e.from # 0 => e.done, UNCHANGED <<record, ticket>>
    PROVE  log' \in Seq(Entry) /\ Grown /\ Numbered' /\ Linked'
  <1>1. log \in Seq(Entry) /\ i \in 1 .. Len(log)  BY DEF Inv, Tables
  <1>2. /\ log' \in Seq(Entry) /\ Len(log') = Len(log)
        /\ \A k \in 1 .. Len(log) : log'[k] = IF k = i THEN e ELSE log[k]
    BY <1>1, SeqWrite
  <1>3. DOMAIN log = 1 .. Len(log) /\ DOMAIN log' = 1 .. Len(log)  BY <1>1, <1>2
  <1>4. \A k \in DOMAIN log :
          /\ log'[k].cust = log[k].cust /\ log'[k].num = log[k].num /\ log'[k].from = log[k].from
          /\ (log'[k].from # 0 /\ (k = i \/ log[k].done)) => log'[k].done
    BY <1>2, <1>3
  <1>5. Grown  BY <1>3, <1>4 DEF Grown
  <1>6. Numbered'
    <2>1. \A c, n : Sent(c, n)' <=> Sent(c, n)  BY <1>3, <1>4 DEF Sent
    <2>2. \A k, m \in DOMAIN log' :
            ~Crowded /\ log'[k].cust # NoOne /\ log'[m].cust # NoOne /\ log'[k].num = log'[m].num
                => log'[k].cust = log'[m].cust
      BY <1>3, <1>4 DEF Inv, Numbered
    <2> QED  BY <2>1, <2>2 DEF Inv, Numbered
  <1>7. Linked'  BY <1>3, <1>4 DEF Inv, Linked
  <1> QED  BY <1>2, <1>5, <1>6, <1>7

\* Or added: by a concern, by the desk, or for a record that has none.
LEMMA LogAdded ==
    ASSUME Inv, NEW e \in Entry, log' = Append(log, e), UNCHANGED <<record, ticket>>,
           e.from # 0 => /\ e.done /\ e.from \in DOMAIN record
                         /\ e.cust = record[e.from].cust /\ e.num = record[e.from].num
                         /\ \A i \in DOMAIN log : log[i].from # e.from,
           ~Crowded /\ e.cust # NoOne => \A i \in DOMAIN log :
                                log[i].cust # NoOne /\ log[i].num = e.num => log[i].cust = e.cust
    PROVE  log' \in Seq(Entry) /\ Grown /\ Numbered' /\ Linked'
           /\ Sent(e.cust, e.num)' /\ Len(log) \in Nat
  <1>1. log \in Seq(Entry)  BY DEF Inv, Tables
  <1>2. /\ log' \in Seq(Entry) /\ Len(log') = Len(log) + 1 /\ Len(log) \in Nat
        /\ \A k \in 1 .. Len(log) : log'[k] = log[k]
        /\ log'[Len(log) + 1] = e
    BY <1>1, SeqAdd
  <1>3. DOMAIN log = 1 .. Len(log) /\ DOMAIN log' = 1 .. Len(log) + 1  BY <1>1, <1>2
  <1>4. Grown  BY <1>2, <1>3 DEF Grown
  <1>5. \A k \in DOMAIN log' : (log'[k] = e /\ k = Len(log) + 1) \/ (k \in DOMAIN log /\ log'[k] = log[k])
    BY <1>2, <1>3
  <1>6. Numbered'
    <2>1. \A c, n : Sent(c, n) => Sent(c, n)'  BY <1>4, StillSent
    <2>2. \A k, m \in DOMAIN log' :
            ~Crowded /\ log'[k].cust # NoOne /\ log'[m].cust # NoOne /\ log'[k].num = log'[m].num
                => log'[k].cust = log'[m].cust
      BY <1>5 DEF Inv, Numbered
    <2> QED  BY <2>1, <2>2 DEF Inv, Numbered
  <1>7. Linked'  BY <1>5 DEF Inv, Linked
  <1>8. Sent(e.cust, e.num)'  BY <1>2, <1>3 DEF Sent
  <1> QED  BY <1>2, <1>4, <1>6, <1>7, <1>8

-----------------------------------------------------------------------------
(* The rows the requests make *)

LabelSet == LabelNames \cup {"Done", NoLabel}

LEMMA LabelsFound ==
    /\ \A w : Find(w) \in LabelSet
    /\ PortalLabel \in LabelSet
  <1>1. ASSUME NEW K \in SUBSET DOMAIN Labels, K # {} PROVE Labels[Min(K)] \in LabelNames
    <2>1. K \subseteq Nat  BY FieldAssumption
    <2>2. Min(K) \in K  BY <1>1, <2>1, MinIn
    <2> QED  BY <2>2 DEF LabelNames
  <1>2. ASSUME NEW w PROVE Find(w) \in LabelSet
    <2> DEFINE K == {k \in DOMAIN Labels : option[Labels[k]] # "absent" /\ w \in Words[Labels[k]]}
    <2>1. K \in SUBSET DOMAIN Labels  OBVIOUS
    <2>2. Find(w) = IF K = {} THEN NoLabel ELSE Labels[Min(K)]  BY DEF Find
    <2> HIDE DEF K
    <2> QED  BY <1>1, <2>1, <2>2 DEF LabelSet
  <1>3. FirstOption \in LabelSet
    <2> DEFINE K == {k \in DOMAIN Labels : option[Labels[k]] # "absent"}
    <2>1. K \in SUBSET DOMAIN Labels  OBVIOUS
    <2>2. FirstOption = IF K = {} THEN NoLabel ELSE Labels[Min(K)]  BY DEF FirstOption
    <2> HIDE DEF K
    <2> QED  BY <1>1, <2>1, <2>2 DEF LabelSet
  <1> QED  BY <1>2, <1>3 DEF PortalLabel

LEMMA RowsMade ==
    ASSUME Tables
    PROVE  /\ \A c \in Customers \cup {NoOne}, n \in Numbers \cup {NoNumber}, l \in LabelSet, k \in Nat :
                 /\ NewRecord(c, n, l, k) \in Record
                 /\ NewRecord(c, n, l, k).cust = c /\ NewRecord(c, n, l, k).num = n
           /\ \A c \in Customers \cup {NoOne}, n \in Numbers \cup {NoNumber} :
                 /\ NewLog(c, n) \in Entry
                 /\ NewLog(c, n).cust = c /\ NewLog(c, n).num = n /\ NewLog(c, n).from = 0
           /\ \A c \in Customers, n \in Numbers :
                 /\ NewTicket(c, n) \in Ticket
                 /\ NewTicket(c, n).cust = c /\ NewTicket(c, n).num = n
  BY FieldAssumption DEF Tables, NewRecord, Record, LabelSet, NewLog, Entry, NewTicket, Ticket, Status

LEMMA RowsChanged ==
    ASSUME NEW row \in Record, NEW w
    PROVE  /\ Relabelled(row, Find(w)) \in Record
           /\ Relabelled(row, Find(w)).cust = row.cust /\ Relabelled(row, Find(w)).num = row.num
  <1>1. PICK l : l = Find(w)  OBVIOUS
  <1>2. l \in LabelSet  BY <1>1, LabelsFound
  <1>3. /\ [row EXCEPT !.label = l] \in Record
        /\ [row EXCEPT !.label = l].cust = row.cust /\ [row EXCEPT !.label = l].num = row.num
    BY <1>2 DEF Record, LabelSet
  <1> QED  BY <1>1, <1>3 DEF Relabelled

LEMMA ButtonsKeep ==
    ASSUME NEW row \in Record
    PROVE  \A new \in {Dispatched(row), Undispatched(row), Finished(row), Filled(row)} :
               new \in Record /\ new.cust = row.cust /\ new.num = row.num
  <1>1. ASSUME NEW w, NEW v \in BOOLEAN
        PROVE  LET a == [Relabelled(row, Find(w)) EXCEPT !.started = v]
                   b == [Relabelled(row, Find(w)) EXCEPT !.done = v]
               IN  /\ a \in Record /\ a.cust = row.cust /\ a.num = row.num
                   /\ b \in Record /\ b.cust = row.cust /\ b.num = row.num
    <2>1. PICK x : x = Relabelled(row, Find(w))  OBVIOUS
    <2>2. x \in Record /\ x.cust = row.cust /\ x.num = row.num  BY <2>1, RowsChanged
    <2>3. /\ [x EXCEPT !.started = v] \in Record /\ [x EXCEPT !.done = v] \in Record
          /\ [x EXCEPT !.started = v].cust = x.cust /\ [x EXCEPT !.started = v].num = x.num
          /\ [x EXCEPT !.done = v].cust = x.cust /\ [x EXCEPT !.done = v].num = x.num
      BY <2>2 DEF Record
    <2> QED  BY <2>1, <2>2, <2>3
  <1>2. Filled(row) \in Record /\ Filled(row).cust = row.cust /\ Filled(row).num = row.num
    BY DEF Filled, Record
  <1> QED  BY <1>1, <1>2 DEF Dispatched, Undispatched, Finished

-----------------------------------------------------------------------------
(* A concern from the portal *)

LEMMA Submits ==
    ASSUME Inv, NEW s \in Threads, NEW c \in Customers, NEW n \in Numbers, Submit(s, c, n)
    PROVE  Inv'
  <1>1. Tables /\ Sessions  BY DEF Inv
  <1>2. PICK e : e = NewLog(c, n)  OBVIOUS
  <1>3. e \in Entry /\ e.cust = c /\ e.num = n /\ e.from = 0  BY <1>1, <1>2, RowsMade
  <1>4. /\ log' = Append(log, e) /\ UNCHANGED <<record, ticket>>
        /\ UNCHANGED <<alert, waiting, now>>
        /\ ~Crowded => \A i \in DOMAIN log : log[i].num # n
    BY <1>2 DEF Submit, Rest
  <1>5. log' \in Seq(Entry) /\ Grown /\ Numbered' /\ Linked' /\ Sent(c, n)' /\ Len(log) \in Nat
    BY <1>3, <1>4, LogAdded
  <1>6. Tables'  BY <1>1, <1>4, <1>5 DEF Tables
  <1>7. PICK j : j = [h |-> "submit", at |-> "record", cust |-> c, num |-> n, log |-> Len(log) + 1]
    OBVIOUS
  <1>8. Go(s, j)  BY <1>7 DEF Submit
  <1>9. Holds(j)'
    <2>1. /\ j.h = "submit" /\ DOMAIN j = {"h", "at", "cust", "num", "log"}
          /\ j.at \in {"record", "ticket"} /\ j.cust \in Customers /\ j.num \in Numbers
          /\ j.log \in Nat /\ j.cust = c /\ j.num = n
      BY <1>5, <1>7
    <2> QED  BY <1>5, <2>1 DEF Holds
  <1>10. Sessions'  BY <1>1, <1>5, <1>8, <1>9, SessionsStep
  <1> QED  BY <1>5, <1>6, <1>10 DEF Inv

\* What a thread that says so holds.
LEMMA HoldsSubmit ==
    ASSUME NEW j, Holds(j), j.h = "submit"
    PROVE  /\ DOMAIN j = {"h", "at", "cust", "num", "log"}
           /\ j.cust \in Customers /\ j.num \in Numbers /\ j.log \in Nat /\ Sent(j.cust, j.num)
  BY DEF Holds, Idle

LEMMA SubmitsRecord ==
    ASSUME Inv, NEW s \in Threads, SubmitRecord(s)
    PROVE  Inv'
  <1>1. Tables /\ Sessions  BY DEF Inv
  <1>2. PICK j : j = session[s]  OBVIOUS
  <1>3. /\ DOMAIN j = {"h", "at", "cust", "num", "log"} /\ j.h = "submit"
        /\ j.cust \in Customers /\ j.num \in Numbers /\ j.log \in Nat /\ Sent(j.cust, j.num)
    <2>1. Holds(j) /\ j.h = "submit"  BY <1>1, <1>2 DEF Sessions, SubmitRecord, At
    <2> QED  BY <2>1, HoldsSubmit
  <1>4. PICK row : row = NewRecord(j.cust, j.num, PortalLabel, j.log)  OBVIOUS
  <1>5. row \in Record /\ row.cust = j.cust /\ row.num = j.num
    BY <1>1, <1>3, <1>4, RowsMade, LabelsFound
  <1>6. /\ record' = Append(record, row) /\ UNCHANGED <<log, ticket>>
        /\ UNCHANGED <<alert, waiting, now>>
        /\ Go(s, [j EXCEPT !.at = "ticket"])
    BY <1>2, <1>4 DEF SubmitRecord, Rest
  <1>7. record' \in Seq(Record) /\ Grown /\ Numbered' /\ Linked'
    BY <1>3, <1>5, <1>6, RecordAdded
  <1>8. Tables'  BY <1>1, <1>6, <1>7 DEF Tables
  <1>9. PICK k : k = [j EXCEPT !.at = "ticket"]  OBVIOUS
  <1>10. Holds(k)'
    <2>1. /\ k.h = "submit" /\ DOMAIN k = {"h", "at", "cust", "num", "log"}
          /\ k.at = "ticket" /\ k.cust = j.cust /\ k.num = j.num /\ k.log = j.log
      BY <1>3, <1>9
    <2>2. Sent(j.cust, j.num)'  BY <1>3, <1>7, StillSent
    <2> QED  BY <1>3, <2>1, <2>2 DEF Holds
  <1>11. Sessions'  BY <1>1, <1>6, <1>7, <1>9, <1>10, SessionsStep
  <1> QED  BY <1>7, <1>8, <1>11 DEF Inv

LEMMA SubmitsTicket ==
    ASSUME Inv, NEW s \in Threads, SubmitTicket(s)
    PROVE  Inv'
  <1>1. Tables /\ Sessions  BY DEF Inv
  <1>2. PICK j : j = session[s]  OBVIOUS
  <1>3. j.cust \in Customers /\ j.num \in Numbers /\ Sent(j.cust, j.num)
    <2>1. Holds(j) /\ j.h = "submit"  BY <1>1, <1>2 DEF Sessions, SubmitTicket, At
    <2> QED  BY <2>1, HoldsSubmit
  <1>4. PICK t : t = NewTicket(j.cust, j.num)  OBVIOUS
  <1>5. t \in Ticket /\ t.cust = j.cust /\ t.num = j.num  BY <1>1, <1>3, <1>4, RowsMade
  <1>6. /\ UNCHANGED <<record, log>> /\ UNCHANGED <<alert, waiting, now>> /\ End(s)
        /\ ticket' = IF \E i \in DOMAIN ticket : ticket[i].num = j.num /\ ticket[i].st # "gone"
                     THEN ticket ELSE Append(ticket, t)
    BY <1>2, <1>4 DEF SubmitTicket, Rest
  <1>7. ticket' \in Seq(Ticket) /\ Grown /\ Numbered' /\ Linked'
    <2>1. CASE \E i \in DOMAIN ticket : ticket[i].num = j.num /\ ticket[i].st # "gone"
      <3>1. UNCHANGED Papers  BY <1>6, <2>1 DEF Papers
      <3>2. ticket' = ticket  BY <1>6, <2>1
      <3> QED  BY <1>1, <3>1, <3>2, NothingWritten DEF Tables
    <2>2. CASE ~\E i \in DOMAIN ticket : ticket[i].num = j.num /\ ticket[i].st # "gone"
      <3>1. ticket' = Append(ticket, t)  BY <1>6, <2>2
      <3>2. \A i \in DOMAIN ticket : ticket[i].num = t.num => ticket[i].st = "gone"  BY <1>5, <2>2
      <3>3. Sent(t.cust, t.num)  BY <1>3, <1>5
      <3> QED  BY <1>5, <1>6, <3>1, <3>2, <3>3, TicketAdded
    <2> QED  BY <2>1, <2>2
  <1>8. Tables'  BY <1>1, <1>6, <1>7 DEF Tables
  <1>9. Sessions'  BY <1>1, <1>6, <1>7, SessionsEnd
  <1> QED  BY <1>7, <1>8, <1>9 DEF Inv

LEMMA DeskRecords ==
    ASSUME Inv, NEW s \in Threads, DeskRecord(s)
    PROVE  Inv'
  <1>1. Tables /\ Sessions  BY DEF Inv
  <1>2. PICK l \in {x \in LabelNames : option[x] = "active"} \cup {NoLabel} :
          record' = Append(record, NewRecord(NoOne, NoNumber, l, 0))
    BY DEF DeskRecord
  <1>3. PICK row : row = NewRecord(NoOne, NoNumber, l, 0)  OBVIOUS
  <1>4. l \in LabelSet  BY DEF LabelSet
  <1>5. row \in Record /\ row.cust = NoOne  BY <1>1, <1>3, <1>4, RowsMade
  <1>6. UNCHANGED <<log, ticket, session, alert, waiting, now>>  BY DEF DeskRecord, Rest
  <1>7. record' \in Seq(Record) /\ Grown /\ Numbered' /\ Linked'
    BY <1>2, <1>3, <1>5, <1>6, RecordAdded
  <1>8. Tables'  BY <1>1, <1>6, <1>7 DEF Tables
  <1>9. Sessions'  BY <1>1, <1>6, <1>7, SessionsKept
  <1> QED  BY <1>7, <1>8, <1>9 DEF Inv

LEMMA DeskLogs ==
    ASSUME Inv, NEW s \in Threads, DeskLog(s)
    PROVE  Inv'
  <1>1. Tables /\ Sessions  BY DEF Inv
  <1>2. PICK e : e = NewLog(NoOne, NoNumber)  OBVIOUS
  <1>3. e \in Entry /\ e.cust = NoOne /\ e.from = 0  BY <1>1, <1>2, RowsMade
  <1>4. log' = Append(log, e) /\ UNCHANGED <<record, ticket, session, alert, waiting, now>>
    BY <1>2 DEF DeskLog, Rest
  <1>5. log' \in Seq(Entry) /\ Grown /\ Numbered' /\ Linked'  BY <1>3, <1>4, LogAdded
  <1>6. Tables'  BY <1>1, <1>4, <1>5 DEF Tables
  <1>7. Sessions'  BY <1>1, <1>4, <1>5, SessionsKept
  <1> QED  BY <1>5, <1>6, <1>7 DEF Inv

-----------------------------------------------------------------------------
(* The buttons of a record *)

LEMMA HoldsButton ==
    ASSUME NEW j, Holds(j), j.h \in {"dispatch", "undispatch", "done", "form"}, j.at # "customer"
    PROVE  DOMAIN j = {"h", "at", "id", "row"} /\ CopyOf(j.id, j.row)
  BY DEF Holds, Idle

LEMMA ButtonHeld ==
    ASSUME NEW j, j.h \in {"dispatch", "undispatch", "done", "form"},
           DOMAIN j = {"h", "at", "id", "row"}, j.at \in {"save", "log", "link"},
           CopyOf(j.id, j.row)'
    PROVE  Holds(j)'
  BY DEF Holds

LEMMA Opens ==
    ASSUME Inv, NEW s \in Threads, NEW h \in {"dispatch", "undispatch", "done", "form"},
           NEW r \in DOMAIN record, OpenRecord(s, h, r)
    PROVE  Inv'
  <1>1. Tables /\ Sessions  BY DEF Inv
  <1>2. UNCHANGED Papers /\ UNCHANGED <<alert, waiting, now>>  BY DEF OpenRecord, Rest
  <1>3. Grown /\ Numbered' /\ Linked'  BY <1>2, NothingWritten
  <1>4. Tables'  BY <1>1, <1>2 DEF Tables, Papers
  <1>5. PICK j : j = [h |-> h, at |-> "save", id |-> r, row |-> record[r]]  OBVIOUS
  <1>6. Go(s, j)  BY <1>5 DEF OpenRecord
  <1>7. /\ j.h = h /\ DOMAIN j = {"h", "at", "id", "row"} /\ j.at = "save"
        /\ j.id = r /\ j.row = record[r]
    BY <1>5
  <1>8. CopyOf(j.id, j.row)
    <2>1. record[r] \in Record  BY <1>1 DEF Tables
    <2> QED  BY <1>7, <2>1 DEF CopyOf
  <1>9. CopyOf(j.id, j.row)'  BY <1>3, <1>8, StillCopy
  <1>10. Holds(j)'  BY <1>7, <1>9, ButtonHeld
  <1>11. Sessions'  BY <1>1, <1>3, <1>6, <1>10, SessionsStep
  <1> QED  BY <1>3, <1>4, <1>11 DEF Inv

\* A button that saves a copy and is done.
LEMMA Saves ==
    ASSUME Inv, NEW s \in Threads, NEW r, NEW row, CopyOf(r, row),
           record' = [record EXCEPT ![r] = row], UNCHANGED <<log, ticket, alert, waiting, now>>
    PROVE  /\ Tables' /\ Grown /\ Numbered' /\ Linked' /\ CopyOf(r, row)'
           /\ End(s) => Inv'
           /\ \A j : Go(s, j) /\ Holds(j)' => Inv'
  <1>1. Tables /\ Sessions  BY DEF Inv
  <1>2. record' \in Seq(Record) /\ Grown /\ Numbered' /\ Linked'  BY RecordWritten
  <1>3. Tables'  BY <1>1, <1>2 DEF Tables
  <1>4. CopyOf(r, row)'  BY <1>2, StillCopy
  <1>5. ASSUME End(s) PROVE Inv'
    <2>1. Sessions'  BY <1>1, <1>2, <1>5, SessionsEnd
    <2> QED  BY <1>2, <1>3, <2>1 DEF Inv
  <1>6. ASSUME NEW j, Go(s, j), Holds(j)' PROVE Inv'
    <2>1. Sessions'  BY <1>1, <1>2, <1>6, SessionsStep
    <2> QED  BY <1>2, <1>3, <2>1 DEF Inv
  <1> QED  BY <1>2, <1>3, <1>4, <1>5, <1>6

LEMMA SavesDispatched ==
    ASSUME Inv, NEW s \in Threads, SaveDispatched(s)
    PROVE  Inv'
  <1>1. PICK j : j = session[s]  OBVIOUS
  <1>2. j.h = "dispatch" /\ j.at = "save" /\ Holds(j)
    BY <1>1 DEF SaveDispatched, At, Inv, Sessions
  <1>3. CopyOf(j.id, j.row)  BY <1>2, HoldsButton
  <1>4. PICK row : row = Dispatched(j.row)  OBVIOUS
  <1>5. CopyOf(j.id, row)
    <2>1. j.row \in Record  BY <1>3 DEF CopyOf
    <2>2. row \in Record /\ row.cust = j.row.cust /\ row.num = j.row.num
      BY <1>4, <2>1, ButtonsKeep
    <2> QED  BY <1>3, <2>2 DEF CopyOf
  <1>6. /\ record' = [record EXCEPT ![j.id] = row] /\ End(s)
        /\ UNCHANGED <<log, ticket, alert, waiting, now>>
    BY <1>1, <1>4 DEF SaveDispatched, Rest
  <1> QED  BY <1>5, <1>6, Saves

LEMMA SavesUndispatched ==
    ASSUME Inv, NEW s \in Threads, SaveUndispatched(s)
    PROVE  Inv'
  <1>1. PICK j : j = session[s]  OBVIOUS
  <1>2. j.h = "undispatch" /\ j.at = "save" /\ Holds(j)
    BY <1>1 DEF SaveUndispatched, At, Inv, Sessions
  <1>3. CopyOf(j.id, j.row)  BY <1>2, HoldsButton
  <1>4. PICK row : row = Undispatched(j.row)  OBVIOUS
  <1>5. CopyOf(j.id, row)
    <2>1. j.row \in Record  BY <1>3 DEF CopyOf
    <2>2. row \in Record /\ row.cust = j.row.cust /\ row.num = j.row.num
      BY <1>4, <2>1, ButtonsKeep
    <2> QED  BY <1>3, <2>2 DEF CopyOf
  <1>6. /\ record' = [record EXCEPT ![j.id] = row] /\ End(s)
        /\ UNCHANGED <<log, ticket, alert, waiting, now>>
    BY <1>1, <1>4 DEF SaveUndispatched, Rest
  <1> QED  BY <1>5, <1>6, Saves

LEMMA SavesDone ==
    ASSUME Inv, NEW s \in Threads, SaveDone(s)
    PROVE  Inv'
  <1>1. PICK j : j = session[s]  OBVIOUS
  <1>2. j.h = "done" /\ j.at = "save" /\ Holds(j)
    BY <1>1 DEF SaveDone, At, Inv, Sessions
  <1>3. CopyOf(j.id, j.row) /\ DOMAIN j = {"h", "at", "id", "row"}  BY <1>2, HoldsButton
  <1>4. PICK row : row = Finished(j.row)  OBVIOUS
  <1>5. CopyOf(j.id, row)
    <2>1. j.row \in Record  BY <1>3 DEF CopyOf
    <2>2. row \in Record /\ row.cust = j.row.cust /\ row.num = j.row.num
      BY <1>4, <2>1, ButtonsKeep
    <2> QED  BY <1>3, <2>2 DEF CopyOf
  <1>6. PICK k : k = [j EXCEPT !.at = "log", !.row = row]  OBVIOUS
  <1>7. /\ record' = [record EXCEPT ![j.id] = row] /\ Go(s, k)
        /\ UNCHANGED <<log, ticket, alert, waiting, now>>
    BY <1>1, <1>4, <1>6 DEF SaveDone, Rest
  <1>8. /\ k.h = "done" /\ DOMAIN k = {"h", "at", "id", "row"} /\ k.at = "log"
        /\ k.id = j.id /\ k.row = row
    BY <1>2, <1>3, <1>6
  <1>9. CopyOf(k.id, k.row)'  BY <1>5, <1>7, <1>8, Saves
  <1>10. Holds(k)'  BY <1>8, <1>9, ButtonHeld
  <1> QED  BY <1>5, <1>7, <1>10, Saves

LEMMA LinksLog ==
    ASSUME Inv, NEW s \in Threads, LinkLog(s)
    PROVE  Inv'
  <1>1. PICK j : j = session[s]  OBVIOUS
  <1>2. j.h = "done" /\ j.at = "link" /\ Holds(j)
    BY <1>1 DEF LinkLog, At, Inv, Sessions
  <1>3. CopyOf(j.id, j.row)  BY <1>2, HoldsButton
  <1>4. /\ record' = [record EXCEPT ![j.id] = j.row] /\ End(s)
        /\ UNCHANGED <<log, ticket, alert, waiting, now>>
    BY <1>1 DEF LinkLog, Rest
  <1> QED  BY <1>3, <1>4, Saves

LEMMA SavesForm ==
    ASSUME Inv, NEW s \in Threads, SaveForm(s)
    PROVE  Inv'
  <1>1. PICK j : j = session[s]  OBVIOUS
  <1>2. j.h = "form" /\ j.at = "save" /\ Holds(j)
    BY <1>1 DEF SaveForm, At, Inv, Sessions
  <1>3. CopyOf(j.id, j.row)  BY <1>2, HoldsButton
  <1>4. PICK row : row = Filled(j.row)  OBVIOUS
  <1>5. CopyOf(j.id, row)
    <2>1. j.row \in Record  BY <1>3 DEF CopyOf
    <2>2. row \in Record /\ row.cust = j.row.cust /\ row.num = j.row.num
      BY <1>4, <2>1, ButtonsKeep
    <2> QED  BY <1>3, <2>2 DEF CopyOf
  <1>6. UNCHANGED <<log, ticket, alert, waiting, now>>  BY DEF SaveForm, Rest
  <1>7. CASE record[j.id].gone
    <2>1. End(s) /\ record' = record  BY <1>1, <1>7 DEF SaveForm
    <2>2. UNCHANGED Papers  BY <1>6, <2>1 DEF Papers
    <2>3. Grown /\ Numbered' /\ Linked'  BY <2>2, NothingWritten
    <2>4. Sessions'  BY <2>1, <2>3, SessionsEnd DEF Inv
    <2>5. Tables'  BY <1>6, <2>1 DEF Inv, Tables
    <2> QED  BY <2>3, <2>4, <2>5 DEF Inv
  <1>8. CASE ~record[j.id].gone
    <2>1. record' = [record EXCEPT ![j.id] = row]  BY <1>1, <1>4, <1>8 DEF SaveForm
    <2>2. CASE row.cust = NoOne
      <3>1. End(s)  BY <1>1, <1>4, <1>8, <2>2 DEF SaveForm
      <3> QED  BY <1>5, <1>6, <2>1, <3>1, Saves
    <2>3. CASE row.cust # NoOne
      <3>1. PICK k : k = [h |-> "form", at |-> "customer", cust |-> row.cust, row |-> account[row.cust]]
        OBVIOUS
      <3>2. Go(s, k)  BY <1>1, <1>4, <1>8, <2>3, <3>1 DEF SaveForm
      <3>3. Holds(k)'
        <4>1. k.h = "form" /\ k.at = "customer"  BY <3>1
        <4> QED  BY <4>1 DEF Holds
      <3> QED  BY <1>5, <1>6, <2>1, <3>2, <3>3, Saves
    <2> QED  BY <2>2, <2>3
  <1> QED  BY <1>7, <1>8

\* The entry of a record is the one it has, or a new one.
LEMMA LogsDone ==
    ASSUME Inv, NEW s \in Threads, LogDone(s)
    PROVE  Inv'
  <1>1. Tables /\ Sessions /\ Numbered /\ Linked  BY DEF Inv
  <1>2. PICK j : j = session[s]  OBVIOUS
  <1>3. j.h = "done" /\ j.at = "log" /\ Holds(j)
    BY <1>2 DEF LogDone, At, Inv, Sessions
  <1>4. CopyOf(j.id, j.row) /\ DOMAIN j = {"h", "at", "id", "row"}  BY <1>3, HoldsButton
  <1>5. PICK r : r = j.id  OBVIOUS
  <1>6. PICK row : row = j.row  OBVIOUS
  <1>7. /\ r \in DOMAIN record /\ r \in Nat /\ r # 0
        /\ row \in Record /\ row.cust = record[r].cust /\ row.num = record[r].num
    <2>1. DOMAIN record = 1 .. Len(record) /\ Len(record) \in Nat  BY <1>1 DEF Tables
    <2> QED  BY <1>4, <1>5, <1>6, <2>1 DEF CopyOf
  <1>8. UNCHANGED <<record, ticket, alert, waiting, now>>  BY DEF LogDone, Rest
  <1>9. DOMAIN log = 1 .. Len(log) /\ Len(log) \in Nat  BY <1>1 DEF Tables
  <1>10. CASE record[r].gone
    <2>1. End(s) /\ log' = log  BY <1>2, <1>5, <1>10 DEF LogDone
    <2>2. UNCHANGED Papers  BY <1>8, <2>1 DEF Papers
    <2>3. Grown /\ Numbered' /\ Linked'  BY <2>2, NothingWritten
    <2>4. Sessions'  BY <2>1, <2>3, SessionsEnd DEF Inv
    <2>5. Tables'  BY <1>1, <1>8, <2>1 DEF Tables
    <2> QED  BY <2>3, <2>4, <2>5 DEF Inv
  <1>11. CASE ~record[r].gone
    <2>1. PICK i : i = IF Entries(r) = {} THEN Len(log) + 1 ELSE Min(Entries(r))  OBVIOUS
    <2>2. i \in Nat /\ (Entries(r) # {} => i \in Entries(r))
      <3>1. Entries(r) \subseteq Nat  BY <1>9 DEF Entries
      <3>2. Entries(r) # {} => Min(Entries(r)) \in Entries(r)  BY <3>1, MinIn
      <3> QED  BY <1>9, <2>1, <3>1, <3>2
    <2>3. PICK k : k = [j EXCEPT !.at = "link", !.row.log = i]  OBVIOUS
    <2>4. /\ log' = IF Entries(r) = {}
                    THEN Append(log, [NewLog(row.cust, row.num) EXCEPT !.from = r, !.done = TRUE])
                    ELSE [log EXCEPT ![i].done = TRUE, ![i].cust = row.cust, ![i].num = row.num]
          /\ Go(s, k)
      BY <1>2, <1>5, <1>6, <1>11, <2>1, <2>3 DEF LogDone
    <2>5. log' \in Seq(Entry) /\ Grown /\ Numbered' /\ Linked'
      <3>1. CASE Entries(r) = {}
        <4>1. PICK e : e = [NewLog(row.cust, row.num) EXCEPT !.from = r, !.done = TRUE]  OBVIOUS
        <4>2. PICK x : x = NewLog(row.cust, row.num)  OBVIOUS
        <4>3. x \in Entry /\ x.cust = row.cust /\ x.num = row.num
          <5>1. row.cust \in Customers \cup {NoOne} /\ row.num \in Numbers \cup {NoNumber}
            BY <1>7 DEF Record
          <5> QED  BY <1>1, <4>2, <5>1, RowsMade
        <4>4. /\ e \in Entry /\ e.cust = row.cust /\ e.num = row.num /\ e.from = r /\ e.done
          <5>1. e = [x EXCEPT !.from = r, !.done = TRUE]  BY <4>1, <4>2
          <5> QED  BY <1>7, <4>3, <5>1 DEF Entry
        <4>5. \A m \in DOMAIN log : log[m].from # e.from  BY <3>1, <4>4 DEF Entries
        <4>6. ~Crowded /\ e.cust # NoOne => \A m \in DOMAIN log :
                                   log[m].cust # NoOne /\ log[m].num = e.num => log[m].cust = e.cust
          <5>1. ASSUME ~Crowded, e.cust # NoOne, NEW m \in DOMAIN log, log[m].cust # NoOne, log[m].num = e.num
                PROVE  log[m].cust = e.cust
            <6>1. Sent(record[r].cust, record[r].num)  BY <1>1, <1>7, <4>4, <5>1 DEF Numbered
            <6>2. PICK o \in DOMAIN log : log[o].cust = e.cust /\ log[o].num = e.num
              BY <1>7, <4>4, <6>1 DEF Sent
            <6> QED  BY <1>1, <5>1, <6>2 DEF Numbered
          <5> QED  BY <5>1
        <4>7. log' = Append(log, e)  BY <2>4, <3>1, <4>1
        <4>8. e.from \in DOMAIN record /\ e.cust = record[e.from].cust /\ e.num = record[e.from].num
          BY <1>7, <4>4
        <4> QED  BY <1>8, <4>4, <4>5, <4>6, <4>7, <4>8, LogAdded
      <3>2. CASE Entries(r) # {}
        <4>1. i \in DOMAIN log /\ log[i].from = r  BY <2>2, <3>2 DEF Entries
        <4>2. PICK x : x = log[i]  OBVIOUS
        <4>3. x \in Entry  BY <1>1, <4>1, <4>2 DEF Tables
        <4>4. PICK e : e = [x EXCEPT !.done = TRUE, !.cust = row.cust, !.num = row.num]  OBVIOUS
        <4>5. e \in Entry /\ e.cust = row.cust /\ e.num = row.num /\ e.from = x.from /\ e.done
          <5>1. row.cust \in Customers \cup {NoOne} /\ row.num \in Numbers \cup {NoNumber}
            BY <1>7 DEF Record
          <5> QED  BY <4>3, <4>4, <5>1 DEF Entry
        <4>6. x.cust = row.cust /\ x.num = row.num  BY <1>1, <1>7, <4>1, <4>2 DEF Linked
        <4>7. log' = [log EXCEPT ![i] = e]
          <5>1. log' = [log EXCEPT ![i].done = TRUE, ![i].cust = row.cust, ![i].num = row.num]
            BY <2>4, <3>2
          <5> QED  BY <4>1, <4>2, <4>4, <5>1
        <4> QED  BY <1>8, <4>1, <4>2, <4>5, <4>6, <4>7, LogWritten
      <3> QED  BY <3>1, <3>2
    <2>6. Holds(k)'
      <3>1. PICK n : n = [row EXCEPT !.log = i]  OBVIOUS
      <3>2. n \in Record /\ n.cust = row.cust /\ n.num = row.num  BY <1>7, <2>2, <3>1 DEF Record
      <3>3. /\ k.h = "done" /\ DOMAIN k = {"h", "at", "id", "row"} /\ k.at = "link"
            /\ k.id = r /\ k.row = n
        BY <1>3, <1>4, <1>5, <1>6, <2>3, <3>1
      <3>4. CopyOf(k.id, k.row)  BY <1>7, <3>2, <3>3 DEF CopyOf
      <3>5. CopyOf(k.id, k.row)'  BY <2>5, <3>4, StillCopy
      <3> QED  BY <3>3, <3>5, ButtonHeld
    <2>7. Sessions'  BY <1>1, <2>4, <2>5, <2>6, SessionsStep
    <2>8. Tables'  BY <1>1, <1>8, <2>5 DEF Tables
    <2> QED  BY <2>5, <2>7, <2>8 DEF Inv
  <1> QED  BY <1>10, <1>11

LEMMA DeletesRecord ==
    ASSUME Inv, NEW s \in Threads, NEW r \in DOMAIN record, NEW staff \in BOOLEAN,
           DeleteRecord(s, r, staff)
    PROVE  Inv'
  <1>1. Tables /\ Sessions /\ Numbered /\ Linked  BY DEF Inv
  <1>2. /\ record' = [record EXCEPT ![r].gone = TRUE]
        /\ log' = [i \in DOMAIN log |-> IF log[i].from = r THEN [log[i] EXCEPT !.from = 0] ELSE log[i]]
        /\ UNCHANGED <<ticket, session, alert, waiting, now>>
    BY DEF DeleteRecord, Rest
  <1>3. r \in 1 .. Len(record) /\ Len(record) \in Nat /\ r # 0  BY <1>1 DEF Tables
  <1>4. PICK row : row = [record[r] EXCEPT !.gone = TRUE]  OBVIOUS
  <1>5. row \in Record /\ row.cust = record[r].cust /\ row.num = record[r].num
    <2>1. PICK x : x = record[r]  OBVIOUS
    <2>2. x \in Record  BY <1>1, <2>1 DEF Tables
    <2>3. row = [x EXCEPT !.gone = TRUE]  BY <1>4, <2>1
    <2>4. row \in Record /\ row.cust = x.cust /\ row.num = x.num  BY <2>2, <2>3 DEF Record
    <2> QED  BY <2>1, <2>4
  <1>6. record' = [record EXCEPT ![r] = row]  BY <1>2, <1>4
  <1>7. /\ record' \in Seq(Record) /\ DOMAIN record' = DOMAIN record
        /\ \A k \in DOMAIN record : record'[k].cust = record[k].cust /\ record'[k].num = record[k].num
    <2>1. /\ record' \in Seq(Record) /\ Len(record') = Len(record)
          /\ \A k \in 1 .. Len(record) : record'[k] = IF k = r THEN row ELSE record[k]
      BY <1>1, <1>3, <1>5, <1>6, SeqWrite DEF Tables
    <2>2. DOMAIN record = 1 .. Len(record) /\ DOMAIN record' = 1 .. Len(record)  BY <1>1, <2>1 DEF Tables
    <2> QED  BY <1>5, <2>1, <2>2
  <1>8. ASSUME NEW i \in DOMAIN log
        PROVE  /\ log'[i] \in Entry /\ log'[i].cust = log[i].cust /\ log'[i].num = log[i].num
               /\ log'[i].done = log[i].done
               /\ log'[i].from = IF log[i].from = r THEN 0 ELSE log[i].from
    <2>1. PICK x : x = log[i]  OBVIOUS
    <2>2. x \in Entry  BY <1>1, <2>1 DEF Tables
    <2>3. PICK e : e = [x EXCEPT !.from = 0]  OBVIOUS
    <2>4. /\ e \in Entry /\ e.cust = x.cust /\ e.num = x.num /\ e.done = x.done /\ e.from = 0
      BY <2>2, <2>3 DEF Entry
    <2>5. log'[i] = IF x.from = r THEN e ELSE x  BY <1>2, <2>1, <2>3
    <2> QED  BY <2>1, <2>2, <2>4, <2>5
  <1>9. DOMAIN log' = DOMAIN log  BY <1>2
  <1>10. log' \in Seq(Entry)
    <2>1. DOMAIN log = 1 .. Len(log) /\ Len(log) \in Nat  BY <1>1 DEF Tables
    <2>2. log' = [i \in DOMAIN log' |-> log'[i]]  BY <1>2
    <2>3. log' \in [1 .. Len(log) -> Entry]  BY <1>8, <1>9, <2>1, <2>2
    <2> QED  BY <2>1, <2>3, SeqDef
  <1>11. Grown
    <2>1. \A i \in DOMAIN log : log[i].from = 0 => log'[i].from = 0  BY <1>3, <1>8
    <2> QED  BY <1>2, <1>7, <1>8, <1>9, <2>1 DEF Grown
  <1>12. Numbered'
    <2>1. \A c, n : Sent(c, n)' <=> Sent(c, n)  BY <1>8, <1>9 DEF Sent
    <2>2. \A i, k \in DOMAIN log' :
            ~Crowded /\ log'[i].cust # NoOne /\ log'[k].cust # NoOne /\ log'[i].num = log'[k].num
                => log'[i].cust = log'[k].cust
      BY <1>1, <1>8, <1>9 DEF Numbered
    <2> QED  BY <1>1, <1>2, <1>7, <2>1, <2>2 DEF Numbered
  <1>13. Linked'
    <2>1. \A i \in DOMAIN log' : log'[i].from # 0 => i \in DOMAIN log /\ log'[i].from = log[i].from
      BY <1>8, <1>9
    <2> QED  BY <1>1, <1>7, <1>8, <1>9, <2>1 DEF Linked
  <1>14. Tables'  BY <1>1, <1>2, <1>7, <1>10 DEF Tables
  <1>15. Sessions'  BY <1>1, <1>2, <1>11, SessionsKept
  <1> QED  BY <1>12, <1>13, <1>14, <1>15 DEF Inv

-----------------------------------------------------------------------------
(* Tickets *)

\* A ticket gets a status, and what else does not matter here.
LEMMA TicketStep ==
    ASSUME Inv, NEW i \in DOMAIN ticket, NEW t \in Ticket, ticket' = [ticket EXCEPT ![i] = t],
           t.cust = ticket[i].cust, t.num = ticket[i].num, ticket[i].st # "gone",
           UNCHANGED <<record, log, alert, waiting, now>>
    PROVE  Grown /\ (UNCHANGED session => Inv')
           /\ \A s \in Threads : End(s) => Inv'
  <1>1. Tables /\ Sessions  BY DEF Inv
  <1>2. ticket' \in Seq(Ticket) /\ Grown /\ Numbered' /\ Linked'  BY TicketWritten
  <1>3. Tables'  BY <1>1, <1>2 DEF Tables
  <1>4. ASSUME UNCHANGED session PROVE Inv'
    <2>1. Sessions'  BY <1>1, <1>2, <1>4, SessionsKept
    <2> QED  BY <1>2, <1>3, <2>1 DEF Inv
  <1>5. ASSUME NEW s \in Threads, End(s) PROVE Inv'
    <2>1. Sessions'  BY <1>1, <1>2, <1>5, SessionsEnd
    <2> QED  BY <1>2, <1>3, <2>1 DEF Inv
  <1> QED  BY <1>2, <1>4, <1>5

LEMMA TicketTyped ==
    ASSUME NEW x \in Ticket, NEW st \in Status \cup {"gone"}, NEW u \in Staff
    PROVE  \A t \in {[x EXCEPT !.st = st], [x EXCEPT !.st = st, !.team = TRUE],
                     [x EXCEPT !.st = st, !.closer = u]} :
               t \in Ticket /\ t.cust = x.cust /\ t.num = x.num
  <1> DEFINE Typed(t) == t \in Ticket /\ t.cust = x.cust /\ t.num = x.num
  <1>1. Typed([x EXCEPT !.st = st])  BY DEF Ticket
  <1>2. Typed([x EXCEPT !.st = st, !.team = TRUE])  BY DEF Ticket
  <1>3. Typed([x EXCEPT !.st = st, !.closer = u])  BY DEF Ticket
  <1> QED  BY <1>1, <1>2, <1>3

LEMMA TicketButtons ==
    ASSUME Inv, NEW s \in Threads, NEW i \in DOMAIN ticket
    PROVE  /\ \A staff \in BOOLEAN : DeleteTicket(s, i, staff) => Inv'
           /\ Assign(s, i) => Inv'
           /\ \A st \in Status : UpdateStatus(s, i, st) => Inv'
           /\ \A u \in Staff : Approve(s, i, u) => Inv'
  <1>1. PICK x : x = ticket[i]  OBVIOUS
  <1>2. x \in Ticket /\ Boss \in Staff  BY <1>1, FieldAssumption DEF Inv, Tables
  <1>3. ASSUME NEW staff \in BOOLEAN, DeleteTicket(s, i, staff) PROVE Inv'
    <2>1. PICK t : t = [x EXCEPT !.st = "gone"]  OBVIOUS
    <2>2. t \in Ticket /\ t.cust = x.cust /\ t.num = x.num
      <3>1. "gone" \in Status \cup {"gone"}  OBVIOUS
      <3> QED  BY <1>2, <2>1, <3>1, TicketTyped
    <2>3. /\ ticket' = [ticket EXCEPT ![i] = t] /\ ticket[i].st # "gone"
          /\ UNCHANGED <<record, log, session, alert, waiting, now>>
      BY <1>1, <1>3, <2>1 DEF DeleteTicket, Rest
    <2> QED  BY <1>1, <2>2, <2>3, TicketStep
  <1>4. ASSUME Assign(s, i) PROVE Inv'
    <2>1. PICK t : t = [x EXCEPT !.st = "ASSIGNED", !.team = TRUE]  OBVIOUS
    <2>2. t \in Ticket /\ t.cust = x.cust /\ t.num = x.num
      <3>1. "ASSIGNED" \in Status \cup {"gone"}  BY DEF Status
      <3> QED  BY <1>2, <2>1, <3>1, TicketTyped
    <2>3. /\ ticket' = [ticket EXCEPT ![i] = t] /\ ticket[i].st # "gone"
          /\ UNCHANGED <<record, log, session, alert, waiting, now>>
      BY <1>1, <1>4, <2>1 DEF Assign, Rest
    <2> QED  BY <1>1, <2>2, <2>3, TicketStep
  <1>5. ASSUME NEW st \in Status, UpdateStatus(s, i, st) PROVE Inv'
    <2>1. PICK t : t = [x EXCEPT !.st = st]  OBVIOUS
    <2>2. t \in Ticket /\ t.cust = x.cust /\ t.num = x.num
      <3>1. st \in Status \cup {"gone"}  OBVIOUS
      <3> QED  BY <1>2, <2>1, <3>1, TicketTyped
    <2>3. /\ ticket' = [ticket EXCEPT ![i] = t] /\ ticket[i].st # "gone"
          /\ UNCHANGED <<record, log, session, alert, waiting, now>>
      BY <1>1, <1>5, <2>1 DEF UpdateStatus, Rest
    <2> QED  BY <1>1, <2>2, <2>3, TicketStep
  <1>6. ASSUME NEW u \in Staff, Approve(s, i, u) PROVE Inv'
    <2>1. PICK t : t = [x EXCEPT !.st = "APPROVED", !.closer = u]  OBVIOUS
    <2>2. t \in Ticket /\ t.cust = x.cust /\ t.num = x.num
      <3>1. "APPROVED" \in Status \cup {"gone"}  BY DEF Status
      <3> QED  BY <1>2, <2>1, <3>1, TicketTyped
    <2>3. /\ ticket' = [ticket EXCEPT ![i] = t] /\ ticket[i].st # "gone"
          /\ UNCHANGED <<record, log, session, alert, waiting, now>>
      BY <1>1, <1>6, <2>1 DEF Approve, Rest
    <2> QED  BY <1>1, <2>2, <2>3, TicketStep
  <1> QED  BY <1>3, <1>4, <1>5, <1>6

LEMMA SavesFormCustomer ==
    ASSUME Inv, NEW s \in Threads, SaveFormCustomer(s)
    PROVE  Inv'
  <1>1. Tables /\ Sessions  BY DEF Inv
  <1>2. PICK c : c = session[s].cust  OBVIOUS
  <1>3. /\ ticket' = Closed(ticket, c) /\ End(s)
        /\ UNCHANGED <<record, log, alert, waiting, now>>
    BY <1>2 DEF SaveFormCustomer, Rest
  <1>4. CASE OpenTickets(c) = {}
    <2>1. ticket' = ticket  BY <1>3, <1>4 DEF Closed
    <2>2. UNCHANGED Papers  BY <1>3, <2>1 DEF Papers
    <2>3. Grown /\ Numbered' /\ Linked'  BY <2>2, NothingWritten
    <2>4. Sessions'  BY <1>1, <1>3, <2>3, SessionsEnd
    <2>5. Tables'  BY <1>1, <1>3, <2>1 DEF Tables
    <2> QED  BY <2>3, <2>4, <2>5 DEF Inv
  <1>5. CASE OpenTickets(c) # {}
    <2>1. PICK i : i = CHOOSE m \in OpenTickets(c) : \A j \in OpenTickets(c) : j <= m  OBVIOUS
    <2>2. i \in OpenTickets(c)
      <3>1. Len(ticket) \in Nat /\ OpenTickets(c) \subseteq 1 .. Len(ticket)
        BY <1>1 DEF Tables, OpenTickets
      <3> QED  BY <1>5, <2>1, <3>1, LastIn
    <2>3. i \in DOMAIN ticket /\ ticket[i].st # "gone"  BY <2>2 DEF OpenTickets
    <2>4. PICK x : x = ticket[i]  OBVIOUS
    <2>5. PICK t : t = [x EXCEPT !.st = "COMPLETED"]  OBVIOUS
    <2>6. t \in Ticket /\ t.cust = x.cust /\ t.num = x.num
      <3>1. x \in Ticket /\ Boss \in Staff  BY <1>1, <2>3, <2>4, FieldAssumption DEF Tables
      <3>2. "COMPLETED" \in Status \cup {"gone"}  BY DEF Status
      <3> QED  BY <2>5, <3>1, <3>2, TicketTyped
    <2>7. ticket' = [ticket EXCEPT ![i] = t]
      <3>1. ticket' = [ticket EXCEPT ![i].st = "COMPLETED"]  BY <1>3, <1>5, <2>1 DEF Closed
      <3> QED  BY <2>4, <2>5, <3>1
    <2> QED  BY <1>3, <2>3, <2>4, <2>6, <2>7, TicketStep
  <1> QED  BY <1>4, <1>5

-----------------------------------------------------------------------------
(* The days given back, and the late-job check *)

\* A step that leaves the tables alone and moves its thread.
LEMMA Moves ==
    ASSUME Inv, NEW s \in Threads, UNCHANGED Papers, UNCHANGED alert, waiting' \subseteq Applicants,
           now' \in Nat
    PROVE  /\ Grown
           /\ End(s) => Inv'
           /\ UNCHANGED session => Inv'
           /\ \A j : Go(s, j) /\ Holds(j)' => Inv'
  <1>1. Tables /\ Sessions  BY DEF Inv
  <1>2. Grown /\ Numbered' /\ Linked'  BY NothingWritten
  <1>3. Tables'  BY <1>1 DEF Tables, Papers
  <1>4. ASSUME End(s) PROVE Inv'
    <2>1. Sessions'  BY <1>1, <1>2, <1>4, SessionsEnd
    <2> QED  BY <1>2, <1>3, <2>1 DEF Inv
  <1>5. ASSUME UNCHANGED session PROVE Inv'
    <2>1. Sessions'  BY <1>1, <1>2, <1>5, SessionsKept
    <2> QED  BY <1>2, <1>3, <2>1 DEF Inv
  <1>6. ASSUME NEW j, Go(s, j), Holds(j)' PROVE Inv'
    <2>1. Sessions'  BY <1>1, <1>2, <1>6, SessionsStep
    <2> QED  BY <1>2, <1>3, <2>1 DEF Inv
  <1> QED  BY <1>2, <1>4, <1>5, <1>6

LEMMA HoldsSla ==
    ASSUME NEW j, Holds(j), j.h = "sla"
    PROVE  /\ ListOf(j.todo, j.rows)
           /\ j.at = "next" => DOMAIN j = {"h", "at", "rows", "todo"}
           /\ j.at # "next" => /\ DOMAIN j = {"h", "at", "rows", "todo", "id", "days", "cust", "row"}
                               /\ j.at \in {"account", "rebate", "given"} /\ j.id \in j.todo
  BY DEF Holds, Idle

LEMMA Fewer ==
    ASSUME NEW todo, NEW rows, NEW i, ListOf(todo, rows)
    PROVE  ListOf(todo \ {i}, rows)
  BY DEF ListOf

LEMMA SlaStarts ==
    ASSUME Inv, NEW s \in Threads, Sla(s)
    PROVE  Inv'
  <1>1. Tables /\ Linked  BY DEF Inv
  <1>2. PICK todo : todo = {i \in DOMAIN log : ~log[i].done /\ log[i].cust # NoOne}  OBVIOUS
  <1>3. ListOf(todo, log)
    <2>1. \A i \in DOMAIN log : log[i] \in Entry  BY <1>1 DEF Tables
    <2>2. \A i \in todo : i \in DOMAIN log /\ log[i].from = 0  BY <1>1, <1>2 DEF Linked
    <2> QED  BY <1>2, <2>1, <2>2 DEF ListOf
  <1>4. PICK rows : rows = log  OBVIOUS
  <1>5. PICK j : j = [h |-> "sla", at |-> "next", rows |-> rows, todo |-> todo]  OBVIOUS
  <1>6. Go(s, j) /\ UNCHANGED Papers /\ UNCHANGED <<alert, waiting, now>>
    BY <1>2, <1>4, <1>5 DEF Sla, Rest
  <1>7. waiting' \subseteq Applicants /\ now' \in Nat  BY <1>1, <1>6 DEF Tables
  <1>8. Grown  BY <1>6, <1>7, Moves
  <1>9. Holds(j)'
    <2>1. ListOf(todo, rows)'  BY <1>3, <1>4, <1>8, StillList
    <2>2. j.h = "sla" /\ DOMAIN j = {"h", "at", "rows", "todo"} /\ j.at = "next"
          /\ j.todo = todo /\ j.rows = rows
      BY <1>5
    <2> QED  BY <2>1, <2>2 DEF Holds
  <1> QED  BY <1>6, <1>7, <1>9, Moves

LEMMA SlaMoves ==
    ASSUME Inv, NEW s \in Threads, SlaNext(s) \/ SlaExtend(s) \/ SlaRebate(s)
    PROVE  Inv'
  <1>1. PICK j : j = session[s]  OBVIOUS
  <1>2. Tables /\ j.h = "sla" /\ Holds(j)
    BY <1>1 DEF SlaNext, SlaExtend, SlaRebate, At, Inv, Sessions
  <1>3. ListOf(j.todo, j.rows)  BY <1>2, HoldsSla
  <1>4. UNCHANGED Papers /\ UNCHANGED <<alert, waiting, now>>
    BY DEF SlaNext, SlaExtend, SlaRebate, Rest, Papers
  <1>5. waiting' \subseteq Applicants /\ now' \in Nat  BY <1>2, <1>4 DEF Tables
  <1>6. Grown  BY <1>4, <1>5, Moves
  <1>7. ListOf(j.todo, j.rows)'  BY <1>3, <1>6, StillList
  <1>8. CASE SlaNext(s)
    <2>1. j.at = "next" /\ DOMAIN j = {"h", "at", "rows", "todo"}
      BY <1>1, <1>2, <1>8, HoldsSla DEF SlaNext, At
    <2>2. PICK i : i = Min(j.todo)  OBVIOUS
    <2>3. CASE j.todo = {}
      <3>1. End(s)  BY <1>1, <1>8, <2>3 DEF SlaNext
      <3> QED  BY <1>4, <1>5, <3>1, Moves
    <2>4. CASE j.todo # {}
      <3>1. i \in j.todo
        <4>1. j.todo \subseteq Nat
          <5>1. DOMAIN log \subseteq Nat  BY <1>2 DEF Tables
          <5> QED  BY <1>3, <5>1 DEF ListOf
        <4> QED  BY <2>2, <2>4, <4>1, MinIn
      <3>2. PICK k : k = [h |-> "sla", at |-> "account", rows |-> j.rows, todo |-> j.todo, id |-> i,
                          days |-> Owed(j.rows[i]) - j.rows[i].given,
                          cust |-> j.rows[i].cust, row |-> account[j.rows[i].cust]]
        OBVIOUS
      <3>3. PICK m : m = [j EXCEPT !.todo = @ \ {i}]  OBVIOUS
      <3>4. Go(s, k) \/ Go(s, m)
        BY <1>1, <1>8, <2>2, <2>4, <3>2, <3>3 DEF SlaNext
      <3>5. Holds(k)'
        <4>1. /\ k.h = "sla" /\ DOMAIN k = {"h", "at", "rows", "todo", "id", "days", "cust", "row"}
              /\ k.at = "account" /\ k.todo = j.todo /\ k.rows = j.rows /\ k.id = i
          BY <3>2
        <4> QED  BY <1>7, <3>1, <4>1 DEF Holds
      <3>6. Holds(m)'
        <4>1. /\ m.h = "sla" /\ DOMAIN m = {"h", "at", "rows", "todo"} /\ m.at = "next"
              /\ m.todo = j.todo \ {i} /\ m.rows = j.rows
          BY <1>2, <2>1, <3>3
        <4>2. ListOf(j.todo \ {i}, j.rows)'
          <5>1. ListOf(j.todo \ {i}, j.rows)  BY <1>3, Fewer
          <5> QED  BY <1>6, <5>1, StillList
        <4> QED  BY <4>1, <4>2 DEF Holds
      <3> QED  BY <1>4, <1>5, <3>4, <3>5, <3>6, Moves
    <2> QED  BY <2>3, <2>4
  <1>9. ASSUME NEW at \in {"rebate", "given"}, j.at # "next", Go(s, [j EXCEPT !.at = at])
        PROVE  Inv'
    <2>1. DOMAIN j = {"h", "at", "rows", "todo", "id", "days", "cust", "row"} /\ j.id \in j.todo
      BY <1>2, <1>9, HoldsSla
    <2>2. PICK k : k = [j EXCEPT !.at = at]  OBVIOUS
    <2>3. /\ k.h = "sla" /\ DOMAIN k = {"h", "at", "rows", "todo", "id", "days", "cust", "row"}
          /\ k.at = at /\ k.todo = j.todo /\ k.rows = j.rows /\ k.id = j.id
      BY <1>2, <2>1, <2>2
    <2>4. Holds(k)'  BY <1>7, <2>1, <2>3 DEF Holds
    <2> QED  BY <1>4, <1>5, <1>9, <2>2, <2>4, Moves
  <1>10. CASE SlaExtend(s)
    <2>1. j.at # "next" /\ Go(s, [j EXCEPT !.at = "rebate"])  BY <1>1, <1>10 DEF SlaExtend, At
    <2> QED  BY <1>9, <2>1
  <1>11. CASE SlaRebate(s)
    <2>1. j.at # "next" /\ Go(s, [j EXCEPT !.at = "given"])  BY <1>1, <1>11 DEF SlaRebate, At
    <2> QED  BY <1>9, <2>1
  <1> QED  BY <1>8, <1>10, <1>11

LEMMA SlaGives ==
    ASSUME Inv, NEW s \in Threads, SlaGiven(s)
    PROVE  Inv'
  <1>1. PICK j : j = session[s]  OBVIOUS
  <1>2. Tables /\ Sessions /\ j.h = "sla" /\ j.at = "given" /\ Holds(j)
    BY <1>1 DEF SlaGiven, At, Inv, Sessions
  <1>3. ListOf(j.todo, j.rows) /\ j.id \in j.todo  BY <1>2, HoldsSla
  <1>4. PICK i : i = j.id  OBVIOUS
  <1>5. PICK x : x = j.rows[i]  OBVIOUS
  <1>6. PICK e : e = Given(x)  OBVIOUS
  <1>7. /\ i \in DOMAIN log /\ x \in Entry /\ x.from = 0 /\ log[i].from = 0
        /\ x.cust = log[i].cust /\ x.num = log[i].num
    BY <1>3, <1>4, <1>5 DEF ListOf
  <1>8. e \in Entry /\ e.cust = x.cust /\ e.num = x.num /\ e.from = 0
    <2>1. PICK d : d = Owed(x)  OBVIOUS
    <2>2. d \in Int
      <3>1. now - x.at \in Int  BY <1>2, <1>7 DEF Tables, Entry
      <3> QED  BY <2>1, <3>1 DEF Owed
    <2>3. e = [x EXCEPT !.given = d]  BY <1>6, <2>1 DEF Given
    <2> QED  BY <1>7, <2>2, <2>3 DEF Entry
  <1>9. /\ log' = [log EXCEPT ![i] = e] /\ UNCHANGED <<record, ticket, alert, waiting, now>>
        /\ Go(s, [h |-> "sla", at |-> "next", rows |-> j.rows, todo |-> j.todo \ {i}])
    BY <1>1, <1>4, <1>5, <1>6 DEF SlaGiven, Rest
  <1>10. log' \in Seq(Entry) /\ Grown /\ Numbered' /\ Linked'
    BY <1>7, <1>8, <1>9, LogWritten
  <1>11. Tables'  BY <1>2, <1>9, <1>10 DEF Tables
  <1>12. PICK k : k = [h |-> "sla", at |-> "next", rows |-> j.rows, todo |-> j.todo \ {i}]  OBVIOUS
  <1>13. Holds(k)'
    <2>1. k.h = "sla" /\ DOMAIN k = {"h", "at", "rows", "todo"} /\ k.at = "next"
          /\ k.todo = j.todo \ {i} /\ k.rows = j.rows
      BY <1>12
    <2>2. ListOf(j.todo \ {i}, j.rows)  BY <1>3, Fewer
    <2>3. ListOf(j.todo \ {i}, j.rows)'  BY <1>10, <2>2, StillList
    <2> QED  BY <2>1, <2>3 DEF Holds
  <1>14. Sessions'  BY <1>2, <1>9, <1>10, <1>12, <1>13, SessionsStep
  <1> QED  BY <1>10, <1>11, <1>14 DEF Inv

LEMMA HoldsCheck ==
    ASSUME NEW j, Holds(j), j.h = "check"
    PROVE  /\ j.at = "raise" =>
                /\ j.back \in {"applicants", "tickets"} /\ Lates(j.back, j.todo)
                /\ j.about \in Numbers \cup {NameOf[a] : a \in Applicants} /\ j.red \in BOOLEAN
           /\ j.at # "raise" =>
                /\ DOMAIN j = {"h", "at", "todo"} /\ j.at \in {"applicants", "tickets"}
                /\ Lates(j.at, j.todo)
  BY DEF Holds, Idle

LEMMA HeldWalk ==
    ASSUME NEW at \in {"applicants", "tickets"}, NEW todo, Lates(at, todo)'
    PROVE  Holds([h |-> "check", at |-> at, todo |-> todo])'
  <1>1. PICK k : k = [h |-> "check", at |-> at, todo |-> todo]  OBVIOUS
  <1>2. k.h = "check" /\ DOMAIN k = {"h", "at", "todo"} /\ k.at = at /\ k.todo = todo  BY <1>1
  <1>3. Holds(k)'  BY <1>2 DEF Holds
  <1> QED  BY <1>1, <1>3

LEMMA StillLate ==
    ASSUME NEW at, NEW todo, Lates(at, todo), Grown
    PROVE  Lates(at, todo)'
  BY DEF Lates, Grown

LEMMA CheckStarts ==
    ASSUME Inv, NEW s \in Threads, Check(s)
    PROVE  Inv'
  <1>1. Tables  BY DEF Inv
  <1>2. PICK todo : todo = LateApplicants  OBVIOUS
  <1>3. Go(s, [h |-> "check", at |-> "applicants", todo |-> todo]) /\ UNCHANGED Papers
        /\ UNCHANGED <<alert, waiting, now>>
    BY <1>2 DEF Check, Rest
  <1>4. waiting' \subseteq Applicants /\ now' \in Nat  BY <1>1, <1>3 DEF Tables
  <1>5. Lates("applicants", todo)  BY <1>1, <1>2 DEF Lates, LateApplicants, Tables
  <1>6. Lates("applicants", todo)'  BY <1>5 DEF Lates
  <1>7. Holds([h |-> "check", at |-> "applicants", todo |-> todo])'  BY <1>6, HeldWalk
  <1> QED  BY <1>3, <1>4, <1>7, Moves

LEMMA CheckMoves ==
    ASSUME Inv, NEW s \in Threads, CheckNext(s)
    PROVE  Inv'
  <1>1. Tables  BY DEF Inv
  <1>2. PICK j : j = session[s]  OBVIOUS
  <1>3. /\ DOMAIN j = {"h", "at", "todo"} /\ j.h = "check" /\ j.at \in {"applicants", "tickets"}
        /\ Lates(j.at, j.todo)
    <2>1. j.h = "check" /\ j.at \in {"applicants", "tickets"} /\ Holds(j)
      BY <1>2 DEF CheckNext, Inv, Sessions
    <2> QED  BY <2>1, HoldsCheck
  <1>4. UNCHANGED Papers /\ UNCHANGED <<alert, waiting, now>>  BY DEF CheckNext, Rest
  <1>5. waiting' \subseteq Applicants /\ now' \in Nat  BY <1>1, <1>4 DEF Tables
  <1>6. Grown  BY <1>4, <1>5, Moves
  <1>7. PICK x : x = CHOOSE y \in j.todo : TRUE  OBVIOUS
  <1>8. PICK about : about = IF j.at = "applicants" THEN NameOf[x] ELSE ticket[x].num  OBVIOUS
  <1>9. PICK red : red = IsRed(IF j.at = "applicants" THEN 0 ELSE ticket[x].at)  OBVIOUS
  <1>10. CASE j.todo # {}
    <2>1. x \in j.todo  BY <1>7, <1>10
    <2>2. about \in Numbers \cup {NameOf[a] : a \in Applicants} /\ red \in BOOLEAN
      <3>1. ASSUME j.at = "tickets" PROVE ticket[x] \in Ticket
        BY <1>1, <1>3, <2>1, <3>1 DEF Lates, Tables
      <3>2. j.at = "applicants" => x \in Applicants  BY <1>3, <2>1 DEF Lates
      <3>3. red \in BOOLEAN  BY <1>9 DEF IsRed
      <3> QED  BY <1>3, <1>8, <3>1, <3>2, <3>3 DEF Ticket
    <2>3. Lates(j.at, j.todo \ {x})'
      <3>1. Lates(j.at, j.todo \ {x})  BY <1>3 DEF Lates
      <3> QED  BY <1>6, <3>1, StillLate
    <2>4. CASE Told(about)
      <3>1. Go(s, [j EXCEPT !.todo = @ \ {x}])
        BY <1>2, <1>7, <1>8, <1>10, <2>4 DEF CheckNext
      <3>2. [j EXCEPT !.todo = @ \ {x}] = [h |-> "check", at |-> j.at, todo |-> j.todo \ {x}]
        BY <1>3
      <3>3. Holds([h |-> "check", at |-> j.at, todo |-> j.todo \ {x}])'  BY <1>3, <2>3, HeldWalk
      <3> QED  BY <1>4, <1>5, <3>1, <3>2, <3>3, Moves
    <2>5. CASE ~Told(about)
      <3>1. PICK k : k = [h |-> "check", at |-> "raise", back |-> j.at, todo |-> j.todo \ {x},
                          about |-> about, red |-> red]
        OBVIOUS
      <3>2. Go(s, k)
        BY <1>2, <1>7, <1>8, <1>9, <1>10, <2>5, <3>1 DEF CheckNext
      <3>3. Holds(k)'
        <4>1. /\ k.h = "check" /\ DOMAIN k = {"h", "at", "back", "todo", "about", "red"}
              /\ k.at = "raise" /\ k.back = j.at /\ k.todo = j.todo \ {x}
              /\ k.about = about /\ k.red = red
          BY <3>1
        <4> QED  BY <1>3, <2>2, <2>3, <4>1 DEF Holds
      <3> QED  BY <1>4, <1>5, <3>2, <3>3, Moves
    <2> QED  BY <2>4, <2>5
  <1>11. CASE j.todo = {} /\ j.at = "applicants"
    <2>1. PICK todo : todo = LateTickets  OBVIOUS
    <2>2. PICK k : k = [j EXCEPT !.at = "tickets", !.todo = todo]  OBVIOUS
    <2>3. Go(s, k)  BY <1>2, <1>11, <2>1, <2>2 DEF CheckNext
    <2>4. k.h = "check" /\ DOMAIN k = {"h", "at", "todo"} /\ k.at = "tickets" /\ k.todo = todo
      BY <1>3, <2>2
    <2>5. Lates("tickets", todo)  BY <2>1 DEF Lates, LateTickets
    <2>6. Lates("tickets", todo)'  BY <1>6, <2>5, StillLate
    <2>7. Holds(k)'  BY <2>4, <2>6 DEF Holds
    <2> QED  BY <1>4, <1>5, <2>3, <2>7, Moves
  <1>12. CASE j.todo = {} /\ j.at # "applicants"
    <2>1. End(s)  BY <1>2, <1>12 DEF CheckNext
    <2> QED  BY <1>4, <1>5, <2>1, Moves
  <1> QED  BY <1>10, <1>11, <1>12

\* What a raise writes.
LEMMA RaiseIs ==
    ASSUME Inv, NEW s \in Threads, CheckRaise(s)
    PROVE  /\ session[s].h = "check" /\ session[s].at = "raise"
           /\ alert' \in Seq(Alarm) /\ Len(alert') = Len(alert) + 1 /\ Len(alert) \in Nat
           /\ \A k \in 1 .. Len(alert) : alert'[k] = alert[k]
           /\ alert'[Len(alert) + 1].about = session[s].about
           /\ alert'[Len(alert) + 1].at = now
           /\ UNCHANGED now
  <1>1. PICK j : j = session[s]  OBVIOUS
  <1>2. Tables /\ j.h = "check" /\ j.at = "raise" /\ Holds(j)
    BY <1>1 DEF CheckRaise, At, Inv, Sessions
  <1>3. j.about \in Numbers \cup {NameOf[a] : a \in Applicants} /\ j.red \in BOOLEAN
    BY <1>2, HoldsCheck
  <1>4. PICK e : e = [about |-> j.about, at |-> now, red |-> j.red]  OBVIOUS
  <1>5. e \in Alarm /\ e.about = j.about /\ e.at = now  BY <1>2, <1>3, <1>4 DEF Alarm, Tables
  <1>6. alert' = Append(alert, e) /\ UNCHANGED now  BY <1>1, <1>4 DEF CheckRaise
  <1> QED  BY <1>1, <1>2, <1>5, <1>6, SeqAdd DEF Tables

LEMMA CheckRaises ==
    ASSUME Inv, NEW s \in Threads, CheckRaise(s)
    PROVE  Inv'
  <1>1. PICK j : j = session[s]  OBVIOUS
  <1>2. Tables /\ Sessions /\ j.h = "check" /\ j.at = "raise" /\ Holds(j)
    BY <1>1 DEF CheckRaise, At, Inv, Sessions
  <1>3. j.back \in {"applicants", "tickets"} /\ Lates(j.back, j.todo)  BY <1>2, HoldsCheck
  <1>4. /\ UNCHANGED Papers /\ UNCHANGED <<waiting, now>>
        /\ Go(s, [h |-> "check", at |-> j.back, todo |-> j.todo])
    BY <1>1 DEF CheckRaise
  <1>5. Grown /\ Numbered' /\ Linked'  BY <1>4, NothingWritten
  <1>6. Tables'
    <2>1. alert' \in Seq(Alarm)  BY RaiseIs
    <2> QED  BY <1>2, <1>4, <2>1 DEF Tables, Papers
  <1>7. Lates(j.back, j.todo)'  BY <1>3, <1>5, StillLate
  <1>8. Holds([h |-> "check", at |-> j.back, todo |-> j.todo])'  BY <1>3, <1>7, HeldWalk
  <1>9. Sessions'  BY <1>2, <1>4, <1>5, <1>8, SessionsStep
  <1> QED  BY <1>5, <1>6, <1>9 DEF Inv

\* Payments, verifications, the options, the clock and a killed worker.
LEMMA Others ==
    ASSUME Inv, NEW s \in Threads,
           \/ \E c \in Customers : Pay(s, c)
           \/ \E a \in waiting : Verify(s, a)
           \/ \E l \in LabelNames : AddOption(s, l) \/ ToggleOption(s, l) \/ DeleteOption(s, l)
           \/ Stop(s)
    PROVE  Inv'
  <1>1. Tables  BY DEF Inv
  <1>2. /\ UNCHANGED Papers /\ UNCHANGED <<alert, now>>
        /\ waiting' \subseteq waiting /\ (UNCHANGED session \/ End(s))
    BY DEF Pay, Verify, AddOption, ToggleOption, DeleteOption, Stop, Rest
  <1>3. waiting' \subseteq Applicants /\ now' \in Nat  BY <1>1, <1>2 DEF Tables
  <1> QED  BY <1>2, <1>3, Moves

LEMMA Ticks ==
    ASSUME Inv, Tick
    PROVE  Inv'
  <1>1. Tables /\ Sessions  BY DEF Inv
  <1>2. UNCHANGED Papers /\ UNCHANGED <<alert, waiting, session>> /\ now' = now + 1  BY DEF Tick
  <1>3. Grown /\ Numbered' /\ Linked'  BY <1>2, NothingWritten
  <1>4. Tables'  BY <1>1, <1>2 DEF Tables, Papers
  <1>5. Sessions'  BY <1>1, <1>2, <1>3, SessionsKept
  <1> QED  BY <1>3, <1>4, <1>5 DEF Inv

LEMMA NothingMoves ==
    ASSUME Inv, UNCHANGED vars
    PROVE  Inv'
  <1>1. Tables /\ Sessions  BY DEF Inv
  <1>2. UNCHANGED Papers /\ UNCHANGED <<alert, waiting, session, now>>  BY DEF vars, Papers
  <1>3. Grown /\ Numbered' /\ Linked'  BY <1>2, NothingWritten
  <1>4. Tables'  BY <1>1, <1>2 DEF Tables, Papers
  <1>5. Sessions'  BY <1>1, <1>2, <1>3, SessionsKept
  <1> QED  BY <1>3, <1>4, <1>5 DEF Inv

-----------------------------------------------------------------------------
(* The invariant *)

LEMMA InvInit ==
    ASSUME Init
    PROVE  Inv
  <1>1. Tables
    <2>1. record \in Seq(Record) /\ log \in Seq(Entry) /\ ticket \in Seq(Ticket) /\ alert \in Seq(Alarm)
      <3>1. \A S : <<>> \in Seq(S)  OBVIOUS
      <3> QED  BY <3>1 DEF Init
    <2> QED  BY <2>1 DEF Init, Tables
  <1>2. DOMAIN record = {} /\ DOMAIN log = {} /\ DOMAIN ticket = {}  BY DEF Init
  <1>3. Numbered /\ Linked  BY <1>2 DEF Numbered, Linked
  <1>4. Sessions  BY DEF Init, Sessions, Holds
  <1> QED  BY <1>1, <1>3, <1>4 DEF Inv

\* Every action of a thread.
LEMMA InvStep ==
    ASSUME Inv, [Next]_vars
    PROVE  Inv'
  <1>1. CASE UNCHANGED vars  BY <1>1, NothingMoves
  <1>2. CASE Tick  BY <1>2, Ticks
  <1>3. ASSUME NEW s \in Threads, Request(s) PROVE Inv'
    <2>1. CASE \E c \in Customers, n \in Numbers : Submit(s, c, n)  BY <2>1, Submits
    <2>2. CASE DeskRecord(s)  BY <2>2, DeskRecords
    <2>3. CASE DeskLog(s)  BY <2>3, DeskLogs
    <2>4. CASE \E h \in {"dispatch", "undispatch", "done", "form"}, r \in DOMAIN record : OpenRecord(s, h, r)
      BY <2>4, Opens
    <2>5. CASE \E r \in DOMAIN record, staff \in BOOLEAN : DeleteRecord(s, r, staff)
      BY <2>5, DeletesRecord
    <2>6. CASE \E i \in DOMAIN ticket, staff \in BOOLEAN : DeleteTicket(s, i, staff)
      BY <2>6, TicketButtons
    <2>7. CASE \E i \in DOMAIN ticket : Assign(s, i)  BY <2>7, TicketButtons
    <2>8. CASE \E i \in DOMAIN ticket, st \in Status : UpdateStatus(s, i, st)  BY <2>8, TicketButtons
    <2>9. CASE \E i \in DOMAIN ticket, u \in Staff : Approve(s, i, u)  BY <2>9, TicketButtons
    <2>10. CASE \/ \E c \in Customers : Pay(s, c)
                \/ \E a \in waiting : Verify(s, a)
                \/ \E l \in LabelNames : AddOption(s, l) \/ ToggleOption(s, l) \/ DeleteOption(s, l)
      BY <2>10, Others
    <2>11. CASE Sla(s)  BY <2>11, SlaStarts
    <2>12. CASE Check(s)  BY <2>12, CheckStarts
    <2> QED  BY <1>3, <2>1, <2>2, <2>3, <2>4, <2>5, <2>6, <2>7, <2>8, <2>9, <2>10, <2>11, <2>12
             DEF Request
  <1>4. ASSUME NEW s \in Threads, Continue(s) PROVE Inv'
    <2>1. CASE SubmitRecord(s)  BY <2>1, SubmitsRecord
    <2>2. CASE SubmitTicket(s)  BY <2>2, SubmitsTicket
    <2>3. CASE SaveDispatched(s)  BY <2>3, SavesDispatched
    <2>4. CASE SaveUndispatched(s)  BY <2>4, SavesUndispatched
    <2>5. CASE SaveDone(s)  BY <2>5, SavesDone
    <2>6. CASE LogDone(s)  BY <2>6, LogsDone
    <2>7. CASE LinkLog(s)  BY <2>7, LinksLog
    <2>8. CASE SaveForm(s)  BY <2>8, SavesForm
    <2>9. CASE SaveFormCustomer(s)  BY <2>9, SavesFormCustomer
    <2>10. CASE SlaNext(s) \/ SlaExtend(s) \/ SlaRebate(s)  BY <2>10, SlaMoves
    <2>11. CASE SlaGiven(s)  BY <2>11, SlaGives
    <2>12. CASE CheckNext(s)  BY <2>12, CheckMoves
    <2>13. CASE CheckRaise(s)  BY <2>13, CheckRaises
    <2>14. CASE Stop(s)  BY <2>14, Others
    <2> QED  BY <1>4, <2>1, <2>2, <2>3, <2>4, <2>5, <2>6, <2>7, <2>8, <2>9, <2>10, <2>11, <2>12,
                <2>13, <2>14 DEF Continue
  <1> QED  BY <1>1, <1>2, <1>3, <1>4 DEF Next

THEOREM InvCorrect == Spec => []Inv
  <1>1. Init => Inv  BY InvInit
  <1>2. Inv /\ [Next]_vars => Inv'  BY InvStep
  <1> QED  BY <1>1, <1>2, PTL DEF Spec

\* LoggedOnce: whoever presses Done on which copy of a record, however often and
\* whatever else runs, update_or_create leaves one entry of the dispatch log for the
\* record, and no list of open entries walked by the rebate task writes an entry that
\* says done back as it was (dispatch/views.py:1936, tasks.py:147).
THEOREM EntriesAreOne == Spec => []LoggedOnce
  <1>1. Inv => LoggedOnce
    <2> SUFFICES ASSUME Inv, NEW r \in DOMAIN record
                 PROVE  /\ Cardinality({i \in DOMAIN log : log[i].from = r}) <= 1
                        /\ \A i \in DOMAIN log : log[i].from = r => log[i].done
      BY DEF LoggedOnce
    <2>1. Linked /\ Tables  BY DEF Inv
    <2>2. r # 0
      <3>1. DOMAIN record = 1 .. Len(record) /\ Len(record) \in Nat  BY <2>1 DEF Tables
      <3> QED  BY <3>1
    <2>3. PICK E : E = {i \in DOMAIN log : log[i].from = r}  OBVIOUS
    <2>4. \A i, k \in E : i = k  BY <2>1, <2>2, <2>3 DEF Linked
    <2>5. Cardinality(E) <= 1
      <3>1. CASE E = {}
        <4>1. Cardinality({}) = 0  BY FS_EmptySet
        <4> QED  BY <3>1, <4>1
      <3>2. CASE E # {}
        <4>1. PICK i : i \in E  BY <3>2
        <4>2. E = {i}  BY <2>4, <4>1
        <4>3. Cardinality(E) = 1  BY <4>2, FS_Singleton
        <4> QED  BY <4>3
      <3> QED  BY <3>1, <3>2
    <2>6. \A i \in DOMAIN log : log[i].from = r => log[i].done  BY <2>1, <2>2 DEF Linked
    <2> QED  BY <2>3, <2>5, <2>6
  <1> QED  BY <1>1, InvCorrect, PTL

\* ConcernIsShown: while no two submissions fall in one second, a concern is in its
\* customer's history, and once while it has a ticket, whatever died, was deleted or
\* was saved over (customer_portal/views/tickets.py:155-199).
THEOREM ConcernsShown ==
    ASSUME ~Crowded
    PROVE  Spec => []ConcernIsShown
  <1>1. Inv => ConcernIsShown
    <2> SUFFICES ASSUME Inv, NEW i \in DOMAIN log, log[i].cust # NoOne
                 PROVE  /\ Shown(log[i].cust, log[i].num) >= 1
                        /\ (\E k \in DOMAIN ticket : ticket[k].num = log[i].num /\ ticket[k].st # "gone")
                              => Shown(log[i].cust, log[i].num) = 1
      BY DEF ConcernIsShown
    <2>1. Tables /\ Numbered  BY DEF Inv
    <2>2. PICK c : c = log[i].cust  OBVIOUS
    <2>3. PICK n : n = log[i].num  OBVIOUS
    <2>4. PICK T : T = {k \in DOMAIN ticket : ticket[k].cust = c /\ ticket[k].num = n /\ ticket[k].st # "gone"}
      OBVIOUS
    <2>5. PICK L : L = {k \in DOMAIN log : log[k].cust = c /\ log[k].num = n}  OBVIOUS
    <2>6. Shown(c, n) = IF T # {} THEN Cardinality(T) ELSE Cardinality(L)
      BY <2>4, <2>5 DEF Shown
    <2>7. \A k, m \in T : k = m  BY <2>1, <2>4 DEF Numbered
    <2>8. T # {} => Cardinality(T) = 1
      <3> SUFFICES ASSUME T # {} PROVE Cardinality(T) = 1  OBVIOUS
      <3>1. PICK k : k \in T  OBVIOUS
      <3>2. T = {k}  BY <2>7, <3>1
      <3> QED  BY <3>2, FS_Singleton
    <2>9. Cardinality(L) >= 1
      <3>1. i \in L  BY <2>2, <2>3, <2>5
      <3>2. IsFiniteSet(L)
        <4>1. DOMAIN log = 1 .. Len(log) /\ Len(log) \in Nat  BY <2>1 DEF Tables
        <4>2. IsFiniteSet(1 .. Len(log))  BY <4>1, FS_Interval
        <4>3. L \subseteq 1 .. Len(log)  BY <2>5, <4>1
        <4> QED  BY <4>2, <4>3, FS_Subset
      <3>3. Cardinality(L) \in Nat /\ Cardinality(L) # 0  BY <3>1, <3>2, FS_CardinalityType, FS_EmptySet
      <3> QED  BY <3>3
    <2>10. (\E k \in DOMAIN ticket : ticket[k].num = n /\ ticket[k].st # "gone") => T # {}
      <3> SUFFICES ASSUME NEW k \in DOMAIN ticket, ticket[k].num = n, ticket[k].st # "gone"
                   PROVE  T # {}
        OBVIOUS
      <3>1. ticket[k] \in Ticket  BY <2>1 DEF Tables
      <3>2. ticket[k].cust # NoOne  BY <3>1, FieldAssumption DEF Ticket
      <3>3. PICK o \in DOMAIN log : log[o].cust = ticket[k].cust /\ log[o].num = n
        BY <2>1 DEF Numbered, Sent
      <3>4. log[o].cust = c  BY <2>1, <2>2, <2>3, <3>2, <3>3 DEF Numbered
      <3>5. k \in T  BY <2>4, <3>3, <3>4
      <3> QED  BY <3>5
    <2> QED  BY <2>2, <2>3, <2>6, <2>8, <2>9, <2>10
  <1> QED  BY <1>1, InvCorrect, PTL

-----------------------------------------------------------------------------
(* Alerts *)

\* One check at a time, whose answer about a subject is still true when it writes.
OneCheck == \A s, t \in Threads : session[s].h = "check" /\ session[t].h = "check" => s = t
Asked == \A s \in Threads :
            session[s].h = "check" /\ session[s].at = "raise" => ~Told(session[s].about)
AlertInv == Inv /\ OneCheck /\ Asked /\ AlertsSpaced /\ \A k \in DOMAIN alert : alert[k].at <= now

LEMMA OthersDoNotCheck ==
    ASSUME Inv, NEW s \in Threads,
           \/ Request(s) /\ ~Check(s)
           \/ Continue(s) /\ ~CheckNext(s) /\ ~CheckRaise(s)
    PROVE  /\ UNCHANGED <<alert, now>>
           /\ \A t \in Threads \ {s} : session'[t] = session[t]
           /\ session'[s].h = "check" => session'[s] = session[s]
  <1>1. DOMAIN session = Threads  BY DEF Inv, Sessions
  <1>2. UNCHANGED <<alert, now>>
    BY DEF Request, Continue, Submit, DeskRecord, DeskLog, OpenRecord, DeleteRecord, DeleteTicket,
           Assign, UpdateStatus, Approve, Pay, Verify, AddOption, ToggleOption, DeleteOption, Sla,
           SubmitRecord, SubmitTicket, SaveDispatched, SaveUndispatched, SaveDone, LogDone, LinkLog,
           SaveForm, SaveFormCustomer, SlaNext, SlaExtend, SlaRebate, SlaGiven, Stop, Rest
  <1>3. PICK j : j = session[s]  OBVIOUS
  <1>4. ASSUME NEW k, Go(s, k), k.h # "check" \/ k = j
        PROVE  /\ \A t \in Threads \ {s} : session'[t] = session[t]
               /\ session'[s].h = "check" => session'[s] = session[s]
    BY <1>1, <1>3, <1>4 DEF Go
  <1>5. ASSUME End(s)
        PROVE  /\ \A t \in Threads \ {s} : session'[t] = session[t]
               /\ session'[s].h = "check" => session'[s] = session[s]
    <2>1. Go(s, Idle) /\ Idle.h # "check"  BY <1>5 DEF Go, End, Idle
    <2> QED  BY <1>4, <2>1
  <1>6. ASSUME UNCHANGED session
        PROVE  /\ \A t \in Threads \ {s} : session'[t] = session[t]
               /\ session'[s].h = "check" => session'[s] = session[s]
    BY <1>6
  <1>7. CASE \/ SubmitRecord(s) \/ SaveDone(s) \/ LogDone(s) \/ SlaExtend(s) \/ SlaRebate(s)
             \/ SlaNext(s)
    <2>1. j.h # "check" /\ "h" \in DOMAIN j
      <3>1. Holds(j)  BY <1>3 DEF Inv, Sessions
      <3>2. CASE SubmitRecord(s)
        <4>1. j.h = "submit"  BY <1>3, <3>2 DEF SubmitRecord, At
        <4> QED  BY <3>1, <4>1, HoldsSubmit
      <3>3. CASE SaveDone(s) \/ LogDone(s)
        <4>1. j.h = "done" /\ j.at # "customer"  BY <1>3, <3>3 DEF SaveDone, LogDone, At
        <4> QED  BY <3>1, <4>1, HoldsButton
      <3>4. CASE SlaExtend(s) \/ SlaRebate(s) \/ SlaNext(s)
        <4>1. j.h = "sla"  BY <1>3, <3>4 DEF SlaExtend, SlaRebate, SlaNext, At
        <4>2. "h" \in DOMAIN j  BY <3>1, <4>1, HoldsSla
        <4> QED  BY <4>1, <4>2
      <3> QED  BY <1>7, <3>2, <3>3, <3>4
    <2>2. CASE SubmitRecord(s)
      <3>1. PICK k : k = [j EXCEPT !.at = "ticket"]  OBVIOUS
      <3>2. k.h # "check"  BY <2>1, <3>1
      <3>3. Go(s, k)  BY <1>3, <2>2, <3>1 DEF SubmitRecord
      <3> QED  BY <1>2, <1>4, <3>2, <3>3
    <2>3. CASE SaveDone(s)
      <3>1. PICK row : row = Finished(j.row)  OBVIOUS
      <3>2. PICK k : k = [j EXCEPT !.at = "log", !.row = row]  OBVIOUS
      <3>3. k.h # "check"  BY <2>1, <3>2
      <3>4. Go(s, k)  BY <1>3, <2>3, <3>1, <3>2 DEF SaveDone
      <3> QED  BY <1>2, <1>4, <3>3, <3>4
    <2>4. CASE LogDone(s)
      <3>1. PICK i : i = IF Entries(j.id) = {} THEN Len(log) + 1 ELSE Min(Entries(j.id))  OBVIOUS
      <3>2. PICK k : k = [j EXCEPT !.at = "link", !.row.log = i]  OBVIOUS
      <3>3. k.h # "check"  BY <2>1, <3>2
      <3>4. End(s) \/ Go(s, k)  BY <1>3, <2>4, <3>1, <3>2 DEF LogDone
      <3> QED  BY <1>2, <1>4, <1>5, <3>3, <3>4
    <2>5. CASE SlaExtend(s) \/ SlaRebate(s)
      <3>1. PICK at : at = IF SlaExtend(s) THEN "rebate" ELSE "given"  OBVIOUS
      <3>2. PICK k : k = [j EXCEPT !.at = at]  OBVIOUS
      <3>3. k.h # "check"  BY <2>1, <3>2
      <3>4. Go(s, k)  BY <1>3, <2>5, <3>1, <3>2 DEF SlaExtend, SlaRebate
      <3> QED  BY <1>2, <1>4, <3>3, <3>4
    <2>6. CASE SlaNext(s)
      <3>1. PICK i : i = Min(j.todo)  OBVIOUS
      <3>2. PICK k : k = [h |-> "sla", at |-> "account", rows |-> j.rows, todo |-> j.todo, id |-> i,
                          days |-> Owed(j.rows[i]) - j.rows[i].given,
                          cust |-> j.rows[i].cust, row |-> account[j.rows[i].cust]]
        OBVIOUS
      <3>3. PICK m : m = [j EXCEPT !.todo = @ \ {i}]  OBVIOUS
      <3>4. k.h # "check" /\ m.h # "check"  BY <2>1, <3>2, <3>3
      <3>5. End(s) \/ Go(s, k) \/ Go(s, m)  BY <1>3, <2>6, <3>1, <3>2, <3>3 DEF SlaNext
      <3> QED  BY <1>2, <1>4, <1>5, <3>4, <3>5
    <2> QED  BY <1>7, <2>2, <2>3, <2>4, <2>5, <2>6
  <1>8. CASE \/ \E c \in Customers, n \in Numbers : Submit(s, c, n)
             \/ \E h \in {"dispatch", "undispatch", "done", "form"}, r \in DOMAIN record : OpenRecord(s, h, r)
             \/ Sla(s) \/ SaveForm(s) \/ SlaGiven(s)
    <2>1. End(s) \/ \E k : Go(s, k) /\ k.h # "check"
      <3>1. ASSUME NEW c \in Customers, NEW n \in Numbers, Submit(s, c, n)
            PROVE  \E k : Go(s, k) /\ k.h # "check"
        <4>1. PICK k : k = [h |-> "submit", at |-> "record", cust |-> c, num |-> n, log |-> Len(log) + 1]
          OBVIOUS
        <4>2. Go(s, k) /\ k.h # "check"  BY <3>1, <4>1 DEF Submit
        <4> QED  BY <4>2
      <3>2. ASSUME NEW h \in {"dispatch", "undispatch", "done", "form"}, NEW r \in DOMAIN record,
                   OpenRecord(s, h, r)
            PROVE  \E k : Go(s, k) /\ k.h # "check"
        <4>1. PICK k : k = [h |-> h, at |-> "save", id |-> r, row |-> record[r]]  OBVIOUS
        <4>2. Go(s, k) /\ k.h # "check"  BY <3>2, <4>1 DEF OpenRecord
        <4> QED  BY <4>2
      <3>3. ASSUME Sla(s) PROVE \E k : Go(s, k) /\ k.h # "check"
        <4>1. PICK k : k = [h |-> "sla", at |-> "next", rows |-> log,
                            todo |-> {i \in DOMAIN log : ~log[i].done /\ log[i].cust # NoOne}]
          OBVIOUS
        <4>2. Go(s, k) /\ k.h # "check"  BY <3>3, <4>1 DEF Sla
        <4> QED  BY <4>2
      <3>4. ASSUME SaveForm(s) PROVE End(s) \/ \E k : Go(s, k) /\ k.h # "check"
        <4>1. PICK row : row = Filled(session[s].row)  OBVIOUS
        <4>2. PICK k : k = [h |-> "form", at |-> "customer", cust |-> row.cust, row |-> account[row.cust]]
          OBVIOUS
        <4>3. End(s) \/ Go(s, k)  BY <3>4, <4>1, <4>2 DEF SaveForm
        <4>4. k.h # "check"  BY <4>2
        <4> QED  BY <4>3, <4>4
      <3>5. ASSUME SlaGiven(s) PROVE \E k : Go(s, k) /\ k.h # "check"
        <4>1. PICK k : k = [h |-> "sla", at |-> "next", rows |-> session[s].rows,
                            todo |-> session[s].todo \ {session[s].id}]
          OBVIOUS
        <4>2. Go(s, k) /\ k.h # "check"  BY <3>5, <4>1 DEF SlaGiven
        <4> QED  BY <4>2
      <3> QED  BY <1>8, <3>1, <3>2, <3>3, <3>4, <3>5
    <2> QED  BY <1>2, <1>4, <1>5, <2>1
  <1>9. CASE \/ DeskRecord(s) \/ DeskLog(s)
             \/ \E r \in DOMAIN record, staff \in BOOLEAN : DeleteRecord(s, r, staff)
             \/ \E i \in DOMAIN ticket, staff \in BOOLEAN : DeleteTicket(s, i, staff)
             \/ \E i \in DOMAIN ticket : Assign(s, i)
             \/ \E i \in DOMAIN ticket, st \in Status : UpdateStatus(s, i, st)
             \/ \E i \in DOMAIN ticket, u \in Staff : Approve(s, i, u)
             \/ \E c \in Customers : Pay(s, c)
             \/ \E a \in waiting : Verify(s, a)
             \/ \E l \in LabelNames : AddOption(s, l) \/ ToggleOption(s, l) \/ DeleteOption(s, l)
    <2>1. UNCHANGED session
      BY <1>9 DEF DeskRecord, DeskLog, DeleteRecord, DeleteTicket, Assign, UpdateStatus, Approve, Pay,
                  Verify, AddOption, ToggleOption, DeleteOption
    <2> QED  BY <1>2, <1>6, <2>1
  <1>10. CASE \/ SubmitTicket(s) \/ SaveDispatched(s) \/ SaveUndispatched(s) \/ LinkLog(s)
              \/ SaveFormCustomer(s) \/ Stop(s)
    <2>1. End(s)
      BY <1>10 DEF SubmitTicket, SaveDispatched, SaveUndispatched, LinkLog, SaveFormCustomer, Stop
    <2> QED  BY <1>2, <1>5, <2>1
  <1> QED  BY <1>7, <1>8, <1>9, <1>10 DEF Request, Continue

\* Nobody new checks, nobody's question is forgotten, and nothing is announced.
LEMMA AlertsStay ==
    ASSUME AlertInv, Inv', UNCHANGED <<alert, now>>,
           \A t \in Threads : session'[t].h = "check" => session'[t] = session[t]
    PROVE  AlertInv'
  <1>1. OneCheck /\ Asked /\ AlertsSpaced /\ \A k \in DOMAIN alert : alert[k].at <= now
    BY DEF AlertInv
  <1>2. OneCheck'  BY <1>1 DEF OneCheck
  <1>3. \A x : Told(x)' <=> Told(x)  BY DEF Told
  <1>4. Asked'
    <2> SUFFICES ASSUME NEW t \in Threads, session'[t].h = "check", session'[t].at = "raise"
                 PROVE  ~\E k \in DOMAIN alert' :
                            alert'[k].about = session'[t].about /\ alert'[k].at >= now' - 1
      BY DEF Asked, Told
    <2>1. session'[t] = session[t]  OBVIOUS
    <2>2. ~Told(session[t].about)  BY <1>1, <2>1 DEF Asked
    <2> QED  BY <2>1, <2>2 DEF Told
  <1>5. AlertsSpaced'  BY <1>1 DEF AlertsSpaced
  <1> QED  BY <1>1, <1>2, <1>4, <1>5 DEF AlertInv

\* A step of the only check under way.
LEMMA OneCheckMoves ==
    ASSUME AlertInv, NEW s \in Threads, session[s].h = "check",
           \A t \in Threads \ {s} : session'[t] = session[t]
    PROVE  OneCheck' /\ \A t \in Threads \ {s} : session'[t].h # "check"
  BY DEF AlertInv, OneCheck

LEMMA AlertStep ==
    ASSUME AlertInv, "check" \in Lone \cup Exclusive, [Next]_vars
    PROVE  AlertInv'
  <1>1. /\ Inv /\ OneCheck /\ Asked /\ AlertsSpaced /\ \A k \in DOMAIN alert : alert[k].at <= now
        /\ DOMAIN session = Threads /\ Tables
    BY DEF AlertInv, Inv, Sessions
  <1>2. Inv'  BY <1>1, InvStep
  <1>3. CASE UNCHANGED vars
    <2>1. UNCHANGED <<alert, now>> /\ session' = session  BY <1>3 DEF vars
    <2> QED  BY <1>2, <2>1, AlertsStay
  <1>4. CASE Tick
    <2>1. alert' = alert /\ session' = session /\ now' = now + 1 /\ Busy = {}  BY <1>4 DEF Tick
    <2>2. \A t \in Threads : session[t] = Idle  BY <2>1 DEF Busy
    <2>3. \A t \in Threads : session'[t].h # "check"  BY <2>1, <2>2 DEF Idle
    <2>4. OneCheck' /\ Asked'  BY <2>3 DEF OneCheck, Asked
    <2>5. AlertsSpaced'  BY <1>1, <2>1 DEF AlertsSpaced
    <2>6. \A k \in DOMAIN alert' : alert'[k].at <= now'
      <3> SUFFICES ASSUME NEW k \in DOMAIN alert PROVE alert[k].at <= now + 1  BY <2>1
      <3>1. alert[k] \in Alarm  BY <1>1 DEF Tables
      <3>2. alert[k].at \in Nat  BY <3>1 DEF Alarm
      <3>3. now \in Nat  BY <1>1 DEF Tables
      <3> QED  BY <1>1, <3>2, <3>3
    <2> QED  BY <1>2, <2>4, <2>5, <2>6 DEF AlertInv
  <1>5. ASSUME NEW s \in Threads,
               \/ Request(s) /\ ~Check(s)
               \/ Continue(s) /\ ~CheckNext(s) /\ ~CheckRaise(s)
        PROVE  AlertInv'
    <2>1. /\ UNCHANGED <<alert, now>>
          /\ \A t \in Threads \ {s} : session'[t] = session[t]
          /\ session'[s].h = "check" => session'[s] = session[s]
      BY <1>1, <1>5, OthersDoNotCheck
    <2>2. \A t \in Threads : session'[t].h = "check" => session'[t] = session[t]  BY <2>1
    <2> QED  BY <1>2, <2>1, <2>2, AlertsStay
  <1>6. ASSUME NEW s \in Threads, Check(s) PROVE AlertInv'
    <2>1. UNCHANGED <<alert, now>>  BY <1>6 DEF Check, Rest
    <2>2. \A t \in Threads \ {s} : session'[t] = session[t]  BY <1>6 DEF Check, Go
    <2>3. \A t \in Threads : session[t].h # "check"
      <3> SUFFICES ASSUME NEW t \in Threads, session[t].h = "check" PROVE FALSE  OBVIOUS
      <3>1. t \in Busy  BY DEF Busy, Idle
      <3> QED  BY <1>6, <3>1 DEF Check, Free
    <2>4. session'[s].at = "applicants"
      <3>1. PICK k : k = [h |-> "check", at |-> "applicants", todo |-> LateApplicants]  OBVIOUS
      <3>2. k.at = "applicants" /\ session' = [session EXCEPT ![s] = k]  BY <1>6, <3>1 DEF Check, Go
      <3> QED  BY <1>1, <3>2
    <2>5. OneCheck'  BY <2>2, <2>3 DEF OneCheck
    <2>6. Asked'  BY <2>2, <2>3, <2>4 DEF Asked
    <2>7. AlertsSpaced'  BY <1>1, <2>1 DEF AlertsSpaced
    <2> QED  BY <1>1, <1>2, <2>1, <2>5, <2>6, <2>7 DEF AlertInv
  <1>7. ASSUME NEW s \in Threads, CheckNext(s) PROVE AlertInv'
    <2>1. PICK j : j = session[s]  OBVIOUS
    <2>2. UNCHANGED <<alert, now>>  BY <1>7 DEF CheckNext, Rest
    <2>3. j.h = "check" /\ DOMAIN j = {"h", "at", "todo"} /\ j.at # "raise"
      <3>1. j.h = "check" /\ j.at \in {"applicants", "tickets"} /\ Holds(j)
        BY <1>1, <1>7, <2>1 DEF CheckNext, Inv, Sessions
      <3> QED  BY <3>1, HoldsCheck
    <2>4. PICK x : x = CHOOSE y \in j.todo : TRUE  OBVIOUS
    <2>5. PICK about : about = IF j.at = "applicants" THEN NameOf[x] ELSE ticket[x].num  OBVIOUS
    <2>6. PICK red : red = IsRed(IF j.at = "applicants" THEN 0 ELSE ticket[x].at)  OBVIOUS
    <2>7. PICK k : k = [h |-> "check", at |-> "raise", back |-> j.at, todo |-> j.todo \ {x},
                        about |-> about, red |-> red]
      OBVIOUS
    <2>8. PICK m : m = [j EXCEPT !.todo = @ \ {x}]  OBVIOUS
    <2>9. PICK n : n = [j EXCEPT !.at = "tickets", !.todo = LateTickets]  OBVIOUS
    <2>10. \/ ~Told(about) /\ Go(s, k)
           \/ Go(s, m) \/ Go(s, n) \/ End(s)
      BY <1>7, <2>1, <2>4, <2>5, <2>6, <2>7, <2>8, <2>9 DEF CheckNext
    <2>11. k.about = about /\ m.at = j.at /\ n.at = "tickets"  BY <2>3, <2>7, <2>8, <2>9
    <2>12. /\ \A t \in Threads \ {s} : session'[t] = session[t]
           /\ \/ ~Told(about) /\ session'[s].about = about
              \/ session'[s].at # "raise"
              \/ session'[s].h # "check"
      <3>1. \A t \in Threads \ {s} : session'[t] = session[t]  BY <1>1, <2>10 DEF Go, End
      <3>2. CASE ~Told(about) /\ Go(s, k)
        <4>1. session'[s] = k  BY <1>1, <3>2 DEF Go
        <4> QED  BY <2>11, <3>1, <3>2, <4>1
      <3>3. CASE Go(s, m) \/ Go(s, n)
        <4>1. session'[s] = m \/ session'[s] = n  BY <1>1, <3>3 DEF Go
        <4> QED  BY <2>3, <2>11, <3>1, <4>1
      <3>4. CASE End(s)
        <4>1. session'[s] = Idle  BY <1>1, <3>4 DEF End
        <4> QED  BY <3>1, <4>1 DEF Idle
      <3> QED  BY <2>10, <3>2, <3>3, <3>4
    <2>13. OneCheck' /\ \A t \in Threads \ {s} : session'[t].h # "check"
      BY <2>1, <2>3, <2>12, OneCheckMoves
    <2>14. \A y : Told(y)' <=> Told(y)  BY <2>2 DEF Told
    <2>15. Asked'
      <3> SUFFICES ASSUME NEW t \in Threads, session'[t].h = "check", session'[t].at = "raise"
                   PROVE  ~\E i \in DOMAIN alert' :
                              alert'[i].about = session'[t].about /\ alert'[i].at >= now' - 1
        BY DEF Asked, Told
      <3>1. t = s  BY <2>13
      <3>2. ~Told(about) /\ session'[t].about = about  BY <2>12, <3>1
      <3> QED  BY <2>2, <3>2 DEF Told
    <2>16. AlertsSpaced'  BY <1>1, <2>2 DEF AlertsSpaced
    <2> QED  BY <1>1, <1>2, <2>2, <2>13, <2>15, <2>16 DEF AlertInv
  <1>8. ASSUME NEW s \in Threads, CheckRaise(s) PROVE AlertInv'
    <2>1. PICK about : about = session[s].about  OBVIOUS
    <2>2. PICK n : n = Len(alert)  OBVIOUS
    <2>3. /\ session[s].h = "check" /\ session[s].at = "raise"
          /\ alert' \in Seq(Alarm) /\ Len(alert') = n + 1 /\ n \in Nat
          /\ \A k \in 1 .. n : alert'[k] = alert[k]
          /\ alert'[n + 1].about = about /\ alert'[n + 1].at = now
          /\ now' = now
      BY <1>1, <1>8, <2>1, <2>2, RaiseIs
    <2>4. ~Told(about)  BY <1>1, <2>1, <2>3 DEF Asked
    <2>5. PICK k : k = [h |-> "check", at |-> session[s].back, todo |-> session[s].todo]  OBVIOUS
    <2>6. session' = [session EXCEPT ![s] = k] /\ k.at = session[s].back  BY <1>8, <2>5 DEF CheckRaise, Go
    <2>7. session[s].back # "raise"
      <3>1. PICK j : j = session[s]  OBVIOUS
      <3>2. Holds(j) /\ j.h = "check" /\ j.at = "raise"  BY <1>1, <2>3, <3>1 DEF Inv, Sessions
      <3>3. j.back \in {"applicants", "tickets"}  BY <3>2, HoldsCheck
      <3> QED  BY <3>1, <3>3
    <2>8. \A t \in Threads \ {s} : session'[t] = session[t]  BY <1>1, <2>6
    <2>9. session'[s].at # "raise"  BY <1>1, <2>6, <2>7
    <2>10. OneCheck' /\ \A t \in Threads \ {s} : session'[t].h # "check"
      BY <2>3, <2>8, OneCheckMoves
    <2>11. Asked'  BY <2>9, <2>10 DEF Asked
    <2>12. DOMAIN alert = 1 .. n /\ DOMAIN alert' = 1 .. n + 1  BY <1>1, <2>2, <2>3 DEF Tables
    <2>13. \A i \in DOMAIN alert : alert[i].at \in Nat /\ now \in Nat
      <3>1. \A i \in DOMAIN alert : alert[i] \in Alarm  BY <1>1 DEF Tables
      <3> QED  BY <1>1, <3>1 DEF Alarm, Tables
    <2>14. AlertsSpaced'
      <3> SUFFICES ASSUME NEW i \in DOMAIN alert', NEW m \in DOMAIN alert', i < m,
                          alert'[i].about = alert'[m].about
                   PROVE  alert'[m].at - alert'[i].at > 1
        BY DEF AlertsSpaced
      <3>1. i \in DOMAIN alert /\ alert'[i] = alert[i]  BY <2>3, <2>12
      <3>2. CASE m = n + 1
        <4>1. ~(alert[i].at >= now - 1)  BY <2>3, <2>4, <3>1, <3>2 DEF Told
        <4> QED  BY <2>3, <2>13, <3>1, <3>2, <4>1
      <3>3. CASE m # n + 1
        <4>1. m \in DOMAIN alert /\ alert'[m] = alert[m]  BY <2>3, <2>12, <3>3
        <4> QED  BY <1>1, <3>1, <4>1 DEF AlertsSpaced
      <3> QED  BY <3>2, <3>3
    <2>15. \A i \in DOMAIN alert' : alert'[i].at <= now'
      <3> SUFFICES ASSUME NEW i \in DOMAIN alert' PROVE alert'[i].at <= now  BY <2>3
      <3>1. CASE i = n + 1
        <4>1. now \in Nat  BY <1>1 DEF Tables
        <4> QED  BY <2>3, <3>1, <4>1
      <3>2. CASE i # n + 1
        <4>1. i \in DOMAIN alert /\ alert'[i] = alert[i]  BY <2>3, <2>12, <3>2
        <4> QED  BY <1>1, <4>1
      <3> QED  BY <3>1, <3>2
    <2> QED  BY <1>2, <2>10, <2>11, <2>14, <2>15 DEF AlertInv
  <1> QED  BY <1>3, <1>4, <1>5, <1>6, <1>7, <1>8 DEF Next

\* AlertsSpaced: with one late-job check at a time, an applicant or a ticket is
\* announced at most once in 12 hours, whatever is submitted, verified or assigned
\* while the check walks its list (tasks.py:539, 567).
THEOREM AlertsAreSpaced ==
    ASSUME "check" \in Lone \cup Exclusive
    PROVE  Spec => []AlertsSpaced
  <1>1. Init => AlertInv
    <2> SUFFICES ASSUME Init PROVE AlertInv  OBVIOUS
    <2>1. alert = <<>> /\ \A s \in Threads : session[s].h # "check"  BY DEF Init, Idle
    <2> QED  BY <2>1, InvInit DEF AlertInv, OneCheck, Asked, AlertsSpaced
  <1>2. AlertInv /\ [Next]_vars => AlertInv'  BY AlertStep
  <1>3. AlertInv => AlertsSpaced  BY DEF AlertInv
  <1> QED  BY <1>1, <1>2, <1>3, PTL DEF Spec
-----------------------------------------------------------------------------
(* What a fold over a finite set computes. *)

\* One step of the fold, in terms of the sums of the smaller sets.
AddNext(f, it, s) ==
    LET x == CHOOSE x \in s : TRUE IN IF s = {} THEN 0 ELSE f[x] + it[s \ {x}]
AddsUp(f, it, S) == it = [s \in SUBSET S |-> AddNext(f, it, s)]

\* Induction over the subsets of a finite set, in the form the provers can use.
LEMMA LeastSubset ==
    ASSUME NEW S, IsFiniteSet(S), NEW T, T \subseteq SUBSET S, T # {}
    PROVE  \E u \in T : \A v \in T : v \subseteq u => v = u
  <1>1. IsWellFoundedOn(StrictSubsetOrdering(S), SUBSET S)
    BY FS_FiniteSubsetsOfFinite, FS_StrictSubsetOrderingWellFounded
  <1>2. PICK u \in T : \A v \in T : <<v, u>> \notin StrictSubsetOrdering(S)
    BY <1>1, WFMin
  <1> QED  BY <1>2 DEF StrictSubsetOrdering

LEMMA PickOne ==
    ASSUME NEW s, s # {}
    PROVE  (CHOOSE x \in s : TRUE) \in s
  OBVIOUS

LEMMA SumsAgree ==
    ASSUME NEW S, IsFiniteSet(S), NEW f, NEW U, U \subseteq S, NEW V, V \subseteq S,
           NEW g, AddsUp(f, g, U), NEW h, AddsUp(f, h, V)
    PROVE  \A s \in SUBSET (U \cap V) : g[s] = h[s]
  <1> DEFINE T == {s \in SUBSET (U \cap V) : g[s] # h[s]}
  <1> SUFFICES ASSUME T # {} PROVE FALSE  OBVIOUS
  <1>1. PICK u \in T : \A v \in T : v \subseteq u => v = u
    <2>1. T \subseteq SUBSET S  OBVIOUS
    <2> HIDE DEF T
    <2> QED  BY <2>1, LeastSubset
  <1> DEFINE x == CHOOSE x \in u : TRUE
  <1>2. g[u] = AddNext(f, g, u) /\ h[u] = AddNext(f, h, u)  BY DEF AddsUp
  <1>3. CASE u = {}  BY <1>2, <1>3 DEF AddNext
  <1>4. CASE u # {}
    <2>1. x \in u  BY <1>4, PickOne
    <2>2. u \ {x} \in SUBSET (U \cap V) /\ u \ {x} # u /\ u \ {x} \subseteq u  BY <2>1
    <2>3. g[u \ {x}] = h[u \ {x}]  BY <1>1, <2>2
    <2>4. g[u] = f[x] + g[u \ {x}] /\ h[u] = f[x] + h[u \ {x}]  BY <1>2, <1>4 DEF AddNext
    <2> QED  BY <2>3, <2>4
  <1> QED  BY <1>3, <1>4

LEMMA SumsExist ==
    ASSUME NEW S, IsFiniteSet(S), NEW f
    PROVE  \E it : AddsUp(f, it, S)
  <1> DEFINE T == {s \in SUBSET S : ~\E it : AddsUp(f, it, s)}
  <1> SUFFICES ASSUME T # {} PROVE FALSE  OBVIOUS
  <1>1. PICK u \in T : \A v \in T : v \subseteq u => v = u
    <2>1. T \subseteq SUBSET S  OBVIOUS
    <2> HIDE DEF T
    <2> QED  BY <2>1, LeastSubset
  <1> DEFINE x(s)   == CHOOSE x \in s : TRUE
             its(s) == CHOOSE h : AddsUp(f, h, s)
             g      == [s \in SUBSET u |-> IF s = {} THEN 0
                                           ELSE f[x(s)] + its(s \ {x(s)})[s \ {x(s)}]]
  <1>2. ASSUME NEW v, v \subseteq u, v # u PROVE AddsUp(f, its(v), v)
    BY <1>1, <1>2
  <1>3. ASSUME NEW s \in SUBSET u PROVE g[s] = AddNext(f, g, s)
    <2>1. CASE s = {}  BY <2>1 DEF AddNext
    <2>2. CASE s # {}
      <3> DEFINE v == s \ {x(s)}
      <3>0. x(s) \in s  BY <2>2, PickOne
      <3>1. v \subseteq u /\ v # u  BY <3>0
      <3>2. AddsUp(f, its(v), v)  BY <1>2, <3>1
      <3>3. its(v)[v] = AddNext(f, its(v), v)  BY <3>2 DEF AddsUp
      <3>4. g[v] = its(v)[v]
        <4>1. CASE v = {}
          <5>1. its(v)[v] = 0  BY <3>3, <4>1 DEF AddNext
          <5>2. g[v] = 0  BY <4>1
          <5> QED  BY <5>1, <5>2
        <4>2. CASE v # {}
          <5> DEFINE w == v \ {x(v)}
          <5>1. x(v) \in v  BY <4>2, PickOne
          <5>2. w \subseteq u /\ w # u /\ w \subseteq v  BY <3>1, <5>1
          <5>3. AddsUp(f, its(w), w)  BY <1>2, <5>2
          <5>4. its(v)[w] = its(w)[w]
            <6>1. w \in SUBSET (v \cap w) /\ v \subseteq S /\ w \subseteq S  BY <3>1, <5>2
            <6> HIDE DEF its, v, w
            <6> QED  BY <3>2, <5>3, <6>1, SumsAgree
          <5>5. its(v)[v] = f[x(v)] + its(v)[w]  BY <3>3, <4>2 DEF AddNext
          <5>6. g[v] = f[x(v)] + its(w)[w]  BY <3>1, <4>2
          <5> QED  BY <5>4, <5>5, <5>6
        <4> QED  BY <4>1, <4>2
      <3>5. g[s] = f[x(s)] + its(v)[v]  BY <2>2
      <3>6. AddNext(f, g, s) = f[x(s)] + g[v]  BY <2>2 DEF AddNext
      <3> QED  BY <3>4, <3>5, <3>6
    <2> QED  BY <2>1, <2>2
  <1>4. AddsUp(f, g, u)
    <2>1. g = [s \in SUBSET u |-> g[s]]  OBVIOUS
    <2> HIDE DEF g
    <2> QED  BY <1>3, <2>1 DEF AddsUp
  <1> QED  BY <1>4

\* The community modules' sum, in those terms.
LEMMA SumAddsUp ==
    ASSUME NEW f, NEW S
    PROVE  SumFunctionOnSet(f, S) = (CHOOSE it : AddsUp(f, it, S))[S]
  BY DEF SumFunctionOnSet, FoldFunctionOnSet, MapThenFoldSet, AddsUp, AddNext

LEMMA SumEmpty ==
    ASSUME NEW f PROVE SumFunctionOnSet(f, {}) = 0
  <1> DEFINE it == CHOOSE g : AddsUp(f, g, {})
  <1>1. AddsUp(f, it, {})  BY SumsExist, FS_EmptySet
  <1>2. it[{}] = 0  BY <1>1 DEF AddsUp, AddNext
  <1> QED  BY <1>2, SumAddsUp

LEMMA SumPicks ==
    ASSUME NEW S, IsFiniteSet(S), S # {}, NEW f
    PROVE  LET x == CHOOSE x \in S : TRUE
           IN  SumFunctionOnSet(f, S) = f[x] + SumFunctionOnSet(f, S \ {x})
  <1> DEFINE x  == CHOOSE x \in S : TRUE
             v  == S \ {x}
             it == CHOOSE g : AddsUp(f, g, S)
             iv == CHOOSE g : AddsUp(f, g, v)
  <1>1. x \in S  BY PickOne
  <1>2. IsFiniteSet(v)  BY FS_Subset
  <1>3. AddsUp(f, it, S) /\ AddsUp(f, iv, v)  BY <1>2, SumsExist
  <1>4. it[v] = iv[v]
    <2>1. v \in SUBSET (S \cap v) /\ v \subseteq S  OBVIOUS
    <2> HIDE DEF it, iv, v
    <2> QED  BY <1>3, <2>1, SumsAgree
  <1>5. it[S] = f[x] + it[v]  BY <1>3 DEF AddsUp, AddNext
  <1>6. SumFunctionOnSet(f, S) = it[S] /\ SumFunctionOnSet(f, v) = iv[v]  BY SumAddsUp
  <1> QED  BY <1>4, <1>5, <1>6

LEMMA SumType ==
    ASSUME NEW S, IsFiniteSet(S), NEW f, \A c \in S : f[c] \in Int
    PROVE  SumFunctionOnSet(f, S) \in Int
  <1> DEFINE T == {s \in SUBSET S : SumFunctionOnSet(f, s) \notin Int}
  <1> SUFFICES ASSUME T # {} PROVE FALSE  OBVIOUS
  <1>1. PICK u \in T : \A v \in T : v \subseteq u => v = u
    <2>1. T \subseteq SUBSET S  OBVIOUS
    <2> HIDE DEF T
    <2> QED  BY <2>1, LeastSubset
  <1> DEFINE x == CHOOSE x \in u : TRUE
  <1>2. u # {}  BY SumEmpty
  <1>3. x \in u  BY <1>2, PickOne
  <1>4. SumFunctionOnSet(f, u \ {x}) \in Int  BY <1>1, <1>3
  <1>5. SumFunctionOnSet(f, u) = f[x] + SumFunctionOnSet(f, u \ {x})
    <2>1. IsFiniteSet(u)  BY FS_Subset
    <2> QED  BY <1>2, <2>1, SumPicks
  <1> QED  BY <1>3, <1>4, <1>5

\* Any element may be taken out first.
LEMMA SumSplits ==
    ASSUME NEW S, IsFiniteSet(S), NEW f, \A c \in S : f[c] \in Int, NEW c \in S
    PROVE  SumFunctionOnSet(f, S) = f[c] + SumFunctionOnSet(f, S \ {c})
  <1> DEFINE T == {s \in SUBSET S : \E d \in s :
                     SumFunctionOnSet(f, s) # f[d] + SumFunctionOnSet(f, s \ {d})}
  <1> SUFFICES ASSUME T # {} PROVE FALSE  OBVIOUS
  <1>1. PICK u \in T : \A v \in T : v \subseteq u => v = u
    <2>1. T \subseteq SUBSET S  OBVIOUS
    <2> HIDE DEF T
    <2> QED  BY <2>1, LeastSubset
  <1>2. PICK d \in u : SumFunctionOnSet(f, u) # f[d] + SumFunctionOnSet(f, u \ {d})  BY <1>1
  <1> DEFINE x == CHOOSE x \in u : TRUE
             w == (u \ {x}) \ {d}
  <1>3. x \in u  BY <1>2, PickOne
  <1>4. \A s \in SUBSET S : IsFiniteSet(s) /\ SumFunctionOnSet(f, s) \in Int
    BY FS_Subset, SumType
  <1>5. SumFunctionOnSet(f, u) = f[x] + SumFunctionOnSet(f, u \ {x})
    BY <1>2, <1>4, SumPicks
  <1>6. x # d  BY <1>2, <1>5
  <1>7. \A s \in SUBSET S : s \subseteq u /\ s # u =>
          \A e \in s : SumFunctionOnSet(f, s) = f[e] + SumFunctionOnSet(f, s \ {e})
    BY <1>1
  <1>8. SumFunctionOnSet(f, u \ {x}) = f[d] + SumFunctionOnSet(f, w)
    <2>1. u \ {x} \in SUBSET S /\ u \ {x} # u /\ d \in u \ {x}  BY <1>3, <1>6
    <2> QED  BY <1>7, <2>1
  <1>9. SumFunctionOnSet(f, u \ {d}) = f[x] + SumFunctionOnSet(f, w)
    <2>1. u \ {d} \in SUBSET S /\ u \ {d} # u /\ x \in u \ {d}  BY <1>3, <1>6
    <2>2. (u \ {d}) \ {x} = w  OBVIOUS
    <2> HIDE DEF w
    <2> QED  BY <1>7, <2>1, <2>2
  <1>10. SumFunctionOnSet(f, w) \in Int /\ f[x] \in Int /\ f[d] \in Int  BY <1>3, <1>4
  <1> HIDE DEF w, x, T
  <1> QED  BY <1>2, <1>5, <1>8, <1>9, <1>10

\* The sum depends on the values on the set only.
LEMMA SumSame ==
    ASSUME NEW S, IsFiniteSet(S), NEW f, NEW g, \A c \in S : f[c] = g[c]
    PROVE  SumFunctionOnSet(f, S) = SumFunctionOnSet(g, S)
  <1> DEFINE T == {s \in SUBSET S : SumFunctionOnSet(f, s) # SumFunctionOnSet(g, s)}
  <1> SUFFICES ASSUME T # {} PROVE FALSE  OBVIOUS
  <1>1. PICK u \in T : \A v \in T : v \subseteq u => v = u
    <2>1. T \subseteq SUBSET S  OBVIOUS
    <2> HIDE DEF T
    <2> QED  BY <2>1, LeastSubset
  <1> DEFINE x == CHOOSE x \in u : TRUE
  <1>2. u # {}  BY SumEmpty
  <1>3. x \in u  BY <1>2, PickOne
  <1>4. SumFunctionOnSet(f, u \ {x}) = SumFunctionOnSet(g, u \ {x})  BY <1>1, <1>3
  <1>5. /\ SumFunctionOnSet(f, u) = f[x] + SumFunctionOnSet(f, u \ {x})
        /\ SumFunctionOnSet(g, u) = g[x] + SumFunctionOnSet(g, u \ {x})
    <2>1. IsFiniteSet(u)  BY FS_Subset
    <2> QED  BY <1>2, <2>1, SumPicks
  <1> QED  BY <1>3, <1>4, <1>5

LEMMA SumChanges ==
    ASSUME NEW S, IsFiniteSet(S), NEW f, NEW g, NEW c \in S,
           \A d \in S : f[d] \in Int /\ g[d] \in Int,
           \A d \in S \ {c} : g[d] = f[d]
    PROVE  SumFunctionOnSet(g, S) = SumFunctionOnSet(f, S) - f[c] + g[c]
  <1>1. IsFiniteSet(S \ {c})  BY FS_Subset
  <1>2. SumFunctionOnSet(f, S \ {c}) = SumFunctionOnSet(g, S \ {c})  BY <1>1, SumSame
  <1>3. /\ SumFunctionOnSet(f, S) = f[c] + SumFunctionOnSet(f, S \ {c})
        /\ SumFunctionOnSet(g, S) = g[c] + SumFunctionOnSet(g, S \ {c})
    BY SumSplits
  <1>4. SumFunctionOnSet(f, S \ {c}) \in Int  BY <1>1, SumType
  <1> QED  BY <1>2, <1>3, <1>4

\* And it does not see what is zero.
LEMMA SumIgnores ==
    ASSUME NEW S, IsFiniteSet(S), NEW f, \A c \in S : f[c] \in Int,
           NEW R, R \subseteq S, \A c \in S \ R : f[c] = 0
    PROVE  SumFunctionOnSet(f, S) = SumFunctionOnSet(f, R)
  <1> DEFINE T == {s \in SUBSET S : R \subseteq s /\ SumFunctionOnSet(f, s) # SumFunctionOnSet(f, R)}
  <1> SUFFICES ASSUME T # {} PROVE FALSE  OBVIOUS
  <1>1. PICK u \in T : \A v \in T : v \subseteq u => v = u
    <2>1. T \subseteq SUBSET S  OBVIOUS
    <2> HIDE DEF T
    <2> QED  BY <2>1, LeastSubset
  <1>2. PICK d \in u : d \notin R  OBVIOUS
  <1>3. u \in SUBSET S /\ R \subseteq u /\ SumFunctionOnSet(f, u) # SumFunctionOnSet(f, R)  OBVIOUS
  <1>4. SumFunctionOnSet(f, u \ {d}) = SumFunctionOnSet(f, R)
    <2>1. u \ {d} \in SUBSET S /\ R \subseteq u \ {d} /\ u \ {d} # u  BY <1>2, <1>3
    <2> QED  BY <1>1, <2>1
  <1>5. SumFunctionOnSet(f, u) = f[d] + SumFunctionOnSet(f, u \ {d})
    <2>1. IsFiniteSet(u) /\ \A c \in u : f[c] \in Int  BY <1>3, FS_Subset
    <2> QED  BY <2>1, SumSplits
  <1>6. f[d] = 0 /\ SumFunctionOnSet(f, u \ {d}) \in Int
    <2>1. IsFiniteSet(u \ {d}) /\ \A c \in u \ {d} : f[c] \in Int  BY <1>3, FS_Subset
    <2> QED  BY <1>2, <1>3, <2>1, SumType
  <1> HIDE DEF T
  <1> QED  BY <1>3, <1>4, <1>5, <1>6
-----------------------------------------------------------------------------
(* The days given back and the money: what the rebate task leaves half written *)

Account == [due : Int, st : LineStatus]

\* The days the entries of a customer say were given.
GivenTo(c) == SumFunctionOnSet([i \in DOMAIN log |-> log[i].given], {i \in DOMAIN log : log[i].cust = c})

\* The due date is this many days ahead of the rebates, the rebates of the entries.
Books(c, due, given) ==
    /\ account[c].due = Opening[c].due + paid[c] + 2 * (rebates[c] + due)
    /\ rebates[c] = GivenTo(c) + given

\* The threads that are at this step of the rebate task for the customer.
OnWay(at, c) == {s \in Threads : At(s, "sla", at) /\ session[s].cust = c}
Ledger ==
    \A c \in Customers :
        /\ OnWay("rebate", c) \cup OnWay("given", c) = {} => Books(c, 0, 0)
        /\ \A s \in OnWay("rebate", c) : Books(c, session[s].days, 0)
        /\ \A s \in OnWay("given", c) : Books(c, 0, session[s].days)

\* What a request has read of the entries and of the due date is still there.
SlaSound(j) ==
    /\ \A i \in j.todo : j.rows[i].given = log[i].given /\ j.rows[i].cust \in Customers
    /\ j.at # "next" => /\ j.days = Owed(j.rows[j.id]) - j.rows[j.id].given
                        /\ j.cust = j.rows[j.id].cust
    /\ j.at = "account" => j.row \in Account /\ j.row.due = account[j.cust].due
FormSound(j) ==
    j.at = "customer" => j.cust \in Customers /\ j.row \in Account /\ j.row.due = account[j.cust].due
Sound(j) == (j.h = "sla" => SlaSound(j)) /\ (j.h = "form" => FormSound(j))

SlaAlone == \A s, t \in Threads : session[s].h = "sla" /\ session[t].h = "sla" => s = t
Dutiful  == duty \in Duties /\ \A s \in Threads : session[s].h \in duty \cup {"idle"}
MoneyTyped ==
    /\ account \in [Customers -> Account]
    /\ rebates \in [Customers -> Int] /\ paid \in [Customers -> Int]
MoneyInv ==
    Inv /\ MoneyTyped /\ Dutiful /\ SlaAlone /\ Ledger /\ \A s \in Threads : Sound(session[s])

\* One run of the task at a time, no payment while a request is under way, and no
\* completion form and no killed worker where the task runs.
OneGiver ==
    /\ "sla" \in Lone \cup Exclusive /\ "pay" \in Exclusive
    /\ \A D \in Duties : "sla" \in D => "form" \notin D /\ "stop" \notin D

\* Entries keep their customer and their days, and a new one has none.
LogKept ==
    /\ DOMAIN log \subseteq DOMAIN log'
    /\ \A i \in DOMAIN log : log'[i].cust = log[i].cust /\ log'[i].given = log[i].given
    /\ \A i \in DOMAIN log' \ DOMAIN log : log'[i].given = 0
DueKept ==
    /\ account' \in [Customers -> Account]
    /\ \A c \in Customers : account'[c].due = account[c].due
Quiet(s) ==
    /\ session[s].h # "sla" /\ session'[s].h # "sla" /\ session'[s].h \in duty \cup {"idle"}
    /\ Sound(session[s])'
    /\ \A t \in Threads \ {s} : session'[t] = session[t]
    /\ UNCHANGED <<rebates, paid, now, duty>>
    /\ DueKept /\ LogKept

LEMMA EntryDomain ==
    ASSUME NEW q \in Seq(Entry)
    PROVE  /\ \A i \in DOMAIN q : q[i] \in Entry /\ q[i].given \in Int
           /\ \A c : IsFiniteSet({i \in DOMAIN q : q[i].cust = c})
  <1>1. DOMAIN q = 1 .. Len(q) /\ Len(q) \in Nat  OBVIOUS
  <1>2. IsFiniteSet(DOMAIN q)
    <2>1. IsFiniteSet(1 .. Len(q))  BY <1>1, FS_Interval
    <2> QED  BY <1>1, <2>1
  <1>3. \A i \in DOMAIN q : q[i] \in Entry /\ q[i].given \in Int
    <2>1. \A i \in DOMAIN q : q[i] \in Entry  OBVIOUS
    <2> QED  BY <2>1 DEF Entry
  <1>4. ASSUME NEW c PROVE IsFiniteSet({i \in DOMAIN q : q[i].cust = c})
    <2>1. {i \in DOMAIN q : q[i].cust = c} \subseteq DOMAIN q  OBVIOUS
    <2> QED  BY <1>2, <2>1, FS_Subset
  <1> QED  BY <1>3, <1>4

LEMMA GivenTyped ==
    ASSUME Inv, NEW c
    PROVE  GivenTo(c) \in Int
  <1> DEFINE f == [i \in DOMAIN log |-> log[i].given]
             S == {i \in DOMAIN log : log[i].cust = c}
  <1>1. log \in Seq(Entry)  BY DEF Inv, Tables
  <1>2. IsFiniteSet(S) /\ \A i \in S : f[i] \in Int  BY <1>1, EntryDomain
  <1>3. GivenTo(c) = SumFunctionOnSet(f, S)  BY DEF GivenTo
  <1> HIDE DEF f, S
  <1> QED  BY <1>2, <1>3, SumType

\* The sum of the days over the entries of a customer, after a step of any kind and
\* after the task has written the days of one entry.
LEMMA GivenStays ==
    ASSUME Inv, Inv', LogKept, NEW c
    PROVE  GivenTo(c)' = GivenTo(c)
  <1> DEFINE f == [i \in DOMAIN log |-> log[i].given]
             g == [i \in DOMAIN log' |-> log'[i].given]
             R == {i \in DOMAIN log : log[i].cust = c}
             S == {i \in DOMAIN log' : log'[i].cust = c}
  <1>1. log \in Seq(Entry) /\ log' \in Seq(Entry)  BY DEF Inv, Tables
  <1>2. IsFiniteSet(R)  BY <1>1, EntryDomain
  <1>3. IsFiniteSet(S) /\ \A i \in S : g[i] \in Int  BY <1>1, EntryDomain
  <1>4. R \subseteq S /\ \A i \in S \ R : g[i] = 0  BY DEF LogKept
  <1>5. \A i \in R : f[i] = g[i]  BY DEF LogKept
  <1>6. GivenTo(c) = SumFunctionOnSet(f, R) /\ GivenTo(c)' = SumFunctionOnSet(g, S)  BY DEF GivenTo
  <1> HIDE DEF f, g, R, S
  <1>7. SumFunctionOnSet(g, S) = SumFunctionOnSet(g, R)  BY <1>3, <1>4, SumIgnores
  <1>8. SumFunctionOnSet(f, R) = SumFunctionOnSet(g, R)  BY <1>2, <1>5, SumSame
  <1> QED  BY <1>6, <1>7, <1>8

LEMMA GivenMoves ==
    ASSUME Inv, Inv', NEW i \in DOMAIN log, DOMAIN log' = DOMAIN log,
           \A k \in DOMAIN log : log'[k].cust = log[k].cust,
           \A k \in DOMAIN log \ {i} : log'[k].given = log[k].given,
           NEW c
    PROVE  GivenTo(c)' = GivenTo(c) + IF log[i].cust = c THEN log'[i].given - log[i].given ELSE 0
  <1> DEFINE f == [k \in DOMAIN log |-> log[k].given]
             g == [k \in DOMAIN log' |-> log'[k].given]
             S == {k \in DOMAIN log : log[k].cust = c}
  <1>1. log \in Seq(Entry) /\ log' \in Seq(Entry)  BY DEF Inv, Tables
  <1>2. IsFiniteSet(S) /\ \A k \in S : f[k] \in Int /\ g[k] \in Int  BY <1>1, EntryDomain
  <1>3. {k \in DOMAIN log' : log'[k].cust = c} = S  OBVIOUS
  <1>4. \A k \in S \ {i} : g[k] = f[k]  OBVIOUS
  <1>5. GivenTo(c) = SumFunctionOnSet(f, S) /\ GivenTo(c)' = SumFunctionOnSet(g, S)  BY <1>3 DEF GivenTo
  <1>6. f[i] = log[i].given /\ g[i] = log'[i].given /\ (i \in S <=> log[i].cust = c)  OBVIOUS
  <1>7. SumFunctionOnSet(f, S) \in Int
    <2> HIDE DEF f, g, S
    <2> QED  BY <1>2, SumType
  <1> HIDE DEF f, g, S
  <1>8. CASE i \in S
    <2>1. SumFunctionOnSet(g, S) = SumFunctionOnSet(f, S) - f[i] + g[i]  BY <1>2, <1>4, <1>8, SumChanges
    <2>2. f[i] \in Int /\ g[i] \in Int  BY <1>2, <1>8
    <2> QED  BY <1>5, <1>6, <1>7, <1>8, <2>1, <2>2
  <1>9. CASE i \notin S
    <2>1. \A k \in S : f[k] = g[k]  BY <1>4, <1>9
    <2>2. SumFunctionOnSet(f, S) = SumFunctionOnSet(g, S)  BY <1>2, <2>1, SumSame
    <2> QED  BY <1>5, <1>6, <1>7, <1>9, <2>2
  <1> QED  BY <1>8, <1>9

\* What a request has read stays true while the others leave the money alone.
LEMMA StillSound ==
    ASSUME Inv, DueKept, LogKept, UNCHANGED now, NEW j, Holds(j), Sound(j)
    PROVE  Sound(j)'
  <1>1. CASE j.h = "sla"
    <2>1. SlaSound(j) /\ j.todo \subseteq DOMAIN log /\ (j.at # "next" => j.id \in j.todo)
      BY <1>1, HoldsSla DEF Sound, ListOf
    <2>2. \A i \in j.todo : j.rows[i].given = log'[i].given /\ j.rows[i].cust \in Customers
      BY <2>1 DEF LogKept, SlaSound
    <2>3. j.at # "next" => /\ j.days = Owed(j.rows[j.id])' - j.rows[j.id].given
                           /\ j.cust = j.rows[j.id].cust /\ j.cust \in Customers
      BY <2>1 DEF SlaSound, Owed
    <2>4. j.at = "account" => j.row \in Account /\ j.row.due = account'[j.cust].due
      BY <2>1, <2>3 DEF SlaSound, DueKept
    <2> QED  BY <1>1, <2>2, <2>3, <2>4 DEF Sound, SlaSound
  <1>2. CASE j.h = "form"
    <2>1. j.at = "customer" => j.cust \in Customers /\ j.row \in Account /\ j.row.due = account'[j.cust].due
      BY <1>2 DEF Sound, FormSound, DueKept
    <2> QED  BY <1>2, <2>1 DEF Sound, FormSound
  <1>3. CASE j.h \notin {"sla", "form"}  BY <1>3 DEF Sound
  <1> QED  BY <1>1, <1>2, <1>3

\* The books of everybody are as they were.
LEMMA BooksStay ==
    ASSUME Inv, Inv', DueKept, LogKept, UNCHANGED <<rebates, paid>>, NEW c \in Customers,
           NEW due, NEW given, Books(c, due, given)
    PROVE  Books(c, due, given)'
  <1>1. GivenTo(c)' = GivenTo(c)  BY GivenStays
  <1>2. account'[c].due = account[c].due  BY DEF DueKept
  <1> QED  BY <1>1, <1>2 DEF Books

LEMMA QuietKeeps ==
    ASSUME MoneyInv, Inv', NEW s \in Threads, Quiet(s)
    PROVE  MoneyInv'
  <1>1. Inv /\ MoneyTyped /\ Dutiful /\ SlaAlone /\ Ledger /\ \A t \in Threads : Sound(session[t])
    BY DEF MoneyInv
  <1>2. \A t \in Threads : session[t].h = "sla" \/ session'[t].h = "sla" => session'[t] = session[t]
    BY DEF Quiet
  <1>3. MoneyTyped' /\ Dutiful' /\ SlaAlone'
    <2>1. MoneyTyped'  BY <1>1 DEF MoneyTyped, Quiet, DueKept
    <2>2. Dutiful'  BY <1>1 DEF Dutiful, Quiet
    <2>3. SlaAlone'  BY <1>1, <1>2 DEF SlaAlone
    <2> QED  BY <2>1, <2>2, <2>3
  <1>4. Ledger'
    <2> SUFFICES ASSUME NEW c \in Customers
                 PROVE  /\ (OnWay("rebate", c) \cup OnWay("given", c) = {})' => Books(c, 0, 0)'
                        /\ \A t \in OnWay("rebate", c)' : Books(c, session[t].days, 0)'
                        /\ \A t \in OnWay("given", c)' : Books(c, 0, session[t].days)'
      BY DEF Ledger
    <2>1. OnWay("rebate", c)' = OnWay("rebate", c) /\ OnWay("given", c)' = OnWay("given", c)
      BY <1>2 DEF OnWay, At
    <2>2. \A t \in OnWay("rebate", c) \cup OnWay("given", c) : session'[t] = session[t]
      BY <1>2 DEF OnWay, At
    <2>3. \A due, given : Books(c, due, given) => Books(c, due, given)'
      BY <1>1, BooksStay DEF Quiet
    <2>4. ASSUME NEW t \in OnWay("rebate", c)' PROVE Books(c, session[t].days, 0)'
      <3>1. PICK days : days = session[t].days  OBVIOUS
      <3>2. Books(c, days, 0)  BY <1>1, <2>1, <2>4, <3>1 DEF Ledger
      <3>3. Books(c, days, 0)' /\ session'[t].days = days  BY <2>1, <2>2, <2>3, <2>4, <3>1, <3>2
      <3> QED  BY <3>3
    <2>5. ASSUME NEW t \in OnWay("given", c)' PROVE Books(c, 0, session[t].days)'
      <3>1. PICK days : days = session[t].days  OBVIOUS
      <3>2. Books(c, 0, days)  BY <1>1, <2>1, <2>5, <3>1 DEF Ledger
      <3>3. Books(c, 0, days)' /\ session'[t].days = days  BY <2>1, <2>2, <2>3, <2>5, <3>1, <3>2
      <3> QED  BY <3>3
    <2>6. (OnWay("rebate", c) \cup OnWay("given", c) = {})' => Books(c, 0, 0)'
      <3>1. OnWay("rebate", c) \cup OnWay("given", c) = {} => Books(c, 0, 0)  BY <1>1 DEF Ledger
      <3> QED  BY <2>1, <2>3, <3>1
    <2> QED  BY <2>4, <2>5, <2>6
  <1>5. ASSUME NEW t \in Threads PROVE Sound(session[t])'
    <2>1. CASE t = s  BY <2>1 DEF Quiet
    <2>2. CASE t # s
      <3>1. PICK j : j = session[t]  OBVIOUS
      <3>2. Holds(j) /\ Sound(j)  BY <1>1, <3>1 DEF Inv, Sessions
      <3>3. Sound(j)'  BY <1>1, <3>2, StillSound DEF Quiet
      <3>4. session'[t] = j  BY <2>2, <3>1 DEF Quiet
      <3> QED  BY <3>3, <3>4
    <2> QED  BY <2>1, <2>2
  <1> QED  BY <1>3, <1>4, <1>5 DEF MoneyInv

\* The ways a thread moves without touching the money.
LEMMA QuietGo ==
    ASSUME MoneyInv, NEW s \in Threads, NEW k, Go(s, k), session[s].h # "sla", k.h # "sla",
           k.h \in duty \cup {"idle"}, k.h = "form" => k.at # "customer",
           UNCHANGED <<rebates, paid, now, duty>>, DueKept, LogKept
    PROVE  Quiet(s)
  <1>1. DOMAIN session = Threads  BY DEF MoneyInv, Inv, Sessions
  <1>2. session'[s] = k /\ \A t \in Threads \ {s} : session'[t] = session[t]  BY <1>1 DEF Go
  <1>3. Sound(session[s])'  BY <1>2 DEF Sound, FormSound
  <1> QED  BY <1>2, <1>3 DEF Quiet

LEMMA QuietEnd ==
    ASSUME MoneyInv, NEW s \in Threads, End(s), session[s].h # "sla",
           UNCHANGED <<rebates, paid, now, duty>>, DueKept, LogKept
    PROVE  Quiet(s)
  <1>1. PICK k : k = Idle  OBVIOUS
  <1>2. Go(s, k) /\ k.h = "idle"  BY <1>1 DEF Go, End, Idle
  <1> QED  BY <1>2, QuietGo

LEMMA QuietStay ==
    ASSUME MoneyInv, NEW s \in Threads, UNCHANGED session, session[s] = Idle,
           UNCHANGED <<rebates, paid, now, duty>>, DueKept, LogKept
    PROVE  Quiet(s)
  <1>1. session[s].h = "idle"  BY DEF Idle
  <1>2. Sound(session[s])'  BY <1>1 DEF Sound
  <1> QED  BY <1>1, <1>2 DEF Quiet

LEMMA SameKept ==
    ASSUME MoneyInv
    PROVE  /\ UNCHANGED account => DueKept
           /\ UNCHANGED log => LogKept
           /\ \A e : log' = Append(log, e) /\ e \in Entry /\ e.given = 0 => LogKept
  <1>1. UNCHANGED account => DueKept  BY DEF MoneyInv, MoneyTyped, DueKept
  <1>2. UNCHANGED log => LogKept  BY DEF LogKept
  <1>3. ASSUME NEW e \in Entry, log' = Append(log, e), e.given = 0 PROVE LogKept
    <2>1. log \in Seq(Entry)  BY DEF MoneyInv, Inv, Tables
    <2>2. /\ log' \in Seq(Entry) /\ Len(log') = Len(log) + 1 /\ Len(log) \in Nat
          /\ \A k \in 1 .. Len(log) : log'[k] = log[k]
          /\ log'[Len(log) + 1] = e
      BY <1>3, <2>1, SeqAdd
    <2>3. DOMAIN log = 1 .. Len(log) /\ DOMAIN log' = 1 .. Len(log) + 1  BY <2>1, <2>2
    <2> QED  BY <1>3, <2>2, <2>3 DEF LogKept
  <1> QED  BY <1>1, <1>2, <1>3

LEMMA NewEntry ==
    ASSUME Inv, NEW c \in Customers \cup {NoOne}, NEW n \in Numbers \cup {NoNumber}
    PROVE  NewLog(c, n) \in Entry /\ NewLog(c, n).given = 0 /\ NewLog(c, n).cust = c
  BY DEF Inv, Tables, NewLog, Entry

LEMMA DeleteKeepsLog ==
    ASSUME MoneyInv, NEW s \in Threads, NEW r \in DOMAIN record, NEW staff \in BOOLEAN,
           DeleteRecord(s, r, staff)
    PROVE  LogKept
  <1>1. log' = [i \in DOMAIN log |-> IF log[i].from = r THEN [log[i] EXCEPT !.from = 0] ELSE log[i]]
    BY DEF DeleteRecord
  <1>2. log \in Seq(Entry)  BY DEF MoneyInv, Inv, Tables
  <1>3. ASSUME NEW i \in DOMAIN log PROVE log'[i].cust = log[i].cust /\ log'[i].given = log[i].given
    <2>1. PICK x : x = log[i]  OBVIOUS
    <2>2. x \in Entry  BY <1>2, <2>1, EntryDomain
    <2>3. PICK e : e = [x EXCEPT !.from = 0]  OBVIOUS
    <2>4. e.cust = x.cust /\ e.given = x.given  BY <2>2, <2>3 DEF Entry
    <2>5. log'[i] = IF x.from = r THEN e ELSE x  BY <1>1, <2>1, <2>3
    <2> QED  BY <2>1, <2>4, <2>5
  <1> QED  BY <1>1, <1>3 DEF LogKept

LEMMA QuietRequests ==
    ASSUME MoneyInv, NEW s \in Threads, Request(s), ~Sla(s), ~\E c \in Customers : Pay(s, c)
    PROVE  Quiet(s)
  <1>1. /\ UNCHANGED account => DueKept
        /\ UNCHANGED log => LogKept
        /\ \A e : log' = Append(log, e) /\ e \in Entry /\ e.given = 0 => LogKept
    BY SameKept
  <1>2. Inv /\ MoneyTyped  BY DEF MoneyInv
  <1>3. ASSUME NEW h, Free(s, h) PROVE session[s] = Idle /\ session[s].h # "sla" /\ h \in duty
    BY <1>3 DEF Free, Busy, Idle
  <1>4. ASSUME NEW c \in Customers, NEW n \in Numbers, Submit(s, c, n) PROVE Quiet(s)
    <2>1. PICK k : k = [h |-> "submit", at |-> "record", cust |-> c, num |-> n, log |-> Len(log) + 1]
      OBVIOUS
    <2>2. Go(s, k) /\ Free(s, "submit") /\ UNCHANGED <<account, rebates, paid, now, duty>>
      BY <1>4, <2>1 DEF Submit, Money, Rest
    <2>3. k.h = "submit"  BY <2>1
    <2>4. LogKept
      <3>1. PICK e : e = NewLog(c, n)  OBVIOUS
      <3>2. log' = Append(log, e)  BY <1>4, <3>1 DEF Submit
      <3>3. e \in Entry /\ e.given = 0  BY <1>2, <3>1, NewEntry
      <3> QED  BY <1>1, <3>2, <3>3
    <2> QED  BY <1>1, <1>3, <2>2, <2>3, <2>4, QuietGo
  <1>5. ASSUME NEW h \in {"dispatch", "undispatch", "done", "form"}, NEW r \in DOMAIN record,
               OpenRecord(s, h, r)
        PROVE  Quiet(s)
    <2>1. PICK k : k = [h |-> h, at |-> "save", id |-> r, row |-> record[r]]  OBVIOUS
    <2>2. Go(s, k) /\ Free(s, h) /\ UNCHANGED <<log, account, rebates, paid, now, duty>>
      BY <1>5, <2>1 DEF OpenRecord, Papers, Money, Rest
    <2>3. k.h = h /\ k.at = "save"  BY <2>1
    <2> QED  BY <1>1, <1>3, <2>2, <2>3, QuietGo
  <1>6. CASE Check(s)
    <2>1. PICK k : k = [h |-> "check", at |-> "applicants", todo |-> LateApplicants]  OBVIOUS
    <2>2. Go(s, k) /\ Free(s, "check") /\ UNCHANGED <<log, account, rebates, paid, now, duty>>
      BY <1>6, <2>1 DEF Check, Papers, Money, Rest
    <2>3. k.h = "check"  BY <2>1
    <2> QED  BY <1>1, <1>3, <2>2, <2>3, QuietGo
  <1>7. CASE DeskLog(s)
    <2>1. Free(s, "desk") /\ UNCHANGED <<session, account, rebates, paid, now, duty>>
      BY <1>7 DEF DeskLog, Money, Rest
    <2>2. PICK e : e = NewLog(NoOne, NoNumber)  OBVIOUS
    <2>3. log' = Append(log, e)  BY <1>7, <2>2 DEF DeskLog
    <2>4. e \in Entry /\ e.given = 0  BY <1>2, <2>2, NewEntry
    <2> QED  BY <1>1, <1>3, <2>1, <2>3, <2>4, QuietStay
  <1>8. ASSUME NEW r \in DOMAIN record, NEW staff \in BOOLEAN, DeleteRecord(s, r, staff) PROVE Quiet(s)
    <2>1. Free(s, "delete") /\ UNCHANGED <<session, account, rebates, paid, now, duty>>
      BY <1>8 DEF DeleteRecord, Money, Rest
    <2>2. LogKept  BY <1>8, DeleteKeepsLog
    <2> QED  BY <1>1, <1>3, <2>1, <2>2, QuietStay
  <1>9. ASSUME NEW i \in DOMAIN ticket, NEW u \in Staff, Approve(s, i, u) PROVE Quiet(s)
    <2>1. Free(s, "approve") /\ UNCHANGED <<session, log, rebates, paid, now, duty>>
      BY <1>9 DEF Approve, Rest
    <2>2. PICK c : c = ticket[i].cust  OBVIOUS
    <2>3. account' = [account EXCEPT ![c].st = "active"]  BY <1>9, <2>2 DEF Approve
    <2>4. DueKept
      <3>1. \A a \in Account : LET b == [a EXCEPT !.st = "active"] IN b \in Account /\ b.due = a.due
        BY DEF Account, LineStatus
      <3>2. account' \in [Customers -> Account]  BY <1>2, <2>3, <3>1 DEF MoneyTyped
      <3>3. \A d \in Customers : account'[d].due = account[d].due  BY <1>2, <2>3, <3>1 DEF MoneyTyped
      <3> QED  BY <3>2, <3>3 DEF DueKept
    <2> QED  BY <1>1, <1>3, <2>1, <2>4, QuietStay
  <1>10. CASE \/ DeskRecord(s)
              \/ \E i \in DOMAIN ticket, staff \in BOOLEAN : DeleteTicket(s, i, staff)
              \/ \E i \in DOMAIN ticket : Assign(s, i)
              \/ \E i \in DOMAIN ticket, st \in Status : UpdateStatus(s, i, st)
              \/ \E a \in waiting : Verify(s, a)
              \/ \E l \in LabelNames : AddOption(s, l) \/ ToggleOption(s, l) \/ DeleteOption(s, l)
    <2>1. /\ UNCHANGED <<session, log, account, rebates, paid, now, duty>>
          /\ \E h : Free(s, h)
      BY <1>10 DEF DeskRecord, DeleteTicket, Assign, UpdateStatus, Verify, AddOption, ToggleOption,
                   DeleteOption, Papers, Money, Rest
    <2> QED  BY <1>1, <1>3, <2>1, QuietStay
  <1> QED  BY <1>4, <1>5, <1>6, <1>7, <1>8, <1>9, <1>10 DEF Request

LEMMA DoneKeepsLog ==
    ASSUME MoneyInv, NEW s \in Threads, LogDone(s)
    PROVE  LogKept
  <1>1. Inv /\ log \in Seq(Entry) /\ record \in Seq(Record) /\ Linked
    BY DEF MoneyInv, Inv, Tables
  <1>2. PICK j : j = session[s]  OBVIOUS
  <1>3. j.h = "done" /\ j.at = "log" /\ Holds(j)
    BY <1>1, <1>2 DEF LogDone, At, Inv, Sessions
  <1>4. CopyOf(j.id, j.row)  BY <1>3, HoldsButton
  <1>5. PICK r : r = j.id  OBVIOUS
  <1>6. PICK row : row = j.row  OBVIOUS
  <1>7. /\ r \in DOMAIN record /\ r \in Nat /\ r # 0
        /\ row \in Record /\ row.cust = record[r].cust
    <2>1. DOMAIN record = 1 .. Len(record) /\ Len(record) \in Nat  BY <1>1
    <2> QED  BY <1>4, <1>5, <1>6, <2>1 DEF CopyOf
  <1>8. row.cust \in Customers \cup {NoOne} /\ row.num \in Numbers \cup {NoNumber}  BY <1>7 DEF Record
  <1>9. CASE record[r].gone
    <2>1. log' = log  BY <1>2, <1>5, <1>9 DEF LogDone
    <2> QED  BY <2>1, SameKept
  <1>10. CASE ~record[r].gone /\ Entries(r) = {}
    <2>1. PICK x : x = NewLog(row.cust, row.num)  OBVIOUS
    <2>2. PICK e : e = [x EXCEPT !.from = r, !.done = TRUE]  OBVIOUS
    <2>3. x \in Entry /\ x.given = 0  BY <1>1, <1>8, <2>1, NewEntry
    <2>4. e \in Entry /\ e.given = 0  BY <1>7, <2>2, <2>3 DEF Entry
    <2>5. log' = Append(log, e)
      BY <1>2, <1>5, <1>6, <1>10, <2>1, <2>2 DEF LogDone
    <2> QED  BY <2>4, <2>5, SameKept
  <1>11. CASE ~record[r].gone /\ Entries(r) # {}
    <2>1. PICK i : i = Min(Entries(r))  OBVIOUS
    <2>2. i \in DOMAIN log /\ log[i].from = r
      <3>1. DOMAIN log \subseteq Nat  BY <1>1
      <3>2. Entries(r) \subseteq Nat  BY <3>1 DEF Entries
      <3>3. i \in Entries(r)  BY <1>11, <2>1, <3>2, MinIn
      <3> QED  BY <3>3 DEF Entries
    <2>3. log' = [log EXCEPT ![i].done = TRUE, ![i].cust = row.cust, ![i].num = row.num]
      BY <1>2, <1>5, <1>6, <1>11, <2>1 DEF LogDone
    <2>4. PICK x : x = log[i]  OBVIOUS
    <2>5. x \in Entry  BY <1>1, <2>2, <2>4, EntryDomain
    <2>6. PICK e : e = [x EXCEPT !.done = TRUE, !.cust = row.cust, !.num = row.num]  OBVIOUS
    <2>7. e.cust = row.cust /\ e.given = x.given  BY <2>5, <2>6 DEF Entry
    <2>8. x.cust = row.cust  BY <1>1, <1>7, <2>2, <2>4 DEF Linked
    <2>9. log' = [log EXCEPT ![i] = e]  BY <2>2, <2>3, <2>4, <2>6
    <2> QED  BY <2>2, <2>4, <2>7, <2>8, <2>9 DEF LogKept
  <1> QED  BY <1>9, <1>10, <1>11

LEMMA QuietContinues ==
    ASSUME MoneyInv, OneGiver, NEW s \in Threads, Continue(s),
           ~SlaNext(s), ~SlaExtend(s), ~SlaRebate(s), ~SlaGiven(s)
    PROVE  Quiet(s)
  <1>1. /\ UNCHANGED account => DueKept
        /\ UNCHANGED log => LogKept
    BY SameKept
  <1>2. Inv /\ MoneyTyped /\ Dutiful /\ DOMAIN session = Threads  BY DEF MoneyInv, Inv, Sessions
  <1>3. PICK j : j = session[s]  OBVIOUS
  <1>4. Holds(j) /\ Sound(j) /\ j.h \in duty \cup {"idle"}
    BY <1>2, <1>3 DEF MoneyInv, Inv, Sessions, Dutiful
  <1>5. CASE \/ SubmitTicket(s) \/ SaveDispatched(s) \/ SaveUndispatched(s) \/ LinkLog(s) \/ Stop(s)
    <2>1. End(s) /\ UNCHANGED <<log, account, rebates, paid, now, duty>>
      BY <1>5 DEF SubmitTicket, SaveDispatched, SaveUndispatched, LinkLog, Stop, Papers, Money, Rest
    <2>2. j.h # "sla"
      <3>1. CASE Stop(s)
        <4>1. "stop" \in duty  BY <3>1 DEF Stop
        <4> QED  BY <1>2, <1>4, <4>1 DEF OneGiver, Dutiful
      <3>2. CASE SubmitTicket(s) \/ SaveDispatched(s) \/ SaveUndispatched(s) \/ LinkLog(s)
        BY <1>3, <3>2 DEF SubmitTicket, SaveDispatched, SaveUndispatched, LinkLog, At
      <3> QED  BY <1>5, <3>1, <3>2
    <2> QED  BY <1>1, <1>3, <2>1, <2>2, QuietEnd
  <1>6. CASE SubmitRecord(s)
    <2>1. j.h = "submit"  BY <1>3, <1>6 DEF SubmitRecord, At
    <2>2. "h" \in DOMAIN j  BY <1>4, <2>1, HoldsSubmit
    <2>3. PICK k : k = [j EXCEPT !.at = "ticket"]  OBVIOUS
    <2>4. k.h = "submit"  BY <2>1, <2>2, <2>3
    <2>5. Go(s, k) /\ UNCHANGED <<log, account, rebates, paid, now, duty>>
      BY <1>3, <1>6, <2>3 DEF SubmitRecord, Money, Rest
    <2> QED  BY <1>1, <1>3, <1>4, <2>1, <2>4, <2>5, QuietGo
  <1>7. CASE SaveDone(s)
    <2>1. j.h = "done" /\ j.at = "save"  BY <1>3, <1>7 DEF SaveDone, At
    <2>2. "h" \in DOMAIN j  BY <1>4, <2>1, HoldsButton
    <2>3. PICK row : row = Finished(j.row)  OBVIOUS
    <2>4. PICK k : k = [j EXCEPT !.at = "log", !.row = row]  OBVIOUS
    <2>5. k.h = "done"  BY <2>1, <2>2, <2>4
    <2>6. Go(s, k) /\ UNCHANGED <<log, account, rebates, paid, now, duty>>
      BY <1>3, <1>7, <2>3, <2>4 DEF SaveDone, Money, Rest
    <2> QED  BY <1>1, <1>3, <1>4, <2>1, <2>5, <2>6, QuietGo
  <1>8. CASE LogDone(s)
    <2>1. j.h = "done" /\ j.at = "log"  BY <1>3, <1>8 DEF LogDone, At
    <2>2. "h" \in DOMAIN j  BY <1>4, <2>1, HoldsButton
    <2>3. PICK i : i = IF Entries(j.id) = {} THEN Len(log) + 1 ELSE Min(Entries(j.id))  OBVIOUS
    <2>4. PICK k : k = [j EXCEPT !.at = "link", !.row.log = i]  OBVIOUS
    <2>5. k.h = "done"  BY <2>1, <2>2, <2>4
    <2>6. (End(s) \/ Go(s, k)) /\ UNCHANGED <<account, rebates, paid, now, duty>>
      BY <1>3, <1>8, <2>3, <2>4 DEF LogDone, Money, Rest
    <2>7. LogKept  BY <1>8, DoneKeepsLog
    <2> QED  BY <1>1, <1>3, <1>4, <2>1, <2>5, <2>6, <2>7, QuietGo, QuietEnd
  <1>9. CASE SaveForm(s)
    <2>1. j.h = "form" /\ j.at = "save"  BY <1>3, <1>9 DEF SaveForm, At
    <2>2. UNCHANGED <<log, account, rebates, paid, now, duty>>  BY <1>9 DEF SaveForm, Money, Rest
    <2>3. PICK row : row = Filled(j.row)  OBVIOUS
    <2>4. PICK k : k = [h |-> "form", at |-> "customer", cust |-> row.cust, row |-> account[row.cust]]
      OBVIOUS
    <2>5. End(s) \/ (Go(s, k) /\ row.cust # NoOne)  BY <1>3, <1>9, <2>3, <2>4 DEF SaveForm
    <2>6. CASE End(s)  BY <1>1, <1>3, <2>1, <2>2, <2>6, QuietEnd
    <2>7. CASE Go(s, k) /\ row.cust # NoOne
      <3>1. row.cust \in Customers
        <4>1. j.row \in Record  BY <1>4, <2>1, HoldsButton DEF CopyOf
        <4>2. row \in Record  BY <2>3, <4>1, ButtonsKeep
        <4> QED  BY <2>7, <4>2 DEF Record
      <3>2. session'[s] = k /\ \A t \in Threads \ {s} : session'[t] = session[t]
        BY <1>2, <2>7 DEF Go
      <3>3. k.h = "form" /\ k.at = "customer" /\ k.cust = row.cust /\ k.row = account[row.cust]
        BY <2>4
      <3>4. Sound(k)'
        <4>1. account[row.cust] \in Account  BY <1>2, <3>1 DEF MoneyTyped
        <4> QED  BY <2>2, <3>1, <3>3, <4>1 DEF Sound, FormSound
      <3>5. Sound(session[s])'  BY <3>2, <3>4
      <3> QED  BY <1>1, <1>3, <1>4, <2>1, <2>2, <3>2, <3>3, <3>5 DEF Quiet
    <2> QED  BY <2>5, <2>6, <2>7
  <1>10. CASE SaveFormCustomer(s)
    <2>1. j.h = "form" /\ j.at = "customer"  BY <1>3, <1>10 DEF SaveFormCustomer, At
    <2>2. /\ End(s) /\ UNCHANGED <<log, rebates, paid, now, duty>>
          /\ account' = [account EXCEPT ![j.cust] = j.row]
      BY <1>3, <1>10 DEF SaveFormCustomer, Rest
    <2>3. j.cust \in Customers /\ j.row \in Account /\ j.row.due = account[j.cust].due
      BY <1>4, <2>1 DEF Sound, FormSound
    <2>4. DueKept  BY <1>2, <2>2, <2>3 DEF MoneyTyped, DueKept
    <2> QED  BY <1>1, <1>3, <2>1, <2>2, <2>4, QuietEnd
  <1>11. CASE CheckNext(s) \/ CheckRaise(s)
    <2>1. j.h = "check" /\ UNCHANGED <<log, account, rebates, paid, now, duty>>
      BY <1>3, <1>11 DEF CheckNext, CheckRaise, At, Papers, Money, Rest
    <2>2. PICK x : x = CHOOSE y \in j.todo : TRUE  OBVIOUS
    <2>3. PICK about : about = IF j.at = "applicants" THEN NameOf[x] ELSE ticket[x].num  OBVIOUS
    <2>4. PICK at : at = IF j.at = "applicants" THEN 0 ELSE ticket[x].at  OBVIOUS
    <2>5. PICK k : k = [h |-> "check", at |-> "raise", back |-> j.at, todo |-> j.todo \ {x},
                        about |-> about, red |-> IsRed(at)]
      OBVIOUS
    <2>6. PICK m : m = [j EXCEPT !.todo = @ \ {x}]  OBVIOUS
    <2>7. PICK n : n = [j EXCEPT !.at = "tickets", !.todo = LateTickets]  OBVIOUS
    <2>8. PICK o : o = [h |-> "check", at |-> j.back, todo |-> j.todo]  OBVIOUS
    <2>9. Go(s, k) \/ Go(s, m) \/ Go(s, n) \/ Go(s, o) \/ End(s)
      <3>1. CASE CheckNext(s)
        BY <1>3, <2>2, <2>3, <2>4, <2>5, <2>6, <2>7, <3>1 DEF CheckNext
      <3>2. CASE CheckRaise(s)  BY <1>3, <2>8, <3>2 DEF CheckRaise
      <3> QED  BY <1>11, <3>1, <3>2
    <2>10. k.h = "check" /\ o.h = "check"  BY <2>5, <2>8
    <2>11. m.h = "check" /\ n.h = "check"
      <3>1. "h" \in DOMAIN j  BY <1>4, <2>1 DEF Holds, Idle
      <3> QED  BY <2>1, <2>6, <2>7, <3>1
    <2> QED  BY <1>1, <1>3, <1>4, <2>1, <2>9, <2>10, <2>11, QuietGo, QuietEnd
  <1> QED  BY <1>5, <1>6, <1>7, <1>8, <1>9, <1>10, <1>11 DEF Continue

\* The books of a customer as the only rebate task leaves them.
Settled(j, c) ==
    IF j.h = "sla" /\ j.at = "rebate" /\ j.cust = c THEN Books(c, j.days, 0)
    ELSE IF j.h = "sla" /\ j.at = "given" /\ j.cust = c THEN Books(c, 0, j.days)
    ELSE Books(c, 0, 0)

LEMMA SettledNow ==
    ASSUME MoneyInv, NEW s \in Threads, \A t \in Threads \ {s} : session[t].h # "sla", NEW c \in Customers
    PROVE  Settled(session[s], c)
  <1>1. /\ OnWay("rebate", c) \cup OnWay("given", c) = {} => Books(c, 0, 0)
        /\ \A t \in OnWay("rebate", c) : Books(c, session[t].days, 0)
        /\ \A t \in OnWay("given", c) : Books(c, 0, session[t].days)
    BY DEF MoneyInv, Ledger
  <1>2. \A at : OnWay(at, c) \subseteq {s}  BY DEF OnWay, At
  <1>3. \A at : s \in OnWay(at, c) <=> session[s].h = "sla" /\ session[s].at = at /\ session[s].cust = c
    BY DEF OnWay, At
  <1>4. CASE s \in OnWay("rebate", c)  BY <1>1, <1>3, <1>4 DEF Settled
  <1>5. CASE s \in OnWay("given", c) /\ s \notin OnWay("rebate", c)  BY <1>1, <1>3, <1>5 DEF Settled
  <1>6. CASE s \notin OnWay("given", c) /\ s \notin OnWay("rebate", c)
    <2>1. Books(c, 0, 0)  BY <1>1, <1>2, <1>6
    <2> QED  BY <1>3, <1>6, <2>1 DEF Settled
  <1> QED  BY <1>4, <1>5, <1>6

\* A step of the rebate task, or its start.
LEMMA SlaStep ==
    ASSUME MoneyInv, OneGiver, "sla" \in duty, Inv', MoneyTyped', NEW s \in Threads, NEW k, Go(s, k),
           k.h \in {"sla", "idle"}, \A t \in Threads \ {s} : session[t].h # "sla",
           UNCHANGED duty, Sound(k)', \A c \in Customers : Settled(k, c)'
    PROVE  MoneyInv'
  <1>1. Inv /\ Dutiful /\ DOMAIN session = Threads  BY DEF MoneyInv, Inv, Sessions
  <1>2. session'[s] = k /\ \A t \in Threads \ {s} : session'[t] = session[t]  BY <1>1 DEF Go
  <1>3. Dutiful'  BY <1>1, <1>2 DEF Dutiful
  <1>4. SlaAlone'  BY <1>2 DEF SlaAlone
  <1>5. \A t \in Threads \ {s} : session'[t].h \notin {"sla", "form"}
    BY <1>1, <1>2 DEF Dutiful, OneGiver
  <1>6. ASSUME NEW t \in Threads PROVE Sound(session[t])'
    <2>1. CASE t = s  BY <1>2, <2>1
    <2>2. CASE t # s  BY <1>5, <2>2 DEF Sound
    <2> QED  BY <2>1, <2>2
  <1>7. Ledger'
    <2> SUFFICES ASSUME NEW c \in Customers
                 PROVE  /\ (OnWay("rebate", c) \cup OnWay("given", c) = {})' => Books(c, 0, 0)'
                        /\ \A t \in OnWay("rebate", c)' : Books(c, session[t].days, 0)'
                        /\ \A t \in OnWay("given", c)' : Books(c, 0, session[t].days)'
      BY DEF Ledger
    <2>1. /\ OnWay("rebate", c)' = {t \in Threads : t = s /\ k.h = "sla" /\ k.at = "rebate" /\ k.cust = c}
          /\ OnWay("given", c)' = {t \in Threads : t = s /\ k.h = "sla" /\ k.at = "given" /\ k.cust = c}
      BY <1>2, <1>5 DEF OnWay, At
    <2>2. Settled(k, c)'  OBVIOUS
    <2>3. ASSUME NEW t \in OnWay("rebate", c)' PROVE Books(c, session[t].days, 0)'
      <3>1. t = s /\ k.h = "sla" /\ k.at = "rebate" /\ k.cust = c  BY <2>1, <2>3
      <3>2. Books(c, k.days, 0)'  BY <2>2, <3>1 DEF Settled
      <3> QED  BY <1>2, <3>1, <3>2
    <2>4. ASSUME NEW t \in OnWay("given", c)' PROVE Books(c, 0, session[t].days)'
      <3>1. t = s /\ k.h = "sla" /\ k.at = "given" /\ k.cust = c  BY <2>1, <2>4
      <3>2. Books(c, 0, k.days)'  BY <2>2, <3>1 DEF Settled
      <3> QED  BY <1>2, <3>1, <3>2
    <2>5. (OnWay("rebate", c) \cup OnWay("given", c) = {})' => Books(c, 0, 0)'
      BY <2>1, <2>2 DEF Settled
    <2> QED  BY <2>3, <2>4, <2>5
  <1> QED  BY <1>3, <1>4, <1>6, <1>7 DEF MoneyInv

\* A step taken while no request is under way.
LEMMA IdleStep ==
    ASSUME MoneyInv, Inv', MoneyTyped', Busy = {}, UNCHANGED <<session, duty>>,
           \A c \in Customers : Books(c, 0, 0) => Books(c, 0, 0)'
    PROVE  MoneyInv'
  <1>1. Dutiful' /\ SlaAlone'  BY DEF MoneyInv, Dutiful, SlaAlone
  <1>2. \A t \in Threads : session'[t].h = "idle" /\ session[t].h = "idle"  BY DEF Busy, Idle
  <1>3. \A t \in Threads : Sound(session[t])'  BY <1>2 DEF Sound
  <1>4. \A at, c : OnWay(at, c) = {} /\ OnWay(at, c)' = {}  BY <1>2 DEF OnWay, At
  <1>5. Ledger'  BY <1>4 DEF MoneyInv, Ledger
  <1> QED  BY <1>1, <1>3, <1>5 DEF MoneyInv

\* What the steps of the task know.
LEMMA SlaKnows ==
    ASSUME MoneyInv, NEW s \in Threads, session[s].h = "sla"
    PROVE  /\ "sla" \in duty /\ \A t \in Threads \ {s} : session[t].h # "sla"
           /\ Holds(session[s]) /\ SlaSound(session[s]) /\ ListOf(session[s].todo, session[s].rows)
           /\ \A i \in session[s].todo : Owed(session[s].rows[i]) \in Int /\ session[s].rows[i].given \in Int
           /\ Inv /\ MoneyTyped /\ log \in Seq(Entry) /\ DOMAIN session = Threads
           /\ session[s].at # "next" =>
                /\ session[s].id \in session[s].todo /\ session[s].cust \in Customers
                /\ session[s].days \in Int
  <1>1. PICK j : j = session[s]  OBVIOUS
  <1>2. Inv /\ MoneyTyped /\ Tables /\ log \in Seq(Entry) /\ DOMAIN session = Threads /\ Holds(j)
    BY <1>1 DEF MoneyInv, Inv, Sessions, Tables
  <1>3. "sla" \in duty /\ \A t \in Threads \ {s} : session[t].h # "sla"
    BY DEF MoneyInv, Dutiful, SlaAlone
  <1>4. SlaSound(j)  BY <1>1 DEF MoneyInv, Sound
  <1>5. ListOf(j.todo, j.rows) /\ (j.at # "next" => j.id \in j.todo)  BY <1>1, <1>2, HoldsSla
  <1>6. ASSUME NEW i \in j.todo PROVE Owed(j.rows[i]) \in Int /\ j.rows[i].given \in Int
    <2>1. PICK e : e = j.rows[i]  OBVIOUS
    <2>2. e \in Entry  BY <1>5, <2>1 DEF ListOf
    <2>3. now - e.at \in Int /\ e.given \in Int  BY <1>2, <2>2 DEF Tables, Entry
    <2>4. Owed(e) \in Int  BY <2>3 DEF Owed
    <2> QED  BY <2>1, <2>3, <2>4
  <1>7. j.at # "next" => j.cust \in Customers /\ j.days \in Int
    <2> SUFFICES ASSUME j.at # "next" PROVE j.cust \in Customers /\ j.days \in Int  OBVIOUS
    <2>1. j.id \in j.todo /\ j.days = Owed(j.rows[j.id]) - j.rows[j.id].given /\ j.cust = j.rows[j.id].cust
      BY <1>4, <1>5 DEF SlaSound
    <2>2. j.rows[j.id].cust \in Customers  BY <1>4, <2>1 DEF SlaSound
    <2> QED  BY <1>6, <2>1, <2>2
  <1> QED  BY <1>1, <1>2, <1>3, <1>4, <1>5, <1>6, <1>7

LEMMA SlaStartKeeps ==
    ASSUME MoneyInv, OneGiver, Inv', NEW s \in Threads, Sla(s)
    PROVE  MoneyInv'
  <1>1. PICK todo : todo = {i \in DOMAIN log : ~log[i].done /\ log[i].cust # NoOne}  OBVIOUS
  <1>2. PICK rows : rows = log  OBVIOUS
  <1>3. PICK k : k = [h |-> "sla", at |-> "next", rows |-> rows, todo |-> todo]  OBVIOUS
  <1>4. /\ Go(s, k) /\ Free(s, "sla")
        /\ UNCHANGED <<log, account, rebates, paid, now, duty>>
    BY <1>1, <1>2, <1>3 DEF Sla, Papers, Money, Rest
  <1>5. k.h = "sla" /\ k.at = "next" /\ k.rows = rows /\ k.todo = todo  BY <1>3
  <1>6. MoneyTyped' /\ LogKept /\ DueKept  BY <1>4, SameKept DEF MoneyInv, MoneyTyped
  <1>7. \A t \in Threads : session[t].h # "sla"
    <2> SUFFICES ASSUME NEW t \in Threads, session[t].h = "sla" PROVE FALSE  OBVIOUS
    <2>1. t \in Busy  BY DEF Busy, Idle
    <2> QED  BY <1>4, <2>1 DEF Free, OneGiver
  <1>8. Sound(k)'
    <2>1. log \in Seq(Entry)  BY DEF MoneyInv, Inv, Tables
    <2>2. \A i \in DOMAIN log : log[i].cust \in Customers \cup {NoOne}  BY <2>1, EntryDomain DEF Entry
    <2>3. \A i \in todo : rows[i].given = log'[i].given /\ rows[i].cust \in Customers
      BY <1>1, <1>2, <1>4, <2>2
    <2> QED  BY <1>5, <2>3 DEF Sound, SlaSound
  <1>9. ASSUME NEW c \in Customers PROVE Settled(k, c)'
    <2>1. Settled(session[s], c)  BY <1>7, SettledNow
    <2>2. Books(c, 0, 0)  BY <1>7, <2>1 DEF Settled
    <2>3. Books(c, 0, 0)'  BY <1>4, <1>6, <2>2, BooksStay DEF MoneyInv
    <2> QED  BY <1>5, <2>3 DEF Settled
  <1>10. "sla" \in duty /\ UNCHANGED duty  BY <1>4 DEF Free
  <1> QED  BY <1>4, <1>5, <1>6, <1>7, <1>8, <1>9, <1>10, SlaStep

LEMMA SlaNextKeeps ==
    ASSUME MoneyInv, OneGiver, Inv', NEW s \in Threads, SlaNext(s)
    PROVE  MoneyInv'
  <1>1. PICK j : j = session[s]  OBVIOUS
  <1>2. j.h = "sla" /\ j.at = "next" /\ UNCHANGED <<log, account, rebates, paid, now, duty>>
    BY <1>1 DEF SlaNext, At, Papers, Money, Rest
  <1>3. /\ "sla" \in duty /\ \A t \in Threads \ {s} : session[t].h # "sla"
        /\ Holds(j) /\ SlaSound(j) /\ ListOf(j.todo, j.rows) /\ Inv /\ MoneyTyped
    BY <1>1, <1>2, SlaKnows
  <1>4. MoneyTyped' /\ LogKept /\ DueKept  BY <1>2, <1>3, SameKept DEF MoneyTyped
  <1>5. DOMAIN j = {"h", "at", "rows", "todo"}  BY <1>2, <1>3, HoldsSla
  <1>6. ASSUME NEW k, k.h \in {"sla", "idle"}, k.h = "sla" => k.at \in {"next", "account"},
               NEW c \in Customers
        PROVE  Settled(k, c)'
    <2>1. Settled(j, c)  BY <1>1, <1>3, SettledNow
    <2>2. Books(c, 0, 0)  BY <1>2, <2>1 DEF Settled
    <2>3. Books(c, 0, 0)'  BY <1>2, <1>3, <1>4, <2>2, BooksStay
    <2> QED  BY <1>6, <2>3 DEF Settled
  <1>7. CASE j.todo = {}
    <2>1. PICK k : k = Idle  OBVIOUS
    <2>2. Go(s, k) /\ k.h = "idle"  BY <1>1, <1>7, <2>1 DEF SlaNext, Go, End, Idle
    <2>3. Sound(k)'  BY <2>2 DEF Sound
    <2> QED  BY <1>2, <1>3, <1>4, <1>6, <2>2, <2>3, SlaStep
  <1>8. CASE j.todo # {}
    <2>1. PICK i : i = Min(j.todo)  OBVIOUS
    <2>2. i \in j.todo
      <3>1. DOMAIN log \subseteq Nat  BY <1>3 DEF Inv, Tables
      <3>2. j.todo \subseteq Nat  BY <1>3, <3>1 DEF ListOf
      <3> QED  BY <1>8, <2>1, <3>2, MinIn
    <2>3. PICK k : k = [h |-> "sla", at |-> "account", rows |-> j.rows, todo |-> j.todo, id |-> i,
                        days |-> Owed(j.rows[i]) - j.rows[i].given,
                        cust |-> j.rows[i].cust, row |-> account[j.rows[i].cust]]
      OBVIOUS
    <2>4. PICK m : m = [j EXCEPT !.todo = @ \ {i}]  OBVIOUS
    <2>5. Go(s, k) \/ Go(s, m)  BY <1>1, <1>8, <2>1, <2>3, <2>4 DEF SlaNext
    <2>6. CASE Go(s, k)
      <3>1. /\ k.h = "sla" /\ k.at = "account" /\ k.rows = j.rows /\ k.todo = j.todo /\ k.id = i
            /\ k.days = Owed(j.rows[i]) - j.rows[i].given /\ k.cust = j.rows[i].cust
            /\ k.row = account[j.rows[i].cust]
        BY <2>3
      <3>2. j.rows[i].cust \in Customers /\ account[j.rows[i].cust] \in Account
        BY <1>3, <2>2 DEF SlaSound, MoneyTyped
      <3>3. Sound(k)'
        <4>1. Owed(j.rows[i])' = Owed(j.rows[i])  BY <1>2 DEF Owed
        <4>2. \A d \in k.todo : k.rows[d].given = log'[d].given /\ k.rows[d].cust \in Customers
          BY <1>2, <1>3, <3>1 DEF SlaSound
        <4>3. /\ k.days = Owed(k.rows[k.id])' - k.rows[k.id].given /\ k.cust = k.rows[k.id].cust
              /\ k.row \in Account /\ k.row.due = account'[k.cust].due
          BY <1>2, <3>1, <3>2, <4>1
        <4> QED  BY <3>1, <4>2, <4>3 DEF Sound, SlaSound
      <3> QED  BY <1>2, <1>3, <1>4, <1>6, <2>6, <3>1, <3>3, SlaStep
    <2>7. CASE Go(s, m)
      <3>1. m.h = "sla" /\ m.at = "next" /\ m.rows = j.rows /\ m.todo = j.todo \ {i}
        BY <1>2, <1>5, <2>4
      <3>2. Sound(m)'  BY <1>2, <1>3, <3>1 DEF Sound, SlaSound
      <3> QED  BY <1>2, <1>3, <1>4, <1>6, <2>7, <3>1, <3>2, SlaStep
    <2> QED  BY <2>5, <2>6, <2>7
  <1> QED  BY <1>7, <1>8

\* The due date first, then the rebate: one step each, and nobody else moves either.
LEMMA SlaExtendKeeps ==
    ASSUME MoneyInv, OneGiver, Inv', NEW s \in Threads, SlaExtend(s)
    PROVE  MoneyInv'
  <1>1. PICK j : j = session[s]  OBVIOUS
  <1>2. /\ j.h = "sla" /\ j.at = "account" /\ UNCHANGED <<log, rebates, paid, now, duty>>
        /\ account' = [account EXCEPT ![j.cust] = Extended(j.row, j.days)]
        /\ Go(s, [j EXCEPT !.at = "rebate"])
    BY <1>1 DEF SlaExtend, At, Papers, Rest
  <1>3. /\ "sla" \in duty /\ \A t \in Threads \ {s} : session[t].h # "sla"
        /\ Holds(j) /\ SlaSound(j) /\ Inv /\ MoneyTyped
        /\ j.id \in j.todo /\ j.cust \in Customers /\ j.days \in Int
    BY <1>1, <1>2, SlaKnows
  <1>4. j.row \in Account /\ j.row.due = account[j.cust].due  BY <1>2, <1>3 DEF SlaSound
  <1>5. PICK a : a = Extended(j.row, j.days)  OBVIOUS
  <1>6. a \in Account /\ a.due = j.row.due + 2 * j.days
    <2>1. j.row.due \in Int /\ j.row.st \in LineStatus  BY <1>4 DEF Account
    <2>2. \A e \in Int, st \in LineStatus :
             /\ [due |-> e, st |-> st] \in Account /\ [due |-> e, st |-> st].due = e
      BY DEF Account
    <2>3. "expired" \in LineStatus /\ "active" \in LineStatus  BY DEF LineStatus
    <2>4. PICK e : e = j.row.due + 2 * j.days  OBVIOUS
    <2>5. e \in Int  BY <1>3, <2>1, <2>4
    <2>6. \E st \in LineStatus : a = [due |-> e, st |-> st]  BY <1>5, <2>1, <2>3, <2>4 DEF Extended
    <2> QED  BY <2>2, <2>4, <2>5, <2>6
  <1>7. /\ account' \in [Customers -> Account] /\ account'[j.cust].due = account[j.cust].due + 2 * j.days
        /\ \A c \in Customers \ {j.cust} : account'[c] = account[c]
    BY <1>2, <1>3, <1>4, <1>5, <1>6 DEF MoneyTyped
  <1>8. MoneyTyped'  BY <1>2, <1>3, <1>7 DEF MoneyTyped
  <1>9. LogKept  BY <1>2, SameKept
  <1>10. PICK k : k = [j EXCEPT !.at = "rebate"]  OBVIOUS
  <1>11. /\ k.h = "sla" /\ k.at = "rebate" /\ k.rows = j.rows /\ k.todo = j.todo /\ k.id = j.id
         /\ k.days = j.days /\ k.cust = j.cust
    <2>1. DOMAIN j = {"h", "at", "rows", "todo", "id", "days", "cust", "row"}  BY <1>2, <1>3, HoldsSla
    <2> QED  BY <1>2, <1>10, <2>1
  <1>12. Sound(k)'
    <2>1. \A i \in k.todo : k.rows[i].given = log'[i].given /\ k.rows[i].cust \in Customers
      BY <1>2, <1>3, <1>11 DEF SlaSound
    <2>2. k.days = Owed(k.rows[k.id])' - k.rows[k.id].given /\ k.cust = k.rows[k.id].cust
      BY <1>2, <1>3, <1>11 DEF SlaSound, Owed
    <2> QED  BY <1>11, <2>1, <2>2 DEF Sound, SlaSound
  <1>13. ASSUME NEW c \in Customers PROVE Settled(k, c)'
    <2>1. Settled(j, c)  BY <1>1, <1>3, SettledNow
    <2>2. Books(c, 0, 0)  BY <1>2, <2>1 DEF Settled
    <2>3. GivenTo(c)' = GivenTo(c)  BY <1>3, <1>9, GivenStays
    <2>4. CASE c # j.cust
      <3>1. Books(c, 0, 0)'  BY <1>2, <1>7, <2>2, <2>3, <2>4 DEF Books
      <3> QED  BY <1>11, <2>4, <3>1 DEF Settled
    <2>5. CASE c = j.cust
      <3>1. /\ Opening[c].due \in Int /\ paid[c] \in Int /\ rebates[c] \in Int
        BY <1>3, OpeningAssumption DEF MoneyTyped
      <3>2. account'[c].due = Opening[c].due + paid[c] + 2 * (rebates[c] + j.days)
        <4>1. account[c].due = Opening[c].due + paid[c] + 2 * (rebates[c] + 0)  BY <2>2 DEF Books
        <4>2. account'[c].due = account[c].due + 2 * j.days  BY <1>7, <2>5
        <4> QED  BY <1>3, <3>1, <4>1, <4>2
      <3>3. Books(c, j.days, 0)'  BY <1>2, <2>2, <2>3, <3>2 DEF Books
      <3> QED  BY <1>11, <2>5, <3>3 DEF Settled
    <2> QED  BY <2>4, <2>5
  <1> QED  BY <1>2, <1>3, <1>8, <1>10, <1>11, <1>12, <1>13, SlaStep

LEMMA SlaRebateKeeps ==
    ASSUME MoneyInv, OneGiver, Inv', NEW s \in Threads, SlaRebate(s)
    PROVE  MoneyInv'
  <1>1. PICK j : j = session[s]  OBVIOUS
  <1>2. /\ j.h = "sla" /\ j.at = "rebate" /\ UNCHANGED <<log, account, paid, now, duty>>
        /\ rebates' = [rebates EXCEPT ![j.cust] = @ + j.days]
        /\ Go(s, [j EXCEPT !.at = "given"])
    BY <1>1 DEF SlaRebate, At, Papers, Rest
  <1>3. /\ "sla" \in duty /\ \A t \in Threads \ {s} : session[t].h # "sla"
        /\ Holds(j) /\ SlaSound(j) /\ Inv /\ MoneyTyped
        /\ j.id \in j.todo /\ j.cust \in Customers /\ j.days \in Int
    BY <1>1, <1>2, SlaKnows
  <1>4. /\ rebates' \in [Customers -> Int] /\ rebates'[j.cust] = rebates[j.cust] + j.days
        /\ \A c \in Customers \ {j.cust} : rebates'[c] = rebates[c]
    BY <1>2, <1>3 DEF MoneyTyped
  <1>5. MoneyTyped'  BY <1>2, <1>3, <1>4 DEF MoneyTyped
  <1>6. LogKept  BY <1>2, SameKept
  <1>7. PICK k : k = [j EXCEPT !.at = "given"]  OBVIOUS
  <1>8. /\ k.h = "sla" /\ k.at = "given" /\ k.rows = j.rows /\ k.todo = j.todo /\ k.id = j.id
        /\ k.days = j.days /\ k.cust = j.cust
    <2>1. DOMAIN j = {"h", "at", "rows", "todo", "id", "days", "cust", "row"}  BY <1>2, <1>3, HoldsSla
    <2> QED  BY <1>2, <1>7, <2>1
  <1>9. Sound(k)'
    <2>1. \A i \in k.todo : k.rows[i].given = log'[i].given /\ k.rows[i].cust \in Customers
      BY <1>2, <1>3, <1>8 DEF SlaSound
    <2>2. k.days = Owed(k.rows[k.id])' - k.rows[k.id].given /\ k.cust = k.rows[k.id].cust
      BY <1>2, <1>3, <1>8 DEF SlaSound, Owed
    <2> QED  BY <1>8, <2>1, <2>2 DEF Sound, SlaSound
  <1>10. ASSUME NEW c \in Customers PROVE Settled(k, c)'
    <2>1. Settled(j, c)  BY <1>1, <1>3, SettledNow
    <2>2. GivenTo(c)' = GivenTo(c)  BY <1>3, <1>6, GivenStays
    <2>3. CASE c # j.cust
      <3>1. Books(c, 0, 0)  BY <1>2, <2>1, <2>3 DEF Settled
      <3>2. Books(c, 0, 0)'  BY <1>2, <1>4, <2>2, <2>3, <3>1 DEF Books
      <3> QED  BY <1>8, <2>3, <3>2 DEF Settled
    <2>4. CASE c = j.cust
      <3>1. Books(c, j.days, 0)  BY <1>2, <2>1, <2>4 DEF Settled
      <3>2. rebates[c] \in Int /\ rebates'[c] = rebates[c] + j.days  BY <1>3, <1>4, <2>4 DEF MoneyTyped
      <3>3. GivenTo(c) \in Int  BY <1>3, GivenTyped
      <3>4. rebates'[c] = GivenTo(c)' + j.days
        <4>1. rebates[c] = GivenTo(c) + 0  BY <3>1 DEF Books
        <4> QED  BY <1>3, <2>2, <3>2, <3>3, <4>1
      <3>5. account'[c].due = Opening[c].due + paid'[c] + 2 * (rebates'[c] + 0)
        <4>1. account[c].due = Opening[c].due + paid[c] + 2 * (rebates[c] + j.days)  BY <3>1 DEF Books
        <4>2. rebates'[c] + 0 = rebates[c] + j.days  BY <1>3, <3>2
        <4> QED  BY <1>2, <4>1, <4>2
      <3>6. Books(c, 0, j.days)'  BY <3>4, <3>5 DEF Books
      <3> QED  BY <1>8, <2>4, <3>6 DEF Settled
    <2> QED  BY <2>3, <2>4
  <1> QED  BY <1>2, <1>3, <1>5, <1>7, <1>8, <1>9, <1>10, SlaStep

LEMMA SlaGivenKeeps ==
    ASSUME MoneyInv, OneGiver, Inv', NEW s \in Threads, SlaGiven(s)
    PROVE  MoneyInv'
  <1>1. PICK j : j = session[s]  OBVIOUS
  <1>2. j.h = "sla" /\ j.at = "given" /\ UNCHANGED <<account, rebates, paid, now, duty>>
    BY <1>1 DEF SlaGiven, At, Money, Rest
  <1>3. /\ "sla" \in duty /\ \A t \in Threads \ {s} : session[t].h # "sla"
        /\ Holds(j) /\ SlaSound(j) /\ Inv /\ MoneyTyped /\ log \in Seq(Entry)
        /\ ListOf(j.todo, j.rows) /\ j.id \in j.todo /\ j.cust \in Customers /\ j.days \in Int
        /\ \A i \in j.todo : Owed(j.rows[i]) \in Int /\ j.rows[i].given \in Int
    BY <1>1, <1>2, SlaKnows
  <1>4. PICK i : i = j.id  OBVIOUS
  <1>5. PICK x : x = j.rows[i]  OBVIOUS
  <1>6. /\ i \in DOMAIN log /\ x \in Entry /\ x.cust = log[i].cust /\ x.given = log[i].given
        /\ j.days = Owed(x) - x.given /\ j.cust = x.cust /\ Owed(x) \in Int
    BY <1>2, <1>3, <1>4, <1>5 DEF ListOf, SlaSound
  <1>7. PICK e : e = Given(x)  OBVIOUS
  <1>8. e.cust = x.cust /\ e.given = Owed(x)  BY <1>6, <1>7 DEF Given, Entry
  <1>9. PICK k : k = [h |-> "sla", at |-> "next", rows |-> j.rows, todo |-> j.todo \ {i}]  OBVIOUS
  <1>10. log' = [log EXCEPT ![i] = e] /\ Go(s, k)
    BY <1>1, <1>4, <1>5, <1>7, <1>9 DEF SlaGiven
  <1>11. k.h = "sla" /\ k.at = "next" /\ k.rows = j.rows /\ k.todo = j.todo \ {i}  BY <1>9
  <1>12. /\ DOMAIN log' = DOMAIN log /\ log'[i] = e
         /\ \A m \in DOMAIN log \ {i} : log'[m] = log[m]
    BY <1>6, <1>10
  <1>13. MoneyTyped'  BY <1>2, <1>3 DEF MoneyTyped
  <1>14. Sound(k)'
    <2>1. \A m \in k.todo : m \in DOMAIN log \ {i} /\ m \in j.todo  BY <1>3, <1>11 DEF ListOf
    <2>2. \A m \in k.todo : k.rows[m].given = log'[m].given /\ k.rows[m].cust \in Customers
      BY <1>3, <1>11, <1>12, <2>1 DEF SlaSound
    <2> QED  BY <1>11, <2>2 DEF Sound, SlaSound
  <1>15. ASSUME NEW c \in Customers PROVE Settled(k, c)'
    <2>1. Settled(j, c)  BY <1>1, <1>3, SettledNow
    <2>2. GivenTo(c)' = GivenTo(c) + IF log[i].cust = c THEN log'[i].given - log[i].given ELSE 0
      <3>1. /\ \A m \in DOMAIN log : log'[m].cust = log[m].cust
            /\ \A m \in DOMAIN log \ {i} : log'[m].given = log[m].given
        BY <1>6, <1>8, <1>12
      <3> QED  BY <1>3, <1>6, <1>12, <3>1, GivenMoves
    <2>3. GivenTo(c) \in Int  BY <1>3, GivenTyped
    <2>4. CASE c # j.cust
      <3>1. Books(c, 0, 0)  BY <1>2, <2>1, <2>4 DEF Settled
      <3>2. GivenTo(c)' = GivenTo(c)  BY <1>6, <2>2, <2>3, <2>4
      <3>3. Books(c, 0, 0)'  BY <1>2, <3>1, <3>2 DEF Books
      <3> QED  BY <1>11, <3>3 DEF Settled
    <2>5. CASE c = j.cust
      <3>1. Books(c, 0, j.days)  BY <1>2, <2>1, <2>5 DEF Settled
      <3>2. GivenTo(c)' = GivenTo(c) + j.days
        BY <1>6, <1>8, <1>12, <2>2, <2>5
      <3>3. rebates[c] = GivenTo(c)' + 0  BY <1>3, <2>3, <3>1, <3>2 DEF Books
      <3>4. Books(c, 0, 0)'  BY <1>2, <3>1, <3>3 DEF Books
      <3> QED  BY <1>11, <3>4 DEF Settled
    <2> QED  BY <2>4, <2>5
  <1> QED  BY <1>2, <1>3, <1>10, <1>11, <1>13, <1>14, <1>15, SlaStep

\* A payment buys its days from the due date, or from now when that is past.
LEMMA PayKeeps ==
    ASSUME MoneyInv, OneGiver, Inv', NEW s \in Threads, NEW c \in Customers, Pay(s, c)
    PROVE  MoneyInv'
  <1>1. Inv /\ MoneyTyped /\ now \in Nat  BY DEF MoneyInv, Inv, Tables
  <1>2. /\ Busy = {} /\ paid[c] = 0 /\ UNCHANGED <<session, log, rebates, duty>>
    BY DEF Pay, Free, OneGiver, Papers, Rest
  <1>3. PICK from : from = IF account[c].due # NoDate /\ account[c].due > now THEN account[c].due ELSE now
    OBVIOUS
  <1>4. /\ account' = [account EXCEPT ![c] = [due |-> from + PayTime, st |-> "active"]]
        /\ paid' = [paid EXCEPT ![c] = from + PayTime - account[c].due]
    BY <1>3 DEF Pay
  <1>5. account[c].due \in Int /\ from \in Int /\ PayTime \in Int
    <2>1. account[c] \in Account  BY <1>1 DEF MoneyTyped
    <2>2. account[c].due \in Int  BY <2>1 DEF Account
    <2> QED  BY <1>1, <1>3, <2>2, OpeningAssumption
  <1>6. [due |-> from + PayTime, st |-> "active"] \in Account  BY <1>5 DEF Account, LineStatus
  <1>7. /\ account' \in [Customers -> Account] /\ account'[c].due = from + PayTime
        /\ paid' \in [Customers -> Int] /\ paid'[c] = from + PayTime - account[c].due
        /\ \A d \in Customers \ {c} : account'[d] = account[d] /\ paid'[d] = paid[d]
    BY <1>1, <1>4, <1>5, <1>6 DEF MoneyTyped
  <1>8. MoneyTyped'  BY <1>1, <1>2, <1>7 DEF MoneyTyped
  <1>9. LogKept  BY <1>2, SameKept
  <1>10. ASSUME NEW d \in Customers, Books(d, 0, 0) PROVE Books(d, 0, 0)'
    <2>1. GivenTo(d)' = GivenTo(d)  BY <1>1, <1>9, GivenStays
    <2>2. CASE d # c  BY <1>2, <1>7, <1>10, <2>1, <2>2 DEF Books
    <2>3. CASE d = c
      <3>1. Opening[c].due \in Int /\ rebates[c] \in Int  BY <1>1, OpeningAssumption DEF MoneyTyped
      <3>2. account[c].due = Opening[c].due + paid[c] + 2 * (rebates[c] + 0)  BY <1>10, <2>3 DEF Books
      <3>3. account'[c].due = Opening[c].due + paid'[c] + 2 * (rebates[c] + 0)
        BY <1>2, <1>5, <1>7, <3>1, <3>2
      <3> QED  BY <1>2, <1>10, <2>1, <2>3, <3>3 DEF Books
    <2> QED  BY <2>2, <2>3
  <1> QED  BY <1>2, <1>8, <1>10, IdleStep

LEMMA MoneyStep ==
    ASSUME MoneyInv, OneGiver, [Next]_vars
    PROVE  MoneyInv'
  <1>1. Inv /\ Inv' /\ MoneyTyped  BY InvStep DEF MoneyInv
  <1>2. CASE UNCHANGED vars
    <2>1. UNCHANGED <<log, account, rebates, paid, now, session, duty>>  BY <1>2 DEF vars
    <2>2. LogKept /\ DueKept  BY <2>1, SameKept
    <2>3. MoneyTyped' /\ Dutiful' /\ SlaAlone'  BY <2>1 DEF MoneyInv, MoneyTyped, Dutiful, SlaAlone
    <2>4. \A c, due, given : c \in Customers /\ Books(c, due, given) => Books(c, due, given)'
      BY <1>1, <2>1, <2>2, BooksStay
    <2>5. Ledger'
      <3> SUFFICES ASSUME NEW c \in Customers
                   PROVE  /\ (OnWay("rebate", c) \cup OnWay("given", c) = {})' => Books(c, 0, 0)'
                          /\ \A t \in OnWay("rebate", c)' : Books(c, session[t].days, 0)'
                          /\ \A t \in OnWay("given", c)' : Books(c, 0, session[t].days)'
        BY DEF Ledger
      <3>1. \A at : OnWay(at, c)' = OnWay(at, c)  BY <2>1 DEF OnWay, At
      <3>2. /\ OnWay("rebate", c) \cup OnWay("given", c) = {} => Books(c, 0, 0)
            /\ \A t \in OnWay("rebate", c) : Books(c, session[t].days, 0)
            /\ \A t \in OnWay("given", c) : Books(c, 0, session[t].days)
        BY DEF MoneyInv, Ledger
      <3>3. ASSUME NEW t \in OnWay("rebate", c) PROVE Books(c, session[t].days, 0)'
        <4>1. PICK d : d = session[t].days  OBVIOUS
        <4>2. Books(c, d, 0)' /\ session'[t].days = d  BY <2>1, <2>4, <3>2, <4>1
        <4> QED  BY <4>2
      <3>4. ASSUME NEW t \in OnWay("given", c) PROVE Books(c, 0, session[t].days)'
        <4>1. PICK d : d = session[t].days  OBVIOUS
        <4>2. Books(c, 0, d)' /\ session'[t].days = d  BY <2>1, <2>4, <3>2, <4>1
        <4> QED  BY <4>2
      <3> QED  BY <2>4, <3>1, <3>2, <3>3, <3>4
    <2>6. ASSUME NEW t \in Threads PROVE Sound(session[t])'
      <3>1. PICK j : j = session[t]  OBVIOUS
      <3>2. Holds(j) /\ Sound(j)  BY <3>1 DEF MoneyInv, Inv, Sessions
      <3>3. Sound(j)'  BY <1>1, <2>1, <2>2, <3>2, StillSound
      <3> QED  BY <2>1, <3>1, <3>3
    <2> QED  BY <1>1, <2>3, <2>5, <2>6 DEF MoneyInv
  <1>3. CASE Tick
    <2>1. Busy = {} /\ UNCHANGED <<log, account, rebates, paid, session, duty>>
      BY <1>3 DEF Tick, Papers, Money
    <2>2. MoneyTyped' /\ LogKept /\ DueKept  BY <1>1, <2>1, SameKept DEF MoneyTyped
    <2>3. \A c \in Customers : Books(c, 0, 0) => Books(c, 0, 0)'  BY <1>1, <2>1, <2>2, BooksStay
    <2> QED  BY <1>1, <2>1, <2>2, <2>3, IdleStep
  <1>4. ASSUME NEW s \in Threads, Request(s) PROVE MoneyInv'
    <2>1. CASE Sla(s)  BY <1>1, <2>1, SlaStartKeeps
    <2>2. CASE \E c \in Customers : Pay(s, c)  BY <1>1, <2>2, PayKeeps
    <2>3. CASE ~Sla(s) /\ ~\E c \in Customers : Pay(s, c)
      <3>1. Quiet(s)  BY <1>4, <2>3, QuietRequests
      <3> QED  BY <1>1, <3>1, QuietKeeps
    <2> QED  BY <2>1, <2>2, <2>3
  <1>5. ASSUME NEW s \in Threads, Continue(s) PROVE MoneyInv'
    <2>1. CASE SlaNext(s)  BY <1>1, <2>1, SlaNextKeeps
    <2>2. CASE SlaExtend(s)  BY <1>1, <2>2, SlaExtendKeeps
    <2>3. CASE SlaRebate(s)  BY <1>1, <2>3, SlaRebateKeeps
    <2>4. CASE SlaGiven(s)  BY <1>1, <2>4, SlaGivenKeeps
    <2>5. CASE ~SlaNext(s) /\ ~SlaExtend(s) /\ ~SlaRebate(s) /\ ~SlaGiven(s)
      <3>1. Quiet(s)  BY <1>5, <2>5, QuietContinues
      <3> QED  BY <1>1, <3>1, QuietKeeps
    <2> QED  BY <2>1, <2>2, <2>3, <2>4, <2>5
  <1> QED  BY <1>2, <1>3, <1>4, <1>5 DEF Next

LEMMA MoneyInit ==
    ASSUME Init
    PROVE  MoneyInv
  <1>1. Inv  BY InvInit
  <1>2. MoneyTyped  BY OpeningAssumption DEF Init, MoneyTyped, Account
  <1>3. \A s \in Threads : session[s].h = "idle"  BY DEF Init, Idle
  <1>4. Dutiful /\ SlaAlone  BY <1>3 DEF Init, Dutiful, SlaAlone
  <1>5. \A s \in Threads : Sound(session[s])  BY <1>3 DEF Sound
  <1>6. Ledger
    <2> SUFFICES ASSUME NEW c \in Customers PROVE Books(c, 0, 0)
      BY <1>3 DEF Ledger, OnWay, At
    <2>1. {i \in DOMAIN log : log[i].cust = c} = {}  BY DEF Init
    <2>2. GivenTo(c) = 0  BY <2>1, SumEmpty DEF GivenTo
    <2>3. Opening[c].due \in Int  BY OpeningAssumption
    <2> QED  BY <2>2, <2>3 DEF Init, Books
  <1> QED  BY <1>1, <1>2, <1>4, <1>5, <1>6 DEF MoneyInv

\* SlaDaysMatch: while the rebate task runs once at a time, no payment is taken while
\* a request is under way, and neither a completion form nor a killed worker meets the
\* task, a due date has moved by exactly what was paid and by the days of the rebates,
\* and these are the days the entries say were given, though the task writes the due
\* date, the rebate and the entry one after the other from a list read at its start,
\* whatever is submitted, done and deleted meanwhile (tasks.py:108-147).
THEOREM SlaDaysAddUp ==
    ASSUME OneGiver
    PROVE  Spec => []SlaDaysMatch
  <1>1. Init => MoneyInv  BY MoneyInit
  <1>2. MoneyInv /\ [Next]_vars => MoneyInv'  BY MoneyStep
  <1>3. MoneyInv => SlaDaysMatch
    <2> SUFFICES ASSUME MoneyInv, Busy = {}, NEW c \in Customers
                 PROVE  /\ account[c].due = Opening[c].due + paid[c] + 2 * rebates[c]
                        /\ rebates[c] = GivenTo(c)
      BY DEF SlaDaysMatch, GivenTo
    <2>1. \A at : OnWay(at, c) = {}  BY DEF OnWay, At, Busy, Idle
    <2>2. Books(c, 0, 0)  BY <2>1 DEF MoneyInv, Ledger
    <2>3. rebates[c] \in Int /\ GivenTo(c) \in Int  BY GivenTyped DEF MoneyInv, MoneyTyped
    <2> QED  BY <2>2, <2>3 DEF Books
  <1> QED  BY <1>1, <1>2, <1>3, PTL DEF Spec
=============================================================================
