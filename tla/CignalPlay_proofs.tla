------------------------- MODULE CignalPlay_proofs -------------------------
(* Theorems about CignalPlay for every value of its constants. *)
EXTENDS CignalPlay, SequenceTheorems, FiniteSetTheorems, TLAPS

-----------------------------------------------------------------------------
(* Numbers and sequences *)

LEMMA SeqWrite ==
    ASSUME NEW S, NEW q \in Seq(S), NEW i \in 1 .. Len(q), NEW e \in S
    PROVE  /\ [q EXCEPT ![i] = e] \in Seq(S)
           /\ Len([q EXCEPT ![i] = e]) = Len(q)
           /\ \A k \in 1 .. Len(q) : [q EXCEPT ![i] = e][k] = IF k = i THEN e ELSE q[k]
  BY ExceptSeq

LEMMA SeqAdd ==
    ASSUME NEW S, NEW q \in Seq(S), NEW e \in S
    PROVE  /\ Append(q, e) \in Seq(S) /\ Len(Append(q, e)) = Len(q) + 1 /\ Len(q) \in Nat
           /\ \A k \in 1 .. Len(q) : Append(q, e)[k] = q[k]
           /\ Append(q, e)[Len(q) + 1] = e
  BY AppendProperties

\* The newest of a bounded set of rows is one of them.
LEMMA NewestIn ==
    ASSUME NEW S, NEW n \in Nat, S \subseteq 1 .. n
    PROVE  Newest(S) \in {0} \cup S
  <1>1. CASE S = {}  BY <1>1 DEF Newest
  <1>2. CASE S # {}
    <2> DEFINE T == {n - m : m \in S}
               R == OpToRel(<, Nat)
    <2>1. T \subseteq Nat /\ T # {}
      <3>1. ASSUME NEW m \in S PROVE n - m \in Nat
        <4>1. m \in 1 .. n  OBVIOUS
        <4> QED  BY <4>1
      <3> QED  BY <1>2, <3>1
    <2>2. PICK x \in T : \A y \in T : ~(<<y, x>> \in R)
      <3> HIDE DEF T, R
      <3>1. IsWellFoundedOn(R, Nat)  BY NatLessThanWellFounded DEF R
      <3> QED  BY <2>1, <3>1, WFMin
    <2>3. \A y \in T : ~(y < x)  BY <2>1, <2>2 DEF OpToRel
    <2>4. PICK h \in S : x = n - h  OBVIOUS
    <2>5. \A m \in S : m <= h
      <3> SUFFICES ASSUME NEW m \in S PROVE m <= h  OBVIOUS
      <3>1. n - m \in T  OBVIOUS
      <3>2. ~(n - m < n - h)  BY <2>3, <2>4, <3>1
      <3>3. m \in 1 .. n /\ h \in 1 .. n  OBVIOUS
      <3> HIDE DEF T, R
      <3> QED  BY <3>2, <3>3
    <2>6. Newest(S) = CHOOSE i \in S : \A m \in S : m <= i  BY <1>2 DEF Newest
    <2> QED  BY <2>4, <2>5, <2>6
  <1> QED  BY <1>1, <1>2

\* One load more.
LEMMA OneMore ==
    ASSUME NEW a \in Nat, NEW k \in Nat
    PROVE  a * k \in Nat /\ a * (k + 1) = a * k + a /\ a * 0 = 0
  OBVIOUS

-----------------------------------------------------------------------------
(* What holds of the tables and of a request under way *)

\* A row of a database with r requests.
Good(p, r) == p \in Play /\ p.n <= Months /\ p.from \in 0 .. r

Counts == [due : Nat, n : 0 .. Months]
Application == [cust : Customers, st : {"Pending", "Resolved", "deleted"}]

\* What a thread may hold, with p subscriptions and r requests.
Typed(j, p, r) ==
    \/ j = Idle
    \/ j.h \in {"withdraw", "resolve"} /\ j.req \in 1 .. r
    \/ j.h \in {"activate", "approve"} /\ j.req \in 0 .. r /\ Good(j.row, r)
    \/ j.h = "pay" /\ j.id \in 0 .. p /\ Good(j.row, r) /\ j.amount \in Nat /\ j.date \in Nat
    \/ j.h = "edit" /\ j.id \in 1 .. p /\ Good(j.row, r)
    \/ j.h \in {"cancel", "restore"} /\ j.id \in 1 .. p
    \/ j \in [h : {"clear", "erase"}, cust : Customers]
    \/ j.h = "crew" /\ j.id \in 1 .. p /\ j.next \in Ticket

Tabled ==
    /\ play \in Seq(Play) /\ ticket \in Seq(Ticket) /\ receipt \in Seq(Receipts)
    /\ typed \in Seq(Counts) /\ request \in Seq(Application)
    /\ Len(ticket) = Len(play) /\ Len(receipt) = Len(play) /\ Len(typed) = Len(play)
    /\ \A i \in 1 .. Len(play) : Good(play[i], Len(request))
    /\ number \in SUBSET Customers /\ today \in Nat

Held == /\ DOMAIN session = Threads
        /\ \A s \in Threads : Typed(session[s], Len(play), Len(request))

Inv == Tabled /\ Held

LEMMA TablesAre ==
    ASSUME Tabled
    PROVE  /\ Len(play) \in Nat /\ Len(request) \in Nat
           /\ DOMAIN play = 1 .. Len(play) /\ DOMAIN ticket = 1 .. Len(play)
           /\ DOMAIN receipt = 1 .. Len(play) /\ DOMAIN typed = 1 .. Len(play)
           /\ DOMAIN request = 1 .. Len(request)
           /\ \A i \in 1 .. Len(play) : /\ play[i] \in Play /\ ticket[i] \in Ticket
                                        /\ receipt[i] \in Receipts /\ typed[i] \in Counts
           /\ \A r \in 1 .. Len(request) : request[r] \in Application
  <1>1. ASSUME NEW S, NEW q \in Seq(S)
        PROVE  Len(q) \in Nat /\ DOMAIN q = 1 .. Len(q) /\ \A i \in 1 .. Len(q) : q[i] \in S
    BY LenProperties, ElementOfSeq
  <1>2. /\ play \in Seq(Play) /\ ticket \in Seq(Ticket) /\ receipt \in Seq(Receipts)
        /\ typed \in Seq(Counts) /\ request \in Seq(Application)
        /\ Len(ticket) = Len(play) /\ Len(receipt) = Len(play) /\ Len(typed) = Len(play)
    BY DEF Tabled
  <1>3. Len(play) \in Nat /\ DOMAIN play = 1 .. Len(play) /\ \A i \in 1 .. Len(play) : play[i] \in Play
    BY <1>1, <1>2
  <1>4. DOMAIN ticket = 1 .. Len(play) /\ \A i \in 1 .. Len(play) : ticket[i] \in Ticket
    BY <1>1, <1>2
  <1>5. DOMAIN receipt = 1 .. Len(play) /\ \A i \in 1 .. Len(play) : receipt[i] \in Receipts
    BY <1>1, <1>2
  <1>6. DOMAIN typed = 1 .. Len(play) /\ \A i \in 1 .. Len(play) : typed[i] \in Counts
    BY <1>1, <1>2
  <1>7. Len(request) \in Nat /\ DOMAIN request = 1 .. Len(request)
        /\ \A i \in 1 .. Len(request) : request[i] \in Application
    BY <1>1, <1>2
  <1> QED  BY <1>3, <1>4, <1>5, <1>6, <1>7

\* Tables only grow, so what a request holds stays typed.
LEMMA TypedGrows ==
    ASSUME NEW j, NEW p \in Nat, NEW r \in Nat, Typed(j, p, r),
           NEW p1 \in Nat, NEW r1 \in Nat, p1 >= p, r1 >= r
    PROVE  Typed(j, p1, r1)
  <1>1. /\ 1 .. p \subseteq 1 .. p1 /\ 0 .. p \subseteq 0 .. p1
        /\ 1 .. r \subseteq 1 .. r1 /\ 0 .. r \subseteq 0 .. r1
    OBVIOUS
  <1>2. Good(j.row, r) => Good(j.row, r1)  BY <1>1 DEF Good
  <1> QED  BY <1>1, <1>2 DEF Typed

\* The same, read by the handler the request is of.
LEMMA TypedIs ==
    ASSUME NEW j, NEW p, NEW r, Typed(j, p, r)
    PROVE  /\ j.h \in {"withdraw", "resolve"} => j.req \in 1 .. r
           /\ j.h \in {"activate", "approve"} => j.req \in 0 .. r /\ Good(j.row, r)
           /\ j.h = "pay" => /\ j.id \in 0 .. p /\ Good(j.row, r)
                             /\ j.amount \in Nat /\ j.date \in Nat
           /\ j.h = "edit" => j.id \in 1 .. p /\ Good(j.row, r)
           /\ j.h \in {"cancel", "restore"} => j.id \in 1 .. p
           /\ j.h \in {"clear", "erase"} => j \in [h : {"clear", "erase"}, cust : Customers]
           /\ j.h = "crew" => j.id \in 1 .. p /\ j.next \in Ticket
  <1>1. CASE j = Idle  BY <1>1 DEF Idle
  <1>2. CASE j \in [h : {"clear", "erase"}, cust : Customers]  BY <1>2
  <1>3. CASE j # Idle /\ j \notin [h : {"clear", "erase"}, cust : Customers]  BY <1>3 DEF Typed
  <1> QED  BY <1>1, <1>2, <1>3

-----------------------------------------------------------------------------
(* What is written to a row *)

LEMMA Parameters ==
    /\ Months \in Nat /\ Months >= 1 /\ LoadDays \in Nat /\ LoadDays >= 1
  <1>1. {Months, LoadDays} \subseteq Nat \ {0}  BY CignalAssumption, Zenon
  <1> QED  BY <1>1

\* A new row with the hardware, the plan and the dates of an activation.
LEMMA NewIs ==
    ASSUME NEW c \in Customers, NEW no \in BOOLEAN, NEW r \in Nat
    PROVE  /\ Good(NewPlay(c, no), r)
           /\ NewPlay(c, no).due = NoDate /\ NewPlay(c, no).end = NoDate
           /\ NewPlay(c, no).st = "live" /\ NewPlay(c, no).paid = 0 /\ NewPlay(c, no).cust = c
           /\ NewPlay(c, no).n = 0
  BY Parameters DEF NewPlay, Good, Play, Hardware, NoDate

LEMMA LaterIs ==
    ASSUME NEW a \in Nat, NEW b \in Nat
    PROVE  Later(a, b) \in Nat /\ Later(a, b) >= a
  BY DEF Later

\* A payment moves the dates of its row, and nothing else.
LEMMA LoadedIs ==
    ASSUME NEW p \in Play, NEW kind, NEW date \in Nat, today \in Nat
    PROVE  LET q == Loaded(p, kind, date)
           IN  /\ q \in Play
               /\ q.cust = p.cust /\ q.st = p.st /\ q.n = p.n /\ q.paid = p.paid /\ q.from = p.from
               /\ kind = "box" => q = p
               /\ kind # "box" /\ date # NoDate => q.due = date
               /\ kind # "box" /\ date = NoDate => q.due # NoDate /\ q.due >= Due(p) + LoadDays
  <1> DEFINE d == IF date # NoDate THEN date ELSE Later(Due(p), today) + LoadDays
             q == [p EXCEPT !.due = d, !.end = d]
  <1>1. p.due \in Nat /\ p.end \in Nat  BY DEF Play
  <1>2. Due(p) \in Nat  BY <1>1 DEF Due
  <1>3. Later(Due(p), today) \in Nat /\ Later(Due(p), today) >= Due(p)  BY <1>2, LaterIs
  <1>4. /\ d \in Nat
        /\ date # NoDate => d = date
        /\ date = NoDate => d # NoDate /\ d >= Due(p) + LoadDays
    BY <1>2, <1>3, Parameters DEF NoDate
  <1> HIDE DEF d
  <1>5. /\ q \in Play
        /\ q.cust = p.cust /\ q.st = p.st /\ q.n = p.n /\ q.paid = p.paid /\ q.from = p.from
        /\ q.due = d
    BY <1>4 DEF Play
  <1>6. Loaded(p, kind, date) = IF kind = "box" THEN p ELSE q  BY DEF Loaded, d
  <1> QED  BY <1>4, <1>5, <1>6

LEMMA BoxedIs ==
    ASSUME NEW p \in Play, p.n <= Months, NEW kind, NEW amount \in Nat
    PROVE  LET q == Boxed(p, kind, amount)
           IN  /\ q \in Play /\ q.n <= Months
               /\ q.cust = p.cust /\ q.st = p.st /\ q.paid = p.paid /\ q.from = p.from
               /\ q.due = p.due /\ q.end = p.end
  <1> DEFINE h == IF p.n + 1 >= Months THEN "cashout" ELSE p.hw
             k == p.n + 1
             a == [p EXCEPT !.n = k, !.hw = h]
             b == [p EXCEPT !.n = Months, !.hw = "cashout"]
  <1>1. p.n \in Nat /\ p.hw \in Hardware /\ h \in Hardware /\ k \in Nat
    BY DEF Play, Hardware
  <1> HIDE DEF h, k
  <1>2. a \in Play /\ a.n = k /\ a.cust = p.cust /\ a.st = p.st /\ a.paid = p.paid
        /\ a.from = p.from /\ a.due = p.due /\ a.end = p.end
    BY <1>1 DEF Play
  <1>3. b \in Play /\ b.n = Months /\ b.cust = p.cust /\ b.st = p.st /\ b.paid = p.paid
        /\ b.from = p.from /\ b.due = p.due /\ b.end = p.end
    BY <1>1, Parameters DEF Play, Hardware
  <1>4. \/ Boxed(p, kind, amount) = a /\ Ongoing(p)
        \/ Boxed(p, kind, amount) = b
        \/ Boxed(p, kind, amount) = p
    BY DEF Boxed, h, k
  <1>5. Ongoing(p) => k <= Months  BY <1>1, Parameters DEF Ongoing, k
  <1> HIDE DEF a, b
  <1> QED  BY <1>2, <1>3, <1>4, <1>5, Parameters

LEMMA PaidIs ==
    ASSUME NEW p \in Play, NEW amount \in Nat
    PROVE  LET q == Paid(p, amount)
           IN  /\ q \in Play /\ q.paid = p.paid + amount
               /\ q.cust = p.cust /\ q.st = p.st /\ q.n = p.n /\ q.from = p.from
               /\ q.due = p.due /\ q.end = p.end
  <1> DEFINE k == p.paid + amount
  <1>1. k \in Nat  BY DEF Play
  <1>2. Paid(p, amount) = [p EXCEPT !.paid = k]  BY DEF Paid
  <1> HIDE DEF k
  <1>3. /\ [p EXCEPT !.paid = k] \in Play /\ [p EXCEPT !.paid = k].paid = k
        /\ LET q == [p EXCEPT !.paid = k]
           IN  /\ q.cust = p.cust /\ q.st = p.st /\ q.n = p.n /\ q.from = p.from
               /\ q.due = p.due /\ q.end = p.end
    BY <1>1 DEF Play
  <1> QED  BY <1>2, <1>3 DEF k

-----------------------------------------------------------------------------
(* Type correctness *)

Grown == Len(play') >= Len(play) /\ Len(request') >= Len(request)

LEMMA Lengths ==
    ASSUME Inv, Tabled'
    PROVE  /\ Len(play) \in Nat /\ Len(request) \in Nat
           /\ Len(play') \in Nat /\ Len(request') \in Nat
  <1>1. Len(play) \in Nat /\ Len(request) \in Nat  BY TablesAre DEF Inv
  <1>2. play' \in Seq(Play) /\ request' \in Seq(Application)  BY DEF Tabled
  <1> QED  BY <1>1, <1>2, LenProperties

LEMMA Moved ==
    ASSUME Inv, Tabled', Grown, NEW s \in Threads, NEW j, session' = [session EXCEPT ![s] = j],
           Typed(j, Len(play'), Len(request'))
    PROVE  Inv'
  <1>1. DOMAIN session = Threads  BY DEF Inv, Held
  <1>2. DOMAIN session' = Threads  BY <1>1
  <1>3. ASSUME NEW t \in Threads PROVE Typed(session'[t], Len(play'), Len(request'))
    <2>1. CASE t = s
      <3>1. session'[t] = j  BY <1>1, <2>1
      <3> QED  BY <3>1
    <2>2. CASE t # s
      <3>1. session'[t] = session[t]  BY <1>1, <2>2
      <3>2. Typed(session[t], Len(play), Len(request))  BY DEF Inv, Held
      <3> QED  BY <3>1, <3>2, TypedGrows, Lengths DEF Grown
    <2> QED  BY <2>1, <2>2
  <1> QED  BY <1>2, <1>3 DEF Held, Inv

LEMMA Ended ==
    ASSUME Inv, Tabled', Grown, NEW s \in Threads, session' = [session EXCEPT ![s] = Idle]
    PROVE  Inv'
  <1>1. Typed(Idle, Len(play'), Len(request'))  BY DEF Typed
  <1> QED  BY <1>1, Moved

LEMMA Stayed ==
    ASSUME Inv, Tabled', Grown, UNCHANGED session
    PROVE  Inv'
  <1>1. ASSUME NEW t \in Threads PROVE Typed(session'[t], Len(play'), Len(request'))
    <2>1. Typed(session[t], Len(play), Len(request))  BY DEF Inv, Held
    <2> QED  BY <2>1, TypedGrows, Lengths DEF Grown
  <1>2. DOMAIN session' = Threads  BY DEF Inv, Held
  <1> QED  BY <1>1, <1>2 DEF Held, Inv

\* A request that only begins, or goes on to its next statement.
LEMMA GoTypes ==
    ASSUME Inv, NEW s \in Threads, NEW j, Go(s, j), UNCHANGED <<Tables, today>>,
           Typed(j, Len(play), Len(request))
    PROVE  Inv'
  <1>1. Tabled'
    <2>1. Tabled  BY DEF Inv
    <2> QED  BY <2>1 DEF Tabled, Tables
  <1>2. play' = play /\ request' = request  BY DEF Tables
  <1>3. Grown  BY <1>2, TablesAre DEF Grown, Inv
  <1>4. Typed(j, Len(play'), Len(request'))  BY <1>2
  <1>5. session' = [session EXCEPT ![s] = j]  BY DEF Go
  <1> QED  BY <1>1, <1>3, <1>4, <1>5, Moved

\* A row at the end of the table, with its ticket and its receipts.
LEMMA AddTypes ==
    ASSUME Inv, NEW p, NEW t \in Ticket, NEW b \in Counts, NEW q \in Receipts,
           Good(p, Len(request)),
           play' = Append(play, p), ticket' = Append(ticket, t),
           typed' = Append(typed, b), receipt' = Append(receipt, q),
           request' \in Seq(Application), Len(request') = Len(request),
           number' \in SUBSET Customers, UNCHANGED today
    PROVE  Tabled' /\ Len(play') = Len(play) + 1 /\ Len(play') \in Nat
  <1>1. Len(play) \in Nat /\ p \in Play  BY TablesAre DEF Inv, Good
  <1>2. /\ play \in Seq(Play) /\ ticket \in Seq(Ticket) /\ receipt \in Seq(Receipts)
        /\ typed \in Seq(Counts) /\ today \in Nat
        /\ Len(ticket) = Len(play) /\ Len(receipt) = Len(play) /\ Len(typed) = Len(play)
    BY DEF Inv, Tabled
  <1>3. play' \in Seq(Play) /\ Len(play') = Len(play) + 1  BY <1>1, <1>2, SeqAdd
  <1>4. ticket' \in Seq(Ticket) /\ Len(ticket') = Len(play) + 1  BY <1>2, SeqAdd
  <1>5. receipt' \in Seq(Receipts) /\ Len(receipt') = Len(play) + 1  BY <1>2, SeqAdd
  <1>6. typed' \in Seq(Counts) /\ Len(typed') = Len(play) + 1  BY <1>2, SeqAdd
  <1>7. ASSUME NEW i \in 1 .. Len(play') PROVE Good(play'[i], Len(request'))
    <2>1. CASE i = Len(play) + 1
      <3>1. play'[i] = p  BY <1>1, <1>2, <2>1, SeqAdd
      <3> QED  BY <3>1
    <2>2. CASE i # Len(play) + 1
      <3>1. i \in 1 .. Len(play)  BY <1>1, <1>3, <2>2
      <3>2. play'[i] = play[i]  BY <1>1, <1>2, <3>1, SeqAdd
      <3> QED  BY <3>1, <3>2 DEF Inv, Tabled
    <2> QED  BY <2>1, <2>2
  <1>8. Tabled'  BY <1>2, <1>3, <1>4, <1>5, <1>6, <1>7 DEF Tabled
  <1> QED  BY <1>1, <1>3, <1>8

LEMMA AddedTypes ==
    ASSUME Inv, NEW p, NEW t \in Ticket, NEW paid \in Nat, Good(p, Len(request)),
           Added(p, t, paid), request' \in Seq(Application), Len(request') = Len(request),
           number' \in SUBSET Customers, UNCHANGED today
    PROVE  Tabled' /\ Len(play') = Len(play) + 1 /\ Len(play') \in Nat
  <1> DEFINE b == [due |-> Due(p), n |-> p.n]
             q == [paid |-> paid, loads |-> 0, boxes |-> 0]
  <1>1. q \in Receipts  BY DEF Receipts
  <1>2. b \in Counts
    <2>1. p.due \in Nat /\ p.end \in Nat /\ p.n \in 0 .. Months  BY Parameters DEF Good, Play
    <2> QED  BY <2>1 DEF Counts, Due
  <1>3. /\ play' = Append(play, p) /\ ticket' = Append(ticket, t)
        /\ typed' = Append(typed, b) /\ receipt' = Append(receipt, q)
    BY DEF Added
  <1> HIDE DEF b, q
  <1> QED  BY <1>1, <1>2, <1>3, AddTypes

\* One row written over.
LEMMA WriteTypes ==
    ASSUME Inv, NEW i \in 1 .. Len(play), NEW p, Good(p, Len(request)),
           play' = [play EXCEPT ![i] = p]
    PROVE  /\ play' \in Seq(Play) /\ Len(play') = Len(play)
           /\ \A k \in 1 .. Len(play) : /\ Good(play'[k], Len(request))
                                        /\ play'[k] = IF k = i THEN p ELSE play[k]
  <1>1. play \in Seq(Play) /\ p \in Play  BY DEF Inv, Tabled, Good
  <1>2. /\ play' \in Seq(Play) /\ Len(play') = Len(play)
        /\ \A k \in 1 .. Len(play) : play'[k] = IF k = i THEN p ELSE play[k]
    BY <1>1, SeqWrite
  <1> QED  BY <1>2 DEF Inv, Tabled

\* The status of a request.
LEMMA RequestTypes ==
    ASSUME Inv, NEW r \in 1 .. Len(request), NEW v \in {"Pending", "Resolved", "deleted"}
    PROVE  /\ [request EXCEPT ![r].st = v] \in Seq(Application)
           /\ Len([request EXCEPT ![r].st = v]) = Len(request)
  <1> DEFINE e == [request[r] EXCEPT !.st = v]
  <1>1. request[r] \in Application  BY TablesAre DEF Inv
  <1>2. e \in Application  BY <1>1 DEF Application
  <1>3. [request EXCEPT ![r].st = v] = [request EXCEPT ![r] = e]  OBVIOUS
  <1>4. request \in Seq(Application)  BY DEF Inv, Tabled
  <1> HIDE DEF e
  <1> QED  BY <1>2, <1>3, <1>4, SeqWrite

LEMMA ResolvedTypes ==
    ASSUME Inv, NEW r \in 0 .. Len(request)
    PROVE  Resolved(r) \in Seq(Application) /\ Len(Resolved(r)) = Len(request)
  <1>1. CASE r = 0  BY <1>1 DEF Resolved, Inv, Tabled
  <1>2. CASE r # 0
    <2>1. r \in 1 .. Len(request)  BY <1>2, TablesAre DEF Inv
    <2> QED  BY <1>2, <2>1, RequestTypes DEF Resolved
  <1> QED  BY <1>1, <1>2

LEMMA HeldIs ==
    ASSUME Inv, NEW s \in Threads
    PROVE  Typed(session[s], Len(play), Len(request))
  BY DEF Inv, Held

LEMMA ApplyTypes ==
    ASSUME Inv, NEW c \in Customers, Apply(c), UNCHANGED <<today, duty>>
    PROVE  Inv'
  <1> DEFINE e == [cust |-> c, st |-> "Pending"]
  <1>1. e \in Application  BY DEF Application
  <1>2. request \in Seq(Application) /\ Len(request) \in Nat /\ Len(play) \in Nat
    BY TablesAre DEF Inv, Tabled
  <1>3. request' = Append(request, e)  BY DEF Apply
  <1> HIDE DEF e
  <1>4. request' \in Seq(Application) /\ Len(request') = Len(request) + 1
    BY <1>1, <1>2, <1>3, SeqAdd
  <1>5. UNCHANGED <<play, ticket, receipt, typed, number, session, today>>  BY DEF Apply
  <1>6. Grown  BY <1>2, <1>4, <1>5 DEF Grown
  <1>7. ASSUME NEW i \in 1 .. Len(play) PROVE Good(play[i], Len(request'))
    <2>1. Good(play[i], Len(request))  BY DEF Inv, Tabled
    <2> QED  BY <1>2, <1>4, <2>1 DEF Good
  <1>8. Tabled'  BY <1>4, <1>5, <1>7 DEF Inv, Tabled
  <1> QED  BY <1>5, <1>6, <1>8, Stayed

LEMMA AnswerTypes ==
    ASSUME Inv, NEW s \in Threads, CommitWithdraw(s) \/ CommitResolve(s), UNCHANGED <<today, duty>>
    PROVE  Inv'
  <1>1. Typed(session[s], Len(play), Len(request))  BY HeldIs
  <1>2. session[s].h \in {"withdraw", "resolve"}  BY DEF CommitWithdraw, CommitResolve, Doing
  <1>3. session[s].req \in 1 .. Len(request)  BY <1>1, <1>2, TypedIs
  <1>4. Len(request) \in Nat /\ Len(play) \in Nat  BY TablesAre DEF Inv
  <1>5. request' \in Seq(Application) /\ Len(request') = Len(request)
    <2>1. CASE CommitWithdraw(s)
      <3>1. request' = [request EXCEPT ![session[s].req].st = "deleted"]
        BY <2>1 DEF CommitWithdraw
      <3> QED  BY <1>3, <3>1, RequestTypes
    <2>2. CASE CommitResolve(s)
      <3>1. request' = Resolved(session[s].req) /\ session[s].req \in 0 .. Len(request)
        BY <1>3, <2>2 DEF CommitResolve
      <3> QED  BY <3>1, ResolvedTypes
    <2> QED  BY <2>1, <2>2
  <1>6. UNCHANGED <<play, ticket, receipt, typed, number, today>>
        /\ session' = [session EXCEPT ![s] = Idle]
    BY DEF CommitWithdraw, CommitResolve, End
  <1>7. Grown  BY <1>4, <1>5, <1>6 DEF Grown
  <1>8. Tabled'  BY <1>5, <1>6 DEF Inv, Tabled
  <1> QED  BY <1>6, <1>7, <1>8, Ended

LEMMA ApplyingTypes ==
    ASSUME Inv, NEW s \in Threads, Applying(s), UNCHANGED <<today, duty>>
    PROVE  Inv'
  <1>1. ASSUME NEW r \in DOMAIN request, NEW staff \in BOOLEAN, OpenWithdraw(s, r, staff) PROVE Inv'
    <2>1. Go(s, [h |-> "withdraw", req |-> r]) /\ UNCHANGED <<Tables, today>>
      BY <1>1 DEF OpenWithdraw
    <2>2. Typed([h |-> "withdraw", req |-> r], Len(play), Len(request))
      BY TablesAre DEF Inv, Typed
    <2> QED  BY <2>1, <2>2, GoTypes
  <1>2. ASSUME NEW r \in DOMAIN request, OpenResolve(s, r) PROVE Inv'
    <2>1. Go(s, [h |-> "resolve", req |-> r]) /\ UNCHANGED <<Tables, today>>
      BY <1>2 DEF OpenResolve
    <2>2. Typed([h |-> "resolve", req |-> r], Len(play), Len(request))
      BY TablesAre DEF Inv, Typed
    <2> QED  BY <2>1, <2>2, GoTypes
  <1> QED  BY <1>1, <1>2, AnswerTypes DEF Applying

\* The row of an activation or an approval.
LEMMA GrantedIs ==
    ASSUME Inv, NEW c \in Customers, NEW r \in 0 .. Len(request), NEW o \in Offers, NEW date \in Nat,
           NEW n \in 0 .. Months, NEW paid \in Nat
    PROVE  LET p == Granted(c, r, o[1], n, o[2], date, paid)
           IN  /\ Good(p, Len(request))
               /\ p.cust = c /\ p.st = "live" /\ p.due = date /\ p.end = date /\ p.paid = paid
  <1>1. o \in Hardware \X {"149", "399"} \X Nat  BY CignalAssumption, Zenon
  <1>2. o[1] \in Hardware /\ o[2] \in {"149", "399"}  BY <1>1
  <1>3. PICK h \in Hardware, f \in {"149", "399"} : h = o[1] /\ f = o[2]  BY <1>2
  <1>4. Months \in Nat /\ n \in Nat /\ n <= Months /\ Len(request) \in Nat /\ r \in Nat
    BY Parameters, TablesAre DEF Inv
  <1> DEFINE p == Granted(c, r, h, n, f, date, paid)
  <1>5. p \in Play /\ p.n = n /\ p.from = r  BY <1>4 DEF Granted, Play
  <1>6. p.cust = c /\ p.st = "live" /\ p.due = date /\ p.end = date /\ p.paid = paid  BY DEF Granted
  <1>7. Good(p, Len(request))  BY <1>4, <1>5 DEF Good
  <1> HIDE DEF p
  <1>8. p = Granted(c, r, o[1], n, o[2], date, paid)  BY <1>3 DEF p
  <1> QED  BY <1>6, <1>7, <1>8

LEMMA PendingIs ==
    ASSUME Inv, NEW c
    PROVE  Pending(c) \in 0 .. Len(request)
  <1> DEFINE S == {r \in DOMAIN request : request[r].cust = c /\ request[r].st = "Pending"}
  <1>1. Len(request) \in Nat /\ S \subseteq 1 .. Len(request)  BY TablesAre DEF Inv
  <1>2. Pending(c) = Newest(S)  BY DEF Pending
  <1> HIDE DEF S
  <1>3. Newest(S) \in {0} \cup S  BY <1>1, NewestIn
  <1>4. {0} \cup S \subseteq 0 .. Len(request)  BY <1>1
  <1> QED  BY <1>2, <1>3, <1>4

LEMMA ActivatingTypes ==
    ASSUME Inv, NEW s \in Threads, Activating(s), UNCHANGED <<today, duty>>
    PROVE  Inv'
  <1>0. Len(request) \in Nat /\ Len(play) \in Nat /\ today \in Nat  BY TablesAre DEF Inv, Tabled
  <1>1. ASSUME NEW c \in Customers, NEW r \in {0} \cup DOMAIN request, NEW o \in Offers,
               NEW wait \in {0, LoadDays}, OpenActivate(s, c, r, o[1], o[2], today + wait, o[3])
        PROVE  Inv'
    <2>1. PICK q : q = IF r # 0 THEN r ELSE Pending(c)  OBVIOUS
    <2>2. q \in 0 .. Len(request)  BY <2>1, PendingIs, TablesAre DEF Inv
    <2>3. PICK d \in Nat : d = today + wait  BY <1>0, Parameters
    <2>4. PICK k \in 0 .. Months : k = Counted(o[1])  BY Parameters DEF Counted
    <2>5. PICK a \in Nat : a = o[3]
      <3>1. o \in Hardware \X {"149", "399"} \X Nat  BY CignalAssumption, Zenon
      <3> QED  BY <3>1
    <2> DEFINE w == Granted(c, q, o[1], k, o[2], d, a)
               j == [h |-> "activate", req |-> q, row |-> w]
    <2>6. Good(w, Len(request))  BY <2>2, GrantedIs
    <2>7. Go(s, j) /\ UNCHANGED <<Tables, today>>
      BY <1>1, <2>1, <2>3, <2>4, <2>5, Zenon DEF OpenActivate
    <2> HIDE DEF w
    <2>8. Typed(j, Len(play), Len(request))  BY <2>2, <2>6 DEF Typed
    <2> QED  BY <2>7, <2>8, GoTypes
  <1>2. ASSUME NEW r \in DOMAIN request, NEW o \in Offers,
               OpenApprove(s, r, o[1], o[2], today + LoadDays)
        PROVE  Inv'
    <2>1. r \in 0 .. Len(request) /\ request[r].cust \in Customers
      BY TablesAre DEF Inv, Application
    <2>2. PICK d \in Nat : d = today + LoadDays  BY <1>0, Parameters
    <2>3. PICK c \in Customers : c = request[r].cust  BY <2>1
    <2> DEFINE w == Granted(c, r, o[1], 0, o[2], d, 0)
               j == [h |-> "approve", req |-> r, row |-> w]
    <2>4. 0 \in 0 .. Months  BY Parameters
    <2>5. Good(w, Len(request))  BY <2>1, <2>4, GrantedIs
    <2>6. Go(s, j) /\ UNCHANGED <<Tables, today>>
      BY <1>2, <2>2, <2>3, Zenon DEF OpenApprove
    <2> HIDE DEF w
    <2>7. Typed(j, Len(play), Len(request))  BY <2>1, <2>5 DEF Typed
    <2> QED  BY <2>6, <2>7, GoTypes
  <1>3. ASSUME CommitActivate(s) \/ CommitApprove(s) PROVE Inv'
    <2>1. Typed(session[s], Len(play), Len(request))  BY HeldIs
    <2>2. session[s].h \in {"activate", "approve"}
      BY <1>3 DEF CommitActivate, CommitApprove, Doing
    <2>3. PICK w : w = session[s].row  OBVIOUS
    <2>4. session[s].req \in 0 .. Len(request) /\ Good(w, Len(request))
      BY <2>1, <2>2, <2>3, TypedIs
    <2>5. w.cust \in Customers /\ w.paid \in Nat  BY <2>4 DEF Good, Play
    <2>6. request' = Resolved(session[s].req) /\ session' = [session EXCEPT ![s] = Idle]
      BY <1>3 DEF CommitActivate, CommitApprove, End
    <2>7. request' \in Seq(Application) /\ Len(request') = Len(request)
      BY <2>4, <2>6, ResolvedTypes
    <2>8. PICK t \in Ticket, a \in Nat : Added(w, t, a)
      <3>1. CASE CommitActivate(s)
        <4>1. Added(w, [st |-> "PENDING", begun |-> FALSE], w.paid)
          BY <2>3, <3>1 DEF CommitActivate
        <4>2. [st |-> "PENDING", begun |-> FALSE] \in Ticket  BY DEF Ticket
        <4> QED  BY <2>5, <4>1, <4>2
      <3>2. CASE CommitApprove(s)
        <4>1. Added(w, Unticketed, 0)  BY <2>3, <3>2 DEF CommitApprove
        <4>2. Unticketed \in Ticket  BY DEF Ticket, Unticketed
        <4> QED  BY <4>1, <4>2
      <3> QED  BY <1>3, <3>1, <3>2
    <2>9. number' \in SUBSET Customers
      BY <1>3, <2>3, <2>5 DEF CommitActivate, CommitApprove, Inv, Tabled
    <2>10. Tabled' /\ Len(play') = Len(play) + 1 /\ Len(play') \in Nat
      BY <2>4, <2>7, <2>8, <2>9, AddedTypes
    <2>11. Grown  BY <1>0, <2>7, <2>10 DEF Grown
    <2> QED  BY <2>6, <2>10, <2>11, Ended
  <1> QED  BY <1>1, <1>2, <1>3 DEF Activating

\* The receipts and the typed dates a payment leaves.
LEMMA ReceiptedIs ==
    ASSUME NEW j, NEW r \in Receipts, j.amount \in Nat
    PROVE  /\ Receipted(j, r) \in Receipts
           /\ Receipted(j, r).paid = r.paid + j.amount
           /\ j.kind = "box" => Receipted(j, r).loads = r.loads
           /\ j.kind # "box" /\ j.date = NoDate => Receipted(j, r).loads = r.loads + 1
           /\ j.kind # "box" /\ j.date # NoDate => Receipted(j, r).loads = 0
  <1> DEFINE l == CASE j.kind = "box"                   -> r.loads
                    [] j.kind # "box" /\ j.date = NoDate -> r.loads + 1
                    [] OTHER                             -> 0
             b == IF BuysBox(j.row, j.kind, j.amount) /\ Ongoing(j.row) THEN r.boxes + 1 ELSE r.boxes
  <1>1. r.paid \in Nat /\ r.loads \in Nat /\ r.boxes \in Nat  BY DEF Receipts
  <1>2. /\ l \in Nat
        /\ j.kind = "box" => l = r.loads
        /\ j.kind # "box" /\ j.date = NoDate => l = r.loads + 1
        /\ j.kind # "box" /\ j.date # NoDate => l = 0
    BY <1>1
  <1>3. b \in Nat  BY <1>1
  <1>4. Receipted(j, r) = [paid |-> r.paid + j.amount, loads |-> l, boxes |-> b]  BY DEF Receipted
  <1>5. r.paid + j.amount \in Nat  BY <1>1
  <1> HIDE DEF l, b
  <1> QED  BY <1>2, <1>3, <1>4, <1>5 DEF Receipts

LEMMA TypedByIs ==
    ASSUME NEW j, NEW b \in Counts, j.date \in Nat
    PROVE  /\ TypedBy(j, b) \in Counts
           /\ TypedBy(j, b).due = IF j.date = NoDate \/ j.kind = "box" THEN b.due ELSE j.date
  <1>1. [b EXCEPT !.due = j.date] \in Counts /\ [b EXCEPT !.due = j.date].due = j.date
    BY DEF Counts
  <1> QED  BY <1>1 DEF TypedBy

\* The row a payment writes.
PaidRow(j) == Paid(Boxed(Loaded(j.row, j.kind, j.date), j.kind, j.amount), j.amount)

LEMMA PaidRowIs ==
    ASSUME NEW j, NEW r \in Nat, Good(j.row, r), j.amount \in Nat, j.date \in Nat, today \in Nat
    PROVE  /\ Good(PaidRow(j), r)
           /\ PaidRow(j).cust = j.row.cust /\ PaidRow(j).st = j.row.st
           /\ PaidRow(j).paid = j.row.paid + j.amount
           /\ j.kind = "box" => PaidRow(j).due = j.row.due /\ PaidRow(j).end = j.row.end
           /\ j.kind # "box" /\ j.date # NoDate => PaidRow(j).due = j.date
           /\ j.kind # "box" /\ j.date = NoDate =>
                 PaidRow(j).due # NoDate /\ PaidRow(j).due >= Due(j.row) + LoadDays
  <1>1. PICK p \in Play : p = j.row /\ p.n <= Months /\ p.from \in 0 .. r  BY DEF Good
  <1>2. PICK l : l = Loaded(p, j.kind, j.date)  OBVIOUS
  <1>3. /\ l \in Play
        /\ l.cust = p.cust /\ l.st = p.st /\ l.n = p.n /\ l.paid = p.paid /\ l.from = p.from
        /\ j.kind = "box" => l = p
        /\ j.kind # "box" /\ j.date # NoDate => l.due = j.date
        /\ j.kind # "box" /\ j.date = NoDate => l.due # NoDate /\ l.due >= Due(p) + LoadDays
    BY <1>2, LoadedIs
  <1>4. PICK b : b = Boxed(l, j.kind, j.amount)  OBVIOUS
  <1>5. /\ b \in Play /\ b.n <= Months
        /\ b.cust = l.cust /\ b.st = l.st /\ b.paid = l.paid /\ b.from = l.from
        /\ b.due = l.due /\ b.end = l.end
    BY <1>1, <1>3, <1>4, BoxedIs
  <1>6. PICK q : q = Paid(b, j.amount)  OBVIOUS
  <1>7. /\ q \in Play /\ q.paid = b.paid + j.amount
        /\ q.cust = b.cust /\ q.st = b.st /\ q.n = b.n /\ q.from = b.from
        /\ q.due = b.due /\ q.end = b.end
    BY <1>5, <1>6, PaidIs
  <1>8. q = PaidRow(j)  BY <1>1, <1>2, <1>4, <1>6 DEF PaidRow
  <1>9. Good(q, r)  BY <1>1, <1>3, <1>5, <1>7 DEF Good
  <1> QED  BY <1>1, <1>3, <1>5, <1>7, <1>8, <1>9

\* What a payment writes, with the row it read or without one.
LEMMA CommitPayIs ==
    ASSUME Inv, NEW s \in Threads, CommitPay(s)
    PROVE  LET j == session[s]
           IN  /\ j.id \in 0 .. Len(play) /\ Good(j.row, Len(request))
               /\ j.amount \in Nat /\ j.date \in Nat /\ Good(PaidRow(j), Len(request))
               /\ j.id = 0 => /\ play' = Append(play, PaidRow(j))
                              /\ ticket' = Append(ticket, Unticketed)
                              /\ typed' = Append(typed, TypedBy(j, [due |-> NoDate, n |-> 0]))
                              /\ receipt' = Append(receipt, Receipted(j, NoReceipts))
               /\ j.id # 0 => /\ j.id \in 1 .. Len(play)
                              /\ play' = [play EXCEPT ![j.id] = PaidRow(j)]
                              /\ typed' = [typed EXCEPT ![j.id] = TypedBy(j, typed[j.id])]
                              /\ receipt' = [receipt EXCEPT ![j.id] = Receipted(j, receipt[j.id])]
                              /\ UNCHANGED ticket
               /\ session' = [session EXCEPT ![s] = Idle] /\ UNCHANGED <<request, number>>
  <1>1. PICK j : j = session[s]  OBVIOUS
  <1>2. Typed(j, Len(play), Len(request))  BY <1>1, HeldIs
  <1>3. j.h = "pay"  BY <1>1 DEF CommitPay, Doing
  <1>4. Len(play) \in Nat /\ Len(request) \in Nat /\ today \in Nat  BY TablesAre DEF Inv, Tabled
  <1>5. /\ j.id \in 0 .. Len(play) /\ Good(j.row, Len(request)) /\ j.amount \in Nat /\ j.date \in Nat
    BY <1>2, <1>3, TypedIs
  <1>6. Good(PaidRow(j), Len(request))  BY <1>4, <1>5, PaidRowIs
  <1>7. /\ j.id = 0 => /\ play' = Append(play, PaidRow(j))
                       /\ ticket' = Append(ticket, Unticketed)
                       /\ typed' = Append(typed, TypedBy(j, [due |-> NoDate, n |-> 0]))
                       /\ receipt' = Append(receipt, Receipted(j, NoReceipts))
        /\ j.id # 0 => /\ play' = [play EXCEPT ![j.id] = PaidRow(j)]
                       /\ typed' = [typed EXCEPT ![j.id] = TypedBy(j, typed[j.id])]
                       /\ receipt' = [receipt EXCEPT ![j.id] = Receipted(j, receipt[j.id])]
                       /\ UNCHANGED ticket
        /\ session' = [session EXCEPT ![s] = Idle] /\ UNCHANGED <<request, number>>
    BY <1>1 DEF CommitPay, End, PaidRow
  <1>8. j.id # 0 => j.id \in 1 .. Len(play)  BY <1>4, <1>5
  <1> QED  BY <1>1, <1>5, <1>6, <1>7, <1>8

LEMMA PayingTypes ==
    ASSUME Inv, NEW s \in Threads, Paying(s), UNCHANGED <<today, duty>>
    PROVE  Inv'
  <1>0. Len(request) \in Nat /\ Len(play) \in Nat /\ today \in Nat /\ number \in SUBSET Customers
    BY TablesAre DEF Inv, Tabled
  <1>1. ASSUME NEW c \in Customers, NEW i \in {0} \cup DOMAIN play, NEW o \in Payments,
               NEW date \in {NoDate, today}, OpenPay(s, c, i, o[1], o[2], date)
        PROVE  Inv'
    <2>1. PICK a \in Nat : a = o[2]
      <3>1. Payments \subseteq {"load", "box", "both", "cashout", ""} \X Nat
        BY CignalAssumption, Zenon
      <3>2. o \in {"load", "box", "both", "cashout", ""} \X Nat  BY <3>1
      <3> QED  BY <3>2
    <2>2. PICK k : k = o[1]  OBVIOUS
    <2>3. date \in Nat  BY <1>0 DEF NoDate
    <2>4. i \in 0 .. Len(play)  BY <1>0, TablesAre DEF Inv
    <2>5. PICK no \in BOOLEAN : no = (c \in number)
      <3>1. (c \in number) \in BOOLEAN  OBVIOUS
      <3> QED  BY <3>1, Zenon
    <2>6. PICK p : p = IF i = 0 THEN NewPlay(c, no) ELSE play[i]  OBVIOUS
    <2>7. Good(p, Len(request))
      <3>1. CASE i = 0  BY <1>0, <2>6, <3>1, NewIs
      <3>2. CASE i # 0
        <4>1. i \in 1 .. Len(play)  BY <3>2, TablesAre DEF Inv
        <4> QED  BY <2>6, <3>2, <4>1 DEF Inv, Tabled
      <3> QED  BY <3>1, <3>2
    <2> DEFINE j == [h |-> "pay", id |-> i, row |-> p, kind |-> k, amount |-> a, date |-> date]
    <2>8. Go(s, j) /\ UNCHANGED <<Tables, today>>
      BY <1>1, <2>1, <2>2, <2>5, <2>6, Zenon DEF OpenPay
    <2>9. Typed(j, Len(play), Len(request))  BY <2>3, <2>4, <2>7 DEF Typed
    <2> HIDE DEF j
    <2> QED  BY <2>8, <2>9, GoTypes
  <1>2. ASSUME CommitPay(s) PROVE Inv'
    <2>1. PICK j : j = session[s]  OBVIOUS
    <2>2. /\ j.id \in 0 .. Len(play) /\ j.amount \in Nat /\ j.date \in Nat
          /\ Good(PaidRow(j), Len(request))
          /\ session' = [session EXCEPT ![s] = Idle] /\ UNCHANGED <<request, number>>
      BY <1>2, <2>1, CommitPayIs
    <2>3. request' \in Seq(Application) /\ number' \in SUBSET Customers /\ today' \in Nat
      BY <2>2 DEF Inv, Tabled
    <2>4. CASE j.id = 0
      <3> DEFINE b == [due |-> NoDate, n |-> 0]
      <3>1. /\ play' = Append(play, PaidRow(j)) /\ ticket' = Append(ticket, Unticketed)
            /\ typed' = Append(typed, TypedBy(j, b))
            /\ receipt' = Append(receipt, Receipted(j, NoReceipts))
        BY <1>2, <2>1, <2>4, CommitPayIs
      <3>2. b \in Counts  BY Parameters DEF Counts, NoDate
      <3>3. NoReceipts \in Receipts /\ Unticketed \in Ticket
        BY DEF NoReceipts, Receipts, Unticketed, Ticket
      <3> HIDE DEF b
      <3>4. TypedBy(j, b) \in Counts /\ Receipted(j, NoReceipts) \in Receipts
        BY <2>2, <3>2, <3>3, TypedByIs, ReceiptedIs
      <3>5. Tabled' /\ Len(play') = Len(play) + 1
        BY <2>2, <2>3, <3>1, <3>3, <3>4, AddTypes
      <3>6. Grown  BY <1>0, <2>2, <3>5 DEF Grown
      <3> QED  BY <2>2, <3>5, <3>6, Ended
    <2>5. CASE j.id # 0
      <3>1. /\ j.id \in 1 .. Len(play)
            /\ play' = [play EXCEPT ![j.id] = PaidRow(j)]
            /\ typed' = [typed EXCEPT ![j.id] = TypedBy(j, typed[j.id])]
            /\ receipt' = [receipt EXCEPT ![j.id] = Receipted(j, receipt[j.id])]
            /\ UNCHANGED ticket
        BY <1>2, <2>1, <2>5, CommitPayIs
      <3>2. typed[j.id] \in Counts /\ receipt[j.id] \in Receipts  BY <3>1, TablesAre DEF Inv
      <3>3. TypedBy(j, typed[j.id]) \in Counts /\ Receipted(j, receipt[j.id]) \in Receipts
        BY <2>2, <3>2, TypedByIs, ReceiptedIs
      <3>4. /\ play' \in Seq(Play) /\ Len(play') = Len(play)
            /\ \A k \in 1 .. Len(play) : Good(play'[k], Len(request))
        BY <2>2, <3>1, WriteTypes
      <3>5. typed \in Seq(Counts) /\ Len(typed) = Len(play) /\ receipt \in Seq(Receipts)
            /\ Len(receipt) = Len(play) /\ ticket \in Seq(Ticket) /\ Len(ticket) = Len(play)
        BY DEF Inv, Tabled
      <3>6. typed' \in Seq(Counts) /\ Len(typed') = Len(play)
        BY <3>1, <3>3, <3>5, SeqWrite
      <3>7. receipt' \in Seq(Receipts) /\ Len(receipt') = Len(play)
        BY <3>1, <3>3, <3>5, SeqWrite
      <3>8. Tabled'  BY <2>2, <2>3, <3>1, <3>4, <3>5, <3>6, <3>7 DEF Tabled
      <3>9. Grown  BY <1>0, <2>2, <3>4 DEF Grown
      <3> QED  BY <2>2, <3>8, <3>9, Ended
    <2> QED  BY <2>4, <2>5
  <1> QED  BY <1>1, <1>2 DEF Paying

\* The row that staff typed over.
LEMMA OpenEditIs ==
    ASSUME Inv, NEW s \in Threads, NEW i \in 1 .. Len(play), NEW e \in Corrections,
           OpenEdit(s, i, e[1], e[2], e[3], e[4])
    PROVE  \E q : /\ Good(q, Len(request))
                  /\ q.cust = play[i].cust /\ q.st = play[i].st /\ q.paid = play[i].paid
                  /\ e[3] = Kept => q.due = play[i].due /\ q.end = play[i].end
                  /\ e[3] # Kept => q.due = e[3] /\ q.end = e[3]
                  /\ Go(s, [h |-> "edit", id |-> i, no |-> e[4], dated |-> e[3] # Kept, row |-> q])
  <1>1. Corrections \subseteq Hardware \X (0 .. Months \cup {Kept}) \X (Nat \cup {Kept}) \X BOOLEAN
    BY CignalAssumption, Zenon
  <1>2. e \in Hardware \X (0 .. Months \cup {Kept}) \X (Nat \cup {Kept}) \X BOOLEAN  BY <1>1
  <1>3. PICK hw \in Hardware, a \in 0 .. Months \cup {Kept}, date \in Nat \cup {Kept}, no \in BOOLEAN :
            hw = e[1] /\ a = e[2] /\ date = e[3] /\ no = e[4]
    BY <1>2, Zenon
  <1>4. PICK p : p = play[i]  OBVIOUS
  <1>5. Good(p, Len(request)) /\ p \in Play /\ Len(request) \in Nat
    BY <1>4, TablesAre DEF Inv, Tabled
  <1>6. p.n \in Nat /\ p.n <= Months /\ p.due \in Nat /\ p.end \in Nat /\ Months \in Nat
    BY <1>5, Parameters DEF Good, Play
  <1>7. PICK n : n = IF a # Kept THEN a ELSE IF hw = "cashout" THEN Months ELSE p.n  OBVIOUS
  <1>8. PICK d : d = IF date = Kept THEN p.due ELSE date  OBVIOUS
  <1>9. PICK f : f = IF date = Kept THEN p.end ELSE date  OBVIOUS
  <1>10. n \in Nat /\ n <= Months  BY <1>6, <1>7
  <1>11. d \in Nat /\ f \in Nat  BY <1>6, <1>8, <1>9
  <1> DEFINE q == [p EXCEPT !.hw = hw, !.no = no, !.n = n, !.due = d, !.end = f]
  <1>12. /\ q \in Play /\ q.n = n /\ q.due = d /\ q.end = f
         /\ q.cust = p.cust /\ q.st = p.st /\ q.paid = p.paid /\ q.from = p.from
    BY <1>3, <1>5, <1>10, <1>11 DEF Play
  <1>13. Go(s, [h |-> "edit", id |-> i, no |-> no, dated |-> date # Kept, row |-> q])
    BY <1>3, <1>4, <1>7, <1>8, <1>9, Zenon DEF OpenEdit
  <1> HIDE DEF q
  <1>14. Good(q, Len(request))  BY <1>5, <1>10, <1>12 DEF Good
  <1> QED  BY <1>3, <1>4, <1>8, <1>9, <1>12, <1>13, <1>14

\* What a correction writes.
LEMMA CommitEditIs ==
    ASSUME Inv, NEW s \in Threads, CommitEdit(s)
    PROVE  LET j == session[s]
           IN  \E b, q :
                  /\ j.h = "edit" /\ j.id \in 1 .. Len(play) /\ Good(j.row, Len(request)) /\ ~Locked(j.id)
                  /\ b \in Counts /\ b.due = IF j.dated THEN j.row.due ELSE typed[j.id].due
                  /\ q \in Receipts /\ q.paid = receipt[j.id].paid
                  /\ q.loads = IF j.dated THEN 0 ELSE receipt[j.id].loads
                  /\ play' = [play EXCEPT ![j.id] = j.row]
                  /\ typed' = [typed EXCEPT ![j.id] = b]
                  /\ receipt' = [receipt EXCEPT ![j.id] = q]
                  /\ session' = [session EXCEPT ![s] = Idle] /\ UNCHANGED <<request, ticket>>
                  /\ number' \in SUBSET Customers
  <1>1. PICK j : j = session[s]  OBVIOUS
  <1>2. Typed(j, Len(play), Len(request))  BY <1>1, HeldIs
  <1>3. j.h = "edit" /\ ~Locked(j.id)  BY <1>1 DEF CommitEdit, Doing
  <1>4. j.id \in 1 .. Len(play) /\ Good(j.row, Len(request))  BY <1>2, <1>3, TypedIs
  <1>5. typed[j.id] \in Counts /\ receipt[j.id] \in Receipts  BY <1>4, TablesAre DEF Inv
  <1>6. PICK d : d = IF j.dated THEN j.row.due ELSE typed[j.id].due  OBVIOUS
  <1>7. PICK l : l = IF j.dated THEN 0 ELSE receipt[j.id].loads  OBVIOUS
  <1>8. j.row.n \in 0 .. Months /\ j.row.due \in Nat /\ j.row.cust \in Customers
    BY <1>4, Parameters DEF Good, Play
  <1>9. d \in Nat /\ l \in Nat /\ receipt[j.id].paid \in Nat
    BY <1>5, <1>6, <1>7, <1>8 DEF Counts, Receipts
  <1> DEFINE b == [n |-> j.row.n, due |-> d]
             q == [paid |-> receipt[j.id].paid, boxes |-> 0, loads |-> l]
  <1>10. b \in Counts /\ b.due = d  BY <1>8, <1>9 DEF Counts
  <1>11. q \in Receipts /\ q.paid = receipt[j.id].paid /\ q.loads = l  BY <1>9 DEF Receipts
  <1>12. /\ play' = [play EXCEPT ![j.id] = j.row]
         /\ typed' = [typed EXCEPT ![j.id] = b]
         /\ receipt' = [receipt EXCEPT ![j.id] = q]
    BY <1>1, <1>6, <1>7 DEF CommitEdit
  <1>13. /\ session' = [session EXCEPT ![s] = Idle] /\ UNCHANGED <<request, ticket>>
         /\ number' = IF j.no THEN number \cup {j.row.cust} ELSE number
    BY <1>1 DEF CommitEdit, End
  <1>14. number' \in SUBSET Customers  BY <1>8, <1>13 DEF Inv, Tabled
  <1> HIDE DEF b, q
  <1> QED  BY <1>1, <1>3, <1>4, <1>6, <1>7, <1>10, <1>11, <1>12, <1>13, <1>14

\* One row of play, its typed dates and its receipts written, the rest as it was.
LEMMA RowTypes ==
    ASSUME Inv, NEW i \in 1 .. Len(play), NEW p, Good(p, Len(request)),
           play' = [play EXCEPT ![i] = p],
           typed' \in Seq(Counts), Len(typed') = Len(play),
           receipt' \in Seq(Receipts), Len(receipt') = Len(play),
           number' \in SUBSET Customers, UNCHANGED <<request, ticket, today>>
    PROVE  Tabled' /\ Grown
  <1>1. play' \in Seq(Play) /\ Len(play') = Len(play)
        /\ \A k \in 1 .. Len(play) : Good(play'[k], Len(request))
    BY WriteTypes
  <1>2. ticket \in Seq(Ticket) /\ Len(ticket) = Len(play) /\ request \in Seq(Application) /\ today \in Nat
    BY DEF Inv, Tabled
  <1>3. Tabled'  BY <1>1, <1>2 DEF Tabled
  <1>4. Len(play) \in Nat /\ Len(request) \in Nat  BY TablesAre DEF Inv
  <1> QED  BY <1>1, <1>3, <1>4 DEF Grown

LEMMA CommitEditTypes ==
    ASSUME Inv, NEW s \in Threads, CommitEdit(s), UNCHANGED <<today, duty>>
    PROVE  Inv'
  <1>1. PICK j : j = session[s]  OBVIOUS
  <1>2. PICK b, q :
             /\ j.id \in 1 .. Len(play) /\ Good(j.row, Len(request))
             /\ b \in Counts /\ q \in Receipts
             /\ play' = [play EXCEPT ![j.id] = j.row]
             /\ typed' = [typed EXCEPT ![j.id] = b]
             /\ receipt' = [receipt EXCEPT ![j.id] = q]
             /\ session' = [session EXCEPT ![s] = Idle] /\ UNCHANGED <<request, ticket>>
             /\ number' \in SUBSET Customers
    BY <1>1, CommitEditIs
  <1>3. typed \in Seq(Counts) /\ Len(typed) = Len(play)
        /\ receipt \in Seq(Receipts) /\ Len(receipt) = Len(play)
    BY DEF Inv, Tabled
  <1>4. typed' \in Seq(Counts) /\ Len(typed') = Len(play)  BY <1>2, <1>3, SeqWrite
  <1>5. receipt' \in Seq(Receipts) /\ Len(receipt') = Len(play)  BY <1>2, <1>3, SeqWrite
  <1>6. Tabled' /\ Grown  BY <1>2, <1>4, <1>5, RowTypes
  <1> QED  BY <1>2, <1>6, Ended

\* The status of a row.
LEMMA StatusIs ==
    ASSUME Inv, NEW i \in 1 .. Len(play), NEW v \in {"live", "cancelled", "gone"}
    PROVE  /\ [play EXCEPT ![i].st = v] = [play EXCEPT ![i] = [play[i] EXCEPT !.st = v]]
           /\ Good([play[i] EXCEPT !.st = v], Len(request))
           /\ [play[i] EXCEPT !.st = v].st = v
           /\ [play[i] EXCEPT !.st = v].cust = play[i].cust
           /\ [play[i] EXCEPT !.st = v].paid = play[i].paid
           /\ [play[i] EXCEPT !.st = v].due = play[i].due
           /\ [play[i] EXCEPT !.st = v].end = play[i].end
  <1>1. PICK p : p = play[i]  OBVIOUS
  <1>2. p \in Play /\ Good(p, Len(request))  BY <1>1, TablesAre DEF Inv, Tabled
  <1>3. /\ [p EXCEPT !.st = v] \in Play
        /\ LET q == [p EXCEPT !.st = v]
           IN  /\ q.st = v /\ q.cust = p.cust /\ q.paid = p.paid /\ q.due = p.due /\ q.end = p.end
               /\ q.n = p.n /\ q.from = p.from
    BY <1>2 DEF Play
  <1>4. Good([p EXCEPT !.st = v], Len(request))  BY <1>2, <1>3 DEF Good
  <1>5. [play EXCEPT ![i].st = v] = [play EXCEPT ![i] = [play[i] EXCEPT !.st = v]]  OBVIOUS
  <1> QED  BY <1>1, <1>3, <1>4, <1>5

\* The flag of a row and the legacy numbers.
LEMMA FlagTypes ==
    ASSUME Inv, NEW i \in 1 .. Len(play), NEW v \in {"live", "cancelled", "gone"},
           play' = [play EXCEPT ![i].st = v], number' \in SUBSET Customers,
           UNCHANGED <<request, ticket, receipt, typed, today>>
    PROVE  Tabled' /\ Grown
  <1>1. PICK p : p = [play[i] EXCEPT !.st = v]  OBVIOUS
  <1>2. play' = [play EXCEPT ![i] = p] /\ Good(p, Len(request))  BY <1>1, StatusIs
  <1>3. typed' \in Seq(Counts) /\ Len(typed') = Len(play)
        /\ receipt' \in Seq(Receipts) /\ Len(receipt') = Len(play)
    BY DEF Inv, Tabled
  <1> QED  BY <1>2, <1>3, RowTypes

LEMMA PulledOutIs ==
    ASSUME NEW t \in Ticket
    PROVE  /\ PulledOut(t) \in Ticket /\ PulledOut(t).begun = t.begun
           /\ PulledOut(t).st \notin {"PENDING", "ASSIGNED"}
           /\ PulledOut(t).st = "IN_PROGRESS" => t.st = "IN_PROGRESS"
  <1>1. [t EXCEPT !.st = "CANCELLED"] \in Ticket /\ [t EXCEPT !.st = "CANCELLED"].st = "CANCELLED"
        /\ [t EXCEPT !.st = "CANCELLED"].begun = t.begun
    BY DEF Ticket
  <1> QED  BY <1>1 DEF PulledOut

LEMMA OpenCancelTypes ==
    ASSUME Inv, NEW s \in Threads, NEW i \in 1 .. Len(play), OpenCancel(s, i), UNCHANGED <<today, duty>>
    PROVE  Inv'
  <1> DEFINE f(k) == IF play[k].cust = play[i].cust THEN PulledOut(ticket[k]) ELSE ticket[k]
  <1>1. ticket' = [k \in 1 .. Len(play) |-> f(k)]
    BY TablesAre DEF OpenCancel, Inv
  <1>2. \A k \in 1 .. Len(play) : f(k) \in Ticket  BY TablesAre, PulledOutIs DEF Inv
  <1>3. Len(play) \in Nat /\ Len(request) \in Nat  BY TablesAre DEF Inv
  <1> HIDE DEF f
  <1>4. ticket' \in Seq(Ticket) /\ Len(ticket') = Len(play)
    <2>1. ticket' \in [1 .. Len(play) -> Ticket]  BY <1>1, <1>2
    <2>2. ticket' \in Seq(Ticket)  BY <1>3, <2>1, SeqDef
    <2>3. DOMAIN ticket' = 1 .. Len(ticket') /\ Len(ticket') \in Nat  BY <2>2, LenProperties
    <2>4. DOMAIN ticket' = 1 .. Len(play)  BY <2>1
    <2> QED  BY <1>3, <2>2, <2>3, <2>4
  <1>5. UNCHANGED <<play, request, receipt, typed, number>>
        /\ session' = [session EXCEPT ![s] = [h |-> "cancel", id |-> i]]
    BY DEF OpenCancel, Go
  <1>6. Tabled'  BY <1>4, <1>5 DEF Inv, Tabled
  <1>7. Grown  BY <1>3, <1>5 DEF Grown
  <1>8. Typed([h |-> "cancel", id |-> i], Len(play'), Len(request'))  BY <1>5 DEF Typed
  <1> QED  BY <1>5, <1>6, <1>7, <1>8, Moved

LEMMA FlagCancelTypes ==
    ASSUME Inv, NEW s \in Threads, FlagCancel(s), UNCHANGED <<today, duty>>
    PROVE  Inv'
  <1>1. PICK i : i = session[s].id  OBVIOUS
  <1>2. Typed(session[s], Len(play), Len(request)) /\ session[s].h = "cancel"
    BY HeldIs DEF FlagCancel, Doing
  <1>3. i \in 1 .. Len(play)  BY <1>1, <1>2, TypedIs
  <1>4. UNCHANGED <<request, ticket, receipt, typed, number>>  BY DEF FlagCancel
  <1>5. Len(play) \in Nat /\ Len(request) \in Nat  BY TablesAre DEF Inv
  <1>6. CASE play[i].st = "gone"
    <2>1. UNCHANGED play /\ session' = [session EXCEPT ![s] = Idle]
      BY <1>1, <1>6 DEF FlagCancel, End
    <2>2. Tabled'  BY <1>4, <2>1 DEF Inv, Tabled
    <2>3. Grown  BY <1>4, <1>5, <2>1 DEF Grown
    <2> QED  BY <2>1, <2>2, <2>3, Ended
  <1>7. CASE play[i].st # "gone"
    <2> DEFINE j == [h |-> "clear", cust |-> play[i].cust]
    <2>1. play' = [play EXCEPT ![i].st = "cancelled"] /\ session' = [session EXCEPT ![s] = j]
      BY <1>1, <1>7 DEF FlagCancel, Go
    <2>2. number' \in SUBSET Customers  BY <1>4 DEF Inv, Tabled
    <2>3. Tabled' /\ Grown  BY <1>3, <1>4, <2>1, <2>2, FlagTypes
    <2>4. play[i].cust \in Customers  BY <1>3, TablesAre DEF Inv, Play
    <2>5. Typed(j, Len(play'), Len(request'))  BY <2>4 DEF Typed
    <2> HIDE DEF j
    <2> QED  BY <2>1, <2>3, <2>5, Moved
  <1> QED  BY <1>6, <1>7

LEMMA ClearTypes ==
    ASSUME Inv, NEW s \in Threads, ReadRemaining(s) \/ EraseNumbers(s), UNCHANGED <<today, duty>>
    PROVE  Inv'
  <1>0. Len(play) \in Nat /\ Len(request) \in Nat  BY TablesAre DEF Inv
  <1>1. ASSUME ReadRemaining(s) PROVE Inv'
    <2>1. PICK j : j = session[s]  OBVIOUS
    <2>2. Typed(j, Len(play), Len(request)) /\ j.h = "clear" /\ UNCHANGED <<Tables, today>>
      BY <1>1, <2>1, HeldIs DEF ReadRemaining, Doing
    <2>3. j \in [h : {"clear", "erase"}, cust : Customers]  BY <2>2, TypedIs
    <2>4. Typed([j EXCEPT !.h = "erase"], Len(play), Len(request))
      <3>1. [j EXCEPT !.h = "erase"] \in [h : {"clear", "erase"}, cust : Customers]  BY <2>3
      <3> QED  BY <3>1 DEF Typed
    <2>5. Typed(Idle, Len(play), Len(request))  BY DEF Typed
    <2>6. Go(s, [j EXCEPT !.h = "erase"]) \/ Go(s, Idle)
      BY <1>1, <2>1 DEF ReadRemaining, Go, End
    <2> QED  BY <2>2, <2>4, <2>5, <2>6, GoTypes
  <1>2. ASSUME EraseNumbers(s) PROVE Inv'
    <2>1. /\ UNCHANGED <<play, request, ticket, receipt, typed>>
          /\ session' = [session EXCEPT ![s] = Idle] /\ number' \in SUBSET Customers
      BY <1>2 DEF EraseNumbers, End, Inv, Tabled
    <2>2. Tabled'  BY <2>1 DEF Inv, Tabled
    <2>3. Grown  BY <1>0, <2>1 DEF Grown
    <2> QED  BY <2>1, <2>2, <2>3, Ended
  <1> QED  BY <1>1, <1>2

LEMMA CommitRestoreTypes ==
    ASSUME Inv, NEW s \in Threads, CommitRestore(s), UNCHANGED <<today, duty>>
    PROVE  Inv'
  <1>1. PICK i : i = session[s].id  OBVIOUS
  <1>2. Typed(session[s], Len(play), Len(request)) /\ session[s].h = "restore"
    BY HeldIs DEF CommitRestore, Doing
  <1>3. i \in 1 .. Len(play)  BY <1>1, <1>2, TypedIs
  <1>4. UNCHANGED <<request, ticket, receipt, typed>> /\ session' = [session EXCEPT ![s] = Idle]
    BY DEF CommitRestore, End
  <1>5. Len(play) \in Nat /\ Len(request) \in Nat /\ play[i].cust \in Customers
        /\ number \in SUBSET Customers
    BY <1>3, TablesAre DEF Inv, Play, Tabled
  <1>6. CASE play[i].st = "gone"
    <2>1. UNCHANGED <<play, number>>  BY <1>1, <1>6 DEF CommitRestore
    <2>2. Tabled'  BY <1>4, <2>1 DEF Inv, Tabled
    <2>3. Grown  BY <1>4, <1>5, <2>1 DEF Grown
    <2> QED  BY <1>4, <2>2, <2>3, Ended
  <1>7. CASE play[i].st # "gone"
    <2>1. /\ play' = [play EXCEPT ![i].st = "live"]
          /\ number' = IF play[i].no THEN number \cup {play[i].cust} ELSE number
      BY <1>1, <1>7 DEF CommitRestore
    <2>2. number' \in SUBSET Customers  BY <1>5, <2>1
    <2>3. Tabled' /\ Grown  BY <1>3, <1>4, <2>1, <2>2, FlagTypes
    <2> QED  BY <1>4, <2>3, Ended
  <1> QED  BY <1>6, <1>7

LEMMA CorrectingTypes ==
    ASSUME Inv, NEW s \in Threads, Correcting(s), UNCHANGED <<today, duty>>
    PROVE  Inv'
  <1>0. DOMAIN play = 1 .. Len(play)  BY TablesAre DEF Inv
  <1>1. ASSUME NEW i \in DOMAIN play, NEW e \in Corrections, OpenEdit(s, i, e[1], e[2], e[3], e[4])
        PROVE  Inv'
    <2>1. PICK q : Good(q, Len(request))
                   /\ Go(s, [h |-> "edit", id |-> i, no |-> e[4], dated |-> e[3] # Kept, row |-> q])
      BY <1>0, <1>1, OpenEditIs
    <2> DEFINE j == [h |-> "edit", id |-> i, no |-> e[4], dated |-> e[3] # Kept, row |-> q]
    <2>2. Typed(j, Len(play), Len(request))  BY <1>0, <2>1 DEF Typed
    <2>3. UNCHANGED <<Tables, today>>  BY <1>1 DEF OpenEdit
    <2>4. Go(s, j)  BY <2>1
    <2> HIDE DEF j
    <2> QED  BY <2>2, <2>3, <2>4, GoTypes
  <1>2. ASSUME NEW i \in DOMAIN play, OpenRestore(s, i) PROVE Inv'
    <2>1. Go(s, [h |-> "restore", id |-> i]) /\ UNCHANGED <<Tables, today>>
      BY <1>2 DEF OpenRestore
    <2>2. Typed([h |-> "restore", id |-> i], Len(play), Len(request))  BY <1>0 DEF Typed
    <2> QED  BY <2>1, <2>2, GoTypes
  <1> QED
    BY <1>0, <1>1, <1>2, OpenCancelTypes, CommitEditTypes, FlagCancelTypes, ClearTypes,
       CommitRestoreTypes DEF Correcting

\* The old form, and a correction of a customer who has no row.
LEMMA FormTypes ==
    ASSUME Inv, NEW p, Good(p, Len(request)), Added(p, Unticketed, 0),
           UNCHANGED <<request, number, session, today>>
    PROVE  Inv'
  <1>1. Unticketed \in Ticket  BY DEF Ticket, Unticketed
  <1>2. request' \in Seq(Application) /\ Len(request') = Len(request) /\ number' \in SUBSET Customers
    BY DEF Inv, Tabled
  <1>3. Tabled' /\ Len(play') = Len(play) + 1  BY <1>1, <1>2, AddedTypes
  <1>4. Len(play) \in Nat /\ Len(request) \in Nat  BY TablesAre DEF Inv
  <1>5. Grown  BY <1>3, <1>4 DEF Grown
  <1> QED  BY <1>3, <1>5, Stayed

LEMMA FormIs ==
    ASSUME Inv, NEW c \in Customers, Form(c, today + 1)
    PROVE  \E p : /\ Good(p, Len(request)) /\ Added(p, Unticketed, 0)
                  /\ p.cust = c /\ p.st = "live" /\ p.paid = 0
                  /\ UNCHANGED <<request, number, session>>
  <1>1. PICK p : p = NewPlay(c, FALSE)  OBVIOUS
  <1>2. PICK d \in Nat : d = today + 1  BY DEF Inv, Tabled
  <1>3. Len(request) \in Nat  BY TablesAre DEF Inv
  <1>4. Good(p, Len(request)) /\ p.st = "live" /\ p.paid = 0 /\ p.cust = c  BY <1>1, <1>3, NewIs
  <1> DEFINE q == [p EXCEPT !.end = d]
  <1>5. q \in Play /\ q.cust = p.cust /\ q.st = p.st /\ q.paid = p.paid /\ q.n = p.n /\ q.from = p.from
    BY <1>4 DEF Good, Play
  <1>6. Added(q, Unticketed, 0) /\ UNCHANGED <<request, number, session>>  BY <1>1, <1>2 DEF Form
  <1> HIDE DEF q
  <1>7. Good(q, Len(request))  BY <1>4, <1>5 DEF Good
  <1> QED  BY <1>4, <1>5, <1>6, <1>7

LEMMA EditNewIs ==
    ASSUME Inv, NEW c \in Customers, NEW hw \in Hardware, EditNew(c, hw)
    PROVE  \E p : /\ Good(p, Len(request)) /\ Added(p, Unticketed, 0)
                  /\ p.cust = c /\ p.st = "live" /\ p.paid = 0
                  /\ UNCHANGED <<request, number, session>>
  <1>1. PICK no \in BOOLEAN : no = (c \in number)
    <2>1. (c \in number) \in BOOLEAN  OBVIOUS
    <2> QED  BY <2>1, Zenon
  <1>2. PICK p : p = NewPlay(c, no)  OBVIOUS
  <1>3. Len(request) \in Nat  BY TablesAre DEF Inv
  <1>4. Good(p, Len(request)) /\ p.st = "live" /\ p.paid = 0 /\ p.cust = c  BY <1>2, <1>3, NewIs
  <1>5. PICK n : n = IF hw = "cashout" THEN Months ELSE 0  OBVIOUS
  <1>6. n \in Nat /\ n <= Months  BY <1>5, Parameters
  <1> DEFINE q == [p EXCEPT !.hw = hw, !.n = n]
  <1>7. q \in Play /\ q.cust = p.cust /\ q.st = p.st /\ q.paid = p.paid /\ q.n = n /\ q.from = p.from
    BY <1>4, <1>6 DEF Good, Play
  <1>8. Added(q, Unticketed, 0) /\ UNCHANGED <<request, number, session>>
    BY <1>1, <1>2, <1>5, Zenon DEF EditNew
  <1> HIDE DEF q
  <1>9. Good(q, Len(request))  BY <1>4, <1>6, <1>7 DEF Good
  <1> QED  BY <1>4, <1>7, <1>8, <1>9

LEMMA PurgeAllIs ==
    ASSUME Inv, PurgeAll
    PROVE  /\ play' \in Seq(Play) /\ Len(play') = Len(play)
           /\ \A k \in 1 .. Len(play) :
                 /\ Good(play'[k], Len(request))
                 /\ play[k].st # "cancelled" => play'[k] = play[k]
                 /\ play[k].st = "cancelled" =>
                       /\ play'[k].st = "gone" /\ ~Locked(k)
                       /\ play'[k].cust = play[k].cust /\ play'[k].paid = play[k].paid
                       /\ play'[k].due = play[k].due /\ play'[k].end = play[k].end
  <1> DEFINE f(k) == IF play[k].st = "cancelled" THEN Gone(play[k]) ELSE play[k]
  <1>1. Len(play) \in Nat /\ DOMAIN play = 1 .. Len(play)  BY TablesAre DEF Inv
  <1>2. play' = [k \in 1 .. Len(play) |-> f(k)]
        /\ \A k \in 1 .. Len(play) : play[k].st = "cancelled" => ~Locked(k)
    BY <1>1 DEF PurgeAll
  <1>3. ASSUME NEW k \in 1 .. Len(play)
        PROVE  /\ Good(f(k), Len(request)) /\ f(k) \in Play
               /\ play[k].st # "cancelled" => f(k) = play[k]
               /\ play[k].st = "cancelled" =>
                     /\ f(k).st = "gone" /\ f(k).cust = play[k].cust /\ f(k).paid = play[k].paid
                     /\ f(k).due = play[k].due /\ f(k).end = play[k].end
    <2>1. Good(play[k], Len(request)) /\ play[k] \in Play  BY TablesAre DEF Inv, Tabled
    <2>2. /\ Good(Gone(play[k]), Len(request)) /\ Gone(play[k]).st = "gone"
          /\ Gone(play[k]).cust = play[k].cust /\ Gone(play[k]).paid = play[k].paid
          /\ Gone(play[k]).due = play[k].due /\ Gone(play[k]).end = play[k].end
      BY StatusIs DEF Gone
    <2> QED  BY <2>1, <2>2 DEF Good
  <1> HIDE DEF f
  <1>4. \A k \in 1 .. Len(play) : play'[k] = f(k)  BY <1>2
  <1>5. play' \in Seq(Play) /\ Len(play') = Len(play)
    <2>1. play' \in [1 .. Len(play) -> Play]  BY <1>2, <1>3
    <2>2. play' \in Seq(Play)  BY <1>1, <2>1, SeqDef
    <2>3. DOMAIN play' = 1 .. Len(play') /\ Len(play') \in Nat  BY <2>2, LenProperties
    <2>4. DOMAIN play' = 1 .. Len(play)  BY <2>1
    <2>5. Len(play) \in Nat  BY <1>1
    <2>6. Len(play') = Len(play)  BY <2>3, <2>4, <2>5
    <2> QED  BY <2>2, <2>6
  <1> QED  BY <1>2, <1>3, <1>4, <1>5

LEMMA PurgeTypes ==
    ASSUME Inv, (\E i \in DOMAIN play : Purge(i)) \/ PurgeAll, UNCHANGED <<today, duty>>
    PROVE  Inv'
  <1>0. Len(play) \in Nat /\ DOMAIN play = 1 .. Len(play) /\ Len(request) \in Nat
        /\ number \in SUBSET Customers
    BY TablesAre DEF Inv, Tabled
  <1>1. ASSUME NEW i \in DOMAIN play, Purge(i) PROVE Inv'
    <2>1. /\ play' = [play EXCEPT ![i] = Gone(play[i])]
          /\ UNCHANGED <<request, ticket, receipt, typed, number, session>>
      BY <1>1 DEF Purge
    <2>2. play' = [play EXCEPT ![i].st = "gone"]  BY <1>0, <2>1, StatusIs DEF Gone
    <2>3. Tabled' /\ Grown  BY <1>0, <2>1, <2>2, FlagTypes
    <2> QED  BY <2>1, <2>3, Stayed
  <1>2. ASSUME PurgeAll PROVE Inv'
    <2>1. play' \in Seq(Play) /\ Len(play') = Len(play)
          /\ \A k \in 1 .. Len(play) : Good(play'[k], Len(request))
      BY <1>2, PurgeAllIs
    <2>2. UNCHANGED <<request, ticket, receipt, typed, session>> /\ number' \in SUBSET Customers
      BY <1>0, <1>2 DEF PurgeAll
    <2>3. Tabled'  BY <2>1, <2>2 DEF Inv, Tabled
    <2>4. Grown  BY <1>0, <2>1, <2>2 DEF Grown
    <2> QED  BY <2>2, <2>3, <2>4, Stayed
  <1> QED  BY <1>1, <1>2

LEMMA CrewTypes ==
    ASSUME Inv, NEW s \in Threads, UNCHANGED <<today, duty>>,
           CommitCrew(s) \/ \E i \in DOMAIN ticket, next \in {"PENDING", "ASSIGNED", "IN_PROGRESS", "COMPLETED"} :
                                OpenCrew(s, i, next)
    PROVE  Inv'
  <1>0. Len(play) \in Nat /\ DOMAIN ticket = 1 .. Len(play) /\ Len(request) \in Nat
    BY TablesAre DEF Inv
  <1>1. ASSUME NEW i \in DOMAIN ticket, NEW next \in {"PENDING", "ASSIGNED", "IN_PROGRESS", "COMPLETED"},
               OpenCrew(s, i, next)
        PROVE  Inv'
    <2>1. PICK b \in BOOLEAN : b = (ticket[i].begun \/ next = "IN_PROGRESS")
      <3>1. (ticket[i].begun \/ next = "IN_PROGRESS") \in BOOLEAN  OBVIOUS
      <3> QED  BY <3>1, Zenon
    <2> DEFINE t == [st |-> next, begun |-> b]
               j == [h |-> "crew", id |-> i, next |-> t]
    <2>2. Go(s, j) /\ UNCHANGED <<Tables, today>>  BY <1>1, <2>1, Zenon DEF OpenCrew
    <2>3. t \in Ticket  BY DEF Ticket
    <2> HIDE DEF t
    <2>4. Typed(j, Len(play), Len(request))  BY <1>0, <2>3 DEF Typed
    <2> HIDE DEF j
    <2> QED  BY <2>2, <2>4, GoTypes
  <1>2. ASSUME CommitCrew(s) PROVE Inv'
    <2>1. PICK j : j = session[s]  OBVIOUS
    <2>2. Typed(j, Len(play), Len(request)) /\ j.h = "crew"
      BY <1>2, <2>1, HeldIs DEF CommitCrew, Doing
    <2>3. j.id \in 1 .. Len(play) /\ j.next \in Ticket  BY <2>2, TypedIs
    <2>4. /\ ticket' = [ticket EXCEPT ![j.id] = j.next] /\ session' = [session EXCEPT ![s] = Idle]
          /\ UNCHANGED <<play, request, receipt, typed, number>>
      BY <1>2, <2>1 DEF CommitCrew, End
    <2>5. ticket \in Seq(Ticket) /\ Len(ticket) = Len(play)  BY DEF Inv, Tabled
    <2>6. ticket' \in Seq(Ticket) /\ Len(ticket') = Len(play)  BY <2>3, <2>4, <2>5, SeqWrite
    <2>7. Tabled'  BY <2>4, <2>6 DEF Inv, Tabled
    <2>8. Grown  BY <1>0, <2>4 DEF Grown
    <2> QED  BY <2>4, <2>7, <2>8, Ended
  <1> QED  BY <1>1, <1>2

LEMMA StillTypes ==
    ASSUME Inv, UNCHANGED <<Tables, session>>, today' \in Nat
    PROVE  Inv'
  BY DEF Inv, Tabled, Held, Tables

LEMMA InitTypes == Init => Inv
  <1> SUFFICES ASSUME Init PROVE Inv  OBVIOUS
  <1>1. /\ play = <<>> /\ request = <<>> /\ ticket = <<>> /\ receipt = <<>> /\ typed = <<>>
        /\ number = {} /\ today = 1 /\ session = [s \in Threads |-> Idle]
    BY DEF Init
  <1>2. \A S : <<>> \in Seq(S)  BY EmptySeq
  <1>3. Len(<<>>) = 0  BY EmptySeq
  <1>4. Tabled  BY <1>1, <1>2, <1>3 DEF Tabled
  <1>5. Held  BY <1>1 DEF Held, Typed
  <1> QED  BY <1>4, <1>5 DEF Inv

LEMMA NextTypes == Inv /\ [Next]_vars => Inv'
  <1> SUFFICES ASSUME Inv, [Next]_vars PROVE Inv'  OBVIOUS
  <1>0. today \in Nat  BY DEF Inv, Tabled
  <1>1. ASSUME UNCHANGED vars PROVE Inv'
    <2>1. UNCHANGED <<Tables, session>> /\ today' = today  BY <1>1 DEF vars, Tables
    <2> QED  BY <1>0, <2>1, StillTypes
  <1>2. ASSUME Tick, UNCHANGED duty PROVE Inv'
    <2>1. UNCHANGED <<Tables, session>> /\ today' \in Nat  BY <1>0, <1>2 DEF Tick
    <2> QED  BY <2>1, StillTypes
  <1>3. ASSUME Step, UNCHANGED <<today, duty>> PROVE Inv'
    <2>1. ASSUME NEW s \in Threads, Applying(s) \/ Activating(s) \/ Paying(s) \/ Correcting(s)
          PROVE  Inv'
      BY <1>3, <2>1, ApplyingTypes, ActivatingTypes, PayingTypes, CorrectingTypes
    <2>2. ASSUME NEW s \in Threads,
                 CommitCrew(s) \/ \E i \in DOMAIN ticket, next \in {"PENDING", "ASSIGNED", "IN_PROGRESS", "COMPLETED"} :
                                OpenCrew(s, i, next)
          PROVE  Inv'
      BY <1>3, <2>2, CrewTypes
    <2>3. ASSUME NEW c \in Customers, Apply(c) PROVE Inv'  BY <1>3, <2>3, ApplyTypes
    <2>4. ASSUME NEW c \in Customers, Form(c, today + 1) PROVE Inv'
      <3>1. PICK p : Good(p, Len(request)) /\ Added(p, Unticketed, 0)
                     /\ UNCHANGED <<request, number, session>>
        BY <2>4, FormIs
      <3> QED  BY <1>3, <3>1, FormTypes
    <2>5. ASSUME NEW c \in Customers, NEW hw \in Hardware, EditNew(c, hw) PROVE Inv'
      <3>1. PICK p : Good(p, Len(request)) /\ Added(p, Unticketed, 0)
                     /\ UNCHANGED <<request, number, session>>
        BY <2>5, EditNewIs
      <3> QED  BY <1>3, <3>1, FormTypes
    <2>6. ASSUME (\E i \in DOMAIN play : Purge(i)) \/ PurgeAll PROVE Inv'
      BY <1>3, <2>6, PurgeTypes
    <2> QED  BY <1>3, <2>1, <2>2, <2>3, <2>4, <2>5, <2>6 DEF Step
  <1> QED  BY <1>1, <1>2, <1>3 DEF Next, AtRest

LEMMA InvCorrect == Spec => []Inv
  <1> QED  BY InitTypes, NextTypes, PTL DEF Spec

\* Every row of the tables is one the database can hold: a subscription names a
\* request that exists and counts no installment past the last.
THEOREM TypeCorrect == Spec => []TypeOK
  <1>1. Inv => TypeOK
    <2> SUFFICES ASSUME Inv PROVE TypeOK  OBVIOUS
    <2>1. Tabled  BY DEF Inv
    <2>2. DOMAIN play = 1 .. Len(play)  BY TablesAre DEF Inv
    <2> QED  BY <2>1, <2>2 DEF TypeOK, Tabled, Good, Counts, Application
  <1> QED  BY <1>1, InvCorrect, PTL

-----------------------------------------------------------------------------
(* Receipts and loads, when a correction runs alone *)

\* A correction or a crew that runs alone does so.
Alone ==
    \A s, t \in Threads :
        session[s] # Idle /\ session[s].h \in Exclusive \cap {"edit", "crew"} /\ t # s => session[t] = Idle

\* One payment at a time holds a row.
OneTill ==
    \A s, t \in Threads :
        /\ session[s].h = "pay" /\ session[t].h = "pay"
        /\ session[s].id = session[t].id /\ session[s].id # 0
        => s = t

\* What a request read of a row is still there: all of it for a payment, the
\* money and the dates it leaves alone for a correction.
Fair(j, p) ==
    /\ j.h = "pay" => IF j.id = 0 THEN j.row.paid = 0 ELSE j.row = p[j.id]
    /\ j.h = "approve" => j.row.paid = 0
    /\ j.h = "edit" =>
          /\ j.row.paid = p[j.id].paid
          /\ j.dated => j.row.due = j.row.end
          /\ ~j.dated => j.row.due = p[j.id].due /\ j.row.end = p[j.id].end

\* A row is what its receipts say, purged or not.
Square(p, b, q) == p.paid = q.paid /\ Due(p) >= b.due + LoadDays * q.loads

BookInv ==
    /\ Alone /\ OneTill
    /\ \A s \in Threads : Fair(session[s], play)
    /\ \A i \in 1 .. Len(play) : Square(play[i], typed[i], receipt[i])

-----------------------------------------------------------------------------
(* Jobs and plans, when a crew's step runs alone *)

Waiting(t) == t.st \in {"PENDING", "ASSIGNED"} /\ ~t.begun

\* A request that may take row i off the air.
Leaves(j, i) ==
    \/ j.h = "cancel" /\ j.id = i
    \/ j.h \in {"pay", "edit"} /\ j.id = i /\ j.row.st # "live"

Crewed(j, q) == j.h = "crew" => /\ Waiting(j.next) => Waiting(q[j.id])
                                /\ j.next.st = "IN_PROGRESS" => j.next.begun

JobInv ==
    /\ Alone
    /\ \A i \in 1 .. Len(play) :
          /\ Waiting(ticket[i]) => play[i].st = "live" /\ \A s \in Threads : ~Leaves(session[s], i)
          /\ ticket[i].st = "IN_PROGRESS" => ticket[i].begun
    /\ \A s \in Threads : Crewed(session[s], ticket) /\ (session[s].h = "activate" => session[s].row.st = "live")
-----------------------------------------------------------------------------
(* The steps, by what they do to the threads *)

LEMMA FreeIs ==
    ASSUME NEW s \in Threads, NEW h, Free(s, h)
    PROVE  /\ session[s] = Idle
           /\ h \in Exclusive => \A t \in Threads : session[t] = Idle
           /\ \A t \in Threads : session[t] # Idle => session[t].h \notin Exclusive
  BY DEF Free, Busy

LEMMA IdleIs == Idle.h = "idle"
  BY DEF Idle

\* What begins on a thread.
Opening(s) ==
    \/ \E r \in DOMAIN request, staff \in BOOLEAN : OpenWithdraw(s, r, staff)
    \/ \E r \in DOMAIN request : OpenResolve(s, r)
    \/ \E c \in Customers, r \in {0} \cup DOMAIN request, o \in Offers, wait \in {0, LoadDays} :
          OpenActivate(s, c, r, o[1], o[2], today + wait, o[3])
    \/ \E r \in DOMAIN request, o \in Offers : OpenApprove(s, r, o[1], o[2], today + LoadDays)
    \/ \E c \in Customers, i \in {0} \cup DOMAIN play, p \in Payments, date \in {NoDate, today} :
          OpenPay(s, c, i, p[1], p[2], date)
    \/ \E i \in DOMAIN play, e \in Corrections : OpenEdit(s, i, e[1], e[2], e[3], e[4])
    \/ \E i \in DOMAIN play : OpenRestore(s, i)
    \/ \E i \in DOMAIN ticket, next \in {"PENDING", "ASSIGNED", "IN_PROGRESS", "COMPLETED"} :
          OpenCrew(s, i, next)

\* A row added without a thread.
Filed == \E p : /\ Good(p, Len(request)) /\ Added(p, Unticketed, 0)
                /\ p.st = "live" /\ p.paid = 0
                /\ UNCHANGED <<request, number, session>>

LEMMA StepIs ==
    ASSUME Inv, Step
    PROVE  \/ \E s \in Threads :
                 \/ Opening(s)
                 \/ CommitWithdraw(s) \/ CommitResolve(s) \/ CommitActivate(s) \/ CommitApprove(s)
                 \/ CommitPay(s) \/ CommitEdit(s) \/ CommitCrew(s) \/ CommitRestore(s)
                 \/ (\E i \in 1 .. Len(play) : OpenCancel(s, i))
                 \/ FlagCancel(s) \/ ReadRemaining(s) \/ EraseNumbers(s)
           \/ \E c \in Customers : Apply(c)
           \/ Filed
           \/ \E i \in 1 .. Len(play) : Purge(i)
           \/ PurgeAll
  <1>0. DOMAIN play = 1 .. Len(play)  BY TablesAre DEF Inv
  <1>1. ASSUME NEW s \in Threads, Applying(s)
        PROVE  Opening(s) \/ CommitWithdraw(s) \/ CommitResolve(s)
    BY <1>1 DEF Applying, Opening
  <1>2. ASSUME NEW s \in Threads, Activating(s)
        PROVE  Opening(s) \/ CommitActivate(s) \/ CommitApprove(s)
    BY <1>2 DEF Activating, Opening
  <1>3. ASSUME NEW s \in Threads, Paying(s) PROVE Opening(s) \/ CommitPay(s)
    BY <1>3 DEF Paying, Opening
  <1>4. ASSUME NEW s \in Threads, Correcting(s)
        PROVE  \/ Opening(s) \/ CommitEdit(s) \/ CommitRestore(s)
               \/ (\E i \in 1 .. Len(play) : OpenCancel(s, i))
               \/ FlagCancel(s) \/ ReadRemaining(s) \/ EraseNumbers(s)
    BY <1>0, <1>4 DEF Correcting, Opening
  <1>5. ASSUME NEW s \in Threads, NEW i \in DOMAIN ticket,
               NEW next \in {"PENDING", "ASSIGNED", "IN_PROGRESS", "COMPLETED"}, OpenCrew(s, i, next)
        PROVE  Opening(s)
    BY <1>5 DEF Opening
  <1>6. ASSUME NEW c \in Customers, Form(c, today + 1) PROVE Filed
    BY <1>6, FormIs DEF Filed
  <1>7. ASSUME NEW c \in Customers, NEW hw \in Hardware, EditNew(c, hw) PROVE Filed
    BY <1>7, EditNewIs DEF Filed
  <1> QED  BY <1>0, <1>1, <1>2, <1>3, <1>4, <1>5, <1>6, <1>7 DEF Step

\* What a request read that begins.
Opened(s, j, h) ==
    /\ Free(s, h) /\ Go(s, j) /\ UNCHANGED Tables
    /\ j.h \in {"edit", "crew"} => j.h = h
    /\ j.h # "cancel"
    /\ j.h = "pay" => IF j.id = 0 THEN j.row.paid = 0 ELSE j.row = play[j.id] /\ ~Locked(j.id)
    /\ j.h = "approve" => j.row.paid = 0
    /\ j.h = "activate" => j.row.st = "live"
    /\ j.h = "edit" =>
          /\ j.row.paid = play[j.id].paid /\ j.row.st = play[j.id].st
          /\ j.dated => j.row.due = j.row.end
          /\ ~j.dated => j.row.due = play[j.id].due /\ j.row.end = play[j.id].end
    /\ j.h = "crew" =>
          /\ j.id \in 1 .. Len(play)
          /\ Waiting(j.next) => Waiting(ticket[j.id])
                                \/ (ticket[j.id].st = "IN_PROGRESS" /\ ~ticket[j.id].begun)
          /\ j.next.st = "IN_PROGRESS" => j.next.begun

LEMMA OpeningIs ==
    ASSUME Inv, NEW s \in Threads, Opening(s)
    PROVE  \E j, h : Opened(s, j, h)
  <1>0. DOMAIN play = 1 .. Len(play) /\ DOMAIN ticket = 1 .. Len(play) /\ Len(request) \in Nat
        /\ DOMAIN request = 1 .. Len(request) /\ today \in Nat
    BY TablesAre DEF Inv, Tabled
  <1>1. ASSUME NEW r, NEW staff, OpenWithdraw(s, r, staff) PROVE \E j, h : Opened(s, j, h)
    <2> DEFINE j == [h |-> "withdraw", req |-> r]
    <2>1. Opened(s, j, "portal")  BY <1>1 DEF OpenWithdraw, Opened
    <2> QED  BY <2>1
  <1>2. ASSUME NEW r, OpenResolve(s, r) PROVE \E j, h : Opened(s, j, h)
    <2> DEFINE j == [h |-> "resolve", req |-> r]
    <2>1. Opened(s, j, "resolve")  BY <1>2 DEF OpenResolve, Opened
    <2> QED  BY <2>1
  <1>3. ASSUME NEW c \in Customers, NEW r, NEW o, NEW date, OpenActivate(s, c, r, o[1], o[2], date, o[3])
        PROVE  \E j, h : Opened(s, j, h)
    <2>1. PICK q : q = IF r # 0 THEN r ELSE Pending(c)  OBVIOUS
    <2>2. PICK w : w = Granted(c, q, o[1], Counted(o[1]), o[2], date, o[3])  OBVIOUS
    <2>3. w.st = "live"  BY <2>2 DEF Granted
    <2> DEFINE j == [h |-> "activate", req |-> q, row |-> w]
    <2>4. Free(s, "activate") /\ Go(s, j) /\ UNCHANGED Tables
      BY <1>3, <2>1, <2>2, Zenon DEF OpenActivate
    <2>5. Opened(s, j, "activate")  BY <2>3, <2>4 DEF Opened
    <2> QED  BY <2>5
  <1>4. ASSUME NEW r, NEW o, NEW date, OpenApprove(s, r, o[1], o[2], date)
        PROVE  \E j, h : Opened(s, j, h)
    <2>1. PICK w : w = Granted(request[r].cust, r, o[1], 0, o[2], date, 0)  OBVIOUS
    <2>2. w.paid = 0  BY <2>1 DEF Granted
    <2> DEFINE j == [h |-> "approve", req |-> r, row |-> w]
    <2>3. Free(s, "approve") /\ Go(s, j) /\ UNCHANGED Tables  BY <1>4, <2>1 DEF OpenApprove
    <2>4. Opened(s, j, "approve")  BY <2>2, <2>3 DEF Opened
    <2> QED  BY <2>4
  <1>5. ASSUME NEW c, NEW i, NEW k, NEW a, NEW date, OpenPay(s, c, i, k, a, date)
        PROVE  \E j, h : Opened(s, j, h)
    <2>1. PICK p : p = IF i = 0 THEN NewPlay(c, c \in number) ELSE play[i]  OBVIOUS
    <2>2. i = 0 => p.paid = 0  BY <2>1 DEF NewPlay
    <2>3. i # 0 => p = play[i]  BY <2>1
    <2> DEFINE j == [h |-> "pay", id |-> i, row |-> p, kind |-> k, amount |-> a, date |-> date]
    <2>4. Free(s, "pay") /\ Go(s, j) /\ UNCHANGED Tables /\ ~Locked(i)
      BY <1>5, <2>1, Zenon DEF OpenPay
    <2>5. Opened(s, j, "pay")  BY <2>2, <2>3, <2>4 DEF Opened
    <2> QED  BY <2>5
  <1>6. ASSUME NEW i \in 1 .. Len(play), NEW e \in Corrections, OpenEdit(s, i, e[1], e[2], e[3], e[4])
        PROVE  \E j, h : Opened(s, j, h)
    <2>1. PICK q : /\ q.cust = play[i].cust /\ q.st = play[i].st /\ q.paid = play[i].paid
                   /\ e[3] = Kept => q.due = play[i].due /\ q.end = play[i].end
                   /\ e[3] # Kept => q.due = e[3] /\ q.end = e[3]
                   /\ Go(s, [h |-> "edit", id |-> i, no |-> e[4], dated |-> e[3] # Kept, row |-> q])
      BY <1>6, OpenEditIs
    <2>2. PICK d : d = (e[3] # Kept)  OBVIOUS
    <2>3. d => q.due = q.end  BY <2>1, <2>2
    <2>4. ~d => q.due = play[i].due /\ q.end = play[i].end  BY <2>1, <2>2
    <2> DEFINE j == [h |-> "edit", id |-> i, no |-> e[4], dated |-> d, row |-> q]
    <2>5. Free(s, "edit") /\ Go(s, j) /\ UNCHANGED Tables  BY <1>6, <2>1, <2>2 DEF OpenEdit
    <2>6. Opened(s, j, "edit")  BY <2>1, <2>3, <2>4, <2>5 DEF Opened
    <2> QED  BY <2>6
  <1>7. ASSUME NEW i, OpenRestore(s, i) PROVE \E j, h : Opened(s, j, h)
    <2> DEFINE j == [h |-> "restore", id |-> i]
    <2>1. Opened(s, j, "restore")  BY <1>7 DEF OpenRestore, Opened
    <2> QED  BY <2>1
  <1>8. ASSUME NEW i \in 1 .. Len(play), NEW next \in {"PENDING", "ASSIGNED", "IN_PROGRESS", "COMPLETED"},
               OpenCrew(s, i, next)
        PROVE  \E j, h : Opened(s, j, h)
    <2>1. PICK b : b = (ticket[i].begun \/ next = "IN_PROGRESS")  OBVIOUS
    <2> DEFINE t == [st |-> next, begun |-> b]
               j == [h |-> "crew", id |-> i, next |-> t]
    <2>2. Free(s, "crew") /\ Go(s, j) /\ UNCHANGED Tables  BY <1>8, <2>1 DEF OpenCrew
    <2>3. ticket[i].st \in {"PENDING", "ASSIGNED", "IN_PROGRESS"}  BY <1>8 DEF OpenCrew
    <2>4. Waiting(t) => ~ticket[i].begun  BY <2>1 DEF Waiting
    <2>5. t.st = "IN_PROGRESS" => t.begun  BY <2>1
    <2>6. Waiting(t) => Waiting(ticket[i]) \/ (ticket[i].st = "IN_PROGRESS" /\ ~ticket[i].begun)
      BY <2>3, <2>4 DEF Waiting
    <2> HIDE DEF t
    <2>7. Opened(s, j, "crew")  BY <2>2, <2>5, <2>6 DEF Opened
    <2> QED  BY <2>7
  <1> QED
    BY <1>0, <1>1, <1>2, <1>3, <1>4, <1>5, <1>6, <1>7, <1>8 DEF Opening

LEMMA SessionIs ==
    ASSUME Inv, NEW s \in Threads, NEW j, session' = [session EXCEPT ![s] = j]
    PROVE  session'[s] = j /\ \A t \in Threads : t # s => session'[t] = session[t]
  BY DEF Inv, Held

LEMMA AloneOpens ==
    ASSUME Inv, Alone, NEW s \in Threads, NEW j, NEW h, Opened(s, j, h)
    PROVE  Alone'
  <1>1. session'[s] = j /\ \A t \in Threads : t # s => session'[t] = session[t]
    BY SessionIs DEF Opened, Go
  <1>2. /\ session[s] = Idle
        /\ h \in Exclusive => \A t \in Threads : session[t] = Idle
        /\ \A t \in Threads : session[t] # Idle => session[t].h \notin Exclusive
    BY FreeIs DEF Opened
  <1>3. j.h \in {"edit", "crew"} => j.h = h  BY DEF Opened
  <1> SUFFICES ASSUME NEW u \in Threads, NEW t \in Threads, session'[u] # Idle,
                      session'[u].h \in Exclusive \cap {"edit", "crew"}, t # u
               PROVE  session'[t] = Idle
    BY DEF Alone
  <1>4. CASE u = s
    <2>1. h \in Exclusive  BY <1>1, <1>3, <1>4
    <2> QED  BY <1>1, <1>2, <1>4, <2>1
  <1>5. CASE u # s
    <2>1. session[u] # Idle /\ session[u].h \in Exclusive  BY <1>1, <1>5
    <2> QED  BY <1>2, <2>1
  <1> QED  BY <1>4, <1>5

\* A thread that goes on, or ends, was not next to one that runs alone.
LEMMA AloneGoes ==
    ASSUME Inv, Alone, NEW s \in Threads, NEW j, session' = [session EXCEPT ![s] = j],
           session[s] # Idle, j = Idle \/ j.h \notin {"edit", "crew"}
    PROVE  Alone'
  <1>1. session'[s] = j /\ \A t \in Threads : t # s => session'[t] = session[t]  BY SessionIs
  <1> SUFFICES ASSUME NEW u \in Threads, NEW t \in Threads, session'[u] # Idle,
                      session'[u].h \in Exclusive \cap {"edit", "crew"}, t # u
               PROVE  session'[t] = Idle
    BY DEF Alone
  <1>2. u # s  BY <1>1
  <1>3. session[u] # Idle /\ session[u].h \in Exclusive \cap {"edit", "crew"}  BY <1>1, <1>2
  <1>4. session[s] = Idle  BY <1>2, <1>3 DEF Alone
  <1> QED  BY <1>4

\* Who holds a handler is under way.
LEMMA DoingIs ==
    ASSUME NEW s \in Threads, NEW h, h # "idle", session[s].h = h
    PROVE  session[s] # Idle
  BY IdleIs

LEMMA LockedIs ==
    ASSUME NEW i, i # 0
    PROVE  Locked(i) <=> \E t \in Threads : session[t].h = "pay" /\ session[t].id = i
  BY DoingIs DEF Locked, Busy

LEMMA OneTillGoes ==
    ASSUME Inv, OneTill, NEW s \in Threads, NEW j, session' = [session EXCEPT ![s] = j], j.h # "pay"
    PROVE  OneTill'
  <1>1. session'[s] = j /\ \A t \in Threads : t # s => session'[t] = session[t]  BY SessionIs
  <1> QED  BY <1>1 DEF OneTill

LEMMA BookOpens ==
    ASSUME Inv, BookInv, NEW s \in Threads, NEW j, NEW h, Opened(s, j, h)
    PROVE  BookInv'
  <1>1. session'[s] = j /\ \A t \in Threads : t # s => session'[t] = session[t]
    BY SessionIs DEF Opened, Go
  <1>2. play' = play /\ typed' = typed /\ receipt' = receipt  BY DEF Opened, Tables
  <1>3. Alone'  BY AloneOpens DEF BookInv
  <1>4. OneTill'
    <2>1. ASSUME j.h = "pay", j.id # 0, NEW t \in Threads, session[t].h = "pay", session[t].id = j.id
          PROVE  FALSE
      BY <2>1, LockedIs DEF Opened
    <2> QED  BY <1>1, <2>1 DEF OneTill, BookInv
  <1>5. Fair(j, play)  BY DEF Opened, Fair
  <1>6. ASSUME NEW t \in Threads PROVE Fair(session'[t], play)
    BY <1>1, <1>5 DEF BookInv
  <1>7. \A i \in 1 .. Len(play) : Square(play[i], typed[i], receipt[i])  BY DEF BookInv
  <1> QED  BY <1>2, <1>3, <1>4, <1>6, <1>7 DEF BookInv

\* What a request holds is fair as long as its row keeps what it read.
LEMMA FairStays ==
    ASSUME NEW j, NEW p, NEW q, Fair(j, p),
           j.h = "pay" /\ j.id # 0 => q[j.id] = p[j.id],
           j.h = "edit" => /\ q[j.id].paid = p[j.id].paid
                           /\ q[j.id].due = p[j.id].due /\ q[j.id].end = p[j.id].end
    PROVE  Fair(j, q)
  BY DEF Fair

LEMMA SquareStays ==
    ASSUME NEW p, NEW q, NEW b, NEW r, Square(p, b, r),
           q.paid = p.paid, q.due = p.due, q.end = p.end
    PROVE  Square(q, b, r)
  BY DEF Square, Due

\* A thread goes on, and no subscription, receipt or typed date is touched.
LEMMA BookGoes ==
    ASSUME Inv, BookInv, NEW s \in Threads, NEW j, session' = [session EXCEPT ![s] = j],
           session[s] # Idle, j = Idle \/ j.h \notin {"pay", "approve", "edit", "crew"},
           UNCHANGED <<play, typed, receipt>>
    PROVE  BookInv'
  <1>0. j.h \notin {"pay", "approve", "edit"}  BY IdleIs
  <1>1. session'[s] = j /\ \A t \in Threads : t # s => session'[t] = session[t]  BY SessionIs
  <1>2. Alone'  BY AloneGoes DEF BookInv
  <1>3. OneTill'  BY <1>0, OneTillGoes DEF BookInv
  <1>4. Fair(j, play)  BY <1>0 DEF Fair
  <1>5. ASSUME NEW t \in Threads PROVE Fair(session'[t], play)  BY <1>1, <1>4 DEF BookInv
  <1> QED  BY <1>2, <1>3, <1>5 DEF BookInv

\* A row at the end of the table.
LEMMA RowsAdded ==
    ASSUME Inv, NEW p \in Play, NEW t \in Ticket, NEW b \in Counts, NEW q \in Receipts,
           play' = Append(play, p), ticket' = Append(ticket, t),
           typed' = Append(typed, b), receipt' = Append(receipt, q)
    PROVE  /\ Len(play') = Len(play) + 1 /\ Len(play) \in Nat
           /\ \A k \in 1 .. Len(play) : /\ play'[k] = play[k] /\ ticket'[k] = ticket[k]
                                        /\ typed'[k] = typed[k] /\ receipt'[k] = receipt[k]
           /\ play'[Len(play) + 1] = p /\ ticket'[Len(play) + 1] = t
           /\ typed'[Len(play) + 1] = b /\ receipt'[Len(play) + 1] = q
  <1>1. /\ play \in Seq(Play) /\ ticket \in Seq(Ticket) /\ receipt \in Seq(Receipts)
        /\ typed \in Seq(Counts)
        /\ Len(ticket) = Len(play) /\ Len(receipt) = Len(play) /\ Len(typed) = Len(play)
    BY DEF Inv, Tabled
  <1>2. /\ Len(play') = Len(play) + 1 /\ Len(play) \in Nat
        /\ \A k \in 1 .. Len(play) : play'[k] = play[k]
        /\ play'[Len(play) + 1] = p
    BY <1>1, SeqAdd
  <1>3. (\A k \in 1 .. Len(play) : ticket'[k] = ticket[k]) /\ ticket'[Len(play) + 1] = t
    BY <1>1, SeqAdd
  <1>4. (\A k \in 1 .. Len(play) : typed'[k] = typed[k]) /\ typed'[Len(play) + 1] = b
    BY <1>1, SeqAdd
  <1>5. (\A k \in 1 .. Len(play) : receipt'[k] = receipt[k]) /\ receipt'[Len(play) + 1] = q
    BY <1>1, SeqAdd
  <1> QED  BY <1>2, <1>3, <1>4, <1>5

\* A request names rows there are.
LEMMA FairGrows ==
    ASSUME Inv, NEW t \in Threads, Fair(session[t], play),
           \A k \in 1 .. Len(play) : play'[k] = play[k]
    PROVE  Fair(session[t], play')
  <1>1. Typed(session[t], Len(play), Len(request))  BY HeldIs
  <1>2. PICK j : j = session[t]  OBVIOUS
  <1>3. Len(play) \in Nat  BY TablesAre DEF Inv
  <1>4. j.h = "pay" /\ j.id # 0 => j.id \in 1 .. Len(play)  BY <1>1, <1>2, <1>3, TypedIs
  <1>5. j.h = "edit" => j.id \in 1 .. Len(play)  BY <1>1, <1>2, TypedIs
  <1> QED  BY <1>2, <1>4, <1>5, FairStays

LEMMA BookAdds ==
    ASSUME Inv, BookInv, NEW p \in Play, NEW t \in Ticket, NEW b \in Counts, NEW q \in Receipts,
           play' = Append(play, p), ticket' = Append(ticket, t),
           typed' = Append(typed, b), receipt' = Append(receipt, q),
           Square(p, b, q), Alone', OneTill',
           \A u \in Threads : session'[u] = session[u] \/ session'[u] = Idle
    PROVE  BookInv'
  <1>1. /\ Len(play') = Len(play) + 1 /\ Len(play) \in Nat
        /\ \A k \in 1 .. Len(play) : /\ play'[k] = play[k]
                                     /\ typed'[k] = typed[k] /\ receipt'[k] = receipt[k]
        /\ play'[Len(play) + 1] = p
        /\ typed'[Len(play) + 1] = b /\ receipt'[Len(play) + 1] = q
    BY RowsAdded
  <1>2. ASSUME NEW i \in 1 .. Len(play') PROVE Square(play'[i], typed'[i], receipt'[i])
    <2>1. CASE i = Len(play) + 1  BY <1>1, <2>1
    <2>2. CASE i # Len(play) + 1
      <3>1. i \in 1 .. Len(play)  BY <1>1, <2>2
      <3>2. play'[i] = play[i] /\ typed'[i] = typed[i] /\ receipt'[i] = receipt[i]  BY <1>1, <3>1
      <3> QED  BY <3>1, <3>2 DEF BookInv
    <2> QED  BY <2>1, <2>2
  <1>3. ASSUME NEW u \in Threads PROVE Fair(session'[u], play')
    <2>1. CASE session'[u] = Idle  BY <2>1, IdleIs DEF Fair
    <2>2. CASE session'[u] = session[u]
      <3>1. Fair(session[u], play)  BY DEF BookInv
      <3>2. Fair(session[u], play')  BY <1>1, <3>1, FairGrows
      <3> QED  BY <2>2, <3>2
    <2> QED  BY <2>1, <2>2
  <1> QED  BY <1>2, <1>3 DEF BookInv

\* Rows change their status where no payment holds them.
LEMMA BookFlags ==
    ASSUME Inv, BookInv, Len(play') = Len(play), Alone', OneTill', UNCHANGED <<typed, receipt>>,
           \A k \in 1 .. Len(play) :
              /\ play'[k] = play[k] \/ ~Locked(k)
              /\ play'[k].paid = play[k].paid
              /\ play'[k].due = play[k].due /\ play'[k].end = play[k].end,
           \A u \in Threads : session'[u] = session[u] \/ session'[u].h \notin {"pay", "approve", "edit"}
    PROVE  BookInv'
  <1>0. Len(play) \in Nat  BY TablesAre DEF Inv
  <1>1. ASSUME NEW i \in 1 .. Len(play') PROVE Square(play'[i], typed'[i], receipt'[i])
    <2>1. i \in 1 .. Len(play)  OBVIOUS
    <2>2. Square(play[i], typed[i], receipt[i])  BY <2>1 DEF BookInv
    <2> QED  BY <2>1, <2>2, SquareStays
  <1>2. ASSUME NEW u \in Threads PROVE Fair(session'[u], play')
    <2>1. CASE session'[u].h \notin {"pay", "approve", "edit"}  BY <2>1 DEF Fair
    <2>2. CASE session'[u] = session[u]
      <3>1. PICK j : j = session[u]  OBVIOUS
      <3>2. Typed(j, Len(play), Len(request)) /\ Fair(j, play)  BY <3>1, HeldIs DEF BookInv
      <3>3. j.h = "pay" /\ j.id # 0 => j.id \in 1 .. Len(play) /\ Locked(j.id)
        BY <1>0, <3>1, <3>2, TypedIs, LockedIs
      <3>4. j.h = "edit" => j.id \in 1 .. Len(play)  BY <3>2, TypedIs
      <3>5. Fair(j, play')  BY <3>2, <3>3, <3>4, FairStays
      <3> QED  BY <2>2, <3>1, <3>5
    <2> QED  BY <2>1, <2>2
  <1> QED  BY <1>1, <1>2 DEF BookInv

\* One row, its typed dates and its receipts written by a thread that ends.
LEMMA BookWrites ==
    ASSUME Inv, BookInv, NEW s \in Threads, NEW i \in 1 .. Len(play), NEW p \in Play, NEW b \in Counts,
           NEW q \in Receipts, session[s] # Idle, session' = [session EXCEPT ![s] = Idle],
           play' = [play EXCEPT ![i] = p], typed' = [typed EXCEPT ![i] = b],
           receipt' = [receipt EXCEPT ![i] = q], Square(p, b, q),
           \A t \in Threads : t # s /\ session[t].h = "pay" => session[t].id # i,
           \A t \in Threads : t # s => session[t].h # "edit"
    PROVE  BookInv'
  <1>1. /\ play \in Seq(Play) /\ receipt \in Seq(Receipts) /\ typed \in Seq(Counts)
        /\ Len(receipt) = Len(play) /\ Len(typed) = Len(play) /\ Len(play) \in Nat
    BY TablesAre DEF Inv, Tabled
  <1>2. Len(play') = Len(play) /\ \A k \in 1 .. Len(play) : play'[k] = IF k = i THEN p ELSE play[k]
    BY <1>1, SeqWrite
  <1>3. \A k \in 1 .. Len(play) : typed'[k] = IF k = i THEN b ELSE typed[k]
    BY <1>1, SeqWrite
  <1>4. \A k \in 1 .. Len(play) : receipt'[k] = IF k = i THEN q ELSE receipt[k]
    BY <1>1, SeqWrite
  <1>5. session'[s] = Idle /\ \A t \in Threads : t # s => session'[t] = session[t]  BY SessionIs
  <1>6. Alone'  BY AloneGoes DEF BookInv
  <1>7. Idle.h # "pay"  BY IdleIs
  <1>8. OneTill'  BY <1>7, OneTillGoes DEF BookInv
  <1>9. ASSUME NEW k \in 1 .. Len(play') PROVE Square(play'[k], typed'[k], receipt'[k])
    <2>1. k \in 1 .. Len(play)  BY <1>2
    <2>2. CASE k = i
      <3>1. play'[k] = p /\ typed'[k] = b /\ receipt'[k] = q  BY <1>2, <1>3, <1>4, <2>1, <2>2
      <3> QED  BY <3>1
    <2>3. CASE k # i
      <3>1. play'[k] = play[k] /\ typed'[k] = typed[k] /\ receipt'[k] = receipt[k]
        BY <1>2, <1>3, <1>4, <2>1, <2>3
      <3> QED  BY <2>1, <3>1 DEF BookInv
    <2> QED  BY <2>2, <2>3
  <1>10. ASSUME NEW t \in Threads PROVE Fair(session'[t], play')
    <2>1. CASE t = s  BY <1>5, <2>1, IdleIs DEF Fair
    <2>2. CASE t # s
      <3>1. PICK j : j = session[t]  OBVIOUS
      <3>2. Typed(j, Len(play), Len(request)) /\ Fair(j, play)  BY <3>1, HeldIs DEF BookInv
      <3>3. j.h = "pay" /\ j.id # 0 => j.id \in 1 .. Len(play) /\ j.id # i
        BY <1>1, <2>2, <3>1, <3>2, TypedIs
      <3>4. j.h = "pay" /\ j.id # 0 => play'[j.id] = play[j.id]  BY <1>2, <3>3
      <3>5. j.h # "edit"  BY <2>2, <3>1
      <3>6. Fair(j, play')  BY <3>2, <3>4, <3>5, FairStays
      <3> QED  BY <1>5, <2>2, <3>1, <3>6
    <2> QED  BY <2>1, <2>2
  <1> QED  BY <1>6, <1>8, <1>9, <1>10 DEF BookInv

\* A payment leaves its row square.
LEMMA PaySquare ==
    ASSUME NEW j, NEW r \in Nat, Good(j.row, r), j.amount \in Nat, j.date \in Nat, today \in Nat,
           NEW b \in Counts, NEW q \in Receipts, Square(j.row, b, q)
    PROVE  Square(PaidRow(j), TypedBy(j, b), Receipted(j, q))
  <1>1. PICK p : p = PaidRow(j)  OBVIOUS
  <1>2. PICK c : c = TypedBy(j, b)  OBVIOUS
  <1>3. PICK e : e = Receipted(j, q)  OBVIOUS
  <1>4. /\ p.paid = j.row.paid + j.amount /\ p \in Play
        /\ j.kind = "box" => p.due = j.row.due /\ p.end = j.row.end
        /\ j.kind # "box" /\ j.date # NoDate => p.due = j.date
        /\ j.kind # "box" /\ j.date = NoDate => p.due # NoDate /\ p.due >= Due(j.row) + LoadDays
    BY <1>1, PaidRowIs DEF Good
  <1>5. c.due = (IF j.date = NoDate \/ j.kind = "box" THEN b.due ELSE j.date)  BY <1>2, TypedByIs
  <1>6. /\ e.paid = q.paid + j.amount
        /\ j.kind = "box" => e.loads = q.loads
        /\ j.kind # "box" /\ j.date = NoDate => e.loads = q.loads + 1
        /\ j.kind # "box" /\ j.date # NoDate => e.loads = 0
    BY <1>3, ReceiptedIs
  <1>7. j.row.paid = q.paid /\ Due(j.row) >= b.due + LoadDays * q.loads  BY DEF Square
  <1>8. p.paid = e.paid  BY <1>4, <1>6, <1>7
  <1>9. /\ LoadDays * q.loads \in Nat /\ LoadDays * (q.loads + 1) = LoadDays * q.loads + LoadDays
        /\ LoadDays * 0 = 0 /\ LoadDays \in Nat
    BY OneMore, Parameters DEF Receipts
  <1>10. b.due \in Nat /\ Due(j.row) \in Nat /\ p.due \in Nat
    BY <1>4 DEF Counts, Due, Good, Play
  <1>11. Due(p) >= c.due + LoadDays * e.loads
    <2>1. CASE j.kind = "box"
      <3>1. Due(p) = Due(j.row) /\ c.due = b.due /\ e.loads = q.loads  BY <1>4, <1>5, <1>6, <2>1 DEF Due
      <3> QED  BY <1>7, <3>1
    <2>2. CASE j.kind # "box" /\ j.date # NoDate
      <3>1. Due(p) = j.date /\ c.due = j.date /\ e.loads = 0  BY <1>4, <1>5, <1>6, <2>2 DEF Due
      <3> QED  BY <1>9, <3>1
    <2>3. CASE j.kind # "box" /\ j.date = NoDate
      <3>1. Due(p) = p.due /\ p.due >= Due(j.row) + LoadDays /\ c.due = b.due
            /\ e.loads = q.loads + 1
        BY <1>4, <1>5, <1>6, <2>3 DEF Due
      <3>2. LoadDays * e.loads = LoadDays * q.loads + LoadDays  BY <1>9, <3>1
      <3> HIDE DEF Due
      <3> QED  BY <1>7, <1>9, <1>10, <3>1, <3>2
    <2> QED  BY <2>1, <2>2, <2>3
  <1> QED  BY <1>1, <1>2, <1>3, <1>8, <1>11 DEF Square

LEMMA BookPays ==
    ASSUME Inv, BookInv, "edit" \in Exclusive, NEW s \in Threads, CommitPay(s)
    PROVE  BookInv'
  <1>1. PICK j : j = session[s]  OBVIOUS
  <1>2. j.h = "pay" /\ session[s] # Idle  BY <1>1, DoingIs DEF CommitPay, Doing
  <1>3. /\ j.id \in 0 .. Len(play) /\ Good(j.row, Len(request)) /\ j.amount \in Nat /\ j.date \in Nat
        /\ Good(PaidRow(j), Len(request))
        /\ session' = [session EXCEPT ![s] = Idle]
    BY <1>1, CommitPayIs
  <1>4. Len(request) \in Nat /\ today \in Nat /\ PaidRow(j) \in Play
    BY <1>3, TablesAre DEF Inv, Tabled, Good
  <1>5. Fair(j, play)  BY <1>1 DEF BookInv
  <1>6. CASE j.id = 0
    <2> DEFINE b == [due |-> NoDate, n |-> 0]
    <2>1. /\ play' = Append(play, PaidRow(j)) /\ ticket' = Append(ticket, Unticketed)
          /\ typed' = Append(typed, TypedBy(j, b))
          /\ receipt' = Append(receipt, Receipted(j, NoReceipts))
      BY <1>1, <1>6, CommitPayIs
    <2>2. b \in Counts /\ b.due = 0  BY Parameters DEF Counts, NoDate
    <2>3. NoReceipts \in Receipts /\ Unticketed \in Ticket /\ NoReceipts.paid = 0 /\ NoReceipts.loads = 0
      BY DEF NoReceipts, Receipts, Unticketed, Ticket
    <2> HIDE DEF b
    <2>4. Square(j.row, b, NoReceipts)
      <3>1. j.row.paid = 0  BY <1>2, <1>5, <1>6 DEF Fair
      <3>2. Due(j.row) \in Nat  BY <1>3 DEF Good, Play, Due
      <3>3. LoadDays * 0 = 0  BY Parameters, OneMore
      <3> HIDE DEF Due
      <3> QED  BY <2>2, <2>3, <3>1, <3>2, <3>3 DEF Square
    <2>5. Square(PaidRow(j), TypedBy(j, b), Receipted(j, NoReceipts))
      BY <1>3, <1>4, <2>2, <2>3, <2>4, PaySquare
    <2>6. TypedBy(j, b) \in Counts /\ Receipted(j, NoReceipts) \in Receipts
      BY <1>3, <2>2, <2>3, TypedByIs, ReceiptedIs
    <2>7. Alone'  BY <1>2, <1>3, AloneGoes DEF BookInv
    <2>8. OneTill'
      <3>1. Idle.h # "pay"  BY IdleIs
      <3> QED  BY <1>3, <3>1, OneTillGoes DEF BookInv
    <2>9. \A u \in Threads : session'[u] = session[u] \/ session'[u] = Idle  BY <1>3, SessionIs
    <2> QED  BY <1>4, <2>1, <2>3, <2>5, <2>6, <2>7, <2>8, <2>9, BookAdds
  <1>7. CASE j.id # 0
    <2>1. /\ j.id \in 1 .. Len(play)
          /\ play' = [play EXCEPT ![j.id] = PaidRow(j)]
          /\ typed' = [typed EXCEPT ![j.id] = TypedBy(j, typed[j.id])]
          /\ receipt' = [receipt EXCEPT ![j.id] = Receipted(j, receipt[j.id])]
      BY <1>1, <1>7, CommitPayIs
    <2>2. typed[j.id] \in Counts /\ receipt[j.id] \in Receipts  BY <2>1, TablesAre DEF Inv
    <2>3. j.row = play[j.id]  BY <1>2, <1>5, <1>7 DEF Fair
    <2>4. Square(j.row, typed[j.id], receipt[j.id])  BY <2>1, <2>3 DEF BookInv
    <2>5. Square(PaidRow(j), TypedBy(j, typed[j.id]), Receipted(j, receipt[j.id]))
      BY <1>3, <1>4, <2>2, <2>4, PaySquare
    <2>6. TypedBy(j, typed[j.id]) \in Counts /\ Receipted(j, receipt[j.id]) \in Receipts
      BY <1>3, <2>2, TypedByIs, ReceiptedIs
    <2>7. \A t \in Threads : t # s /\ session[t].h = "pay" => session[t].id # j.id
      BY <1>1, <1>2, <1>7 DEF BookInv, OneTill
    <2>8. \A t \in Threads : t # s => session[t].h # "edit"
      <3> SUFFICES ASSUME NEW t \in Threads, t # s, session[t].h = "edit" PROVE FALSE  OBVIOUS
      <3>1. session[t] # Idle  BY DoingIs
      <3> QED  BY <1>2, <3>1 DEF BookInv, Alone
    <2> QED  BY <1>2, <1>3, <1>4, <2>1, <2>5, <2>6, <2>7, <2>8, BookWrites
  <1> QED  BY <1>6, <1>7

LEMMA BookEdits ==
    ASSUME Inv, BookInv, "edit" \in Exclusive, NEW s \in Threads, CommitEdit(s)
    PROVE  BookInv'
  <1>1. PICK j : j = session[s]  OBVIOUS
  <1>2. PICK b, q :
           /\ j.h = "edit" /\ j.id \in 1 .. Len(play) /\ Good(j.row, Len(request)) /\ ~Locked(j.id)
           /\ b \in Counts /\ b.due = IF j.dated THEN j.row.due ELSE typed[j.id].due
           /\ q \in Receipts /\ q.paid = receipt[j.id].paid
           /\ q.loads = IF j.dated THEN 0 ELSE receipt[j.id].loads
           /\ play' = [play EXCEPT ![j.id] = j.row]
           /\ typed' = [typed EXCEPT ![j.id] = b]
           /\ receipt' = [receipt EXCEPT ![j.id] = q]
           /\ session' = [session EXCEPT ![s] = Idle]
    BY <1>1, CommitEditIs
  <1>3. session[s] # Idle  BY <1>1, <1>2, DoingIs
  <1>4. \A t \in Threads : t # s => session[t] = Idle  BY <1>1, <1>2, <1>3 DEF BookInv, Alone
  <1>5. Fair(j, play)  BY <1>1 DEF BookInv
  <1>6. Square(play[j.id], typed[j.id], receipt[j.id])  BY <1>2 DEF BookInv
  <1>7. j.row \in Play  BY <1>2 DEF Good
  <1>8. Square(j.row, b, q)
    <2>1. j.row.paid = q.paid  BY <1>2, <1>5, <1>6 DEF Fair, Square
    <2>2. Due(j.row) >= b.due + LoadDays * q.loads
      <3>1. CASE j.dated
        <4>1. j.row.due = j.row.end /\ b.due = j.row.due /\ q.loads = 0  BY <1>2, <1>5, <3>1 DEF Fair
        <4>2. LoadDays * 0 = 0 /\ j.row.due \in Nat  BY <1>7, Parameters, OneMore DEF Play
        <4>3. Due(j.row) = j.row.due  BY <4>1 DEF Due
        <4> QED  BY <4>1, <4>2, <4>3
      <3>2. CASE ~j.dated
        <4>1. j.row.due = play[j.id].due /\ j.row.end = play[j.id].end
          BY <1>2, <1>5, <3>2 DEF Fair
        <4>2. b.due = typed[j.id].due /\ q.loads = receipt[j.id].loads  BY <1>2, <3>2
        <4>3. Due(j.row) = Due(play[j.id])  BY <4>1 DEF Due
        <4> QED  BY <1>6, <4>2, <4>3 DEF Square
      <3> QED  BY <3>1, <3>2
    <2> QED  BY <2>1, <2>2 DEF Square
  <1>9. \A t \in Threads : t # s /\ session[t].h = "pay" => session[t].id # j.id  BY <1>4, IdleIs
  <1>10. \A t \in Threads : t # s => session[t].h # "edit"  BY <1>4, IdleIs
  <1> QED  BY <1>2, <1>3, <1>7, <1>8, <1>9, <1>10, BookWrites

\* Everything but payments and corrections leaves receipts and dates alone.
LEMMA BookFiles ==
    ASSUME Inv, BookInv, NEW s \in Threads, CommitActivate(s) \/ CommitApprove(s)
    PROVE  BookInv'
  <1>1. PICK j : j = session[s]  OBVIOUS
  <1>2. j.h \in {"activate", "approve"} /\ session[s] # Idle
    BY <1>1, DoingIs DEF CommitActivate, CommitApprove, Doing
  <1>3. Good(j.row, Len(request)) /\ Fair(j, play)
    BY <1>1, <1>2, HeldIs, TypedIs DEF BookInv
  <1>4. PICK w : w = j.row  OBVIOUS
  <1>5. w \in Play /\ w.n \in 0 .. Months /\ w.due \in Nat /\ w.end \in Nat /\ w.paid \in Nat
    BY <1>3, <1>4, Parameters DEF Good, Play
  <1>6. session' = [session EXCEPT ![s] = Idle]  BY DEF CommitActivate, CommitApprove, End
  <1>7. PICK t \in Ticket : Added(w, t, w.paid)
    <2>1. CASE CommitActivate(s)
      <3>1. Added(w, [st |-> "PENDING", begun |-> FALSE], w.paid)
        BY <1>1, <1>4, <2>1 DEF CommitActivate
      <3>2. [st |-> "PENDING", begun |-> FALSE] \in Ticket  BY DEF Ticket
      <3> QED  BY <3>1, <3>2
    <2>2. CASE CommitApprove(s)
      <3>1. j.h = "approve"  BY <1>1, <2>2 DEF CommitApprove, Doing
      <3>2. w.paid = 0  BY <1>3, <1>4, <3>1 DEF Fair
      <3>3. Added(w, Unticketed, 0) /\ Unticketed \in Ticket
        BY <1>1, <1>4, <2>2 DEF CommitApprove, Ticket, Unticketed
      <3> QED  BY <3>2, <3>3
    <2> QED  BY <2>1, <2>2, <1>1 DEF CommitActivate, CommitApprove
  <1> DEFINE b == [due |-> Due(w), n |-> w.n]
             q == [paid |-> w.paid, loads |-> 0, boxes |-> 0]
  <1>8. /\ play' = Append(play, w) /\ ticket' = Append(ticket, t)
        /\ typed' = Append(typed, b) /\ receipt' = Append(receipt, q)
    BY <1>7 DEF Added
  <1>9. Due(w) \in Nat  BY <1>5 DEF Due
  <1>10. b \in Counts /\ q \in Receipts  BY <1>5, <1>9 DEF Counts, Receipts
  <1>11. Square(w, b, q)
    <2>1. LoadDays * 0 = 0  BY Parameters, OneMore
    <2> QED  BY <1>9, <2>1 DEF Square
  <1> HIDE DEF b, q
  <1>12. Alone'  BY <1>2, <1>6, AloneGoes DEF BookInv
  <1>13. OneTill'
    <2>1. Idle.h # "pay"  BY IdleIs
    <2> QED  BY <1>6, <2>1, OneTillGoes DEF BookInv
  <1>14. \A u \in Threads : session'[u] = session[u] \/ session'[u] = Idle  BY <1>6, SessionIs
  <1> QED  BY <1>5, <1>8, <1>10, <1>11, <1>12, <1>13, <1>14, BookAdds

LEMMA BookForms ==
    ASSUME Inv, BookInv, Filed
    PROVE  BookInv'
  <1>1. PICK w : /\ Good(w, Len(request)) /\ Added(w, Unticketed, 0) /\ w.paid = 0
                 /\ UNCHANGED session
    BY DEF Filed
  <1>2. w \in Play /\ w.n \in 0 .. Months /\ w.due \in Nat /\ w.end \in Nat
    BY <1>1, Parameters DEF Good, Play
  <1> DEFINE b == [due |-> Due(w), n |-> w.n]
             q == [paid |-> 0, loads |-> 0, boxes |-> 0]
  <1>3. /\ play' = Append(play, w) /\ ticket' = Append(ticket, Unticketed)
        /\ typed' = Append(typed, b) /\ receipt' = Append(receipt, q)
    BY <1>1 DEF Added
  <1>4. Due(w) \in Nat  BY <1>2 DEF Due
  <1>5. b \in Counts /\ q \in Receipts  BY <1>2, <1>4 DEF Counts, Receipts
  <1>6. Square(w, b, q)
    <2>1. LoadDays * 0 = 0  BY Parameters, OneMore
    <2> QED  BY <1>1, <1>4, <2>1 DEF Square
  <1>7. Unticketed \in Ticket  BY DEF Ticket, Unticketed
  <1> HIDE DEF b, q
  <1>8. Alone' /\ OneTill'  BY <1>1 DEF BookInv, Alone, OneTill
  <1> QED  BY <1>1, <1>2, <1>3, <1>5, <1>6, <1>7, <1>8, BookAdds

LEMMA BookCancels ==
    ASSUME Inv, BookInv, NEW s \in Threads, NEW i \in 1 .. Len(play), OpenCancel(s, i)
    PROVE  BookInv'
  <1> DEFINE j == [h |-> "cancel", id |-> i]
  <1>1. session' = [session EXCEPT ![s] = j] /\ UNCHANGED <<play, typed, receipt>>
    BY DEF OpenCancel, Go
  <1>2. /\ session[s] = Idle
        /\ \A t \in Threads : session[t] # Idle => session[t].h \notin Exclusive
    BY FreeIs DEF OpenCancel
  <1>3. session'[s] = j /\ \A t \in Threads : t # s => session'[t] = session[t]
    BY <1>1, SessionIs
  <1>4. Alone'
    <2> SUFFICES ASSUME NEW u \in Threads, NEW t \in Threads, session'[u] # Idle,
                        session'[u].h \in Exclusive \cap {"edit", "crew"}, t # u
                 PROVE  session'[t] = Idle
      BY DEF Alone
    <2>1. u # s  BY <1>3
    <2> QED  BY <1>2, <1>3, <2>1
  <1>5. OneTill'
    <2>1. j.h # "pay"  OBVIOUS
    <2> HIDE DEF j
    <2> QED  BY <1>1, <2>1, OneTillGoes DEF BookInv
  <1>6. Fair(j, play)  BY DEF Fair
  <1> HIDE DEF j
  <1>7. ASSUME NEW t \in Threads PROVE Fair(session'[t], play)  BY <1>3, <1>6 DEF BookInv
  <1> QED  BY <1>1, <1>4, <1>5, <1>7 DEF BookInv

\* The flag of one row, set or lifted by a thread that goes on.
LEMMA BookFlag ==
    ASSUME Inv, BookInv, NEW s \in Threads, NEW i \in 1 .. Len(play), NEW j,
           NEW v \in {"live", "cancelled", "gone"},
           session[s] # Idle, session' = [session EXCEPT ![s] = j],
           j = Idle \/ j.h \notin {"pay", "approve", "edit", "crew"},
           ~Locked(i), play' = [play EXCEPT ![i].st = v], UNCHANGED <<typed, receipt>>
    PROVE  BookInv'
  <1>0. j.h \notin {"pay", "approve", "edit"}  BY IdleIs
  <1>1. PICK p : p = [play[i] EXCEPT !.st = v]  OBVIOUS
  <1>2. /\ play' = [play EXCEPT ![i] = p] /\ Good(p, Len(request))
        /\ p.paid = play[i].paid /\ p.due = play[i].due /\ p.end = play[i].end
    BY <1>1, StatusIs
  <1>3. Len(play') = Len(play) /\ \A k \in 1 .. Len(play) : play'[k] = IF k = i THEN p ELSE play[k]
    BY <1>2, WriteTypes
  <1>4. Alone'  BY AloneGoes DEF BookInv
  <1>5. OneTill'  BY <1>0, OneTillGoes DEF BookInv
  <1>6. ASSUME NEW k \in 1 .. Len(play)
        PROVE  /\ play'[k] = play[k] \/ ~Locked(k)
               /\ play'[k].paid = play[k].paid
               /\ play'[k].due = play[k].due /\ play'[k].end = play[k].end
    BY <1>2, <1>3
  <1>7. \A u \in Threads : session'[u] = session[u] \/ session'[u].h \notin {"pay", "approve", "edit"}
    BY <1>0, SessionIs
  <1> QED  BY <1>3, <1>4, <1>5, <1>6, <1>7, BookFlags

LEMMA BookPurges ==
    ASSUME Inv, BookInv, (\E i \in 1 .. Len(play) : Purge(i)) \/ PurgeAll
    PROVE  BookInv'
  <1>1. UNCHANGED <<typed, receipt, session>>  BY DEF Purge, PurgeAll
  <1>2. Alone' /\ OneTill'  BY <1>1 DEF BookInv, Alone, OneTill
  <1>3. /\ Len(play') = Len(play)
        /\ \A k \in 1 .. Len(play) :
              /\ play'[k] = play[k] \/ ~Locked(k)
              /\ play'[k].paid = play[k].paid
              /\ play'[k].due = play[k].due /\ play'[k].end = play[k].end
    <2>1. ASSUME NEW i \in 1 .. Len(play), Purge(i)
          PROVE  /\ Len(play') = Len(play)
                 /\ \A k \in 1 .. Len(play) :
                       /\ play'[k] = play[k] \/ ~Locked(k)
                       /\ play'[k].paid = play[k].paid
                       /\ play'[k].due = play[k].due /\ play'[k].end = play[k].end
      <3>1. PICK p : p = Gone(play[i])  OBVIOUS
      <3>2. play' = [play EXCEPT ![i] = p] /\ ~Locked(i)  BY <2>1, <3>1 DEF Purge
      <3>3. /\ Good(p, Len(request))
            /\ p.paid = play[i].paid /\ p.due = play[i].due /\ p.end = play[i].end
        BY <3>1, StatusIs DEF Gone
      <3>4. Len(play') = Len(play)
            /\ \A k \in 1 .. Len(play) : play'[k] = IF k = i THEN p ELSE play[k]
        BY <3>2, <3>3, WriteTypes
      <3> QED  BY <3>2, <3>3, <3>4
    <2>2. ASSUME PurgeAll
          PROVE  /\ Len(play') = Len(play)
                 /\ \A k \in 1 .. Len(play) :
                       /\ play'[k] = play[k] \/ ~Locked(k)
                       /\ play'[k].paid = play[k].paid
                       /\ play'[k].due = play[k].due /\ play'[k].end = play[k].end
      BY <2>2, PurgeAllIs
    <2> QED  BY <2>1, <2>2
  <1>4. \A u \in Threads : session'[u] = session[u] \/ session'[u].h \notin {"pay", "approve", "edit"}
    BY <1>1
  <1> QED  BY <1>1, <1>2, <1>3, <1>4, BookFlags

LEMMA BookStays ==
    ASSUME Inv, BookInv, UNCHANGED <<play, typed, receipt, session>>
    PROVE  BookInv'
  BY DEF BookInv, Alone, OneTill

LEMMA BookNext ==
    ASSUME Inv, BookInv, "edit" \in Exclusive, [Next]_vars
    PROVE  BookInv'
  <1>1. ASSUME Step PROVE BookInv'
    <2>1. ASSUME NEW s \in Threads, Opening(s) PROVE BookInv'
      <3>1. PICK j, h : Opened(s, j, h)  BY <2>1, OpeningIs
      <3> QED  BY <3>1, BookOpens
    <2>2. ASSUME NEW s \in Threads, CommitWithdraw(s) \/ CommitResolve(s) \/ CommitCrew(s) \/ EraseNumbers(s)
          PROVE  BookInv'
      <3>1. session' = [session EXCEPT ![s] = Idle] /\ UNCHANGED <<play, typed, receipt>>
        BY <2>2 DEF CommitWithdraw, CommitResolve, CommitCrew, EraseNumbers, End
      <3>2. session[s] # Idle
        BY <2>2, DoingIs DEF CommitWithdraw, CommitResolve, CommitCrew, EraseNumbers, Doing
      <3> QED  BY <3>1, <3>2, BookGoes
    <2>3. ASSUME NEW s \in Threads, ReadRemaining(s) PROVE BookInv'
      <3>1. PICK j : j = session[s]  OBVIOUS
      <3>2. Typed(j, Len(play), Len(request)) /\ j.h = "clear" /\ session[s] # Idle
        BY <2>3, <3>1, HeldIs, DoingIs DEF ReadRemaining, Doing
      <3>3. j \in [h : {"clear", "erase"}, cust : Customers]  BY <3>2, TypedIs
      <3>4. PICK k : k = [j EXCEPT !.h = "erase"]  OBVIOUS
      <3>5. k.h = "erase"  BY <3>3, <3>4
      <3>6. UNCHANGED <<play, typed, receipt>>  BY <2>3 DEF ReadRemaining, Tables
      <3>7. session' = [session EXCEPT ![s] = k] \/ session' = [session EXCEPT ![s] = Idle]
        BY <2>3, <3>1, <3>4 DEF ReadRemaining, Go, End
      <3> QED  BY <3>2, <3>5, <3>6, <3>7, BookGoes
    <2>4. ASSUME NEW s \in Threads, FlagCancel(s) PROVE BookInv'
      <3>1. PICK i : i = session[s].id  OBVIOUS
      <3>2. session[s].h = "cancel" /\ session[s] # Idle  BY <2>4, DoingIs DEF FlagCancel, Doing
      <3>3. i \in 1 .. Len(play)  BY <3>1, <3>2, HeldIs, TypedIs
      <3>4. UNCHANGED <<typed, receipt>> /\ ~Locked(i)  BY <2>4, <3>1 DEF FlagCancel
      <3>5. CASE play[i].st = "gone"
        <4>1. UNCHANGED play /\ session' = [session EXCEPT ![s] = Idle]
          BY <2>4, <3>1, <3>5 DEF FlagCancel, End
        <4> QED  BY <3>2, <3>4, <4>1, BookGoes
      <3>6. CASE play[i].st # "gone"
        <4>1. PICK j : j = [h |-> "clear", cust |-> play[i].cust]  OBVIOUS
        <4>2. j.h = "clear"  BY <4>1
        <4>3. play' = [play EXCEPT ![i].st = "cancelled"] /\ session' = [session EXCEPT ![s] = j]
          BY <2>4, <3>1, <3>6, <4>1 DEF FlagCancel, Go
        <4> QED  BY <3>2, <3>3, <3>4, <4>2, <4>3, BookFlag
      <3> QED  BY <3>5, <3>6
    <2>5. ASSUME NEW s \in Threads, CommitRestore(s) PROVE BookInv'
      <3>1. PICK i : i = session[s].id  OBVIOUS
      <3>2. session[s].h = "restore" /\ session[s] # Idle
        BY <2>5, DoingIs DEF CommitRestore, Doing
      <3>3. i \in 1 .. Len(play)  BY <3>1, <3>2, HeldIs, TypedIs
      <3>4. UNCHANGED <<typed, receipt>> /\ ~Locked(i) /\ session' = [session EXCEPT ![s] = Idle]
        BY <2>5, <3>1 DEF CommitRestore, End
      <3>5. CASE play[i].st = "gone"
        <4>1. UNCHANGED play  BY <2>5, <3>1, <3>5 DEF CommitRestore
        <4> QED  BY <3>2, <3>4, <4>1, BookGoes
      <3>6. CASE play[i].st # "gone"
        <4>1. play' = [play EXCEPT ![i].st = "live"]  BY <2>5, <3>1, <3>6 DEF CommitRestore
        <4> QED  BY <3>2, <3>3, <3>4, <4>1, BookFlag
      <3> QED  BY <3>5, <3>6
    <2>6. ASSUME NEW c \in Customers, Apply(c) PROVE BookInv'
      <3>1. UNCHANGED <<play, typed, receipt, session>>  BY <2>6 DEF Apply
      <3> QED  BY <3>1, BookStays
    <2> QED
      BY <1>1, <2>1, <2>2, <2>3, <2>4, <2>5, <2>6, StepIs, BookFiles, BookPays, BookEdits,
         BookCancels, BookForms, BookPurges
  <1>2. ASSUME Tick \/ UNCHANGED vars PROVE BookInv'
    <2>1. UNCHANGED <<play, typed, receipt, session>>  BY <1>2 DEF Tick, Tables, vars
    <2> QED  BY <2>1, BookStays
  <1> QED  BY <1>1, <1>2 DEF Next, AtRest

LEMMA BookInit == Init => BookInv
  <1> SUFFICES ASSUME Init PROVE BookInv  OBVIOUS
  <1>1. play = <<>> /\ session = [s \in Threads |-> Idle]  BY DEF Init
  <1>2. Len(<<>>) = 0  BY EmptySeq
  <1>3. \A s \in Threads : session[s] = Idle  BY <1>1
  <1>4. Alone  BY <1>3 DEF Alone
  <1>5. OneTill  BY <1>3, IdleIs DEF OneTill
  <1>6. \A s \in Threads : Fair(session[s], play)  BY <1>3, IdleIs DEF Fair
  <1>7. 1 .. Len(play) = {}  BY <1>1, <1>2
  <1> QED  BY <1>4, <1>5, <1>6, <1>7 DEF BookInv

\* When no correction runs next to another request, every row is what its
\* receipts say, in money and in days.
THEOREM BookCorrect ==
    ASSUME "edit" \in Exclusive
    PROVE  Spec => []BookInv
  <1>1. Inv /\ BookInv /\ [Next]_vars => BookInv'  BY BookNext
  <1> QED  BY <1>1, BookInit, InvCorrect, PTL DEF Spec

\* No payment is lost: the sum on the subscription is that of its Payment rows,
\* though two tills, a pull-out, a restore and a purge run at once.
THEOREM ReceiptsAddUp ==
    ASSUME "edit" \in Exclusive
    PROVE  Spec => []PaidIsReceipted
  <1>1. Inv /\ BookInv => PaidIsReceipted
    BY TablesAre DEF Inv, BookInv, Square, PaidIsReceipted
  <1> QED  BY <1>1, InvCorrect, BookCorrect, PTL

\* Every load paid for moved the due date on by its days since staff last typed it.
THEOREM LoadsKeepDays ==
    ASSUME "edit" \in Exclusive
    PROVE  Spec => []LoadsAddUp
  <1>1. Inv /\ BookInv => LoadsAddUp
    BY TablesAre DEF Inv, BookInv, Square, LoadsAddUp
  <1> QED  BY <1>1, InvCorrect, BookCorrect, PTL

-----------------------------------------------------------------------------
(* A job waits for a live line *)

\* The thread that goes on may take no row off the air that waits.
LEMMA JobGoes ==
    ASSUME Inv, JobInv, NEW s \in Threads, NEW j, session' = [session EXCEPT ![s] = j], Alone',
           Len(play') = Len(play), UNCHANGED ticket,
           \A i \in 1 .. Len(play) : Waiting(ticket[i]) => play'[i].st = "live" /\ ~Leaves(j, i),
           Crewed(j, ticket), j.h = "activate" => j.row.st = "live"
    PROVE  JobInv'
  <1>1. session'[s] = j /\ \A t \in Threads : t # s => session'[t] = session[t]  BY SessionIs
  <1>2. ASSUME NEW i \in 1 .. Len(play')
        PROVE  /\ Waiting(ticket'[i]) => play'[i].st = "live" /\ \A t \in Threads : ~Leaves(session'[t], i)
               /\ ticket'[i].st = "IN_PROGRESS" => ticket'[i].begun
    <2>1. i \in 1 .. Len(play) /\ ticket'[i] = ticket[i]  OBVIOUS
    <2>2. ASSUME Waiting(ticket[i]), NEW t \in Threads PROVE ~Leaves(session'[t], i)
      <3>1. CASE t = s  BY <1>1, <2>1, <2>2, <3>1
      <3>2. CASE t # s  BY <1>1, <2>1, <2>2, <3>2 DEF JobInv
      <3> QED  BY <3>1, <3>2
    <2> QED  BY <2>1, <2>2 DEF JobInv
  <1>3. ASSUME NEW t \in Threads
        PROVE  /\ Crewed(session'[t], ticket')
               /\ session'[t].h = "activate" => session'[t].row.st = "live"
    <2>1. CASE t = s  BY <1>1, <2>1
    <2>2. CASE t # s  BY <1>1, <2>2 DEF JobInv
    <2> QED  BY <2>1, <2>2
  <1> QED  BY <1>2, <1>3 DEF JobInv

LEMMA JobOpens ==
    ASSUME Inv, JobInv, NEW s \in Threads, NEW j, NEW h, Opened(s, j, h)
    PROVE  JobInv'
  <1>1. session' = [session EXCEPT ![s] = j] /\ UNCHANGED <<play, ticket>>
    BY DEF Opened, Go, Tables
  <1>2. Alone'  BY AloneOpens DEF JobInv
  <1>3. ASSUME NEW i \in 1 .. Len(play), Waiting(ticket[i])
        PROVE  play'[i].st = "live" /\ ~Leaves(j, i)
    <2>1. play[i].st = "live"  BY <1>3 DEF JobInv
    <2>2. i # 0  OBVIOUS
    <2>3. j.h \in {"pay", "edit"} /\ j.id = i => j.row.st = play[i].st  BY <2>2 DEF Opened
    <2>4. j.h # "cancel"  BY DEF Opened
    <2> QED  BY <1>1, <2>1, <2>3, <2>4 DEF Leaves
  <1>4. Crewed(j, ticket)
    <2> SUFFICES ASSUME j.h = "crew"
                 PROVE  /\ Waiting(j.next) => Waiting(ticket[j.id])
                        /\ j.next.st = "IN_PROGRESS" => j.next.begun
      BY DEF Crewed
    <2>1. j.id \in 1 .. Len(play)  BY DEF Opened
    <2>2. ticket[j.id].st = "IN_PROGRESS" => ticket[j.id].begun  BY <2>1 DEF JobInv
    <2> QED  BY <2>2 DEF Opened
  <1>5. j.h = "activate" => j.row.st = "live"  BY DEF Opened
  <1>6. Len(play') = Len(play) /\ ticket' = ticket  BY <1>1
  <1> QED  BY <1>1, <1>2, <1>3, <1>4, <1>5, <1>6, JobGoes

\* A thread that goes on without a write to a row that is on the air.
LEMMA JobContinues ==
    ASSUME Inv, JobInv, NEW s \in Threads, NEW j, session' = [session EXCEPT ![s] = j],
           session[s] # Idle, j = Idle \/ j.h \in {"clear", "erase"},
           Len(play') = Len(play), UNCHANGED ticket,
           \A i \in 1 .. Len(play) : Waiting(ticket[i]) => play'[i].st = "live"
    PROVE  JobInv'
  <1>1. j.h \notin {"cancel", "pay", "edit", "crew", "activate"}  BY IdleIs
  <1>2. Alone'  BY <1>1, AloneGoes DEF JobInv
  <1>3. \A i : ~Leaves(j, i)  BY <1>1 DEF Leaves
  <1>4. Crewed(j, ticket)  BY <1>1 DEF Crewed
  <1> QED  BY <1>1, <1>2, <1>3, <1>4, JobGoes

LEMMA JobAdds ==
    ASSUME Inv, JobInv, NEW p \in Play, NEW t \in Ticket, NEW b \in Counts, NEW q \in Receipts,
           play' = Append(play, p), ticket' = Append(ticket, t),
           typed' = Append(typed, b), receipt' = Append(receipt, q), Alone',
           Waiting(t) => p.st = "live", t.st # "IN_PROGRESS",
           \A u \in Threads : session'[u] = session[u] \/ session'[u] = Idle
    PROVE  JobInv'
  <1>1. /\ Len(play') = Len(play) + 1 /\ Len(play) \in Nat
        /\ \A k \in 1 .. Len(play) : play'[k] = play[k] /\ ticket'[k] = ticket[k]
        /\ play'[Len(play) + 1] = p /\ ticket'[Len(play) + 1] = t
    BY RowsAdded
  <1>2. \A i : ~Leaves(Idle, i)  BY IdleIs DEF Leaves
  <1>3. ASSUME NEW u \in Threads, NEW i \in 1 .. Len(play'),
               i \in 1 .. Len(play) => ~Leaves(session[u], i)
        PROVE  ~Leaves(session'[u], i)
    <2>1. CASE session'[u] = Idle  BY <1>2, <2>1
    <2>2. CASE session'[u] = session[u] /\ i \in 1 .. Len(play)  BY <1>3, <2>2
    <2>3. CASE session'[u] = session[u] /\ i \notin 1 .. Len(play)
      <3>1. PICK j : j = session[u]  OBVIOUS
      <3>2. Typed(j, Len(play), Len(request))  BY <3>1, HeldIs
      <3>3. j.h = "pay" => j.id \in 0 .. Len(play)  BY <3>2, TypedIs
      <3>4. j.h \in {"edit", "cancel"} => j.id \in 1 .. Len(play)  BY <3>2, TypedIs
      <3>5. i # 0 /\ i \notin 0 .. Len(play)  BY <1>1, <2>3
      <3>6. ~Leaves(j, i)  BY <2>3, <3>3, <3>4, <3>5 DEF Leaves
      <3> QED  BY <2>3, <3>1, <3>6
    <2> QED  BY <2>1, <2>2, <2>3
  <1>4. ASSUME NEW i \in 1 .. Len(play')
        PROVE  /\ Waiting(ticket'[i]) => play'[i].st = "live" /\ \A u \in Threads : ~Leaves(session'[u], i)
               /\ ticket'[i].st = "IN_PROGRESS" => ticket'[i].begun
    <2>1. CASE i = Len(play) + 1
      <3>1. i \notin 1 .. Len(play)  BY <1>1, <2>1
      <3> QED  BY <1>1, <1>3, <2>1, <3>1
    <2>2. CASE i # Len(play) + 1
      <3>1. i \in 1 .. Len(play)  BY <1>1, <2>2
      <3> QED  BY <1>1, <1>3, <3>1 DEF JobInv
    <2> QED  BY <2>1, <2>2
  <1>5. ASSUME NEW u \in Threads
        PROVE  /\ Crewed(session'[u], ticket')
               /\ session'[u].h = "activate" => session'[u].row.st = "live"
    <2>1. CASE session'[u] = Idle  BY <2>1, IdleIs DEF Crewed
    <2>2. CASE session'[u] = session[u]
      <3>1. PICK j : j = session[u]  OBVIOUS
      <3>2. Typed(j, Len(play), Len(request)) /\ Crewed(j, ticket)  BY <3>1, HeldIs DEF JobInv
      <3>3. j.h = "crew" => j.id \in 1 .. Len(play)  BY <3>2, TypedIs
      <3>4. j.h = "crew" => ticket'[j.id] = ticket[j.id]  BY <1>1, <3>3
      <3>5. Crewed(j, ticket')  BY <3>2, <3>4 DEF Crewed
      <3> QED  BY <2>2, <3>1, <3>5 DEF JobInv
    <2> QED  BY <2>1, <2>2
  <1> QED  BY <1>4, <1>5 DEF JobInv

LEMMA JobFiles ==
    ASSUME Inv, JobInv, NEW s \in Threads, CommitActivate(s) \/ CommitApprove(s)
    PROVE  JobInv'
  <1>1. PICK j : j = session[s]  OBVIOUS
  <1>2. j.h \in {"activate", "approve"} /\ session[s] # Idle
    BY <1>1, DoingIs DEF CommitActivate, CommitApprove, Doing
  <1>3. PICK w : w = j.row  OBVIOUS
  <1>4. Good(w, Len(request))  BY <1>1, <1>2, <1>3, HeldIs, TypedIs
  <1>5. w \in Play /\ w.n \in 0 .. Months /\ w.due \in Nat /\ w.end \in Nat /\ w.paid \in Nat
    BY <1>4, Parameters DEF Good, Play
  <1>6. session' = [session EXCEPT ![s] = Idle]  BY DEF CommitActivate, CommitApprove, End
  <1>7. PICK t \in Ticket, a \in Nat :
             Added(w, t, a) /\ (Waiting(t) => w.st = "live") /\ t.st # "IN_PROGRESS"
    <2>1. CASE CommitActivate(s)
      <3>1. Added(w, [st |-> "PENDING", begun |-> FALSE], w.paid)
        BY <1>1, <1>3, <2>1 DEF CommitActivate
      <3>2. [st |-> "PENDING", begun |-> FALSE] \in Ticket  BY DEF Ticket
      <3>3. j.h = "activate"  BY <1>1, <2>1 DEF CommitActivate, Doing
      <3>4. w.st = "live"  BY <1>1, <1>3, <3>3 DEF JobInv
      <3> QED  BY <1>5, <3>1, <3>2, <3>4
    <2>2. CASE CommitApprove(s)
      <3>1. Added(w, Unticketed, 0) /\ Unticketed \in Ticket
        BY <1>1, <1>3, <2>2 DEF CommitApprove, Ticket, Unticketed
      <3>2. ~Waiting(Unticketed) /\ Unticketed.st # "IN_PROGRESS"  BY DEF Unticketed, Waiting
      <3> QED  BY <3>1, <3>2
    <2> QED  BY <2>1, <2>2
  <1> DEFINE b == [due |-> Due(w), n |-> w.n]
             q == [paid |-> a, loads |-> 0, boxes |-> 0]
  <1>8. /\ play' = Append(play, w) /\ ticket' = Append(ticket, t)
        /\ typed' = Append(typed, b) /\ receipt' = Append(receipt, q)
    BY <1>7 DEF Added
  <1>9. Due(w) \in Nat  BY <1>5 DEF Due
  <1>10. b \in Counts /\ q \in Receipts  BY <1>5, <1>9 DEF Counts, Receipts
  <1> HIDE DEF b, q
  <1>11. Alone'  BY <1>2, <1>6, AloneGoes DEF JobInv
  <1>12. \A u \in Threads : session'[u] = session[u] \/ session'[u] = Idle  BY <1>6, SessionIs
  <1> QED  BY <1>5, <1>7, <1>8, <1>10, <1>11, <1>12, JobAdds

LEMMA JobForms ==
    ASSUME Inv, JobInv, Filed
    PROVE  JobInv'
  <1>1. PICK w : /\ Good(w, Len(request)) /\ Added(w, Unticketed, 0) /\ UNCHANGED session
    BY DEF Filed
  <1>2. w \in Play /\ w.n \in 0 .. Months /\ w.due \in Nat /\ w.end \in Nat
    BY <1>1, Parameters DEF Good, Play
  <1> DEFINE b == [due |-> Due(w), n |-> w.n]
             q == [paid |-> 0, loads |-> 0, boxes |-> 0]
  <1>3. /\ play' = Append(play, w) /\ ticket' = Append(ticket, Unticketed)
        /\ typed' = Append(typed, b) /\ receipt' = Append(receipt, q)
    BY <1>1 DEF Added
  <1>4. Due(w) \in Nat  BY <1>2 DEF Due
  <1>5. b \in Counts /\ q \in Receipts  BY <1>2, <1>4 DEF Counts, Receipts
  <1>6. Unticketed \in Ticket /\ ~Waiting(Unticketed) /\ Unticketed.st # "IN_PROGRESS"
    BY DEF Ticket, Unticketed, Waiting
  <1> HIDE DEF b, q
  <1>7. Alone'  BY <1>1 DEF JobInv, Alone
  <1> QED  BY <1>1, <1>2, <1>3, <1>5, <1>6, <1>7, JobAdds

LEMMA JobPays ==
    ASSUME Inv, JobInv, NEW s \in Threads, CommitPay(s)
    PROVE  JobInv'
  <1>1. PICK j : j = session[s]  OBVIOUS
  <1>2. j.h = "pay" /\ session[s] # Idle  BY <1>1, DoingIs DEF CommitPay, Doing
  <1>3. /\ j.id \in 0 .. Len(play) /\ Good(j.row, Len(request)) /\ j.amount \in Nat /\ j.date \in Nat
        /\ Good(PaidRow(j), Len(request))
        /\ session' = [session EXCEPT ![s] = Idle]
    BY <1>1, CommitPayIs
  <1>4. Len(request) \in Nat /\ today \in Nat /\ PaidRow(j) \in Play
    BY <1>3, TablesAre DEF Inv, Tabled, Good
  <1>5. CASE j.id = 0
    <2> DEFINE b == [due |-> NoDate, n |-> 0]
    <2>1. /\ play' = Append(play, PaidRow(j)) /\ ticket' = Append(ticket, Unticketed)
          /\ typed' = Append(typed, TypedBy(j, b))
          /\ receipt' = Append(receipt, Receipted(j, NoReceipts))
      BY <1>1, <1>5, CommitPayIs
    <2>2. b \in Counts  BY Parameters DEF Counts, NoDate
    <2>3. NoReceipts \in Receipts /\ Unticketed \in Ticket /\ ~Waiting(Unticketed)
          /\ Unticketed.st # "IN_PROGRESS"
      BY DEF NoReceipts, Receipts, Unticketed, Ticket, Waiting
    <2> HIDE DEF b
    <2>4. TypedBy(j, b) \in Counts /\ Receipted(j, NoReceipts) \in Receipts
      BY <1>3, <2>2, <2>3, TypedByIs, ReceiptedIs
    <2>5. Alone'  BY <1>2, <1>3, AloneGoes DEF JobInv
    <2>6. \A u \in Threads : session'[u] = session[u] \/ session'[u] = Idle  BY <1>3, SessionIs
    <2> QED  BY <1>4, <2>1, <2>3, <2>4, <2>5, <2>6, JobAdds
  <1>6. CASE j.id # 0
    <2>1. /\ j.id \in 1 .. Len(play) /\ play' = [play EXCEPT ![j.id] = PaidRow(j)]
          /\ UNCHANGED ticket
      BY <1>1, <1>6, CommitPayIs
    <2>2. Len(play') = Len(play)
          /\ \A k \in 1 .. Len(play) : play'[k] = IF k = j.id THEN PaidRow(j) ELSE play[k]
      BY <1>3, <2>1, WriteTypes
    <2>3. PaidRow(j).st = j.row.st  BY <1>3, <1>4, PaidRowIs
    <2>4. ASSUME NEW i \in 1 .. Len(play), Waiting(ticket[i]) PROVE play'[i].st = "live"
      <3>1. play[i].st = "live" /\ ~Leaves(j, i)  BY <1>1, <2>4 DEF JobInv
      <3>2. i = j.id => j.row.st = "live"  BY <1>2, <3>1 DEF Leaves
      <3> QED  BY <2>2, <2>3, <3>1, <3>2
    <2> QED  BY <1>2, <1>3, <2>1, <2>2, <2>4, JobContinues
  <1> QED  BY <1>5, <1>6

LEMMA JobEdits ==
    ASSUME Inv, JobInv, NEW s \in Threads, CommitEdit(s)
    PROVE  JobInv'
  <1>1. PICK j : j = session[s]  OBVIOUS
  <1>2. /\ j.h = "edit" /\ j.id \in 1 .. Len(play) /\ Good(j.row, Len(request))
        /\ play' = [play EXCEPT ![j.id] = j.row]
        /\ session' = [session EXCEPT ![s] = Idle] /\ UNCHANGED ticket
    BY <1>1, CommitEditIs
  <1>3. session[s] # Idle  BY <1>1, <1>2, DoingIs
  <1>4. Len(play') = Len(play)
        /\ \A k \in 1 .. Len(play) : play'[k] = IF k = j.id THEN j.row ELSE play[k]
    BY <1>2, WriteTypes
  <1>5. ASSUME NEW i \in 1 .. Len(play), Waiting(ticket[i]) PROVE play'[i].st = "live"
    <2>1. play[i].st = "live" /\ ~Leaves(j, i)  BY <1>1, <1>5 DEF JobInv
    <2>2. i = j.id => j.row.st = "live"  BY <1>2, <2>1 DEF Leaves
    <2> QED  BY <1>4, <2>1, <2>2
  <1> QED  BY <1>2, <1>3, <1>4, <1>5, JobContinues

\* First the jobs of the customer are called off, those of the row among them.
LEMMA JobCancels ==
    ASSUME Inv, JobInv, "crew" \in Exclusive, NEW s \in Threads, NEW i \in 1 .. Len(play), OpenCancel(s, i)
    PROVE  JobInv'
  <1> DEFINE j == [h |-> "cancel", id |-> i]
  <1>1. session' = [session EXCEPT ![s] = j] /\ UNCHANGED play  BY DEF OpenCancel, Go
  <1>2. /\ session[s] = Idle
        /\ \A t \in Threads : session[t] # Idle => session[t].h \notin Exclusive
    BY FreeIs DEF OpenCancel
  <1>3. session'[s] = j /\ \A t \in Threads : t # s => session'[t] = session[t]
    BY <1>1, SessionIs
  <1>4. \A k \in 1 .. Len(play) :
           ticket'[k] = IF play[k].cust = play[i].cust THEN PulledOut(ticket[k]) ELSE ticket[k]
    BY TablesAre DEF OpenCancel, Inv
  <1>5. \A k \in 1 .. Len(play) : ticket[k] \in Ticket  BY TablesAre DEF Inv
  <1>6. Alone'
    <2> SUFFICES ASSUME NEW u \in Threads, NEW t \in Threads, session'[u] # Idle,
                        session'[u].h \in Exclusive \cap {"edit", "crew"}, t # u
                 PROVE  session'[t] = Idle
      BY DEF Alone
    <2>1. u # s  BY <1>3
    <2> QED  BY <1>2, <1>3, <2>1
  <1>7. ASSUME NEW k \in 1 .. Len(play)
        PROVE  /\ Waiting(ticket'[k]) => Waiting(ticket[k]) /\ k # i
               /\ ticket'[k].st = "IN_PROGRESS" => ticket'[k].begun
    <2>1. PulledOut(ticket[k]).begun = ticket[k].begun /\ ~Waiting(PulledOut(ticket[k]))
          /\ (PulledOut(ticket[k]).st = "IN_PROGRESS" => ticket[k].st = "IN_PROGRESS")
      BY <1>5, PulledOutIs DEF Waiting
    <2>2. ticket[k].st = "IN_PROGRESS" => ticket[k].begun  BY DEF JobInv
    <2>3. CASE play[k].cust = play[i].cust  BY <1>4, <2>1, <2>2, <2>3
    <2>4. CASE play[k].cust # play[i].cust  BY <1>4, <2>2, <2>4
    <2> QED  BY <2>3, <2>4
  <1>8. ASSUME NEW k \in 1 .. Len(play), Waiting(ticket'[k])
        PROVE  play[k].st = "live" /\ \A t \in Threads : ~Leaves(session'[t], k)
    <2>1. Waiting(ticket[k]) /\ k # i  BY <1>7, <1>8
    <2>2. play[k].st = "live" /\ \A t \in Threads : ~Leaves(session[t], k)  BY <2>1 DEF JobInv
    <2>3. ~Leaves(j, k)  BY <2>1 DEF Leaves
    <2> HIDE DEF j
    <2>4. ASSUME NEW t \in Threads PROVE ~Leaves(session'[t], k)  BY <1>3, <2>2, <2>3
    <2> QED  BY <2>2, <2>4
  <1>9. ASSUME NEW t \in Threads
        PROVE  /\ Crewed(session'[t], ticket')
               /\ session'[t].h = "activate" => session'[t].row.st = "live"
    <2>1. CASE t = s  BY <1>3, <2>1 DEF Crewed
    <2>2. CASE t # s
      <3>1. session[t].h # "crew"
        <4>1. session[t].h = "crew" => session[t] # Idle  BY DoingIs
        <4> QED  BY <1>2, <4>1
      <3> QED  BY <1>3, <2>2, <3>1 DEF Crewed, JobInv
    <2> QED  BY <2>1, <2>2
  <1>10. \A k \in 1 .. Len(play) : ticket'[k].st = "IN_PROGRESS" => ticket'[k].begun  BY <1>7
  <1> HIDE DEF j
  <1> QED  BY <1>1, <1>6, <1>8, <1>9, <1>10 DEF JobInv

\* A crew's step, with no other request under way.
LEMMA JobCrews ==
    ASSUME Inv, JobInv, "crew" \in Exclusive, NEW s \in Threads, CommitCrew(s)
    PROVE  JobInv'
  <1>1. PICK j : j = session[s]  OBVIOUS
  <1>2. /\ j.h = "crew" /\ ticket' = [ticket EXCEPT ![j.id] = j.next]
        /\ session' = [session EXCEPT ![s] = Idle] /\ UNCHANGED play
    BY <1>1 DEF CommitCrew, Doing, End
  <1>3. session[s] # Idle /\ j.id \in 1 .. Len(play) /\ j.next \in Ticket
    BY <1>1, <1>2, DoingIs, HeldIs, TypedIs
  <1>4. \A t \in Threads : t # s => session[t] = Idle  BY <1>1, <1>2, <1>3 DEF JobInv, Alone
  <1>5. \A t \in Threads : session'[t] = Idle  BY <1>2, <1>4, SessionIs
  <1>6. Crewed(j, ticket)  BY <1>1 DEF JobInv
  <1>7. \A k \in 1 .. Len(play) : ticket'[k] = IF k = j.id THEN j.next ELSE ticket[k]
    <2>1. ticket \in Seq(Ticket) /\ Len(ticket) = Len(play)  BY DEF Inv, Tabled
    <2> QED  BY <1>2, <1>3, <2>1, SeqWrite
  <1>8. ASSUME NEW k \in 1 .. Len(play)
        PROVE  /\ Waiting(ticket'[k]) => play[k].st = "live"
               /\ ticket'[k].st = "IN_PROGRESS" => ticket'[k].begun
    <2>1. CASE k = j.id
      <3>1. ticket'[k] = j.next  BY <1>7, <2>1
      <3>2. /\ Waiting(j.next) => Waiting(ticket[k])
            /\ j.next.st = "IN_PROGRESS" => j.next.begun
        BY <1>2, <1>6, <2>1 DEF Crewed
      <3> QED  BY <3>1, <3>2 DEF JobInv
    <2>2. CASE k # j.id
      <3>1. ticket'[k] = ticket[k]  BY <1>7, <2>2
      <3> QED  BY <3>1 DEF JobInv
    <2> QED  BY <2>1, <2>2
  <1>9. \A k, t : t \in Threads => ~Leaves(session'[t], k)  BY <1>5, IdleIs DEF Leaves
  <1>10. \A t \in Threads : /\ Crewed(session'[t], ticket')
                            /\ session'[t].h = "activate" => session'[t].row.st = "live"
    BY <1>5, IdleIs DEF Crewed
  <1>11. Alone'  BY <1>5 DEF Alone
  <1> QED  BY <1>2, <1>8, <1>9, <1>10, <1>11 DEF JobInv

\* Rows that change without a thread keep those on the air as they are.
LEMMA JobStays ==
    ASSUME Inv, JobInv, Len(play') = Len(play), UNCHANGED <<ticket, session>>,
           \A i \in 1 .. Len(play) : play[i].st = "live" => play'[i].st = "live"
    PROVE  JobInv'
  <1>1. \A i \in 1 .. Len(play) : Waiting(ticket[i]) => play'[i].st = "live"  BY DEF JobInv
  <1>2. Alone'  BY DEF JobInv, Alone
  <1> QED  BY <1>1, <1>2 DEF JobInv

LEMMA JobPurges ==
    ASSUME Inv, JobInv, (\E i \in 1 .. Len(play) : Purge(i)) \/ PurgeAll
    PROVE  JobInv'
  <1>1. UNCHANGED <<ticket, session>>  BY DEF Purge, PurgeAll
  <1>2. ASSUME NEW i \in 1 .. Len(play), Purge(i) PROVE JobInv'
    <2>1. PICK p : p = Gone(play[i])  OBVIOUS
    <2>2. play' = [play EXCEPT ![i] = p] /\ play[i].st = "cancelled"  BY <1>2, <2>1 DEF Purge
    <2>3. Good(p, Len(request))  BY <2>1, StatusIs DEF Gone
    <2>4. Len(play') = Len(play)
          /\ \A k \in 1 .. Len(play) : play'[k] = IF k = i THEN p ELSE play[k]
      BY <2>2, <2>3, WriteTypes
    <2>5. \A k \in 1 .. Len(play) : play[k].st = "live" => play'[k].st = "live"  BY <2>2, <2>4
    <2> QED  BY <1>1, <2>4, <2>5, JobStays
  <1>3. ASSUME PurgeAll PROVE JobInv'
    <2>1. Len(play') = Len(play)
          /\ \A k \in 1 .. Len(play) : play[k].st = "live" => play'[k].st = "live"
      BY <1>3, PurgeAllIs
    <2> QED  BY <1>1, <2>1, JobStays
  <1> QED  BY <1>2, <1>3

LEMMA JobFlags ==
    ASSUME Inv, JobInv, NEW s \in Threads, FlagCancel(s) \/ CommitRestore(s)
    PROVE  JobInv'
  <1>1. PICK i : i = session[s].id  OBVIOUS
  <1>2. session[s].h \in {"cancel", "restore"} /\ session[s] # Idle
    BY DoingIs DEF FlagCancel, CommitRestore, Doing
  <1>3. i \in 1 .. Len(play)  BY <1>1, <1>2, HeldIs, TypedIs
  <1>4. UNCHANGED ticket  BY DEF FlagCancel, CommitRestore
  <1>5. \A k \in 1 .. Len(play) : Waiting(ticket[k]) => play[k].st = "live"  BY DEF JobInv
  <1>6. CASE play[i].st = "gone"
    <2>1. UNCHANGED play /\ session' = [session EXCEPT ![s] = Idle]
      BY <1>1, <1>6 DEF FlagCancel, CommitRestore, End
    <2>2. \A k \in 1 .. Len(play) : Waiting(ticket[k]) => play'[k].st = "live"  BY <1>5, <2>1
    <2> QED  BY <1>2, <1>4, <2>1, <2>2, JobContinues
  <1>7. CASE play[i].st # "gone" /\ FlagCancel(s)
    <2>1. PICK j : j = [h |-> "clear", cust |-> play[i].cust]  OBVIOUS
    <2>2. j.h = "clear"  BY <2>1
    <2>3. play' = [play EXCEPT ![i].st = "cancelled"] /\ session' = [session EXCEPT ![s] = j]
      BY <1>1, <1>7, <2>1 DEF FlagCancel, Go
    <2>4. PICK p : p = [play[i] EXCEPT !.st = "cancelled"]  OBVIOUS
    <2>5. play' = [play EXCEPT ![i] = p] /\ Good(p, Len(request))  BY <1>3, <2>3, <2>4, StatusIs
    <2>6. Len(play') = Len(play)
          /\ \A k \in 1 .. Len(play) : play'[k] = IF k = i THEN p ELSE play[k]
      BY <1>3, <2>5, WriteTypes
    <2>7. ASSUME NEW k \in 1 .. Len(play), Waiting(ticket[k]) PROVE play'[k].st = "live"
      <3>1. session[s].h = "cancel"  BY <1>7 DEF FlagCancel, Doing
      <3>2. ~Leaves(session[s], k)  BY <2>7 DEF JobInv
      <3>3. k # i  BY <1>1, <3>1, <3>2 DEF Leaves
      <3> QED  BY <1>5, <2>6, <2>7, <3>3
    <2> QED  BY <1>2, <1>4, <2>2, <2>3, <2>6, <2>7, JobContinues
  <1>8. CASE play[i].st # "gone" /\ CommitRestore(s)
    <2>1. play' = [play EXCEPT ![i].st = "live"] /\ session' = [session EXCEPT ![s] = Idle]
      BY <1>1, <1>8 DEF CommitRestore, End
    <2>2. PICK p : p = [play[i] EXCEPT !.st = "live"]  OBVIOUS
    <2>3. play' = [play EXCEPT ![i] = p] /\ Good(p, Len(request)) /\ p.st = "live"
      BY <1>3, <2>1, <2>2, StatusIs
    <2>4. Len(play') = Len(play)
          /\ \A k \in 1 .. Len(play) : play'[k] = IF k = i THEN p ELSE play[k]
      BY <1>3, <2>3, WriteTypes
    <2>5. \A k \in 1 .. Len(play) : Waiting(ticket[k]) => play'[k].st = "live"  BY <1>5, <2>3, <2>4
    <2> QED  BY <1>2, <1>4, <2>1, <2>4, <2>5, JobContinues
  <1> QED  BY <1>6, <1>7, <1>8

LEMMA JobNext ==
    ASSUME Inv, JobInv, "crew" \in Exclusive, [Next]_vars
    PROVE  JobInv'
  <1>0. \A k \in 1 .. Len(play) : Waiting(ticket[k]) => play[k].st = "live"  BY DEF JobInv
  <1>1. ASSUME Step PROVE JobInv'
    <2>1. ASSUME NEW s \in Threads, Opening(s) PROVE JobInv'
      <3>1. PICK j, h : Opened(s, j, h)  BY <2>1, OpeningIs
      <3> QED  BY <3>1, JobOpens
    <2>2. ASSUME NEW s \in Threads, CommitWithdraw(s) \/ CommitResolve(s) \/ EraseNumbers(s)
          PROVE  JobInv'
      <3>1. session' = [session EXCEPT ![s] = Idle] /\ UNCHANGED <<play, ticket>>
        BY <2>2 DEF CommitWithdraw, CommitResolve, EraseNumbers, End
      <3>2. session[s] # Idle
        BY <2>2, DoingIs DEF CommitWithdraw, CommitResolve, EraseNumbers, Doing
      <3>3. \A k \in 1 .. Len(play) : Waiting(ticket[k]) => play'[k].st = "live"  BY <1>0, <3>1
      <3>4. Len(play') = Len(play) /\ ticket' = ticket  BY <3>1
      <3> QED  BY <3>1, <3>2, <3>3, <3>4, JobContinues
    <2>3. ASSUME NEW s \in Threads, ReadRemaining(s) PROVE JobInv'
      <3>1. PICK j : j = session[s]  OBVIOUS
      <3>2. Typed(j, Len(play), Len(request)) /\ j.h = "clear" /\ session[s] # Idle
        BY <2>3, <3>1, HeldIs, DoingIs DEF ReadRemaining, Doing
      <3>3. j \in [h : {"clear", "erase"}, cust : Customers]  BY <3>2, TypedIs
      <3>4. PICK k : k = [j EXCEPT !.h = "erase"]  OBVIOUS
      <3>5. k.h = "erase"  BY <3>3, <3>4
      <3>6. play' = play /\ ticket' = ticket /\ Len(play') = Len(play)
        BY <2>3 DEF ReadRemaining, Tables
      <3>7. \A i \in 1 .. Len(play) : Waiting(ticket[i]) => play'[i].st = "live"  BY <1>0, <3>6
      <3>8. session' = [session EXCEPT ![s] = k] \/ session' = [session EXCEPT ![s] = Idle]
        BY <2>3, <3>1, <3>4 DEF ReadRemaining, Go, End
      <3> QED  BY <3>2, <3>5, <3>6, <3>7, <3>8, JobContinues
    <2>4. ASSUME NEW c \in Customers, Apply(c) PROVE JobInv'
      <3>1. UNCHANGED <<play, ticket, session>>  BY <2>4 DEF Apply
      <3> QED  BY <3>1, JobStays
    <2> QED
      BY <1>1, <2>1, <2>2, <2>3, <2>4, StepIs, JobFiles, JobPays, JobEdits, JobCrews, JobCancels,
         JobFlags, JobForms, JobPurges
  <1>2. ASSUME Tick \/ UNCHANGED vars PROVE JobInv'
    <2>1. UNCHANGED <<play, ticket, session>>  BY <1>2 DEF Tick, Tables, vars
    <2> QED  BY <2>1, JobStays
  <1> QED  BY <1>1, <1>2 DEF Next, AtRest

LEMMA JobInit == Init => JobInv
  <1> SUFFICES ASSUME Init PROVE JobInv  OBVIOUS
  <1>1. play = <<>> /\ session = [s \in Threads |-> Idle]  BY DEF Init
  <1>2. Len(<<>>) = 0  BY EmptySeq
  <1>3. \A s \in Threads : session[s] = Idle  BY <1>1
  <1>4. Alone  BY <1>3 DEF Alone
  <1>5. \A s \in Threads : Crewed(session[s], ticket) /\ session[s].h # "activate"
    BY <1>3, IdleIs DEF Crewed
  <1>6. 1 .. Len(play) = {}  BY <1>1, <1>2
  <1> QED  BY <1>4, <1>5, <1>6 DEF JobInv

\* When a crew's step runs next to no other request, a job that waits is of a row
\* on the air that no request under way takes off it.
THEOREM JobsAreWanted ==
    ASSUME "crew" \in Exclusive
    PROVE  Spec => []JobInv
  <1>1. Inv /\ JobInv /\ [Next]_vars => JobInv'  BY JobNext
  <1> QED  BY <1>1, JobInit, InvCorrect, PTL DEF Spec

\* No crew is sent to a customer whose plan was pulled out.
THEOREM JobsHavePlans ==
    ASSUME "crew" \in Exclusive
    PROVE  Spec => []JobHasPlan
  <1>1. Inv /\ JobInv => JobHasPlan
    <2> SUFFICES ASSUME Inv, JobInv, NEW i \in DOMAIN ticket, Waiting(ticket[i])
                 PROVE  Live(play[i].cust) # {}
      BY DEF JobHasPlan, Waiting
    <2>1. i \in 1 .. Len(play) /\ DOMAIN play = 1 .. Len(play)  BY TablesAre DEF Inv
    <2>2. play[i].st = "live"  BY <2>1 DEF JobInv
    <2>3. i \in Live(play[i].cust)  BY <2>1, <2>2 DEF Live, Rows
    <2> QED  BY <2>3
  <1> QED  BY <1>1, InvCorrect, JobsAreWanted, PTL

=============================================================================
