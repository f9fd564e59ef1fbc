--------------------------- MODULE CutOver_proofs ---------------------------
(***************************************************************************)
(* What holds of the cut-over for any number of request threads and worker   *)
(* processes, exports, customers and plan codes.                             *)
(***************************************************************************)
EXTENDS CutOver, WellFoundedInduction, TLAPS

\* A set of numbers with a member has a smallest one.
LEMMA SmallestIs ==
    ASSUME NEW S \in SUBSET Nat, S # {}
    PROVE  FirstOf(S) \in S /\ \A j \in S : FirstOf(S) <= j
  <1>1. PICK less : less = OpToRel(<, Nat)
    OBVIOUS
  <1>2. IsWellFoundedOn(less, Nat)
    BY <1>1, NatLessThanWellFounded, Zenon
  <1>3. \A j, i \in Nat : j < i => <<j, i>> \in OpToRel(<, Nat)
    BY DEF OpToRel
  <1>4. \A j, i \in Nat : j < i => <<j, i>> \in less
    BY <1>1, <1>3, Zenon
  <1>5. PICK i \in S : \A j \in S : ~ (<<j, i>> \in less)
    BY <1>2, WFMin
  <1>6. \A j \in S : i <= j
    <2>1. i \in Nat /\ \A j \in S : j \in Nat  OBVIOUS
    <2>2. \A j \in S : ~ (j < i)
      BY <1>4, <1>5, <2>1, Zenon
    <2> QED  BY <2>1, <2>2
  <1> QED  BY <1>6 DEF FirstOf

LEMMA OverIs ==
    ASSUME NEW f, NEW g
    PROVE  /\ DOMAIN Over(f, g) = DOMAIN f \cup DOMAIN g
           /\ \A x \in DOMAIN f : Over(f, g)[x] = f[x]
           /\ \A x \in DOMAIN g \ DOMAIN f : Over(f, g)[x] = g[x]
  BY DEF Over

LEMMA WithIs ==
    ASSUME NEW g, NEW c, NEW x
    PROVE  /\ DOMAIN With(g, c, x) = DOMAIN g \cup {c}
           /\ With(g, c, x)[c] = x
           /\ \A d \in DOMAIN g \ {c} : With(g, c, x)[d] = g[d]
  <1> DEFINE one == [d \in {c} |-> x]
  <1>1. DOMAIN one = {c} /\ one[c] = x  OBVIOUS
  <1>2. With(g, c, x) = Over(one, g)  BY DEF With
  <1> HIDE DEF one
  <1>3. /\ DOMAIN Over(one, g) = DOMAIN one \cup DOMAIN g
        /\ \A d \in DOMAIN one : Over(one, g)[d] = one[d]
        /\ \A d \in DOMAIN g \ DOMAIN one : Over(one, g)[d] = g[d]
    BY OverIs
  <1> QED  BY <1>1, <1>2, <1>3

\* The rows of an export are a sequence, with a "cut" statement too, and name customers.
LEMMA RowsOfIs ==
    ASSUME NEW f \in Files
    PROVE  /\ Len(RowsOf[f]) \in Nat /\ DOMAIN RowsOf[f] = 1 .. Len(RowsOf[f])
           /\ \A i \in DOMAIN RowsOf[f] : RowsOf[f][i].user \in Customers
  <1> DEFINE R == Content[f].rows
             S == {i \in DOMAIN R : R[i].semi}
  <1>1. R \in Seq(Range(R)) /\ \A i \in DOMAIN R : R[i].user \in Customers
    BY CutOverAssumption
  <1>2. RowsOf[f] = IF S = {} THEN R ELSE SubSeq(R, 1, FirstOf(S))
    BY DEF RowsOf
  <1> DEFINE Q == Range(R)
  <1>3. R \in Seq(Q) BY <1>1
  <1>4. Len(R) \in Nat /\ DOMAIN R = 1 .. Len(R)
    <2> HIDE DEF Q, R
    <2> QED BY <1>3
  <1>5. CASE S = {}
    BY <1>1, <1>2, <1>4, <1>5
  <1>6. CASE S # {}
    <2>1. S \in SUBSET Nat  BY <1>4
    <2>2. FirstOf(S) \in S  BY <1>6, <2>1, SmallestIs
    <2>3. FirstOf(S) \in 1 .. Len(R)  BY <1>4, <2>2
    <2>4. PICK n : n = FirstOf(S)  OBVIOUS
    <2>5. RowsOf[f] = SubSeq(R, 1, n)  BY <1>2, <1>6, <2>4
    <2>6. n \in 1 .. Len(R)  BY <2>3, <2>4
    <2>7. Len(SubSeq(R, 1, n)) = n /\ DOMAIN SubSeq(R, 1, n) = 1 .. n
          /\ \A i \in 1 .. n : SubSeq(R, 1, n)[i] = R[i]
      <3> HIDE DEF Q, R, S
      <3> QED  BY <1>3, <1>4, <2>6
    <2> QED  BY <1>1, <1>4, <2>5, <2>6, <2>7
  <1> QED  BY <1>5, <1>6
-----------------------------------------------------------------------------
(* What the threads are doing *)

ImportFields == {"h", "f", "k", "began", "i", "got", "old", "rows", "paid", "pays", "new"}
ImportOk(s) ==
    /\ DOMAIN s = ImportFields
    /\ s.f \in Files /\ s.f \in duty
    /\ s.k \in Nat /\ s.new \in Nat /\ s.i \in Nat \ {0}
    /\ s.began \in Nat /\ s.began <= now
    /\ DOMAIN s.rows \subseteq Customers
SessionOk(s) ==
    /\ s.h \in {"idle", "import", "edit", "pair", "map"}
    /\ s.h = "import" => ImportOk(s)
    /\ s.h \in {"edit", "pair"} => s.c \in Customers
    /\ s.h = "map" => DOMAIN s = {"h", "todo", "does"}

Threaded == DOMAIN session = Threads /\ \A t \in Threads : SessionOk(session[t])
StagedOk == staged = <<>> \/ (staged[1] \in Files /\ staged[1] \in duty)
Counters == now \in Nat /\ imports \in Nat
Sessions == Threaded /\ StagedOk /\ Counters /\ DOMAIN wired = Workers /\ DOMAIN queued = Workers

LEMMA WorkerIs == \A t \in Threads : WorkerOf[t] \in Workers
  BY CutOverAssumption DEF Workers, Range

LEMMA ThreadSet ==
    ASSUME Threaded, NEW t \in Threads, NEW s, SessionOk(s),
           session' = [session EXCEPT ![t] = s], duty' = duty, now' = now
    PROVE  Threaded' /\ session'[t] = s /\ \A u \in Threads \ {t} : session'[u] = session[u]
  <1>1. DOMAIN session' = Threads  BY DEF Threaded
  <1>2. session'[t] = s /\ \A u \in Threads \ {t} : session'[u] = session[u]  BY DEF Threaded
  <1>3. \A u \in Threads : SessionOk(session'[u])  BY <1>2 DEF Threaded
  <1>4. ASSUME NEW u \in Threads PROVE SessionOk(session[u])'
    BY <1>3 DEF SessionOk, ImportOk
  <1> QED  BY <1>1, <1>2, <1>4 DEF Threaded

LEMMA IdleOk == SessionOk(Idle)
  BY DEF SessionOk, Idle

LEMMA ImportIs ==
    ASSUME Sessions, NEW t \in Threads, Importing(t)
    PROVE  ImportOk(session[t])
  BY DEF Sessions, Threaded, SessionOk, Importing

\* The clock may move under the sessions.
LEMMA ClockMoves ==
    ASSUME Sessions, now' = now \/ now' = now + 1, session' = session, duty' = duty
    PROVE  Threaded'
  <1>1. now \in Nat /\ now <= now' BY DEF Sessions, Counters
  <1>2. ASSUME NEW t \in Threads PROVE SessionOk(session[t])'
    BY <1>1 DEF Sessions, Threaded, SessionOk, ImportOk
  <1> QED  BY <1>2 DEF Sessions, Threaded

\* An import starts with nothing written.
LEMMA BeginOk ==
    ASSUME Sessions, NEW t \in Threads, NEW f \in Files \cap duty, Begin(t, f)
    PROVE  Sessions' /\ Importing(t)' /\ \A u \in Threads \ {t} : session'[u] = session[u]
  <1> DEFINE s == [h |-> "import", f |-> Target(f), k |-> imports + 1, began |-> now, i |-> 1,
                   got |-> FALSE, old |-> NoRow, rows |-> <<>>, paid |-> FALSE, pays |-> <<>>,
                   new |-> 0]
  <1>1. Target(f) \in Files /\ Target(f) \in duty  BY DEF Target, Sessions, StagedOk
  <1>2. DOMAIN <<>> \subseteq Customers  OBVIOUS
  <1>3. SessionOk(s)
    BY <1>1, <1>2 DEF SessionOk, ImportOk, ImportFields, Sessions, Counters
  <1>4. session' = [session EXCEPT ![t] = s] /\ duty' = duty /\ now' = now
    BY DEF Begin, Becomes
  <1>5. s.h = "import"  OBVIOUS
  <1> HIDE DEF s
  <1>6. Threaded' /\ session'[t] = s /\ \A u \in Threads \ {t} : session'[u] = session[u]
    BY <1>3, <1>4, ThreadSet DEF Sessions
  <1>7. DOMAIN wired' = Workers /\ StagedOk' /\ Counters' /\ queued' = queued
    BY DEF Begin, Sessions, StagedOk, Counters
  <1> QED  BY <1>5, <1>6, <1>7 DEF Sessions, Importing

\* What a step of an import leaves of its session: the export, its number and its start.
Same(s, j) == j.h = s.h /\ j.f = s.f /\ j.k = s.k /\ j.began = s.began

LEMMA ReadRowOk ==
    ASSUME Sessions, NEW t \in Threads, ReadRow(t)
    PROVE  LET s == session[t] IN LET j == session'[t] IN
           /\ Sessions' /\ Same(s, j) /\ j.got = TRUE /\ j.old = Seen(t, Current(s).user)
           /\ j.i = s.i /\ j.rows = s.rows /\ j.paid = s.paid /\ j.pays = s.pays
           /\ \A u \in Threads \ {t} : session'[u] = session[u]
  <1> DEFINE s == session[t]
  <1>1. ImportOk(s) /\ s.h = "import"  BY ImportIs DEF ReadRow, Importing
  <1>2. PICK x : x = Seen(t, Current(s).user)  OBVIOUS
  <1>3. PICK j : j = [s EXCEPT !.got = TRUE, !.old = x]  OBVIOUS
  <1>4. DOMAIN j = ImportFields /\ j.got = TRUE /\ j.old = x /\ Same(s, j)
        /\ j.i = s.i /\ j.rows = s.rows /\ j.paid = s.paid /\ j.pays = s.pays /\ j.new = s.new
    BY <1>1, <1>3 DEF ImportOk, ImportFields, Same
  <1>5. SessionOk(j)
    BY <1>1, <1>4 DEF SessionOk, ImportOk, Same
  <1>6. session' = [session EXCEPT ![t] = j] /\ duty' = duty /\ now' = now
    BY <1>2, <1>3 DEF ReadRow, Becomes, People
  <1>7. Threaded' /\ session'[t] = j /\ \A u \in Threads \ {t} : session'[u] = session[u]
    BY <1>5, <1>6, ThreadSet DEF Sessions
  <1>8. Sessions'
    BY <1>7 DEF Sessions, StagedOk, Counters, ReadRow, People, Worker, Papers
  <1> QED  BY <1>2, <1>4, <1>7, <1>8

\* The current row of an import names a customer.
LEMMA CurrentIs ==
    ASSUME NEW s, ImportOk(s), s.i <= Len(RowsOf[s.f])
    PROVE  s.i \in DOMAIN RowsOf[s.f] /\ Current(s).user \in Customers
  <1>1. s.f \in Files /\ s.i \in Nat \ {0}  BY DEF ImportOk
  <1>2. s.i \in DOMAIN RowsOf[s.f]  BY <1>1, RowsOfIs
  <1> QED  BY <1>1, <1>2, RowsOfIs DEF Current

\* A row read is one of the file's.
Within(s) == s.got = TRUE => s.i <= Len(RowsOf[s.f])

\* The row an import writes next, and whose.
Wrote(t) == Imported(session[t], Current(session[t]), session[t].old, Seen(t, Current(session[t]).user))
UserOf(t) == Current(session[t]).user

LEMMA WriteRowOk ==
    ASSUME Sessions, NEW t \in Threads, WriteRow(t), Within(session[t])
    PROVE  LET s == session[t] IN LET j == session'[t] IN
           /\ Sessions' /\ Same(s, j) /\ j.got = FALSE /\ j.old = NoRow
           /\ j.i = s.i + 1 /\ j.rows = With(s.rows, UserOf(t), Wrote(t))
           /\ j.paid = s.paid /\ j.pays = s.pays
           /\ \A u \in Threads \ {t} : session'[u] = session[u]
  <1> DEFINE s == session[t]
  <1>1. ImportOk(s) /\ s.h = "import" /\ s.got  BY ImportIs DEF WriteRow, Importing
  <1>2. UserOf(t) \in Customers
    BY <1>1, CurrentIs DEF Within, UserOf
  <1>3. PICK rows : rows = With(s.rows, UserOf(t), Wrote(t))  OBVIOUS
  <1>4. DOMAIN rows \subseteq Customers
    <2>1. DOMAIN With(s.rows, UserOf(t), Wrote(t)) = DOMAIN s.rows \cup {UserOf(t)}  BY WithIs
    <2> QED  BY <1>1, <1>2, <1>3, <2>1 DEF ImportOk
  <1>5. PICK n \in {0, 1} : n = (IF Seen(t, UserOf(t)) = NoRow THEN 1 ELSE 0)  OBVIOUS
  <1>6. session' = [session EXCEPT ![t] = [s EXCEPT !.got = FALSE, !.old = NoRow, !.i = @ + 1,
                                                    !.rows = With(@, UserOf(t), Wrote(t)),
                                                    !.new = @ + (IF Seen(t, UserOf(t)) = NoRow THEN 1 ELSE 0)]]
        /\ duty' = duty /\ now' = now
    BY DEF WriteRow, Becomes, People, UserOf, Wrote
  <1>7. PICK j : j = [s EXCEPT !.got = FALSE, !.old = NoRow, !.i = @ + 1,
                               !.rows = With(@, UserOf(t), Wrote(t)),
                               !.new = @ + (IF Seen(t, UserOf(t)) = NoRow THEN 1 ELSE 0)]
    OBVIOUS
  <1>8. DOMAIN j = ImportFields /\ j.got = FALSE /\ j.old = NoRow /\ Same(s, j) /\ j.i = s.i + 1
        /\ j.rows = rows /\ j.new = s.new + n /\ j.paid = s.paid /\ j.pays = s.pays
    BY <1>1, <1>3, <1>5, <1>7 DEF ImportOk, ImportFields, Same
  <1>9. SessionOk(j)
    BY <1>1, <1>4, <1>8 DEF SessionOk, ImportOk, Same
  <1>10. session' = [session EXCEPT ![t] = j]  BY <1>6, <1>7
  <1>11. Threaded' /\ session'[t] = j /\ \A u \in Threads \ {t} : session'[u] = session[u]
    BY <1>6, <1>9, <1>10, ThreadSet DEF Sessions
  <1>12. Sessions'
    BY <1>11 DEF Sessions, StagedOk, Counters, WriteRow, People, Worker, Papers
  <1> QED  BY <1>3, <1>8, <1>11, <1>12

LEMMA PayOk ==
    ASSUME Sessions, NEW t \in Threads, Pay(t)
    PROVE  LET s == session[t] IN LET j == session'[t] IN
           /\ Sessions' /\ Same(s, j) /\ j.got = s.got /\ j.old = s.old /\ j.i = s.i /\ j.rows = s.rows
           /\ j.paid = TRUE
           /\ j.pays = IF Content[s.f].pays = <<>> THEN s.pays ELSE Settled(t, s.f)
           /\ \A u \in Threads \ {t} : session'[u] = session[u]
  <1> DEFINE s == session[t]
  <1>1. ImportOk(s) /\ s.h = "import"  BY ImportIs DEF Pay, RowsDone, Importing
  <1>2. PICK x : x = IF Content[s.f].pays = <<>> THEN s.pays ELSE Settled(t, s.f)  OBVIOUS
  <1>3. PICK j : j = [s EXCEPT !.paid = TRUE, !.pays = x]  OBVIOUS
  <1>4. [s EXCEPT !.paid = TRUE] = [s EXCEPT !.paid = TRUE, !.pays = s.pays]
    BY <1>1 DEF ImportOk, ImportFields
  <1>5. session' = [session EXCEPT ![t] = j] /\ duty' = duty /\ now' = now
    BY <1>2, <1>3, <1>4 DEF Pay, Becomes, People
  <1>6. DOMAIN j = ImportFields /\ Same(s, j) /\ j.got = s.got /\ j.old = s.old /\ j.i = s.i
        /\ j.rows = s.rows /\ j.paid = TRUE /\ j.pays = x /\ j.new = s.new
    BY <1>1, <1>3 DEF ImportOk, ImportFields, Same
  <1>7. SessionOk(j)  BY <1>1, <1>6 DEF SessionOk, ImportOk, Same
  <1>8. Threaded' /\ session'[t] = j /\ \A u \in Threads \ {t} : session'[u] = session[u]
    BY <1>5, <1>7, ThreadSet DEF Sessions
  <1>9. DOMAIN queued' = Workers /\ wired' = wired  BY DEF Pay, Sessions
  <1>10. Sessions'
    BY <1>8, <1>9 DEF Sessions, StagedOk, Counters, Pay, People
  <1> QED  BY <1>2, <1>6, <1>8, <1>10

\* An import that ends, however, leaves its thread idle and its worker's signals back.
Ends(t) == Deadlock(t) \/ PayFails(t) \/ Commit(t)
LEMMA EndsOk ==
    ASSUME Sessions, NEW t \in Threads, Ends(t)
    PROVE  /\ Sessions' /\ session'[t] = Idle /\ wired' = Rewired(t)
           /\ \A u \in Threads \ {t} : session'[u] = session[u]
  <1>1. session' = [session EXCEPT ![t] = Idle] /\ duty' = duty /\ now' = now /\ wired' = Rewired(t)
    BY DEF Ends, Deadlock, PayFails, Commit, Becomes, People
  <1>2. Threaded' /\ session'[t] = Idle /\ \A u \in Threads \ {t} : session'[u] = session[u]
    BY <1>1, IdleOk, ThreadSet DEF Sessions
  <1>3. DOMAIN queued' = Workers /\ staged' \in {staged, <<>>} /\ imports' = imports
    BY DEF Ends, Deadlock, PayFails, Commit, Papers, Sessions
  <1>4. DOMAIN wired' = Workers  BY <1>1 DEF Rewired, Sessions
  <1> QED  BY <1>1, <1>2, <1>3, <1>4 DEF Sessions, StagedOk, Counters

\* What the forms, the pairing and the plan command do to a session.
Forms(t) ==
    \/ \E c \in Customers : OpenEdit(t, c) \/ OpenPair(t, c)
    \/ SaveEdit(t) \/ Pair(t) \/ MapPlans(t) \/ MapPlan(t) \/ StopMap(t)
LEMMA FormsOk ==
    ASSUME Sessions, NEW t \in Threads, Forms(t)
    PROVE  /\ Sessions' /\ ~Importing(t) /\ ~Importing(t)'
           /\ wired' = wired /\ queued' = queued
           /\ \A u \in Threads \ {t} : session'[u] = session[u]
  <1> USE DEF Becomes, People, Worker, Papers
  <1>1. CASE \E c \in Customers : OpenEdit(t, c) \/ OpenPair(t, c)
    <2>1. PICK c \in Customers, h \in {"edit", "pair"} : \E x :
              session' = [session EXCEPT ![t] = [h |-> h, c |-> c, row |-> x]]
      BY <1>1 DEF OpenEdit, OpenPair
    <2>2. PICK s : /\ session' = [session EXCEPT ![t] = s]
                   /\ \E x : s = [h |-> h, c |-> c, row |-> x]
      BY <2>1
    <2>3. SessionOk(s) /\ s.h = h  BY <2>2 DEF SessionOk
    <2>4. session[t] = Idle /\ duty' = duty /\ now' = now /\ wired' = wired /\ queued' = queued
          /\ staged' = staged /\ imports' = imports
      BY <1>1 DEF OpenEdit, OpenPair
    <2>5. Threaded' /\ session'[t] = s /\ \A u \in Threads \ {t} : session'[u] = session[u]
      BY <2>1, <2>2, <2>3, <2>4, ThreadSet DEF Sessions
    <2> QED
      BY <2>3, <2>4, <2>5 DEF Sessions, StagedOk, Counters, Importing, Idle
  <1>2. CASE SaveEdit(t)
    <2>1. session' = [session EXCEPT ![t] = Idle] /\ session[t].h = "edit" /\ duty' = duty /\ now' = now
          /\ wired' = wired /\ queued' = queued /\ staged' = staged /\ imports' = imports
      BY <1>2 DEF SaveEdit
    <2>2. Threaded' /\ session'[t] = Idle /\ \A u \in Threads \ {t} : session'[u] = session[u]
      BY <2>1, IdleOk, ThreadSet DEF Sessions
    <2> QED  BY <2>1, <2>2 DEF Sessions, StagedOk, Counters, Importing, Idle
  <1>3. CASE Pair(t)
    <2>1. session' = [session EXCEPT ![t] = Idle] /\ session[t].h = "pair" /\ duty' = duty /\ now' = now + 1
          /\ wired' = wired /\ queued' = queued /\ staged' = staged /\ imports' = imports
      BY <1>3 DEF Pair, Tick
    <2>2. session'[t] = Idle /\ \A u \in Threads \ {t} : session'[u] = session[u]
      BY <2>1 DEF Sessions, Threaded
    <2>3. now \in Nat /\ now <= now'  BY <2>1 DEF Sessions, Counters
    <2>4. ASSUME NEW u \in Threads PROVE SessionOk(session[u])'
      <3>1. CASE u = t  BY <2>2, <3>1 DEF SessionOk, Idle
      <3>2. CASE u # t  BY <2>1, <2>2, <2>3, <3>2 DEF Sessions, Threaded, SessionOk, ImportOk
      <3> QED  BY <3>1, <3>2
    <2>5. DOMAIN session' = Threads  BY <2>1 DEF Sessions, Threaded
    <2> QED  BY <2>1, <2>2, <2>3, <2>4, <2>5 DEF Sessions, Threaded, StagedOk, Counters, Importing, Idle
  <1>4. CASE MapPlans(t) \/ MapPlan(t) \/ StopMap(t)
    <2>1. session[t].h \in {"idle", "map"}
      <3>1. CASE MapPlans(t)
        <4>1. session[t] = Idle  BY <3>1 DEF MapPlans
        <4> QED  BY <4>1 DEF Idle
      <3>2. CASE MapPlan(t)  BY <3>2 DEF MapPlan
      <3>3. CASE StopMap(t)  BY <3>3 DEF StopMap
      <3> QED  BY <1>4, <3>1, <3>2, <3>3
    <2>2. PICK s : session' = [session EXCEPT ![t] = s] /\ SessionOk(s) /\ s.h \in {"idle", "map"}
      <3>1. CASE MapPlans(t)
        <4>1. PICK x : x = [h |-> "map", todo |-> Codes, does |-> [code \in CodeSet |-> Decision(plans, code)]]
          OBVIOUS
        <4>2. DOMAIN x = {"h", "todo", "does"} /\ x.h = "map"  BY <4>1
        <4>3. SessionOk(x)  BY <4>2 DEF SessionOk
        <4>4. session' = [session EXCEPT ![t] = x]  BY <3>1, <4>1 DEF MapPlans
        <4> QED  BY <4>2, <4>3, <4>4
      <3>2. CASE MapPlan(t)
        <4>1. session[t].h = "map" /\ DOMAIN session[t] = {"h", "todo", "does"}
          BY <3>2 DEF MapPlan, Sessions, Threaded, SessionOk
        <4>2. PICK x : x = [session[t] EXCEPT !.todo = Tail(@)]  OBVIOUS
        <4>3. DOMAIN x = {"h", "todo", "does"} /\ x.h = "map"  BY <4>1, <4>2
        <4>4. SessionOk(x)  BY <4>3 DEF SessionOk
        <4>5. session' = [session EXCEPT ![t] = Idle] \/ session' = [session EXCEPT ![t] = x]
          BY <3>2, <4>2 DEF MapPlan
        <4> QED  BY <4>3, <4>4, <4>5, IdleOk DEF Idle
      <3>3. CASE StopMap(t)
        <4>1. session' = [session EXCEPT ![t] = Idle]  BY <3>3 DEF StopMap
        <4>2. Idle.h = "idle"  BY DEF Idle
        <4> QED  BY <4>1, <4>2, IdleOk
      <3> QED  BY <1>4, <3>1, <3>2, <3>3
    <2>3. duty' = duty /\ now' = now /\ wired' = wired /\ queued' = queued
          /\ staged' = staged /\ imports' = imports
      BY <1>4 DEF MapPlans, MapPlan, StopMap
    <2>4. Threaded' /\ session'[t] = s /\ \A u \in Threads \ {t} : session'[u] = session[u]
      BY <2>2, <2>3, ThreadSet DEF Sessions
    <2> QED  BY <2>1, <2>2, <2>3, <2>4 DEF Sessions, StagedOk, Counters, Importing
  <1> QED  BY <1>1, <1>2, <1>3, <1>4 DEF Forms

\* What leaves the threads alone: rulings, commands, a pre-flight and a refused file.
Aside ==
    \/ \E t \in Threads, f \in Files \cap duty : Stage(t, f) \/ Malformed(t, f)
    \/ \E t \in Threads, c \in Customers, a \in {"archive", "activate", "set", "clear", "unreview"} :
          Review(t, c, a)
    \/ \E c \in Customers, p \in CodeSet \cup {"default"} : Recover(c, p) \/ MigrateCore(c, p)
    \/ \E f \in OldFiles \cap duty : \E i \in DOMAIN RowsOf[f] : MigrateLegacy(f, i)
    \/ Reset \/ ImportPlaces
LEMMA AsideOk ==
    ASSUME Sessions, Aside
    PROVE  /\ Sessions' /\ session' = session /\ queued' = queued
           /\ wired' = wired \/ \E t \in Threads : ~Importing(t) /\ wired' = Rewired(t)
  <1> USE DEF People, Worker, Papers
  <1>1. session' = session /\ queued' = queued /\ duty' = duty /\ imports' = imports
    BY DEF Aside, Stage, Malformed, Review, Recover, MigrateCore, MigrateLegacy, Saved, Reset, ImportPlaces
  <1>2. now' = now \/ now' = now + 1
    BY DEF Aside, Stage, Malformed, Review, Tick, Recover, MigrateCore, MigrateLegacy, Saved, Reset, ImportPlaces
  <1>3. wired' = wired \/ \E t \in Threads : ~Importing(t) /\ wired' = Rewired(t)
    <2>1. CASE \E t \in Threads, f \in Files \cap duty : Malformed(t, f)
      <3>1. PICK t \in Threads, f \in Files \cap duty : Malformed(t, f)  BY <2>1
      <3>2. session[t] = Idle /\ wired' = Rewired(t)  BY <3>1 DEF Malformed
      <3> QED  BY <3>2 DEF Importing, Idle
    <2>2. CASE ~\E t \in Threads, f \in Files \cap duty : Malformed(t, f)
      BY <2>2 DEF Aside, Stage, Review, Recover, MigrateCore, MigrateLegacy, Saved, Reset, ImportPlaces
    <2> QED  BY <2>1, <2>2
  <1>4. staged' = staged \/ \E f \in Files \cap duty : staged' = <<f, Foretold(f)>>
    BY DEF Aside, Stage, Malformed, Review, Recover, MigrateCore, MigrateLegacy, Saved, Reset, ImportPlaces
  <1>5. DOMAIN wired' = Workers  BY <1>3 DEF Rewired, Sessions
  <1>6. StagedOk'  BY <1>1, <1>4 DEF Sessions, StagedOk
  <1>7. Threaded'  BY <1>1, <1>2, ClockMoves
  <1>8. Counters'  BY <1>1, <1>2 DEF Sessions, Counters
  <1> QED  BY <1>1, <1>3, <1>5, <1>6, <1>7, <1>8 DEF Sessions

LEMMA StopOk ==
    ASSUME Sessions, NEW w \in Workers, Stop(w)
    PROVE  /\ Sessions'
           /\ wired' = [wired EXCEPT ![w] = TRUE] /\ queued' = [queued EXCEPT ![w] = <<>>]
           /\ \A t \in Threads : session'[t] \in {Idle, session[t]}
           /\ \A t \in Threads : WorkerOf[t] = w => ~Importing(t)'
  <1> USE DEF People, Worker, Papers
  <1>1. session' = [t \in Threads |-> IF WorkerOf[t] = w /\ session[t].h # "map" THEN Idle ELSE session[t]]
        /\ duty' = duty /\ now' = now /\ staged' = staged /\ imports' = imports
        /\ wired' = [wired EXCEPT ![w] = TRUE] /\ queued' = [queued EXCEPT ![w] = <<>>]
    BY DEF Stop
  <1>2. \A t \in Threads : session'[t] \in {Idle, session[t]}  BY <1>1
  <1>3. \A t \in Threads : WorkerOf[t] = w => session'[t].h # "import"
    BY <1>1 DEF Idle
  <1>4. ASSUME NEW t \in Threads PROVE SessionOk(session[t])'
    <2>1. SessionOk(session[t])'  BY <1>1, <1>2, IdleOk DEF Sessions, Threaded, SessionOk, ImportOk, Idle
    <2> QED  BY <2>1
  <1> QED
    BY <1>1, <1>2, <1>3, <1>4 DEF Sessions, Threaded, StagedOk, Counters, Importing

LEMMA NextIs ==
    ASSUME Next
    PROVE  \/ \E t \in Threads, f \in Files \cap duty : Begin(t, f)
           \/ \E t \in Threads : ReadRow(t) \/ WriteRow(t) \/ Pay(t) \/ Ends(t) \/ Forms(t)
           \/ Aside
           \/ \E w \in Workers : Stop(w)
  BY DEF Next, Import, Ends, Forms, Aside

\* A row that was read is a row of the file, and the ledger comes after the last one.
Places ==
    \A t \in Threads : Importing(t) =>
        /\ Within(session[t])
        /\ session[t].paid = TRUE => session[t].i > Len(RowsOf[session[t].f])
Base == Sessions /\ Places

LEMMA BaseAtFirst ==
    ASSUME Init
    PROVE  Base
  <1>1. \A t \in Threads : session[t] = Idle  BY DEF Init
  <1>2. \A t \in Threads : SessionOk(session[t])  BY <1>1, IdleOk
  <1>3. \A t \in Threads : ~Importing(t)  BY <1>1 DEF Importing, Idle
  <1>4. Sessions  BY <1>2 DEF Init, Sessions, Threaded, StagedOk, Counters
  <1> QED  BY <1>3, <1>4 DEF Base, Places

LEMMA BaseStays ==
    ASSUME Base, UNCHANGED vars
    PROVE  Base'
  BY DEF Base, Sessions, Threaded, SessionOk, ImportOk, StagedOk, Counters, Places, Importing, Within, vars

LEMMA BaseStep ==
    ASSUME Base, Next
    PROVE  Base'
  <1> USE DEF Base
  <1>1. ASSUME Sessions', NEW t \in Threads, \A u \in Threads \ {t} : session'[u] = session[u],
               Importing(t)' => /\ Within(session[t])'
                                /\ session'[t].paid = TRUE => session'[t].i > Len(RowsOf[session'[t].f])
        PROVE  Base'
    BY <1>1 DEF Places, Importing, Within
  <1>2. ASSUME NEW t \in Threads, NEW f \in Files \cap duty, Begin(t, f) PROVE Base'
    <2>1. Sessions' /\ \A u \in Threads \ {t} : session'[u] = session[u]  BY <1>2, BeginOk
    <2>2. session'[t].got = FALSE /\ session'[t].paid = FALSE
      BY <1>2 DEF Begin, Becomes, Sessions, Threaded
    <2> QED  BY <1>1, <2>1, <2>2 DEF Within
  <1>3. ASSUME NEW t \in Threads, ReadRow(t) PROVE Base'
    <2>1. Importing(t) /\ session[t].i <= Len(RowsOf[session[t].f])  BY <1>3 DEF ReadRow
    <2>2. session[t].i \in Nat /\ session[t].f \in Files  BY <2>1, ImportIs DEF ImportOk
    <2>3. Len(RowsOf[session[t].f]) \in Nat  BY <2>2, RowsOfIs
    <2>4. session[t].paid # TRUE
      <3>1. session[t].paid = TRUE => session[t].i > Len(RowsOf[session[t].f])  BY <2>1 DEF Places
      <3>2. PICK i \in Nat, n \in Nat : i = session[t].i /\ n = Len(RowsOf[session[t].f])  BY <2>2, <2>3
      <3>3. ~(i > n)  BY <2>1, <3>2
      <3> QED  BY <3>1, <3>2, <3>3
    <2>5. /\ Sessions' /\ Same(session[t], session'[t])
          /\ session'[t].i = session[t].i /\ session'[t].paid = session[t].paid
          /\ \A u \in Threads \ {t} : session'[u] = session[u]
      BY <1>3, ReadRowOk
    <2> QED  BY <1>1, <2>1, <2>4, <2>5 DEF Within, Same
  <1>4. ASSUME NEW t \in Threads, WriteRow(t) PROVE Base'
    <2>1. Importing(t) /\ session[t].got  BY <1>4 DEF WriteRow
    <2>2. session[t].i \in Nat /\ session[t].f \in Files  BY <2>1, ImportIs DEF ImportOk
    <2>3. Len(RowsOf[session[t].f]) \in Nat  BY <2>2, RowsOfIs
    <2>4. Within(session[t]) /\ (session[t].paid = TRUE => session[t].i > Len(RowsOf[session[t].f]))
      BY <2>1 DEF Places
    <2>5. /\ Sessions' /\ Same(session[t], session'[t]) /\ session'[t].got = FALSE
          /\ session'[t].i = session[t].i + 1 /\ session'[t].paid = session[t].paid
          /\ \A u \in Threads \ {t} : session'[u] = session[u]
      BY <1>4, <2>4, WriteRowOk
    <2>6. session[t].paid = TRUE => session[t].i + 1 > Len(RowsOf[session[t].f])  BY <2>2, <2>3, <2>4
    <2> QED  BY <1>1, <2>5, <2>6 DEF Within, Same
  <1>5. ASSUME NEW t \in Threads, Pay(t) PROVE Base'
    <2>1. Importing(t) /\ session[t].i > Len(RowsOf[session[t].f])  BY <1>5 DEF Pay, RowsDone
    <2>2. Within(session[t])  BY <2>1 DEF Places
    <2>3. /\ Sessions' /\ Same(session[t], session'[t]) /\ session'[t].got = session[t].got
          /\ session'[t].i = session[t].i
          /\ \A u \in Threads \ {t} : session'[u] = session[u]
      BY <1>5, PayOk
    <2> QED  BY <1>1, <2>1, <2>2, <2>3 DEF Within, Same
  <1>6. ASSUME NEW t \in Threads, Ends(t) \/ Forms(t) PROVE Base'
    <2>1. Sessions' /\ (\A u \in Threads \ {t} : session'[u] = session[u]) /\ ~Importing(t)'
      BY <1>6, EndsOk, FormsOk DEF Importing, Idle
    <2> QED  BY <1>1, <2>1
  <1>7. ASSUME Aside PROVE Base'
    <2>1. Sessions' /\ session' = session  BY <1>7, AsideOk
    <2> QED  BY <2>1 DEF Places, Importing, Within
  <1>8. ASSUME NEW w \in Workers, Stop(w) PROVE Base'
    <2>1. Sessions' /\ \A t \in Threads : session'[t] \in {Idle, session[t]}  BY <1>8, StopOk
    <2>2. ASSUME NEW t \in Threads, Importing(t)'
          PROVE  session'[t] = session[t]
      BY <2>1, <2>2 DEF Importing, Idle
    <2> QED  BY <2>1, <2>2 DEF Places, Importing, Within
  <1> QED  BY <1>2, <1>3, <1>4, <1>5, <1>6, <1>7, <1>8, NextIs

LEMMA BaseCorrect == Spec => []Base
  <1>1. Init => Base  BY BaseAtFirst
  <1>2. Base /\ [Next]_vars => Base'  BY BaseStep, BaseStays
  <1> QED  BY <1>1, <1>2, PTL DEF Spec
-----------------------------------------------------------------------------
(* The save signals come back *)

LEMMA SignalsStep ==
    ASSUME Base, SignalsComeBack, Next
    PROVE  SignalsComeBack'
  <1> USE DEF Base
  <1>0. DOMAIN wired = Workers  BY DEF Sessions
  \* A thread that imports before and after, its worker's signals as they were.
  <1>1. ASSUME NEW t \in Threads, Importing(t), Importing(t)', wired' = wired,
               \A u \in Threads \ {t} : session'[u] = session[u]
        PROVE  SignalsComeBack'
    BY <1>1 DEF SignalsComeBack, Importing
  <1>2. ASSUME NEW t \in Threads, NEW f \in Files \cap duty, Begin(t, f) PROVE SignalsComeBack'
    <2>1. Importing(t)' /\ \A u \in Threads \ {t} : session'[u] = session[u]  BY <1>2, BeginOk
    <2>2. wired' = [wired EXCEPT ![WorkerOf[t]] = FALSE]  BY <1>2 DEF Begin
    <2>3. session[t] = Idle  BY <1>2 DEF Begin
    <2>4. ~Importing(t)  BY <2>3 DEF Importing, Idle
    <2> QED  BY <1>0, <2>1, <2>2, <2>4, WorkerIs DEF SignalsComeBack, Importing
  <1>3. ASSUME NEW t \in Threads, ReadRow(t) PROVE SignalsComeBack'
    <2>1. Importing(t) /\ wired' = wired  BY <1>3 DEF ReadRow, Worker
    <2>2. Importing(t)' /\ \A u \in Threads \ {t} : session'[u] = session[u]
      BY <1>3, <2>1, ReadRowOk DEF Same, Importing
    <2> QED  BY <1>1, <2>1, <2>2
  <1>4. ASSUME NEW t \in Threads, WriteRow(t) PROVE SignalsComeBack'
    <2>1. Importing(t) /\ wired' = wired  BY <1>4 DEF WriteRow, Worker
    <2>2. Within(session[t])  BY <2>1 DEF Places
    <2>3. Importing(t)' /\ \A u \in Threads \ {t} : session'[u] = session[u]
      BY <1>4, <2>1, <2>2, WriteRowOk DEF Same, Importing
    <2> QED  BY <1>1, <2>1, <2>3
  <1>5. ASSUME NEW t \in Threads, Pay(t) PROVE SignalsComeBack'
    <2>1. Importing(t) /\ wired' = wired  BY <1>5 DEF Pay, RowsDone
    <2>2. Importing(t)' /\ \A u \in Threads \ {t} : session'[u] = session[u]
      BY <1>5, <2>1, PayOk DEF Same, Importing
    <2> QED  BY <1>1, <2>1, <2>2
  <1>6. ASSUME NEW t \in Threads, Ends(t) PROVE SignalsComeBack'
    <2>1. wired' = [wired EXCEPT ![WorkerOf[t]] = TRUE]
          /\ \A u \in Threads \ {t} : session'[u] = session[u]
      BY <1>6, EndsOk DEF Rewired
    <2> QED  BY <1>0, <2>1, WorkerIs DEF SignalsComeBack, Importing
  <1>7. ASSUME NEW t \in Threads, Forms(t) PROVE SignalsComeBack'
    <2>1. ~Importing(t) /\ wired' = wired /\ \A u \in Threads \ {t} : session'[u] = session[u]
      BY <1>7, FormsOk
    <2> QED  BY <2>1 DEF SignalsComeBack, Importing
  <1>8. ASSUME Aside PROVE SignalsComeBack'
    <2>1. session' = session  BY <1>8, AsideOk
    <2>2. wired' = wired \/ \E t \in Threads : wired' = [wired EXCEPT ![WorkerOf[t]] = TRUE]
      BY <1>8, AsideOk DEF Rewired
    <2> QED  BY <1>0, <2>1, <2>2, WorkerIs DEF SignalsComeBack, Importing
  <1>9. ASSUME NEW w \in Workers, Stop(w) PROVE SignalsComeBack'
    <2>1. /\ wired' = [wired EXCEPT ![w] = TRUE]
          /\ \A t \in Threads : session'[t] \in {Idle, session[t]}
          /\ \A t \in Threads : WorkerOf[t] = w => ~Importing(t)'
      BY <1>9, StopOk
    <2>2. session' = [t \in Threads |-> IF WorkerOf[t] = w /\ session[t].h # "map" THEN Idle ELSE session[t]]
      BY <1>9 DEF Stop
    <2>3. \A t \in Threads : WorkerOf[t] # w => session'[t] = session[t]  BY <2>2
    <2> QED  BY <1>0, <2>1, <2>3, WorkerIs DEF SignalsComeBack, Importing
  <1> QED  BY <1>2, <1>3, <1>4, <1>5, <1>6, <1>7, <1>8, <1>9, NextIs

\* However an import ends, refused, rolled back, killed or committed, and whatever runs
\* beside it, the save signals are connected in each worker process in which no import
\* runs (import_legacy_customers.py:613, the finally clause).
THEOREM SignalsReturn == Spec => []SignalsComeBack
  <1>1. Init => SignalsComeBack  BY DEF Init, SignalsComeBack
  <1>2. SignalsComeBack /\ UNCHANGED vars => SignalsComeBack'
    BY DEF SignalsComeBack, Importing, vars
  <1>3. Base /\ SignalsComeBack /\ [Next]_vars => SignalsComeBack'  BY <1>2, SignalsStep
  <1> QED  BY <1>1, <1>3, BaseCorrect, PTL DEF Spec
-----------------------------------------------------------------------------
(* The rows of the Customer table *)

Shaped(r) == DOMAIN r = RowFields /\ r.stamp \in Nat /\ r.imp \in Nat
RowOk(r)  == r = NoRow \/ Shaped(r)
Rows ==
    /\ DOMAIN cust = Customers /\ \A c \in Customers : RowOk(cust[c])
    /\ \A t \in Threads : Importing(t) => \A c \in DOMAIN session[t].rows : Shaped(session[t].rows[c])
    /\ \A t \in Threads : session[t].h = "edit" => Shaped(session[t].row)

\* x is r after a save that is no import, and the ruling on r stands in it.
KeptRow(r, x) == Shaped(x) /\ x.imp = r.imp /\ x.stamp = r.stamp
KeptRuling(r, x) == x.st = r.st /\ x.exp = r.exp /\ x.rev = r.rev
\* A row a command made.
Fresh(x) == Shaped(x) /\ x.imp = 0 /\ x.stamp = 0 /\ x.rev = FALSE

LEMMA ShapedIsThere ==
    ASSUME NEW r, Shaped(r)
    PROVE  r # NoRow
  <1>1. DOMAIN NoRow = {"st"}  BY DEF NoRow
  <1>2. "exp" \in DOMAIN r  BY DEF Shaped, RowFields
  <1> QED  BY <1>1, <1>2

LEMMA CreatedIs ==
    ASSUME NEW c, NEW pw, NEW plan, NEW st
    PROVE  Fresh(Created(c, pw, plan, st))
  BY DEF Fresh, Shaped, RowFields, Created

LEMMA OthersStay ==
    ASSUME Rows, NEW c \in Customers, NEW x, cust' = [cust EXCEPT ![c] = x]
    PROVE  DOMAIN cust' = Customers /\ cust'[c] = x /\ \A d \in Customers \ {c} : cust'[d] = cust[d]
  BY DEF Rows

LEMMA ReviewRow ==
    ASSUME Rows, NEW t \in Threads, NEW c \in Customers,
           NEW a \in {"archive", "activate", "set", "clear", "unreview"}, Review(t, c, a)
    PROVE  /\ DOMAIN cust' = Customers /\ \A d \in Customers \ {c} : cust'[d] = cust[d]
           /\ cust[c] # NoRow /\ KeptRow(cust[c], cust'[c]) /\ cust'[c].pw = cust[c].pw
           /\ ruled' = [ruled EXCEPT ![c] = [calm |-> Calm, st |-> cust'[c].st, exp |-> cust'[c].exp]]
           /\ Free(t, c) /\ session[t] = Idle /\ given' = given /\ approval' = approval
  <1>1. Shaped(cust[c]) /\ cust[c] # NoRow  BY DEF Rows, RowOk, Review
  <1>2. PICK x : x = Ruling(cust[c], a, 100)  OBVIOUS
  <1>3. KeptRow(cust[c], x) /\ x.pw = cust[c].pw
    BY <1>1, <1>2 DEF KeptRow, Shaped, RowFields, Ruling
  <1>4. cust' = [cust EXCEPT ![c] = x]
        /\ ruled' = [ruled EXCEPT ![c] = [calm |-> Calm, st |-> x.st, exp |-> x.exp]]
    BY <1>2 DEF Review
  <1>5. Free(t, c) /\ session[t] = Idle /\ given' = given /\ approval' = approval  BY DEF Review
  <1> QED  BY <1>1, <1>3, <1>4, <1>5, OthersStay

LEMMA PairRow ==
    ASSUME Base, Rows, NEW t \in Threads, Pair(t)
    PROVE  LET c == session[t].c IN
           /\ DOMAIN cust' = Customers /\ \A d \in Customers \ {c} : cust'[d] = cust[d]
           /\ c \in Customers /\ Free(t, c)
           /\ IF cust[c] = NoRow THEN cust'[c] = cust[c]
              ELSE KeptRow(cust[c], cust'[c]) /\ KeptRuling(cust[c], cust'[c]) /\ cust'[c].pw = cust[c].pw
  <1> DEFINE c == session[t].c
  <1>1. c \in Customers /\ Free(t, c)  BY DEF Base, Sessions, Threaded, SessionOk, Pair
  <1>2. CASE cust[c] = NoRow
    <2>1. cust' = cust  BY <1>2 DEF Pair
    <2> QED  BY <1>1, <1>2, <2>1 DEF Rows
  <1>3. CASE cust[c] # NoRow
    <2>1. Shaped(cust[c])  BY <1>1, <1>3 DEF Rows, RowOk
    <2>2. PICK x : x = [cust[c] EXCEPT !.sync = "Synced"]  OBVIOUS
    <2>3. KeptRow(cust[c], x) /\ KeptRuling(cust[c], x) /\ x.pw = cust[c].pw
      BY <2>1, <2>2 DEF KeptRow, KeptRuling, Shaped, RowFields
    <2>4. cust' = [cust EXCEPT ![c].sync = "Synced"]  BY <1>3 DEF Pair
    <2>5. cust' = [cust EXCEPT ![c] = x]  BY <2>2, <2>4
    <2>6. cust'[c] = x  BY <1>1, <2>5, OthersStay
    <2> QED  BY <1>1, <1>3, <2>3, <2>5, <2>6, OthersStay
  <1> QED  BY <1>2, <1>3

LEMMA RecoverRow ==
    ASSUME Rows, NEW c \in Customers, NEW p, Recover(c, p)
    PROVE  /\ DOMAIN cust' = Customers /\ \A d \in Customers \ {c} : cust'[d] = cust[d]
           /\ NobodyHas(c)
           /\ IF cust[c] = NoRow THEN Fresh(cust'[c])
              ELSE KeptRow(cust[c], cust'[c]) /\ KeptRuling(cust[c], cust'[c]) /\ cust'[c].pw = router[c]
  <1>1. NobodyHas(c)  BY DEF Recover
  <1>2. CASE cust[c] = NoRow
    <2>1. PICK x : x = Created(c, router[c], ProfilePlan(p), "active")  OBVIOUS
    <2>2. cust' = [cust EXCEPT ![c] = x]  BY <1>2, <2>1 DEF Recover, Saved
    <2>3. Fresh(x)  BY <2>1, CreatedIs
    <2> QED  BY <1>1, <1>2, <2>2, <2>3, OthersStay
  <1>3. CASE cust[c] # NoRow
    <2>1. Shaped(cust[c])  BY <1>3 DEF Rows, RowOk
    <2>2. PICK x : x = [cust[c] EXCEPT !.pw = router[c], !.plan = ProfilePlan(p)]  OBVIOUS
    <2>3. KeptRow(cust[c], x) /\ KeptRuling(cust[c], x) /\ x.pw = router[c]
      BY <2>1, <2>2 DEF KeptRow, KeptRuling, Shaped, RowFields
    <2>4. cust' = [cust EXCEPT ![c] = x]  BY <1>3, <2>2 DEF Recover, Saved
    <2> QED  BY <1>1, <1>3, <2>3, <2>4, OthersStay
  <1> QED  BY <1>2, <1>3

LEMMA MigrateCoreRow ==
    ASSUME Rows, NEW c \in Customers, NEW p, MigrateCore(c, p)
    PROVE  /\ DOMAIN cust' = Customers /\ \A d \in Customers \ {c} : cust'[d] = cust[d]
           /\ NobodyHas(c) /\ cust[c] = NoRow /\ Fresh(cust'[c])
  <1>1. PICK x : x = Created(c, IF router[c] = "none" THEN "" ELSE router[c],
                        IF router[c] = "none" THEN NoPlan ELSE ProfilePlan(p), "active")
    OBVIOUS
  <1>2. cust' = [cust EXCEPT ![c] = x] /\ NobodyHas(c) /\ cust[c] = NoRow
    BY <1>1 DEF MigrateCore, Saved
  <1>3. Fresh(x)  BY <1>1, CreatedIs
  <1> QED  BY <1>2, <1>3, OthersStay

LEMMA MigrateLegacyRow ==
    ASSUME Rows, NEW f \in Files, NEW i \in DOMAIN RowsOf[f], MigrateLegacy(f, i)
    PROVE  LET c == RowsOf[f][i].user IN
           /\ DOMAIN cust' = Customers /\ \A d \in Customers \ {c} : cust'[d] = cust[d]
           /\ c \in Customers /\ NobodyHas(c) /\ cust[c] # NoRow /\ KeptRow(cust[c], cust'[c])
  <1> DEFINE r == RowsOf[f][i]
             c == r.user
  <1>1. c \in Customers /\ NobodyHas(c) /\ cust[c] # NoRow  BY RowsOfIs DEF MigrateLegacy
  <1>2. Shaped(cust[c])  BY <1>1 DEF Rows, RowOk
  <1>3. PICK x : x = Legacy(r, cust[c])  OBVIOUS
  <1>4. KeptRow(cust[c], x)
    <2>1. PICK st, exp, pw, plan :
              x = [cust[c] EXCEPT !.st = st, !.exp = exp, !.pw = pw, !.plan = plan, !.sync = "Synced"]
      BY <1>3 DEF Legacy
    <2> QED  BY <1>2, <2>1 DEF KeptRow, Shaped, RowFields
  <1>5. cust' = [cust EXCEPT ![c] = x]  BY <1>3 DEF MigrateLegacy
  <1>6. cust'[c] = x /\ DOMAIN cust' = Customers /\ \A d \in Customers \ {c} : cust'[d] = cust[d]
    BY <1>1, <1>5, OthersStay
  <1> QED  BY <1>1, <1>4, <1>6

LEMMA PlacesRow ==
    ASSUME Rows, ImportPlaces
    PROVE  /\ DOMAIN cust' = Customers
           /\ \A c \in Customers :
                /\ NobodyHas(c)
                /\ IF cust[c] = NoRow THEN cust'[c] = cust[c]
                   ELSE KeptRow(cust[c], cust'[c]) /\ KeptRuling(cust[c], cust'[c]) /\ cust'[c].pw = cust[c].pw
  <1>1. cust' = [c \in Customers |->
                    IF cust[c] = NoRow THEN NoRow
                    ELSE IF c \in Assigned THEN [cust[c] EXCEPT !.brgy = Winner(PlaceOf[c])]
                    ELSE [cust[c] EXCEPT !.brgy = Moved(cust[c])]]
    BY DEF ImportPlaces
  <1>2. ASSUME NEW c \in Customers
        PROVE  /\ NobodyHas(c)
               /\ IF cust[c] = NoRow THEN cust'[c] = cust[c]
                  ELSE KeptRow(cust[c], cust'[c]) /\ KeptRuling(cust[c], cust'[c]) /\ cust'[c].pw = cust[c].pw
    <2>1. NobodyHas(c)  BY DEF ImportPlaces
    <2>2. CASE cust[c] = NoRow  BY <1>1, <2>1, <2>2
    <2>3. CASE cust[c] # NoRow
      <3>1. Shaped(cust[c])  BY <2>3 DEF Rows, RowOk
      <3>2. PICK b : cust'[c] = [cust[c] EXCEPT !.brgy = b]  BY <1>1, <2>3
      <3> QED  BY <2>1, <2>3, <3>1, <3>2 DEF KeptRow, KeptRuling, Shaped, RowFields
    <2> QED  BY <2>2, <2>3
  <1> QED  BY <1>1, <1>2

LEMMA SaveEditRow ==
    ASSUME Base, Rows, NEW t \in Threads, SaveEdit(t)
    PROVE  LET c == session[t].c IN
           /\ DOMAIN cust' = Customers /\ \A d \in Customers \ {c} : cust'[d] = cust[d]
           /\ c \in Customers /\ Free(t, c) /\ session[t].h = "edit"
           /\ \/ cust'[c] = cust[c] /\ given' = given
              \/ /\ KeptRow(session[t].row, cust'[c]) /\ KeptRuling(session[t].row, cust'[c])
                 /\ cust'[c].pw = "typed" /\ given' = [given EXCEPT ![c] = @ \/ Calm]
  <1> DEFINE c == session[t].c
             row == session[t].row
  <1>1. c \in Customers /\ Free(t, c) /\ session[t].h = "edit"
    BY DEF Base, Sessions, Threaded, SessionOk, SaveEdit
  <1>2. CASE UNCHANGED <<cust, given>>  BY <1>1, <1>2 DEF Rows
  <1>3. CASE cust' = [cust EXCEPT ![c] = [row EXCEPT !.pw = "typed"]]
             /\ given' = [given EXCEPT ![c] = @ \/ Calm]
    <2>1. Shaped(row)  BY <1>1 DEF Rows
    <2>2. PICK x : x = [row EXCEPT !.pw = "typed"]  OBVIOUS
    <2>3. KeptRow(row, x) /\ KeptRuling(row, x) /\ x.pw = "typed"
      BY <2>1, <2>2 DEF KeptRow, KeptRuling, Shaped, RowFields
    <2>4. cust' = [cust EXCEPT ![c] = x]  BY <1>3, <2>2
    <2>5. cust'[c] = x /\ DOMAIN cust' = Customers /\ \A d \in Customers \ {c} : cust'[d] = cust[d]
      BY <1>1, <2>4, OthersStay
    <2> QED  BY <1>1, <1>3, <2>3, <2>5
  <1> QED  BY <1>2, <1>3 DEF SaveEdit

LEMMA CommitRow ==
    ASSUME Base, Rows, NEW t \in Threads, Commit(t)
    PROVE  /\ DOMAIN cust' = Customers /\ Importing(t) /\ ImportOk(session[t])
           /\ \A c \in DOMAIN session[t].rows : cust'[c] = session[t].rows[c] /\ Shaped(cust'[c])
           /\ \A c \in Customers \ DOMAIN session[t].rows : cust'[c] = cust[c]
  <1>1. Importing(t) /\ cust' = Over(session[t].rows, cust)  BY DEF Commit
  <1>2. ImportOk(session[t])  BY <1>1, ImportIs DEF Base
  <1>3. DOMAIN session[t].rows \subseteq Customers  BY <1>2 DEF ImportOk
  <1>4. PICK g : g = session[t].rows  OBVIOUS
  <1>5. DOMAIN cust' = DOMAIN g \cup Customers /\ (\A c \in DOMAIN g : cust'[c] = g[c])
        /\ \A c \in Customers \ DOMAIN g : cust'[c] = cust[c]
    <2>1. DOMAIN cust = Customers  BY DEF Rows
    <2>2. /\ DOMAIN Over(g, cust) = DOMAIN g \cup DOMAIN cust
          /\ \A c \in DOMAIN g : Over(g, cust)[c] = g[c]
          /\ \A c \in DOMAIN cust \ DOMAIN g : Over(g, cust)[c] = cust[c]
      BY OverIs
    <2>3. cust' = Over(g, cust)  BY <1>1, <1>4
    <2> QED  BY <2>1, <2>2, <2>3
  <1>6. \A c \in DOMAIN g : Shaped(g[c])  BY <1>1, <1>4 DEF Rows
  <1> QED  BY <1>1, <1>2, <1>3, <1>4, <1>5, <1>6

LEMMA WroteIs ==
    ASSUME Base, Rows, NEW t \in Threads, WriteRow(t)
    PROVE  LET s == session[t] IN LET x == Wrote(t) IN LET row == Seen(t, UserOf(t)) IN
           /\ Shaped(x) /\ x.imp = s.k /\ x.stamp = now
           /\ x.rev = (row # NoRow /\ row.rev)
           /\ Reviewed(s.old) => x.st = s.old.st /\ x.exp = s.old.exp
           /\ x.pw = Password(Current(s), s.old)
           /\ UserOf(t) \in Customers /\ Free(t, UserOf(t)) /\ Importing(t) /\ cust' = cust
  <1> DEFINE s == session[t]
  <1>1. Importing(t) /\ s.got /\ cust' = cust /\ Free(t, UserOf(t))  BY DEF WriteRow, InTable, UserOf
  <1>2. ImportOk(s) /\ now \in Nat  BY <1>1, ImportIs DEF Base, Sessions, Counters
  <1>3. UserOf(t) \in Customers  BY <1>1, <1>2, CurrentIs DEF Base, Places, Within, UserOf
  <1>4. s.k \in Nat  BY <1>2 DEF ImportOk
  <1>50. (Seen(t, UserOf(t)) # NoRow /\ Seen(t, UserOf(t)).rev) \in BOOLEAN  OBVIOUS
  <1>51. PICK b \in BOOLEAN : b = (Seen(t, UserOf(t)) # NoRow /\ Seen(t, UserOf(t)).rev)
    BY <1>50, Zenon
  <1>5. Wrote(t) = [st   |-> IF Reviewed(s.old) THEN s.old.st ELSE StatusOf(Current(s).st),
                    exp  |-> IF Reviewed(s.old) THEN s.old.exp ELSE DateOf(Current(s).exp),
                    pw   |-> Password(Current(s), s.old), plan |-> Resolved[Current(s).plan],
                    sync |-> "Unverified", stamp |-> now,
                    rev  |-> b,
                    brgy |-> IF Seen(t, UserOf(t)) = NoRow THEN 0 ELSE Seen(t, UserOf(t)).brgy,
                    imp |-> s.k]
    BY <1>51 DEF Wrote, Imported, UserOf, StampOf
  <1>6. PICK x : x = Wrote(t)  OBVIOUS
  <1>7. DOMAIN x = RowFields /\ x.imp = s.k /\ x.stamp = now
        /\ x.st = (IF Reviewed(s.old) THEN s.old.st ELSE StatusOf(Current(s).st))
        /\ x.exp = (IF Reviewed(s.old) THEN s.old.exp ELSE DateOf(Current(s).exp))
        /\ x.pw = Password(Current(s), s.old)
    BY <1>5, <1>6 DEF RowFields
  <1>8. x.rev = b  BY <1>5, <1>6
  <1>9. Shaped(x)  BY <1>2, <1>4, <1>7 DEF Shaped
  <1>10. x.rev = (Seen(t, UserOf(t)) # NoRow /\ Seen(t, UserOf(t)).rev)  BY <1>8, <1>51, Zenon
  <1> QED  BY <1>1, <1>3, <1>6, <1>7, <1>9, <1>10

LEMMA OldFilesAre == OldFiles \subseteq Files
  BY CutOverAssumption

\* Only the customer form opens one.
LEMMA EditOpens ==
    ASSUME Sessions, NEW t \in Threads, Forms(t), session'[t].h = "edit"
    PROVE  \E c \in Customers :
               /\ OpenEdit(t, c) /\ cust[c] # NoRow /\ cust' = cust /\ "edit" \in duty
               /\ session'[t] = [h |-> "edit", c |-> c, row |-> cust[c]]
  <1>0. t \in DOMAIN session  BY DEF Sessions, Threaded
  <1>1. CASE \E c \in Customers : OpenEdit(t, c)
    BY <1>0, <1>1 DEF OpenEdit, Becomes, On
  <1>2. CASE \E c \in Customers : OpenPair(t, c)
    BY <1>0, <1>2 DEF OpenPair, Becomes
  <1>3. CASE SaveEdit(t) \/ Pair(t) \/ StopMap(t)
    BY <1>0, <1>3 DEF SaveEdit, Pair, StopMap, Becomes, Idle
  <1>4. CASE MapPlans(t)
    <2>1. PICK x : x = [code \in CodeSet |-> Decision(plans, code)]  OBVIOUS
    <2>2. session'[t] = [h |-> "map", todo |-> Codes, does |-> x]
      BY <1>0, <1>4, <2>1 DEF MapPlans, Becomes
    <2> QED  BY <2>2
  <1>5. CASE MapPlan(t)
    <2>1. session[t].h = "map" /\ DOMAIN session[t] = {"h", "todo", "does"}
      BY <1>5 DEF MapPlan, Sessions, Threaded, SessionOk
    <2>2. session'[t] = Idle \/ session'[t] = [session[t] EXCEPT !.todo = Tail(@)]
      BY <1>0, <1>5 DEF MapPlan, Becomes
    <2> QED  BY <2>1, <2>2 DEF Idle
  <1> QED  BY <1>1, <1>2, <1>3, <1>4, <1>5 DEF Forms

\* The forms and the plan command that leave the table alone.
LEMMA FormsRow ==
    ASSUME Sessions, NEW t \in Threads, Forms(t), ~SaveEdit(t), ~Pair(t)
    PROVE  cust' = cust /\ given' = given /\ ruled' = ruled /\ approval' = approval /\ router' = router
  BY DEF Forms, OpenEdit, OpenPair, MapPlans, MapPlan, StopMap, People

\* How a row may change in a step.
Change(c) ==
    \/ cust'[c] = cust[c]
    \/ cust[c] # NoRow /\ KeptRow(cust[c], cust'[c])
    \/ cust[c] = NoRow /\ Fresh(cust'[c])
    \/ Reset /\ cust'[c] = NoRow
    \/ \E t \in Threads : /\ Commit(t) /\ Importing(t) /\ c \in DOMAIN session[t].rows
                          /\ cust'[c] = session[t].rows[c] /\ Shaped(cust'[c])
    \/ \E t \in Threads : /\ SaveEdit(t) /\ session[t].h = "edit" /\ session[t].c = c
                          /\ KeptRow(session[t].row, cust'[c])

LEMMA AsideChange ==
    ASSUME Base, Rows, Aside
    PROVE  DOMAIN cust' = Customers /\ \A c \in Customers : Change(c)
  <1> USE DEF Change
  <1>0. DOMAIN cust = Customers  BY DEF Rows
  <1>1. CASE \E t \in Threads, f \in Files \cap duty : Stage(t, f) \/ Malformed(t, f)
    <2>1. cust' = cust  BY <1>1 DEF Stage, Malformed
    <2> QED  BY <1>0, <2>1
  <1>2. CASE \E t \in Threads, c \in Customers, a \in {"archive", "activate", "set", "clear", "unreview"} :
                 Review(t, c, a)
    BY <1>2, ReviewRow
  <1>3. CASE \E c \in Customers, p \in CodeSet \cup {"default"} : Recover(c, p) \/ MigrateCore(c, p)
    BY <1>3, RecoverRow, MigrateCoreRow
  <1>4. CASE \E f \in OldFiles \cap duty : \E i \in DOMAIN RowsOf[f] : MigrateLegacy(f, i)
    BY <1>4, OldFilesAre, MigrateLegacyRow
  <1>5. CASE Reset
    BY <1>5 DEF Reset
  <1>6. CASE ImportPlaces
    BY <1>6, PlacesRow
  <1> QED  BY <1>1, <1>2, <1>3, <1>4, <1>5, <1>6 DEF Aside

LEMMA ChangesAre ==
    ASSUME Base, Rows, Next
    PROVE  DOMAIN cust' = Customers /\ \A c \in Customers : Change(c)
  <1>0. DOMAIN cust = Customers  BY DEF Rows
  <1>1. CASE cust' = cust  BY <1>0, <1>1 DEF Change
  <1>2. ASSUME NEW t \in Threads, Commit(t) PROVE DOMAIN cust' = Customers /\ \A c \in Customers : Change(c)
    BY <1>2, CommitRow DEF Change
  <1>3. ASSUME NEW t \in Threads, Deadlock(t) \/ PayFails(t) \/ ReadRow(t) \/ WriteRow(t) \/ Pay(t)
        PROVE  cust' = cust
    BY <1>3 DEF Deadlock, PayFails, ReadRow, WriteRow, Pay, InTable
  <1>4. ASSUME NEW t \in Threads, SaveEdit(t) PROVE DOMAIN cust' = Customers /\ \A c \in Customers : Change(c)
    BY <1>4, SaveEditRow DEF Change
  <1>5. ASSUME NEW t \in Threads, Pair(t) PROVE DOMAIN cust' = Customers /\ \A c \in Customers : Change(c)
    BY <1>5, PairRow DEF Change
  <1>6. ASSUME NEW t \in Threads, NEW f \in Files \cap duty, Begin(t, f) PROVE cust' = cust
    BY <1>6 DEF Begin
  <1>7. ASSUME NEW w \in Workers, Stop(w) PROVE cust' = cust  BY <1>7 DEF Stop
  <1>8. ASSUME NEW t \in Threads, Forms(t), ~SaveEdit(t), ~Pair(t) PROVE cust' = cust
    BY <1>8, FormsRow DEF Base
  <1> QED
    BY <1>1, <1>2, <1>3, <1>4, <1>5, <1>6, <1>7, <1>8, AsideChange, NextIs DEF Ends

LEMMA WithShaped ==
    ASSUME NEW g, NEW c, NEW x, Shaped(x), \A d \in DOMAIN g : Shaped(g[d])
    PROVE  \A d \in DOMAIN With(g, c, x) : Shaped(With(g, c, x)[d])
  BY DEF With, Over

LEMMA RowsStep ==
    ASSUME Base, Rows, Next
    PROVE  Rows'
  <1>1. DOMAIN cust' = Customers /\ \A c \in Customers : RowOk(cust'[c])
    <2>1. ASSUME NEW c \in Customers PROVE RowOk(cust'[c])
      BY ChangesAre DEF Change, Rows, RowOk, KeptRow, Fresh
    <2> QED  BY <2>1, ChangesAre
  <1> DEFINE Fine(s) == /\ s.h = "import" => \A c \in DOMAIN s.rows : Shaped(s.rows[c])
                        /\ s.h = "edit" => Shaped(s.row)
  <1>2. \A t \in Threads : Fine(session[t])  BY DEF Rows, Importing
  <1>3. ASSUME \A t \in Threads : Fine(session'[t]) PROVE Rows'
    BY <1>1, <1>3 DEF Rows, Importing
  <1>4. Fine(Idle)  BY DEF Idle
  <1>5. ASSUME NEW t \in Threads, \A u \in Threads \ {t} : session'[u] = session[u], Fine(session'[t])
        PROVE  Rows'
    BY <1>2, <1>3, <1>5
  <1>6. ASSUME NEW t \in Threads, NEW f \in Files \cap duty, Begin(t, f) PROVE Rows'
    <2>1. \A u \in Threads \ {t} : session'[u] = session[u]  BY <1>6, BeginOk DEF Base
    <2>2. session'[t].rows = <<>> /\ session'[t].h = "import"
      BY <1>6 DEF Begin, Becomes, Base, Sessions, Threaded
    <2>3. Fine(session'[t])  BY <2>2
    <2> QED  BY <1>5, <2>1, <2>3
  <1>7. ASSUME NEW t \in Threads, ReadRow(t) \/ Pay(t) PROVE Rows'
    <2>1. /\ \A u \in Threads \ {t} : session'[u] = session[u]
          /\ session'[t].h = session[t].h /\ session'[t].rows = session[t].rows
      BY <1>7, ReadRowOk, PayOk DEF Base, Same
    <2>2. session[t].h = "import"  BY <1>7 DEF ReadRow, Pay, RowsDone, Importing
    <2>3. Fine(session'[t])  BY <1>2, <2>1, <2>2
    <2> QED  BY <1>5, <2>1, <2>3
  <1>8. ASSUME NEW t \in Threads, WriteRow(t) PROVE Rows'
    <2>1. Within(session[t])  BY <1>8 DEF WriteRow, Base, Places
    <2>2. /\ \A u \in Threads \ {t} : session'[u] = session[u]
          /\ session'[t].h = session[t].h
          /\ session'[t].rows = With(session[t].rows, UserOf(t), Wrote(t))
      BY <1>8, <2>1, WriteRowOk DEF Base, Same
    <2>3. session[t].h = "import"  BY <1>8 DEF WriteRow, Importing
    <2>4. Shaped(Wrote(t))  BY <1>8, WroteIs
    <2>5. PICK g, x, d : g = session[t].rows /\ x = Wrote(t) /\ d = UserOf(t)  OBVIOUS
    <2>6. \A c \in DOMAIN g : Shaped(g[c])  BY <1>2, <2>3, <2>5
    <2>7. \A c \in DOMAIN With(g, d, x) : Shaped(With(g, d, x)[c])
      <3>1. Shaped(x)  BY <2>4, <2>5
      <3> QED  BY <2>6, <3>1, WithShaped
    <2>8. Fine(session'[t])  BY <2>2, <2>3, <2>5, <2>7
    <2> QED  BY <1>5, <2>2, <2>8
  <1>9. ASSUME NEW t \in Threads, Ends(t) PROVE Rows'
    BY <1>4, <1>5, <1>9, EndsOk DEF Base
  <1>10. ASSUME NEW t \in Threads, Forms(t) PROVE Rows'
    <2>1. (\A u \in Threads \ {t} : session'[u] = session[u]) /\ session'[t].h # "import"
      BY <1>10, FormsOk DEF Base, Importing
    <2>2. session'[t].h = "edit" => Shaped(session'[t].row)
      <3>1. SUFFICES ASSUME session'[t].h = "edit" PROVE Shaped(session'[t].row)  OBVIOUS
      <3>2. PICK c \in Customers : cust[c] # NoRow
                /\ session'[t] = [h |-> "edit", c |-> c, row |-> cust[c]]
        BY <1>10, <3>1, EditOpens DEF Base
      <3>3. Shaped(cust[c])  BY <3>2 DEF Rows, RowOk
      <3> QED  BY <3>2, <3>3
    <2> QED  BY <1>5, <2>1, <2>2
  <1>11. ASSUME Aside PROVE Rows'
    <2>1. session' = session  BY <1>11, AsideOk DEF Base
    <2> QED  BY <1>2, <1>3, <2>1
  <1>12. ASSUME NEW w \in Workers, Stop(w) PROVE Rows'
    <2>1. \A t \in Threads : session'[t] \in {Idle, session[t]}  BY <1>12, StopOk DEF Base
    <2> HIDE DEF Fine
    <2>2. \A t \in Threads : Fine(session'[t])  BY <1>2, <1>4, <2>1
    <2> QED  BY <1>3, <2>2
  <1> QED
    BY <1>6, <1>7, <1>8, <1>9, <1>10, <1>11, <1>12, NextIs

\* What a running import may have done in a step.
Begun(t) ==
    LET j == session'[t]
    IN  /\ \E f \in Files \cap duty : Begin(t, f)
        /\ session[t] = Idle /\ ~Importing(t)
        /\ j.rows = <<>> /\ j.got = FALSE /\ j.paid = FALSE /\ j.i = 1
        /\ j.began = now /\ j.k = imports + 1
HasRead(t) ==
    LET s == session[t]
        j == session'[t]
    IN  /\ ReadRow(t) /\ Importing(t) /\ Same(s, j)
        /\ j.got = TRUE /\ j.old = Seen(t, UserOf(t))
        /\ j.i = s.i /\ j.rows = s.rows /\ j.paid = s.paid /\ j.pays = s.pays
HasWritten(t) ==
    LET s == session[t]
        j == session'[t]
    IN  /\ WriteRow(t) /\ Importing(t) /\ Same(s, j)
        /\ j.got = FALSE /\ j.i = s.i + 1 /\ j.rows = With(s.rows, UserOf(t), Wrote(t))
        /\ j.paid = s.paid /\ j.pays = s.pays
HasPaid(t) ==
    LET s == session[t]
        j == session'[t]
    IN  /\ Pay(t) /\ Importing(t) /\ Same(s, j)
        /\ j.got = s.got /\ j.old = s.old /\ j.i = s.i /\ j.rows = s.rows /\ j.paid = TRUE
        /\ j.pays = IF Content[s.f].pays = <<>> THEN s.pays ELSE Settled(t, s.f)

LEMMA FlightIs ==
    ASSUME Base, Next, NEW t \in Threads, Importing(t)'
    PROVE  \/ Begun(t) \/ HasRead(t) \/ HasWritten(t) \/ HasPaid(t)
           \/ Importing(t) /\ session'[t] = session[t]
  <1> USE DEF Base
  <1>1. ASSUME session'[t] = session[t] PROVE Importing(t) /\ session'[t] = session[t]
    BY <1>1 DEF Importing
  <1>2. ASSUME NEW u \in Threads, NEW f \in Files \cap duty, Begin(u, f)
        PROVE  Begun(t) \/ session'[t] = session[t]
    <2>1. \A v \in Threads \ {u} : session'[v] = session[v]  BY <1>2, BeginOk
    <2>2. CASE t # u  BY <2>1, <2>2
    <2>3. CASE t = u
      <3>1. session[t] = Idle  BY <1>2, <2>3 DEF Begin
      <3>2. ~Importing(t)  BY <3>1 DEF Importing, Idle
      <3>3. session'[t] = [h |-> "import", f |-> Target(f), k |-> imports + 1, began |-> now, i |-> 1,
                   got |-> FALSE, old |-> NoRow, rows |-> <<>>, paid |-> FALSE, pays |-> <<>>,
                   new |-> 0]
        BY <1>2, <2>3 DEF Begin, Becomes, Sessions, Threaded
      <3> QED  BY <1>2, <2>3, <3>1, <3>2, <3>3 DEF Begun
    <2> QED  BY <2>2, <2>3
  <1>3. ASSUME NEW u \in Threads, ReadRow(u) PROVE HasRead(t) \/ session'[t] = session[t]
    <2>1. Importing(u)  BY <1>3 DEF ReadRow
    <2> QED  BY <1>3, <2>1, ReadRowOk DEF HasRead, UserOf
  <1>4. ASSUME NEW u \in Threads, WriteRow(u) PROVE HasWritten(t) \/ session'[t] = session[t]
    <2>1. Importing(u) /\ Within(session[u])  BY <1>4 DEF WriteRow, Places
    <2> QED  BY <1>4, <2>1, WriteRowOk DEF HasWritten
  <1>5. ASSUME NEW u \in Threads, Pay(u) PROVE HasPaid(t) \/ session'[t] = session[t]
    <2>1. Importing(u)  BY <1>5 DEF Pay, RowsDone
    <2> QED  BY <1>5, <2>1, PayOk DEF HasPaid
  <1>6. ASSUME NEW u \in Threads, Ends(u) \/ Forms(u) PROVE session'[t] = session[t]
    <2>1. (\A v \in Threads \ {u} : session'[v] = session[v]) /\ ~Importing(u)'
      BY <1>6, EndsOk, FormsOk DEF Importing, Idle
    <2> QED  BY <2>1
  <1>7. ASSUME Aside PROVE session'[t] = session[t]  BY <1>7, AsideOk
  <1>8. ASSUME NEW w \in Workers, Stop(w) PROVE session'[t] = session[t]
    <2>1. session'[t] \in {Idle, session[t]}  BY <1>8, StopOk
    <2> QED  BY <2>1 DEF Importing, Idle
  <1> QED  BY <1>1, <1>2, <1>3, <1>4, <1>5, <1>6, <1>7, <1>8, NextIs

LEMMA EditIs ==
    ASSUME Base, Next, NEW t \in Threads, session'[t].h = "edit"
    PROVE  \/ session'[t] = session[t]
           \/ \E c \in Customers :
                 /\ OpenEdit(t, c) /\ cust[c] # NoRow /\ cust' = cust /\ "edit" \in duty
                 /\ session'[t] = [h |-> "edit", c |-> c, row |-> cust[c]]
  <1> USE DEF Base
  <1>1. ASSUME NEW u \in Threads, NEW f \in Files \cap duty, Begin(u, f) PROVE session'[t] = session[t]
    BY <1>1, BeginOk DEF Importing
  <1>2. ASSUME NEW u \in Threads, ReadRow(u) \/ WriteRow(u) \/ Pay(u) PROVE session'[t] = session[t]
    <2>1. Importing(u) /\ (WriteRow(u) => Within(session[u]))
      BY <1>2 DEF ReadRow, WriteRow, Pay, RowsDone, Places
    <2>2. (\A v \in Threads \ {u} : session'[v] = session[v]) /\ session'[u].h = session[u].h
      BY <1>2, <2>1, ReadRowOk, WriteRowOk, PayOk DEF Same
    <2> QED  BY <2>1, <2>2 DEF Importing
  <1>3. ASSUME NEW u \in Threads, Ends(u) PROVE session'[t] = session[t]
    BY <1>3, EndsOk DEF Idle
  <1>4. ASSUME NEW u \in Threads, Forms(u), t # u PROVE session'[t] = session[t]
    BY <1>4, FormsOk
  <1>5. ASSUME Aside PROVE session'[t] = session[t]  BY <1>5, AsideOk
  <1>6. ASSUME NEW w \in Workers, Stop(w) PROVE session'[t] = session[t]
    <2>1. session'[t] \in {Idle, session[t]}  BY <1>6, StopOk
    <2> QED  BY <2>1 DEF Idle
  <1>7. ASSUME Forms(t)
        PROVE  \E c \in Customers :
                 /\ OpenEdit(t, c) /\ cust[c] # NoRow /\ cust' = cust /\ "edit" \in duty
                 /\ session'[t] = [h |-> "edit", c |-> c, row |-> cust[c]]
    BY <1>7, EditOpens
  <1> QED  BY <1>1, <1>2, <1>3, <1>4, <1>5, <1>6, <1>7, NextIs

LEMMA RowsAtFirst ==
    ASSUME Init
    PROVE  Rows
  <1>1. session = [t \in Threads |-> Idle] /\ cust = Opening  BY DEF Init
  <1>2. \A t \in Threads : session[t].h = "idle"  BY <1>1 DEF Idle
  <1>3. DOMAIN cust = Customers  BY <1>1, CutOverAssumption
  <1>4. ASSUME NEW c \in Customers PROVE RowOk(cust[c])
    <2>1. Opening[c] = NoRow \/ IsRow(Opening[c])  BY CutOverAssumption
    <2> QED  BY <1>1, <2>1 DEF RowOk, Shaped, IsRow
  <1> QED  BY <1>2, <1>3, <1>4 DEF Rows, Importing

LEMMA RowsCorrect == Spec => []Rows
  <1>1. Rows /\ UNCHANGED vars => Rows'  BY DEF Rows, RowOk, Importing, vars
  <1>2. Base /\ Rows /\ [Next]_vars => Rows'  BY <1>1, RowsStep
  <1>3. Init => Rows  BY RowsAtFirst
  <1> QED  BY <1>2, <1>3, BaseCorrect, PTL DEF Spec
-----------------------------------------------------------------------------
(* Imports are whole *)

Entry == [k : Nat, f : Files, new : Nat, began : Nat]

LEMMA HistoryGrows ==
    ASSUME Base, history \in Seq(Entry), Next
    PROVE  /\ history' \in Seq(Entry)
           /\ \A i \in DOMAIN history : i \in DOMAIN history' /\ history'[i] = history[i]
           /\ \/ history' = history
              \/ \E t \in Threads :
                    /\ Commit(t) /\ Importing(t) /\ ImportOk(session[t])
                    /\ DOMAIN history' = DOMAIN history \cup {Len(history) + 1}
                    /\ history'[Len(history) + 1] =
                          [k |-> session[t].k, f |-> session[t].f, new |-> session[t].new,
                           began |-> session[t].began]
  <1>1. ASSUME NEW t \in Threads, Commit(t)
        PROVE  /\ history' \in Seq(Entry)
               /\ \A i \in DOMAIN history : i \in DOMAIN history' /\ history'[i] = history[i]
               /\ Importing(t) /\ ImportOk(session[t])
               /\ DOMAIN history' = DOMAIN history \cup {Len(history) + 1}
               /\ history'[Len(history) + 1] =
                          [k |-> session[t].k, f |-> session[t].f, new |-> session[t].new,
                           began |-> session[t].began]
    <2>1. Importing(t)  BY <1>1 DEF Commit
    <2>2. ImportOk(session[t])  BY <2>1, ImportIs DEF Base
    <2>3. PICK e : e = [k |-> session[t].k, f |-> session[t].f, new |-> session[t].new,
                        began |-> session[t].began]
      OBVIOUS
    <2>4. e \in Entry  BY <2>2, <2>3 DEF Entry, ImportOk
    <2>5. history' = Append(history, e)  BY <1>1, <2>3 DEF Commit
    <2> HIDE DEF Entry
    <2>6. history' \in Seq(Entry) /\ Len(history') = Len(history) + 1
          /\ history'[Len(history) + 1] = e
          /\ \A i \in 1 .. Len(history) : history'[i] = history[i]
      BY <2>4, <2>5
    <2>7. DOMAIN history = 1 .. Len(history) /\ DOMAIN history' = 1 .. Len(history) + 1
          /\ Len(history) \in Nat
      BY <2>6
    <2> QED  BY <2>1, <2>2, <2>3, <2>6, <2>7
  <1>2. ASSUME \A t \in Threads : ~Commit(t) PROVE history' = history
    <2> USE <1>2 DEF Papers
    <2>1. ASSUME NEW t \in Threads, NEW f \in Files \cap duty, Begin(t, f) PROVE history' = history
      BY <2>1 DEF Begin
    <2>2. ASSUME NEW t \in Threads, ReadRow(t) \/ WriteRow(t) \/ Pay(t) \/ Ends(t) \/ Forms(t)
          PROVE  history' = history
      BY <2>2 DEF ReadRow, WriteRow, Pay, Ends, Deadlock, PayFails, Forms, OpenEdit, OpenPair, SaveEdit,
                  Pair, MapPlans, MapPlan, StopMap
    <2>3. ASSUME Aside PROVE history' = history
      BY <2>3 DEF Aside, Stage, Malformed, Review, Recover, MigrateCore, MigrateLegacy, Saved, Reset,
                  ImportPlaces
    <2>4. ASSUME NEW w \in Workers, Stop(w) PROVE history' = history  BY <2>4 DEF Stop
    <2> QED  BY <2>1, <2>2, <2>3, <2>4, NextIs
  <1> QED  BY <1>1, <1>2

InHistory(k) == \E i \in DOMAIN history : history[i].k = k
After(k)     == \E i \in DOMAIN history' : history'[i].k = k

\* Every number on a row is that of an import in the history; on a row in a running
\* import that of the import.
Recorded ==
    /\ history \in Seq(Entry)
    /\ \A c \in Customers : cust[c] # NoRow /\ cust[c].imp # 0 => InHistory(cust[c].imp)
    /\ \A t \in Threads : session[t].h = "edit" /\ session[t].row.imp # 0 => InHistory(session[t].row.imp)
    /\ \A t \in Threads : Importing(t) =>
           \A c \in DOMAIN session[t].rows : session[t].rows[c].imp = session[t].k

LEMMA RecordedAtFirst ==
    ASSUME Init
    PROVE  Recorded
  <1>1. session = [t \in Threads |-> Idle] /\ cust = Opening /\ history = <<>>  BY DEF Init
  <1>2. \A t \in Threads : session[t].h = "idle"  BY <1>1 DEF Idle
  <1>3. ASSUME NEW c \in Customers, cust[c] # NoRow PROVE cust[c].imp = 0
    BY <1>1, <1>3, CutOverAssumption
  <1>4. history \in Seq(Entry)  BY <1>1
  <1> QED  BY <1>2, <1>3, <1>4 DEF Recorded, Importing

LEMMA RecordedStep ==
    ASSUME Base, Rows, Recorded, Next
    PROVE  Recorded'
  <1>1. history' \in Seq(Entry) /\ \A k : InHistory(k) => After(k)
    BY HistoryGrows DEF Recorded, InHistory, After
  <1>2. ASSUME NEW c \in Customers, cust'[c] # NoRow, cust'[c].imp # 0
        PROVE  After(cust'[c].imp)
    <2>1. Change(c)  BY ChangesAre
    <2>2. CASE cust'[c] = cust[c]  BY <1>1, <1>2, <2>2 DEF Recorded
    <2>3. CASE cust[c] # NoRow /\ KeptRow(cust[c], cust'[c])
      BY <1>1, <1>2, <2>3 DEF Recorded, KeptRow
    <2>4. CASE cust[c] = NoRow /\ Fresh(cust'[c])  BY <1>2, <2>4 DEF Fresh
    <2>5. ASSUME NEW t \in Threads, Commit(t), Importing(t), c \in DOMAIN session[t].rows,
                 cust'[c] = session[t].rows[c]
          PROVE  After(cust'[c].imp)
      <3>1. cust'[c].imp = session[t].k  BY <2>5 DEF Recorded
      <3>2. history' = Append(history, [k |-> session[t].k, f |-> session[t].f, new |-> session[t].new,
                                        began |-> session[t].began])
        BY <2>5 DEF Commit
      <3>3. PICK e : e = [k |-> session[t].k, f |-> session[t].f, new |-> session[t].new,
                          began |-> session[t].began]
        OBVIOUS
      <3>4. history \in Seq(Entry)  BY DEF Recorded
      <3>5. ImportOk(session[t])  BY <2>5, ImportIs DEF Base
      <3>6. e \in Entry /\ e.k = session[t].k  BY <3>3, <3>5 DEF Entry, ImportOk
      <3> HIDE DEF Entry
      <3>7. Len(history) + 1 \in DOMAIN history' /\ history'[Len(history) + 1] = e
        BY <3>2, <3>3, <3>4, <3>6
      <3> QED  BY <3>1, <3>6, <3>7 DEF After
    <2>6. ASSUME NEW t \in Threads, session[t].h = "edit", session[t].c = c,
                 KeptRow(session[t].row, cust'[c])
          PROVE  After(cust'[c].imp)
      BY <1>1, <1>2, <2>6 DEF Recorded, KeptRow
    <2> QED  BY <1>2, <2>1, <2>2, <2>3, <2>4, <2>5, <2>6 DEF Change
  <1>3. ASSUME NEW t \in Threads, session'[t].h = "edit", session'[t].row.imp # 0
        PROVE  After(session'[t].row.imp)
    <2>1. CASE session'[t] = session[t]  BY <1>1, <1>3, <2>1 DEF Recorded
    <2>2. CASE \E c \in Customers : /\ cust[c] # NoRow
                                    /\ session'[t] = [h |-> "edit", c |-> c, row |-> cust[c]]
      <3>1. PICK c \in Customers : /\ cust[c] # NoRow
                                   /\ session'[t] = [h |-> "edit", c |-> c, row |-> cust[c]]
        BY <2>2
      <3>2. session'[t].row = cust[c]  BY <3>1
      <3> QED  BY <1>1, <1>3, <3>1, <3>2 DEF Recorded
    <2> QED  BY <1>3, <2>1, <2>2, EditIs
  <1>4. ASSUME NEW t \in Threads, Importing(t)', NEW c \in DOMAIN session'[t].rows
        PROVE  session'[t].rows[c].imp = session'[t].k
    <2>1. CASE Begun(t)  BY <1>4, <2>1 DEF Begun
    <2>2. CASE HasRead(t)  BY <1>4, <2>2 DEF HasRead, Same, Recorded
    <2>3. CASE HasPaid(t)  BY <1>4, <2>3 DEF HasPaid, Same, Recorded
    <2>4. CASE Importing(t) /\ session'[t] = session[t]  BY <1>4, <2>4 DEF Recorded
    <2>5. CASE HasWritten(t)
      <3>1. PICK g, x, d : g = session[t].rows /\ x = Wrote(t) /\ d = UserOf(t)  OBVIOUS
      <3>2. session'[t].rows = With(g, d, x) /\ session'[t].k = session[t].k
        BY <2>5, <3>1 DEF HasWritten, Same
      <3>3. WriteRow(t) /\ Importing(t)  BY <2>5 DEF HasWritten
      <3>4. x.imp = session[t].k  BY <3>1, <3>3, WroteIs
      <3>5. \A b \in DOMAIN g : g[b].imp = session[t].k  BY <3>1, <3>3 DEF Recorded
      <3>6. c \in DOMAIN With(g, d, x)  BY <1>4, <3>2
      <3>7. With(g, d, x)[c] \in {x} \/ (c \in DOMAIN g /\ With(g, d, x)[c] = g[c])
        BY <3>6 DEF With, Over
      <3> QED  BY <3>2, <3>4, <3>5, <3>7
    <2> QED  BY <1>4, <2>1, <2>2, <2>3, <2>4, <2>5, FlightIs
  <1> QED  BY <1>1, <1>2, <1>3, <1>4 DEF Recorded, InHistory, After

LEMMA RecordedCorrect == Spec => []Recorded
  <1>1. Init => Recorded  BY RecordedAtFirst
  <1>2. Recorded /\ UNCHANGED vars => Recorded'  BY DEF Recorded, InHistory, Importing, vars
  <1>3. Base /\ Rows /\ Recorded /\ [Next]_vars => Recorded'  BY <1>2, RecordedStep
  <1> QED  BY <1>1, <1>3, BaseCorrect, RowsCorrect, PTL DEF Spec

\* The database may refuse the payments of an export: one it cannot store, or two of one id.
Refusable(f) ==
    \/ Content[f].bad
    \/ \E i, j \in Counted[f] : i # j /\ Content[f].pays[i].id = Content[f].pays[j].id

Paying == \A t \in Threads : Importing(t) => session[t].paid \in BOOLEAN

LEMMA PayingCorrect == Spec => []Paying
  <1>1. Init => Paying
    <2>1. SUFFICES ASSUME Init PROVE Paying  OBVIOUS
    <2>2. \A t \in Threads : session[t] = Idle  BY <2>1 DEF Init
    <2> QED  BY <2>2 DEF Paying, Importing, Idle
  <1>2. ASSUME Base, Paying, Next, NEW t \in Threads, Importing(t)' PROVE session'[t].paid \in BOOLEAN
    <2>1. CASE Begun(t)  BY <1>2, <2>1 DEF Begun
    <2>2. CASE HasRead(t)  BY <1>2, <2>2 DEF HasRead, Paying
    <2>3. CASE HasWritten(t)  BY <1>2, <2>3 DEF HasWritten, Paying
    <2>4. CASE HasPaid(t)  BY <1>2, <2>4 DEF HasPaid
    <2>5. CASE Importing(t) /\ session'[t] = session[t]  BY <1>2, <2>5 DEF Paying
    <2> QED  BY <1>2, <2>1, <2>2, <2>3, <2>4, <2>5, FlightIs
  <1>3. Paying /\ UNCHANGED vars => Paying'  BY DEF Paying, Importing, vars
  <1>4. Base /\ Paying /\ Next => Paying'  BY <1>2 DEF Paying
  <1>5. Base /\ Paying /\ [Next]_vars => Paying'  BY <1>3, <1>4
  <1> QED  BY <1>1, <1>5, BaseCorrect, PTL DEF Spec

LEMMA CommitPaid ==
    ASSUME Paying, NEW t \in Threads, Commit(t)
    PROVE  Importing(t) /\ session[t].paid = TRUE
  <1>1. Importing(t) /\ session[t].paid /\ session[t].paid \in BOOLEAN  BY DEF Commit, Paying
  <1>2. PICK b \in BOOLEAN : b = session[t].paid  BY <1>1
  <1> QED  BY <1>1, <1>2, Zenon

\* While no export is refused, the list a worker keeps is empty between imports, and what
\* a running import has for the ledger is what its export says last of each payment.
Owed(s) ==
    \A id \in PaidIds[s.f] : id \in DOMAIN s.pays /\ s.pays[id].amt = LastOf(s.f, id).amt
Ledgers ==
    /\ \A f \in Files \cap duty : ~Refusable(f)
    /\ \A w \in Workers : DOMAIN queued[w] = {}
    /\ \A t \in Threads : Importing(t) /\ session[t].paid = TRUE => Owed(session[t])
    /\ \A id \in DOMAIN book : ledger[id].amt = book[id]

LEMMA SettledIs ==
    ASSUME NEW t \in Threads, DOMAIN queued[WorkerOf[t]] = {}, NEW f \in Files, NEW id \in PaidIds[f]
    PROVE  id \in DOMAIN Settled(t, f) /\ Settled(t, f)[id].amt = LastOf(f, id).amt
  <1> DEFINE known == {i \in PaidIds[f] : ledger[i] # NoPay}
             K == [i \in known |-> Fields(t, LastOf(f, i))]
             Q == Over(queued[WorkerOf[t]], K)
  <1>1. DOMAIN Q = known /\ \A i \in known : Q[i] = Fields(t, LastOf(f, i))
    BY DEF Over
  <1>2. QueueWith(t, f) = Q  BY DEF QueueWith
  <1>3. Settled(t, f) = [i \in PaidIds[f] \cup {i \in DOMAIN Q : ledger[i] # NoPay} |->
            IF ledger[i] = NoPay THEN Fields(t, LastOf(f, i)) ELSE Q[i]]
    BY <1>2 DEF Settled
  <1> HIDE DEF Q
  <1>4. id \in DOMAIN Settled(t, f)
        /\ Settled(t, f)[id] = IF ledger[id] = NoPay THEN Fields(t, LastOf(f, id)) ELSE Q[id]
    BY <1>3
  <1>5. Settled(t, f)[id] = Fields(t, LastOf(f, id))  BY <1>1, <1>4
  <1>6. Fields(t, LastOf(f, id)).amt = LastOf(f, id).amt  BY DEF Fields
  <1> QED  BY <1>4, <1>5, <1>6

LEMMA NoneToPay ==
    ASSUME NEW f \in Files, Content[f].pays = <<>>
    PROVE  PaidIds[f] = {}
  BY DEF PaidIds, Counted

LEMMA LedgersAtFirst ==
    ASSUME Init, \A D \in Duties : \A f \in Files \cap D : ~Refusable(f)
    PROVE  Ledgers
  <1>1. session = [t \in Threads |-> Idle] /\ queued = [w \in Workers |-> <<>>] /\ book = <<>> /\ duty \in Duties
    BY DEF Init
  <1>2. \A t \in Threads : ~Importing(t)  BY <1>1 DEF Importing, Idle
  <1> QED  BY <1>1, <1>2 DEF Ledgers

LEMMA DutyStays ==
    ASSUME Next
    PROVE  duty' = duty
  <1> USE DEF People, Worker, Papers, Catalog
  <1>1. ASSUME NEW t \in Threads, NEW f \in Files \cap duty, Begin(t, f) PROVE duty' = duty
    BY <1>1 DEF Begin
  <1>2. ASSUME NEW t \in Threads, ReadRow(t) \/ WriteRow(t) \/ Pay(t) \/ Ends(t) \/ Forms(t)
        PROVE  duty' = duty
    BY <1>2 DEF ReadRow, WriteRow, Pay, Ends, Deadlock, PayFails, Commit, Forms, OpenEdit, OpenPair, SaveEdit,
                Pair, MapPlans, MapPlan, StopMap
  <1>3. ASSUME Aside PROVE duty' = duty
    BY <1>3 DEF Aside, Stage, Malformed, Review, Recover, MigrateCore, MigrateLegacy, Saved, Reset,
                ImportPlaces
  <1>4. ASSUME NEW w \in Workers, Stop(w) PROVE duty' = duty  BY <1>4 DEF Stop
  <1> QED  BY <1>1, <1>2, <1>3, <1>4, NextIs

LEMMA BooksStay ==
    ASSUME Next, ~Reset, \A t \in Threads : ~Commit(t)
    PROVE  book' = book /\ ledger' = ledger
  <1> USE DEF People, Worker, Papers, Catalog
  <1>1. ASSUME NEW t \in Threads, NEW f \in Files \cap duty, Begin(t, f) PROVE book' = book /\ ledger' = ledger
    BY <1>1 DEF Begin
  <1>2. ASSUME NEW t \in Threads, ReadRow(t) \/ WriteRow(t) \/ Pay(t) \/ Ends(t) \/ Forms(t)
        PROVE  book' = book /\ ledger' = ledger
    BY <1>2 DEF ReadRow, WriteRow, Pay, Ends, Deadlock, PayFails, Forms, OpenEdit, OpenPair, SaveEdit,
                Pair, MapPlans, MapPlan, StopMap
  <1>3. ASSUME Aside PROVE book' = book /\ ledger' = ledger
    BY <1>3 DEF Aside, Stage, Malformed, Review, Recover, MigrateCore, MigrateLegacy, Saved, ImportPlaces
  <1>4. ASSUME NEW w \in Workers, Stop(w) PROVE book' = book /\ ledger' = ledger  BY <1>4 DEF Stop
  <1> QED  BY <1>1, <1>2, <1>3, <1>4, NextIs

LEMMA LedgersStep ==
    ASSUME Base, Paying, Ledgers, Next
    PROVE  Ledgers'
  <1>1. \A f \in Files \cap duty' : ~Refusable(f)  BY DutyStays DEF Ledgers
  <1>2. ASSUME NEW t \in Threads PROVE ~PayFails(t)
    <2>1. SUFFICES ASSUME PayFails(t) PROVE FALSE  OBVIOUS
    <2>2. Importing(t) /\ Refused(session[t].f)  BY <2>1 DEF PayFails, RowsDone
    <2>3. session[t].f \in Files /\ session[t].f \in duty  BY <2>2, ImportIs DEF Base, ImportOk
    <2>4. ~Refusable(session[t].f)  BY <2>3 DEF Ledgers
    <2> QED  BY <2>2, <2>4 DEF Refused, Refusable
  <1>3. \A w \in Workers : DOMAIN queued'[w] = {}
    <2>0. DOMAIN queued = Workers  BY DEF Base, Sessions
    <2>1. ASSUME queued' = queued PROVE \A w \in Workers : DOMAIN queued'[w] = {}
      BY <2>1 DEF Ledgers
    <2>2. ASSUME NEW w \in Workers, queued' = [queued EXCEPT ![w] = <<>>]
          PROVE  \A v \in Workers : DOMAIN queued'[v] = {}
      BY <2>0, <2>2 DEF Ledgers
    <2>3. ASSUME NEW t \in Threads, Pay(t) PROVE queued' = queued \/ queued' = [queued EXCEPT ![WorkerOf[t]] = <<>>]
      BY <2>3 DEF Pay
    <2>4. ASSUME NEW t \in Threads, Deadlock(t) \/ Commit(t) \/ ReadRow(t) \/ WriteRow(t) PROVE queued' = queued
      BY <2>4 DEF Deadlock, Commit, ReadRow, WriteRow, Worker
    <2>5. ASSUME NEW t \in Threads, NEW f \in Files \cap duty, Begin(t, f) PROVE queued' = queued
      BY <2>5 DEF Begin
    <2>6. ASSUME NEW t \in Threads, Forms(t) PROVE queued' = queued  BY <2>6, FormsOk DEF Base
    <2>7. ASSUME Aside PROVE queued' = queued  BY <2>7, AsideOk DEF Base
    <2>8. ASSUME NEW w \in Workers, Stop(w) PROVE queued' = [queued EXCEPT ![w] = <<>>]
      BY <2>8, StopOk DEF Base
    <2> QED
      BY <1>2, <2>1, <2>2, <2>3, <2>4, <2>5, <2>6, <2>7, <2>8, NextIs, WorkerIs DEF Ends
  <1>4. ASSUME NEW t \in Threads, Importing(t)', session'[t].paid = TRUE
        PROVE  Owed(session'[t])
    <2>1. CASE Begun(t)  BY <1>4, <2>1 DEF Begun
    <2>2. CASE HasRead(t)  BY <1>4, <2>2 DEF HasRead, Same, Ledgers, Owed
    <2>3. CASE HasWritten(t)  BY <1>4, <2>3 DEF HasWritten, Same, Ledgers, Owed
    <2>4. CASE Importing(t) /\ session'[t] = session[t]  BY <1>4, <2>4 DEF Ledgers
    <2>5. CASE HasPaid(t)
      <3>1. Importing(t) /\ session'[t].f = session[t].f
            /\ session'[t].pays = IF Content[session[t].f].pays = <<>> THEN session[t].pays
                                  ELSE Settled(t, session[t].f)
        BY <2>5 DEF HasPaid, Same
      <3>2. session[t].f \in Files  BY <3>1, ImportIs DEF Base, ImportOk
      <3>3. CASE Content[session[t].f].pays = <<>>
        <4>1. PaidIds[session[t].f] = {}  BY <3>2, <3>3, NoneToPay
        <4> QED  BY <3>1, <4>1 DEF Owed
      <3>4. CASE Content[session[t].f].pays # <<>>
        <4>1. DOMAIN queued[WorkerOf[t]] = {}  BY WorkerIs DEF Ledgers
        <4>2. \A id \in PaidIds[session[t].f] :
                  id \in DOMAIN Settled(t, session[t].f)
                  /\ Settled(t, session[t].f)[id].amt = LastOf(session[t].f, id).amt
          BY <3>2, <4>1, SettledIs
        <4>3. session'[t].pays = Settled(t, session[t].f)  BY <3>1, <3>4
        <4> QED  BY <3>1, <4>2, <4>3 DEF Owed
      <3> QED  BY <3>3, <3>4
    <2> QED  BY <1>4, <2>1, <2>2, <2>3, <2>4, <2>5, FlightIs
  <1>5. \A id \in DOMAIN book' : ledger'[id].amt = book'[id]
    <2>1. CASE Reset
      <3>1. book' = <<>>  BY <2>1 DEF Reset
      <3> QED  BY <3>1
    <2>2. ASSUME NEW t \in Threads, Commit(t) PROVE \A id \in DOMAIN book' : ledger'[id].amt = book'[id]
      <3>1. Importing(t) /\ session[t].paid = TRUE /\ ledger' = Over(session[t].pays, ledger)
            /\ book' = [id \in PaidIds[session[t].f] |-> LastOf(session[t].f, id).amt]
        BY <2>2, CommitPaid DEF Commit
      <3>2. Owed(session[t])  BY <3>1 DEF Ledgers
      <3>3. PICK pays : pays = session[t].pays  OBVIOUS
      <3>4. \A id \in DOMAIN pays : Over(pays, ledger)[id] = pays[id]  BY DEF Over
      <3> QED  BY <3>1, <3>2, <3>3, <3>4 DEF Owed
    <2>3. CASE ~Reset /\ \A t \in Threads : ~Commit(t)  BY <2>3, BooksStay DEF Ledgers
    <2> QED  BY <2>1, <2>2, <2>3
  <1>6. \A t \in Threads : Importing(t)' /\ session'[t].paid = TRUE => Owed(session'[t])  BY <1>4
  <1> QED  BY <1>1, <1>3, <1>5, <1>6 DEF Ledgers, Owed

\* An import leaves all of its rows or none, each with its history entry, and the ledger
\* as its export had it, when no payment of the exports is one the database refuses:
\* a refused one leaves its updates in the list of the worker, for the next import there
\* (payments.py:230).
THEOREM ImportIsWhole ==
    ASSUME \A D \in Duties : \A f \in Files \cap D : ~Refusable(f)
    PROVE  Spec => []AllOrNothing
  <1>1. Init => Ledgers  BY LedgersAtFirst DEF Refusable
  <1>2. Ledgers /\ UNCHANGED vars => Ledgers'  BY DEF Ledgers, Owed, Importing, vars
  <1>3. Base /\ Paying /\ Ledgers /\ [Next]_vars => Ledgers'  BY <1>2, LedgersStep
  <1>4. Recorded /\ Ledgers => AllOrNothing  BY DEF Recorded, Ledgers, InHistory, AllOrNothing
  <1> QED  BY <1>1, <1>3, <1>4, BaseCorrect, PayingCorrect, RecordedCorrect, PTL DEF Spec
-----------------------------------------------------------------------------
(* The rows of running imports are theirs alone *)

\* The rows of a running import up to the one it is at are written, and no other running
\* import has them.
Covers(s) == \A i \in DOMAIN RowsOf[s.f] : i < s.i => RowsOf[s.f][i].user \in DOMAIN s.rows
Apart(r, q) == \A c \in DOMAIN r : c \notin DOMAIN q
Locks ==
    /\ \A t \in Threads : Importing(t) => Covers(session[t])
    /\ \A t, u \in Threads :
           t # u /\ Importing(t) /\ Importing(u) => Apart(session[t].rows, session[u].rows)

LEMMA RowsGrow ==
    ASSUME Base, Next, NEW t \in Threads, Importing(t)'
    PROVE  \/ Begun(t)
           \/ /\ Importing(t) /\ session'[t].rows = session[t].rows
              /\ session'[t].f = session[t].f /\ session'[t].i = session[t].i
              /\ session'[t].began = session[t].began
           \/ HasWritten(t)
  <1>1. CASE Begun(t)  BY <1>1
  <1>2. CASE HasRead(t)  BY <1>2 DEF HasRead, Same
  <1>3. CASE HasWritten(t)  BY <1>3
  <1>4. CASE HasPaid(t)  BY <1>4 DEF HasPaid, Same
  <1> QED  BY <1>1, <1>2, <1>3, <1>4, FlightIs

LEMMA LocksStep ==
    ASSUME Base, Locks, Next
    PROVE  Locks'
  <1>1. ASSUME NEW t \in Threads, Importing(t)' PROVE Covers(session'[t])
    <2>1. CASE Begun(t)
      <3>1. session'[t].i = 1  BY <2>1 DEF Begun
      <3>2. session'[t].f \in Files
        <4>1. ImportOk(session[t])'
          <5>1. Base'  BY BaseStep
          <5> QED  BY <1>1, <5>1 DEF Base, Sessions, Threaded, SessionOk, Importing
        <4> QED  BY <4>1 DEF ImportOk
      <3> QED  BY <3>1, <3>2, RowsOfIs DEF Covers
    <2>2. CASE /\ Importing(t) /\ session'[t].rows = session[t].rows
               /\ session'[t].f = session[t].f /\ session'[t].i = session[t].i
      BY <2>2 DEF Locks, Covers
    <2>3. CASE HasWritten(t)
      <3>1. Importing(t) /\ session'[t].f = session[t].f /\ session'[t].i = session[t].i + 1
            /\ session'[t].rows = With(session[t].rows, UserOf(t), Wrote(t))
        BY <2>3 DEF HasWritten, Same
      <3>2. session[t].f \in Files /\ session[t].i \in Nat  BY <3>1, ImportIs DEF Base, ImportOk
      <3>5. PICK g, x, d : g = session[t].rows /\ x = Wrote(t) /\ d = UserOf(t)  OBVIOUS
      <3>6. DOMAIN With(g, d, x) = DOMAIN g \cup {d}  BY WithIs
      <3>3. DOMAIN session'[t].rows = DOMAIN session[t].rows \cup {UserOf(t)}  BY <3>1, <3>5, <3>6
      <3>4. ASSUME NEW i \in DOMAIN RowsOf[session[t].f], i < session[t].i + 1
            PROVE  RowsOf[session[t].f][i].user \in DOMAIN session'[t].rows
        <4>1. i \in Nat  BY <3>2, RowsOfIs
        <4>2. CASE i < session[t].i  BY <3>1, <3>3, <4>2 DEF Locks, Covers
        <4>3. CASE i = session[t].i  BY <3>3, <4>3 DEF UserOf, Current
        <4> QED  BY <3>2, <3>4, <4>1, <4>2, <4>3
      <3> QED  BY <3>1, <3>4 DEF Covers
    <2> QED  BY <1>1, <2>1, <2>2, <2>3, RowsGrow
  <1>2. ASSUME NEW t \in Threads, NEW u \in Threads, t # u, Importing(t)', Importing(u)', HasWritten(t)
        PROVE  Apart(session'[t].rows, session'[u].rows) /\ Apart(session'[u].rows, session'[t].rows)
    <2>1. WriteRow(t) /\ Importing(t) /\ session'[t].rows = With(session[t].rows, UserOf(t), Wrote(t))
      BY <1>2 DEF HasWritten
    <2>2. Within(session[t])  BY <2>1 DEF Base, Places
    <2>3. session'[u] = session[u]  BY <1>2, <2>1, <2>2, WriteRowOk DEF Base
    <2>4. Importing(u)  BY <1>2, <2>3 DEF Importing
    <2>5. Free(t, UserOf(t))  BY <2>1 DEF WriteRow, UserOf
    <2>6. UserOf(t) \notin DOMAIN session[u].rows  BY <1>2, <2>4, <2>5 DEF Free
    <2>7. Apart(session[t].rows, session[u].rows)  BY <1>2, <2>1, <2>4 DEF Locks
    <2>9. PICK g, x, d : g = session[t].rows /\ x = Wrote(t) /\ d = UserOf(t)  OBVIOUS
    <2>10. DOMAIN With(g, d, x) = DOMAIN g \cup {d}  BY WithIs
    <2>8. DOMAIN session'[t].rows = DOMAIN session[t].rows \cup {UserOf(t)}  BY <2>1, <2>9, <2>10
    <2> QED  BY <2>3, <2>6, <2>7, <2>8 DEF Apart
  <1>3. ASSUME NEW t \in Threads, NEW u \in Threads, t # u, Importing(t)', Importing(u)'
        PROVE  Apart(session'[t].rows, session'[u].rows)
    <2>1. CASE HasWritten(t) \/ HasWritten(u)  BY <1>2, <1>3, <2>1
    <2>2. CASE Begun(t) \/ Begun(u)  BY <2>2 DEF Begun, Apart
    <2>3. CASE /\ Importing(t) /\ session'[t].rows = session[t].rows
               /\ Importing(u) /\ session'[u].rows = session[u].rows
      BY <1>3, <2>3 DEF Locks
    <2> QED  BY <1>3, <2>1, <2>2, <2>3, RowsGrow
  <1> QED  BY <1>1, <1>3 DEF Locks

LEMMA LocksCorrect == Spec => []Locks
  <1>1. Init => Locks
    <2>1. SUFFICES ASSUME Init PROVE Locks  OBVIOUS
    <2>2. \A t \in Threads : session[t] = Idle  BY <2>1 DEF Init
    <2>3. \A t \in Threads : ~Importing(t)  BY <2>2 DEF Importing, Idle
    <2> QED  BY <2>3 DEF Locks
  <1>2. Locks /\ UNCHANGED vars => Locks'  BY DEF Locks, Covers, Apart, Importing, vars
  <1>3. Base /\ Locks /\ [Next]_vars => Locks'  BY <1>2, LocksStep
  <1> QED  BY <1>1, <1>3, BaseCorrect, PTL DEF Spec

\* An import that is done has written a row of every customer of its export.
LEMMA AllWritten ==
    ASSUME Base, Locks, NEW t \in Threads, Importing(t), session[t].paid = TRUE
    PROVE  UsersOf(session[t].f) \subseteq DOMAIN session[t].rows
  <1>1. session[t].i > Len(RowsOf[session[t].f])  BY DEF Base, Places
  <1>2. session[t].f \in Files /\ session[t].i \in Nat  BY ImportIs DEF Base, ImportOk
  <1>3. Covers(session[t])  BY DEF Locks
  <1>4. ASSUME NEW i \in DOMAIN RowsOf[session[t].f] PROVE i < session[t].i
    BY <1>1, <1>2, RowsOfIs
  <1> QED  BY <1>3, <1>4 DEF Covers, UsersOf
-----------------------------------------------------------------------------
(* A pairing older than an import is over *)

\* A form and a pairing are open only where their handlers are in use.
Opened == \A t \in Threads : session[t].h \in {"edit", "pair"} => session[t].h \in duty

LEMMA OpenedStep ==
    ASSUME Base, Opened, Next
    PROVE  Opened'
  <1> USE DEF Base
  <1>0. DOMAIN session = Threads /\ duty' = duty  BY DutyStays DEF Sessions, Threaded
  <1>1. ASSUME NEW t \in Threads, \A u \in Threads \ {t} : session'[u] = session[u],
               session'[t].h \in {"edit", "pair"} => session'[t].h \in duty
        PROVE  Opened'
    BY <1>0, <1>1 DEF Opened
  <1>2. ASSUME NEW t \in Threads, NEW f \in Files \cap duty, Begin(t, f) PROVE Opened'
    BY <1>1, <1>2, BeginOk DEF Importing
  <1>3. ASSUME NEW t \in Threads, ReadRow(t) \/ WriteRow(t) \/ Pay(t) PROVE Opened'
    <2>1. Importing(t) /\ (WriteRow(t) => Within(session[t]))
      BY <1>3 DEF ReadRow, WriteRow, Pay, RowsDone, Places
    <2>2. (\A v \in Threads \ {t} : session'[v] = session[v]) /\ session'[t].h = session[t].h
      BY <1>3, <2>1, ReadRowOk, WriteRowOk, PayOk DEF Same
    <2> QED  BY <1>1, <2>1, <2>2 DEF Importing
  <1>4. ASSUME NEW t \in Threads, Ends(t) PROVE Opened'
    BY <1>1, <1>4, EndsOk DEF Idle
  <1>5. ASSUME NEW t \in Threads, Forms(t) PROVE Opened'
    <2>1. \A u \in Threads \ {t} : session'[u] = session[u]  BY <1>5, FormsOk
    <2>2. CASE \E c \in Customers : OpenEdit(t, c)
      <3>1. session'[t].h = "edit" /\ "edit" \in duty  BY <1>0, <2>2 DEF OpenEdit, Becomes, On
      <3> QED  BY <1>1, <2>1, <3>1
    <2>3. CASE \E c \in Customers : OpenPair(t, c)
      <3>1. session'[t].h = "pair" /\ "pair" \in duty  BY <1>0, <2>3 DEF OpenPair, Becomes, On
      <3> QED  BY <1>1, <2>1, <3>1
    <2>4. CASE SaveEdit(t) \/ Pair(t) \/ StopMap(t)
      <3>1. session'[t] = Idle  BY <1>0, <2>4 DEF SaveEdit, Pair, StopMap, Becomes
      <3> QED  BY <1>1, <2>1, <3>1 DEF Idle
    <2>5. CASE MapPlans(t)
      <3>1. PICK x : x = [code \in CodeSet |-> Decision(plans, code)]  OBVIOUS
      <3>2. session'[t] = [h |-> "map", todo |-> Codes, does |-> x]
        BY <1>0, <2>5, <3>1 DEF MapPlans, Becomes
      <3> QED  BY <1>1, <2>1, <3>2
    <2>6. CASE MapPlan(t)
      <3>1. session[t].h = "map" /\ DOMAIN session[t] = {"h", "todo", "does"}
        BY <2>6 DEF MapPlan, Sessions, Threaded, SessionOk
      <3>2. session'[t] = Idle \/ session'[t] = [session[t] EXCEPT !.todo = Tail(@)]
        BY <1>0, <2>6 DEF MapPlan, Becomes
      <3>3. session'[t].h \in {"idle", "map"}  BY <3>1, <3>2 DEF Idle
      <3> QED  BY <1>1, <2>1, <3>3
    <2> QED  BY <1>5, <2>2, <2>3, <2>4, <2>5, <2>6 DEF Forms
  <1>6. ASSUME Aside PROVE Opened'
    <2>1. session' = session  BY <1>6, AsideOk
    <2> QED  BY <1>0, <2>1 DEF Opened
  <1>7. ASSUME NEW w \in Workers, Stop(w) PROVE Opened'
    <2>1. \A t \in Threads : session'[t] \in {Idle, session[t]}  BY <1>7, StopOk
    <2> QED  BY <1>0, <2>1 DEF Opened, Idle
  <1> QED  BY <1>2, <1>3, <1>4, <1>5, <1>6, <1>7, NextIs

LEMMA OpenedCorrect == Spec => []Opened
  <1>1. Init => Opened
    <2>1. SUFFICES ASSUME Init PROVE Opened  OBVIOUS
    <2>2. \A t \in Threads : session[t] = Idle  BY <2>1 DEF Init
    <2> QED  BY <2>2 DEF Opened, Idle
  <1>2. Opened /\ UNCHANGED vars => Opened'  BY DEF Opened, vars
  <1>3. Base /\ Opened /\ [Next]_vars => Opened'  BY <1>2, OpenedStep
  <1> QED  BY <1>1, <1>3, BaseCorrect, PTL DEF Spec

\* The entries of the audit log and the clock.
LEMMA ApprovalsAre ==
    ASSUME Base, Next
    PROVE  /\ now' \in Nat /\ now <= now'
           /\ \/ approval' = approval
              \/ Reset /\ approval' = [c \in Customers |-> [at |-> 0, saw |-> NoRow]]
              \/ \E t \in Threads : /\ Pair(t) /\ session[t].c \in Customers /\ session[t].h = "pair"
                                    /\ approval' = [approval EXCEPT ![session[t].c] =
                                                        [at |-> now, saw |-> session[t].row]]
  <1> USE DEF Base, People, Worker, Papers, Catalog
  <1>0. now \in Nat  BY DEF Sessions, Counters
  <1>1. ASSUME NEW t \in Threads, NEW f \in Files \cap duty, Begin(t, f) PROVE now' = now /\ approval' = approval
    BY <1>1 DEF Begin
  <1>2. ASSUME NEW t \in Threads, ReadRow(t) \/ WriteRow(t) \/ Pay(t) \/ Ends(t)
        PROVE  now' = now /\ approval' = approval
    BY <1>2 DEF ReadRow, WriteRow, Pay, Ends, Deadlock, PayFails, Commit
  <1>3. ASSUME NEW t \in Threads, Forms(t), ~Pair(t) PROVE now' = now /\ approval' = approval
    BY <1>3 DEF Forms, OpenEdit, OpenPair, SaveEdit, MapPlans, MapPlan, StopMap
  <1>4. ASSUME NEW t \in Threads, Pair(t)
        PROVE  /\ now' = now + 1 /\ session[t].c \in Customers /\ session[t].h = "pair"
               /\ approval' = [approval EXCEPT ![session[t].c] = [at |-> now, saw |-> session[t].row]]
    BY <1>4 DEF Pair, Tick, Sessions, Threaded, SessionOk
  <1>5. ASSUME Aside, ~Reset PROVE (now' = now \/ now' = now + 1) /\ approval' = approval
    BY <1>5 DEF Aside, Stage, Malformed, Review, Tick, Recover, MigrateCore, MigrateLegacy, Saved, ImportPlaces
  <1>6. ASSUME Reset
        PROVE  now' = now /\ approval' = [c \in Customers |-> [at |-> 0, saw |-> NoRow]]
    BY <1>6 DEF Reset
  <1>7. ASSUME NEW w \in Workers, Stop(w) PROVE now' = now /\ approval' = approval  BY <1>7 DEF Stop
  <1>8. now' = now \/ now' = now + 1
    BY <1>1, <1>2, <1>3, <1>4, <1>5, <1>6, <1>7, NextIs
  <1>9. now' \in Nat /\ now <= now'  BY <1>0, <1>8
  <1> QED  BY <1>9, <1>1, <1>2, <1>3, <1>4, <1>5, <1>6, <1>7, NextIs

\* A row was written at or after an import began that wrote it, or no pairing is older.
Past(c, b) == approval[c].at = 0 \/ approval[c].at >= b
Pairings ==
    /\ DOMAIN approval = Customers /\ \A c \in Customers : approval[c].at \in Nat
    /\ \A c \in Customers : approval[c].at # 0 => "pair" \in duty
    /\ \A i \in DOMAIN history : history[i].began <= now
    /\ \A i \in DOMAIN history : \A c \in UsersOf(history[i].f) :
           Past(c, history[i].began) \/ (cust[c] # NoRow /\ cust[c].stamp >= history[i].began)
    /\ \A t \in Threads : Importing(t) => \A c \in DOMAIN session[t].rows :
           /\ session[t].rows[c].stamp >= session[t].began
           /\ \A i \in DOMAIN history :
                 c \in UsersOf(history[i].f) => session[t].rows[c].stamp >= history[i].began

LEMMA PastStays ==
    ASSUME Base, Pairings, Next, NEW c \in Customers, NEW b \in Nat, b <= now, Past(c, b)
    PROVE  approval'[c].at = 0 \/ approval'[c].at >= b
  <1>1. CASE approval' = approval  BY <1>1 DEF Past
  <1>2. CASE Reset /\ approval' = [d \in Customers |-> [at |-> 0, saw |-> NoRow]]  BY <1>2
  <1>3. ASSUME NEW t \in Threads, session[t].c \in Customers,
               approval' = [approval EXCEPT ![session[t].c] = [at |-> now, saw |-> session[t].row]]
        PROVE  approval'[c].at = 0 \/ approval'[c].at >= b
    BY <1>3 DEF Past, Pairings, Base, Sessions, Counters
  <1> QED  BY <1>1, <1>2, <1>3, ApprovalsAre

\* An entry of the history that is there after a step.
LEMMA EntryIs ==
    ASSUME Base, Recorded, Next, NEW i \in DOMAIN history'
    PROVE  \/ i \in DOMAIN history /\ history'[i] = history[i] /\ history[i].f \in Files
                                   /\ history[i].began \in Nat
           \/ \E t \in Threads : /\ Commit(t) /\ Importing(t) /\ ImportOk(session[t])
                                 /\ history'[i].f = session[t].f /\ history'[i].began = session[t].began
  <1>1. history \in Seq(Entry)  BY DEF Recorded
  <1>2. ASSUME i \in DOMAIN history
        PROVE  history'[i] = history[i] /\ history[i].f \in Files /\ history[i].began \in Nat
    <2>1. history[i] \in Entry
      <3> HIDE DEF Entry
      <3> QED  BY <1>1, <1>2
    <2> QED  BY <1>1, <1>2, <2>1, HistoryGrows DEF Entry
  <1>3. ASSUME i \notin DOMAIN history
        PROVE  \E t \in Threads : /\ Commit(t) /\ Importing(t) /\ ImportOk(session[t])
                                 /\ history'[i].f = session[t].f /\ history'[i].began = session[t].began
    <2>1. history' # history  BY <1>3
    <2>2. PICK t \in Threads :
                    /\ Commit(t) /\ Importing(t) /\ ImportOk(session[t])
                    /\ DOMAIN history' = DOMAIN history \cup {Len(history) + 1}
                    /\ history'[Len(history) + 1] =
                          [k |-> session[t].k, f |-> session[t].f, new |-> session[t].new,
                           began |-> session[t].began]
      BY <1>1, <2>1, HistoryGrows
    <2>3. i = Len(history) + 1  BY <1>3, <2>2
    <2> QED  BY <2>2, <2>3
  <1> QED  BY <1>2, <1>3

LEMMA UsersAre ==
    ASSUME NEW f \in Files
    PROVE  UsersOf(f) \subseteq Customers
  BY RowsOfIs DEF UsersOf

LEMMA PairingsStep ==
    ASSUME Base, Rows, Recorded, Paying, Locks, Opened, Pairings, Next,
           ~("edit" \in duty /\ "pair" \in duty)
    PROVE  Pairings'
  <1>0. now \in Nat /\ now' \in Nat /\ now <= now' /\ duty' = duty
    BY ApprovalsAre, DutyStays DEF Base, Sessions, Counters
  <1>1. DOMAIN approval' = Customers /\ \A c \in Customers : approval'[c].at \in Nat
    <2>1. CASE approval' = approval  BY <2>1 DEF Pairings
    <2>2. CASE Reset /\ approval' = [d \in Customers |-> [at |-> 0, saw |-> NoRow]]  BY <2>2
    <2>3. ASSUME NEW t \in Threads, session[t].c \in Customers,
                 approval' = [approval EXCEPT ![session[t].c] = [at |-> now, saw |-> session[t].row]]
          PROVE  DOMAIN approval' = Customers /\ \A c \in Customers : approval'[c].at \in Nat
      BY <1>0, <2>3 DEF Pairings
    <2> QED  BY <2>1, <2>2, <2>3, ApprovalsAre
  <1>2. ASSUME NEW c \in Customers, approval'[c].at # 0 PROVE "pair" \in duty'
    <2>1. CASE approval' = approval  BY <1>0, <1>2, <2>1 DEF Pairings
    <2>2. CASE Reset /\ approval' = [d \in Customers |-> [at |-> 0, saw |-> NoRow]]  BY <1>2, <2>2
    <2>3. ASSUME NEW t \in Threads, session[t].h = "pair" PROVE "pair" \in duty'
      BY <1>0, <2>3 DEF Opened
    <2> QED  BY <2>1, <2>2, <2>3, ApprovalsAre
  <1>3. ASSUME NEW i \in DOMAIN history' PROVE history'[i].began <= now'
    <2>1. ASSUME i \in DOMAIN history, history'[i] = history[i], history[i].began \in Nat
          PROVE  history'[i].began <= now'
      BY <1>0, <2>1 DEF Pairings
    <2>2. ASSUME NEW t \in Threads, ImportOk(session[t]), history'[i].began = session[t].began
          PROVE  history'[i].began <= now'
      BY <1>0, <2>2 DEF ImportOk
    <2> QED  BY <2>1, <2>2, EntryIs
  <1>4. ASSUME NEW i \in DOMAIN history', NEW c \in UsersOf(history'[i].f)
        PROVE  \/ approval'[c].at = 0 \/ approval'[c].at >= history'[i].began
               \/ cust'[c] # NoRow /\ cust'[c].stamp >= history'[i].began
    <2>1. ASSUME i \in DOMAIN history, history'[i] = history[i], history[i].began \in Nat,
                 history[i].f \in Files
          PROVE  \/ approval'[c].at = 0 \/ approval'[c].at >= history'[i].began
                 \/ cust'[c] # NoRow /\ cust'[c].stamp >= history'[i].began
      <3>1. PICK b \in Nat : b = history[i].began  BY <2>1
      <3>2. c \in Customers /\ c \in UsersOf(history[i].f)  BY <1>4, <2>1, UsersAre
      <3>3. b <= now  BY <2>1, <3>1 DEF Pairings
      <3>4. CASE Past(c, b)  BY <2>1, <3>1, <3>2, <3>3, <3>4, PastStays
      <3>5. CASE cust[c] # NoRow /\ cust[c].stamp >= b
        <4>1. Change(c)  BY <3>2, ChangesAre
        <4>2. CASE cust'[c] = cust[c]  BY <2>1, <3>1, <3>5, <4>2
        <4>3. CASE cust[c] # NoRow /\ KeptRow(cust[c], cust'[c])
          BY <2>1, <3>1, <3>5, <4>3, ShapedIsThere DEF KeptRow
        <4>4. CASE Reset /\ cust'[c] = NoRow
          <5>1. approval' = [d \in Customers |-> [at |-> 0, saw |-> NoRow]]  BY <4>4 DEF Reset
          <5> QED  BY <3>2, <5>1
        <4>5. ASSUME NEW t \in Threads, Commit(t), Importing(t), c \in DOMAIN session[t].rows,
                     cust'[c] = session[t].rows[c], Shaped(cust'[c])
              PROVE  cust'[c] # NoRow /\ cust'[c].stamp >= history'[i].began
          BY <2>1, <3>2, <4>5, ShapedIsThere DEF Pairings
        <4>6. ASSUME NEW t \in Threads, session[t].h = "edit" PROVE Past(c, b)
          <5>1. "pair" \notin duty  BY <4>6 DEF Opened
          <5> QED  BY <3>2, <5>1 DEF Pairings, Past
        <4>7. Past(c, b) => approval'[c].at = 0 \/ approval'[c].at >= b
          BY <3>2, <3>3, PastStays
        <4> QED  BY <2>1, <3>1, <3>5, <4>1, <4>2, <4>3, <4>4, <4>5, <4>6, <4>7 DEF Change
      <3> QED  BY <2>1, <3>1, <3>2, <3>4, <3>5 DEF Pairings
    <2>2. ASSUME NEW t \in Threads, Commit(t), Importing(t), ImportOk(session[t]),
                 history'[i].f = session[t].f, history'[i].began = session[t].began
          PROVE  cust'[c] # NoRow /\ cust'[c].stamp >= history'[i].began
      <3>1. c \in DOMAIN session[t].rows  BY <1>4, <2>2, CommitPaid, AllWritten
      <3>2. cust'[c] = session[t].rows[c] /\ Shaped(cust'[c])  BY <2>2, <3>1, CommitRow
      <3>3. session[t].rows[c].stamp >= session[t].began  BY <2>2, <3>1 DEF Pairings
      <3> QED  BY <2>2, <3>2, <3>3, ShapedIsThere
    <2> QED  BY <2>1, <2>2, EntryIs
  <1>5. ASSUME NEW t \in Threads, Importing(t)', NEW c \in DOMAIN session'[t].rows
        PROVE  /\ session'[t].rows[c].stamp >= session'[t].began
               /\ \A i \in DOMAIN history' :
                     c \in UsersOf(history'[i].f) => session'[t].rows[c].stamp >= history'[i].began
    <2>1. CASE Begun(t)  BY <1>5, <2>1 DEF Begun
    <2>2. CASE Importing(t) /\ session'[t].rows = session[t].rows /\ session'[t].began = session[t].began
      <3>1. session'[t].rows[c].stamp >= session'[t].began  BY <1>5, <2>2 DEF Pairings
      <3>2. ASSUME NEW i \in DOMAIN history', c \in UsersOf(history'[i].f)
            PROVE  session'[t].rows[c].stamp >= history'[i].began
        <4>1. ASSUME i \in DOMAIN history, history'[i] = history[i]
              PROVE  session'[t].rows[c].stamp >= history'[i].began
          BY <1>5, <2>2, <3>2, <4>1 DEF Pairings
        <4>2. ASSUME NEW u \in Threads, Commit(u), Importing(u), ImportOk(session[u]),
                     history'[i].f = session[u].f
              PROVE  FALSE
          <5>1. c \in DOMAIN session[u].rows  BY <3>2, <4>2, CommitPaid, AllWritten
          <5>2. session'[u] = Idle  BY <4>2, EndsOk DEF Ends, Base
          <5>3. u # t  BY <1>5, <5>2 DEF Importing, Idle
          <5>4. Apart(session[t].rows, session[u].rows)  BY <2>2, <4>2, <5>3 DEF Locks
          <5> QED  BY <1>5, <2>2, <5>1, <5>4 DEF Apart
        <4> QED  BY <4>1, <4>2, EntryIs
      <3> QED  BY <3>1, <3>2
    <2>3. CASE HasWritten(t)
      <3>1. PICK g, x, d : g = session[t].rows /\ x = Wrote(t) /\ d = UserOf(t)  OBVIOUS
      <3>2. WriteRow(t) /\ Importing(t) /\ session'[t].rows = With(g, d, x)
            /\ session'[t].began = session[t].began
        BY <2>3, <3>1 DEF HasWritten, Same
      <3>3. history' = history  BY <3>2 DEF WriteRow, Papers
      <3>4. x.stamp = now  BY <3>1, <3>2, WroteIs
      <3>5. session[t].began <= now  BY <3>2, ImportIs DEF Base, ImportOk
      <3>6. CASE c \in DOMAIN g /\ With(g, d, x)[c] = g[c]
        BY <3>1, <3>2, <3>3, <3>6 DEF Pairings
      <3>7. CASE With(g, d, x)[c] = x
        <4>1. ASSUME NEW i \in DOMAIN history PROVE history[i].began <= now /\ history[i].began \in Nat
          <5>1. history[i] \in Entry
            <6> HIDE DEF Entry
            <6> QED  BY DEF Recorded
          <5> QED  BY <5>1 DEF Pairings, Entry
        <4>2. x.stamp >= session[t].began
          <5>1. session[t].began \in Nat  BY <3>2, ImportIs DEF Base, ImportOk
          <5> QED  BY <1>0, <3>4, <3>5, <5>1
        <4>3. \A i \in DOMAIN history : x.stamp >= history[i].began  BY <1>0, <3>4, <4>1
        <4> QED  BY <3>2, <3>3, <3>7, <4>2, <4>3
      <3>8. c \in DOMAIN With(g, d, x)  BY <1>5, <3>2
      <3>9. With(g, d, x)[c] \in {x} \/ (c \in DOMAIN g /\ With(g, d, x)[c] = g[c])
        BY <3>8 DEF With, Over
      <3> QED  BY <3>6, <3>7, <3>9
    <2> QED  BY <1>5, <2>1, <2>2, <2>3, RowsGrow
  <1> QED  BY <1>1, <1>2, <1>3, <1>4, <1>5 DEF Pairings, Past

\* No pairing of before an import opens the border for a customer it wrote, however
\* imports, rulings, pairings, commands and resets are interleaved
\* (import_legacy_customers.py:401), where no customer form that was opened before the
\* import is saved after it: the form writes the old import time back over the new.
THEOREM PairingsEnd ==
    ASSUME \A D \in Duties : ~("edit" \in D /\ "pair" \in D)
    PROVE  Spec => []OldPairingEnds
  <1> DEFINE Barred == ~("edit" \in duty /\ "pair" \in duty)
  <1>1. Init => Pairings /\ Barred
    <2>1. SUFFICES ASSUME Init PROVE Pairings /\ Barred  OBVIOUS
    <2>2. session = [t \in Threads |-> Idle] /\ history = <<>> /\ duty \in Duties
          /\ approval = [c \in Customers |-> [at |-> 0, saw |-> NoRow]]
      BY <2>1 DEF Init
    <2>3. \A t \in Threads : ~Importing(t)  BY <2>2 DEF Importing, Idle
    <2> QED  BY <2>2, <2>3 DEF Pairings
  <1>2. Pairings /\ Barred /\ UNCHANGED vars => (Pairings /\ Barred)'
    BY DEF Pairings, Past, Importing, vars, UsersOf
  <1>3. Base /\ Rows /\ Recorded /\ Paying /\ Locks /\ Opened /\ Pairings /\ Barred /\ [Next]_vars
        => (Pairings /\ Barred)'
    <2>1. ASSUME Next, Barred PROVE Barred'  BY <2>1, DutyStays
    <2> QED  BY <1>2, <2>1, PairingsStep
  <1>4. Rows /\ Recorded /\ Pairings => OldPairingEnds
    <2>1. SUFFICES ASSUME Rows, Recorded, Pairings, NEW i \in DOMAIN history,
                          NEW c \in UsersOf(history[i].f), Approved(c)
                   PROVE  approval[c].at >= history[i].began
      BY DEF OldPairingEnds
    <2>2. history[i] \in Entry
      <3> HIDE DEF Entry
      <3> QED  BY <2>1 DEF Recorded
    <2>3. history[i].began \in Nat /\ c \in Customers  BY <2>2, UsersAre DEF Entry
    <2>4. cust[c] # NoRow /\ approval[c].at # 0 /\ approval[c].at >= cust[c].stamp  BY <2>1 DEF Approved
    <2>5. cust[c].stamp \in Nat /\ approval[c].at \in Nat  BY <2>1, <2>3, <2>4 DEF Rows, RowOk, Shaped, Pairings
    <2>6. Past(c, history[i].began) \/ cust[c].stamp >= history[i].began  BY <2>1 DEF Pairings
    <2> QED  BY <2>3, <2>4, <2>5, <2>6 DEF Past
  <1> HIDE DEF Barred
  <1> QED
    BY <1>1, <1>3, <1>4, BaseCorrect, RowsCorrect, RecordedCorrect, PayingCorrect, LocksCorrect,
       OpenedCorrect, PTL DEF Spec
-----------------------------------------------------------------------------
(* What a person decided stands *)

\* A running import has written the row.
Locked(c) == \E u \in Threads : Importing(u) /\ c \in DOMAIN session[u].rows
\* Nobody rules on the row or gives it a password in the step.
Marks(c) == ruled'[c] = ruled[c] /\ given'[c] = given[c]
RuledOn(c) ==
    /\ "review" \in duty /\ ~Locked(c) /\ cust[c] # NoRow /\ Shaped(cust'[c])
    /\ cust'[c].pw = cust[c].pw /\ given'[c] = given[c]
    /\ ruled'[c].st = cust'[c].st /\ ruled'[c].exp = cust'[c].exp /\ (ruled'[c].calm => Calm)
Edited(c) ==
    /\ "edit" \in duty /\ ~Locked(c) /\ Shaped(cust'[c]) /\ cust'[c].pw = "typed"
    /\ ruled'[c] = ruled[c] /\ (given'[c] => given[c] \/ Calm)
\* A pairing, a place, or what the router has.
Touched(c) ==
    /\ Marks(c) /\ ~Locked(c) /\ cust[c] # NoRow /\ Shaped(cust'[c]) /\ KeptRuling(cust[c], cust'[c])
    /\ \/ cust'[c].pw = cust[c].pw
       \/ "recover" \in duty /\ router[c] # "none" /\ cust'[c].pw = router[c]
Turn(c) ==
    \/ Marks(c) /\ cust'[c] = cust[c]
    \/ Touched(c)
    \/ RuledOn(c)
    \/ Edited(c)
    \/ Marks(c) /\ ~Locked(c) /\ cust[c] = NoRow /\ Fresh(cust'[c])
    \/ ruled'[c] = ruled[c] /\ given'[c] = FALSE /\ ~Locked(c) /\ cust'[c] = NoRow
    \/ Marks(c) /\ ~Locked(c) /\ "migrate" \in duty
    \/ \E t \in Threads : /\ Marks(c) /\ Commit(t) /\ Importing(t) /\ c \in DOMAIN session[t].rows
                          /\ cust'[c] = session[t].rows[c]
Marked == DOMAIN ruled = Customers /\ DOMAIN given = Customers

LEMMA Unlocked ==
    ASSUME NEW c, NobodyHas(c) \/ \E t \in Threads : ~Importing(t) /\ Free(t, c)
    PROVE  ~Locked(c)
  BY DEF Locked, NobodyHas, Free

LEMMA AsideTurns ==
    ASSUME Base, Rows, Marked, Aside, NEW c \in Customers
    PROVE  Turn(c)
  <1> USE DEF Turn, Marks
  <1>1. CASE \E t \in Threads, f \in Files \cap duty : Stage(t, f) \/ Malformed(t, f)
    <2>1. cust' = cust /\ ruled' = ruled /\ given' = given  BY <1>1 DEF Stage, Malformed
    <2> QED  BY <2>1
  <1>2. ASSUME NEW t \in Threads, NEW d \in Customers,
               NEW a \in {"archive", "activate", "set", "clear", "unreview"}, Review(t, d, a)
        PROVE  Turn(c)
    <2>1. /\ \A e \in Customers \ {d} : cust'[e] = cust[e]
          /\ cust[d] # NoRow /\ KeptRow(cust[d], cust'[d]) /\ cust'[d].pw = cust[d].pw
          /\ ruled' = [ruled EXCEPT ![d] = [calm |-> Calm, st |-> cust'[d].st, exp |-> cust'[d].exp]]
          /\ Free(t, d) /\ session[t] = Idle /\ given' = given
      BY <1>2, ReviewRow
    <2>2. CASE c # d
      <3>1. ruled'[c] = ruled[c]  BY <2>1, <2>2 DEF Marked
      <3> QED  BY <2>1, <2>2, <3>1
    <2>3. CASE c = d
      <3>1. ~Importing(t)  BY <2>1 DEF Importing, Idle
      <3>2. ~Locked(c)  BY <2>1, <2>3, <3>1, Unlocked
      <3>3. Calm \in BOOLEAN  BY DEF Calm
      <3>4. PICK b \in BOOLEAN : b = Calm  BY <3>3, Zenon
      <3>5. PICK x, y : x = cust'[d].st /\ y = cust'[d].exp  OBVIOUS
      <3>6. ruled'[d] = [calm |-> b, st |-> x, exp |-> y]  BY <2>1, <3>4, <3>5 DEF Marked
      <3>7. ruled'[d].calm = b /\ ruled'[d].st = x /\ ruled'[d].exp = y  BY <3>6
      <3>8. ruled'[d].calm => Calm
        <4>1. CASE Calm  BY <4>1
        <4>2. CASE ~Calm
          <5>1. b = FALSE  BY <3>4, <4>2, Zenon
          <5> QED  BY <3>7, <5>1
        <4> QED  BY <4>1, <4>2
      <3>9. "review" \in duty  BY <1>2 DEF Review, On
      <3> QED  BY <2>1, <2>3, <3>2, <3>5, <3>7, <3>8, <3>9 DEF RuledOn, KeptRow
    <2> QED  BY <2>2, <2>3
  <1>3. ASSUME NEW d \in Customers, NEW p \in CodeSet \cup {"default"}, Recover(d, p) PROVE Turn(c)
    <2>1. ruled' = ruled /\ given' = given /\ router[d] # "none" /\ "recover" \in duty
      BY <1>3 DEF Recover, Saved, People, On
    <2>2. NobodyHas(d) /\ (\A e \in Customers \ {d} : cust'[e] = cust[e])
          /\ IF cust[d] = NoRow THEN Fresh(cust'[d])
              ELSE KeptRow(cust[d], cust'[d]) /\ KeptRuling(cust[d], cust'[d]) /\ cust'[d].pw = router[d]
      BY <1>3, RecoverRow
    <2>3. ~Locked(d)  BY <2>2, Unlocked
    <2> QED  BY <2>1, <2>2, <2>3 DEF Touched, KeptRow
  <1>4. ASSUME NEW d \in Customers, NEW p \in CodeSet \cup {"default"}, MigrateCore(d, p) PROVE Turn(c)
    <2>1. ruled' = ruled /\ given' = given  BY <1>4 DEF MigrateCore, Saved, People
    <2>2. NobodyHas(d) /\ (\A e \in Customers \ {d} : cust'[e] = cust[e]) /\ cust[d] = NoRow /\ Fresh(cust'[d])
      BY <1>4, MigrateCoreRow
    <2>3. ~Locked(d)  BY <2>2, Unlocked
    <2> QED  BY <2>1, <2>2, <2>3
  <1>5. ASSUME NEW f \in OldFiles \cap duty, NEW i \in DOMAIN RowsOf[f], MigrateLegacy(f, i) PROVE Turn(c)
    <2>0. f \in Files  BY OldFilesAre
    <2>1. ruled' = ruled /\ given' = given /\ "migrate" \in duty  BY <1>5 DEF MigrateLegacy, People, On
    <2>2. PICK d : d = RowsOf[f][i].user  OBVIOUS
    <2>3. NobodyHas(d) /\ \A e \in Customers \ {d} : cust'[e] = cust[e]
      BY <1>5, <2>0, <2>2, MigrateLegacyRow
    <2>4. ~Locked(d)  BY <2>3, Unlocked
    <2> QED  BY <2>1, <2>3, <2>4
  <1>6. CASE Reset
    <2>1. ruled' = ruled /\ given'[c] = FALSE /\ cust'[c] = NoRow /\ NobodyHas(c)  BY <1>6 DEF Reset
    <2> QED  BY <2>1, Unlocked
  <1>7. CASE ImportPlaces
    <2>1. ruled' = ruled /\ given' = given  BY <1>7 DEF ImportPlaces, People
    <2>2. NobodyHas(c)
          /\ IF cust[c] = NoRow THEN cust'[c] = cust[c]
             ELSE KeptRow(cust[c], cust'[c]) /\ KeptRuling(cust[c], cust'[c]) /\ cust'[c].pw = cust[c].pw
      BY <1>7, PlacesRow
    <2>3. ~Locked(c)  BY <2>2, Unlocked
    <2> QED  BY <2>1, <2>2, <2>3 DEF Touched, KeptRow
  <1> QED  BY <1>1, <1>2, <1>3, <1>4, <1>5, <1>6, <1>7 DEF Aside

LEMMA TurnsAre ==
    ASSUME Base, Rows, Marked, Opened, Next, NEW c \in Customers
    PROVE  Turn(c)
  <1> USE DEF Turn, Marks
  <1>1. ASSUME NEW t \in Threads, NEW f \in Files \cap duty, Begin(t, f) PROVE Turn(c)
    <2>1. cust' = cust /\ ruled' = ruled /\ given' = given  BY <1>1 DEF Begin
    <2> QED  BY <2>1
  <1>2. ASSUME NEW t \in Threads, ReadRow(t) \/ WriteRow(t) \/ Pay(t) \/ Deadlock(t) \/ PayFails(t) PROVE Turn(c)
    <2>1. cust' = cust /\ ruled' = ruled /\ given' = given
      BY <1>2 DEF ReadRow, WriteRow, InTable, Pay, Deadlock, PayFails, People
    <2> QED  BY <2>1
  <1>3. ASSUME NEW t \in Threads, Commit(t) PROVE Turn(c)
    <2>1. ruled' = ruled /\ given' = given  BY <1>3 DEF Commit, People
    <2>2. Importing(t) /\ (\A d \in DOMAIN session[t].rows : cust'[d] = session[t].rows[d])
          /\ \A d \in Customers \ DOMAIN session[t].rows : cust'[d] = cust[d]
      BY <1>3, CommitRow
    <2> QED  BY <1>3, <2>1, <2>2
  <1>4. ASSUME NEW t \in Threads, SaveEdit(t) PROVE Turn(c)
    <2>1. PICK d : d = session[t].c  OBVIOUS
    <2>2. (\A e \in Customers \ {d} : cust'[e] = cust[e])
          /\ d \in Customers /\ Free(t, d) /\ session[t].h = "edit"
          /\ \/ cust'[d] = cust[d] /\ given' = given
             \/ /\ KeptRow(session[t].row, cust'[d]) /\ KeptRuling(session[t].row, cust'[d])
                /\ cust'[d].pw = "typed" /\ given' = [given EXCEPT ![d] = @ \/ Calm]
      BY <1>4, <2>1, SaveEditRow
    <2>3. ruled' = ruled  BY <1>4 DEF SaveEdit
    <2>4. ~Importing(t) /\ "edit" \in duty  BY <2>2 DEF Importing, Opened
    <2>5. ~Locked(d)  BY <2>2, <2>4, Unlocked
    <2>6. CASE cust'[d] = cust[d] /\ given' = given  BY <2>2, <2>3, <2>6
    <2>7. CASE /\ KeptRow(session[t].row, cust'[d]) /\ cust'[d].pw = "typed"
               /\ given' = [given EXCEPT ![d] = @ \/ Calm]
      <3>1. PICK b : b = (given[d] \/ Calm)  OBVIOUS
      <3>2. given' = [given EXCEPT ![d] = b]  BY <2>7, <3>1
      <3>3. given'[d] = b /\ \A e \in Customers \ {d} : given'[e] = given[e]  BY <2>2, <3>2 DEF Marked
      <3>4. given'[d] => given[d] \/ Calm  BY <3>1, <3>3, Zenon
      <3> QED  BY <2>2, <2>3, <2>4, <2>5, <2>7, <3>3, <3>4 DEF Edited, KeptRow
    <2> QED  BY <2>2, <2>6, <2>7
  <1>5. ASSUME NEW t \in Threads, Pair(t) PROVE Turn(c)
    <2>1. PICK d : d = session[t].c  OBVIOUS
    <2>2. (\A e \in Customers \ {d} : cust'[e] = cust[e]) /\ d \in Customers /\ Free(t, d)
          /\ IF cust[d] = NoRow THEN cust'[d] = cust[d]
             ELSE KeptRow(cust[d], cust'[d]) /\ KeptRuling(cust[d], cust'[d]) /\ cust'[d].pw = cust[d].pw
      BY <1>5, <2>1, PairRow
    <2>3. ruled' = ruled /\ given' = given /\ ~Importing(t)  BY <1>5 DEF Pair, Importing
    <2>4. ~Locked(d)  BY <2>2, <2>3, Unlocked
    <2> QED  BY <2>2, <2>3, <2>4 DEF Touched, KeptRow
  <1>6. ASSUME NEW t \in Threads, Forms(t), ~SaveEdit(t), ~Pair(t) PROVE Turn(c)
    <2>1. cust' = cust /\ given' = given /\ ruled' = ruled  BY <1>6, FormsRow DEF Base
    <2> QED  BY <2>1
  <1>7. ASSUME Aside PROVE Turn(c)  BY <1>7, AsideTurns
  <1>8. ASSUME NEW w \in Workers, Stop(w) PROVE Turn(c)
    <2>1. cust' = cust /\ ruled' = ruled /\ given' = given  BY <1>8 DEF Stop, People
    <2> QED  BY <2>1
  <1> HIDE DEF Turn, Marks
  <1> QED  BY <1>1, <1>2, <1>3, <1>4, <1>5, <1>6, <1>7, <1>8, NextIs DEF Ends

LEMMA MarkedStays ==
    ASSUME Base, Marked, Next
    PROVE  /\ Marked'
           /\ router' = router \/ \A c \in Customers : router'[c] \in {"none", router[c]}
  <1> USE DEF People, Catalog, Worker, Papers
  <1>1. ASSUME NEW t \in Threads, NEW f \in Files \cap duty, Begin(t, f)
        PROVE  ruled' = ruled /\ given' = given /\ router' = router
    BY <1>1 DEF Begin
  <1>2. ASSUME NEW t \in Threads, ReadRow(t) \/ WriteRow(t) \/ Pay(t) \/ Ends(t)
        PROVE  ruled' = ruled /\ given' = given /\ router' = router
    BY <1>2 DEF ReadRow, WriteRow, Pay, Ends, Deadlock, PayFails, Commit
  <1>3. ASSUME NEW t \in Threads, Forms(t), ~SaveEdit(t)
        PROVE  ruled' = ruled /\ given' = given /\ router' = router
    BY <1>3 DEF Forms, OpenEdit, OpenPair, Pair, MapPlans, MapPlan, StopMap
  <1>4. ASSUME NEW t \in Threads, SaveEdit(t)
        PROVE  ruled' = ruled /\ DOMAIN given' = DOMAIN given /\ router' = router
    BY <1>4 DEF SaveEdit
  <1>5. ASSUME Aside, ~Reset
        PROVE  DOMAIN ruled' = DOMAIN ruled /\ given' = given /\ router' = router
    BY <1>5 DEF Aside, Stage, Malformed, Review, Recover, MigrateCore, MigrateLegacy, Saved, ImportPlaces
  <1>6. ASSUME Reset
        PROVE  /\ ruled' = ruled /\ DOMAIN given' = Customers
               /\ \A c \in Customers : router'[c] \in {"none", router[c]}
    BY <1>6 DEF Reset
  <1>7. ASSUME NEW w \in Workers, Stop(w) PROVE ruled' = ruled /\ given' = given /\ router' = router
    BY <1>7 DEF Stop
  <1> QED  BY <1>1, <1>2, <1>3, <1>4, <1>5, <1>6, <1>7, NextIs DEF Marked

\* A row keeps to the last ruling on its account while nothing ran, and to its password.
Stands(c, r) ==
    /\ Reviewed(r) /\ ruled[c].calm => r.st = ruled[c].st /\ r.exp = ruled[c].exp
    /\ given[c] => r # NoRow /\ r.pw # ""
StandsThen(c, r) ==
    /\ Reviewed(r) /\ ruled'[c].calm => r.st = ruled'[c].st /\ r.exp = ruled'[c].exp
    /\ given'[c] => r # NoRow /\ r.pw # ""
\* Of a row an import has read and not written, what the import then finds does not tell
\* of a ruling it has not read.
ReadRuling(c, old, row) == Reviewed(row) /\ ruled[c].calm => Reviewed(old)

\* The handlers that overwrite what another of them decides are not used together.
Sole(D) ==
    /\ ~("edit" \in D /\ "review" \in D)
    /\ ~("migrate" \in D /\ ("edit" \in D \/ "review" \in D))
    /\ "edit" \in D /\ "recover" \in D => \A c \in Customers : Secret[c] # ""

Standing ==
    /\ Marked
    /\ \A c \in Customers : ruled[c].calm => "review" \in duty
    /\ \A c \in Customers : given[c] => "edit" \in duty
    /\ \A c \in Customers : router[c] \in {"none", Secret[c]}
    /\ \A c \in Customers : Stands(c, cust[c])
    /\ \A t \in Threads : Importing(t) => \A c \in DOMAIN session[t].rows :
           /\ Stands(c, session[t].rows[c])
           /\ Reviewed(session[t].rows[c]) => Reviewed(cust[c])
    /\ \A t \in Threads : Importing(t) /\ session[t].got =>
           /\ Stands(UserOf(t), session[t].old)
           /\ ReadRuling(UserOf(t), session[t].old, Seen(t, UserOf(t)))

LEMMA MarksStep ==
    ASSUME Base, Rows, Opened, Standing, Next, NEW c \in Customers
    PROVE  /\ ruled'[c].calm => "review" \in duty
           /\ given'[c] => "edit" \in duty
           /\ router'[c] \in {"none", Secret[c]}
  <1>1. Turn(c)  BY TurnsAre DEF Standing
  <1>2. (ruled'[c].calm => "review" \in duty) /\ (given'[c] => "edit" \in duty)
    BY <1>1 DEF Turn, Marks, Touched, RuledOn, Edited, Standing
  <1>3. router'[c] \in {"none", Secret[c]}  BY MarkedStays DEF Standing
  <1> QED  BY <1>2, <1>3

LEMMA CustStands ==
    ASSUME Base, Rows, Opened, Standing, Sole(duty), Next, NEW c \in Customers
    PROVE  StandsThen(c, cust'[c])
  <1>1. Turn(c)  BY TurnsAre DEF Standing
  <1>2. Stands(c, cust[c])  BY DEF Standing
  <1>3. CASE Marks(c) /\ cust'[c] = cust[c]  BY <1>2, <1>3 DEF Marks, Stands, StandsThen
  <1>4. CASE Touched(c)
    <2>1. ruled'[c] = ruled[c] /\ given'[c] = given[c]  BY <1>4 DEF Touched, Marks
    <2>2. cust'[c] # NoRow /\ cust[c] # NoRow  BY <1>4, ShapedIsThere DEF Touched
    <2>3. Reviewed(cust'[c]) => Reviewed(cust[c])  BY <1>4, <2>2 DEF Touched, KeptRuling, Reviewed
    <2>4. cust'[c].st = cust[c].st /\ cust'[c].exp = cust[c].exp  BY <1>4 DEF Touched, KeptRuling
    <2>5. ASSUME given[c] PROVE cust'[c].pw # ""
      <3>1. "edit" \in duty /\ cust[c].pw # ""  BY <1>2, <2>5 DEF Standing, Stands
      <3>2. "recover" \in duty => Secret[c] # ""  BY <3>1 DEF Sole
      <3> QED  BY <1>4, <3>1, <3>2 DEF Touched, Standing
    <2> QED  BY <1>2, <2>1, <2>2, <2>3, <2>4, <2>5 DEF Stands, StandsThen
  <1>5. CASE RuledOn(c)
    BY <1>2, <1>5, ShapedIsThere DEF RuledOn, Stands, StandsThen
  <1>6. CASE Edited(c)
    <2>1. "review" \notin duty  BY <1>6 DEF Edited, Sole
    <2>2. ~ruled'[c].calm  BY <2>1, MarksStep
    <2> QED  BY <1>6, <2>2, ShapedIsThere DEF Edited, StandsThen
  <1>7. CASE Marks(c) /\ cust[c] = NoRow /\ Fresh(cust'[c])
    <2>1. ~given'[c]  BY <1>2, <1>7 DEF Marks, Stands
    <2> QED  BY <1>7, <2>1 DEF Fresh, Reviewed, StandsThen
  <1>8. CASE given'[c] = FALSE /\ cust'[c] = NoRow
    BY <1>8 DEF Reviewed, StandsThen
  <1>9. CASE Marks(c) /\ "migrate" \in duty
    <2>1. "review" \notin duty /\ "edit" \notin duty  BY <1>9 DEF Sole
    <2>2. ~ruled'[c].calm /\ ~given'[c]  BY <2>1, MarksStep
    <2> QED  BY <2>2 DEF StandsThen
  <1>10. ASSUME NEW t \in Threads, Marks(c), Importing(t), c \in DOMAIN session[t].rows,
                cust'[c] = session[t].rows[c]
         PROVE  StandsThen(c, cust'[c])
    <2>1. Stands(c, session[t].rows[c])  BY <1>10 DEF Standing
    <2> QED  BY <1>10, <2>1 DEF Marks, Stands, StandsThen
  <1> QED  BY <1>1, <1>3, <1>4, <1>5, <1>6, <1>7, <1>8, <1>9, <1>10 DEF Turn

\* While an import runs, a ruling or a password is none of those made in quiet.
LEMMA StandsOn ==
    ASSUME Base, Rows, Opened, Standing, Next, NEW c \in Customers,
           NEW t \in Threads, Importing(t)
    PROVE  /\ ruled'[c].calm => ruled'[c] = ruled[c]
           /\ given'[c] => given[c]
  <1>1. Turn(c)  BY TurnsAre DEF Standing
  <1>2. ~Calm  BY DEF Calm
  <1> QED  BY <1>1, <1>2 DEF Turn, Marks, Touched, RuledOn, Edited

\* A row an import holds is nobody else's.
LEMMA HeldStays ==
    ASSUME Base, Rows, Locks, Opened, Standing, Next, NEW c \in Customers,
           NEW t \in Threads, Importing(t), c \in DOMAIN session[t].rows
    PROVE  cust'[c] = cust[c] \/ Commit(t)
  <1>1. Turn(c)  BY TurnsAre DEF Standing
  <1>2. Locked(c)  BY DEF Locked
  <1>3. ASSUME NEW u \in Threads, Commit(u), Importing(u), c \in DOMAIN session[u].rows PROVE Commit(t)
    <2>1. u # t => Apart(session[t].rows, session[u].rows)  BY <1>3 DEF Locks
    <2> QED  BY <1>3, <2>1 DEF Apart
  <1> QED  BY <1>1, <1>2, <1>3 DEF Turn, Touched, RuledOn, Edited

\* What an import finds of a row it has not written is reviewed after a step only if it
\* was before, or the ruling is none made in quiet.
LEMMA FoundStays ==
    ASSUME Base, Rows, Opened, Standing, Sole(duty), Next, NEW c \in Customers,
           NEW t \in Threads, Importing(t), Reviewed(cust'[c]), ruled'[c].calm
    PROVE  Reviewed(cust[c])
  <1>1. Turn(c)  BY TurnsAre DEF Standing
  <1>2. ~Calm  BY DEF Calm
  <1>3. CASE cust'[c] = cust[c]  BY <1>3
  <1>4. CASE Touched(c)
    BY <1>4 DEF Touched, KeptRuling, Reviewed
  <1>5. CASE RuledOn(c)  BY <1>2, <1>5 DEF RuledOn
  <1>6. CASE Edited(c)
    <2>1. "review" \notin duty  BY <1>6 DEF Edited, Sole
    <2> QED  BY <2>1, MarksStep
  <1>7. CASE Fresh(cust'[c])  BY <1>7 DEF Fresh, Reviewed
  <1>8. CASE cust'[c] = NoRow  BY <1>8 DEF Reviewed
  <1>9. CASE "migrate" \in duty
    <2>1. "review" \notin duty  BY <1>9 DEF Sole
    <2> QED  BY <2>1, MarksStep
  <1>10. ASSUME NEW u \in Threads, Importing(u), c \in DOMAIN session[u].rows,
                cust'[c] = session[u].rows[c]
         PROVE  Reviewed(cust[c])
    BY <1>10 DEF Standing
  <1> QED  BY <1>1, <1>3, <1>4, <1>5, <1>6, <1>7, <1>8, <1>9, <1>10 DEF Turn

\* The row an import writes keeps to what it read, and it reads every ruling made in quiet.
LEMMA WroteStands ==
    ASSUME Base, Rows, Standing, NEW t \in Threads, WriteRow(t)
    PROVE  /\ Stands(UserOf(t), Wrote(t))
           /\ Reviewed(Wrote(t)) => Reviewed(Seen(t, UserOf(t)))
  <1>1. PICK s, x, row, c : s = session[t] /\ x = Wrote(t) /\ row = Seen(t, UserOf(t)) /\ c = UserOf(t)
    OBVIOUS
  <1>2. /\ Shaped(x) /\ x.rev = (row # NoRow /\ row.rev)
        /\ Reviewed(s.old) => x.st = s.old.st /\ x.exp = s.old.exp
        /\ x.pw = Password(Current(s), s.old) /\ c \in Customers /\ Importing(t)
    BY <1>1, WroteIs
  <1>3. session[t].got  BY DEF WriteRow
  <1>4. Stands(c, s.old) /\ ReadRuling(c, s.old, row)  BY <1>1, <1>2, <1>3 DEF Standing
  <1>5. Reviewed(x) => Reviewed(row)
    <2>1. SUFFICES ASSUME x.rev PROVE Reviewed(row)  BY DEF Reviewed
    <2>2. row # NoRow /\ row.rev  BY <1>2, <2>1
    <2> QED  BY <2>2 DEF Reviewed
  <1>6. Reviewed(x) /\ ruled[c].calm => x.st = ruled[c].st /\ x.exp = ruled[c].exp
    BY <1>2, <1>4, <1>5 DEF ReadRuling, Stands
  <1>7. given[c] => x # NoRow /\ x.pw # ""
    BY <1>2, <1>4, ShapedIsThere DEF Stands, Password
  <1> QED  BY <1>1, <1>5, <1>6, <1>7 DEF Stands

LEMMA StandingStep ==
    ASSUME Base, Rows, Locks, Opened, Standing, Sole(duty), Next
    PROVE  Standing'
  <1>0. Marked' /\ duty' = duty  BY MarkedStays, DutyStays DEF Standing
  <1>1. \A c \in Customers : StandsThen(c, cust'[c])  BY CustStands
  <1>2. Base'  BY BaseStep
  <1>3. ASSUME NEW t \in Threads, Importing(t)
        PROVE  session[t].f \in Files /\ DOMAIN session[t].rows \subseteq Customers
    BY <1>3, ImportIs DEF Base, ImportOk
  \* A row of a session stands if it stood while the import ran.
  <1>4. ASSUME NEW t \in Threads, Importing(t), NEW c \in Customers, NEW r, Stands(c, r)
        PROVE  StandsThen(c, r)
    BY <1>4, StandsOn DEF Stands, StandsThen
  <1>5. ASSUME NEW t \in Threads, Importing(t)', NEW c \in DOMAIN session'[t].rows
        PROVE  /\ StandsThen(c, session'[t].rows[c])
               /\ Reviewed(session'[t].rows[c]) => Reviewed(cust'[c])
    <2>1. CASE Begun(t)  BY <1>5, <2>1 DEF Begun
    <2>2. ASSUME Importing(t), c \in DOMAIN session[t].rows
          PROVE  /\ StandsThen(c, session[t].rows[c])
                 /\ Reviewed(session[t].rows[c]) => Reviewed(cust'[c])
      <3>1. c \in Customers  BY <1>3, <2>2
      <3>2. Stands(c, session[t].rows[c]) /\ (Reviewed(session[t].rows[c]) => Reviewed(cust[c]))
        BY <2>2 DEF Standing
      <3>3. ~Commit(t)
        <4>1. SUFFICES ASSUME Commit(t) PROVE FALSE  OBVIOUS
        <4>2. session'[t] = Idle  BY <4>1, EndsOk DEF Ends, Base
        <4> QED  BY <1>5, <4>2 DEF Importing, Idle
      <3>4. cust'[c] = cust[c]  BY <2>2, <3>1, <3>3, HeldStays
      <3>5. StandsThen(c, session[t].rows[c])  BY <1>4, <2>2, <3>1, <3>2
      <3> QED  BY <3>2, <3>4, <3>5
    <2>3. CASE Importing(t) /\ session'[t].rows = session[t].rows  BY <1>5, <2>2, <2>3
    <2>4. CASE HasWritten(t)
      <3>1. PICK g, x, d : g = session[t].rows /\ x = Wrote(t) /\ d = UserOf(t)  OBVIOUS
      <3>2. WriteRow(t) /\ Importing(t) /\ session'[t].rows = With(g, d, x)
        BY <2>4, <3>1 DEF HasWritten
      <3>3. c \in DOMAIN With(g, d, x)  BY <1>5, <3>2
      <3>4. (c = d /\ With(g, d, x)[c] = x) \/ (c \in DOMAIN g /\ With(g, d, x)[c] = g[c])
        BY <3>3 DEF With, Over
      <3>5. CASE c \in DOMAIN g /\ With(g, d, x)[c] = g[c]  BY <2>2, <3>1, <3>2, <3>5
      <3>6. CASE c = d /\ With(g, d, x)[c] = x
        <4>1. Stands(d, x) /\ (Reviewed(x) => Reviewed(Seen(t, d)))  BY <3>1, <3>2, WroteStands
        <4>2. d \in Customers /\ cust' = cust  BY <3>1, <3>2, WroteIs
        <4>3. StandsThen(d, x)  BY <1>4, <3>2, <4>1, <4>2
        <4>4. Reviewed(Seen(t, d)) => Reviewed(cust[d])
          <5>1. CASE d \in DOMAIN session[t].rows  BY <3>2, <5>1 DEF Seen, Standing
          <5>2. CASE d \notin DOMAIN session[t].rows  BY <5>2 DEF Seen
          <5> QED  BY <5>1, <5>2
        <4> QED  BY <3>2, <3>6, <4>1, <4>2, <4>3, <4>4
      <3> QED  BY <3>4, <3>5, <3>6
    <2> QED  BY <1>5, <2>1, <2>3, <2>4, RowsGrow
  <1> DEFINE Found(t, c) == IF c \in DOMAIN session'[t].rows THEN session'[t].rows[c] ELSE cust'[c]
             Who(t) == RowsOf[session'[t].f][session'[t].i].user
  \* What an import that has not written the row finds.
  <1>6. ASSUME NEW t \in Threads, Importing(t), NEW c \in Customers, session'[t].rows = session[t].rows,
               Importing(t)', ruled'[c].calm, Reviewed(Found(t, c))
        PROVE  Reviewed(Seen(t, c)) /\ ruled[c].calm
    <2>1. ruled[c].calm
      <3>1. ruled'[c] = ruled[c]  BY <1>6, StandsOn
      <3> QED  BY <1>6, <3>1
    <2>2. CASE c \in DOMAIN session[t].rows
      BY <1>6, <2>1, <2>2 DEF Seen
    <2>3. CASE c \notin DOMAIN session[t].rows
      <3>1. Reviewed(cust'[c])  BY <1>6, <2>3
      <3>2. Reviewed(cust[c])  BY <1>6, <3>1, FoundStays
      <3> QED  BY <2>1, <2>3, <3>2 DEF Seen
    <2> QED  BY <2>2, <2>3
  <1>7. ASSUME NEW t \in Threads, Importing(t)', session'[t].got
        PROVE  /\ StandsThen(Who(t), session'[t].old)
               /\ Reviewed(Found(t, Who(t))) /\ ruled'[Who(t)].calm => Reviewed(session'[t].old)
    <2>1. CASE Begun(t)  BY <1>7, <2>1 DEF Begun
    <2>2. CASE HasRead(t)
      <3>1. PICK c, old : c = UserOf(t) /\ old = Seen(t, UserOf(t))  OBVIOUS
      <3>2. ReadRow(t) /\ Importing(t) /\ Same(session[t], session'[t])
            /\ session'[t].old = old /\ session'[t].i = session[t].i /\ session'[t].rows = session[t].rows
        BY <2>2, <3>1 DEF HasRead
      <3>3. Who(t) = c  BY <3>1, <3>2 DEF UserOf, Current, Same
      <3>4. c \in Customers
        <4>1. ImportOk(session[t])  BY <3>2, ImportIs DEF Base
        <4>2. session[t].i <= Len(RowsOf[session[t].f])  BY <3>2 DEF ReadRow
        <4> QED  BY <3>1, <4>1, <4>2, CurrentIs DEF UserOf
      <3>5. Stands(c, old)  BY <3>1, <3>2, <3>4 DEF Seen, Standing
      <3>6. StandsThen(c, old)  BY <1>4, <3>2, <3>4, <3>5
      <3>7. Reviewed(Found(t, c)) /\ ruled'[c].calm => Reviewed(old)
        BY <1>6, <1>7, <3>1, <3>2, <3>4
      <3> QED  BY <3>2, <3>3, <3>6, <3>7
    <2>3. CASE HasWritten(t)  BY <1>7, <2>3 DEF HasWritten
    <2>4. ASSUME Importing(t), session[t].got, session'[t].f = session[t].f, session'[t].i = session[t].i,
                 session'[t].rows = session[t].rows, session'[t].old = session[t].old
          PROVE  /\ StandsThen(Who(t), session'[t].old)
                 /\ Reviewed(Found(t, Who(t))) /\ ruled'[Who(t)].calm => Reviewed(session'[t].old)
      <3>1. PICK c, old : c = UserOf(t) /\ old = session[t].old  OBVIOUS
      <3>2. Who(t) = c  BY <2>4, <3>1 DEF UserOf, Current
      <3>3. c \in Customers
        <4>1. ImportOk(session[t])  BY <2>4, ImportIs DEF Base
        <4>2. session[t].i <= Len(RowsOf[session[t].f])
          <5>1. session[t].i = session'[t].i /\ session'[t].i <= Len(RowsOf[session'[t].f])
            BY <1>2, <1>7, <2>4 DEF Base, Places, Within, Importing
          <5> QED  BY <2>4, <5>1
        <4> QED  BY <3>1, <4>1, <4>2, CurrentIs DEF UserOf
      <3>4. Stands(c, old) /\ ReadRuling(c, old, Seen(t, c))  BY <2>4, <3>1 DEF Standing
      <3>5. StandsThen(c, old)  BY <1>4, <2>4, <3>3, <3>4
      <3>6. Reviewed(Found(t, c)) /\ ruled'[c].calm => Reviewed(old)
        <4>1. SUFFICES ASSUME Reviewed(Found(t, c)), ruled'[c].calm PROVE Reviewed(old)  OBVIOUS
        <4>2. Reviewed(Seen(t, c)) /\ ruled[c].calm  BY <1>6, <1>7, <2>4, <3>3, <4>1
        <4> QED  BY <3>4, <4>2 DEF ReadRuling
      <3> QED  BY <2>4, <3>1, <3>2, <3>5, <3>6
    <2>5. CASE HasPaid(t)  BY <1>7, <2>4, <2>5 DEF HasPaid, Same
    <2>6. CASE Importing(t) /\ session'[t] = session[t]  BY <1>7, <2>4, <2>6
    <2> QED  BY <1>7, <2>1, <2>2, <2>3, <2>5, <2>6, FlightIs
  <1>8. \A c \in Customers : /\ ruled'[c].calm => "review" \in duty'
                             /\ given'[c] => "edit" \in duty'
                             /\ router'[c] \in {"none", Secret[c]}
    BY <1>0, MarksStep
  <1> QED
    BY <1>0, <1>1, <1>5, <1>7, <1>8
    DEF Standing, Stands, StandsThen, ReadRuling, Seen, UserOf, Current

\* A ruling made while no import ran stands over the status and the date of every export
\* that follows, and a password given then over exports without one, with imports side by
\* side, rolled back and killed, and pairings, recoveries and resets between them, where
\* the customer form, the rulings and the older migration are not used together: a form
\* saves back the ruling it read, and migrate_legacy_data overwrites both.
THEOREM RulingsStand ==
    ASSUME \A D \in Duties : Sole(D)
    PROVE  Spec => []ReviewStands
  <1>1. Init => Standing /\ Sole(duty)
    <2>1. SUFFICES ASSUME Init PROVE Standing /\ Sole(duty)  OBVIOUS
    <2>2. session = [t \in Threads |-> Idle] /\ duty \in Duties /\ router = Secret
          /\ given = [c \in Customers |-> FALSE]
          /\ ruled = [c \in Customers |-> [calm |-> FALSE, st |-> "", exp |-> NoDate]]
      BY <2>1 DEF Init
    <2>3. \A t \in Threads : ~Importing(t)  BY <2>2 DEF Importing, Idle
    <2>4. \A c \in Customers : given[c] = FALSE /\ ruled[c].calm = FALSE  BY <2>2
    <2>5. DOMAIN ruled = Customers /\ DOMAIN given = Customers  BY <2>2
    <2>6. Sole(duty)  BY <2>2
    <2> QED  BY <2>2, <2>3, <2>4, <2>5, <2>6 DEF Standing, Stands, Marked
  <1>2. Standing /\ Sole(duty) /\ UNCHANGED vars => (Standing /\ Sole(duty))'
    <2>1. SUFFICES ASSUME Standing, Sole(duty), UNCHANGED vars PROVE Standing' /\ Sole(duty)'  OBVIOUS
    <2>2. cust' = cust /\ session' = session /\ ruled' = ruled /\ given' = given /\ duty' = duty /\ router' = router
      BY <2>1 DEF vars
    <2>3. Sole(duty)'  BY <2>1, <2>2 DEF Sole
    <2>4. \A c \in Customers : Stands(c, cust[c])'  BY <2>1, <2>2 DEF Standing, Stands
    <2>5. ASSUME NEW t \in Threads, Importing(t)', NEW c \in DOMAIN session'[t].rows
          PROVE  Stands(c, session[t].rows[c])' /\ (Reviewed(session[t].rows[c]) => Reviewed(cust[c]))'
      BY <2>1, <2>2, <2>5 DEF Standing, Stands, Importing
    <2>6. ASSUME NEW t \in Threads, Importing(t)', session'[t].got
          PROVE  Stands(UserOf(t), session[t].old)'
                 /\ ReadRuling(UserOf(t), session[t].old, Seen(t, UserOf(t)))'
      <3>1. Importing(t) /\ session[t].got  BY <2>2, <2>6 DEF Importing
      <3>2. Stands(UserOf(t), session[t].old) /\ ReadRuling(UserOf(t), session[t].old, Seen(t, UserOf(t)))
        BY <2>1, <3>1 DEF Standing
      <3> QED  BY <2>2, <3>2 DEF Stands, ReadRuling, Seen, UserOf, Current
    <2> QED  BY <2>1, <2>2, <2>3, <2>4, <2>5, <2>6 DEF Standing, Marked
  <1>3. Sole(duty) /\ duty' = duty => Sole(duty)'  BY DEF Sole
  <1>4. Base /\ Rows /\ Locks /\ Opened /\ Standing /\ Sole(duty) /\ [Next]_vars => (Standing /\ Sole(duty))'
    BY <1>2, <1>3, DutyStays, StandingStep
  <1>5. Standing => ReviewStands  BY DEF Standing, Stands, Reviewed, ReviewStands
  <1> QED
    BY <1>1, <1>4, <1>5, BaseCorrect, RowsCorrect, LocksCorrect, OpenedCorrect, PTL DEF Spec
=============================================================================
