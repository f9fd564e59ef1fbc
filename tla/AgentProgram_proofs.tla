------------------------ MODULE AgentProgram_proofs ------------------------
(* Theorems about AgentProgram for every value of its constants. *)
EXTENDS AgentProgram, SequenceTheorems, FiniteSetTheorems, TLAPS

-----------------------------------------------------------------------------
(* Numbers, sequences and sets of events *)

\* The newest of a bounded set of rows is one of them.
LEMMA NewestIs ==
    ASSUME NEW S \in SUBSET (Nat \ {0}), NEW n \in Nat, \A m \in S : m <= n
    PROVE  /\ S = {} => Newest(S) = 0
           /\ S # {} => Newest(S) \in S /\ \A m \in S : m <= Newest(S)
  <1>1. S = {} => Newest(S) = 0  BY DEF Newest
  <1>2. ASSUME S # {} PROVE Newest(S) \in S /\ \A m \in S : m <= Newest(S)
    <2> DEFINE T == {n - m : m \in S}
               R == OpToRel(<, Nat)
    <2>1. T \subseteq Nat /\ T # {}
      <3>1. ASSUME NEW m \in S PROVE n - m \in Nat
        <4>1. m \in Nat /\ m <= n  OBVIOUS
        <4> QED  BY <4>1
      <3> QED  BY <1>2, <3>1
    <2>2. PICK x \in T : \A y \in T : ~(<<y, x>> \in R)
      <3> HIDE DEF T, R
      <3>1. IsWellFoundedOn(R, Nat)  BY NatLessThanWellFounded DEF R
      <3> QED  BY <2>1, <3>1, WFMin
    <2>3. \A y \in T : ~(y < x)  BY <2>1, <2>2 DEF OpToRel
    <2>4. PICK h \in S : x = n - h  OBVIOUS
    <2>5. \A m \in S : m <= h
      <3> SUFFICES ASSUME NEW m \in S PROVE m <= h  OBVIOUS
      <3>1. n - m \in T  OBVIOUS
      <3>2. ~(n - m < n - h)  BY <2>3, <2>4, <3>1
      <3>3. m \in Nat /\ h \in Nat  OBVIOUS
      <3> HIDE DEF T, R
      <3> QED  BY <3>2, <3>3
    <2>6. Newest(S) = CHOOSE i \in S : \A m \in S : m <= i  BY <1>2 DEF Newest
    <2> QED  BY <2>4, <2>5, <2>6
  <1> QED  BY <1>1, <1>2

LEMMA SeqWrite ==
    ASSUME NEW S, NEW q \in Seq(S), NEW i \in 1 .. Len(q), NEW e \in S
    PROVE  /\ [q EXCEPT ![i] = e] \in Seq(S)
           /\ Len([q EXCEPT ![i] = e]) = Len(q)
           /\ \A k \in 1 .. Len(q) : [q EXCEPT ![i] = e][k] = IF k = i THEN e ELSE q[k]
  BY ExceptSeq

LEMMA SeqAdd ==
    ASSUME NEW S, NEW q \in Seq(S), NEW e \in S
    PROVE  /\ Append(q, e) \in Seq(S) /\ Len(Append(q, e)) = Len(q) + 1 /\ Len(q) \in Nat
           /\ \A k \in 1 .. Len(q) : Append(q, e)[k] = q[k]
           /\ Append(q, e)[Len(q) + 1] = e
  BY AppendProperties

-----------------------------------------------------------------------------
(* What holds of the tables and of a request under way *)

Posting  == {"refund", "correct"}
Verdicts == {"nothing", "revoke", "requalify", "create"}

PayJob  == [h : {"pay", "transfer"}, cust : Nat, left : Nat, amount : Nat, agent : Agents \cup {NoOne},
            id : Nat, known : Event \cup {NoEvent}, verdict : Verdicts]
PostJob == [h : Posting, todo : Nat, cust : Nat, agent : Agents \cup {NoOne},
            id : Nat, known : Event \cup {NoEvent}, verdict : Verdicts]

\* The verdict names rows of tables with c customers, e events and b batches.
Fits(j, c, e, b) ==
    /\ j.cust \in 1 .. c
    /\ j.verdict \in {"revoke", "requalify"} => j.id \in 1 .. e
    /\ j.verdict = "requalify" =>
          j.known \in Event /\ j.known.cust \in 1 .. c /\ j.known.batch \in 0 .. b
    /\ j.verdict = "create" => j.agent \in Agents

\* What a thread may hold, with r referrals in the table.
Typed(j, r, c, e, b) ==
    \/ j = Idle
    \/ j \in [h : {"add"}, row : Referral] /\ j.row.cust = 0
    \/ /\ j \in [h : {"edit"}, id : Nat, row : Referral]
       /\ j.id \in 1 .. r /\ j.row.cust \in 0 .. c
    \/ j \in [h : {"open"}, id : Nat, status : Statuses] /\ j.id \in 1 .. r
    \/ j \in [h : {"reopen"}, id : Nat] /\ j.id \in 1 .. r
    \/ /\ j \in [h : {"convert"}, id : Nat, phone : Phones, agent : Agents \cup {NoOne}]
       /\ j.id \in 0 .. r
    \/ j \in PayJob /\ Fits(j, c, e, b) /\ (j.h = "transfer" => j.left \in 1 .. c)
    \/ j \in [h : Posting, todo : Nat \ {0}, cust : Nat] /\ j.cust \in 1 .. c
    \/ j \in PostJob /\ Fits(j, c, e, b)
    \/ /\ j \in [h : {"batch"}, agent : Agents, size : Nat, events : SUBSET Nat]
       /\ j.events \subseteq 1 .. e
    \/ j \in [h : {"markPaid"}, id : Nat] /\ j.id \in 1 .. b

TablesTyped ==
    /\ referral \in Seq(Referral) /\ customer \in Seq(Customer)
    /\ paid \in Seq(Int) /\ Len(paid) = Len(customer)
    /\ event \in Seq(Event) /\ batch \in Seq(Batch)
    /\ \A i \in 1 .. Len(referral) : referral[i].cust \in 0 .. Len(customer)
    /\ \A c \in 1 .. Len(customer) : customer[c].from \in 0 .. Len(referral)
    /\ \A e \in 1 .. Len(event) : event[e].cust \in 1 .. Len(customer) /\ event[e].batch \in 0 .. Len(batch)

Holds(s) == Typed(session[s], Len(referral), Len(customer), Len(event), Len(batch))

Inv ==
    /\ TablesTyped
    /\ DOMAIN session = Threads
    /\ \A s \in Threads : Holds(s)

LEMMA TablesAre ==
    ASSUME TablesTyped
    PROVE  /\ Len(referral) \in Nat /\ Len(customer) \in Nat /\ Len(event) \in Nat /\ Len(batch) \in Nat
           /\ DOMAIN referral = 1 .. Len(referral) /\ DOMAIN customer = 1 .. Len(customer)
           /\ DOMAIN paid = 1 .. Len(customer)
           /\ DOMAIN event = 1 .. Len(event) /\ DOMAIN batch = 1 .. Len(batch)
           /\ \A i \in 1 .. Len(referral) : referral[i] \in Referral
           /\ \A c \in 1 .. Len(customer) : customer[c] \in Customer /\ paid[c] \in Int
           /\ \A e \in 1 .. Len(event) : event[e] \in Event
           /\ \A b \in 1 .. Len(batch) : batch[b] \in Batch
  <1>1. ASSUME NEW S, NEW q \in Seq(S)
        PROVE  Len(q) \in Nat /\ DOMAIN q = 1 .. Len(q) /\ \A i \in 1 .. Len(q) : q[i] \in S
    BY LenProperties, ElementOfSeq
  <1>2. /\ referral \in Seq(Referral) /\ customer \in Seq(Customer) /\ event \in Seq(Event)
        /\ batch \in Seq(Batch) /\ paid \in Seq(Int) /\ Len(paid) = Len(customer)
    BY DEF TablesTyped
  <1>3. Len(referral) \in Nat /\ DOMAIN referral = 1 .. Len(referral)
        /\ \A i \in 1 .. Len(referral) : referral[i] \in Referral
    BY <1>1, <1>2
  <1>4. Len(customer) \in Nat /\ DOMAIN customer = 1 .. Len(customer)
        /\ \A i \in 1 .. Len(customer) : customer[i] \in Customer
    BY <1>1, <1>2
  <1>5. Len(event) \in Nat /\ DOMAIN event = 1 .. Len(event)
        /\ \A i \in 1 .. Len(event) : event[i] \in Event
    BY <1>1, <1>2
  <1>6. Len(batch) \in Nat /\ DOMAIN batch = 1 .. Len(batch)
        /\ \A i \in 1 .. Len(batch) : batch[i] \in Batch
    BY <1>1, <1>2
  <1>7. DOMAIN paid = 1 .. Len(customer) /\ \A i \in 1 .. Len(customer) : paid[i] \in Int
    BY <1>1, <1>2
  <1> QED  BY <1>3, <1>4, <1>5, <1>6, <1>7

\* Tables only grow, so what a request holds stays typed.
LEMMA TypedGrows ==
    ASSUME NEW j, NEW r \in Nat, NEW c \in Nat, NEW e \in Nat, NEW b \in Nat, Typed(j, r, c, e, b),
           NEW r1 \in Nat, NEW c1 \in Nat, NEW e1 \in Nat, NEW b1 \in Nat,
           r1 >= r, c1 >= c, e1 >= e, b1 >= b
    PROVE  Typed(j, r1, c1, e1, b1)
  <1>1. ASSUME NEW m \in Nat, NEW n \in Nat, n >= m PROVE 1 .. m \subseteq 1 .. n /\ 0 .. m \subseteq 0 .. n
    BY <1>1
  <1>2. /\ 1 .. r \subseteq 1 .. r1 /\ 0 .. r \subseteq 0 .. r1
        /\ 1 .. c \subseteq 1 .. c1 /\ 0 .. c \subseteq 0 .. c1
        /\ 1 .. e \subseteq 1 .. e1 /\ 1 .. b \subseteq 1 .. b1 /\ 0 .. b \subseteq 0 .. b1
    BY <1>1
  <1>3. Fits(j, c, e, b) => Fits(j, c1, e1, b1)  BY <1>2 DEF Fits
  <1>4. CASE j \in PayJob /\ Fits(j, c, e, b) /\ (j.h = "transfer" => j.left \in 1 .. c)
    BY <1>2, <1>3, <1>4 DEF Typed
  <1>5. CASE j \in PostJob /\ Fits(j, c, e, b)  BY <1>3, <1>5 DEF Typed
  <1>6. CASE /\ j \in [h : {"batch"}, agent : Agents, size : Nat, events : SUBSET Nat]
             /\ j.events \subseteq 1 .. e
    <2>1. j.events \subseteq 1 .. e1  BY <1>2, <1>6
    <2> QED  BY <1>6, <2>1 DEF Typed
  <1>7. CASE /\ j \in [h : {"edit"}, id : Nat, row : Referral]
             /\ j.id \in 1 .. r /\ j.row.cust \in 0 .. c
    BY <1>2, <1>7 DEF Typed
  <1>8. CASE j \in [h : {"open"}, id : Nat, status : Statuses] /\ j.id \in 1 .. r
    BY <1>2, <1>8 DEF Typed
  <1>9. CASE j \in [h : {"reopen"}, id : Nat] /\ j.id \in 1 .. r  BY <1>2, <1>9 DEF Typed
  <1>10. CASE /\ j \in [h : {"convert"}, id : Nat, phone : Phones, agent : Agents \cup {NoOne}]
              /\ j.id \in 0 .. r
    BY <1>2, <1>10 DEF Typed
  <1>11. CASE j \in [h : Posting, todo : Nat \ {0}, cust : Nat] /\ j.cust \in 1 .. c
    BY <1>2, <1>11 DEF Typed
  <1>12. CASE j \in [h : {"markPaid"}, id : Nat] /\ j.id \in 1 .. b  BY <1>2, <1>12 DEF Typed
  <1>13. CASE j = Idle \/ (j \in [h : {"add"}, row : Referral] /\ j.row.cust = 0)
    BY <1>13 DEF Typed
  <1> QED
    BY <1>4, <1>5, <1>6, <1>7, <1>8, <1>9, <1>10, <1>11, <1>12, <1>13 DEF Typed

\* The same, read by the handler the request is of.
LEMMA TypedIs ==
    ASSUME NEW j, NEW r, NEW c, NEW e, NEW b, Typed(j, r, c, e, b)
    PROVE  /\ j.h = "add" => j \in [h : {"add"}, row : Referral] /\ j.row.cust = 0
           /\ j.h = "edit" => /\ j \in [h : {"edit"}, id : Nat, row : Referral]
                              /\ j.id \in 1 .. r /\ j.row.cust \in 0 .. c
           /\ j.h = "open" => j \in [h : {"open"}, id : Nat, status : Statuses] /\ j.id \in 1 .. r
           /\ j.h = "reopen" => j.id \in 1 .. r
           /\ j.h = "convert" =>
                 /\ j \in [h : {"convert"}, id : Nat, phone : Phones, agent : Agents \cup {NoOne}]
                 /\ j.id \in 0 .. r
           /\ j.h \in {"pay", "transfer"} =>
                 /\ j \in PayJob /\ Fits(j, c, e, b) /\ "verdict" \in DOMAIN j
                 /\ j.h = "transfer" => j.left \in 1 .. c
           /\ j.h \in Posting =>
                 /\ j.cust \in 1 .. c /\ j.todo \in Nat
                 /\ "verdict" \in DOMAIN j => j \in PostJob /\ Fits(j, c, e, b)
                 /\ "verdict" \notin DOMAIN j => j.todo # 0
           /\ j.h = "batch" => /\ j \in [h : {"batch"}, agent : Agents, size : Nat, events : SUBSET Nat]
                               /\ j.events \subseteq 1 .. e
           /\ j.h = "markPaid" => j.id \in 1 .. b
           /\ j # Idle /\ "verdict" \in DOMAIN j => Fits(j, c, e, b)
  <1>1. CASE j = Idle  BY <1>1 DEF Idle, Posting
  <1>2. CASE j \in [h : {"add"}, row : Referral] /\ j.row.cust = 0  BY <1>2 DEF Posting
  <1>3. CASE /\ j \in [h : {"edit"}, id : Nat, row : Referral]
             /\ j.id \in 1 .. r /\ j.row.cust \in 0 .. c
    BY <1>3 DEF Posting
  <1>4. CASE j \in [h : {"open"}, id : Nat, status : Statuses] /\ j.id \in 1 .. r
    BY <1>4 DEF Posting
  <1>5. CASE j \in [h : {"reopen"}, id : Nat] /\ j.id \in 1 .. r  BY <1>5 DEF Posting
  <1>6. CASE /\ j \in [h : {"convert"}, id : Nat, phone : Phones, agent : Agents \cup {NoOne}]
             /\ j.id \in 0 .. r
    BY <1>6 DEF Posting
  <1>7. CASE j \in PayJob /\ Fits(j, c, e, b) /\ (j.h = "transfer" => j.left \in 1 .. c)
    BY <1>7 DEF PayJob, Posting
  <1>8. CASE j \in [h : Posting, todo : Nat \ {0}, cust : Nat] /\ j.cust \in 1 .. c  BY <1>8 DEF Posting
  <1>9. CASE j \in PostJob /\ Fits(j, c, e, b)
    <2>1. j.h \in Posting /\ j.todo \in Nat /\ j.cust \in 1 .. c  BY <1>9 DEF PostJob, Fits
    <2>2. "verdict" \in DOMAIN j  BY <1>9 DEF PostJob
    <2> QED  BY <1>9, <2>1, <2>2 DEF Posting
  <1>10. CASE /\ j \in [h : {"batch"}, agent : Agents, size : Nat, events : SUBSET Nat]
              /\ j.events \subseteq 1 .. e
    BY <1>10 DEF Posting
  <1>11. CASE j \in [h : {"markPaid"}, id : Nat] /\ j.id \in 1 .. b  BY <1>11 DEF Posting
  <1> QED
    BY <1>1, <1>2, <1>3, <1>4, <1>5, <1>6, <1>7, <1>8, <1>9, <1>10, <1>11 DEF Typed

-----------------------------------------------------------------------------
(* Steps of one request *)

Grown ==
    /\ Len(referral)' >= Len(referral) /\ Len(customer)' >= Len(customer)
    /\ Len(event)' >= Len(event) /\ Len(batch)' >= Len(batch)

LEMMA Stayed ==
    ASSUME Inv, TablesTyped', Grown, session' = session
    PROVE  Inv'
  <1>1. /\ Len(referral) \in Nat /\ Len(customer) \in Nat /\ Len(event) \in Nat /\ Len(batch) \in Nat
    BY TablesAre DEF Inv
  <1>2. /\ Len(referral)' \in Nat /\ Len(customer)' \in Nat /\ Len(event)' \in Nat /\ Len(batch)' \in Nat
    <2>1. /\ referral' \in Seq(Referral) /\ customer' \in Seq(Customer)
          /\ event' \in Seq(Event) /\ batch' \in Seq(Batch)
      BY DEF TablesTyped
    <2> QED  BY <2>1, LenProperties
  <1>3. ASSUME NEW t \in Threads PROVE Holds(t)'
    <2>1. Typed(session[t], Len(referral), Len(customer), Len(event), Len(batch))
      BY DEF Inv, Holds
    <2>2. Typed(session[t], Len(referral)', Len(customer)', Len(event)', Len(batch)')
      BY <1>1, <1>2, <2>1, TypedGrows DEF Grown
    <2> QED  BY <2>2 DEF Holds
  <1> QED  BY <1>3 DEF Inv

LEMMA Moved ==
    ASSUME Inv, TablesTyped', Grown, NEW s \in Threads, NEW j, session' = [session EXCEPT ![s] = j],
           Typed(j, Len(referral)', Len(customer)', Len(event)', Len(batch)')
    PROVE  Inv'
  <1>1. /\ Len(referral) \in Nat /\ Len(customer) \in Nat /\ Len(event) \in Nat /\ Len(batch) \in Nat
    BY TablesAre DEF Inv
  <1>2. /\ Len(referral)' \in Nat /\ Len(customer)' \in Nat /\ Len(event)' \in Nat /\ Len(batch)' \in Nat
    <2>1. /\ referral' \in Seq(Referral) /\ customer' \in Seq(Customer)
          /\ event' \in Seq(Event) /\ batch' \in Seq(Batch)
      BY DEF TablesTyped
    <2> QED  BY <2>1, LenProperties
  <1>3. DOMAIN session = Threads  BY DEF Inv
  <1>4. ASSUME NEW t \in Threads PROVE Holds(t)'
    <2>1. CASE t = s
      <3>1. session'[t] = j  BY <1>3, <2>1
      <3> QED  BY <3>1 DEF Holds
    <2>2. CASE t # s
      <3>1. session'[t] = session[t]  BY <1>3, <2>2
      <3>2. Typed(session[t], Len(referral), Len(customer), Len(event), Len(batch))
        BY DEF Inv, Holds
      <3>3. Typed(session[t], Len(referral)', Len(customer)', Len(event)', Len(batch)')
        BY <1>1, <1>2, <3>2, TypedGrows DEF Grown
      <3> QED  BY <3>1, <3>3 DEF Holds
    <2> QED  BY <2>1, <2>2
  <1> QED  BY <1>3, <1>4 DEF Inv

\* A request that only reads.
LEMMA Began ==
    ASSUME Inv, NEW s \in Threads, NEW j, session' = [session EXCEPT ![s] = j], UNCHANGED Tables,
           Typed(j, Len(referral), Len(customer), Len(event), Len(batch))
    PROVE  Inv'
  <1>1. /\ Len(referral)' = Len(referral) /\ Len(customer)' = Len(customer)
        /\ Len(event)' = Len(event) /\ Len(batch)' = Len(batch)
    BY DEF Tables
  <1>2. TablesTyped'
    <2>1. TablesTyped  BY DEF Inv
    <2> QED  BY <2>1 DEF TablesTyped, Tables
  <1>3. Grown
    <2>1. /\ Len(referral) \in Nat /\ Len(customer) \in Nat /\ Len(event) \in Nat /\ Len(batch) \in Nat
      BY TablesAre DEF Inv
    <2> QED  BY <1>1, <2>1 DEF Grown
  <1>4. Typed(j, Len(referral)', Len(customer)', Len(event)', Len(batch)')  BY <1>1
  <1> QED  BY <1>2, <1>3, <1>4, Moved

\* What the thread that does a step holds.
LEMMA HeldIs ==
    ASSUME Inv, NEW s \in Threads
    PROVE  Typed(session[s], Len(referral), Len(customer), Len(event), Len(batch))
  BY DEF Inv, Holds

LEMMA IdleTyped ==
    ASSUME NEW r, NEW c, NEW e, NEW b
    PROVE  Typed(Idle, r, c, e, b)
  BY DEF Typed

-----------------------------------------------------------------------------
(* What a request reads of the commissions *)

LEMMA AgentIs ==
    ASSUME TablesTyped, NEW c \in 1 .. Len(customer)
    PROVE  AgentOf(c) \in Agents \cup {NoOne}
  <1>1. customer[c] \in Customer  BY TablesAre
  <1> QED  BY <1>1 DEF AgentOf, Customer

\* The newest event of the customer and its agent, if there is one.
LEMMA EventIs ==
    ASSUME TablesTyped, NEW c \in 1 .. Len(customer)
    PROVE  /\ EventsOf(c) = {} => EventOf(c) = 0 /\ Known(c) = NoEvent
           /\ EventsOf(c) # {} =>
                 /\ EventOf(c) \in 1 .. Len(event)
                 /\ Known(c) = event[EventOf(c)] /\ Known(c) \in Event
                 /\ event[EventOf(c)].cust = c /\ event[EventOf(c)].agent = AgentOf(c)
           /\ EventOf(c) \in Nat /\ Known(c) \in Event \cup {NoEvent}
  <1>1. Len(event) \in Nat /\ DOMAIN event = 1 .. Len(event)
        /\ \A e \in 1 .. Len(event) : event[e] \in Event
    BY TablesAre
  <1>2. EventsOf(c) \in SUBSET (Nat \ {0}) /\ \A m \in EventsOf(c) : m <= Len(event)
    BY <1>1 DEF EventsOf
  <1>3. CASE EventsOf(c) = {}
    <2>1. EventOf(c) = 0  BY <1>1, <1>2, <1>3, NewestIs DEF EventOf
    <2> QED  BY <1>3, <2>1 DEF Known
  <1>4. CASE EventsOf(c) # {}
    <2>1. EventOf(c) \in EventsOf(c)  BY <1>1, <1>2, <1>4, NewestIs DEF EventOf
    <2>2. EventOf(c) \in 1 .. Len(event)
          /\ event[EventOf(c)].cust = c /\ event[EventOf(c)].agent = AgentOf(c)
      BY <1>1, <2>1 DEF EventsOf
    <2>3. EventOf(c) # 0 /\ EventOf(c) \in Nat  BY <1>1, <2>2
    <2> QED  BY <1>1, <1>4, <2>2, <2>3 DEF Known
  <1> QED  BY <1>3, <1>4

\* What each verdict says of the event and the money.
LEMMA VerdictIs ==
    ASSUME TablesTyped, NEW c \in 1 .. Len(customer), NEW net \in Int, NEW v,
           v = Verdict(c, Known(c), net)
    PROVE  /\ v \in Verdicts
           /\ v # "nothing" => AgentOf(c) \in Agents
           /\ v \in {"revoke", "requalify"} => EventsOf(c) # {}
           /\ v = "revoke" => net < Threshold /\ Known(c).status = "qualified"
           /\ v = "requalify" => net >= Threshold /\ Known(c).status = "revoked"
           /\ v = "create" => net >= Threshold /\ EventsOf(c) = {}
           /\ EventsOf(c) # {} /\ Known(c).status = "qualified" /\ net < Threshold => v = "revoke"
  <1>1. AgentOf(c) \in Agents \cup {NoOne}  BY AgentIs
  <1>2. CASE EventsOf(c) = {}
    <2>1. Known(c) = NoEvent  BY <1>2, EventIs
    <2>2. Known(c).status = "none"  BY <2>1 DEF NoEvent
    <2>3. v = IF AgentOf(c) = NoOne THEN "nothing"
              ELSE IF net < Threshold \/ customer[c].closed THEN "nothing" ELSE "create"
      BY <2>1, <2>2 DEF Verdict
    <2> QED  BY <1>1, <1>2, <2>3 DEF Verdicts, Threshold
  <1>3. CASE EventsOf(c) # {}
    <2>1. Known(c) \in Event /\ Known(c).agent = AgentOf(c)  BY <1>3, EventIs
    <2>2. AgentOf(c) # NoOne /\ AgentOf(c) \in Agents  BY <2>1, AgentAssumption DEF Event
    <2>3. Known(c).status \in {"qualified", "revoked", "paid_out"}  BY <2>1 DEF Event
    <2>4. Known(c) # NoEvent
      <3>1. NoEvent.status = "none"  BY DEF NoEvent
      <3> QED  BY <2>3, <3>1
    <2>5. CASE Known(c).status = "paid_out"
      <3>1. v = "nothing"  BY <2>5 DEF Verdict
      <3> QED  BY <2>5, <3>1 DEF Verdicts
    <2>6. CASE Known(c).status = "qualified"
      <3>1. v = IF net < Threshold THEN "revoke" ELSE "nothing"  BY <2>2, <2>6 DEF Verdict
      <3> QED  BY <1>3, <2>2, <2>6, <3>1 DEF Verdicts
    <2>7. CASE Known(c).status = "revoked"
      <3>1. v = IF net < Threshold \/ customer[c].closed THEN "nothing" ELSE "requalify"
        BY <2>2, <2>4, <2>7 DEF Verdict
      <3> QED  BY <1>3, <2>2, <2>7, <3>1 DEF Verdicts, Threshold
    <2> QED  BY <2>3, <2>5, <2>6, <2>7
  <1> QED  BY <1>2, <1>3

\* The table of commissions after a verdict.
LEMMA EvaluatedIs ==
    ASSUME TablesTyped, NEW j, j.verdict \in Verdicts, j.cust \in Nat,
           Fits(j, Len(customer), Len(event), Len(batch))
    PROVE  /\ Evaluated(j) \in Seq(Event)
           /\ Len(Evaluated(j)) = IF j.verdict = "create" THEN Len(event) + 1 ELSE Len(event)
           /\ \A i \in 1 .. Len(event) : Evaluated(j)[i] =
                 IF j.verdict = "revoke" /\ i = j.id THEN [event[i] EXCEPT !.status = "revoked"]
                 ELSE IF j.verdict = "requalify" /\ i = j.id THEN [j.known EXCEPT !.status = "qualified"]
                 ELSE event[i]
           /\ j.verdict = "create" =>
                 Evaluated(j)[Len(event) + 1] = [cust |-> j.cust, agent |-> j.agent,
                                                 status |-> "qualified", batch |-> 0]
  <1>1. Len(event) \in Nat /\ event \in Seq(Event)
        /\ \A e \in 1 .. Len(event) : event[e] \in Event
    BY TablesAre DEF TablesTyped
  <1>2. CASE j.verdict = "nothing"
    <2>1. Evaluated(j) = event  BY <1>2 DEF Evaluated
    <2> QED  BY <1>1, <1>2, <2>1
  <1>3. CASE j.verdict = "revoke"
    <2> DEFINE e == [event[j.id] EXCEPT !.status = "revoked"]
    <2>1. j.id \in 1 .. Len(event)  BY <1>3 DEF Fits
    <2>2. event[j.id] \in Event  BY <1>1, <2>1
    <2>3. e \in Event  BY <2>2 DEF Event
    <2>4. Evaluated(j) = [event EXCEPT ![j.id] = e]  BY <1>3 DEF Evaluated
    <2>5. ~(j.verdict = "create") /\ ~(j.verdict = "requalify")  BY <1>3
    <2>6. \A i \in 1 .. Len(event) : i = j.id => [event[i] EXCEPT !.status = "revoked"] = e  OBVIOUS
    <2> HIDE DEF e
    <2>7. /\ Evaluated(j) \in Seq(Event) /\ Len(Evaluated(j)) = Len(event)
          /\ \A i \in 1 .. Len(event) : Evaluated(j)[i] = IF i = j.id THEN e ELSE event[i]
      BY <1>1, <2>1, <2>3, <2>4, SeqWrite
    <2> QED  BY <1>3, <2>5, <2>6, <2>7
  <1>4. CASE j.verdict = "requalify"
    <2> DEFINE e == [j.known EXCEPT !.status = "qualified"]
    <2>1. j.id \in 1 .. Len(event) /\ j.known \in Event  BY <1>4 DEF Fits
    <2>2. e \in Event  BY <2>1 DEF Event
    <2>3. Evaluated(j) = [event EXCEPT ![j.id] = e]  BY <1>4 DEF Evaluated
    <2>4. ~(j.verdict = "create") /\ ~(j.verdict = "revoke")  BY <1>4
    <2> HIDE DEF e
    <2>5. /\ Evaluated(j) \in Seq(Event) /\ Len(Evaluated(j)) = Len(event)
          /\ \A i \in 1 .. Len(event) : Evaluated(j)[i] = IF i = j.id THEN e ELSE event[i]
      BY <1>1, <2>1, <2>2, <2>3, SeqWrite
    <2> QED  BY <1>4, <2>4, <2>5 DEF e
  <1>5. CASE j.verdict = "create"
    <2> DEFINE e == [cust |-> j.cust, agent |-> j.agent, status |-> "qualified", batch |-> 0]
    <2>1. j.agent \in Agents  BY <1>5 DEF Fits
    <2>2. e \in Event  BY <2>1 DEF Event
    <2>3. Evaluated(j) = Append(event, e)  BY <1>5 DEF Evaluated
    <2>4. ~(j.verdict = "requalify") /\ ~(j.verdict = "revoke")  BY <1>5
    <2> HIDE DEF e
    <2>5. /\ Evaluated(j) \in Seq(Event) /\ Len(Evaluated(j)) = Len(event) + 1
          /\ \A i \in 1 .. Len(event) : Evaluated(j)[i] = event[i]
          /\ Evaluated(j)[Len(event) + 1] = e
      BY <1>1, <2>2, <2>3, SeqAdd
    <2> QED  BY <1>5, <2>4, <2>5 DEF e
  <1> QED  BY <1>2, <1>3, <1>4, <1>5 DEF Verdicts

-----------------------------------------------------------------------------
(* Referrals *)

LEMMA ReferralAdded ==
    ASSUME TablesTyped, NEW row \in Referral, row.cust = 0, referral' = Append(referral, row),
           UNCHANGED <<customer, paid, event, batch>>
    PROVE  TablesTyped' /\ Grown /\ Len(referral)' = Len(referral) + 1
  <1>1. /\ Len(referral) \in Nat /\ Len(customer) \in Nat /\ Len(event) \in Nat /\ Len(batch) \in Nat
    BY TablesAre
  <1>2. referral \in Seq(Referral)  BY DEF TablesTyped
  <1>3. /\ referral' \in Seq(Referral) /\ Len(referral)' = Len(referral) + 1
        /\ \A k \in 1 .. Len(referral) : referral'[k] = referral[k]
        /\ referral'[Len(referral) + 1] = row
    BY <1>2, SeqAdd
  <1>4. ASSUME NEW i \in 1 .. Len(referral)' PROVE referral'[i].cust \in 0 .. Len(customer)'
    <2>1. i \in 1 .. Len(referral) \/ i = Len(referral) + 1  BY <1>1, <1>3
    <2>2. CASE i \in 1 .. Len(referral)  BY <1>3, <2>2 DEF TablesTyped
    <2>3. CASE i = Len(referral) + 1  BY <1>1, <1>3, <2>3
    <2> QED  BY <2>1, <2>2, <2>3
  <1>5. ASSUME NEW c \in 1 .. Len(customer)' PROVE customer'[c].from \in 0 .. Len(referral)'
    <2>1. customer[c].from \in 0 .. Len(referral)  BY DEF TablesTyped
    <2> QED  BY <1>1, <1>3, <2>1
  <1>6. TablesTyped'  BY <1>3, <1>4, <1>5 DEF TablesTyped
  <1> QED  BY <1>1, <1>3, <1>6 DEF Grown

LEMMA ReferralSet ==
    ASSUME TablesTyped, NEW i \in 1 .. Len(referral), NEW row \in Referral,
           row.cust \in 0 .. Len(customer), referral' = [referral EXCEPT ![i] = row],
           UNCHANGED <<customer, paid, event, batch>>
    PROVE  /\ TablesTyped' /\ Grown /\ Len(referral)' = Len(referral)
           /\ \A k \in 1 .. Len(referral) : referral'[k] = IF k = i THEN row ELSE referral[k]
  <1>1. /\ Len(referral) \in Nat /\ Len(customer) \in Nat /\ Len(event) \in Nat /\ Len(batch) \in Nat
    BY TablesAre
  <1>2. referral \in Seq(Referral)  BY DEF TablesTyped
  <1>3. /\ referral' \in Seq(Referral) /\ Len(referral)' = Len(referral)
        /\ \A k \in 1 .. Len(referral) : referral'[k] = IF k = i THEN row ELSE referral[k]
    BY <1>2, SeqWrite
  <1>4. ASSUME NEW k \in 1 .. Len(referral)' PROVE referral'[k].cust \in 0 .. Len(customer)'
    BY <1>3 DEF TablesTyped
  <1>5. TablesTyped'  BY <1>3, <1>4 DEF TablesTyped
  <1> QED  BY <1>1, <1>3, <1>5 DEF Grown

LEMMA AddOpens ==
    ASSUME Inv, NEW s \in Threads, NEW a \in Agents, NEW phone \in Phones, OpenAdd(s, a, phone)
    PROVE  Inv'
  <1> DEFINE row == NewReferral(a, phone, "submitted", FALSE, Matches(phone, 0, {"declined", "converted"}))
             j   == [h |-> "add", row |-> row]
  <1>1. Matches(phone, 0, {"declined", "converted"}) \in BOOLEAN  BY DEF Matches
  <1>2. row \in Referral /\ row.cust = 0  BY <1>1 DEF NewReferral, Referral, Statuses
  <1>3. session' = [session EXCEPT ![s] = j] /\ UNCHANGED Tables  BY DEF OpenAdd, Begin
  <1> HIDE DEF row
  <1>4. Typed(j, Len(referral), Len(customer), Len(event), Len(batch))  BY <1>2 DEF Typed
  <1> HIDE DEF j
  <1> QED  BY <1>3, <1>4, Began

LEMMA AddCommits ==
    ASSUME Inv, NEW s \in Threads, CommitAdd(s)
    PROVE  Inv'
  <1>1. session[s].row \in Referral /\ session[s].row.cust = 0
    <2>1. session[s].h = "add"  BY DEF CommitAdd, Doing
    <2>2. session[s] \in [h : {"add"}, row : Referral] /\ session[s].row.cust = 0
      BY <2>1, HeldIs, TypedIs
    <2> QED  BY <2>2
  <1>2. referral' = Append(referral, session[s].row) /\ UNCHANGED <<customer, paid, event, batch>>
    BY DEF CommitAdd
  <1>3. TablesTyped' /\ Grown  BY <1>1, <1>2, ReferralAdded DEF Inv
  <1>4. session' = [session EXCEPT ![s] = Idle]  BY DEF CommitAdd, End
  <1> QED  BY <1>3, <1>4, IdleTyped, Moved

LEMMA EditOpens ==
    ASSUME Inv, NEW s \in Threads, NEW i \in 1 .. Len(referral), NEW phone \in Phones, OpenEdit(s, i, phone)
    PROVE  Inv'
  <1> DEFINE d   == Matches(phone, i, {"declined"})
             row == [referral[i] EXCEPT !.phone = phone, !.dup = d]
             j   == [h |-> "edit", id |-> i, row |-> row]
  <1>1. d \in BOOLEAN  BY DEF Matches
  <1>2. session' = [session EXCEPT ![s] = j] /\ UNCHANGED Tables  BY DEF OpenEdit, Begin
  <1> HIDE DEF d
  <1>3. referral[i] \in Referral /\ referral[i].cust \in 0 .. Len(customer)
    BY TablesAre DEF Inv, TablesTyped
  <1>4. row \in Referral /\ row.cust = referral[i].cust  BY <1>1, <1>3 DEF Referral
  <1> HIDE DEF row
  <1>5. i \in Nat  OBVIOUS
  <1>6. Typed(j, Len(referral), Len(customer), Len(event), Len(batch))  BY <1>3, <1>4, <1>5 DEF Typed
  <1> HIDE DEF j
  <1> QED  BY <1>2, <1>6, Began

LEMMA EditCommits ==
    ASSUME Inv, NEW s \in Threads, CommitEdit(s)
    PROVE  Inv'
  <1>1. /\ session[s].row \in Referral /\ session[s].row.cust \in 0 .. Len(customer)
        /\ session[s].id \in 1 .. Len(referral)
    <2>1. session[s].h = "edit"  BY DEF CommitEdit, Doing
    <2>2. /\ session[s] \in [h : {"edit"}, id : Nat, row : Referral]
          /\ session[s].id \in 1 .. Len(referral) /\ session[s].row.cust \in 0 .. Len(customer)
      BY <2>1, HeldIs, TypedIs
    <2> QED  BY <2>2
  <1>2. /\ referral' = [referral EXCEPT ![session[s].id] = session[s].row]
        /\ UNCHANGED <<customer, paid, event, batch>>
    BY DEF CommitEdit
  <1>3. TablesTyped' /\ Grown  BY <1>1, <1>2, ReferralSet DEF Inv
  <1>4. session' = [session EXCEPT ![s] = Idle]  BY DEF CommitEdit, End
  <1> QED  BY <1>3, <1>4, IdleTyped, Moved

LEMMA StaffAdds ==
    ASSUME Inv, NEW a \in Agents, StaffAdd(a)
    PROVE  Inv'
  <1> DEFINE row == NewReferral(a, NoOne, "under_review", TRUE, FALSE)
  <1>1. row \in Referral /\ row.cust = 0  BY DEF NewReferral, Referral, Statuses
  <1>2. referral' = Append(referral, row) /\ UNCHANGED <<customer, paid, event, batch>>
    BY DEF StaffAdd
  <1> HIDE DEF row
  <1>3. TablesTyped' /\ Grown  BY <1>1, <1>2, ReferralAdded DEF Inv
  <1>4. session' = session  BY DEF StaffAdd
  <1> QED  BY <1>3, <1>4, Stayed

LEMMA DetailOpens ==
    ASSUME Inv, NEW s \in Threads, NEW i \in 1 .. Len(referral), OpenDetail(s, i)
    PROVE  Inv'
  <1> DEFINE st == IF referral[i].status = "submitted" THEN "under_review" ELSE referral[i].status
             j  == [h |-> "open", id |-> i, status |-> st]
  <1>1. referral[i].status \in Statuses  BY TablesAre DEF Inv, Referral
  <1>2. st \in Statuses  BY <1>1 DEF Statuses
  <1>3. session' = [session EXCEPT ![s] = j] /\ UNCHANGED Tables  BY DEF OpenDetail, Begin
  <1> HIDE DEF st
  <1>4. i \in Nat  OBVIOUS
  <1>5. Typed(j, Len(referral), Len(customer), Len(event), Len(batch))  BY <1>2, <1>4 DEF Typed
  <1> HIDE DEF j
  <1> QED  BY <1>3, <1>5, Began

\* The rows the staff's handlers write: the status, and a stamp.
LEMMA DetailCommits ==
    ASSUME Inv, NEW s \in Threads, CommitDetail(s)
    PROVE  Inv'
  <1> DEFINE i   == session[s].id
             st  == session[s].status
             row == [referral[i] EXCEPT !.opened = TRUE, !.status = st]
  <1>1. st \in Statuses /\ i \in 1 .. Len(referral)
    <2>1. session[s].h = "open"  BY DEF CommitDetail, Doing
    <2>2. session[s] \in [h : {"open"}, id : Nat, status : Statuses] /\ session[s].id \in 1 .. Len(referral)
      BY <2>1, HeldIs, TypedIs
    <2> QED  BY <2>2
  <1>2. referral' = [referral EXCEPT ![i] = row] /\ UNCHANGED <<customer, paid, event, batch>>
    BY DEF CommitDetail
  <1>3. session' = [session EXCEPT ![s] = Idle]  BY DEF CommitDetail, End
  <1> HIDE DEF i, st
  <1>4. referral[i] \in Referral /\ referral[i].cust \in 0 .. Len(customer)
    BY <1>1, TablesAre DEF Inv, TablesTyped
  <1>5. row \in Referral /\ row.cust = referral[i].cust  BY <1>1, <1>4 DEF Referral
  <1> HIDE DEF row
  <1>6. TablesTyped' /\ Grown  BY <1>1, <1>2, <1>4, <1>5, ReferralSet DEF Inv
  <1> QED  BY <1>3, <1>6, IdleTyped, Moved

LEMMA DeclineKeeps ==
    ASSUME Inv, NEW i \in 1 .. Len(referral), Decline(i)
    PROVE  Inv'
  <1> DEFINE row == [referral[i] EXCEPT !.status = "declined"]
  <1>1. referral' = [referral EXCEPT ![i] = row] /\ UNCHANGED <<customer, paid, event, batch>>
    BY DEF Decline
  <1>2. session' = session  BY DEF Decline
  <1>3. referral[i] \in Referral /\ referral[i].cust \in 0 .. Len(customer)
    BY TablesAre DEF Inv, TablesTyped
  <1>4. row \in Referral /\ row.cust = referral[i].cust  BY <1>3 DEF Referral, Statuses
  <1> HIDE DEF row
  <1>5. TablesTyped' /\ Grown  BY <1>1, <1>3, <1>4, ReferralSet DEF Inv
  <1> QED  BY <1>2, <1>5, Stayed

LEMMA ReopenOpens ==
    ASSUME Inv, NEW s \in Threads, NEW i \in 1 .. Len(referral), OpenReopen(s, i)
    PROVE  Inv'
  <1> DEFINE j  == [h |-> "reopen", id |-> i]
  <1>1. session' = [session EXCEPT ![s] = j] /\ UNCHANGED Tables  BY DEF OpenReopen, Begin
  <1>2. i \in Nat  OBVIOUS
  <1>3. Typed(j, Len(referral), Len(customer), Len(event), Len(batch))  BY <1>2 DEF Typed
  <1> HIDE DEF j
  <1> QED  BY <1>1, <1>3, Began

LEMMA ReopenCommits ==
    ASSUME Inv, NEW s \in Threads, CommitReopen(s)
    PROVE  Inv'
  <1> DEFINE i   == session[s].id
             row == [referral[i] EXCEPT !.status = "under_review", !.reopened = TRUE]
  <1>1. i \in 1 .. Len(referral)
    <2>1. session[s].h = "reopen"  BY DEF CommitReopen, Doing
    <2> QED  BY <2>1, HeldIs, TypedIs
  <1>2. referral' = [referral EXCEPT ![i] = row] /\ UNCHANGED <<customer, paid, event, batch>>
    BY DEF CommitReopen
  <1>3. session' = [session EXCEPT ![s] = Idle]  BY DEF CommitReopen, End
  <1> HIDE DEF i
  <1>4. referral[i] \in Referral /\ referral[i].cust \in 0 .. Len(customer)
    BY <1>1, TablesAre DEF Inv, TablesTyped
  <1>5. row \in Referral /\ row.cust = referral[i].cust  BY <1>4 DEF Referral, Statuses
  <1> HIDE DEF row
  <1>6. TablesTyped' /\ Grown  BY <1>1, <1>2, <1>4, <1>5, ReferralSet DEF Inv
  <1> QED  BY <1>3, <1>6, IdleTyped, Moved

-----------------------------------------------------------------------------
(* Customers *)

LEMMA CustomerAdded ==
    ASSUME TablesTyped, NEW row \in Customer, row.from \in 0 .. Len(referral),
           customer' = Append(customer, row), paid' = Append(paid, 0), UNCHANGED <<event, batch>>,
           referral' \in Seq(Referral), Len(referral)' = Len(referral),
           \A k \in 1 .. Len(referral) : referral'[k].cust \in 0 .. Len(customer) + 1
    PROVE  /\ TablesTyped' /\ Grown /\ Len(customer)' = Len(customer) + 1
           /\ \A k \in 1 .. Len(customer) : customer'[k] = customer[k] /\ paid'[k] = paid[k]
           /\ customer'[Len(customer) + 1] = row
  <1>1. /\ Len(referral) \in Nat /\ Len(customer) \in Nat /\ Len(event) \in Nat /\ Len(batch) \in Nat
    BY TablesAre
  <1>2. customer \in Seq(Customer) /\ paid \in Seq(Int) /\ Len(paid) = Len(customer)  BY DEF TablesTyped
  <1>3. /\ customer' \in Seq(Customer) /\ Len(customer)' = Len(customer) + 1
        /\ \A k \in 1 .. Len(customer) : customer'[k] = customer[k]
        /\ customer'[Len(customer) + 1] = row
    BY <1>2, SeqAdd
  <1>4. /\ paid' \in Seq(Int) /\ Len(paid)' = Len(paid) + 1
        /\ \A k \in 1 .. Len(paid) : paid'[k] = paid[k]
    BY <1>2, SeqAdd
  <1>5. ASSUME NEW c \in 1 .. Len(customer)' PROVE customer'[c].from \in 0 .. Len(referral)'
    <2>1. c \in 1 .. Len(customer) \/ c = Len(customer) + 1  BY <1>1, <1>3
    <2>2. CASE c \in 1 .. Len(customer)  BY <1>3, <2>2 DEF TablesTyped
    <2>3. CASE c = Len(customer) + 1  BY <1>3, <2>3
    <2> QED  BY <2>1, <2>2, <2>3
  <1>6. ASSUME NEW e \in 1 .. Len(event)'
        PROVE  event'[e].cust \in 1 .. Len(customer)' /\ event'[e].batch \in 0 .. Len(batch)'
    <2>1. event[e].cust \in 1 .. Len(customer) /\ event[e].batch \in 0 .. Len(batch)  BY DEF TablesTyped
    <2> QED  BY <1>1, <1>3, <2>1
  <1>7. event \in Seq(Event) /\ batch \in Seq(Batch)  BY DEF TablesTyped
  <1>8. Len(paid)' = Len(customer)'  BY <1>2, <1>3, <1>4
  <1>9. \A k \in 1 .. Len(referral)' : referral'[k].cust \in 0 .. Len(customer)'  BY <1>3
  <1>10. TablesTyped'  BY <1>3, <1>4, <1>5, <1>6, <1>7, <1>8, <1>9 DEF TablesTyped
  <1>11. \A k \in 1 .. Len(customer) : paid'[k] = paid[k]  BY <1>2, <1>4
  <1>12. Grown  BY <1>1, <1>3 DEF Grown
  <1> QED  BY <1>3, <1>10, <1>11, <1>12

LEMMA CustomerSet ==
    ASSUME TablesTyped, NEW c \in 1 .. Len(customer), NEW row \in Customer, row.from = customer[c].from,
           customer' = [customer EXCEPT ![c] = row], UNCHANGED <<referral, paid, event, batch>>
    PROVE  /\ TablesTyped' /\ Grown /\ Len(customer)' = Len(customer)
           /\ \A k \in 1 .. Len(customer) : customer'[k] = IF k = c THEN row ELSE customer[k]
  <1>1. /\ Len(referral) \in Nat /\ Len(customer) \in Nat /\ Len(event) \in Nat /\ Len(batch) \in Nat
    BY TablesAre
  <1>2. customer \in Seq(Customer)  BY DEF TablesTyped
  <1>3. /\ customer' \in Seq(Customer) /\ Len(customer)' = Len(customer)
        /\ \A k \in 1 .. Len(customer) : customer'[k] = IF k = c THEN row ELSE customer[k]
    BY <1>2, SeqWrite
  <1>4. ASSUME NEW k \in 1 .. Len(customer)' PROVE customer'[k].from \in 0 .. Len(referral)'
    BY <1>3 DEF TablesTyped
  <1>5. TablesTyped'  BY <1>3, <1>4 DEF TablesTyped
  <1> QED  BY <1>1, <1>3, <1>5 DEF Grown

LEMMA CustomerOpens ==
    ASSUME Inv, NEW s \in Threads, NEW i \in {0} \cup (1 .. Len(referral)), NEW phone \in Phones,
           NEW a \in Agents \cup {NoOne}, NEW installed \in BOOLEAN,
           OpenCustomer(s, i, phone, a, installed)
    PROVE  Inv'
  <1> DEFINE n == IF installed THEN 0 ELSE i
             g == IF a # NoOne \/ i = 0 \/ installed THEN a ELSE referral[i].agent
             j == [h |-> "convert", id |-> n, phone |-> phone, agent |-> g]
  <1>1. Len(referral) \in Nat  BY TablesAre DEF Inv
  <1>2. n \in 0 .. Len(referral) /\ n \in Nat  BY <1>1
  <1>3. g \in Agents \cup {NoOne}
    <2>1. CASE i = 0  BY <2>1
    <2>2. CASE i \in 1 .. Len(referral)
      <3>1. referral[i].agent \in Agents  BY <2>2, TablesAre DEF Inv, Referral
      <3> QED  BY <3>1
    <2> QED  BY <2>1, <2>2
  <1>4. session' = [session EXCEPT ![s] = j] /\ UNCHANGED Tables  BY DEF OpenCustomer, Begin
  <1> HIDE DEF n, g
  <1>5. Typed(j, Len(referral), Len(customer), Len(event), Len(batch))  BY <1>2, <1>3 DEF Typed
  <1> HIDE DEF j
  <1> QED  BY <1>4, <1>5, Began

\* What a conversion writes, when it does.
LEMMA ConversionIs ==
    ASSUME Inv, NEW s \in Threads, CommitCustomer(s)
    PROVE  /\ session[s].h = "convert" /\ session[s].id \in 0 .. Len(referral)
           /\ session' = [session EXCEPT ![s] = Idle]
           /\ UNCHANGED <<event, batch>> /\ TablesTyped' /\ Grown
           /\ \/ UNCHANGED Tables
              \/ /\ session[s].id # 0 => Convertible(referral[session[s].id])
                 /\ Len(customer)' = Len(customer) + 1
                 /\ \A k \in 1 .. Len(customer) : customer'[k] = customer[k] /\ paid'[k] = paid[k]
                 /\ customer'[Len(customer) + 1].from = session[s].id
                 /\ Len(referral)' = Len(referral)
                 /\ \A k \in 1 .. Len(referral) :
                       /\ k # session[s].id => referral'[k] = referral[k]
                       /\ k = session[s].id =>
                             referral'[k].status = "converted" /\ referral'[k].reopened = referral[k].reopened
  <1> DEFINE j == session[s]
  <1>1. /\ j \in [h : {"convert"}, id : Nat, phone : Phones, agent : Agents \cup {NoOne}]
        /\ j.id \in 0 .. Len(referral) /\ j.h = "convert"
    <2>1. session[s].h = "convert"  BY DEF CommitCustomer, Doing
    <2> QED  BY <2>1, HeldIs, TypedIs
  <1>2. session' = [session EXCEPT ![s] = Idle]  BY DEF CommitCustomer, End
  <1>3. /\ Len(referral) \in Nat /\ Len(customer) \in Nat /\ Len(event) \in Nat /\ Len(batch) \in Nat
    BY TablesAre DEF Inv
  <1>4. CASE UNCHANGED Tables
    <2>1. TablesTyped'
      <3>1. TablesTyped  BY DEF Inv
      <3> QED  BY <1>4, <3>1 DEF TablesTyped, Tables
    <2>2. Grown  BY <1>3, <1>4 DEF Grown, Tables
    <2>3. UNCHANGED <<event, batch>>  BY <1>4 DEF Tables
    <2> QED  BY <1>1, <1>2, <1>4, <2>1, <2>2, <2>3
  <1>5. CASE ~(UNCHANGED Tables)
    <2> DEFINE row == [phone |-> j.phone, agent |-> j.agent, original |-> j.agent, from |-> j.id,
                       closed |-> FALSE, moved |-> FALSE]
               ref == [referral[j.id] EXCEPT !.status = "converted", !.cust = Len(customer) + 1]
    <2>1. ~(j.id # 0 /\ ~Convertible(referral[j.id]))  BY <1>5 DEF CommitCustomer
    <2>2. /\ customer' = Append(customer, row) /\ paid' = Append(paid, 0)
          /\ referral' = IF j.id = 0 THEN referral ELSE [referral EXCEPT ![j.id] = ref]
          /\ UNCHANGED <<event, batch>>
      BY <2>1 DEF CommitCustomer
    <2>3. row \in Customer /\ row.from = j.id  BY <1>1 DEF Customer
    <2>4. j.id # 0 => j.id \in 1 .. Len(referral)  BY <1>1, <1>3
    <2>5. j.id # 0 => ref \in Referral /\ ref.cust = Len(customer) + 1 /\ ref.status = "converted"
                      /\ ref.reopened = referral[j.id].reopened
      <3>1. j.id # 0 => referral[j.id] \in Referral  BY <2>4, TablesAre DEF Inv
      <3>2. Len(customer) + 1 \in Nat  BY <1>3
      <3> QED  BY <3>1, <3>2 DEF Referral, Statuses
    <2> HIDE DEF row, ref, j
    <2>6. referral \in Seq(Referral)  BY DEF Inv, TablesTyped
    <2>7. /\ referral' \in Seq(Referral) /\ Len(referral)' = Len(referral)
          /\ \A k \in 1 .. Len(referral) :
                referral'[k] = IF j.id # 0 /\ k = j.id THEN ref ELSE referral[k]
      <3>1. CASE j.id = 0  BY <2>2, <2>6, <3>1
      <3>2. CASE j.id # 0
        <4>1. referral' = [referral EXCEPT ![j.id] = ref]  BY <2>2, <3>2
        <4>2. j.id \in 1 .. Len(referral) /\ ref \in Referral  BY <2>4, <2>5, <3>2
        <4>3. /\ referral' \in Seq(Referral) /\ Len(referral)' = Len(referral)
              /\ \A k \in 1 .. Len(referral) : referral'[k] = IF k = j.id THEN ref ELSE referral[k]
          BY <2>6, <4>1, <4>2, SeqWrite
        <4> QED  BY <3>2, <4>3
      <3> QED  BY <3>1, <3>2
    <2>8. \A k \in 1 .. Len(referral) : referral'[k].cust \in 0 .. Len(customer) + 1
      <3> SUFFICES ASSUME NEW k \in 1 .. Len(referral) PROVE referral'[k].cust \in 0 .. Len(customer) + 1
        OBVIOUS
      <3>1. CASE j.id # 0 /\ k = j.id
        <4>1. referral'[k] = ref /\ ref.cust = Len(customer) + 1  BY <2>5, <2>7, <3>1
        <4> QED  BY <1>3, <4>1
      <3>2. CASE ~(j.id # 0 /\ k = j.id)
        <4>1. referral'[k] = referral[k]  BY <2>7, <3>2
        <4>2. referral[k].cust \in 0 .. Len(customer)  BY DEF Inv, TablesTyped
        <4> QED  BY <1>3, <4>1, <4>2
      <3> QED  BY <3>1, <3>2
    <2>9. /\ TablesTyped' /\ Grown /\ Len(customer)' = Len(customer) + 1
          /\ \A k \in 1 .. Len(customer) : customer'[k] = customer[k] /\ paid'[k] = paid[k]
          /\ customer'[Len(customer) + 1] = row
      <3>1. row.from \in 0 .. Len(referral)  BY <1>1, <2>3
      <3>2. TablesTyped  BY DEF Inv
      <3> QED  BY <2>2, <2>3, <2>7, <2>8, <3>1, <3>2, CustomerAdded
    <2>10. customer'[Len(customer) + 1].from = j.id  BY <2>3, <2>9
    <2>11. \A k \in 1 .. Len(referral) :
              /\ k # j.id => referral'[k] = referral[k]
              /\ k = j.id => referral'[k].status = "converted" /\ referral'[k].reopened = referral[k].reopened
      <3> SUFFICES ASSUME NEW k \in 1 .. Len(referral)
                   PROVE  /\ k # j.id => referral'[k] = referral[k]
                          /\ k = j.id => referral'[k].status = "converted" /\ referral'[k].reopened = referral[k].reopened
        OBVIOUS
      <3>1. k # 0  OBVIOUS
      <3> QED  BY <2>5, <2>7, <3>1
    <2> QED  BY <1>1, <1>2, <2>1, <2>2, <2>7, <2>9, <2>10, <2>11 DEF j
  <1> QED  BY <1>4, <1>5

LEMMA CustomerCommits ==
    ASSUME Inv, NEW s \in Threads, CommitCustomer(s)
    PROVE  Inv'
  <1>1. session' = [session EXCEPT ![s] = Idle] /\ TablesTyped' /\ Grown  BY ConversionIs
  <1> QED  BY <1>1, IdleTyped, Moved

LEMMA ReassignKeeps ==
    ASSUME Inv, NEW c \in 1 .. Len(customer), NEW a \in Agents \cup {NoOne}, Reassign(c, a)
    PROVE  Inv'
  <1> DEFINE row == [customer[c] EXCEPT !.agent = a]
  <1>1. customer[c] \in Customer  BY TablesAre DEF Inv
  <1>2. row \in Customer /\ row.from = customer[c].from  BY <1>1 DEF Customer
  <1>3. customer' = [customer EXCEPT ![c] = row] /\ UNCHANGED <<referral, paid, event, batch>>
    BY DEF Reassign
  <1>4. session' = session  BY DEF Reassign
  <1> HIDE DEF row
  <1>5. TablesTyped' /\ Grown  BY <1>2, <1>3, CustomerSet DEF Inv
  <1> QED  BY <1>4, <1>5, Stayed

LEMMA CloseKeeps ==
    ASSUME Inv, NEW c \in 1 .. Len(customer), CloseInstall(c)
    PROVE  Inv'
  <1> DEFINE row == [customer[c] EXCEPT !.closed = TRUE]
  <1>1. customer[c] \in Customer  BY TablesAre DEF Inv
  <1>2. row \in Customer /\ row.from = customer[c].from  BY <1>1 DEF Customer
  <1>3. customer' = [customer EXCEPT ![c] = row] /\ UNCHANGED <<referral, paid, event, batch>>
    BY DEF CloseInstall
  <1>4. session' = session  BY DEF CloseInstall
  <1> HIDE DEF row
  <1>5. TablesTyped' /\ Grown  BY <1>2, <1>3, CustomerSet DEF Inv
  <1> QED  BY <1>4, <1>5, Stayed

-----------------------------------------------------------------------------
(* Payments *)

LEMMA JobIs ==
    ASSUME TablesTyped, NEW c \in 1 .. Len(customer), NEW h, NEW d, NEW amount, NEW net \in Int,
           NEW j, j = Job(h, c, d, amount, net)
    PROVE  /\ j.h = h /\ j.cust = c /\ j.left = d /\ j.amount = amount
           /\ j.agent = AgentOf(c) /\ j.id = EventOf(c) /\ j.known = Known(c)
           /\ j.verdict = Verdict(c, Known(c), net)
           /\ j.agent \in Agents \cup {NoOne} /\ j.id \in Nat /\ j.known \in Event \cup {NoEvent}
           /\ j.verdict \in Verdicts /\ Fits(j, Len(customer), Len(event), Len(batch))
  <1>1. /\ j.h = h /\ j.cust = c /\ j.left = d /\ j.amount = amount
        /\ j.agent = AgentOf(c) /\ j.id = EventOf(c) /\ j.known = Known(c)
        /\ j.verdict = Verdict(c, Known(c), net)
    BY DEF Job
  <1>2. j.agent \in Agents \cup {NoOne} /\ j.id \in Nat /\ j.known \in Event \cup {NoEvent}
    BY <1>1, AgentIs, EventIs
  <1>3. /\ j.verdict \in Verdicts
        /\ j.verdict # "nothing" => AgentOf(c) \in Agents
        /\ j.verdict \in {"revoke", "requalify"} => EventsOf(c) # {}
    BY <1>1, VerdictIs
  <1>4. j.verdict \in {"revoke", "requalify"} =>
            j.id \in 1 .. Len(event) /\ j.known = event[j.id] /\ j.known \in Event
    BY <1>1, <1>3, EventIs
  <1>5. j.verdict = "requalify" => j.known.cust \in 1 .. Len(customer) /\ j.known.batch \in 0 .. Len(batch)
    BY <1>4 DEF TablesTyped
  <1>6. Fits(j, Len(customer), Len(event), Len(batch))  BY <1>1, <1>3, <1>4, <1>5 DEF Fits
  <1> QED  BY <1>1, <1>2, <1>3, <1>6

LEMMA PayTyped ==
    ASSUME TablesTyped, NEW c \in 1 .. Len(customer), NEW h \in {"pay", "transfer"}, NEW d \in Nat,
           h = "transfer" => d \in 1 .. Len(customer), NEW amount \in Nat, NEW net \in Int
    PROVE  Typed(Job(h, c, d, amount, net), Len(referral), Len(customer), Len(event), Len(batch))
  <1> DEFINE j == Job(h, c, d, amount, net)
  <1>1. /\ j.h = h /\ j.cust = c /\ j.left = d /\ j.amount = amount
        /\ j.agent \in Agents \cup {NoOne} /\ j.id \in Nat /\ j.known \in Event \cup {NoEvent}
        /\ j.verdict \in Verdicts /\ Fits(j, Len(customer), Len(event), Len(batch))
    <2> HIDE DEF j
    <2>1. j = Job(h, c, d, amount, net)  BY DEF j
    <2> QED  BY <2>1, JobIs
  <1>2. c \in Nat  OBVIOUS
  <1>3. j = [h |-> j.h, cust |-> j.cust, left |-> j.left, amount |-> j.amount, agent |-> j.agent,
             id |-> j.id, known |-> j.known, verdict |-> j.verdict]
    BY DEF Job
  <1> HIDE DEF j
  <1>4. j \in PayJob  BY <1>1, <1>2, <1>3 DEF PayJob
  <1>5. Typed(j, Len(referral), Len(customer), Len(event), Len(batch))  BY <1>1, <1>4 DEF Typed
  <1> QED  BY <1>5 DEF j

LEMMA NetIs ==
    ASSUME NEW x \in Int
    PROVE  Net(x) \in Int /\ (Net(x) >= Threshold <=> x >= Threshold)
  BY DEF Net, Threshold

LEMMA PayOpens ==
    ASSUME Inv, NEW s \in Threads, NEW c \in 1 .. Len(customer), NEW amount \in Months, OpenPay(s, c, amount)
    PROVE  Inv'
  <1> DEFINE j == Job("pay", c, 0, amount, Net(paid[c] + amount))
  <1>1. amount \in Nat  BY AgentAssumption
  <1>2. paid[c] + amount \in Int
    <2>1. paid[c] \in Int  BY TablesAre DEF Inv
    <2> QED  BY <1>1, <2>1
  <1>3. Net(paid[c] + amount) \in Int  BY <1>2, NetIs
  <1>4. session' = [session EXCEPT ![s] = j] /\ UNCHANGED Tables  BY DEF OpenPay, Begin
  <1>5. TablesTyped  BY DEF Inv
  <1>6. Typed(j, Len(referral), Len(customer), Len(event), Len(batch))  BY <1>1, <1>3, <1>5, PayTyped
  <1> HIDE DEF j
  <1> QED  BY <1>4, <1>6, Began

LEMMA TransferOpens ==
    ASSUME Inv, NEW s \in Threads, NEW c \in 1 .. Len(customer), NEW d \in 1 .. Len(customer),
           NEW amount \in Months, OpenTransfer(s, c, d, amount)
    PROVE  Inv'
  <1> DEFINE j == Job("transfer", c, d, amount, Net(paid[c] + amount))
  <1>1. amount \in Nat  BY AgentAssumption
  <1>2. paid[c] + amount \in Int
    <2>1. paid[c] \in Int  BY TablesAre DEF Inv
    <2> QED  BY <1>1, <2>1
  <1>3. Net(paid[c] + amount) \in Int  BY <1>2, NetIs
  <1>4. session' = [session EXCEPT ![s] = j] /\ UNCHANGED Tables  BY DEF OpenTransfer, Begin
  <1>5. TablesTyped /\ d \in Nat  BY DEF Inv
  <1>6. Typed(j, Len(referral), Len(customer), Len(event), Len(batch))  BY <1>1, <1>3, <1>5, PayTyped
  <1> HIDE DEF j
  <1> QED  BY <1>4, <1>6, Began

\* The tables after a verdict is carried out.
LEMMA LedgerStep ==
    ASSUME TablesTyped, NEW j, j.verdict \in Verdicts, j.cust \in Nat,
           Fits(j, Len(customer), Len(event), Len(batch)), event' = Evaluated(j),
           UNCHANGED <<referral, batch>>, customer' \in Seq(Customer), Len(customer)' = Len(customer),
           \A k \in 1 .. Len(customer) : customer'[k].from = customer[k].from,
           paid' \in Seq(Int), Len(paid)' = Len(paid)
    PROVE  TablesTyped' /\ Grown
  <1>1. /\ Len(referral) \in Nat /\ Len(customer) \in Nat /\ Len(event) \in Nat /\ Len(batch) \in Nat
    BY TablesAre
  <1> DEFINE ev == Evaluated(j)
  <1>2. /\ ev \in Seq(Event)
        /\ Len(ev) = IF j.verdict = "create" THEN Len(event) + 1 ELSE Len(event)
        /\ \A i \in 1 .. Len(event) : ev[i] =
              IF j.verdict = "revoke" /\ i = j.id THEN [event[i] EXCEPT !.status = "revoked"]
              ELSE IF j.verdict = "requalify" /\ i = j.id THEN [j.known EXCEPT !.status = "qualified"]
              ELSE event[i]
        /\ j.verdict = "create" => ev[Len(event) + 1] = [cust |-> j.cust, agent |-> j.agent,
                                                         status |-> "qualified", batch |-> 0]
    BY EvaluatedIs
  <1> HIDE DEF ev
  <1>3. ASSUME NEW i \in 1 .. Len(ev)
        PROVE  ev[i].cust \in 1 .. Len(customer) /\ ev[i].batch \in 0 .. Len(batch)
    <2>1. i \in 1 .. Len(event) \/ (i = Len(event) + 1 /\ j.verdict = "create")  BY <1>1, <1>2
    <2>2. CASE i \in 1 .. Len(event)
      <3>1. event[i] \in Event /\ event[i].cust \in 1 .. Len(customer) /\ event[i].batch \in 0 .. Len(batch)
        BY <2>2, TablesAre DEF TablesTyped
      <3>2. CASE j.verdict = "revoke" /\ i = j.id
        <4>1. ev[i] = [event[i] EXCEPT !.status = "revoked"]  BY <1>2, <2>2, <3>2
        <4>2. ev[i].cust = event[i].cust /\ ev[i].batch = event[i].batch  BY <3>1, <4>1 DEF Event
        <4> QED  BY <3>1, <4>2
      <3>3. CASE j.verdict = "requalify" /\ i = j.id
        <4>1. j.known \in Event /\ j.known.cust \in 1 .. Len(customer) /\ j.known.batch \in 0 .. Len(batch)
          BY <3>3 DEF Fits
        <4>2. ev[i] = [j.known EXCEPT !.status = "qualified"]  BY <1>2, <2>2, <3>3
        <4>3. ev[i].cust = j.known.cust /\ ev[i].batch = j.known.batch  BY <4>1, <4>2 DEF Event
        <4> QED  BY <4>1, <4>3
      <3>4. CASE ~(j.verdict = "revoke" /\ i = j.id) /\ ~(j.verdict = "requalify" /\ i = j.id)
        <4>1. ev[i] = event[i]  BY <1>2, <2>2, <3>4
        <4> QED  BY <3>1, <4>1
      <3> QED  BY <3>2, <3>3, <3>4
    <2>3. CASE i = Len(event) + 1 /\ j.verdict = "create"
      <3>1. ev[i] = [cust |-> j.cust, agent |-> j.agent, status |-> "qualified", batch |-> 0]
        BY <1>2, <2>3
      <3>2. ev[i].cust = j.cust /\ ev[i].batch = 0  BY <3>1
      <3>3. j.cust \in 1 .. Len(customer)  BY DEF Fits
      <3> QED  BY <1>1, <3>2, <3>3
    <2> QED  BY <2>1, <2>2, <2>3
  <1>4. event' = ev  BY DEF ev
  <1>5. Len(paid)' = Len(customer)'  BY DEF TablesTyped
  <1>6. \A c \in 1 .. Len(customer)' : customer'[c].from \in 0 .. Len(referral)'  BY DEF TablesTyped
  <1>7. TablesTyped'  BY <1>2, <1>3, <1>4, <1>5, <1>6 DEF TablesTyped
  <1>8. Len(event)' >= Len(event)  BY <1>1, <1>2, <1>4
  <1> QED  BY <1>1, <1>7, <1>8 DEF Grown

LEMMA PayCommits ==
    ASSUME Inv, NEW s \in Threads, CommitPay(s)
    PROVE  Inv'
  <1> DEFINE j   == session[s]
             sum == paid[j.cust] + j.amount
  <1>1. j \in PayJob /\ Fits(j, Len(customer), Len(event), Len(batch))
    <2>1. session[s].h = "pay"  BY DEF CommitPay, Doing
    <2> QED  BY <2>1, HeldIs, TypedIs
  <1>2. /\ paid' = [paid EXCEPT ![j.cust] = sum] /\ event' = Evaluated(j)
        /\ UNCHANGED <<referral, customer, batch>>
    BY DEF CommitPay
  <1>3. session' = [session EXCEPT ![s] = Idle]  BY DEF CommitPay, End
  <1> HIDE DEF j
  <1>4. TablesTyped  BY DEF Inv
  <1>5. j.cust \in 1 .. Len(customer) /\ j.verdict \in Verdicts /\ j.cust \in Nat /\ j.amount \in Nat
    BY <1>1 DEF Fits, PayJob
  <1>6. sum \in Int
    <2>1. paid[j.cust] \in Int  BY <1>4, <1>5, TablesAre
    <2> QED  BY <1>5, <2>1
  <1> HIDE DEF sum
  <1>7. paid \in Seq(Int) /\ Len(paid) = Len(customer) /\ customer \in Seq(Customer)
    BY <1>4 DEF TablesTyped
  <1>8. paid' \in Seq(Int) /\ Len(paid)' = Len(paid)  BY <1>2, <1>5, <1>6, <1>7, SeqWrite
  <1>9. /\ UNCHANGED <<referral, batch>> /\ customer' \in Seq(Customer) /\ Len(customer)' = Len(customer)
        /\ \A k \in 1 .. Len(customer) : customer'[k].from = customer[k].from
    BY <1>2, <1>7
  <1>10. event' = Evaluated(j)  BY <1>2
  <1>11. TablesTyped' /\ Grown  BY <1>1, <1>4, <1>5, <1>8, <1>9, <1>10, LedgerStep
  <1> QED  BY <1>3, <1>11, IdleTyped, Moved

\* What a transfer writes.
LEMMA TransferIs ==
    ASSUME Inv, NEW s \in Threads, CommitTransfer(s), NEW j, j = session[s]
    PROVE  /\ j.h = "transfer" /\ j \in PayJob /\ Fits(j, Len(customer), Len(event), Len(batch))
           /\ j.cust \in 1 .. Len(customer) /\ j.left \in 1 .. Len(customer)
           /\ session' = [session EXCEPT ![s] = Idle]
           /\ event' = Evaluated(j) /\ UNCHANGED <<referral, batch>>
           /\ customer' \in Seq(Customer) /\ Len(customer)' = Len(customer)
           /\ \A k \in 1 .. Len(customer) : customer'[k] =
                 IF k = j.left THEN [customer[k] EXCEPT !.moved = TRUE] ELSE customer[k]
           /\ paid' \in Seq(Int) /\ Len(paid)' = Len(paid)
           /\ \A k \in 1 .. Len(customer) : k # j.left => paid'[k] >= paid[k]
           /\ j.left # j.cust => paid'[j.cust] = paid[j.cust] + j.amount
  <1>1. /\ j.h = "transfer" /\ j \in PayJob /\ Fits(j, Len(customer), Len(event), Len(batch))
        /\ j.left \in 1 .. Len(customer)
    <2>1. session[s].h = "transfer"  BY DEF CommitTransfer, Doing
    <2> QED  BY <2>1, HeldIs, TypedIs
  <1> DEFINE row == [customer[j.left] EXCEPT !.moved = TRUE]
             sum == paid[j.cust] + j.amount
             mid == [paid EXCEPT ![j.cust] = sum]
             low == paid[j.left] - j.amount
  <1>2. session' = [session EXCEPT ![s] = Idle] /\ event' = Evaluated(j) /\ UNCHANGED <<referral, batch>>
    BY DEF CommitTransfer, End
  <1>3. customer' = [customer EXCEPT ![j.left] = row]  BY DEF CommitTransfer
  <1>4. paid' = [mid EXCEPT ![j.left] = low]  BY DEF CommitTransfer
  <1>5. TablesTyped  BY DEF Inv
  <1>6. j.cust \in 1 .. Len(customer) /\ j.amount \in Nat  BY <1>1 DEF Fits, PayJob
  <1>7. customer[j.left] \in Customer  BY <1>1, <1>5, TablesAre
  <1>8. row \in Customer  BY <1>7 DEF Customer
  <1>9. \A k \in 1 .. Len(customer) : k = j.left => [customer[k] EXCEPT !.moved = TRUE] = row  OBVIOUS
  <1> HIDE DEF row
  <1>10. paid \in Seq(Int) /\ Len(paid) = Len(customer) /\ customer \in Seq(Customer)
    BY <1>5 DEF TablesTyped
  <1>11. /\ customer' \in Seq(Customer) /\ Len(customer)' = Len(customer)
         /\ \A k \in 1 .. Len(customer) : customer'[k] = IF k = j.left THEN row ELSE customer[k]
    BY <1>1, <1>3, <1>8, <1>10, SeqWrite
  <1>12. \A k \in 1 .. Len(customer) : paid[k] \in Int  BY <1>5, TablesAre
  <1>13. sum \in Int  BY <1>6, <1>12
  <1>14. sum >= paid[j.cust]  BY <1>6, <1>12
  <1>15. sum = paid[j.cust] + j.amount  OBVIOUS
  <1> HIDE DEF sum
  <1>16. /\ mid \in Seq(Int) /\ Len(mid) = Len(paid)
         /\ \A k \in 1 .. Len(paid) : mid[k] = IF k = j.cust THEN sum ELSE paid[k]
    BY <1>6, <1>10, <1>13, SeqWrite
  <1> HIDE DEF mid
  <1>17. low \in Int
    <2>1. paid[j.left] \in Int  BY <1>1, <1>12
    <2> QED  BY <1>6, <2>1
  <1> HIDE DEF low
  <1>18. /\ paid' \in Seq(Int) /\ Len(paid)' = Len(paid)
         /\ \A k \in 1 .. Len(paid) : paid'[k] = IF k = j.left THEN low ELSE mid[k]
    BY <1>1, <1>4, <1>10, <1>16, <1>17, SeqWrite
  <1>19. ASSUME NEW k \in 1 .. Len(customer), k # j.left PROVE paid'[k] >= paid[k]
    <2>1. paid'[k] = IF k = j.cust THEN sum ELSE paid[k]  BY <1>10, <1>16, <1>18, <1>19
    <2>2. paid[k] \in Int  BY <1>12
    <2> QED  BY <1>14, <2>1, <2>2
  <1>20. j.left # j.cust => paid'[j.cust] = paid[j.cust] + j.amount
    BY <1>6, <1>10, <1>15, <1>16, <1>18
  <1>21. \A k \in 1 .. Len(customer) : customer'[k] =
            IF k = j.left THEN [customer[k] EXCEPT !.moved = TRUE] ELSE customer[k]
    BY <1>9, <1>11
  <1> QED  BY <1>1, <1>2, <1>6, <1>11, <1>18, <1>19, <1>20, <1>21

LEMMA TransferCommits ==
    ASSUME Inv, NEW s \in Threads, CommitTransfer(s)
    PROVE  Inv'
  <1> DEFINE j == session[s]
  <1>0. j = session[s]  OBVIOUS
  <1> HIDE DEF j
  <1>1. /\ j \in PayJob /\ Fits(j, Len(customer), Len(event), Len(batch))
        /\ session' = [session EXCEPT ![s] = Idle]
        /\ event' = Evaluated(j) /\ UNCHANGED <<referral, batch>>
        /\ customer' \in Seq(Customer) /\ Len(customer)' = Len(customer)
        /\ \A k \in 1 .. Len(customer) : customer'[k] =
              IF k = j.left THEN [customer[k] EXCEPT !.moved = TRUE] ELSE customer[k]
        /\ paid' \in Seq(Int) /\ Len(paid)' = Len(paid)
    BY SMTT(30), <1>0, TransferIs
  <1>2. TablesTyped  BY DEF Inv
  <1>3. \A k \in 1 .. Len(customer) : customer'[k].from = customer[k].from
    <2> SUFFICES ASSUME NEW k \in 1 .. Len(customer) PROVE customer'[k].from = customer[k].from  OBVIOUS
    <2>1. customer[k] \in Customer  BY <1>2, TablesAre
    <2>2. [customer[k] EXCEPT !.moved = TRUE].from = customer[k].from  BY <2>1 DEF Customer
    <2> QED  BY <1>1, <2>2
  <1>4. j.cust \in Nat /\ j.verdict \in Verdicts  BY <1>1 DEF PayJob
  <1>5. TablesTyped' /\ Grown  BY <1>1, <1>2, <1>3, <1>4, LedgerStep
  <1> QED  BY <1>1, <1>5, IdleTyped, Moved

LEMMA PostOpens ==
    ASSUME Inv, NEW s \in Threads, NEW h \in Posting, NEW c \in 1 .. Len(customer), NEW delta \in Int,
           NEW rounds \in Nat \ {0}, Post(s, h, c, delta, rounds)
    PROVE  Inv'
  <1> DEFINE sum == paid[c] + delta
             j   == [h |-> h, todo |-> rounds, cust |-> c]
  <1>1. paid' = [paid EXCEPT ![c] = sum] /\ UNCHANGED <<referral, customer, event, batch>>
    BY DEF Post
  <1>2. session' = [session EXCEPT ![s] = j]  BY DEF Post
  <1>3. TablesTyped  BY DEF Inv
  <1>4. sum \in Int
    <2>1. paid[c] \in Int  BY <1>3, TablesAre
    <2> QED  BY <2>1
  <1> HIDE DEF sum
  <1>5. paid \in Seq(Int) /\ Len(paid) = Len(customer)  BY <1>3 DEF TablesTyped
  <1>6. paid' \in Seq(Int) /\ Len(paid)' = Len(paid)  BY <1>1, <1>4, <1>5, SeqWrite
  <1>7. TablesTyped'  BY <1>1, <1>3, <1>6 DEF TablesTyped
  <1>8. /\ Len(referral) \in Nat /\ Len(customer) \in Nat /\ Len(event) \in Nat /\ Len(batch) \in Nat
    BY <1>3, TablesAre
  <1>9. Grown  BY <1>1, <1>8 DEF Grown
  <1>10. c \in Nat /\ Len(customer)' = Len(customer)  BY <1>1
  <1>11. j \in [h : Posting, todo : Nat \ {0}, cust : Nat] /\ j.cust \in 1 .. Len(customer)'  BY <1>10
  <1> HIDE DEF j
  <1>12. Typed(j, Len(referral)', Len(customer)', Len(event)', Len(batch)')  BY <1>11 DEF Typed
  <1> QED  BY <1>2, <1>7, <1>9, <1>12, Moved

\* What a refund or a correction is about to write.
LEMMA ReadingIs ==
    ASSUME Inv, NEW s \in Threads, ReadLedger(s), NEW j, j = session[s],
           NEW k, k = Job(j.h, j.cust, 0, 0, Net(paid[j.cust]))
    PROVE  /\ j.h \in Posting /\ j.cust \in 1 .. Len(customer) /\ j.todo \in Nat \ {0}
           /\ Net(paid[j.cust]) \in Int
           /\ UNCHANGED Tables
           /\ session' = [session EXCEPT ![s] =
                 [h |-> j.h, todo |-> j.todo - 1, cust |-> j.cust,
                  agent |-> k.agent, id |-> k.id, known |-> k.known, verdict |-> k.verdict]]
           /\ k.cust = j.cust /\ k.agent = AgentOf(j.cust) /\ k.id = EventOf(j.cust)
           /\ k.known = Known(j.cust) /\ k.verdict = Verdict(j.cust, Known(j.cust), Net(paid[j.cust]))
           /\ k.agent \in Agents \cup {NoOne} /\ k.id \in Nat /\ k.known \in Event \cup {NoEvent}
           /\ k.verdict \in Verdicts /\ Fits(k, Len(customer), Len(event), Len(batch))
  <1>1. j.h \in Posting /\ j.cust \in 1 .. Len(customer) /\ j.todo \in Nat \ {0}
    <2>1. session[s].h \in Posting /\ "verdict" \notin DOMAIN session[s]
      BY DEF ReadLedger, Reading, Posting
    <2>2. j.cust \in 1 .. Len(customer) /\ j.todo \in Nat /\ j.todo # 0  BY <2>1, HeldIs, TypedIs
    <2> QED  BY <2>1, <2>2
  <1>2. TablesTyped  BY DEF Inv
  <1>3. Net(paid[j.cust]) \in Int
    <2>1. paid[j.cust] \in Int  BY <1>1, <1>2, TablesAre
    <2> QED  BY <2>1, NetIs
  <1>4. UNCHANGED Tables  BY DEF ReadLedger
  <1>5. session' = [session EXCEPT ![s] =
            [h |-> j.h, todo |-> j.todo - 1, cust |-> j.cust,
             agent |-> k.agent, id |-> k.id, known |-> k.known, verdict |-> k.verdict]]
    BY DEF ReadLedger
  <1>6. /\ k.cust = j.cust /\ k.agent = AgentOf(j.cust) /\ k.id = EventOf(j.cust)
        /\ k.known = Known(j.cust) /\ k.verdict = Verdict(j.cust, Known(j.cust), Net(paid[j.cust]))
        /\ k.agent \in Agents \cup {NoOne} /\ k.id \in Nat /\ k.known \in Event \cup {NoEvent}
        /\ k.verdict \in Verdicts /\ Fits(k, Len(customer), Len(event), Len(batch))
    BY <1>1, <1>2, <1>3, JobIs
  <1> QED  BY <1>1, <1>3, <1>4, <1>5, <1>6

LEMMA ReadCommits ==
    ASSUME Inv, NEW s \in Threads, ReadLedger(s)
    PROVE  Inv'
  <1> DEFINE j == session[s]
             k == Job(j.h, j.cust, 0, 0, Net(paid[j.cust]))
             n == [h |-> j.h, todo |-> j.todo - 1, cust |-> j.cust,
                   agent |-> k.agent, id |-> k.id, known |-> k.known, verdict |-> k.verdict]
  <1>1. j = session[s] /\ k = Job(j.h, j.cust, 0, 0, Net(paid[j.cust]))  OBVIOUS
  <1> HIDE DEF j, k
  <1>2. /\ j.h \in Posting /\ j.cust \in 1 .. Len(customer) /\ j.todo \in Nat \ {0}
        /\ UNCHANGED Tables /\ session' = [session EXCEPT ![s] = n]
        /\ k.cust = j.cust
        /\ k.agent \in Agents \cup {NoOne} /\ k.id \in Nat /\ k.known \in Event \cup {NoEvent}
        /\ k.verdict \in Verdicts /\ Fits(k, Len(customer), Len(event), Len(batch))
    BY SMTT(30), <1>1, ReadingIs
  <1>3. j.todo - 1 \in Nat /\ j.cust \in Nat  BY <1>2
  <1>4. n \in PostJob  BY <1>2, <1>3 DEF PostJob
  <1>5. Fits(n, Len(customer), Len(event), Len(batch))  BY <1>2 DEF Fits
  <1> HIDE DEF n
  <1>6. Typed(n, Len(referral), Len(customer), Len(event), Len(batch))  BY <1>4, <1>5 DEF Typed
  <1> QED  BY <1>2, <1>6, Began

\* The write of a refund or a correction.
LEMMA WritingIs ==
    ASSUME Inv, NEW s \in Threads, WriteLedger(s), NEW j, j = session[s]
    PROVE  /\ j.h \in Posting /\ j \in PostJob /\ Fits(j, Len(customer), Len(event), Len(batch))
           /\ "verdict" \in DOMAIN j /\ j.cust \in 1 .. Len(customer) /\ j.verdict \in Verdicts
           /\ event' = Evaluated(j) /\ UNCHANGED <<referral, customer, paid, batch>>
           /\ session' = [session EXCEPT ![s] =
                 IF j.todo = 0 THEN Idle ELSE [h |-> j.h, todo |-> j.todo, cust |-> j.cust]]
  <1>1. session[s].h \in Posting /\ "verdict" \in DOMAIN session[s]
    BY DEF WriteLedger, Reading, Posting
  <1>2. j \in PostJob /\ Fits(j, Len(customer), Len(event), Len(batch)) /\ j.cust \in 1 .. Len(customer)
    BY <1>1, HeldIs, TypedIs
  <1>3. j.verdict \in Verdicts  BY <1>2 DEF PostJob
  <1>4. /\ event' = Evaluated(j) /\ UNCHANGED <<referral, customer, paid, batch>>
        /\ session' = [session EXCEPT ![s] =
              IF j.todo = 0 THEN Idle ELSE [h |-> j.h, todo |-> j.todo, cust |-> j.cust]]
    BY DEF WriteLedger
  <1> QED  BY <1>1, <1>2, <1>3, <1>4

LEMMA WriteCommits ==
    ASSUME Inv, NEW s \in Threads, WriteLedger(s)
    PROVE  Inv'
  <1> DEFINE j == session[s]
             n == IF j.todo = 0 THEN Idle ELSE [h |-> j.h, todo |-> j.todo, cust |-> j.cust]
  <1>1. j = session[s]  OBVIOUS
  <1> HIDE DEF j
  <1>2. /\ j.h \in Posting /\ j \in PostJob /\ Fits(j, Len(customer), Len(event), Len(batch))
        /\ j.cust \in 1 .. Len(customer) /\ j.verdict \in Verdicts
        /\ event' = Evaluated(j) /\ UNCHANGED <<referral, customer, paid, batch>>
        /\ session' = [session EXCEPT ![s] = n]
    BY <1>1, WritingIs
  <1>3. TablesTyped  BY DEF Inv
  <1>4. /\ UNCHANGED <<referral, batch>> /\ customer' \in Seq(Customer) /\ Len(customer)' = Len(customer)
        /\ \A k \in 1 .. Len(customer) : customer'[k].from = customer[k].from
        /\ paid' \in Seq(Int) /\ Len(paid)' = Len(paid)
    BY <1>2, <1>3 DEF TablesTyped
  <1>5. j.cust \in Nat  BY <1>2
  <1>6. TablesTyped' /\ Grown  BY <1>2, <1>3, <1>4, <1>5, LedgerStep
  <1>7. j.todo \in Nat  BY <1>2 DEF PostJob
  <1>8. Typed(n, Len(referral)', Len(customer)', Len(event)', Len(batch)')
    <2>1. CASE j.todo = 0  BY <2>1 DEF Typed
    <2>2. CASE j.todo # 0
      <3>1. n \in [h : Posting, todo : Nat \ {0}, cust : Nat] /\ n.cust \in 1 .. Len(customer)'
        BY <1>2, <1>4, <1>5, <1>7, <2>2
      <3> QED  BY <3>1 DEF Typed
    <2> QED  BY <2>1, <2>2
  <1> HIDE DEF n
  <1> QED  BY <1>2, <1>6, <1>8, Moved

-----------------------------------------------------------------------------
(* Payouts *)

LEMMA BatchOpens ==
    ASSUME Inv, NEW s \in Threads, NEW a \in Agents, NEW n \in Nat, OpenBatch(s, a, n)
    PROVE  Inv'
  <1> DEFINE ev == Oldest(Unpaid(a), n)
             j  == [h |-> "batch", agent |-> a, size |-> n, events |-> ev]
  <1>1. session' = [session EXCEPT ![s] = j] /\ UNCHANGED Tables  BY DEF OpenBatch, Begin
  <1>2. ev \subseteq 1 .. Len(event)
    <2>1. DOMAIN event = 1 .. Len(event)  BY TablesAre DEF Inv
    <2>2. Unpaid(a) \subseteq 1 .. Len(event)  BY <2>1 DEF Unpaid
    <2> QED  BY <2>2 DEF Oldest
  <1> HIDE DEF ev
  <1>3. Len(event) \in Nat  BY TablesAre DEF Inv
  <1>4. ev \in SUBSET Nat  BY <1>2, <1>3
  <1>5. Typed(j, Len(referral), Len(customer), Len(event), Len(batch))  BY <1>2, <1>4 DEF Typed
  <1> HIDE DEF j
  <1> QED  BY <1>1, <1>5, Began

\* The tables after the payout handlers: customers and agents of the events stay.
LEMMA PayoutStep ==
    ASSUME TablesTyped, UNCHANGED <<referral, customer, paid>>, batch' \in Seq(Batch),
           Len(batch)' >= Len(batch), NEW f \in [1 .. Len(event) -> Event], event' = f,
           \A e \in 1 .. Len(event) :
              f[e].cust = event[e].cust /\ f[e].batch \in 0 .. Len(batch)'
    PROVE  TablesTyped' /\ Grown /\ Len(event)' = Len(event)
  <1>1. /\ Len(referral) \in Nat /\ Len(customer) \in Nat /\ Len(event) \in Nat /\ Len(batch) \in Nat
    BY TablesAre
  <1>2. event' \in Seq(Event) /\ Len(event') = Len(event)
    <2>1. f \in Seq(Event) /\ Len(f) = Len(event)  BY <1>1
    <2> QED  BY <2>1
  <1>3. \A e \in 1 .. Len(event)' : event'[e].cust \in 1 .. Len(customer)' /\ event'[e].batch \in 0 .. Len(batch)'
    BY <1>2 DEF TablesTyped
  <1>4. TablesTyped'  BY <1>2, <1>3 DEF TablesTyped
  <1> QED  BY <1>1, <1>2, <1>4 DEF Grown

\* What the creation of a batch writes.
LEMMA BatchingIs ==
    ASSUME Inv, NEW s \in Threads, CommitBatch(s), NEW j, j = session[s]
    PROVE  /\ j.h = "batch" /\ j \in [h : {"batch"}, agent : Agents, size : Nat, events : SUBSET Nat]
           /\ j.events \subseteq 1 .. Len(event)
           /\ TablesTyped' /\ Grown /\ UNCHANGED <<referral, customer, paid>>
           /\ session' = [session EXCEPT ![s] = Idle]
           /\ Len(event)' = Len(event) /\ Len(batch)' = Len(batch) + 1
           /\ \A b \in 1 .. Len(batch) : batch'[b] = batch[b]
           /\ batch'[Len(batch) + 1] = [agent |-> j.agent, amount |-> Rate * j.size, status |-> "pending"]
           /\ \A e \in 1 .. Len(event) :
                 event'[e] = IF e \in j.events THEN [event[e] EXCEPT !.batch = Len(batch) + 1] ELSE event[e]
  <1>1. /\ j \in [h : {"batch"}, agent : Agents, size : Nat, events : SUBSET Nat]
        /\ j.events \subseteq 1 .. Len(event) /\ j.h = "batch"
    <2>1. session[s].h = "batch"  BY DEF CommitBatch, Doing
    <2> QED  BY <2>1, HeldIs, TypedIs
  <1> DEFINE row == [agent |-> j.agent, amount |-> Rate * j.size, status |-> "pending"]
             f   == [e \in 1 .. Len(event) |->
                        IF e \in j.events THEN [event[e] EXCEPT !.batch = Len(batch) + 1] ELSE event[e]]
  <1>2. TablesTyped  BY DEF Inv
  <1>3. DOMAIN event = 1 .. Len(event) /\ Len(batch) \in Nat /\ Len(event) \in Nat  BY <1>2, TablesAre
  <1>4. batch' = Append(batch, row)  BY DEF CommitBatch, Worth
  <1>5. event' = f  BY <1>3 DEF CommitBatch
  <1>6. UNCHANGED <<referral, customer, paid>> /\ session' = [session EXCEPT ![s] = Idle]
    BY DEF CommitBatch, End
  <1>7. row \in Batch
    <2>1. Rate * j.size \in Nat  BY <1>1, AgentAssumption
    <2> QED  BY <1>1, <2>1 DEF Batch
  <1>8. row = [agent |-> j.agent, amount |-> Rate * j.size, status |-> "pending"]  OBVIOUS
  <1> HIDE DEF row
  <1>9. batch \in Seq(Batch)  BY <1>2 DEF TablesTyped
  <1>10. /\ batch' \in Seq(Batch) /\ Len(batch)' = Len(batch) + 1
         /\ \A b \in 1 .. Len(batch) : batch'[b] = batch[b]
         /\ batch'[Len(batch) + 1] = row
    BY <1>4, <1>7, <1>9, SeqAdd
  <1>11. ASSUME NEW e \in 1 .. Len(event)
         PROVE  f[e] \in Event /\ f[e].cust = event[e].cust /\ f[e].batch \in 0 .. Len(batch)'
    <2>1. event[e] \in Event /\ event[e].batch \in 0 .. Len(batch)  BY <1>2, TablesAre DEF TablesTyped
    <2>2. CASE e \in j.events
      <3>1. f[e] = [event[e] EXCEPT !.batch = Len(batch) + 1]  BY <2>2
      <3>2. Len(batch) + 1 \in Nat /\ Len(batch) + 1 \in 0 .. Len(batch)'  BY <1>3, <1>10
      <3> HIDE DEF f
      <3>3. f[e] \in Event /\ f[e].cust = event[e].cust /\ f[e].batch = Len(batch) + 1
        BY <2>1, <3>1, <3>2 DEF Event
      <3> QED  BY <3>2, <3>3
    <2>3. CASE e \notin j.events
      <3>1. f[e] = event[e]  BY <2>3
      <3> HIDE DEF f
      <3> QED  BY <1>3, <1>10, <2>1, <3>1
    <2> QED  BY <2>2, <2>3
  <1>12. f \in [1 .. Len(event) -> Event]
    <2>1. DOMAIN f = 1 .. Len(event) /\ f = [e \in DOMAIN f |-> f[e]]  OBVIOUS
    <2> HIDE DEF f
    <2> QED  BY <1>11, <2>1
  <1>13. \A e \in 1 .. Len(event) :
            f[e] = IF e \in j.events THEN [event[e] EXCEPT !.batch = Len(batch) + 1] ELSE event[e]
    OBVIOUS
  <1> HIDE DEF f
  <1>14. Len(batch)' >= Len(batch)  BY <1>3, <1>10
  <1>15. TablesTyped' /\ Grown /\ Len(event)' = Len(event)
    BY <1>2, <1>5, <1>6, <1>10, <1>11, <1>12, <1>14, PayoutStep
  <1> QED  BY <1>1, <1>5, <1>6, <1>8, <1>10, <1>13, <1>15

LEMMA BatchCommits ==
    ASSUME Inv, NEW s \in Threads, CommitBatch(s)
    PROVE  Inv'
  <1>1. TablesTyped' /\ Grown /\ session' = [session EXCEPT ![s] = Idle]  BY BatchingIs
  <1> QED  BY <1>1, IdleTyped, Moved

LEMMA MarkOpens ==
    ASSUME Inv, NEW s \in Threads, NEW b \in 1 .. Len(batch), OpenMarkPaid(s, b)
    PROVE  Inv'
  <1> DEFINE j  == [h |-> "markPaid", id |-> b]
  <1>1. session' = [session EXCEPT ![s] = j] /\ UNCHANGED Tables  BY DEF OpenMarkPaid, Begin
  <1>2. b \in Nat  OBVIOUS
  <1>3. Typed(j, Len(referral), Len(customer), Len(event), Len(batch))  BY <1>2 DEF Typed
  <1> HIDE DEF j
  <1> QED  BY <1>1, <1>3, Began

\* What the payment of a batch writes.
LEMMA MarkingIs ==
    ASSUME Inv, NEW s \in Threads, CommitMarkPaid(s), NEW b, b = session[s].id
    PROVE  /\ session[s].h = "markPaid" /\ b \in 1 .. Len(batch)
           /\ TablesTyped' /\ Grown /\ UNCHANGED <<referral, customer, paid>>
           /\ session' = [session EXCEPT ![s] = Idle]
           /\ Len(event)' = Len(event) /\ Len(batch)' = Len(batch)
           /\ \A k \in 1 .. Len(batch) :
                 batch'[k] = IF k = b THEN [batch[k] EXCEPT !.status = "paid"] ELSE batch[k]
           /\ \A e \in 1 .. Len(event) :
                 event'[e] = IF event[e].batch = b THEN [event[e] EXCEPT !.status = "paid_out"] ELSE event[e]
  <1>1. b \in 1 .. Len(batch) /\ session[s].h = "markPaid"
    <2>1. session[s].h = "markPaid"  BY DEF CommitMarkPaid, Doing
    <2> QED  BY <2>1, HeldIs, TypedIs
  <1> DEFINE row == [batch[b] EXCEPT !.status = "paid"]
             f   == [e \in 1 .. Len(event) |->
                        IF event[e].batch = b THEN [event[e] EXCEPT !.status = "paid_out"] ELSE event[e]]
  <1>2. TablesTyped  BY DEF Inv
  <1>3. DOMAIN event = 1 .. Len(event) /\ Len(batch) \in Nat /\ Len(event) \in Nat  BY <1>2, TablesAre
  <1>4. batch' = [batch EXCEPT ![b] = row]  BY DEF CommitMarkPaid
  <1>5. event' = f  BY <1>3 DEF CommitMarkPaid, PaidOut
  <1>6. UNCHANGED <<referral, customer, paid>> /\ session' = [session EXCEPT ![s] = Idle]
    BY DEF CommitMarkPaid, End
  <1>7. row \in Batch
    <2>1. batch[b] \in Batch  BY <1>1, <1>2, TablesAre
    <2> QED  BY <2>1 DEF Batch
  <1>8. \A k \in 1 .. Len(batch) : k = b => [batch[k] EXCEPT !.status = "paid"] = row  OBVIOUS
  <1> HIDE DEF row
  <1>9. batch \in Seq(Batch)  BY <1>2 DEF TablesTyped
  <1>10. /\ batch' \in Seq(Batch) /\ Len(batch)' = Len(batch)
         /\ \A k \in 1 .. Len(batch) : batch'[k] = IF k = b THEN row ELSE batch[k]
    BY <1>1, <1>4, <1>7, <1>9, SeqWrite
  <1>11. ASSUME NEW e \in 1 .. Len(event)
         PROVE  f[e] \in Event /\ f[e].cust = event[e].cust /\ f[e].batch \in 0 .. Len(batch)'
    <2>1. event[e] \in Event /\ event[e].batch \in 0 .. Len(batch)  BY <1>2, TablesAre DEF TablesTyped
    <2>2. CASE event[e].batch = b
      <3>1. f[e] = [event[e] EXCEPT !.status = "paid_out"]  BY <2>2
      <3> HIDE DEF f
      <3>2. f[e] \in Event /\ f[e].cust = event[e].cust /\ f[e].batch = event[e].batch
        BY <2>1, <3>1 DEF Event
      <3> QED  BY <1>10, <2>1, <3>2
    <2>3. CASE event[e].batch # b
      <3>1. f[e] = event[e]  BY <2>3
      <3> HIDE DEF f
      <3> QED  BY <1>10, <2>1, <3>1
    <2> QED  BY <2>2, <2>3
  <1>12. f \in [1 .. Len(event) -> Event]
    <2>1. DOMAIN f = 1 .. Len(event) /\ f = [e \in DOMAIN f |-> f[e]]  OBVIOUS
    <2> HIDE DEF f
    <2> QED  BY <1>11, <2>1
  <1>13. \A e \in 1 .. Len(event) :
            f[e] = IF event[e].batch = b THEN [event[e] EXCEPT !.status = "paid_out"] ELSE event[e]
    OBVIOUS
  <1> HIDE DEF f
  <1>14. Len(batch)' >= Len(batch)  BY <1>3, <1>10
  <1>15. TablesTyped' /\ Grown /\ Len(event)' = Len(event)
    BY <1>2, <1>5, <1>6, <1>10, <1>11, <1>12, <1>14, PayoutStep
  <1>16. \A k \in 1 .. Len(batch) :
            batch'[k] = IF k = b THEN [batch[k] EXCEPT !.status = "paid"] ELSE batch[k]
    BY <1>8, <1>10
  <1> QED  BY <1>1, <1>5, <1>6, <1>10, <1>13, <1>15, <1>16

LEMMA MarkCommits ==
    ASSUME Inv, NEW s \in Threads, CommitMarkPaid(s)
    PROVE  Inv'
  <1>1. TablesTyped' /\ Grown /\ session' = [session EXCEPT ![s] = Idle]  BY MarkingIs
  <1> QED  BY <1>1, IdleTyped, Moved

-----------------------------------------------------------------------------
(* Types *)

LEMMA InvHoldsAtFirst ==
    ASSUME Init
    PROVE  Inv
  <1>1. \A s \in Threads : session[s] = Idle  BY DEF Init
  <1>2. \A s \in Threads : Holds(s)  BY <1>1 DEF Typed, Holds
  <1>3. TablesTyped
    <2>1. /\ referral \in Seq(Referral) /\ customer \in Seq(Customer) /\ paid \in Seq(Int)
          /\ event \in Seq(Event) /\ batch \in Seq(Batch)
      BY DEF Init
    <2>2. Len(referral) = 0 /\ Len(customer) = 0 /\ Len(paid) = 0 /\ Len(event) = 0 /\ Len(batch) = 0
      BY DEF Init
    <2> QED  BY <2>1, <2>2 DEF TablesTyped
  <1>4. DOMAIN session = Threads  BY DEF Init
  <1> QED  BY <1>2, <1>3, <1>4 DEF Inv

LEMMA StepKeepsInv ==
    ASSUME Inv, Step
    PROVE  Inv'
  <1>1. /\ DOMAIN referral = 1 .. Len(referral) /\ DOMAIN customer = 1 .. Len(customer)
        /\ DOMAIN batch = 1 .. Len(batch)
    BY TablesAre DEF Inv
  <1>2. ASSUME NEW s \in Threads, Referring(s) PROVE Inv'
    BY <1>1, <1>2, AddOpens, AddCommits, EditOpens, EditCommits DEF Referring
  <1>3. ASSUME NEW s \in Threads, Reviewing(s) PROVE Inv'
    BY <1>1, <1>3, DetailOpens, DetailCommits, ReopenOpens, ReopenCommits, CustomerOpens, CustomerCommits
    DEF Reviewing
  <1>4. ASSUME NEW s \in Threads, Paying(s) PROVE Inv'
    <2>1. ASSUME NEW c \in 1 .. Len(customer), NEW amount \in Months, Refund(s, c, amount) PROVE Inv'
      <3>1. -amount \in Int  BY AgentAssumption
      <3>2. Post(s, "refund", c, -amount, 2)  BY <2>1 DEF Refund
      <3> QED  BY <3>1, <3>2, PostOpens DEF Posting
    <2>2. ASSUME NEW c \in 1 .. Len(customer), NEW old \in Months, NEW new \in Months, Correct(s, c, old, new)
          PROVE  Inv'
      <3>1. new - old \in Int  BY AgentAssumption
      <3>2. Post(s, "correct", c, new - old, 1)  BY <2>2 DEF Correct
      <3> QED  BY <3>1, <3>2, PostOpens DEF Posting
    <2> QED
      BY <1>1, <1>4, <2>1, <2>2, PayOpens, TransferOpens, PayCommits, TransferCommits, ReadCommits, WriteCommits
      DEF Paying
  <1>5. ASSUME NEW s \in Threads, CashingOut(s) PROVE Inv'
    <2>1. ASSUME NEW a \in Agents, NEW n \in 1 .. MaxCustomers, OpenBatch(s, a, n) PROVE Inv'
      <3>1. n \in Nat  OBVIOUS
      <3> QED  BY <2>1, <3>1, BatchOpens
    <2> QED  BY <1>1, <1>5, <2>1, BatchCommits, MarkOpens, MarkCommits DEF CashingOut
  <1> QED
    BY <1>1, <1>2, <1>3, <1>4, <1>5, StaffAdds, DeclineKeeps, ReassignKeeps, CloseKeeps DEF Step

LEMMA InvCorrect == Spec => []Inv
  <1>1. Init => Inv  BY InvHoldsAtFirst
  <1>2. Inv /\ [Next]_vars => Inv'
    <2> SUFFICES ASSUME Inv, [Next]_vars PROVE Inv'  OBVIOUS
    <2>1. CASE Step  BY <2>1, StepKeepsInv
    <2>2. CASE UNCHANGED vars  BY <2>2 DEF vars, Inv, TablesTyped, Holds
    <2> QED  BY <2>1, <2>2 DEF Next, AtRest
  <1> QED  BY <1>1, <1>2, PTL DEF Spec

LEMMA InvImpliesTypeOK ==
    ASSUME Inv
    PROVE  TypeOK
  <1>1. /\ DOMAIN referral = 1 .. Len(referral) /\ DOMAIN customer = 1 .. Len(customer)
        /\ DOMAIN event = 1 .. Len(event)
    BY TablesAre DEF Inv
  <1>2. ASSUME NEW s \in Busy, "verdict" \in DOMAIN session[s], session[s].verdict \in {"revoke", "requalify"}
        PROVE  session[s].id \in DOMAIN event
    <2>1. s \in Threads /\ session[s] # Idle  BY DEF Busy
    <2>2. Fits(session[s], Len(customer), Len(event), Len(batch))  BY <1>2, <2>1, HeldIs, TypedIs
    <2> QED  BY <1>1, <1>2, <2>2 DEF Fits
  <1> QED  BY <1>1, <1>2 DEF Inv, TablesTyped, TypeOK

(* Every row refers to rows that exist, in the tables and in what any number   *)
(* of requests is about to write (models.py:1063, incentives.py:88).          *)
THEOREM TypeCorrect == Spec => []TypeOK
  BY InvCorrect, InvImpliesTypeOK, PTL

-----------------------------------------------------------------------------
(* Requests that run alone *)

Alone == \A s \in Busy : session[s].h \in Exclusive => Busy = {s}

\* How a step changes what one thread holds: it ends, it goes on, or it begins.
Turns(s, j) ==
    /\ session' = [session EXCEPT ![s] = j]
    /\ \/ j = Idle
       \/ s \in Busy /\ j.h = session[s].h
       \/ s \notin Busy /\ Free(j.h)

LEMMA AloneKept ==
    ASSUME Inv, Alone, NEW s \in Threads, NEW j, Turns(s, j)
    PROVE  Alone'
  <1>1. DOMAIN session = Threads /\ session' = [session EXCEPT ![s] = j]  BY DEF Inv, Turns
  <1>2. session'[s] = j /\ \A t \in Threads \ {s} : session'[t] = session[t]  BY <1>1
  <1>3. Busy' \subseteq Busy \cup {s} /\ Busy \ {s} \subseteq Busy'  BY <1>2 DEF Busy
  <1>4. CASE j = Idle
    <2>1. s \notin Busy'  BY <1>2, <1>4 DEF Busy
    <2>2. SUFFICES ASSUME NEW t \in Busy', session'[t].h \in Exclusive PROVE Busy' = {t}
      BY DEF Alone
    <2>3. t \in Busy /\ t # s /\ session[t].h \in Exclusive  BY <1>2, <1>3, <2>1, <2>2 DEF Busy
    <2>4. Busy = {t}  BY <2>3 DEF Alone
    <2> QED  BY <1>3, <2>1, <2>4
  <1>5. CASE s \in Busy /\ j.h = session[s].h
    <2>1. SUFFICES ASSUME NEW t \in Busy', session'[t].h \in Exclusive PROVE Busy' = {t}
      BY DEF Alone
    <2>2. t \in Busy /\ session[t].h \in Exclusive  BY <1>2, <1>3, <1>5, <2>1 DEF Busy
    <2>3. Busy = {t}  BY <2>2 DEF Alone
    <2> QED  BY <1>3, <1>5, <2>1, <2>3
  <1>6. CASE s \notin Busy /\ Free(j.h)
    <2>1. \A t \in Busy : session[t].h \notin Exclusive  BY <1>6 DEF Free
    <2>2. j.h \in Exclusive => Busy = {}  BY <1>6 DEF Free
    <2>3. SUFFICES ASSUME NEW t \in Busy', session'[t].h \in Exclusive PROVE Busy' = {t}
      BY DEF Alone
    <2>4. t = s
      <3>1. CASE t # s
        <4>1. t \in Busy /\ session[t].h \in Exclusive  BY <1>2, <1>3, <2>3, <3>1 DEF Busy
        <4> QED  BY <2>1, <4>1
      <3> QED  BY <3>1
    <2>5. Busy = {}  BY <1>2, <2>2, <2>3, <2>4
    <2> QED  BY <1>3, <2>3, <2>4, <2>5
  <1> QED  BY <1>4, <1>5, <1>6 DEF Turns

\* While a request that is none of X is busy or may start, none of X is under way.
LEMMA NoneOf ==
    ASSUME Alone, NEW X \in SUBSET Exclusive, NEW s \in Threads,
           (s \in Busy /\ session[s].h \notin X) \/ (s \notin Busy /\ \E h : Free(h))
    PROVE  \A t \in Busy : session[t].h \notin X
  <1> SUFFICES ASSUME NEW t \in Busy, session[t].h \in X PROVE FALSE  OBVIOUS
  <1>1. session[t].h \in Exclusive  OBVIOUS
  <1>2. Busy = {t}  BY <1>1 DEF Alone
  <1>3. CASE s \in Busy /\ session[s].h \notin X  BY <1>2, <1>3
  <1>4. CASE s \notin Busy /\ \E h : Free(h)  BY <1>1, <1>4 DEF Free
  <1> QED  BY <1>3, <1>4

\* A handler that is doing something is not idle.
LEMMA DoingIs ==
    ASSUME NEW s \in Threads, NEW h, Doing(s, h), h # "idle"
    PROVE  s \in Busy /\ session[s].h = h
  BY DEF Doing, Busy, Idle

-----------------------------------------------------------------------------
(* A customer earns an agent one commission, backed by two months *)

Money == {"pay", "transfer"}
Judged(j) == "verdict" \in DOMAIN j
\* The rows a request has locked.
Locks(j) == IF j.h \in Money THEN {j.cust, j.left} ELSE {}
Locked ==
    \A s, t \in Busy :
        s # t /\ session[s].h \in Money => session[s].cust \notin Locks(session[t])

\* What the customer has paid once the request is through.
Due(j) == IF j.h \in Posting THEN paid[j.cust] ELSE paid[j.cust] + j.amount

\* What was read of the commission still holds.
UpToDate(j) ==
    /\ j.verdict \in {"revoke", "requalify"} => event[j.id].cust = j.cust
    /\ j.verdict = "requalify" => j.known.cust = j.cust /\ j.known.agent = event[j.id].agent
    /\ j.verdict = "create" =>
          \A e \in 1 .. Len(event) : ~(event[e].cust = j.cust /\ event[e].agent = j.agent)
    /\ j.verdict \in {"create", "requalify"} => Due(j) >= Threshold

\* Backed by two months; if not, the request that took the money back is about to
\* read the commission, or to revoke it.
EarnedNow(e) ==
    LET c == event[e].cust
    IN  event[e].status = "qualified" /\ event[e].agent = customer[c].original /\ ~customer[c].moved
            => paid[c] >= Threshold
Mending(j, e) ==
    /\ j.h \in Posting /\ j.cust = event[e].cust
    /\ Judged(j) => j.verdict = "revoke" /\ j.id = e
Earned == \A e \in 1 .. Len(event) : EarnedNow(e) \/ \E s \in Busy : Mending(session[s], e)

CommissionInv ==
    /\ Inv /\ Alone /\ Locked /\ OneCommission /\ Earned
    /\ \A s \in Threads : Judged(session[s]) => UpToDate(session[s])

\* Refunds and corrections come one at a time and with no other request under way.
OnePost == Posting \subseteq Exclusive

LEMMA LockedKept ==
    ASSUME Inv, Locked, NEW s \in Threads, NEW j, session' = [session EXCEPT ![s] = j],
           j = Idle \/ j.h \notin Money
    PROVE  Locked'
  <1>1. DOMAIN session = Threads  BY DEF Inv
  <1>2. session'[s] = j /\ \A t \in Threads \ {s} : session'[t] = session[t]  BY <1>1
  <1>3. Busy' \subseteq Busy \cup {s}  BY <1>2 DEF Busy
  <1>4. j.h \notin Money  BY DEF Idle, Money
  <1>5. SUFFICES ASSUME NEW t \in Busy', NEW u \in Busy', t # u, session'[t].h \in Money
                 PROVE  session'[t].cust \notin Locks(session'[u])
    BY DEF Locked, Locks
  <1>6. t # s /\ t \in Busy /\ session'[t] = session[t]  BY <1>2, <1>3, <1>4, <1>5 DEF Busy
  <1>7. CASE u = s  BY <1>2, <1>4, <1>7 DEF Locks
  <1>8. CASE u # s
    <2>1. u \in Busy /\ session'[u] = session[u]  BY <1>2, <1>3, <1>8 DEF Busy
    <2> QED  BY <1>5, <1>6, <2>1 DEF Locked
  <1> QED  BY <1>7, <1>8

\* The events keep their customers and agents; a new one is not a second.
Owners(c, a) ==
    /\ Len(event)' \in Nat /\ Len(event)' >= Len(event) /\ Len(event)' <= Len(event) + 1
    /\ \A e \in 1 .. Len(event) : event'[e].cust = event[e].cust /\ event'[e].agent = event[e].agent
    /\ Len(event)' = Len(event) + 1 =>
          event'[Len(event) + 1].cust = c /\ event'[Len(event) + 1].agent = a

LEMMA OneKept ==
    ASSUME Inv, Inv', OneCommission, NEW c, NEW a, Owners(c, a),
           Len(event)' = Len(event) + 1 =>
              \A e \in 1 .. Len(event) : ~(event[e].cust = c /\ event[e].agent = a)
    PROVE  OneCommission'
  <1>1. DOMAIN event = 1 .. Len(event) /\ Len(event) \in Nat  BY TablesAre DEF Inv
  <1>2. (DOMAIN event = 1 .. Len(event))'
    <2>1. event' \in Seq(Event)  BY DEF Inv, TablesTyped
    <2> QED  BY <2>1, LenProperties
  <1>3. SUFFICES ASSUME NEW i \in 1 .. Len(event)', NEW j \in 1 .. Len(event)',
                        event'[i].cust = event'[j].cust, event'[i].agent = event'[j].agent
                 PROVE  i = j
    BY <1>2 DEF OneCommission
  <1>4. /\ i \in 1 .. Len(event) \/ (i = Len(event) + 1 /\ Len(event)' = Len(event) + 1)
        /\ j \in 1 .. Len(event) \/ (j = Len(event) + 1 /\ Len(event)' = Len(event) + 1)
    BY <1>1 DEF Owners
  <1>5. CASE i \in 1 .. Len(event) /\ j \in 1 .. Len(event)
    <2>1. event[i].cust = event[j].cust /\ event[i].agent = event[j].agent  BY <1>3, <1>5 DEF Owners
    <2> QED  BY <1>1, <1>5, <2>1 DEF OneCommission
  <1>6. CASE i \in 1 .. Len(event) /\ j = Len(event) + 1 /\ Len(event)' = Len(event) + 1
    <2>1. event[i].cust = c /\ event[i].agent = a  BY <1>3, <1>6 DEF Owners
    <2> QED  BY <1>6, <2>1
  <1>7. CASE j \in 1 .. Len(event) /\ i = Len(event) + 1 /\ Len(event)' = Len(event) + 1
    <2>1. event[j].cust = c /\ event[j].agent = a  BY <1>3, <1>7 DEF Owners
    <2> QED  BY <1>7, <2>1
  <1> QED  BY <1>1, <1>4, <1>5, <1>6, <1>7

\* What another request has read stays true unless a step touches its customer.
LEMMA DateKept ==
    ASSUME Inv, NEW t \in Threads, Judged(session[t]), UpToDate(session[t]), NEW c, NEW a, Owners(c, a),
           Len(event)' = Len(event) + 1 => session[t].cust # c,
           paid'[session[t].cust] \in Int, paid'[session[t].cust] >= paid[session[t].cust],
           NEW j, j = session[t]
    PROVE  UpToDate(j)'
  <1>1. Fits(j, Len(customer), Len(event), Len(batch)) /\ (j.h \in Posting \/ j.amount \in Nat)
    <2>1. j # Idle  BY DEF Judged, Idle
    <2>2. Fits(j, Len(customer), Len(event), Len(batch))  BY <2>1, HeldIs, TypedIs DEF Judged
    <2>3. j.h \in Posting \/ j.amount \in Nat
      <3>1. Typed(j, Len(referral), Len(customer), Len(event), Len(batch))  BY HeldIs
      <3> QED  BY <3>1 DEF Typed, Judged, PayJob, PostJob, Idle
    <2> QED  BY <2>2, <2>3
  <1>2. Len(event) \in Nat /\ paid[j.cust] \in Int
    <2>1. j.cust \in 1 .. Len(customer)  BY <1>1 DEF Fits
    <2> QED  BY <2>1, TablesAre DEF Inv
  <1>3. j.verdict \in {"revoke", "requalify"} =>
            j.id \in 1 .. Len(event) /\ event'[j.id].cust = event[j.id].cust
            /\ event'[j.id].agent = event[j.id].agent
    BY <1>1 DEF Fits, Owners
  <1>4. ASSUME j.verdict = "create", NEW e \in 1 .. Len(event)'
        PROVE  ~(event'[e].cust = j.cust /\ event'[e].agent = j.agent)
    <2>1. e \in 1 .. Len(event) \/ (e = Len(event) + 1 /\ Len(event)' = Len(event) + 1)
      BY <1>2 DEF Owners
    <2>2. CASE e \in 1 .. Len(event)  BY <1>4, <2>2 DEF Owners, UpToDate
    <2>3. CASE e = Len(event) + 1 /\ Len(event)' = Len(event) + 1  BY <2>3 DEF Owners
    <2> QED  BY <2>1, <2>2, <2>3
  <1>5. j.verdict \in {"create", "requalify"} => Due(j)' >= Threshold
    <2>1. j.verdict \in {"create", "requalify"} => Due(j) >= Threshold  BY DEF UpToDate
    <2>2. CASE j.h \in Posting
      <3>1. Due(j) = paid[j.cust] /\ Due(j)' = paid'[j.cust]  BY <2>2 DEF Due
      <3> QED  BY <1>2, <2>1, <3>1 DEF Threshold
    <2>3. CASE j.h \notin Posting
      <3>1. Due(j) = paid[j.cust] + j.amount /\ Due(j)' = paid'[j.cust] + j.amount  BY <2>3 DEF Due
      <3> QED  BY <1>1, <1>2, <2>1, <2>3, <3>1 DEF Threshold
    <2> QED  BY <2>2, <2>3
  <1> QED  BY <1>3, <1>4, <1>5 DEF UpToDate

LEMMA EarnedKept ==
    ASSUME Inv, NEW e \in 1 .. Len(event), EarnedNow(e),
           event'[e].cust = event[e].cust, event'[e].agent = event[e].agent,
           event'[e].status = "qualified" => event[e].status = "qualified",
           NEW c, c = event[e].cust,
           customer'[c].moved \/ (/\ customer'[c].original = customer[c].original
                                  /\ ~customer'[c].moved => ~customer[c].moved
                                  /\ paid'[c] \in Int /\ paid'[c] >= paid[c])
    PROVE  EarnedNow(e)'
  <1>1. paid[c] \in Int
    <2>1. c \in 1 .. Len(customer)  BY DEF Inv, TablesTyped
    <2> QED  BY <2>1, TablesAre DEF Inv
  <1>2. SUFFICES ASSUME event'[e].status = "qualified", event'[e].agent = customer'[c].original,
                        ~customer'[c].moved
                 PROVE  paid'[c] >= Threshold
    BY DEF EarnedNow
  <1>3. paid[c] >= Threshold  BY <1>2 DEF EarnedNow
  <1> QED  BY <1>1, <1>2, <1>3 DEF Threshold

\* Nobody takes money back, nobody writes a verdict: the tables stay, or only lose
\* what is qualified, and at most a thread turns to something else.
LEMMA CommissionStays ==
    ASSUME CommissionInv, Inv', OnePost, NEW s \in Threads, NEW j, Turns(s, j),
           (s \in Busy /\ session[s].h \notin Posting) \/ (s \notin Busy /\ Free(j.h)),
           j = Idle \/ (j.h \notin Money /\ j.h \notin Posting /\ ~Judged(j)),
           Owners(0, NoOne), Len(event)' = Len(event),
           \A e \in 1 .. Len(event) : event'[e].status = "qualified" => event[e].status = "qualified",
           \A c \in 1 .. Len(customer) :
              /\ paid'[c] = paid[c] /\ customer'[c].original = customer[c].original
              /\ customer'[c].moved = customer[c].moved
    PROVE  CommissionInv'
  <1>1. Inv /\ Alone /\ Locked /\ OneCommission /\ Earned  BY DEF CommissionInv
  <1>2. session' = [session EXCEPT ![s] = j] /\ DOMAIN session = Threads  BY <1>1 DEF Turns, Inv
  <1>3. Alone'  BY <1>1, AloneKept
  <1>4. Locked'  BY <1>1, <1>2, LockedKept
  <1>5. Len(event) \in Nat /\ Len(event)' # Len(event) + 1
    <2>1. Len(event) \in Nat  BY <1>1, TablesAre DEF Inv
    <2> QED  BY <2>1
  <1>6. OneCommission'  BY <1>1, <1>5, OneKept
  <1>7. \A t \in Busy : session[t].h \notin Posting  BY <1>1, NoneOf DEF OnePost
  <1>8. ASSUME NEW e \in 1 .. Len(event)' PROVE EarnedNow(e)'
    <2>1. e \in 1 .. Len(event)  OBVIOUS
    <2>2. EarnedNow(e)  BY <1>1, <1>7, <2>1 DEF Earned, Mending
    <2>3. event'[e].cust = event[e].cust /\ event'[e].agent = event[e].agent  BY <2>1 DEF Owners
    <2>4. event[e].cust \in 1 .. Len(customer)  BY <1>1, <2>1 DEF Inv, TablesTyped
    <2>5. paid[event[e].cust] \in Int  BY <1>1, <2>4, TablesAre DEF Inv
    <2>6. paid'[event[e].cust] \in Int /\ paid'[event[e].cust] >= paid[event[e].cust]  BY <2>4, <2>5
    <2> QED  BY <1>1, <2>1, <2>2, <2>3, <2>4, <2>6, EarnedKept
  <1>9. ASSUME NEW t \in Threads, Judged(session'[t]) PROVE UpToDate(session[t])'
    <2>1. t # s
      <3>1. CASE t = s
        <4>1. session'[t] = j  BY <1>2, <3>1
        <4>2. ~Judged(j)  BY DEF Judged, Idle
        <4> QED  BY <1>9, <4>1, <4>2
      <3> QED  BY <3>1
    <2>2. session'[t] = session[t]  BY <1>2, <2>1
    <2>7. PICK i : i = session[t]  OBVIOUS
    <2>3. Judged(i) /\ UpToDate(i)  BY <1>9, <2>2, <2>7 DEF CommissionInv
    <2>4. i.cust \in 1 .. Len(customer)
      <3>1. i # Idle  BY <2>3 DEF Judged, Idle
      <3>2. Fits(i, Len(customer), Len(event), Len(batch))  BY <1>1, <2>3, <2>7, <3>1, HeldIs, TypedIs DEF Judged
      <3> QED  BY <3>2 DEF Fits
    <2>5. paid[i.cust] \in Int  BY <1>1, <2>4, TablesAre DEF Inv
    <2>6. paid'[i.cust] \in Int /\ paid'[i.cust] >= paid[i.cust]  BY <2>4, <2>5
    <2>8. UpToDate(i)'  BY <1>1, <1>5, <2>3, <2>6, <2>7, DateKept
    <2>9. session'[t] = i  BY <2>2, <2>7
    <2> QED  BY <2>8, <2>9 DEF UpToDate, Due
  <1> QED  BY <1>3, <1>4, <1>6, <1>8, <1>9 DEF CommissionInv, Earned

LEMMA BeginIs ==
    ASSUME NEW s \in Threads, NEW j, Begin(s, j)
    PROVE  Turns(s, j) /\ Free(j.h) /\ s \notin Busy /\ UNCHANGED Tables
  BY DEF Begin, Turns

LEMMA EndIs ==
    ASSUME NEW s \in Threads, End(s)
    PROVE  Turns(s, Idle)
  BY DEF End, Turns

\* The events stay as they are.
LEMMA OwnersSame ==
    ASSUME Inv, UNCHANGED event, NEW c, NEW a
    PROVE  Owners(c, a) /\ Len(event)' = Len(event)
  <1>1. Len(event) \in Nat  BY TablesAre DEF Inv
  <1> QED  BY <1>1 DEF Owners

\* A request of the agents or the staff, or of the payouts, begins.
LEMMA CommissionAtBegin ==
    ASSUME CommissionInv, Inv', OnePost, NEW s \in Threads, NEW j, Begin(s, j),
           j.h \notin Money \cup Posting, ~Judged(j)
    PROVE  CommissionInv'
  <1>1. Turns(s, j) /\ Free(j.h) /\ s \notin Busy /\ UNCHANGED Tables  BY BeginIs
  <1>2. Inv  BY DEF CommissionInv
  <1>3. UNCHANGED <<event, paid, customer>>  BY <1>1 DEF Tables
  <1>4. Owners(0, NoOne) /\ Len(event)' = Len(event)  BY <1>2, <1>3, OwnersSame
  <1> QED  BY <1>1, <1>3, <1>4, CommissionStays

\* One of the agents or the staff ends.
LEMMA CommissionAtEnd ==
    ASSUME CommissionInv, Inv', OnePost, NEW s \in Threads, NEW h, Doing(s, h), h # "idle", h \notin Posting,
           End(s), UNCHANGED event,
           \A c \in 1 .. Len(customer) : paid'[c] = paid[c] /\ customer'[c] = customer[c]
    PROVE  CommissionInv'
  <1>1. Turns(s, Idle)  BY EndIs
  <1>2. s \in Busy /\ session[s].h \notin Posting  BY DoingIs
  <1>3. Inv  BY DEF CommissionInv
  <1>4. Owners(0, NoOne) /\ Len(event)' = Len(event)  BY <1>3, OwnersSame
  <1>5. \A e \in 1 .. Len(event) : event'[e].status = "qualified" => event[e].status = "qualified"
    OBVIOUS
  <1>6. \A c \in 1 .. Len(customer) :
            /\ paid'[c] = paid[c] /\ customer'[c].original = customer[c].original
            /\ customer'[c].moved = customer[c].moved
    OBVIOUS
  <1> QED  BY <1>1, <1>2, <1>4, <1>5, <1>6, CommissionStays

\* Handlers of one step.
LEMMA CommissionAtOnce ==
    ASSUME CommissionInv, Inv', session' = session, UNCHANGED <<event, paid>>,
           \A c \in 1 .. Len(customer) : /\ customer'[c].original = customer[c].original
                                         /\ customer'[c].moved = customer[c].moved
    PROVE  CommissionInv'
  <1>1. Inv /\ Alone /\ Locked /\ OneCommission /\ Earned  BY DEF CommissionInv
  <1>2. Alone' /\ Locked' /\ OneCommission'
    BY <1>1 DEF Alone, Locked, Locks, OneCommission, Busy
  <1>3. ASSUME NEW e \in 1 .. Len(event) PROVE (EarnedNow(e) \/ \E s \in Busy : Mending(session[s], e))'
    <2>1. CASE EarnedNow(e)
      <3>1. event[e].cust \in 1 .. Len(customer)  BY <1>1 DEF Inv, TablesTyped
      <3>2. EarnedNow(e)'  BY <2>1, <3>1 DEF EarnedNow
      <3> QED  BY <3>2
    <2>2. CASE \E s \in Busy : Mending(session[s], e)  BY <2>2 DEF Mending, Busy
    <2> QED  BY <1>1, <2>1, <2>2 DEF Earned
  <1>4. ASSUME NEW t \in Threads, Judged(session[t]) PROVE UpToDate(session[t])'
    <2>1. UpToDate(session[t])  BY <1>4 DEF CommissionInv
    <2> QED  BY <2>1 DEF UpToDate, Due
  <1> QED  BY <1>2, <1>3, <1>4 DEF CommissionInv, Earned

LEMMA CommissionReferring ==
    ASSUME CommissionInv, Inv', OnePost, NEW s \in Threads, Referring(s)
    PROVE  CommissionInv'
  <1>1. ASSUME NEW a \in Agents, NEW phone \in Phones, OpenAdd(s, a, phone) PROVE CommissionInv'
    <2> DEFINE row == NewReferral(a, phone, "submitted", FALSE, Matches(phone, 0, {"declined", "converted"}))
               j   == [h |-> "add", row |-> row]
    <2>1. Begin(s, j)  BY <1>1 DEF OpenAdd
    <2>2. j.h \notin Money \cup Posting /\ ~Judged(j)  BY DEF Money, Posting, Judged
    <2> HIDE DEF j
    <2> QED  BY <2>1, <2>2, CommissionAtBegin
  <1>2. ASSUME CommitAdd(s) PROVE CommissionInv'
    <2>1. Doing(s, "add") /\ End(s) /\ UNCHANGED <<customer, paid, event>>  BY <1>2 DEF CommitAdd
    <2> QED  BY <2>1, CommissionAtEnd DEF Posting
  <1>3. ASSUME NEW i \in DOMAIN referral, NEW phone \in Phones, OpenEdit(s, i, phone) PROVE CommissionInv'
    <2> DEFINE row == [referral[i] EXCEPT !.phone = phone, !.dup = Matches(phone, i, {"declined"})]
               j   == [h |-> "edit", id |-> i, row |-> row]
    <2>1. Begin(s, j)  BY <1>3 DEF OpenEdit
    <2>2. j.h \notin Money \cup Posting /\ ~Judged(j)  BY DEF Money, Posting, Judged
    <2> HIDE DEF j
    <2> QED  BY <2>1, <2>2, CommissionAtBegin
  <1>4. ASSUME CommitEdit(s) PROVE CommissionInv'
    <2>1. Doing(s, "edit") /\ End(s) /\ UNCHANGED <<customer, paid, event>>  BY <1>4 DEF CommitEdit
    <2> QED  BY <2>1, CommissionAtEnd DEF Posting
  <1> QED  BY <1>1, <1>2, <1>3, <1>4 DEF Referring

LEMMA CommissionReviewing ==
    ASSUME CommissionInv, Inv', OnePost, NEW s \in Threads, Reviewing(s)
    PROVE  CommissionInv'
  <1>0. Inv  BY DEF CommissionInv
  <1>1. ASSUME NEW i \in DOMAIN referral, OpenDetail(s, i) PROVE CommissionInv'
    <2> DEFINE st == IF referral[i].status = "submitted" THEN "under_review" ELSE referral[i].status
               j  == [h |-> "open", id |-> i, status |-> st]
    <2>1. Begin(s, j)  BY <1>1 DEF OpenDetail
    <2>2. j.h \notin Money \cup Posting /\ ~Judged(j)  BY DEF Money, Posting, Judged
    <2> HIDE DEF j
    <2> QED  BY <2>1, <2>2, CommissionAtBegin
  <1>2. ASSUME CommitDetail(s) PROVE CommissionInv'
    <2>1. Doing(s, "open") /\ End(s) /\ UNCHANGED <<customer, paid, event>>  BY <1>2 DEF CommitDetail
    <2> QED  BY <2>1, CommissionAtEnd DEF Posting
  <1>3. ASSUME NEW i \in DOMAIN referral, OpenReopen(s, i) PROVE CommissionInv'
    <2> DEFINE j  == [h |-> "reopen", id |-> i]
    <2>1. Begin(s, j)  BY <1>3 DEF OpenReopen
    <2>2. j.h \notin Money \cup Posting /\ ~Judged(j)  BY DEF Money, Posting, Judged
    <2> HIDE DEF j
    <2> QED  BY <2>1, <2>2, CommissionAtBegin
  <1>4. ASSUME CommitReopen(s) PROVE CommissionInv'
    <2>1. Doing(s, "reopen") /\ End(s) /\ UNCHANGED <<customer, paid, event>>  BY <1>4 DEF CommitReopen
    <2> QED  BY <2>1, CommissionAtEnd DEF Posting
  <1>5. ASSUME NEW i \in {0} \cup DOMAIN referral, NEW phone \in Phones, NEW a \in Agents \cup {NoOne},
               NEW installed \in BOOLEAN, OpenCustomer(s, i, phone, a, installed)
        PROVE  CommissionInv'
    <2> DEFINE n == IF installed THEN 0 ELSE i
               g == IF a # NoOne \/ i = 0 \/ installed THEN a ELSE referral[i].agent
               j == [h |-> "convert", id |-> n, phone |-> phone, agent |-> g]
    <2>1. Begin(s, j)  BY <1>5 DEF OpenCustomer
    <2>2. j.h \notin Money \cup Posting /\ ~Judged(j)  BY DEF Money, Posting, Judged
    <2> HIDE DEF j
    <2> QED  BY <2>1, <2>2, CommissionAtBegin
  <1>6. ASSUME CommitCustomer(s) PROVE CommissionInv'
    <2>1. Doing(s, "convert") /\ End(s)  BY <1>6 DEF CommitCustomer
    <2>2. /\ UNCHANGED event
          /\ \A c \in 1 .. Len(customer) : paid'[c] = paid[c] /\ customer'[c] = customer[c]
      <3>1. UNCHANGED event  BY <1>0, <1>6, ConversionIs
      <3>2. \/ UNCHANGED Tables
            \/ \A k \in 1 .. Len(customer) : customer'[k] = customer[k] /\ paid'[k] = paid[k]
        BY <1>0, <1>6, ConversionIs
      <3> QED  BY <3>1, <3>2 DEF Tables
    <2> QED  BY <2>1, <2>2, CommissionAtEnd DEF Posting
  <1> QED  BY <1>1, <1>2, <1>3, <1>4, <1>5, <1>6 DEF Reviewing

LEMMA CommissionCashingOut ==
    ASSUME CommissionInv, Inv', OnePost, NEW s \in Threads, CashingOut(s)
    PROVE  CommissionInv'
  <1>0. Inv  BY DEF CommissionInv
  <1>1. ASSUME NEW a \in Agents, NEW n \in 1 .. MaxCustomers, OpenBatch(s, a, n) PROVE CommissionInv'
    <2> DEFINE j  == [h |-> "batch", agent |-> a, size |-> n, events |-> Oldest(Unpaid(a), n)]
    <2>1. Begin(s, j)  BY <1>1 DEF OpenBatch
    <2>2. j.h \notin Money \cup Posting /\ ~Judged(j)  BY DEF Money, Posting, Judged
    <2> HIDE DEF j
    <2> QED  BY <2>1, <2>2, CommissionAtBegin
  <1>2. ASSUME CommitBatch(s) PROVE CommissionInv'
    <2> DEFINE j == session[s]
    <2>1. s \in Busy /\ session[s].h \notin Posting
      <3>1. Doing(s, "batch")  BY <1>2 DEF CommitBatch
      <3> QED  BY <3>1, DoingIs DEF Posting
    <2>2. /\ UNCHANGED <<customer, paid>> /\ Len(event)' = Len(event)
          /\ \A e \in 1 .. Len(event) :
                event'[e] = IF e \in j.events THEN [event[e] EXCEPT !.batch = Len(batch) + 1] ELSE event[e]
      BY <1>0, <1>2, BatchingIs
    <2> HIDE DEF j
    <2>3. ASSUME NEW e \in 1 .. Len(event)
          PROVE  /\ event'[e].cust = event[e].cust /\ event'[e].agent = event[e].agent
                 /\ event'[e].status = event[e].status
      <3>1. event[e] \in Event  BY <1>0, TablesAre DEF Inv
      <3> QED  BY <2>2, <3>1 DEF Event
    <2>4. Owners(0, NoOne)
      <3>1. Len(event) \in Nat  BY <1>0, TablesAre DEF Inv
      <3> QED  BY <2>2, <2>3, <3>1 DEF Owners
    <2>5. Turns(s, Idle)  BY <1>2, EndIs DEF CommitBatch
    <2> QED  BY <2>1, <2>2, <2>3, <2>4, <2>5, CommissionStays
  <1>3. ASSUME NEW b \in DOMAIN batch, OpenMarkPaid(s, b) PROVE CommissionInv'
    <2> DEFINE j  == [h |-> "markPaid", id |-> b]
    <2>1. Begin(s, j)  BY <1>3 DEF OpenMarkPaid
    <2>2. j.h \notin Money \cup Posting /\ ~Judged(j)  BY DEF Money, Posting, Judged
    <2> HIDE DEF j
    <2> QED  BY <2>1, <2>2, CommissionAtBegin
  <1>4. ASSUME CommitMarkPaid(s) PROVE CommissionInv'
    <2>1. s \in Busy /\ session[s].h \notin Posting
      <3>1. Doing(s, "markPaid")  BY <1>4 DEF CommitMarkPaid
      <3> QED  BY <3>1, DoingIs DEF Posting
    <2> DEFINE b == session[s].id
    <2>2. /\ UNCHANGED <<customer, paid>> /\ Len(event)' = Len(event)
          /\ \A e \in 1 .. Len(event) :
                event'[e] = IF event[e].batch = b THEN [event[e] EXCEPT !.status = "paid_out"] ELSE event[e]
      BY <1>0, <1>4, MarkingIs
    <2> HIDE DEF b
    <2>3. ASSUME NEW e \in 1 .. Len(event)
          PROVE  /\ event'[e].cust = event[e].cust /\ event'[e].agent = event[e].agent
                 /\ event'[e].status = "qualified" => event[e].status = "qualified"
      <3>1. event[e] \in Event  BY <1>0, TablesAre DEF Inv
      <3> QED  BY <2>2, <3>1 DEF Event
    <2>4. Owners(0, NoOne)
      <3>1. Len(event) \in Nat  BY <1>0, TablesAre DEF Inv
      <3> QED  BY <2>2, <2>3, <3>1 DEF Owners
    <2>5. Turns(s, Idle)  BY <1>4, EndIs DEF CommitMarkPaid
    <2> QED  BY <2>1, <2>2, <2>3, <2>4, <2>5, CommissionStays
  <1> QED  BY <1>1, <1>2, <1>3, <1>4 DEF CashingOut

\* What a verdict says when it is read.
LEMMA ReadIs ==
    ASSUME TablesTyped, NEW c \in 1 .. Len(customer), NEW sum \in Int, NEW v, NEW k, NEW id,
           v = Verdict(c, Known(c), Net(sum)), k = Known(c), id = EventOf(c)
    PROVE  /\ v \in {"revoke", "requalify"} => event[id].cust = c
           /\ v = "requalify" => k.cust = c /\ k.agent = event[id].agent
           /\ v = "create" => \A e \in 1 .. Len(event) : ~(event[e].cust = c /\ event[e].agent = AgentOf(c))
           /\ v \in {"create", "requalify"} => sum >= Threshold
  <1>1. Net(sum) \in Int /\ (Net(sum) >= Threshold <=> sum >= Threshold)  BY NetIs
  <1>2. /\ v \in {"revoke", "requalify"} => EventsOf(c) # {}
        /\ v = "requalify" => Net(sum) >= Threshold
        /\ v = "create" => Net(sum) >= Threshold /\ EventsOf(c) = {}
    BY <1>1, VerdictIs
  <1>3. EventsOf(c) # {} => Known(c) = event[EventOf(c)] /\ event[EventOf(c)].cust = c
    BY EventIs
  <1>4. v \in {"revoke", "requalify"} => event[id].cust = c  BY <1>2, <1>3
  <1>5. v = "requalify" => k = event[id] /\ event[id].cust = c  BY <1>2, <1>3
  <1>6. DOMAIN event = 1 .. Len(event)  BY TablesAre
  <1>7. v = "create" => \A e \in 1 .. Len(event) : ~(event[e].cust = c /\ event[e].agent = AgentOf(c))
    BY <1>2, <1>6 DEF EventsOf
  <1> QED  BY <1>1, <1>2, <1>4, <1>5, <1>7

\* A payment or a transfer begins.
LEMMA CommissionMoneyOpens ==
    ASSUME CommissionInv, Inv', OnePost, NEW s \in Threads, NEW h \in Money, NEW c \in 1 .. Len(customer),
           NEW d \in 0 .. Len(customer), NEW amount \in Nat,
           Unlocked(c), d # 0 => Unlocked(d), NEW j, j = Job(h, c, d, amount, Net(paid[c] + amount)),
           Begin(s, j)
    PROVE  CommissionInv'
  <1>1. Inv /\ Alone /\ Locked /\ OneCommission /\ Earned /\ TablesTyped  BY DEF CommissionInv, Inv
  <1>2. Turns(s, j) /\ Free(j.h) /\ s \notin Busy /\ UNCHANGED Tables  BY BeginIs
  <1>3. session' = [session EXCEPT ![s] = j] /\ DOMAIN session = Threads  BY <1>1, <1>2 DEF Turns, Inv
  <1>4. session'[s] = j /\ \A t \in Threads \ {s} : session'[t] = session[t]  BY <1>3
  <1>5. paid[c] + amount \in Int
    <2>1. paid[c] \in Int  BY <1>1, TablesAre
    <2> QED  BY <2>1
  <1>6. Net(paid[c] + amount) \in Int  BY <1>5, NetIs
  <1>7. /\ j.h = h /\ j.cust = c /\ j.left = d /\ j.amount = amount
        /\ j.agent = AgentOf(c) /\ j.id = EventOf(c) /\ j.known = Known(c)
        /\ j.verdict = Verdict(c, Known(c), Net(paid[c] + amount))
    BY <1>1, <1>6, JobIs
  <1>8. /\ j.verdict \in {"revoke", "requalify"} => event[j.id].cust = j.cust
        /\ j.verdict = "requalify" => j.known.cust = j.cust /\ j.known.agent = event[j.id].agent
        /\ j.verdict = "create" =>
              \A e \in 1 .. Len(event) : ~(event[e].cust = j.cust /\ event[e].agent = j.agent)
        /\ j.verdict \in {"create", "requalify"} => paid[c] + amount >= Threshold
    BY <1>1, <1>5, <1>7, ReadIs
  <1>9. Due(j) = paid[c] + amount  BY <1>7 DEF Due, Posting, Money
  <1>10. UpToDate(j)  BY <1>7, <1>8, <1>9 DEF UpToDate
  <1>11. Alone'  BY <1>1, <1>2, AloneKept
  <1>12. Busy' = Busy \cup {s}
    <2>1. j # Idle  BY <1>7 DEF Idle, Money
    <2> QED  BY <1>4, <2>1 DEF Busy
  <1>13. Locked'
    <2>1. SUFFICES ASSUME NEW t \in Busy', NEW u \in Busy', t # u, session'[t].h \in Money
                   PROVE  session'[t].cust \notin Locks(session'[u])
      BY DEF Locked, Locks
    <2>2. \A w \in Busy : w # s /\ session'[w] = session[w]  BY <1>2, <1>4 DEF Busy
    <2>3. CASE t # s /\ u # s
      <3>1. t \in Busy /\ u \in Busy /\ session'[t] = session[t] /\ session'[u] = session[u]
        BY <1>12, <2>2, <2>3
      <3> QED  BY <1>1, <2>1, <3>1 DEF Locked
    <2>4. CASE t = s
      <3>1. u \in Busy /\ session'[u] = session[u]  BY <1>12, <2>1, <2>2, <2>4
      <3>2. c \notin Locks(session[u])  BY <3>1 DEF Unlocked, Locks, Money
      <3> QED  BY <1>4, <1>7, <2>4, <3>1, <3>2
    <2>5. CASE u = s
      <3>1. t \in Busy /\ session'[t] = session[t] /\ session[t].h \in Money
        BY <1>12, <2>1, <2>2, <2>5
      <3>2. session[t].cust # c /\ (d # 0 => session[t].cust # d)
        BY <3>1 DEF Unlocked, Money
      <3>3. session[t].cust \in 1 .. Len(customer)
        <4>1. t \in Threads  BY <3>1 DEF Busy
        <4>2. Fits(session[t], Len(customer), Len(event), Len(batch))
          BY <1>1, <3>1, <4>1, HeldIs, TypedIs DEF Money
        <4> QED  BY <4>2 DEF Fits
      <3>4. session[t].cust # d  BY <3>2, <3>3
      <3>5. Locks(session'[u]) = {c, d}  BY <1>4, <1>7, <2>5 DEF Locks
      <3> QED  BY <3>1, <3>2, <3>4, <3>5
    <2> QED  BY <2>3, <2>4, <2>5
  <1>14. \A t \in Busy : session[t].h \notin Posting  BY <1>1, <1>2, NoneOf DEF OnePost
  <1>15. UNCHANGED <<event, paid, customer>>  BY <1>2 DEF Tables
  <1>16. OneCommission'  BY <1>1, <1>15 DEF OneCommission
  <1>17. ASSUME NEW e \in 1 .. Len(event)' PROVE EarnedNow(e)'
    <2>1. EarnedNow(e)  BY <1>1, <1>14, <1>15 DEF Earned, Mending
    <2> QED  BY <1>15, <2>1 DEF EarnedNow
  <1>18. ASSUME NEW t \in Threads, Judged(session'[t]) PROVE UpToDate(session[t])'
    <2>1. CASE t = s
      <3>1. session'[t] = j  BY <1>4, <2>1
      <3> QED  BY <1>10, <1>15, <3>1 DEF UpToDate, Due
    <2>2. CASE t # s
      <3>1. session'[t] = session[t]  BY <1>4, <2>2
      <3>2. UpToDate(session[t])  BY <1>18, <3>1 DEF CommissionInv
      <3> QED  BY <1>15, <3>1, <3>2 DEF UpToDate, Due
    <2> QED  BY <2>1, <2>2
  <1> QED  BY <1>11, <1>13, <1>16, <1>17, <1>18 DEF CommissionInv, Earned

\* What carrying out a verdict that is up to date does to the table.
LEMMA VerdictKeeps ==
    ASSUME Inv, NEW j, j.verdict \in Verdicts, j.cust \in Nat, UpToDate(j),
           Fits(j, Len(customer), Len(event), Len(batch)), event' = Evaluated(j)
    PROVE  /\ Owners(j.cust, j.agent)
           /\ Len(event)' = IF j.verdict = "create" THEN Len(event) + 1 ELSE Len(event)
           /\ \A e \in 1 .. Len(event) :
                 event'[e].status = "qualified" =>
                    \/ event[e].status = "qualified" /\ ~(j.verdict = "revoke" /\ j.id = e)
                    \/ j.verdict = "requalify" /\ event[e].cust = j.cust
  <1>1. TablesTyped /\ Len(event) \in Nat  BY TablesAre DEF Inv
  <1> DEFINE ev == Evaluated(j)
  <1>2. /\ ev \in Seq(Event)
        /\ Len(ev) = IF j.verdict = "create" THEN Len(event) + 1 ELSE Len(event)
        /\ \A i \in 1 .. Len(event) : ev[i] =
              IF j.verdict = "revoke" /\ i = j.id THEN [event[i] EXCEPT !.status = "revoked"]
              ELSE IF j.verdict = "requalify" /\ i = j.id THEN [j.known EXCEPT !.status = "qualified"]
              ELSE event[i]
        /\ j.verdict = "create" => ev[Len(event) + 1] = [cust |-> j.cust, agent |-> j.agent,
                                                         status |-> "qualified", batch |-> 0]
    BY <1>1, EvaluatedIs
  <1>3. event' = ev  OBVIOUS
  <1> HIDE DEF ev
  <1>4. ASSUME NEW e \in 1 .. Len(event)
        PROVE  /\ ev[e].cust = event[e].cust /\ ev[e].agent = event[e].agent
               /\ ev[e].status = "qualified" =>
                    \/ event[e].status = "qualified" /\ ~(j.verdict = "revoke" /\ j.id = e)
                    \/ j.verdict = "requalify" /\ event[e].cust = j.cust
    <2>1. event[e] \in Event  BY <1>1, TablesAre
    <2>2. CASE j.verdict = "revoke" /\ e = j.id
      <3>1. ev[e] = [event[e] EXCEPT !.status = "revoked"]  BY <1>2, <2>2
      <3>2. ev[e].cust = event[e].cust /\ ev[e].agent = event[e].agent /\ ev[e].status = "revoked"
        BY <2>1, <3>1 DEF Event
      <3> QED  BY <3>2
    <2>3. CASE j.verdict = "requalify" /\ e = j.id
      <3>1. ev[e] = [j.known EXCEPT !.status = "qualified"]  BY <1>2, <2>3
      <3>2. j.known \in Event  BY <2>3 DEF Fits
      <3>3. ev[e].cust = j.known.cust /\ ev[e].agent = j.known.agent  BY <3>1, <3>2 DEF Event
      <3>4. event[e].cust = j.cust /\ j.known.cust = j.cust /\ j.known.agent = event[e].agent
        BY <2>3 DEF UpToDate
      <3> QED  BY <2>3, <3>3, <3>4
    <2>4. CASE ~(j.verdict = "revoke" /\ e = j.id) /\ ~(j.verdict = "requalify" /\ e = j.id)
      <3>1. ev[e] = event[e]  BY <1>2, <2>4
      <3> QED  BY <2>4, <3>1
    <2> QED  BY <2>2, <2>3, <2>4
  <1>5. Len(ev) = Len(event) + 1 => ev[Len(event) + 1].cust = j.cust /\ ev[Len(event) + 1].agent = j.agent
    BY <1>1, <1>2
  <1>6. Len(ev) \in Nat /\ Len(ev) >= Len(event) /\ Len(ev) <= Len(event) + 1  BY <1>1, <1>2
  <1>7. Owners(j.cust, j.agent)  BY <1>3, <1>4, <1>5, <1>6 DEF Owners
  <1> QED  BY <1>2, <1>3, <1>4, <1>7

\* A request with a verdict is of a payment, a transfer, or a posting.
LEMMA JudgedIs ==
    ASSUME Inv, NEW t \in Threads, Judged(session[t])
    PROVE  /\ t \in Busy /\ session[t].h \in Money \cup Posting
           /\ session[t].cust \in 1 .. Len(customer)
  <1>1. session[t] # Idle  BY DEF Judged, Idle
  <1>2. Fits(session[t], Len(customer), Len(event), Len(batch))  BY <1>1, HeldIs, TypedIs DEF Judged
  <1>3. Typed(session[t], Len(referral), Len(customer), Len(event), Len(batch))  BY HeldIs
  <1>4. session[t].h \in Money \cup Posting
    BY <1>1, <1>3 DEF Typed, Judged, PayJob, PostJob, Money
  <1> QED  BY <1>1, <1>2, <1>4 DEF Busy, Fits

\* A payment or a transfer ends: what it wrote is what it read under the lock.
LEMMA CommissionMoneyEnds ==
    ASSUME CommissionInv, Inv', OnePost, NEW s \in Threads, NEW j, j = session[s], j.h \in Money,
           j \in PayJob, Fits(j, Len(customer), Len(event), Len(batch)),
           session' = [session EXCEPT ![s] = Idle], event' = Evaluated(j),
           \A k \in 1 .. Len(customer) :
              \/ customer'[k].moved
              \/ /\ customer'[k].original = customer[k].original
                 /\ ~customer'[k].moved => ~customer[k].moved
                 /\ paid'[k] \in Int /\ paid'[k] >= paid[k],
           customer'[j.cust].moved \/ paid'[j.cust] = paid[j.cust] + j.amount,
           \A k \in 1 .. Len(customer) : k \notin Locks(j) => paid'[k] \in Int /\ paid'[k] >= paid[k]
    PROVE  CommissionInv'
  <1>1. Inv /\ Alone /\ Locked /\ OneCommission /\ Earned /\ TablesTyped  BY DEF CommissionInv, Inv
  <1>2. DOMAIN session = Threads  BY <1>1 DEF Inv
  <1>3. session'[s] = Idle /\ \A t \in Threads \ {s} : session'[t] = session[t]  BY <1>2
  <1>4. s \in Busy /\ j.h \notin Posting /\ Judged(j)
    <2>1. j.h \notin Posting /\ j # Idle  BY DEF Money, Posting, Idle
    <2>2. Judged(j)  BY DEF Judged, PayJob
    <2> QED  BY <2>1, <2>2 DEF Busy
  <1>5. UpToDate(j)  BY <1>4 DEF CommissionInv
  <1>6. Turns(s, Idle)  BY DEF Turns
  <1>7. Alone' /\ Locked'  BY <1>1, <1>6, AloneKept, LockedKept
  <1>8. \A t \in Busy : session[t].h \notin Posting  BY <1>1, <1>4, NoneOf DEF OnePost
  <1>9. \A e \in 1 .. Len(event) : EarnedNow(e)  BY <1>1, <1>8 DEF Earned, Mending
  <1>10. j.verdict \in Verdicts /\ j.cust \in Nat /\ j.amount \in Nat  BY DEF PayJob
  <1>11. /\ Owners(j.cust, j.agent)
         /\ Len(event)' = IF j.verdict = "create" THEN Len(event) + 1 ELSE Len(event)
         /\ \A e \in 1 .. Len(event) :
               event'[e].status = "qualified" =>
                  \/ event[e].status = "qualified" /\ ~(j.verdict = "revoke" /\ j.id = e)
                  \/ j.verdict = "requalify" /\ event[e].cust = j.cust
    BY <1>1, <1>5, <1>10, VerdictKeeps
  <1>12. Len(event) \in Nat  BY <1>1, TablesAre
  <1>13. j.verdict # "create" => Len(event)' # Len(event) + 1  BY <1>11, <1>12
  <1>14. OneCommission'
    <2>1. Len(event)' = Len(event) + 1 =>
             \A e \in 1 .. Len(event) : ~(event[e].cust = j.cust /\ event[e].agent = j.agent)
      BY <1>5, <1>13 DEF UpToDate
    <2> QED  BY <1>1, <1>11, <2>1, OneKept
  <1>15. j.verdict \in {"create", "requalify"} => customer'[j.cust].moved \/ paid'[j.cust] >= Threshold
    <2>1. Due(j) = paid[j.cust] + j.amount  BY <1>4 DEF Due
    <2> QED  BY <1>5, <2>1 DEF UpToDate
  <1>16. ASSUME NEW e \in 1 .. Len(event)' PROVE EarnedNow(e)'
    <2>1. e \in 1 .. Len(event) \/ (e = Len(event) + 1 /\ Len(event)' = Len(event) + 1)
      BY <1>11, <1>12
    <2>2. CASE e \in 1 .. Len(event)
      <3>1. event'[e].cust = event[e].cust /\ event'[e].agent = event[e].agent
        BY <1>11, <2>2 DEF Owners
      <3>2. event[e].cust \in 1 .. Len(customer)  BY <1>1, <2>2 DEF TablesTyped
      <3>3. CASE j.verdict = "requalify" /\ event[e].cust = j.cust
        BY <1>15, <3>1, <3>3 DEF EarnedNow
      <3>4. CASE ~(j.verdict = "requalify" /\ event[e].cust = j.cust)
        <4>1. event'[e].status = "qualified" => event[e].status = "qualified"  BY <1>11, <2>2, <3>4
        <4>2. EarnedNow(e)  BY <1>9, <2>2
        <4> QED  BY <1>1, <2>2, <3>1, <3>2, <4>1, <4>2, EarnedKept
      <3> QED  BY <3>3, <3>4
    <2>3. CASE e = Len(event) + 1 /\ Len(event)' = Len(event) + 1
      <3>1. event'[e].cust = j.cust /\ j.verdict = "create"  BY <1>11, <1>13, <2>3 DEF Owners
      <3> QED  BY <1>15, <3>1 DEF EarnedNow
    <2> QED  BY <2>1, <2>2, <2>3
  <1>17. ASSUME NEW t \in Threads, Judged(session'[t]) PROVE UpToDate(session[t])'
    <2>1. t # s  BY <1>3, <1>17 DEF Judged, Idle
    <2>2. session'[t] = session[t]  BY <1>3, <2>1
    <2>3. PICK i : i = session[t]  OBVIOUS
    <2>4. Judged(session[t]) /\ UpToDate(session[t])  BY <1>17, <2>2 DEF CommissionInv
    <2>5. t \in Busy /\ i.h \in Money /\ i.cust \in 1 .. Len(customer)
      BY <1>1, <1>8, <2>3, <2>4, JudgedIs
    <2>6. i.cust \notin Locks(j)  BY <1>1, <1>4, <2>1, <2>3, <2>5 DEF Locked
    <2>7. i.cust # j.cust  BY <2>6 DEF Locks
    <2>8. paid'[i.cust] \in Int /\ paid'[i.cust] >= paid[i.cust]  BY <2>5, <2>6
    <2>9. UpToDate(i)'  BY <1>1, <1>11, <2>3, <2>4, <2>7, <2>8, DateKept
    <2>10. session'[t] = i  BY <2>2, <2>3
    <2> QED  BY <2>9, <2>10 DEF UpToDate, Due
  <1> QED  BY <1>7, <1>14, <1>16, <1>17 DEF CommissionInv, Earned

\* Money is taken back, and nothing else is under way.
LEMMA CommissionPosts ==
    ASSUME CommissionInv, Inv', OnePost, NEW s \in Threads, NEW h \in Posting, NEW c \in 1 .. Len(customer),
           NEW delta \in Int, NEW rounds \in Nat \ {0}, Post(s, h, c, delta, rounds)
    PROVE  CommissionInv'
  <1>1. Inv /\ Alone /\ Locked /\ OneCommission /\ Earned /\ TablesTyped  BY DEF CommissionInv, Inv
  <1> DEFINE j == [h |-> h, todo |-> rounds, cust |-> c]
  <1>2. j.h = h /\ j.cust = c /\ ~Judged(j) /\ j # Idle /\ j.h \notin Money
    <2>1. j.h = h /\ j.cust = c /\ ~Judged(j)  BY DEF Judged
    <2>2. j # Idle
      <3>1. Idle.h = "idle"  BY DEF Idle
      <3> QED  BY <2>1, <3>1 DEF Posting
    <2> QED  BY <2>1, <2>2 DEF Money, Posting
  <1>3. session' = [session EXCEPT ![s] = j] /\ Free(h) /\ s \notin Busy
        /\ UNCHANGED <<referral, customer, event, batch>> /\ paid' = [paid EXCEPT ![c] = @ + delta]
    BY DEF Post
  <1> HIDE DEF j
  <1>4. DOMAIN session = Threads  BY <1>1 DEF Inv
  <1>5. session'[s] = j /\ \A t \in Threads \ {s} : session'[t] = session[t]  BY <1>3, <1>4
  <1>6. Busy = {}  BY <1>3 DEF Free, OnePost
  <1>7. Turns(s, j)  BY <1>2, <1>3 DEF Turns
  <1>8. Alone' /\ Locked'  BY <1>1, <1>2, <1>3, <1>7, AloneKept, LockedKept
  <1>9. OneCommission'  BY <1>1, <1>3 DEF OneCommission
  <1>10. s \in Busy'  BY <1>2, <1>5 DEF Busy
  <1>11. ASSUME NEW e \in 1 .. Len(event)' PROVE (EarnedNow(e) \/ \E t \in Busy : Mending(session[t], e))'
    <2>1. EarnedNow(e)  BY <1>1, <1>3, <1>6 DEF Earned
    <2>2. CASE event[e].cust = c
      <3>1. Mending(session[s], e)'  BY <1>2, <1>3, <1>5, <2>2 DEF Mending
      <3> QED  BY <1>10, <3>1
    <2>3. CASE event[e].cust # c
      <3>1. event[e].cust \in 1 .. Len(customer) /\ DOMAIN paid = 1 .. Len(customer)
        BY <1>1, <1>3, TablesAre DEF TablesTyped
      <3>2. paid'[event[e].cust] = paid[event[e].cust]  BY <1>3, <2>3, <3>1
      <3>3. EarnedNow(e)'  BY <1>3, <2>1, <3>2 DEF EarnedNow
      <3> QED  BY <3>3
    <2> QED  BY <2>2, <2>3
  <1>12. ASSUME NEW t \in Threads, Judged(session'[t]) PROVE FALSE
    <2>1. CASE t = s  BY <1>2, <1>5, <1>12, <2>1
    <2>2. CASE t # s
      <3>1. session'[t] = Idle  BY <1>5, <1>6, <2>2 DEF Busy
      <3> QED  BY <1>12, <3>1 DEF Judged, Idle
    <2> QED  BY <2>1, <2>2
  <1> QED  BY <1>8, <1>9, <1>11, <1>12 DEF CommissionInv, Earned

\* The commission is read: it is fine, or a revocation is now under way.
LEMMA CommissionReads ==
    ASSUME CommissionInv, Inv', OnePost, NEW s \in Threads, ReadLedger(s)
    PROVE  CommissionInv'
  <1>1. Inv /\ Alone /\ Locked /\ OneCommission /\ Earned /\ TablesTyped  BY DEF CommissionInv, Inv
  <1>2. PICK j : j = session[s]  OBVIOUS
  <1>3. PICK k : k = Job(j.h, j.cust, 0, 0, Net(paid[j.cust]))  OBVIOUS
  <1> DEFINE n == [h |-> j.h, todo |-> j.todo - 1, cust |-> j.cust,
                   agent |-> k.agent, id |-> k.id, known |-> k.known, verdict |-> k.verdict]
             c == j.cust
  <1>4. /\ j.h \in Posting /\ c \in 1 .. Len(customer) /\ j.todo \in Nat \ {0}
        /\ UNCHANGED Tables /\ session' = [session EXCEPT ![s] = n]
        /\ k.cust = c /\ k.agent = AgentOf(c) /\ k.id = EventOf(c)
        /\ k.known = Known(c) /\ k.verdict = Verdict(c, Known(c), Net(paid[c]))
    BY SMTT(30), <1>1, <1>2, <1>3, ReadingIs
  <1>5. /\ n.h = j.h /\ n.cust = c /\ n.agent = k.agent /\ n.id = k.id /\ n.known = k.known
        /\ n.verdict = k.verdict /\ Judged(n)
    BY DEF Judged
  <1> HIDE DEF n
  <1>6. j.h \notin Money /\ j # Idle /\ s \in Busy
    <2>1. j.h \notin Money /\ j # Idle  BY <1>4 DEF Money, Posting, Idle
    <2> QED  BY <1>2, <2>1 DEF Busy
  <1>7. DOMAIN session = Threads  BY <1>1 DEF Inv
  <1>8. session'[s] = n /\ \A t \in Threads \ {s} : session'[t] = session[t]  BY <1>4, <1>7
  <1>9. Turns(s, n)  BY <1>2, <1>4, <1>5, <1>6 DEF Turns
  <1>10. n.h \notin Money  BY <1>5, <1>6
  <1>11. Alone' /\ Locked'  BY <1>1, <1>4, <1>9, <1>10, AloneKept, LockedKept
  <1>12. UNCHANGED <<event, paid, customer>>  BY <1>4 DEF Tables
  <1>13. OneCommission'  BY <1>1, <1>12 DEF OneCommission
  <1>14. Busy = {s}  BY <1>1, <1>2, <1>4, <1>6 DEF Alone, OnePost
  <1>15. s \in Busy'
    <2>1. n # Idle  BY <1>4, <1>5 DEF Idle, Posting
    <2> QED  BY <1>8, <2>1 DEF Busy
  <1>16. paid[c] \in Int /\ DOMAIN event = 1 .. Len(event)  BY <1>1, <1>4, TablesAre
  <1>17. ASSUME NEW e \in 1 .. Len(event)' PROVE (EarnedNow(e) \/ \E t \in Busy : Mending(session[t], e))'
    <2>0. e \in 1 .. Len(event)  BY <1>12
    <2>1. CASE EarnedNow(e)
      <3>1. EarnedNow(e)'  BY <1>12, <2>1 DEF EarnedNow
      <3> QED  BY <3>1
    <2>2. CASE ~EarnedNow(e)
      <3>1. event[e].cust = c
        <4>1. Mending(session[s], e)  BY <1>1, <1>14, <2>0, <2>2 DEF Earned
        <4> QED  BY <1>2, <4>1 DEF Mending
      <3>2. /\ event[e].status = "qualified" /\ event[e].agent = customer[c].original
            /\ ~(paid[c] >= Threshold)
        BY <2>2, <3>1 DEF EarnedNow
      <3>3. event[e].agent = AgentOf(c)
        <4>1. event[e].agent \in Agents  BY <1>1, <2>0, TablesAre DEF Event
        <4>2. event[e].agent # NoOne  BY <4>1, AgentAssumption
        <4> QED  BY <3>2, <4>2 DEF AgentOf
      <3>4. e \in EventsOf(c)  BY <1>16, <2>0, <3>1, <3>3 DEF EventsOf
      <3>5. /\ EventOf(c) \in 1 .. Len(event) /\ Known(c) = event[EventOf(c)]
            /\ event[EventOf(c)].cust = c /\ event[EventOf(c)].agent = AgentOf(c)
        BY <1>1, <1>4, <3>4, EventIs
      <3>6. EventOf(c) = e  BY <1>1, <1>16, <2>0, <3>1, <3>3, <3>5 DEF OneCommission
      <3>7. Net(paid[c]) \in Int /\ Net(paid[c]) < Threshold
        <4>1. Net(paid[c]) \in Int /\ ~(Net(paid[c]) >= Threshold)  BY <1>16, <3>2, NetIs
        <4> QED  BY <4>1 DEF Threshold
      <3>8. k.verdict = "revoke"  BY <1>1, <1>4, <3>2, <3>4, <3>5, <3>6, <3>7, VerdictIs
      <3>9. Mending(session[s], e)'
        BY <1>4, <1>5, <1>8, <1>12, <3>1, <3>6, <3>8 DEF Mending
      <3> QED  BY <1>15, <3>9
    <2> QED  BY <2>1, <2>2
  <1>18. UpToDate(n)
    <2>1. /\ n.verdict \in {"revoke", "requalify"} => event[n.id].cust = c
          /\ n.verdict = "requalify" => n.known.cust = c /\ n.known.agent = event[n.id].agent
          /\ n.verdict = "create" =>
                \A e \in 1 .. Len(event) : ~(event[e].cust = c /\ event[e].agent = AgentOf(c))
          /\ n.verdict \in {"create", "requalify"} => paid[c] >= Threshold
      BY <1>1, <1>4, <1>5, <1>16, ReadIs
    <2>2. Due(n) = paid[c]  BY <1>4, <1>5 DEF Due
    <2> QED  BY <1>4, <1>5, <2>1, <2>2 DEF UpToDate
  <1>19. ASSUME NEW t \in Threads, Judged(session'[t]) PROVE UpToDate(session[t])'
    <2>1. t = s
      <3>1. CASE t # s
        <4>1. session'[t] = Idle  BY <1>8, <1>14, <3>1 DEF Busy
        <4> QED  BY <1>19, <4>1 DEF Judged, Idle
      <3> QED  BY <3>1
    <2> QED  BY <1>8, <1>12, <1>18, <2>1 DEF UpToDate, Due
  <1> QED  BY <1>11, <1>13, <1>17, <1>19 DEF CommissionInv, Earned

\* The verdict is written.
LEMMA CommissionWrites ==
    ASSUME CommissionInv, Inv', OnePost, NEW s \in Threads, WriteLedger(s)
    PROVE  CommissionInv'
  <1>1. Inv /\ Alone /\ Locked /\ OneCommission /\ Earned /\ TablesTyped  BY DEF CommissionInv, Inv
  <1>2. PICK j : j = session[s]  OBVIOUS
  <1> DEFINE n == IF j.todo = 0 THEN Idle ELSE [h |-> j.h, todo |-> j.todo, cust |-> j.cust]
             c == j.cust
  <1>3. /\ j.h \in Posting /\ j \in PostJob /\ Fits(j, Len(customer), Len(event), Len(batch))
        /\ Judged(j) /\ c \in 1 .. Len(customer) /\ j.verdict \in Verdicts
        /\ event' = Evaluated(j) /\ UNCHANGED <<referral, customer, paid, batch>>
        /\ session' = [session EXCEPT ![s] = n]
    BY <1>1, <1>2, WritingIs DEF Judged
  <1>4. s \in Busy
    <2>1. j # Idle  BY <1>3 DEF Posting, Idle
    <2> QED  BY <1>2, <2>1 DEF Busy
  <1>5. n = Idle \/ (n.h = j.h /\ n.h \notin Money)  BY <1>3 DEF Posting, Money
  <1>6. ~Judged(n)  BY DEF Judged, Idle
  <1> HIDE DEF n
  <1>7. DOMAIN session = Threads  BY <1>1 DEF Inv
  <1>8. session'[s] = n /\ \A t \in Threads \ {s} : session'[t] = session[t]  BY <1>3, <1>7
  <1>9. Turns(s, n)  BY <1>2, <1>3, <1>4, <1>5 DEF Turns
  <1>10. Alone' /\ Locked'  BY <1>1, <1>3, <1>5, <1>9, AloneKept, LockedKept
  <1>11. Busy = {s}  BY <1>1, <1>2, <1>3, <1>4 DEF Alone, OnePost
  <1>12. UpToDate(j)  BY <1>2, <1>3 DEF CommissionInv
  <1>13. c \in Nat  BY <1>3
  <1>14. /\ Owners(c, j.agent)
         /\ Len(event)' = IF j.verdict = "create" THEN Len(event) + 1 ELSE Len(event)
         /\ \A e \in 1 .. Len(event) :
               event'[e].status = "qualified" =>
                  \/ event[e].status = "qualified" /\ ~(j.verdict = "revoke" /\ j.id = e)
                  \/ j.verdict = "requalify" /\ event[e].cust = c
    BY <1>1, <1>3, <1>12, <1>13, VerdictKeeps
  <1>15. Len(event) \in Nat  BY <1>1, TablesAre
  <1>16. j.verdict # "create" => Len(event)' # Len(event) + 1  BY <1>14, <1>15
  <1>17. OneCommission'
    <2>1. Len(event)' = Len(event) + 1 =>
             \A e \in 1 .. Len(event) : ~(event[e].cust = c /\ event[e].agent = j.agent)
      BY <1>12, <1>16 DEF UpToDate
    <2> QED  BY <1>1, <1>14, <2>1, OneKept
  <1>18. j.verdict \in {"create", "requalify"} => paid[c] >= Threshold
    <2>1. Due(j) = paid[c]  BY <1>3 DEF Due
    <2> QED  BY <1>12, <2>1 DEF UpToDate
  <1>19. ASSUME NEW e \in 1 .. Len(event)' PROVE EarnedNow(e)'
    <2>1. e \in 1 .. Len(event) \/ (e = Len(event) + 1 /\ Len(event)' = Len(event) + 1)
      BY <1>14, <1>15
    <2>2. CASE e \in 1 .. Len(event)
      <3>1. event'[e].cust = event[e].cust /\ event'[e].agent = event[e].agent
        BY <1>14, <2>2 DEF Owners
      <3>2. CASE j.verdict = "requalify" /\ event[e].cust = c
        BY <1>3, <1>18, <3>1, <3>2 DEF EarnedNow
      <3>3. CASE ~(j.verdict = "requalify" /\ event[e].cust = c)
        <4>1. event'[e].status = "qualified" =>
                 event[e].status = "qualified" /\ ~(j.verdict = "revoke" /\ j.id = e)
          BY <1>14, <2>2, <3>3
        <4>2. CASE EarnedNow(e)  BY <1>3, <3>1, <4>1, <4>2 DEF EarnedNow
        <4>3. CASE ~EarnedNow(e)
          <5>1. Mending(session[s], e)  BY <1>1, <1>11, <2>2, <4>3 DEF Earned
          <5>2. j.verdict = "revoke" /\ j.id = e  BY <1>2, <1>3, <5>1 DEF Mending
          <5> QED  BY <4>1, <5>2 DEF EarnedNow
        <4> QED  BY <4>2, <4>3
      <3> QED  BY <3>2, <3>3
    <2>3. CASE e = Len(event) + 1 /\ Len(event)' = Len(event) + 1
      <3>1. event'[e].cust = c /\ j.verdict = "create"  BY <1>14, <1>16, <2>3 DEF Owners
      <3> QED  BY <1>3, <1>18, <3>1 DEF EarnedNow
    <2> QED  BY <2>1, <2>2, <2>3
  <1>20. ASSUME NEW t \in Threads, Judged(session'[t]) PROVE FALSE
    <2>1. CASE t = s  BY <1>6, <1>8, <1>20, <2>1
    <2>2. CASE t # s
      <3>1. session'[t] = Idle  BY <1>8, <1>11, <2>2 DEF Busy
      <3> QED  BY <1>20, <3>1 DEF Judged, Idle
    <2> QED  BY <2>1, <2>2
  <1> QED  BY <1>10, <1>17, <1>19, <1>20 DEF CommissionInv, Earned

LEMMA CommissionPaying ==
    ASSUME CommissionInv, Inv', OnePost, NEW s \in Threads, Paying(s)
    PROVE  CommissionInv'
  <1>1. Inv /\ DOMAIN customer = 1 .. Len(customer) /\ Len(customer) \in Nat
    BY TablesAre DEF CommissionInv, Inv
  <1>2. ASSUME NEW c \in 1 .. Len(customer), NEW amount \in Months, OpenPay(s, c, amount)
        PROVE  CommissionInv'
    <2>1. amount \in Nat  BY AgentAssumption
    <2>2. PICK j : j = Job("pay", c, 0, amount, Net(paid[c] + amount))  OBVIOUS
    <2>3. Begin(s, j) /\ Unlocked(c)  BY <1>2, <2>2 DEF OpenPay
    <2>4. 0 \in 0 .. Len(customer) /\ "pay" \in Money  BY <1>1 DEF Money
    <2> QED  BY <2>1, <2>2, <2>3, <2>4, CommissionMoneyOpens
  <1>3. ASSUME NEW c \in 1 .. Len(customer), NEW d \in 1 .. Len(customer), NEW amount \in Months,
               OpenTransfer(s, c, d, amount)
        PROVE  CommissionInv'
    <2>1. amount \in Nat  BY AgentAssumption
    <2>2. PICK j : j = Job("transfer", c, d, amount, Net(paid[c] + amount))  OBVIOUS
    <2>3. Begin(s, j) /\ Unlocked(c) /\ Unlocked(d)  BY <1>3, <2>2 DEF OpenTransfer
    <2>4. d \in 0 .. Len(customer) /\ "transfer" \in Money  BY <1>1 DEF Money
    <2> QED  BY <2>1, <2>2, <2>3, <2>4, CommissionMoneyOpens
  <1>4. ASSUME NEW c \in 1 .. Len(customer), NEW amount \in Months, Refund(s, c, amount)
        PROVE  CommissionInv'
    <2>1. -amount \in Int  BY AgentAssumption
    <2>2. Post(s, "refund", c, -amount, 2)  BY <1>4 DEF Refund
    <2> QED  BY <2>1, <2>2, CommissionPosts DEF Posting
  <1>5. ASSUME NEW c \in 1 .. Len(customer), NEW old \in Months, NEW new \in Months, Correct(s, c, old, new)
        PROVE  CommissionInv'
    <2>1. new - old \in Int  BY AgentAssumption
    <2>2. Post(s, "correct", c, new - old, 1)  BY <1>5 DEF Correct
    <2> QED  BY <2>1, <2>2, CommissionPosts DEF Posting
  <1>6. ASSUME CommitPay(s) PROVE CommissionInv'
    <2>1. PICK j : j = session[s]  OBVIOUS
    <2>2. j.h = "pay"  BY <1>6, <2>1 DEF CommitPay, Doing
    <2>3. j \in PayJob /\ Fits(j, Len(customer), Len(event), Len(batch))
      BY <1>1, <2>1, <2>2, HeldIs, TypedIs
    <2>4. /\ paid' = [paid EXCEPT ![j.cust] = @ + j.amount] /\ event' = Evaluated(j)
          /\ UNCHANGED customer /\ session' = [session EXCEPT ![s] = Idle]
      BY <1>6, <2>1 DEF CommitPay, End
    <2>5. j.cust \in 1 .. Len(customer) /\ j.amount \in Nat  BY <2>3 DEF Fits, PayJob
    <2>6. DOMAIN paid = 1 .. Len(customer) /\ \A k \in 1 .. Len(customer) : paid[k] \in Int
      BY <1>1, TablesAre DEF Inv
    <2>7. paid'[j.cust] = paid[j.cust] + j.amount  BY <2>4, <2>5, <2>6
    <2>8. ASSUME NEW k \in 1 .. Len(customer) PROVE paid'[k] \in Int /\ paid'[k] >= paid[k]
      <3>1. CASE k = j.cust  BY <2>5, <2>6, <2>7, <3>1
      <3>2. CASE k # j.cust
        <4>1. paid'[k] = paid[k]  BY <2>4, <2>6, <3>2
        <4> QED  BY <2>6, <4>1
      <3> QED  BY <3>1, <3>2
    <2>9. \A k \in 1 .. Len(customer) :
             \/ customer'[k].moved
             \/ /\ customer'[k].original = customer[k].original
                /\ ~customer'[k].moved => ~customer[k].moved
                /\ paid'[k] \in Int /\ paid'[k] >= paid[k]
      BY <2>4, <2>8
    <2>10. customer'[j.cust].moved \/ paid'[j.cust] = paid[j.cust] + j.amount  BY <2>7
    <2>11. \A k \in 1 .. Len(customer) : k \notin Locks(j) => paid'[k] \in Int /\ paid'[k] >= paid[k]
      BY <2>8
    <2>12. j.h \in Money  BY <2>2 DEF Money
    <2> QED  BY <2>1, <2>3, <2>4, <2>9, <2>10, <2>11, <2>12, CommissionMoneyEnds
  <1>7. ASSUME CommitTransfer(s) PROVE CommissionInv'
    <2>1. PICK j : j = session[s]  OBVIOUS
    <2>2. /\ j.h = "transfer" /\ j \in PayJob /\ Fits(j, Len(customer), Len(event), Len(batch))
          /\ j.cust \in 1 .. Len(customer) /\ j.left \in 1 .. Len(customer)
          /\ session' = [session EXCEPT ![s] = Idle]
          /\ event' = Evaluated(j)
          /\ \A k \in 1 .. Len(customer) : customer'[k] =
                IF k = j.left THEN [customer[k] EXCEPT !.moved = TRUE] ELSE customer[k]
          /\ paid' \in Seq(Int) /\ Len(paid)' = Len(paid)
          /\ \A k \in 1 .. Len(customer) : k # j.left => paid'[k] >= paid[k]
          /\ j.left # j.cust => paid'[j.cust] = paid[j.cust] + j.amount
      <3>0. Inv /\ CommitTransfer(s)  BY <1>1, <1>7
      <3>1. /\ j.h = "transfer" /\ j \in PayJob /\ Fits(j, Len(customer), Len(event), Len(batch))
            /\ j.cust \in 1 .. Len(customer) /\ j.left \in 1 .. Len(customer)
            /\ session' = [session EXCEPT ![s] = Idle] /\ event' = Evaluated(j)
        BY <2>1, <3>0, TransferIs
      <3>2. \A k \in 1 .. Len(customer) : customer'[k] =
               IF k = j.left THEN [customer[k] EXCEPT !.moved = TRUE] ELSE customer[k]
        <4>1. customer' = [customer EXCEPT ![j.left] = [customer[j.left] EXCEPT !.moved = TRUE]]
          BY <2>1, <3>0 DEF CommitTransfer
        <4> QED  BY <1>1, <3>1, <4>1
      <3>3. /\ paid' \in Seq(Int) /\ Len(paid)' = Len(paid)
            /\ \A k \in 1 .. Len(customer) : k # j.left => paid'[k] >= paid[k]
        BY <2>1, <3>0, TransferIs
      <3>4. j.left # j.cust => paid'[j.cust] = paid[j.cust] + j.amount
        BY <2>1, <3>0, TransferIs
      <3> QED  BY <3>1, <3>2, <3>3, <3>4
    <2>3. customer'[j.left].moved
      <3>1. customer[j.left] \in Customer  BY <1>1, <2>2, TablesAre DEF Inv
      <3>2. customer'[j.left] = [customer[j.left] EXCEPT !.moved = TRUE]  BY <2>2
      <3> QED  BY <3>1, <3>2 DEF Customer
    <2>4. ASSUME NEW k \in 1 .. Len(customer), k # j.left
          PROVE  paid'[k] \in Int /\ paid'[k] >= paid[k] /\ customer'[k] = customer[k]
      <3>1. Len(paid) = Len(customer)  BY <1>1 DEF Inv, TablesTyped
      <3>2. paid'[k] \in Int  BY <2>2, <3>1, ElementOfSeq
      <3> QED  BY <2>2, <2>4, <3>2
    <2>5. \A k \in 1 .. Len(customer) :
             \/ customer'[k].moved
             \/ /\ customer'[k].original = customer[k].original
                /\ ~customer'[k].moved => ~customer[k].moved
                /\ paid'[k] \in Int /\ paid'[k] >= paid[k]
      BY <2>3, <2>4
    <2>6. customer'[j.cust].moved \/ paid'[j.cust] = paid[j.cust] + j.amount  BY <2>2, <2>3
    <2>7. j.h \in Money /\ Locks(j) = {j.cust, j.left}  BY <2>2 DEF Money, Locks
    <2>8. \A k \in 1 .. Len(customer) : k \notin Locks(j) => paid'[k] \in Int /\ paid'[k] >= paid[k]
      BY <2>4, <2>7
    <2> QED  BY <2>1, <2>2, <2>5, <2>6, <2>7, <2>8, CommissionMoneyEnds
  <1> QED
    BY <1>1, <1>2, <1>3, <1>4, <1>5, <1>6, <1>7, CommissionReads, CommissionWrites DEF Paying

LEMMA CommissionStep ==
    ASSUME CommissionInv, Inv', OnePost, Step
    PROVE  CommissionInv'
  <1>1. Inv /\ DOMAIN customer = 1 .. Len(customer)  BY TablesAre DEF CommissionInv, Inv
  <1>2. ASSUME NEW a \in Agents, StaffAdd(a) PROVE CommissionInv'
    <2>1. session' = session /\ UNCHANGED <<event, paid, customer>>  BY <1>2 DEF StaffAdd
    <2> QED  BY <2>1, CommissionAtOnce
  <1>3. ASSUME NEW i \in DOMAIN referral, Decline(i) PROVE CommissionInv'
    <2>1. session' = session /\ UNCHANGED <<event, paid, customer>>  BY <1>3 DEF Decline
    <2> QED  BY <2>1, CommissionAtOnce
  <1>4. ASSUME NEW c \in 1 .. Len(customer), NEW row \in Customer, row.from = customer[c].from,
               row.original = customer[c].original, row.moved = customer[c].moved,
               customer' = [customer EXCEPT ![c] = row], session' = session,
               UNCHANGED <<referral, paid, event, batch>>
        PROVE  CommissionInv'
    <2>1. \A k \in 1 .. Len(customer) : customer'[k] = IF k = c THEN row ELSE customer[k]
      BY <1>1, <1>4, CustomerSet DEF Inv
    <2>2. \A k \in 1 .. Len(customer) : /\ customer'[k].original = customer[k].original
                                        /\ customer'[k].moved = customer[k].moved
      BY <1>4, <2>1
    <2> QED  BY <1>4, <2>2, CommissionAtOnce
  <1>5. ASSUME NEW c \in 1 .. Len(customer), NEW a \in Agents \cup {NoOne}, Reassign(c, a) PROVE CommissionInv'
    <2> DEFINE row == [customer[c] EXCEPT !.agent = a]
    <2>1. customer[c] \in Customer  BY <1>1, TablesAre DEF Inv
    <2>2. row \in Customer /\ row.from = customer[c].from
          /\ row.original = customer[c].original /\ row.moved = customer[c].moved
      BY <2>1 DEF Customer
    <2>3. customer' = [customer EXCEPT ![c] = row] /\ session' = session /\ UNCHANGED <<referral, paid, event, batch>>
      BY <1>5 DEF Reassign
    <2> HIDE DEF row
    <2> QED  BY <1>4, <2>2, <2>3
  <1>6. ASSUME NEW c \in 1 .. Len(customer), CloseInstall(c) PROVE CommissionInv'
    <2> DEFINE row == [customer[c] EXCEPT !.closed = TRUE]
    <2>1. customer[c] \in Customer  BY <1>1, TablesAre DEF Inv
    <2>2. row \in Customer /\ row.from = customer[c].from
          /\ row.original = customer[c].original /\ row.moved = customer[c].moved
      BY <2>1 DEF Customer
    <2>3. customer' = [customer EXCEPT ![c] = row] /\ session' = session /\ UNCHANGED <<referral, paid, event, batch>>
      BY <1>6 DEF CloseInstall
    <2> HIDE DEF row
    <2> QED  BY <1>4, <2>2, <2>3
  <1> QED
    BY <1>1, <1>2, <1>3, <1>5, <1>6, CommissionReferring, CommissionReviewing, CommissionPaying,
       CommissionCashingOut
    DEF Step

LEMMA CommissionCorrect ==
    ASSUME OnePost
    PROVE  Spec => []CommissionInv
  <1>1. Init => CommissionInv
    <2> SUFFICES ASSUME Init PROVE CommissionInv  OBVIOUS
    <2>1. Inv  BY InvHoldsAtFirst
    <2>2. \A s \in Threads : session[s] = Idle  BY DEF Init
    <2>3. Busy = {} /\ event = <<>>  BY <2>2 DEF Busy, Init
    <2>4. \A s \in Threads : ~Judged(session[s])  BY <2>2 DEF Judged, Idle
    <2>5. Earned /\ OneCommission  BY <2>3 DEF Earned, OneCommission
    <2> QED  BY <2>1, <2>3, <2>4, <2>5 DEF CommissionInv, Alone, Locked
  <1>2. CommissionInv /\ Inv' /\ [Next]_vars => CommissionInv'
    <2> SUFFICES ASSUME CommissionInv, Inv', [Next]_vars PROVE CommissionInv'  OBVIOUS
    <2>1. CASE Step  BY <2>1, CommissionStep
    <2>2. CASE UNCHANGED vars
      <3>1. session' = session /\ UNCHANGED <<event, paid, customer>>  BY <2>2 DEF vars
      <3> QED  BY <3>1, CommissionAtOnce
    <2> QED  BY <2>1, <2>2 DEF Next, AtRest
  <1> QED  BY <1>1, <1>2, InvCorrect, PTL DEF Spec

(* However many payments, transfers and payouts interleave, a customer earns an *)
(* agent one commission, if refunds and corrections, which lock no row, come    *)
(* with no other request under way (incentives.py:58, refunds.py:97).          *)
THEOREM CommissionIsOne ==
    ASSUME OnePost
    PROVE  Spec => []OneCommission
  <1>1. CommissionInv => OneCommission  BY DEF CommissionInv
  <1> QED  BY <1>1, CommissionCorrect, PTL

(* A commission that is not paid out stands on two paid months whenever no      *)
(* request is under way, refunds and corrections included, on the same condition*)
(* (incentives.py:88-120).                                                      *)
THEOREM CommissionIsEarned ==
    ASSUME OnePost
    PROVE  Spec => []QualifiedIsEarned
  <1>1. CommissionInv => QualifiedIsEarned
    <2> SUFFICES ASSUME CommissionInv, Busy = {}, NEW e \in DOMAIN event PROVE EarnedNow(e)
      BY DEF QualifiedIsEarned, Quiet, EarnedNow
    <2>1. e \in 1 .. Len(event)  BY TablesAre DEF CommissionInv, Inv
    <2> QED  BY <2>1 DEF CommissionInv, Earned
  <1> QED  BY <1>1, CommissionCorrect, PTL

-----------------------------------------------------------------------------
(* The payout batches *)

\* The least number of a set.
LEMMA LeastIs ==
    ASSUME NEW S \in SUBSET Nat, S # {}
    PROVE  \E h \in S : \A x \in S : h <= x
  <1> DEFINE R == OpToRel(<, Nat)
  <1>1. IsWellFoundedOn(R, Nat)  BY NatLessThanWellFounded DEF R
  <1>2. PICK h \in S : \A y \in S : ~(<<y, h>> \in R)
    <2> HIDE DEF R
    <2> QED  BY <1>1, WFMin
  <1>3. ASSUME NEW x \in S PROVE h <= x
    <2>1. x \in Nat /\ h \in Nat  OBVIOUS
    <2>2. ~(x < h)  BY <1>2, <2>1 DEF R, OpToRel
    <2> QED  BY <2>1, <2>2
  <1> QED  BY <1>3

\* The n oldest of a set that has as many are n.
LEMMA OldestAre ==
    ASSUME NEW S \in SUBSET Nat, IsFiniteSet(S), NEW n \in Nat, n <= Cardinality(S)
    PROVE  Cardinality(Oldest(S, n)) = n
  <1> DEFINE Below(x) == {i \in S : i < x}
             Wrong == {m \in Nat : m <= Cardinality(S) /\ Cardinality(Oldest(S, m)) # m}
  <1>1. \A x \in S : IsFiniteSet(Below(x)) /\ Cardinality(Below(x)) \in Nat
    <2> SUFFICES ASSUME NEW x \in S PROVE IsFiniteSet(Below(x)) /\ Cardinality(Below(x)) \in Nat
      OBVIOUS
    <2>1. Below(x) \subseteq S  OBVIOUS
    <2> HIDE DEF Below
    <2>2. IsFiniteSet(Below(x))  BY <2>1, FS_Subset
    <2> QED  BY <2>2, FS_CardinalityType
  <1>2. \A m \in Nat : Oldest(S, m) = {x \in S : Cardinality(Below(x)) < m}  BY DEF Oldest
  <1>3. \A m \in Nat : Oldest(S, m) \subseteq S /\ IsFiniteSet(Oldest(S, m))
    <2> SUFFICES ASSUME NEW m \in Nat PROVE Oldest(S, m) \subseteq S /\ IsFiniteSet(Oldest(S, m))
      OBVIOUS
    <2>1. Oldest(S, m) \subseteq S  BY <1>2
    <2> QED  BY <2>1, FS_Subset
  <1>4. Cardinality(S) \in Nat  BY FS_CardinalityType
  <1>5. SUFFICES ASSUME Wrong # {} PROVE FALSE
    <2>1. n \notin Wrong  BY <1>5
    <2> QED  BY <2>1
  <1>6. PICK m \in Wrong : \A x \in Wrong : m <= x  BY <1>5, LeastIs
  <1>7. m \in Nat /\ m <= Cardinality(S) /\ Cardinality(Oldest(S, m)) # m  OBVIOUS
  <1>8. m # 0
    <2>1. Oldest(S, 0) = {}
      <3> HIDE DEF Below
      <3>1. \A x \in S : ~(Cardinality(Below(x)) < 0)  BY <1>1
      <3>2. Oldest(S, 0) = {x \in S : Cardinality(Below(x)) < 0}  BY <1>2
      <3> QED  BY <3>1, <3>2
    <2>2. Cardinality(Oldest(S, 0)) = 0  BY <2>1, FS_EmptySet
    <2> QED  BY <1>7, <2>2
  <1> DEFINE k == m - 1
  <1>9. k \in Nat /\ k < m /\ k < Cardinality(S) /\ m = k + 1  BY <1>4, <1>7, <1>8
  <1>10. Cardinality(Oldest(S, k)) = k
    <2>1. k \notin Wrong  BY <1>6, <1>9
    <2> QED  BY <1>4, <1>9, <2>1
  <1> HIDE DEF k, Wrong
  <1> DEFINE old == Oldest(S, k)
             rest == S \ old
  <1>11. old \subseteq S /\ IsFiniteSet(old) /\ Cardinality(old) = k
    BY <1>3, <1>9, <1>10
  <1>12. \A x \in S : x \in old <=> Cardinality(Below(x)) < k  BY <1>2, <1>9
  <1> HIDE DEF old
  <1>13. rest # {}
    <2>1. old # S  BY <1>9, <1>11
    <2> QED  BY <1>11, <2>1
  <1>14. PICK h \in rest : \A x \in rest : h <= x
    <2>1. rest \in SUBSET Nat  OBVIOUS
    <2> HIDE DEF rest
    <2> QED  BY <1>13, <2>1, LeastIs
  <1>15. h \in S /\ h \in Nat /\ h \notin old  OBVIOUS
  <1>16. \A x, y \in S : x <= y => Cardinality(Below(x)) <= Cardinality(Below(y))
    <2> SUFFICES ASSUME NEW x \in S, NEW y \in S, x <= y
                 PROVE  Cardinality(Below(x)) <= Cardinality(Below(y))
      OBVIOUS
    <2>1. Below(x) \subseteq Below(y)
      <3> SUFFICES ASSUME NEW i \in S, i < x PROVE i < y  OBVIOUS
      <3>1. i \in Nat /\ x \in Nat /\ y \in Nat  OBVIOUS
      <3> QED  BY <3>1
    <2>2. IsFiniteSet(Below(y))  BY <1>1
    <2> HIDE DEF Below
    <2> QED  BY <2>1, <2>2, FS_Subset
  <1>17. Below(h) = old
    <2>1. ASSUME NEW x \in S, x < h PROVE x \in old
      <3>1. x \in Nat /\ ~(h <= x)  BY <1>15, <2>1
      <3> QED  BY <1>14, <3>1
    <2>2. ASSUME NEW x \in old PROVE x < h
      <3>1. x \in S /\ x \in Nat  BY <1>11
      <3>2. CASE h <= x
        <4>1. Cardinality(Below(h)) <= Cardinality(Below(x))  BY <1>15, <1>16, <3>1, <3>2
        <4>2. Cardinality(Below(x)) < k  BY <1>12, <3>1
        <4>3. Cardinality(Below(h)) \in Nat /\ Cardinality(Below(x)) \in Nat  BY <1>1, <1>15, <3>1
        <4> HIDE DEF Below
        <4>4. Cardinality(Below(h)) < k  BY <1>9, <4>1, <4>2, <4>3
        <4> QED  BY <1>12, <1>15, <4>4
      <3> QED  BY <1>15, <3>1, <3>2
    <2> QED  BY <1>11, <2>1, <2>2
  <1>18. Oldest(S, m) = old \cup {h}
    <2>1. ASSUME NEW x \in Oldest(S, m) PROVE x \in old \cup {h}
      <3>1. x \in S /\ Cardinality(Below(x)) < m  BY <1>2, <1>7
      <3>2. CASE x \in old  BY <3>2
      <3>3. CASE x \notin old /\ x # h
        <4>1. h <= x /\ x \in Nat  BY <1>14, <3>1, <3>3
        <4>2. h < x  BY <1>15, <3>3, <4>1
        <4>3. old \cup {h} \subseteq Below(x)
          <5>1. \A y \in Below(h) : y < x
            <6> SUFFICES ASSUME NEW y \in S, y < h PROVE y < x  OBVIOUS
            <6>1. y \in Nat  OBVIOUS
            <6> QED  BY <1>15, <4>1, <4>2, <6>1
          <5>2. h \in Below(x)  BY <1>15, <4>2
          <5> QED  BY <1>11, <1>17, <5>1, <5>2
        <4>4. Cardinality(old \cup {h}) = k + 1 /\ IsFiniteSet(old \cup {h})  BY <1>11, <1>15, FS_AddElement
        <4>5. IsFiniteSet(Below(x)) /\ Cardinality(Below(x)) \in Nat  BY <1>1, <3>1
        <4> HIDE DEF Below
        <4>6. k + 1 <= Cardinality(Below(x))  BY <4>3, <4>4, <4>5, FS_Subset
        <4> QED  BY <1>9, <3>1, <4>5, <4>6
      <3> QED  BY <3>2, <3>3
    <2>2. ASSUME NEW x \in old \cup {h} PROVE x \in Oldest(S, m)
      <3>1. CASE x = h
        <4>1. Cardinality(Below(h)) = k  BY <1>11, <1>17
        <4> HIDE DEF Below
        <4> QED  BY <1>2, <1>7, <1>9, <1>15, <3>1, <4>1
      <3>2. CASE x \in old
        <4>1. x \in S /\ Cardinality(Below(x)) < k /\ Cardinality(Below(x)) \in Nat  BY <1>1, <1>11, <1>12, <3>2
        <4> HIDE DEF Below
        <4>2. Cardinality(Below(x)) < m  BY <1>9, <4>1
        <4> QED  BY <1>2, <1>7, <4>1, <4>2
      <3> QED  BY <3>1, <3>2
    <2> QED  BY <2>1, <2>2
  <1>19. Cardinality(old \cup {h}) = k + 1  BY <1>11, <1>15, FS_AddElement
  <1> QED  BY <1>7, <1>9, <1>18, <1>19

Payouts == {"batch", "markPaid"}

\* What was read of a commission was not paid out since, and is in the same batch.
Fresh(j) ==
    /\ j.verdict \in {"revoke", "requalify"} => event[j.id].status # "paid_out"
    /\ j.verdict = "requalify" => j.known.batch = event[j.id].batch

\* The commissions of a batch about to be created.
Counted(j) ==
    /\ Cardinality(j.events) = j.size
    /\ \A e \in j.events : event[e].batch = 0 /\ event[e].status = "qualified"

Agreeing(e) ==
    event[e].status = "paid_out" <=> event[e].batch # 0 /\ batch[event[e].batch].status = "paid"
InBatch(b) == {e \in DOMAIN event : event[e].batch = b}

BatchInv ==
    /\ Inv /\ Alone
    /\ \A e \in 1 .. Len(event) : Agreeing(e)
    /\ \A b \in 1 .. Len(batch) : batch[b].amount = Rate * Cardinality(InBatch(b))
    /\ \A s \in Threads : Judged(session[s]) => Fresh(session[s])
    /\ \A s \in Threads : session[s].h = "batch" => Counted(session[s])

\* Batches are created and paid with no other request under way.
OnePayout == Payouts \subseteq Exclusive

\* What was paid out is not written any more.
Final == \A e \in 1 .. Len(event) : event[e].status = "paid_out" => event'[e] = event[e]

\* The ledger and the batches stay, and at most a thread turns to something else.
LEMMA PayoutStays ==
    ASSUME BatchInv, Inv', NEW s \in Threads, NEW j, Turns(s, j), UNCHANGED <<event, batch>>,
           Judged(j) => Fresh(j), j.h = "batch" => Counted(j)
    PROVE  BatchInv' /\ Final
  <1>1. Inv /\ Alone  BY DEF BatchInv
  <1>2. session'[s] = j /\ \A t \in Threads \ {s} : session'[t] = session[t]
    <2>1. session' = [session EXCEPT ![s] = j] /\ DOMAIN session = Threads  BY <1>1 DEF Turns, Inv
    <2> QED  BY <2>1
  <1>3. Alone'  BY <1>1, AloneKept
  <1>4. \A e \in 1 .. Len(event)' : Agreeing(e)'  BY DEF BatchInv, Agreeing
  <1>5. \A b \in 1 .. Len(batch)' : batch'[b].amount = Rate * Cardinality(InBatch(b)')
    BY DEF BatchInv, InBatch
  <1>6. ASSUME NEW t \in Threads
        PROVE  /\ Judged(session'[t]) => Fresh(session[t])'
               /\ session'[t].h = "batch" => Counted(session[t])'
    <2>1. CASE t = s  BY <1>2, <2>1 DEF Fresh, Counted
    <2>2. CASE t # s
      <3>1. session'[t] = session[t]  BY <1>2, <2>2
      <3>2. /\ Judged(session[t]) => Fresh(session[t])
            /\ session[t].h = "batch" => Counted(session[t])
        BY DEF BatchInv
      <3> QED  BY <3>1, <3>2 DEF Fresh, Counted
    <2> QED  BY <2>1, <2>2
  <1>7. Final  BY DEF Final
  <1> QED  BY <1>3, <1>4, <1>5, <1>6, <1>7 DEF BatchInv

LEMMA PayoutAtOnce ==
    ASSUME BatchInv, Inv', session' = session, UNCHANGED <<event, batch>>
    PROVE  BatchInv' /\ Final
  <1>1. Alone'  BY DEF BatchInv, Alone, Busy
  <1>2. \A e \in 1 .. Len(event)' : Agreeing(e)'  BY DEF BatchInv, Agreeing
  <1>3. \A b \in 1 .. Len(batch)' : batch'[b].amount = Rate * Cardinality(InBatch(b)')
    BY DEF BatchInv, InBatch
  <1>4. ASSUME NEW t \in Threads
        PROVE  /\ Judged(session'[t]) => Fresh(session[t])'
               /\ session'[t].h = "batch" => Counted(session[t])'
    <2>1. /\ Judged(session[t]) => Fresh(session[t])
          /\ session[t].h = "batch" => Counted(session[t])
      BY DEF BatchInv
    <2> QED  BY <2>1 DEF Fresh, Counted
  <1>5. Final  BY DEF Final
  <1> QED  BY <1>1, <1>2, <1>3, <1>4, <1>5 DEF BatchInv

\* A verdict is written: on a commission that was not paid out, with its batch.
LEMMA PayoutWrites ==
    ASSUME BatchInv, Inv', OnePayout, NEW s \in Threads, NEW j, j = session[s], s \in Busy,
           j.h \notin Payouts, Judged(j), j.verdict \in Verdicts, j.cust \in Nat,
           Fits(j, Len(customer), Len(event), Len(batch)), event' = Evaluated(j), UNCHANGED batch,
           NEW n, Turns(s, n), ~Judged(n), n.h # "batch"
    PROVE  BatchInv' /\ Final
  <1>1. Inv /\ Alone /\ TablesTyped  BY DEF BatchInv, Inv
  <1>2. session'[s] = n /\ \A t \in Threads \ {s} : session'[t] = session[t]
    <2>1. session' = [session EXCEPT ![s] = n] /\ DOMAIN session = Threads  BY <1>1 DEF Turns, Inv
    <2> QED  BY <2>1
  <1>3. Alone'  BY <1>1, AloneKept
  <1>4. \A t \in Busy : session[t].h \notin Payouts  BY <1>1, NoneOf DEF OnePayout
  <1>5. Fresh(j)  BY DEF BatchInv
  <1>6. /\ Len(event) \in Nat /\ DOMAIN event = 1 .. Len(event)
        /\ \A e \in 1 .. Len(event) : event[e] \in Event
    BY <1>1, TablesAre
  <1>7. /\ event' \in Seq(Event)
        /\ Len(event)' = IF j.verdict = "create" THEN Len(event) + 1 ELSE Len(event)
        /\ \A i \in 1 .. Len(event) : event'[i] =
              IF j.verdict = "revoke" /\ i = j.id THEN [event[i] EXCEPT !.status = "revoked"]
              ELSE IF j.verdict = "requalify" /\ i = j.id THEN [j.known EXCEPT !.status = "qualified"]
              ELSE event[i]
        /\ j.verdict = "create" => event'[Len(event) + 1] = [cust |-> j.cust, agent |-> j.agent,
                                                             status |-> "qualified", batch |-> 0]
    BY <1>1, EvaluatedIs
  <1>8. ASSUME NEW e \in 1 .. Len(event)
        PROVE  /\ event'[e].batch = event[e].batch
               /\ event'[e] = event[e] \/ (event[e].status # "paid_out" /\ event'[e].status # "paid_out")
    <2>1. CASE j.verdict = "revoke" /\ e = j.id
      <3>1. event'[e] = [event[e] EXCEPT !.status = "revoked"]  BY <1>7, <2>1
      <3>2. event'[e].batch = event[e].batch /\ event'[e].status = "revoked"
        BY <1>6, <3>1 DEF Event
      <3>3. event[e].status # "paid_out"  BY <1>5, <2>1 DEF Fresh
      <3> QED  BY <3>2, <3>3
    <2>2. CASE j.verdict = "requalify" /\ e = j.id
      <3>1. event'[e] = [j.known EXCEPT !.status = "qualified"]  BY <1>7, <2>2
      <3>2. j.known \in Event  BY <2>2 DEF Fits
      <3>3. event'[e].batch = j.known.batch /\ event'[e].status = "qualified"  BY <3>1, <3>2 DEF Event
      <3>4. event[e].status # "paid_out" /\ j.known.batch = event[e].batch  BY <1>5, <2>2 DEF Fresh
      <3> QED  BY <3>3, <3>4
    <2>3. CASE ~(j.verdict = "revoke" /\ e = j.id) /\ ~(j.verdict = "requalify" /\ e = j.id)
      <3>1. event'[e] = event[e]  BY <1>7, <2>3
      <3> QED  BY <3>1
    <2> QED  BY <2>1, <2>2, <2>3
  <1>9. ASSUME NEW e \in 1 .. Len(event)', e \notin 1 .. Len(event)
        PROVE  event'[e].batch = 0 /\ event'[e].status = "qualified"
    <2>1. e = Len(event) + 1 /\ j.verdict = "create"  BY <1>6, <1>7, <1>9
    <2>2. event'[e] = [cust |-> j.cust, agent |-> j.agent, status |-> "qualified", batch |-> 0]
      BY <1>7, <2>1
    <2> QED  BY <2>2
  <1>10. ASSUME NEW e \in 1 .. Len(event)' PROVE Agreeing(e)'
    <2>1. CASE e \in 1 .. Len(event)
      <3>1. Agreeing(e)  BY <2>1 DEF BatchInv
      <3>2. event'[e].batch = event[e].batch  BY <1>8, <2>1
      <3>3. CASE event'[e] = event[e]
        <4>1. event'[e].status = event[e].status  BY <3>3
        <4> QED  BY <3>1, <3>2, <4>1 DEF Agreeing
      <3>4. CASE event[e].status # "paid_out" /\ event'[e].status # "paid_out"
        BY <3>1, <3>2, <3>4 DEF Agreeing
      <3> QED  BY <1>8, <2>1, <3>3, <3>4
    <2>2. CASE e \notin 1 .. Len(event)  BY <1>9, <2>2 DEF Agreeing
    <2> QED  BY <2>1, <2>2
  <1>11. ASSUME NEW b \in 1 .. Len(batch)' PROVE batch'[b].amount = Rate * Cardinality(InBatch(b)')
    <2>1. (DOMAIN event)' = 1 .. Len(event)'  BY <1>7, LenProperties
    <2>2. InBatch(b)' = InBatch(b)
      <3>1. ASSUME NEW e \in 1 .. Len(event)' PROVE event'[e].batch = b <=> (e \in 1 .. Len(event) /\ event[e].batch = b)
        <4>1. CASE e \in 1 .. Len(event)  BY <1>8, <4>1
        <4>2. CASE e \notin 1 .. Len(event)
          <5>1. event'[e].batch = 0 /\ b # 0  BY <1>9, <4>2
          <5> QED  BY <4>2, <5>1
        <4> QED  BY <4>1, <4>2
      <3>2. 1 .. Len(event) \subseteq 1 .. Len(event)'  BY <1>6, <1>7
      <3> QED  BY <1>6, <2>1, <3>1, <3>2 DEF InBatch
    <2>3. batch[b].amount = Rate * Cardinality(InBatch(b))  BY DEF BatchInv
    <2> QED  BY <2>2, <2>3
  <1>12. ASSUME NEW t \in Threads, Judged(session'[t]) PROVE Fresh(session[t])'
    <2>1. t # s /\ session'[t] = session[t]  BY <1>2, <1>12
    <2>2. Fresh(session[t]) /\ Judged(session[t])  BY <1>12, <2>1 DEF BatchInv
    <2>3. PICK i : i = session[t]  OBVIOUS
    <2>4. i.verdict \in {"revoke", "requalify"} => i.id \in 1 .. Len(event)
      <3>1. i # Idle  BY <2>2, <2>3 DEF Judged, Idle
      <3>2. Fits(i, Len(customer), Len(event), Len(batch))
        BY <1>1, <2>2, <2>3, <3>1, HeldIs, TypedIs DEF Judged
      <3> QED  BY <3>2 DEF Fits
    <2>5. i.verdict \in {"revoke", "requalify"} =>
             event'[i.id].batch = event[i.id].batch /\ event'[i.id].status # "paid_out"
      <3>1. i.verdict \in {"revoke", "requalify"} => event[i.id].status # "paid_out"
        BY <2>2, <2>3 DEF Fresh
      <3> QED  BY <1>8, <2>4, <3>1
    <2> QED  BY <2>1, <2>2, <2>3, <2>5 DEF Fresh
  <1>13. ASSUME NEW t \in Threads, session'[t].h = "batch" PROVE FALSE
    <2>1. t # s /\ session'[t] = session[t]  BY <1>2, <1>13
    <2>2. t \in Busy  BY <1>13, <2>1 DEF Busy, Idle
    <2> QED  BY <1>4, <1>13, <2>1, <2>2 DEF Payouts
  <1>14. Final  BY <1>8 DEF Final
  <1> QED  BY <1>3, <1>10, <1>11, <1>12, <1>13, <1>14 DEF BatchInv

LEMMA ReadIsFresh ==
    ASSUME TablesTyped, NEW c \in 1 .. Len(customer), NEW net \in Int, NEW j,
           j.verdict = Verdict(c, Known(c), net), j.known = Known(c), j.id = EventOf(c)
    PROVE  Fresh(j)
  <1>1. /\ j.verdict \in {"revoke", "requalify"} => EventsOf(c) # {}
        /\ j.verdict = "revoke" => Known(c).status = "qualified"
        /\ j.verdict = "requalify" => Known(c).status = "revoked"
    BY VerdictIs
  <1>2. EventsOf(c) # {} => Known(c) = event[EventOf(c)]  BY EventIs
  <1> QED  BY <1>1, <1>2 DEF Fresh

LEMMA BatchBegins ==
    ASSUME BatchInv, Inv', NEW s \in Threads, NEW a \in Agents, NEW n \in Nat, OpenBatch(s, a, n)
    PROVE  BatchInv' /\ Final
  <1> DEFINE ev == Oldest(Unpaid(a), n)
  <1>1. PICK j : j = [h |-> "batch", agent |-> a, size |-> n, events |-> ev]  OBVIOUS
  <1>2. Begin(s, j)  BY <1>1 DEF OpenBatch
  <1>3. Turns(s, j) /\ UNCHANGED <<event, batch>>
    <2>1. Turns(s, j) /\ UNCHANGED Tables  BY <1>2, BeginIs
    <2> QED  BY <2>1 DEF Tables
  <1>4. j.events = ev /\ j.size = n /\ ~Judged(j)  BY <1>1 DEF Judged
  <1>5. Len(event) \in Nat /\ DOMAIN event = 1 .. Len(event)  BY TablesAre DEF BatchInv, Inv
  <1>6. n <= Cardinality(Unpaid(a))
    <2>1. n \in Offered(a)  BY DEF OpenBatch
    <2>2. n \in 1 .. Cardinality(Unpaid(a))  BY <2>1 DEF Offered
    <2>3. IsFiniteSet(Unpaid(a))
      <3>1. IsFiniteSet(1 .. Len(event))  BY <1>5, FS_Interval
      <3>2. Unpaid(a) \subseteq 1 .. Len(event)  BY <1>5 DEF Unpaid
      <3> QED  BY <3>1, <3>2, FS_Subset
    <2>4. Cardinality(Unpaid(a)) \in Nat  BY <2>3, FS_CardinalityType
    <2> QED  BY <2>2, <2>4
  <1>7. Unpaid(a) \in SUBSET Nat /\ IsFiniteSet(Unpaid(a))
    <2>1. IsFiniteSet(1 .. Len(event))  BY <1>5, FS_Interval
    <2>2. Unpaid(a) \subseteq 1 .. Len(event)  BY <1>5 DEF Unpaid
    <2> QED  BY <2>1, <2>2, FS_Subset
  <1>8. Cardinality(ev) = n  BY <1>6, <1>7, OldestAre
  <1>9. \A e \in ev : event[e].batch = 0 /\ event[e].status = "qualified"
    BY DEF Oldest, Unpaid
  <1> HIDE DEF ev
  <1>10. Counted(j)  BY <1>4, <1>8, <1>9 DEF Counted
  <1> QED  BY <1>3, <1>4, <1>10, PayoutStays

\* A batch is created out of qualified commissions in no batch.
LEMMA BatchEnds ==
    ASSUME BatchInv, Inv', OnePayout, NEW s \in Threads, CommitBatch(s)
    PROVE  BatchInv' /\ Final
  <1>1. Inv /\ Alone /\ TablesTyped /\ DOMAIN session = Threads  BY DEF BatchInv, Inv
  <1>2. PICK j : j = session[s]  OBVIOUS
  <1> DEFINE m == Len(batch) + 1
  <1>3. /\ j.h = "batch" /\ j \in [h : {"batch"}, agent : Agents, size : Nat, events : SUBSET Nat]
        /\ j.events \subseteq 1 .. Len(event) /\ TablesTyped'
        /\ session' = [session EXCEPT ![s] = Idle]
        /\ Len(event)' = Len(event) /\ Len(batch)' = m
    BY <1>1, <1>2, BatchingIs
  <1>4. /\ \A b \in 1 .. Len(batch) : batch'[b] = batch[b]
        /\ batch'[m] = [agent |-> j.agent, amount |-> Rate * j.size, status |-> "pending"]
    BY <1>1, <1>2, BatchingIs
  <1>5. /\ \A e \in j.events : event'[e] = [event[e] EXCEPT !.batch = m]
        /\ \A e \in 1 .. Len(event) : e \notin j.events => event'[e] = event[e]
    <2>1. DOMAIN event = 1 .. Len(event)  BY <1>1, TablesAre
    <2>2. event' = [i \in DOMAIN event |->
                       IF i \in j.events THEN [event[i] EXCEPT !.batch = Len(batch) + 1] ELSE event[i]]
      BY <1>2 DEF CommitBatch
    <2> QED  BY <1>3, <2>1, <2>2
  <1>6. /\ Len(event) \in Nat /\ Len(batch) \in Nat /\ DOMAIN event = 1 .. Len(event)
        /\ \A e \in 1 .. Len(event) : event[e] \in Event /\ event[e].batch \in 0 .. Len(batch)
    BY <1>1, TablesAre DEF TablesTyped
  <1>7. m \in Nat /\ m # 0 /\ m \notin 0 .. Len(batch)  BY <1>6
  <1>8. Counted(j)  BY <1>2, <1>3 DEF BatchInv
  <1> HIDE DEF m
  <1>9. ASSUME NEW e \in j.events
        PROVE  event'[e].batch = m /\ event'[e].status = "qualified" /\ event[e].status = "qualified" /\ event[e].batch = 0
    <2>1. event[e] \in Event  BY <1>3, <1>6
    <2>2. event[e].status = "qualified" /\ event[e].batch = 0  BY <1>8 DEF Counted
    <2>3. event'[e] = [event[e] EXCEPT !.batch = m]  BY <1>5
    <2> QED  BY <2>1, <2>2, <2>3 DEF Event
  <1>10. (DOMAIN event)' = 1 .. Len(event)
    <2>1. event' \in Seq(Event)  BY <1>3 DEF TablesTyped
    <2> QED  BY <1>3, <2>1, LenProperties
  <1>11. ASSUME NEW e \in 1 .. Len(event)' PROVE Agreeing(e)'
    <2>1. CASE e \in j.events
      <3>1. batch'[m].status = "pending"  BY <1>4
      <3> QED  BY <1>9, <2>1, <3>1 DEF Agreeing
    <2>2. CASE e \notin j.events
      <3>1. e \in 1 .. Len(event) /\ event'[e] = event[e]  BY <1>3, <1>5, <2>2
      <3>2. Agreeing(e)  BY <3>1 DEF BatchInv
      <3>3. event[e].batch # 0 => event[e].batch \in 1 .. Len(batch)  BY <1>6, <3>1
      <3>4. event[e].batch # 0 => batch'[event[e].batch] = batch[event[e].batch]  BY <1>4, <3>3
      <3> QED  BY <3>1, <3>2, <3>4 DEF Agreeing
    <2> QED  BY <2>1, <2>2
  <1>12. ASSUME NEW b \in 1 .. Len(batch)' PROVE batch'[b].amount = Rate * Cardinality(InBatch(b)')
    <2>1. CASE b \in 1 .. Len(batch)
      <3>1. InBatch(b)' = InBatch(b)
        <4>1. ASSUME NEW e \in 1 .. Len(event) PROVE event'[e].batch = b <=> event[e].batch = b
          <5>1. CASE e \in j.events
            <6>1. b # m /\ b # 0
              <7>1. b \in 0 .. Len(batch) /\ b # 0  BY <2>1
              <7> QED  BY <1>7, <7>1
            <6> QED  BY <1>9, <5>1, <6>1
          <5>2. CASE e \notin j.events  BY <1>5, <5>2
          <5> QED  BY <5>1, <5>2
        <4> QED  BY <1>6, <1>10, <4>1 DEF InBatch
      <3>2. batch[b].amount = Rate * Cardinality(InBatch(b))  BY <2>1 DEF BatchInv
      <3> QED  BY <1>4, <2>1, <3>1, <3>2
    <2>2. CASE b = m
      <3>1. InBatch(b)' = j.events
        <4>1. ASSUME NEW e \in 1 .. Len(event) PROVE event'[e].batch = b <=> e \in j.events
          <5>1. CASE e \in j.events  BY <1>9, <2>2, <5>1
          <5>2. CASE e \notin j.events
            <6>1. event'[e].batch \in 0 .. Len(batch)  BY <1>5, <1>6, <5>2
            <6> QED  BY <1>7, <2>2, <5>2, <6>1
          <5> QED  BY <5>1, <5>2
        <4> QED  BY <1>3, <1>10, <4>1 DEF InBatch
      <3>2. Cardinality(j.events) = j.size  BY <1>8 DEF Counted
      <3>3. batch'[m].amount = Rate * j.size  BY <1>4
      <3> QED  BY <2>2, <3>1, <3>2, <3>3
    <2>3. b \in 1 .. Len(batch) \/ b = m  BY <1>3, <1>6 DEF m
    <2> QED  BY <2>1, <2>2, <2>3
  <1>13. Final
    <2> SUFFICES ASSUME NEW e \in 1 .. Len(event), event[e].status = "paid_out" PROVE event'[e] = event[e]
      BY DEF Final
    <2>1. e \notin j.events  BY <1>9
    <2> QED  BY <1>5, <2>1
  <1>14. Busy = {s}
    <2>1. s \in Busy /\ session[s].h = "batch"
      <3>1. Doing(s, "batch")  BY DEF CommitBatch
      <3> QED  BY <3>1, DoingIs
    <2> QED  BY <1>1, <2>1 DEF Alone, OnePayout, Payouts
  <1>15. \A t \in Threads : session'[t] = Idle
    <2>1. \A t \in Threads : t # s => session[t] = Idle  BY <1>14 DEF Busy
    <2> QED  BY <1>1, <1>3, <2>1
  <1>16. Alone'  BY <1>15 DEF Alone, Busy
  <1>17. \A t \in Threads : ~Judged(session'[t]) /\ session'[t].h # "batch"  BY <1>15 DEF Judged, Idle
  <1> QED  BY <1>11, <1>12, <1>13, <1>16, <1>17 DEF BatchInv

\* A batch is paid with all its commissions.
LEMMA MarkEnds ==
    ASSUME BatchInv, Inv', OnePayout, NEW s \in Threads, CommitMarkPaid(s)
    PROVE  BatchInv' /\ Final
  <1>1. Inv /\ Alone /\ TablesTyped /\ DOMAIN session = Threads  BY DEF BatchInv, Inv
  <1>2. PICK b : b = session[s].id  OBVIOUS
  <1>3. /\ b \in 1 .. Len(batch) /\ TablesTyped' /\ session' = [session EXCEPT ![s] = Idle]
        /\ Len(event)' = Len(event) /\ Len(batch)' = Len(batch)
    BY <1>1, <1>2, MarkingIs
  <1>4. /\ Len(event) \in Nat /\ Len(batch) \in Nat /\ DOMAIN event = 1 .. Len(event)
        /\ DOMAIN batch = 1 .. Len(batch)
        /\ \A e \in 1 .. Len(event) : event[e] \in Event /\ event[e].batch \in 0 .. Len(batch)
        /\ \A k \in 1 .. Len(batch) : batch[k] \in Batch
    BY <1>1, TablesAre DEF TablesTyped
  <1>5. /\ \A e \in 1 .. Len(event) : event[e].batch = b => event'[e] = [event[e] EXCEPT !.status = "paid_out"]
        /\ \A e \in 1 .. Len(event) : event[e].batch # b => event'[e] = event[e]
    <2>1. event' = [i \in DOMAIN event |-> PaidOut(event[i], b)]  BY <1>2 DEF CommitMarkPaid
    <2> QED  BY <1>4, <2>1 DEF PaidOut
  <1>6. /\ batch'[b] = [batch[b] EXCEPT !.status = "paid"]
        /\ \A k \in 1 .. Len(batch) : k # b => batch'[k] = batch[k]
    <2>1. batch' = [batch EXCEPT ![b] = [batch[b] EXCEPT !.status = "paid"]]  BY <1>2 DEF CommitMarkPaid
    <2> QED  BY <1>3, <1>4, <2>1
  <1>7. batch'[b].status = "paid" /\ batch'[b].amount = batch[b].amount
    <2>1. batch[b] \in Batch  BY <1>3, <1>4
    <2> QED  BY <1>6, <2>1 DEF Batch
  <1>8. ASSUME NEW e \in 1 .. Len(event), event[e].batch = b
        PROVE  event'[e].batch = b /\ event'[e].status = "paid_out"
               /\ (event[e].status = "paid_out" => event'[e] = event[e])
    <2>1. event[e] \in Event  BY <1>4
    <2>2. event'[e] = [event[e] EXCEPT !.status = "paid_out"]  BY <1>5, <1>8
    <2> QED  BY <1>8, <2>1, <2>2 DEF Event
  <1>9. (DOMAIN event)' = 1 .. Len(event)
    <2>1. event' \in Seq(Event)  BY <1>3 DEF TablesTyped
    <2> QED  BY <1>3, <2>1, LenProperties
  <1>10. ASSUME NEW e \in 1 .. Len(event)' PROVE Agreeing(e)'
    <2>0. e \in 1 .. Len(event)  BY <1>3
    <2>1. CASE event[e].batch = b
      <3>1. b # 0  BY <1>3
      <3> QED  BY <1>7, <1>8, <2>0, <2>1, <3>1 DEF Agreeing
    <2>2. CASE event[e].batch # b
      <3>1. event'[e] = event[e]  BY <1>5, <2>0, <2>2
      <3>2. Agreeing(e)  BY <2>0 DEF BatchInv
      <3>3. event[e].batch # 0 => event[e].batch \in 1 .. Len(batch)  BY <1>4, <2>0
      <3>4. event[e].batch # 0 => batch'[event[e].batch] = batch[event[e].batch]  BY <1>6, <2>2, <3>3
      <3> QED  BY <3>1, <3>2, <3>4 DEF Agreeing
    <2> QED  BY <2>1, <2>2
  <1>11. ASSUME NEW k \in 1 .. Len(batch)' PROVE batch'[k].amount = Rate * Cardinality(InBatch(k)')
    <2>0. k \in 1 .. Len(batch)  BY <1>3
    <2>1. InBatch(k)' = InBatch(k)
      <3>1. ASSUME NEW e \in 1 .. Len(event) PROVE event'[e].batch = event[e].batch
        <4>1. CASE event[e].batch = b  BY <1>8, <4>1
        <4>2. CASE event[e].batch # b  BY <1>5, <4>2
        <4> QED  BY <4>1, <4>2
      <3> QED  BY <1>4, <1>9, <3>1 DEF InBatch
    <2>2. batch'[k].amount = batch[k].amount  BY <1>6, <1>7, <2>0
    <2>3. batch[k].amount = Rate * Cardinality(InBatch(k))  BY <2>0 DEF BatchInv
    <2> QED  BY <2>1, <2>2, <2>3
  <1>12. Final  BY <1>5, <1>8 DEF Final
  <1>13. Busy = {s}
    <2>1. s \in Busy /\ session[s].h = "markPaid"
      <3>1. Doing(s, "markPaid")  BY DEF CommitMarkPaid
      <3> QED  BY <3>1, DoingIs
    <2> QED  BY <1>1, <2>1 DEF Alone, OnePayout, Payouts
  <1>14. \A t \in Threads : session'[t] = Idle
    <2>1. \A t \in Threads : t # s => session[t] = Idle  BY <1>13 DEF Busy
    <2> QED  BY <1>1, <1>3, <2>1
  <1>15. Alone'  BY <1>14 DEF Alone, Busy
  <1>16. \A t \in Threads : ~Judged(session'[t]) /\ session'[t].h # "batch"  BY <1>14 DEF Judged, Idle
  <1> QED  BY <1>10, <1>11, <1>12, <1>15, <1>16 DEF BatchInv

LEMMA PayoutAtBegin ==
    ASSUME BatchInv, Inv', NEW s \in Threads, NEW j, Begin(s, j), ~Judged(j), j.h # "batch"
    PROVE  BatchInv' /\ Final
  <1>1. Turns(s, j) /\ UNCHANGED Tables  BY BeginIs
  <1>2. UNCHANGED <<event, batch>>  BY <1>1 DEF Tables
  <1> QED  BY <1>1, <1>2, PayoutStays

LEMMA PayoutAtEnd ==
    ASSUME BatchInv, Inv', NEW s \in Threads, End(s), UNCHANGED <<event, batch>>
    PROVE  BatchInv' /\ Final
  <1>1. Turns(s, Idle) /\ ~Judged(Idle) /\ Idle.h # "batch"  BY EndIs DEF Judged, Idle
  <1> QED  BY <1>1, PayoutStays

LEMMA PayoutReferring ==
    ASSUME BatchInv, Inv', NEW s \in Threads, Referring(s)
    PROVE  BatchInv' /\ Final
  <1>1. ASSUME NEW a \in Agents, NEW phone \in Phones, OpenAdd(s, a, phone) PROVE BatchInv' /\ Final
    <2>1. PICK j : j = [h |-> "add", row |-> NewReferral(a, phone, "submitted", FALSE,
                                                Matches(phone, 0, {"declined", "converted"}))]
      OBVIOUS
    <2>2. Begin(s, j)  BY <1>1, <2>1 DEF OpenAdd
    <2>3. ~Judged(j) /\ j.h # "batch"  BY <2>1 DEF Judged
    <2> QED  BY <2>2, <2>3, PayoutAtBegin
  <1>2. ASSUME CommitAdd(s) PROVE BatchInv' /\ Final
    <2>1. End(s) /\ UNCHANGED <<event, batch>>  BY <1>2 DEF CommitAdd
    <2> QED  BY <2>1, PayoutAtEnd
  <1>3. ASSUME NEW i \in DOMAIN referral, NEW phone \in Phones, OpenEdit(s, i, phone) PROVE BatchInv' /\ Final
    <2>1. PICK j : j = [h |-> "edit", id |-> i,
                        row |-> [referral[i] EXCEPT !.phone = phone, !.dup = Matches(phone, i, {"declined"})]]
      OBVIOUS
    <2>2. Begin(s, j)  BY <1>3, <2>1 DEF OpenEdit
    <2>3. ~Judged(j) /\ j.h # "batch"  BY <2>1 DEF Judged
    <2> QED  BY <2>2, <2>3, PayoutAtBegin
  <1>4. ASSUME CommitEdit(s) PROVE BatchInv' /\ Final
    <2>1. End(s) /\ UNCHANGED <<event, batch>>  BY <1>4 DEF CommitEdit
    <2> QED  BY <2>1, PayoutAtEnd
  <1> QED  BY <1>1, <1>2, <1>3, <1>4 DEF Referring

LEMMA PayoutReviewing ==
    ASSUME BatchInv, Inv', NEW s \in Threads, Reviewing(s)
    PROVE  BatchInv' /\ Final
  <1>1. ASSUME NEW i \in DOMAIN referral, OpenDetail(s, i) PROVE BatchInv' /\ Final
    <2>1. PICK j : j = [h |-> "open", id |-> i,
                        status |-> IF referral[i].status = "submitted" THEN "under_review"
                                                                       ELSE referral[i].status]
      OBVIOUS
    <2>2. Begin(s, j)  BY <1>1, <2>1 DEF OpenDetail
    <2>3. ~Judged(j) /\ j.h # "batch"  BY <2>1 DEF Judged
    <2> QED  BY <2>2, <2>3, PayoutAtBegin
  <1>2. ASSUME CommitDetail(s) PROVE BatchInv' /\ Final
    <2>1. End(s) /\ UNCHANGED <<event, batch>>  BY <1>2 DEF CommitDetail
    <2> QED  BY <2>1, PayoutAtEnd
  <1>3. ASSUME NEW i \in DOMAIN referral, OpenReopen(s, i) PROVE BatchInv' /\ Final
    <2>1. PICK j : j = [h |-> "reopen", id |-> i]  OBVIOUS
    <2>2. Begin(s, j)  BY <1>3, <2>1 DEF OpenReopen
    <2>3. ~Judged(j) /\ j.h # "batch"  BY <2>1 DEF Judged
    <2> QED  BY <2>2, <2>3, PayoutAtBegin
  <1>4. ASSUME CommitReopen(s) PROVE BatchInv' /\ Final
    <2>1. End(s) /\ UNCHANGED <<event, batch>>  BY <1>4 DEF CommitReopen
    <2> QED  BY <2>1, PayoutAtEnd
  <1>5. ASSUME NEW i \in {0} \cup DOMAIN referral, NEW phone \in Phones, NEW a \in Agents \cup {NoOne},
               NEW installed \in BOOLEAN, OpenCustomer(s, i, phone, a, installed)
        PROVE  BatchInv' /\ Final
    <2>1. PICK j : j = [h |-> "convert", id |-> IF installed THEN 0 ELSE i, phone |-> phone,
                        agent |-> IF a # NoOne \/ i = 0 \/ installed THEN a ELSE referral[i].agent]
      OBVIOUS
    <2>2. Begin(s, j)  BY <1>5, <2>1 DEF OpenCustomer
    <2>3. ~Judged(j) /\ j.h # "batch"  BY <2>1 DEF Judged
    <2> QED  BY <2>2, <2>3, PayoutAtBegin
  <1>6. ASSUME CommitCustomer(s) PROVE BatchInv' /\ Final
    <2>1. End(s) /\ UNCHANGED <<event, batch>>  BY <1>6 DEF CommitCustomer, Tables
    <2> QED  BY <2>1, PayoutAtEnd
  <1> QED  BY <1>1, <1>2, <1>3, <1>4, <1>5, <1>6 DEF Reviewing

LEMMA PayoutPaying ==
    ASSUME BatchInv, Inv', OnePayout, NEW s \in Threads, Paying(s)
    PROVE  BatchInv' /\ Final
  <1>1. Inv /\ TablesTyped /\ DOMAIN customer = 1 .. Len(customer)
        /\ \A c \in 1 .. Len(customer) : paid[c] \in Int
    BY TablesAre DEF BatchInv, Inv
  <1>2. ASSUME NEW h \in {"pay", "transfer"}, NEW c \in 1 .. Len(customer), NEW d, NEW amount \in Months,
               NEW j, j = Job(h, c, d, amount, Net(paid[c] + amount)), Begin(s, j)
        PROVE  BatchInv' /\ Final
    <2>1. Net(paid[c] + amount) \in Int
      <3>1. amount \in Int /\ paid[c] \in Int  BY <1>1, AgentAssumption
      <3>2. paid[c] + amount \in Int  BY <3>1
      <3> QED  BY <3>2, NetIs
    <2>2. j.h = h /\ j.id = EventOf(c) /\ j.known = Known(c)
          /\ j.verdict = Verdict(c, Known(c), Net(paid[c] + amount))
      BY <1>1, <1>2, <2>1, JobIs
    <2>3. Fresh(j) /\ j.h # "batch"  BY <1>1, <2>1, <2>2, ReadIsFresh
    <2>4. Turns(s, j) /\ UNCHANGED Tables  BY <1>2, BeginIs
    <2>5. UNCHANGED <<event, batch>>  BY <2>4 DEF Tables
    <2> QED  BY <2>3, <2>4, <2>5, PayoutStays
  <1>3. ASSUME NEW c \in 1 .. Len(customer), NEW amount \in Months, OpenPay(s, c, amount)
        PROVE  BatchInv' /\ Final
    <2>1. PICK j : j = Job("pay", c, 0, amount, Net(paid[c] + amount))  OBVIOUS
    <2>2. Begin(s, j)  BY <1>3, <2>1 DEF OpenPay
    <2> QED  BY <1>2, <2>1, <2>2
  <1>4. ASSUME NEW c \in 1 .. Len(customer), NEW d \in 1 .. Len(customer), NEW amount \in Months,
               OpenTransfer(s, c, d, amount)
        PROVE  BatchInv' /\ Final
    <2>1. PICK j : j = Job("transfer", c, d, amount, Net(paid[c] + amount))  OBVIOUS
    <2>2. Begin(s, j)  BY <1>4, <2>1 DEF OpenTransfer
    <2> QED  BY <1>2, <2>1, <2>2
  <1>5. ASSUME NEW h \in Posting, NEW c, NEW delta, NEW rounds, Post(s, h, c, delta, rounds)
        PROVE  BatchInv' /\ Final
    <2>1. PICK j : j = [h |-> h, todo |-> rounds, cust |-> c]  OBVIOUS
    <2>2. j.h = h /\ ~Judged(j) /\ j.h # "batch"  BY <2>1 DEF Judged, Posting
    <2>3. Turns(s, j)  BY <1>5, <2>1, <2>2 DEF Post, Turns
    <2>4. UNCHANGED <<event, batch>>  BY <1>5 DEF Post
    <2> QED  BY <2>2, <2>3, <2>4, PayoutStays
  <1>6. ASSUME ReadLedger(s) PROVE BatchInv' /\ Final
    <2>1. PICK j : j = session[s]  OBVIOUS
    <2>2. PICK k : k = Job(j.h, j.cust, 0, 0, Net(paid[j.cust]))  OBVIOUS
    <2>3. PICK n : n = [h |-> j.h, todo |-> j.todo - 1, cust |-> j.cust,
                        agent |-> k.agent, id |-> k.id, known |-> k.known, verdict |-> k.verdict]
      OBVIOUS
    <2>4. /\ j.h \in Posting /\ j.cust \in 1 .. Len(customer) /\ Net(paid[j.cust]) \in Int
          /\ UNCHANGED Tables /\ session' = [session EXCEPT ![s] = n]
          /\ k.id = EventOf(j.cust) /\ k.known = Known(j.cust)
          /\ k.verdict = Verdict(j.cust, Known(j.cust), Net(paid[j.cust]))
      BY SMTT(30), <1>1, <1>6, <2>1, <2>2, <2>3, ReadingIs
    <2>5. n.h = j.h /\ n.id = k.id /\ n.known = k.known /\ n.verdict = k.verdict  BY <2>3
    <2>6. Fresh(n)  BY <1>1, <2>4, <2>5, ReadIsFresh
    <2>7. n.h # "batch"  BY <2>4, <2>5 DEF Posting
    <2>8. s \in Busy  BY <2>1, <2>4 DEF Busy, Posting, Idle
    <2>9. Turns(s, n)  BY <2>1, <2>4, <2>5, <2>8 DEF Turns
    <2>10. UNCHANGED <<event, batch>>  BY <2>4 DEF Tables
    <2> QED  BY <2>6, <2>7, <2>9, <2>10, PayoutStays
  <1>7. ASSUME NEW h \in {"pay", "transfer"}, Doing(s, h), End(s), event' = Evaluated(session[s]),
               UNCHANGED batch
        PROVE  BatchInv' /\ Final
    <2>1. PICK j : j = session[s]  OBVIOUS
    <2>2. s \in Busy /\ j.h = h /\ j.h \notin Payouts
      <3>1. s \in Busy /\ session[s].h = h  BY <1>7, DoingIs
      <3> QED  BY <2>1, <3>1 DEF Payouts
    <2>3. j \in PayJob /\ Fits(j, Len(customer), Len(event), Len(batch)) /\ Judged(j)
      <3>1. j.h \in {"pay", "transfer"}  BY <2>2
      <3> QED  BY <1>1, <2>1, <3>1, HeldIs, TypedIs DEF Judged
    <2>4. j.verdict \in Verdicts /\ j.cust \in Nat  BY <2>3 DEF PayJob
    <2>5. Turns(s, Idle) /\ ~Judged(Idle) /\ Idle.h # "batch"  BY <1>7, EndIs DEF Judged, Idle
    <2>6. event' = Evaluated(j) /\ UNCHANGED batch  BY <1>7, <2>1
    <2> QED  BY <2>1, <2>2, <2>3, <2>4, <2>5, <2>6, PayoutWrites
  <1>8. ASSUME CommitPay(s) PROVE BatchInv' /\ Final
    <2>1. Doing(s, "pay") /\ End(s) /\ event' = Evaluated(session[s]) /\ UNCHANGED batch
      BY <1>8 DEF CommitPay
    <2> QED  BY <1>7, <2>1
  <1>9. ASSUME CommitTransfer(s) PROVE BatchInv' /\ Final
    <2>1. Doing(s, "transfer") /\ End(s) /\ event' = Evaluated(session[s]) /\ UNCHANGED batch
      BY <1>9 DEF CommitTransfer
    <2> QED  BY <1>7, <2>1
  <1>10. ASSUME WriteLedger(s) PROVE BatchInv' /\ Final
    <2>1. PICK j : j = session[s]  OBVIOUS
    <2>2. PICK n : n = IF j.todo = 0 THEN Idle ELSE [h |-> j.h, todo |-> j.todo, cust |-> j.cust]  OBVIOUS
    <2>3. /\ j.h \in Posting /\ j \in PostJob /\ Fits(j, Len(customer), Len(event), Len(batch))
          /\ Judged(j) /\ j.cust \in 1 .. Len(customer) /\ j.verdict \in Verdicts
          /\ event' = Evaluated(j) /\ UNCHANGED batch /\ session' = [session EXCEPT ![s] = n]
      BY <1>1, <1>10, <2>1, <2>2, WritingIs DEF Judged
    <2>4. ~Judged(n) /\ (n = Idle \/ n.h = j.h) /\ n.h # "batch"
      BY <2>2, <2>3 DEF Judged, Idle, Posting
    <2>5. s \in Busy /\ j.h \notin Payouts  BY <2>1, <2>3 DEF Busy, Posting, Idle, Payouts
    <2>6. Turns(s, n)  BY <2>1, <2>3, <2>4, <2>5 DEF Turns
    <2>7. j.cust \in Nat  BY <2>3
    <2> QED  BY <2>1, <2>3, <2>4, <2>5, <2>6, <2>7, PayoutWrites
  <1> QED
    BY <1>1, <1>3, <1>4, <1>5, <1>6, <1>8, <1>9, <1>10 DEF Paying, Refund, Correct, Posting

LEMMA PayoutsStep ==
    ASSUME BatchInv, Inv', OnePayout, [Next]_vars
    PROVE  BatchInv' /\ Final
  <1>1. ASSUME NEW s \in Threads, CashingOut(s) PROVE BatchInv' /\ Final
    <2>1. ASSUME NEW a \in Agents, NEW n \in 1 .. MaxCustomers, OpenBatch(s, a, n) PROVE BatchInv' /\ Final
      <3>1. n \in Nat  OBVIOUS
      <3> QED  BY <2>1, <3>1, BatchBegins
    <2>2. ASSUME NEW b \in DOMAIN batch, OpenMarkPaid(s, b) PROVE BatchInv' /\ Final
      <3>1. PICK j : j = [h |-> "markPaid", id |-> b]  OBVIOUS
      <3>2. Begin(s, j)  BY <2>2, <3>1 DEF OpenMarkPaid
      <3>3. ~Judged(j) /\ j.h # "batch"  BY <3>1 DEF Judged
      <3> QED  BY <3>2, <3>3, PayoutAtBegin
    <2> QED  BY <1>1, <2>1, <2>2, BatchEnds, MarkEnds DEF CashingOut
  <1>2. ASSUME session' = session, UNCHANGED <<event, batch>> PROVE BatchInv' /\ Final
    BY <1>2, PayoutAtOnce
  <1>3. ASSUME NEW a \in Agents, StaffAdd(a) PROVE BatchInv' /\ Final  BY <1>2, <1>3 DEF StaffAdd
  <1>4. ASSUME NEW i \in DOMAIN referral, Decline(i) PROVE BatchInv' /\ Final  BY <1>2, <1>4 DEF Decline
  <1>5. ASSUME NEW c \in DOMAIN customer, NEW a \in Agents \cup {NoOne}, Reassign(c, a)
        PROVE  BatchInv' /\ Final
    BY <1>2, <1>5 DEF Reassign
  <1>6. ASSUME NEW c \in DOMAIN customer, CloseInstall(c) PROVE BatchInv' /\ Final
    BY <1>2, <1>6 DEF CloseInstall
  <1>7. ASSUME UNCHANGED vars PROVE BatchInv' /\ Final  BY <1>2, <1>7 DEF vars
  <1> QED
    BY <1>1, <1>3, <1>4, <1>5, <1>6, <1>7, PayoutReferring, PayoutReviewing, PayoutPaying
    DEF Next, Step, AtRest

LEMMA BatchInvCorrect ==
    ASSUME OnePayout
    PROVE  Spec => []BatchInv
  <1>1. Init => BatchInv
    <2> SUFFICES ASSUME Init PROVE BatchInv  OBVIOUS
    <2>1. Inv  BY InvHoldsAtFirst
    <2>2. \A s \in Threads : session[s] = Idle  BY DEF Init
    <2>3. Busy = {} /\ event = <<>> /\ batch = <<>>  BY <2>2 DEF Busy, Init
    <2>4. \A s \in Threads : ~Judged(session[s]) /\ session[s].h # "batch"  BY <2>2 DEF Judged, Idle
    <2>5. Len(event) = 0 /\ Len(batch) = 0  BY <2>3
    <2>6. 1 .. Len(event) = {} /\ 1 .. Len(batch) = {}  BY <2>5
    <2> QED  BY <2>1, <2>3, <2>4, <2>6 DEF BatchInv, Alone
  <1>2. BatchInv /\ Inv' /\ [Next]_vars => BatchInv'  BY PayoutsStep
  <1> QED  BY <1>1, <1>2, InvCorrect, PTL DEF Spec

(* The ledger and the batches tell the same: a commission is paid out if and   *)
(* only if its batch is, however payments and refunds interleave, if batches   *)
(* are created and paid with no other request under way, which the code leaves *)
(* to chance (incentives.py:245, 326).                                         *)
THEOREM LedgersAlwaysAgree ==
    ASSUME OnePayout
    PROVE  Spec => []LedgersAgree
  <1>1. BatchInv => LedgersAgree
    <2> SUFFICES ASSUME BatchInv, NEW e \in DOMAIN event PROVE Agreeing(e)
      BY DEF LedgersAgree, Agreeing
    <2>1. e \in 1 .. Len(event)  BY TablesAre DEF BatchInv, Inv
    <2> QED  BY <2>1 DEF BatchInv
  <1> QED  BY <1>1, BatchInvCorrect, PTL

(* A batch is worth its commissions from its creation on, although what the    *)
(* page counted is taken up later (incentives.py:245-275).                     *)
THEOREM BatchesKeepWorth ==
    ASSUME OnePayout
    PROVE  Spec => []BatchesAreWorth
  <1>1. BatchInv => BatchesAreWorth
    <2> SUFFICES ASSUME BatchInv, NEW b \in DOMAIN batch
                 PROVE  batch[b].amount = Rate * Cardinality(InBatch(b))
      BY DEF BatchesAreWorth, InBatch
    <2>1. b \in 1 .. Len(batch)  BY TablesAre DEF BatchInv, Inv
    <2> QED  BY <2>1 DEF BatchInv
  <1> QED  BY <1>1, BatchInvCorrect, PTL

(* A commission that was paid out is never written again (incentives.py:104).  *)
THEOREM PaidOutIsFinal ==
    ASSUME OnePayout
    PROVE  Spec => PaidIsFinal
  <1>1. BatchInv /\ Inv' /\ [Next]_vars =>
            [\A e \in DOMAIN event : event[e].status = "paid_out" => event'[e] = event[e]]_vars
    <2> SUFFICES ASSUME BatchInv, Inv', [Next]_vars, NEW e \in DOMAIN event, event[e].status = "paid_out"
                 PROVE  event'[e] = event[e]
      OBVIOUS
    <2>1. e \in 1 .. Len(event)  BY TablesAre DEF BatchInv, Inv
    <2>2. Final  BY PayoutsStep
    <2> QED  BY <2>1, <2>2 DEF Final
  <1> QED  BY <1>1, BatchInvCorrect, InvCorrect, PTL DEF Spec, PaidIsFinal

-----------------------------------------------------------------------------
(* The conversion of a referral *)

Looks  == {"edit", "open"}
Closed == {"converted", "declined"}
From(i) == \E c \in 1 .. Len(customer) : customer[c].from = i
Shut(r) == r.reopened \/ r.status \in Closed

\* The row an edit saves, and the status a first look saves, are still the table's.
CopiedFrom(j, r) == j.row.status = r.status /\ j.row.reopened = r.reopened
LookedAt(j, r) == j.status = IF r.status = "submitted" THEN "under_review" ELSE r.status
Current(j) ==
    /\ j.h = "edit" => CopiedFrom(j, referral[j.id])
    /\ j.h = "open" => LookedAt(j, referral[j.id])

ReferralInv ==
    /\ Inv /\ Alone
    /\ \A c, d \in 1 .. Len(customer) :
          c # d /\ customer[c].from = customer[d].from /\ customer[c].from # 0
              => referral[customer[c].from].reopened
    /\ \A i \in 1 .. Len(referral) : From(i) => Shut(referral[i])
    /\ \A s \in Threads : Current(session[s])

\* The agents' edit and the staff's first look, which save what they read, come
\* with no other request under way.
OneLook == Looks \subseteq Exclusive

SameOrigins ==
    Len(customer)' = Len(customer)
    /\ \A c \in 1 .. Len(customer) : customer'[c].from = customer[c].from

\* The referrals stay, and at most a thread turns to something else.
LEMMA ReferralStays ==
    ASSUME ReferralInv, Inv', NEW s \in Threads, NEW j, Turns(s, j), UNCHANGED referral, SameOrigins,
           Current(j)
    PROVE  ReferralInv'
  <1>1. Inv /\ Alone  BY DEF ReferralInv
  <1>2. session'[s] = j /\ \A t \in Threads \ {s} : session'[t] = session[t]
    <2>1. session' = [session EXCEPT ![s] = j] /\ DOMAIN session = Threads  BY <1>1 DEF Turns, Inv
    <2> QED  BY <2>1
  <1>3. Alone'  BY <1>1, AloneKept
  <1>4. ASSUME NEW c \in 1 .. Len(customer)', NEW d \in 1 .. Len(customer)', c # d,
               customer'[c].from = customer'[d].from, customer'[c].from # 0
        PROVE  referral'[customer'[c].from].reopened
    <2>1. c \in 1 .. Len(customer) /\ d \in 1 .. Len(customer)  BY DEF SameOrigins
    <2>2. customer[c].from = customer[d].from /\ customer[c].from # 0 /\ customer'[c].from = customer[c].from
      BY <1>4, <2>1 DEF SameOrigins
    <2> QED  BY <1>4, <2>1, <2>2 DEF ReferralInv
  <1>5. ASSUME NEW i \in 1 .. Len(referral)', From(i)' PROVE Shut(referral[i])'
    <2>1. From(i)  BY <1>5 DEF From, SameOrigins
    <2> QED  BY <2>1 DEF ReferralInv, Shut
  <1>6. ASSUME NEW t \in Threads PROVE Current(session[t])'
    <2>1. CASE t = s  BY <1>2, <2>1 DEF Current
    <2>2. CASE t # s
      <3>1. session'[t] = session[t] /\ Current(session[t])  BY <1>2, <2>2 DEF ReferralInv
      <3> QED  BY <3>1 DEF Current
    <2> QED  BY <2>1, <2>2
  <1> QED  BY <1>3, <1>4, <1>5, <1>6 DEF ReferralInv

LEMMA ReferralAtOnce ==
    ASSUME ReferralInv, Inv', session' = session, UNCHANGED referral, SameOrigins
    PROVE  ReferralInv'
  <1>1. Alone'  BY DEF ReferralInv, Alone, Busy
  <1>2. ASSUME NEW c \in 1 .. Len(customer)', NEW d \in 1 .. Len(customer)', c # d,
               customer'[c].from = customer'[d].from, customer'[c].from # 0
        PROVE  referral'[customer'[c].from].reopened
    <2>1. c \in 1 .. Len(customer) /\ d \in 1 .. Len(customer)  BY DEF SameOrigins
    <2>2. customer[c].from = customer[d].from /\ customer[c].from # 0 /\ customer'[c].from = customer[c].from
      BY <1>2, <2>1 DEF SameOrigins
    <2> QED  BY <1>2, <2>1, <2>2 DEF ReferralInv
  <1>3. ASSUME NEW i \in 1 .. Len(referral)', From(i)' PROVE Shut(referral[i])'
    <2>1. From(i)  BY <1>3 DEF From, SameOrigins
    <2> QED  BY <2>1 DEF ReferralInv, Shut
  <1>4. \A t \in Threads : Current(session[t])'  BY DEF ReferralInv, Current
  <1> QED  BY <1>1, <1>2, <1>3, <1>4 DEF ReferralInv

\* A row is written: it is not opened again by the way, and nobody has read it.
LEMMA ReferralWrites ==
    ASSUME ReferralInv, Inv', Alone', Len(referral)' >= Len(referral), Len(referral)' \in Nat, SameOrigins,
           \A i \in 1 .. Len(referral) :
              /\ referral[i].reopened => referral'[i].reopened
              /\ Shut(referral[i]) => Shut(referral'[i]),
           \A t \in Threads : session'[t].h \notin Looks
    PROVE  ReferralInv'
  <1>1. TablesTyped /\ Len(referral) \in Nat  BY TablesAre DEF ReferralInv, Inv
  <1>2. ASSUME NEW c \in 1 .. Len(customer)', NEW d \in 1 .. Len(customer)', c # d,
               customer'[c].from = customer'[d].from, customer'[c].from # 0
        PROVE  referral'[customer'[c].from].reopened
    <2>1. c \in 1 .. Len(customer) /\ d \in 1 .. Len(customer)  BY DEF SameOrigins
    <2>2. customer[c].from = customer[d].from /\ customer[c].from # 0 /\ customer'[c].from = customer[c].from
      BY <1>2, <2>1 DEF SameOrigins
    <2>3. referral[customer[c].from].reopened  BY <1>2, <2>1, <2>2 DEF ReferralInv
    <2>4. customer[c].from \in 1 .. Len(referral)
      <3>1. customer[c].from \in 0 .. Len(referral)  BY <1>1, <2>1 DEF TablesTyped
      <3> QED  BY <1>1, <2>2, <3>1
    <2> QED  BY <2>2, <2>3, <2>4
  <1>3. ASSUME NEW i \in 1 .. Len(referral)', From(i)' PROVE Shut(referral[i])'
    <2>1. From(i)  BY <1>3 DEF From, SameOrigins
    <2>2. i \in 1 .. Len(referral)
      <3>1. PICK c \in 1 .. Len(customer) : customer[c].from = i  BY <2>1 DEF From
      <3>2. i \in 0 .. Len(referral)  BY <1>1, <3>1 DEF TablesTyped
      <3> QED  BY <1>1, <3>2
    <2>3. Shut(referral'[i])  BY <2>1, <2>2 DEF ReferralInv
    <2> QED  BY <2>3 DEF Shut
  <1>4. \A t \in Threads : Current(session[t])'  BY DEF Current, Looks
  <1> QED  BY <1>2, <1>3, <1>4 DEF ReferralInv

\* When a request ends or a one-step handler runs, no other has read a referral to
\* save it.
LEMMA NobodyLooks ==
    ASSUME Inv, Alone, OneLook, NEW s \in Threads, s \in Busy, Turns(s, Idle)
    PROVE  Alone' /\ \A t \in Threads : session'[t].h \notin Looks
  <1>1. Alone'  BY AloneKept
  <1>2. session'[s] = Idle /\ \A t \in Threads \ {s} : session'[t] = session[t]
    <2>1. session' = [session EXCEPT ![s] = Idle] /\ DOMAIN session = Threads  BY DEF Turns, Inv
    <2> QED  BY <2>1
  <1>3. ASSUME NEW t \in Threads, session'[t].h \in Looks PROVE FALSE
    <2>1. t # s  BY <1>2, <1>3 DEF Idle, Looks
    <2>2. session[t].h \in Looks /\ t \in Busy  BY <1>2, <1>3, <2>1 DEF Busy, Looks, Idle
    <2>3. Busy = {t}  BY <2>2 DEF Alone, OneLook
    <2> QED  BY <2>1, <2>3
  <1> QED  BY <1>1, <1>3

LEMMA NobodyLooksOn ==
    ASSUME ReferralInv, OneLook, session' = session, NEW h, Free(h)
    PROVE  Alone' /\ \A t \in Threads : session'[t].h \notin Looks
  <1>1. Alone'  BY DEF ReferralInv, Alone, Busy
  <1>2. ASSUME NEW t \in Threads, session[t].h \in Looks PROVE FALSE
    <2>1. t \in Busy  BY <1>2 DEF Busy, Idle, Looks
    <2> QED  BY <1>2, <2>1 DEF Free, OneLook
  <1> QED  BY <1>1, <1>2

LEMMA ReferralAtBegin ==
    ASSUME ReferralInv, Inv', NEW s \in Threads, NEW j, Begin(s, j), Current(j)
    PROVE  ReferralInv'
  <1>1. Turns(s, j) /\ UNCHANGED Tables  BY BeginIs
  <1>2. UNCHANGED referral /\ SameOrigins  BY <1>1 DEF Tables, SameOrigins
  <1> QED  BY <1>1, <1>2, ReferralStays

LEMMA ReferralAtEnd ==
    ASSUME ReferralInv, Inv', NEW s \in Threads, End(s), UNCHANGED referral, SameOrigins
    PROVE  ReferralInv'
  <1>1. Turns(s, Idle) /\ Current(Idle)  BY EndIs DEF Current, Idle
  <1> QED  BY <1>1, ReferralStays

LEMMA ReferralReferring ==
    ASSUME ReferralInv, Inv', OneLook, NEW s \in Threads, Referring(s)
    PROVE  ReferralInv'
  <1>0. Inv /\ Alone /\ TablesTyped  BY DEF ReferralInv, Inv
  <1>1. ASSUME NEW a \in Agents, NEW phone \in Phones, OpenAdd(s, a, phone) PROVE ReferralInv'
    <2>1. PICK j : j = [h |-> "add", row |-> NewReferral(a, phone, "submitted", FALSE,
                                                Matches(phone, 0, {"declined", "converted"}))]
      OBVIOUS
    <2>2. Begin(s, j) /\ Current(j)  BY <1>1, <2>1 DEF OpenAdd, Current
    <2> QED  BY <2>2, ReferralAtBegin
  <1>2. ASSUME CommitAdd(s) PROVE ReferralInv'
    <2>1. Doing(s, "add") /\ Turns(s, Idle) /\ UNCHANGED <<customer, paid, event, batch>>
          /\ referral' = Append(referral, session[s].row)
      BY <1>2, EndIs DEF CommitAdd
    <2>2. s \in Busy /\ session[s].h = "add"  BY <2>1, DoingIs
    <2>3. session[s].row \in Referral  BY <1>0, <2>2, HeldIs, TypedIs
    <2>4. referral \in Seq(Referral)  BY <1>0 DEF TablesTyped
    <2>5. /\ Len(referral)' = Len(referral) + 1 /\ Len(referral) \in Nat
          /\ \A k \in 1 .. Len(referral) : referral'[k] = referral[k]
      BY <2>1, <2>3, <2>4, SeqAdd
    <2>6. SameOrigins  BY <2>1 DEF SameOrigins
    <2>7. Alone' /\ \A t \in Threads : session'[t].h \notin Looks  BY <1>0, <2>1, <2>2, NobodyLooks
    <2>8. Len(referral)' >= Len(referral) /\ Len(referral)' \in Nat  BY <2>5
    <2> QED  BY <2>5, <2>6, <2>7, <2>8, ReferralWrites
  <1>3. ASSUME NEW i \in DOMAIN referral, NEW phone \in Phones, OpenEdit(s, i, phone) PROVE ReferralInv'
    <2>1. PICK row : row = [referral[i] EXCEPT !.phone = phone, !.dup = Matches(phone, i, {"declined"})]
      OBVIOUS
    <2>2. PICK j : j = [h |-> "edit", id |-> i, row |-> row]  OBVIOUS
    <2>3. Begin(s, j)  BY <1>3, <2>1, <2>2 DEF OpenEdit
    <2>4. referral[i] \in Referral  BY <1>0, TablesAre
    <2>5. row.status = referral[i].status /\ row.reopened = referral[i].reopened
      BY <2>1, <2>4 DEF Referral
    <2>6. Current(j)  BY <2>2, <2>5 DEF Current, CopiedFrom
    <2> QED  BY <2>3, <2>6, ReferralAtBegin
  <1>4. ASSUME CommitEdit(s) PROVE ReferralInv'
    <2>1. PICK j : j = session[s]  OBVIOUS
    <2>2. /\ Doing(s, "edit") /\ Turns(s, Idle) /\ UNCHANGED <<customer, paid, event, batch>>
          /\ referral' = [referral EXCEPT ![j.id] = j.row]
      BY <1>4, <2>1, EndIs DEF CommitEdit
    <2>3. s \in Busy /\ j.h = "edit"  BY <2>1, <2>2, DoingIs
    <2>4. j.row \in Referral /\ j.id \in 1 .. Len(referral) /\ j.row.cust \in 0 .. Len(customer)
      BY <1>0, <2>1, <2>3, HeldIs, TypedIs
    <2>5. /\ Len(referral)' = Len(referral)
          /\ \A k \in 1 .. Len(referral) : referral'[k] = IF k = j.id THEN j.row ELSE referral[k]
      BY <1>0, <2>2, <2>4, ReferralSet
    <2>6. j.row.status = referral[j.id].status /\ j.row.reopened = referral[j.id].reopened
      BY <2>1, <2>3 DEF ReferralInv, Current, CopiedFrom
    <2>7. ASSUME NEW i \in 1 .. Len(referral)
          PROVE  /\ referral[i].reopened => referral'[i].reopened
                 /\ Shut(referral[i]) => Shut(referral'[i])
      <3>1. referral'[i].status = referral[i].status /\ referral'[i].reopened = referral[i].reopened
        BY <2>5, <2>6
      <3> QED  BY <3>1 DEF Shut
    <2>8. SameOrigins  BY <2>2 DEF SameOrigins
    <2>9. Alone' /\ \A t \in Threads : session'[t].h \notin Looks  BY <1>0, <2>2, <2>3, NobodyLooks
    <2>10. Len(referral)' >= Len(referral) /\ Len(referral)' \in Nat
      <3>1. Len(referral) \in Nat  BY <1>0, TablesAre
      <3> QED  BY <2>5, <3>1
    <2> QED  BY <2>7, <2>8, <2>9, <2>10, ReferralWrites
  <1> QED  BY <1>1, <1>2, <1>3, <1>4 DEF Referring

\* The staff's status change of one row.
LEMMA ReferralStatus ==
    ASSUME ReferralInv, Inv', Alone', \A t \in Threads : session'[t].h \notin Looks,
           NEW i \in 1 .. Len(referral), NEW row \in Referral, row.cust = referral[i].cust,
           referral[i].reopened => row.reopened, Shut(referral[i]) => Shut(row),
           referral' = [referral EXCEPT ![i] = row], UNCHANGED <<customer, paid, event, batch>>
    PROVE  ReferralInv'
  <1>1. TablesTyped /\ Len(referral) \in Nat  BY TablesAre DEF ReferralInv, Inv
  <1>2. row.cust \in 0 .. Len(customer)  BY <1>1 DEF TablesTyped
  <1>3. /\ Len(referral)' = Len(referral)
        /\ \A k \in 1 .. Len(referral) : referral'[k] = IF k = i THEN row ELSE referral[k]
    BY <1>1, <1>2, ReferralSet
  <1>4. ASSUME NEW k \in 1 .. Len(referral)
        PROVE  /\ referral[k].reopened => referral'[k].reopened
               /\ Shut(referral[k]) => Shut(referral'[k])
    BY <1>3
  <1>5. SameOrigins  BY DEF SameOrigins
  <1>6. Len(referral)' >= Len(referral) /\ Len(referral)' \in Nat  BY <1>1, <1>3
  <1> QED  BY <1>4, <1>5, <1>6, ReferralWrites

\* A conversion: the referral is locked and looked at again, so a second customer
\* comes only of a referral that was declined and reopened.
LEMMA ReferralConverts ==
    ASSUME ReferralInv, Inv', OneLook, NEW s \in Threads, CommitCustomer(s)
    PROVE  ReferralInv'
  <1>1. Inv /\ Alone /\ TablesTyped /\ Len(referral) \in Nat /\ Len(customer) \in Nat
    BY TablesAre DEF ReferralInv, Inv
  <1>2. End(s) /\ Doing(s, "convert")  BY DEF CommitCustomer
  <1>3. CASE UNCHANGED Tables
    <2>1. UNCHANGED referral /\ SameOrigins  BY <1>3 DEF Tables, SameOrigins
    <2> QED  BY <1>2, <2>1, ReferralAtEnd
  <1>4. CASE ~UNCHANGED Tables
    <2>1. PICK i : i = session[s].id  OBVIOUS
    <2>2. /\ i # 0 => Convertible(referral[i])
          /\ i \in 0 .. Len(referral)
          /\ Len(customer)' = Len(customer) + 1
          /\ customer'[Len(customer) + 1].from = i
          /\ Len(referral)' = Len(referral)
      BY <1>1, <1>4, <2>1, ConversionIs
    <2>3. \A k \in 1 .. Len(customer) : customer'[k] = customer[k]  BY <1>1, <1>4, ConversionIs
    <2>4. \A k \in 1 .. Len(referral) :
              /\ k # i => referral'[k] = referral[k]
              /\ k = i => referral'[k].status = "converted" /\ referral'[k].reopened = referral[k].reopened
      BY <1>1, <1>4, <2>1, ConversionIs
    <2>5. ASSUME NEW k \in 1 .. Len(referral)
          PROVE  /\ referral'[k].reopened = referral[k].reopened
                 /\ Shut(referral[k]) => Shut(referral'[k])
      BY <2>4 DEF Shut, Closed
    <2>6. Alone' /\ \A t \in Threads : session'[t].h \notin Looks
      <3>1. Turns(s, Idle) /\ s \in Busy  BY <1>2, EndIs, DoingIs
      <3> QED  BY <1>1, <3>1, NobodyLooks
    <2>7. \A t \in Threads : Current(session[t])'  BY <2>6 DEF Current, Looks
    <2>8. ASSUME NEW c \in 1 .. Len(customer), customer[c].from = i, i # 0 PROVE referral'[i].reopened
      <3>1. i \in 1 .. Len(referral)  BY <1>1, <2>2, <2>8
      <3>2. From(i)  BY <2>8 DEF From
      <3>3. Shut(referral[i])  BY <3>1, <3>2 DEF ReferralInv
      <3>4. referral[i].reopened  BY <2>2, <2>8, <3>3 DEF Shut, Closed, Convertible
      <3> QED  BY <2>5, <3>1, <3>4
    <2>9. ASSUME NEW c \in 1 .. Len(customer)', NEW d \in 1 .. Len(customer)', c # d,
                 customer'[c].from = customer'[d].from, customer'[c].from # 0
          PROVE  referral'[customer'[c].from].reopened
      <3>1. /\ c \in 1 .. Len(customer) \/ c = Len(customer) + 1
            /\ d \in 1 .. Len(customer) \/ d = Len(customer) + 1
        BY <1>1, <2>2
      <3>2. CASE c \in 1 .. Len(customer) /\ d \in 1 .. Len(customer)
        <4>1. customer[c].from = customer[d].from /\ customer[c].from # 0
              /\ customer'[c].from = customer[c].from
          BY <2>3, <2>9, <3>2
        <4>2. referral[customer[c].from].reopened  BY <2>9, <3>2, <4>1 DEF ReferralInv
        <4>3. customer[c].from \in 1 .. Len(referral)
          <5>1. customer[c].from \in 0 .. Len(referral)  BY <1>1, <3>2 DEF TablesTyped
          <5> QED  BY <1>1, <4>1, <5>1
        <4> QED  BY <2>5, <4>1, <4>2, <4>3
      <3>3. CASE c \in 1 .. Len(customer) /\ d = Len(customer) + 1
        <4>1. customer[c].from = i /\ i # 0 /\ customer'[c].from = i  BY <2>2, <2>3, <2>9, <3>3
        <4> QED  BY <2>8, <3>3, <4>1
      <3>4. CASE d \in 1 .. Len(customer) /\ c = Len(customer) + 1
        <4>1. customer[d].from = i /\ i # 0 /\ customer'[c].from = i  BY <2>2, <2>3, <2>9, <3>4
        <4> QED  BY <2>8, <3>4, <4>1
      <3> QED  BY <2>9, <3>1, <3>2, <3>3, <3>4
    <2>10. ASSUME NEW k \in 1 .. Len(referral)', From(k)' PROVE Shut(referral[k])'
      <3>1. k \in 1 .. Len(referral)  BY <2>2
      <3>2. PICK c \in 1 .. Len(customer)' : customer'[c].from = k  BY <2>10 DEF From
      <3>3. CASE k = i  BY <2>4, <3>1, <3>3 DEF Shut, Closed
      <3>4. CASE k # i
        <4>1. c \in 1 .. Len(customer)  BY <1>1, <2>2, <3>2, <3>4
        <4>2. From(k)  BY <2>3, <3>2, <4>1 DEF From
        <4>3. Shut(referral[k])  BY <3>1, <4>2 DEF ReferralInv
        <4>4. Shut(referral'[k])  BY <2>5, <3>1, <4>3
        <4> QED  BY <4>4 DEF Shut
      <3> QED  BY <3>3, <3>4
    <2> QED  BY <2>6, <2>7, <2>9, <2>10 DEF ReferralInv
  <1> QED  BY <1>3, <1>4

LEMMA ReferralReviewing ==
    ASSUME ReferralInv, Inv', OneLook, NEW s \in Threads, Reviewing(s)
    PROVE  ReferralInv'
  <1>0. Inv /\ Alone /\ TablesTyped /\ DOMAIN referral = 1 .. Len(referral)  BY TablesAre DEF ReferralInv, Inv
  <1>1. ASSUME NEW i \in DOMAIN referral, OpenDetail(s, i) PROVE ReferralInv'
    <2>1. PICK j : j = [h |-> "open", id |-> i,
                        status |-> IF referral[i].status = "submitted" THEN "under_review"
                                                                       ELSE referral[i].status]
      OBVIOUS
    <2>2. Begin(s, j)  BY <1>1, <2>1 DEF OpenDetail
    <2>3. Current(j)  BY <2>1 DEF Current, LookedAt
    <2> QED  BY <2>2, <2>3, ReferralAtBegin
  <1>2. ASSUME NEW h \in {"open", "reopen"}, Doing(s, h), End(s)
        PROVE  /\ session[s].id \in 1 .. Len(referral)
               /\ h = "open" => session[s].status \in Statuses /\ LookedAt(session[s], referral[session[s].id])
               /\ Alone' /\ \A t \in Threads : session'[t].h \notin Looks
    <2>1. Turns(s, Idle) /\ s \in Busy /\ session[s].h = h  BY <1>2, EndIs, DoingIs
    <2>2. Alone' /\ \A t \in Threads : session'[t].h \notin Looks  BY <1>0, <2>1, NobodyLooks
    <2>3. Typed(session[s], Len(referral), Len(customer), Len(event), Len(batch))  BY <1>0, HeldIs
    <2>4. session[s].id \in 1 .. Len(referral)
      <3>1. CASE h = "open"  BY <2>1, <2>3, <3>1, TypedIs
      <3>2. CASE h = "reopen"  BY <2>1, <2>3, <3>2, TypedIs
      <3> QED  BY <3>1, <3>2
    <2>5. ASSUME h = "open"
          PROVE  session[s].status \in Statuses /\ LookedAt(session[s], referral[session[s].id])
      <3>1. session[s] \in [h : {"open"}, id : Nat, status : Statuses]  BY <2>1, <2>3, <2>5, TypedIs
      <3>2. LookedAt(session[s], referral[session[s].id])  BY <2>1, <2>5 DEF ReferralInv, Current
      <3> QED  BY <3>1, <3>2
    <2> QED  BY <2>2, <2>4, <2>5
  <1>3. ASSUME CommitDetail(s) PROVE ReferralInv'
    <2>1. PICK i, st : i = session[s].id /\ st = session[s].status  OBVIOUS
    <2>2. Doing(s, "open") /\ End(s) /\ UNCHANGED <<customer, paid, event, batch>>
      BY <1>3 DEF CommitDetail
    <2>3. /\ i \in 1 .. Len(referral) /\ st \in Statuses /\ LookedAt(session[s], referral[i])
          /\ Alone' /\ \A t \in Threads : session'[t].h \notin Looks
      BY <1>2, <2>1, <2>2
    <2>4. PICK row : row = [referral[i] EXCEPT !.opened = TRUE, !.status = st]  OBVIOUS
    <2>5. referral' = [referral EXCEPT ![i] = row]  BY <1>3, <2>1, <2>4 DEF CommitDetail
    <2>6. referral[i] \in Referral  BY <1>0, <2>3, TablesAre
    <2>7. /\ row \in Referral /\ row.cust = referral[i].cust /\ row.reopened = referral[i].reopened
          /\ row.status = st
      BY <2>3, <2>4, <2>6 DEF Referral
    <2>8. Shut(referral[i]) => Shut(row)  BY <2>1, <2>3, <2>7 DEF Shut, Closed, LookedAt
    <2> QED  BY <2>2, <2>3, <2>5, <2>7, <2>8, ReferralStatus
  <1>4. ASSUME NEW i \in DOMAIN referral, OpenReopen(s, i) PROVE ReferralInv'
    <2>1. PICK j : j = [h |-> "reopen", id |-> i]  OBVIOUS
    <2>2. Begin(s, j)  BY <1>4, <2>1 DEF OpenReopen
    <2>3. Current(j)  BY <2>1 DEF Current
    <2> QED  BY <2>2, <2>3, ReferralAtBegin
  <1>5. ASSUME CommitReopen(s) PROVE ReferralInv'
    <2>1. PICK i : i = session[s].id  OBVIOUS
    <2>2. Doing(s, "reopen") /\ End(s) /\ UNCHANGED <<customer, paid, event, batch>>
      BY <1>5 DEF CommitReopen
    <2>3. /\ i \in 1 .. Len(referral)
          /\ Alone' /\ \A t \in Threads : session'[t].h \notin Looks
      BY <1>2, <2>1, <2>2
    <2>4. PICK row : row = [referral[i] EXCEPT !.status = "under_review", !.reopened = TRUE]  OBVIOUS
    <2>5. referral' = [referral EXCEPT ![i] = row]  BY <1>5, <2>1, <2>4 DEF CommitReopen
    <2>6. referral[i] \in Referral  BY <1>0, <2>3, TablesAre
    <2>7. row \in Referral /\ row.cust = referral[i].cust /\ row.reopened
      BY <2>4, <2>6 DEF Referral, Statuses
    <2>8. Shut(row)  BY <2>7 DEF Shut
    <2> QED  BY <2>2, <2>3, <2>5, <2>7, <2>8, ReferralStatus
  <1>6. ASSUME NEW i \in {0} \cup DOMAIN referral, NEW phone \in Phones, NEW a \in Agents \cup {NoOne},
               NEW installed \in BOOLEAN, OpenCustomer(s, i, phone, a, installed)
        PROVE  ReferralInv'
    <2>1. PICK j : j = [h |-> "convert", id |-> IF installed THEN 0 ELSE i, phone |-> phone,
                        agent |-> IF a # NoOne \/ i = 0 \/ installed THEN a ELSE referral[i].agent]
      OBVIOUS
    <2>2. Begin(s, j)  BY <1>6, <2>1 DEF OpenCustomer
    <2>3. Current(j)  BY <2>1 DEF Current
    <2> QED  BY <2>2, <2>3, ReferralAtBegin
  <1> QED  BY <1>1, <1>3, <1>4, <1>5, <1>6, ReferralConverts DEF Reviewing

LEMMA ReferralMoney ==
    ASSUME ReferralInv, Inv', NEW s \in Threads, Paying(s) \/ CashingOut(s)
    PROVE  ReferralInv'
  <1>1. Inv /\ TablesTyped /\ DOMAIN customer = 1 .. Len(customer)  BY TablesAre DEF ReferralInv, Inv
  <1>2. ASSUME NEW c \in DOMAIN customer, NEW amount \in Months, OpenPay(s, c, amount) PROVE ReferralInv'
    <2>1. PICK j : j = Job("pay", c, 0, amount, Net(paid[c] + amount))  OBVIOUS
    <2>2. Begin(s, j) /\ j.h = "pay"  BY <1>2, <2>1 DEF OpenPay, Job
    <2>3. Current(j)  BY <2>2 DEF Current
    <2> QED  BY <2>2, <2>3, ReferralAtBegin
  <1>3. ASSUME NEW c \in DOMAIN customer, NEW d \in DOMAIN customer, NEW amount \in Months,
               OpenTransfer(s, c, d, amount)
        PROVE  ReferralInv'
    <2>1. PICK j : j = Job("transfer", c, d, amount, Net(paid[c] + amount))  OBVIOUS
    <2>2. Begin(s, j) /\ j.h = "transfer"  BY <1>3, <2>1 DEF OpenTransfer, Job
    <2>3. Current(j)  BY <2>2 DEF Current
    <2> QED  BY <2>2, <2>3, ReferralAtBegin
  <1>4. ASSUME NEW h \in Posting, NEW c, NEW delta, NEW rounds, Post(s, h, c, delta, rounds)
        PROVE  ReferralInv'
    <2>1. PICK j : j = [h |-> h, todo |-> rounds, cust |-> c]  OBVIOUS
    <2>2. j.h = h /\ Current(j)  BY <2>1 DEF Current, Posting
    <2>3. Turns(s, j)  BY <1>4, <2>1, <2>2 DEF Post, Turns
    <2>4. UNCHANGED referral /\ SameOrigins  BY <1>4 DEF Post, SameOrigins
    <2> QED  BY <2>2, <2>3, <2>4, ReferralStays
  <1>5. ASSUME ReadLedger(s) PROVE ReferralInv'
    <2>1. PICK j : j = session[s]  OBVIOUS
    <2>2. PICK k : k = Job(j.h, j.cust, 0, 0, Net(paid[j.cust]))  OBVIOUS
    <2>3. PICK n : n = [h |-> j.h, todo |-> j.todo - 1, cust |-> j.cust,
                        agent |-> k.agent, id |-> k.id, known |-> k.known, verdict |-> k.verdict]
      OBVIOUS
    <2>4. j.h \in Posting /\ UNCHANGED Tables /\ session' = [session EXCEPT ![s] = n]
      BY <1>1, <1>5, <2>1, <2>2, <2>3, ReadingIs
    <2>5. n.h = j.h /\ Current(n)  BY <2>3, <2>4 DEF Current, Posting
    <2>6. s \in Busy  BY <2>1, <2>4 DEF Busy, Posting, Idle
    <2>7. Turns(s, n)  BY <2>1, <2>4, <2>5, <2>6 DEF Turns
    <2>8. UNCHANGED referral /\ SameOrigins  BY <2>4 DEF Tables, SameOrigins
    <2> QED  BY <2>5, <2>7, <2>8, ReferralStays
  <1>6. ASSUME WriteLedger(s) PROVE ReferralInv'
    <2>1. PICK j : j = session[s]  OBVIOUS
    <2>2. PICK n : n = IF j.todo = 0 THEN Idle ELSE [h |-> j.h, todo |-> j.todo, cust |-> j.cust]  OBVIOUS
    <2>3. j.h \in Posting /\ UNCHANGED <<referral, customer>> /\ session' = [session EXCEPT ![s] = n]
      BY <1>1, <1>6, <2>1, <2>2, WritingIs
    <2>4. (n = Idle \/ n.h = j.h) /\ Current(n)  BY <2>2, <2>3 DEF Idle, Posting, Current
    <2>5. s \in Busy  BY <2>1, <2>3 DEF Busy, Posting, Idle
    <2>6. Turns(s, n)  BY <2>1, <2>3, <2>4, <2>5 DEF Turns
    <2>7. UNCHANGED referral /\ SameOrigins  BY <2>3 DEF SameOrigins
    <2> QED  BY <2>4, <2>6, <2>7, ReferralStays
  <1>7. ASSUME CommitTransfer(s) PROVE ReferralInv'
    <2>1. PICK j : j = session[s]  OBVIOUS
    <2>2. End(s) /\ UNCHANGED referral  BY <1>7 DEF CommitTransfer
    <2>3. /\ Len(customer)' = Len(customer)
          /\ \A k \in 1 .. Len(customer) : customer'[k] =
                IF k = j.left THEN [customer[k] EXCEPT !.moved = TRUE] ELSE customer[k]
      BY <1>1, <1>7, <2>1, TransferIs
    <2>4. ASSUME NEW k \in 1 .. Len(customer) PROVE customer'[k].from = customer[k].from
      <3>1. customer'[k] = IF k = j.left THEN [customer[k] EXCEPT !.moved = TRUE] ELSE customer[k]
        BY <2>3
      <3>2. customer[k] \in Customer  BY <1>1, TablesAre
      <3> QED  BY <3>1, <3>2 DEF Customer
    <2>5. SameOrigins  BY <2>3, <2>4 DEF SameOrigins
    <2> QED  BY <2>2, <2>5, ReferralAtEnd
  <1>8. ASSUME CommitPay(s) \/ CommitBatch(s) \/ CommitMarkPaid(s) PROVE ReferralInv'
    <2>1. End(s) /\ UNCHANGED <<referral, customer>>  BY <1>8 DEF CommitPay, CommitBatch, CommitMarkPaid
    <2>2. UNCHANGED referral /\ SameOrigins  BY <2>1 DEF SameOrigins
    <2> QED  BY <2>1, <2>2, ReferralAtEnd
  <1>9. ASSUME NEW a \in Agents, NEW n, OpenBatch(s, a, n) PROVE ReferralInv'
    <2>1. PICK j : j = [h |-> "batch", agent |-> a, size |-> n, events |-> Oldest(Unpaid(a), n)]  OBVIOUS
    <2>2. Begin(s, j)  BY <1>9, <2>1 DEF OpenBatch
    <2>3. Current(j)  BY <2>1 DEF Current
    <2> QED  BY <2>2, <2>3, ReferralAtBegin
  <1>10. ASSUME NEW b \in DOMAIN batch, OpenMarkPaid(s, b) PROVE ReferralInv'
    <2>1. PICK j : j = [h |-> "markPaid", id |-> b]  OBVIOUS
    <2>2. Begin(s, j)  BY <1>10, <2>1 DEF OpenMarkPaid
    <2>3. Current(j)  BY <2>1 DEF Current
    <2> QED  BY <2>2, <2>3, ReferralAtBegin
  <1>11. CASE CashingOut(s)  BY <1>8, <1>9, <1>10, <1>11 DEF CashingOut
  <1>12. CASE Paying(s)
    BY <1>2, <1>3, <1>4, <1>5, <1>6, <1>7, <1>8, <1>12 DEF Paying, Refund, Correct, Posting
  <1> QED  BY <1>11, <1>12

\* The handlers that read and write in one step.
LEMMA ReferralInOne ==
    ASSUME ReferralInv, Inv', OneLook,
           \/ \E a \in Agents : StaffAdd(a)
           \/ \E i \in DOMAIN referral : Decline(i)
           \/ \E c \in DOMAIN customer, a \in Agents \cup {NoOne} : Reassign(c, a)
           \/ \E c \in DOMAIN customer : CloseInstall(c)
           \/ UNCHANGED vars
    PROVE  ReferralInv'
  <1>0. /\ Inv /\ TablesTyped /\ Len(referral) \in Nat
        /\ DOMAIN referral = 1 .. Len(referral) /\ DOMAIN customer = 1 .. Len(customer)
    BY TablesAre DEF ReferralInv, Inv
  <1>1. ASSUME NEW a \in Agents, StaffAdd(a) PROVE ReferralInv'
    <2>1. PICK row : row = NewReferral(a, NoOne, "under_review", TRUE, FALSE)  OBVIOUS
    <2>2. /\ Free("staffAdd") /\ referral' = Append(referral, row) /\ session' = session
          /\ UNCHANGED <<customer, paid, event, batch>>
      BY <1>1, <2>1 DEF StaffAdd
    <2>3. row \in Referral  BY <2>1 DEF NewReferral, Referral, Statuses
    <2>4. referral \in Seq(Referral)  BY <1>0 DEF TablesTyped
    <2>5. /\ Len(referral)' = Len(referral) + 1
          /\ \A k \in 1 .. Len(referral) : referral'[k] = referral[k]
      BY <2>2, <2>3, <2>4, SeqAdd
    <2>6. SameOrigins  BY <2>2 DEF SameOrigins
    <2>7. Alone' /\ \A t \in Threads : session'[t].h \notin Looks  BY <2>2, NobodyLooksOn
    <2>8. Len(referral)' >= Len(referral) /\ Len(referral)' \in Nat  BY <1>0, <2>5
    <2> QED  BY <2>5, <2>6, <2>7, <2>8, ReferralWrites
  <1>2. ASSUME NEW i \in 1 .. Len(referral), Decline(i) PROVE ReferralInv'
    <2>1. PICK row : row = [referral[i] EXCEPT !.status = "declined"]  OBVIOUS
    <2>2. /\ Free("decline") /\ referral' = [referral EXCEPT ![i] = row] /\ session' = session
          /\ UNCHANGED <<customer, paid, event, batch>>
      BY <1>2, <2>1 DEF Decline
    <2>3. referral[i] \in Referral  BY <1>0, TablesAre
    <2>4. /\ row \in Referral /\ row.cust = referral[i].cust /\ row.reopened = referral[i].reopened
          /\ row.status = "declined"
      BY <2>1, <2>3 DEF Referral, Statuses
    <2>5. Shut(row)  BY <2>4 DEF Shut, Closed
    <2>6. Alone' /\ \A t \in Threads : session'[t].h \notin Looks  BY <2>2, NobodyLooksOn
    <2> QED  BY <2>2, <2>4, <2>5, <2>6, ReferralStatus
  <1>3. ASSUME NEW c \in 1 .. Len(customer), NEW row \in Customer, row.from = customer[c].from,
               customer' = [customer EXCEPT ![c] = row], UNCHANGED <<referral, paid, event, batch>>,
               session' = session
        PROVE  ReferralInv'
    <2>1. /\ Len(customer)' = Len(customer)
          /\ \A k \in 1 .. Len(customer) : customer'[k] = IF k = c THEN row ELSE customer[k]
      BY <1>0, <1>3, CustomerSet
    <2>2. SameOrigins  BY <1>3, <2>1 DEF SameOrigins
    <2> QED  BY <1>3, <2>2, ReferralAtOnce
  <1>4. ASSUME NEW c \in 1 .. Len(customer), NEW a \in Agents \cup {NoOne}, Reassign(c, a) PROVE ReferralInv'
    <2>1. PICK row : row = [customer[c] EXCEPT !.agent = a]  OBVIOUS
    <2>2. customer' = [customer EXCEPT ![c] = row] /\ UNCHANGED <<referral, paid, event, batch>>
          /\ session' = session
      BY <1>4, <2>1 DEF Reassign
    <2>3. customer[c] \in Customer  BY <1>0, TablesAre
    <2>4. row \in Customer /\ row.from = customer[c].from  BY <2>1, <2>3 DEF Customer
    <2> QED  BY <1>3, <2>2, <2>4
  <1>5. ASSUME NEW c \in 1 .. Len(customer), CloseInstall(c) PROVE ReferralInv'
    <2>1. PICK row : row = [customer[c] EXCEPT !.closed = TRUE]  OBVIOUS
    <2>2. customer' = [customer EXCEPT ![c] = row] /\ UNCHANGED <<referral, paid, event, batch>>
          /\ session' = session
      BY <1>5, <2>1 DEF CloseInstall
    <2>3. customer[c] \in Customer  BY <1>0, TablesAre
    <2>4. row \in Customer /\ row.from = customer[c].from  BY <2>1, <2>3 DEF Customer
    <2> QED  BY <1>3, <2>2, <2>4
  <1>6. ASSUME UNCHANGED vars PROVE ReferralInv'
    <2>1. session' = session /\ UNCHANGED referral /\ SameOrigins  BY <1>6 DEF vars, SameOrigins
    <2> QED  BY <2>1, ReferralAtOnce
  <1> QED  BY <1>0, <1>1, <1>2, <1>4, <1>5, <1>6

LEMMA ReferralInvCorrect ==
    ASSUME OneLook
    PROVE  Spec => []ReferralInv
  <1>1. Init => ReferralInv
    <2> SUFFICES ASSUME Init PROVE ReferralInv  OBVIOUS
    <2>1. Inv  BY InvHoldsAtFirst
    <2>2. \A s \in Threads : session[s] = Idle  BY DEF Init
    <2>3. Busy = {} /\ referral = <<>> /\ customer = <<>>  BY <2>2 DEF Busy, Init
    <2>4. \A s \in Threads : Current(session[s])  BY <2>2 DEF Current, Idle
    <2>5. Len(referral) = 0 /\ Len(customer) = 0  BY <2>3
    <2>6. 1 .. Len(referral) = {} /\ 1 .. Len(customer) = {}  BY <2>5
    <2> QED  BY <2>1, <2>3, <2>4, <2>6 DEF ReferralInv, Alone
  <1>2. ReferralInv /\ Inv' /\ [Next]_vars => ReferralInv'
    <2> SUFFICES ASSUME ReferralInv, Inv', [Next]_vars PROVE ReferralInv'  OBVIOUS
    <2>1. CASE \E s \in Threads : Referring(s) \/ Reviewing(s) \/ Paying(s) \/ CashingOut(s)
      BY <2>1, ReferralReferring, ReferralReviewing, ReferralMoney
    <2> QED  BY <2>1, ReferralInOne DEF Next, Step, AtRest
  <1> QED  BY <1>1, <1>2, InvCorrect, PTL DEF Spec

(* Two customers come of one referral only if staff reopened it in between,    *)
(* two clerks on one referral included: the conversion locks the referral and  *)
(* reads it again (crud.py:289-296).  An agent's edit and the staff's first    *)
(* look save what they read before; that they come between no others is an     *)
(* assumption the code does not enforce (agents.py:214).                       *)
THEOREM ReferralConvertsOnce ==
    ASSUME OneLook
    PROVE  Spec => []ConvertedOnce
  <1>1. ReferralInv => ConvertedOnce
    <2> SUFFICES ASSUME ReferralInv, NEW c \in DOMAIN customer, NEW d \in DOMAIN customer,
                        c # d, customer[c].from = customer[d].from, customer[c].from # 0
                 PROVE  referral[customer[c].from].reopened
      BY DEF ConvertedOnce
    <2>1. c \in 1 .. Len(customer) /\ d \in 1 .. Len(customer)  BY TablesAre DEF ReferralInv, Inv
    <2> QED  BY <2>1 DEF ReferralInv
  <1> QED  BY <1>1, ReferralInvCorrect, PTL
=============================================================================
