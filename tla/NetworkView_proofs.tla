------------------------- MODULE NetworkView_proofs -------------------------
(***************************************************************************)
(* What the screens may trust, for any number of routers, subscribers,      *)
(* workers and threads and for every time to live that TimeAssumption       *)
(* allows.  The argument is about ages: what a key says was true when a      *)
(* poll read it, a poll is at most PollLimit old when it writes the key, and *)
(* the time the key has lived is what is missing from its time to live.      *)
(***************************************************************************)
EXTENDS NetworkView, FiniteSetTheorems, TLAPS

LEMMA Times ==
    /\ PageTtl \in Nat \ {0} /\ UplinkFresh \in Nat \ {0} /\ BridgeFresh \in Nat \ {0}
    /\ BeatTtl \in Nat \ {0} /\ TaskTtl \in Nat \ {0} /\ BridgeStale \in Nat \ {0}
    /\ LastOkTtl \in Nat \ {0} /\ BlockBase \in Nat \ {0} /\ BlockSteps \in Nat \ {0}
    /\ BlockCap \in Nat \ {0} /\ PollLimit \in Nat \ {0} /\ MaxFaults \in Nat
    /\ PageTtl <= TaskTtl
    /\ Horizon \in Nat /\ Long \in Nat /\ Long = TaskTtl + PollLimit + UplinkFresh + 1
  BY TimeAssumption DEF Horizon, Long

LEMMA SmallerIs ==
    ASSUME NEW a \in Int, NEW b \in Int
    PROVE  Smaller(a, b) \in {a, b} /\ Smaller(a, b) <= a /\ Smaller(a, b) <= b
  BY DEF Smaller

\* What ages by a tick stays below its limit, and gets at most one tick older.
LEMMA UpIs ==
    ASSUME NEW limit \in Nat, NEW n \in 0 .. limit
    PROVE  Up(n, limit) \in 0 .. limit /\ Up(n, limit) <= n + 1
  BY SmallerIs DEF Up

LEMMA DownIs ==
    ASSUME NEW limit \in Nat, NEW n \in 0 .. limit
    PROVE  Down(n) \in 0 .. limit
  BY DEF Down

\* Powers of two are numbers: they count the subsets of an interval.
LEMMA PowerIs ==
    ASSUME NEW n \in Nat
    PROVE  2 ^ n \in Nat
  <1>1. IsFiniteSet(1 .. n) /\ Cardinality(1 .. n) = n
    <2>1. IsFiniteSet(1 .. n) /\ Cardinality(1 .. n) = IF 1 > n THEN 0 ELSE n - 1 + 1
      BY FS_Interval
    <2> QED  BY <2>1
  <1>2. IsFiniteSet(SUBSET (1 .. n)) /\ Cardinality(SUBSET (1 .. n)) = 2 ^ Cardinality(1 .. n)
    BY <1>1, FS_SUBSET
  <1>3. Cardinality(SUBSET (1 .. n)) \in Nat  BY <1>2, FS_CardinalityType
  <1> QED  BY <1>1, <1>2, <1>3

\* A block lasts no longer than the longest one.
LEMMA BlockIs ==
    ASSUME NEW n \in Nat \ {0}
    PROVE  BlockFor(n) \in 0 .. BlockCap
  <1>1. 2 ^ (n - 1) \in Nat  BY PowerIs
  <1> DEFINE p == 2 ^ (n - 1)
  <1>2. p \in Nat  BY <1>1
  <1>3. BlockFor(n) = IF n < BlockSteps THEN Smaller(BlockBase * p, BlockCap) ELSE BlockCap  BY DEF BlockFor
  <1> HIDE DEF p
  <1>4. BlockBase * p \in Nat  BY <1>2, Times
  <1>5. Smaller(BlockBase * p, BlockCap) \in 0 .. BlockCap  BY <1>4, Times, SmallerIs
  <1> QED  BY <1>3, <1>5, Times
-----------------------------------------------------------------------------
(* Types *)

Poll(p) == [kind : Kinds(p), todo : SUBSET Routers, who : SUBSET Customers,
            routers : SUBSET Routers, online : SUBSET Routers, age : 0 .. PollLimit]

WorldTyped ==
    /\ row \in [Customers -> Rows]
    /\ link \in [Routers -> {"down", "noInternet", "up"}]
    /\ office \in BOOLEAN /\ home \in [Customers -> BOOLEAN] /\ faults \in 0 .. MaxFaults
BreakerTyped ==
    /\ block \in [Routers -> 0 .. BlockCap]
    /\ tries \in [Routers -> [n : 0 .. BlockSteps, left : 0 .. BlockCap]]
UplinkTyped == uplink \in [Routers -> [online : BOOLEAN, age : 0 .. UplinkFresh]]
KeysTyped ==
    /\ active \in [who : SUBSET Customers, left : 0 .. TaskTtl]
    /\ live \in [routers : SUBSET Routers, online : SUBSET Routers, left : 0 .. TaskTtl]
    /\ live.online \subseteq live.routers
    /\ counts \in [reached : 0 .. Cardinality(Routers), left : 0 .. TaskTtl]
    /\ lastOk \in 0 .. LastOkTtl
BeatTyped == beat \in [online : BOOLEAN, left : 0 .. BeatTtl]
JobsTyped ==
    /\ job \in [Pollers -> {Idle} \cup UNION {Poll(p) : p \in Pollers}]
    /\ \A p \in Pollers : job[p] # Idle => job[p] \in Poll(p) /\ job[p].online \subseteq job[p].routers
GhostTyped == seen \in [Customers -> 0 .. Long] /\ heard \in 0 .. Long

Types == WorldTyped /\ BreakerTyped /\ UplinkTyped /\ KeysTyped /\ BeatTyped /\ JobsTyped /\ GhostTyped

LEMMA TypesImplyTypeOK ==
    ASSUME Types
    PROVE  TypeOK
  <1>1. ASSUME NEW p \in Pollers
        PROVE  job[p] = Idle \/
                 job[p] \in [kind : Kinds(p), todo : SUBSET Routers, who : SUBSET Customers,
                             routers : SUBSET Routers, online : SUBSET Routers, age : 0 .. PollLimit]
    BY DEF Types, JobsTyped, Poll
  <1> QED
    BY <1>1 DEF Types, WorldTyped, BreakerTyped, UplinkTyped, KeysTyped, BeatTyped, GhostTyped, TypeOK

LEMMA TypesAtFirst ==
    ASSUME Init
    PROVE  Types
  <1>1. WorldTyped  BY Times DEF Init, WorldTyped
  <1>2. BreakerTyped  BY Times DEF Init, BreakerTyped, NoTries
  <1>3. UplinkTyped  BY Times DEF Init, UplinkTyped
  <1>4. Cardinality(Routers) \in Nat  BY RowAssumption, FS_CardinalityType
  <1>5. KeysTyped  BY <1>4, Times DEF Init, KeysTyped, NoSet, NoLive, NoCount
  <1>6. BeatTyped  BY Times DEF Init, BeatTyped, NoBeat
  <1>7. JobsTyped  BY DEF Init, JobsTyped
  <1>8. GhostTyped  BY Times DEF Init, GhostTyped
  <1> QED  BY <1>1, <1>2, <1>3, <1>5, <1>6, <1>7, <1>8 DEF Types

LEMMA ConnectsTyped ==
    ASSUME BreakerTyped, NEW r \in Routers, NEW n \in 0 .. BlockSteps, ConnectsAfter(r, n)
    PROVE  BreakerTyped'
  <1>1. n + 1 \in Nat \ {0} /\ n + 1 \in Int  BY Times
  <1>2. BlockFor(n + 1) \in 0 .. BlockCap  BY <1>1, BlockIs
  <1>3. Smaller(n + 1, BlockSteps) \in 0 .. BlockSteps  BY <1>1, Times, SmallerIs
  <1>4. CASE Reach(r)  BY <1>4, Times DEF BreakerTyped, ConnectsAfter, NoTries
  <1>5. CASE ~Reach(r)  BY <1>2, <1>3, <1>5, Times DEF BreakerTyped, ConnectsAfter
  <1> QED  BY <1>4, <1>5

LEMMA HearsTyped ==
    ASSUME GhostTyped, NEW r \in Routers, Hears(r)
    PROVE  GhostTyped'
  BY Times DEF GhostTyped, Hears, ghost

\* A job is set: the others stay.
LEMMA JobSet ==
    ASSUME JobsTyped, NEW p \in Pollers, NEW j, job' = [job EXCEPT ![p] = j],
           j = Idle \/ (j \in Poll(p) /\ j.online \subseteq j.routers)
    PROVE  JobsTyped'
  <1>1. job' \in [Pollers -> {Idle} \cup UNION {Poll(q) : q \in Pollers}]
    <2>1. j \in {Idle} \cup UNION {Poll(q) : q \in Pollers}  OBVIOUS
    <2> HIDE DEF Poll
    <2> QED  BY <2>1 DEF JobsTyped
  <1>2. ASSUME NEW q \in Pollers, job'[q] # Idle
        PROVE  job'[q] \in Poll(q) /\ job'[q].online \subseteq job'[q].routers
    <2>1. job \in [Pollers -> {Idle} \cup UNION {Poll(k) : k \in Pollers}]  BY DEF JobsTyped
    <2>2. CASE q = p
      <3>1. job'[q] = j  BY <2>1, <2>2
      <3> QED  BY <1>2, <2>2, <3>1
    <2>3. CASE q # p
      <3>1. job'[q] = job[q]  BY <2>1, <2>3
      <3> QED  BY <1>2, <3>1 DEF JobsTyped
    <2> QED  BY <2>2, <2>3
  <1> QED  BY <1>1, <1>2 DEF JobsTyped

LEMMA VisitIs ==
    ASSUME Types, NEW p \in Pollers, NEW r \in Routers, PollRouter(p, r)
    PROVE  /\ job[p] # Idle /\ job[p] \in Poll(p)
           /\ job' = [job EXCEPT ![p] = Visited(p, r)]
           /\ Visited(p, r) \in Poll(p)
           /\ Visited(p, r).online \subseteq Visited(p, r).routers
           /\ Visited(p, r).age = job[p].age
           /\ Visited(p, r).who \subseteq job[p].who \cup IF block[r] > 0 THEN {} ELSE Sessions(r)
           /\ Visited(p, r).online \subseteq
                 job[p].online \cup IF block[r] = 0 /\ Pinged(r).online THEN {r} ELSE {}
  <1>1. job[p] # Idle /\ job[p] \in Poll(p) /\ job[p].online \subseteq job[p].routers
    BY DEF PollRouter, Types, JobsTyped
  <1>2. block[r] \in Nat  BY Times DEF Types, BreakerTyped
  <1>3. Sessions(r) \subseteq Customers  BY DEF Sessions, Lines
  <1>4. PICK j : j = [job[p] EXCEPT !.todo = @ \ {r}]  OBVIOUS
  <1>5. /\ j \in Poll(p) /\ j.kind = job[p].kind /\ j.online = job[p].online
        /\ j.routers = job[p].routers /\ j.age = job[p].age /\ j.who = job[p].who
    BY <1>1, <1>4 DEF Poll
  <1>6. job' = [job EXCEPT ![p] = Visited(p, r)]  BY DEF PollRouter
  <1>7. CASE block[r] > 0
    <2>1. Visited(p, r) = j  BY <1>4, <1>7 DEF Visited
    <2> QED  BY <1>1, <1>5, <1>6, <2>1
  <1>8. CASE block[r] = 0 /\ j.kind = "usernames"
    <2>1. Visited(p, r) = [j EXCEPT !.who = @ \cup Sessions(r)]  BY <1>4, <1>8 DEF Visited
    <2>2. /\ Visited(p, r) \in Poll(p) /\ Visited(p, r).online = j.online
          /\ Visited(p, r).routers = j.routers /\ Visited(p, r).age = j.age
          /\ Visited(p, r).who = j.who \cup Sessions(r)
      BY <1>3, <1>5, <2>1 DEF Poll
    <2> QED  BY <1>1, <1>5, <1>6, <1>8, <2>2
  <1>9. CASE block[r] = 0 /\ j.kind # "usernames"
    <2>1. PICK on : on = IF Pinged(r).online THEN j.online \cup {r} ELSE j.online  OBVIOUS
    <2>2. PICK who, routers : who = j.who \cup Sessions(r) /\ routers = j.routers \cup {r}  OBVIOUS
    <2>3. Visited(p, r) = [j EXCEPT !.who = who, !.routers = routers, !.online = on]
      BY <1>4, <1>9, <2>1, <2>2 DEF Visited
    <2>4. on \subseteq j.online \cup {r} /\ on \subseteq Routers /\ (~Pinged(r).online => on = j.online)
      BY <1>5, <2>1 DEF Poll
    <2>5. who \subseteq Customers /\ routers \subseteq Routers  BY <1>3, <1>5, <2>2 DEF Poll
    <2>6. /\ Visited(p, r) \in Poll(p) /\ Visited(p, r).online = on
          /\ Visited(p, r).routers = routers /\ Visited(p, r).age = j.age /\ Visited(p, r).who = who
      BY <1>5, <2>3, <2>4, <2>5 DEF Poll
    <2>7. Visited(p, r).online \subseteq Visited(p, r).routers  BY <1>1, <1>5, <2>2, <2>4, <2>6
    <2>8. Visited(p, r).online \subseteq
              job[p].online \cup IF block[r] = 0 /\ Pinged(r).online THEN {r} ELSE {}
      BY <1>5, <1>9, <2>4, <2>6
    <2> QED  BY <1>1, <1>5, <1>6, <1>9, <2>2, <2>6, <2>7, <2>8
  <1> QED  BY <1>2, <1>7, <1>8, <1>9

LEMMA TypesPoll ==
    ASSUME Types, NEW p \in Pollers, NEW r \in Routers, PollRouter(p, r)
    PROVE  Types'
  <1>1. JobsTyped'
    <2>1. PICK j : j = Visited(p, r)  OBVIOUS
    <2>2. job' = [job EXCEPT ![p] = j] /\ j \in Poll(p) /\ j.online \subseteq j.routers
      BY <2>1, VisitIs
    <2> QED  BY <2>2, JobSet DEF Types
  <1>2. tries[r].n \in 0 .. BlockSteps  BY DEF Types, BreakerTyped
  <1>3. BreakerTyped'
    <2>1. CASE block[r] > 0  BY <2>1 DEF PollRouter, Skipped, Types, BreakerTyped
    <2>2. CASE ~(block[r] > 0)
      <3>1. ConnectsAfter(r, tries[r].n)  BY <2>2 DEF PollRouter, Connects
      <3> QED  BY <1>2, <3>1, ConnectsTyped DEF Types
    <2> QED  BY <2>1, <2>2
  <1>4. UplinkTyped'
    <2>1. Pinged(r) \in [online : BOOLEAN, age : 0 .. UplinkFresh]
      BY Times DEF Pinged, Reach, Types, UplinkTyped, WorldTyped
    <2>2. uplink' = uplink \/ uplink' = [uplink EXCEPT ![r] = Pinged(r)]  BY DEF PollRouter
    <2> QED  BY <2>1, <2>2 DEF Types, UplinkTyped
  <1>5. GhostTyped'  BY HearsTyped DEF PollRouter, Types
  <1>6. WorldTyped' /\ KeysTyped' /\ BeatTyped'
    BY DEF PollRouter, world, Types, WorldTyped, KeysTyped, BeatTyped
  <1> QED  BY <1>1, <1>3, <1>4, <1>5, <1>6 DEF Types

LEMMA TypesEnd ==
    ASSUME Types, NEW p \in Pollers, EndPoll(p)
    PROVE  Types'
  <1>1. job[p] \in Poll(p) /\ job[p].online \subseteq job[p].routers /\ job' = [job EXCEPT ![p] = Idle]
    BY DEF EndPoll, Types, JobsTyped
  <1>2. JobsTyped'  BY <1>1, JobSet DEF Types
  <1>3. /\ job[p].who \subseteq Customers /\ job[p].routers \subseteq Routers /\ job[p].online \subseteq Routers
        /\ PageTtl \in 0 .. TaskTtl /\ TaskTtl \in 0 .. TaskTtl
    BY <1>1, Times DEF Poll
  <1>4. Cardinality(job[p].routers) \in 0 .. Cardinality(Routers)
    BY <1>3, RowAssumption, FS_Subset, FS_CardinalityType
  <1>5. KeysTyped'
    <2>1. active' \in [who : SUBSET Customers, left : 0 .. TaskTtl]
      <3>1. active' = [who |-> job[p].who,
                       left |-> IF job[p].kind = "usernames" THEN PageTtl ELSE TaskTtl]
        BY DEF EndPoll, Collected
      <3> QED  BY <1>3, <3>1
    <2>2. CASE job[p].kind = "usernames"  BY <2>1, <2>2 DEF EndPoll, Types, KeysTyped
    <2>3. CASE job[p].kind # "usernames"
      <3>1. /\ live' = [routers |-> job[p].routers, online |-> job[p].online,
                        left |-> IF job[p].kind = "page" THEN PageTtl ELSE TaskTtl]
            /\ counts' = [reached |-> Cardinality(job[p].routers), left |-> TaskTtl]
            /\ lastOk' = IF job[p].routers # {} THEN 0 ELSE lastOk
        BY <2>3 DEF EndPoll
      <3>2. live' \in [routers : SUBSET Routers, online : SUBSET Routers, left : 0 .. TaskTtl]
            /\ live'.online \subseteq live'.routers
        BY <1>1, <1>3, <3>1
      <3>3. counts' \in [reached : 0 .. Cardinality(Routers), left : 0 .. TaskTtl]  BY <1>3, <1>4, <3>1
      <3>4. lastOk' \in 0 .. LastOkTtl  BY <3>1, Times DEF Types, KeysTyped
      <3> QED  BY <2>1, <3>2, <3>3, <3>4 DEF KeysTyped
    <2> QED  BY <2>2, <2>3
  <1>6. WorldTyped' /\ BreakerTyped' /\ UplinkTyped' /\ BeatTyped' /\ GhostTyped'
    BY DEF EndPoll, world, ghost, Types, WorldTyped, BreakerTyped, UplinkTyped, BeatTyped, GhostTyped
  <1> QED  BY <1>2, <1>5, <1>6 DEF Types

\* A key with one tick less to live.
LEMMA LeftIs ==
    ASSUME NEW ttl \in Nat, NEW k, k.left \in 0 .. ttl, NEW none
    PROVE  /\ k.left <= 1 => Left(k, none) = none
           /\ k.left > 1 => Left(k, none) = [k EXCEPT !.left = k.left - 1] /\ k.left - 1 \in 0 .. ttl
  BY DEF Left

LEMMA TypesTick ==
    ASSUME Types, Tick
    PROVE  Types'
  <1>1. JobsTyped'
    <2>1. job' = [p \in Pollers |-> IF job[p] = Idle THEN Idle ELSE [job[p] EXCEPT !.age = job[p].age + 1]]
      BY DEF Tick
    <2>2. ASSUME NEW p \in Pollers
          PROVE  job'[p] = Idle \/ (job'[p] \in Poll(p) /\ job'[p].online \subseteq job'[p].routers)
      <3>1. CASE job[p] = Idle  BY <2>1, <3>1
      <3>2. CASE job[p] # Idle
        <4>1. job[p] \in Poll(p) /\ job[p].online \subseteq job[p].routers  BY <3>2 DEF Types, JobsTyped
        <4>2. job'[p] = [job[p] EXCEPT !.age = job[p].age + 1]  BY <2>1, <3>2
        <4>3. job[p].age < PollLimit  BY <3>2 DEF Tick
        <4>4. job[p].age + 1 \in 0 .. PollLimit  BY <4>1, <4>3, Times DEF Poll
        <4> QED  BY <4>1, <4>2, <4>4 DEF Poll
      <3> QED  BY <3>1, <3>2
    <2>3. DOMAIN job' = Pollers /\ \A p \in Pollers : job'[p] \in {Idle} \cup UNION {Poll(q) : q \in Pollers}
      <3> HIDE DEF Poll
      <3> QED  BY <2>1, <2>2
    <2>4. job' \in [Pollers -> {Idle} \cup UNION {Poll(q) : q \in Pollers}]
      <3>1. \A p \in Pollers : job'[p] \in {Idle} \cup UNION {Poll(q) : q \in Pollers}  BY <2>3
      <3>2. job' = [p \in Pollers |-> job'[p]]  BY <2>1
      <3> QED  BY <3>1, <3>2
    <2> QED  BY <2>2, <2>4 DEF JobsTyped
  <1>2. BreakerTyped'
    <2>1. ASSUME NEW r \in Routers PROVE Down(block[r]) \in 0 .. BlockCap
      BY DownIs, Times DEF Types, BreakerTyped
    <2>2. ASSUME NEW r \in Routers
          PROVE  Left(tries[r], NoTries) \in [n : 0 .. BlockSteps, left : 0 .. BlockCap]
      <3>1. tries[r] \in [n : 0 .. BlockSteps, left : 0 .. BlockCap]  BY DEF Types, BreakerTyped
      <3>2. tries[r].left \in 0 .. BlockCap  BY <3>1
      <3> QED  BY <3>1, <3>2, LeftIs, Times DEF NoTries
    <2> QED  BY <2>1, <2>2 DEF Tick, BreakerTyped
  <1>3. UplinkTyped'
    <2>1. ASSUME NEW r \in Routers
          PROVE  (IF uplink[r].age >= UplinkFresh - 1 THEN [online |-> FALSE, age |-> UplinkFresh]
                  ELSE [uplink[r] EXCEPT !.age = @ + 1]) \in [online : BOOLEAN, age : 0 .. UplinkFresh]
      BY Times DEF Types, UplinkTyped
    <2> QED  BY <2>1 DEF Tick, UplinkTyped
  <1>4. KeysTyped'
    <2>1. active' \in [who : SUBSET Customers, left : 0 .. TaskTtl]
      <3>1. active \in [who : SUBSET Customers, left : 0 .. TaskTtl]  BY DEF Types, KeysTyped
      <3>2. active.left \in 0 .. TaskTtl /\ active' = Left(active, NoSet)  BY <3>1 DEF Tick
      <3> QED  BY <3>1, <3>2, LeftIs, Times DEF NoSet
    <2>2. /\ live' \in [routers : SUBSET Routers, online : SUBSET Routers, left : 0 .. TaskTtl]
          /\ live'.online \subseteq live'.routers
      <3>1. /\ live \in [routers : SUBSET Routers, online : SUBSET Routers, left : 0 .. TaskTtl]
            /\ live.online \subseteq live.routers
        BY DEF Types, KeysTyped
      <3>2. live.left \in 0 .. TaskTtl /\ live' = Left(live, NoLive)  BY <3>1 DEF Tick
      <3>3. CASE live.left <= 1
        <4>1. live' = NoLive  BY <3>2, <3>3, LeftIs, Times
        <4> QED  BY <4>1, Times DEF NoLive
      <3>4. CASE live.left > 1
        <4>1. live' = [live EXCEPT !.left = live.left - 1] /\ live.left - 1 \in 0 .. TaskTtl
          BY <3>2, <3>4, LeftIs, Times
        <4> QED  BY <3>1, <4>1
      <3> QED  BY <3>2, <3>3, <3>4
    <2>3. counts' \in [reached : 0 .. Cardinality(Routers), left : 0 .. TaskTtl]
      <3>1. counts \in [reached : 0 .. Cardinality(Routers), left : 0 .. TaskTtl]  BY DEF Types, KeysTyped
      <3>2. counts.left \in 0 .. TaskTtl /\ counts' = Left(counts, NoCount)  BY <3>1 DEF Tick
      <3>3. Cardinality(Routers) \in Nat  BY RowAssumption, FS_CardinalityType
      <3> QED  BY <3>1, <3>2, <3>3, LeftIs, Times DEF NoCount
    <2>4. lastOk' \in 0 .. LastOkTtl  BY UpIs, Times DEF Tick, Types, KeysTyped
    <2> QED  BY <2>1, <2>2, <2>3, <2>4 DEF KeysTyped
  <1>5. BeatTyped'
    <2>1. beat \in [online : BOOLEAN, left : 0 .. BeatTtl]  BY DEF Types, BeatTyped
    <2>2. beat.left \in 0 .. BeatTtl /\ beat' = Left(beat, NoBeat)  BY <2>1 DEF Tick
    <2>3. beat' = NoBeat \/ (beat' = [beat EXCEPT !.left = beat.left - 1] /\ beat.left - 1 \in 0 .. BeatTtl)
      BY <2>2, LeftIs, Times
    <2>4. NoBeat \in [online : BOOLEAN, left : 0 .. BeatTtl]  BY Times DEF NoBeat
    <2>5. beat' \in [online : BOOLEAN, left : 0 .. BeatTtl]  BY <2>1, <2>3, <2>4
    <2> QED  BY <2>5 DEF BeatTyped
  <1>6. GhostTyped'
    <2>1. \A c \in Customers : Up(seen[c], Long) \in 0 .. Long  BY UpIs, Times DEF Types, GhostTyped
    <2>2. Up(heard, Long) \in 0 .. Long  BY UpIs, Times DEF Types, GhostTyped
    <2> QED  BY <2>1, <2>2 DEF Tick, GhostTyped
  <1>7. WorldTyped'  BY DEF Tick, world, Types, WorldTyped
  <1> QED  BY <1>1, <1>2, <1>3, <1>4, <1>5, <1>6, <1>7 DEF Types

LEMMA TypesStep ==
    ASSUME Types, [Next]_vars
    PROVE  Types'
  <1>1. ASSUME Fault PROVE Types'
    <2>1. WorldTyped'
      <3>1. faults + 1 \in 0 .. MaxFaults  BY <1>1, Times DEF Fault, Types, WorldTyped
      <3>2. /\ row' = row /\ faults' = faults + 1
            /\ link' \in [Routers -> {"down", "noInternet", "up"}]
            /\ office' \in BOOLEAN /\ home' \in [Customers -> BOOLEAN]
        BY <1>1 DEF Fault, Types, WorldTyped
      <3> QED  BY <3>1, <3>2 DEF Types, WorldTyped
    <2>2. BreakerTyped' /\ UplinkTyped' /\ KeysTyped' /\ BeatTyped' /\ JobsTyped' /\ GhostTyped'
      BY <1>1 DEF Fault, cache, ghost, Types, BreakerTyped, UplinkTyped, KeysTyped, BeatTyped, JobsTyped, GhostTyped
    <2> QED  BY <2>1, <2>2 DEF Types
  <1>2. ASSUME Heartbeat PROVE Types'
    <2>1. BeatTyped'  BY <1>2, Times DEF Heartbeat, Types, WorldTyped, BeatTyped
    <2>2. WorldTyped' /\ BreakerTyped' /\ UplinkTyped' /\ KeysTyped' /\ JobsTyped' /\ GhostTyped'
      BY <1>2 DEF Heartbeat, world, ghost, Types, WorldTyped, BreakerTyped, UplinkTyped, KeysTyped, JobsTyped, GhostTyped
    <2> QED  BY <2>1, <2>2 DEF Types
  <1>3. ASSUME NEW r \in Routers, Dial(r) \/ Redial(r) PROVE Types'
    <2>1. tries[r].n \in 0 .. BlockSteps /\ 0 \in 0 .. BlockSteps  BY Times DEF Types, BreakerTyped
    <2>2. ConnectsAfter(r, tries[r].n) \/ ConnectsAfter(r, 0)  BY <1>3 DEF Dial, Redial, Connects
    <2>3. BreakerTyped'  BY <2>1, <2>2, ConnectsTyped DEF Types
    <2>4. WorldTyped' /\ UplinkTyped' /\ KeysTyped' /\ BeatTyped' /\ JobsTyped' /\ GhostTyped'
      BY <1>3 DEF Dial, Redial, world, ghost, Types, WorldTyped, UplinkTyped, KeysTyped, BeatTyped, JobsTyped, GhostTyped
    <2> QED  BY <2>3, <2>4 DEF Types
  <1>4. ASSUME NEW p \in Pollers, NEW k \in Kinds(p), StartPoll(p, k) PROVE Types'
    <2>1. PICK j : j = [kind |-> k, todo |-> Routers, who |-> {}, routers |-> {}, online |-> {}, age |-> 0]
      OBVIOUS
    <2>2. j \in Poll(p) /\ j.online \subseteq j.routers  BY <2>1, Times DEF Poll
    <2>3. JobsTyped'  BY <1>4, <2>1, <2>2, JobSet DEF StartPoll, Types
    <2>4. WorldTyped' /\ BreakerTyped' /\ UplinkTyped' /\ KeysTyped' /\ BeatTyped' /\ GhostTyped'
      BY <1>4 DEF StartPoll, world, cache, ghost, Types, WorldTyped, BreakerTyped, UplinkTyped, KeysTyped, BeatTyped, GhostTyped
    <2> QED  BY <2>3, <2>4 DEF Types
  <1>5. ASSUME UNCHANGED vars PROVE Types'
    BY <1>5 DEF vars, world, cache, ghost, Types, WorldTyped, BreakerTyped, UplinkTyped, KeysTyped, BeatTyped, JobsTyped, GhostTyped
  <1> QED  BY <1>1, <1>2, <1>3, <1>4, <1>5, TypesPoll, TypesEnd, TypesTick DEF Next

LEMMA TypesCorrect == Spec => []Types
  <1>1. Init => Types  BY TypesAtFirst
  <1>2. Types /\ [Next]_vars => Types'  BY TypesStep
  <1> QED  BY <1>1, <1>2, PTL DEF Spec

(* The keys and the running polls keep their shape; what a key lists as online *)
(* it lists as reached (utils.py:215).                                         *)
THEOREM TypeCorrect == Spec => []TypeOK
  BY TypesCorrect, TypesImplyTypeOK, PTL
-----------------------------------------------------------------------------
(* Ages *)

\* A ping is not older than its key says, what a poll learnt not older than the
\* poll (and the ping it trusted), and what a key says not older than the poll
\* that wrote it and the time the key has lived.
PingAge(r) == uplink[r].online => heard <= uplink[r].age /\ uplink[r].age < UplinkFresh
PollAge(p) ==
    job[p] # Idle =>
        /\ job[p].online # {} => heard <= job[p].age + UplinkFresh
        /\ \A c \in job[p].who : seen[c] <= job[p].age
LiveAge   == live.online # {} => heard + live.left <= PollLimit + UplinkFresh + TaskTtl
ActiveAge == \A c \in active.who : seen[c] + active.left <= PollLimit + TaskTtl

AgeInv ==
    /\ Types
    /\ \A r \in Routers : PingAge(r)
    /\ \A p \in Pollers : PollAge(p)
    /\ LiveAge /\ ActiveAge

LEMMA AgesAre ==
    ASSUME Types
    PROVE  /\ heard \in Nat /\ \A c \in Customers : seen[c] \in Nat
           /\ \A r \in Routers : uplink[r].age \in Nat
           /\ \A p \in Pollers : job[p] # Idle =>
                 job[p].age \in Nat /\ job[p].age <= PollLimit /\ job[p].who \subseteq Customers
           /\ live.left \in Nat /\ active.left \in Nat /\ active.who \subseteq Customers
  <1>1. heard \in Nat /\ \A c \in Customers : seen[c] \in Nat  BY Times DEF Types, GhostTyped
  <1>2. \A r \in Routers : uplink[r].age \in Nat  BY Times DEF Types, UplinkTyped
  <1>3. ASSUME NEW p \in Pollers, job[p] # Idle
        PROVE  job[p].age \in Nat /\ job[p].age <= PollLimit /\ job[p].who \subseteq Customers
    <2>1. job[p] \in Poll(p)  BY <1>3 DEF Types, JobsTyped
    <2> QED  BY <2>1, Times DEF Poll
  <1>4. live.left \in Nat /\ active.left \in Nat /\ active.who \subseteq Customers
    BY Times DEF Types, KeysTyped
  <1> QED  BY <1>1, <1>2, <1>3, <1>4

\* What is read now is not older afterwards.
LEMMA HearsIs ==
    ASSUME Types, NEW r \in Routers, Hears(r)
    PROVE  /\ heard' <= heard /\ \A c \in Customers : seen'[c] <= seen[c]
           /\ block[r] = 0 /\ Reach(r) => heard' = 0 /\ \A c \in Lines(r) : seen'[c] = 0
  <1>1. heard \in Nat /\ \A c \in Customers : seen[c] \in Nat  BY AgesAre
  <1>2. CASE block[r] = 0 /\ Reach(r)
    <2>1. heard' = 0 /\ seen' = [c \in Customers |-> IF c \in Lines(r) THEN 0 ELSE seen[c]]
      BY <1>2 DEF Hears
    <2>2. Lines(r) \subseteq Customers  BY DEF Lines
    <2> QED  BY <1>1, <2>1, <2>2
  <1>3. CASE ~(block[r] = 0 /\ Reach(r))
    <2>1. UNCHANGED <<seen, heard>>  BY <1>3 DEF Hears, ghost
    <2> QED  BY <1>1, <1>3, <2>1
  <1> QED  BY <1>2, <1>3

LEMMA AgesAtPoll ==
    ASSUME AgeInv, Types', NEW p \in Pollers, NEW r \in Routers, PollRouter(p, r)
    PROVE  AgeInv'
  <1>1. Types  BY DEF AgeInv
  <1>2. /\ heard \in Nat /\ \A c \in Customers : seen[c] \in Nat
        /\ \A k \in Routers : uplink[k].age \in Nat
        /\ \A q \in Pollers : job[q] # Idle => job[q].age \in Nat /\ job[q].who \subseteq Customers
        /\ live.left \in Nat /\ active.left \in Nat /\ active.who \subseteq Customers
    BY <1>1, AgesAre
  <1>3. heard' \in Nat /\ \A c \in Customers : seen'[c] \in Nat  BY Times DEF Types, GhostTyped
  <1>4. /\ heard' <= heard /\ \A c \in Customers : seen'[c] <= seen[c]
        /\ block[r] = 0 /\ Reach(r) => heard' = 0 /\ \A c \in Lines(r) : seen'[c] = 0
    BY <1>1, HearsIs DEF PollRouter
  <1>5. block[r] = 0 \/ block[r] > 0  BY <1>1, Times DEF Types, BreakerTyped
  <1>6. ASSUME block[r] = 0, Pinged(r).online
        PROVE  /\ heard' = 0 \/ (uplink[r].online /\ heard' <= uplink[r].age /\ uplink[r].age < UplinkFresh)
               /\ heard' <= Pinged(r).age /\ Pinged(r).age < UplinkFresh
    <2>1. CASE uplink[r].age < UplinkFresh
      <3>1. Pinged(r) = uplink[r]  BY <2>1 DEF Pinged
      <3>2. uplink[r].online /\ heard <= uplink[r].age  BY <1>6, <3>1 DEF AgeInv, PingAge
      <3>3. heard' <= uplink[r].age  BY <1>2, <1>3, <1>4, <3>2
      <3> QED  BY <2>1, <3>1, <3>2, <3>3
    <2>2. CASE ~(uplink[r].age < UplinkFresh)
      <3>1. PICK on : on = (Reach(r) /\ link[r] = "up")  OBVIOUS
      <3>2. Pinged(r) = [online |-> on, age |-> 0]  BY <2>2, <3>1 DEF Pinged
      <3>3. on /\ Pinged(r).age = 0  BY <1>6, <3>2
      <3>4. Reach(r)  BY <3>1, <3>3
      <3>5. heard' = 0  BY <1>4, <1>6, <3>4
      <3> QED  BY <3>3, <3>5, Times
    <2> QED  BY <2>1, <2>2
  <1>7. ASSUME NEW k \in Routers PROVE PingAge(k)'
    <2>1. CASE uplink'[k] = uplink[k]
      <3>1. PingAge(k)  BY DEF AgeInv
      <3> QED  BY <1>2, <1>3, <1>4, <2>1, <3>1 DEF PingAge
    <2>2. CASE uplink'[k] # uplink[k]
      <3>1. block[r] = 0 /\ uplink' = [uplink EXCEPT ![r] = Pinged(r)]  BY <1>5, <2>2 DEF PollRouter
      <3>2. k = r /\ uplink'[k] = Pinged(r)  BY <1>1, <2>2, <3>1 DEF Types, UplinkTyped
      <3> QED  BY <1>6, <3>1, <3>2 DEF PingAge
    <2> QED  BY <2>1, <2>2
  <1>8. PICK j : j = Visited(p, r)  OBVIOUS
  <1>9. /\ job[p] # Idle /\ job' = [job EXCEPT ![p] = j] /\ j.age = job[p].age
        /\ j.who \subseteq job[p].who \cup IF block[r] > 0 THEN {} ELSE Sessions(r)
        /\ j.online \subseteq job[p].online \cup IF block[r] = 0 /\ Pinged(r).online THEN {r} ELSE {}
    BY <1>1, <1>8, VisitIs
  <1>10. ASSUME NEW q \in Pollers PROVE PollAge(q)'
    <2>1. CASE q # p
      <3>1. job'[q] = job[q]  BY <1>1, <1>9, <2>1 DEF Types, JobsTyped
      <3>2. PollAge(q)  BY DEF AgeInv
      <3>3. CASE job[q] = Idle  BY <3>1, <3>3 DEF PollAge
      <3>4. CASE job[q] # Idle
        <4>1. job[q].online # {} => heard' <= job[q].age + UplinkFresh
          <5>1. job[q].online # {} => heard <= job[q].age + UplinkFresh  BY <3>2, <3>4 DEF PollAge
          <5>2. job[q].age + UplinkFresh \in Nat  BY <1>2, <3>4, Times
          <5> QED  BY <1>2, <1>3, <1>4, <5>1, <5>2
        <4>2. ASSUME NEW c \in job[q].who PROVE seen'[c] <= job[q].age
          <5>1. c \in Customers /\ seen[c] <= job[q].age  BY <1>2, <3>2, <3>4 DEF PollAge
          <5> QED  BY <1>2, <1>3, <1>4, <3>4, <5>1
        <4> QED  BY <3>1, <4>1, <4>2 DEF PollAge
      <3> QED  BY <3>3, <3>4
    <2>2. CASE q = p
      <3>1. job'[q] = j  BY <1>1, <1>9, <2>2 DEF Types, JobsTyped
      <3>2. PollAge(p) /\ job[p].age \in Nat  BY <1>2, <1>9 DEF AgeInv
      <3>3. ASSUME j.online # {} PROVE heard' <= job[p].age + UplinkFresh
        <4>1. CASE job[p].online # {}
          <5>1. heard <= job[p].age + UplinkFresh  BY <1>9, <3>2, <4>1 DEF PollAge
          <5>2. job[p].age + UplinkFresh \in Nat  BY <3>2, Times
          <5> QED  BY <1>2, <1>3, <1>4, <5>1, <5>2
        <4>2. CASE job[p].online = {}
          <5>1. block[r] = 0 /\ Pinged(r).online  BY <1>9, <3>3, <4>2
          <5>2. heard' = 0 \/ (heard' <= uplink[r].age /\ uplink[r].age < UplinkFresh)  BY <1>6, <5>1
          <5> QED  BY <1>2, <1>3, <3>2, <5>2, Times
        <4> QED  BY <4>1, <4>2
      <3>4. ASSUME NEW c \in j.who PROVE seen'[c] <= job[p].age
        <4>1. CASE c \in job[p].who
          <5>1. c \in Customers /\ seen[c] <= job[p].age  BY <1>2, <1>9, <3>2, <4>1 DEF PollAge
          <5> QED  BY <1>2, <1>3, <1>4, <3>2, <5>1
        <4>2. CASE c \notin job[p].who
          <5>1. ~(block[r] > 0) /\ c \in Sessions(r)  BY <1>9, <3>4, <4>2
          <5>2. block[r] = 0 /\ Reach(r) /\ c \in Lines(r)  BY <1>5, <5>1 DEF Sessions
          <5>3. seen'[c] = 0  BY <1>4, <5>2
          <5> QED  BY <3>2, <5>3
        <4> QED  BY <4>1, <4>2
      <3> QED  BY <1>9, <2>2, <3>1, <3>3, <3>4 DEF PollAge
    <2> QED  BY <2>1, <2>2
  <1>11. UNCHANGED <<live, active>>  BY DEF PollRouter
  <1>12. LiveAge'
    <2>1. live.online # {} => heard + live.left <= PollLimit + UplinkFresh + TaskTtl  BY DEF AgeInv, LiveAge
    <2>2. live.online # {} => heard' + live.left <= PollLimit + UplinkFresh + TaskTtl
      BY <1>2, <1>3, <1>4, <2>1, Times
    <2> QED  BY <1>11, <2>2 DEF LiveAge
  <1>13. ActiveAge'
    <2>1. ASSUME NEW c \in active.who PROVE seen'[c] + active.left <= PollLimit + TaskTtl
      <3>1. c \in Customers /\ seen[c] + active.left <= PollLimit + TaskTtl  BY <1>2 DEF AgeInv, ActiveAge
      <3> QED  BY <1>2, <1>3, <1>4, <3>1, Times
    <2> QED  BY <1>11, <2>1 DEF ActiveAge
  <1> QED  BY <1>7, <1>10, <1>12, <1>13 DEF AgeInv

LEMMA AgesAtEnd ==
    ASSUME AgeInv, Types', NEW p \in Pollers, EndPoll(p)
    PROVE  AgeInv'
  <1>1. Types /\ job[p] # Idle  BY DEF AgeInv, EndPoll
  <1>2. /\ heard \in Nat /\ \A c \in Customers : seen[c] \in Nat
        /\ job[p].age \in Nat /\ job[p].age <= PollLimit /\ job[p].who \subseteq Customers
    BY <1>1, AgesAre
  <1>3. UNCHANGED <<uplink, seen, heard>> /\ job' = [job EXCEPT ![p] = Idle]  BY DEF EndPoll, ghost
  <1>4. PollAge(p)  BY DEF AgeInv
  <1>5. \A r \in Routers : PingAge(r)'  BY <1>3 DEF AgeInv, PingAge
  <1>6. ASSUME NEW q \in Pollers PROVE PollAge(q)'
    <2>1. job'[q] = Idle \/ job'[q] = job[q]  BY <1>1, <1>3 DEF Types, JobsTyped
    <2>2. PollAge(q)  BY DEF AgeInv
    <2> QED  BY <1>3, <2>1, <2>2 DEF PollAge
  <1>7. ActiveAge'
    <2>1. PICK n : n = IF job[p].kind = "usernames" THEN PageTtl ELSE TaskTtl  OBVIOUS
    <2>2. active' = [who |-> job[p].who, left |-> n]  BY <2>1 DEF EndPoll, Collected
    <2>3. n \in Nat /\ n <= TaskTtl  BY <2>1, Times
    <2>4. ASSUME NEW c \in job[p].who PROVE seen[c] + n <= PollLimit + TaskTtl
      <3>1. seen[c] \in Nat /\ seen[c] <= job[p].age  BY <1>1, <1>2, <1>4 DEF PollAge
      <3> QED  BY <1>2, <2>3, <3>1, Times
    <2> QED  BY <1>3, <2>2, <2>4 DEF ActiveAge
  <1>8. LiveAge'
    <2>1. CASE job[p].kind = "usernames"
      <3>1. live' = live  BY <2>1 DEF EndPoll
      <3> QED  BY <1>3, <3>1 DEF AgeInv, LiveAge
    <2>2. CASE job[p].kind # "usernames"
      <3>1. PICK n : n = IF job[p].kind = "page" THEN PageTtl ELSE TaskTtl  OBVIOUS
      <3>2. live' = [routers |-> job[p].routers, online |-> job[p].online, left |-> n]
        BY <2>2, <3>1 DEF EndPoll
      <3>3. n \in Nat /\ n <= TaskTtl  BY <3>1, Times
      <3>4. job[p].online # {} => heard + n <= PollLimit + UplinkFresh + TaskTtl
        <4>1. job[p].online # {} => heard <= job[p].age + UplinkFresh  BY <1>1, <1>4 DEF PollAge
        <4> QED  BY <1>2, <3>3, <4>1, Times
      <3> QED  BY <1>3, <3>2, <3>4 DEF LiveAge
    <2> QED  BY <2>1, <2>2
  <1> QED  BY <1>5, <1>6, <1>7, <1>8 DEF AgeInv

LEMMA AgesAtTick ==
    ASSUME AgeInv, Types', Tick
    PROVE  AgeInv'
  <1>1. Types  BY DEF AgeInv
  <1>2. /\ heard \in Nat /\ \A c \in Customers : seen[c] \in Nat
        /\ \A r \in Routers : uplink[r].age \in Nat
        /\ live.left \in Nat /\ active.left \in Nat /\ active.who \subseteq Customers
    BY <1>1, AgesAre
  <1>3. heard' \in Nat /\ \A c \in Customers : seen'[c] \in Nat  BY Times DEF Types, GhostTyped
  <1>4. heard' <= heard + 1 /\ \A c \in Customers : seen'[c] <= seen[c] + 1
    <2>1. heard' = Up(heard, Long) /\ seen' = [c \in Customers |-> Up(seen[c], Long)]  BY DEF Tick
    <2>2. heard \in 0 .. Long /\ \A c \in Customers : seen[c] \in 0 .. Long  BY <1>1 DEF Types, GhostTyped
    <2> QED  BY <2>1, <2>2, UpIs, Times
  <1>5. ASSUME NEW r \in Routers PROVE PingAge(r)'
    <2>1. CASE uplink[r].age >= UplinkFresh - 1
      <3>1. uplink'[r] = [online |-> FALSE, age |-> UplinkFresh]  BY <2>1 DEF Tick
      <3> QED  BY <3>1 DEF PingAge
    <2>2. CASE ~(uplink[r].age >= UplinkFresh - 1)
      <3>1. uplink'[r] = [uplink[r] EXCEPT !.age = uplink[r].age + 1]  BY <2>2 DEF Tick
      <3>2. uplink'[r].online = uplink[r].online /\ uplink'[r].age = uplink[r].age + 1
        BY <1>1, <3>1 DEF Types, UplinkTyped
      <3>3. uplink[r].online => heard <= uplink[r].age  BY DEF AgeInv, PingAge
      <3>4. uplink[r].age + 1 < UplinkFresh  BY <1>2, <2>2, Times
      <3>5. uplink[r].online => heard' <= uplink[r].age + 1  BY <1>2, <1>3, <1>4, <3>3
      <3> QED  BY <3>2, <3>4, <3>5 DEF PingAge
    <2> QED  BY <2>1, <2>2
  <1>6. ASSUME NEW p \in Pollers PROVE PollAge(p)'
    <2>1. CASE job[p] = Idle
      <3>1. job'[p] = Idle  BY <2>1 DEF Tick
      <3> QED  BY <3>1 DEF PollAge
    <2>2. CASE job[p] # Idle
      <3>1. job'[p] = [job[p] EXCEPT !.age = job[p].age + 1]  BY <2>2 DEF Tick
      <3>2. job[p] \in Poll(p)  BY <1>1, <2>2 DEF Types, JobsTyped
      <3>3. /\ job'[p].age = job[p].age + 1 /\ job'[p].online = job[p].online /\ job'[p].who = job[p].who
        BY <3>1, <3>2 DEF Poll
      <3>4. job[p].age \in Nat /\ job[p].who \subseteq Customers  BY <1>1, <2>2, AgesAre
      <3>5. PollAge(p)  BY DEF AgeInv
      <3>6. job[p].online # {} => heard' <= job[p].age + 1 + UplinkFresh
        <4>1. job[p].online # {} => heard <= job[p].age + UplinkFresh  BY <2>2, <3>5 DEF PollAge
        <4> QED  BY <1>2, <1>3, <1>4, <3>4, <4>1, Times
      <3>7. ASSUME NEW c \in job[p].who PROVE seen'[c] <= job[p].age + 1
        <4>1. c \in Customers /\ seen[c] <= job[p].age  BY <2>2, <3>4, <3>5 DEF PollAge
        <4> QED  BY <1>2, <1>3, <1>4, <3>4, <4>1
      <3> QED  BY <3>3, <3>6, <3>7 DEF PollAge
    <2> QED  BY <2>1, <2>2
  <1>7. LiveAge'
    <2>1. live' = Left(live, NoLive) /\ live.left \in 0 .. TaskTtl  BY <1>1 DEF Tick, Types, KeysTyped
    <2>2. CASE live.left <= 1
      <3>1. live' = NoLive  BY <2>1, <2>2, LeftIs, Times
      <3> QED  BY <3>1 DEF NoLive, LiveAge
    <2>3. CASE live.left > 1
      <3>1. live' = [live EXCEPT !.left = live.left - 1]  BY <2>1, <2>3, LeftIs, Times
      <3>2. live'.left = live.left - 1 /\ live'.online = live.online  BY <1>1, <3>1 DEF Types, KeysTyped
      <3>3. live.online # {} => heard + live.left <= PollLimit + UplinkFresh + TaskTtl  BY DEF AgeInv, LiveAge
      <3>4. live.online # {} => heard' + (live.left - 1) <= PollLimit + UplinkFresh + TaskTtl
        BY <1>2, <1>3, <1>4, <3>3, Times
      <3> QED  BY <3>2, <3>4 DEF LiveAge
    <2> QED  BY <1>2, <2>2, <2>3
  <1>8. ActiveAge'
    <2>1. active' = Left(active, NoSet) /\ active.left \in 0 .. TaskTtl  BY <1>1 DEF Tick, Types, KeysTyped
    <2>2. CASE active.left <= 1
      <3>1. active' = NoSet  BY <2>1, <2>2, LeftIs, Times
      <3> QED  BY <3>1 DEF NoSet, ActiveAge
    <2>3. CASE active.left > 1
      <3>1. active' = [active EXCEPT !.left = active.left - 1]  BY <2>1, <2>3, LeftIs, Times
      <3>2. active'.left = active.left - 1 /\ active'.who = active.who  BY <1>1, <3>1 DEF Types, KeysTyped
      <3>3. ASSUME NEW c \in active.who PROVE seen'[c] + (active.left - 1) <= PollLimit + TaskTtl
        <4>1. c \in Customers /\ seen[c] + active.left <= PollLimit + TaskTtl
          BY <1>2 DEF AgeInv, ActiveAge
        <4> QED  BY <1>2, <1>3, <1>4, <4>1, Times
      <3> QED  BY <3>2, <3>3 DEF ActiveAge
    <2> QED  BY <1>2, <2>2, <2>3
  <1> QED  BY <1>5, <1>6, <1>7, <1>8 DEF AgeInv

LEMMA AgesStart ==
    ASSUME AgeInv, Types', NEW p \in Pollers, NEW k \in Kinds(p), StartPoll(p, k)
    PROVE  AgeInv'
  <1>1. Types  BY DEF AgeInv
  <1>2. UNCHANGED <<uplink, active, live, seen, heard>>  BY DEF StartPoll, cache, ghost
  <1>3. PICK j : j = [kind |-> k, todo |-> Routers, who |-> {}, routers |-> {}, online |-> {}, age |-> 0]
    OBVIOUS
  <1>4. job' = [job EXCEPT ![p] = j] /\ j.online = {} /\ j.who = {}  BY <1>3 DEF StartPoll
  <1>5. ASSUME NEW q \in Pollers PROVE PollAge(q)'
    <2>1. CASE q = p
      <3>1. job'[q] = j  BY <1>1, <1>4, <2>1 DEF Types, JobsTyped
      <3> QED  BY <1>4, <3>1 DEF PollAge
    <2>2. CASE q # p
      <3>1. job'[q] = job[q] /\ PollAge(q)  BY <1>1, <1>4, <2>2 DEF Types, JobsTyped, AgeInv
      <3> QED  BY <1>2, <3>1 DEF PollAge
    <2> QED  BY <2>1, <2>2
  <1> QED  BY <1>2, <1>5 DEF AgeInv, PingAge, LiveAge, ActiveAge

LEMMA AgesStep ==
    ASSUME AgeInv, [Next]_vars
    PROVE  AgeInv'
  <1>1. Types'  BY TypesStep DEF AgeInv
  <1>2. ASSUME UNCHANGED <<uplink, active, live, job, seen, heard>> PROVE AgeInv'
    BY <1>1, <1>2 DEF AgeInv, PingAge, PollAge, LiveAge, ActiveAge
  <1>3. ASSUME Fault PROVE AgeInv'  BY <1>2, <1>3 DEF Fault, cache, ghost
  <1>4. ASSUME Heartbeat PROVE AgeInv'  BY <1>2, <1>4 DEF Heartbeat, ghost
  <1>5. ASSUME NEW r \in Routers, Dial(r) \/ Redial(r) PROVE AgeInv'
    BY <1>2, <1>5 DEF Dial, Redial, ghost
  <1>6. CASE UNCHANGED vars  BY <1>2, <1>6 DEF vars, cache, ghost
  <1> QED
    BY <1>1, <1>3, <1>4, <1>5, <1>6, AgesStart, AgesAtPoll, AgesAtEnd, AgesAtTick DEF Next

LEMMA AgesCorrect == Spec => []AgeInv
  <1>1. Init => AgeInv
    <2> SUFFICES ASSUME Init PROVE AgeInv  OBVIOUS
    <2>1. Types  BY TypesAtFirst
    <2>2. \A r \in Routers : PingAge(r)  BY DEF Init, PingAge
    <2>3. \A p \in Pollers : PollAge(p)  BY DEF Init, PollAge
    <2>4. LiveAge /\ ActiveAge  BY DEF Init, LiveAge, ActiveAge, NoLive, NoSet
    <2> QED  BY <2>1, <2>2, <2>3, <2>4 DEF AgeInv
  <1>2. AgeInv /\ [Next]_vars => AgeInv'  BY AgesStep
  <1> QED  BY <1>1, <1>2, PTL DEF Spec

(* The gate of auto_suspend opens only when some router answered within the    *)
(* life of a poll's result, of the poll that wrote it and of the ping it       *)
(* trusted: "never suspend a customer we cannot actually see"                  *)
(* (auto_suspend.py:142).                                                      *)
THEOREM GateHasEyes == Spec => []GateNeedsEyes
  <1>1. AgeInv => GateNeedsEyes
    <2> SUFFICES ASSUME AgeInv, Visible PROVE heard <= Horizon  BY DEF GateNeedsEyes
    <2>1. heard \in Nat /\ live.left \in Nat  BY AgesAre DEF AgeInv
    <2>2. heard + live.left <= PollLimit + UplinkFresh + TaskTtl  BY DEF AgeInv, LiveAge, Visible
    <2> QED  BY <2>1, <2>2, Times DEF Horizon
  <1> QED  BY <1>1, AgesCorrect, PTL

(* A line called connected, or healthy, was read from its router at most one   *)
(* poll and the longest life of the set of names ago, whichever of any number  *)
(* of polls finished last (utils.py:235).                                      *)
THEOREM ConnectedLineWasSeen == Spec => []ConnectedWasSeen
  <1>1. AgeInv => ConnectedWasSeen
    <2> SUFFICES ASSUME AgeInv, NEW c \in Customers, Hardware(c) = "connected" \/ Verdict(c) = "healthy"
                 PROVE  seen[c] <= TaskTtl + PollLimit
      BY DEF ConnectedWasSeen
    <2>1. c \in active.who  BY DEF Hardware, Verdict, HomeLink
    <2>2. seen[c] \in Nat /\ active.left \in Nat  BY AgesAre DEF AgeInv
    <2>3. seen[c] + active.left <= PollLimit + TaskTtl  BY <2>1 DEF AgeInv, ActiveAge
    <2> QED  BY <2>2, <2>3, Times
  <1> QED  BY <1>1, AgesCorrect, PTL
=============================================================================
