---------------------------- MODULE NetworkView ----------------------------
(***************************************************************************)
(* What the screens say about the lines, and what they can know.  The      *)
(* cloud reaches the routers through a Mini PC in the office.  A Celery    *)
(* task polls them, pages connect to them on demand, the Mini PC's tunnel  *)
(* is reported by a heartbeat, and all of them leave what they saw in the  *)
(* Redis cache under keys that expire on their own.  The customer list,    *)
(* the dashboard, the link diagnosis and the gate of auto_suspend read     *)
(* nothing but those keys.                                                 *)
(*                                                                         *)
(* Time is counted in ticks; every time to live is a constant.  A poll     *)
(* visits one router per step and runs beside other polls, the pages and   *)
(* whatever the network does meanwhile.                                    *)
(***************************************************************************)
EXTENDS Integers, FiniteSets

CONSTANTS
    Routers,       \* the devices of MikrotikDevice
    Customers,     \* subscribers
    Rows,          \* the rows a subscriber may have
    NoRouter,      \* mikrotik_device IS NULL
    Workers,       \* Celery's processes, which run the task
    Threads,       \* the web server's, which run the two pages
    PageTtl,       \* 30 s: keys written by a page
    UplinkFresh,   \* 60 s: a ping of 8.8.8.8 is not repeated
    BridgeFresh,   \* 90 s: BRIDGE_FRESH_SECONDS
    BeatTtl,       \* 120 s: BRIDGE_HEARTBEAT_TTL
    TaskTtl,       \* 300 s: keys written by the task
    BridgeStale,   \* 300 s: BRIDGE_STALE_SECONDS
    LastOkTtl,     \* 600 s: bridge_last_ok
    BlockBase,     \* 30 s: the first block of the circuit breaker
    BlockSteps,    \* 6: the attempt from which the block is the longest
    BlockCap,      \* 900 s: the longest block, and the life of the counter
    PollLimit,     \* bound on the length of a poll (178-221 s measured)
    MaxFaults      \* bound on what breaks and is repaired in a behaviour

Dates == {"none", "past", "soon", "far"}
Row   == [status : {"active", "expired", "pending", "inactive", "suspended", "pull out"},
          installed : BOOLEAN, expires : Dates, device : Routers \cup {NoRouter},
          pppoe : BOOLEAN]

ASSUME TimeAssumption ==
    /\ {PageTtl, UplinkFresh, BridgeFresh, BeatTtl, TaskTtl, BridgeStale, LastOkTtl,
        BlockBase, BlockSteps, BlockCap, PollLimit} \subseteq Nat \ {0}
    /\ MaxFaults \in Nat
    /\ PageTtl <= TaskTtl
    /\ BridgeFresh <= BridgeStale
    /\ BlockBase <= BlockCap
ASSUME RowAssumption == Rows \subseteq Row /\ NoRouter \notin Routers /\ IsFiniteSet(Routers)
ASSUME PollerAssumption == Workers \cap Threads = {}

Pollers == Workers \cup Threads
\* "task" on its schedule, "page" when live data is asked for and missing,
\* "usernames" when the list of user names is.
Kinds(p) == IF p \in Workers THEN {"task"} ELSE {"page", "usernames"}

VARIABLES
    row,       \* the subscribers' rows; nothing here changes them
    link,      \* each router: "down", up without internet, or "up"
    office,    \* the Mini PC and its tunnel work
    home,      \* the subscriber's own equipment has a session with its router
    faults,    \* changes of the three so far
    block,     \* router_unreachable_<id>: ticks left
    tries,     \* router_unreachable_<id>_n: attempts and ticks left
    uplink,    \* uplink_online_<id>: result and age of the last ping
    active,    \* active_pppoe_usernames_set
    live,      \* live_monitoring_data: the routers listed, with internet or not
    counts,    \* bridge_link_status: routers reached
    lastOk,    \* bridge_last_ok: its age
    beat,      \* bridge_tunnel: the heartbeat's report
    job,       \* the running polls
    seen,      \* history: ticks since a subscriber's session was read
    heard      \* history: ticks since any router answered

world == <<link, office, home, faults>>
cache == <<block, tries, uplink, active, live, counts, lastOk, beat>>
ghost == <<seen, heard>>
vars  == <<row, world, cache, job, ghost>>

Idle    == [kind |-> "idle"]
NoSet   == [who |-> {}, left |-> 0]
NoLive  == [routers |-> {}, online |-> {}, left |-> 0]
NoCount == [reached |-> 0, left |-> 0]
NoBeat  == [online |-> FALSE, left |-> 0]
NoTries == [n |-> 0, left |-> 0]

\* Later than anything a screen may still be showing.
Horizon == TaskTtl + PollLimit + UplinkFresh
Long    == Horizon + 1

Smaller(a, b) == IF a < b THEN a ELSE b
Down(n)       == IF n = 0 THEN 0 ELSE n - 1
Up(n, limit)  == Smaller(n + 1, limit)
Left(k, none) == IF k.left <= 1 THEN none ELSE [k EXCEPT !.left = @ - 1]

Reach(r) == office /\ link[r] # "down"
Lines(r) == {c \in Customers : row[c].device = r /\ row[c].pppoe /\ home[c]}

Init ==
    /\ row \in [Customers -> Rows]
    /\ link \in [Routers -> {"down", "noInternet", "up"}] /\ office \in BOOLEAN
    /\ home \in [Customers -> BOOLEAN] /\ faults = 0
    /\ block = [r \in Routers |-> 0] /\ tries = [r \in Routers |-> NoTries]
    /\ uplink = [r \in Routers |-> [online |-> FALSE, age |-> UplinkFresh]]
    /\ active = NoSet /\ live = NoLive /\ counts = NoCount
    /\ lastOk = LastOkTtl /\ beat = NoBeat
    /\ job = [p \in Pollers |-> Idle]
    /\ seen = [c \in Customers |-> Long] /\ heard = Long
-----------------------------------------------------------------------------
(* The network *)

Fault ==
    /\ faults < MaxFaults
    /\ faults' = faults + 1
    /\ \/ \E r \in Routers : \E l \in {"down", "noInternet", "up"} \ {link[r]} :
             link' = [link EXCEPT ![r] = l] /\ UNCHANGED <<office, home>>
       \/ office' = ~office /\ UNCHANGED <<link, home>>
       \/ \E c \in Customers : home' = [home EXCEPT ![c] = ~@] /\ UNCHANGED <<link, office>>
    /\ UNCHANGED <<row, cache, job, ghost>>

\* scripts/bridge_heartbeat.sh posts what Tailscale says of the Mini PC.
Heartbeat ==
    /\ beat' = [online |-> office, left |-> BeatTtl]
    /\ UNCHANGED <<row, world, block, tries, uplink, active, live, counts, lastOk, job, ghost>>
-----------------------------------------------------------------------------
(* Connecting to a router, and the circuit breaker *)

\* Mutant: a poll that skips a router counts as one more failed attempt.
BlockAgain(r) ==
    /\ block' = [block EXCEPT ![r] = BlockCap]
    /\ UNCHANGED tries

Skipped(r) == UNCHANGED <<block, tries>>


\* The ticks a router is left alone after its nth failed attempt.
BlockFor(n) == IF n < BlockSteps THEN Smaller(BlockBase * 2 ^ (n - 1), BlockCap) ELSE BlockCap
\* _trip_breaker and the successful connection, both clients alike, of a router
\* that failed n times before.
ConnectsAfter(r, n) ==
    IF Reach(r)
    THEN /\ block' = [block EXCEPT ![r] = 0]
         /\ tries' = [tries EXCEPT ![r] = NoTries]
    ELSE /\ tries' = [tries EXCEPT ![r] = [n |-> Smaller(n + 1, BlockSteps), left |-> BlockCap]]
         /\ block' = [block EXCEPT ![r] = BlockFor(n + 1)]

Connects(r) == ConnectsAfter(r, tries[r].n)

\* What a read of router r tells us, for the history.
Hears(r) ==
    IF block[r] = 0 /\ Reach(r)
    THEN /\ heard' = 0
         /\ seen' = [c \in Customers |-> IF c \in Lines(r) THEN 0 ELSE seen[c]]
    ELSE UNCHANGED ghost

\* Any page that reads a router on demand; ?force=1 first forgets the breaker.
Dial(r) ==
    /\ block[r] = 0
    /\ Connects(r)
    /\ UNCHANGED <<row, world, uplink, active, live, counts, lastOk, beat, job, ghost>>

Redial(r) ==
    /\ block[r] > 0
    /\ ConnectsAfter(r, 0)
    /\ UNCHANGED <<row, world, uplink, active, live, counts, lastOk, beat, job, ghost>>
-----------------------------------------------------------------------------
(* Polls: the task, the page that finds no live data, and the page that     *)
(* collects the active user names                                           *)

StartPoll(p, kind) ==
    /\ kind \in Kinds(p)
    /\ job[p] = Idle
    /\ kind = "page" => live.left = 0
    /\ job' = [job EXCEPT ![p] =
           [kind |-> kind, todo |-> Routers, who |-> {}, routers |-> {}, online |-> {}, age |-> 0]]
    /\ UNCHANGED <<row, world, cache, ghost>>

\* get_active_pppoe_users returns an empty list when the router cannot be
\* reached, so the router is listed all the same.
Sessions(r) == IF Reach(r) THEN Lines(r) ELSE {}

\* Mutant: a ping that raises leaves the default, and the default is online.
PingedByDefault(r) ==
    IF uplink[r].age < UplinkFresh THEN uplink[r]
    ELSE [online |-> Reach(r) => link[r] = "up", age |-> 0]

\* The uplink of router r after this poll: the last ping, or a new one.
Pinged(r) ==
    IF uplink[r].age < UplinkFresh THEN uplink[r]
    ELSE [online |-> Reach(r) /\ link[r] = "up", age |-> 0]

\* What a poll knows after router r; of one that is blocked, nothing more.
Visited(p, r) ==
    LET j == [job[p] EXCEPT !.todo = @ \ {r}]
    IN  IF block[r] > 0 THEN j
        ELSE IF j.kind = "usernames" THEN [j EXCEPT !.who = @ \cup Sessions(r)]
        ELSE [j EXCEPT !.who = @ \cup Sessions(r), !.routers = @ \cup {r},
                       !.online = IF Pinged(r).online THEN @ \cup {r} ELSE @]

PollRouter(p, r) ==
    /\ job[p] # Idle
    /\ r \in job[p].todo
    /\ job' = [job EXCEPT ![p] = Visited(p, r)]
    /\ IF block[r] > 0 THEN Skipped(r) ELSE Connects(r)
    /\ uplink' = IF block[r] > 0 \/ job[p].kind = "usernames" THEN uplink
                 ELSE [uplink EXCEPT ![r] = Pinged(r)]
    /\ Hears(r)
    /\ UNCHANGED <<row, world, active, live, counts, lastOk, beat>>

\* Mutant: users of the last poll stay listed.
CollectedBefore(j) == j.who \cup active.who

\* The set of user names a finished poll leaves in the cache.
Collected(j) == j.who

EndPoll(p) ==
    /\ job[p] # Idle
    /\ job[p].todo = {}
    /\ LET j == job[p]
       IN  /\ active' = [who |-> Collected(j),
                         left |-> IF j.kind = "usernames" THEN PageTtl ELSE TaskTtl]
           /\ IF j.kind = "usernames" THEN UNCHANGED <<live, counts, lastOk>>
              ELSE /\ live' = [routers |-> j.routers, online |-> j.online,
                               left |-> IF j.kind = "page" THEN PageTtl ELSE TaskTtl]
                   /\ counts' = [reached |-> Cardinality(j.routers), left |-> TaskTtl]
                   /\ lastOk' = IF j.routers # {} THEN 0 ELSE lastOk
    /\ job' = [job EXCEPT ![p] = Idle]
    /\ UNCHANGED <<row, world, block, tries, uplink, beat, ghost>>

\* One tick; a poll never takes more than PollLimit of them.
Tick ==
    /\ \A p \in Pollers : job[p] # Idle => job[p].age < PollLimit
    /\ job' = [p \in Pollers |-> IF job[p] = Idle THEN Idle ELSE [job[p] EXCEPT !.age = @ + 1]]
    /\ block' = [r \in Routers |-> Down(block[r])]
    /\ tries' = [r \in Routers |-> Left(tries[r], NoTries)]
    /\ uplink' = [r \in Routers |->
           IF uplink[r].age >= UplinkFresh - 1 THEN [online |-> FALSE, age |-> UplinkFresh]
           ELSE [uplink[r] EXCEPT !.age = @ + 1]]
    /\ active' = Left(active, NoSet)
    /\ live' = Left(live, NoLive)
    /\ counts' = Left(counts, NoCount)
    /\ lastOk' = Up(lastOk, LastOkTtl)
    /\ beat' = Left(beat, NoBeat)
    /\ seen' = [c \in Customers |-> Up(seen[c], Long)]
    /\ heard' = Up(heard, Long)
    /\ UNCHANGED <<row, world>>

Next ==
    \/ Fault
    \/ Heartbeat
    \/ \E r \in Routers : Dial(r) \/ Redial(r)
    \/ \E p \in Pollers :
          \/ \E k \in Kinds(p) : StartPoll(p, k)
          \/ \E r \in Routers : PollRouter(p, r)
          \/ EndPoll(p)
    \/ Tick

Spec == Init /\ [][Next]_vars

\* beat starts the task every ten seconds, a worker carries each poll to its
\* end, and the clock runs; the heartbeat and the pages owe nothing.
FairSpec ==
    /\ Spec
    /\ WF_vars(Tick)
    /\ \A p \in Workers : WF_vars(StartPoll(p, "task"))
    /\ \A p \in Pollers :
          /\ \A r \in Routers : WF_vars(PollRouter(p, r))
          /\ WF_vars(EndPoll(p))
-----------------------------------------------------------------------------
(* get_bridge_status and network_visibility *)

Measured == beat.left > 0
Bridge ==
    IF Measured
    THEN IF BeatTtl - beat.left > BridgeStale THEN "Unknown"
         ELSE IF beat.online THEN "Online" ELSE "Offline"
    ELSE IF lastOk = LastOkTtl THEN "Unknown"
         ELSE IF lastOk <= BridgeFresh THEN "Online"
         ELSE IF lastOk <= BridgeStale THEN "Stale" ELSE "Offline"

\* auto_suspend refuses to run, and the list says "unknown", when this is false.
Visible == Bridge = "Online" /\ live.online # {} /\ active.left > 0
-----------------------------------------------------------------------------
(* customer_state: the two axes and the one word staff act on *)

Billing(c) ==
    LET w == row[c]
    IN  CASE ~w.installed \/ w.status = "pending" -> "pending"
          [] w.installed /\ w.status \in {"pull out", "inactive", "suspended"} -> w.status
          [] w.installed /\ w.status \in {"active", "expired"} ->
                [none |-> "no_expiry", past |-> "lapsed", soon |-> "expiring",
                 far |-> "paid"][w.expires]

Hardware(c) ==
    IF ~row[c].pppoe THEN "none"
    ELSE IF ~Visible THEN "unknown"
    ELSE IF row[c].device # NoRouter /\ block[row[c].device] > 0 THEN "offline"
    ELSE IF c \in active.who THEN "connected" ELSE "offline"

Lifecycle(c) ==
    LET bill == Billing(c)
        line == Hardware(c)
    IN  CASE row[c].device = NoRouter /\ row[c].pppoe -> "unlinked"
          [] OTHER ->
               CASE bill = "pending" -> "pending_install"
                 [] bill = "pull out" -> "pulled_out"
                 [] bill \in {"inactive", "suspended", "no_expiry"} -> bill
                 [] bill \in {"paid", "expiring", "lapsed"} /\ line \in {"unknown", "none"} ->
                       "paid_unknown"
                 [] bill \in {"paid", "expiring"} /\ line = "offline" -> "paid_offline"
                 [] bill = "paid" /\ line = "connected" -> "connected_paid"
                 [] bill = "expiring" /\ line = "connected" -> "expiring"
                 [] bill = "lapsed" /\ line = "connected" -> "connected_unpaid"
                 [] bill = "lapsed" /\ line = "offline" -> "lapsed_offline"

Listed(key) == {c \in Customers : Lifecycle(c) = key}

\* The same word's fixed hardware column, which the dashboard counts by.
Counted ==
    [connected |-> Listed("connected_paid") \cup Listed("expiring") \cup Listed("connected_unpaid"),
     offline   |-> Listed("paid_offline") \cup Listed("lapsed_offline") \cup Listed("suspended")
                      \cup Listed("pulled_out") \cup Listed("inactive"),
     paidOffline |-> Listed("paid_offline")]

\* The dashboard's own filter, on the names it takes for connected.
FilteredPaidOffline ==
    {c \in Customers : row[c].pppoe /\ row[c].status \notin {"suspended", "inactive", "pull out"}
                       /\ row[c].expires \in {"soon", "far"}
                       /\ (Visible => c \notin active.who)}
-----------------------------------------------------------------------------
(* diagnose_link and the status of the customer page *)

RouterLink(c) ==
    LET r == row[c].device
    IN  IF r = NoRouter THEN "Unknown"
        ELSE IF block[r] > 0 \/ r \notin live.routers THEN "Unreachable"
        ELSE IF r \in live.online THEN "Online" ELSE "No Internet"

HomeLink(c) ==
    IF ~row[c].pppoe THEN "Unknown" ELSE IF c \in active.who THEN "Online" ELSE "Offline"

Verdict(c) ==
    IF Bridge = "Offline" /\ Measured THEN "bridge_down"
    ELSE IF Bridge # "Online" THEN "blind"
    ELSE IF Measured /\ counts.left > 0 /\ counts.reached = 0 THEN "bridge_lan"
    ELSE IF RouterLink(c) = "Unknown" THEN "blind"
    ELSE IF RouterLink(c) = "Unreachable" THEN "router_unreachable"
    ELSE IF RouterLink(c) = "No Internet" THEN "no_uplink"
    ELSE IF HomeLink(c) = "Unknown" THEN "blind"
    ELSE IF HomeLink(c) = "Offline" THEN "home_router" ELSE "healthy"

\* Customer.router_status and the same column of the list.
RouterStatus(c) ==
    LET r == row[c].device
    IN  IF r = NoRouter THEN "Offline"
        ELSE IF block[r] > 0 \/ Bridge # "Online" THEN "Unknown"
        ELSE IF r \in live.online THEN "Online" ELSE "Offline"

\* api_customer_mikrotik_status asks the router itself.  A read of a blocked
\* router comes back empty like that of a router without the secret, and only a
\* connection that failed just now is called unreachable.  (A session that live
\* data shows on another router is left out: Lines has none.)
Shown(c) ==
    LET r     == row[c].device
        asks  == r # NoRouter /\ row[c].pppoe
        reads == asks /\ block[r] = 0
    IN  IF reads /\ ~Reach(r) THEN "API Unreachable"
        ELSE IF reads /\ home[c] THEN "Connected"
        ELSE IF reads /\ link[r] # "up" THEN "Offline (Router Off)"
        ELSE IF Billing(c) = "pending" THEN "Pending Installation"
        ELSE IF row[c].status = "suspended" THEN "Suspended"
        ELSE IF row[c].status # "active" THEN "Disconnected"
        ELSE IF r = NoRouter THEN "No Router Assigned"
        ELSE IF ~row[c].pppoe THEN "No PPPoE Configured"
        ELSE IF ~reads THEN "Secret Not Found on Router" ELSE "Active but Offline"

\* api_router_uplink: a blocked router is offline here, "Unknown" in the list.
UplinkShown(r) == IF block[r] = 0 /\ Reach(r) /\ link[r] = "up" THEN "Online" ELSE "Offline"

\* api_offline_users: an unreachable router has no sessions, so all its active
\* subscribers are on the page, until the breaker hides every one of them.
OfflineUsers ==
    {c \in Customers : LET r == row[c].device
                       IN  /\ r # NoRouter /\ block[r] = 0
                           /\ row[c].status = "active" /\ row[c].pppoe
                           /\ c \notin Sessions(r)}
-----------------------------------------------------------------------------
(* Properties *)

\* The shape of the keys and of the running polls.
TypeOK ==
    /\ row \in [Customers -> Rows]
    /\ link \in [Routers -> {"down", "noInternet", "up"}]
    /\ office \in BOOLEAN /\ home \in [Customers -> BOOLEAN] /\ faults \in 0 .. MaxFaults
    /\ block \in [Routers -> 0 .. BlockCap]
    /\ tries \in [Routers -> [n : 0 .. BlockSteps, left : 0 .. BlockCap]]
    /\ uplink \in [Routers -> [online : BOOLEAN, age : 0 .. UplinkFresh]]
    /\ active \in [who : SUBSET Customers, left : 0 .. TaskTtl]
    /\ live \in [routers : SUBSET Routers, online : SUBSET Routers, left : 0 .. TaskTtl]
    /\ live.online \subseteq live.routers
    /\ counts \in [reached : 0 .. Cardinality(Routers), left : 0 .. TaskTtl]
    /\ lastOk \in 0 .. LastOkTtl
    /\ beat \in [online : BOOLEAN, left : 0 .. BeatTtl]
    /\ \A p \in Pollers : job[p] = Idle \/
          job[p] \in [kind : Kinds(p), todo : SUBSET Routers, who : SUBSET Customers,
                      routers : SUBSET Routers, online : SUBSET Routers, age : 0 .. PollLimit]
    /\ seen \in [Customers -> 0 .. Long] /\ heard \in 0 .. Long

\* A line that the list or the diagnosis calls up was read from its router, at
\* most one poll and the longest life of the set of names ago, whatever polls
\* overlapped and whichever of them finished last.
ConnectedWasSeen ==
    \A c \in Customers :
        Hardware(c) = "connected" \/ Verdict(c) = "healthy" => seen[c] <= TaskTtl + PollLimit

\* "Never suspend a customer we cannot actually see": when the gate of
\* auto_suspend opens, some router has answered within the life of a poll's
\* result, of the poll that wrote it and of the ping it trusted.
GateNeedsEyes == Visible => heard <= Horizon

\* With its router, its tunnel and its own equipment working for good, a
\* subscriber's line is found up again by the polls alone: the breaker "heals",
\* however long the routers were blocked.
RecoveredIsSeen ==
    \A c \in Customers : \A r \in Routers :
        row[c].device = r /\ row[c].pppoe =>
            (<>[](Reach(r) /\ link[r] = "up" /\ home[c])
                 => []<>(c \in active.who /\ r \in live.online))
=============================================================================
