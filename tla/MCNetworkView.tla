---------------------------- MODULE MCNetworkView ----------------------------
(* One subscriber on each of two routers; times in ticks of half a minute at  *)
(* the short end, compressed at the long end, in the order the code has them. *)
EXTENDS NetworkView, TLC

CONSTANTS ana, ben, r1, r2, p1, p2

Line(r, d) == [status |-> "active", installed |-> TRUE, expires |-> d, device |-> r, pppoe |-> TRUE]
MCRows == {Line(r, "far") : r \in Routers}
Symmetry == Permutations(Workers) \cup Permutations(Threads)
-----------------------------------------------------------------------------
(* What comments and docstrings say and the code does not do (README,         *)
(* section 5): TLC refutes each when it is named in a configuration.          *)

\* customer_state: "if we cannot see the network, we say UNKNOWN and never
\* claim offline": a paid line called offline was read as missing from a router
\* that answered.
OfflineIsMeasured ==
    \A c \in Customers : Lifecycle(c) = "paid_offline" => Reach(row[c].device)

\* get_live_monitoring_data_sync: "A router only lands in routers if it actually
\* answered"; the bridge status rests on it.
BridgeIsHeard == Bridge = "Online" /\ ~Measured => heard <= BridgeFresh + PollLimit

\* diagnose_link: "safe to dispatch" comes from a set of names that was read.
DispatchIsMeasured == \A c \in Customers : Verdict(c) = "home_router" => active.left > 0

\* The list's "Real outage -- dispatch" and the diagnosis' "do not dispatch".
ScreensAgree ==
    \A c \in Customers : Lifecycle(c) = "paid_offline" => Verdict(c) = "home_router"

\* _trip_breaker: "escalates 30s -> 2m -> 5m -> 15m (capped)": the count of
\* attempts is there when the block it escalated ends, or the next is 30 s again.
CounterOutlivesBlock == \A r \in Routers : block[r] > 0 => tries[r].left > block[r]

\* subscription_plans_data_api: the filter and the card count the same lines.
FilterIsCount == FilteredPaidOffline \subseteq Counted.paidOffline

\* The two pages about a router, one of which reads it and one the cache.
UplinksAgree == \A c \in Customers : UplinkShown(row[c].device) = "Offline" => RouterStatus(c) # "Unknown"

\* The pages of offline users and of paid lines that are down.
OfflineIsListed == \A c \in Customers : Lifecycle(c) = "paid_offline" => c \in OfflineUsers

\* The page says "Secret Not Found on Router" of a router it has not asked.
SecretIsAsked == \A c \in Customers : Shown(c) = "Secret Not Found on Router" => Reach(row[c].device)
=============================================================================
