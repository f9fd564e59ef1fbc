----------------------------- MODULE MCSyncBorder -----------------------------
(* Symmetry for TLC, and claims of the documents. *)
EXTENDS SyncBorder, TLC

\* Threads and routers are alike.
Symmetry == Permutations(Threads) \cup Permutations(Routers)
-----------------------------------------------------------------------------
(* What documents say of this part and the code does not do. *)

\* "Past due in the system but still connected": what the page tags so is not
\* cut off at the router (network_manager/views/sync.py:433).
UnpaidIsConnected ==
    \A c \in Customers : \A r \in Pages(c) :
        "connected_unpaid" \in Reasons(c, r) => ~line[r][c].dropped

\* "We believe this customer is paid, but the router has their secret disabled"
\* (network_manager/views/sync.py:416).
PaidCutOffIsPaid ==
    \A c \in Customers : \A r \in Pages(c) :
        NeedsReview(c, r) /\ "cut_off" \in Reasons(c, r) => ~Lapsed(c)

\* "Setting ROUTER_MODE=live is NOT sufficient" (services/base.py:26).
TwoKeys == [][~MainWrites => UNCHANGED line]_vars

\* An unpaired account must not be written at all (models.py:418).
UnpairedIsNotWritten ==
    [][\A c \in Customers, r \in Routers :
          row[c] # NoRow /\ line'[r][c] # line[r][c] => Paired(c)]_vars

\* A refused write is never downgraded (signals.py:75), the retry job included.
BlockedIsKept ==
    [][\A c \in Customers : row[c] # NoRow /\ row[c].sync = "Blocked" =>
            row'[c] = NoRow \/ row'[c].sync # "Pending"]_vars

\* A paired account stays paired until it is imported again (models.py:566).
PairedStays ==
    [][\A c \in Customers : Paired(c) /\ row'[c] # NoRow /\ row'[c].stamp = row[c].stamp
            => Paired(c)']_vars
=============================================================================
