----------------------------- MODULE BorderPolicy -----------------------------
(***************************************************************************)
(* What the border between the customer database and the routers promises:  *)
(* a line of an account that is held is changed only while writing is on,    *)
(* and only when the account is paired, or was when a request for it passed  *)
(* the gate, or an Admin signed for it.  SyncBorder implements it.           *)
(***************************************************************************)
CONSTANTS Customers, Routers

VARIABLES
    writable,   \* writing to routers is on
    held,       \* the accounts with a Customer row
    paired,     \* those of them somebody has paired
    fit,        \* those of them the payment gate lets through
    granted,    \* <<c, by>>: a request for c passed the gate and has not ended
    tools,      \* the tools that bypass the gate are in use
    line        \* line[r][c]: what router r does about account c

vars == <<writable, held, paired, fit, granted, tools, line>>

\* Only the line of c has changed, on some of the routers.
OnlyLineOf(c) == \A r \in Routers : \A d \in Customers \ {c} : line'[r][d] = line[r][d]
-----------------------------------------------------------------------------
Init == granted = {} /\ paired \subseteq held

\* The desk edits rows, pairs accounts, and ends requests.
Desk ==
    /\ granted' \subseteq granted
    /\ UNCHANGED <<writable, tools, line>>

\* A request for c passes the gate: it is paired and fit, or an Admin signs.
Grant(c) ==
    /\ \/ c \in paired \cap fit /\ granted' = granted \cup {<<c, "pairing">>}
       \/ c \in held \ (paired \cap fit) /\ granted' = granted \cup {<<c, "admin">>}
    /\ UNCHANGED <<writable, held, paired, fit, tools, line>>

\* The line of c is changed, which may end the request that does it.
Write(c) ==
    /\ writable
    /\ c \in held => tools \/ c \in paired \/ \E g \in granted : g[1] = c
    /\ OnlyLineOf(c)
    /\ granted' \subseteq granted
    /\ UNCHANGED <<writable, held, paired, fit, tools>>

\* The deployment restarts with other keys; requests are lost.
Redeploy == granted' = {} /\ UNCHANGED <<held, paired, fit, tools, line>>

Next == Desk \/ Redeploy \/ \E c \in Customers : Grant(c) \/ Write(c)
Spec == Init /\ [][Next]_vars
=============================================================================
