------------------------------ MODULE SyncBorder ------------------------------
(***************************************************************************)
(* The border between the customer database and the MikroTik routers: the   *)
(* Sync Manager (pairing, push, override, auto-fix, delete, bulk actions),   *)
(* the screens and commands that write to a router beside it, the staging    *)
(* signal, and the job that retries failed writes.                           *)
(*                                                                           *)
(* A request reads the row, calls the router and records the outcome: three  *)
(* steps, and others come in between.  Two clients write: the one of         *)
(* sync_services looks at ROUTER_MODE only, the one of network_manager needs *)
(* the write tokens too and asks for the pairing of every account.           *)
(***************************************************************************)
EXTENDS Integers, FiniteSets

CONSTANTS
    Threads,        \* threads that serve requests and run commands by hand
    Beat,           \* the worker of the scheduled tasks
    Customers,      \* PPPoE account names
    Routers,        \* MikrotikDevice rows
    NoRouter,       \* mikrotik_device is null
    NoRow,          \* no Customer row has the account name
    Duties,         \* sets of handlers; each behaviour runs those of one set
    Exclusive,      \* those of them that run while no other request does
    MaxImports,     \* bound on the imports of the old system's export
    MaxRestarts     \* bound on the restarts

ASSUME BorderAssumption ==
    /\ Beat \notin Threads
    /\ NoRouter \notin Routers
    /\ MaxImports \in Nat /\ MaxRestarts \in Nat

Workers  == Threads \cup {Beat}
Syncs    == {"Unverified", "Pending", "Synced", "Failed", "Blocked"}
Statuses == {"open", "suspended", "ended"}      \* open: active or pending
Dates    == {"ahead", "past", "none"}           \* expires_at against now

\* A profile: the plan's router profile, the plan's name, the one on which the
\* old system parked who had not paid, or one typed by hand.
Profiles == {"profile", "name", "expired", "other"}

\* A Customer row.  data is the export its values come from; stamp is
\* legacy_reimported_at, as the export it was set for.
Row == [router : Routers \cup {NoRouter}, status : Statuses, date : Dates,
        sync : Syncs, data : Nat, stamp : Nat]
ASSUME RowAssumption == NoRow \notin Row

\* A PPP secret and the bridge rule "Suspended: <name>".
Line == [there : BOOLEAN, off : BOOLEAN, profile : Profiles, dropped : BOOLEAN]
NoLine == [there |-> FALSE, off |-> FALSE, profile |-> "other", dropped |-> FALSE]

VARIABLES
    lock,       \* ROUTER_MODE and the write tokens
    row,        \* the Customer table, by account name
    approvals,  \* the SYNC_PAIR_APPROVED rows: when written, for which data
    line,       \* the routers
    session,    \* what each worker does
    imports,    \* exports loaded so far
    restarts,   \* restarts so far
    duty        \* the handlers in use, which never change

vars == <<lock, row, approvals, line, session, imports, restarts, duty>>
Idle == [h |-> "idle"]
-----------------------------------------------------------------------------
(* The two clients and the gates *)

\* sync_services writes unless the mode is read_only; services/base.py also
\* wants the tokens.
SyncWrites == lock # "readOnly"
MainWrites == lock = "armed"

\* Mutant: an approval counts whatever was imported since.
PairedForGood(c) == row[c] # NoRow /\ approvals[c] # {}
\* Customer.pair_approved: signed off since the last re-import.
Paired(c) == row[c] # NoRow /\ \E a \in approvals[c] : a.at >= row[c].stamp

\* Customer.push_blocked_reasons: ended, past due, or no date to cut it off at.
Fit(c)         == row[c] # NoRow /\ row[c].status = "open" /\ row[c].date = "ahead"
\* Mutant: the payment gate alone.
PushBlockedUnpaid(c) == ~Fit(c)
PushBlocked(c) == ~(Fit(c) /\ Paired(c))
\* Customer.pair_blocked_reasons.
PairBlocked(c) == row[c].date = "none"

\* MikrotikUsersMixin._pairing_block: an account nobody holds passes.
LetThrough(c) == row[c] = NoRow \/ Paired(c)

\* The post_save signal on a row saved over another: it only stages.  The plan,
\* the name and the password are among what it compares (renamed).
Staged(new, old, renamed) ==
    IF \/ new.router = NoRouter \/ new.sync \in {"Blocked", "Failed"}
       \/ /\ old # NoRow /\ ~renamed
          /\ new.router = old.router /\ new.status = old.status
    THEN new ELSE [new EXCEPT !.sync = "Pending"]
Saved(c, new, renamed) == row' = [row EXCEPT ![c] = Staged(new, @, renamed)]

\* Mutant: the secret is written anew, enabled and with no rule against it.
PutAnew(l, profile) == [NoLine EXCEPT !.there = TRUE, !.profile = profile]
\* add_pppoe_user of sync_services: an existing secret keeps its disabled flag.
Put(l, profile) == [l EXCEPT !.there = TRUE, !.profile = profile]
\* ... and its delete_pppoe_user: a bridge rule stays.
Cut(l) == [NoLine EXCEPT !.dropped = l.dropped]
\* suspend_pppoe_user: a bridge rule when a MAC address is known, and the secret
\* stays enabled; the disabled flag otherwise.
Suspensions(l) == {[l EXCEPT !.dropped = TRUE, !.off = FALSE], [l EXCEPT !.off = TRUE]}
\* enable_pppoe_user, then set_user_pppoe_profile with the plan's name; a failure
\* in between leaves the first of the two.
Enabled(l)  == [l EXCEPT !.off = FALSE, !.dropped = FALSE]
Restored(l) == [Enabled(l) EXCEPT !.profile = "name"]
-----------------------------------------------------------------------------
Init ==
    /\ lock \in {"readOnly", "live", "armed"}
    /\ row \in [Customers -> {NoRow} \cup
          {[router |-> r, status |-> "open", date |-> d, sync |-> "Unverified",
            data |-> 0, stamp |-> 0] : r \in Routers, d \in {"ahead", "past"}}]
    /\ approvals = [c \in Customers |-> {}]
    /\ line \in [Routers -> [Customers -> {NoLine, Put(NoLine, "expired")}]]
    /\ session = [w \in Workers |-> Idle]
    /\ imports = 0 /\ restarts = 0
    /\ duty \in Duties

\* A handler starts on a worker that is free.
Starts(w, h) ==
    /\ session[w] = Idle /\ h \in duty
    /\ \A v \in Workers : session[v] # Idle => h \notin Exclusive /\ session[v].h \notin Exclusive
Goes(w, h, step, c, r, read) ==
    session' = [session EXCEPT ![w] =
        [h |-> h, step |-> step, c |-> c, r |-> r, row |-> read, out |-> "none"]]
At(w, hs, step) == session[w] # Idle /\ session[w].h \in hs /\ session[w].step = step
Ends(w) == session' = [session EXCEPT ![w] = Idle]
Answers(w, out) == session' = [session EXCEPT ![w].step = "mark", ![w].out = out]
System == <<lock, imports, restarts, duty>>
-----------------------------------------------------------------------------
(* The Sync Manager *)

\* What each button asks before it writes the secret of c on router r.  The
\* override wants an Admin's password; auto-fix asks nothing.
MayPut(h, c, r) ==
    \/ h = "push"     /\ row[c].router = r /\ ~PushBlocked(c)
    \/ h = "override" /\ row[c].router = r /\ PushBlocked(c)
    \/ h = "bulkPush" /\ ~PushBlocked(c)
    \/ h = "autofix"

\* sync_push_user, sync_override_push, bulk_push, sync_autofix_user.
OpenPut(w, h, c, r) ==
    /\ Starts(w, h) /\ row[c] # NoRow
    /\ MayPut(h, c, r)
    /\ Goes(w, h, "call", c, r, row[c])
    /\ UNCHANGED <<System, row, approvals, line>>

Putters == {"push", "override", "bulkPush", "autofix", "add", "reconcile"}
\* The profile a handler writes: the plan's router profile, or its name.
ProfileOf(h) == IF h = "reconcile" THEN "name" ELSE "profile"

\* add_pppoe_user of sync_services.  A call that fails may have written.
CallPut(w) ==
    LET s == session[w] IN
    /\ At(w, Putters, "call")
    /\ \/ ~SyncWrites /\ Answers(w, "refused") /\ UNCHANGED line
       \/ /\ SyncWrites
          /\ \E out \in {"done", "failed"} :
                /\ Answers(w, out)
                /\ \/ line' = [line EXCEPT ![s.r][s.c] = Put(@, ProfileOf(s.h))]
                   \/ out = "failed" /\ UNCHANGED line
    /\ UNCHANGED <<System, row, approvals>>

\* The row after the answer.  mark_synced writes only when the row as it was read
\* differs; the command that reconciles clears Failed and nothing else.
Marked(h, read, r, out, now) ==
    IF out = "refused" /\ h # "add" THEN [now EXCEPT !.sync = "Blocked"]
    ELSE CASE h # "reconcile" /\ out # "done" -> [now EXCEPT !.sync = "Failed"]
           [] h # "reconcile" /\ out = "done" ->
                 IF read.sync = "Synced" /\ read.router = r THEN now
                 ELSE [now EXCEPT !.sync = "Synced", !.router = r]
           [] h = "reconcile" ->
                 IF out = "done" /\ read.sync = "Failed" THEN [now EXCEPT !.sync = "Synced"] ELSE now

\* A row that is gone cannot be marked.
MarkPut(w) ==
    LET s == session[w] IN
    /\ At(w, Putters, "mark")
    /\ row' = [row EXCEPT ![s.c] = IF @ = NoRow THEN NoRow ELSE Marked(s.h, s.row, s.r, s.out, @)]
    /\ Ends(w)
    /\ UNCHANGED <<System, approvals, line>>

\* sync_approve_match, bulk_approve: the rows are read, then the router.
OpenApprove(w, c, r) ==
    /\ Starts(w, "approve") /\ row[c] # NoRow
    /\ row[c].router = r /\ ~PairBlocked(c)
    /\ Goes(w, "approve", "call", c, r, row[c])
    /\ UNCHANGED <<System, row, approvals, line>>

\* Mutant: the secret is not looked for.
CallApproveBlind(w) ==
    /\ At(w, {"approve"}, "call")
    /\ Answers(w, "done")
    /\ UNCHANGED <<System, row, approvals, line>>
\* The secret is not on the router, or the router does not answer: no approval.
CallApprove(w) ==
    LET s == session[w] IN
    /\ At(w, {"approve"}, "call")
    /\ \/ line[s.r][s.c].there /\ Answers(w, "done")
       \/ Ends(w)
    /\ UNCHANGED <<System, row, approvals, line>>

\* Status and log row, in one transaction, by primary key.
MarkApprove(w) ==
    LET s == session[w] IN
    /\ At(w, {"approve"}, "mark")
    /\ row' = [row EXCEPT ![s.c] = IF @ = NoRow THEN NoRow ELSE [@ EXCEPT !.sync = "Synced"]]
    /\ approvals' = [approvals EXCEPT ![s.c] =
          IF row[s.c] = NoRow THEN @ ELSE @ \cup {[at |-> imports, of |-> s.row.data]}]
    /\ Ends(w)
    /\ UNCHANGED <<System, line>>

\* sync_delete_user, bulk_delete: a confirmed click, no pairing asked.
DeleteSecret(w, c, r) ==
    /\ Starts(w, "delete") /\ SyncWrites
    /\ line[r][c].there
    /\ line' = [line EXCEPT ![r][c] = Cut(@)]
    /\ UNCHANGED <<System, row, approvals, session>>

\* bulk_import: a row for a secret that nobody holds.  Without the router's
\* answer the row has no password and the signal does not stage it.
ImportSecret(w, c, r) ==
    /\ Starts(w, "bulkImport") /\ row[c] = NoRow /\ line[r][c].there
    /\ \E sync \in {"Pending", "Unverified"} :
          row' = [row EXCEPT ![c] = [router |-> r, status |-> "ended", date |-> "none",
                                     sync |-> sync, data |-> imports, stamp |-> 0]]
    /\ approvals' = [approvals EXCEPT ![c] = {}]
    /\ UNCHANGED <<System, line, session>>
-----------------------------------------------------------------------------
(* The screens that change an account, and what they do at the router *)

\* add_customer: an unpaid account, written at once when auto_sync_routers is on.
AddCustomer(w, c, r) ==
    /\ Starts(w, "add") /\ row[c] = NoRow
    /\ LET new == [router |-> r, status |-> "open", date |-> "none", sync |-> "Pending",
                   data |-> imports, stamp |-> 0]
       IN /\ row' = [row EXCEPT ![c] = new]
          /\ Goes(w, "add", "call", c, r, new) \/ UNCHANGED session
    /\ approvals' = [approvals EXCEPT ![c] = {}]
    /\ UNCHANGED <<System, line>>

\* edit_customer, bulk_transfer_router: the whole row is saved as it was read.
OpenEdit(w, c) ==
    /\ Starts(w, "edit") /\ row[c] # NoRow
    /\ Goes(w, "edit", "mark", c, NoRouter, row[c])
    /\ UNCHANGED <<System, row, approvals, line>>
CommitEdit(w) ==
    LET s == session[w] IN
    /\ At(w, {"edit"}, "mark")
    /\ \E r \in Routers \cup {NoRouter}, renamed \in BOOLEAN :
          Saved(s.c, [s.row EXCEPT !.router = r], renamed)
    /\ Ends(w)
    /\ UNCHANGED <<System, approvals, line>>

\* A request that changes the status first and the router second.
ThenRouter(w, h, c, new) ==
    /\ Starts(w, h) /\ row[c] # NoRow
    /\ Saved(c, new, FALSE)
    /\ IF row[c].router = NoRouter THEN UNCHANGED session
       ELSE Goes(w, h, "call", c, row[c].router, row[c])
    /\ UNCHANGED <<System, approvals, line>>

\* customer_force_suspend: no due date is left.
ForceSuspend(w, c) == ThenRouter(w, "suspend", c, [row[c] EXCEPT !.status = "suspended", !.date = "none"])
\* customer_force_reactivate: the due date stays as it is.
Reactivate(w, c)   == ThenRouter(w, "reactivate", c, [row[c] EXCEPT !.status = "open"])
\* pay_customer, once the payment is in: service is paid ahead.
Pay(w, c)          == ThenRouter(w, "pay", c, [row[c] EXCEPT !.status = "open", !.date = "ahead"])

\* auto_suspend and auto_suspend_view: an account whose date is past.
OpenCutOff(w, h, c) ==
    /\ Starts(w, h) /\ row[c] # NoRow
    /\ row[c].date = "past" /\ row[c].router # NoRouter
    /\ row[c].status = "open"
    /\ h = "cutBatch" => SyncWrites
    /\ Goes(w, h, "call", c, row[c].router, row[c])
    /\ UNCHANGED <<System, row, approvals, line>>

\* suspend_pppoe_user: in read_only mode every write is swallowed and the answer
\* is success; only the command looks at the mode first.
CallSuspend(w) ==
    LET s == session[w]
        open == LetThrough(s.c) /\ line[s.r][s.c].there
    IN
    /\ At(w, {"suspend", "autoSuspend", "cutBatch"}, "call")
    /\ \/ s.h = "autoSuspend" /\ ~MainWrites /\ Answers(w, "refused") /\ UNCHANGED line
       \/ s.h # "autoSuspend" /\ ~MainWrites /\ open /\ Answers(w, "done") /\ UNCHANGED line
       \/ /\ MainWrites /\ open /\ Answers(w, "done")
          /\ \E l \in Suspensions(line[s.r][s.c]) : line' = [line EXCEPT ![s.r][s.c] = l]
       \/ Answers(w, "failed") /\ UNCHANGED line
    /\ UNCHANGED <<System, row, approvals>>

\* The command saves the row it read as suspended, or marks it Blocked; the
\* screens write nothing.
MarkSuspend(w) ==
    LET s == session[w] IN
    /\ At(w, {"suspend", "autoSuspend", "cutBatch"}, "mark")
    /\ CASE s.h = "autoSuspend" /\ s.out = "done" -> Saved(s.c, [s.row EXCEPT !.status = "suspended"], FALSE)
         [] s.h = "autoSuspend" /\ s.out = "refused" /\ row[s.c] # NoRow ->
               row' = [row EXCEPT ![s.c].sync = "Blocked"]
         [] OTHER -> UNCHANGED row
    /\ Ends(w)
    /\ UNCHANGED <<System, approvals, line>>

\* What enable, profile and kick leave when any of the calls may fail.
CallRestore(w) ==
    LET s == session[w] IN
    /\ At(w, {"reactivate", "pay"}, "call")
    /\ \/ /\ MainWrites /\ LetThrough(s.c) /\ line[s.r][s.c].there
          /\ s.h = "reactivate" \/ (s.row.status = "suspended" /\ Paired(s.c))
          /\ \E l \in {Enabled(line[s.r][s.c]), Restored(line[s.r][s.c])} :
                line' = [line EXCEPT ![s.r][s.c] = l]
          /\ Answers(w, "done")
       \/ /\ s.h = "pay" /\ ~MainWrites /\ Paired(s.c)
          /\ Answers(w, "refused") /\ UNCHANGED line
       \/ Answers(w, "failed") /\ UNCHANGED line
    /\ UNCHANGED <<System, row, approvals>>

\* A payment in read_only mode is marked Blocked, and suspended again.
MarkRestore(w) ==
    LET s == session[w] IN
    /\ At(w, {"reactivate", "pay"}, "mark")
    /\ row' = [row EXCEPT ![s.c] =
          IF s.out # "refused" \/ @ = NoRow THEN @
          ELSE [@ EXCEPT !.sync = "Blocked",
                         !.status = IF s.row.status = "suspended" THEN "suspended" ELSE row[s.c].status]]
    /\ Ends(w)
    /\ UNCHANGED <<System, approvals, line>>

\* delete_customer: the row goes first, and the signal's client finds nobody
\* whose pairing to ask for.
DeleteCustomer(w, c) ==
    /\ Starts(w, "deleteCustomer") /\ row[c] # NoRow
    /\ row' = [row EXCEPT ![c] = NoRow]
    /\ IF row[c].router = NoRouter THEN UNCHANGED session
       ELSE Goes(w, "deleteCustomer", "call", c, row[c].router, row[c])
    /\ UNCHANGED <<System, approvals, line>>
CallDelete(w) ==
    LET s == session[w] IN
    /\ At(w, {"deleteCustomer"}, "call")
    /\ \/ MainWrites /\ LetThrough(s.c) /\ line' = [line EXCEPT ![s.r][s.c] = NoLine]
       \/ UNCHANGED line
    /\ Ends(w)
    /\ UNCHANGED <<System, row, approvals>>

\* winbox_secret_action: add asks for the pairing, edit and delete go by the
\* secret's id and ask for nothing.
Winbox(w, c, r) ==
    /\ Starts(w, "winbox") /\ MainWrites
    /\ \E off \in BOOLEAN :
          \/ /\ LetThrough(c) \/ line[r][c].there
             /\ line' = [line EXCEPT ![r][c] = [Put(@, "other") EXCEPT !.off = off]]
          \/ line[r][c].there /\ line' = [line EXCEPT ![r][c] = Cut(@)]
    /\ UNCHANGED <<System, row, approvals, session>>
-----------------------------------------------------------------------------
(* Commands and jobs *)

\* auto_reconcile_routers --apply: the router is read, then the rows.
OpenReconcile(w, c, r) ==
    /\ Starts(w, "reconcile")
    /\ Goes(w, "reconcile", IF line[r][c].there /\ line[r][c].profile = "name" THEN "agrees" ELSE "differs",
            c, r, NoRow)
    /\ UNCHANGED <<System, row, approvals, line>>
ReadReconcile(w) ==
    LET s == session[w]
        r == row[s.c]
    IN
    /\ At(w, {"reconcile"}, "agrees") \/ At(w, {"reconcile"}, "differs")
    /\ IF r = NoRow THEN Ends(w)
       ELSE \/ /\ r.router = s.r
               /\ session' = [session EXCEPT ![w] =
                     IF s.step = "agrees" THEN [s EXCEPT !.step = "mark", !.row = r, !.out = "done"]
                     ELSE [s EXCEPT !.step = "call", !.row = r]]
            \/ (r.router # s.r \/ r.status = "ended") /\ Ends(w)
    /\ UNCHANGED <<System, row, approvals, line>>

\* import_legacy_customers, for one account: unverified, unpaired, and with the
\* export's status and date unless somebody has reviewed the account.  The
\* staging signal is disconnected.
Import(w, c) ==
    /\ Starts(w, "import") /\ imports < MaxImports
    /\ imports' = imports + 1
    /\ \E r \in Routers, status \in Statuses, date \in Dates, reviewed \in BOOLEAN :
          /\ reviewed => row[c] # NoRow /\ status = row[c].status /\ date = row[c].date
          /\ row' = [row EXCEPT ![c] = [router |-> r, status |-> status, date |-> date,
                        sync |-> "Unverified", data |-> imports', stamp |-> imports']]
    /\ approvals' = [approvals EXCEPT ![c] = IF row[c] = NoRow THEN {} ELSE @]
    /\ UNCHANGED <<lock, restarts, duty, line, session>>

\* auto_sync_failed: the failed rows are read, then queued again one by one.
OpenRetry(c) ==
    /\ Starts(Beat, "retry") /\ row[c] # NoRow
    /\ row[c].sync = "Failed" /\ row[c].router # NoRouter
    /\ Goes(Beat, "retry", "mark", c, row[c].router, row[c])
    /\ UNCHANGED <<System, row, approvals, line>>
\* Mutant: the job saves what it read and forgets the second save.
CommitRetryOnce ==
    /\ At(Beat, {"retry"}, "mark")
    /\ row' = [row EXCEPT ![session[Beat].c] = IF @ = NoRow THEN NoRow ELSE [@ EXCEPT !.sync = "Failed"]]
    /\ Ends(Beat)
    /\ UNCHANGED <<System, approvals, line>>
CommitRetry ==
    /\ At(Beat, {"retry"}, "mark")
    /\ row' = [row EXCEPT ![session[Beat].c] = IF @ = NoRow THEN NoRow ELSE [@ EXCEPT !.sync = "Pending"]]
    /\ Ends(Beat)
    /\ UNCHANGED <<System, approvals, line>>

\* auto_cleanup_system_logs_task: after 90 days the pairing's log row is gone.
Purge(c) ==
    /\ Starts(Beat, "purge") /\ approvals[c] # {}
    /\ approvals' = [approvals EXCEPT ![c] = {}]
    /\ UNCHANGED <<System, row, line, session>>

\* Time passes.
Lapse(c) ==
    /\ row[c] # NoRow /\ row[c].date = "ahead"
    /\ row' = [row EXCEPT ![c].date = "past"]
    /\ UNCHANGED <<System, approvals, line, session>>

\* A crash or a deployment, with the keys in another position: requests are
\* lost between two of their steps.
Restart ==
    /\ restarts < MaxRestarts
    /\ restarts' = restarts + 1
    /\ lock' \in {"readOnly", "live", "armed"}
    /\ session' = [w \in Workers |-> Idle]
    /\ UNCHANGED <<row, approvals, line, imports, duty>>
-----------------------------------------------------------------------------
Opens(w, c) ==
    \/ \E r \in Routers :
          \/ \E h \in {"push", "override", "bulkPush", "autofix"} : OpenPut(w, h, c, r)
          \/ OpenApprove(w, c, r) \/ DeleteSecret(w, c, r) \/ ImportSecret(w, c, r)
          \/ AddCustomer(w, c, r) \/ Winbox(w, c, r) \/ OpenReconcile(w, c, r)
    \/ OpenEdit(w, c) \/ ForceSuspend(w, c) \/ Reactivate(w, c) \/ Pay(w, c)
    \/ \E h \in {"autoSuspend", "cutBatch"} : OpenCutOff(w, h, c)
    \/ DeleteCustomer(w, c) \/ Import(w, c)
Continues(w) ==
    \/ CallPut(w) \/ MarkPut(w) \/ CallApprove(w) \/ MarkApprove(w) \/ CommitEdit(w)
    \/ CallSuspend(w) \/ MarkSuspend(w) \/ CallRestore(w) \/ MarkRestore(w)
    \/ CallDelete(w) \/ ReadReconcile(w)
Retry(c) == OpenRetry(c) \/ CommitRetry

Next ==
    \/ \E w \in Threads : Continues(w) \/ \E c \in Customers : Opens(w, c)
    \/ \E c \in Customers : Retry(c) \/ Purge(c) \/ Lapse(c)
    \/ Restart

Spec == Init /\ [][Next]_vars

\* Celery beat starts the job every five minutes, and its worker finishes it.
Fairness == \A c \in Customers : WF_vars(Retry(c))
FairSpec == Spec /\ Fairness
-----------------------------------------------------------------------------
(* What the Sync Manager's page says of an account that is on the router *)

\* system_thinks_off: the row says the line should be off.
Lapsed(c) == row[c].status # "open" \/ row[c].date = "past"

\* The reason keys of the page, and the list it puts the account on.  It reads
\* the secret's disabled flag and profile, never the bridge rules.
Drift(c, r)         == /\ line[r][c].profile # "profile"
                       /\ ~(line[r][c].profile = "expired" /\ Lapsed(c))
PaidExpired(c, r)   == line[r][c].profile = "expired" /\ ~Lapsed(c)
ConnectedUnpaid(c, r) == Lapsed(c) /\ ~line[r][c].off
Mismatch(c, r)      == ConnectedUnpaid(c, r) \/ PaidExpired(c, r) \/ (line[r][c].off /\ ~Lapsed(c))
Reasons(c, r) ==
    {k \in {"cut_off", "paid_expired_profile", "connected_unpaid", "drift", "awaiting_approval"} :
        \/ k = "cut_off" /\ line[r][c].off /\ ~ConnectedUnpaid(c, r)
        \/ k = "paid_expired_profile" /\ PaidExpired(c, r)
        \/ k = "connected_unpaid" /\ ConnectedUnpaid(c, r)
        \/ k = "drift" /\ Drift(c, r)
        \/ k = "awaiting_approval" /\ (row[c].sync \in {"Unverified", "Blocked"} \/ ~Paired(c))}
\* Routers whose page shows the account as one of theirs.
Pages(c) == {r \in Routers : row[c] # NoRow /\ line[r][c].there /\ row[c].router \in {r, NoRouter}}
NeedsReview(c, r) == Drift(c, r) \/ Mismatch(c, r)
-----------------------------------------------------------------------------
(* Properties *)

\* A request between two of its steps: the row as it was read, and the answer.
Handlers == {"push", "override", "bulkPush", "autofix", "add", "reconcile", "approve", "edit",
             "suspend", "autoSuspend", "cutBatch", "reactivate", "pay", "deleteCustomer", "retry"}
Work == [h : Handlers, step : {"call", "mark"}, c : Customers, r : Routers \cup {NoRouter},
         row : Row, out : {"none", "done", "refused", "failed"}]
\* The reconciling command has compared the secret and not read the row yet.
Compared == [h : {"reconcile"}, step : {"agrees", "differs"}, c : Customers, r : Routers,
             row : {NoRow}, out : {"none"}]

\* The shape of the state.
TypeOK ==
    /\ lock \in {"readOnly", "live", "armed"}
    /\ row \in [Customers -> Row \cup {NoRow}]
    /\ approvals \in [Customers -> SUBSET [at : Nat, of : Nat]]
    /\ line \in [Routers -> [Customers -> Line]]
    /\ session \in [Workers -> Work \cup Compared \cup {Idle}]
    /\ imports \in Nat /\ restarts \in Nat /\ duty \in Duties

\* The tools that write to a router without asking for the pairing.
Tools == {"autofix", "add", "reconcile", "delete", "winbox"}
\* Requests that have passed the gate and not called the router yet.
Granted ==
    {<<session[w].c, IF session[w].h = "override" THEN "admin" ELSE "pairing">> :
        w \in {v \in Workers : At(v, {"push", "override", "bulkPush"}, "call")}}

Policy == INSTANCE BorderPolicy WITH
    writable <- SyncWrites,
    held     <- {c \in Customers : row[c] # NoRow},
    paired   <- {c \in Customers : Paired(c)},
    fit      <- {c \in Customers : Fit(c)},
    granted  <- Granted,
    tools    <- duty \cap Tools # {},
    line     <- line

\* The screens and commands together keep the border's promise: no line of an
\* account changes but through a request that passed the gate, for an account
\* that is paired at that moment, or through one of the named tools.
KeepsPolicy == Policy!Spec

\* An account marked Synced has its secret on its own router, whatever was
\* written, refused or lost on the way there, unless somebody removes secrets.
SyncedIsThere ==
    duty \cap {"delete", "winbox", "deleteCustomer"} = {} =>
    \A c \in Customers :
        row[c] # NoRow /\ row[c].sync = "Synced" /\ row[c].router # NoRouter
            => line[row[c].router][c].there

\* A pairing that counts was given for the data the row now holds, so no older
\* approval comes back to life and none outlives a re-import.
PairedIsReviewed ==
    \A c \in Customers : Paired(c) =>
        \E a \in approvals[c] : a.at >= row[c].stamp /\ a.of = row[c].data

\* What the command suspended stays cut off at the router for as long as it is
\* recorded as suspended, whatever push, override and retry do meanwhile; the
\* handlers named are those that suspend without the router's answer, or give
\* the account to another router.
SuspendedIsCut ==
    duty \cap ({"suspend", "reactivate", "pay", "edit", "bulkPush", "import", "deleteCustomer"}
               \cup Tools) = {} =>
    \A c \in Customers : row[c] # NoRow /\ row[c].status = "suspended" =>
        line[row[c].router][c].off \/ line[row[c].router][c].dropped

\* A failed write does not stay failed while the account has a router: the job
\* that runs every five minutes queues it again.
FailedIsQueued ==
    \A c \in Customers :
        ("retry" \in duty /\ row[c] # NoRow /\ row[c].sync = "Failed" /\ row[c].router # NoRouter)
            ~> (row[c] = NoRow \/ row[c].sync # "Failed" \/ row[c].router = NoRouter)
=============================================================================
