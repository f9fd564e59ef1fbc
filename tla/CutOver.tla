------------------------------ MODULE CutOver ------------------------------
(***************************************************************************)
(* The move from the old billing system: the export an administrator        *)
(* uploads, the import of its customers and payments, the decisions people   *)
(* take about the imported rows meanwhile, and the commands beside it        *)
(* (recovery from a router, the older migrations, the plan codes, the        *)
(* barangays, the reset).                                                    *)
(*                                                                           *)
(* An import is one database transaction: what it writes is kept in its      *)
(* session (rows, pays) until it commits, and the rows it wrote are locked   *)
(* to others.  Beside the database it changes its worker process: it takes   *)
(* the save signals off the models and keeps a list of payments to update.   *)
(* Times are ticks; only what people do moves the clock.                     *)
(***************************************************************************)
EXTENDS Integers, Sequences, FiniteSets, Functions

CONSTANTS
    Threads, WorkerOf,  \* request threads and the worker process of each
    Customers,          \* pppoe usernames
    Ids,                \* legacy payment ids
    Files, Content,     \* exports: their customers and payments
    OldFiles,           \* those the older migration is given
    Codes, Specs,       \* legacy plan codes in order; speed, price and standard name of each
    Preferred,          \* the plan name a code is to resolve to, or ""
    Catalogues,         \* the plans the first state may have
    Secret,             \* password of each customer's router secret, "" for a session without one
    Named, PlaceOf,     \* barangays of the dump, and the one its row names for each customer
    Opening, Barangays, \* customers and barangays of the first state
    Armed,              \* router writes are on
    Duties,             \* sets of handlers and exports; each behaviour uses those of one set
    LastTick,           \* bound on what people do
    MaxPlans,           \* bound on the plans map_plans may start from
    MaxImports, MaxStops

NoRow   == [st |-> "none"]
NoPlan  == <<"", "">>
NoPlace == "no place"
NoDate  == -1
Shift   == 8            \* hours from the old system's clock to this one's
Idle    == [h |-> "idle"]
Status  == {"active", "inactive", "suspended", "pending", "pull out", "expired"}
CodeSet == Range(Codes)
Workers == Range(WorkerOf)

\* A Customer: stamp for legacy_reimported_at, rev whether it has a legacy_reviewed_at.
\* imp is for the properties: the number of the import that wrote the row last.
RowFields == {"st", "exp", "pw", "plan", "sync", "stamp", "rev", "brgy", "imp"}
IsRow(r) ==
    /\ DOMAIN r = RowFields
    /\ r.st \in Status /\ r.exp \in Int /\ r.sync \in {"Unverified", "Synced"}
    /\ r.stamp \in Nat /\ r.rev \in BOOLEAN /\ r.brgy \in Nat /\ r.imp \in Nat

ASSUME CutOverAssumption ==
    /\ DOMAIN WorkerOf = Threads /\ OldFiles \subseteq Files
    /\ DOMAIN Opening = Customers
    /\ \A c \in Customers :
           Opening[c] = NoRow \/ (IsRow(Opening[c]) /\ Opening[c].stamp = 0 /\ Opening[c].imp = 0)
    /\ \A f \in Files : Content[f].rows \in Seq(Range(Content[f].rows))
    /\ \A f \in Files : \A i \in DOMAIN Content[f].rows : Content[f].rows[i].user \in Customers
    /\ \A f \in Files : \A i \in DOMAIN Content[f].pays : Content[f].pays[i].id \in Ids
    /\ Preferred \in [CodeSet -> STRING] /\ NoPlace \notin Range(Named)

VARIABLES
    cust,       \* the Customer table
    ledger,     \* the Payment rows of each legacy id: amount and customer
    history,    \* the ImportHistory table
    report,     \* last_import_report.json: the import it tells of, 0 for none
    staged,     \* the administrator's session: file and summary of the last pre-flight
    approval,   \* per customer, the last SYNC_PAIR_APPROVED entry and the row it was about
    wired,      \* per worker, the save signals are connected
    queued,     \* per worker, payments._queued_updates: new fields of a legacy id
    plans, mapping,     \* the SubscriptionPlan and PlanMapping tables
    barangay,           \* the Barangay table
    router,             \* passwords on the router
    ruled, given, book, \* for the properties: last human ruling and password, last ledger
    now, imports, stops,
    session,    \* what each thread is doing
    duty        \* the handlers in use, which never change

vars == <<cust, ledger, history, report, staged, approval, wired, queued, plans, mapping, barangay,
          router, ruled, given, book, now, imports, stops, session, duty>>
People  == <<ruled, given, approval, now>>
Worker  == <<wired, queued>>
Papers  == <<ledger, history, report, staged, book, imports>>
Catalog == <<plans, mapping, barangay>>
-----------------------------------------------------------------------------
(* The export *)

\* A statement ends at the first ";", one inside a value too: the rows of its
\* line are read, the lines after it are not.
FirstOf(S) == CHOOSE i \in S : \A j \in S : i <= j
RowsOf ==
    [f \in Files |-> LET R == Content[f].rows
                         S == {i \in DOMAIN R : R[i].semi}
                     IN  IF S = {} THEN R ELSE SubSeq(R, 1, FirstOf(S))]

StatusOf(st) ==
    IF st = "" THEN "active" ELSE IF st \in Status THEN st ELSE "expired"
DateOf(e) == IF e = NoDate THEN NoDate ELSE e + Shift

\* What the pre-flight says of a file (duplicates, pending... are of the file alone).
UsersOf(f)   == {RowsOf[f][i].user : i \in DOMAIN RowsOf[f]}
Foretold(f)  == [new     |-> Cardinality({c \in UsersOf(f) : cust[c] = NoRow}),
                 pending |-> {RowsOf[f][i].user : i \in {j \in DOMAIN RowsOf[f] : RowsOf[f][j].st = "pending"}},
                 absent  |-> {c \in Customers : cust[c] # NoRow} \ UsersOf(f)]

\* The plan a code stands for: its mapping, its name, a plan of its price and
\* speed (not one made by an import, if there is another), or one made for it.
Unknown(s) == s = 0
Matching(code) ==
    {i \in DOMAIN plans : /\ plans[i].price = Specs[code].price
                          /\ \/ plans[i].speed = Specs[code].speed
                             \/ Unknown(plans[i].speed) \/ Unknown(Specs[code].speed)}
FromCatalogue == {i \in DOMAIN plans : plans[i].name[1] \notin CodeSet}
Resolved ==
    [code \in CodeSet \cup {""} |->
        IF code = "" THEN NoPlan
        ELSE IF mapping[code] # 0 THEN plans[mapping[code]].name
        ELSE IF \/ \E i \in DOMAIN plans : plans[i].name = <<code, "">>
                \/ Matching(code) = {} THEN <<code, "">>
        ELSE IF Matching(code) \cap FromCatalogue # {} THEN plans[FirstOf(Matching(code) \cap FromCatalogue)].name
        ELSE plans[FirstOf(Matching(code))].name]
NewPlan(name, code, profile) ==
    [name |-> name, speed |-> Specs[code].speed, price |-> Specs[code].price, profile |-> profile]
\* The codes a file makes plans for.
Made(f) ==
    SelectSeq(Codes, LAMBDA code : /\ Resolved[code] = <<code, "">>
                                   /\ \A i \in DOMAIN plans : plans[i].name # <<code, "">>
                                   /\ \E i \in DOMAIN RowsOf[f] : RowsOf[f][i].plan = code)
WithPlans(P, C) == P \o [k \in DOMAIN C |-> NewPlan(<<C[k], "">>, C[k], "")]
-----------------------------------------------------------------------------
(* Transactions *)

Importing(t) == session[t].h = "import"
\* No other import has written the row and not committed.
Free(t, c) == \A u \in Threads \ {t} : Importing(u) => c \notin DOMAIN session[u].rows
Seen(t, c) == IF c \in DOMAIN session[t].rows THEN session[t].rows[c] ELSE cust[c]
Over(f, g) == [x \in DOMAIN f \cup DOMAIN g |-> IF x \in DOMAIN f THEN f[x] ELSE g[x]]
With(g, c, x) == Over([d \in {c} |-> x], g)

\* The row an import writes: old is what it read before, row what it then locked.
\* Mutant: an account signed off at the border counts, a ruling does not.
PairedOnce(old) == old # NoRow /\ old.sync = "Synced"
Reviewed(old) == old # NoRow /\ old.rev
\* Mutant: what the export has.
PasswordOfFile(r, old) == r.pw
Password(r, old) == IF r.pw # "" THEN r.pw ELSE IF old # NoRow THEN old.pw ELSE ""
\* Mutant: only a new row is stamped.
StampedWhenNew(row) == IF row = NoRow THEN now ELSE row.stamp
StampOf(row) == now
Imported(s, r, old, row) ==
    [st   |-> IF Reviewed(old) THEN old.st ELSE StatusOf(r.st),
     exp  |-> IF Reviewed(old) THEN old.exp ELSE DateOf(r.exp),
     pw   |-> Password(r, old), plan |-> Resolved[r.plan], sync |-> "Unverified",
     stamp |-> StampOf(row),
     rev  |-> row # NoRow /\ row.rev,
     brgy |-> IF row = NoRow THEN 0 ELSE row.brgy,
     imp |-> s.k]

\* What a transaction writes, w, is not in the table before it commits.
\* Mutant: row by row, as the import once did.
RowByRow(w) == [cust EXCEPT ![w.c] = w.row]
InTable(w) == cust

\* Payments of a file that are of an amount; a username without a customer keeps them.
NoPay == [amt |-> 0, who |-> "nobody"]
Counted == [f \in Files |-> {i \in DOMAIN Content[f].pays : Content[f].pays[i].amt > 0}]
PaidIds == [f \in Files |-> {Content[f].pays[i].id : i \in Counted[f]}]
Fields(t, p) == [amt |-> p.amt, who |-> IF p.user \in Customers /\ Seen(t, p.user) # NoRow THEN p.user ELSE "nobody"]
Later(f, i, j) == Content[f].pays[i].id = Content[f].pays[j].id => i <= j
LastOf(f, id) ==
    Content[f].pays[CHOOSE i \in Counted[f] : /\ Content[f].pays[i].id = id
                                              /\ \A j \in Counted[f] : Later(f, j, i)]
Refused(f) ==
    \/ Content[f].bad
    \/ \E i, j \in Counted[f] : /\ i # j /\ Content[f].pays[i].id = Content[f].pays[j].id
                                 /\ ledger[Content[f].pays[i].id] = NoPay
\* The list of a worker after a file's updates joined it; of two entries for one
\* row the first is written.
QueueWith(t, f) ==
    Over(queued[WorkerOf[t]],
         [id \in {i \in PaidIds[f] : ledger[i] # NoPay} |-> Fields(t, LastOf(f, id))])
\* Mutant: a payment the ledger has is left as it is.
SettledOnce(t, f) ==
    [id \in PaidIds[f] |-> IF ledger[id] = NoPay THEN Fields(t, LastOf(f, id)) ELSE ledger[id]]
Settled(t, f) ==
    LET Q == QueueWith(t, f)
    IN  [id \in PaidIds[f] \cup {i \in DOMAIN Q : ledger[i] # NoPay} |->
            IF ledger[id] = NoPay THEN Fields(t, LastOf(f, id)) ELSE Q[id]]
-----------------------------------------------------------------------------
Init ==
    /\ cust = Opening /\ barangay = Barangays
    /\ ledger = [i \in Ids |-> NoPay] /\ history = <<>> /\ report = 0 /\ staged = <<>>
    /\ approval = [c \in Customers |-> [at |-> 0, saw |-> NoRow]]
    /\ wired = [w \in Workers |-> TRUE] /\ queued = [w \in Workers |-> <<>>]
    /\ mapping = [k \in CodeSet |-> 0]
    /\ router = Secret
    /\ ruled = [c \in Customers |-> [calm |-> FALSE, st |-> "", exp |-> NoDate]]
    /\ given = [c \in Customers |-> FALSE] /\ book = <<>>
    /\ now = 1 /\ imports = 0 /\ stops = 0
    /\ session = [t \in Threads |-> Idle]
    /\ duty \in Duties
    /\ plans \in IF "map" \in duty THEN Catalogues ELSE {CHOOSE C \in Catalogues : TRUE}

On(h) == h \in duty
Becomes(t, s) == session' = [session EXCEPT ![t] = s]
\* For the properties: whether no import runs.
Calm == \A t \in Threads : ~Importing(t)
Tick == now < LastTick /\ now' = now + 1
-----------------------------------------------------------------------------
(* The import page *)

\* A file that can be read is compared with the system and kept for the next click.
Stage(t, f) ==
    /\ On("preflight") /\ session[t] = Idle /\ ~Content[f].broken
    /\ staged' = <<f, Foretold(f)>>
    /\ UNCHANGED <<cust, ledger, history, report, approval, wired, queued, plans, mapping, barangay, router,
                   ruled, given, book, now, imports, stops, session, duty>>

\* A confirmed import takes the kept file, or the one that comes with the click.
Target(f) == IF staged # <<>> THEN staged[1] ELSE f
Begin(t, f) ==
    /\ On("import") /\ session[t] = Idle /\ imports < MaxImports
    /\ ~Content[Target(f)].broken
    /\ wired' = [wired EXCEPT ![WorkerOf[t]] = FALSE]
    /\ imports' = imports + 1
    /\ Becomes(t, [h |-> "import", f |-> Target(f), k |-> imports + 1, began |-> now, i |-> 1,
                   got |-> FALSE, old |-> NoRow, rows |-> <<>>, paid |-> FALSE, pays |-> <<>>,
                   new |-> 0])
    /\ UNCHANGED <<cust, ledger, history, report, staged, approval, queued, plans, mapping, barangay, router,
                   ruled, given, book, now, stops, duty>>

\* After the finally clause; the rest of a failed import is rolled back.
\* Mutant: no finally clause.
LeftOff(t) == wired
Rewired(t) == [wired EXCEPT ![WorkerOf[t]] = TRUE]
\* A malformed file is refused while it is parsed.
Malformed(t, f) ==
    /\ On("import") /\ session[t] = Idle /\ Content[Target(f)].broken
    /\ wired' = Rewired(t)
    /\ UNCHANGED <<cust, ledger, history, report, staged, approval, queued, plans, mapping, barangay, router,
                   ruled, given, book, now, imports, stops, session, duty>>

Current(s) == RowsOf[s.f][s.i]
ReadRow(t) ==
    LET s == session[t]
    IN  /\ Importing(t) /\ ~s.got /\ s.i <= Len(RowsOf[s.f])
        /\ Becomes(t, [s EXCEPT !.got = TRUE, !.old = Seen(t, Current(s).user)])
        /\ UNCHANGED <<cust, router, barangay, plans, mapping, stops, duty, People, Worker, Papers>>

WriteRow(t) ==
    LET s == session[t]
        c == Current(s).user
        r == Imported(s, Current(s), s.old, Seen(t, c))
    IN  /\ Importing(t) /\ s.got /\ Free(t, c)
        /\ Becomes(t, [s EXCEPT !.got = FALSE, !.old = NoRow, !.i = @ + 1, !.rows = With(@, c, r),
                                !.new = @ + (IF Seen(t, c) = NoRow THEN 1 ELSE 0)])
        /\ cust' = InTable([c |-> c, row |-> r])
        /\ UNCHANGED <<router, barangay, plans, mapping, stops, duty, People, Worker, Papers>>

\* Of two imports that wait for each other the database ends one.
Deadlock(t) ==
    /\ Importing(t) /\ session[t].got /\ ~Free(t, Current(session[t]).user)
    /\ \E u \in Threads \ {t} :
        /\ Importing(u) /\ session[u].got
        /\ Current(session[t]).user \in DOMAIN session[u].rows
        /\ Current(session[u]).user \in DOMAIN session[t].rows
    /\ wired' = Rewired(t) /\ Becomes(t, Idle)
    /\ UNCHANGED <<cust, queued, router, barangay, plans, mapping, stops, duty, People, Papers>>

\* The payments of another import that has not committed hold up those of this one.
\* Mutant: an import waits until it is the only one.
OnlyOne(t)    == \A u \in Threads \ {t} : ~Importing(u)
LedgerFree(t) == \A u \in Threads \ {t} : Importing(u) => ~session[u].paid
RowsDone(t) == /\ Importing(t) /\ ~session[t].got /\ session[t].i > Len(RowsOf[session[t].f])
               /\ ~session[t].paid /\ LedgerFree(t)

\* The ledger, then the report file.
Pay(t) ==
    LET s == session[t]
    IN  /\ RowsDone(t)
        /\ IF Content[s.f].pays = <<>>
           THEN Becomes(t, [s EXCEPT !.paid = TRUE]) /\ UNCHANGED queued
           ELSE /\ ~Refused(s.f)
                /\ Becomes(t, [s EXCEPT !.paid = TRUE, !.pays = Settled(t, s.f)])
                /\ queued' = [queued EXCEPT ![WorkerOf[t]] = <<>>]
        /\ report' = s.k
        /\ UNCHANGED <<cust, ledger, history, staged, book, imports, wired, router, barangay, plans, mapping,
                       stops, duty, People>>

\* The database refuses the ledger: the message says the customers are imported, the
\* report is written, and the history entry ends the broken transaction.
PayFails(t) ==
    LET s == session[t]
    IN  /\ RowsDone(t) /\ Content[s.f].pays # <<>> /\ Refused(s.f)
        /\ queued' = [queued EXCEPT ![WorkerOf[t]] = QueueWith(t, s.f)]
        /\ report' = s.k
        /\ wired' = Rewired(t) /\ Becomes(t, Idle)
        /\ UNCHANGED <<cust, ledger, history, staged, book, imports, router, barangay, plans, mapping,
                       stops, duty, People>>

\* The history entry, the signals, the commit, and the end of the view.
Commit(t) ==
    LET s == session[t]
    IN  /\ Importing(t) /\ s.paid
        /\ cust' = Over(s.rows, cust)
        /\ ledger' = Over(s.pays, ledger)
        /\ history' = Append(history, [k |-> s.k, f |-> s.f, new |-> s.new, began |-> s.began])
        /\ plans' = WithPlans(plans, Made(s.f))
        /\ wired' = Rewired(t) /\ staged' = <<>> /\ Becomes(t, Idle)
        /\ book' = [id \in PaidIds[s.f] |-> LastOf(s.f, id).amt]
        /\ UNCHANGED <<report, imports, queued, router, barangay, mapping, stops, duty, People>>

Import(t) == ReadRow(t) \/ WriteRow(t) \/ Deadlock(t) \/ Pay(t) \/ PayFails(t) \/ Commit(t)
-----------------------------------------------------------------------------
(* What people do meanwhile *)

\* A decision about a flagged row saves the fields it is about, e being a date typed in.
Ruling(row, a, e) ==
    CASE a = "archive"  -> [row EXCEPT !.st = "inactive", !.rev = TRUE]
      [] a = "activate" -> [row EXCEPT !.st = "active", !.rev = TRUE]
      [] a = "set"      -> [row EXCEPT !.exp = e, !.rev = TRUE]
      [] a = "clear"    -> [row EXCEPT !.exp = NoDate, !.rev = TRUE]
      [] a = "unreview" -> [row EXCEPT !.rev = FALSE]
Review(t, c, a) ==
    /\ On("review") /\ session[t] = Idle /\ Free(t, c) /\ cust[c] # NoRow
    /\ Tick
    /\ LET row == Ruling(cust[c], a, 100)
       IN  /\ cust' = [cust EXCEPT ![c] = row]
           /\ ruled' = [ruled EXCEPT ![c] = [calm |-> Calm, st |-> row.st, exp |-> row.exp]]
    /\ UNCHANGED <<given, approval, router, Catalog, stops, session, duty, Worker, Papers>>

\* A form saves the row it read, with the password that was typed.
OpenEdit(t, c) ==
    /\ On("edit") /\ session[t] = Idle /\ cust[c] # NoRow
    /\ Becomes(t, [h |-> "edit", c |-> c, row |-> cust[c]])
    /\ UNCHANGED <<cust, router, Catalog, stops, duty, People, Worker, Papers>>
SaveEdit(t) ==
    LET s == session[t]
    IN  /\ s.h = "edit" /\ Free(t, s.c)
        /\ Becomes(t, Idle)
        /\ IF s.row.brgy # 0 /\ barangay[s.row.brgy].gone
           THEN UNCHANGED <<cust, given>>
           ELSE /\ cust' = [cust EXCEPT ![s.c] = [s.row EXCEPT !.pw = "typed"]]
                /\ given' = [given EXCEPT ![s.c] = @ \/ Calm]
        /\ UNCHANGED <<now, ruled, approval, router, Catalog, stops, duty, Worker, Papers>>

\* Pairing reads the row and the router, then writes the entry with the sync status.
OpenPair(t, c) ==
    /\ On("pair") /\ session[t] = Idle /\ cust[c] # NoRow
    /\ cust[c].exp # NoDate /\ router[c] # "none"
    /\ Becomes(t, [h |-> "pair", c |-> c, row |-> cust[c]])
    /\ UNCHANGED <<cust, router, Catalog, stops, duty, People, Worker, Papers>>
Pair(t) ==
    LET s == session[t]
    IN  /\ s.h = "pair" /\ Free(t, s.c) /\ Tick
        /\ Becomes(t, Idle)
        /\ cust' = IF cust[s.c] = NoRow THEN cust ELSE [cust EXCEPT ![s.c].sync = "Synced"]
        /\ approval' = [approval EXCEPT ![s.c] = [at |-> now, saw |-> s.row]]
        /\ UNCHANGED <<ruled, given, router, Catalog, stops, duty, Worker, Papers>>

\* pair_approved: an entry as young as the last import of the row.
Approved(c) == cust[c] # NoRow /\ approval[c].at # 0 /\ approval[c].at >= cust[c].stamp
-----------------------------------------------------------------------------
(* The commands beside it; each saves row by row, so a stopped one has done some *)

Created(c, pw, plan, st) ==
    [st |-> st, exp |-> NoDate, pw |-> pw, plan |-> plan, sync |-> "Unverified", stamp |-> 0,
     rev |-> FALSE, brgy |-> 0, imp |-> 0]
Saved(c, row) ==
    /\ cust' = [cust EXCEPT ![c] = row]
    /\ UNCHANGED <<router, Catalog, stops, session, duty, People, Worker, Papers>>
NobodyHas(c) == \A t \in Threads : Importing(t) => c \notin DOMAIN session[t].rows

\* A router's profile names the plan of its name; friendly plans have none.
ProfilePlan(p) == IF \E i \in DOMAIN plans : plans[i].name = <<p, "">> THEN <<p, "">> ELSE NoPlan
\* recover_from_mikrotik: the router's password and plan, for whatever is on it.
Recover(c, p) ==
    /\ On("recover") /\ router[c] # "none" /\ NobodyHas(c)
    /\ Saved(c, IF cust[c] = NoRow THEN Created(c, router[c], ProfilePlan(p), "active")
                ELSE [cust[c] EXCEPT !.pw = router[c], !.plan = ProfilePlan(p)])
\* core_migration: only customers the system does not have.
MigrateCore(c, p) ==
    /\ On("core") /\ NobodyHas(c) /\ cust[c] = NoRow
    /\ Saved(c, Created(c, IF router[c] = "none" THEN "" ELSE router[c],
                        IF router[c] = "none" THEN NoPlan ELSE ProfilePlan(p), "active"))
\* migrate_legacy_data: a new customer fails on a field the model lacks; the row of
\* another is overwritten.
Legacy(r, row) ==
    [row EXCEPT !.st = IF r.st = "" THEN "active" ELSE r.st, !.exp = IF r.exp = NoDate THEN 0 ELSE r.exp,
                !.pw = r.pw, !.plan = IF r.plan = "" THEN NoPlan ELSE <<r.plan, "">>, !.sync = "Synced"]
MigrateLegacy(f, i) ==
    LET r == RowsOf[f][i]
    IN  /\ On("migrate") /\ NobodyHas(r.user) /\ cust[r.user] # NoRow
        /\ cust' = [cust EXCEPT ![r.user] = Legacy(r, cust[r.user])]
        /\ plans' = IF r.plan = "" \/ \E k \in DOMAIN plans : plans[k].name = <<r.plan, "">> THEN plans
                    ELSE WithPlans(plans, <<r.plan>>)
        /\ UNCHANGED <<router, mapping, barangay, stops, session, duty, People, Worker, Papers>>

\* reset_operational_data: one transaction; deleting a customer removes its secret.
Reset ==
    /\ On("reset") /\ \A c \in Customers : NobodyHas(c)
    /\ cust' = [c \in Customers |-> NoRow] /\ ledger' = [i \in Ids |-> NoPay] /\ book' = <<>>
    /\ approval' = [c \in Customers |-> [at |-> 0, saw |-> NoRow]]
    /\ router' = [c \in Customers |-> IF Armed /\ cust[c] # NoRow THEN "none" ELSE router[c]]
    /\ given' = [c \in Customers |-> FALSE]
    /\ UNCHANGED <<ruled, now, history, report, staged, imports, Catalog, stops, session, duty, Worker>>

\* map_plans decides for every code before it writes one.
Match(P, code) == {i \in DOMAIN P : P[i].price = Specs[code].price /\ P[i].speed = Specs[code].speed}
CalledFor(P, code) == {i \in DOMAIN P : Preferred[code] # "" /\ P[i].name = <<Preferred[code], "">>}
Exact(P, code) == {i \in DOMAIN P : P[i].name = <<code, "">>}
Reusable(P, code) ==
    IF Exact(P, code) # {} THEN {}
    ELSE IF CalledFor(P, code) # {} THEN {FirstOf(CalledFor(P, code))}
    ELSE IF Match(P, code) # {} THEN {FirstOf(Match(P, code))} ELSE {}
Claimed(P, code) == \E other \in CodeSet \ {code} : Reusable(P, other) = Reusable(P, code)
Decision(P, code) ==
    IF Exact(P, code) # {} THEN [plan |-> FirstOf(Exact(P, code)), name |-> NoPlan]
    ELSE IF Reusable(P, code) = {} THEN [plan |-> 0, name |-> <<Specs[code].std, "">>]
    ELSE LET i == FirstOf(Reusable(P, code))
         IN  IF Claimed(P, code) THEN [plan |-> 0, name |-> <<P[i].name[1], code>>]
             ELSE [plan |-> i, name |-> NoPlan]
MapPlans(t) ==
    /\ On("map") /\ session[t] = Idle /\ \A u \in Threads : session[u].h # "map"
    /\ Len(plans) <= MaxPlans
    /\ Becomes(t, [h |-> "map", todo |-> Codes, does |-> [code \in CodeSet |-> Decision(plans, code)]])
    /\ UNCHANGED <<cust, router, Catalog, stops, duty, People, Worker, Papers>>
MapPlan(t) ==
    LET s == session[t]
        code == Head(s.todo)
        d == s.does[code]
    IN  /\ s.h = "map"
        /\ IF d.plan = 0
           THEN /\ plans' = Append(plans, NewPlan(d.name, code, code))
                /\ mapping' = [mapping EXCEPT ![code] = Len(plans) + 1]
           ELSE /\ plans' = [plans EXCEPT ![d.plan].profile = code]
                /\ mapping' = [mapping EXCEPT ![code] = d.plan]
        /\ Becomes(t, IF Len(s.todo) = 1 THEN Idle ELSE [s EXCEPT !.todo = Tail(@)])
        /\ UNCHANGED <<cust, router, barangay, stops, duty, People, Worker, Papers>>
StopMap(t) ==
    /\ session[t].h = "map" /\ On("kill") /\ stops < MaxStops /\ stops' = stops + 1 /\ Becomes(t, Idle)
    /\ UNCHANGED <<cust, router, Catalog, duty, People, Worker, Papers>>

\* import_barangays: placeholders nobody uses go, missing places come, two spellings
\* of one place become the older, then the dump's customers are assigned.
Users(b) == {c \in Customers : cust[c] # NoRow /\ cust[c].brgy = b}
Kept == {b \in DOMAIN barangay : /\ ~barangay[b].gone
                                 /\ \/ barangay[b].place \in Range(Named)
                                    \/ Users(b) # {}}
PlacesKept == {barangay[b].place : b \in Kept}
Listing ==
    [b \in DOMAIN barangay |->
        [barangay[b] EXCEPT !.gone = \/ b \notin Kept
                                     \/ \E a \in Kept : a < b /\ barangay[a].place = barangay[b].place]]
    \o LET New == SelectSeq(Named, LAMBDA p : p \notin PlacesKept)
       IN  [k \in DOMAIN New |-> [place |-> New[k], gone |-> FALSE]]
Winner(p) == CHOOSE b \in DOMAIN Listing : ~Listing[b].gone /\ Listing[b].place = p
Assigned == {c \in Customers : cust[c] # NoRow /\ PlaceOf[c] # NoPlace}
Moved(row)   == IF row.brgy = 0 THEN 0 ELSE Winner(barangay[row.brgy].place)
ImportPlaces ==
    /\ On("places") /\ \A c \in Customers : NobodyHas(c)
    \* An alias the dump does not list ends the transaction.
    /\ \A c \in Assigned : PlaceOf[c] \in PlacesKept \cup Range(Named)
    /\ barangay' = Listing
    /\ cust' = [c \in Customers |->
                    IF cust[c] = NoRow THEN NoRow
                    ELSE IF c \in Assigned THEN [cust[c] EXCEPT !.brgy = Winner(PlaceOf[c])]
                    ELSE [cust[c] EXCEPT !.brgy = Moved(cust[c])]]
    /\ UNCHANGED <<router, plans, mapping, stops, session, duty, People, Worker, Papers>>

\* A worker process is killed: its transactions are rolled back, a new one takes over.
Stop(w) ==
    /\ On("kill") /\ stops < MaxStops /\ \E t \in Threads : WorkerOf[t] = w /\ Importing(t)
    /\ stops' = stops + 1
    /\ session' = [t \in Threads |-> IF WorkerOf[t] = w /\ session[t].h # "map" THEN Idle ELSE session[t]]
    /\ wired' = [wired EXCEPT ![w] = TRUE] /\ queued' = [queued EXCEPT ![w] = <<>>]
    /\ UNCHANGED <<cust, router, Catalog, duty, People, Papers>>

Next ==
    \/ \E t \in Threads :
        \/ \E f \in Files \cap duty : Stage(t, f) \/ Begin(t, f) \/ Malformed(t, f)
        \/ Import(t)
        \/ \E c \in Customers, a \in {"archive", "activate", "set", "clear", "unreview"} : Review(t, c, a)
        \/ \E c \in Customers : OpenEdit(t, c) \/ OpenPair(t, c)
        \/ SaveEdit(t) \/ Pair(t) \/ MapPlans(t) \/ MapPlan(t) \/ StopMap(t)
    \/ \E c \in Customers, p \in CodeSet \cup {"default"} : Recover(c, p) \/ MigrateCore(c, p)
    \/ \E f \in OldFiles \cap duty : \E i \in DOMAIN RowsOf[f] : MigrateLegacy(f, i)
    \/ Reset \/ ImportPlaces
    \/ \E w \in Workers : Stop(w)

Spec == Init /\ [][Next]_vars
\* An import runs on until it ends; the database ends one of two that wait for each other.
FairSpec == Spec /\ \A t \in Threads : WF_vars(Import(t))
-----------------------------------------------------------------------------
(* Properties *)

\* The tables, and a status only from the model's choices (LEGACY_STATUS_MAP).
TypeOK ==
    /\ \A c \in Customers : cust[c] = NoRow \/ IsRow(cust[c])
    /\ ledger \in [Ids -> [amt : Nat, who : Customers \cup {"nobody"}]]
    /\ wired \in [Workers -> BOOLEAN] /\ mapping \in [CodeSet -> 0..Len(plans)]
    /\ report \in 0..imports
    /\ \A c \in Customers : cust[c] # NoRow => cust[c].brgy \in 0..Len(barangay)

\* The import takes the router signals off the models for its whole worker process:
\* however it ends, they are back when no import runs there.
SignalsComeBack ==
    \A w \in Workers : (\A t \in Threads : WorkerOf[t] = w => ~Importing(t)) => wired[w]

\* A row an import wrote is there only if it finished, with its history entry; then the
\* ledger has every payment of its file once, with the file's amount, a customer's or
\* nobody's, and after the same file again too.
AllOrNothing ==
    /\ \A c \in Customers : cust[c] # NoRow /\ cust[c].imp # 0 =>
           \E i \in DOMAIN history : history[i].k = cust[c].imp
    /\ \A id \in DOMAIN book : ledger[id].amt = book[id]

\* A pairing older than an import does not open the border for a customer it wrote.
OldPairingEnds ==
    \A i \in DOMAIN history : \A c \in UsersOf(history[i].f) :
        Approved(c) => approval[c].at >= history[i].began

\* What a person decided about an account while no import ran, and the password they
\* set, stand through imports: the ruling over the export's status and date, the
\* password over an export without one.
ReviewStands ==
    \A c \in Customers : cust[c] # NoRow =>
        /\ cust[c].rev /\ ruled[c].calm => cust[c].st = ruled[c].st /\ cust[c].exp = ruled[c].exp
        /\ given[c] => cust[c].pw # ""

\* A mapped code's plan carries that code to the router, through stopped and repeated runs.
ProfilePerCode == \A code \in CodeSet : mapping[code] # 0 => plans[mapping[code]].profile = code

\* A customer's place is lost to no merge of spellings and no removal of placeholders.
PlaceKept ==
    [][\A c \in Customers :
        cust[c] # NoRow /\ cust'[c] # NoRow /\ cust[c].brgy # 0 =>
            /\ cust'[c].brgy # 0 /\ ~barangay'[cust'[c].brgy].gone
            /\ barangay'[cust'[c].brgy].place \in {barangay[cust[c].brgy].place, PlaceOf[c]}]_vars

\* An import that began ends, two that wait for each other too.
ImportEnds == \A t \in Threads : Importing(t) ~> ~Importing(t)
=============================================================================
