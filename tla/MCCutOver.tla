----------------------------- MODULE MCCutOver -----------------------------
(* Constants for TLC, and claims of the documents. *)
EXTENDS CutOver, TLC

MCWorkers  == [t \in Threads |-> "w1"]
TwoWorkers == [t \in Threads |-> IF t = "t1" THEN "w1" ELSE "w2"]

R(u, st, exp, pw, plan) == [user |-> u, st |-> st, exp |-> exp, pw |-> pw, plan |-> plan, semi |-> FALSE]
P(id, u, amt) == [id |-> id, user |-> u, amt |-> amt]
File(rows, pays) == [rows |-> rows, pays |-> pays, bad |-> FALSE, broken |-> FALSE]
MCContent == [
    \* An account past due, a dateless one without a password, a stranger's payment.
    first  |-> File(<<R("c1", "past_due", 5, "old", "g20"), R("c2", "active", NoDate, "", "g20x")>>,
                    <<P(1, "c1", 7), P(2, "who", 3), P(3, "c2", 0)>>),
    \* The next export: the other order, a corrected amount.
    second |-> File(<<R("c2", "suspended", 9, "", "g20x"), R("c1", "active", 40, "", "g20")>>,
                    <<P(1, "c1", 8)>>),
    refused |-> [File(<<R("c1", "active", 5, "old", "g20")>>, <<P(1, "c1", 9)>>) EXCEPT !.bad = TRUE],
    twice   |-> File(<<R("c1", "active", 5, "old", "g20")>>, <<P(3, "c1", 2), P(3, "c1", 4)>>),
    broken  |-> [File(<<R("c1", "active", 5, "old", "g20")>>, <<>>) EXCEPT !.broken = TRUE],
    cut     |-> File(<<[R("c1", "active", 5, "old", "g20") EXCEPT !.semi = TRUE],
                       R("c2", "pending", NoDate, "new", "g20")>>, <<>>),
    waits   |-> File(<<R("c1", "pending", NoDate, "new", "g20")>>, <<>>)]

MCCodes == <<"g20", "g20x", "g50">>
MCSpecs == [g20  |-> [speed |-> 20, price |-> 1000, std |-> "20 Mbps Plan 1000"],
            g20x |-> [speed |-> 20, price |-> 1000, std |-> "20 Mbps Plan 1000"],
            g50  |-> [speed |-> 50, price |-> 1000, std |-> "50 Mbps Plan 1000"]]
MCPreferred == [g20 |-> "fiber", g20x |-> "", g50 |-> ""]
Plan(name, speed) == [name |-> <<name, "">>, speed |-> speed, price |-> 1000, profile |-> ""]
MCCatalogues == {<<Plan("fiber", 20)>>, <<Plan("fiber", 20), Plan("home", 50)>>, <<Plan("g50", 50)>>}
OddCatalogue == {<<Plan("g20x", 20)>>, <<Plan("fiber", 50)>>, <<Plan("plain", 0)>>, <<Plan("fiber", 100)>>}

MCSecret   == [c \in Customers |-> IF c = "c1" THEN "live" ELSE "none"]
MCNamed    == <<"patag", "bulua">>
MCPlaceOf  == [c \in Customers |-> IF c = "c1" THEN "bulua" ELSE NoPlace]
MCBarangays == <<[place |-> "patag", gone |-> FALSE], [place |-> "patag", gone |-> FALSE],
                 [place |-> "north", gone |-> FALSE], [place |-> "south", gone |-> FALSE]>>
Nobody == [c \in Customers |-> NoRow]
Old(b) == [Created("c2", "mine", NoPlan, "active") EXCEPT !.brgy = b]
\* One customer the system already has, under the second spelling.
MCOpening == [c \in Customers |-> IF c = "c1" THEN NoRow ELSE Old(2)]

BareSecret == [c \in Customers |-> ""]
-----------------------------------------------------------------------------
(* What the documents say and the code does not keep: each is refuted by the run *)
(* with the duties the README gives, and by none of the safe ones.               *)

\* import_legacy_customers.py:401: "EVERY RE-IMPORT RETURNS EVERY ACCOUNT TO THE BORDER":
\* an approval is about the row as the last import wrote it.
PairedSawThis == \A c \in Customers : Approved(c) => approval[c].saw.imp = cust[c].imp

\* actions.py:108: "Re-imports will not undo this": a ruling made while one runs too.
RulingStands ==
    \A c \in Customers : cust[c] # NoRow /\ cust[c].rev /\ ruled[c].st # "" =>
        cust[c].st = ruled[c].st /\ cust[c].exp = ruled[c].exp

\* The report of the last import is of an import that finished.
ReportIsTrue ==
    (\A t \in Threads : ~Importing(t)) /\ report # 0 => \E i \in DOMAIN history : history[i].k = report

\* import_legacy_customers.py:174: no router signal fires for what an import saves.
ImportIsQuiet == \A t \in Threads : Importing(t) => ~wired[WorkerOf[t]]
\* ... and every save that is not an import's reaches the router.
OnlyImportIsQuiet ==
    [][\A t \in Threads : session[t].h = "edit" /\ session'[t] = Idle => wired[WorkerOf[t]]]_vars

\* parser.py:198: "refusing to import rather than guess": no row of a file is left out.
EveryRowIsRead ==
    \A i \in DOMAIN history : \A j \in DOMAIN Content[history[i].f].rows :
        cust[Content[history[i].f].rows[j].user].imp # 0

\* preflight.py:123: a pending installation "must NOT be auto-imported".
PendingWaits ==
    \A i \in DOMAIN history : \A j \in DOMAIN RowsOf[history[i].f] :
        RowsOf[history[i].f][j].st = "pending" => cust[RowsOf[history[i].f][j].user] = NoRow

\* settings.py:396: the import "acts on exactly the file that was reviewed", as the summary foretold.
DoneAsForetold ==
    [][\A t \in Threads : Importing(t) /\ Len(history') > Len(history) /\ session'[t] = Idle /\ staged # <<>> =>
           session[t].f = staged[1] /\ session[t].new = staged[2].new]_vars

\* map_plans.py: a mapped code's plan has the code's price and speed, and names are told apart.
PlanFits ==
    \A code \in CodeSet : mapping[code] # 0 =>
        plans[mapping[code]].speed = Specs[code].speed /\ plans[mapping[code]].price = Specs[code].price
PlanNamesDiffer == \A i, j \in DOMAIN plans : i # j => plans[i].name # plans[j].name

\* A customer marked Synced was paired.
SyncedIsPaired == \A c \in Customers : cust[c] # NoRow /\ cust[c].sync = "Synced" => approval[c].at # 0

\* A customer with a password keeps one.
NeverBlank ==
    [][\A c \in Customers : cust[c] # NoRow /\ cust[c].pw # "" /\ cust'[c] # NoRow => cust'[c].pw # ""]_vars
\* A customer with a plan keeps one.
PlanKept ==
    [][\A c \in Customers : cust[c] # NoRow /\ cust[c].plan # NoPlan /\ cust'[c] # NoRow => cust'[c].plan # NoPlan]_vars

\* reset_operational_data.py: "Never touches the routers".
RoutersUntouched == [][router' = router]_vars
=============================================================================
