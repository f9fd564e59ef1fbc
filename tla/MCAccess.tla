------------------------------ MODULE MCAccess ------------------------------
(* Small staff tables for TLC, and claims of documents and screens. *)
EXTENDS Access, TLC

Row(open, acts) == [open |-> open, tabs |-> IF open THEN Tabs ELSE {}, acts |-> acts,
                    ticked |-> <<Tabs, {}>>]
Staff(n, sup, on, gs) == [name |-> n, staff |-> TRUE, super |-> sup, active |-> on, groups |-> gs]
Shown3(n, r, st) == [name |-> n, role |-> r, status |-> st]
Tables(l, m, cashier) ==
    [login  |-> [i \in Ids |-> IF i \in DOMAIN l THEN l[i] ELSE Gone],
     mirror |-> [i \in Ids |-> IF i \in DOMAIN m THEN m[i] ELSE Gone],
     role   |-> [r \in Roles |-> IF r = "Cashier" /\ ~cashier THEN Gone
                                 ELSE Row(r \in {"Admin", "CSR", "Cashier"}, Ungranted)],
     group  |-> [r \in Roles |-> IF r \in DOMAIN Matrix THEN Matrix[r] ELSE NoGroup],
     agent  |-> [a \in Agents |-> NoAgent], crewman |-> {}]

\* The superuser came first to the mirror table, the CSR first to the logins.
Office == Tables(<<Staff("rey", FALSE, TRUE, {"CSR"}), Staff("root", TRUE, TRUE, {"Admin"})>>,
                 <<Shown3("root", "Admin", "Active"), Shown3("rey", "CSR", "Active")>>, FALSE)
\* An agent and a technician of the Staff & Admins page without their profiles.
Field  == Tables(<<Staff("rey", FALSE, TRUE, {"Agent"}), Staff("root", FALSE, TRUE, {"Technician"})>>,
                 <<Shown3("rey", "Agent", "Active"), Shown3("root", "Technician", "Active")>>, FALSE)
Custom == Tables(<<Staff("rey", FALSE, TRUE, {"CSR"})>>, <<Shown3("rey", "CSR", "Active")>>, TRUE)
Off    == Tables(<<Staff("rey", FALSE, FALSE, {"Agent"})>>, <<Shown3("rey", "Agent", "Inactive")>>, FALSE)

\* The portal: rows of the import and of the desk, nobody or one signed in.
At(table, starts, temps, in) ==
    [login |-> table.login, mirror |-> table.mirror, role |-> table.role, group |-> table.group,
     agent |-> table.agent, crewman |-> {}, starts |-> starts,
     account |-> [c \in Subscribers |-> [pw |-> 0, must |-> TRUE, temp |-> temps[c]]],
     signedIn |-> [d \in Devices |-> IF d = in THEN "ana" ELSE "nobody"]]
None   == [c \in Subscribers |-> Never]
Portal1 == {At(Office, "change", t, "home") : t \in [Subscribers -> {Never, 0}]}
Opened(tables) == {At(t, "list", None, "nowhere") : t \in tables}
MCOpenings == Opened({Office}) \cup Portal1 \cup
    {At(Field, "link", None, "nowhere"), At(Office, "login", None, "nowhere"),
     At(Office, "page", None, "home")}
Customized == Opened({Custom})
Dismissed  == Opened({Off})
-----------------------------------------------------------------------------
(* What comments, documents and screens say of this part and the code does not
   do (README, section 5): TLC refutes each when it is named in a configuration. *)

\* The form's role list has Admin in it (add_staff.html:212, edit_staff.html:212).
NoFormFails == answer # "failed"

\* "Deletes or deactivates a staff member" (staff.py:582): who was deleted does not
\* come back to the page by looking at it or signing others in.
DeletedStaysGone ==
    [][\A n \in Names : Called(mirror, n) = {} /\ Called(mirror', n) # {}
          => Called(login', n) # Called(login, n) \/ \E i \in Called(login, n) : login[i].active]_accessVars

\* "auto-syncing profiles": resolves "both SystemAdmin ID and User ID"
\* (changelog.html:470); the page of Dispatch Management names logins by key.
OpensTheOneNamed ==
    \A t \in Busy : job[t].h = "edit" /\ login[job[t].key] # Gone
                       => job[t].row.name = login[job[t].key].name

\* "what makes the role editor authoritative" (decorators.py:16).
EditorRules ==
    \A i \in Rows(login) : ~login[i].super /\ RoleAllows(i, {"CSR"}) => RolePerms(i).open

\* "a save can never silently wipe action permissions" (staff.py:237), nor keep
\* what was unticked.
TickedIsKept ==
    \A r \in Roles : role[r] # Gone /\ role[r].open =>
        role[r].tabs = role[r].ticked[1]

\* A role that is renamed keeps its members.
RenamedKeepsMembers ==
    \A k \in Rows(mirror) : mirror[k].role = "CSR" => role["CSR"] # Gone

\* A deactivated member stays out: the command "only fills gaps" (:24).
DeactivatedStaysOut ==
    \A k \in Rows(mirror), i \in Rows(login) :
        mirror[k].name = login[i].name /\ mirror[k].status = "Inactive" => ~login[i].active

\* Who has no role of the counter any more has no permission of it.
LeavesTheCounter ==
    \A i \in Rows(login) :
        ~login[i].super /\ RoleOf(i) \notin {"Admin", "CSR"} => ~HasPerm(i, "counter")

\* "Must verify that this customer has not logged out" (billing/views/auth.py:470).
GoneIsNotShown ==
    \A c \in Subscribers :
        Signed(c) = {} /\ (\A t \in Busy : "c" \in DOMAIN job[t] => job[t].c # c) => ~Entry(c)

\* A customer with a page in the last five minutes is shown.
OnlineIsShown ==
    \A c \in Subscribers : Signed(c) # {} /\ seen[c] > 0 /\ Busy = {} => Shown(c)
=============================================================================
