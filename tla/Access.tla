------------------------------- MODULE Access -------------------------------
(***************************************************************************)
(* Who may use the system: the logins of staff and their mirror on the      *)
(* Staff & Admins page, the roles and groups that open pages to them, the    *)
(* portal passwords of customers, the sign-in page with its lockout, and     *)
(* the list of customers who are online.                                     *)
(*                                                                           *)
(* A request that reads a row or a cache entry and writes it later does so   *)
(* in two steps (job holds what it read); the others are short and one step. *)
(* The administrator at the desk has a login outside these tables.           *)
(***************************************************************************)
EXTENDS Integers, FiniteSets

CONSTANTS
    Threads,            \* threads that serve requests
    Ids,                \* primary keys of logins, and of their mirror rows
    Names,              \* usernames
    Agents,             \* rows the Agent table has room for
    Roles,              \* names of roles, "Admin" among them
    Edited, Offered,    \* those the role editor touches, and the staff forms offer
    Tabs,               \* subtabs of the module the role editor shows here
    Subscribers, Devices, Ips,
    Openings,           \* tables of the first state, for the duties that start from them
    Duties,             \* sets of handlers; each behaviour uses those of one set
    Exclusive,          \* handlers that run while no other request is open
    Life,               \* days a temporary password opens the portal
    MaxTries, LockTime, \* failures that lock an account, and for how many ticks
    MaxPosts, Window,   \* sign-in requests an address may send in a window
    Lately,             \* ticks a customer counts as online after a page
    Sampled,            \* sessions the list of online customers looks through
    MaxPasswords        \* bound on the passwords made

Gone   == [row |-> "gone"]
Nobody == 0
NoUser == -1            \* an Agent row without a login, and no Agent row
NoAgent == -2
NoGroup == {"no group"}
NoJob   == [h |-> "idle"]
Never  == -1            \* no temp_password_created_at

Acts      == {"edit"}         \* the actions of the module but for "view"
Ungranted == {"no block"}       \* subtab_permissions without "_actions"

\* What the two set-up commands give the group of each role.
Matrix == [Admin |-> {"counter", "jobs"}, CSR |-> {"counter"}, Technician |-> {"jobs"}, Agent |-> {}]
Rbac   == [CSR |-> {"orders"}, Technician |-> {"orders"}, Agent |-> {}]

Login   == [name : Names, staff : BOOLEAN, super : BOOLEAN, active : BOOLEAN,
            groups : SUBSET Roles]
Mirror  == [name : Names, role : Roles \cup {"Viewer", "Standard"}, status : {"Active", "Inactive"}]
\* ticked is for the properties: the subtabs and actions the editor's form had.
Role    == [open : BOOLEAN, tabs : SUBSET Tabs, acts : (SUBSET Acts) \cup {Ungranted},
            ticked : (SUBSET Tabs) \X (SUBSET Acts)]
Account == [pw : 0 .. MaxPasswords, must : BOOLEAN, temp : Never .. Life + 1]

ASSUME AccessAssumption ==
    /\ Ids \subseteq Nat \ {0} /\ IsFiniteSet(Ids)
    /\ DOMAIN Matrix \subseteq Roles /\ Offered \cup Edited \subseteq Roles
    /\ \A o \in Openings :
          /\ o.login \in [Ids -> Login \cup {Gone}] /\ o.mirror \in [Ids -> Mirror \cup {Gone}]
          /\ o.role \in [Roles -> Role \cup {Gone}] /\ o.account \in [Subscribers -> Account]
          /\ DOMAIN o.group = Roles /\ o.crewman \subseteq Ids
          /\ o.agent \in [Agents -> Ids \cup {NoUser, NoAgent}]
          /\ \A a \in Agents : o.agent[a] \in Ids => o.login[o.agent[a]] # Gone
          /\ o.signedIn \in [Devices -> Subscribers \cup {"nobody"}]
    /\ {Life, MaxTries, LockTime, MaxPosts, Window, Lately, MaxPasswords} \subseteq Nat

VARIABLES
    login,      \* auth_user
    mirror,     \* SystemAdmin
    role,       \* StaffRole, by name
    group,      \* permissions of each auth_group, or NoGroup
    agent,      \* Agent rows: their login, NoUser or NoAgent
    crewman,    \* logins with a Technician row
    answer,     \* "failed" when the last staff form passed its checks and raised
    account,    \* the portal columns of Customer
    told,       \* for the properties: the password a customer was last handed or chose, and its age
    issued,     \* passwords made so far
    tries,      \* failed_attempts of an address and an account: count and time left
    lock,       \* time left on lockout:acc of each account
    posts,      \* ratelimit of each address: count and time left
    signedIn,   \* customer signed in on each device, or "nobody"
    seen,       \* time left on seen_customer
    online,     \* time each entry of active_portal_customers still counts
    job,        \* what the request of each thread has read
    duty        \* the handlers of this behaviour

staffVars  == <<login, mirror, role, group, agent, crewman, answer>>
portalVars == <<account, told, issued>>
doorVars   == <<tries, lock, posts>>
lineVars   == <<signedIn, seen, online>>
accessVars == <<staffVars, portalVars, doorVars, lineVars, job, duty>>

Busy == {t \in Threads : job[t] # NoJob}

\* No request is open beside one of an exclusive handler.
May(h) ==
    /\ h \in duty
    /\ h \in Exclusive => Busy = {}
    /\ \A t \in Busy : job[t].h \notin Exclusive
-----------------------------------------------------------------------------
(* Rows by name *)

Rows(table)     == {i \in Ids : table[i] # Gone}
Called(table, n) == {i \in Rows(table) : table[i].name = n}
TheOne(S)       == IF S = {} THEN Nobody ELSE CHOOSE i \in S : TRUE
FreeIds(table)  == Ids \ Rows(table)
FirstFree(table) == CHOOSE i \in FreeIds(table) : \A k \in FreeIds(table) : i <= k

StatusOf(active) == IF active THEN "Active" ELSE "Inactive"

\* Mutant: the row says Active whatever the login is.
Unsynced(table, u) ==
    IF ~u.super THEN table
    ELSE LET k == TheOne(Called(table, u.name))
         IN  [table EXCEPT ![IF k = Nobody THEN FirstFree(table) ELSE k] =
                 [name |-> u.name, role |-> "Admin", status |-> "Active"]]

\* The post_save signal of a login: a superuser has a mirror row that says Admin.
Synced(table, u) ==
    IF ~u.super THEN table
    ELSE LET k == TheOne(Called(table, u.name))
         IN  [table EXCEPT ![IF k = Nobody THEN FirstFree(table) ELSE k] =
                 [name |-> u.name, role |-> "Admin", status |-> StatusOf(u.active)]]

AgentsOf(i)  == {a \in Agents : agent[a] = i}
RoleOf(i) ==
    LET k == TheOne(Called(mirror, login[i].name))
    IN  CASE login[i].super                         -> "Admin"
          [] ~login[i].super /\ AgentsOf(i) # {} /\ ~login[i].staff -> "Agent"
          [] OTHER -> IF k = Nobody THEN "Viewer" ELSE mirror[k].role

\* role_perms: everything, the row of the role, or nothing.
Everything == [open |-> TRUE, tabs |-> Tabs, acts |-> Acts, ticked |-> <<Tabs, Acts>>]
Nothing    == [open |-> FALSE, tabs |-> {}, acts |-> {}, ticked |-> <<{}, {}>>]
RolePerms(i) ==
    CASE AgentsOf(i) # {} /\ ~login[i].staff -> Nothing
      [] ~(AgentsOf(i) # {} /\ ~login[i].staff) /\ RoleOf(i) = "Admin" -> Everything
      [] OTHER -> IF RoleOf(i) \in Roles /\ role[RoleOf(i)] # Gone
                  THEN role[RoleOf(i)] ELSE Nothing

\* The gates of a page of this module: by subtab and action, by name of the role,
\* and by the permissions of Django.
ActionAllows(i, tab, act) ==
    LET p == RolePerms(i)
    IN  login[i].super \/ (p.open /\ tab \in p.tabs /\ (p.acts = Ungranted \/ act \in p.acts))
ModuleAllows(i, tab) == login[i].super \/ (RolePerms(i).open /\ tab \in RolePerms(i).tabs)
RoleAllows(i, names) ==
    \/ login[i].super \/ RoleOf(i) \in names
    \/ "Admin" \in names /\ RolePerms(i).open
HasPerm(i, p) ==
    /\ login[i].active
    /\ login[i].super \/ \E g \in login[i].groups : group[g] # NoGroup /\ p \in group[g]
DispatchAllows(i, p) ==
    \/ RoleOf(i) = "Admin" \/ HasPerm(i, p)
    \/ RoleOf(i) \in DOMAIN Matrix /\ p \in Matrix[RoleOf(i)]

Landing(i) ==
    CASE login[i].super -> "dashboard"
      [] ~login[i].super /\ (RoleOf(i) = "Agent" \/ AgentsOf(i) # {}) -> "agent portal"
      [] OTHER -> IF RoleOf(i) = "Technician" \/ i \in crewman THEN "field" ELSE "dashboard"
-----------------------------------------------------------------------------
(* The Staff & Admins page *)

Staffing == UNCHANGED <<portalVars, doorVars, lineVars, duty>>

\* The page creates the mirror rows its logins lack.
StaffList ==
    LET shown == {i \in Rows(login) : login[i].staff \/ login[i].super}
        new   == {i \in shown : Called(mirror, login[i].name) = {}}
    IN  /\ May("list")
        /\ \E at \in [new -> FreeIds(mirror)] :
              /\ \A i, k \in new : at[i] = at[k] => i = k
              /\ mirror' = [m \in Ids |->
                    IF \E i \in new : at[i] = m
                    THEN LET u == login[CHOOSE i \in new : at[i] = m]
                         IN  [name |-> u.name, status |-> StatusOf(u.active),
                              role |-> IF u.super THEN "Admin" ELSE "Viewer"]
                    ELSE IF mirror[m] # Gone /\ (\E i \in shown : login[i].super
                                                   /\ login[i].name = mirror[m].name)
                    THEN [mirror[m] EXCEPT !.role = "Admin"] ELSE mirror[m]]
        /\ UNCHANGED <<login, role, group, agent, crewman, answer, job>> /\ Staffing

\* Saving the login of an Admin runs the signal, so that the mirror row that
\* follows is a second one of the same name and the whole transaction fails.
AddStaff(n, r, active) ==
    LET u == [name |-> n, staff |-> TRUE, super |-> r = "Admin", active |-> active,
              groups |-> {r}]
    IN  /\ May("add")
        /\ Called(login, n) = {} /\ Called(mirror, n) = {} /\ role[r] # Gone
        /\ FreeIds(login) # {} /\ FreeIds(mirror) # {}
        /\ IF u.super
           THEN answer' = "failed" /\ UNCHANGED <<login, mirror, group>>
           ELSE /\ answer' = "done"
                /\ login' = [login EXCEPT ![FirstFree(login)] = u]
                /\ mirror' = [mirror EXCEPT ![FirstFree(mirror)] =
                                 [name |-> n, role |-> r, status |-> StatusOf(active)]]
                /\ group' = [group EXCEPT ![r] = IF @ = NoGroup THEN {} ELSE @]
        /\ UNCHANGED <<role, agent, crewman, job>> /\ Staffing

\* The key in the address is one of a mirror row, and when there is none such
\* one of a login, whose mirror row is made when it is missing.
OpenEdit(t, k) ==
    /\ May("edit") /\ job[t] = NoJob
    /\ IF mirror[k] # Gone
       THEN /\ job' = [job EXCEPT ![t] = [h |-> "edit", key |-> k, pk |-> k, row |-> mirror[k]]]
            /\ UNCHANGED mirror
       ELSE /\ login[k] # Gone
            /\ LET m   == TheOne(Called(mirror, login[k].name))
                   new == [name |-> login[k].name, status |-> StatusOf(login[k].active),
                           role |-> IF login[k].super THEN "Admin" ELSE "Standard"]
                   pk  == IF m = Nobody THEN FirstFree(mirror) ELSE m
                   row == IF m = Nobody THEN new ELSE mirror[m]
               IN  /\ mirror' = [mirror EXCEPT ![pk] = row]
                   /\ job' = [job EXCEPT ![t] = [h |-> "edit", key |-> k, pk |-> pk, row |-> row]]
    /\ UNCHANGED <<login, role, group, agent, crewman, answer>> /\ Staffing

\* Mutant: the group is looked up by the role the row had.
GroupsAsBefore(u, was, r) == IF group[was] = NoGroup THEN u.groups ELSE {was}
\* The groups change only when the new role has one.
GroupsAfter(u, was, r) == IF group[r] = NoGroup THEN u.groups ELSE {r}

\* The form writes the login of the name that was read and the whole mirror row.
SaveEdit(t, n, r, status) ==
    LET j     == job[t]
        i     == TheOne(Called(login, j.row.name))
        taken == \/ n # j.row.name /\ Called(login, n) # {}
                 \/ Called(mirror, n) \ {j.key} # {}
        u     == [login[i] EXCEPT !.name = n, !.active = status = "Active", !.super = r = "Admin",
                                  !.groups = GroupsAfter(login[i], j.row.role, r)]
        after == [mirror EXCEPT ![j.pk] = [name |-> n, role |-> r, status |-> status]]
        fails == \/ i # Nobody /\ r = "Admin" /\ Called(mirror, n) = {}
                 \/ Called(mirror, n) \ {j.pk} # {}
    IN  /\ job[t] # NoJob /\ job[t].h = "edit"
        /\ IF taken \/ fails
           THEN /\ answer' = IF taken THEN "done" ELSE "failed"
                /\ UNCHANGED <<login, mirror>>
           ELSE /\ answer' = "done" /\ mirror' = after
                /\ login' = IF i = Nobody THEN login ELSE [login EXCEPT ![i] = u]
        /\ job' = [job EXCEPT ![t] = NoJob]
        /\ UNCHANGED <<role, group, agent, crewman>> /\ Staffing

\* A login that rows of the dispatch system refer to is only switched off.
DeleteStaff(k, held) ==
    LET m    == IF mirror[k] # Gone THEN k
                ELSE IF login[k] # Gone THEN TheOne(Called(mirror, login[k].name)) ELSE Nobody
        name == IF m # Nobody THEN mirror[m].name ELSE login[k].name
        i    == TheOne(Called(login, name))
        off  == [login[i] EXCEPT !.staff = FALSE, !.active = FALSE]
        kept == IF i # Nobody /\ held THEN Synced(mirror, off) ELSE mirror
    IN  /\ May("delete") /\ (mirror[k] # Gone \/ login[k] # Gone)
        /\ i = Nobody => ~held
        /\ login' = IF i = Nobody THEN login
                    ELSE [login EXCEPT ![i] = IF held THEN off ELSE Gone]
        /\ mirror' = IF m = Nobody THEN kept ELSE [kept EXCEPT ![m] = Gone]
        /\ crewman' = crewman \ {i}
        /\ agent' = [a \in Agents |-> IF agent[a] = i /\ ~held THEN NoAgent ELSE agent[a]]
        /\ answer' = "done"
        /\ UNCHANGED <<role, group, job>> /\ Staffing

\* Signing in saves last_login, and with it runs the signal.
StaffSignsIn(i) ==
    /\ May("signin") /\ login[i] # Gone
    /\ login[i].active
    /\ mirror' = Synced(mirror, login[i])
    /\ UNCHANGED <<login, role, group, agent, crewman, answer, job>> /\ Staffing
-----------------------------------------------------------------------------
(* Roles, groups, and the profiles of agents and technicians *)

\* The row a submitted form makes.  With no subtab ticked all are granted, and
\* with no action ticked, in this module or the others, the former block stays.
FromForm(open, tabs, acts, others, prior) ==
    [open   |-> open,
     tabs   |-> IF ~open THEN {} ELSE IF tabs = {} THEN Tabs ELSE tabs,
     acts   |-> IF acts = {} /\ ~others THEN prior ELSE IF open THEN acts ELSE Acts,
     ticked |-> <<tabs, acts>>]

RoleForm == UNCHANGED <<login, mirror, group, agent, crewman, answer, job>> /\ Staffing

CreateRole(r, open, tabs, acts, others) ==
    /\ May("roles") /\ role[r] = Gone
    /\ role' = [role EXCEPT ![r] = FromForm(open, tabs, acts, others, Ungranted)]
    /\ RoleForm

\* Neither the mirror rows nor the groups follow the new name.
EditRole(r, n, open, tabs, acts, others) ==
    /\ May("roles") /\ role[r] # Gone
    /\ n = r \/ (r # "Admin" /\ role[n] = Gone)
    /\ role' = [role EXCEPT ![r] = Gone,
                            ![n] = FromForm(open, tabs, acts, others, role[r].acts)]
    /\ RoleForm

DeleteRole(r) ==
    /\ May("roles") /\ role[r] # Gone /\ r # "Admin"
    /\ role' = [role EXCEPT ![r] = Gone]
    /\ RoleForm

\* Logins join the group of their role; none leaves one.
SetupDispatch ==
    LET joins(i) == IF login[i].super THEN {"Admin"} ELSE {RoleOf(i)} \cap DOMAIN Matrix
    IN  /\ May("setup")
        /\ group' = [g \in Roles |-> IF g \in DOMAIN Matrix THEN Matrix[g] ELSE group[g]]
        /\ login' = [i \in Ids |-> IF login[i] = Gone THEN Gone
                                   ELSE [login[i] EXCEPT !.groups = @ \cup joins(i)]]
        /\ UNCHANGED <<mirror, role, agent, crewman, answer, job>> /\ Staffing

SetupRbac ==
    /\ May("rbac")
    /\ group' = [g \in Roles |-> IF g \in DOMAIN Rbac THEN Rbac[g]
                                 ELSE IF g = "Admin" /\ group[g] = NoGroup THEN {} ELSE group[g]]
    /\ UNCHANGED <<login, mirror, role, agent, crewman, answer, job>> /\ Staffing

AddAgent(a) ==
    /\ May("agent") /\ agent[a] = NoAgent
    /\ agent' = [agent EXCEPT ![a] = NoUser]
    /\ UNCHANGED <<login, mirror, role, group, crewman, answer, job>> /\ Staffing

DeleteAgent(a) ==
    /\ May("agent") /\ agent[a] # NoAgent
    /\ agent' = [agent EXCEPT ![a] = NoAgent]
    /\ UNCHANGED <<login, mirror, role, group, crewman, answer, job>> /\ Staffing

\* An agent without a login takes the one of that name, unless it is of another
\* agent or of the staff; one with a login has it renamed.
SetupAgentLogin(a, n) ==
    LET e     == TheOne(Called(login, n))
        linked == agent[a] # NoUser
        i     == IF linked THEN agent[a] ELSE IF e # Nobody THEN e ELSE FirstFree(login)
        old   == IF login[i] = Gone THEN {} ELSE login[i].groups
    IN  /\ May("agent") /\ agent[a] # NoAgent
        /\ e # Nobody => IF linked THEN e = agent[a]
                         ELSE AgentsOf(e) = {} /\ ~login[e].staff /\ ~login[e].super
        /\ ~linked /\ e = Nobody => FreeIds(login) # {}
        /\ login' = [login EXCEPT ![i] = [name |-> n, staff |-> FALSE, super |-> FALSE,
                                          active |-> TRUE, groups |-> old]]
        /\ agent' = [agent EXCEPT ![a] = i]
        /\ UNCHANGED <<mirror, role, group, crewman, answer, job>> /\ Staffing

ToggleAgentLogin(a) ==
    /\ May("agent") /\ agent[a] \in Ids
    /\ login' = [login EXCEPT ![agent[a]].active = ~@]
    /\ mirror' = Synced(mirror, login'[agent[a]])
    /\ UNCHANGED <<role, group, agent, crewman, answer, job>> /\ Staffing

Lacking(r) == {i \in Rows(login) : RoleOf(i) = r}

\* The profiles made; their logins are switched on and taken off the staff.
Profiled(made, hired) ==
    /\ \E at \in [made -> {a \in Agents : agent[a] = NoAgent}] :
          /\ \A i, k \in made : at[i] = at[k] => i = k
          /\ agent' = [a \in Agents |-> IF \E i \in made : at[i] = a
                                        THEN CHOOSE i \in made : at[i] = a
                                        ELSE agent[a]]
    /\ crewman' = crewman \cup hired
    /\ login' = [i \in Ids |->
          IF i \notin made \cup hired THEN login[i]
          ELSE [login[i] EXCEPT !.staff = FALSE, !.super = FALSE, !.active = TRUE]]

\* A persona without its profile gets one, unless the email or name is taken.
LinkPersonas ==
    /\ May("link")
    /\ \E made \in SUBSET {i \in Lacking("Agent") : AgentsOf(i) = {}},
          hired \in SUBSET (Lacking("Technician") \ crewman) : Profiled(made, hired)
    /\ UNCHANGED <<mirror, role, group, answer, job>> /\ Staffing
-----------------------------------------------------------------------------
(* Portal passwords *)

InPortal == UNCHANGED <<staffVars, doorVars, lineVars, duty>>
Made     == issued < MaxPasswords /\ issued' = issued + 1

Temporary(pw)   == [pw |-> pw, must |-> TRUE, temp |-> 0]
HandedOver(pw)  == [pw |-> pw, own |-> FALSE, age |-> 0]
\* Mutant: the date of the temporary password stays.
ChosenDated(row, pw) == [row EXCEPT !.pw = pw, !.must = FALSE]
Chosen(row, pw)      == [row EXCEPT !.pw = pw, !.must = FALSE, !.temp = Never]

\* The desk's reset is shown on its screen once.
ResetPassword(c) ==
    /\ May("reset") /\ Made
    /\ account' = [account EXCEPT ![c] = Temporary(issued')]
    /\ told' = [told EXCEPT ![c] = HandedOver(issued')]
    /\ UNCHANGED job /\ InPortal

\* When the gateway refuses the message the screen shows the refusal only.
WelcomeSms(c, sent) ==
    /\ May("welcome") /\ Made
    /\ sent \/ "refused" \in duty
    /\ account' = [account EXCEPT ![c] = Temporary(issued')]
    /\ told' = IF sent THEN [told EXCEPT ![c] = HandedOver(issued')] ELSE told
    /\ UNCHANGED job /\ InPortal

OpenChange(t, d) ==
    /\ May("change") /\ job[t] = NoJob /\ signedIn[d] # "nobody"
    /\ account[signedIn[d]].must
    /\ job' = [job EXCEPT ![t] = [h |-> "change", c |-> signedIn[d]]]
    /\ UNCHANGED portalVars /\ InPortal

\* Only the four password columns are saved.
SaveChange(t) ==
    /\ job[t] # NoJob /\ job[t].h = "change"
    /\ Made
    /\ account' = [account EXCEPT ![job[t].c] = Chosen(@, issued')]
    /\ told' = [told EXCEPT ![job[t].c] = [pw |-> issued', own |-> TRUE, age |-> 0]]
    /\ job' = [job EXCEPT ![t] = NoJob]
    /\ InPortal

OpenDesk(t, c) ==
    /\ May("desk") /\ job[t] = NoJob
    /\ job' = [job EXCEPT ![t] = [h |-> "desk", c |-> c, row |-> account[c]]]
    /\ UNCHANGED portalVars /\ InPortal

\* The form of the desk saves the whole row it read.
SaveDesk(t) ==
    /\ job[t] # NoJob /\ job[t].h = "desk"
    /\ account' = [account EXCEPT ![job[t].c] = job[t].row]
    /\ job' = [job EXCEPT ![t] = NoJob]
    /\ UNCHANGED <<told, issued>> /\ InPortal

OpenBulk(t) ==
    /\ May("bulk") /\ job[t] = NoJob
    /\ job' = [job EXCEPT ![t] = [h |-> "bulk", left |-> Subscribers, rows |-> [c \in Subscribers |-> 0]]]
    /\ UNCHANGED portalVars /\ InPortal

BulkReset(t, c) ==
    /\ job[t] # NoJob /\ job[t].h = "bulk" /\ c \in job[t].left
    /\ Made
    /\ account' = [account EXCEPT ![c] = Temporary(issued')]
    /\ job' = [job EXCEPT ![t] = [job[t] EXCEPT !.left = @ \ {c}, !.rows[c] = issued']]
    /\ UNCHANGED told /\ InPortal

\* The file is written after the last row.
BulkFile(t) ==
    /\ job[t] # NoJob /\ job[t].h = "bulk" /\ job[t].left = {}
    /\ told' = [c \in Subscribers |-> HandedOver(job[t].rows[c])]
    /\ job' = [job EXCEPT ![t] = NoJob]
    /\ UNCHANGED <<account, issued>> /\ InPortal

\* The process of a request or command is stopped.
Killed(t) ==
    /\ "kill" \in duty /\ job[t] # NoJob
    /\ job' = [job EXCEPT ![t] = NoJob]
    /\ UNCHANGED portalVars /\ InPortal

Older(n) == IF n \in 0 .. Life THEN n + 1 ELSE n
Day ==
    /\ "days" \in duty /\ Busy = {}
    /\ account' = [c \in Subscribers |-> [account[c] EXCEPT !.temp = Older(@)]]
    /\ told' = [c \in Subscribers |-> [told[c] EXCEPT !.age = Older(@)]]
    /\ UNCHANGED <<issued, job>> /\ InPortal
-----------------------------------------------------------------------------
(* The sign-in page *)

Less(n)    == IF n > 0 THEN n - 1 ELSE 0
Served(ip) == posts[ip].left = 0 \/ posts[ip].n < MaxPosts
Expired(c) == account[c].temp > Life

Counted(ip) ==
    posts' = [posts EXCEPT ![ip] = IF posts[ip].left = 0 THEN [n |-> 1, left |-> Window]
                                   ELSE [posts[ip] EXCEPT !.n = @ + 1]]

\* A failure starts the time of its counter anew; the last one locks the account
\* and is not counted further
\* (its key with the address has the same end, and is left out).
Fails(ip, c) ==
    LET n == IF tries[<<ip, c>>].left = 0 THEN 1
             ELSE IF tries[<<ip, c>>].n < MaxTries THEN tries[<<ip, c>>].n + 1 ELSE MaxTries
    IN  /\ tries' = [tries EXCEPT ![<<ip, c>>] = [n |-> n, left |-> LockTime]]
        /\ lock' = IF n >= MaxTries THEN [lock EXCEPT ![c] = LockTime] ELSE lock
\* Mutant: what is tried while the account is locked is a failure too.
TurnedAwayCounted(ip, c) == Fails(ip, c)
TurnedAway(ip, c)        == UNCHANGED <<tries, lock>>

Clears(ip, c) ==
    /\ tries' = [tries EXCEPT ![<<ip, c>>] = [n |-> 0, left |-> 0]]
    /\ lock' = [lock EXCEPT ![c] = 0]

\* A customer who enters is put on the list when the request ends.
SignIn(t, ip, c, d, right) ==
    /\ May("login") /\ job[t] = NoJob /\ signedIn[d] = "nobody"
    /\ Served(ip) /\ Counted(ip)
    /\ IF lock[c] > 0 THEN TurnedAway(ip, c) ELSE IF right THEN Clears(ip, c) ELSE Fails(ip, c)
    /\ IF lock[c] = 0 /\ right /\ ~Expired(c)
       THEN /\ signedIn' = [signedIn EXCEPT ![d] = c]
            /\ seen' = [seen EXCEPT ![c] = Lately]
            /\ job' = [job EXCEPT ![t] = [h |-> "enter", c |-> c, list |-> online]]
       ELSE UNCHANGED <<signedIn, seen, job>>
    /\ UNCHANGED <<staffVars, portalVars, online, duty>>
-----------------------------------------------------------------------------
(* Who is online: active_portal_customers is read, changed and put back *)

OnLine == UNCHANGED <<staffVars, portalVars, doorVars, duty>>
Ends(t, h) == /\ job[t] # NoJob /\ job[t].h = h
              /\ job' = [job EXCEPT ![t] = NoJob]

Entered(t) ==
    /\ Ends(t, "enter")
    /\ online' = [job[t].list EXCEPT ![job[t].c] = Lately]
    /\ UNCHANGED <<signedIn, seen>> /\ OnLine

OpenPage(t, d) ==
    /\ May("page") /\ job[t] = NoJob /\ signedIn[d] # "nobody"
    /\ job' = [job EXCEPT ![t] = [h |-> "page", c |-> signedIn[d]]]
    /\ UNCHANGED lineVars /\ OnLine

\* The session was read when the request came in.
PageDone(t) ==
    /\ Ends(t, "page")
    /\ seen' = [seen EXCEPT ![job[t].c] = Lately]
    /\ UNCHANGED <<signedIn, online>> /\ OnLine

OpenSignOut(t, d) ==
    /\ May("logout") /\ job[t] = NoJob /\ signedIn[d] # "nobody"
    /\ seen' = [seen EXCEPT ![signedIn[d]] = 0]
    /\ job' = [job EXCEPT ![t] = [h |-> "logout", c |-> signedIn[d], list |-> online]]
    /\ UNCHANGED <<signedIn, online>> /\ OnLine

WithoutEntry(list, c) == [list EXCEPT ![c] = 0]

\* Every session of the customer ends.
SignedOut(t) ==
    /\ Ends(t, "logout")
    /\ online' = WithoutEntry(job[t].list, job[t].c)
    /\ signedIn' = [d \in Devices |-> IF signedIn[d] = job[t].c THEN "nobody" ELSE signedIn[d]]
    /\ UNCHANGED seen /\ OnLine

OpenPoll(t) ==
    /\ May("poll") /\ job[t] = NoJob
    /\ job' = [job EXCEPT ![t] = [h |-> "poll", list |-> online]]
    /\ UNCHANGED lineVars /\ OnLine

\* The entries that no longer count are pruned, in the list as it was read.
Polled(t) ==
    LET kept == [c \in Subscribers |-> IF seen[c] > 0 THEN job[t].list[c] ELSE 0]
    IN  /\ Ends(t, "poll")
        /\ online' = IF kept = job[t].list THEN online ELSE kept
        /\ UNCHANGED <<signedIn, seen>> /\ OnLine

Tick ==
    /\ "clock" \in duty
    /\ tries' = [k \in Ips \X Subscribers |->
                    IF tries[k].left > 1 THEN [tries[k] EXCEPT !.left = @ - 1]
                                         ELSE [n |-> 0, left |-> 0]]
    /\ lock' = [c \in Subscribers |-> Less(lock[c])]
    /\ posts' = [ip \in Ips |-> IF posts[ip].left > 1 THEN [posts[ip] EXCEPT !.left = @ - 1]
                                                      ELSE [n |-> 0, left |-> 0]]
    /\ seen' = [c \in Subscribers |-> Less(seen[c])]
    /\ online' = [c \in Subscribers |-> Less(online[c])]
    /\ job' = [t \in Threads |->
                  IF "list" \in DOMAIN job[t]
                  THEN [job[t] EXCEPT !.list = [c \in Subscribers |-> Less(@[c])]] ELSE job[t]]
    /\ UNCHANGED <<staffVars, portalVars, signedIn, duty>>

\* The page lists a customer with a fresh entry, or a session among those it looks through.
Signed(c)  == {d \in Devices : signedIn[d] = c}
Entry(c)   == online[c] > 0 /\ seen[c] > 0
InUse      == {d \in Devices : signedIn[d] # "nobody"}
Shown(c)   == Entry(c) \/ (Signed(c) # {} /\ seen[c] > 0 /\ Cardinality(InUse) <= Sampled)
-----------------------------------------------------------------------------
AccessInit ==
    /\ duty \in Duties
    /\ \E o \in Openings :
          /\ o.starts \in duty
          /\ account = o.account /\ signedIn = o.signedIn
          /\ login = o.login /\ mirror = o.mirror /\ role = o.role /\ group = o.group
          /\ agent = o.agent /\ crewman = o.crewman
    /\ answer = "done"
    /\ told = [c \in Subscribers |-> HandedOver(0)] /\ issued = 0
    /\ tries = [k \in Ips \X Subscribers |-> [n |-> 0, left |-> 0]]
    /\ lock = [c \in Subscribers |-> 0] /\ posts = [ip \in Ips |-> [n |-> 0, left |-> 0]]
    /\ seen = [c \in Subscribers |-> 0] /\ online = seen
    /\ job = [t \in Threads |-> NoJob]

StaffPage ==
    \/ StaffList
    \/ \E n \in Names, r \in Offered, active \in BOOLEAN : AddStaff(n, r, active)
    \/ \E t \in Threads, k \in Ids : OpenEdit(t, k)
    \/ \E t \in Threads, n \in Names, r \in Offered, status \in {"Active", "Inactive"} :
          SaveEdit(t, n, r, status)
    \/ \E k \in Ids, held \in BOOLEAN : DeleteStaff(k, held)
    \/ \E i \in Ids : StaffSignsIn(i)

RolePage ==
    \E r \in Edited :
        \/ \E open, others \in BOOLEAN, tabs \in SUBSET Tabs, acts \in SUBSET Acts :
              \/ CreateRole(r, open, tabs, acts, others)
              \/ \E n \in Edited : EditRole(r, n, open, tabs, acts, others)
        \/ DeleteRole(r)

Profiles ==
    \/ SetupDispatch \/ SetupRbac \/ LinkPersonas
    \/ \E a \in Agents : AddAgent(a) \/ DeleteAgent(a) \/ ToggleAgentLogin(a)
    \/ \E a \in Agents, n \in Names : SetupAgentLogin(a, n)

Passwords ==
    \/ \E c \in Subscribers : ResetPassword(c) \/ \E sent \in BOOLEAN : WelcomeSms(c, sent)
    \/ \E t \in Threads, d \in Devices : OpenChange(t, d)
    \/ \E t \in Threads, c \in Subscribers : OpenDesk(t, c) \/ BulkReset(t, c)
    \/ \E t \in Threads : SaveChange(t) \/ SaveDesk(t) \/ OpenBulk(t) \/ BulkFile(t) \/ Killed(t)
    \/ Day

Portal ==
    \/ \E t \in Threads, ip \in Ips, c \in Subscribers, d \in Devices, right \in BOOLEAN :
          SignIn(t, ip, c, d, right)
    \/ \E t \in Threads, d \in Devices : OpenPage(t, d) \/ OpenSignOut(t, d)
    \/ \E t \in Threads : Entered(t) \/ PageDone(t) \/ SignedOut(t) \/ OpenPoll(t) \/ Polled(t)
    \/ Tick

AccessNext == StaffPage \/ RolePage \/ Profiles \/ Passwords \/ Portal

AccessSpec == AccessInit /\ [][AccessNext]_accessVars

\* Time goes on; nobody has to do anything.
FairSpec == AccessSpec /\ WF_accessVars(Tick)
-----------------------------------------------------------------------------
(* Properties *)

\* Every row of the Staff & Admins page stands for one login, which is active and
\* a superuser as the row says, whatever names, roles and states the two forms,
\* the signal and the list's own repair have given either side.
MirrorFollows ==
    \A k \in Rows(mirror) :
        \E i \in Rows(login) :
            /\ login[i].name = mirror[k].name
            /\ mirror[k].status = StatusOf(login[i].active)
            /\ (mirror[k].role = "Admin") = login[i].super

\* "Counter operations every Staff/CSR must be able to perform": an active CSR of
\* the page has the Django permission behind them, however often the role of the
\* row changed and the groups were set up again.
CounterCanPay ==
    \A k \in Rows(mirror), i \in Rows(login) :
        mirror[k].name = login[i].name /\ mirror[k].role = "CSR" /\ login[i].active
            => HasPerm(i, "counter")

\* Unless the passwords of all are being made anew, what a customer was handed
\* last, or chose after that, is the stored password; a chosen one opens the portal
\* for ever and a handed one for its days, after which it must be changed.
HandedWorks ==
    (\A t \in Busy : job[t].h # "bulk") =>
        \A c \in Subscribers : told[c].pw > 0 =>
            /\ account[c].pw = told[c].pw
            /\ account[c].must = ~told[c].own
            /\ ((told[c].own \/ told[c].age <= Life) => ~Expired(c))

\* A lock ends and a limited address is served again, whatever is tried meanwhile.
DoorOpens ==
    /\ \A c \in Subscribers : lock[c] > 0 ~> lock[c] = 0
    /\ \A ip \in Ips : ~Served(ip) ~> Served(ip)
=============================================================================
