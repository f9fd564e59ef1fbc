------------------------- MODULE MCDispatchPipeline -------------------------
(* Opening customer rows for TLC, and claims of the documents. *)
EXTENDS DispatchPipeline, TLC

Absent   == [status |-> "new", install |-> "installed", dated |-> FALSE, since |-> FALSE]
Line     == [status |-> "active", install |-> "installed", dated |-> TRUE, since |-> TRUE]
Cutoff   == [status |-> "suspended", install |-> "installed", dated |-> FALSE, since |-> TRUE]
Closed   == [status |-> "active", install |-> "closed_not_installed", dated |-> TRUE, since |-> TRUE]

\* A new applicant, a running line, one whose job was returned, and choices of these.
Applicant  == {Absent}
Subscriber == {Line}
Returned   == {Closed}
Either     == {Absent, Line}
Sides      == {Absent, Cutoff}

\* Threads are alike, and so are technicians; no invariant below names one.
Symmetry == Permutations(Threads) \cup Permutations(Techs)
-----------------------------------------------------------------------------
(* What documents say of this part and the code does not do (README, section
   5): TLC refutes each when it is named in a configuration. *)

\* An installed customer has no open installation ticket (signals.py:33).
InstalledHasNoOpenInstall ==
    Quiet => \A c \in Customers :
        row[c].status # "new" /\ row[c].install = "installed" => OpenInstalls(c, ticket) = {}

\* Returning a job closes the customer only "if applicable": never an installed
\* line (views_tech.py:478).
InstalledIsNotClosed ==
    [][\A c \in Customers : row[c].status # "new" /\ row[c].install = "installed"
                              => row'[c].install # "closed_not_installed"]_vars

\* A customer never has two open installation tickets (dispatch/signals.py:67).
OneOpenInstall == \A c \in Customers : Cardinality(OpenInstalls(c, ticket)) <= 1

\* A customer closed as not installed leaves the lists, the dispatch queue too
\* (docs/SPEC.md, decision 12).
ClosedHasNoOpenInstall ==
    Quiet => \A c \in Customers :
        row[c].install = "closed_not_installed" => OpenInstalls(c, ticket) = {}

\* A job goes back to dispatch only after call attempts (views_tech.py:477).
ReturnedAfterCalls ==
    \A i \in DOMAIN ticket : ticket[i].status = "CANCELLED" => attempts[i] > 0

\* A cancelled ticket is not re-opened (views.py:681).
CancelledStays ==
    [][\A i \in DOMAIN ticket : ticket[i].status = "CANCELLED"
                                  => ticket'[i].status \in {"CANCELLED", "DELETED"}]_vars

\* contact_attempt_count is the number of attempts made (tickets.py:122).
CallsCounted == Quiet => \A i \in DOMAIN ticket : ticket[i].calls = attempts[i]

\* An installation is closed by the final approval of an admin (SPEC.md:3).
InstallsAreSigned ==
    \A i \in DOMAIN ticket :
        ticket[i].kind = "INSTALLATION" /\ ticket[i].status = "APPROVED" => ticket[i].signed

\* Site visits skip QA and the final approval (tickets.py:170).
SiteVisitsSkipApproval ==
    \A i \in DOMAIN ticket : ticket[i].kind = "SITE_VISIT" => ticket[i].status # "QA_PASSED"

\* A due date and an active status never disagree (billing/models.py:348).
ActiveIsDated == \A c \in Customers : row[c].status = "active" => row[c].dated

\* The actor of a stage stays on record (SPEC.md, decision 10).
ActorsStay ==
    [][\A i \in DOMAIN ticket, u \in Users :
          ticket[i].hands[u] # "none" => ticket'[i].hands[u] # "none"]_vars

\* Both records of who is on the job agree (views_queue.py:190).
CrewAgrees == Quiet => \A i \in DOMAIN ticket : crew[i] = CurrentTechs(i)

\* A row closed off by a hand-over is not current again (tickets.py:331).
RelievedStayRelieved ==
    \A i \in DOMAIN ticket : \A x \in seats[i] : x.replacedBy # "nobody" => ~x.current

\* No technician replaces themselves (views_handover.py:174).
NobodyReplacesThemselves ==
    \A i \in DOMAIN ticket : \A x \in seats[i] : x.replacedBy # x.tech

\* Re-opening the onboarding generates a job order (views_approval.py:536).
ReopenedHasJob ==
    Quiet => \A c \in Customers :
        row[c].install = "pending_installation" => OpenInstalls(c, ticket) # {}
=============================================================================
