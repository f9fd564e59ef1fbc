------------------------ MODULE MCCustomerAccount ------------------------
(* Small tables for TLC: a two-unit plan and a four-unit GIMI plan. *)
EXTENDS CustomerAccount, TLC

CONSTANTS ana, ben, basic, gimi

MCPrice == [p \in Plans |-> IF p = gimi THEN 4 ELSE 2]
MCGimi  == {gimi} \cap Plans

Fresh(st, d, b) == [status |-> st, expires |-> d, balance |-> b, plan |-> basic]

\* Running, lapsed with debt, cut off, and never paid.
Mixed     == {Fresh("active", 2, 0), Fresh("expired", 0, 1),
              Fresh("suspended", NoDate, 0), Fresh("pending", NoDate, 0)}
\* Running or just lapsed, with and without a month of credit in the wallet.
Credits   == {Fresh("active", 0, 0), Fresh("active", 0, -2), Fresh("active", 1, -3)}
Running   == {Fresh("active", 1, 0)}
\* A line due today with two months of credit, and a cut one with debt.
Books     == {Fresh("active", 0, -2), Fresh("expired", 0, 1)}
Pairs     == {Fresh("active", 2, 0), Fresh("expired", 0, 1)}
Wallets   == {Fresh("active", 0, -2), Fresh("active", 0, 0)}
Lapsed    == {Fresh("active", 0, 0)}
Suspended == {Fresh("suspended", NoDate, 0)}

\* Threads are alike; no property names one.
Symmetry == Permutations(Staff)
-------------------------------------------------------------------------
(* What comments say of the account and the code does not do (README, section
   5): TLC refutes each when it is named in a configuration. *)

\* awaiting_first_payment: "so a due date and an active status can never disagree".
ActiveHasDueDate ==
    \A c \in Customers : row[c].status = "active" => row[c].expires # NoDate

\* The Payment rows of a customer, and the last of them.
Dated(c)    == {k \in DOMAIN receipts : receipts[k].cust = c}
LastOf(S)   == CHOOSE k \in S : \A m \in S : m <= k

\* pay_customer_view: "Money handed over at the counter is real and is
\* recorded; only the router write waits."  A month that a Payment row shows as
\* paid is not erased from the account.
PaidMonthStays ==
    \A c \in Customers : Dated(c) # {} /\ Future(receipts[LastOf(Dated(c))].expires)
                             => row[c].expires # NoDate

\* auto_suspend takes "customers where expiration date is in the past": the run
\* never cuts an account whose due date is in the future when it is cut.
CutsOnlyPastDue ==
    [][\A c \in Customers : row[c].status = "active" /\ row'[c].status = "suspended"
          => Past(row[c].expires)]_vars
=============================================================================
