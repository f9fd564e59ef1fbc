---------------------------- MODULE MCCignalPlay ----------------------------
(* Symmetry for TLC, and claims of the documents. *)
EXTENDS CignalPlay, TLC

\* With and without a box, with and without a first payment.
MCOffers == {<<"none", "399", 1>>, <<"installment", "149", 0>>}

\* A load, an installment, both, a cashout and an amount that says by itself what
\* it is for.
MCPayments == {<<"load", 1>>, <<"box", 2>>, <<"", 2>>, <<"", 3>>, <<"", 4>>}

\* A count set back, the date and the number taken away with a cashout, a date typed.
MCCorrections == {<<"installment", 0, Kept, TRUE>>, <<"cashout", Kept, NoDate, FALSE>>,
                  <<"installment", Kept, 2, TRUE>>}

\* Threads and customers are alike.
Symmetry == Permutations(Threads) \cup Permutations(Customers)
-----------------------------------------------------------------------------
(* What documents say of this part and the code does not do (README, section
   5): TLC refutes each when it is named in a configuration. *)

\* A purge is permanent (cignal_dashboard.py:591).
PurgedStaysGone ==
    [][\A i \in DOMAIN play : play[i].st = "gone" => play'[i].st = "gone"]_vars

\* A request that was cancelled is deleted (cignal_dashboard.py:660).
WithdrawnStaysGone ==
    [][\A r \in DOMAIN request : request[r].st = "deleted" => request'[r].st = "deleted"]_vars

\* One application makes one subscription (services.py:642).
AnsweredOnce ==
    \A i, j \in DOMAIN play : play[i].from = play[j].from /\ play[i].from # 0 => i = j

\* No legacy number without a plan (cignal_dashboard.py:531).
NumberHasPlan == Busy = {} => \A c \in number : Live(c) # {}
=============================================================================
