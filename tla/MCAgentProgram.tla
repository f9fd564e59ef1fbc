--------------------------- MODULE MCAgentProgram ---------------------------
(* Symmetry for TLC, and claims of the documents. *)
EXTENDS AgentProgram, TLC

\* Threads, agents and phone numbers are alike.
Symmetry == Permutations(Threads) \cup Permutations(Agents) \cup Permutations(Phones)
-----------------------------------------------------------------------------
(* What documents say of this part and the code does not do (README, section
   5): TLC refutes each when it is named in a configuration. *)

\* A converted referral stays converted (crud.py:290).
ConvertedStays ==
    [][\A i \in DOMAIN referral :
          referral[i].status = "converted" => referral'[i].status = "converted"]_vars

\* A declined referral becomes a customer only after a new reopening (crud.py:295).
DeclinedIsNotConverted ==
    [][\A i \in DOMAIN referral :
          referral[i].status = "declined" => referral'[i].status # "converted"]_vars

\* No edit by the agent once staff has opened the referral (agents.py:143).
OpenedIsLocked ==
    [][\A i \in DOMAIN referral : referral[i].opened => referral'[i].opened]_vars

\* No two customers have one phone number (crud.py:148).
PhonesUnique ==
    \A c, d \in DOMAIN customer : customer[c].phone = customer[d].phone => c = d

\* A customer earns one agent a commission, not two (SPEC.md, decision 7).
OneAgentPerCustomer ==
    \A i, j \in DOMAIN event : event[i].cust = event[j].cust => i = j

\* What was revoked is not paid (incentives.py:57).
RevokedIsNotPaid ==
    [][\A e \in DOMAIN event : event[e].status = "revoked" => event'[e].status # "paid_out"]_vars

\* A commission is unearned when its payment is (incentives.py:57).
EarnedStaysEarned ==
    Quiet => \A e \in DOMAIN event :
        event[e].status = "qualified" /\ event[e].agent = AgentOf(event[e].cust)
            => paid[event[e].cust] >= Threshold
=============================================================================
