---------------------------- MODULE ActionContract ----------------------------
(***************************************************************************)
(* What the approval lifecycle promises about the proposals on one ticket: *)
(* a proposal is decided while it is under review, the ticket is written   *)
(* for it only while it is approved, and an outcome is final.  It is       *)
(* written at most once, as long as nothing is written for a proposal that *)
(* is not checked against the ticket it was made for.  One database        *)
(* transaction may move many proposals.                                    *)
(***************************************************************************)
EXTENDS Naturals

CONSTANT Actions

VARIABLES
    status,    \* what reviewers see of each proposal
    unchecked, \* proposals whose ticket may have changed unnoticed
    written    \* how often the ticket was written for each (0, 1, 2 = more)

vars == <<status, unchecked, written>>

\* The moves of a proposal in one transaction.
Moves ==
    {<<"pending", o>> : o \in {"approved", "rejected", "dismissed", "expired"}}
    \cup {<<"approved", o>> : o \in {"executed", "rejected", "dismissed", "expired"}}

Init ==
    /\ status = [a \in Actions |-> "pending"]
    /\ unchecked \in SUBSET Actions
    /\ written = [a \in Actions |-> 0]

\* Every write so far was made for a proposal that was checked.
Guarded == \A b \in unchecked : written[b] = 0

\* The provider applies the write of an approved proposal.
Write(a) ==
    /\ status[a] = "approved"
    /\ (Guarded /\ a \notin unchecked) => written[a] = 0
    /\ written' = [written EXCEPT ![a] = IF @ < 2 THEN @ + 1 ELSE @]
    /\ UNCHANGED <<status, unchecked>>

\* A transaction commits: only what was written becomes executed.
Move(new) ==
    /\ \A a \in Actions :
        \/ new[a] = status[a]
        \/ /\ <<status[a], new[a]>> \in Moves
           /\ new[a] = "executed" => written[a] > 0
    /\ status' = new
    /\ UNCHANGED <<unchecked, written>>

Next ==
    \/ \E a \in Actions : Write(a)
    \/ \E new \in [Actions -> {"pending", "approved", "executed",
                               "rejected", "dismissed", "expired"}] : Move(new)

Spec == Init /\ [][Next]_vars
===============================================================================
