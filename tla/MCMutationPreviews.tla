--------------------------- MODULE MCMutationPreviews ---------------------------
(***************************************************************************)
(* Small instances of MutationPreviews for TLC: at most MaxRequests        *)
(* requests begin and at most MaxAborts are rolled back.                   *)
(***************************************************************************)
EXTENDS MutationPreviews, TLC

CONSTANTS MaxRequests, MaxAborts

VARIABLES begun, aborted

\* Two steps, one that needs both, one that needs that one.
MCDeps == <<{}, {}, {1, 2}, {3}>>

MCInit == Init /\ begun = 0 /\ aborted = 0

MCNext ==
    \/ /\ begun < MaxRequests
       /\ \E x \in Sessions : Begin(x)
       /\ begun' = begun + 1
       /\ UNCHANGED aborted
    \/ /\ aborted < MaxAborts
       /\ \E x \in Sessions : Abort(x)
       /\ aborted' = aborted + 1
       /\ UNCHANGED begun
    \/ /\ \/ \E x \in Sessions : Step(x)
          \/ \E p \in Steps : ExpireStale(p) \/ Age(p)
       /\ UNCHANGED <<begun, aborted>>

MCSpec == MCInit /\ [][MCNext]_<<vars, begun, aborted>>

Symmetry == Permutations(Sessions)
================================================================================
