-------------------------- MODULE MCActionExecution --------------------------
(***************************************************************************)
(* Small instances of ActionExecution for TLC: at most MaxReviews reviewer *)
(* requests start and at most MaxCrashes sessions die.  The sweeps are not *)
(* bounded.  The actions without a base are one of the sets in Unread.     *)
(***************************************************************************)
EXTENDS ActionExecution, TLC

CONSTANTS MaxReviews, MaxCrashes, Unread

VARIABLES
    reviews,   \* reviewer requests begun
    crashes    \* sessions killed

MCInit == Init /\ unread \in Unread /\ reviews = 0 /\ crashes = 0

MCNext ==
    \/ /\ reviews < MaxReviews
       /\ \E s \in Sessions : Review(s)
       /\ reviews' = reviews + 1
       /\ UNCHANGED crashes
    \/ /\ crashes < MaxCrashes
       /\ \E s \in Sessions : Crash(s)
       /\ crashes' = crashes + 1
       /\ UNCHANGED reviews
    \/ /\ \/ \E s \in Sessions : Cron(s) \/ Step(s)
          \/ \E a \in Actions : Lapse(a)
          \/ HumanEdit
       /\ UNCHANGED <<reviews, crashes>>

MCSpec == MCInit /\ [][MCNext]_<<vars, reviews, crashes>>

MCFairSpec == MCSpec /\ Fairness

SessionSymmetry == Permutations(Sessions)
=============================================================================
