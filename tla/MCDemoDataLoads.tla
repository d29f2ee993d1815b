---------------------------- MODULE MCDemoDataLoads ----------------------------
(***************************************************************************)
(* Small instances of DemoDataLoads for TLC: at most MaxTroubles stops and *)
(* crashes of API processes and failing statements.  Loads, resets and     *)
(* takeovers are not bounded.                                              *)
(***************************************************************************)
EXTENDS DemoDataLoads, TLC

CONSTANTS MaxTroubles

VARIABLES
    troubles   \* processes stopped or crashed, resets failed, state changes lost

MCInit == Init /\ troubles = 0

MCNext ==
    \/ /\ troubles < MaxTroubles
       /\ \/ \E p \in Procs : Stop(p) \/ Crash(p)
          \/ \E r \in Runs : ResetFails(r) \/ StateLost(r)
       /\ troubles' = troubles + 1
    \/ /\ \/ \E t \in Tenants :
                \/ \E p \in Procs : Load(p, t) \/ StartReset(p, t)
                \/ TakeOver(t) \/ Beat(t) \/ GoesStale(t)
          \/ \E r \in Runs : RunStep(r) \/ LoaderStep(r)
          \/ \E p \in Procs : Boot(p) \/ Exit(p)
       /\ UNCHANGED troubles

MCSpec == MCInit /\ [][MCNext]_<<vars, troubles>>

MCFairSpec == MCSpec /\ Fairness

================================================================================
