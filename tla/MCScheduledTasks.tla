--------------------------- MODULE MCScheduledTasks ---------------------------
(***************************************************************************)
(* Small instances of ScheduledTasks for TLC: at most MaxStops stops and   *)
(* crashes of API processes, at most MaxFaults failing statements.         *)
(***************************************************************************)
EXTENDS ScheduledTasks, TLC

CONSTANTS MaxStops, MaxFaults

VARIABLES
    stops,     \* processes stopped or crashed
    faults     \* statements failed, sessions lost

MCInit == Init /\ stops = 0 /\ faults = 0

Stopping == \E p \in Procs : Stop(p) \/ Crash(p)

Faulting == LoseSession \/ \E c \in Calls : Fails(c) \/ FailsEarly(c) \/ UnlockFails(c)

MCNext ==
    \/ stops < MaxStops /\ Stopping /\ stops' = stops + 1 /\ UNCHANGED faults
    \/ faults < MaxFaults /\ Faulting /\ faults' = faults + 1 /\ UNCHANGED stops
    \/ /\ \/ \E p \in Procs :
                \/ Boot(p) \/ Listen(p) \/ Drain(p)
                \/ Interrupt(p) \/ InterruptTask(p) \/ Exit(p)
                \/ \E c \in Calls : Fire(p, c) \/ Trigger(p, c)
                \/ \E a \in Admins : AdminRead(p, a)
          \/ \E c \in Calls : Claim(c) \/ Reread(c) \/ Adapt(c) \/ RunStep(c)
          \/ \E a \in Admins : AdminSelect(a) \/ AdminUpdate(a) \/ AdminJob(a)
          \/ SessionCloses \/ Wait
       /\ UNCHANGED <<stops, faults>>

MCSpec == MCInit /\ [][MCNext]_<<vars, stops, faults>>

MCFairSpec == MCSpec /\ Fairness

Symmetry == Permutations(Procs) \cup Permutations(Calls) \cup Permutations(Admins)
===============================================================================
