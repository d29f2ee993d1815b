----------------------------- MODULE DemoDataLoads -----------------------------
(***************************************************************************)
(* Sample data in cloud tenants: loads by a loader process, heartbeats,    *)
(* takeovers of what a stopped API process left, and resets of the tenant. *)
(*                                                                         *)
(* The state of a tenant is one key of its row, written by conditional     *)
(* updates only.  A read followed by an update that requires the status,   *)
(* the run and the heartbeat that were read is one step here.              *)
(***************************************************************************)
EXTENDS Naturals, FiniteSets

CONSTANTS
    Tenants,
    Procs,          \* API processes
    Runs,           \* run ids; an id nothing refers to any more may be drawn again
    Nobody,         \* no run, no process
    MaxConcurrent,  \* DEMO_LOAD_MAX_CONCURRENT
    KeepsPace,      \* a living process writes its heartbeats in time
    QuietLoads      \* a loader that ended, or lost its process, writes nothing later

ASSUME LoadsAssumption ==
    /\ MaxConcurrent \in Nat
    /\ KeepsPace \in BOOLEAN
    /\ QuietLoads \in BOOLEAN
    /\ Nobody \notin Runs \cup Procs
    /\ Tenants # {}

VARIABLES
    demo,      \* tenants.metadata.demo of each tenant
    rows,      \* the loads whose rows the tenant holds
    txn,       \* the run whose reset transaction has the tenant's reset lock
    job,       \* what the API process of each run is doing
    loader,    \* the loader process of each run, and whether its writes are done
    flight,    \* the loads with a write request admitted and not ended
    proc,      \* the API processes
    asked      \* whether an administrator asked for a reset since the last load

vars == <<demo, rows, txn, job, loader, flight, proc, asked>>

Status == {"idle", "loading", "loaded", "failed", "resetting"}

\* err: an error_code is stored; fresh: the heartbeat is younger than staleMs.
Demo == [status : Status, run : Runs \cup {Nobody}, err : BOOLEAN, fresh : BOOLEAN]

Idle == [status |-> "idle", run |-> Nobody, err |-> FALSE, fresh |-> FALSE]

\* Who started the work of a run: a load, an administrator's reset, a takeover.
\* err is the error code it settles with, prev the state a failed reset restores.
Job == [pc : {"over", "claim", "loader", "mark", "move", "reset",
              "locked", "purging", "settle", "giveup", "restore"},
        kind : {"load", "asked", "taken"}, proc : Procs \cup {Nobody}, tenant : Tenants,
        err : BOOLEAN, prev : Demo]

NoJob(t) == [pc |-> "over", kind |-> "load", proc |-> Nobody, tenant |-> t,
             err |-> FALSE, prev |-> Idle]

\* randomUUID: a run id that nothing refers to.
Unused ==
    {r \in Runs : /\ job[r].pc = "over" /\ loader[r] = "off" /\ r \notin flight
                  /\ \A t \in Tenants : demo[t].run # r /\ r \notin rows[t] /\ txn[t] # r
                  /\ \A q \in Runs : job[q].prev.run # r}

NewRun == CHOOSE r \in Unused : TRUE

At(r, pc) == job[r].pc = pc
To(r, pc) == job' = [job EXCEPT ![r].pc = pc]
Over(r) == job' = [job EXCEPT ![r] = NoJob(@.tenant)]

\* An update of the tenant's row waits for the row lock of the reset's transaction.
RowLocked(t) == txn[t] \in Runs /\ At(txn[t], "purging")

\* The condition of an update by run r.
Owns(r, statuses) == LET d == demo[job[r].tenant] IN d.run = r /\ d.status \in statuses

--------------------------------------------------------------------------------
(* The load *)

\* load: refused at a stop, in another status, or in a workspace that holds data.
Load(p, t) ==
    LET r == NewRun IN
    /\ proc[p] = "up" /\ Unused # {}
    /\ demo[t].status \in {"idle", "failed"}
    /\ rows[t] = {}
    /\ job' = [job EXCEPT ![r] = [NoJob(t) EXCEPT !.pc = "claim", !.proc = p]]
    /\ UNCHANGED <<demo, rows, txn, loader, flight, proc, asked>>

\* The loads of other tenants that count against the limit.
Live(t) == {u \in Tenants \ {t} : demo[u].status = "loading" /\ demo[u].fresh}

\* Run r gets the load of tenant t, and its process starts the loader: not while it
\* stops, and a start may fail.
StartLoader(t, r) ==
    /\ demo' = [demo EXCEPT ![t] = [status |-> "loading", run |-> r, err |-> FALSE, fresh |-> TRUE]]
    /\ asked' = [asked EXCEPT ![t] = FALSE]
    /\ IF proc[job[r].proc] = "stopping" THEN Over(r) /\ UNCHANGED loader
       ELSE \/ To(r, "loader") /\ loader' = [loader EXCEPT ![r] = "on"]
            \/ To(r, "move") /\ UNCHANGED loader

\* claim: one transaction under a lock of all processes.
Claim(r) ==
    LET t == job[r].tenant IN
    /\ At(r, "claim") /\ ~ RowLocked(t)
    /\ IF Cardinality(Live(t)) < MaxConcurrent /\ demo[t].status \in {"idle", "failed"}
       THEN StartLoader(t, r)
       ELSE Over(r) /\ UNCHANGED <<demo, asked, loader>>
    /\ UNCHANGED <<rows, txn, flight, proc>>

\* A write request of the loader, refused by the tenancy middleware during a reset ...
Request(r) ==
    /\ loader[r] = "on" /\ r \notin flight
    /\ demo[job[r].tenant].status # "resetting"
    /\ flight' = flight \cup {r}
    /\ UNCHANGED <<demo, rows, txn, job, loader, proc, asked>>

\* ... commits in its own transaction, whether the loader still waits for it or not.
Written(r) ==
    /\ r \in flight
    /\ rows' = [rows EXCEPT ![job[r].tenant] = @ \cup {r}]
    /\ flight' = flight \ {r}
    /\ loader' = [loader EXCEPT ![r] = IF @ = "on" THEN "done" ELSE @]
    /\ UNCHANGED <<demo, txn, job, proc, asked>>

\* The loader ends: after all its writes, or with an error (a refused request, the
\* time limit, a request it no longer waits for).
LoaderEnds(r) ==
    /\ loader[r] # "off"
    /\ QuietLoads => r \notin flight
    /\ loader' = [loader EXCEPT ![r] = "off"]
    /\ IF ~ At(r, "loader") THEN UNCHANGED job
       ELSE \/ loader[r] = "done" /\ To(r, "mark")
            \/ To(r, "move")
    /\ UNCHANGED <<demo, rows, txn, flight, proc, asked>>

\* markLoaded, unless the load was taken over.
Mark(r) ==
    LET t == job[r].tenant IN
    /\ At(r, "mark") /\ ~ RowLocked(t)
    /\ demo' = IF Owns(r, {"loading"})
               THEN [demo EXCEPT ![t].status = "loaded", ![t].fresh = FALSE] ELSE demo
    /\ Over(r)
    /\ UNCHANGED <<rows, txn, loader, flight, proc, asked>>

\* A failed load is reset by its own run.
Move(r) ==
    LET t == job[r].tenant IN
    /\ At(r, "move") /\ ~ RowLocked(t)
    /\ IF Owns(r, {"loading"})
       THEN /\ demo' = [demo EXCEPT ![t].status = "resetting", ![t].fresh = TRUE, ![t].err = TRUE]
            /\ job' = [job EXCEPT ![r].pc = "reset", ![r].err = TRUE]
       ELSE Over(r) /\ UNCHANGED demo
    /\ UNCHANGED <<rows, txn, loader, flight, proc, asked>>

--------------------------------------------------------------------------------
(* The reset *)

\* startReset by an administrator.
StartReset(p, t) ==
    LET r == NewRun IN
    /\ proc[p] = "up" /\ Unused # {} /\ ~ RowLocked(t)
    /\ demo[t].status \in {"loaded", "failed"}
    /\ demo' = [demo EXCEPT ![t] = [status |-> "resetting", run |-> r, err |-> FALSE, fresh |-> TRUE]]
    /\ job' = [job EXCEPT ![r] = [NoJob(t) EXCEPT !.pc = "reset", !.kind = "asked", !.proc = p,
                                  !.prev = demo[t]]]
    /\ asked' = [asked EXCEPT ![t] = TRUE]
    /\ UNCHANGED <<rows, txn, loader, flight, proc>>

\* Mutant: the error of a load is not kept by its takeover.
ReconcileClean(p, t) ==
    LET r == NewRun IN
    /\ proc[p] # "down" /\ Unused # {} /\ ~ RowLocked(t)
    /\ demo[t].status \in {"loading", "resetting"} /\ ~ demo[t].fresh
    /\ ~ \E l \in Runs : l = demo[t].run /\ job[l].kind = "load" /\ job[l].proc = p
    /\ demo' = [demo EXCEPT ![t] = [@ EXCEPT !.status = "resetting", !.run = r, !.fresh = TRUE]]
    /\ job' = [job EXCEPT ![r] = [NoJob(t) EXCEPT !.pc = "reset", !.kind = "taken", !.proc = p,
                                  !.err = demo[t].err]]
    /\ UNCHANGED <<rows, txn, loader, flight, proc, asked>>

\* Mutant: what is taken over need not be stale.
ReconcileFresh(p, t) ==
    LET failed == demo[t].status = "loading" \/ demo[t].err
        r == NewRun
    IN
    /\ proc[p] # "down" /\ Unused # {} /\ ~ RowLocked(t)
    /\ demo[t].status \in {"loading", "resetting"}
    /\ ~ \E l \in Runs : l = demo[t].run /\ job[l].kind = "load" /\ job[l].proc = p
    /\ demo' = [demo EXCEPT ![t] = [status |-> "resetting", run |-> r, err |-> failed, fresh |-> TRUE]]
    /\ job' = [job EXCEPT ![r] = [NoJob(t) EXCEPT !.pc = "reset", !.kind = "taken", !.proc = p,
                                  !.err = failed]]
    /\ UNCHANGED <<rows, txn, loader, flight, proc, asked>>

\* Mutant: a takeover leaves the old heartbeat.
ReconcileStale(p, t) ==
    LET failed == demo[t].status = "loading" \/ demo[t].err
        r == NewRun
    IN
    /\ proc[p] # "down" /\ Unused # {} /\ ~ RowLocked(t)
    /\ demo[t].status \in {"loading", "resetting"} /\ ~ demo[t].fresh
    /\ ~ \E l \in Runs : l = demo[t].run /\ job[l].kind = "load" /\ job[l].proc = p
    /\ demo' = [demo EXCEPT ![t] = [status |-> "resetting", run |-> r, err |-> failed, fresh |-> FALSE]]
    /\ job' = [job EXCEPT ![r] = [NoJob(t) EXCEPT !.pc = "reset", !.kind = "taken", !.proc = p,
                                  !.err = failed]]
    /\ UNCHANGED <<rows, txn, loader, flight, proc, asked>>

\* reconcile, of a sweep or of any read of the state: a stale load or reset is taken over,
\* but not by the process that runs the load.
Reconcile(p, t) ==
    LET failed == demo[t].status = "loading" \/ demo[t].err
        r == NewRun
    IN
    /\ proc[p] # "down" /\ Unused # {} /\ ~ RowLocked(t)
    /\ demo[t].status \in {"loading", "resetting"} /\ ~ demo[t].fresh
    /\ ~ \E l \in Runs : l = demo[t].run /\ job[l].kind = "load" /\ job[l].proc = p
    /\ demo' = [demo EXCEPT ![t] = [status |-> "resetting", run |-> r, err |-> failed, fresh |-> TRUE]]
    /\ job' = [job EXCEPT ![r] = [NoJob(t) EXCEPT !.pc = "reset", !.kind = "taken", !.proc = p,
                                  !.err = failed]]
    /\ UNCHANGED <<rows, txn, loader, flight, proc, asked>>

\* TenantResetService.reset: lockTenantReset, or 409 tenant_reset_running, ...
Lock(r) ==
    LET t == job[r].tenant IN
    /\ At(r, "reset")
    /\ IF txn[t] = Nobody THEN txn' = [txn EXCEPT ![t] = r] /\ To(r, "locked")
       ELSE /\ IF job[r].kind = "asked" THEN To(r, "restore") ELSE Over(r)
            /\ UNCHANGED txn
    /\ UNCHANGED <<demo, rows, loader, flight, proc, asked>>

\* ... the tenant's row FOR UPDATE, ...
LockRow(r) ==
    /\ At(r, "locked")
    /\ To(r, "purging")
    /\ UNCHANGED <<demo, rows, txn, loader, flight, proc, asked>>

\* ... and the purge, with the commit.
Purge(r) ==
    LET t == job[r].tenant IN
    /\ At(r, "purging")
    /\ rows' = [rows EXCEPT ![t] = {}]
    /\ txn' = [txn EXCEPT ![t] = Nobody]
    /\ To(r, "settle")
    /\ UNCHANGED <<demo, loader, flight, proc, asked>>

\* The transaction fails and is rolled back.
ResetFails(r) ==
    LET t == job[r].tenant IN
    /\ job[r].pc \in {"reset", "locked", "purging"}
    /\ txn' = [txn EXCEPT ![t] = IF @ = r THEN Nobody ELSE @]
    /\ To(r, IF job[r].kind = "asked" THEN "restore" ELSE "giveup")
    /\ UNCHANGED <<demo, rows, loader, flight, proc, asked>>

\* Mutant: the final state of an older run is written.
SettleAnyway(r) ==
    LET t == job[r].tenant IN
    /\ At(r, "settle") /\ ~ RowLocked(t)
    /\ demo' = IF job[r].err THEN [demo EXCEPT ![t].status = "failed", ![t].fresh = FALSE]
                             ELSE [demo EXCEPT ![t] = Idle]
    /\ Over(r)
    /\ UNCHANGED <<rows, txn, loader, flight, proc, asked>>

\* The final state: failed after a load that failed, idle otherwise.
Settle(r) ==
    LET t == job[r].tenant IN
    /\ At(r, "settle") /\ ~ RowLocked(t)
    /\ demo' = IF ~ Owns(r, {"resetting"}) THEN demo
               ELSE IF job[r].err
                    THEN [demo EXCEPT ![t].status = "failed", ![t].fresh = FALSE, ![t].err = TRUE]
                    ELSE [demo EXCEPT ![t] = Idle]
    /\ Over(r)
    /\ UNCHANGED <<rows, txn, loader, flight, proc, asked>>

\* A reset that failed: reset_failed, ...
GiveUp(r) ==
    LET t == job[r].tenant IN
    /\ At(r, "giveup") /\ ~ RowLocked(t)
    /\ demo' = IF Owns(r, {"resetting"})
               THEN [demo EXCEPT ![t].status = "failed", ![t].fresh = FALSE, ![t].err = TRUE] ELSE demo
    /\ Over(r)
    /\ UNCHANGED <<rows, txn, loader, flight, proc, asked>>

\* ... or, asked for by an administrator, the state it had.
Restore(r) ==
    LET t == job[r].tenant IN
    /\ At(r, "restore") /\ ~ RowLocked(t)
    /\ demo' = IF Owns(r, {"resetting"}) THEN [demo EXCEPT ![t] = job[r].prev] ELSE demo
    /\ Over(r)
    /\ UNCHANGED <<rows, txn, loader, flight, proc, asked>>

\* A statement that moves the state fails, for good: the state is left to a takeover.
StateLost(r) ==
    /\ job[r].pc \in {"claim", "mark", "move", "settle", "giveup", "restore"}
    /\ Over(r)
    /\ UNCHANGED <<demo, rows, txn, loader, flight, proc, asked>>

--------------------------------------------------------------------------------
(* Heartbeats and processes *)

\* The work of run r, of tenant t's current state, goes on.
Beating(t) == \E r \in Runs : r = demo[t].run /\ job[r].pc \notin {"over", "claim"}

\* beat: once a stale heartbeat is written after all.
Beat(t) ==
    /\ Beating(t) /\ ~ RowLocked(t)
    /\ demo[t].status \in {"loading", "resetting"} /\ ~ demo[t].fresh
    /\ demo' = [demo EXCEPT ![t].fresh = TRUE]
    /\ UNCHANGED <<rows, txn, job, loader, flight, proc, asked>>

\* Two minutes without a heartbeat.  A process that keeps pace misses them only behind the
\* row lock of a reset that has something to erase; by then a quiet loader is gone.
GoesStale(t) ==
    /\ demo[t].status \in {"loading", "resetting"} /\ demo[t].fresh
    /\ KeepsPace /\ Beating(t) => RowLocked(t) /\ rows[t] # {}
    /\ QuietLoads => \A r \in Runs : demo[t].run = r => loader[r] = "off" /\ r \notin flight
    /\ demo' = [demo EXCEPT ![t].fresh = FALSE]
    /\ UNCHANGED <<rows, txn, job, loader, flight, proc, asked>>

Boot(p) ==
    /\ proc[p] = "down"
    /\ proc' = [proc EXCEPT ![p] = "up"]
    /\ UNCHANGED <<demo, rows, txn, job, loader, flight, asked>>

\* stop: the loaders of this process are killed, their loads keep their state.
Stop(p) ==
    LET own == {r \in Runs : job[r].proc = p /\ loader[r] # "off"} IN
    /\ proc[p] = "up"
    /\ proc' = [proc EXCEPT ![p] = "stopping"]
    /\ loader' = [r \in Runs |-> IF r \in own THEN "off" ELSE loader[r]]
    /\ job' = [r \in Runs |-> IF r \in own THEN NoJob(job[r].tenant) ELSE job[r]]
    /\ UNCHANGED <<demo, rows, txn, flight, asked>>

\* Process p is gone: its work ends, its transactions are rolled back.
Gone(p) ==
    /\ proc' = [proc EXCEPT ![p] = "down"]
    /\ job' = [r \in Runs |-> IF job[r].proc = p THEN NoJob(job[r].tenant) ELSE job[r]]
    /\ txn' = [t \in Tenants |-> IF \E r \in Runs : r = txn[t] /\ job[r].proc = p
                                 THEN Nobody ELSE txn[t]]
    /\ UNCHANGED <<demo, rows, loader, flight, asked>>

\* At the end of a stop, or in a crash, which leaves a loader behind.
Exit(p) == proc[p] = "stopping" /\ Gone(p)
Crash(p) == proc[p] # "down" /\ Gone(p)

--------------------------------------------------------------------------------
(* The specification *)

Init ==
    /\ demo = [t \in Tenants |-> Idle]
    /\ rows = [t \in Tenants |-> {}]
    /\ txn = [t \in Tenants |-> Nobody]
    /\ job \in {[r \in Runs |-> NoJob(t)] : t \in Tenants}
    /\ loader = [r \in Runs |-> "off"]
    /\ flight = {}
    /\ proc = [p \in Procs |-> "up"]
    /\ asked = [t \in Tenants |-> TRUE]

\* A run goes on: its statements, and the reset's transaction.
RunStep(r) ==
    \/ Claim(r) \/ Mark(r) \/ Move(r)
    \/ Lock(r) \/ LockRow(r) \/ Purge(r) \/ Settle(r) \/ GiveUp(r) \/ Restore(r)

LoaderStep(r) == Request(r) \/ Written(r) \/ LoaderEnds(r)

TakeOver(t) == \E p \in Procs : Reconcile(p, t)

Next ==
    \/ \E t \in Tenants :
        \/ \E p \in Procs : Load(p, t) \/ StartReset(p, t)
        \/ TakeOver(t) \/ Beat(t) \/ GoesStale(t)
    \/ \E r \in Runs : RunStep(r) \/ LoaderStep(r) \/ ResetFails(r) \/ StateLost(r)
    \/ \E p \in Procs : Boot(p) \/ Stop(p) \/ Exit(p) \/ Crash(p)

Spec == Init /\ [][Next]_vars

\* Statements are answered, a loader ends at its time limit, processes stop in time and
\* start again, a heartbeat nobody writes gets old, and the sweep of the lead process
\* takes over what is stale.
Fairness ==
    /\ \A r \in Runs : WF_vars(RunStep(r)) /\ WF_vars(LoaderEnds(r)) /\ WF_vars(Written(r))
    /\ \A t \in Tenants : WF_vars(GoesStale(t)) /\ SF_vars(TakeOver(t))
    /\ \A p \in Procs : WF_vars(Boot(p)) /\ WF_vars(Exit(p))

FairSpec == Spec /\ Fairness

--------------------------------------------------------------------------------
(* Properties *)

\* Every variable has its type; a state that is being changed has the id of a run.
TypeOK ==
    /\ demo \in [Tenants -> Demo]
    /\ rows \in [Tenants -> SUBSET Runs]
    /\ txn \in [Tenants -> Runs \cup {Nobody}]
    /\ job \in [Runs -> Job]
    /\ loader \in [Runs -> {"off", "on", "done"}]
    /\ flight \subseteq Runs
    /\ proc \in [Procs -> {"up", "stopping", "down"}]
    /\ asked \in [Tenants -> BOOLEAN]
    /\ \A t \in Tenants : demo[t].run = Nobody => demo[t].status = "idle"

\* A tenant shown as loaded holds the rows of the load that says so: no takeover, no
\* reset of an earlier run erases them afterwards.
LoadedIsWhole == \A t \in Tenants : demo[t].status = "loaded" => demo[t].run \in rows[t]

\* Where a workspace is shown in its starting state no row of a load is left, and none
\* is still to come: what a reset erased stays erased.
IdleIsEmpty == \A t \in Tenants : demo[t].status = "idle" =>
    rows[t] = {} /\ \A r \in flight : job[r].tenant # t

\* A load that failed, or was left by its process, never ends as if nothing had
\* happened: only a reset an administrator asked for shows the starting state again.
IdleWasAsked == \A t \in Tenants : demo[t].status = "idle" => asked[t]

\* What a loader wrote does not survive the reset that follows its load.  It fails without
\* QuietLoads: a request the middleware admitted commits after the purge.
NothingSurvives == \A r \in Runs : At(r, "settle") => rows[job[r].tenant] = {}

\* Whatever stops, every load and every reset comes to an end.
StateSettles == \A t \in Tenants :
    demo[t].status \in {"loading", "resetting"} ~> demo[t].status \notin {"loading", "resetting"}
================================================================================
