----------------------------- MODULE ScheduledTasks -----------------------------
(***************************************************************************)
(* One scheduled task of the backend, in every API process (API_WORKERS):  *)
(* each process has a cron job for it, the processes compete for each tick *)
(* in scheduled_tasks.last_tick_at, and a run takes the task's session     *)
(* advisory lock.  The administrators' console starts runs by hand and     *)
(* changes the task; processes start, stop (SIGTERM) and crash.            *)
(*                                                                         *)
(* A statement and what the process does with its answer are two steps: in *)
(* between, every other process, call and request may move.                *)
(***************************************************************************)
EXTENDS RowStore

CONSTANTS
    Procs,          \* API processes
    Calls,          \* cron callbacks and executeTask calls, each used once
    Nobody,         \* the owner of a free lock, the process of an unused call
    Admins,         \* updateTask requests, each used once
    Crons,          \* cron expressions, as their periods
    MaxTime,        \* bound: the last instant
    Hour, Day,      \* the age of a stale run, the reach of a clock set back
    KeepsSession    \* the lock's database session lasts as long as its run

ASSUME ClockAssumption ==
    /\ Crons \subseteq Nat \ {0}
    /\ Crons # {}
    /\ MaxTime \in Nat
    /\ Hour \in Nat
    /\ Day \in Nat

ASSUME NamesAssumption ==
    /\ Nobody \notin Calls \cup Procs
    /\ KeepsSession \in BOOLEAN

NoJob == 0

VARIABLES
    now,       \* the clock
    task,      \* the row of scheduled_tasks
    run,       \* the row of scheduled_task_runs of each call
    lock,      \* the call whose session holds the advisory lock
    leaked,    \* that session went back to the pool with the lock
    proc,      \* the API processes
    call,      \* what each call is doing
    adm,       \* what each updateTask request is doing
    claimed    \* how often each tick has been claimed (0, 1, 2 = more)

tables == <<task, run, lock, leaked, claimed>>
vars == <<now, tables, proc, call, adm>>

Time == 0 .. MaxTime

\* The first instant after t at which the cron fires.
NextDate(cron, t) == (t \div cron + 1) * cron

\* Ticks that may be stored: up to two days ahead, where a clock was wrong.
Ticks == 0 .. MaxTime + 2 * Day

Task == [enabled : BOOLEAN, cron : Crons, tick : Ticks,
         status : {"none", "running", "success", "failure"}, ranAt : Time]

Outcomes == {"success", "failure"}

Run == [status : {"none", "running"} \cup Outcomes, at : Time]

Alive == {"up", "stopping", "draining", "interrupting", "closing"}

\* A process has a cron job (job) and its coming tick (next).
Process == [state : Alive \cup {"down", "boot"}, job : Crons \cup {NoJob}, next : Nat]

Off == [state |-> "down", job |-> NoJob, next |-> 0]

\* A call has its tick and the cron that fired it, the time its run started, the
\* stored cron as it read it again, and the outcome of its handler.
Call == [pc : {"unused", "claim", "reread", "adapt", "enter", "stale", "staletask", "lock",
               "insert", "register", "mark", "handler", "record", "status", "unlock", "over"},
         proc : Procs \cup {Nobody}, cron : Crons \cup {NoJob}, tick : Ticks,
         start : Time, seen : Crons \cup {NoJob}, outcome : Outcomes]

Unused == [pc |-> "unused", proc |-> Nobody, cron |-> NoJob, tick |-> 0,
           start |-> 0, seen |-> NoJob, outcome |-> "success"]

\* A request has its patched entity and the columns its save writes.
Request == [pc : {"unused", "select", "update", "job", "over"}, proc : Procs \cup {Nobody},
            ent : Task, cols : SUBSET {"enabled", "cron", "tick", "status", "ranAt"}]

\* createCronJob: replaces the job of process x.
CreateCronJob(x, cron) == [x EXCEPT !.job = cron, !.next = NextDate(cron, now)]
DeleteCronJob(x) == [x EXCEPT !.job = NoJob]

\* What a process finds stored: the cron of an enabled task.
Stored == IF task.enabled THEN task.cron ELSE NoJob

--------------------------------------------------------------------------------
(* API processes *)

\* onApplicationBootstrap reads the task, then schedules it.
Boot(p) ==
    /\ proc[p].state = "down"
    /\ proc' = [proc EXCEPT ![p] = [state |-> "boot", job |-> Stored, next |-> 0]]
    /\ UNCHANGED <<now, tables, call, adm>>

Listen(p) ==
    /\ proc[p].state = "boot"
    /\ LET x == [proc[p] EXCEPT !.state = "up"]
       IN  proc' = [proc EXCEPT ![p] = IF x.job = NoJob THEN x ELSE CreateCronJob(x, x.job)]
    /\ UNCHANGED <<now, tables, call, adm>>

\* SIGTERM: the cron jobs stop, the requests in flight go on.
Stop(p) ==
    /\ proc[p].state = "up"
    /\ proc' = [proc EXCEPT ![p] = DeleteCronJob([@ EXCEPT !.state = "stopping"])]
    /\ UNCHANGED <<now, tables, call, adm>>

\* drain: no run starts any more ...
Drain(p) ==
    /\ proc[p].state = "stopping"
    /\ proc' = [proc EXCEPT ![p].state = "draining"]
    /\ UNCHANGED <<now, tables, call, adm>>

\* The calls of process p between activeRuns.set and activeRuns.delete.
ActiveRuns(p) ==
    {c \in Calls : call[c].proc = p /\ call[c].pc \in {"mark", "handler", "record", "status"}}

\* Mutant: a status no reader knows.
InterruptNamed(p) ==
    /\ proc[p].state = "draining"
    /\ run' = [c \in Calls |-> IF c \in ActiveRuns(p) /\ run[c].status = "running"
                               THEN [run[c] EXCEPT !.status = "interrupted"] ELSE run[c]]
    /\ proc' = [proc EXCEPT ![p].state = "interrupting"]
    /\ UNCHANGED <<now, task, lock, leaked, claimed, call, adm>>

\* ... and at the deadline, or once no call is left, the active runs are recorded as
\* interrupted, then the task is.
Interrupt(p) ==
    /\ proc[p].state = "draining"
    /\ run' = [c \in Calls |-> IF c \in ActiveRuns(p) /\ run[c].status = "running"
                               THEN [run[c] EXCEPT !.status = "failure"] ELSE run[c]]
    /\ proc' = [proc EXCEPT ![p].state = IF ActiveRuns(p) = {} THEN "closing" ELSE "interrupting"]
    /\ UNCHANGED <<now, task, lock, leaked, claimed, call, adm>>

InterruptTask(p) ==
    /\ proc[p].state = "interrupting"
    /\ task' = [task EXCEPT !.status = IF @ = "running" THEN "failure" ELSE @]
    /\ proc' = [proc EXCEPT ![p].state = "closing"]
    /\ UNCHANGED <<now, run, lock, leaked, claimed, call, adm>>

\* Process p is gone, and with it its calls, its requests and its session's lock.
Gone(p) ==
    /\ proc' = [proc EXCEPT ![p] = Off]
    /\ call' = [c \in Calls |-> IF call[c].proc = p /\ call[c].pc # "unused"
                                THEN [call[c] EXCEPT !.pc = "over"] ELSE call[c]]
    /\ adm' = [a \in Admins |-> IF adm[a].proc = p /\ adm[a].pc # "unused"
                                THEN [adm[a] EXCEPT !.pc = "over"] ELSE adm[a]]
    /\ IF lock \in Calls /\ call[lock].proc = p
       THEN lock' = Nobody /\ leaked' = FALSE
       ELSE UNCHANGED <<lock, leaked>>
    /\ UNCHANGED <<now, task, run, claimed>>

Exit(p) == proc[p].state = "closing" /\ Gone(p)
Crash(p) == proc[p].state # "down" /\ Gone(p)

--------------------------------------------------------------------------------
(* Cron ticks *)

At(c, pc) == call[c].pc = pc

\* Call c moves on to pc.
To(c, pc) == call' = [call EXCEPT ![c].pc = pc]

\* The cron job of process p fires: its tick is the scheduled time, however late.
Fire(p, c) ==
    /\ At(c, "unused")
    /\ proc[p].state \in Alive
    /\ proc[p].job # NoJob
    /\ now >= proc[p].next
    /\ call' = [call EXCEPT ![c] = [@ EXCEPT !.pc = "claim", !.proc = p,
                                             !.cron = proc[p].job, !.tick = proc[p].next]]
    /\ proc' = [proc EXCEPT ![p].next = NextDate(proc[p].job, now)]
    /\ UNCHANGED <<now, tables, adm>>

\* Mutant: a tick may be claimed again.
ClaimableAgain(c) ==
    /\ Stored = call[c].cron
    /\ task.tick <= call[c].tick \/ task.tick > now + Day

\* The tick of call c is new, for the task as it is stored.
Claimable(c) ==
    /\ Stored = call[c].cron
    /\ task.tick < call[c].tick \/ task.tick > now + Day

\* claimTick: one conditional update ...
Claim(c) ==
    /\ At(c, "claim")
    /\ IF Claimable(c)
       THEN /\ task' = [task EXCEPT !.tick = call[c].tick]
            /\ claimed' = [claimed EXCEPT ![call[c].tick] = IF @ < 2 THEN @ + 1 ELSE @]
            /\ To(c, "enter")
       ELSE /\ To(c, "reread")
            /\ UNCHANGED <<task, claimed>>
    /\ UNCHANGED <<now, run, lock, leaked, proc, adm>>

\* ... and when the tick was not won, the task is read again, ...
Reread(c) ==
    /\ At(c, "reread")
    /\ call' = [call EXCEPT ![c] = [@ EXCEPT !.pc = "adapt", !.seen = Stored]]
    /\ UNCHANGED <<now, tables, proc, adm>>

\* ... and the process follows a change made through another one.
Adapt(c) ==
    /\ At(c, "adapt")
    /\ LET x == proc[call[c].proc]
       IN  proc' = [proc EXCEPT ![call[c].proc] =
                        CASE call[c].seen = NoJob -> DeleteCronJob(x)
                          [] call[c].seen = call[c].cron -> x
                          [] OTHER -> CreateCronJob(x, call[c].seen)]
    /\ To(c, "over")
    /\ UNCHANGED <<now, tables, adm>>

--------------------------------------------------------------------------------
(* executeTask *)

\* An administrator starts a run by hand, or the process its startup task.
Trigger(p, c) ==
    /\ At(c, "unused")
    /\ proc[p].state = "up"
    /\ call' = [call EXCEPT ![c] = [@ EXCEPT !.pc = "enter", !.proc = p]]
    /\ UNCHANGED <<now, tables, proc, adm>>

\* No run starts in a process that drains.
Enter(c) ==
    /\ At(c, "enter")
    /\ call' = [call EXCEPT ![c] = IF proc[call[c].proc].state \in {"up", "stopping"}
                                   THEN [@ EXCEPT !.pc = "stale", !.start = now]
                                   ELSE [@ EXCEPT !.pc = "over"]]
    /\ UNCHANGED <<now, tables, proc, adm>>

IsOld(t) == t + Hour < now

\* Mutant: the stale check fails every old run.
FailEveryOld(c) ==
    /\ At(c, "stale")
    /\ run' = [d \in Calls |-> IF run[d].status # "none" /\ IsOld(run[d].at)
                               THEN [run[d] EXCEPT !.status = "failure"] ELSE run[d]]
    /\ To(c, "staletask")
    /\ UNCHANGED <<now, task, lock, leaked, claimed, proc, adm>>

\* Runs still running after an hour are recorded as failed, then the task is.
FailStale(c) ==
    /\ At(c, "stale")
    /\ run' = [d \in Calls |-> IF run[d].status = "running" /\ IsOld(run[d].at)
                               THEN [run[d] EXCEPT !.status = "failure"] ELSE run[d]]
    /\ To(c, "staletask")
    /\ UNCHANGED <<now, task, lock, leaked, claimed, proc, adm>>

FailStaleTask(c) ==
    /\ At(c, "staletask")
    /\ task' = [task EXCEPT !.status = IF @ = "running" /\ IsOld(task.ranAt) THEN "failure" ELSE @]
    /\ To(c, "lock")
    /\ UNCHANGED <<now, run, lock, leaked, claimed, proc, adm>>

\* Mutant: the answer of pg_try_advisory_lock is ignored.
LockAnyway(c) ==
    /\ At(c, "lock")
    /\ lock' = IF lock = Nobody THEN c ELSE lock
    /\ To(c, "insert")
    /\ UNCHANGED <<now, task, run, leaked, claimed, proc, adm>>

\* Call c runs on the pooled session that kept the lock: a session may take it again.
Reuses(c) == leaked /\ At(lock, "over") /\ call[lock].proc = call[c].proc

\* pg_try_advisory_lock: a run that finds the lock taken is skipped.
TryLock(c) ==
    /\ At(c, "lock")
    /\ \/ (lock = Nobody \/ Reuses(c)) /\ lock' = c /\ To(c, "insert")
       \/ lock # Nobody /\ To(c, "over") /\ UNCHANGED lock
    /\ UNCHANGED <<now, task, run, leaked, claimed, proc, adm>>

\* runLocked: the run's row, ...
Insert(c) ==
    /\ At(c, "insert")
    /\ run' = [run EXCEPT ![c] = [status |-> "running", at |-> call[c].start]]
    /\ To(c, "register")
    /\ UNCHANGED <<now, task, lock, leaked, claimed, proc, adm>>

\* ... activeRuns.set, and runRecorded starts with the task's row, ...
Register(c) ==
    /\ At(c, "register")
    /\ To(c, "mark")
    /\ UNCHANGED <<now, tables, proc, adm>>

Mark(c) ==
    /\ At(c, "mark")
    /\ task' = [task EXCEPT !.status = "running", !.ranAt = call[c].start]
    /\ To(c, "handler")
    /\ UNCHANGED <<now, run, lock, leaked, claimed, proc, adm>>

\* ... the handler runs, for as long as it takes, ...
Handle(c) ==
    /\ At(c, "handler")
    /\ \E o \in Outcomes : call' = [call EXCEPT ![c] = [@ EXCEPT !.pc = "record", !.outcome = o]]
    /\ UNCHANGED <<now, tables, proc, adm>>

\* ... and its outcome is recorded on the run, then on the task.
Record(c) ==
    /\ At(c, "record")
    /\ run' = [run EXCEPT ![c].status = call[c].outcome]
    /\ To(c, "status")
    /\ UNCHANGED <<now, task, lock, leaked, claimed, proc, adm>>

RecordTask(c) ==
    /\ At(c, "status")
    /\ task' = [task EXCEPT !.status = call[c].outcome]
    /\ To(c, "unlock")
    /\ UNCHANGED <<now, run, lock, leaked, claimed, proc, adm>>

\* pg_advisory_unlock: what its session holds twice, it still holds.
Unlock(c) ==
    /\ At(c, "unlock")
    /\ lock' = IF lock = c /\ ~ leaked THEN Nobody ELSE lock
    /\ To(c, "over")
    /\ UNCHANGED <<now, task, run, leaked, claimed, proc, adm>>

\* Mutant: no finally around runLocked.
FailsLocked(c) ==
    /\ call[c].pc \in {"insert", "mark", "record", "status"}
    /\ To(c, "over")
    /\ UNCHANGED <<now, tables, proc, adm>>

\* A statement of the run fails.  With the handler's outcome success that is caught,
\* and recorded as the run's failure; otherwise the lock is released.
Fails(c) ==
    /\ call[c].pc \in {"insert", "mark", "record", "status"}
    /\ call' = [call EXCEPT ![c] =
                    IF @.pc \in {"record", "status"} /\ @.outcome = "success"
                    THEN [@ EXCEPT !.pc = "record", !.outcome = "failure"]
                    ELSE [@ EXCEPT !.pc = "unlock"]]
    /\ UNCHANGED <<now, tables, proc, adm>>

\* A statement before the lock fails, and the call with it.
FailsEarly(c) ==
    /\ call[c].pc \in {"claim", "reread", "stale", "staletask", "lock"}
    /\ To(c, "over")
    /\ UNCHANGED <<now, tables, proc, adm>>

\* The unlock statement fails, which nobody notices, and the session goes back to the
\* pool with the lock.
UnlockFails(c) ==
    /\ At(c, "unlock")
    /\ leaked' = (leaked \/ lock = c)
    /\ To(c, "over")
    /\ UNCHANGED <<now, task, run, lock, claimed, proc, adm>>

\* The pool or the database closes a session that kept the lock and is not in use.
SessionCloses ==
    /\ leaked /\ At(lock, "over")
    /\ lock' = Nobody
    /\ leaked' = FALSE
    /\ UNCHANGED <<now, task, run, claimed, proc, call, adm>>

\* The database ends the session that holds the lock; the run goes on without it.
LoseSession ==
    /\ ~ KeepsSession
    /\ lock # Nobody
    /\ lock' = Nobody
    /\ leaked' = FALSE
    /\ UNCHANGED <<now, task, run, claimed, proc, call, adm>>

--------------------------------------------------------------------------------
(* PATCH admin/scheduled-tasks/:name *)

\* updateTask in process p reads the task and patches the entity, ...
AdminRead(p, a) ==
    /\ adm[a].pc = "unused"
    /\ proc[p].state = "up"
    /\ \E b \in BOOLEAN, c \in Crons :
        /\ b = task.enabled \/ c = task.cron
        /\ adm' = [adm EXCEPT ![a] = [@ EXCEPT !.pc = "select", !.proc = p,
                        !.ent = [task EXCEPT !.enabled = b, !.cron = c]]]
    /\ UNCHANGED <<now, tables, proc, call>>

\* ... saves it: the columns in which it differs from a new read are written, ...
AdminSelect(a) ==
    /\ adm[a].pc = "select"
    /\ adm' = [adm EXCEPT ![a] = [@ EXCEPT !.pc = "update",
                                           !.cols = DirtyColumns(DOMAIN task, adm[a].ent, task)]]
    /\ UNCHANGED <<now, tables, proc, call>>

AdminUpdate(a) ==
    /\ adm[a].pc = "update"
    /\ task' = Overwrite(task, adm[a].ent, adm[a].cols)
    /\ adm' = [adm EXCEPT ![a].pc = "job"]
    /\ UNCHANGED <<now, run, lock, leaked, claimed, proc, call>>

\* ... and schedules the task in its own process.
AdminJob(a) ==
    /\ adm[a].pc = "job"
    /\ LET p == adm[a].proc
       IN  proc' = [proc EXCEPT ![p] = IF adm[a].ent.enabled THEN CreateCronJob(@, adm[a].ent.cron)
                                                             ELSE DeleteCronJob(@)]
    /\ adm' = [adm EXCEPT ![a].pc = "over"]
    /\ UNCHANGED <<now, tables, call>>

--------------------------------------------------------------------------------
(* The specification *)

Wait ==
    /\ now < MaxTime
    /\ now' = now + 1
    /\ UNCHANGED <<tables, proc, call, adm>>

\* The stored tick may be ahead: a clock that was ahead, a restored snapshot.
Init ==
    /\ now = 0
    /\ task \in {t \in Task : t.enabled /\ t.status = "none" /\ t.ranAt = 0
                               /\ t.tick \in {0, Day, 2 * Day}}
    /\ run = [c \in Calls |-> [status |-> "none", at |-> 0]]
    /\ lock = Nobody
    /\ leaked = FALSE
    /\ proc = [p \in Procs |-> Off]
    /\ call = [c \in Calls |-> Unused]
    /\ adm = [a \in Admins |-> [pc |-> "unused", proc |-> Unused.proc, ent |-> task, cols |-> {}]]
    /\ claimed = [t \in Ticks |-> 0]

RunStep(c) ==
    \/ Enter(c) \/ FailStale(c) \/ FailStaleTask(c) \/ TryLock(c)
    \/ Insert(c) \/ Register(c) \/ Mark(c) \/ Handle(c)
    \/ Record(c) \/ RecordTask(c) \/ Unlock(c)

Next ==
    \/ \E p \in Procs :
        \/ Boot(p) \/ Listen(p) \/ Stop(p) \/ Drain(p)
        \/ Interrupt(p) \/ InterruptTask(p) \/ Exit(p) \/ Crash(p)
        \/ \E c \in Calls : Fire(p, c) \/ Trigger(p, c)
        \/ \E a \in Admins : AdminRead(p, a)
    \/ \E c \in Calls :
        \/ Claim(c) \/ Reread(c) \/ Adapt(c)
        \/ RunStep(c) \/ Fails(c) \/ FailsEarly(c) \/ UnlockFails(c)
    \/ \E a \in Admins : AdminSelect(a) \/ AdminUpdate(a) \/ AdminJob(a)
    \/ LoseSession \/ SessionCloses \/ Wait

Spec == Init /\ [][Next]_vars

\* Statements are answered and handlers end.
Fairness == \A c \in Calls : WF_vars(RunStep(c))

FairSpec == Spec /\ Fairness

--------------------------------------------------------------------------------
(* Properties *)

\* Every variable has its type; a run's clock and a process's coming tick in range.
TypeOK ==
    /\ now \in Time
    /\ task \in Task
    /\ run \in [Calls -> Run]
    /\ lock \in Calls \cup {Nobody}
    /\ leaked \in BOOLEAN
    /\ proc \in [Procs -> Process]
    /\ call \in [Calls -> Call]
    /\ adm \in [Admins -> Request]
    /\ claimed \in [Ticks -> 0 .. 2]

\* A cron tick is claimed by one process only (claimTick), however late a process
\* fires it and however wrong the stored tick was.
TickRunsOnce == \A t \in Ticks : claimed[t] <= 1

\* The calls that have the lock's answer and have not released it.
Holding == {"insert", "register", "mark", "handler", "record", "status", "unlock"}

\* Two runs of the task never overlap, whether started by a tick, by hand or at the
\* start of a process: the second finds the advisory lock taken.
RunsAlone == \A c, d \in Calls : c # d => ~ (call[c].pc \in Holding /\ call[d].pc \in Holding)

\* The recorded success of a run stands: neither the interruption at a stop nor the
\* stale check of a later run overwrites it; only the run itself does, when it
\* could not record the task's status.
SuccessStands ==
    [][\A c \in Calls : run[c].status = "success" /\ run'[c].status # "success"
            => call'[c] # call[c]]_vars

\* A process that stops (SIGTERM) leaves none of its runs recorded as running.  It fails:
\* a run may write its row after drain recorded the interruptions.
StopSettles ==
    [][\A p \in Procs : proc[p].state = "closing" /\ proc'[p].state = "down" =>
            \A c \in Calls : call[c].proc = p => run[c].status # "running"]_vars

\* No run keeps the task's lock for ever: whatever statement of the run fails, it goes on
\* to the unlock, which alone may leave the lock with a pooled session.
LockReleased == \A c \in Calls : lock = c ~> lock # c \/ leaked

\* No run keeps the task's lock for ever.  It fails: an unlock statement that fails is
\* not repeated, and the session keeps the lock as long as the pool keeps the session.
LockFreed == \A c \in Calls : lock = c ~> lock # c
==============================================================================
