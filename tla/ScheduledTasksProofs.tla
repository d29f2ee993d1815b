-------------------------- MODULE ScheduledTasksProofs --------------------------
(***************************************************************************)
(* What ScheduledTasks guarantees for any number of processes and calls:   *)
(* its types, one run at a time, one claim per tick as long as nobody      *)
(* edits the task meanwhile, and recorded successes that stand.            *)
(***************************************************************************)
EXTENDS ScheduledTasks, TLAPS

--------------------------------------------------------------------------------
(* Types *)

\* A cron fires again after any instant.
LEMMA NextDateTyped ==
    ASSUME NEW cron \in Crons, NEW t \in Nat
    PROVE  NextDate(cron, t) \in Nat
<1>1. cron \in Nat /\ cron > 0
  BY ClockAssumption
<1>2. t \div cron \in Nat
  BY <1>1
<1> QED BY <1>1, <1>2 DEF NextDate

LEMMA JobTyped ==
    ASSUME NEW x \in Process, NEW cron \in Crons, now \in Time
    PROVE  CreateCronJob(x, cron) \in Process /\ DeleteCronJob(x) \in Process
<1>1. NextDate(cron, now) \in Nat
  BY NextDateTyped, ClockAssumption DEF Time
<1> QED BY <1>1 DEF CreateCronJob, DeleteCronJob, Process

LEMMA StoredTyped ==
    ASSUME task \in Task PROVE Stored \in Crons \cup {NoJob}
BY DEF Task, Stored

\* What a save writes is a task again.
LEMMA SavedTask ==
    ASSUME NEW t \in Task, NEW e \in Task, NEW cols
    PROVE  Overwrite(t, e, cols) \in Task
BY DEF Overwrite, Task

LEMMA UnusedTyped == Unused \in Call /\ Off \in Process
<1>1. 0 \in Ticks /\ 0 \in Time
  BY ClockAssumption DEF Ticks, Time
<1> QED BY <1>1 DEF Unused, Off, Call, Process, Outcomes, Alive

\* The ticks that fire are in range.
LEMMA PastTick ==
    ASSUME NEW n \in Nat, now \in Time, now >= n PROVE n \in Ticks
BY ClockAssumption DEF Time, Ticks

\* A call that only moves on is a call.
LEMMA ToTyped ==
    ASSUME call \in [Calls -> Call], NEW c \in Calls,
           NEW pc \in {"enter", "reread", "over", "staletask", "lock", "insert", "register",
                       "mark", "handler", "status", "unlock"},
           To(c, pc)
    PROVE  call' \in [Calls -> Call]
BY DEF To, Call

\* The process whose state changes, and nothing else of it.
LEMMA StateTyped ==
    ASSUME NEW x \in Process, NEW s \in Alive \cup {"down", "boot"}
    PROVE  [x EXCEPT !.state = s] \in Process
BY DEF Process

\* A run whose status changes is a run.
LEMMA RunTyped ==
    ASSUME NEW r \in Run, NEW s \in {"running"} \cup Outcomes
    PROVE  [r EXCEPT !.status = s] \in Run
BY DEF Run

LEMMA TaskTyped ==
    ASSUME NEW t \in Task, NEW s \in {"running"} \cup Outcomes
    PROVE  [t EXCEPT !.status = s] \in Task
BY DEF Task, Outcomes

\* A call, and a request, that is over keeps its type.
LEMMA OverTyped ==
    ASSUME NEW x \in Call PROVE [x EXCEPT !.pc = "over"] \in Call
BY DEF Call

LEMMA OverRequestTyped ==
    ASSUME NEW x \in Request PROVE [x EXCEPT !.pc = "over"] \in Request
BY DEF Request

\* The steps of the processes.
LEMMA ProcTyped ==
    ASSUME TypeOK, NEW p \in Procs,
           \/ Boot(p) \/ Listen(p) \/ Stop(p) \/ Drain(p)
           \/ Interrupt(p) \/ InterruptTask(p) \/ Exit(p) \/ Crash(p)
    PROVE  TypeOK'
<1>1. CASE Boot(p)
  <2>1. [state |-> "boot", job |-> Stored, next |-> 0] \in Process
    BY StoredTyped DEF TypeOK, Process
  <2> QED BY <1>1, <2>1 DEF Boot, tables, TypeOK
<1>2. CASE Listen(p)
  <2> DEFINE x == [proc[p] EXCEPT !.state = "up"]
  <2>1. x \in Process
    BY StateTyped DEF TypeOK, Alive
  <2>2. x.job # NoJob => CreateCronJob(x, x.job) \in Process
    <3>1. x.job \in Crons \cup {NoJob}
      BY <2>1 DEF Process
    <3> HIDE DEF x
    <3> QED BY <2>1, <3>1, JobTyped DEF TypeOK
  <2> HIDE DEF x
  <2>3. proc' = [proc EXCEPT ![p] = IF x.job = NoJob THEN x ELSE CreateCronJob(x, x.job)]
    BY <1>2 DEF Listen, x
  <2> QED BY <1>2, <2>1, <2>2, <2>3 DEF Listen, tables, TypeOK
<1>3. CASE Stop(p)
  <2>1. [proc[p] EXCEPT !.state = "stopping"] \in Process
    BY StateTyped DEF TypeOK, Alive
  <2>2. DeleteCronJob([proc[p] EXCEPT !.state = "stopping"]) \in Process
    BY <2>1 DEF DeleteCronJob, Process
  <2> QED BY <1>3, <2>2 DEF Stop, tables, TypeOK
<1>4. CASE Drain(p)
  <2>1. [proc[p] EXCEPT !.state = "draining"] \in Process
    BY StateTyped DEF TypeOK, Alive
  <2> QED BY <1>4, <2>1 DEF Drain, tables, TypeOK
<1>5. CASE Interrupt(p)
  <2>1. \A s \in {"closing", "interrupting"} : [proc[p] EXCEPT !.state = s] \in Process
    BY StateTyped DEF TypeOK, Alive
  <2>2. proc' \in [Procs -> Process]
    BY <1>5, <2>1 DEF Interrupt, TypeOK
  <2>3. \A c \in Calls : [run[c] EXCEPT !.status = "failure"] \in Run
    BY RunTyped DEF TypeOK, Outcomes
  <2>4. run' \in [Calls -> Run]
    BY <1>5, <2>3 DEF Interrupt, TypeOK
  <2> QED BY <1>5, <2>2, <2>4 DEF Interrupt, TypeOK
<1>6. CASE InterruptTask(p)
  <2>1. [proc[p] EXCEPT !.state = "closing"] \in Process
    BY StateTyped DEF TypeOK, Alive
  <2>2. task' \in Task
    BY <1>6 DEF InterruptTask, TypeOK, Task, Outcomes
  <2> QED BY <1>6, <2>1, <2>2 DEF InterruptTask, TypeOK
<1>7. CASE Exit(p) \/ Crash(p)
  <2>1. Gone(p)
    BY <1>7 DEF Exit, Crash
  <2>2. call' \in [Calls -> Call]
    <3> DEFINE f(c) == [call[c] EXCEPT !.pc = "over"]
    <3>1. \A c \in Calls : call[c] \in Call
      BY DEF TypeOK
    <3>2. \A c \in Calls : f(c) \in Call
      BY <3>1, OverTyped
    <3>3. call' = [c \in Calls |-> IF call[c].proc = p /\ call[c].pc # "unused"
                                   THEN f(c) ELSE call[c]]
      BY <2>1 DEF Gone
    <3> HIDE DEF f
    <3>4. \A c \in Calls : (IF call[c].proc = p /\ call[c].pc # "unused"
                            THEN f(c) ELSE call[c]) \in Call
      BY <3>1, <3>2
    <3> QED BY <3>3, <3>4
  <2>3. adm' \in [Admins -> Request]
    <3> DEFINE g(a) == [adm[a] EXCEPT !.pc = "over"]
    <3>1. \A a \in Admins : adm[a] \in Request
      BY DEF TypeOK
    <3>2. \A a \in Admins : g(a) \in Request
      BY <3>1, OverRequestTyped
    <3>3. adm' = [a \in Admins |-> IF adm[a].proc = p /\ adm[a].pc # "unused"
                                   THEN g(a) ELSE adm[a]]
      BY <2>1 DEF Gone
    <3> HIDE DEF g
    <3>4. \A a \in Admins : (IF adm[a].proc = p /\ adm[a].pc # "unused"
                             THEN g(a) ELSE adm[a]) \in Request
      BY <3>1, <3>2
    <3> QED BY <3>3, <3>4
  <2>4. proc' \in [Procs -> Process]
    BY <2>1, UnusedTyped DEF Gone, TypeOK
  <2>5. lock' \in Calls \cup {Nobody}
    BY <2>1 DEF Gone, TypeOK
  <2> QED BY <2>1, <2>2, <2>3, <2>4, <2>5 DEF Gone, TypeOK
<1> QED BY <1>1, <1>2, <1>3, <1>4, <1>5, <1>6, <1>7

\* The steps of a cron tick.
LEMMA TickTyped ==
    ASSUME TypeOK, NEW c \in Calls,
           Claim(c) \/ Reread(c) \/ Adapt(c) \/ (\E p \in Procs : Fire(p, c) \/ Trigger(p, c))
    PROVE  TypeOK'
<1>1. CASE Claim(c)
  <2>1. call' \in [Calls -> Call]
    <3>1. To(c, "enter") \/ To(c, "reread")
      BY <1>1 DEF Claim
    <3> QED BY <3>1, ToTyped DEF TypeOK
  <2>2. call[c].tick \in Ticks
    BY DEF TypeOK, Call
  <2>3. task' \in Task
    BY <1>1, <2>2 DEF Claim, TypeOK, Task
  <2>4. claimed' \in [Ticks -> 0 .. 2]
    <3> DEFINE t == call[c].tick
               n == claimed[t]
               v == IF n < 2 THEN n + 1 ELSE n
    <3>1. claimed \in [Ticks -> 0 .. 2] /\ n \in 0 .. 2
      BY <2>2 DEF TypeOK
    <3>2. v \in 0 .. 2
      BY <3>1
    <3>3. claimed' = claimed \/ claimed' = [claimed EXCEPT ![t] = v]
      BY <1>1 DEF Claim
    <3> HIDE DEF t, n, v
    <3> QED BY <3>1, <3>2, <3>3
  <2> QED BY <1>1, <2>1, <2>3, <2>4 DEF Claim, TypeOK
<1>2. CASE Reread(c)
  <2> DEFINE x == [call[c] EXCEPT !.pc = "adapt", !.seen = Stored]
  <2>1. call' \in [Calls -> Call]
    <3>1. call[c] \in Call /\ Stored \in Crons \cup {NoJob}
      BY StoredTyped DEF TypeOK
    <3>2. x \in Call
      BY <3>1 DEF Call
    <3>3. call' = [call EXCEPT ![c] = x]
      BY <1>2 DEF Reread
    <3> HIDE DEF x
    <3> QED BY <3>2, <3>3 DEF TypeOK
  <2> QED BY <1>2, <2>1 DEF Reread, tables, TypeOK
<1>3. CASE Adapt(c)
  <2>1. call' \in [Calls -> Call]
    BY <1>3, ToTyped DEF Adapt, TypeOK
  <2>2. call[c].seen \in Crons \cup {NoJob}
    BY DEF TypeOK, Call
  <2> DEFINE x == proc[call[c].proc]
             y == CASE call[c].seen = NoJob -> DeleteCronJob(x)
                    [] call[c].seen = call[c].cron -> x
                    [] OTHER -> CreateCronJob(x, call[c].seen)
  <2>3. ASSUME x \in Process PROVE y \in Process
    <3>1. DeleteCronJob(x) \in Process
      BY <2>3 DEF DeleteCronJob, Process
    <3>2. call[c].seen # NoJob => CreateCronJob(x, call[c].seen) \in Process
      BY <2>2, <2>3, JobTyped DEF TypeOK
    <3> HIDE DEF x
    <3> QED BY <2>3, <3>1, <3>2
  <2>4. proc' = [proc EXCEPT ![call[c].proc] = y]
    BY <1>3 DEF Adapt
  <2>5. proc' \in [Procs -> Process]
    <3>1. call[c].proc \in Procs => x \in Process
      BY DEF TypeOK
    <3> HIDE DEF x, y
    <3> QED BY <2>3, <2>4, <3>1 DEF TypeOK
  <2> QED BY <1>3, <2>1, <2>5 DEF Adapt, tables, TypeOK
<1>4. ASSUME NEW p \in Procs, Fire(p, c) PROVE TypeOK'
  <2>1. proc[p] \in Process /\ proc[p].job \in Crons /\ proc[p].next \in Ticks
    BY <1>4, PastTick DEF Fire, TypeOK, Process
  <2> DEFINE x == [call[c] EXCEPT !.pc = "claim", !.proc = p,
                                  !.cron = proc[p].job, !.tick = proc[p].next]
  <2>2. call' \in [Calls -> Call]
    <3>1. call[c] \in Call
      BY DEF TypeOK
    <3>2. x \in Call
      BY <2>1, <3>1 DEF Call
    <3>3. call' = [call EXCEPT ![c] = x]
      BY <1>4 DEF Fire
    <3> HIDE DEF x
    <3> QED BY <3>2, <3>3 DEF TypeOK
  <2>3. NextDate(proc[p].job, now) \in Nat
    <3>1. now \in Nat
      BY ClockAssumption DEF TypeOK, Time
    <3> QED BY <2>1, <3>1, NextDateTyped
  <2>4. proc' \in [Procs -> Process]
    BY <1>4, <2>3 DEF Fire, TypeOK, Process
  <2> QED BY <1>4, <2>2, <2>4 DEF Fire, tables, TypeOK
<1>5. ASSUME NEW p \in Procs, Trigger(p, c) PROVE TypeOK'
  <2> DEFINE x == [call[c] EXCEPT !.pc = "enter", !.proc = p]
  <2>1. call' \in [Calls -> Call]
    <3>1. call[c] \in Call
      BY DEF TypeOK
    <3>2. x \in Call
      BY <3>1 DEF Call
    <3>3. call' = [call EXCEPT ![c] = x]
      BY <1>5 DEF Trigger
    <3> HIDE DEF x
    <3> QED BY <3>2, <3>3 DEF TypeOK
  <2> QED BY <1>5, <2>1 DEF Trigger, tables, TypeOK
<1> QED BY <1>1, <1>2, <1>3, <1>4, <1>5

\* The steps of a run.
LEMMA RunStepTyped ==
    ASSUME TypeOK, NEW c \in Calls, RunStep(c) PROVE TypeOK'
<1>1. CASE Enter(c)
  <2> DEFINE x == [call[c] EXCEPT !.pc = "stale", !.start = now]
             y == [call[c] EXCEPT !.pc = "over"]
  <2>1. call' \in [Calls -> Call]
    <3>1. call[c] \in Call /\ now \in Time
      BY DEF TypeOK
    <3>2. x \in Call /\ y \in Call
      BY <3>1 DEF Call
    <3>3. call' = [call EXCEPT ![c] = x] \/ call' = [call EXCEPT ![c] = y]
      BY <1>1 DEF Enter
    <3> HIDE DEF x, y
    <3> QED BY <3>2, <3>3 DEF TypeOK
  <2> QED BY <1>1, <2>1 DEF Enter, tables, TypeOK
<1>2. CASE FailStale(c)
  <2>1. \A d \in Calls : [run[d] EXCEPT !.status = "failure"] \in Run
    BY RunTyped DEF TypeOK, Outcomes
  <2>2. run' \in [Calls -> Run]
    BY <1>2, <2>1 DEF FailStale, TypeOK
  <2>3. call' \in [Calls -> Call]
    BY <1>2, ToTyped DEF FailStale, TypeOK
  <2> QED BY <1>2, <2>2, <2>3 DEF FailStale, TypeOK
<1>3. CASE FailStaleTask(c)
  <2>1. task' \in Task
    BY <1>3 DEF FailStaleTask, TypeOK, Task, Outcomes
  <2>2. call' \in [Calls -> Call]
    BY <1>3, ToTyped DEF FailStaleTask, TypeOK
  <2> QED BY <1>3, <2>1, <2>2 DEF FailStaleTask, TypeOK
<1>4. CASE TryLock(c)
  <2>1. call' \in [Calls -> Call]
    BY <1>4, ToTyped DEF TryLock, TypeOK
  <2> QED BY <1>4, <2>1 DEF TryLock, TypeOK
<1>5. CASE Insert(c)
  <2>1. call' \in [Calls -> Call]
    BY <1>5, ToTyped DEF Insert, TypeOK
  <2>2. run' \in [Calls -> Run]
    BY <1>5 DEF Insert, TypeOK, Run, Call
  <2> QED BY <1>5, <2>1, <2>2 DEF Insert, TypeOK
<1>6. CASE Register(c)
  <2>1. call' \in [Calls -> Call]
    BY <1>6, ToTyped DEF Register, TypeOK
  <2> QED BY <1>6, <2>1 DEF Register, tables, TypeOK
<1>7. CASE Mark(c)
  <2>1. call' \in [Calls -> Call]
    BY <1>7, ToTyped DEF Mark, TypeOK
  <2>2. task' \in Task
    BY <1>7 DEF Mark, TypeOK, Task, Call
  <2> QED BY <1>7, <2>1, <2>2 DEF Mark, TypeOK
<1>8. CASE Handle(c)
  <2>1. PICK o \in Outcomes :
            call' = [call EXCEPT ![c] = [@ EXCEPT !.pc = "record", !.outcome = o]]
    BY <1>8 DEF Handle
  <2> DEFINE x == [call[c] EXCEPT !.pc = "record", !.outcome = o]
  <2>2. call' \in [Calls -> Call]
    <3>1. call[c] \in Call
      BY DEF TypeOK
    <3>2. x \in Call
      BY <3>1 DEF Call
    <3>3. call' = [call EXCEPT ![c] = x]
      BY <2>1
    <3> HIDE DEF x
    <3> QED BY <3>2, <3>3 DEF TypeOK
  <2> QED BY <1>8, <2>2 DEF Handle, tables, TypeOK
<1>9. CASE Record(c)
  <2>1. call' \in [Calls -> Call]
    BY <1>9, ToTyped DEF Record, TypeOK
  <2>2. call[c].outcome \in Outcomes /\ run[c] \in Run
    BY DEF TypeOK, Call
  <2>3. [run[c] EXCEPT !.status = call[c].outcome] \in Run
    BY <2>2, RunTyped
  <2>4. run' \in [Calls -> Run]
    BY <1>9, <2>3 DEF Record, TypeOK
  <2> QED BY <1>9, <2>1, <2>4 DEF Record, TypeOK
<1>10. CASE RecordTask(c)
  <2>1. call' \in [Calls -> Call]
    BY <1>10, ToTyped DEF RecordTask, TypeOK
  <2>2. call[c].outcome \in Outcomes
    BY DEF TypeOK, Call
  <2>3. task' \in Task
    BY <1>10, <2>2, TaskTyped DEF RecordTask, TypeOK
  <2> QED BY <1>10, <2>1, <2>3 DEF RecordTask, TypeOK
<1>11. CASE Unlock(c)
  <2>1. call' \in [Calls -> Call]
    BY <1>11, ToTyped DEF Unlock, TypeOK
  <2> QED BY <1>11, <2>1 DEF Unlock, TypeOK
<1> QED
  BY <1>1, <1>2, <1>3, <1>4, <1>5, <1>6, <1>7, <1>8, <1>9, <1>10, <1>11 DEF RunStep

\* A failing statement and a lost session.
LEMMA FaultTyped ==
    ASSUME TypeOK,
           LoseSession \/ SessionCloses \/ \E c \in Calls : Fails(c) \/ FailsEarly(c) \/ UnlockFails(c)
    PROVE  TypeOK'
<1>1. CASE LoseSession \/ SessionCloses
  BY <1>1 DEF LoseSession, SessionCloses, TypeOK
<1>2. ASSUME NEW c \in Calls, Fails(c) PROVE TypeOK'
  <2> DEFINE x == [call[c] EXCEPT !.pc = "record", !.outcome = "failure"]
             y == [call[c] EXCEPT !.pc = "unlock"]
  <2>1. call' \in [Calls -> Call]
    <3>1. call[c] \in Call
      BY DEF TypeOK
    <3>2. x \in Call /\ y \in Call
      BY <3>1 DEF Call, Outcomes
    <3>3. call' = [call EXCEPT ![c] = x] \/ call' = [call EXCEPT ![c] = y]
      BY <1>2 DEF Fails
    <3> HIDE DEF x, y
    <3> QED BY <3>2, <3>3 DEF TypeOK
  <2> QED BY <1>2, <2>1 DEF Fails, tables, TypeOK
<1>3. ASSUME NEW c \in Calls, FailsEarly(c) PROVE TypeOK'
  <2>1. call' \in [Calls -> Call]
    BY <1>3, ToTyped DEF FailsEarly, TypeOK
  <2> QED BY <1>3, <2>1 DEF FailsEarly, tables, TypeOK
<1>4. ASSUME NEW c \in Calls, UnlockFails(c) PROVE TypeOK'
  <2>1. call' \in [Calls -> Call]
    BY <1>4, ToTyped DEF UnlockFails, TypeOK
  <2> QED BY <1>4, <2>1 DEF UnlockFails, TypeOK
<1> QED BY <1>1, <1>2, <1>3, <1>4

\* The steps of updateTask.
LEMMA AdminTyped ==
    ASSUME TypeOK, NEW a \in Admins,
           AdminSelect(a) \/ AdminUpdate(a) \/ AdminJob(a) \/ \E p \in Procs : AdminRead(p, a)
    PROVE  TypeOK'
<1>1. ASSUME NEW p \in Procs, AdminRead(p, a) PROVE TypeOK'
  <2>1. PICK b \in BOOLEAN, k \in Crons :
            adm' = [adm EXCEPT ![a] = [@ EXCEPT !.pc = "select", !.proc = p,
                        !.ent = [task EXCEPT !.enabled = b, !.cron = k]]]
    BY <1>1 DEF AdminRead
  <2>2. [task EXCEPT !.enabled = b, !.cron = k] \in Task
    BY DEF TypeOK, Task
  <2> DEFINE e == [task EXCEPT !.enabled = b, !.cron = k]
  <2>3. e \in Task /\ adm' = [adm EXCEPT ![a] = [@ EXCEPT !.pc = "select", !.proc = p, !.ent = e]]
    BY <2>1, <2>2
  <2> HIDE DEF e
  <2>4. adm' \in [Admins -> Request]
    BY <2>3 DEF TypeOK, Request
  <2> QED BY <1>1, <2>4 DEF AdminRead, tables, TypeOK
<1>2. CASE AdminSelect(a)
  <2>1. DOMAIN task = {"enabled", "cron", "tick", "status", "ranAt"}
    BY DEF TypeOK, Task
  <2>2. DirtyColumns(DOMAIN task, adm[a].ent, task) \in SUBSET {"enabled", "cron", "tick", "status", "ranAt"}
    BY <2>1 DEF DirtyColumns
  <2>3. adm' \in [Admins -> Request]
    BY <1>2, <2>2 DEF AdminSelect, TypeOK, Request
  <2> QED BY <1>2, <2>3 DEF AdminSelect, tables, TypeOK
<1>3. CASE AdminUpdate(a)
  <2>1. adm[a].ent \in Task
    BY DEF TypeOK, Request
  <2>2. task' \in Task
    BY <1>3, <2>1, SavedTask DEF AdminUpdate, TypeOK
  <2>3. adm' \in [Admins -> Request]
    BY <1>3 DEF AdminUpdate, TypeOK, Request
  <2> QED BY <1>3, <2>2, <2>3 DEF AdminUpdate, TypeOK
<1>4. CASE AdminJob(a)
  <2>1. adm' \in [Admins -> Request]
    BY <1>4 DEF AdminJob, TypeOK, Request
  <2>2. adm[a].ent.cron \in Crons
    BY DEF TypeOK, Request, Task
  <2>3. \A x \in Process : CreateCronJob(x, adm[a].ent.cron) \in Process /\ DeleteCronJob(x) \in Process
    BY <2>2, JobTyped DEF TypeOK
  <2>4. proc' \in [Procs -> Process]
    BY <1>4, <2>3 DEF AdminJob, TypeOK
  <2> QED BY <1>4, <2>1, <2>4 DEF AdminJob, tables, TypeOK
<1> QED BY <1>1, <1>2, <1>3, <1>4

LEMMA InitTyped == Init => TypeOK
<1> SUFFICES ASSUME Init PROVE TypeOK
  OBVIOUS
<1>1. 0 \in Time /\ task \in Task
  BY ClockAssumption DEF Init, Time
<1>2. [status |-> "none", at |-> 0] \in Run
  BY <1>1 DEF Run
<1>3. [pc |-> "unused", proc |-> Unused.proc, ent |-> task, cols |-> {}] \in Request
  BY <1>1 DEF Request, Unused
<1>4. claimed \in [Ticks -> 0 .. 2]
  BY DEF Init
<1>5. leaked \in BOOLEAN
  BY DEF Init
<1> QED BY <1>1, <1>2, <1>3, <1>4, <1>5, UnusedTyped DEF Init, TypeOK

\* Every step keeps the types.
LEMMA NextTyped == TypeOK /\ [Next]_vars => TypeOK'
<1> SUFFICES ASSUME TypeOK, [Next]_vars PROVE TypeOK'
  OBVIOUS
<1>1. CASE Wait
  BY <1>1, ClockAssumption DEF Wait, tables, TypeOK, Time
<1>2. CASE UNCHANGED vars
  BY <1>2 DEF vars, tables, TypeOK
<1> QED
  BY <1>1, <1>2, ProcTyped, TickTyped, RunStepTyped, FaultTyped, AdminTyped DEF Next

\* The task, its runs, its lock, the processes and the calls keep their types.
THEOREM TypeCorrect == Spec => []TypeOK
<1> QED BY InitTyped, NextTyped, PTL DEF Spec

--------------------------------------------------------------------------------
(* Recorded outcomes *)

\* Only Interrupt and FailStale change the rows of other runs than their own, and
\* they change rows that are running.
LEMMA StepKeepsSuccess ==
    ASSUME TypeOK, Next, NEW c \in Calls,
           run[c].status = "success", run'[c].status # "success"
    PROVE  call'[c] # call[c]
<1>1. CASE \E p \in Procs : Interrupt(p)
  BY <1>1 DEF Interrupt
<1>2. CASE \E d \in Calls : FailStale(d)
  BY <1>2 DEF FailStale
<1>3. ASSUME NEW d \in Calls, Insert(d) PROVE call'[c] # call[c]
  <2>1. d # c => run'[c] = run[c]
    BY <1>3 DEF Insert, TypeOK
  <2>2. call[d].pc = "insert" /\ call'[d].pc = "register"
    BY <1>3 DEF Insert, At, To, TypeOK, Call
  <2> QED BY <2>1, <2>2
<1>4. ASSUME NEW d \in Calls, Record(d) PROVE call'[c] # call[c]
  <2>1. d # c => run'[c] = run[c]
    BY <1>4 DEF Record, TypeOK
  <2>2. call[d].pc = "record" /\ call'[d].pc = "status"
    BY <1>4 DEF Record, At, To, TypeOK, Call
  <2> QED BY <2>1, <2>2
<1>5. CASE run' = run
  BY <1>5
<1>6. ASSUME NEW p \in Procs,
             \/ Boot(p) \/ Listen(p) \/ Stop(p) \/ Drain(p)
             \/ InterruptTask(p) \/ Exit(p) \/ Crash(p)
      PROVE  run' = run
  BY <1>6 DEF Boot, Listen, Stop, Drain, InterruptTask, Exit, Crash, Gone, tables
<1>7. ASSUME NEW d \in Calls,
             \/ Claim(d) \/ Reread(d) \/ Adapt(d) \/ Fails(d) \/ FailsEarly(d) \/ UnlockFails(d)
             \/ \E p \in Procs : Fire(p, d) \/ Trigger(p, d)
      PROVE  run' = run
  BY <1>7 DEF Claim, Reread, Adapt, Fails, FailsEarly, UnlockFails, Fire, Trigger, tables
<1>8. ASSUME NEW d \in Calls,
             \/ Enter(d) \/ FailStaleTask(d) \/ TryLock(d) \/ Register(d) \/ Mark(d)
             \/ Handle(d) \/ RecordTask(d) \/ Unlock(d)
      PROVE  run' = run
  BY <1>8 DEF Enter, FailStaleTask, TryLock, Register, Mark, Handle, RecordTask, Unlock, tables
<1>9. ASSUME NEW a \in Admins,
             AdminSelect(a) \/ AdminUpdate(a) \/ AdminJob(a) \/ \E p \in Procs : AdminRead(p, a)
      PROVE  run' = run
  BY <1>9 DEF AdminSelect, AdminUpdate, AdminJob, AdminRead, tables
<1>10. CASE LoseSession \/ SessionCloses \/ Wait
  BY <1>10, <1>5 DEF LoseSession, SessionCloses, Wait, tables
<1> QED
  BY <1>1, <1>2, <1>3, <1>4, <1>5, <1>6, <1>7, <1>8, <1>9, <1>10 DEF Next, RunStep

\* The recorded success of a run stands, for any number of processes, runs and
\* requests, whatever stops, crashes or fails.
THEOREM RecordedSuccessStands == Spec => SuccessStands
<1>1. TypeOK /\ [Next]_vars =>
        [\A c \in Calls : run[c].status = "success" /\ run'[c].status # "success"
            => call'[c] # call[c]]_vars
  BY StepKeepsSuccess
<1> QED BY <1>1, TypeCorrect, PTL DEF Spec, SuccessStands

--------------------------------------------------------------------------------
(* One run at a time *)

\* The call between the lock's answer and its release is the owner of the lock.
LockInv == \A c \in Calls : call[c].pc \in Holding => lock = c

\* Every step keeps it: a call enters the run with the free lock, and leaves with it.
LEMMA LockInvStep ==
    ASSUME KeepsSession, TypeOK, TypeOK', LockInv, Next PROVE LockInv'
<1>1. ASSUME NEW p \in Procs, Gone(p) PROVE LockInv'
  <2> SUFFICES ASSUME NEW c \in Calls, call'[c].pc \in Holding PROVE lock' = c
    BY DEF LockInv
  <2>1. call'[c] = IF call[c].proc = p /\ call[c].pc # "unused"
                   THEN [call[c] EXCEPT !.pc = "over"] ELSE call[c]
    BY <1>1 DEF Gone
  <2>2. call[c] \in Call
    BY DEF TypeOK
  <2>3. [call[c] EXCEPT !.pc = "over"].pc = "over"
    BY <2>2 DEF Call
  <2>4. call'[c] = call[c] /\ call[c].proc # p
    BY <2>1, <2>3 DEF Holding
  <2>5. lock = c
    BY <2>4 DEF LockInv
  <2> QED BY <1>1, <2>4, <2>5 DEF Gone
<1>2. ASSUME NEW c \in Calls, TryLock(c) PROVE LockInv'
  <2>1. \A d \in Calls : d # c => call'[d] = call[d]
    BY <1>2 DEF TryLock, To, TypeOK
  <2>2. CASE (lock = Nobody \/ Reuses(c)) /\ lock' = c
    <3>1. \A d \in Calls : ~ (call[d].pc \in Holding)
      BY <2>2, NamesAssumption DEF LockInv, Reuses, At, Holding
    <3> QED BY <2>1, <2>2, <3>1 DEF LockInv
  <2>3. CASE To(c, "over") /\ lock' = lock
    <3>1. call'[c].pc = "over"
      BY <2>3 DEF To, TypeOK, Call
    <3> QED BY <2>1, <2>3, <3>1 DEF LockInv, Holding
  <2> QED BY <1>2, <2>2, <2>3 DEF TryLock
<1>3. ASSUME NEW c \in Calls, Unlock(c) \/ UnlockFails(c) PROVE LockInv'
  <2>1. \A d \in Calls : d # c => call'[d] = call[d]
    BY <1>3 DEF Unlock, UnlockFails, To, TypeOK
  <2>2. call'[c].pc = "over" /\ call[c].pc \in Holding
    BY <1>3 DEF Unlock, UnlockFails, To, At, TypeOK, Call, Holding
  <2>3. lock = c
    BY <2>2 DEF LockInv
  <2> QED BY <2>1, <2>2, <2>3 DEF LockInv, Holding
<1>4. ASSUME NEW c \in Calls, lock' = lock,
             \A d \in Calls : d # c => call'[d] = call[d],
             call'[c].pc \in Holding => call[c].pc \in Holding
      PROVE  LockInv'
  BY <1>4 DEF LockInv
<1>5. ASSUME call' = call, lock' = lock PROVE LockInv'
  BY <1>5 DEF LockInv
<1>6. ASSUME NEW p \in Procs,
             \/ Boot(p) \/ Listen(p) \/ Stop(p) \/ Drain(p)
             \/ Interrupt(p) \/ InterruptTask(p)
      PROVE  LockInv'
  BY <1>5, <1>6 DEF Boot, Listen, Stop, Drain, Interrupt, InterruptTask, tables
<1>7. ASSUME NEW p \in Procs, NEW c \in Calls, Fire(p, c) \/ Trigger(p, c) PROVE LockInv'
  <2>1. lock' = lock /\ \A d \in Calls : d # c => call'[d] = call[d]
    BY <1>7 DEF Fire, Trigger, tables, TypeOK
  <2>2. call'[c].pc \in {"claim", "enter"}
    <3>1. call[c] \in Call /\ call \in [Calls -> Call]
      BY DEF TypeOK
    <3>2. CASE Fire(p, c)
      <4>1. call'[c] = [call[c] EXCEPT !.pc = "claim", !.proc = p,
                                       !.cron = proc[p].job, !.tick = proc[p].next]
        BY <3>1, <3>2 DEF Fire
      <4> QED BY <3>1, <4>1 DEF Call
    <3>3. CASE Trigger(p, c)
      <4>1. call'[c] = [call[c] EXCEPT !.pc = "enter", !.proc = p]
        BY <3>1, <3>3 DEF Trigger
      <4> QED BY <3>1, <4>1 DEF Call
    <3> QED BY <1>7, <3>2, <3>3
  <2> QED BY <1>4, <2>1, <2>2 DEF Holding
<1>8. ASSUME NEW c \in Calls,
             Claim(c) \/ Reread(c) \/ Adapt(c) \/ Enter(c) \/ FailStale(c) \/ FailStaleTask(c) \/ FailsEarly(c)
      PROVE  LockInv'
  <2>1. lock' = lock /\ \A d \in Calls : d # c => call'[d] = call[d]
    BY <1>8 DEF Claim, Reread, Adapt, Enter, FailStale, FailStaleTask, FailsEarly, To, tables, TypeOK
  <2>2. call'[c].pc \in {"enter", "reread", "adapt", "over", "stale", "staletask", "lock"}
    <3>1. call[c] \in Call /\ call \in [Calls -> Call]
      BY DEF TypeOK
    <3>2. ASSUME NEW pc, To(c, pc) PROVE call'[c].pc = pc
      BY <3>1, <3>2 DEF To, Call
    <3>3. CASE Claim(c) \/ Adapt(c) \/ FailStale(c) \/ FailStaleTask(c) \/ FailsEarly(c)
      BY <3>2, <3>3 DEF Claim, Adapt, FailStale, FailStaleTask, FailsEarly
    <3>4. CASE Reread(c)
      <4>1. call'[c] = [call[c] EXCEPT !.pc = "adapt", !.seen = Stored]
        BY <3>1, <3>4 DEF Reread
      <4> QED BY <3>1, <4>1 DEF Call
    <3>5. CASE Enter(c)
      <4>1. \/ call'[c] = [call[c] EXCEPT !.pc = "stale", !.start = now]
            \/ call'[c] = [call[c] EXCEPT !.pc = "over"]
        BY <3>1, <3>5 DEF Enter
      <4> QED BY <3>1, <4>1 DEF Call
    <3> QED BY <1>8, <3>3, <3>4, <3>5
  <2> QED BY <1>4, <2>1, <2>2 DEF Holding
<1>9. ASSUME NEW c \in Calls,
             Insert(c) \/ Register(c) \/ Mark(c) \/ Handle(c) \/ Record(c) \/ RecordTask(c) \/ Fails(c)
      PROVE  LockInv'
  <2>1. lock' = lock /\ \A d \in Calls : d # c => call'[d] = call[d]
    BY <1>9 DEF Insert, Register, Mark, Handle, Record, RecordTask, Fails, To, tables, TypeOK
  <2>2. call[c].pc \in Holding
    BY <1>9 DEF Insert, Register, Mark, Handle, Record, RecordTask, Fails, At, Holding
  <2> QED BY <1>4, <2>1, <2>2
<1>10. ASSUME NEW a \in Admins,
              AdminSelect(a) \/ AdminUpdate(a) \/ AdminJob(a) \/ \E p \in Procs : AdminRead(p, a)
       PROVE  LockInv'
  BY <1>5, <1>10 DEF AdminSelect, AdminUpdate, AdminJob, AdminRead, tables
<1>11. CASE LoseSession \/ Wait
  BY <1>5, <1>11 DEF LoseSession, Wait, tables
<1>12. CASE SessionCloses
  <2>1. \A c \in Calls : ~ (call[c].pc \in Holding)
    BY <1>12 DEF SessionCloses, LockInv, At, Holding
  <2> QED BY <1>12, <2>1 DEF SessionCloses, LockInv
<1> QED
  BY <1>1, <1>2, <1>3, <1>6, <1>7, <1>8, <1>9, <1>10, <1>11, <1>12 DEF Next, RunStep, Exit, Crash

\* As long as the database keeps the session of a lock, two runs of the task never
\* overlap, for any number of processes and calls, and whether or not a lock stayed
\* behind with a pooled session that a later run took it on again.
THEOREM RunsNeverOverlap == ASSUME KeepsSession PROVE Spec => []RunsAlone
<1>1. Init => LockInv
  BY DEF Init, LockInv, Unused, Holding
<1>2. TypeOK /\ TypeOK' /\ LockInv /\ [Next]_vars => LockInv'
  <2>1. ASSUME TypeOK, LockInv, UNCHANGED vars PROVE LockInv'
    BY <2>1 DEF LockInv, vars, tables
  <2> QED BY <2>1, LockInvStep
<1>3. LockInv => RunsAlone
  BY DEF LockInv, RunsAlone
<1> QED BY <1>1, <1>2, <1>3, TypeCorrect, PTL DEF Spec

--------------------------------------------------------------------------------
(* One claim of a tick *)

\* Every tick that was claimed lies in the past, and the row holds the last of them;
\* so does every tick a call is about to claim.
ClaimInv ==
    /\ \A t \in Ticks : claimed[t] <= 1
    /\ \A t \in Ticks : claimed[t] > 0 => t <= task.tick /\ task.tick <= now
    /\ \A c \in Calls : call[c].pc = "claim" => call[c].tick <= now

\* A step that claims nothing keeps it: only a cron that fires starts a claim, with
\* a tick that is due.
LEMMA ClaimKept ==
    ASSUME ClaimInv, TypeOK, TypeOK', claimed' = claimed, task'.tick = task.tick, now' >= now,
           \A c \in Calls : call'[c].pc = "claim" =>
               \/ call'[c].tick <= now
               \/ call[c].pc = "claim" /\ call'[c].tick = call[c].tick
    PROVE  ClaimInv'
<1>1. now \in Int /\ now' \in Int /\ task.tick \in Int
  BY ClockAssumption DEF TypeOK, Time, Ticks, Task
<1>2. \A c \in Calls : call[c].tick \in Int /\ call'[c].tick \in Int
  BY ClockAssumption DEF TypeOK, Call, Ticks
<1>4. \A t \in Ticks : claimed'[t] <= 1
  BY DEF ClaimInv
<1>5. ASSUME NEW t \in Ticks, claimed'[t] > 0 PROVE t <= task'.tick /\ task'.tick <= now'
  <2>1. t <= task.tick /\ task.tick <= now
    BY <1>5 DEF ClaimInv
  <2> QED BY <1>1, <2>1
<1>6. ASSUME NEW c \in Calls, call'[c].pc = "claim" PROVE call'[c].tick <= now'
  <2>1. call'[c].tick <= now
    BY <1>6 DEF ClaimInv
  <2> QED BY <1>1, <1>2, <2>1
<1> QED BY <1>4, <1>5, <1>6 DEF ClaimInv

\* The conditional update claims a tick no process has claimed.
LEMMA ClaimClaims ==
    ASSUME ClaimInv, TypeOK, NEW c \in Calls, Claim(c) PROVE ClaimInv'
<1> DEFINE k == call[c].tick
<1>1. k \in Ticks /\ now \in Nat /\ task.tick \in Nat /\ Ticks \subseteq Nat /\ Day \in Nat
  BY ClockAssumption DEF TypeOK, Call, Task, Ticks, Time
<1>2. call[c].pc = "claim" /\ k <= now
  BY DEF Claim, At, ClaimInv
<1>3. \A d \in Calls : call'[d].pc = "claim" => call'[d] = call[d]
  <2>1. ASSUME NEW pc, To(c, pc) PROVE call'[c].pc = pc /\ \A d \in Calls : d # c => call'[d] = call[d]
    BY <2>1 DEF To, TypeOK, Call
  <2> QED BY <2>1 DEF Claim
<1>4. now' = now
  BY DEF Claim
<1>5. \A d \in Calls : call'[d].pc = "claim" => call'[d].tick <= now'
  BY <1>3, <1>4 DEF ClaimInv
<1>6. CASE ~ Claimable(c)
  BY <1>4, <1>5, <1>6 DEF Claim, ClaimInv
<1>7. CASE Claimable(c)
  <2>1. task'.tick = k
    BY <1>7 DEF Claim, TypeOK, Task
  <2>2. \A t \in Ticks : claimed[t] \in 0 .. 2
    BY DEF TypeOK
  <2>3. \A t \in Ticks : claimed[t] > 0 => t < k
    <3>1. task.tick < k \/ task.tick > now + Day
      BY <1>7 DEF Claimable
    <3>2. ASSUME NEW t \in Ticks, claimed[t] > 0 PROVE t < k
      <4>1. t <= task.tick /\ task.tick <= now /\ t \in Nat
        BY <1>1, <3>2 DEF ClaimInv
      <4> HIDE DEF k
      <4> QED BY <1>1, <3>1, <4>1 DEF Time
    <3> QED BY <3>2
  <2>4. claimed[k] = 0
    <3>1. ~ (claimed[k] > 0)
      <4>1. claimed[k] > 0 => k < k
        BY <1>1, <2>3
      <4>2. k \in Nat
        BY <1>1
      <4> HIDE DEF k
      <4> QED BY <4>1, <4>2
    <3>2. claimed[k] \in 0 .. 2
      BY <1>1, <2>2
    <3> QED BY <3>1, <3>2
  <2>5. claimed' = [claimed EXCEPT ![k] = 1]
    BY <1>1, <1>7, <2>4 DEF Claim, TypeOK
  <2>6. \A t \in Ticks : claimed'[t] = IF t = k THEN 1 ELSE claimed[t]
    BY <2>5 DEF TypeOK
  <2>7. \A t \in Ticks : claimed'[t] <= 1
    BY <2>6 DEF ClaimInv
  <2>8. \A t \in Ticks : claimed'[t] > 0 => t <= k
    <3>1. ASSUME NEW t \in Ticks, claimed'[t] > 0 PROVE t = k \/ t < k
      BY <2>3, <2>6, <3>1
    <3>2. \A t \in Ticks : t \in Nat
      BY <1>1
    <3> HIDE DEF k
    <3> QED BY <1>1, <3>1, <3>2
  <2> QED BY <1>2, <1>4, <1>5, <2>1, <2>7, <2>8 DEF ClaimInv
<1> QED BY <1>6, <1>7

\* With nobody editing the task, every step keeps it.
LEMMA ClaimInvStep ==
    ASSUME Admins = {}, TypeOK, TypeOK', ClaimInv, Next PROVE ClaimInv'
<1>1. now \in Int
  BY ClockAssumption DEF TypeOK, Time
<1>2. ASSUME claimed' = claimed, task' = task \/ task'.tick = task.tick, now' >= now,
             NEW c \in Calls, \A d \in Calls : d # c => call'[d] = call[d],
             call'[c].pc = "claim" => call'[c].tick <= now
      PROVE  ClaimInv'
  BY <1>2, ClaimKept
<1>3. ASSUME claimed' = claimed, task' = task \/ task'.tick = task.tick, now' = now \/ now' = now + 1,
             call' = call
      PROVE  ClaimInv'
  <2>1. now' >= now
    BY <1>1, <1>3
  <2> QED BY <1>3, <2>1, ClaimKept
<1>4. ASSUME NEW c \in Calls, NEW pc, To(c, pc)
      PROVE  call'[c].pc = pc /\ \A d \in Calls : d # c => call'[d] = call[d]
  BY <1>4 DEF To, TypeOK, Call
<1>5. now >= now
  BY <1>1
<1>6. ASSUME NEW p \in Procs,
             Boot(p) \/ Listen(p) \/ Stop(p) \/ Drain(p) \/ Interrupt(p) \/ InterruptTask(p)
      PROVE  ClaimInv'
  <2>1. task' = task \/ task'.tick = task.tick
    BY <1>6 DEF Boot, Listen, Stop, Drain, Interrupt, InterruptTask, tables, TypeOK, Task
  <2>2. claimed' = claimed /\ now' = now /\ call' = call
    BY <1>6 DEF Boot, Listen, Stop, Drain, Interrupt, InterruptTask, tables
  <2> QED BY <1>3, <2>1, <2>2
<1>7. ASSUME NEW p \in Procs, Gone(p) PROVE ClaimInv'
  <2>1. claimed' = claimed /\ task' = task /\ now' = now
    BY <1>7 DEF Gone
  <2>2. ASSUME NEW c \in Calls, call'[c].pc = "claim" PROVE call'[c] = call[c]
    <3>1. call[c] \in Call
      BY DEF TypeOK
    <3>2. [call[c] EXCEPT !.pc = "over"].pc = "over"
      BY <3>1 DEF Call
    <3> QED BY <1>7, <2>2, <3>2 DEF Gone
  <2> QED BY <1>5, <2>1, <2>2, ClaimKept
<1>8. ASSUME NEW p \in Procs, NEW c \in Calls, Fire(p, c) PROVE ClaimInv'
  <2>1. \A d \in Calls : d # c => call'[d] = call[d]
    BY <1>8 DEF Fire, TypeOK
  <2>2. call'[c].tick = proc[p].next
    <3>1. call[c] \in Call /\ call \in [Calls -> Call]
      BY DEF TypeOK
    <3>2. call'[c] = [call[c] EXCEPT !.pc = "claim", !.proc = p,
                                     !.cron = proc[p].job, !.tick = proc[p].next]
      BY <1>8, <3>1 DEF Fire
    <3> QED BY <3>1, <3>2 DEF Call
  <2>3. proc[p].next <= now
    <3>1. proc[p].next \in Int
      BY DEF TypeOK, Process
    <3> QED BY <1>1, <1>8, <3>1 DEF Fire
  <2> QED BY <1>2, <1>5, <1>8, <2>1, <2>2, <2>3 DEF Fire, tables
<1>9. ASSUME NEW p \in Procs, NEW c \in Calls, Trigger(p, c) PROVE ClaimInv'
  <2>1. call[c] \in Call /\ call \in [Calls -> Call]
    BY DEF TypeOK
  <2>2. call'[c] = [call[c] EXCEPT !.pc = "enter", !.proc = p]
    BY <1>9, <2>1 DEF Trigger
  <2>3. call'[c].pc = "enter"
    BY <2>1, <2>2 DEF Call
  <2>4. \A d \in Calls : d # c => call'[d] = call[d]
    BY <1>9 DEF Trigger, TypeOK
  <2> QED BY <1>2, <1>5, <1>9, <2>3, <2>4 DEF Trigger, tables
<1>10. ASSUME NEW c \in Calls, Claim(c) PROVE ClaimInv'
  BY <1>10, ClaimClaims
<1>11. ASSUME NEW c \in Calls,
              \/ Adapt(c) \/ FailStale(c) \/ FailStaleTask(c) \/ TryLock(c) \/ Insert(c) \/ Register(c)
              \/ Mark(c) \/ Record(c) \/ RecordTask(c) \/ Unlock(c) \/ UnlockFails(c)
              \/ FailsEarly(c)
       PROVE  ClaimInv'
  <2>1. task' = task \/ task'.tick = task.tick
    BY <1>11 DEF Adapt, FailStale, FailStaleTask, TryLock, Insert, Register, Mark, Record,
                 RecordTask, Unlock, UnlockFails, FailsEarly, tables, TypeOK, Task
  <2>2. claimed' = claimed /\ now' = now
    BY <1>11 DEF Adapt, FailStale, FailStaleTask, TryLock, Insert, Register, Mark, Record,
                 RecordTask, Unlock, UnlockFails, FailsEarly, tables
  <2>3. \E pc : pc # "claim" /\ To(c, pc)
    BY <1>11 DEF Adapt, FailStale, FailStaleTask, TryLock, Insert, Register, Mark, Record,
                 RecordTask, Unlock, UnlockFails, FailsEarly
  <2> QED BY <1>2, <1>4, <1>5, <2>1, <2>2, <2>3
<1>12. ASSUME NEW c \in Calls, Reread(c) \/ Enter(c) \/ Handle(c) \/ Fails(c) PROVE ClaimInv'
  <2>1. call[c] \in Call /\ call \in [Calls -> Call]
    BY DEF TypeOK
  <2>2. claimed' = claimed /\ task' = task /\ now' = now
    BY <1>12 DEF Reread, Enter, Handle, Fails, tables
  <2>3. \A d \in Calls : d # c => call'[d] = call[d]
    BY <1>12 DEF Reread, Enter, Handle, Fails, TypeOK
  <2>4. CASE Reread(c)
    <3>1. call'[c] = [call[c] EXCEPT !.pc = "adapt", !.seen = Stored]
      BY <2>1, <2>4 DEF Reread
    <3>2. call'[c].pc # "claim"
      BY <2>1, <3>1 DEF Call
    <3> QED BY <1>2, <1>5, <2>2, <2>3, <3>2
  <2>5. CASE Enter(c)
    <3>1. \/ call'[c] = [call[c] EXCEPT !.pc = "stale", !.start = now]
          \/ call'[c] = [call[c] EXCEPT !.pc = "over"]
      BY <2>1, <2>5 DEF Enter
    <3>2. call'[c].pc # "claim"
      BY <2>1, <3>1 DEF Call
    <3> QED BY <1>2, <1>5, <2>2, <2>3, <3>2
  <2>6. CASE Handle(c)
    <3>1. \E o \in Outcomes : call'[c] = [call[c] EXCEPT !.pc = "record", !.outcome = o]
      BY <2>1, <2>6 DEF Handle
    <3>2. call'[c].pc # "claim"
      BY <2>1, <3>1 DEF Call
    <3> QED BY <1>2, <1>5, <2>2, <2>3, <3>2
  <2>7. CASE Fails(c)
    <3>1. \/ call'[c] = [call[c] EXCEPT !.pc = "record", !.outcome = "failure"]
          \/ call'[c] = [call[c] EXCEPT !.pc = "unlock"]
      BY <2>1, <2>7 DEF Fails
    <3>2. call'[c].pc # "claim"
      BY <2>1, <3>1 DEF Call
    <3> QED BY <1>2, <1>5, <2>2, <2>3, <3>2
  <2> QED BY <1>12, <2>4, <2>5, <2>6, <2>7
<1>13. CASE LoseSession \/ SessionCloses \/ Wait
  BY <1>3, <1>13 DEF LoseSession, SessionCloses, Wait, tables
<1> QED
  BY <1>6, <1>7, <1>8, <1>9, <1>10, <1>11, <1>12, <1>13 DEF Next, RunStep, Exit, Crash

\* As long as no administrator edits the task meanwhile, a tick is claimed by one
\* process only, for any number of processes, calls and crons, whatever tick was stored.
THEOREM TicksClaimedOnce == ASSUME Admins = {} PROVE Spec => []TickRunsOnce
<1>1. Init => ClaimInv
  BY DEF Init, ClaimInv, Unused
<1>2. TypeOK /\ TypeOK' /\ ClaimInv /\ [Next]_vars => ClaimInv'
  <2>1. ASSUME TypeOK, ClaimInv, UNCHANGED vars PROVE ClaimInv'
    BY <2>1 DEF ClaimInv, vars, tables
  <2> QED BY <2>1, ClaimInvStep
<1>3. ClaimInv => TickRunsOnce
  BY DEF ClaimInv, TickRunsOnce
<1> QED BY <1>1, <1>2, <1>3, TypeCorrect, PTL DEF Spec
================================================================================
