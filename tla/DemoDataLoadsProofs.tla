--------------------------- MODULE DemoDataLoadsProofs ---------------------------
(***************************************************************************)
(* What a tenant shows of its sample data is true, for any number of       *)
(* tenants, API processes and runs: a load shown as loaded is whole where  *)
(* a living process writes its heartbeats in time (KeepsPace), an empty    *)
(* workspace stays empty where a loader that ended writes nothing later    *)
(* (QuietLoads).  The types, and that a tenant is idle only where that was *)
(* asked for, need neither.                                                *)
(*                                                                         *)
(* Nothing but the status, the run and the age of the heartbeat in the     *)
(* tenant's row tells a run whether the tenant is still its own.  With     *)
(* heartbeats in time a run that loads or erases is never taken over, and  *)
(* one that was taken over has nothing left to do but a write whose        *)
(* condition fails.  With quiet loaders nothing is written but by the load *)
(* that the tenant shows, so that what a reset erased before it settles a  *)
(* state that is still its own stays erased.  The parts of the invariant   *)
(* that an assumption gives have it as their condition.                    *)
(***************************************************************************)
EXTENDS DemoDataLoads, TLAPS

--------------------------------------------------------------------------------
(* Types *)

\* The types, with what a restored state must have for them.
Types ==
    /\ TypeOK
    /\ \A r \in Runs : job[r].prev.run = Nobody => job[r].prev.status = "idle"

\* The state that a tenant starts in.
LEMMA IdleTyped == Idle \in Demo /\ Idle.run = Nobody /\ Idle.status = "idle"
BY DEF Idle, Demo, Status

\* No job, and a new one.
LEMMA NoJobTyped == ASSUME NEW t \in Tenants PROVE
    /\ NoJob(t) \in Job
    /\ NoJob(t).pc = "over" /\ NoJob(t).kind = "load" /\ NoJob(t).tenant = t
    /\ NoJob(t).prev = Idle /\ NoJob(t).err = FALSE
BY IdleTyped DEF NoJob, Job

\* One job changes.
LEMMA JobMoved ==
    ASSUME Types, NEW r \in Runs, NEW j \in Job, job' = [job EXCEPT ![r] = j]
    PROVE  /\ job' \in [Runs -> Job]
           /\ job'[r] = j
           /\ \A q \in Runs \ {r} : job'[q] = job[q]
BY DEF Types, TypeOK

\* A job goes on, or ends.
LEMMA JobTo ==
    ASSUME Types, NEW r \in Runs,
           NEW pc \in {"over", "claim", "loader", "mark", "move", "reset", "locked", "purging",
                       "settle", "giveup", "restore"},
           To(r, pc)
    PROVE  /\ job' \in [Runs -> Job]
           /\ job'[r].pc = pc /\ job'[r].tenant = job[r].tenant /\ job'[r].kind = job[r].kind
           /\ job'[r].err = job[r].err /\ job'[r].prev = job[r].prev /\ job'[r].proc = job[r].proc
           /\ \A q \in Runs \ {r} : job'[q] = job[q]
<1> DEFINE j == [job[r] EXCEPT !.pc = pc]
<1>1. job[r] \in Job
  BY DEF Types, TypeOK
<1>2. j \in Job /\ j.pc = pc /\ j.tenant = job[r].tenant /\ j.kind = job[r].kind
      /\ j.err = job[r].err /\ j.prev = job[r].prev /\ j.proc = job[r].proc
  BY <1>1 DEF Job
<1>3. job' = [job EXCEPT ![r] = j]
  BY DEF To
<1> HIDE DEF j
<1> QED BY <1>2, <1>3, JobMoved

\* A job ends.
LEMMA JobOver ==
    ASSUME Types, NEW r \in Runs, Over(r)
    PROVE  /\ job' \in [Runs -> Job]
           /\ job'[r] = NoJob(job[r].tenant)
           /\ job'[r].pc = "over" /\ job'[r].tenant = job[r].tenant /\ job'[r].kind = "load"
           /\ job'[r].prev = Idle
           /\ \A q \in Runs \ {r} : job'[q] = job[q]
<1>1. job[r].tenant \in Tenants
  BY DEF Types, TypeOK, Job
<1>2. job' = [job EXCEPT ![r] = NoJob(job[r].tenant)]
  BY DEF Over
<1> QED BY <1>1, <1>2, NoJobTyped, JobMoved

\* One state changes.
LEMMA DemoMoved ==
    ASSUME Types, NEW t \in Tenants, NEW d \in Demo, demo' = [demo EXCEPT ![t] = d]
    PROVE  /\ demo' \in [Tenants -> Demo]
           /\ demo'[t] = d /\ \A u \in Tenants \ {t} : demo'[u] = demo[u]
BY DEF Types, TypeOK


--------------------------------------------------------------------------------
(* What the steps that write the state do *)

\* The state d that run r leaves its tenant t in when it ends: a load that ends well, a reset
\* that ends, fails, or restores what there was.
Ended(r, t, d) ==
    /\ demo[t].run = r
    /\ \/ /\ At(r, "mark") /\ demo[t].status = "loading"
          /\ d.status = "loaded" /\ d.run = r
       \/ /\ At(r, "settle") /\ demo[t].status = "resetting" /\ job[r].err
          /\ d.status = "failed" /\ d.run = r
       \/ /\ At(r, "settle") /\ demo[t].status = "resetting" /\ ~ job[r].err
          /\ d.status = "idle" /\ d.run = Nobody
       \/ /\ At(r, "giveup") /\ demo[t].status = "resetting"
          /\ d.status = "failed" /\ d.run = r
       \/ /\ At(r, "restore") /\ demo[t].status = "resetting"
          /\ d.status = job[r].prev.status /\ d.run = job[r].prev.run

\* The state is written only by the run it names.
LEMMA EndDoes ==
    ASSUME Types, NEW r \in Runs, NEW t \in Tenants, t = job[r].tenant,
           Mark(r) \/ Settle(r) \/ GiveUp(r) \/ Restore(r)
    PROVE  /\ Over(r) /\ UNCHANGED <<rows, txn, loader, flight, proc, asked>>
           /\ job[r].pc \in {"mark", "settle", "giveup", "restore"}
           /\ demo' = demo \/ \E d \in Demo : Ended(r, t, d) /\ demo' = [demo EXCEPT ![t] = d]
<1>1. /\ Over(r) /\ UNCHANGED <<rows, txn, loader, flight, proc, asked>>
      /\ job[r].pc \in {"mark", "settle", "giveup", "restore"}
  BY DEF Mark, Settle, GiveUp, Restore, At
<1>2. PICK o \in Demo : o = demo[t]
  BY DEF Types, TypeOK
<1>3. CASE Mark(r) /\ Owns(r, {"loading"})
  <2> DEFINE d == [o EXCEPT !.status = "loaded", !.fresh = FALSE]
  <2>1. d \in Demo /\ d.status = "loaded" /\ d.run = o.run
    BY DEF Demo, Status
  <2>2. demo' = [demo EXCEPT ![t] = d]
    BY <1>2, <1>3 DEF Mark, Types, TypeOK
  <2> HIDE DEF d
  <2>3. Ended(r, t, d)
    BY <1>2, <1>3, <2>1 DEF Ended, Mark, Owns
  <2> QED BY <1>1, <2>1, <2>2, <2>3
<1>4. CASE ((Settle(r) /\ job[r].err) \/ GiveUp(r)) /\ Owns(r, {"resetting"})
  <2> DEFINE d == [o EXCEPT !.status = "failed", !.fresh = FALSE, !.err = TRUE]
  <2>1. d \in Demo /\ d.status = "failed" /\ d.run = o.run
    BY DEF Demo, Status
  <2>2. demo' = [demo EXCEPT ![t] = d]
    BY <1>2, <1>4 DEF Settle, GiveUp, Types, TypeOK
  <2> HIDE DEF d
  <2>3. Ended(r, t, d)
    BY <1>2, <1>4, <2>1 DEF Ended, Settle, GiveUp, Owns
  <2> QED BY <1>1, <2>1, <2>2, <2>3
<1>5. CASE Settle(r) /\ ~ job[r].err /\ Owns(r, {"resetting"})
  <2>1. demo' = [demo EXCEPT ![t] = Idle]
    BY <1>5 DEF Settle
  <2>2. Ended(r, t, Idle)
    BY <1>5, IdleTyped DEF Ended, Settle, Owns
  <2> QED BY <1>1, <2>1, <2>2, IdleTyped
<1>6. CASE Restore(r) /\ Owns(r, {"resetting"})
  <2>1. job[r].prev \in Demo /\ demo' = [demo EXCEPT ![t] = job[r].prev]
    BY <1>6 DEF Restore, Types, TypeOK, Job
  <2>2. Ended(r, t, job[r].prev)
    BY <1>6 DEF Ended, Restore, Owns
  <2> QED BY <1>1, <2>1, <2>2
<1>7. CASE demo' = demo
  BY <1>1, <1>7
<1> QED BY <1>3, <1>4, <1>5, <1>6, <1>7 DEF Mark, Settle, GiveUp, Restore

\* A load that failed and is still its tenant's becomes a reset with an error.
MovedOn(r, t) ==
    /\ demo[t].run = r /\ demo[t].status = "loading"
    /\ demo' \in [Tenants -> Demo] /\ \A u \in Tenants \ {t} : demo'[u] = demo[u]
    /\ demo'[t].status = "resetting" /\ demo'[t].run = r /\ demo'[t].fresh /\ demo'[t].err
    /\ job' \in [Runs -> Job] /\ \A q \in Runs \ {r} : job'[q] = job[q]
    /\ job'[r].pc = "reset" /\ job'[r].err /\ job'[r].kind = job[r].kind
    /\ job'[r].prev = job[r].prev /\ job'[r].tenant = t

\* Such a run moves its tenant to a reset, or has nothing more to do.
LEMMA MoveDoes ==
    ASSUME Types, NEW r \in Runs, NEW t \in Tenants, t = job[r].tenant, Move(r)
    PROVE  (Over(r) /\ UNCHANGED demo) \/ MovedOn(r, t)
<1>1. PICK d \in Demo, o \in Job : d = demo[t] /\ o = job[r]
  BY DEF Types, TypeOK
<1> DEFINE n == [d EXCEPT !.status = "resetting", !.fresh = TRUE, !.err = TRUE]
           j == [o EXCEPT !.pc = "reset", !.err = TRUE]
<1>2. /\ n \in Demo /\ n.status = "resetting" /\ n.fresh /\ n.err /\ n.run = d.run
      /\ j \in Job /\ j.pc = "reset" /\ j.err /\ j.kind = o.kind /\ j.prev = o.prev /\ j.tenant = o.tenant
  BY DEF Demo, Status, Job
<1>3. \/ Over(r) /\ UNCHANGED demo
      \/ /\ demo[t].run = r /\ demo[t].status = "loading"
         /\ demo' = [demo EXCEPT ![t] = n] /\ job' = [job EXCEPT ![r] = j]
  BY <1>1 DEF Move, Owns, Types, TypeOK
<1> HIDE DEF n, j
<1> QED BY <1>1, <1>2, <1>3, DemoMoved, JobMoved DEF MovedOn

\* A claim that is won; its loader may not start.
Claimed(r, t) ==
    /\ demo[t].status \in {"idle", "failed"}
    /\ demo' \in [Tenants -> Demo] /\ \A u \in Tenants \ {t} : demo'[u] = demo[u]
    /\ demo'[t].status = "loading" /\ demo'[t].run = r /\ demo'[t].fresh
    /\ ~ asked'[t] /\ \A u \in Tenants \ {t} : asked'[u] = asked[u]
    /\ job' \in [Runs -> Job] /\ \A q \in Runs \ {r} : job'[q] = job[q]
    /\ job'[r].pc \in {"over", "loader", "move"} /\ job'[r].tenant = t
    /\ job'[r].kind = "load" \/ job'[r].kind = job[r].kind
    /\ job'[r].prev = job[r].prev \/ job'[r].prev = Idle
    /\ \A q \in Runs \ {r} : loader'[q] = loader[q]
    /\ loader'[r] = loader[r] \/ (loader'[r] = "on" /\ job'[r].pc = "loader")

\* A run wins its claim, or has nothing more to do.
LEMMA ClaimDoes ==
    ASSUME Types, NEW r \in Runs, NEW t \in Tenants, t = job[r].tenant, Claim(r)
    PROVE  (Over(r) /\ UNCHANGED <<demo, asked, loader>>) \/ Claimed(r, t)
<1> DEFINE n == [status |-> "loading", run |-> r, err |-> FALSE, fresh |-> TRUE]
<1>1. n \in Demo /\ n.status = "loading" /\ n.run = r /\ n.fresh
  BY DEF Demo, Status
<1>2. \/ Over(r) /\ UNCHANGED <<demo, asked, loader>>
      \/ /\ demo[t].status \in {"idle", "failed"}
         /\ demo' = [demo EXCEPT ![t] = n]
         /\ asked' = [asked EXCEPT ![t] = FALSE]
         /\ \/ Over(r) /\ UNCHANGED loader
            \/ To(r, "loader") /\ loader' = [loader EXCEPT ![r] = "on"]
            \/ To(r, "move") /\ UNCHANGED loader
  BY DEF Claim, StartLoader
<1> HIDE DEF n
<1> SUFFICES ASSUME demo[t].status \in {"idle", "failed"},
                    demo' = [demo EXCEPT ![t] = n], asked' = [asked EXCEPT ![t] = FALSE],
                    \/ Over(r) /\ UNCHANGED loader
                    \/ To(r, "loader") /\ loader' = [loader EXCEPT ![r] = "on"]
                    \/ To(r, "move") /\ UNCHANGED loader
             PROVE  Claimed(r, t)
  BY <1>2
<1>3. /\ demo' \in [Tenants -> Demo] /\ \A u \in Tenants \ {t} : demo'[u] = demo[u]
      /\ demo'[t].status = "loading" /\ demo'[t].run = r /\ demo'[t].fresh
  BY <1>1, DemoMoved
<1>4. ~ asked'[t] /\ \A u \in Tenants \ {t} : asked'[u] = asked[u]
  BY DEF Types, TypeOK
<1>5. /\ \A q \in Runs \ {r} : loader'[q] = loader[q]
      /\ loader'[r] = loader[r] \/ (loader'[r] = "on" /\ To(r, "loader"))
  BY DEF Types, TypeOK
<1>6. /\ job' \in [Runs -> Job] /\ \A q \in Runs \ {r} : job'[q] = job[q]
      /\ job'[r].pc \in {"over", "loader", "move"} /\ job'[r].tenant = t
      /\ job'[r].kind = "load" \/ job'[r].kind = job[r].kind
      /\ job'[r].prev = job[r].prev \/ job'[r].prev = Idle
      /\ To(r, "loader") => job'[r].pc = "loader"
  BY JobOver, JobTo
<1> QED BY <1>3, <1>4, <1>5, <1>6 DEF Claimed

\* A new run is one that nothing refers to.
LEMMA NewRunUnused == ASSUME Unused # {} PROVE NewRun \in Unused
BY DEF NewRun

\* The types at the start ...
LEMMA TypesInit == Init => Types
<1> SUFFICES ASSUME Init PROVE Types
  OBVIOUS
<1>1. PICK t \in Tenants : job = [r \in Runs |-> NoJob(t)]
  BY DEF Init
<1>2. job \in [Runs -> Job] /\ \A r \in Runs : job[r].prev = Idle
  BY <1>1, NoJobTyped
<1>3. demo \in [Tenants -> Demo] /\ \A u \in Tenants : demo[u].status = "idle"
  BY IdleTyped DEF Init
<1> QED BY <1>2, <1>3, IdleTyped DEF Init, Types, TypeOK

\* What a step does to the jobs keeps the types, if it does the same to the rest.
LEMMA TypesKept ==
    ASSUME Types,
           job' \in [Runs -> Job],
           \A r \in Runs : job'[r].prev.run = Nobody => job'[r].prev.status = "idle",
           demo' \in [Tenants -> Demo],
           \A t \in Tenants : demo'[t].run = Nobody => demo'[t].status = "idle",
           rows' \in [Tenants -> SUBSET Runs], txn' \in [Tenants -> Runs \cup {Nobody}],
           loader' \in [Runs -> {"off", "on", "done"}], flight' \subseteq Runs,
           proc' \in [Procs -> {"up", "stopping", "down"}], asked' \in [Tenants -> BOOLEAN]
    PROVE  Types'
BY DEF Types, TypeOK

\* What the steps that draw a run r for tenant t do: a load, ...
LoadDrawn(t, r) ==
    /\ r \in Runs /\ job' \in [Runs -> Job]
    /\ job'[r].pc = "claim" /\ job'[r].kind = "load" /\ job'[r].tenant = t /\ job'[r].prev = Idle
    /\ \A q \in Runs \ {r} : job'[q] = job[q]

\* ... a reset, ...
ResetDrawn(t, r) ==
    /\ r \in Runs /\ job' \in [Runs -> Job]
    /\ job'[r].pc = "reset" /\ job'[r].kind = "asked" /\ job'[r].tenant = t
    /\ job'[r].prev = demo[t] /\ ~ job'[r].err
    /\ \A q \in Runs \ {r} : job'[q] = job[q]
    /\ demo' \in [Tenants -> Demo] /\ \A u \in Tenants \ {t} : demo'[u] = demo[u]
    /\ demo'[t].status = "resetting" /\ demo'[t].run = r /\ ~ demo'[t].err /\ demo'[t].fresh

\* ... a takeover, of a load or of a reset that has an error.
TakeoverDrawn(t, r) ==
    /\ r \in Runs /\ job' \in [Runs -> Job]
    /\ job'[r].pc = "reset" /\ job'[r].kind = "taken" /\ job'[r].tenant = t /\ job'[r].prev = Idle
    /\ job'[r].err = demo'[t].err
    /\ \A q \in Runs \ {r} : job'[q] = job[q]
    /\ demo' \in [Tenants -> Demo] /\ \A u \in Tenants \ {t} : demo'[u] = demo[u]
    /\ demo'[t].status = "resetting" /\ demo'[t].run = r /\ demo'[t].fresh
    /\ ~ demo'[t].err => demo[t].status # "loading" /\ ~ demo[t].err

\* A load draws a run that nothing refers to.
LEMMA LoadDoes ==
    ASSUME Types, NEW p \in Procs, NEW t \in Tenants, Load(p, t)
    PROVE  \E r \in Unused : LoadDrawn(t, r)
<1>1. NewRun \in Unused /\ NewRun \in Runs
  BY NewRunUnused DEF Load, Unused
<1>2. PICK r \in Unused : r = NewRun /\ r \in Runs
  BY <1>1
<1>3. PICK n \in Job : n = NoJob(t)
  BY NoJobTyped
<1> DEFINE j == [n EXCEPT !.pc = "claim", !.proc = p]
<1>4. j \in Job /\ j.pc = "claim" /\ j.kind = n.kind /\ j.tenant = n.tenant /\ j.prev = n.prev
  BY <1>3 DEF Job
<1>5. job' = [job EXCEPT ![r] = j]
  BY <1>2, <1>3 DEF Load
<1> HIDE DEF j
<1>6. job' \in [Runs -> Job] /\ job'[r] = j /\ \A q \in Runs \ {r} : job'[q] = job[q]
  BY <1>2, <1>4, <1>5, JobMoved
<1>7. n.kind = "load" /\ n.tenant = t /\ n.prev = Idle
  BY <1>3, NoJobTyped
<1> QED BY <1>2, <1>4, <1>6, <1>7 DEF LoadDrawn

\* So does a reset, ...
LEMMA StartResetDoes ==
    ASSUME Types, NEW p \in Procs, NEW t \in Tenants, StartReset(p, t)
    PROVE  \E r \in Unused : ResetDrawn(t, r)
<1>1. NewRun \in Unused /\ NewRun \in Runs
  BY NewRunUnused DEF StartReset, Unused
<1>2. PICK r \in Unused : r = NewRun /\ r \in Runs
  BY <1>1
<1>3. PICK n \in Job, m \in Demo : n = NoJob(t) /\ m = demo[t]
  BY NoJobTyped DEF Types, TypeOK
<1> DEFINE j == [n EXCEPT !.pc = "reset", !.kind = "asked", !.proc = p, !.prev = m]
           d == [status |-> "resetting", run |-> r, err |-> FALSE, fresh |-> TRUE]
<1>4. /\ j \in Job /\ j.pc = "reset" /\ j.kind = "asked" /\ j.tenant = n.tenant
      /\ j.prev = m /\ j.err = n.err
  BY <1>3 DEF Job
<1>5. d \in Demo
  BY <1>2 DEF Demo, Status
<1>6. job' = [job EXCEPT ![r] = j] /\ demo' = [demo EXCEPT ![t] = d]
  BY <1>2, <1>3 DEF StartReset
<1>7. /\ demo' \in [Tenants -> Demo] /\ \A u \in Tenants \ {t} : demo'[u] = demo[u]
      /\ demo'[t].status = "resetting" /\ demo'[t].run = r /\ ~ demo'[t].err /\ demo'[t].fresh
  <2>1. d.status = "resetting" /\ d.run = r /\ ~ d.err /\ d.fresh
    OBVIOUS
  <2> HIDE DEF d
  <2> QED BY <1>5, <1>6, <2>1 DEF Types, TypeOK
<1> HIDE DEF j
<1>8. job' \in [Runs -> Job] /\ job'[r] = j /\ \A q \in Runs \ {r} : job'[q] = job[q]
  BY <1>2, <1>4, <1>6, JobMoved
<1>9. n.err = FALSE /\ n.tenant = t
  BY <1>3, NoJobTyped
<1> QED BY <1>2, <1>3, <1>4, <1>7, <1>8, <1>9 DEF ResetDrawn

\* ... and a takeover.
LEMMA ReconcileDoes ==
    ASSUME Types, NEW p \in Procs, NEW t \in Tenants, Reconcile(p, t)
    PROVE  \E r \in Unused : TakeoverDrawn(t, r)
<1>1. NewRun \in Unused /\ NewRun \in Runs
  BY NewRunUnused DEF Reconcile, Unused
<1>2. PICK r \in Unused : r = NewRun /\ r \in Runs
  BY <1>1
<1>3. PICK n \in Job : n = NoJob(t)
  BY NoJobTyped
<1>4. (demo[t].status = "loading" \/ demo[t].err) \in BOOLEAN
  OBVIOUS
<1>5. PICK failed \in BOOLEAN : failed = (demo[t].status = "loading" \/ demo[t].err)
  BY <1>4
<1> DEFINE j == [n EXCEPT !.pc = "reset", !.kind = "taken", !.proc = p, !.err = failed]
           d == [status |-> "resetting", run |-> r, err |-> failed, fresh |-> TRUE]
<1>6. /\ j \in Job /\ j.pc = "reset" /\ j.kind = "taken" /\ j.tenant = n.tenant
      /\ j.prev = n.prev /\ j.err = failed
  BY <1>3 DEF Job
<1>7. d \in Demo
  BY <1>2 DEF Demo, Status
<1>8. job' = [job EXCEPT ![r] = j] /\ demo' = [demo EXCEPT ![t] = d]
  BY <1>2, <1>3, <1>5 DEF Reconcile
<1>9. /\ demo' \in [Tenants -> Demo] /\ \A u \in Tenants \ {t} : demo'[u] = demo[u]
      /\ demo'[t].status = "resetting" /\ demo'[t].run = r /\ demo'[t].err = failed /\ demo'[t].fresh
  <2>1. d.status = "resetting" /\ d.run = r /\ d.err = failed /\ d.fresh
    OBVIOUS
  <2> HIDE DEF d
  <2> QED BY <1>7, <1>8, <2>1 DEF Types, TypeOK
<1> HIDE DEF j
<1>10. job' \in [Runs -> Job] /\ job'[r] = j /\ \A q \in Runs \ {r} : job'[q] = job[q]
  BY <1>2, <1>6, <1>8, JobMoved
<1>11. n.tenant = t /\ n.prev = Idle
  BY <1>3, NoJobTyped
<1> QED BY <1>2, <1>3, <1>5, <1>6, <1>9, <1>10, <1>11 DEF TakeoverDrawn

\* The steps that draw a run.
LEMMA TypesNew ==
    ASSUME Types, NEW p \in Procs, NEW t \in Tenants,
           Load(p, t) \/ StartReset(p, t) \/ Reconcile(p, t)
    PROVE  Types'
<1>1. CASE Load(p, t)
  <2>1. UNCHANGED <<demo, rows, txn, loader, flight, proc, asked>>
    BY <1>1 DEF Load
  <2>2. job' \in [Runs -> Job] /\ \A q \in Runs : job'[q].prev.run = Nobody => job'[q].prev.status = "idle"
    BY <1>1, LoadDoes, IdleTyped DEF LoadDrawn, Types
  <2> QED BY <2>1, <2>2, TypesKept DEF Types, TypeOK
<1>2. CASE StartReset(p, t)
  <2>1. UNCHANGED <<rows, txn, loader, flight, proc>> /\ asked' = [asked EXCEPT ![t] = TRUE]
    BY <1>2 DEF StartReset
  <2>0. PICK r \in Unused : ResetDrawn(t, r)
    BY <1>2, StartResetDoes
  <2>2. job' \in [Runs -> Job] /\ \A q \in Runs : job'[q].prev.run = Nobody => job'[q].prev.status = "idle"
    BY <2>0 DEF ResetDrawn, Types, TypeOK
  <2>3. demo' \in [Tenants -> Demo] /\ \A u \in Tenants : demo'[u].run = Nobody => demo'[u].status = "idle"
    BY <2>0, LoadsAssumption DEF ResetDrawn, Types, TypeOK
  <2> QED BY <2>1, <2>2, <2>3, TypesKept DEF Types, TypeOK
<1>3. CASE Reconcile(p, t)
  <2>1. UNCHANGED <<rows, txn, loader, flight, proc, asked>>
    BY <1>3 DEF Reconcile
  <2>0. PICK r \in Unused : TakeoverDrawn(t, r)
    BY <1>3, ReconcileDoes
  <2>2. job' \in [Runs -> Job] /\ \A q \in Runs : job'[q].prev.run = Nobody => job'[q].prev.status = "idle"
    BY <2>0, IdleTyped DEF TakeoverDrawn, Types
  <2>3. demo' \in [Tenants -> Demo] /\ \A u \in Tenants : demo'[u].run = Nobody => demo'[u].status = "idle"
    BY <2>0, LoadsAssumption DEF TakeoverDrawn, Types, TypeOK
  <2> QED BY <2>1, <2>2, <2>3, TypesKept DEF Types, TypeOK
<1> QED BY <1>1, <1>2, <1>3

\* The steps of a run that write the state.
LEMMA TypesWrite ==
    ASSUME Types, NEW r \in Runs,
           Claim(r) \/ Mark(r) \/ Move(r) \/ Settle(r) \/ GiveUp(r) \/ Restore(r)
    PROVE  Types'
<1> DEFINE t == job[r].tenant
<1>1. /\ t \in Tenants /\ demo[t] \in Demo /\ (demo[t].run = Nobody => demo[t].status = "idle")
      /\ r # Nobody /\ job[r] \in Job /\ job[r].prev \in Demo
  BY LoadsAssumption DEF Types, TypeOK, Job
<1>2. Over(r) => job' \in [Runs -> Job] /\ \A q \in Runs : job'[q].prev.run = Nobody => job'[q].prev.status = "idle"
  BY JobOver, IdleTyped DEF Types
<1>3. ASSUME NEW d \in Demo, d.run = Nobody => d.status = "idle", demo' = [demo EXCEPT ![t] = d]
      PROVE  demo' \in [Tenants -> Demo] /\ \A u \in Tenants : demo'[u].run = Nobody => demo'[u].status = "idle"
  BY <1>1, <1>3 DEF Types, TypeOK
<1>4. demo' = demo => demo' \in [Tenants -> Demo] /\ \A u \in Tenants : demo'[u].run = Nobody => demo'[u].status = "idle"
  BY DEF Types, TypeOK
<1>5. CASE Claim(r)
  <2>1. CASE Over(r) /\ UNCHANGED <<demo, asked, loader>>
    BY <1>2, <1>4, <1>5, <2>1, TypesKept DEF Claim, Types, TypeOK
  <2>2. CASE Claimed(r, t)
    <3>1. demo' \in [Tenants -> Demo] /\ \A u \in Tenants : demo'[u].run = Nobody => demo'[u].status = "idle"
      BY <1>1, <2>2 DEF Claimed, Types, TypeOK
    <3>2. job' \in [Runs -> Job] /\ \A q \in Runs : job'[q].prev.run = Nobody => job'[q].prev.status = "idle"
      BY <2>2, IdleTyped DEF Claimed, Types
    <3>3. loader' \in [Runs -> {"off", "on", "done"}] /\ asked' \in [Tenants -> BOOLEAN]
      BY <1>5 DEF Claim, StartLoader, Types, TypeOK
    <3> QED BY <1>5, <3>1, <3>2, <3>3, TypesKept DEF Claim, Types, TypeOK
  <2> QED BY <1>1, <1>5, <2>1, <2>2, ClaimDoes
<1>6. CASE Mark(r) \/ Settle(r) \/ GiveUp(r) \/ Restore(r)
  <2>1. /\ Over(r) /\ UNCHANGED <<rows, txn, loader, flight, proc, asked>>
        /\ demo' = demo \/ \E d \in Demo : Ended(r, t, d) /\ demo' = [demo EXCEPT ![t] = d]
    BY <1>1, <1>6, EndDoes
  <2>2. ASSUME NEW d \in Demo, Ended(r, t, d) PROVE d.run = Nobody => d.status = "idle"
    BY <1>1, <2>2 DEF Ended, Types
  <2>3. demo' \in [Tenants -> Demo] /\ \A u \in Tenants : demo'[u].run = Nobody => demo'[u].status = "idle"
    BY <1>3, <1>4, <2>1, <2>2
  <2> QED BY <1>2, <2>1, <2>3, TypesKept DEF Types, TypeOK
<1>7. CASE Move(r)
  <2>1. UNCHANGED <<rows, txn, loader, flight, proc, asked>>
    BY <1>7 DEF Move
  <2>2. CASE Over(r) /\ UNCHANGED demo
    BY <1>2, <1>4, <2>1, <2>2, TypesKept DEF Types, TypeOK
  <2>3. CASE MovedOn(r, t)
    <3>1. demo' \in [Tenants -> Demo] /\ \A u \in Tenants : demo'[u].run = Nobody => demo'[u].status = "idle"
      BY <1>1, <2>3 DEF MovedOn, Types, TypeOK
    <3>2. job' \in [Runs -> Job] /\ \A q \in Runs : job'[q].prev.run = Nobody => job'[q].prev.status = "idle"
      BY <2>3 DEF MovedOn, Types
    <3> QED BY <2>1, <3>1, <3>2, TypesKept DEF Types, TypeOK
  <2> QED BY <1>1, <1>7, <2>2, <2>3, MoveDoes
<1> QED BY <1>5, <1>6, <1>7

\* The other steps of a run, and of its loader.
LEMMA TypesRun ==
    ASSUME Types, NEW r \in Runs,
           Lock(r) \/ LockRow(r) \/ Purge(r) \/ ResetFails(r) \/ StateLost(r) \/ LoaderStep(r)
    PROVE  Types'
<1>1. job' = job \/ Over(r) \/ \E pc \in {"restore", "locked", "purging", "settle", "giveup", "mark", "move"} : To(r, pc)
  BY DEF Lock, LockRow, Purge, ResetFails, StateLost, LoaderStep, Request, Written, LoaderEnds
<1>2. job' \in [Runs -> Job] /\ \A q \in Runs : job'[q].prev.run = Nobody => job'[q].prev.status = "idle"
  <2>1. CASE Over(r)
    BY <2>1, JobOver, IdleTyped DEF Types
  <2>2. ASSUME NEW pc \in {"restore", "locked", "purging", "settle", "giveup", "mark", "move"}, To(r, pc)
        PROVE  <1>2!:
    BY <2>2, JobTo DEF Types
  <2> QED BY <1>1, <2>1, <2>2 DEF Types, TypeOK
<1>3. UNCHANGED <<demo, proc, asked>>
  BY DEF Lock, LockRow, Purge, ResetFails, StateLost, LoaderStep, Request, Written, LoaderEnds
<1>4. job[r].tenant \in Tenants
  BY DEF Types, TypeOK, Job
<1>5. rows' \in [Tenants -> SUBSET Runs]
  BY <1>4 DEF Types, TypeOK, Lock, LockRow, Purge, ResetFails, StateLost, LoaderStep, Request, Written, LoaderEnds
<1>6. txn' \in [Tenants -> Runs \cup {Nobody}]
  BY <1>4 DEF Types, TypeOK, Lock, LockRow, Purge, ResetFails, StateLost, LoaderStep, Request, Written, LoaderEnds
<1>7. loader' \in [Runs -> {"off", "on", "done"}] /\ flight' \subseteq Runs
  BY DEF Types, TypeOK, Lock, LockRow, Purge, ResetFails, StateLost, LoaderStep, Request, Written, LoaderEnds
<1> QED BY <1>2, <1>3, <1>5, <1>6, <1>7, TypesKept DEF Types, TypeOK

\* Heartbeats, and what happens to processes.
LEMMA TypesRest ==
    ASSUME Types,
           \/ \E t \in Tenants : Beat(t) \/ GoesStale(t)
           \/ \E p \in Procs : Boot(p) \/ Stop(p) \/ Exit(p) \/ Crash(p)
    PROVE  Types'
<1>1. ASSUME NEW t \in Tenants, Beat(t) \/ GoesStale(t)
      PROVE  Types'
  <2>1. PICK b \in BOOLEAN : demo' = [demo EXCEPT ![t].fresh = b]
    BY <1>1 DEF Beat, GoesStale
  <2>2. demo' \in [Tenants -> Demo] /\ \A u \in Tenants : demo'[u].run = Nobody => demo'[u].status = "idle"
    BY <2>1 DEF Types, TypeOK, Demo
  <2>3. UNCHANGED <<rows, txn, job, loader, flight, proc, asked>>
    BY <1>1 DEF Beat, GoesStale
  <2> QED BY <2>2, <2>3, TypesKept DEF Types, TypeOK
<1>2. ASSUME NEW p \in Procs, Boot(p) \/ Stop(p) \/ Exit(p) \/ Crash(p)
      PROVE  Types'
  <2>1. UNCHANGED <<demo, rows, flight, asked>> /\ \E s \in {"up", "stopping", "down"} : proc' = [proc EXCEPT ![p] = s]
    BY <1>2 DEF Boot, Stop, Exit, Crash, Gone
  <2>2. \A r \in Runs : /\ job[r] \in Job /\ NoJob(job[r].tenant) \in Job
                       /\ NoJob(job[r].tenant).prev.status = "idle"
    BY NoJobTyped, IdleTyped DEF Types, TypeOK, Job
  <2>3. job' \in [Runs -> Job] /\ \A q \in Runs : job'[q].prev.run = Nobody => job'[q].prev.status = "idle"
    <3>1. CASE Boot(p)
      BY <3>1 DEF Boot, Types, TypeOK
    <3>2. CASE Stop(p)
      BY <2>2, <3>2 DEF Stop, Types
    <3>3. CASE Exit(p) \/ Crash(p)
      BY <2>2, <3>3 DEF Exit, Crash, Gone, Types
    <3> QED BY <1>2, <3>1, <3>2, <3>3
  <2>4. txn' \in [Tenants -> Runs \cup {Nobody}]
    BY <1>2 DEF Boot, Stop, Exit, Crash, Gone, Types, TypeOK
  <2>5. loader' \in [Runs -> {"off", "on", "done"}]
    BY <1>2 DEF Boot, Stop, Exit, Crash, Gone, Types, TypeOK
  <2>6. proc' \in [Procs -> {"up", "stopping", "down"}]
    BY <2>1 DEF Types, TypeOK
  <2> QED BY <2>1, <2>3, <2>4, <2>5, <2>6, TypesKept DEF Types, TypeOK
<1> QED BY <1>1, <1>2

\* ... and after any step.
LEMMA TypesNext ==
    ASSUME Types, [Next]_vars
    PROVE  Types'
<1>1. CASE UNCHANGED vars
  BY <1>1 DEF vars, Types, TypeOK
<1>2. CASE Next
  BY <1>2, TypesNew, TypesWrite, TypesRun, TypesRest DEF Next, RunStep, TakeOver
<1> QED BY <1>1, <1>2

\* Every variable keeps its type: a state that a reset restores is one the tenant had.
THEOREM TypeCorrect == Spec => []TypeOK
<1>1. Types => TypeOK
  BY DEF Types
<1> QED BY TypesInit, TypesNext, <1>1, PTL DEF Spec

--------------------------------------------------------------------------------
(* Whose reset it is *)

\* The loads and the resets that go on.
Loading == {"loader", "mark", "move"}
Resetting == {"reset", "locked", "purging"}

\* The reset of a failed load stays one, and only a reset asked for restores a state.
CauseKept(r) ==
    /\ job[r].pc \in Resetting \cup {"settle"} /\ Owns(r, {"resetting"}) =>
          (job[r].err <=> demo[job[r].tenant].err)
    /\ job[r].kind = "asked" => job[r].prev.status \in {"loaded", "failed"}
    /\ At(r, "restore") => job[r].kind = "asked"
    /\ job[r].pc \in {"claim"} \cup Loading => job[r].kind = "load"

\* A reset without an error was asked for.
Asked(t) ==
    demo[t].status = "idle" \/ (demo[t].status = "resetting" /\ ~ demo[t].err) => asked[t]

Causes ==
    /\ Types
    /\ \A r \in Runs : CauseKept(r)
    /\ \A t \in Tenants : Asked(t)

\* The types that the steps below need.
LEMMA Typed == ASSUME Types PROVE
    /\ Nobody \notin Runs
    /\ \A r \in Runs : job[r].tenant \in Tenants /\ job[r].prev.run \in Runs \cup {Nobody}
                       /\ (job[r].prev.run = Nobody => job[r].prev.status = "idle")
    /\ \A t \in Tenants : demo[t].run \in Runs \cup {Nobody} /\ txn[t] \in Runs \cup {Nobody}
                          /\ (demo[t].run = Nobody => demo[t].status = "idle")
    /\ Idle.run = Nobody /\ Idle.status = "idle"
    /\ flight \subseteq Runs
BY IdleTyped, LoadsAssumption DEF Types, TypeOK, Job, Demo

\* A step of run r, of tenant t, that makes no reset of another run's state.
LEMMA CausesStep ==
    ASSUME Causes, Types', NEW r \in Runs, NEW t \in Tenants, job'[r].tenant = t,
           \A q \in Runs \ {r} : job'[q] = job[q],
           \A u \in Tenants \ {t} : demo'[u] = demo[u] /\ asked'[u] = asked[u],
           \A q \in Runs \ {r} : demo'[t].run = q /\ demo'[t].status = "resetting" =>
               demo[t].run = q /\ demo[t].status = "resetting" /\ (demo'[t].err <=> demo[t].err),
           CauseKept(r)', Asked(t)'
    PROVE  Causes'
<1>1. ASSUME NEW q \in Runs \ {r} PROVE CauseKept(q)'
  <2>1. CauseKept(q) /\ job'[q] = job[q] /\ job[q].tenant \in Tenants
    BY Typed DEF Causes
  <2>2. CASE job[q].tenant = t
    BY <2>1, <2>2 DEF CauseKept, Owns, At
  <2>3. CASE job[q].tenant # t
    BY <2>1, <2>3 DEF CauseKept, Owns, At
  <2> QED BY <2>2, <2>3
<1>2. ASSUME NEW u \in Tenants \ {t} PROVE Asked(u)'
  BY DEF Causes, Asked
<1> QED BY <1>1, <1>2 DEF Causes

\* A run that ends writes no reset.
LEMMA CausesEnd ==
    ASSUME Causes, NEW r \in Runs, Mark(r) \/ Settle(r) \/ GiveUp(r) \/ Restore(r)
    PROVE  Causes'
<1>1. PICK t \in Tenants : t = job[r].tenant
  BY Typed DEF Causes
<1>2. /\ Types /\ Types' /\ Over(r) /\ UNCHANGED asked
      /\ demo' = demo \/ \E d \in Demo : Ended(r, t, d) /\ demo' = [demo EXCEPT ![t] = d]
  BY <1>1, EndDoes, TypesWrite DEF Causes
<1>3. /\ job'[r].pc = "over" /\ job'[r].tenant = t /\ job'[r].kind = "load"
      /\ \A q \in Runs \ {r} : job'[q] = job[q]
  BY <1>1, <1>2, JobOver
<1>4. CauseKept(r)'
  BY <1>3 DEF CauseKept, Loading, Resetting, At
<1>5. CASE demo' = demo
  BY <1>2, <1>3, <1>4, <1>5, CausesStep DEF Causes, Asked
<1>6. ASSUME NEW d \in Demo, Ended(r, t, d), demo' = [demo EXCEPT ![t] = d]
      PROVE  Causes'
  <2>1. demo'[t] = d /\ \A u \in Tenants \ {t} : demo'[u] = demo[u]
    BY <1>2, <1>6, DemoMoved
  <2>2. d.status # "resetting" /\ (d.status = "idle" => asked[t])
    BY <1>1, <1>6 DEF Ended, Causes, CauseKept, Asked, Owns, At
  <2>3. Asked(t)'
    BY <1>2, <2>1, <2>2 DEF Asked
  <2> QED BY <1>2, <1>3, <1>4, <2>1, <2>2, <2>3, CausesStep
<1> QED BY <1>2, <1>5, <1>6

\* A claim makes a load of a tenant's state, and a load that failed a reset with an error.
LEMMA CausesLoad ==
    ASSUME Causes, NEW r \in Runs, Claim(r) \/ Move(r)
    PROVE  Causes'
<1>1. PICK t \in Tenants : t = job[r].tenant
  BY Typed DEF Causes
<1>2. Types /\ Types' /\ CauseKept(r)
  BY TypesWrite DEF Causes
<1>3. CASE Over(r) /\ UNCHANGED <<demo, asked>>
  <2>1. /\ job'[r].pc = "over" /\ job'[r].tenant = t /\ job'[r].kind = "load"
        /\ \A q \in Runs \ {r} : job'[q] = job[q]
    BY <1>1, <1>2, <1>3, JobOver
  <2>2. CauseKept(r)'
    BY <2>1 DEF CauseKept, Loading, Resetting, At
  <2> QED BY <1>2, <1>3, <2>1, <2>2, CausesStep DEF Causes, Asked
<1>4. CASE Claim(r) /\ Claimed(r, t)
  <2>1. CauseKept(r)' /\ Asked(t)'
    BY <1>2, <1>4 DEF Claim, Claimed, CauseKept, Asked, Loading, Resetting, Owns, At
  <2> QED BY <1>2, <1>4, <2>1, CausesStep DEF Claimed
<1>5. CASE Move(r) /\ MovedOn(r, t)
  <2>1. CauseKept(r)' /\ Asked(t)'
    BY <1>2, <1>5 DEF Move, MovedOn, CauseKept, Asked, Loading, Resetting, Owns, At
  <2>2. asked' = asked
    BY <1>5 DEF Move
  <2> QED BY <1>2, <1>5, <2>1, <2>2, CausesStep DEF MovedOn
<1>6. Move(r) => UNCHANGED asked
  BY DEF Move
<1> QED BY <1>1, <1>2, <1>3, <1>4, <1>5, <1>6, ClaimDoes, MoveDoes

\* The other steps of a run, and of its loader.
LEMMA CausesRun ==
    ASSUME Causes, NEW r \in Runs,
           Lock(r) \/ LockRow(r) \/ Purge(r) \/ ResetFails(r) \/ StateLost(r) \/ LoaderStep(r)
    PROVE  Causes'
<1>1. PICK t \in Tenants : t = job[r].tenant
  BY Typed DEF Causes
<1>2. Types /\ Types' /\ CauseKept(r) /\ UNCHANGED <<demo, asked>>
  BY TypesRun DEF Causes, Lock, LockRow, Purge, ResetFails, StateLost, LoaderStep, Request, Written, LoaderEnds
<1>3. \/ UNCHANGED job
      \/ Over(r)
      \/ job[r].kind = "asked" /\ To(r, "restore")
      \/ To(r, "giveup")
      \/ job[r].pc \in Resetting /\ \E pc \in {"locked", "purging", "settle"} : To(r, pc)
      \/ At(r, "loader") /\ \E pc \in {"mark", "move"} : To(r, pc)
  BY DEF Lock, LockRow, Purge, ResetFails, StateLost, LoaderStep, Request, Written, LoaderEnds, Resetting, At
<1>4. /\ job'[r].tenant = t /\ \A q \in Runs \ {r} : job'[q] = job[q]
      /\ \/ job'[r].pc = "over" /\ job'[r].kind = "load"
         \/ /\ job'[r].kind = job[r].kind /\ job'[r].err = job[r].err /\ job'[r].prev = job[r].prev
            /\ \/ job'[r].pc = job[r].pc
               \/ job'[r].pc = "restore" /\ job[r].kind = "asked"
               \/ job'[r].pc = "giveup"
               \/ job[r].pc \in Resetting /\ job'[r].pc \in Resetting \cup {"settle"}
               \/ job[r].pc = "loader" /\ job'[r].pc \in {"mark", "move"}
  <2>1. CASE Over(r)
    BY <1>1, <1>2, <2>1, JobOver
  <2>2. ASSUME NEW pc \in {"restore", "giveup", "locked", "purging", "settle", "mark", "move"}, To(r, pc)
        PROVE  /\ job'[r].pc = pc /\ job'[r].tenant = t /\ job'[r].kind = job[r].kind
               /\ job'[r].err = job[r].err /\ job'[r].prev = job[r].prev
               /\ \A q \in Runs \ {r} : job'[q] = job[q]
    BY <1>1, <1>2, <2>2, JobTo
  <2>3. CASE UNCHANGED job
    BY <1>1, <2>3
  <2> QED BY <1>3, <2>1, <2>2, <2>3 DEF Resetting, At
<1>5. CauseKept(r)'
  BY <1>1, <1>2, <1>4 DEF CauseKept, Loading, Resetting, Owns, At
<1> QED BY <1>2, <1>4, <1>5, CausesStep DEF Causes, Asked

\* A load that is drawn, a reset that is asked for, a takeover that keeps the error.
LEMMA CausesNew ==
    ASSUME Causes, NEW p \in Procs, NEW t \in Tenants,
           Load(p, t) \/ StartReset(p, t) \/ Reconcile(p, t)
    PROVE  Causes'
<1>1. Types /\ Types' /\ Asked(t)
  BY TypesNew DEF Causes
<1>2. CASE Load(p, t)
  <2>1. PICK r \in Unused : LoadDrawn(t, r)
    BY <1>1, <1>2, LoadDoes
  <2>2. CauseKept(r)'
    BY <2>1 DEF LoadDrawn, CauseKept, Loading, Resetting, At
  <2>3. UNCHANGED <<demo, asked>>
    BY <1>2 DEF Load
  <2> QED BY <1>1, <2>1, <2>2, <2>3, CausesStep DEF LoadDrawn, Asked
<1>3. CASE StartReset(p, t)
  <2>1. PICK r \in Unused : ResetDrawn(t, r)
    BY <1>1, <1>3, StartResetDoes
  <2>2. /\ demo[t].status \in {"loaded", "failed"}
        /\ asked'[t] /\ \A u \in Tenants \ {t} : asked'[u] = asked[u]
    BY <1>1, <1>3 DEF StartReset, Types, TypeOK
  <2>3. CauseKept(r)' /\ Asked(t)'
    BY <2>1, <2>2 DEF ResetDrawn, CauseKept, Asked, Loading, Resetting, Owns, At
  <2> QED BY <1>1, <2>1, <2>2, <2>3, CausesStep DEF ResetDrawn
<1>4. CASE Reconcile(p, t)
  <2>1. PICK r \in Unused : TakeoverDrawn(t, r)
    BY <1>1, <1>4, ReconcileDoes
  <2>2. demo[t].status \in {"loading", "resetting"} /\ UNCHANGED asked
    BY <1>4 DEF Reconcile
  <2>3. CauseKept(r)' /\ Asked(t)'
    BY <1>1, <2>1, <2>2 DEF TakeoverDrawn, CauseKept, Asked, Loading, Resetting, Owns, At
  <2> QED BY <1>1, <2>1, <2>2, <2>3, CausesStep DEF TakeoverDrawn
<1> QED BY <1>2, <1>3, <1>4

\* A heartbeat is written, or gets old.
LEMMA FreshMoved ==
    ASSUME Types, NEW t \in Tenants, NEW b \in BOOLEAN, demo' = [demo EXCEPT ![t].fresh = b]
    PROVE  /\ demo'[t].fresh = b /\ demo'[t].status = demo[t].status /\ demo'[t].run = demo[t].run
           /\ demo'[t].err = demo[t].err
           /\ \A u \in Tenants \ {t} : demo'[u] = demo[u]
<1>1. PICK d \in Demo : d = demo[t]
  BY DEF Types, TypeOK
<1> DEFINE n == [d EXCEPT !.fresh = b]
<1>2. n \in Demo /\ n.fresh = b /\ n.status = d.status /\ n.run = d.run /\ n.err = d.err
  BY DEF Demo
<1>3. demo' = [demo EXCEPT ![t] = n]
  BY <1>1 DEF Types, TypeOK
<1> HIDE DEF n
<1> QED BY <1>1, <1>2, <1>3, DemoMoved

\* Heartbeats, and what happens to processes.
LEMMA CausesRest ==
    ASSUME Causes,
           \/ \E t \in Tenants : Beat(t) \/ GoesStale(t)
           \/ \E p \in Procs : Boot(p) \/ Stop(p) \/ Exit(p) \/ Crash(p)
    PROVE  Causes'
<1>1. Types /\ Types'
  BY TypesRest DEF Causes
<1>2. ASSUME NEW t \in Tenants, Beat(t) \/ GoesStale(t)
      PROVE  Causes'
  <2>1. UNCHANGED <<job, asked>> /\ \E b \in BOOLEAN : demo' = [demo EXCEPT ![t].fresh = b]
    BY <1>2 DEF Beat, GoesStale
  <2>2. \A u \in Tenants : demo'[u].status = demo[u].status /\ demo'[u].run = demo[u].run
                           /\ demo'[u].err = demo[u].err
    BY <1>1, <2>1, FreshMoved
  <2>3. \A r \in Runs : CauseKept(r)'
    BY <2>1, <2>2, Typed DEF Causes, CauseKept, Owns, At
  <2> QED BY <1>1, <2>1, <2>2, <2>3 DEF Causes, Asked
<1>3. ASSUME NEW p \in Procs, Boot(p) \/ Stop(p) \/ Exit(p) \/ Crash(p)
      PROVE  Causes'
  <2>1. UNCHANGED <<demo, asked>> /\ \A r \in Runs : job'[r] = job[r] \/ job'[r] = NoJob(job[r].tenant)
    BY <1>3 DEF Boot, Stop, Exit, Crash, Gone
  <2>2. \A r \in Runs : job'[r] = job[r] \/ (job'[r].pc = "over" /\ job'[r].kind = "load")
    <3>1. \A r \in Runs : NoJob(job[r].tenant).pc = "over" /\ NoJob(job[r].tenant).kind = "load"
      BY <1>1, Typed, NoJobTyped
    <3> QED BY <2>1, <3>1
  <2>3. \A r \in Runs : CauseKept(r)'
    BY <2>1, <2>2 DEF Causes, CauseKept, Loading, Resetting, Owns, At
  <2> QED BY <1>1, <2>1, <2>3 DEF Causes, Asked
<1> QED BY <1>2, <1>3

\* At the start, and after any step.
LEMMA CausesInit == Init => Causes
<1> SUFFICES ASSUME Init PROVE Causes
  OBVIOUS
<1>1. PICK t \in Tenants : job = [r \in Runs |-> NoJob(t)]
  BY DEF Init
<1>2. \A r \in Runs : job[r].pc = "over" /\ job[r].kind = "load"
  BY <1>1, NoJobTyped
<1>3. \A u \in Tenants : asked[u]
  BY DEF Init
<1> QED BY <1>2, <1>3, TypesInit DEF Causes, CauseKept, Asked, Loading, Resetting, At

\* Every step keeps the causes.
LEMMA CausesNext ==
    ASSUME Causes, [Next]_vars
    PROVE  Causes'
<1>1. CASE UNCHANGED vars
  <2>1. Types'
    BY <1>1, TypesNext DEF Causes
  <2> QED BY <1>1, <2>1 DEF Causes, CauseKept, Asked, Owns, At, vars
<1>2. CASE Next
  BY <1>2, CausesNew, CausesEnd, CausesLoad, CausesRun, CausesRest DEF Next, RunStep, TakeOver
<1> QED BY <1>1, <1>2

\* Whatever the heartbeats and the loaders do, the starting state comes back only by a reset
\* that an administrator asked for.
THEOREM IdleAsked == Spec => []IdleWasAsked
<1>1. Causes => IdleWasAsked
  BY DEF Causes, Asked, IdleWasAsked
<1> QED BY CausesInit, CausesNext, <1>1, PTL DEF Spec

--------------------------------------------------------------------------------
(* The invariant *)

\* The run that a state names, or that a reset would restore, belongs to the tenant.  A
\* settled state names a run that is over.
Tenancy ==
    /\ \A t \in Tenants, r \in Runs : demo[t].run = r => job[r].tenant = t
    /\ \A t \in Tenants, r \in Runs :
          demo[t].run = r /\ demo[t].status \in {"loaded", "failed"} => At(r, "over")
    /\ \A q, r \in Runs : job[q].prev.run = r => At(r, "over") /\ job[r].tenant = job[q].tenant

\* The reset lock of a tenant is its reset's.
LockOwned ==
    /\ \A r \in Runs : job[r].pc \in {"locked", "purging"} => txn[job[r].tenant] = r
    /\ \A t \in Tenants, r \in Runs :
          txn[t] = r => job[r].tenant = t /\ job[r].pc \in {"locked", "purging"}

\* Where processes keep pace, nobody takes over the state of a run that loads or resets.
Undisturbed(r) == KeepsPace =>
    LET d == demo[job[r].tenant] IN
    /\ job[r].pc \in Loading => d.run = r /\ d.status = "loading" /\ d.fresh
    /\ job[r].pc \in Resetting => d.run = r /\ d.status = "resetting"
    /\ job[r].pc \in {"reset", "locked"} => d.fresh

\* A loader that is left runs alone.  Where loaders are quiet, one that lives, or a write
\* of it, is that of the load the tenant shows.
LoaderOwned(r) ==
    LET d == demo[job[r].tenant] IN
    /\ loader[r] # "off" => job[r].pc \in {"loader", "over"}
    /\ QuietLoads =>
          /\ r \in flight \/ loader[r] # "off" => d.run = r /\ d.status = "loading" /\ d.fresh
          /\ job[r].pc \in {"mark", "move"} => r \notin flight

\* What the rows are by the time a run writes its final state: those of its load, or of the
\* load a failed reset restores, where processes keep pace; none after its reset, where
\* loaders are quiet.
RowsKnown(r) ==
    LET t == job[r].tenant IN
    /\ KeepsPace =>
          /\ (At(r, "loader") /\ loader[r] = "done") \/ At(r, "mark") => r \in rows[t]
          /\ /\ job[r].pc \in Resetting \cup {"restore"} /\ Owns(r, {"resetting"})
             /\ job[r].kind = "asked" /\ job[r].prev.status = "loaded"
             => job[r].prev.run \in rows[t]
    /\ QuietLoads => (At(r, "settle") /\ Owns(r, {"resetting"}) => rows[t] = {})

IInv ==
    /\ Causes
    /\ Tenancy
    /\ LockOwned
    /\ \A r \in Runs : Undisturbed(r) /\ LoaderOwned(r) /\ RowsKnown(r)
    /\ KeepsPace => LoadedIsWhole
    /\ QuietLoads => IdleIsEmpty

\* A run that neither loads nor resets, and whose loader is gone, as far as is assumed.
Quiet(r) ==
    /\ KeepsPace => job[r].pc \notin Loading \cup Resetting
    /\ QuietLoads => loader[r] = "off" /\ r \notin flight

\* A step of run r, of tenant t, that leaves the other runs and tenants alone.
Only(r, t) ==
    /\ job'[r].tenant = t
    /\ job[r].tenant = t \/ r \in Unused
    /\ \A q \in Runs \ {r} : job'[q] = job[q] /\ loader'[q] = loader[q] /\ (q \in flight' <=> q \in flight)
    /\ \A u \in Tenants \ {t} : demo'[u] = demo[u] /\ rows'[u] = rows[u]

\* Such a step changes the tenant only if the others are done with it.
OthersDone(r, t) ==
    \A q \in Runs \ {r} : job[q].tenant = t =>
        Quiet(q) /\ (demo'[t].run = q => demo'[t].status # "resetting")

\* Or it leaves the state, and the rows as far as something is assumed of them.
Harmless(t) ==
    /\ demo'[t] = demo[t]
    /\ KeepsPace => rows[t] \subseteq rows'[t]
    /\ QuietLoads => rows'[t] \subseteq rows[t]

\* What the tenant shows is true.
Shown(t) ==
    /\ KeepsPace => (demo[t].status = "loaded" => demo[t].run \in rows[t])
    /\ QuietLoads => (demo[t].status = "idle" =>
                          rows[t] = {} /\ \A q \in flight : job[q].tenant # t)

\* What is left to show of such a step.
Local(r, t) == Undisturbed(r) /\ LoaderOwned(r) /\ RowsKnown(r) /\ Shown(t)

LEMMA InvShown == ASSUME IInv, NEW t \in Tenants PROVE Shown(t)
BY DEF IInv, Shown, LoadedIsWhole, IdleIsEmpty

\* The others are done where the run owns the state, where nobody changes it, and where it
\* is stale.
LEMMA OthersQuiet ==
    ASSUME IInv, NEW r \in Runs, NEW t \in Tenants,
           \/ demo[t].run = r
           \/ demo[t].status \notin {"loading", "resetting"}
           \/ ~ demo[t].fresh /\ ~ RowLocked(t)
    PROVE  \A q \in Runs \ {r} : job[q].tenant = t => Quiet(q)
<1>1. ASSUME NEW q \in Runs \ {r}, job[q].tenant = t PROVE Quiet(q)
  <2>1. Undisturbed(q) /\ LoaderOwned(q)
    BY DEF IInv
  <2>2. At(q, "purging") => RowLocked(t)
    BY <1>1 DEF IInv, LockOwned, RowLocked, At
  <2> QED BY <1>1, <2>1, <2>2, Typed DEF IInv, Causes, Undisturbed, LoaderOwned, Quiet, Loading, Resetting, At
<1> QED BY <1>1

\* A step of one run keeps the invariant if it does so for that run and its tenant.
LEMMA StepKeeps ==
    ASSUME IInv, Causes', NEW r \in Runs, NEW t \in Tenants, Only(r, t),
           Harmless(t) \/ OthersDone(r, t),
           Tenancy', LockOwned', Local(r, t)'
    PROVE  IInv'
<1>1. ASSUME NEW q \in Runs \ {r} PROVE (Undisturbed(q) /\ LoaderOwned(q) /\ RowsKnown(q))'
  <2>1. /\ job'[q] = job[q] /\ loader'[q] = loader[q] /\ (q \in flight' <=> q \in flight)
        /\ Undisturbed(q) /\ LoaderOwned(q) /\ RowsKnown(q)
    BY DEF Only, IInv
  <2>2. CASE Harmless(job[q].tenant)
    <3>1. (Undisturbed(q) /\ LoaderOwned(q))'
      BY <2>1, <2>2 DEF Undisturbed, LoaderOwned, Harmless
    <3>2. RowsKnown(q)'
      BY <2>1, <2>2 DEF RowsKnown, Owns, At, Harmless
    <3> QED BY <3>1, <3>2
  <2>3. CASE Quiet(q) /\ (demo'[job[q].tenant].run = q => demo'[job[q].tenant].status # "resetting")
    BY <2>1, <2>3 DEF Undisturbed, LoaderOwned, RowsKnown, Owns, At, Quiet, Loading, Resetting
  <2>4. job[q].tenant \in Tenants
    BY Typed DEF IInv, Causes
  <2>5. CASE job[q].tenant = t
    BY <2>2, <2>3, <2>5 DEF OthersDone
  <2>6. CASE job[q].tenant # t
    BY <2>2, <2>4, <2>6 DEF Only, Harmless
  <2> QED BY <2>5, <2>6
<1>2. ASSUME NEW u \in Tenants \ {t}
      PROVE  Shown(u)'
  <2>1. demo'[u] = demo[u] /\ rows'[u] = rows[u] /\ Shown(u)
    BY InvShown DEF Only
  <2>2. \A q \in flight' : job'[q].tenant = u => q \in flight /\ job[q].tenant = u
    BY DEF Only, Causes, Types, TypeOK
  <2> QED BY <2>1, <2>2 DEF Shown
<1>3. \A u \in Tenants : Shown(u)'
  BY <1>2 DEF Local
<1>4. (KeepsPace => LoadedIsWhole') /\ (QuietLoads => IdleIsEmpty')
  BY <1>3 DEF Shown, LoadedIsWhole, IdleIsEmpty
<1>5. \A q \in Runs : (Undisturbed(q) /\ LoaderOwned(q) /\ RowsKnown(q))'
  BY <1>1 DEF Local
<1> QED BY <1>4, <1>5 DEF IInv

\* A run that ends without a write of the state leaves it as it is.
LEMMA OverKeeps ==
    ASSUME IInv, Causes', NEW r \in Runs, job[r].pc \notin {"locked", "purging"}, Over(r),
           UNCHANGED <<demo, rows, txn, loader, flight>>
    PROVE  IInv'
<1>1. PICK t \in Tenants : t = job[r].tenant
  BY Typed DEF IInv, Causes
<1>2. /\ job'[r].pc = "over" /\ job'[r].tenant = t /\ job'[r].kind = "load" /\ job'[r].prev = Idle
      /\ \A q \in Runs \ {r} : job'[q] = job[q]
  BY <1>1, JobOver DEF IInv, Causes
<1>3. Only(r, t)
  BY <1>1, <1>2 DEF Only
<1>4. Tenancy'
  BY <1>1, <1>2, Typed DEF IInv, Causes, Tenancy, At
<1>5. LockOwned'
  BY <1>1, <1>2, Typed DEF IInv, Causes, LockOwned
<1>6. Undisturbed(r)' /\ LoaderOwned(r)'
  BY <1>1, <1>2 DEF IInv, Undisturbed, LoaderOwned, Loading, Resetting, At
<1>7. RowsKnown(r)'
  BY <1>1, <1>2 DEF IInv, RowsKnown, Resetting, At
<1>9. \A q \in flight' : job'[q].tenant = job[q].tenant
  BY <1>1, <1>2 DEF IInv, Causes, Types, TypeOK
<1>10. Local(r, t)'
  BY <1>6, <1>7, <1>9, InvShown DEF Local, Shown
<1>11. Harmless(t)
  BY DEF Harmless
<1> QED BY <1>3, <1>4, <1>5, <1>10, <1>11, StepKeeps

\* A run that owns the state settles it: its tenant then names a run that is over, with its
\* rows if it is loaded, or is empty.
LEMMA SettledKeeps ==
    ASSUME IInv, Causes', NEW r \in Runs, NEW t \in Tenants, t = job[r].tenant,
           demo[t].run = r, At(r, "mark") \/ demo[t].status = "resetting",
           job[r].pc \notin {"locked", "purging"}, Over(r),
           UNCHANGED <<rows, txn, loader, flight>>,
           \A u \in Tenants \ {t} : demo'[u] = demo[u],
           \/ /\ demo'[t].status = "idle" /\ demo'[t].run = Nobody
              /\ QuietLoads => rows[t] = {}
           \/ /\ demo'[t].status \in {"loaded", "failed"}
              /\ demo'[t].run = r \/ demo'[t].run = job[r].prev.run
              /\ KeepsPace /\ demo'[t].status = "loaded" => demo'[t].run \in rows[t]
    PROVE  IInv'
<1>1. QuietLoads => loader[r] = "off" /\ r \notin flight
  BY DEF IInv, LoaderOwned, At
<1>2. /\ job'[r].pc = "over" /\ job'[r].tenant = t /\ job'[r].kind = "load" /\ job'[r].prev = Idle
      /\ \A q \in Runs \ {r} : job'[q] = job[q]
  BY JobOver DEF IInv, Causes
<1>3. Only(r, t)
  BY <1>2 DEF Only
<1>4. \A q \in Runs \ {r} : job[q].tenant = t => Quiet(q)
  BY OthersQuiet
<1>5. OthersDone(r, t)
  BY <1>4 DEF OthersDone
<1>6. Tenancy'
  BY <1>2, Typed DEF IInv, Causes, Tenancy, At
<1>7. LockOwned'
  BY <1>2, Typed DEF IInv, Causes, LockOwned
<1>8. Undisturbed(r)' /\ LoaderOwned(r)'
  BY <1>1, <1>2 DEF IInv, Undisturbed, LoaderOwned, Loading, Resetting, At
<1>9. RowsKnown(r)'
  BY <1>1, <1>2 DEF RowsKnown, Resetting, At
<1>10. ASSUME QuietLoads, NEW q \in flight PROVE job'[q].tenant # t
  BY <1>1, <1>2, <1>4, <1>10, Typed DEF IInv, Causes, Quiet
<1>11. Shown(t)'
  BY <1>10 DEF Shown
<1>12. Local(r, t)'
  BY <1>8, <1>9, <1>11 DEF Local
<1> QED BY <1>3, <1>5, <1>6, <1>7, <1>12, StepKeeps

\* A run ends, and writes the state if that is still its own.
LEMMA EndKeeps ==
    ASSUME IInv, NEW r \in Runs, Mark(r) \/ Settle(r) \/ GiveUp(r) \/ Restore(r)
    PROVE  IInv'
<1>1. Types /\ Causes' /\ CauseKept(r)
  BY CausesEnd DEF IInv, Causes
<1>2. PICK t \in Tenants : t = job[r].tenant
  BY <1>1, Typed
<1>3. /\ Over(r) /\ UNCHANGED <<rows, txn, loader, flight>>
      /\ job[r].pc \in {"mark", "settle", "giveup", "restore"}
      /\ demo' = demo \/ \E d \in Demo : Ended(r, t, d) /\ demo' = [demo EXCEPT ![t] = d]
  BY <1>1, <1>2, EndDoes
<1>4. CASE demo' = demo
  BY <1>1, <1>3, <1>4, OverKeeps
<1>5. ASSUME NEW d \in Demo, Ended(r, t, d), demo' = [demo EXCEPT ![t] = d]
      PROVE  IInv'
  <2>1. demo'[t] = d /\ \A u \in Tenants \ {t} : demo'[u] = demo[u]
    BY <1>1, <1>5, DemoMoved
  <2>2. demo[t].run = r /\ (At(r, "mark") \/ demo[t].status = "resetting")
    BY <1>5 DEF Ended
  <2>3. RowsKnown(r)
    BY DEF IInv
  <2>4. \/ /\ d.status = "idle" /\ d.run = Nobody
           /\ QuietLoads => rows[t] = {}
        \/ /\ d.status \in {"loaded", "failed"}
           /\ d.run = r \/ d.run = job[r].prev.run
           /\ KeepsPace /\ d.status = "loaded" => d.run \in rows[t]
    BY <1>1, <1>2, <1>5, <2>3 DEF Ended, CauseKept, RowsKnown, Owns, At
  <2> QED BY <1>1, <1>2, <1>3, <2>1, <2>2, <2>4, SettledKeeps
<1> QED BY <1>3, <1>4, <1>5

\* A run that cannot write its state.
LEMMA StateLostKeeps ==
    ASSUME IInv, NEW r \in Runs, StateLost(r)
    PROVE  IInv'
<1>1. Causes'
  BY CausesRun DEF IInv, Causes
<1> QED BY <1>1, OverKeeps DEF StateLost

\* A claim that is won finds a tenant that nobody changes; the load may fail to start.
LEMMA ClaimKeeps ==
    ASSUME IInv, NEW r \in Runs, Claim(r)
    PROVE  IInv'
<1>1. PICK t \in Tenants : t = job[r].tenant
  BY Typed DEF IInv, Causes, Causes
<1>2. UNCHANGED <<rows, txn, flight>> /\ At(r, "claim") /\ Types /\ Causes'
  BY CausesLoad DEF Claim, IInv, Causes
<1>3. CASE Over(r) /\ UNCHANGED <<demo, loader>>
  BY <1>2, <1>3, OverKeeps DEF At
<1>4. CASE Claimed(r, t)
  <2>1. /\ demo[t].status \in {"idle", "failed"}
        /\ demo'[t].status = "loading" /\ demo'[t].run = r /\ demo'[t].fresh
        /\ \A u \in Tenants \ {t} : demo'[u] = demo[u]
        /\ job'[r].pc \in {"over", "loader", "move"} /\ job'[r].tenant = t
        /\ job'[r].prev = job[r].prev \/ job'[r].prev = Idle
        /\ \A q \in Runs \ {r} : job'[q] = job[q] /\ loader'[q] = loader[q]
        /\ loader'[r] = loader[r] \/ (loader'[r] = "on" /\ job'[r].pc = "loader")
    BY <1>4 DEF Claimed
  <2>2. loader[r] = "off" /\ (QuietLoads => r \notin flight)
    BY <1>1, <1>2, <2>1 DEF IInv, LoaderOwned, At
  <2>3. Only(r, t)
    BY <1>1, <1>2, <2>1 DEF Only
  <2>4. OthersDone(r, t)
    BY <2>1, OthersQuiet DEF OthersDone
  <2>5. Tenancy'
    BY <1>1, <1>2, <2>1, Typed DEF IInv, Causes, Tenancy, At
  <2>6. LockOwned'
    BY <1>1, <1>2, <2>1, Typed DEF IInv, Causes, LockOwned, At
  <2>7. Undisturbed(r)' /\ LoaderOwned(r)' /\ RowsKnown(r)'
    BY <1>1, <1>2, <2>1, <2>2 DEF Undisturbed, LoaderOwned, RowsKnown, Loading, Resetting, Owns, At
  <2> QED BY <1>2, <2>1, <2>3, <2>4, <2>5, <2>6, <2>7, StepKeeps DEF Local, Shown
<1> QED BY <1>1, <1>2, <1>3, <1>4, ClaimDoes

\* A load that failed becomes a reset.
LEMMA MoveKeeps ==
    ASSUME IInv, NEW r \in Runs, Move(r)
    PROVE  IInv'
<1>1. PICK t \in Tenants : t = job[r].tenant
  BY Typed DEF IInv, Causes, Causes
<1>2. UNCHANGED <<rows, txn, loader, flight>> /\ At(r, "move") /\ Types /\ Causes'
  BY CausesLoad DEF Move, IInv, Causes
<1>3. CASE Over(r) /\ UNCHANGED demo
  BY <1>2, <1>3, OverKeeps DEF At
<1>4. CASE MovedOn(r, t)
  <2>1. /\ demo[t].run = r /\ demo'[t].status = "resetting" /\ demo'[t].run = r /\ demo'[t].fresh
        /\ \A u \in Tenants \ {t} : demo'[u] = demo[u]
        /\ job'[r].pc = "reset" /\ job'[r].kind = job[r].kind
        /\ job'[r].prev = job[r].prev /\ job'[r].tenant = t
        /\ \A q \in Runs \ {r} : job'[q] = job[q]
    BY <1>4 DEF MovedOn
  <2>2. loader[r] = "off" /\ (QuietLoads => r \notin flight) /\ job[r].kind = "load"
    BY <1>2 DEF IInv, Causes, LoaderOwned, CauseKept, Loading, At
  <2>3. Only(r, t)
    BY <1>1, <1>2, <2>1 DEF Only
  <2>4. OthersDone(r, t)
    BY <2>1, OthersQuiet DEF OthersDone
  <2>5. Tenancy'
    BY <1>1, <1>2, <2>1, Typed DEF IInv, Causes, Tenancy, At
  <2>6. LockOwned'
    BY <1>1, <1>2, <2>1, Typed DEF IInv, Causes, LockOwned, At
  <2>7. Undisturbed(r)' /\ LoaderOwned(r)' /\ RowsKnown(r)'
    BY <1>2, <2>1, <2>2 DEF Undisturbed, LoaderOwned, RowsKnown, Loading, Resetting, Owns, At
  <2> QED BY <1>2, <2>1, <2>3, <2>4, <2>5, <2>6, <2>7, StepKeeps DEF Local, Shown
<1> QED BY <1>1, <1>2, <1>3, <1>4, MoveDoes

\* A step that changes neither the state nor the rows leaves what the tenant shows true.
LEMMA ShownKept ==
    ASSUME IInv, NEW r \in Runs, NEW t \in Tenants, Only(r, t),
           UNCHANGED <<demo, rows, flight>>
    PROVE  Shown(t)' /\ Harmless(t)
<1>1. \A q \in flight' : job'[q].tenant = job[q].tenant
  BY Typed DEF IInv, Causes, Only, Unused
<1> QED BY <1>1, InvShown DEF Shown, Harmless

\* The statements of a reset's transaction.
LEMMA LockKeeps ==
    ASSUME IInv, NEW r \in Runs, Lock(r)
    PROVE  IInv'
<1>1. PICK t \in Tenants : t = job[r].tenant
  BY Typed DEF IInv, Causes
<1>2. UNCHANGED <<demo, rows, loader, flight>> /\ At(r, "reset") /\ Types /\ Causes'
  BY CausesRun DEF Lock, IInv, Causes
<1>3. CASE Over(r) /\ UNCHANGED txn
  BY <1>2, <1>3, OverKeeps DEF At
<1>4. CASE \/ txn[t] = Nobody /\ txn' = [txn EXCEPT ![t] = r] /\ To(r, "locked")
           \/ job[r].kind = "asked" /\ To(r, "restore") /\ UNCHANGED txn
  <2>1. /\ job'[r].pc \in {"locked", "restore"} /\ (job'[r].pc = "restore" => job[r].kind = "asked")
        /\ job'[r].tenant = t /\ job'[r].kind = job[r].kind /\ job'[r].err = job[r].err
        /\ job'[r].prev = job[r].prev /\ \A q \in Runs \ {r} : job'[q] = job[q]
    BY <1>1, <1>2, <1>4, JobTo
  <2>2. Only(r, t)
    BY <1>1, <1>2, <2>1 DEF Only
  <2>3. Tenancy'
    BY <1>1, <1>2, <2>1, Typed DEF IInv, Causes, Tenancy, At
  <2>4. LockOwned'
    <3>1. CASE txn[t] = Nobody /\ txn' = [txn EXCEPT ![t] = r] /\ job'[r].pc = "locked"
      <4>1. txn'[t] = r /\ \A u \in Tenants \ {t} : txn'[u] = txn[u]
        BY <1>2, <3>1 DEF Types, TypeOK
      <4> QED BY <1>1, <1>2, <2>1, <3>1, <4>1, Typed DEF IInv, Causes, LockOwned, At
    <3>2. CASE txn' = txn /\ job'[r].pc = "restore"
      BY <1>1, <1>2, <2>1, <3>2, Typed DEF IInv, Causes, LockOwned, At
    <3> QED BY <1>2, <1>4, <3>1, <3>2, JobTo
  <2>5. Undisturbed(r)' /\ LoaderOwned(r)'
    BY <1>1, <1>2, <2>1 DEF IInv, Undisturbed, LoaderOwned, Loading, Resetting, Owns, At
  <2>6. RowsKnown(r)'
    BY <1>1, <1>2, <2>1 DEF IInv, RowsKnown, Resetting, Owns, At
  <2>7. Local(r, t)'
    BY <1>1, <1>2, <2>2, <2>5, <2>6, ShownKept DEF Local
  <2> QED BY <1>2, <2>2, <2>3, <2>4, <2>7, ShownKept, StepKeeps
<1> QED BY <1>1, <1>3, <1>4 DEF Lock

\* A run takes the lock of its tenant.
LEMMA LockRowKeeps ==
    ASSUME IInv, NEW r \in Runs, LockRow(r)
    PROVE  IInv'
<1>1. PICK t \in Tenants : t = job[r].tenant
  BY Typed DEF IInv, Causes
<1>2. UNCHANGED <<demo, rows, txn, loader, flight>> /\ At(r, "locked") /\ Types /\ Causes'
  BY CausesRun DEF LockRow, IInv, Causes
<1>3. /\ job'[r].pc = "purging" /\ job'[r].tenant = t /\ job'[r].kind = job[r].kind
      /\ job'[r].err = job[r].err /\ job'[r].prev = job[r].prev
      /\ \A q \in Runs \ {r} : job'[q] = job[q]
  BY <1>1, <1>2, JobTo DEF LockRow
<1>4. Only(r, t)
  BY <1>1, <1>2, <1>3 DEF Only
<1>5. Tenancy'
  BY <1>1, <1>2, <1>3, Typed DEF IInv, Causes, Tenancy, At
<1>6. LockOwned'
  BY <1>1, <1>2, <1>3, Typed DEF IInv, Causes, LockOwned, At
<1>7. Undisturbed(r)' /\ LoaderOwned(r)'
  BY <1>1, <1>2, <1>3 DEF IInv, Undisturbed, LoaderOwned, Loading, Resetting, Owns, At
<1>8. RowsKnown(r)'
  BY <1>1, <1>2, <1>3 DEF IInv, RowsKnown, Resetting, Owns, At
<1>9. Local(r, t)'
  BY <1>1, <1>2, <1>4, <1>7, <1>8, ShownKept DEF Local
<1> QED BY <1>2, <1>4, <1>5, <1>6, <1>9, ShownKept, StepKeeps

\* What is erased is the tenant's that the run has, and no load comes in between.
LEMMA PurgeKeeps ==
    ASSUME IInv, NEW r \in Runs, Purge(r)
    PROVE  IInv'
<1>1. PICK t \in Tenants : t = job[r].tenant
  BY Typed DEF IInv, Causes
<1>2. UNCHANGED <<demo, loader, flight>> /\ At(r, "purging") /\ Types /\ Causes'
  BY CausesRun DEF Purge, IInv, Causes
<1>3. KeepsPace => demo[t].run = r /\ demo[t].status = "resetting"
  BY <1>1, <1>2 DEF IInv, Undisturbed, Resetting, At
<1>4. loader[r] = "off"
  BY <1>2 DEF IInv, LoaderOwned, At
<1>5. /\ job'[r].pc = "settle" /\ job'[r].tenant = t /\ job'[r].kind = job[r].kind
      /\ job'[r].err = job[r].err /\ job'[r].prev = job[r].prev
      /\ \A q \in Runs \ {r} : job'[q] = job[q]
  BY <1>1, <1>2, JobTo DEF Purge
<1>6. /\ rows'[t] = {} /\ txn'[t] = Nobody
      /\ \A u \in Tenants \ {t} : rows'[u] = rows[u] /\ txn'[u] = txn[u]
  BY <1>1, <1>2 DEF Purge, Types, TypeOK
<1>7. Only(r, t)
  BY <1>1, <1>2, <1>5, <1>6 DEF Only
<1>8. Harmless(t) \/ OthersDone(r, t)
  <2>1. CASE KeepsPace
    BY <1>2, <1>3, <2>1, OthersQuiet DEF OthersDone
  <2>2. CASE ~ KeepsPace
    BY <1>2, <1>6, <2>2 DEF Harmless
  <2> QED BY <2>1, <2>2
<1>9. Tenancy'
  BY <1>1, <1>2, <1>3, <1>5, Typed DEF IInv, Causes, Tenancy, At
<1>10. LockOwned'
  BY <1>1, <1>2, <1>5, <1>6, Typed DEF IInv, Causes, LockOwned, At
<1>11. Undisturbed(r)' /\ LoaderOwned(r)'
  BY <1>1, <1>2, <1>3, <1>4, <1>5 DEF IInv, Undisturbed, LoaderOwned, Loading, Resetting, Owns, At
<1>12. RowsKnown(r)'
  BY <1>2, <1>4, <1>5, <1>6 DEF RowsKnown, Resetting, Owns, At
<1>13. Shown(t)'
  <2>1. \A q \in flight : job'[q].tenant = job[q].tenant
    BY <1>1, <1>5 DEF IInv, Causes, Types, TypeOK
  <2>2. Shown(t)
    BY InvShown
  <2> QED BY <1>2, <1>3, <1>6, <2>1, <2>2 DEF Shown
<1> QED BY <1>2, <1>7, <1>8, <1>9, <1>10, <1>11, <1>12, <1>13, StepKeeps DEF Local

\* A reset whose transaction fails leaves the lock, and the rows, as they were.
LEMMA ResetFailsKeeps ==
    ASSUME IInv, NEW r \in Runs, ResetFails(r)
    PROVE  IInv'
<1>1. PICK t \in Tenants : t = job[r].tenant
  BY Typed DEF IInv, Causes
<1>2. UNCHANGED <<demo, rows, loader, flight>> /\ job[r].pc \in Resetting /\ Types /\ Causes'
  BY CausesRun DEF ResetFails, IInv, Causes, Resetting
<1>3. /\ job'[r].pc \in {"restore", "giveup"} /\ (job'[r].pc = "restore" => job[r].kind = "asked")
      /\ job'[r].tenant = t /\ job'[r].kind = job[r].kind
      /\ job'[r].err = job[r].err /\ job'[r].prev = job[r].prev
      /\ \A q \in Runs \ {r} : job'[q] = job[q]
  <2>1. (job[r].kind = "asked" /\ To(r, "restore")) \/ To(r, "giveup")
    BY DEF ResetFails
  <2> QED BY <1>1, <1>2, <2>1, JobTo
<1>4. txn'[t] # r /\ \A u \in Tenants : txn'[u] = txn[u] \/ (txn'[u] = Nobody /\ txn[u] = r)
  <2>1. txn' = [txn EXCEPT ![t] = IF txn[t] = r THEN Nobody ELSE txn[t]]
    BY <1>1 DEF ResetFails
  <2>2. /\ \A u \in Tenants \ {t} : txn'[u] = txn[u]
        /\ txn[t] = r => txn'[t] = Nobody
        /\ txn[t] # r => txn'[t] = txn[t]
    BY <1>1, <1>2, <2>1 DEF Types, TypeOK
  <2> QED BY <2>2, Typed DEF IInv, Causes
<1>5. Only(r, t)
  BY <1>1, <1>2, <1>3 DEF Only
<1>6. Tenancy'
  BY <1>1, <1>2, <1>3, Typed DEF IInv, Causes, Tenancy, At, Resetting
<1>7. LockOwned'
  BY <1>1, <1>2, <1>3, <1>4, Typed DEF IInv, Causes, LockOwned
<1>8. Undisturbed(r)' /\ LoaderOwned(r)'
  BY <1>1, <1>2, <1>3 DEF IInv, Undisturbed, LoaderOwned, Loading, Resetting, Owns, At
<1>9. RowsKnown(r)'
  BY <1>1, <1>2, <1>3 DEF IInv, RowsKnown, Resetting, Owns, At
<1>10. Local(r, t)'
  BY <1>1, <1>2, <1>5, <1>8, <1>9, ShownKept DEF Local
<1> QED BY <1>2, <1>5, <1>6, <1>7, <1>10, ShownKept, StepKeeps

\* A loader that lives is its tenant's load: so are its requests, ...
LEMMA RequestKeeps ==
    ASSUME IInv, NEW r \in Runs, Request(r)
    PROVE  IInv'
<1>1. PICK t \in Tenants : t = job[r].tenant
  BY Typed DEF IInv, Causes
<1>2. /\ UNCHANGED <<demo, rows, txn, job, loader>> /\ flight' = flight \cup {r}
      /\ loader[r] = "on" /\ Types /\ Causes'
  BY CausesRun DEF Request, LoaderStep, IInv, Causes
<1>3. /\ QuietLoads => demo[t].run = r /\ demo[t].status = "loading" /\ demo[t].fresh
      /\ job[r].pc \notin {"mark", "move"}
  BY <1>1, <1>2 DEF IInv, LoaderOwned
<1>4. Only(r, t)
  BY <1>1, <1>2 DEF Only
<1>5. Tenancy' /\ LockOwned'
  BY <1>2 DEF IInv, Tenancy, LockOwned, At
<1>6. Undisturbed(r)' /\ LoaderOwned(r)' /\ RowsKnown(r)'
  BY <1>1, <1>2, <1>3 DEF IInv, Undisturbed, LoaderOwned, RowsKnown, Owns, At
<1>7. Local(r, t)'
  BY <1>2, <1>3, <1>6, InvShown DEF Local, Shown
<1>8. Harmless(t)
  BY <1>2 DEF Harmless
<1> QED BY <1>2, <1>4, <1>5, <1>7, <1>8, StepKeeps

\* ... and what they write.
LEMMA WrittenKeeps ==
    ASSUME IInv, NEW r \in Runs, Written(r)
    PROVE  IInv'
<1>1. PICK t \in Tenants : t = job[r].tenant
  BY Typed DEF IInv, Causes
<1>2. /\ UNCHANGED <<demo, txn, job>> /\ flight' = flight \ {r} /\ r \in flight
      /\ Types /\ Causes'
  BY CausesRun DEF Written, LoaderStep, IInv, Causes
<1>3. QuietLoads => /\ demo[t].run = r /\ demo[t].status = "loading" /\ demo[t].fresh
                    /\ job[r].pc \notin {"mark", "move"}
  BY <1>1, <1>2 DEF IInv, LoaderOwned
<1>4. rows'[t] = rows[t] \cup {r} /\ \A u \in Tenants \ {t} : rows'[u] = rows[u]
  BY <1>1, <1>2 DEF Written, Types, TypeOK
<1>5. /\ loader'[r] = loader[r] \/ (loader[r] = "on" /\ loader'[r] = "done")
      /\ \A q \in Runs \ {r} : loader'[q] = loader[q]
  BY <1>2 DEF Written, Types, TypeOK
<1>6. Only(r, t)
  BY <1>1, <1>2, <1>4, <1>5 DEF Only
<1>7. Harmless(t) \/ OthersDone(r, t)
  <2>1. CASE QuietLoads
    BY <1>2, <1>3, <2>1, OthersQuiet DEF OthersDone
  <2>2. CASE ~ QuietLoads
    BY <1>2, <1>4, <2>2 DEF Harmless
  <2> QED BY <2>1, <2>2
<1>8. Tenancy' /\ LockOwned'
  BY <1>2 DEF IInv, Tenancy, LockOwned, At
<1>9. Undisturbed(r)' /\ LoaderOwned(r)' /\ RowsKnown(r)'
  BY <1>1, <1>2, <1>3, <1>4, <1>5 DEF IInv, Undisturbed, LoaderOwned, RowsKnown, Owns, At, Loading
<1>10. Local(r, t)'
  BY <1>2, <1>3, <1>4, <1>9, InvShown DEF Local, Shown
<1> QED BY <1>2, <1>6, <1>7, <1>8, <1>10, StepKeeps

\* A loader that ends leaves no request behind.
LEMMA LoaderEndsKeeps ==
    ASSUME IInv, NEW r \in Runs, LoaderEnds(r)
    PROVE  IInv'
<1>1. PICK t \in Tenants : t = job[r].tenant
  BY Typed DEF IInv, Causes
<1>2. /\ UNCHANGED <<demo, rows, txn, flight>> /\ loader' = [loader EXCEPT ![r] = "off"]
      /\ loader[r] # "off" /\ (QuietLoads => r \notin flight) /\ Types /\ Causes'
  BY CausesRun DEF LoaderEnds, LoaderStep, IInv, Causes
<1>3. job[r].pc \in {"loader", "over"}
  BY <1>2 DEF IInv, LoaderOwned
<1>4. loader'[r] = "off" /\ \A q \in Runs \ {r} : loader'[q] = loader[q]
  BY <1>2 DEF Types, TypeOK
<1>5. /\ \/ job'[r].pc = job[r].pc
         \/ At(r, "loader") /\ job'[r].pc = "move"
         \/ At(r, "loader") /\ job'[r].pc = "mark" /\ (KeepsPace => r \in rows[t])
      /\ job'[r].tenant = t /\ job'[r].kind = job[r].kind /\ job'[r].err = job[r].err
      /\ job'[r].prev = job[r].prev /\ \A q \in Runs \ {r} : job'[q] = job[q]
  <2>1. KeepsPace /\ At(r, "loader") /\ loader[r] = "done" => r \in rows[t]
    BY <1>1 DEF IInv, RowsKnown
  <2>2. \/ UNCHANGED job
        \/ At(r, "loader") /\ To(r, "move")
        \/ At(r, "loader") /\ loader[r] = "done" /\ To(r, "mark")
    BY DEF LoaderEnds
  <2> QED BY <1>1, <1>2, <2>1, <2>2, JobTo
<1>6. Only(r, t)
  BY <1>1, <1>2, <1>4, <1>5 DEF Only
<1>7. Tenancy' /\ LockOwned'
  BY <1>1, <1>2, <1>3, <1>5, Typed DEF IInv, Causes, Tenancy, LockOwned, At
<1>8. Undisturbed(r)' /\ LoaderOwned(r)'
  BY <1>1, <1>2, <1>3, <1>4, <1>5 DEF IInv, Undisturbed, LoaderOwned, Loading, Resetting, Owns, At
<1>9. RowsKnown(r)'
  BY <1>1, <1>2, <1>3, <1>4, <1>5 DEF IInv, RowsKnown, Resetting, Owns, At
<1>10. Local(r, t)'
  BY <1>1, <1>2, <1>6, <1>8, <1>9, ShownKept DEF Local
<1> QED BY <1>2, <1>6, <1>7, <1>10, ShownKept, StepKeeps

\* A run that is drawn is not one that anything refers to.
LEMMA UnusedRun == ASSUME NEW r \in Unused PROVE
    /\ At(r, "over") /\ loader[r] = "off" /\ r \notin flight
    /\ \A u \in Tenants : demo[u].run # r /\ txn[u] # r
    /\ \A q \in Runs : job[q].prev.run # r
<1>1. /\ job[r].pc = "over" /\ loader[r] = "off" /\ r \notin flight
      /\ \A u \in Tenants : demo[u].run # r /\ r \notin rows[u] /\ txn[u] # r
      /\ \A q \in Runs : job[q].prev.run # r
  BY DEF Unused
<1> QED BY <1>1 DEF At

\* A load starts ...
LEMMA LoadKeeps ==
    ASSUME IInv, NEW p \in Procs, NEW t \in Tenants, Load(p, t)
    PROVE  IInv'
<1>1. UNCHANGED <<demo, rows, txn, loader, flight>> /\ Types /\ Causes'
  BY CausesNew DEF Load, IInv, Causes
<1>2. PICK r \in Unused : LoadDrawn(t, r)
  BY <1>1, LoadDoes
<1>3. /\ r \in Runs /\ job'[r].pc = "claim" /\ job'[r].kind = "load" /\ job'[r].tenant = t
      /\ job'[r].prev = Idle /\ \A q \in Runs \ {r} : job'[q] = job[q]
  BY <1>2 DEF LoadDrawn
<1>4. Only(r, t)
  BY <1>1, <1>3 DEF Only
<1>5. Tenancy'
  BY <1>1, <1>3, UnusedRun, Typed DEF IInv, Causes, Tenancy, At
<1>6. LockOwned'
  BY <1>1, <1>3, UnusedRun DEF IInv, LockOwned
<1>7. Undisturbed(r)' /\ LoaderOwned(r)' /\ RowsKnown(r)'
  BY <1>1, <1>3, UnusedRun DEF Undisturbed, LoaderOwned, RowsKnown, Loading, Resetting, Owns, At
<1>8. Local(r, t)'
  BY <1>1, <1>3, <1>4, <1>7, ShownKept DEF Local
<1> QED BY <1>1, <1>3, <1>4, <1>5, <1>6, <1>8, ShownKept, StepKeeps

\* A reset that is asked for finds a run that is over, and its rows if it is loaded.
LEMMA StartResetKeeps ==
    ASSUME IInv, NEW p \in Procs, NEW t \in Tenants, StartReset(p, t)
    PROVE  IInv'
<1>1. /\ UNCHANGED <<rows, txn, loader, flight>>
      /\ demo[t].status \in {"loaded", "failed"} /\ Types /\ Causes'
  BY CausesNew DEF StartReset, IInv, Causes
<1>2. PICK r \in Unused : ResetDrawn(t, r)
  BY <1>1, StartResetDoes
<1>3. /\ r \in Runs /\ job'[r].pc = "reset" /\ job'[r].kind = "asked" /\ job'[r].tenant = t
      /\ job'[r].prev = demo[t] /\ ~ job'[r].err
      /\ \A q \in Runs \ {r} : job'[q] = job[q]
      /\ demo'[t].status = "resetting" /\ demo'[t].run = r /\ ~ demo'[t].err /\ demo'[t].fresh
      /\ \A u \in Tenants \ {t} : demo'[u] = demo[u]
  BY <1>2 DEF ResetDrawn
<1>4. Only(r, t)
  BY <1>1, <1>3 DEF Only
<1>5. OthersDone(r, t)
  BY <1>1, <1>3, OthersQuiet DEF OthersDone
<1>6. Tenancy'
  BY <1>1, <1>3, UnusedRun, Typed DEF IInv, Causes, Tenancy, At
<1>7. LockOwned'
  BY <1>1, <1>3, UnusedRun DEF IInv, LockOwned
<1>8. Undisturbed(r)' /\ LoaderOwned(r)'
  BY <1>1, <1>3, UnusedRun DEF Undisturbed, LoaderOwned, Loading, Resetting, Owns, At
<1>9. RowsKnown(r)'
  BY <1>1, <1>3, UnusedRun DEF IInv, LoadedIsWhole, RowsKnown, Resetting, Owns, At
<1>10. Local(r, t)'
  BY <1>3, <1>8, <1>9 DEF Local, Shown
<1> QED BY <1>1, <1>3, <1>4, <1>5, <1>6, <1>7, <1>10, StepKeeps

\* What is taken over is stale, and no purge has the tenant's row: its run is done with it.
LEMMA ReconcileKeeps ==
    ASSUME IInv, NEW p \in Procs, NEW t \in Tenants, Reconcile(p, t)
    PROVE  IInv'
<1>1. /\ UNCHANGED <<rows, txn, loader, flight>>
      /\ demo[t].status \in {"loading", "resetting"} /\ ~ demo[t].fresh /\ ~ RowLocked(t)
      /\ Types /\ Causes'
  BY CausesNew DEF Reconcile, IInv, Causes
<1>2. PICK r \in Unused : TakeoverDrawn(t, r)
  BY <1>1, ReconcileDoes
<1>3. /\ r \in Runs /\ job'[r].pc = "reset" /\ job'[r].kind = "taken" /\ job'[r].tenant = t
      /\ job'[r].prev = Idle /\ job'[r].err = demo'[t].err
      /\ \A q \in Runs \ {r} : job'[q] = job[q]
      /\ demo'[t].status = "resetting" /\ demo'[t].run = r /\ demo'[t].fresh
      /\ ~ demo'[t].err => demo[t].status # "loading" /\ ~ demo[t].err
      /\ \A u \in Tenants \ {t} : demo'[u] = demo[u]
  BY <1>2 DEF TakeoverDrawn
<1>4. Only(r, t)
  BY <1>1, <1>3 DEF Only
<1>5. OthersDone(r, t)
  BY <1>1, <1>3, OthersQuiet DEF OthersDone
<1>6. Tenancy'
  BY <1>1, <1>3, UnusedRun, Typed DEF IInv, Causes, Tenancy, At
<1>7. LockOwned'
  BY <1>1, <1>3, UnusedRun DEF IInv, LockOwned
<1>8. Undisturbed(r)' /\ LoaderOwned(r)'
  BY <1>1, <1>3, UnusedRun DEF Undisturbed, LoaderOwned, Loading, Resetting, Owns, At
<1>9. RowsKnown(r)'
  BY <1>1, <1>3, UnusedRun DEF RowsKnown, Resetting, Owns, At
<1>10. Local(r, t)'
  BY <1>3, <1>8, <1>9 DEF Local, Shown
<1> QED BY <1>1, <1>3, <1>4, <1>5, <1>6, <1>7, <1>10, StepKeeps

\* The heartbeat of a run that loads, or is about to erase, does not get old.
LEMMA HeartbeatKeeps ==
    ASSUME IInv, NEW t \in Tenants, Beat(t) \/ GoesStale(t)
    PROVE  IInv'
<1>1. /\ UNCHANGED <<rows, txn, job, loader, flight>>
      /\ demo[t].status \in {"loading", "resetting"} /\ Types /\ Causes'
  BY CausesRest DEF Beat, GoesStale, IInv, Causes
<1>2. PICK r \in Runs : r = demo[t].run
  BY <1>1, Typed
<1>3. job[r].tenant = t
  BY <1>2 DEF IInv, Tenancy
<1>4. PICK b \in BOOLEAN : demo' = [demo EXCEPT ![t].fresh = b] /\ (b \/ GoesStale(t))
  BY DEF Beat, GoesStale
<1>5. /\ demo'[t].fresh = b /\ demo'[t].status = demo[t].status /\ demo'[t].run = demo[t].run
      /\ demo'[t].err = demo[t].err
      /\ \A u \in Tenants \ {t} : demo'[u] = demo[u]
  BY <1>1, <1>4, FreshMoved
<1>6. ~ b => /\ KeepsPace => job[r].pc \notin Loading \cup {"reset", "locked"}
             /\ QuietLoads => loader[r] = "off" /\ r \notin flight
  <2> SUFFICES ASSUME ~ b PROVE <1>6!2
    OBVIOUS
  <2>1. QuietLoads => loader[r] = "off" /\ r \notin flight
    BY <1>2, <1>4 DEF GoesStale
  <2>2. CASE ~ Beating(t)
    BY <1>2, <2>1, <2>2 DEF Beating, Loading
  <2>3. CASE RowLocked(t)
    <3>1. PICK q \in Runs : q = txn[t] /\ At(q, "purging")
      BY <2>3 DEF RowLocked
    <3>2. job[q].tenant = t /\ Undisturbed(q)
      BY <3>1 DEF IInv, LockOwned
    <3>3. KeepsPace => q = r
      BY <1>2, <3>1, <3>2 DEF Undisturbed, Resetting, At
    <3> QED BY <2>1, <3>1, <3>3 DEF At, Loading
  <2>4. CASE ~ KeepsPace
    BY <2>1, <2>4
  <2> QED BY <1>4, <2>2, <2>3, <2>4 DEF GoesStale
<1>7. Only(r, t)
  BY <1>1, <1>3, <1>5 DEF Only
<1>8. OthersDone(r, t)
  BY <1>2, <1>5, OthersQuiet DEF OthersDone
<1>9. Tenancy' /\ LockOwned'
  BY <1>1, <1>5 DEF IInv, Tenancy, LockOwned, At
<1>10. Undisturbed(r)' /\ LoaderOwned(r)'
  BY <1>1, <1>3, <1>5, <1>6 DEF IInv, Undisturbed, LoaderOwned
<1>11. RowsKnown(r)'
  BY <1>1, <1>3, <1>5 DEF IInv, RowsKnown, Owns, At
<1>12. Local(r, t)'
  BY <1>1, <1>5, <1>10, <1>11, InvShown DEF Local, Shown
<1> QED BY <1>1, <1>7, <1>8, <1>9, <1>12, StepKeeps

\* Runs that end with their process leave their tenants as they are.
LEMMA LeftKeeps ==
    ASSUME IInv, Causes', UNCHANGED <<demo, rows, flight>>,
           \A r \in Runs : \/ job'[r] = job[r]
                           \/ job'[r].pc = "over" /\ job'[r].tenant = job[r].tenant
                              /\ job'[r].kind = "load" /\ job'[r].prev = Idle,
           \A r \in Runs : loader'[r] = loader[r] \/ loader'[r] = "off",
           \A r \in Runs : job'[r].pc \in {"locked", "purging"} =>
                               txn'[job[r].tenant] = txn[job[r].tenant],
           \A t \in Tenants, r \in Runs : txn'[t] = r => txn[t] = r /\ job'[r] = job[r]
    PROVE  IInv'
<1>1. \A r \in Runs : job'[r].tenant = job[r].tenant
  OBVIOUS
<1>2. Tenancy'
  BY Typed DEF IInv, Causes, Tenancy, At
<1>3. LockOwned'
  BY <1>1 DEF IInv, LockOwned
<1>4. ASSUME NEW r \in Runs PROVE (Undisturbed(r) /\ LoaderOwned(r) /\ RowsKnown(r))'
  <2>1. Undisturbed(r) /\ LoaderOwned(r) /\ RowsKnown(r)
    BY DEF IInv
  <2>2. CASE job'[r] = job[r]
    BY <2>1, <2>2 DEF Undisturbed, LoaderOwned, RowsKnown, Owns, At
  <2>3. CASE job'[r].pc = "over" /\ job'[r].tenant = job[r].tenant /\ job'[r].kind = "load" /\ job'[r].prev = Idle
    BY <2>1, <2>3 DEF Undisturbed, LoaderOwned, RowsKnown, Owns, At, Loading, Resetting
  <2> QED BY <2>2, <2>3
<1>5. \A q \in flight' : job'[q].tenant = job[q].tenant
  BY <1>1, Typed DEF IInv, Causes
<1>6. (KeepsPace => LoadedIsWhole') /\ (QuietLoads => IdleIsEmpty')
  BY <1>5 DEF IInv, LoadedIsWhole, IdleIsEmpty
<1> QED BY <1>2, <1>3, <1>4, <1>6 DEF IInv

\* A process starts, stops, or is gone.
LEMMA ProcessKeeps ==
    ASSUME IInv, NEW p \in Procs, Boot(p) \/ Stop(p) \/ Exit(p) \/ Crash(p)
    PROVE  IInv'
<1>1. UNCHANGED <<demo, rows, flight>> /\ Types /\ Causes'
  BY CausesRest DEF Boot, Stop, Exit, Crash, Gone, IInv, Causes
<1>2. \A r \in Runs : LET n == NoJob(job[r].tenant) IN
          n.pc = "over" /\ n.tenant = job[r].tenant /\ n.kind = "load" /\ n.prev = Idle
  BY <1>1, Typed, NoJobTyped
<1>3. CASE Boot(p)
  BY <1>1, <1>3, LeftKeeps DEF Boot
<1>4. CASE Stop(p)
  <2>1. \A r \in Runs : \/ job'[r] = job[r] /\ loader'[r] = loader[r]
                        \/ job'[r] = NoJob(job[r].tenant) /\ loader'[r] = "off" /\ loader[r] # "off"
    BY <1>4 DEF Stop
  <2>2. ASSUME NEW t \in Tenants, NEW r \in Runs, txn'[t] = r PROVE txn[t] = r /\ job'[r] = job[r]
    <3>1. txn[t] = r /\ job[r].pc \in Resetting
      BY <1>4, <2>2 DEF Stop, IInv, LockOwned, Resetting
    <3>2. loader[r] = "off"
      BY <3>1 DEF IInv, LoaderOwned, Resetting
    <3> QED BY <2>1, <3>1, <3>2
  <2>3. txn' = txn
    BY <1>4 DEF Stop
  <2> QED BY <1>1, <1>2, <2>1, <2>2, <2>3, LeftKeeps
<1>5. CASE Gone(p)
  <2>1. \A r \in Runs : \/ job[r].proc # p /\ job'[r] = job[r]
                        \/ job[r].proc = p /\ job'[r] = NoJob(job[r].tenant)
    BY <1>5 DEF Gone
  <2>2. ASSUME NEW t \in Tenants, NEW r \in Runs, txn'[t] = r PROVE txn[t] = r /\ job'[r] = job[r]
    BY <1>1, <1>5, <2>1, <2>2, Typed DEF Gone
  <2>3. ASSUME NEW r \in Runs, job'[r].pc \in {"locked", "purging"}
        PROVE  txn'[job[r].tenant] = txn[job[r].tenant]
    <3>1. job[r].proc # p /\ txn[job[r].tenant] = r /\ job[r].tenant \in Tenants
      BY <1>1, <1>2, <2>1, <2>3, Typed DEF IInv, Causes, LockOwned
    <3> QED BY <1>5, <3>1 DEF Gone
  <2>4. loader' = loader
    BY <1>5 DEF Gone
  <2> QED BY <1>1, <1>2, <2>1, <2>2, <2>3, <2>4, LeftKeeps
<1> QED BY <1>3, <1>4, <1>5 DEF Exit, Crash

\* The invariant at the start ...
LEMMA InitInv == Init => IInv
<1> SUFFICES ASSUME Init PROVE IInv
  OBVIOUS
<1>1. PICK t \in Tenants : job = [r \in Runs |-> NoJob(t)]
  BY DEF Init
<1>2. \A r \in Runs : job[r].pc = "over" /\ job[r].tenant = t /\ job[r].kind = "load" /\ job[r].prev = Idle
  BY <1>1, NoJobTyped
<1>3. /\ Causes /\ Types /\ flight = {} /\ \A r \in Runs : loader[r] = "off"
      /\ \A u \in Tenants : demo[u] = Idle /\ rows[u] = {} /\ txn[u] = Nobody
  BY CausesInit DEF Causes, Init
<1>4. Tenancy /\ LockOwned
  BY <1>2, <1>3, Typed DEF Tenancy, LockOwned
<1>5. \A r \in Runs : Undisturbed(r) /\ LoaderOwned(r) /\ RowsKnown(r)
  BY <1>2, <1>3 DEF Undisturbed, LoaderOwned, RowsKnown, Loading, Resetting, At
<1> QED BY <1>3, <1>4, <1>5, Typed DEF IInv, Causes, LoadedIsWhole, IdleIsEmpty

\* ... and after any step.
LEMMA InvNext ==
    ASSUME IInv, [Next]_vars
    PROVE  IInv'
<1>1. CASE UNCHANGED vars
  <2>1. Causes'
    BY <1>1, CausesNext DEF IInv
  <2> QED BY <1>1, <2>1, LeftKeeps DEF vars
<1>2. ASSUME NEW t \in Tenants, NEW p \in Procs, Load(p, t) \/ StartReset(p, t) \/ Reconcile(p, t)
      PROVE  IInv'
  BY <1>2, LoadKeeps, StartResetKeeps, ReconcileKeeps
<1>3. ASSUME NEW r \in Runs, RunStep(r)
      PROVE  IInv'
  BY <1>3, ClaimKeeps, MoveKeeps, LockKeeps, LockRowKeeps, PurgeKeeps, EndKeeps DEF RunStep
<1>4. ASSUME NEW r \in Runs, LoaderStep(r) \/ ResetFails(r) \/ StateLost(r)
      PROVE  IInv'
  BY <1>4, RequestKeeps, WrittenKeeps, LoaderEndsKeeps, ResetFailsKeeps, StateLostKeeps DEF LoaderStep
<1> QED BY <1>1, <1>2, <1>3, <1>4, HeartbeatKeeps, ProcessKeeps DEF Next, TakeOver

\* The invariant holds in every state.
LEMMA InvHolds == Spec => []IInv
<1>1. IInv /\ [Next]_vars => IInv'
  BY InvNext
<1> QED BY InitInv, <1>1, PTL DEF Spec

\* Where processes keep pace, a tenant shown as loaded holds the rows of the load that says
\* so, whatever ended loaders still write (markLoaded, reconcile, TenantResetService.reset).
THEOREM LoadedStaysWhole == ASSUME KeepsPace PROVE Spec => []LoadedIsWhole
<1>1. IInv => LoadedIsWhole
  BY DEF IInv
<1> QED BY InvHolds, <1>1, PTL

\* Where ended loaders write nothing, a tenant shown in its starting state holds no row of
\* a load, and none is to come, however late heartbeats are (reconcile, the end of a reset).
THEOREM IdleStaysEmpty == ASSUME QuietLoads PROVE Spec => []IdleIsEmpty
<1>1. IInv => IdleIsEmpty
  BY DEF IInv
<1> QED BY InvHolds, <1>1, PTL
================================================================================
