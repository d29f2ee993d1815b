------------------------- MODULE ActionContractProofs -------------------------
(***************************************************************************)
(* How often a ticket is written for its actions.                          *)
(*                                                                         *)
(* First: the only action on its ticket is written at most once, for any   *)
(* number of sessions, attempts, crashes and ticket versions, unless it is *)
(* not checked at all: by its policy, or because it was prepared while the *)
(* ticket could not be read and has no base.  The argument is the one      *)
(* verifyTicketFreshnessPolicy makes implicitly.                           *)
(* Without siblings nothing re-bases an action: its baseline stays the     *)
(* version it was prepared on (Based), in the committed row, in every      *)
(* uncommitted one and in every entity a session carries.  Every write     *)
(* makes a later version, so after the first the check cannot pass again;  *)
(* and between a check that passed and its write no other session writes,  *)
(* because the claim is exclusive (IInv of ActionExecutionProofs).         *)
(* NumActions = 1 is needed: with a sibling, the "only KANAP's own writes" *)
(* branch of the check accepts a ticket that the lost write of this action *)
(* changed, and the action is written again.                               *)
(*                                                                         *)
(* Second: for any number of actions, with and without a base, and any     *)
(* policies, where requests and sweeps run one at a time (one session) and *)
(* the clock without a zone excuses nothing, the execution implements      *)
(* ActionContract.  There a lost write makes the ticket newer than every   *)
(* baseline that is recorded anywhere, for good (Rows), until an action    *)
(* that is not checked is written and re-bases its siblings.               *)
(***************************************************************************)
EXTENDS ActionExecutionProofs, ActionRefinement

--------------------------------------------------------------------------------
(* The inductive invariant *)

\* The version e of an action still has the baseline it was prepared on, if it has one.
Based(e) == unread = {} => e.meta.base = 1

\* Every entity the session x carries is based.
Carries(x) == \A a \in Actions : Based(x.ent[a])

\* No baseline moves; a write has left the ticket at a later version; and whoever
\* passed the freshness check of an action is the first to write it.
Once ==
    /\ \A a \in Actions : Based(row[a]) /\ Based(draft[a])
    /\ \A s \in Sessions : Carries(ses[s])
    /\ \A a \in Actions : writes[a] > 0 => ver > 1
    /\ \A a \in Actions \ Unchecked :
        /\ writes[a] <= 1
        /\ \A s \in Sessions : ses[s].pc = "write" /\ a \in First(ses[s].run) => writes[a] = 0

--------------------------------------------------------------------------------
(* Lemmas about the operators *)

\* The entity of an action as it was prepared is based, so are the idle session's.
LEMMA PreparedBased == Based(Prepared) /\ Carries(Idle) /\ Idle.pc = "idle"
BY DEF Based, Carries, Prepared, Idle

\* What a session reads is based.
LEMMA SeenBased ==
    ASSUME IInv, Once, NEW s \in Sessions, NEW a \in Actions
    PROVE  \E e \in Row : e = See(s, a) /\ Based(e)
BY SeenRow DEF Once, See, Visible

\* Only the recording of a baseline changes one.
LEMMA EditsBased ==
    ASSUME NEW e \in Row, Based(e)
    PROVE  /\ \A st \in Status : Based([e EXCEPT !.status = st])
           /\ \A st \in Status, v \in 0 .. MaxVersion :
                Based([e EXCEPT !.status = st, !.at = v])
           /\ Based([e EXCEPT !.exp = "past"])
           /\ \A S \in SUBSET Actions, queue \in BOOLEAN : Based(Stamped(e, S, queue))
           /\ \A v \in 0 .. MaxVersion : Based([e EXCEPT !.meta.post = v])
           /\ \A f \in Row : Based(f) => Based([e EXCEPT !.status = "executing", !.meta = f.meta])
           /\ Based(Failed(e)) /\ Based(Requeued(e))
<1>1. PICK m \in Metadata : m = e.meta /\ (unread = {} => m.base = 1)
  BY DEF Row, Based
<1>2. \A st \in Status : Based([e EXCEPT !.status = st])
  BY DEF Row, Based
<1>3. \A st \in Status, v \in 0 .. MaxVersion : Based([e EXCEPT !.status = st, !.at = v])
  BY DEF Row, Based
<1>4. Based([e EXCEPT !.exp = "past"])
  BY DEF Row, Based
<1>5. ASSUME NEW S \in SUBSET Actions, NEW queue \in BOOLEAN
      PROVE  Based(Stamped(e, S, queue))
  BY <1>1 DEF Row, Metadata, Based, Stamped
<1>6. ASSUME NEW v \in 0 .. MaxVersion PROVE Based([e EXCEPT !.meta.post = v])
  BY <1>1 DEF Row, Metadata, Based
<1>7. \A f \in Row : Based(f) => Based([e EXCEPT !.status = "executing", !.meta = f.meta])
  BY DEF Row, Based
<1>8. Based(Failed(e))
  BY <1>1 DEF Row, Metadata, Based, Failed
<1> QED BY <1>2, <1>3, <1>4, <1>5, <1>6, <1>7, <1>8 DEF Requeued

\* A save writes a based entity over a based row.
LEMMA OverwriteBased ==
    ASSUME NEW c \in Row, NEW e \in Row, NEW C \in SUBSET Columns, Based(c), Based(e)
    PROVE  Based(Overwrite(c, e, C))
BY DEF Row, Overwrite, Based

\* A session that is done with an action carries fresh entities.
LEMMA LeavingBased ==
    ASSUME NEW y \in SessionState, NEW a
    PROVE  Carries(Leaving(y, a)) /\ Leaving(y, a).pc # "write"
BY PreparedBased DEF Leaving, SessionState, Carries, BatchOrEnd

\* A session that starts to save the entities ent.
LEMMA SavingBased ==
    ASSUME NEW z \in SessionState, NEW S, NEW ent, NEW pc, pc # "write",
           \A a \in Actions : Based(ent[a])
    PROVE  LET x == Saving(z, S, ent, pc) IN Carries(x) /\ x.pc # "write"
BY DEF Saving, SessionState, Carries

--------------------------------------------------------------------------------
(* Steps in general *)

\* A step of s that writes nothing to the ticket and ends outside a checked claim.
LEMMA StepOnce ==
    ASSUME IInv, Once, NEW s \in Sessions, NEW x,
           ses' = [ses EXCEPT ![s] = x], Carries(x), x.pc # "write",
           \A a \in Actions : Based(row'[a]) /\ Based(draft'[a]),
           UNCHANGED <<ver, unread, writes>>
    PROVE  Once'
<1>1. ses'[s] = x /\ \A t \in Sessions \ {s} : ses'[t] = ses[t]
  BY DEF IInv, TypeOK
<1>2. \A t \in Sessions : Carries(ses'[t])
  BY <1>1 DEF Once
<1> QED BY <1>1, <1>2 DEF Once, Carries, Based, Unchecked

\* ... and touches nothing but its own session.
LEMMA QuietOnce ==
    ASSUME IInv, Once, NEW s \in Sessions, NEW x,
           ses' = [ses EXCEPT ![s] = x], Carries(x), x.pc # "write",
           UNCHANGED <<db, world>>
    PROVE  Once'
BY StepOnce DEF Once, db, world

\* ... and writes version r of row a.
LEMMA PutOnce ==
    ASSUME IInv, Once, NEW s \in Sessions, NEW a \in Actions, NEW r, Based(r), Put(s, a, r),
           NEW x, ses' = [ses EXCEPT ![s] = x], Carries(x), x.pc # "write",
           UNCHANGED world
    PROVE  Once'
<1>1. \A b \in Actions : row'[b] = row[b] /\ draft'[b] \in {draft[b], r}
  BY DEF Put, IInv, TypeOK
<1> QED BY <1>1, StepOnce DEF Once, world

\* ... and is rolled back.
LEMMA RollbackOnce ==
    ASSUME IInv, Once, NEW s \in Sessions, NEW x, Rollback(s, x), Carries(x), x.pc # "write"
    PROVE  Once'
<1>1. \A b \in Actions : row'[b] = row[b] /\ draft'[b] \in {draft[b], row[b]}
  BY DEF Rollback, RolledBack, IInv, TypeOK
<1> QED BY <1>1, StepOnce DEF Once, world, Rollback, Go

--------------------------------------------------------------------------------
(* Repository.save and the requests *)

\* Reading a row before its save moves no baseline.
LEMMA SelectOnce == ASSUME IInv, Once, NEW s \in Sessions, Select(s) PROVE Once'
<1>1. PICK y \in SessionState : y = ses[s] /\ Carries(y)
  BY DEF IInv, TypeOK, Once
<1>2. PICK C : ses' = [ses EXCEPT ![s] = [y EXCEPT !.pc = "update", !.cols = C]]
  BY <1>1 DEF Select, Go
<1> DEFINE x == [y EXCEPT !.pc = "update", !.cols = C]
<1>3. Carries(x) /\ x.pc # "write"
  BY <1>1 DEF SessionState, Carries
<1> HIDE DEF x
<1>4. ses' = [ses EXCEPT ![s] = x]
  BY <1>2 DEF x
<1> QED BY <1>3, <1>4, QuietOnce DEF Select

\* A saved entity has the baseline of the row it replaces.
LEMMA UpdateOnce == ASSUME IInv, Once, NEW s \in Sessions, Update(s) PROVE Once'
<1>1. PICK y \in SessionState : y = ses[s] /\ Carries(y)
                              /\ SessionInv(s, y, lock, approvals, writes)
  BY DEF IInv, TypeOK, Once
<1>2. PICK a \in First(y.todo) :
        LET rest == y.todo \ {a}
        IN  /\ Put(s, a, Overwrite(See(s, a), y.ent[a], y.cols))
            /\ Go(s, [y EXCEPT !.todo = rest, !.cols = {},
                        !.ent = IF y.next = "sign" THEN @ ELSE [@ EXCEPT ![a] = Prepared],
                        !.pc = IF rest = {} THEN y.next ELSE "select"])
  BY <1>1 DEF Update
<1> DEFINE r == Overwrite(See(s, a), y.ent[a], y.cols)
           rest == y.todo \ {a}
           ent == IF y.next = "sign" THEN y.ent ELSE [y.ent EXCEPT ![a] = Prepared]
           pc == IF rest = {} THEN y.next ELSE "select"
           x == [y EXCEPT !.todo = rest, !.cols = {}, !.ent = ent, !.pc = pc]
<1>3. a \in Actions
  BY FirstIsOne DEF SessionState
<1>4. Based(r)
  BY <1>1, <1>3, SeenBased, OverwriteBased DEF SessionState, Carries
<1>5. \A b \in Actions : Based(ent[b])
  BY <1>1, <1>3, PreparedBased DEF SessionState, Carries
<1>6. Carries(x) /\ x.pc # "write"
  <2>1. pc # "write"
    BY DEF SessionState
  <2> HIDE DEF ent, pc
  <2> QED BY <1>5, <2>1 DEF SessionState, Carries
<1>7. Put(s, a, r) /\ ses' = [ses EXCEPT ![s] = x] /\ UNCHANGED world
  BY <1>2 DEF Go, Update
<1> HIDE DEF r, x
<1> QED BY <1>3, <1>4, <1>6, <1>7, PutOnce

\* A new request carries nothing yet.
LEMMA BeginOnce ==
    ASSUME IInv, Once, NEW s \in Sessions, NEW k, NEW S \in SUBSET Actions, Begin(s, k, S)
    PROVE  Once'
<1> DEFINE x == [Idle EXCEPT !.kind = k, !.pc = "read", !.todo = S]
<1>1. Carries(x) /\ x.pc # "write"
  BY PreparedBased DEF Idle, Carries
<1> QED BY <1>1, QuietOnce DEF Begin, Go

\* A decision changes the status of its action only.
LEMMA DecideOnce == ASSUME IInv, Once, NEW s \in Sessions, Decide(s) PROVE Once'
<1>1. PICK y \in SessionState : y = ses[s] /\ Carries(y)
  BY DEF IInv, TypeOK, Once
<1>2. y.kind \in DOMAIN Outcome
  BY <1>1 DEF Decide
<1>3. PICK a \in y.todo :
        \/ ses' = [ses EXCEPT ![s] = Idle]
        \/ ses' = [ses EXCEPT ![s] =
             Saving([y EXCEPT !.signed = {a}, !.run = {a}], {a},
                    [y.ent EXCEPT ![a] = [See(s, a) EXCEPT !.status = Outcome[y.kind]]], "commit")]
  BY <1>1 DEF Decide, Go
<1> DEFINE z == [y EXCEPT !.signed = {a}, !.run = {a}]
           ent == [y.ent EXCEPT ![a] = [See(s, a) EXCEPT !.status = Outcome[y.kind]]]
           x == Saving(z, {a}, ent, "commit")
<1>4. CASE ses' = [ses EXCEPT ![s] = Idle]
  BY <1>4, PreparedBased, QuietOnce DEF Decide
<1>5. CASE ses' = [ses EXCEPT ![s] = x]
  <2>1. a \in Actions /\ z \in SessionState
    BY <1>3 DEF SessionState
  <2>2. Outcome[y.kind] \in Status
    BY <1>2 DEF Outcome, Status, Reviewable, Terminal
  <2>3. Based([See(s, a) EXCEPT !.status = Outcome[y.kind]])
    BY <2>1, <2>2, SeenBased, EditsBased
  <2>4. \A b \in Actions : Based(ent[b])
    BY <1>1, <2>1, <2>3 DEF SessionState, Carries
  <2> HIDE DEF ent, z
  <2>5. Carries(x) /\ x.pc # "write"
    BY <2>1, <2>4, SavingBased
  <2> HIDE DEF x
  <2> QED BY <1>5, <2>5, QuietOnce DEF Decide
<1> QED BY <1>3, <1>4, <1>5

\* Stamping leaves the baselines alone.
LEMMA StampingBased ==
    ASSUME IInv, Once, NEW s \in Sessions, NEW y \in SessionState, Carries(y),
           NEW S \in SUBSET Actions, NEW queue \in BOOLEAN, NEW pc, pc # "write"
    PROVE  LET x == Stamping(s, y, S, queue, pc) IN Carries(x) /\ x.pc # "write"
<1> DEFINE ent == [a \in Actions |-> IF a \in S THEN Stamped(See(s, a), S, queue)
                                                ELSE y.ent[a]]
           z == [y EXCEPT !.run = S]
<1>1. z \in SessionState
  BY DEF SessionState
<1>2. \A a \in Actions : Based(ent[a])
  <2>1. \A a \in Actions : Based(Stamped(See(s, a), S, queue))
    BY SeenBased, EditsBased
  <2> QED BY <2>1 DEF Carries
<1>3. Stamping(s, y, S, queue, pc) = Saving(z, S, ent, pc)
  BY DEF Stamping
<1> HIDE DEF ent, z
<1> QED BY <1>1, <1>2, <1>3, SavingBased

\* The stamps of a bulk approval and of a plan leave the baselines alone.
LEMMA StampOnce ==
    ASSUME IInv, Once, NEW s \in Sessions, BulkRead(s) \/ PlanRead(s) PROVE Once'
<1>1. PICK y \in SessionState : y = ses[s] /\ Carries(y)
  BY DEF IInv, TypeOK, Once
<1>2. UNCHANGED <<db, world>>
  BY DEF BulkRead, PlanRead
<1>3. CASE BulkRead(s)
  <2> DEFINE S == {a \in y.todo : See(s, a).status \in Reviewable \cup {"executed"}}
  <2>1. S \in SUBSET Actions
    BY DEF SessionState
  <2>2. \/ ses' = [ses EXCEPT ![s] = Idle]
        \/ ses' = [ses EXCEPT ![s] = Stamping(s, y, S, TRUE, "sign")]
    BY <1>1, <1>3 DEF BulkRead, Go
  <2> HIDE DEF S
  <2> DEFINE x == Stamping(s, y, S, TRUE, "sign")
  <2>3. Carries(x) /\ x.pc # "write"
    BY <1>1, <2>1, StampingBased
  <2> HIDE DEF x
  <2>4. ses' = [ses EXCEPT ![s] = Idle] \/ ses' = [ses EXCEPT ![s] = x]
    BY <2>2 DEF x
  <2> QED BY <1>2, <2>3, <2>4, PreparedBased, QuietOnce
<1>4. CASE PlanRead(s)
  <2> DEFINE S == {a \in y.run : See(s, a).status \in {"approved", "executed"}}
             pc == IF y.kind = "sweep" THEN "xread" ELSE "commit"
             w == [y EXCEPT !.pc = BatchOrEnd(y.batches)]
  <2>1. S \in SUBSET Actions /\ pc # "write"
    BY DEF SessionState
  <2>2. Carries(w) /\ w.pc # "write"
    BY <1>1 DEF SessionState, Carries, BatchOrEnd
  <2>3. \/ ses' = [ses EXCEPT ![s] = Idle]
        \/ ses' = [ses EXCEPT ![s] = w]
        \/ ses' = [ses EXCEPT ![s] = Stamping(s, y, S, FALSE, pc)]
    BY <1>1, <1>4 DEF PlanRead, Go
  <2> HIDE DEF S, pc, w
  <2> DEFINE x == Stamping(s, y, S, FALSE, pc)
  <2>4. Carries(x) /\ x.pc # "write"
    BY <1>1, <2>1, StampingBased
  <2> HIDE DEF x
  <2>5. \/ ses' = [ses EXCEPT ![s] = Idle]
        \/ ses' = [ses EXCEPT ![s] = w]
        \/ ses' = [ses EXCEPT ![s] = x]
    BY <2>3 DEF x
  <2> QED BY <1>2, <2>2, <2>4, <2>5, PreparedBased, QuietOnce
<1> QED BY <1>3, <1>4

\* A bulk approval changes statuses only.
LEMMA BulkSignOnce == ASSUME IInv, Once, NEW s \in Sessions, BulkSign(s) PROVE Once'
<1>1. PICK y \in SessionState : y = ses[s] /\ Carries(y)
  BY DEF IInv, TypeOK, Once
<1>2. PICK S, run :
        /\ draft' = [a \in Actions |-> IF a \in S THEN [draft[a] EXCEPT !.status = "approved"]
                                                 ELSE draft[a]]
        /\ ses' = [ses EXCEPT ![s] = [y EXCEPT !.signed = S, !.run = run, !.pc = "commit"]]
  BY <1>1 DEF BulkSign, Go
<1> DEFINE x == [y EXCEPT !.signed = S, !.run = run, !.pc = "commit"]
<1>3. Carries(x) /\ x.pc # "write"
  BY <1>1 DEF SessionState, Carries
<1>4. ASSUME NEW a \in Actions PROVE Based(row'[a]) /\ Based(draft'[a])
  <2>1. Based([draft[a] EXCEPT !.status = "approved"])
    BY EditsBased DEF IInv, TypeOK, Once, Status, Reviewable
  <2> QED BY <1>2, <2>1 DEF BulkSign, Once
<1>5. UNCHANGED <<ver, unread, writes>> /\ ses' = [ses EXCEPT ![s] = x]
  BY <1>2 DEF BulkSign, world
<1> HIDE DEF x
<1> QED BY <1>3, <1>4, <1>5, StepOnce

\* A commit publishes based drafts, and the session starts over.
LEMMA CommitOnce == ASSUME IInv, Once, NEW s \in Sessions, Commit(s) PROVE Once'
<1>1. PICK y \in SessionState : y = ses[s]
  BY DEF IInv, TypeOK
<1> DEFINE resumed == [Idle EXCEPT !.kind = "plan", !.run = y.run]
           x == CASE y.run = {} -> Idle
                  [] y.kind \in {"approve", "bulk"} -> [resumed EXCEPT !.pc = "plan"]
                  [] y.kind = "plan" -> [resumed EXCEPT !.pc = "xread"]
                  [] OTHER -> Idle
<1>2. ses' = [ses EXCEPT ![s] = x]
  BY <1>1 DEF Commit, Go
<1>3. Carries(x) /\ x.pc # "write"
  <2>1. ASSUME NEW pc \in {"plan", "xread"}
        PROVE  Carries([resumed EXCEPT !.pc = pc]) /\ [resumed EXCEPT !.pc = pc].pc # "write"
    BY PreparedBased DEF Idle, Carries
  <2> HIDE DEF resumed
  <2> QED BY <2>1, PreparedBased
<1> HIDE DEF x
<1>4. \A a \in Actions : Based(row'[a]) /\ Based(draft'[a])
  BY DEF Commit, Committed, Once, IInv, TypeOK
<1> QED BY <1>2, <1>3, <1>4, StepOnce DEF Commit, world

\* A lost transaction returns to the committed, based rows.
LEMMA CrashOnce ==
    ASSUME IInv, Once, NEW s \in Sessions, Crash(s) \/ DeadlockVictim(s) PROVE Once'
BY PreparedBased, RollbackOnce DEF Crash, DeadlockVictim

--------------------------------------------------------------------------------
(* Executions *)

\* An execution reads a based entity.
LEMMA ReadApprovedOnce ==
    ASSUME IInv, Once, NEW s \in Sessions, ReadApproved(s) PROVE Once'
<1>1. PICK y \in SessionState : y = ses[s] /\ Carries(y)
  BY DEF IInv, TypeOK, Once
<1>2. PICK a \in First(y.run) :
        \/ ses' = [ses EXCEPT ![s] = Leaving(y, a)]
        \/ ses' = [ses EXCEPT ![s] = [y EXCEPT !.ent = [y.ent EXCEPT ![a] = See(s, a)],
                                               !.pc = "claim"]]
  BY <1>1 DEF ReadApproved, Go, Done, Leaving
<1> DEFINE ent == [y.ent EXCEPT ![a] = See(s, a)]
           x == [y EXCEPT !.ent = ent, !.pc = "claim"]
<1>3. a \in Actions
  BY FirstIsOne DEF SessionState
<1>4. \A b \in Actions : Based(ent[b])
  BY <1>1, <1>3, SeenBased DEF SessionState, Carries
<1>5. Carries(x) /\ x.pc # "write"
  <2> HIDE DEF ent
  <2> QED BY <1>4 DEF SessionState, Carries
<1> HIDE DEF x
<1>6. ses' = [ses EXCEPT ![s] = Leaving(y, a)] \/ ses' = [ses EXCEPT ![s] = x]
  BY <1>2 DEF x
<1> QED BY <1>5, <1>6, LeavingBased, QuietOnce DEF ReadApproved

\* The claimed row takes the metadata of the based entity.
LEMMA ClaimWonOnce == ASSUME IInv, Once, NEW s \in Sessions, ClaimWon(s) PROVE Once'
<1>1. PICK y \in SessionState : y = ses[s] /\ Carries(y)
  BY DEF IInv, TypeOK, Once
<1>2. PICK a \in First(y.run) :
        /\ Put(s, a, [See(s, a) EXCEPT !.status = "executing", !.meta = y.ent[a].meta])
        /\ Go(s, [y EXCEPT !.pc = "gate"])
  BY <1>1 DEF ClaimWon
<1> DEFINE r == [See(s, a) EXCEPT !.status = "executing", !.meta = y.ent[a].meta]
           x == [y EXCEPT !.pc = "gate"]
<1>3. a \in Actions
  BY FirstIsOne DEF SessionState
<1>4. Based(r)
  <2>1. y.ent[a] \in Row /\ Based(y.ent[a])
    BY <1>1, <1>3 DEF SessionState, Carries
  <2> QED BY <1>3, <2>1, SeenBased, EditsBased
<1>5. Carries(x) /\ x.pc # "write"
  BY <1>1 DEF SessionState, Carries
<1> HIDE DEF r, x
<1>6. Put(s, a, r) /\ ses' = [ses EXCEPT ![s] = x] /\ UNCHANGED world
  BY <1>2 DEF ClaimWon, Go, r, x
<1> QED BY <1>3, <1>4, <1>5, <1>6, PutOnce

\* An execution that finds its action claimed or done carries nothing on.
LEMMA LeaveOnce ==
    ASSUME IInv, Once, NEW s \in Sessions, ClaimLost(s) \/ Finish(s) PROVE Once'
<1>1. PICK y \in SessionState : y = ses[s] /\ Carries(y)
  BY DEF IInv, TypeOK, Once
<1>2. PICK a : ses' = [ses EXCEPT ![s] = Leaving(y, a)]
  BY <1>1 DEF ClaimLost, Finish, Go, Done, Leaving
<1> QED BY <1>2, LeavingBased, QuietOnce DEF ClaimLost, Finish

\* An execution that ends before its write, its action settled as r.
LEMMA SettleOnce ==
    ASSUME IInv, Once, NEW s \in Sessions,
           AttemptFails(s) \/ GateFindsLapsed(s) \/ TicketStale(s)
    PROVE  Once'
<1>1. PICK y \in SessionState : y = ses[s] /\ Carries(y)
  BY DEF IInv, TypeOK, Once
<1>2. PICK a \in First(y.run) :
        \/ Settle(s, a, Failed(draft[a]), Leaving(y, a))
        \/ Settle(s, a, [draft[a] EXCEPT !.status = "expired"], Leaving(y, a))
  BY <1>1 DEF AttemptFails, GateFindsLapsed, TicketStale, Done, Leaving
<1>3. a \in Actions
  BY FirstIsOne DEF SessionState
<1>4. PICK r : Based(r) /\ Settle(s, a, r, Leaving(y, a))
  <2>1. Based(Failed(draft[a])) /\ Based([draft[a] EXCEPT !.status = "expired"])
    BY <1>3, EditsBased DEF IInv, TypeOK, Once, Status, Terminal
  <2> QED BY <1>2, <2>1
<1> QED BY <1>3, <1>4, LeavingBased, PutOnce DEF Settle, Go

\* The freshness check passes only before the first write: the baseline is version
\* 1, and there is no sibling whose write could excuse another version.
LEMMA GatePassesOnce ==
    ASSUME NumActions = 1, IInv, Once, NEW s \in Sessions, GatePasses(s) PROVE Once'
<1>1. PICK y \in SessionState : y = ses[s] /\ Carries(y)
  BY DEF IInv, TypeOK, Once
<1> DEFINE x == [y EXCEPT !.pc = "write"]
<1>2. PICK a \in First(y.run), soon \in BOOLEAN :
        FreshEnough(s, a, soon) /\ ses' = [ses EXCEPT ![s] = x]
  BY <1>1 DEF GatePasses, Go
<1>3. a \in Actions /\ \A b \in First(y.run) : b = a
  BY FirstIsOne DEF SessionState
<1>4. a \notin Unchecked => writes[a] = 0
  <2> SUFFICES ASSUME a \notin Unchecked PROVE writes[a] = 0
    OBVIOUS
  <2>1. Actions \ {a} = {}
    BY <1>3 DEF Actions
  <2>2. ~ OnlyKanapWrites(s, a, soon)
    BY <2>1 DEF OnlyKanapWrites
  <2>3. unread = {}
    BY <1>3 DEF IInv, TypeOK, Unchecked, Actions
  <2>4. ver = 1
    <3>1. draft[a].meta.base = 1
      BY <1>3, <2>3 DEF Once, Based
    <3> QED BY <1>2, <2>2, <3>1 DEF FreshEnough, Unchecked
  <2>5. ~ writes[a] > 0
    BY <1>3, <2>4 DEF Once
  <2> QED BY <1>3, <2>5 DEF IInv, TypeOK
<1>5. Carries(x) /\ First(x.run) = First(y.run)
  BY <1>1 DEF SessionState, Carries
<1> HIDE DEF x
<1>6. ses'[s] = x /\ \A t \in Sessions \ {s} : ses'[t] = ses[t]
  BY <1>2 DEF IInv, TypeOK
<1>7. UNCHANGED <<row, draft, ver, unread, writes>>
  BY DEF GatePasses, db, world
<1>8. \A t \in Sessions : Carries(ses'[t])
  BY <1>5, <1>6 DEF Once
<1> QED BY <1>3, <1>4, <1>5, <1>6, <1>7, <1>8 DEF Once, Carries, Based, Unchecked

\* The write of action a: it is the first, and no other session is about to write a.
LEMMA WriteOnce ==
    ASSUME IInv, Once, NEW s \in Sessions, ses[s].pc = "write", NEW a \in First(ses[s].run),
           Apply(a), NEW r, Based(r), Put(s, a, r),
           NEW x, ses' = [ses EXCEPT ![s] = x], Carries(x), x.pc # "write"
    PROVE  Once'
<1>1. a \in Actions
  BY FirstIsOne DEF IInv, TypeOK, SessionState
<1>2. \A b \in Actions : Based(row'[b]) /\ Based(draft'[b])
  BY DEF Put, Once, IInv, TypeOK
<1>3. ses'[s] = x /\ \A t \in Sessions \ {s} : ses'[t] = ses[t]
  BY DEF IInv, TypeOK
<1>4. \A t \in Sessions : Carries(ses'[t])
  BY <1>3 DEF Once
<1>5. /\ ver' = ver + 1 /\ ver' > 1 /\ unread' = unread
      /\ writes'[a] = (IF writes[a] < 2 THEN writes[a] + 1 ELSE writes[a])
      /\ \A b \in Actions \ {a} : writes'[b] = writes[b]
  BY <1>1 DEF Apply, IInv, TypeOK
<1>6. a \notin Unchecked => writes'[a] = 1
  BY <1>1, <1>5 DEF Once
<1>7. ASSUME NEW t \in Sessions \ {s}, ses[t].pc = "write" PROVE a \notin First(ses[t].run)
  BY <1>7 DEF IInv, SessionInv, Handling
<1> QED BY <1>1, <1>2, <1>3, <1>4, <1>5, <1>6, <1>7 DEF Once, Carries, Based, Unchecked

\* A write, its answer received or lost, is the first of its action.
LEMMA WrittenOnceSteps ==
    ASSUME IInv, Once, NEW s \in Sessions, WriteAnswered(s) \/ WriteUnanswered(s) PROVE Once'
<1>1. PICK y \in SessionState : y = ses[s] /\ Carries(y) /\ y.pc = "write"
  BY DEF IInv, TypeOK, Once, WriteAnswered, WriteUnanswered, At
<1>2. CASE WriteAnswered(s)
  <2>1. PICK a \in First(y.run) :
          /\ Apply(a)
          /\ Put(s, a, [draft[a] EXCEPT !.status = "executed", !.at = ver + 1])
          /\ Go(s, [y EXCEPT !.pc = "record"])
    BY <1>1, <1>2 DEF WriteAnswered
  <2> DEFINE x == [y EXCEPT !.pc = "record"]
             r == [draft[a] EXCEPT !.status = "executed", !.at = ver + 1]
  <2>2. a \in Actions
    BY FirstIsOne DEF SessionState
  <2>3. Based(r)
    <3>1. ver + 1 \in 0 .. MaxVersion
      BY <2>1, SizeAssumption DEF Apply, IInv, TypeOK
    <3> QED BY <2>2, <3>1, EditsBased DEF IInv, TypeOK, Once, Status, Terminal
  <2>4. Carries(x) /\ x.pc # "write"
    BY <1>1 DEF SessionState, Carries
  <2>5. Put(s, a, r) /\ ses' = [ses EXCEPT ![s] = x]
    BY <2>1 DEF Go
  <2> HIDE DEF x, r
  <2> QED BY <1>1, <2>1, <2>3, <2>4, <2>5, WriteOnce
<1>3. CASE WriteUnanswered(s)
  <2>1. PICK a \in First(y.run) :
          Apply(a) /\ Put(s, a, Failed(draft[a])) /\ ses' = [ses EXCEPT ![s] = Leaving(y, a)]
    BY <1>1, <1>3 DEF WriteUnanswered, Go, Done, Leaving
  <2>2. a \in Actions
    BY FirstIsOne DEF SessionState
  <2>3. Based(Failed(draft[a]))
    BY <2>2, EditsBased DEF IInv, TypeOK, Once
  <2> QED BY <1>1, <2>1, <2>3, LeavingBased, WriteOnce
<1> QED BY <1>2, <1>3

\* Recording the baseline of the only action re-bases nobody.
LEMMA RecordOnce ==
    ASSUME NumActions = 1, IInv, Once, NEW s \in Sessions, RecordBaseline(s) PROVE Once'
<1>1. PICK y \in SessionState : y = ses[s] /\ Carries(y)
  BY DEF IInv, TypeOK, Once
<1> DEFINE sib(a) == {b \in draft[a].meta.batch \ {a} : See(s, b).status \in Reviewable}
           ent(a) == [b \in Actions |-> IF b \in sib(a)
                        THEN [See(s, b) EXCEPT !.meta.base = ver] ELSE y.ent[b]]
           r(a) == [draft[a] EXCEPT !.meta.post = ver]
           x(a) == Saving(y, sib(a), ent(a), "done")
<1>2. PICK a \in First(y.run) :
        Put(s, a, r(a)) /\ ses' = [ses EXCEPT ![s] = x(a)] /\ UNCHANGED world
  BY <1>1 DEF RecordBaseline, Settle, Go
<1>3. a \in Actions
  BY FirstIsOne DEF SessionState
<1>4. sib(a) = {}
  <2>1. draft[a].meta.batch \in SUBSET Actions
    BY <1>3 DEF IInv, TypeOK, Row, Metadata
  <2>2. Actions \ {a} = {}
    BY <1>3 DEF Actions
  <2> QED BY <2>1, <2>2
<1>5. Based(r(a))
  <2>1. ver \in 0 .. MaxVersion
    BY DEF IInv, TypeOK
  <2> QED BY <1>3, <2>1, EditsBased DEF IInv, TypeOK, Once
<1>6. \A b \in Actions : Based(ent(a)[b])
  BY <1>1, <1>4 DEF Carries
<1> HIDE DEF r, ent, sib
<1>7. Carries(x(a)) /\ x(a).pc # "write"
  BY <1>6, SavingBased
<1> HIDE DEF x
<1> QED BY <1>2, <1>3, <1>5, <1>7, PutOnce

\* A baseline that cannot be read changes none.
LEMMA BaselineUnreadOnce ==
    ASSUME IInv, Once, NEW s \in Sessions, BaselineUnread(s) PROVE Once'
<1>1. PICK y \in SessionState : y = ses[s] /\ Carries(y)
  BY DEF IInv, TypeOK, Once
<1> DEFINE x == [y EXCEPT !.pc = "done"]
<1>2. Carries(x) /\ x.pc # "write"
  BY <1>1 DEF SessionState, Carries
<1>3. ses' = [ses EXCEPT ![s] = x]
  BY <1>1 DEF BaselineUnread, Go
<1> HIDE DEF x
<1> QED BY <1>2, <1>3, QuietOnce DEF BaselineUnread

\* Back at the savepoint, the claimed row has the baseline of its entity.
LEMMA HandlerFailsOnce ==
    ASSUME IInv, Once, NEW s \in Sessions, HandlerFails(s) PROVE Once'
<1>1. PICK y \in SessionState : y = ses[s] /\ Carries(y)
  BY DEF IInv, TypeOK, Once
<1> DEFINE undone(a) == {b \in Actions \ {a} : lock[b] = s /\ y.kind = "plan"}
<1>2. PICK a \in First(y.run) :
        /\ draft' = [b \in Actions |-> CASE b = a -> Failed(AtSavepoint(s, a))
                                         [] b \in undone(a) -> row[b]
                                         [] OTHER -> draft[b]]
        /\ Go(s, Done(s, a))
  BY <1>1 DEF HandlerFails
<1>3. a \in Actions
  BY FirstIsOne DEF SessionState
<1>4. Based(Failed(AtSavepoint(s, a)))
  <2>1. PICK d \in Row, e \in Row, f \in Row :
          d = draft[a] /\ e = row[a] /\ f = y.ent[a] /\ Based(f)
    BY <1>1, <1>3 DEF IInv, TypeOK, SessionState, Carries
  <2> DEFINE w == [d EXCEPT !.status = "executing", !.at = e.at, !.meta = f.meta]
  <2>2. AtSavepoint(s, a) = w
    BY <1>1, <2>1 DEF AtSavepoint
  <2>3. w \in Row /\ Based(w)
    BY <2>1 DEF Row, Status, Based
  <2> HIDE DEF w
  <2> QED BY <2>2, <2>3, EditsBased
<1>5. \A b \in Actions : Based(row'[b]) /\ Based(draft'[b])
  BY <1>2, <1>4 DEF HandlerFails, Once
<1>6. ses' = [ses EXCEPT ![s] = Leaving(y, a)]
  BY <1>1, <1>2 DEF Go, Done, Leaving
<1> QED BY <1>5, <1>6, LeavingBased, StepOnce DEF HandlerFails, world

\* The run goes on after a lost execution with fresh entities.
LEMMA AbortOneOnce == ASSUME IInv, Once, NEW s \in Sessions, AbortOne(s) PROVE Once'
<1>1. PICK y \in SessionState : y = ses[s]
  BY DEF IInv, TypeOK
<1> DEFINE x(a) == [Leaving(y, a) EXCEPT !.pc = "xread"]
<1>2. PICK a \in First(y.run) : Rollback(s, Idle) \/ Rollback(s, x(a))
  BY <1>1 DEF AbortOne, Done, Leaving
<1>3. Carries(x(a)) /\ x(a).pc # "write"
  BY PreparedBased DEF Leaving, SessionState, Carries
<1> HIDE DEF x
<1> QED BY <1>2, <1>3, PreparedBased, RollbackOnce

--------------------------------------------------------------------------------
(* The sweeper and the world *)

\* An expired action keeps its baseline.
LEMMA SweepReadOnce ==
    ASSUME IInv, Once, NEW s \in Sessions, NEW held \in BOOLEAN, SweepRead(s, held) PROVE Once'
<1>1. PICK y \in SessionState : y = ses[s] /\ Carries(y)
  BY DEF IInv, TypeOK, Once
<1> DEFINE S == IF held THEN {}
                ELSE {a \in Actions : See(s, a).status \in Reviewable /\ See(s, a).exp = "past"}
           ent == [a \in Actions |-> IF a \in S THEN [See(s, a) EXCEPT !.status = "expired"]
                                               ELSE Prepared]
           x == Saving(y, S, ent, "queue")
<1>2. ses' = [ses EXCEPT ![s] = x]
  BY <1>1 DEF SweepRead, Go
<1>3. \A a \in Actions : Based(ent[a])
  <2>1. \A a \in Actions : Based([See(s, a) EXCEPT !.status = "expired"])
    BY SeenBased, EditsBased DEF Status, Terminal
  <2> HIDE DEF S
  <2> QED BY <2>1, PreparedBased
<1> HIDE DEF S, ent
<1>4. Carries(x) /\ x.pc # "write"
  BY <1>3, SavingBased
<1> HIDE DEF x
<1> QED BY <1>2, <1>4, QuietOnce DEF SweepRead

\* A requeued or dead-lettered action keeps its baseline.
LEMMA SweepQueueOnce ==
    ASSUME IInv, Once, NEW s \in Sessions, NEW held \in BOOLEAN, NEW cool \in SUBSET Actions,
           SweepQueue(s, held, cool)
    PROVE  Once'
<1>1. PICK y \in SessionState : y = ses[s] /\ Carries(y)
  BY DEF IInv, TypeOK, Once
<1>2. PICK bs, S, dead, ent :
        /\ ses' = [ses EXCEPT ![s] = Saving([y EXCEPT !.batches = bs], S, ent, "filter")]
        /\ ent = [a \in Actions |->
                     CASE a \in dead -> [Requeued(See(s, a)) EXCEPT !.status = "expired"]
                       [] a \in S \ dead -> Requeued(See(s, a))
                       [] OTHER -> Prepared]
  <2> DEFINE cand == {a \in Actions : See(s, a).status \in {"approved", "executing"}}
             new  == [a \in Actions |-> Requeued(See(s, a))]
             dead == {a \in cand : new[a].meta.att >= MaxAttempts}
             S    == dead \cup {a \in cand : See(s, a).status = "executing"}
             ent  == [a \in Actions |->
                        CASE a \in dead -> [new[a] EXCEPT !.status = "expired"]
                          [] a \in S \ dead -> new[a]
                          [] OTHER -> Prepared]
             B    == {BatchOf(new[a], a) : a \in {b \in cand \ (dead \cup cool) : new[b].meta.queued}}
             bs   == IF held THEN {} ELSE B
  <2>1. ses' = [ses EXCEPT ![s] = Saving([y EXCEPT !.batches = bs], S, ent, "filter")]
    BY <1>1 DEF SweepQueue, Go
  <2>2. ent = [a \in Actions |->
                 CASE a \in dead -> [Requeued(See(s, a)) EXCEPT !.status = "expired"]
                   [] a \in S \ dead -> Requeued(See(s, a))
                   [] OTHER -> Prepared]
    OBVIOUS
  <2> HIDE DEF S, dead, ent, bs
  <2> QED BY <2>1, <2>2
<1>3. \A a \in Actions : Based(ent[a])
  <2>1. ASSUME NEW a \in Actions
        PROVE  /\ Based(Requeued(See(s, a)))
               /\ Based([Requeued(See(s, a)) EXCEPT !.status = "expired"])
    <3>1. PICK e \in Row : e = See(s, a) /\ Based(e)
      BY SeenBased
    <3>2. Requeued(e) \in Row /\ Based(Requeued(e))
      BY <3>1, RequeuedTyped, EditsBased
    <3> QED BY <3>1, <3>2, EditsBased DEF Status, Terminal
  <2> QED BY <1>2, <2>1, PreparedBased
<1> DEFINE z == [y EXCEPT !.batches = bs]
           x == Saving(z, S, ent, "filter")
<1>4. Carries(x) /\ x.pc # "write"
  BY <1>3 DEF Saving, SessionState, Carries
<1>5. ses' = [ses EXCEPT ![s] = x]
  BY <1>2
<1> HIDE DEF x
<1> QED BY <1>4, <1>5, QuietOnce DEF SweepQueue

\* The sweep moves on with the entities it has.
LEMMA SweepMovesOnce ==
    ASSUME IInv, Once, NEW s \in Sessions,
           \/ SweepBatch(s) \/ SweepHeld(s)
           \/ \E cool \in SUBSET Actions : SweepFilter(s, cool)
    PROVE  Once'
<1>1. PICK y \in SessionState : y = ses[s] /\ Carries(y)
  BY DEF IInv, TypeOK, Once
<1>2. PICK x : Carries(x) /\ x.pc # "write" /\ ses' = [ses EXCEPT ![s] = x]
  <2>1. CASE SweepBatch(s)
    <3>1. PICK B : ses' = [ses EXCEPT ![s] = [y EXCEPT !.batches = y.batches \ {B}, !.run = B,
                                                      !.pc = "plan"]]
      BY <1>1, <2>1 DEF SweepBatch, Go
    <3> DEFINE x == [y EXCEPT !.batches = y.batches \ {B}, !.run = B, !.pc = "plan"]
    <3>2. Carries(x) /\ x.pc # "write"
      BY <1>1 DEF SessionState, Carries
    <3> HIDE DEF x
    <3> QED BY <3>1, <3>2 DEF x
  <2>2. CASE SweepHeld(s)
    <3> DEFINE x == [y EXCEPT !.pc = "commit"]
    <3>1. Carries(x) /\ x.pc # "write"
      BY <1>1 DEF SessionState, Carries
    <3> HIDE DEF x
    <3>2. ses' = [ses EXCEPT ![s] = Idle] \/ ses' = [ses EXCEPT ![s] = x]
      BY <1>1, <2>2 DEF SweepHeld, Go, x
    <3> QED BY <3>1, <3>2, PreparedBased
  <2>3. CASE \E cool \in SUBSET Actions : SweepFilter(s, cool)
    <3>1. PICK bs : ses' = [ses EXCEPT ![s] = [y EXCEPT !.batches = bs, !.pc = BatchOrEnd(bs)]]
      BY <1>1, <2>3 DEF SweepFilter, Go
    <3> DEFINE x == [y EXCEPT !.batches = bs, !.pc = BatchOrEnd(bs)]
    <3>2. Carries(x) /\ x.pc # "write"
      BY <1>1 DEF SessionState, Carries, BatchOrEnd
    <3> HIDE DEF x
    <3> QED BY <3>1, <3>2 DEF x
  <2> QED BY <2>1, <2>2, <2>3
<1>3. UNCHANGED <<db, world>>
  BY DEF SweepBatch, SweepHeld, SweepFilter
<1> QED BY <1>2, <1>3, QuietOnce

\* The clock moves no baseline.
LEMMA LapseOnce == ASSUME IInv, Once, NEW a \in Actions, Lapse(a) PROVE Once'
<1>1. /\ row' = [row EXCEPT ![a] = [row[a] EXCEPT !.exp = "past"]]
      /\ draft' = [draft EXCEPT ![a] = [draft[a] EXCEPT !.exp = "past"]]
      /\ UNCHANGED <<ses, ver, unread, writes>>
  BY DEF Lapse, world, IInv, TypeOK
<1>2. Based([row[a] EXCEPT !.exp = "past"]) /\ Based([draft[a] EXCEPT !.exp = "past"])
  BY EditsBased DEF IInv, TypeOK, Once
<1>3. \A b \in Actions : Based(row'[b]) /\ Based(draft'[b])
  BY <1>1, <1>2 DEF Once, IInv, TypeOK
<1> QED BY <1>1, <1>3 DEF Once, Carries, Based, Unchecked

\* A human edit only makes the ticket later.
LEMMA HumanEditOnce == ASSUME IInv, Once, HumanEdit PROVE Once'
<1>1. UNCHANGED <<row, draft, ses, unread, writes>> /\ ver' = ver + 1
  BY DEF HumanEdit, db
<1>2. ver > 1 => ver' > 1
  BY <1>1 DEF IInv, TypeOK
<1> QED BY <1>1, <1>2 DEF Once, Carries, Based, Unchecked

--------------------------------------------------------------------------------
(* The invariant and the theorem *)

\* Before any request every baseline is version 1 and nothing is written.
LEMMA InitOnce == Init => Once
BY PreparedBased DEF Init, Once, Carries, Idle, Based, Prepared, Unchecked

\* Every step of a lone action's requests, jobs and executions keeps the invariant.
LEMMA NextOnce == ASSUME NumActions = 1, IInv, Once, [Next]_vars PROVE Once'
<1>1. ASSUME NEW s \in Sessions, Review(s) \/ Cron(s) PROVE Once'
  <2>1. ASSUME NEW k, NEW S \in SUBSET Actions, Begin(s, k, S) PROVE Once'
    BY <2>1, BeginOnce
  <2>2. ASSUME NEW k \in DOMAIN Outcome, NEW a \in Actions, Begin(s, k, {a}) PROVE Once'
    <3>1. {a} \in SUBSET Actions
      OBVIOUS
    <3> QED BY <2>1, <2>2, <3>1
  <2>3. CASE Cron(s)
    <3>1. {} \in SUBSET Actions
      OBVIOUS
    <3> QED BY <2>1, <2>3, <3>1 DEF Cron
  <2> QED BY <1>1, <2>1, <2>2, <2>3 DEF Review
<1>2. ASSUME NEW s \in Sessions, Save(s) PROVE Once'
  BY <1>2, SelectOnce, UpdateOnce DEF Save
<1>3. ASSUME NEW s \in Sessions, Execute(s) PROVE Once'
  BY <1>3, ReadApprovedOnce, ClaimWonOnce, LeaveOnce, GatePassesOnce, SettleOnce,
     WrittenOnceSteps, RecordOnce DEF Execute
<1>4. ASSUME NEW s \in Sessions, ExecuteFails(s) PROVE Once'
  BY <1>4, SettleOnce, WrittenOnceSteps, BaselineUnreadOnce, HandlerFailsOnce, AbortOneOnce
     DEF ExecuteFails
<1>5. ASSUME NEW s \in Sessions, Sweep(s) PROVE Once'
  BY <1>5, SweepReadOnce, SweepQueueOnce, SweepMovesOnce DEF Sweep
<1>6. ASSUME NEW s \in Sessions, Step(s) \/ Crash(s) PROVE Once'
  BY <1>2, <1>3, <1>4, <1>5, <1>6, DecideOnce, StampOnce, BulkSignOnce, CommitOnce, CrashOnce
     DEF Step
<1>7. ASSUME NEW a \in Actions, Lapse(a) PROVE Once'
  BY <1>7, LapseOnce
<1>8. CASE HumanEdit
  BY <1>8, HumanEditOnce
<1>9. CASE UNCHANGED vars
  BY <1>9 DEF vars, db, world, Once, Carries, Based, Unchecked
<1> QED BY <1>1, <1>6, <1>7, <1>8, <1>9 DEF Next

\* The only action on its ticket is written at most once, however many requests and
\* sweeps race for it and whatever answers, transactions or sessions are lost, unless
\* its policy is to apply it anyway or its base was not recorded.
THEOREM LoneActionOnce == ASSUME NumActions = 1 PROVE Spec => []WrittenOnce
<1>1. Init => Once
  BY InitOnce
<1>2. IInv /\ Once /\ [Next]_vars => Once'
  BY NextOnce
<1>3. Once => WrittenOnce
  BY DEF Once, WrittenOnce
<1> QED BY <1>1, <1>2, <1>3, Inductive, PTL DEF Spec

--------------------------------------------------------------------------------
(* The contract: the inductive invariant of a single session *)

\* A proposal may move from status v to status w in one transaction.
Leads(v, w) == v = w \/ <<v, w>> \in Contract!Moves

\* Every write so far was made for an action that is checked.
Guarded == \A b \in Unchecked : writes[b] = 0

\* ... and some action has been written that rs does not report as executed.
Lost(rs) == Guarded /\ \E a \in Actions : writes[a] > 0 /\ rs[a].status # "executed"

\* The version e of action a knows of no later version of the ticket than this one, or
\* only of earlier ones; it has no base only if it was prepared without.
Known(a, e) ==
    /\ e.meta.base <= ver /\ e.meta.post <= ver
    /\ e.meta.base = 0 => a \in unread
Older(e) == e.meta.base < ver /\ e.meta.post < ver

\* The rows: what a transaction makes of an action is a move of the contract, a claim
\* apart; and a lost write has left every baseline behind, unless an action that is not
\* checked was written.
Rows ==
    /\ \A a \in Actions :
        \/ Leads(row[a].status, draft[a].status)
        \/ draft[a].status = "executing" /\ row[a].status = "approved"
    /\ \A a \in Actions : Known(a, row[a]) /\ Known(a, draft[a])
    /\ \A a \in Actions : writes[a] > 0 => ver > 1
    /\ Lost(row) => \A a \in Actions : Older(row[a])
    /\ Lost(draft) => \A a \in Actions : Older(draft[a])

\* Where the session x has written nothing yet.
Outside(x) == x.pc \in {"idle", "read"} \/ (x.pc = "plan" /\ x.kind = "plan")

\* The session x has passed the freshness check, and has written the ticket.
Passed(x) == Handling(x) /\ x.pc # "gate"
Wrote(x) == Passed(x) /\ x.pc # "write"

\* The session x is saving entities.
Busy(x) == x.pc \in {"select", "update"}

\* A decision never runs an execution, and an execution never a sweep's queue.
Placed(x) ==
    /\ x.kind \in {"none", "reject", "dismiss"} =>
        x.pc \in {"idle", "read", "commit"} \/ (Busy(x) /\ x.next = "commit")
    /\ x.kind = "plan" =>
        /\ x.pc \notin {"queue", "filter", "batch"}
        /\ Busy(x) => x.next \notin {"queue", "filter"}
    /\ Busy(x) => x.next # "idle"

\* The session x approves.
Approves(x) == x.kind \in {"approve", "bulk"}

\* What x is about to save moves an action as the contract allows, from what is
\* committed and from what its transaction has written.
Saves(x) == Busy(x) => \A a \in Actions \cap x.todo :
    /\ Leads(draft[a].status, x.ent[a].status)
    /\ Leads(row[a].status, x.ent[a].status)
    /\ x.ent[a].status = "approved" /\ ~ Approves(x) => row[a].status = "approved"

\* No entity of x knows of a later version; none is up to date if a write was lost.
Carried(x) == \A a \in Actions :
    /\ Known(a, x.ent[a])
    /\ Lost(draft) => Older(x.ent[a])

\* The session x: before its first write nothing is locked; only who approves turns a
\* proposal approved; the action it executes is approved; and no write was lost once it
\* has passed the freshness check with an action that is checked.
Tracks(x) ==
    /\ Placed(x)
    /\ Outside(x) => \A a \in Actions : lock[a] = NoSession
    /\ ~ Approves(x) => \A a \in Actions :
         draft[a].status \in {"approved", "executing"} => row[a].status = "approved"
    /\ Saves(x)
    /\ Handling(x) => \A a \in First(x.run) : row[a].status = "approved"
    /\ x.pc \in {"gate", "write"} => \A a \in First(x.run) : draft[a].status = "executing"
    /\ Carried(x)
    /\ Passed(x) /\ Lost(draft) => x.pc = "write" /\ First(x.run) \subseteq Unchecked
    /\ x.pc = "record" => \A a \in Actions : Older(draft[a])
    /\ Wrote(x) => \A a \in First(x.run) : writes[a] > 0 /\ Older(x.ent[a])

\* The inductive invariant, for the session s.
CInv(s) == Rows /\ Tracks(ses[s])

--------------------------------------------------------------------------------
(* Lemmas about the operators *)

\* The moves of the contract, between two statuses.
LEMMA LeadsMeans ==
    ASSUME NEW v, NEW w
    PROVE  Leads(v, w) <=>
             \/ v = w
             \/ v = "pending" /\ w \in {"approved", "rejected", "dismissed", "expired"}
             \/ v = "approved" /\ w \in {"executed", "rejected", "dismissed", "expired"}
BY DEF Leads, Contract!Moves

\* A session on its own sees its draft of every row.
LEMMA SeesDraft ==
    ASSUME IInv, NEW s, Sessions = {s}, NEW a \in Actions
    PROVE  See(s, a) = draft[a] /\ draft[a] \in Row /\ row[a] \in Row
BY DEF IInv, TypeOK, RowInv, See, Visible

\* What is not checked is an action.
LEMMA UncheckedActions == ASSUME IInv PROVE Unchecked \subseteq Actions
BY PartiesAssumption DEF IInv, TypeOK, Unchecked, Actions

\* Changing the status of an action leaves its metadata.
LEMMA StatusEdit ==
    ASSUME NEW e \in Row, NEW st \in Status
    PROVE  LET f == [e EXCEPT !.status = st] IN
           f \in Row /\ f.status = st /\ f.meta = e.meta
BY DEF Row

\* A failed attempt keeps the versions the action knows.
LEMMA FailedEdit ==
    ASSUME NEW e \in Row
    PROVE  /\ Failed(e) \in Row /\ Failed(e).status = "approved"
           /\ Failed(e).meta.base = e.meta.base /\ Failed(e).meta.post = e.meta.post
<1>1. PICK m \in Metadata : m = e.meta
  BY DEF Row
<1>2. Failed(e).meta.base = e.meta.base /\ Failed(e).meta.post = e.meta.post
  BY <1>1 DEF Failed, Row, Metadata
<1> QED BY <1>2, FailedTyped

\* So does a stamp.
LEMMA StampedEdit ==
    ASSUME NEW e \in Row, NEW S \in SUBSET Actions, NEW queue \in BOOLEAN
    PROVE  LET f == Stamped(e, S, queue) IN
           /\ f \in Row /\ f.status = e.status
           /\ f.meta.base = e.meta.base /\ f.meta.post = e.meta.post
<1>1. PICK m \in Metadata : m = e.meta
  BY DEF Row
<1> QED BY <1>1 DEF Stamped, Row, Metadata

\* Fresh entities know of version 1 only, and a write has made a later one.
LEMMA FreshCarried ==
    ASSUME IInv, Rows
    PROVE  /\ \A a : Known(a, Prepared)
           /\ Lost(draft) => Older(Prepared)
           /\ (\E a \in Actions : writes[a] > 0) => Older(Prepared)
           /\ \A x : x.ent = Idle.ent => Carried(x)
<1>1. ver \in Nat /\ ver >= 1
  BY SizeAssumption DEF IInv, TypeOK
<1>2. Prepared.meta.base = 1 /\ Prepared.meta.post = 0
  BY DEF Prepared
<1>3. \A a : Known(a, Prepared)
  BY <1>1, <1>2 DEF Known
<1>4. (\E a \in Actions : writes[a] > 0) => Older(Prepared)
  BY <1>1, <1>2 DEF Older, Rows
<1>5. Lost(draft) => Older(Prepared)
  BY <1>4 DEF Lost, Guarded, Unchecked
<1>6. \A a \in Actions : Idle.ent[a] = Prepared
  BY DEF Idle
<1> QED BY <1>3, <1>4, <1>5, <1>6 DEF Carried

\* The versions that a typed row knows.
LEMMA MetaTyped ==
    ASSUME NEW e \in Row
    PROVE  e.meta.base \in Nat /\ e.meta.post \in Nat
BY DEF Row, Metadata

--------------------------------------------------------------------------------
(* Steps in general *)

\* A step that touches nothing but the session.
LEMMA QuietTracks ==
    ASSUME IInv, NEW s, Sessions = {s}, CInv(s), NEW x,
           ses' = [ses EXCEPT ![s] = x], UNCHANGED <<db, world>>, Tracks(x)
    PROVE  CInv(s)'
<1>1. ses'[s] = x
  BY DEF IInv, TypeOK
<1>2. UNCHANGED <<row, draft, lock, ver, unread, writes>>
  BY DEF db, world
<1>3. Rows'
  BY <1>2 DEF CInv, Rows, Lost, Guarded, Unchecked, Known, Older
<1>4. Tracks(ses[s])'
  BY <1>1, <1>2
     DEF Tracks, Placed, Outside, Busy, Approves, Saves, Carried, Handling, Passed, Wrote,
     Lost, Guarded, Unchecked, Known, Older
<1> QED BY <1>3, <1>4 DEF CInv

\* A session that is not executing, saving or starting has less to keep.
LEMMA LooseTracks ==
    ASSUME NEW x, NEW y, Tracks(y), Approves(y) => Approves(x), Placed(x),
           ~ Outside(x), ~ Busy(x), ~ Handling(x), Carried(x)
    PROVE  Tracks(x)
BY DEF Tracks, Saves, Handling, Passed, Wrote

\* The session writes version r of row a, and the ticket is left alone.
LEMMA PutTracks ==
    ASSUME IInv, NEW s, Sessions = {s}, CInv(s), NEW a \in Actions, NEW r, Put(s, a, r),
           NEW x, ses' = [ses EXCEPT ![s] = x], UNCHANGED world,
           Known(a, r), Lost(draft) => Older(r),
           writes[a] > 0 /\ draft[a].status = "executed" => r.status = "executed",
           \/ Leads(row[a].status, r.status)
           \/ r.status = "executing" /\ row[a].status = "approved",
           ~ Approves(x) => ~ Approves(ses[s]),
           ~ Approves(x) /\ r.status \in {"approved", "executing"} => row[a].status = "approved",
           Placed(x), ~ Outside(x), x.pc # "record",
           Saves(x), Busy(x) => a \notin x.todo,
           Handling(x) => \A b \in First(x.run) : row[b].status = "approved",
           x.pc \in {"gate", "write"} =>
             \A b \in First(x.run) : b = a /\ r.status = "executing",
           Carried(x), Passed(x) => ~ Lost(draft),
           Wrote(x) => \A b \in First(x.run) : writes[b] > 0 /\ Older(x.ent[b])
    PROVE  CInv(s)'
<1>1. ses'[s] = x
  BY DEF IInv, TypeOK
<1>2. /\ UNCHANGED <<row, ver, unread, writes>>
      /\ draft'[a] = r /\ \A b \in Actions \ {a} : draft'[b] = draft[b]
  BY DEF Put, IInv, TypeOK, world
<1>3. Lost(draft') => Lost(draft)
  BY <1>2 DEF Lost, Guarded, Unchecked
<1>4. Lost(draft)' => Lost(draft)
  BY <1>2, <1>3 DEF Lost, Guarded, Unchecked
<1>5. Rows'
  <2>1. \A b \in Actions :
          \/ Leads(row'[b].status, draft'[b].status)
          \/ draft'[b].status = "executing" /\ row'[b].status = "approved"
    BY <1>2 DEF CInv, Rows
  <2>2. \A b \in Actions : Known(b, row[b])' /\ Known(b, draft[b])'
    BY <1>2 DEF CInv, Rows, Known
  <2>3. Lost(row)' => \A b \in Actions : Older(row[b])'
    BY <1>2 DEF CInv, Rows, Lost, Guarded, Unchecked, Older
  <2>4. Lost(draft)' => \A b \in Actions : Older(draft[b])'
    BY <1>2, <1>4 DEF CInv, Rows, Older
  <2>5. \A b \in Actions : writes'[b] > 0 => ver' > 1
    BY <1>2 DEF CInv, Rows
  <2> QED BY <2>1, <2>2, <2>3, <2>4, <2>5 DEF Rows, Leads
<1>6. Saves(ses[s])'
  BY <1>1, <1>2 DEF Saves, Busy, Approves
<1>7. Carried(ses[s])'
  BY <1>1, <1>2, <1>4 DEF Carried, Known, Older
<1>8. ~ Approves(ses[s])' => \A b \in Actions :
        draft'[b].status \in {"approved", "executing"} => row'[b].status = "approved"
  BY <1>1, <1>2 DEF Approves, CInv, Tracks
<1> QED BY <1>1, <1>2, <1>4, <1>5, <1>6, <1>7, <1>8
        DEF CInv, Tracks, Placed, Outside, Busy, Approves, Handling, Passed, Wrote, Older

\* The session rolls back all that it has written and starts over or goes on.
LEMMA RollbackTracks ==
    ASSUME IInv, NEW s, Sessions = {s}, CInv(s), NEW x, Rollback(s, x),
           Placed(x), x.ent = Idle.ent, ~ Busy(x), ~ Handling(x)
    PROVE  CInv(s)'
<1>1. ses'[s] = x
  BY DEF IInv, TypeOK, Rollback, Go
<1>2. UNCHANGED <<row, ver, unread, writes>>
  BY DEF Rollback, world
<1>3. \A a \in Actions : draft'[a] = row[a] /\ lock'[a] = NoSession
  <2>1. \A a \in Actions : lock[a] \in {s, NoSession} /\ (lock[a] = NoSession => draft[a] = row[a])
    BY DEF IInv, TypeOK, RowInv
  <2>2. \A a \in Actions : /\ draft'[a] = (IF lock[a] = s THEN row[a] ELSE draft[a])
                           /\ lock'[a] = (IF lock[a] = s THEN NoSession ELSE lock[a])
    BY DEF Rollback, RolledBack, Released, IInv, TypeOK
  <2> QED BY <2>1, <2>2
<1>4. Lost(draft)' <=> Lost(row)
  BY <1>2, <1>3 DEF Lost, Guarded, Unchecked
<1>5. Rows'
  <2>1. \A b \in Actions : Leads(row'[b].status, draft'[b].status)
    BY <1>2, <1>3 DEF Leads
  <2>2. \A b \in Actions : Known(b, row[b])' /\ Known(b, draft[b])'
    BY <1>2, <1>3 DEF CInv, Rows, Known
  <2>3. Lost(row)' => \A b \in Actions : Older(row[b])'
    BY <1>2 DEF CInv, Rows, Lost, Guarded, Unchecked, Older
  <2>4. Lost(draft)' => \A b \in Actions : Older(draft[b])'
    BY <1>2, <1>3, <1>4 DEF CInv, Rows, Older
  <2>5. \A b \in Actions : writes'[b] > 0 => ver' > 1
    BY <1>2 DEF CInv, Rows
  <2> QED BY <2>1, <2>2, <2>3, <2>4, <2>5 DEF Rows, Leads
<1>6. Carried(ses[s])'
  <2>1. \A b \in Actions : ses'[s].ent[b] = Prepared
    BY <1>1 DEF Idle
  <2>2. (\A a : Known(a, Prepared)) /\ (Lost(row) => Older(Prepared))
    BY FreshCarried DEF CInv, Lost, Guarded, Unchecked
  <2> QED BY <1>2, <1>4, <2>1, <2>2 DEF Carried, Known, Older
<1>7. \A b \in Actions :
        draft'[b].status \in {"approved", "executing"} => row'[b].status = "approved"
  BY <1>2, <1>3 DEF IInv, RowInv
<1> QED BY <1>1, <1>3, <1>5, <1>6, <1>7
        DEF CInv, Tracks, Saves, Placed, Outside, Busy, Handling, Passed, Wrote

--------------------------------------------------------------------------------
(* Repository.save and the requests, for a single session *)

\* A saved row has its status and its metadata from the row or from the entity.
LEMMA OverwriteParts ==
    ASSUME NEW c \in Row, NEW e \in Row, NEW C \in SUBSET Columns
    PROVE  LET r == Overwrite(c, e, C) IN
           r.status \in {c.status, e.status} /\ r.meta \in {c.meta, e.meta}
BY DEF Row, Overwrite

\* No claim is in progress while the session is elsewhere.
LEMMA NoClaim ==
    ASSUME IInv, NEW s, Sessions = {s}, ses[s].pc \notin {"gate", "write"}, NEW a \in Actions
    PROVE  draft[a].status # "executing"
BY DEF IInv, RowInv

\* Reading a row before its save changes nothing.
LEMMA SelectTracks ==
    ASSUME IInv, NEW s, Sessions = {s}, CInv(s), Select(s) PROVE CInv(s)'
<1>1. PICK y \in SessionState : y = ses[s] /\ Tracks(y)
  BY DEF IInv, TypeOK, CInv
<1>2. PICK C : ses' = [ses EXCEPT ![s] = [y EXCEPT !.pc = "update", !.cols = C]]
  BY <1>1 DEF Select, Go
<1> DEFINE x == [y EXCEPT !.pc = "update", !.cols = C]
<1>3. y.pc = "select"
  BY <1>1 DEF Select, At
<1>4. /\ x.pc = "update" /\ x.kind = y.kind /\ x.next = y.next
      /\ x.todo = y.todo /\ x.run = y.run /\ x.ent = y.ent
  BY DEF SessionState
<1> HIDE DEF x
<1>5. Tracks(x)
  BY <1>1, <1>3, <1>4
     DEF Tracks, Placed, Outside, Busy, Approves, Saves, Carried, Handling, Passed, Wrote
<1>6. ses' = [ses EXCEPT ![s] = x]
  BY <1>2 DEF x
<1> QED BY <1>5, <1>6, QuietTracks DEF Select

\* A save writes what the contract allows its entity to become.
LEMMA UpdateTracks ==
    ASSUME IInv, NEW s, Sessions = {s}, CInv(s), Update(s) PROVE CInv(s)'
<1>1. PICK y \in SessionState : y = ses[s] /\ Tracks(y)
  BY DEF IInv, TypeOK, CInv
<1>2. PICK a \in First(y.todo) :
        LET rest == y.todo \ {a}
        IN  /\ Put(s, a, Overwrite(See(s, a), y.ent[a], y.cols))
            /\ Go(s, [y EXCEPT !.todo = rest, !.cols = {},
                        !.ent = IF y.next = "sign" THEN @ ELSE [@ EXCEPT ![a] = Prepared],
                        !.pc = IF rest = {} THEN y.next ELSE "select"])
  BY <1>1 DEF Update
<1> DEFINE r == Overwrite(See(s, a), y.ent[a], y.cols)
           rest == y.todo \ {a}
           ent == IF y.next = "sign" THEN y.ent ELSE [y.ent EXCEPT ![a] = Prepared]
           pc == IF rest = {} THEN y.next ELSE "select"
           x == [y EXCEPT !.todo = rest, !.cols = {}, !.ent = ent, !.pc = pc]
<1>3. a \in Actions /\ a \in y.todo /\ y.pc = "update"
  BY <1>1, FirstIsOne DEF SessionState, Update, At
<1>4. See(s, a) = draft[a] /\ draft[a] \in Row /\ y.ent[a] \in Row /\ y.cols \in SUBSET Columns
  BY <1>3, SeesDraft DEF SessionState
<1>5. r.status \in {draft[a].status, y.ent[a].status} /\ r.meta \in {draft[a].meta, y.ent[a].meta}
  BY <1>4, OverwriteParts
<1> HIDE DEF r
<1>6. Known(a, r) /\ (Lost(draft) => Older(r))
  BY <1>1, <1>3, <1>5 DEF Known, Older, CInv, Rows, Tracks, Carried
<1>7. Leads(draft[a].status, y.ent[a].status) /\ Leads(row[a].status, y.ent[a].status)
  BY <1>1, <1>3 DEF Tracks, Saves, Busy
<1>8. draft[a].status # "executing"
  BY <1>1, <1>3, NoClaim
<1>9. /\ draft[a].status = "executed" => r.status = "executed"
      /\ Leads(row[a].status, r.status)
      /\ r.status # "executing"
  <2>1. draft[a].status = "executed" => y.ent[a].status = "executed"
    BY <1>7, LeadsMeans
  <2>2. Leads(row[a].status, draft[a].status)
    BY <1>3, <1>8 DEF CInv, Rows
  <2>3. y.ent[a].status # "executing"
    BY <1>7, <1>8, LeadsMeans
  <2> QED BY <1>5, <1>7, <1>8, <2>1, <2>2, <2>3
<1>10. ~ Approves(y) /\ r.status \in {"approved", "executing"} => row[a].status = "approved"
  BY <1>1, <1>3, <1>5, <1>9 DEF Tracks, Saves, Busy
<1>11. /\ \A b \in Actions : ent[b] \in {y.ent[b], Prepared}
       /\ \A b \in Actions \ {a} : ent[b] = y.ent[b]
  BY DEF SessionState
<1>12. /\ x.pc = pc /\ x.kind = y.kind /\ x.next = y.next
       /\ x.todo = rest /\ x.run = y.run /\ x.ent = ent
  BY DEF SessionState
<1>13. pc \in {"select", "commit", "sign", "xread", "queue", "filter", "done"}
       /\ (pc = "select" \/ pc = y.next)
  BY <1>1, <1>3 DEF Tracks, Placed, Busy, SessionState
<1>14. ses' = [ses EXCEPT ![s] = x] /\ Put(s, a, r) /\ UNCHANGED world
  BY <1>2 DEF Go, r, Update
<1> HIDE DEF x, pc, ent
<1>15. Carried(x)
  <2>1. (\A b : Known(b, Prepared)) /\ (Lost(draft) => Older(Prepared))
    BY FreshCarried DEF CInv
  <2> QED BY <1>1, <1>11, <1>12, <2>1 DEF Carried, Tracks
<1>16. Handling(x) => /\ Handling(y) /\ Passed(y) /\ Wrote(y)
                      /\ ~ Lost(draft)
                      /\ \A b \in First(x.run) : row[b].status = "approved" /\ writes[b] > 0
                                                 /\ Older(y.ent[b])
  BY <1>1, <1>3, <1>12, <1>13 DEF Tracks, Handling, Passed, Wrote
<1>17. Wrote(x) => \A b \in First(x.run) : writes[b] > 0 /\ Older(x.ent[b])
  <2>1. ASSUME Wrote(x), NEW b \in First(x.run) PROVE writes[b] > 0 /\ Older(x.ent[b])
    <3>1. b \in Actions
      BY <2>1, <1>12, FirstIsOne DEF SessionState
    <3>2. writes[b] > 0 /\ Older(y.ent[b])
      BY <2>1, <1>16 DEF Wrote, Passed
    <3>3. Older(Prepared)
      BY <3>1, <3>2, FreshCarried DEF CInv
    <3> QED BY <1>11, <1>12, <3>1, <3>2, <3>3 DEF Older
  <2> QED BY <2>1
<1>18. Placed(x) /\ ~ Outside(x) /\ x.pc # "record" /\ (Approves(x) <=> Approves(y))
  BY <1>1, <1>3, <1>12, <1>13 DEF Tracks, Placed, Busy, Outside, Approves
<1>19. Saves(x) /\ (Busy(x) => a \notin x.todo)
  BY <1>1, <1>3, <1>11, <1>12 DEF Tracks, Saves, Busy, Approves
<1> QED BY <1>1, <1>3, <1>6, <1>9, <1>10, <1>12, <1>13, <1>14, <1>15, <1>16, <1>17, <1>18, <1>19,
        PutTracks DEF Passed

\* A new request starts from the committed rows.
LEMMA BeginTracks ==
    ASSUME IInv, NEW s, Sessions = {s}, CInv(s), NEW k, NEW S \in SUBSET Actions, Begin(s, k, S)
    PROVE  CInv(s)'
<1> DEFINE x == [Idle EXCEPT !.kind = k, !.pc = "read", !.todo = S]
<1>1. x.pc = "read" /\ x.ent = Idle.ent
  BY DEF Idle
<1>2. \A a \in Actions : lock[a] = NoSession /\ draft[a] = row[a]
  BY DEF CInv, Tracks, Outside, Begin, At, IInv, RowInv
<1>3. \A a \in Actions : draft[a].status \in {"approved", "executing"} => row[a].status = "approved"
  BY <1>2 DEF IInv, RowInv
<1>4. x.kind = k /\ k # "plan" /\ k # "none"
  BY PartiesAssumption DEF Idle, Begin
<1>5. Carried(x)
  BY <1>1, FreshCarried DEF CInv
<1> HIDE DEF x
<1>6. Tracks(x)
  BY <1>1, <1>2, <1>3, <1>4, <1>5 DEF Tracks, Placed, Busy, Saves, Handling, Passed, Wrote
<1>7. ses' = [ses EXCEPT ![s] = x]
  BY DEF Begin, Go, x
<1> QED BY <1>6, <1>7, QuietTracks DEF Begin

\* A request that ends without having written anything.
LEMMA EndTracks ==
    ASSUME IInv, NEW s, Sessions = {s}, CInv(s), Outside(ses[s]),
           ses' = [ses EXCEPT ![s] = Idle], UNCHANGED <<db, world>>
    PROVE  CInv(s)'
<1>1. \A a \in Actions : lock[a] = NoSession /\ draft[a] = row[a]
  BY DEF CInv, Tracks, IInv, RowInv
<1>2. \A a \in Actions : draft[a].status \in {"approved", "executing"} => row[a].status = "approved"
  BY <1>1 DEF IInv, RowInv
<1>3. Carried(Idle) /\ Idle.pc = "idle" /\ Idle.kind = "none"
  BY FreshCarried DEF CInv, Idle
<1>4. Tracks(Idle)
  BY <1>1, <1>2, <1>3 DEF Tracks, Placed, Busy, Saves, Handling, Passed, Wrote
<1> QED BY <1>4, QuietTracks

\* A session z that starts to save, outside a claim, what the contract allows.
LEMMA SavingTracks ==
    ASSUME NEW z \in SessionState, NEW S \in SUBSET Actions, NEW ent,
           NEW pc \in {"commit", "sign", "xread", "queue", "filter"},
           \A a \in Actions : Known(a, ent[a]) /\ (Lost(draft) => Older(ent[a])),
           ~ Approves(z) => \A a \in Actions :
             draft[a].status \in {"approved", "executing"} => row[a].status = "approved",
           \A a \in S :
             /\ Leads(draft[a].status, ent[a].status)
             /\ Leads(row[a].status, ent[a].status)
             /\ ent[a].status = "approved" /\ ~ Approves(z) => row[a].status = "approved",
           z.kind \in {"none", "reject", "dismiss"} => pc = "commit",
           z.kind = "plan" => pc \notin {"queue", "filter"}
    PROVE  Tracks(Saving(z, S, ent, pc))
<1> DEFINE x == Saving(z, S, ent, pc)
<1>1. /\ x.pc = (IF S = {} THEN pc ELSE "select") /\ x.next = pc /\ x.kind = z.kind
      /\ x.todo = S /\ x.run = z.run /\ x.ent = ent
  BY DEF Saving, SessionState
<1> HIDE DEF x
<1>2. Placed(x) /\ ~ Outside(x)
  BY <1>1 DEF Placed, Busy, Outside
<1>3. ~ Handling(x) /\ x.pc \notin {"gate", "write", "record"}
  BY <1>1 DEF Handling
<1>4. Saves(x)
  BY <1>1 DEF Saves, Busy, Approves
<1>5. Carried(x) /\ (Approves(x) <=> Approves(z))
  BY <1>1 DEF Carried, Approves
<1>6. Tracks(x)
  BY <1>2, <1>3, <1>4, <1>5 DEF Tracks, Passed, Wrote
<1> QED BY <1>6 DEF x

\* A decision moves its action from a status under review.
LEMMA DecideTracks ==
    ASSUME IInv, NEW s, Sessions = {s}, CInv(s), Decide(s) PROVE CInv(s)'
<1>1. PICK y \in SessionState : y = ses[s] /\ Tracks(y)
  BY DEF IInv, TypeOK, CInv
<1>2. y.pc = "read" /\ y.kind \in {"approve", "reject", "dismiss"}
  BY <1>1 DEF Decide, At, Outcome
<1>3. PICK a \in y.todo :
        \/ ses' = [ses EXCEPT ![s] = Idle]
        \/ /\ See(s, a).status \in Decidable(y.kind)
           /\ ses' = [ses EXCEPT ![s] =
                Saving([y EXCEPT !.signed = {a}, !.run = {a}], {a},
                       [y.ent EXCEPT ![a] = [See(s, a) EXCEPT !.status = Outcome[y.kind]]],
                       "commit")]
  BY <1>1 DEF Decide, Go
<1>4. CASE ses' = [ses EXCEPT ![s] = Idle]
  BY <1>1, <1>2, <1>4, EndTracks DEF Decide, Outside
<1> DEFINE z == [y EXCEPT !.signed = {a}, !.run = {a}]
           e == [See(s, a) EXCEPT !.status = Outcome[y.kind]]
           ent == [y.ent EXCEPT ![a] = e]
           x == Saving(z, {a}, ent, "commit")
<1>5. CASE /\ See(s, a).status \in Decidable(y.kind)
           /\ ses' = [ses EXCEPT ![s] = x]
  <2>1. a \in Actions /\ z \in SessionState /\ z.kind = y.kind
    BY <1>3 DEF SessionState
  <2>2. lock[a] = NoSession /\ draft[a] = row[a] /\ See(s, a) = draft[a] /\ draft[a] \in Row
    BY <1>1, <1>2, <2>1, SeesDraft DEF Tracks, Outside, IInv, RowInv
  <2>3. draft[a].status \in {"pending", "approved"}
    BY <1>1, <1>2, <1>5, <2>1, <2>2, NoClaim DEF Decidable, Reviewable
  <2>4. Outcome[y.kind] \in {"approved", "rejected", "dismissed"}
        /\ (Outcome[y.kind] = "approved" => Approves(z))
    BY <1>2, <2>1 DEF Outcome, Approves
  <2>5. e.status = Outcome[y.kind] /\ e.meta = draft[a].meta
    BY <2>2, <2>4, StatusEdit DEF Status, Reviewable, Terminal
  <2>6. Known(a, e) /\ (Lost(draft) => Older(e))
    BY <2>1, <2>5 DEF Known, Older, CInv, Rows
  <2> HIDE DEF e
  <2>7. ent[a] = e /\ \A b \in Actions \ {a} : ent[b] = y.ent[b]
    BY <2>1 DEF SessionState
  <2> HIDE DEF ent, z
  <2>8. \A b \in Actions : Known(b, ent[b]) /\ (Lost(draft) => Older(ent[b]))
    BY <1>1, <2>6, <2>7 DEF Tracks, Carried
  <2>9. Leads(draft[a].status, ent[a].status) /\ Leads(row[a].status, ent[a].status)
    BY <2>2, <2>3, <2>4, <2>5, <2>7, LeadsMeans
  <2>10. Approves(z) <=> Approves(y)
    BY <2>1 DEF Approves
  <2>11. {a} \in SUBSET Actions /\ z.kind # "plan"
    BY <1>2, <2>1
  <2>12. \A b \in {a} :
           /\ Leads(draft[b].status, ent[b].status)
           /\ Leads(row[b].status, ent[b].status)
           /\ ent[b].status = "approved" /\ ~ Approves(z) => row[b].status = "approved"
    BY <2>4, <2>5, <2>7, <2>9
  <2>13. ~ Approves(z) => \A b \in Actions :
           draft[b].status \in {"approved", "executing"} => row[b].status = "approved"
    BY <1>1, <2>10 DEF Tracks
  <2>14. Tracks(x)
    BY <2>1, <2>8, <2>11, <2>12, <2>13, SavingTracks
  <2> HIDE DEF x
  <2> QED BY <1>5, <2>14, QuietTracks DEF Decide
<1> QED BY <1>3, <1>4, <1>5

\* A stamped entity has the status of its row.
LEMMA StampingTracks ==
    ASSUME IInv, NEW s, Sessions = {s}, CInv(s), NEW y \in SessionState, y = ses[s],
           y.pc \notin {"gate", "write"}, NEW S \in SUBSET Actions, NEW queue \in BOOLEAN,
           NEW pc \in {"commit", "sign", "xread"}, y.kind \notin {"none", "reject", "dismiss"}
    PROVE  Tracks(Stamping(s, y, S, queue, pc))
<1> DEFINE ent == [a \in Actions |-> IF a \in S THEN Stamped(See(s, a), S, queue)
                                                ELSE y.ent[a]]
           z == [y EXCEPT !.run = S]
<1>1. z \in SessionState /\ z.kind = y.kind
  BY DEF SessionState
<1>2. ASSUME NEW a \in Actions
      PROVE  LET e == Stamped(See(s, a), S, queue) IN
             /\ e.status = draft[a].status /\ Leads(row[a].status, draft[a].status)
             /\ Known(a, e) /\ (Lost(draft) => Older(e))
  <2>1. See(s, a) = draft[a] /\ draft[a] \in Row
    BY SeesDraft
  <2>2. Known(a, draft[a]) /\ (Lost(draft) => Older(draft[a])) /\ Leads(row[a].status, draft[a].status)
    BY NoClaim DEF CInv, Rows
  <2> QED BY <2>1, <2>2, StampedEdit DEF Known, Older
<1>3. \A a \in Actions : Known(a, ent[a]) /\ (Lost(draft) => Older(ent[a]))
  <2>1. \A a \in Actions : Known(a, y.ent[a]) /\ (Lost(draft) => Older(y.ent[a]))
    BY DEF CInv, Tracks, Carried
  <2> QED BY <1>2, <2>1
<1>4. ~ Approves(z) => \A a \in Actions :
        draft[a].status \in {"approved", "executing"} => row[a].status = "approved"
  BY <1>1 DEF CInv, Tracks, Approves
<1>5. \A a \in S :
        /\ Leads(draft[a].status, ent[a].status)
        /\ Leads(row[a].status, ent[a].status)
        /\ ent[a].status = "approved" /\ ~ Approves(z) => row[a].status = "approved"
  <2>1. ASSUME NEW a \in S PROVE ent[a].status = draft[a].status
    BY <1>2
  <2> HIDE DEF ent, z
  <2> QED BY <1>2, <1>4, <2>1 DEF Leads
<1>6. Stamping(s, y, S, queue, pc) = Saving(z, S, ent, pc)
  BY DEF Stamping
<1> HIDE DEF ent, z
<1> QED BY <1>1, <1>3, <1>4, <1>5, <1>6, SavingTracks

\* A bulk approval stamps the actions it read, or has nothing to do.
LEMMA BulkReadTracks ==
    ASSUME IInv, NEW s, Sessions = {s}, CInv(s), BulkRead(s) PROVE CInv(s)'
<1>1. PICK y \in SessionState : y = ses[s]
  BY DEF IInv, TypeOK
<1> DEFINE S == {a \in y.todo : See(s, a).status \in Reviewable \cup {"executed"}}
<1>2. S \in SUBSET Actions /\ y.pc = "read" /\ y.kind = "bulk"
  BY <1>1 DEF SessionState, BulkRead, At
<1>3. ses' = [ses EXCEPT ![s] = Idle] \/ ses' = [ses EXCEPT ![s] = Stamping(s, y, S, TRUE, "sign")]
  BY <1>1 DEF BulkRead, Go
<1> HIDE DEF S
<1> DEFINE x == Stamping(s, y, S, TRUE, "sign")
<1>4. Tracks(x)
  BY <1>1, <1>2, StampingTracks
<1> HIDE DEF x
<1>5. CASE ses' = [ses EXCEPT ![s] = Idle]
  BY <1>1, <1>2, <1>5, EndTracks DEF BulkRead, Outside
<1>6. CASE ses' = [ses EXCEPT ![s] = x]
  BY <1>4, <1>6, QuietTracks DEF BulkRead
<1> QED BY <1>3, <1>5, <1>6 DEF x

\* So does the plan of an execution; a sweep goes on to its next batch.
LEMMA PlanReadTracks ==
    ASSUME IInv, NEW s, Sessions = {s}, CInv(s), PlanRead(s) PROVE CInv(s)'
<1>1. PICK y \in SessionState : y = ses[s] /\ Tracks(y)
  BY DEF IInv, TypeOK, CInv
<1> DEFINE S == {a \in y.run : See(s, a).status \in {"approved", "executed"}}
           pc == IF y.kind = "sweep" THEN "xread" ELSE "commit"
           w == [y EXCEPT !.pc = BatchOrEnd(y.batches)]
<1>2. S \in SUBSET Actions /\ y.pc = "plan" /\ pc \in {"commit", "xread"}
  BY <1>1 DEF SessionState, PlanRead, At
<1>3. y.kind \in {"plan", "sweep"}
  BY <1>1, <1>2 DEF Tracks, Placed, Busy, IInv, SessionInv, Approving, SessionState
<1>4. \/ y.kind # "sweep" /\ ses' = [ses EXCEPT ![s] = Idle]
      \/ y.kind = "sweep" /\ ses' = [ses EXCEPT ![s] = w]
      \/ ses' = [ses EXCEPT ![s] = Stamping(s, y, S, FALSE, pc)]
  BY <1>1 DEF PlanRead, Go
<1>5. /\ w.kind = y.kind /\ w.pc \in {"commit", "batch"} /\ w.ent = y.ent
      /\ w.next = y.next
  BY DEF SessionState, BatchOrEnd
<1> HIDE DEF S, pc, w
<1> DEFINE x == Stamping(s, y, S, FALSE, pc)
<1>6. Tracks(x)
  BY <1>1, <1>2, <1>3, StampingTracks
<1> HIDE DEF x
<1>7. CASE y.kind # "sweep" /\ ses' = [ses EXCEPT ![s] = Idle]
  BY <1>1, <1>2, <1>3, <1>7, EndTracks DEF PlanRead, Outside
<1>8. CASE y.kind = "sweep" /\ ses' = [ses EXCEPT ![s] = w]
  <2>1. Placed(w) /\ ~ Outside(w) /\ ~ Busy(w) /\ ~ Handling(w)
    BY <1>5, <1>8 DEF Placed, Outside, Busy, Handling
  <2>2. Carried(w) /\ (Approves(w) <=> Approves(y))
    BY <1>1, <1>5 DEF Tracks, Carried, Approves
  <2>3. Tracks(w)
    BY <1>1, <2>1, <2>2, LooseTracks
  <2> QED BY <1>8, <2>3, QuietTracks DEF PlanRead
<1>9. CASE ses' = [ses EXCEPT ![s] = x]
  BY <1>6, <1>9, QuietTracks DEF PlanRead
<1> QED BY <1>4, <1>7, <1>8, <1>9 DEF x

\* A bulk approval turns proposals under review approved.
LEMMA BulkSignTracks ==
    ASSUME IInv, NEW s, Sessions = {s}, CInv(s), BulkSign(s) PROVE CInv(s)'
<1>1. PICK y \in SessionState : y = ses[s] /\ Tracks(y)
  BY DEF IInv, TypeOK, CInv
<1>2. PICK S, run :
        /\ \A a \in S : draft[a].status \in Decidable("approve")
        /\ draft' = [a \in Actions |-> IF a \in S THEN [draft[a] EXCEPT !.status = "approved"]
                                                 ELSE draft[a]]
        /\ ses' = [ses EXCEPT ![s] = [y EXCEPT !.signed = S, !.run = run, !.pc = "commit"]]
  <2> DEFINE S(ready) == {a \in y.run : /\ ready
                                        /\ y.ent[a].status # "executed"
                                        /\ draft[a].status \in Decidable("approve")
                                        /\ draft[a].exp = "live"}
             run(ready) == {a \in y.run : a \in S(ready) \/ draft[a].status = "approved"}
  <2>1. PICK ready \in BOOLEAN :
          /\ draft' = [a \in Actions |->
                         IF a \in S(ready) THEN [draft[a] EXCEPT !.status = "approved"]
                                           ELSE draft[a]]
          /\ ses' = [ses EXCEPT ![s] = [y EXCEPT !.signed = S(ready), !.run = run(ready),
                                                 !.pc = "commit"]]
    BY <1>1 DEF BulkSign, Go
  <2>2. \A a \in S(ready) : draft[a].status \in Decidable("approve")
    OBVIOUS
  <2> HIDE DEF S, run
  <2> QED BY <2>1, <2>2
<1> DEFINE x == [y EXCEPT !.signed = S, !.run = run, !.pc = "commit"]
<1>3. y.pc = "sign" /\ y.kind = "bulk"
  BY <1>1 DEF BulkSign, At, IInv, SessionInv, BulkSigning
<1>4. x.pc = "commit" /\ x.kind = "bulk" /\ x.ent = y.ent
  BY <1>3 DEF SessionState
<1> HIDE DEF x
<1>5. ses'[s] = x
  BY <1>2 DEF x, IInv, TypeOK
<1>6. UNCHANGED <<row, ver, unread, writes>>
  BY DEF BulkSign, world
<1>7. ASSUME NEW a \in Actions
      PROVE  /\ Leads(row[a].status, draft'[a].status)
             /\ Known(a, draft'[a]) /\ (Older(draft[a]) => Older(draft'[a]))
             /\ draft'[a].status = "executed" <=> draft[a].status = "executed"
  <2>1. draft[a] \in Row /\ draft[a].status # "executing"
    BY <1>1, <1>3, NoClaim DEF IInv, TypeOK
  <2>2. Leads(row[a].status, draft[a].status) /\ Known(a, draft[a])
    BY <2>1 DEF CInv, Rows
  <2>3. CASE a \notin S
    BY <1>2, <2>2, <2>3
  <2>4. CASE a \in S
    <3>1. draft[a].status \in {"pending", "approved"}
      BY <1>2, <2>1, <2>4 DEF Decidable, Reviewable
    <3>2. draft'[a].status = "approved" /\ draft'[a].meta = draft[a].meta
      BY <1>2, <2>1, <2>4, StatusEdit DEF Status, Reviewable
    <3>3. Leads(row[a].status, "approved")
      BY <2>2, <3>1, LeadsMeans
    <3> QED BY <2>2, <3>1, <3>2, <3>3 DEF Known, Older
  <2> QED BY <2>3, <2>4
<1>8. Lost(draft)' <=> Lost(draft)
  BY <1>6, <1>7 DEF Lost, Guarded, Unchecked
<1>9. Rows'
  <2>1. Lost(draft)' => \A a \in Actions : Older(draft[a])'
    BY <1>6, <1>7, <1>8 DEF CInv, Rows, Older
  <2>2. \A a \in Actions : Known(a, row[a])' /\ Known(a, draft[a])'
    BY <1>6, <1>7 DEF CInv, Rows, Known
  <2>3. Lost(row)' => \A a \in Actions : Older(row[a])'
    BY <1>6 DEF CInv, Rows, Lost, Guarded, Unchecked, Older
  <2>4. \A a \in Actions : writes'[a] > 0 => ver' > 1
    BY <1>6 DEF CInv, Rows
  <2>5. \A a \in Actions : Leads(row'[a].status, draft'[a].status)
    BY <1>6, <1>7
  <2> QED BY <2>1, <2>2, <2>3, <2>4, <2>5 DEF Rows, Leads
<1>10. Carried(ses[s])'
  BY <1>1, <1>4, <1>5, <1>6, <1>8 DEF Tracks, Carried, Known, Older
<1> QED BY <1>4, <1>5, <1>9, <1>10
        DEF CInv, Tracks, Placed, Outside, Busy, Approves, Saves, Handling, Passed, Wrote

\* With one session the drafts are what a commit publishes.
LEMMA PublishesDrafts ==
    ASSUME IInv, NEW s, Sessions = {s}, Commit(s)
    PROVE  /\ \A a \in Actions : row'[a] = draft[a] /\ lock'[a] = NoSession
           /\ UNCHANGED <<draft, ver, unread, writes>>
           /\ ses[s].pc = "commit"
<1>1. \A a \in Actions : lock[a] \in {s, NoSession} /\ (lock[a] = NoSession => draft[a] = row[a])
  BY DEF IInv, TypeOK, RowInv
<1>2. \A a \in Actions : /\ row'[a] = (IF lock[a] = s THEN draft[a] ELSE row[a])
                         /\ lock'[a] = (IF lock[a] = s THEN NoSession ELSE lock[a])
  BY DEF Commit, Committed, Released, IInv, TypeOK
<1> QED BY <1>1, <1>2 DEF Commit, world, At

\* A commit publishes the drafts and frees every row.
LEMMA CommitTracks ==
    ASSUME IInv, NEW s, Sessions = {s}, CInv(s), Commit(s) PROVE CInv(s)'
<1>1. PICK y \in SessionState : y = ses[s]
  BY DEF IInv, TypeOK
<1> DEFINE resumed == [Idle EXCEPT !.kind = "plan", !.run = y.run]
           w(pc) == [resumed EXCEPT !.pc = pc]
<1>2. PICK x : /\ x \in {Idle, w("plan"), w("xread")}
               /\ ses' = [ses EXCEPT ![s] = x]
  BY <1>1 DEF Commit, Go
<1>3. /\ x.ent = Idle.ent
      /\ \/ x.kind = "none" /\ x.pc = "idle"
         \/ x.kind = "plan" /\ x.pc \in {"plan", "xread"}
  <2>1. \A pc : w(pc).ent = Idle.ent /\ w(pc).kind = "plan" /\ w(pc).pc = pc
    BY IdleTyped DEF SessionState
  <2>2. Idle.kind = "none" /\ Idle.pc = "idle"
    BY DEF Idle
  <2> HIDE DEF w
  <2> QED BY <1>2, <2>1, <2>2
<1> HIDE DEF w
<1>4. ses'[s] = x
  BY <1>2 DEF IInv, TypeOK
<1>5. /\ \A a \in Actions : row'[a] = draft[a] /\ lock'[a] = NoSession
      /\ UNCHANGED <<draft, ver, unread, writes>>
  BY PublishesDrafts
<1>6. \A a \in Actions : draft[a].status # "executing"
  BY PublishesDrafts, NoClaim
<1>7. (Lost(row)' <=> Lost(draft)) /\ (Lost(draft)' <=> Lost(draft))
  BY <1>5 DEF Lost, Guarded, Unchecked
<1>8. Rows'
  BY <1>5, <1>7 DEF CInv, Rows, Known, Older, Leads
<1>9. Carried(ses[s])'
  <2>1. \A a \in Actions : ses'[s].ent[a] = Prepared
    BY <1>3, <1>4 DEF Idle
  <2>2. (\A a : Known(a, Prepared)) /\ (Lost(draft) => Older(Prepared))
    BY FreshCarried DEF CInv
  <2> QED BY <1>5, <1>7, <2>1, <2>2 DEF Carried, Known, Older
<1> QED BY <1>3, <1>4, <1>5, <1>6, <1>8, <1>9
        DEF CInv, Tracks, Placed, Outside, Busy, Saves, Handling, Passed, Wrote

\* What dies leaves nothing.
LEMMA CrashTracks ==
    ASSUME IInv, NEW s, Sessions = {s}, CInv(s), Crash(s) \/ DeadlockVictim(s) PROVE CInv(s)'
<1>1. Rollback(s, Idle)
  BY DEF Crash, DeadlockVictim
<1>2. Idle.pc = "idle" /\ Idle.kind = "none"
  BY DEF Idle
<1>3. Placed(Idle) /\ ~ Busy(Idle) /\ ~ Handling(Idle)
  BY <1>2 DEF Placed, Busy, Handling
<1> QED BY <1>1, <1>3, RollbackTracks

--------------------------------------------------------------------------------
(* Executions, for a single session *)

\* Only plans and sweeps execute.
LEMMA WhoExecutes ==
    ASSUME IInv, NEW s \in Sessions, CInv(s), NEW y \in SessionState, y = ses[s],
           y.pc \in Executing \cup {"xread"} \/ Handling(y)
    PROVE  y.kind \in {"plan", "sweep"} /\ ~ Approves(y)
<1>1. y.kind \notin {"approve", "bulk"}
  BY DEF IInv, SessionInv, Approving, Executing, Handling
<1>2. y.kind \notin {"none", "reject", "dismiss"}
  BY DEF CInv, Tracks, Placed, Busy, Executing, Handling
<1> QED BY <1>1, <1>2 DEF SessionState, Approves

\* A session that is done with an action has nothing left to keep.
LEMMA LeavingTracks ==
    ASSUME IInv, Rows, NEW y \in SessionState, y.kind \in {"plan", "sweep"}, NEW a
    PROVE  LET x == Leaving(y, a) IN
           /\ x.kind = y.kind /\ x.ent = Idle.ent /\ (Approves(x) <=> Approves(y))
           /\ Placed(x) /\ ~ Outside(x) /\ ~ Busy(x) /\ ~ Handling(x) /\ x.pc # "record"
           /\ Carried(x)
<1> DEFINE pc == IF y.kind = "plan" THEN "commit"
                 ELSE IF y.run \ {a} = {} THEN BatchOrEnd(y.batches) ELSE "xread"
           x == [y EXCEPT !.run = y.run \ {a}, !.ent = Idle.ent, !.pc = pc]
<1>1. pc \in {"commit", "xread", "batch"} /\ (y.kind = "plan" => pc = "commit")
  BY DEF BatchOrEnd
<1>2. Leaving(y, a) = x
  BY DEF Leaving
<1> HIDE DEF pc
<1>3. x.kind = y.kind /\ x.ent = Idle.ent /\ x.pc = pc
  BY DEF SessionState
<1> HIDE DEF x
<1>4. Placed(x) /\ ~ Outside(x) /\ ~ Busy(x) /\ ~ Handling(x) /\ x.pc # "record"
  BY <1>1, <1>3 DEF Placed, Outside, Busy, Handling
<1>5. Carried(x)
  BY <1>3, FreshCarried
<1> QED BY <1>2, <1>3, <1>4, <1>5 DEF Approves

\* It leaves the rows as they are ...
LEMMA LeaveQuietly ==
    ASSUME IInv, NEW s, Sessions = {s}, CInv(s), NEW y \in SessionState, y = ses[s],
           y.kind \in {"plan", "sweep"}, NEW a,
           ses' = [ses EXCEPT ![s] = Leaving(y, a)], UNCHANGED <<db, world>>
    PROVE  CInv(s)'
<1> DEFINE x == Leaving(y, a)
<1>1. /\ Approves(x) <=> Approves(y)
      /\ Placed(x) /\ ~ Outside(x) /\ ~ Busy(x) /\ ~ Handling(x) /\ Carried(x)
  BY LeavingTracks DEF CInv
<1> HIDE DEF x
<1>2. Tracks(x)
  BY <1>1, LooseTracks DEF CInv
<1> QED BY <1>2, QuietTracks DEF x

\* ... or settles the claimed action, which is approved, with what it knows.
LEMMA SettleTracks ==
    ASSUME IInv, NEW s, Sessions = {s}, CInv(s), ses[s].pc \in {"gate", "write"},
           NEW a \in First(ses[s].run), NEW r, r.status \in {"approved", "expired"},
           r.meta.base = draft[a].meta.base, r.meta.post = draft[a].meta.post,
           Settle(s, a, r, Done(s, a))
    PROVE  CInv(s)'
<1>1. PICK y \in SessionState : y = ses[s] /\ Tracks(y)
  BY DEF IInv, TypeOK, CInv
<1>2. Handling(y) /\ a \in Actions /\ y.kind \in {"plan", "sweep"} /\ ~ Approves(y)
  BY <1>1, FirstIsOne, WhoExecutes DEF Handling, SessionState
<1> DEFINE x == Leaving(y, a)
<1>3. /\ Approves(x) <=> Approves(y)
      /\ Placed(x) /\ ~ Outside(x) /\ ~ Busy(x) /\ ~ Handling(x) /\ Carried(x) /\ x.pc # "record"
  BY <1>2, LeavingTracks DEF CInv
<1>4. Put(s, a, r) /\ ses' = [ses EXCEPT ![s] = x] /\ UNCHANGED world
  BY <1>1 DEF Settle, Go, Done, Leaving
<1> HIDE DEF x
<1>5. row[a].status = "approved" /\ draft[a].status = "executing"
  BY <1>1, <1>2 DEF Tracks
<1>6. Leads(row[a].status, r.status)
  BY <1>5, LeadsMeans
<1>7. Known(a, r) /\ (Lost(draft) => Older(r))
  BY <1>2 DEF Known, Older, CInv, Rows
<1>8. Saves(x) /\ ~ Passed(x) /\ ~ Wrote(x) /\ x.pc \notin {"gate", "write"}
  BY <1>3 DEF Saves, Passed, Wrote, Handling
<1>9. writes[a] > 0 /\ draft[a].status = "executed" => r.status = "executed"
  BY <1>5
<1> QED BY <1>1, <1>2, <1>3, <1>4, <1>5, <1>6, <1>7, <1>8, <1>9, PutTracks

\* A failed attempt leaves the action approved; a stale or lapsed one expires.
LEMMA StopTracks ==
    ASSUME IInv, NEW s, Sessions = {s}, CInv(s),
           AttemptFails(s) \/ GateFindsLapsed(s) \/ TicketStale(s)
    PROVE  CInv(s)'
<1>1. ses[s].pc \in {"gate", "write"}
  BY DEF AttemptFails, GateFindsLapsed, TicketStale, GateOpens, At
<1>2. PICK a \in First(ses[s].run) :
        \/ Settle(s, a, Failed(draft[a]), Done(s, a))
        \/ Settle(s, a, [draft[a] EXCEPT !.status = "expired"], Done(s, a))
  BY DEF AttemptFails, GateFindsLapsed, TicketStale
<1>3. a \in Actions
  BY <1>2, FirstIsOne, TheSession DEF SessionState
<1>4. PICK d \in Row : d = draft[a]
  BY <1>3, TheDraft
<1> DEFINE f == Failed(d)
           e == [d EXCEPT !.status = "expired"]
<1>5. /\ f.status = "approved" /\ e.status = "expired"
      /\ f.meta.base = d.meta.base /\ f.meta.post = d.meta.post /\ e.meta = d.meta
  BY FailedEdit DEF Row
<1>6. Settle(s, a, f, Done(s, a)) \/ Settle(s, a, e, Done(s, a))
  BY <1>2, <1>4
<1> HIDE DEF f, e
<1>7. CASE Settle(s, a, f, Done(s, a))
  BY <1>1, <1>4, <1>5, <1>7, SettleTracks
<1>8. CASE Settle(s, a, e, Done(s, a))
  BY <1>1, <1>4, <1>5, <1>8, SettleTracks
<1> QED BY <1>6, <1>7, <1>8

\* The read before a claim takes the row as it is.
LEMMA ReadApprovedTracks ==
    ASSUME IInv, NEW s, Sessions = {s}, CInv(s), ReadApproved(s) PROVE CInv(s)'
<1>1. PICK y \in SessionState : y = ses[s] /\ Tracks(y)
  BY DEF IInv, TypeOK, CInv
<1>2. PICK a \in First(y.run) :
        \/ ses' = [ses EXCEPT ![s] = [y EXCEPT !.ent = [y.ent EXCEPT ![a] = See(s, a)],
                                               !.pc = "claim"]]
        \/ ses' = [ses EXCEPT ![s] = Leaving(y, a)]
  BY <1>1 DEF ReadApproved, Go, Done, Leaving
<1>3. a \in Actions /\ y.pc = "xread" /\ y.kind \in {"plan", "sweep"}
  BY <1>1, <1>2, FirstIsOne, WhoExecutes DEF SessionState, ReadApproved, At
<1> DEFINE ent == [y.ent EXCEPT ![a] = See(s, a)]
           x == [y EXCEPT !.ent = ent, !.pc = "claim"]
<1>4. CASE ses' = [ses EXCEPT ![s] = x]
  <2>1. See(s, a) = draft[a] /\ Known(a, draft[a]) /\ (Lost(draft) => Older(draft[a]))
    BY <1>3, SeesDraft DEF CInv, Rows
  <2>2. ent[a] = draft[a] /\ \A b \in Actions \ {a} : ent[b] = y.ent[b]
    BY <1>3, <2>1 DEF SessionState
  <2> HIDE DEF ent
  <2>3. x.pc = "claim" /\ x.kind = y.kind /\ x.ent = ent
    BY DEF SessionState
  <2> HIDE DEF x
  <2>4. Carried(x)
    BY <1>1, <2>1, <2>2, <2>3 DEF Tracks, Carried
  <2>5. Placed(x) /\ ~ Outside(x) /\ ~ Busy(x) /\ ~ Handling(x) /\ (Approves(x) <=> Approves(y))
    BY <1>3, <2>3 DEF Placed, Outside, Busy, Handling, Approves
  <2>6. Tracks(x)
    BY <1>1, <2>4, <2>5, LooseTracks
  <2> QED BY <1>4, <2>6, QuietTracks DEF ReadApproved
<1>5. CASE ses' = [ses EXCEPT ![s] = Leaving(y, a)]
  BY <1>1, <1>3, <1>5, LeaveQuietly DEF ReadApproved
<1> QED BY <1>2, <1>4, <1>5

\* An action that is taken or finished is left as it is.
LEMMA LeaveTracks ==
    ASSUME IInv, NEW s, Sessions = {s}, CInv(s), ClaimLost(s) \/ Finish(s) PROVE CInv(s)'
<1>1. PICK y \in SessionState : y = ses[s]
  BY DEF IInv, TypeOK
<1>2. PICK a \in First(y.run) : ses' = [ses EXCEPT ![s] = Leaving(y, a)]
  BY <1>1 DEF ClaimLost, Finish, Done, Leaving, Go
<1>3. y.kind \in {"plan", "sweep"}
  BY <1>1, WhoExecutes DEF ClaimLost, Finish, At, Executing
<1> QED BY <1>1, <1>2, <1>3, LeaveQuietly DEF ClaimLost, Finish

\* A claim is won of an approved action, with the metadata read before.
LEMMA ClaimWonTracks ==
    ASSUME IInv, NEW s, Sessions = {s}, CInv(s), ClaimWon(s) PROVE CInv(s)'
<1>1. PICK y \in SessionState : y = ses[s] /\ Tracks(y)
  BY DEF IInv, TypeOK, CInv
<1>2. PICK a \in First(y.run) :
        /\ See(s, a).status = "approved"
        /\ Put(s, a, [See(s, a) EXCEPT !.status = "executing", !.meta = y.ent[a].meta])
        /\ ses' = [ses EXCEPT ![s] = [y EXCEPT !.pc = "gate"]]
  BY <1>1 DEF ClaimWon, Go
<1>3. a \in Actions /\ y.pc = "claim" /\ \A b \in First(y.run) : b = a
  BY <1>1, <1>2, FirstIsOne DEF SessionState, ClaimWon, At
<1>4. y.kind \in {"plan", "sweep"} /\ ~ Approves(y)
  BY <1>1, <1>3, WhoExecutes DEF Executing
<1>5. See(s, a) = draft[a] /\ draft[a] \in Row /\ draft[a].status = "approved"
  BY <1>2, <1>3, SeesDraft
<1>6. row[a].status = "approved"
  BY <1>1, <1>3, <1>4, <1>5 DEF Tracks
<1> DEFINE r == [See(s, a) EXCEPT !.status = "executing", !.meta = y.ent[a].meta]
           x == [y EXCEPT !.pc = "gate"]
<1>7. r.status = "executing" /\ r.meta = y.ent[a].meta
  BY <1>5 DEF Row
<1>8. Known(a, r) /\ (Lost(draft) => Older(r))
  BY <1>1, <1>3, <1>7 DEF Tracks, Carried, Known, Older
<1>9. x.pc = "gate" /\ x.kind = y.kind /\ x.run = y.run /\ x.ent = y.ent
  BY DEF SessionState
<1>10. Put(s, a, r) /\ ses' = [ses EXCEPT ![s] = x] /\ UNCHANGED world
  BY <1>2 DEF ClaimWon
<1> HIDE DEF r, x
<1>11. /\ Placed(x) /\ ~ Outside(x) /\ ~ Busy(x) /\ ~ Passed(x) /\ ~ Wrote(x) /\ ~ Approves(x)
       /\ Saves(x) /\ x.pc # "record"
  BY <1>4, <1>9 DEF Placed, Outside, Busy, Passed, Wrote, Approves, Saves
<1>12. Carried(x)
  BY <1>1, <1>9 DEF Tracks, Carried
<1>13. \A b \in First(x.run) : b = a /\ row[b].status = "approved" /\ r.status = "executing"
  BY <1>3, <1>6, <1>7, <1>9
<1> QED BY <1>1, <1>3, <1>4, <1>5, <1>6, <1>7, <1>8, <1>10, <1>11, <1>12, <1>13, PutTracks

\* The freshness check passes for an action that is checked only while no write is lost.
LEMMA GatePassesTracks ==
    ASSUME IInv, NEW s, Sessions = {s}, ZonedClock = FALSE, CInv(s),
           GatePasses(s)
    PROVE  CInv(s)'
<1>1. PICK y \in SessionState : y = ses[s] /\ Tracks(y)
  BY DEF IInv, TypeOK, CInv
<1>2. PICK a \in First(y.run), soon \in BOOLEAN :
        /\ FreshEnough(s, a, soon)
        /\ ses' = [ses EXCEPT ![s] = [y EXCEPT !.pc = "write"]]
  BY <1>1 DEF GatePasses, Go
<1>3. a \in Actions /\ y.pc = "gate"
  BY <1>1, <1>2, FirstIsOne DEF SessionState, GatePasses, GateOpens, At
<1>4. \/ draft[a].meta.base = ver \/ \E b \in Actions : draft[b].meta.post = ver
      \/ a \in Unchecked
  <2>1. \/ draft[a].meta.base = ver \/ \E b \in Actions : See(s, b).meta.post = ver
        \/ draft[a].meta.base = 0 \/ a \in ApplyAnyway
    BY <1>2 DEF FreshEnough, OnlyKanapWrites
  <2>2. draft[a].meta.base = 0 => a \in unread
    BY <1>3 DEF CInv, Rows, Known
  <2> QED BY <2>1, <2>2, SeesDraft DEF Unchecked
<1>5. Lost(draft) => First(y.run) \subseteq Unchecked
  <2>1. ver \in Nat
    BY DEF IInv, TypeOK
  <2>2. Lost(draft) => a \in Unchecked
    BY <1>3, <1>4, <2>1 DEF CInv, Rows, Older
  <2>3. \A b \in First(y.run) : b = a
    BY <1>2, FirstIsOne DEF SessionState
  <2> QED BY <2>2, <2>3
<1> DEFINE x == [y EXCEPT !.pc = "write"]
<1>6. x.pc = "write" /\ x.kind = y.kind /\ x.run = y.run /\ x.ent = y.ent
  BY DEF SessionState
<1> HIDE DEF x
<1>7. Tracks(x)
  BY <1>1, <1>3, <1>5, <1>6
     DEF Tracks, Placed, Outside, Busy, Approves, Saves, Handling, Passed, Wrote, Carried
<1> QED BY <1>2, <1>7, QuietTracks DEF GatePasses, x

\* A baseline that cannot be read is none.
LEMMA BaselineUnreadTracks ==
    ASSUME IInv, NEW s, Sessions = {s}, CInv(s), BaselineUnread(s) PROVE CInv(s)'
<1>1. PICK y \in SessionState : y = ses[s] /\ Tracks(y)
  BY DEF IInv, TypeOK, CInv
<1>2. y.pc = "record" /\ ses' = [ses EXCEPT ![s] = [y EXCEPT !.pc = "done"]]
  BY <1>1 DEF BaselineUnread, At, Go
<1> DEFINE x == [y EXCEPT !.pc = "done"]
<1>3. x.pc = "done" /\ x.kind = y.kind /\ x.run = y.run /\ x.ent = y.ent
  BY DEF SessionState
<1> HIDE DEF x
<1>4. Tracks(x)
  BY <1>1, <1>2, <1>3
     DEF Tracks, Placed, Outside, Busy, Approves, Saves, Handling, Passed, Wrote, Carried
<1> QED BY <1>2, <1>4, QuietTracks DEF BaselineUnread, x

\* The run goes on after a lost execution from the committed rows.
LEMMA AbortOneTracks ==
    ASSUME IInv, NEW s, Sessions = {s}, CInv(s), AbortOne(s) PROVE CInv(s)'
<1>1. PICK y \in SessionState : y = ses[s]
  BY DEF IInv, TypeOK
<1> DEFINE x(a) == [Leaving(y, a) EXCEPT !.pc = "xread"]
<1>2. PICK a \in First(y.run) : Rollback(s, Idle) \/ Rollback(s, x(a))
  BY <1>1 DEF AbortOne, Done, Leaving
<1>3. y.kind = "plan" /\ a \in Actions
  BY <1>1, <1>2, FirstIsOne DEF AbortOne, SessionState
<1>4. x(a).pc = "xread" /\ x(a).kind = "plan" /\ x(a).ent = Idle.ent
  <2>1. PICK l \in SessionState : l = Leaving(y, a)
    BY <1>3, IdleTyped DEF Leaving, SessionState, BatchOrEnd
  <2>2. l.kind = "plan" /\ l.ent = Idle.ent
    BY <1>3, <2>1, LeavingTracks DEF CInv
  <2> QED BY <2>1, <2>2 DEF SessionState
<1> HIDE DEF x
<1>5. Placed(x(a)) /\ ~ Busy(x(a)) /\ ~ Handling(x(a))
  BY <1>4 DEF Placed, Busy, Handling
<1>6. Placed(Idle) /\ ~ Busy(Idle) /\ ~ Handling(Idle)
  <2>1. Idle.pc = "idle" /\ Idle.kind = "none"
    BY DEF Idle
  <2> QED BY <2>1 DEF Placed, Busy, Handling
<1> QED BY <1>2, <1>4, <1>5, <1>6, RollbackTracks

--------------------------------------------------------------------------------
(* The provider's writes, for a single session *)

\* A write leaves behind whatever was known before it.
LEMMA AppliedRows ==
    ASSUME IInv, NEW s, CInv(s), NEW a \in Actions, NEW r, Apply(a), Put(s, a, r),
           r.meta.base = draft[a].meta.base, r.meta.post = draft[a].meta.post,
           Leads(row[a].status, r.status)
    PROVE  /\ Rows'
           /\ UNCHANGED row /\ draft'[a] = r /\ \A b \in Actions \ {a} : draft'[b] = draft[b]
           /\ ver' = ver + 1 /\ unread' = unread
           /\ \A b \in Actions : Older(row[b])' /\ Older(draft[b])'
           /\ writes'[a] > 0 /\ \A b \in Actions \ {a} : writes'[b] = writes[b]
<1>1. /\ UNCHANGED row /\ draft'[a] = r /\ \A b \in Actions \ {a} : draft'[b] = draft[b]
  BY DEF Put, IInv, TypeOK
<1>2. ver \in Nat /\ ver >= 1 /\ ver' = ver + 1 /\ ver' > 1 /\ unread' = unread
  BY SizeAssumption DEF IInv, TypeOK, Apply
<1>3. writes'[a] > 0 /\ \A b \in Actions \ {a} : writes'[b] = writes[b]
  BY DEF IInv, TypeOK, Apply
<1>4. ASSUME NEW b \in Actions
      PROVE  /\ row'[b].meta.base < ver' /\ row'[b].meta.post < ver'
             /\ draft'[b].meta.base < ver' /\ draft'[b].meta.post < ver'
             /\ row'[b].meta.base <= ver' /\ row'[b].meta.post <= ver'
             /\ draft'[b].meta.base <= ver' /\ draft'[b].meta.post <= ver'
             /\ row'[b].meta.base = 0 \/ draft'[b].meta.base = 0 => b \in unread
  <2>1. /\ row[b].meta.base \in Nat /\ row[b].meta.post \in Nat
        /\ draft[b].meta.base \in Nat /\ draft[b].meta.post \in Nat
    BY MetaTyped DEF IInv, TypeOK
  <2>2. /\ row[b].meta.base <= ver /\ row[b].meta.post <= ver
        /\ draft[b].meta.base <= ver /\ draft[b].meta.post <= ver
        /\ row[b].meta.base = 0 \/ draft[b].meta.base = 0 => b \in unread
    BY DEF CInv, Rows, Known
  <2>3. draft'[b].meta.base = draft[b].meta.base /\ draft'[b].meta.post = draft[b].meta.post
    BY <1>1
  <2> QED BY <1>1, <1>2, <2>1, <2>2, <2>3
<1>5. \A b \in Actions : /\ Known(b, row[b])' /\ Known(b, draft[b])'
                         /\ Older(row[b])' /\ Older(draft[b])'
  BY <1>2, <1>4 DEF Known, Older
<1>6. \A b \in Actions :
        \/ Leads(row'[b].status, draft'[b].status)
        \/ draft'[b].status = "executing" /\ row'[b].status = "approved"
  BY <1>1 DEF CInv, Rows
<1>7. Rows'
  BY <1>2, <1>5, <1>6 DEF Rows, Leads
<1> QED BY <1>1, <1>2, <1>3, <1>5, <1>7

\* The write is answered: its action is executed, and nothing is lost.
LEMMA WriteAnsweredTracks ==
    ASSUME IInv, NEW s, Sessions = {s}, CInv(s), WriteAnswered(s) PROVE CInv(s)'
<1>1. PICK y \in SessionState : y = ses[s] /\ Tracks(y)
  BY DEF IInv, TypeOK, CInv
<1>2. PICK a \in First(y.run) :
        /\ Apply(a)
        /\ Put(s, a, [draft[a] EXCEPT !.status = "executed", !.at = ver + 1])
        /\ ses' = [ses EXCEPT ![s] = [y EXCEPT !.pc = "record"]]
  BY <1>1 DEF WriteAnswered, Go
<1>3. a \in Actions /\ y.pc = "write" /\ (\A b \in First(y.run) : b = a) /\ Handling(y)
  BY <1>1, <1>2, FirstIsOne DEF SessionState, WriteAnswered, At, Handling
<1>4. PICK d \in Row : d = draft[a]
  BY <1>3, TheDraft
<1> DEFINE r == [draft[a] EXCEPT !.status = "executed", !.at = ver + 1]
           x == [y EXCEPT !.pc = "record"]
<1>5. r.status = "executed" /\ r.meta = draft[a].meta
  BY <1>4 DEF Row
<1>6. row[a].status = "approved"
  BY <1>1, <1>2, <1>3 DEF Tracks
<1>7. Leads(row[a].status, r.status)
  BY <1>5, <1>6, LeadsMeans
<1>8. Put(s, a, r) /\ Apply(a) /\ ses' = [ses EXCEPT ![s] = x]
  BY <1>2
<1>9. x.pc = "record" /\ x.kind = y.kind /\ x.run = y.run /\ x.ent = y.ent
  BY DEF SessionState
<1> HIDE DEF r, x
<1>10. /\ Rows'
       /\ UNCHANGED row /\ draft'[a] = r /\ \A b \in Actions \ {a} : draft'[b] = draft[b]
       /\ ver' = ver + 1 /\ unread' = unread
       /\ \A b \in Actions : Older(draft[b])'
       /\ writes'[a] > 0 /\ \A b \in Actions \ {a} : writes'[b] = writes[b]
  BY <1>3, <1>5, <1>7, <1>8, AppliedRows
<1>11. ses'[s] = x
  BY <1>8 DEF IInv, TypeOK
<1>12. ~ Lost(draft)'
  <2>1. CASE a \in Unchecked
    BY <1>10, <2>1 DEF Lost, Guarded, Unchecked
  <2>2. CASE a \notin Unchecked
    <3>1. ~ Lost(draft)
      BY <1>1, <1>2, <1>3, <2>2 DEF Tracks, Passed
    <3>2. Guarded' => Guarded
      BY <1>10, <2>2, UncheckedActions DEF Guarded, Unchecked
    <3> QED BY <1>3, <1>5, <1>10, <3>1, <3>2 DEF Lost
  <2> QED BY <2>1, <2>2
<1>13. \A b \in Actions : Known(b, y.ent[b])' /\ Older(y.ent[b])'
  <2>1. ASSUME NEW b \in Actions
        PROVE  /\ y.ent[b].meta.base < ver' /\ y.ent[b].meta.post < ver'
               /\ y.ent[b].meta.base <= ver' /\ y.ent[b].meta.post <= ver'
               /\ y.ent[b].meta.base = 0 => b \in unread
    <3>1. y.ent[b].meta.base \in Nat /\ y.ent[b].meta.post \in Nat /\ ver \in Nat
      BY MetaTyped DEF SessionState, IInv, TypeOK
    <3>2. /\ y.ent[b].meta.base <= ver /\ y.ent[b].meta.post <= ver
          /\ y.ent[b].meta.base = 0 => b \in unread
      BY <1>1 DEF Tracks, Carried, Known
    <3> QED BY <1>10, <3>1, <3>2
  <2> QED BY <1>10, <2>1 DEF Known, Older
<1>14. Carried(ses[s])'
  BY <1>9, <1>11, <1>13 DEF Carried, Known, Older
<1>15. \A b \in First(ses'[s].run) : row'[b].status = "approved" /\ writes'[b] > 0
                                     /\ Older(ses[s].ent[b])'
  BY <1>3, <1>6, <1>9, <1>10, <1>11, <1>13 DEF Older
<1>16. ~ Approves(ses[s])' => \A b \in Actions :
         draft'[b].status \in {"approved", "executing"} => row'[b].status = "approved"
  BY <1>1, <1>5, <1>9, <1>10, <1>11 DEF Tracks, Approves
<1>17. Placed(ses[s])'
  BY <1>1, <1>3, <1>9, <1>11 DEF Tracks, Placed, Busy
<1> QED BY <1>9, <1>10, <1>11, <1>12, <1>14, <1>15, <1>16, <1>17
        DEF CInv, Tracks, Outside, Busy, Saves, Handling, Passed, Wrote

\* Its answer is lost: the ticket is newer than every baseline from then on.
LEMMA WriteUnansweredTracks ==
    ASSUME IInv, NEW s, Sessions = {s}, CInv(s), WriteUnanswered(s) PROVE CInv(s)'
<1>1. PICK y \in SessionState : y = ses[s] /\ Tracks(y)
  BY DEF IInv, TypeOK, CInv
<1>2. PICK a \in First(y.run) :
        Apply(a) /\ Put(s, a, Failed(draft[a])) /\ ses' = [ses EXCEPT ![s] = Leaving(y, a)]
  BY <1>1 DEF WriteUnanswered, Go, Done, Leaving
<1>3. a \in Actions /\ y.pc = "write" /\ Handling(y)
  BY <1>1, <1>2, FirstIsOne DEF SessionState, WriteUnanswered, At, Handling
<1>4. y.kind \in {"plan", "sweep"}
  BY <1>1, <1>3, WhoExecutes
<1> DEFINE r == Failed(draft[a])
           x == Leaving(y, a)
<1>5. r.status = "approved" /\ r.meta.base = draft[a].meta.base /\ r.meta.post = draft[a].meta.post
  BY <1>3, TheDraft, FailedEdit
<1>6. row[a].status = "approved"
  BY <1>1, <1>3 DEF Tracks
<1>7. Leads(row[a].status, r.status)
  BY <1>5, <1>6, LeadsMeans
<1>8. /\ x.kind = y.kind /\ x.ent = Idle.ent
      /\ Placed(x) /\ ~ Outside(x) /\ ~ Busy(x) /\ ~ Handling(x) /\ x.pc # "record"
  BY <1>4, LeavingTracks DEF CInv
<1>9. Put(s, a, r) /\ Apply(a) /\ ses' = [ses EXCEPT ![s] = x]
  BY <1>2
<1> HIDE DEF r, x
<1>10. /\ Rows'
       /\ UNCHANGED row /\ draft'[a] = r /\ \A b \in Actions \ {a} : draft'[b] = draft[b]
       /\ ver' = ver + 1
  BY <1>3, <1>5, <1>7, <1>9, AppliedRows
<1>11. ses'[s] = x
  BY <1>9 DEF IInv, TypeOK
<1>12. Carried(ses[s])'
  <2>1. \A b \in Actions : ses'[s].ent[b] = Prepared
    BY <1>8, <1>11 DEF Idle
  <2>2. Prepared.meta.base = 1 /\ Prepared.meta.post = 0 /\ ver' >= 2
    BY <1>10, SizeAssumption DEF Prepared, IInv, TypeOK
  <2>3. Prepared.meta.base < ver' /\ Prepared.meta.post < ver'
        /\ Prepared.meta.base <= ver' /\ Prepared.meta.post <= ver'
    BY <1>10, <2>2 DEF IInv, TypeOK
  <2> QED BY <2>1, <2>2, <2>3 DEF Carried, Known, Older
<1>13. ~ Approves(ses[s])' => \A b \in Actions :
         draft'[b].status \in {"approved", "executing"} => row'[b].status = "approved"
  BY <1>1, <1>5, <1>6, <1>8, <1>10, <1>11 DEF Tracks, Approves
<1> QED BY <1>8, <1>10, <1>11, <1>12, <1>13
        DEF CInv, Tracks, Placed, Outside, Busy, Saves, Handling, Passed, Wrote

\* The baseline of the write that was answered is the version it made.
LEMMA RecordBaselineTracks ==
    ASSUME IInv, NEW s, Sessions = {s}, CInv(s), RecordBaseline(s) PROVE CInv(s)'
<1>1. PICK y \in SessionState : y = ses[s] /\ Tracks(y)
  BY DEF IInv, TypeOK, CInv
<1> DEFINE sib(a) == {b \in draft[a].meta.batch \ {a} : See(s, b).status \in Reviewable}
           ent(a) == [b \in Actions |-> IF b \in sib(a) THEN [See(s, b) EXCEPT !.meta.base = ver]
                                                       ELSE y.ent[b]]
           r(a) == [draft[a] EXCEPT !.meta.post = ver]
           x(a) == Saving(y, sib(a), ent(a), "done")
<1>2. PICK a \in First(y.run) : Settle(s, a, r(a), x(a))
  BY <1>1 DEF RecordBaseline
<1>3. /\ a \in Actions /\ y.pc = "record" /\ (\A b \in First(y.run) : b = a)
      /\ Handling(y) /\ Passed(y) /\ Wrote(y)
  BY <1>1, <1>2, FirstIsOne DEF SessionState, RecordBaseline, At, Handling, Passed, Wrote
<1>4. y.kind \in {"plan", "sweep"} /\ ~ Approves(y)
  BY <1>1, <1>3, WhoExecutes
<1>5. ~ Lost(draft) /\ ver \in Nat
  BY <1>1, <1>3 DEF Tracks, IInv, TypeOK
<1>6. \A b \in Actions : draft[b].status # "executing" /\ Leads(row[b].status, draft[b].status)
  BY <1>1, <1>3, NoClaim DEF CInv, Rows
<1>7. ASSUME NEW b \in Actions
      PROVE  /\ See(s, b) = draft[b]
             /\ LET f == [draft[b] EXCEPT !.meta.post = ver] IN
                f.status = draft[b].status /\ Known(b, f)
             /\ LET f == [draft[b] EXCEPT !.meta.base = ver] IN
                f.status = draft[b].status /\ Known(b, f)
  <2>1. PICK e \in Row, m \in Metadata : e = draft[b] /\ m = e.meta
    BY SeesDraft DEF Row
  <2>2. Known(b, e)
    BY <2>1 DEF CInv, Rows
  <2>3. LET f == [e EXCEPT !.meta.post = ver] IN f.status = e.status /\ Known(b, f)
    BY <1>5, <2>1, <2>2 DEF Row, Metadata, Known
  <2>4. LET f == [e EXCEPT !.meta.base = ver] IN f.status = e.status /\ Known(b, f)
    BY <1>5, <2>1, <2>2 DEF Row, Metadata, Known
  <2> QED BY <2>1, <2>3, <2>4, SeesDraft
<1>8. sib(a) \in SUBSET (Actions \ {a})
  <2>1. PICK d \in Row : d = draft[a]
    BY <1>3, TheDraft
  <2> QED BY <2>1 DEF Row, Metadata
<1>9. \A b \in Actions : /\ b \in sib(a) => ent(a)[b].status = draft[b].status
                         /\ b \notin sib(a) => ent(a)[b] = y.ent[b]
                         /\ Known(b, ent(a)[b])
  <2>1. \A b \in Actions : Known(b, y.ent[b])
    BY <1>1 DEF Tracks, Carried
  <2> HIDE DEF sib
  <2> QED BY <1>7, <2>1
<1>10. r(a).status = draft[a].status /\ Known(a, r(a))
  BY <1>3, <1>7
<1> HIDE DEF sib, ent, r
<1>11. /\ x(a).pc = (IF sib(a) = {} THEN "done" ELSE "select") /\ x(a).next = "done"
       /\ x(a).kind = y.kind /\ x(a).todo = sib(a) /\ x(a).run = y.run /\ x(a).ent = ent(a)
  BY DEF Saving, SessionState
<1>12. Put(s, a, r(a)) /\ ses' = [ses EXCEPT ![s] = x(a)] /\ UNCHANGED world
  BY <1>2 DEF Settle, Go
<1> HIDE DEF x
<1>13. Placed(x(a)) /\ ~ Outside(x(a)) /\ x(a).pc \notin {"record", "gate", "write"}
       /\ ~ Approves(x(a))
  BY <1>4, <1>11 DEF Placed, Outside, Busy, Approves
<1>14. Saves(x(a)) /\ a \notin x(a).todo
  <2>1. \A b \in Actions \cap sib(a) :
          /\ ent(a)[b].status = draft[b].status
          /\ draft[b].status = "approved" => row[b].status = "approved"
    BY <1>1, <1>4, <1>9 DEF Tracks
  <2> QED BY <1>6, <1>8, <1>11, <2>1 DEF Saves, Leads
<1>15. Carried(x(a))
  BY <1>5, <1>9, <1>11 DEF Carried
<1>16. \A b \in First(x(a).run) : row[b].status = "approved" /\ writes[b] > 0
                                  /\ Older(x(a).ent[b])
  BY <1>1, <1>3, <1>8, <1>9, <1>11 DEF Tracks
<1>17. ~ Approves(x(a)) /\ r(a).status \in {"approved", "executing"} => row[a].status = "approved"
  BY <1>1, <1>3, <1>4, <1>10 DEF Tracks
<1>18. Leads(row[a].status, r(a).status) /\ draft[a].status # "executing"
  BY <1>3, <1>6, <1>10
<1> QED BY <1>3, <1>4, <1>5, <1>10, <1>12, <1>13, <1>14, <1>15, <1>16, <1>17, <1>18, <1>1, PutTracks

\* A failure after the write takes the claimed row back, with the metadata read before
\* the claim; what else was undone is as it was committed.
LEMMA HandlerFailsTracks ==
    ASSUME IInv, NEW s, Sessions = {s}, CInv(s), HandlerFails(s) PROVE CInv(s)'
<1>1. PICK y \in SessionState : y = ses[s] /\ Tracks(y)
  BY DEF IInv, TypeOK, CInv
<1> DEFINE undone(a) == {b \in Actions \ {a} : lock[b] = s /\ y.kind = "plan"}
<1>2. PICK a \in First(y.run) :
        /\ draft' = [b \in Actions |-> CASE b = a -> Failed(AtSavepoint(s, a))
                                         [] b \in undone(a) -> row[b]
                                         [] OTHER -> draft[b]]
        /\ ses' = [ses EXCEPT ![s] = Leaving(y, a)]
  <2>1. PICK a \in First(y.run) :
          /\ draft' = [b \in Actions |-> CASE b = a -> Failed(AtSavepoint(s, a))
                                           [] b \in undone(a) -> row[b]
                                           [] OTHER -> draft[b]]
          /\ Go(s, Done(s, a))
    BY <1>1 DEF HandlerFails
  <2>2. ses' = [ses EXCEPT ![s] = Leaving(y, a)]
    BY <1>1, <2>1 DEF Go, Done, Leaving
  <2> HIDE DEF undone
  <2> QED BY <2>1, <2>2
<1>3. /\ a \in Actions /\ Handling(y) /\ Wrote(y) /\ y.pc \notin {"gate", "write"}
      /\ y.pc = "record" \/ y.kind = "plan"
  BY <1>1, <1>2, FirstIsOne
     DEF SessionState, HandlerFails, Rebasing, At, Handling, Passed, Wrote
<1>4. y.kind \in {"plan", "sweep"} /\ ~ Approves(y)
  BY <1>1, <1>3, WhoExecutes
<1>5. row[a].status = "approved" /\ writes[a] > 0 /\ Older(y.ent[a]) /\ Known(a, y.ent[a])
  BY <1>1, <1>2, <1>3 DEF Tracks, Carried
<1>6. \A b \in Actions : /\ Known(b, row[b]) /\ Known(b, draft[b])
                         /\ Guarded => Older(row[b])
  BY <1>3, <1>5 DEF CInv, Rows, Lost
<1>7. UNCHANGED <<row, ver, unread, writes>>
  BY DEF HandlerFails, world
<1>8. draft'[a].status = "approved" /\ Known(a, draft'[a]) /\ Older(draft'[a])
  <2>1. PICK d \in Row, e \in Row, f \in Row : d = draft[a] /\ e = row[a] /\ f = y.ent[a]
    BY <1>3 DEF IInv, TypeOK, SessionState
  <2> DEFINE w == [d EXCEPT !.status = "executing", !.at = e.at, !.meta = f.meta]
  <2>2. AtSavepoint(s, a) = w
    BY <1>1, <2>1 DEF AtSavepoint
  <2>3. w \in Row /\ w.meta = f.meta
    BY <2>1 DEF Row, Status
  <2> HIDE DEF w
  <2>4. draft'[a] = Failed(w)
    BY <1>2, <1>3, <2>2
  <2>5. /\ Failed(w).status = "approved" /\ Failed(w).meta.base = f.meta.base
        /\ Failed(w).meta.post = f.meta.post
    BY <2>3, FailedEdit
  <2> QED BY <1>5, <2>1, <2>4, <2>5 DEF Known, Older
<1>9. ASSUME NEW b \in Actions \ {a}
      PROVE  draft'[b] = row[b] \/ (draft'[b] = draft[b] /\ Older(draft[b]))
  <2>1. CASE b \in undone(a)
    BY <1>2, <2>1
  <2>2. CASE b \notin undone(a) /\ lock[b] # s
    <3>1. draft[b] = row[b]
      BY <2>2 DEF IInv, TypeOK, RowInv
    <3> QED BY <1>2, <2>2, <3>1
  <2>3. CASE b \notin undone(a) /\ lock[b] = s
    <3>1. y.pc = "record"
      BY <1>3, <2>3
    <3> QED BY <1>1, <1>2, <2>3, <3>1 DEF Tracks
  <2> QED BY <2>1, <2>2, <2>3
<1>10. \A b \in Actions : /\ draft[b].status # "executing" /\ row[b].status # "executing"
                          /\ Leads(row[b].status, draft[b].status)
                          /\ draft[b].status \in {"approved", "executing"}
                               => row[b].status = "approved"
  <2>1. ASSUME NEW b \in Actions PROVE draft[b].status # "executing" /\ row[b].status # "executing"
    BY <1>1, <1>3, NoClaim DEF IInv, RowInv
  <2> QED BY <1>1, <1>4, <2>1 DEF CInv, Rows, Tracks
<1>11. ASSUME NEW b \in Actions
       PROVE  /\ Leads(row[b].status, draft'[b].status)
              /\ Known(b, draft'[b]) /\ (Guarded => Older(draft'[b]))
              /\ draft'[b].status \in {"approved", "executing"} => row[b].status = "approved"
  <2>1. CASE b = a
    BY <1>5, <1>8, <2>1 DEF Leads
  <2>2. CASE b # a
    BY <1>6, <1>9, <1>10, <2>2 DEF Leads
  <2> QED BY <2>1, <2>2
<1>12. Rows'
  <2>1. \A b \in Actions : Known(b, row[b])' /\ Known(b, draft[b])'
    BY <1>6, <1>7, <1>11 DEF Known
  <2>2. Guarded' => \A b \in Actions : Older(row[b])' /\ Older(draft[b])'
    BY <1>6, <1>7, <1>11 DEF Guarded, Unchecked, Older
  <2>3. \A b \in Actions : Leads(row'[b].status, draft'[b].status)
    BY <1>7, <1>11
  <2>4. \A b \in Actions : writes'[b] > 0 => ver' > 1
    BY <1>7 DEF CInv, Rows
  <2> QED BY <2>1, <2>2, <2>3, <2>4 DEF Rows, Leads, Lost
<1> DEFINE x == Leaving(y, a)
<1>13. /\ x.kind = y.kind /\ x.ent = Idle.ent
       /\ Placed(x) /\ ~ Outside(x) /\ ~ Busy(x) /\ ~ Handling(x) /\ x.pc # "record"
  BY <1>4, LeavingTracks DEF CInv
<1> HIDE DEF x
<1>14. ses'[s] = x
  BY <1>2 DEF IInv, TypeOK, x
<1>15. Carried(ses[s])'
  <2>1. \A b \in Actions : ses'[s].ent[b] = Prepared
    BY <1>13, <1>14 DEF Idle
  <2>2. (\A b : Known(b, Prepared)) /\ Older(Prepared)
    BY <1>3, <1>5, FreshCarried DEF CInv
  <2> QED BY <1>7, <2>1, <2>2 DEF Carried, Known, Older
<1> QED BY <1>7, <1>11, <1>12, <1>13, <1>14, <1>15
        DEF CInv, Tracks, Placed, Outside, Busy, Saves, Handling, Passed, Wrote

--------------------------------------------------------------------------------
(* The sweeper and the world, for a single session *)

\* The sweep expires what is under review.
LEMMA SweepReadTracks ==
    ASSUME IInv, NEW s, Sessions = {s}, CInv(s), NEW held \in BOOLEAN, SweepRead(s, held)
    PROVE  CInv(s)'
<1>1. PICK y \in SessionState : y = ses[s] /\ Tracks(y)
  BY DEF IInv, TypeOK, CInv
<1> DEFINE S == IF held THEN {}
                ELSE {a \in Actions : See(s, a).status \in Reviewable /\ See(s, a).exp = "past"}
           ent == [a \in Actions |-> IF a \in S THEN [See(s, a) EXCEPT !.status = "expired"]
                                               ELSE Prepared]
           x == Saving(y, S, ent, "queue")
<1>2. ses' = [ses EXCEPT ![s] = x] /\ y.pc = "read" /\ y.kind = "sweep"
  BY <1>1 DEF SweepRead, Go, At
<1>3. S \in SUBSET Actions /\ \A a \in S : See(s, a).status \in Reviewable
  OBVIOUS
<1>4. ASSUME NEW a \in Actions
      PROVE  LET e == [See(s, a) EXCEPT !.status = "expired"] IN
             e.status = "expired" /\ Known(a, e) /\ (Lost(draft) => Older(e))
  <2>1. See(s, a) = draft[a] /\ draft[a] \in Row
    BY SeesDraft
  <2>2. LET e == [draft[a] EXCEPT !.status = "expired"] IN
        e.status = "expired" /\ e.meta = draft[a].meta
    BY <2>1 DEF Row
  <2> QED BY <2>1, <2>2 DEF CInv, Rows, Known, Older
<1>5. /\ \A a \in S : ent[a].status = "expired"
      /\ \A a \in Actions : Known(a, ent[a]) /\ (Lost(draft) => Older(ent[a]))
  <2>1. (\A a : Known(a, Prepared)) /\ (Lost(draft) => Older(Prepared))
    BY FreshCarried DEF CInv
  <2> HIDE DEF S
  <2> QED BY <1>3, <1>4, <2>1
<1> HIDE DEF S, ent
<1>6. \A a \in S : /\ Leads(draft[a].status, ent[a].status)
                   /\ Leads(row[a].status, ent[a].status)
                   /\ ent[a].status = "approved" /\ ~ Approves(y) => row[a].status = "approved"
  <2>1. ASSUME NEW a \in S
        PROVE  Leads(draft[a].status, "expired") /\ Leads(row[a].status, "expired")
    <3>1. draft[a].status \in Reviewable /\ a \in Actions
      BY <1>3, SeesDraft
    <3>2. Leads(row[a].status, draft[a].status)
      BY <3>1 DEF CInv, Rows, Reviewable
    <3> QED BY <3>1, <3>2, LeadsMeans DEF Reviewable
  <2> QED BY <1>5, <2>1
<1>7. ~ Approves(y) => \A a \in Actions :
        draft[a].status \in {"approved", "executing"} => row[a].status = "approved"
  BY <1>1 DEF Tracks
<1>8. Tracks(x)
  BY <1>2, <1>3, <1>5, <1>6, <1>7, SavingTracks
<1> HIDE DEF x
<1> QED BY <1>2, <1>8, QuietTracks DEF SweepRead

\* The sweep finds no claim in progress, so all it saves is what it expires.
LEMMA SweepQueueTracks ==
    ASSUME IInv, NEW s, Sessions = {s}, CInv(s), NEW held \in BOOLEAN, NEW cool \in SUBSET Actions,
           SweepQueue(s, held, cool)
    PROVE  CInv(s)'
<1>1. PICK y \in SessionState : y = ses[s] /\ Tracks(y)
  BY DEF IInv, TypeOK, CInv
<1>2. y.pc = "queue"
  BY <1>1 DEF SweepQueue, At
<1>3. \A a \in Actions : /\ See(s, a) = draft[a] /\ draft[a] \in Row
                         /\ draft[a].status # "executing" /\ Requeued(draft[a]) = draft[a]
  BY <1>1, <1>2, SeesDraft, NoClaim DEF Requeued
<1> DEFINE cand == {a \in Actions : See(s, a).status \in {"approved", "executing"}}
           new  == [a \in Actions |-> Requeued(See(s, a))]
           dead == {a \in cand : new[a].meta.att >= MaxAttempts}
           S    == dead \cup {a \in cand : See(s, a).status = "executing"}
           ent  == [a \in Actions |->
                      CASE a \in dead -> [new[a] EXCEPT !.status = "expired"]
                        [] a \in S \ dead -> new[a]
                        [] OTHER -> Prepared]
           B    == {BatchOf(new[a], a) : a \in {b \in cand \ (dead \cup cool) : new[b].meta.queued}}
           bs   == IF held THEN {} ELSE B
           z    == [y EXCEPT !.batches = bs]
<1>4. /\ ses' = [ses EXCEPT ![s] = Saving(z, S, ent, "filter")]
      /\ z \in SessionState /\ z.kind = y.kind /\ S \in SUBSET Actions
      /\ \A a \in S : draft[a].status = "approved"
      /\ \A a \in S : ent[a].status = "expired" /\ ent[a].meta = draft[a].meta
      /\ \A a \in Actions \ S : ent[a] = Prepared
  <2>1. ses' = [ses EXCEPT ![s] = Saving(z, S, ent, "filter")]
    BY <1>1 DEF SweepQueue, Go
  <2>2. \A a \in Actions : new[a] = draft[a]
    BY <1>3
  <2>3. S = dead /\ S \in SUBSET Actions /\ \A a \in S : draft[a].status = "approved"
    BY <1>3
  <2>4. \A a \in Actions : ent[a] = IF a \in S THEN [draft[a] EXCEPT !.status = "expired"]
                                               ELSE Prepared
    <3>1. \A a \in Actions : ent[a] = CASE a \in dead -> [new[a] EXCEPT !.status = "expired"]
                                        [] a \in S \ dead -> new[a]
                                        [] OTHER -> Prepared
      OBVIOUS
    <3> HIDE DEF S, dead, ent, new
    <3> QED BY <2>2, <2>3, <3>1
  <2>5. /\ \A a \in S : ent[a].status = "expired" /\ ent[a].meta = draft[a].meta
        /\ \A a \in Actions \ S : ent[a] = Prepared
    <3>1. ASSUME NEW a \in Actions
          PROVE  LET e == [draft[a] EXCEPT !.status = "expired"] IN
                 e.status = "expired" /\ e.meta = draft[a].meta
      BY <1>3 DEF Row
    <3> HIDE DEF S, ent
    <3> QED BY <2>3, <2>4, <3>1
  <2>6. bs \in SUBSET SUBSET Actions
    <3>1. \A a \in Actions : BatchOf(new[a], a) \in SUBSET Actions
      BY <1>3 DEF BatchOf, Row, Metadata
    <3> HIDE DEF new, dead
    <3> QED BY <3>1
  <2> HIDE DEF bs
  <2>7. z \in SessionState /\ z.kind = y.kind
    BY <2>6 DEF SessionState
  <2> HIDE DEF S, ent, z
  <2> QED BY <2>1, <2>3, <2>5, <2>7
<1> HIDE DEF S, ent, z
<1> DEFINE x == Saving(z, S, ent, "filter")
<1>5. z \in SessionState /\ z.kind = y.kind
  BY <1>4
<1>6. y.kind \notin {"none", "reject", "dismiss", "plan"}
  BY <1>1, <1>2 DEF Tracks, Placed, Busy
<1>7. \A a \in Actions : Known(a, ent[a]) /\ (Lost(draft) => Older(ent[a]))
  <2>1. (\A a : Known(a, Prepared)) /\ (Lost(draft) => Older(Prepared))
    BY FreshCarried DEF CInv
  <2>2. \A a \in Actions : Known(a, draft[a]) /\ (Lost(draft) => Older(draft[a]))
    BY DEF CInv, Rows
  <2> QED BY <1>4, <2>1, <2>2 DEF Known, Older
<1>8. \A a \in S : /\ Leads(draft[a].status, ent[a].status)
                   /\ Leads(row[a].status, ent[a].status)
                   /\ ent[a].status = "approved" /\ ~ Approves(z) => row[a].status = "approved"
  <2>1. ASSUME NEW a \in S
        PROVE  /\ ent[a].status = "expired"
               /\ Leads(draft[a].status, "expired") /\ Leads(row[a].status, "expired")
    <3>1. ent[a].status = "expired"
      BY <1>4
    <3>2. Leads(row[a].status, draft[a].status) /\ draft[a].status = "approved"
      BY <1>4 DEF CInv, Rows
    <3> QED BY <3>1, <3>2, LeadsMeans
  <2> QED BY <2>1
<1>9. ~ Approves(z) => \A a \in Actions :
        draft[a].status \in {"approved", "executing"} => row[a].status = "approved"
  BY <1>1, <1>5 DEF Tracks, Approves
<1>10. Tracks(x)
  BY <1>4, <1>5, <1>6, <1>7, <1>8, <1>9, SavingTracks
<1> HIDE DEF x
<1>11. ses' = [ses EXCEPT ![s] = x]
  BY <1>4 DEF x
<1> QED BY <1>10, <1>11, QuietTracks DEF SweepQueue

\* The sweep moves on, or is held.
LEMMA SweepMovesTracks ==
    ASSUME IInv, NEW s, Sessions = {s}, CInv(s),
           \/ SweepBatch(s) \/ SweepHeld(s)
           \/ \E cool \in SUBSET Actions : SweepFilter(s, cool)
    PROVE  CInv(s)'
<1>1. PICK y \in SessionState : y = ses[s] /\ Tracks(y)
  BY DEF IInv, TypeOK, CInv
<1>2. UNCHANGED <<db, world>>
  BY DEF SweepBatch, SweepHeld, SweepFilter
<1>3. CASE Outside(y) /\ ses' = [ses EXCEPT ![s] = Idle]
  BY <1>1, <1>2, <1>3, EndTracks
<1>4. ASSUME NEW x, ses' = [ses EXCEPT ![s] = x], x.kind = y.kind, x.ent = y.ent,
             y.kind \notin {"none", "reject", "dismiss", "plan"},
             x.pc \in {"plan", "commit", "batch"}
      PROVE  CInv(s)'
  <2>1. Placed(x) /\ ~ Outside(x) /\ ~ Busy(x) /\ ~ Handling(x)
    BY <1>4 DEF Placed, Outside, Busy, Handling
  <2>2. Carried(x) /\ (Approves(x) <=> Approves(y))
    BY <1>1, <1>4 DEF Tracks, Carried, Approves
  <2>3. Tracks(x)
    BY <1>1, <2>1, <2>2, LooseTracks
  <2> QED BY <1>2, <1>4, <2>3, QuietTracks
<1>5. CASE SweepBatch(s)
  <2>1. PICK B : ses' = [ses EXCEPT ![s] = [y EXCEPT !.batches = y.batches \ {B}, !.run = B,
                                                    !.pc = "plan"]]
    BY <1>1, <1>5 DEF SweepBatch, Go
  <2> DEFINE x == [y EXCEPT !.batches = y.batches \ {B}, !.run = B, !.pc = "plan"]
  <2>2. x.pc = "plan" /\ x.kind = y.kind /\ x.ent = y.ent
    BY DEF SessionState
  <2> HIDE DEF x
  <2>3. y.kind \notin {"none", "reject", "dismiss", "plan"}
    BY <1>1, <1>5 DEF SweepBatch, At, Tracks, Placed, Busy
  <2>4. ses' = [ses EXCEPT ![s] = x]
    BY <2>1 DEF x
  <2> QED BY <1>4, <2>2, <2>3, <2>4
<1>6. CASE SweepHeld(s)
  <2> DEFINE x == [y EXCEPT !.pc = "commit"]
  <2>1. x.pc = "commit" /\ x.kind = y.kind /\ x.ent = y.ent
    BY DEF SessionState
  <2> HIDE DEF x
  <2>2. y.kind = "sweep"
    BY <1>1, <1>6 DEF SweepHeld
  <2>3. \/ Outside(y) /\ ses' = [ses EXCEPT ![s] = Idle]
        \/ ses' = [ses EXCEPT ![s] = x]
    BY <1>1, <1>6 DEF SweepHeld, Go, At, Outside, x
  <2> QED BY <1>3, <1>4, <2>1, <2>2, <2>3
<1>7. CASE \E cool \in SUBSET Actions : SweepFilter(s, cool)
  <2>1. PICK bs : ses' = [ses EXCEPT ![s] = [y EXCEPT !.batches = bs, !.pc = BatchOrEnd(bs)]]
    BY <1>1, <1>7 DEF SweepFilter, Go
  <2> DEFINE x == [y EXCEPT !.batches = bs, !.pc = BatchOrEnd(bs)]
  <2>2. x.pc \in {"commit", "batch"} /\ x.kind = y.kind /\ x.ent = y.ent
    BY DEF SessionState, BatchOrEnd
  <2> HIDE DEF x
  <2>3. y.kind \notin {"none", "reject", "dismiss", "plan"}
    BY <1>1, <1>7 DEF SweepFilter, At, Tracks, Placed, Busy
  <2>4. ses' = [ses EXCEPT ![s] = x]
    BY <2>1 DEF x
  <2> QED BY <1>4, <2>2, <2>3, <2>4
<1> QED BY <1>5, <1>6, <1>7

\* What the clock changes of a row.
LEMMA LapseParts ==
    ASSUME IInv, NEW a \in Actions, Lapse(a)
    PROVE  /\ \A b \in Actions : /\ row'[b].status = row[b].status /\ row'[b].meta = row[b].meta
                                 /\ draft'[b].status = draft[b].status
                                 /\ draft'[b].meta = draft[b].meta
           /\ UNCHANGED <<lock, ses, ver, unread, writes>>
<1>1. /\ row' = [row EXCEPT ![a] = [row[a] EXCEPT !.exp = "past"]]
      /\ draft' = [draft EXCEPT ![a] = [draft[a] EXCEPT !.exp = "past"]]
      /\ UNCHANGED <<lock, ses, ver, unread, writes>>
  BY DEF Lapse, world, IInv, TypeOK
<1>2. \A b \in Actions : row[b] \in Row /\ draft[b] \in Row
  BY DEF IInv, TypeOK
<1>3. ASSUME NEW e \in Row
      PROVE  LET f == [e EXCEPT !.exp = "past"] IN f.status = e.status /\ f.meta = e.meta
  BY DEF Row
<1> QED BY <1>1, <1>2, <1>3 DEF IInv, TypeOK

\* The clock changes neither a status nor a baseline.
LEMMA LapseTracks ==
    ASSUME IInv, NEW s, Sessions = {s}, CInv(s), NEW a \in Actions, Lapse(a) PROVE CInv(s)'
<1>1. /\ \A b \in Actions : /\ row'[b].status = row[b].status /\ row'[b].meta = row[b].meta
                            /\ draft'[b].status = draft[b].status
                            /\ draft'[b].meta = draft[b].meta
      /\ UNCHANGED <<lock, ses, ver, unread, writes>>
  BY LapseParts
<1>2. PICK y \in SessionState : y = ses[s] /\ y = ses'[s] /\ Tracks(y)
  BY <1>1 DEF IInv, TypeOK, CInv
<1>3. (Lost(row)' <=> Lost(row)) /\ (Lost(draft)' <=> Lost(draft))
  BY <1>1 DEF Lost, Guarded, Unchecked
<1>4. Rows'
  BY <1>1, <1>3 DEF CInv, Rows, Known, Older
<1>5. Carried(ses[s])' /\ Saves(ses[s])'
  <2>1. Carried(ses[s])'
    BY <1>1, <1>2, <1>3 DEF Tracks, Carried, Known, Older
  <2>2. Saves(ses[s])'
    BY <1>1, <1>2 DEF Tracks, Saves, Busy, Approves
  <2> QED BY <2>1, <2>2
<1>6. First(y.run) \subseteq Actions
  BY FirstIsOne DEF SessionState
<1> QED BY <1>1, <1>2, <1>3, <1>4, <1>5, <1>6
        DEF CInv, Tracks, Placed, Outside, Busy, Approves, Handling, Passed, Wrote, Older,
            Unchecked

\* A human edit makes every baseline older.
LEMMA HumanEditTracks ==
    ASSUME IInv, NEW s, Sessions = {s}, CInv(s), HumanEdit PROVE CInv(s)'
<1>1. /\ UNCHANGED <<row, draft, lock, ses, unread, writes>>
      /\ ver \in Nat /\ ver' = ver + 1
  BY DEF HumanEdit, db, IInv, TypeOK
<1>2. PICK y \in SessionState : y = ses[s] /\ y = ses'[s] /\ Tracks(y)
  BY <1>1 DEF IInv, TypeOK, CInv
<1>3. ASSUME NEW e \in Row
      PROVE  (\A b : Known(b, e) => Known(b, e)') /\ (Older(e) => Older(e)')
  <2>1. e.meta.base \in Nat /\ e.meta.post \in Nat
    BY MetaTyped
  <2> QED BY <1>1, <2>1 DEF Known, Older
<1>4. \A b \in Actions : row[b] \in Row /\ draft[b] \in Row /\ y.ent[b] \in Row
  BY DEF IInv, TypeOK, SessionState
<1>5. (Lost(row)' <=> Lost(row)) /\ (Lost(draft)' <=> Lost(draft))
  BY <1>1 DEF Lost, Guarded, Unchecked
<1>6. Rows'
  <2>1. ASSUME NEW b \in Actions
        PROVE  /\ Known(b, row[b])' /\ Known(b, draft[b])'
               /\ Older(row[b]) => Older(row[b])'
               /\ Older(draft[b]) => Older(draft[b])'
    <3>1. PICK r \in Row, d \in Row : r = row[b] /\ r = row'[b] /\ d = draft[b] /\ d = draft'[b]
      BY <1>1, <1>4
    <3>2. Known(b, r) /\ Known(b, d)
      BY <3>1 DEF CInv, Rows
    <3>3. Known(b, r)' /\ Known(b, d)' /\ (Older(r) => Older(r)') /\ (Older(d) => Older(d)')
      BY <1>3, <3>2
    <3> QED BY <3>1, <3>3 DEF Known, Older
  <2>2. ver' > 1
    BY <1>1, SizeAssumption DEF IInv, TypeOK
  <2> QED BY <1>1, <1>5, <2>1, <2>2 DEF CInv, Rows
<1>7. \A b \in Actions : /\ Known(b, y.ent[b])' /\ (Lost(draft) => Older(y.ent[b])')
                         /\ Older(y.ent[b]) => Older(y.ent[b])'
  BY <1>2, <1>3, <1>4 DEF Tracks, Carried
<1>8. Carried(ses[s])'
  BY <1>2, <1>5, <1>7 DEF Carried, Known, Older
<1>9. Wrote(ses[s])' => \A b \in First(ses'[s].run) : writes'[b] > 0 /\ Older(ses[s].ent[b])'
  <2>1. First(y.run) \subseteq Actions
    BY FirstIsOne DEF SessionState
  <2>2. Wrote(y) => \A b \in First(y.run) : writes[b] > 0 /\ Older(y.ent[b])'
    BY <1>2, <1>7, <2>1 DEF Tracks
  <2> QED BY <1>1, <1>2, <2>2 DEF Wrote, Passed, Handling, Older
<1>10. ses'[s].pc = "record" => \A b \in Actions : Older(draft[b])'
  <2>1. ASSUME y.pc = "record", NEW b \in Actions PROVE Older(draft[b])'
    <3>1. PICK d \in Row : d = draft[b] /\ d = draft'[b]
      BY <1>1, <1>4
    <3>2. Older(d)'
      BY <1>2, <1>3, <2>1, <3>1 DEF Tracks
    <3> QED BY <3>1, <3>2 DEF Older
  <2> QED BY <1>2, <2>1
<1> QED BY <1>1, <1>2, <1>5, <1>6, <1>8, <1>9, <1>10
        DEF CInv, Tracks, Placed, Outside, Busy, Approves, Saves, Handling, Passed, Unchecked

--------------------------------------------------------------------------------
(* The contract is kept *)

\* Before any request every action is pending, on version 1 if its base was recorded.
LEMMA InitialRow ==
    ASSUME Init, NEW a \in Actions
    PROVE  /\ row[a].status = "pending" /\ row[a].meta.post = 0
           /\ row[a].meta.base \in {0, 1}
           /\ row[a].meta.base = 0 => a \in unread
<1>1. row[a] = [Prepared EXCEPT !.meta.base = IF a \in unread THEN 0 ELSE 1]
  BY DEF Init
<1> QED BY <1>1 DEF Prepared

\* Before any request nothing is written, locked or known but version 1.
LEMMA InitTracks == ASSUME NEW s, Sessions = {s}, Init PROVE CInv(s)
<1>1. /\ \A a \in Actions : draft[a] = row[a] /\ lock[a] = NoSession /\ writes[a] = 0
      /\ ver = 1 /\ ses[s] = Idle
  BY DEF Init
<1>2. /\ Prepared.status = "pending" /\ Prepared.meta.base = 1 /\ Prepared.meta.post = 0
      /\ Idle.pc = "idle" /\ Idle.kind = "none" /\ \A a \in Actions : Idle.ent[a] = Prepared
  BY DEF Prepared, Idle
<1>3. ~ Lost(row) /\ ~ Lost(draft)
  BY <1>1 DEF Lost, Guarded, Unchecked
<1>4. \A a : Known(a, Prepared)
  BY <1>1, <1>2 DEF Known
<1>5. Rows
  <2>1. \A a \in Actions : Known(a, row[a])
    BY <1>1, InitialRow DEF Known
  <2> QED BY <1>1, <1>3, <2>1 DEF Rows, Leads
<1>6. Tracks(Idle)
  <2>1. \A a \in Actions : draft[a].status = "pending"
    BY <1>1, InitialRow
  <2> QED BY <1>1, <1>2, <1>3, <1>4, <2>1 DEF Tracks, Placed, Saves, Busy, Carried, Handling, Passed, Wrote
<1> QED BY <1>1, <1>5, <1>6 DEF CInv

\* Every step of a single session keeps the invariant.
LEMMA NextTracks ==
    ASSUME NEW s, Sessions = {s}, ZonedClock = FALSE,
           IInv, CInv(s), [Next]_vars
    PROVE  CInv(s)'
<1>1. ASSUME Review(s) \/ Cron(s) PROVE CInv(s)'
  <2>1. ASSUME NEW k, NEW S \in SUBSET Actions, Begin(s, k, S) PROVE CInv(s)'
    BY <2>1, BeginTracks
  <2>2. ASSUME NEW k \in DOMAIN Outcome, NEW a \in Actions, Begin(s, k, {a}) PROVE CInv(s)'
    <3>1. {a} \in SUBSET Actions
      OBVIOUS
    <3> QED BY <2>1, <2>2, <3>1
  <2>3. CASE Cron(s)
    <3>1. {} \in SUBSET Actions
      OBVIOUS
    <3> QED BY <2>1, <2>3, <3>1 DEF Cron
  <2> QED BY <1>1, <2>1, <2>2, <2>3 DEF Review
<1>2. ASSUME Save(s) PROVE CInv(s)'
  BY <1>2, SelectTracks, UpdateTracks DEF Save
<1>3. ASSUME Execute(s) PROVE CInv(s)'
  BY <1>3, ReadApprovedTracks, ClaimWonTracks, LeaveTracks, GatePassesTracks, StopTracks,
     WriteAnsweredTracks, RecordBaselineTracks DEF Execute
<1>4. ASSUME ExecuteFails(s) PROVE CInv(s)'
  BY <1>4, StopTracks, WriteUnansweredTracks, BaselineUnreadTracks, HandlerFailsTracks,
     AbortOneTracks DEF ExecuteFails
<1>5. ASSUME Sweep(s) PROVE CInv(s)'
  BY <1>5, SweepReadTracks, SweepQueueTracks, SweepMovesTracks DEF Sweep
<1>6. ASSUME Step(s) \/ Crash(s) PROVE CInv(s)'
  BY <1>2, <1>3, <1>4, <1>5, <1>6, DecideTracks, BulkReadTracks, BulkSignTracks, PlanReadTracks,
     CommitTracks, CrashTracks DEF Step
<1>7. ASSUME NEW a \in Actions, Lapse(a) PROVE CInv(s)'
  BY <1>7, LapseTracks
<1>8. CASE HumanEdit
  BY <1>8, HumanEditTracks
<1>9. CASE UNCHANGED vars
  BY <1>9
     DEF vars, db, world, CInv, Rows, Lost, Guarded, Unchecked, Known, Older, Tracks, Placed, Outside, Busy, Approves,
     Saves, Carried, Handling, Passed, Wrote
<1> QED BY <1>1, <1>6, <1>7, <1>8, <1>9 DEF Next

\* The provider's writes are the contract's: of an approved action, not yet written.
LEMMA WriteImplements ==
    ASSUME IInv, NEW s, Sessions = {s}, CInv(s), WriteAnswered(s) \/ WriteUnanswered(s)
    PROVE  \E a \in Actions : Contract!Write(a)
<1>1. PICK y \in SessionState : y = ses[s] /\ Tracks(y)
  BY DEF IInv, TypeOK, CInv
<1>2. PICK a \in First(y.run) : Apply(a)
  BY <1>1 DEF WriteAnswered, WriteUnanswered
<1>3. a \in Actions /\ y.pc = "write" /\ Handling(y) /\ Passed(y)
  BY <1>1, <1>2, FirstIsOne DEF SessionState, WriteAnswered, WriteUnanswered, At, Handling, Passed
<1>4. /\ row[a].status = "approved" /\ draft[a].status = "executing"
      /\ a \notin Unchecked => ~ Lost(draft)
  BY <1>1, <1>2, <1>3 DEF Tracks
<1>5. Guarded /\ a \notin Unchecked => writes[a] = 0
  BY <1>3, <1>4 DEF Lost, IInv, TypeOK
<1>6. UNCHANGED <<row, Unchecked>>
  BY <1>2 DEF WriteAnswered, WriteUnanswered, Put, Apply, Unchecked
<1>7. writes' = [writes EXCEPT ![a] = IF @ < 2 THEN @ + 1 ELSE @]
  BY <1>2 DEF Apply
<1>8. Contract!Write(a)
  BY <1>3, <1>4, <1>5, <1>6, <1>7 DEF Contract!Write, Contract!Guarded, Guarded
<1> QED BY <1>3, <1>8

\* A commit moves the proposals as the contract allows.
LEMMA CommitImplements ==
    ASSUME IInv, NEW s, Sessions = {s}, CInv(s), Commit(s) PROVE Contract!Next
<1>1. PICK new : new = [a \in Actions |-> row'[a].status]
  OBVIOUS
<1>2. /\ \A a \in Actions : row'[a] = draft[a] /\ draft[a].status # "executing"
      /\ UNCHANGED <<writes, Unchecked>>
  BY PublishesDrafts, NoClaim DEF Commit, world, Unchecked
<1>3. new \in [Actions -> {"pending", "approved", "executed", "rejected", "dismissed", "expired"}]
  <2>1. \A a \in Actions : draft[a].status \in Status
    BY DEF IInv, TypeOK, Row
  <2> QED BY <1>1, <1>2, <2>1 DEF Status, Reviewable, Terminal
<1>4. ASSUME NEW a \in Actions
      PROVE  \/ new[a] = row[a].status
             \/ /\ <<row[a].status, new[a]>> \in Contract!Moves
                /\ new[a] = "executed" => writes[a] > 0
  <2>1. Leads(row[a].status, draft[a].status)
    BY <1>2 DEF CInv, Rows
  <2>2. draft[a].status = "executed" => writes[a] > 0
    BY DEF IInv, RowInv
  <2> QED BY <1>1, <1>2, <2>1, <2>2 DEF Leads
<1>5. Contract!Move(new)
  BY <1>1, <1>2, <1>4 DEF Contract!Move
<1> QED BY <1>3, <1>5 DEF Contract!Next

\* Every other step leaves what the contract speaks of alone.
LEMMA OthersStutter ==
    ASSUME IInv, NEW s, Next, Sessions = {s}, ~ Commit(s), ~ WriteAnswered(s), ~ WriteUnanswered(s)
    PROVE  UNCHANGED Contract!vars
<1>1. CASE \E a \in Actions : Lapse(a)
  <2>1. \A b \in Actions : row'[b].status = row[b].status
    BY <1>1, LapseParts
  <2>2. UNCHANGED <<writes, Unchecked>>
    BY <1>1, LapseParts DEF Unchecked
  <2> QED BY <2>1, <2>2 DEF Contract!vars
<1>2. CASE UNCHANGED <<row, unread, writes>>
  BY <1>2 DEF Contract!vars, Unchecked
<1>3. CASE HumanEdit
  BY <1>2, <1>3 DEF HumanEdit, db
<1>4. CASE Review(s) \/ Cron(s) \/ Crash(s)
  BY <1>2, <1>4 DEF Review, Cron, Begin, Crash, Rollback, db, world
<1>5. CASE Save(s) \/ Decide(s) \/ BulkRead(s) \/ BulkSign(s) \/ PlanRead(s) \/ DeadlockVictim(s)
  BY <1>2, <1>5 DEF Save, Select, Update, Put, Decide, BulkRead, BulkSign, PlanRead, DeadlockVictim,
     Rollback, db, world
<1>6. CASE Execute(s)
  BY <1>2, <1>6
     DEF Execute, ReadApproved, ClaimWon, ClaimLost, GatePasses, GateFindsLapsed, TicketStale,
     RecordBaseline, Finish, Settle, Put, db, world
<1>7. CASE ExecuteFails(s)
  BY <1>2, <1>7 DEF ExecuteFails, AttemptFails, BaselineUnread, HandlerFails, AbortOne, Rollback,
     Settle, Put, db, world
<1>8. CASE Sweep(s)
  BY <1>2, <1>8 DEF Sweep, SweepRead, SweepQueue, SweepFilter, SweepBatch, SweepHeld, db, world
<1> QED BY <1>1, <1>3, <1>4, <1>5, <1>6, <1>7, <1>8 DEF Next, Step

\* Where the requests, jobs and sweeps on a ticket run one at a time and the provider's
\* timestamps carry no zone, the execution implements the contract for any number of
\* proposals and attempts, any policies and any unrecorded bases: each proposal is
\* written only while approved, every outcome is final, and what is checked is written at
\* most once as long as nothing unchecked has been written.
THEOREM ContractKept ==
    ASSUME NEW s, Sessions = {s}, ZonedClock = FALSE
    PROVE  Spec => KeepsContract
<1>1. Init => CInv(s)
  BY InitTracks
<1>2. IInv /\ CInv(s) /\ [Next]_vars => CInv(s)'
  BY NextTracks
<1>3. Init => Contract!Init
  <2> SUFFICES ASSUME Init PROVE Contract!Init
    OBVIOUS
  <2>1. Unchecked \in SUBSET Actions
    BY PartiesAssumption DEF Init, Unchecked, Actions
  <2> QED BY <2>1, InitialRow DEF Init, Contract!Init
<1>4. IInv /\ CInv(s) /\ [Next]_vars => [Contract!Next]_Contract!vars
  <2>1. ASSUME IInv, CInv(s), UNCHANGED vars PROVE UNCHANGED Contract!vars
    BY <2>1 DEF vars, db, world, Contract!vars, Unchecked
  <2>2. ASSUME IInv, CInv(s), Next PROVE [Contract!Next]_Contract!vars
    <3>1. CASE WriteAnswered(s) \/ WriteUnanswered(s)
      BY <2>2, <3>1, WriteImplements DEF Contract!Next
    <3>2. CASE Commit(s)
      BY <2>2, <3>2, CommitImplements
    <3>3. CASE ~ Commit(s) /\ ~ WriteAnswered(s) /\ ~ WriteUnanswered(s)
      BY <2>2, <3>3, OthersStutter
    <3> QED BY <3>1, <3>2, <3>3
  <2> QED BY <2>1, <2>2
<1> QED BY <1>1, <1>2, <1>3, <1>4, Inductive, PTL DEF Spec, KeepsContract, Contract!Spec
================================================================================
