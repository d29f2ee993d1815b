---------------------------- MODULE ActionExecution ----------------------------
(***************************************************************************)
(* The life of the action requests an agent run prepared for one target:   *)
(* reviewers approve, reject or dismiss them, an approval starts a         *)
(* background execution, and every ten minutes the approval lifecycle      *)
(* sweeper expires the lapsed ones and resumes the queued ones.            *)
(*                                                                         *)
(* Each of these runs in database transactions of its own ("sessions"),    *)
(* interleaved statement by statement over the rows of ai_action_requests  *)
(* (RowStore), and every session can die at any point.  The provider       *)
(* write of an execution (a GLPI call) is not part of its transaction.     *)
(***************************************************************************)
EXTENDS RowStore

CONSTANTS
    NumActions,    \* proposals on the target, numbered in execution_phase order
    Sessions,      \* concurrent database sessions of the backend
    NoSession,     \* the owner of a row nobody has written
    Kinds,         \* the requests and jobs that occur
    MaxAttempts,   \* QUEUED_EXECUTION_MAX_ATTEMPTS
    ApplyAnyway,   \* proposals whose on_stale policy is apply_anyway
    ZonedClock,    \* the provider's timestamps carry a zone
    MaxVersion     \* bound: versions of the ticket

ASSUME SizeAssumption ==
    /\ NumActions \in Nat \ {0}
    /\ MaxAttempts \in Nat \ {0}
    /\ MaxVersion \in Nat \ {0}

ASSUME PartiesAssumption ==
    /\ NoSession \notin Sessions
    /\ Kinds \subseteq {"approve", "reject", "dismiss", "bulk", "sweep"}
    /\ ApplyAnyway \subseteq 1 .. NumActions
    /\ ZonedClock \in BOOLEAN

Actions == 1 .. NumActions

VARIABLES
    row,       \* committed ai_action_requests rows
    draft,     \* the lock holder's version of a row; the committed one if free
    lock,      \* the session that has written the row and not ended
    approvals, \* actions with a committed, durable approval
    verdict,   \* the last committed decision on each action (ai_approvals)
    ses,       \* what each session is doing
    ver,       \* the ticket's version: every write to it makes a new one
    edited,    \* a human has edited the ticket since the actions were prepared
    unread,    \* actions prepared while the ticket could not be read: no base
    writes     \* provider writes applied for each action (0, 1, 2 = more)

db == <<row, draft, lock, approvals, verdict>>
world == <<ver, edited, unread, writes>>
vars == <<db, ses, world>>

--------------------------------------------------------------------------------
(* Rows and sessions *)

Reviewable == {"pending", "approved"}
Terminal == {"executed", "rejected", "dismissed", "expired"}
Status == Reviewable \cup {"executing"} \cup Terminal

\* metadata_json is one column: whoever saves it replaces all of it.
Metadata == [queued : BOOLEAN,             \* execution_queued
             att    : Nat,                 \* execution_attempts
             batch  : SUBSET Actions,      \* approved_batch_context.action_request_ids
             base   : 0 .. MaxVersion,     \* proposal_ticket_hash / _updated_at, 0 for none
             post   : 0 .. MaxVersion]     \* post_write_ticket_baseline, 0 for none

Row == [status : Status,
        exp    : {"live", "past"},         \* expires_at against the clock
        at     : 0 .. MaxVersion,          \* executed_at, as the version written
        meta   : Metadata]

Columns == {"status", "exp", "at", "meta"}

Prepared == [status |-> "pending", exp |-> "live", at |-> 0,
             meta |-> [queued |-> FALSE, att |-> 0, batch |-> {},
                       base |-> 1, post |-> 0]]

Idle == [kind |-> "none", pc |-> "idle", next |-> "idle",
         todo |-> {}, run |-> {}, signed |-> {}, batches |-> {}, cols |-> {},
         ent |-> [a \in Actions |-> Prepared]]

\* The first action of S in execution order, as a set of at most one.
First(S) == {a \in S : \A b \in S : a <= b}

See(s, a) == Visible(row, draft, lock, s, a)

\* Session s writes version r of action a.
Put(s, a, r) ==
    /\ Writable(lock, NoSession, s, a)
    /\ draft' = [draft EXCEPT ![a] = r]
    /\ lock' = [lock EXCEPT ![a] = s]
    /\ UNCHANGED <<row, approvals, verdict>>

Go(s, r) == ses' = [ses EXCEPT ![s] = r]

\* Rolls back the transaction of session s, which goes on as r.
Rollback(s, r) ==
    /\ draft' = RolledBack(row, draft, lock, s)
    /\ lock' = Released(lock, NoSession, s)
    /\ Go(s, r)
    /\ UNCHANGED <<row, approvals, verdict, world>>

At(s, pc) == ses[s].pc = pc

\* The session x now saves the entities ent of the actions S, then goes to pc.
Saving(x, S, ent, pc) ==
    [x EXCEPT !.todo = S, !.ent = ent, !.next = pc,
              !.pc = IF S = {} THEN pc ELSE "select"]

--------------------------------------------------------------------------------
(* Repository.save, one entity of ses[s].todo after the other *)

Select(s) ==
    /\ At(s, "select")
    /\ \E a \in First(ses[s].todo) :
        LET c == DirtyColumns({"status", "at", "meta"}, ses[s].ent[a], See(s, a))
        IN  Go(s, [ses[s] EXCEPT !.pc = "update",
                                 !.cols = IF ses[s].kind = "approve"
                                          THEN c \cup {"exp"} ELSE c])
    /\ UNCHANGED <<db, world>>

Update(s) ==
    /\ At(s, "update")
    /\ \E a \in First(ses[s].todo) :
        LET rest == ses[s].todo \ {a}
        IN  /\ Put(s, a, Overwrite(See(s, a), ses[s].ent[a], ses[s].cols))
            /\ Go(s, [ses[s] EXCEPT !.todo = rest, !.cols = {},
                        !.ent = IF ses[s].next = "sign" THEN @ ELSE [@ EXCEPT ![a] = Prepared],
                        !.pc = IF rest = {} THEN ses[s].next ELSE "select"])
    /\ UNCHANGED world

--------------------------------------------------------------------------------
(* Requests and jobs *)

\* A request on the actions S reaches the backend, or the sweeper's cron fires: a
\* claimed tick and an advisory lock let one sweep run at a time.
Begin(s, k, S) ==
    /\ At(s, "idle")
    /\ k \in Kinds
    /\ k = "sweep" => \A t \in Sessions : ses[t].kind # "sweep"
    /\ Go(s, [Idle EXCEPT !.kind = k, !.pc = "read", !.todo = S])
    /\ UNCHANGED <<db, world>>

\* POST actions/:id/approve, reject, dismiss: read the action, refuse it or
\* change the entity and add the decision's ai_approvals row to the transaction.
\* (A lapsed action is marked expired first, but the refusal rolls that back.)
Outcome == [approve |-> "approved", reject |-> "rejected", dismiss |-> "dismissed"]

\* Mutant: an approval refuses only what a reviewer has refused.
DecidableLoose(k) ==
    IF k = "approve" THEN Status \ {"rejected", "dismissed"} ELSE Reviewable

\* The statuses that a decision of kind k accepts.
Decidable(k) == IF k = "approve" THEN Reviewable \cup {"executing"} ELSE Reviewable

Decide(s) ==
    /\ At(s, "read")
    /\ ses[s].kind \in DOMAIN Outcome
    /\ \E a \in ses[s].todo :
        LET e  == See(s, a)
            ok == e.status \in Decidable(ses[s].kind) /\ e.exp = "live"
            decided == [e EXCEPT !.status = Outcome[ses[s].kind]]
        IN  Go(s, IF ok
                  THEN Saving([ses[s] EXCEPT !.signed = {a}, !.run = {a}], {a},
                              [ses[s].ent EXCEPT ![a] = decided], "commit")
                  ELSE Idle)
    /\ UNCHANGED <<db, world>>

\* Mutants: the stamp approves what is pending; it forgets an earlier queueing.
StampedApproved(e, S, queue) ==
    [e EXCEPT !.status = IF @ = "pending" THEN "approved" ELSE @,
              !.meta.batch = S, !.meta.queued = @ \/ queue]
StampedAnew(e, S, queue) ==
    [e EXCEPT !.meta.batch = S, !.meta.queued = queue]

\* stampBulkApprovalContext on the in-memory entity.
Stamped(e, S, queue) ==
    [e EXCEPT !.meta.batch = S, !.meta.queued = @ \/ queue]

\* The session x stamps the actions S, all read at once, then goes to pc.
Stamping(s, x, S, queue, pc) ==
    Saving([x EXCEPT !.run = S], S,
           [a \in Actions |-> IF a \in S THEN Stamped(See(s, a), S, queue)
                                         ELSE x.ent[a]], pc)

\* POST actions/approve: load the actions, stamp the runnable ones ...
BulkRead(s) ==
    /\ At(s, "read")
    /\ ses[s].kind = "bulk"
    /\ LET S == {a \in ses[s].todo : See(s, a).status \in Reviewable \cup {"executed"}}
       IN  Go(s, IF S = {} THEN Idle ELSE Stamping(s, ses[s], S, TRUE, "sign"))
    /\ UNCHANGED <<db, world>>

\* ... then approve each, unless a refusal or an unready provider stops it.  The
\* rows are locked by now, so the approvals are one step.
BulkSign(s) ==
    /\ At(s, "sign")
    /\ \E ready \in BOOLEAN :
        LET S == {a \in ses[s].run :
                    /\ ready
                    /\ ses[s].ent[a].status # "executed"
                    /\ draft[a].status \in Decidable("approve")
                    /\ draft[a].exp = "live"}
            run == {a \in ses[s].run : a \in S \/ draft[a].status = "approved"}
        IN  /\ draft' = [a \in Actions |->
                            IF a \in S THEN [draft[a] EXCEPT !.status = "approved"]
                                       ELSE draft[a]]
            /\ Go(s, [ses[s] EXCEPT !.signed = S, !.run = run, !.pc = "commit"])
    /\ UNCHANGED <<row, lock, approvals, verdict, world>>

\* A sweep goes on with its next batch or ends.
BatchOrEnd(batches) == IF batches = {} THEN "commit" ELSE "batch"

\* scheduleApprovedActionExecution, in a short transaction: stamp the approved
\* (and executed) actions of the request.  The sweeper does the same for a batch
\* inside its own transaction.
PlanRead(s) ==
    /\ At(s, "plan")
    /\ LET S     == {a \in ses[s].run : See(s, a).status \in {"approved", "executed"}}
           sweep == ses[s].kind = "sweep"
       IN  Go(s, IF S # {}
                 THEN Stamping(s, ses[s], S, FALSE, IF sweep THEN "xread" ELSE "commit")
                 ELSE IF sweep THEN [ses[s] EXCEPT !.pc = BatchOrEnd(ses[s].batches)] ELSE Idle)
    /\ UNCHANGED <<db, world>>

\* The transaction of session s commits.  A committed approval is followed by its
\* background plan, the plan and each execution by the next execution of the run.
Commit(s) ==
    /\ At(s, "commit")
    /\ LET k == ses[s].kind
           d == CASE k = "bulk" -> "approved"
                  [] k \in DOMAIN Outcome -> Outcome[k]
                  [] OTHER -> "none"
           resumed == [Idle EXCEPT !.kind = "plan", !.run = ses[s].run]
       IN  /\ row' = Committed(row, draft, lock, s)
           /\ lock' = Released(lock, NoSession, s)
           /\ approvals' = IF d = "approved" THEN approvals \cup ses[s].signed
                                             ELSE approvals
           /\ verdict' = [a \in Actions |-> IF a \in ses[s].signed THEN d ELSE verdict[a]]
           /\ Go(s, CASE ses[s].run = {} -> Idle
                      [] k \in {"approve", "bulk"} -> [resumed EXCEPT !.pc = "plan"]
                      [] k = "plan" -> [resumed EXCEPT !.pc = "xread"]
                      [] OTHER -> Idle)
    /\ UNCHANGED <<draft, world>>

\* The process, the request or its connection dies: everything uncommitted and
\* every step still to come is lost.
Crash(s) == ~ At(s, "idle") /\ Rollback(s, Idle)

\* The rows the next statement of session s has to lock.
Wants(s) ==
    CASE At(s, "update") -> First(ses[s].todo)
      [] At(s, "claim") -> First(ses[s].run)
      [] OTHER -> {}

Awaits(s, t) == s # t /\ \E a \in Wants(s) : lock[a] = t

\* PostgreSQL breaks a deadlock of two sessions: one's transaction is lost, and what
\* it was for ends.  (A background execution has its own failure paths below.)
DeadlockVictim(s) ==
    /\ At(s, "update")
    /\ ses[s].next # "done"
    /\ \E t \in Sessions : Awaits(s, t) /\ Awaits(t, s)
    /\ Rollback(s, Idle)

--------------------------------------------------------------------------------
(* executeSingleApprovedAction, for each action of ses[s].run in turn: a        *)
(* transaction of its own in the background, part of the sweep's in a sweep.     *)

Executing == {"claim", "gate", "write", "record", "done"}

\* The session s is done with action a.
Done(s, a) ==
    LET rest == ses[s].run \ {a}
    IN  [ses[s] EXCEPT !.run = rest, !.ent = Idle.ent,
            !.pc = IF ses[s].kind = "plan" THEN "commit"
                   ELSE IF rest = {} THEN BatchOrEnd(ses[s].batches) ELSE "xread"]

ReadApproved(s) ==
    /\ At(s, "xread")
    /\ \E a \in First(ses[s].run) :
        Go(s, IF See(s, a).status = "approved"
              THEN [ses[s] EXCEPT !.ent = [@ EXCEPT ![a] = See(s, a)], !.pc = "claim"]
              ELSE Done(s, a))
    /\ UNCHANGED <<db, world>>

\* Mutant: the claim is the read of an approved action, without the update.
ClaimByReading(s) ==
    /\ At(s, "claim")
    /\ \E a \in First(ses[s].run) : See(s, a).status = "approved"
    /\ Go(s, [ses[s] EXCEPT !.pc = "gate"])
    /\ UNCHANGED <<db, world>>

\* claimApprovedActionForExecution: the conditional update is decided on the
\* version found once the row is free; its metadata is the one read before.
ClaimWon(s) ==
    /\ At(s, "claim")
    /\ \E a \in First(ses[s].run) :
        /\ See(s, a).status = "approved"
        /\ Put(s, a, [See(s, a) EXCEPT !.status = "executing",
                                       !.meta = ses[s].ent[a].meta])
        /\ Go(s, [ses[s] EXCEPT !.pc = "gate"])
    /\ UNCHANGED world

ClaimLost(s) ==
    /\ At(s, "claim")
    /\ \E a \in First(ses[s].run) :
        /\ Writable(lock, NoSession, s, a)
        /\ See(s, a).status # "approved"
        /\ Go(s, Done(s, a))
    /\ UNCHANGED <<db, world>>

\* Sets the claimed action of session s to r and continues as x.
Settle(s, a, r, x) ==
    /\ Put(s, a, r)
    /\ Go(s, x)
    /\ UNCHANGED world

\* Mutants: a failure gets a status of its own; it is reported as executed.
FailedNamed(r) == [r EXCEPT !.status = "failed", !.meta.att = @ + 1]
FailedReported(r) == [r EXCEPT !.status = "executed"]

\* persistApprovedActionExecutionFailure: only the sweeper compares the attempts.
Failed(r) == [r EXCEPT !.status = "approved", !.meta.att = @ + 1]

\* The attempt stops before the provider is asked to write: the provider is not
\* ready or cannot be read, a pause holds the agent, a guard of the handler fails.
AttemptFails(s) ==
    /\ ses[s].pc \in {"gate", "write"}
    /\ \E a \in First(ses[s].run) : Settle(s, a, Failed(draft[a]), Done(s, a))

GateFindsLapsed(s) ==
    /\ At(s, "gate")
    /\ \E a \in First(ses[s].run) :
        /\ draft[a].exp = "past"
        /\ Settle(s, a, [draft[a] EXCEPT !.status = "expired"], Done(s, a))

\* ticketFreshnessChangeIsOnlyKanapWrites: the latest executed action with a
\* recorded baseline left the ticket as it is; failing that, with zoned
\* timestamps, an executed sibling is recent enough (soon).
OnlyKanapWrites(s, a, soon) ==
    LET done  == {b \in Actions \ {a} : See(s, b).status = "executed"}
        based == {b \in done : See(s, b).meta.post # 0}
        last  == {b \in based : \A c \in based : See(s, c).at <= See(s, b).at}
    IN  \/ \E b \in last : See(s, b).meta.post = ver
        \/ ZonedClock /\ soon /\ done # {}

\* Mutant: no freshness check.
AlwaysFresh(s, a, soon) == TRUE

\* verifyTicketFreshnessPolicy: the ticket is as it was when the action was
\* prepared (or re-based), or changed only as the policy accepts.  An action
\* without a recorded base is never found stale.
FreshEnough(s, a, soon) ==
    \/ draft[a].meta.base \in {0, ver}
    \/ OnlyKanapWrites(s, a, soon)
    \/ a \in ApplyAnyway

\* The dispatcher's approval gate, then the handler's freshness check: the action
\* must not have lapsed, must have a durable approval, and the ticket be fresh.
GateOpens(s, a) == At(s, "gate") /\ draft[a].exp = "live" /\ a \in approvals

GatePasses(s) ==
    /\ \E a \in First(ses[s].run), soon \in BOOLEAN :
        /\ GateOpens(s, a)
        /\ FreshEnough(s, a, soon)
        /\ Go(s, [ses[s] EXCEPT !.pc = "write"])
    /\ UNCHANGED <<db, world>>

\* A stale ticket cancels the action or sends it to a fresh review: expired.
TicketStale(s) ==
    \E a \in First(ses[s].run), soon \in BOOLEAN :
        /\ GateOpens(s, a)
        /\ ~ FreshEnough(s, a, soon)
        /\ Settle(s, a, [draft[a] EXCEPT !.status = "expired"], Done(s, a))

\* The provider applies the write, which makes a new version of the ticket.
Apply(a) ==
    /\ ver < MaxVersion
    /\ ver' = ver + 1
    /\ writes' = [writes EXCEPT ![a] = IF @ < 2 THEN @ + 1 ELSE @]
    /\ UNCHANGED <<edited, unread>>

\* The provider answers, and the action is executed.
WriteAnswered(s) ==
    /\ At(s, "write")
    /\ \E a \in First(ses[s].run) :
        /\ Apply(a)
        /\ Put(s, a, [draft[a] EXCEPT !.status = "executed", !.at = ver + 1])
        /\ Go(s, [ses[s] EXCEPT !.pc = "record"])

\* The write is applied and its answer lost (a timeout): a failed attempt.
WriteUnanswered(s) ==
    /\ At(s, "write")
    /\ \E a \in First(ses[s].run) :
        /\ Apply(a)
        /\ Put(s, a, Failed(draft[a]))
        /\ Go(s, Done(s, a))

\* recordPostWriteTargetBaseline: read the ticket again, keep its version as the
\* action's baseline and re-base the reviewable siblings of its batch on it.
RecordBaseline(s) ==
    /\ At(s, "record")
    /\ \E a \in First(ses[s].run) :
        LET sib == {b \in draft[a].meta.batch \ {a} : See(s, b).status \in Reviewable}
            ent == [b \in Actions |-> IF b \in sib
                        THEN [See(s, b) EXCEPT !.meta.base = ver] ELSE ses[s].ent[b]]
        IN  Settle(s, a, [draft[a] EXCEPT !.meta.post = ver],
                   Saving(ses[s], sib, ent, "done"))

\* The ticket cannot be read again.
BaselineUnread(s) ==
    /\ At(s, "record")
    /\ Go(s, [ses[s] EXCEPT !.pc = "done"])
    /\ UNCHANGED <<db, world>>

Finish(s) ==
    /\ At(s, "done")
    /\ \E a \in First(ses[s].run) : Go(s, Done(s, a))
    /\ UNCHANGED <<db, world>>

\* The session s is saving the re-based siblings.
Rebasing(s) == ses[s].pc \in {"select", "update"} /\ ses[s].next = "done"

\* The row of action a as its claim left it, at the savepoint of the handler.
AtSavepoint(s, a) == [draft[a] EXCEPT !.status = "executing", !.at = row[a].at,
                                      !.meta = ses[s].ent[a].meta]

\* Mutant: the failure is not persisted, and the claimed row stays executing.
HandlerFailsUnsettled(s) ==
    /\ At(s, "record")
    /\ \E a \in First(ses[s].run) : Settle(s, a, AtSavepoint(s, a), Done(s, a))

\* A statement of the handler fails after the write: its savepoint is rolled back,
\* which leaves the claimed row, and the attempt counts as failed.  (In a sweep,
\* whose earlier rows stay locked, only before the siblings are saved.)
HandlerFails(s) ==
    /\ At(s, "record") \/ (ses[s].kind = "plan" /\ Rebasing(s))
    /\ \E a \in First(ses[s].run) :
        LET undone == {b \in Actions \ {a} : lock[b] = s /\ ses[s].kind = "plan"}
        IN  /\ draft' = [b \in Actions |->
                            CASE b = a -> Failed(AtSavepoint(s, a))
                              [] b \in undone -> row[b]
                              [] OTHER -> draft[b]]
            /\ lock' = [b \in Actions |-> IF b \in undone THEN NoSession ELSE lock[b]]
            /\ Go(s, Done(s, a))
    /\ UNCHANGED <<row, approvals, verdict, world>>

\* The transaction of one background execution fails; the run goes on.
AbortOne(s) ==
    /\ ses[s].kind = "plan"
    /\ ses[s].pc \in Executing
    /\ \E a \in First(ses[s].run) :
        Rollback(s, IF ses[s].run = {a} THEN Idle
                    ELSE [Done(s, a) EXCEPT !.pc = "xread"])
--------------------------------------------------------------------------------
(* The sweeper: one transaction per tenant *)

\* Expire the lapsed actions, unless their agent is blocked (held).
SweepRead(s, held) ==
    /\ At(s, "read")
    /\ ses[s].kind = "sweep"
    /\ LET S == IF held THEN {}
                ELSE {a \in Actions : See(s, a).status \in Reviewable /\ See(s, a).exp = "past"}
           ent == [a \in Actions |-> IF a \in S THEN [See(s, a) EXCEPT !.status = "expired"]
                                               ELSE Prepared]
       IN  Go(s, Saving(ses[s], S, ent, "queue"))
    /\ UNCHANGED <<db, world>>

\* A tenant-wide emergency pause ends the sweep at once; a frozen subscription ends
\* it before the queued executions.
SweepHeld(s) ==
    /\ ses[s].kind = "sweep"
    /\ \/ At(s, "read") /\ Go(s, Idle)
       \/ At(s, "queue") /\ Go(s, [ses[s] EXCEPT !.pc = "commit"])
    /\ UNCHANGED <<db, world>>

\* A claim found executing was abandoned: its action is approved again.
Requeued(r) == IF r.status = "executing" THEN Failed(r) ELSE r

\* The actions among S still within their retry backoff: those attempted lately.
Backoffs(s, S) == SUBSET {a \in S : Requeued(See(s, a)).meta.att > 0}

BatchOf(r, a) == IF r.meta.batch = {} THEN {a} ELSE r.meta.batch

\* Requeue abandoned claims, dead-letter what has used up its attempts, and
\* collect the batches of the queued actions out of their backoff (cool).
SweepQueue(s, held, cool) ==
    /\ At(s, "queue")
    /\ cool \in Backoffs(s, Actions)
    /\ LET cand == {a \in Actions : See(s, a).status \in {"approved", "executing"}}
            new  == [a \in Actions |-> Requeued(See(s, a))]
            dead == {a \in cand : new[a].meta.att >= MaxAttempts}
            S    == dead \cup {a \in cand : See(s, a).status = "executing"}
            ent  == [a \in Actions |->
                        CASE a \in dead -> [new[a] EXCEPT !.status = "expired"]
                          [] a \in S \ dead -> new[a]
                          [] OTHER -> Prepared]
            B    == {BatchOf(new[a], a) : a \in {b \in cand \ (dead \cup cool) : new[b].meta.queued}}
        IN  Go(s, Saving([ses[s] EXCEPT !.batches = IF held THEN {} ELSE B],
                         S, ent, "filter"))
    /\ UNCHANGED <<db, world>>

\* One read of every batch's actions decides which batches may run.
SweepFilter(s, cool) ==
    /\ At(s, "filter")
    /\ cool \in Backoffs(s, Actions)
    /\ LET approved(a) == See(s, a).status = "approved"
            blocks(a) == \/ See(s, a).status = "executing"
                         \/ approved(a) /\ (a \in cool \/ See(s, a).meta.att >= MaxAttempts)
            runs(B) == (\E a \in B : approved(a)) /\ ~ \E a \in B : blocks(a)
            todo == {B \in ses[s].batches : runs(B)}
        IN  Go(s, [ses[s] EXCEPT !.batches = todo, !.pc = BatchOrEnd(todo)])
    /\ UNCHANGED <<db, world>>

SweepBatch(s) ==
    /\ At(s, "batch")
    /\ \E B \in ses[s].batches :
        Go(s, [ses[s] EXCEPT !.batches = @ \ {B}, !.run = B, !.pc = "plan"])
    /\ UNCHANGED <<db, world>>

--------------------------------------------------------------------------------
(* The world *)

\* expires_at of an action passes, for whoever reads it from now on.
Lapse(a) ==
    /\ row[a].exp = "live"
    /\ row' = [row EXCEPT ![a].exp = "past"]
    /\ draft' = [draft EXCEPT ![a].exp = "past"]
    /\ UNCHANGED <<lock, approvals, verdict, ses, world>>

\* Someone edits the ticket in the provider.
HumanEdit ==
    /\ ver < MaxVersion
    /\ ver' = ver + 1
    /\ edited' = TRUE
    /\ UNCHANGED <<db, ses, unread, writes>>

Init ==
    /\ unread \in SUBSET Actions
    /\ row = [a \in Actions |-> [Prepared EXCEPT !.meta.base = IF a \in unread THEN 0 ELSE 1]]
    /\ draft = row
    /\ lock = [a \in Actions |-> NoSession]
    /\ approvals = {}
    /\ verdict = [a \in Actions |-> "none"]
    /\ ses = [s \in Sessions |-> Idle]
    /\ ver = 1
    /\ edited = FALSE
    /\ writes = [a \in Actions |-> 0]

Review(s) ==
    \/ \E k \in DOMAIN Outcome, a \in Actions : Begin(s, k, {a})
    \/ \E S \in SUBSET Actions \ {{}} : Begin(s, "bulk", S)

Cron(s) == Begin(s, "sweep", {})

Save(s) == Select(s) \/ Update(s)

Execute(s) ==
    \/ ReadApproved(s) \/ ClaimWon(s) \/ ClaimLost(s)
    \/ GatePasses(s) \/ GateFindsLapsed(s)
    \/ TicketStale(s) \/ WriteAnswered(s) \/ RecordBaseline(s) \/ Finish(s)

ExecuteFails(s) ==
    \/ AttemptFails(s) \/ WriteUnanswered(s) \/ BaselineUnread(s)
    \/ HandlerFails(s) \/ AbortOne(s)

Sweep(s) ==
    \/ \E held \in BOOLEAN :
        SweepRead(s, held) \/ \E cool \in SUBSET Actions : SweepQueue(s, held, cool)
    \/ \E cool \in SUBSET Actions : SweepFilter(s, cool)
    \/ SweepBatch(s) \/ SweepHeld(s)

Step(s) ==
    \/ Save(s) \/ Decide(s) \/ BulkRead(s) \/ BulkSign(s) \/ PlanRead(s)
    \/ Commit(s) \/ DeadlockVictim(s) \/ Execute(s) \/ ExecuteFails(s) \/ Sweep(s)

Next ==
    \/ \E s \in Sessions : Review(s) \/ Cron(s) \/ Step(s) \/ Crash(s)
    \/ \E a \in Actions : Lapse(a)
    \/ HumanEdit

Spec == Init /\ [][Next]_vars

\* A session that is not killed goes on, the cron keeps firing, and holds, pauses
\* and retry backoffs come to an end again and again.
Fairness ==
    /\ \A s \in Sessions : WF_vars(Step(s))
    /\ WF_vars(\E s \in Sessions : Cron(s))
    /\ SF_vars(\E s \in Sessions : SweepRead(s, FALSE))
    /\ SF_vars(\E s \in Sessions : SweepQueue(s, FALSE, {}))
    /\ SF_vars(\E s \in Sessions : ses[s].batches # {} /\ SweepFilter(s, {}))

--------------------------------------------------------------------------------
(* Type invariant *)

SessionState ==
    [kind    : {"none", "approve", "reject", "dismiss", "bulk", "plan", "sweep"},
     pc      : {"idle", "read", "select", "update", "sign", "commit", "plan",
                "xread", "claim", "gate", "write", "record", "done",
                "queue", "filter", "batch"},
     next    : {"idle", "commit", "sign", "xread", "queue", "filter", "done"},
     todo    : SUBSET Actions,
     run     : SUBSET Actions,
     signed  : SUBSET Actions,
     batches : SUBSET SUBSET Actions,
     cols    : SUBSET Columns,
     ent     : [Actions -> Row]]

\* Every variable has its type: the committed and drafted rows, their locks, and what
\* each session carries in memory between its statements.
TypeOK ==
    /\ row \in [Actions -> Row]
    /\ draft \in [Actions -> Row]
    /\ lock \in [Actions -> Sessions \cup {NoSession}]
    /\ approvals \subseteq Actions
    /\ verdict \in [Actions -> {"none", "approved", "rejected", "dismissed"}]
    /\ ses \in [Sessions -> SessionState]
    /\ ver \in 1 .. MaxVersion
    /\ edited \in BOOLEAN
    /\ unread \subseteq Actions
    /\ writes \in [Actions -> 0 .. 2]

--------------------------------------------------------------------------------
(* Safety *)

\* A claim in progress (status executing) is never committed: every path of
\* executeSingleApprovedAction, its failures included, settles the claimed action
\* before its transaction ends, so neither a reviewer nor the sweeper meets one.
ExecutingIsPrivate == \A a \in Actions : row[a].status # "executing"

\* An action reported executed has been applied by the provider, whatever was lost,
\* retried or written over on the way.
ExecutedWasWritten == \A a \in Actions : row[a].status = "executed" => writes[a] > 0

\* An action that may run or has run has a durable approval that was committed with
\* or before its status: no stale save of another session resurrects one without.
ApprovedIsBacked ==
    \A a \in Actions : row[a].status \in {"approved", "executed"} => a \in approvals

\* The action session s has claimed and not settled.
InHand(s) == IF ses[s].pc \in {"gate", "write", "record"} THEN First(ses[s].run) ELSE {}

\* Two sessions never hold a claim of the same action: claimApprovedActionForExecution
\* keeps two executions of one approval from writing to the provider together.
ClaimIsExclusive ==
    \A s, t \in Sessions : s # t => InHand(s) \cap InHand(t) = {}

\* The actions the freshness check never stops, by policy or for want of a base.
Unchecked == ApplyAnyway \cup unread

\* The only action on its ticket is written at most once, if its base was recorded: a
\* write whose answer or transaction was lost makes the ticket stale for its retry.
WrittenOnce == \A a \in Actions \ Unchecked : writes[a] <= 1

\* A rejected or dismissed action stays so: what is rejected cannot be approved.  It
\* fails: an approval that read the action before writes over the rejection committed
\* meanwhile.
RefusalStands ==
    [][\A a \in Actions : row[a].status \in {"rejected", "dismissed"}
            => row'[a].status = row[a].status]_vars

\* Once a human has edited the ticket, the freshness check lets no action through
\* whose policy does not accept it.  It fails: an edit between our write and the read
\* of the baseline becomes the baseline.
HumanEditsSeen ==
    [][\A s \in Sessions : (At(s, "gate") /\ ses'[s].pc = "write" /\ edited)
            => First(ses[s].run) \subseteq ApplyAnyway]_vars

--------------------------------------------------------------------------------
(* Liveness *)

\* An approved action whose execution was queued (approve in bulk) does not stay
\* approved: the sweeper executes it, or gives it up after MaxAttempts attempts.
QueuedSettles ==
    \A a \in Actions : (row[a].status = "approved" /\ row[a].meta.queued)
                            ~> row[a].status # "approved"

\* No approved action stays approved however many sweeps run: the sweeper resumes it.
\* It fails: a single approval is never queued.
ApprovedSettles ==
    \A a \in Actions : row[a].status = "approved" ~> row[a].status # "approved"
================================================================================
