---------------------------- MODULE MutationPreviews ----------------------------
(***************************************************************************)
(* The previews of one mutation plan of the AI chat, approved and rejected *)
(* by its user from several windows.  Step s of the plan has the preview   *)
(* s, once its dependencies are executed; previews are numbered in the     *)
(* order of their ids, and no two of them are equivalent.                  *)
(*                                                                         *)
(* A request is one transaction (RowStore).  It signs the action requests  *)
(* of its batch, locks the previews, decides them one by one, and moves    *)
(* the plan after each.  The rows the plan's advance writes are taken in   *)
(* one step.                                                               *)
(***************************************************************************)
EXTENDS Naturals, FiniteSets, Sequences, RowStore

CONSTANTS
    NumSteps,    \* steps of the plan
    Deps,        \* depends_on
    Sessions,    \* requests in progress at once
    Nobody,
    Width,       \* bound: previews of a batch
    LateErrors   \* errors after the operation, before its savepoint is left: "refused", "busy"

Steps == 1 .. NumSteps

ASSUME PreviewsAssumption ==
    /\ NumSteps \in Nat \ {0}
    /\ Deps \in [Steps -> SUBSET Steps]
    /\ Nobody \notin Sessions
    /\ Width \in Nat \ {0}
    /\ LateErrors \subseteq {"refused", "busy"}

VARIABLES
    row,      \* committed rows
    draft,    \* the version of the session that locked the row
    lock,     \* row locks
    old,      \* previews whose expires_at is past
    ses,      \* requests
    overlap   \* two requests have been in progress at once

vars == <<row, draft, lock, old, ses, overlap>>

Pv(p) == <<"preview", p>>    \* ai_mutation_previews
Act(p) == <<"action", p>>    \* its ai_action_requests
St(p) == <<"step", p>>       \* ai_mutation_plan_steps
Op(p) == <<"written", p>>    \* what the operation of the preview wrote, once or twice
Plan == <<"plan", 0>>        \* ai_mutation_plans

Keys == {"preview", "action", "step", "written"} \X Steps \cup {Plan}

Statuses == [preview |-> {"none", "pending", "executed", "failed", "rejected", "expired"},
             action  |-> {"none", "pending", "approved", "executed", "failed", "rejected", "expired"},
             step    |-> {"waiting", "ready", "executed", "failed", "blocked"},
             written |-> {"none", "once", "twice"},
             plan    |-> {"active", "completed", "failed"}]

NoRequest == [pc |-> "idle", kind |-> "none", ids |-> <<>>, at |-> 1, stale |-> {}, back |-> <<>>]

--------------------------------------------------------------------------------
Batch(x) == {ses[x].ids[i] : i \in DOMAIN ses[x].ids}
Cur(x) == ses[x].ids[ses[x].at]

Seen(x, k) == Visible(row, draft, lock, x, k)
Free(x, K) == \A k \in K : Writable(lock, Nobody, x, k)
Is(x, S) == {p \in Steps : Seen(x, St(p)) \in S}

At(x, pc) == ses[x].pc = pc
To(x, pc) == ses' = [ses EXCEPT ![x].pc = pc]

\* Request x writes the rows of w, which maps them to their new values.
Write(x, w) ==
    /\ Free(x, DOMAIN w)
    /\ draft' = [k \in Keys |-> IF k \in DOMAIN w THEN w[k] ELSE draft[k]]
    /\ lock' = [k \in Keys |-> IF k \in DOMAIN w THEN x ELSE lock[k]]

One(k, v) == [j \in {k} |-> v]

\* The next preview of the batch, or the end of the request.
Following(x) ==
    ses' = IF ses[x].at < Len(ses[x].ids)
           THEN [ses EXCEPT ![x].pc = "take", ![x].at = @ + 1]
           ELSE [ses EXCEPT ![x].pc = "commit"]

--------------------------------------------------------------------------------
(* The batch *)

Begin(x) ==
    /\ At(x, "idle")
    /\ \E kind \in {"approve", "reject"}, n \in 1 .. Width :
         \E ids \in [1 .. n -> {p \in Steps : row[Pv(p)] # "none"}] :
            /\ \A i, j \in 1 .. n : ids[i] = ids[j] => i = j
            /\ ses' = [ses EXCEPT ![x] = [NoRequest EXCEPT !.pc = "sign", !.kind = kind, !.ids = ids,
                                          !.stale = {p \in Steps : old[p]}]]
    /\ overlap' = (overlap \/ \E y \in Sessions \ {x} : ~ At(y, "idle"))
    /\ UNCHANGED <<row, draft, lock, old>>

\* approvePreviewsFromChat, rejectPreviewsFromChat: the action requests, as given.
Sign(x) ==
    /\ At(x, "sign")
    /\ Write(x, One(Act(Cur(x)), IF ses[x].kind = "approve" THEN "approved" ELSE "rejected"))
    /\ ses' = IF ses[x].at < Len(ses[x].ids)
              THEN [ses EXCEPT ![x].at = @ + 1]
              ELSE [ses EXCEPT ![x].at = 1, ![x].pc = "lock"]
    /\ UNCHANGED <<row, old, overlap>>

\* lockPreviewsInIdOrder, of two previews or more.
Lock(x) ==
    LET rest == {p \in Batch(x) : lock[Pv(p)] # x} IN
    /\ At(x, "lock")
    /\ IF Cardinality(Batch(x)) = 1 \/ rest = {}
       THEN To(x, "take") /\ UNCHANGED <<draft, lock>>
       ELSE /\ \E p \in rest : (\A q \in rest : p <= q) /\ Write(x, One(Pv(p), row[Pv(p)]))
            /\ UNCHANGED ses
    /\ UNCHANGED <<row, old, overlap>>

\* Mutant: the preview is not read again under its lock.
TakeUnread(x) ==
    LET p == Cur(x)
        refused == IF old[p] THEN "expired" ELSE "rejected"
    IN /\ At(x, "take")
       /\ IF ses[x].kind = "reject" \/ old[p]
          THEN Write(x, One(Pv(p), refused)) /\ To(x, "mark")
          ELSE Write(x, One(Pv(p), "pending")) /\ To(x, "operate")
       /\ UNCHANGED <<row, old, overlap>>

\* lockPreviewForUser, and the decision on what is read under the lock.
Take(x) ==
    LET p == Cur(x)
        status == Seen(x, Pv(p))
        refused == IF old[p] THEN "expired" ELSE "rejected"
    IN /\ At(x, "take")
       /\ \/ /\ status # "pending"
             /\ Write(x, One(Pv(p), status))
             /\ Following(x)
          \/ /\ status = "pending" /\ (ses[x].kind = "reject" \/ old[p])
             /\ Write(x, One(Pv(p), refused))
             /\ To(x, "mark")
          \/ /\ status = "pending" /\ ses[x].kind = "approve" /\ ~ old[p]
             /\ Write(x, One(Pv(p), status))
             /\ To(x, "operate")
       /\ UNCHANGED <<row, old, overlap>>

--------------------------------------------------------------------------------
(* executePreviewInternal *)

\* The operation writes its records and the preview is saved as executed.
Operate(x) ==
    LET p == Cur(x)
        w == [k \in {Pv(p), Op(p)} |->
                 IF k = Pv(p) THEN "executed"
                 ELSE IF Seen(x, k) = "none" THEN "once" ELSE "twice"]
    IN /\ At(x, "operate")
       /\ Write(x, w)
       /\ ses' = [ses EXCEPT ![x].pc = "mark",
                             ![x].back = [k \in {j \in Keys : lock[j] = x} |-> draft[k]]]
       /\ UNCHANGED <<row, old, overlap>>

\* The operation is refused: the preview failed.
OperationFails(x) ==
    /\ At(x, "operate")
    /\ Write(x, One(Pv(Cur(x)), "failed"))
    /\ To(x, "mark")
    /\ UNCHANGED <<row, old, overlap>>

\* Its data is busy: the preview stays pending.
OperationBusy(x) ==
    /\ At(x, "operate")
    /\ Following(x)
    /\ UNCHANGED <<row, draft, lock, old, overlap>>

\* ROLLBACK TO SAVEPOINT, then the preview is saved with the given status.
BackTo(x, status) ==
    LET back == ses[x].back IN
    /\ draft' = [k \in Keys |-> IF k = Pv(Cur(x)) THEN status
                                ELSE IF lock[k] # x THEN draft[k]
                                ELSE IF k \in DOMAIN back THEN back[k] ELSE row[k]]
    /\ lock' = [k \in Keys |-> IF lock[k] = x /\ k \notin DOMAIN back THEN Nobody ELSE lock[k]]

\* The operation is done, its savepoint not left.
InSavepoint(x) == /\ ses[x].pc \in {"mark", "advance", "close"}
                  /\ Seen(x, Pv(Cur(x))) = "executed"

\* A later statement fails.  Its data is busy: the entity in memory is saved, and the
\* plan does not move.  Any other error: the preview failed, and the plan moves.
FailsLate(x) ==
    /\ InSavepoint(x)
    /\ \E error \in LateErrors :
         IF error = "busy" THEN BackTo(x, "executed") /\ Following(x)
                           ELSE BackTo(x, "failed") /\ To(x, "mark")
    /\ UNCHANGED <<row, old, overlap>>

--------------------------------------------------------------------------------
(* The plan *)

\* Mutant: the step takes the status of its preview.
MarkAsPreview(x) ==
    /\ At(x, "mark")
    /\ Write(x, One(St(Cur(x)), Seen(x, Pv(Cur(x)))))
    /\ To(x, "advance")
    /\ UNCHANGED <<row, old, overlap>>

\* markPlanStepsFromExecutedPreview.
Mark(x) ==
    LET p == Cur(x) IN
    /\ At(x, "mark")
    /\ Write(x, One(St(p), IF Seen(x, Pv(p)) = "executed" THEN "executed" ELSE "failed"))
    /\ To(x, "advance")
    /\ UNCHANGED <<row, old, overlap>>

\* Mutant: one executed dependency is enough.
ReadyByOne(x) == {s \in Is(x, {"waiting"}) : Deps[s] \cap Is(x, {"executed"}) # {}}

\* The steps whose dependencies request x sees executed.
Ready(x) == {s \in Is(x, {"waiting"}) : Deps[s] \subseteq Is(x, {"executed"})}

\* Mutant: the dependents of a blocked step go on waiting.
BlockedNext(x, F) == {s \in Is(x, {"waiting"}) : Deps[s] \cap F # {}}

\* The waiting steps that depend on one of F, or on one of themselves: the least set that
\* leaves out no such step.
Blocked(x, F) ==
    LET waiting == Is(x, {"waiting"})
        closed == {B \in SUBSET waiting : \A s \in waiting : Deps[s] \cap (F \cup B) # {} => s \in B}
    IN {s \in waiting : \A B \in closed : s \in B}

\* advanceMutationPlanFromExecutedStep: previews for the steps that are ready; the
\* creation of those of F fails.  Each creation expires the stale previews first.
Advance(x) ==
    /\ At(x, "advance") /\ Seen(x, St(Cur(x))) = "executed"
    /\ \E F \in SUBSET Ready(x) :
         LET made == Ready(x) \ F
             blocked == Blocked(x, F \cup Is(x, {"failed", "blocked"}))
             stale == IF Ready(x) = {} THEN {}
                      ELSE {p \in ses[x].stale : Seen(x, Pv(p)) = "pending"}
             w == [k \in {St(s) : s \in Ready(x) \cup blocked} \cup {Pv(s) : s \in made \cup stale}
                         \cup {Act(s) : s \in made} |->
                     IF k[1] = "step" THEN IF k[2] \in made THEN "ready"
                                           ELSE IF k[2] \in F THEN "failed" ELSE "blocked"
                     ELSE IF k[2] \in made THEN "pending" ELSE "expired"]
         IN Write(x, w)
    /\ To(x, "close")
    /\ UNCHANGED <<row, old, overlap>>

\* blockPlanDependents, of a step that did not execute.
Block(x) ==
    /\ At(x, "advance") /\ Seen(x, St(Cur(x))) # "executed"
    /\ Write(x, [k \in {St(s) : s \in Blocked(x, {Cur(x)})} |-> "blocked"])
    /\ To(x, "close")
    /\ UNCHANGED <<row, old, overlap>>

\* updatePlanStatus.
Close(x) ==
    /\ At(x, "close")
    /\ IF Is(x, {"waiting", "ready"}) # {} THEN UNCHANGED <<draft, lock>>
       ELSE Write(x, One(Plan, IF Is(x, {"failed", "blocked"}) # {} THEN "failed" ELSE "completed"))
    /\ Following(x)
    /\ UNCHANGED <<row, old, overlap>>

--------------------------------------------------------------------------------
(* The end of a request, and time *)

\* Mutant: an approved action request is recorded executed, whatever its preview became.
CommitAsApproved(x) ==
    LET last == [k \in Keys |-> IF k[1] = "action" /\ draft[k] = "approved" THEN "executed" ELSE draft[k]]
    IN /\ At(x, "commit")
       /\ row' = Committed(row, last, lock, x)
       /\ draft' = Committed(draft, last, lock, x)
       /\ lock' = Released(lock, Nobody, x)
       /\ ses' = [ses EXCEPT ![x] = NoRequest]
       /\ UNCHANGED <<old, overlap>>

\* markExecuted on the action requests of the results, and the commit.
Commit(x) ==
    LET result(p) == IF ses[x].kind = "approve" /\ draft[Pv(p)] # "pending"
                     THEN draft[Pv(p)] ELSE draft[Act(p)]
        last == [k \in Keys |-> IF k[1] = "action" /\ k[2] \in Batch(x) THEN result(k[2]) ELSE draft[k]]
    IN /\ At(x, "commit")
       /\ row' = Committed(row, last, lock, x)
       /\ draft' = Committed(draft, last, lock, x)
       /\ lock' = Released(lock, Nobody, x)
       /\ ses' = [ses EXCEPT ![x] = NoRequest]
       /\ UNCHANGED <<old, overlap>>

\* A statement outside the savepoint fails, a deadlock is broken, the process dies.
Abort(x) ==
    /\ ~ At(x, "idle")
    /\ draft' = RolledBack(row, draft, lock, x)
    /\ lock' = Released(lock, Nobody, x)
    /\ ses' = [ses EXCEPT ![x] = NoRequest]
    /\ UNCHANGED <<row, old, overlap>>

\* Mutant: the UPDATE does not ask whether the preview is still pending.
ExpireDecided(p) ==
    /\ row[Pv(p)] # "none" /\ old[p] /\ lock[Pv(p)] = Nobody
    /\ row' = [row EXCEPT ![Pv(p)] = "expired"]
    /\ draft' = [draft EXCEPT ![Pv(p)] = "expired"]
    /\ UNCHANGED <<lock, old, ses, overlap>>

\* expireStalePreviews of the scheduled task and of listings: an UPDATE that waits for a
\* locked row and looks at its status again.
ExpireStale(p) ==
    /\ row[Pv(p)] = "pending" /\ old[p] /\ lock[Pv(p)] = Nobody
    /\ row' = [row EXCEPT ![Pv(p)] = "expired"]
    /\ draft' = [draft EXCEPT ![Pv(p)] = "expired"]
    /\ UNCHANGED <<lock, old, ses, overlap>>

\* expires_at passes.
Age(p) ==
    /\ row[Pv(p)] = "pending" /\ ~ old[p]
    /\ old' = [old EXCEPT ![p] = TRUE]
    /\ UNCHANGED <<row, draft, lock, ses, overlap>>

--------------------------------------------------------------------------------
\* createMutationPlan has made the previews of the steps without dependencies.
Created == [k \in Keys |->
    CASE k = Plan -> "active"
      [] k[1] = "step" -> IF Deps[k[2]] = {} THEN "ready" ELSE "waiting"
      [] k[1] \in {"preview", "action"} -> IF Deps[k[2]] = {} THEN "pending" ELSE "none"
      [] OTHER -> "none"]

Init ==
    /\ row = Created
    /\ draft = Created
    /\ lock = [k \in Keys |-> Nobody]
    /\ old = [p \in Steps |-> FALSE]
    /\ ses = [x \in Sessions |-> NoRequest]
    /\ overlap = FALSE

Step(x) ==
    \/ Sign(x) \/ Lock(x) \/ Take(x)
    \/ Operate(x) \/ OperationFails(x) \/ OperationBusy(x) \/ FailsLate(x)
    \/ Mark(x) \/ Advance(x) \/ Block(x) \/ Close(x) \/ Commit(x)

Next ==
    \/ \E x \in Sessions : Begin(x) \/ Step(x) \/ Abort(x)
    \/ \E p \in Steps : ExpireStale(p) \/ Age(p)

Spec == Init /\ [][Next]_vars

--------------------------------------------------------------------------------
(* Properties *)

\* Every variable has its type: a row only takes the statuses of its table.
TypeOK ==
    /\ \A k \in Keys : row[k] \in Statuses[k[1]] /\ draft[k] \in Statuses[k[1]]
    /\ lock \in [Keys -> Sessions \cup {Nobody}]
    /\ old \in [Steps -> BOOLEAN]
    /\ \A x \in Sessions :
         /\ ses[x].pc \in {"idle", "sign", "lock", "take", "operate", "mark", "advance", "close", "commit"}
         /\ ses[x].at \in 1 .. Width
         /\ Batch(x) \subseteq Steps
         /\ ses[x].stale \subseteq Steps
         /\ DOMAIN ses[x].back \subseteq Keys
    /\ overlap \in BOOLEAN

\* A preview is executed exactly when its operation was written, once, whatever
\* approvals, rejections and expiries of it compete.  A busy LateError breaks it: the
\* preview is saved executed although its operation was undone.
ExecutedWasApplied ==
    \A p \in Steps :
        /\ row[Op(p)] # "twice"
        /\ row[Pv(p)] = "executed" <=> row[Op(p)] = "once"

\* An operation is written only after those its step depends on.
AfterDependencies ==
    \A p \in Steps : row[Op(p)] # "none" => \A d \in Deps[p] : row[Op(d)] = "once"

\* A preview that was decided, or expired, stays so: its decision is not taken again by a
\* window that had read it pending.
DecisionStands ==
    [][\A p \in Steps : row[Pv(p)] \notin {"none", "pending"} => row'[Pv(p)] = row[Pv(p)]]_vars

\* Requests one at a time: between them every waiting step has a dependency that is itself
\* waiting or ready, and the plan is active exactly as long as one of its steps is.  (A
\* step whose preview an expiry ended stays ready: expireStalePreviews moves no plan.)
PlanFollows ==
    ~ overlap /\ (\A x \in Sessions : At(x, "idle")) =>
        LET active == {s \in Steps : row[St(s)] \in {"waiting", "ready"}} IN
        /\ \A s \in Steps : row[St(s)] = "waiting" => Deps[s] \cap active # {}
        /\ row[Plan] = "active" <=> active # {}

\* The action request of a preview says executed only if the preview is.
ExecutedIsRecorded ==
    \A p \in Steps : row[Act(p)] = "executed" => row[Pv(p)] = "executed"
================================================================================
