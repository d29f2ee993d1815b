------------------------------- MODULE WorkQueue -------------------------------
(***************************************************************************)
(* The work items of agents, the claims that keep two agents off one       *)
(* target, and the proposals an item waits for.  The help-desk agents of   *)
(* the instance watch one ticket, its monitors one sensor.                 *)
(*                                                                         *)
(* A run of an item is one transaction, from the read of the item to the   *)
(* outcome: its writes, the statuses leased and running among them, are    *)
(* seen by others when it commits, and a failed run leaves none.  The      *)
(* first claim row it writes keeps every other run off the target until    *)
(* then.  A decision reads the proposal, and later saves what it read; the *)
(* executions of the approved ones are those of ActionExecution.  The row  *)
(* locks of proposals are left out: two writes of one come in any order.   *)
(***************************************************************************)
EXTENDS Naturals, FiniteSets

CONSTANTS
    Agents,       \* agent definitions
    Monitors,     \* those that diagnose alerts; the others triage tickets
    Senior,       \* those with the higher agent_priority of two
    Superseding,  \* those with on_conflict = "supersede"
    Pausing,      \* bound: those that are ever paused
    Again,        \* bound: those that triage two work items, the others have one item
    Width,        \* bound: proposals of an agent's items, at most
    MaxAttempts,  \* max_attempts
    Deciders,     \* people who decide
    MaxAtOnce,    \* bound: runs, sweeps and decisions in progress at a time
    Purges        \* the retention of settled proposals is shorter than the approval window

ASSUME QueueAssumption ==
    /\ Monitors \subseteq Agents /\ Senior \subseteq Agents /\ Superseding \subseteq Agents
    /\ Pausing \subseteq Agents /\ Again \subseteq Agents \ Monitors
    /\ Width \in [Agents -> Nat]
    /\ MaxAttempts \in Nat \ {0}
    /\ Purges \in BOOLEAN

VARIABLES
    item,    \* ai_agent_work_items
    claim,   \* the claim columns of ai_agent_target_states, by agent
    prop,    \* ai_action_requests, by the item whose run made them
    paused,  \* agents under an emergency pause or at their daily cap
    run,     \* the run in progress of each runner
    sweep,   \* what a sweep in progress is about to release and to expire
    request, \* the decision in progress of each person
    spent,   \* failed diagnoses of alerts, counted or not, up to max_attempts
    stale    \* a claim was released, or an item run, on what was no longer so

vars == <<item, claim, prop, paused, run, sweep, request, spent, stale>>

Items == Agents \X {1} \cup Again \X {2}
Alerts == Monitors \X {1}
Proposals == UNION {{i} \X (1 .. Width[i[1]]) : i \in Items}
NoItem == <<>>
NoRequest == [pc |-> "idle"]

\* The scheduled polls of tickets and of alerts (one at a time each), and a manual run.
Runners == {"tickets", "alerts", "manual"}

\* leased and running are inside a run.  cool: next_attempt_at is in the future.
Item == [status : {"none", "queued", "failed", "waiting", "completed", "dead"},
         tries : 0 .. MaxAttempts, cool : BOOLEAN, acts : SUBSET Proposals]

NotQueued == [status |-> "none", tries |-> 0, cool |-> FALSE, acts |-> {}]

Past == [NotQueued EXCEPT !.status = "completed"]

Claim == [held : BOOLEAN, owner : Items \cup {NoItem}, acts : SUBSET Proposals, lapsed : BOOLEAN]

Unclaimed == [held |-> FALSE, owner |-> NoItem, acts |-> {}, lapsed |-> FALSE]

\* release: the claims the run takes away; expire: their owners' proposals.
Run == [pc : {"idle", "looked", "working"}, item : Items \cup {NoItem},
        tries : 0 .. MaxAttempts, release : SUBSET Agents, expire : SUBSET Proposals]

NoRun == [pc |-> "idle", item |-> NoItem, tries |-> 0, release |-> {}, expire |-> {}]

Sweep == [pc : {"idle", "writing"}, release : SUBSET Agents, expire : SUBSET Proposals]

NoSweep == [pc |-> "idle", release |-> {}, expire |-> {}]

\* resolving: it found its item resolved, and the claim the item's.
Request == [pc : {"read", "resolving"}, prop : Proposals] \cup {NoRequest}

Status == {"none", "pending", "approved", "lapsed", "settled", "purged"}

AgentOf(i) == i[1]
ItemOf(p) == p[1]

\* activePendingAction: pending or approved, and inside its window.
Live(p) == prop[p] \in {"pending", "approved"}

Rivals(a) == {b \in Agents \ {a} : (b \in Monitors) = (a \in Monitors)}

\* The agents whose claim rows a run of agent a locks.
Locked == UNION {Rivals(AgentOf(run[r].item)) \cup {AgentOf(run[r].item)} :
                 r \in {q \in Runners : run[q].pc = "working"}}

\* Another run, sweep or decision may begin.
MayBegin == Cardinality({r \in Runners : run[r].pc # "idle"})
            + Cardinality({d \in Deciders : request[d] # NoRequest})
            + (IF sweep.pc = "idle" THEN 0 ELSE 1) < MaxAtOnce

--------------------------------------------------------------------------------
(* Waiting items *)

\* Mutant: a lapsed proposal counts as one still to decide.
ResolvedWhenSettled(i) ==
    item[i].status = "waiting" /\ \A p \in item[i].acts : prop[p] = "settled"

\* refreshResolvedWaitingApproval: every linked action is there and none is live.
Resolved(i) == /\ item[i].status = "waiting"
               /\ \A p \in item[i].acts : prop[p] \in {"lapsed", "settled"}

\* completeWorkItem of the items I.
Completed(I) == [i \in Items |-> IF i \in I THEN [item[i] EXCEPT !.status = "completed"] ELSE item[i]]

\* releaseWorkItemTargetClaim of the items I: only the owner's claim.
Freed(I) == {a \in Agents : claim[a].held /\ claim[a].owner \in I}

Without(A) == [a \in Agents |-> IF a \in A THEN Unclaimed ELSE claim[a]]

--------------------------------------------------------------------------------
(* Decisions *)

\* approveActionRequest, rejectActionRequest, dismiss...: a person reads a proposal.
Read(d, p) ==
    /\ request[d] = NoRequest /\ Live(p) /\ MayBegin
    /\ request' = [request EXCEPT ![d] = [pc |-> "read", prop |-> p]]
    /\ UNCHANGED <<item, claim, prop, paused, run, sweep, spent, stale>>

Decided(d, status) == /\ prop' = [prop EXCEPT ![request[d].prop] = status]
                      /\ request' = [request EXCEPT ![d] = NoRequest]

\* markApproved saves the proposal it read, whatever became of it meanwhile.
Approve(d) ==
    /\ request[d].pc = "read"
    /\ Decided(d, "approved")
    /\ UNCHANGED <<item, claim, paused, run, sweep, spent, stale>>

\* The proposal is the last of its item to be decided.
LastOf(p) == LET i == ItemOf(p) IN
    item[i].status = "waiting" /\ \A q \in item[i].acts \ {p} : prop[q] \in {"lapsed", "settled"}

\* The proposal is rejected, dismissed, expired or executed.  The last one completes its
\* item (resolveWaitingApprovalForActionRequest); the claim, if it is the item's, is
\* compared first and saved later.
Settle(d) ==
    LET p == request[d].prop
        i == ItemOf(p)
    IN /\ request[d].pc = "read"
       /\ IF LastOf(p) /\ AgentOf(i) \in Freed({i})
          THEN /\ request' = [request EXCEPT ![d].pc = "resolving"]
               /\ UNCHANGED <<item, prop>>
          ELSE /\ Decided(d, "settled")
               /\ item' = Completed(IF LastOf(p) THEN {i} ELSE {})
       /\ UNCHANGED <<claim, paused, run, sweep, spent, stale>>

Resolve(d) ==
    LET i == ItemOf(request[d].prop)
        a == AgentOf(i)
    IN /\ request[d].pc = "resolving" /\ a \notin Locked
       /\ Decided(d, "settled")
       /\ item' = Completed({i})
       /\ claim' = Without({a})
       /\ stale' = (stale \/ (claim[a].held /\ claim[a].owner # i))
       /\ UNCHANGED <<paused, run, sweep, spent>>

\* The proposal is refused to the person, or the request fails.
Close(d) ==
    /\ request[d].pc = "read"
    /\ request' = [request EXCEPT ![d] = NoRequest]
    /\ UNCHANGED <<item, claim, prop, paused, run, sweep, spent, stale>>

--------------------------------------------------------------------------------
(* Claims *)

\* The window of a claim is past, or its proposals or its item are over.
Ended(a) == \/ claim[a].lapsed
            \/ claim[a].acts # {} /\ \A p \in claim[a].acts : ~ Live(p)
            \/ item[claim[a].owner].status \in {"completed", "dead"}

\* Mutant: one proposal of the claim over is enough.
OverByOne(a) == /\ claim[a].held /\ a \notin paused
                /\ Ended(a) \/ \E p \in claim[a].acts : ~ Live(p)

\* reconcileTargetClaims, which leaves the claims of paused agents alone.
Over(a) == claim[a].held /\ a \notin paused /\ Ended(a)

\* The claims of other agents on the target that stand.
Foreign(a) == {b \in Rivals(a) : claim[b].held /\ ~ claim[b].lapsed /\ ~ Over(b)}

\* shouldSupersede: a higher agent_priority, or an equal one that supersedes.
Beats(a, b) == \/ a \in Senior /\ b \notin Senior
               \/ (a \in Senior <=> b \in Senior) /\ a \in Superseding

\* Mutant: the owner's proposals are left alone.
ExpiredNone(a) == {}

\* expireClaimOwnerActions: the live proposals of the claims taken away.
Expired(a) == {p \in UNION {claim[b].acts : b \in Foreign(a)} : Live(p)}

\* The claims a new claim of agent a takes away.
Taken(a) == {b \in Rivals(a) : Over(b)} \cup Foreign(a)

\* holdTargetClaimForPendingProposals, or the lease of an item in the queue.
Hold(i, acts) == [held |-> TRUE, owner |-> i, acts |-> acts, lapsed |-> FALSE]

\* The proposals a claim of agent a keeps when it is leased again.
OwnActs(a) == IF claim[a].held /\ ~ Over(a) THEN claim[a].acts ELSE {}

\* acquireTargetClaim, by the poll that queues item i; a stronger claim, or one nobody
\* may release (the unique index), leaves the ticket to a later poll.
Lease(i) ==
    LET a == AgentOf(i) IN
    /\ a \notin paused
    /\ \A b \in Foreign(a) : Beats(a, b)
    /\ \A b \in Rivals(a) \ Taken(a) : ~ claim[b].held
    /\ (Taken(a) \cup {a}) \cap Locked = {}
    /\ prop' = [p \in Proposals |-> IF p \in Expired(a) THEN "settled" ELSE prop[p]]
    /\ claim' = [Without(Taken(a)) EXCEPT ![a] = Hold(i, OwnActs(a))]

\* enqueueTicketingScopedTicket, enqueueMonitoringScopedAlert: an item of the agent in the
\* way must be resolved, and is completed by the same request (findActiveWorkItem).
Enqueue(i) ==
    LET inTheWay == {j \in Items : /\ AgentOf(j) = AgentOf(i)
                                   /\ item[j].status \in {"queued", "failed", "waiting"}}
    IN /\ item[i].status = "none"
       /\ i[2] = 2 => item[<<AgentOf(i), 1>>].status # "none"
       /\ \A j \in inTheWay : Resolved(j)
       /\ Lease(i)
       /\ item' = [Completed(inTheWay) EXCEPT ![i].status = "queued"]
       /\ UNCHANGED <<paused, run, sweep, request, spent, stale>>

\* A ticket in the queue is polled again; an alert is not.
Renew(i) ==
    /\ AgentOf(i) \notin Monitors /\ item[i].status \in {"queued", "failed"}
    /\ Lease(i)
    /\ UNCHANGED <<item, paused, run, sweep, request, spent, stale>>

--------------------------------------------------------------------------------
(* Runs *)

\* acquireWorkItem and acquireTargetClaim read the item, then the claims; a stronger
\* claim defers the run, which changes nothing.
Look(r, i) ==
    LET a == AgentOf(i) IN
    /\ run[r].pc = "idle" /\ MayBegin
    /\ r = "tickets" => a \notin Monitors \cup paused
    /\ r = "alerts" => a \in Monitors \ paused
    /\ item[i].status \in {"queued", "failed"} /\ ~ item[i].cool
    /\ \A b \in Foreign(a) : Beats(a, b)
    /\ run' = [run EXCEPT ![r] = [pc |-> "looked", item |-> i, tries |-> item[i].tries,
                                   release |-> Taken(a),
                                   expire |-> Expired(a)]]
    /\ UNCHANGED <<item, claim, prop, paused, sweep, request, spent, stale>>

\* The item has been run meanwhile, or a claim to be taken away has other proposals.
Outdated(r) ==
    \/ item[run[r].item].status \notin {"queued", "failed"}
    \/ \E b \in run[r].release : claim[b].held /\ \E p \in claim[b].acts \ run[r].expire : Live(p)

\* The claim is written: a wait for any other run of the target.  A claim committed
\* meanwhile, or a lapsed one nobody may release, violates the unique index and
\* aborts the run; a claim it read is released, whatever became of it.
Seize(r) ==
    LET a == AgentOf(run[r].item)
        conflict == \E b \in Rivals(a) \ run[r].release : claim[b].held
    IN /\ run[r].pc = "looked" /\ a \notin Locked
       /\ run' = IF conflict THEN [run EXCEPT ![r] = NoRun] ELSE [run EXCEPT ![r].pc = "working"]
       /\ stale' = (stale \/ (~ conflict /\ Outdated(r)))
       /\ UNCHANGED <<item, claim, prop, paused, sweep, request, spent>>

\* The entity is saved with the attempt it counted.
Outcome(r, status, acts) ==
    [status |-> status, tries |-> run[r].tries + 1, cool |-> FALSE, acts |-> acts]

ExpiredBy(r) == [p \in Proposals |-> IF p \in run[r].expire THEN "settled" ELSE prop[p]]

\* The run made proposals: the item waits for them and the claim is held.
Propose(r) ==
    LET i == run[r].item
        a == AgentOf(i)
    IN /\ run[r].pc = "working" /\ a \notin Monitors
       /\ \E n \in 1 .. Width[a] :
            LET ps == {p \in Proposals : ItemOf(p) = i /\ p[2] <= n /\ prop[p] = "none"} IN
            /\ ps # {}
            /\ prop' = [p \in Proposals |-> IF p \in ps THEN "pending" ELSE ExpiredBy(r)[p]]
            /\ item' = [item EXCEPT ![i] = Outcome(r, "waiting", ps)]
            /\ claim' = [Without(run[r].release) EXCEPT ![a] = Hold(i, ps)]
       /\ run' = [run EXCEPT ![r] = NoRun]
       /\ UNCHANGED <<paused, sweep, request, spent, stale>>

\* The run made none: the item is completed, unless proposals of the agent on this
\* target are live; then it, or an older item that waits for them, holds the claim.
Conclude(r) ==
    LET i == run[r].item
        a == AgentOf(i)
        prior == {p \in Proposals : AgentOf(ItemOf(p)) = a /\ Live(p)}
        older == {j \in Items : /\ AgentOf(j) = a /\ j # i /\ item[j].status = "waiting"
                                /\ item[j].acts \cap prior # {}}
    IN /\ run[r].pc = "working"
       /\ prop' = ExpiredBy(r)
       /\ item' = [item EXCEPT ![i] = IF prior = {} \/ older # {}
                                      THEN Outcome(r, "completed", {})
                                      ELSE Outcome(r, "waiting", prior)]
       /\ claim' = [Without(run[r].release) EXCEPT ![a] =
                       IF prior = {} THEN Unclaimed
                       ELSE IF older # {} THEN Hold(CHOOSE j \in older : TRUE, prior)
                       ELSE Hold(i, prior)]
       /\ run' = [run EXCEPT ![r] = NoRun]
       /\ UNCHANGED <<paused, sweep, request, spent, stale>>

\* Mutant: the attempt is counted in the transaction that is rolled back.
FailedUncounted(i) == [item[i] EXCEPT !.status = "failed", !.cool = TRUE]

\* Mutant: one attempt less than max_attempts.
FailedEarly(i) == LET n == item[i].tries + 1 IN
    [item[i] EXCEPT !.tries = n, !.status = IF n + 1 >= MaxAttempts THEN "dead" ELSE "failed",
                    !.cool = n + 1 < MaxAttempts]

\* Mutant: one attempt more than max_attempts.
FailedLate(i) == LET n == item[i].tries + 1 IN
    [item[i] EXCEPT !.tries = n, !.status = IF n > MaxAttempts THEN "dead" ELSE "failed",
                    !.cool = n <= MaxAttempts]

\* failWorkItem, on the item as a rollback left it.
Failed(i) == LET n == item[i].tries + 1 IN
    [item[i] EXCEPT !.tries = n, !.status = IF n >= MaxAttempts THEN "dead" ELSE "failed",
                    !.cool = n < MaxAttempts]

\* The run fails and is rolled back.
Fails(r) ==
    /\ run[r].pc = "working"
    /\ spent' = [spent EXCEPT ![run[r].item] =
                     IF run[r].item \in Alerts /\ @ < MaxAttempts THEN @ + 1 ELSE @]
    /\ run' = [run EXCEPT ![r] = NoRun]
    /\ UNCHANGED <<claim, prop, paused, sweep, request, stale>>

\* Only the poll of alerts writes the failed attempt again, if the item is still one to
\* retry (reapplyWorkItemFailureAfterRollback).
FailCounted(r) ==
    LET i == run[r].item IN
    /\ Fails(r)
    /\ r = "alerts" /\ item[i].status \in {"queued", "failed"}
    /\ item' = [item EXCEPT ![i] = Failed(i)]

\* No other run is counted; nor is one of that poll whose bookkeeping fails, which it
\* only logs, or whose poll is rolled back later.
FailLost(r) == Fails(r) /\ UNCHANGED item

--------------------------------------------------------------------------------
(* The sweeper, and time *)

\* The sweeper reads the lapsed proposals, and each claim, which it compares with what it
\* read before.
SweepReads ==
    /\ sweep.pc = "idle" /\ MayBegin
    /\ sweep' = [pc |-> "writing", release |-> {a \in Agents : Over(a)},
                 expire |-> {p \in Proposals : prop[p] = "lapsed" /\ AgentOf(ItemOf(p)) \notin paused}]
    /\ UNCHANGED <<item, claim, prop, paused, run, request, spent, stale>>

\* It saves them expired and released, whatever became of them, and resolves waiting items.
SweepWrites ==
    LET done == {i \in Items : Resolved(i)}
        out == sweep.release \cup Freed(done)
    IN /\ sweep.pc = "writing" /\ out \cap Locked = {}
       /\ prop' = [p \in Proposals |-> IF p \in sweep.expire THEN "settled" ELSE prop[p]]
       /\ item' = Completed(done)
       /\ claim' = Without(out)
       /\ sweep' = NoSweep
       /\ stale' = (stale \/ \E a \in sweep.release : claim[a].held /\ ~ Ended(a))
       /\ UNCHANGED <<paused, run, request, spent>>

\* The approval window of an item's proposals ends, and that of the claim held for them;
\* of the approved ones, some have longer (approvalExpiryForAction).
Lapse(i) ==
    LET a == AgentOf(i) IN
    /\ \E later \in SUBSET {p \in Proposals : ItemOf(p) = i /\ prop[p] = "approved"} :
         LET ps == {p \in Proposals : ItemOf(p) = i /\ Live(p)} \ later IN
         /\ ps # {}
         /\ prop' = [p \in Proposals |-> IF p \in ps THEN "lapsed" ELSE prop[p]]
    /\ claim' = IF claim[a].owner = i THEN [claim EXCEPT ![a].lapsed = TRUE] ELSE claim
    /\ UNCHANGED <<item, paused, run, sweep, request, spent, stale>>

\* The lease of a queued item's claim ends, or the window of a claim none of whose
\* proposals is pending any more.
ClaimEnds(a) ==
    /\ claim[a].held /\ ~ claim[a].lapsed /\ \A p \in claim[a].acts : prop[p] # "pending"
    /\ claim' = [claim EXCEPT ![a].lapsed = TRUE]
    /\ UNCHANGED <<item, prop, paused, run, sweep, request, spent, stale>>

\* next_attempt_at comes.
CoolsDown(i) ==
    /\ item[i].cool
    /\ item' = [item EXCEPT ![i].cool = FALSE]
    /\ UNCHANGED <<claim, prop, paused, run, sweep, request, spent, stale>>

\* Retention is longer than any request, run or sweep: none of them has p.
AtRest(p) == /\ \A d \in Deciders : request[d] # NoRequest => request[d].prop # p
             /\ \A r \in Runners : p \notin run[r].expire
             /\ p \notin sweep.expire

\* purgeTerminalActions; the proposals an item waits for, only where Purges.
Purge(i) ==
    LET ps == {p \in Proposals : ItemOf(p) = i /\ prop[p] = "settled"} IN
    /\ ps # {} /\ \A p \in ps : AtRest(p)
    /\ Purges \/ \A j \in Items : item[j].status = "waiting" => item[j].acts \cap ps = {}
    /\ prop' = [p \in Proposals |-> IF p \in ps THEN "purged" ELSE prop[p]]
    /\ UNCHANGED <<item, claim, paused, run, sweep, request, spent, stale>>

Pause(a) ==
    /\ paused' = IF a \in paused THEN paused \ {a} ELSE paused \cup {a}
    /\ UNCHANGED <<item, claim, prop, run, sweep, request, spent, stale>>

--------------------------------------------------------------------------------
Init ==
    /\ item \in [Items -> {NotQueued, Past}]
    /\ claim = [a \in Agents |-> Unclaimed]
    /\ prop = [p \in Proposals |-> "none"]
    /\ paused = {}
    /\ run = [r \in Runners |-> NoRun]
    /\ sweep = NoSweep
    /\ request = [d \in Deciders |-> NoRequest]
    /\ spent = [i \in Items |-> 0]
    /\ stale = FALSE

Ends(r) == Seize(r) \/ Propose(r) \/ Conclude(r) \/ FailCounted(r) \/ FailLost(r)

Decides(d) == (\E p \in Proposals : Read(d, p)) \/ Approve(d) \/ Settle(d) \/ Resolve(d) \/ Close(d)

Next ==
    \/ \E i \in Items : Enqueue(i) \/ Renew(i) \/ Lapse(i) \/ CoolsDown(i) \/ Purge(i)
    \/ \E d \in Deciders : Decides(d)
    \/ \E r \in Runners : Ends(r) \/ \E i \in Items : Look(r, i)
    \/ SweepReads \/ SweepWrites
    \/ \E a \in Agents : ClaimEnds(a)
    \/ \E a \in Pausing : Pause(a)

Spec == Init /\ [][Next]_vars

\* Statements end; the sweeper and the poll of alerts fire again and again; time passes;
\* the bookkeeping of failed diagnoses succeeds again and again; a pause of a monitor ends,
\* and people neither decide nor run items by hand for ever.
Fairness ==
    /\ \A r \in Runners : WF_vars(Ends(r))
    /\ SF_vars(SweepReads \/ SweepWrites)
    /\ WF_vars(\E i \in Items : Lapse(i) \/ CoolsDown(i))
    /\ \A i \in Alerts : /\ SF_vars(Look("alerts", i))
                        /\ SF_vars(run["alerts"].item = i /\ FailCounted("alerts"))
    /\ \A a \in Monitors : []<>(a \notin paused)
    /\ <>[](run["manual"] = NoRun /\ \A d \in Deciders : request[d] = NoRequest)

FairSpec == Spec /\ Fairness

--------------------------------------------------------------------------------
(* Properties *)

\* Every variable has its type: no item has more attempts than max_attempts.
TypeOK ==
    /\ item \in [Items -> Item]
    /\ claim \in [Agents -> Claim]
    /\ prop \in [Proposals -> Status]
    /\ paused \in SUBSET Agents
    /\ run \in [Runners -> Run]
    /\ sweep \in Sweep
    /\ request \in [Deciders -> Request]
    /\ spent \in [Items -> 0 .. MaxAttempts]
    /\ stale \in BOOLEAN

\* Two agents never have proposals to decide on one target, whatever runs, sweeps and
\* decisions overlap: who takes a claim over expires what its owner proposed
\* (acquireTargetClaim, expireClaimOwnerActions), until a claim is released or an item
\* run on what is no longer so.
OneAgentProposes ==
    ~ stale => \A p, q \in Proposals : prop[p] = "pending" /\ prop[q] = "pending" =>
                   AgentOf(ItemOf(q)) \notin Rivals(AgentOf(ItemOf(p)))

\* A proposal to decide is waited for by its item and held by its agent's claim, whatever
\* reconcileTargetClaims releases and others decide, up to the same point: the ticket is
\* not offered to others meanwhile.
PendingIsHeld ==
    ~ stale => \A p \in Proposals : prop[p] = "pending" =>
        LET i == ItemOf(p)
            c == claim[AgentOf(i)]
        IN /\ item[i].status = "waiting" /\ p \in item[i].acts
           /\ c.held /\ ~ c.lapsed /\ c.owner = i /\ p \in c.acts

\* A diagnosis is given up no sooner than after max_attempts failures: what defers a run,
\* aborts it or runs beside it costs no attempt (acquireWorkItem, failWorkItem).
AttemptsPaid ==
    \A i \in Alerts : /\ item[i].status \in {"failed", "dead"} => item[i].tries <= spent[i]
                      /\ item[i].status = "dead" => spent[i] = MaxAttempts

\* An item that waits is decided, or resolved when its proposals lapse: a ticket is not
\* left out of the later polls for ever.
WaitingEnds == \A i \in Items \ Alerts : item[i].status = "waiting" ~> item[i].status # "waiting"

\* An alert is diagnosed or given up, however often its runs fail or are put off.
DiagnosisEnds == \A i \in Alerts :
    item[i].status = "queued" ~> item[i].status \in {"completed", "dead"}
================================================================================
