# KANAP: verification project

TLA+ models of the parts of KANAP (a multi-tenant IT management service: a NestJS API in
`src/backend`, PostgreSQL, a React client) whose correctness depends on the order in which
concurrent requests, jobs, processes and their database statements happen. Each module is
translated from the source; `PROJECT.json` ("map") names the lines each definition stands for.

## 1. The system

The API runs as one or several processes (`API_WORKERS`). Each request runs in one database
transaction of its tenant, at READ COMMITTED, on one pooled connection (`common/tenant-runner.ts`,
`common/tenant.interceptor.ts`). Services work on entities loaded in memory and store them with
TypeORM's `Repository.save`, which reads the row again and updates the columns in which the entity
differs from that read. Nothing compares the row with what the entity was loaded from: unless the
code takes a row lock or writes a conditional `UPDATE`, the last save wins. Beside the requests there
are cron jobs in every process, work left running after a response (`common/background-work.ts`),
and calls to providers (a ticketing system, models, Stripe, NetBox) that no transaction undoes.

### Inventory

| Component (under `src/backend/src`) | State | Operations | What is hard | What makes it correct |
|---|---|---|---|---|
| **AI action requests** `ai/control-plane/{action-request,approval,agent-control}`, sweeper | `ai_action_requests` rows (status, `metadata_json`), `ai_approvals` | approve, reject, dismiss, bulk approve, background execution, claim, write, baseline, sweep | saves of stale entities, provider write before the commit, crashes, deadlocks, retries | written at most once, only when approved; outcomes final; approved actions do not hang |
| **Scheduled tasks** `admin/scheduled-tasks`, `main.ts`, `common/graceful-shutdown.ts` | `scheduled_tasks`, `scheduled_task_runs`, session advisory lock, one cron job per process | tick, claim, manual run, stale check, drain, change of the task | processes that compete for a tick, a stop between two steps, a lost session | a tick runs once; runs do not overlap; no run is left running; the lock is released |
| **Agent work queue and target claims** `ai/control-plane/agent` | work items with leases, attempts; target states with claims | ingest, acquire, complete, release, reconcile | non-atomic release, unique violations inside a transaction, leases that end, retention | one agent proposes per target; its proposals are held by its claim; attempts bounded; nothing waits for ever |
| Dispatcher, registry, policy, emergency pause | runs, pauses, policies | resolve, gate, execute, pause | a pause between the check and the write | nothing is written after a pause is visible to the check |
| **Chat mutation previews** `ai/ai-mutation-preview.service.ts` | previews, plans, steps, their action requests | create, execute, reject, expire, advance the plan | row locks in id order, savepoints, dependent steps, unlocked expiry | an operation runs at most once and after its dependencies; the plan follows its steps |
| Built-in AI quota `ai/platform` | monthly counters | reserve a message | concurrent reservations | never above the limit |
| Authentication `auth` | refresh tokens, sessions | login, refresh, logout | — | left to other means |
| **Knowledge** `knowledge` | documents, edit locks, review workflows | acquire, heartbeat, release, force, save, request a review, approve, ask for changes, cancel | expiry and takeover between check and save, saves of stale entities, two participants at once | no edit is lost; nothing is published before everyone has decided |
| Edit conflicts `common/edit-conflicts.ts` | rows with `row_version` | locked update | two editors of a field | no edit is lost silently |
| **Sample data** `demo-data` | state in `tenants.metadata`, the rows a loader wrote | claim, load, heartbeat, take over, reset | dead and slow owners, late writes | a finished load is not erased; a reset workspace is empty; every load ends |
| Billing, freeze | subscriptions, freeze state | Stripe events, freeze, unfreeze | late, repeated, reordered events | the state of the newest event stands |
| NetBox, notifications, e-mail, cluster start-up, rate limits | external links, queues, counters | synchronise, notify, count | retries, several processes | no duplicates |
| Business records (portfolio, tasks, incidents, IT landscape, budget, master data), tenants, users, migrations, client, infrastructure | rows | CRUD | little protocol of their own | out of the plan |

The parts in bold are modelled (section 2). `PROJECT.json` lists the same components with their status, and "hazards" names the lines where the
code can go wrong in ways a test hardly reaches.

## 2. Modules

| Module | Models |
|---|---|
| `RowStore` | what the code relies on from PostgreSQL and TypeORM: visible versions, row locks, `save`, commit, rollback |
| `ActionExecution` | the AI action requests of one ticket |
| `ActionContract` | the abstract lifecycle they promise |
| `ActionRefinement` | the mapping of `ActionExecution` to `ActionContract` |
| `MCActionExecution`, `MCActionContract` | TLC instances; the second with the contract |
| `ActionExecutionProofs` | theorems about `ActionExecution` |
| `ActionContractProofs` | theorems about how often a ticket is written, and the contract |
| `ScheduledTasks` | one scheduled task in all API processes |
| `MCScheduledTasks` | its TLC instances |
| `ScheduledTasksProofs` | theorems about `ScheduledTasks` |
| `DemoDataLoads`, `MCDemoDataLoads` | loads, takeovers and resets of sample data, in all API processes |
| `DemoDataLoadsProofs` | theorems about `DemoDataLoads` |
| `KnowledgeDocuments`, `MCKnowledgeDocuments` | one document: its edit lock, its saves and its reviews |
| `KnowledgeDocumentsProofs` | theorems about `KnowledgeDocuments` |
| `WorkQueue`, `MCWorkQueue` | the work items of agents, the claims on their targets, the proposals they wait for |
| `WorkQueueProofs` | theorems about `WorkQueue` |
| `MutationPreviews`, `MCMutationPreviews` | one mutation plan of the chat: its previews, steps and action requests |
| `MutationPreviewsProofs` | theorems about the previews |
| `MutationPlanProofs` | the theorem about the plan's steps |

`MutationPreviews` and `ActionExecution` are built on `RowStore`. `WorkQueue` has a decision on a proposal as
a read and a later save, and what it does to the queue; the executions are those of `ActionExecution`.

### ActionExecution

The proposals of one agent run on one ticket (`Actions`, numbered in the order of
`bulkExecutionPhases`), handled by concurrent database sessions (`Sessions`).

* `row` holds the committed rows, `draft` and `lock` the uncommitted version of a row and the session
  that wrote it; a `Put` waits for the lock like an `UPDATE`. A row has `status`, whether `expires_at`
  is past (`exp`), `executed_at` (`at`) and the parts of `metadata_json` the code decides on:
  `execution_queued`, `execution_attempts`, the batch, the proposal's ticket version (`base`) and the
  recorded post-write baseline (`post`). `metadata_json` is one column: whoever saves it replaces all
  of it.
* `ses` is what each session is doing: the request or job (`kind`), its next statement (`pc`), the
  entities it loaded (`ent`) and the actions still to do. Every statement is a step of its own, so
  that any other session may move between a read and the save that follows it.
* `ver`, `edited`, `writes` are the ticket: its version, whether a person edited it, and how often the
  provider applied the write of each action. A rollback leaves them alone. `unread` are the actions
  prepared while the read of the ticket failed: they have no base (`ai-capability.registry.ts:2716`).
* `Decide` is approve, reject or dismiss of one action; `BulkRead`, `BulkSign` the bulk approval
  (stamp the batch, then approve each); `PlanRead` the plan of the background execution;
  `ReadApproved` to `Finish` the execution of one action (`executeSingleApprovedAction`): the
  conditional claim (`ClaimWon`, `ClaimLost`), the gate, the freshness check (`GatePasses`,
  `TicketStale`), the write (`WriteAnswered`, or `WriteUnanswered` when the answer is lost after the
  provider applied it), the re-basing of the siblings and the baseline; `AttemptFails`,
  `HandlerFails`, `AbortOne` its failures; `SweepRead` to `SweepBatch` the sweeper, expiry, pause,
  requeue, dead letter, backoff and batches included; `Commit`, `Crash`, `DeadlockVictim`, `Lapse`,
  `HumanEdit` what happens around them.
* `FreshEnough` is the decision of the freshness check: the version the proposal was made on, the
  recorded baseline of our own write, and the clock-based fallback (an executed sibling within five
  minutes, only where the provider's timestamps carry a zone: `ZonedClock`). An action without a base is
  never stale (`ai-capability.registry.ts:1915`). With those whose policy applies a stale action anyway it
  is `Unchecked`: a lost write of it is written again.

A single approval and a bulk approval differ, in the model as in the code, in one fact that matters:
only the bulk one marks its actions `execution_queued` (section 4, `ApprovedSettles`).

Facts the model made visible, that a reader of the code should know:

* A committed `executing` status does not exist (theorem `ClaimsStayPrivate`): the branch of the
  sweeper that requeues stale executing claims never finds one, short of a hand-made row.
* A sweep executes all its batches in the sweep's one transaction, where
  `doc/plaid-architecture.md` (around line 401) speaks of a transaction per action; a background
  execution does use one each.
* The race of `refusal_violation` has more outcomes. A second approval that read the action before the
  first one's execution committed saves it approved again, and a claim or a stamp that read
  `metadata_json` before a failed attempt was counted writes the older count back. A batch stamp that was
  read before a rejection undoes it (`ai-agent-control.service.ts:7255`).
* A plan stamps its actions in execution order while a sweep locks the lapsed ones it expires: the two
  can deadlock. PostgreSQL ends one; the model has that outcome (`DeadlockVictim`) and `QueuedSettles`
  holds with it.
* `WrittenOnce` holds for a checked action alone on its ticket. With two actions written concurrently the
  write of the first is, for the second, a change by KANAP, and a lost transaction can be followed by
  a second write; the five-minute fallback widens that window.

### ScheduledTasks

One task, in every process of `Procs`. `Calls` are the cron callbacks and `executeTask` calls, each
used once. `task` is the row of `scheduled_tasks`, `run` the row of each call, `lock` the call whose
session holds the advisory lock, `leaked` whether that session went back to the pool with it, `proc` the processes (state, cron job, coming tick), `adm` the
console's `updateTask` requests, `claimed` how often each tick was claimed (observed only by the
properties).

* `Boot`, `Listen`, `Stop`, `Drain`, `Interrupt`, `InterruptTask`, `Exit`, `Crash`: a process from its
  start to its stop, with the interruptions `drain` records at its deadline.
* `Fire`, `Claim`, `Reread`, `Adapt`: `runScheduledTick` and `claimTick`. A process may fire late; its
  tick is the scheduled time.
* `Enter` to `Unlock`: `executeTask`, `executeTaskNow`, `runLocked`, `runRecorded`, one step per
  statement. `Fails` and `FailsEarly` are a statement that fails at any of them; `LoseSession` is the
  database ending the session of the lock (a restart, an idle timeout), which frees it while the
  handler goes on.
* `UnlockFails` is a failing `pg_advisory_unlock`, which the code swallows
  (`scheduled-tasks.service.ts:286`): the connection returns to the pool with the lock. Later runs find the
  lock taken, unless they happen to get that connection in the same process (`Reuses`: a session takes a lock
  it has once more), until `SessionCloses`.
* `AdminRead`, `AdminSelect`, `AdminUpdate`, `AdminJob`: `updateTask`, with the save of the entity it
  read.

A cron expression is its period. `Day` and `Hour` are the code's one day and one hour in units of the
model's clock.

### DemoDataLoads

Sample data in a workspace is written by a loader process that an API process starts and that calls
the API as a client. The state lives in one key of the tenant's row and moves by conditional updates
on status, run and heartbeat.

* `demo` is that key, `rows` the loads whose rows the tenant holds, `txn` the run whose reset has
  `lockTenantReset`, `job` what the API process of each run is doing, `loader` and `flight` the loader
  process and its request in progress, `proc` the API processes.
* `Load` and `Claim`: the checks and the claim under the load limit; `Request`, `Written`,
  `LoaderEnds`: the loader's writes, refused by the tenancy middleware during a reset; `Mark` and
  `Move`: the end of a load; `StartReset`, `Reconcile`: a reset asked for, a takeover of a stale state;
  `Lock`, `LockRow`, `Purge`: `TenantResetService.reset`; `Settle`, `GiveUp`, `Restore`: its three
  ends; `Beat`, `GoesStale`: heartbeats; `Stop`, `Exit`, `Crash`, `Boot`; `ResetFails`, `StateLost`:
  statements that fail.
* Two assumptions are CONSTANTS because the code relies on them without ensuring them. `KeepsPace`: a
  living process writes its heartbeats within two minutes, except behind the row lock of a purge.
  `QuietLoads`: a loader that ended has no request left in the API. Without the first, a reset that was
  delayed and taken over can erase a later load (`LoadedIsWhole`); without the second, see section 4.
* The workspace is found empty in one transaction and claimed in another; what a user adds in between
  is mixed with the sample data. Users' own records are not modelled.

### KnowledgeDocuments

One document, `Users` who send one request at a time, `Reviewers` and `Approvers` among them.

* `doc` is the document's row (status, revision, text as the set of its edits), `lock` its row of
  `document_edit_locks` with whether it is live, `flow` its reviews with each participant's decision,
  `req` what each request has read, `seen` what each editor last got.
* `Begin` reads the document, `Check` the workflow and the lock; then `Acquire`, `Beat`, `Save`,
  `RequestReview`, `Decide` with `Keep` or `EndStage`, `RequestChanges`, `CancelReview` write.
  `Release` stands for a release and for a forced one, `Expire` for the five minutes without a
  heartbeat, `Load` for an editor that gets the document.
* No request takes a row lock before it writes, and `save` stores the entity it read; every two requests
  may overlap. `overlap` remembers that a request of a review has run next to a save or to another one:
  those write back the text they read, and `NoLostEdit` is stated up to then. `EveryoneDecides` needs no such
  condition. What fails is in section 4.
* `Decide` counts the decisions still pending; `Keep` and `EndStage` write, a step later. An approval that
  passes a review on to the approvers after it ended makes it active again, which `EveryoneDecides` survives.
* A heartbeat that read its lock before a release inserts the row again; the revision, not the lock,
  is then what keeps edits apart.

### WorkQueue

The help-desk agents of the instance watch one ticket and its monitors one sensor.

* `item` holds the work items (status, attempts, `next_attempt_at`, linked proposals), `claim` the
  claim columns of `ai_agent_target_states` per agent, `prop` the proposals (pending, approved, past their
  window but not yet expired, settled, purged), `run` the run in progress of each runner (the two polls, each
  one at a time, and a manual run), `sweep` what a sweep has read as over, `request` the decision each person
  has in progress, `paused` the agents under a pause or at their daily cap. `spent` (the failed diagnoses) and
  `stale` are observed only.
* A run is one transaction, so `leased` and `running` are never committed, and a failed run leaves
  nothing. `Look` is its reads, `Seize` its first write with the unique index on active claims,
  `Propose` and `Conclude` its outcomes. `FailCounted` is a failure whose attempt the alert poll writes again
  after the rollback, `FailLost` one that is not counted: of another poll, or when that bookkeeping fails,
  which the code only logs, or is rolled back with the poll.
* `Read` is a person who opens a proposal to decide on it; `Approve` saves `approved` over whatever became of
  it since, as `markApproved` does; `Settle` is a rejection, dismissal or execution, and `Resolve`, a step
  later, the release of the claim it compared before; `Close` a refusal or a failed request. Approved
  proposals may outlast the window of their claim (`approvalExpiryForAction`).
* `Enqueue` and `Renew` are the polls' detection, with the claim they take; `SweepReads` and
  `SweepWrites` the sweeper's expiry and reconciliation, a compare and a save apart; `Lapse`, `ClaimEnds`,
  `CoolsDown`, `Purge`, `Pause` time, retention and administration.
* Runs, sweeps and decisions overlap, on one target as on others; `MaxAtOnce` bounds how many. Three writes
  rest on what need not be so any more, and set `stale`: a run seizes an item that was run meanwhile, or
  takes a claim with proposals it has not read; a decision, or a sweep, releases a claim that is held again.
  After one of them `OneAgentProposes` and `PendingIsHeld` fail (section 4): they are stated up to the first.

What the model shows of the code:

* The higher `agent_priority` wins a target (`ai-agent-work-queue.service.ts:2548`,
  `doc/plaid-architecture.md:384`); the help page (`doc/help/docs/en/agents-workspace.md:185`) and the
  client's label (`locales/en/agents.json:801`) say the lower number does.
* The alert poll counts a failed attempt again after the rollback of its run; the help-desk poll does
  not (`ai-agent-helpdesk-ticketing-ingestion.service.ts:817`): a triage that always fails is retried
  without end. `AttemptsPaid` and `DiagnosisEnds` are stated for alerts.
* An approval that was read before a run of a stronger agent expired the proposal saves it approved again
  (`ai-action-request.service.ts:519`): it is live and executed though another agent has the ticket. The
  properties are therefore about pending proposals (section 4).
* The deferral and the dead letter that `acquireWorkItem` saves before it throws are always rolled
  back with it.
* `reconcileTargetClaims` skips paused and capped agents: their lapsed claims keep their place in the
  unique index, and others' runs fail on it until the pause ends.

### MutationPreviews

One plan, made, with the previews of its first steps pending; batches of approvals and rejections from
`Sessions` windows.

* Keys of `row`: previews, their action requests, the plan's steps, what each operation wrote (`Op`:
  not, once, twice), the plan. `draft` and `lock` are the uncommitted versions (`RowStore`); `old` is
  whether `expires_at` is past; `ses` the requests, with the savepoint of the operation in `back`.
* `Begin`, `Sign` (the action requests, in the order given), `Lock` (`lockPreviewsInIdOrder`), `Take`
  (the decision on what is read under the lock), `Operate` and its failures, `FailsLate` (an error after
  the operation, rolled back to the savepoint), `Mark`, `Advance`, `Block`, `Close` (the plan),
  `Commit` (with the marks of the action requests), `Abort`. `ExpireStale` is the scheduled expiry, an
  `UPDATE` without the batch's locks; `Age` the passing of `expires_at`.
* The row locks of one advance are taken in one step, so a deadlock between two advances is an `Abort`.
* `Blocked` is the waiting steps that a failure blocks, through any number of dependencies: the least set
  that leaves out no dependent of its own, which is what the code's repeated passes over the plan reach.

What the model shows of the code, beside `busy_violation`:

* Two requests that approve the two dependencies of a step at the same time do not see each other's
  execution: the dependent step waits for ever. `PlanFollows` is stated for requests that do not overlap.
* The expiry of a preview moves no step: its step stays ready and its plan active.
* A batch saves the action requests in the order given before it locks the previews in id order, so two
  batches in opposite orders can deadlock, which the comment at
  `ai-mutation-preview.service.ts:727` sets out to avoid.
* The rejection of a preview already executed records its action request as rejected.

## 3. Runs

| Run | Question | Instance |
|---|---|---|
| `execution_one` | Is a proposal alone on its ticket written at most once (`WrittenOnce`), never in progress in a committed row (`ExecutingIsPrivate`), reported executed only if it was written (`ExecutedWasWritten`)? Do claims exclude each other, does an approved status rest on an approval? Types. | 1 action, with and without a base, 2 sessions, every request and the sweeper, 2 requests, 2 crashes, 3 versions |
| `execution_two` | Do claims exclude each other (`ClaimIsExclusive`) and do approved and executed statuses rest on a committed approval (`ApprovedIsBacked`) with two proposals and the batches they form? | 2 actions, the second with and without a base, 2 sessions, 2 requests of any kind, without the sweeper |
| `execution_contract` | Does the code implement `ActionContract` when its requests run one at a time (`KeepsContract`)? | 2 actions, the second with and without a base, 1 session, 2 requests (approve, reject, bulk), sweeps, 2 attempts, 1 crash |
| `execution_liveness` | Does a queued approval settle (`QueuedSettles`)? | 2 actions, 1 session, 1 request, unbounded sweeps, 2 attempts, 1 crash |
| `tasks_runs` | Is a tick claimed once (`TickRunsOnce`)? Do runs never overlap (`RunsAlone`)? Does a recorded success stand (`SuccessStands`)? Types. | 2 processes, 2 calls, 3 instants, runs stale after one of them, stored tick up to four instants ahead, 1 stop or crash, 1 failing statement |
| `tasks_lock` | Does no run keep the lock (`LockReleased`: it is released, or left with a pooled session by an unlock that fails), with an administrator who disables or reschedules the task? | 1 process, 2 calls, 2 crons, 1 request, 1 failing statement, the unlock included, or lost session |
| `demo_loads` | Does a finished load keep its rows (`LoadedIsWhole`)? Is a reset workspace empty and staying so (`IdleIsEmpty`)? Is a failure never passed over (`IdleWasAsked`)? Does every load and reset end (`StateSettles`)? Types. | 1 tenant, 2 processes, 4 run ids, used again once nothing refers to them, 1 stop, crash or failing statement; loads, resets and takeovers unbounded |
| `knowledge_reviews` | Does a review end approved only once every reviewer and approver has decided (`EveryoneDecides`)? Is no saved edit overwritten unseen (`NoLostEdit`)? Types. | 2 users, both reviewers, one an approver as well, 2 edits, 2 reviews; any requests overlap |
| `work_queue` | Does one agent have proposals to decide per target (`OneAgentProposes`)? Are they waited for and held (`PendingIsHeld`)? Is no attempt counted that was not made (`AttemptsPaid`)? Does nothing wait for ever (`WaitingEnds`, `DiagnosisEnds`)? Types. | 2 triage agents, the second senior and with up to 2 proposals, the first sometimes paused; 1 monitor; to come are an alert, two items of one agent or one item each of two; 2 attempts; 1 person; 2 runs, sweeps or decisions at once |
| `previews` | Is an operation applied exactly when its preview is executed, and once (`ExecutedWasApplied`)? After its dependencies (`AfterDependencies`)? Do decisions stand (`DecisionStands`), does the plan follow (`PlanFollows`), is the record true (`ExecutedIsRecorded`)? Types. | 4 steps (two roots, one that needs both, one that needs that one), 2 sessions, batches of 1 or 2, 3 requests, 1 abort |

Bounds. Two sessions are enough for every race of the code: each is a read and a write of one session
with writes of another in between, and no guard counts sessions. Two actions give the batch order, the
re-basing of a sibling and deadlocks; one gives the exact count of writes. `MaxVersion` leaves room for
the versions of both writes and for one or two edits. `MaxAttempts` (5 in the code) is 1 or 2, enough
for a retry and a dead letter. `MaxReviews` and `MaxCrashes` bound the requests and the killed sessions;
sweeps are not bounded. For the tasks, two processes and two calls give every competition for a tick and
for the lock; the instants leave room for a second tick, a late callback and a stale run; one process is
enough for the lock's release, which a stop or a crash only makes easier;
`MaxStops` and `MaxFaults` bound stops and failing statements. The theorems of section 5 hold for every
value of these bounds that their hypotheses allow.

Four run ids leave room for a load, the takeover that resets it, the takeover of that one and a later
load at the same time. With one tenant the limit on concurrent loads never counts another one: `Claim`
has the guard, the run does not exercise it. Two edits and two reviews give the overwritten edit, the
second stage and a review after a review. One ticket and one sensor are enough, since claims of different
targets do not meet; two triage agents of different priority give the takeover and the deferral, and
two proposals of one item the set decided in part. Two transactions at once give every race between a
read and a write. The items not to come are completed already. The run stops at the first write that sets
`stale`, where its two ownership properties end; the liveness of the run, too, is that of behaviours without
such a write. Four steps give a join and a chain, which are what
`Blocked` and `Ready` tell apart; three requests leave one after two that overlap.

`CHECK_DEADLOCK FALSE` is set where the instance really ends: no sweep in `Kinds`, every call used,
every request of a plan made, every item run, or the first write that sets `stale`.

Fairness. `QueuedSettles`: a session that is not killed executes its next statement (`WF` of `Step`);
the sweeper's cron keeps firing (every ten minutes); pauses, frozen subscriptions and retry backoffs end
again and again (`SF` of the sweep steps without a hold), as backoffs are finite and pauses are lifted by
people. `LockReleased`: the statements of a call are answered and handlers end (`WF` of `RunStep`); a
handler that never ends keeps its lock in the code too. Nothing is assumed about cron callbacks, requests
or crashes.

`StateSettles`: the statements of a run are answered, a loader ends at its time limit and its request
with it, a process that stops exits at its deadline and is started again, two minutes without a heartbeat
pass, and the sweep of the lead process takes over again and again what is stale (`SF`, since a state
can be fresh in between). `WaitingEnds` and `DiagnosisEnds`: runs end, the sweeper and the alert poll fire
again and again, approval windows and retry delays end; the bookkeeping of failed diagnoses succeeds again and
again (`SF` of `FailCounted`), each failure that is lost costing a retry; a monitor is again and again not
paused; and people do not decide or run items by hand without end, which only keeps the two transactions of
the bound busy.

## 4. Findings

Two runs must be found violated; each contradicts a line of the repository (`PROJECT.json`, "findings").

| Run | What happens |
|---|---|
| `refusal_violation` | A rejection commits between the read and the save of an approval (`ai-approval.service.ts:221`): the rejected action is approved, where line 189 says that it cannot be. |
| `busy_violation` | The plan's advance finds its data busy after the operation of a preview has run. The rollback to the savepoint undoes the operation, but the entity in memory already says `executed` and is saved: the preview can never be approved again and its plan does not move, where `doc/architecture.md:300` and the comment above the code say that it stays pending. |

### What fails without an assumption

These properties are stated in their modules and do not hold of the code in general; TLC finds the
counterexample with the constants given here (the others as in the run of the same module).

| Property | Instance | What happens |
|---|---|---|
| `HumanEditsSeen` | 2 actions, 1 session, `Kinds = {"bulk"}`, 1 attempt, 4 versions, 1 request, no crash | A person's edit between our write and the read of its baseline (`ai-capability.registry.ts:3005`) becomes the baseline, and the sibling passes the freshness check over it. |
| `ApprovedSettles` | 1 action, 1 session, `Kinds = {"approve", "sweep"}`, 2 attempts, 1 request, 1 crash, `MCFairSpec` | A single approval is never marked queued: if the process stops before its background execution, no sweep resumes it (`doc/plaid-architecture.md:406` describes the resumption of approved actions). |
| `TickRunsOnce` | `tasks_runs` with one administrator, no stop, no fault | `updateTask` read the task before a tick was claimed: its save (`scheduled-tasks.service.ts:382`) writes the older `last_tick_at` back and the tick is claimed again; `doc/architecture.md:229` says a tick runs once. |
| `StopSettles` | 1 process, 1 call, 1 stop | A run that passed `executeTask`'s check inserts its row after `drain` recorded the interruptions: it stays running, against the comment at `scheduled-tasks.service.ts:207`. |
| `NothingSurvives` | `demo_loads` with `QuietLoads = FALSE` | A write request of a loader that was killed was admitted before the reset and commits after the purge. The comment at `demo-data.service.ts:1064` says that no request is left. |
| `LockFreed` | `tasks_lock` | An unlock statement fails and is not repeated: the session keeps the lock in the pool, and every later run is skipped until the pool closes the session (`scheduled-tasks.service.ts:286`). |
| `ChangesStand` | `knowledge_reviews` | An approval and a request for changes overlap: the approval's save wins and the document that was sent back is published (`doc/help/docs/en/knowledge.md:275` to 285). |
| `ReviewIsFrozen` | `knowledge_reviews` | A save that passed its checks before the review was requested writes over the document in review (`knowledge.service.ts:4468`; `doc/help/docs/en/knowledge.md:285` to 287). |
| `ReviewEnds` | `knowledge_reviews` under `FairSpec` | Two last approvers each count the other one as pending: nobody is left to decide, and the review stands for ever (`knowledge-workflow.service.ts:317`). |
| `NoLostEdit` without `~ overlap'` | `knowledge_reviews` | The request of a review, or its end, stores the text it read over a newer one. |
| `WaitingEnds` | `work_queue` with `Purges = TRUE`, one agent | One of an item's proposals is decided and purged by retention while the other is still open: the item is never found resolved (`ai-agent-work-queue.service.ts:1298`). |
| `PendingIsHeld` without `~ stale` | `work_queue` with `Spec` in place of `MCSpec` | A sweep reads a claim as over while a run of its owner is about to hold it again, and releases it after the run (`ai-agent-work-queue.service.ts:2317`). `doc/plaid-architecture.md:435` to 440 names `releaseTargetClaim` among the mechanisms that stand against races. |
| `OneAgentProposes` without `~ stale` | the same | Two agents' runs look at the ticket; the first proposes, and the second takes its claim away with the proposals it had read, which leaves the new one pending. Or the poll and a manual run of one item read it before either commits, and the second overwrites the outcome of the first. |
| `OneAgentProposes`, `PendingIsHeld` for approved proposals too | `work_queue` | An approval read before its proposal expired, by a run that takes the claim over or with its window, is saved over the expiry: the proposal is live without a claim. |
| `WrittenOnce` for actions without a base | `execution_one` | A proposal prepared while the ticket could not be read passes the freshness check after a lost write and is written again. |
| `WrittenOnce` | `execution_contract`'s module, 2 sessions, `Kinds = {"approve"}`, 1 attempt, 3 requests | Section 2: a write is lost after a sibling passed its check, the sibling's write is recorded, and the first one is then taken for a change by KANAP. |
| `RunsAlone` | `tasks_runs` with `KeepsSession = FALSE` | The database ends the lock's session under a handler that goes on; a second run starts beside it. |
| `LoadedIsWhole` | `demo_loads` with `KeepsPace = FALSE` | A reset that a live process was slow to confirm is taken over, and erases the rows of a later load. |
| `IdleIsEmpty` | `demo_loads` with `QuietLoads = FALSE` | As for `NothingSurvives`. |
| `KeepsContract` | `execution_contract` with `ZonedClock = TRUE` | A proposal whose write was lost with its transaction passes the freshness check again, because a sibling was executed within five minutes. Proposals without a base, and those whose policy applies a stale action anyway, do so with any clock: the contract promises nothing about how often they are written. |
| `PlanFollows` without `~ overlap` | `previews` | Two overlapping approvals of the dependencies of one step leave it waiting. |

## 5. Proofs

TLAPS checks these for every value of the constants that satisfies the modules' assumptions (positive
numbers of actions, attempts and versions; distinct names; crons with a positive period; participants among
the users).

`ActionExecutionProofs`:

* `Inductive`: the inductive invariant `IInv`. The properties are not inductive by themselves: a stale
  entity in some session's memory, saved later, could break each of them. `IInv` therefore has two parts
  beside the types. `RowInv` says what a row may hold, committed and in its lock holder's draft: a draft
  is the row unless someone holds the lock; only the session inside the handler has an `executing` draft;
  an approved draft has a committed approval or one its holder is about to commit; a write follows an
  approval. `SessionInv` says what a session may carry: entities that are never `executing`, that are
  approved only with an approval committed or its own, and executed only after the write; inside the
  handler, the lock and the approval of the action in hand; when it is about to sign a batch, the locks of the
  rows it stamped. One lemma per action shows it is kept, under general lemmas for a step that
  moves one session, writes one row or rolls back.
* From it: `TypeCorrect`, `ClaimsStayPrivate`, `ExecutedMeansWritten`, `ApprovalsBackStatus`,
  `ApprovedBeforeWritten` (nothing is written without a committed approval) and `ClaimsExclude`.

`ScheduledTasksProofs`:

* `TypeCorrect`: the types, one lemma per group of actions. They include that a tick which fires stays
  in range.
* `TicksClaimedOnce`: if nobody edits the task, a tick is claimed once. The invariant `ClaimInv` adds that
  every claimed tick is at most the stored one and the stored one is past, and that a call about to claim
  has a tick that is due: so the escape for a stored tick more than a day ahead never re-opens a claimed
  tick. With an administrator the property fails (section 4).
* `RunsNeverOverlap`: if the database keeps the lock's session, runs never overlap; the invariant is that
  a call between the lock's answer and its release owns the lock, and a lock left in the pool is that of a call
  which is over. The assumption is needed: a session
  the database ends frees the lock under a handler that goes on, and a second run starts beside it.
* `RecordedSuccessStands`: a step property, from the types and from the guards of the two statements that
  write other runs' rows.

`ActionContractProofs`:

* `LoneActionOnce` (`NumActions = 1`): a checked proposal alone on its ticket is written at most once, whatever
  crashes, answers and requests are lost. `ExecutedWasWritten` counts nothing; the argument here is about
  baselines. Nothing re-bases a single action, so its recorded baseline stays the version it was prepared on
  (`Based`), in the row, in the draft and in every entity a session carries; each write makes a later
  version, and none comes between a check that passed and its write, because the claim is exclusive (`IInv`
  above). The hypothesis is needed: with a sibling, the branch of the freshness check for KANAP's own
  writes accepts the change a lost write made (section 2).
* `ContractKept` (one session, `ZonedClock = FALSE`, any number of actions, any policies, any bases left
  unrecorded): `ActionExecution` implements `ActionContract` under the mapping of `ActionRefinement`. An answer
  of the provider maps to the contract's write, a commit to its move, every other step to a stutter. A commit
  makes a draft the row, and a write happens before its transaction commits, so the simulation needs the
  invariant `CInv`. Its part `Rows` says that a draft is at most one move of the contract from its row, and
  that once a write was lost, every recorded baseline is older than the ticket for good, as long as nothing
  unchecked was written: no later check passes. `Tracks` says what the session may carry for that to stay so.
  Both hypotheses are needed: two overlapping requests undo a rejection (`refusal_violation`), and a zoned
  clock lets a proposal pass the check that a lost transaction had already written.

`DemoDataLoadsProofs`:

* `TypeCorrect`, and `IdleAsked`: a tenant returns to its starting state only by a reset an
  administrator asked for. Neither needs an assumption. The invariant `Causes` follows the error of a failed
  load from the tenant's row into the job of the run that resets it, and through a takeover.
* `LoadedStaysWhole`, if living processes write their heartbeats in time (`KeepsPace`): a tenant shown as
  loaded has the rows of that load. `IdleStaysEmpty`, if an ended loader writes nothing more (`QuietLoads`): a
  tenant in its starting state has none. Neither needs the assumption of the other. Nothing but status,
  run and heartbeat in the row tells a run whether the tenant is still its own. Each part of the invariant
  `IInv` that needs an assumption carries it: with heartbeats in time, a run that loads or erases is never taken
  over (`Undisturbed`); with quiet loaders, a loader is that of the load shown (`LoaderOwned`). Without any,
  one taken over has nothing left to do but a write whose condition fails, and `RowsKnown` says what the
  rows are by the time a run writes its final state.

`KnowledgeDocumentsProofs`, whatever requests overlap:

* `TypeCorrect`: the types, and that one review is active at most; that a revision is at most the number of
  edits made is `Counted`.
* `EditsSurvive`: no save overwrites an edit its user has not seen, as long as no request of a review has run
  next to a save or another (`overlap`). A save compares the revision its editor has with the one it read, not
  with the row it writes over. The invariant `IInv` says why that is enough: a save that read the row and whose
  user still holds the lock has read the current row (whoever else saves in between would have had to hold it),
  a checked save has its lock until it writes because no lock ends under a running request, a request of a
  review has the text of the row, and an editor with the current revision has the current text.
* `EveryoneHasDecided`: a review ends approved only once every reviewer and approver has decided. The decisions
  are counted one step before the stage ends and saved over what was committed since, in whatever order. The
  invariant `RInv` says that no decision of a requested review returns to pending, that a review at the
  approvers' stage, or a decision taken for that stage, has every reviewer's decision, and that an approval about
  to end its stage is the last one missing there.

`WorkQueueProofs`, whatever runs, sweeps and decisions overlap:

* `TypeCorrect`; no item has more attempts than `max_attempts`.
* `AttemptsStayPaid`: a diagnosis has no more attempts than it failed, and is given up after `max_attempts`
  failures, no sooner. `Paid` says so of every alert that is queued, failed or given up: a run that was
  overtaken, deferred or rolled back and not counted again costs nothing.
* `PendingStaysHeld` and `OneAgentStays`: a proposal to decide is waited for by its item and held by its agent's
  claim, and two agents never have such proposals on one target, until a write rests on what is no longer so.
  The invariant is `stale \/ Board`. `Board` adds that an agent has one active item and a target one claim
  held, that each pending proposal is kept by both (`Kept`), that a run which works has read every proposal
  of the claims it takes away and nobody else's is left (`Cleared`), and that a decision about to release a
  claim has no proposal of that item left to decide (`Closing`). Each step keeps `Board` or sets `stale`,
  which stays (`StaleStays`). The hypothesis cannot be dropped: section 4 has the two traces.

`MutationPreviewsProofs`, for plans of any size and dependencies:

* `TypeCorrect`; `DecisionsStand`: a committed decision on a preview, or its expiry, is never taken again or
  undone; `ExecutedRecorded`: an action request recorded executed has an executed preview; `AfterDeps`: an
  operation is written only after those its step depends on. All whatever errors undo an operation: the step
  of a preview that is saved as executed without its operation is never marked, so nothing follows it.
* `ExecutedApplied`, if no error after the operation finds its data busy (`busy_violation` is the case that is
  excluded): a preview is executed exactly when its operation was written, and once.
* The invariant `IInv` says of each request that what it sees, committed rows and its own, is sound: in the
  order of the plan and, in the rows it holds, not contradicting a decision that another committed.
  Each view is sound by itself, which says nothing yet of a request that commits under
  another; `SoundCommitted` closes the gap, because the order relates the rows of two steps only through
  decisions and operations, which stand. A savepoint remembers what was sound.

`MutationPlanProofs`:

* `PlanFollowed`: as long as requests come one at a time, a waiting step waits for one that has not ended, and the
  plan is closed exactly when no step is left. Within a request the rows are out of step for a while; the
  invariant `Alone` says which of the facts they have at each statement, and that a savepoint has them
  all. That `Blocked` is a least set is what the step of `Advance` needs, in place of an induction.

Every safety property of the passing runs, invariants, action properties and the refinement, is thus a
theorem. Where one has a hypothesis or a condition, it is needed: section 4 shows what happens without it. Only
model-checked are the liveness properties (`QueuedSettles`, `LockReleased`, `StateSettles`, `WaitingEnds`,
`DiagnosisEnds`): liveness under fairness is out of the prover's reach.

## 6. Not modelled

* Of the action requests: the option that approves without executing (no client sends it), automatic
  approval by policy, the failure of a sibling's save inside a sweep and the limits on how many actions a
  sweep reads. GLPI notes report `alreadyApplied: false`, so nothing but the freshness check stands against
  a second note: the provider of the model behaves that way for every write.
* Of the scheduled tasks: the pruning of runs older than 90 days, the insertion of a task by the first
  process that starts, and the other services that drain at a stop. Several tasks do not interact: their
  rows and locks are their own. A process restarts as often as it stops; each call and request occurs once.
* Of the sample data: the banner, the start of an activated trial, the tables a reset purges.
* Of the knowledge base: versions and reverts, managed (integrated) documents, folders, libraries, access
  rights, attachments.
* Of the work queue: whether a target is ready (cooldowns, occurrences), automatic executions, the
  counting behind the daily cap, the configuration of agents. A pause of the whole tenant is a pause of each
  agent. A manual run queues and runs an item in one transaction, which `Enqueue` and `Look` have as two.
* Of the previews: their creation at the start of a plan, equivalent previews, the reverse preview,
  `executePreview` outside a batch, and the locks an advance takes one by one.
* Authentication, on purpose: tokens and sessions are a matter of security, left to other means.
* Everything whose only protocol is one statement or one row lock: item numbers, the built-in quota,
  `edit-conflicts.ts`, the emergency pause, the start-up lock.
* All other components of section 1, for the reasons in `PROJECT.json`: most of the repository is records,
  validation, SQL and screens without a protocol between requests.

## 7. Plan

1. `Subscriptions`: Stripe events against what the service reads back, and the freeze of a tenant.
2. A liveness property of the jobs of `ScheduledTasks`: a task that is enabled has its job in every process.
3. `WorkQueue` composed with `ActionExecution`, so that the execution of a proposal is its statements too.
