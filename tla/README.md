# Vashandi control plane: specifications

TLA+ modules for the control plane of this repository, the TLC configurations
that check them on small instances, and proofs that TLAPS checks for every size.
Paths are relative to `src/vashandi/` unless they say otherwise; `heartbeat.ts`,
`issues.ts`, ... are files of `server/src/services/`, `heartbeat.go`, ... of
`backend/server/services/`.

The control plane runs companies of AI agents: it wakes agents up, runs their
programs ("heartbeat runs"), hands out issues, sends them through review, counts
what the runs cost and stops what exceeds its budget. It exists twice. The Node
server in `server/src` is the program the documentation and the tests describe; the
Go backend in `backend` ports it and differs where it matters here, above all in how
it starts runs and records costs. Both are one process over a Postgres database,
almost without transactions: between two statements (two awaits, two goroutine
steps) any other request, timer or run may go on, and a crash keeps the rows and
loses everything else. That is what the modules are about.

## 1. Inventory

| Component | State | Operations | What is hard |
|---|---|---|---|
| Issue execution (`heartbeat.ts`, `index.ts`) | `heartbeat_runs`, `agent_wakeup_requests`, `issues.executionRunId`; in memory the child processes, `activeRunExecutions`, `startLocksByAgent` | `enqueueWakeup`, `startNextQueuedRunForAgent`, `claimQueuedRun`, `executeRun`, `releaseIssueExecutionAndPromote`, cancellations, pauses, budget stops, `reapOrphanedRuns`, `resumeQueuedRuns` | one run per issue at a time, the others deferred behind it; every end of a run must hand over; calls that await one another under a lock |
| Issues and their policy (`issues.ts`, `issue-execution-policy.ts`, `routes/issues.ts`) | status, assignee, checkout run, execution policy and state, decisions | PATCH, checkout, release, adoption of a stale checkout, reopening comment | the transition is decided on a row read earlier; policies are edited while a stage is pending |
| Budgets, approvals, agents (`budgets.ts`, `approvals.ts`, `agents.ts`, `costs.ts`) | policies, incidents, approvals, the agent's status and pause reason | record a cost, edit or raise a budget, dismiss an incident, decide or send back an approval, pause, resume, terminate | no transaction: look, insert, pause and resume are separate statements of concurrent requests |
| Plugin host (`plugin-worker-manager.ts`, `plugin-loader.ts`, `plugin-lifecycle.ts`) | `plugins.status`; workers, start locks, processes, pending calls, backoff timers | enable, disable, restart, upgrade, uninstall, start, stop, exit, call | exits race with starts, stops and answers; handles outlive their registration |
| Routines (`routines.ts`, `issue-assignment-wakeup.ts`) | triggers, `routine_runs`, execution issues | tick, manual run, dispatch, claim, follow an issue's status | a trigger claimed by a stale row; a transaction that waits for work committed outside of it |
| Company joins (`routes/access.ts`, `access.ts`) | invites, join requests, memberships, grants, API keys | accept, replay, approve, reject, claim a key, revoke | each approval is five statements that may fail in the middle |
| Heartbeat runs of the Go backend (`heartbeat.go`, `heartbeat_wakeup.go`, `budget_enforcement.go`) | `heartbeat_runs`, wakeup requests, agent status, `budgetRunCancels` | wakeup, claim, execute, resume, reap, hard stop | goroutines load a row, work, and save the whole row |
| Budgets of the Go backend (`costs.go`, `budget_enforcement.go`) | cost events, policies, incidents, spent columns | `CreateEvent` and its hook, set a budget, resume | READ COMMITTED transactions do not see each other's events |
| Plugin workers of the Go backend (`plugin_worker_manager.go`) | handles, start locks, processes, timers | start, stop, restart, exit | mutexes released between the steps |
| Plugin jobs and events, workspace runtime, realtime, OpenBrain, secrets, authentication, portability, documents, storage, adapters, schema, UI, CLI | see `PROJECT.json` | | not modelled: section 8 |

How they interact:

* A comment, an assignment, a mention, a routine or a timer calls `enqueueWakeup`.
  If a run holds the issue, the wakeup is deferred behind it; otherwise a run is
  queued and its agent's next runs are started.
* A run works through the API: it checks its issue out, PATCHes and comments on it,
  reports costs. A PATCH goes through the issue's execution policy, which may hand
  the issue to a reviewer instead of closing it.
* A cost that reaches a budget pauses its scope and calls `cancelWorkForScope`, which
  cancels the scope's runs; a raised budget resumes it. An approval may hire an
  agent, with a budget.
* A routine's dispatch creates an issue and wakes its assignee inside its own
  transaction; the end of the issue is followed by the routine's run.
* `index.ts` reaps at start and then on a timer, which also drives the queue.

## 2. Plan

Done: the six modules of the Node server and the three of the Go backend in
section 3. What is left, most valuable first:

1. `PluginJobs`: `triggerJob` looks for an overlapping run before its awaits
   (`doc/plugins/PLUGIN_SPEC.md:835` excludes overlaps), `unregisterPlugin` forgets the
   running jobs, `completeRun` and `markRunning` write without a condition. It composes
   with `PluginHost`, whose worker it calls.
2. `WorkspaceRuntime`: services started once per key, leases, adoption after a restart,
   with a lease as its abstract specification.
3. The calls of the Go plugin workers with their pending table, and the wakeup intake of
   the Go backend (keys, scopes, coalescing).
4. The company and project scopes of `Governance`, and its composition with
   `IssueRuns`, where a budget stop is one boolean now.
5. Proofs: none is left of the invariants the runs check; those of the modules above.

Abstract specifications with a refinement: `RunQueue` (of the Go runs) and
`BudgetStops` (of the Go ledger). The Node server's components have no simpler
specification they implement as a whole: their promises hold with the exceptions
section 7 lists, so they are stated as properties with these exceptions named.

## 3. Modules

Every `MC` module only gives values to constants and symmetry sets. In the modules of
the Node server a step is what happens between two awaits, and two awaits in a row
whose order nobody can tell apart are one step.

### IssueRuns

A call in progress is a thread, and `stack[t]` the chain of functions that await one
another (`Frame`: where it stands, its run and agent, the runs it still has to go
through). Threads are the wakeups, the executions, the cancellations, the pauses, the
budget stop, the timer and the reaper at start. `run`, `lock` (with `lockName`) and
`wake` are the rows; `startLock` is the chain of promises in `startLocksByAgent`.

`WakeIssue` and `WakeMention` are the branches of `enqueueWakeup`; `StartPick`,
`ClaimRun`, `ClaimStamp`, `ClaimRefused`, `StartRuns` are `startNextQueuedRunForAgent`
under `withAgentStartLock`; `ExecBegin`, `ExecReturn`, `ExecRecord`, `ExecRelease` are
`executeRun`; `Release` is `releaseIssueExecutionAndPromote`, called by whatever ends a
run; `ReapSkip`, `ReapFail`, `ReapSettle`, `ReapResume` are the reaper with its retry of
a lost child; `CancelSet`, `PauseNext`, `BudgetNext` the three ways to cancel.

Abstracted: the reads and the transaction of a wakeup are one step (the transaction
locks the issue's row); succeeded, failed and timed out are "finished"; the setup
before the child is spawned is part of `ExecBegin`; the tick comes when the reaper at
start is over; the agent's idle, running and error states, wakeups without an issue
and the deletion of agents are left out. That the service has several instances
is kept (`home`), because the reaper knows the executions of its own only.

### IssueWorkflow

One issue. `issue` is its row with policy and execution state; `request[k]` is a
request in flight with what it has decided; `decisions` is `issue_execution_decisions`.
`Transition`, `AtStage`, `OpenStage`, `Approve`, `RequestChanges` are
`applyIssueExecutionPolicyTransition`, evaluated by `PatchRead` on the row as it is
read; `PatchWrite` writes the resulting patch to the row as it is then. `AssertOwner`
is the check of the checkout in between, which adopts a stale one, for a PATCH and for
a release; `CheckoutClear` and `CheckoutTake` are the checkout, by a run or by a user, of an
issue nobody has or a user is assigned to; `ReleaseRead`, `ReleaseCheck` and `ReleaseWrite`
the release. The runs are an environment that starts, ends and lets go of the lock.

Abstracted: backlog, todo and blocked are "todo"; `svc.update`'s own read and write are
one step; refusals for permissions are left out; a stage needs one approval, as in
the code (`approvalsNeeded: 1`).

### PluginHost

One plugin. `handle[h]` is a `PluginWorkerHandle`, made by each start; `proc[p]` a
process; `thread[t]` a lifecycle request, a handle's restart or a call. An event
settles promises, and what awaits them (`Goes`) goes on before the next event, in any
order when there are several. `StartInternal` to `StartEnds` are `startInternal`,
`StopInternal`, `StopGoesOn` and `StopReturns` the escalation of a stop, `ProcessExit`
the exit handler with its backoff, `BackoffOver` the timer; `LifecycleRequest`,
`Activate...`, `Deactivate...` and `MarkError` are the loader and `plugin-lifecycle.ts`.

Abstracted: packages and manifests; what calls return; an error of `spawn` without an
exit; the shutdown of the server.

### Routines

One routine with a schedule that falls due at every instant. `caller[t]` is a tick or a
manual request: `DueRead` and `Claim` are the tick, `Receive` to `Finish` the dispatch
under the lock of the routine's row, `Fail` its catch. `issue[r]` and `beat[r]` are the
issue and the heartbeat run that run `r` made, committed on other connections;
`start` is the heartbeat start, whose `ClaimConflicts` is the unique index on live
execution issues (`packages/db/src/schema/issues.ts`). `PatchIssue` is the edit of an issue
with `syncRunStatusForIssue`, `UpdateRoutine` the edit of the routine's status and policies.
What makes an idle issue live again is there too: the retry of a lost run (`Reap`, `Retry`),
the wakeup of a comment (`CommentWakes`) and the promotion of one deferred while the issue
was executed (`CommentDeferred`, `Promote`), whatever the routine has dispatched meanwhile.
`run[r].policy` is the policy that let a dispatch go ahead, `again` what may come back
and, as a history, which issues have come back beside a younger one.

Abstracted: cron expressions (the next instant), variables, webhooks, one assignee; one
heartbeat run of an issue at a time; an agent that may not be woken when its wakeup is
promoted is left to `IssueRuns`.

### Governance

One agent, its hire's approval, its policy. `thread[t]` is a request, its `at` the
statement it is about to run: `CreateEvent` to `PauseScopeForBudget` record a cost and
evaluate it, `UpsertPolicy` and `RaiseBudget` to `ResolveOpenIncidents` edit and raise a
budget, `Decide` to `Hired` and `TerminateRejected` decide the hire, `SendBack` is
`requestRevision` and `resubmit`, `Press` and `Pressed` the operator's buttons.
`past` remembers what a property excuses: a soft incident that lost its insert, a resume
by a person, a resume on a cost or budget that has changed since it was looked at, an
activation written over a pause or a termination (`excused`); a send-back written over a
decision (`stale`); a pause for a policy or a month that is over (`outdated`); a crash.

Abstracted: the lookup and the write of a policy are one step; agent scope only; the
two notification switches are on; the created agent is the one agent; the cancellation
of work is `blocked` in `IssueRuns`.

### JoinRequests

Invites with their one join request, agents, members, grants, keys. `handler[h].pc` is
the statement a handler is about to run: `AcceptInvite`, `Replay` and `PushConfig`
accept and repeat, `CreateAgent`, `EnsureMembership`, `ClearGrants`, `SetGrants`, `Approve`
approve,
`Reject` rejects, `FindKey`, `ConsumeSecret`, `CreateKey` claim, `Revoke` revokes, and
`Fail` ends a handler anywhere: an error of the database, no active chief executive
agent, a crash.

`granted[p]` is the invites whose grants a principal has: the transaction that sets them
deletes what it finds and inserts its own, so that an approval replaces the grants of an
earlier one and overlapping ones may add up.

Abstracted: an invite allows both kinds of joiner; permission refusals are left out; a
payload is a version number, the newest lies on top; an invite and its request are
read in one step; `age` 1 has the invite expired, 2 the secret too.

### RunQueue and HeartbeatRuns (Go)

`RunQueue` is what the table of runs promises as a queue: a run enters once, is
taken by one claim or dropped by a cancellation, and a run is taken only after a look
that found it the oldest waiting one of its agent. Creating a run and letting it wait are
two steps, because `created_at` is fixed before the wakeup's transaction commits: an
older run may become visible after the look. `HeartbeatRuns` is the code: `go[g]` is a goroutine whose `pc` names the
statement it is about to run, the other fields its locals; `run[r]`, `request[r]`,
`agentStatus` and `hardStopped` are rows, `cancelFns` the map `budgetRunCancels`,
`reapList` what the reaper has read, `claimed` a history variable. A run goes through
`WakeupCheck`, `InsertRun`, `CommitRun`, `CountRunning`, `PickQueued`, `ClaimSucceeds`, `LoadRun`,
`SetupPasses`, `MarkRunning`, `RegisterCancel`, `ExecuteReturns`, `LoadRunStatus`,
`CostWithinBudget` or the actions of the hook, `SaveRun`, `FinalizeRead`,
`FinalizeWrite`, `ResumeNextRun`.

Abstracted: whether an active run has the task scope of a wakeup is a free choice;
project scopes; a cost event that triggers two scopes runs its hook for one; sessions,
workspaces and outputs are choices between success and failure. With `StatementsFail`
those statements fail whose error ends a goroutine or is ignored while its run is
running: the read in `loadRunStatus`, every `Save` of the run, the reaper's query and
`Save`; `SetupFails` stands for the others of `StartRun`, and `RollBackRun` for a wakeup's
transaction. A claim, count or load that fails leaves the run where it is, which the
actions that find nothing allow; ignored errors in the wakeup request and in
`finalizeAgentStatus` are left out.
A hard stop is never lifted, because no code of the backend closes an
incident.

### BudgetStops and BudgetLedger (Go)

`BudgetStops` records an event, looks at the budgets it touches and stops what has
reached them in one step. `BudgetLedger` is `CreateEvent` at READ COMMITTED, which
Postgres gives when, as here, nothing is asked for: a SELECT sees committed rows and
those of its own transaction, an UPDATE holds its row to the end. The table of events
is the sums the code asks of it; an event may be of any month (`Begin`), because the handler
takes `occurredAt` from the client. `looks` is a history: the scopes somebody has looked at,
and in which month. The hook after the commit is in `HeartbeatRuns`.

### PluginWorkers (Go)

`workers` is the plugin's entry in `manager.workers`, `lock` in `startupLocks`;
`handles[h].cmd` is the process a handle knows; `start[h][k]` and `processes[h][k]` are its
k-th attempt and that attempt's process; `req[r]` is a request. `Spawn` starts the process,
and a step later `Publish` puts it in `cmd`. A step lies between
two acquisitions of a mutex. A process may end at any time; the crash window is a choice
to begin the count again; calls other than `initialize` change nothing here.

## 4. Runs

`CHECK_DEADLOCK FALSE` is set everywhere because the bounds (`MaxRequests`,
`MaxRuns`, `MaxEvents`, ...) let a finished system stop. Interchangeable callers,
handlers, slots and transactions are symmetric in the safety runs; the runs with
liveness use no symmetry.

| Run | Asks | Bounds |
|---|---|---|
| `issue_lock` | `WithinLimit`: never more running runs than the limit. `OwnerKeepsLock`: nobody takes an issue's lock from a live run. `DeferredHasOwner`: what waits behind a run has one to wait for | 2 agents with a local child each, 1 issue, 4 runs, 3 wakeups, any one of cancel, pause, budget stop, comment retry, mention |
| `issue_progress` | `DeferredIsServed`: what waits behind a run is promoted. `QueuedIsDriven`: what is queued starts or ends | 1 agent, 4 runs, 2 wakeups, a crash, the timer ticking |
| `issue_start_deadlock` | violation: see below | 1 agent, 3 runs, 3 wakeups, a budget stop, the timer ticking |
| `issue_workflow` | `AuditTrail`, `DecidedByParticipant`, `DoneIsApproved`, `CheckoutIsKept` | 4 requests, 2 in flight, 2 runs of one agent that is also a participant, 1 user, policies of two, one and no stage |
| `governance` | `HardStopPauses`, `BudgetPauseIsDue`, `ManualPauseStays`, `OneHire`, `ApprovedIsHired` | 4 requests, 2 in flight, amounts to 2, a hire with a budget of 1, 3 incidents, 2 months, a crash |
| `routines` | `TickFiredOnce`, `KeyedOnce`, `OneLiveIssue`, `IssueHasRun` | 2 callers, 1 key, 2 instants, 2 runs, catch-up of 2, 1 heartbeat run at a time, the policies coalesce and always enqueue, one crash, edit, fault, comment, block or reopening |
| `plugin_host` | `OneProcessPerPlugin`, `PendingHasProcess`, `RunningHasProcess`, `BackoffCanStart` | 4 requests, 2 in flight, 3 processes, 2 exits, 1 call, 1 crash before the backoff gives up |
| `join_requests` | `OneKeyPerSecret`, `JoinedIsComplete` | 2 invites, 5 requests, 2 in flight, 1 user, 2 agents, 2 keys |
| `heartbeat` | `ImplementsQueue`, `OnlyClaimedRunsExecute`, `CancelledInQueueIsFinal`, `LostByFailedStatement`, `TimerDrainsQueue` | 1 agent, 2 goroutines, 2 runs, 2 of: a crash, a hard stop, an operator's request, a failing statement |
| `budget_safety` | `HardStopNotMissed`, `OneIncidentPerWindow`, `ImplementsStops` | 2 agents, a project with a lifetime budget, 2 transactions, 3 events of either month, 2 months |
| `budget_ends` | `TransactionsEnd` | 2 agents, 2 transactions, 3 events, an operator who sets budgets |
| `plugin_workers` | `ProcessIsKnown`, `RequestsEnd` | 2 requests that stop the worker and start a new one, 1 crash, 1 timer |

Why these bounds are enough:

* The interleavings are those of two, with a third that comes later: two requests
  that have read the same row, one that writes and one that writes over it, and then
  one that meets the result. Two in flight and four or five in all contain them.
* `issue_lock`: four runs are a runner, the run promoted after it, and one more on each
  side of an event; two of its events together (16.8 million states, too long for a
  standing run) violate nothing either. With a crash, or a crash and a cancellation, its
  properties fail; section 7 says how. `issue_progress` uses one agent because the properties
  are about the handover, in which the agents differ by their name only; a second agent
  multiplies the liveness graph.
* `issue_workflow`: two stages make a first approval open the second, the third policy
  makes the pending stage disappear, and no policy makes the state disappear.
* `governance`: amount 2 is below, at the soft threshold, and at the hard one; two
  months are a window and its successor; three incidents are one more than the two kinds.
* `routines`: an instant past the first one lets two due times be caught up at once; two
  runs let one coalesce into, skip for, or follow the other.
* `heartbeat`: two disturbances are a failure and what meets it, a crash during a hard
  stop, say; runs that are rolled back count as well, so a second run meets a first one
  in every order of insert and commit.
* `budget_ends`: with two agents a transaction waits for the company's row while it holds
  its own agent's, which is where an order of locks matters.
* `join_requests`: two invites let one person be approved twice, each approval replacing the
  grants of the other; two in flight are two approvals of a request, or two claims.
* `plugin_host`: three processes are a first one, its restart, and that of another
  handle, with two exits among them.
* The theorems of section 6 remove the bounds for the properties they state.

`issue_start_deadlock` ends in a counterexample on purpose. `index.ts:612-613` promises
"make sure persisted queued work is still being driven forward". `claimQueuedRun` runs
inside `withAgentStartLock`; when the agent was paused, or the budget reached, after the
run was picked, it awaits `cancelRunInternal` (`heartbeat.ts:2211`), which awaits the next
start of the same agent (`heartbeat.ts:4306`), which waits for the lock its caller holds.
Nothing of that agent starts any more, and the timer, which ticks in this run, does not
help: the tick that resumes the queue waits behind the same lock, and so would every later
one.

Each property has a mutant of a modelled function, listed in `PROJECT.json` and kept
beside the function it changes, under which its run fails.

## 5. Fairness

`IssueRuns`: weak fairness of `Work`, the event loop, which does not rest while a call
other than the timer's can go on; of a step of the timer's call, which is served beside
the others; and of `Tick`, because the interval fires as long as the server is up.
Executions end, since adapters have timeouts. That the loop as a whole is fair, not each
call, is why `QueuedIsDriven` needs the tick. Nobody has to wake, cancel, pause or raise
anything. `DeferredIsServed` excuses a crash: nothing looks for deferred wakeups again.

`HeartbeatRuns`: weak fairness of each goroutine's next statement and of each turn of the
reaper; strong fairness of a timer wakeup of each agent, because the bound on goroutines
may disable it in between, which the program has no counterpart of. `TimerDrainsQueue`
assumes that the agent is wakeable again and again and that no run is lost, which a
failing statement does (`LostByFailedStatement` says that nothing else does).

`BudgetLedger`: statements return (weak), and transactions that wait for a row are
served in some fair order (strong), as Postgres queues them.

`PluginWorkers`: weak fairness of each request, each attempt to start and each exit:
goroutines, with `rpcInitTimeout` for `initialize` and a grace period for `stop`.

The other modules state no fairness: their properties are about what is never wrong.

## 6. Proofs

The proofs hold for any values of the constants that satisfy the modules' named
assumptions, which TLC evaluates in every run.

`IssueWorkflowProofs` (any agents, users, runs, policies, requests in flight):
`TypeCorrect`, `CompletedIsApproved` (`AuditTrail`), `ParticipantsDecide`,
`FinishedIsApproved` (`DoneIsApproved`), `LiveRunKeepsCheckout` (`CheckoutIsKept`). The
properties are about the row, and what can break them is in the requests that have not
written yet, so the invariant adds `RequestsOK`: each patch in flight is `Backed`, that is,
whatever it calls completed, and every stage of a policy it finishes, is approved on the
record or by the decision it carries. The record only grows, so a patch stays backed
however late it is written. That `Transition` makes backed patches only
(`TransitionIsSound`) goes through its cases, from `AuditTrail` on the row it has read.
`CheckoutIsKept` needs more, because an issue assigned to a user can be checked out
whatever its checkout is: `HolderInv`, proved on top, says that a live run that
holds the checkout holds the execution lock too (`LiveHolderOwns`), which is what the UPDATE
of another run's checkout fails on, that a run that holds a checkout was started
(`HolderStarted`) and so was the run of each request (`RequestsStarted`).

`GovernanceProofs` (any requests in flight, amounts, incidents, months, budgets of a hire,
none included): `TypeCorrect`, `OverBudgetIsStopped` (`HardStopPauses`),
`StoppedIsOverBudget` (`BudgetPauseIsDue`), `HiredOnce` (`OneHire`), `ApprovedAreHired`
(`ApprovedIsHired`), `PausedByAPersonStays` (`ManualPauseStays`). Two of them speak of a state
at rest, and their invariants of who brings it there: over an exceeded budget somebody
`Pursues` the agent (`StopOK`), under a budget pause that is no longer due somebody
`Releases` it (`DueOK`). They need what each request knows at its place (`Sound`), that the
row two requests insert is not the same (`RowsHeld`), that an agent not hired yet has
spent nothing and nobody has paused it (`NotYetHired`), and that one request carries out
the hire (`HireOK`, `ActivationOK`).

`RoutinesProofs` (any callers, keys, instants, policies, limits, crashes and faults):
`TypeCorrect`, `FiredOnce` (`TickFiredOnce`), `KeysMakeOneRun` (`KeyedOnce`), `LiveIssueIsOne`
(`OneLiveIssue`), `IssuesHaveRuns` (`IssueHasRun`). A dispatch writes its issue and its runs
before its transaction ends, so the invariant says what a caller knows at each of its
places (`CallersOK`): the instants it has computed, the row it has inserted, and whether
that row has its issue by then. `OneEngaged` adds the issue that is about to become live to the live
ones, pair by pair, unless the older one is recorded as revived; that `TypeOK` ties the lock of the routine's row to the caller in a transaction
keeps it the only one. `FiredOK` says that an instant that was taken lies before the
trigger's next one, `Fresh` that a row never inserted has left no issue and that rows are inserted in order,
`DispatchesOK` that the run and the issue of a dispatch that is over agree, and
`StartOK` that the start in progress belongs to the caller that waits for it.

`IssueRunsProofs` (any agents, issues, runs, wakeups, limits and numbers of events):
`TypeCorrect`, `OwnerKept` (`OwnerKeepsLock`), `LimitHeld` (`WithinLimit`), `DeferredServed`
(`DeferredHasOwner`). What a call knows is in the frames of its stack, so the invariant
`IInv`, which holds over crashes too, speaks of every frame of every thread (`FramesOK`):
an execution is about its own run, a frame in the start lock holds it and has claimed only
runs that nothing executes yet (`Quiet`), a reaper goes through runs that were begun.
`OneClaimer` keeps a thread from being in one agent's start lock twice. On it rest three
invariants of what happens until something goes wrong. `EndInv`: until a crash a child is
alive only while its adapter is called, and who releases an issue has made an end of its
run. `LimitInv`: the agent's running runs and those its claimer has still to claim fit the
limit (`SlotsOK`), which `FirstFew` counts. `WaitInv`: until something is stopped, over a
free lock with wakeups deferred some run is queued or about to stamp it (`OnItsWay`).
`LimitHeld` and `OwnerKept` end at a crash because `ReapSkip` sets the run of a child that
has outlived the server to running whatever its status, a cancelled run's too: from then
on a run counts that no start has claimed, and a released lock may miss a live run.

`JoinRequestsProofs` (any invites, people, agents, handlers, keys): `TypeCorrect`,
`ConsumedInvites`, `SecretsBuyOneKey` (`OneKeyPerSecret`), `JoinedAreComplete`
(`JoinedIsComplete`). `ApprovalsInOrder` says what an approval has done by each of its
statements; `ClaimsInOrder`, that one handler at most is between the conditional update
of a secret and the insert of its key. Nobody who is in on an invite (`Inside`) falls out,
although grants are replaced: those of a person by another invite of theirs, those of an
agent by nobody, since only the handler that made it lets it in (`NewAgents`).

`HeartbeatRunsProofs` (any agents, goroutines, runs and limits): `TypeCorrect` from
`Layer1`, types and which locals go with which statement; `ClaimedBeforeExecuted` and
`QueueCancellationIsFinal` from `Layer2`, which adds that a claimed run never waits
again, only claimed runs start and a run that is inserted has one goroutine to commit it;
`RunningRunsAreTracked`, assuming `~StatementsFail`, and `OnlyFailedStatementsLose`
(`LostByFailedStatement`), without that assumption: both go through the actions once, in
`NothingElseLoses`, which shows that every other step that leaves a run "running" leaves it
a goroutine or the reaper; `RunsImplementQueue`, the refinement of `RunQueue`: a pick is a
look, and a run that is claimed was found by its goroutine, or by the first of several.

`BudgetLedgerProofs` (any agents, projects, transactions, months, amounts): `LedgerTyped`;
`IncidentsUnique`, because the transactions that look hold the company's row
(`LocksHeld`, `OneLooks`) and what they found missing is missing at their commit
(`CreatedOnce`); `NoStopMissed` and `LedgerImplementsStops` (the refinement of
`BudgetStops`), assuming budgets set beforehand (`MaxEdits = 0`), because a budget set
later is looked at with the next event only: `StopsDecided` says that a transaction
about to commit stops just the scopes its event makes reach their budget, `EventsKnown` that
its sums are those of its event; `LooksPast` and `LooksBehind`, that months are looked at
when they have come, and that what was looked at is stopped.

`PluginProofs` extends both plugin modules. On `PluginHost` (any slots, callers, requests,
processes, exits): `HostWellTyped` (`TypeOK`), `PendingCallsHaveProcess`,
`RunningHandlesHaveProcess` from `HostInv`, which no overlap of requests disturbs: a
handle has the process it reads and that process is its own (`RowOK`), a thread holds
live processes of its handle or has been told of the end (`ThreadOK`). Types need a
count: handles and processes are made in order, and `HandlesLeft` leaves one handle for
each request that is on its way to an activation, so `NextHandle` is always one.
`OneWorkerProcess` (`OneProcessPerPlugin`) and `RestartsFindTheirHandle`
(`BackoffCanStart`) hold while no two requests have overlapped, from `Alone`: the only
live process is the registered handle's, a stop is that of the registered handle with its
restart cancelled and its exit expected (`StopOK`), a handle that is being stopped has
the request that stops it, a stopped one has nothing (`HandleOK`). Whatever spawns finds
the handle down (`AloneSpawns`).

On `PluginWorkers` (any requests, crashes and timers): `WorkersTyped`;
`ProcessesKnown`, because a handle is in one hand at a time, an attempt, its process, the
timer or the next attempt (`OneLife`), so no attempt takes `cmd` from a living process and
no exit clears another's, also while an attempt has its process and has not published it.

Every invariant and action property of the runs is a theorem. Only model-checked: the
liveness properties, which the prover does not reach, and the counterexample.

## 7. Departures the models have

What a comment, a document or the name of a function says and the modelled code does not
do. One has a run (section 4); the others are reachable in a few steps, are kept in the
models, and are why a property names an exception. Definitions whose comment says that TLC
refutes them state the opposite of one of these.

Issue execution.

* With a crash and a cancellation `WithinLimit` and `OwnerKeepsLock` fail: the reaper at
  start, with threshold 0, fails a run that has just been claimed, or one that has just
  finished; the retry of a lost child is not guarded by the issue's lock; `ClaimStamp`
  stamps a run that was cancelled meanwhile.
* `executeRun` writes its outcome without a condition (`heartbeat.ts:3331`), over a
  cancellation. The agent name on the lock is compared as it was read and may be stale.
* Deferred wakeups are stranded when the server dies between the end of a run and its
  release, or when a cancellation, a pause, a budget stop or the reaper after a crash ends
  a run that has been claimed and has not stamped the lock yet, so that nobody releases
  the issue: `DeferredHasOwner` excepts these; a budget stop promotes deferred
  wakeups before it cancels them. A comment retry may follow a run that was cancelled.
* A mention starts a run beside the one that holds the issue, which goal 2 of
  `doc/plans/2026-02-20-issue-run-orchestration-plan.md` excludes (`ExclusiveExecution`).
  A new wakeup may overtake the deferred ones.

Issue workflow.

* A comment that reopens a done issue leaves the execution state completed
  (`routes/issues.ts:2176-2184`), and a PATCH finds nothing to do when the pending stage
  has been edited out of the policy or nobody is left to take it
  (`issue-execution-policy.ts:272-280`, `297-305`): the issue is then finished without a
  decision, where `docs/guides/execution-policy.md:3` says the stages are enforced
  (`DoneByDecision`).
* Two approvals in flight record two decisions; a stale approval is valid on a policy that
  has grown a stage; the author of an unassigned submission may review it; a PATCH may
  unassign an issue that is in progress; a user may be assigned to an issue that a run
  works on, and another run may check it out then once the first is over; a release writes
  without a condition; adopting a stale checkout takes the lock without asking whether a live run holds it.

Budgets, approvals and agents.

* A soft incident inserted by two events at once fails one of them, and with it its hard
  stop (`budgets.ts:394`, `:665-691`; `docs/api/costs.md:69`). A cost recorded between the
  look and the resume of an edit leaves the agent active over its budget (`:881-911`). A
  pause may follow from a policy that has been replaced. All three are excused in
  `HardStopPauses` or `BudgetPauseIsDue`.
* An agent stays paused for its budget in the next month, where
  `docs/guides/board-operator/costs-and-budgets.md:49` resets it. A budget raised and hit
  again in the same month pauses without an open incident or approval
  (`doc/plans/2026-03-14-budget-policies-and-enforcement.md:342`, `:586`). A raise resolves
  all open incidents and marks one approval; a losing insert leaves a pending approval
  without incident; approving that kind of approval by itself resumes nothing.
* Pausing and resuming an agent that waits for approval starts it without one; a racing
  resume or activation revives a terminated agent; an activation undoes a pause made since
  it read the status (`agents.ts:516-529`), also one that a budget has just made; a request for revision written after
  an approval leads to a second hire; a crash between approval and activation hires
  nobody, ever. A company's pause replaces the reason of a manual one.
* `getInvocationBlock` reads one of several open incidents, and is read before the run starts.

Routines.

* When an old issue is idle and a new one is made for a routine that coalesces, the stamp
  of the heartbeat run violates the unique index after the run was set to running: the
  dispatch fails, its issue is deleted, and the runs claimed with it wait for the reaper
  (`DispatchSucceeds`; `server/src/__tests__/routines-service.test.ts:177`,
  `docs/api/routines.md:64`).
* Ten dispatches can hold all connections of the pool (`packages/db/src/client.ts:48-51`)
  and wait for an eleventh. A crash between claim and dispatch loses firings; an error in
  one dispatch drops the other due triggers of the tick; a dispatch works with the
  routine as the tick read it, and its write of `nextRunAt` may move the trigger back
  or past missed times.
* An old issue may come to life beside a new one, by the retry of a lost run
  (`heartbeat.ts:2399-2404`), a comment, a wakeup deferred behind it (`:3525-3677`) or an
  edit that reopens it: nothing asks the routine's policy then. `OneLiveIssue` excepts
  these; a crash loses none of it.
* An issue finished before its dispatch commits leaves the run "issue_created"; one that
  goes from blocked back to todo leaves it "failed".

Plugin host.

* Disabling stops a worker that is running, not one that is starting or in backoff
  (`plugin-loader.ts:1606-1609` against `plugin-lifecycle.ts:18-20`; `OfflineHasNoWorker`).
* Requests that overlap may leave a second process (hence the exception in
  `OneProcessPerPlugin`); a refused `initialize` leaves a handle that makes the next
  enable fail; each start resets the count of crashes; a failed upgrade leaves "ready"
  without a worker; statuses are written on the strength of an earlier read.

Joins.

* Two approvals in flight create two agents, one of them an orphan; a decision that has
  read "pending" overwrites another; the key of a request may belong to its first agent
  while the request names the second; a failure after the secret is used up leaves no key
  and no second claim (`doc/plans/2026-02-21-humans-and-permissions.md:163`, `:391-394`).
* Each approval replaces the grants of its principal (`services/access.ts:242-265`): a
  person approved on a second invite loses those of the first, whose request stays
  approved; two such approvals that overlap add up or fail, since the delete of one does
  not see the insert of the other. `JoinedIsComplete` excepts persons, not agents.
* An invite revoked while it is accepted has a request and no acceptance; a replay that
  races with the approval is not pushed to the agent.

Go backend.

* The claim's count ignores runs that are `starting` and `resumeNextRun` counts nothing,
  so two runs start under limit 1 (`heartbeat.go:127`, `RunningWithinLimit`); `StartRun`
  takes a run another goroutine has claimed for its own (`:231`, `RunExecutedByOne`); an
  early return of `StartRun` leaves a run `starting`, which the reaper does not read
  (`StartingHasGoroutine`, `doc/SPEC-implementation.md:829`); a hard stop between the check
  and the save is missed (`NoStartWhenHardStopped`); a failing status read (`:429`) or `Save`
  (`:449`, whose error is ignored) leaves a run `running` until the next restart, and one that
  fails in the reaper (`:171`, `:199`) beyond it; `created_at` is taken before the commit, so
  a run may be claimed although an older one has just become visible.
* A termination or a pause between the read and the write of `finalizeAgentStatus` is
  overwritten (`heartbeat_wakeup.go:248`); a hook between `MarkRunning` and
  `RegisterCancel` cancels the row and not the process (`heartbeat.go:397`); the reaper
  saves interrupted runs as completed (`:199`; `doc/spec/agent-runs.md:663` says failed).
* An event may be dated in a month to come (`routes/costs.go:18`): that month begins over its
  budget without an incident, until its first event is looked at (`HardStopNotMissed` says
  so). The model and the theorems allow negative costs, which the handler does not
  refuse; the run uses cost 1. `collectTriggeredBudgetScopes` asks the clock several times,
  modelled as one look.
* The company's spent column loses updates (`costs.go:21`, `SpentIsTheMonthsCost`); an open
  incident blocks in every later window and a raised budget is not saved
  (`ResumedIsNotBlocked`, `docs/guides/board-operator/costs-and-budgets.md:49`).
* A stop that comes between `cmd.Start` (`plugin_worker_manager.go:537`) and `h.cmd = cmd`
  (`:550`) finds no process and returns with the handle `stopped` (`:736-741`), while one
  lives; normally `Call` refuses `initialize` on it then, and `start` kills it.
  `ProcessIsKnown` names this window.
* `StopWorker` deletes a handle that is only about to start, or one that has replaced the
  handle it stopped (`plugin_worker_manager.go:957`, `OneLiveProcess`;
  `doc/plugins/PLUGIN_SPEC.md:407`); a start that succeeds after its process has ended
  writes `running` over `backoff` (`:618`); an entrypoint that cannot be resolved leaves
  `backoff` for ever (`:700`, `:924`); each successful start resets the crashes (`:617`);
  the shutdown request of `PLUGIN_SPEC.md:458` is never sent (`:735`, `:246`).

## 8. Not modelled

* Of the modelled components: logs, sessions and their compaction, billing codes,
  workspaces and the output of runs; documents, labels, relations and comments of issues;
  company and project budgets in the Node server; discovery and installation, tools,
  streams and host services of plugins; webhooks and variables of routines; edits of
  members and permissions, bootstrap invites and CLI challenges; the calls of plugins and
  `StopAll` in the Go backend (which, despite `plugin_worker_manager.go:973`, nothing
  calls); its soft alerts, which it does not implement.
* Taken for granted: a Node worker reads its standard input, so that the write in `send`
  (`plugin_worker_manager.go:236`), which the timeout of `Call` does not cover, returns.
* In `Routines`: comments and edits of an issue whose heartbeat was never queued, a second
  heartbeat run of one issue by a mention, an agent's checkout that stamps the issue's
  lock. Closing an issue that was started is free of the bound `MaxEvents`; other edits
  of issues count.
* Edits of members' permissions (`services/access.ts:100`, `:300`) and the removal of
  members, which take away what a join has given.
* Not yet: plugin jobs, the workspace runtime (seen while reading: concurrent ensures start
  a service twice, the exit handler is attached after the readiness check, a dying process
  may be adopted, a lease leaks when persisting fails), the intake of the Go backend, its
  issues, approvals and routines, the realtime hub, the OpenBrain service.
* Not meant to be: components whose state is plain rows behind single statements
  (secrets, documents, activity), per-request checks (authentication), long conversions
  (portability, adapters), file and object storage, declarations, and user interfaces.
