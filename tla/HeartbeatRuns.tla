--------------------------- MODULE HeartbeatRuns ---------------------------
(***************************************************************************)
(* The life of a heartbeat run in the Go backend                           *)
(* (backend/server/services/heartbeat.go, heartbeat_wakeup.go and          *)
(* budget_enforcement.go): wakeups queue runs; goroutines claim them,      *)
(* execute them and start the next one; a budget hard stop cancels them;   *)
(* the server crashes and, on restart, reaps what it finds "running".      *)
(*                                                                         *)
(* A step of a goroutine is one statement on the database or one access to *)
(* memory shared with other goroutines, with the local computation after   *)
(* it.  The rows live in Postgres under its default isolation, so a        *)
(* goroutine may act on what it read several steps ago.  Save(&run) writes *)
(* every column of the row, whatever the row holds by then.  A run and its *)
(* wakeup request are written in one step: nothing reads them in between.  *)
(* A run that a transaction has inserted has its place in the order of      *)
(* created_at, and is invisible until the commit.                           *)
(***************************************************************************)
EXTENDS Integers, FiniteSets

CONSTANTS
    Agents,             \* the agents of one company
    Company,            \* the company, as a budget scope
    NoAgent, NoScope,   \* "no value" of the two kinds
    Goroutines,         \* bound: goroutines alive at the same time
    MaxConcurrentRuns,  \* policy heartbeat.maxConcurrentRuns, 1 by default
    StatementsFail,     \* whether the database may fail statements whose error
                        \* ends a goroutine or is ignored
    MaxRuns,            \* bound: runs ever created
    MaxDisturbances     \* bound: crashes, cost events that reach a hard stop,
                        \* requests of the board operator and failing
                        \* statements, together

ASSUME ConstantsAssumption ==
    /\ MaxConcurrentRuns \in Nat \ {0}
    /\ StatementsFail \in BOOLEAN
    /\ MaxRuns \in Nat
    /\ MaxDisturbances \in Nat
    /\ NoAgent \notin Agents
    /\ Company \notin Agents
    /\ NoScope \notin Agents \cup {Company}

Runs == 1..MaxRuns      \* in the order of created_at
NoRun == 0
Scopes == Agents \cup {Company}

\* "inserted" is no value of the column: the row is written as "queued" by a
\* transaction that has not committed, or never will.
RunStatus == {"none", "inserted", "queued", "starting", "running",
              "completed", "failed", "cancelled"}
RequestStatus == RunStatus \ {"inserted", "starting"}
AgentStatus == {"idle", "active", "running", "error", "paused", "terminated"}
Active == {"starting", "queued", "running"}

VARIABLES
    run,         \* table heartbeat_runs: run[r].status, run[r].agent
    request,     \* status of the wakeup request that created run r
    agentStatus, \* column agents.status
    hardStopped, \* scopes with an open hard incident: GetInvocationBlock blocks
                 \* them, and no code ever closes an incident
    go,          \* the goroutines
    cancelFns,   \* budgetRunCancels: run -> goroutine whose context it cancels
    reapList,    \* the runs ReapOrphanedRuns has read and not handled yet
    disturbances, \* counter of the bound
    claimed      \* history: the runs a claimQueuedRun succeeded on

vars == <<run, request, agentStatus, hardStopped, go, cancelFns, reapList,
          disturbances, claimed>>

-----------------------------------------------------------------------------
(* Goroutines.                                                              *)

\* Fields: agent, run and outcome are the locals of the run's life; scope,
\* listed and agents those of CancelBudgetScopeWork; target and status those
\* of finalizeAgentStatus; ctxDone says that the context was cancelled.
Idle == [pc |-> "free", agent |-> NoAgent, run |-> NoRun, outcome |-> "none",
         scope |-> NoScope, listed |-> {}, agents |-> {}, target |-> NoAgent,
         status |-> "idle", ctxDone |-> FALSE]

\* Program counters of a goroutine inside CancelBudgetScopeWork.
HookPCs == {"hookList", "hookUpdate", "hookRequests"}
\* ... inside executeAndTrack or just before it, its run saved as "running".
TrackingPCs == {"register", "execute", "loadStatus", "cost", "save"}
FinalizePCs == {"finalizeRead", "finalizeWrite"}
PCs == {"free", "enqueue", "commit", "count", "pick", "claim", "load", "startClaim",
        "setup", "mark", "resume"} \cup TrackingPCs \cup HookPCs \cup FinalizePCs

Free(g) == go[g].pc = "free"
At(g, pc) == go[g].pc = pc

\* GetInvocationBlock for the scopes of agent a is not nil.
Blocked(a) == {a, Company} \cap hardStopped # {}

Queued(a) == {r \in Runs : run[r].status = "queued" /\ run[r].agent = a}
RunningOf(a) == {r \in Runs : run[r].status = "running" /\ run[r].agent = a}

\* Mutant: ORDER BY created_at DESC.
IsNewestQueued(r, a) == r \in Queued(a) /\ \A s \in Queued(a) : s <= r

\* Order("created_at asc").First over the queued runs of a.
IsOldestQueued(r, a) == r \in Queued(a) /\ \A s \in Queued(a) : r <= s

Init ==
    /\ run = [r \in Runs |-> [status |-> "none", agent |-> NoAgent]]
    /\ request = [r \in Runs |-> "none"]
    /\ agentStatus = [a \in Agents |-> "idle"]
    /\ hardStopped = {}
    /\ go = [g \in Goroutines |-> Idle]
    /\ cancelFns = [r \in Runs |-> {}]
    /\ reapList = {}
    /\ disturbances = 0
    /\ claimed = {}

Disturb ==
    /\ disturbances < MaxDisturbances
    /\ disturbances' = disturbances + 1

\* A statement of a goroutine fails.
StatementFails == StatementsFail /\ Disturb

-----------------------------------------------------------------------------
(* Wakeups.  Whether an active run has the task scope of the wakeup is left *)
(* open here: a wakeup with a run to coalesce with may or may not do so.    *)

\* enqueueWakeup up to its budget check, which is outside its transaction.
WakeupCheck(g, a) ==
    /\ Free(g)
    /\ reapList = {}            \* main serves requests after the reaping
    /\ ~Blocked(a)
    /\ go' = [go EXCEPT ![g] = [Idle EXCEPT !.pc = "enqueue", !.agent = a]]
    /\ UNCHANGED <<run, request, agentStatus, hardStopped, cancelFns, reapList,
                   disturbances, claimed>>

\* TickTimers skips the agents that are paused or terminated.
TimerWakeup(g, a) ==
    /\ agentStatus[a] \notin {"paused", "terminated"}
    /\ WakeupCheck(g, a)

\* The transaction finds nothing to coalesce with: it inserts a wakeup request
\* and a run, whose created_at is fixed here.
InsertRun(g) ==
    /\ At(g, "enqueue")
    /\ \E r \in Runs :
        /\ run[r].status = "none"
        /\ \A s \in Runs : s < r => run[s].status # "none"
        /\ run' = [run EXCEPT ![r] = [status |-> "inserted", agent |-> go[g].agent]]
        /\ go' = [go EXCEPT ![g].pc = "commit", ![g].run = r]
    /\ UNCHANGED <<request, agentStatus, hardStopped, cancelFns, reapList, disturbances,
                   claimed>>

\* The commit makes the run visible, whatever was committed since the insert;
\* the server starts ResumeQueuedRuns in a goroutine.
CommitRun(g) ==
    /\ At(g, "commit")
    /\ run' = [run EXCEPT ![go[g].run].status = "queued"]
    /\ request' = [request EXCEPT ![go[g].run] = "queued"]
    /\ go' = [go EXCEPT ![g].pc = "count", ![g].run = NoRun]
    /\ UNCHANGED <<agentStatus, hardStopped, cancelFns, reapList, disturbances, claimed>>

\* The transaction fails: nobody ever sees the run, and enqueueWakeup returns.
RollBackRun(g) ==
    /\ At(g, "commit")
    /\ StatementFails
    /\ go' = [go EXCEPT ![g] = Idle]
    /\ UNCHANGED <<run, request, agentStatus, hardStopped, cancelFns, reapList,
                   claimed>>

\* Mutant: a coalesced wakeup starts no ResumeQueuedRuns.
CoalesceSilently(g) ==
    /\ At(g, "enqueue")
    /\ Queued(go[g].agent) # {}
    /\ go' = [go EXCEPT ![g] = Idle]
    /\ UNCHANGED <<run, request, agentStatus, hardStopped, cancelFns, reapList,
                   disturbances, claimed>>

\* It coalesces with a queued run: only the context of that run changes, and
\* ResumeQueuedRuns starts all the same.
CoalesceWithQueued(g) ==
    /\ At(g, "enqueue")
    /\ Queued(go[g].agent) # {}
    /\ go' = [go EXCEPT ![g].pc = "count"]
    /\ UNCHANGED <<run, request, agentStatus, hardStopped, cancelFns, reapList,
                   disturbances, claimed>>

\* It coalesces with a running run: no goroutine is started.
CoalesceWithRunning(g) ==
    /\ At(g, "enqueue")
    /\ RunningOf(go[g].agent) # {}
    /\ go' = [go EXCEPT ![g] = Idle]
    /\ UNCHANGED <<run, request, agentStatus, hardStopped, cancelFns, reapList,
                   disturbances, claimed>>

-----------------------------------------------------------------------------
(* ResumeQueuedRuns and claimQueuedRun.                                     *)

\* The limit is compared with the number of runs that are "running".
CountRunning(g) ==
    /\ At(g, "count")
    /\ go' = [go EXCEPT ![g] = IF Cardinality(RunningOf(go[g].agent)) >= MaxConcurrentRuns
                               THEN Idle ELSE [go[g] EXCEPT !.pc = "pick"]]
    /\ UNCHANGED <<run, request, agentStatus, hardStopped, cancelFns, reapList,
                   disturbances, claimed>>

PickQueued(g) ==
    /\ At(g, "pick")
    /\ \/ /\ Queued(go[g].agent) = {}
          /\ go' = [go EXCEPT ![g] = Idle]
       \/ \E r \in Runs :
            /\ IsOldestQueued(r, go[g].agent)
            /\ go' = [go EXCEPT ![g].pc = "claim", ![g].run = r]
    /\ UNCHANGED <<run, request, agentStatus, hardStopped, cancelFns, reapList,
                   disturbances, claimed>>

\* Mutant: the WHERE clause also lets a cancelled run through.
ClaimGuardCancelled(r) == run[r].status \in {"queued", "cancelled"}

\* UPDATE heartbeat_runs SET status = 'starting' WHERE id = ? AND status = 'queued'
ClaimGuard(r) == run[r].status = "queued"

ClaimSucceeds(g, from, to) ==
    /\ At(g, from)
    /\ ClaimGuard(go[g].run)
    /\ run' = [run EXCEPT ![go[g].run].status = "starting"]
    /\ claimed' = claimed \cup {go[g].run}
    /\ go' = [go EXCEPT ![g].pc = to]
    /\ UNCHANGED <<request, agentStatus, hardStopped, cancelFns, reapList, disturbances>>

\* No row affected: both callers of claimQueuedRun return.
ClaimFails(g, from) ==
    /\ At(g, from)
    /\ ~ClaimGuard(go[g].run)
    /\ go' = [go EXCEPT ![g] = Idle]
    /\ UNCHANGED <<run, request, agentStatus, hardStopped, cancelFns, reapList,
                   disturbances, claimed>>

-----------------------------------------------------------------------------
(* StartRun.                                                                *)

\* Mutant: StartRun takes every run it is given for claimed.
LoadRunClaimed(g) ==
    /\ At(g, "load")
    /\ go' = [go EXCEPT ![g].pc = "setup"]
    /\ UNCHANGED <<run, request, agentStatus, hardStopped, cancelFns, reapList,
                   disturbances, claimed>>

\* It loads the run, and claims it unless the status it read is "starting".
LoadRun(g) ==
    /\ At(g, "load")
    /\ go' = [go EXCEPT ![g].pc = IF run[go[g].run].status = "starting"
                                  THEN "setup" ELSE "startClaim"]
    /\ UNCHANGED <<run, request, agentStatus, hardStopped, cancelFns, reapList,
                   disturbances, claimed>>

\* Session compaction, the workspace or the budget query fails: StartRun
\* returns the error and leaves the run as it is.
SetupFails(g) ==
    /\ At(g, "setup")
    /\ go' = [go EXCEPT ![g] = Idle]
    /\ UNCHANGED <<run, request, agentStatus, hardStopped, cancelFns, reapList,
                   disturbances, claimed>>

\* The budget blocks the run: it and its request are saved as failed.
SetupBlocked(g) ==
    /\ At(g, "setup")
    /\ Blocked(go[g].agent)
    /\ run' = [run EXCEPT ![go[g].run].status = "failed"]
    /\ request' = [request EXCEPT ![go[g].run] = "failed"]
    /\ go' = [go EXCEPT ![g] = Idle]
    /\ UNCHANGED <<agentStatus, hardStopped, cancelFns, reapList, disturbances, claimed>>

\* The error of that Save is ignored: the row of the run stays "starting".
SetupBlockedSaveFails(g) ==
    /\ At(g, "setup")
    /\ Blocked(go[g].agent)
    /\ StatementFails
    /\ request' = [request EXCEPT ![go[g].run] = "failed"]
    /\ go' = [go EXCEPT ![g] = Idle]
    /\ UNCHANGED <<run, agentStatus, hardStopped, cancelFns, reapList, claimed>>

SetupPasses(g) ==
    /\ At(g, "setup")
    /\ ~Blocked(go[g].agent)
    /\ go' = [go EXCEPT ![g].pc = "mark"]
    /\ UNCHANGED <<run, request, agentStatus, hardStopped, cancelFns, reapList,
                   disturbances, claimed>>

\* The request, then the whole row of the run, are written as "running".
MarkRunning(g) ==
    /\ At(g, "mark")
    /\ run' = [run EXCEPT ![go[g].run].status = "running"]
    /\ request' = [request EXCEPT ![go[g].run] = "running"]
    /\ go' = [go EXCEPT ![g].pc = "register"]
    /\ UNCHANGED <<agentStatus, hardStopped, cancelFns, reapList, disturbances, claimed>>

\* The error of that Save is ignored: the run executes as "starting".
MarkRunningSaveFails(g) ==
    /\ At(g, "mark")
    /\ StatementFails
    /\ request' = [request EXCEPT ![go[g].run] = "running"]
    /\ go' = [go EXCEPT ![g].pc = "register"]
    /\ UNCHANGED <<run, agentStatus, hardStopped, cancelFns, reapList, claimed>>

-----------------------------------------------------------------------------
(* executeAndTrack.                                                         *)

RegisterCancel(g) ==
    /\ At(g, "register")
    /\ cancelFns' = [cancelFns EXCEPT ![go[g].run] = {g}]
    /\ go' = [go EXCEPT ![g].pc = "execute"]
    /\ UNCHANGED <<run, request, agentStatus, hardStopped, reapList, disturbances, claimed>>

\* Mutant: an error of the runner is returned at once.
ExecuteErrorReturns(g, outcome) ==
    /\ At(g, "execute")
    /\ outcome \in {"completed", "failed"}
    /\ go' = [go EXCEPT ![g] = IF outcome = "failed" THEN Idle
                               ELSE [go[g] EXCEPT !.pc = "loadStatus", !.outcome = outcome]]
    /\ UNCHANGED <<run, request, agentStatus, hardStopped, cancelFns, reapList,
                   disturbances, claimed>>

\* Runner.Execute returns: with a result, or with an error, an exit code that
\* is not 0 or a process killed because the context is done.
ExecuteReturns(g, outcome) ==
    /\ At(g, "execute")
    /\ outcome \in {"completed", "failed"}
    /\ go' = [go EXCEPT ![g].pc = "loadStatus", ![g].outcome = outcome]
    /\ UNCHANGED <<run, request, agentStatus, hardStopped, cancelFns, reapList,
                   disturbances, claimed>>

\* A run found cancelled stays so; a completed one has its cost recorded.
LoadRunStatus(g) ==
    /\ At(g, "loadStatus")
    /\ LET outcome == IF run[go[g].run].status = "cancelled"
                      THEN "cancelled" ELSE go[g].outcome
       IN  go' = [go EXCEPT ![g].outcome = outcome,
                            ![g].pc = IF outcome = "completed" THEN "cost" ELSE "save"]
    /\ UNCHANGED <<run, request, agentStatus, hardStopped, cancelFns, reapList,
                   disturbances, claimed>>

\* The read fails: executeAndTrack returns, with nothing saved but the deferred
\* release, and resumes nothing.
LoadRunStatusFails(g) ==
    /\ At(g, "loadStatus")
    /\ StatementFails
    /\ cancelFns' = [cancelFns EXCEPT ![go[g].run] = {}]
    /\ go' = [go EXCEPT ![g] = Idle]
    /\ UNCHANGED <<run, request, agentStatus, hardStopped, reapList, claimed>>

\* CreateEvent: the transaction leaves every budget below its limit ...
CostWithinBudget(g) ==
    /\ At(g, "cost")
    /\ go' = [go EXCEPT ![g].pc = "save"]
    /\ UNCHANGED <<run, request, agentStatus, hardStopped, cancelFns, reapList,
                   disturbances, claimed>>

\* ... or it reaches a hard stop: the transaction pauses the scope, and the hook
\* CancelBudgetScopeWork runs after the commit.
HardStop(s) ==
    /\ Disturb
    /\ hardStopped' = hardStopped \cup {s}
    /\ agentStatus' = [a \in Agents |-> IF a = s THEN "paused" ELSE agentStatus[a]]

CostReachesHardStop(g, s) ==
    /\ At(g, "cost")
    /\ s \in {go[g].agent, Company}
    /\ HardStop(s)
    /\ go' = [go EXCEPT ![g].pc = "hookList", ![g].scope = s]
    /\ UNCHANGED <<run, request, cancelFns, reapList, claimed>>

\* POST /cost-events by an agent: the same service call, from a handler.
ReportedCostReachesHardStop(g, s) ==
    /\ Free(g)
    /\ reapList = {}
    /\ HardStop(s)
    /\ go' = [go EXCEPT ![g] = [Idle EXCEPT !.pc = "hookList", !.scope = s]]
    /\ UNCHANGED <<run, request, cancelFns, reapList, claimed>>

\* Save(run), then the runtime state and the wakeup request.
SaveRun(g) ==
    /\ At(g, "save")
    /\ run' = [run EXCEPT ![go[g].run].status = go[g].outcome]
    /\ request' = [request EXCEPT ![go[g].run] = go[g].outcome]
    /\ go' = [go EXCEPT ![g].pc = "finalizeRead", ![g].agents = {go[g].agent}]
    /\ UNCHANGED <<agentStatus, hardStopped, cancelFns, reapList, disturbances, claimed>>

\* The error of that Save is ignored: all goes on as if the run were finished,
\* and its row stays as it was.
SaveRunFails(g) ==
    /\ At(g, "save")
    /\ StatementFails
    /\ request' = [request EXCEPT ![go[g].run] = go[g].outcome]
    /\ go' = [go EXCEPT ![g].pc = "finalizeRead", ![g].agents = {go[g].agent}]
    /\ UNCHANGED <<run, agentStatus, hardStopped, cancelFns, reapList, claimed>>

\* resumeNextRun starts StartRun in a goroutine, which takes over the slot;
\* the deferred release drops whatever is registered for the run.
ResumeNextRun(g) ==
    /\ At(g, "resume")
    /\ cancelFns' = [cancelFns EXCEPT ![go[g].run] = {}]
    /\ \/ /\ Queued(go[g].agent) = {}
          /\ go' = [go EXCEPT ![g] = Idle]
       \/ \E r \in Runs :
            /\ IsOldestQueued(r, go[g].agent)
            /\ go' = [go EXCEPT ![g] = [Idle EXCEPT !.pc = "load", !.run = r,
                                                    !.agent = go[g].agent]]
    /\ UNCHANGED <<run, request, agentStatus, hardStopped, reapList, disturbances, claimed>>

-----------------------------------------------------------------------------
(* finalizeAgentStatus, for each agent of go[g].agents: called at the end   *)
(* of executeAndTrack and at the end of the hook.                           *)

AfterFinalize(rec) ==
    IF rec.agents # {} THEN [rec EXCEPT !.pc = "finalizeRead"]
    ELSE IF rec.scope = NoScope THEN [rec EXCEPT !.pc = "resume"]
    ELSE IF rec.run = NoRun THEN Idle
    ELSE [rec EXCEPT !.pc = "save", !.scope = NoScope]   \* back to executeAndTrack

\* The status of the run that the caller passes.
FinalRunStatus(g) == IF go[g].scope = NoScope THEN go[g].outcome ELSE "cancelled"

NextAgentStatus(a, runStatus) ==
    IF RunningOf(a) # {} THEN "running"
    ELSE IF runStatus = "completed" THEN "idle" ELSE "error"

FinalizeRead(g) ==
    /\ At(g, "finalizeRead")
    /\ \E a \in go[g].agents :
        LET rec == [go[g] EXCEPT !.agents = @ \ {a}]
        IN  IF agentStatus[a] \in {"paused", "terminated"}
            THEN go' = [go EXCEPT ![g] = AfterFinalize(rec)]
            ELSE go' = [go EXCEPT ![g] =
                    [rec EXCEPT !.pc = "finalizeWrite", !.target = a,
                                !.status = NextAgentStatus(a, FinalRunStatus(g))]]
    /\ UNCHANGED <<run, request, agentStatus, hardStopped, cancelFns, reapList,
                   disturbances, claimed>>

FinalizeWrite(g) ==
    /\ At(g, "finalizeWrite")
    /\ agentStatus' = [agentStatus EXCEPT ![go[g].target] = go[g].status]
    /\ go' = [go EXCEPT ![g] = AfterFinalize(
                [go[g] EXCEPT !.target = NoAgent, !.status = "idle"])]
    /\ UNCHANGED <<run, request, hardStopped, cancelFns, reapList, disturbances, claimed>>

-----------------------------------------------------------------------------
(* CancelBudgetScopeWork, the hook that runs after a hard stop.             *)

InScope(a, s) == s \in {a, Company}

AfterHook(rec) == IF rec.run = NoRun THEN Idle
                  ELSE [rec EXCEPT !.pc = "save", !.scope = NoScope]

HookListRuns(g) ==
    /\ At(g, "hookList")
    /\ LET listed == {r \in Runs : /\ run[r].status \in Active
                                   /\ InScope(run[r].agent, go[g].scope)}
           agents == {run[r].agent : r \in listed}
       IN  go' = [go EXCEPT ![g] =
                    IF listed = {} THEN AfterHook(go[g])
                    ELSE [go[g] EXCEPT !.pc = "hookUpdate", !.listed = listed,
                                       !.agents = agents]]
    /\ UNCHANGED <<run, request, agentStatus, hardStopped, cancelFns, reapList,
                   disturbances, claimed>>

\* UPDATE ... SET status = 'cancelled' WHERE id IN (listed) AND status IN (active)
HookCancelRuns(g) ==
    /\ At(g, "hookUpdate")
    /\ run' = [r \in Runs |-> IF r \in go[g].listed /\ run[r].status \in Active
                              THEN [run[r] EXCEPT !.status = "cancelled"] ELSE run[r]]
    /\ go' = [go EXCEPT ![g].pc = "hookRequests"]
    /\ UNCHANGED <<request, agentStatus, hardStopped, cancelFns, reapList,
                   disturbances, claimed>>

\* Goroutine h after cancelBudgetRun(r): the context registered for r is done.
Signalled(h, r) == [go[h] EXCEPT !.ctxDone = @ \/ h \in cancelFns[r]]

\* One turn of the loop: the request of a listed run, and its registered context.
HookCancelRequest(g) ==
    /\ At(g, "hookRequests")
    /\ \E r \in go[g].listed :
        /\ request' = [request EXCEPT ![r] = "cancelled"]
        /\ go' = [h \in Goroutines |->
                    IF h # g THEN Signalled(h, r)
                    ELSE [Signalled(g, r) EXCEPT !.listed = @ \ {r},
                            !.pc = IF go[g].listed = {r} THEN "finalizeRead" ELSE @]]
    /\ UNCHANGED <<run, agentStatus, hardStopped, cancelFns, reapList, disturbances, claimed>>

-----------------------------------------------------------------------------
(* The board operator.                                                      *)

OperatorActs ==
    /\ Disturb
    /\ reapList = {}
    /\ UNCHANGED <<request, hardStopped, go, cancelFns, reapList, claimed>>

\* POST /heartbeat-runs/:runId/cancel, whatever the status of the run.
CancelHeartbeatRun(r) ==
    /\ OperatorActs
    /\ run[r].status \notin {"none", "inserted"}
    /\ run' = [run EXCEPT ![r].status = "cancelled"]
    /\ UNCHANGED agentStatus

\* POST /agents/:id/pause, /resume and /terminate, whatever the agent's status.
SetAgentStatus(a, status) ==
    /\ OperatorActs
    /\ status \in {"paused", "active", "terminated"}
    /\ agentStatus' = [agentStatus EXCEPT ![a] = status]
    /\ UNCHANGED run

-----------------------------------------------------------------------------
(* The server crashes and restarts: goroutines and their memory are gone,   *)
(* the rows stay, and ReapOrphanedRuns begins by reading the running runs.  *)

Restart(found) ==
    /\ Disturb
    /\ go' = [g \in Goroutines |-> Idle]
    /\ cancelFns' = [r \in Runs |-> {}]
    /\ reapList' = found
    /\ UNCHANGED <<run, request, agentStatus, hardStopped, claimed>>

Crash == Restart({r \in Runs : run[r].status = "running"})

\* The query fails: main logs the error and serves.
CrashUnreaped == StatementsFail /\ Restart({})

\* The rest of a turn of its loop, after the run r: resumeNextRun.
NextAfterReap(r) ==
    /\ r \in reapList
    /\ reapList' = reapList \ {r}
    /\ LET a == run[r].agent
       IN  \/ /\ Queued(a) = {}
              /\ go' = go
           \/ \E s \in Runs, g \in Goroutines :
                /\ IsOldestQueued(s, a)
                /\ Free(g)
                /\ go' = [go EXCEPT ![g] = [Idle EXCEPT !.pc = "load", !.run = s,
                                                        !.agent = a]]
    /\ UNCHANGED <<request, agentStatus, hardStopped, cancelFns, claimed>>

\* No process id was saved while the run executed, so no process is found alive:
\* the run is saved ...
ReapRun(r) ==
    /\ NextAfterReap(r)
    /\ run' = [run EXCEPT ![r].status = "completed"]
    /\ disturbances' = disturbances

\* ... or the Save fails, and its error is ignored.
ReapRunSaveFails(r) ==
    /\ StatementFails
    /\ NextAfterReap(r)
    /\ run' = run

Reap(r) == ReapRun(r) \/ ReapRunSaveFails(r)

-----------------------------------------------------------------------------
Step(g) ==
    \/ InsertRun(g) \/ CommitRun(g) \/ RollBackRun(g)
    \/ CoalesceWithQueued(g) \/ CoalesceWithRunning(g)
    \/ CountRunning(g) \/ PickQueued(g)
    \/ ClaimSucceeds(g, "claim", "load") \/ ClaimFails(g, "claim")
    \/ LoadRun(g)
    \/ ClaimSucceeds(g, "startClaim", "setup") \/ ClaimFails(g, "startClaim")
    \/ SetupFails(g) \/ SetupBlocked(g) \/ SetupBlockedSaveFails(g) \/ SetupPasses(g)
    \/ MarkRunning(g) \/ MarkRunningSaveFails(g) \/ RegisterCancel(g)
    \/ \E outcome \in {"completed", "failed"} : ExecuteReturns(g, outcome)
    \/ LoadRunStatus(g) \/ LoadRunStatusFails(g) \/ CostWithinBudget(g)
    \/ SaveRun(g) \/ SaveRunFails(g) \/ ResumeNextRun(g)
    \/ FinalizeRead(g) \/ FinalizeWrite(g)
    \/ HookListRuns(g) \/ HookCancelRuns(g) \/ HookCancelRequest(g)

Environment ==
    \/ \E g \in Goroutines, a \in Agents : WakeupCheck(g, a)
    \/ \E g \in Goroutines, s \in Scopes :
        CostReachesHardStop(g, s) \/ ReportedCostReachesHardStop(g, s)
    \/ \E r \in Runs : CancelHeartbeatRun(r)
    \/ \E a \in Agents, status \in AgentStatus : SetAgentStatus(a, status)
    \/ Crash \/ CrashUnreaped

Next ==
    \/ \E g \in Goroutines : Step(g)
    \/ Environment
    \/ \E r \in Runs : Reap(r)

Spec == Init /\ [][Next]_vars

\* The Go scheduler runs every goroutine, and agents end.
GoroutineFairness ==
    /\ \A g \in Goroutines : WF_vars(Step(g))
    /\ \A r \in Runs : WF_vars(Reap(r))

\* The ticker fires again and again; the bound on goroutines may delay it.
TimerFairness ==
    \A a \in Agents : SF_vars(\E g \in Goroutines : TimerWakeup(g, a))

FairSpec == Spec /\ GoroutineFairness
TimerSpec == FairSpec /\ TimerFairness

-----------------------------------------------------------------------------
(* Properties.                                                              *)

GoroutineType ==
    [pc : PCs, agent : Agents \cup {NoAgent}, run : Runs \cup {NoRun},
     outcome : {"none", "completed", "failed", "cancelled"},
     scope : Scopes \cup {NoScope}, listed : SUBSET Runs, agents : SUBSET Agents,
     target : Agents \cup {NoAgent}, status : AgentStatus, ctxDone : BOOLEAN]

\* Every variable has its type: the columns hold the statuses the code writes,
\* and a goroutine's locals are values it can have read.
TypeOK ==
    /\ run \in [Runs -> [status : RunStatus, agent : Agents \cup {NoAgent}]]
    /\ request \in [Runs -> RequestStatus]
    /\ agentStatus \in [Agents -> AgentStatus]
    /\ hardStopped \subseteq Scopes
    /\ go \in [Goroutines -> GoroutineType]
    /\ cancelFns \in [Runs -> SUBSET Goroutines]
    /\ reapList \subseteq Runs
    /\ disturbances \in 0..MaxDisturbances
    /\ claimed \subseteq Runs

\* Seen as a queue, the table behaves as RunQueue says: a run enters it once,
\* is claimed at most once whichever goroutine wins, and only after it was found
\* the oldest one visible; it is never queued again (claimQueuedRun,
\* heartbeat.go:151; the ORDER BY of its callers).
Looking(g) == go[g].pc \in {"claim", "load", "startClaim"}
Queue == INSTANCE RunQueue WITH
    owner <- [r \in Runs |-> IF run[r].status = "none" THEN {} ELSE {run[r].agent}],
    pending <- {r \in Runs : run[r].status = "inserted"},
    waiting <- {r \in Runs : run[r].status = "queued"},
    found <- {r \in Runs : /\ run[r].status = "queued"
                           /\ \E g \in Goroutines : Looking(g) /\ go[g].run = r},
    taken <- claimed
ImplementsQueue == Queue!QueueSpec

\* The goroutine g works on run r and has not written its final status yet.
Tracks(g, r) ==
    /\ go[g].run = r
    /\ \/ go[g].pc \in TrackingPCs
       \/ go[g].pc \in HookPCs \cup FinalizePCs /\ go[g].scope # NoScope

\* No goroutine prepares or executes a run that nobody claimed, although StartRun
\* skips the claim of a run it reads as "starting" (heartbeat.go:232).
OnlyClaimedRunsExecute ==
    \A g \in Goroutines :
        (At(g, "setup") \/ At(g, "mark") \/ (\E r \in Runs : Tracks(g, r)))
            => go[g].run \in claimed

\* As long as no statement fails, a run in status "running" is one that
\* a live goroutine will still finish, or one the reaper has in its list: the
\* count that ResumeQueuedRuns compares with the limit never includes a run
\* nobody will ever end (heartbeat.go:136).
RunningHasTracker ==
    \A r \in Runs : run[r].status = "running" =>
        r \in reapList \/ \E g \in Goroutines : Tracks(g, r)

\* A run cancelled while it waited in the queue stays cancelled and is never
\* claimed, however stale the goroutines that picked it (heartbeat.go:233).
CancelledInQueueIsFinal ==
    [][\A r \in Runs :
        run[r].status = "cancelled" /\ r \notin claimed
            => run'[r].status = "cancelled" /\ r \notin claimed']_vars

\* A running run is left without a goroutine that will finish it, and outside
\* the reaper's list, by a statement that failed on that run only (the read of its
\* status or the Save after it, heartbeat.go:428 and :449; the reaper's query or
\* Save, :171 and :199): no start, crash, cancellation, hook or second execution
\* loses it.
Tracked(r) == r \in reapList \/ \E g \in Goroutines : Tracks(g, r)
Lost(r) == run[r].status = "running" /\ ~Tracked(r)
FailsOn(r) ==
    \/ \E g \in Goroutines : go[g].run = r /\ (LoadRunStatusFails(g) \/ SaveRunFails(g))
    \/ ReapRunSaveFails(r) \/ CrashUnreaped
LostByFailedStatement == [][\A r \in Runs : ~Lost(r) /\ Lost(r)' => FailsOn(r)]_vars

\* With the timer on, an agent that is wakeable again and again has none of its
\* runs queued for ever, in spite of the starts that fail and leave no goroutine
\* behind, the claims lost to a cancellation and the crashes; unless a failed
\* statement has lost a run, which counts against the limit until the next restart.
Wakeable(a) == agentStatus[a] \notin {"paused", "terminated"} /\ ~Blocked(a)
QueuedRun(r, a) == run[r].status = "queued" /\ run[r].agent = a
TimerDrainsQueue ==
    \A a \in Agents : []<>Wakeable(a) /\ []<>RunningHasTracker =>
        \A r \in Runs : QueuedRun(r, a) ~> ~QueuedRun(r, a)

-----------------------------------------------------------------------------
(* What comments and documents of the repository say, and the code does not  *)
(* do: TLC refutes each of them, and README.md says how.                     *)

\* heartbeat.go:127, "respecting concurrency limits".
RunningWithinLimit == \A a \in Agents : Cardinality(RunningOf(a)) <= MaxConcurrentRuns

\* heartbeat.go:231, "Check if run is already starting or running (idempotency)":
\* two goroutines are never inside Runner.Execute with the same run.
RunExecutedByOne ==
    \A g, h \in Goroutines :
        At(g, "execute") /\ At(h, "execute") /\ g # h => go[g].run # go[h].run

\* doc/SPEC-implementation.md:829, "Autonomous reaping of orphaned runs": a run
\* that was claimed and not finished has a goroutine, or the reaper has it.
StartingHasGoroutine ==
    \A r \in Runs : run[r].status = "starting" =>
        r \in reapList \/ \E g \in Goroutines : go[g].run = r

\* The budget plan, "do not start a new heartbeat" when a scope is budget-paused.
NoStartWhenHardStopped ==
    [][\A r \in Runs : run[r].status # "running" /\ run'[r].status = "running"
            => ~Blocked(run[r].agent)]_vars
=============================================================================
