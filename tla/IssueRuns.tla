------------------------------ MODULE IssueRuns ------------------------------
(***************************************************************************)
(* The heartbeat service of the Node server: how wakeups of agents about    *)
(* an issue become runs, how the issue's execution lock decides which of    *)
(* them waits, how a queued run is claimed and executed, and how a run that *)
(* ends hands the issue over to the oldest wakeup that waited for it.       *)
(*                                                                          *)
(* The server is one process, but every await is a point where another      *)
(* request, timer or run may go on.  A call in progress is a thread; its    *)
(* stack of frames is the chain of calls that await one another.  Several   *)
(* instances of the service share the table of child processes and the      *)
(* start locks, but the set activeRunExecutions belongs to one instance:    *)
(* the reaper sees the executions of its own instance only.                 *)
(***************************************************************************)
EXTENDS Integers, Sequences, FiniteSets, FiniteSetsExt

CONSTANTS
    Agents,         \* agents, one name each
    LocalAgents,    \* those whose adapter tracks a local child process
    Issues,
    MaxRuns,        \* rows of heartbeat_runs, numbered as they are created
    MaxWakes,       \* calls of enqueueWakeup, numbered as they are made
    MaxConcurrent,  \* maxConcurrentRuns of every agent
    MaxEvents,      \* how often each of Events may happen
    MaxTotal,       \* how many of them may happen together
    Ticking,        \* whether the interval fires: heartbeatSchedulerEnabled
    NoAgent

ASSUME RunConstants ==
    /\ LocalAgents \subseteq Agents /\ NoAgent \notin Agents
    /\ MaxConcurrent \in 1..10
    /\ MaxRuns \in Nat \ {0} /\ MaxWakes \in Nat
    /\ Issues \subseteq Nat \ {0}
    /\ Ticking \in BOOLEAN

Runs   == 1..MaxRuns
Wakes  == 1..MaxWakes
None   == 0
Events == {"crash", "cancel", "pause", "budget", "comment", "mention"}

VARIABLES
    invokable,   \* agents.status is not paused: whether an agent may run
    blocked,     \* the company is stopped by its budget
    run,         \* heartbeat_runs
    lock,        \* issues.executionRunId
    lockName,    \* issues.executionAgentNameKey
    wake,        \* agent_wakeup_requests made by enqueueWakeup
    stack,       \* the frames of each thread, innermost first
    startLock,   \* startLocksByAgent: the thread that runs under the lock
    events       \* how often each event has happened, to bound it

rows == <<invokable, blocked, run, lock, lockName, wake>>
vars == <<rows, stack, startLock, events>>

Boot         == <<"boot", 0>>
Timer        == <<"timer", 0>>
BudgetStopper == <<"budget", 0>>
Waker(w)     == <<"wake", w>>
Executor(r)  == <<"exec", r>>
Canceller(r) == <<"cancel", r>>
Pauser(a)    == <<"pause", a>>
Threads ==
    {Boot, Timer, BudgetStopper} \cup {Waker(w) : w \in Wakes} \cup {Executor(r) : r \in Runs}
        \cup {Canceller(r) : r \in Runs} \cup {Pauser(a) : a \in Agents}
NoThread == <<"none", 0>>

(* A frame: the function and where it stands, the instance of the service   *)
(* it is called on, its run and agent, the runs it still has to go through  *)
(* and those it has claimed.                                                *)
Frame(at, home, r, a, todo) ==
    [at |-> at, home |-> home, run |-> r, agent |-> a, todo |-> todo, got |-> {}]

Top(t)     == Head(stack[t])
At(t, at)  == stack[t] # <<>> /\ Top(t).at = at
Frames(t, s) == stack' = [stack EXCEPT ![t] = s \o Tail(@)]
Goto(t, f) == Frames(t, <<f>>)
Return(t)  == Frames(t, <<>>)

StartFrame(a, home) == Frame("start", home, None, a, {})

NoRun  == [status |-> "none", agent |-> NoAgent, issue |-> None, why |-> "none",
           child |-> "none", losses |-> 0]
NoWake == [status |-> "none", agent |-> NoAgent, issue |-> None]
Settled(status) == [NoWake EXCEPT !.status = status]

(* Mutant: a run takes the status of the wakeup that made it. *)
QueuedAsDeferred(a, i, why, losses) ==
    [NoRun EXCEPT !.status = "deferred", !.agent = a, !.issue = i, !.why = why, !.losses = losses]

Queued(a, i, why, losses) ==
    [NoRun EXCEPT !.status = "queued", !.agent = a, !.issue = i, !.why = why, !.losses = losses]

Live(r)      == run[r].status \in {"queued", "running"}
RunsOf(a, s) == {r \in Runs : run[r].agent = a /\ run[r].status = s}
LiveOn(i)    == {r \in Runs : run[r].issue = i /\ Live(r)}
Running      == {r \in Runs : run[r].status = "running"}

NextRun == Cardinality({r \in Runs : run[r].status # "none"}) + 1
Room    == NextRun <= MaxRuns

Happens(e) ==
    /\ events[e] < MaxEvents[e] /\ MapThenSumSet(LAMBDA x : events[x], Events) < MaxTotal
    /\ events' = [events EXCEPT ![e] = @ + 1]

Init ==
    /\ invokable = [a \in Agents |-> TRUE]
    /\ blocked = FALSE
    /\ run = [r \in Runs |-> NoRun]
    /\ lock = [i \in Issues |-> None]
    /\ lockName = [i \in Issues |-> NoAgent]
    /\ wake = [w \in Wakes |-> NoWake]
    /\ stack = [t \in Threads |-> <<>>]
    /\ startLock = [a \in Agents |-> NoThread]
    /\ events = [e \in Events |-> 0]

-----------------------------------------------------------------------------
(* enqueueWakeup *)

(* The run that executes an issue, as the transaction under its row lock    *)
(* sees it: the owner of the lock if it is live, else a live run of the     *)
(* issue, a running one first.                                              *)
ActiveRunOf(i) ==
    LET live == LiveOn(i) IN
    IF lock[i] # None /\ Live(lock[i]) THEN lock[i]
    ELSE IF live \cap Running # {} THEN Min(live \cap Running)
    ELSE IF live # {} THEN Min(live)
    ELSE None

DeferredFor(i) == {w \in Wakes : wake[w].status = "deferred" /\ wake[w].issue = i}

(* The next call, by an agent that may run, and what it leaves behind.      *)
Calls(w, a) ==
    /\ wake[w].status = "none"
    /\ \A v \in Wakes : v < w => wake[v].status # "none"
    /\ invokable[a] /\ ~blocked
    /\ UNCHANGED <<invokable, blocked, startLock>>

NewRun(w, a, i, why) ==
    /\ Room
    /\ run' = [run EXCEPT ![NextRun] = Queued(a, i, why, 0)]
    /\ wake' = [wake EXCEPT ![w] = Settled("queued")]
    /\ stack' = [stack EXCEPT ![Waker(w)] = <<StartFrame(a, "routes")>>]

(* A stale lock is cleared, or replaced by the live run that is found; the  *)
(* name compared is the one the issue row was read with.                    *)
WakeIssue(w, a, i, comment) ==
    LET owner == ActiveRunOf(i)
        name == IF lockName[i] # NoAgent THEN lockName[i] ELSE run[owner].agent
        followup == comment /\ run[owner].status = "running"
    IN  /\ Calls(w, a)
        /\ lock' = [lock EXCEPT ![i] = owner]
        /\ lockName' = [lockName EXCEPT ![i] =
                IF owner = lock[i] THEN @ ELSE IF owner = None THEN NoAgent ELSE run[owner].agent]
        /\ \/ /\ owner # None /\ name = a /\ ~followup
              /\ wake' = [wake EXCEPT ![w] = Settled("coalesced")]
              /\ UNCHANGED <<run, stack>>
           \/ /\ owner # None /\ (name # a \/ followup)
              /\ wake' = [wake EXCEPT ![w] =
                    IF \E v \in DeferredFor(i) : wake[v].agent = a THEN Settled("merged")
                    ELSE [status |-> "deferred", agent |-> a, issue |-> i]]
              /\ UNCHANGED <<run, stack>>
           \/ owner = None /\ NewRun(w, a, i, "wake")
        /\ UNCHANGED events

(* A wakeup by a mention bypasses the lock: it coalesces with a queued run  *)
(* of its own agent on the issue, else it creates a run beside the others.  *)
WakeMention(w, a, i) ==
    /\ Calls(w, a)
    /\ Happens("mention")
    /\ IF RunsOf(a, "queued") \cap LiveOn(i) # {}
       THEN wake' = [wake EXCEPT ![w] = Settled("coalesced")] /\ UNCHANGED <<run, stack>>
       ELSE NewRun(w, a, i, "mention")
    /\ UNCHANGED <<lock, lockName>>

-----------------------------------------------------------------------------
(* startNextQueuedRunForAgent, under withAgentStartLock *)

(* Mutant: one slot too many. *)
StartPickOneMore(t) ==
    LET f == Top(t)
        queued == RunsOf(f.agent, "queued")
        slots == MaxConcurrent - Cardinality(RunsOf(f.agent, "running"))
        picked == {r \in queued : Cardinality({q \in queued : q < r}) <= slots}
    IN  /\ At(t, "start") /\ startLock[f.agent] = NoThread
        /\ IF invokable[f.agent] /\ picked # {}
           THEN /\ startLock' = [startLock EXCEPT ![f.agent] = t]
                /\ Goto(t, [f EXCEPT !.at = "claim", !.todo = picked])
           ELSE Return(t) /\ UNCHANGED startLock
        /\ UNCHANGED <<rows, events>>

StartPick(t) ==
    LET f == Top(t)
        queued == RunsOf(f.agent, "queued")
        slots == MaxConcurrent - Cardinality(RunsOf(f.agent, "running"))
        picked == {r \in queued : Cardinality({q \in queued : q < r}) < slots}
    IN  /\ At(t, "start") /\ startLock[f.agent] = NoThread
        /\ IF invokable[f.agent] /\ picked # {}
           THEN /\ startLock' = [startLock EXCEPT ![f.agent] = t]
                /\ Goto(t, [f EXCEPT !.at = "claim", !.todo = picked])
           ELSE Return(t) /\ UNCHANGED startLock
        /\ UNCHANGED <<rows, events>>

CancelFrame(r, home) == Frame("cancel", home, r, run[r].agent, {})

(* claimQueuedRun of the next picked run: refused, it is cancelled by the   *)
(* whole of cancelRunInternal, which is awaited; claimed, the issue's lock  *)
(* is stamped next.                                                         *)
ClaimRefused(t) ==
    LET f == Top(t)
        r == Min(f.todo)
    IN  /\ At(t, "claim") /\ f.todo # {}
        /\ ~invokable[f.agent] \/ blocked
        /\ Frames(t, <<CancelFrame(r, f.home), [f EXCEPT !.todo = @ \ {r}]>>)
        /\ UNCHANGED <<rows, startLock, events>>

ClaimRun(t) ==
    LET f == Top(t)
        r == Min(f.todo)
    IN  /\ At(t, "claim") /\ f.todo # {}
        /\ invokable[f.agent] /\ ~blocked
        /\ IF run[r].status = "queued"
           THEN /\ run' = [run EXCEPT ![r].status = "running"]
                /\ Goto(t, [f EXCEPT !.at = "stamp", !.run = r])
           ELSE Goto(t, [f EXCEPT !.todo = @ \ {r}]) /\ UNCHANGED run
        /\ UNCHANGED <<invokable, blocked, lock, lockName, wake, startLock, events>>

(* Mutant: the stamp does not ask whether the lock is free. *)
ClaimStampAlways(t) ==
    LET f == Top(t)
        i == run[f.run].issue
    IN  /\ At(t, "stamp")
        /\ lock' = [lock EXCEPT ![i] = f.run]
        /\ lockName' = [lockName EXCEPT ![i] = f.agent]
        /\ Goto(t, [f EXCEPT !.at = "claim", !.run = None,
                             !.todo = @ \ {f.run}, !.got = @ \cup {f.run}])
        /\ UNCHANGED <<invokable, blocked, run, wake, startLock, events>>

ClaimStamp(t) ==
    LET f == Top(t)
        i == run[f.run].issue
        free == lock[i] \in {None, f.run}
    IN  /\ At(t, "stamp")
        /\ lock' = IF free THEN [lock EXCEPT ![i] = f.run] ELSE lock
        /\ lockName' = IF free THEN [lockName EXCEPT ![i] = f.agent] ELSE lockName
        /\ Goto(t, [f EXCEPT !.at = "claim", !.run = None,
                             !.todo = @ \ {f.run}, !.got = @ \cup {f.run}])
        /\ UNCHANGED <<invokable, blocked, run, wake, startLock, events>>

(* The executions are started without being awaited and the lock is let go. *)
StartRuns(t) ==
    LET f == Top(t) IN
    /\ At(t, "claim") /\ f.todo = {}
    /\ stack' = [u \in Threads |->
            IF u = t THEN Tail(stack[t])
            ELSE IF \E r \in f.got : u = Executor(r)
            THEN <<Frame("begin", f.home, u[2], f.agent, {})>>
            ELSE stack[u]]
    /\ startLock' = [startLock EXCEPT ![f.agent] = NoThread]
    /\ UNCHANGED <<rows, events>>

-----------------------------------------------------------------------------
(* Mutant: the lock is cleared and nobody is promoted. *)
ReleaseForgets(t, r, rest) ==
    /\ lock' = [i \in Issues |-> IF lock[i] = r THEN None ELSE lock[i]]
    /\ lockName' = [i \in Issues |-> IF lock[i] = r THEN NoAgent ELSE lockName[i]]
    /\ Frames(t, rest)
    /\ UNCHANGED <<run, wake>>

(* releaseIssueExecutionAndPromote: in one transaction the lock of the      *)
(* issue that run r holds goes to a new run for the oldest deferred wakeup  *)
(* whose agent may run; older ones fail.  The promoted run's agent is       *)
(* started, and awaited, before the caller goes on with the frames `rest`.  *)
Release(t, r, rest) ==
    LET i == CHOOSE x \in Issues : lock[x] = r
        able == {w \in DeferredFor(i) : invokable[wake[w].agent]}
        first == Min(able)
        a == wake[first].agent
        passed == {w \in DeferredFor(i) : able = {} \/ w < first}
        failed == [w \in Wakes |-> IF w \in passed THEN Settled("failed") ELSE wake[w]]
    IN  \/ /\ \A x \in Issues : lock[x] # r
           /\ Frames(t, rest)
           /\ UNCHANGED <<run, lock, lockName, wake>>
        \/ /\ \E x \in Issues : lock[x] = r
           /\ able = {}
           /\ lock' = [lock EXCEPT ![i] = None]
           /\ lockName' = [lockName EXCEPT ![i] = NoAgent]
           /\ wake' = failed
           /\ Frames(t, rest)
           /\ UNCHANGED run
        \/ /\ \E x \in Issues : lock[x] = r
           /\ able # {} /\ Room
           /\ run' = [run EXCEPT ![NextRun] = Queued(a, i, "wake", 0)]
           /\ lock' = [lock EXCEPT ![i] = NextRun]
           /\ lockName' = [lockName EXCEPT ![i] = a]
           /\ wake' = [failed EXCEPT ![first] = Settled("queued")]
           /\ Frames(t, <<StartFrame(a, Top(t).home)>> \o rest)

(* A new run for the agent of run r, which hands over the lock it holds.    *)
Retry(r, why, losses) ==
    LET i == run[r].issue
        a == run[r].agent
    IN  /\ Room
        /\ run' = [run EXCEPT ![NextRun] = Queued(a, i, why, losses)]
        /\ lock' = [lock EXCEPT ![i] = IF @ = r THEN NextRun ELSE @]
        /\ lockName' = [lockName EXCEPT ![i] = IF lock[i] = r THEN a ELSE @]
        /\ UNCHANGED wake

RetryLost(r) == Retry(r, "lost", run[r].losses + 1)

(* A run that had to comment on its issue is followed by one retry, if it   *)
(* still holds the lock.                                                    *)
CommentOwed(r)  == run[r].why # "comment" /\ lock[run[r].issue] = r
RetryComment(r) == CommentOwed(r) /\ Retry(r, "comment", 0)

-----------------------------------------------------------------------------
(* executeRun *)

ExecBegin(r) ==
    LET t == Executor(r) IN
    /\ At(t, "begin")
    /\ IF Live(r)
       THEN /\ run' = [run EXCEPT ![r].child = IF run[r].agent \in LocalAgents THEN "alive" ELSE @]
            /\ Goto(t, [Top(t) EXCEPT !.at = "adapter"])
       ELSE Return(t) /\ UNCHANGED run
    /\ UNCHANGED <<invokable, blocked, lock, lockName, wake, startLock, events>>

(* adapter.execute returns and the run is read once more; or it throws and  *)
(* the run is not read again.  The outcome is where the frame goes on.      *)
ExecReturn(r) ==
    LET t == Executor(r) IN
    /\ At(t, "adapter")
    /\ \E outcome \in {"finished", "cancelled"} :
         /\ outcome = "cancelled" => run[r].status = "cancelled"
         /\ Goto(t, [Top(t) EXCEPT !.at = outcome])
    /\ run' = [run EXCEPT ![r].child = IF @ = "alive" THEN "dead" ELSE @]
    /\ UNCHANGED <<invokable, blocked, lock, lockName, wake, startLock, events>>

ExecRecord(r) ==
    LET t == Executor(r) IN
    /\ At(t, "finished") \/ At(t, "cancelled")
    /\ run' = [run EXCEPT ![r].status = Top(t).at]
    /\ Goto(t, [Top(t) EXCEPT !.at = "ended"])
    /\ UNCHANGED <<invokable, blocked, lock, lockName, wake, startLock, events>>

(* Mutant: the issue is not released when an execution ends. *)
ExecReleaseNothing(r) ==
    /\ At(Executor(r), "ended")
    /\ Goto(Executor(r), StartFrame(run[r].agent, Top(Executor(r)).home))
    /\ UNCHANGED <<rows, startLock, events>>

(* finalizeIssueCommentPolicy, then the release: the lock goes to the retry *)
(* of a run that has not commented, else to whoever waits.  At last the     *)
(* next run of the agent is started.                                        *)
ExecRelease(r) ==
    LET t == Executor(r)
        rest == <<StartFrame(run[r].agent, Top(t).home)>>
    IN  /\ At(t, "ended")
        /\ \/ Release(t, r, rest) /\ UNCHANGED events
           \/ RetryComment(r) /\ Happens("comment") /\ Frames(t, rest)
        /\ UNCHANGED <<invokable, blocked, startLock>>

-----------------------------------------------------------------------------
(* cancelRunInternal *)

Kill(row, r) ==
    [row EXCEPT !.status = "cancelled",
                !.child = IF @ = "alive" /\ stack[Executor(r)] # <<>> THEN "dead" ELSE @]

CancelCall(r) ==
    /\ stack[Canceller(r)] = <<>> /\ Live(r)
    /\ Happens("cancel")
    /\ stack' = [stack EXCEPT ![Canceller(r)] = <<CancelFrame(r, "routes")>>]
    /\ UNCHANGED <<rows, startLock>>

CancelSet(t) ==
    LET f == Top(t) IN
    /\ At(t, "cancel")
    /\ IF Live(f.run)
       THEN run' = [run EXCEPT ![f.run] = Kill(@, f.run)] /\ Goto(t, [f EXCEPT !.at = "cancelRelease"])
       ELSE Return(t) /\ UNCHANGED run
    /\ UNCHANGED <<invokable, blocked, lock, lockName, wake, startLock, events>>

CancelRelease(t) ==
    /\ At(t, "cancelRelease")
    /\ Release(t, Top(t).run, <<StartFrame(Top(t).agent, Top(t).home)>>)
    /\ UNCHANGED <<invokable, blocked, startLock, events>>

-----------------------------------------------------------------------------
(* A pause and cancelActiveForAgentInternal; a budget stop of the company   *)
(* and cancelBudgetScopeWork; and what ends them.                           *)

PauseCall(a) ==
    /\ stack[Pauser(a)] = <<>> /\ invokable[a]
    /\ Happens("pause")
    /\ invokable' = [invokable EXCEPT ![a] = FALSE]
    /\ stack' = [stack EXCEPT ![Pauser(a)] =
            <<Frame("pause", "routes", None, a, RunsOf(a, "queued") \cup RunsOf(a, "running"))>>]
    /\ UNCHANGED <<blocked, run, lock, lockName, wake, startLock>>

PauseNext(a) ==
    LET t == Pauser(a)
        f == Top(t)
        r == Min(f.todo)
    IN  /\ At(t, "pause")
        /\ IF f.todo = {} THEN Return(t) /\ UNCHANGED run
           ELSE /\ run' = [run EXCEPT ![r] = Kill(@, r)]
                /\ Goto(t, [f EXCEPT !.at = "pauseRelease", !.run = r, !.todo = @ \ {r}])
        /\ UNCHANGED <<invokable, blocked, lock, lockName, wake, startLock, events>>

PauseRelease(a) ==
    LET t == Pauser(a) IN
    /\ At(t, "pauseRelease")
    /\ Release(t, Top(t).run, <<[Top(t) EXCEPT !.at = "pause", !.run = None]>>)
    /\ UNCHANGED <<invokable, blocked, startLock, events>>

Resume(a) ==
    /\ ~invokable[a]
    /\ invokable' = [invokable EXCEPT ![a] = TRUE]
    /\ UNCHANGED <<blocked, run, lock, lockName, wake, stack, startLock, events>>

BudgetStop ==
    /\ stack[BudgetStopper] = <<>> /\ ~blocked
    /\ Happens("budget")
    /\ blocked' = TRUE
    /\ stack' = [stack EXCEPT ![BudgetStopper] =
            <<Frame("budget", "routes", None, NoAgent, {r \in Runs : Live(r)})>>]
    /\ UNCHANGED <<invokable, run, lock, lockName, wake, startLock>>

(* Every run of the snapshot is cancelled and awaited, one after another;   *)
(* the wakeups that wait without a run are cancelled last.                  *)
BudgetNext ==
    LET t == BudgetStopper
        f == Top(t)
        r == Min(f.todo)
    IN  /\ At(t, "budget")
        /\ \/ /\ f.todo # {}
              /\ Frames(t, <<CancelFrame(r, f.home), [f EXCEPT !.todo = @ \ {r}]>>)
              /\ UNCHANGED wake
           \/ /\ f.todo = {}
              /\ Return(t)
              /\ wake' = [w \in Wakes |->
                    IF wake[w].status = "deferred" THEN Settled("cancelled") ELSE wake[w]]
        /\ UNCHANGED <<invokable, blocked, run, lock, lockName, startLock, events>>

BudgetRaised ==
    /\ blocked /\ blocked' = FALSE
    /\ UNCHANGED <<invokable, run, lock, lockName, wake, stack, startLock, events>>

-----------------------------------------------------------------------------
(* reapOrphanedRuns, then resumeQueuedRuns: at start, and at every tick *)

ReapFrame == <<Frame("reap", "scheduler", None, NoAgent, Running)>>

Tick ==
    /\ stack[Timer] = <<>> /\ stack[Boot] = <<>>
    /\ Ticking /\ \E r \in Runs : Live(r)
    /\ stack' = [stack EXCEPT ![Timer] = ReapFrame]
    /\ UNCHANGED <<rows, startLock, events>>

(* What the reaper's own memory tells of a run: a child that this process   *)
(* spawned, or an execution of its own instance.                            *)
Tracked(r) ==
    /\ stack[Executor(r)] # <<>>
    /\ \/ run[r].child = "alive"
       \/ /\ Top(Executor(r)).home = "scheduler"
          /\ Top(Executor(r)).at \in {"adapter", "finished", "cancelled", "ended"}

(* A run that is being claimed has just been written: no tick finds it old  *)
(* enough.  The reaper at start has no threshold.                           *)
JustClaimed(r) ==
    \/ At(Executor(r), "begin")
    \/ \E t \in Threads : \E k \in DOMAIN stack[t] :
         r \in stack[t][k].got \/ (stack[t][k].at = "stamp" /\ stack[t][k].run = r)

(* A run the loop leaves alone: tracked, or possibly too young for the tick *)
(* as long as somebody is at work on it.  A child that is still alive is    *)
(* noted, by a write that sets the status to running.                       *)
ReapSkip(t) ==
    LET f == Top(t)
        r == Min(f.todo)
    IN  /\ At(t, "reap") /\ f.todo # {}
        /\ \/ /\ Tracked(r) \/ (t = Timer /\ (stack[Executor(r)] # <<>> \/ JustClaimed(r)))
              /\ UNCHANGED run
           \/ /\ ~Tracked(r) /\ run[r].child = "alive"
              /\ run' = [run EXCEPT ![r].status = "running"]
        /\ Goto(t, [f EXCEPT !.todo = @ \ {r}])
        /\ UNCHANGED <<invokable, blocked, lock, lockName, wake, startLock, events>>

(* Any other run of the snapshot is taken for lost, whatever has become of  *)
(* it since.                                                                *)
ReapFail(t) ==
    LET f == Top(t)
        r == Min(f.todo)
        lostChild == run[r].child = "dead" /\ run[r].losses < 1
    IN  /\ At(t, "reap") /\ f.todo # {}
        /\ ~Tracked(r) /\ run[r].child # "alive"
        /\ t = Timer => ~JustClaimed(r)
        /\ run' = [run EXCEPT ![r].status = "finished"]
        /\ Goto(t, [f EXCEPT !.at = IF lostChild THEN "reapRetry" ELSE "reapRelease",
                             !.run = r, !.todo = @ \ {r}])
        /\ UNCHANGED <<invokable, blocked, lock, lockName, wake, startLock, events>>

(* enqueueProcessLossRetry or the release; then the start of its agent. *)
ReapSettle(t) ==
    LET f == Top(t)
        r == f.run
        rest == <<StartFrame(run[r].agent, f.home), [f EXCEPT !.at = "reap", !.run = None]>>
    IN  /\ \/ At(t, "reapRetry") /\ RetryLost(r) /\ Frames(t, rest)
           \/ At(t, "reapRelease") /\ Release(t, r, rest)
        /\ UNCHANGED <<invokable, blocked, startLock, events>>

(* Mutant: nobody resumes the queued runs. *)
ReapResumeNobody(t) ==
    /\ At(t, "reap") /\ Top(t).todo = {}
    /\ Return(t)
    /\ UNCHANGED <<rows, startLock, events>>

(* The agents with queued runs are read, and each is started in turn. *)
ReapResume(t) ==
    /\ At(t, "reap") /\ Top(t).todo = {}
    /\ LET agents == {a \in Agents : RunsOf(a, "queued") # {}} IN
       \E order \in {s \in [1..Cardinality(agents) -> agents] :
                        \A j, k \in DOMAIN s : j # k => s[j] # s[k]} :
         Frames(t, [k \in DOMAIN order |-> StartFrame(order[k], "scheduler")])
    /\ UNCHANGED <<rows, startLock, events>>

(* The server dies and starts again: what was in memory is gone, a child    *)
(* may live on, and the reaper runs at once.                                *)
Crash ==
    /\ Happens("crash")
    /\ stack' = [t \in Threads |-> IF t = Boot THEN ReapFrame ELSE <<>>]
    /\ startLock' = [a \in Agents |-> NoThread]
    /\ UNCHANGED rows

ChildDies(r) ==
    /\ run[r].child = "alive" /\ stack[Executor(r)] = <<>>
    /\ run' = [run EXCEPT ![r].child = "dead"]
    /\ UNCHANGED <<invokable, blocked, lock, lockName, wake, stack, startLock, events>>

-----------------------------------------------------------------------------
StartStep(t)  == StartPick(t) \/ ClaimRefused(t) \/ ClaimRun(t) \/ ClaimStamp(t) \/ StartRuns(t)
CancelStep(t) == CancelSet(t) \/ CancelRelease(t)
ReapStep(t)   == ReapSkip(t) \/ ReapFail(t) \/ ReapSettle(t) \/ ReapResume(t)
ExecStep(r)   == ExecBegin(r) \/ ExecReturn(r) \/ ExecRecord(r) \/ ExecRelease(r)
PauseStep(a)  == PauseNext(a) \/ PauseRelease(a)

Next ==
    \/ \E w \in Wakes, a \in Agents, i \in Issues :
         WakeMention(w, a, i) \/ \E comment \in BOOLEAN : WakeIssue(w, a, i, comment)
    \/ \E t \in Threads : StartStep(t) \/ CancelStep(t) \/ ReapStep(t)
    \/ \E r \in Runs : ExecStep(r) \/ CancelCall(r) \/ ChildDies(r)
    \/ \E a \in Agents : PauseCall(a) \/ PauseStep(a) \/ Resume(a)
    \/ BudgetStop \/ BudgetNext \/ BudgetRaised
    \/ Tick \/ Crash

Spec == Init /\ [][Next]_vars

(* The event loop never rests while a call can go on, and serves the calls  *)
(* of the timer beside the others; executions end (an adapter has a         *)
(* timeout), children die, and the interval fires.  Nobody has to wake,     *)
(* cancel, pause or raise a budget.                                         *)
CallStep(t) == StartStep(t) \/ CancelStep(t) \/ ReapStep(t)
Work ==
    \/ \E t \in Threads \ {Timer} : CallStep(t)
    \/ \E r \in Runs : ExecStep(r) \/ ChildDies(r)
    \/ \E a \in Agents : PauseStep(a)
    \/ BudgetNext

Fairness == WF_vars(Work) /\ WF_vars(CallStep(Timer)) /\ WF_vars(Tick)

FairSpec == Spec /\ Fairness

-----------------------------------------------------------------------------
(* The type of every variable.                                              *)
TypeOK ==
    /\ invokable \in [Agents -> BOOLEAN] /\ blocked \in BOOLEAN
    /\ run \in [Runs -> [status : {"none", "queued", "running", "finished", "cancelled"},
                         agent : Agents \cup {NoAgent}, issue : Issues \cup {None},
                         why : {"none", "wake", "mention", "lost", "comment"},
                         child : {"none", "alive", "dead"}, losses : 0..1]]
    /\ lock \in [Issues -> Runs \cup {None}]
    /\ lockName \in [Issues -> Agents \cup {NoAgent}]
    /\ wake \in [Wakes -> [status : {"none", "coalesced", "merged", "deferred", "queued", "failed", "cancelled"},
                           agent : Agents \cup {NoAgent}, issue : Issues \cup {None}]]
    /\ startLock \in [Agents -> Threads \cup {NoThread}]
    /\ events \in [Events -> Nat]

(* startNextQueuedRunForAgent counts the running runs of an agent and       *)
(* claims queued ones over several awaits, beside every other caller; an    *)
(* agent still never has more runs running than its maxConcurrentRuns.      *)
WithinLimit == \A a \in Agents : Cardinality(RunsOf(a, "running")) <= MaxConcurrent

(* The execution lock of an issue is stamped, replaced, handed over and     *)
(* released by five functions; none of them takes it from a run that is     *)
(* queued or running and stays so.                                          *)
OwnerKeepsLock ==
    [][\A i \in Issues :
         lock[i] # None /\ lock'[i] # lock[i] =>
            ~Live(lock[i]) \/ run'[lock[i]].status \notin {"queued", "running"}]_vars

(* enqueueWakeup defers a wakeup to the run that executes the issue: as     *)
(* long as it waits, some run is live on the issue or holds its lock, and   *)
(* so will release it.  A run that is stopped before it has stamped the     *)
(* lock, or that the server forgets, may leave nobody.                      *)
Undisturbed == \A e \in {"crash", "cancel", "pause", "budget"} : events[e] = 0
DeferredHasOwner ==
    Undisturbed => \A i \in Issues : DeferredFor(i) # {} => LiveOn(i) # {} \/ lock[i] # None

(* A wakeup that waits for an issue becomes a run or is settled, unless the *)
(* server dies between the end of a run and the release of its issue.       *)
DeferredIsServed ==
    \A w \in Wakes :
      wake[w].status = "deferred" ~> (wake[w].status # "deferred" \/ events["crash"] > 0)

(* "make sure persisted queued work is still being driven forward"          *)
(* (server/src/index.ts:613): a queued run leaves the queue, unless its     *)
(* agent may not run.                                                       *)
QueuedIsDriven ==
    \A r \in Runs : run[r].status = "queued" ~>
        (run[r].status # "queued" \/ blocked \/ ~invokable[run[r].agent])

(* "Allow cross-agent wake requests, but do not run them until the current  *)
(* issue runner exits" (doc/plans/2026-02-20-issue-run-orchestration-plan): *)
(* two adapters never work on an issue together, mentions left aside.       *)
Executing(r) == At(Executor(r), "adapter")
ExclusiveExecution ==
    \A r, q \in Runs :
      r # q /\ Executing(r) /\ Executing(q) /\ run[r].issue = run[q].issue
        => "mention" \in {run[r].why, run[q].why}
==============================================================================
