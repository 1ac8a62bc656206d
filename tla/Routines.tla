------------------------------ MODULE Routines ------------------------------
(***************************************************************************)
(* One routine of the Node server: the scheduler's ticks and the manual     *)
(* runs that dispatch it, the transaction of a dispatch with the issue and  *)
(* the heartbeat run made outside of it, and what of heartbeat runs decides *)
(* whether the next dispatch finds the routine busy: their starts and ends, *)
(* the retry of one that was lost, and the wakeups of comments, deferred    *)
(* while the issue is executed.                                             *)
(*                                                                          *)
(* The trigger is a schedule that falls due at every instant of the clock.  *)
(* A dispatch holds the lock of the routine's row from its first statement  *)
(* to its commit; the issue and the heartbeat run are committed on their    *)
(* own connections before that.                                             *)
(***************************************************************************)
EXTENDS Integers, FiniteSets

CONSTANTS
    Callers,           \* ticks and manual requests in progress at a time
    Keys,              \* idempotency keys that manual requests give
    MaxTime,           \* instants of the clock
    MaxRuns,           \* rows of routine_runs ever made
    Policies,          \* the concurrencyPolicy and the catchUpPolicy the routine may have
    CatchUps,
    MAX_CATCH_UP_RUNS,
    MaxConcurrentRuns, \* heartbeat runs the agent may have running
    MaxEvents          \* crashes, edits, faults, comments and issues blocked or reopened, together

ASSUME RoutineConstants ==
    /\ -1 \notin Callers /\ 0 \notin Callers
    /\ {MaxTime, MaxRuns, MaxEvents} \subseteq Nat
    /\ "coalesce_if_active" \in Policies   \* the default
    /\ Policies \subseteq {"coalesce_if_active", "skip_if_active", "always_enqueue"}
    /\ CatchUps \subseteq {"skip_missed", "enqueue_missed_with_cap"}
    /\ {MAX_CATCH_UP_RUNS, MaxConcurrentRuns} \subseteq Nat \ {0}

None   == 0
Nobody == 0
NoKey  == 0
Runs   == 1..MaxRuns
Times  == 0..MaxTime

VARIABLES
    now,
    routine,    \* status, concurrencyPolicy, catchUpPolicy
    trigger,    \* enabled and nextRunAt of the schedule trigger
    lock,       \* who holds the routine's row
    caller,     \* where each tick or manual request is
    run,        \* routine_runs
    issue,      \* the execution issues: issue r is the one run r made
    beat,       \* the heartbeat run that was queued last for issue r
    again,      \* what brings an issue back to life, and which it has
    start,      \* the start of queued heartbeat runs in progress, one per agent
    fired,      \* how often each due time was taken by a tick
    events      \* how many there were, to bound them, and which

vars == <<now, routine, trigger, lock, caller, run, issue, beat, again, start, fired, events>>

NoRun   == [status |-> "none", into |-> None, key |-> NoKey,
            policy |-> "none"]   \* policy: not a column, the one that let it go ahead
NoIssue == [status |-> "none", exec |-> None]
Idle    == [at |-> "idle", key |-> NoKey, ofTrigger |-> FALSE, policy |-> "none",
            next |-> 0, claim |-> 0, left |-> 0, run |-> None]   \* next: as read of the trigger, then to be written to it
NoStart == [by |-> Nobody, todo |-> {}, claimed |-> {}]
Agent   == -1   \* a start nobody waits for: the timer's, or that of a run that has ended

Init ==
    /\ now = 0
    /\ routine \in [status : {"active"}, policy : {"coalesce_if_active"}, catchUp : CatchUps]
    /\ trigger = [enabled |-> TRUE, next |-> 0]
    /\ lock = Nobody /\ start = NoStart
    /\ caller = [t \in Callers |-> Idle]
    /\ run = [r \in Runs |-> NoRun]
    /\ issue = [r \in Runs |-> NoIssue]
    /\ beat = [r \in Runs |-> "none"]
    /\ again = [deferred |-> {}, retried |-> {}, revived |-> {}]
    /\ fired = [n \in Times |-> 0]
    /\ events = [total |-> 0, crashed |-> FALSE, outlived |-> FALSE, reopened |-> FALSE]

Happens == events.total < MaxEvents /\ events' = [events EXCEPT !.total = @ + 1]

Least(S) == CHOOSE x \in S : \A y \in S : x <= y

At(t, at)   == caller[t].at = at
Goto(t, at) == caller' = [caller EXCEPT ![t].at = at]
InTx        == {"create", "wake", "start", "finish", "fail"}

OPEN_ISSUE_STATUSES == {"todo", "blocked"}   \* todo: backlog, todo, in_progress or in_review
Open(i) == issue[i].status \in OPEN_ISSUE_STATUSES

(* LIVE_HEARTBEAT_RUN_STATUSES: queued or running in the table, whether or  *)
(* not anybody executes the run: "lost" is one that never was, "orphaned"   *)
(* one whose process was started by a server that has crashed.              *)
Executing  == {"claimed", "running", "lost", "orphaned"}
Live(b)    == beat[b] \in Executing \cup {"queued"}
Occupied   == {b \in Runs : beat[b] \in Executing}

(* Mutant: only the issue that is locked by a live heartbeat run counts. *)
LiveExecutionIssuesLocked == {i \in Runs : Open(i) /\ issue[i].exec # None /\ Live(i)}

(* findLiveExecutionIssue: open, and locked by, or named in the context of, *)
(* a heartbeat run that is live.                                            *)
LiveExecutionIssues == {i \in Runs : Open(i) /\ Live(i)}

-----------------------------------------------------------------------------
(* nextCronTickInTimeZone.                                                  *)
NextTick(after) == after + 1

(* What a tick takes of a trigger that is due: one run and the next time    *)
(* from now, or the missed runs up to the cap and the time they reach.      *)
RunCount(n) ==
    IF routine.catchUp = "skip_missed" THEN 1
    ELSE LET missed == now - n + 1
         IN  IF missed < MAX_CATCH_UP_RUNS THEN missed ELSE MAX_CATCH_UP_RUNS
ClaimedNext(n) ==
    IF routine.catchUp = "skip_missed" THEN NextTick(now) ELSE n + RunCount(n)

DueRead(t) ==
    /\ At(t, "idle")
    /\ trigger.enabled /\ routine.status = "active" /\ trigger.next <= now
    /\ caller' = [caller EXCEPT ![t] = [Idle EXCEPT !.at = "claim", !.ofTrigger = TRUE, !.policy = routine.policy,
                                        !.next = trigger.next, !.claim = ClaimedNext(trigger.next),
                                        !.left = RunCount(trigger.next)]]
    /\ UNCHANGED <<now, routine, trigger, lock, run, issue, beat, again, start, fired, events>>

(* Mutant: the trigger is claimed whatever became of it since it was read. *)
ClaimableAlways(t) == trigger.enabled

Claimable(t) == trigger.enabled /\ trigger.next = caller[t].next

Claim(t) ==
    /\ At(t, "claim")
    /\ IF Claimable(t)
       THEN /\ trigger' = [trigger EXCEPT !.next = caller[t].claim]
            /\ fired' = [n \in Times |-> IF n \in caller[t].next..(caller[t].next + caller[t].left - 1)
                                         THEN fired[n] + 1 ELSE fired[n]]
            /\ caller' = [caller EXCEPT ![t].at = "enter", ![t].next = 0, ![t].claim = 0]
       ELSE caller' = [caller EXCEPT ![t] = Idle] /\ UNCHANGED <<trigger, fired>>
    /\ UNCHANGED <<now, routine, lock, run, issue, beat, again, start, events>>

(* runRoutine, which may name the schedule trigger or give a key, and       *)
(* firePublicTrigger.                                                       *)
RunRoutine(t, key, ofTrigger) ==
    /\ At(t, "idle") /\ routine.status # "archived"
    /\ ofTrigger => trigger.enabled /\ key = NoKey
    /\ caller' = [caller EXCEPT ![t] = [Idle EXCEPT !.at = "enter", !.key = key, !.ofTrigger = ofTrigger,
                                        !.policy = routine.policy, !.left = 1]]
    /\ UNCHANGED <<now, routine, trigger, lock, run, issue, beat, again, start, fired, events>>

-----------------------------------------------------------------------------
(* Mutant: a run that was there already is returned without an end.         *)
CommittedHolding(t) ==
    /\ lock' = t
    /\ caller' = [caller EXCEPT ![t] = Idle]

(* dispatchRoutineRun.  The end of one, with its commit; a tick goes on to  *)
(* the next of the runs it has to make.                                     *)
Committed(t) ==
    /\ lock' = Nobody
    /\ caller' = [caller EXCEPT ![t] =
         IF @.left > 1 THEN [@ EXCEPT !.at = "enter", !.left = caller[t].left - 1, !.run = None, !.next = 0] ELSE Idle]

(* updateRoutineTouchedState: the trigger is due again after triggeredAt.   *)
Touched(t, next) == trigger' = IF caller[t].ofTrigger THEN [trigger EXCEPT !.next = next] ELSE trigger

(* Mutant: the key is looked for among the runs that still go on. *)
KeyedRunsOpen(t) ==
    {r \in Runs : caller[t].key # NoKey /\ run[r].key = caller[t].key
                  /\ run[r].status = "issue_created"}

KeyedRuns(t) ==
    {r \in Runs : caller[t].key # NoKey /\ run[r].key = caller[t].key}

NewRun(t) == [NoRun EXCEPT !.status = "received", !.key = caller[t].key]

(* The lock is taken, the run inserted, and the routine found busy or not.  *)
AlreadyRun(t) ==
    /\ At(t, "enter") /\ lock = Nobody
    /\ KeyedRuns(t) # {}
    /\ Committed(t)
    /\ UNCHANGED <<now, routine, trigger, run, issue, beat, again, start, fired, events>>

(* By the policy that was read of the routine before.                       *)
Busy(t) == caller[t].policy # "always_enqueue" /\ LiveExecutionIssues # {}

Coalesce(t, r) ==
    /\ At(t, "enter") /\ lock = Nobody
    /\ KeyedRuns(t) = {} /\ Busy(t)
    /\ \E i \in LiveExecutionIssues :
         run' = [run EXCEPT ![r] = [NewRun(t) EXCEPT !.status = IF caller[t].policy = "skip_if_active" THEN "skipped"
                                                          ELSE "coalesced", !.into = i]]
    /\ Touched(t, NextTick(now))
    /\ Committed(t)
    /\ UNCHANGED <<now, routine, issue, beat, again, start, fired, events>>

Receive(t, r) ==
    /\ At(t, "enter") /\ lock = Nobody
    /\ KeyedRuns(t) = {} /\ ~Busy(t)
    /\ lock' = t
    /\ run' = [run EXCEPT ![r] = [NewRun(t) EXCEPT !.policy = caller[t].policy]]
    /\ caller' = [caller EXCEPT ![t].at = "create", ![t].run = r,
                                 ![t].next = IF caller[t].ofTrigger THEN NextTick(now) ELSE 0]
    /\ UNCHANGED <<now, routine, trigger, issue, beat, again, start, fired, events>>

CreateIssue(t) ==
    /\ At(t, "create")
    /\ issue' = [issue EXCEPT ![caller[t].run] = [NoIssue EXCEPT !.status = "todo"]]
    /\ Goto(t, "wake")
    /\ UNCHANGED <<now, routine, trigger, lock, run, beat, again, start, fired, events>>

(* The assignee is woken: its heartbeat run is queued.                      *)
WakeAssignee(t) ==
    /\ At(t, "wake")
    /\ beat' = [beat EXCEPT ![caller[t].run] = "queued"]
    /\ Goto(t, "start")
    /\ UNCHANGED <<now, routine, trigger, lock, run, issue, again, start, fired, events>>

(* The issue cannot be created, or the assignee not be woken.               *)
DispatchFault(t) ==
    /\ Happens /\ caller[t].at \in {"create", "wake"}
    /\ Goto(t, "fail")
    /\ UNCHANGED <<now, routine, trigger, lock, run, issue, beat, again, start, fired>>

Finish(t) ==
    /\ At(t, "finish")
    /\ run' = [run EXCEPT ![caller[t].run].status = "issue_created"]
    /\ Touched(t, caller[t].next)
    /\ Committed(t)
    /\ UNCHANGED <<now, routine, issue, beat, again, start, fired, events>>

(* Mutant: the issue of a failed dispatch stays. *)
CleanedUpNot(r) == issue

CleanedUp(r) == [issue EXCEPT ![r] = NoIssue]

Fail(t) ==
    /\ At(t, "fail")
    /\ issue' = CleanedUp(caller[t].run)
    /\ run' = [run EXCEPT ![caller[t].run].status = "failed"]
    /\ Touched(t, caller[t].next)
    /\ Committed(t)
    /\ UNCHANGED <<now, routine, beat, again, start, fired, events>>

-----------------------------------------------------------------------------
(* startNextQueuedRunForAgent, one at a time for an agent: the oldest       *)
(* queued runs that fit are claimed in turn and then executed.              *)
Room == MaxConcurrentRuns - Cardinality(Occupied)
QueuedBeats == {b \in Runs : beat[b] = "queued"}
Batch == {b \in QueuedBeats : Cardinality({c \in QueuedBeats : c < b}) < Room}

StartBegins(by) ==
    /\ start = NoStart
    /\ IF by = Agent THEN Batch # {} ELSE At(by, "start")
    /\ IF Batch = {}
       THEN Goto(by, "finish") /\ UNCHANGED start
       ELSE start' = [NoStart EXCEPT !.by = by, !.todo = Batch] /\ UNCHANGED caller
    /\ UNCHANGED <<now, routine, trigger, lock, run, issue, beat, again, fired, events>>

(* claimQueuedRun: the run is running; then its issue is locked, unless it  *)
(* is locked already or gone.  issues_open_routine_execution_uq allows one  *)
(* locked open issue per routine: a second one is an error, which ends the  *)
(* start, and whoever waits for it gets it.                                 *)
Stampable(b) == issue[b].exec = None /\ issue[b].status # "none"
Taken(b)     == \E i \in Runs \ {b} : Open(i) /\ issue[i].exec # None
Conflict(b)  == Stampable(b) /\ Open(b) /\ Taken(b)
Stamped(b)   == IF Stampable(b) THEN [issue EXCEPT ![b].exec = b] ELSE issue

ClaimRun ==
    LET b == Least(start.todo) IN
    /\ start.todo # {} /\ ~Conflict(b)
    /\ beat' = [beat EXCEPT ![b] = "claimed"]
    /\ issue' = Stamped(b)
    /\ start' = [start EXCEPT !.todo = @ \ {b}, !.claimed = @ \cup {b}]
    /\ UNCHANGED <<now, routine, trigger, lock, caller, run, again, fired, events>>

ClaimConflicts ==
    LET b == Least(start.todo) IN
    /\ start.todo # {} /\ Conflict(b)
    /\ beat' = [c \in Runs |-> IF c \in start.claimed \cup {b} THEN "lost" ELSE beat[c]]
    /\ start' = NoStart
    /\ IF start.by = Agent THEN UNCHANGED caller ELSE Goto(start.by, "fail")
    /\ UNCHANGED <<now, routine, trigger, lock, run, issue, again, fired, events>>

StartEnds ==
    /\ start # NoStart /\ start.todo = {}
    /\ beat' = [c \in Runs |-> IF c \in start.claimed THEN "running" ELSE beat[c]]
    /\ start' = NoStart
    /\ IF start.by = Agent THEN UNCHANGED caller ELSE Goto(start.by, "finish")
    /\ UNCHANGED <<now, routine, trigger, lock, run, issue, again, fired, events>>

(* A run that is executed ends; the reaper fails one that nobody executes,  *)
(* and queues it again, once, if it had a process of its own.  Whatever has *)
(* ended releases its issue, later.                                         *)
RunEnds(b) ==
    /\ beat[b] = "running"
    /\ beat' = [beat EXCEPT ![b] = "ended"]
    /\ UNCHANGED <<now, routine, trigger, lock, caller, run, issue, again, start, fired, events>>

Reap(b, retry) ==
    /\ beat[b] \in {"lost", "orphaned"}
    /\ retry => beat[b] = "orphaned" /\ b \notin again.retried
    /\ beat' = [beat EXCEPT ![b] = IF retry THEN "retry" ELSE "ended"]
    /\ UNCHANGED <<now, routine, trigger, lock, caller, run, issue, again, start, fired, events>>

(* Issue b gets a heartbeat run beside those of the later dispatches.       *)
Revived(b) == again.revived \cup {<<b, r>> : r \in {q \in Runs : run[q].status # "none"}}

(* enqueueProcessLossRetry: the execution lock goes to the retry.           *)
Retry(b) ==
    /\ beat[b] = "retry"
    /\ beat' = [beat EXCEPT ![b] = "queued"]
    /\ again' = [again EXCEPT !.retried = @ \cup {b}, !.revived = Revived(b)]
    /\ UNCHANGED <<now, routine, trigger, lock, caller, run, issue, start, fired, events>>

(* releaseIssueExecutionAndPromote: the lock of an issue that the run still *)
(* holds is free, or goes to the run of the wakeup that waited for it.      *)
Promotes(b) == issue[b].exec = b /\ b \in again.deferred

Promote(b) ==
    /\ beat[b] = "ended" /\ Promotes(b)
    /\ beat' = [beat EXCEPT ![b] = "queued"]
    /\ again' = [deferred |-> again.deferred \ {b}, retried |-> again.retried \ {b}, revived |-> Revived(b)]
    /\ UNCHANGED <<now, routine, trigger, lock, caller, run, issue, start, fired, events>>

Release(b) ==
    /\ beat[b] = "ended" /\ ~Promotes(b)
    /\ beat' = [beat EXCEPT ![b] = "over"]
    /\ issue' = [i \in Runs |-> IF issue[i].exec = b THEN [issue[i] EXCEPT !.exec = None] ELSE issue[i]]
    /\ UNCHANGED <<now, routine, trigger, lock, caller, run, again, start, fired, events>>

(* enqueueWakeup for a comment on an open issue: it waits for the run that  *)
(* executes the issue, and is merged into one that is queued, which gets    *)
(* the lock; it wakes the assignee of an issue that is idle.                *)
Commented(i) == Open(i) /\ run[i].status # "none" /\ beat[i] \notin {"none", "retry"}

CommentDeferred(i) ==
    /\ Happens /\ Commented(i) /\ ~Conflict(i)
    /\ beat[i] \in Executing \/ (Live(i) /\ Stampable(i))
    /\ issue' = Stamped(i)
    /\ again' = IF beat[i] \in Executing THEN [again EXCEPT !.deferred = @ \cup {i}] ELSE again
    /\ UNCHANGED <<now, routine, trigger, lock, caller, run, beat, start, fired>>

CommentWakes(i) ==
    /\ Happens /\ Commented(i) /\ ~Live(i)
    /\ issue' = [issue EXCEPT ![i].exec = None]
    /\ beat' = [beat EXCEPT ![i] = "queued"]
    /\ again' = [again EXCEPT !.retried = @ \ {i}, !.revived = Revived(i)]
    /\ UNCHANGED <<now, routine, trigger, lock, caller, run, start, fired>>

-----------------------------------------------------------------------------
(* PATCH of an execution issue, and syncRunStatusForIssue: the run follows  *)
(* an issue that is done or blocked, if the run is committed.  A cancelled  *)
(* issue is closed as a done one is, and fails its run as a blocked one.    *)
Followed(r, status) ==
    IF status = "todo" \/ \E t \in Callers : caller[t].run = r /\ caller[t].at \in InTx
    THEN run[r].status
    ELSE IF status = "done" THEN "completed" ELSE "failed"

(* An issue that leaves in_progress gives up the execution lock.            *)
PatchIssue(i, asked) ==
    LET status  == IF asked = "in_progress" THEN "todo" ELSE asked
        exec    == IF asked = "in_progress" THEN issue[i].exec ELSE None
        reopens == ~Open(i) /\ status \in OPEN_ISSUE_STATUSES
        usual   == status = "done" /\ beat[i] \notin {"queued", "claimed"}
    IN
    /\ issue[i].status # "none" /\ run[i].status # "none" /\ beat[i] # "none"
    /\ issue[i] # [status |-> status, exec |-> exec]
    /\ reopens /\ exec # None => ~Taken(i)
    /\ usual \/ events.total < MaxEvents
    /\ issue' = [issue EXCEPT ![i] = [status |-> status, exec |-> exec]]
    /\ run' = [run EXCEPT ![i].status = Followed(i, status)]
    /\ again' = IF reopens THEN [again EXCEPT !.revived = Revived(i)] ELSE again
    /\ events' = IF usual THEN events
                 ELSE [events EXCEPT !.total = @ + 1,
                                     !.reopened = @ \/ reopens \/ (status = "todo" /\ issue[i].status = "blocked")]
    /\ UNCHANGED <<now, routine, trigger, lock, caller, beat, start, fired>>

(* The routine's row is edited when no dispatch holds it.                   *)
UpdateRoutine(status, policy, catchUp) ==
    /\ Happens /\ lock = Nobody
    /\ routine # [status |-> status, policy |-> policy, catchUp |-> catchUp]
    /\ routine' = [status |-> status, policy |-> policy, catchUp |-> catchUp]
    /\ UNCHANGED <<now, trigger, lock, caller, run, issue, beat, again, start, fired>>

UpdateTrigger(enabled) ==
    /\ Happens
    /\ trigger' = [enabled |-> enabled, next |-> NextTick(now)]
    /\ UNCHANGED <<now, routine, lock, caller, run, issue, beat, again, start, fired>>

TimePasses ==
    /\ now < MaxTime
    /\ now' = now + 1
    /\ events' = [events EXCEPT !.outlived = @ \/ \E t \in Callers : caller[t].at \in InTx]
    /\ UNCHANGED <<routine, trigger, lock, caller, run, issue, beat, again, start, fired>>

(* The process ends: its transactions are rolled back, what they have done  *)
(* on other connections stays.                                              *)
Crash ==
    /\ events.total < MaxEvents
    /\ events' = [events EXCEPT !.total = @ + 1, !.crashed = TRUE]
    /\ caller' = [t \in Callers |-> Idle] /\ lock' = Nobody /\ start' = NoStart
    /\ run' = [r \in Runs |-> IF \E t \in Callers : caller[t].run = r /\ caller[t].at \in InTx
                              THEN [NoRun EXCEPT !.status = "rolled back", !.policy = run[r].policy] ELSE run[r]]
    /\ beat' = [b \in Runs |-> CASE beat[b] = "claimed" -> "lost"
                                 [] beat[b] = "running" -> "orphaned"
                                 [] beat[b] \in {"ended", "retry"} -> "over"
                                 [] OTHER -> beat[b]]
    /\ UNCHANGED <<now, routine, trigger, issue, again, fired>>

Unused(r) == run[r].status = "none" /\ \A q \in 1..(r - 1) : run[q].status # "none"

Dispatch(t) ==
    \/ AlreadyRun(t)
    \/ \E r \in Runs : Unused(r) /\ (Coalesce(t, r) \/ Receive(t, r))
    \/ CreateIssue(t) \/ WakeAssignee(t) \/ DispatchFault(t)
    \/ Finish(t) \/ Fail(t)

Next ==
    \/ \E t \in Callers :
         \/ DueRead(t) \/ Claim(t)
         \/ \E key \in Keys \cup {NoKey}, ofTrigger \in BOOLEAN : RunRoutine(t, key, ofTrigger)
         \/ Dispatch(t)
         \/ StartBegins(t)
    \/ StartBegins(Agent) \/ ClaimRun \/ ClaimConflicts \/ StartEnds
    \/ \E b \in Runs : \/ RunEnds(b) \/ Retry(b) \/ Promote(b) \/ Release(b)
                      \/ \E retry \in BOOLEAN : Reap(b, retry)
                      \/ CommentDeferred(b) \/ CommentWakes(b)
    \/ \E i \in Runs, asked \in {"todo", "in_progress", "blocked", "done"} : PatchIssue(i, asked)
    \/ \E status \in {"active", "paused", "archived"}, policy \in Policies, catchUp \in CatchUps :
         UpdateRoutine(status, policy, catchUp)
    \/ \E enabled \in BOOLEAN : UpdateTrigger(enabled)
    \/ TimePasses \/ Crash

Spec == Init /\ [][Next]_vars

-----------------------------------------------------------------------------
(* The type of the tables; the row is held from the beginning of a dispatch *)
(* to its end, and by nobody else.                                          *)
TypeOK ==
    /\ now \in Times
    /\ routine \in [status : {"active", "paused", "archived"}, policy : Policies, catchUp : CatchUps]
    /\ trigger \in [enabled : BOOLEAN, next : 0..(MaxTime + 1)]
    /\ lock \in Callers \cup {Nobody}
    /\ \A t \in Callers : (lock = t) <=> (caller[t].at \in InTx)
    /\ \A r \in Runs : run[r].status \in {"none", "received", "rolled back", "coalesced", "skipped", "issue_created", "completed", "failed"}
    /\ issue \in [Runs -> [status : OPEN_ISSUE_STATUSES \cup {"none", "done"}, exec : Runs \cup {None}]]
    /\ beat \in [Runs -> Executing \cup {"none", "queued", "retry", "ended", "over"}]
    /\ again \in [deferred : SUBSET Runs, retried : SUBSET Runs, revived : SUBSET (Runs \X Runs)]

(* tickScheduledTriggers claims a trigger by the time it has read, so that  *)
(* two ticks never fire the same due time, whatever manual runs and edits   *)
(* move the trigger meanwhile; as long as no dispatch has taken so long     *)
(* that the trigger fell due again before its commit.                       *)
TickFiredOnce == ~events.outlived => \A n \in Times : fired[n] <= 1

(* A request repeated with its idempotency key gets the run of the first    *)
(* one, also when the two overlap or the first one's run has ended.         *)
KeyedOnce ==
    \A q, r \in Runs :
        run[q].key # NoKey /\ run[q].key = run[r].key => q = r

(* Of a routine that coalesces or skips two execution issues are worked on  *)
(* at once only if the older one came to life again after the younger one's *)
(* dispatch, by a retry, a comment, a deferred wakeup or an edit that       *)
(* reopens it: a dispatch sees the issue of another from before its run is  *)
(* started until its run has ended, over a crash and edits of the policy.   *)
Working(i) == Open(i) /\ Live(i)
OneLiveIssue ==
    \A i, j \in Runs :
        i < j /\ Working(i) /\ Working(j) /\ run[j].policy # "always_enqueue" => <<i, j>> \in again.revived

(* Once its dispatch is over, an execution issue is the one of its run, and *)
(* a run that failed to be dispatched leaves no issue behind.               *)
IssueHasRun ==
    ~events.crashed =>
        \A r \in Runs : (lock = Nobody \/ caller[lock].run # r) =>
            /\ run[r].status \in {"issue_created", "completed"} => issue[r].status # "none"
            /\ issue[r].status = "todo" /\ ~events.reopened => run[r].status = "issue_created"

(* "creates a fresh execution issue when the previous routine issue is open *)
(* but idle" (routines-service.test.ts:177), and always_enqueue: "Always    *)
(* create a new run regardless of active runs" (docs/api/routines.md:64):   *)
(* without faults (MaxEvents = 0) no dispatch fails.                        *)
DispatchSucceeds == \A t \in Callers : ~At(t, "fail")
==============================================================================
