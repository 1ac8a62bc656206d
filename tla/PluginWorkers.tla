---------------------------- MODULE PluginWorkers ----------------------------
(***************************************************************************)
(* The worker processes of one plugin                                      *)
(* (backend/server/services/plugin_worker_manager.go): the requests that   *)
(* start and stop its worker, the WorkerHandle each start creates, the     *)
(* attempts of a handle to start a process, the end of a process and the   *)
(* restart after a backoff, all of them goroutines of their own.           *)
(*                                                                         *)
(* A request creates at most one handle, which has its name.  Attempt 0 of *)
(* a handle is made by StartWorker, attempt k by the k-th backoff timer;   *)
(* an attempt starts at most one process, which has its number.            *)
(*                                                                         *)
(* No name of this module is one of PluginHost: PluginProofs extends both. *)
(***************************************************************************)
EXTENDS Integers

CONSTANTS
    Starters, Stoppers, Restarters,  \* bound: the requests
    NoRequest,
    WorkerMaxCrashes,                \* workerMaxCrashes
    MaxRestarts                      \* bound: backoff timers that fire

Requests == Starters \cup Stoppers \cup Restarters

ASSUME WorkerAssumption ==
    /\ NoRequest \notin Requests
    /\ WorkerMaxCrashes \in Nat
    /\ MaxRestarts \in Nat

Tries == 0..MaxRestarts
NoProcess == -1

VARIABLES
    req,        \* the requests: program counter, and what they looked up
    workers,    \* manager.workers[pluginID]: a handle
    lock,       \* manager.startupLocks[pluginID]: the request that starts
    handles,    \* the fields of the handles
    start,      \* program counter of each attempt, in WorkerHandle.start
    processes,  \* each process and the goroutine that reads its output
    fired       \* counter of the bound

workersVars == <<req, workers, lock, handles, start, processes, fired>>

Starting == {"lock", "waiting", "check", "register", "starting"}
Stopping == {"lookup", "cancel", "status", "mark", "unborn", "drain", "term",
             "remove"}

\* A started process is alive until it is dead; then onProcessExit runs, as
\* "stopped" or "crashed" by the intentionalStop it has read.
Exiting == {"dead", "stopped", "crashed", "retry", "giveup", "backoff", "arm"}

WorkerStatus == {"stopped", "starting", "running", "stopping", "crashed", "backoff"}

NewHandle ==
    [status |-> "stopped", cmd |-> NoProcess, intentional |-> FALSE,
     crashes |-> 0, timer |-> FALSE]

WorkersInit ==
    /\ req = [r \in Requests |-> [pc |-> "idle", at |-> NoRequest]]
    /\ workers = NoRequest
    /\ lock = NoRequest
    /\ handles = [h \in Requests |-> NewHandle]
    /\ start = [h \in Requests |-> [k \in Tries |-> "none"]]
    /\ processes = [h \in Requests |-> [k \in Tries |-> "none"]]
    /\ fired = 0

ReqAt(r, pc) == req' = [req EXCEPT ![r].pc = pc]
SetStatus(h, s) == handles' = [handles EXCEPT ![h].status = s]
StartAt(h, k, pc) == start' = [start EXCEPT ![h][k] = pc]
ProcAt(h, k, pc) == processes' = [processes EXCEPT ![h][k] = pc]

(***************************************************************************)
(* StartWorker, StopWorker and RestartWorker.                              *)
(***************************************************************************)

Begin(r) ==
    /\ req[r].pc = "idle"
    /\ ReqAt(r, IF r \in Starters THEN "lock" ELSE "lookup")
    /\ UNCHANGED <<workers, lock, handles, start, processes, fired>>

TakeLock(r) ==
    /\ req[r].pc = "lock"
    /\ lock = NoRequest
    /\ lock' = r
    /\ ReqAt(r, "check")
    /\ UNCHANGED <<workers, handles, start, processes, fired>>

\* Another request starts the worker: wait for its channel to be closed.
WaitForStart(r) ==
    /\ req[r].pc = "lock"
    /\ lock # NoRequest
    /\ req' = [req EXCEPT ![r].pc = "waiting", ![r].at = lock]
    /\ UNCHANGED <<workers, lock, handles, start, processes, fired>>

Waited(r) ==
    /\ req[r].pc = "waiting"
    /\ lock # req[r].at
    /\ ReqAt(r, "done")
    /\ UNCHANGED <<workers, lock, handles, start, processes, fired>>

\* The deferred function of the request that has the lock.
Return(r) ==
    /\ lock' = NoRequest
    /\ ReqAt(r, "done")

\* No worker, or one that is neither running nor about to.
Replaceable == workers # NoRequest => handles[workers].status \in {"stopped", "crashed"}

\* Mutant of StartRefused: an early return without the deferred function.
StartRefusedLocked(r) ==
    /\ req[r].pc = "check"
    /\ ReqAt(r, "done")
    /\ UNCHANGED <<workers, lock, handles, start, processes, fired>>

\* A worker exists in another status, or its entrypoint cannot be resolved.
StartRefused(r) ==
    /\ req[r].pc = "check"
    /\ Return(r)
    /\ UNCHANGED <<workers, handles, start, processes, fired>>

CheckExisting(r) ==
    /\ req[r].pc = "check"
    /\ Replaceable
    /\ ReqAt(r, "register")
    /\ UNCHANGED <<workers, lock, handles, start, processes, fired>>

Register(r) ==
    /\ req[r].pc = "register"
    /\ workers' = r
    /\ StartAt(r, 0, "begin")
    /\ ReqAt(r, "starting")
    /\ UNCHANGED <<lock, handles, processes, fired>>

StartReturns(r) ==
    /\ req[r].pc = "starting"
    /\ start[r][0] \in {"succeeded", "failed"}
    /\ Return(r)
    /\ UNCHANGED <<workers, handles, start, processes, fired>>

\* What follows StopWorker: RestartWorker goes on with StartWorker.
Stopped(r) == IF r \in Restarters THEN "lock" ELSE "done"

StopLookup(r) ==
    /\ req[r].pc = "lookup"
    /\ req' = [req EXCEPT ![r].at = workers,
                          ![r].pc = IF workers = NoRequest THEN Stopped(r) ELSE "cancel"]
    /\ UNCHANGED <<workers, lock, handles, start, processes, fired>>

CancelPendingRestart(r) ==
    /\ req[r].pc = "cancel"
    /\ handles' = [handles EXCEPT ![req[r].at].timer = FALSE]
    /\ ReqAt(r, "status")
    /\ UNCHANGED <<workers, lock, start, processes, fired>>

ReadStatus(r) ==
    /\ req[r].pc = "status"
    /\ ReqAt(r, IF handles[req[r].at].status \in {"stopped", "stopping"}
                THEN "remove" ELSE "mark")
    /\ UNCHANGED <<workers, lock, handles, start, processes, fired>>

MarkStopping(r) ==
    /\ req[r].pc = "mark"
    /\ handles' = [handles EXCEPT ![req[r].at].intentional = TRUE,
                                  ![req[r].at].status = "stopping"]
    /\ ReqAt(r, IF handles[req[r].at].cmd = NoProcess THEN "unborn" ELSE "drain")
    /\ UNCHANGED <<workers, lock, start, processes, fired>>

StopUnborn(r) ==
    /\ req[r].pc = "unborn"
    /\ SetStatus(req[r].at, "stopped")
    /\ ReqAt(r, "remove")
    /\ UNCHANGED <<workers, lock, start, processes, fired>>

\* The request to shut down, then the interrupt: the process may end on them,
\* as it may at any time (ProcessEnds).
Interrupt(r) ==
    /\ req[r].pc = "drain"
    /\ ReqAt(r, IF handles[req[r].at].cmd = NoProcess THEN "remove" ELSE "term")
    /\ UNCHANGED <<workers, lock, handles, start, processes, fired>>

KillProcessOf(h) ==
    /\ processes' = [processes EXCEPT ![h] =
                  [k \in Tries |-> IF k = handles[h].cmd /\ processes[h][k] = "alive"
                                   THEN "dead" ELSE processes[h][k]]]
    /\ UNCHANGED handles

Kill(r) ==
    /\ req[r].pc = "term"
    /\ KillProcessOf(req[r].at)
    /\ ReqAt(r, "remove")
    /\ UNCHANGED <<workers, lock, start, fired>>

\* Whatever handle is registered by now goes.
Remove(r) ==
    /\ req[r].pc = "remove"
    /\ workers' = NoRequest
    /\ ReqAt(r, Stopped(r))
    /\ UNCHANGED <<lock, handles, start, processes, fired>>

(***************************************************************************)
(* WorkerHandle.start, in the k-th attempt of handle h.                    *)
(***************************************************************************)

StartBegins(h, k) ==
    /\ start[h][k] = "begin"
    /\ IF handles[h].status \in {"running", "starting"}
       THEN StartAt(h, k, "failed") /\ UNCHANGED handles
       ELSE /\ handles' = [handles EXCEPT ![h].status = "starting",
                                          ![h].intentional = FALSE]
            /\ StartAt(h, k, "spawn")
    /\ UNCHANGED <<req, workers, lock, processes, fired>>

\* cmd.Start: the process lives, and its handle does not know it yet.
Spawn(h, k) ==
    /\ start[h][k] = "spawn"
    /\ ProcAt(h, k, "alive")
    /\ StartAt(h, k, "publish")
    /\ UNCHANGED <<req, workers, lock, handles, fired>>

\* h.cmd is set, then the goroutine that reads the output is started.
Publish(h, k) ==
    /\ start[h][k] = "publish"
    /\ handles' = [handles EXCEPT ![h].cmd = k]
    /\ StartAt(h, k, "initialize")
    /\ UNCHANGED <<req, workers, lock, processes, fired>>

SpawnFails(h, k) ==
    /\ start[h][k] = "spawn"
    /\ SetStatus(h, "crashed")
    /\ StartAt(h, k, "failed")
    /\ UNCHANGED <<req, workers, lock, processes, fired>>

\* Call refuses in any other status.
CallInitialize(h, k) ==
    /\ start[h][k] = "initialize"
    /\ StartAt(h, k, IF handles[h].status \in {"running", "starting"}
                     THEN "called" ELSE "kill")
    /\ UNCHANGED <<req, workers, lock, handles, processes, fired>>

InitializeAnswered(h, k) ==
    /\ start[h][k] = "called"
    /\ handles[h].cmd # NoProcess
    /\ processes[h][handles[h].cmd] = "alive"
    /\ StartAt(h, k, "initialized")
    /\ UNCHANGED <<req, workers, lock, handles, processes, fired>>

\* Answered with an error, timed out, or rejected as the process ended.
InitializeRefused(h, k) ==
    /\ start[h][k] = "called"
    /\ StartAt(h, k, "kill")
    /\ UNCHANGED <<req, workers, lock, handles, processes, fired>>

KillUninitialized(h, k) ==
    /\ start[h][k] = "kill"
    /\ KillProcessOf(h)
    /\ StartAt(h, k, "killed")
    /\ UNCHANGED <<req, workers, lock, fired>>

\* Mutant of StartFails: the failed start clears cmd, whosever it is by now.
StartFailsForgets(h, k) ==
    /\ start[h][k] = "killed"
    /\ handles' = [handles EXCEPT ![h].status = "crashed", ![h].cmd = NoProcess]
    /\ StartAt(h, k, "failed")
    /\ UNCHANGED <<req, workers, lock, processes, fired>>

StartFails(h, k) ==
    /\ start[h][k] = "killed"
    /\ SetStatus(h, "crashed")
    /\ StartAt(h, k, "failed")
    /\ UNCHANGED <<req, workers, lock, processes, fired>>

StartSucceeds(h, k) ==
    /\ start[h][k] = "initialized"
    /\ handles' = [handles EXCEPT ![h].crashes = 0, ![h].status = "running"]
    /\ StartAt(h, k, "succeeded")
    /\ UNCHANGED <<req, workers, lock, processes, fired>>

(***************************************************************************)
(* The end of a process, onProcessExit and the backoff timer.              *)
(***************************************************************************)

ProcessEnds(h, k) ==
    /\ processes[h][k] = "alive"
    /\ ProcAt(h, k, "dead")
    /\ UNCHANGED <<req, workers, lock, handles, start, fired>>

\* Nobody sees the end of a process before its output is read.
ExitBegins(h, k) ==
    /\ processes[h][k] = "dead"
    /\ start[h][k] # "publish"
    /\ handles' = [handles EXCEPT ![h].cmd = NoProcess]
    /\ ProcAt(h, k, IF handles[h].intentional THEN "stopped" ELSE "crashed")
    /\ UNCHANGED <<req, workers, lock, start, fired>>

ExitStopped(h, k) ==
    /\ processes[h][k] = "stopped"
    /\ SetStatus(h, "stopped")
    /\ ProcAt(h, k, "gone")
    /\ UNCHANGED <<req, workers, lock, start, fired>>

MayRestart(crashes) == crashes <= WorkerMaxCrashes

\* The count starts again if the last crash is older than workerCrashWindow.
CountCrash(h, k) ==
    /\ processes[h][k] = "crashed"
    /\ \E c \in {1, handles[h].crashes + 1} :
          /\ handles' = [handles EXCEPT ![h].crashes = c]
          /\ ProcAt(h, k, IF MayRestart(c) THEN "retry" ELSE "giveup")
    /\ UNCHANGED <<req, workers, lock, start, fired>>

MarkCrashed(h, k) ==
    /\ processes[h][k] \in {"retry", "giveup"}
    /\ SetStatus(h, "crashed")
    /\ ProcAt(h, k, IF processes[h][k] = "retry" THEN "backoff" ELSE "gone")
    /\ UNCHANGED <<req, workers, lock, start, fired>>

MarkBackoff(h, k) ==
    /\ processes[h][k] = "backoff"
    /\ SetStatus(h, "backoff")
    /\ ProcAt(h, k, "arm")
    /\ UNCHANGED <<req, workers, lock, start, fired>>

ArmTimer(h, k) ==
    /\ processes[h][k] = "arm"
    /\ handles' = [handles EXCEPT ![h].timer = TRUE]
    /\ ProcAt(h, k, "gone")
    /\ UNCHANGED <<req, workers, lock, start, fired>>

\* The entrypoint is resolved first: if that fails, nothing more is done.
TimerFires(h, k) ==
    /\ handles[h].timer
    /\ k > 0 /\ start[h][k - 1] # "none" /\ start[h][k] = "none"
    /\ fired < MaxRestarts
    /\ fired' = fired + 1
    /\ handles' = [handles EXCEPT ![h].timer = FALSE]
    /\ StartAt(h, k, "begin") \/ UNCHANGED start
    /\ UNCHANGED <<req, workers, lock, processes>>

-----------------------------------------------------------------------------

ReqStep(r) ==
    \/ TakeLock(r) \/ WaitForStart(r) \/ Waited(r)
    \/ StartRefused(r) \/ CheckExisting(r) \/ Register(r) \/ StartReturns(r)
    \/ StopLookup(r) \/ CancelPendingRestart(r) \/ ReadStatus(r)
    \/ MarkStopping(r) \/ StopUnborn(r) \/ Interrupt(r) \/ Kill(r) \/ Remove(r)

AttemptStep(h, k) ==
    \/ StartBegins(h, k) \/ Spawn(h, k) \/ SpawnFails(h, k) \/ Publish(h, k)
    \/ CallInitialize(h, k) \/ InitializeAnswered(h, k) \/ InitializeRefused(h, k)
    \/ KillUninitialized(h, k) \/ StartFails(h, k) \/ StartSucceeds(h, k)

ExitStep(h, k) ==
    \/ ExitBegins(h, k) \/ ExitStopped(h, k) \/ CountCrash(h, k)
    \/ MarkCrashed(h, k) \/ MarkBackoff(h, k) \/ ArmTimer(h, k)

WorkersNext ==
    \/ \E r \in Requests : Begin(r) \/ ReqStep(r)
    \/ \E h \in Requests, k \in Tries :
          AttemptStep(h, k) \/ ProcessEnds(h, k) \/ ExitStep(h, k) \/ TimerFires(h, k)

WorkersSpec == WorkersInit /\ [][WorkersNext]_workersVars

\* A goroutine that can go on does: the scheduler is fair, Call has a timeout
\* and stop has a grace period.  Nothing makes a request arrive, a process end
\* or a plugin answer.
WorkersFairness ==
    /\ \A r \in Requests : WF_workersVars(ReqStep(r))
    /\ \A h \in Requests, k \in Tries :
          WF_workersVars(AttemptStep(h, k)) /\ WF_workersVars(ExitStep(h, k))

WorkersFairSpec == WorkersSpec /\ WorkersFairness

(***************************************************************************)
(* Properties.                                                             *)
(***************************************************************************)

StartPc == {"none", "begin", "spawn", "publish", "initialize", "called", "initialized",
            "kill", "killed", "succeeded", "failed"}
ProcPc == {"none", "alive", "gone"} \cup Exiting

\* The variables have their types, and a request that stops a worker past the
\* lookup has a handle to stop.
WorkersTypeOK ==
    /\ req \in [Requests -> [pc : {"idle", "done"} \cup Starting \cup Stopping,
                             at : Requests \cup {NoRequest}]]
    /\ \A r \in Requests :
          req[r].pc \in Stopping \ {"lookup"} => req[r].at \in Requests
    /\ workers \in Requests \cup {NoRequest}
    /\ lock \in Requests \cup {NoRequest}
    /\ handles \in [Requests -> [status : WorkerStatus, cmd : Tries \cup {NoProcess},
                                intentional : BOOLEAN, crashes : Nat,
                                timer : BOOLEAN]]
    /\ start \in [Requests -> [Tries -> StartPc]]
    /\ processes \in [Requests -> [Tries -> ProcPc]]
    /\ fired \in 0..MaxRestarts

\* A live process is the one its handle has in cmd, so that stop and kill reach
\* it, or its attempt is about to put it there, between cmd.Start (:537) and
\* h.cmd = cmd (:550); and its handle has no other, live or about to be: a start
\* that fails late, a stop and the end of an earlier process never take it away
\* (:629).
ProcessIsKnown ==
    \A h \in Requests, k \in Tries : processes[h][k] = "alive" =>
        /\ handles[h].cmd = k \/ start[h][k] = "publish"
        /\ \A l \in Tries \ {k} :
              processes[h][l] # "alive" /\ start[h][l] \notin {"spawn", "publish"}

\* Every request to start, stop or restart a worker returns, those that wait
\* for the start of another request included (:902, :911-916).
RequestsEnd ==
    \A r \in Requests : req[r].pc # "idle" ~> req[r].pc = "done"

\* Not so: TLC refutes it, and README.md says how.
\* PLUGIN_SPEC.md:407: "Paperclip server starts one worker process per
\* installed plugin" (and the comment of PluginWorkerManager, :846).
OneLiveProcess ==
    \A h, g \in Requests, k, l \in Tries :
        processes[h][k] = "alive" /\ processes[g][l] = "alive" => h = g /\ k = l
=============================================================================
