------------------------------ MODULE PluginHost ------------------------------
(***************************************************************************)
(* The worker of one plugin in the Node server: the status of the plugin,   *)
(* the lifecycle requests that move it, the manager's table of handles, a   *)
(* handle's process with its calls, and the restart after a backoff.        *)
(*                                                                          *)
(* The server is one event loop.  An event (an answer, a timeout, the exit  *)
(* of a process) settles promises; what awaits them goes on before the next *)
(* event.  Several may go on after the exit of a process, in either order.  *)
(***************************************************************************)
EXTENDS Integers

CONSTANTS
    Slots,        \* lifecycle requests in progress at a time
    Callers,      \* callers of the worker: tools, webhooks, jobs
    MaxRequests,  \* lifecycle requests ever made
    MaxProcs,     \* processes ever spawned
    MaxExits,     \* times a process ends on its own
    MaxCalls,     \* calls ever made
    MaxCrashes    \* MAX_CONSECUTIVE_CRASHES

ASSUME PluginConstants == {MaxRequests, MaxProcs, MaxExits, MaxCalls, MaxCrashes} \subseteq Nat

None    == 0
Handles == 1..MaxRequests
Procs   == 1..MaxProcs

Request(k)  == <<"request", k>>
Restart(h)  == <<"restart", h>>
Caller(c)   == <<"call", c>>
Threads     == {Request(k) : k \in Slots} \cup {Restart(h) : h \in Handles} \cup {Caller(c) : c \in Callers}

VARIABLES
    plugin,     \* plugins.status
    worker,     \* workers: the handle that is registered
    starting,   \* startupLocks: the handle whose start is in flight
    handle,
    proc,
    thread,     \* where each request, restart and call is
    events      \* how many requests, exits and calls there were, and whether two requests overlapped

vars == <<plugin, worker, starting, handle, proc, thread, events>>

PluginStatuses == {"installed", "ready", "disabled", "error", "upgrade_pending", "uninstalled"}

Idle     == [at |-> "idle", op |-> "none", read |-> "none", h |-> None, p |-> None]
NoHandle == [status |-> "none", child |-> None, reader |-> None, intentional |-> FALSE, crashes |-> 0, timer |-> FALSE]
NoProc   == [of |-> None, state |-> "none", heard |-> TRUE]

Init ==
    /\ plugin \in {"installed", "ready"}
    /\ worker = None /\ starting = None
    /\ handle = [h \in Handles |-> NoHandle]
    /\ proc = [p \in Procs |-> NoProc]
    /\ thread = [t \in Threads |-> Idle]
    /\ events = [requests |-> 0, exits |-> 0, calls |-> 0, overlapped |-> FALSE]

Status(h) == handle[h].status
Child(h)  == handle[h].child
Running   == worker # None /\ Status(worker) = "running"
Up        == {p \in Procs : proc[p].state \in {"up", "killed"}}

At(t, at)  == thread[t].at = at
Calls      == {"initialize", "shutdown", "call"}
Waits      == {"initialize", "shutdown", "drain", "term", "kill", "killing"}

(* What an event has settled goes on first.                                 *)
Goes(t) == At(t, "stopped") \/ (thread[t].at \in Waits /\ thread[t].p = None)
Settled == \A t \in Threads : ~Goes(t)

Goto(t, at)  == [thread EXCEPT ![t].at = at]
End(t)       == [thread EXCEPT ![t] = Idle]
Await(t, at, p) == [thread EXCEPT ![t].at = at, ![t].p = p]

VALID_TRANSITIONS(from) ==
    CASE from = "installed"       -> {"ready", "error", "uninstalled"}
      [] from = "ready"           -> PluginStatuses \ {"installed"}
      [] from = "upgrade_pending" -> {"ready", "error", "uninstalled"}
      [] from = "uninstalled"     -> {"installed"}
      [] OTHER                    -> {"ready", "uninstalled"}

-----------------------------------------------------------------------------
(* A start: the process is spawned and initialize is called.  startInternal *)
(* throws if the handle is running or starting.                             *)
NextProc == CHOOSE p \in Procs : proc[p].state = "none" /\ \A q \in 1..(p - 1) : proc[q].state # "none"

CanStart(h) == Status(h) \notin {"running", "starting"}

StartInternal(t, h, row, op) ==
    /\ \E p \in Procs : proc[p].state = "none"
    /\ handle' = [handle EXCEPT ![h] = [row EXCEPT !.status = "starting", !.child = NextProc,
                                                   !.reader = NextProc, !.intentional = FALSE]]
    /\ proc' = [proc EXCEPT ![NextProc] = [NoProc EXCEPT !.of = h, !.state = "up"]]
    /\ thread' = [thread EXCEPT ![t] = [@ EXCEPT !.op = op, !.at = "initialize", !.h = h, !.p = NextProc]]

(* The end of t's start, also for the requests that wait for it: a failed   *)
(* activation marks the plugin as in error, a failed restart is only logged.*)
Manages(t) == thread[t].op \notin {"restart", "backoff"}
Follows(s, t) == s = t \/ (At(s, "await") /\ Manages(t))
StartEnds(t, ok) ==
    /\ thread' = [s \in Threads |->
         IF ~Follows(s, t) THEN thread[s]
         ELSE IF ~Manages(s) THEN Idle
         ELSE [thread[s] EXCEPT !.at = IF ok THEN "sync" ELSE "markError", !.p = None]]
    /\ starting' = IF Manages(t) THEN None ELSE starting

Initialized(t) ==
    LET h == thread[t].h IN
    /\ At(t, "initialize") /\ Settled
    /\ proc[thread[t].p].state = "up" /\ proc[thread[t].p].heard
    /\ handle' = [handle EXCEPT ![h].status = "running", ![h].crashes = 0]
    /\ StartEnds(t, TRUE)
    /\ UNCHANGED <<plugin, worker, proc, events>>

(* initialize is refused, not answered in time, or rejected by an exit: the *)
(* process, if there is one, is killed.                                     *)
KillProcess(t, h) ==
    /\ handle' = [handle EXCEPT ![h].intentional = TRUE]
    /\ proc' = [proc EXCEPT ![Child(h)].state = "killed"]
    /\ thread' = Await(t, "killing", Child(h))
    /\ UNCHANGED starting

(* Mutant: the handle gets the status of the plugin. *)
CrashedAsError(t, h) ==
    /\ handle' = [handle EXCEPT ![h].status = "error"]
    /\ StartEnds(t, FALSE)
    /\ UNCHANGED proc

Crashed(t, h) ==
    /\ handle' = [handle EXCEPT ![h].status = "crashed"]
    /\ StartEnds(t, FALSE)
    /\ UNCHANGED proc

InitializeFails(t) ==
    LET h == thread[t].h IN
    /\ At(t, "initialize")
    /\ Settled \/ Goes(t)
    /\ IF Child(h) # None THEN KillProcess(t, h) ELSE Crashed(t, h)
    /\ UNCHANGED <<plugin, worker, events>>

StartKilled(t) ==
    /\ At(t, "killing") /\ Goes(t)
    /\ Crashed(t, thread[t].h)
    /\ UNCHANGED <<plugin, worker, events>>

-----------------------------------------------------------------------------
(* Mutant: the restart is not cancelled. *)
StopInternalArmed(t, h) ==
    LET off == handle[h] IN
    IF Status(h) \in {"stopped", "stopping"}
    THEN handle' = [handle EXCEPT ![h] = off] /\ thread' = [thread EXCEPT ![t].at = "stopped", ![t].h = h]
    ELSE IF Child(h) = None
    THEN /\ handle' = [handle EXCEPT ![h] = [off EXCEPT !.intentional = TRUE, !.status = "stopped"]]
         /\ thread' = [thread EXCEPT ![t].at = "stopped", ![t].h = h]
    ELSE /\ handle' = [handle EXCEPT ![h] = [off EXCEPT !.intentional = TRUE, !.status = "stopping"]]
         /\ thread' = [thread EXCEPT ![t].at = "shutdown", ![t].h = h, ![t].p = Child(h)]

(* stopInternal cancels the restart; it returns at once from a handle that  *)
(* is stopped or being stopped, and otherwise asks, signals and kills.      *)
StopInternal(t, h) ==
    LET off == [handle[h] EXCEPT !.timer = FALSE] IN
    IF Status(h) \in {"stopped", "stopping"}
    THEN handle' = [handle EXCEPT ![h] = off] /\ thread' = [thread EXCEPT ![t].at = "stopped", ![t].h = h]
    ELSE IF Child(h) = None
    THEN /\ handle' = [handle EXCEPT ![h] = [off EXCEPT !.intentional = TRUE, !.status = "stopped"]]
         /\ thread' = [thread EXCEPT ![t].at = "stopped", ![t].h = h]
    ELSE /\ handle' = [handle EXCEPT ![h] = [off EXCEPT !.intentional = TRUE, !.status = "stopping"]]
         /\ thread' = [thread EXCEPT ![t].at = "shutdown", ![t].h = h, ![t].p = Child(h)]

Escalated(at) == CASE at = "shutdown" -> "drain" [] at = "drain" -> "term" [] OTHER -> "kill"

(* A wait of the stop is over: the process has ended, or time is up.        *)
StopGoesOn(t) ==
    LET h == thread[t].h
        next == Escalated(thread[t].at)
    IN  /\ thread[t].at \in {"shutdown", "drain", "term", "kill"}
        /\ Goes(t) \/ (Settled /\ ~At(t, "kill"))
        /\ IF Child(h) = None \/ At(t, "kill")
           THEN /\ handle' = [handle EXCEPT ![h].status = "stopped"]
                /\ thread' = [Await(t, "stopped", None) EXCEPT ![t].p = None]
                /\ UNCHANGED proc
           ELSE /\ thread' = Await(t, next, Child(h))
                /\ proc' = IF next = "kill" THEN [proc EXCEPT ![Child(h)].state = "killed"] ELSE proc
                /\ UNCHANGED handle
        /\ UNCHANGED <<plugin, worker, starting, events>>

(* stopWorker forgets the handle that is registered by then; a restart      *)
(* starts its handle again.                                                 *)
StopReturns(t) ==
    LET h == thread[t].h IN
    /\ At(t, "stopped")
    /\ IF thread[t].op = "restart"
       THEN IF ~CanStart(h)
            THEN thread' = End(t) /\ UNCHANGED <<worker, handle, proc>>
            ELSE StartInternal(t, h, handle[h], "restart") /\ UNCHANGED worker
       ELSE worker' = None /\ thread' = Goto(t, "deactivated") /\ UNCHANGED <<handle, proc>>
    /\ UNCHANGED <<plugin, starting, events>>

-----------------------------------------------------------------------------
(* handleProcessExit: whichever process it was, the handle has none now,    *)
(* its reader is closed and all its calls are rejected.                     *)
Unread(p) ==
    LET r == handle[proc[p].of].reader
        gone == [proc EXCEPT ![p].state = "gone"]
    IN  IF r = None THEN gone ELSE [gone EXCEPT ![r].heard = FALSE]

(* Mutant: only who waits for the end of this process is told. *)
RejectedWaits(t, p) == thread[t].at \in Waits /\ thread[t].p = p

Rejected(t, p) ==
    \/ thread[t].at \in Calls /\ thread[t].h = proc[p].of
    \/ thread[t].at \in Waits /\ thread[t].p = p

(* Mutant: the status is left to whoever stops the worker. *)
ProcessExitQuiet(p, forget) ==
    LET h == proc[p].of
        down == [handle[h] EXCEPT !.child = None, !.reader = None]
        crashes == IF forget THEN 1 ELSE handle[h].crashes + 1
        again == crashes <= MaxCrashes
    IN  /\ proc' = Unread(p)
        /\ thread' = [t \in Threads |->
             IF ~Rejected(t, p) THEN thread[t]
             ELSE IF At(t, "call") THEN Idle ELSE [thread[t] EXCEPT !.p = None]]
        /\ handle' = [handle EXCEPT ![h] =
             IF handle[h].intentional THEN down
             ELSE [down EXCEPT !.crashes = crashes, !.timer = again,
                               !.status = IF again THEN "backoff" ELSE "crashed"]]
        /\ UNCHANGED <<plugin, worker, starting>>

ProcessExit(p, forget) ==
    LET h == proc[p].of
        down == [handle[h] EXCEPT !.child = None, !.reader = None]
        crashes == IF forget THEN 1 ELSE handle[h].crashes + 1
        again == crashes <= MaxCrashes
    IN  /\ proc' = Unread(p)
        /\ thread' = [t \in Threads |->
             IF ~Rejected(t, p) THEN thread[t]
             ELSE IF At(t, "call") THEN Idle ELSE [thread[t] EXCEPT !.p = None]]
        /\ handle' = [handle EXCEPT ![h] =
             IF handle[h].intentional THEN [down EXCEPT !.status = "stopped"]
             ELSE [down EXCEPT !.crashes = crashes, !.timer = again,
                               !.status = IF again THEN "backoff" ELSE "crashed"]]
        /\ UNCHANGED <<plugin, worker, starting>>

(* A process ends on its own, or after it was asked to; CRASH_WINDOW_MS     *)
(* may have passed since the last crash.                                    *)
Exit(p, forget) ==
    /\ Settled /\ proc[p].state = "up"
    /\ handle[proc[p].of].intentional \/ events.exits < MaxExits
    /\ events' = IF handle[proc[p].of].intentional THEN events ELSE [events EXCEPT !.exits = @ + 1]
    /\ ProcessExit(p, forget)

Dies(p) ==
    /\ Settled /\ proc[p].state = "killed"
    /\ ProcessExit(p, FALSE)
    /\ UNCHANGED events

BackoffOver(h) ==
    LET off == [handle[h] EXCEPT !.timer = FALSE] IN
    /\ Settled /\ handle[h].timer /\ thread[Restart(h)] = Idle
    /\ IF CanStart(h)
       THEN StartInternal(Restart(h), h, off, "backoff")
       ELSE handle' = [handle EXCEPT ![h] = off] /\ UNCHANGED <<proc, thread>>
    /\ UNCHANGED <<plugin, worker, starting, events>>

-----------------------------------------------------------------------------
(* A call through the manager, answered, timed out, or rejected by an exit. *)
Call(c) ==
    /\ Settled /\ thread[Caller(c)] = Idle /\ events.calls < MaxCalls
    /\ worker # None /\ Status(worker) \in {"running", "starting"} /\ Child(worker) # None
    /\ thread' = [thread EXCEPT ![Caller(c)] = [Idle EXCEPT !.at = "call", !.h = worker, !.p = Child(worker)]]
    /\ events' = [events EXCEPT !.calls = @ + 1]
    /\ UNCHANGED <<plugin, worker, starting, handle, proc>>

CallEnds(c) ==
    /\ Settled /\ At(Caller(c), "call")
    /\ thread' = End(Caller(c))
    /\ UNCHANGED <<plugin, worker, starting, handle, proc, events>>

-----------------------------------------------------------------------------
(* The lifecycle requests, and the activation of a ready plugin at boot.    *)
Allowed(op) ==
    CASE op = "boot"    -> plugin = "ready" /\ events.requests = 0
      [] op = "load"    -> plugin = "installed"
      [] op = "enable"  -> plugin \in {"disabled", "error", "upgrade_pending"}
      [] op \in {"disable", "restart"} -> plugin = "ready"
      [] op = "upgrade" -> plugin \in {"ready", "upgrade_pending"}
      [] op = "unload"  -> plugin # "uninstalled"

FirstStep(op) ==
    CASE op = "boot" -> "activate" [] op \in {"load", "enable"} -> "write"
      [] op = "restart" -> "stop"  [] OTHER -> "deactivate"

LifecycleRequest(k, op) ==
    /\ Settled /\ thread[Request(k)] = Idle /\ events.requests < MaxRequests
    /\ Allowed(op)
    /\ thread' = [thread EXCEPT ![Request(k)] = [Idle EXCEPT !.op = op, !.read = plugin, !.at = FirstStep(op)]]
    /\ events' = [events EXCEPT !.requests = @ + 1,
                                !.overlapped = @ \/ \E j \in Slots : thread[Request(j)] # Idle]
    /\ UNCHANGED <<plugin, worker, starting, handle, proc>>

(* restartWorker restarts the handle that is registered, if there is one.   *)
RestartStops(t) ==
    /\ Settled /\ At(t, "stop")
    /\ IF worker = None THEN thread' = End(t) /\ UNCHANGED handle ELSE StopInternal(t, worker)
    /\ UNCHANGED <<plugin, worker, starting, proc, events>>

BecomesReady(t) ==
    /\ Settled /\ At(t, "write")
    /\ plugin' = "ready"
    /\ thread' = Goto(t, "activate")
    /\ UNCHANGED <<worker, starting, handle, proc, events>>

(* loadSingle and activatePlugin: a plugin that is not ready any more is    *)
(* left alone; startWorker waits for a start in flight, and refuses while a *)
(* handle that is not stopped is registered.                                *)
NextHandle == CHOOSE h \in Handles : Status(h) = "none" /\ \A g \in 1..(h - 1) : Status(g) # "none"
(* Mutant: only a running worker is in the way of another. *)
RegisteredRunning == Running

Registered == worker # None /\ Status(worker) # "stopped"

ActivateWaits(t) ==
    /\ Settled /\ At(t, "activate")
    /\ plugin # "ready" \/ starting # None
    /\ thread' = IF plugin # "ready" THEN End(t) ELSE Goto(t, "await")
    /\ UNCHANGED <<plugin, worker, starting, handle, proc, events>>

ActivateFails(t) ==
    /\ Settled /\ At(t, "activate") /\ plugin = "ready"
    /\ starting = None /\ Registered
    /\ thread' = Goto(t, "markError")
    /\ UNCHANGED <<plugin, worker, starting, handle, proc, events>>

ActivateStarts(t) ==
    /\ Settled /\ At(t, "activate") /\ plugin = "ready"
    /\ starting = None /\ ~Registered
    /\ worker' = NextHandle /\ starting' = NextHandle
    /\ StartInternal(t, NextHandle, NoHandle, thread[t].op)
    /\ UNCHANGED <<plugin, events>>

(* The jobs of the started plugin are synchronized, which may fail.         *)
JobsSynced(t, ok) ==
    /\ Settled /\ At(t, "sync")
    /\ thread' = IF ok THEN End(t) ELSE Goto(t, "markError")
    /\ UNCHANGED <<plugin, worker, starting, handle, proc, events>>

MarkError(t) ==
    /\ Settled /\ At(t, "markError")
    /\ thread' = [thread EXCEPT ![t] = [Idle EXCEPT !.op = "error", !.read = plugin, !.at = "deactivate"]]
    /\ UNCHANGED <<plugin, worker, starting, handle, proc, events>>

(* unloadSingle stops a worker that is running.                             *)
Deactivate(t) ==
    /\ Settled /\ At(t, "deactivate")
    /\ IF Running THEN StopInternal(t, worker) ELSE thread' = Goto(t, "deactivated") /\ UNCHANGED handle
    /\ UNCHANGED <<plugin, worker, starting, proc, events>>

(* What follows, by the status the request has read at its beginning.  The  *)
(* package may fail to be upgraded or removed.                              *)
Becomes(t, status) == plugin' = IF status \in VALID_TRANSITIONS(thread[t].read) THEN status ELSE plugin

Deactivated(t) ==
    /\ Settled /\ At(t, "deactivated")
    /\ \/ /\ \/ thread[t].op = "disable" /\ Becomes(t, "disabled")
             \/ thread[t].op = "error" /\ Becomes(t, "error")
             \/ thread[t].op = "unload" /\ plugin' = "uninstalled"
             \/ thread[t].op = "upgrade" /\ Becomes(t, "upgrade_pending")
             \/ thread[t].op \in {"upgrade", "unload"} /\ UNCHANGED plugin
          /\ thread' = End(t)
       \/ thread[t].op = "upgrade" /\ plugin' = "ready" /\ thread' = Goto(t, "activate")
    /\ UNCHANGED <<worker, starting, handle, proc, events>>

-----------------------------------------------------------------------------
StartStep(t) == Initialized(t) \/ InitializeFails(t) \/ StartKilled(t)
StopStep(t)  == StopGoesOn(t) \/ StopReturns(t)
RequestStep(t) ==
    \/ StartStep(t) \/ StopStep(t)
    \/ RestartStops(t) \/ BecomesReady(t)
    \/ ActivateWaits(t) \/ ActivateFails(t) \/ ActivateStarts(t)
    \/ \E ok \in BOOLEAN : JobsSynced(t, ok)
    \/ MarkError(t) \/ Deactivate(t) \/ Deactivated(t)

Operations == {"boot", "load", "enable", "disable", "restart", "upgrade", "unload"}

Next ==
    \/ \E k \in Slots : (\E op \in Operations : LifecycleRequest(k, op)) \/ RequestStep(Request(k))
    \/ \E h \in Handles : BackoffOver(h) \/ StartStep(Restart(h))
    \/ \E p \in Procs : (\E forget \in BOOLEAN : Exit(p, forget)) \/ Dies(p)
    \/ \E c \in Callers : Call(c) \/ CallEnds(c)

Spec == Init /\ [][Next]_vars

-----------------------------------------------------------------------------
(* The type of the tables, and of where each thread is.                    *)
TypeOK ==
    /\ plugin \in PluginStatuses
    /\ worker \in Handles \cup {None} /\ starting \in Handles \cup {None}
    /\ handle \in [Handles -> [status : {"none", "starting", "running", "stopping", "stopped", "crashed", "backoff"},
                               child : Procs \cup {None}, reader : Procs \cup {None},
                               intentional : BOOLEAN, crashes : 0..MaxProcs, timer : BOOLEAN]]
    /\ proc \in [Procs -> [of : Handles \cup {None}, state : {"none", "up", "killed", "gone"}, heard : BOOLEAN]]
    /\ \A t \in Threads : thread[t].h \in Handles \cup {None} /\ thread[t].p \in Procs \cup {None}

(* "One worker process per installed plugin" (plugin-worker-manager.ts:11): *)
(* as long as no two lifecycle requests have overlapped, whatever crashes,  *)
(* restarts and failing starts come in between, every live process is the   *)
(* one of the registered handle, so that a stop finds it.                   *)
OneProcessPerPlugin ==
    ~events.overlapped => \A p \in Up : worker # None /\ Child(worker) = p

(* A call waits for an answer only while the process it was sent to lives:  *)
(* the exit of a process, whichever it is, leaves none of its calls behind. *)
PendingHasProcess ==
    \A t \in Threads : thread[t].at \in Calls /\ thread[t].p # None => thread[t].p \in Up

(* Whoever finds a worker running can talk to it: its process lives and is  *)
(* read, also when requests overlap and a start succeeds during a stop.     *)
RunningHasProcess == \A h \in Handles : Status(h) = "running" => Child(h) \in Up /\ handle[h].reader = Child(h)

(* As long as no two requests have overlapped, a restart that is due finds  *)
(* its handle registered, down, and without a process: it is neither lost   *)
(* nor the start of a second worker.                                        *)
BackoffCanStart ==
    ~events.overlapped => \A h \in Handles : handle[h].timer => CanStart(h) /\ Child(h) = None /\ worker = h

(* "When it moves out of `ready`, the worker is stopped gracefully"         *)
(* (plugin-lifecycle.ts:19): a plugin that is not ready, with no request in *)
(* progress, has no process.                                                *)
OfflineHasNoWorker ==
    plugin # "ready" /\ (\A k \in Slots : thread[Request(k)] = Idle) => Up = {}
==============================================================================
