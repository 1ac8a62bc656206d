---------------------------- MODULE PluginProofs ----------------------------
(***************************************************************************)
(* Proofs about the plugin workers of the two servers: PluginHost (Node)   *)
(* and PluginWorkers (Go), for any requests, processes, exits and bounds.  *)
(*                                                                         *)
(* PluginHost.  HostInv holds whatever the requests do: a handle has the   *)
(* process it reads, one of its own that lives, and a thread knows only    *)
(* live processes or has been told.  Alone adds what no overlap of two     *)
(* requests gives: the only live process is that of the registered handle, *)
(* because whatever spawns (an activation, the end of a restart's stop, a  *)
(* backoff) does so when that handle is down.                              *)
(*                                                                         *)
(* PluginWorkers.  A handle is passed from an attempt that has no process  *)
(* yet, to its process, to the timer the end of the process arms, and to   *)
(* the next attempt: as only one of them is there at a time (OneLife), no  *)
(* process takes the field cmd away from another.                          *)
(***************************************************************************)
EXTENDS PluginHost, PluginWorkers, FiniteSetTheorems, TLAPS

-----------------------------------------------------------------------------
(* PluginHost: the types, and what ties handles, processes and threads.     *)

HandleRecords ==
    [status : {"none", "starting", "running", "stopping", "stopped", "crashed", "backoff"},
     child : Procs \cup {None}, reader : Procs \cup {None},
     intentional : BOOLEAN, crashes : 0..MaxProcs, timer : BOOLEAN]

ProcRecords == [of : Handles \cup {None}, state : {"none", "up", "killed", "gone"}, heard : BOOLEAN]

Places ==
    {"idle", "write", "activate", "await", "initialize", "killing", "sync", "markError", "deactivate",
     "stop", "shutdown", "drain", "term", "kill", "stopped", "deactivated", "call"}

ThreadRecords ==
    [at : Places, op : Operations \cup {"none", "error", "backoff"}, read : PluginStatuses \cup {"none"},
     h : Handles \cup {None}, p : Procs \cup {None}]

HostTyped ==
    /\ plugin \in PluginStatuses
    /\ worker \in Handles \cup {None} /\ starting \in Handles \cup {None}
    /\ handle \in [Handles -> HandleRecords]
    /\ proc \in [Procs -> ProcRecords]
    /\ thread \in [Threads -> ThreadRecords]
    /\ events \in [requests : 0..MaxRequests, exits : Nat, calls : Nat, overlapped : BOOLEAN]

Asking == {"shutdown", "drain", "term", "kill"}
Holds  == Asking \cup {"initialize", "killing", "stopped"}
Activators == {"boot", "load", "enable", "upgrade"}

Made(h) == Status(h) # "none"

\* A handle has the process it reads, one of its own that lives, and nothing
\* at all before it is made.
RowOK(h) ==
    /\ handle[h].reader = Child(h)
    /\ Child(h) # None => Child(h) \in Up /\ proc[Child(h)].of = h
    /\ Status(h) = "running" => Child(h) # None
    /\ handle[h].timer => Made(h)

\* What a thread knows: a handle that is made, and a process of that handle
\* that lives, or that it has been told of.
ThreadOK(t) ==
    /\ thread[t].at \in Holds => thread[t].h \in Handles /\ Made(thread[t].h)
    /\ thread[t].at \in Waits \cup Calls /\ thread[t].p # None =>
          thread[t].p \in Up /\ proc[thread[t].p].of = thread[t].h
    /\ thread[t].at = "initialize" /\ thread[t].p # None => Child(thread[t].h) # None
    /\ thread[t].at \in {"write", "activate"} => thread[t].op \in Activators
    /\ thread[t].at = "stop" => thread[t].op = "restart"

ProcOK(p) == p \in Up => proc[p].of \in Handles /\ Made(proc[p].of)

WorkerOK == worker # None => Made(worker)

\* The requests that have not started the worker they are there to start.
Before == {"write", "activate", "deactivate", "stopped", "deactivated"} \cup Asking
Activating == {k \in Slots : thread[Request(k)].op \in Activators /\ thread[Request(k)].at \in Before}

\* Handles are made in order, and there is one left for each of those.
HandlesLeft ==
    /\ IsFiniteSet(Activating)
    /\ \E n \in Nat : /\ \A h \in Handles : Made(h) <=> h <= n
                      /\ n + Cardinality(Activating) <= events.requests

\* Processes are spawned in order.
ProcsInOrder == \E m \in Nat : \A p \in Procs : proc[p].state # "none" <=> p <= m

Gone == {p \in Procs : proc[p].state = "gone"}
CrashesCounted == \A h \in Handles : handle[h].crashes <= Cardinality(Gone)

HostInv ==
    /\ HostTyped
    /\ \A h \in Handles : RowOK(h)
    /\ \A t \in Threads : ThreadOK(t)
    /\ \A p \in Procs : ProcOK(p)
    /\ WorkerOK
    /\ HandlesLeft
    /\ ProcsInOrder
    /\ CrashesCounted

-----------------------------------------------------------------------------

LEMMA ThreadNames ==
    /\ \A k \in Slots : Request(k) \in Threads
    /\ \A h \in Handles : Restart(h) \in Threads
    /\ \A c \in Callers : Caller(c) \in Threads
    /\ \A j, k : Request(j) = Request(k) => j = k
    /\ \A k, h : Request(k) # Restart(h) /\ Request(k) # Caller(h)
  BY DEF Request, Restart, Caller, Threads

LEMMA Numbers ==
    /\ MaxRequests \in Nat /\ MaxProcs \in Nat
    /\ None \notin Handles /\ None \notin Procs
    /\ Handles \subseteq Nat /\ Procs \subseteq Nat
  BY PluginConstants DEF None, Handles, Procs

LEMMA ProcsFinite == IsFiniteSet(Procs) /\ Cardinality(Procs) = MaxProcs
  <1>1. MaxProcs \in Nat
    BY PluginConstants
  <1>2. 1 \in Int /\ MaxProcs \in Int /\ (1 <= MaxProcs \/ MaxProcs = 0)
    BY <1>1
  <1>3. /\ IsFiniteSet(1..MaxProcs)
        /\ Cardinality(1..MaxProcs) = IF 1 > MaxProcs THEN 0 ELSE MaxProcs - 1 + 1
    BY ONLY <1>2, FS_Interval
  <1>4. Cardinality(1..MaxProcs) = MaxProcs
    BY ONLY <1>1, <1>2, <1>3
  <1> QED BY <1>3, <1>4 DEF Procs

LEMMA GoneFinite == IsFiniteSet(Gone) /\ Cardinality(Gone) \in Nat
  <1>1. Gone \subseteq Procs
    BY DEF Gone
  <1> QED BY <1>1, ProcsFinite, FS_Subset, FS_CardinalityType

LEMMA IdleTyped ==
  Idle \in ThreadRecords /\ Idle.at = "idle" /\ Idle.op = "none"
  BY DEF Idle, ThreadRecords, Places, None

LEMMA HostInit == Init => HostInv
  <1> SUFFICES ASSUME Init PROVE HostInv
    OBVIOUS
  <1> USE Numbers, ThreadNames
  <1>1. HostTyped
    <2>1. NoHandle \in HandleRecords
      BY DEF NoHandle, HandleRecords, None
    <2>2. NoProc \in ProcRecords
      BY DEF NoProc, ProcRecords, None
    <2> QED BY <2>1, <2>2, IdleTyped DEF Init, HostTyped, PluginStatuses
  <1>2. Up = {}
    BY DEF Init, Up, NoProc
  <1>3. \A h \in Handles : RowOK(h) /\ ~Made(h)
    BY DEF Init, RowOK, NoHandle, Status, Child, Made
  <1>4. \A t \in Threads : ThreadOK(t)
    BY DEF Init, ThreadOK, Idle, Holds, Asking, Waits, Calls
  <1>5. (\A p \in Procs : ProcOK(p)) /\ WorkerOK
    BY <1>2 DEF Init, ProcOK, WorkerOK
  <1>6. HandlesLeft
    <2>1. Activating = {}
      BY DEF Init, Activating, Idle, Before, Asking
    <2>2. IsFiniteSet(Activating) /\ Cardinality(Activating) = 0
      BY <2>1, FS_EmptySet
    <2>3. \A h \in Handles : Made(h) <=> h <= 0
      BY <1>3 DEF Handles
    <2>4. events.requests = 0
      BY DEF Init
    <2> QED BY <2>2, <2>3, <2>4 DEF HandlesLeft
  <1>7. ProcsInOrder
    <2>1. \A p \in Procs : proc[p].state # "none" <=> p <= 0
      BY DEF Init, NoProc, Procs
    <2> QED BY <2>1 DEF ProcsInOrder
  <1>8. CrashesCounted
    <2>1. Gone = {}
      BY DEF Init, Gone, NoProc
    <2>2. Cardinality(Gone) = 0
      BY <2>1, FS_EmptySet
    <2> QED BY <2>2 DEF Init, CrashesCounted, NoHandle
  <1> QED BY <1>1, <1>3, <1>4, <1>5, <1>6, <1>7, <1>8 DEF HostInv

\* A step that ends no process and takes none from a handle has only what it
\* writes to answer for.
LEMMA LinksKept ==
  ASSUME HostInv, HostTyped',
         \A p \in Procs : p \in Up => p \in Up' /\ proc'[p].of = proc[p].of,
         \A h \in Handles : Made(h) => Made(h)',
         \A h \in Handles : Child(h) # None => Child(h)' # None,
         \A h \in Handles : handle'[h] = handle[h] \/ RowOK(h)',
         \A t \in Threads : thread'[t] = thread[t] \/ ThreadOK(t)',
         \A p \in Procs : p \in Up \/ ProcOK(p)',
         worker' = worker \/ WorkerOK'
  PROVE  /\ \A h \in Handles : RowOK(h)'
         /\ \A t \in Threads : ThreadOK(t)'
         /\ \A p \in Procs : ProcOK(p)'
         /\ WorkerOK'
  <1> USE Numbers
  <1>1. ASSUME NEW h \in Handles PROVE RowOK(h)'
    <2> SUFFICES ASSUME handle'[h] = handle[h] PROVE RowOK(h)'
      BY <1>1
    <2>1. RowOK(h) /\ Child(h) \in Procs \cup {None}
      BY <1>1 DEF HostInv, HostTyped, HandleRecords, Child
    <2>2. Child(h)' = Child(h) /\ Status(h)' = Status(h)
      BY DEF Child, Status
    <2>3. Child(h) # None => Child(h) \in Up' /\ proc'[Child(h)].of = h
      <3> DEFINE c == Child(h)
      <3>1. c \in Procs \cup {None} /\ (c # None => c \in Up /\ proc[c].of = h)
        BY <2>1 DEF RowOK
      <3> QED BY <3>1
    <2> QED BY <2>1, <2>2, <2>3 DEF RowOK, Made
  <1>2. ASSUME NEW t \in Threads PROVE ThreadOK(t)'
    <2> SUFFICES ASSUME thread'[t] = thread[t] PROVE ThreadOK(t)'
      BY <1>2
    <2>1. ThreadOK(t) /\ thread[t].h \in Handles \cup {None} /\ thread[t].p \in Procs \cup {None}
      BY <1>2 DEF HostInv, HostTyped, ThreadRecords
    <2>2. thread[t].at = "initialize" => thread[t].h \in Handles
      BY <2>1 DEF ThreadOK, Holds
    <2> QED BY <2>1, <2>2 DEF ThreadOK
  <1>3. ASSUME NEW p \in Procs PROVE ProcOK(p)'
    BY <1>3 DEF HostInv, ProcOK
  <1>4. WorkerOK'
    BY DEF HostInv, HostTyped, WorkerOK
  <1> QED BY <1>1, <1>2, <1>3, <1>4

LEMMA CountsKept ==
  ASSUME HostInv, HostTyped',
         \A h \in Handles : Made(h)' <=> Made(h),
         \A h \in Handles : handle'[h].crashes \in {0, handle[h].crashes},
         \A p \in Procs : proc'[p].state = proc[p].state \/ (p \in Up /\ p \in Up'),
         \A k \in Slots : k \in Activating' => k \in Activating,
         events.requests <= events'.requests
  PROVE  HandlesLeft' /\ ProcsInOrder' /\ CrashesCounted'
  <1> USE Numbers
  <1>1. HandlesLeft'
    <2>1. Activating' \subseteq Activating
      BY DEF Activating
    <2>2. IsFiniteSet(Activating') /\ Cardinality(Activating') <= Cardinality(Activating)
          /\ Cardinality(Activating) \in Nat /\ Cardinality(Activating') \in Nat
      BY <2>1, FS_Subset, FS_CardinalityType DEF HostInv, HandlesLeft
    <2>3. PICK n \in Nat : /\ \A h \in Handles : Made(h) <=> h <= n
                           /\ n + Cardinality(Activating) <= events.requests
      BY DEF HostInv, HandlesLeft
    <2>4. \A h \in Handles : Made(h)' <=> h <= n
      BY <2>3
    <2>5. events.requests \in Nat /\ events'.requests \in Nat
      BY DEF HostInv, HostTyped
    <2>6. n + Cardinality(Activating') <= events'.requests
      BY <2>2, <2>3, <2>5
    <2> QED BY <2>2, <2>4, <2>6 DEF HandlesLeft
  <1>2. ProcsInOrder'
    <2>1. PICK m \in Nat : \A p \in Procs : proc[p].state # "none" <=> p <= m
      BY DEF HostInv, ProcsInOrder
    <2>2. \A p \in Procs : proc'[p].state # "none" <=> proc[p].state # "none"
      BY DEF Up
    <2> QED BY <2>1, <2>2 DEF ProcsInOrder
  <1>3. CrashesCounted'
    <2>1. \A p \in Procs : proc'[p].state = "gone" <=> proc[p].state = "gone"
      BY DEF Up
    <2>2. Gone' = Gone
      BY <2>1 DEF Gone
    <2>3. Cardinality(Gone) \in Nat
      BY GoneFinite
    <2> QED BY <2>2, <2>3 DEF HostInv, CrashesCounted
  <1> QED BY <1>1, <1>2, <1>3

\* A step that neither spawns nor ends a process.
LEMMA QuietKept ==
  ASSUME HostInv, HostTyped',
         \A h \in Handles :
            \/ handle'[h] = handle[h]
            \/ /\ handle'[h].child = handle[h].child /\ handle'[h].reader = handle[h].reader
               /\ Made(h) /\ handle'[h].status # "none"
               /\ handle'[h].status = "running" => handle[h].child # None
               /\ handle'[h].crashes \in {0, handle[h].crashes},
         \A t \in Threads : thread'[t] = thread[t] \/ ThreadOK(t)',
         \A p \in Procs : proc'[p].of = proc[p].of /\ (proc'[p].state = proc[p].state \/ (p \in Up /\ p \in Up')),
         worker' \in {worker, None},
         \A k \in Slots : k \in Activating' => k \in Activating,
         events.requests <= events'.requests
  PROVE  HostInv'
  <1> USE Numbers
  <1>1. \A h \in Handles : Made(h)' <=> Made(h)
    BY DEF Made, Status
  <1>2. \A h \in Handles : Child(h)' = Child(h)
    BY DEF Child
  <1>3. \A p \in Procs : (p \in Up' <=> p \in Up) /\ proc'[p].of = proc[p].of
    BY DEF Up
  <1>4. ASSUME NEW h \in Handles PROVE handle'[h] = handle[h] \/ RowOK(h)'
    <2> SUFFICES ASSUME handle'[h] # handle[h] PROVE RowOK(h)'
      BY <1>4
    <2>1. RowOK(h) /\ Child(h) \in Procs \cup {None} /\ Made(h)
      BY <1>4 DEF HostInv, HostTyped, HandleRecords, Child
    <2>2. Child(h) # None => Child(h) \in Up' /\ proc'[Child(h)].of = h
      <3> DEFINE c == Child(h)
      <3>1. c \in Procs \cup {None} /\ (c # None => c \in Up /\ proc[c].of = h)
        BY <2>1 DEF RowOK
      <3> QED BY <3>1, <1>3
    <2>3. handle'[h].reader = Child(h)' /\ (handle'[h].status = "running" => Child(h) # None)
      BY <1>4, <2>1 DEF RowOK, Child
    <2> QED BY <1>1, <1>2, <1>4, <2>1, <2>2, <2>3 DEF RowOK, Status
  <1>5. ASSUME NEW p \in Procs PROVE p \in Up \/ ProcOK(p)'
    BY <1>3, <1>5 DEF ProcOK
  <1>6. worker' = worker \/ WorkerOK'
    BY DEF WorkerOK
  <1>7. /\ \A h \in Handles : RowOK(h)'
        /\ \A t \in Threads : ThreadOK(t)'
        /\ \A p \in Procs : ProcOK(p)'
        /\ WorkerOK'
    BY <1>1, <1>2, <1>3, <1>4, <1>5, <1>6, LinksKept
  <1>8. \A h \in Handles : handle'[h].crashes \in {0, handle[h].crashes}
    OBVIOUS
  <1>9. HandlesLeft' /\ ProcsInOrder' /\ CrashesCounted'
    BY <1>1, <1>8, CountsKept
  <1> QED BY <1>7, <1>9 DEF HostInv

\* Where a thread that has changed alone is, in the terms of RowMoves.
LEMMA OneThread ==
  ASSUME HostInv, NEW t \in Threads, NEW f \in ThreadRecords, thread' = [thread EXCEPT ![t] = f],
         f.at \in Holds => f.h \in Handles /\ Made(f.h)',
         f.at \in Waits \cup Calls /\ f.p # None => f.p \in Up' /\ proc'[f.p].of = f.h,
         f.at = "initialize" /\ f.p # None => Child(f.h)' # None,
         f.at \in {"write", "activate"} => f.op \in Activators,
         f.at = "stop" => f.op = "restart",
         f.op \in Activators /\ f.at \in Before => thread[t].op \in Activators /\ thread[t].at \in Before
  PROVE  /\ thread' \in [Threads -> ThreadRecords]
         /\ \A s \in Threads : thread'[s] = thread[s] \/ ThreadOK(s)'
         /\ \A k \in Slots : k \in Activating' => k \in Activating
  <1>1. thread' \in [Threads -> ThreadRecords]
    BY DEF HostInv, HostTyped
  <1>2. ASSUME NEW s \in Threads PROVE thread'[s] = thread[s] \/ ThreadOK(s)'
    <2>1. CASE s = t
      <3>1. thread'[s] = f
        BY <2>1 DEF HostInv, HostTyped
      <3> QED BY <3>1 DEF ThreadOK, Made, Status, Child, Up
    <2>2. CASE s # t
      BY <1>2, <2>2 DEF HostInv, HostTyped
    <2> QED BY <2>1, <2>2
  <1>3. ASSUME NEW k \in Slots, k \in Activating' PROVE k \in Activating
    <2>1. Request(k) \in Threads
      BY ThreadNames
    <2>2. thread'[Request(k)] = IF Request(k) = t THEN f ELSE thread[Request(k)]
      BY <2>1 DEF HostInv, HostTyped
    <2>3. thread'[Request(k)].op \in Activators /\ thread'[Request(k)].at \in Before
      BY <1>3 DEF Activating
    <2> QED BY <2>2, <2>3 DEF Activating
  <1> QED BY <1>1, <1>2, <1>3

\* A step of one thread and nothing else, but for the status of the plugin.
LEMMA ThreadMoves ==
  ASSUME HostInv, NEW t \in Threads, NEW f \in ThreadRecords,
         thread' = [thread EXCEPT ![t] = f],
         handle' = handle, proc' = proc, starting' = starting,
         worker' \in {worker, None}, plugin' \in PluginStatuses,
         events' \in [requests : 0..MaxRequests, exits : Nat, calls : Nat, overlapped : BOOLEAN],
         events.requests <= events'.requests,
         f.at \in Holds => f.h \in Handles /\ Made(f.h),
         f.at \in Waits \cup Calls /\ f.p # None => f.p \in Up /\ proc[f.p].of = f.h,
         f.at = "initialize" /\ f.p # None => Child(f.h) # None,
         f.at \in {"write", "activate"} => f.op \in Activators,
         f.at = "stop" => f.op = "restart",
         f.op \in Activators /\ f.at \in Before => thread[t].op \in Activators /\ thread[t].at \in Before
  PROVE  HostInv'
  <1> USE Numbers
  <1>1. HostTyped'
    BY DEF HostInv, HostTyped
  <1>2. /\ \A s \in Threads : thread'[s] = thread[s] \/ ThreadOK(s)'
        /\ \A k \in Slots : k \in Activating' => k \in Activating
    BY OneThread DEF Made, Status, Child, Up
  <1>4. \A h \in Handles : handle'[h] = handle[h]
    OBVIOUS
  <1>5. \A p \in Procs : proc'[p].of = proc[p].of /\ proc'[p].state = proc[p].state
    OBVIOUS
  <1>7. HostInv /\ worker' \in {worker, None} /\ events.requests <= events'.requests
    OBVIOUS
  <1> QED BY ONLY <1>1, <1>2, <1>4, <1>5, <1>7, QuietKept

\* A thread that goes on without a handle or a process.
LEMMA GotoKept ==
  ASSUME HostInv, NEW t \in Threads, NEW at \in Places,
         thread' = [thread EXCEPT ![t].at = at],
         at \notin Holds \cup Waits \cup Calls \cup {"stop"},
         handle' = handle, proc' = proc, starting' = starting, events' = events,
         worker' \in {worker, None}, plugin' \in PluginStatuses,
         at \in {"write", "activate"} => thread[t].op \in Activators,
         thread[t].op \in Activators /\ at \in Before => thread[t].at \in Before
  PROVE  HostInv'
  <1> DEFINE f == [thread[t] EXCEPT !.at = at]
  <1>1. thread[t] \in ThreadRecords
    BY DEF HostInv, HostTyped
  <1>2. f \in ThreadRecords /\ f.at = at /\ f.op = thread[t].op
    BY <1>1 DEF ThreadRecords
  <1>3. thread' = [thread EXCEPT ![t] = f]
    OBVIOUS
  <1>4. events' \in [requests : 0..MaxRequests, exits : Nat, calls : Nat, overlapped : BOOLEAN]
        /\ events.requests <= events'.requests
    BY Numbers DEF HostInv, HostTyped
  <1> HIDE DEF f
  <1> QED BY <1>2, <1>3, <1>4, ThreadMoves DEF Waits

\* A thread that is done.
LEMMA EndsKept ==
  ASSUME HostInv, NEW t \in Threads, thread' = End(t),
         handle' = handle, proc' = proc, starting' = starting, events' = events,
         worker' = worker, plugin' \in PluginStatuses
  PROVE  HostInv'
  <1>3. events' \in [requests : 0..MaxRequests, exits : Nat, calls : Nat, overlapped : BOOLEAN]
        /\ events.requests <= events'.requests
    BY Numbers DEF HostInv, HostTyped
  <1>4. thread' = [thread EXCEPT ![t] = Idle]
    BY DEF End
  <1> QED BY <1>3, <1>4, IdleTyped, ThreadMoves DEF Holds, Asking, Waits, Calls, Before

LEMMA CallsKept ==
  ASSUME HostInv, NEW c \in Callers, Call(c) \/ CallEnds(c)
  PROVE  HostInv'
  <1> USE Numbers, ThreadNames
  <1>1. CASE Call(c)
    <2> DEFINE f == [Idle EXCEPT !.at = "call", !.h = worker, !.p = Child(worker)]
    <2>1. PICK w \in Handles : w = worker
      BY <1>1 DEF Call, HostInv, HostTyped
    <2>2. PICK q \in Procs : q = Child(w) /\ q \in Up /\ proc[q].of = w
      <3>1. RowOK(w) /\ Child(w) \in Procs \cup {None} /\ Child(w) # None
        BY <1>1, <2>1 DEF Call, HostInv, HostTyped, HandleRecords, Child
      <3> QED BY <3>1 DEF RowOK
    <2>3. f.at = "call" /\ f.op = "none" /\ f.h = w /\ f.p = q
      BY <2>1, <2>2 DEF Idle
    <2>4. f \in ThreadRecords
      BY <2>1, <2>2, IdleTyped DEF ThreadRecords, Places
    <2>5. thread' = [thread EXCEPT ![Caller(c)] = f]
      BY <1>1 DEF Call
    <2>6. events' \in [requests : 0..MaxRequests, exits : Nat, calls : Nat, overlapped : BOOLEAN]
          /\ events.requests <= events'.requests
      BY <1>1 DEF Call, HostInv, HostTyped
    <2>7. /\ handle' = handle /\ proc' = proc /\ starting' = starting /\ worker' = worker
          /\ plugin' \in PluginStatuses
      BY <1>1 DEF Call, HostInv, HostTyped
    <2> HIDE DEF f
    <2> QED BY <2>2, <2>3, <2>4, <2>5, <2>6, <2>7, ThreadMoves
         DEF Holds, Asking, Before
  <1>2. CASE CallEnds(c)
    BY <1>2, EndsKept DEF CallEnds, HostInv, HostTyped
  <1> QED BY <1>1, <1>2

\* The steps of a request that touch neither a handle nor a process.
LEMMA PlainKept ==
  ASSUME HostInv, NEW k \in Slots, NEW t, t = Request(k),
         \/ BecomesReady(t) \/ ActivateWaits(t) \/ ActivateFails(t) \/ MarkError(t) \/ Deactivated(t)
         \/ \E ok \in BOOLEAN : JobsSynced(t, ok)
  PROVE  HostInv'
  <1> USE Numbers
  <1>1. t \in Threads
    BY ThreadNames
  <1>2. ThreadOK(t) /\ thread[t] \in ThreadRecords /\ plugin \in PluginStatuses
    BY <1>1 DEF HostInv, HostTyped
  <1>3. CASE BecomesReady(t)
    BY <1>1, <1>2, <1>3, GotoKept
    DEF BecomesReady, Goto, At, ThreadOK, Places, Holds, Asking, Waits, Calls, Before, PluginStatuses
  <1>4. CASE ActivateWaits(t)
    BY <1>1, <1>2, <1>4, GotoKept, EndsKept
    DEF ActivateWaits, Goto, At, Places, Holds, Asking, Waits, Calls, Before
  <1>5. CASE ActivateFails(t)
    BY <1>1, <1>2, <1>5, GotoKept
    DEF ActivateFails, Goto, At, Places, Holds, Asking, Waits, Calls, Before
  <1>6. CASE \E ok \in BOOLEAN : JobsSynced(t, ok)
    BY <1>1, <1>2, <1>6, GotoKept, EndsKept
    DEF JobsSynced, Goto, At, Places, Holds, Asking, Waits, Calls, Before
  <1>7. CASE MarkError(t)
    <2> DEFINE f == [Idle EXCEPT !.op = "error", !.read = plugin, !.at = "deactivate"]
    <2>2. f \in ThreadRecords
      BY <1>2, IdleTyped DEF ThreadRecords, Places
    <2>3. f.at = "deactivate" /\ f.op = "error"
      BY DEF Idle
    <2>4. thread' = [thread EXCEPT ![t] = f]
      BY <1>7 DEF MarkError
    <2>5. /\ handle' = handle /\ proc' = proc /\ starting' = starting /\ worker' = worker
          /\ plugin' \in PluginStatuses
          /\ events' \in [requests : 0..MaxRequests, exits : Nat, calls : Nat, overlapped : BOOLEAN]
          /\ events.requests <= events'.requests
      BY <1>7 DEF MarkError, HostInv, HostTyped
    <2> HIDE DEF f
    <2> QED BY <1>1, <2>2, <2>3, <2>4, <2>5, ThreadMoves DEF Holds, Asking, Waits, Calls, Activators
  <1>8. CASE Deactivated(t)
    <2>1. plugin' \in PluginStatuses
      BY <1>2, <1>8 DEF Deactivated, Becomes, PluginStatuses
    <2>2. CASE thread' = End(t)
      BY <1>1, <1>8, <2>1, <2>2, EndsKept DEF Deactivated
    <2>3. CASE thread[t].op = "upgrade" /\ thread' = Goto(t, "activate")
      BY <1>1, <1>8, <2>1, <2>3, GotoKept
      DEF Deactivated, Goto, At, Places, Holds, Asking, Waits, Calls, Before, Activators
    <2> QED BY <1>8, <2>2, <2>3 DEF Deactivated
  <1> QED BY <1>3, <1>4, <1>5, <1>6, <1>7, <1>8

\* The end of a start gives nobody a handle or a process.
LEMMA StartEndsThreads ==
  ASSUME HostInv, NEW t, NEW ok, StartEnds(t, ok)
  PROVE  /\ thread' \in [Threads -> ThreadRecords] /\ starting' \in Handles \cup {None}
         /\ \A s \in Threads : thread'[s] = thread[s] \/ thread'[s].at \in {"idle", "sync", "markError"}
         /\ \A s \in Threads : thread'[s] = thread[s] \/ ThreadOK(s)'
         /\ \A k \in Slots : k \in Activating' => k \in Activating
  <1>1. ASSUME NEW s \in Threads
        PROVE  /\ thread'[s] \in ThreadRecords
               /\ thread'[s] = thread[s] \/ thread'[s].at \in {"idle", "sync", "markError"}
    <2>1. thread[s] \in ThreadRecords
      BY <1>1 DEF HostInv, HostTyped
    <2>2. \/ thread'[s] = thread[s] \/ thread'[s] = Idle
          \/ thread'[s] = [thread[s] EXCEPT !.at = "sync", !.p = None]
          \/ thread'[s] = [thread[s] EXCEPT !.at = "markError", !.p = None]
      BY <1>1 DEF StartEnds
    <2>3. [thread[s] EXCEPT !.at = "sync", !.p = None] \in ThreadRecords
      BY <2>1 DEF ThreadRecords, Places
    <2>4. [thread[s] EXCEPT !.at = "markError", !.p = None] \in ThreadRecords
      BY <2>1 DEF ThreadRecords, Places
    <2> QED BY <2>1, <2>2, <2>3, <2>4, IdleTyped DEF ThreadRecords
  <1>2. thread' \in [Threads -> ThreadRecords]
    <2>1. thread' = [s \in Threads |-> thread'[s]]
      BY DEF StartEnds
    <2> QED BY <1>1, <2>1
  <1>3. ASSUME NEW s \in Threads PROVE thread'[s] = thread[s] \/ ThreadOK(s)'
    BY <1>1, <1>3 DEF ThreadOK, Holds, Asking, Waits, Calls
  <1>4. ASSUME NEW k \in Slots, k \in Activating' PROVE k \in Activating
    <2>1. Request(k) \in Threads
      BY ThreadNames
    <2>2. thread'[Request(k)].op \in Activators /\ thread'[Request(k)].at \in Before
      BY <1>4 DEF Activating
    <2>3. thread'[Request(k)] = thread[Request(k)]
      BY <1>1, <2>1, <2>2 DEF Before, Asking
    <2> QED BY <2>2, <2>3 DEF Activating
  <1>5. starting' \in Handles \cup {None}
    BY DEF StartEnds, HostInv, HostTyped
  <1> QED BY <1>1, <1>2, <1>3, <1>4, <1>5

\* One handle changes, neither its process nor whether it is made.
LEMMA RowMoves ==
  ASSUME HostInv, NEW h \in Handles, NEW r \in HandleRecords,
         handle' = [handle EXCEPT ![h] = r],
         r.child = handle[h].child, r.reader = handle[h].reader, Made(h), r.status # "none",
         r.status = "running" => handle[h].child # None, r.crashes \in {0, handle[h].crashes},
         proc' \in [Procs -> ProcRecords],
         \A p \in Procs : proc'[p].of = proc[p].of /\ (proc'[p].state = proc[p].state \/ (p \in Up /\ p \in Up')),
         thread' \in [Threads -> ThreadRecords],
         \A t \in Threads : thread'[t] = thread[t] \/ ThreadOK(t)',
         \A k \in Slots : k \in Activating' => k \in Activating,
         plugin' = plugin, worker' = worker, starting' \in Handles \cup {None}, events' = events
  PROVE  HostInv'
  <1> USE Numbers
  <1>1. HostTyped'
    BY DEF HostInv, HostTyped
  <1>2. ASSUME NEW g \in Handles
        PROVE  \/ handle'[g] = handle[g]
               \/ /\ handle'[g].child = handle[g].child /\ handle'[g].reader = handle[g].reader
                  /\ Made(g) /\ handle'[g].status # "none"
                  /\ handle'[g].status = "running" => handle[g].child # None
                  /\ handle'[g].crashes \in {0, handle[g].crashes}
    BY DEF HostInv, HostTyped
  <1>3. worker' \in {worker, None} /\ events.requests <= events'.requests
    BY DEF HostInv, HostTyped
  <1> QED BY <1>1, <1>2, <1>3, QuietKept

LEMMA StartsKept ==
  ASSUME HostInv, NEW t \in Threads, StartStep(t)
  PROVE  HostInv'
  <1> USE Numbers
  <1>1. thread[t] \in ThreadRecords /\ ThreadOK(t)
    BY DEF HostInv, HostTyped
  <1>2. PICK h \in Handles : h = thread[t].h /\ Made(h)
    BY <1>1 DEF StartStep, Initialized, InitializeFails, StartKilled, At, ThreadOK, Holds
  <1>3. handle[h] \in HandleRecords /\ RowOK(h)
    BY DEF HostInv, HostTyped
  <1>4. plugin' = plugin /\ worker' = worker /\ events' = events
    BY DEF StartStep, Initialized, InitializeFails, StartKilled
  <1>5. ASSUME NEW ok, StartEnds(t, ok), proc' = proc,
               NEW r \in HandleRecords, handle' = [handle EXCEPT ![h] = r],
               r.child = handle[h].child, r.reader = handle[h].reader, r.status # "none",
               r.status = "running" => handle[h].child # None, r.crashes \in {0, handle[h].crashes}
        PROVE  HostInv'
    <2>1. /\ thread' \in [Threads -> ThreadRecords] /\ starting' \in Handles \cup {None}
          /\ \A s \in Threads : thread'[s] = thread[s] \/ ThreadOK(s)'
          /\ \A k \in Slots : k \in Activating' => k \in Activating
      BY <1>5, StartEndsThreads
    <2>2. /\ proc' \in [Procs -> ProcRecords]
          /\ \A p \in Procs : proc'[p].of = proc[p].of /\ proc'[p].state = proc[p].state
      BY <1>5 DEF HostInv, HostTyped
    <2> QED BY <1>2, <1>4, <1>5, <2>1, <2>2, RowMoves
  <1>6. CASE Initialized(t)
    <2> DEFINE r == [handle[h] EXCEPT !.status = "running", !.crashes = 0]
    <2>1. thread[t].p # None
      BY <1>6 DEF Initialized, Settled, Goes, Waits, At
    <2>2. handle[h].child # None
      BY <1>1, <1>2, <1>6, <2>1 DEF Initialized, ThreadOK, At, Child
    <2>3. r \in HandleRecords /\ r.child = handle[h].child /\ r.reader = handle[h].reader
          /\ r.status = "running" /\ r.crashes = 0
      <3>1. 0 \in 0..MaxProcs
        OBVIOUS
      <3> HIDE Numbers
      <3> QED BY <1>3, <3>1 DEF HandleRecords
    <2>4. handle' = [handle EXCEPT ![h] = r]
      BY <1>2, <1>6 DEF Initialized
    <2>5. StartEnds(t, TRUE) /\ proc' = proc
      BY <1>6 DEF Initialized
    <2> HIDE DEF r
    <2> QED BY <1>5, <2>2, <2>3, <2>4, <2>5
  <1>7. ASSUME Crashed(t, h) PROVE HostInv'
    <2> DEFINE r == [handle[h] EXCEPT !.status = "crashed"]
    <2>1. r \in HandleRecords /\ r.child = handle[h].child /\ r.reader = handle[h].reader
          /\ r.status = "crashed" /\ r.crashes = handle[h].crashes
      BY <1>3 DEF HandleRecords
    <2>2. handle' = [handle EXCEPT ![h] = r]
      BY <1>7 DEF Crashed
    <2>3. StartEnds(t, FALSE) /\ proc' = proc
      BY <1>7 DEF Crashed
    <2> HIDE DEF r
    <2> QED BY <1>5, <2>1, <2>2, <2>3
  <1>8. CASE StartKilled(t)
    BY <1>2, <1>7, <1>8 DEF StartKilled
  <1>9. CASE InitializeFails(t)
    <2>1. CASE Child(h) = None
      BY <1>2, <1>7, <1>9, <2>1 DEF InitializeFails
    <2>2. CASE Child(h) # None
      <3>1. KillProcess(t, h)
        BY <1>2, <1>9, <2>2 DEF InitializeFails
      <3>2. PICK q \in Procs : q = Child(h) /\ q \in Up /\ proc[q].of = h
        BY <1>3, <2>2 DEF RowOK, HandleRecords, Child
      <3> DEFINE r == [handle[h] EXCEPT !.intentional = TRUE]
      <3> DEFINE f == [thread[t] EXCEPT !.at = "killing", !.p = q]
      <3>3. r \in HandleRecords /\ r.child = handle[h].child /\ r.reader = handle[h].reader
            /\ r.status = handle[h].status /\ r.crashes = handle[h].crashes
        BY <1>3 DEF HandleRecords
      <3>4. handle' = [handle EXCEPT ![h] = r]
        BY <3>1 DEF KillProcess
      <3>5. /\ proc' \in [Procs -> ProcRecords]
            /\ \A p \in Procs : proc'[p].of = proc[p].of /\ (proc'[p].state = proc[p].state \/ (p \in Up /\ p \in Up'))
        BY <3>1, <3>2 DEF KillProcess, HostInv, HostTyped, ProcRecords, Up
      <3>6. q \in Up' /\ proc'[q].of = h
        BY <3>2, <3>5 DEF Up
      <3>7. f \in ThreadRecords /\ f.at = "killing" /\ f.p = q /\ f.h = h
        BY <1>1, <1>2 DEF ThreadRecords, Places
      <3>8. thread' = [thread EXCEPT ![t] = f]
        BY <3>1, <3>2 DEF KillProcess, Await
      <3>9. Made(h)'
        BY <1>2, <1>3, <3>3, <3>4 DEF Made, Status, HostInv, HostTyped
      <3>10. /\ thread' \in [Threads -> ThreadRecords]
             /\ \A s \in Threads : thread'[s] = thread[s] \/ ThreadOK(s)'
             /\ \A k \in Slots : k \in Activating' => k \in Activating
        <4> HIDE DEF f, r
        <4> QED BY <3>6, <3>7, <3>8, <3>9, OneThread DEF Before, Asking
      <3>11. starting' \in Handles \cup {None}
        BY <3>1 DEF KillProcess, HostInv, HostTyped
      <3>12. r.status # "none" /\ (r.status = "running" => handle[h].child # None)
        BY <1>2, <2>2, <3>3 DEF Made, Status, Child
      <3> HIDE DEF f, r
      <3> QED BY <1>2, <1>4, <3>3, <3>4, <3>5, <3>10, <3>11, <3>12, RowMoves
    <2> QED BY <2>1, <2>2
  <1> QED BY <1>6, <1>8, <1>9 DEF StartStep

\* stopInternal: whatever it finds, the handle keeps its process.
LEMMA StopsBegin ==
  ASSUME HostInv, NEW t \in Threads, NEW h \in Handles, Made(h), StopInternal(t, h),
         thread[t].op \in Activators => thread[t].at \in Before,
         plugin' = plugin, worker' = worker, starting' = starting, proc' = proc, events' = events
  PROVE  HostInv'
  <1> USE Numbers
  <1>1. thread[t] \in ThreadRecords /\ ThreadOK(t)
    BY DEF HostInv, HostTyped
  <1>2. handle[h] \in HandleRecords /\ RowOK(h)
    BY DEF HostInv, HostTyped
  <1>3. /\ proc' \in [Procs -> ProcRecords] /\ starting' \in Handles \cup {None}
        /\ \A p \in Procs : proc'[p].of = proc[p].of /\ proc'[p].state = proc[p].state
    BY DEF HostInv, HostTyped
  <1>4. ASSUME NEW r \in HandleRecords, handle' = [handle EXCEPT ![h] = r],
               r.child = handle[h].child, r.reader = handle[h].reader,
               r.status \in {"stopped", "stopping"}, r.crashes = handle[h].crashes,
               NEW f \in ThreadRecords, thread' = [thread EXCEPT ![t] = f],
               f.op = thread[t].op, f.h = h,
               \/ f.at = "stopped"
               \/ f.at = "shutdown" /\ f.p = Child(h) /\ Child(h) # None
        PROVE  HostInv'
    <2>1. Made(h)'
      BY <1>4 DEF Made, Status, HostInv, HostTyped
    <2>2. f.at = "shutdown" => f.p \in Up' /\ proc'[f.p].of = h
      BY <1>2, <1>4 DEF RowOK, Up
    <2>3. /\ thread' \in [Threads -> ThreadRecords]
          /\ \A s \in Threads : thread'[s] = thread[s] \/ ThreadOK(s)'
          /\ \A k \in Slots : k \in Activating' => k \in Activating
      BY <1>4, <2>1, <2>2, OneThread DEF Waits, Calls
    <2> QED BY <1>3, <1>4, <2>3, RowMoves
  <1> DEFINE off == [handle[h] EXCEPT !.timer = FALSE]
  <1> DEFINE g == [thread[t] EXCEPT !.at = "stopped", !.h = h]
  <1>5. off \in HandleRecords /\ off.child = handle[h].child /\ off.reader = handle[h].reader
        /\ off.status = handle[h].status /\ off.crashes = handle[h].crashes
    BY <1>2 DEF HandleRecords
  <1>6. g \in ThreadRecords /\ g.at = "stopped" /\ g.op = thread[t].op /\ g.h = h
    BY <1>1 DEF ThreadRecords, Places
  <1>7. CASE Status(h) \in {"stopped", "stopping"}
    <2>1. handle' = [handle EXCEPT ![h] = off] /\ thread' = [thread EXCEPT ![t] = g]
      BY <1>7 DEF StopInternal
    <2> HIDE DEF off, g
    <2> QED BY <1>4, <1>5, <1>6, <1>7, <2>1 DEF Status
  <1>8. CASE Status(h) \notin {"stopped", "stopping"} /\ Child(h) = None
    <2> DEFINE r == [off EXCEPT !.intentional = TRUE, !.status = "stopped"]
    <2>1. handle' = [handle EXCEPT ![h] = r] /\ thread' = [thread EXCEPT ![t] = g]
      BY <1>8 DEF StopInternal
    <2>2. r \in HandleRecords /\ r.child = handle[h].child /\ r.reader = handle[h].reader
          /\ r.status = "stopped" /\ r.crashes = handle[h].crashes
      BY <1>2 DEF HandleRecords
    <2> HIDE DEF r, g
    <2> QED BY <1>4, <1>6, <2>1, <2>2
  <1>9. CASE Status(h) \notin {"stopped", "stopping"} /\ Child(h) # None
    <2> DEFINE r == [off EXCEPT !.intentional = TRUE, !.status = "stopping"]
    <2> DEFINE f == [thread[t] EXCEPT !.at = "shutdown", !.h = h, !.p = Child(h)]
    <2>1. handle' = [handle EXCEPT ![h] = r] /\ thread' = [thread EXCEPT ![t] = f]
      BY <1>9 DEF StopInternal
    <2>2. r \in HandleRecords /\ r.child = handle[h].child /\ r.reader = handle[h].reader
          /\ r.status = "stopping" /\ r.crashes = handle[h].crashes
      BY <1>2 DEF HandleRecords
    <2>3. f \in ThreadRecords /\ f.at = "shutdown" /\ f.op = thread[t].op /\ f.h = h /\ f.p = Child(h)
      BY <1>1, <1>2 DEF ThreadRecords, HandleRecords, Places, Child
    <2> HIDE DEF r, f
    <2> QED BY <1>4, <1>9, <2>1, <2>2, <2>3
  <1> QED BY <1>7, <1>8, <1>9

LEMMA StopsStartKept ==
  ASSUME HostInv, NEW t \in Threads, RestartStops(t) \/ Deactivate(t)
  PROVE  HostInv'
  <1>1. thread[t] \in ThreadRecords /\ ThreadOK(t)
    BY DEF HostInv, HostTyped
  <1>2. CASE RestartStops(t)
    <2>1. CASE worker = None
      BY <1>2, <2>1, EndsKept DEF RestartStops, HostInv, HostTyped
    <2>2. CASE worker # None
      <3>1. worker \in Handles /\ Made(worker)
        BY <2>2 DEF HostInv, HostTyped, WorkerOK
      <3>2. thread[t].op \notin Activators
        BY <1>1, <1>2 DEF RestartStops, At, ThreadOK, Activators
      <3> QED BY <1>2, <2>2, <3>1, <3>2, StopsBegin DEF RestartStops
    <2> QED BY <2>1, <2>2
  <1>3. CASE Deactivate(t)
    <2>1. CASE Running
      <3>1. worker \in Handles /\ Made(worker)
        BY <2>1 DEF Running, HostInv, HostTyped, WorkerOK
      <3>2. thread[t].at \in Before
        BY <1>3 DEF Deactivate, At, Before
      <3> QED BY <1>3, <2>1, <3>1, <3>2, StopsBegin DEF Deactivate
    <2>2. CASE ~Running
      BY <1>1, <1>3, <2>2, GotoKept
      DEF Deactivate, Goto, At, Places, Holds, Asking, Waits, Calls, Before, HostInv, HostTyped
    <2> QED BY <2>1, <2>2
  <1> QED BY <1>2, <1>3

LEMMA StopsKept ==
  ASSUME HostInv, NEW t \in Threads, StopGoesOn(t)
  PROVE  HostInv'
  <1> USE Numbers
  <1>1. thread[t] \in ThreadRecords /\ ThreadOK(t) /\ thread[t].at \in Asking
    BY DEF HostInv, HostTyped, StopGoesOn, Asking
  <1>2. PICK h \in Handles : h = thread[t].h /\ Made(h)
    BY <1>1 DEF ThreadOK, Holds
  <1>3. handle[h] \in HandleRecords /\ RowOK(h)
    BY DEF HostInv, HostTyped
  <1>4. plugin' = plugin /\ worker' = worker /\ starting' \in Handles \cup {None} /\ events' = events
    BY DEF StopGoesOn, HostInv, HostTyped
  <1>5. CASE Child(h) = None \/ At(t, "kill")
    <2> DEFINE r == [handle[h] EXCEPT !.status = "stopped"]
    <2> DEFINE f == [thread[t] EXCEPT !.at = "stopped", !.p = None]
    <2>1. r \in HandleRecords /\ r.child = handle[h].child /\ r.reader = handle[h].reader
          /\ r.status = "stopped" /\ r.crashes = handle[h].crashes
      BY <1>3 DEF HandleRecords
    <2>2. f \in ThreadRecords /\ f.at = "stopped" /\ f.op = thread[t].op /\ f.h = h /\ f.p = None
      BY <1>1, <1>2 DEF ThreadRecords, Places
    <2>3. handle' = [handle EXCEPT ![h] = r]
      BY <1>2, <1>5 DEF StopGoesOn
    <2>4. thread' = [thread EXCEPT ![t] = f]
      <3>1. thread' = [Await(t, "stopped", None) EXCEPT ![t].p = None]
        BY <1>2, <1>5 DEF StopGoesOn
      <3> QED BY <3>1 DEF Await, HostInv, HostTyped
    <2>5. /\ proc' \in [Procs -> ProcRecords]
          /\ \A p \in Procs : proc'[p].of = proc[p].of /\ proc'[p].state = proc[p].state
      BY <1>2, <1>5 DEF StopGoesOn, HostInv, HostTyped
    <2> HIDE DEF r, f
    <2>6. Made(h)'
      BY <2>1, <2>3 DEF Made, Status, HostInv, HostTyped
    <2>7. /\ thread' \in [Threads -> ThreadRecords]
          /\ \A s \in Threads : thread'[s] = thread[s] \/ ThreadOK(s)'
          /\ \A k \in Slots : k \in Activating' => k \in Activating
      BY <1>1, <2>2, <2>4, <2>6, OneThread DEF Waits, Calls, Before
    <2> QED BY <1>2, <1>4, <2>1, <2>3, <2>5, <2>7, RowMoves
  <1>6. CASE Child(h) # None /\ ~At(t, "kill")
    <2>1. PICK q \in Procs : q = Child(h) /\ q \in Up /\ proc[q].of = h
      BY <1>3, <1>6 DEF RowOK, HandleRecords, Child
    <2>2. PICK next \in {"drain", "term", "kill"} : next = Escalated(thread[t].at)
      BY DEF Escalated
    <2> DEFINE f == [thread[t] EXCEPT !.at = next, !.p = q]
    <2>3. f \in ThreadRecords /\ f.at = next /\ f.op = thread[t].op /\ f.h = h /\ f.p = q
      BY <1>1, <1>2 DEF ThreadRecords, Places
    <2>4. thread' = [thread EXCEPT ![t] = f] /\ handle' = [handle EXCEPT ![h] = handle[h]]
      BY <1>2, <1>6, <2>1, <2>2 DEF StopGoesOn, Await, HostInv, HostTyped
    <2>5. /\ proc' \in [Procs -> ProcRecords]
          /\ \A p \in Procs : proc'[p].of = proc[p].of /\ (proc'[p].state = proc[p].state \/ (p \in Up /\ p \in Up'))
      <3>1. proc' = proc \/ proc' = [proc EXCEPT ![q].state = "killed"]
        BY <1>2, <1>6, <2>1, <2>2 DEF StopGoesOn
      <3> QED BY <2>1, <3>1 DEF HostInv, HostTyped, ProcRecords, Up
    <2>6. q \in Up' /\ proc'[q].of = h
      BY <2>1, <2>5 DEF Up
    <2>7. Made(h)'
      BY <1>2, <2>4 DEF Made, Status, HostInv, HostTyped
    <2> HIDE DEF f
    <2>8. /\ thread' \in [Threads -> ThreadRecords]
          /\ \A s \in Threads : thread'[s] = thread[s] \/ ThreadOK(s)'
          /\ \A k \in Slots : k \in Activating' => k \in Activating
      BY <1>1, <2>3, <2>4, <2>6, <2>7, OneThread DEF Before
    <2>9. handle[h].status # "none" /\ (handle[h].status = "running" => handle[h].child # None)
      BY <1>2, <1>6 DEF Made, Status, Child
    <2> QED BY <1>2, <1>3, <1>4, <2>4, <2>5, <2>8, <2>9, RowMoves
  <1> QED BY <1>5, <1>6

\* The process of the next start is the first that is not spawned yet.
LEMMA NextProcIs ==
  ASSUME HostInv, \E p \in Procs : proc[p].state = "none"
  PROVE  /\ NextProc \in Procs /\ proc[NextProc].state = "none"
         /\ \A p \in Procs : proc[p].state # "none" <=> p < NextProc
  <1> USE Numbers
  <1>1. PICK m \in Nat : \A p \in Procs : proc[p].state # "none" <=> p <= m
    BY DEF HostInv, ProcsInOrder
  <1>2. m + 1 \in Procs
    BY <1>1 DEF Procs
  <1>3. proc[m + 1].state = "none" /\ \A q \in 1..m : proc[q].state # "none"
    BY <1>1, <1>2 DEF Procs
  <1>4. /\ NextProc \in Procs /\ proc[NextProc].state = "none"
        /\ \A q \in 1..(NextProc - 1) : proc[q].state # "none"
    BY <1>2, <1>3 DEF NextProc
  <1>5. PICK n \in Procs : n = NextProc
    BY <1>4
  <1>6. \A p \in Procs : proc[p].state # "none" <=> p < n
    BY <1>1, <1>4, <1>5 DEF Procs
  <1> QED BY <1>4, <1>5, <1>6

LEMMA Spawns ==
  ASSUME HostInv, NEW t \in Threads, NEW h \in Handles, NEW row \in HandleRecords,
         NEW op \in Operations \cup {"none", "error", "backoff"},
         StartInternal(t, h, row, op), row.crashes \in {0, handle[h].crashes},
         worker' \in {worker, h}, starting' \in Handles \cup {None},
         plugin' = plugin, events' = events
  PROVE  /\ HostTyped'
         /\ \A g \in Handles : RowOK(g)'
         /\ \A s \in Threads : ThreadOK(s)'
         /\ \A p \in Procs : ProcOK(p)'
         /\ WorkerOK' /\ ProcsInOrder' /\ CrashesCounted'
         /\ \A g \in Handles : Made(g)' <=> Made(g) \/ g = h
         /\ \A k \in Slots : k \in Activating' => k \in Activating /\ t # Request(k)
  <1> USE Numbers
  <1>1. PICK q \in Procs : /\ q = NextProc /\ proc[q].state = "none"
                           /\ \A p \in Procs : proc[p].state # "none" <=> p < q
    BY NextProcIs DEF StartInternal
  <1> DEFINE r == [row EXCEPT !.status = "starting", !.child = q, !.reader = q, !.intentional = FALSE]
  <1> DEFINE n == [NoProc EXCEPT !.of = h, !.state = "up"]
  <1> DEFINE f == [thread[t] EXCEPT !.op = op, !.at = "initialize", !.h = h, !.p = q]
  <1>2. r \in HandleRecords /\ r.status = "starting" /\ r.child = q /\ r.reader = q /\ r.crashes = row.crashes
    BY DEF HandleRecords
  <1>3. n \in ProcRecords /\ n.of = h /\ n.state = "up"
    BY DEF NoProc, ProcRecords, None
  <1>4. thread[t] \in ThreadRecords
    BY DEF HostInv, HostTyped
  <1>5. f \in ThreadRecords /\ f.at = "initialize" /\ f.op = op /\ f.h = h /\ f.p = q
    BY <1>4 DEF ThreadRecords, Places
  <1>6. handle' = [handle EXCEPT ![h] = r] /\ proc' = [proc EXCEPT ![q] = n] /\ thread' = [thread EXCEPT ![t] = f]
    <2>1. thread' = [thread EXCEPT ![t] = [@ EXCEPT !.op = op, !.at = "initialize", !.h = h, !.p = q]]
      BY <1>1 DEF StartInternal
    <2>2. thread' = [thread EXCEPT ![t] = f]
      BY <2>1 DEF HostInv, HostTyped
    <2> QED BY <1>1, <2>2 DEF StartInternal
  <1> HIDE DEF r, n, f
  <1>7. handle \in [Handles -> HandleRecords] /\ proc \in [Procs -> ProcRecords] /\ thread \in [Threads -> ThreadRecords]
    BY DEF HostInv, HostTyped
  <1>8. HostTyped'
    BY <1>2, <1>3, <1>5, <1>6, <1>7 DEF HostInv, HostTyped
  <1>9. /\ \A g \in Handles : g # h => handle'[g] = handle[g]
        /\ handle'[h] = r
        /\ \A p \in Procs : p # q => proc'[p] = proc[p]
        /\ proc'[q] = n
        /\ \A s \in Threads : s # t => thread'[s] = thread[s]
        /\ thread'[t] = f
    BY <1>6, <1>7
  <1>10. \A g \in Handles : (Made(g)' <=> Made(g) \/ g = h)
    BY <1>2, <1>9 DEF Made, Status
  <1>11. q \in Up' /\ q \notin Up /\ (\A p \in Procs : p \in Up => p \in Up' /\ proc'[p].of = proc[p].of)
    BY <1>1, <1>3, <1>9 DEF Up
  <1>12. \A g \in Handles : Child(g) # None => Child(g)' # None
    BY <1>2, <1>9 DEF Child
  <1>13. \A g \in Handles : handle'[g] = handle[g] \/ RowOK(g)'
    BY <1>2, <1>3, <1>9, <1>11 DEF RowOK, Child, Status, Made
  <1>14. \A s \in Threads : thread'[s] = thread[s] \/ ThreadOK(s)'
    <2>1. Child(h)' # None /\ Made(h)'
      BY <1>2, <1>9 DEF Child, Made, Status
    <2> QED BY <1>3, <1>5, <1>9, <1>11, <2>1 DEF ThreadOK
  <1>15. \A p \in Procs : p \in Up \/ ProcOK(p)'
    <2> SUFFICES ASSUME NEW p \in Procs, p \in Up', p \notin Up PROVE proc'[p].of \in Handles /\ Made(proc[p].of)'
      BY DEF ProcOK
    <2>1. p = q
      BY <1>9 DEF Up
    <2>2. proc'[p].of = h
      BY <1>3, <1>9, <2>1
    <2> QED BY <1>10, <2>2 DEF Made
  <1>16. worker' = worker \/ WorkerOK'
    BY <1>10 DEF WorkerOK, Made
  <1>17. /\ \A g \in Handles : RowOK(g)'
         /\ \A s \in Threads : ThreadOK(s)'
         /\ \A p \in Procs : ProcOK(p)'
         /\ WorkerOK'
    BY <1>8, <1>10, <1>11, <1>12, <1>13, <1>14, <1>15, <1>16, LinksKept
  <1>18. ProcsInOrder'
    <2>1. \A p \in Procs : p \in Nat /\ q \in Nat
      OBVIOUS
    <2>2. \A p \in Procs : p # q => (proc'[p].state # "none" <=> p < q)
      BY <1>1, <1>9
    <2>3. proc'[q].state # "none"
      BY <1>3, <1>9
    <2>4. ASSUME NEW p \in Procs PROVE proc'[p].state # "none" <=> p <= q
      <3>1. CASE p = q
        <4>1. p <= q
          BY ONLY <2>1, <3>1
        <4>2. proc'[p].state # "none"
          BY <2>3, <3>1
        <4> QED BY <4>1, <4>2
      <3>2. CASE p # q
        <4>1. p < q <=> p <= q
          BY ONLY <2>1, <3>2
        <4> QED BY <2>2, <3>2, <4>1
      <3> QED BY <3>1, <3>2
    <2> QED BY <2>1, <2>4 DEF ProcsInOrder
  <1>19. CrashesCounted'
    <2>1. \A p \in Procs : proc'[p].state = "gone" <=> proc[p].state = "gone"
      BY <1>1, <1>3, <1>9
    <2>2. Gone' = Gone
      BY <2>1 DEF Gone
    <2>3. Cardinality(Gone) \in Nat
      BY GoneFinite
    <2> QED BY <1>2, <1>9, <2>2, <2>3 DEF HostInv, CrashesCounted
  <1>20. ASSUME NEW k \in Slots, k \in Activating' PROVE k \in Activating /\ t # Request(k)
    <2>1. Request(k) \in Threads /\ thread'[Request(k)].at \in Before /\ thread'[Request(k)].op \in Activators
      BY <1>20, ThreadNames DEF Activating
    <2>2. t # Request(k)
      BY <1>5, <1>9, <2>1 DEF Before, Asking
    <2> QED BY <1>9, <2>1, <2>2 DEF Activating
  <1> QED BY <1>8, <1>10, <1>17, <1>18, <1>19, <1>20

\* A restart spawns for a handle that is made.
LEMMA Respawns ==
  ASSUME HostInv, NEW t \in Threads, NEW h \in Handles, Made(h), NEW row \in HandleRecords,
         NEW op \in Operations \cup {"none", "error", "backoff"},
         StartInternal(t, h, row, op), row.crashes \in {0, handle[h].crashes},
         worker' = worker, starting' = starting, plugin' = plugin, events' = events
  PROVE  HostInv'
  <1> USE Numbers
  <1>1. /\ HostTyped'
        /\ \A g \in Handles : RowOK(g)'
        /\ \A s \in Threads : ThreadOK(s)'
        /\ \A p \in Procs : ProcOK(p)'
        /\ WorkerOK' /\ ProcsInOrder' /\ CrashesCounted'
        /\ \A g \in Handles : Made(g)' <=> Made(g) \/ g = h
        /\ \A k \in Slots : k \in Activating' => k \in Activating /\ t # Request(k)
    BY Spawns DEF HostInv, HostTyped
  <1>2. HandlesLeft'
    <2>1. Activating' \subseteq Activating
      BY <1>1 DEF Activating
    <2>2. IsFiniteSet(Activating') /\ Cardinality(Activating') <= Cardinality(Activating)
          /\ Cardinality(Activating) \in Nat /\ Cardinality(Activating') \in Nat
      BY <2>1, FS_Subset, FS_CardinalityType DEF HostInv, HandlesLeft
    <2>3. PICK n \in Nat : /\ \A g \in Handles : Made(g) <=> g <= n
                           /\ n + Cardinality(Activating) <= events.requests
      BY DEF HostInv, HandlesLeft
    <2>4. \A g \in Handles : Made(g)' <=> g <= n
      BY <1>1, <2>3
    <2>5. events.requests \in Nat /\ events' = events
      BY DEF HostInv, HostTyped
    <2>6. n + Cardinality(Activating') <= events'.requests
      BY <2>2, <2>3, <2>5
    <2> QED BY <2>2, <2>4, <2>6 DEF HandlesLeft
  <1> QED BY <1>1, <1>2 DEF HostInv

LEMMA StopReturnsKept ==
  ASSUME HostInv, NEW t \in Threads, StopReturns(t)
  PROVE  HostInv'
  <1>1. thread[t] \in ThreadRecords /\ ThreadOK(t) /\ thread[t].at = "stopped"
    BY DEF HostInv, HostTyped, StopReturns, At
  <1>2. PICK h \in Handles : h = thread[t].h /\ Made(h)
    BY <1>1 DEF ThreadOK, Holds
  <1>3. CASE thread[t].op = "restart"
    <2>1. CASE CanStart(h)
      <3>1. StartInternal(t, h, handle[h], "restart") /\ handle[h] \in HandleRecords
        BY <1>2, <1>3, <2>1 DEF StopReturns, HostInv, HostTyped
      <3>2. worker' = worker /\ starting' = starting /\ plugin' = plugin /\ events' = events
        BY <1>2, <1>3, <2>1 DEF StopReturns
      <3>3. "restart" \in Operations
        BY DEF Operations
      <3> QED BY <1>2, <3>1, <3>2, <3>3, Respawns
    <2>2. CASE ~CanStart(h)
      BY <1>2, <1>3, <2>2, EndsKept DEF StopReturns, HostInv, HostTyped
    <2> QED BY <2>1, <2>2
  <1>4. CASE thread[t].op # "restart"
    BY <1>1, <1>4, GotoKept
    DEF StopReturns, Goto, Places, Holds, Asking, Waits, Calls, Before, HostInv, HostTyped
  <1> QED BY <1>3, <1>4

LEMMA BackoffKept ==
  ASSUME HostInv, NEW h \in Handles, BackoffOver(h)
  PROVE  HostInv'
  <1> USE Numbers
  <1> DEFINE off == [handle[h] EXCEPT !.timer = FALSE]
  <1>1. handle[h] \in HandleRecords /\ RowOK(h) /\ Made(h) /\ Restart(h) \in Threads
    BY ThreadNames DEF HostInv, HostTyped, BackoffOver, RowOK
  <1>2. off \in HandleRecords /\ off.child = handle[h].child /\ off.reader = handle[h].reader
        /\ off.status = handle[h].status /\ off.crashes = handle[h].crashes
    BY <1>1 DEF HandleRecords
  <1>3. worker' = worker /\ starting' = starting /\ plugin' = plugin /\ events' = events
    BY DEF BackoffOver
  <1>4. CASE CanStart(h)
    <2>1. StartInternal(Restart(h), h, off, "backoff")
      BY <1>4 DEF BackoffOver
    <2> HIDE DEF off
    <2> QED BY <1>1, <1>2, <1>3, <2>1, Respawns
  <1>5. CASE ~CanStart(h)
    <2>1. handle' = [handle EXCEPT ![h] = off] /\ proc' = proc /\ thread' = thread
      BY <1>5 DEF BackoffOver
    <2>2. /\ proc' \in [Procs -> ProcRecords] /\ starting' \in Handles \cup {None}
          /\ \A p \in Procs : proc'[p].of = proc[p].of /\ proc'[p].state = proc[p].state
          /\ thread' \in [Threads -> ThreadRecords] /\ \A t \in Threads : thread'[t] = thread[t]
          /\ \A k \in Slots : k \in Activating' => k \in Activating
      BY <1>3, <2>1 DEF HostInv, HostTyped, Activating
    <2>3. off.status # "none" /\ (off.status = "running" => handle[h].child # None)
      BY <1>1, <1>2 DEF RowOK, Made, Status, Child
    <2> HIDE DEF off
    <2> QED BY <1>1, <1>2, <1>3, <2>1, <2>2, <2>3, RowMoves
  <1> QED BY <1>4, <1>5

\* There is a handle left for every activation.
LEMMA NextHandleIs ==
  ASSUME HostInv, NEW k \in Slots, k \in Activating
  PROVE  /\ NextHandle \in Handles /\ ~Made(NextHandle)
         /\ \A h \in Handles : Made(h) <=> h < NextHandle
  <1> USE Numbers
  <1>1. PICK n \in Nat : /\ \A h \in Handles : Made(h) <=> h <= n
                         /\ n + Cardinality(Activating) <= events.requests
    BY DEF HostInv, HandlesLeft
  <1>2. Cardinality(Activating) \in Nat /\ Cardinality(Activating) # 0
    BY FS_CardinalityType, FS_EmptySet DEF HostInv, HandlesLeft
  <1>3. events.requests \in 0..MaxRequests
    BY DEF HostInv, HostTyped
  <1>4. n + 1 \in Handles
    BY <1>1, <1>2, <1>3 DEF Handles
  <1>5. Status(n + 1) = "none" /\ \A g \in 1..n : Status(g) # "none"
    BY <1>1, <1>4 DEF Handles, Made
  <1>6. /\ NextHandle \in Handles /\ Status(NextHandle) = "none"
        /\ \A g \in 1..(NextHandle - 1) : Status(g) # "none"
    BY <1>4, <1>5 DEF NextHandle
  <1>7. PICK m \in Handles : m = NextHandle
    BY <1>6
  <1>8. \A h \in Handles : Made(h) <=> h < m
    BY <1>1, <1>6, <1>7 DEF Handles, Made
  <1> QED BY <1>6, <1>7, <1>8 DEF Made

LEMMA ActivationKept ==
  ASSUME HostInv, NEW k \in Slots, ActivateStarts(Request(k))
  PROVE  HostInv'
  <1> USE Numbers
  <1> DEFINE t == Request(k)
  <1>1. t \in Threads
    BY ThreadNames
  <1>2. thread[t] \in ThreadRecords /\ ThreadOK(t) /\ thread[t].at = "activate"
    BY <1>1 DEF HostInv, HostTyped, ActivateStarts, At
  <1>3. k \in Activating
    BY <1>2 DEF ThreadOK, Activating, Before
  <1>4. PICK h \in Handles : h = NextHandle /\ ~Made(h) /\ \A g \in Handles : Made(g) <=> g < h
    BY <1>3, NextHandleIs
  <1>5. StartInternal(t, h, NoHandle, thread[t].op) /\ worker' = h /\ starting' = h /\ plugin' = plugin /\ events' = events
    BY <1>4 DEF ActivateStarts
  <1>6. NoHandle \in HandleRecords /\ NoHandle.crashes = 0
    BY DEF NoHandle, HandleRecords, None
  <1>7. thread[t].op \in Operations \cup {"none", "error", "backoff"}
    BY <1>2 DEF ThreadRecords
  <1>8. /\ HostTyped'
        /\ \A g \in Handles : RowOK(g)'
        /\ \A s \in Threads : ThreadOK(s)'
        /\ \A p \in Procs : ProcOK(p)'
        /\ WorkerOK' /\ ProcsInOrder' /\ CrashesCounted'
        /\ \A g \in Handles : Made(g)' <=> Made(g) \/ g = h
        /\ \A j \in Slots : j \in Activating' => j \in Activating /\ t # Request(j)
    BY <1>1, <1>5, <1>6, <1>7, Spawns
  <1>9. HandlesLeft'
    <2>1. Activating' \subseteq Activating \ {k}
      BY <1>8 DEF Activating
    <2>2. IsFiniteSet(Activating) /\ Cardinality(Activating) \in Nat
      BY FS_CardinalityType DEF HostInv, HandlesLeft
    <2>3. IsFiniteSet(Activating \ {k}) /\ Cardinality(Activating \ {k}) = Cardinality(Activating) - 1
      BY <1>3, <2>2, FS_RemoveElement
    <2>4. IsFiniteSet(Activating') /\ Cardinality(Activating') <= Cardinality(Activating) - 1
          /\ Cardinality(Activating') \in Nat
      BY <2>1, <2>3, FS_Subset, FS_CardinalityType
    <2>5. PICK n \in Nat : /\ \A g \in Handles : Made(g) <=> g <= n
                           /\ n + Cardinality(Activating) <= events.requests
      BY DEF HostInv, HandlesLeft
    <2>6. h \in Nat /\ h >= 1 /\ h - 1 \in Nat
      BY DEF Handles
    <2>7. h - 1 <= n
      <3>1. CASE h = 1
        BY <2>5, <3>1
      <3>2. CASE h > 1
        <4>1. h - 1 \in Handles
          BY <2>6, <3>2 DEF Handles
        <4> QED BY <1>4, <2>5, <2>6, <4>1
      <3> QED BY <2>6, <3>1, <3>2
    <2>8. \A g \in Handles : Made(g)' <=> g <= h
      <3>1. \A g \in Handles : g \in Nat
        OBVIOUS
      <3> QED BY <1>4, <1>8, <2>6, <3>1
    <2>9. events.requests \in Nat
      BY DEF HostInv, HostTyped
    <2>10. h + Cardinality(Activating') <= events'.requests
      BY <1>5, <2>2, <2>4, <2>5, <2>6, <2>7, <2>9
    <2> QED BY <2>4, <2>6, <2>8, <2>10 DEF HandlesLeft
  <1> QED BY <1>8, <1>9 DEF HostInv

LEMMA RequestsKept ==
  ASSUME HostInv, NEW k \in Slots, NEW op \in Operations, LifecycleRequest(k, op)
  PROVE  HostInv'
  <1> USE Numbers
  <1> DEFINE t == Request(k)
  <1> DEFINE f == [Idle EXCEPT !.op = op, !.read = plugin, !.at = FirstStep(op)]
  <1>1. t \in Threads /\ thread[t] = Idle
    BY ThreadNames DEF LifecycleRequest
  <1>2. /\ FirstStep(op) \in {"activate", "write", "stop", "deactivate"}
        /\ FirstStep(op) \in {"activate", "write"} => op \in Activators
        /\ FirstStep(op) = "stop" => op = "restart"
    BY DEF FirstStep, Activators
  <1>3. f.at = FirstStep(op) /\ f.op = op
    BY DEF Idle
  <1>4. f \in ThreadRecords
    BY <1>2, IdleTyped DEF ThreadRecords, Places, HostInv, HostTyped
  <1>5. thread' = [thread EXCEPT ![t] = f]
    BY DEF LifecycleRequest
  <1>6. handle' = handle /\ proc' = proc /\ starting' = starting /\ worker' = worker /\ plugin' = plugin
    BY DEF LifecycleRequest
  <1>7. /\ events' \in [requests : 0..MaxRequests, exits : Nat, calls : Nat, overlapped : BOOLEAN]
        /\ events'.requests = events.requests + 1 /\ events.requests \in Nat
    <2>1. events \in [requests : 0..MaxRequests, exits : Nat, calls : Nat, overlapped : BOOLEAN]
          /\ events.requests < MaxRequests
      BY DEF LifecycleRequest, HostInv, HostTyped
    <2>2. PICK b \in BOOLEAN : b = (events.overlapped \/ \E j \in Slots : thread[Request(j)] # Idle)
      OBVIOUS
    <2>3. events' = [events EXCEPT !.requests = events.requests + 1, !.overlapped = b]
      BY <2>2 DEF LifecycleRequest
    <2>4. events.requests \in Nat /\ events.requests + 1 \in 0..MaxRequests
      BY <2>1
    <2>5. PICK n \in 0..MaxRequests : n = events.requests + 1
      BY <2>4
    <2>6. events' = [events EXCEPT !.requests = n, !.overlapped = b]
      BY <2>3, <2>5
    <2>7. events' \in [requests : 0..MaxRequests, exits : Nat, calls : Nat, overlapped : BOOLEAN]
          /\ events'.requests = n
      BY <2>1, <2>6
    <2> QED BY <2>4, <2>5, <2>7
  <1> HIDE DEF f
  <1>8. HostTyped'
    BY <1>4, <1>5, <1>6, <1>7 DEF HostInv, HostTyped
  <1>9. ASSUME NEW s \in Threads PROVE thread'[s] = thread[s] \/ ThreadOK(s)'
    <2>1. CASE s = t
      <3>1. thread'[s] = f
        BY <1>5, <2>1 DEF HostInv, HostTyped
      <3> QED BY <1>2, <1>3, <3>1 DEF ThreadOK, Holds, Asking, Waits, Calls
    <2>2. CASE s # t
      BY <1>5, <1>9, <2>2 DEF HostInv, HostTyped
    <2> QED BY <2>1, <2>2
  <1>10. /\ \A h \in Handles : handle'[h] = handle[h] /\ (Made(h)' <=> Made(h))
         /\ \A h \in Handles : Child(h)' = Child(h)
         /\ \A p \in Procs : proc'[p] = proc[p] /\ (p \in Up' <=> p \in Up)
    BY <1>6 DEF Made, Status, Child, Up
  <1>11. \A p \in Procs : p \in Up \/ ProcOK(p)'
    BY <1>10 DEF ProcOK
  <1>12. /\ \A h \in Handles : RowOK(h)'
         /\ \A s \in Threads : ThreadOK(s)'
         /\ \A p \in Procs : ProcOK(p)'
         /\ WorkerOK'
    BY <1>6, <1>8, <1>9, <1>10, <1>11, LinksKept
  <1>13. HandlesLeft'
    <2>1. Activating' \subseteq Activating \cup {k}
      <3> SUFFICES ASSUME NEW j \in Activating', j # k PROVE j \in Activating
        OBVIOUS
      <3>1. j \in Slots /\ Request(j) \in Threads /\ Request(j) # t
        BY ThreadNames DEF Activating
      <3> QED BY <1>5, <3>1 DEF Activating, HostInv, HostTyped
    <2>2. IsFiniteSet(Activating) /\ Cardinality(Activating) \in Nat
      BY FS_CardinalityType DEF HostInv, HandlesLeft
    <2>3. IsFiniteSet(Activating \cup {k}) /\ Cardinality(Activating \cup {k}) <= Cardinality(Activating) + 1
          /\ Cardinality(Activating \cup {k}) \in Nat
      <3>1. IsFiniteSet(Activating \cup {k})
            /\ (Cardinality(Activating \cup {k}) = Cardinality(Activating)
                \/ Cardinality(Activating \cup {k}) = Cardinality(Activating) + 1)
        BY <2>2, FS_AddElement
      <3> QED BY <2>2, <3>1
    <2>4. IsFiniteSet(Activating') /\ Cardinality(Activating') <= Cardinality(Activating) + 1
          /\ Cardinality(Activating') \in Nat
      BY <2>1, <2>2, <2>3, FS_Subset, FS_CardinalityType
    <2>5. PICK n \in Nat : /\ \A g \in Handles : Made(g) <=> g <= n
                           /\ n + Cardinality(Activating) <= events.requests
      BY DEF HostInv, HandlesLeft
    <2>6. \A g \in Handles : Made(g)' <=> g <= n
      BY <1>10, <2>5
    <2>7. n + Cardinality(Activating') <= events'.requests
      BY <1>7, <2>2, <2>4, <2>5
    <2> QED BY <2>4, <2>6, <2>7 DEF HandlesLeft
  <1>14. ProcsInOrder' /\ CrashesCounted'
    BY <1>6 DEF HostInv, ProcsInOrder, CrashesCounted, Gone
  <1> QED BY <1>8, <1>12, <1>13, <1>14 DEF HostInv

\* What the exit of process p does to its handle h, and to who waits.
LEMMA ExitIs ==
  ASSUME HostInv, NEW p \in Procs, p \in Up, NEW h, h = proc[p].of, NEW forget, ProcessExit(p, forget)
  PROVE  /\ h \in Handles /\ Made(h)
         /\ \A g \in Handles : g # h => handle'[g] = handle[g]
         /\ handle' \in [Handles -> HandleRecords]
         /\ handle'[h].child = None /\ handle'[h].reader = None
         /\ handle'[h].crashes <= Cardinality(Gone) + 1
         /\ handle'[h].intentional = handle[h].intentional
         /\ IF handle[h].intentional
            THEN handle'[h].status = "stopped" /\ handle'[h].timer = handle[h].timer
            ELSE \/ handle'[h].status = "backoff"
                 \/ handle'[h].status = "crashed" /\ ~handle'[h].timer
         /\ proc' \in [Procs -> ProcRecords]
         /\ \A q \in Procs : proc'[q].of = proc[q].of /\ (q # p => proc'[q].state = proc[q].state)
         /\ proc'[p].state = "gone"
         /\ p \notin Gone /\ Gone' = Gone \cup {p} /\ Cardinality(Gone) \in Nat
         /\ Cardinality(Gone') = Cardinality(Gone) + 1 /\ Cardinality(Gone') <= MaxProcs
         /\ plugin' = plugin /\ worker' = worker /\ starting' = starting
  <1> USE Numbers
  <1>1. h \in Handles /\ Made(h)
    BY DEF HostInv, ProcOK
  <1>2. handle[h] \in HandleRecords /\ RowOK(h) /\ handle[h].reader \in Procs \cup {None}
    BY <1>1 DEF HostInv, HostTyped, HandleRecords
  <1>3. plugin' = plugin /\ worker' = worker /\ starting' = starting
    BY DEF ProcessExit
  <1>4. /\ proc' \in [Procs -> ProcRecords]
        /\ \A q \in Procs : proc'[q].of = proc[q].of /\ (q # p => proc'[q].state = proc[q].state)
        /\ proc'[p].state = "gone"
    <2> DEFINE r == handle[h].reader
    <2> DEFINE dead == [proc EXCEPT ![p].state = "gone"]
    <2>1. proc' = IF r = None THEN dead ELSE [dead EXCEPT ![r].heard = FALSE]
      BY DEF ProcessExit, Unread
    <2>2. /\ dead \in [Procs -> ProcRecords]
          /\ \A q \in Procs : dead[q].of = proc[q].of /\ (q # p => dead[q].state = proc[q].state)
          /\ dead[p].state = "gone"
      BY DEF HostInv, HostTyped, ProcRecords
    <2>3. r \in Procs \cup {None}
      BY <1>2
    <2> HIDE DEF dead, r
    <2> QED BY <2>1, <2>2, <2>3 DEF ProcRecords
  <1>5. p \notin Gone /\ Gone' = Gone \cup {p}
    BY <1>4 DEF Gone, Up
  <1>6. IsFiniteSet(Procs) /\ Cardinality(Procs) = MaxProcs
    BY ProcsFinite
  <1>7. IsFiniteSet(Gone) /\ Cardinality(Gone) \in Nat
    BY GoneFinite
  <1>8. Cardinality(Gone') = Cardinality(Gone) + 1
    BY <1>5, <1>7, FS_AddElement
  <1>9. Cardinality(Gone') <= MaxProcs
    <2>1. Gone' \subseteq Procs
      BY <1>5 DEF Gone
    <2> QED BY <1>6, <2>1, FS_Subset
  <1>10. handle[h].crashes \in Nat /\ handle[h].crashes <= Cardinality(Gone)
    BY <1>1, <1>2 DEF HostInv, CrashesCounted, HandleRecords
  <1>11. PICK c \in 0..MaxProcs : /\ c = (IF forget THEN 1 ELSE handle[h].crashes + 1)
                                  /\ c <= Cardinality(Gone) + 1
    BY <1>7, <1>8, <1>9, <1>10
  <1>12. PICK again \in BOOLEAN : again = (c <= MaxCrashes)
    <2>1. (c <= MaxCrashes) = TRUE \/ (c <= MaxCrashes) = FALSE
      BY PluginConstants
    <2> QED BY <2>1
  <1> DEFINE down == [handle[h] EXCEPT !.child = None, !.reader = None]
  <1> DEFINE stopped == [down EXCEPT !.status = "stopped"]
  <1> DEFINE crashed == [down EXCEPT !.crashes = c, !.timer = again, !.status = IF again THEN "backoff" ELSE "crashed"]
  <1>13. handle' = [handle EXCEPT ![h] = IF handle[h].intentional THEN stopped ELSE crashed]
    BY <1>11, <1>12 DEF ProcessExit
  <1>14. stopped \in HandleRecords /\ stopped.child = None /\ stopped.reader = None /\ stopped.status = "stopped"
         /\ stopped.crashes = handle[h].crashes /\ stopped.timer = handle[h].timer
         /\ stopped.intentional = handle[h].intentional
    BY <1>2 DEF HandleRecords
  <1>15. crashed \in HandleRecords /\ crashed.child = None /\ crashed.reader = None
         /\ crashed.crashes = c /\ crashed.timer = again
         /\ crashed.status = (IF again THEN "backoff" ELSE "crashed")
         /\ crashed.intentional = handle[h].intentional
    BY <1>2 DEF HandleRecords
  <1> HIDE DEF stopped, crashed, down
  <1>16. handle \in [Handles -> HandleRecords] /\ handle[h].intentional \in BOOLEAN
    BY <1>1 DEF HostInv, HostTyped, HandleRecords
  <1>17. /\ \A g \in Handles : g # h => handle'[g] = handle[g]
         /\ handle' \in [Handles -> HandleRecords]
         /\ handle'[h] = IF handle[h].intentional THEN stopped ELSE crashed
    BY <1>1, <1>13, <1>14, <1>15, <1>16
  <1>18. /\ handle'[h].child = None /\ handle'[h].reader = None
         /\ handle'[h].intentional = handle[h].intentional
         /\ IF handle[h].intentional
            THEN handle'[h].status = "stopped" /\ handle'[h].timer = handle[h].timer
            ELSE \/ handle'[h].status = "backoff"
                 \/ handle'[h].status = "crashed" /\ ~handle'[h].timer
    BY <1>14, <1>15, <1>17
  <1>19. handle'[h].crashes <= Cardinality(Gone) + 1
    BY <1>7, <1>10, <1>11, <1>14, <1>15, <1>17
  <1> QED BY <1>1, <1>3, <1>4, <1>5, <1>7, <1>8, <1>9, <1>17, <1>18, <1>19

LEMMA ExitThreads ==
  ASSUME HostInv, NEW p \in Procs, NEW forget, ProcessExit(p, forget)
  PROVE  /\ thread' \in [Threads -> ThreadRecords]
         /\ \A t \in Threads :
              \/ thread'[t] = thread[t] /\ ~Rejected(t, p)
              \/ Rejected(t, p) /\ thread[t].at = "call" /\ thread'[t] = Idle
              \/ Rejected(t, p) /\ thread[t].at # "call" /\ thread'[t] = [thread[t] EXCEPT !.p = None]
  <1>1. thread' = [t \in Threads |->
             IF ~Rejected(t, p) THEN thread[t]
             ELSE IF At(t, "call") THEN Idle ELSE [thread[t] EXCEPT !.p = None]]
    BY DEF ProcessExit
  <1>2. ASSUME NEW t \in Threads
        PROVE  /\ thread'[t] \in ThreadRecords
               /\ \/ thread'[t] = thread[t] /\ ~Rejected(t, p)
                  \/ Rejected(t, p) /\ thread[t].at = "call" /\ thread'[t] = Idle
                  \/ Rejected(t, p) /\ thread[t].at # "call" /\ thread'[t] = [thread[t] EXCEPT !.p = None]
    <2>1. thread[t] \in ThreadRecords
      BY DEF HostInv, HostTyped
    <2>2. [thread[t] EXCEPT !.p = None] \in ThreadRecords
      BY <2>1 DEF ThreadRecords
    <2>3. \/ thread'[t] = thread[t] /\ ~Rejected(t, p)
          \/ Rejected(t, p) /\ thread[t].at = "call" /\ thread'[t] = Idle
          \/ Rejected(t, p) /\ thread[t].at # "call" /\ thread'[t] = [thread[t] EXCEPT !.p = None]
      BY <1>1, <1>2 DEF At
    <2> QED BY <2>1, <2>2, <2>3, IdleTyped
  <1>3. thread' = [t \in Threads |-> thread'[t]]
    BY <1>1
  <1> QED BY <1>2, <1>3

LEMMA ExitsKept ==
  ASSUME HostInv, NEW p \in Procs, p \in Up, NEW forget, ProcessExit(p, forget),
         events' \in [requests : 0..MaxRequests, exits : Nat, calls : Nat, overlapped : BOOLEAN],
         events'.requests = events.requests
  PROVE  HostInv'
  <1> USE Numbers
  <1>1. PICK h \in Handles : h = proc[p].of /\ Made(h)
    BY DEF HostInv, ProcOK
  <1>2. /\ \A g \in Handles : g # h => handle'[g] = handle[g]
        /\ handle' \in [Handles -> HandleRecords]
        /\ handle'[h].child = None /\ handle'[h].reader = None
        /\ handle'[h].crashes <= Cardinality(Gone) + 1
        /\ handle'[h].status \in {"stopped", "backoff", "crashed"}
        /\ proc' \in [Procs -> ProcRecords]
        /\ \A q \in Procs : proc'[q].of = proc[q].of /\ (q # p => proc'[q].state = proc[q].state)
        /\ proc'[p].state = "gone"
        /\ Cardinality(Gone) \in Nat /\ Cardinality(Gone') = Cardinality(Gone) + 1
        /\ plugin' = plugin /\ worker' = worker /\ starting' = starting
    BY <1>1, ExitIs
  <1>3. /\ thread' \in [Threads -> ThreadRecords]
        /\ \A t \in Threads :
             \/ thread'[t] = thread[t] /\ ~Rejected(t, p)
             \/ Rejected(t, p) /\ thread[t].at = "call" /\ thread'[t] = Idle
             \/ Rejected(t, p) /\ thread[t].at # "call" /\ thread'[t] = [thread[t] EXCEPT !.p = None]
    BY ExitThreads
  <1>4. HostTyped'
    BY <1>2, <1>3 DEF HostInv, HostTyped
  <1>5. \A g \in Handles : Made(g)' <=> Made(g)
    BY <1>1, <1>2 DEF Made, Status
  <1>6. \A q \in Procs : q \in Up' <=> q \in Up /\ q # p
    BY <1>2 DEF Up
  <1>7. ASSUME NEW g \in Handles PROVE RowOK(g)'
    <2>1. CASE g = h
      BY <1>2, <1>5, <2>1, <1>1 DEF RowOK, Child, Status, Made
    <2>2. CASE g # h
      <3>1. RowOK(g) /\ handle[g].child \in Procs \cup {None} /\ handle'[g] = handle[g]
        BY <1>2, <2>2 DEF HostInv, HostTyped, HandleRecords
      <3> DEFINE c == handle[g].child
      <3>2. c # None => c \in Procs /\ c \in Up /\ proc[c].of = g /\ c # p
        BY <1>1, <2>2, <3>1 DEF RowOK, Child
      <3>3. c # None => c \in Up' /\ proc'[c].of = g
        BY <1>2, <1>6, <3>2
      <3>4. handle'[g].reader = c /\ (Status(g) = "running" => c # None) /\ (handle[g].timer => Made(g))
        BY <3>1 DEF RowOK, Child
      <3> QED BY <1>5, <3>1, <3>3, <3>4 DEF RowOK, Child, Status
    <2> QED BY <2>1, <2>2
  <1>8. ASSUME NEW t \in Threads PROVE ThreadOK(t)'
    <2>1. thread[t] \in ThreadRecords /\ ThreadOK(t)
      BY <1>8 DEF HostInv, HostTyped
    <2>2. CASE thread'[t] = Idle
      BY <2>2, IdleTyped DEF ThreadOK, Holds, Asking, Waits, Calls
    <2>3. CASE thread'[t] = [thread[t] EXCEPT !.p = None]
      <3>1. thread'[t].at = thread[t].at /\ thread'[t].op = thread[t].op /\ thread'[t].h = thread[t].h /\ thread'[t].p = None
        BY <2>1, <2>3 DEF ThreadRecords
      <3> QED BY <1>5, <2>1, <3>1 DEF ThreadOK, Made
    <2>4. CASE thread'[t] = thread[t] /\ ~Rejected(t, p)
      <3>1. thread[t].at \in Waits \cup Calls /\ thread[t].p # None =>
              thread[t].p \in Procs /\ thread[t].p \in Up /\ proc[thread[t].p].of = thread[t].h /\ thread[t].p # p
        BY <1>1, <2>1, <2>4 DEF ThreadOK, ThreadRecords, Rejected
      <3>2. thread[t].at = "initialize" => thread[t].h \in Handles /\ thread[t].h # h
        BY <1>1, <2>1, <2>4 DEF ThreadOK, Holds, Rejected, Calls
      <3>3. thread[t].at = "initialize" /\ thread[t].p # None => Child(thread[t].h)' # None
        BY <1>2, <2>1, <3>2, <2>4 DEF ThreadOK, Child
      <3>4. thread[t].at \in Holds => thread[t].h \in Handles /\ Made(thread[t].h)'
        BY <1>5, <2>1, <2>4 DEF ThreadOK, Made
      <3>5. thread[t].at \in Waits \cup Calls /\ thread[t].p # None =>
              thread[t].p \in Up' /\ proc'[thread[t].p].of = thread[t].h
        BY <1>2, <1>6, <3>1
      <3> QED BY <2>1, <2>4, <3>3, <3>4, <3>5 DEF ThreadOK, Made, Status, Child
    <2> QED BY <1>3, <2>2, <2>3, <2>4
  <1>9. \A q \in Procs : ProcOK(q)'
    BY <1>2, <1>5, <1>6 DEF HostInv, ProcOK, Made
  <1>10. WorkerOK'
    BY <1>2, <1>5 DEF HostInv, HostTyped, WorkerOK, Made
  <1>11. HandlesLeft'
    <2>1. ASSUME NEW k \in Slots, k \in Activating' PROVE k \in Activating
      <3>1. Request(k) \in Threads /\ thread'[Request(k)].at \in Before /\ thread'[Request(k)].op \in Activators
        BY <2>1, ThreadNames DEF Activating
      <3>2. thread'[Request(k)] # Idle
        BY <3>1, IdleTyped DEF Activators
      <3>3. thread'[Request(k)].at = thread[Request(k)].at /\ thread'[Request(k)].op = thread[Request(k)].op
        BY <1>3, <3>1, <3>2 DEF ThreadRecords, HostInv, HostTyped
      <3> QED BY <3>1, <3>3 DEF Activating
    <2>2. Activating' \subseteq Activating
      BY <2>1 DEF Activating
    <2>3. IsFiniteSet(Activating') /\ Cardinality(Activating') <= Cardinality(Activating)
          /\ Cardinality(Activating) \in Nat /\ Cardinality(Activating') \in Nat
      BY <2>2, FS_Subset, FS_CardinalityType DEF HostInv, HandlesLeft
    <2>4. PICK n \in Nat : /\ \A g \in Handles : Made(g) <=> g <= n
                           /\ n + Cardinality(Activating) <= events.requests
      BY DEF HostInv, HandlesLeft
    <2>5. \A g \in Handles : Made(g)' <=> g <= n
      BY <1>5, <2>4
    <2>6. events.requests \in Nat
      BY DEF HostInv, HostTyped
    <2>7. n + Cardinality(Activating') <= events'.requests
      BY <2>3, <2>4, <2>6
    <2> QED BY <2>3, <2>5, <2>7 DEF HandlesLeft
  <1>12. ProcsInOrder'
    <2>1. PICK m \in Nat : \A q \in Procs : proc[q].state # "none" <=> q <= m
      BY DEF HostInv, ProcsInOrder
    <2>2. \A q \in Procs : proc'[q].state # "none" <=> proc[q].state # "none"
      BY <1>2 DEF Up
    <2> QED BY <2>1, <2>2 DEF ProcsInOrder
  <1>13. CrashesCounted'
    <2>1. ASSUME NEW g \in Handles PROVE handle'[g].crashes <= Cardinality(Gone')
      <3>1. handle[g].crashes <= Cardinality(Gone) /\ handle[g].crashes \in Nat
        BY DEF HostInv, HostTyped, HandleRecords, CrashesCounted
      <3> QED BY <1>2, <3>1
    <2> QED BY <2>1 DEF CrashesCounted
  <1> QED BY <1>4, <1>7, <1>8, <1>9, <1>10, <1>11, <1>12, <1>13 DEF HostInv

LEMMA HostNext ==
  ASSUME HostInv, [Next]_vars
  PROVE  HostInv'
  <1> USE ThreadNames
  <1>1. CASE UNCHANGED vars
    <2>1. HostTyped'
      BY <1>1 DEF vars, HostInv, HostTyped
    <2>2. (\A h \in Handles : RowOK(h)') /\ (\A t \in Threads : ThreadOK(t)') /\ (\A p \in Procs : ProcOK(p)') /\ WorkerOK'
      BY <1>1 DEF vars, HostInv, RowOK, ThreadOK, ProcOK, WorkerOK, Made, Status, Child, Up
    <2>3. HandlesLeft'
      BY <1>1 DEF vars, HostInv, HandlesLeft, Activating, Made, Status
    <2>4. ProcsInOrder' /\ CrashesCounted'
      BY <1>1 DEF vars, HostInv, ProcsInOrder, CrashesCounted, Gone
    <2> QED BY <2>1, <2>2, <2>3, <2>4 DEF HostInv
  <1>2. ASSUME NEW k \in Slots, NEW op \in Operations, LifecycleRequest(k, op) PROVE HostInv'
    BY <1>2, RequestsKept
  <1>3. ASSUME NEW k \in Slots, RequestStep(Request(k)) PROVE HostInv'
    BY <1>3, StartsKept, StopsKept, StopReturnsKept, StopsStartKept, PlainKept, ActivationKept DEF RequestStep, StopStep
  <1>4. ASSUME NEW h \in Handles, BackoffOver(h) \/ StartStep(Restart(h)) PROVE HostInv'
    BY <1>4, BackoffKept, StartsKept
  <1>5. ASSUME NEW p \in Procs, (\E forget \in BOOLEAN : Exit(p, forget)) \/ Dies(p) PROVE HostInv'
    <2>1. PICK forget \in BOOLEAN : ProcessExit(p, forget)
      BY <1>5 DEF Exit, Dies
    <2>2. p \in Up
      BY <1>5 DEF Exit, Dies, Up
    <2>3. events' = events \/ events' = [events EXCEPT !.exits = @ + 1]
      BY <1>5 DEF Exit, Dies
    <2>4. /\ events' \in [requests : 0..MaxRequests, exits : Nat, calls : Nat, overlapped : BOOLEAN]
          /\ events'.requests = events.requests
      BY <2>3 DEF HostInv, HostTyped
    <2> QED BY <2>1, <2>2, <2>4, ExitsKept
  <1>6. ASSUME NEW c \in Callers, Call(c) \/ CallEnds(c) PROVE HostInv'
    BY <1>6, CallsKept
  <1> QED BY <1>1, <1>2, <1>3, <1>4, <1>5, <1>6 DEF Next

LEMMA HostAlways == Spec => []HostInv
  BY HostInit, HostNext, PTL DEF Spec

\* The tables of the plugin host keep their types: no handle, process or thread
\* is written outside them, and the handles never run out for the activations
\* there are (startWorker, plugin-worker-manager.ts:1227).
THEOREM HostWellTyped == Spec => []TypeOK
  <1>1. HostInv => TypeOK
    BY DEF HostInv, HostTyped, TypeOK, HandleRecords, ProcRecords, ThreadRecords
  <1> QED BY <1>1, HostAlways, PTL

\* The exit of a process leaves none of the calls it was sent behind
\* (rejectAllPending, plugin-worker-manager.ts:747): whichever requests overlap, a
\* call that waits has a process that lives.
THEOREM PendingCallsHaveProcess == Spec => []PendingHasProcess
  <1>1. HostInv => PendingHasProcess
    BY DEF HostInv, ThreadOK, PendingHasProcess
  <1> QED BY <1>1, HostAlways, PTL

\* A handle whose status is "running" has a live process, and reads it, also
\* when a start succeeds in the middle of a stop (plugin-worker-manager.ts:854).
THEOREM RunningHandlesHaveProcess == Spec => []RunningHasProcess
  <1>1. HostInv => RunningHasProcess
    BY DEF HostInv, RowOK, RunningHasProcess
  <1> QED BY <1>1, HostAlways, PTL

-----------------------------------------------------------------------------
\* As long as no two requests have overlapped.

OneRequest == \A j, k \in Slots : thread[Request(j)] # Idle /\ thread[Request(k)] # Idle => j = k

OneProcess == \A p \in Up : worker # None /\ Child(worker) = p

\* A stop is that of the registered handle: its restart is cancelled, its
\* process is asked to end, and has when the stop is told so.
StopOK(k) ==
    LET f == thread[Request(k)] IN
    f.at \in Asking \cup {"stopped"} =>
        /\ f.h = worker /\ ~handle[f.h].timer
        /\ f.at \in Asking => handle[f.h].intentional
        /\ f.at = "stopped" \/ f.p = None => Child(f.h) = None

\* A handle that is being stopped has a request that stops it and will be told.
Stopper(h) == \E k \in Slots : /\ thread[Request(k)].at \in Asking
                               /\ thread[Request(k)].h = h /\ thread[Request(k)].p # None

HandleOK(h) ==
    /\ Status(h) = "stopped" => Child(h) = None /\ ~handle[h].timer
    /\ Status(h) = "stopping" => Stopper(h)
    /\ handle[h].timer => CanStart(h) /\ Child(h) = None /\ worker = h

Alone ==
    /\ OneRequest
    /\ OneProcess
    /\ \A k \in Slots : StopOK(k)
    /\ \A h \in Handles : HandleOK(h)

AloneInv == ~events.overlapped => Alone

LEMMA IdleIs == Idle.at = "idle" /\ "idle" \notin Asking \cup {"stopped"}
  BY DEF Idle, Asking

\* A step that neither begins, continues nor ends the stop of a process, and
\* spawns and ends none.
LEMMA AloneQuiet ==
  ASSUME HostInv, Alone,
         \A h \in Handles :
            /\ handle'[h].child = handle[h].child /\ handle'[h].timer = handle[h].timer
            /\ handle[h].intentional => handle'[h].intentional
            /\ \/ handle'[h].status = handle[h].status
               \/ handle'[h].status = "running" /\ ~handle[h].timer
               \/ handle'[h].status = "crashed",
         \A k \in Slots :
            \/ thread'[Request(k)] = thread[Request(k)]
            \/ /\ thread[Request(k)] # Idle
               /\ thread[Request(k)].at \notin Asking
               /\ thread'[Request(k)].at \notin Asking \cup {"stopped"},
         \A p \in Procs : p \in Up' => p \in Up,
         worker' = worker
  PROVE  Alone'
  <1> USE Numbers, IdleIs
  <1>1. worker \in Handles \cup {None} /\ \A k \in Slots : Request(k) \in Threads
    BY ThreadNames DEF HostInv, HostTyped
  <1>2. OneRequest'
    BY DEF Alone, OneRequest
  <1>3. OneProcess'
    BY <1>1 DEF Alone, OneProcess, Child, Up
  <1>4. ASSUME NEW k \in Slots PROVE StopOK(k)'
    <2> SUFFICES ASSUME thread'[Request(k)] = thread[Request(k)], thread[Request(k)].at \in Asking \cup {"stopped"}
                 PROVE  StopOK(k)'
      BY <1>4 DEF StopOK
    <2>1. PICK h \in Handles : h = thread[Request(k)].h
      BY <1>1 DEF HostInv, ThreadOK, Holds
    <2>2. StopOK(k)
      BY DEF Alone
    <2> QED BY <2>1, <2>2 DEF StopOK, Child
  <1>5. ASSUME NEW h \in Handles PROVE HandleOK(h)'
    <2>1. HandleOK(h)
      BY DEF Alone
    <2>2. Stopper(h) => Stopper(h)'
      BY DEF Stopper
    <2> QED BY <2>1, <2>2 DEF HandleOK, CanStart, Status, Child
  <1> QED BY <1>2, <1>3, <1>4, <1>5 DEF Alone

\* A spawn when there is no process: it is the one of the registered handle.
LEMMA AloneSpawns ==
  ASSUME HostInv, Alone, NEW t \in Threads, NEW h \in Handles, NEW row \in HandleRecords, NEW op,
         StartInternal(t, h, row, op), Up = {}, ~row.timer, worker' = h,
         \A k \in Slots : t = Request(k) => thread[t] # Idle,
         \A k \in Slots : thread[Request(k)].at \notin Asking /\ (t # Request(k) => thread[Request(k)].at # "stopped"),
         \A g \in Handles : g # h => ~handle[g].timer
  PROVE  Alone'
  <1> USE Numbers, IdleIs
  <1>1. PICK q \in Procs : q = NextProc /\ proc[q].state = "none"
    BY NextProcIs DEF StartInternal
  <1>2. \A k \in Slots : Request(k) \in Threads
    BY ThreadNames
  <1>3. /\ \A g \in Handles : g # h => handle'[g] = handle[g]
        /\ handle'[h].status = "starting" /\ handle'[h].child = q /\ ~handle'[h].timer
    BY <1>1 DEF StartInternal, HostInv, HostTyped, HandleRecords
  <1>4. \A p \in Procs : p \in Up' => p = q
    BY <1>1 DEF StartInternal, HostInv, HostTyped, Up
  <1>5. /\ \A s \in Threads : s # t => thread'[s] = thread[s]
        /\ thread'[t].at = "initialize"
    BY <1>1 DEF StartInternal, HostInv, HostTyped, ThreadRecords
  <1>6. OneRequest'
    BY <1>2, <1>5 DEF Alone, OneRequest
  <1>7. OneProcess'
    <2>1. Up' \subseteq Procs
      BY DEF Up
    <2> QED BY <1>3, <1>4, <2>1 DEF OneProcess, Child
  <1>8. \A k \in Slots : thread'[Request(k)].at \notin Asking \cup {"stopped"}
    BY <1>2, <1>5 DEF Asking
  <1>9. \A k \in Slots : StopOK(k)'
    BY <1>8 DEF StopOK
  <1>10. ASSUME NEW g \in Handles PROVE HandleOK(g)'
    <2>1. CASE g = h
      BY <1>3, <2>1 DEF HandleOK, Status
    <2>2. CASE g # h
      <3>1. HandleOK(g) /\ handle'[g] = handle[g] /\ ~handle[g].timer
        BY <1>3, <2>2 DEF Alone
      <3>2. ~Stopper(g)
        BY DEF Stopper
      <3> QED BY <3>1, <3>2 DEF HandleOK, Status, Child
    <2> QED BY <2>1, <2>2
  <1> QED BY <1>6, <1>7, <1>9, <1>10 DEF Alone

\* A step of one request that is not stopping anything, and of nothing else.
LEMMA AlonePlain ==
  ASSUME HostInv, Alone, NEW k \in Slots, NEW t, t = Request(k), handle' = handle, proc' = proc, worker' = worker,
         NEW f, thread' = [thread EXCEPT ![t] = f], f.at \notin Asking \cup {"stopped"},
         thread[t] # Idle, thread[t].at \notin Asking
  PROVE  Alone'
  <1>1. \A j \in Slots : Request(j) \in Threads
    BY ThreadNames
  <1>2. ASSUME NEW j \in Slots
        PROVE  \/ thread'[Request(j)] = thread[Request(j)]
               \/ /\ thread[Request(j)] # Idle
                  /\ thread[Request(j)].at \notin Asking
                  /\ thread'[Request(j)].at \notin Asking \cup {"stopped"}
    BY <1>1, <1>2 DEF HostInv, HostTyped
  <1>3. \A h \in Handles : handle'[h] = handle[h]
    OBVIOUS
  <1>4. \A p \in Procs : p \in Up' => p \in Up
    BY DEF Up
  <1> QED BY <1>2, <1>3, <1>4, AloneQuiet

LEMMA AloneGoto ==
  ASSUME HostInv, Alone, NEW k \in Slots, NEW t, t = Request(k), handle' = handle, proc' = proc, worker' = worker,
         NEW at, thread' = [thread EXCEPT ![t].at = at], at \notin Asking \cup {"stopped"},
         thread[t] # Idle, thread[t].at \notin Asking
  PROVE  Alone'
  <1> DEFINE f == [thread[t] EXCEPT !.at = at]
  <1>1. t \in Threads /\ thread[t] \in ThreadRecords
    BY ThreadNames DEF HostInv, HostTyped
  <1>2. thread' = [thread EXCEPT ![t] = f] /\ f.at = at
    BY <1>1 DEF ThreadRecords
  <1> HIDE DEF f
  <1> QED BY <1>2, AlonePlain

LEMMA AloneEnd ==
  ASSUME HostInv, Alone, NEW k \in Slots, NEW t, t = Request(k), handle' = handle, proc' = proc, worker' = worker,
         thread' = End(t), thread[t] # Idle, thread[t].at \notin Asking
  PROVE  Alone'
  <1>1. thread' = [thread EXCEPT ![t] = Idle]
    BY DEF End
  <1> QED BY <1>1, IdleIs, AlonePlain

LEMMA PlainAlone ==
  ASSUME HostInv, Alone, NEW k \in Slots, NEW t, t = Request(k),
         \/ BecomesReady(t) \/ ActivateWaits(t) \/ ActivateFails(t) \/ MarkError(t) \/ Deactivated(t)
         \/ \E ok \in BOOLEAN : JobsSynced(t, ok)
  PROVE  Alone'
  <1>1. /\ handle' = handle /\ proc' = proc /\ worker' = worker
        /\ thread[t].at \in {"write", "activate", "sync", "markError", "deactivated"}
    BY DEF BecomesReady, ActivateWaits, ActivateFails, MarkError, Deactivated, JobsSynced, At
  <1>2. thread[t] # Idle /\ thread[t].at \notin Asking
    BY <1>1, IdleIs DEF Asking
  <1>3. CASE thread' = End(t)
    BY <1>1, <1>2, <1>3, AloneEnd
  <1>4. ASSUME NEW at \in {"activate", "await", "markError"}, thread' = Goto(t, at) PROVE Alone'
    BY <1>1, <1>2, <1>4, AloneGoto DEF Goto, Asking
  <1>5. CASE MarkError(t)
    <2> DEFINE f == [Idle EXCEPT !.op = "error", !.read = plugin, !.at = "deactivate"]
    <2>1. f.at = "deactivate" /\ thread' = [thread EXCEPT ![t] = f]
      BY <1>5 DEF MarkError, Idle
    <2> HIDE DEF f
    <2> QED BY <1>1, <1>2, <2>1, AlonePlain DEF Asking
  <1> QED BY <1>3, <1>4, <1>5 DEF BecomesReady, ActivateWaits, ActivateFails, Deactivated, JobsSynced

\* A request that begins is the only one, or it overlaps another.
LEMMA RequestsAlone ==
  ASSUME HostInv, Alone, NEW k \in Slots, NEW op \in Operations, LifecycleRequest(k, op), ~events'.overlapped
  PROVE  Alone'
  <1> USE IdleIs
  <1>1. \A j \in Slots : thread[Request(j)] = Idle
    <2>1. events'.overlapped = (events.overlapped \/ \E j \in Slots : thread[Request(j)] # Idle)
      BY DEF LifecycleRequest, HostInv, HostTyped
    <2> QED BY <2>1
  <1>2. /\ handle' = handle /\ proc' = proc /\ worker' = worker
        /\ \A j \in Slots : j # k => thread'[Request(j)] = Idle
        /\ thread'[Request(k)].at \in {"activate", "write", "stop", "deactivate"}
    <2>1. \A j \in Slots : Request(j) \in Threads /\ (j # k => Request(j) # Request(k))
      BY ThreadNames
    <2>2. FirstStep(op) \in {"activate", "write", "stop", "deactivate"}
      BY DEF FirstStep
    <2> DEFINE f == [Idle EXCEPT !.op = op, !.read = plugin, !.at = FirstStep(op)]
    <2>3. f.at = FirstStep(op) /\ thread' = [thread EXCEPT ![Request(k)] = f]
      BY DEF LifecycleRequest, Idle
    <2> HIDE DEF f
    <2> QED BY <1>1, <2>1, <2>2, <2>3 DEF LifecycleRequest, HostInv, HostTyped
  <1>3. OneRequest'
    BY <1>2 DEF OneRequest
  <1>4. OneProcess'
    BY <1>2 DEF Alone, OneProcess, Child, Up
  <1>5. \A j \in Slots : thread'[Request(j)].at \notin Asking \cup {"stopped"}
    BY <1>2 DEF Asking
  <1>6. \A j \in Slots : StopOK(j)'
    BY <1>5 DEF StopOK
  <1>7. ASSUME NEW h \in Handles PROVE HandleOK(h)'
    <2>1. HandleOK(h) /\ ~Stopper(h)
      BY <1>1 DEF Alone, Stopper
    <2> QED BY <1>2, <2>1 DEF HandleOK, Status, Child, CanStart
  <1> QED BY <1>3, <1>4, <1>6, <1>7 DEF Alone

LEMMA CallsAlone ==
  ASSUME HostInv, Alone, NEW c \in Callers, Call(c) \/ CallEnds(c)
  PROVE  Alone'
  <1>1. handle' = handle /\ proc' = proc /\ worker' = worker
    BY DEF Call, CallEnds
  <1>2. \A k \in Slots : thread'[Request(k)] = thread[Request(k)]
    BY ThreadNames DEF Call, CallEnds, End, HostInv, HostTyped
  <1>3. \A h \in Handles : handle'[h] = handle[h]
    BY <1>1
  <1>4. \A p \in Procs : p \in Up' => p \in Up
    BY <1>1 DEF Up
  <1> QED BY <1>1, <1>2, <1>3, <1>4, AloneQuiet

LEMMA StartsAlone ==
  ASSUME HostInv, Alone, NEW t \in Threads, StartStep(t)
  PROVE  Alone'
  <1> USE Numbers, IdleIs
  <1>1. thread[t] \in ThreadRecords /\ ThreadOK(t) /\ thread[t].at \in {"initialize", "killing"} /\ worker' = worker
    BY DEF HostInv, HostTyped, StartStep, Initialized, InitializeFails, StartKilled, At
  <1>2. PICK h \in Handles : h = thread[t].h
    BY <1>1 DEF ThreadOK, Holds
  <1>3. handle[h] \in HandleRecords /\ RowOK(h) /\ HandleOK(h) /\ handle \in [Handles -> HandleRecords]
    BY DEF HostInv, HostTyped, Alone
  <1>4. \A k \in Slots : Request(k) \in Threads
    BY ThreadNames
  <1>5. ASSUME NEW ok, StartEnds(t, ok), proc' = proc,
               \A g \in Handles :
                  /\ handle'[g].child = handle[g].child /\ handle'[g].timer = handle[g].timer
                  /\ handle[g].intentional => handle'[g].intentional
                  /\ \/ handle'[g].status = handle[g].status
                     \/ handle'[g].status = "running" /\ ~handle[g].timer
                     \/ handle'[g].status = "crashed"
        PROVE  Alone'
    <2>1. ASSUME NEW k \in Slots
          PROVE  \/ thread'[Request(k)] = thread[Request(k)]
                 \/ /\ thread[Request(k)] # Idle
                    /\ thread[Request(k)].at \notin Asking
                    /\ thread'[Request(k)].at \notin Asking \cup {"stopped"}
      <3> DEFINE s == Request(k)
      <3>1. s \in Threads
        BY <1>4
      <3>2. thread'[s] = thread[s] \/ thread'[s].at \in {"idle", "sync", "markError"}
        BY <1>5, <3>1, StartEndsThreads
      <3>3. thread'[s] = thread[s] \/ s = t \/ thread[s].at = "await"
        BY <1>5, <3>1 DEF StartEnds, Follows, At
      <3>4. thread'[s] = thread[s] \/ thread[s].at \in {"initialize", "killing", "await"}
        BY <1>1, <3>3
      <3> HIDE DEF s
      <3>5. thread'[s] = thread[s] \/ (thread[s] # Idle /\ thread[s].at \notin Asking
                                       /\ thread'[s].at \notin Asking \cup {"stopped"})
        BY <3>2, <3>4 DEF Asking
      <3> QED BY <3>5 DEF s
    <2>2. \A p \in Procs : p \in Up' => p \in Up
      BY <1>5 DEF Up
    <2> QED BY <1>1, <1>5, <2>1, <2>2, AloneQuiet
  <1>6. CASE Initialized(t)
    <2>1. thread[t].p # None /\ At(t, "initialize")
      BY <1>6 DEF Initialized, Settled, Goes, Waits, At
    <2>2. ~handle[h].timer
      BY <1>1, <1>2, <1>3, <2>1 DEF ThreadOK, HandleOK, At
    <2>3. handle' = [handle EXCEPT ![h].status = "running", ![h].crashes = 0] /\ StartEnds(t, TRUE) /\ proc' = proc
      BY <1>2, <1>6 DEF Initialized
    <2>4. ASSUME NEW g \in Handles
          PROVE  /\ handle'[g].child = handle[g].child /\ handle'[g].timer = handle[g].timer
                 /\ handle[g].intentional => handle'[g].intentional
                 /\ \/ handle'[g].status = handle[g].status
                    \/ handle'[g].status = "running" /\ ~handle[g].timer
                    \/ handle'[g].status = "crashed"
      <3>1. g = h \/ handle'[g] = handle[g]
        BY <1>3, <2>3
      <3>2. handle'[h].child = handle[h].child /\ handle'[h].timer = handle[h].timer
            /\ handle'[h].intentional = handle[h].intentional /\ handle'[h].status = "running"
        BY <1>3, <2>3 DEF HandleRecords
      <3> QED BY <2>2, <3>1, <3>2
    <2> QED BY <1>5, <2>3, <2>4
  <1>7. ASSUME Crashed(t, h) PROVE Alone'
    <2>1. handle' = [handle EXCEPT ![h].status = "crashed"] /\ StartEnds(t, FALSE) /\ proc' = proc
      BY <1>7 DEF Crashed
    <2>2. ASSUME NEW g \in Handles
          PROVE  /\ handle'[g].child = handle[g].child /\ handle'[g].timer = handle[g].timer
                 /\ handle[g].intentional => handle'[g].intentional
                 /\ \/ handle'[g].status = handle[g].status
                    \/ handle'[g].status = "running" /\ ~handle[g].timer
                    \/ handle'[g].status = "crashed"
      BY <1>3, <2>1 DEF HandleRecords
    <2> QED BY <1>5, <2>1, <2>2
  <1>8. CASE StartKilled(t)
    BY <1>2, <1>7, <1>8 DEF StartKilled
  <1>9. CASE InitializeFails(t)
    <2>1. CASE Child(h) = None
      BY <1>2, <1>7, <1>9, <2>1 DEF InitializeFails
    <2>2. CASE Child(h) # None
      <3>1. KillProcess(t, h) /\ At(t, "initialize")
        BY <1>2, <1>9, <2>2 DEF InitializeFails
      <3>2. PICK q \in Procs : q = Child(h) /\ q \in Up
        BY <1>3, <2>2 DEF RowOK, HandleRecords, Child
      <3>3. handle' = [handle EXCEPT ![h].intentional = TRUE]
        BY <3>1 DEF KillProcess
      <3>4. ASSUME NEW g \in Handles
            PROVE  /\ handle'[g].child = handle[g].child /\ handle'[g].timer = handle[g].timer
                   /\ handle[g].intentional => handle'[g].intentional
                   /\ handle'[g].status = handle[g].status
        BY <1>3, <3>3 DEF HandleRecords
      <3>5. \A p \in Procs : p \in Up' => p \in Up
        BY <3>1, <3>2 DEF KillProcess, HostInv, HostTyped, ProcRecords, Up
      <3>6. ASSUME NEW k \in Slots
            PROVE  \/ thread'[Request(k)] = thread[Request(k)]
                   \/ /\ thread[Request(k)] # Idle
                      /\ thread[Request(k)].at \notin Asking
                      /\ thread'[Request(k)].at \notin Asking \cup {"stopped"}
        <4>1. Request(k) # t => thread'[Request(k)] = thread[Request(k)]
          BY <1>4, <3>1 DEF KillProcess, Await, HostInv, HostTyped
        <4>2. thread'[t].at = "killing"
          BY <1>1, <3>1 DEF KillProcess, Await, HostInv, HostTyped, ThreadRecords
        <4>3. thread[t] # Idle /\ thread[t].at \notin Asking
          BY <3>1 DEF At, Asking
        <4> QED BY <4>1, <4>2, <4>3 DEF Asking
      <3> QED BY <1>1, <3>4, <3>5, <3>6, AloneQuiet
    <2> QED BY <2>1, <2>2
  <1> QED BY <1>6, <1>8, <1>9 DEF StartStep

\* While a request goes on alone, no other handle is being stopped.
LEMMA AloneRequest ==
  ASSUME HostInv, Alone, NEW k \in Slots, thread[Request(k)] # Idle
  PROVE  /\ \A j \in Slots : j # k => thread[Request(j)] = Idle
         /\ thread[Request(k)].at \notin Asking => \A h \in Handles : Status(h) # "stopping"
         /\ \A h \in Handles : Status(h) = "stopping" => h = thread[Request(k)].h
  BY IdleIs DEF Alone, OneRequest, HandleOK, Stopper

LEMMA StopsBeginAlone ==
  ASSUME HostInv, Alone, NEW k \in Slots, NEW t, t = Request(k), NEW h \in Handles, h = worker,
         StopInternal(t, h), proc' = proc, worker' = worker, thread[t] # Idle, thread[t].at \notin Asking
  PROVE  Alone'
  <1> USE Numbers, IdleIs
  <1>1. t \in Threads /\ thread[t] \in ThreadRecords /\ \A j \in Slots : Request(j) \in Threads
    BY ThreadNames DEF HostInv, HostTyped
  <1>2. handle[h] \in HandleRecords /\ HandleOK(h) /\ handle \in [Handles -> HandleRecords]
    BY DEF HostInv, HostTyped, Alone
  <1>3. /\ \A j \in Slots : j # k => thread[Request(j)] = Idle
        /\ \A g \in Handles : Status(g) # "stopping"
    BY AloneRequest
  <1>4. /\ \A g \in Handles : g # h => handle'[g] = handle[g]
        /\ handle'[h].child = handle[h].child /\ ~handle'[h].timer
        /\ \A s \in Threads : s # t => thread'[s] = thread[s]
        /\ thread'[t].h = h
        /\ \/ thread'[t].at = "stopped" /\ Child(h) = None /\ handle'[h].status = "stopped"
           \/ /\ thread'[t].at = "shutdown" /\ thread'[t].p # None
              /\ handle'[h].intentional /\ handle'[h].status = "stopping"
    <2> DEFINE off == [handle[h] EXCEPT !.timer = FALSE]
    <2>1. CASE Status(h) = "stopped"
      <3>1. handle' = [handle EXCEPT ![h] = off] /\ thread' = [thread EXCEPT ![t].at = "stopped", ![t].h = h]
        BY <2>1 DEF StopInternal
      <3>2. off.status = "stopped" /\ off.child = handle[h].child /\ ~off.timer
        BY <1>2, <2>1 DEF HandleRecords, Status
      <3> HIDE DEF off
      <3>3. handle'[h] = off /\ \A g \in Handles : g # h => handle'[g] = handle[g]
        BY <1>2, <3>1
      <3>4. /\ \A s \in Threads : s # t => thread'[s] = thread[s]
            /\ thread'[t].h = h /\ thread'[t].at = "stopped"
        BY <1>1, <3>1 DEF HostInv, HostTyped, ThreadRecords
      <3> QED BY <1>2, <2>1, <3>2, <3>3, <3>4 DEF HandleOK
    <2>2. CASE Status(h) # "stopped" /\ Child(h) = None
      <3> DEFINE r == [off EXCEPT !.intentional = TRUE, !.status = "stopped"]
      <3>1. handle' = [handle EXCEPT ![h] = r] /\ thread' = [thread EXCEPT ![t].at = "stopped", ![t].h = h]
        BY <1>3, <2>2 DEF StopInternal
      <3>2. r.status = "stopped" /\ r.child = handle[h].child /\ ~r.timer
        BY <1>2 DEF HandleRecords
      <3> HIDE DEF r
      <3>3. handle'[h] = r /\ \A g \in Handles : g # h => handle'[g] = handle[g]
        BY <1>2, <3>1
      <3>4. /\ \A s \in Threads : s # t => thread'[s] = thread[s]
            /\ thread'[t].h = h /\ thread'[t].at = "stopped"
        BY <1>1, <3>1 DEF HostInv, HostTyped, ThreadRecords
      <3> QED BY <2>2, <3>2, <3>3, <3>4
    <2>3. CASE Status(h) # "stopped" /\ Child(h) # None
      <3> DEFINE r == [off EXCEPT !.intentional = TRUE, !.status = "stopping"]
      <3>1. handle' = [handle EXCEPT ![h] = r]
            /\ thread' = [thread EXCEPT ![t].at = "shutdown", ![t].h = h, ![t].p = Child(h)]
        BY <1>3, <2>3 DEF StopInternal
      <3>2. r.status = "stopping" /\ r.child = handle[h].child /\ ~r.timer /\ r.intentional
        BY <1>2 DEF HandleRecords
      <3> HIDE DEF r
      <3>3. handle'[h] = r /\ \A g \in Handles : g # h => handle'[g] = handle[g]
        BY <1>2, <3>1
      <3>4. /\ \A s \in Threads : s # t => thread'[s] = thread[s]
            /\ thread'[t].h = h /\ thread'[t].at = "shutdown" /\ thread'[t].p = Child(h)
        BY <1>1, <3>1 DEF HostInv, HostTyped, ThreadRecords
      <3> QED BY <2>3, <3>2, <3>3, <3>4
    <2> QED BY <2>1, <2>2, <2>3
  <1>5. OneRequest'
    BY <1>1, <1>3, <1>4 DEF Alone, OneRequest
  <1>6. OneProcess'
    BY <1>4 DEF Alone, OneProcess, Child, Up
  <1>7. ASSUME NEW j \in Slots PROVE StopOK(j)'
    <2>1. CASE j # k
      <3>1. thread'[Request(j)] = Idle
        BY <1>1, <1>3, <1>4, <2>1, ThreadNames
      <3> QED BY <3>1 DEF StopOK
    <2>2. CASE j = k
      BY <1>4, <2>2 DEF StopOK, Child, Asking
    <2> QED BY <2>1, <2>2
  <1>8. ASSUME NEW g \in Handles PROVE HandleOK(g)'
    <2>1. CASE g # h
      BY <1>3, <1>4, <2>1 DEF Alone, HandleOK, Status, Child, CanStart
    <2>2. CASE g = h
      <3>1. handle'[h].status = "stopping" => Stopper(h)'
        BY <1>4 DEF Stopper, Asking
      <3> QED BY <1>4, <2>2, <3>1 DEF HandleOK, Status, Child
    <2> QED BY <2>1, <2>2
  <1> QED BY <1>5, <1>6, <1>7, <1>8 DEF Alone

LEMMA StopsStartAlone ==
  ASSUME HostInv, Alone, NEW k \in Slots, NEW t, t = Request(k), RestartStops(t) \/ Deactivate(t)
  PROVE  Alone'
  <1> USE IdleIs
  <1>1. /\ thread[t] # Idle /\ thread[t].at \notin Asking /\ proc' = proc /\ worker' = worker
        /\ worker \in Handles \cup {None}
    BY DEF RestartStops, Deactivate, At, Asking, HostInv, HostTyped
  <1>2. CASE worker # None /\ StopInternal(t, worker)
    BY <1>1, <1>2, StopsBeginAlone
  <1>3. CASE handle' = handle /\ thread' = End(t)
    BY <1>1, <1>3, AloneEnd
  <1>4. CASE handle' = handle /\ thread' = Goto(t, "deactivated")
    BY <1>1, <1>4, AloneGoto DEF Goto, Asking
  <1> QED BY <1>2, <1>3, <1>4 DEF RestartStops, Deactivate, Running

LEMMA StopsAlone ==
  ASSUME HostInv, Alone, NEW k \in Slots, NEW t, t = Request(k), StopGoesOn(t)
  PROVE  Alone'
  <1> USE Numbers, IdleIs
  <1>1. /\ t \in Threads /\ thread[t] \in ThreadRecords /\ \A j \in Slots : Request(j) \in Threads
        /\ thread[t].at \in Asking /\ thread[t] # Idle
    BY ThreadNames DEF HostInv, HostTyped, StopGoesOn, Asking
  <1>2. PICK h \in Handles : h = thread[t].h
    BY <1>1 DEF HostInv, ThreadOK, Holds
  <1>3. /\ h = worker /\ ~handle[h].timer /\ handle[h].intentional
        /\ thread[t].p = None => Child(h) = None
    BY <1>1, <1>2 DEF Alone, StopOK
  <1>4. handle[h] \in HandleRecords /\ HandleOK(h) /\ handle \in [Handles -> HandleRecords]
    BY DEF HostInv, HostTyped, Alone
  <1>5. /\ \A j \in Slots : j # k => thread[Request(j)] = Idle
        /\ \A g \in Handles : g # h => Status(g) # "stopping"
    BY <1>1, <1>2, AloneRequest
  <1>6. /\ \A g \in Handles : g # h => handle'[g] = handle[g]
        /\ handle'[h].child = handle[h].child /\ ~handle'[h].timer /\ handle'[h].intentional
        /\ \A s \in Threads : s # t => thread'[s] = thread[s]
        /\ thread'[t].h = h
        /\ \/ thread'[t].at = "stopped" /\ Child(h) = None /\ handle'[h].status = "stopped"
           \/ /\ thread'[t].at \in Asking /\ thread'[t].p # None
              /\ handle'[h].status = handle[h].status /\ Child(h) # None
        /\ \A p \in Procs : p \in Up' => p \in Up
        /\ worker' = worker
    <2>1. CASE Child(h) = None \/ At(t, "kill")
      <3>1. Child(h) = None
        BY <1>2, <1>3, <2>1 DEF StopGoesOn, Goes, At
      <3>2. handle' = [handle EXCEPT ![h].status = "stopped"] /\ proc' = proc /\ worker' = worker
            /\ thread' = [Await(t, "stopped", None) EXCEPT ![t].p = None]
        BY <1>2, <2>1 DEF StopGoesOn
      <3>3. /\ \A g \in Handles : g # h => handle'[g] = handle[g]
            /\ handle'[h].child = handle[h].child /\ ~handle'[h].timer /\ handle'[h].intentional
            /\ handle'[h].status = "stopped"
        BY <1>3, <1>4, <3>2 DEF HandleRecords
      <3>4. /\ \A s \in Threads : s # t => thread'[s] = thread[s]
            /\ thread'[t].h = h /\ thread'[t].at = "stopped"
        BY <1>1, <1>2, <3>2 DEF Await, HostInv, HostTyped, ThreadRecords
      <3>5. \A p \in Procs : p \in Up' => p \in Up
        BY <3>2 DEF Up
      <3> QED BY <3>1, <3>2, <3>3, <3>4, <3>5
    <2>2. CASE Child(h) # None /\ ~At(t, "kill")
      <3>1. PICK q \in Procs : q = Child(h) /\ q \in Up
        <4>1. RowOK(h) /\ Child(h) \in Procs \cup {None}
          BY <1>4 DEF HostInv, HandleRecords, Child
        <4> QED BY <2>2, <4>1 DEF RowOK
      <3>2. PICK next \in {"drain", "term", "kill"} : next = Escalated(thread[t].at)
        BY DEF Escalated
      <3>3. handle' = handle /\ worker' = worker /\ thread' = [thread EXCEPT ![t].at = next, ![t].p = q]
            /\ (proc' = proc \/ proc' = [proc EXCEPT ![q].state = "killed"])
        BY <1>2, <2>2, <3>1, <3>2 DEF StopGoesOn, Await
      <3>4. /\ \A s \in Threads : s # t => thread'[s] = thread[s]
            /\ thread'[t].h = h /\ thread'[t].at = next /\ thread'[t].p = q
        BY <1>1, <1>2, <3>3 DEF HostInv, HostTyped, ThreadRecords
      <3>5. \A p \in Procs : p \in Up' => p \in Up
        BY <3>1, <3>3 DEF Up, HostInv, HostTyped, ProcRecords
      <3> QED BY <1>3, <2>2, <3>3, <3>4, <3>5 DEF Asking
    <2> QED BY <2>1, <2>2
  <1>7. OneRequest'
    BY <1>1, <1>5, <1>6 DEF Alone, OneRequest
  <1>8. OneProcess'
    BY <1>3, <1>6 DEF Alone, OneProcess, Child, Up
  <1>9. ASSUME NEW j \in Slots PROVE StopOK(j)'
    <2>1. CASE j # k
      <3>1. thread'[Request(j)] = Idle
        BY <1>1, <1>5, <1>6, <2>1, ThreadNames
      <3> QED BY <3>1 DEF StopOK
    <2>2. CASE j = k
      BY <1>3, <1>6, <2>2 DEF StopOK, Child, Asking
    <2> QED BY <2>1, <2>2
  <1>10. ASSUME NEW g \in Handles PROVE HandleOK(g)'
    <2>1. CASE g # h
      BY <1>5, <1>6, <2>1 DEF Alone, HandleOK, Status, Child, CanStart
    <2>2. CASE g = h
      <3>1. handle'[h].status = "stopping" => Stopper(h)'
        BY <1>6 DEF Stopper, Asking
      <3>2. handle'[h].status = "stopped" => Child(h) = None
        BY <1>4, <1>6 DEF HandleOK, Status
      <3> QED BY <1>6, <2>2, <3>1, <3>2 DEF HandleOK, Status, Child
    <2> QED BY <2>1, <2>2
  <1> QED BY <1>7, <1>8, <1>9, <1>10 DEF Alone

LEMMA StopReturnsAlone ==
  ASSUME HostInv, Alone, NEW k \in Slots, NEW t, t = Request(k), StopReturns(t)
  PROVE  Alone'
  <1> USE Numbers, IdleIs
  <1>1. /\ t \in Threads /\ thread[t] \in ThreadRecords /\ \A j \in Slots : Request(j) \in Threads
        /\ thread[t].at = "stopped" /\ thread[t] # Idle /\ thread[t].at \notin Asking
    BY ThreadNames DEF HostInv, HostTyped, StopReturns, At, Asking
  <1>2. PICK h \in Handles : h = thread[t].h
    BY <1>1 DEF HostInv, ThreadOK, Holds
  <1>3. h = worker /\ ~handle[h].timer /\ Child(h) = None
    BY <1>1, <1>2 DEF Alone, StopOK
  <1>4. Up = {}
    BY <1>3 DEF Alone, OneProcess, Up
  <1>5. \A g \in Handles : ~handle[g].timer
    BY <1>3 DEF Alone, HandleOK
  <1>6. \A j \in Slots : j # k => thread[Request(j)] = Idle
    BY <1>1, AloneRequest
  <1>7. CASE thread[t].op = "restart" /\ CanStart(h)
    <2>1. StartInternal(t, h, handle[h], "restart") /\ worker' = worker /\ handle[h] \in HandleRecords
      BY <1>2, <1>7 DEF StopReturns, HostInv, HostTyped
    <2>2. \A j \in Slots : thread[Request(j)].at \notin Asking /\ (t # Request(j) => thread[Request(j)].at # "stopped")
      BY <1>1, <1>6
    <2> QED BY <1>1, <1>3, <1>4, <1>5, <2>1, <2>2, AloneSpawns
  <1>8. CASE thread[t].op = "restart" /\ ~CanStart(h)
    BY <1>1, <1>2, <1>8, AloneEnd DEF StopReturns
  <1>9. CASE thread[t].op # "restart"
    <2>1. /\ handle' = handle /\ proc' = proc /\ worker' = None
          /\ thread' = [thread EXCEPT ![t].at = "deactivated"]
      BY <1>9 DEF StopReturns, Goto
    <2>2. \A j \in Slots : j # k => thread'[Request(j)] = Idle
      BY <1>1, <1>6, <2>1, ThreadNames DEF HostInv, HostTyped
    <2>3. thread'[t].at = "deactivated"
      BY <1>1, <2>1 DEF ThreadRecords, HostInv, HostTyped
    <2>4. OneRequest'
      BY <2>2 DEF OneRequest
    <2>5. OneProcess'
      BY <1>4, <2>1 DEF OneProcess, Up
    <2>6. \A j \in Slots : StopOK(j)'
      BY <2>2, <2>3 DEF StopOK, Asking
    <2>7. ASSUME NEW g \in Handles PROVE HandleOK(g)'
      <3>1. HandleOK(g) /\ ~handle[g].timer /\ ~Stopper(g)
        BY <1>1, <1>5, <1>6 DEF Alone, Stopper
      <3> QED BY <2>1, <3>1 DEF HandleOK, Status, Child, CanStart
    <2> QED BY <2>4, <2>5, <2>6, <2>7 DEF Alone
  <1> QED BY <1>7, <1>8, <1>9

LEMMA BackoffAlone ==
  ASSUME HostInv, Alone, NEW h \in Handles, BackoffOver(h)
  PROVE  Alone'
  <1> USE Numbers, IdleIs
  <1> DEFINE off == [handle[h] EXCEPT !.timer = FALSE]
  <1>1. HandleOK(h) /\ handle[h].timer /\ CanStart(h) /\ Child(h) = None /\ worker = h
    BY DEF Alone, HandleOK, BackoffOver
  <1>2. Up = {}
    BY <1>1 DEF Alone, OneProcess, Up
  <1>3. \A g \in Handles : g # h => ~handle[g].timer
    BY <1>1 DEF Alone, HandleOK
  <1>4. \A j \in Slots : thread[Request(j)].at \notin Asking \cup {"stopped"}
    BY <1>1 DEF Alone, StopOK
  <1>5. off \in HandleRecords /\ ~off.timer
    BY DEF HostInv, HostTyped, HandleRecords
  <1>6. StartInternal(Restart(h), h, off, "backoff") /\ worker' = worker
    BY <1>1 DEF BackoffOver
  <1>7. Restart(h) \in Threads /\ \A k \in Slots : Restart(h) # Request(k)
    BY ThreadNames
  <1> HIDE DEF off
  <1> QED BY <1>1, <1>2, <1>3, <1>4, <1>5, <1>6, <1>7, AloneSpawns

LEMMA ActivationAlone ==
  ASSUME HostInv, Alone, NEW k \in Slots, NEW t, t = Request(k), ActivateStarts(t)
  PROVE  Alone'
  <1> USE Numbers, IdleIs
  <1>1. /\ t \in Threads /\ thread[t] \in ThreadRecords /\ \A j \in Slots : Request(j) \in Threads
        /\ thread[t].at = "activate" /\ thread[t] # Idle /\ thread[t].at \notin Asking \cup {"stopped"}
    BY ThreadNames DEF HostInv, HostTyped, ActivateStarts, At, Asking
  <1>2. k \in Activating
    BY <1>1 DEF HostInv, ThreadOK, Activating, Before
  <1>3. PICK h \in Handles : h = NextHandle
    BY <1>2, NextHandleIs
  <1>4. StartInternal(t, h, NoHandle, thread[t].op) /\ worker' = h /\ ~Registered
    BY <1>3 DEF ActivateStarts
  <1>5. NoHandle \in HandleRecords /\ ~NoHandle.timer
    BY DEF NoHandle, HandleRecords, None
  <1>6. worker # None => worker \in Handles /\ Child(worker) = None /\ ~handle[worker].timer
    BY <1>4 DEF Registered, Alone, HandleOK, HostInv, HostTyped
  <1>7. Up = {}
    BY <1>6 DEF Alone, OneProcess, Up
  <1>8. \A g \in Handles : ~handle[g].timer
    BY <1>6 DEF Alone, HandleOK
  <1>9. \A j \in Slots : j # k => thread[Request(j)] = Idle
    BY <1>1, AloneRequest
  <1>10. \A j \in Slots : thread[Request(j)].at \notin Asking \cup {"stopped"}
    BY <1>1, <1>9
  <1> QED BY <1>1, <1>4, <1>5, <1>7, <1>8, <1>10, AloneSpawns

LEMMA ExitsAlone ==
  ASSUME HostInv, Alone, NEW p \in Procs, p \in Up, NEW forget, ProcessExit(p, forget)
  PROVE  Alone'
  <1> USE Numbers, IdleIs
  <1>1. PICK h \in Handles : h = worker /\ Child(h) = p /\ proc[p].of = h
    BY DEF Alone, OneProcess, HostInv, HostTyped, RowOK
  <1>2. \A q \in Procs : q \in Up => q = p
    BY <1>1 DEF Alone, OneProcess
  <1>3. HandleOK(h) /\ ~handle[h].timer
    BY <1>1 DEF Alone, HandleOK
  <1>4. /\ \A g \in Handles : g # h => handle'[g] = handle[g]
        /\ handle'[h].child = None
        /\ handle'[h].intentional = handle[h].intentional
        /\ IF handle[h].intentional
           THEN handle'[h].status = "stopped" /\ ~handle'[h].timer
           ELSE \/ handle'[h].status = "backoff"
                \/ handle'[h].status = "crashed" /\ ~handle'[h].timer
        /\ \A q \in Procs : q # p => proc'[q].state = proc[q].state
        /\ proc'[p].state = "gone"
        /\ worker' = worker
    BY <1>1, <1>3, ExitIs
  <1>5. /\ \A t \in Threads :
             \/ thread'[t] = thread[t]
             \/ thread[t].at \in Calls \cup Waits /\ thread'[t] = Idle
             \/ thread[t].at \in Calls \cup Waits /\ thread'[t] = [thread[t] EXCEPT !.p = None]
    BY ExitThreads DEF Rejected
  <1>6. \A j \in Slots : Request(j) \in Threads
    BY ThreadNames
  <1>7. OneRequest'
    <2>1. \A j \in Slots : thread'[Request(j)] # Idle => thread[Request(j)] # Idle
      BY <1>5, <1>6 DEF Calls, Waits
    <2> QED BY <2>1 DEF Alone, OneRequest
  <1>8. OneProcess'
    <2>1. \A q \in Procs : q \notin Up'
      BY <1>2, <1>4 DEF Up
    <2> QED BY <2>1 DEF OneProcess, Up
  <1>9. ASSUME NEW j \in Slots PROVE StopOK(j)'
    <2> DEFINE t == Request(j)
    <2>1. t \in Threads /\ thread[t] \in ThreadRecords
      BY <1>6 DEF HostInv, HostTyped
    <2>2. CASE thread'[t].at \notin Asking \cup {"stopped"}
      BY <2>2 DEF StopOK
    <2>3. CASE thread'[t].at \in Asking \cup {"stopped"}
      <3>1. thread'[t].at = thread[t].at /\ thread'[t].h = thread[t].h
        BY <1>5, <2>1, <2>3 DEF ThreadRecords
      <3>2. thread[t].h = h /\ (thread[t].at \in Asking => handle[h].intentional) /\ thread[t].at # "stopped"
        BY <1>1, <2>3, <3>1 DEF Alone, StopOK
      <3>3. thread[t].at \in Asking
        BY <2>3, <3>1, <3>2
      <3> HIDE DEF t
      <3>4. handle'[h].intentional /\ ~handle'[h].timer /\ handle'[h].child = None
        BY <1>4, <3>2, <3>3
      <3> QED BY <1>1, <1>4, <3>1, <3>2, <3>4 DEF t, StopOK, Child
    <2> QED BY <2>2, <2>3
  <1>10. ASSUME NEW g \in Handles PROVE HandleOK(g)'
    <2>1. CASE g # h
      <3>1. HandleOK(g) /\ ~handle[g].timer
        BY <1>1, <2>1 DEF Alone, HandleOK
      <3>2. ~Stopper(g)
        BY <1>1, <2>1 DEF Alone, StopOK, Stopper
      <3> QED BY <1>4, <2>1, <3>1, <3>2 DEF HandleOK, Status, Child
    <2>2. CASE g = h
      BY <1>1, <1>4, <2>2 DEF HandleOK, Status, Child, CanStart
    <2> QED BY <2>1, <2>2
  <1> QED BY <1>7, <1>8, <1>9, <1>10 DEF Alone

LEMMA AloneInit == Init => AloneInv
  <1> SUFFICES ASSUME Init PROVE Alone
    BY DEF AloneInv
  <1>1. Up = {}
    BY DEF Init, Up, NoProc
  <1>2. \A k \in Slots : thread[Request(k)] = Idle
    BY ThreadNames DEF Init
  <1>3. OneRequest
    BY <1>2 DEF OneRequest
  <1>4. \A k \in Slots : StopOK(k)
    BY <1>2, IdleIs DEF StopOK
  <1>5. \A h \in Handles : HandleOK(h)
    BY DEF Init, NoHandle, HandleOK, Status
  <1> QED BY <1>1, <1>3, <1>4, <1>5 DEF Alone, OneProcess

LEMMA AloneNext ==
  ASSUME HostInv, AloneInv, [Next]_vars
  PROVE  AloneInv'
  <1> SUFFICES ASSUME ~events'.overlapped PROVE Alone'
    BY DEF AloneInv
  <1> USE ThreadNames
  <1>1. events'.overlapped \in BOOLEAN /\ (events.overlapped => events'.overlapped)
    <2>1. events' \in [requests : 0..MaxRequests, exits : Nat, calls : Nat, overlapped : BOOLEAN]
      BY HostNext DEF HostInv, HostTyped
    <2>2. events.overlapped => events'.overlapped
      <3>1. \/ events' = events \/ events' = [events EXCEPT !.exits = @ + 1]
            \/ events' = [events EXCEPT !.calls = @ + 1]
            \/ events' = [events EXCEPT !.requests = @ + 1,
                                        !.overlapped = @ \/ \E j \in Slots : thread[Request(j)] # Idle]
        BY DEF Next, vars, LifecycleRequest, RequestStep, StartStep, StopStep, Initialized, InitializeFails, StartKilled,
               StopGoesOn, StopReturns, RestartStops, BecomesReady, ActivateWaits, ActivateFails, ActivateStarts,
               JobsSynced, MarkError, Deactivate, Deactivated, BackoffOver, Exit, Dies, Call, CallEnds
      <3> QED BY <3>1 DEF HostInv, HostTyped
    <2> QED BY <2>1, <2>2
  <1>2. Alone
    BY <1>1 DEF AloneInv
  <1>3. CASE UNCHANGED vars
    BY <1>2, <1>3 DEF vars, Alone, OneRequest, OneProcess, StopOK, HandleOK, Stopper, Status, Child, CanStart, Up
  <1>4. ASSUME NEW k \in Slots, NEW op \in Operations, LifecycleRequest(k, op) PROVE Alone'
    BY <1>2, <1>4, RequestsAlone
  <1>5. ASSUME NEW k \in Slots, RequestStep(Request(k)) PROVE Alone'
    BY <1>2, <1>5, StartsAlone, StopsAlone, StopReturnsAlone, StopsStartAlone, PlainAlone, ActivationAlone
    DEF RequestStep, StopStep
  <1>6. ASSUME NEW h \in Handles, BackoffOver(h) \/ StartStep(Restart(h)) PROVE Alone'
    BY <1>2, <1>6, BackoffAlone, StartsAlone
  <1>7. ASSUME NEW p \in Procs, (\E forget \in BOOLEAN : Exit(p, forget)) \/ Dies(p) PROVE Alone'
    <2>1. PICK forget \in BOOLEAN : ProcessExit(p, forget)
      BY <1>7 DEF Exit, Dies
    <2>2. p \in Up
      BY <1>7 DEF Exit, Dies, Up
    <2> QED BY <1>2, <2>1, <2>2, ExitsAlone
  <1>8. ASSUME NEW c \in Callers, Call(c) \/ CallEnds(c) PROVE Alone'
    BY <1>2, <1>8, CallsAlone
  <1> QED BY <1>3, <1>4, <1>5, <1>6, <1>7, <1>8 DEF Next

LEMMA AloneAlways == Spec => []AloneInv
  <1>1. Spec => [](HostInv /\ AloneInv)
    BY HostInit, HostNext, AloneInit, AloneNext, PTL DEF Spec
  <1> QED BY <1>1, PTL

\* "One worker process per installed plugin" (plugin-worker-manager.ts:11), as
\* long as no two lifecycle requests have overlapped: for any number of
\* requests, crashes, restarts and failing starts, and in any order of them.
THEOREM OneWorkerProcess == Spec => []OneProcessPerPlugin
  <1>1. AloneInv => OneProcessPerPlugin
    BY DEF AloneInv, Alone, OneProcess, OneProcessPerPlugin
  <1> QED BY <1>1, AloneAlways, PTL

\* A restart that is due finds its handle registered, down and without a
\* process, as long as no two lifecycle requests have overlapped
\* (scheduleRestart, plugin-worker-manager.ts:774).
THEOREM RestartsFindTheirHandle == Spec => []BackoffCanStart
  <1>1. AloneInv => BackoffCanStart
    BY DEF AloneInv, Alone, HandleOK, BackoffCanStart
  <1> QED BY <1>1, AloneAlways, PTL

-----------------------------------------------------------------------------
(* PluginWorkers.                                                           *)

\* Attempts that may still get a process, and processes not yet reaped.
Coming == {"begin", "spawn"}
Living == {"alive"} \cup Exiting

\* A handle that is not registered yet has had no attempt.
Fresh ==
    \A h \in Requests :
        /\ req[h].pc \notin {"starting", "done"} => start[h][0] = "none"
        /\ start[h][0] = "none" =>
              /\ ~handles[h].timer
              /\ \A k \in Tries : start[h][k] = "none" /\ processes[h][k] = "none"

OneLife ==
    \A h \in Requests, k \in Tries :
        /\ handles[h].timer => start[h][k] \notin Coming /\ processes[h][k] \notin Living
        /\ \A l \in Tries :
              /\ start[h][k] \in Coming => processes[h][l] \notin Living
              /\ start[h][k] \in Coming /\ start[h][l] \in Coming => k = l
              /\ processes[h][k] \in Living /\ processes[h][l] \in Living => k = l

\* Until the end of a process is seen, cmd is it, or about to be.
Known ==
    \A h \in Requests, k \in Tries :
        /\ processes[h][k] \in {"alive", "dead"} =>
              handles[h].cmd = k \/ start[h][k] = "publish"
        /\ start[h][k] = "publish" => processes[h][k] \in {"alive", "dead"}

IInv == WorkersTypeOK /\ Fresh /\ OneLife /\ Known

LEMMA InitIInv == WorkersInit => IInv
  <1> SUFFICES ASSUME WorkersInit PROVE IInv
    OBVIOUS
  <1> USE WorkerAssumption
  <1>1. WorkersTypeOK
    BY DEF WorkersInit, WorkersTypeOK, NewHandle, WorkerStatus, Tries, NoProcess, StartPc, ProcPc,
           Stopping, Starting, Exiting
  <1>2. Fresh
    BY DEF WorkersInit, Fresh, NewHandle, Tries
  <1>3. OneLife
    BY DEF WorkersInit, OneLife, NewHandle, Coming, Living, Exiting
  <1>4. Known
    BY DEF WorkersInit, Known
  <1> QED BY <1>1, <1>2, <1>3, <1>4 DEF IInv

\* The parts of WorkersTypeOK.
RequestsTyped ==
    req \in [Requests -> [pc : {"idle", "done"} \cup Starting \cup Stopping,
                         at : Requests \cup {NoRequest}]]

StopsKnown ==
    \A r \in Requests :
        req[r].pc \in Stopping \ {"lookup"} => req[r].at \in Requests

HandlesTyped ==
    handles \in [Requests -> [status : WorkerStatus, cmd : Tries \cup {NoProcess},
                            intentional : BOOLEAN, crashes : Nat,
                            timer : BOOLEAN]]

RestTyped ==
    /\ workers \in Requests \cup {NoRequest}
    /\ lock \in Requests \cup {NoRequest}
    /\ start \in [Requests -> [Tries -> StartPc]]
    /\ processes \in [Requests -> [Tries -> ProcPc]]
    /\ fired \in 0..MaxRestarts

LEMMA TypeStep == WorkersTypeOK /\ [WorkersNext]_workersVars => WorkersTypeOK'
  <1> SUFFICES ASSUME WorkersTypeOK, [WorkersNext]_workersVars PROVE WorkersTypeOK'
    OBVIOUS
  <1>0. RequestsTyped /\ StopsKnown /\ HandlesTyped /\ RestTyped
    BY DEF WorkersTypeOK, RequestsTyped, StopsKnown, HandlesTyped, RestTyped
  <1>1. ASSUME NEW r \in Requests, Begin(r) PROVE WorkersTypeOK'
    <2>1. RequestsTyped'
      BY <1>0, <1>1 DEF Begin, ReqAt, RequestsTyped, Starting, Stopping
    <2>2. StopsKnown'
      BY <1>0, <1>1 DEF Begin, ReqAt, RequestsTyped, StopsKnown, Stopping
    <2>3. HandlesTyped'
      BY <1>0, <1>1 DEF Begin, ReqAt, HandlesTyped
    <2>4. RestTyped'
      BY <1>0, <1>1 DEF Begin, ReqAt, RestTyped
    <2> QED
      BY <2>1, <2>2, <2>3, <2>4
      DEF WorkersTypeOK, RequestsTyped, StopsKnown, HandlesTyped, RestTyped
  <1>2. ASSUME NEW r \in Requests, TakeLock(r) PROVE WorkersTypeOK'
    <2>1. RequestsTyped'
      BY <1>0, <1>2 DEF TakeLock, ReqAt, RequestsTyped, Starting, Stopping
    <2>2. StopsKnown'
      BY <1>0, <1>2 DEF TakeLock, ReqAt, RequestsTyped, StopsKnown, Stopping
    <2>3. HandlesTyped'
      BY <1>0, <1>2 DEF TakeLock, ReqAt, HandlesTyped
    <2>4. RestTyped'
      BY <1>0, <1>2 DEF TakeLock, ReqAt, RestTyped
    <2> QED
      BY <2>1, <2>2, <2>3, <2>4
      DEF WorkersTypeOK, RequestsTyped, StopsKnown, HandlesTyped, RestTyped
  <1>3. ASSUME NEW r \in Requests, WaitForStart(r) PROVE WorkersTypeOK'
    <2>1. RequestsTyped'
      BY <1>0, <1>3, ZenonT(40)
      DEF WaitForStart, RequestsTyped, Starting, Stopping, RestTyped
    <2>2. StopsKnown'
      BY <1>0, <1>3 DEF WaitForStart, RequestsTyped, StopsKnown, Stopping
    <2>3. HandlesTyped'
      BY <1>0, <1>3 DEF WaitForStart, HandlesTyped
    <2>4. RestTyped'
      BY <1>0, <1>3 DEF WaitForStart, RestTyped
    <2> QED
      BY <2>1, <2>2, <2>3, <2>4
      DEF WorkersTypeOK, RequestsTyped, StopsKnown, HandlesTyped, RestTyped
  <1>4. ASSUME NEW r \in Requests, Waited(r) PROVE WorkersTypeOK'
    <2>1. RequestsTyped'
      BY <1>0, <1>4 DEF Waited, ReqAt, RequestsTyped, Starting, Stopping
    <2>2. StopsKnown'
      BY <1>0, <1>4 DEF Waited, ReqAt, RequestsTyped, StopsKnown, Stopping
    <2>3. HandlesTyped'
      BY <1>0, <1>4 DEF Waited, ReqAt, HandlesTyped
    <2>4. RestTyped'
      BY <1>0, <1>4 DEF Waited, ReqAt, RestTyped
    <2> QED
      BY <2>1, <2>2, <2>3, <2>4
      DEF WorkersTypeOK, RequestsTyped, StopsKnown, HandlesTyped, RestTyped
  <1>5. ASSUME NEW r \in Requests, StartRefused(r) PROVE WorkersTypeOK'
    <2>1. RequestsTyped'
      BY <1>0, <1>5
      DEF StartRefused, Return, ReqAt, RequestsTyped, Starting, Stopping
    <2>2. StopsKnown'
      BY <1>0, <1>5
      DEF StartRefused, Return, ReqAt, RequestsTyped, StopsKnown, Stopping
    <2>3. HandlesTyped'
      BY <1>0, <1>5 DEF StartRefused, Return, ReqAt, HandlesTyped
    <2>4. RestTyped'
      BY <1>0, <1>5 DEF StartRefused, Return, ReqAt, RestTyped
    <2> QED
      BY <2>1, <2>2, <2>3, <2>4
      DEF WorkersTypeOK, RequestsTyped, StopsKnown, HandlesTyped, RestTyped
  <1>6. ASSUME NEW r \in Requests, CheckExisting(r) PROVE WorkersTypeOK'
    <2>1. RequestsTyped'
      BY <1>0, <1>6
      DEF CheckExisting, ReqAt, Replaceable, RequestsTyped, Starting, Stopping
    <2>2. StopsKnown'
      BY <1>0, <1>6
      DEF CheckExisting, ReqAt, Replaceable, RequestsTyped, StopsKnown, Stopping
    <2>3. HandlesTyped'
      BY <1>0, <1>6 DEF CheckExisting, ReqAt, Replaceable, HandlesTyped
    <2>4. RestTyped'
      BY <1>0, <1>6 DEF CheckExisting, ReqAt, Replaceable, RestTyped
    <2> QED
      BY <2>1, <2>2, <2>3, <2>4
      DEF WorkersTypeOK, RequestsTyped, StopsKnown, HandlesTyped, RestTyped
  <1>7. ASSUME NEW r \in Requests, Register(r) PROVE WorkersTypeOK'
    <2>1. RequestsTyped'
      BY <1>0, <1>7
      DEF Register, ReqAt, StartAt, RequestsTyped, Starting, Stopping
    <2>2. StopsKnown'
      BY <1>0, <1>7
      DEF Register, ReqAt, StartAt, RequestsTyped, StopsKnown, Stopping
    <2>3. HandlesTyped'
      BY <1>0, <1>7 DEF Register, ReqAt, StartAt, HandlesTyped
    <2>4. RestTyped'
      BY <1>0, <1>7, WorkerAssumption
      DEF Register, ReqAt, StartAt, RestTyped, StartPc, Tries
    <2> QED
      BY <2>1, <2>2, <2>3, <2>4
      DEF WorkersTypeOK, RequestsTyped, StopsKnown, HandlesTyped, RestTyped
  <1>8. ASSUME NEW r \in Requests, StartReturns(r) PROVE WorkersTypeOK'
    <2>1. RequestsTyped'
      BY <1>0, <1>8
      DEF StartReturns, Return, ReqAt, RequestsTyped, Starting, Stopping
    <2>2. StopsKnown'
      BY <1>0, <1>8
      DEF StartReturns, Return, ReqAt, RequestsTyped, StopsKnown, Stopping
    <2>3. HandlesTyped'
      BY <1>0, <1>8 DEF StartReturns, Return, ReqAt, HandlesTyped
    <2>4. RestTyped'
      BY <1>0, <1>8 DEF StartReturns, Return, ReqAt, RestTyped
    <2> QED
      BY <2>1, <2>2, <2>3, <2>4
      DEF WorkersTypeOK, RequestsTyped, StopsKnown, HandlesTyped, RestTyped
  <1>9. ASSUME NEW r \in Requests, StopLookup(r) PROVE WorkersTypeOK'
    <2>1. RequestsTyped'
      BY <1>0, <1>9 DEF StopLookup, Stopped, RequestsTyped, Starting, Stopping
    <2>2. StopsKnown'
      BY <1>0, <1>9
      DEF StopLookup, Stopped, RequestsTyped, StopsKnown, Stopping
    <2>3. HandlesTyped'
      BY <1>0, <1>9 DEF StopLookup, Stopped, HandlesTyped
    <2>4. RestTyped'
      BY <1>0, <1>9 DEF StopLookup, Stopped, RestTyped
    <2> QED
      BY <2>1, <2>2, <2>3, <2>4
      DEF WorkersTypeOK, RequestsTyped, StopsKnown, HandlesTyped, RestTyped
  <1>10. ASSUME NEW r \in Requests, CancelPendingRestart(r) PROVE WorkersTypeOK'
    <2>1. RequestsTyped'
      BY <1>0, <1>10
      DEF CancelPendingRestart, ReqAt, RequestsTyped, Starting, Stopping
    <2>2. StopsKnown'
      BY <1>0, <1>10
      DEF CancelPendingRestart, ReqAt, RequestsTyped, StopsKnown, Stopping
    <2>3. HandlesTyped'
      BY <1>0, <1>10
      DEF CancelPendingRestart, ReqAt, HandlesTyped, RequestsTyped, StopsKnown,
          Stopping, WorkerStatus
    <2>4. RestTyped'
      BY <1>0, <1>10 DEF CancelPendingRestart, ReqAt, RestTyped
    <2> QED
      BY <2>1, <2>2, <2>3, <2>4
      DEF WorkersTypeOK, RequestsTyped, StopsKnown, HandlesTyped, RestTyped
  <1>11. ASSUME NEW r \in Requests, ReadStatus(r) PROVE WorkersTypeOK'
    <2>1. RequestsTyped'
      BY <1>0, <1>11 DEF ReadStatus, ReqAt, RequestsTyped, Starting, Stopping
    <2>2. StopsKnown'
      BY <1>0, <1>11 DEF ReadStatus, ReqAt, RequestsTyped, StopsKnown, Stopping
    <2>3. HandlesTyped'
      BY <1>0, <1>11 DEF ReadStatus, ReqAt, HandlesTyped
    <2>4. RestTyped'
      BY <1>0, <1>11 DEF ReadStatus, ReqAt, RestTyped
    <2> QED
      BY <2>1, <2>2, <2>3, <2>4
      DEF WorkersTypeOK, RequestsTyped, StopsKnown, HandlesTyped, RestTyped
  <1>12. ASSUME NEW r \in Requests, MarkStopping(r) PROVE WorkersTypeOK'
    <2>1. RequestsTyped'
      BY <1>0, <1>12 DEF MarkStopping, ReqAt, RequestsTyped, Starting, Stopping
    <2>2. StopsKnown'
      BY <1>0, <1>12
      DEF MarkStopping, ReqAt, RequestsTyped, StopsKnown, Stopping
    <2>3. HandlesTyped'
      BY <1>0, <1>12, ZenonT(40)
      DEF MarkStopping, ReqAt, HandlesTyped, RequestsTyped, StopsKnown,
          Stopping, WorkerStatus
    <2>4. RestTyped'
      BY <1>0, <1>12 DEF MarkStopping, ReqAt, RestTyped
    <2> QED
      BY <2>1, <2>2, <2>3, <2>4
      DEF WorkersTypeOK, RequestsTyped, StopsKnown, HandlesTyped, RestTyped
  <1>13. ASSUME NEW r \in Requests, StopUnborn(r) PROVE WorkersTypeOK'
    <2>1. RequestsTyped'
      BY <1>0, <1>13
      DEF StopUnborn, ReqAt, SetStatus, RequestsTyped, Starting, Stopping
    <2>2. StopsKnown'
      BY <1>0, <1>13
      DEF StopUnborn, ReqAt, SetStatus, RequestsTyped, StopsKnown, Stopping
    <2>3. HandlesTyped'
      BY <1>0, <1>13
      DEF StopUnborn, ReqAt, SetStatus, HandlesTyped, RequestsTyped, StopsKnown,
          Stopping, WorkerStatus
    <2>4. RestTyped'
      BY <1>0, <1>13 DEF StopUnborn, ReqAt, SetStatus, RestTyped
    <2> QED
      BY <2>1, <2>2, <2>3, <2>4
      DEF WorkersTypeOK, RequestsTyped, StopsKnown, HandlesTyped, RestTyped
  <1>14. ASSUME NEW r \in Requests, Interrupt(r) PROVE WorkersTypeOK'
    <2>1. RequestsTyped'
      BY <1>0, <1>14 DEF Interrupt, ReqAt, RequestsTyped, Starting, Stopping
    <2>2. StopsKnown'
      BY <1>0, <1>14 DEF Interrupt, ReqAt, RequestsTyped, StopsKnown, Stopping
    <2>3. HandlesTyped'
      BY <1>0, <1>14 DEF Interrupt, ReqAt, HandlesTyped
    <2>4. RestTyped'
      BY <1>0, <1>14 DEF Interrupt, ReqAt, RestTyped
    <2> QED
      BY <2>1, <2>2, <2>3, <2>4
      DEF WorkersTypeOK, RequestsTyped, StopsKnown, HandlesTyped, RestTyped
  <1>15. ASSUME NEW r \in Requests, Kill(r) PROVE WorkersTypeOK'
    <2>1. RequestsTyped'
      BY <1>0, <1>15
      DEF Kill, ReqAt, KillProcessOf, RequestsTyped, Starting, Stopping
    <2>2. StopsKnown'
      BY <1>0, <1>15
      DEF Kill, ReqAt, KillProcessOf, RequestsTyped, StopsKnown, Stopping
    <2>3. HandlesTyped'
      BY <1>0, <1>15 DEF Kill, ReqAt, KillProcessOf, HandlesTyped
    <2>4. RestTyped'
      BY <1>0, <1>15 DEF Kill, ReqAt, KillProcessOf, RestTyped, ProcPc, Exiting
    <2> QED
      BY <2>1, <2>2, <2>3, <2>4
      DEF WorkersTypeOK, RequestsTyped, StopsKnown, HandlesTyped, RestTyped
  <1>16. ASSUME NEW r \in Requests, Remove(r) PROVE WorkersTypeOK'
    <2>1. RequestsTyped'
      BY <1>0, <1>16
      DEF Remove, ReqAt, Stopped, RequestsTyped, Starting, Stopping
    <2>2. StopsKnown'
      BY <1>0, <1>16
      DEF Remove, ReqAt, Stopped, RequestsTyped, StopsKnown, Stopping
    <2>3. HandlesTyped'
      BY <1>0, <1>16 DEF Remove, ReqAt, Stopped, HandlesTyped
    <2>4. RestTyped'
      BY <1>0, <1>16 DEF Remove, ReqAt, Stopped, RestTyped
    <2> QED
      BY <2>1, <2>2, <2>3, <2>4
      DEF WorkersTypeOK, RequestsTyped, StopsKnown, HandlesTyped, RestTyped
  <1>17. ASSUME NEW h \in Requests, NEW k \in Tries, StartBegins(h, k) PROVE WorkersTypeOK'
    <2>1. HandlesTyped'
      <3>1. CASE UNCHANGED handles
        BY <1>0, <3>1 DEF HandlesTyped
      <3>2. CASE handles' = [handles EXCEPT ![h].status = "starting",
                                            ![h].intentional = FALSE]
        <4>1. "starting" \in WorkerStatus
          BY DEF WorkerStatus
        <4> QED
          BY <1>0, <3>2, <4>1 DEF HandlesTyped
      <3> QED
        BY <1>17, <3>1, <3>2 DEF StartBegins
    <2>2. RestTyped'
      <3>1. start' \in [Requests -> [Tries -> StartPc]]
        <4>1. CASE StartAt(h, k, "failed")
          BY <1>0, <4>1 DEF RestTyped, StartAt, StartPc
        <4>2. CASE StartAt(h, k, "spawn")
          BY <1>0, <4>2 DEF RestTyped, StartAt, StartPc
        <4> QED
          BY <1>17, <4>1, <4>2 DEF StartBegins
      <3> QED
        BY <1>0, <1>17, <3>1 DEF StartBegins, RestTyped
    <2>3. RequestsTyped' /\ StopsKnown'
      BY <1>0, <1>17 DEF StartBegins, StartAt, RequestsTyped, StopsKnown
    <2> QED
      BY <2>1, <2>2, <2>3
      DEF WorkersTypeOK, RequestsTyped, StopsKnown, HandlesTyped, RestTyped
  <1>18. ASSUME NEW h \in Requests, NEW k \in Tries, Spawn(h, k) PROVE WorkersTypeOK'
    <2>1. HandlesTyped'
      BY <1>0, <1>18 DEF Spawn, HandlesTyped
    <2>2. RestTyped'
      BY <1>0, <1>18
      DEF Spawn, StartAt, ProcAt, RestTyped, StartPc, ProcPc, Exiting
    <2>3. RequestsTyped' /\ StopsKnown'
      BY <1>0, <1>18 DEF Spawn, StartAt, ProcAt, RequestsTyped, StopsKnown
    <2> QED
      BY <2>1, <2>2, <2>3
      DEF WorkersTypeOK, RequestsTyped, StopsKnown, HandlesTyped, RestTyped
  <1>19. ASSUME NEW h \in Requests, NEW k \in Tries, SpawnFails(h, k) PROVE WorkersTypeOK'
    <2>1. HandlesTyped'
      BY <1>0, <1>19 DEF SpawnFails, SetStatus, StartAt, HandlesTyped, WorkerStatus
    <2>2. RestTyped'
      BY <1>0, <1>19 DEF SpawnFails, SetStatus, StartAt, RestTyped, StartPc
    <2>3. RequestsTyped' /\ StopsKnown'
      BY <1>0, <1>19
      DEF SpawnFails, SetStatus, StartAt, RequestsTyped, StopsKnown
    <2> QED
      BY <2>1, <2>2, <2>3
      DEF WorkersTypeOK, RequestsTyped, StopsKnown, HandlesTyped, RestTyped
  <1>20. ASSUME NEW h \in Requests, NEW k \in Tries, CallInitialize(h, k) PROVE WorkersTypeOK'
    <2>1. HandlesTyped'
      BY <1>0, <1>20 DEF CallInitialize, StartAt, HandlesTyped
    <2>2. RestTyped'
      BY <1>0, <1>20 DEF CallInitialize, StartAt, RestTyped, StartPc
    <2>3. RequestsTyped' /\ StopsKnown'
      BY <1>0, <1>20 DEF CallInitialize, StartAt, RequestsTyped, StopsKnown
    <2> QED
      BY <2>1, <2>2, <2>3
      DEF WorkersTypeOK, RequestsTyped, StopsKnown, HandlesTyped, RestTyped
  <1>21. ASSUME NEW h \in Requests, NEW k \in Tries, InitializeAnswered(h, k) PROVE WorkersTypeOK'
    <2>1. HandlesTyped'
      BY <1>0, <1>21 DEF InitializeAnswered, StartAt, HandlesTyped
    <2>2. RestTyped'
      BY <1>0, <1>21 DEF InitializeAnswered, StartAt, RestTyped, StartPc
    <2>3. RequestsTyped' /\ StopsKnown'
      BY <1>0, <1>21 DEF InitializeAnswered, StartAt, RequestsTyped, StopsKnown
    <2> QED
      BY <2>1, <2>2, <2>3
      DEF WorkersTypeOK, RequestsTyped, StopsKnown, HandlesTyped, RestTyped
  <1>22. ASSUME NEW h \in Requests, NEW k \in Tries, InitializeRefused(h, k) PROVE WorkersTypeOK'
    <2>1. HandlesTyped'
      BY <1>0, <1>22 DEF InitializeRefused, StartAt, HandlesTyped
    <2>2. RestTyped'
      BY <1>0, <1>22 DEF InitializeRefused, StartAt, RestTyped, StartPc
    <2>3. RequestsTyped' /\ StopsKnown'
      BY <1>0, <1>22 DEF InitializeRefused, StartAt, RequestsTyped, StopsKnown
    <2> QED
      BY <2>1, <2>2, <2>3
      DEF WorkersTypeOK, RequestsTyped, StopsKnown, HandlesTyped, RestTyped
  <1>23. ASSUME NEW h \in Requests, NEW k \in Tries, KillUninitialized(h, k) PROVE WorkersTypeOK'
    <2>1. HandlesTyped'
      BY <1>0, <1>23 DEF KillUninitialized, StartAt, KillProcessOf, HandlesTyped
    <2>2. RestTyped'
      BY <1>0, <1>23
      DEF KillUninitialized, StartAt, KillProcessOf, RestTyped, StartPc, ProcPc,
          Exiting
    <2>3. RequestsTyped' /\ StopsKnown'
      BY <1>0, <1>23
      DEF KillUninitialized, StartAt, KillProcessOf, RequestsTyped, StopsKnown
    <2> QED
      BY <2>1, <2>2, <2>3
      DEF WorkersTypeOK, RequestsTyped, StopsKnown, HandlesTyped, RestTyped
  <1>24. ASSUME NEW h \in Requests, NEW k \in Tries, StartFails(h, k) PROVE WorkersTypeOK'
    <2>1. HandlesTyped'
      BY <1>0, <1>24 DEF StartFails, SetStatus, StartAt, HandlesTyped, WorkerStatus
    <2>2. RestTyped'
      BY <1>0, <1>24 DEF StartFails, SetStatus, StartAt, RestTyped, StartPc
    <2>3. RequestsTyped' /\ StopsKnown'
      BY <1>0, <1>24
      DEF StartFails, SetStatus, StartAt, RequestsTyped, StopsKnown
    <2> QED
      BY <2>1, <2>2, <2>3
      DEF WorkersTypeOK, RequestsTyped, StopsKnown, HandlesTyped, RestTyped
  <1>25. ASSUME NEW h \in Requests, NEW k \in Tries, StartSucceeds(h, k) PROVE WorkersTypeOK'
    <2>1. HandlesTyped'
      BY <1>0, <1>25 DEF StartSucceeds, StartAt, HandlesTyped, WorkerStatus
    <2>2. RestTyped'
      BY <1>0, <1>25 DEF StartSucceeds, StartAt, RestTyped, StartPc
    <2>3. RequestsTyped' /\ StopsKnown'
      BY <1>0, <1>25 DEF StartSucceeds, StartAt, RequestsTyped, StopsKnown
    <2> QED
      BY <2>1, <2>2, <2>3
      DEF WorkersTypeOK, RequestsTyped, StopsKnown, HandlesTyped, RestTyped
  <1>26. ASSUME NEW h \in Requests, NEW k \in Tries, ProcessEnds(h, k) PROVE WorkersTypeOK'
    <2>1. HandlesTyped'
      BY <1>0, <1>26 DEF ProcessEnds, ProcAt, HandlesTyped
    <2>2. RestTyped'
      BY <1>0, <1>26 DEF ProcessEnds, ProcAt, RestTyped, ProcPc, Exiting
    <2>3. RequestsTyped' /\ StopsKnown'
      BY <1>0, <1>26 DEF ProcessEnds, ProcAt, RequestsTyped, StopsKnown
    <2> QED
      BY <2>1, <2>2, <2>3
      DEF WorkersTypeOK, RequestsTyped, StopsKnown, HandlesTyped, RestTyped
  <1>27. ASSUME NEW h \in Requests, NEW k \in Tries, ExitBegins(h, k) PROVE WorkersTypeOK'
    <2>1. HandlesTyped'
      BY <1>0, <1>27 DEF ExitBegins, ProcAt, HandlesTyped, WorkerStatus
    <2>2. RestTyped'
      BY <1>0, <1>27 DEF ExitBegins, ProcAt, RestTyped, ProcPc, Exiting
    <2>3. RequestsTyped' /\ StopsKnown'
      BY <1>0, <1>27 DEF ExitBegins, ProcAt, RequestsTyped, StopsKnown
    <2> QED
      BY <2>1, <2>2, <2>3
      DEF WorkersTypeOK, RequestsTyped, StopsKnown, HandlesTyped, RestTyped
  <1>28. ASSUME NEW h \in Requests, NEW k \in Tries, ExitStopped(h, k) PROVE WorkersTypeOK'
    <2>1. HandlesTyped'
      BY <1>0, <1>28 DEF ExitStopped, SetStatus, ProcAt, HandlesTyped, WorkerStatus
    <2>2. RestTyped'
      BY <1>0, <1>28
      DEF ExitStopped, SetStatus, ProcAt, RestTyped, ProcPc, Exiting
    <2>3. RequestsTyped' /\ StopsKnown'
      BY <1>0, <1>28
      DEF ExitStopped, SetStatus, ProcAt, RequestsTyped, StopsKnown
    <2> QED
      BY <2>1, <2>2, <2>3
      DEF WorkersTypeOK, RequestsTyped, StopsKnown, HandlesTyped, RestTyped
  <1>29. ASSUME NEW h \in Requests, NEW k \in Tries, CountCrash(h, k) PROVE WorkersTypeOK'
    <2>0. PICK c \in {1, handles[h].crashes + 1} :
            /\ handles' = [handles EXCEPT ![h].crashes = c]
            /\ ProcAt(h, k, IF MayRestart(c) THEN "retry" ELSE "giveup")
      BY <1>29 DEF CountCrash
    <2>a. c \in Nat
      BY <1>0, <2>0 DEF HandlesTyped
    <2>1. HandlesTyped'
      BY <1>0, <2>0, <2>a DEF HandlesTyped
    <2>2. RestTyped'
      BY <1>0, <1>29
      DEF CountCrash, ProcAt, MayRestart, RestTyped, ProcPc, Exiting
    <2>3. RequestsTyped' /\ StopsKnown'
      BY <1>0, <1>29
      DEF CountCrash, ProcAt, MayRestart, RequestsTyped, StopsKnown
    <2> QED
      BY <2>1, <2>2, <2>3
      DEF WorkersTypeOK, RequestsTyped, StopsKnown, HandlesTyped, RestTyped
  <1>30. ASSUME NEW h \in Requests, NEW k \in Tries, MarkCrashed(h, k) PROVE WorkersTypeOK'
    <2>1. HandlesTyped'
      BY <1>0, <1>30 DEF MarkCrashed, SetStatus, ProcAt, HandlesTyped, WorkerStatus
    <2>2. RestTyped'
      BY <1>0, <1>30
      DEF MarkCrashed, SetStatus, ProcAt, RestTyped, ProcPc, Exiting
    <2>3. RequestsTyped' /\ StopsKnown'
      BY <1>0, <1>30
      DEF MarkCrashed, SetStatus, ProcAt, RequestsTyped, StopsKnown
    <2> QED
      BY <2>1, <2>2, <2>3
      DEF WorkersTypeOK, RequestsTyped, StopsKnown, HandlesTyped, RestTyped
  <1>31. ASSUME NEW h \in Requests, NEW k \in Tries, MarkBackoff(h, k) PROVE WorkersTypeOK'
    <2>1. HandlesTyped'
      BY <1>0, <1>31 DEF MarkBackoff, SetStatus, ProcAt, HandlesTyped, WorkerStatus
    <2>2. RestTyped'
      BY <1>0, <1>31
      DEF MarkBackoff, SetStatus, ProcAt, RestTyped, ProcPc, Exiting
    <2>3. RequestsTyped' /\ StopsKnown'
      BY <1>0, <1>31
      DEF MarkBackoff, SetStatus, ProcAt, RequestsTyped, StopsKnown
    <2> QED
      BY <2>1, <2>2, <2>3
      DEF WorkersTypeOK, RequestsTyped, StopsKnown, HandlesTyped, RestTyped
  <1>32. ASSUME NEW h \in Requests, NEW k \in Tries, ArmTimer(h, k) PROVE WorkersTypeOK'
    <2>1. HandlesTyped'
      BY <1>0, <1>32 DEF ArmTimer, ProcAt, HandlesTyped, WorkerStatus
    <2>2. RestTyped'
      BY <1>0, <1>32 DEF ArmTimer, ProcAt, RestTyped, ProcPc, Exiting
    <2>3. RequestsTyped' /\ StopsKnown'
      BY <1>0, <1>32 DEF ArmTimer, ProcAt, RequestsTyped, StopsKnown
    <2> QED
      BY <2>1, <2>2, <2>3
      DEF WorkersTypeOK, RequestsTyped, StopsKnown, HandlesTyped, RestTyped
  <1>33. ASSUME NEW h \in Requests, NEW k \in Tries, TimerFires(h, k) PROVE WorkersTypeOK'
    <2>1. HandlesTyped'
      BY <1>0, <1>33 DEF TimerFires, StartAt, HandlesTyped, WorkerStatus
    <2>2. RestTyped'
      <3>1. start' \in [Requests -> [Tries -> StartPc]]
        <4>1. CASE UNCHANGED start
          BY <1>0, <4>1 DEF RestTyped
        <4>2. CASE StartAt(h, k, "begin")
          BY <1>0, <4>2 DEF RestTyped, StartAt, StartPc
        <4> QED
          BY <1>33, <4>1, <4>2 DEF TimerFires
      <3>2. fired' \in 0..MaxRestarts
        BY <1>0, <1>33, WorkerAssumption DEF TimerFires, RestTyped
      <3> QED
        BY <1>0, <1>33, <3>1, <3>2 DEF TimerFires, RestTyped
    <2>3. RequestsTyped' /\ StopsKnown'
      BY <1>0, <1>33 DEF TimerFires, StartAt, RequestsTyped, StopsKnown
    <2> QED
      BY <2>1, <2>2, <2>3
      DEF WorkersTypeOK, RequestsTyped, StopsKnown, HandlesTyped, RestTyped
  <1>34. ASSUME NEW h \in Requests, NEW k \in Tries, Publish(h, k) PROVE WorkersTypeOK'
    <2>1. HandlesTyped'
      BY <1>0, <1>34 DEF Publish, StartAt, HandlesTyped, WorkerStatus
    <2>2. RestTyped'
      BY <1>0, <1>34 DEF Publish, StartAt, RestTyped, StartPc
    <2>3. RequestsTyped' /\ StopsKnown'
      BY <1>0, <1>34 DEF Publish, StartAt, RequestsTyped, StopsKnown
    <2> QED
      BY <2>1, <2>2, <2>3
      DEF WorkersTypeOK, RequestsTyped, StopsKnown, HandlesTyped, RestTyped
  <1>35. CASE UNCHANGED workersVars
    BY <1>35 DEF workersVars, WorkersTypeOK
  <1> QED
    BY <1>1, <1>2, <1>3, <1>4, <1>5, <1>6, <1>7, <1>8, <1>9, <1>10, <1>11,
       <1>12, <1>13, <1>14, <1>15, <1>16, <1>17, <1>18, <1>19, <1>20, <1>21, <1>22,
       <1>23, <1>24, <1>25, <1>26, <1>27, <1>28, <1>29, <1>30, <1>31, <1>32,
       <1>33, <1>34, <1>35
    DEF WorkersNext, ReqStep, AttemptStep, ExitStep

LEMMA LifeStep == IInv /\ [WorkersNext]_workersVars => Fresh' /\ OneLife' /\ Known'
  <1> SUFFICES ASSUME IInv, [WorkersNext]_workersVars PROVE Fresh' /\ OneLife' /\ Known'
    OBVIOUS
  <1>0. /\ RequestsTyped /\ StopsKnown /\ HandlesTyped /\ RestTyped
        /\ Fresh /\ OneLife /\ Known
    BY DEF IInv, WorkersTypeOK, RequestsTyped, StopsKnown, HandlesTyped, RestTyped
  <1>a. 0 \in Tries
    BY WorkerAssumption DEF Tries
  <1> DEFINE Quiet(r) ==
        \/ Begin(r) \/ TakeLock(r) \/ WaitForStart(r) \/ Waited(r)
        \/ StartRefused(r) \/ CheckExisting(r) \/ StartReturns(r)
        \/ StopLookup(r) \/ ReadStatus(r) \/ Interrupt(r) \/ Remove(r)
  <1>1. ASSUME NEW r \in Requests, Quiet(r) PROVE Fresh' /\ OneLife' /\ Known'
    <2>1. UNCHANGED <<handles, start, processes>>
      BY <1>1
      DEF Begin, TakeLock, WaitForStart, Waited, StartRefused, Return,
          CheckExisting, StartReturns, StopLookup, ReadStatus, Interrupt,
          Remove
    <2>2. ASSUME NEW h \in Requests, req'[h].pc \notin {"starting", "done"}
          PROVE  req[h].pc \notin {"starting", "done"}
      BY <1>0, <1>1, <2>2
      DEF RequestsTyped, Begin, ReqAt, TakeLock, WaitForStart, Waited,
          StartRefused, Return, CheckExisting, Replaceable, StartReturns,
          StopLookup, Stopped, ReadStatus, Interrupt, Remove
    <2> QED
      BY <1>0, <2>1, <2>2 DEF Fresh, OneLife, Known, Coming, Living
  <1>2. ASSUME NEW r \in Requests, Register(r) PROVE Fresh' /\ OneLife' /\ Known'
    <2>1. Fresh'
      BY <1>0, <1>a, <1>2
      DEF Register, ReqAt, StartAt, Fresh, RestTyped, RequestsTyped
    <2>2. OneLife'
      BY <1>0, <1>a, <1>2
      DEF Register, ReqAt, StartAt, OneLife, RestTyped, Coming, Fresh,
          RequestsTyped, Living, Exiting
    <2>3. Known'
      BY <1>0, <1>a, <1>2
      DEF Register, ReqAt, StartAt, Known, Fresh, RestTyped, RequestsTyped
    <2> QED
      BY <2>1, <2>2, <2>3
  <1>3. ASSUME NEW r \in Requests, CancelPendingRestart(r) PROVE Fresh' /\ OneLife' /\ Known'
    <2>1. Fresh'
      BY <1>0, <1>3
      DEF CancelPendingRestart, ReqAt, Fresh, HandlesTyped, StopsKnown,
          Stopping, RequestsTyped
    <2>2. OneLife'
      BY <1>0, <1>3
      DEF CancelPendingRestart, ReqAt, OneLife, HandlesTyped, StopsKnown,
          Stopping
    <2>3. Known'
      BY <1>0, <1>3
      DEF CancelPendingRestart, ReqAt, Known, HandlesTyped, StopsKnown, Stopping
    <2> QED
      BY <2>1, <2>2, <2>3
  <1>4. ASSUME NEW r \in Requests, MarkStopping(r) PROVE Fresh' /\ OneLife' /\ Known'
    <2>1. Fresh'
      BY <1>0, <1>4
      DEF MarkStopping, ReqAt, Fresh, HandlesTyped, StopsKnown, Stopping,
          RequestsTyped
    <2>2. OneLife'
      BY <1>0, <1>4
      DEF MarkStopping, ReqAt, OneLife, HandlesTyped, StopsKnown, Stopping
    <2>3. Known'
      BY <1>0, <1>4
      DEF MarkStopping, ReqAt, Known, HandlesTyped, StopsKnown, Stopping
    <2> QED
      BY <2>1, <2>2, <2>3
  <1>5. ASSUME NEW r \in Requests, StopUnborn(r) PROVE Fresh' /\ OneLife' /\ Known'
    <2>1. Fresh'
      BY <1>0, <1>5
      DEF StopUnborn, ReqAt, SetStatus, Fresh, HandlesTyped, StopsKnown,
          Stopping, RequestsTyped
    <2>2. OneLife'
      BY <1>0, <1>5
      DEF StopUnborn, ReqAt, SetStatus, OneLife, HandlesTyped, StopsKnown,
          Stopping
    <2>3. Known'
      BY <1>0, <1>5
      DEF StopUnborn, ReqAt, SetStatus, Known, HandlesTyped, StopsKnown,
          Stopping
    <2> QED
      BY <2>1, <2>2, <2>3
  <1>6. ASSUME NEW r \in Requests, Kill(r) PROVE Fresh' /\ OneLife' /\ Known'
    <2>1. Fresh'
      BY <1>0, <1>6
      DEF Kill, ReqAt, KillProcessOf, Fresh, RestTyped, StopsKnown, Stopping,
          RequestsTyped
    <2>2. OneLife'
      BY <1>0, <1>6
      DEF Kill, ReqAt, KillProcessOf, OneLife, RestTyped, StopsKnown, Stopping,
          Living, Exiting
    <2>3. Known'
      BY <1>0, <1>6
      DEF Kill, ReqAt, KillProcessOf, Known, RestTyped, StopsKnown, Stopping
    <2> QED
      BY <2>1, <2>2, <2>3
  <1>7. ASSUME NEW h \in Requests, NEW k \in Tries, StartBegins(h, k)
       PROVE  Fresh' /\ OneLife' /\ Known'
    <2>1. CASE UNCHANGED handles /\ StartAt(h, k, "failed")
      <3>1. Fresh'
        BY <1>0, <1>7, <2>1 DEF StartBegins, StartAt, Fresh, RestTyped
      <3>2. OneLife'
        BY <1>0, <1>7, <2>1
        DEF StartBegins, StartAt, OneLife, RestTyped, Coming
      <3>3. Known'
        BY <1>0, <1>7, <2>1 DEF StartBegins, StartAt, Known, RestTyped
      <3> QED
        BY <3>1, <3>2, <3>3
    <2>2. CASE /\ handles' = [handles EXCEPT ![h].status = "starting",
                                            ![h].intentional = FALSE]
               /\ StartAt(h, k, "spawn")
      <3>1. Fresh'
        BY <1>0, <1>7, <2>2
        DEF StartBegins, StartAt, Fresh, HandlesTyped, RestTyped
      <3>2. OneLife'
        BY <1>0, <1>7, <2>2
        DEF StartBegins, StartAt, OneLife, HandlesTyped, RestTyped, Coming
      <3>3. Known'
        BY <1>0, <1>7, <2>2
        DEF StartBegins, StartAt, Known, HandlesTyped, RestTyped
      <3> QED
        BY <3>1, <3>2, <3>3
    <2> QED
      BY <1>7, <2>1, <2>2 DEF StartBegins
  <1>8. ASSUME NEW h \in Requests, NEW k \in Tries, Spawn(h, k)
       PROVE  Fresh' /\ OneLife' /\ Known'
    <2>1. Fresh'
      BY <1>0, <1>8 DEF Spawn, StartAt, ProcAt, Fresh, HandlesTyped, RestTyped
    <2>2. OneLife'
      BY <1>0, <1>8
      DEF Spawn, StartAt, ProcAt, OneLife, HandlesTyped, RestTyped, Coming,
          Living, Exiting
    <2>3. Known'
      BY <1>0, <1>8
      DEF Spawn, StartAt, ProcAt, Known, HandlesTyped, RestTyped, OneLife,
          Coming, Living, Exiting
    <2> QED
      BY <2>1, <2>2, <2>3
  <1>9. ASSUME NEW h \in Requests, NEW k \in Tries, SpawnFails(h, k)
       PROVE  Fresh' /\ OneLife' /\ Known'
    <2>1. Fresh'
      BY <1>0, <1>9
      DEF SpawnFails, SetStatus, StartAt, Fresh, HandlesTyped, RestTyped
    <2>2. OneLife'
      BY <1>0, <1>9
      DEF SpawnFails, SetStatus, StartAt, OneLife, HandlesTyped, RestTyped,
          Coming
    <2>3. Known'
      BY <1>0, <1>9
      DEF SpawnFails, SetStatus, StartAt, Known, HandlesTyped, RestTyped
    <2> QED
      BY <2>1, <2>2, <2>3
  <1>10. ASSUME NEW h \in Requests, NEW k \in Tries, CallInitialize(h, k)
       PROVE  Fresh' /\ OneLife' /\ Known'
    <2>1. Fresh'
      BY <1>0, <1>10 DEF CallInitialize, StartAt, Fresh, RestTyped
    <2>2. OneLife'
      BY <1>0, <1>10
      DEF CallInitialize, StartAt, OneLife, RestTyped, Coming
    <2>3. Known'
      BY <1>0, <1>10 DEF CallInitialize, StartAt, Known, RestTyped
    <2> QED
      BY <2>1, <2>2, <2>3
  <1>11. ASSUME NEW h \in Requests, NEW k \in Tries, InitializeAnswered(h, k)
       PROVE  Fresh' /\ OneLife' /\ Known'
    <2>1. Fresh'
      BY <1>0, <1>11 DEF InitializeAnswered, StartAt, Fresh, RestTyped
    <2>2. OneLife'
      BY <1>0, <1>11
      DEF InitializeAnswered, StartAt, OneLife, RestTyped, Coming
    <2>3. Known'
      BY <1>0, <1>11 DEF InitializeAnswered, StartAt, Known, RestTyped
    <2> QED
      BY <2>1, <2>2, <2>3
  <1>12. ASSUME NEW h \in Requests, NEW k \in Tries, InitializeRefused(h, k)
       PROVE  Fresh' /\ OneLife' /\ Known'
    <2>1. Fresh'
      BY <1>0, <1>12 DEF InitializeRefused, StartAt, Fresh, RestTyped
    <2>2. OneLife'
      BY <1>0, <1>12 DEF InitializeRefused, StartAt, OneLife, RestTyped, Coming
    <2>3. Known'
      BY <1>0, <1>12 DEF InitializeRefused, StartAt, Known, RestTyped
    <2> QED
      BY <2>1, <2>2, <2>3
  <1>13. ASSUME NEW h \in Requests, NEW k \in Tries, KillUninitialized(h, k)
       PROVE  Fresh' /\ OneLife' /\ Known'
    <2>1. Fresh'
      BY <1>0, <1>13
      DEF KillUninitialized, StartAt, KillProcessOf, Fresh, RestTyped
    <2>2. OneLife'
      BY <1>0, <1>13
      DEF KillUninitialized, StartAt, KillProcessOf, OneLife, RestTyped, Coming,
          Living, Exiting
    <2>3. Known'
      BY <1>0, <1>13
      DEF KillUninitialized, StartAt, KillProcessOf, Known, RestTyped
    <2> QED
      BY <2>1, <2>2, <2>3
  <1>14. ASSUME NEW h \in Requests, NEW k \in Tries, StartFails(h, k)
       PROVE  Fresh' /\ OneLife' /\ Known'
    <2>1. Fresh'
      BY <1>0, <1>14
      DEF StartFails, SetStatus, StartAt, Fresh, HandlesTyped, RestTyped
    <2>2. OneLife'
      BY <1>0, <1>14
      DEF StartFails, SetStatus, StartAt, OneLife, HandlesTyped, RestTyped,
          Coming
    <2>3. Known'
      BY <1>0, <1>14
      DEF StartFails, SetStatus, StartAt, Known, HandlesTyped, RestTyped
    <2> QED
      BY <2>1, <2>2, <2>3
  <1>15. ASSUME NEW h \in Requests, NEW k \in Tries, StartSucceeds(h, k)
       PROVE  Fresh' /\ OneLife' /\ Known'
    <2>1. Fresh'
      BY <1>0, <1>15 DEF StartSucceeds, StartAt, Fresh, HandlesTyped, RestTyped
    <2>2. OneLife'
      BY <1>0, <1>15
      DEF StartSucceeds, StartAt, OneLife, HandlesTyped, RestTyped, Coming
    <2>3. Known'
      BY <1>0, <1>15 DEF StartSucceeds, StartAt, Known, HandlesTyped, RestTyped
    <2> QED
      BY <2>1, <2>2, <2>3
  <1>16. ASSUME NEW h \in Requests, NEW k \in Tries, ProcessEnds(h, k)
       PROVE  Fresh' /\ OneLife' /\ Known'
    <2>1. Fresh'
      BY <1>0, <1>16 DEF ProcessEnds, ProcAt, Fresh, RestTyped
    <2>2. OneLife'
      BY <1>0, <1>16
      DEF ProcessEnds, ProcAt, OneLife, RestTyped, Living, Exiting
    <2>3. Known'
      BY <1>0, <1>16 DEF ProcessEnds, ProcAt, Known, RestTyped
    <2> QED
      BY <2>1, <2>2, <2>3
  <1>17. ASSUME NEW h \in Requests, NEW k \in Tries, ExitBegins(h, k)
       PROVE  Fresh' /\ OneLife' /\ Known'
    <2>1. Fresh'
      BY <1>0, <1>17 DEF ExitBegins, ProcAt, Fresh, HandlesTyped, RestTyped
    <2>2. OneLife'
      BY <1>0, <1>17
      DEF ExitBegins, ProcAt, OneLife, HandlesTyped, RestTyped, Living, Exiting
    <2>3. Known'
      BY <1>0, <1>17
      DEF ExitBegins, ProcAt, Known, HandlesTyped, RestTyped, OneLife, Coming,
          Living, Exiting
    <2> QED
      BY <2>1, <2>2, <2>3
  <1>18. ASSUME NEW h \in Requests, NEW k \in Tries, ExitStopped(h, k)
       PROVE  Fresh' /\ OneLife' /\ Known'
    <2>1. Fresh'
      BY <1>0, <1>18
      DEF ExitStopped, SetStatus, ProcAt, Fresh, HandlesTyped, RestTyped
    <2>2. OneLife'
      BY <1>0, <1>18
      DEF ExitStopped, SetStatus, ProcAt, OneLife, HandlesTyped, RestTyped,
          Living, Exiting
    <2>3. Known'
      BY <1>0, <1>18
      DEF ExitStopped, SetStatus, ProcAt, Known, HandlesTyped, RestTyped
    <2> QED
      BY <2>1, <2>2, <2>3
  <1>19. ASSUME NEW h \in Requests, NEW k \in Tries, CountCrash(h, k)
       PROVE  Fresh' /\ OneLife' /\ Known'
    <2>1. Fresh'
      BY <1>0, <1>19
      DEF CountCrash, ProcAt, MayRestart, Fresh, HandlesTyped, RestTyped
    <2>2. OneLife'
      BY <1>0, <1>19
      DEF CountCrash, ProcAt, MayRestart, OneLife, HandlesTyped, RestTyped,
          Living, Exiting
    <2>3. Known'
      BY <1>0, <1>19
      DEF CountCrash, ProcAt, MayRestart, Known, HandlesTyped, RestTyped
    <2> QED
      BY <2>1, <2>2, <2>3
  <1>20. ASSUME NEW h \in Requests, NEW k \in Tries, MarkCrashed(h, k)
       PROVE  Fresh' /\ OneLife' /\ Known'
    <2>1. Fresh'
      BY <1>0, <1>20
      DEF MarkCrashed, SetStatus, ProcAt, Fresh, HandlesTyped, RestTyped
    <2>2. OneLife'
      BY <1>0, <1>20
      DEF MarkCrashed, SetStatus, ProcAt, OneLife, HandlesTyped, RestTyped,
          Living, Exiting
    <2>3. Known'
      BY <1>0, <1>20
      DEF MarkCrashed, SetStatus, ProcAt, Known, HandlesTyped, RestTyped
    <2> QED
      BY <2>1, <2>2, <2>3
  <1>21. ASSUME NEW h \in Requests, NEW k \in Tries, MarkBackoff(h, k)
       PROVE  Fresh' /\ OneLife' /\ Known'
    <2>1. Fresh'
      BY <1>0, <1>21
      DEF MarkBackoff, SetStatus, ProcAt, Fresh, HandlesTyped, RestTyped
    <2>2. OneLife'
      BY <1>0, <1>21
      DEF MarkBackoff, SetStatus, ProcAt, OneLife, HandlesTyped, RestTyped,
          Living, Exiting
    <2>3. Known'
      BY <1>0, <1>21
      DEF MarkBackoff, SetStatus, ProcAt, Known, HandlesTyped, RestTyped
    <2> QED
      BY <2>1, <2>2, <2>3
  <1>22. ASSUME NEW h \in Requests, NEW k \in Tries, ArmTimer(h, k)
       PROVE  Fresh' /\ OneLife' /\ Known'
    <2>1. Fresh'
      BY <1>0, <1>22 DEF ArmTimer, ProcAt, Fresh, HandlesTyped, RestTyped
    <2>2. OneLife'
      BY <1>0, <1>22
      DEF ArmTimer, ProcAt, OneLife, HandlesTyped, RestTyped, Living, Exiting
    <2>3. Known'
      BY <1>0, <1>22 DEF ArmTimer, ProcAt, Known, HandlesTyped, RestTyped
    <2> QED
      BY <2>1, <2>2, <2>3
  <1>23. ASSUME NEW h \in Requests, NEW k \in Tries, TimerFires(h, k)
       PROVE  Fresh' /\ OneLife' /\ Known'
    <2>1. Fresh'
      BY <1>0, <1>a, <1>23
      DEF TimerFires, StartAt, Fresh, HandlesTyped, RestTyped
    <2>2. OneLife'
      BY <1>0, <1>a, <1>23
      DEF TimerFires, StartAt, OneLife, HandlesTyped, RestTyped, Coming
    <2>3. Known'
      BY <1>0, <1>23 DEF TimerFires, StartAt, Known, HandlesTyped, RestTyped
    <2> QED
      BY <2>1, <2>2, <2>3
  <1>24. ASSUME NEW h \in Requests, NEW k \in Tries, Publish(h, k)
       PROVE  Fresh' /\ OneLife' /\ Known'
    <2>1. Fresh'
      BY <1>0, <1>24 DEF Publish, StartAt, Fresh, HandlesTyped, RestTyped
    <2>2. OneLife'
      BY <1>0, <1>24
      DEF Publish, StartAt, OneLife, HandlesTyped, RestTyped, Coming
    <2>3. Known'
      BY <1>0, <1>24
      DEF Publish, StartAt, Known, HandlesTyped, RestTyped, OneLife, Living, Exiting
    <2> QED
      BY <2>1, <2>2, <2>3
  <1>25. CASE UNCHANGED workersVars
    BY <1>0, <1>25 DEF workersVars, Fresh, OneLife, Known, Coming, Living
  <1> QED
    BY <1>1, <1>2, <1>3, <1>4, <1>5, <1>6, <1>7, <1>8, <1>9, <1>10, <1>11, <1>12,
       <1>13, <1>14, <1>15, <1>16, <1>17, <1>18, <1>19, <1>20, <1>21, <1>22,
       <1>23, <1>24, <1>25
    DEF WorkersNext, ReqStep, AttemptStep, ExitStep

\* The variables of the worker manager keep their types, for any requests and
\* any bounds, and every request past its lookup has a handle to stop
\* (plugin_worker_manager.go:947-955).
THEOREM WorkersTyped == WorkersSpec => []WorkersTypeOK
  <1>1. WorkersInit => WorkersTypeOK
    BY InitIInv DEF IInv
  <1> QED
    BY <1>1, TypeStep, PTL DEF WorkersSpec

\* Once cmd is set, a handle never loses sight of its process, however late a
\* failed start, a stop or the end of an earlier process comes, and a handle runs
\* one process: what stop kills is what runs, except between the start of a
\* process and the assignment of cmd (plugin_worker_manager.go:537-550, :629, :782).
THEOREM ProcessesKnown == WorkersSpec => []ProcessIsKnown
  <1>1. IInv /\ [WorkersNext]_workersVars => IInv'
    BY TypeStep, LifeStep DEF IInv
  <1>2. IInv => ProcessIsKnown
    BY DEF IInv, Known, OneLife, Coming, Living, Exiting, ProcessIsKnown
  <1> QED
    BY InitIInv, <1>1, <1>2, PTL DEF WorkersSpec
=============================================================================
