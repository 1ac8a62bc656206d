------------------------------ MODULE RunQueue ------------------------------
(***************************************************************************)
(* What the heartbeat queue of the Go backend promises, whatever the number *)
(* of goroutines that work on it: a run enters the queue of its agent at    *)
(* most once and leaves it at most once, taken by exactly one claim or      *)
(* dropped by a cancellation.  A run is taken only after a look that found  *)
(* it the oldest of its agent: an older one that waits by then has become   *)
(* visible since that look.                                                 *)
(*                                                                         *)
(* Runs are numbered in the order of heartbeat_runs.created_at, so "older"  *)
(* is "<".  HeartbeatRuns is shown to implement this specification.         *)
(***************************************************************************)
EXTENDS Naturals

CONSTANTS Runs,    \* the identifiers of runs: naturals, in creation order
          Agents

VARIABLES owner,    \* owner[r]: the agents whose run r is, {} before creation
          pending,  \* the runs created by a transaction that has not committed
          waiting,  \* the runs with status "queued"
          found,    \* the waiting runs that a look has found to be the oldest
          taken     \* the runs some goroutine has claimed

queueVars == <<owner, pending, waiting, found, taken>>

Created == {r \in Runs : owner[r] # {}}

QueueInit ==
    /\ owner = [r \in Runs |-> {}]
    /\ pending = {} /\ waiting = {} /\ found = {} /\ taken = {}

\* A wakeup creates the run r of agent a, younger than every existing run ...
Create(a, r) ==
    /\ \A s \in Created : s < r
    /\ owner' = [owner EXCEPT ![r] = {a}]
    /\ pending' = pending \cup {r}
    /\ UNCHANGED <<waiting, found, taken>>

\* ... and its commit, sooner or later than those of others, lets it wait.
Enter(r) ==
    /\ r \in pending
    /\ pending' = pending \ {r}
    /\ waiting' = waiting \cup {r}
    /\ UNCHANGED <<owner, found, taken>>

\* A look finds the oldest waiting run of an agent.
Look(r) ==
    /\ r \in waiting
    /\ \A s \in waiting : s < r => owner[s] # owner[r]
    /\ found' = found \cup {r}
    /\ UNCHANGED <<owner, pending, waiting, taken>>

\* A claim takes a run that a look has found, and nobody has taken or dropped.
Take(r) ==
    /\ r \in found
    /\ waiting' = waiting \ {r}
    /\ found' = found \ {r}
    /\ taken' = taken \cup {r}
    /\ UNCHANGED <<owner, pending>>

\* A cancellation removes waiting runs; they are never taken afterwards.
Drop(S) ==
    /\ S \subseteq waiting
    /\ waiting' = waiting \ S
    /\ found' = found \ S
    /\ UNCHANGED <<owner, pending, taken>>

\* A crash of the server forgets what was found.
Forget ==
    /\ found' = {}
    /\ UNCHANGED <<owner, pending, waiting, taken>>

QueueNext ==
    \/ \E r \in Runs \ Created, a \in Agents : Create(a, r)
    \/ \E r \in Runs : Enter(r) \/ Look(r) \/ Take(r)
    \/ \E S \in SUBSET waiting : Drop(S)
    \/ Forget

QueueSpec == QueueInit /\ [][QueueNext]_queueVars
=============================================================================
