-------------------------- MODULE IssueRunsProofs --------------------------
(***************************************************************************)
(* Proofs for IssueRuns.                                                    *)
(***************************************************************************)
EXTENDS IssueRuns, FiniteSetTheorems, SequenceTheorems, WellFoundedInduction, TLAPS

-----------------------------------------------------------------------------
Places ==
    {"start", "claim", "stamp", "begin", "adapter", "finished", "cancelled", "ended", "cancel",
     "cancelRelease", "pause", "pauseRelease", "budget", "reap", "reapRetry", "reapRelease"}
Homes == {"routes", "scheduler"}
FrameRecords == [at : Places, home : Homes, run : Runs \cup {None}, agent : Agents \cup {NoAgent},
                 todo : SUBSET Runs, got : SUBSET Runs]

\* The whole type, with the frames of every thread.
Typed == TypeOK /\ stack \in [Threads -> Seq(FrameRecords)]

\* A row that was inserted, one that was claimed, and one that is over.
Made(r)  == run[r].status # "none"
Begun(r) == run[r].status \notin {"none", "queued"}
Over(r)  == run[r].status \in {"finished", "cancelled"}

\* Nothing executes the run, and its adapter was never called.
Quiet(r) == stack[Executor(r)] = <<>> /\ run[r].child = "none"

\* A frame inside the start lock of its agent, and the runs it has claimed and
\* has not started.
Claiming(f)   == f.at \in {"claim", "stamp"}
Claimed(f, r) == r \in f.got \/ (f.at = "stamp" /\ f.run = r)

\* What the function of a frame knows at its place.
FrameOK(t, f) ==
    /\ f.at \in {"start", "claim", "stamp"} => f.agent \in Agents
    /\ Claiming(f) => startLock[f.agent] = t /\ \A r \in f.todo : run[r].agent = f.agent
    /\ \A r \in f.todo : Made(r)
    /\ f.at = "stamp" => f.run \in Runs
    /\ \A r \in Runs : Claimed(f, r) => Claiming(f) /\ Begun(r) /\ Quiet(r) /\ run[r].agent = f.agent
    /\ f.at \in {"begin", "adapter", "finished", "cancelled", "ended"} => f.run \in Runs /\ t = Executor(f.run)
    /\ f.at \in {"cancel", "cancelRelease", "pauseRelease", "reapRetry", "reapRelease"} => f.run \in Runs /\ Made(f.run)
    /\ f.at \in {"cancel", "cancelRelease"} => f.agent \in Agents
    /\ f.at \in {"reap", "reapRetry", "reapRelease"} => t \in {Boot, Timer} /\ \A r \in f.todo : Begun(r)
    /\ f.at = "reapRetry" => run[f.run].losses = 0
FramesOK == \A t \in Threads : \A k \in DOMAIN stack[t] : FrameOK(t, stack[t][k])

\* No two frames of a thread are inside the start lock of the same agent.
OneClaimer ==
    \A t \in Threads : \A j, k \in DOMAIN stack[t] :
        Claiming(stack[t][j]) /\ Claiming(stack[t][k]) /\ stack[t][j].agent = stack[t][k].agent => j = k

\* The rows are numbered as they are inserted.
Numbered == \E n \in 0..MaxRuns : \A r \in Runs : Made(r) <=> r <= n

RowsOK ==
    /\ \A r \in Runs : Made(r) => run[r].agent \in Agents /\ run[r].issue \in Issues
    /\ \A r \in Runs : ~Begun(r) => Quiet(r)
    /\ \A w \in Wakes : wake[w].status = "deferred" => wake[w].agent \in Agents
    /\ \A w \in Wakes : wake[w].status = "none" => stack[Waker(w)] = <<>>

IInv == Typed /\ FramesOK /\ OneClaimer /\ Numbered /\ RowsOK

\* Until the server dies: a child lives as long as its adapter works, and who
\* is about to release the issue of a run has found or made an end of the run.
Uncrashed == events["crash"] = 0
Releasing == {"ended", "cancelRelease", "pauseRelease", "reapRetry", "reapRelease"}
ChildrenOK == \A r \in Runs : run[r].child = "alive" => At(Executor(r), "adapter")
EndsOK == \A t \in Threads : \A k \in DOMAIN stack[t] : stack[t][k].at \in Releasing => Over(stack[t][k].run)
EndInv == Uncrashed => ChildrenOK /\ EndsOK

\* What is running and what is about to run fits the limit of the agent.
Taken(f) == RunsOf(f.agent, "running") \cup f.todo
SlotsOK == \A t \in Threads : \A k \in DOMAIN stack[t] :
               Claiming(stack[t][k]) => Cardinality(Taken(stack[t][k])) <= MaxConcurrent
LimitInv == Uncrashed => WithinLimit /\ SlotsOK

\* Until something is stopped: nobody is stopping anything, and if no run holds
\* the lock of an issue for which wakeups wait, one is on its way to stamp it.
Stopping == {"cancel", "cancelRelease", "pause", "pauseRelease", "budget"}
NobodyStops ==
    /\ \A t \in Threads : \A k \in DOMAIN stack[t] : stack[t][k].at \notin Stopping
    /\ stack[Boot] = <<>>
    /\ ~blocked /\ \A a \in Agents : invokable[a]
Stamping(r) == \E t \in Threads : \E k \in DOMAIN stack[t] : stack[t][k].at = "stamp" /\ stack[t][k].run = r
OnItsWay(i) == \E r \in Runs : run[r].issue = i /\ (run[r].status = "queued" \/ (run[r].status = "running" /\ Stamping(r)))
WaitInv == Undisturbed => NobodyStops /\ \A i \in Issues : DeferredFor(i) # {} /\ lock[i] = None => OnItsWay(i)

-----------------------------------------------------------------------------
(* Constants, types, and the least member of a set of rows.                 *)

RunRecords ==
    [status : {"none", "queued", "running", "finished", "cancelled"},
     agent : Agents \cup {NoAgent}, issue : Issues \cup {None},
     why : {"none", "wake", "mention", "lost", "comment"},
     child : {"none", "alive", "dead"}, losses : 0..1]
WakeRecords ==
    [status : {"none", "coalesced", "merged", "deferred", "queued", "failed", "cancelled"},
     agent : Agents \cup {NoAgent}, issue : Issues \cup {None}]

\* What the constants' assumptions give.
LEMMA ConstantFacts ==
    /\ NoAgent \notin Agents /\ MaxRuns \in Nat \ {0} /\ MaxWakes \in Nat /\ MaxConcurrent \in Nat
    /\ None \notin Runs /\ None \notin Issues /\ Runs \subseteq Nat /\ Wakes \subseteq Nat
    /\ None \in Int
BY RunConstants DEF None, Runs, Wakes

\* The named threads exist.
LEMMA ThreadFacts ==
    /\ Boot \in Threads /\ Timer \in Threads /\ BudgetStopper \in Threads /\ NoThread \notin Threads
    /\ \A r \in Runs : Executor(r) \in Threads /\ Canceller(r) \in Threads
    /\ \A w \in Wakes : Waker(w) \in Threads
    /\ \A a \in Agents : Pauser(a) \in Threads
BY DEF Threads, Boot, Timer, BudgetStopper, NoThread, Executor, Canceller, Waker, Pauser

\* An execution is nobody else's thread.
LEMMA ExecutorFacts ==
    ASSUME NEW r \in Runs
    PROVE  /\ Executor(r) \notin {Boot, Timer, BudgetStopper}
           /\ \A q \in Runs : Executor(q) = Executor(r) => q = r
           /\ \A q \in Runs : Executor(r) # Canceller(q)
           /\ \A w \in Wakes : Executor(r) # Waker(w)
           /\ \A a \in Agents : Executor(r) # Pauser(a)
           /\ Executor(r)[2] = r
BY DEF Boot, Timer, BudgetStopper, Executor, Canceller, Waker, Pauser

\* A wakeup is nobody else's thread.
LEMMA WakerFacts ==
    ASSUME NEW w \in Wakes
    PROVE  /\ Waker(w) \notin {Boot, Timer, BudgetStopper}
           /\ \A v \in Wakes : Waker(v) = Waker(w) => v = w
           /\ \A q \in Runs : Waker(w) # Canceller(q)
           /\ \A a \in Agents : Waker(w) # Pauser(a)
BY DEF Boot, Timer, BudgetStopper, Executor, Canceller, Waker, Pauser

\* The type of each variable.
LEMMA TypeFacts ==
    ASSUME Typed
    PROVE  /\ invokable \in [Agents -> BOOLEAN] /\ blocked \in BOOLEAN
           /\ run \in [Runs -> RunRecords] /\ wake \in [Wakes -> WakeRecords]
           /\ lock \in [Issues -> Runs \cup {None}] /\ lockName \in [Issues -> Agents \cup {NoAgent}]
           /\ startLock \in [Agents -> Threads \cup {NoThread}] /\ events \in [Events -> Nat]
           /\ stack \in [Threads -> Seq(FrameRecords)]
BY DEF Typed, TypeOK, RunRecords, WakeRecords

\* A step that gives each variable its type again.
LEMMA TypedAgain ==
    ASSUME /\ invokable' \in [Agents -> BOOLEAN] /\ blocked' \in BOOLEAN
           /\ run' \in [Runs -> RunRecords] /\ wake' \in [Wakes -> WakeRecords]
           /\ lock' \in [Issues -> Runs \cup {None}] /\ lockName' \in [Issues -> Agents \cup {NoAgent}]
           /\ startLock' \in [Agents -> Threads \cup {NoThread}] /\ events' \in [Events -> Nat]
           /\ stack' \in [Threads -> Seq(FrameRecords)]
    PROVE  Typed'
BY DEF Typed, TypeOK, RunRecords, WakeRecords

\* A set of numbers that is not empty has a least one.
LEMMA MinIsMember ==
    ASSUME NEW S \in SUBSET Nat, S # {}
    PROVE  Min(S) \in S /\ \A x \in S : Min(S) <= x
<1> DEFINE Less == {ss \in Nat \X Nat : ss[1] < ss[2]}
<1>1. IsWellFoundedOn(Less, Nat)
  BY NatLessThanWellFounded DEF OpToRel
<1>2. PICK x \in S : \A y \in S : ~ (<<y, x>> \in Less)
  BY <1>1, WFMin, Zenon
<1>3. \A y \in S : x <= y
  <2> SUFFICES ASSUME NEW y \in S
               PROVE  x <= y
    OBVIOUS
  <2>1. x \in Nat /\ y \in Nat /\ ~ (y < x)
    BY <1>2
  <2> QED
    BY <2>1
<1> QED
  BY <1>3 DEF Min

\* The next of the runs a frame goes through.
LEMMA NextTodo ==
    ASSUME NEW f \in FrameRecords, f.todo # {}
    PROVE  Min(f.todo) \in f.todo /\ Min(f.todo) \in Runs
<1>1. f.todo \subseteq Runs /\ f.todo \subseteq Nat
  BY ConstantFacts DEF FrameRecords
<1> QED
  BY <1>1, MinIsMember
-----------------------------------------------------------------------------
(* The stacks: how a step replaces the frame on top of one of them.         *)

\* The frame on top of a stack that is not empty.
LEMMA TopFacts ==
    ASSUME Typed, NEW t \in Threads, stack[t] # <<>>
    PROVE  /\ Top(t) \in FrameRecords /\ 1 \in DOMAIN stack[t] /\ stack[t][1] = Top(t)
           /\ Len(stack[t]) \in Nat \ {0} /\ DOMAIN stack[t] = 1..Len(stack[t])
<1>1. stack[t] \in Seq(FrameRecords)
  BY TypeFacts
<1> QED
  BY <1>1 DEF Top

\* The function on top knows what its place says.
LEMMA TopOK ==
    ASSUME Typed, FramesOK, NEW t \in Threads, stack[t] # <<>>
    PROVE  FrameOK(t, Top(t))
BY TopFacts DEF FramesOK

\* Frames are frame records.
LEMMA FrameInStack ==
    ASSUME Typed, NEW t \in Threads, NEW k \in DOMAIN stack[t]
    PROVE  stack[t][k] \in FrameRecords
<1>1. stack[t] \in Seq(FrameRecords)
  BY TypeFacts
<1> QED
  BY <1>1

\* The frames s take the place of the top of t's stack, or of an empty stack.
Replaces(t, s) ==
    stack' = [stack EXCEPT ![t] = IF stack[t] = <<>> THEN s ELSE s \o Tail(stack[t])]

\* Frames puts its frames in the place of the top.
LEMMA FramesReplace ==
    ASSUME Typed, NEW t \in Threads, stack[t] # <<>>, NEW s, Frames(t, s)
    PROVE  Replaces(t, s)
BY TypeFacts DEF Frames, Replaces

\* Where each frame is, of the thread that moves and of the others.
LEMMA ReplaceFacts ==
    ASSUME Typed, NEW t \in Threads, NEW s \in Seq(FrameRecords), Replaces(t, s)
    PROVE  /\ stack' \in [Threads -> Seq(FrameRecords)]
           /\ \A u \in Threads \ {t} : stack'[u] = stack[u]
           /\ \A k \in DOMAIN stack'[t] :
                \/ k \in DOMAIN s /\ stack'[t][k] = s[k]
                \/ /\ k \notin DOMAIN s
                   /\ k - Len(s) + 1 \in DOMAIN stack[t] /\ k - Len(s) + 1 # 1
                   /\ stack'[t][k] = stack[t][k - Len(s) + 1]
           /\ \A j \in DOMAIN stack[t] : j # 1 =>
                j + Len(s) - 1 \in DOMAIN stack'[t] /\ stack'[t][j + Len(s) - 1] = stack[t][j]
           /\ \A k \in DOMAIN s : k \in DOMAIN stack'[t] /\ stack'[t][k] = s[k]
           /\ Len(s) \in Nat /\ DOMAIN s = 1..Len(s)
<1>1. stack \in [Threads -> Seq(FrameRecords)]
  BY TypeFacts
<1>2. stack[t] \in Seq(FrameRecords)
  BY <1>1
<1>3. Len(s) \in Nat /\ DOMAIN s = 1..Len(s)
  OBVIOUS
<1>4. \A u \in Threads \ {t} : stack'[u] = stack[u]
  BY <1>1 DEF Replaces
<1>5. CASE stack[t] = <<>>
  <2>1. stack' = [stack EXCEPT ![t] = s]
    BY <1>5 DEF Replaces
  <2>2. stack'[t] = s /\ stack' \in [Threads -> Seq(FrameRecords)]
    BY <1>1, <2>1
  <2>3. DOMAIN stack[t] = {}
    BY <1>5
  <2> QED
    BY <1>3, <1>4, <2>2, <2>3
<1>6. CASE stack[t] # <<>>
  <2> DEFINE q == Tail(stack[t])
  <2>1. /\ q \in Seq(FrameRecords) /\ Len(q) = Len(stack[t]) - 1 /\ Len(stack[t]) \in Nat \ {0}
        /\ \A k \in 1..Len(q) : q[k] = stack[t][k + 1]
    BY <1>2, <1>6
  <2>2. stack' = [stack EXCEPT ![t] = s \o q]
    BY <1>6 DEF Replaces
  <2>3. s \o q \in Seq(FrameRecords)
    BY <2>1
  <2>4. stack'[t] = s \o q /\ stack' \in [Threads -> Seq(FrameRecords)]
    BY <1>1, <2>2, <2>3
  <2>5. Len(s \o q) = Len(s) + Len(q) /\ DOMAIN (s \o q) = 1..(Len(s) + Len(q))
    BY <2>1
  <2>6. \A k \in 1..(Len(s) + Len(q)) : (s \o q)[k] = IF k <= Len(s) THEN s[k] ELSE q[k - Len(s)]
    BY <2>1
  <2>7. DOMAIN stack[t] = 1..Len(stack[t])
    BY <1>2
  <2> HIDE DEF q
  <2>8. \A k \in DOMAIN stack'[t] :
          \/ k \in DOMAIN s /\ stack'[t][k] = s[k]
          \/ /\ k \notin DOMAIN s
             /\ k - Len(s) + 1 \in DOMAIN stack[t] /\ k - Len(s) + 1 # 1
             /\ stack'[t][k] = stack[t][k - Len(s) + 1]
    <3> SUFFICES ASSUME NEW k \in 1..(Len(s) + Len(q)), k > Len(s)
                 PROVE  /\ k \notin DOMAIN s
                        /\ k - Len(s) + 1 \in DOMAIN stack[t] /\ k - Len(s) + 1 # 1
                        /\ (s \o q)[k] = stack[t][k - Len(s) + 1]
      BY <1>3, <2>4, <2>5, <2>6
    <3>1. k - Len(s) \in 1..Len(q)
      BY <1>3, <2>1
    <3>2. (s \o q)[k] = q[k - Len(s)]
      BY <1>3, <2>6
    <3> QED
      BY <1>3, <2>1, <2>7, <3>1, <3>2
  <2>9. \A j \in DOMAIN stack[t] : j # 1 =>
          j + Len(s) - 1 \in DOMAIN stack'[t] /\ stack'[t][j + Len(s) - 1] = stack[t][j]
    <3> SUFFICES ASSUME NEW j \in 1..Len(stack[t]), j # 1
                 PROVE  /\ j + Len(s) - 1 \in 1..(Len(s) + Len(q))
                        /\ (s \o q)[j + Len(s) - 1] = stack[t][j]
      BY <2>4, <2>5, <2>7
    <3> DEFINE k == j + Len(s) - 1
    <3>1. k \in 1..(Len(s) + Len(q)) /\ k > Len(s) /\ k - Len(s) = j - 1 /\ j - 1 \in 1..Len(q)
      BY <1>3, <2>1
    <3>2. (s \o q)[k] = q[j - 1]
      BY <1>3, <2>6, <3>1
    <3> QED
      BY <1>3, <2>1, <3>1, <3>2
  <2>10. \A k \in DOMAIN s : k \in DOMAIN stack'[t] /\ stack'[t][k] = s[k]
    BY <1>3, <2>1, <2>4, <2>5, <2>6
  <2> QED
    BY <1>3, <1>4, <2>4, <2>8, <2>9, <2>10
<1> QED
  BY <1>5, <1>6
-----------------------------------------------------------------------------
(* The rows: what no step takes back, and the ways a step changes them.     *)

RowAdvances(r) ==
    /\ Made(r) => /\ run'[r].status # "none"
                  /\ run'[r].agent = run[r].agent /\ run'[r].issue = run[r].issue
                  /\ run'[r].losses = run[r].losses
    /\ Begun(r) => run'[r].status \notin {"none", "queued"}
    /\ Quiet(r) => run'[r].child = "none"

MadeOK == \A r \in Runs : Made(r) => run[r].agent \in Agents /\ run[r].issue \in Issues

RowsAdvance ==
    /\ run' \in [Runs -> RunRecords]
    /\ \A r \in Runs : RowAdvances(r)
    /\ Numbered' /\ MadeOK'

\* A step that writes no run advances every row.
LEMMA RowsUnchanged ==
    ASSUME IInv, UNCHANGED run
    PROVE  RowsAdvance
<1>1. run' \in [Runs -> RunRecords]
  BY TypeFacts DEF IInv
<1>2. Numbered' /\ MadeOK'
  BY DEF IInv, Numbered, RowsOK, MadeOK, Made
<1> QED
  BY <1>1, <1>2 DEF RowsAdvance, RowAdvances, Made, Begun, Quiet

\* One row, inserted before, gets another status that is not that of a row that
\* waits, or another child.
LEMMA RowSet ==
    ASSUME IInv, NEW r \in Runs, Made(r), NEW row \in RunRecords,
           run' = [run EXCEPT ![r] = row],
           row.status \notin {"none", "queued"} \/ (row.status = "queued" /\ run[r].status = "queued"),
           row.agent = run[r].agent, row.issue = run[r].issue, row.losses = run[r].losses,
           Quiet(r) => row.child = "none"
    PROVE  RowsAdvance
<1>1. run \in [Runs -> RunRecords]
  BY TypeFacts DEF IInv
<1>2. run' \in [Runs -> RunRecords] /\ \A q \in Runs : run'[q] = IF q = r THEN row ELSE run[q]
  BY <1>1
<1>3. \A q \in Runs : RowAdvances(q)
  BY <1>2 DEF RowAdvances, Made, Begun, Quiet
<1>4. \A q \in Runs : run'[q].status # "none" <=> run[q].status # "none"
  BY <1>2 DEF Made
<1>5. Numbered'
  BY <1>4 DEF IInv, Numbered, Made
<1>6. MadeOK'
  BY <1>2, <1>4 DEF IInv, RowsOK, MadeOK, Made
<1> QED
  BY <1>2, <1>3, <1>5, <1>6 DEF RowsAdvance

\* The next row is the first that was never inserted.
LEMMA NextRunFacts ==
    ASSUME IInv, Room
    PROVE  /\ NextRun \in Runs /\ run[NextRun].status = "none"
           /\ \A r \in Runs : Made(r) <=> r < NextRun
<1>1. PICK n \in 0..MaxRuns : \A r \in Runs : Made(r) <=> r <= n
  BY DEF IInv, Numbered
<1>2. {r \in Runs : run[r].status # "none"} = 1..n
  <2>1. n \in Nat /\ n <= MaxRuns
    BY ConstantFacts
  <2> QED
    BY <1>1, <2>1, ConstantFacts DEF Runs, Made
<1>3. Cardinality(1..n) = n
  BY <1>1, ConstantFacts, FS_Interval, SMT
<1>4. NextRun = n + 1
  BY <1>2, <1>3 DEF NextRun
<1> HIDE DEF NextRun
<1>5. n + 1 <= MaxRuns
  BY <1>4 DEF Room
<1> QED
  BY <1>1, <1>4, <1>5, ConstantFacts DEF Runs, Made

\* The row of a new run.
LEMMA QueuedFacts ==
    ASSUME NEW a \in Agents, NEW i \in Issues, NEW why \in {"wake", "mention", "lost", "comment"},
           NEW losses \in 0..1
    PROVE  /\ Queued(a, i, why, losses) \in RunRecords
           /\ Queued(a, i, why, losses).status = "queued" /\ Queued(a, i, why, losses).agent = a
           /\ Queued(a, i, why, losses).issue = i /\ Queued(a, i, why, losses).child = "none"
BY DEF Queued, NoRun, RunRecords

\* A run that is inserted is the next one, and the other rows stay.
LEMMA RowNew ==
    ASSUME IInv, Room, NEW a \in Agents, NEW i \in Issues,
           NEW why \in {"wake", "mention", "lost", "comment"}, NEW losses \in 0..1,
           run' = [run EXCEPT ![NextRun] = Queued(a, i, why, losses)]
    PROVE  /\ RowsAdvance
           /\ \A r \in Runs : run'[r] = IF r = NextRun THEN Queued(a, i, why, losses) ELSE run[r]
<1> DEFINE row == Queued(a, i, why, losses)
<1>1. run \in [Runs -> RunRecords] /\ NextRun \in Runs /\ run[NextRun].status = "none"
      /\ \A r \in Runs : Made(r) <=> r < NextRun
  BY TypeFacts, NextRunFacts DEF IInv
<1>2. /\ row \in RunRecords /\ row.status = "queued" /\ row.agent = a /\ row.issue = i
      /\ row.child = "none"
  BY QueuedFacts
<1> HIDE DEF row
<1>3. run' = [run EXCEPT ![NextRun] = row]
  BY DEF row
<1> HIDE DEF NextRun
<1>4. run' \in [Runs -> RunRecords] /\ \A q \in Runs : run'[q] = IF q = NextRun THEN row ELSE run[q]
  BY <1>1, <1>2, <1>3
<1>5. \A q \in Runs : RowAdvances(q)
  BY <1>1, <1>2, <1>4 DEF RowAdvances, Made, Begun, Quiet
<1>6. Numbered'
  <2>1. NextRun \in 0..MaxRuns
    BY <1>1, ConstantFacts DEF Runs
  <2>2. \A r \in Runs : run'[r].status # "none" <=> r <= NextRun
    BY <1>1, <1>2, <1>4, ConstantFacts DEF Made, Runs
  <2> QED
    BY <2>1, <2>2 DEF Numbered, Made
<1>7. MadeOK'
  BY <1>2, <1>4 DEF IInv, RowsOK, MadeOK, Made
<1>8. \A r \in Runs : run'[r] = IF r = NextRun THEN Queued(a, i, why, losses) ELSE run[r]
  BY <1>4 DEF row
<1> QED
  BY <1>4, <1>5, <1>6, <1>7, <1>8 DEF RowsAdvance
-----------------------------------------------------------------------------
(* What a frame knows stays true while others go on.                        *)

QuietStays == \A r \in Runs : Quiet(r) => stack'[Executor(r)] = <<>>

\* A frame that does not move still knows what it knew.
LEMMA OldFrame ==
    ASSUME Typed, RowsAdvance, QuietStays, NEW t \in Threads, NEW f \in FrameRecords, FrameOK(t, f),
           Claiming(f) => startLock'[f.agent] = startLock[f.agent]
    PROVE  FrameOK(t, f)'
<1>1. f.todo \subseteq Runs /\ f.run \in Runs \cup {None}
  BY DEF FrameRecords
<1>2. \A r \in Runs : RowAdvances(r)
  BY DEF RowsAdvance
<1>3. (f.at \in {"start", "claim", "stamp"} => f.agent \in Agents)'
  BY DEF FrameOK
<1>4. (Claiming(f) => startLock[f.agent] = t /\ \A r \in f.todo : run[r].agent = f.agent)'
  BY <1>1, <1>2 DEF FrameOK, Claiming, RowAdvances
<1>5. (\A r \in f.todo : Made(r))'
  BY <1>1, <1>2 DEF FrameOK, RowAdvances, Made
<1>6. (f.at = "stamp" => f.run \in Runs)'
  BY DEF FrameOK
<1>7. (\A r \in Runs : Claimed(f, r) => Claiming(f) /\ Begun(r) /\ Quiet(r) /\ run[r].agent = f.agent)'
  <2> SUFFICES ASSUME NEW r \in Runs, Claimed(f, r)
               PROVE  /\ Claiming(f) /\ run'[r].status \notin {"none", "queued"}
                      /\ stack'[Executor(r)] = <<>> /\ run'[r].child = "none"
                      /\ run'[r].agent = f.agent
    BY DEF Claimed, Claiming, Begun, Quiet
  <2>1. Claiming(f) /\ Begun(r) /\ Quiet(r) /\ run[r].agent = f.agent
    BY DEF FrameOK
  <2>2. Made(r)
    BY <2>1 DEF Begun, Made
  <2> QED
    BY <1>2, <2>1, <2>2 DEF RowAdvances, QuietStays
<1>8. (f.at \in {"begin", "adapter", "finished", "cancelled", "ended"} =>
         f.run \in Runs /\ t = Executor(f.run))'
  BY DEF FrameOK
<1>9. (f.at \in {"cancel", "cancelRelease", "pauseRelease", "reapRetry", "reapRelease"} =>
         f.run \in Runs /\ Made(f.run))'
  BY <1>2 DEF FrameOK, RowAdvances, Made
<1>10. (f.at \in {"cancel", "cancelRelease"} => f.agent \in Agents)'
  BY DEF FrameOK
<1>11. (f.at \in {"reap", "reapRetry", "reapRelease"} =>
          t \in {Boot, Timer} /\ \A r \in f.todo : Begun(r))'
  BY <1>1, <1>2 DEF FrameOK, RowAdvances, Begun
<1>12. (f.at = "reapRetry" => run[f.run].losses = 0)'
  BY <1>2 DEF FrameOK, RowAdvances, Made
<1> QED
  BY <1>3, <1>4, <1>5, <1>6, <1>7, <1>8, <1>9, <1>10, <1>11, <1>12 DEF FrameOK

\* New frames: the start of an agent, the cancellation of a row, and a frame
\* that knows nothing yet.
LEMMA StartFrameOK ==
    ASSUME NEW t, NEW a \in Agents, NEW home \in Homes
    PROVE  /\ StartFrame(a, home) \in FrameRecords /\ StartFrame(a, home).at = "start"
           /\ FrameOK(t, StartFrame(a, home))'
<1> DEFINE f == StartFrame(a, home)
<1>1. /\ f \in FrameRecords /\ f.at = "start" /\ f.agent = a /\ f.todo = {} /\ f.got = {}
  BY DEF StartFrame, Frame, FrameRecords, Places
<1> HIDE DEF f
<1>2. FrameOK(t, f)'
  BY <1>1 DEF FrameOK, Claiming, Claimed
<1> QED
  BY <1>1, <1>2 DEF f

\* A cancellation knows the run it is to cancel and its agent.
LEMMA CancelFrameOK ==
    ASSUME Typed, MadeOK, RowsAdvance, NEW t, NEW r \in Runs, Made(r), NEW home \in Homes,
           NEW f, f = CancelFrame(r, home)
    PROVE  /\ f \in FrameRecords /\ f.at = "cancel" /\ f.run = r
           /\ FrameOK(t, f)'
<1>1. run[r].agent \in Agents
  BY DEF MadeOK
<1>2. /\ f \in FrameRecords /\ f.at = "cancel" /\ f.agent \in Agents /\ f.run = r
      /\ f.todo = {} /\ f.got = {}
  BY <1>1 DEF CancelFrame, Frame, FrameRecords, Places
<1>3. run'[r].status # "none"
  BY DEF RowsAdvance, RowAdvances
<1>4. (\A q \in Runs : ~Claimed(f, q)) /\ ~Claiming(f)
  BY <1>2 DEF Claimed, Claiming
<1>5. FrameOK(t, f)'
  BY <1>2, <1>3, <1>4 DEF FrameOK, Claiming, Claimed, Made
<1> QED
  BY <1>2, <1>5

\* The step of a thread that takes or frees no start lock.
WakesAdvance ==
    /\ wake' \in [Wakes -> WakeRecords]
    /\ \A w \in Wakes : wake'[w].status = "none" => wake[w].status = "none"
    /\ \A w \in Wakes : wake'[w].status = "deferred" => wake'[w].agent \in Agents

OthersTyped ==
    /\ invokable' \in [Agents -> BOOLEAN] /\ blocked' \in BOOLEAN
    /\ lock' \in [Issues -> Runs \cup {None}] /\ lockName' \in [Issues -> Agents \cup {NoAgent}]
    /\ events' \in [Events -> Nat]

\* At most one of the new frames holds a start lock, the one its thread held.
ClaimersKept(t, s) ==
    /\ \A k \in DOMAIN s : Claiming(s[k]) =>
          stack[t] # <<>> /\ Claiming(Top(t)) /\ Top(t).agent = s[k].agent
    /\ \A j, k \in DOMAIN s : Claiming(s[j]) /\ Claiming(s[k]) => j = k

\* Frames that are put on a stack bring no second claimer of an agent.
LEMMA OneClaimerStep ==
    ASSUME Typed, OneClaimer, NEW t \in Threads, NEW s \in Seq(FrameRecords), Replaces(t, s),
           ClaimersKept(t, s)
    PROVE  OneClaimer'
<1>1. \A u \in Threads \ {t} : stack'[u] = stack[u]
  BY ReplaceFacts
<1> SUFFICES ASSUME NEW j \in DOMAIN stack'[t], NEW k \in DOMAIN stack'[t],
                    Claiming(stack'[t][j]), Claiming(stack'[t][k]),
                    stack'[t][j].agent = stack'[t][k].agent
             PROVE  j = k
  BY <1>1 DEF OneClaimer, Claiming
<1>2. Len(s) \in Nat /\ DOMAIN s = 1..Len(s) /\ stack' \in [Threads -> Seq(FrameRecords)]
  BY ReplaceFacts
<1>3. j \in Nat /\ k \in Nat
  <2>1. stack'[t] \in Seq(FrameRecords)
    BY <1>2
  <2> QED
    BY <2>1
<1>4. \A m \in DOMAIN stack'[t] :
        \/ m \in DOMAIN s /\ stack'[t][m] = s[m]
        \/ /\ m \notin DOMAIN s
           /\ m - Len(s) + 1 \in DOMAIN stack[t] /\ m - Len(s) + 1 # 1
           /\ stack'[t][m] = stack[t][m - Len(s) + 1]
  BY ReplaceFacts
<1>5. \A m \in DOMAIN s : Claiming(s[m]) =>
        /\ 1 \in DOMAIN stack[t] /\ Claiming(stack[t][1]) /\ stack[t][1].agent = s[m].agent
  BY TopFacts DEF ClaimersKept
<1>6. \A m, n \in DOMAIN stack[t] :
        Claiming(stack[t][m]) /\ Claiming(stack[t][n]) /\ stack[t][m].agent = stack[t][n].agent => m = n
  BY DEF OneClaimer
<1>7. CASE j \in DOMAIN s /\ k \in DOMAIN s
  BY <1>4, <1>7 DEF ClaimersKept
<1>8. CASE j \in DOMAIN s /\ k \notin DOMAIN s
  BY <1>4, <1>5, <1>6, <1>8
<1>9. CASE j \notin DOMAIN s /\ k \in DOMAIN s
  BY <1>4, <1>5, <1>6, <1>9
<1>10. CASE j \notin DOMAIN s /\ k \notin DOMAIN s
  <2>1. j - Len(s) + 1 = k - Len(s) + 1
    BY <1>4, <1>6, <1>10
  <2> QED
    BY <1>2, <1>3, <2>1
<1> QED
  BY <1>7, <1>8, <1>9, <1>10

\* Rows that advance keep what holds of the rows.
LEMMA RowsOKStep ==
    ASSUME IInv, RowsAdvance, QuietStays, WakesAdvance,
           \A w \in Wakes : wake'[w].status = "none" => stack'[Waker(w)] = stack[Waker(w)]
    PROVE  RowsOK'
<1>1. MadeOK'
  BY DEF RowsAdvance
<1>2. \A r \in Runs : RowAdvances(r)
  BY DEF RowsAdvance
<1>3. (\A r \in Runs : ~Begun(r) => Quiet(r))'
  BY <1>2 DEF RowAdvances, IInv, RowsOK, Begun, Quiet, QuietStays
<1>4. (\A w \in Wakes : wake[w].status = "none" => stack[Waker(w)] = <<>>)'
  BY DEF IInv, RowsOK, WakesAdvance
<1> QED
  BY <1>1, <1>3, <1>4 DEF RowsOK, MadeOK, WakesAdvance

LocksStay ==
    \A u \in Threads : \A k \in DOMAIN stack[u] :
        Claiming(stack[u][k]) => startLock'[stack[u][k].agent] = startLock[stack[u][k].agent]

\* New frames that know what they should keep the frames as they should be.
LEMMA FramesOKStep ==
    ASSUME Typed, FramesOK, RowsAdvance, QuietStays, LocksStay,
           NEW t \in Threads, NEW s \in Seq(FrameRecords), Replaces(t, s),
           \A k \in DOMAIN s : FrameOK(t, s[k])'
    PROVE  FramesOK'
<1>1. \A u \in Threads : \A k \in DOMAIN stack[u] :
        \A f \in FrameRecords : f = stack[u][k] => FrameOK(u, f)'
  <2> SUFFICES ASSUME NEW u \in Threads, NEW k \in DOMAIN stack[u], NEW f \in FrameRecords,
                      f = stack[u][k]
               PROVE  FrameOK(u, f)'
    OBVIOUS
  <2>1. FrameOK(u, f)
    BY DEF FramesOK
  <2>2. Claiming(f) => startLock'[f.agent] = startLock[f.agent]
    BY DEF LocksStay
  <2> QED
    BY <2>1, <2>2, OldFrame
<1>2. \A u \in Threads : \A k \in DOMAIN stack[u] : stack[u][k] \in FrameRecords
  BY FrameInStack
<1>3. ASSUME NEW u \in Threads, NEW k \in DOMAIN stack'[u]
      PROVE  FrameOK(u, stack[u][k])'
  <2>1. CASE u # t
    <3>1. stack'[u] = stack[u]
      BY <2>1, ReplaceFacts
    <3>2. PICK f \in FrameRecords : f = stack[u][k]
      BY <1>2, <3>1
    <3>3. FrameOK(u, f)'
      BY <1>1, <3>1, <3>2
    <3> QED
      BY <3>1, <3>2, <3>3
  <2>2. CASE u = t
    <3>1. \/ k \in DOMAIN s /\ stack'[t][k] = s[k]
          \/ /\ k - Len(s) + 1 \in DOMAIN stack[t]
             /\ stack'[t][k] = stack[t][k - Len(s) + 1]
      BY <2>2, ReplaceFacts
    <3>2. CASE k \in DOMAIN s /\ stack'[t][k] = s[k]
      <4>1. FrameOK(t, s[k])'
        BY <3>2
      <4> QED
        BY <2>2, <3>2, <4>1
    <3>3. CASE k - Len(s) + 1 \in DOMAIN stack[t] /\ stack'[t][k] = stack[t][k - Len(s) + 1]
      <4>1. PICK f \in FrameRecords : f = stack[t][k - Len(s) + 1]
        BY <1>2, <3>3
      <4>2. FrameOK(t, f)'
        BY <1>1, <3>3, <4>1
      <4> QED
        BY <2>2, <3>3, <4>1, <4>2
    <3> QED
      BY <3>1, <3>2, <3>3
  <2> QED
    BY <2>1, <2>2
<1> QED
  BY <1>3 DEF FramesOK

\* A step of one thread keeps the invariant if its rows advance and its new frames know what they should.
LEMMA StepKeeps ==
    ASSUME IInv, RowsAdvance, WakesAdvance, OthersTyped, UNCHANGED startLock,
           NEW t \in Threads, NEW s \in Seq(FrameRecords), Replaces(t, s),
           stack[t] = <<>> => (\A r \in Runs : t # Executor(r)),
           stack[t] = <<>> => (\A w \in Wakes : t = Waker(w) => wake'[w].status # "none"),
           \A k \in DOMAIN s : FrameOK(t, s[k])', ClaimersKept(t, s)
    PROVE  IInv'
<1> USE DEF IInv
<1>1. startLock' \in [Agents -> Threads \cup {NoThread}]
  BY TypeFacts
<1>2. Typed'
  <2>1. stack' \in [Threads -> Seq(FrameRecords)]
    BY ReplaceFacts
  <2> QED
    BY <1>1, <2>1, TypedAgain DEF RowsAdvance, WakesAdvance, OthersTyped
<1>3. QuietStays
  <2> SUFFICES ASSUME NEW r \in Runs, stack[Executor(r)] = <<>>
               PROVE  stack'[Executor(r)] = <<>>
    BY DEF QuietStays, Quiet
  <2>1. Executor(r) \in Threads \ {t}
    BY ThreadFacts
  <2> QED
    BY <2>1, ReplaceFacts
<1>4. FramesOK'
  <2>1. LocksStay
    BY DEF LocksStay
  <2> QED
    BY <1>3, <2>1, FramesOKStep
<1>5. OneClaimer'
  BY OneClaimerStep
<1>6. \A w \in Wakes : wake'[w].status = "none" => stack'[Waker(w)] = stack[Waker(w)]
  <2> SUFFICES ASSUME NEW w \in Wakes, wake'[w].status = "none"
               PROVE  Waker(w) # t
    BY ReplaceFacts, ThreadFacts
  <2>1. stack[Waker(w)] = <<>>
    BY DEF RowsOK, WakesAdvance
  <2> QED
    BY <2>1
<1>7. RowsOK'
  BY <1>3, <1>6, RowsOKStep
<1> QED
  BY <1>2, <1>4, <1>5, <1>7 DEF RowsAdvance

\* A quiet run stays quiet while its execution does not move.
LEMMA QuietKept ==
    ASSUME Typed, NEW t \in Threads, NEW s \in Seq(FrameRecords), Replaces(t, s),
           stack[t] = <<>> => (\A r \in Runs : t # Executor(r))
    PROVE  QuietStays
<1> SUFFICES ASSUME NEW r \in Runs, stack[Executor(r)] = <<>>
             PROVE  stack'[Executor(r)] = <<>>
  BY DEF QuietStays, Quiet
<1>1. Executor(r) \in Threads \ {t}
  BY ThreadFacts
<1> QED
  BY <1>1, ReplaceFacts

\* The usual steps: a frame takes the place of the top, or is put on an empty
\* stack; the top is taken off; a frame is put on the top, which goes on as g.
LEMMA TopStep ==
    ASSUME IInv, RowsAdvance, WakesAdvance, OthersTyped, UNCHANGED startLock,
           NEW t \in Threads, stack[t] # <<>>, NEW f \in FrameRecords, Goto(t, f),
           FrameOK(t, f) \/ FrameOK(t, f)',
           Claiming(f) => Claiming(Top(t)) /\ Top(t).agent = f.agent
    PROVE  IInv'
<1> DEFINE s == <<f>>
<1>1. s \in Seq(FrameRecords) /\ DOMAIN s = {1} /\ s[1] = f
  OBVIOUS
<1>2. Typed
  BY DEF IInv
<1>3. Replaces(t, s)
  BY <1>2, FramesReplace DEF Goto
<1>4. ClaimersKept(t, s)
  BY <1>1 DEF ClaimersKept
<1> HIDE DEF s
<1>5. FrameOK(t, f)'
  <2>1. CASE FrameOK(t, f)
    <3>1. QuietStays
      BY <1>1, <1>2, <1>3, QuietKept
    <3> QED
      BY <1>2, <2>1, <3>1, OldFrame
  <2> QED
    BY <2>1
<1>6. \A k \in DOMAIN s : FrameOK(t, s[k])'
  BY <1>1, <1>5
<1> QED
  BY <1>1, <1>3, <1>4, <1>6, StepKeeps

\* A call that starts, on an empty stack.
LEMMA PushStep ==
    ASSUME IInv, RowsAdvance, WakesAdvance, OthersTyped, UNCHANGED startLock,
           NEW t \in Threads, stack[t] = <<>>, NEW f \in FrameRecords,
           stack' = [stack EXCEPT ![t] = <<f>>],
           FrameOK(t, f) \/ FrameOK(t, f)', ~Claiming(f),
           \A r \in Runs : t # Executor(r),
           \A w \in Wakes : t = Waker(w) => wake'[w].status # "none"
    PROVE  IInv'
<1> DEFINE s == <<f>>
<1>1. s \in Seq(FrameRecords) /\ DOMAIN s = {1} /\ s[1] = f
  OBVIOUS
<1>2. Typed
  BY DEF IInv
<1>3. Replaces(t, s)
  BY DEF Replaces
<1>4. ClaimersKept(t, s)
  BY <1>1 DEF ClaimersKept
<1> HIDE DEF s
<1>5. FrameOK(t, f)'
  <2>1. CASE FrameOK(t, f)
    <3>1. QuietStays
      BY <1>1, <1>2, <1>3, QuietKept
    <3> QED
      BY <1>2, <2>1, <3>1, OldFrame
  <2> QED
    BY <2>1
<1>6. \A k \in DOMAIN s : FrameOK(t, s[k])'
  BY <1>1, <1>5
<1> QED
  BY <1>1, <1>3, <1>4, <1>6, StepKeeps

\* A step that returns.
LEMMA PopStep ==
    ASSUME IInv, RowsAdvance, WakesAdvance, OthersTyped, UNCHANGED startLock,
           NEW t \in Threads, stack[t] # <<>>, Return(t)
    PROVE  IInv'
<1> DEFINE s == <<>>
<1>1. s \in Seq(FrameRecords) /\ DOMAIN s = {}
  OBVIOUS
<1>2. Replaces(t, s)
  BY FramesReplace DEF Return, IInv
<1>3. ClaimersKept(t, s)
  BY <1>1 DEF ClaimersKept
<1> HIDE DEF s
<1>4. \A k \in DOMAIN s : FrameOK(t, s[k])'
  BY <1>1
<1> QED
  BY <1>1, <1>2, <1>3, <1>4, StepKeeps

\* A step that leaves two frames where one was.
LEMMA TwoStep ==
    ASSUME IInv, RowsAdvance, WakesAdvance, OthersTyped, UNCHANGED startLock,
           NEW t \in Threads, stack[t] # <<>>, NEW f \in FrameRecords, NEW g \in FrameRecords,
           Frames(t, <<f, g>>), ~Claiming(f),
           FrameOK(t, f) \/ FrameOK(t, f)', FrameOK(t, g) \/ FrameOK(t, g)',
           Claiming(g) => Claiming(Top(t)) /\ Top(t).agent = g.agent
    PROVE  IInv'
<1> DEFINE s == <<f, g>>
<1>1. s \in Seq(FrameRecords) /\ DOMAIN s = {1, 2} /\ s[1] = f /\ s[2] = g
  OBVIOUS
<1>2. Typed
  BY DEF IInv
<1>3. Replaces(t, s)
  BY <1>2, FramesReplace
<1>4. ClaimersKept(t, s)
  BY <1>1 DEF ClaimersKept
<1> HIDE DEF s
<1>5. QuietStays
  BY <1>1, <1>2, <1>3, QuietKept
<1>6. FrameOK(t, f)' /\ FrameOK(t, g)'
  BY <1>2, <1>5, OldFrame
<1>7. \A k \in DOMAIN s : FrameOK(t, s[k])'
  BY <1>1, <1>6
<1> QED
  BY <1>1, <1>3, <1>4, <1>7, StepKeeps

\* A step that moves no stack.
LEMMA SameStackStep ==
    ASSUME IInv, RowsAdvance, WakesAdvance, OthersTyped, UNCHANGED <<startLock, stack>>
    PROVE  IInv'
<1>1. startLock' \in [Agents -> Threads \cup {NoThread}] /\ stack' \in [Threads -> Seq(FrameRecords)]
  BY TypeFacts DEF IInv
<1>2. Typed'
  BY <1>1, TypedAgain DEF RowsAdvance, WakesAdvance, OthersTyped
<1>3. QuietStays
  BY DEF QuietStays, Quiet
<1>4. FramesOK'
  <2> SUFFICES ASSUME NEW u \in Threads, NEW k \in DOMAIN stack[u]
               PROVE  FrameOK(u, stack[u][k])'
    BY DEF FramesOK
  <2>1. PICK f \in FrameRecords : f = stack[u][k]
    BY FrameInStack DEF IInv
  <2>2. FrameOK(u, f)
    BY <2>1 DEF IInv, FramesOK
  <2>3. FrameOK(u, f)'
    BY <1>3, <2>2, OldFrame DEF IInv
  <2> QED
    BY <2>1, <2>3
<1>5. OneClaimer'
  BY DEF IInv, OneClaimer
<1>6. RowsOK'
  BY <1>3, RowsOKStep
<1> QED
  BY <1>2, <1>4, <1>5, <1>6 DEF IInv, RowsAdvance

\* A step that writes no wakeup.
LEMMA WakesUnchanged ==
    ASSUME IInv, UNCHANGED wake
    PROVE  WakesAdvance
BY TypeFacts DEF IInv, WakesAdvance, RowsOK

\* A step that writes neither the locks nor what pauses an agent.
LEMMA OthersUnchanged ==
    ASSUME IInv, UNCHANGED <<invokable, blocked, lock, lockName, events>>
    PROVE  OthersTyped
BY TypeFacts DEF IInv, OthersTyped

\* An event counts itself and no other.
LEMMA EventCounted ==
    ASSUME IInv, NEW e \in Events, Happens(e)
    PROVE  events' \in [Events -> Nat] /\ events'[e] > 0 /\ \A x \in Events \ {e} : events'[x] = events[x]
<1>1. events \in [Events -> Nat] /\ events' = [events EXCEPT ![e] = @ + 1]
  BY TypeFacts DEF IInv, Happens
<1> QED
  BY <1>1
-----------------------------------------------------------------------------
(* enqueueWakeup                                                            *)

\* The active run of an issue is one that is queued or running.
LEMMA ActiveRunFacts ==
    ASSUME Typed, NEW i \in Issues
    PROVE  /\ ActiveRunOf(i) \in Runs \cup {None}
           /\ lock[i] # None /\ Live(lock[i]) => ActiveRunOf(i) = lock[i]
           /\ ActiveRunOf(i) # None => Live(ActiveRunOf(i))
<1> DEFINE live == LiveOn(i)
           both == live \cap Running
<1>1. live \subseteq Runs /\ both \subseteq live /\ live \subseteq Nat /\ both \subseteq Nat
  BY ConstantFacts DEF LiveOn
<1>2. lock[i] \in Runs \cup {None}
  BY TypeFacts
<1>3. \A r \in live : Live(r)
  BY DEF LiveOn
<1> HIDE DEF live, both
<1>4. both # {} => Min(both) \in both
  BY <1>1, MinIsMember
<1>5. live # {} => Min(live) \in live
  BY <1>1, MinIsMember
<1>6. ActiveRunOf(i) = IF lock[i] # None /\ Live(lock[i]) THEN lock[i]
                       ELSE IF both # {} THEN Min(both)
                       ELSE IF live # {} THEN Min(live)
                       ELSE None
  BY DEF ActiveRunOf, live, both
<1> QED
  BY <1>1, <1>2, <1>3, <1>4, <1>5, <1>6

\* A wakeup that inserts a run keeps the invariant.
LEMMA NewRunStep ==
    ASSUME IInv, OthersTyped, UNCHANGED startLock,
           NEW w \in Wakes, NEW a \in Agents, NEW i \in Issues, NEW why \in {"wake", "mention"},
           wake[w].status = "none", NewRun(w, a, i, why)
    PROVE  IInv'
<1>1. RowsAdvance
  <2>1. why \in {"wake", "mention", "lost", "comment"} /\ 0 \in 0..1
    OBVIOUS
  <2>2. Room /\ run' = [run EXCEPT ![NextRun] = Queued(a, i, why, 0)]
    BY DEF NewRun
  <2> QED
    BY <2>1, <2>2, RowNew
<1>2. wake' = [wake EXCEPT ![w] = Settled("queued")] /\ Settled("queued") \in WakeRecords
      /\ Settled("queued").status = "queued" /\ wake \in [Wakes -> WakeRecords]
  BY TypeFacts DEF IInv, NewRun, Settled, NoWake, WakeRecords
<1>3. WakesAdvance
  BY <1>2 DEF WakesAdvance, IInv, RowsOK
<1>4. wake'[w].status = "queued"
  BY <1>2
<1> DEFINE f == StartFrame(a, "routes")
           t == Waker(w)
<1>5. f \in FrameRecords /\ FrameOK(t, f)' /\ ~Claiming(f)
  BY StartFrameOK DEF Claiming, Homes
<1>6. t \in Threads /\ stack[t] = <<>> /\ stack' = [stack EXCEPT ![t] = <<f>>]
  BY ThreadFacts DEF NewRun, IInv, RowsOK
<1>7. (\A r \in Runs : t # Executor(r)) /\ \A v \in Wakes : t = Waker(v) => wake'[v].status # "none"
  BY <1>4, ExecutorFacts, WakerFacts
<1> HIDE DEF f, t
<1> QED
  BY <1>1, <1>3, <1>5, <1>6, <1>7, PushStep

LEMMA WakeIssueStep ==
    ASSUME IInv, NEW w \in Wakes, NEW a \in Agents, NEW i \in Issues, NEW comment \in BOOLEAN,
           WakeIssue(w, a, i, comment)
    PROVE  IInv'
<1> DEFINE owner == ActiveRunOf(i)
<1>1. owner \in Runs \cup {None}
  BY ActiveRunFacts DEF IInv
<1>2. wake[w].status = "none" /\ UNCHANGED <<invokable, blocked, startLock, events>>
  BY DEF WakeIssue, Calls
<1>3. PICK o \in Runs \cup {None} : o = owner
  BY <1>1
<1>4. lock' = [lock EXCEPT ![i] = o]
      /\ lockName' = [lockName EXCEPT ![i] =
           IF o = lock[i] THEN @ ELSE IF o = None THEN NoAgent ELSE run[o].agent]
  BY <1>3 DEF WakeIssue
<1>5. OthersTyped
  <2>1. /\ invokable \in [Agents -> BOOLEAN] /\ blocked \in BOOLEAN /\ events \in [Events -> Nat]
        /\ lock \in [Issues -> Runs \cup {None}] /\ lockName \in [Issues -> Agents \cup {NoAgent}]
        /\ run \in [Runs -> RunRecords]
    BY TypeFacts DEF IInv
  <2>2. o # None => run[o].agent \in Agents \cup {NoAgent}
    BY <2>1 DEF RunRecords
  <2> QED
    BY <1>2, <1>4, <2>1, <2>2 DEF OthersTyped
<1>6. CASE /\ wake' \in {[wake EXCEPT ![w] = Settled("coalesced")], [wake EXCEPT ![w] = Settled("merged")],
                         [wake EXCEPT ![w] = [status |-> "deferred", agent |-> a, issue |-> i]]}
           /\ UNCHANGED <<run, stack>>
  <2>1. wake \in [Wakes -> WakeRecords]
    BY TypeFacts DEF IInv
  <2>2. PICK x \in WakeRecords : x.status # "none" /\ x.agent \in Agents \cup {NoAgent}
           /\ (x.status = "deferred" => x.agent \in Agents) /\ wake' = [wake EXCEPT ![w] = x]
    <3>1. CASE wake' \in {[wake EXCEPT ![w] = Settled("coalesced")], [wake EXCEPT ![w] = Settled("merged")]}
      BY <3>1 DEF Settled, NoWake, WakeRecords
    <3>2. CASE wake' = [wake EXCEPT ![w] = [status |-> "deferred", agent |-> a, issue |-> i]]
      BY <3>2 DEF WakeRecords
    <3> QED
      BY <1>6, <3>1, <3>2
  <2>3. WakesAdvance
    BY <2>1, <2>2 DEF WakesAdvance, IInv, RowsOK
  <2> QED
    BY <1>2, <1>5, <1>6, <2>3, RowsUnchanged, SameStackStep
<1>7. CASE NewRun(w, a, i, "wake")
  BY <1>2, <1>5, <1>7, NewRunStep
<1> QED
  BY <1>6, <1>7 DEF WakeIssue

LEMMA WakeMentionStep ==
    ASSUME IInv, NEW w \in Wakes, NEW a \in Agents, NEW i \in Issues, WakeMention(w, a, i)
    PROVE  IInv'
<1>1. wake[w].status = "none" /\ UNCHANGED <<invokable, blocked, startLock, lock, lockName>>
  BY DEF WakeMention, Calls
<1>2. OthersTyped
  <2>1. events' \in [Events -> Nat]
    BY EventCounted DEF WakeMention, Events
  <2> QED
    BY <1>1, <2>1, TypeFacts DEF IInv, OthersTyped
<1>3. CASE wake' = [wake EXCEPT ![w] = Settled("coalesced")] /\ UNCHANGED <<run, stack>>
  <2>1. wake \in [Wakes -> WakeRecords] /\ Settled("coalesced") \in WakeRecords
        /\ Settled("coalesced").status = "coalesced"
    BY TypeFacts DEF IInv, Settled, NoWake, WakeRecords
  <2>2. WakesAdvance
    BY <1>3, <2>1 DEF WakesAdvance, IInv, RowsOK
  <2> QED
    BY <1>1, <1>2, <1>3, <2>2, RowsUnchanged, SameStackStep
<1>4. CASE NewRun(w, a, i, "mention")
  BY <1>1, <1>2, <1>4, NewRunStep
<1> QED
  BY <1>3, <1>4 DEF WakeMention
-----------------------------------------------------------------------------
(* The start of an agent's queued runs.                                     *)

\* The top of a thread, and what it is to claim or has claimed.
LEMMA ClaimFacts ==
    ASSUME IInv, NEW t \in Threads, stack[t] # <<>>
    PROVE  /\ Top(t) \in FrameRecords /\ FrameOK(t, Top(t))
           /\ Top(t).at \in {"start", "claim", "stamp"} => Top(t).agent \in Agents
           /\ Top(t).home \in Homes
           /\ Top(t).todo \subseteq Runs /\ Top(t).got \subseteq Runs
           /\ \A r \in Top(t).todo : Made(r)
           /\ Claiming(Top(t)) => \A r \in Top(t).todo : run[r].agent = Top(t).agent
           /\ Top(t).todo # {} => Min(Top(t).todo) \in Top(t).todo /\ Min(Top(t).todo) \in Runs
<1>1. Top(t) \in FrameRecords /\ FrameOK(t, Top(t))
  BY TopFacts, TopOK DEF IInv
<1> QED
  BY <1>1, NextTodo DEF FrameOK, FrameRecords

LEMMA StartPickStep ==
    ASSUME IInv, NEW t \in Threads, StartPick(t)
    PROVE  IInv'
<1> DEFINE f == Top(t)
           queued == RunsOf(f.agent, "queued")
           slots == MaxConcurrent - Cardinality(RunsOf(f.agent, "running"))
           picked == {r \in queued : Cardinality({q \in queued : q < r}) < slots}
           top == [f EXCEPT !.at = "claim", !.todo = picked]
<1>1. stack[t] # <<>> /\ f.at = "start" /\ startLock[f.agent] = NoThread /\ UNCHANGED <<rows, events>>
  BY DEF StartPick, At
<1>2. f \in FrameRecords /\ FrameOK(t, f) /\ f.agent \in Agents
  BY <1>1, ClaimFacts
<1>3. RowsAdvance /\ WakesAdvance /\ OthersTyped
  BY <1>1, RowsUnchanged, WakesUnchanged, OthersUnchanged DEF rows
<1>4. CASE Return(t) /\ UNCHANGED startLock
  BY <1>1, <1>3, <1>4, PopStep
<1>5. CASE startLock' = [startLock EXCEPT ![f.agent] = t] /\ Goto(t, top)
  <2>1. picked \subseteq RunsOf(f.agent, "queued") /\ picked \subseteq Runs
    BY DEF RunsOf
  <2> HIDE DEF slots, queued
  <2>2. PICK p \in SUBSET Runs : p = picked /\ p \subseteq RunsOf(f.agent, "queued")
    BY <2>1
  <2>3. PICK g \in FrameRecords : g = top
    BY <1>2, <2>2 DEF FrameRecords, Places
  <2>4. /\ g.at = "claim" /\ g.agent = f.agent /\ g.todo = p /\ g.got = f.got
    BY <1>2, <2>2, <2>3 DEF FrameRecords
  <2>5. \A r \in p : Made(r) /\ run[r].agent = f.agent
    BY <2>2 DEF RunsOf, Made
  <2>6. \A r \in Runs : ~Claimed(g, r)
    BY <1>1, <1>2, <2>4 DEF FrameOK, Claimed, Claiming
  <2> HIDE DEF f, picked, top
  <2>7. startLock \in [Agents -> Threads \cup {NoThread}]
    BY TypeFacts DEF IInv
  <2>8. startLock'[f.agent] = t /\ \A a \in Agents \ {f.agent} : startLock'[a] = startLock[a]
    BY <1>2, <1>5, <2>7
  <2>9. startLock' \in [Agents -> Threads \cup {NoThread}]
    BY <1>2, <1>5, <2>7
  <2> DEFINE s == <<g>>
  <2>10. s \in Seq(FrameRecords) /\ DOMAIN s = {1} /\ s[1] = g
    OBVIOUS
  <2>11. Replaces(t, s)
    BY <1>1, <1>5, <2>3, FramesReplace DEF Goto, IInv
  <2> HIDE DEF s
  <2>12. Typed'
    <3>1. stack' \in [Threads -> Seq(FrameRecords)]
      BY <2>10, <2>11, ReplaceFacts DEF IInv
    <3> QED
      BY <1>3, <2>9, <3>1, TypedAgain DEF RowsAdvance, WakesAdvance, OthersTyped
  <2>13. QuietStays
    BY <1>1, <2>10, <2>11, QuietKept DEF IInv
  <2>14. \A u \in Threads : \A k \in DOMAIN stack[u] :
            Claiming(stack[u][k]) => stack[u][k].agent \in Agents \ {f.agent}
    <3> SUFFICES ASSUME NEW u \in Threads, NEW k \in DOMAIN stack[u], Claiming(stack[u][k])
                 PROVE  stack[u][k].agent \in Agents \ {f.agent}
      OBVIOUS
    <3>1. FrameOK(u, stack[u][k])
      BY DEF IInv, FramesOK
    <3>2. stack[u][k].agent \in Agents /\ startLock[stack[u][k].agent] = u
      BY <3>1 DEF FrameOK, Claiming
    <3> QED
      BY <1>1, <3>2, ThreadFacts DEF f
  <2>15. LocksStay
    BY <2>8, <2>14 DEF LocksStay
  <2>16. FrameOK(t, g)'
    <3>1. run' = run /\ startLock'[g.agent] = t
      BY <1>1, <2>4, <2>8 DEF rows
    <3> QED
      BY <1>2, <2>4, <2>5, <2>6, <3>1 DEF FrameOK, Claiming, Claimed, Made
  <2>17. FramesOK'
    BY <1>3, <2>10, <2>11, <2>13, <2>15, <2>16, FramesOKStep DEF IInv
  <2>18. OneClaimer'
    <3>1. \A u \in Threads \ {t} : stack'[u] = stack[u]
      BY <2>10, <2>11, ReplaceFacts DEF IInv
    <3> SUFFICES ASSUME NEW j \in DOMAIN stack'[t], NEW k \in DOMAIN stack'[t],
                        Claiming(stack'[t][j]), Claiming(stack'[t][k]),
                        stack'[t][j].agent = stack'[t][k].agent
                 PROVE  j = k
      BY <3>1 DEF IInv, OneClaimer, Claiming
    <3>2. \A m \in DOMAIN stack'[t] :
            \/ m = 1 /\ stack'[t][m] = g
            \/ m # 1 /\ m \in DOMAIN stack[t] /\ stack'[t][m] = stack[t][m]
      <4>1. Len(s) = 1
        BY DEF s
      <4>2. \A m \in DOMAIN stack'[t] : m \in Nat
        <5>1. stack'[t] \in Seq(FrameRecords)
          BY <2>12 DEF Typed
        <5> QED
          BY <5>1
      <4>3. \A m \in DOMAIN stack'[t] :
              \/ m \in DOMAIN s /\ stack'[t][m] = s[m]
              \/ /\ m \notin DOMAIN s
                 /\ m - Len(s) + 1 \in DOMAIN stack[t] /\ m - Len(s) + 1 # 1
                 /\ stack'[t][m] = stack[t][m - Len(s) + 1]
        BY <2>10, <2>11, ReplaceFacts DEF IInv
      <4>4. \A m \in DOMAIN stack'[t] : m - Len(s) + 1 = m
        BY <4>1, <4>2
      <4> QED
        BY <2>10, <4>3, <4>4
    <3> QED
      BY <2>4, <2>14, <3>2 DEF IInv, OneClaimer
  <2>19. RowsOK'
    <3>1. \A w \in Wakes : wake'[w].status = "none" => stack'[Waker(w)] = stack[Waker(w)]
      <4> SUFFICES ASSUME NEW w \in Wakes, wake'[w].status = "none"
                   PROVE  Waker(w) # t
        BY <2>10, <2>11, ReplaceFacts, ThreadFacts DEF IInv
      <4>1. stack[Waker(w)] = <<>>
        BY <1>3 DEF RowsOK, WakesAdvance, IInv
      <4> QED
        BY <1>1, <4>1
    <3> QED
      BY <1>3, <2>13, <3>1, RowsOKStep
  <2> QED
    BY <1>3, <2>12, <2>17, <2>18, <2>19 DEF IInv, RowsAdvance
<1> QED
  BY <1>4, <1>5 DEF StartPick

LEMMA ClaimRefusedStep ==
    ASSUME IInv, NEW t \in Threads, ClaimRefused(t)
    PROVE  IInv'
<1> DEFINE r == Min(Top(t).todo)
<1>1. stack[t] # <<>> /\ Top(t).at = "claim" /\ Top(t).todo # {} /\ UNCHANGED <<rows, startLock, events>>
  BY DEF ClaimRefused, At
<1>2. RowsAdvance /\ WakesAdvance /\ OthersTyped
  BY <1>1, RowsUnchanged, WakesUnchanged, OthersUnchanged DEF rows
<1>3. r \in Top(t).todo /\ r \in Runs /\ Made(r) /\ Top(t).home \in Homes /\ Top(t) \in FrameRecords
      /\ FrameOK(t, Top(t))
  BY <1>1, ClaimFacts
<1>4. PICK q \in Runs : q = r
  BY <1>3
<1> HIDE DEF r
<1>5. PICK f : f = CancelFrame(q, Top(t).home)
  OBVIOUS
<1>6. f \in FrameRecords /\ f.at = "cancel" /\ FrameOK(t, f)'
  BY <1>2, <1>3, <1>4, <1>5, CancelFrameOK DEF IInv, RowsOK, MadeOK
<1>7. PICK g \in FrameRecords : g = [Top(t) EXCEPT !.todo = @ \ {q}]
  BY <1>3 DEF FrameRecords
<1>8. g.at = "claim" /\ g.agent = Top(t).agent /\ g.todo \subseteq Top(t).todo /\ g.got = Top(t).got
  BY <1>1, <1>3, <1>7 DEF FrameRecords
<1>9. FrameOK(t, g)
  BY <1>1, <1>3, <1>8 DEF FrameOK, Claiming, Claimed
<1>10. Frames(t, <<f, g>>)
  BY <1>4, <1>5, <1>7 DEF ClaimRefused, r
<1>11. ~Claiming(f) /\ Claiming(Top(t))
  BY <1>1, <1>6 DEF Claiming
<1> QED
  BY <1>1, <1>2, <1>6, <1>8, <1>9, <1>10, <1>11, TwoStep

LEMMA ClaimRunStep ==
    ASSUME IInv, NEW t \in Threads, ClaimRun(t)
    PROVE  IInv'
<1> DEFINE r == Min(Top(t).todo)
<1>1. stack[t] # <<>> /\ Top(t).at = "claim" /\ Top(t).todo # {}
      /\ UNCHANGED <<invokable, blocked, lock, lockName, wake, startLock, events>>
  BY DEF ClaimRun, At
<1>2. WakesAdvance /\ OthersTyped
  BY <1>1, WakesUnchanged, OthersUnchanged
<1>3. r \in Top(t).todo /\ r \in Runs /\ Made(r) /\ Top(t) \in FrameRecords
      /\ FrameOK(t, Top(t))
  BY <1>1, ClaimFacts
<1>4. PICK q \in Runs : q = r
  BY <1>3
<1>5. Claiming(Top(t)) /\ run[q].agent = Top(t).agent /\ Top(t).agent \in Agents
  BY <1>1, <1>3, <1>4, ClaimFacts DEF Claiming
<1> HIDE DEF r
<1>6. CASE run[q].status = "queued" /\ run' = [run EXCEPT ![q].status = "running"]
           /\ Goto(t, [Top(t) EXCEPT !.at = "stamp", !.run = q])
  <2>1. run \in [Runs -> RunRecords]
    BY TypeFacts DEF IInv
  <2>2. PICK row \in RunRecords : row = [run[q] EXCEPT !.status = "running"]
    BY <2>1 DEF RunRecords
  <2>3. /\ row.status = "running" /\ row.agent = run[q].agent /\ row.issue = run[q].issue
        /\ row.losses = run[q].losses /\ row.child = run[q].child
    BY <2>1, <2>2 DEF RunRecords
  <2>4. run' = [run EXCEPT ![q] = row]
    BY <1>6, <2>2
  <2>5. RowsAdvance
    BY <1>3, <1>4, <2>3, <2>4, RowSet DEF Quiet
  <2>6. PICK g \in FrameRecords : g = [Top(t) EXCEPT !.at = "stamp", !.run = q]
    BY <1>3 DEF FrameRecords, Places
  <2>7. g.at = "stamp" /\ g.agent = Top(t).agent /\ g.todo = Top(t).todo /\ g.got = Top(t).got /\ g.run = q
    BY <1>3, <2>6 DEF FrameRecords
  <2>8. Quiet(q)
    BY <1>6 DEF IInv, RowsOK, Begun
  <2>9. Replaces(t, <<g>>) /\ <<g>> \in Seq(FrameRecords)
    BY <1>1, <1>6, <2>6, FramesReplace DEF Goto, IInv
  <2>10. QuietStays
    BY <1>1, <2>9, QuietKept DEF IInv
  <2>11. run' \in [Runs -> RunRecords] /\ run'[q] = row /\ \A p \in Runs \ {q} : run'[p] = run[p]
    BY <2>1, <2>4
  <2>12. \A p \in Runs : RowAdvances(p)
    BY <2>5 DEF RowsAdvance
  <2>13. FrameOK(t, g)'
    <3>1. startLock'[g.agent] = t /\ \A p \in g.todo : run'[p].agent = g.agent /\ run'[p].status # "none"
      BY <1>1, <1>3, <1>5, <2>7, <2>12 DEF FrameOK, RowAdvances, FrameRecords
    <3>2. ASSUME NEW p \in Runs, Claimed(g, p)
          PROVE  run'[p].status \notin {"none", "queued"} /\ stack'[Executor(p)] = <<>>
                 /\ run'[p].child = "none" /\ run'[p].agent = g.agent
      <4>1. CASE p = q
        BY <1>5, <2>3, <2>7, <2>8, <2>10, <2>11, <4>1 DEF Quiet, QuietStays
      <4>2. CASE p # q
        <5>1. Claimed(Top(t), p)
          BY <2>7, <3>2, <4>2 DEF Claimed
        <5>2. Begun(p) /\ Quiet(p) /\ run[p].agent = Top(t).agent
          BY <1>3, <5>1 DEF FrameOK
        <5> QED
          BY <2>7, <2>10, <2>11, <4>2, <5>2 DEF Quiet, QuietStays, Begun
      <4> QED
        BY <4>1, <4>2
    <3>3. (\A p \in Runs : Claimed(g, p) => Claiming(g) /\ Begun(p) /\ Quiet(p) /\ run[p].agent = g.agent)'
      BY <2>7, <3>2 DEF Claimed, Claiming, Begun, Quiet
    <3> QED
      BY <1>5, <2>7, <3>1, <3>3 DEF FrameOK, Claiming, Made
  <2>14. Goto(t, g)
    BY <1>6, <2>6
  <2> QED
    BY <1>1, <1>2, <1>5, <2>5, <2>7, <2>13, <2>14, TopStep
<1>7. CASE Goto(t, [Top(t) EXCEPT !.todo = @ \ {q}]) /\ UNCHANGED run
  <2>1. PICK g \in FrameRecords : g = [Top(t) EXCEPT !.todo = @ \ {q}]
    BY <1>3 DEF FrameRecords
  <2>2. g.at = "claim" /\ g.agent = Top(t).agent /\ g.todo \subseteq Top(t).todo /\ g.got = Top(t).got
    BY <1>1, <1>3, <2>1 DEF FrameRecords
  <2>3. FrameOK(t, g)
    BY <1>1, <1>3, <2>2 DEF FrameOK, Claiming, Claimed
  <2>4. Goto(t, g)
    BY <1>7, <2>1
  <2> QED
    BY <1>1, <1>2, <1>5, <1>7, <2>2, <2>3, <2>4, RowsUnchanged, TopStep
<1> QED
  BY <1>4, <1>6, <1>7 DEF ClaimRun, r

LEMMA ClaimStampStep ==
    ASSUME IInv, NEW t \in Threads, ClaimStamp(t)
    PROVE  IInv'
<1> DEFINE f == Top(t)
<1>1. stack[t] # <<>> /\ f.at = "stamp" /\ UNCHANGED <<invokable, blocked, run, wake, startLock, events>>
  BY DEF ClaimStamp, At
<1>2. f \in FrameRecords /\ FrameOK(t, f) /\ f.agent \in Agents /\ f.run \in Runs /\ Claiming(f)
  BY <1>1, ClaimFacts DEF FrameOK, Claiming
<1>3. RowsAdvance /\ WakesAdvance
  BY <1>1, RowsUnchanged, WakesUnchanged
<1>4. OthersTyped
  <2>1. /\ invokable \in [Agents -> BOOLEAN] /\ blocked \in BOOLEAN /\ events \in [Events -> Nat]
        /\ lock \in [Issues -> Runs \cup {None}] /\ lockName \in [Issues -> Agents \cup {NoAgent}]
    BY TypeFacts DEF IInv
  <2>2. /\ lock' = lock \/ lock' = [lock EXCEPT ![run[f.run].issue] = f.run]
        /\ lockName' = lockName \/ lockName' = [lockName EXCEPT ![run[f.run].issue] = f.agent]
    BY DEF ClaimStamp
  <2> HIDE DEF f
  <2>3. lock' \in [Issues -> Runs \cup {None}]
    BY <1>2, <2>1, <2>2
  <2>4. lockName' \in [Issues -> Agents \cup {NoAgent}]
    BY <1>2, <2>1, <2>2
  <2> QED
    BY <1>1, <2>1, <2>3, <2>4 DEF OthersTyped
<1>5. PICK g \in FrameRecords : g = [f EXCEPT !.at = "claim", !.run = None,
                                              !.todo = @ \ {f.run}, !.got = @ \cup {f.run}]
  BY <1>2, ConstantFacts DEF FrameRecords, Places
<1>6. /\ g.at = "claim" /\ g.agent = f.agent /\ g.todo \subseteq f.todo /\ g.got = f.got \cup {f.run}
  BY <1>2, <1>5 DEF FrameRecords
<1>7. \A r \in Runs : Claimed(g, r) => Claimed(f, r)
  BY <1>1, <1>6 DEF Claimed
<1>8. FrameOK(t, g)
  BY <1>1, <1>2, <1>6, <1>7 DEF FrameOK, Claiming
<1>9. Goto(t, g)
  BY <1>5 DEF ClaimStamp
<1> QED
  BY <1>1, <1>2, <1>3, <1>4, <1>6, <1>8, <1>9, TopStep
\* The lock is let go, and the runs that were claimed under it have a thread of
\* their own: no other frame claims for the agent.
LEMMA StartRunsFacts ==
    ASSUME IInv, NEW t \in Threads, StartRuns(t)
    PROVE  /\ stack[t] # <<>> /\ Top(t).at = "claim" /\ Top(t).agent \in Agents
           /\ stack' \in [Threads -> Seq(FrameRecords)]
           /\ \A u \in Threads :
                \/ u = t /\ stack'[u] = Tail(stack[u])
                \/ u # t /\ stack'[u] = stack[u]
                \/ /\ u # t /\ stack[u] = <<>>
                   /\ \E r \in Top(t).got : /\ u = Executor(r) /\ run[r].agent = Top(t).agent /\ Begun(r)
                                            /\ stack'[u] = <<Frame("begin", Top(t).home, r, Top(t).agent, {})>>
           /\ \A u \in Threads : \A k \in DOMAIN stack[u] :
                Claiming(stack[u][k]) /\ stack[u][k].agent = Top(t).agent => u = t /\ k = 1
           /\ Top(t).got \subseteq Runs
<1> DEFINE f == Top(t)
<1>1. stack[t] # <<>> /\ f.at = "claim"
  BY DEF StartRuns, At
<1>2. f \in FrameRecords /\ FrameOK(t, f) /\ f.agent \in Agents /\ Claiming(f) /\ f.home \in Homes
      /\ f.got \subseteq Runs
  BY <1>1, ClaimFacts DEF Claiming
<1>3. stack' = [u \in Threads |->
            IF u = t THEN Tail(stack[t])
            ELSE IF \E r \in f.got : u = Executor(r)
            THEN <<Frame("begin", f.home, u[2], f.agent, {})>>
            ELSE stack[u]]
  BY DEF StartRuns
<1>4. stack \in [Threads -> Seq(FrameRecords)]
  BY TypeFacts DEF IInv
<1> HIDE DEF f
<1>5. ASSUME NEW u \in Threads
      PROVE  /\ \/ u = t /\ stack'[u] = Tail(stack[u])
                \/ u # t /\ stack'[u] = stack[u]
                \/ /\ u # t /\ stack[u] = <<>>
                   /\ \E r \in f.got : /\ u = Executor(r) /\ run[r].agent = f.agent /\ Begun(r)
                                       /\ stack'[u] = <<Frame("begin", f.home, r, f.agent, {})>>
             /\ stack'[u] \in Seq(FrameRecords)
  <2>1. CASE u = t
    <3>1. stack'[u] = Tail(stack[u])
      BY <1>3, <2>1
    <3>2. stack[u] \in Seq(FrameRecords) /\ stack[u] # <<>>
      BY <1>1, <1>4, <2>1
    <3> QED
      BY <2>1, <3>1, <3>2
  <2>2. CASE u # t /\ \E r \in f.got : u = Executor(r)
    <3>1. PICK r \in f.got : u = Executor(r)
      BY <2>2
    <3>2. r \in Runs /\ Claimed(f, r)
      BY <1>2 DEF Claimed
    <3>3. Begun(r) /\ Quiet(r) /\ run[r].agent = f.agent
      BY <1>2, <3>2 DEF FrameOK
    <3>4. u[2] = r
      BY <3>1, <3>2, ExecutorFacts
    <3>5. stack'[u] = <<Frame("begin", f.home, r, f.agent, {})>>
      BY <1>3, <2>2, <3>4
    <3>6. Frame("begin", f.home, r, f.agent, {}) \in FrameRecords
      BY <1>2, <3>2 DEF Frame, FrameRecords, Places
    <3>7. stack'[u] \in Seq(FrameRecords)
      BY <3>5, <3>6
    <3> QED
      BY <2>2, <3>1, <3>3, <3>5, <3>7 DEF Quiet
  <2>3. CASE u # t /\ ~ \E r \in f.got : u = Executor(r)
    <3>1. stack'[u] = stack[u]
      BY <1>3, <2>3
    <3> QED
      BY <1>4, <2>3, <3>1
  <2> QED
    BY <2>1, <2>2, <2>3
<1>6. stack' \in [Threads -> Seq(FrameRecords)]
  BY <1>3, <1>5
<1>7. ASSUME NEW u \in Threads, NEW k \in DOMAIN stack[u], Claiming(stack[u][k]), stack[u][k].agent = f.agent
      PROVE  u = t /\ k = 1
  <2>1. FrameOK(u, stack[u][k])
    BY DEF IInv, FramesOK
  <2>2. u = t
    BY <1>2, <1>7, <2>1 DEF FrameOK
  <2>3. 1 \in DOMAIN stack[t] /\ stack[t][1] = f
    BY <1>1, TopFacts DEF IInv, f
  <2> QED
    BY <1>2, <1>7, <2>2, <2>3 DEF IInv, OneClaimer
<1> QED
  BY <1>1, <1>2, <1>5, <1>6, <1>7 DEF f

LEMMA StartRunsStep ==
    ASSUME IInv, NEW t \in Threads, StartRuns(t)
    PROVE  IInv'
<1>1. PICK a \in Agents : a = Top(t).agent
  BY StartRunsFacts
<1>2. UNCHANGED <<invokable, blocked, run, lock, lockName, wake, events>>
      /\ startLock' = [startLock EXCEPT ![a] = NoThread]
  BY <1>1 DEF StartRuns, rows
<1>3. RowsAdvance /\ WakesAdvance /\ OthersTyped
  BY <1>2, RowsUnchanged, WakesUnchanged, OthersUnchanged
<1>4. startLock \in [Agents -> Threads \cup {NoThread}]
  BY TypeFacts DEF IInv
<1>5. startLock' \in [Agents -> Threads \cup {NoThread}] /\ \A b \in Agents \ {a} : startLock'[b] = startLock[b]
  BY <1>2, <1>4
<1>6. Typed'
  BY <1>3, <1>5, StartRunsFacts, TypedAgain DEF RowsAdvance, WakesAdvance, OthersTyped
\* What the others have claimed stays quiet.
<1>7. ASSUME NEW r \in Runs, Quiet(r), run[r].agent # a \/ ~Begun(r)
      PROVE  stack'[Executor(r)] = <<>> /\ run'[r].child = "none"
  <2>1. Executor(r) \in Threads /\ stack[Executor(r)] = <<>>
    BY <1>7, ThreadFacts DEF Quiet
  <2>2. Executor(r) # t
    BY <2>1, StartRunsFacts
  <2>3. ASSUME NEW q \in Top(t).got, Executor(r) = Executor(q), run[q].agent = Top(t).agent, Begun(q)
        PROVE  FALSE
    <3>1. q \in Runs /\ q = r
      BY <2>3, ExecutorFacts, StartRunsFacts
    <3> QED
      BY <1>1, <1>7, <2>3, <3>1
  <2>4. stack'[Executor(r)] = stack[Executor(r)]
    BY <2>1, <2>2, <2>3, StartRunsFacts
  <2> QED
    BY <1>2, <1>7, <2>1, <2>4 DEF Quiet
<1>8. ASSUME NEW u \in Threads, NEW x \in FrameRecords, FrameOK(u, x), ~(Claiming(x) /\ x.agent = a)
      PROVE  FrameOK(u, x)'
  <2>1. Claiming(x) => startLock'[x.agent] = u
    BY <1>5, <1>8 DEF FrameOK, Claiming
  <2>2. ASSUME NEW r \in Runs, Claimed(x, r)
        PROVE  Claiming(x) /\ Begun(r) /\ stack'[Executor(r)] = <<>> /\ run'[r].child = "none"
               /\ run[r].agent = x.agent
    <3>1. Claiming(x) /\ Begun(r) /\ Quiet(r) /\ run[r].agent = x.agent
      BY <1>8, <2>2 DEF FrameOK
    <3> QED
      BY <1>7, <1>8, <3>1
  <2>3. (\A r \in Runs : Claimed(x, r) => Claiming(x) /\ Begun(r) /\ Quiet(r) /\ run[r].agent = x.agent)'
    BY <1>2, <2>2 DEF Claimed, Claiming, Begun, Quiet
  <2>4. run' = run
    BY <1>2
  <2> QED
    BY <1>8, <2>1, <2>3, <2>4 DEF FrameOK, Claiming, Made, Begun
<1>9. \A u \in Threads : \A k \in DOMAIN stack'[u] :
        \/ /\ u = t /\ k \in Nat /\ k + 1 \in DOMAIN stack[u] /\ k + 1 # 1 /\ stack'[u][k] = stack[u][k + 1]
        \/ u # t /\ stack'[u] = stack[u]
        \/ \E r \in Runs : /\ u = Executor(r) /\ run[r].agent = a /\ Begun(r)
                           /\ k = 1 /\ stack'[u][k] = Frame("begin", Top(t).home, r, a, {})
  <2> SUFFICES ASSUME NEW u \in Threads, NEW k \in DOMAIN stack'[u]
               PROVE  \/ /\ u = t /\ k \in Nat /\ k + 1 \in DOMAIN stack[u] /\ k + 1 # 1
                         /\ stack'[u][k] = stack[u][k + 1]
                      \/ u # t /\ stack'[u] = stack[u]
                      \/ \E r \in Runs : /\ u = Executor(r) /\ run[r].agent = a /\ Begun(r)
                                         /\ k = 1 /\ stack'[u][k] = Frame("begin", Top(t).home, r, a, {})
    OBVIOUS
  <2>1. CASE u = t /\ stack'[u] = Tail(stack[u])
    <3>1. stack[u] \in Seq(FrameRecords) /\ stack[u] # <<>>
      BY <2>1, StartRunsFacts, TypeFacts DEF IInv
    <3> QED
      BY <2>1, <3>1
  <2>2. CASE \E r \in Top(t).got : /\ u = Executor(r) /\ run[r].agent = Top(t).agent /\ Begun(r)
                                   /\ stack'[u] = <<Frame("begin", Top(t).home, r, Top(t).agent, {})>>
    <3>1. PICK r \in Top(t).got : /\ u = Executor(r) /\ run[r].agent = Top(t).agent /\ Begun(r)
                                  /\ stack'[u] = <<Frame("begin", Top(t).home, r, Top(t).agent, {})>>
      BY <2>2
    <3>2. r \in Runs
      BY StartRunsFacts
    <3>3. k = 1 /\ stack'[u][k] = Frame("begin", Top(t).home, r, a, {})
      BY <1>1, <3>1
    <3> QED
      BY <1>1, <3>1, <3>2, <3>3
  <2> QED
    BY <2>1, <2>2, StartRunsFacts
<1>10. \A u \in Threads : \A k \in DOMAIN stack[u] :
         Claiming(stack[u][k]) /\ stack[u][k].agent = a => u = t /\ k = 1
  BY <1>1, StartRunsFacts
<1>11. ASSUME NEW u \in Threads, NEW k \in DOMAIN stack[u], u # t \/ k # 1, NEW x, x = stack[u][k]
       PROVE  FrameOK(u, x)'
  <2>1. x \in FrameRecords /\ FrameOK(u, x)
    BY <1>11, FrameInStack DEF IInv, FramesOK
  <2>2. ~(Claiming(x) /\ x.agent = a)
    BY <1>10, <1>11
  <2> QED
    BY <1>8, <2>1, <2>2
<1>12. FramesOK'
  <2> SUFFICES ASSUME NEW u \in Threads, NEW k \in DOMAIN stack'[u], NEW x, x = stack'[u][k]
               PROVE  FrameOK(u, x)'
    BY DEF FramesOK
  <2>1. CASE u = t /\ k + 1 \in DOMAIN stack[u] /\ k + 1 # 1 /\ stack'[u][k] = stack[u][k + 1]
    BY <1>11, <2>1
  <2>2. CASE u # t /\ stack'[u] = stack[u]
    BY <1>11, <2>2
  <2>3. CASE \E r \in Runs : /\ u = Executor(r) /\ run[r].agent = a /\ Begun(r)
                             /\ stack'[u][k] = Frame("begin", Top(t).home, r, a, {})
    <3>1. PICK r \in Runs : u = Executor(r) /\ x = Frame("begin", Top(t).home, r, a, {})
      BY <2>3
    <3>2. x.at = "begin" /\ x.run = r /\ x.todo = {} /\ x.got = {}
      BY <3>1 DEF Frame
    <3> QED
      BY <3>1, <3>2 DEF FrameOK, Claiming, Claimed
  <2> QED
    BY <1>9, <2>1, <2>2, <2>3
<1>13. OneClaimer'
  <2> SUFFICES ASSUME NEW u \in Threads, NEW j \in DOMAIN stack'[u], NEW k \in DOMAIN stack'[u],
                      Claiming(stack'[u][j]), Claiming(stack'[u][k]),
                      stack'[u][j].agent = stack'[u][k].agent
               PROVE  j = k
    BY DEF OneClaimer, Claiming
  <2>1. ASSUME NEW r \in Runs, NEW m, m \in {j, k}, stack'[u][m] = Frame("begin", Top(t).home, r, a, {})
        PROVE  FALSE
    BY <2>1 DEF Frame, Claiming
  <2>2. CASE u = t
    <3>1. j \in Nat /\ k \in Nat /\ j + 1 \in DOMAIN stack[u] /\ k + 1 \in DOMAIN stack[u]
          /\ stack'[u][j] = stack[u][j + 1] /\ stack'[u][k] = stack[u][k + 1]
      BY <1>9, <2>1, <2>2
    <3>2. j + 1 = k + 1
      BY <3>1 DEF IInv, OneClaimer
    <3> QED
      BY <3>1, <3>2
  <2>3. CASE u # t /\ stack'[u] = stack[u]
    BY <2>3 DEF IInv, OneClaimer
  <2> QED
    BY <1>9, <2>1, <2>2, <2>3
<1>14. RowsOK'
  <2>1. MadeOK'
    BY <1>3 DEF RowsAdvance
  <2>2. (\A r \in Runs : ~Begun(r) => Quiet(r))'
    BY <1>2, <1>7 DEF IInv, RowsOK, Begun, Quiet
  <2>3. \A w \in Wakes : wake'[w].status = "none" => stack'[Waker(w)] = <<>>
    <3> SUFFICES ASSUME NEW w \in Wakes, wake[w].status = "none"
                 PROVE  stack'[Waker(w)] = <<>>
      BY <1>2
    <3>1. Waker(w) \in Threads /\ stack[Waker(w)] = <<>>
      BY ThreadFacts DEF IInv, RowsOK
    <3>2. Waker(w) # t /\ \A r \in Runs : Waker(w) # Executor(r)
      BY <3>1, StartRunsFacts, ExecutorFacts
    <3> QED
      BY <3>1, <3>2, StartRunsFacts
  <2> QED
    BY <1>3, <2>1, <2>2, <2>3 DEF RowsOK, MadeOK, WakesAdvance
<1> QED
  BY <1>3, <1>6, <1>12, <1>13, <1>14 DEF IInv, RowsAdvance
-----------------------------------------------------------------------------
(* The release of an issue.                                                 *)

\* A stack of two frames.
LEMMA TwoFrames ==
    ASSUME NEW f, NEW g
    PROVE  <<f>> \o <<g>> = <<f, g>>
<1> DEFINE S == {f, g}
<1>1. /\ <<f>> \in Seq(S) /\ <<g>> \in Seq(S) /\ <<f, g>> \in Seq(S)
      /\ Len(<<f>>) = 1 /\ Len(<<g>>) = 1 /\ Len(<<f, g>>) = 2
  OBVIOUS
<1>2. <<f>> \o <<g>> \in Seq(S) /\ Len(<<f>> \o <<g>>) = 2
  BY <1>1
<1>3. (<<f>> \o <<g>>)[1] = f /\ (<<f>> \o <<g>>)[2] = g
  BY <1>1
<1>4. \A k \in 1..2 : (<<f>> \o <<g>>)[k] = <<f, g>>[k]
  BY <1>3
<1> HIDE DEF S
<1> QED
  BY <1>1, <1>2, <1>4, SeqEqual

\* A stack of three frames.
LEMMA ThreeFrames ==
    ASSUME NEW f, NEW g, NEW h
    PROVE  <<f>> \o <<g, h>> = <<f, g, h>>
<1> DEFINE S == {f, g, h}
<1>1. /\ <<f>> \in Seq(S) /\ <<g, h>> \in Seq(S) /\ <<f, g, h>> \in Seq(S)
      /\ Len(<<f>>) = 1 /\ Len(<<g, h>>) = 2 /\ Len(<<f, g, h>>) = 3
  OBVIOUS
<1>2. <<f>> \o <<g, h>> \in Seq(S) /\ Len(<<f>> \o <<g, h>>) = 3
  BY <1>1
<1>3. (<<f>> \o <<g, h>>)[1] = f /\ (<<f>> \o <<g, h>>)[2] = g /\ (<<f>> \o <<g, h>>)[3] = h
  BY <1>1
<1>4. \A k \in 1..3 : (<<f>> \o <<g, h>>)[k] = <<f, g, h>>[k]
  BY <1>3
<1> HIDE DEF S
<1> QED
  BY <1>1, <1>2, <1>4, SeqEqual

\* What a release does to the rows, the wakeups and the lock.
LEMMA ReleaseFacts ==
    ASSUME IInv, NEW t \in Threads, NEW r \in Runs, NEW rest, Release(t, r, rest),
           UNCHANGED <<invokable, blocked>>, events' \in [Events -> Nat]
    PROVE  /\ RowsAdvance /\ WakesAdvance /\ OthersTyped
           /\ \/ Frames(t, rest)
              \/ \E a \in Agents : Frames(t, <<StartFrame(a, Top(t).home)>> \o rest)
           /\ run' = run \/ (Room /\ \E a \in Agents, i \in Issues :
                                run' = [run EXCEPT ![NextRun] = Queued(a, i, "wake", 0)])
           /\ \A i \in Issues : lock'[i] # lock[i] => lock[i] = r
<1> DEFINE i == CHOOSE x \in Issues : lock[x] = r
           able == {w \in DeferredFor(i) : invokable[wake[w].agent]}
           first == Min(able)
           a == wake[first].agent
           passed == {w \in DeferredFor(i) : able = {} \/ w < first}
           failed == [w \in Wakes |-> IF w \in passed THEN Settled("failed") ELSE wake[w]]
<1>1. /\ invokable \in [Agents -> BOOLEAN] /\ blocked \in BOOLEAN
      /\ lock \in [Issues -> Runs \cup {None}] /\ lockName \in [Issues -> Agents \cup {NoAgent}]
      /\ wake \in [Wakes -> WakeRecords]
  BY TypeFacts DEF IInv
<1>2. Settled("failed") \in WakeRecords /\ Settled("failed").status = "failed"
      /\ Settled("queued") \in WakeRecords /\ Settled("queued").status = "queued"
  BY DEF Settled, NoWake, WakeRecords
<1>3. /\ failed \in [Wakes -> WakeRecords]
      /\ \A w \in Wakes : failed[w] = wake[w] \/ failed[w] = Settled("failed")
  BY <1>1, <1>2
<1>4. \A w \in Wakes : wake[w].status = "deferred" => wake[w].agent \in Agents
  BY DEF IInv, RowsOK
<1>5. CASE /\ Frames(t, rest) /\ UNCHANGED <<run, lock, lockName, wake>>
  <2>1. OthersTyped
    BY <1>1, <1>5 DEF OthersTyped
  <2> QED
    BY <1>5, <2>1, RowsUnchanged, WakesUnchanged
<1>6. CASE /\ \E x \in Issues : lock[x] = r
           /\ able = {}
           /\ lock' = [lock EXCEPT ![i] = None]
           /\ lockName' = [lockName EXCEPT ![i] = NoAgent]
           /\ wake' = failed
           /\ Frames(t, rest)
           /\ UNCHANGED run
  <2>1. i \in Issues /\ lock[i] = r
    BY <1>6
  <2> HIDE DEF i, failed
  <2>2. WakesAdvance
    BY <1>2, <1>3, <1>4, <1>6 DEF WakesAdvance
  <2>3. lock' \in [Issues -> Runs \cup {None}] /\ lockName' \in [Issues -> Agents \cup {NoAgent}]
        /\ \A j \in Issues \ {i} : lock'[j] = lock[j]
    BY <1>1, <1>6, <2>1
  <2>4. OthersTyped
    BY <1>1, <2>3 DEF OthersTyped
  <2> QED
    BY <1>6, <2>1, <2>2, <2>3, <2>4, RowsUnchanged
<1>7. CASE /\ \E x \in Issues : lock[x] = r
           /\ able # {} /\ Room
           /\ run' = [run EXCEPT ![NextRun] = Queued(a, i, "wake", 0)]
           /\ lock' = [lock EXCEPT ![i] = NextRun]
           /\ lockName' = [lockName EXCEPT ![i] = a]
           /\ wake' = [failed EXCEPT ![first] = Settled("queued")]
           /\ Frames(t, <<StartFrame(a, Top(t).home)>> \o rest)
  <2>1. i \in Issues /\ lock[i] = r
    BY <1>7
  <2>2. able \subseteq Wakes /\ able \subseteq Nat /\ \A w \in able : wake[w].status = "deferred"
    BY ConstantFacts DEF DeferredFor
  <2> HIDE DEF able
  <2>3. first \in able /\ first \in Wakes
    BY <1>7, <2>2, MinIsMember
  <2>4. a \in Agents
    BY <1>4, <2>2, <2>3
  <2> HIDE DEF i, failed, first, a
  <2>5. NextRun \in Runs
    BY <1>7, NextRunFacts
  <2>6. WakesAdvance
    <3>1. wake' \in [Wakes -> WakeRecords]
          /\ \A w \in Wakes : wake'[w] = IF w = first THEN Settled("queued") ELSE failed[w]
      BY <1>2, <1>3, <1>7, <2>3
    <3>2. wake[first].status = "deferred"
      BY <2>2, <2>3
    <3> QED
      BY <1>2, <1>3, <1>4, <3>1, <3>2 DEF WakesAdvance
  <2> HIDE DEF NextRun
  <2>7. lock' \in [Issues -> Runs \cup {None}] /\ lockName' \in [Issues -> Agents \cup {NoAgent}]
        /\ \A j \in Issues \ {i} : lock'[j] = lock[j]
    BY <1>1, <1>7, <2>1, <2>4, <2>5
  <2>8. OthersTyped
    BY <1>1, <2>7 DEF OthersTyped
  <2>9. RowsAdvance
    <3>1. "wake" \in {"wake", "mention", "lost", "comment"} /\ 0 \in 0..1
      OBVIOUS
    <3> QED
      BY <1>7, <2>1, <2>4, <3>1, RowNew
  <2> QED
    BY <1>7, <2>1, <2>4, <2>6, <2>7, <2>8, <2>9
<1> QED
  BY <1>5, <1>6, <1>7 DEF Release

\* Who releases goes on as g, after the start of the agent it has promoted.
LEMMA ReleaseStep ==
    ASSUME IInv, NEW t \in Threads, stack[t] # <<>>, NEW r \in Runs,
           NEW g \in FrameRecords, FrameOK(t, g), ~Claiming(g), Release(t, r, <<g>>),
           UNCHANGED <<invokable, blocked, startLock>>, events' \in [Events -> Nat]
    PROVE  IInv'
<1>1. RowsAdvance /\ WakesAdvance /\ OthersTyped
  BY ReleaseFacts
<1>2. CASE Frames(t, <<g>>)
  BY <1>1, <1>2, TopStep DEF Goto
<1>3. CASE \E a \in Agents : Frames(t, <<StartFrame(a, Top(t).home)>> \o <<g>>)
  <2>1. PICK a \in Agents : Frames(t, <<StartFrame(a, Top(t).home), g>>)
    BY <1>3, TwoFrames
  <2>2. PICK home \in Homes : home = Top(t).home
    BY ClaimFacts
  <2>3. PICK f \in FrameRecords : f = StartFrame(a, home) /\ f.at = "start" /\ FrameOK(t, f)'
    BY StartFrameOK
  <2>4. Frames(t, <<f, g>>) /\ ~Claiming(f)
    BY <2>1, <2>2, <2>3 DEF Claiming
  <2> QED
    BY <1>1, <2>3, <2>4, TwoStep
<1> QED
  BY <1>2, <1>3, ReleaseFacts

\* What the retry of a run does to the rows, the wakeups and the lock.
LEMMA RetryFacts ==
    ASSUME IInv, NEW r \in Runs, Made(r), NEW why \in {"lost", "comment"}, NEW losses \in 0..1,
           Retry(r, why, losses), UNCHANGED <<invokable, blocked>>, events' \in [Events -> Nat]
    PROVE  /\ RowsAdvance /\ WakesAdvance /\ OthersTyped
           /\ \A i \in Issues : lock'[i] # lock[i] => lock[i] = r
<1>1. PICK i \in Issues, a \in Agents : i = run[r].issue /\ a = run[r].agent
  BY DEF IInv, RowsOK
<1>2. Room /\ run' = [run EXCEPT ![NextRun] = Queued(a, i, why, losses)]
  BY <1>1 DEF Retry
<1>3. RowsAdvance
  <2>1. why \in {"wake", "mention", "lost", "comment"}
    OBVIOUS
  <2> QED
    BY <1>2, <2>1, RowNew
<1>4. WakesAdvance
  BY WakesUnchanged DEF Retry
<1>5. NextRun \in Runs
  BY <1>2, NextRunFacts
<1>6. lock' = [lock EXCEPT ![i] = IF @ = r THEN NextRun ELSE @]
      /\ lockName' = [lockName EXCEPT ![i] = IF lock[i] = r THEN a ELSE @]
  BY <1>1 DEF Retry
<1>7. /\ lock \in [Issues -> Runs \cup {None}] /\ lockName \in [Issues -> Agents \cup {NoAgent}]
      /\ invokable \in [Agents -> BOOLEAN] /\ blocked \in BOOLEAN
  BY TypeFacts DEF IInv
<1> HIDE DEF NextRun
<1>8. /\ lock' \in [Issues -> Runs \cup {None}] /\ lockName' \in [Issues -> Agents \cup {NoAgent}]
      /\ \A j \in Issues : lock'[j] # lock[j] => lock[j] = r
  BY <1>5, <1>6, <1>7
<1>9. OthersTyped
  BY <1>7, <1>8 DEF OthersTyped
<1> QED
  BY <1>3, <1>4, <1>8, <1>9
-----------------------------------------------------------------------------
(* The execution of a run.                                                  *)

\* An execution's frames are about its own run.
LEMMA ExecFacts ==
    ASSUME IInv, NEW r \in Runs, stack[Executor(r)] # <<>>
    PROVE  /\ Executor(r) \in Threads /\ Top(Executor(r)) \in FrameRecords
           /\ FrameOK(Executor(r), Top(Executor(r))) /\ Top(Executor(r)).home \in Homes
           /\ Begun(r) /\ Made(r) /\ run[r] \in RunRecords
           /\ run[r].agent \in Agents /\ run[r].issue \in Issues
<1>1. Begun(r) /\ Made(r)
  BY DEF IInv, RowsOK, Quiet, Begun, Made
<1>2. run[r].agent \in Agents /\ run[r].issue \in Issues
  BY <1>1 DEF IInv, RowsOK
<1> QED
  BY <1>1, <1>2, ThreadFacts, ClaimFacts, TypeFacts DEF IInv

\* A frame of an execution that goes on at another place.
LEMMA ExecFrame ==
    ASSUME IInv, NEW r \in Runs, stack[Executor(r)] # <<>>,
           Top(Executor(r)).at \in {"begin", "adapter", "finished", "cancelled", "ended"},
           NEW at \in {"adapter", "finished", "cancelled", "ended"},
           NEW g, g = [Top(Executor(r)) EXCEPT !.at = at]
    PROVE  /\ g \in FrameRecords /\ g.at = at /\ g.run = r
           /\ FrameOK(Executor(r), g) /\ ~Claiming(g)
<1> DEFINE t == Executor(r)
           f == Top(t)
<1>1. f \in FrameRecords /\ FrameOK(t, f)
  BY ExecFacts
<1>2. g \in FrameRecords /\ g.at = at /\ g.run = f.run /\ g.todo = f.todo /\ g.got = f.got
  BY <1>1 DEF FrameRecords, Places
<1>3. f.run = r
  BY <1>1, ExecutorFacts DEF FrameOK
<1>4. f.todo \subseteq Runs
  BY <1>1 DEF FrameRecords
<1> HIDE DEF f, t
<1>5. FrameOK(t, g)
  BY <1>1, <1>2, <1>4 DEF FrameOK, Claiming, Claimed, f, t
<1> QED
  BY <1>2, <1>3, <1>5 DEF Claiming, t

LEMMA ExecBeginStep ==
    ASSUME IInv, NEW r \in Runs, ExecBegin(r)
    PROVE  IInv'
<1> DEFINE t == Executor(r)
<1>1. stack[t] # <<>> /\ Top(t).at = "begin"
      /\ UNCHANGED <<invokable, blocked, lock, lockName, wake, startLock, events>>
  BY DEF ExecBegin, At
<1>2. WakesAdvance /\ OthersTyped
  BY <1>1, WakesUnchanged, OthersUnchanged
<1>3. t \in Threads /\ Made(r) /\ Begun(r) /\ run[r] \in RunRecords
  BY <1>1, ExecFacts
<1>4. CASE /\ run' = [run EXCEPT ![r].child = IF run[r].agent \in LocalAgents THEN "alive" ELSE @]
           /\ Goto(t, [Top(t) EXCEPT !.at = "adapter"])
  <2>1. PICK row \in RunRecords :
           row = [run[r] EXCEPT !.child = IF run[r].agent \in LocalAgents THEN "alive" ELSE @]
    BY <1>3 DEF RunRecords
  <2>2. /\ row.status = run[r].status /\ row.agent = run[r].agent /\ row.issue = run[r].issue
        /\ row.losses = run[r].losses
    BY <1>3, <2>1 DEF RunRecords
  <2>3. run' = [run EXCEPT ![r] = row]
    BY <1>4, <2>1
  <2>4. RowsAdvance
    BY <1>1, <1>3, <2>2, <2>3, RowSet DEF Begun, Quiet
  <2>5. PICK g : g = [Top(t) EXCEPT !.at = "adapter"]
    OBVIOUS
  <2>6. g \in FrameRecords /\ FrameOK(t, g) /\ ~Claiming(g)
    BY <1>1, <2>5, ExecFrame
  <2>7. Goto(t, g)
    BY <1>4, <2>5
  <2> QED
    BY <1>1, <1>2, <1>3, <2>4, <2>6, <2>7, TopStep
<1>5. CASE Return(t) /\ UNCHANGED run
  BY <1>1, <1>2, <1>3, <1>5, RowsUnchanged, PopStep
<1> QED
  BY <1>4, <1>5 DEF ExecBegin

LEMMA ExecReturnStep ==
    ASSUME IInv, NEW r \in Runs, ExecReturn(r)
    PROVE  IInv'
<1> DEFINE t == Executor(r)
<1>1. stack[t] # <<>> /\ Top(t).at = "adapter"
      /\ UNCHANGED <<invokable, blocked, lock, lockName, wake, startLock, events>>
      /\ run' = [run EXCEPT ![r].child = IF @ = "alive" THEN "dead" ELSE @]
  BY DEF ExecReturn, At
<1>2. WakesAdvance /\ OthersTyped
  BY <1>1, WakesUnchanged, OthersUnchanged
<1>3. t \in Threads /\ Made(r) /\ Begun(r) /\ run[r] \in RunRecords
  BY <1>1, ExecFacts
<1>4. PICK row \in RunRecords : row = [run[r] EXCEPT !.child = IF @ = "alive" THEN "dead" ELSE @]
  BY <1>3 DEF RunRecords
<1>5. /\ row.status = run[r].status /\ row.agent = run[r].agent /\ row.issue = run[r].issue
      /\ row.losses = run[r].losses
  BY <1>3, <1>4 DEF RunRecords
<1>6. run' = [run EXCEPT ![r] = row]
  BY <1>1, <1>4
<1>7. RowsAdvance
  BY <1>1, <1>3, <1>5, <1>6, RowSet DEF Begun, Quiet
<1>8. PICK outcome \in {"finished", "cancelled"} : Goto(t, [Top(t) EXCEPT !.at = outcome])
  BY DEF ExecReturn
<1>9. PICK g : g = [Top(t) EXCEPT !.at = outcome]
  OBVIOUS
<1>10. g \in FrameRecords /\ FrameOK(t, g) /\ ~Claiming(g)
  BY <1>1, <1>9, ExecFrame
<1>11. Goto(t, g)
  BY <1>8, <1>9
<1> QED
  BY <1>1, <1>2, <1>3, <1>7, <1>10, <1>11, TopStep

LEMMA ExecRecordStep ==
    ASSUME IInv, NEW r \in Runs, ExecRecord(r)
    PROVE  IInv'
<1> DEFINE t == Executor(r)
<1>1. stack[t] # <<>> /\ Top(t).at \in {"finished", "cancelled"}
      /\ UNCHANGED <<invokable, blocked, lock, lockName, wake, startLock, events>>
  BY DEF ExecRecord, At
<1>2. WakesAdvance /\ OthersTyped
  BY <1>1, WakesUnchanged, OthersUnchanged
<1>3. t \in Threads /\ Made(r) /\ Begun(r) /\ run[r] \in RunRecords
  BY <1>1, ExecFacts
<1>4. PICK row \in RunRecords : row = [run[r] EXCEPT !.status = Top(t).at]
  BY <1>1, <1>3 DEF RunRecords
<1>5. /\ row.status \in {"finished", "cancelled"} /\ row.agent = run[r].agent /\ row.issue = run[r].issue
      /\ row.losses = run[r].losses /\ row.child = run[r].child
  BY <1>1, <1>3, <1>4 DEF RunRecords
<1>6. run' = [run EXCEPT ![r] = row]
  BY <1>4 DEF ExecRecord
<1>7. RowsAdvance
  BY <1>3, <1>5, <1>6, RowSet DEF Quiet
<1>8. PICK g : g = [Top(t) EXCEPT !.at = "ended"]
  OBVIOUS
<1>9. g \in FrameRecords /\ FrameOK(t, g) /\ ~Claiming(g)
  BY <1>1, <1>8, ExecFrame
<1>10. Goto(t, g)
  BY <1>8 DEF ExecRecord
<1> QED
  BY <1>1, <1>2, <1>3, <1>7, <1>9, <1>10, TopStep

LEMMA ExecReleaseStep ==
    ASSUME IInv, NEW r \in Runs, ExecRelease(r)
    PROVE  IInv'
<1> DEFINE t == Executor(r)
<1>1. stack[t] # <<>> /\ Top(t).at = "ended" /\ UNCHANGED <<invokable, blocked, startLock>>
  BY DEF ExecRelease, At
<1>2. t \in Threads /\ Made(r) /\ run[r].agent \in Agents /\ Top(t).home \in Homes
  BY <1>1, ExecFacts
<1>3. PICK g : g = StartFrame(run[r].agent, Top(t).home)
  OBVIOUS
<1>4. g \in FrameRecords /\ g.at = "start" /\ ~Claiming(g) /\ FrameOK(t, g)
  <2>1. g \in FrameRecords /\ g.at = "start" /\ g.agent \in Agents /\ g.todo = {} /\ g.got = {}
    BY <1>2, <1>3, StartFrameOK DEF StartFrame, Frame
  <2> QED
    BY <2>1 DEF FrameOK, Claiming, Claimed
<1>5. CASE Release(t, r, <<g>>) /\ UNCHANGED events
  <2>1. events' \in [Events -> Nat]
    BY <1>5, TypeFacts DEF IInv
  <2> QED
    BY <1>1, <1>2, <1>4, <1>5, <2>1, ReleaseStep
<1>6. CASE RetryComment(r) /\ Happens("comment") /\ Frames(t, <<g>>)
  <2>1. events' \in [Events -> Nat]
    BY <1>6, EventCounted DEF Events
  <2>2. Retry(r, "comment", 0)
    BY <1>6 DEF RetryComment
  <2>3. RowsAdvance /\ WakesAdvance /\ OthersTyped
    BY <1>1, <1>2, <2>1, <2>2, RetryFacts
  <2> QED
    BY <1>1, <1>2, <1>4, <1>6, <2>3, TopStep DEF Goto
<1> QED
  BY <1>3, <1>5, <1>6 DEF ExecRelease
-----------------------------------------------------------------------------
(* Cancellations, pauses, budget stops.                                     *)

\* A run that is killed, and a frame that goes on with another run.
LEMMA KillFacts ==
    ASSUME IInv, NEW r \in Runs, Made(r), run' = [run EXCEPT ![r] = Kill(@, r)]
    PROVE  RowsAdvance /\ run'[r].status = "cancelled"
           /\ run'[r].child \in {run[r].child, "dead"} /\ \A q \in Runs \ {r} : run'[q] = run[q]
<1>1. run \in [Runs -> RunRecords]
  BY TypeFacts DEF IInv
<1>2. PICK row \in RunRecords : row = Kill(run[r], r)
  BY <1>1 DEF Kill, RunRecords
<1>3. /\ row.status = "cancelled" /\ row.agent = run[r].agent /\ row.issue = run[r].issue
      /\ row.losses = run[r].losses /\ row.child \in {run[r].child, "dead"}
      /\ (run[r].child = "none" => row.child = "none")
  BY <1>1, <1>2 DEF Kill, RunRecords
<1>4. run' = [run EXCEPT ![r] = row]
  BY <1>2
<1>5. RowsAdvance
  BY <1>3, <1>4, RowSet DEF Quiet
<1> QED
  BY <1>1, <1>3, <1>4, <1>5

LEMMA CancelCallStep ==
    ASSUME IInv, NEW r \in Runs, CancelCall(r)
    PROVE  IInv'
<1> DEFINE t == Canceller(r)
<1>1. stack[t] = <<>> /\ Live(r) /\ Happens("cancel") /\ UNCHANGED <<rows, startLock>>
  BY DEF CancelCall
<1>2. events' \in [Events -> Nat]
  BY <1>1, EventCounted DEF Events
<1>3. RowsAdvance /\ WakesAdvance /\ OthersTyped
  <2>1. OthersTyped
    BY <1>1, <1>2, TypeFacts DEF IInv, OthersTyped, rows
  <2> QED
    BY <1>1, <2>1, RowsUnchanged, WakesUnchanged DEF rows
<1>4. Made(r)
  BY <1>1 DEF Live, Made
<1>5. PICK f : f = CancelFrame(r, "routes")
  OBVIOUS
<1>6. f \in FrameRecords /\ f.at = "cancel" /\ FrameOK(t, f)'
  BY <1>3, <1>4, <1>5, CancelFrameOK DEF IInv, RowsOK, MadeOK, Homes
<1>7. stack' = [stack EXCEPT ![t] = <<f>>] /\ ~Claiming(f)
  BY <1>5, <1>6 DEF CancelCall, Claiming
<1>8. t \in Threads /\ (\A q \in Runs : t # Executor(q)) /\ \A w \in Wakes : t # Waker(w)
  BY ThreadFacts, ExecutorFacts, WakerFacts
<1> QED
  BY <1>1, <1>3, <1>6, <1>7, <1>8, PushStep

LEMMA CancelSetStep ==
    ASSUME IInv, NEW t \in Threads, CancelSet(t)
    PROVE  IInv'
<1>1. stack[t] # <<>> /\ Top(t).at = "cancel"
      /\ UNCHANGED <<invokable, blocked, lock, lockName, wake, startLock, events>>
  BY DEF CancelSet, At
<1>2. WakesAdvance /\ OthersTyped
  BY <1>1, WakesUnchanged, OthersUnchanged
<1>3. /\ Top(t) \in FrameRecords /\ FrameOK(t, Top(t)) /\ Top(t).run \in Runs /\ Made(Top(t).run)
      /\ Top(t).agent \in Agents
  BY <1>1, ClaimFacts DEF FrameOK
<1>4. CASE /\ run' = [run EXCEPT ![Top(t).run] = Kill(@, Top(t).run)]
           /\ Goto(t, [Top(t) EXCEPT !.at = "cancelRelease"])
  <2>1. RowsAdvance
    BY <1>3, <1>4, KillFacts
  <2>2. PICK g \in FrameRecords : g = [Top(t) EXCEPT !.at = "cancelRelease"]
    BY <1>3 DEF FrameRecords, Places
  <2>3. g.at = "cancelRelease" /\ g.run = Top(t).run /\ g.todo = Top(t).todo /\ g.got = Top(t).got
        /\ g.agent = Top(t).agent
    BY <1>3, <2>2 DEF FrameRecords
  <2>4. FrameOK(t, g) /\ ~Claiming(g)
    BY <1>1, <1>3, <2>3 DEF FrameOK, Claiming, Claimed
  <2>5. Goto(t, g)
    BY <1>4, <2>2
  <2> QED
    BY <1>1, <1>2, <2>1, <2>4, <2>5, TopStep
<1>5. CASE Return(t) /\ UNCHANGED run
  BY <1>1, <1>2, <1>5, RowsUnchanged, PopStep
<1> QED
  BY <1>4, <1>5 DEF CancelSet

LEMMA CancelReleaseStep ==
    ASSUME IInv, NEW t \in Threads, CancelRelease(t)
    PROVE  IInv'
<1>1. stack[t] # <<>> /\ Top(t).at = "cancelRelease" /\ UNCHANGED <<invokable, blocked, startLock, events>>
  BY DEF CancelRelease, At
<1>2. Top(t).run \in Runs /\ Top(t).agent \in Agents /\ Top(t).home \in Homes
  BY <1>1, ClaimFacts DEF FrameOK
<1>3. PICK g : g = StartFrame(Top(t).agent, Top(t).home)
  OBVIOUS
<1>4. g \in FrameRecords /\ ~Claiming(g) /\ FrameOK(t, g)
  <2>1. g \in FrameRecords /\ g.at = "start" /\ g.agent \in Agents /\ g.todo = {} /\ g.got = {}
    BY <1>2, <1>3, StartFrameOK DEF StartFrame, Frame
  <2> QED
    BY <2>1 DEF FrameOK, Claiming, Claimed
<1>5. events' \in [Events -> Nat]
  BY <1>1, TypeFacts DEF IInv
<1> QED
  BY <1>1, <1>2, <1>3, <1>4, <1>5, ReleaseStep DEF CancelRelease

\* A frame at a place where nothing is known but that its rows were inserted.
LEMMA LooseFrame ==
    ASSUME NEW t, NEW f \in FrameRecords, f.at \in {"pause", "budget"}, f.got = {},
           \A r \in f.todo : Made(r)
    PROVE  FrameOK(t, f) /\ ~Claiming(f)
BY DEF FrameOK, Claiming, Claimed

LEMMA PauseCallStep ==
    ASSUME IInv, NEW a \in Agents, PauseCall(a)
    PROVE  IInv'
<1> DEFINE t == Pauser(a)
           todo == RunsOf(a, "queued") \cup RunsOf(a, "running")
<1>1. stack[t] = <<>> /\ Happens("pause") /\ UNCHANGED <<blocked, run, lock, lockName, wake, startLock>>
      /\ invokable' = [invokable EXCEPT ![a] = FALSE]
  BY DEF PauseCall
<1>2. OthersTyped
  <2>1. events' \in [Events -> Nat]
    BY <1>1, EventCounted DEF Events
  <2> QED
    BY <1>1, <2>1, TypeFacts DEF IInv, OthersTyped
<1>3. RowsAdvance /\ WakesAdvance
  BY <1>1, RowsUnchanged, WakesUnchanged
<1>4. todo \subseteq Runs /\ \A r \in todo : Made(r)
  BY DEF RunsOf, Made
<1> HIDE DEF todo
<1>5. PICK f \in FrameRecords : f = Frame("pause", "routes", None, a, todo)
  BY <1>4 DEF Frame, FrameRecords, Places, Homes
<1>6. f.at = "pause" /\ f.todo = todo /\ f.got = {}
  BY <1>5 DEF Frame
<1>7. stack' = [stack EXCEPT ![t] = <<f>>]
  BY <1>5 DEF PauseCall, todo
<1>8. t \in Threads /\ (\A q \in Runs : t # Executor(q)) /\ \A w \in Wakes : t # Waker(w)
  BY ThreadFacts, ExecutorFacts, WakerFacts
<1> QED
  BY <1>1, <1>2, <1>3, <1>4, <1>6, <1>7, <1>8, LooseFrame, PushStep

LEMMA PauseNextStep ==
    ASSUME IInv, NEW a \in Agents, PauseNext(a)
    PROVE  IInv'
<1> DEFINE t == Pauser(a)
           r == Min(Top(t).todo)
<1>1. stack[t] # <<>> /\ Top(t).at = "pause"
      /\ UNCHANGED <<invokable, blocked, lock, lockName, wake, startLock, events>>
  BY DEF PauseNext, At
<1>2. WakesAdvance /\ OthersTyped
  BY <1>1, WakesUnchanged, OthersUnchanged
<1>3. /\ t \in Threads /\ Top(t) \in FrameRecords /\ FrameOK(t, Top(t))
      /\ Top(t).todo # {} => r \in Top(t).todo /\ r \in Runs /\ Made(r)
  BY <1>1, ThreadFacts, ClaimFacts
<1>4. CASE Return(t) /\ UNCHANGED run
  BY <1>1, <1>2, <1>3, <1>4, RowsUnchanged, PopStep
<1>5. CASE /\ Top(t).todo # {}
           /\ run' = [run EXCEPT ![r] = Kill(@, r)]
           /\ Goto(t, [Top(t) EXCEPT !.at = "pauseRelease", !.run = r, !.todo = @ \ {r}])
  <2>1. PICK q \in Runs : q = r /\ Made(q)
    BY <1>3, <1>5
  <2> HIDE DEF r
  <2>2. RowsAdvance
    BY <1>5, <2>1, KillFacts
  <2>3. PICK g \in FrameRecords : g = [Top(t) EXCEPT !.at = "pauseRelease", !.run = q, !.todo = @ \ {q}]
    BY <1>3 DEF FrameRecords, Places
  <2>4. g.at = "pauseRelease" /\ g.run = q /\ g.todo \subseteq Top(t).todo /\ g.got = Top(t).got
    BY <1>3, <2>3 DEF FrameRecords
  <2>5. FrameOK(t, g) /\ ~Claiming(g)
    BY <1>1, <1>3, <2>1, <2>4 DEF FrameOK, Claiming, Claimed
  <2>6. Goto(t, g)
    BY <1>5, <2>1, <2>3
  <2> QED
    BY <1>1, <1>2, <1>3, <2>2, <2>5, <2>6, TopStep
<1> QED
  BY <1>4, <1>5 DEF PauseNext

LEMMA PauseReleaseStep ==
    ASSUME IInv, NEW a \in Agents, PauseRelease(a)
    PROVE  IInv'
<1> DEFINE t == Pauser(a)
<1>1. stack[t] # <<>> /\ Top(t).at = "pauseRelease" /\ UNCHANGED <<invokable, blocked, startLock, events>>
  BY DEF PauseRelease, At
<1>2. /\ t \in Threads /\ Top(t) \in FrameRecords /\ FrameOK(t, Top(t)) /\ Top(t).run \in Runs
      /\ \A r \in Top(t).todo : Made(r)
  BY <1>1, ThreadFacts, ClaimFacts DEF FrameOK
<1>3. PICK g \in FrameRecords : g = [Top(t) EXCEPT !.at = "pause", !.run = None]
  BY <1>2, ConstantFacts DEF FrameRecords, Places
<1>4. g.at = "pause" /\ g.todo = Top(t).todo /\ g.got = Top(t).got
  BY <1>2, <1>3 DEF FrameRecords
<1>5. FrameOK(t, g) /\ ~Claiming(g)
  BY <1>1, <1>2, <1>4 DEF FrameOK, Claiming, Claimed
<1>6. events' \in [Events -> Nat]
  BY <1>1, TypeFacts DEF IInv
<1> QED
  BY <1>1, <1>2, <1>3, <1>5, <1>6, ReleaseStep DEF PauseRelease

LEMMA BudgetStopStep ==
    ASSUME IInv, BudgetStop
    PROVE  IInv'
<1> DEFINE todo == {r \in Runs : Live(r)}
<1>1. stack[BudgetStopper] = <<>> /\ Happens("budget") /\ blocked' = TRUE
      /\ UNCHANGED <<invokable, run, lock, lockName, wake, startLock>>
  BY DEF BudgetStop
<1>2. OthersTyped
  <2>1. events' \in [Events -> Nat]
    BY <1>1, EventCounted DEF Events
  <2> QED
    BY <1>1, <2>1, TypeFacts DEF IInv, OthersTyped
<1>3. RowsAdvance /\ WakesAdvance
  BY <1>1, RowsUnchanged, WakesUnchanged
<1>4. todo \subseteq Runs /\ \A r \in todo : Made(r)
  BY DEF Live, Made
<1> HIDE DEF todo
<1>5. PICK f \in FrameRecords : f = Frame("budget", "routes", None, NoAgent, todo)
  BY <1>4 DEF Frame, FrameRecords, Places, Homes
<1>6. f.at = "budget" /\ f.todo = todo /\ f.got = {}
  BY <1>5 DEF Frame
<1>7. stack' = [stack EXCEPT ![BudgetStopper] = <<f>>]
  BY <1>5 DEF BudgetStop, todo
<1>8. /\ BudgetStopper \in Threads
      /\ (\A q \in Runs : BudgetStopper # Executor(q)) /\ \A w \in Wakes : BudgetStopper # Waker(w)
  BY ThreadFacts, ExecutorFacts, WakerFacts
<1> QED
  BY <1>1, <1>2, <1>3, <1>4, <1>6, <1>7, <1>8, LooseFrame, PushStep

LEMMA BudgetNextStep ==
    ASSUME IInv, BudgetNext
    PROVE  IInv'
<1> DEFINE t == BudgetStopper
           r == Min(Top(t).todo)
<1>1. stack[t] # <<>> /\ Top(t).at = "budget"
      /\ UNCHANGED <<invokable, blocked, run, lock, lockName, startLock, events>>
  BY DEF BudgetNext, At
<1>2. RowsAdvance /\ OthersTyped
  BY <1>1, RowsUnchanged, OthersUnchanged
<1>3. /\ t \in Threads /\ Top(t) \in FrameRecords /\ FrameOK(t, Top(t)) /\ Top(t).home \in Homes
      /\ Top(t).todo # {} => r \in Top(t).todo /\ r \in Runs /\ Made(r)
  BY <1>1, ThreadFacts, ClaimFacts
<1>4. CASE /\ Top(t).todo # {}
           /\ Frames(t, <<CancelFrame(r, Top(t).home), [Top(t) EXCEPT !.todo = @ \ {r}]>>)
           /\ UNCHANGED wake
  <2>1. PICK q \in Runs : q = r /\ Made(q)
    BY <1>3, <1>4
  <2> HIDE DEF r
  <2>2. PICK f : f = CancelFrame(q, Top(t).home)
    OBVIOUS
  <2>3. f \in FrameRecords /\ f.at = "cancel" /\ FrameOK(t, f)'
    BY <1>2, <1>3, <2>1, <2>2, CancelFrameOK DEF IInv, RowsOK, MadeOK
  <2>4. PICK g \in FrameRecords : g = [Top(t) EXCEPT !.todo = @ \ {q}]
    BY <1>3 DEF FrameRecords
  <2>5. g.at = "budget" /\ g.todo \subseteq Top(t).todo /\ g.got = Top(t).got
    BY <1>1, <1>3, <2>4 DEF FrameRecords
  <2>6. FrameOK(t, g) /\ ~Claiming(g)
    BY <1>1, <1>3, <2>5 DEF FrameOK, Claiming, Claimed
  <2>7. Frames(t, <<f, g>>) /\ ~Claiming(f)
    BY <1>4, <2>1, <2>2, <2>3, <2>4 DEF Claiming
  <2> QED
    BY <1>1, <1>2, <1>3, <1>4, <2>3, <2>6, <2>7, WakesUnchanged, TwoStep
<1>5. CASE /\ Return(t)
           /\ wake' = [w \in Wakes |->
                 IF wake[w].status = "deferred" THEN Settled("cancelled") ELSE wake[w]]
  <2>1. Settled("cancelled") \in WakeRecords /\ Settled("cancelled").status = "cancelled"
    BY DEF Settled, NoWake, WakeRecords
  <2>2. WakesAdvance
    BY <1>5, <2>1, TypeFacts DEF WakesAdvance, IInv, RowsOK
  <2> QED
    BY <1>1, <1>2, <1>3, <1>5, <2>2, PopStep
<1> QED
  BY <1>4, <1>5 DEF BudgetNext

\* What changes neither a row of a wakeup nor a stack.
LEMMA ResumeStep ==
    ASSUME IInv, (\E a \in Agents : Resume(a)) \/ BudgetRaised
    PROVE  IInv'
<1>1. UNCHANGED <<run, lock, lockName, wake, stack, startLock, events>>
  BY DEF Resume, BudgetRaised
<1>2. invokable' \in [Agents -> BOOLEAN] /\ blocked' \in BOOLEAN
  BY TypeFacts DEF IInv, Resume, BudgetRaised
<1>3. OthersTyped
  BY <1>1, <1>2, TypeFacts DEF IInv, OthersTyped
<1> QED
  BY <1>1, <1>3, RowsUnchanged, WakesUnchanged, SameStackStep
-----------------------------------------------------------------------------
(* The reaper, crashes.                                                     *)

\* The reaper starts with runs that were begun.
LEMMA ReapFrameFacts ==
    ASSUME NEW t \in {Boot, Timer}, NEW s, s = ReapFrame
    PROVE  \E f \in FrameRecords : s = <<f>> /\ f.at = "reap" /\ FrameOK(t, f) /\ ~Claiming(f)
<1>1. Running \subseteq Runs /\ \A r \in Running : Begun(r) /\ Made(r)
  BY DEF Running, Begun, Made
<1>2. PICK f : f = Frame("reap", "scheduler", None, NoAgent, Running)
  OBVIOUS
<1>3. f \in FrameRecords /\ f.at = "reap" /\ f.todo = Running /\ f.got = {}
  BY <1>1, <1>2 DEF Frame, FrameRecords, Places, Homes
<1>4. FrameOK(t, f) /\ ~Claiming(f)
  BY <1>1, <1>3 DEF FrameOK, Claiming, Claimed
<1> QED
  BY <1>2, <1>3, <1>4 DEF ReapFrame

LEMMA TickStep ==
    ASSUME IInv, Tick
    PROVE  IInv'
<1>1. stack[Timer] = <<>> /\ stack' = [stack EXCEPT ![Timer] = ReapFrame]
      /\ UNCHANGED <<invokable, blocked, run, lock, lockName, wake, startLock, events>>
  BY DEF Tick, rows
<1>2. RowsAdvance /\ WakesAdvance /\ OthersTyped
  BY <1>1, RowsUnchanged, WakesUnchanged, OthersUnchanged
<1>3. PICK f \in FrameRecords : ReapFrame = <<f>> /\ FrameOK(Timer, f) /\ ~Claiming(f)
  BY ReapFrameFacts
<1>4. Timer \in Threads /\ (\A q \in Runs : Timer # Executor(q)) /\ \A w \in Wakes : Timer # Waker(w)
  BY ThreadFacts, ExecutorFacts, WakerFacts
<1> QED
  BY <1>1, <1>2, <1>3, <1>4, PushStep

\* What the reaper knows of the next run of its snapshot.
LEMMA ReapFacts ==
    ASSUME IInv, NEW t \in Threads, At(t, "reap"), Top(t).todo # {}
    PROVE  /\ stack[t] # <<>> /\ Top(t).at = "reap" /\ Top(t) \in FrameRecords /\ FrameOK(t, Top(t))
           /\ Min(Top(t).todo) \in Top(t).todo /\ Min(Top(t).todo) \in Runs
           /\ Made(Min(Top(t).todo)) /\ Begun(Min(Top(t).todo))
BY ClaimFacts DEF At, FrameOK

LEMMA ReapSkipStep ==
    ASSUME IInv, NEW t \in Threads, ReapSkip(t)
    PROVE  IInv'
<1>1. At(t, "reap") /\ Top(t).todo # {}
      /\ UNCHANGED <<invokable, blocked, lock, lockName, wake, startLock, events>>
  BY DEF ReapSkip
<1>2. WakesAdvance /\ OthersTyped
  BY <1>1, WakesUnchanged, OthersUnchanged
<1>3. PICK q \in Runs : q = Min(Top(t).todo)
  BY <1>1, ReapFacts
<1>4. /\ stack[t] # <<>> /\ Top(t).at = "reap" /\ Top(t) \in FrameRecords /\ FrameOK(t, Top(t))
      /\ q \in Top(t).todo /\ Made(q) /\ Begun(q)
  BY <1>1, <1>3, ReapFacts
<1>5. RowsAdvance
  <2>1. run \in [Runs -> RunRecords]
    BY TypeFacts DEF IInv
  <2>2. CASE run' = [run EXCEPT ![q].status = "running"]
    <3>1. PICK row \in RunRecords : row = [run[q] EXCEPT !.status = "running"]
      BY <2>1 DEF RunRecords
    <3>2. /\ row.status = "running" /\ row.agent = run[q].agent /\ row.issue = run[q].issue
          /\ row.losses = run[q].losses /\ row.child = run[q].child
      BY <2>1, <3>1 DEF RunRecords
    <3>3. run' = [run EXCEPT ![q] = row]
      BY <2>2, <3>1
    <3> QED
      BY <1>4, <3>2, <3>3, RowSet DEF Quiet
  <2>3. CASE UNCHANGED run
    BY <2>3, RowsUnchanged
  <2> QED
    BY <1>3, <2>2, <2>3 DEF ReapSkip
<1>6. PICK g \in FrameRecords : g = [Top(t) EXCEPT !.todo = @ \ {q}]
  BY <1>4 DEF FrameRecords
<1>7. g.at = "reap" /\ g.todo \subseteq Top(t).todo /\ g.got = Top(t).got
  BY <1>4, <1>6 DEF FrameRecords
<1>8. FrameOK(t, g) /\ ~Claiming(g)
  BY <1>4, <1>7 DEF FrameOK, Claiming, Claimed
<1>9. Goto(t, g)
  BY <1>3, <1>6 DEF ReapSkip
<1> QED
  BY <1>1, <1>2, <1>4, <1>5, <1>8, <1>9, TopStep

LEMMA ReapFailStep ==
    ASSUME IInv, NEW t \in Threads, ReapFail(t)
    PROVE  IInv'
<1>1. At(t, "reap") /\ Top(t).todo # {}
      /\ UNCHANGED <<invokable, blocked, lock, lockName, wake, startLock, events>>
  BY DEF ReapFail
<1>2. WakesAdvance /\ OthersTyped
  BY <1>1, WakesUnchanged, OthersUnchanged
<1>3. PICK q \in Runs : q = Min(Top(t).todo)
  BY <1>1, ReapFacts
<1>4. /\ stack[t] # <<>> /\ Top(t).at = "reap" /\ Top(t) \in FrameRecords /\ FrameOK(t, Top(t))
      /\ q \in Top(t).todo /\ Made(q) /\ Begun(q)
  BY <1>1, <1>3, ReapFacts
<1>5. run \in [Runs -> RunRecords]
  BY TypeFacts DEF IInv
<1>6. RowsAdvance
  <2>1. PICK row \in RunRecords : row = [run[q] EXCEPT !.status = "finished"]
    BY <1>5 DEF RunRecords
  <2>2. /\ row.status = "finished" /\ row.agent = run[q].agent /\ row.issue = run[q].issue
        /\ row.losses = run[q].losses /\ row.child = run[q].child
    BY <1>5, <2>1 DEF RunRecords
  <2>3. run' = [run EXCEPT ![q] = row]
    BY <1>3, <2>1 DEF ReapFail
  <2> QED
    BY <1>4, <2>2, <2>3, RowSet DEF Quiet
<1>7. PICK at \in {"reapRetry", "reapRelease"} :
        /\ at = "reapRetry" => run[q].losses < 1
        /\ Goto(t, [Top(t) EXCEPT !.at = at, !.run = q, !.todo = @ \ {q}])
  BY <1>3 DEF ReapFail
<1>8. PICK g \in FrameRecords : g = [Top(t) EXCEPT !.at = at, !.run = q, !.todo = @ \ {q}]
  BY <1>4 DEF FrameRecords, Places
<1>9. g.at = at /\ g.run = q /\ g.todo \subseteq Top(t).todo /\ g.got = Top(t).got
  BY <1>4, <1>8 DEF FrameRecords
<1>10. at = "reapRetry" => run[q].losses = 0
  BY <1>5, <1>7 DEF RunRecords
<1>11. FrameOK(t, g) /\ ~Claiming(g)
  BY <1>4, <1>9, <1>10 DEF FrameOK, Claiming, Claimed
<1>12. Goto(t, g)
  BY <1>7, <1>8
<1> QED
  BY <1>1, <1>2, <1>4, <1>6, <1>11, <1>12, TopStep

LEMMA ReapSettleStep ==
    ASSUME IInv, NEW t \in Threads, ReapSettle(t)
    PROVE  IInv'
<1> DEFINE r == Top(t).run
<1>1. /\ stack[t] # <<>> /\ Top(t).at \in {"reapRetry", "reapRelease"}
      /\ UNCHANGED <<invokable, blocked, startLock, events>>
  BY DEF ReapSettle, At
<1>2. /\ Top(t) \in FrameRecords /\ FrameOK(t, Top(t)) /\ Top(t).home \in Homes
      /\ r \in Runs /\ Made(r) /\ run[r].agent \in Agents /\ run[r] \in RunRecords
  BY <1>1, ClaimFacts, TypeFacts DEF IInv, RowsOK, FrameOK
<1>3. PICK f : f = StartFrame(run[r].agent, Top(t).home)
  OBVIOUS
<1>4. f \in FrameRecords /\ ~Claiming(f) /\ FrameOK(t, f)
  <2>1. f \in FrameRecords /\ f.at = "start" /\ f.agent \in Agents /\ f.todo = {} /\ f.got = {}
    BY <1>2, <1>3, StartFrameOK DEF StartFrame, Frame
  <2> QED
    BY <2>1 DEF FrameOK, Claiming, Claimed
<1>5. PICK g \in FrameRecords : g = [Top(t) EXCEPT !.at = "reap", !.run = None]
  BY <1>2, ConstantFacts DEF FrameRecords, Places
<1>6. g.at = "reap" /\ g.todo = Top(t).todo /\ g.got = Top(t).got
  BY <1>2, <1>5 DEF FrameRecords
<1>7. FrameOK(t, g) /\ ~Claiming(g)
  BY <1>1, <1>2, <1>6 DEF FrameOK, Claiming, Claimed
<1>8. events' \in [Events -> Nat]
  BY <1>1, TypeFacts DEF IInv
<1>9. CASE At(t, "reapRetry") /\ RetryLost(r) /\ Frames(t, <<f, g>>)
  <2>1. run[r].losses = 0
    BY <1>2, <1>9 DEF FrameOK, At
  <2>2. Retry(r, "lost", 1)
    BY <1>9, <2>1 DEF RetryLost
  <2>3. RowsAdvance /\ WakesAdvance /\ OthersTyped
    BY <1>1, <1>2, <1>8, <2>2, RetryFacts
  <2> QED
    BY <1>1, <1>4, <1>5, <1>7, <1>9, <2>3, TwoStep
<1>10. CASE Release(t, r, <<f, g>>)
  <2>1. PICK q \in Runs : q = r
    BY <1>2
  <2>2. /\ RowsAdvance /\ WakesAdvance /\ OthersTyped
        /\ \/ Frames(t, <<f, g>>)
           \/ \E a \in Agents : Frames(t, <<StartFrame(a, Top(t).home)>> \o <<f, g>>)
    <3>1. Release(t, q, <<f, g>>)
      BY <1>10, <2>1
    <3> HIDE DEF r
    <3> QED
      BY <1>1, <1>8, <3>1, ReleaseFacts
  <2>3. CASE Frames(t, <<f, g>>)
    BY <1>1, <1>4, <1>5, <1>7, <2>2, <2>3, TwoStep
  <2>4. CASE \E a \in Agents : Frames(t, <<StartFrame(a, Top(t).home)>> \o <<f, g>>)
    <3>1. PICK a \in Agents : Frames(t, <<StartFrame(a, Top(t).home), f, g>>)
      BY <2>4, ThreeFrames
    <3>2. PICK home \in Homes : home = Top(t).home
      BY <1>2
    <3>3. PICK x \in FrameRecords : x = StartFrame(a, home) /\ x.at = "start" /\ FrameOK(t, x)'
      BY StartFrameOK
    <3> DEFINE s == <<x, f, g>>
    <3>4. s \in Seq(FrameRecords) /\ DOMAIN s = {1, 2, 3} /\ s[1] = x /\ s[2] = f /\ s[3] = g
      BY <1>4, <1>5
    <3>5. Replaces(t, s)
      BY <1>1, <3>1, <3>2, <3>3, FramesReplace DEF IInv
    <3>6. ClaimersKept(t, s)
      BY <1>4, <1>7, <3>3, <3>4 DEF ClaimersKept, Claiming
    <3> HIDE DEF s
    <3>7. QuietStays
      BY <1>1, <3>4, <3>5, QuietKept DEF IInv
    <3>8. FrameOK(t, f)' /\ FrameOK(t, g)'
      BY <1>4, <1>5, <1>7, <2>2, <3>7, OldFrame DEF IInv
    <3>9. \A k \in DOMAIN s : FrameOK(t, s[k])'
      BY <3>3, <3>4, <3>8
    <3> QED
      BY <1>1, <2>2, <3>4, <3>5, <3>6, <3>9, StepKeeps
  <2> QED
    BY <2>2, <2>3, <2>4
<1> QED
  BY <1>3, <1>5, <1>9, <1>10 DEF ReapSettle

\* The starts the reaper calls when it is through.
LEMMA ReapResumeFacts ==
    ASSUME IInv, NEW t \in Threads, ReapResume(t)
    PROVE  /\ stack[t] # <<>> /\ Top(t).at = "reap"
           /\ UNCHANGED <<invokable, blocked, run, lock, lockName, wake, startLock, events>>
           /\ \E s \in Seq(FrameRecords) :
                Frames(t, s) /\ \A k \in DOMAIN s : s[k].at = "start" /\ FrameOK(t, s[k])'
<1>1. stack[t] # <<>> /\ Top(t).at = "reap"
      /\ UNCHANGED <<invokable, blocked, run, lock, lockName, wake, startLock, events>>
  BY DEF ReapResume, At, rows
<1> DEFINE agents == {a \in Agents : RunsOf(a, "queued") # {}}
<1>3. PICK order \in [1..Cardinality(agents) -> agents] :
        Frames(t, [k \in DOMAIN order |-> StartFrame(order[k], "scheduler")])
  BY DEF ReapResume
<1>4. PICK s : s = [k \in DOMAIN order |-> StartFrame(order[k], "scheduler")]
  OBVIOUS
<1>5. \A k \in DOMAIN order : order[k] \in Agents
  BY <1>3
<1>6. \A k \in DOMAIN s : s[k] \in FrameRecords /\ s[k].at = "start" /\ FrameOK(t, s[k])'
  BY <1>4, <1>5, StartFrameOK DEF Homes
<1>7. s \in Seq(FrameRecords)
  <2>1. Cardinality(agents) \in Nat
    <3> DEFINE first == [a \in agents |-> Min(RunsOf(a, "queued"))]
    <3>1. ASSUME NEW a \in agents
          PROVE  first[a] \in Runs /\ run[first[a]].agent = a
      <4>1. RunsOf(a, "queued") \subseteq Runs /\ RunsOf(a, "queued") \subseteq Nat
        BY ConstantFacts DEF RunsOf
      <4>2. Min(RunsOf(a, "queued")) \in RunsOf(a, "queued")
        BY <4>1, MinIsMember
      <4> QED
        BY <4>2 DEF RunsOf
    <3>2. first \in Injection(agents, Runs)
      BY <3>1 DEF Injection, IsInjective
    <3>3. IsFiniteSet(Runs)
      BY FS_Interval, ConstantFacts DEF Runs
    <3>4. IsFiniteSet(agents)
      BY <3>2, <3>3, FS_Injection
    <3> QED
      BY <3>4, FS_CardinalityType
  <2> HIDE DEF agents
  <2>2. DOMAIN s = 1..Cardinality(agents) /\ s = [k \in 1..Cardinality(agents) |-> s[k]]
    BY <1>4
  <2> QED
    BY <1>6, <2>1, <2>2
<1> QED
  BY <1>1, <1>3, <1>4, <1>6, <1>7

LEMMA ReapResumeStep ==
    ASSUME IInv, NEW t \in Threads, ReapResume(t)
    PROVE  IInv'
<1>1. PICK s \in Seq(FrameRecords) :
        Frames(t, s) /\ \A k \in DOMAIN s : s[k].at = "start" /\ FrameOK(t, s[k])'
  BY ReapResumeFacts
<1>2. stack[t] # <<>> /\ RowsAdvance /\ WakesAdvance /\ OthersTyped /\ UNCHANGED startLock
  BY ReapResumeFacts, RowsUnchanged, WakesUnchanged, OthersUnchanged
<1>3. ClaimersKept(t, s)
  BY <1>1 DEF ClaimersKept, Claiming
<1>4. Replaces(t, s)
  BY <1>1, <1>2, FramesReplace DEF IInv
<1> QED
  BY <1>1, <1>2, <1>3, <1>4, StepKeeps

LEMMA CrashStep ==
    ASSUME IInv, Crash
    PROVE  IInv'
<1>1. /\ UNCHANGED <<invokable, blocked, run, lock, lockName, wake>>
      /\ stack' = [t \in Threads |-> IF t = Boot THEN ReapFrame ELSE <<>>]
      /\ startLock' = [a \in Agents |-> NoThread]
  BY DEF Crash, rows
<1>2. OthersTyped
  <2>1. events' \in [Events -> Nat]
    BY EventCounted DEF Crash, Events
  <2> QED
    BY <1>1, <2>1, TypeFacts DEF IInv, OthersTyped
<1>3. RowsAdvance /\ WakesAdvance
  BY <1>1, RowsUnchanged, WakesUnchanged
<1>4. PICK f \in FrameRecords : ReapFrame = <<f>> /\ FrameOK(Boot, f) /\ ~Claiming(f) /\ f.at = "reap"
  BY ReapFrameFacts
<1>5. stack' = [t \in Threads |-> IF t = Boot THEN <<f>> ELSE <<>>]
  BY <1>1, <1>4
<1>6. stack' \in [Threads -> Seq(FrameRecords)]
  BY <1>5
<1>7. startLock' \in [Agents -> Threads \cup {NoThread}]
  BY <1>1
<1>8. Typed'
  BY <1>2, <1>3, <1>6, <1>7, TypedAgain DEF RowsAdvance, WakesAdvance, OthersTyped
<1>9. QuietStays
  BY <1>5, ThreadFacts, ExecutorFacts DEF QuietStays
<1>10. FrameOK(Boot, f)'
  BY <1>3, <1>4, <1>9, OldFrame, ThreadFacts DEF IInv
<1>11. \A t \in Threads : \A k \in DOMAIN stack'[t] : t = Boot /\ k = 1 /\ stack'[t][k] = f
  BY <1>5
<1>12. FramesOK'
  BY <1>10, <1>11 DEF FramesOK
<1>13. OneClaimer'
  BY <1>11 DEF OneClaimer
<1>14. RowsOK'
  <2>1. \A w \in Wakes : stack'[Waker(w)] = <<>>
    BY <1>5, ThreadFacts, WakerFacts
  <2>2. MadeOK'
    BY <1>3 DEF RowsAdvance
  <2>3. \A r \in Runs : stack'[Executor(r)] = <<>>
    BY <1>5, ThreadFacts, ExecutorFacts
  <2>4. (\A r \in Runs : ~Begun(r) => Quiet(r))'
    BY <1>1, <2>3 DEF IInv, RowsOK, Begun, Quiet
  <2> QED
    BY <1>3, <2>1, <2>2, <2>4 DEF RowsOK, MadeOK, WakesAdvance
<1> QED
  BY <1>3, <1>8, <1>12, <1>13, <1>14 DEF IInv, RowsAdvance

LEMMA ChildDiesStep ==
    ASSUME IInv, NEW r \in Runs, ChildDies(r)
    PROVE  IInv'
<1>1. run[r].child = "alive" /\ run' = [run EXCEPT ![r].child = "dead"]
      /\ UNCHANGED <<invokable, blocked, lock, lockName, wake, stack, startLock, events>>
  BY DEF ChildDies
<1>2. run \in [Runs -> RunRecords]
  BY TypeFacts DEF IInv
<1>3. PICK row \in RunRecords : row = [run[r] EXCEPT !.child = "dead"]
  BY <1>2 DEF RunRecords
<1>4. /\ row.status = run[r].status /\ row.agent = run[r].agent /\ row.issue = run[r].issue
      /\ row.losses = run[r].losses
  BY <1>2, <1>3 DEF RunRecords
<1>5. Begun(r) /\ Made(r)
  BY <1>1 DEF IInv, RowsOK, Quiet, Begun, Made
<1>6. run' = [run EXCEPT ![r] = row]
  BY <1>1, <1>3
<1>7. RowsAdvance
  BY <1>1, <1>4, <1>5, <1>6, RowSet DEF Begun, Quiet
<1> QED
  BY <1>1, <1>7, WakesUnchanged, OthersUnchanged, SameStackStep
-----------------------------------------------------------------------------
(* The first invariant: every step keeps it.                                *)

\* The start fits the invariant.
LEMMA InitInv == Init => IInv
<1> SUFFICES ASSUME Init
             PROVE  IInv
  OBVIOUS
<1> USE DEF Init
<1>1. /\ \A r \in Runs : run[r] = NoRun
      /\ \A w \in Wakes : wake[w] = NoWake
      /\ \A t \in Threads : stack[t] = <<>>
  OBVIOUS
<1>2. NoRun \in RunRecords /\ NoRun.status = "none" /\ NoRun.child = "none"
  BY DEF NoRun, RunRecords
<1>3. NoWake \in WakeRecords /\ NoWake.status = "none"
  BY DEF NoWake, WakeRecords
<1>4. Typed
  <2>1. run \in [Runs -> RunRecords]
    BY <1>2
  <2>2. wake \in [Wakes -> WakeRecords]
    BY <1>3
  <2>3. stack \in [Threads -> Seq(FrameRecords)]
    OBVIOUS
  <2>4. /\ invokable \in [Agents -> BOOLEAN] /\ blocked \in BOOLEAN
        /\ lock \in [Issues -> Runs \cup {None}] /\ lockName \in [Issues -> Agents \cup {NoAgent}]
        /\ startLock \in [Agents -> Threads \cup {NoThread}] /\ events \in [Events -> Nat]
    BY DEF None
  <2> QED
    BY <2>1, <2>2, <2>3, <2>4 DEF Typed, TypeOK, RunRecords, WakeRecords
<1>5. \A t \in Threads : DOMAIN stack[t] = {}
  BY <1>1
<1>6. FramesOK /\ OneClaimer
  BY <1>5 DEF FramesOK, OneClaimer
<1>7. Numbered
  <2>1. 0 \in 0..MaxRuns /\ \A r \in Runs : ~(r <= 0)
    BY ConstantFacts DEF Runs
  <2>2. \A r \in Runs : ~Made(r)
    BY <1>1, <1>2 DEF Made
  <2> QED
    BY <2>1, <2>2 DEF Numbered
<1>8. RowsOK
  <2>1. \A r \in Runs : ~Made(r) /\ Quiet(r)
    BY <1>1, <1>2, ThreadFacts DEF Made, Quiet
  <2>2. \A w \in Wakes : wake[w].status = "none" /\ stack[Waker(w)] = <<>>
    BY <1>1, <1>3, ThreadFacts
  <2> QED
    BY <2>1, <2>2 DEF RowsOK
<1> QED
  BY <1>4, <1>6, <1>7, <1>8 DEF IInv

\* Every step keeps the invariant.
LEMMA NextInv == IInv /\ [Next]_vars => IInv'
<1> SUFFICES ASSUME IInv, [Next]_vars
             PROVE  IInv'
  OBVIOUS
<1>1. ASSUME NEW w \in Wakes, NEW a \in Agents, NEW i \in Issues,
             WakeMention(w, a, i) \/ \E comment \in BOOLEAN : WakeIssue(w, a, i, comment)
      PROVE  IInv'
  BY <1>1, WakeMentionStep, WakeIssueStep
<1>2. ASSUME NEW t \in Threads, StartStep(t)
      PROVE  IInv'
  BY <1>2, StartPickStep, ClaimRefusedStep, ClaimRunStep, ClaimStampStep, StartRunsStep DEF StartStep
<1>3. ASSUME NEW t \in Threads, CancelStep(t)
      PROVE  IInv'
  BY <1>3, CancelSetStep, CancelReleaseStep DEF CancelStep
<1>4. ASSUME NEW t \in Threads, ReapStep(t)
      PROVE  IInv'
  BY <1>4, ReapSkipStep, ReapFailStep, ReapSettleStep, ReapResumeStep DEF ReapStep
<1>5. ASSUME NEW r \in Runs, ExecStep(r) \/ CancelCall(r) \/ ChildDies(r)
      PROVE  IInv'
  BY <1>5, ExecBeginStep, ExecReturnStep, ExecRecordStep, ExecReleaseStep, CancelCallStep, ChildDiesStep
     DEF ExecStep
<1>6. ASSUME NEW a \in Agents, PauseCall(a) \/ PauseStep(a) \/ Resume(a)
      PROVE  IInv'
  BY <1>6, PauseCallStep, PauseNextStep, PauseReleaseStep, ResumeStep DEF PauseStep
<1>7. CASE BudgetStop \/ BudgetNext \/ BudgetRaised
  BY <1>7, BudgetStopStep, BudgetNextStep, ResumeStep
<1>8. CASE Tick \/ Crash
  BY <1>8, TickStep, CrashStep
<1>9. CASE UNCHANGED vars
  <2>1. UNCHANGED <<invokable, blocked, run, lock, lockName, wake, stack, startLock, events>>
    BY <1>9 DEF vars, rows
  <2> QED
    BY <2>1, RowsUnchanged, WakesUnchanged, OthersUnchanged, SameStackStep
<1> QED
  BY <1>1, <1>2, <1>3, <1>4, <1>5, <1>6, <1>7, <1>8, <1>9 DEF Next

\* In every reachable state the frames of every thread know what their
\* functions assume, and the rows fit what executes them.
THEOREM Invariance == Spec => []IInv
<1>1. Init => IInv
  BY InitInv
<1>2. IInv /\ [Next]_vars => IInv'
  BY NextInv
<1> QED
  BY <1>1, <1>2, PTL DEF Spec

\* Every variable keeps its type, through crashes and restarts.
THEOREM TypeCorrect == Spec => []TypeOK
<1>1. IInv => TypeOK
  BY DEF IInv, Typed
<1> QED
  BY <1>1, Invariance, PTL
-----------------------------------------------------------------------------
(* The later invariants: how a step keeps them.  Frames of S come onto the  *)
(* stacks, at most the top of t leaves the one it was on.                   *)

OverNext(r) == run'[r].status \in {"finished", "cancelled"}
NoRevival   == \A r \in Runs : Over(r) => OverNext(r)
NoBirth     == \A r \in Runs : run'[r].child = "alive" => run[r].child = "alive"
NoneClaimed == \A r \in Runs : run'[r].status = "running" => run[r].status = "running"
Counted     == UNCHANGED events \/ \E e \in Events : Happens(e)

\* Nobody has stopped anything before the step, nor does the step.
Calm == NobodyStops /\ Undisturbed'

StacksMove(t, S) ==
    /\ stack' \in [Threads -> Seq(FrameRecords)]
    /\ \A u \in Threads : \A k \in DOMAIN stack'[u] :
         (\E j \in DOMAIN stack[u] : stack'[u][k] = stack[u][j]) \/ stack'[u][k] \in S
    /\ \A u \in Threads : \A j \in DOMAIN stack[u] :
         (u = t /\ j = 1) \/ \E k \in DOMAIN stack'[u] : stack'[u][k] = stack[u][j]
    /\ \A u \in Threads : u # t /\ stack[u] # <<>> => stack'[u] = stack[u]

\* What the new frames are: who releases has made an end of its run, and who
\* claims goes on with runs that the top of t was claiming.
Ends(S) == \A f \in S : f.at \in Releasing => OverNext(f.run)
Claims(t, S) ==
    \A f \in S : Claiming(f) =>
        t \in Threads /\ stack[t] # <<>> /\ Claiming(Top(t)) /\ Top(t).agent = f.agent /\ f.todo \subseteq Top(t).todo
NoStops(S) == \A f \in S : f.at \notin Stopping

\* A run on its way to its issue's lock stays so.
WayStays ==
    \A r \in Runs : /\ run[r].status = "queued" => run'[r].status = "queued"
                    /\ run[r].status = "running" /\ Stamping(r) => run'[r].status = "running"
StaysCalm == stack'[Boot] = <<>> /\ ~blocked' /\ \A a \in Agents : invokable'[a]
WaitsStay ==
    \A i \in Issues : DeferredFor(i)' # {} /\ lock'[i] = None =>
        \/ DeferredFor(i) # {} /\ lock[i] = None
        \/ \E r \in Runs : run'[r].issue = i /\ run'[r].status = "queued"

\* No event is taken back, so what was calm has always been.
LEMMA EventsGrow ==
    ASSUME IInv, Counted
    PROVE  (Uncrashed' => Uncrashed) /\ (Undisturbed' => Undisturbed)
<1>1. CASE UNCHANGED events
  BY <1>1 DEF Uncrashed, Undisturbed
<1>2. ASSUME NEW e \in Events, Happens(e)
      PROVE  (Uncrashed' => Uncrashed) /\ (Undisturbed' => Undisturbed)
  <2>1. events'[e] # 0 /\ \A x \in Events \ {e} : events'[x] = events[x]
    BY <1>2, EventCounted
  <2>2. {"crash", "cancel", "pause", "budget"} \subseteq Events
    BY DEF Events
  <2> QED
    BY <2>1, <2>2 DEF Uncrashed, Undisturbed
<1> QED
  BY <1>1, <1>2 DEF Counted

\* A replaced top moves the stack of that thread alone.
LEMMA ReplacesMove ==
    ASSUME IInv, NEW t \in Threads, NEW s \in Seq(FrameRecords), Replaces(t, s)
    PROVE  StacksMove(t, {s[k] : k \in DOMAIN s})
<1> DEFINE S == {s[k] : k \in DOMAIN s}
<1>1. Typed
  BY DEF IInv
<1>2. \A u \in Threads \ {t} : stack'[u] = stack[u]
  BY <1>1, ReplaceFacts
<1>3. stack' \in [Threads -> Seq(FrameRecords)]
  BY <1>1, ReplaceFacts
<1>4. \A k \in DOMAIN stack'[t] :
        (\E j \in DOMAIN stack[t] : stack'[t][k] = stack[t][j]) \/ stack'[t][k] \in S
  BY <1>1, ReplaceFacts
<1>5. \A j \in DOMAIN stack[t] :
        j = 1 \/ \E k \in DOMAIN stack'[t] : stack'[t][k] = stack[t][j]
  BY <1>1, ReplaceFacts
<1> HIDE DEF S
<1>6. StacksMove(t, S)
  BY <1>2, <1>3, <1>4, <1>5 DEF StacksMove
<1> QED
  BY <1>6 DEF S

\* A step that moves no stack.
LEMMA StaysMove ==
    ASSUME IInv, UNCHANGED stack, NEW t
    PROVE  StacksMove(t, {})
<1>1. stack' \in [Threads -> Seq(FrameRecords)]
  BY TypeFacts DEF IInv
<1> QED
  BY <1>1 DEF StacksMove

\* Releases stay releases of runs that are over.
LEMMA EndsKept ==
    ASSUME IInv, EndsOK, NoRevival, NEW t, NEW S, StacksMove(t, S), Ends(S)
    PROVE  EndsOK'
<1> SUFFICES ASSUME NEW u \in Threads, NEW k \in DOMAIN stack'[u], stack'[u][k].at \in Releasing
             PROVE  OverNext(stack'[u][k].run)
  BY DEF EndsOK, Over, OverNext
<1>1. CASE stack'[u][k] \in S
  BY <1>1 DEF Ends
<1>2. ASSUME NEW j \in DOMAIN stack[u], stack'[u][k] = stack[u][j]
      PROVE  OverNext(stack'[u][k].run)
  <2>1. stack[u][j].run \in Runs
    BY <1>2 DEF IInv, FramesOK, FrameOK, Releasing
  <2>2. Over(stack[u][j].run)
    BY <1>2 DEF EndsOK
  <2> QED
    BY <1>2, <2>1, <2>2 DEF NoRevival
<1> QED
  BY <1>1, <1>2 DEF StacksMove

\* Children live as long as their adapters work.
LEMMA ChildrenKept ==
    ASSUME IInv, ChildrenOK, NoBirth, NEW t, NEW S, StacksMove(t, S), t \in Threads => ~At(t, "adapter")
    PROVE  ChildrenOK'
<1> SUFFICES ASSUME NEW r \in Runs, run'[r].child = "alive"
             PROVE  At(Executor(r), "adapter")'
  BY DEF ChildrenOK
<1>1. At(Executor(r), "adapter") /\ Executor(r) \in Threads
  BY ThreadFacts DEF ChildrenOK, NoBirth
<1>2. stack'[Executor(r)] = stack[Executor(r)]
  BY <1>1 DEF StacksMove, At
<1> QED
  BY <1>1, <1>2 DEF At, Top

\* There are finitely many runs, and so their sets have a size.
LEMMA RunsFacts ==
    /\ IsFiniteSet(Runs)
    /\ \A T \in SUBSET Runs : IsFiniteSet(T) /\ Cardinality(T) \in Nat
    /\ \A T \in SUBSET Runs : \A U \in SUBSET T : Cardinality(U) <= Cardinality(T)
<1>1. IsFiniteSet(Runs)
  BY FS_Interval, ConstantFacts DEF Runs
<1>2. \A T \in SUBSET Runs : IsFiniteSet(T) /\ Cardinality(T) \in Nat
  BY <1>1, FS_Subset, FS_CardinalityType
<1>3. ASSUME NEW T \in SUBSET Runs, NEW U \in SUBSET T
      PROVE  Cardinality(U) <= Cardinality(T)
  BY <1>2, <1>3, FS_Subset
<1> QED
  BY <1>1, <1>2, <1>3

\* No agent has more runs than before, those of its claimer included.
LEMMA RunningShrinks ==
    ASSUME IInv, RowsAdvance, NoneClaimed, NEW a
    PROVE  RunsOf(a, "running")' \subseteq RunsOf(a, "running")
<1> SUFFICES ASSUME NEW r \in Runs, run'[r].agent = a, run'[r].status = "running"
             PROVE  run[r].agent = a /\ run[r].status = "running"
  BY DEF RunsOf
<1>1. run[r].status = "running"
  BY DEF NoneClaimed
<1>2. run'[r].agent = run[r].agent
  BY <1>1 DEF RowsAdvance, RowAdvances, Made
<1> QED
  BY <1>1, <1>2

\* A step that claims nothing keeps within the limit.
LEMMA WithinKept ==
    ASSUME IInv, RowsAdvance, NoneClaimed, WithinLimit
    PROVE  WithinLimit'
<1> SUFFICES ASSUME NEW a \in Agents
             PROVE  Cardinality(RunsOf(a, "running")') <= MaxConcurrent
  BY DEF WithinLimit
<1> DEFINE old == RunsOf(a, "running")
           new == RunsOf(a, "running")'
<1>1. old \subseteq Runs /\ new \subseteq old
  BY RunningShrinks DEF RunsOf
<1>2. Cardinality(old) <= MaxConcurrent
  BY DEF WithinLimit
<1> HIDE DEF old, new
<1>3. Cardinality(old) \in Nat /\ Cardinality(new) \in Nat /\ Cardinality(new) <= Cardinality(old)
  BY <1>1, RunsFacts
<1>4. Cardinality(new) <= MaxConcurrent
  BY <1>2, <1>3, ConstantFacts
<1> QED
  BY <1>4 DEF new

\* Who claims has the slots for what it still has to claim.
LEMMA SlotsKept ==
    ASSUME IInv, RowsAdvance, NoneClaimed, SlotsOK, NEW t, NEW S, StacksMove(t, S), Claims(t, S)
    PROVE  SlotsOK'
<1>1. ASSUME NEW u \in Threads, NEW k \in DOMAIN stack'[u], Claiming(stack'[u][k]),
             NEW f, f = stack'[u][k]
      PROVE  Cardinality(RunsOf(f.agent, "running")' \cup f.todo) <= MaxConcurrent
  <2> DEFINE From(g) == Claiming(g) /\ g.agent = f.agent /\ f.todo \subseteq g.todo
  <2>0. PICK v \in Threads : \E j \in DOMAIN stack[v] : From(stack[v][j])
    <3>1. CASE \E j \in DOMAIN stack[u] : stack'[u][k] = stack[u][j]
      BY <1>1, <3>1 DEF Claiming
    <3>2. CASE stack'[u][k] \in S
      <4>1. t \in Threads /\ stack[t] # <<>> /\ Claiming(Top(t)) /\ Top(t).agent = f.agent
            /\ f.todo \subseteq Top(t).todo
        BY <1>1, <3>2 DEF Claims
      <4>2. 1 \in DOMAIN stack[t] /\ stack[t][1] = Top(t)
        BY <4>1, TopFacts DEF IInv
      <4> QED
        BY <4>1, <4>2
    <3> QED
      BY <3>1, <3>2 DEF StacksMove
  <2>1. PICK j \in DOMAIN stack[v] : From(stack[v][j])
    BY <2>0
  <2>2. PICK g \in FrameRecords : g = stack[v][j]
    BY FrameInStack DEF IInv
  <2> DEFINE old == RunsOf(f.agent, "running") \cup g.todo
             new == RunsOf(f.agent, "running")' \cup f.todo
  <2>3. old \subseteq Runs /\ new \subseteq old
    BY <2>1, <2>2, RunningShrinks DEF RunsOf, FrameRecords
  <2>4. Cardinality(old) <= MaxConcurrent
    BY <2>1, <2>2 DEF SlotsOK, Taken
  <2> HIDE DEF old, new
  <2>5. Cardinality(old) \in Nat /\ Cardinality(new) \in Nat /\ Cardinality(new) <= Cardinality(old)
    BY <2>3, RunsFacts
  <2>6. Cardinality(new) <= MaxConcurrent
    BY <2>4, <2>5, ConstantFacts
  <2> QED
    BY <2>6 DEF new
<1> QED
  BY <1>1 DEF SlotsOK, Taken, Claiming, RunsOf

\* Nobody stops until somebody has stopped something.
LEMMA StopsKept ==
    ASSUME Calm, StaysCalm, NEW t, NEW S, StacksMove(t, S), NoStops(S)
    PROVE  NobodyStops'
<1>1. ASSUME NEW u \in Threads, NEW k \in DOMAIN stack'[u]
      PROVE  stack'[u][k].at \notin Stopping
  <2>1. CASE \E j \in DOMAIN stack[u] : stack'[u][k] = stack[u][j]
    BY <2>1 DEF Calm, NobodyStops
  <2>2. CASE stack'[u][k] \in S
    BY <2>2 DEF NoStops
  <2> QED
    BY <2>1, <2>2 DEF StacksMove
<1> QED
  BY <1>1 DEF NobodyStops, StaysCalm

\* A frame that stamps stays where it is until its thread goes on.
LEMMA StampingStays ==
    ASSUME IInv, NEW t, NEW S, StacksMove(t, S), NEW r, Stamping(r),
           t \in Threads => ~(At(t, "stamp") /\ Top(t).run = r)
    PROVE  Stamping(r)'
<1>0. PICK u \in Threads : \E j \in DOMAIN stack[u] : stack[u][j].at = "stamp" /\ stack[u][j].run = r
  BY DEF Stamping
<1>1. PICK j \in DOMAIN stack[u] : stack[u][j].at = "stamp" /\ stack[u][j].run = r
  BY <1>0
<1>2. ~(u = t /\ j = 1)
  <2> SUFFICES ASSUME u = t, j = 1
               PROVE  FALSE
    OBVIOUS
  <2>1. t \in Threads /\ stack[t] # <<>>
    BY <1>1
  <2>2. Top(t) = stack[t][1]
    BY <2>1, TopFacts DEF IInv
  <2> QED
    BY <1>1, <2>1, <2>2 DEF At
<1>3. PICK k \in DOMAIN stack'[u] : stack'[u][k] = stack[u][j]
  BY <1>2 DEF StacksMove
<1> QED
  BY <1>1, <1>3 DEF Stamping

\* Who waits still has somebody to wait for.
LEMMA WaitKept ==
    ASSUME IInv, Calm, WaitInv, Undisturbed, RowsAdvance, StaysCalm, WayStays, WaitsStay,
           NEW t, NEW S, StacksMove(t, S), NoStops(S), t \in Threads => ~At(t, "stamp")
    PROVE  WaitInv'
<1>1. NobodyStops'
  BY StopsKept
<1>2. ASSUME NEW i \in Issues, DeferredFor(i)' # {}, lock'[i] = None
      PROVE  OnItsWay(i)'
  <2>1. CASE \E r \in Runs : run'[r].issue = i /\ run'[r].status = "queued"
    BY <2>1 DEF OnItsWay
  <2>2. CASE DeferredFor(i) # {} /\ lock[i] = None
    <3>1. PICK r \in Runs : /\ run[r].issue = i
                            /\ run[r].status = "queued" \/ (run[r].status = "running" /\ Stamping(r))
      BY <2>2 DEF WaitInv, OnItsWay
    <3>2. run'[r].issue = i
      BY <3>1 DEF RowsAdvance, RowAdvances, Made
    <3>3. Stamping(r) => Stamping(r)'
      BY StampingStays
    <3> QED
      BY <3>1, <3>2, <3>3 DEF OnItsWay, WayStays
  <2> QED
    BY <1>2, <2>1, <2>2 DEF WaitsStay
<1> QED
  BY <1>1, <1>2 DEF WaitInv

\* The steps that leave the claims alone keep all of it.
Steady(t, S) ==
    /\ RowsAdvance /\ Counted /\ StacksMove(t, S)
    /\ NoRevival /\ NoBirth /\ NoneClaimed /\ Ends(S) /\ Claims(t, S)
    /\ t \in Threads => ~At(t, "adapter") /\ ~At(t, "stamp")
    /\ WaitsStay /\ (Calm => StaysCalm /\ WayStays /\ NoStops(S))

LaterInv == EndInv /\ LimitInv /\ WaitInv

\* The later invariants from what a step does to stacks, rows and wakeups.
LEMMA LaterKept ==
    ASSUME Counted, IInv, LaterInv,
           Uncrashed /\ ChildrenOK /\ EndsOK /\ WithinLimit /\ SlotsOK =>
              ChildrenOK' /\ EndsOK' /\ WithinLimit' /\ SlotsOK',
           Calm /\ Undisturbed => WaitInv'
    PROVE  LaterInv'
<1>1. (Uncrashed' => Uncrashed) /\ (Undisturbed' => Undisturbed)
  BY EventsGrow
<1>2. EndInv' /\ LimitInv'
  BY <1>1 DEF LaterInv, EndInv, LimitInv
<1>3. Undisturbed' => Calm
  BY <1>1 DEF Calm, LaterInv, WaitInv
<1>4. WaitInv'
  BY <1>1, <1>3 DEF WaitInv
<1> QED
  BY <1>2, <1>4 DEF LaterInv

\* A steady step keeps the later invariants.
LEMMA SteadyKeeps ==
    ASSUME IInv, LaterInv, NEW t, NEW S, Steady(t, S)
    PROVE  LaterInv'
<1>1. Counted
  BY DEF Steady
<1>2. ASSUME ChildrenOK, EndsOK, WithinLimit, SlotsOK
      PROVE  ChildrenOK' /\ EndsOK' /\ WithinLimit' /\ SlotsOK'
  BY <1>2, ChildrenKept, EndsKept, WithinKept, SlotsKept DEF Steady
<1>3. ASSUME Calm, Undisturbed
      PROVE  WaitInv'
  BY <1>3, WaitKept DEF Steady, LaterInv
<1> QED
  BY <1>1, <1>2, <1>3, LaterKept
-----------------------------------------------------------------------------
(* The steps that keep the later invariants: their rows and their frames.   *)

RowsSteady == NoRevival /\ NoBirth /\ NoneClaimed /\ (Calm => WayStays)
BootStays  == stack[Boot] = <<>> => stack'[Boot] = <<>>

\* A step of another thread, or of a call in progress, starts nothing at boot.
LEMMA BootMoves ==
    ASSUME Typed, NEW t \in Threads, stack[t] # <<>> \/ t # Boot, NEW s \in Seq(FrameRecords), Replaces(t, s)
    PROVE  BootStays
<1>1. CASE t = Boot
  BY <1>1 DEF BootStays
<1>2. CASE t # Boot
  <2>1. stack'[Boot] = stack[Boot]
    BY <1>2, ThreadFacts, ReplaceFacts
  <2> QED
    BY <2>1 DEF BootStays
<1> QED
  BY <1>1, <1>2

\* Rows that stay are steady.
LEMMA SameRows ==
    ASSUME UNCHANGED run
    PROVE  RowsSteady
BY DEF RowsSteady, NoRevival, NoBirth, NoneClaimed, WayStays, Over, OverNext

\* Rows to which one is added are steady.
LEMMA OneMoreRow ==
    ASSUME IInv, Room, NEW a \in Agents, NEW i \in Issues,
           NEW why \in {"wake", "mention", "lost", "comment"}, NEW losses \in 0..1,
           run' = [run EXCEPT ![NextRun] = Queued(a, i, why, losses)]
    PROVE  RowsSteady
<1>1. \A r \in Runs : run'[r] = IF r = NextRun THEN Queued(a, i, why, losses) ELSE run[r]
  BY RowNew
<1>2. run[NextRun].status = "none"
  BY NextRunFacts
<1>3. Queued(a, i, why, losses).status = "queued" /\ Queued(a, i, why, losses).child = "none"
  BY QueuedFacts
<1> HIDE DEF NextRun
<1> QED
  BY <1>1, <1>2, <1>3 DEF RowsSteady, NoRevival, NoBirth, NoneClaimed, WayStays, Over, OverNext

\* A row that ends was not on its way to the lock.
LEMMA RowEnds ==
    ASSUME NEW r \in Runs, OverNext(r), run'[r].child \in {run[r].child, "dead"},
           \A q \in Runs \ {r} : run'[q] = run[q],
           Calm => run[r].status # "queued" /\ ~(run[r].status = "running" /\ Stamping(r))
    PROVE  RowsSteady
BY DEF RowsSteady, NoRevival, NoBirth, NoneClaimed, WayStays, Over, OverNext

\* Wakeups and locks that stay add nobody who waits.
LEMMA SameWaits ==
    ASSUME UNCHANGED <<lock, wake>>
    PROVE  WaitsStay
BY DEF WaitsStay, DeferredFor

\* A step that leaves the rows and those who wait steady keeps the later invariants.
LEMMA SteadyStep ==
    ASSUME IInv, LaterInv, RowsAdvance, Counted, RowsSteady, WaitsStay, UNCHANGED <<invokable, blocked>>,
           NEW t, NEW S, StacksMove(t, S), BootStays, Ends(S), Claims(t, S),
           t \in Threads => ~At(t, "adapter") /\ ~At(t, "stamp"), Calm => NoStops(S)
    PROVE  LaterInv'
<1>1. Calm => StaysCalm
  BY DEF Calm, NobodyStops, StaysCalm, BootStays
<1>2. Steady(t, S)
  BY <1>1 DEF Steady, RowsSteady
<1> QED
  BY <1>2, SteadyKeeps

\* One frame takes the place of the top, or is put on an empty stack; two take
\* its place; the top is taken off.
LEMMA MoveTop ==
    ASSUME IInv, NEW t \in Threads, stack[t] # <<>>, NEW f \in FrameRecords, Goto(t, f)
    PROVE  StacksMove(t, {f}) /\ BootStays
<1> DEFINE s == <<f>>
<1>1. s \in Seq(FrameRecords) /\ {s[k] : k \in DOMAIN s} = {f}
  OBVIOUS
<1>2. Replaces(t, s)
  BY FramesReplace DEF Goto, IInv
<1> HIDE DEF s
<1>3. StacksMove(t, {f})
  BY <1>1, <1>2, ReplacesMove
<1>4. BootStays
  BY <1>1, <1>2, BootMoves DEF IInv
<1> QED
  BY <1>3, <1>4

\* The frames a step moves when a call starts.
LEMMA MovePush ==
    ASSUME IInv, NEW t \in Threads, stack[t] = <<>>, t # Boot, NEW f \in FrameRecords,
           stack' = [stack EXCEPT ![t] = <<f>>]
    PROVE  StacksMove(t, {f}) /\ BootStays
<1> DEFINE s == <<f>>
<1>1. s \in Seq(FrameRecords) /\ {s[k] : k \in DOMAIN s} = {f}
  OBVIOUS
<1>2. Replaces(t, s)
  BY DEF Replaces
<1> HIDE DEF s
<1>3. StacksMove(t, {f})
  BY <1>1, <1>2, ReplacesMove
<1>4. BootStays
  BY <1>1, <1>2, BootMoves DEF IInv
<1> QED
  BY <1>3, <1>4

\* The frames a step moves when it returns.
LEMMA MovePop ==
    ASSUME IInv, NEW t \in Threads, stack[t] # <<>>, Return(t)
    PROVE  StacksMove(t, {}) /\ BootStays
<1> DEFINE s == <<>>
<1>1. s \in Seq(FrameRecords) /\ {s[k] : k \in DOMAIN s} = {}
  OBVIOUS
<1>2. Replaces(t, s)
  BY FramesReplace DEF Return, IInv
<1> HIDE DEF s
<1>3. StacksMove(t, {})
  BY <1>1, <1>2, ReplacesMove
<1>4. BootStays
  BY <1>1, <1>2, BootMoves DEF IInv
<1> QED
  BY <1>3, <1>4

\* The frames a step moves when it leaves two.
LEMMA MoveTwo ==
    ASSUME IInv, NEW t \in Threads, stack[t] # <<>>, NEW f \in FrameRecords, NEW g \in FrameRecords,
           Frames(t, <<f, g>>)
    PROVE  StacksMove(t, {f, g}) /\ BootStays
<1> DEFINE s == <<f, g>>
<1>1. s \in Seq(FrameRecords) /\ {s[k] : k \in DOMAIN s} = {f, g}
  <2>1. DOMAIN s = {1, 2} /\ s[1] = f /\ s[2] = g
    OBVIOUS
  <2> QED
    BY <2>1
<1>2. Replaces(t, s)
  BY FramesReplace DEF IInv
<1> HIDE DEF s
<1>3. StacksMove(t, {f, g})
  BY <1>1, <1>2, ReplacesMove
<1>4. BootStays
  BY <1>1, <1>2, BootMoves DEF IInv
<1> QED
  BY <1>3, <1>4

\* A frame that is not claiming, alone or on one that goes on.
LEMMA TopKeeps ==
    ASSUME IInv, LaterInv, RowsAdvance, Counted, RowsSteady, WaitsStay, UNCHANGED <<invokable, blocked>>,
           NEW t \in Threads, NEW f \in FrameRecords,
           \/ stack[t] # <<>> /\ Goto(t, f)
           \/ stack[t] = <<>> /\ t # Boot /\ stack' = [stack EXCEPT ![t] = <<f>>],
           ~At(t, "adapter"), ~At(t, "stamp"),
           f.at \in Releasing => OverNext(f.run), ~Claiming(f),
           Calm => f.at \notin Stopping
    PROVE  LaterInv'
<1> DEFINE S == {f}
<1>1. StacksMove(t, S) /\ BootStays
  BY MoveTop, MovePush
<1>2. Ends(S) /\ Claims(t, S) /\ (Calm => NoStops(S))
  BY DEF Ends, Claims, NoStops
<1> HIDE DEF S
<1> QED
  BY <1>1, <1>2, SteadyStep

\* A call that claims and ends nothing keeps the later invariants.
LEMMA TwoKeep ==
    ASSUME IInv, LaterInv, RowsAdvance, Counted, RowsSteady, WaitsStay, UNCHANGED <<invokable, blocked>>,
           NEW t \in Threads, stack[t] # <<>>, NEW f \in FrameRecords, NEW g \in FrameRecords,
           Frames(t, <<f, g>>), ~At(t, "adapter"), ~At(t, "stamp"),
           f.at \notin Releasing, ~Claiming(f), Calm => f.at \notin Stopping,
           g.at \notin Releasing, Calm => g.at \notin Stopping,
           Claiming(g) => Claiming(Top(t)) /\ Top(t).agent = g.agent /\ g.todo \subseteq Top(t).todo
    PROVE  LaterInv'
<1> DEFINE S == {f, g}
<1>1. StacksMove(t, S) /\ BootStays
  BY MoveTwo
<1>2. Ends(S) /\ Claims(t, S) /\ (Calm => NoStops(S))
  BY DEF Ends, Claims, NoStops
<1> HIDE DEF S
<1> QED
  BY <1>1, <1>2, SteadyStep

\* A return that claims and ends nothing keeps the later invariants.
LEMMA PopKeeps ==
    ASSUME IInv, LaterInv, RowsAdvance, Counted, RowsSteady, WaitsStay, UNCHANGED <<invokable, blocked>>,
           NEW t \in Threads, stack[t] # <<>>, Return(t), ~At(t, "adapter"), ~At(t, "stamp")
    PROVE  LaterInv'
<1> DEFINE S == {}
<1>1. StacksMove(t, S) /\ BootStays
  BY MovePop
<1>2. Ends(S) /\ Claims(t, S) /\ (Calm => NoStops(S))
  BY DEF Ends, Claims, NoStops
<1> HIDE DEF S
<1> QED
  BY <1>1, <1>2, SteadyStep

\* The stacks stay as they are, and nobody is stopped.
LEMMA StayKeeps ==
    ASSUME IInv, LaterInv, RowsAdvance, Counted, RowsSteady, WaitsStay, UNCHANGED stack,
           Calm => ~blocked' /\ \A a \in Agents : invokable'[a]
    PROVE  LaterInv'
<1> DEFINE S == {}
<1>1. StacksMove(NoThread, S)
  BY StaysMove
<1>2. Ends(S) /\ Claims(NoThread, S) /\ NoStops(S)
  BY DEF Ends, Claims, NoStops
<1> HIDE DEF S
<1>3. Calm => StaysCalm
  BY DEF Calm, NobodyStops, StaysCalm
<1>4. Steady(NoThread, S)
  BY <1>1, <1>2, <1>3, ThreadFacts DEF Steady, RowsSteady
<1> QED
  BY <1>4, SteadyKeeps
-----------------------------------------------------------------------------
(* Wakeups keep the later invariants.                                       *)

\* A wakeup that has made a run.
LEMMA NewRunKeeps ==
    ASSUME IInv, LaterInv, Counted, UNCHANGED <<invokable, blocked>>,
           NEW w \in Wakes, NEW a \in Agents, NEW i \in Issues, NEW why \in {"wake", "mention"},
           wake[w].status = "none", NewRun(w, a, i, why),
           \A j \in Issues \ {i} : lock'[j] = lock[j]
    PROVE  LaterInv'
<1>1. why \in {"wake", "mention", "lost", "comment"} /\ 0 \in 0..1
  OBVIOUS
<1>2. Room /\ run' = [run EXCEPT ![NextRun] = Queued(a, i, why, 0)]
  BY DEF NewRun
<1>3. RowsAdvance /\ RowsSteady
        /\ \A r \in Runs : run'[r] = IF r = NextRun THEN Queued(a, i, why, 0) ELSE run[r]
  <2>1. RowsSteady
    BY <1>1, <1>2, OneMoreRow
  <2>2. why \in {"wake", "mention", "lost", "comment"}
    BY <1>1
  <2>3. PICK losses \in 0..1 : losses = 0
    BY <1>1
  <2>4. Room /\ run' = [run EXCEPT ![NextRun] = Queued(a, i, why, losses)]
    BY <1>2, <2>3
  <2>5. RowsAdvance /\ \A r \in Runs : run'[r] = IF r = NextRun THEN Queued(a, i, why, losses) ELSE run[r]
    BY ONLY IInv, <2>2, <2>4, RowNew
  <2> QED
    BY <2>1, <2>3, <2>5
<1>4. WaitsStay
  <2>1. \A v \in Wakes : wake'[v] = wake[v] \/ wake'[v].status = "queued"
    BY TypeFacts DEF NewRun, Settled, NoWake, IInv
  <2>2. \A j \in Issues : DeferredFor(j)' \subseteq DeferredFor(j)
    BY <2>1 DEF DeferredFor
  <2>3. NextRun \in Runs /\ run'[NextRun].issue = i /\ run'[NextRun].status = "queued"
    BY <1>1, <1>2, <1>3, NextRunFacts, QueuedFacts
  <2> HIDE DEF NextRun
  <2> QED
    BY <2>2, <2>3 DEF WaitsStay
<1> DEFINE f == StartFrame(a, "routes")
           t == Waker(w)
<1>5. f \in FrameRecords /\ f.at = "start"
  BY StartFrameOK DEF Homes
<1>6. t \in Threads /\ stack[t] = <<>> /\ stack' = [stack EXCEPT ![t] = <<f>>] /\ t # Boot
  BY ThreadFacts, WakerFacts DEF NewRun, IInv, RowsOK
<1> HIDE DEF f, t
<1>7. ~At(t, "adapter") /\ ~At(t, "stamp") /\ f.at \notin Releasing /\ ~Claiming(f) /\ f.at \notin Stopping
  BY <1>5, <1>6 DEF At, Claiming, Releasing, Stopping
<1> QED
  BY <1>3, <1>4, <1>5, <1>6, <1>7, TopKeeps

LEMMA WakeIssueKeeps ==
    ASSUME IInv, LaterInv, NEW w \in Wakes, NEW a \in Agents, NEW i \in Issues, NEW comment \in BOOLEAN,
           WakeIssue(w, a, i, comment)
    PROVE  LaterInv'
<1>1. PICK o \in Runs \cup {None} : o = ActiveRunOf(i)
  BY ActiveRunFacts DEF IInv
<1>2. wake[w].status = "none" /\ UNCHANGED <<invokable, blocked, startLock, events>>
      /\ lock' = [lock EXCEPT ![i] = o]
  BY <1>1 DEF WakeIssue, Calls
<1>3. Counted
  BY <1>2 DEF Counted
<1>4. lock'[i] = o /\ \A j \in Issues \ {i} : lock'[j] = lock[j]
  BY <1>2, TypeFacts DEF IInv
<1>5. CASE /\ o # None /\ UNCHANGED <<run, stack>>
           /\ wake' \in {[wake EXCEPT ![w] = Settled("coalesced")], [wake EXCEPT ![w] = Settled("merged")],
                         [wake EXCEPT ![w] = [status |-> "deferred", agent |-> a, issue |-> i]]}
  <2>1. \A v \in Wakes : \/ wake'[v] = wake[v]
                         \/ wake'[v].status \in {"coalesced", "merged"}
                         \/ wake'[v].issue = i
    BY <1>5, TypeFacts DEF Settled, NoWake, IInv
  <2>2. \A j \in Issues \ {i} : DeferredFor(j)' \subseteq DeferredFor(j)
    BY <2>1 DEF DeferredFor
  <2>3. WaitsStay
    BY <1>4, <1>5, <2>2 DEF WaitsStay
  <2>4. Calm => ~blocked' /\ \A x \in Agents : invokable'[x]
    BY <1>2 DEF Calm, NobodyStops
  <2> QED
    BY <1>3, <1>5, <2>3, <2>4, RowsUnchanged, SameRows, StayKeeps
<1>6. CASE NewRun(w, a, i, "wake")
  BY <1>2, <1>3, <1>4, <1>6, NewRunKeeps
<1> QED
  BY <1>1, <1>5, <1>6 DEF WakeIssue

LEMMA WakeMentionKeeps ==
    ASSUME IInv, LaterInv, NEW w \in Wakes, NEW a \in Agents, NEW i \in Issues, WakeMention(w, a, i)
    PROVE  LaterInv'
<1>1. wake[w].status = "none" /\ UNCHANGED <<invokable, blocked, startLock, lock, lockName>>
  BY DEF WakeMention, Calls
<1>2. Counted
  BY DEF WakeMention, Counted, Events
<1>3. CASE wake' = [wake EXCEPT ![w] = Settled("coalesced")] /\ UNCHANGED <<run, stack>>
  <2>1. \A v \in Wakes : wake'[v] = wake[v] \/ wake'[v].status = "coalesced"
    BY <1>3, TypeFacts DEF Settled, NoWake, IInv
  <2>2. \A j \in Issues : DeferredFor(j)' \subseteq DeferredFor(j)
    BY <2>1 DEF DeferredFor
  <2>3. WaitsStay
    BY <1>1, <2>2 DEF WaitsStay
  <2>4. Calm => ~blocked' /\ \A x \in Agents : invokable'[x]
    BY <1>1 DEF Calm, NobodyStops
  <2> QED
    BY <1>2, <1>3, <2>3, <2>4, RowsUnchanged, SameRows, StayKeeps
<1>4. CASE NewRun(w, a, i, "mention")
  BY <1>1, <1>2, <1>4, NewRunKeeps
<1> QED
  BY <1>3, <1>4 DEF WakeMention
-----------------------------------------------------------------------------
(* Releases and retries.                                                    *)

LEMMA ReleaseKeeps ==
    ASSUME IInv, NEW t \in Threads, NEW r \in Runs, NEW rest, Release(t, r, rest),
           UNCHANGED <<invokable, blocked>>, events' \in [Events -> Nat]
    PROVE  RowsSteady /\ WaitsStay
<1>1. RowsSteady
  <2>1. CASE run' = run
    BY <2>1, SameRows
  <2>2. CASE Room /\ \E a \in Agents, i \in Issues : run' = [run EXCEPT ![NextRun] = Queued(a, i, "wake", 0)]
    <3>1. "wake" \in {"wake", "mention", "lost", "comment"} /\ 0 \in 0..1
      OBVIOUS
    <3> QED
      BY <2>2, <3>1, OneMoreRow
  <2> QED
    BY <2>1, <2>2, ReleaseFacts
<1> DEFINE i == CHOOSE x \in Issues : lock[x] = r
           able == {w \in DeferredFor(i) : invokable[wake[w].agent]}
           first == Min(able)
           passed == {w \in DeferredFor(i) : able = {} \/ w < first}
           failed == [w \in Wakes |-> IF w \in passed THEN Settled("failed") ELSE wake[w]]
<1>2. CASE UNCHANGED <<lock, wake>>
  BY <1>1, <1>2, SameWaits
<1>3. Settled("failed").status = "failed" /\ Settled("queued").status = "queued"
  BY DEF Settled, NoWake
<1>4. \A w \in Wakes : failed[w] = wake[w] \/ failed[w] = Settled("failed")
  OBVIOUS
<1>5. CASE /\ \E x \in Issues : lock[x] = r
           /\ able = {}
           /\ lock' = [lock EXCEPT ![i] = None]
           /\ wake' = failed
  <2>1. PICK x \in Issues : x = i
    BY <1>5
  <2>2. \A w \in DeferredFor(x) : wake'[w] = Settled("failed")
    BY <1>5, <2>1 DEF DeferredFor
  <2> HIDE DEF i, failed
  <2>3. \A j \in Issues \ {x} : lock'[j] = lock[j]
    BY <1>5, <2>1, TypeFacts DEF IInv
  <2>4. \A j \in Issues : DeferredFor(j)' \subseteq DeferredFor(j)
    BY <1>3, <1>4, <1>5 DEF DeferredFor
  <2>5. DeferredFor(x)' = {}
    <3> SUFFICES ASSUME NEW w \in Wakes, wake'[w].status = "deferred", wake'[w].issue = x
                 PROVE  FALSE
      BY DEF DeferredFor
    <3>1. w \in DeferredFor(x)
      BY <2>4 DEF DeferredFor
    <3> QED
      BY <1>3, <2>2, <3>1
  <2> QED
    BY <1>1, <2>3, <2>4, <2>5 DEF WaitsStay
<1>6. CASE /\ \E x \in Issues : lock[x] = r
           /\ able # {} /\ Room
           /\ lock' = [lock EXCEPT ![i] = NextRun]
           /\ wake' = [failed EXCEPT ![first] = Settled("queued")]
  <2>1. i \in Issues
    BY <1>6
  <2>2. DOMAIN failed = Wakes
    OBVIOUS
  <2> HIDE DEF i, failed, first
  <2>3. NextRun \in Runs
    BY <1>6, NextRunFacts
  <2> HIDE DEF NextRun
  <2>4. (\A j \in Issues \ {i} : lock'[j] = lock[j]) /\ lock'[i] = NextRun
    BY <1>6, <2>1, TypeFacts DEF IInv
  <2>5. \A w \in Wakes : wake'[w] = failed[w] \/ wake'[w] = Settled("queued")
    BY <1>6, <2>2
  <2>6. \A j \in Issues : DeferredFor(j)' \subseteq DeferredFor(j)
    BY <1>3, <1>4, <2>5 DEF DeferredFor
  <2> QED
    BY <1>1, <2>3, <2>4, <2>6, ConstantFacts DEF WaitsStay
<1> QED
  BY <1>2, <1>5, <1>6 DEF Release

LEMMA RetryKeeps ==
    ASSUME IInv, NEW r \in Runs, Made(r), NEW why \in {"lost", "comment"}, NEW losses \in 0..1,
           Retry(r, why, losses)
    PROVE  RowsSteady /\ WaitsStay
<1>1. PICK i \in Issues, a \in Agents : i = run[r].issue /\ a = run[r].agent
  BY DEF IInv, RowsOK
<1>2. Room /\ run' = [run EXCEPT ![NextRun] = Queued(a, i, why, losses)] /\ UNCHANGED wake
      /\ lock' = [lock EXCEPT ![i] = IF @ = r THEN NextRun ELSE @]
  BY <1>1 DEF Retry
<1>3. RowsSteady
  <2>1. why \in {"wake", "mention", "lost", "comment"}
    OBVIOUS
  <2> QED
    BY <1>2, <2>1, OneMoreRow
<1>4. NextRun \in Runs
  BY <1>2, NextRunFacts
<1> HIDE DEF NextRun
<1>5. \A j \in Issues : lock'[j] = lock[j] \/ lock'[j] = NextRun
  BY <1>2, TypeFacts DEF IInv
<1>6. WaitsStay
  BY <1>2, <1>4, <1>5, ConstantFacts DEF WaitsStay, DeferredFor
<1> QED
  BY <1>3, <1>6

\* Who releases goes on as g.
LEMMA ReleaseGoesOn ==
    ASSUME IInv, LaterInv, NEW t \in Threads, stack[t] # <<>>, NEW r \in Runs,
           NEW g \in FrameRecords, Release(t, r, <<g>>), Counted,
           UNCHANGED <<invokable, blocked>>, events' \in [Events -> Nat],
           ~At(t, "adapter"), ~At(t, "stamp"), ~Claiming(g), g.at \notin Releasing,
           Calm => g.at \notin Stopping
    PROVE  LaterInv'
<1>1. RowsAdvance /\ RowsSteady /\ WaitsStay
  BY ReleaseFacts, ReleaseKeeps
<1>2. CASE Frames(t, <<g>>)
  BY <1>1, <1>2, TopKeeps DEF Goto
<1>3. CASE \E a \in Agents : Frames(t, <<StartFrame(a, Top(t).home)>> \o <<g>>)
  <2>1. PICK a \in Agents : Frames(t, <<StartFrame(a, Top(t).home), g>>)
    BY <1>3, TwoFrames
  <2>2. PICK home \in Homes : home = Top(t).home
    BY ClaimFacts
  <2>3. PICK f \in FrameRecords : f = StartFrame(a, home) /\ f.at = "start"
    BY StartFrameOK
  <2>4. Frames(t, <<f, g>>) /\ ~Claiming(f) /\ f.at \notin Releasing /\ f.at \notin Stopping
    BY <2>1, <2>2, <2>3 DEF Claiming, Releasing, Stopping
  <2> QED
    BY <1>1, <2>3, <2>4, TwoKeep
<1> QED
  BY <1>2, <1>3, ReleaseFacts
-----------------------------------------------------------------------------
(* Starts keep the later invariants.                                        *)

LEMMA ClaimRefusedKeeps ==
    ASSUME IInv, LaterInv, NEW t \in Threads, ClaimRefused(t)
    PROVE  LaterInv'
<1>1. stack[t] # <<>> /\ Top(t).at = "claim" /\ Top(t).todo # {} /\ (~invokable[Top(t).agent] \/ blocked)
      /\ UNCHANGED <<invokable, blocked, run, lock, lockName, wake, startLock, events>>
  BY DEF ClaimRefused, At, rows
<1>2. /\ Top(t) \in FrameRecords /\ Top(t).agent \in Agents /\ Top(t).home \in Homes
      /\ Min(Top(t).todo) \in Runs /\ Made(Min(Top(t).todo))
  BY <1>1, ClaimFacts
<1>3. PICK r \in Runs : r = Min(Top(t).todo) /\ Made(r)
  BY <1>2
<1>4. PICK f : f = CancelFrame(r, Top(t).home)
  OBVIOUS
<1>5. f \in FrameRecords /\ f.at = "cancel"
  <2>1. RowsAdvance /\ Typed /\ MadeOK
    BY <1>1, RowsUnchanged DEF IInv, RowsOK, MadeOK
  <2> QED
    BY <1>2, <1>3, <1>4, <2>1, CancelFrameOK
<1>6. PICK g \in FrameRecords : g = [Top(t) EXCEPT !.todo = @ \ {r}]
  BY <1>2 DEF FrameRecords
<1>7. g.at = "claim" /\ g.agent = Top(t).agent /\ g.todo \subseteq Top(t).todo
  BY <1>1, <1>2, <1>6 DEF FrameRecords
<1>8. Frames(t, <<f, g>>)
  BY <1>3, <1>4, <1>6 DEF ClaimRefused
<1>9. ~Calm
  BY <1>1, <1>2 DEF Calm, NobodyStops
<1>10. /\ ~At(t, "adapter") /\ ~At(t, "stamp") /\ f.at \notin Releasing /\ ~Claiming(f)
       /\ g.at \notin Releasing /\ Claiming(Top(t))
  BY <1>1, <1>5, <1>7 DEF At, Claiming, Releasing
<1>11. RowsAdvance /\ RowsSteady /\ WaitsStay /\ Counted
  BY <1>1, RowsUnchanged, SameRows, SameWaits DEF Counted
<1> QED
  BY <1>1, <1>5, <1>7, <1>8, <1>9, <1>10, <1>11, TwoKeep

\* A claimer that goes on with runs it was claiming.
LEMMA ClaimerMoves ==
    ASSUME IInv, NEW t \in Threads, stack[t] # <<>>, Claiming(Top(t)), NEW g \in FrameRecords, Goto(t, g),
           Claiming(g), g.agent = Top(t).agent, g.todo \subseteq Top(t).todo
    PROVE  /\ StacksMove(t, {g}) /\ BootStays /\ Ends({g}) /\ Claims(t, {g}) /\ NoStops({g})
           /\ ~At(t, "adapter")
BY MoveTop DEF Ends, Claims, NoStops, Claiming, Releasing, Stopping, At

LEMMA ClaimStampKeeps ==
    ASSUME IInv, LaterInv, NEW t \in Threads, ClaimStamp(t)
    PROVE  LaterInv'
<1>1. stack[t] # <<>> /\ Top(t).at = "stamp" /\ UNCHANGED <<invokable, blocked, run, wake, startLock, events>>
  BY DEF ClaimStamp, At
<1>2. Top(t) \in FrameRecords /\ FrameOK(t, Top(t))
  BY <1>1, ClaimFacts
<1>3. PICK r \in Runs : r = Top(t).run /\ Begun(r)
  BY <1>1, <1>2 DEF FrameOK, Claimed
<1>4. PICK i \in Issues : i = run[r].issue
  BY <1>3 DEF IInv, RowsOK, Begun, Made
<1>5. PICK g \in FrameRecords :
        g = [Top(t) EXCEPT !.at = "claim", !.run = None, !.todo = @ \ {r}, !.got = @ \cup {r}]
  BY <1>2, ConstantFacts DEF FrameRecords, Places
<1>6. g.at = "claim" /\ g.agent = Top(t).agent /\ g.todo \subseteq Top(t).todo
  BY <1>2, <1>5 DEF FrameRecords
<1>7. Goto(t, g)
  BY <1>3, <1>5 DEF ClaimStamp
<1> DEFINE S == {g}
<1>8. /\ StacksMove(t, S) /\ BootStays /\ Ends(S) /\ Claims(t, S) /\ NoStops(S)
      /\ ~At(t, "adapter")
  BY <1>1, <1>6, <1>7, ClaimerMoves DEF Claiming
<1> HIDE DEF S
<1>9. Counted /\ RowsAdvance /\ RowsSteady
  BY <1>1, RowsUnchanged, SameRows DEF Counted
<1>10. ASSUME ChildrenOK, EndsOK, WithinLimit, SlotsOK
       PROVE  ChildrenOK' /\ EndsOK' /\ WithinLimit' /\ SlotsOK'
  BY <1>8, <1>9, <1>10, ChildrenKept, EndsKept, WithinKept, SlotsKept DEF RowsSteady
<1>11. ASSUME Calm, Undisturbed
       PROVE  WaitInv'
  <2>1. NobodyStops'
    <3>1. StaysCalm
      BY <1>1, <1>8, <1>11 DEF Calm, NobodyStops, StaysCalm, BootStays
    <3> QED
      BY <1>8, <1>11, <3>1, StopsKept
  <2>2. ASSUME NEW j \in Issues, DeferredFor(j)' # {}, lock'[j] = None
        PROVE  OnItsWay(j)'
    <3>1. lock' = IF lock[i] \in {None, r} THEN [lock EXCEPT ![i] = r] ELSE lock
      BY <1>3, <1>4 DEF ClaimStamp
    <3>2. j # i /\ lock[j] = None
      BY <2>2, <3>1, <1>3, ConstantFacts, TypeFacts DEF IInv
    <3>3. DeferredFor(j) # {}
      BY <1>1, <2>2 DEF DeferredFor
    <3>4. PICK q \in Runs : /\ run[q].issue = j
                            /\ run[q].status = "queued" \/ (run[q].status = "running" /\ Stamping(q))
      BY <1>11, <3>2, <3>3 DEF LaterInv, WaitInv, OnItsWay
    <3>5. q # Top(t).run
      BY <1>3, <1>4, <3>2, <3>4
    <3>6. Stamping(q) => Stamping(q)'
      BY <1>8, <3>5, StampingStays
    <3> QED
      BY <1>1, <3>4, <3>6 DEF OnItsWay
  <2> QED
    BY <2>1, <2>2 DEF WaitInv
<1> QED
  BY <1>9, <1>10, <1>11, LaterKept

LEMMA StartRunsKeeps ==
    ASSUME IInv, LaterInv, NEW t \in Threads, StartRuns(t)
    PROVE  LaterInv'
<1>1. /\ stack[t] # <<>> /\ Top(t).at = "claim"
      /\ UNCHANGED <<invokable, blocked, run, lock, lockName, wake, events>>
  BY DEF StartRuns, At, rows
<1> DEFINE New(r) == Frame("begin", Top(t).home, r, Top(t).agent, {})
           S == {New(r) : r \in Top(t).got}
<1>2. /\ stack' \in [Threads -> Seq(FrameRecords)]
      /\ \A u \in Threads :
           \/ u = t /\ stack'[u] = Tail(stack[u])
           \/ u # t /\ stack'[u] = stack[u]
           \/ u # t /\ stack[u] = <<>> /\ \E r \in Top(t).got : u = Executor(r) /\ stack'[u] = <<New(r)>>
  BY StartRunsFacts
<1>3. \A f \in S : f.at = "begin"
  BY DEF Frame
<1> HIDE DEF New
<1>4. /\ \A k \in DOMAIN Tail(stack[t]) : k + 1 \in DOMAIN stack[t] /\ Tail(stack[t])[k] = stack[t][k + 1]
      /\ \A k \in DOMAIN stack[t] : k # 1 => k - 1 \in DOMAIN Tail(stack[t]) /\ Tail(stack[t])[k - 1] = stack[t][k]
  <2>1. stack[t] \in Seq(FrameRecords)
    BY TypeFacts DEF IInv
  <2> QED
    BY <1>1, <2>1
<1>5. StacksMove(t, S)
  <2>1. ASSUME NEW u \in Threads, NEW k \in DOMAIN stack'[u]
        PROVE  (\E j \in DOMAIN stack[u] : stack'[u][k] = stack[u][j]) \/ stack'[u][k] \in S
    <3>1. CASE u = t /\ stack'[u] = Tail(stack[u])
      BY <1>4, <2>1, <3>1
    <3>2. CASE u # t /\ stack'[u] = stack[u]
      BY <2>1, <3>2
    <3>3. ASSUME NEW r \in Top(t).got, stack'[u] = <<New(r)>>
          PROVE  stack'[u][k] \in S
      <4>1. k = 1 /\ stack'[u][k] = New(r)
        BY <2>1, <3>3
      <4> QED
        BY <4>1
    <3> QED
      BY <1>2, <3>1, <3>2, <3>3
  <2>2. ASSUME NEW u \in Threads, NEW j \in DOMAIN stack[u], ~(u = t /\ j = 1)
        PROVE  \E k \in DOMAIN stack'[u] : stack'[u][k] = stack[u][j]
    <3>1. CASE u = t /\ stack'[u] = Tail(stack[u])
      BY <1>4, <2>2, <3>1
    <3>2. CASE u # t /\ stack'[u] = stack[u]
      BY <2>2, <3>2
    <3>3. stack[u] # <<>>
      BY <2>2
    <3> QED
      BY <1>2, <3>1, <3>2, <3>3
  <2> HIDE DEF S
  <2> QED
    BY <1>2, <2>1, <2>2 DEF StacksMove
<1>6. BootStays
  BY <1>1, <1>2, ThreadFacts, ExecutorFacts, StartRunsFacts DEF BootStays
<1> HIDE DEF S
<1>7. /\ Ends(S) /\ Claims(t, S) /\ NoStops(S) /\ ~At(t, "adapter") /\ ~At(t, "stamp")
  BY <1>1, <1>3 DEF Ends, Claims, NoStops, Claiming, Releasing, Stopping, At
<1>8. RowsAdvance /\ RowsSteady /\ WaitsStay /\ Counted
  BY <1>1, RowsUnchanged, SameRows, SameWaits DEF Counted
<1> QED
  BY <1>1, <1>5, <1>6, <1>7, <1>8, SteadyStep

\* At most n members of a set of rows have fewer than n members before them.
LEMMA FirstFew ==
    ASSUME NEW S \in SUBSET Runs, NEW n \in Nat
    PROVE  Cardinality({r \in S : Cardinality({q \in S : q < r}) < n}) <= n
<1> DEFINE Before(r) == {q \in S : q < r}
           P == {r \in S : Cardinality(Before(r)) < n}
<1>1. P \in SUBSET Runs /\ P \subseteq S /\ \A r \in P : Cardinality(Before(r)) < n
  OBVIOUS
<1> HIDE DEF P
<1>2. \A r \in S : Before(r) \in SUBSET Runs /\ r \notin Before(r) /\ \A q \in S : q <= r => q \in Before(r) \cup {r}
  <2>1. S \subseteq Nat
    BY ConstantFacts
  <2>2. ASSUME NEW r \in S, NEW q \in S, q <= r
        PROVE  q < r \/ q = r
    BY <2>1, <2>2
  <2>3. \A r \in S : ~(r < r)
    BY <2>1
  <2> QED
    BY <2>2, <2>3
<1>3. MaxRuns \in Nat /\ \A r \in Runs : r \in Nat /\ r <= MaxRuns
  BY ConstantFacts DEF Runs
<1> HIDE DEF Before
<1>4. ASSUME P = {}
      PROVE  Cardinality(P) <= n
  <2>1. Cardinality(P) = 0
    BY <1>4, FS_EmptySet
  <2> QED
    BY <2>1
<1>5. ASSUME P # {}
      PROVE  Cardinality(P) <= n
  <2> DEFINE D == {MaxRuns - r : r \in P}
  <2>1. D \in SUBSET Nat /\ D # {}
    BY <1>1, <1>3, <1>5
  <2>2. Min(D) \in D /\ \A x \in D : Min(D) <= x
    BY <2>1, MinIsMember
  <2>3. PICK m \in P : Min(D) = MaxRuns - m
    BY <2>2
  <2>4. ASSUME NEW r \in P
        PROVE  r <= m
    <3>1. MaxRuns - m <= MaxRuns - r
      BY <2>2, <2>3
    <3> QED
      BY <1>1, <1>3, <3>1
  <2>5. Before(m) \in SUBSET Runs /\ P \subseteq Before(m) \cup {m} /\ m \notin Before(m) /\ m \in Runs
    BY <1>1, <1>2, <2>4
  <2>6. Cardinality(Before(m)) < n
    BY <1>1
  <2>7. IsFiniteSet(Before(m)) /\ Cardinality(Before(m)) \in Nat
    BY <2>5, RunsFacts
  <2>8. Cardinality(Before(m) \cup {m}) = Cardinality(Before(m)) + 1
    BY <2>5, <2>7, FS_AddElement
  <2>9. Cardinality(P) \in Nat /\ Cardinality(P) <= Cardinality(Before(m) \cup {m})
    <3>1. Before(m) \cup {m} \in SUBSET Runs
      BY <2>5
    <3> QED
      BY <2>5, <3>1, RunsFacts
  <2> QED
    BY <2>6, <2>7, <2>8, <2>9
<1>6. Cardinality(P) <= n
  BY <1>4, <1>5
<1> QED
  BY <1>6 DEF P, Before

LEMMA StartPickKeeps ==
    ASSUME IInv, LaterInv, NEW t \in Threads, StartPick(t)
    PROVE  LaterInv'
<1> DEFINE a == Top(t).agent
           queued == RunsOf(a, "queued")
           running == RunsOf(a, "running")
           slots == MaxConcurrent - Cardinality(running)
           picked == {r \in queued : Cardinality({q \in queued : q < r}) < slots}
<1>1. stack[t] # <<>> /\ Top(t).at = "start" /\ startLock[a] = NoThread
      /\ UNCHANGED <<invokable, blocked, run, lock, lockName, wake, events>>
  BY DEF StartPick, At, rows
<1>2. Top(t) \in FrameRecords /\ a \in Agents
  BY <1>1, ClaimFacts
<1>3. RowsAdvance /\ RowsSteady /\ WaitsStay /\ Counted
  BY <1>1, RowsUnchanged, SameRows, SameWaits DEF Counted
<1>4. ~At(t, "adapter") /\ ~At(t, "stamp")
  BY <1>1 DEF At
<1>5. CASE Return(t)
  BY <1>1, <1>3, <1>4, <1>5, PopKeeps
<1>6. CASE Goto(t, [Top(t) EXCEPT !.at = "claim", !.todo = picked])
  <2>1. picked \subseteq Runs /\ queued \in SUBSET Runs /\ running \in SUBSET Runs
    BY DEF RunsOf
  <2>2. PICK g \in FrameRecords : g = [Top(t) EXCEPT !.at = "claim", !.todo = picked]
    BY <1>2, <2>1 DEF FrameRecords, Places
  <2>3. g.at = "claim" /\ g.agent = a /\ g.todo = picked
    BY <1>2, <2>2 DEF FrameRecords
  <2>4. Goto(t, g)
    BY <1>6, <2>2
  <2> DEFINE S == {g}
  <2>5. StacksMove(t, S) /\ BootStays
    BY <1>1, <2>4, MoveTop
  <2>6. Ends(S) /\ NoStops(S)
    BY <2>3 DEF Ends, NoStops, Releasing, Stopping
  <2>7. ASSUME WithinLimit
        PROVE  Cardinality(running \cup picked) <= MaxConcurrent
    <3> HIDE DEF a
    <3>1. Cardinality(running) \in Nat /\ IsFiniteSet(running) /\ Cardinality(running) <= MaxConcurrent
      BY <1>2, <2>1, <2>7, RunsFacts DEF WithinLimit, a
    <3>2. slots \in Nat /\ Cardinality(running) + slots = MaxConcurrent
      BY <3>1, ConstantFacts
    <3> HIDE DEF slots, queued, running
    <3>3. Cardinality(picked) <= slots
      BY <2>1, <3>2, FirstFew
    <3> HIDE DEF picked
    <3>4. IsFiniteSet(picked) /\ Cardinality(picked) \in Nat
      BY <2>1, RunsFacts
    <3>5. Cardinality(running \cup picked) =
            Cardinality(running) + Cardinality(picked) - Cardinality(running \cap picked)
      BY <3>1, <3>4, FS_Union
    <3>6. Cardinality(running \cap picked) \in Nat
      BY <2>1, RunsFacts
    <3> QED
      BY <3>1, <3>2, <3>3, <3>4, <3>5, <3>6, ConstantFacts
  <2> HIDE DEF S
  <2>8. ASSUME ChildrenOK, EndsOK, WithinLimit, SlotsOK
        PROVE  ChildrenOK' /\ EndsOK' /\ WithinLimit' /\ SlotsOK'
    <3>1. ChildrenOK' /\ EndsOK' /\ WithinLimit'
      BY <1>3, <1>4, <2>5, <2>6, <2>8, ChildrenKept, EndsKept, WithinKept DEF RowsSteady
    <3>2. ASSUME NEW u \in Threads, NEW k \in DOMAIN stack'[u], Claiming(stack'[u][k])
          PROVE  (Cardinality(Taken(stack[u][k])) <= MaxConcurrent)'
      <4>1. PICK f : f = stack'[u][k]
        OBVIOUS
      <4>2. CASE f \in S
        <5>1. f = g
          BY <4>2 DEF S
        <5>2. RunsOf(f.agent, "running")' \cup f.todo = running \cup picked
          BY <1>1, <2>3, <5>1 DEF RunsOf
        <5> QED
          BY <2>7, <2>8, <4>1, <5>2 DEF Taken, RunsOf
      <4>3. ASSUME NEW j \in DOMAIN stack[u], f = stack[u][j]
            PROVE  (Cardinality(Taken(stack[u][k])) <= MaxConcurrent)'
        <5>1. Cardinality(Taken(f)) <= MaxConcurrent
          BY <2>8, <3>2, <4>1, <4>3 DEF SlotsOK, Claiming
        <5> QED
          BY <1>1, <4>1, <5>1 DEF Taken, RunsOf
      <4> QED
        BY <2>5, <4>1, <4>2, <4>3 DEF StacksMove
    <3>3. SlotsOK'
      BY <3>2 DEF SlotsOK, Claiming
    <3> QED
      BY <3>1, <3>3
  <2>9. ASSUME Calm, Undisturbed
        PROVE  WaitInv'
    <3>1. StaysCalm
      BY <1>1, <2>5, <2>9 DEF Calm, NobodyStops, StaysCalm, BootStays
    <3> QED
      BY <1>3, <1>4, <2>5, <2>6, <2>9, <3>1, WaitKept DEF RowsSteady, LaterInv
  <2> QED
    BY <1>3, <2>8, <2>9, LaterKept
<1> QED
  BY <1>5, <1>6 DEF StartPick

LEMMA ClaimRunKeeps ==
    ASSUME IInv, LaterInv, NEW t \in Threads, ClaimRun(t)
    PROVE  LaterInv'
<1>1. /\ stack[t] # <<>> /\ Top(t).at = "claim" /\ Top(t).todo # {}
      /\ UNCHANGED <<invokable, blocked, lock, lockName, wake, startLock, events>>
  BY DEF ClaimRun, At
<1>2. /\ Top(t) \in FrameRecords /\ FrameOK(t, Top(t))
      /\ Min(Top(t).todo) \in Runs /\ Min(Top(t).todo) \in Top(t).todo
  BY <1>1, ClaimFacts
<1>3. PICK r \in Runs : r = Min(Top(t).todo) /\ r \in Top(t).todo
  BY <1>2
<1>4. run[r].agent = Top(t).agent
  BY <1>1, <1>2, <1>3 DEF FrameOK, Claiming
<1>5. Counted /\ WaitsStay
  BY <1>1, SameWaits DEF Counted
<1>6. CASE Goto(t, [Top(t) EXCEPT !.todo = @ \ {r}]) /\ UNCHANGED run
  <2>1. PICK g \in FrameRecords : g = [Top(t) EXCEPT !.todo = @ \ {r}]
    BY <1>2 DEF FrameRecords
  <2>2. g.at = "claim" /\ g.agent = Top(t).agent /\ g.todo \subseteq Top(t).todo
    BY <1>1, <1>2, <2>1 DEF FrameRecords
  <2>3. Goto(t, g)
    BY <1>6, <2>1
  <2> DEFINE S == {g}
  <2>4. /\ StacksMove(t, S) /\ BootStays /\ Ends(S) /\ Claims(t, S) /\ NoStops(S)
        /\ ~At(t, "adapter") /\ ~At(t, "stamp")
    BY <1>1, <2>2, <2>3, ClaimerMoves DEF Claiming, At
  <2> HIDE DEF S
  <2> QED
    BY <1>1, <1>5, <1>6, <2>4, RowsUnchanged, SameRows, SteadyStep
<1>7. CASE /\ run[r].status = "queued"
           /\ run' = [run EXCEPT ![r].status = "running"]
           /\ Goto(t, [Top(t) EXCEPT !.at = "stamp", !.run = r])
  <2>1. run \in [Runs -> RunRecords]
    BY TypeFacts DEF IInv
  <2>2. PICK row \in RunRecords : row = [run[r] EXCEPT !.status = "running"]
    BY <2>1 DEF RunRecords
  <2>3. /\ row.status = "running" /\ row.agent = run[r].agent /\ row.issue = run[r].issue
        /\ row.losses = run[r].losses /\ row.child = run[r].child
    BY <2>1, <2>2 DEF RunRecords
  <2>4. run' = [run EXCEPT ![r] = row]
    BY <1>7, <2>2
  <2>5. RowsAdvance
    <3>1. Made(r) /\ (Quiet(r) => row.child = "none")
      BY <1>7, <2>3 DEF Quiet, Made
    <3>2. row.status \notin {"none", "queued"}
      BY <2>3
    <3> QED
      BY <2>3, <2>4, <3>1, <3>2, RowSet
  <2>6. \A q \in Runs : run'[q] = IF q = r THEN row ELSE run[q]
    BY <2>1, <2>4
  <2>7. NoRevival /\ NoBirth
    <3>1. NoRevival
      BY <1>7, <2>6 DEF NoRevival, Over, OverNext
    <3>2. NoBirth
      BY <2>3, <2>6 DEF NoBirth
    <3> QED
      BY <3>1, <3>2
  <2>8. PICK g \in FrameRecords : g = [Top(t) EXCEPT !.at = "stamp", !.run = r]
    BY <1>2 DEF FrameRecords, Places
  <2>9. g.at = "stamp" /\ g.agent = Top(t).agent /\ g.todo = Top(t).todo /\ g.run = r
    BY <1>2, <2>8 DEF FrameRecords
  <2>10. Goto(t, g)
    BY <1>7, <2>8
  <2> DEFINE S == {g}
  <2>11. /\ StacksMove(t, S) /\ BootStays /\ Ends(S) /\ Claims(t, S) /\ NoStops(S)
         /\ ~At(t, "adapter") /\ ~At(t, "stamp")
    BY <1>1, <2>9, <2>10, ClaimerMoves DEF Claiming, At
  <2>0. PICK a \in Agents : a = Top(t).agent
    BY <1>1, <1>2 DEF FrameOK
  <2> DEFINE taken == RunsOf(a, "running") \cup Top(t).todo
  <2>12. 1 \in DOMAIN stack[t] /\ stack[t][1] = Top(t)
    BY <1>1, TopFacts DEF IInv
  <2>13. \A b : b # a => RunsOf(b, "running")' = RunsOf(b, "running")
    BY <1>4, <2>0, <2>3, <2>6 DEF RunsOf
  <2>14. RunsOf(a, "running")' = RunsOf(a, "running") \cup {r}
    BY <1>4, <2>0, <2>3, <2>6 DEF RunsOf
  <2>15. taken \in SUBSET Runs /\ RunsOf(a, "running")' \subseteq taken
    BY <1>2, <1>3, <2>14 DEF RunsOf, FrameRecords
  <2>16. ASSUME SlotsOK
         PROVE  Cardinality(taken) <= MaxConcurrent
    BY <1>1, <2>0, <2>12, <2>16 DEF SlotsOK, Taken, Claiming
  <2> HIDE DEF S, taken
  <2>17. ASSUME ChildrenOK, EndsOK, WithinLimit, SlotsOK
         PROVE  ChildrenOK' /\ EndsOK' /\ WithinLimit' /\ SlotsOK'
    <3>1. ChildrenOK' /\ EndsOK'
      BY <2>7, <2>11, <2>17, ChildrenKept, EndsKept
    <3>2. ASSUME NEW b \in Agents
          PROVE  Cardinality(RunsOf(b, "running")') <= MaxConcurrent
      <4>1. CASE b # a
        BY <2>13, <2>17, <4>1 DEF WithinLimit
      <4>2. CASE b = a
        <5>1. PICK new : new = RunsOf(a, "running")'
          OBVIOUS
        <5>2. Cardinality(new) \in Nat /\ Cardinality(taken) \in Nat /\ Cardinality(new) <= Cardinality(taken)
          BY <2>15, <5>1, RunsFacts
        <5>3. Cardinality(new) <= MaxConcurrent
          BY <2>16, <2>17, <5>2, ConstantFacts
        <5> QED
          BY <2>14, <4>2, <5>1, <5>3 DEF RunsOf
      <4> QED
        BY <4>1, <4>2
    <3>3. WithinLimit'
      BY <3>2 DEF WithinLimit
    <3>4. ASSUME NEW u \in Threads, NEW k \in DOMAIN stack'[u], Claiming(stack'[u][k]),
                 NEW f, f = stack'[u][k]
          PROVE  Cardinality(RunsOf(f.agent, "running")' \cup f.todo) <= MaxConcurrent
      <4>1. CASE f \in S
        <5>1. f.agent = a /\ f.todo = Top(t).todo
          BY <2>0, <2>9, <4>1 DEF S
        <5>2. RunsOf(f.agent, "running")' \cup f.todo = taken
          BY <1>3, <2>14, <5>1 DEF taken
        <5> QED
          BY <2>16, <2>17, <5>2
      <4>2. ASSUME NEW j \in DOMAIN stack[u], f = stack[u][j]
            PROVE  Cardinality(RunsOf(f.agent, "running")' \cup f.todo) <= MaxConcurrent
        <5>1. Cardinality(RunsOf(f.agent, "running") \cup f.todo) <= MaxConcurrent /\ Claiming(stack[u][j])
          BY <2>17, <3>4, <4>2 DEF SlotsOK, Taken, Claiming
        <5>2. CASE f.agent # a
          BY <2>13, <5>1, <5>2
        <5>3. CASE f.agent = a
          <6>1. u = t /\ j = 1
            <7>1. startLock[a] = t /\ startLock[a] = u
              BY <1>1, <1>2, <2>0, <4>2, <5>1, <5>3 DEF IInv, FramesOK, FrameOK, Claiming
            <7> QED
              BY <1>1, <2>12, <4>2, <5>1, <5>3, <7>1, <2>0 DEF IInv, OneClaimer, Claiming
          <6>2. f = Top(t)
            BY <2>12, <4>2, <6>1
          <6>3. RunsOf(f.agent, "running")' \cup f.todo = taken
            BY <1>3, <2>14, <5>3, <6>2 DEF taken
          <6> QED
            BY <2>16, <2>17, <6>3
        <5> QED
          BY <5>2, <5>3
      <4> QED
        BY <2>11, <3>4, <4>1, <4>2 DEF StacksMove
    <3>5. SlotsOK'
      BY <3>4 DEF SlotsOK, Taken, Claiming, RunsOf
    <3> QED
      BY <3>1, <3>3, <3>5
  <2>18. ASSUME Calm, Undisturbed
         PROVE  WaitInv'
    <3>1. NobodyStops'
      <4>1. StaysCalm
        BY <1>1, <2>11, <2>18 DEF Calm, NobodyStops, StaysCalm, BootStays
      <4> QED
        BY <2>11, <2>18, <4>1, StopsKept
    <3>2. Stamping(r)'
      <4>1. \A k \in DOMAIN <<g>> : k \in DOMAIN stack'[t] /\ stack'[t][k] = <<g>>[k]
        <5> DEFINE s == <<g>>
        <5>1. s \in Seq(FrameRecords)
          OBVIOUS
        <5>2. Replaces(t, s)
          BY <1>1, <2>10, FramesReplace DEF Goto, IInv
        <5> HIDE DEF s
        <5>3. \A k \in DOMAIN s : k \in DOMAIN stack'[t] /\ stack'[t][k] = s[k]
          BY <5>1, <5>2, ReplaceFacts DEF IInv
        <5> QED
          BY <5>3 DEF s
      <4>2. 1 \in DOMAIN stack'[t] /\ stack'[t][1] = g
        BY <4>1
      <4> QED
        BY <2>9, <4>2 DEF Stamping
    <3>3. ASSUME NEW i \in Issues, DeferredFor(i)' # {}, lock'[i] = None
          PROVE  OnItsWay(i)'
      <4>1. DeferredFor(i) # {} /\ lock[i] = None
        BY <1>1, <3>3 DEF DeferredFor
      <4>2. PICK q \in Runs : /\ run[q].issue = i
                              /\ run[q].status = "queued" \/ (run[q].status = "running" /\ Stamping(q))
        BY <2>18, <4>1 DEF LaterInv, WaitInv, OnItsWay
      <4>3. CASE q = r
        BY <2>3, <2>6, <3>2, <4>2, <4>3 DEF OnItsWay
      <4>4. CASE q # r
        <5>1. Stamping(q) => Stamping(q)'
          BY <2>11, StampingStays
        <5> QED
          BY <2>6, <4>2, <4>4, <5>1 DEF OnItsWay
      <4> QED
        BY <4>3, <4>4
    <3> QED
      BY <3>1, <3>3 DEF WaitInv
  <2> QED
    BY <1>5, <2>17, <2>18, LaterKept
<1> QED
  BY <1>1, <1>3, <1>6, <1>7 DEF ClaimRun
-----------------------------------------------------------------------------
(* Executions keep the later invariants.                                    *)

\* A run being stamped is not executed yet.
LEMMA StampingQuiet ==
    ASSUME IInv, NEW r \in Runs, Stamping(r)
    PROVE  Quiet(r)
<1>1. PICK u \in Threads : \E j \in DOMAIN stack[u] : stack[u][j].at = "stamp" /\ stack[u][j].run = r
  BY DEF Stamping
<1>2. PICK j \in DOMAIN stack[u] : stack[u][j].at = "stamp" /\ stack[u][j].run = r
  BY <1>1
<1> QED
  BY <1>2 DEF IInv, FramesOK, FrameOK, Claimed

\* A step of an execution that spawns or ends its own child.
LEMMA ChildKeeps ==
    ASSUME IInv, LaterInv, NEW r \in Runs, NEW at \in {"begin", "adapter"}, At(Executor(r), at),
           UNCHANGED <<invokable, blocked, lock, wake, events>>, RowsAdvance,
           \A q \in Runs : run'[q].status = run[q].status,
           \A q \in Runs \ {r} : run'[q] = run[q],
           NEW g \in FrameRecords, Goto(Executor(r), g), g.at \in {"adapter", "finished", "cancelled"},
           run'[r].child = "alive" => g.at = "adapter"
    PROVE  LaterInv'
<1>1. PICK t \in Threads : t = Executor(r)
  BY ThreadFacts
<1>2. stack[t] # <<>> /\ ~At(t, "stamp")
  BY <1>1 DEF At
<1> DEFINE S == {g}
<1>3. StacksMove(t, S) /\ BootStays
  BY <1>1, <1>2, MoveTop
<1>4. Ends(S) /\ Claims(t, S) /\ NoStops(S)
  BY DEF Ends, Claims, NoStops, Claiming, Releasing, Stopping
<1> HIDE DEF S
<1>5. Counted /\ WaitsStay
  BY SameWaits DEF Counted
<1>6. NoRevival /\ NoneClaimed /\ WayStays
  BY DEF NoRevival, NoneClaimed, WayStays, Over, OverNext
<1>7. 1 \in DOMAIN stack'[t] /\ stack'[t][1] = g
  <2> DEFINE s == <<g>>
  <2>1. s \in Seq(FrameRecords) /\ 1 \in DOMAIN s /\ s[1] = g
    OBVIOUS
  <2>2. Replaces(t, s)
    BY <1>1, <1>2, FramesReplace DEF Goto, IInv
  <2> HIDE DEF s
  <2> QED
    BY <2>1, <2>2, ReplaceFacts DEF IInv
<1>8. ASSUME ChildrenOK, EndsOK, WithinLimit, SlotsOK
      PROVE  ChildrenOK' /\ EndsOK' /\ WithinLimit' /\ SlotsOK'
  <2>1. ASSUME NEW q \in Runs, run'[q].child = "alive"
        PROVE  At(Executor(q), "adapter")'
    <3>1. CASE q = r
      <4>1. stack'[t] # <<>> /\ Head(stack'[t]) = g
        BY <1>7
      <4> QED
        BY <1>1, <2>1, <3>1, <4>1 DEF At, Top
    <3>2. CASE q # r
      <4>1. At(Executor(q), "adapter") /\ Executor(q) # t /\ Executor(q) \in Threads
        BY <1>1, <1>8, <2>1, <3>2, ExecutorFacts, ThreadFacts DEF ChildrenOK
      <4>2. stack'[Executor(q)] = stack[Executor(q)]
        BY <1>3, <4>1 DEF StacksMove, At
      <4> QED
        BY <4>1, <4>2 DEF At, Top
    <3> QED
      BY <3>1, <3>2
  <2>2. ChildrenOK'
    BY <2>1 DEF ChildrenOK
  <2> QED
    BY <1>3, <1>4, <1>6, <1>8, <2>2, EndsKept, WithinKept, SlotsKept
<1>9. ASSUME Calm, Undisturbed
      PROVE  WaitInv'
  <2>1. StaysCalm
    BY <1>3, <1>9 DEF Calm, NobodyStops, StaysCalm, BootStays
  <2> QED
    BY <1>2, <1>3, <1>4, <1>5, <1>6, <1>9, <2>1, WaitKept DEF LaterInv
<1> QED
  BY <1>5, <1>8, <1>9, LaterKept

LEMMA ExecBeginKeeps ==
    ASSUME IInv, LaterInv, NEW r \in Runs, ExecBegin(r)
    PROVE  LaterInv'
<1> DEFINE t == Executor(r)
<1>1. stack[t] # <<>> /\ Top(t).at = "begin" /\ At(t, "begin")
      /\ UNCHANGED <<invokable, blocked, lock, lockName, wake, startLock, events>>
  BY DEF ExecBegin, At
<1>2. t \in Threads /\ Made(r) /\ Begun(r) /\ run[r] \in RunRecords /\ run \in [Runs -> RunRecords]
  BY <1>1, ExecFacts, TypeFacts DEF IInv
<1>3. CASE /\ run' = [run EXCEPT ![r].child = IF run[r].agent \in LocalAgents THEN "alive" ELSE @]
           /\ Goto(t, [Top(t) EXCEPT !.at = "adapter"])
  <2>1. PICK row \in RunRecords :
           row = [run[r] EXCEPT !.child = IF run[r].agent \in LocalAgents THEN "alive" ELSE @]
    BY <1>2 DEF RunRecords
  <2>2. /\ row.status = run[r].status /\ row.agent = run[r].agent /\ row.issue = run[r].issue
        /\ row.losses = run[r].losses
    BY <1>2, <2>1 DEF RunRecords
  <2>3. run' = [run EXCEPT ![r] = row]
    BY <1>3, <2>1
  <2>4. RowsAdvance
    BY <1>1, <1>2, <2>2, <2>3, RowSet DEF Begun, Quiet
  <2>5. (\A q \in Runs : run'[q].status = run[q].status) /\ \A q \in Runs \ {r} : run'[q] = run[q]
    BY <1>2, <2>2, <2>3
  <2>6. PICK g : g = [Top(t) EXCEPT !.at = "adapter"]
    OBVIOUS
  <2>7. g \in FrameRecords /\ g.at = "adapter"
    BY <1>1, <2>6, ExecFrame
  <2>8. Goto(t, g)
    BY <1>3, <2>6
  <2> QED
    BY <1>1, <2>4, <2>5, <2>7, <2>8, ChildKeeps
<1>4. CASE Return(t) /\ UNCHANGED run
  <2>1. ~At(t, "adapter") /\ ~At(t, "stamp") /\ Counted
    BY <1>1 DEF At, Counted
  <2> QED
    BY <1>1, <1>2, <1>4, <2>1, RowsUnchanged, SameRows, SameWaits, PopKeeps
<1> QED
  BY <1>3, <1>4 DEF ExecBegin

LEMMA ExecReturnKeeps ==
    ASSUME IInv, LaterInv, NEW r \in Runs, ExecReturn(r)
    PROVE  LaterInv'
<1> DEFINE t == Executor(r)
<1>1. stack[t] # <<>> /\ Top(t).at = "adapter" /\ At(t, "adapter")
      /\ UNCHANGED <<invokable, blocked, lock, lockName, wake, startLock, events>>
      /\ run' = [run EXCEPT ![r].child = IF @ = "alive" THEN "dead" ELSE @]
  BY DEF ExecReturn, At
<1>2. t \in Threads /\ Made(r) /\ Begun(r) /\ run[r] \in RunRecords /\ run \in [Runs -> RunRecords]
  BY <1>1, ExecFacts, TypeFacts DEF IInv
<1>3. PICK row \in RunRecords : row = [run[r] EXCEPT !.child = IF @ = "alive" THEN "dead" ELSE @]
  BY <1>2 DEF RunRecords
<1>4. /\ row.status = run[r].status /\ row.agent = run[r].agent /\ row.issue = run[r].issue
      /\ row.losses = run[r].losses /\ row.child # "alive"
  BY <1>2, <1>3 DEF RunRecords
<1>5. run' = [run EXCEPT ![r] = row]
  BY <1>1, <1>3
<1>6. RowsAdvance
  BY <1>1, <1>2, <1>4, <1>5, RowSet DEF Begun, Quiet
<1>7. /\ \A q \in Runs : run'[q].status = run[q].status
      /\ \A q \in Runs \ {r} : run'[q] = run[q]
      /\ run'[r].child # "alive"
  BY <1>2, <1>4, <1>5
<1>8. PICK outcome \in {"finished", "cancelled"} : Goto(t, [Top(t) EXCEPT !.at = outcome])
  BY DEF ExecReturn
<1>9. PICK g : g = [Top(t) EXCEPT !.at = outcome]
  OBVIOUS
<1>10. g \in FrameRecords /\ g.at = outcome
  BY <1>1, <1>9, ExecFrame
<1>11. Goto(t, g)
  BY <1>8, <1>9
<1> QED
  BY <1>1, <1>6, <1>7, <1>10, <1>11, ChildKeeps

LEMMA ExecRecordKeeps ==
    ASSUME IInv, LaterInv, NEW r \in Runs, ExecRecord(r)
    PROVE  LaterInv'
<1> DEFINE t == Executor(r)
<1>1. stack[t] # <<>> /\ Top(t).at \in {"finished", "cancelled"}
      /\ UNCHANGED <<invokable, blocked, lock, lockName, wake, startLock, events>>
  BY DEF ExecRecord, At
<1>2. t \in Threads /\ Made(r) /\ Begun(r) /\ run[r] \in RunRecords /\ run \in [Runs -> RunRecords]
  BY <1>1, ExecFacts, TypeFacts DEF IInv
<1>3. PICK row \in RunRecords : row = [run[r] EXCEPT !.status = Top(t).at]
  BY <1>1, <1>2 DEF RunRecords
<1>4. /\ row.status \in {"finished", "cancelled"} /\ row.agent = run[r].agent /\ row.issue = run[r].issue
      /\ row.losses = run[r].losses /\ row.child = run[r].child
  BY <1>1, <1>2, <1>3 DEF RunRecords
<1>5. run' = [run EXCEPT ![r] = row]
  BY <1>3 DEF ExecRecord
<1>6. RowsAdvance
  BY <1>2, <1>4, <1>5, RowSet DEF Quiet
<1>7. OverNext(r) /\ run'[r].child = run[r].child /\ \A q \in Runs \ {r} : run'[q] = run[q]
  BY <1>2, <1>4, <1>5 DEF OverNext
<1>8. RowsSteady
  <2>1. run[r].status # "queued" /\ ~Stamping(r)
    BY <1>1, <1>2, StampingQuiet DEF Begun, Quiet
  <2> QED
    BY <1>7, <2>1, RowEnds
<1>9. PICK g : g = [Top(t) EXCEPT !.at = "ended"]
  OBVIOUS
<1>10. g \in FrameRecords /\ g.at = "ended" /\ g.run = r
  <2>1. /\ Top(t).at \in {"begin", "adapter", "finished", "cancelled", "ended"}
        /\ "ended" \in {"adapter", "finished", "cancelled", "ended"}
    BY <1>1
  <2> QED
    BY <1>1, <1>9, <2>1, ExecFrame
<1>11. Goto(t, g)
  BY <1>9 DEF ExecRecord
<1>12. ~At(t, "adapter") /\ ~At(t, "stamp") /\ ~Claiming(g) /\ g.at \notin Stopping /\ Counted /\ WaitsStay
  BY <1>1, <1>10, SameWaits DEF At, Claiming, Stopping, Counted
<1> QED
  BY <1>1, <1>2, <1>6, <1>7, <1>8, <1>10, <1>11, <1>12, TopKeeps

LEMMA ExecReleaseKeeps ==
    ASSUME IInv, LaterInv, NEW r \in Runs, ExecRelease(r)
    PROVE  LaterInv'
<1> DEFINE t == Executor(r)
<1>1. stack[t] # <<>> /\ Top(t).at = "ended" /\ UNCHANGED <<invokable, blocked, startLock>>
  BY DEF ExecRelease, At
<1>2. t \in Threads /\ Made(r) /\ run[r].agent \in Agents /\ Top(t).home \in Homes
  BY <1>1, ExecFacts
<1>3. PICK g : g = StartFrame(run[r].agent, Top(t).home)
  OBVIOUS
<1>4. g \in FrameRecords /\ g.at = "start"
  BY <1>2, <1>3, StartFrameOK
<1>5. /\ ~At(t, "adapter") /\ ~At(t, "stamp") /\ ~Claiming(g)
      /\ g.at \notin Releasing /\ g.at \notin Stopping
  BY <1>1, <1>4 DEF At, Claiming, Releasing, Stopping
<1>6. CASE Release(t, r, <<g>>) /\ UNCHANGED events
  <2>1. events' \in [Events -> Nat] /\ Counted
    BY <1>6, TypeFacts DEF IInv, Counted
  <2> QED
    BY <1>1, <1>2, <1>4, <1>5, <1>6, <2>1, ReleaseGoesOn
<1>7. CASE RetryComment(r) /\ Happens("comment") /\ Frames(t, <<g>>)
  <2>1. events' \in [Events -> Nat] /\ Counted
    BY <1>7, EventCounted DEF Events, Counted
  <2>2. Retry(r, "comment", 0)
    BY <1>7 DEF RetryComment
  <2>3. RowsAdvance /\ RowsSteady /\ WaitsStay
    BY <1>1, <1>2, <2>1, <2>2, RetryFacts, RetryKeeps
  <2> QED
    BY <1>1, <1>2, <1>4, <1>5, <1>7, <2>1, <2>3, TopKeeps DEF Goto
<1> QED
  BY <1>3, <1>6, <1>7 DEF ExecRelease
-----------------------------------------------------------------------------
(* Cancellations, pauses, budget stops keep the later invariants.           *)

\* Nobody stops anything while all is calm.
LEMMA StopperFacts ==
    ASSUME NEW t \in Threads, stack[t] # <<>>, Top(t).at \in Stopping, IInv
    PROVE  ~Calm /\ ~At(t, "adapter") /\ ~At(t, "stamp")
<1>1. 1 \in DOMAIN stack[t] /\ stack[t][1] = Top(t)
  BY TopFacts DEF IInv
<1> QED
  BY <1>1 DEF Calm, NobodyStops, At, Stopping

\* A run that is killed is over, and revives nobody.
LEMMA KillKeeps ==
    ASSUME IInv, ~Calm, NEW r \in Runs, Made(r), run' = [run EXCEPT ![r] = Kill(@, r)]
    PROVE  RowsAdvance /\ RowsSteady /\ OverNext(r)
<1>1. /\ RowsAdvance /\ run'[r].status = "cancelled"
      /\ run'[r].child \in {run[r].child, "dead"} /\ \A q \in Runs \ {r} : run'[q] = run[q]
  BY KillFacts
<1>2. OverNext(r)
  BY <1>1 DEF OverNext
<1> QED
  BY <1>1, <1>2, RowEnds

LEMMA CancelCallKeeps ==
    ASSUME IInv, LaterInv, NEW r \in Runs, CancelCall(r)
    PROVE  LaterInv'
<1> DEFINE t == Canceller(r)
<1>1. stack[t] = <<>> /\ Live(r) /\ Happens("cancel")
      /\ UNCHANGED <<invokable, blocked, run, lock, lockName, wake, startLock>>
  BY DEF CancelCall, rows
<1>2. Counted /\ events'["cancel"] > 0
  BY <1>1, EventCounted DEF Events, Counted
<1>3. RowsAdvance /\ RowsSteady /\ WaitsStay
  BY <1>1, RowsUnchanged, SameRows, SameWaits
<1>4. Made(r)
  BY <1>1 DEF Live, Made
<1>5. PICK f : f = CancelFrame(r, "routes")
  OBVIOUS
<1>6. f \in FrameRecords /\ f.at = "cancel"
  BY <1>3, <1>4, <1>5, CancelFrameOK DEF IInv, RowsOK, MadeOK, Homes
<1>7. stack' = [stack EXCEPT ![t] = <<f>>] /\ ~Claiming(f) /\ f.at \notin Releasing
  BY <1>5, <1>6 DEF CancelCall, Claiming, Releasing
<1>8. t \in Threads /\ t # Boot
  BY ThreadFacts DEF Canceller, Boot
<1>9. ~Calm /\ ~At(t, "adapter") /\ ~At(t, "stamp")
  BY <1>1, <1>2 DEF Calm, Undisturbed, At
<1> QED
  BY <1>1, <1>2, <1>3, <1>6, <1>7, <1>8, <1>9, TopKeeps

LEMMA CancelSetKeeps ==
    ASSUME IInv, LaterInv, NEW t \in Threads, CancelSet(t)
    PROVE  LaterInv'
<1>1. stack[t] # <<>> /\ Top(t).at = "cancel"
      /\ UNCHANGED <<invokable, blocked, lock, lockName, wake, startLock, events>>
  BY DEF CancelSet, At
<1>2. Counted /\ WaitsStay /\ ~Calm /\ ~At(t, "adapter") /\ ~At(t, "stamp")
  BY <1>1, SameWaits, StopperFacts DEF Counted, Stopping
<1>3. /\ Top(t) \in FrameRecords /\ FrameOK(t, Top(t)) /\ Top(t).run \in Runs /\ Made(Top(t).run)
  BY <1>1, ClaimFacts DEF FrameOK
<1>4. CASE /\ run' = [run EXCEPT ![Top(t).run] = Kill(@, Top(t).run)]
           /\ Goto(t, [Top(t) EXCEPT !.at = "cancelRelease"])
  <2>1. RowsAdvance /\ RowsSteady /\ OverNext(Top(t).run)
    BY <1>2, <1>3, <1>4, KillKeeps
  <2>2. PICK g \in FrameRecords : g = [Top(t) EXCEPT !.at = "cancelRelease"]
    BY <1>3 DEF FrameRecords, Places
  <2>3. g.at = "cancelRelease" /\ g.run = Top(t).run /\ ~Claiming(g)
    BY <1>3, <2>2 DEF FrameRecords, Claiming
  <2>4. Goto(t, g) /\ OverNext(g.run)
    BY <1>4, <2>1, <2>2, <2>3
  <2> QED
    BY <1>1, <1>2, <2>1, <2>3, <2>4, TopKeeps
<1>5. CASE Return(t) /\ UNCHANGED run
  BY <1>1, <1>2, <1>5, RowsUnchanged, SameRows, PopKeeps
<1> QED
  BY <1>4, <1>5 DEF CancelSet

LEMMA CancelReleaseKeeps ==
    ASSUME IInv, LaterInv, NEW t \in Threads, CancelRelease(t)
    PROVE  LaterInv'
<1>1. stack[t] # <<>> /\ Top(t).at = "cancelRelease" /\ UNCHANGED <<invokable, blocked, startLock, events>>
  BY DEF CancelRelease, At
<1>2. Top(t).run \in Runs /\ Top(t).agent \in Agents /\ Top(t).home \in Homes
  BY <1>1, ClaimFacts DEF FrameOK
<1>3. PICK g : g = StartFrame(Top(t).agent, Top(t).home)
  OBVIOUS
<1>4. g \in FrameRecords /\ g.at = "start"
  BY <1>2, <1>3, StartFrameOK
<1>5. ~Claiming(g) /\ g.at \notin Releasing /\ ~Calm /\ ~At(t, "adapter") /\ ~At(t, "stamp")
  BY <1>1, <1>4, StopperFacts DEF Claiming, Releasing, Stopping
<1>6. events' \in [Events -> Nat] /\ Counted
  BY <1>1, TypeFacts DEF IInv, Counted
<1> QED
  BY <1>1, <1>2, <1>3, <1>4, <1>5, <1>6, ReleaseGoesOn DEF CancelRelease

\* Whoever stops nobody any more may find wakeups that nobody serves: only the
\* limits and the ends of runs are kept.
LEMMA StopKeeps ==
    ASSUME IInv, LaterInv, Counted, ~Calm, RowsAdvance, RowsSteady,
           NEW t \in Threads, NEW f \in FrameRecords, t # Boot, stack[t] = <<>>,
           stack' = [stack EXCEPT ![t] = <<f>>], f.at \in {"pause", "budget"}
    PROVE  LaterInv'
<1> DEFINE S == {f}
<1>1. StacksMove(t, S)
  BY MovePush
<1>2. Ends(S) /\ Claims(t, S) /\ ~At(t, "adapter")
  BY DEF Ends, Claims, Claiming, Releasing, At
<1> HIDE DEF S
<1>3. ASSUME ChildrenOK, EndsOK, WithinLimit, SlotsOK
      PROVE  ChildrenOK' /\ EndsOK' /\ WithinLimit' /\ SlotsOK'
  BY <1>1, <1>2, <1>3, ChildrenKept, EndsKept, WithinKept, SlotsKept DEF RowsSteady
<1> QED
  BY <1>3, LaterKept

LEMMA PauseCallKeeps ==
    ASSUME IInv, LaterInv, NEW a \in Agents, PauseCall(a)
    PROVE  LaterInv'
<1> DEFINE t == Pauser(a)
           todo == RunsOf(a, "queued") \cup RunsOf(a, "running")
<1>1. stack[t] = <<>> /\ Happens("pause") /\ UNCHANGED run
  BY DEF PauseCall
<1>2. Counted /\ events'["pause"] > 0
  BY <1>1, EventCounted DEF Events, Counted
<1>3. RowsAdvance /\ RowsSteady
  BY <1>1, RowsUnchanged, SameRows
<1>4. ~Calm
  BY <1>2 DEF Calm, Undisturbed
<1>5. todo \subseteq Runs
  BY DEF RunsOf
<1> HIDE DEF todo
<1>6. PICK f \in FrameRecords : f = Frame("pause", "routes", None, a, todo)
  BY <1>5 DEF Frame, FrameRecords, Places, Homes
<1>7. f.at = "pause"
  BY <1>6 DEF Frame
<1>8. stack' = [stack EXCEPT ![t] = <<f>>]
  BY <1>6 DEF PauseCall, todo
<1>9. t \in Threads /\ t # Boot
  BY ThreadFacts DEF Pauser, Boot
<1> QED
  BY <1>1, <1>2, <1>3, <1>4, <1>7, <1>8, <1>9, StopKeeps

LEMMA PauseNextKeeps ==
    ASSUME IInv, LaterInv, NEW a \in Agents, PauseNext(a)
    PROVE  LaterInv'
<1> DEFINE t == Pauser(a)
           r == Min(Top(t).todo)
<1>1. stack[t] # <<>> /\ Top(t).at = "pause" /\ t \in Threads
      /\ UNCHANGED <<invokable, blocked, lock, lockName, wake, startLock, events>>
  BY ThreadFacts DEF PauseNext, At
<1>2. Counted /\ WaitsStay /\ ~Calm /\ ~At(t, "adapter") /\ ~At(t, "stamp")
  BY <1>1, SameWaits, StopperFacts DEF Counted, Stopping
<1>3. /\ Top(t) \in FrameRecords
      /\ Top(t).todo # {} => r \in Top(t).todo /\ r \in Runs /\ Made(r)
  BY <1>1, ClaimFacts
<1>4. CASE Return(t) /\ UNCHANGED run
  BY <1>1, <1>2, <1>4, RowsUnchanged, SameRows, PopKeeps
<1>5. CASE /\ Top(t).todo # {}
           /\ run' = [run EXCEPT ![r] = Kill(@, r)]
           /\ Goto(t, [Top(t) EXCEPT !.at = "pauseRelease", !.run = r, !.todo = @ \ {r}])
  <2>1. PICK q \in Runs : q = r /\ Made(q)
    BY <1>3, <1>5
  <2> HIDE DEF r
  <2>2. RowsAdvance /\ RowsSteady /\ OverNext(q)
    BY <1>2, <1>5, <2>1, KillKeeps
  <2>3. PICK g \in FrameRecords : g = [Top(t) EXCEPT !.at = "pauseRelease", !.run = q, !.todo = @ \ {q}]
    BY <1>3 DEF FrameRecords, Places
  <2>4. g.at = "pauseRelease" /\ g.run = q /\ ~Claiming(g)
    BY <1>3, <2>3 DEF FrameRecords, Claiming
  <2>5. Goto(t, g)
    BY <1>5, <2>1, <2>3
  <2> QED
    BY <1>1, <1>2, <2>2, <2>4, <2>5, TopKeeps
<1> QED
  BY <1>4, <1>5 DEF PauseNext

LEMMA PauseReleaseKeeps ==
    ASSUME IInv, LaterInv, NEW a \in Agents, PauseRelease(a)
    PROVE  LaterInv'
<1> DEFINE t == Pauser(a)
<1>1. stack[t] # <<>> /\ Top(t).at = "pauseRelease" /\ t \in Threads
      /\ UNCHANGED <<invokable, blocked, startLock, events>>
  BY ThreadFacts DEF PauseRelease, At
<1>2. Top(t) \in FrameRecords /\ Top(t).run \in Runs
  BY <1>1, ClaimFacts DEF FrameOK
<1>3. PICK g \in FrameRecords : g = [Top(t) EXCEPT !.at = "pause", !.run = None]
  BY <1>2, ConstantFacts DEF FrameRecords, Places
<1>4. g.at = "pause"
  BY <1>2, <1>3 DEF FrameRecords
<1>5. ~Claiming(g) /\ g.at \notin Releasing /\ ~Calm /\ ~At(t, "adapter") /\ ~At(t, "stamp")
  BY <1>1, <1>4, StopperFacts DEF Claiming, Releasing, Stopping
<1>6. events' \in [Events -> Nat] /\ Counted
  BY <1>1, TypeFacts DEF IInv, Counted
<1> QED
  BY <1>1, <1>2, <1>3, <1>5, <1>6, ReleaseGoesOn DEF PauseRelease

LEMMA BudgetStopKeeps ==
    ASSUME IInv, LaterInv, BudgetStop
    PROVE  LaterInv'
<1> DEFINE todo == {r \in Runs : Live(r)}
<1>1. stack[BudgetStopper] = <<>> /\ Happens("budget") /\ UNCHANGED run
  BY DEF BudgetStop
<1>2. Counted /\ events'["budget"] > 0
  BY <1>1, EventCounted DEF Events, Counted
<1>3. RowsAdvance /\ RowsSteady
  BY <1>1, RowsUnchanged, SameRows
<1>4. ~Calm
  BY <1>2 DEF Calm, Undisturbed
<1>5. todo \subseteq Runs
  OBVIOUS
<1> HIDE DEF todo
<1>6. PICK f \in FrameRecords : f = Frame("budget", "routes", None, NoAgent, todo)
  BY <1>5 DEF Frame, FrameRecords, Places, Homes
<1>7. f.at = "budget"
  BY <1>6 DEF Frame
<1>8. stack' = [stack EXCEPT ![BudgetStopper] = <<f>>]
  BY <1>6 DEF BudgetStop, todo
<1>9. BudgetStopper \in Threads /\ BudgetStopper # Boot
  BY ThreadFacts DEF BudgetStopper, Boot
<1> QED
  BY <1>1, <1>2, <1>3, <1>4, <1>7, <1>8, <1>9, StopKeeps

LEMMA BudgetNextKeeps ==
    ASSUME IInv, LaterInv, BudgetNext
    PROVE  LaterInv'
<1> DEFINE t == BudgetStopper
           r == Min(Top(t).todo)
<1>1. stack[t] # <<>> /\ Top(t).at = "budget" /\ t \in Threads
      /\ UNCHANGED <<invokable, blocked, run, lock, lockName, startLock, events>>
  BY ThreadFacts DEF BudgetNext, At
<1>2. Counted /\ RowsAdvance /\ RowsSteady /\ ~Calm /\ ~At(t, "adapter") /\ ~At(t, "stamp")
  BY <1>1, RowsUnchanged, SameRows, StopperFacts DEF Counted, Stopping
<1>3. /\ Top(t) \in FrameRecords /\ Top(t).home \in Homes
      /\ Top(t).todo # {} => r \in Top(t).todo /\ r \in Runs /\ Made(r)
  BY <1>1, ClaimFacts
<1>4. CASE /\ Top(t).todo # {}
           /\ Frames(t, <<CancelFrame(r, Top(t).home), [Top(t) EXCEPT !.todo = @ \ {r}]>>)
           /\ UNCHANGED wake
  <2>1. PICK q \in Runs : q = r /\ Made(q)
    BY <1>3, <1>4
  <2> HIDE DEF r
  <2>2. PICK f : f = CancelFrame(q, Top(t).home)
    OBVIOUS
  <2>3. f \in FrameRecords /\ f.at = "cancel"
    <3>1. Typed /\ MadeOK
      BY DEF IInv, RowsOK, MadeOK
    <3> QED
      BY <1>2, <1>3, <2>1, <2>2, <3>1, CancelFrameOK
  <2>4. PICK g \in FrameRecords : g = [Top(t) EXCEPT !.todo = @ \ {q}]
    BY <1>3 DEF FrameRecords
  <2>5. g.at = "budget"
    BY <1>1, <1>3, <2>4 DEF FrameRecords
  <2>6. Frames(t, <<f, g>>)
    BY <1>4, <2>1, <2>2, <2>4
  <2>7. ~Claiming(f) /\ ~Claiming(g) /\ f.at \notin Releasing /\ g.at \notin Releasing
    BY <2>3, <2>5 DEF Claiming, Releasing
  <2>8. WaitsStay
    BY <1>1, <1>4, SameWaits
  <2> QED
    BY <1>1, <1>2, <2>3, <2>6, <2>7, <2>8, TwoKeep
<1>5. CASE /\ Return(t)
           /\ wake' = [w \in Wakes |->
                 IF wake[w].status = "deferred" THEN Settled("cancelled") ELSE wake[w]]
  <2>1. \A w \in Wakes : wake'[w].status # "deferred"
    BY <1>5 DEF Settled, NoWake
  <2>2. WaitsStay
    BY <2>1 DEF WaitsStay, DeferredFor
  <2> QED
    BY <1>1, <1>2, <1>5, <2>2, PopKeeps
<1> QED
  BY <1>4, <1>5 DEF BudgetNext

LEMMA ResumeKeeps ==
    ASSUME IInv, LaterInv, (\E a \in Agents : Resume(a)) \/ BudgetRaised
    PROVE  LaterInv'
<1>1. UNCHANGED <<run, lock, lockName, wake, stack, startLock, events>>
  BY DEF Resume, BudgetRaised
<1>2. Calm => ~blocked' /\ \A a \in Agents : invokable'[a]
  BY TypeFacts DEF IInv, Resume, BudgetRaised, Calm, NobodyStops
<1> QED
  BY <1>1, <1>2, RowsUnchanged, SameRows, SameWaits, StayKeeps DEF Counted
-----------------------------------------------------------------------------
(* The reaper keeps the later invariants.                                   *)

LEMMA TickKeeps ==
    ASSUME IInv, LaterInv, Tick
    PROVE  LaterInv'
<1>1. stack[Timer] = <<>> /\ stack' = [stack EXCEPT ![Timer] = ReapFrame]
      /\ UNCHANGED <<invokable, blocked, run, lock, lockName, wake, startLock, events>>
  BY DEF Tick, rows
<1>2. RowsAdvance /\ RowsSteady /\ WaitsStay /\ Counted
  BY <1>1, RowsUnchanged, SameRows, SameWaits DEF Counted
<1>3. PICK f \in FrameRecords : ReapFrame = <<f>> /\ f.at = "reap" /\ ~Claiming(f)
  BY ReapFrameFacts
<1>4. Timer \in Threads /\ Timer # Boot /\ ~At(Timer, "adapter") /\ ~At(Timer, "stamp")
  BY <1>1, ThreadFacts DEF Timer, Boot, At
<1>5. stack' = [stack EXCEPT ![Timer] = <<f>>] /\ f.at \notin Releasing /\ f.at \notin Stopping
  BY <1>1, <1>3 DEF Releasing, Stopping
<1> QED
  BY <1>1, <1>2, <1>3, <1>4, <1>5, TopKeeps

LEMMA ReapSkipKeeps ==
    ASSUME IInv, LaterInv, NEW t \in Threads, ReapSkip(t)
    PROVE  LaterInv'
<1>1. At(t, "reap") /\ Top(t).todo # {}
      /\ UNCHANGED <<invokable, blocked, lock, lockName, wake, startLock, events>>
  BY DEF ReapSkip
<1>2. Counted /\ WaitsStay
  BY <1>1, SameWaits DEF Counted
<1>3. PICK q \in Runs : q = Min(Top(t).todo)
  BY <1>1, ReapFacts
<1>4. stack[t] # <<>> /\ Top(t).at = "reap" /\ Top(t) \in FrameRecords
  BY <1>1, ReapFacts
<1>5. CASE ~Uncrashed
  <2>1. ~Undisturbed
    BY <1>5 DEF Uncrashed, Undisturbed
  <2> QED
    BY <1>2, <1>5, <2>1, LaterKept
<1>6. CASE Uncrashed
  <2>1. UNCHANGED run
    <3>1. run[q].child = "alive" => Tracked(q)
      BY <1>6 DEF LaterInv, EndInv, ChildrenOK, Tracked, At
    <3> QED
      BY <1>3, <3>1 DEF ReapSkip
  <2>2. PICK g \in FrameRecords : g = [Top(t) EXCEPT !.todo = @ \ {q}]
    BY <1>4 DEF FrameRecords
  <2>3. g.at = "reap"
    BY <1>4, <2>2 DEF FrameRecords
  <2>4. Goto(t, g)
    BY <1>3, <2>2 DEF ReapSkip
  <2>5. /\ ~Claiming(g) /\ g.at \notin Releasing /\ g.at \notin Stopping
        /\ ~At(t, "adapter") /\ ~At(t, "stamp")
    BY <1>4, <2>3 DEF Claiming, Releasing, Stopping, At
  <2> QED
    BY <1>1, <1>2, <1>4, <2>1, <2>4, <2>5, RowsUnchanged, SameRows, TopKeeps
<1> QED
  BY <1>5, <1>6

LEMMA ReapFailKeeps ==
    ASSUME IInv, LaterInv, NEW t \in Threads, ReapFail(t)
    PROVE  LaterInv'
<1>1. At(t, "reap") /\ Top(t).todo # {}
      /\ UNCHANGED <<invokable, blocked, lock, lockName, wake, startLock, events>>
  BY DEF ReapFail
<1>2. Counted /\ WaitsStay
  BY <1>1, SameWaits DEF Counted
<1>3. PICK q \in Runs : q = Min(Top(t).todo)
  BY <1>1, ReapFacts
<1>4. /\ stack[t] # <<>> /\ Top(t).at = "reap" /\ Top(t) \in FrameRecords /\ FrameOK(t, Top(t))
      /\ q \in Top(t).todo /\ Made(q) /\ Begun(q)
  BY <1>1, <1>3, ReapFacts
<1>5. run \in [Runs -> RunRecords]
  BY TypeFacts DEF IInv
<1>6. PICK row \in RunRecords : row = [run[q] EXCEPT !.status = "finished"]
  BY <1>5 DEF RunRecords
<1>7. /\ row.status = "finished" /\ row.agent = run[q].agent /\ row.issue = run[q].issue
      /\ row.losses = run[q].losses /\ row.child = run[q].child
  BY <1>5, <1>6 DEF RunRecords
<1>8. run' = [run EXCEPT ![q] = row]
  BY <1>3, <1>6 DEF ReapFail
<1>9. RowsAdvance
  BY <1>4, <1>7, <1>8, RowSet DEF Quiet
<1>10. OverNext(q) /\ run'[q].child = run[q].child /\ \A r \in Runs \ {q} : run'[r] = run[r]
  BY <1>5, <1>7, <1>8 DEF OverNext
<1>11. RowsSteady
  <2>1. run[q].status # "queued"
    BY <1>4 DEF Begun
  <2>2. Calm => ~Stamping(q)
    <3>1. t = Timer => ~JustClaimed(q)
      BY <1>3 DEF ReapFail
    <3>2. Calm => t = Timer
      BY <1>4 DEF FrameOK, Calm, NobodyStops
    <3>3. Stamping(q) => JustClaimed(q)
      BY DEF Stamping, JustClaimed
    <3> QED
      BY <3>1, <3>2, <3>3
  <2> QED
    BY <1>10, <2>1, <2>2, RowEnds
<1>12. PICK at \in {"reapRetry", "reapRelease"} :
         Goto(t, [Top(t) EXCEPT !.at = at, !.run = q, !.todo = @ \ {q}])
  BY <1>3 DEF ReapFail
<1>13. PICK g \in FrameRecords : g = [Top(t) EXCEPT !.at = at, !.run = q, !.todo = @ \ {q}]
  BY <1>4 DEF FrameRecords, Places
<1>14. g.at = at /\ g.run = q
  BY <1>4, <1>13 DEF FrameRecords
<1>15. Goto(t, g) /\ OverNext(g.run)
  BY <1>10, <1>12, <1>13, <1>14
<1>16. ~Claiming(g) /\ g.at \notin Stopping /\ ~At(t, "adapter") /\ ~At(t, "stamp")
  BY <1>4, <1>14 DEF Claiming, Stopping, At
<1> QED
  BY <1>1, <1>2, <1>4, <1>9, <1>11, <1>15, <1>16, TopKeeps

\* Frames none of which holds, releases or stops anything, on the place of the top.
LEMMA PlainFrames ==
    ASSUME IInv, LaterInv, RowsAdvance, Counted, RowsSteady, WaitsStay, UNCHANGED <<invokable, blocked>>,
           NEW t \in Threads, stack[t] # <<>>, NEW s \in Seq(FrameRecords), Frames(t, s),
           ~At(t, "adapter"), ~At(t, "stamp"), \A k \in DOMAIN s : s[k].at \in {"start", "reap"}
    PROVE  LaterInv'
<1> DEFINE S == {s[k] : k \in DOMAIN s}
<1>1. \A f \in S : f.at \in {"start", "reap"}
  OBVIOUS
<1>2. Replaces(t, s)
  BY FramesReplace DEF IInv
<1>3. StacksMove(t, S)
  BY <1>2, ReplacesMove
<1>4. BootStays
  <2> SUFFICES ASSUME stack[Boot] = <<>>
               PROVE  stack'[Boot] = <<>>
    BY DEF BootStays
  <2>1. Boot \in Threads \ {t}
    BY ThreadFacts
  <2>2. \A u \in Threads \ {t} : stack'[u] = stack[u]
    BY <1>2, ReplaceFacts DEF IInv
  <2> QED
    BY <2>1, <2>2
<1> HIDE DEF S
<1>5. Ends(S) /\ Claims(t, S) /\ NoStops(S)
  BY <1>1 DEF Ends, Claims, NoStops, Claiming, Releasing, Stopping
<1> QED
  BY <1>3, <1>4, <1>5, SteadyStep

LEMMA ReapSettleKeeps ==
    ASSUME IInv, LaterInv, NEW t \in Threads, ReapSettle(t)
    PROVE  LaterInv'
<1>1. /\ stack[t] # <<>> /\ Top(t).at \in {"reapRetry", "reapRelease"}
      /\ UNCHANGED <<invokable, blocked, startLock, events>>
  BY DEF ReapSettle, At
<1>2. /\ Top(t) \in FrameRecords /\ FrameOK(t, Top(t)) /\ Top(t).home \in Homes
      /\ Top(t).run \in Runs /\ Made(Top(t).run)
  BY <1>1, ClaimFacts DEF FrameOK
<1>3. PICK r \in Runs : r = Top(t).run /\ Made(r)
  BY <1>2
<1>4. run[r].agent \in Agents
  BY <1>3 DEF IInv, RowsOK
<1>5. PICK f : f = StartFrame(run[r].agent, Top(t).home)
  OBVIOUS
<1>6. f \in FrameRecords /\ f.at = "start"
  BY <1>2, <1>4, <1>5, StartFrameOK
<1>7. PICK g \in FrameRecords : g = [Top(t) EXCEPT !.at = "reap", !.run = None]
  BY <1>2, ConstantFacts DEF FrameRecords, Places
<1>8. g.at = "reap"
  BY <1>2, <1>7 DEF FrameRecords
<1>9. events' \in [Events -> Nat] /\ Counted /\ ~At(t, "adapter") /\ ~At(t, "stamp")
  BY <1>1, TypeFacts DEF IInv, Counted, At
<1> DEFINE two == <<f, g>>
<1>10. two \in Seq(FrameRecords) /\ \A k \in DOMAIN two : two[k].at \in {"start", "reap"}
  <2>1. two \in Seq(FrameRecords) /\ DOMAIN two = {1, 2} /\ two[1] = f /\ two[2] = g
    BY <1>6
  <2> HIDE DEF two
  <2> QED
    BY <1>6, <1>8, <2>1
<1>11. CASE At(t, "reapRetry") /\ RetryLost(r) /\ Frames(t, two)
  <2>1. run[r].losses = 0
    BY <1>2, <1>3, <1>11 DEF FrameOK, At
  <2>2. Retry(r, "lost", 1)
    BY <1>11, <2>1 DEF RetryLost
  <2>3. RowsAdvance /\ RowsSteady /\ WaitsStay
    BY <1>1, <1>3, <1>9, <2>2, RetryFacts, RetryKeeps
  <2> HIDE DEF two
  <2> QED
    BY <1>1, <1>9, <1>10, <1>11, <2>3, PlainFrames
<1>12. CASE Release(t, r, two)
  <2> HIDE DEF two
  <2>1. /\ RowsAdvance /\ RowsSteady /\ WaitsStay
        /\ Frames(t, two) \/ \E a \in Agents : Frames(t, <<StartFrame(a, Top(t).home)>> \o two)
    BY <1>1, <1>9, <1>12, ReleaseFacts, ReleaseKeeps
  <2>2. CASE Frames(t, two)
    BY <1>1, <1>9, <1>10, <2>1, <2>2, PlainFrames
  <2>3. CASE \E a \in Agents : Frames(t, <<StartFrame(a, Top(t).home)>> \o two)
    <3>1. PICK a \in Agents : Frames(t, <<StartFrame(a, Top(t).home), f, g>>)
      BY <2>3, ThreeFrames DEF two
    <3>2. PICK x \in FrameRecords : x = StartFrame(a, Top(t).home) /\ x.at = "start"
      BY <1>2, StartFrameOK
    <3> DEFINE three == <<x, f, g>>
    <3>3. three \in Seq(FrameRecords) /\ \A k \in DOMAIN three : three[k].at \in {"start", "reap"}
      <4>1. /\ three \in Seq(FrameRecords) /\ DOMAIN three = {1, 2, 3}
            /\ three[1] = x /\ three[2] = f /\ three[3] = g
        BY <1>6
      <4> HIDE DEF three
      <4> QED
        BY <1>6, <1>8, <3>2, <4>1
    <3>4. Frames(t, three)
      BY <3>1, <3>2
    <3> HIDE DEF three
    <3> QED
      BY <1>1, <1>9, <2>1, <3>3, <3>4, PlainFrames
  <2> QED
    BY <2>1, <2>2, <2>3
<1> QED
  BY <1>3, <1>5, <1>7, <1>11, <1>12 DEF ReapSettle

LEMMA ChildDiesKeeps ==
    ASSUME IInv, LaterInv, NEW r \in Runs, ChildDies(r)
    PROVE  LaterInv'
<1>1. run[r].child = "alive" /\ run' = [run EXCEPT ![r].child = "dead"]
      /\ UNCHANGED <<invokable, blocked, lock, lockName, wake, stack, startLock, events>>
  BY DEF ChildDies
<1>2. run \in [Runs -> RunRecords]
  BY TypeFacts DEF IInv
<1>3. PICK row \in RunRecords : row = [run[r] EXCEPT !.child = "dead"]
  BY <1>2 DEF RunRecords
<1>4. /\ row.status = run[r].status /\ row.agent = run[r].agent /\ row.issue = run[r].issue
      /\ row.losses = run[r].losses /\ row.child = "dead"
  BY <1>2, <1>3 DEF RunRecords
<1>5. Begun(r) /\ Made(r)
  BY <1>1 DEF IInv, RowsOK, Quiet, Begun, Made
<1>6. run' = [run EXCEPT ![r] = row]
  BY <1>1, <1>3
<1>7. RowsAdvance
  BY <1>1, <1>4, <1>5, <1>6, RowSet DEF Begun, Quiet
<1>8. \A q \in Runs : run'[q].status = run[q].status /\ run'[q].child \in {run[q].child, "dead"}
  BY <1>2, <1>4, <1>6
<1>9. RowsSteady
  BY <1>8 DEF RowsSteady, NoRevival, NoBirth, NoneClaimed, WayStays, Over, OverNext
<1>10. WaitsStay /\ Counted /\ (Calm => ~blocked' /\ \A a \in Agents : invokable'[a])
  BY <1>1, SameWaits DEF Counted, Calm, NobodyStops
<1> QED
  BY <1>1, <1>7, <1>9, <1>10, StayKeeps

LEMMA CrashKeeps ==
    ASSUME IInv, Crash
    PROVE  LaterInv'
<1>1. events'["crash"] > 0
  BY EventCounted DEF Crash, Events
<1>2. ~Uncrashed' /\ ~Undisturbed'
  BY <1>1 DEF Uncrashed, Undisturbed
<1> QED
  BY <1>2 DEF LaterInv, EndInv, LimitInv, WaitInv

LEMMA ReapResumeKeeps ==
    ASSUME IInv, LaterInv, NEW t \in Threads, ReapResume(t)
    PROVE  LaterInv'
<1>1. /\ stack[t] # <<>> /\ Top(t).at = "reap"
      /\ UNCHANGED <<invokable, blocked, run, lock, lockName, wake, startLock, events>>
  BY ReapResumeFacts
<1>2. PICK s \in Seq(FrameRecords) : Frames(t, s) /\ \A k \in DOMAIN s : s[k].at = "start"
  BY ReapResumeFacts
<1>3. RowsAdvance /\ RowsSteady /\ WaitsStay /\ Counted
  BY <1>1, RowsUnchanged, SameRows, SameWaits DEF Counted
<1>4. ~At(t, "adapter") /\ ~At(t, "stamp")
  BY <1>1 DEF At
<1> QED
  BY <1>1, <1>2, <1>3, <1>4, PlainFrames
-----------------------------------------------------------------------------
(* The later invariants hold in every reachable state.                      *)

\* The start fits the later invariants.
LEMMA InitLater == Init => LaterInv
<1> SUFFICES ASSUME Init
             PROVE  LaterInv
  OBVIOUS
<1>1. /\ \A r \in Runs : run[r].status = "none" /\ run[r].child = "none"
      /\ \A t \in Threads : stack[t] = <<>>
      /\ \A w \in Wakes : wake[w].status = "none"
      /\ ~blocked /\ \A a \in Agents : invokable[a]
  BY DEF Init, NoRun, NoWake
<1>2. \A t \in Threads : DOMAIN stack[t] = {}
  BY <1>1
<1>3. EndInv
  BY <1>1, <1>2 DEF EndInv, ChildrenOK, EndsOK
<1>4. LimitInv
  <2>1. \A a \in Agents : RunsOf(a, "running") = {}
    BY <1>1 DEF RunsOf
  <2>2. WithinLimit
    BY <2>1, FS_EmptySet, ConstantFacts DEF WithinLimit
  <2> QED
    BY <1>2, <2>2 DEF LimitInv, SlotsOK
<1>5. WaitInv
  BY <1>1, <1>2, ThreadFacts DEF WaitInv, NobodyStops, DeferredFor
<1> QED
  BY <1>3, <1>4, <1>5 DEF LaterInv

\* Every step keeps the later invariants.
LEMMA NextLater == IInv /\ LaterInv /\ [Next]_vars => LaterInv'
<1> SUFFICES ASSUME IInv, LaterInv, [Next]_vars
             PROVE  LaterInv'
  OBVIOUS
<1>1. ASSUME NEW w \in Wakes, NEW a \in Agents, NEW i \in Issues,
             WakeMention(w, a, i) \/ \E comment \in BOOLEAN : WakeIssue(w, a, i, comment)
      PROVE  LaterInv'
  BY <1>1, WakeMentionKeeps, WakeIssueKeeps
<1>2. ASSUME NEW t \in Threads, StartStep(t)
      PROVE  LaterInv'
  BY <1>2, StartPickKeeps, ClaimRefusedKeeps, ClaimRunKeeps, ClaimStampKeeps, StartRunsKeeps DEF StartStep
<1>3. ASSUME NEW t \in Threads, CancelStep(t)
      PROVE  LaterInv'
  BY <1>3, CancelSetKeeps, CancelReleaseKeeps DEF CancelStep
<1>4. ASSUME NEW t \in Threads, ReapStep(t)
      PROVE  LaterInv'
  BY <1>4, ReapSkipKeeps, ReapFailKeeps, ReapSettleKeeps, ReapResumeKeeps DEF ReapStep
<1>5. ASSUME NEW r \in Runs, ExecStep(r) \/ CancelCall(r) \/ ChildDies(r)
      PROVE  LaterInv'
  BY <1>5, ExecBeginKeeps, ExecReturnKeeps, ExecRecordKeeps, ExecReleaseKeeps, CancelCallKeeps,
     ChildDiesKeeps DEF ExecStep
<1>6. ASSUME NEW a \in Agents, PauseCall(a) \/ PauseStep(a) \/ Resume(a)
      PROVE  LaterInv'
  BY <1>6, PauseCallKeeps, PauseNextKeeps, PauseReleaseKeeps, ResumeKeeps DEF PauseStep
<1>7. CASE BudgetStop \/ BudgetNext \/ BudgetRaised
  BY <1>7, BudgetStopKeeps, BudgetNextKeeps, ResumeKeeps
<1>8. CASE Tick \/ Crash
  BY <1>8, TickKeeps, CrashKeeps
<1>9. CASE UNCHANGED vars
  <2>1. UNCHANGED <<invokable, blocked, run, lock, lockName, wake, stack, startLock, events>>
    BY <1>9 DEF vars, rows
  <2>2. Calm => ~blocked' /\ \A a \in Agents : invokable'[a]
    BY <2>1 DEF Calm, NobodyStops
  <2> QED
    BY <2>1, <2>2, RowsUnchanged, SameRows, SameWaits, StayKeeps DEF Counted
<1> QED
  BY <1>1, <1>2, <1>3, <1>4, <1>5, <1>6, <1>7, <1>8, <1>9 DEF Next

\* Until the server dies a child lives as long as its adapter works and who
\* releases has made an end of the run; claims fit the limit; and until
\* something is stopped, whoever waits waits for somebody.
THEOREM LaterInvariance == Spec => []LaterInv
<1>1. Init => LaterInv
  BY InitLater
<1>2. IInv /\ LaterInv /\ [Next]_vars => LaterInv'
  BY NextLater
<1> QED
  BY <1>1, <1>2, Invariance, PTL DEF Spec

\* Until the server dies, an agent never has more runs running than its
\* maxConcurrentRuns, whoever claims them for it.
THEOREM LimitHeld == Spec => [](Uncrashed => WithinLimit)
<1>1. LaterInv => (Uncrashed => WithinLimit)
  BY DEF LaterInv, LimitInv
<1> QED
  BY <1>1, LaterInvariance, PTL

\* Until a crash, a cancellation, a pause or a budget stop, a wakeup that waits
\* for an issue has a run to wait for: one is live on it, or holds its lock.
THEOREM DeferredServed == Spec => []DeferredHasOwner
<1>1. IInv /\ LaterInv => DeferredHasOwner
  <2> SUFFICES ASSUME IInv, LaterInv, Undisturbed, NEW i \in Issues, DeferredFor(i) # {}, lock[i] = None
               PROVE  LiveOn(i) # {}
    BY DEF DeferredHasOwner
  <2>1. PICK r \in Runs : run[r].issue = i /\ run[r].status \in {"queued", "running"}
    BY DEF LaterInv, WaitInv, OnItsWay
  <2> QED
    BY <2>1 DEF LiveOn, Live
<1> QED
  BY <1>1, Invariance, LaterInvariance, PTL
-----------------------------------------------------------------------------
(* The lock of a live run.                                                  *)

OwnersKept ==
    \A i \in Issues :
      lock[i] # None /\ lock'[i] # lock[i] => ~Live(lock[i]) \/ run'[lock[i]].status \notin {"queued", "running"}

\* Who releases, or retries, has made an end of the run.
LEMMA ReleaserIsOver ==
    ASSUME IInv, LaterInv, Uncrashed, NEW t \in Threads, stack[t] # <<>>, Top(t).at \in Releasing
    PROVE  ~Live(Top(t).run)
<1>1. 1 \in DOMAIN stack[t] /\ stack[t][1] = Top(t)
  BY TopFacts DEF IInv
<1> QED
  BY <1>1 DEF LaterInv, EndInv, EndsOK, Over, Live

\* A release takes the lock from its own run only.
LEMMA ReleaseOwners ==
    ASSUME IInv, NEW t \in Threads, NEW r \in Runs, ~Live(r), NEW rest, Release(t, r, rest),
           UNCHANGED <<invokable, blocked>>, events' \in [Events -> Nat]
    PROVE  OwnersKept
BY ReleaseFacts DEF OwnersKept

\* The retry takes the lock from the run it retries only.
LEMMA RetryOwners ==
    ASSUME IInv, NEW r \in Runs, Made(r), ~Live(r), NEW why \in {"lost", "comment"}, NEW losses \in 0..1,
           Retry(r, why, losses), UNCHANGED <<invokable, blocked>>, events' \in [Events -> Nat]
    PROVE  OwnersKept
BY RetryFacts DEF OwnersKept

\* A step that leaves the locks alone.
LEMMA SameLock ==
    ASSUME UNCHANGED lock
    PROVE  OwnersKept
BY DEF OwnersKept

\* No step takes the lock from a live run, until a crash.
LEMMA NextOwners == IInv /\ LaterInv /\ Uncrashed /\ [Next]_vars => OwnersKept
<1> SUFFICES ASSUME IInv, LaterInv, Uncrashed, [Next]_vars
             PROVE  OwnersKept
  OBVIOUS
<1>1. ASSUME NEW w \in Wakes, NEW a \in Agents, NEW i \in Issues, NEW comment \in BOOLEAN,
             WakeIssue(w, a, i, comment)
      PROVE  OwnersKept
  <2>1. PICK o : o = ActiveRunOf(i) /\ (lock[i] # None /\ Live(lock[i]) => o = lock[i])
    BY ActiveRunFacts DEF IInv
  <2>2. lock' = [lock EXCEPT ![i] = o]
    BY <1>1, <2>1 DEF WakeIssue
  <2> QED
    BY <2>1, <2>2, TypeFacts DEF IInv, OwnersKept
<1>2. ASSUME NEW w \in Wakes, NEW a \in Agents, NEW i \in Issues, WakeMention(w, a, i)
      PROVE  OwnersKept
  BY <1>2, SameLock DEF WakeMention
<1>3. ASSUME NEW t \in Threads, ClaimStamp(t)
      PROVE  OwnersKept
  <2>1. PICK i, r : lock' = IF lock[i] \in {None, r} THEN [lock EXCEPT ![i] = r] ELSE lock
    BY <1>3 DEF ClaimStamp
  <2> QED
    BY <2>1, TypeFacts DEF IInv, OwnersKept
<1>4. ASSUME NEW t \in Threads, StartPick(t) \/ ClaimRefused(t) \/ ClaimRun(t) \/ StartRuns(t)
      PROVE  OwnersKept
  BY <1>4, SameLock DEF StartPick, ClaimRefused, ClaimRun, StartRuns, rows
<1>5. ASSUME NEW t \in Threads, CancelSet(t) \/ ReapSkip(t) \/ ReapFail(t) \/ ReapResume(t)
      PROVE  OwnersKept
  BY <1>5, SameLock DEF CancelSet, ReapSkip, ReapFail, ReapResume, rows
<1>6. ASSUME NEW t \in Threads, CancelRelease(t)
      PROVE  OwnersKept
  <2>1. stack[t] # <<>> /\ Top(t).at = "cancelRelease" /\ UNCHANGED <<invokable, blocked, events>>
    BY <1>6 DEF CancelRelease, At
  <2>2. PICK r \in Runs : r = Top(t).run
    BY <2>1, ClaimFacts DEF FrameOK
  <2>3. ~Live(r)
    BY <2>1, <2>2, ReleaserIsOver DEF Releasing
  <2>4. PICK rest : Release(t, r, rest)
    BY <1>6, <2>2 DEF CancelRelease
  <2>5. events' \in [Events -> Nat]
    BY <2>1, TypeFacts DEF IInv
  <2> QED
    BY <2>1, <2>3, <2>4, <2>5, ReleaseOwners
<1>7. ASSUME NEW t \in Threads, ReapSettle(t)
      PROVE  OwnersKept
  <2>1. stack[t] # <<>> /\ Top(t).at \in {"reapRetry", "reapRelease"} /\ UNCHANGED <<invokable, blocked, events>>
    BY <1>7 DEF ReapSettle, At
  <2>2. PICK r \in Runs : r = Top(t).run /\ Made(r) /\ (Top(t).at = "reapRetry" => run[r].losses = 0)
    BY <2>1, ClaimFacts DEF FrameOK
  <2>3. ~Live(r)
    BY <2>1, <2>2, ReleaserIsOver DEF Releasing
  <2>4. events' \in [Events -> Nat]
    BY <2>1, TypeFacts DEF IInv
  <2>5. CASE At(t, "reapRetry") /\ RetryLost(r)
    <3>1. Retry(r, "lost", 1)
      BY <2>2, <2>5 DEF RetryLost, At
    <3> QED
      BY <2>1, <2>2, <2>3, <2>4, <3>1, RetryOwners
  <2>6. CASE \E rest : Release(t, r, rest)
    BY <2>1, <2>3, <2>4, <2>6, ReleaseOwners
  <2> QED
    BY <1>7, <2>2, <2>5, <2>6 DEF ReapSettle
<1>8. ASSUME NEW r \in Runs, ExecBegin(r) \/ ExecReturn(r) \/ ExecRecord(r) \/ CancelCall(r) \/ ChildDies(r)
      PROVE  OwnersKept
  BY <1>8, SameLock DEF ExecBegin, ExecReturn, ExecRecord, CancelCall, ChildDies, rows
<1>9. ASSUME NEW r \in Runs, ExecRelease(r)
      PROVE  OwnersKept
  <2> DEFINE t == Executor(r)
  <2>1. stack[t] # <<>> /\ Top(t).at = "ended" /\ UNCHANGED <<invokable, blocked>>
    BY <1>9 DEF ExecRelease, At
  <2>2. t \in Threads /\ Made(r) /\ Top(t).run = r
    BY <2>1, ExecFacts, ExecutorFacts DEF FrameOK
  <2>3. ~Live(r)
    BY <2>1, <2>2, ReleaserIsOver DEF Releasing
  <2>4. CASE UNCHANGED events /\ \E rest : Release(t, r, rest)
    <3>1. events' \in [Events -> Nat]
      BY <2>4, TypeFacts DEF IInv
    <3> QED
      BY <2>1, <2>2, <2>3, <2>4, <3>1, ReleaseOwners
  <2>5. CASE RetryComment(r) /\ Happens("comment")
    <3>1. events' \in [Events -> Nat]
      BY <2>5, EventCounted DEF Events
    <3>2. Retry(r, "comment", 0)
      BY <2>5 DEF RetryComment
    <3> QED
      BY <2>1, <2>2, <2>3, <3>1, <3>2, RetryOwners
  <2> QED
    BY <1>9, <2>4, <2>5 DEF ExecRelease
<1>10. ASSUME NEW a \in Agents, PauseCall(a) \/ PauseNext(a) \/ Resume(a)
       PROVE  OwnersKept
  BY <1>10, SameLock DEF PauseCall, PauseNext, Resume
<1>11. ASSUME NEW a \in Agents, PauseRelease(a)
       PROVE  OwnersKept
  <2> DEFINE t == Pauser(a)
  <2>1. stack[t] # <<>> /\ Top(t).at = "pauseRelease" /\ t \in Threads /\ UNCHANGED <<invokable, blocked, events>>
    BY <1>11, ThreadFacts DEF PauseRelease, At
  <2>2. PICK r \in Runs : r = Top(t).run
    BY <2>1, ClaimFacts DEF FrameOK
  <2>3. ~Live(r)
    BY <2>1, <2>2, ReleaserIsOver DEF Releasing
  <2>4. PICK rest : Release(t, r, rest)
    BY <1>11, <2>2 DEF PauseRelease
  <2>5. events' \in [Events -> Nat]
    BY <2>1, TypeFacts DEF IInv
  <2> QED
    BY <2>1, <2>3, <2>4, <2>5, ReleaseOwners
<1>12. CASE BudgetStop \/ BudgetNext \/ BudgetRaised \/ Tick \/ Crash
  BY <1>12, SameLock DEF BudgetStop, BudgetNext, BudgetRaised, Tick, Crash, rows
<1>13. CASE UNCHANGED vars
  BY <1>13, SameLock DEF vars, rows
<1> QED
  BY <1>1, <1>2, <1>3, <1>4, <1>5, <1>6, <1>7, <1>8, <1>9, <1>10, <1>11, <1>12, <1>13
     DEF Next, StartStep, CancelStep, ReapStep, ExecStep, PauseStep

\* As long as the server does not die, none of the five functions that write
\* the lock of an issue takes it from a run that is queued or running.
THEOREM OwnerKept == Spec => ([]Uncrashed => OwnerKeepsLock)
<1>1. IInv /\ LaterInv /\ Uncrashed /\ [Next]_vars => [OwnersKept]_vars
  BY NextOwners
<1>2. Spec /\ []Uncrashed => [][OwnersKept]_vars
  BY <1>1, Invariance, LaterInvariance, PTL DEF Spec
<1> QED
  BY <1>2, PTL DEF OwnerKeepsLock, OwnersKept
=============================================================================
