--------------------------- MODULE RoutinesProofs ---------------------------
(***************************************************************************)
(* The properties of Routines for every value of its constants.  IInv adds  *)
(* what a dispatch knows while it holds the routine's row, that one of them *)
(* at most is about to engage the routine, and where the trigger stands     *)
(* with the times that were taken of it.                                    *)
(***************************************************************************)
EXTENDS Routines, TLAPS, WellFoundedInduction

CallerRecords == [at : {"idle", "claim", "enter"} \cup InTx, key : Keys \cup {NoKey}, ofTrigger : BOOLEAN,
                  policy : Policies \cup {"none"},
                  next : 0..(MaxTime + 1), claim : 0..(MaxTime + 1), left : Nat, run : Runs \cup {None}]

RunRecords == [status : {"none", "received", "rolled back", "coalesced", "skipped", "issue_created", "completed",
                         "failed"},
               into : Runs \cup {None}, key : Keys \cup {NoKey}, policy : Policies \cup {"none"}]
IssueRecords == [status : OPEN_ISSUE_STATUSES \cup {"none", "done"}, exec : Runs \cup {None}]
BeatStatuses == Executing \cup {"none", "queued", "retry", "ended", "over"}
Agains == [deferred : SUBSET Runs, retried : SUBSET Runs, revived : SUBSET (Runs \X Runs)]
Starts == [by : Callers \cup {Agent, Nobody}, todo : SUBSET Runs, claimed : SUBSET Runs]
Happened == [total : Nat, crashed : BOOLEAN, outlived : BOOLEAN, reopened : BOOLEAN]

\* The type of everything.
Typed ==
    /\ TypeOK
    /\ caller \in [Callers -> CallerRecords]
    /\ run \in [Runs -> RunRecords]
    /\ start \in Starts
    /\ fired \in [Times -> Nat]
    /\ events \in Happened

\* What a caller knows at each place: the times it has read and computed, the
\* run it has inserted, and that the run's issue is there once it was created.
Sound(q) ==
    /\ q.run # None <=> q.at \in InTx
    /\ q.at # "idle" => q.policy # "none"
    /\ q.run # None => run[q.run].status = "received" /\ run[q.run].policy # "none"
    /\ q.at = "claim" => /\ q.left >= 1 /\ q.next + q.left <= now + 1
                         /\ q.next + q.left <= q.claim /\ q.claim <= now + 1
    /\ q.at \in InTx /\ q.ofTrigger => q.next = now + 1 \/ events.outlived
    /\ q.at \in {"create", "wake"} => beat[q.run] = "none"
    /\ q.at \in {"wake", "start", "finish"} => issue[q.run].status # "none"
CallersOK == \A t \in Callers : Sound(caller[t])

\* A start belongs to the caller that waits for it; what it is to claim waits,
\* and what it has claimed nobody else touches.
StartOK ==
    /\ start.by \in Callers => At(start.by, "start")
    /\ start.by = Nobody => start = NoStart
    /\ \A b \in start.todo : beat[b] = "queued"
    /\ \A b \in start.claimed : beat[b] = "claimed"

\* Rows are inserted in order, and one that was not inserted to go ahead has
\* no issue.
Fresh == \A r \in Runs :
    /\ run[r].status = "none" => run[r].policy = "none"
    /\ run[r].policy = "none" => issue[r] = NoIssue /\ beat[r] = "none"
    /\ run[r].status # "none" => \A q \in 1..(r - 1) : run[q].status # "none"

\* An issue that keeps the routine busy, or is about to.
Engaged(i) == \/ Open(i) /\ Live(i)
              \/ \E t \in Callers : caller[t].at \in {"create", "wake"} /\ caller[t].run = i
OneEngaged ==
    \A i, j \in Runs :
        i < j /\ Engaged(i) /\ run[j].policy \notin {"none", "always_enqueue"} => <<i, j>> \in again.revived

\* The run and the issue of every dispatch that is over.
Settled(r) ==
    /\ run[r].status \in {"issue_created", "completed"} => issue[r].status # "none"
    /\ issue[r].status = "todo" /\ ~events.reopened => run[r].status = "issue_created"
DispatchesOK ==
    ~events.crashed => \A r \in Runs : Settled(r) \/ \E t \in Callers : caller[t].run = r

\* A due time that was taken lies before the trigger's next one.
FiredOK ==
    \A n \in Times : fired[n] > 0 =>
        /\ n <= now
        /\ ~events.outlived => fired[n] = 1 /\ n < trigger.next

IInv == /\ Typed /\ CallersOK /\ StartOK /\ Fresh
        /\ KeyedOnce /\ OneEngaged /\ DispatchesOK /\ FiredOK

-----------------------------------------------------------------------------
(* Lemmas.                                                                  *)

LEMMA ConstantFacts ==
    /\ Nobody \notin Callers /\ Agent \notin Callers /\ Agent # Nobody
    /\ None \notin Runs /\ Runs \subseteq Nat /\ Times \subseteq Nat
    /\ MaxTime \in Nat /\ MaxRuns \in Nat /\ MAX_CATCH_UP_RUNS \in Nat \ {0}
BY RoutineConstants DEF Nobody, Agent, None, Runs, Times

\* The types of the variables, one by one.
LEMMA TypeFacts ==
    ASSUME IInv
    PROVE  /\ now \in Times /\ now \in Nat /\ now <= MaxTime
           /\ trigger \in [enabled : BOOLEAN, next : 0..(MaxTime + 1)] /\ trigger.next \in 0..(MaxTime + 1)
           /\ fired \in [Times -> Nat] /\ events \in Happened
           /\ run \in [Runs -> RunRecords] /\ issue \in [Runs -> IssueRecords] /\ beat \in [Runs -> BeatStatuses]
           /\ start \in Starts /\ again \in Agains
<1>1. now \in Times
  BY DEF IInv, Typed, TypeOK
<1>2. now \in Nat /\ now <= MaxTime
  BY <1>1, ConstantFacts DEF Times
<1>3. trigger \in [enabled : BOOLEAN, next : 0..(MaxTime + 1)] /\ trigger.next \in 0..(MaxTime + 1)
  BY DEF IInv, Typed, TypeOK
<1>4. /\ fired \in [Times -> Nat] /\ events \in Happened
      /\ run \in [Runs -> RunRecords] /\ issue \in [Runs -> IssueRecords] /\ beat \in [Runs -> BeatStatuses]
      /\ start \in Starts /\ again \in Agains
  BY DEF IInv, Typed, TypeOK, IssueRecords, BeatStatuses, Agains
<1> QED
  BY <1>1, <1>2, <1>3, <1>4

\* One more event.
LEMMA HappenedMore ==
    ASSUME events \in Happened
    PROVE  /\ [events EXCEPT !.total = @ + 1, !.crashed = TRUE] \in Happened
           /\ \A p \in BOOLEAN : [events EXCEPT !.total = @ + 1, !.reopened = p] \in Happened
<1> DEFINE more == [events EXCEPT !.total = @ + 1]
<1>1. more \in Happened
  BY DEF Happened
<1> HIDE DEF more
<1>2. /\ [more EXCEPT !.crashed = TRUE] \in Happened
      /\ \A p \in BOOLEAN : [more EXCEPT !.reopened = p] \in Happened
  <2>1. TRUE \in BOOLEAN
    OBVIOUS
  <2> QED
    BY <1>1, <2>1, Zenon DEF Happened
<1> QED
  BY <1>2 DEF more

\* What happens leaves what is remembered of crashes, time and reopened issues.
LEMMA HappensFacts ==
    ASSUME IInv, Happens
    PROVE  /\ events' \in Happened
           /\ events'.crashed = events.crashed /\ events'.outlived = events.outlived
           /\ events'.reopened = events.reopened
BY TypeFacts DEF Happens, Happened

\* Who is brought back to life is so beside all the runs there are.
LEMMA RevivedFacts ==
    ASSUME IInv, NEW b \in Runs
    PROVE  /\ Revived(b) \in SUBSET (Runs \X Runs) /\ again.revived \subseteq Revived(b)
           /\ \A r \in Runs : run[r].status # "none" => <<b, r>> \in Revived(b)
<1>1. again.revived \in SUBSET (Runs \X Runs)
  BY TypeFacts DEF Agains
<1> QED
  BY <1>1 DEF Revived

\* A set of runs that is not empty has a least one.
LEMMA LeastIsMember ==
    ASSUME NEW S \in SUBSET Runs, S # {}
    PROVE  Least(S) \in S
<1> DEFINE Less == {ss \in Nat \X Nat : ss[1] < ss[2]}
<1>1. IsWellFoundedOn(Less, Nat)
  BY NatLessThanWellFounded DEF OpToRel
<1>2. S \subseteq Nat
  BY ConstantFacts
<1>3. PICK x \in S : \A y \in S : ~ (<<y, x>> \in Less)
  BY <1>1, <1>2, WFMin, Zenon
<1>4. \A y \in S : x <= y
  <2> SUFFICES ASSUME NEW y \in S
               PROVE  x <= y
    OBVIOUS
  <2>1. x \in Nat /\ y \in Nat /\ ~ (y < x)
    BY <1>2, <1>3
  <2> QED
    BY <2>1
<1> QED
  BY <1>3, <1>4 DEF Least

\* One caller moves.
LEMMA Moves ==
    ASSUME Typed, NEW t \in Callers, NEW q \in CallerRecords, caller' = [caller EXCEPT ![t] = q]
    PROVE  /\ caller' \in [Callers -> CallerRecords] /\ caller'[t] = q
           /\ \A u \in Callers : u # t => caller'[u] = caller[u]
BY DEF Typed

\* Who holds the routine's row.
LEMMA LockFacts ==
    ASSUME IInv
    PROVE  /\ \A t \in Callers : (lock = t) <=> (caller[t].at \in InTx)
           /\ \A t \in Callers : (lock = t) <=> (caller[t].run # None)
           /\ lock = Nobody => \A t \in Callers : caller[t].run = None
           /\ \A t \in Callers : caller[t] \in CallerRecords /\ Sound(caller[t])
<1>1. \A t \in Callers : (lock = t) <=> (caller[t].at \in InTx)
  BY DEF IInv, Typed, TypeOK
<1>2. \A t \in Callers : caller[t] \in CallerRecords /\ Sound(caller[t])
  BY DEF IInv, Typed, CallersOK
<1>3. \A t \in Callers : (caller[t].run # None) <=> (caller[t].at \in InTx)
  BY <1>2 DEF Sound
<1> QED
  BY <1>1, <1>2, <1>3, ConstantFacts

\* Nobody becomes engaged, or only who is brought back to life.
LEMMA OneRevivedStep ==
    ASSUME IInv, again.revived \subseteq again'.revived,
           \A j \in Runs : run'[j].policy = run[j].policy,
           \A i \in Runs : Engaged(i)' =>
             Engaged(i) \/ \A j \in Runs : run[j].status # "none" => <<i, j>> \in again'.revived
    PROVE  OneEngaged'
<1> SUFFICES ASSUME NEW i \in Runs, NEW j \in Runs, i < j, Engaged(i)', run'[j].policy \notin {"none", "always_enqueue"}
             PROVE  <<i, j>> \in again'.revived
  BY DEF OneEngaged
<1>1. run[j].policy \notin {"none", "always_enqueue"} /\ run[j].status # "none"
  BY DEF IInv, Fresh
<1>2. CASE Engaged(i)
  BY <1>1, <1>2 DEF IInv, OneEngaged
<1>3. CASE ~Engaged(i)
  BY <1>1, <1>3
<1> QED
  BY <1>2, <1>3

LEMMA OneEngagedStep ==
    ASSUME IInv, again' = again, \A j \in Runs : run'[j].policy = run[j].policy,
           \A i \in Runs : Engaged(i)' => Engaged(i)
    PROVE  OneEngaged'
BY OneRevivedStep

\* A caller outside of a transaction moves, and nothing else.
LEMMA QuietStep ==
    ASSUME IInv, NEW t \in Callers, NEW q \in CallerRecords, caller' = [caller EXCEPT ![t] = q],
           q.at \in {"idle", "claim", "enter"}, caller[t].at \notin InTx, Sound(q),
           UNCHANGED <<now, routine, trigger, lock, run, issue, beat, again, start, fired, events>>
    PROVE  IInv'
<1>1. /\ caller' \in [Callers -> CallerRecords] /\ caller'[t] = q
      /\ \A u \in Callers : u # t => caller'[u] = caller[u]
  BY Moves DEF IInv
<1>2. Typed'
  <2>1. q.at \notin InTx
    BY DEF InTx
  <2> QED
    BY <1>1, <2>1 DEF IInv, Typed, TypeOK
<1>3. CallersOK'
  BY <1>1 DEF IInv, CallersOK, Sound
<1>4. StartOK'
  <2>1. caller[t].at # "start"
    BY DEF InTx
  <2> QED
    BY <1>1, <2>1 DEF IInv, StartOK, At, NoStart
<1>5. OneEngaged'
  <2>1. \A i \in Runs : Engaged(i)' => Engaged(i)
    BY <1>1 DEF Engaged, Open, Live
  <2> QED
    BY <2>1, OneEngagedStep
<1>6. DispatchesOK'
  <2>1. caller[t].run = None
    BY LockFacts
  <2>2. \A r \in Runs : (\E u \in Callers : caller[u].run = r) => \E u \in Callers : caller'[u].run = r
    BY <1>1, <2>1, ConstantFacts
  <2> QED
    BY <2>2 DEF IInv, DispatchesOK, Settled
<1> QED
  BY <1>2, <1>3, <1>4, <1>5, <1>6 DEF IInv, Fresh, KeyedOnce, FiredOK

LEMMA IdleFacts == Idle \in CallerRecords /\ Idle.at = "idle" /\ Idle.run = None /\ Sound(Idle)
BY ConstantFacts DEF Idle, CallerRecords, InTx, None, NoKey, Sound

LEMMA PolicyFacts == IInv => routine.policy \in Policies /\ routine.policy # "none"
BY RoutineConstants DEF IInv, Typed, TypeOK

LEMMA RunRoutineStep ==
    ASSUME IInv, NEW t \in Callers, NEW key \in Keys \cup {NoKey}, NEW ofTrigger \in BOOLEAN,
           RunRoutine(t, key, ofTrigger)
    PROVE  IInv'
<1> DEFINE q == [Idle EXCEPT !.at = "enter", !.key = key, !.ofTrigger = ofTrigger, !.policy = routine.policy, !.left = 1]
<1>1. q \in CallerRecords /\ q.at = "enter" /\ Sound(q)
  BY IdleFacts, PolicyFacts DEF Idle, CallerRecords, Sound, InTx
<1>2. caller' = [caller EXCEPT ![t] = q] /\ caller[t].at \notin InTx
  BY DEF RunRoutine, At, InTx
<1> HIDE DEF q
<1> QED
  BY <1>1, <1>2, QuietStep DEF RunRoutine

\* What a tick takes: at least the time that is due, and none that is not.
LEMMA RunCountFacts ==
    ASSUME IInv, NEW n \in 0..(MaxTime + 1), n <= now
    PROVE  /\ RunCount(n) \in Nat /\ RunCount(n) >= 1 /\ n + RunCount(n) <= now + 1
           /\ ClaimedNext(n) \in 0..(MaxTime + 1)
           /\ n + RunCount(n) <= ClaimedNext(n) /\ ClaimedNext(n) <= now + 1
<1>1. now \in Nat /\ now <= MaxTime /\ n \in Nat
  BY TypeFacts, ConstantFacts
<1>2. /\ RunCount(n) \in Nat /\ RunCount(n) >= 1 /\ n + RunCount(n) <= now + 1
  BY <1>1, ConstantFacts DEF RunCount
<1>3. /\ ClaimedNext(n) \in Nat /\ n + RunCount(n) <= ClaimedNext(n) /\ ClaimedNext(n) <= now + 1
  <2>1. CASE routine.catchUp = "skip_missed"
    BY <1>1, <1>2, <2>1 DEF ClaimedNext, NextTick
  <2>2. CASE routine.catchUp # "skip_missed"
    BY <1>1, <1>2, <2>2 DEF ClaimedNext
  <2> QED
    BY <2>1, <2>2
<1> QED
  BY <1>1, <1>2, <1>3, ConstantFacts

LEMMA DueReadStep ==
    ASSUME IInv, NEW t \in Callers, DueRead(t)
    PROVE  IInv'
<1> DEFINE q == [Idle EXCEPT !.at = "claim", !.ofTrigger = TRUE, !.policy = routine.policy, !.next = trigger.next,
                             !.claim = ClaimedNext(trigger.next), !.left = RunCount(trigger.next)]
<1>1. trigger.next \in 0..(MaxTime + 1) /\ trigger.next <= now
  BY DEF DueRead, IInv, Typed, TypeOK
<1>2. q \in CallerRecords /\ q.at = "claim" /\ Sound(q)
  BY <1>1, IdleFacts, PolicyFacts, RunCountFacts DEF Idle, CallerRecords, Sound, InTx
<1>3. caller' = [caller EXCEPT ![t] = q] /\ caller[t].at \notin InTx
  BY DEF DueRead, At, InTx
<1> HIDE DEF q
<1> QED
  BY <1>2, <1>3, QuietStep DEF DueRead

\* The claim takes times from the trigger's next one on, which nobody has
\* taken, and leaves it behind them.
LEMMA ClaimStep ==
    ASSUME IInv, NEW t \in Callers, Claim(t)
    PROVE  IInv'
<1>0. caller[t] \in CallerRecords /\ Sound(caller[t]) /\ caller[t].at = "claim" /\ caller[t].run = None
      /\ caller[t].at \notin InTx
  BY LockFacts DEF Claim, At, InTx, Sound
<1>1. CASE ~Claimable(t)
  BY <1>0, <1>1, IdleFacts, QuietStep DEF Claim
<1>2. CASE Claimable(t)
  <2> DEFINE q == [caller[t] EXCEPT !.at = "enter", !.next = 0, !.claim = 0]
             n == caller[t].next
             left == caller[t].left
  <2>1. q \in CallerRecords /\ q.at = "enter" /\ q.at \notin InTx /\ q.run = None /\ Sound(q)
    <3>1. 0 \in 0..(MaxTime + 1)
      BY ConstantFacts
    <3>2. q \in CallerRecords /\ q.at = "enter" /\ q.run = None /\ q.policy # "none"
      BY <1>0, <3>1 DEF CallerRecords, Sound
    <3> HIDE DEF q
    <3> QED
      BY <3>2 DEF Sound, InTx
  <2>2. /\ caller' = [caller EXCEPT ![t] = q]
        /\ trigger' = [trigger EXCEPT !.next = caller[t].claim]
        /\ fired' = [m \in Times |-> IF m \in n..(n + left - 1) THEN fired[m] + 1 ELSE fired[m]]
        /\ trigger.next = n
    BY <1>2 DEF Claim, Claimable
  <2>3. /\ n \in Nat /\ left \in Nat /\ left >= 1 /\ caller[t].claim \in 0..(MaxTime + 1)
        /\ n + left <= now + 1 /\ n + left <= caller[t].claim /\ now \in Nat
    <3>1. n \in 0..(MaxTime + 1) /\ left \in Nat /\ caller[t].claim \in 0..(MaxTime + 1)
      BY <1>0 DEF CallerRecords
    <3>2. n \in Nat
      BY <3>1, ConstantFacts
    <3> QED
      BY <1>0, <3>1, <3>2, TypeFacts DEF Sound
  <2> HIDE DEF q, n, left
  <2>4. /\ caller' \in [Callers -> CallerRecords] /\ caller'[t] = q
        /\ \A u \in Callers : u # t => caller'[u] = caller[u]
    BY <2>1, <2>2, Moves DEF IInv
  <2>5. Typed'
    <3>1. trigger' \in [enabled : BOOLEAN, next : 0..(MaxTime + 1)]
      BY <2>2, <2>3 DEF IInv, Typed, TypeOK
    <3>2. fired' \in [Times -> Nat]
      <4>1. ASSUME NEW m \in Times PROVE fired[m] + 1 \in Nat /\ fired[m] \in Nat
        BY TypeFacts
      <4> QED
        BY <2>2, <4>1
    <3> QED
      BY <1>0, <2>1, <2>4, <3>1, <3>2 DEF IInv, Typed, TypeOK, Claim
  <2>6. CallersOK'
    BY <2>1, <2>4 DEF IInv, CallersOK, Sound, Claim
  <2>7. StartOK'
    BY <1>0, <2>4 DEF IInv, StartOK, At, Claim, NoStart
  <2>8. OneEngaged'
    <3>1. \A i \in Runs : Engaged(i)' => Engaged(i)
      BY <2>1, <2>4 DEF Engaged, Open, Live, Claim
    <3> QED
      BY <3>1, OneEngagedStep DEF Claim
  <2>9. DispatchesOK'
    <3>1. \A r \in Runs : (\E u \in Callers : caller[u].run = r) => \E u \in Callers : caller'[u].run = r
      BY <1>0, <2>4, ConstantFacts
    <3> QED
      BY <3>1 DEF IInv, DispatchesOK, Settled, Claim
  <2>10. FiredOK'
    <3> SUFFICES ASSUME NEW m \in Times, fired'[m] > 0
                 PROVE  m <= now /\ (~events.outlived => fired'[m] = 1 /\ m < trigger'.next)
      BY DEF FiredOK, Claim
    <3>1. m \in Nat /\ fired[m] \in Nat /\ trigger'.next = caller[t].claim /\ caller[t].claim \in Nat
      <4>1. m \in Nat /\ fired[m] \in Nat
        BY TypeFacts, ConstantFacts
      <4>2. trigger'.next = caller[t].claim
        BY <2>2, TypeFacts
      <4>3. caller[t].claim \in Nat
        BY <2>3, ConstantFacts
      <4> QED
        BY <4>1, <4>2, <4>3
    <3>2. CASE m \in n..(n + left - 1)
      <4>1. fired'[m] = fired[m] + 1
        BY <2>2, <3>2
      <4>2. m >= n /\ m < n + left
        BY <2>3, <3>1, <3>2
      <4>3. ~events.outlived => fired[m] = 0
        BY <2>2, <2>3, <3>1, <4>2 DEF IInv, FiredOK
      <4> QED
        BY <2>3, <3>1, <4>1, <4>2, <4>3
    <3>3. CASE m \notin n..(n + left - 1)
      <4>1. fired'[m] = fired[m]
        BY <2>2, <3>3
      <4>2. m <= now /\ (~events.outlived => fired[m] = 1 /\ m < n)
        BY <2>2, <4>1 DEF IInv, FiredOK
      <4> QED
        BY <2>3, <3>1, <4>1, <4>2
    <3> QED
      BY <3>2, <3>3
  <2> QED
    BY <2>5, <2>6, <2>7, <2>8, <2>9, <2>10 DEF IInv, Fresh, KeyedOnce, Claim
<1> QED
  BY <1>1, <1>2

-----------------------------------------------------------------------------
(* A dispatch.                                                              *)

\* Its end.
LEMMA CommittedMoves ==
    ASSUME IInv, NEW t \in Callers, caller[t].at # "idle", Committed(t)
    PROVE  \E q \in CallerRecords : /\ caller' = [caller EXCEPT ![t] = q]
                                    /\ q.at \in {"idle", "enter"} /\ q.run = None
                                    /\ q.at # "idle" => q.policy # "none"
<1>0. caller[t] \in CallerRecords /\ caller[t].policy # "none"
  BY LockFacts DEF Sound
<1>1. CASE caller[t].left > 1
  <2> DEFINE q == [caller[t] EXCEPT !.at = "enter", !.left = caller[t].left - 1, !.run = None, !.next = 0]
  <2>1. q \in CallerRecords /\ q.at = "enter" /\ q.run = None /\ q.policy # "none"
    <3>1. 0 \in 0..(MaxTime + 1)
      BY ConstantFacts
    <3>2. caller[t].left - 1 \in Nat
      BY <1>0, <1>1 DEF CallerRecords
    <3> QED
      BY <1>0, <3>1, <3>2 DEF CallerRecords
  <2>2. caller' = [caller EXCEPT ![t] = q]
    BY <1>1 DEF Committed
  <2> HIDE DEF q
  <2> QED
    BY <2>1, <2>2
<1>2. CASE ~(caller[t].left > 1)
  BY <1>2, IdleFacts DEF Committed
<1> QED
  BY <1>1, <1>2

LEMMA AlreadyRunStep ==
    ASSUME IInv, NEW t \in Callers, AlreadyRun(t)
    PROVE  IInv'
<1>1. PICK q \in CallerRecords : /\ caller' = [caller EXCEPT ![t] = q]
                                 /\ q.at \in {"idle", "enter"} /\ q.run = None
                                 /\ q.at # "idle" => q.policy # "none"
  BY CommittedMoves DEF At, AlreadyRun
<1>2. Sound(q) /\ caller[t].at \notin InTx
  BY <1>1 DEF Sound, InTx, AlreadyRun, At
<1>3. lock' = lock
  BY DEF AlreadyRun, Committed
<1> QED
  BY <1>1, <1>2, <1>3, QuietStep DEF AlreadyRun

\* Between two dispatches, and from the one that holds the row, the others
\* are outside of their transactions.
LEMMA HolderStep ==
    ASSUME IInv, NEW t \in Callers, NEW q \in CallerRecords, caller' = [caller EXCEPT ![t] = q],
           lock \in {t, Nobody}, now' = now, Sound(q)'
    PROVE  CallersOK'
<1>1. /\ caller'[t] = q
      /\ \A u \in Callers : u # t => caller'[u] = caller[u]
  BY Moves DEF IInv
<1>2. ASSUME NEW u \in Callers, u # t PROVE Sound(caller[u])'
  <2>1. caller[u].at \notin InTx /\ caller[u].run = None /\ Sound(caller[u]) /\ caller'[u] = caller[u]
    BY <1>1, <1>2, LockFacts, ConstantFacts
  <2> QED
    BY <2>1 DEF Sound, InTx
<1> QED
  BY <1>1, <1>2 DEF CallersOK

\* The types, after a step of a dispatch.
LEMMA DispatchTyped ==
    ASSUME IInv, NEW t \in Callers, NEW q \in CallerRecords, caller' = [caller EXCEPT ![t] = q],
           lock \in {t, Nobody}, lock' = (IF q.at \in InTx THEN t ELSE Nobody),
           trigger' \in [enabled : BOOLEAN, next : 0..(MaxTime + 1)],
           run' \in [Runs -> RunRecords], issue' \in [Runs -> IssueRecords], beat' \in [Runs -> BeatStatuses],
           start' \in Starts, events' \in Happened,
           UNCHANGED <<now, routine, again, fired>>
    PROVE  Typed'
<1>1. /\ caller' \in [Callers -> CallerRecords] /\ caller'[t] = q
      /\ \A u \in Callers : u # t => caller'[u] = caller[u]
  BY Moves DEF IInv
<1>2. \A u \in Callers : (lock' = u) <=> (caller'[u].at \in InTx)
  <2> SUFFICES ASSUME NEW u \in Callers PROVE (lock' = u) <=> (caller'[u].at \in InTx)
    OBVIOUS
  <2>1. CASE u = t
    BY <1>1, <2>1, ConstantFacts
  <2>2. CASE u # t
    BY <1>1, <2>2, LockFacts, ConstantFacts
  <2> QED
    BY <2>1, <2>2
<1>3. lock' \in Callers \cup {Nobody}
  OBVIOUS
<1>4. now' \in Times /\ routine' \in [status : {"active", "paused", "archived"}, policy : Policies, catchUp : CatchUps]
      /\ fired' \in [Times -> Nat]
  BY DEF IInv, Typed, TypeOK
<1>5. \A r \in Runs : run'[r].status \in {"none", "received", "rolled back", "coalesced", "skipped",
                                         "issue_created", "completed", "failed"}
  BY DEF RunRecords
<1> QED
  BY <1>1, <1>2, <1>3, <1>4, <1>5, TypeFacts DEF Typed, TypeOK, IssueRecords, BeatStatuses, Agains

\* A start in progress belongs to somebody else than a dispatch that moves,
\* and its runs are not those that the dispatch wakes.
LEMMA StartOKStep ==
    ASSUME IInv, NEW t \in Callers, NEW q \in CallerRecords, caller' = [caller EXCEPT ![t] = q],
           caller[t].at # "start", start' = start,
           \A b \in Runs : beat'[b] = beat[b] \/ beat[b] \notin {"queued", "claimed"}
    PROVE  StartOK'
<1>1. /\ caller'[t] = q
      /\ \A u \in Callers : u # t => caller'[u] = caller[u]
  BY Moves DEF IInv
<1>2. start.todo \in SUBSET Runs /\ start.claimed \in SUBSET Runs
  BY TypeFacts DEF Starts
<1>3. /\ \A b \in start.todo : beat'[b] = "queued"
      /\ \A b \in start.claimed : beat'[b] = "claimed"
  BY <1>2 DEF IInv, StartOK
<1> QED
  BY <1>1, <1>3 DEF IInv, StartOK, At, NoStart

\* A dispatch that goes on keeps its run, one that ends settles it.
LEMMA DispatchesOKStep ==
    ASSUME IInv, NEW t \in Callers, NEW q \in CallerRecords, caller' = [caller EXCEPT ![t] = q],
           \A r \in Runs : \/ Settled(r) => Settled(r)'
                           \/ Settled(r)'
                           \/ q.run = r,
           \A r \in Runs : caller[t].run = r => q.run = r \/ Settled(r)',
           events'.crashed = events.crashed
    PROVE  DispatchesOK'
<1>1. /\ caller' \in [Callers -> CallerRecords] /\ caller'[t] = q
      /\ \A u \in Callers : u # t => caller'[u] = caller[u]
  BY Moves DEF IInv
<1> SUFFICES ASSUME ~events.crashed, NEW r \in Runs, ~Settled(r)'
             PROVE  \E u \in Callers : caller'[u].run = r
  BY DEF DispatchesOK
<1>2. CASE q.run = r
  BY <1>1, <1>2
<1>3. CASE q.run # r
  <2>1. ~Settled(r)
    BY <1>3
  <2>2. PICK u \in Callers : caller[u].run = r
    BY <2>1 DEF IInv, DispatchesOK
  <2>3. u # t
    BY <1>3, <2>2, ConstantFacts
  <2> QED
    BY <1>1, <2>2, <2>3
<1> QED
  BY <1>2, <1>3

\* The trigger may be moved behind the times that were taken.
LEMMA FiredOKStep ==
    ASSUME IInv, now' = now, fired' = fired, events'.outlived = events.outlived,
           trigger'.next = trigger.next \/ trigger'.next = now + 1 \/ events.outlived
    PROVE  FiredOK'
<1> SUFFICES ASSUME NEW n \in Times, fired[n] > 0
             PROVE  n <= now /\ (~events.outlived => fired[n] = 1 /\ n < trigger'.next)
  BY DEF FiredOK
<1>1. n <= now /\ (~events.outlived => fired[n] = 1 /\ n < trigger.next) /\ n \in Nat
  BY ConstantFacts DEF IInv, FiredOK
<1> QED
  BY <1>1, TypeFacts

\* What moves the trigger leaves a time that can be due.
LEMMA TouchedFacts ==
    ASSUME IInv, NEW t \in Callers, NEW next \in 0..(MaxTime + 1), Touched(t, next)
    PROVE  /\ trigger' \in [enabled : BOOLEAN, next : 0..(MaxTime + 1)]
           /\ trigger'.next = trigger.next \/ (trigger'.next = next /\ caller[t].ofTrigger)
BY TypeFacts DEF Touched

LEMMA NextTickFacts == IInv => NextTick(now) \in 0..(MaxTime + 1) /\ NextTick(now) = now + 1
BY TypeFacts, ConstantFacts DEF NextTick

\* Who dispatches run r holds the routine's row.
LEMMA HolderFacts ==
    ASSUME IInv, NEW t \in Callers, caller[t].at \in InTx
    PROVE  /\ lock = t /\ lock # Nobody
           /\ caller[t] \in CallerRecords /\ Sound(caller[t]) /\ caller[t].run \in Runs
           /\ run[caller[t].run].status = "received" /\ run[caller[t].run].policy # "none"
           /\ \A u \in Callers : u # t => caller[u].at \notin InTx /\ caller[u].run = None
<1>1. lock = t /\ caller[t] \in CallerRecords /\ Sound(caller[t])
  BY LockFacts
<1>2. caller[t].run # None /\ run[caller[t].run].status = "received" /\ run[caller[t].run].policy # "none"
  BY <1>1 DEF Sound
<1>3. caller[t].run \in Runs
  BY <1>1, <1>2 DEF CallerRecords
<1>4. \A u \in Callers : u # t => caller[u].at \notin InTx /\ caller[u].run = None
  BY <1>1, LockFacts
<1> QED
  BY <1>1, <1>2, <1>3, <1>4, ConstantFacts

\* None is inserted.
LEMMA OrderKept ==
    ASSUME IInv, \A s \in Runs : run'[s].status = "none" <=> run[s].status = "none"
    PROVE  \A s \in Runs : run'[s].status # "none" => \A q \in 1..(s - 1) : run'[q].status # "none"
<1> SUFFICES ASSUME NEW s \in Runs, run'[s].status # "none", NEW q \in 1..(s - 1)
             PROVE  run'[q].status # "none"
  OBVIOUS
<1>1. q \in Runs
  BY ConstantFacts DEF Runs
<1> QED
  BY <1>1 DEF IInv, Fresh

\* The next row is inserted.
LEMMA OrderStep ==
    ASSUME IInv, NEW r \in Runs, Unused(r), run'[r].status # "none", \A s \in Runs : s # r => run'[s] = run[s]
    PROVE  \A s \in Runs : run'[s].status # "none" => \A q \in 1..(s - 1) : run'[q].status # "none"
<1> SUFFICES ASSUME NEW s \in Runs, run'[s].status # "none", NEW q \in 1..(s - 1)
             PROVE  run'[q].status # "none"
  OBVIOUS
<1>1. q \in Runs /\ r \in Nat /\ s \in Nat
  BY ConstantFacts DEF Runs
<1>2. CASE s = r
  BY <1>1, <1>2 DEF Unused
<1>3. CASE s # r
  BY <1>1, <1>3 DEF IInv, Fresh
<1> QED
  BY <1>2, <1>3

LEMMA CoalesceStep ==
    ASSUME IInv, NEW t \in Callers, NEW r \in Runs, Unused(r), Coalesce(t, r)
    PROVE  IInv'
<1>1. PICK q \in CallerRecords : /\ caller' = [caller EXCEPT ![t] = q]
                                 /\ q.at \in {"idle", "enter"} /\ q.run = None
                                 /\ q.at # "idle" => q.policy # "none"
  BY CommittedMoves DEF At, Coalesce
<1>2. PICK i \in LiveExecutionIssues :
        run' = [run EXCEPT ![r] = [NewRun(t) EXCEPT !.status = IF caller[t].policy = "skip_if_active" THEN "skipped"
                                                              ELSE "coalesced", !.into = i]]
  BY DEF Coalesce
<1> DEFINE new == [NewRun(t) EXCEPT !.status = IF caller[t].policy = "skip_if_active" THEN "skipped" ELSE "coalesced",
                                    !.into = i]
<1>3. new \in RunRecords /\ new.status \in {"skipped", "coalesced"} /\ new.key = caller[t].key /\ new.policy = "none"
  <2>1. i \in Runs
    BY DEF LiveExecutionIssues
  <2>2. caller[t].key \in Keys \cup {NoKey}
    BY LockFacts DEF CallerRecords
  <2> QED
    BY <2>1, <2>2 DEF NewRun, NoRun, RunRecords
<1> HIDE DEF new
<1>4. run' = [run EXCEPT ![r] = new] /\ run'[r] = new /\ run' \in [Runs -> RunRecords]
      /\ \A s \in Runs : s # r => run'[s] = run[s]
  BY <1>2, <1>3, TypeFacts DEF new
<1>5. caller[t].at = "enter" /\ lock = Nobody /\ lock' = Nobody /\ caller[t].run = None
      /\ \A s \in Runs : run[s].status # "none" \/ s = r => caller[t].key = NoKey \/ run[s].key # caller[t].key
  BY LockFacts DEF Coalesce, Committed, At, KeyedRuns
<1>6. /\ trigger' \in [enabled : BOOLEAN, next : 0..(MaxTime + 1)]
      /\ trigger'.next = trigger.next \/ trigger'.next = now + 1
  BY NextTickFacts, TouchedFacts DEF Coalesce
<1>7. Typed'
  <2>1. q.at \notin InTx
    BY <1>1 DEF InTx
  <2> QED
    BY <1>1, <1>4, <1>5, <1>6, <2>1, TypeFacts, DispatchTyped DEF Coalesce
<1>8. CallersOK'
  <2>1. Sound(q)'
    BY <1>1 DEF Sound, InTx
  <2> QED
    BY <1>1, <1>5, <2>1, HolderStep DEF Coalesce
<1>9. StartOK'
  BY <1>1, <1>5, StartOKStep DEF Coalesce
<1>10. run[r].status = "none" /\ run[r].policy = "none" /\ issue[r] = NoIssue /\ beat[r] = "none"
  BY DEF Unused, IInv, Fresh
<1>11. Fresh'
  BY <1>3, <1>4, <1>10, OrderStep DEF IInv, Fresh, Coalesce
<1>12. KeyedOnce'
  <2> SUFFICES ASSUME NEW s \in Runs, NEW u \in Runs, run'[s].key # NoKey, run'[s].key = run'[u].key PROVE s = u
    BY DEF KeyedOnce
  <2>1. \A v \in Runs : v # r => caller[t].key = NoKey \/ run[v].key # caller[t].key
    BY DEF Coalesce, KeyedRuns
  <2> QED
    BY <1>3, <1>4, <2>1 DEF IInv, KeyedOnce
<1>13. OneEngaged'
  <2>1. /\ caller'[t] = q
        /\ \A u \in Callers : u # t => caller'[u] = caller[u]
    BY <1>1, Moves DEF IInv
  <2>2. \A j \in Runs : Engaged(j)' => Engaged(j)
    BY <1>1, <2>1 DEF Engaged, Open, Live, Coalesce
  <2>3. \A j \in Runs : run'[j].policy = run[j].policy
    BY <1>3, <1>4, <1>10
  <2> QED
    BY <2>2, <2>3, OneEngagedStep DEF Coalesce
<1>14. DispatchesOK'
  <2>1. \A s \in Runs : Settled(s)' \/ (Settled(s) => Settled(s)')
    <3>1. Settled(r)'
      BY <1>3, <1>4, <1>10 DEF Settled, NoIssue, Coalesce
    <3>2. \A s \in Runs : s # r => (Settled(s) => Settled(s)')
      BY <1>4 DEF Settled, Coalesce
    <3> QED
      BY <3>1, <3>2
  <2>2. \A s \in Runs : caller[t].run # s
    BY <1>5, ConstantFacts
  <2> QED
    BY <1>1, <2>1, <2>2, DispatchesOKStep DEF Coalesce
<1>15. FiredOK'
  BY <1>6, FiredOKStep DEF Coalesce
<1> QED
  BY <1>7, <1>8, <1>9, <1>11, <1>12, <1>13, <1>14, <1>15 DEF IInv

\* The new run finds the routine idle, so that it is the one that engages it.
LEMMA ReceiveStep ==
    ASSUME IInv, NEW t \in Callers, NEW r \in Runs, Unused(r), Receive(t, r)
    PROVE  IInv'
<1>1. caller[t].at = "enter" /\ lock = Nobody /\ lock' = t /\ caller[t].run = None
      /\ caller[t] \in CallerRecords /\ caller[t].policy # "none"
  BY LockFacts DEF Receive, At, Sound
<1> DEFINE next == IF caller[t].ofTrigger THEN NextTick(now) ELSE 0
           new == [NewRun(t) EXCEPT !.policy = caller[t].policy]
<1>2. PICK q \in CallerRecords : /\ caller' = [caller EXCEPT ![t] = q]
                                 /\ q.at = "create" /\ q.at \in InTx /\ q.run = r /\ q.policy # "none"
                                 /\ q.ofTrigger => q.next = now + 1
  <2> DEFINE q == [caller[t] EXCEPT !.at = "create", !.run = r, !.next = next]
  <2>1. next \in 0..(MaxTime + 1)
    BY NextTickFacts, ConstantFacts
  <2>2. caller[t].ofTrigger => next = now + 1
    BY NextTickFacts
  <2>3. caller' = [caller EXCEPT ![t] = q]
    BY DEF Receive
  <2> HIDE DEF next
  <2>4. /\ q \in CallerRecords /\ q.at = "create" /\ q.at \in InTx /\ q.run = r
        /\ q.ofTrigger => q.next = now + 1
    BY <1>1, <2>1, <2>2 DEF CallerRecords, InTx
  <2>5. q.policy # "none"
    BY <1>1 DEF CallerRecords
  <2> HIDE DEF q
  <2> QED
    BY <2>3, <2>4, <2>5
<1>3. caller' = [caller EXCEPT ![t] = q]
  BY <1>2
<1>4. new \in RunRecords /\ new.status = "received" /\ new.key = caller[t].key /\ new.policy = caller[t].policy
  <2>1. caller[t].key \in Keys \cup {NoKey} /\ caller[t].policy \in Policies \cup {"none"}
    BY <1>1 DEF CallerRecords
  <2> QED
    BY <2>1 DEF NewRun, NoRun, RunRecords
<1>5. run' = [run EXCEPT ![r] = new]
  BY DEF Receive
<1> HIDE DEF new
<1>6. /\ run'[r] = new /\ run' \in [Runs -> RunRecords]
      /\ \A s \in Runs : s # r => run'[s] = run[s]
  BY <1>4, <1>5, TypeFacts
<1>7. /\ caller'[t] = q
      /\ \A u \in Callers : u # t => caller'[u] = caller[u]
  BY <1>2, <1>3, Moves DEF IInv
<1>8. run[r].status = "none" /\ run[r].policy = "none" /\ issue[r] = NoIssue /\ beat[r] = "none"
  BY DEF Unused, IInv, Fresh
<1>9. Typed'
  <2>1. UNCHANGED <<now, routine, trigger, issue, beat, again, start, fired, events>>
    BY DEF Receive
  <2> QED
    BY <1>1, <1>2, <1>6, <2>1, TypeFacts, DispatchTyped
<1>10. CallersOK'
  <2>1. Sound(q)'
    BY <1>1, <1>2, <1>4, <1>6, <1>8, ConstantFacts DEF Sound, Receive
  <2> QED
    BY <1>1, <1>2, <1>3, <2>1, HolderStep DEF Receive
<1>11. StartOK'
  BY <1>1, <1>2, <1>3, StartOKStep DEF Receive
<1>12. Fresh'
  BY <1>1, <1>4, <1>6, OrderStep DEF IInv, Fresh, Receive
<1>13. KeyedOnce'
  BY <1>4, <1>6 DEF IInv, KeyedOnce, KeyedRuns, Receive
<1>14. OneEngaged'
  <2> SUFFICES ASSUME NEW i \in Runs, NEW j \in Runs, i < j, Engaged(i)', run'[j].policy \notin {"none", "always_enqueue"}
               PROVE  <<i, j>> \in again.revived
    BY DEF OneEngaged, Receive
  <2>1. \A u \in Callers : u # t => caller'[u].at \notin InTx
    BY <1>1, <1>7, LockFacts
  <2>2. Engaged(i) \/ i = r
    BY <1>2, <1>7, <2>1 DEF Engaged, Open, Live, Receive, InTx
  <2>3. i # r
    <3> SUFFICES ASSUME i = r PROVE FALSE
      OBVIOUS
    <3>1. i \in 1..(j - 1) /\ j # r
      BY ConstantFacts DEF Runs
    <3>2. run[j].status # "none"
      BY <1>6, <3>1 DEF IInv, Fresh
    <3> QED
      BY <1>8, <3>1, <3>2 DEF IInv, Fresh
  <2>4. CASE j # r
    BY <1>6, <2>2, <2>3, <2>4 DEF IInv, OneEngaged
  <2>5. CASE j = r
    <3>1. caller[t].policy # "always_enqueue"
      BY <1>4, <1>6, <2>5
    <3>2. ~(Open(i) /\ Live(i))
      BY <3>1 DEF Receive, Busy, LiveExecutionIssues
    <3>3. ~Engaged(i)
      BY <1>1, <3>2, LockFacts DEF Engaged, InTx
    <3> QED
      BY <2>2, <2>3, <3>3
  <2> QED
    BY <2>4, <2>5
<1>15. DispatchesOK'
  <2>1. \A s \in Runs : q.run = s \/ (Settled(s) => Settled(s)')
    BY <1>2, <1>6 DEF Settled, Receive
  <2>2. \A s \in Runs : caller[t].run # s
    BY <1>1, ConstantFacts
  <2>3. events'.crashed = events.crashed
    BY DEF Receive
  <2> QED
    BY <1>2, <2>1, <2>2, <2>3, DispatchesOKStep
<1>16. FiredOK'
  BY FiredOKStep DEF Receive
<1> QED
  BY <1>9, <1>10, <1>11, <1>12, <1>13, <1>14, <1>15, <1>16 DEF IInv

LEMMA GotoMoves ==
    ASSUME IInv, NEW t \in Callers, NEW at \in InTx, Goto(t, at)
    PROVE  \E q \in CallerRecords : /\ caller' = [caller EXCEPT ![t] = q]
                                    /\ q.at = at /\ q.run = caller[t].run /\ q.policy = caller[t].policy
                                    /\ q.ofTrigger = caller[t].ofTrigger /\ q.next = caller[t].next
<1> DEFINE q == [caller[t] EXCEPT !.at = at]
<1>1. caller[t] \in CallerRecords
  BY LockFacts
<1>2. caller' = [caller EXCEPT ![t] = q]
  BY DEF Goto
<1>3. q \in CallerRecords /\ q.at = at /\ q.run = caller[t].run /\ q.policy = caller[t].policy
      /\ q.ofTrigger = caller[t].ofTrigger /\ q.next = caller[t].next
  BY <1>1 DEF CallerRecords
<1> HIDE DEF q
<1> QED
  BY <1>2, <1>3

LEMMA CreateIssueStep ==
    ASSUME IInv, NEW t \in Callers, CreateIssue(t)
    PROVE  IInv'
<1>1. caller[t].at = "create" /\ "wake" \in InTx /\ caller[t].at \in InTx
  BY DEF CreateIssue, At, InTx
<1>2. PICK q \in CallerRecords : /\ caller' = [caller EXCEPT ![t] = q]
                                 /\ q.at = "wake" /\ q.run = caller[t].run /\ q.policy = caller[t].policy
                                 /\ q.ofTrigger = caller[t].ofTrigger /\ q.next = caller[t].next
  BY <1>1, GotoMoves DEF CreateIssue
<1>3. PICK r \in Runs : r = caller[t].run
  BY <1>1, HolderFacts
<1>4. Sound(caller[t]) /\ lock = t /\ run[r].status = "received" /\ beat[r] = "none"
  BY <1>1, <1>3, HolderFacts DEF Sound
<1>5. /\ issue' \in [Runs -> IssueRecords] /\ issue'[r].status = "todo"
      /\ \A s \in Runs : s # r => issue'[s] = issue[s]
  BY <1>3, TypeFacts DEF CreateIssue, NoIssue, IssueRecords, OPEN_ISSUE_STATUSES
<1>6. /\ caller'[t] = q
      /\ \A u \in Callers : u # t => caller'[u] = caller[u]
  BY <1>2, Moves DEF IInv
<1>7. Typed'
  BY <1>1, <1>2, <1>4, <1>5, TypeFacts, DispatchTyped DEF CreateIssue
<1>8. CallersOK'
  <2>1. Sound(q)'
    BY <1>1, <1>2, <1>3, <1>4, <1>5, ConstantFacts DEF Sound, CreateIssue
  <2> QED
    BY <1>2, <1>4, <2>1, HolderStep DEF CreateIssue
<1>9. StartOK'
  BY <1>1, <1>2, StartOKStep DEF CreateIssue
<1>10. Fresh'
  BY <1>3, <1>4, <1>5, HolderFacts, <1>1 DEF IInv, Fresh, CreateIssue
<1>11. OneEngaged'
  <2>1. Engaged(r)
    BY <1>1, <1>3 DEF Engaged
  <2>2. \A j \in Runs : j # r /\ Engaged(j)' => Engaged(j)
    BY <1>1, <1>2, <1>3, <1>5, <1>6 DEF Engaged, Open, Live, CreateIssue
  <2>3. \A j \in Runs : Engaged(j)' => Engaged(j)
    BY <2>1, <2>2
  <2> QED
    BY <2>3, OneEngagedStep DEF CreateIssue
<1>12. DispatchesOK'
  <2>1. \A s \in Runs : q.run = s \/ (Settled(s) => Settled(s)')
    BY <1>2, <1>3, <1>5 DEF Settled, CreateIssue
  <2>2. events'.crashed = events.crashed
    BY DEF CreateIssue
  <2> QED
    BY <1>2, <2>1, <2>2, DispatchesOKStep
<1>13. FiredOK'
  BY FiredOKStep DEF CreateIssue
<1> QED
  BY <1>7, <1>8, <1>9, <1>10, <1>11, <1>12, <1>13 DEF IInv, KeyedOnce, CreateIssue

LEMMA WakeAssigneeStep ==
    ASSUME IInv, NEW t \in Callers, WakeAssignee(t)
    PROVE  IInv'
<1>1. caller[t].at = "wake" /\ "start" \in InTx /\ caller[t].at \in InTx
  BY DEF WakeAssignee, At, InTx
<1>2. PICK q \in CallerRecords : /\ caller' = [caller EXCEPT ![t] = q]
                                 /\ q.at = "start" /\ q.run = caller[t].run /\ q.policy = caller[t].policy
                                 /\ q.ofTrigger = caller[t].ofTrigger /\ q.next = caller[t].next
  BY <1>1, GotoMoves DEF WakeAssignee
<1>3. PICK r \in Runs : r = caller[t].run
  BY <1>1, HolderFacts
<1>4. Sound(caller[t]) /\ lock = t /\ run[r].status = "received" /\ beat[r] = "none" /\ issue[r].status # "none"
  BY <1>1, <1>3, HolderFacts DEF Sound
<1>5. /\ beat' \in [Runs -> BeatStatuses]
      /\ \A s \in Runs : s # r => beat'[s] = beat[s]
  BY <1>3, TypeFacts DEF WakeAssignee, BeatStatuses
<1>6. /\ caller'[t] = q
      /\ \A u \in Callers : u # t => caller'[u] = caller[u]
  BY <1>2, Moves DEF IInv
<1>7. Typed'
  BY <1>1, <1>2, <1>4, <1>5, TypeFacts, DispatchTyped DEF WakeAssignee
<1>8. CallersOK'
  <2>1. Sound(q)'
    BY <1>1, <1>2, <1>3, <1>4, ConstantFacts DEF Sound, WakeAssignee
  <2> QED
    BY <1>2, <1>4, <2>1, HolderStep DEF WakeAssignee
<1>9. StartOK'
  <2>1. \A b \in Runs : beat'[b] = beat[b] \/ beat[b] \notin {"queued", "claimed"}
    BY <1>4, <1>5
  <2> QED
    BY <1>1, <1>2, <2>1, StartOKStep DEF WakeAssignee
<1>10. Fresh'
  BY <1>1, <1>3, <1>4, <1>5, HolderFacts DEF IInv, Fresh, WakeAssignee
<1>11. OneEngaged'
  <2>1. Engaged(r)
    BY <1>1, <1>3 DEF Engaged
  <2>2. \A j \in Runs : j # r /\ Engaged(j)' => Engaged(j)
    BY <1>1, <1>2, <1>3, <1>5, <1>6 DEF Engaged, Open, Live, WakeAssignee
  <2>3. \A j \in Runs : Engaged(j)' => Engaged(j)
    BY <2>1, <2>2
  <2> QED
    BY <2>3, OneEngagedStep DEF WakeAssignee
<1>12. DispatchesOK'
  <2>1. \A s \in Runs : Settled(s) => Settled(s)'
    BY DEF Settled, WakeAssignee
  <2>2. events'.crashed = events.crashed
    BY DEF WakeAssignee
  <2> QED
    BY <1>2, <2>1, <2>2, DispatchesOKStep
<1>13. FiredOK'
  BY FiredOKStep DEF WakeAssignee
<1> QED
  BY <1>7, <1>8, <1>9, <1>10, <1>11, <1>12, <1>13 DEF IInv, KeyedOnce, WakeAssignee

LEMMA DispatchFaultStep ==
    ASSUME IInv, NEW t \in Callers, DispatchFault(t)
    PROVE  IInv'
<1>1. caller[t].at \in {"create", "wake"} /\ "fail" \in InTx /\ caller[t].at \in InTx
  BY DEF DispatchFault, InTx
<1>2. PICK q \in CallerRecords : /\ caller' = [caller EXCEPT ![t] = q]
                                 /\ q.at = "fail" /\ q.run = caller[t].run /\ q.policy = caller[t].policy
                                 /\ q.ofTrigger = caller[t].ofTrigger /\ q.next = caller[t].next
  BY <1>1, GotoMoves DEF DispatchFault
<1>3. Sound(caller[t]) /\ lock = t
  BY <1>1, HolderFacts
<1>4. /\ events' \in Happened
      /\ events'.crashed = events.crashed /\ events'.outlived = events.outlived
      /\ events'.reopened = events.reopened
  BY HappensFacts DEF DispatchFault
<1>5. /\ caller'[t] = q
      /\ \A u \in Callers : u # t => caller'[u] = caller[u]
  BY <1>2, Moves DEF IInv
<1>6. Typed'
  BY <1>1, <1>2, <1>3, <1>4, TypeFacts, DispatchTyped DEF DispatchFault
<1>7. CallersOK'
  <2>1. Sound(q)'
    BY <1>1, <1>2, <1>3, <1>4 DEF Sound, DispatchFault
  <2> QED
    BY <1>2, <1>3, <2>1, HolderStep DEF DispatchFault
<1>8. StartOK'
  BY <1>1, <1>2, StartOKStep DEF DispatchFault
<1>9. OneEngaged'
  <2>1. \A j \in Runs : Engaged(j)' => Engaged(j)
    BY <1>1, <1>2, <1>5 DEF Engaged, Open, Live, DispatchFault
  <2> QED
    BY <1>4, <2>1, OneEngagedStep DEF DispatchFault
<1>10. DispatchesOK'
  <2>1. \A s \in Runs : Settled(s) => Settled(s)'
    BY <1>4 DEF Settled, DispatchFault
  <2> QED
    BY <1>2, <1>4, <2>1, DispatchesOKStep
<1>11. FiredOK'
  BY <1>4, FiredOKStep DEF DispatchFault
<1> QED
  BY <1>6, <1>7, <1>8, <1>9, <1>10, <1>11 DEF IInv, Fresh, KeyedOnce, DispatchFault

\* What a dispatch has committed stays in its run and its issue.
LEMMA FinishStep ==
    ASSUME IInv, NEW t \in Callers, Finish(t)
    PROVE  IInv'
<1>1. caller[t].at = "finish" /\ caller[t].at \in InTx
  BY DEF Finish, At, InTx
<1>2. PICK q \in CallerRecords : /\ caller' = [caller EXCEPT ![t] = q]
                                 /\ q.at \in {"idle", "enter"} /\ q.run = None
                                 /\ q.at # "idle" => q.policy # "none"
  BY CommittedMoves DEF At, Finish
<1>3. PICK r \in Runs : r = caller[t].run
  BY <1>1, HolderFacts
<1>4. Sound(caller[t]) /\ lock = t /\ run[r].status = "received" /\ issue[r].status # "none"
      /\ caller[t].next \in 0..(MaxTime + 1)
  BY <1>1, <1>3, HolderFacts DEF Sound, CallerRecords
<1>5. /\ run' \in [Runs -> RunRecords] /\ run'[r].status = "issue_created"
      /\ \A s \in Runs : run'[s].key = run[s].key /\ run'[s].policy = run[s].policy
      /\ \A s \in Runs : s # r => run'[s] = run[s]
  <2> DEFINE new == [run[r] EXCEPT !.status = "issue_created"]
  <2>1. new \in RunRecords /\ new.status = "issue_created" /\ new.key = run[r].key /\ new.policy = run[r].policy
    BY TypeFacts DEF RunRecords
  <2>2. run' = [run EXCEPT ![r] = new]
    BY <1>3 DEF Finish
  <2> HIDE DEF new
  <2> QED
    BY <2>1, <2>2, TypeFacts
<1>6. /\ trigger' \in [enabled : BOOLEAN, next : 0..(MaxTime + 1)]
      /\ trigger'.next = trigger.next \/ trigger'.next = now + 1 \/ events.outlived
  BY <1>1, <1>4, TouchedFacts DEF Finish, Sound
<1>7. Typed'
  <2>1. q.at \notin InTx
    BY <1>2 DEF InTx
  <2>2. lock' = Nobody
    BY DEF Finish, Committed
  <2> QED
    BY <1>2, <1>4, <1>5, <1>6, <2>1, <2>2, TypeFacts, DispatchTyped DEF Finish
<1>8. CallersOK'
  <2>1. Sound(q)'
    BY <1>2 DEF Sound, InTx
  <2> QED
    BY <1>2, <1>4, <2>1, HolderStep DEF Finish
<1>9. StartOK'
  BY <1>1, <1>2, StartOKStep DEF Finish
<1>10. Fresh'
  BY <1>4, <1>5, OrderKept DEF IInv, Fresh, Finish
<1>11. OneEngaged'
  <2>1. /\ caller'[t] = q
        /\ \A u \in Callers : u # t => caller'[u] = caller[u]
    BY <1>2, Moves DEF IInv
  <2>2. \A j \in Runs : Engaged(j)' => Engaged(j)
    BY <1>2, <2>1 DEF Engaged, Open, Live, Finish
  <2>3. \A j \in Runs : run'[j].policy = run[j].policy
    BY <1>5
  <2> QED
    BY <2>2, <2>3, OneEngagedStep DEF Finish
<1>12. DispatchesOK'
  <2>1. Settled(r)'
    BY <1>4, <1>5 DEF Settled, Finish
  <2>2. \A s \in Runs : Settled(s)' \/ (Settled(s) => Settled(s)')
    BY <1>5, <2>1 DEF Settled, Finish
  <2>3. \A s \in Runs : caller[t].run = s => Settled(s)'
    BY <1>3, <2>1
  <2>4. events'.crashed = events.crashed
    BY DEF Finish
  <2> QED
    BY <1>2, <2>2, <2>3, <2>4, DispatchesOKStep
<1>13. FiredOK'
  BY <1>6, FiredOKStep DEF Finish
<1>14. KeyedOnce'
  BY <1>5 DEF IInv, KeyedOnce
<1> QED
  BY <1>7, <1>8, <1>9, <1>10, <1>11, <1>12, <1>13, <1>14 DEF IInv

LEMMA FailStep ==
    ASSUME IInv, NEW t \in Callers, Fail(t)
    PROVE  IInv'
<1>1. caller[t].at = "fail" /\ caller[t].at \in InTx
  BY DEF Fail, At, InTx
<1>2. PICK q \in CallerRecords : /\ caller' = [caller EXCEPT ![t] = q]
                                 /\ q.at \in {"idle", "enter"} /\ q.run = None
                                 /\ q.at # "idle" => q.policy # "none"
  BY CommittedMoves DEF At, Fail
<1>3. PICK r \in Runs : r = caller[t].run
  BY <1>1, HolderFacts
<1>4. Sound(caller[t]) /\ lock = t /\ run[r].status = "received" /\ caller[t].next \in 0..(MaxTime + 1)
  BY <1>1, <1>3, HolderFacts DEF CallerRecords
<1>5. /\ run' \in [Runs -> RunRecords] /\ run'[r].status = "failed"
      /\ \A s \in Runs : run'[s].key = run[s].key /\ run'[s].policy = run[s].policy
      /\ \A s \in Runs : s # r => run'[s] = run[s]
  <2> DEFINE new == [run[r] EXCEPT !.status = "failed"]
  <2>1. new \in RunRecords /\ new.status = "failed" /\ new.key = run[r].key /\ new.policy = run[r].policy
    BY TypeFacts DEF RunRecords
  <2>2. run' = [run EXCEPT ![r] = new]
    BY <1>3 DEF Fail
  <2> HIDE DEF new
  <2> QED
    BY <2>1, <2>2, TypeFacts
<1>6. /\ issue' \in [Runs -> IssueRecords] /\ issue'[r] = NoIssue
      /\ \A s \in Runs : s # r => issue'[s] = issue[s]
  <2>1. NoIssue \in IssueRecords
    BY DEF NoIssue, IssueRecords
  <2> QED
    BY <1>3, <2>1, TypeFacts DEF Fail, CleanedUp
<1>7. /\ trigger' \in [enabled : BOOLEAN, next : 0..(MaxTime + 1)]
      /\ trigger'.next = trigger.next \/ trigger'.next = now + 1 \/ events.outlived
  BY <1>1, <1>4, TouchedFacts DEF Fail, Sound
<1>8. Typed'
  <2>1. q.at \notin InTx
    BY <1>2 DEF InTx
  <2>2. lock' = Nobody
    BY DEF Fail, Committed
  <2> QED
    BY <1>2, <1>4, <1>5, <1>6, <1>7, <2>1, <2>2, TypeFacts, DispatchTyped DEF Fail
<1>9. CallersOK'
  <2>1. Sound(q)'
    BY <1>2 DEF Sound, InTx
  <2> QED
    BY <1>2, <1>4, <2>1, HolderStep DEF Fail
<1>10. StartOK'
  BY <1>1, <1>2, StartOKStep DEF Fail
<1>11. Fresh'
  BY <1>4, <1>5, <1>6, OrderKept DEF IInv, Fresh, Fail
<1>12. OneEngaged'
  <2>1. /\ caller'[t] = q
        /\ \A u \in Callers : u # t => caller'[u] = caller[u]
    BY <1>2, Moves DEF IInv
  <2>2. ~Open(r)'
    BY <1>6 DEF Open, NoIssue, OPEN_ISSUE_STATUSES
  <2>3. \A j \in Runs : (Open(j) /\ Live(j))' => Open(j) /\ Live(j)
    BY <1>6, <2>2 DEF Open, Live, Fail
  <2>4. \A j \in Runs : Engaged(j)' => Engaged(j)
    BY <1>2, <2>1, <2>3 DEF Engaged
  <2>5. \A j \in Runs : run'[j].policy = run[j].policy
    BY <1>5
  <2> QED
    BY <2>4, <2>5, OneEngagedStep DEF Fail
<1>13. DispatchesOK'
  <2>1. Settled(r)'
    BY <1>5, <1>6 DEF Settled, NoIssue, Fail
  <2>2. \A s \in Runs : Settled(s)' \/ (Settled(s) => Settled(s)')
    BY <1>5, <1>6, <2>1 DEF Settled, Fail
  <2>3. \A s \in Runs : caller[t].run = s => Settled(s)'
    BY <1>3, <2>1
  <2>4. events'.crashed = events.crashed
    BY DEF Fail
  <2> QED
    BY <1>2, <2>2, <2>3, <2>4, DispatchesOKStep
<1>14. FiredOK'
  BY <1>7, FiredOKStep DEF Fail
<1>15. KeyedOnce'
  BY <1>5 DEF IInv, KeyedOnce
<1> QED
  BY <1>8, <1>9, <1>10, <1>11, <1>12, <1>13, <1>14, <1>15 DEF IInv

-----------------------------------------------------------------------------
(* The heartbeat runs, their starts and their ends.                         *)

\* A caller at its start has the row.
LEMMA StarterFacts ==
    ASSUME IInv
    PROVE  /\ start.by \in Callers \cup {Agent, Nobody}
           /\ start.todo \in SUBSET Runs /\ start.claimed \in SUBSET Runs
           /\ \A b \in start.todo : beat[b] = "queued"
           /\ \A b \in start.claimed : beat[b] = "claimed"
           /\ start.by \in Callers => At(start.by, "start")
           /\ start.by = Nobody => start.todo = {} /\ start = NoStart
BY TypeFacts DEF Starts, IInv, StartOK, NoStart

\* The start in progress has nothing to do with heartbeat run b.
LEMMA StartApart ==
    ASSUME IInv, NEW b \in Runs, beat[b] \notin {"queued", "claimed"}, UNCHANGED <<caller, start>>,
           \A c \in Runs : c # b => beat'[c] = beat[c]
    PROVE  StartOK'
BY StarterFacts DEF IInv, StartOK, At, NoStart

\* A step of the heartbeat runs, or of those who wake them, leaves the statuses
\* of the issues alone, makes no run live but that of an issue it brings back
\* to life, and at most lets the dispatch go on that waits for it.
LEMMA BeatStep ==
    ASSUME IInv,
           \/ UNCHANGED caller
           \/ \E t \in Callers, at \in {"finish", "fail"} : At(t, "start") /\ Goto(t, at),
           UNCHANGED <<now, routine, trigger, lock, run, fired>>,
           UNCHANGED events \/ Happens,
           issue' \in [Runs -> IssueRecords], beat' \in [Runs -> BeatStatuses], start' \in Starts, again' \in Agains,
           \A i \in Runs : issue'[i].status = issue[i].status,
           again.revived \subseteq again'.revived,
           \A b \in Runs : Live(b)' =>
             Live(b) \/ \A r \in Runs : run[r].status # "none" => <<b, r>> \in again'.revived,
           \A b \in Runs : issue[b] = NoIssue /\ beat[b] = "none" => issue'[b] = NoIssue,
           \A b \in Runs : beat[b] = "none" => beat'[b] = "none",
           StartOK'
    PROVE  IInv'
<1>0. /\ events' \in Happened
      /\ events'.crashed = events.crashed /\ events'.outlived = events.outlived
      /\ events'.reopened = events.reopened
  BY HappensFacts, TypeFacts
<1>1. /\ caller' \in [Callers -> CallerRecords]
      /\ \A u \in Callers : /\ caller'[u].run = caller[u].run
                            /\ (caller'[u].at \in InTx) <=> (caller[u].at \in InTx)
                            /\ caller'[u].at \in {"create", "wake"} => caller'[u] = caller[u]
      /\ \A u \in Callers : Sound(caller[u])'
  <2>0. events'.outlived = events.outlived
    BY <1>0
  <2>1. \A u \in Callers : Sound(caller[u]) /\ caller[u] \in CallerRecords
    BY LockFacts
  <2>2. \A u \in Callers : caller[u].run \in Runs \/ caller[u].at \notin InTx
    BY <2>1 DEF Sound, CallerRecords
  <2>3. CASE UNCHANGED caller
    BY <2>0, <2>1, <2>2, <2>3 DEF Sound, InTx, IInv, Typed
  <2>4. CASE \E t \in Callers, at \in {"finish", "fail"} : At(t, "start") /\ Goto(t, at)
    <3>1. PICK t \in Callers, at \in {"finish", "fail"} : At(t, "start") /\ Goto(t, at)
      BY <2>4
    <3>2. PICK q \in CallerRecords : /\ caller' = [caller EXCEPT ![t] = q]
                                     /\ q.at = at /\ q.run = caller[t].run /\ q.policy = caller[t].policy
                                     /\ q.ofTrigger = caller[t].ofTrigger /\ q.next = caller[t].next
      BY <3>1, GotoMoves DEF InTx
    <3>3. /\ caller' \in [Callers -> CallerRecords] /\ caller'[t] = q
          /\ \A u \in Callers : u # t => caller'[u] = caller[u]
      BY <3>2, Moves DEF IInv
    <3>4. caller[t].at = "start"
      BY <3>1 DEF At
    <3>5. Sound(caller[t])'
      BY <2>0, <2>1, <2>2, <3>2, <3>3, <3>4 DEF Sound, InTx
    <3>6. \A u \in Callers : u # t => Sound(caller[u])'
      BY <2>0, <2>1, <2>2, <3>3 DEF Sound, InTx
    <3>7. \A u \in Callers : /\ caller'[u].run = caller[u].run
                             /\ (caller'[u].at \in InTx) <=> (caller[u].at \in InTx)
                             /\ caller'[u].at \in {"create", "wake"} => caller'[u] = caller[u]
      BY <3>2, <3>3, <3>4 DEF InTx
    <3> QED
      BY <3>3, <3>5, <3>6, <3>7
  <2> QED
    BY <2>3, <2>4
<1>2. Typed'
  BY <1>0, <1>1 DEF IInv, Typed, TypeOK, IssueRecords, BeatStatuses, Agains
<1>3. Fresh'
  BY DEF IInv, Fresh
<1>4. OneEngaged'
  <2>1. \A i \in Runs : Engaged(i)' =>
          Engaged(i) \/ \A r \in Runs : run[r].status # "none" => <<i, r>> \in again'.revived
    BY <1>1 DEF Engaged, Open
  <2> QED
    BY <2>1, OneRevivedStep
<1>5. DispatchesOK'
  BY <1>0, <1>1 DEF IInv, DispatchesOK, Settled
<1>6. CallersOK'
  BY <1>1 DEF CallersOK
<1>7. FiredOK'
  BY <1>0 DEF IInv, FiredOK
<1> QED
  BY <1>2, <1>3, <1>4, <1>5, <1>6, <1>7 DEF IInv, KeyedOnce

LEMMA StartBeginsStep ==
    ASSUME IInv, NEW by \in Callers \cup {Agent}, StartBegins(by)
    PROVE  IInv'
<1>1. Batch \in SUBSET Runs /\ \A b \in Batch : beat[b] = "queued"
  BY DEF Batch, QueuedBeats
<1>2. CASE Batch = {}
  <2>1. by \in Callers /\ At(by, "start") /\ Goto(by, "finish") /\ start = NoStart /\ UNCHANGED start
    BY <1>2 DEF StartBegins
  <2>2. StartOK'
    BY <2>1, ConstantFacts DEF StartOK, NoStart
  <2> QED
    BY <2>1, <2>2, TypeFacts, BeatStep DEF StartBegins, Live
<1>3. CASE Batch # {}
  <2>1. UNCHANGED caller /\ start' = [by |-> by, todo |-> Batch, claimed |-> {}]
        /\ (by \in Callers => At(by, "start"))
    BY <1>3, ConstantFacts DEF StartBegins, NoStart
  <2>2. start' \in Starts
    BY <1>1, <2>1 DEF Starts
  <2>3. StartOK'
    BY <1>1, <2>1, ConstantFacts DEF StartOK, At, StartBegins
  <2> QED
    BY <2>1, <2>2, <2>3, TypeFacts, BeatStep DEF StartBegins, Live
<1> QED
  BY <1>2, <1>3

LEMMA StampedFacts ==
    ASSUME IInv, NEW b \in Runs
    PROVE  /\ Stamped(b) \in [Runs -> IssueRecords]
           /\ \A i \in Runs : Stamped(b)[i].status = issue[i].status
           /\ \A i \in Runs : i # b => Stamped(b)[i] = issue[i]
<1>1. CASE Stampable(b)
  <2> DEFINE new == [issue[b] EXCEPT !.exec = b]
  <2>1. new \in IssueRecords /\ new.status = issue[b].status
    BY TypeFacts DEF IssueRecords
  <2>2. Stamped(b) = [issue EXCEPT ![b] = new]
    BY <1>1 DEF Stamped
  <2> HIDE DEF new
  <2> QED
    BY <2>1, <2>2, TypeFacts
<1>2. CASE ~Stampable(b)
  BY <1>2, TypeFacts DEF Stamped
<1> QED
  BY <1>1, <1>2

LEMMA ClaimRunStep ==
    ASSUME IInv, ClaimRun
    PROVE  IInv'
<1> DEFINE b == Least(start.todo)
<1>1. b \in start.todo /\ b \in Runs /\ beat[b] = "queued" /\ b \notin start.claimed
  BY StarterFacts, LeastIsMember DEF ClaimRun
<1>2. /\ beat' = [beat EXCEPT ![b] = "claimed"]
      /\ start' = [start EXCEPT !.todo = @ \ {b}, !.claimed = @ \cup {b}]
      /\ issue' = Stamped(b)
  BY DEF ClaimRun
<1> HIDE DEF b
<1>3. start' \in Starts /\ start'.by = start.by /\ start'.todo = start.todo \ {b}
      /\ start'.claimed = start.claimed \cup {b}
  BY <1>1, <1>2, TypeFacts DEF Starts
<1>4. beat' \in [Runs -> BeatStatuses] /\ \A c \in Runs : beat'[c] = IF c = b THEN "claimed" ELSE beat[c]
  BY <1>2, TypeFacts DEF BeatStatuses, Executing
<1>5. /\ issue' \in [Runs -> IssueRecords]
      /\ \A i \in Runs : issue'[i].status = issue[i].status
      /\ \A i \in Runs : i # b => issue'[i] = issue[i]
  BY <1>1, <1>2, StampedFacts
<1>6. \A c \in Runs : Live(c)' => Live(c)
  BY <1>1, <1>4 DEF Live, Executing
<1>7. StartOK'
  <2>1. start.by # Nobody
    BY <1>1, StarterFacts
  <2>2. \A c \in start'.todo : beat'[c] = "queued"
    BY <1>3, <1>4, StarterFacts
  <2>3. \A c \in start'.claimed : beat'[c] = "claimed"
    BY <1>1, <1>3, <1>4, StarterFacts
  <2>4. start'.by \in Callers => At(start.by, "start")'
    BY <1>3, StarterFacts DEF At, ClaimRun
  <2> QED
    BY <1>3, <2>1, <2>2, <2>3, <2>4 DEF StartOK
<1> QED
  BY <1>1, <1>3, <1>4, <1>5, <1>6, <1>7, TypeFacts, BeatStep DEF ClaimRun

LEMMA ClaimConflictsStep ==
    ASSUME IInv, ClaimConflicts
    PROVE  IInv'
<1> DEFINE b == Least(start.todo)
<1>1. b \in start.todo /\ b \in Runs /\ beat[b] = "queued"
  BY StarterFacts, LeastIsMember DEF ClaimConflicts
<1>2. /\ beat' = [c \in Runs |-> IF c \in start.claimed \cup {b} THEN "lost" ELSE beat[c]]
      /\ start' = NoStart
  BY DEF ClaimConflicts
<1> HIDE DEF b
<1>3. \/ UNCHANGED caller
      \/ \E t \in Callers, at \in {"finish", "fail"} : At(t, "start") /\ Goto(t, at)
  <2>1. start.by # Nobody
    BY <1>1, StarterFacts
  <2> QED
    BY <2>1, StarterFacts DEF ClaimConflicts
<1>4. beat' \in [Runs -> BeatStatuses]
  BY <1>2, TypeFacts DEF BeatStatuses, Executing
<1>5. \A c \in Runs : (Live(c)' => Live(c)) /\ (beat[c] = "none" => beat'[c] = "none")
  BY <1>1, <1>2, StarterFacts DEF Live, Executing
<1>6. StartOK' /\ start' \in Starts
  BY <1>2, ConstantFacts DEF StartOK, NoStart, Starts
<1> QED
  BY <1>3, <1>4, <1>5, <1>6, TypeFacts, BeatStep DEF ClaimConflicts

LEMMA StartEndsStep ==
    ASSUME IInv, StartEnds
    PROVE  IInv'
<1>1. /\ beat' = [c \in Runs |-> IF c \in start.claimed THEN "running" ELSE beat[c]]
      /\ start' = NoStart
  BY DEF StartEnds
<1>2. \/ UNCHANGED caller
      \/ \E t \in Callers, at \in {"finish", "fail"} : At(t, "start") /\ Goto(t, at)
  BY StarterFacts DEF StartEnds
<1>3. beat' \in [Runs -> BeatStatuses]
  BY <1>1, TypeFacts DEF BeatStatuses, Executing
<1>4. \A c \in Runs : (Live(c)' => Live(c)) /\ (beat[c] = "none" => beat'[c] = "none")
  BY <1>1, StarterFacts DEF Live, Executing
<1>5. StartOK' /\ start' \in Starts
  BY <1>1, ConstantFacts DEF StartOK, NoStart, Starts
<1> QED
  BY <1>2, <1>3, <1>4, <1>5, TypeFacts, BeatStep DEF StartEnds

\* The end of a run, and of one that the reaper has failed.
LEMMA RunEndsStep ==
    ASSUME IInv, NEW b \in Runs, NEW retry \in BOOLEAN, RunEnds(b) \/ Reap(b, retry)
    PROVE  IInv'
<1>1. beat[b] \in {"running", "lost", "orphaned"}
      /\ \E over \in {"ended", "retry"} : beat' = [beat EXCEPT ![b] = over]
  BY DEF RunEnds, Reap
<1>2. PICK over \in {"ended", "retry"} : beat' = [beat EXCEPT ![b] = over]
  BY <1>1
<1>3. beat' \in [Runs -> BeatStatuses] /\ \A c \in Runs : beat'[c] = IF c = b THEN over ELSE beat[c]
  BY <1>2, TypeFacts DEF BeatStatuses, Executing
<1>4. \A c \in Runs : (Live(c)' => Live(c)) /\ (beat[c] = "none" => beat'[c] = "none")
  BY <1>1, <1>3 DEF Live, Executing
<1>5. UNCHANGED <<now, routine, trigger, lock, caller, run, issue, again, start, fired, events>>
  BY DEF RunEnds, Reap
<1>6. StartOK'
  BY <1>1, <1>3, <1>5, StartApart
<1> QED
  BY <1>3, <1>4, <1>5, <1>6, TypeFacts, BeatStep

\* A heartbeat run is queued once more, and is known to be.
LEMMA QueuedAgain ==
    ASSUME IInv, NEW b \in Runs, beat[b] \notin {"none", "queued", "claimed"}, beat' = [beat EXCEPT ![b] = "queued"],
           again' \in Agains, again'.revived = Revived(b),
           issue' \in [Runs -> IssueRecords], \A i \in Runs : issue'[i].status = issue[i].status,
           \A i \in Runs : issue[i] = NoIssue => issue'[i] = NoIssue,
           UNCHANGED <<now, routine, trigger, lock, caller, run, start, fired>>,
           UNCHANGED events \/ Happens
    PROVE  IInv'
<1>1. beat' \in [Runs -> BeatStatuses] /\ \A c \in Runs : beat'[c] = IF c = b THEN "queued" ELSE beat[c]
  BY TypeFacts DEF BeatStatuses, Executing
<1>2. \A c \in Runs : Live(c)' => Live(c) \/ \A r \in Runs : run[r].status # "none" => <<c, r>> \in again'.revived
  BY <1>1, RevivedFacts DEF Live
<1>3. StartOK'
  BY <1>1, StartApart
<1>4. \A c \in Runs : beat[c] = "none" => beat'[c] = "none"
  BY <1>1
<1>5. again.revived \subseteq again'.revived
  BY RevivedFacts
<1> QED
  BY <1>1, <1>2, <1>3, <1>4, <1>5, TypeFacts, BeatStep

LEMMA RetryStep ==
    ASSUME IInv, NEW b \in Runs, Retry(b)
    PROVE  IInv'
<1>1. again' \in Agains /\ again'.revived = Revived(b)
  BY TypeFacts, RevivedFacts DEF Retry, Agains
<1> QED
  BY <1>1, TypeFacts, QueuedAgain DEF Retry

LEMMA PromoteStep ==
    ASSUME IInv, NEW b \in Runs, Promote(b)
    PROVE  IInv'
<1>1. again' \in Agains /\ again'.revived = Revived(b)
  BY TypeFacts, RevivedFacts DEF Promote, Agains
<1> QED
  BY <1>1, TypeFacts, QueuedAgain DEF Promote

LEMMA CommentWakesStep ==
    ASSUME IInv, NEW i \in Runs, CommentWakes(i)
    PROVE  IInv'
<1>1. again' \in Agains /\ again'.revived = Revived(i)
  BY TypeFacts, RevivedFacts DEF CommentWakes, Agains
<1>2. beat[i] \notin {"none", "queued", "claimed"}
  BY DEF CommentWakes, Commented, Live, Executing
<1>3. /\ issue' \in [Runs -> IssueRecords] /\ \A j \in Runs : issue'[j].status = issue[j].status
      /\ \A j \in Runs : issue[j] = NoIssue => issue'[j] = NoIssue
  <2> DEFINE new == [issue[i] EXCEPT !.exec = None]
  <2>1. new \in IssueRecords /\ new.status = issue[i].status /\ (issue[i] = NoIssue => new = NoIssue)
    BY TypeFacts DEF IssueRecords, NoIssue
  <2>2. issue' = [issue EXCEPT ![i] = new]
    BY DEF CommentWakes
  <2> HIDE DEF new
  <2> QED
    BY <2>1, <2>2, TypeFacts
<1> QED
  BY <1>1, <1>2, <1>3, QueuedAgain DEF CommentWakes

LEMMA CommentDeferredStep ==
    ASSUME IInv, NEW i \in Runs, CommentDeferred(i)
    PROVE  IInv'
<1>1. again' \in Agains /\ again'.revived = again.revived
  BY TypeFacts DEF CommentDeferred, Agains
<1>2. beat[i] # "none" /\ issue' = Stamped(i)
  BY DEF CommentDeferred, Commented
<1>3. /\ issue' \in [Runs -> IssueRecords] /\ \A j \in Runs : issue'[j].status = issue[j].status
      /\ \A j \in Runs : j # i => issue'[j] = issue[j]
  BY <1>2, StampedFacts
<1>4. UNCHANGED <<now, routine, trigger, lock, caller, run, beat, start, fired>> /\ Happens
  BY DEF CommentDeferred
<1>5. StartOK' /\ \A b \in Runs : Live(b)' => Live(b)
  BY <1>4 DEF IInv, StartOK, At, NoStart, Live
<1> QED
  BY <1>1, <1>2, <1>3, <1>4, <1>5, TypeFacts, BeatStep

LEMMA ReleaseStep ==
    ASSUME IInv, NEW b \in Runs, Release(b)
    PROVE  IInv'
<1>1. beat' \in [Runs -> BeatStatuses] /\ \A c \in Runs : beat'[c] = IF c = b THEN "over" ELSE beat[c]
  BY TypeFacts DEF Release, BeatStatuses, Executing
<1>2. \A c \in Runs : (Live(c)' => Live(c)) /\ (beat[c] = "none" => beat'[c] = "none")
  BY <1>1 DEF Live, Executing, Release
<1>3. StartOK'
  BY <1>1, StartApart DEF Release
<1>4. issue' = [i \in Runs |-> IF issue[i].exec = b THEN [issue[i] EXCEPT !.exec = None] ELSE issue[i]]
  BY DEF Release
<1>5. \A i \in Runs : /\ [issue[i] EXCEPT !.exec = None] \in IssueRecords
                      /\ [issue[i] EXCEPT !.exec = None].status = issue[i].status
  BY TypeFacts DEF IssueRecords
<1>6. /\ issue' \in [Runs -> IssueRecords]
      /\ \A i \in Runs : issue'[i].status = issue[i].status
      /\ \A i \in Runs : issue[i].exec = None => issue'[i] = issue[i]
  BY <1>4, <1>5, TypeFacts, ConstantFacts
<1>7. \A i \in Runs : issue[i] = NoIssue => issue'[i] = NoIssue
  BY <1>6 DEF NoIssue
<1> QED
  BY <1>1, <1>2, <1>3, <1>6, <1>7, TypeFacts, BeatStep DEF Release

-----------------------------------------------------------------------------
(* What people, the clock and a crash do.                                   *)

\* Nobody is in a dispatch of the run of an issue that is edited, or the run
\* stays as it is.
LEMMA PatchIssueStep ==
    ASSUME IInv, NEW i \in Runs, NEW asked \in {"todo", "in_progress", "blocked", "done"}, PatchIssue(i, asked)
    PROVE  IInv'
<1> DEFINE status   == IF asked = "in_progress" THEN "todo" ELSE asked
           exec     == IF asked = "in_progress" THEN issue[i].exec ELSE None
           reopens  == ~Open(i) /\ status \in OPEN_ISSUE_STATUSES
           mends    == status = "todo" /\ issue[i].status = "blocked"
           followed == Followed(i, status)
<1>0. status \in {"todo", "blocked", "done"}
  OBVIOUS
<1>1. /\ followed = run[i].status \/ followed \in {"completed", "failed"}
      /\ (\E t \in Callers : caller[t].run = i) => followed = run[i].status
      /\ status = "todo" => followed = run[i].status
  <2>1. \A t \in Callers : caller[t].run = i => caller[t].at \in InTx
    BY LockFacts, ConstantFacts
  <2> QED
    BY <2>1 DEF Followed
<1>2. /\ issue' = [issue EXCEPT ![i] = [status |-> status, exec |-> exec]]
      /\ run' = [run EXCEPT ![i].status = followed]
      /\ again' = IF reopens THEN [again EXCEPT !.revived = Revived(i)] ELSE again
      /\ \/ events' = events /\ status = "done"
         \/ events' = [events EXCEPT !.total = @ + 1, !.reopened = @ \/ reopens \/ mends]
      /\ run[i].status # "none" /\ issue[i].status # "none" /\ beat[i] # "none"
  BY DEF PatchIssue
<1> HIDE DEF followed
<1>3. /\ events' \in Happened
      /\ events'.crashed = events.crashed /\ events'.outlived = events.outlived
      /\ events'.reopened <=> events.reopened \/ reopens \/ mends
  <2>1. CASE events' = events /\ status = "done"
    BY <2>1, TypeFacts DEF OPEN_ISSUE_STATUSES
  <2>2. CASE events' = [events EXCEPT !.total = @ + 1, !.reopened = @ \/ reopens \/ mends]
    <3> DEFINE p == events.reopened \/ reopens \/ mends
    <3>1. p \in BOOLEAN /\ events \in Happened
      BY TypeFacts
    <3>2. events' = [events EXCEPT !.total = @ + 1, !.reopened = p]
      BY <2>2
    <3> HIDE DEF p
    <3>3. events' \in Happened
      BY <3>1, <3>2, HappenedMore
    <3>4. events'.crashed = events.crashed /\ events'.outlived = events.outlived /\ events'.reopened = p
      BY <3>1, <3>2 DEF Happened
    <3> QED
      BY <3>3, <3>4 DEF p
  <2> QED
    BY <1>2, <2>1, <2>2
<1>4. /\ issue' \in [Runs -> IssueRecords] /\ issue'[i].status = status
      /\ \A j \in Runs : j # i => issue'[j] = issue[j]
  <2> DEFINE new == [status |-> status, exec |-> exec]
  <2>1. exec \in Runs \cup {None}
    BY TypeFacts DEF IssueRecords
  <2>2. new \in IssueRecords /\ new.status = status
    BY <1>0, <2>1 DEF IssueRecords, OPEN_ISSUE_STATUSES
  <2>3. issue' = [issue EXCEPT ![i] = new]
    BY <1>2
  <2> HIDE DEF new
  <2> QED
    BY <2>2, <2>3, TypeFacts
<1>5. /\ run' \in [Runs -> RunRecords] /\ run'[i].status = followed
      /\ \A j \in Runs : j # i => run'[j] = run[j]
      /\ \A j \in Runs : run'[j].key = run[j].key /\ run'[j].policy = run[j].policy
  <2> DEFINE new == [run[i] EXCEPT !.status = followed]
  <2>1. new \in RunRecords /\ new.status = followed /\ new.key = run[i].key /\ new.policy = run[i].policy
    BY <1>1, TypeFacts DEF RunRecords
  <2>2. run' = [run EXCEPT ![i] = new]
    BY <1>2
  <2> HIDE DEF new
  <2> QED
    BY <2>1, <2>2, TypeFacts
<1> HIDE DEF status, exec
<1>14. again' \in Agains /\ again.revived \subseteq again'.revived
       /\ (reopens => again'.revived = Revived(i))
  <2> HIDE DEF reopens
  <2>1. CASE reopens
    <3>1. again' = [again EXCEPT !.revived = Revived(i)]
      BY <1>2, <2>1
    <3>2. again' \in Agains /\ again'.revived = Revived(i)
      BY <3>1, TypeFacts, RevivedFacts DEF Agains
    <3> QED
      BY <3>2, RevivedFacts
  <2>2. CASE ~reopens
    BY <1>2, <2>2, TypeFacts
  <2> QED
    BY <2>1, <2>2
<1>6. Typed'
  <2>1. \A r \in Runs : run'[r].status \in {"none", "received", "rolled back", "coalesced", "skipped",
                                           "issue_created", "completed", "failed"}
    BY <1>5 DEF RunRecords
  <2> QED
    BY <1>3, <1>4, <1>5, <1>14, <2>1 DEF IInv, Typed, TypeOK, IssueRecords, Agains, PatchIssue
<1>7. CallersOK'
  <2> SUFFICES ASSUME NEW t \in Callers PROVE Sound(caller[t])'
    BY DEF CallersOK
  <2>1. Sound(caller[t]) /\ (caller[t].at \in InTx => caller[t].run \in Runs)
    BY LockFacts, HolderFacts
  <2>2. caller[t].run \in Runs => /\ run'[caller[t].run].status = run[caller[t].run].status
                                  /\ run'[caller[t].run].policy = run[caller[t].run].policy
    BY <1>1, <1>5
  <2>3. caller[t].run \in Runs => (issue[caller[t].run].status # "none" => issue'[caller[t].run].status # "none")
    BY <1>0, <1>4
  <2> QED
    BY <1>3, <2>1, <2>2, <2>3 DEF Sound, InTx, PatchIssue
<1>8. StartOK'
  BY DEF IInv, StartOK, At, NoStart, PatchIssue
<1>9. Fresh'
  <2>1. \A s \in Runs : run'[s].status = "none" <=> run[s].status = "none"
    BY <1>1, <1>2, <1>5
  <2> QED
    BY <1>2, <1>4, <1>5, <2>1, OrderKept DEF IInv, Fresh, PatchIssue
<1>10. KeyedOnce'
  BY <1>5 DEF IInv, KeyedOnce
<1>11. OneEngaged'
  <2>1. \A j \in Runs : Engaged(j)' => Engaged(j) \/ (j = i /\ reopens)
    <3>1. \A j \in Runs : Open(j)' => Open(j) \/ (j = i /\ reopens)
      BY <1>4 DEF Open
    <3> QED
      BY <3>1 DEF Engaged, Live, PatchIssue
  <2>2. \A j \in Runs : Engaged(j)' =>
          Engaged(j) \/ \A r \in Runs : run[r].status # "none" => <<j, r>> \in again'.revived
    BY <1>14, <2>1, RevivedFacts
  <2> QED
    BY <1>5, <1>14, <2>2, OneRevivedStep
<1>12. DispatchesOK'
  <2> SUFFICES ASSUME ~events.crashed, NEW r \in Runs, \A t \in Callers : caller[t].run # r
               PROVE  Settled(r)'
    BY <1>3 DEF DispatchesOK, PatchIssue
  <2>1. Settled(r)
    BY DEF IInv, DispatchesOK
  <2>2. CASE r # i
    BY <1>3, <1>4, <1>5, <2>1, <2>2 DEF Settled
  <2>3. CASE r = i
    <3>1. issue'[r].status = "todo" /\ ~events'.reopened => run'[r].status = "issue_created"
      <4> SUFFICES ASSUME status = "todo", ~events'.reopened PROVE run[i].status = "issue_created"
        BY <1>1, <1>4, <1>5, <2>3
      <4>1. ~events.reopened /\ issue[i].status \in OPEN_ISSUE_STATUSES /\ issue[i].status # "blocked"
        BY <1>3 DEF Open, OPEN_ISSUE_STATUSES
      <4>2. issue[i].status = "todo"
        BY <4>1 DEF OPEN_ISSUE_STATUSES
      <4> QED
        BY <2>1, <2>3, <4>1, <4>2 DEF Settled
    <3> QED
      BY <1>0, <1>4, <2>3, <3>1 DEF Settled
  <2> QED
    BY <2>2, <2>3
<1>13. FiredOK'
  BY <1>3, FiredOKStep DEF PatchIssue
<1> QED
  BY <1>6, <1>7, <1>8, <1>9, <1>10, <1>11, <1>12, <1>13 DEF IInv

LEMMA UpdateRoutineStep ==
    ASSUME IInv, NEW status \in {"active", "paused", "archived"}, NEW policy \in Policies, NEW catchUp \in CatchUps,
           UpdateRoutine(status, policy, catchUp)
    PROVE  IInv'
<1>1. /\ events' \in Happened
      /\ events'.crashed = events.crashed /\ events'.outlived = events.outlived
      /\ events'.reopened = events.reopened
  BY HappensFacts DEF UpdateRoutine
<1>2. routine' \in [status : {"active", "paused", "archived"}, policy : Policies, catchUp : CatchUps]
  BY DEF UpdateRoutine
<1>3. Typed'
  BY <1>1, <1>2 DEF IInv, Typed, TypeOK, UpdateRoutine
<1>4. CallersOK' /\ StartOK' /\ Fresh' /\ KeyedOnce'
  BY <1>1 DEF IInv, CallersOK, Sound, StartOK, At, NoStart, Fresh, KeyedOnce, UpdateRoutine
<1>5. OneEngaged'
  <2>1. \A j \in Runs : Engaged(j)' => Engaged(j)
    BY DEF Engaged, Open, Live, UpdateRoutine
  <2> QED
    BY <2>1, OneEngagedStep DEF UpdateRoutine
<1>6. DispatchesOK'
  BY <1>1 DEF IInv, DispatchesOK, Settled, UpdateRoutine
<1>7. FiredOK'
  BY <1>1, FiredOKStep DEF UpdateRoutine
<1> QED
  BY <1>3, <1>4, <1>5, <1>6, <1>7 DEF IInv

LEMMA UpdateTriggerStep ==
    ASSUME IInv, NEW enabled \in BOOLEAN, UpdateTrigger(enabled)
    PROVE  IInv'
<1>1. /\ events' \in Happened
      /\ events'.crashed = events.crashed /\ events'.outlived = events.outlived
      /\ events'.reopened = events.reopened
  BY HappensFacts DEF UpdateTrigger
<1>2. trigger' \in [enabled : BOOLEAN, next : 0..(MaxTime + 1)] /\ trigger'.next = now + 1
  BY NextTickFacts DEF UpdateTrigger
<1>3. Typed'
  BY <1>1, <1>2 DEF IInv, Typed, TypeOK, UpdateTrigger
<1>4. CallersOK' /\ StartOK' /\ Fresh' /\ KeyedOnce'
  BY <1>1 DEF IInv, CallersOK, Sound, StartOK, At, NoStart, Fresh, KeyedOnce, UpdateTrigger
<1>5. OneEngaged'
  <2>1. \A j \in Runs : Engaged(j)' => Engaged(j)
    BY DEF Engaged, Open, Live, UpdateTrigger
  <2> QED
    BY <1>1, <2>1, OneEngagedStep DEF UpdateTrigger
<1>6. DispatchesOK'
  BY <1>1 DEF IInv, DispatchesOK, Settled, UpdateTrigger
<1>7. FiredOK'
  BY <1>1, <1>2, FiredOKStep DEF UpdateTrigger
<1> QED
  BY <1>3, <1>4, <1>5, <1>6, <1>7 DEF IInv

\* A dispatch that time passes for may move the trigger to a time that has
\* been taken: the properties excuse it.
LEMMA TimePassesStep ==
    ASSUME IInv, TimePasses
    PROVE  IInv'
<1>1. /\ events' \in Happened
      /\ events'.crashed = events.crashed /\ events'.reopened = events.reopened
      /\ events.outlived => events'.outlived
      /\ (\E t \in Callers : caller[t].at \in InTx) => events'.outlived
  BY TypeFacts DEF TimePasses, Happened
<1>2. now' = now + 1 /\ now' \in Times
  BY TypeFacts, ConstantFacts DEF TimePasses, Times
<1>3. Typed'
  BY <1>1, <1>2 DEF IInv, Typed, TypeOK, TimePasses
<1>4. CallersOK'
  <2> SUFFICES ASSUME NEW t \in Callers PROVE Sound(caller[t])'
    BY DEF CallersOK
  <2>1. Sound(caller[t]) /\ caller[t] \in CallerRecords
    BY LockFacts
  <2>2. caller[t].next \in Nat /\ caller[t].claim \in Nat /\ caller[t].left \in Nat
    BY <2>1, ConstantFacts DEF CallerRecords
  <2>3. caller[t].at = "claim" =>
          /\ caller[t].left >= 1 /\ caller[t].next + caller[t].left <= now' + 1
          /\ caller[t].next + caller[t].left <= caller[t].claim /\ caller[t].claim <= now' + 1
    BY <1>2, <2>1, <2>2, TypeFacts DEF Sound
  <2> QED
    BY <1>1, <2>1, <2>3 DEF Sound, TimePasses
<1>5. StartOK' /\ Fresh' /\ KeyedOnce'
  BY DEF IInv, StartOK, At, NoStart, Fresh, KeyedOnce, TimePasses
<1>6. OneEngaged'
  <2>1. \A j \in Runs : Engaged(j)' => Engaged(j)
    BY DEF Engaged, Open, Live, TimePasses
  <2> QED
    BY <1>1, <2>1, OneEngagedStep DEF TimePasses
<1>7. DispatchesOK'
  BY <1>1 DEF IInv, DispatchesOK, Settled, TimePasses
<1>8. FiredOK'
  <2> SUFFICES ASSUME NEW n \in Times, fired[n] > 0
               PROVE  n <= now' /\ (~events'.outlived => fired[n] = 1 /\ n < trigger.next)
    BY DEF FiredOK, TimePasses
  <2>1. n <= now /\ (~events.outlived => fired[n] = 1 /\ n < trigger.next) /\ n \in Nat
    BY ConstantFacts DEF IInv, FiredOK
  <2> QED
    BY <1>1, <1>2, <2>1, TypeFacts
<1> QED
  BY <1>3, <1>4, <1>5, <1>6, <1>7, <1>8 DEF IInv

LEMMA CrashStep ==
    ASSUME IInv, Crash
    PROVE  IInv'
<1>1. /\ events' \in Happened
      /\ events'.crashed /\ events'.outlived = events.outlived /\ events'.reopened = events.reopened
  <2>1. events' = [events EXCEPT !.total = @ + 1, !.crashed = TRUE] /\ events \in Happened
    BY TypeFacts DEF Crash
  <2>2. events'.crashed = TRUE
    BY <2>1 DEF Happened
  <2>4. events' \in Happened
    BY <2>1, HappenedMore
  <2>3. events'.outlived = events.outlived /\ events'.reopened = events.reopened
    BY <2>1 DEF Happened
  <2> QED
    BY <2>2, <2>3, <2>4
<1>2. /\ caller' \in [Callers -> CallerRecords]
      /\ \A t \in Callers : caller'[t] = Idle /\ caller'[t].at = "idle" /\ caller'[t].at \notin InTx
  BY IdleFacts DEF Crash, InTx
<1>3. /\ run' \in [Runs -> RunRecords]
      /\ \A r \in Runs : run'[r].policy = run[r].policy /\ (run'[r].status = "none" <=> run[r].status = "none")
      /\ \A r \in Runs : run'[r] = run[r] \/ (run'[r].status = "rolled back" /\ run'[r].key = NoKey)
  <2> DEFINE gone(r) == [NoRun EXCEPT !.status = "rolled back", !.policy = run[r].policy]
             lost(r) == \E t \in Callers : caller[t].run = r /\ caller[t].at \in InTx
  <2>1. \A r \in Runs : /\ gone(r) \in RunRecords /\ gone(r).status = "rolled back" /\ gone(r).key = NoKey
                        /\ gone(r).policy = run[r].policy /\ run[r] \in RunRecords
    BY TypeFacts DEF NoRun, RunRecords
  <2>2. run' = [r \in Runs |-> IF lost(r) THEN gone(r) ELSE run[r]]
    BY DEF Crash
  <2>3. \A r \in Runs : lost(r) => run[r].status = "received"
    BY HolderFacts
  <2> HIDE DEF gone, lost
  <2>4. \A r \in Runs : run'[r] \in RunRecords /\ run'[r] = IF lost(r) THEN gone(r) ELSE run[r]
    BY <2>1, <2>2
  <2>5. run' \in [Runs -> RunRecords]
    BY <2>2, <2>4
  <2> QED
    BY <2>1, <2>3, <2>4, <2>5
<1>4. /\ beat' \in [Runs -> BeatStatuses]
      /\ \A b \in Runs : (Live(b)' => Live(b)) /\ (beat[b] = "none" => beat'[b] = "none")
  <2> SUFFICES ASSUME NEW b \in Runs
               PROVE  beat'[b] \in BeatStatuses /\ (Live(b)' => Live(b)) /\ (beat[b] = "none" => beat'[b] = "none")
    BY DEF Crash
  <2>1. /\ beat[b] = "claimed" => beat'[b] = "lost"
        /\ beat[b] = "running" => beat'[b] = "orphaned"
        /\ beat[b] \in {"ended", "retry"} => beat'[b] = "over"
        /\ beat[b] \notin {"claimed", "running", "ended", "retry"} => beat'[b] = beat[b]
    BY DEF Crash
  <2> QED
    BY <2>1, TypeFacts DEF BeatStatuses, Live, Executing
<1>5. lock' = Nobody /\ start' = NoStart
  BY DEF Crash
<1>6. Typed'
  <2>1. start' \in Starts
    BY <1>5 DEF NoStart, Starts
  <2>2. \A r \in Runs : run'[r].status \in {"none", "received", "rolled back", "coalesced", "skipped",
                                           "issue_created", "completed", "failed"}
    BY <1>3 DEF RunRecords
  <2>3. \A t \in Callers : (lock' = t) <=> (caller'[t].at \in InTx)
    BY <1>2, <1>5, ConstantFacts
  <2> QED
    BY <1>1, <1>2, <1>3, <1>4, <1>5, <2>1, <2>2, <2>3 DEF IInv, Typed, TypeOK, BeatStatuses, Crash
<1>7. CallersOK'
  BY <1>2, IdleFacts DEF CallersOK, Sound, InTx
<1>8. StartOK'
  BY <1>5, ConstantFacts DEF StartOK, NoStart
<1>9. Fresh'
  <2>1. \A s \in Runs : run'[s].status = "none" <=> run[s].status = "none"
    BY <1>3
  <2>2. \A s \in Runs : run'[s].status # "none" => \A q \in 1..(s - 1) : run'[q].status # "none"
    BY <2>1, OrderKept
  <2>3. \A s \in Runs : run'[s].policy = run[s].policy
    BY <1>3
  <2>4. issue' = issue
    BY DEF Crash
  <2> QED
    BY <1>4, <2>1, <2>2, <2>3, <2>4 DEF IInv, Fresh
<1>10. KeyedOnce'
  <2>1. \A r \in Runs : run'[r].key = run[r].key \/ run'[r].key = NoKey
    BY <1>3
  <2> QED
    BY <2>1 DEF IInv, KeyedOnce
<1>11. OneEngaged'
  <2>1. \A j \in Runs : Engaged(j)' => Engaged(j)
    BY <1>2, <1>4 DEF Engaged, Open, Crash
  <2> QED
    BY <1>3, <2>1, OneEngagedStep DEF Crash
<1>12. DispatchesOK'
  BY <1>1 DEF DispatchesOK
<1>13. FiredOK'
  BY <1>1, FiredOKStep DEF Crash
<1> QED
  BY <1>6, <1>7, <1>8, <1>9, <1>10, <1>11, <1>12, <1>13 DEF IInv

-----------------------------------------------------------------------------
(* The theorems.                                                            *)

LEMMA InitOK == Init => IInv
<1> SUFFICES ASSUME Init PROVE IInv
  OBVIOUS
<1>1. /\ caller \in [Callers -> CallerRecords]
      /\ \A t \in Callers : caller[t] = Idle /\ caller[t].at = "idle" /\ caller[t].at \notin InTx
                            /\ caller[t].run = None
  BY IdleFacts DEF Init, InTx
<1>2. 0 \in Times /\ 0 \in 0..(MaxTime + 1)
  BY ConstantFacts DEF Times
<1>3. run \in [Runs -> RunRecords] /\ \A r \in Runs : run[r] = NoRun
  BY DEF Init, NoRun, RunRecords
<1>4. issue \in [Runs -> IssueRecords] /\ \A r \in Runs : issue[r] = NoIssue /\ ~Open(r)
  BY DEF Init, NoIssue, IssueRecords, Open, OPEN_ISSUE_STATUSES
<1>5. start = NoStart /\ start \in Starts /\ lock = Nobody
  BY DEF Init, NoStart, Starts
<1>6. /\ events \in Happened /\ fired \in [Times -> Nat] /\ \A n \in Times : fired[n] = 0
      /\ beat \in [Runs -> BeatStatuses] /\ \A b \in Runs : beat[b] = "none"
  BY DEF Init, Happened, BeatStatuses
<1>7. trigger \in [enabled : BOOLEAN, next : 0..(MaxTime + 1)]
  BY <1>2 DEF Init
<1>8. routine \in [status : {"active", "paused", "archived"}, policy : Policies, catchUp : CatchUps]
  BY RoutineConstants DEF Init
<1>18. again \in Agains
  BY DEF Init, Agains
<1>9. TypeOK
  <2>1. \A t \in Callers : (lock = t) <=> (caller[t].at \in InTx)
    BY <1>1, <1>5, ConstantFacts
  <2>2. \A r \in Runs : run[r].status = "none"
    BY <1>3 DEF NoRun
  <2>3. now \in Times
    BY <1>2 DEF Init
  <2> QED
    BY <1>4, <1>5, <1>6, <1>7, <1>8, <1>18, <2>1, <2>2, <2>3 DEF TypeOK, IssueRecords, BeatStatuses, Agains
<1>10. Typed
  BY <1>1, <1>3, <1>5, <1>6, <1>9 DEF Typed
<1>11. CallersOK
  BY <1>1, IdleFacts DEF CallersOK
<1>12. StartOK
  BY <1>5, ConstantFacts DEF StartOK, NoStart
<1>13. Fresh
  BY <1>3, <1>4, <1>6 DEF Fresh, NoRun
<1>14. KeyedOnce
  BY <1>3 DEF KeyedOnce, NoRun
<1>15. OneEngaged
  BY <1>1, <1>4 DEF OneEngaged, Engaged
<1>16. DispatchesOK
  BY <1>3, <1>4 DEF DispatchesOK, Settled, NoRun, NoIssue
<1>17. FiredOK
  BY <1>6 DEF FiredOK
<1> QED
  BY <1>10, <1>11, <1>12, <1>13, <1>14, <1>15, <1>16, <1>17 DEF IInv

\* Of a routine: every reachable state satisfies the invariant.
THEOREM Invariance == Spec => []IInv
<1>1. IInv /\ [Next]_vars => IInv'
  <2> SUFFICES ASSUME IInv, [Next]_vars PROVE IInv'
    OBVIOUS
  <2>1. ASSUME NEW t \in Callers, DueRead(t) \/ Claim(t) PROVE IInv'
    BY <2>1, DueReadStep, ClaimStep
  <2>2. ASSUME NEW t \in Callers, NEW key \in Keys \cup {NoKey}, NEW ofTrigger \in BOOLEAN,
               RunRoutine(t, key, ofTrigger)
        PROVE  IInv'
    BY <2>2, RunRoutineStep
  <2>3. ASSUME NEW t \in Callers, Dispatch(t) PROVE IInv'
    BY <2>3, AlreadyRunStep, CoalesceStep, ReceiveStep, CreateIssueStep, WakeAssigneeStep, DispatchFaultStep,
       FinishStep, FailStep DEF Dispatch
  <2>4. ASSUME NEW by \in Callers \cup {Agent}, StartBegins(by) PROVE IInv'
    BY <2>4, StartBeginsStep
  <2>5. CASE ClaimRun \/ ClaimConflicts \/ StartEnds
    BY <2>5, ClaimRunStep, ClaimConflictsStep, StartEndsStep
  <2>6. ASSUME NEW b \in Runs, NEW retry \in BOOLEAN, RunEnds(b) \/ Reap(b, retry) PROVE IInv'
    BY <2>6, RunEndsStep
  <2>12. ASSUME NEW b \in Runs, Retry(b) \/ Promote(b) \/ Release(b) \/ CommentDeferred(b) \/ CommentWakes(b)
         PROVE  IInv'
    BY <2>12, RetryStep, PromoteStep, ReleaseStep, CommentDeferredStep, CommentWakesStep
  <2>7. ASSUME NEW i \in Runs, NEW asked \in {"todo", "in_progress", "blocked", "done"}, PatchIssue(i, asked)
        PROVE  IInv'
    BY <2>7, PatchIssueStep
  <2>8. ASSUME NEW status \in {"active", "paused", "archived"}, NEW policy \in Policies, NEW catchUp \in CatchUps,
               UpdateRoutine(status, policy, catchUp)
        PROVE  IInv'
    BY <2>8, UpdateRoutineStep
  <2>9. ASSUME NEW enabled \in BOOLEAN, UpdateTrigger(enabled) PROVE IInv'
    BY <2>9, UpdateTriggerStep
  <2>10. CASE TimePasses \/ Crash
    BY <2>10, TimePassesStep, CrashStep
  <2>11. CASE UNCHANGED vars
    <3>1. Typed' /\ CallersOK' /\ StartOK'
      BY <2>11 DEF vars, IInv, Typed, TypeOK, CallersOK, Sound, StartOK, At, NoStart
    <3>2. Fresh' /\ KeyedOnce' /\ DispatchesOK' /\ FiredOK'
      BY <2>11 DEF vars, IInv, Fresh, KeyedOnce, DispatchesOK, Settled, FiredOK
    <3>3. OneEngaged'
      BY <2>11 DEF vars, IInv, OneEngaged, Engaged, Open, Live
    <3> QED
      BY <3>1, <3>2, <3>3 DEF IInv
  <2> QED
    BY <2>1, <2>2, <2>3, <2>4, <2>5, <2>6, <2>7, <2>8, <2>9, <2>10, <2>11, <2>12 DEF Next
<1> QED
  BY InitOK, <1>1, PTL DEF Spec

\* The shape of the tables, and that the row of the routine is held by the
\* dispatches and by nobody else.
THEOREM TypeCorrect == Spec => []TypeOK
<1>1. IInv => TypeOK
  BY DEF IInv, Typed
<1> QED
  BY Invariance, <1>1, PTL

\* No due time is fired twice, however ticks, manual runs and edits of the
\* trigger interleave, unless a dispatch outlived the next due time.
THEOREM FiredOnce == Spec => []TickFiredOnce
<1>1. IInv => TickFiredOnce
  <2> SUFFICES ASSUME IInv, ~events.outlived, NEW n \in Times PROVE fired[n] <= 1
    BY DEF TickFiredOnce
  <2>1. fired[n] \in Nat
    BY TypeFacts
  <2>2. fired[n] > 0 => fired[n] = 1
    BY DEF IInv, FiredOK
  <2> QED
    BY <2>1, <2>2
<1> QED
  BY Invariance, <1>1, PTL

\* One run for a key.
THEOREM KeysMakeOneRun == Spec => []KeyedOnce
<1>1. IInv => KeyedOnce
  BY DEF IInv
<1> QED
  BY Invariance, <1>1, PTL

\* Of two execution issues that are worked on at once, the older one came to
\* life again beside the younger, which was not dispatched under always_enqueue
\* by then, over every crash, retry, promotion, comment and edit.
THEOREM LiveIssueIsOne == Spec => []OneLiveIssue
<1>1. IInv => OneLiveIssue
  <2> SUFFICES ASSUME IInv, NEW i \in Runs, NEW j \in Runs, i < j, Working(i), Working(j),
                      run[j].policy # "always_enqueue"
               PROVE  <<i, j>> \in again.revived
    BY DEF OneLiveIssue
  <2>1. run[j].policy # "none"
    BY DEF IInv, Fresh, NoIssue, Working, Open, OPEN_ISSUE_STATUSES
  <2> QED
    BY <2>1 DEF IInv, OneEngaged, Engaged, Working
<1> QED
  BY Invariance, <1>1, PTL

\* An issue that outlives its dispatch has its run, and no run without issue
\* says that it has made one.
THEOREM IssuesHaveRuns == Spec => []IssueHasRun
<1>1. IInv => IssueHasRun
  <2> SUFFICES ASSUME IInv, ~events.crashed, NEW r \in Runs, lock = Nobody \/ caller[lock].run # r
               PROVE  Settled(r)
    BY DEF IssueHasRun, Settled
  <2>1. \A t \in Callers : caller[t].run # r
    BY LockFacts, ConstantFacts
  <2> QED
    BY <2>1 DEF IInv, DispatchesOK
<1> QED
  BY Invariance, <1>1, PTL
=============================================================================
