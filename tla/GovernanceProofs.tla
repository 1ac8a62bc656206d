-------------------------- MODULE GovernanceProofs --------------------------
(***************************************************************************)
(* The properties of Governance for every value of its constants.  IInv     *)
(* says of each request what it knows at its place, who holds a row for an  *)
(* incident, who carries out a hire, and who is about to stop or resume an  *)
(* agent that should be: the properties speak of a state at rest, where     *)
(* there is no such request.                                                *)
(***************************************************************************)
EXTENDS Governance, TLAPS

\* A request that has found a row for an incident and is about to insert it.
Inserting(t) == thread[t].at \in {"insertSoft", "insertHard"}

\* What a request knows at each place.
Sound(q) ==
    /\ q.at \in {"hard", "insertHard", "pause"} => q.seen >= q.amount
    /\ q.op = "raise" => q.id \in Rows /\ q.at \in {"raise", "resumeScope", "resolve"}
    /\ q.at = "raise" => q.op = "raise" /\ q.seen < q.amount
    /\ q.at = "resumeScope" => q.amount = 0 \/ q.seen < q.amount
    /\ q.at = "decide" => q.id \in Approvals /\ q.to # "none"
    /\ q.at = "send" => /\ q.id \in Approvals /\ approval[q.id] # "none"
                        /\ q.op \in {"revision_requested", "pending"}
    /\ q.at = "write" => q.op \in {"pause", "resume", "terminate"}
ThreadsOK == \A t \in Threads : Sound(thread[t])

Pasts == [requests : Nat, excused : BOOLEAN, stale : BOOLEAN, outdated : BOOLEAN, crashed : BOOLEAN]

\* The row is the request's alone, and an approval was made for it when the
\* incident is to be a hard one.
RowsHeld ==
    /\ \A t \in Threads : Inserting(t) =>
         /\ thread[t].id \in Rows /\ incident[thread[t].id].type = "none"
         /\ approval[thread[t].id] = "none" <=> At(t, "insertSoft")
    /\ \A t, u \in Threads : Inserting(t) /\ Inserting(u) /\ thread[t].id = thread[u].id => t = u

\* An agent that waits for its hire has spent nothing and was paused by nobody.
NotYetHired == agent.status \in {"none", "pending_approval"} => agent.reason = "none" /\ spent = 0

\* One request at most carries out the hire, after the decision and before
\* the hire is counted.
InHire(t) == thread[t].at \in {"activate", "activating", "hired"}
HireOK == ~past.stale =>
    /\ \A t \in Threads : InHire(t) => approval[Hire] = "approved" /\ hires = 0
    /\ \A t, u \in Threads : InHire(t) /\ InHire(u) => t = u
    /\ hires > 0 => approval[Hire] = "approved" /\ hires = 1

\* Until it has, an approved hire has the request that decided it.
ActivationOK ==
    approval[Hire] = "approved" /\ ~past.crashed /\ ~past.stale /\ agent.status \in {"none", "pending_approval"}
        => \E t \in Threads : At(t, "activate") \/ At(t, "activating")

\* An agent that runs over its budget has a request that is about to stop it,
\* or that a property excuses with its next step.
Pursues(t) ==
    \/ thread[t].at \in {"policy", "hard", "pause", "resumeScope"}
    \/ At(t, "observe") /\ spent >= thread[t].amount
    \/ thread[t].at \in {"soft", "insertSoft"} /\ HardStop(t)
    \/ At(t, "insertHard") /\ Standing("hard") = {}
    \/ At(t, "edited") /\ ~Within(t)
Over == policy.active /\ spent >= policy.amount /\ ~past.excused /\ ~past.crashed /\ agent.status = "active"
StopOK == Over => \E t \in Threads : Pursues(t)

\* An agent that is stopped within its budget has a request that is about to
\* resume it.
Releases(t) == \/ At(t, "resumeScope")
               \/ At(t, "edited") /\ Within(t) /\ thread[t].amount = policy.amount
Held == agent.reason = "budget" /\ ~past.outdated /\ ~past.crashed
Due  == policy.amount > 0 /\ spent >= policy.amount
DueOK == Held => Due \/ \E t \in Threads : Releases(t)

IInv == /\ TypeOK /\ ThreadsOK /\ RowsHeld /\ NotYetHired
        /\ HireOK /\ ActivationOK /\ StopOK /\ DueOK

-----------------------------------------------------------------------------
(* What the parts of the invariant need of a step that moves one request.   *)

\* One request moves.
LEMMA Moves ==
    ASSUME TypeOK, NEW t \in Threads, NEW q \in Requests, thread' = [thread EXCEPT ![t] = q]
    PROVE  /\ thread' \in [Threads -> Requests] /\ thread'[t] = q
           /\ \A u \in Threads : u # t => thread'[u] = thread[u]
BY DEF TypeOK

\* What the requests know holds of the one that moved, and of the others as
\* long as no approval disappears.
LEMMA ThreadsOKStep ==
    ASSUME IInv, NEW t \in Threads, NEW q \in Requests, thread' = [thread EXCEPT ![t] = q],
           \A a \in Approvals : approval[a] # "none" => approval'[a] # "none",
           Sound(q)
    PROVE  ThreadsOK'
<1>1. /\ thread'[t] = q
      /\ \A u \in Threads : u # t => thread'[u] = thread[u]
  BY Moves DEF IInv
<1> QED
  BY <1>1 DEF IInv, ThreadsOK, Sound

\* The rows of the others are theirs, unless the step uses or decides one.
LEMMA RowsHeldStep ==
    ASSUME IInv, NEW t \in Threads, NEW q \in Requests, thread' = [thread EXCEPT ![t] = q],
           q.at \notin {"insertSoft", "insertHard"},
           \A u \in Threads \ {t} : Inserting(u) => 
               /\ incident'[thread[u].id].type = "none"
               /\ approval'[thread[u].id] = "none" <=> approval[thread[u].id] = "none"
    PROVE  RowsHeld'
<1>1. /\ thread'[t] = q
      /\ \A u \in Threads : u # t => thread'[u] = thread[u]
  BY Moves DEF IInv
<1> QED
  BY <1>1 DEF IInv, RowsHeld, At, Inserting

\* The hire, as long as nothing of it changes.
LEMMA HireOKStep ==
    ASSUME IInv, NEW t \in Threads, NEW q \in Requests, thread' = [thread EXCEPT ![t] = q],
           q.at \in {"activate", "activating", "hired"} => InHire(t),
           approval'[Hire] = approval[Hire], hires' = hires, past'.stale = past.stale
    PROVE  HireOK'
<1>1. /\ thread'[t] = q
      /\ \A u \in Threads : u # t => thread'[u] = thread[u]
  BY Moves DEF IInv
<1> QED
  BY <1>1 DEF IInv, HireOK, InHire

\* The request that carries out an approved hire goes on to, or the agent is
\* there.
LEMMA ActivationOKStep ==
    ASSUME IInv, NEW t \in Threads, NEW q \in Requests, thread' = [thread EXCEPT ![t] = q],
           agent'.status \in {"none", "pending_approval"} => agent.status \in {"none", "pending_approval"},
           approval'[Hire] = approval[Hire],
           ~past'.stale => ~past.stale, ~past'.crashed => ~past.crashed,
           thread[t].at \in {"activate", "activating"} =>
               \/ q.at \in {"activate", "activating"}
               \/ agent'.status \notin {"none", "pending_approval"}
    PROVE  ActivationOK'
<1>1. /\ thread'[t] = q
      /\ \A u \in Threads : u # t => thread'[u] = thread[u]
  BY Moves DEF IInv
<1> QED
  BY <1>1 DEF IInv, ActivationOK, At

\* The requests that are about to stop the agent still are, or the one that
\* moved is.
LEMMA StopOKStep ==
    ASSUME IInv, NEW t \in Threads, NEW q \in Requests, thread' = [thread EXCEPT ![t] = q],
           spent' \in Amounts, spent' >= spent,
           Standing("hard") = {} => Standing("hard")' = {},
           Over' => \/ Pursues(t)'
                    \/ Over /\ ~Pursues(t)
    PROVE  StopOK'
<1>1. /\ thread'[t] = q
      /\ \A u \in Threads : u # t => thread'[u] = thread[u]
  BY Moves DEF IInv
<1>2. ASSUME NEW u \in Threads, u # t, Pursues(u) PROVE Pursues(u)'
  <2> HIDE DEF Standing
  <2>1. thread[u] \in Requests /\ spent \in Nat /\ spent' \in Nat
    BY DEF IInv, TypeOK, Amounts
  <2> QED
    BY <1>1, <1>2, <2>1, GovernanceConstants DEF Pursues, At, HardStop, Within, Requests, Amounts
<1>3. CASE Over' /\ Over /\ ~Pursues(t)
  BY <1>2, <1>3 DEF IInv, StopOK
<1> QED
  BY <1>3 DEF StopOK

\* So are those that are about to resume it.
LEMMA DueOKStep ==
    ASSUME IInv, NEW t \in Threads, NEW q \in Requests, thread' = [thread EXCEPT ![t] = q],
           spent' \in Amounts, spent' >= spent,
           Held' => \/ Due'
                    \/ Releases(t)'
                    \/ Held /\ ~Releases(t) /\ policy' = policy
    PROVE  DueOK'
<1>1. /\ thread'[t] = q
      /\ \A u \in Threads : u # t => thread'[u] = thread[u]
  BY Moves DEF IInv
<1>0. spent \in Nat /\ spent' \in Nat /\ policy.amount \in Nat
  BY GovernanceConstants DEF IInv, TypeOK, Amounts
<1>2. ASSUME NEW u \in Threads, u # t, Releases(u), policy' = policy PROVE Due' \/ Releases(u)'
  <2>1. thread[u] \in Requests
    BY DEF IInv, TypeOK
  <2> QED
    BY <1>0, <1>1, <1>2, <2>1 DEF Releases, At, Within, Due, Requests
<1>3. CASE Held' /\ Held /\ ~Releases(t) /\ policy' = policy
  BY <1>0, <1>2, <1>3 DEF IInv, DueOK, Due
<1> QED
  BY <1>3 DEF DueOK


-----------------------------------------------------------------------------
(* The steps.                                                               *)

LEMMA IdleIsARequest == Idle \in Requests /\ Sound(Idle)
BY GovernanceConstants DEF Idle, Requests, Amounts, Approvals, NoRow, Sound

\* A step that moves one request, and nothing that the properties are about.
LEMMA QuietHeldStep ==
    ASSUME IInv, NEW t \in Threads, NEW q \in Requests, thread' = [thread EXCEPT ![t] = q],
           UNCHANGED <<agent, hires, approval, policy, incident, spent, month>>,
           past' \in Pasts, past'.stale = past.stale, past'.outdated = past.outdated,
           past'.crashed = past.crashed, past.excused => past'.excused,
           Sound(q), RowsHeld',
           q.at \in {"activate", "activating", "hired"} => InHire(t),
           thread[t].at \in {"activate", "activating"} =>
               \/ q.at \in {"activate", "activating"}
               \/ agent.status \notin {"none", "pending_approval"},
           Over' /\ Pursues(t) => Pursues(t)',
           Held /\ Releases(t) => Due \/ Releases(t)'
    PROVE  IInv'
<1>1. spent' \in Amounts /\ spent' >= spent
  BY GovernanceConstants DEF IInv, TypeOK, Amounts
<1>2. TypeOK'
  BY Moves DEF IInv, TypeOK, Pasts
<1>3. ThreadsOK'
  BY ThreadsOKStep
<1>4. NotYetHired'
  BY DEF IInv, NotYetHired
<1>5. HireOK'
  BY HireOKStep
<1>6. ActivationOK'
  BY ActivationOKStep
<1>7. StopOK'
  <2>1. Over' => Over
    BY DEF Over, IInv, TypeOK, Pasts
  <2>2. Standing("hard")' = Standing("hard")
    BY DEF Standing
  <2> QED
    BY <1>1, <2>1, <2>2, StopOKStep
<1>8. DueOK'
  <2>1. Held' => Held
    BY DEF Held
  <2>2. Due => Due'
    BY DEF Due
  <2> QED
    BY <1>1, <2>1, <2>2, DueOKStep
<1> QED
  BY <1>2, <1>3, <1>4, <1>5, <1>6, <1>7, <1>8 DEF IInv

\* The same, and the request holds no row.
LEMMA QuietStep ==
    ASSUME IInv, NEW t \in Threads, NEW q \in Requests, thread' = [thread EXCEPT ![t] = q],
           UNCHANGED <<agent, hires, approval, policy, incident, spent, month>>,
           UNCHANGED past \/ past' = [past EXCEPT !.requests = @ + 1],
           Sound(q), q.at \notin {"insertSoft", "insertHard"},
           q.at \in {"activate", "activating", "hired"} => InHire(t),
           thread[t].at \in {"activate", "activating"} =>
               \/ q.at \in {"activate", "activating"}
               \/ agent.status \notin {"none", "pending_approval"},
           Over /\ Pursues(t) => Pursues(t)',
           Held /\ Releases(t) => Due \/ Releases(t)'
    PROVE  IInv'
<1>0. /\ past'.excused = past.excused /\ past'.stale = past.stale
      /\ past'.outdated = past.outdated /\ past'.crashed = past.crashed /\ past' \in Pasts
  BY DEF IInv, TypeOK, Pasts
<1>1. \A u \in Threads \ {t} : Inserting(u) => incident[thread[u].id].type = "none"
  BY DEF IInv, RowsHeld
<1>2. RowsHeld'
  BY <1>1, RowsHeldStep
<1>3. Over' => Over
  BY <1>0 DEF Over
<1> QED
  BY <1>0, <1>2, <1>3, QuietHeldStep

\* A new request pursues nothing yet that another might not.
LEMMA FromIdle ==
    ASSUME NEW t \in Threads, At(t, "idle")
    PROVE  ~Pursues(t) /\ ~Releases(t) /\ ~InHire(t) /\ ~Inserting(t)
           /\ thread[t].at \notin {"activate", "activating"}
BY DEF At, Pursues, Releases, InHire, Inserting

\* Requests that begin by reading.
LEMMA BeginQuietStep ==
    ASSUME IInv, NEW t \in Threads, NEW q \in Requests, thread' = [thread EXCEPT ![t] = q],
           UNCHANGED <<agent, hires, approval, policy, incident, spent, month>>, At(t, "idle"),
           past' = [past EXCEPT !.requests = @ + 1], Sound(q),
           q.at \notin {"insertSoft", "insertHard", "activate", "activating", "hired"}
    PROVE  IInv'
BY FromIdle, QuietStep

LEMMA RaiseBudgetStep ==
    ASSUME IInv, NEW t \in Threads, NEW i \in Rows, NEW amount \in Amounts, RaiseBudget(t, i, amount)
    PROVE  IInv'
<1> DEFINE q == [Idle EXCEPT !.op = "raise", !.at = "raise", !.amount = amount, !.seen = spent, !.id = i]
<1>1. q \in Requests /\ q.at = "raise" /\ Sound(q)
  BY IdleIsARequest DEF RaiseBudget, Idle, Requests, Sound, IInv, TypeOK, Approvals
<1>2. thread' = [thread EXCEPT ![t] = q]
  BY DEF RaiseBudget
<1> HIDE DEF q
<1> QED
  BY <1>1, <1>2, BeginQuietStep DEF RaiseBudget

LEMMA DecideStep ==
    ASSUME IInv, NEW t \in Threads, NEW a \in Approvals, NEW to \in {"approved", "rejected"},
           Decide(t, a, to)
    PROVE  IInv'
<1> DEFINE q == [Idle EXCEPT !.op = "decide", !.at = "decide", !.id = a, !.to = to]
<1>1. q \in Requests /\ q.at = "decide" /\ Sound(q)
  BY IdleIsARequest DEF Idle, Requests, Sound
<1>2. thread' = [thread EXCEPT ![t] = q]
  BY DEF Decide
<1> HIDE DEF q
<1> QED
  BY <1>1, <1>2, BeginQuietStep DEF Decide

LEMMA SendBackStep ==
    ASSUME IInv, NEW t \in Threads, NEW a \in Approvals, SendBack(t, a)
    PROVE  IInv'
<1>1. ASSUME NEW op \in {"revision_requested", "pending"}, approval[a] # "none",
             Begin(t, op, "send", 0, a)
      PROVE  IInv'
  <2> DEFINE q == [Idle EXCEPT !.op = op, !.at = "send", !.amount = 0, !.id = a]
  <2>1. q \in Requests /\ q.at = "send" /\ Sound(q)
    BY <1>1, IdleIsARequest DEF Idle, Requests, Sound
  <2>2. thread' = [thread EXCEPT ![t] = q]
    BY <1>1 DEF Begin
  <2> HIDE DEF q
  <2> QED
    BY <1>1, <2>1, <2>2, BeginQuietStep DEF SendBack, Begin
<1> QED
  BY <1>1 DEF SendBack

LEMMA PressStep ==
    ASSUME IInv, NEW t \in Threads, NEW button \in {"pause", "resume", "terminate"}, Press(t, button)
    PROVE  IInv'
<1> DEFINE q == [Idle EXCEPT !.op = button, !.at = "write", !.amount = 0, !.id = NoRow]
<1>1. q \in Requests /\ q.at = "write" /\ Sound(q)
  BY IdleIsARequest DEF Idle, Requests, Sound
<1>2. thread' = [thread EXCEPT ![t] = q]
  BY DEF Press, Begin
<1> HIDE DEF q
<1> QED
  BY <1>1, <1>2, BeginQuietStep DEF Press, Begin

\* The cost pursues what it is over: the policy is read after the cost is
\* written, and what is spent after the policy.
LEMMA EvaluateCostEventStep ==
    ASSUME IInv, NEW t \in Threads, EvaluateCostEvent(t)
    PROVE  IInv'
<1>0. thread[t] \in Requests /\ Sound(thread[t]) /\ policy.amount \in Amounts /\ policy.active \in BOOLEAN
      /\ thread[t].at = "policy"
  BY DEF IInv, TypeOK, ThreadsOK, EvaluateCostEvent, At
<1>1. CASE policy.active /\ policy.amount > 0
  <2> DEFINE q == [thread[t] EXCEPT !.at = "observe", !.amount = policy.amount]
  <2>1. q \in Requests /\ q.at = "observe" /\ Sound(q) /\ q.amount = policy.amount
    BY <1>0 DEF Requests, Sound
  <2>2. thread' = [thread EXCEPT ![t] = q]
    BY <1>1 DEF EvaluateCostEvent
  <2> HIDE DEF q
  <2>3. thread'[t] = q
    BY <2>1, <2>2, Moves DEF IInv
  <2>4. Over => Pursues(t)'
    BY <2>1, <2>3 DEF Over, Pursues, At, EvaluateCostEvent
  <2>5. ~Releases(t) /\ ~InHire(t) /\ thread[t].at = "policy"
    BY DEF Releases, At, InHire, EvaluateCostEvent
  <2> QED
    BY <2>1, <2>2, <2>4, <2>5, QuietStep DEF EvaluateCostEvent
<1>2. CASE ~(policy.active /\ policy.amount > 0)
  <2>1. thread' = [thread EXCEPT ![t] = Idle]
    BY <1>2 DEF EvaluateCostEvent, Done
  <2>2. ~Over
    BY <1>2 DEF IInv, TypeOK, Over
  <2>3. ~Releases(t) /\ thread[t].at = "policy" /\ Idle.at = "idle"
    BY DEF Releases, At, EvaluateCostEvent, Idle
  <2> QED
    BY <2>1, <2>2, <2>3, IdleIsARequest, QuietStep DEF EvaluateCostEvent
<1> QED
  BY <1>1, <1>2

\* What is at the amount is at the soft threshold.
LEMMA SoftIsWithin ==
    ASSUME NEW amount \in Amounts
    PROVE  SoftThreshold(amount) <= amount
<1>1. amount \in Nat /\ WarnPercent \in Nat /\ WarnPercent <= 99
  BY GovernanceConstants DEF Amounts
<1>2. amount * WarnPercent \in Nat /\ amount * WarnPercent <= amount * 99
  BY <1>1
<1> DEFINE n == amount * WarnPercent
<1>3. n + 99 < 100 * (amount + 1) /\ n \in Nat
  BY <1>1, <1>2
<1> HIDE DEF n
<1>4. (n + 99) \div 100 <= amount
  BY <1>1, <1>3
<1> QED
  BY <1>4 DEF SoftThreshold, n

\* An edit or a cost that is over goes on to its thresholds.
LEMMA ReachedStep ==
    ASSUME IInv, NEW t \in Threads, thread[t].at \in {"observe", "edited"}, Reached(t),
           At(t, "edited") => ~Within(t),
           UNCHANGED <<agent, hires, approval, policy, incident, spent, month, past>>
    PROVE  IInv'
<1>0. thread[t] \in Requests /\ Sound(thread[t]) /\ spent \in Nat /\ spent \in Amounts /\ thread[t].amount \in Amounts
  BY GovernanceConstants DEF IInv, TypeOK, ThreadsOK, Amounts, Requests
<1>1. thread[t].amount \in Nat /\ SoftThreshold(thread[t].amount) <= thread[t].amount
      /\ SoftThreshold(thread[t].amount) \in Int
  BY <1>0, SoftIsWithin, GovernanceConstants DEF Amounts, SoftThreshold
<1>2. ~Releases(t) /\ ~InHire(t) /\ thread[t].at \notin {"activate", "activating"}
  BY DEF Releases, InHire, At
<1>3. CASE spent < SoftThreshold(thread[t].amount)
  <2>1. thread' = [thread EXCEPT ![t] = Idle] /\ Idle.at = "idle"
    BY <1>3 DEF Reached, Done, Idle
  <2>2. ~Pursues(t)
    BY <1>0, <1>1, <1>3 DEF Pursues, At, Within
  <2> QED
    BY <1>2, <2>1, <2>2, IdleIsARequest, QuietStep
<1>4. CASE ~(spent < SoftThreshold(thread[t].amount))
  <2> DEFINE q == [thread[t] EXCEPT !.at = "soft", !.seen = spent]
  <2>1. q \in Requests /\ q.at = "soft" /\ q.seen = spent /\ q.amount = thread[t].amount /\ Sound(q)
    BY <1>0 DEF Requests, Sound
  <2>2. thread' = [thread EXCEPT ![t] = q]
    BY <1>4 DEF Reached
  <2> HIDE DEF q
  <2>3. thread'[t] = q
    BY <2>1, <2>2, Moves DEF IInv
  <2>4. Pursues(t) => Pursues(t)'
    <3>1. Pursues(t) => spent >= thread[t].amount
      BY <1>0, <1>1 DEF Pursues, At, Within
    <3>2. spent >= thread[t].amount => HardStop(t)'
      BY <2>1, <2>3 DEF HardStop
    <3>3. thread'[t].at = "soft"
      BY <2>1, <2>3
    <3> QED
      BY <3>1, <3>2, <3>3 DEF Pursues
  <2> QED
    BY <1>2, <2>1, <2>2, <2>4, QuietStep
<1> QED
  BY <1>3, <1>4

LEMMA ComputeObservedAmountStep ==
    ASSUME IInv, NEW t \in Threads, ComputeObservedAmount(t)
    PROVE  IInv'
BY ReachedStep DEF ComputeObservedAmount, At

LEMMA UpsertObservesStep ==
    ASSUME IInv, NEW t \in Threads, UpsertObserves(t)
    PROVE  IInv'
<1>1. CASE ~Within(t)
  BY <1>1, ReachedStep DEF UpsertObserves, At
<1>2. CASE Within(t)
  <2>0. thread[t] \in Requests /\ Sound(thread[t]) /\ spent \in Amounts
    BY DEF IInv, TypeOK, ThreadsOK
  <2> DEFINE q == [thread[t] EXCEPT !.at = "resumeScope", !.seen = spent]
  <2>1. q \in Requests /\ q.at = "resumeScope" /\ Sound(q)
    BY <1>2, <2>0, ZenonT(40) DEF Requests, Sound, Within
  <2>2. thread' = [thread EXCEPT ![t] = q]
    BY <1>2 DEF UpsertObserves
  <2> HIDE DEF q
  <2>3. Pursues(t)' /\ Releases(t)'
    <3>1. thread'[t] = q
      BY <2>1, <2>2, Moves DEF IInv
    <3> QED
      BY <2>1, <3>1 DEF Pursues, Releases, At
  <2>4. thread[t].at = "edited"
    BY DEF UpsertObserves, At
  <2> QED
    BY <2>1, <2>2, <2>3, <2>4, QuietStep DEF UpsertObserves
<1> QED
  BY <1>1, <1>2

LEMMA ReadOpenIncidentsStep ==
    ASSUME IInv, NEW t \in Threads, ReadOpenIncidents(t)
    PROVE  IInv'
<1>0. thread[t] \in Requests /\ Sound(thread[t]) /\ OpenIncidents \in SUBSET Rows
      /\ thread[t].at = "resolve" /\ thread[t].op # "raise"
  BY DEF IInv, TypeOK, ThreadsOK, OpenIncidents, ReadOpenIncidents, At
<1> DEFINE q == [thread[t] EXCEPT !.at = "mark", !.rows = OpenIncidents]
<1>1. q \in Requests /\ q.at = "mark" /\ Sound(q)
  BY <1>0, ZenonT(40) DEF Requests, Sound
<1>2. thread' = [thread EXCEPT ![t] = q]
  BY DEF ReadOpenIncidents
<1> HIDE DEF q
<1>3. ~Pursues(t) /\ ~Releases(t)
  BY <1>0 DEF Pursues, Releases, At
<1> QED
  BY <1>0, <1>1, <1>2, <1>3, QuietStep DEF ReadOpenIncidents

LEMMA ActivatePendingApprovalStep ==
    ASSUME IInv, NEW t \in Threads, ActivatePendingApproval(t)
    PROVE  IInv'
<1>0. thread[t] \in Requests /\ Sound(thread[t]) /\ thread[t].at = "activate"
  BY DEF IInv, TypeOK, ThreadsOK, ActivatePendingApproval, At
<1>1. ~Pursues(t) /\ ~Releases(t) /\ InHire(t)
  BY <1>0 DEF Pursues, Releases, At, InHire
<1>2. ASSUME NEW at \in {"activating", "hired"}, thread' = [thread EXCEPT ![t].at = at],
             at = "hired" => agent.status \notin {"none", "pending_approval"}
      PROVE  IInv'
  <2> DEFINE q == [thread[t] EXCEPT !.at = at]
  <2>1. q \in Requests /\ q.at = at /\ Sound(q)
    BY <1>0 DEF Requests, Sound
  <2>2. thread' = [thread EXCEPT ![t] = q]
    BY <1>2
  <2> HIDE DEF q
  <2> QED
    BY <1>1, <1>2, <2>1, <2>2, QuietStep DEF ActivatePendingApproval
<1> QED
  BY <1>2 DEF ActivatePendingApproval, Goto

-----------------------------------------------------------------------------
(* The incidents.                                                           *)

LEMMA NextRowIsFree ==
    ASSUME FreeRows # {}
    PROVE  NextRow \in FreeRows
BY DEF NextRow

LEMMA LookForSoftStep ==
    ASSUME IInv, NEW t \in Threads, LookForSoft(t)
    PROVE  IInv'
<1>0. thread[t] \in Requests /\ Sound(thread[t]) /\ thread[t].at = "soft"
  BY DEF IInv, TypeOK, ThreadsOK, LookForSoft, At
<1>1. ~Releases(t) /\ ~InHire(t)
  BY <1>0 DEF Releases, At, InHire
<1>2. CASE Standing("soft") = {}
  <2>1. NextRow \in FreeRows /\ NextRow \in Rows
    BY <1>2, NextRowIsFree DEF LookForSoft, FreeRows
  <2> DEFINE q == [thread[t] EXCEPT !.at = "insertSoft", !.id = NextRow]
  <2>2. q \in Requests /\ q.at = "insertSoft" /\ q.id = NextRow /\ Sound(q)
        /\ q.seen = thread[t].seen /\ q.amount = thread[t].amount
    BY <1>0, <2>1, ZenonT(40) DEF Requests, Sound, Approvals
  <2>3. thread' = [thread EXCEPT ![t] = q]
    BY <1>2 DEF LookForSoft
  <2> HIDE DEF q
  <2>4. thread'[t] = q /\ \A u \in Threads : u # t => thread'[u] = thread[u]
    BY <2>2, <2>3, Moves DEF IInv
  <2>5. RowsHeld'
    <3>1. incident[NextRow].type = "none" /\ approval[NextRow] = "none"
          /\ \A u \in Threads : thread[u].id # NextRow
      BY <2>1 DEF FreeRows, NoIncident
    <3> QED
      BY <2>1, <2>2, <2>4, <3>1 DEF IInv, RowsHeld, At, Inserting, LookForSoft
  <2>6. Pursues(t) => Pursues(t)'
    BY <1>0, <2>2, <2>4 DEF Pursues, At, HardStop
  <2> QED
    BY <1>0, <1>1, <2>2, <2>3, <2>5, <2>6, QuietHeldStep DEF LookForSoft, IInv, TypeOK, Pasts
<1>3. CASE Standing("soft") # {} /\ HardStop(t)
  <2> DEFINE q == [thread[t] EXCEPT !.at = "hard"]
  <2>1. q \in Requests /\ q.at = "hard" /\ Sound(q)
    BY <1>0, <1>3 DEF Requests, Sound, HardStop
  <2>2. thread' = [thread EXCEPT ![t] = q]
    BY <1>3 DEF LookForSoft, Goto
  <2> HIDE DEF q
  <2>3. Pursues(t)'
    BY <2>1, <2>2, Moves DEF IInv, Pursues
  <2> QED
    BY <1>0, <1>1, <2>1, <2>2, <2>3, QuietStep DEF LookForSoft
<1>4. CASE Standing("soft") # {} /\ ~HardStop(t)
  <2>1. thread' = [thread EXCEPT ![t] = Idle] /\ Idle.at = "idle"
    BY <1>4 DEF LookForSoft, Goto, Done, Idle
  <2>2. ~Pursues(t)
    BY <1>0, <1>4 DEF Pursues, At
  <2> QED
    BY <1>0, <1>1, <2>1, <2>2, IdleIsARequest, QuietStep DEF LookForSoft
<1> QED
  BY <1>2, <1>3, <1>4

\* The insert of an incident: the row was the request's own, and what is there
\* of other requests stays.
LEMMA InsertedStep ==
    ASSUME IInv, NEW t \in Threads, NEW q \in Requests, thread' = [thread EXCEPT ![t] = q],
           NEW type \in {"soft", "hard"}, thread[t].at = (IF type = "soft" THEN "insertSoft" ELSE "insertHard"),
           incident' = [incident EXCEPT ![thread[t].id] = [type |-> type, month |-> month, status |-> "open"]],
           UNCHANGED <<agent, hires, approval, policy, spent, month, past>>,
           Sound(q), q.at \in {"idle", "hard", "pause"},
           Pursues(t) => q.at # "idle", type = "hard" => q.at = "pause"
    PROVE  IInv'
<1>0. thread[t].id \in Rows /\ Inserting(t) /\ incident[thread[t].id].type = "none"
      /\ (approval[thread[t].id] = "none" <=> type = "soft")
  BY DEF IInv, RowsHeld, Inserting, At
<1>1. /\ thread'[t] = q
      /\ \A u \in Threads : u # t => thread'[u] = thread[u]
  BY Moves DEF IInv
<1>2. TypeOK'
  <2>1. [type |-> type, month |-> month, status |-> "open"] \in Incidents
    BY GovernanceConstants DEF IInv, TypeOK, Incidents
  <2>2. incident' \in [Rows -> Incidents]
    BY <1>0, <2>1 DEF IInv, TypeOK
  <2>3. \A i \in Rows : incident'[i].type # "none" => (incident'[i].type = "hard" <=> approval[i] # "none")
    BY <1>0 DEF IInv, TypeOK
  <2> QED
    BY <1>0, <2>2, <2>3, Moves DEF IInv, TypeOK
<1>3. ThreadsOK'
  BY ThreadsOKStep
<1>4. RowsHeld'
  <2>1. \A u \in Threads \ {t} : Inserting(u) => incident'[thread[u].id].type = "none"
    BY <1>0 DEF IInv, RowsHeld, TypeOK
  <2> QED
    BY <2>1, RowsHeldStep
<1>5. NotYetHired'
  BY DEF IInv, NotYetHired
<1>6. HireOK'
  BY HireOKStep
<1>7. ActivationOK'
  BY ActivationOKStep
<1>8. spent' \in Amounts /\ spent' >= spent
  BY GovernanceConstants DEF IInv, TypeOK, Amounts
<1>9. StopOK'
  <2>1. CASE type = "hard"
    BY <1>1, <2>1 DEF StopOK, Pursues
  <2>2. CASE type = "soft"
    <3>1. Standing("hard")' = Standing("hard")
      BY <1>0, <2>2 DEF IInv, TypeOK, Standing
    <3>2. Over' => Over
      BY DEF Over
    <3>3. Pursues(t) => Pursues(t)'
      BY <1>1 DEF Pursues
    <3> QED
      BY <1>8, <3>1, <3>2, <3>3, StopOKStep
  <2> QED
    BY <2>1, <2>2
<1>10. DueOK'
  <2>1. ~Releases(t)
    BY DEF Releases, At
  <2>2. Held' => Held
    BY DEF Held
  <2> QED
    BY <1>8, <2>1, <2>2, DueOKStep
<1> QED
  BY <1>2, <1>3, <1>4, <1>5, <1>6, <1>7, <1>9, <1>10 DEF IInv

\* The insert that the index refused: another request has made the incident.
\* If it was the hard one that request stops the agent, and if it was the soft
\* one of a request that had more to do a property excuses it.
LEMMA RefusedStep ==
    ASSUME IInv, NEW t \in Threads, NEW type \in {"soft", "hard"},
           thread[t].at = (IF type = "soft" THEN "insertSoft" ELSE "insertHard"),
           Standing(type) # {}, Done(t),
           past' = [past EXCEPT !.excused = @ \/ (type = "soft" /\ HardStop(t))],
           UNCHANGED <<agent, hires, approval, policy, incident, spent, month>>
    PROVE  IInv'
<1>0. thread' = [thread EXCEPT ![t] = Idle] /\ Idle.at = "idle"
  BY DEF Done, Idle
<1>1. /\ past' \in Pasts /\ past'.stale = past.stale
      /\ past'.outdated = past.outdated /\ past'.crashed = past.crashed
  BY DEF IInv, TypeOK, Pasts
<1>2. /\ past.excused => past'.excused
      /\ type = "soft" /\ HardStop(t) => past'.excused
  BY DEF IInv, TypeOK
<1>3. Over' => ~Pursues(t)
  <2>1. CASE type = "soft"
    BY <1>2, <2>1 DEF Over, Pursues, At
  <2>2. CASE type = "hard"
    BY <2>2 DEF Pursues, At
  <2> QED
    BY <2>1, <2>2
<1>4. ~Releases(t) /\ ~InHire(t) /\ thread[t].at \notin {"activate", "activating"}
  BY DEF Releases, At, InHire
<1>5. \A u \in Threads \ {t} : Inserting(u) => incident[thread[u].id].type = "none"
  BY DEF IInv, RowsHeld
<1>6. RowsHeld'
  BY <1>0, <1>5, IdleIsARequest, RowsHeldStep
<1> QED
  BY <1>0, <1>1, <1>2, <1>3, <1>4, <1>6, IdleIsARequest, QuietHeldStep

LEMMA InsertSoftStep ==
    ASSUME IInv, NEW t \in Threads, InsertSoft(t)
    PROVE  IInv'
<1>0. thread[t] \in Requests /\ Sound(thread[t]) /\ thread[t].at = "insertSoft"
  BY DEF IInv, TypeOK, ThreadsOK, InsertSoft, At
<1>1. CASE Standing("soft") # {}
  BY <1>0, <1>1, RefusedStep DEF InsertSoft, Inserted
<1>2. CASE Standing("soft") = {} /\ HardStop(t)
  <2> DEFINE q == [thread[t] EXCEPT !.id = NoRow, !.at = "hard"]
  <2>1. q \in Requests /\ q.at = "hard" /\ Sound(q)
    <3>1. thread[t].op # "raise"
      BY <1>0 DEF Sound
    <3> QED
      BY <1>0, <1>2, <3>1 DEF Requests, Sound, HardStop, NoRow
  <2>2. thread' = [thread EXCEPT ![t] = q]
    BY <1>2 DEF InsertSoft, Inserted
  <2> HIDE DEF q
  <2> QED
    BY <1>0, <1>2, <2>1, <2>2, InsertedStep DEF InsertSoft, Inserted
<1>3. CASE Standing("soft") = {} /\ ~HardStop(t)
  <2>1. thread' = [thread EXCEPT ![t] = Idle] /\ Idle.at = "idle"
    BY <1>3 DEF InsertSoft, Inserted, Idle
  <2>2. ~Pursues(t)
    BY <1>0, <1>3 DEF Pursues, At
  <2> QED
    BY <1>0, <1>3, <2>1, <2>2, IdleIsARequest, InsertedStep DEF InsertSoft, Inserted
<1> QED
  BY <1>1, <1>2, <1>3

LEMMA InsertHardStep ==
    ASSUME IInv, NEW t \in Threads, InsertHard(t)
    PROVE  IInv'
<1>0. thread[t] \in Requests /\ Sound(thread[t]) /\ thread[t].at = "insertHard"
  BY DEF IInv, TypeOK, ThreadsOK, InsertHard, At
<1>1. CASE Standing("hard") # {}
  BY <1>0, <1>1, RefusedStep DEF InsertHard, Inserted
<1>2. CASE Standing("hard") = {}
  <2> DEFINE q == [thread[t] EXCEPT !.id = NoRow, !.at = "pause"]
  <2>1. q \in Requests /\ q.at = "pause" /\ Sound(q)
    <3>1. thread[t].op # "raise"
      BY <1>0 DEF Sound
    <3> QED
      BY <1>0, <3>1 DEF Requests, Sound, NoRow
  <2>2. thread' = [thread EXCEPT ![t] = q]
    BY <1>2 DEF InsertHard, Inserted
  <2> HIDE DEF q
  <2> QED
    BY <1>0, <1>2, <2>1, <2>2, InsertedStep DEF InsertHard, Inserted
<1> QED
  BY <1>1, <1>2

LEMMA LookForHardStep ==
    ASSUME IInv, NEW t \in Threads, LookForHard(t)
    PROVE  IInv'
<1>0. thread[t] \in Requests /\ Sound(thread[t]) /\ thread[t].at = "hard" /\ thread[t].op # "raise"
  BY DEF IInv, TypeOK, ThreadsOK, Sound, LookForHard, At
<1>1. /\ incident' \in [Rows -> Incidents]
      /\ \A i \in Rows : incident'[i].type = incident[i].type
      /\ \A i \in Rows : incident[i].type = "hard" => incident'[i] = incident[i]
  BY DEF IInv, TypeOK, Incidents, LookForHard
<1>2. Standing("hard")' = Standing("hard")
  BY <1>1 DEF Standing, LookForHard
<1>3. PICK q \in Requests :
        /\ thread' = [thread EXCEPT ![t] = q] /\ Sound(q) /\ q.at \in {"insertHard", "pause"}
        /\ q.at = "insertHard" => /\ Standing("hard") = {} /\ q.id = NextRow /\ NextRow \in FreeRows
                                  /\ approval' = [approval EXCEPT ![NextRow] = "pending"]
        /\ q.at = "pause" => UNCHANGED approval
  <2>1. CASE Standing("hard") = {}
    <3>1. NextRow \in FreeRows /\ NextRow \in Rows
      BY <2>1, NextRowIsFree DEF LookForHard, FreeRows
    <3> DEFINE q == [thread[t] EXCEPT !.at = "insertHard", !.id = NextRow]
    <3>2. q \in Requests /\ Sound(q) /\ q.at = "insertHard" /\ q.id = NextRow
      BY <1>0, <3>1 DEF Requests, Sound, Approvals
    <3>3. thread' = [thread EXCEPT ![t] = q] /\ approval' = [approval EXCEPT ![NextRow] = "pending"]
      BY <2>1 DEF LookForHard
    <3> HIDE DEF q
    <3> QED
      BY <2>1, <3>1, <3>2, <3>3
  <2>2. CASE Standing("hard") # {}
    <3> DEFINE q == [thread[t] EXCEPT !.at = "pause"]
    <3>1. q \in Requests /\ Sound(q) /\ q.at = "pause"
      BY <1>0 DEF Requests, Sound
    <3>2. thread' = [thread EXCEPT ![t] = q] /\ UNCHANGED approval
      BY <2>2 DEF LookForHard, Goto
    <3> HIDE DEF q
    <3> QED
      BY <3>1, <3>2
  <2> QED
    BY <2>1, <2>2
<1>4. /\ thread'[t] = q
      /\ \A u \in Threads : u # t => thread'[u] = thread[u]
  BY <1>3, Moves DEF IInv
<1>5. q.at = "insertHard" => /\ NextRow \in Rows /\ incident[NextRow].type = "none" /\ approval[NextRow] = "none"
                             /\ \A u \in Threads : thread[u].id # NextRow
  BY <1>3 DEF FreeRows, NoIncident
<1>6. Hire \notin Rows /\ Rows \subseteq Approvals
  BY DEF Hire, Rows, Approvals
<1>7. /\ approval' \in [Approvals -> {"none", "pending", "revision_requested", "approved", "rejected"}]
      /\ \A a \in Approvals : approval[a] # "none" => approval'[a] = approval[a]
      /\ approval'[Hire] = approval[Hire]
      /\ \A i \in Rows : approval'[i] # approval[i] => incident[i].type = "none"
  BY <1>3, <1>5, <1>6 DEF IInv, TypeOK, Approvals
<1>8. TypeOK'
  <2>1. \A i \in Rows : incident'[i].type # "none" => (incident'[i].type = "hard" <=> approval'[i] # "none")
    BY <1>1, <1>7 DEF IInv, TypeOK
  <2> QED
    BY <1>1, <1>3, <1>7, <2>1, Moves DEF IInv, TypeOK, LookForHard
<1>9. ThreadsOK'
  <2>1. \A a \in Approvals : approval[a] # "none" => approval'[a] # "none"
    BY <1>7
  <2> QED
    BY <1>3, <2>1, ThreadsOKStep
<1>10. RowsHeld'
  <2>1. CASE q.at = "pause"
    <3>1. \A u \in Threads \ {t} : Inserting(u) => incident'[thread[u].id].type = "none"
      BY <1>1 DEF IInv, RowsHeld
    <3> QED
      BY <1>3, <2>1, <3>1, RowsHeldStep
  <2>2. CASE q.at = "insertHard"
    <3>1. approval'[NextRow] = "pending" /\ \A i \in Rows : i # NextRow => approval'[i] = approval[i]
      BY <1>3, <1>5, <1>6, <2>2 DEF IInv, TypeOK
    <3>2. ASSUME NEW u \in Threads, Inserting(u)'
          PROVE  /\ thread'[u].id \in Rows /\ incident'[thread'[u].id].type = "none"
                 /\ approval'[thread'[u].id] = "none" <=> At(u, "insertSoft")'
      <4>1. CASE u = t
        BY <1>1, <1>3, <1>4, <1>5, <2>2, <3>1, <4>1 DEF At
      <4>2. CASE u # t
        BY <1>1, <1>4, <1>5, <2>2, <3>1, <3>2, <4>2 DEF IInv, RowsHeld, At, Inserting
      <4> QED
        BY <4>1, <4>2
    <3>3. \A u, v \in Threads : Inserting(u)' /\ Inserting(v)' /\ thread'[u].id = thread'[v].id => u = v
      BY <1>3, <1>4, <1>5, <2>2 DEF IInv, RowsHeld, Inserting
    <3> QED
      BY <3>2, <3>3 DEF RowsHeld
  <2> QED
    BY <1>3, <2>1, <2>2
<1>11. NotYetHired'
  BY DEF IInv, NotYetHired, LookForHard
<1>12. HireOK'
  BY <1>3, <1>7, HireOKStep DEF LookForHard
<1>13. ActivationOK'
  BY <1>0, <1>3, <1>7, ActivationOKStep DEF LookForHard
<1>14. spent' \in Amounts /\ spent' >= spent
  BY GovernanceConstants DEF IInv, TypeOK, Amounts, LookForHard
<1>15. StopOK'
  <2>1. Pursues(t)'
    BY <1>2, <1>3, <1>4 DEF Pursues, At
  <2> QED
    BY <2>1 DEF StopOK
<1>16. DueOK'
  <2>1. ~Releases(t)
    BY <1>0 DEF Releases, At
  <2>2. Held' => Held
    BY DEF Held, LookForHard
  <2>3. policy' = policy
    BY DEF LookForHard
  <2> QED
    BY <1>3, <1>14, <2>1, <2>2, <2>3, DueOKStep
<1> QED
  BY <1>8, <1>9, <1>10, <1>11, <1>12, <1>13, <1>15, <1>16 DEF IInv

\* The pause: from what was spent and the amount that the request knows, which
\* are those of the policy unless a property excuses it.
LEMMA PauseScopeForBudgetStep ==
    ASSUME IInv, NEW t \in Threads, PauseScopeForBudget(t)
    PROVE  IInv'
<1>0. thread[t] \in Requests /\ Sound(thread[t]) /\ thread[t].at = "pause"
      /\ spent \in Amounts /\ policy \in [amount : Amounts, active : BOOLEAN] /\ past \in Pasts
      /\ (policy.active => policy.amount > 0)
  BY DEF IInv, TypeOK, ThreadsOK, PauseScopeForBudget, At, Pasts
<1>1. thread' = [thread EXCEPT ![t] = Idle] /\ Idle.at = "idle" /\ Idle.op = "none"
  BY DEF PauseScopeForBudget, Done, Idle
<1>2. /\ agent' \in Agents /\ agent'.status # "active"
      /\ agent'.status \in {"none", "pending_approval"} => agent' = agent
      /\ agent' # agent => agent'.status = "paused"
  BY DEF IInv, TypeOK, PauseScopeForBudget, Agents, Paused
<1>3. /\ past' \in Pasts /\ past'.stale = past.stale /\ past'.excused = past.excused /\ past'.crashed = past.crashed
  BY <1>0 DEF PauseScopeForBudget, Pasts
<1>4. TypeOK'
  BY <1>1, <1>2, <1>3, IdleIsARequest, Moves DEF IInv, TypeOK, Pasts, PauseScopeForBudget
<1>5. ThreadsOK'
  BY <1>1, IdleIsARequest, ThreadsOKStep DEF PauseScopeForBudget
<1>6. RowsHeld'
  <2>1. \A u \in Threads \ {t} : Inserting(u) => incident'[thread[u].id].type = "none"
    BY DEF IInv, RowsHeld, PauseScopeForBudget
  <2> QED
    BY <1>1, <2>1, IdleIsARequest, RowsHeldStep DEF PauseScopeForBudget
<1>7. NotYetHired'
  BY <1>2 DEF IInv, NotYetHired, PauseScopeForBudget
<1>8. HireOK'
  BY <1>1, <1>3, IdleIsARequest, HireOKStep DEF PauseScopeForBudget
<1>9. ActivationOK'
  BY <1>0, <1>1, <1>2, <1>3, IdleIsARequest, ActivationOKStep DEF PauseScopeForBudget
<1>10. StopOK'
  BY <1>2 DEF StopOK, Over
<1>11. DueOK'
  <2>1. CASE agent.status = "active"
    <3>1. ~past'.outdated => policy.active /\ thread[t].amount = policy.amount /\ ~(thread[t].seen > spent)
      BY <1>0, <2>1 DEF PauseScopeForBudget, Pasts
    <3>2. policy'.amount = policy.amount /\ spent' = spent
      BY DEF PauseScopeForBudget
    <3>3. thread[t].seen >= thread[t].amount /\ thread[t].seen \in Nat /\ spent \in Nat /\ policy.amount \in Nat
      BY <1>0, GovernanceConstants DEF Sound, Requests, Amounts
    <3>4. ~past'.outdated => Due'
      BY <1>0, <3>1, <3>2, <3>3 DEF Due
    <3> QED
      BY <3>4 DEF DueOK, Held
  <2>2. CASE agent.status # "active"
    <3>1. UNCHANGED <<agent, past, policy, spent>>
      BY <2>2 DEF PauseScopeForBudget
    <3>2. ~Releases(t) /\ (Held' => Held)
      BY <1>0, <3>1 DEF Releases, At, Held
    <3>3. spent' \in Amounts /\ spent' >= spent
      BY <1>0, <3>1, GovernanceConstants DEF Amounts
    <3> QED
      BY <1>1, <3>1, <3>2, <3>3, IdleIsARequest, DueOKStep
  <2> QED
    BY <2>1, <2>2
<1> QED
  BY <1>4, <1>5, <1>6, <1>7, <1>8, <1>9, <1>10, <1>11 DEF IInv

-----------------------------------------------------------------------------
(* The policy.                                                              *)

\* What writes the policy looks at what is spent after it, or has looked and
\* is about to resume the agent.
LEMMA WrittenStep ==
    ASSUME IInv, NEW t \in Threads, NEW q \in Requests, thread' = [thread EXCEPT ![t] = q],
           NEW amount \in Amounts, NEW active \in BOOLEAN, Written(amount, active),
           UNCHANGED <<agent, approval, incident, spent, month>>,
           \/ UNCHANGED hires
           \/ HireOK' /\ hires' \in Nat,
           UNCHANGED past \/ past' = [past EXCEPT !.requests = @ + 1],
           \/ q.at = "edited" /\ q.amount = amount
           \/ q.at = "resumeScope",
           Sound(q), thread[t].at \notin {"activate", "activating"}
    PROVE  IInv'
<1>0. /\ past' \in Pasts /\ past'.stale = past.stale /\ past'.excused = past.excused
      /\ past'.outdated = past.outdated /\ past'.crashed = past.crashed
  BY DEF IInv, TypeOK, Pasts
<1>1. /\ policy' \in [amount : Amounts, active : BOOLEAN] /\ policy'.amount = amount
      /\ policy'.active => amount > 0
      /\ amount \in Nat /\ spent \in Nat /\ spent \in Amounts /\ spent' = spent
  <2>1. amount \in Nat /\ spent \in Nat /\ spent \in Amounts /\ spent' = spent
    BY GovernanceConstants DEF Amounts, IInv, TypeOK
  <2>2. policy' = [amount |-> amount, active |-> amount > 0 /\ active]
    BY DEF Written
  <2>3. /\ policy' \in [amount : Amounts, active : BOOLEAN]
        /\ policy'.amount = amount
    BY <2>2
  <2>4. policy'.active => amount > 0
    BY <2>2
  <2> QED
    BY <2>1, <2>3, <2>4
<1>2. thread'[t] = q
  BY Moves DEF IInv
<1>3. TypeOK'
  BY <1>0, <1>1, Moves DEF IInv, TypeOK, Pasts
<1>4. ThreadsOK'
  BY ThreadsOKStep
<1>5. RowsHeld'
  <2>1. \A u \in Threads \ {t} : Inserting(u) => incident[thread[u].id].type = "none"
    BY DEF IInv, RowsHeld
  <2> QED
    BY <2>1, RowsHeldStep
<1>6. NotYetHired'
  BY DEF IInv, NotYetHired
<1>7. HireOK'
  BY <1>0, HireOKStep
<1>8. ActivationOK'
  BY <1>0, ActivationOKStep
<1>9. StopOK'
  <2>1. Over' => Pursues(t)'
    BY <1>1, <1>2 DEF Over, Pursues, At, Within
  <2> QED
    BY <2>1 DEF StopOK
<1>10. DueOK'
  <2>1. Due' \/ Releases(t)'
    BY <1>1, <1>2 DEF Due, Releases, At, Within
  <2> QED
    BY <2>1 DEF DueOK
<1> QED
  BY <1>3, <1>4, <1>5, <1>6, <1>7, <1>8, <1>9, <1>10 DEF IInv

LEMMA UpsertPolicyStep ==
    ASSUME IInv, NEW t \in Threads, NEW amount \in Amounts, NEW active \in BOOLEAN,
           UpsertPolicy(t, amount, active)
    PROVE  IInv'
<1> DEFINE q == [Idle EXCEPT !.op = "edit", !.at = "edited", !.amount = amount, !.id = NoRow]
<1>1. q \in Requests /\ q.at = "edited" /\ q.amount = amount /\ Sound(q)
  BY IdleIsARequest DEF Idle, Requests, Sound
<1>2. thread' = [thread EXCEPT ![t] = q] /\ thread[t].at = "idle"
  BY DEF UpsertPolicy, Begin, At
<1>3. Written(amount, active) /\ past' = [past EXCEPT !.requests = @ + 1]
  BY DEF UpsertPolicy, Begin
<1>4. UNCHANGED <<agent, hires, approval, incident, spent, month>>
  BY DEF UpsertPolicy
<1> HIDE DEF q
<1> QED
  BY <1>1, <1>2, <1>3, <1>4, WrittenStep

LEMMA RaiseWritesStep ==
    ASSUME IInv, NEW t \in Threads, RaiseWrites(t)
    PROVE  IInv'
<1>0. thread[t] \in Requests /\ Sound(thread[t]) /\ thread[t].at = "raise"
  BY DEF IInv, TypeOK, ThreadsOK, RaiseWrites, At
<1> DEFINE q == [thread[t] EXCEPT !.at = "resumeScope"]
<1>1. q \in Requests /\ q.at = "resumeScope" /\ Sound(q)
  BY <1>0 DEF Requests, Sound
<1>2. thread' = [thread EXCEPT ![t] = q]
  BY DEF RaiseWrites, Goto
<1>3. thread[t].amount \in Amounts
  BY <1>0 DEF Requests
<1> HIDE DEF q
<1> QED
  BY <1>0, <1>1, <1>2, <1>3, WrittenStep DEF RaiseWrites

\* The cost is in the table when the policy is read.
LEMMA CreateEventStep ==
    ASSUME IInv, NEW t \in Threads, CreateEvent(t)
    PROVE  IInv'
<1> DEFINE q == [Idle EXCEPT !.op = "cost", !.at = "policy", !.amount = 0, !.id = NoRow]
<1>1. q \in Requests /\ q.at = "policy" /\ Sound(q)
  BY IdleIsARequest DEF Idle, Requests, Sound
<1>2. thread' = [thread EXCEPT ![t] = q] /\ thread[t].at = "idle"
      /\ past' = [past EXCEPT !.requests = @ + 1]
      /\ UNCHANGED <<agent, hires, approval, policy, incident, month>>
  BY DEF CreateEvent, Begin, At
<1> HIDE DEF q
<1>0. /\ past' \in Pasts /\ past'.stale = past.stale /\ past'.excused = past.excused
      /\ past'.outdated = past.outdated /\ past'.crashed = past.crashed
  BY <1>2 DEF IInv, TypeOK, Pasts
<1>3. spent' \in Amounts /\ spent' >= spent /\ spent \in Nat /\ spent' \in Nat
  BY GovernanceConstants DEF IInv, TypeOK, Amounts, CreateEvent
<1>4. thread'[t] = q
  BY <1>1, <1>2, Moves DEF IInv
<1>5. TypeOK'
  BY <1>0, <1>1, <1>2, <1>3, Moves DEF IInv, TypeOK, Pasts
<1>6. ThreadsOK'
  BY <1>1, <1>2, ThreadsOKStep
<1>7. RowsHeld'
  <2>1. \A u \in Threads \ {t} : Inserting(u) => incident[thread[u].id].type = "none"
    BY DEF IInv, RowsHeld
  <2> QED
    BY <1>1, <1>2, <2>1, RowsHeldStep
<1>8. NotYetHired'
  BY <1>2 DEF IInv, NotYetHired, CreateEvent
<1>9. HireOK'
  BY <1>0, <1>1, <1>2, HireOKStep
<1>10. ActivationOK'
  BY <1>0, <1>1, <1>2, ActivationOKStep
<1>11. StopOK'
  BY <1>1, <1>4 DEF StopOK, Pursues
<1>12. DueOK'
  <2>1. ~Releases(t) /\ (Held' => Held)
    BY <1>0, <1>2 DEF Releases, At, Held
  <2> QED
    BY <1>1, <1>2, <1>3, <2>1, DueOKStep
<1> QED
  BY <1>5, <1>6, <1>7, <1>8, <1>9, <1>10, <1>11, <1>12 DEF IInv

\* The end of an edit.  Either what it looked at is what there is, and then
\* the agent is within its budget, or a property excuses it.
LEMMA ResumeScopeFromBudgetStep ==
    ASSUME IInv, NEW t \in Threads, ResumeScopeFromBudget(t)
    PROVE  IInv'
<1>0. thread[t] \in Requests /\ Sound(thread[t]) /\ thread[t].at = "resumeScope"
      /\ spent \in Amounts /\ policy \in [amount : Amounts, active : BOOLEAN] /\ past \in Pasts
      /\ (policy.active => policy.amount > 0)
  BY DEF IInv, TypeOK, ThreadsOK, ResumeScopeFromBudget, At, Pasts
<1> DEFINE q == [thread[t] EXCEPT !.at = "resolve"]
<1>1. q \in Requests /\ q.at = "resolve" /\ Sound(q)
  BY <1>0 DEF Requests, Sound
<1>2. thread' = [thread EXCEPT ![t] = q]
  BY DEF ResumeScopeFromBudget
<1> HIDE DEF q
<1>3. /\ past' \in Pasts /\ past'.stale = past.stale
      /\ past'.outdated = past.outdated /\ past'.crashed = past.crashed
      /\ past.excused => past'.excused
      /\ ~past'.excused => thread[t].seen = spent /\ thread[t].amount = policy.amount
  BY <1>0 DEF ResumeScopeFromBudget, Pasts
<1>4. /\ agent' \in Agents /\ agent'.reason # "budget"
      /\ agent'.status \in {"none", "pending_approval"} => agent' = agent
  BY DEF IInv, TypeOK, ResumeScopeFromBudget, Agents, Active, BudgetHolds
<1>5. TypeOK'
  BY <1>1, <1>2, <1>3, <1>4, Moves DEF IInv, TypeOK, Pasts, ResumeScopeFromBudget
<1>6. ThreadsOK'
  BY <1>1, <1>2, ThreadsOKStep DEF ResumeScopeFromBudget
<1>7. RowsHeld'
  <2>1. \A u \in Threads \ {t} : Inserting(u) => incident'[thread[u].id].type = "none"
    BY DEF IInv, RowsHeld, ResumeScopeFromBudget
  <2> QED
    BY <1>1, <1>2, <2>1, RowsHeldStep DEF ResumeScopeFromBudget
<1>8. NotYetHired'
  BY <1>4 DEF IInv, NotYetHired, ResumeScopeFromBudget
<1>9. HireOK'
  BY <1>1, <1>2, <1>3, HireOKStep DEF ResumeScopeFromBudget
<1>10. ActivationOK'
  <2>1. approval' = approval
    BY DEF ResumeScopeFromBudget
  <2> QED
    BY <1>0, <1>1, <1>2, <1>3, <1>4, <2>1, ActivationOKStep
<1>11. StopOK'
  <2>1. thread[t].seen \in Nat /\ thread[t].amount \in Nat /\ spent \in Nat /\ policy.amount \in Nat
    BY <1>0, GovernanceConstants DEF Requests, Amounts
  <2>2. ASSUME ~past'.excused, policy.active PROVE spent < policy.amount
    BY <1>0, <1>3, <2>1, <2>2 DEF Sound
  <2>3. ~Over'
    BY <2>1, <2>2 DEF Over, ResumeScopeFromBudget
  <2> QED
    BY <2>3 DEF StopOK
<1>12. DueOK'
  BY <1>4 DEF DueOK, Held
<1> QED
  BY <1>5, <1>6, <1>7, <1>8, <1>9, <1>10, <1>11, <1>12 DEF IInv

-----------------------------------------------------------------------------
(* The decisions.                                                           *)

\* What decides about incidents decides about the approvals made for them,
\* never about the hire.
LEMMA MarkedStep ==
    ASSUME IInv, NEW t \in Threads, NEW q \in Requests, thread' = [thread EXCEPT ![t] = q],
           NEW I \in SUBSET Rows, NEW status \in {"approved", "rejected"}, approval' = Marked(I, status),
           incident' \in [Rows -> Incidents], \A i \in Rows : incident'[i].type = incident[i].type,
           Standing("hard")' \subseteq Standing("hard"),
           UNCHANGED <<agent, hires, policy, spent, month>>,
           UNCHANGED past \/ past' = [past EXCEPT !.requests = @ + 1],
           thread[t].at \in {"idle", "mark", "resolve"}, q.at = "idle", Sound(q)
    PROVE  IInv'
<1>0. /\ past' \in Pasts /\ past'.stale = past.stale /\ past'.excused = past.excused
      /\ past'.outdated = past.outdated /\ past'.crashed = past.crashed
  BY DEF IInv, TypeOK, Pasts
<1>1. Hire \notin I /\ Rows \subseteq Approvals /\ Hire \in Approvals
  BY DEF Hire, Rows, Approvals
<1>2. /\ approval' \in [Approvals -> {"none", "pending", "revision_requested", "approved", "rejected"}]
      /\ \A a \in Approvals : approval'[a] = "none" <=> approval[a] = "none"
      /\ approval'[Hire] = approval[Hire]
  BY <1>1 DEF Marked, IInv, TypeOK
<1>3. spent' \in Amounts /\ spent' >= spent
  BY GovernanceConstants DEF IInv, TypeOK, Amounts
<1>4. TypeOK'
  <2>1. \A i \in Rows : incident'[i].type # "none" => (incident'[i].type = "hard" <=> approval'[i] # "none")
    BY <1>1, <1>2 DEF IInv, TypeOK
  <2> QED
    BY <1>0, <1>2, <2>1, Moves DEF IInv, TypeOK, Pasts
<1>5. ThreadsOK'
  BY <1>2, ThreadsOKStep
<1>6. RowsHeld'
  <2>1. \A u \in Threads \ {t} : Inserting(u) => 
               /\ incident'[thread[u].id].type = "none"
               /\ approval'[thread[u].id] = "none" <=> approval[thread[u].id] = "none"
    BY <1>1, <1>2 DEF IInv, RowsHeld
  <2> QED
    BY <2>1, RowsHeldStep
<1>7. NotYetHired'
  BY DEF IInv, NotYetHired
<1>8. HireOK'
  BY <1>0, <1>2, HireOKStep
<1>9. ActivationOK'
  BY <1>0, <1>2, ActivationOKStep
<1>10. StopOK'
  <2>1. Over' => Over /\ ~Pursues(t)
    BY <1>0 DEF Over, Pursues, At
  <2>2. Standing("hard") = {} => Standing("hard")' = {}
    OBVIOUS
  <2> HIDE DEF Standing
  <2> QED
    BY <1>3, <2>1, <2>2, StopOKStep
<1>11. DueOK'
  <2>1. ~Releases(t) /\ (Held' => Held)
    BY <1>0 DEF Releases, At, Held
  <2> QED
    BY <1>3, <2>1, DueOKStep
<1> QED
  BY <1>4, <1>5, <1>6, <1>7, <1>8, <1>9, <1>10, <1>11 DEF IInv

LEMMA ResolveOpenIncidentsStep ==
    ASSUME IInv, NEW t \in Threads, ResolveOpenIncidents(t)
    PROVE  IInv'
<1>0. thread[t] \in Requests /\ Sound(thread[t]) /\ thread[t].at \in {"mark", "resolve"}
  BY DEF IInv, TypeOK, ThreadsOK, ResolveOpenIncidents, At
<1>1. PICK I \in SUBSET Rows : approval' = Marked(I, "approved")
  <2>1. CASE At(t, "mark") /\ approval' = Marked(thread[t].rows, "approved")
    BY <1>0, <2>1 DEF Requests
  <2>2. CASE thread[t].op = "raise" /\ approval' = Marked({thread[t].id}, "approved")
    BY <1>0, <2>2 DEF Sound
  <2> QED
    BY <2>1, <2>2 DEF ResolveOpenIncidents
<1>2. thread' = [thread EXCEPT ![t] = Idle] /\ Idle.at = "idle"
  BY DEF ResolveOpenIncidents, Done, Idle
<1>3. /\ incident' \in [Rows -> Incidents] /\ \A i \in Rows : incident'[i].type = incident[i].type
      /\ \A i \in Rows : incident'[i].month = incident[i].month
      /\ \A i \in Rows : incident[i].status = "dismissed" => incident'[i].status = "dismissed"
  BY DEF IInv, TypeOK, Incidents, ResolveOpenIncidents, Resolved, OpenIncidents
<1>4. Standing("hard")' \subseteq Standing("hard")
  BY <1>3 DEF Standing, ResolveOpenIncidents
<1> QED
  BY <1>0, <1>1, <1>2, <1>3, <1>4, IdleIsARequest, MarkedStep DEF ResolveOpenIncidents

LEMMA KeepPausedStep ==
    ASSUME IInv, NEW t \in Threads, NEW i \in Rows, KeepPaused(t, i)
    PROVE  IInv'
<1> DEFINE q == [Idle EXCEPT !.op = "keep", !.at = "idle", !.amount = 0, !.id = NoRow]
<1>1. q \in Requests /\ q.at = "idle" /\ Sound(q)
  BY IdleIsARequest DEF Idle, Requests, Sound
<1>2. thread' = [thread EXCEPT ![t] = q] /\ thread[t].at = "idle" /\ past' = [past EXCEPT !.requests = @ + 1]
  BY DEF KeepPaused, Begin, At
<1> HIDE DEF q
<1>3. /\ incident' \in [Rows -> Incidents] /\ \A j \in Rows : incident'[j].type = incident[j].type
      /\ \A j \in Rows : incident'[j].month = incident[j].month
      /\ \A j \in Rows : incident[j].status = "dismissed" => incident'[j].status = "dismissed"
  BY DEF IInv, TypeOK, Incidents, KeepPaused
<1>4. Standing("hard")' \subseteq Standing("hard")
  BY <1>3 DEF Standing, KeepPaused
<1>5. {i} \in SUBSET Rows /\ approval' = Marked({i}, "rejected")
  BY DEF KeepPaused
<1> QED
  BY <1>1, <1>2, <1>3, <1>4, <1>5, MarkedStep DEF KeepPaused

\* The write of a decision that may still be taken.  Nobody carries out the
\* hire then, and nobody has.
LEMMA DecidedStep ==
    ASSUME IInv, NEW t \in Threads, Decided(t)
    PROVE  IInv'
<1>0. thread[t] \in Requests /\ Sound(thread[t]) /\ thread[t].at = "decide"
      /\ thread[t].id \in Approvals /\ thread[t].to \in {"approved", "rejected"}
  BY DEF IInv, TypeOK, ThreadsOK, Sound, Decided, At, Requests
<1>1. CASE ~Resolvable(t)
  <2>1. thread' = [thread EXCEPT ![t] = Idle] /\ Idle.at = "idle" /\ UNCHANGED approval
    BY <1>1 DEF Decided, Done, Idle
  <2>2. ~Pursues(t) /\ ~Releases(t)
    BY <1>0 DEF Pursues, Releases, At
  <2> QED
    BY <1>0, <2>1, <2>2, IdleIsARequest, QuietStep DEF Decided
<1>2. CASE Resolvable(t)
  <2> DEFINE a  == thread[t].id
             to == thread[t].to
  <2>1. approval' = [approval EXCEPT ![a] = to] /\ approval[a] \in {"pending", "revision_requested"}
        /\ UNCHANGED <<agent, hires, policy, incident, spent, month, past>>
    BY <1>2 DEF Decided, Resolvable, canResolveStatuses
  <2>2. /\ approval' \in [Approvals -> {"none", "pending", "revision_requested", "approved", "rejected"}]
        /\ \A b \in Approvals : approval'[b] = "none" <=> approval[b] = "none"
        /\ approval'[a] = to /\ \A b \in Approvals : b # a => approval'[b] = approval[b]
    BY <1>0, <2>1 DEF IInv, TypeOK
  <2>3. PICK q \in Requests :
          /\ thread' = [thread EXCEPT ![t] = q] /\ Sound(q)
          /\ a = Hire /\ to = "approved" => q.at = "activate"
          /\ ~(a = Hire /\ to = "approved") => q.at \in {"idle", "terminate"}
    <3>1. CASE a = Hire
      <4> DEFINE q == [thread[t] EXCEPT !.at = IF to = "rejected" THEN "terminate" ELSE "activate"]
      <4>1. q \in Requests /\ q.at = (IF to = "rejected" THEN "terminate" ELSE "activate") /\ Sound(q)
        BY <1>0 DEF Requests, Sound
      <4>2. thread' = [thread EXCEPT ![t] = q]
        BY <1>2, <3>1 DEF Decided, CarriedOut, Goto
      <4> HIDE DEF q
      <4> QED
        BY <1>0, <3>1, <4>1, <4>2
    <3>2. CASE a # Hire
      <4>1. thread' = [thread EXCEPT ![t] = Idle] /\ Idle.at = "idle"
        BY <1>2, <3>2 DEF Decided, CarriedOut, Done, Idle
      <4> QED
        BY <3>2, <4>1, IdleIsARequest
    <3> QED
      BY <3>1, <3>2
  <2> HIDE DEF a, to
  <2>4. /\ thread'[t] = q
        /\ \A u \in Threads : u # t => thread'[u] = thread[u]
    BY <2>3, Moves DEF IInv
  <2>5. Rows \subseteq Approvals /\ Hire \in Approvals /\ Hire \notin Rows
    BY DEF Hire, Rows, Approvals
  <2>6. spent' \in Amounts /\ spent' >= spent
    BY <2>1, GovernanceConstants DEF IInv, TypeOK, Amounts
  <2>7. TypeOK'
    <3>1. \A i \in Rows : incident'[i].type # "none" => (incident'[i].type = "hard" <=> approval'[i] # "none")
      BY <2>1, <2>2, <2>5 DEF IInv, TypeOK
    <3> QED
      BY <2>1, <2>2, <2>3, <3>1, Moves DEF IInv, TypeOK
  <2>8. ThreadsOK'
    BY <2>2, <2>3, ThreadsOKStep
  <2>9. RowsHeld'
    <3>1. \A u \in Threads \ {t} : Inserting(u) => 
               /\ incident'[thread[u].id].type = "none"
               /\ approval'[thread[u].id] = "none" <=> approval[thread[u].id] = "none"
      BY <2>1, <2>2, <2>5 DEF IInv, RowsHeld
    <3> QED
      BY <2>3, <3>1, RowsHeldStep
  <2>10. NotYetHired'
    BY <2>1 DEF IInv, NotYetHired
  <2>11. HireOK'
    <3>1. CASE a # Hire
      <4>1. approval'[Hire] = approval[Hire] /\ hires' = hires /\ past'.stale = past.stale
        BY <2>1, <2>2, <2>5, <3>1
      <4> QED
        BY <2>3, <3>1, <4>1, HireOKStep
    <3>2. CASE a = Hire
      <4>1. ~past.stale => hires = 0 /\ \A u \in Threads : ~InHire(u)
        BY <2>1, <3>2 DEF IInv, TypeOK, HireOK
      <4>2. ~past.stale => \A u \in Threads : InHire(u)' => u = t
        BY <2>4, <4>1 DEF InHire
      <4>3. InHire(t)' => approval'[Hire] = "approved"
        BY <1>0, <2>2, <2>3, <2>4, <3>2 DEF InHire, to
      <4> QED
        BY <2>1, <4>1, <4>2, <4>3 DEF HireOK
    <3> QED
      BY <3>1, <3>2
  <2>12. ActivationOK'
    <3>1. CASE a = Hire
      <4>1. approval'[Hire] = "approved" => q.at = "activate"
        BY <2>2, <2>3, <3>1
      <4> QED
        BY <2>4, <4>1 DEF ActivationOK, At
    <3>2. CASE a # Hire
      BY <1>0, <2>1, <2>2, <2>3, <2>5, <3>2, ActivationOKStep
    <3> QED
      BY <3>1, <3>2
  <2>13. StopOK'
    <3>1. Over' => Over /\ ~Pursues(t)
      BY <1>0, <2>1 DEF Over, Pursues, At
    <3>2. Standing("hard") = {} => Standing("hard")' = {}
      BY <2>1 DEF Standing
    <3> QED
      BY <2>3, <2>6, <3>1, <3>2, StopOKStep
  <2>14. DueOK'
    <3>1. ~Releases(t) /\ (Held' => Held)
      BY <1>0, <2>1 DEF Releases, At, Held
    <3> QED
      BY <2>1, <2>3, <2>6, <3>1, DueOKStep
  <2> QED
    BY <2>7, <2>8, <2>9, <2>10, <2>11, <2>12, <2>13, <2>14 DEF IInv
<1> QED
  BY <1>1, <1>2

\* The agent is there.  When the write undoes a pause or a termination a
\* property excuses it.
LEMMA ActivatedStep ==
    ASSUME IInv, NEW t \in Threads, Activated(t)
    PROVE  IInv'
<1>0. thread[t] \in Requests /\ Sound(thread[t]) /\ thread[t].at \in {"activate", "activating"}
      /\ past \in Pasts /\ agent \in Agents
  BY DEF IInv, TypeOK, ThreadsOK, Activated, At, Pasts
<1> DEFINE q == [thread[t] EXCEPT !.at = "hired"]
<1>1. q \in Requests /\ q.at = "hired" /\ Sound(q)
  BY <1>0 DEF Requests, Sound
<1>2. thread' = [thread EXCEPT ![t] = q] /\ UNCHANGED <<hires, approval, policy, incident, spent, month>>
  BY DEF Activated, Goto
<1> HIDE DEF q
<1>3. /\ past' \in Pasts /\ past'.stale = past.stale
      /\ past'.outdated = past.outdated /\ past'.crashed = past.crashed
      /\ past.excused => past'.excused
      /\ ~past'.excused => agent.status \in {"none", "pending_approval"}
  BY <1>0 DEF Activated, Pasts
<1>4. /\ agent' \in Agents /\ agent'.status = "active"
      /\ agent'.reason # "none" => agent'.reason = agent.reason
  BY <1>0 DEF Activated, Agents, Active
<1>5. ~past'.excused => agent.reason = "none" /\ spent = 0
  BY <1>3 DEF IInv, NotYetHired
<1>6. TypeOK'
  BY <1>1, <1>2, <1>3, <1>4, <1>5, Moves DEF IInv, TypeOK, Pasts
<1>7. ThreadsOK'
  BY <1>1, <1>2, ThreadsOKStep
<1>8. RowsHeld'
  <2>1. \A u \in Threads \ {t} : Inserting(u) => incident'[thread[u].id].type = "none"
    BY <1>2 DEF IInv, RowsHeld
  <2> QED
    BY <1>1, <1>2, <2>1, RowsHeldStep
<1>9. NotYetHired'
  BY <1>4 DEF NotYetHired
<1>10. HireOK'
  BY <1>0, <1>1, <1>2, <1>3, HireOKStep DEF InHire
<1>11. ActivationOK'
  BY <1>4 DEF ActivationOK
<1>12. StopOK'
  <2>1. ~Over'
    BY <1>2, <1>5, GovernanceConstants DEF Over, IInv, TypeOK, Amounts
  <2> QED
    BY <2>1 DEF StopOK
<1>13. DueOK'
  <2>1. ~Releases(t) /\ (Held' => Held)
    BY <1>0, <1>3, <1>4 DEF Releases, At, Held
  <2>2. spent' \in Amounts /\ spent' >= spent
    BY <1>2, GovernanceConstants DEF IInv, TypeOK, Amounts
  <2> QED
    BY <1>1, <1>2, <2>1, <2>2, DueOKStep
<1> QED
  BY <1>6, <1>7, <1>8, <1>9, <1>10, <1>11, <1>12, <1>13 DEF IInv

\* The hire is counted, and its budget is written.
LEMMA HiredStep ==
    ASSUME IInv, NEW t \in Threads, Hired(t)
    PROVE  IInv'
<1>0. thread[t].at = "hired" /\ hires \in Nat /\ hires' = hires + 1 /\ hires' \in Nat
      /\ UNCHANGED <<agent, approval, incident, spent, month, past>>
  BY DEF IInv, TypeOK, Hired, At
<1>1. ASSUME NEW q \in Requests, thread' = [thread EXCEPT ![t] = q], q.at \in {"idle", "edited"}
      PROVE  HireOK'
  <2>1. /\ thread'[t] = q
        /\ \A u \in Threads : u # t => thread'[u] = thread[u]
    BY <1>1, Moves DEF IInv
  <2>2. InHire(t)
    BY <1>0 DEF InHire
  <2>3. ~past.stale => /\ approval[Hire] = "approved" /\ hires = 0
                       /\ \A u \in Threads : u # t => ~InHire(u)
    BY <2>2 DEF IInv, HireOK
  <2>4. ~past.stale => \A u \in Threads : ~InHire(u)'
    BY <1>1, <2>1, <2>3 DEF InHire
  <2> QED
    BY <1>0, <2>3, <2>4 DEF HireOK
<1>2. CASE HireBudget > 0
  <2> DEFINE q == [Idle EXCEPT !.op = "edit", !.at = "edited", !.amount = HireBudget]
  <2>1. q \in Requests /\ q.at = "edited" /\ q.amount = HireBudget /\ Sound(q) /\ HireBudget \in Amounts
    BY IdleIsARequest, GovernanceConstants DEF Idle, Requests, Sound, Amounts
  <2>2. thread' = [thread EXCEPT ![t] = q] /\ Written(HireBudget, TRUE)
    BY <1>2 DEF Hired
  <2> HIDE DEF q
  <2>3. HireOK'
    BY <1>1, <2>1, <2>2
  <2> QED
    BY <1>0, <2>1, <2>2, <2>3, WrittenStep
<1>3. CASE ~(HireBudget > 0)
  <2>1. thread' = [thread EXCEPT ![t] = Idle] /\ Idle.at = "idle" /\ UNCHANGED policy
    BY <1>3 DEF Hired, Done, Idle
  <2>2. HireOK'
    BY <1>1, <2>1, IdleIsARequest
  <2>3. TypeOK'
    BY <1>0, <2>1, IdleIsARequest, Moves DEF IInv, TypeOK
  <2>4. ThreadsOK'
    BY <1>0, <2>1, IdleIsARequest, ThreadsOKStep
  <2>5. RowsHeld'
    <3>1. \A u \in Threads \ {t} : Inserting(u) => incident'[thread[u].id].type = "none"
      BY <1>0 DEF IInv, RowsHeld
    <3> QED
      BY <1>0, <2>1, <3>1, IdleIsARequest, RowsHeldStep
  <2>6. NotYetHired'
    BY <1>0 DEF IInv, NotYetHired
  <2>7. ActivationOK'
    BY <1>0, <2>1, IdleIsARequest, ActivationOKStep
  <2>8. spent' \in Amounts /\ spent' >= spent
    BY <1>0, GovernanceConstants DEF IInv, TypeOK, Amounts
  <2>9. StopOK'
    <3>1. Over' => Over /\ ~Pursues(t)
      BY <1>0, <2>1 DEF Over, Pursues, At
    <3>2. Standing("hard") = {} => Standing("hard")' = {}
      BY <1>0 DEF Standing
    <3> QED
      BY <2>1, <2>8, <3>1, <3>2, IdleIsARequest, StopOKStep
  <2>10. DueOK'
    <3>1. ~Releases(t) /\ (Held' => Held)
      BY <1>0 DEF Releases, At, Held
    <3> QED
      BY <2>1, <2>8, <3>1, IdleIsARequest, DueOKStep
  <2> QED
    BY <2>2, <2>3, <2>4, <2>5, <2>6, <2>7, <2>9, <2>10 DEF IInv
<1> QED
  BY <1>2, <1>3

\* A person, or the rejection of the hire, writes the agent's row.
LEMMA AgentWrittenStep ==
    ASSUME IInv, NEW t \in Threads, thread' = [thread EXCEPT ![t] = Idle],
           agent' \in Agents, agent'.reason # "budget",
           agent'.status \in {"none", "pending_approval"} => agent' = agent,
           past' \in Pasts, past'.stale = past.stale, past'.outdated = past.outdated,
           past'.crashed = past.crashed, past.excused => past'.excused,
           agent'.status = "active" => past'.excused,
           UNCHANGED <<hires, approval, policy, incident, spent, month>>,
           thread[t].at \in {"terminate", "write"}
    PROVE  IInv'
<1>0. Idle.at = "idle" /\ Idle \in Requests /\ Sound(Idle)
  BY IdleIsARequest DEF Idle
<1>1. TypeOK'
  BY <1>0, Moves DEF IInv, TypeOK, Pasts
<1>2. ThreadsOK'
  BY <1>0, ThreadsOKStep
<1>3. RowsHeld'
  <2>1. \A u \in Threads \ {t} : Inserting(u) => incident'[thread[u].id].type = "none"
    BY DEF IInv, RowsHeld
  <2> QED
    BY <1>0, <2>1, RowsHeldStep
<1>4. NotYetHired'
  BY DEF IInv, NotYetHired
<1>5. HireOK'
  BY <1>0, HireOKStep
<1>6. ActivationOK'
  BY <1>0, ActivationOKStep
<1>7. StopOK'
  BY DEF StopOK, Over
<1>8. DueOK'
  BY DEF DueOK, Held
<1> QED
  BY <1>1, <1>2, <1>3, <1>4, <1>5, <1>6, <1>7, <1>8 DEF IInv

LEMMA PressedStep ==
    ASSUME IInv, NEW t \in Threads, Pressed(t)
    PROVE  IInv'
<1>0. thread[t].op \in {"pause", "resume", "terminate"} /\ thread[t].at = "write" /\ past \in Pasts
  BY DEF IInv, TypeOK, ThreadsOK, Sound, Pressed, At, Pasts
<1>1. /\ agent' \in Agents /\ agent'.reason # "budget" /\ agent'.status \notin {"none", "pending_approval"}
      /\ agent'.status = "active" => thread[t].op = "resume"
  BY <1>0 DEF Pressed, Agents, Paused, Active
<1>2. thread[t].op = "resume" => past'.excused
  BY <1>0 DEF Pressed, Pasts
<1>3. past' \in Pasts /\ past'.stale = past.stale /\ past'.outdated = past.outdated
      /\ past'.crashed = past.crashed /\ (past.excused => past'.excused)
  BY <1>0 DEF Pressed, Pasts
<1> QED
  BY <1>0, <1>1, <1>2, <1>3, AgentWrittenStep DEF Pressed, Done

LEMMA TerminateRejectedStep ==
    ASSUME IInv, NEW t \in Threads, TerminateRejected(t)
    PROVE  IInv'
<1>0. thread[t].at = "terminate" /\ past \in Pasts /\ agent \in Agents
  BY DEF IInv, TypeOK, TerminateRejected, At, Pasts
<1>1. CASE agent.status = "none"
  <2>1. agent.reason = "none"
    BY <1>1 DEF IInv, NotYetHired
  <2>2. agent' = agent
    BY <1>1 DEF TerminateRejected
  <2> QED
    BY <1>0, <1>1, <2>1, <2>2, AgentWrittenStep DEF TerminateRejected, Done
<1>2. CASE agent.status # "none"
  <2>1. agent' = [status |-> "terminated", reason |-> "none"]
    BY <1>2 DEF TerminateRejected
  <2>2. agent' \in Agents /\ agent'.status = "terminated" /\ agent'.reason = "none"
    BY <2>1 DEF Agents
  <2> QED
    BY <1>0, <2>2, AgentWrittenStep DEF TerminateRejected, Done
<1> QED
  BY <1>1, <1>2

\* A revision that is asked for or answered.  Written over a decision it
\* takes the hire's properties away.
LEMMA SentBackStep ==
    ASSUME IInv, NEW t \in Threads, SentBack(t)
    PROVE  IInv'
<1>0. thread[t] \in Requests /\ thread[t].at = "send" /\ thread[t].id \in Approvals
      /\ approval[thread[t].id] # "none" /\ thread[t].op \in {"revision_requested", "pending"} /\ past \in Pasts
  BY DEF IInv, TypeOK, ThreadsOK, Sound, SentBack, At, Pasts
<1> DEFINE a == thread[t].id
<1>1. /\ approval' = [approval EXCEPT ![a] = thread[t].op]
      /\ thread' = [thread EXCEPT ![t] = Idle] /\ Idle.at = "idle"
      /\ UNCHANGED <<agent, hires, policy, incident, spent, month>>
  BY DEF SentBack, Done, Idle
<1>2. /\ past' \in Pasts /\ past'.excused = past.excused
      /\ past'.outdated = past.outdated /\ past'.crashed = past.crashed
  BY <1>0 DEF SentBack, Pasts
<1>3. /\ past.stale => past'.stale
      /\ ~past'.stale => approval[a] \in {"pending", "revision_requested"}
  BY <1>0 DEF SentBack, Pasts, canResolveStatuses
<1>4. /\ approval' \in [Approvals -> {"none", "pending", "revision_requested", "approved", "rejected"}]
      /\ approval'[a] = thread[t].op
      /\ \A b \in Approvals : approval'[b] = "none" <=> approval[b] = "none"
      /\ \A b \in Approvals : b # a => approval'[b] = approval[b]
  BY <1>0, <1>1 DEF IInv, TypeOK
<1>5. /\ thread'[t] = Idle
      /\ \A u \in Threads : u # t => thread'[u] = thread[u]
  BY <1>1, IdleIsARequest, Moves DEF IInv
<1>6. Rows \subseteq Approvals /\ Hire \in Approvals
  BY DEF Rows, Approvals
<1> HIDE DEF a
<1>7. spent' \in Amounts /\ spent' >= spent
  BY <1>1, GovernanceConstants DEF IInv, TypeOK, Amounts
<1>8. TypeOK'
  <2>1. \A i \in Rows : incident'[i].type # "none" => (incident'[i].type = "hard" <=> approval'[i] # "none")
    BY <1>1, <1>4, <1>6 DEF IInv, TypeOK
  <2> QED
    BY <1>1, <1>2, <1>4, <2>1, IdleIsARequest, Moves DEF IInv, TypeOK, Pasts
<1>9. ThreadsOK'
  BY <1>1, <1>4, IdleIsARequest, ThreadsOKStep
<1>10. RowsHeld'
  <2>1. \A u \in Threads \ {t} : Inserting(u) =>
             /\ incident'[thread[u].id].type = "none"
             /\ approval'[thread[u].id] = "none" <=> approval[thread[u].id] = "none"
    BY <1>1, <1>4, <1>6 DEF IInv, RowsHeld
  <2> QED
    BY <1>1, <2>1, IdleIsARequest, RowsHeldStep
<1>11. NotYetHired'
  BY <1>1 DEF IInv, NotYetHired
<1>12. HireOK'
  <2>1. CASE a = Hire
    <3>1. ~past'.stale => hires = 0 /\ \A u \in Threads : ~InHire(u)
      BY <1>3, <2>1 DEF IInv, TypeOK, HireOK
    <3>2. ~past'.stale => \A u \in Threads : ~InHire(u)'
      BY <1>1, <1>5, <3>1 DEF InHire
    <3> QED
      BY <1>1, <3>1, <3>2 DEF HireOK
  <2>2. CASE a # Hire
    <3>1. approval'[Hire] = approval[Hire]
      BY <1>4, <1>6, <2>2
    <3>2. ~InHire(t) /\ ~InHire(t)'
      BY <1>0, <1>1, <1>5 DEF InHire
    <3>3. ~past'.stale => ~past.stale
      BY <1>3
    <3>4. \A u \in Threads : InHire(u)' => InHire(u)
      BY <1>5, <3>2 DEF InHire
    <3> QED
      BY <1>1, <3>1, <3>3, <3>4 DEF IInv, HireOK
  <2> QED
    BY <2>1, <2>2
<1>13. ActivationOK'
  <2>1. CASE a = Hire
    BY <1>0, <1>4, <2>1 DEF ActivationOK
  <2>2. CASE a # Hire
    <3>1. approval'[Hire] = approval[Hire]
      BY <1>4, <1>6, <2>2
    <3> QED
      BY <1>0, <1>1, <1>2, <1>3, <3>1, IdleIsARequest, ActivationOKStep
  <2> QED
    BY <2>1, <2>2
<1>14. StopOK'
  <2>1. Over' => Over /\ ~Pursues(t)
    BY <1>0, <1>1, <1>2 DEF Over, Pursues, At
  <2>2. Standing("hard") = {} => Standing("hard")' = {}
    BY <1>1 DEF Standing
  <2> QED
    BY <1>1, <1>7, <2>1, <2>2, IdleIsARequest, StopOKStep
<1>15. DueOK'
  <2>1. ~Releases(t) /\ (Held' => Held)
    BY <1>0, <1>1, <1>2 DEF Releases, At, Held
  <2> QED
    BY <1>1, <1>7, <2>1, IdleIsARequest, DueOKStep
<1> QED
  BY <1>8, <1>9, <1>10, <1>11, <1>12, <1>13, <1>14, <1>15 DEF IInv

\* Nothing is spent in a month that begins.
LEMMA NextMonthStep ==
    ASSUME IInv, NextMonth
    PROVE  IInv'
<1>1. /\ month' \in 1..MaxMonths /\ spent' = 0 /\ spent' \in Amounts
      /\ UNCHANGED <<agent, hires, approval, policy, incident, thread>>
  BY GovernanceConstants DEF NextMonth, IInv, TypeOK, Amounts
<1>2. /\ past' \in Pasts /\ past'.excused = past.excused /\ past'.stale = past.stale
      /\ past'.crashed = past.crashed /\ past'.outdated
  BY DEF NextMonth, IInv, TypeOK, Pasts
<1>3. TypeOK'
  BY <1>1, <1>2 DEF IInv, TypeOK, Pasts
<1>4. ThreadsOK' /\ RowsHeld' /\ NotYetHired' /\ HireOK' /\ ActivationOK'
  BY <1>1, <1>2 DEF IInv, ThreadsOK, Sound, RowsHeld, Inserting, At, NotYetHired, HireOK, InHire, ActivationOK
<1>5. ~Over' /\ ~Held'
  BY <1>1, <1>2, GovernanceConstants DEF Over, Held, IInv, TypeOK, Amounts
<1> QED
  BY <1>3, <1>4, <1>5 DEF IInv, StopOK, DueOK

LEMMA CrashStep ==
    ASSUME IInv, Crash
    PROVE  IInv'
<1>1. /\ thread' = [t \in Threads |-> Idle] /\ thread' \in [Threads -> Requests]
      /\ \A t \in Threads : thread'[t] = Idle
      /\ Idle.at = "idle" /\ Idle.op = "none"
      /\ UNCHANGED <<agent, hires, approval, policy, incident, spent, month>>
  BY IdleIsARequest DEF Crash, Idle
<1>2. /\ past' \in Pasts /\ past'.excused = past.excused /\ past'.stale = past.stale
      /\ past'.outdated = past.outdated /\ past'.crashed
  BY DEF Crash, IInv, TypeOK, Pasts
<1>3. TypeOK'
  BY <1>1, <1>2 DEF IInv, TypeOK, Pasts
<1>4. ThreadsOK' /\ RowsHeld' /\ NotYetHired' /\ HireOK'
  BY <1>1, <1>2 DEF IInv, ThreadsOK, Sound, RowsHeld, Inserting, NotYetHired, HireOK, InHire
<1>5. ActivationOK' /\ ~Over' /\ ~Held'
  BY <1>2 DEF ActivationOK, Over, Held
<1> QED
  BY <1>3, <1>4, <1>5 DEF IInv, StopOK, DueOK

-----------------------------------------------------------------------------
(* The theorems.                                                            *)

LEMMA InitOK == Init => IInv
<1> SUFFICES ASSUME Init PROVE IInv
  OBVIOUS
<1>1. /\ \A t \in Threads : thread[t] = Idle
      /\ Idle.at = "idle" /\ Idle.op = "none"
  BY DEF Init, Idle
<1>2. TypeOK
  <2>1. 0 \in Amounts /\ 1 \in 1..MaxMonths /\ thread \in [Threads -> Requests]
    BY GovernanceConstants, IdleIsARequest DEF Init, Amounts
  <2>2. NoIncident \in Incidents /\ NoIncident.type = "none"
    BY GovernanceConstants DEF NoIncident, Incidents
  <2>3. agent \in Agents /\ agent.reason = "none"
    BY DEF Init, Agents
  <2>4. approval \in [Approvals -> {"none", "pending", "revision_requested", "approved", "rejected"}]
    BY DEF Init
  <2> QED
    BY <2>1, <2>2, <2>3, <2>4 DEF Init, TypeOK
<1>3. ThreadsOK /\ RowsHeld
  BY <1>1 DEF ThreadsOK, Sound, RowsHeld, Inserting
<1>4. NotYetHired
  BY DEF Init, NotYetHired
<1>5. HireOK
  BY <1>1 DEF Init, HireOK, InHire
<1>6. ActivationOK
  BY DEF Init, ActivationOK, Approvals
<1>7. StopOK /\ DueOK
  BY DEF Init, StopOK, Over, DueOK, Held
<1> QED
  BY <1>2, <1>3, <1>4, <1>5, <1>6, <1>7 DEF IInv

LEMMA StepOK ==
    ASSUME IInv, NEW t \in Threads, Step(t)
    PROVE  IInv'
<1>1. CASE \/ CreateEvent(t) \/ EvaluateCostEvent(t) \/ ComputeObservedAmount(t)
           \/ LookForSoft(t) \/ InsertSoft(t) \/ LookForHard(t) \/ InsertHard(t) \/ PauseScopeForBudget(t)
  BY <1>1, CreateEventStep, EvaluateCostEventStep, ComputeObservedAmountStep, LookForSoftStep, InsertSoftStep,
     LookForHardStep, InsertHardStep, PauseScopeForBudgetStep
<1>2. CASE \/ \E amount \in Amounts, active \in BOOLEAN : UpsertPolicy(t, amount, active)
           \/ UpsertObserves(t)
           \/ \E i \in Rows, amount \in Amounts : RaiseBudget(t, i, amount)
           \/ RaiseWrites(t) \/ ResumeScopeFromBudget(t) \/ ReadOpenIncidents(t) \/ ResolveOpenIncidents(t)
           \/ \E i \in Rows : KeepPaused(t, i)
  BY <1>2, UpsertPolicyStep, UpsertObservesStep, RaiseBudgetStep, RaiseWritesStep, ResumeScopeFromBudgetStep,
     ReadOpenIncidentsStep, ResolveOpenIncidentsStep, KeepPausedStep
<1>3. CASE \/ \E a \in Approvals, to \in {"approved", "rejected"} : Decide(t, a, to)
           \/ Decided(t) \/ ActivatePendingApproval(t) \/ Activated(t) \/ Hired(t) \/ TerminateRejected(t)
           \/ \E a \in Approvals : SendBack(t, a)
           \/ SentBack(t)
           \/ \E button \in {"pause", "resume", "terminate"} : Press(t, button)
           \/ Pressed(t)
  BY <1>3, DecideStep, DecidedStep, ActivatePendingApprovalStep, ActivatedStep, HiredStep, TerminateRejectedStep,
     SendBackStep, SentBackStep, PressStep, PressedStep
<1> QED
  BY <1>1, <1>2, <1>3 DEF Step

\* Of an agent's governance: every reachable state satisfies the invariant.
THEOREM Invariance == Spec => []IInv
<1>1. IInv /\ [Next]_vars => IInv'
  <2> SUFFICES ASSUME IInv, [Next]_vars PROVE IInv'
    OBVIOUS
  <2>1. CASE NextMonth
    BY <2>1, NextMonthStep
  <2>2. CASE Crash
    BY <2>2, CrashStep
  <2>3. ASSUME NEW t \in Threads, Step(t) PROVE IInv'
    BY <2>3, StepOK
  <2>4. CASE UNCHANGED vars
    BY <2>4 DEF vars, IInv, TypeOK, ThreadsOK, Sound, RowsHeld, Inserting, At, NotYetHired, HireOK, InHire,
       ActivationOK, StopOK, Over, Pursues, HardStop, Standing, Within, DueOK, Held, Due, Releases
  <2> QED
    BY <2>1, <2>2, <2>3, <2>4 DEF Next
<1> QED
  BY InitOK, <1>1, PTL DEF Spec

\* The shape of the state, with the approvals that belong to the incidents.
THEOREM TypeCorrect == Spec => []TypeOK
<1>1. IInv => TypeOK
  BY DEF IInv
<1> QED
  BY Invariance, <1>1, PTL

\* At rest an agent over its active budget does not run, whatever the costs,
\* edits, decisions and buttons that overlapped, with the named excuses.
THEOREM OverBudgetIsStopped == Spec => []HardStopPauses
<1>1. IInv => HardStopPauses
  <2> SUFFICES ASSUME IInv, ~HardStopPauses PROVE FALSE
    BY DEF HardStopPauses
  <2>1. AtRest /\ Over
    BY DEF HardStopPauses, Over
  <2>2. \A t \in Threads : ~Pursues(t)
    BY <2>1, FromIdle DEF AtRest
  <2> QED
    BY <2>1, <2>2 DEF IInv, StopOK
<1> QED
  BY Invariance, <1>1, PTL

\* At rest an agent that is stopped for its budget is over it, with the named
\* excuses.
THEOREM StoppedIsOverBudget == Spec => []BudgetPauseIsDue
<1>1. IInv => BudgetPauseIsDue
  <2> SUFFICES ASSUME IInv, AtRest, Held PROVE Due
    BY DEF BudgetPauseIsDue, Held, Due
  <2>1. \A t \in Threads : ~Releases(t)
    BY FromIdle DEF AtRest
  <2> QED
    BY <2>1 DEF IInv, DueOK
<1> QED
  BY Invariance, <1>1, PTL

\* A hire that no revision was written over is carried out once.
THEOREM HiredOnce == Spec => []OneHire
<1>1. IInv => OneHire
  BY DEF IInv, TypeOK, HireOK, OneHire
<1> QED
  BY Invariance, <1>1, PTL

\* At rest what was approved is hired.
THEOREM ApprovedAreHired == Spec => []ApprovedIsHired
<1>1. IInv => ApprovedIsHired
  <2> SUFFICES ASSUME IInv, AtRest, approval[Hire] = "approved", ~past.crashed, ~past.stale
               PROVE  agent.status \notin {"none", "pending_approval"}
    BY DEF ApprovedIsHired
  <2>1. \A t \in Threads : thread[t].at = "idle"
    BY DEF AtRest, At
  <2> QED
    BY <2>1 DEF IInv, ActivationOK, At
<1> QED
  BY Invariance, <1>1, PTL

\* No step but a person's undoes a person's pause.
THEOREM PausedByAPersonStays == Spec => ManualPauseStays
<1> DEFINE Undone == agent = Paused("manual") /\ agent' # agent =>
                       \E t \in Threads : thread[t].at \in {"write", "activating", "terminate"}
                                          /\ thread'[t] # thread[t]
<1>1. IInv /\ [Next]_vars => Undone
  <2> SUFFICES ASSUME IInv, [Next]_vars, agent = Paused("manual"), agent' # agent PROVE Undone
    OBVIOUS
  <2>1. agent.status = "paused" /\ agent.reason = "manual"
    BY DEF Paused
  <2>2. PICK t \in Threads : Step(t)
    BY DEF Next, NextMonth, Crash, vars
  <2>3. PauseScopeForBudget(t) \/ ResumeScopeFromBudget(t) \/ Activated(t) \/ TerminateRejected(t) \/ Pressed(t)
    BY <2>2 DEF Step, CreateEvent, EvaluateCostEvent, ComputeObservedAmount, LookForSoft, InsertSoft, LookForHard,
       InsertHard, UpsertPolicy, UpsertObserves, RaiseBudget, RaiseWrites, ReadOpenIncidents, ResolveOpenIncidents,
       KeepPaused, Decide, Decided, ActivatePendingApproval, Hired, SendBack, SentBack, Press
  <2>4. ~PauseScopeForBudget(t) /\ ~ResumeScopeFromBudget(t)
    BY <2>1 DEF PauseScopeForBudget, ResumeScopeFromBudget, BudgetHolds
  <2>5. thread[t].at \in {"write", "activating", "terminate"}
    BY <2>1, <2>3, <2>4 DEF Activated, TerminateRejected, Pressed, At
  <2>6. thread'[t].at \in {"hired", "idle"}
    <3>1. thread \in [Threads -> Requests] /\ thread[t] \in Requests
      BY DEF IInv, TypeOK
    <3>2. CASE Activated(t)
      BY <3>1, <3>2 DEF Activated, Goto, Requests
    <3>3. CASE TerminateRejected(t) \/ Pressed(t)
      BY <3>1, <3>3 DEF TerminateRejected, Pressed, Done, Idle
    <3> QED
      BY <2>3, <2>4, <3>2, <3>3
  <2> QED
    BY <2>5, <2>6
<1>2. IInv /\ [Next]_vars => [Undone]_vars
  BY <1>1
<1> QED
  BY Invariance, <1>2, PTL DEF Spec, ManualPauseStays
=============================================================================
