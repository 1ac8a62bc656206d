----------------------------- MODULE Governance -----------------------------
(***************************************************************************)
(* One agent of the Node server, what it has spent, its budget policy, the  *)
(* incidents and the approvals, and everything that pauses, resumes, hires  *)
(* or terminates it: the recorded costs, the edits of the policy, the       *)
(* decisions of the board and the operator's buttons.                       *)
(*                                                                          *)
(* None of it runs in a transaction.  A request is a thread that takes a    *)
(* step for each statement whose place among those of others matters.       *)
(***************************************************************************)
EXTENDS Integers, FiniteSets

CONSTANTS
    Threads,      \* requests in progress at a time
    MaxAmount,    \* amounts of a budget and of what is spent
    WarnPercent,  \* of the amount, where the soft threshold is
    HireBudget,   \* the budget in the payload of the hire, 0 for none
    MaxMonths,
    MaxRows,      \* incidents, and the approvals made for them
    MaxRequests   \* requests ever begun

ASSUME GovernanceConstants ==
    /\ {MaxAmount, MaxRows, MaxRequests} \subseteq Nat
    /\ MaxMonths \in Nat \ {0}
    /\ WarnPercent \in 1..99
    /\ HireBudget \in 0..MaxAmount

Amounts   == 0..MaxAmount
Rows      == 1..MaxRows
NoRow     == -1
Hire      == 0          \* the approval of the hire; approval i of Rows was made for incident i
Approvals == {Hire} \union Rows

VARIABLES
    agent,      \* status and pauseReason
    hires,      \* how often the hire was carried out
    approval,   \* the status of each approval
    policy,     \* amount and isActive; hardStopEnabled and notifyEnabled are set
    incident,   \* threshold, month and status of each
    spent,      \* the costs of the month
    month,
    thread,     \* where each request is
    past        \* the requests begun, and what happened that a property excuses

vars == <<agent, hires, approval, policy, incident, spent, month, thread, past>>

NoIncident == [type |-> "none", month |-> 0, status |-> "none"]
Idle == [op |-> "none", at |-> "idle", amount |-> 0, seen |-> 0, id |-> NoRow, rows |-> {}, to |-> "none"]

(* An agent that is there, one that waits for its hire's approval, or a     *)
(* hire that is to make one.                                                *)
Init ==
    /\ \/ agent = [status |-> "active", reason |-> "none"] /\ approval = [a \in Approvals |-> "none"]
       \/ /\ agent \in [status : {"pending_approval", "none"}, reason : {"none"}]
          /\ approval = [a \in Approvals |-> IF a = Hire THEN "pending" ELSE "none"]
    /\ hires = 0
    /\ policy = [amount |-> 0, active |-> FALSE]
    /\ incident = [i \in Rows |-> NoIncident]
    /\ spent = 0 /\ month = 1
    /\ thread = [t \in Threads |-> Idle]
    /\ past = [requests |-> 0, excused |-> FALSE, stale |-> FALSE, outdated |-> FALSE, crashed |-> FALSE]

At(t, at)   == thread[t].at = at
Done(t)     == thread' = [thread EXCEPT ![t] = Idle]
Goto(t, at) == IF at = "idle" THEN Done(t) ELSE thread' = [thread EXCEPT ![t].at = at]

Begin(t, op, at, amount, id) ==
    /\ At(t, "idle") /\ past.requests < MaxRequests
    /\ past' = [past EXCEPT !.requests = @ + 1]
    /\ thread' = [thread EXCEPT ![t] = [Idle EXCEPT !.op = op, !.at = at, !.amount = amount, !.id = id]]

Paused(reason) == [status |-> "paused", reason |-> reason]
Active         == [status |-> "active", reason |-> "none"]   \* idle, running or error

-----------------------------------------------------------------------------
(* createEvent: the cost is in the table before anything is evaluated.  An  *)
(* agent that is paused may still report what it has spent.                 *)
CreateEvent(t) ==
    /\ agent.status \in {"active", "paused", "terminated"} /\ spent < MaxAmount
    /\ Begin(t, "cost", "policy", 0, NoRow)
    /\ spent' = spent + 1
    /\ UNCHANGED <<agent, hires, approval, policy, incident, month>>

(* evaluateCostEvent: the policy as it is now is what the rest goes by.     *)
EvaluateCostEvent(t) ==
    /\ At(t, "policy")
    /\ IF policy.active /\ policy.amount > 0
       THEN thread' = [thread EXCEPT ![t].at = "observe", ![t].amount = policy.amount]
       ELSE Done(t)
    /\ UNCHANGED <<agent, hires, approval, policy, incident, spent, month, past>>

SoftThreshold(amount) == (amount * WarnPercent + 99) \div 100

(* Where the thresholds that are reached lead.                              *)
Reached(t) ==
    IF spent < SoftThreshold(thread[t].amount) THEN Done(t)
    ELSE thread' = [thread EXCEPT ![t].at = "soft", ![t].seen = spent]

ComputeObservedAmount(t) ==
    /\ At(t, "observe")
    /\ Reached(t)
    /\ UNCHANGED <<agent, hires, approval, policy, incident, spent, month, past>>

-----------------------------------------------------------------------------
(* createIncidentIfNeeded: an incident of this month that was not dismissed *)
(* will do, resolved or not.                                                *)
Standing(type) == {i \in Rows : incident[i].type = type /\ incident[i].month = month
                                  /\ incident[i].status # "dismissed"}
FreeRows == {i \in Rows : incident[i] = NoIncident /\ approval[i] = "none"
                            /\ \A t \in Threads : thread[t].id # i}
NextRow  == CHOOSE i \in FreeRows : TRUE

(* Mutant: the stop comes after the amount, not with it. *)
HardStopBeyond(t) == thread[t].seen > thread[t].amount

HardStop(t) == thread[t].seen >= thread[t].amount

LookForSoft(t) ==
    /\ At(t, "soft")
    /\ IF Standing("soft") = {}
       THEN /\ FreeRows # {}
            /\ thread' = [thread EXCEPT ![t].at = "insertSoft", ![t].id = NextRow]
       ELSE Goto(t, IF HardStop(t) THEN "hard" ELSE "idle")
    /\ UNCHANGED <<agent, hires, approval, policy, incident, spent, month, past>>

(* The insert.  The unique index lets one of two through; the other throws, *)
(* and its request ends there.                                              *)
Inserted(t, type, next) ==
    IF Standing(type) = {}
    THEN /\ incident' = [incident EXCEPT ![thread[t].id] = [type |-> type, month |-> month, status |-> "open"]]
         /\ thread' = [thread EXCEPT ![t] = IF next = "idle" THEN Idle ELSE [@ EXCEPT !.id = NoRow, !.at = next]]
         /\ UNCHANGED past
    ELSE /\ Done(t)
         /\ past' = [past EXCEPT !.excused = @ \/ (type = "soft" /\ HardStop(t))]
         /\ UNCHANGED incident

InsertSoft(t) ==
    /\ At(t, "insertSoft")
    /\ Inserted(t, "soft", IF HardStop(t) THEN "hard" ELSE "idle")
    /\ UNCHANGED <<agent, hires, approval, policy, spent, month>>

(* resolveOpenSoftIncidents, then the look for the hard one.                *)
LookForHard(t) ==
    /\ At(t, "hard")
    /\ incident' = [i \in Rows |-> IF incident[i].type = "soft" /\ incident[i].status = "open"
                                   THEN [incident[i] EXCEPT !.status = "resolved"] ELSE incident[i]]
    /\ IF Standing("hard") = {}
       THEN /\ FreeRows # {}
            /\ thread' = [thread EXCEPT ![t].at = "insertHard", ![t].id = NextRow]
            /\ approval' = [approval EXCEPT ![NextRow] = "pending"]
       ELSE Goto(t, "pause") /\ UNCHANGED approval
    /\ UNCHANGED <<agent, hires, policy, spent, month, past>>

(* When this throws the approval that was made for the incident stays.      *)
InsertHard(t) ==
    /\ At(t, "insertHard")
    /\ Inserted(t, "hard", "pause")
    /\ UNCHANGED <<agent, hires, approval, policy, spent, month>>

(* pauseScopeForBudget.                                                     *)
PauseScopeForBudget(t) ==
    /\ At(t, "pause")
    /\ IF agent.status = "active"
       THEN /\ agent' = Paused("budget")
            /\ past' = [past EXCEPT !.outdated = @ \/ ~policy.active \/ thread[t].amount # policy.amount
                                                   \/ thread[t].seen > spent]
       ELSE UNCHANGED <<agent, past>>
    /\ Done(t)
    /\ UNCHANGED <<hires, approval, policy, incident, spent, month>>

-----------------------------------------------------------------------------
(* Mutant: a policy of amount 0 is active. *)
WrittenActive(amount, active) == policy' = [amount |-> amount, active |-> active]

(* upsertPolicy: the policy is written before what was spent is looked at.  *)
Written(amount, active) ==
    policy' = [amount |-> amount, active |-> amount > 0 /\ active]

UpsertPolicy(t, amount, active) ==
    /\ agent.status # "none"
    /\ Begin(t, "edit", "edited", amount, NoRow)
    /\ Written(amount, active)
    /\ UNCHANGED <<agent, hires, approval, incident, spent, month>>

(* Mutant: an amount of 0 lifts nothing. *)
WithinAmountOnly(t) == spent < thread[t].amount

Within(t) == thread[t].amount = 0 \/ spent < thread[t].amount

UpsertObserves(t) ==
    /\ At(t, "edited")
    /\ IF Within(t) THEN thread' = [thread EXCEPT ![t].at = "resumeScope", ![t].seen = spent]
       ELSE Reached(t)
    /\ UNCHANGED <<agent, hires, approval, policy, incident, spent, month, past>>

(* resolveIncident, raise_budget_and_resume: any incident, as often as one  *)
(* likes.                                                                   *)
RaiseBudget(t, i, amount) ==
    /\ incident[i] # NoIncident /\ amount > spent
    /\ At(t, "idle") /\ past.requests < MaxRequests
    /\ past' = [past EXCEPT !.requests = @ + 1]
    /\ thread' = [thread EXCEPT ![t] = [Idle EXCEPT !.op = "raise", !.at = "raise", !.amount = amount,
                                                    !.seen = spent, !.id = i]]
    /\ UNCHANGED <<agent, hires, approval, policy, incident, spent, month>>

RaiseWrites(t) ==
    /\ At(t, "raise")
    /\ Written(thread[t].amount, TRUE)
    /\ Goto(t, "resumeScope")
    /\ UNCHANGED <<agent, hires, approval, incident, spent, month, past>>

(* Mutant: whatever paused the agent. *)
BudgetHoldsAnyway == agent.status = "paused"

BudgetHolds == agent.reason = "budget"

(* resumeScopeFromBudget.  What was recorded since the amount spent was     *)
(* looked at is not looked at again.                                        *)
ResumeScopeFromBudget(t) ==
    /\ At(t, "resumeScope")
    /\ agent' = IF BudgetHolds THEN Active ELSE agent
    /\ past' = [past EXCEPT !.excused = @ \/ thread[t].seen # spent \/ thread[t].amount # policy.amount]
    /\ thread' = [thread EXCEPT ![t].at = "resolve"]
    /\ UNCHANGED <<hires, approval, policy, incident, spent, month>>

OpenIncidents == {i \in Rows : incident[i].status = "open"}
Resolved(I)   == [i \in Rows |-> IF i \in I THEN [incident[i] EXCEPT !.status = "resolved"] ELSE incident[i]]
Marked(I, status) == [a \in Approvals |-> IF a \in I /\ approval[a] # "none" THEN status ELSE approval[a]]

(* resolveOpenIncidentsForPolicy: an edit marks the approvals of all the    *)
(* incidents that it had read as open, a raise the one of its own.          *)
ReadOpenIncidents(t) ==
    /\ At(t, "resolve") /\ thread[t].op # "raise"
    /\ thread' = [thread EXCEPT ![t].at = "mark", ![t].rows = OpenIncidents]
    /\ UNCHANGED <<agent, hires, approval, policy, incident, spent, month, past>>

ResolveOpenIncidents(t) ==
    /\ \/ At(t, "mark") /\ approval' = Marked(thread[t].rows, "approved")
       \/ At(t, "resolve") /\ thread[t].op = "raise" /\ approval' = Marked({thread[t].id}, "approved")
    /\ incident' = Resolved(OpenIncidents)
    /\ Done(t)
    /\ UNCHANGED <<agent, hires, policy, spent, month, past>>

(* resolveIncident, keep_paused.                                            *)
KeepPaused(t, i) ==
    /\ incident[i] # NoIncident
    /\ Begin(t, "keep", "idle", 0, NoRow)
    /\ incident' = [incident EXCEPT ![i].status = "dismissed"]
    /\ approval' = Marked({i}, "rejected")
    /\ UNCHANGED <<agent, hires, policy, spent, month>>

-----------------------------------------------------------------------------
(* resolveApproval: the status is read, and written if it is still one that *)
(* can be decided.                                                          *)
canResolveStatuses == {"pending", "revision_requested"}

Decide(t, a, to) ==
    /\ approval[a] \in canResolveStatuses
    /\ At(t, "idle") /\ past.requests < MaxRequests
    /\ past' = [past EXCEPT !.requests = @ + 1]
    /\ thread' = [thread EXCEPT ![t] = [Idle EXCEPT !.op = "decide", !.at = "decide", !.id = a, !.to = to]]
    /\ UNCHANGED <<agent, hires, approval, policy, incident, spent, month>>

(* Mutant: the decision is written over whatever is there. *)
ResolvableAlways(t) == TRUE

Resolvable(t) == approval[thread[t].id] \in canResolveStatuses

(* Mutant: what was sent back is decided without being carried out. *)
CarriedOutWhenPending(t) == thread[t].id = Hire /\ approval[Hire] = "pending"

CarriedOut(t) == thread[t].id = Hire

Decided(t) ==
    /\ At(t, "decide")
    /\ IF Resolvable(t)
       THEN /\ approval' = [approval EXCEPT ![thread[t].id] = thread[t].to]
            /\ IF CarriedOut(t)
               THEN Goto(t, IF thread[t].to = "rejected" THEN "terminate" ELSE "activate")
               ELSE Done(t)
       ELSE Done(t) /\ UNCHANGED approval
    /\ UNCHANGED <<agent, hires, policy, incident, spent, month, past>>

(* approve: activatePendingApproval, which looks at the agent before it     *)
(* writes the status alone, or the agent is made.  The write may undo what  *)
(* a person did to the agent since.                                         *)
ActivatePendingApproval(t) ==
    /\ At(t, "activate") /\ agent.status # "none"
    /\ Goto(t, IF agent.status = "pending_approval" THEN "activating" ELSE "hired")
    /\ UNCHANGED <<agent, hires, approval, policy, incident, spent, month, past>>

Activated(t) ==
    /\ \/ At(t, "activating") /\ agent' = [agent EXCEPT !.status = "active"]
       \/ At(t, "activate") /\ agent.status = "none" /\ agent' = Active
    /\ past' = [past EXCEPT !.excused = @ \/ agent.status \notin {"none", "pending_approval"}]
    /\ Goto(t, "hired")
    /\ UNCHANGED <<hires, approval, policy, incident, spent, month>>

(* The budget of the hire's payload.                                        *)
Hired(t) ==
    /\ At(t, "hired")
    /\ hires' = hires + 1
    /\ IF HireBudget > 0
       THEN /\ Written(HireBudget, TRUE)
            /\ thread' = [thread EXCEPT ![t] = [Idle EXCEPT !.op = "edit", !.at = "edited", !.amount = HireBudget]]
       ELSE Done(t) /\ UNCHANGED policy
    /\ UNCHANGED <<agent, approval, incident, spent, month, past>>

(* reject: the agent that was to be hired, if there is one, is terminated.  *)
TerminateRejected(t) ==
    /\ At(t, "terminate")
    /\ agent' = IF agent.status = "none" THEN agent ELSE [status |-> "terminated", reason |-> "none"]
    /\ Done(t)
    /\ UNCHANGED <<hires, approval, policy, incident, spent, month, past>>

(* requestRevision and resubmit: the status is read, then written.          *)
SendBack(t, a) ==
    /\ \/ approval[a] = "pending" /\ Begin(t, "revision_requested", "send", 0, a)
       \/ approval[a] = "revision_requested" /\ Begin(t, "pending", "send", 0, a)
    /\ UNCHANGED <<agent, hires, approval, policy, incident, spent, month>>

SentBack(t) ==
    /\ At(t, "send")
    /\ approval' = [approval EXCEPT ![thread[t].id] = thread[t].op]
    /\ past' = [past EXCEPT !.stale = @ \/ approval[thread[t].id] \notin canResolveStatuses]
    /\ Done(t)
    /\ UNCHANGED <<agent, hires, policy, incident, spent, month>>

-----------------------------------------------------------------------------
(* pause, resume and terminate of the agent: a status is read, then the row *)
(* is written.                                                              *)
Press(t, button) ==
    /\ agent.status \notin {"none", "terminated"}
    /\ button = "resume" => agent.status # "pending_approval"
    /\ Begin(t, button, "write", 0, NoRow)
    /\ UNCHANGED <<agent, hires, approval, policy, incident, spent, month>>

Pressed(t) ==
    /\ At(t, "write")
    /\ agent' = CASE thread[t].op = "pause"     -> Paused("manual")
                  [] thread[t].op = "resume"    -> Active
                  [] thread[t].op = "terminate" -> [status |-> "terminated", reason |-> "none"]
    /\ past' = [past EXCEPT !.excused = @ \/ thread[t].op = "resume"]
    /\ Done(t)
    /\ UNCHANGED <<hires, approval, policy, incident, spent, month>>

NextMonth ==
    /\ month < MaxMonths
    /\ month' = month + 1 /\ spent' = 0
    /\ past' = [past EXCEPT !.outdated = TRUE]
    /\ UNCHANGED <<agent, hires, approval, policy, incident, thread>>

Crash ==
    /\ \E t \in Threads : ~At(t, "idle")
    /\ ~past.crashed
    /\ past' = [past EXCEPT !.crashed = TRUE]
    /\ thread' = [t \in Threads |-> Idle]
    /\ UNCHANGED <<agent, hires, approval, policy, incident, spent, month>>

Step(t) ==
    \/ CreateEvent(t) \/ EvaluateCostEvent(t) \/ ComputeObservedAmount(t)
    \/ LookForSoft(t) \/ InsertSoft(t) \/ LookForHard(t) \/ InsertHard(t) \/ PauseScopeForBudget(t)
    \/ \E amount \in Amounts, active \in BOOLEAN : UpsertPolicy(t, amount, active)
    \/ UpsertObserves(t)
    \/ \E i \in Rows, amount \in Amounts : RaiseBudget(t, i, amount)
    \/ RaiseWrites(t) \/ ResumeScopeFromBudget(t) \/ ReadOpenIncidents(t) \/ ResolveOpenIncidents(t)
    \/ \E i \in Rows : KeepPaused(t, i)
    \/ \E a \in Approvals, to \in {"approved", "rejected"} : Decide(t, a, to)
    \/ Decided(t) \/ ActivatePendingApproval(t) \/ Activated(t) \/ Hired(t) \/ TerminateRejected(t)
    \/ \E a \in Approvals : SendBack(t, a)
    \/ SentBack(t)
    \/ \E button \in {"pause", "resume", "terminate"} : Press(t, button)
    \/ Pressed(t)

Next == NextMonth \/ Crash \/ \E t \in Threads : Step(t)

Spec == Init /\ [][Next]_vars

-----------------------------------------------------------------------------
Agents    == [status : {"none", "pending_approval", "active", "paused", "terminated"},
              reason : {"none", "manual", "budget"}]
Incidents == [type : {"none", "soft", "hard"}, month : 0..MaxMonths,
              status : {"none", "open", "resolved", "dismissed"}]
Requests  == [op : {"none", "cost", "edit", "raise", "keep", "decide", "revision_requested", "pending",
                    "pause", "resume", "terminate"},
              at : {"idle", "policy", "observe", "soft", "insertSoft", "hard", "insertHard", "pause",
                    "edited", "raise", "resumeScope", "resolve", "mark", "decide", "activate",
                    "activating", "hired", "terminate", "send", "write"},
              amount : Amounts, seen : Amounts, id : Approvals \union {NoRow}, rows : SUBSET Rows,
              to : {"none", "approved", "rejected"}]

(* The shape of the state.  An approval is made for a hard incident only,   *)
(* and what is paused for the budget is paused, unless a person resumed it  *)
(* or the activation of its hire was written over the pause.                *)
TypeOK ==
    /\ agent \in Agents
    /\ agent.reason = "budget" /\ ~past.excused => agent.status = "paused"
    /\ hires \in Nat
    /\ approval \in [Approvals -> {"none", "pending", "revision_requested", "approved", "rejected"}]
    /\ policy \in [amount : Amounts, active : BOOLEAN] /\ (policy.active => policy.amount > 0)
    /\ incident \in [Rows -> Incidents]
    /\ \A i \in Rows : incident[i].type # "none" => (incident[i].type = "hard" <=> approval[i] # "none")
    /\ spent \in Amounts /\ month \in 1..MaxMonths
    /\ thread \in [Threads -> Requests]
    /\ past \in [requests : Nat, excused : BOOLEAN, stale : BOOLEAN, outdated : BOOLEAN, crashed : BOOLEAN]

AtRest == \A t \in Threads : At(t, "idle")

(* When nothing is in progress, an agent that has reached the amount of its *)
(* active policy is not one that may run: because the cost is in the table  *)
(* before the policy is read, and the policy is written before the costs    *)
(* are, one of two requests that overlap sees both.  Excused: a person has  *)
(* resumed it, or its hire was activated after a person had paused or       *)
(* terminated it; a cost was recorded, or another edit made, between the    *)
(* look and the end of an edit; the soft incident's insert failed; the      *)
(* server crashed.                                                          *)
HardStopPauses ==
    AtRest /\ policy.active /\ spent >= policy.amount /\ ~past.excused /\ ~past.crashed
        => agent.status # "active"

(* And the other way: an agent that is paused for its budget has reached    *)
(* it, unless the pause came from a policy that had been replaced, the      *)
(* month is another one, or the server crashed.                             *)
BudgetPauseIsDue ==
    AtRest /\ agent.reason = "budget" /\ ~past.outdated /\ ~past.crashed
        => policy.amount > 0 /\ spent >= policy.amount

(* A pause by a person is never undone by the budget: only by a person who  *)
(* resumes or terminates the agent, or decides about its hire.              *)
ManualPauseStays ==
    [][agent = Paused("manual") /\ agent' # agent =>
         \E t \in Threads : thread[t].at \in {"write", "activating", "terminate"} /\ thread'[t] # thread[t]]_vars

(* However many approve it at once, a hire is carried out once, unless a    *)
(* revision was written over the decision.                                  *)
OneHire == ~past.stale => hires <= 1

(* A hire that is approved is carried out by the time nothing is in         *)
(* progress, also when it had been sent back before.                        *)
ApprovedIsHired ==
    AtRest /\ approval[Hire] = "approved" /\ ~past.crashed /\ ~past.stale
        => agent.status \notin {"none", "pending_approval"}
=============================================================================
