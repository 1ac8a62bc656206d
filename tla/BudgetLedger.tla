---------------------------- MODULE BudgetLedger ----------------------------
(***************************************************************************)
(* Cost events and budgets (backend/server/services/costs.go and           *)
(* budget_enforcement.go): CreateEvent inserts the event, recalculates the *)
(* monthly spending of its agent and its company, and looks for the        *)
(* budgets it has reached, in one transaction.                             *)
(*                                                                         *)
(* Transactions run at once under READ COMMITTED: a statement sees what is *)
(* committed and what its own transaction wrote; an UPDATE takes the lock  *)
(* of its row, waits for it if another transaction has it, and keeps it    *)
(* until the end of its transaction.  The table cost_events is modelled by *)
(* the sums the code computes over its committed rows; what a transaction  *)
(* has written and not committed is in its record.                         *)
(***************************************************************************)
EXTENDS Integers, FiniteSets

CONSTANTS
    Agents, Projects, Company,
    NoProject,
    Txs, NoTx,     \* bound: transactions open at the same time
    Costs,         \* bound: the costs of events, a refund below 0
    Amounts,       \* bound: the amounts of budgets, 0 for no budget
    Lifetime,      \* the scopes whose budget has window_kind "lifetime"
    MaxMonths,     \* bound: months that pass
    MaxEvents,     \* bound: cost events
    MaxEdits       \* bound: requests that set a budget

Scopes == Agents \cup Projects \cup {Company}
Months == 1..MaxMonths

ASSUME LedgerAssumption ==
    /\ Company \notin Agents \cup Projects
    /\ Agents \cap Projects = {}
    /\ NoProject \notin Scopes
    /\ NoTx \notin Txs
    /\ Costs \subseteq Int
    /\ Amounts \subseteq Nat
    /\ Lifetime \subseteq Projects
    /\ MaxMonths \in Nat \ {0}
    /\ MaxEvents \in Nat
    /\ MaxEdits \in Nat

VARIABLES
    month,     \* the current month
    policy,    \* budget_policies.amount of each scope, 0 without a policy
    asked,     \* history: the last amount an operator set for each scope
    inMonth,   \* SUM(cost_cents) of a scope's committed events, per month
    since,     \* SUM(cost_cents) of a scope's committed events since a month
    spent,     \* column spent_monthly_cents of the company and the agents
    incidents, \* incidents[s][w]: open hard incidents of scope s for window w
    paused,    \* scopes with pause_reason "budget" and a paused_at
    looks,     \* history: the pairs <<s, m>> of a scope a committed transaction
               \* touched and the month in which it looked at the budgets
    lock,      \* the transaction that holds the lock of a row
    tx,        \* the transactions
    events, edits  \* counters of the bounds

vars == <<month, policy, asked, inMonth, since, spent, incidents, paused, looks,
          lock, tx, events, edits>>
committed == <<policy, asked, inMonth, since, spent, incidents, paused, looks>>

\* month is that of event.OccurredAt; agentSum and companySum are the values of
\* spent_monthly_cents; window is the month in which the budgets are looked at.
NoEvent == [pc |-> "free", agent |-> Company, project |-> NoProject, cost |-> 0,
            month |-> 1, agentSum |-> 0, companySum |-> 0, triggered |-> {},
            created |-> {}, window |-> 1]

At(t, pc) == tx[t].pc = pc
Windows == 0..MaxMonths

\* resolveBudgetWindow, by its window_start.
Window(s, m) == IF s \in Lifetime THEN 0 ELSE m

\* policyMatchesCostEvent.
Touched(t) == {tx[t].agent, tx[t].project, Company} \ {NoProject}

\* computeObservedBudgetAmount in month m, over the committed events ...
Observed(s, m) == IF s \in Lifetime THEN since[s][1] ELSE inMonth[s][m]

\* ... and the event of transaction t.
OwnCost(t, s, m) ==
    IF s \in Touched(t) /\ (s \in Lifetime \/ tx[t].month = m) THEN tx[t].cost ELSE 0

Init ==
    /\ month = 1
    /\ policy \in [Scopes -> Amounts]
    /\ asked = policy
    /\ inMonth = [s \in Scopes |-> [m \in Months |-> 0]]
    /\ since = [s \in Scopes |-> [m \in Months |-> 0]]
    /\ spent = [s \in Agents \cup {Company} |-> 0]
    /\ incidents = [s \in Scopes |-> [w \in Windows |-> 0]]
    /\ paused = {}
    /\ looks = {}
    /\ lock = [s \in Agents \cup {Company} |-> NoTx]
    /\ tx = [t \in Txs |-> NoEvent]
    /\ events = 0 /\ edits = 0

-----------------------------------------------------------------------------
(* CreateEvent, one statement after another.                                *)

\* INSERT of the event.  Without an occurredAt the event is of this month;
\* nobody checks an occurredAt that a client reports (routes/costs.go:18), which
\* may be of an earlier month or of one to come.
Begin(t, a, p, c, m) ==
    /\ At(t, "free")
    /\ events < MaxEvents
    /\ events' = events + 1
    /\ tx' = [tx EXCEPT ![t] = [NoEvent EXCEPT !.pc = "sumAgent", !.agent = a,
                                    !.project = p, !.cost = c, !.month = m]]
    /\ UNCHANGED <<month, committed, lock, edits>>

SumAgent(t) ==
    /\ At(t, "sumAgent")
    /\ tx' = [tx EXCEPT ![t].pc = "lockAgent",
                        ![t].agentSum = since[tx[t].agent][tx[t].month] + tx[t].cost]
    /\ UNCHANGED <<month, committed, lock, events, edits>>

\* UPDATE of a row, once no other transaction has its lock.
LockRow(t, s, from, to) ==
    /\ At(t, from)
    /\ lock[s] = NoTx
    /\ lock' = [lock EXCEPT ![s] = t]
    /\ tx' = [tx EXCEPT ![t].pc = to]
    /\ UNCHANGED <<month, committed, events, edits>>

LockAgent(t) == LockRow(t, tx[t].agent, "lockAgent", "sumCompany")

SumCompany(t) ==
    /\ At(t, "sumCompany")
    /\ tx' = [tx EXCEPT ![t].pc = "lockCompany",
                        ![t].companySum = since[Company][tx[t].month] + tx[t].cost]
    /\ UNCHANGED <<month, committed, lock, events, edits>>

\* Mutant: the spending of the company is not updated, its row not locked.
SkipCompany(t) ==
    /\ At(t, "lockCompany")
    /\ tx' = [tx EXCEPT ![t].pc = "collect"]
    /\ UNCHANGED <<month, committed, lock, events, edits>>

LockCompany(t) == LockRow(t, Company, "lockCompany", "collect")

\* Mutant: a budget is reached when it is exceeded.
Exceeded(t, s) ==
    /\ policy[s] > 0
    /\ Observed(s, month) + OwnCost(t, s, month) > policy[s]

\* A budget is reached when the observed amount is at least its amount.
Reached(t, s) ==
    /\ policy[s] > 0
    /\ Observed(s, month) + OwnCost(t, s, month) >= policy[s]

\* upsertHardBudgetIncident finds no incident of this window.
NoIncident(s) == incidents[s][Window(s, month)] = 0

\* collectTriggeredBudgetScopes.
Collect(t) ==
    /\ At(t, "collect")
    /\ LET triggered == {s \in Touched(t) : Reached(t, s)}
       IN  tx' = [tx EXCEPT ![t].pc = "commit", ![t].window = month,
                            ![t].triggered = triggered,
                            ![t].created = {s \in triggered : NoIncident(s)}]
    /\ UNCHANGED <<month, committed, lock, events, edits>>

\* Mutant: the lock of the agent's row is kept.
ReleasedCompany(t) == [lock EXCEPT ![Company] = IF @ = t THEN NoTx ELSE @]

Released(t) == [s \in Agents \cup {Company} |-> IF lock[s] = t THEN NoTx ELSE lock[s]]

\* COMMIT: what the transaction wrote is there for everybody.
Commit(t) ==
    /\ At(t, "commit")
    /\ inMonth' = [s \in Scopes |-> [k \in Months |-> inMonth[s][k] +
            IF s \in Touched(t) /\ k = tx[t].month THEN tx[t].cost ELSE 0]]
    /\ since' = [s \in Scopes |-> [k \in Months |-> since[s][k] +
            IF s \in Touched(t) /\ k <= tx[t].month THEN tx[t].cost ELSE 0]]
    /\ spent' = [spent EXCEPT ![tx[t].agent] = tx[t].agentSum,
                              ![Company] = tx[t].companySum]
    /\ incidents' = [s \in Scopes |-> [w \in Windows |-> incidents[s][w] +
            IF s \in tx[t].created /\ w = Window(s, tx[t].window) THEN 1 ELSE 0]]
    /\ paused' = paused \cup tx[t].triggered
    /\ looks' = looks \cup {<<s, tx[t].window>> : s \in Touched(t)}
    /\ lock' = Released(t)
    /\ tx' = [tx EXCEPT ![t] = NoEvent]
    /\ UNCHANGED <<month, policy, asked, events, edits>>

\* A statement fails, or the server crashes: the transaction is rolled back.
Rollback(t) ==
    /\ ~At(t, "free")
    /\ lock' = Released(t)
    /\ tx' = [tx EXCEPT ![t] = NoEvent]
    /\ UNCHANGED <<month, committed, events, edits>>

-----------------------------------------------------------------------------
(* The operator, and time.                                                  *)

\* ResumeAgentHandler updates the row of the agent, so it waits for its lock.
ResumeAgent(a) ==
    /\ a \in paused
    /\ lock[a] = NoTx
    /\ paused' = paused \ {a}
    /\ UNCHANGED <<month, policy, asked, inMonth, since, spent, incidents, looks,
                   lock, tx, events, edits>>

\* FirstOrCreate, then Save: where a policy exists, it is loaded over what the
\* request asked for, and saved as it was.
SetBudget(s, amount) ==
    /\ edits < MaxEdits
    /\ edits' = edits + 1
    /\ amount > 0
    /\ asked' = [asked EXCEPT ![s] = amount]
    /\ policy' = [policy EXCEPT ![s] = IF @ = 0 THEN amount ELSE @]
    /\ UNCHANGED <<month, inMonth, since, spent, incidents, paused, looks, lock, tx,
                   events>>

NewMonth ==
    /\ month < MaxMonths
    /\ month' = month + 1
    /\ UNCHANGED <<committed, lock, tx, events, edits>>

-----------------------------------------------------------------------------
Step(t) == SumAgent(t) \/ SumCompany(t) \/ Collect(t) \/ Commit(t)

Next ==
    \/ \E t \in Txs, a \in Agents, p \in Projects \cup {NoProject}, c \in Costs, m \in Months :
        Begin(t, a, p, c, m)
    \/ \E t \in Txs : Step(t) \/ LockAgent(t) \/ LockCompany(t) \/ Rollback(t)
    \/ \E a \in Agents : ResumeAgent(a)
    \/ \E s \in Agents \cup {Company}, amount \in Amounts : SetBudget(s, amount)
    \/ NewMonth

Spec == Init /\ [][Next]_vars

\* Statements return, and the transactions that wait for a lock are queued.
Fairness ==
    \A t \in Txs : WF_vars(Step(t)) /\ SF_vars(LockAgent(t)) /\ SF_vars(LockCompany(t))
FairSpec == Spec /\ Fairness

-----------------------------------------------------------------------------
(* Properties.                                                              *)

TxType ==
    [pc : {"free", "sumAgent", "lockAgent", "sumCompany", "lockCompany", "collect", "commit"},
     agent : Agents \cup {Company}, project : Projects \cup {NoProject},
     cost : Int, month : Months, agentSum : Int, companySum : Int,
     triggered : SUBSET Scopes, created : SUBSET Scopes, window : Months]

\* Every variable has its type; an event without an occurredAt got a month.
TypeOK ==
    /\ month \in Months
    /\ policy \in [Scopes -> Nat]
    /\ asked \in [Scopes -> Nat]
    /\ inMonth \in [Scopes -> [Months -> Int]]
    /\ since \in [Scopes -> [Months -> Int]]
    /\ spent \in [Agents \cup {Company} -> Int]
    /\ incidents \in [Scopes -> [Windows -> Nat]]
    /\ paused \subseteq Scopes
    /\ looks \subseteq Scopes \X Months
    /\ lock \in [Agents \cup {Company} -> Txs \cup {NoTx}]
    /\ tx \in [Txs -> TxType]
    /\ events \in Nat
    /\ edits \in Nat

\* Although no statement locks the events it sums, and two transactions do not
\* see each other's event, a budget that the committed events reach has its
\* incident: the row of the company, updated before collectTriggeredBudgetScopes,
\* makes the transactions of a company look one after another (costs.go:56-60).
\* Only a month that clients reported events of before it began may be reached
\* without one, until its first event of the scope: nobody looked in that month.
HardStopNotMissed ==
    \A s \in Scopes :
        /\ policy[s] > 0 /\ Observed(s, month) >= policy[s]
        /\ s \in Lifetime \/ <<s, month>> \in looks
        => incidents[s][Window(s, month)] > 0

\* The budget plan, "one incident per threshold per window": the lookup and the
\* insert of upsertHardBudgetIncident are separate statements, and the index of
\* the model is not unique, yet no window has two incidents.
OneIncidentPerWindow == \A s \in Scopes, w \in Windows : incidents[s][w] <= 1

\* The ledger behaves as if each event were recorded, and its budgets looked at
\* and stopped, at one instant: the commit of its transaction.
Stops == INSTANCE BudgetStops WITH
    incidents <- {sw \in Scopes \X Windows : incidents[sw[1]][sw[2]] > 0}
ImplementsStops == Stops!StopsSpec

\* No transaction waits for ever: the rows are locked in one order, the agent
\* before the company (costs.go:45 and :56).
TransactionsEnd == \A t \in Txs : ~At(t, "free") ~> At(t, "free")

-----------------------------------------------------------------------------
(* What a comment and a guide say, and the code does not do: TLC refutes    *)
(* both, and README.md says how.                                            *)

\* costs.go:21, "updates monthly spend aggregates": when no transaction is open
\* the company's spending is what its events of this month cost.
SpentIsTheMonthsCost ==
    (\A t \in Txs : At(t, "free")) => spent[Company] = inMonth[Company][month]

\* GetInvocationBlock of agent a: a scope is paused, or its budget has an open
\* incident, whatever the window, or is reached.
Blocked(a) ==
    \E s \in {a, Company} :
        \/ s \in paused
        \/ /\ policy[s] > 0
           /\ \/ \E w \in Windows : incidents[s][w] > 0
              \/ Observed(s, month) >= policy[s]

\* docs/guides/board-operator/costs-and-budgets.md:49, "can be resumed by
\* increasing its budget or waiting for the next calendar month".
ResumedIsNotBlocked ==
    \A a \in Agents :
        /\ a \notin paused
        /\ \A s \in {a, Company} : asked[s] = 0 \/ Observed(s, month) < asked[s]
        /\ policy[Company] = 0
        => ~Blocked(a)
=============================================================================
