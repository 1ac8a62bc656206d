---------------------------- MODULE BudgetStops ----------------------------
(***************************************************************************)
(* What the budgets of a company promise, as if every cost event were      *)
(* recorded at one instant: the event is added to the spending of each     *)
(* scope it touches, and each touched scope whose spending has then        *)
(* reached its budget is paused and has an incident for its window.        *)
(* BudgetLedger, with its concurrent transactions, implements this.        *)
(***************************************************************************)
EXTENDS Integers

CONSTANTS Scopes,    \* the company, its agents and its projects
          Agents,    \* the scopes an operator can resume
          Lifetime,  \* the scopes whose budget counts all events, not a month's
          Months,    \* the months, naturals from 1
          Costs      \* the costs an event may have

VARIABLES month,     \* the current month
          policy,    \* amount of the budget of each scope, 0 if it has none
          inMonth,   \* inMonth[s][m]: cost of the events of scope s in month m
          since,     \* since[s][m]: cost of the events of scope s from month m on
          incidents, \* the pairs <<s, window>> with an open hard incident
          paused     \* the scopes that are paused because of their budget

stopVars == <<month, policy, inMonth, since, incidents, paused>>

Window(s, m) == IF s \in Lifetime THEN 0 ELSE m
Observed(s, m) == IF s \in Lifetime THEN since[s][1] ELSE inMonth[s][m]

StopsInit ==
    /\ month = 1
    /\ policy \in [Scopes -> Nat]
    /\ inMonth = [s \in Scopes |-> [m \in Months |-> 0]]
    /\ since = [s \in Scopes |-> [m \in Months |-> 0]]
    /\ incidents = {}
    /\ paused = {}

\* An event of month m and cost c; the budgets are looked at in month now.
Charge(touched, c, m, now) ==
    /\ inMonth' = [s \in Scopes |-> [k \in Months |->
            inMonth[s][k] + IF s \in touched /\ k = m THEN c ELSE 0]]
    /\ since' = [s \in Scopes |-> [k \in Months |->
            since[s][k] + IF s \in touched /\ k <= m THEN c ELSE 0]]
    /\ LET reached == {s \in touched : policy[s] > 0 /\ Observed(s, now)' >= policy[s]}
       IN  /\ incidents' = incidents \cup {<<s, Window(s, now)>> : s \in reached}
           /\ paused' = paused \cup reached
    /\ UNCHANGED <<month, policy>>

Resume(a) ==
    /\ paused' = paused \ {a}
    /\ UNCHANGED <<month, policy, inMonth, since, incidents>>

NewMonth ==
    /\ month' = month + 1
    /\ month' \in Months
    /\ UNCHANGED <<policy, inMonth, since, incidents, paused>>

StopsNext ==
    \/ \E touched \in SUBSET Scopes, c \in Costs, m, now \in Months :
        now <= month /\ Charge(touched, c, m, now)
    \/ \E a \in Agents : Resume(a)
    \/ NewMonth

StopsSpec == StopsInit /\ [][StopsNext]_stopVars
=============================================================================
