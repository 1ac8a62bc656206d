------------------------- MODULE BudgetLedgerProofs -------------------------
(***************************************************************************)
(* Proofs about BudgetLedger, for any agents, projects, transactions and   *)
(* bounds.  The argument rests on one lock: a transaction that looks for   *)
(* the budgets it has reached, or has looked, holds the row of the company *)
(* (LocksHeld), so what it found is still true at its commit (CreatedOnce  *)
(* and StopsDecided), it looked in no earlier month than anybody before    *)
(* (LooksBehind), and no budget or window slips between two of them.       *)
(***************************************************************************)
EXTENDS BudgetLedger, TLAPS

\* A transaction keeps the locks of the rows it has updated.
LocksHeld ==
    \A t \in Txs :
        /\ tx[t].pc \in {"sumCompany", "lockCompany", "collect", "commit"}
            => lock[tx[t].agent] = t
        /\ tx[t].pc \in {"collect", "commit"} => lock[Company] = t

\* An open transaction has the event of an agent.
EventsKnown ==
    \A t \in Txs : ~At(t, "free") => tx[t].agent \in Agents /\ tx[t].cost \in Costs

\* Nobody has looked at the budgets in a month to come.
LooksPast == \A look \in looks : look[2] <= month

\* What has been committed was looked at in no later month than what a
\* transaction is about to commit.
LooksBehind ==
    \A t \in Txs : At(t, "commit") => \A look \in looks : look[2] <= tx[t].window

\* Until it commits, a transaction creates the incidents that are not there.
CreatedOnce ==
    \A t \in Txs : At(t, "commit") =>
        tx[t].created = {s \in tx[t].triggered : incidents[s][Window(s, tx[t].window)] = 0}

\* ... and pauses the scopes whose budget its event makes the ledger reach.
StopsDecided ==
    \A t \in Txs : At(t, "commit") =>
        /\ tx[t].window <= month
        /\ tx[t].triggered = {s \in Touched(t) :
                /\ policy[s] > 0
                /\ Observed(s, tx[t].window) + OwnCost(t, s, tx[t].window) >= policy[s]}

TypedLocks == TypeOK /\ LocksHeld
Dated == TypedLocks /\ EventsKnown

-----------------------------------------------------------------------------
\* The record of a free transaction is well-typed.
LEMMA NoEventOK == NoEvent \in TxType
  BY LedgerAssumption DEF NoEvent, TxType, Months, Scopes

\* A statement of a transaction changes its pc and fields it has computed.
PCs == {"free", "sumAgent", "lockAgent", "sumCompany", "lockCompany", "collect", "commit"}

LEMMA StatementOK ==
  ASSUME NEW rec \in TxType, NEW pc \in PCs, NEW n \in Int
  PROVE  /\ [rec EXCEPT !.pc = pc] \in TxType
         /\ [rec EXCEPT !.pc = pc, !.agentSum = n] \in TxType
         /\ [rec EXCEPT !.pc = pc, !.companySum = n] \in TxType
  BY DEF TxType, PCs

LEMMA CollectedOK ==
  ASSUME NEW rec \in TxType, NEW w \in Months, NEW found \in SUBSET Scopes,
         NEW new \in SUBSET Scopes
  PROVE  [rec EXCEPT !.pc = "commit", !.window = w, !.triggered = found,
                     !.created = new] \in TxType
  BY DEF TxType

\* The scopes an event touches are scopes.
LEMMA TouchedOK ==
  ASSUME TypeOK, NEW t \in Txs
  PROVE  Touched(t) \subseteq Scopes
  BY LedgerAssumption DEF TypeOK, TxType, Touched, Scopes

\* Windows are windows.
LEMMA WindowOK ==
  ASSUME NEW s \in Scopes, NEW m \in Months
  PROVE  Window(s, m) \in Windows
  BY LedgerAssumption DEF Window, Windows, Months

\* Amounts are naturals.
LEMMA AmountsOK ==
  ASSUME TypeOK, NEW t \in Txs, NEW s \in Scopes, NEW m \in Months
  PROVE  Observed(s, m) \in Int /\ OwnCost(t, s, m) \in Int /\ policy[s] \in Nat
  BY LedgerAssumption, SMTT(30) DEF TypeOK, TxType, Observed, OwnCost, Months

-----------------------------------------------------------------------------
(* Types.                                                                   *)

LEMMA InitTyped == Init => TypeOK
<1> SUFFICES ASSUME Init PROVE TypeOK
  OBVIOUS
<1>1. 1 \in Months /\ 0 \in Nat
  BY LedgerAssumption DEF Months
<1>2. policy \in [Scopes -> Nat] /\ asked \in [Scopes -> Nat]
  BY LedgerAssumption DEF Init
<1>3. inMonth \in [Scopes -> [Months -> Int]] /\ since \in [Scopes -> [Months -> Int]]
  BY <1>1 DEF Init
<1>4. incidents \in [Scopes -> [Windows -> Nat]]
  BY <1>1 DEF Init
<1>5. spent \in [Agents \cup {Company} -> Int]
  BY <1>1 DEF Init
<1>6. tx \in [Txs -> TxType]
  BY NoEventOK DEF Init
<1> QED
  BY <1>1, <1>2, <1>3, <1>4, <1>5, <1>6 DEF Init, TypeOK

\* Every action keeps the types.
LEMMA NextTyped == TypeOK /\ [Next]_vars => TypeOK'
<1> SUFFICES ASSUME TypeOK, [Next]_vars PROVE TypeOK'
  OBVIOUS
<1> USE LedgerAssumption DEF TypeOK
<1>1. ASSUME NEW t \in Txs, NEW a \in Agents, NEW p \in Projects \cup {NoProject},
             NEW c \in Costs, NEW m \in Months, Begin(t, a, p, c, m)
      PROVE  TypeOK'
  <2>1. [NoEvent EXCEPT !.pc = "sumAgent", !.agent = a, !.project = p, !.cost = c,
                        !.month = m] \in TxType
    BY NoEventOK DEF TxType, NoEvent
  <2> QED BY <1>1, <2>1 DEF Begin, committed
<1>2. ASSUME NEW t \in Txs, SumAgent(t) PROVE TypeOK'
  <2>1. since[tx[t].agent][tx[t].month] + tx[t].cost \in Int
    BY DEF TxType, Scopes
  <2>2. [tx[t] EXCEPT !.pc = "lockAgent", !.agentSum = since[tx[t].agent][tx[t].month] + tx[t].cost]
            \in TxType
    BY <2>1, StatementOK DEF PCs
  <2>3. tx' = [tx EXCEPT ![t] = [tx[t] EXCEPT !.pc = "lockAgent",
                                    !.agentSum = since[tx[t].agent][tx[t].month] + tx[t].cost]]
    BY <1>2 DEF SumAgent
  <2>4. tx' \in [Txs -> TxType]
    BY <2>2, <2>3
  <2> QED BY <1>2, <2>4 DEF SumAgent, committed
<1>3. ASSUME NEW t \in Txs, SumCompany(t) PROVE TypeOK'
  <2>1. since[Company][tx[t].month] + tx[t].cost \in Int
    BY DEF TxType, Scopes
  <2>2. [tx[t] EXCEPT !.pc = "lockCompany", !.companySum = since[Company][tx[t].month] + tx[t].cost]
            \in TxType
    BY <2>1, StatementOK DEF PCs
  <2>3. tx' = [tx EXCEPT ![t] = [tx[t] EXCEPT !.pc = "lockCompany",
                                    !.companySum = since[Company][tx[t].month] + tx[t].cost]]
    BY <1>3 DEF SumCompany
  <2>4. tx' \in [Txs -> TxType]
    BY <2>2, <2>3
  <2> QED BY <1>3, <2>4 DEF SumCompany, committed
<1>4. ASSUME NEW t \in Txs, LockAgent(t) PROVE TypeOK'
  <2>1. tx' = [tx EXCEPT ![t] = [tx[t] EXCEPT !.pc = "sumCompany"]]
    BY <1>4 DEF LockAgent, LockRow
  <2>2. tx' \in [Txs -> TxType]
    BY <2>1, StatementOK DEF PCs
  <2> QED BY <1>4, <2>2 DEF LockAgent, LockRow, committed
<1>5. ASSUME NEW t \in Txs, LockCompany(t) PROVE TypeOK'
  <2>1. tx' = [tx EXCEPT ![t] = [tx[t] EXCEPT !.pc = "collect"]]
    BY <1>5 DEF LockCompany, LockRow
  <2>2. tx' \in [Txs -> TxType]
    BY <2>1, StatementOK DEF PCs
  <2> QED BY <1>5, <2>2 DEF LockCompany, LockRow, committed
<1>6. ASSUME NEW t \in Txs, Collect(t) PROVE TypeOK'
  <2> DEFINE found == {s \in Touched(t) : Reached(t, s)}
             new == {s \in found : NoIncident(s)}
  <2>1. found \in SUBSET Scopes /\ new \in SUBSET Scopes
    BY TouchedOK
  <2> HIDE DEF found, new
  <2>2. [tx[t] EXCEPT !.pc = "commit", !.window = month, !.triggered = found,
                      !.created = new] \in TxType
    BY <2>1, CollectedOK
  <2>3. tx' = [tx EXCEPT ![t] = [tx[t] EXCEPT !.pc = "commit", !.window = month,
                                    !.triggered = found, !.created = new]]
    BY <1>6 DEF Collect, found, new
  <2>4. tx' \in [Txs -> TxType]
    BY <2>2, <2>3
  <2> QED BY <1>6, <2>4 DEF Collect, committed
<1>7. ASSUME NEW t \in Txs, Commit(t) PROVE TypeOK'
  <2>1. inMonth' \in [Scopes -> [Months -> Int]] /\ since' \in [Scopes -> [Months -> Int]]
    BY <1>7 DEF Commit, TxType
  <2>2. spent' \in [Agents \cup {Company} -> Int]
    BY <1>7 DEF Commit, TxType
  <2>3. incidents' \in [Scopes -> [Windows -> Nat]]
    BY <1>7 DEF Commit
  <2>4. paused' \subseteq Scopes
    BY <1>7 DEF Commit, TxType
  <2>5. lock' \in [Agents \cup {Company} -> Txs \cup {NoTx}] /\ tx' \in [Txs -> TxType]
    BY <1>7, NoEventOK DEF Commit, Released
  <2>6. looks' \subseteq Scopes \X Months
    BY <1>7, TouchedOK DEF Commit, TxType
  <2> QED BY <1>7, <2>1, <2>2, <2>3, <2>4, <2>5, <2>6 DEF Commit
<1>8. ASSUME NEW t \in Txs, Rollback(t) PROVE TypeOK'
  BY <1>8, NoEventOK DEF Rollback, Released, committed
<1>9. ASSUME NEW a \in Agents, ResumeAgent(a) PROVE TypeOK'
  BY <1>9 DEF ResumeAgent
<1>10. ASSUME NEW s \in Agents \cup {Company}, NEW amount \in Amounts, SetBudget(s, amount)
       PROVE  TypeOK'
  BY <1>10 DEF SetBudget, Scopes
<1>11. CASE NewMonth
  BY <1>11 DEF NewMonth, Months, committed
<1>12. CASE UNCHANGED vars
  BY <1>12 DEF vars
<1> QED BY <1>1, <1>2, <1>3, <1>4, <1>5, <1>6, <1>7, <1>8, <1>9, <1>10, <1>11, <1>12
        DEF Next, Step

\* TypeOK, whatever the bounds: an event always gets a month (costs.go:24-26).
THEOREM LedgerTyped == Spec => []TypeOK
  BY InitTyped, NextTyped, PTL DEF Spec

-----------------------------------------------------------------------------
(* What the statements of a transaction do to its record.                    *)

SameEvent(t) ==
    /\ tx'[t].agent = tx[t].agent
    /\ tx'[t].project = tx[t].project
    /\ tx'[t].cost = tx[t].cost
    /\ tx'[t].month = tx[t].month

OthersSame(t) == \A u \in Txs \ {t} : tx'[u] = tx[u]

Moves(t, from, to) == tx[t].pc = from /\ tx'[t].pc = to /\ SameEvent(t) /\ OthersSame(t)

LEMMA SumMoves ==
  ASSUME TypeOK, NEW t \in Txs
  PROVE  /\ SumAgent(t) => Moves(t, "sumAgent", "lockAgent")
         /\ SumCompany(t) => Moves(t, "sumCompany", "lockCompany")
<1> USE DEF Moves, SameEvent, OthersSame, TypeOK, TxType, At
<1>1. ASSUME SumAgent(t) PROVE Moves(t, "sumAgent", "lockAgent")
  <2> DEFINE n == since[tx[t].agent][tx[t].month] + tx[t].cost
  <2>1. tx' = [tx EXCEPT ![t] = [tx[t] EXCEPT !.pc = "lockAgent", !.agentSum = n]]
    BY <1>1 DEF SumAgent
  <2> HIDE DEF n
  <2> QED BY <1>1, <2>1 DEF SumAgent
<1>2. ASSUME SumCompany(t) PROVE Moves(t, "sumCompany", "lockCompany")
  <2> DEFINE n == since[Company][tx[t].month] + tx[t].cost
  <2>1. tx' = [tx EXCEPT ![t] = [tx[t] EXCEPT !.pc = "lockCompany", !.companySum = n]]
    BY <1>2 DEF SumCompany
  <2> HIDE DEF n
  <2> QED BY <1>2, <2>1 DEF SumCompany
<1> QED BY <1>1, <1>2

LEMMA LockMoves ==
  ASSUME TypeOK, NEW t \in Txs
  PROVE  /\ LockAgent(t) => Moves(t, "lockAgent", "sumCompany")
         /\ LockCompany(t) => Moves(t, "lockCompany", "collect")
  BY DEF LockAgent, LockCompany, LockRow, Moves, SameEvent, OthersSame, TypeOK, TxType, At

\* What collectTriggeredBudgetScopes leaves in the record.
LEMMA CollectMoves ==
  ASSUME TypeOK, NEW t \in Txs, Collect(t)
  PROVE  /\ Moves(t, "collect", "commit")
         /\ tx'[t].window = month
         /\ tx'[t].triggered = {s \in Touched(t) : Reached(t, s)}
         /\ tx'[t].created = {s \in tx'[t].triggered : NoIncident(s)}
<1> DEFINE found == {s \in Touched(t) : Reached(t, s)}
           new == {s \in found : NoIncident(s)}
<1>1. tx' = [tx EXCEPT ![t] = [tx[t] EXCEPT !.pc = "commit", !.window = month,
                                  !.triggered = found, !.created = new]]
  BY DEF Collect
<1>2. tx[t].pc = "collect"
  BY DEF Collect, At
<1>3. /\ Moves(t, "collect", "commit")
      /\ tx'[t].window = month /\ tx'[t].triggered = found /\ tx'[t].created = new
  <2> HIDE DEF found, new
  <2> QED BY <1>1, <1>2 DEF Moves, SameEvent, OthersSame, TypeOK, TxType
<1> QED BY <1>3

-----------------------------------------------------------------------------
(* Locks and months.                                                        *)

\* Nobody takes a lock that is held, and only its holder gives it back.
LEMMA NextLocks == TypedLocks /\ [Next]_vars => LocksHeld'
<1> SUFFICES ASSUME TypeOK, LocksHeld, [Next]_vars PROVE LocksHeld'
  BY DEF TypedLocks
<1> USE LedgerAssumption DEF TypeOK, LocksHeld, TxType
<1>1. ASSUME NEW t \in Txs, NEW a \in Agents, NEW p \in Projects \cup {NoProject},
             NEW c \in Costs, NEW m \in Months, Begin(t, a, p, c, m)
      PROVE  LocksHeld'
  BY <1>1 DEF Begin, NoEvent
<1>2. ASSUME NEW t \in Txs, SumAgent(t) \/ SumCompany(t) \/ Collect(t) PROVE LocksHeld'
  <2>1. lock' = lock
    BY <1>2 DEF SumAgent, SumCompany, Collect
  <2>2. \/ Moves(t, "sumAgent", "lockAgent") \/ Moves(t, "sumCompany", "lockCompany")
        \/ Moves(t, "collect", "commit")
    BY <1>2, SumMoves, CollectMoves
  <2> QED BY <2>1, <2>2 DEF Moves, SameEvent, OthersSame
<1>3. ASSUME NEW t \in Txs, LockAgent(t) PROVE LocksHeld'
  BY <1>3 DEF LockAgent, LockRow, At
<1>4. ASSUME NEW t \in Txs, LockCompany(t) PROVE LocksHeld'
  BY <1>4 DEF LockCompany, LockRow, At
<1>5. ASSUME NEW t \in Txs, Commit(t) \/ Rollback(t) PROVE LocksHeld'
  <2>1. lock' = Released(t) /\ tx' = [tx EXCEPT ![t] = NoEvent]
    BY <1>5 DEF Commit, Rollback
  <2> QED BY <2>1 DEF Released, NoEvent
<1>6. ASSUME UNCHANGED <<lock, tx>> PROVE LocksHeld'
  BY <1>6
<1> QED
  BY <1>1, <1>2, <1>3, <1>4, <1>5, <1>6
  DEF Next, Step, ResumeAgent, SetBudget, NewMonth, vars

\* The event of a transaction stays what it is.
LEMMA NextKnown == TypedLocks /\ EventsKnown /\ [Next]_vars => EventsKnown'
<1> SUFFICES ASSUME TypeOK, EventsKnown, [Next]_vars PROVE EventsKnown'
  BY DEF TypedLocks
<1> USE DEF TypeOK, EventsKnown, TxType, At
<1>1. ASSUME NEW t \in Txs, NEW a \in Agents, NEW p \in Projects \cup {NoProject},
             NEW c \in Costs, NEW m \in Months, Begin(t, a, p, c, m)
      PROVE  EventsKnown'
  BY <1>1 DEF Begin, NoEvent
<1>2. ASSUME NEW t \in Txs,
             SumAgent(t) \/ SumCompany(t) \/ Collect(t) \/ LockAgent(t) \/ LockCompany(t)
      PROVE  EventsKnown'
  <2>1. SameEvent(t) /\ OthersSame(t) /\ tx[t].pc # "free"
    BY <1>2, SumMoves, LockMoves, CollectMoves DEF Moves
  <2> QED BY <2>1 DEF SameEvent, OthersSame
<1>3. ASSUME NEW t \in Txs, Commit(t) \/ Rollback(t) PROVE EventsKnown'
  <2>1. tx' = [tx EXCEPT ![t] = NoEvent] /\ NoEvent.pc = "free"
    BY <1>3 DEF Commit, Rollback, NoEvent
  <2>2. \A u \in Txs : tx'[u].pc # "free" => tx'[u] = tx[u]
    BY <2>1
  <2> QED BY <2>2
<1>4. ASSUME UNCHANGED tx PROVE EventsKnown'
  BY <1>4
<1> QED
  BY <1>1, <1>2, <1>3, <1>4 DEF Next, Step, ResumeAgent, SetBudget, NewMonth, vars

LEMMA InitDated == Init => Dated /\ CreatedOnce /\ StopsDecided
  BY InitTyped, LedgerAssumption
  DEF Init, Dated, TypedLocks, LocksHeld, EventsKnown, CreatedOnce, StopsDecided,
      NoEvent, At, Scopes

LEMMA NextDated == Dated /\ [Next]_vars => Dated'
  BY NextTyped, NextLocks, NextKnown DEF Dated, TypedLocks

-----------------------------------------------------------------------------
(* Incidents.                                                               *)

\* Two transactions are not both between the company's row and their end.
LEMMA OneLooks ==
  ASSUME TypedLocks, NEW t \in Txs, NEW u \in Txs,
         tx[t].pc \in {"collect", "commit"}, tx[u].pc \in {"collect", "commit"}
  PROVE  t = u
  BY DEF TypedLocks, LocksHeld

\* What a commit does to the incidents of a scope.
LEMMA CommitIncidents ==
  ASSUME NEW t \in Txs, Commit(t), NEW s \in Scopes, NEW w \in Windows
  PROVE  incidents'[s][w] = incidents[s][w] +
            IF s \in tx[t].created /\ w = Window(s, tx[t].window) THEN 1 ELSE 0
  BY DEF Commit

\* The other actions leave the incidents alone.
LEMMA IncidentsSame ==
  ASSUME Next, incidents' # incidents
  PROVE  \E t \in Txs : Commit(t)
  BY DEF Next, Step, Begin, SumAgent, SumCompany, Collect, LockAgent, LockCompany, LockRow,
     Rollback, ResumeAgent, SetBudget, NewMonth, committed

\* A transaction gets to its commit by Collect, and nothing else touches it there.
LEMMA CommitFromCollect ==
  ASSUME TypeOK, [Next]_vars, NEW t \in Txs, tx'[t].pc = "commit"
  PROVE  \/ Collect(t)
         \/ tx'[t] = tx[t] /\ tx[t].pc = "commit"
<1> USE DEF TypeOK
<1>1. ASSUME NEW u \in Txs, NEW a \in Agents, NEW p \in Projects \cup {NoProject},
             NEW c \in Costs, NEW m \in Months, Begin(u, a, p, c, m)
      PROVE  tx'[t] = tx[t]
  BY <1>1 DEF Begin, NoEvent
<1>2. ASSUME NEW u \in Txs, SumAgent(u) \/ SumCompany(u) \/ LockAgent(u) \/ LockCompany(u)
      PROVE  tx'[t] = tx[t]
  BY <1>2, SumMoves, LockMoves DEF Moves, OthersSame
<1>3. ASSUME NEW u \in Txs, Collect(u), u # t PROVE tx'[t] = tx[t]
  BY <1>3, CollectMoves DEF Moves, OthersSame
<1>4. ASSUME NEW u \in Txs, Commit(u) \/ Rollback(u) PROVE tx'[t] = tx[t]
  <2>1. tx' = [tx EXCEPT ![u] = NoEvent]
    BY <1>4 DEF Commit, Rollback
  <2> QED BY <2>1 DEF NoEvent
<1>5. ASSUME UNCHANGED tx PROVE tx'[t] = tx[t]
  BY <1>5
<1>6. Collect(t) \/ tx'[t] = tx[t]
  BY <1>1, <1>2, <1>3, <1>4, <1>5 DEF Next, Step, ResumeAgent, SetBudget, NewMonth, vars
<1> QED BY <1>6

\* While a transaction waits to commit, nobody else commits.
LEMMA CommitAlone ==
  ASSUME TypedLocks, [Next]_vars, NEW t \in Txs, tx'[t].pc = "commit"
  PROVE  /\ incidents' = incidents /\ inMonth' = inMonth /\ since' = since
         /\ looks' = looks
<1>1. tx[t].pc \in {"collect", "commit"}
  BY CommitFromCollect DEF Collect, At, TypedLocks
<1>2. ASSUME NEW u \in Txs, Commit(u) PROVE FALSE
  <2>1. u = t
    BY <1>1, <1>2, OneLooks DEF Commit, At
  <2>2. tx'[t] = NoEvent
    BY <1>2, <2>1 DEF Commit, TypedLocks, TypeOK
  <2> QED BY <2>2 DEF NoEvent
<1>3. [\E u \in Txs : Commit(u)]_<<incidents, inMonth, since, looks>>
  BY DEF Next, Step, Begin, SumAgent, SumCompany, Collect, LockAgent, LockCompany, LockRow,
     Rollback, ResumeAgent, SetBudget, NewMonth, committed, vars
<1> QED BY <1>2, <1>3

LEMMA NextCreated == TypedLocks /\ CreatedOnce /\ [Next]_vars => CreatedOnce'
<1> SUFFICES ASSUME TypedLocks, CreatedOnce, [Next]_vars, NEW t \in Txs, At(t, "commit")'
             PROVE  (tx[t].created =
                       {s \in tx[t].triggered : incidents[s][Window(s, tx[t].window)] = 0})'
  BY DEF CreatedOnce
<1>1. incidents' = incidents
  BY CommitAlone DEF At
<1>2. CASE Collect(t)
  BY <1>1, <1>2, CollectMoves DEF TypedLocks, NoIncident, Window
<1>3. CASE tx'[t] = tx[t] /\ tx[t].pc = "commit"
  BY <1>1, <1>3 DEF CreatedOnce, Window, At
<1> QED BY <1>2, <1>3, CommitFromCollect DEF At, TypedLocks

\* Only a window without an incident gets one.
LEMMA NextOneIncident ==
  TypeOK /\ CreatedOnce /\ OneIncidentPerWindow /\ [Next]_vars => OneIncidentPerWindow'
<1> SUFFICES ASSUME TypeOK, CreatedOnce, OneIncidentPerWindow, [Next]_vars
             PROVE  OneIncidentPerWindow'
  OBVIOUS
<1>1. ASSUME NEW t \in Txs, Commit(t), NEW s \in Scopes, NEW w \in Windows
      PROVE  incidents'[s][w] <= 1
  <2>1. incidents[s][w] \in Nat /\ incidents[s][w] <= 1
    BY DEF TypeOK, OneIncidentPerWindow
  <2>2. s \in tx[t].created /\ w = Window(s, tx[t].window) => incidents[s][w] = 0
    BY <1>1 DEF CreatedOnce, Commit
  <2> QED BY <1>1, <2>1, <2>2, CommitIncidents
<1>2. CASE UNCHANGED incidents
  BY <1>2 DEF OneIncidentPerWindow
<1> QED BY <1>1, <1>2, IncidentsSame DEF OneIncidentPerWindow, vars

\* OneIncidentPerWindow, for any number of transactions and any operator: the
\* lookup and the insert of upsertHardBudgetIncident are under the company's lock.
THEOREM IncidentsUnique == Spec => []OneIncidentPerWindow
<1> DEFINE Inv == TypedLocks /\ CreatedOnce /\ OneIncidentPerWindow
<1>1. Init => Inv
  <2>1. Init => OneIncidentPerWindow
    BY DEF Init, OneIncidentPerWindow
  <2> QED BY <2>1, InitDated DEF Dated
<1>2. Inv /\ [Next]_vars => Inv'
  BY NextTyped, NextLocks, NextCreated, NextOneIncident DEF TypedLocks
<1> QED BY <1>1, <1>2, PTL DEF Spec

-----------------------------------------------------------------------------
(* Hard stops.  Budgets set while the ledger runs are looked at with the    *)
(* next event only, so here the budgets are those of the initial state.     *)

NoEdits == MaxEdits = 0

LEMMA PolicySame ==
  ASSUME NoEdits, TypeOK, [Next]_vars
  PROVE  policy' = policy
<1>1. ASSUME NEW s \in Agents \cup {Company}, NEW amount \in Amounts, SetBudget(s, amount)
      PROVE  FALSE
  BY <1>1 DEF SetBudget, NoEdits, TypeOK
<1> QED
  BY <1>1 DEF Next, Step, Begin, SumAgent, SumCompany, Collect, LockAgent, LockCompany,
     LockRow, Commit, Rollback, ResumeAgent, NewMonth, committed, vars

LEMMA MonthGrows ==
  ASSUME TypeOK, [Next]_vars
  PROVE  month' = month \/ NewMonth
  BY DEF Next, Step, Begin, SumAgent, SumCompany, Collect, LockAgent, LockCompany,
     LockRow, Commit, Rollback, ResumeAgent, SetBudget, committed, vars

LEMMA NextStopsDecided ==
  NoEdits /\ Dated /\ StopsDecided /\ [Next]_vars => StopsDecided'
<1> SUFFICES ASSUME NoEdits, Dated, StopsDecided, [Next]_vars, NEW t \in Txs,
                    At(t, "commit")'
             PROVE  (/\ tx[t].window <= month
                     /\ tx[t].triggered = {s \in Touched(t) :
                            /\ policy[s] > 0
                            /\ Observed(s, tx[t].window) + OwnCost(t, s, tx[t].window)
                                    >= policy[s]})'
  BY DEF StopsDecided
<1>1. /\ TypeOK /\ TypedLocks /\ policy' = policy
      /\ since' = since /\ inMonth' = inMonth
  BY CommitAlone, PolicySame DEF Dated, TypedLocks, At
<1>2. month \in Nat /\ tx[t].window \in Nat /\ month' \in Nat /\ month <= month'
  <2>1. month \in Nat /\ tx[t].window \in Nat
    BY <1>1, LedgerAssumption DEF TypeOK, TxType, Months
  <2>2. month' = month \/ month' = month + 1
    BY <1>1, MonthGrows DEF NewMonth
  <2> QED BY <2>1, <2>2
<1>3. CASE Collect(t)
  <2>1. Moves(t, "collect", "commit") /\ tx'[t].window = month
    BY <1>1, <1>3, CollectMoves
  <2>2. Touched(t)' = Touched(t)
    BY <2>1 DEF Moves, SameEvent, Touched
  <2>3. ASSUME NEW s PROVE Observed(s, tx[t].window)' = Observed(s, month)
                         /\ OwnCost(t, s, tx[t].window)' = OwnCost(t, s, month)
    BY <1>1, <2>1, <2>2 DEF Observed, OwnCost, Moves, SameEvent
  <2>4. tx'[t].triggered = {s \in Touched(t) : Reached(t, s)}
    BY <1>1, <1>3, CollectMoves
  <2>5. tx'[t].triggered = {s \in Touched(t)' :
            /\ policy'[s] > 0
            /\ Observed(s, tx[t].window)' + OwnCost(t, s, tx[t].window)' >= policy'[s]}
    BY <1>1, <2>2, <2>3, <2>4 DEF Reached
  <2>6. tx'[t].window <= month'
    BY <1>2, <2>1
  <2> QED BY <2>5, <2>6
<1>4. CASE tx'[t] = tx[t] /\ tx[t].pc = "commit"
  BY <1>1, <1>2, <1>4 DEF StopsDecided, Touched, Observed, OwnCost, At
<1> QED BY <1>3, <1>4, <1>1, CommitFromCollect DEF At

\* A commit adds the cost of its event to what is observed of its scopes.
LEMMA CommitObserves ==
  ASSUME TypeOK, NEW t \in Txs, Commit(t), NEW s \in Scopes, NEW m \in Months
  PROVE  Observed(s, m)' = Observed(s, m) + OwnCost(t, s, m)
<1>1. tx[t].month \in Months /\ tx[t].cost \in Int /\ 1 \in Months /\ 1 <= tx[t].month
  BY LedgerAssumption DEF TypeOK, TxType, Months
<1>2. inMonth'[s][m] = inMonth[s][m] +
        IF s \in Touched(t) /\ m = tx[t].month THEN tx[t].cost ELSE 0
  BY DEF Commit
<1>3. since'[s][1] = since[s][1] +
        IF s \in Touched(t) /\ 1 <= tx[t].month THEN tx[t].cost ELSE 0
  BY <1>1 DEF Commit
<1> QED BY <1>1, <1>2, <1>3 DEF Observed, OwnCost

\* Months pass one by one, and looks are of the months that have come.
LEMMA NextLooksPast == Dated /\ StopsDecided /\ LooksPast /\ [Next]_vars => LooksPast'
<1> SUFFICES ASSUME Dated, StopsDecided, LooksPast, [Next]_vars, NEW look \in looks'
             PROVE  look[2] <= month'
  BY DEF LooksPast
<1>1. TypeOK
  BY DEF Dated, TypedLocks
<1>2. month \in Int /\ month' \in Int /\ month <= month'
  <2>1. month \in Int
    BY <1>1, LedgerAssumption DEF TypeOK, Months
  <2>2. month' = month \/ month' = month + 1
    BY <1>1, MonthGrows DEF NewMonth
  <2> QED BY <2>1, <2>2
<1>3. CASE look \in looks
  BY <1>1, <1>2, <1>3, LedgerAssumption DEF LooksPast, TypeOK, Months
<1>4. CASE look \notin looks
  <2>1. \E t \in Txs : Commit(t)
    BY <1>4
    DEF Next, Step, Begin, SumAgent, SumCompany, Collect, LockAgent, LockCompany, LockRow,
        Rollback, ResumeAgent, SetBudget, NewMonth, committed, vars
  <2>2. PICK t \in Txs : Commit(t)
    BY <2>1
  <2>3. look[2] = tx[t].window /\ month' = month
    BY <1>4, <2>2 DEF Commit
  <2>4. tx[t].window <= month
    BY <2>2 DEF StopsDecided, Commit
  <2> QED BY <2>3, <2>4
<1> QED BY <1>3, <1>4

LEMMA NextLooksBehind == Dated /\ LooksPast /\ LooksBehind /\ [Next]_vars => LooksBehind'
<1> SUFFICES ASSUME Dated, LooksPast, LooksBehind, [Next]_vars, NEW t \in Txs,
                    At(t, "commit")', NEW look \in looks'
             PROVE  look[2] <= tx'[t].window
  BY DEF LooksBehind
<1>1. TypedLocks /\ TypeOK
  BY DEF Dated, TypedLocks
<1>2. looks' = looks
  BY <1>1, CommitAlone DEF At
<1>3. CASE Collect(t)
  BY <1>1, <1>2, <1>3, CollectMoves DEF LooksPast
<1>4. CASE tx'[t] = tx[t] /\ tx[t].pc = "commit"
  BY <1>2, <1>4 DEF LooksBehind, At
<1> QED BY <1>1, <1>3, <1>4, CommitFromCollect DEF At

\* A commit leaves no reached budget without an incident.
LEMMA CommitStops ==
  ASSUME Dated, CreatedOnce, StopsDecided, LooksBehind, HardStopNotMissed,
         NEW t \in Txs, Commit(t)
  PROVE  HardStopNotMissed'
<1> SUFFICES ASSUME NEW s \in Scopes, policy'[s] > 0, Observed(s, month)' >= policy'[s],
                    s \in Lifetime \/ <<s, month'>> \in looks'
             PROVE  incidents'[s][Window(s, month)] > 0
  BY DEF HardStopNotMissed, Commit, Window
<1> DEFINE w == tx[t].window
<1>1. TypeOK /\ policy' = policy /\ month' = month /\ At(t, "commit")
  BY DEF Dated, TypedLocks, Commit
<1>2. /\ month \in Months /\ w \in Months /\ w <= month
      /\ looks' = looks \cup {<<x, w>> : x \in Touched(t)}
  BY <1>1 DEF TypeOK, TxType, StopsDecided, Commit
<1>3. month \in Nat /\ w \in Nat
  BY <1>2, LedgerAssumption DEF Months
<1>4. Observed(s, month) + OwnCost(t, s, month) >= policy[s]
  BY <1>1, <1>2, CommitObserves DEF Observed
<1>5. /\ Observed(s, month) \in Int /\ OwnCost(t, s, month) \in Int /\ policy[s] \in Nat
      /\ incidents[s][Window(s, month)] \in Nat /\ Window(s, month) \in Windows
  BY <1>1, <1>2, AmountsOK, WindowOK DEF TypeOK
<1>6. CASE s \in Touched(t) /\ (s \in Lifetime \/ w = month)
  <2>1. Observed(s, w) + OwnCost(t, s, w) >= policy[s] /\ Window(s, w) = Window(s, month)
    BY <1>4, <1>6 DEF Observed, OwnCost, Window
  <2>2. s \in tx[t].triggered
    BY <1>1, <1>6, <2>1 DEF StopsDecided
  <2>3. s \in tx[t].created \/ incidents[s][Window(s, month)] # 0
    BY <1>1, <2>1, <2>2 DEF CreatedOnce
  <2> QED BY <1>5, <2>1, <2>3, CommitIncidents
<1>7. CASE s \notin Touched(t)
  <2>1. OwnCost(t, s, month) = 0
    BY <1>7 DEF OwnCost
  <2>2. s \in Lifetime \/ <<s, month>> \in looks
    BY <1>1, <1>2, <1>7
  <2>3. incidents[s][Window(s, month)] > 0
    BY <1>1, <1>4, <1>5, <2>1, <2>2 DEF HardStopNotMissed
  <2> QED BY <1>5, <2>3, CommitIncidents
<1>8. CASE s \notin Lifetime /\ w # month
  <2>1. <<s, month>> \in looks
    BY <1>1, <1>2, <1>8
  <2>2. <<s, month>>[2] <= w
    BY <1>1, <2>1 DEF LooksBehind
  <2> QED BY <1>2, <1>3, <1>8, <2>2
<1> QED BY <1>6, <1>7, <1>8

\* In a new month nobody has looked yet, and a lifetime budget keeps its window.
LEMMA NewMonthStops ==
  ASSUME Dated, LooksPast, HardStopNotMissed, NewMonth
  PROVE  HardStopNotMissed'
<1> SUFFICES ASSUME NEW s \in Scopes, policy[s] > 0, Observed(s, month') >= policy[s],
                    s \in Lifetime \/ <<s, month'>> \in looks
             PROVE  incidents[s][Window(s, month')] > 0
  BY DEF HardStopNotMissed, NewMonth, committed, Observed, Window
<1>1. month \in Int /\ month' = month + 1
  BY LedgerAssumption DEF Dated, TypedLocks, TypeOK, NewMonth, Months
<1>2. <<s, month'>> \notin looks
  <2>1. SUFFICES ASSUME <<s, month'>> \in looks PROVE FALSE
    OBVIOUS
  <2>2. <<s, month'>>[2] <= month
    BY <2>1 DEF LooksPast
  <2> QED BY <1>1, <2>2
<1>3. s \in Lifetime
  BY <1>2
<1> QED BY <1>3 DEF HardStopNotMissed, Observed, Window

LEMMA NextStops ==
  /\ NoEdits /\ Dated /\ CreatedOnce /\ StopsDecided
  /\ LooksPast /\ LooksBehind /\ HardStopNotMissed /\ [Next]_vars
  => HardStopNotMissed'
<1> SUFFICES ASSUME NoEdits, Dated, CreatedOnce, StopsDecided, LooksPast, LooksBehind,
                    HardStopNotMissed, [Next]_vars
             PROVE  HardStopNotMissed'
  OBVIOUS
<1>1. policy' = policy
  BY PolicySame DEF Dated, TypedLocks
<1>2. CASE UNCHANGED <<month, inMonth, since, incidents, looks>>
  BY <1>1, <1>2 DEF HardStopNotMissed, Observed, Window
<1>3. \/ \E t \in Txs : Commit(t)
      \/ NewMonth
      \/ UNCHANGED <<month, inMonth, since, incidents, looks>>
  BY DEF Next, Step, Begin, SumAgent, SumCompany, Collect, LockAgent, LockCompany, LockRow,
     Rollback, ResumeAgent, SetBudget, committed, vars
<1> QED BY <1>2, <1>3, CommitStops, NewMonthStops

StopsInv ==
    /\ Dated /\ CreatedOnce /\ StopsDecided
    /\ LooksPast /\ LooksBehind /\ HardStopNotMissed

LEMMA InitStops == Init => StopsInv
<1> SUFFICES ASSUME Init PROVE StopsInv
  OBVIOUS
<1>1. Dated /\ CreatedOnce /\ StopsDecided
  BY InitDated
<1>2. ASSUME NEW s \in Scopes PROVE Observed(s, month) = 0
  BY LedgerAssumption DEF Init, Observed, Months
<1>3. HardStopNotMissed
  BY <1>1, <1>2 DEF HardStopNotMissed, Dated, TypedLocks, TypeOK
<1>4. LooksPast /\ LooksBehind
  BY DEF Init, LooksPast, LooksBehind
<1> QED BY <1>1, <1>3, <1>4 DEF StopsInv

LEMMA NextStopsInv == NoEdits /\ StopsInv /\ [Next]_vars => StopsInv'
  BY NextDated, NextCreated, NextStopsDecided, NextLooksPast, NextLooksBehind, NextStops
  DEF StopsInv, Dated

\* HardStopNotMissed, for any number of concurrent transactions and events of any
\* month: when the committed events reach a budget, the stop has been recorded,
\* unless nobody has looked at the budget in this month.
THEOREM NoStopMissed ==
  ASSUME NoEdits
  PROVE  Spec => []HardStopNotMissed
<1>1. StopsInv => HardStopNotMissed
  BY DEF StopsInv
<1> QED BY <1>1, InitStops, NextStopsInv, PTL DEF Spec

-----------------------------------------------------------------------------
(* The ledger implements BudgetStops.                                       *)

\* BudgetStops sees whether a window has an incident.
Open == {sw \in Scopes \X Windows : incidents[sw[1]][sw[2]] > 0}

LEMMA InitImplements == Init => Stops!StopsInit
<1> SUFFICES ASSUME Init PROVE Stops!StopsInit
  OBVIOUS
<1>1. policy \in [Scopes -> Nat]
  BY LedgerAssumption DEF Init
<1>2. Open = {}
  BY DEF Init, Open
<1> QED BY <1>1, <1>2 DEF Init, Open, Stops!StopsInit

\* The incidents after a commit: those of the budgets its event reaches are open.
LEMMA CommitOpens ==
  ASSUME TypeOK, CreatedOnce, NEW t \in Txs, Commit(t)
  PROVE  Open' = Open \cup {<<s, Window(s, tx[t].window)>> : s \in tx[t].triggered}
<1> DEFINE win(s) == Window(s, tx[t].window)
<1>1. /\ tx[t].triggered \subseteq Scopes /\ tx[t].window \in Months
      /\ tx[t].created = {s \in tx[t].triggered : incidents[s][win(s)] = 0}
  BY DEF TypeOK, TxType, CreatedOnce, Commit
<1>2. ASSUME NEW s \in Scopes, NEW w \in Windows
      PROVE  incidents'[s][w] > 0 <=>
                incidents[s][w] > 0 \/ (s \in tx[t].triggered /\ w = win(s))
  <2>1. incidents[s][w] \in Nat
    BY DEF TypeOK
  <2>2. incidents'[s][w] = incidents[s][w] +
            IF s \in tx[t].created /\ w = win(s) THEN 1 ELSE 0
    BY CommitIncidents
  <2> QED BY <1>1, <2>1, <2>2
<1>3. \A s \in tx[t].triggered : win(s) \in Windows
  BY <1>1, WindowOK
<1> HIDE DEF win
<1>4. Open' = {sw \in Scopes \X Windows : incidents'[sw[1]][sw[2]] > 0}
  BY DEF Open
<1>5. Open' = Open \cup {<<s, win(s)>> : s \in tx[t].triggered}
  BY <1>1, <1>2, <1>3, <1>4 DEF Open
<1> QED BY <1>5 DEF win

\* A commit records its event, and stops what it reaches, at one instant.
LEMMA CommitCharges ==
  ASSUME StopsInv, NEW t \in Txs, Commit(t)
  PROVE  Stops!StopsNext
<1>1. TypeOK /\ At(t, "commit") /\ ~At(t, "free") /\ CreatedOnce
  BY DEF StopsInv, Dated, TypedLocks, Commit, At
<1>2. /\ Touched(t) \in SUBSET Scopes /\ tx[t].cost \in Costs
      /\ tx[t].window \in Months /\ tx[t].month \in Months
      /\ tx[t].window <= month
  BY <1>1, TouchedOK DEF StopsInv, Dated, EventsKnown, StopsDecided, TypeOK, TxType
<1>3. PICK touched \in SUBSET Scopes, c \in Costs, now \in Months, m \in Months :
        touched = Touched(t) /\ c = tx[t].cost /\ now = tx[t].window /\ m = tx[t].month
  BY <1>2
<1>4. now <= month
  BY <1>2, <1>3
<1>5. policy' = policy /\ month' = month /\ paused' = paused \cup tx[t].triggered
  BY DEF Commit
<1>6. tx[t].triggered = {s \in touched : policy[s] > 0 /\ Observed(s, now)' >= policy[s]}
  <2>1. \A s \in touched : Observed(s, now)' = Observed(s, now) + OwnCost(t, s, now)
    BY <1>1, CommitObserves
  <2> QED BY <1>1, <1>3, <2>1 DEF StopsInv, StopsDecided
<1>7. Open' = Open \cup {<<s, Window(s, now)>> : s \in tx[t].triggered}
  BY <1>1, <1>3, CommitOpens
<1>8. /\ inMonth' = [s \in Scopes |-> [k \in Months |->
              inMonth[s][k] + IF s \in touched /\ k = m THEN c ELSE 0]]
      /\ since' = [s \in Scopes |-> [k \in Months |->
              since[s][k] + IF s \in touched /\ k <= m THEN c ELSE 0]]
  BY <1>3 DEF Commit
<1>9. Stops!Charge(touched, c, m, now)
  BY <1>5, <1>6, <1>7, <1>8
  DEF Stops!Charge, Stops!Observed, Stops!Window, Observed, Window, Open
<1> QED BY <1>4, <1>9 DEF Stops!StopsNext

LEMMA NextImplements ==
  ASSUME NoEdits, StopsInv, [Next]_vars
  PROVE  [Stops!StopsNext]_(Stops!stopVars)
<1> DEFINE Same == UNCHANGED <<month, policy, inMonth, since, incidents, paused>>
<1>1. policy' = policy /\ TypeOK
  BY PolicySame DEF StopsInv, Dated, TypedLocks
<1>2. CASE Same
  BY <1>2 DEF Stops!stopVars
<1>3. ASSUME NEW a \in Agents, ResumeAgent(a) PROVE Stops!StopsNext
  <2>1. Stops!Resume(a)
    BY <1>3 DEF ResumeAgent, Stops!Resume
  <2> QED BY <2>1 DEF Stops!StopsNext
<1>4. CASE NewMonth
  <2>1. Stops!NewMonth
    BY <1>1, <1>4, LedgerAssumption DEF NewMonth, committed, Stops!NewMonth, TypeOK, Months
  <2> QED BY <2>1 DEF Stops!StopsNext
<1>5. \/ \E t \in Txs : Commit(t)
      \/ \E a \in Agents : ResumeAgent(a)
      \/ NewMonth
      \/ Same
  BY <1>1 DEF Next, Step, Begin, SumAgent, SumCompany, Collect, LockAgent, LockCompany,
     LockRow, Rollback, SetBudget, committed, vars
<1> QED BY <1>2, <1>3, <1>4, <1>5, CommitCharges

\* ImplementsStops, for any number of concurrent transactions: CreateEvent is as
\* good as one atomic step that charges, looks at the budgets and stops.
THEOREM LedgerImplementsStops ==
  ASSUME NoEdits
  PROVE  Spec => ImplementsStops
<1>1. Init => Stops!StopsInit
  BY InitImplements
<1>2. StopsInv /\ [Next]_vars => [Stops!StopsNext]_(Stops!stopVars)
  BY NextImplements
<1> QED BY <1>1, <1>2, InitStops, NextStopsInv, PTL DEF Spec, ImplementsStops, Stops!StopsSpec
=============================================================================
