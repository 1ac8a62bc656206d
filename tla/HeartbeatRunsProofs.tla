------------------------ MODULE HeartbeatRunsProofs ------------------------
(***************************************************************************)
(* Proofs about HeartbeatRuns, for any agents, goroutines, runs and bounds.  *)
(* The invariant is built in layers, each inductive relative to the ones     *)
(* before it: types and locals, claims, the tracker of a running run.  The   *)
(* refinement of RunQueue follows from them.                                 *)
(***************************************************************************)
EXTENDS HeartbeatRuns, TLAPS

-----------------------------------------------------------------------------
(* Layer 1: types, the rows, and which locals go with which program counter. *)

\* Runs are created in order, and a created run has an agent.
RowsOK ==
    /\ \A r \in Runs : run[r].status # "none" => run[r].agent \in Agents
    /\ \A r, s \in Runs : s < r /\ run[r].status # "none" => run[s].status # "none"

\* The transaction that inserted the run has committed.
VisibleIn(table, r) == table[r].status \notin {"none", "inserted"}
Visible(r) == VisibleIn(run, r)

\* Program counters before and after a goroutine is given its run.
ChoosingPCs == {"enqueue", "count", "pick"}
BoundPCs == {"commit", "claim", "load", "startClaim", "setup", "mark", "resume"} \cup TrackingPCs

LocalOK(rec) ==
    /\ rec.pc \in ChoosingPCs => rec.agent \in Agents /\ rec.scope = NoScope
    /\ rec.pc \in BoundPCs =>
        rec.run \in Runs /\ rec.agent \in Agents /\ rec.scope = NoScope
    /\ rec.pc \in HookPCs => rec.scope \in Scopes
    /\ rec.pc \in HookPCs \cup FinalizePCs => rec.run \in Runs \/ rec.scope # NoScope
    /\ rec.run \in Runs => rec.agent \in Agents
    /\ rec.pc = "finalizeWrite" => rec.target \in Agents

LocalsOK == \A g \in Goroutines : LocalOK(go[g])

\* The run a goroutine holds exists, and is visible but to the transaction that
\* inserted it; it has an outcome before it is saved.
HeldRunsOK ==
    \A g \in Goroutines :
        /\ go[g].run \in Runs => run[go[g].run].status # "none"
        /\ go[g].run \in Runs /\ go[g].pc # "commit" => Visible(go[g].run)
        /\ go[g].pc \in {"loadStatus", "cost", "save"} => go[g].outcome # "none"
        /\ go[g].pc \in HookPCs \cup FinalizePCs /\ go[g].run \in Runs
            => go[g].outcome # "none"

ReapListOK == \A r \in reapList : Visible(r)

Layer1 == TypeOK /\ RowsOK /\ LocalsOK /\ HeldRunsOK /\ ReapListOK

-----------------------------------------------------------------------------
(* Layer 2: claims.                                                         *)

\* A claimed run never waits again, and only claimed runs start; what the
\* reaper has read was claimed.
ClaimsOK ==
    /\ \A r \in claimed : Visible(r) /\ run[r].status # "queued"
    /\ \A r \in Runs : run[r].status \in {"starting", "running"} => r \in claimed
    /\ reapList \subseteq claimed

\* A transaction that is to commit has its run, which nobody else sees.
CommitsOK ==
    \A g \in Goroutines : At(g, "commit") =>
        /\ run[go[g].run].status = "inserted"
        /\ \A h \in Goroutines : At(h, "commit") /\ h # g => go[h].run # go[g].run

Layer2 == ClaimsOK /\ OnlyClaimedRunsExecute /\ CommitsOK

-----------------------------------------------------------------------------
\* A slot without a goroutine is well-typed and meets LocalOK.
LEMMA IdleOK == Idle \in GoroutineType /\ LocalOK(Idle)
  BY ConstantsAssumption DEF Idle, GoroutineType, PCs, AgentStatus, TrackingPCs, HookPCs,
     FinalizePCs, LocalOK, ChoosingPCs, BoundPCs, Runs, NoRun

\* Where finalizeAgentStatus and the hook return to.
LEMMA AfterFinalizeOK ==
  ASSUME NEW rec \in GoroutineType, rec.run \in Runs => rec.agent \in Agents,
         rec.run \in Runs \/ rec.scope # NoScope
  PROVE  AfterFinalize(rec) \in GoroutineType /\ LocalOK(AfterFinalize(rec))
  <1> USE ConstantsAssumption, IdleOK
      DEF GoroutineType, PCs, TrackingPCs, HookPCs, FinalizePCs, LocalOK, ChoosingPCs, BoundPCs
  <1>1. CASE rec.agents # {}
    BY <1>1 DEF AfterFinalize
  <1>2. CASE rec.agents = {} /\ rec.scope = NoScope
    BY <1>2 DEF AfterFinalize
  <1>3. CASE rec.agents = {} /\ rec.scope # NoScope /\ rec.run = NoRun
    BY <1>3 DEF AfterFinalize
  <1>4. CASE rec.agents = {} /\ rec.scope # NoScope /\ rec.run # NoRun
    BY <1>4 DEF AfterFinalize
  <1> QED BY <1>1, <1>2, <1>3, <1>4

\* Where the hook returns to when it lists no run.
LEMMA AfterHookOK ==
  ASSUME NEW rec \in GoroutineType, rec.run \in Runs => rec.agent \in Agents
  PROVE  AfterHook(rec) \in GoroutineType /\ LocalOK(AfterHook(rec))
  <1>1. CASE rec.run = NoRun
    BY <1>1, IdleOK DEF AfterHook
  <1>2. CASE rec.run # NoRun
    BY <1>2
    DEF AfterHook, PCs, GoroutineType, LocalOK, ChoosingPCs, BoundPCs, TrackingPCs, HookPCs,
        FinalizePCs
  <1> QED BY <1>1, <1>2

\* A step that changes one goroutine has only that one to account for.
LEMMA GoroutineFrame ==
  ASSUME NEW g \in Goroutines, TypeOK, LocalsOK,
         NEW rec \in GoroutineType, LocalOK(rec), go' = [go EXCEPT ![g] = rec]
  PROVE  go' \in [Goroutines -> GoroutineType] /\ LocalsOK'
  <1>1. go \in [Goroutines -> GoroutineType]
    BY DEF TypeOK
  <1>2. go' \in [Goroutines -> GoroutineType]
    BY <1>1
  <1>3. ASSUME NEW h \in Goroutines PROVE LocalOK(go'[h])
    <2>1. CASE h = g
      <3>1. go'[h] = rec
        BY <1>1, <2>1
      <3> QED BY <3>1
    <2>2. CASE h # g
      <3>1. go'[h] = go[h]
        BY <1>1, <2>2
      <3> QED BY <3>1 DEF LocalsOK
    <2> QED BY <2>1, <2>2
  <1> QED BY <1>2, <1>3 DEF LocalsOK

\* A step of g leaves every goroutine with well-typed locals.
LEMMA Layer1Goroutines ==
  ASSUME Layer1, NEW g \in Goroutines, Step(g)
  PROVE  go' \in [Goroutines -> GoroutineType] /\ LocalsOK'
  <1>0. /\ go \in [Goroutines -> GoroutineType]
        /\ go[g] \in GoroutineType /\ LocalOK(go[g])
        /\ TypeOK /\ LocalsOK
    BY DEF Layer1, TypeOK, LocalsOK
  <1> USE IdleOK, <1>0
  <1>1. SUFFICES ASSUME go' # go, ~HookCancelRequest(g)
                 PROVE  \E rec \in GoroutineType : LocalOK(rec) /\ go' = [go EXCEPT ![g] = rec]
    <2>1. CASE go' = go
      BY <2>1 DEF LocalsOK
    <2>2. CASE HookCancelRequest(g)
      <3> PICK r \in go[g].listed :
            go' = [h \in Goroutines |->
                    IF h # g THEN Signalled(h, r)
                    ELSE [Signalled(g, r) EXCEPT !.listed = @ \ {r},
                            !.pc = IF go[g].listed = {r} THEN "finalizeRead" ELSE @]]
        BY <2>2 DEF HookCancelRequest
      <3>1. ASSUME NEW h \in Goroutines PROVE go'[h] \in GoroutineType /\ LocalOK(go'[h])
        <4> DEFINE rec == Signalled(h, r)
        <4>1. LocalOK(go[h]) /\ go[h] \in GoroutineType
          BY DEF LocalsOK
        <4>2. rec \in GoroutineType /\ LocalOK(rec) /\ rec.pc = go[h].pc
          <5>1. (go[h].ctxDone \/ h \in cancelFns[r]) \in BOOLEAN
            OBVIOUS
          <5>2. rec = [go[h] EXCEPT !.ctxDone = (go[h].ctxDone \/ h \in cancelFns[r])]
            BY DEF Signalled
          <5>3. rec \in GoroutineType
            BY <4>1, <5>1, <5>2 DEF GoroutineType
          <5>4. rec.pc = go[h].pc /\ rec.run = go[h].run /\ rec.agent = go[h].agent
                /\ rec.scope = go[h].scope /\ rec.target = go[h].target
            BY <4>1, <5>2 DEF GoroutineType
          <5> QED BY <4>1, <5>3, <5>4 DEF LocalOK
        <4>3. CASE h # g
          BY <4>2, <4>3
        <4>4. CASE h = g
          <5>1. go'[g] = [rec EXCEPT !.listed = @ \ {r},
                            !.pc = IF go[g].listed = {r} THEN "finalizeRead" ELSE @]
            BY <4>4
          <5>2. rec.pc = "hookRequests"
            BY <2>2, <4>2, <4>4 DEF HookCancelRequest, At
          <5>3. go'[g] \in GoroutineType
            <6> HIDE DEF rec
            <6>1. rec.listed \ {r} \in SUBSET Runs
              BY <4>2 DEF GoroutineType
            <6>2. PICK pc \in PCs : go'[g] = [rec EXCEPT !.listed = rec.listed \ {r}, !.pc = pc]
              BY <5>1, <5>2, <4>2 DEF GoroutineType, PCs, TrackingPCs, HookPCs, FinalizePCs
            <6>3. rec \in GoroutineType
              BY <4>2
            <6>4. [rec EXCEPT !.listed = rec.listed \ {r}] \in GoroutineType
              BY <6>1, <6>3 DEF GoroutineType
            <6> QED BY <6>2, <6>4, ZenonT(40) DEF GoroutineType
          <5>4. LocalOK(go'[g])
            <6>1. go'[g].pc \in {"hookRequests", "finalizeRead"} /\ go'[g].run = rec.run
                  /\ go'[g].agent = rec.agent /\ go'[g].scope = rec.scope
              BY <4>2, <4>4, <5>1, <5>2 DEF GoroutineType
            <6>2. rec.scope \in Scopes /\ rec.run \in Runs => rec.agent \in Agents
              BY <4>2, <5>2 DEF LocalOK, ChoosingPCs, BoundPCs, TrackingPCs, HookPCs, FinalizePCs
            <6> QED BY <6>1, <6>2, <4>2, <5>2, ConstantsAssumption
              DEF Scopes, LocalOK, ChoosingPCs, BoundPCs, TrackingPCs, HookPCs, FinalizePCs
          <5> QED BY <4>4, <5>3, <5>4
        <4> QED BY <4>3, <4>4
      <3>2. go' = [h \in Goroutines |-> go'[h]]
        BY <2>2 DEF HookCancelRequest
      <3> QED BY <3>1, <3>2 DEF LocalsOK
    <2> QED BY <2>1, <2>2, GoroutineFrame
  <1>2. CASE CommitRun(g) \/ CoalesceWithQueued(g) \/ CountRunning(g)
    <2>1. go'[g] \in GoroutineType /\ LocalOK(go'[g])
      BY <1>2
      DEF CommitRun, CoalesceWithQueued, CountRunning, At, GoroutineType, PCs, LocalOK,
          ChoosingPCs, BoundPCs,
         TrackingPCs, HookPCs, FinalizePCs
    <2>2. go' = [go EXCEPT ![g] = go'[g]]
      BY <1>2 DEF CommitRun, CoalesceWithQueued, CountRunning
    <2> QED BY <2>1, <2>2
  <1>15. CASE InsertRun(g)
    <2>1. PICK r \in Runs : go' = [go EXCEPT ![g].pc = "commit", ![g].run = r]
      BY <1>15 DEF InsertRun
    <2> DEFINE rec == [go[g] EXCEPT !.pc = "commit", !.run = r]
    <2>2. go[g].pc = "enqueue"
      BY <1>15 DEF InsertRun, At
    <2>3. rec \in GoroutineType
      BY DEF GoroutineType, PCs, TrackingPCs, HookPCs, FinalizePCs
    <2>4. LocalOK(rec)
      <3>1. go[g].agent \in Agents /\ rec.pc = "commit" /\ rec.run = r /\ rec.agent = go[g].agent
            /\ rec.scope = NoScope
        BY <2>2
        DEF GoroutineType, LocalOK, ChoosingPCs, BoundPCs, TrackingPCs, HookPCs, FinalizePCs
      <3> QED BY <3>1 DEF LocalOK, ChoosingPCs, BoundPCs, TrackingPCs, HookPCs, FinalizePCs
    <2> QED BY <2>1, <2>3, <2>4
  <1>3. CASE CoalesceWithRunning(g) \/ SetupFails(g) \/ SetupBlocked(g) \/ RollBackRun(g) \/
              SetupBlockedSaveFails(g) \/ LoadRunStatusFails(g) \/ ClaimFails(g, "claim") \/ ClaimFails(g, "startClaim")
    <2>1. go'[g] \in GoroutineType /\ LocalOK(go'[g])
      BY <1>3
      DEF CoalesceWithRunning, SetupFails, SetupBlocked, RollBackRun, SetupBlockedSaveFails,
          LoadRunStatusFails, ClaimFails, At, GoroutineType, PCs, LocalOK, ChoosingPCs, BoundPCs,
         TrackingPCs, HookPCs, FinalizePCs
    <2>2. go' = [go EXCEPT ![g] = go'[g]]
      BY <1>3 DEF CoalesceWithRunning, SetupFails, SetupBlocked, RollBackRun,
                  SetupBlockedSaveFails, LoadRunStatusFails, ClaimFails
    <2> QED BY <2>1, <2>2
  <1>4. CASE LoadRun(g) \/ SetupPasses(g) \/ ClaimSucceeds(g, "claim", "load") \/
              ClaimSucceeds(g, "startClaim", "setup")
    <2>1. go'[g] \in GoroutineType /\ LocalOK(go'[g])
      BY <1>4
      DEF LoadRun, SetupPasses, ClaimSucceeds, At, GoroutineType, PCs, LocalOK, ChoosingPCs,
          BoundPCs,
         TrackingPCs, HookPCs, FinalizePCs
    <2>2. go' = [go EXCEPT ![g] = go'[g]]
      BY <1>4 DEF LoadRun, SetupPasses, ClaimSucceeds
    <2> QED BY <2>1, <2>2
  <1>5. CASE MarkRunning(g) \/ MarkRunningSaveFails(g) \/ RegisterCancel(g) \/ CostWithinBudget(g)
    <2>1. go'[g] \in GoroutineType /\ LocalOK(go'[g])
      BY <1>5
      DEF MarkRunning, MarkRunningSaveFails, RegisterCancel, CostWithinBudget, At, GoroutineType, PCs, LocalOK,
          ChoosingPCs, BoundPCs,
         TrackingPCs, HookPCs, FinalizePCs
    <2>2. go' = [go EXCEPT ![g] = go'[g]]
      BY <1>5 DEF MarkRunning, MarkRunningSaveFails, RegisterCancel, CostWithinBudget
    <2> QED BY <2>1, <2>2
  <1>6. CASE LoadRunStatus(g)
    <2>1. go'[g] \in GoroutineType /\ LocalOK(go'[g])
      BY <1>6 DEF LoadRunStatus, At, GoroutineType, PCs, LocalOK, ChoosingPCs, BoundPCs,
         TrackingPCs, HookPCs, FinalizePCs
    <2>2. go' = [go EXCEPT ![g] = go'[g]]
      BY <1>6 DEF LoadRunStatus
    <2> QED BY <2>1, <2>2
  <1>7. CASE SaveRun(g) \/ SaveRunFails(g)
    <2> DEFINE rec == [go[g] EXCEPT !.pc = "finalizeRead", !.agents = {go[g].agent}]
    <2>1. go[g].pc = "save" /\ go' = [go EXCEPT ![g] = rec]
      BY <1>7 DEF SaveRun, SaveRunFails, At
    <2>2. go[g].run \in Runs /\ go[g].agent \in Agents /\ go[g].scope = NoScope
      BY <2>1 DEF LocalOK, BoundPCs, TrackingPCs
    <2>3. rec \in GoroutineType
      <3>1. "finalizeRead" \in PCs
        BY DEF PCs, FinalizePCs
      <3> QED BY <2>2, <3>1 DEF GoroutineType
    <2>4. LocalOK(rec)
      BY <2>2
      DEF GoroutineType, LocalOK, ChoosingPCs, BoundPCs, TrackingPCs, HookPCs, FinalizePCs
    <2> QED BY <2>1, <2>3, <2>4
  <1>8. CASE HookCancelRuns(g)
    <2>1. go'[g] \in GoroutineType /\ LocalOK(go'[g])
      BY <1>8 DEF HookCancelRuns, At, GoroutineType, PCs, LocalOK, ChoosingPCs, BoundPCs,
         TrackingPCs, HookPCs, FinalizePCs
    <2>2. go' = [go EXCEPT ![g] = go'[g]]
      BY <1>8 DEF HookCancelRuns
    <2> QED BY <2>1, <2>2
  <1>9. CASE \E outcome \in {"completed", "failed"} : ExecuteReturns(g, outcome)
    <2> DEFINE rec == go'[g]
    <2>1. rec \in GoroutineType /\ LocalOK(rec)
      <3>1. PICK outcome \in {"completed", "failed"} : ExecuteReturns(g, outcome)
        BY <1>9
      <3>2. rec = [go[g] EXCEPT !.pc = "loadStatus", !.outcome = outcome]
        BY <3>1 DEF ExecuteReturns
      <3>3. rec \in GoroutineType
        BY <3>2 DEF GoroutineType, PCs, TrackingPCs, HookPCs, FinalizePCs
      <3>4. LocalOK(rec)
        BY <3>1, <3>2
        DEF ExecuteReturns, At, GoroutineType, PCs, TrackingPCs, HookPCs, FinalizePCs, LocalOK,
            ChoosingPCs, BoundPCs
      <3> QED BY <3>3, <3>4
    <2>2. go' = [go EXCEPT ![g] = rec]
      BY <1>9 DEF ExecuteReturns
    <2> QED BY <2>1, <2>2
  <1>10. CASE PickQueued(g)
    <2>1. CASE go' = [go EXCEPT ![g] = Idle]
      BY <2>1
    <2>2. CASE \E r \in Runs : go' = [go EXCEPT ![g].pc = "claim", ![g].run = r]
      <3>1. PICK r \in Runs : go' = [go EXCEPT ![g].pc = "claim", ![g].run = r]
        BY <2>2
      <3> DEFINE rec == [go[g] EXCEPT !.pc = "claim", !.run = r]
      <3>2. go[g].pc = "pick"
        BY <1>10 DEF PickQueued, At
      <3>3. rec \in GoroutineType
        BY DEF GoroutineType, PCs, TrackingPCs, HookPCs, FinalizePCs
      <3>4. LocalOK(rec)
        <4>1. go[g].agent \in Agents /\ rec.pc = "claim" /\ rec.run = r /\ rec.agent = go[g].agent
              /\ rec.scope = NoScope
          BY <3>2
          DEF GoroutineType, LocalOK, ChoosingPCs, BoundPCs, TrackingPCs, HookPCs, FinalizePCs
        <4> QED BY <3>1, <4>1
          DEF LocalOK, ChoosingPCs, BoundPCs, TrackingPCs, HookPCs, FinalizePCs
      <3> QED BY <3>1, <3>3, <3>4
    <2> QED BY <1>10, <2>1, <2>2 DEF PickQueued
  <1>11. CASE ResumeNextRun(g)
    <2>1. CASE go' = [go EXCEPT ![g] = Idle]
      BY <2>1
    <2>2. CASE \E r \in Runs : go' = [go EXCEPT ![g] = [Idle EXCEPT !.pc = "load", !.run = r,
                                                                  !.agent = go[g].agent]]
      <3>1. PICK r \in Runs : go' = [go EXCEPT ![g] = [Idle EXCEPT !.pc = "load", !.run = r,
                                                                  !.agent = go[g].agent]]
        BY <2>2
      <3> DEFINE rec == [Idle EXCEPT !.pc = "load", !.run = r, !.agent = go[g].agent]
      <3>2. rec \in GoroutineType /\ LocalOK(rec)
        BY <1>11
        DEF ResumeNextRun, At, Idle, GoroutineType, PCs, LocalOK, ChoosingPCs, BoundPCs,
            TrackingPCs, HookPCs, FinalizePCs
      <3> QED BY <3>1, <3>2
    <2> QED BY <1>11, <2>1, <2>2 DEF ResumeNextRun
  <1>12. CASE FinalizeRead(g)
    <2>1. PICK a \in go[g].agents :
            LET rec == [go[g] EXCEPT !.agents = @ \ {a}]
            IN  \/ go' = [go EXCEPT ![g] = AfterFinalize(rec)]
                \/ go' = [go EXCEPT ![g] =
                    [rec EXCEPT !.pc = "finalizeWrite", !.target = a,
                                !.status = NextAgentStatus(a, FinalRunStatus(g))]]
      BY <1>12 DEF FinalizeRead
    <2> DEFINE rec == [go[g] EXCEPT !.agents = @ \ {a}]
               written == [rec EXCEPT !.pc = "finalizeWrite", !.target = a,
                                !.status = NextAgentStatus(a, FinalRunStatus(g))]
    <2>2. AfterFinalize(rec) \in GoroutineType /\ LocalOK(AfterFinalize(rec))
      <3>1. /\ rec \in GoroutineType
            /\ rec.run \in Runs => rec.agent \in Agents
            /\ rec.run \in Runs \/ rec.scope # NoScope
        BY <1>12
        DEF FinalizeRead, At, GoroutineType, PCs, LocalOK, ChoosingPCs, BoundPCs, TrackingPCs,
            HookPCs, FinalizePCs
      <3> QED BY <3>1, AfterFinalizeOK
    <2>3. written \in GoroutineType /\ LocalOK(written)
      <3>1. go[g].pc = "finalizeRead" /\ a \in Agents
        BY <1>12 DEF FinalizeRead, At, GoroutineType
      <3>2. NextAgentStatus(a, FinalRunStatus(g)) \in AgentStatus
        BY DEF NextAgentStatus, AgentStatus
      <3>3. written \in GoroutineType
        BY <3>1, <3>2 DEF GoroutineType, PCs, TrackingPCs, HookPCs, FinalizePCs
      <3>4. LocalOK(written)
        BY <3>1
        DEF GoroutineType, LocalOK, ChoosingPCs, BoundPCs, TrackingPCs, HookPCs, FinalizePCs
      <3> QED BY <3>3, <3>4
    <2> QED BY <2>1, <2>2, <2>3
  <1>13. CASE FinalizeWrite(g)
    <2> DEFINE rec == [go[g] EXCEPT !.target = NoAgent, !.status = "idle"]
    <2>1. /\ rec \in GoroutineType
          /\ rec.run \in Runs => rec.agent \in Agents
          /\ rec.run \in Runs \/ rec.scope # NoScope
      <3>1. go[g].pc = "finalizeWrite"
        BY <1>13 DEF FinalizeWrite, At
      <3>2. rec \in GoroutineType
        BY DEF AgentStatus, GoroutineType
      <3> QED BY <3>1, <3>2
        DEF GoroutineType, LocalOK, ChoosingPCs, BoundPCs, TrackingPCs, HookPCs, FinalizePCs
    <2> QED BY <1>13, <2>1, AfterFinalizeOK DEF FinalizeWrite
  <1>14. CASE HookListRuns(g)
    <2> DEFINE listed == {r \in Runs : /\ run[r].status \in Active
                                       /\ InScope(run[r].agent, go[g].scope)}
               agents == {run[r].agent : r \in listed}
               rec == [go[g] EXCEPT !.pc = "hookUpdate", !.listed = listed, !.agents = agents]
    <2>1. AfterHook(go[g]) \in GoroutineType /\ LocalOK(AfterHook(go[g]))
      BY AfterHookOK DEF LocalOK
    <2>2. agents \in SUBSET Agents
      BY DEF Layer1, RowsOK, Active
    <2>3. rec \in GoroutineType /\ LocalOK(rec)
      <3>1. go[g].pc = "hookList"
        BY <1>14 DEF HookListRuns, At
      <3>2. rec \in GoroutineType
        BY <2>2, ZenonT(40) DEF GoroutineType, PCs, TrackingPCs, HookPCs, FinalizePCs
      <3> QED BY <3>1, <3>2
        DEF GoroutineType, LocalOK, ChoosingPCs, BoundPCs, TrackingPCs, HookPCs, FinalizePCs
    <2>4. go' = [go EXCEPT ![g] = IF listed = {} THEN AfterHook(go[g]) ELSE rec]
      BY <1>14 DEF HookListRuns
    <2> QED BY <2>1, <2>3, <2>4
  <1> QED
    BY <1>1, <1>2, <1>3, <1>4, <1>5, <1>6, <1>7, <1>8, <1>9, <1>10, <1>11, <1>12, <1>13, <1>14,
       <1>15
    DEF Step

\* The other variables: the statuses written are statuses, and rows are created
\* in order with an agent.
TablesOK ==
    /\ run \in [Runs -> [status : RunStatus, agent : Agents \cup {NoAgent}]]
    /\ request \in [Runs -> RequestStatus]
    /\ agentStatus \in [Agents -> AgentStatus]
    /\ hardStopped \subseteq Scopes
    /\ cancelFns \in [Runs -> SUBSET Goroutines]
    /\ reapList \subseteq Runs
    /\ disturbances \in 0..MaxDisturbances
    /\ claimed \subseteq Runs

\* A disturbance stays within its bound.
LEMMA DisturbType ==
  ASSUME Disturb, disturbances \in 0..MaxDisturbances
  PROVE  disturbances' \in 0..MaxDisturbances
  BY ConstantsAssumption DEF Disturb

\* A step of g leaves every other variable with its type, and the rows in order.
LEMMA Layer1Tables ==
  ASSUME Layer1, NEW g \in Goroutines, Step(g)
  PROVE  TablesOK' /\ RowsOK'
  <1>0. /\ TablesOK /\ RowsOK /\ LocalOK(go[g]) /\ go[g] \in GoroutineType
        /\ go[g].run \in Runs => run[go[g].run].status # "none"
        /\ At(g, "save") => go[g].outcome # "none"
    BY DEF Layer1, TypeOK, LocalsOK, TablesOK, HeldRunsOK, At
  <1> USE <1>0
      DEF TablesOK, At, RunStatus, RequestStatus, AgentStatus, LocalOK, ChoosingPCs, BoundPCs,
          TrackingPCs, FinalizePCs
  <1>1. CASE UNCHANGED <<run, request, agentStatus, hardStopped, cancelFns, reapList,
                         disturbances, claimed>>
    BY <1>1 DEF RowsOK
  <1>2. CASE RegisterCancel(g)
    BY <1>2 DEF RegisterCancel, RowsOK
  <1>12. CASE LoadRunStatusFails(g)
    <2>1. disturbances' \in 0..MaxDisturbances
      BY <1>12, DisturbType DEF LoadRunStatusFails, StatementFails
    <2> QED BY <1>12, <2>1 DEF LoadRunStatusFails, RowsOK
  <1>13. CASE RollBackRun(g) \/ SetupBlockedSaveFails(g) \/ MarkRunningSaveFails(g)
    <2>1. disturbances' \in 0..MaxDisturbances
      BY <1>13, DisturbType
      DEF RollBackRun, SetupBlockedSaveFails, MarkRunningSaveFails, StatementFails
    <2> QED BY <1>13, <2>1 DEF RollBackRun, SetupBlockedSaveFails, MarkRunningSaveFails, RowsOK
  <1>14. CASE SaveRunFails(g)
    <2>1. disturbances' \in 0..MaxDisturbances
      BY <1>14, DisturbType DEF SaveRunFails, StatementFails
    <2> QED BY <1>14, <2>1 DEF SaveRunFails, RowsOK, GoroutineType
  <1>3. CASE ResumeNextRun(g)
    BY <1>3 DEF ResumeNextRun, RowsOK
  <1>4. CASE FinalizeWrite(g)
    BY <1>4 DEF FinalizeWrite, RowsOK, GoroutineType
  <1>5. CASE HookCancelRequest(g)
    BY <1>5 DEF HookCancelRequest, RowsOK
  <1>6. CASE InsertRun(g)
    <2>1. TablesOK'
      BY <1>6 DEF InsertRun
    <2>2. RowsOK'
      BY <1>6, ConstantsAssumption DEF InsertRun, RowsOK, Runs
    <2> QED BY <2>1, <2>2
  <1>7. ASSUME TablesOK',
               \A r \in Runs : /\ run'[r].agent = run[r].agent
                               /\ run'[r].status = "none" <=> run[r].status = "none"
        PROVE  TablesOK' /\ RowsOK'
    BY <1>7 DEF RowsOK
  <1>8. CASE SetupBlocked(g) \/ MarkRunning(g)
    <2>1. go[g].run \in Runs /\ run[go[g].run].status # "none"
      BY <1>8 DEF SetupBlocked, MarkRunning
    <2>2. PICK status \in {"failed", "running"} :
            /\ run' = [run EXCEPT ![go[g].run].status = status]
            /\ request' = [request EXCEPT ![go[g].run] = status]
      BY <1>8 DEF SetupBlocked, MarkRunning
    <2>3. UNCHANGED <<agentStatus, hardStopped, cancelFns, reapList, disturbances, claimed>>
      BY <1>8 DEF SetupBlocked, MarkRunning
    <2> QED BY <1>7, <2>1, <2>2, <2>3
  <1>15. CASE CommitRun(g)
    BY <1>7, <1>15 DEF CommitRun
  <1>9. CASE SaveRun(g)
    BY <1>7, <1>9 DEF SaveRun, GoroutineType
  <1>10. CASE HookCancelRuns(g)
    BY <1>7, <1>10 DEF HookCancelRuns, Active
  <1>11. CASE ClaimSucceeds(g, "claim", "load") \/ ClaimSucceeds(g, "startClaim", "setup")
    <2>1. run[go[g].run].status = "queued" /\ go[g].run \in Runs
      BY <1>11 DEF ClaimSucceeds, ClaimGuard
    <2>2. /\ run' = [run EXCEPT ![go[g].run].status = "starting"]
          /\ claimed' = claimed \cup {go[g].run}
          /\ UNCHANGED <<request, agentStatus, hardStopped, cancelFns, reapList, disturbances>>
      BY <1>11 DEF ClaimSucceeds
    <2> QED BY <1>7, <2>1, <2>2
  <1> QED
    BY <1>1, <1>2, <1>3, <1>4, <1>5, <1>6, <1>8, <1>9, <1>10, <1>11, <1>12, <1>13, <1>14, <1>15
    DEF Step, CoalesceWithQueued, CoalesceWithRunning, CountRunning, PickQueued, LoadRun, SetupFails,
        SetupPasses, LoadRunStatus, CostWithinBudget, FinalizeRead, HookListRuns, ClaimFails,
        ExecuteReturns

\* The only steps of a goroutine that write a status, or claim a run.
WritesRun(g) ==
    \/ InsertRun(g) \/ CommitRun(g)
    \/ ClaimSucceeds(g, "claim", "load") \/ ClaimSucceeds(g, "startClaim", "setup")
    \/ SetupBlocked(g) \/ MarkRunning(g) \/ SaveRun(g) \/ HookCancelRuns(g)

\* Every other step of a goroutine leaves the runs as they are.
LEMMA StepWrites ==
  ASSUME NEW g \in Goroutines, Step(g)
  PROVE  WritesRun(g) \/ (run' = run /\ claimed' = claimed)
  BY DEF Step, WritesRun, CoalesceWithQueued, CoalesceWithRunning, CountRunning, PickQueued,
         ClaimFails, LoadRun, SetupFails, SetupPasses, RegisterCancel, ExecuteReturns,
         RollBackRun, SetupBlockedSaveFails, MarkRunningSaveFails, SaveRunFails,
         LoadRunStatus, LoadRunStatusFails, CostWithinBudget, ResumeNextRun, FinalizeRead,
         FinalizeWrite, HookListRuns, HookCancelRequest

\* Of the environment only the operator's cancellation writes a run.
LEMMA EnvironmentWrites ==
  ASSUME Environment
  PROVE  (\E r \in Runs : CancelHeartbeatRun(r)) \/ (run' = run /\ claimed' = claimed)
  BY DEF Environment, WakeupCheck, CostReachesHardStop, ReportedCostReachesHardStop,
         SetAgentStatus, OperatorActs, Crash, CrashUnreaped, Restart

\* No step deletes a run, hides it again, or gives it to another agent.
RunsKept ==
    \A r \in Runs :
        /\ run[r].status # "none" => run'[r].status # "none" /\ run'[r].agent = run[r].agent
        /\ Visible(r) => VisibleIn(run', r)

\* RunsKept holds of every step of a goroutine.
LEMMA StepKeepsRuns ==
  ASSUME Layer1, NEW g \in Goroutines, Step(g)
  PROVE  RunsKept
  <1>0. /\ run \in [Runs -> [status : RunStatus, agent : Agents \cup {NoAgent}]]
        /\ At(g, "save") => go[g].outcome # "none"
    BY DEF Layer1, TypeOK, HeldRunsOK, At
  <1> USE <1>0 DEF RunsKept, Visible, VisibleIn
  <1>1. CASE run' = run
    BY <1>1
  <1>2. CASE InsertRun(g)
    BY <1>2 DEF InsertRun
  <1>3. CASE ClaimSucceeds(g, "claim", "load") \/ ClaimSucceeds(g, "startClaim", "setup")
    BY <1>3 DEF ClaimSucceeds
  <1>4. CASE SetupBlocked(g) \/ MarkRunning(g) \/ CommitRun(g)
    BY <1>4 DEF SetupBlocked, MarkRunning, CommitRun
  <1>5. CASE SaveRun(g)
    <2>1. go[g].outcome \in {"completed", "failed", "cancelled"}
      BY <1>5 DEF SaveRun, At, Layer1, TypeOK, GoroutineType
    <2> QED BY <1>5, <2>1 DEF SaveRun
  <1>6. CASE HookCancelRuns(g)
    BY <1>6 DEF HookCancelRuns
  <1> QED
    BY <1>1, <1>2, <1>3, <1>4, <1>5, <1>6, StepWrites DEF WritesRun

\* The three loops keep the run, its agent and its outcome, or end.
LEMMA AfterFinalizeKeeps ==
  ASSUME NEW rec \in GoroutineType, rec.run \in Runs \/ rec.scope # NoScope
  PROVE  \/ AfterFinalize(rec) = Idle /\ rec.run = NoRun
         \/ /\ AfterFinalize(rec).run = rec.run
            /\ AfterFinalize(rec).agent = rec.agent
            /\ AfterFinalize(rec).outcome = rec.outcome
            /\ AfterFinalize(rec).pc = "finalizeRead" =>
                    rec.agents # {} /\ AfterFinalize(rec).scope = rec.scope
            /\ AfterFinalize(rec).pc # "finalizeRead" =>
                    rec.run \in Runs /\ AfterFinalize(rec).scope = NoScope
            /\ AfterFinalize(rec).pc = (IF rec.agents # {} THEN "finalizeRead"
                                        ELSE IF rec.scope = NoScope THEN "resume" ELSE "save")
  <1> USE DEF GoroutineType, AfterFinalize
  <1>1. CASE rec.agents # {}
    BY <1>1
  <1>2. CASE rec.agents = {} /\ rec.scope = NoScope
    BY <1>2
  <1>3. CASE rec.agents = {} /\ rec.scope # NoScope
    BY <1>3
  <1> QED BY <1>1, <1>2, <1>3

\* finalizeAgentStatus keeps the goroutine on its run, or ends a reported cost.
LEMMA FinalizeKeeps ==
  ASSUME Layer1, NEW g \in Goroutines, FinalizeRead(g) \/ FinalizeWrite(g)
  PROVE  \/ go'[g] = Idle /\ go[g].run = NoRun
         \/ /\ go'[g].run = go[g].run /\ go'[g].agent = go[g].agent
            /\ go'[g].outcome = go[g].outcome
            /\ \/ go'[g].pc \in FinalizePCs /\ go'[g].scope = go[g].scope
               \/ /\ go'[g].pc = (IF go[g].scope = NoScope THEN "resume" ELSE "save")
                  /\ go'[g].run \in Runs /\ go'[g].scope = NoScope
  <1>0. /\ go \in [Goroutines -> GoroutineType] /\ go[g] \in GoroutineType /\ LocalOK(go[g])
        /\ go[g].pc \in FinalizePCs
    BY DEF Layer1, TypeOK, LocalsOK, FinalizeRead, FinalizeWrite, At, FinalizePCs
  <1>1. go[g].run \in Runs \/ go[g].scope # NoScope
    BY <1>0 DEF LocalOK, FinalizePCs
  <1>2. CASE FinalizeWrite(g)
    <2> DEFINE rec == [go[g] EXCEPT !.target = NoAgent, !.status = "idle"]
    <2>1. rec \in GoroutineType
      BY <1>0 DEF GoroutineType, AgentStatus
    <2>2. rec.run = go[g].run /\ rec.agent = go[g].agent /\ rec.outcome = go[g].outcome
          /\ rec.scope = go[g].scope
      BY <1>0 DEF GoroutineType
    <2>3. go'[g] = AfterFinalize(rec)
      BY <1>0, <1>2 DEF FinalizeWrite
    <2> HIDE DEF rec
    <2> QED BY <1>1, <2>1, <2>2, <2>3, AfterFinalizeKeeps DEF FinalizePCs
  <1>3. CASE FinalizeRead(g)
    <2>1. PICK a \in go[g].agents :
            LET rec == [go[g] EXCEPT !.agents = @ \ {a}]
            IN  \/ go' = [go EXCEPT ![g] = AfterFinalize(rec)]
                \/ go' = [go EXCEPT ![g] =
                    [rec EXCEPT !.pc = "finalizeWrite", !.target = a,
                                !.status = NextAgentStatus(a, FinalRunStatus(g))]]
      BY <1>3 DEF FinalizeRead
    <2> DEFINE rec == [go[g] EXCEPT !.agents = @ \ {a}]
               written == [rec EXCEPT !.pc = "finalizeWrite", !.target = a,
                                !.status = NextAgentStatus(a, FinalRunStatus(g))]
    <2>2. go'[g] = AfterFinalize(rec) \/ go'[g] = written
      BY <1>0, <2>1
    <2>3. rec \in GoroutineType
      BY <1>0 DEF GoroutineType
    <2>4. rec.run = go[g].run /\ rec.agent = go[g].agent /\ rec.outcome = go[g].outcome
          /\ rec.scope = go[g].scope
      BY <1>0 DEF GoroutineType
    <2>5. written.pc = "finalizeWrite" /\ written.run = go[g].run /\ written.agent = go[g].agent
          /\ written.outcome = go[g].outcome /\ written.scope = go[g].scope
      BY <1>0 DEF GoroutineType
    <2> HIDE DEF rec, written
    <2> QED BY <1>1, <2>2, <2>3, <2>4, <2>5, AfterFinalizeKeeps DEF FinalizePCs
  <1> QED BY <1>2, <1>3

\* The hook that lists its runs keeps the goroutine on its run, or ends.
LEMMA HookListKeeps ==
  ASSUME Layer1, NEW g \in Goroutines, HookListRuns(g)
  PROVE  \/ go'[g] = Idle /\ go[g].run = NoRun
         \/ /\ go'[g].run = go[g].run /\ go'[g].agent = go[g].agent
            /\ go'[g].outcome = go[g].outcome
            /\ \/ go'[g].pc = "hookUpdate" /\ go'[g].scope = go[g].scope
               \/ go'[g].pc = "save" /\ go'[g].run \in Runs
  <1> DEFINE listed == {r \in Runs : /\ run[r].status \in Active
                                     /\ InScope(run[r].agent, go[g].scope)}
             rec == [go[g] EXCEPT !.pc = "hookUpdate", !.listed = listed,
                                  !.agents = {run[r].agent : r \in listed}]
  <1>1. go \in [Goroutines -> GoroutineType] /\ go[g] \in GoroutineType
    BY DEF Layer1, TypeOK
  <1>2. go'[g] = AfterHook(go[g]) \/ go'[g] = rec
    BY <1>1 DEF HookListRuns
  <1>3. rec.run = go[g].run /\ rec.agent = go[g].agent /\ rec.outcome = go[g].outcome
        /\ rec.pc = "hookUpdate" /\ rec.scope = go[g].scope
    BY <1>1 DEF GoroutineType
  <1>4. CASE go'[g] = AfterHook(go[g])
    BY <1>1, <1>4 DEF AfterHook, GoroutineType
  <1> HIDE DEF rec
  <1> QED BY <1>2, <1>3, <1>4

\* A turn of the hook's loop only moves the goroutine that runs it.
LEMMA HookCancelRequestKeeps ==
  ASSUME Layer1, NEW g \in Goroutines, HookCancelRequest(g), NEW h \in Goroutines
  PROVE  /\ go'[h].run = go[h].run /\ go'[h].agent = go[h].agent
         /\ go'[h].scope = go[h].scope /\ go'[h].outcome = go[h].outcome
         /\ h # g => go'[h].pc = go[h].pc
         /\ h = g => go'[h].pc \in {"hookRequests", "finalizeRead"}
  <1>1. PICK r \in go[g].listed :
            go' = [i \in Goroutines |->
                    IF i # g THEN Signalled(i, r)
                    ELSE [Signalled(g, r) EXCEPT !.listed = @ \ {r},
                            !.pc = IF go[g].listed = {r} THEN "finalizeRead" ELSE @]]
    BY DEF HookCancelRequest
  <1>2. go[h] \in GoroutineType /\ go[g].pc = "hookRequests"
    BY DEF Layer1, TypeOK, HookCancelRequest, At
  <1>3. CASE h # g
    <2>1. go'[h] = Signalled(h, r)
      BY <1>1, <1>3
    <2> QED BY <2>1, <1>2, <1>3 DEF Signalled, GoroutineType
  <1>4. CASE h = g
    <2>1. go'[h] = [Signalled(h, r) EXCEPT !.listed = @ \ {r},
                            !.pc = IF go[g].listed = {r} THEN "finalizeRead" ELSE @]
      BY <1>1, <1>4
    <2> QED BY <2>1, <1>2, <1>4 DEF Signalled, GoroutineType
  <1> QED BY <1>3, <1>4

\* A step of g changes at most the ctxDone of another goroutine.
LEMMA OthersKept ==
  ASSUME Layer1, NEW g \in Goroutines, Step(g), NEW h \in Goroutines, h # g
  PROVE  /\ go'[h].pc = go[h].pc /\ go'[h].run = go[h].run
         /\ go'[h].scope = go[h].scope /\ go'[h].outcome = go[h].outcome
  <1>0. go \in [Goroutines -> GoroutineType] /\ go[h] \in GoroutineType
    BY DEF Layer1, TypeOK
  <1>1. CASE HookCancelRequest(g)
    BY <1>1, HookCancelRequestKeeps
  <1>2. CASE go'[h] = go[h]
    BY <1>2
  <1>3. CASE \E rec : go' = [go EXCEPT ![g] = rec]
    BY <1>0, <1>3
  <1> QED
    BY <1>0, <1>1, <1>2, <1>3
    DEF Step, InsertRun, CommitRun, RollBackRun, SetupBlockedSaveFails, MarkRunningSaveFails,
        SaveRunFails, CoalesceWithQueued, CoalesceWithRunning, CountRunning, PickQueued,
        ClaimSucceeds, ClaimFails, LoadRun, SetupFails, SetupBlocked, SetupPasses, MarkRunning,
        RegisterCancel, ExecuteReturns, LoadRunStatus, LoadRunStatusFails, CostWithinBudget, SaveRun, ResumeNextRun,
        FinalizeRead, FinalizeWrite, HookListRuns, HookCancelRuns

\* The transaction of a wakeup holds the run it has inserted.
LEMMA Layer1HeldInsert ==
  ASSUME Layer1, NEW g \in Goroutines, InsertRun(g)
  PROVE  HeldRunsOK'
  <1>0. go \in [Goroutines -> GoroutineType] /\ HeldRunsOK
        /\ run \in [Runs -> [status : RunStatus, agent : Agents \cup {NoAgent}]]
    BY DEF Layer1, TypeOK
  <1>1. PICK r \in Runs :
          /\ run[r].status = "none"
          /\ run' = [run EXCEPT ![r] = [status |-> "inserted", agent |-> go[g].agent]]
          /\ go' = [go EXCEPT ![g].pc = "commit", ![g].run = r]
    BY DEF InsertRun
  <1>2. go'[g].pc = "commit" /\ go'[g].run = r /\ run'[r].status # "none"
    BY <1>0, <1>1 DEF GoroutineType
  <1>3. ASSUME NEW h \in Goroutines, h # g
        PROVE  /\ go'[h] = go[h]
               /\ go[h].run \in Runs => go[h].run # r /\ run'[go[h].run] = run[go[h].run]
    BY <1>0, <1>1, <1>3 DEF HeldRunsOK
  <1>4. ASSUME NEW h \in Goroutines, h # g
        PROVE  /\ go'[h].run \in Runs => run'[go'[h].run].status # "none"
               /\ go'[h].run \in Runs /\ go'[h].pc # "commit" => VisibleIn(run', go'[h].run)
    BY <1>0, <1>3, <1>4 DEF HeldRunsOK, Visible, VisibleIn
  <1>5. ASSUME NEW h \in Goroutines, h # g
        PROVE  /\ go'[h].pc \in {"loadStatus", "cost", "save"} => go'[h].outcome # "none"
               /\ go'[h].pc \in HookPCs \cup FinalizePCs /\ go'[h].run \in Runs
                    => go'[h].outcome # "none"
    BY <1>0, <1>3, <1>5 DEF HeldRunsOK
  <1> QED BY <1>2, <1>4, <1>5 DEF HeldRunsOK, HookPCs, FinalizePCs, Visible, VisibleIn

\* A step of g leaves every goroutine with an existing run and a known outcome.
LEMMA Layer1Held ==
  ASSUME Layer1, NEW g \in Goroutines, Step(g), ~InsertRun(g)
  PROVE  HeldRunsOK'
  <1>0. /\ go \in [Goroutines -> GoroutineType] /\ go[g] \in GoroutineType /\ LocalOK(go[g])
        /\ HeldRunsOK
    BY DEF Layer1, TypeOK, LocalsOK
  <1>1. RunsKept
    BY StepKeepsRuns
  <1>2. ASSUME NEW h \in Goroutines, h # g
        PROVE  /\ go'[h].run \in Runs => run'[go'[h].run].status # "none"
               /\ go'[h].run \in Runs /\ go'[h].pc # "commit" => VisibleIn(run', go'[h].run)
               /\ go'[h].pc \in {"loadStatus", "cost", "save"} => go'[h].outcome # "none"
               /\ go'[h].pc \in HookPCs \cup FinalizePCs /\ go'[h].run \in Runs
                    => go'[h].outcome # "none"
    <2>1. /\ go'[h].pc = go[h].pc /\ go'[h].run = go[h].run
          /\ go'[h].scope = go[h].scope /\ go'[h].outcome = go[h].outcome
      BY <1>2, OthersKept
    <2>2. go[h].run \in Runs /\ go[h].pc # "commit" => Visible(go[h].run)
      BY <1>0 DEF HeldRunsOK
    <2>3. go[h].run \in Runs => run[go[h].run].status # "none"
      BY <1>0 DEF HeldRunsOK
    <2>4. \A r \in Runs : Visible(r) => VisibleIn(run', r)
      BY <1>1 DEF RunsKept
    <2>5. go[h].run \in Runs /\ go[h].pc # "commit" => VisibleIn(run', go'[h].run)
      BY <2>1, <2>2, <2>4 DEF Visible, VisibleIn
    <2> QED BY <1>0, <1>1, <2>1, <2>3, <2>5 DEF HeldRunsOK, RunsKept
  <1>3. go'[g].run \in Runs => run'[go'[g].run].status # "none" /\ VisibleIn(run', go'[g].run)
    <2> SUFFICES ASSUME go'[g].run \in Runs
                 PROVE  run'[go'[g].run].status # "none" /\ VisibleIn(run', go'[g].run)
      OBVIOUS
    <2>7. CASE go'[g].run = go[g].run /\ Visible(go[g].run)
      BY <2>7, <1>1 DEF RunsKept, Visible, VisibleIn
    <2>1. CASE go'[g].run = go[g].run /\ go[g].pc # "commit"
      BY <2>1, <2>7, <1>0 DEF HeldRunsOK
    <2>2. CASE PickQueued(g) \/ ResumeNextRun(g)
      <3>1. CASE go' = [go EXCEPT ![g] = Idle]
        BY <1>0, <3>1, ConstantsAssumption DEF Idle, NoRun, Runs
      <3>2. CASE ~(go' = [go EXCEPT ![g] = Idle])
        <4>1. PICK r \in Runs :
                /\ IsOldestQueued(r, go[g].agent)
                /\ \/ go' = [go EXCEPT ![g].pc = "claim", ![g].run = r]
                   \/ go' = [go EXCEPT ![g] = [Idle EXCEPT !.pc = "load", !.run = r,
                                                           !.agent = go[g].agent]]
          BY <2>2, <3>2 DEF PickQueued, ResumeNextRun
        <4>2. go'[g].run = r
          BY <1>0, <4>1, ZenonT(40) DEF Idle, GoroutineType
        <4>3. run[r].status = "queued"
          BY <4>1 DEF IsOldestQueued, Queued
        <4> QED BY <1>1, <4>2, <4>3 DEF RunsKept, Visible, VisibleIn
      <3> QED BY <3>1, <3>2
    <2>3. CASE go'[g] = Idle
      BY <2>3, ConstantsAssumption DEF Idle, NoRun, Runs
    <2>4. CASE FinalizeRead(g) \/ FinalizeWrite(g) \/ HookListRuns(g)
      <3>1. go'[g].run = go[g].run \/ go'[g] = Idle
        BY <2>4, FinalizeKeeps, HookListKeeps
      <3>2. go[g].pc # "commit"
        BY <2>4 DEF FinalizeRead, FinalizeWrite, HookListRuns, At
      <3> QED BY <3>1, <3>2, <2>1, <2>3
    <2>5. CASE HookCancelRequest(g)
      <3>1. go[g].pc # "commit"
        BY <2>5 DEF HookCancelRequest, At
      <3> QED BY <2>1, <2>5, <3>1, HookCancelRequestKeeps
    <2>6. CASE CommitRun(g) \/ RollBackRun(g)
      BY <1>0, <2>3, <2>6, ConstantsAssumption
      DEF CommitRun, RollBackRun, GoroutineType, NoRun, Runs
    <2>8. CASE go[g].pc # "commit" /\ go'[g].run = go[g].run
      BY <2>1, <2>8
    <2> USE DEF At
    <2> QED
      BY <1>0, <2>2, <2>3, <2>4, <2>5, <2>6, <2>8
      DEF Step, InsertRun, CommitRun, RollBackRun, SetupBlockedSaveFails, MarkRunningSaveFails,
        SaveRunFails, CoalesceWithQueued, CoalesceWithRunning, CountRunning,
          ClaimSucceeds, ClaimFails, LoadRun, SetupFails, SetupBlocked, SetupPasses, MarkRunning,
          RegisterCancel, ExecuteReturns, LoadRunStatus, LoadRunStatusFails, CostWithinBudget, SaveRun,
          HookCancelRuns, GoroutineType
  <1>4. /\ go'[g].pc \in {"loadStatus", "cost", "save"} => go'[g].outcome # "none"
        /\ go'[g].pc \in HookPCs \cup FinalizePCs /\ go'[g].run \in Runs => go'[g].outcome # "none"
    <2> USE <1>0, ConstantsAssumption
        DEF HeldRunsOK, At, Idle, GoroutineType, HookPCs, FinalizePCs, NoRun, Runs, Scopes
    <2>1. CASE \E outcome \in {"completed", "failed"} : ExecuteReturns(g, outcome)
      BY <2>1 DEF ExecuteReturns
    <2>2. CASE LoadRunStatus(g)
      BY <2>2 DEF LoadRunStatus
    <2>3. CASE CostWithinBudget(g)
      BY <2>3 DEF CostWithinBudget
    <2>4. CASE SaveRun(g) \/ SaveRunFails(g)
      BY <2>4 DEF SaveRun, SaveRunFails
    <2>5. CASE FinalizeRead(g) \/ FinalizeWrite(g)
      <3>1. go[g].pc \in FinalizePCs
        BY <2>5 DEF FinalizeRead, FinalizeWrite
      <3> QED BY <2>5, <3>1, FinalizeKeeps
    <2>6. CASE HookListRuns(g)
      <3>1. go[g].pc = "hookList"
        BY <2>6 DEF HookListRuns
      <3> QED BY <2>6, <3>1, HookListKeeps
    <2>7. CASE HookCancelRuns(g)
      BY <2>7 DEF HookCancelRuns
    <2>8. CASE HookCancelRequest(g)
      BY <2>8, HookCancelRequestKeeps DEF HookCancelRequest
    <2>9. CASE go'[g].pc \in {"free", "count", "pick", "claim", "load", "startClaim", "setup",
                              "mark", "register", "execute"}
      BY <2>9
    <2>10. CASE PickQueued(g) \/ ResumeNextRun(g)
      <3>1. CASE go' = [go EXCEPT ![g] = Idle]
        BY <2>9, <3>1
      <3>2. CASE \E r \in Runs : go' = [go EXCEPT ![g].pc = "claim", ![g].run = r]
        BY <2>9, <3>2
      <3>3. CASE \E r \in Runs : go' = [go EXCEPT ![g] = [Idle EXCEPT !.pc = "load", !.run = r,
                                                                    !.agent = go[g].agent]]
        BY <2>9, <3>3
      <3> QED BY <2>10, <3>1, <3>2, <3>3 DEF PickQueued, ResumeNextRun
    <2>11. CASE CommitRun(g) \/ RollBackRun(g) \/ CoalesceWithQueued(g) \/ CoalesceWithRunning(g) \/ CountRunning(g)
                \/ ClaimFails(g, "claim") \/ ClaimFails(g, "startClaim") \/ LoadRunStatusFails(g)
      BY <2>9, <2>11
      DEF CommitRun, RollBackRun, CoalesceWithQueued, CoalesceWithRunning, CountRunning,
          ClaimFails, LoadRunStatusFails
    <2>12. CASE ClaimSucceeds(g, "claim", "load") \/ LoadRun(g)
                \/ ClaimSucceeds(g, "startClaim", "setup")
      BY <2>9, <2>12 DEF ClaimSucceeds, LoadRun
    <2>13. CASE SetupFails(g) \/ SetupBlocked(g) \/ SetupBlockedSaveFails(g) \/ SetupPasses(g)
                \/ MarkRunning(g) \/ MarkRunningSaveFails(g) \/ RegisterCancel(g)
      BY <2>9, <2>13 DEF SetupFails, SetupBlocked, SetupBlockedSaveFails, SetupPasses,
                         MarkRunning, MarkRunningSaveFails, RegisterCancel
    <2> QED
      BY <2>1, <2>2, <2>3, <2>4, <2>5, <2>6, <2>7, <2>8, <2>10, <2>11, <2>12, <2>13 DEF Step
  <1> QED BY <1>2, <1>3, <1>4 DEF HeldRunsOK, Visible

\* A goroutine that starts, or one that moves into the hook.
LEMMA GoroutineStarts ==
  ASSUME Layer1, NEW g \in Goroutines, NEW rec \in GoroutineType, LocalOK(rec),
         go' = [go EXCEPT ![g] = rec], RunsKept,
         rec.run \in Runs => VisibleIn(run', rec.run),
         rec.pc \notin {"loadStatus", "cost", "save"},
         rec.pc \in HookPCs \cup FinalizePCs /\ rec.run \in Runs => rec.outcome # "none"
  PROVE  go' \in [Goroutines -> GoroutineType] /\ LocalsOK' /\ HeldRunsOK'
  <1>1. go' \in [Goroutines -> GoroutineType] /\ LocalsOK'
    BY GoroutineFrame DEF Layer1
  <1>2. ASSUME NEW h \in Goroutines
        PROVE  go'[h] = go[h] \/ go'[h] = rec
    BY DEF Layer1, TypeOK
  <1>3. ASSUME NEW h \in Goroutines, go'[h] = go[h]
        PROVE  /\ go'[h].run \in Runs => run'[go'[h].run].status # "none"
               /\ go'[h].run \in Runs /\ go'[h].pc # "commit" => VisibleIn(run', go'[h].run)
    <2>1. go[h].run \in Runs => run'[go[h].run].status # "none"
      BY DEF Layer1, HeldRunsOK, RunsKept
    <2>2. go[h].run \in Runs /\ go[h].pc # "commit" => VisibleIn(run', go[h].run)
      BY DEF Layer1, HeldRunsOK, RunsKept
    <2>3. VisibleIn(run', go[h].run) => VisibleIn(run', go'[h].run)
      BY <1>3 DEF Visible, VisibleIn
    <2> QED BY <1>3, <2>1, <2>2, <2>3
  <1>4. ASSUME NEW h \in Goroutines, go'[h] = rec
        PROVE  go'[h].run \in Runs => run'[go'[h].run].status # "none" /\ VisibleIn(run', go'[h].run)
    BY <1>4 DEF Visible, VisibleIn
  <1>5. ASSUME NEW h \in Goroutines
        PROVE  /\ go'[h].pc \in {"loadStatus", "cost", "save"} => go'[h].outcome # "none"
               /\ go'[h].pc \in HookPCs \cup FinalizePCs /\ go'[h].run \in Runs
                    => go'[h].outcome # "none"
    BY <1>2 DEF Layer1, HeldRunsOK
  <1> QED BY <1>1, <1>2, <1>3, <1>4, <1>5 DEF HeldRunsOK, Visible

\* The actions of the environment that change no run.
LEMMA Layer1SameRuns ==
  ASSUME Layer1, run' = run, reapList' = reapList, TablesOK',
         go' \in [Goroutines -> GoroutineType] /\ LocalsOK' /\ HeldRunsOK'
  PROVE  Layer1'
  BY DEF Layer1, TypeOK, TablesOK, RowsOK, ReapListOK, Visible, VisibleIn

\* A wakeup starts a goroutine that has only its agent.
LEMMA Layer1Wakeup ==
  ASSUME Layer1, NEW g \in Goroutines, NEW a \in Agents, WakeupCheck(g, a)
  PROVE  Layer1'
  <1> DEFINE rec == [Idle EXCEPT !.pc = "enqueue", !.agent = a]
  <1>1. rec \in GoroutineType /\ LocalOK(rec) /\ rec.pc = "enqueue" /\ rec.run = NoRun
    BY IdleOK
    DEF Idle, GoroutineType, PCs, LocalOK, ChoosingPCs, BoundPCs, TrackingPCs, HookPCs,
        FinalizePCs
  <1>2. TablesOK' /\ RunsKept /\ go' = [go EXCEPT ![g] = rec] /\ run' = run /\ reapList' = reapList
    BY DEF WakeupCheck, Layer1, TypeOK, TablesOK, RunsKept, Visible, VisibleIn
  <1>3. rec.run \notin Runs
    BY <1>1, ConstantsAssumption DEF NoRun, Runs
  <1> HIDE DEF rec
  <1> QED BY <1>1, <1>2, <1>3, GoroutineStarts, Layer1SameRuns DEF HookPCs, FinalizePCs

\* A hard stop pauses an agent or the company.
LEMMA HardStopType ==
  ASSUME Layer1, NEW s \in Scopes, HardStop(s)
  PROVE  /\ agentStatus' \in [Agents -> AgentStatus] /\ hardStopped' \subseteq Scopes
         /\ disturbances' \in 0..MaxDisturbances
  BY DisturbType DEF Layer1, TypeOK, HardStop, AgentStatus

\* Both ways into the hook keep Layer1.
LEMMA Layer1Cost ==
  ASSUME Layer1, NEW g \in Goroutines, NEW s \in Scopes,
         CostReachesHardStop(g, s) \/ ReportedCostReachesHardStop(g, s)
  PROVE  Layer1'
  <1>0. go \in [Goroutines -> GoroutineType] /\ go[g] \in GoroutineType /\ LocalOK(go[g])
    BY DEF Layer1, TypeOK, LocalsOK
  <1>1. TablesOK' /\ RunsKept /\ run' = run /\ reapList' = reapList
    BY HardStopType
    DEF CostReachesHardStop, ReportedCostReachesHardStop, Layer1, TypeOK, TablesOK, RunsKept,
        Visible, VisibleIn
  <1>2. CASE CostReachesHardStop(g, s)
    <2> DEFINE rec == [go[g] EXCEPT !.pc = "hookList", !.scope = s]
    <2>1. go[g].pc = "cost" /\ go[g].outcome # "none" /\ go' = [go EXCEPT ![g] = rec]
      BY <1>2 DEF CostReachesHardStop, At, Layer1, HeldRunsOK
    <2>2. rec \in GoroutineType /\ rec.pc = "hookList" /\ rec.run = go[g].run
          /\ rec.outcome = go[g].outcome /\ rec.agent = go[g].agent /\ rec.scope = s
      BY <1>0 DEF GoroutineType, PCs, HookPCs
    <2>3. LocalOK(rec)
      BY <1>0, <2>1, <2>2
      DEF Scopes, LocalOK, ChoosingPCs, BoundPCs, TrackingPCs, HookPCs, FinalizePCs
    <2>4. rec.run \in Runs => VisibleIn(run', rec.run)
      BY <1>1, <2>1, <2>2 DEF Layer1, HeldRunsOK, Visible, VisibleIn
    <2> HIDE DEF rec
    <2> QED BY <1>1, <2>1, <2>2, <2>3, <2>4, GoroutineStarts, Layer1SameRuns
  <1>3. CASE ReportedCostReachesHardStop(g, s)
    <2> DEFINE rec == [Idle EXCEPT !.pc = "hookList", !.scope = s]
    <2>1. go' = [go EXCEPT ![g] = rec]
      BY <1>3 DEF ReportedCostReachesHardStop
    <2>2. rec \in GoroutineType /\ rec.pc = "hookList" /\ rec.run = NoRun /\ rec.scope = s
      BY IdleOK DEF Idle, GoroutineType, PCs, HookPCs
    <2>3. s # NoScope /\ rec.run \notin Runs
      BY <2>2, ConstantsAssumption DEF Scopes, NoRun, Runs
    <2>4. LocalOK(rec)
      BY <2>2, <2>3 DEF LocalOK, ChoosingPCs, BoundPCs, TrackingPCs, HookPCs, FinalizePCs
    <2> HIDE DEF rec
    <2> QED BY <1>1, <2>1, <2>2, <2>3, <2>4, GoroutineStarts, Layer1SameRuns
  <1> QED BY <1>2, <1>3

\* The operator's requests keep Layer1, and delete no run.
LEMMA Layer1Operator ==
  ASSUME Layer1,
         \/ \E r \in Runs : CancelHeartbeatRun(r)
         \/ \E a \in Agents, status \in AgentStatus : SetAgentStatus(a, status)
  PROVE  Layer1' /\ RunsKept
  <1>1. OperatorActs
    BY DEF CancelHeartbeatRun, SetAgentStatus
  <1>2. UNCHANGED <<request, hardStopped, go, cancelFns, reapList, claimed>>
        /\ disturbances' \in 0..MaxDisturbances
    BY <1>1, DisturbType DEF OperatorActs, Layer1, TypeOK
  <1>3. /\ agentStatus' \in [Agents -> AgentStatus]
        /\ hardStopped' \subseteq Scopes
        /\ run' \in [Runs -> [status : RunStatus, agent : Agents \cup {NoAgent}]]
        /\ \A r \in Runs :
            /\ run'[r].agent = run[r].agent /\ (run'[r].status = "none" <=> run[r].status = "none")
            /\ VisibleIn(run', r) <=> Visible(r)
    <2> USE DEF Visible, VisibleIn
    <2>1. CASE \E r \in Runs : CancelHeartbeatRun(r)
      BY <1>2, <2>1 DEF CancelHeartbeatRun, Layer1, TypeOK, RunStatus
    <2>2. CASE \E a \in Agents, status \in AgentStatus : SetAgentStatus(a, status)
      BY <1>2, <2>2 DEF SetAgentStatus, Layer1, TypeOK
    <2> QED BY <2>1, <2>2
  <1>4. RunsKept
    BY <1>3 DEF RunsKept
  <1>5. TypeOK' /\ LocalsOK'
    BY <1>2, <1>3 DEF Layer1, TypeOK, LocalsOK
  <1>6. RowsOK'
    BY <1>3 DEF Layer1, RowsOK
  <1>7. HeldRunsOK' /\ ReapListOK'
    <2>1. ReapListOK'
      BY <1>2, <1>3 DEF Layer1, TypeOK, ReapListOK, Visible, VisibleIn
    <2>2. HeldRunsOK'
      BY <1>2, <1>3 DEF Layer1, HeldRunsOK, Visible, VisibleIn
    <2> QED BY <2>1, <2>2
  <1> QED BY <1>4, <1>5, <1>6, <1>7 DEF Layer1

\* A crash leaves idle slots and the rows as they were.
LEMMA Layer1Crash ==
  ASSUME Layer1, Crash \/ CrashUnreaped
  PROVE  Layer1'
  <1>0. PICK found \in SUBSET {r \in Runs : run[r].status = "running"} : Restart(found)
    BY DEF Crash, CrashUnreaped
  <1>1. TypeOK'
    BY <1>0, IdleOK, DisturbType DEF Layer1, TypeOK, Restart
  <1>2. LocalsOK'
    BY <1>0, IdleOK DEF LocalsOK, Restart
  <1>3. HeldRunsOK'
    BY <1>0, ConstantsAssumption DEF HeldRunsOK, Restart, Idle, NoRun, Runs, HookPCs, FinalizePCs
  <1>4. RowsOK' /\ ReapListOK'
    BY <1>0 DEF Layer1, RowsOK, ReapListOK, Restart, Visible, VisibleIn
  <1> QED BY <1>1, <1>2, <1>3, <1>4 DEF Layer1

\* The reaper completes an existing run and starts at most one goroutine.
LEMMA Layer1Reap ==
  ASSUME Layer1, NEW r \in Runs, Reap(r)
  PROVE  Layer1' /\ RunsKept
  <1>0. /\ go \in [Goroutines -> GoroutineType]
        /\ run \in [Runs -> [status : RunStatus, agent : Agents \cup {NoAgent}]]
        /\ Visible(r)
        /\ NextAfterReap(r)
        /\ run' = run \/ run' = [run EXCEPT ![r].status = "completed"]
        /\ disturbances' \in 0..MaxDisturbances
    BY DisturbType
    DEF Layer1, TypeOK, ReapListOK, Reap, ReapRun, ReapRunSaveFails, NextAfterReap, StatementFails
  <1>1. TablesOK'
    <2>1. run' \in [Runs -> [status : RunStatus, agent : Agents \cup {NoAgent}]]
      BY <1>0 DEF RunStatus
    <2>2. reapList' \subseteq Runs /\ UNCHANGED <<request, agentStatus, hardStopped, cancelFns, claimed>>
      BY <1>0 DEF NextAfterReap, Layer1, TypeOK
    <2> QED BY <1>0, <2>1, <2>2 DEF Layer1, TypeOK, TablesOK
  <1>2. \A q \in Runs :
          /\ run'[q].agent = run[q].agent /\ (run'[q].status = "none" <=> run[q].status = "none")
          /\ VisibleIn(run', q) <=> Visible(q)
    BY <1>0 DEF Visible, VisibleIn
  <1>3. RunsKept
    BY <1>2 DEF RunsKept
  <1>4. RowsOK'
    BY <1>2 DEF Layer1, RowsOK
  <1>5. ReapListOK'
    BY <1>0, <1>2 DEF Layer1, TypeOK, ReapListOK, NextAfterReap, Visible, VisibleIn
  <1>6. go' \in [Goroutines -> GoroutineType] /\ LocalsOK' /\ HeldRunsOK'
    <2>1. CASE go' = go
      <3>1. HeldRunsOK'
        BY <2>1, <1>2 DEF Layer1, HeldRunsOK, Visible, VisibleIn
      <3> QED BY <2>1, <3>1 DEF Layer1, TypeOK, LocalsOK
    <2>2. CASE go' # go
      <3>1. PICK s \in Runs, g \in Goroutines :
              /\ IsOldestQueued(s, run[r].agent)
              /\ go' = [go EXCEPT ![g] = [Idle EXCEPT !.pc = "load", !.run = s,
                                                      !.agent = run[r].agent]]
        BY <1>0, <2>2 DEF NextAfterReap
      <3> DEFINE rec == [Idle EXCEPT !.pc = "load", !.run = s, !.agent = run[r].agent]
      <3>2. run[r].agent \in Agents /\ run[s].status = "queued"
        BY <1>0, <3>1 DEF Layer1, RowsOK, IsOldestQueued, Queued
      <3>3. rec \in GoroutineType /\ LocalOK(rec) /\ rec.pc = "load" /\ rec.run = s
        BY <3>2, IdleOK
        DEF Idle, GoroutineType, PCs, LocalOK, ChoosingPCs, BoundPCs, TrackingPCs, HookPCs,
            FinalizePCs
      <3>4. go' = [go EXCEPT ![g] = rec] /\ VisibleIn(run', rec.run)
        BY <1>2, <3>1, <3>2, <3>3 DEF Visible, VisibleIn
      <3> HIDE DEF rec
      <3> QED BY <1>3, <3>3, <3>4, GoroutineStarts DEF HookPCs, FinalizePCs
    <2> QED BY <2>1, <2>2
  <1> QED BY <1>1, <1>3, <1>4, <1>5, <1>6 DEF Layer1, TypeOK, TablesOK

\* Layer1 holds initially.
LEMMA Layer1Init == Init => Layer1
  <1> SUFFICES ASSUME Init PROVE Layer1
    OBVIOUS
  <1>1. TypeOK
    BY IdleOK, ConstantsAssumption
    DEF Init, TypeOK, RunStatus, RequestStatus, AgentStatus
  <1>2. RowsOK
    BY DEF Init, RowsOK
  <1>3. LocalsOK
    BY IdleOK DEF Init, LocalsOK
  <1>4. HeldRunsOK
    BY ConstantsAssumption DEF Init, HeldRunsOK, Idle, NoRun, Runs, HookPCs, FinalizePCs
  <1>5. ReapListOK
    BY DEF Init, ReapListOK
  <1> QED BY <1>1, <1>2, <1>3, <1>4, <1>5 DEF Layer1

\* Only a crash and the reaper change what is left to reap.
LEMMA StepKeepsReapList ==
  ASSUME NEW g \in Goroutines, Step(g)
  PROVE  reapList' = reapList
  BY DEF Step, InsertRun, CommitRun, RollBackRun, SetupBlockedSaveFails, MarkRunningSaveFails,
        SaveRunFails, CoalesceWithQueued, CoalesceWithRunning, CountRunning, PickQueued,
         ClaimSucceeds, ClaimFails, LoadRun, SetupFails, SetupBlocked, SetupPasses, MarkRunning,
         RegisterCancel, ExecuteReturns, LoadRunStatus, LoadRunStatusFails, CostWithinBudget, SaveRun, ResumeNextRun,
         FinalizeRead, FinalizeWrite, HookListRuns, HookCancelRuns, HookCancelRequest

\* Layer1 is kept by a step of a goroutine.
LEMMA Layer1Step ==
  ASSUME Layer1, NEW g \in Goroutines, Step(g)
  PROVE  Layer1'
  <1>1. go' \in [Goroutines -> GoroutineType] /\ LocalsOK'
    BY Layer1Goroutines
  <1>2. TablesOK' /\ RowsOK'
    BY Layer1Tables
  <1>3. HeldRunsOK'
    BY Layer1Held, Layer1HeldInsert
  <1>4. RunsKept /\ reapList' = reapList
    BY StepKeepsRuns, StepKeepsReapList
  <1>5. ReapListOK'
    BY <1>4 DEF Layer1, TypeOK, ReapListOK, RunsKept, Visible, VisibleIn
  <1> QED BY <1>1, <1>2, <1>3, <1>5 DEF Layer1, TypeOK, TablesOK

\* Layer1 is inductive, and no step deletes a run.
LEMMA Layer1Next == Layer1 /\ [Next]_vars => Layer1' /\ RunsKept
  <1> SUFFICES ASSUME Layer1, [Next]_vars PROVE Layer1' /\ RunsKept
    OBVIOUS
  <1>1. CASE \E g \in Goroutines : Step(g)
    BY <1>1, Layer1Step, StepKeepsRuns
  <1>2. CASE \E g \in Goroutines, a \in Agents : WakeupCheck(g, a)
    BY <1>2, Layer1Wakeup DEF WakeupCheck, RunsKept, Visible, VisibleIn
  <1>3. CASE \E g \in Goroutines, s \in Scopes :
                CostReachesHardStop(g, s) \/ ReportedCostReachesHardStop(g, s)
    BY <1>3, Layer1Cost DEF CostReachesHardStop, ReportedCostReachesHardStop, RunsKept, Visible, VisibleIn
  <1>4. CASE \/ \E r \in Runs : CancelHeartbeatRun(r)
             \/ \E a \in Agents, status \in AgentStatus : SetAgentStatus(a, status)
        BY <1>4, Layer1Operator
  <1>5. CASE Crash \/ CrashUnreaped
    BY <1>5, Layer1Crash DEF Crash, CrashUnreaped, Restart, RunsKept, Visible, VisibleIn
  <1>6. CASE \E r \in Runs : Reap(r)
    BY <1>6, Layer1Reap
  <1>7. CASE UNCHANGED vars
    BY <1>7 DEF vars, Layer1, TypeOK, RowsOK, LocalsOK, HeldRunsOK, ReapListOK, RunsKept,
               Visible, VisibleIn
  <1> QED BY <1>1, <1>2, <1>3, <1>4, <1>5, <1>6, <1>7 DEF Next, Environment

\* In every reachable state the columns hold statuses the code knows and the
\* locals of a goroutine hold what its program counter needs.
THEOREM TypeCorrect == Spec => []TypeOK
  <1>1. Spec => []Layer1
    BY Layer1Init, Layer1Next, PTL DEF Spec
  <1>2. Layer1 => TypeOK
    BY DEF Layer1
  <1> QED BY <1>1, <1>2, PTL

-----------------------------------------------------------------------------
(* Layer 2 is inductive.                                                    *)

\* The values that stand for "none" are not scopes or runs.
LEMMA ScopesHaveValues == NoScope \notin Scopes /\ NoRun \notin Runs
  BY ConstantsAssumption DEF Scopes, NoRun, Runs

\* A goroutine begins to track a run by marking it running, and ends by saving it.
LEMMA TracksStep ==
  ASSUME Layer1, NEW g \in Goroutines, Step(g), NEW r \in Runs
  PROVE  /\ Tracks(g, r)' =>
              \/ Tracks(g, r)
              \/ go[g].run = r /\ (MarkRunning(g) \/ MarkRunningSaveFails(g))
         /\ Tracks(g, r) =>
              \/ Tracks(g, r)'
              \/ go[g].run = r /\ (SaveRun(g) \/ SaveRunFails(g) \/ LoadRunStatusFails(g))
  <1>0. /\ go \in [Goroutines -> GoroutineType] /\ go[g] \in GoroutineType /\ LocalOK(go[g])
    BY DEF Layer1, TypeOK, LocalsOK
  <1>1. go[g].pc \in HookPCs => go[g].scope # NoScope
    BY <1>0, ScopesHaveValues DEF LocalOK
  <1> USE <1>0, ScopesHaveValues DEF Tracks, At, TrackingPCs, HookPCs, FinalizePCs
  <1> DEFINE BeforePCs == {"enqueue", "commit", "count", "pick", "claim", "load", "startClaim",
                           "setup", "resume"}
             AfterPCs == {"free", "commit", "count", "pick", "claim", "load", "startClaim",
                          "setup", "mark"}
  <1>2. CASE go[g].pc \in BeforePCs /\ go'[g].pc \in AfterPCs
    BY <1>2
  <1>3. CASE go[g].pc \in TrackingPCs /\ go'[g].pc \in TrackingPCs /\ go'[g].run = go[g].run
    BY <1>3
  <1>4. CASE MarkRunning(g) \/ MarkRunningSaveFails(g)
    <2>1. go'[g].run = go[g].run /\ go[g].pc = "mark"
      BY <1>4 DEF MarkRunning, MarkRunningSaveFails, GoroutineType
    <2> QED BY <1>4, <2>1
  <1>5. CASE SaveRun(g) \/ SaveRunFails(g)
    <2>1. go[g].pc = "save" /\ go[g].scope = NoScope
      BY <1>5 DEF SaveRun, SaveRunFails, LocalOK, BoundPCs
    <2>2. go'[g].pc = "finalizeRead" /\ go'[g].scope = NoScope
      BY <1>5, <2>1 DEF SaveRun, SaveRunFails, GoroutineType
    <2> QED BY <1>5, <2>1, <2>2
  <1>6. CASE FinalizeRead(g) \/ FinalizeWrite(g)
    <2>1. go[g].pc \in FinalizePCs
      BY <1>6 DEF FinalizeRead, FinalizeWrite
    <2>2. Idle.pc = "free"
      BY DEF Idle
    <2> QED BY <1>6, <2>1, <2>2, FinalizeKeeps
  <1>7. CASE HookListRuns(g)
    <2>1. go[g].pc = "hookList"
      BY <1>7 DEF HookListRuns
    <2>2. Idle.pc = "free"
      BY DEF Idle
    <2> QED BY <1>1, <1>7, <2>1, <2>2, HookListKeeps
  <1>8. CASE HookCancelRuns(g)
    BY <1>1, <1>8 DEF HookCancelRuns
  <1>9. CASE HookCancelRequest(g)
    <2>1. go[g].pc = "hookRequests"
      BY <1>9 DEF HookCancelRequest
    <2> QED BY <1>1, <1>9, <2>1, HookCancelRequestKeeps
  <1>10. CASE RegisterCancel(g) \/ LoadRunStatus(g) \/ CostWithinBudget(g)
    BY <1>3, <1>10 DEF RegisterCancel, LoadRunStatus, CostWithinBudget, GoroutineType
  <1>11. CASE \E outcome \in {"completed", "failed"} : ExecuteReturns(g, outcome)
    BY <1>3, <1>11 DEF ExecuteReturns, GoroutineType
  <1>17. CASE InsertRun(g) \/ CommitRun(g) \/ RollBackRun(g)
    <2>1. go[g].pc \in BeforePCs
      BY <1>17 DEF InsertRun, CommitRun, RollBackRun
    <2>2. go'[g].pc \in AfterPCs
      BY <1>17 DEF InsertRun, CommitRun, RollBackRun, Idle, GoroutineType
    <2> QED BY <1>2, <2>1, <2>2
  <1>12. CASE CoalesceWithQueued(g) \/ CoalesceWithRunning(g) \/ CountRunning(g)
              \/ ClaimFails(g, "claim") \/ ClaimFails(g, "startClaim")
    <2>1. go[g].pc \in BeforePCs
      BY <1>12 DEF CoalesceWithQueued, CoalesceWithRunning, CountRunning, ClaimFails
    <2>2. go'[g].pc \in AfterPCs
      BY <1>12
      DEF CoalesceWithQueued, CoalesceWithRunning, CountRunning, ClaimFails, Idle,
          GoroutineType
    <2> QED BY <1>2, <2>1, <2>2
  <1>13. CASE ClaimSucceeds(g, "claim", "load") \/ LoadRun(g)
              \/ ClaimSucceeds(g, "startClaim", "setup")
    <2>1. go[g].pc \in BeforePCs
      BY <1>13 DEF ClaimSucceeds, LoadRun
    <2>2. go'[g].pc \in AfterPCs
      BY <1>13 DEF ClaimSucceeds, LoadRun, Idle, GoroutineType
    <2> QED BY <1>2, <2>1, <2>2
  <1>14. CASE SetupFails(g) \/ SetupBlocked(g) \/ SetupBlockedSaveFails(g) \/ SetupPasses(g)
    <2>1. go[g].pc \in BeforePCs
      BY <1>14 DEF SetupFails, SetupBlocked, SetupBlockedSaveFails, SetupPasses
    <2>2. go'[g].pc \in AfterPCs
      BY <1>14 DEF SetupFails, SetupBlocked, SetupBlockedSaveFails, SetupPasses, Idle, GoroutineType
    <2> QED BY <1>2, <2>1, <2>2
  <1>15. CASE PickQueued(g) \/ ResumeNextRun(g)
    <2>1. go[g].pc \in {"pick", "resume"}
      BY <1>15 DEF PickQueued, ResumeNextRun
    <2>2. go'[g].pc \in {"free", "claim", "load"}
      <3>1. CASE go' = [go EXCEPT ![g] = Idle]
        BY <3>1 DEF Idle
      <3>2. CASE \E q \in Runs : go' = [go EXCEPT ![g].pc = "claim", ![g].run = q]
        BY <3>2 DEF GoroutineType
      <3>3. CASE \E q \in Runs : go' = [go EXCEPT ![g] = [Idle EXCEPT !.pc = "load", !.run = q,
                                                                    !.agent = go[g].agent]]
        BY <3>3 DEF Idle
      <3> QED BY <1>15, <3>1, <3>2, <3>3 DEF PickQueued, ResumeNextRun
    <2> QED BY <1>2, <2>1, <2>2
  <1>16. CASE LoadRunStatusFails(g)
    BY <1>16 DEF LoadRunStatusFails, Idle
  <1> QED
    BY <1>4, <1>5, <1>6, <1>7, <1>8, <1>9, <1>10, <1>11, <1>12, <1>13, <1>14, <1>15, <1>16,
       <1>17
    DEF Step

\* Outside Step, goroutines start on a free slot, enter the hook, or all end.
LEMMA EnvironmentTracks ==
  ASSUME Layer1, Environment \/ \E r \in Runs : Reap(r), ~Crash, ~CrashUnreaped,
         NEW g \in Goroutines
  PROVE  /\ \A r \in Runs : Tracks(g, r)' <=> Tracks(g, r)
         /\ go'[g].pc \in {"setup", "mark", "commit"} => go'[g] = go[g]
  <1>0. go \in [Goroutines -> GoroutineType]
    BY DEF Layer1, TypeOK
  <1> USE <1>0, ScopesHaveValues DEF Tracks, TrackingPCs, HookPCs, FinalizePCs
  <1>1. CASE go'[g] = go[g]
    BY <1>1
  <1>2. CASE go[g].pc = "free" /\ go'[g].pc \in {"enqueue", "load"}
    BY <1>2
  <1>3. CASE go[g].pc = "free" /\ go'[g].run = NoRun /\ go'[g].pc = "hookList"
    BY <1>3
  <1>4. CASE go[g].pc = "cost" /\ \E s \in Scopes :
                go'[g] = [go[g] EXCEPT !.pc = "hookList", !.scope = s]
    BY <1>4 DEF GoroutineType
  <1>5. CASE \E h \in Goroutines, a \in Agents : WakeupCheck(h, a)
    BY <1>1, <1>2, <1>5 DEF WakeupCheck, Free, Idle
  <1>6. CASE \E h \in Goroutines, s \in Scopes : CostReachesHardStop(h, s)
    BY <1>1, <1>4, <1>6 DEF CostReachesHardStop, At
  <1>7. CASE \E h \in Goroutines, s \in Scopes : ReportedCostReachesHardStop(h, s)
    BY <1>1, <1>3, <1>7 DEF ReportedCostReachesHardStop, Free, Idle
  <1>8. CASE go' = go
    BY <1>1, <1>8
  <1>9. CASE \E r \in Runs : Reap(r)
    <2>1. PICK r \in Runs : NextAfterReap(r)
      BY <1>9 DEF Reap, ReapRun, ReapRunSaveFails
    <2>2. CASE \E s \in Runs, h \in Goroutines :
                /\ Free(h)
                /\ go' = [go EXCEPT ![h] = [Idle EXCEPT !.pc = "load", !.run = s,
                                                        !.agent = run[r].agent]]
      BY <1>1, <1>2, <2>2 DEF Free, Idle
    <2> QED BY <1>8, <2>1, <2>2 DEF NextAfterReap
  <1> QED
    BY <1>5, <1>6, <1>7, <1>8, <1>9
    DEF Environment, CancelHeartbeatRun, SetAgentStatus, OperatorActs

\* Which statuses a step of a goroutine may give to which runs.
LEMMA ClaimsStep ==
  ASSUME Layer1, Layer2, NEW g \in Goroutines, Step(g)
  PROVE  ClaimsOK' /\ claimed \subseteq claimed'
  <1>0. /\ run \in [Runs -> [status : RunStatus, agent : Agents \cup {NoAgent}]]
        /\ go[g] \in GoroutineType /\ LocalOK(go[g])
        /\ At(g, "save") => go[g].outcome # "none"
        /\ ClaimsOK /\ OnlyClaimedRunsExecute /\ CommitsOK /\ claimed \subseteq Runs
        /\ reapList' = reapList
    BY StepKeepsReapList DEF Layer1, Layer2, TypeOK, LocalsOK, HeldRunsOK, At
  <1> USE <1>0 DEF ClaimsOK, Visible, VisibleIn
  <1>1. CASE run' = run /\ claimed' = claimed
    BY <1>1
  <1>2. CASE InsertRun(g)
    BY <1>2 DEF InsertRun
  <1>8. CASE CommitRun(g)
    <2>1. run[go[g].run].status = "inserted"
      BY <1>8 DEF CommitRun, CommitsOK
    <2> QED BY <1>8, <2>1 DEF CommitRun
  <1>3. CASE ClaimSucceeds(g, "claim", "load") \/ ClaimSucceeds(g, "startClaim", "setup")
    <2>1. go[g].run \in Runs /\ run[go[g].run].status = "queued"
      BY <1>3 DEF ClaimSucceeds, ClaimGuard, At, LocalOK, BoundPCs
    <2>2. run' = [run EXCEPT ![go[g].run].status = "starting"]
          /\ claimed' = claimed \cup {go[g].run}
      BY <1>3 DEF ClaimSucceeds
    <2> QED BY <2>1, <2>2
  <1>4. CASE SetupBlocked(g)
    BY <1>4 DEF SetupBlocked
  <1>5. CASE MarkRunning(g)
    <2>1. go[g].run \in claimed
      BY <1>5 DEF MarkRunning, OnlyClaimedRunsExecute
    <2> QED BY <1>5, <2>1 DEF MarkRunning
  <1>6. CASE SaveRun(g)
    <2>1. go[g].outcome \in {"completed", "failed", "cancelled"}
      BY <1>6 DEF SaveRun, GoroutineType
    <2> QED BY <1>6, <2>1 DEF SaveRun
  <1>7. CASE HookCancelRuns(g)
    BY <1>7 DEF HookCancelRuns
  <1> QED
    BY <1>1, <1>2, <1>3, <1>4, <1>5, <1>6, <1>7, <1>8, StepWrites DEF WritesRun

\* Crashes, the reaper and the operator claim nothing and queue nothing.
LEMMA ClaimsEnvironment ==
  ASSUME Layer1, Layer2, Environment \/ \E r \in Runs : Reap(r)
  PROVE  ClaimsOK' /\ claimed' = claimed
  <1>0. /\ run \in [Runs -> [status : RunStatus, agent : Agents \cup {NoAgent}]]
        /\ ClaimsOK /\ claimed \subseteq Runs
    BY DEF Layer1, Layer2, TypeOK
  <1> USE <1>0 DEF ClaimsOK, Visible, VisibleIn
  <1>1. CASE run' = run /\ claimed' = claimed /\ reapList' = reapList
    BY <1>1
  <1>2. CASE \E r \in Runs : CancelHeartbeatRun(r)
    BY <1>2 DEF CancelHeartbeatRun, OperatorActs
  <1>3. CASE Crash \/ CrashUnreaped
    BY <1>3 DEF Crash, CrashUnreaped, Restart
  <1>4. CASE \E r \in Runs : Reap(r)
    <2>1. PICK r \in Runs : ReapRun(r) \/ ReapRunSaveFails(r)
      BY <1>4 DEF Reap
    <2>2. r \in reapList /\ reapList' \subseteq reapList /\ claimed' = claimed
      BY <2>1 DEF ReapRun, ReapRunSaveFails, NextAfterReap
    <2>3. run' = run \/ run' = [run EXCEPT ![r].status = "completed"]
      BY <2>1 DEF ReapRun, ReapRunSaveFails
    <2> QED BY <2>2, <2>3
  <1> QED
    BY <1>1, <1>2, <1>3, <1>4
    DEF Environment, WakeupCheck, CostReachesHardStop, ReportedCostReachesHardStop,
        SetAgentStatus, OperatorActs

\* The step of g itself: what it newly executes, it found claimed.
LEMMA ExecutesStep ==
  ASSUME Layer1, Layer2, NEW g \in Goroutines, Step(g)
  PROVE  (At(g, "setup") \/ At(g, "mark") \/ \E r \in Runs : Tracks(g, r))'
            => go'[g].run \in claimed'
  <1>0. /\ go \in [Goroutines -> GoroutineType] /\ go[g] \in GoroutineType /\ LocalOK(go[g])
        /\ ClaimsOK /\ OnlyClaimedRunsExecute /\ claimed \subseteq claimed'
    BY ClaimsStep DEF Layer1, Layer2, TypeOK, LocalsOK
  <1>1. ASSUME NEW r \in Runs, Tracks(g, r)' PROVE go'[g].run \in claimed'
    <2>1. /\ go'[g].run = r
          /\ \/ Tracks(g, r)
             \/ go[g].run = r /\ (MarkRunning(g) \/ MarkRunningSaveFails(g))
      BY <1>1, TracksStep DEF Tracks
    <2>2. go[g].run = r
      BY <2>1 DEF Tracks
    <2>3. r \in claimed
      BY <1>0, <2>1, <2>2 DEF OnlyClaimedRunsExecute, MarkRunning, MarkRunningSaveFails
    <2> QED BY <1>0, <2>1, <2>3
  <1>2. ASSUME go'[g].pc \in {"setup", "mark"} PROVE go'[g].run \in claimed'
    <2> USE <1>0
    <2>1. CASE LoadRun(g)
      <3>1. run[go[g].run].status = "starting" /\ go[g].run \in Runs /\ go'[g].run = go[g].run
        BY <1>2, <2>1 DEF LoadRun, At, GoroutineType, LocalOK, BoundPCs
      <3> QED BY <3>1 DEF ClaimsOK
    <2>2. CASE ClaimSucceeds(g, "startClaim", "setup") \/ ClaimSucceeds(g, "claim", "load")
      BY <2>2 DEF ClaimSucceeds, GoroutineType
    <2>3. CASE SetupPasses(g)
      BY <2>3 DEF SetupPasses, OnlyClaimedRunsExecute, GoroutineType
    <2>4. CASE go'[g].pc \notin {"setup", "mark"}
      BY <1>2, <2>4
    <2>5. CASE FinalizeRead(g) \/ FinalizeWrite(g)
      BY <2>4, <2>5, FinalizeKeeps DEF FinalizePCs, Idle
    <2>6. CASE HookListRuns(g)
      BY <2>4, <2>6, HookListKeeps DEF Idle
    <2>7. CASE HookCancelRequest(g)
      BY <2>4, <2>7, HookCancelRequestKeeps
    <2>8. CASE PickQueued(g) \/ ResumeNextRun(g)
      <3>1. CASE go' = [go EXCEPT ![g] = Idle]
        BY <2>4, <3>1 DEF Idle
      <3>2. CASE \E q \in Runs : go' = [go EXCEPT ![g].pc = "claim", ![g].run = q]
        BY <2>4, <3>2 DEF GoroutineType
      <3>3. CASE \E q \in Runs : go' = [go EXCEPT ![g] = [Idle EXCEPT !.pc = "load", !.run = q,
                                                                    !.agent = go[g].agent]]
        BY <2>4, <3>3 DEF Idle
      <3> QED BY <2>8, <3>1, <3>2, <3>3 DEF PickQueued, ResumeNextRun
    <2>12. CASE InsertRun(g) \/ CommitRun(g) \/ RollBackRun(g) \/ SetupBlockedSaveFails(g)
                \/ MarkRunningSaveFails(g) \/ SaveRunFails(g)
      BY <2>4, <2>12
      DEF InsertRun, CommitRun, RollBackRun, SetupBlockedSaveFails, MarkRunningSaveFails,
          SaveRunFails, Idle, GoroutineType
    <2>9. CASE CoalesceWithQueued(g) \/ CoalesceWithRunning(g) \/ CountRunning(g)
              \/ ClaimFails(g, "claim") \/ ClaimFails(g, "startClaim") \/ LoadRunStatusFails(g)
      BY <2>4, <2>9
      DEF CoalesceWithQueued, CoalesceWithRunning, CountRunning, ClaimFails,
          LoadRunStatusFails, Idle, GoroutineType
    <2>10. CASE SetupFails(g) \/ SetupBlocked(g) \/ MarkRunning(g) \/ RegisterCancel(g)
                \/ LoadRunStatus(g) \/ CostWithinBudget(g) \/ SaveRun(g) \/ HookCancelRuns(g)
      BY <2>4, <2>10 DEF SetupFails, SetupBlocked, MarkRunning, RegisterCancel, LoadRunStatus,
                         CostWithinBudget, SaveRun, HookCancelRuns, Idle, GoroutineType
    <2>11. CASE \E outcome \in {"completed", "failed"} : ExecuteReturns(g, outcome)
      BY <2>4, <2>11 DEF ExecuteReturns, GoroutineType
    <2> QED BY <2>1, <2>2, <2>3, <2>5, <2>6, <2>7, <2>8, <2>9, <2>10, <2>11, <2>12 DEF Step
  <1> QED BY <1>1, <1>2 DEF At

\* Only the insert brings a goroutine before its commit.
LEMMA CommitComesFromInsert ==
  ASSUME Layer1, NEW g \in Goroutines, Step(g), go'[g].pc = "commit"
  PROVE  InsertRun(g)
  <1>0. go \in [Goroutines -> GoroutineType] /\ go[g] \in GoroutineType
    BY DEF Layer1, TypeOK
  <1> USE <1>0 DEF Idle, At, FinalizePCs
  <1>1. ~FinalizeRead(g) /\ ~FinalizeWrite(g)
    BY FinalizeKeeps
  <1>2. ~HookListRuns(g)
    BY HookListKeeps
  <1>3. ~HookCancelRequest(g)
    BY HookCancelRequestKeeps
  <1>4. ~PickQueued(g) /\ ~ResumeNextRun(g)
    <2>1. go' # [go EXCEPT ![g] = Idle]
      OBVIOUS
    <2>2. \A q \in Runs : go' # [go EXCEPT ![g].pc = "claim", ![g].run = q]
      BY DEF GoroutineType
    <2>3. \A q \in Runs : go' # [go EXCEPT ![g] = [Idle EXCEPT !.pc = "load", !.run = q,
                                                             !.agent = go[g].agent]]
      OBVIOUS
    <2> QED BY <2>1, <2>2, <2>3 DEF PickQueued, ResumeNextRun
  <1>5. /\ ~CommitRun(g) /\ ~RollBackRun(g) /\ ~SetupBlockedSaveFails(g)
        /\ ~MarkRunningSaveFails(g) /\ ~SaveRunFails(g)
    BY DEF CommitRun, RollBackRun, SetupBlockedSaveFails, MarkRunningSaveFails, SaveRunFails,
           GoroutineType
  <1>6. /\ ~CoalesceWithQueued(g) /\ ~CoalesceWithRunning(g) /\ ~CountRunning(g)
        /\ ~ClaimFails(g, "claim") /\ ~ClaimFails(g, "startClaim") /\ ~LoadRunStatusFails(g)
    BY DEF CoalesceWithQueued, CoalesceWithRunning, CountRunning, ClaimFails, LoadRunStatusFails,
           GoroutineType
  <1>7. /\ ~ClaimSucceeds(g, "claim", "load") /\ ~ClaimSucceeds(g, "startClaim", "setup")
        /\ ~LoadRun(g) /\ ~SetupFails(g) /\ ~SetupBlocked(g) /\ ~SetupPasses(g)
    BY DEF ClaimSucceeds, LoadRun, SetupFails, SetupBlocked, SetupPasses, GoroutineType
  <1>8. /\ ~MarkRunning(g) /\ ~RegisterCancel(g) /\ ~LoadRunStatus(g) /\ ~CostWithinBudget(g)
        /\ ~SaveRun(g) /\ ~HookCancelRuns(g)
        /\ ~\E outcome \in {"completed", "failed"} : ExecuteReturns(g, outcome)
    BY DEF MarkRunning, RegisterCancel, LoadRunStatus, CostWithinBudget, SaveRun, HookCancelRuns,
           ExecuteReturns, GoroutineType
  <1> QED BY <1>1, <1>2, <1>3, <1>4, <1>5, <1>6, <1>7, <1>8 DEF Step

\* Nobody but its own transaction touches a run before the commit.
LEMMA InsertedKept ==
  ASSUME Layer1, [Next]_vars, NEW r \in Runs, run[r].status = "inserted",
         \A g \in Goroutines : CommitRun(g) => go[g].run # r
  PROVE  run'[r].status = "inserted"
  <1>0. /\ run \in [Runs -> [status : RunStatus, agent : Agents \cup {NoAgent}]]
        /\ HeldRunsOK /\ LocalsOK /\ ReapListOK
    BY DEF Layer1, TypeOK
  <1> USE <1>0
  <1>1. CASE run' = run
    BY <1>1
  <1>2. CASE \E g \in Goroutines : Step(g)
    <2>1. PICK g \in Goroutines : Step(g)
      BY <1>2
    <2>2. CASE InsertRun(g)
      BY <2>2 DEF InsertRun
    <2>3. CASE CommitRun(g)
      BY <2>3 DEF CommitRun
    <2>4. CASE ClaimSucceeds(g, "claim", "load") \/ ClaimSucceeds(g, "startClaim", "setup")
      BY <2>4 DEF ClaimSucceeds, ClaimGuard
    <2>5. CASE SetupBlocked(g) \/ MarkRunning(g) \/ SaveRun(g)
      <3>1. go[g].pc \in {"setup", "mark", "save"}
        BY <2>5 DEF SetupBlocked, MarkRunning, SaveRun, At
      <3>2. go[g].run # r
        BY <3>1 DEF HeldRunsOK, LocalsOK, LocalOK, BoundPCs, TrackingPCs, Visible, VisibleIn
      <3> QED BY <2>5, <3>2 DEF SetupBlocked, MarkRunning, SaveRun
    <2>6. CASE HookCancelRuns(g)
      BY <2>6 DEF HookCancelRuns, Active
    <2> QED BY <1>1, <2>1, <2>2, <2>3, <2>4, <2>5, <2>6, StepWrites DEF WritesRun
  <1>3. CASE \E s \in Runs : CancelHeartbeatRun(s)
    BY <1>3 DEF CancelHeartbeatRun, OperatorActs
  <1>4. CASE \E s \in Runs : Reap(s)
    <2>1. PICK s \in reapList : run' = run \/ run' = [run EXCEPT ![s].status = "completed"]
      BY <1>4 DEF Reap, ReapRun, ReapRunSaveFails, NextAfterReap
    <2>2. s # r
      BY DEF ReapListOK, Visible, VisibleIn
    <2> QED BY <2>1, <2>2
  <1> QED BY <1>1, <1>2, <1>3, <1>4, EnvironmentWrites DEF Next, vars

\* CommitsOK is inductive relative to Layer1.
LEMMA CommitsNext ==
  ASSUME Layer1, CommitsOK, [Next]_vars
  PROVE  CommitsOK'
  <1>0. /\ go \in [Goroutines -> GoroutineType] /\ LocalsOK
        /\ run \in [Runs -> [status : RunStatus, agent : Agents \cup {NoAgent}]]
    BY DEF Layer1, TypeOK
  <1>1. ASSUME NEW h \in Goroutines, go'[h].pc = "commit", go[h].pc = "commit",
               go'[h].run = go[h].run, ~CommitRun(h)
        PROVE  run[go[h].run].status = "inserted" /\ run'[go'[h].run].status = "inserted"
    <2>1. go[h].run \in Runs /\ run[go[h].run].status = "inserted"
      BY <1>0, <1>1 DEF CommitsOK, At, LocalsOK, LocalOK, BoundPCs
    <2>2. ASSUME NEW g \in Goroutines, CommitRun(g) PROVE go[g].run # go[h].run
      BY <1>1, <2>2 DEF CommitsOK, CommitRun, At
    <2> QED BY <1>1, <2>1, <2>2, InsertedKept
  <1>2. CASE \E g \in Goroutines : Step(g)
    <2>1. PICK g \in Goroutines : Step(g)
      BY <1>2
    <2>2. \A h \in Goroutines : h # g => go'[h].pc = go[h].pc /\ go'[h].run = go[h].run
      BY <2>1, OthersKept
    <2>3. CASE InsertRun(g)
      <3>1. PICK r \in Runs : /\ run[r].status = "none"
                             /\ run'[r].status = "inserted" /\ go'[g].run = r
        BY <1>0, <2>3 DEF InsertRun, GoroutineType
      <3>2. ASSUME NEW h \in Goroutines, h # g, go'[h].pc = "commit"
            PROVE  go'[h].run # r /\ run'[go'[h].run].status = "inserted"
        <4>1. ~CommitRun(h)
          <5>1. SUFFICES ASSUME CommitRun(h) PROVE FALSE
            OBVIOUS
          <5>2. go'[h].pc = "count"
            BY <1>0, <5>1 DEF CommitRun, GoroutineType
          <5> QED BY <3>2, <5>2
        <4> QED BY <1>1, <2>2, <3>1, <3>2, <4>1
      <3>3. ASSUME NEW h \in Goroutines, NEW i \in Goroutines, h # g, i # g, h # i,
                   go'[h].pc = "commit", go'[i].pc = "commit"
            PROVE  go'[h].run # go'[i].run
        BY <2>2, <3>3 DEF CommitsOK, At
      <3> QED BY <3>1, <3>2, <3>3 DEF CommitsOK, At
    <2>4. CASE ~InsertRun(g)
      <3>1. go'[g].pc # "commit"
        BY <2>1, <2>4, CommitComesFromInsert
      <3>2. ASSUME NEW h \in Goroutines, go'[h].pc = "commit"
            PROVE  h # g /\ run'[go'[h].run].status = "inserted"
        <4>1. h # g /\ go[h].pc = "commit" /\ go'[h].run = go[h].run
          BY <2>2, <3>1, <3>2
        <4>2. ~CommitRun(h)
          <5>1. SUFFICES ASSUME CommitRun(h) PROVE FALSE
            OBVIOUS
          <5>2. go'[h].pc = "count"
            BY <1>0, <5>1 DEF CommitRun, GoroutineType
          <5> QED BY <3>2, <5>2
        <4> QED BY <1>1, <3>2, <4>1, <4>2
      <3> QED BY <2>2, <3>2 DEF CommitsOK, At
    <2> QED BY <2>3, <2>4
  <1>3. CASE Crash \/ CrashUnreaped
    BY <1>3 DEF Crash, CrashUnreaped, Restart, CommitsOK, At, Idle
  <1>4. CASE (Environment \/ \E r \in Runs : Reap(r)) /\ ~Crash /\ ~CrashUnreaped
    <2>1. ASSUME NEW h \in Goroutines, go'[h].pc = "commit" PROVE go'[h] = go[h]
      BY <1>4, <2>1, EnvironmentTracks
    <2>2. ASSUME NEW h \in Goroutines, go'[h].pc = "commit"
          PROVE  run'[go'[h].run].status = "inserted"
      <3>1. ~CommitRun(h)
        <4>1. SUFFICES ASSUME CommitRun(h) PROVE FALSE
          OBVIOUS
        <4>2. go'[h].pc = "count"
          BY <1>0, <4>1 DEF CommitRun, GoroutineType
        <4> QED BY <2>2, <4>2
      <3>2. go'[h] = go[h]
        BY <2>1, <2>2
      <3> QED BY <1>1, <2>2, <3>1, <3>2
    <2> QED BY <2>1, <2>2 DEF CommitsOK, At
  <1>5. CASE UNCHANGED vars
    BY <1>5 DEF vars, CommitsOK, At
  <1> QED BY <1>2, <1>3, <1>4, <1>5 DEF Next

\* Layer2 is inductive relative to Layer1.
LEMMA Layer2Next == Layer1 /\ Layer2 /\ [Next]_vars => Layer2'
  <1> SUFFICES ASSUME Layer1, Layer2, [Next]_vars PROVE Layer2'
    OBVIOUS
  <1>4. CommitsOK'
    BY CommitsNext DEF Layer2
  <1>1. CASE \E g \in Goroutines : Step(g)
    <2>1. PICK g \in Goroutines : Step(g)
      BY <1>1
    <2>2. ClaimsOK' /\ claimed \subseteq claimed'
      BY <2>1, ClaimsStep
    <2>3. ASSUME NEW h \in Goroutines,
                 (At(h, "setup") \/ At(h, "mark") \/ \E r \in Runs : Tracks(h, r))'
          PROVE  go'[h].run \in claimed'
      <3>1. CASE h = g
        BY <2>1, <2>3, <3>1, ExecutesStep
      <3>2. CASE h # g
        <4>1. go'[h].pc = go[h].pc /\ go'[h].run = go[h].run /\ go'[h].scope = go[h].scope
          BY <2>1, <3>2, OthersKept
        <4>2. At(h, "setup") \/ At(h, "mark") \/ \E r \in Runs : Tracks(h, r)
          BY <2>3, <4>1 DEF At, Tracks
        <4> QED BY <2>2, <4>1, <4>2 DEF Layer2, OnlyClaimedRunsExecute
      <3> QED BY <3>1, <3>2
    <2> QED BY <1>4, <2>2, <2>3 DEF Layer2, OnlyClaimedRunsExecute
  <1>2. CASE Environment \/ \E r \in Runs : Reap(r)
    <2>1. ClaimsOK' /\ claimed' = claimed
      BY <1>2, ClaimsEnvironment
    <2>2. CASE Crash \/ CrashUnreaped
      BY <1>4, <2>1, <2>2, ScopesHaveValues
      DEF Layer2, OnlyClaimedRunsExecute, Crash, CrashUnreaped, Restart, Idle, At, Tracks,
          TrackingPCs, HookPCs, FinalizePCs
    <2>3. CASE ~Crash /\ ~CrashUnreaped
      <3>1. ASSUME NEW g \in Goroutines,
                   (At(g, "setup") \/ At(g, "mark") \/ \E r \in Runs : Tracks(g, r))'
            PROVE  go'[g].run \in claimed'
        <4>1. /\ \A r \in Runs : Tracks(g, r)' <=> Tracks(g, r)
              /\ go'[g].pc \in {"setup", "mark", "commit"} => go'[g] = go[g]
          BY <1>2, <2>3, EnvironmentTracks
        <4>2. CASE go'[g].pc \in {"setup", "mark"}
          BY <2>1, <4>1, <4>2 DEF At, Layer2, OnlyClaimedRunsExecute
        <4>3. CASE \E r \in Runs : Tracks(g, r)'
          <5>1. PICK r \in Runs : Tracks(g, r)' /\ Tracks(g, r)
            BY <4>1, <4>3
          <5>2. go'[g].run = r /\ go[g].run = r
            BY <5>1 DEF Tracks
          <5> QED BY <2>1, <5>1, <5>2 DEF Layer2, OnlyClaimedRunsExecute
        <4> QED BY <3>1, <4>2, <4>3 DEF At
      <3> QED BY <1>4, <2>1, <3>1 DEF Layer2, OnlyClaimedRunsExecute
    <2> QED BY <2>2, <2>3
  <1>3. CASE UNCHANGED vars
    BY <1>3, <1>4 DEF vars, Layer2, ClaimsOK, OnlyClaimedRunsExecute, At, Tracks, Visible, VisibleIn
  <1> QED BY <1>1, <1>2, <1>3 DEF Next

\* Layer2 holds initially.
LEMMA Layer2Init == Init => Layer2
  BY ScopesHaveValues
  DEF Init, Layer2, ClaimsOK, CommitsOK, OnlyClaimedRunsExecute, Idle, At, Tracks, TrackingPCs,
      HookPCs, FinalizePCs

\* No goroutine prepares or executes a run that was not claimed first.
THEOREM ClaimedBeforeExecuted == Spec => []OnlyClaimedRunsExecute
  <1>1. Spec => [](Layer1 /\ Layer2)
    BY Layer1Init, Layer1Next, Layer2Init, Layer2Next, PTL DEF Spec
  <1>2. Layer2 => OnlyClaimedRunsExecute
    BY DEF Layer2
  <1> QED BY <1>1, <1>2, PTL

-----------------------------------------------------------------------------
(* A cancelled run that was never claimed: every write of a goroutine goes   *)
(* to a run it has claimed, so only a claim could touch it.                  *)

\* No step touches a run that was cancelled before any claim.
LEMMA CancelledStep ==
  ASSUME Layer1, Layer2, [Next]_vars, NEW r \in Runs, run[r].status = "cancelled", r \notin claimed
  PROVE  run'[r].status = "cancelled" /\ r \notin claimed'
  <1>0. /\ run \in [Runs -> [status : RunStatus, agent : Agents \cup {NoAgent}]]
        /\ reapList \subseteq claimed /\ OnlyClaimedRunsExecute /\ CommitsOK
    BY DEF Layer1, Layer2, ClaimsOK, TypeOK
  <1> USE <1>0
  <1>1. CASE run' = run /\ claimed' = claimed
    BY <1>1
  <1>2. CASE \E g \in Goroutines : Step(g)
    <2>1. PICK g \in Goroutines : Step(g)
      BY <1>2
    <2>2. CASE InsertRun(g)
      BY <2>2 DEF InsertRun
    <2>7. CASE CommitRun(g)
      <3>1. go[g].run # r
        BY <2>7 DEF CommitRun, CommitsOK
      <3> QED BY <2>7, <3>1 DEF CommitRun
    <2>3. CASE ClaimSucceeds(g, "claim", "load") \/ ClaimSucceeds(g, "startClaim", "setup")
      <3>1. go[g].run # r
        BY <2>3 DEF ClaimSucceeds, ClaimGuard
      <3> QED BY <2>3, <3>1 DEF ClaimSucceeds
    <2>4. CASE SetupBlocked(g) \/ MarkRunning(g)
      <3>1. go[g].run # r
        BY <2>4 DEF SetupBlocked, MarkRunning, OnlyClaimedRunsExecute
      <3> QED BY <2>4, <3>1 DEF SetupBlocked, MarkRunning
    <2>5. CASE SaveRun(g)
      <3>1. go[g].run # r
        BY <2>5 DEF SaveRun, At, Tracks, TrackingPCs, OnlyClaimedRunsExecute
      <3> QED BY <2>5, <3>1 DEF SaveRun
    <2>6. CASE HookCancelRuns(g)
      BY <2>6 DEF HookCancelRuns
    <2> QED
      BY <1>1, <2>1, <2>2, <2>3, <2>4, <2>5, <2>6, <2>7, StepWrites DEF WritesRun
  <1>3. CASE \E s \in Runs : CancelHeartbeatRun(s)
    BY <1>3 DEF CancelHeartbeatRun, OperatorActs
  <1>4. CASE \E s \in Runs : Reap(s)
    BY <1>4 DEF Reap, ReapRun, ReapRunSaveFails, NextAfterReap
  <1> QED
    BY <1>1, <1>2, <1>3, <1>4, EnvironmentWrites DEF Next, vars

\* A run cancelled while it waited in the queue stays cancelled and unclaimed.
THEOREM QueueCancellationIsFinal == Spec => CancelledInQueueIsFinal
  <1> DEFINE Final == \A r \in Runs : run[r].status = "cancelled" /\ r \notin claimed
                        => run'[r].status = "cancelled" /\ r \notin claimed'
  <1>1. Spec => [](Layer1 /\ Layer2)
    BY Layer1Init, Layer1Next, Layer2Init, Layer2Next, PTL DEF Spec
  <1>2. (Layer1 /\ Layer2) /\ [Next]_vars => [Final]_vars
    BY CancelledStep
  <1>3. Spec => [][Final]_vars
    BY <1>1, <1>2, PTL DEF Spec
  <1> QED BY <1>3 DEF CancelledInQueueIsFinal

-----------------------------------------------------------------------------
(* Layer 3: a running run has a tracker.                                    *)

\* No step of g but one that fails on it loses a run.
LEMMA TrackerStep ==
  ASSUME Layer1, NEW g \in Goroutines, Step(g),
         NEW r \in Runs, ~FailsOn(r), ~Lost(r), run'[r].status = "running"
  PROVE  r \in reapList' \/ \E h \in Goroutines : Tracks(h, r)'
  <1>0. /\ run \in [Runs -> [status : RunStatus, agent : Agents \cup {NoAgent}]]
        /\ go \in [Goroutines -> GoroutineType] /\ go[g] \in GoroutineType
        /\ reapList' = reapList
    BY StepKeepsReapList DEF Layer1, TypeOK
  <1>1. CASE MarkRunning(g) /\ go[g].run = r
    <2>1. go'[g].pc = "register" /\ go'[g].run = r
      BY <1>0, <1>1 DEF MarkRunning, GoroutineType
    <2> QED BY <2>1 DEF Tracks, TrackingPCs
  <1>2. CASE ~(MarkRunning(g) /\ go[g].run = r)
    <2>1. run[r].status = "running"
      <3>1. CASE run' = run
        BY <3>1
      <3>2. CASE InsertRun(g) \/ CommitRun(g)
        BY <1>0, <3>2 DEF InsertRun, CommitRun
      <3>3. CASE ClaimSucceeds(g, "claim", "load") \/ ClaimSucceeds(g, "startClaim", "setup")
        BY <1>0, <3>3 DEF ClaimSucceeds
      <3>4. CASE SetupBlocked(g)
        BY <1>0, <3>4 DEF SetupBlocked
      <3>5. CASE MarkRunning(g)
        BY <1>0, <1>2, <3>5 DEF MarkRunning
      <3>6. CASE SaveRun(g)
        <4>1. go[g].outcome # "running"
          BY <1>0 DEF GoroutineType
        <4> QED BY <1>0, <3>6, <4>1 DEF SaveRun
      <3>7. CASE HookCancelRuns(g)
        BY <1>0, <3>7 DEF HookCancelRuns
      <3> QED
        BY <3>1, <3>2, <3>3, <3>4, <3>5, <3>6, <3>7, StepWrites DEF WritesRun
    <2>2. CASE r \in reapList
      BY <1>0, <2>2
    <2>3. CASE \E h \in Goroutines : Tracks(h, r)
      <3>1. PICK h \in Goroutines : Tracks(h, r)
        BY <2>3
      <3>2. CASE h # g
        BY <3>1, <3>2, OthersKept DEF Tracks
      <3>3. CASE h = g
        <4>1. ~(SaveRun(g) /\ go[g].run = r)
          <5>1. go[g].outcome # "running"
            BY <1>0 DEF GoroutineType
          <5> QED BY <1>0, <5>1 DEF SaveRun
        <4>2. ~(go[g].run = r /\ (SaveRunFails(g) \/ LoadRunStatusFails(g)))
          BY DEF FailsOn
        <4> QED BY <3>1, <3>3, <4>1, <4>2, TracksStep
      <3> QED BY <3>2, <3>3
    <2> QED BY <2>1, <2>2, <2>3 DEF Lost, Tracked
  <1> QED BY <1>1, <1>2

\* Nor does any other step: a crash leaves what runs to the reaper.
LEMMA NothingElseLoses ==
  ASSUME Layer1, [Next]_vars, NEW r \in Runs, ~FailsOn(r), ~Lost(r)
  PROVE  ~Lost(r)'
  <1> SUFFICES ASSUME run'[r].status = "running"
               PROVE  r \in reapList' \/ \E g \in Goroutines : Tracks(g, r)'
    BY DEF Lost, Tracked
  <1>1. CASE \E g \in Goroutines : Step(g)
    BY <1>1, TrackerStep
  <1>2. CASE Crash
    BY <1>2 DEF Crash, Restart
  <1>3. CASE (Environment \/ \E s \in Runs : Reap(s)) /\ ~Crash
    <2>1. run[r].status = "running" /\ (r \in reapList => r \in reapList')
      <3>1. run \in [Runs -> [status : RunStatus, agent : Agents \cup {NoAgent}]]
        BY DEF Layer1, TypeOK
      <3>2. CASE \E s \in Runs : Reap(s)
        <4>1. PICK s \in Runs : Reap(s)
          BY <3>2
        <4>2. CASE s = r
          <5>1. run'[r].status = "completed"
            BY <3>1, <4>1, <4>2 DEF Reap, ReapRun, FailsOn
          <5> QED BY <5>1
        <4>3. CASE s # r
          <5>1. run' = run \/ run' = [run EXCEPT ![s].status = "completed"]
            BY <4>1 DEF Reap, ReapRun, ReapRunSaveFails
          <5>2. reapList' = reapList \ {s}
            BY <4>1 DEF Reap, ReapRun, ReapRunSaveFails, NextAfterReap
          <5> QED BY <3>1, <4>3, <5>1, <5>2
        <4> QED BY <4>2, <4>3
      <3>3. CASE \E s \in Runs : CancelHeartbeatRun(s)
        BY <3>1, <3>3 DEF CancelHeartbeatRun, OperatorActs
      <3>4. CASE run' = run /\ reapList' = reapList
        BY <3>4
      <3>5. ~CrashUnreaped
        BY DEF FailsOn
      <3> QED
        BY <1>3, <3>2, <3>3, <3>4, <3>5
        DEF Environment, WakeupCheck, CostReachesHardStop, ReportedCostReachesHardStop,
            SetAgentStatus, OperatorActs
    <2>2. CASE r \in reapList
      BY <2>1, <2>2
    <2>3. CASE \E g \in Goroutines : Tracks(g, r)
      BY <1>3, <2>3, EnvironmentTracks DEF FailsOn
    <2> QED BY <2>1, <2>2, <2>3 DEF Lost, Tracked
  <1>4. CASE UNCHANGED vars
    BY <1>4 DEF vars, Lost, Tracked, Tracks
  <1> QED BY <1>1, <1>2, <1>3, <1>4 DEF Next

\* RunningHasTracker is inductive relative to Layer1, if no statement fails.
LEMMA TrackerNext ==
  ASSUME ~StatementsFail
  PROVE  Layer1 /\ RunningHasTracker /\ [Next]_vars => RunningHasTracker'
  <1> SUFFICES ASSUME Layer1, RunningHasTracker, [Next]_vars PROVE RunningHasTracker'
    OBVIOUS
  <1>1. \A r \in Runs : ~FailsOn(r)
    BY DEF FailsOn, LoadRunStatusFails, SaveRunFails, ReapRunSaveFails, CrashUnreaped, StatementFails
  <1>2. \A r \in Runs : ~Lost(r)
    BY DEF RunningHasTracker, Lost, Tracked
  <1>3. \A r \in Runs : ~Lost(r)'
    BY <1>1, <1>2, NothingElseLoses
  <1> QED BY <1>3 DEF RunningHasTracker, Lost, Tracked

\* A run is lost, left "running" with nobody to finish it, by a statement that
\* fails on it only: the read of its status or the Save after it (heartbeat.go:428
\* and :449), or the reaper's query or Save (:171, :199).  Starts, crashes,
\* cancellations and second executions lose none.
THEOREM OnlyFailedStatementsLose == Spec => LostByFailedStatement
  <1> DEFINE Kept == \A r \in Runs : ~Lost(r) /\ Lost(r)' => FailsOn(r)
  <1>1. Spec => []Layer1
    BY Layer1Init, Layer1Next, PTL DEF Spec
  <1>2. Layer1 /\ [Next]_vars => [Kept]_vars
    BY NothingElseLoses
  <1>3. Spec => [][Kept]_vars
    BY <1>1, <1>2, PTL DEF Spec
  <1> QED BY <1>3 DEF LostByFailedStatement

\* The count that ResumeQueuedRuns compares with the limit holds only runs that
\* some goroutine will still finish or the reaper has in its list, if no statement
\* fails.
THEOREM RunningRunsAreTracked ==
  ASSUME ~StatementsFail
  PROVE  Spec => []RunningHasTracker
  <1>1. Init => RunningHasTracker
    BY DEF Init, RunningHasTracker
  <1>2. Spec => [](Layer1 /\ RunningHasTracker)
    BY <1>1, Layer1Init, Layer1Next, TrackerNext, PTL DEF Spec
  <1> QED BY <1>2, PTL

-----------------------------------------------------------------------------
(* The refinement: HeartbeatRuns implements RunQueue.                       *)

OwnerOf == [r \in Runs |-> IF run[r].status = "none" THEN {} ELSE {run[r].agent}]
Pending == {r \in Runs : run[r].status = "inserted"}
Waiting == {r \in Runs : run[r].status = "queued"}
LookedAt(r) == \E g \in Goroutines : Looking(g) /\ go[g].run = r
Found == {r \in Runs : run[r].status = "queued" /\ LookedAt(r)}

\* Nothing creates a run but an insert, nothing queues one but a commit, and
\* nothing takes one back to "inserted".
LEMMA StatusBefore ==
  ASSUME Layer1, Layer2, [Next]_vars, NEW r \in Runs
  PROVE  /\ \/ run[r].status = "none" => run'[r].status = "none"
            \/ \E g \in Goroutines : InsertRun(g)
         /\ \/ run'[r].status = "inserted" => run[r].status = "inserted"
            \/ \E g \in Goroutines : InsertRun(g)
         /\ \/ run'[r].status = "queued" => run[r].status = "queued"
            \/ \E g \in Goroutines : CommitRun(g)
  <1>0. /\ run \in [Runs -> [status : RunStatus, agent : Agents \cup {NoAgent}]]
        /\ HeldRunsOK /\ LocalsOK /\ go \in [Goroutines -> GoroutineType] /\ ReapListOK
    BY DEF Layer1, TypeOK
  <1> USE <1>0
  <1>1. CASE run' = run
    BY <1>1
  <1>2. CASE \E g \in Goroutines : Step(g)
    <2>1. PICK g \in Goroutines : Step(g)
      BY <1>2
    <2>2. CASE InsertRun(g)
      <3>1. PICK q \in Runs :
              run' = [run EXCEPT ![q] = [status |-> "inserted", agent |-> go[g].agent]]
        BY <2>2 DEF InsertRun
      <3>2. run'[r].status = "queued" => run[r].status = "queued"
        BY <3>1
      <3> QED BY <2>2, <3>2
    <2>3. CASE CommitRun(g)
      <3>1. go[g].run \in Runs /\ run[go[g].run].status # "none"
        BY <2>3 DEF CommitRun, At, LocalsOK, LocalOK, BoundPCs, HeldRunsOK
      <3> QED BY <2>3, <3>1 DEF CommitRun
    <2>4. CASE ClaimSucceeds(g, "claim", "load") \/ ClaimSucceeds(g, "startClaim", "setup")
      BY <2>4 DEF ClaimSucceeds, ClaimGuard
    <2>5. CASE SetupBlocked(g) \/ MarkRunning(g) \/ SaveRun(g)
      <3>1. go[g].pc \in {"setup", "mark", "save"}
        BY <2>5 DEF SetupBlocked, MarkRunning, SaveRun, At
      <3>2. go[g].run \in Runs /\ run[go[g].run].status # "none"
        BY <3>1 DEF LocalsOK, LocalOK, BoundPCs, TrackingPCs, HeldRunsOK
      <3>3. go[g].outcome \notin {"inserted", "queued"}
        BY DEF GoroutineType
      <3> QED BY <2>5, <3>2, <3>3 DEF SetupBlocked, MarkRunning, SaveRun
    <2>6. CASE HookCancelRuns(g)
      BY <2>6 DEF HookCancelRuns, Active
    <2> QED BY <1>1, <2>1, <2>2, <2>3, <2>4, <2>5, <2>6, StepWrites DEF WritesRun
  <1>3. CASE \E s \in Runs : CancelHeartbeatRun(s)
    BY <1>3 DEF CancelHeartbeatRun, OperatorActs
  <1>4. CASE \E s \in Runs : Reap(s)
    <2>1. PICK s \in reapList : run' = run \/ run' = [run EXCEPT ![s].status = "completed"]
      BY <1>4 DEF Reap, ReapRun, ReapRunSaveFails, NextAfterReap
    <2>2. run[s].status # "none"
      BY DEF ReapListOK, Visible, VisibleIn
    <2> QED BY <2>1, <2>2
  <1> QED BY <1>1, <1>2, <1>3, <1>4, EnvironmentWrites DEF Next, vars

\* Between an insert and a commit the queue only loses runs.
LEMMA QueueFrame ==
  ASSUME Layer1, Layer2, [Next]_vars,
         \A g \in Goroutines : ~InsertRun(g) /\ ~CommitRun(g)
  PROVE  OwnerOf' = OwnerOf /\ Pending' = Pending /\ Waiting' \subseteq Waiting
  <1>1. OwnerOf' = OwnerOf
    <2>1. RunsKept
      BY Layer1Next
    <2> QED BY <2>1, StatusBefore DEF OwnerOf, RunsKept
  <1>2. Pending' = Pending
    BY StatusBefore, InsertedKept DEF Pending
  <1>3. Waiting' \subseteq Waiting
    BY StatusBefore DEF Waiting
  <1> QED BY <1>1, <1>2, <1>3

\* A step of g that is no look, claim or commit leaves it looking at the queued
\* runs it looked at.
LEMMA LookingStep ==
  ASSUME Layer1, NEW g \in Goroutines, Step(g), NEW r \in Runs, run[r].status = "queued",
         ~ClaimSucceeds(g, "claim", "load"), ~ClaimSucceeds(g, "startClaim", "setup"),
         PickQueued(g) \/ ResumeNextRun(g) => go' = [go EXCEPT ![g] = Idle]
  PROVE  (Looking(g) /\ go[g].run = r)' <=> (Looking(g) /\ go[g].run = r)
  <1>0. /\ go \in [Goroutines -> GoroutineType] /\ go[g] \in GoroutineType
    BY DEF Layer1, TypeOK
  <1> USE <1>0 DEF Looking, At, Idle, FinalizePCs
  <1>1. CASE go[g].pc \notin {"claim", "load", "startClaim"}
             /\ go'[g].pc \notin {"claim", "load", "startClaim"}
    BY <1>1
  <1>2. CASE FinalizeRead(g) \/ FinalizeWrite(g)
    <2>1. go[g].pc \in FinalizePCs
      BY <1>2 DEF FinalizeRead, FinalizeWrite
    <2>2. go'[g].pc \in FinalizePCs \cup {"free", "resume", "save"}
      BY <1>2, FinalizeKeeps
    <2> QED BY <1>1, <2>1, <2>2
  <1>3. CASE HookListRuns(g)
    <2>1. go[g].pc = "hookList"
      BY <1>3 DEF HookListRuns
    <2>2. go'[g].pc \in {"free", "hookUpdate", "save"}
      BY <1>3, HookListKeeps
    <2> QED BY <1>1, <2>1, <2>2
  <1>4. CASE HookCancelRequest(g)
    BY <1>1, <1>4, HookCancelRequestKeeps DEF HookCancelRequest
  <1>5. CASE PickQueued(g) \/ ResumeNextRun(g)
    <2>1. go[g].pc \in {"pick", "resume"}
      BY <1>5 DEF PickQueued, ResumeNextRun
    <2>2. go'[g].pc = "free"
      BY <1>5
    <2> QED BY <1>1, <2>1, <2>2
  <1>6. CASE InsertRun(g) \/ CommitRun(g) \/ RollBackRun(g) \/ SetupBlockedSaveFails(g)
              \/ MarkRunningSaveFails(g) \/ SaveRunFails(g)
    BY <1>1, <1>6
    DEF InsertRun, CommitRun, RollBackRun, SetupBlockedSaveFails, MarkRunningSaveFails,
        SaveRunFails, GoroutineType
  <1>7. CASE CoalesceWithQueued(g) \/ CoalesceWithRunning(g) \/ CountRunning(g)
              \/ LoadRunStatusFails(g)
    BY <1>1, <1>7
    DEF CoalesceWithQueued, CoalesceWithRunning, CountRunning, LoadRunStatusFails, GoroutineType
  <1>8. CASE ClaimFails(g, "claim") \/ ClaimFails(g, "startClaim")
    <2>1. go[g].run # r /\ go'[g].pc = "free"
      BY <1>8 DEF ClaimFails, ClaimGuard
    <2> QED BY <2>1
  <1>9. CASE LoadRun(g)
    <2>1. go[g].pc = "load" /\ go'[g].run = go[g].run
      BY <1>9 DEF LoadRun, GoroutineType
    <2>2. go[g].run = r => go'[g].pc = "startClaim"
      BY <1>9 DEF LoadRun, GoroutineType
    <2> QED BY <2>1, <2>2
  <1>10. CASE SetupFails(g) \/ SetupBlocked(g) \/ SetupPasses(g) \/ MarkRunning(g)
               \/ RegisterCancel(g)
    BY <1>1, <1>10 DEF SetupFails, SetupBlocked, SetupPasses, MarkRunning, RegisterCancel,
       GoroutineType
  <1>11. CASE LoadRunStatus(g) \/ CostWithinBudget(g) \/ SaveRun(g) \/ HookCancelRuns(g)
               \/ \E outcome \in {"completed", "failed"} : ExecuteReturns(g, outcome)
    BY <1>1, <1>11 DEF LoadRunStatus, CostWithinBudget, SaveRun, HookCancelRuns, ExecuteReturns,
       GoroutineType
  <1> QED
    BY <1>2, <1>3, <1>4, <1>5, <1>6, <1>7, <1>8, <1>9, <1>10, <1>11 DEF Step

\* Nor does a step outside of Step, unless it is a crash or a turn of the reaper.
LEMMA LookingEnvironment ==
  ASSUME Layer1, Environment, ~Crash, ~CrashUnreaped, NEW r \in Runs
  PROVE  LookedAt(r)' <=> LookedAt(r)
  <1>0. go \in [Goroutines -> GoroutineType]
    BY DEF Layer1, TypeOK
  <1>1. ASSUME NEW g \in Goroutines
        PROVE  (Looking(g) /\ go[g].run = r)' <=> (Looking(g) /\ go[g].run = r)
    <2> USE <1>0 DEF Looking
    <2>1. CASE go'[g] = go[g]
      BY <2>1
    <2>2. CASE go[g].pc \in {"free", "cost"} /\ go'[g].pc \in {"enqueue", "hookList"}
      BY <2>2
    <2>3. CASE \E h \in Goroutines, a \in Agents : WakeupCheck(h, a)
      BY <2>1, <2>2, <2>3 DEF WakeupCheck, Free, Idle
    <2>4. CASE \E h \in Goroutines, s \in Scopes : CostReachesHardStop(h, s)
      BY <2>1, <2>2, <2>4 DEF CostReachesHardStop, At, GoroutineType
    <2>5. CASE \E h \in Goroutines, s \in Scopes : ReportedCostReachesHardStop(h, s)
      BY <2>1, <2>2, <2>5 DEF ReportedCostReachesHardStop, Free, Idle
    <2>6. CASE go' = go
      BY <2>1, <2>6
    <2> QED
      BY <2>3, <2>4, <2>5, <2>6
      DEF Environment, CancelHeartbeatRun, SetAgentStatus, OperatorActs
  <1> QED BY <1>1 DEF LookedAt

\* A goroutine begins to look at a run that it finds the oldest of an agent.
LEMMA LookStep ==
  ASSUME Layer1, Layer2, [Next]_vars, NEW g \in Goroutines, NEW r \in Runs, NEW a \in Agents,
         IsOldestQueued(r, a), ~Looking(g), Looking(g)', go'[g].run = r,
         \A h \in Goroutines : h # g => go'[h].pc = go[h].pc /\ go'[h].run = go[h].run,
         \A h \in Goroutines : ~InsertRun(h) /\ ~CommitRun(h),
         Waiting' = Waiting, claimed' = claimed
  PROVE  Queue!QueueNext
  <1>1. OwnerOf' = OwnerOf /\ Pending' = Pending
    BY QueueFrame
  <1>2. r \in Waiting /\ \A s \in Waiting : s < r => OwnerOf[s] # OwnerOf[r]
    <2>1. r \in Waiting /\ OwnerOf[r] = {a}
      BY DEF IsOldestQueued, Queued, Waiting, OwnerOf
    <2>2. ASSUME NEW s \in Waiting, s < r PROVE OwnerOf[s] # {a}
      <3>1. s \in Runs /\ run[s].status = "queued" /\ OwnerOf[s] = {run[s].agent}
        BY DEF Waiting, OwnerOf
      <3>2. run[s].agent # a
        <4>1. ~(r <= s)
          BY <2>2, <3>1, ConstantsAssumption DEF Runs
        <4> QED BY <3>1, <4>1 DEF IsOldestQueued, Queued
      <3> QED BY <3>1, <3>2
    <2> QED BY <2>1, <2>2
  <1>3. Found' = Found \cup {r}
    <2>1. ASSUME NEW q \in Runs PROVE LookedAt(q)' <=> LookedAt(q) \/ q = r
      BY DEF LookedAt, Looking
    <2>2. \A q \in Runs : run'[q].status = "queued" <=> run[q].status = "queued"
      BY DEF Waiting
    <2> QED BY <1>2, <2>1, <2>2 DEF Found, Waiting
  <1>4. Queue!Look(r)
    BY <1>1, <1>2, <1>3 DEF Queue!Look, OwnerOf, Pending, Waiting, Found, LookedAt
  <1> QED BY <1>4 DEF Queue!QueueNext

\* Every other step drops runs from the queue, or does nothing to it.
LEMMA DropStep ==
  ASSUME Layer1, Layer2, [Next]_vars,
         \A h \in Goroutines : ~InsertRun(h) /\ ~CommitRun(h),
         \A r \in Runs : run[r].status = "queued" => (LookedAt(r)' <=> LookedAt(r)),
         claimed' = claimed
  PROVE  Queue!QueueNext
  <1>1. OwnerOf' = OwnerOf /\ Pending' = Pending /\ Waiting' \subseteq Waiting
    BY QueueFrame
  <1>2. PICK S \in SUBSET Runs : S = Waiting \ Waiting'
    BY DEF Waiting
  <1>3. S \in SUBSET Waiting /\ Waiting' = Waiting \ S
    BY <1>1, <1>2
  <1>4. Found' = Found \ S
    <2>1. \A r \in Runs : run'[r].status = "queued" <=> run[r].status = "queued" /\ r \notin S
      BY <1>3 DEF Waiting
    <2> QED BY <2>1 DEF Found
  <1>5. Queue!Drop(S)
    BY <1>1, <1>3, <1>4 DEF Queue!Drop, OwnerOf, Pending, Waiting, Found, LookedAt
  <1> QED BY <1>3, <1>5 DEF Queue!QueueNext, Waiting

\* An insert creates, and a commit enters.
LEMMA CreateStep ==
  ASSUME Layer1, Layer2, [Next]_vars, NEW g \in Goroutines, InsertRun(g)
  PROVE  Queue!QueueNext
  <1>0. /\ run \in [Runs -> [status : RunStatus, agent : Agents \cup {NoAgent}]]
        /\ go \in [Goroutines -> GoroutineType] /\ LocalsOK /\ RowsOK
    BY DEF Layer1, TypeOK
  <1>1. PICK r \in Runs :
          /\ go[g].pc = "enqueue"
          /\ run[r].status = "none"
          /\ \A s \in Runs : s < r => run[s].status # "none"
          /\ run' = [run EXCEPT ![r] = [status |-> "inserted", agent |-> go[g].agent]]
          /\ go' = [go EXCEPT ![g].pc = "commit", ![g].run = r]
          /\ claimed' = claimed
    BY DEF InsertRun, At
  <1>2. go[g].agent \in Agents
    BY <1>0, <1>1 DEF LocalsOK, LocalOK, ChoosingPCs
  <1>3. /\ OwnerOf' = [OwnerOf EXCEPT ![r] = {go[g].agent}] /\ OwnerOf[r] = {}
        /\ Pending' = Pending \cup {r} /\ Waiting' = Waiting
    BY <1>0, <1>1 DEF OwnerOf, Pending, Waiting
  <1>4. Found' = Found
    <2>1. \A h \in Goroutines : (Looking(h)' <=> Looking(h)) /\ (Looking(h) => go'[h].run = go[h].run)
      BY <1>0, <1>1 DEF Looking, GoroutineType
    <2>2. \A q \in Runs : run'[q].status = "queued" <=> run[q].status = "queued"
      BY <1>3 DEF Waiting
    <2> QED BY <2>1, <2>2 DEF Found, LookedAt
  <1>5. \A s \in Runs : OwnerOf[s] # {} => s < r
    <2> SUFFICES ASSUME NEW s \in Runs, run[s].status # "none", ~(s < r) PROVE FALSE
      BY DEF OwnerOf
    <2>1. r < s \/ r = s
      BY ConstantsAssumption DEF Runs
    <2> QED BY <1>0, <1>1, <2>1 DEF RowsOK
  <1>6. Queue!Create(go[g].agent, r)
    BY <1>1, <1>3, <1>4, <1>5
    DEF Queue!Create, Queue!Created, OwnerOf, Pending, Waiting, Found, LookedAt
  <1> QED BY <1>2, <1>3, <1>6 DEF Queue!QueueNext, Queue!Created, OwnerOf

LEMMA EnterStep ==
  ASSUME Layer1, Layer2, [Next]_vars, NEW g \in Goroutines, CommitRun(g)
  PROVE  Queue!QueueNext
  <1>0. /\ run \in [Runs -> [status : RunStatus, agent : Agents \cup {NoAgent}]]
        /\ go \in [Goroutines -> GoroutineType] /\ LocalsOK /\ HeldRunsOK /\ CommitsOK
    BY DEF Layer1, Layer2, TypeOK
  <1>1. PICK r \in Runs :
          /\ r = go[g].run /\ go[g].pc = "commit" /\ run[r].status = "inserted"
          /\ run' = [run EXCEPT ![r].status = "queued"]
          /\ go' = [go EXCEPT ![g].pc = "count", ![g].run = NoRun]
          /\ claimed' = claimed
    BY <1>0 DEF CommitRun, CommitsOK, At, LocalsOK, LocalOK, BoundPCs
  <1>2. /\ OwnerOf' = OwnerOf /\ Pending' = Pending \ {r} /\ r \in Pending
        /\ Waiting' = Waiting \cup {r}
    BY <1>0, <1>1 DEF OwnerOf, Pending, Waiting
  <1>3. Found' = Found
    <2>1. \A h \in Goroutines : (Looking(h)' <=> Looking(h)) /\ (Looking(h) => go'[h].run = go[h].run)
      BY <1>0, <1>1 DEF Looking, GoroutineType
    <2>2. \A q \in Runs : LookedAt(q)' <=> LookedAt(q)
      BY <2>1 DEF LookedAt
    <2>3. ~LookedAt(r)
      BY <1>0, <1>1 DEF LookedAt, Looking, HeldRunsOK, Visible, VisibleIn
    <2>4. \A q \in Runs : run'[q].status = "queued" <=> run[q].status = "queued" \/ q = r
      BY <1>0, <1>1
    <2> QED BY <2>2, <2>3, <2>4 DEF Found
  <1>4. Queue!Enter(r)
    BY <1>1, <1>2, <1>3 DEF Queue!Enter, OwnerOf, Pending, Waiting, Found, LookedAt
  <1> QED BY <1>4 DEF Queue!QueueNext

\* A claim takes.
LEMMA TakeStep ==
  ASSUME Layer1, Layer2, [Next]_vars, NEW g \in Goroutines,
         ClaimSucceeds(g, "claim", "load") \/ ClaimSucceeds(g, "startClaim", "setup")
  PROVE  Queue!QueueNext
  <1>0. /\ run \in [Runs -> [status : RunStatus, agent : Agents \cup {NoAgent}]]
        /\ go \in [Goroutines -> GoroutineType] /\ LocalsOK
    BY DEF Layer1, TypeOK
  <1>1. PICK r \in Runs :
          /\ r = go[g].run /\ go[g].pc \in {"claim", "startClaim"}
          /\ run[r].status = "queued"
          /\ run' = [run EXCEPT ![r].status = "starting"]
          /\ claimed' = claimed \cup {r}
    <2>1. go[g].run \in Runs
      BY <1>0 DEF ClaimSucceeds, At, LocalsOK, LocalOK, BoundPCs
    <2> QED BY <2>1 DEF ClaimSucceeds, ClaimGuard, At
  <1>2. go'[g].run = r /\ \A h \in Goroutines : h # g => go'[h] = go[h]
    BY <1>0, <1>1 DEF ClaimSucceeds, GoroutineType
  <1>3. /\ OwnerOf' = OwnerOf /\ Pending' = Pending /\ Waiting' = Waiting \ {r}
    BY <1>0, <1>1 DEF OwnerOf, Pending, Waiting
  <1>4. r \in Found
    BY <1>1 DEF Found, LookedAt, Looking
  <1>5. Found' = Found \ {r}
    <2>1. \A q \in Runs : q # r => (LookedAt(q)' <=> LookedAt(q))
      BY <1>1, <1>2 DEF LookedAt, Looking
    <2>2. \A q \in Runs : run'[q].status = "queued" <=> run[q].status = "queued" /\ q # r
      BY <1>0, <1>1
    <2> QED BY <2>1, <2>2 DEF Found
  <1>6. Queue!Take(r)
    BY <1>1, <1>3, <1>4, <1>5 DEF Queue!Take, OwnerOf, Pending, Waiting, Found, LookedAt
  <1> QED BY <1>6 DEF Queue!QueueNext

\* Only a claim adds to the claimed runs.
LEMMA ClaimedKept ==
  ASSUME [Next]_vars,
         \A h \in Goroutines : /\ ~ClaimSucceeds(h, "claim", "load")
                               /\ ~ClaimSucceeds(h, "startClaim", "setup")
  PROVE  claimed' = claimed
  BY StepWrites, EnvironmentWrites
  DEF Next, WritesRun, InsertRun, CommitRun, SetupBlocked, MarkRunning, SaveRun, HookCancelRuns,
      CancelHeartbeatRun, OperatorActs, Reap, ReapRun, ReapRunSaveFails, NextAfterReap, vars

\* A turn of the reaper looks, or does nothing to the queue.
LEMMA ReapStep ==
  ASSUME Layer1, Layer2, [Next]_vars, NEW s \in Runs, Reap(s)
  PROVE  Queue!QueueNext
  <1>0. /\ run \in [Runs -> [status : RunStatus, agent : Agents \cup {NoAgent}]]
        /\ go \in [Goroutines -> GoroutineType] /\ ClaimsOK /\ RowsOK
    BY DEF Layer1, Layer2, TypeOK
  <1>1. NextAfterReap(s) /\ claimed' = claimed
        /\ (run' = run \/ run' = [run EXCEPT ![s].status = "completed"])
    BY DEF Reap, ReapRun, ReapRunSaveFails, NextAfterReap
  <1>2. s \in claimed /\ run[s].status \notin {"none", "inserted", "queued"}
    BY <1>0, <1>1 DEF NextAfterReap, ClaimsOK, Visible, VisibleIn
  <1>3. Waiting' = Waiting /\ Pending' = Pending
    BY <1>0, <1>1, <1>2 DEF Waiting, Pending
  <1>4. \A h \in Goroutines : ~InsertRun(h) /\ ~CommitRun(h)
    <2>1. SUFFICES ASSUME NEW h \in Goroutines, InsertRun(h) \/ CommitRun(h) PROVE FALSE
      OBVIOUS
    <2>2. reapList' = reapList
      BY <2>1 DEF InsertRun, CommitRun
    <2> QED BY <1>1, <2>2 DEF NextAfterReap
  <1>5. CASE go' = go
    BY <1>1, <1>4, <1>5, DropStep DEF LookedAt, Looking
  <1>6. CASE go' # go
    <2>1. PICK r \in Runs, g \in Goroutines :
            /\ IsOldestQueued(r, run[s].agent)
            /\ Free(g)
            /\ go' = [go EXCEPT ![g] = [Idle EXCEPT !.pc = "load", !.run = r,
                                                    !.agent = run[s].agent]]
      BY <1>1, <1>6 DEF NextAfterReap
    <2>2. ~Looking(g) /\ Looking(g)' /\ go'[g].run = r
      BY <1>0, <2>1 DEF Free, Looking, Idle
    <2>3. \A h \in Goroutines : h # g => go'[h].pc = go[h].pc /\ go'[h].run = go[h].run
      BY <1>0, <2>1
    <2>4. run[s].agent \in Agents
      BY <1>0, <1>2 DEF RowsOK
    <2> QED BY <1>1, <1>3, <1>4, <2>1, <2>2, <2>3, <2>4, LookStep
  <1> QED BY <1>5, <1>6

\* The empty table is the empty queue.
LEMMA QueueInitial == Init => Queue!QueueInit
  BY DEF Init, Queue!QueueInit

\* Every step is a step of the queue or a stutter.
LEMMA QueueStep ==
  ASSUME Layer1, Layer2, [Next]_vars
  PROVE  [Queue!QueueNext]_(Queue!queueVars)
  <1>0. go \in [Goroutines -> GoroutineType] /\ LocalsOK
    BY DEF Layer1, TypeOK
  <1>1. CASE \E g \in Goroutines : Step(g)
    <2>1. PICK g \in Goroutines : Step(g)
      BY <1>1
    <2>2. CASE InsertRun(g)
      BY <2>2, CreateStep
    <2>3. CASE CommitRun(g)
      BY <2>3, EnterStep
    <2>4. CASE ClaimSucceeds(g, "claim", "load") \/ ClaimSucceeds(g, "startClaim", "setup")
      BY <2>4, TakeStep
    <2>5. CASE ~InsertRun(g) /\ ~CommitRun(g) /\ ~ClaimSucceeds(g, "claim", "load")
               /\ ~ClaimSucceeds(g, "startClaim", "setup")
      <3>1. \A h \in Goroutines : h # g => go'[h].pc = go[h].pc /\ go'[h].run = go[h].run
        BY <2>1, OthersKept
      <3>2. \A h \in Goroutines : ~InsertRun(h) /\ ~CommitRun(h)
        <4>1. SUFFICES ASSUME NEW h \in Goroutines, h # g, InsertRun(h) \/ CommitRun(h) PROVE FALSE
          BY <2>5
        <4>2. go'[h].pc # go[h].pc
          BY <1>0, <4>1 DEF InsertRun, CommitRun, At, GoroutineType
        <4> QED BY <3>1, <4>1, <4>2
      <3>3. \A h \in Goroutines : /\ ~ClaimSucceeds(h, "claim", "load")
                                  /\ ~ClaimSucceeds(h, "startClaim", "setup")
        <4>1. SUFFICES ASSUME NEW h \in Goroutines, h # g,
                              ClaimSucceeds(h, "claim", "load")
                                \/ ClaimSucceeds(h, "startClaim", "setup")
                       PROVE  FALSE
          BY <2>5
        <4>2. go'[h].pc # go[h].pc
          BY <1>0, <4>1 DEF ClaimSucceeds, At, GoroutineType
        <4> QED BY <3>1, <4>1, <4>2
      <3>4. claimed' = claimed
        BY <3>3, ClaimedKept
      <3>5. CASE PickQueued(g) \/ ResumeNextRun(g) => go' = [go EXCEPT ![g] = Idle]
        <4>1. ASSUME NEW r \in Runs, run[r].status = "queued"
              PROVE  LookedAt(r)' <=> LookedAt(r)
          <5>1. (Looking(g) /\ go[g].run = r)' <=> (Looking(g) /\ go[g].run = r)
            BY <2>1, <2>5, <3>5, <4>1, LookingStep
          <5> QED BY <3>1, <5>1 DEF LookedAt, Looking
        <4> QED BY <3>2, <3>4, <4>1, DropStep
      <3>6. CASE (PickQueued(g) \/ ResumeNextRun(g)) /\ go' # [go EXCEPT ![g] = Idle]
        <4>1. PICK r \in Runs :
                /\ IsOldestQueued(r, go[g].agent)
                /\ \/ go' = [go EXCEPT ![g].pc = "claim", ![g].run = r]
                   \/ go' = [go EXCEPT ![g] = [Idle EXCEPT !.pc = "load", !.run = r,
                                                           !.agent = go[g].agent]]
          BY <3>6 DEF PickQueued, ResumeNextRun
        <4>2. go[g].pc \in {"pick", "resume"} /\ run' = run
          BY <3>6 DEF PickQueued, ResumeNextRun, At
        <4>3. Looking(g)' /\ go'[g].run = r
          <5>1. CASE go' = [go EXCEPT ![g].pc = "claim", ![g].run = r]
            BY <1>0, <5>1 DEF Looking, GoroutineType
          <5>2. CASE go' = [go EXCEPT ![g] = [Idle EXCEPT !.pc = "load", !.run = r,
                                                          !.agent = go[g].agent]]
            BY <1>0, <5>2 DEF Looking, Idle
          <5> QED BY <4>1, <5>1, <5>2
        <4>4. ~Looking(g) /\ go[g].agent \in Agents
          BY <1>0, <4>2 DEF Looking, LocalsOK, LocalOK, ChoosingPCs, BoundPCs
        <4>5. Waiting' = Waiting
          BY <4>2 DEF Waiting
        <4> QED BY <3>1, <3>2, <3>4, <4>1, <4>3, <4>4, <4>5, LookStep
      <3> QED BY <3>5, <3>6
    <2> QED BY <2>2, <2>3, <2>4, <2>5
  <1>2. CASE \E s \in Runs : Reap(s)
    BY <1>2, ReapStep
  <1>3. CASE Crash \/ CrashUnreaped
    <2>1. run' = run /\ claimed' = claimed /\ \A g \in Goroutines : go'[g] = Idle
      BY <1>3 DEF Crash, CrashUnreaped, Restart
    <2>2. Found' = {}
      BY <2>1 DEF Found, LookedAt, Looking, Idle
    <2>3. OwnerOf' = OwnerOf /\ Pending' = Pending /\ Waiting' = Waiting
      BY <2>1 DEF OwnerOf, Pending, Waiting
    <2>4. Queue!Forget
      BY <2>1, <2>2, <2>3 DEF Queue!Forget, OwnerOf, Pending, Waiting, Found, LookedAt
    <2> QED BY <2>4 DEF Queue!QueueNext
  <1>4. CASE Environment /\ ~Crash /\ ~CrashUnreaped
    <2>1. CASE \E h \in Goroutines : Step(h)
      BY <1>1, <2>1
    <2>2. CASE \A h \in Goroutines : ~Step(h)
      <3>1. \A h \in Goroutines : /\ ~InsertRun(h) /\ ~CommitRun(h)
                                  /\ ~ClaimSucceeds(h, "claim", "load")
                                  /\ ~ClaimSucceeds(h, "startClaim", "setup")
        BY <2>2 DEF Step
      <3>2. claimed' = claimed
        BY <3>1, ClaimedKept
      <3> QED BY <1>4, <3>1, <3>2, LookingEnvironment, DropStep
    <2> QED BY <2>1, <2>2
  <1>5. CASE UNCHANGED vars
    <2>1. UNCHANGED <<OwnerOf, Pending, Waiting, Found, claimed>>
      BY <1>5 DEF vars, OwnerOf, Pending, Waiting, Found, LookedAt, Looking
    <2> QED BY <2>1 DEF Queue!queueVars, OwnerOf, Pending, Waiting, Found, LookedAt
  <1> QED BY <1>1, <1>2, <1>3, <1>4, <1>5 DEF Next

\* The table of runs behaves as the abstract queue: a run enters it when it is
\* committed, whatever was created and committed in between; it is claimed at most
\* once, by a goroutine whose look found it the oldest run visible of its agent;
\* and it is never queued again.
THEOREM RunsImplementQueue == Spec => ImplementsQueue
  <1>1. Spec => [](Layer1 /\ Layer2)
    BY Layer1Init, Layer1Next, Layer2Init, Layer2Next, PTL DEF Spec
  <1>2. (Layer1 /\ Layer2) /\ [Next]_vars => [Queue!QueueNext]_(Queue!queueVars)
    BY QueueStep
  <1>3. Spec => Queue!QueueInit /\ [][Queue!QueueNext]_(Queue!queueVars)
    BY <1>1, <1>2, QueueInitial, PTL DEF Spec
  <1> QED BY <1>3 DEF ImplementsQueue, Queue!QueueSpec
=============================================================================
