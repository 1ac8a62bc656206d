------------------------ MODULE IssueWorkflowProofs ------------------------
(***************************************************************************)
(* Proofs about IssueWorkflow, for every set of agents, users, runs and     *)
(* policies, and any number of requests in flight: each decision is on      *)
(* record and made by a participant of its stage, an issue is not done past *)
(* an unapproved stage, and a live run keeps its checkout.                  *)
(***************************************************************************)
EXTENDS IssueWorkflow, TLAPS, WellFoundedInduction

-----------------------------------------------------------------------------
(* What a request in flight has decided, and stays true until it writes.    *)

Decision    == [stage : Nat, outcome : {"approved", "changes_requested"}, actor : Principals]
AtMostOne   == {<<>>} \cup {<<d>> : d \in Decision}
Patches     == [status : Statuses \cup {Keep}, assignee : Someone \cup {Keep},
                state : States \cup {Keep}, policy : Policies \cup {Keep}]
Approved(s) == {d.stage : d \in {e \in ToSet(s) : e.outcome = "approved"}}

ByParticipant(d) ==
    \E p \in Policies : d.stage \in StagesOf(p) /\ Takes(StageOf(p, d.stage), d.actor)

\* A patch and its decision, made under a policy: whatever the patch calls
\* completed, or finishes, is approved on the record or by the decision.
Backed(record, policy, patch, decision) ==
    /\ patch \in Patches
    /\ decision \in AtMostOne
    /\ \A d \in ToSet(decision) : ByParticipant(d)
    /\ patch.state # Keep =>
          patch.state.completed \subseteq Approved(record) \cup Approved(decision)
    /\ patch.status = "done" /\ patch.state # NoState =>
          StagesOf(policy) \subseteq Approved(record) \cup Approved(decision)

PatchRequest   == [at : {"own", "write"}, next : {"write", "refuse"}, run : Runs \cup {NoRun},
                   actor : Principals, seen : Policies, patch : Patches, decision : AtMostOne]
TakeRequest    == [at : {"take"}, run : Runs \cup {NoRun}, actor : Agents, expected : CheckoutFrom]
ReleaseRequest == [at : {"own", "check", "release"}, next : {"check"}, run : Runs \cup {NoRun},
                   actor : Principals]

RequestOK(record, q) ==
    \/ q = Idle
    \/ /\ q \in PatchRequest
       /\ q.next = "write" => Backed(record, q.seen, q.patch, q.decision)
       /\ q.at = "own" => q.run \in Runs /\ q.actor \in Agents
       /\ q.at = "write" => q.next = "write"
    \/ q \in TakeRequest
    \/ /\ q \in ReleaseRequest
       /\ q.at = "own" => q.run \in Runs /\ q.actor \in Agents

RequestsOK == DOMAIN request = Slots /\ \A k \in Slots : RequestOK(decisions, request[k])

IInv ==
    /\ TypeOK
    /\ RequestsOK
    /\ AuditTrail
    /\ DecidedByParticipant

-----------------------------------------------------------------------------
(* Sequences: the least index, the stages of a policy, the record.          *)

LEMMA MinIsMember ==
    ASSUME NEW S \in SUBSET Nat, S # {}
    PROVE  Min(S) \in S
<1> DEFINE Less == {ss \in Nat \X Nat : ss[1] < ss[2]}
<1>1. IsWellFoundedOn(Less, Nat)
  BY NatLessThanWellFounded DEF OpToRel
<1>2. PICK x \in S : \A y \in S : ~ (<<y, x>> \in Less)
  BY <1>1, WFMin, Zenon
<1>3. \A y \in S : x <= y
  <2> SUFFICES ASSUME NEW y \in S
               PROVE  x <= y
    OBVIOUS
  <2>1. x \in Nat /\ y \in Nat /\ ~ (y < x)
    BY <1>2
  <2> QED
    BY <2>1
<1> QED
  BY <1>3 DEF Min

LEMMA ElementType ==
    ASSUME NEW S, NEW s \in Seq(S), NEW i \in DOMAIN s
    PROVE  i \in Nat /\ s[i] \in S
OBVIOUS

LEMMA PolicyStages ==
    ASSUME NEW policy \in Policies
    PROVE  policy \in Seq(Stages) /\ \A k \in DOMAIN policy : policy[k] \in Stages
<1>1. policy \in Seq(Stages)
  BY WorkflowConstants
<1> QED
  BY <1>1, ElementType

LEMMA FirstIsLeft ==
    ASSUME NEW policy \in Policies, NEW completed, Remaining(policy, completed) # {}
    PROVE  First(policy, Remaining(policy, completed)) \in Stages
<1>1. Remaining(policy, completed) \subseteq DOMAIN policy
  BY DEF Remaining
<1>2. DOMAIN policy \subseteq Nat
  BY PolicyStages
<1>3. Min(Remaining(policy, completed)) \in DOMAIN policy
  BY <1>1, <1>2, MinIsMember
<1> QED
  BY <1>3, PolicyStages DEF First

LEMMA NoneIsLeft ==
    ASSUME NEW policy \in Policies, NEW completed, Remaining(policy, completed) = {}
    PROVE  StagesOf(policy) \subseteq completed
BY DEF Remaining, StagesOf

LEMMA StageOfPolicy ==
    ASSUME NEW policy \in Policies, NEW s \in StagesOf(policy)
    PROVE  StageOf(policy, s) \in Stages
<1>1. \E k \in DOMAIN policy : policy[k].id = s
  BY DEF StagesOf
<1>2. (CHOOSE k \in DOMAIN policy : policy[k].id = s) \in DOMAIN policy
  BY <1>1
<1> QED
  BY <1>2, PolicyStages DEF StageOf

LEMMA SelectedTakes ==
    ASSUME NEW stage \in Stages, NEW preferred \in Someone, NEW exclude \in Someone
    PROVE  Select(stage, preferred, exclude) \in Someone
<1> DEFINE eligible == {k \in DOMAIN stage.participants : stage.participants[k] # exclude}
<1>1. stage.participants \in Seq(Principals)
  BY DEF Stages
<1>2. CASE eligible = {}
  BY <1>2 DEF Select, Someone
<1>3. CASE eligible # {}
  <2>1. eligible \subseteq Nat
    BY <1>1
  <2>2. Min(eligible) \in DOMAIN stage.participants
    BY <1>3, <2>1, MinIsMember
  <2>3. stage.participants[Min(eligible)] \in Principals
    BY <1>1, <2>2, ElementType
  <2> QED
    BY <1>3, <2>3 DEF Select, Someone
<1> QED
  BY <1>2, <1>3

LEMMA ApprovedByNone == Approved(<<>>) = {} /\ ToSet(<<>>) = {}
BY DEF Approved, ToSet

LEMMA ApprovedByOne ==
    ASSUME NEW d
    PROVE  /\ ToSet(<<d>>) = {d}
           /\ d.outcome = "approved" => Approved(<<d>>) = {d.stage}
BY DEF Approved, ToSet

LEMMA RecordGrows ==
    ASSUME NEW s \in Seq(Decision), NEW t \in AtMostOne
    PROVE  /\ s \o t \in Seq(Decision)
           /\ ToSet(s \o t) = ToSet(s) \cup ToSet(t)
           /\ Approved(s \o t) = Approved(s) \cup Approved(t)
<1>1. t \in Seq(Decision)
  <2>1. CASE t = <<>>
    BY <2>1
  <2>2. CASE \E d \in Decision : t = <<d>>
    BY <2>2
  <2> QED
    BY <2>1, <2>2 DEF AtMostOne
<1>2. /\ s \o t \in Seq(Decision)
      /\ Len(s \o t) = Len(s) + Len(t)
      /\ \A i \in 1..Len(s) : (s \o t)[i] = s[i]
      /\ \A i \in 1..Len(t) : (s \o t)[Len(s) + i] = t[i]
  BY <1>1
<1>3. ToSet(s \o t) \subseteq ToSet(s) \cup ToSet(t)
  <2> SUFFICES ASSUME NEW i \in 1..(Len(s) + Len(t))
               PROVE  (s \o t)[i] \in ToSet(s) \cup ToSet(t)
    BY <1>1, <1>2 DEF ToSet
  <2>1. CASE i \in 1..Len(s)
    BY <1>2, <2>1 DEF ToSet
  <2>2. CASE i \notin 1..Len(s)
    <3>1. i - Len(s) \in 1..Len(t) /\ i = Len(s) + (i - Len(s))
      BY <1>1, <2>2
    <3>2. (s \o t)[i] = t[i - Len(s)]
      BY <1>2, <3>1
    <3> QED
      BY <1>1, <3>1, <3>2 DEF ToSet
  <2> QED
    BY <2>1, <2>2
<1>4. ToSet(s) \subseteq ToSet(s \o t)
  BY <1>1, <1>2 DEF ToSet
<1>5. ToSet(t) \subseteq ToSet(s \o t)
  <2> SUFFICES ASSUME NEW i \in 1..Len(t)
               PROVE  t[i] \in ToSet(s \o t)
    BY <1>1 DEF ToSet
  <2>1. Len(s) + i \in DOMAIN (s \o t)
    BY <1>1, <1>2
  <2>2. (s \o t)[Len(s) + i] = t[i]
    BY <1>2
  <2> QED
    BY <2>1, <2>2 DEF ToSet
<1> QED
  BY <1>2, <1>3, <1>4, <1>5 DEF Approved

-----------------------------------------------------------------------------
(* The transition of the execution policy: whatever it lets through is      *)
(* backed.                                                                  *)

\* The transition is decided on an issue whose audit trail is whole.
Sound(policy, result) ==
    ~result.refused => Backed(decisions, policy, result.patch, result.decision)

AskType == [status : Statuses \cup {Keep}, assignee : Someone \cup {Keep},
            state : {Keep}, policy : Policies \cup {Keep}]

IssueOK == TypeOK /\ AuditTrail

LEMMA IssueFacts ==
    ASSUME IssueOK
    PROVE  /\ issue.state \in States
           /\ issue.assignee \in Someone
           /\ issue.state.stage \in Nat
           /\ issue.state.participant \in Someone
           /\ issue.state.returnTo \in Someone
           /\ issue.state.completed \in SUBSET Nat
           /\ issue.state.completed \subseteq Approved(decisions)
<1>1. issue.state \in States /\ issue.assignee \in Someone
  BY DEF IssueOK, TypeOK
<1>2. issue.state.completed \subseteq Approved(decisions)
  BY DEF IssueOK, AuditTrail, ApprovedStages, Approved
<1> QED
  BY <1>1, <1>2 DEF States

LEMMA NoStateType == NoState \in States /\ NoState.completed = {}
BY DEF NoState, States, Someone, NoStage

LEMMA OrType ==
    ASSUME NEW p \in Someone, NEW q \in Someone
    PROVE  Or(p, q) \in Someone
BY DEF Or

LEMMA PendPatch ==
    ASSUME NEW patch \in Patches, NEW st \in States, NEW stage \in Stages,
           NEW participant \in Someone, NEW returnTo \in Someone
    PROVE  /\ Pend(patch, st, stage, participant, returnTo) \in Patches
           /\ Pend(patch, st, stage, participant, returnTo).status = "in_review"
           /\ Pend(patch, st, stage, participant, returnTo).state.completed = st.completed
<1> DEFINE next == [st EXCEPT !.phase = "pending", !.stage = stage.id,
                              !.participant = participant, !.returnTo = returnTo]
<1>1. stage.id \in Nat
  BY DEF Stages
<1>2. next \in States /\ next.completed = st.completed
  BY <1>1 DEF States
<1>3. Pend(patch, st, stage, participant, returnTo)
        = [patch EXCEPT !.status = "in_review", !.assignee = participant, !.state = next]
  BY DEF Pend
<1> HIDE DEF next
<1> QED
  BY <1>2, <1>3 DEF Patches, Statuses

LEMMA ClearPatch ==
    ASSUME IssueOK, NEW patch \in Patches, NEW back
    PROVE  Clear(patch, back) \in Patches /\ Clear(patch, back).state = NoState
<1>1. issue.state.returnTo \in Someone /\ NoState \in States
  BY IssueFacts, NoStateType
<1>2. "in_progress" \in Statuses
  BY DEF Statuses
<1> HIDE DEF NoState
<1> QED
  BY <1>1, <1>2 DEF Clear, Patches

LEMMA AskPatch ==
    ASSUME NEW asked \in AskType
    PROVE  asked \in Patches /\ asked.state = Keep
BY DEF AskType, Patches

\* A patch without a decision is backed if it does not finish the issue and
\* completes nothing new.
LEMMA BackedOutcome ==
    ASSUME IssueOK, NEW policy \in Policies, NEW patch \in Patches,
           patch.state # Keep => patch.state.completed \subseteq Approved(decisions),
           patch.status = "done" /\ patch.state # NoState =>
               StagesOf(policy) \subseteq Approved(decisions)
    PROVE  Sound(policy, Outcome(patch))
<1>1. <<>> \in AtMostOne /\ Approved(<<>>) = {} /\ ToSet(<<>>) = {}
  BY ApprovedByNone DEF AtMostOne
<1>2. Outcome(patch).patch = patch /\ Outcome(patch).decision = <<>>
  BY DEF Outcome
<1> QED
  BY <1>1, <1>2 DEF Sound, Backed

LEMMA BackedPend ==
    ASSUME IssueOK, NEW policy \in Policies, NEW asked \in AskType, NEW stage \in Stages,
           NEW participant \in Someone, NEW returnTo \in Someone
    PROVE  Sound(policy, Outcome(Pend(asked, issue.state, stage, participant, returnTo)))
<1> DEFINE patch == Pend(asked, issue.state, stage, participant, returnTo)
<1>1. /\ patch \in Patches
      /\ patch.status = "in_review"
      /\ patch.state.completed \subseteq Approved(decisions)
  BY AskPatch, IssueFacts, PendPatch
<1>2. Sound(policy, Outcome(patch))
  <2> HIDE DEF patch
  <2> QED
    BY <1>1, BackedOutcome
<1> QED
  BY <1>2

LEMMA BackedClear ==
    ASSUME IssueOK, NEW policy \in Policies, NEW asked \in AskType, NEW back
    PROVE  Sound(policy, Outcome(Clear(asked, back)))
<1> DEFINE patch == Clear(asked, back)
<1>1. patch \in Patches /\ patch.state = NoState
  BY AskPatch, ClearPatch
<1>2. patch.state.completed \subseteq Approved(decisions)
  BY <1>1, NoStateType
<1>3. Sound(policy, Outcome(patch))
  <2> HIDE DEF patch
  <2> QED
    BY <1>1, <1>2, BackedOutcome
<1> QED
  BY <1>3

LEMMA BackedAsked ==
    ASSUME IssueOK, NEW policy \in Policies, NEW asked \in AskType,
           asked.status = "done" => StagesOf(policy) \subseteq Approved(decisions)
    PROVE  Sound(policy, Outcome(asked))
BY AskPatch, BackedOutcome

LEMMA RefusedIsSound ==
    ASSUME NEW policy
    PROVE  Sound(policy, Refused)
BY DEF Sound, Refused

\* The decision of a request at a pending stage.
LEMMA DecisionOnStage ==
    ASSUME IssueOK, NEW policy \in Policies, issue.state.stage \in StagesOf(policy),
           Takes(StageOf(policy, issue.state.stage), issue.state.participant),
           issue.state.participant \in Principals,
           NEW outcome \in {"approved", "changes_requested"}
    PROVE  LET d == [stage |-> issue.state.stage, outcome |-> outcome,
                     actor |-> issue.state.participant]
           IN  d \in Decision /\ ByParticipant(d)
BY IssueFacts DEF Decision, ByParticipant

LEMMA ApproveIsSound ==
    ASSUME IssueOK, NEW policy \in Policies, issue.state.stage \in StagesOf(policy),
           Takes(StageOf(policy, issue.state.stage), issue.state.participant),
           NEW asked \in AskType, NEW actor \in Principals, actor = issue.state.participant,
           NEW assign \in Someone
    PROVE  Sound(policy, Approve(policy, asked, actor, assign))
<1> DEFINE st        == issue.state
           completed == [st EXCEPT !.phase = "completed", !.stage = NoStage,
                                   !.participant = Nobody, !.completed = @ \cup {st.stage}]
           left      == Remaining(policy, completed.completed)
           next      == Select(First(policy, left), assign, st.returnTo)
           d         == [stage |-> st.stage, outcome |-> "approved", actor |-> actor]
           back      == Or(st.returnTo, Or(issue.assignee, actor))
           pending   == Pend(asked, completed, First(policy, left), next, back)
<1>1. /\ d \in Decision /\ ByParticipant(d)
      /\ <<d>> \in AtMostOne
      /\ ToSet(<<d>>) = {d} /\ Approved(<<d>>) = {st.stage}
  BY DecisionOnStage, ApprovedByOne DEF AtMostOne
<1>2. /\ completed \in States
      /\ completed.completed = st.completed \cup {st.stage}
      /\ st.completed \subseteq Approved(decisions)
  BY IssueFacts DEF States, Someone, NoStage
<1>3. completed.completed \subseteq Approved(decisions) \cup Approved(<<d>>)
  BY <1>1, <1>2
<1>4. asked \in Patches
  BY AskPatch
<1> HIDE DEF d, completed
<1>5. CASE left = {}
  <2> DEFINE patch == [asked EXCEPT !.state = completed]
  <2>1. patch \in Patches /\ patch.state = completed
    BY <1>2, <1>4 DEF Patches
  <2>2. StagesOf(policy) \subseteq completed.completed
    BY <1>5, NoneIsLeft
  <2>3. Approve(policy, asked, actor, assign)
          = [refused |-> FALSE, patch |-> patch, decision |-> <<d>>]
    BY <1>5 DEF Approve, Decided, d, completed
  <2> HIDE DEF patch
  <2> QED
    BY <1>1, <1>3, <2>1, <2>2, <2>3 DEF Sound, Backed
<1>6. CASE left # {} /\ next = Nobody
  BY <1>6, RefusedIsSound DEF Approve, completed
<1>7. CASE left # {} /\ next # Nobody
  <2>1. First(policy, left) \in Stages
    BY <1>7, FirstIsLeft
  <2>2. next \in Someone /\ back \in Someone
    BY <2>1, SelectedTakes, IssueFacts, OrType DEF Someone
  <2>3. /\ pending \in Patches
        /\ pending.status = "in_review"
        /\ pending.state.completed = completed.completed
    <3> HIDE DEF left, next, back
    <3> QED
      BY <1>2, <1>4, <2>1, <2>2, PendPatch
  <2>4. Approve(policy, asked, actor, assign)
          = [refused |-> FALSE, patch |-> pending, decision |-> <<d>>]
    BY <1>7 DEF Approve, Decided, d, completed
  <2> HIDE DEF pending
  <2> QED
    BY <1>1, <1>3, <2>3, <2>4 DEF Sound, Backed
<1> QED
  BY <1>5, <1>6, <1>7

LEMMA RequestChangesIsSound ==
    ASSUME IssueOK, NEW policy \in Policies, issue.state.stage \in StagesOf(policy),
           Takes(StageOf(policy, issue.state.stage), issue.state.participant),
           NEW asked \in AskType, NEW actor \in Principals, actor = issue.state.participant
    PROVE  Sound(policy, RequestChanges(asked, actor))
<1> DEFINE st      == issue.state
           changed == [st EXCEPT !.phase = "changes_requested"]
           patch   == [asked EXCEPT !.status = "in_progress", !.assignee = st.returnTo,
                                    !.state = changed]
           d       == [stage |-> st.stage, outcome |-> "changes_requested", actor |-> actor]
<1>1. /\ d \in Decision /\ ByParticipant(d)
      /\ <<d>> \in AtMostOne
      /\ ToSet(<<d>>) = {d}
  BY DecisionOnStage, ApprovedByOne DEF AtMostOne
<1>2. /\ changed \in States
      /\ changed.completed \subseteq Approved(decisions)
      /\ st.returnTo \in Someone
  BY IssueFacts DEF States
<1> HIDE DEF d, changed
<1>3. /\ patch \in Patches
      /\ patch.status = "in_progress"
      /\ patch.state = changed
  BY <1>2, AskPatch DEF Patches, Statuses
<1>4. CASE st.returnTo = Nobody
  BY <1>4, RefusedIsSound DEF RequestChanges
<1>5. CASE st.returnTo # Nobody
  <2>1. RequestChanges(asked, actor)
          = [refused |-> FALSE, patch |-> patch, decision |-> <<d>>]
    BY <1>5 DEF RequestChanges, Decided, d, changed
  <2> HIDE DEF patch
  <2> QED
    BY <1>1, <1>2, <1>3, <2>1 DEF Sound, Backed
<1> QED
  BY <1>4, <1>5

LEMMA AtStageIsSound ==
    ASSUME IssueOK, NEW policy \in Policies, issue.state.stage \in StagesOf(policy),
           NEW asked \in AskType, NEW actor \in Principals, NEW comment \in BOOLEAN
    PROVE  Sound(policy, AtStage(policy, asked, actor, comment))
<1> DEFINE st       == issue.state
           stage    == StageOf(policy, st.stage)
           assign   == IF asked.assignee = Keep THEN Nobody ELSE asked.assignee
           returnTo == Or(st.returnTo, Or(issue.assignee, actor))
           other    == Select(stage, Or(assign, st.participant), st.returnTo)
           advances == \/ asked.status \notin {Keep, "in_review"}
                       \/ asked.assignee # Keep /\ assign # st.participant
           drifted  == issue.status # "in_review" \/ issue.assignee # st.participant
           decides  == actor = st.participant /\ asked.status \notin {Keep, "in_review"}
           result   == AtStage(policy, asked, actor, comment)
<1>1. stage \in Stages
  BY StageOfPolicy
<1>2. assign \in Someone /\ actor \in Someone
  BY DEF AskType, Someone
<1>3. /\ returnTo \in Someone /\ other \in Someone
      /\ st.participant \in Someone
  BY <1>1, <1>2, IssueFacts, OrType, SelectedTakes
<1>4. \A p \in Someone : Sound(policy, Outcome(Pend(asked, st, stage, p, returnTo)))
  BY <1>1, <1>3, BackedPend
<1>5. CASE ~ Takes(stage, st.participant) /\ other = Nobody
  <2>1. result = Outcome(Clear(asked, asked.status = Keep))
    BY <1>5 DEF AtStage
  <2> QED
    BY <2>1, BackedClear
<1>6. CASE ~ Takes(stage, st.participant) /\ other # Nobody
  <2>1. result = Outcome(Pend(asked, st, stage, other, returnTo))
    BY <1>6 DEF AtStage
  <2> QED
    BY <2>1, <1>3, <1>4
<1>7. CASE Takes(stage, st.participant) /\ decides
  <2>1. CASE ~ comment
    BY <1>7, <2>1, RefusedIsSound DEF AtStage
  <2>2. CASE comment /\ asked.status = "done"
    <3>1. result = Approve(policy, asked, actor, assign)
      BY <1>7, <2>2 DEF AtStage
    <3> QED
      BY <1>2, <1>7, <3>1, ApproveIsSound
  <2>3. CASE comment /\ asked.status # "done"
    <3>1. result = RequestChanges(asked, actor)
      BY <1>7, <2>3 DEF AtStage
    <3> QED
      BY <1>7, <3>1, RequestChangesIsSound
  <2> QED
    BY <2>1, <2>2, <2>3
<1>8. CASE Takes(stage, st.participant) /\ ~ decides /\ drifted
  <2>1. result = Outcome(Pend(asked, st, stage, st.participant, returnTo))
    BY <1>8 DEF AtStage
  <2> QED
    BY <2>1, <1>3, <1>4
<1>9. CASE Takes(stage, st.participant) /\ ~ decides /\ ~ drifted /\ advances
  BY <1>9, RefusedIsSound DEF AtStage
<1>10. CASE Takes(stage, st.participant) /\ ~ decides /\ ~ drifted /\ ~ advances
  <2>1. result = Outcome(asked)
    BY <1>10 DEF AtStage
  <2>2. asked.status # "done"
    BY <1>10, WorkflowConstants DEF Statuses
  <2> QED
    BY <2>1, <2>2, BackedAsked
<1> QED
  BY <1>5, <1>6, <1>7, <1>8, <1>9, <1>10

LEMMA OpenStageIsSound ==
    ASSUME IssueOK, NEW policy \in Policies, NEW asked \in AskType
    PROVE  Sound(policy, OpenStage(policy, asked))
<1> DEFINE st        == issue.state
           again     == st.phase = "changes_requested" /\ st.stage \in StagesOf(policy)
           left      == Remaining(policy, st.completed)
           stage     == IF again THEN StageOf(policy, st.stage) ELSE First(policy, left)
           assign    == IF asked.assignee = Keep THEN Nobody ELSE asked.assignee
           preferred == IF st.phase = "changes_requested" THEN Or(assign, st.participant) ELSE assign
           returnTo  == Or(st.returnTo, issue.assignee)
           participant == Select(stage, preferred, returnTo)
           nothing   == asked.status \notin {"done", "in_review"} \/ (~again /\ left = {})
           result    == OpenStage(policy, asked)
<1>1. CASE nothing
  <2>1. result = Outcome(asked)
    BY <1>1 DEF OpenStage
  <2>2. asked.status = "done" => StagesOf(policy) \subseteq Approved(decisions)
    BY <1>1, NoneIsLeft, IssueFacts
  <2> QED
    BY <2>1, <2>2, BackedAsked
<1>2. CASE ~ nothing
  <2>1. stage \in Stages
    BY <1>2, StageOfPolicy, FirstIsLeft
  <2>2. returnTo \in Someone
    BY IssueFacts, OrType
  <2>3. assign \in Someone
    BY DEF AskType, Someone
  <2>4. preferred \in Someone
    BY <2>3, IssueFacts, OrType
  <2>5. participant \in Someone
    <3> HIDE DEF stage, preferred, returnTo
    <3> QED
      BY <2>1, <2>2, <2>4, SelectedTakes
  <2>6. CASE participant = Nobody
    BY <1>2, <2>6, RefusedIsSound DEF OpenStage
  <2>7. CASE participant # Nobody
    <3>1. result = Outcome(Pend(asked, st, stage, participant, returnTo))
      BY <1>2, <2>7 DEF OpenStage
    <3>2. Sound(policy, Outcome(Pend(asked, st, stage, participant, returnTo)))
      <4> HIDE DEF stage, participant, returnTo
      <4> QED
        BY <2>1, <2>2, <2>5, BackedPend
    <3> QED
      BY <3>1, <3>2
  <2> QED
    BY <2>6, <2>7
<1> QED
  BY <1>1, <1>2

LEMMA TransitionIsSound ==
    ASSUME IssueOK, NEW policy \in Policies, NEW asked \in AskType,
           NEW actor \in Principals, NEW comment \in BOOLEAN
    PROVE  Sound(policy, Transition(policy, asked, actor, comment))
<1> DEFINE st     == issue.state
           result == Transition(policy, asked, actor, comment)
           reopens == issue.status \in Closed /\ asked.status \notin Closed \cup {Keep}
           edited == st.stage # NoStage /\ st.stage \notin StagesOf(policy)
           stands == st.stage # NoStage /\ st.phase = "pending"
<1>1. CASE policy = <<>>
  <2>1. StagesOf(policy) = {}
    BY <1>1 DEF StagesOf
  <2>2. CASE st = NoState
    BY <1>1, <2>1, <2>2, BackedAsked DEF Transition
  <2>3. CASE st # NoState
    BY <1>1, <2>3, BackedClear DEF Transition
  <2> QED
    BY <2>2, <2>3
<1>2. CASE policy # <<>> /\ reopens
  <2> DEFINE patch == [asked EXCEPT !.state = NoState]
  <2>1. /\ patch \in Patches
        /\ patch.state = NoState
        /\ patch.state.completed \subseteq Approved(decisions)
    <3>1. [asked EXCEPT !.state = NoState].state = NoState
      BY DEF AskType
    <3>2. [asked EXCEPT !.state = NoState] \in Patches
      <4>1. NoState \in States
        BY NoStateType
      <4> HIDE DEF NoState
      <4> QED
        BY <4>1 DEF AskType, Patches
    <3> QED
      BY <3>1, <3>2, NoStateType
  <2>2. result = Outcome(patch)
    BY <1>2 DEF Transition
  <2>3. Sound(policy, Outcome(patch))
    <3> HIDE DEF patch
    <3> QED
      BY <2>1, BackedOutcome
  <2> QED
    BY <2>2, <2>3
<1>3. CASE policy # <<>> /\ ~ reopens /\ edited
  <2>1. result = Outcome(Clear(asked, asked.status = Keep))
    BY <1>3 DEF Transition
  <2> QED
    BY <2>1, BackedClear
<1>4. CASE policy # <<>> /\ ~ reopens /\ ~ edited /\ stands
  <2>1. result = AtStage(policy, asked, actor, comment)
    BY <1>4 DEF Transition
  <2> QED
    BY <1>4, <2>1, AtStageIsSound
<1>5. CASE policy # <<>> /\ ~ reopens /\ ~ edited /\ ~ stands
  <2>1. result = OpenStage(policy, asked)
    BY <1>5 DEF Transition
  <2> QED
    BY <2>1, OpenStageIsSound
<1> QED
  BY <1>1, <1>2, <1>3, <1>4, <1>5

-----------------------------------------------------------------------------
(* What a step may do to the requests in flight.                            *)

LEMMA RecordKept ==
    ASSUME NEW s, NEW t, Approved(s) \subseteq Approved(t), NEW q, RequestOK(s, q)
    PROVE  RequestOK(t, q)
BY DEF RequestOK, Backed

\* One request changes, into one that is sound, and the record at most grows.
LEMMA OneRequestMoves ==
    ASSUME RequestsOK, NEW k \in Slots, NEW q, RequestOK(decisions', q),
           request' = [request EXCEPT ![k] = q],
           Approved(decisions) \subseteq Approved(decisions')
    PROVE  RequestsOK'
<1>1. DOMAIN request' = Slots
  BY DEF RequestsOK
<1>2. ASSUME NEW j \in Slots
      PROVE  RequestOK(decisions', request'[j])
  <2>1. CASE j = k
    BY <2>1 DEF RequestsOK
  <2>2. CASE j # k
    BY <2>2, RecordKept DEF RequestsOK
  <2> QED
    BY <2>1, <2>2
<1> QED
  BY <1>1, <1>2 DEF RequestsOK

LEMMA IdleIsOK ==
    ASSUME NEW record
    PROVE  RequestOK(record, Idle)
BY DEF RequestOK

\* What is known of a request by the step it is at.
LEMMA RequestAt ==
    ASSUME RequestsOK, NEW k \in Slots
    PROVE  LET q == request[k] IN
           /\ q.at = "own" =>
                /\ \/ /\ q \in PatchRequest
                      /\ q.next = "write" => Backed(decisions, q.seen, q.patch, q.decision)
                   \/ q \in ReleaseRequest
                /\ q.run \in Runs /\ q.actor \in Agents
           /\ q.at = "write" =>
                q \in PatchRequest /\ Backed(decisions, q.seen, q.patch, q.decision)
           /\ q.at = "take" => q \in TakeRequest
           /\ q.at \in {"check", "release"} => q \in ReleaseRequest
<1>1. RequestOK(decisions, request[k])
  BY DEF RequestsOK
<1> QED
  BY <1>1 DEF RequestOK, Idle, PatchRequest, TakeRequest, ReleaseRequest

\* A step that leaves the record alone keeps what is said of it.
LEMMA RecordUnchanged ==
    ASSUME IInv, UNCHANGED decisions,
           issue'.state \in {issue.state, NoState}
    PROVE  AuditTrail' /\ DecidedByParticipant'
<1>1. ApprovedStages' = ApprovedStages
  BY DEF ApprovedStages
<1>2. AuditTrail'
  BY <1>1, NoStateType DEF IInv, AuditTrail
<1>3. DecidedByParticipant'
  BY DEF IInv, DecidedByParticipant, StagesOf, StageOf, Takes
<1> QED
  BY <1>2, <1>3

IssueType == [status : Statuses, assignee : Someone, policy : Policies, state : States,
              checkout : Runs \cup {NoRun}, owner : Runs \cup {NoRun}]

-----------------------------------------------------------------------------
(* Every action keeps the invariant.                                        *)

LEMMA InitHolds == Init => IInv
<1> SUFFICES ASSUME Init
             PROVE  IInv
  OBVIOUS
<1>1. issue \in IssueType /\ issue.state = NoState /\ issue.checkout = NoRun
  BY NoStateType DEF Init, IssueType, Statuses
<1>2. decisions = <<>> /\ ToSet(decisions) = {} /\ ApprovedStages = {}
  BY DEF Init, ToSet, ApprovedStages
<1>3. TypeOK
  BY <1>1, WorkflowConstants DEF Init, TypeOK, IssueType
<1>4. RequestsOK
  BY IdleIsOK DEF Init, RequestsOK
<1>5. AuditTrail /\ DecidedByParticipant
  BY <1>1, <1>2, NoStateType DEF AuditTrail, DecidedByParticipant
<1> QED
  BY <1>3, <1>4, <1>5 DEF IInv

\* A step that begins a request and leaves the issue and the record alone.
LEMMA BeginStep ==
    ASSUME IInv, NEW k \in Slots, NEW q, RequestOK(decisions, q), Send(k, q),
           UNCHANGED <<issue, run, decisions>>
    PROVE  IInv'
<1>1. TypeOK'
  BY WorkflowConstants DEF IInv, TypeOK, Send
<1>2. RequestsOK'
  BY OneRequestMoves DEF IInv, Send
<1>3. AuditTrail' /\ DecidedByParticipant'
  BY RecordUnchanged
<1> QED
  BY <1>1, <1>2, <1>3 DEF IInv

LEMMA NoPatchType == NoPatch \in Patches
BY DEF NoPatch, Patches

\* What is refused changes nothing.
LEMMA RefusedResult ==
    ASSUME NEW policy, NEW asked, NEW actor, NEW comment,
           Transition(policy, asked, actor, comment).refused
    PROVE  Transition(policy, asked, actor, comment) = Refused
<1>1. ASSUME NEW patch PROVE ~ Outcome(patch).refused
  BY DEF Outcome
<1>2. ASSUME NEW patch, NEW what, NEW by PROVE ~ Decided(patch, what, by).refused
  BY DEF Decided
<1>3. ASSUME NEW assign, Approve(policy, asked, actor, assign).refused
      PROVE  Approve(policy, asked, actor, assign) = Refused
  BY <1>2, <1>3, Zenon DEF Approve
<1>4. RequestChanges(asked, actor).refused => RequestChanges(asked, actor) = Refused
  BY <1>2, Zenon DEF RequestChanges
<1>5. AtStage(policy, asked, actor, comment).refused => AtStage(policy, asked, actor, comment) = Refused
  BY <1>1, <1>3, <1>4, Zenon DEF AtStage
<1>6. OpenStage(policy, asked).refused => OpenStage(policy, asked) = Refused
  BY <1>1, Zenon DEF OpenStage
<1> QED
  BY <1>1, <1>5, <1>6, Zenon DEF Transition

LEMMA PatchReadStep ==
    ASSUME IInv, NEW k \in Slots, NEW r \in Runs \cup {NoRun}, NEW actor \in Principals,
           NEW asked \in Asks, NEW comment \in BOOLEAN, PatchRead(k, r, actor, asked, comment)
    PROVE  IInv'
<1> DEFINE policy  == IF asked.policy = Keep THEN issue.policy ELSE asked.policy
           result  == Transition(policy, asked, actor, comment)
           next == IF result.refused THEN "refuse" ELSE "write"
           q == [at |-> Owning(actor, next), next |-> next, run |-> r, actor |-> actor,
                 seen |-> policy, patch |-> result.patch, decision |-> result.decision]
<1>1. asked \in AskType /\ policy \in Policies
  BY WorkflowConstants DEF AskType, IInv, TypeOK
<1>2. Sound(policy, result)
  <2> HIDE DEF policy
  <2> QED
    BY <1>1, TransitionIsSound DEF IInv, IssueOK
<1> HIDE DEF policy, result
<1>3. Acts(actor, r) /\ Owning(actor, next) # "refuse" /\ Send(k, q) /\ UNCHANGED <<issue, run, decisions>>
  BY DEF PatchRead, policy, result
<1>4. next = "write" => Backed(decisions, policy, result.patch, result.decision)
  BY <1>2 DEF Sound
<1>5. actor \in Agents => r \in Runs
  BY <1>3, WorkflowConstants DEF Acts
<1>6. result.patch \in Patches /\ result.decision \in AtMostOne
  <2>1. CASE result.refused
    <3>1. result = Refused
      BY <2>1, RefusedResult, <1>1 DEF result
    <3> QED
      BY <3>1, NoPatchType DEF Refused, AtMostOne
  <2>2. CASE ~result.refused
    BY <1>2, <2>2 DEF Sound, Backed
  <2> QED
    BY <2>1, <2>2
<1>7. next \in {"write", "refuse"} /\ Owning(actor, next) \in {"own", next}
  BY DEF Owning
<1>8. Owning(actor, next) = "own" => actor \in Agents
  BY DEF Owning
<1> HIDE DEF next
<1>9. q \in PatchRequest
  BY <1>1, <1>3, <1>6, <1>7 DEF PatchRequest
<1>10. RequestOK(decisions, q)
  BY <1>3, <1>4, <1>5, <1>7, <1>8, <1>9 DEF RequestOK
<1> HIDE DEF q
<1> QED
  BY <1>3, <1>10, BeginStep

LEMMA ReleaseReadStep ==
    ASSUME IInv, NEW k \in Slots, NEW r \in Runs \cup {NoRun}, NEW actor \in Principals,
           ReleaseRead(k, r, actor)
    PROVE  IInv'
<1> DEFINE q == [at |-> Owning(actor, "check"), next |-> "check", run |-> r, actor |-> actor]
<1>1. RequestOK(decisions, q)
  BY WorkflowConstants DEF RequestOK, ReleaseRequest, ReleaseRead, Acts, Owning
<1>2. Send(k, q) /\ UNCHANGED <<issue, run, decisions>>
  BY DEF ReleaseRead
<1> HIDE DEF q
<1> QED
  BY <1>1, <1>2, BeginStep

\* A step that writes the issue and leaves the record alone: it moves one
\* request at most, to one that is sound.
LEMMA IssueStep ==
    ASSUME IInv, issue' \in IssueType, issue'.state \in {issue.state, NoState},
           \/ UNCHANGED request
           \/ \E k \in Slots : \E q : RequestOK(decisions, q) /\ request' = [request EXCEPT ![k] = q],
           run' \in [Runs -> {"none", "live", "over"}], sent' \in 0..MaxRequests,
           UNCHANGED decisions
    PROVE  IInv'
<1>1. TypeOK'
  BY DEF IInv, TypeOK, IssueType
<1>2. RequestsOK'
  <2>1. CASE UNCHANGED request
    BY <2>1 DEF IInv, RequestsOK
  <2>2. CASE \E k \in Slots : \E q : RequestOK(decisions, q) /\ request' = [request EXCEPT ![k] = q]
    BY <2>2, OneRequestMoves DEF IInv
  <2> QED
    BY <2>1, <2>2
<1>3. AuditTrail' /\ DecidedByParticipant'
  BY RecordUnchanged
<1> QED
  BY <1>1, <1>2, <1>3 DEF IInv

LEMMA AdoptedType ==
    ASSUME issue \in IssueType, NEW r \in Runs \cup {NoRun}
    PROVE  /\ Adopted(r) \in IssueType
           /\ Adopted(r).state = issue.state
           /\ Adopted(r).assignee = issue.assignee
           /\ Adopted(r).checkout = r /\ Adopted(r).owner = r
BY DEF IssueType, Adopted

LEMMA Same ==
    ASSUME IInv
    PROVE  /\ issue \in IssueType
           /\ run \in [Runs -> {"none", "live", "over"}]
           /\ sent \in 0..MaxRequests
BY DEF IInv, TypeOK, IssueType

\* A request that asserts the checkout goes on, or is answered.
GoesOn(k, p) == /\ RequestOK(decisions, p) /\ request' = [request EXCEPT ![k] = p]
                /\ p # Idle => p.run = request[k].run

LEMMA OnwardStep ==
    ASSUME IInv, NEW k \in Slots, AssertOwner(k)
    PROVE  /\ request[k].run \in Runs /\ request[k].actor \in Agents
           /\ \E p : GoesOn(k, p)
<1> DEFINE q == request[k]
           w == [q EXCEPT !.at = q.next]
<1>1. /\ q.at = "own"
      /\ \/ /\ q \in PatchRequest
            /\ q.next = "write" => Backed(decisions, q.seen, q.patch, q.decision)
         \/ q \in ReleaseRequest
      /\ q.run \in Runs /\ q.actor \in Agents
  BY RequestAt DEF IInv, AssertOwner
<1>2. \/ request' = [request EXCEPT ![k] = w] /\ q.next # "refuse"
      \/ request' = [request EXCEPT ![k] = Idle]
  BY DEF AssertOwner, Onward, Answer
<1>3. ASSUME q.next # "refuse"
      PROVE  RequestOK(decisions, w) /\ w.run = q.run
  <2>1. CASE q \in PatchRequest /\ (q.next = "write" => Backed(decisions, q.seen, q.patch, q.decision))
    <3>1. /\ w \in PatchRequest /\ w.at = "write" /\ q.next = "write" /\ w.next = "write"
          /\ w.seen = q.seen /\ w.patch = q.patch /\ w.decision = q.decision /\ w.run = q.run
      BY <1>3, <2>1 DEF PatchRequest
    <3> HIDE DEF w, q
    <3> QED
      BY <2>1, <3>1 DEF RequestOK
  <2>2. CASE q \in ReleaseRequest
    <3>1. w \in ReleaseRequest /\ w.at = "check" /\ w.run = q.run
      BY <2>2 DEF ReleaseRequest
    <3> HIDE DEF w, q
    <3> QED
      BY <3>1 DEF RequestOK
  <2> QED
    BY <1>1, <2>1, <2>2
<1>4. GoesOn(k, w) \/ GoesOn(k, Idle)
  <2> HIDE DEF w
  <2> QED
    BY <1>2, <1>3, IdleIsOK DEF GoesOn
<1> HIDE DEF w
<1> QED
  BY <1>1, <1>4

LEMMA AssertOwnerStep ==
    ASSUME IInv, NEW k \in Slots, AssertOwner(k)
    PROVE  IInv'
<1>1. PICK p : GoesOn(k, p)
  BY OnwardStep
<1>2. UNCHANGED issue \/ issue' = Adopted(request[k].run)
  BY DEF AssertOwner
<1>3. issue' \in IssueType /\ issue'.state = issue.state
  BY <1>2, OnwardStep, Same, AdoptedType
<1>4. run' = run /\ sent' = sent /\ decisions' = decisions
  BY DEF AssertOwner
<1> QED
  BY <1>1, <1>3, <1>4, Same, IssueStep DEF GoesOn

LEMMA PatchedType ==
    ASSUME issue \in IssueType, NEW p \in Patches
    PROVE  /\ Patched(p) \in IssueType
           /\ Patched(p).status = IF p.status = Keep THEN issue.status ELSE p.status
           /\ Patched(p).state = IF p.state = Keep THEN issue.state ELSE p.state
           /\ \/ Patched(p).checkout = NoRun
              \/ Patched(p).checkout = issue.checkout /\ Patched(p).owner = issue.owner
<1>1. NoRun \notin Runs
  BY WorkflowConstants
<1> QED
  BY <1>1 DEF Patched, IssueType, Patches

LEMMA PatchWriteStep ==
    ASSUME IInv, NEW k \in Slots, PatchWrite(k)
    PROVE  IInv'
<1> DEFINE q    == request[k]
           next == Patched(q.patch)
<1>1. q \in PatchRequest /\ Backed(decisions, q.seen, q.patch, q.decision)
  BY RequestAt DEF IInv, PatchWrite
<1>2. request' = [request EXCEPT ![k] = Idle] /\ UNCHANGED <<run, sent>>
  BY DEF PatchWrite, Answer
<1>3. CASE UNCHANGED <<issue, decisions>>
  BY <1>2, <1>3, Same, IdleIsOK, IssueStep
<1>4. CASE issue' = next /\ decisions' = decisions \o q.decision
  <2>1. q.decision \in AtMostOne /\ q.patch \in Patches
    BY <1>1 DEF Backed
  <2>2. decisions \in Seq(Decision)
    BY DEF IInv, TypeOK, Decision
  <2>3. /\ decisions' \in Seq(Decision)
        /\ ToSet(decisions') = ToSet(decisions) \cup ToSet(q.decision)
        /\ Approved(decisions') = Approved(decisions) \cup Approved(q.decision)
    <3> HIDE DEF q
    <3> QED
      BY <1>4, <2>1, <2>2, RecordGrows
  <2>4. /\ next \in IssueType
        /\ next.state = IF q.patch.state = Keep THEN issue.state ELSE q.patch.state
    <3> HIDE DEF q
    <3> QED
      BY <2>1, Same, PatchedType
  <2> HIDE DEF next, q
  <2>5. TypeOK'
    <3>1. issue' \in IssueType /\ run' \in [Runs -> {"none", "live", "over"}] /\ sent' \in 0..MaxRequests
      BY <1>2, <1>4, <2>4, Same
    <3> QED
      BY <2>3, <3>1 DEF TypeOK, IssueType, Decision
  <2>6. RequestsOK'
    BY <1>2, <2>3, IdleIsOK, OneRequestMoves DEF IInv
  <2>7. AuditTrail'
    <3>1. issue.state.completed \subseteq Approved(decisions)
      BY DEF IInv, AuditTrail, ApprovedStages, Approved
    <3>2. q.patch.state # Keep =>
            q.patch.state.completed \subseteq Approved(decisions) \cup Approved(q.decision)
      BY <1>1 DEF Backed
    <3>3. issue'.state.completed \subseteq Approved(decisions')
      BY <1>4, <2>3, <2>4, <3>1, <3>2
    <3> QED
      BY <3>3 DEF AuditTrail, ApprovedStages, Approved
  <2>8. DecidedByParticipant'
    <3>1. \A d \in ToSet(decisions) : ByParticipant(d)
      BY DEF IInv, DecidedByParticipant, ByParticipant
    <3>2. \A d \in ToSet(q.decision) : ByParticipant(d)
      BY <1>1 DEF Backed
    <3>3. \A d \in ToSet(decisions') : ByParticipant(d)
      BY <2>3, <3>1, <3>2
    <3> QED
      BY <3>3 DEF DecidedByParticipant, ByParticipant
  <2> QED
    BY <2>5, <2>6, <2>7, <2>8 DEF IInv
<1> QED
  BY <1>3, <1>4 DEF PatchWrite

LEMMA CheckoutClearStep ==
    ASSUME IInv, NEW k \in Slots, NEW r \in Runs \cup {NoRun}, NEW agent \in Agents,
           NEW expected \in CheckoutFrom, CheckoutClear(k, r, agent, expected)
    PROVE  IInv'
<1> DEFINE q == [at |-> "take", run |-> r, actor |-> agent, expected |-> expected]
<1>1. RequestOK(decisions, q)
  BY DEF RequestOK, TakeRequest
<1>2. request' = [request EXCEPT ![k] = q] /\ sent' \in 0..MaxRequests /\ UNCHANGED <<run, decisions>>
  BY WorkflowConstants DEF CheckoutClear, Send, IInv, TypeOK
<1>3. issue' \in IssueType /\ issue'.state = issue.state
  BY Same DEF CheckoutClear, IssueType
<1> HIDE DEF q
<1> QED
  BY <1>1, <1>2, <1>3, Same, IssueStep

LEMMA CheckoutTakeStep ==
    ASSUME IInv, NEW k \in Slots, CheckoutTake(k)
    PROVE  IInv'
<1> DEFINE q     == request[k]
           taken == [Adopted(q.run) EXCEPT !.status = "in_progress", !.assignee = q.actor]
<1>1. q.run \in Runs \cup {NoRun} /\ q.actor \in Agents
  BY RequestAt DEF IInv, CheckoutTake, TakeRequest
<1>2. request' = [request EXCEPT ![k] = Idle] /\ UNCHANGED <<run, sent, decisions>>
  BY DEF CheckoutTake, Answer
<1>3. issue' \in {issue, taken, Adopted(q.run)}
  BY DEF CheckoutTake
<1>4. q.actor \in Someone /\ "in_progress" \in Statuses
  BY <1>1 DEF Someone, Principals, Statuses
<1>5. Adopted(q.run) \in IssueType /\ Adopted(q.run).state = issue.state
  BY <1>1, Same, AdoptedType
<1>6. issue' \in IssueType /\ issue'.state = issue.state
  BY <1>3, <1>4, <1>5, Same DEF IssueType
<1> QED
  BY <1>2, <1>6, Same, IdleIsOK, IssueStep

LEMMA ReleaseCheckStep ==
    ASSUME IInv, NEW k \in Slots, ReleaseCheck(k)
    PROVE  IInv'
<1> DEFINE q == request[k]
           w == [q EXCEPT !.at = "release"]
<1>1. q \in ReleaseRequest
  BY RequestAt DEF IInv, ReleaseCheck
<1>2. RequestOK(decisions, w)
  <2>1. w \in ReleaseRequest /\ w.at = "release"
    BY <1>1 DEF ReleaseRequest
  <2> HIDE DEF w
  <2> QED
    BY <2>1 DEF RequestOK
<1>3. /\ request' = [request EXCEPT ![k] = w] \/ request' = [request EXCEPT ![k] = Idle]
      /\ UNCHANGED <<issue, run, sent, decisions>>
  BY DEF ReleaseCheck, Answer
<1> HIDE DEF w
<1> QED
  BY <1>2, <1>3, Same, IdleIsOK, IssueStep

LEMMA ReleaseWriteStep ==
    ASSUME IInv, NEW k \in Slots, ReleaseWrite(k)
    PROVE  IInv'
<1>1. request' = [request EXCEPT ![k] = Idle] /\ UNCHANGED <<run, sent, decisions>>
  BY DEF ReleaseWrite, Answer
<1>2. issue' \in IssueType /\ issue'.state = issue.state
  BY Same DEF ReleaseWrite, IssueType, Statuses, Someone
<1> QED
  BY <1>1, <1>2, Same, IdleIsOK, IssueStep

LEMMA CommentReopensStep ==
    ASSUME IInv, CommentReopens
    PROVE  IInv'
<1>1. UNCHANGED <<run, request, decisions>> /\ sent' \in 0..MaxRequests
  BY WorkflowConstants DEF CommentReopens, IInv, TypeOK
<1>2. issue' \in IssueType /\ issue'.state = issue.state
  BY Same DEF CommentReopens, IssueType, Statuses
<1> QED
  BY <1>1, <1>2, Same, IssueStep

LEMMA RunStep ==
    ASSUME IInv, NEW r \in Runs, RunStarts(r) \/ RunEnds(r) \/ LockReleased(r)
    PROVE  IInv'
<1>1. UNCHANGED <<request, sent, decisions>>
  BY DEF RunStarts, RunEnds, LockReleased
<1>2. issue' \in IssueType /\ issue'.state = issue.state
  BY Same DEF RunStarts, RunEnds, LockReleased, IssueType
<1>3. run' \in [Runs -> {"none", "live", "over"}]
  BY Same DEF RunStarts, RunEnds, LockReleased
<1> QED
  BY <1>1, <1>2, <1>3, Same, IssueStep

LEMMA NextStep ==
    ASSUME IInv, [Next]_vars
    PROVE  IInv'
<1>1. CASE CommentReopens
  BY <1>1, CommentReopensStep
<1>2. CASE \E k \in Slots, actor \in Principals, r \in Runs \cup {NoRun} :
             \/ \E asked \in Asks, comment \in BOOLEAN : PatchRead(k, r, actor, asked, comment)
             \/ ReleaseRead(k, r, actor)
  BY <1>2, PatchReadStep, ReleaseReadStep
<1>3. CASE \E k \in Slots, r \in Runs \cup {NoRun}, agent \in Agents, expected \in CheckoutFrom :
             CheckoutClear(k, r, agent, expected)
  BY <1>3, CheckoutClearStep
<1>4. CASE \E k \in Slots : \/ AssertOwner(k) \/ PatchWrite(k) \/ CheckoutTake(k)
                           \/ ReleaseCheck(k) \/ ReleaseWrite(k)
  BY <1>4, AssertOwnerStep, PatchWriteStep, CheckoutTakeStep, ReleaseCheckStep, ReleaseWriteStep
<1>5. CASE \E r \in Runs : RunStarts(r) \/ RunEnds(r) \/ LockReleased(r)
  BY <1>5, RunStep
<1>6. CASE UNCHANGED vars
  BY <1>6, Same, IssueStep DEF vars
<1> QED
  BY <1>1, <1>2, <1>3, <1>4, <1>5, <1>6 DEF Next

-----------------------------------------------------------------------------
(* A PATCH that finishes the issue has every stage it saw approved.         *)
LEMMA FinishStep ==
    ASSUME IInv, [Next]_vars, NEW k \in Slots, Finishes(k), request[k].patch.state # NoState
    PROVE  StagesOf(request[k].seen) \subseteq ApprovedStages'
<1> DEFINE q == request[k]
<1>1. /\ q.at = "write" /\ request'[k] = Idle
      /\ issue.status # "done" /\ issue'.status = "done"
  BY DEF Finishes
<1>2. DOMAIN request = Slots /\ q # Idle
  BY <1>1 DEF IInv, RequestsOK, Idle
<1>3. PatchWrite(k)
  <2>1. ASSUME NEW j \in Slots, NEW p, request' = [request EXCEPT ![j] = p]
        PROVE  j = k
    BY <1>1, <1>2, <2>1
  <2>2. ~ UNCHANGED request
    BY <1>1, <1>2
  <2>3. CASE \E j \in Slots, actor \in Principals, r \in Runs \cup {NoRun} :
               \/ \E asked \in Asks, comment \in BOOLEAN : PatchRead(j, r, actor, asked, comment)
               \/ ReleaseRead(j, r, actor)
    BY <1>1, <2>3, ZenonT(40) DEF PatchRead, ReleaseRead
  <2>4. CASE \E j \in Slots, r \in Runs \cup {NoRun}, agent \in Agents, expected \in CheckoutFrom :
               CheckoutClear(j, r, agent, expected)
    BY <1>2, <2>1, <2>4 DEF CheckoutClear, Send
  <2>5. CASE \E j \in Slots : \/ AssertOwner(j) \/ PatchWrite(j) \/ CheckoutTake(j)
                             \/ ReleaseCheck(j) \/ ReleaseWrite(j)
    <3>1. PICK j \in Slots : \/ AssertOwner(j) \/ PatchWrite(j) \/ CheckoutTake(j)
                           \/ ReleaseCheck(j) \/ ReleaseWrite(j)
      BY <2>5
    <3>2. CASE AssertOwner(j)
      <4>1. \E p : request' = [request EXCEPT ![j] = p]
        BY <3>2, OnwardStep DEF GoesOn
      <4> QED
        BY <1>1, <2>1, <3>2, <4>1 DEF AssertOwner
    <3>3. CASE PatchWrite(j) \/ CheckoutTake(j) \/ ReleaseWrite(j)
      BY <1>1, <2>1, <3>3 DEF PatchWrite, CheckoutTake, ReleaseWrite, Answer
    <3>4. CASE ReleaseCheck(j)
      <4>1. \E p : request' = [request EXCEPT ![j] = p]
        BY <3>4 DEF ReleaseCheck, Answer
      <4> QED
        BY <1>1, <2>1, <3>4, <4>1 DEF ReleaseCheck
    <3> QED
      BY <3>1, <3>2, <3>3, <3>4
  <2> QED
    BY <2>2, <2>3, <2>4, <2>5 DEF Next, CommentReopens, RunStarts, RunEnds, LockReleased, vars
<1>4. q \in PatchRequest /\ Backed(decisions, q.seen, q.patch, q.decision)
  BY <1>1, RequestAt DEF IInv
<1>5. issue' = Patched(q.patch) /\ decisions' = decisions \o q.decision
  BY <1>1, <1>3 DEF PatchWrite
<1>6. q.patch.status = "done"
  <2>1. q.patch \in Patches
    BY <1>4 DEF Backed
  <2> HIDE DEF q
  <2>2. Patched(q.patch).status = IF q.patch.status = Keep THEN issue.status ELSE q.patch.status
    BY <2>1, Same, PatchedType
  <2> QED
    BY <1>1, <1>5, <2>2
<1>7. StagesOf(q.seen) \subseteq Approved(decisions) \cup Approved(q.decision)
  BY <1>4, <1>6 DEF Backed
<1>8. Approved(decisions') = Approved(decisions) \cup Approved(q.decision)
  <2>1. decisions \in Seq(Decision) /\ q.decision \in AtMostOne
    BY <1>4 DEF IInv, TypeOK, Decision, Backed
  <2> HIDE DEF q
  <2> QED
    BY <1>5, <2>1, RecordGrows
<1> QED
  BY <1>7, <1>8 DEF ApprovedStages, Approved

(* The invariant that the other theorems follow from.                       *)
THEOREM Invariance == Spec => []IInv
BY InitHolds, NextStep, PTL DEF Spec

(* The run a live checkout is by also holds the execution lock, a run that  *)
(* holds a checkout or has sent a request has started: so whoever takes the *)
(* checkout takes it from nobody, from himself, or from a run that is over. *)

Started(r) == run[r] # "none"

LiveHolderOwns  == issue.checkout \in Runs /\ run[issue.checkout] = "live" => issue.owner = issue.checkout
HolderStarted   == issue.checkout \in Runs => Started(issue.checkout)
RequestsStarted == \A k \in Slots : request[k] # Idle /\ request[k].run \in Runs => Started(request[k].run)

HolderInv == LiveHolderOwns /\ HolderStarted /\ RequestsStarted

LEMMA HolderInit == Init => HolderInv
BY WorkflowConstants DEF Init, HolderInv, LiveHolderOwns, HolderStarted, RequestsStarted

\* A run that has started stays started, and one that is over stays over.
LEMMA RunsGoOn ==
    ASSUME IInv, [Next]_vars
    PROVE  \A r \in Runs : /\ Started(r) => Started(r)'
                           /\ Started(r) /\ run'[r] = "live" => run[r] = "live"
                           /\ \/ UNCHANGED run
                              \/ UNCHANGED request
<1>1. CASE UNCHANGED run
  BY <1>1 DEF Started
<1>2. CASE \E s \in Runs : RunStarts(s) \/ RunEnds(s) \/ LockReleased(s)
  BY <1>2, Same DEF RunStarts, RunEnds, LockReleased, Started
<1> QED
  BY <1>1, <1>2, ZenonT(40) DEF Next, vars, CommentReopens, PatchRead, ReleaseRead, CheckoutClear, AssertOwner,
     PatchWrite, CheckoutTake, ReleaseCheck, ReleaseWrite

\* What a step does to the requests: one of them moves, for the same run, or
\* begins, for one that is live.
LEMMA RequestsStartedStep ==
    ASSUME IInv, HolderInv, [Next]_vars
    PROVE  RequestsStarted'
<1>1. ASSUME NEW k \in Slots, NEW q, request' = [request EXCEPT ![k] = q],
             q # Idle /\ q.run \in Runs => Started(q.run)
      PROVE  \A j \in Slots : request'[j] # Idle /\ request'[j].run \in Runs => Started(request'[j].run)
  BY <1>1 DEF IInv, RequestsOK, HolderInv, RequestsStarted
<1>2. ASSUME NEW k \in Slots, NEW r \in Runs \cup {NoRun}, NEW actor, NEW q,
             Acts(actor, r) \/ r = NoRun, q.run = r, request' = [request EXCEPT ![k] = q]
      PROVE  \A j \in Slots : request'[j] # Idle /\ request'[j].run \in Runs => Started(request'[j].run)
  BY <1>1, <1>2, WorkflowConstants DEF Acts, Started
<1>3. CASE \E k \in Slots, actor \in Principals, r \in Runs \cup {NoRun} :
             \/ \E asked \in Asks, comment \in BOOLEAN : PatchRead(k, r, actor, asked, comment)
             \/ ReleaseRead(k, r, actor)
  <2>1. PICK k \in Slots, actor \in Principals, r \in Runs \cup {NoRun} :
             \/ \E asked \in Asks, comment \in BOOLEAN : PatchRead(k, r, actor, asked, comment)
             \/ ReleaseRead(k, r, actor)
    BY <1>3
  <2>2. Acts(actor, r) /\ \E q : q.run = r /\ request' = [request EXCEPT ![k] = q]
    BY <2>1 DEF PatchRead, ReleaseRead, Send
  <2> QED
    BY <1>2, <2>2, RunsGoOn DEF RequestsStarted
<1>4. CASE \E k \in Slots, r \in Runs \cup {NoRun}, agent \in Agents, expected \in CheckoutFrom :
             CheckoutClear(k, r, agent, expected)
  <2>1. PICK k \in Slots, r \in Runs \cup {NoRun}, agent \in Agents, expected \in CheckoutFrom :
             CheckoutClear(k, r, agent, expected)
    BY <1>4
  <2>2. (Acts(agent, r) \/ r = NoRun) /\ \E q : q.run = r /\ request' = [request EXCEPT ![k] = q]
    BY <2>1 DEF CheckoutClear, Send
  <2> QED
    BY <1>2, <2>2, RunsGoOn DEF RequestsStarted
<1>5. CASE \E k \in Slots : \/ AssertOwner(k) \/ PatchWrite(k) \/ CheckoutTake(k)
                           \/ ReleaseCheck(k) \/ ReleaseWrite(k)
  <2>1. PICK k \in Slots : \/ AssertOwner(k) \/ PatchWrite(k) \/ CheckoutTake(k)
                           \/ ReleaseCheck(k) \/ ReleaseWrite(k)
    BY <1>5
  <2>2. request[k] # Idle
    BY <2>1 DEF AssertOwner, PatchWrite, CheckoutTake, ReleaseCheck, ReleaseWrite, Idle
  <2>3. request[k].run \in Runs => Started(request[k].run)
    BY <2>2 DEF HolderInv, RequestsStarted
  <2>4. \E q : /\ request' = [request EXCEPT ![k] = q]
               /\ q # Idle => q.run = request[k].run
    <3>1. CASE AssertOwner(k)
      BY <3>1, OnwardStep DEF GoesOn
    <3>2. CASE PatchWrite(k) \/ CheckoutTake(k) \/ ReleaseWrite(k)
      BY <3>2 DEF PatchWrite, CheckoutTake, ReleaseWrite, Answer
    <3>3. CASE ReleaseCheck(k)
      <4>1. request[k] \in ReleaseRequest
        BY <3>3, RequestAt DEF IInv, ReleaseCheck
      <4>2. [request[k] EXCEPT !.at = "release"].run = request[k].run
        BY <4>1 DEF ReleaseRequest
      <4> QED
        BY <3>3, <4>2 DEF ReleaseCheck, Answer
    <3> QED
      BY <2>1, <3>1, <3>2, <3>3
  <2> QED
    BY <1>1, <2>3, <2>4, RunsGoOn DEF RequestsStarted
<1>6. CASE UNCHANGED request
  BY <1>6, RunsGoOn DEF RequestsStarted, HolderInv
<1> QED
  BY <1>3, <1>4, <1>5, <1>6 DEF Next, CommentReopens, RunStarts, RunEnds, LockReleased, vars

\* What a step does to the checkout and the execution lock.
Kept      == UNCHANGED <<issue, run>> \/ (UNCHANGED run /\ issue'.checkout = issue.checkout /\ issue'.owner = issue.owner)
GivenUp   == UNCHANGED run /\ issue'.checkout = NoRun
TakenBy(r) == /\ UNCHANGED run /\ issue'.checkout = r /\ issue'.owner = r
              /\ issue.checkout = r \/ issue.owner \in {NoRun, r} \/ Over(issue.checkout)
LetGo     == UNCHANGED run /\ issue'.checkout = issue.checkout /\ issue'.owner = NoRun /\ Over(issue.owner)

LEMMA HolderMoves ==
    ASSUME IInv, HolderInv, [Next]_vars
    PROVE  \/ Kept \/ GivenUp \/ LetGo
           \/ \E r \in Runs \cup {NoRun} : TakenBy(r) /\ (r \in Runs => Started(r))
           \/ \E r \in Runs : RunStarts(r) \/ RunEnds(r)
<1>0. issue \in IssueType /\ NoRun \notin Runs
  BY Same, WorkflowConstants
<1>1. ASSUME NEW k \in Slots, AssertOwner(k)
      PROVE  Kept \/ (request[k].run \in Runs /\ Started(request[k].run) /\ TakenBy(request[k].run))
  <2>1. request[k].run \in Runs /\ Started(request[k].run)
    BY <1>1, OnwardStep DEF HolderInv, RequestsStarted, AssertOwner, Idle
  <2>2. Adopted(request[k].run).checkout = request[k].run /\ Adopted(request[k].run).owner = request[k].run
    BY <1>0, <2>1, AdoptedType
  <2> QED
    BY <1>1, <2>1, <2>2 DEF AssertOwner, Kept, TakenBy
<1>2. ASSUME NEW k \in Slots, PatchWrite(k)
      PROVE  Kept \/ GivenUp
  <2>1. request[k].patch \in Patches
    BY <1>2, RequestAt DEF IInv, PatchWrite, Backed
  <2>2. UNCHANGED run /\ (UNCHANGED issue \/ issue' = Patched(request[k].patch))
    BY <1>2 DEF PatchWrite
  <2> QED
    BY <1>0, <2>1, <2>2, PatchedType DEF Kept, GivenUp
<1>3. ASSUME NEW k \in Slots, CheckoutTake(k)
      PROVE  \/ Kept
             \/ /\ request[k].run \in Runs \cup {NoRun} /\ TakenBy(request[k].run)
                /\ request[k].run \in Runs => Started(request[k].run)
  <2> DEFINE q     == request[k]
             taken == [Adopted(q.run) EXCEPT !.status = "in_progress", !.assignee = q.actor]
  <2>1. q.run \in Runs \cup {NoRun} /\ (q.run \in Runs => Started(q.run))
    BY <1>3, RequestAt DEF IInv, CheckoutTake, TakeRequest, HolderInv, RequestsStarted, Idle
  <2>2. Adopted(q.run) \in IssueType /\ Adopted(q.run).checkout = q.run /\ Adopted(q.run).owner = q.run
    BY <1>0, <2>1, AdoptedType
  <2>3. taken.checkout = q.run /\ taken.owner = q.run
    BY <2>2 DEF IssueType
  <2>4. /\ UNCHANGED run
        /\ \/ UNCHANGED issue
           \/ /\ issue' = taken \/ issue' = Adopted(q.run)
              /\ issue.owner \in {NoRun, q.run} \/ Over(issue.checkout)
    BY <1>3 DEF CheckoutTake
  <2> HIDE DEF q, taken
  <2>5. UNCHANGED run /\ (UNCHANGED issue \/ TakenBy(q.run))
    BY <2>2, <2>3, <2>4 DEF TakenBy
  <2> QED
    BY <2>1, <2>5 DEF Kept, q
<1>4. ASSUME NEW k \in Slots, NEW r \in Runs \cup {NoRun}, NEW agent \in Agents, NEW expected \in CheckoutFrom,
             CheckoutClear(k, r, agent, expected)
      PROVE  Kept \/ LetGo
  BY <1>0, <1>4 DEF CheckoutClear, IssueType, Kept, LetGo
<1>5. ASSUME NEW k \in Slots, ReleaseWrite(k) PROVE GivenUp
  BY <1>0, <1>5 DEF ReleaseWrite, IssueType, GivenUp
<1>6. ASSUME NEW r \in Runs, LockReleased(r) PROVE LetGo
  BY <1>0, <1>6 DEF LockReleased, IssueType, LetGo, Over
<1>7. CASE CommentReopens
  BY <1>0, <1>7 DEF CommentReopens, IssueType, GivenUp
<1>8. CASE UNCHANGED <<issue, run>>
  BY <1>8 DEF Kept
<1> HIDE DEF Kept, GivenUp, LetGo, TakenBy
<1> QED
  BY <1>1, <1>2, <1>3, <1>4, <1>5, <1>6, <1>7, <1>8, ZenonT(60)
     DEF Next, PatchRead, ReleaseRead, ReleaseCheck, vars

LEMMA HolderStep ==
    ASSUME IInv, HolderInv, [Next]_vars
    PROVE  HolderInv'
<1>0. issue \in IssueType /\ NoRun \notin Runs /\ run \in [Runs -> {"none", "live", "over"}]
  BY Same, WorkflowConstants
<1>1. RequestsStarted'
  BY RequestsStartedStep
<1>2. CASE Kept \/ GivenUp \/ LetGo
  BY <1>0, <1>1, <1>2 DEF Kept, GivenUp, LetGo, HolderInv, LiveHolderOwns, HolderStarted, Started, Over
<1>3. CASE \E r \in Runs \cup {NoRun} : TakenBy(r) /\ (r \in Runs => Started(r))
  BY <1>0, <1>1, <1>3 DEF TakenBy, HolderInv, LiveHolderOwns, HolderStarted, Started
<1>4. ASSUME NEW r \in Runs, RunStarts(r)
      PROVE  LiveHolderOwns' /\ HolderStarted'
  <2>1. issue'.checkout = issue.checkout /\ (issue.owner # NoRun => issue'.owner = issue.owner)
    BY <1>0, <1>4 DEF RunStarts, IssueType
  <2>2. run'[r] = "live" /\ \A s \in Runs \ {r} : run'[s] = run[s]
    BY <1>0, <1>4 DEF RunStarts
  <2>3. issue.checkout # r
    BY <1>4 DEF RunStarts, HolderInv, HolderStarted, Started
  <2> QED
    BY <1>0, <2>1, <2>2, <2>3 DEF HolderInv, LiveHolderOwns, HolderStarted, Started
<1>5. ASSUME NEW r \in Runs, RunEnds(r)
      PROVE  LiveHolderOwns' /\ HolderStarted'
  BY <1>0, <1>5 DEF RunEnds, HolderInv, LiveHolderOwns, HolderStarted, Started
<1> QED
  BY <1>1, <1>2, <1>3, <1>4, <1>5, HolderMoves DEF HolderInv

LEMMA CheckoutStep ==
    ASSUME IInv, HolderInv, [Next]_vars, issue.checkout \in Runs, run[issue.checkout] = "live"
    PROVE  issue'.checkout \in {issue.checkout, NoRun}
<1>1. issue.owner = issue.checkout /\ ~ Over(issue.checkout) /\ NoRun \notin Runs
  BY WorkflowConstants DEF HolderInv, LiveHolderOwns, Over
<1>2. CASE Kept \/ GivenUp \/ LetGo
  BY <1>2 DEF Kept, GivenUp, LetGo
<1>3. CASE \E r \in Runs \cup {NoRun} : TakenBy(r) /\ (r \in Runs => Started(r))
  BY <1>1, <1>3 DEF TakenBy
<1>4. CASE \E r \in Runs : RunStarts(r) \/ RunEnds(r)
  BY <1>4, Same DEF RunStarts, RunEnds, IssueType
<1> QED
  BY <1>2, <1>3, <1>4, HolderMoves

LEMMA HolderInvariance == Spec => []HolderInv
BY Invariance, HolderInit, HolderStep, PTL DEF Spec

-----------------------------------------------------------------------------
(* The issue, the runs and the decisions keep their types.                  *)
THEOREM TypeCorrect == Spec => []TypeOK
<1>1. IInv => TypeOK
  BY DEF IInv
<1> QED
  BY <1>1, Invariance, PTL

(* What the execution state calls completed was approved on record.         *)
THEOREM CompletedIsApproved == Spec => []AuditTrail
<1>1. IInv => AuditTrail
  BY DEF IInv
<1> QED
  BY <1>1, Invariance, PTL

(* Every decision on record is a participant's.                             *)
THEOREM ParticipantsDecide == Spec => []DecidedByParticipant
<1>1. IInv => DecidedByParticipant
  BY DEF IInv
<1> QED
  BY <1>1, Invariance, PTL

(* No PATCH finishes the issue past a stage nobody has approved, unless it  *)
(* clears the execution state.                                              *)
THEOREM FinishedIsApproved == Spec => DoneIsApproved
<1>1. IInv /\ [Next]_vars =>
        [\A k \in Slots : Finishes(k) /\ request[k].patch.state # NoState =>
           StagesOf(request[k].seen) \subseteq ApprovedStages']_vars
  BY FinishStep
<1> QED
  BY <1>1, Invariance, PTL DEF Spec, DoneIsApproved

(* The checkout of a live run goes to no other run.                         *)
THEOREM LiveRunKeepsCheckout == Spec => CheckoutIsKept
<1>1. IInv /\ HolderInv /\ [Next]_vars =>
        [issue.checkout \in Runs /\ run[issue.checkout] = "live" =>
           issue'.checkout \in {issue.checkout, NoRun}]_vars
  BY CheckoutStep
<1> QED
  BY <1>1, Invariance, HolderInvariance, PTL DEF Spec, CheckoutIsKept
=============================================================================
