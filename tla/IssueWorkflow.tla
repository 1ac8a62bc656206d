---------------------------- MODULE IssueWorkflow ----------------------------
(***************************************************************************)
(* One issue of the Node server and the requests that change who works on   *)
(* it: PATCH /issues/:id with the transition of its execution policy, the   *)
(* checkout and the release by a run of an agent, the adoption of a         *)
(* checkout whose run is over, and the comment that reopens a closed issue. *)
(*                                                                          *)
(* A request reads the issue, decides, and writes later: other requests     *)
(* come in between.  A PATCH writes the fields it has decided on, whatever  *)
(* they are by then; a checkout is one conditional UPDATE.                  *)
(***************************************************************************)
EXTENDS Integers, Sequences, SequencesExt

CONSTANTS
    Agents, Users,   \* the principals: assignees, reviewers, approvers
    Runs,            \* heartbeat runs
    RunAgent,        \* whose they are
    Policies,        \* execution policies in use, sequences of stages
    Asks,            \* the fields that PATCHes ask to change
    CheckoutFrom,    \* the lists of expected statuses that callers send
    MaxRequests,     \* requests ever made
    Slots,           \* requests in flight at a time
    Nobody, Keep

Principals == Agents \cup Users
Someone    == Principals \cup {Nobody}
Statuses   == {"todo", "in_progress", "in_review", "done", "cancelled"}
Closed     == {"done", "cancelled"}
NoRun      == 0
NoStage    == 0


(* A stage has an id and its participants in order; no policy is <<>>.  A   *)
(* PATCH may ask for any fields but the execution state.                    *)
Stages == [id : Nat \ {NoStage}, participants : Seq(Principals) \ {<<>>}]

ASSUME WorkflowConstants ==
    /\ Agents \cap Users = {} /\ Nobody \notin Principals
    /\ Runs \subseteq Nat \ {NoRun} /\ RunAgent \in [Runs -> Agents]
    /\ Policies \subseteq Seq(Stages)
    /\ \A p \in Policies : IsInjective([k \in DOMAIN p |-> p[k].id])
    /\ Asks \subseteq [status : Statuses \cup {Keep}, assignee : Someone \cup {Keep},
                       state : {Keep}, policy : Policies \cup {Keep}]
    /\ Keep \notin Statuses /\ Keep \notin Someone /\ Keep \notin Policies
    /\ MaxRequests \in Nat

VARIABLES
    issue,      \* its row
    run,        \* which runs are live and which are over
    request,    \* the requests in flight
    sent,       \* how many were made, to bound them
    decisions   \* issue_execution_decisions

vars == <<issue, run, request, sent, decisions>>

NoState == [phase |-> "none", stage |-> NoStage, participant |-> Nobody,
            returnTo |-> Nobody, completed |-> {}]
Idle    == [at |-> "idle"]

Init ==
    /\ issue \in [status : {"todo"}, assignee : Someone, policy : Policies, state : {NoState},
                  checkout : {NoRun}, owner : {NoRun}]
    /\ run = [r \in Runs |-> "none"]
    /\ request = [k \in Slots |-> Idle]
    /\ sent = 0
    /\ decisions = <<>>

-----------------------------------------------------------------------------
(* issue-execution-policy.ts.  A patch names the fields it changes. *)

NoPatch == [status |-> Keep, assignee |-> Keep, state |-> Keep, policy |-> Keep]

StagesOf(policy)   == {policy[k].id : k \in DOMAIN policy}
StageOf(policy, s) == policy[CHOOSE k \in DOMAIN policy : policy[k].id = s]
Takes(stage, p)    == p \in ToSet(stage.participants)

(* nextPendingStage: the first stage of the policy that is not completed.   *)
Remaining(policy, completed) == {k \in DOMAIN policy : policy[k].id \notin completed}
First(policy, remaining)     == policy[Min(remaining)]

(* selectStageParticipant: the preferred one, else the first; Nobody if     *)
(* only the excluded one takes part.                                        *)
Select(stage, preferred, exclude) ==
    LET eligible == {k \in DOMAIN stage.participants : stage.participants[k] # exclude} IN
    IF eligible = {} THEN Nobody
    ELSE IF preferred # exclude /\ Takes(stage, preferred) THEN preferred
    ELSE stage.participants[Min(eligible)]

Or(p, q) == IF p # Nobody THEN p ELSE q

Pend(patch, st, stage, participant, returnTo) ==
    [patch EXCEPT !.status = "in_review", !.assignee = participant,
                  !.state = [st EXCEPT !.phase = "pending", !.stage = stage.id,
                                       !.participant = participant, !.returnTo = returnTo]]

(* clearExecutionStatePatch, and the removal of the policy: the issue goes  *)
(* back to whom it came from.                                               *)
Clear(patch, back) ==
    IF back /\ issue.status = "in_review" /\ issue.state.returnTo # Nobody
    THEN [patch EXCEPT !.state = NoState, !.status = "in_progress", !.assignee = issue.state.returnTo]
    ELSE [patch EXCEPT !.state = NoState]

Outcome(patch)           == [refused |-> FALSE, patch |-> patch, decision |-> <<>>]
Decided(patch, what, by) == [refused |-> FALSE, patch |-> patch,
                             decision |-> <<[stage |-> issue.state.stage, outcome |-> what, actor |-> by]>>]
Refused                  == [refused |-> TRUE, patch |-> NoPatch, decision |-> <<>>]

Approve(policy, asked, actor, assign) ==
    LET st == issue.state
        completed == [st EXCEPT !.phase = "completed", !.stage = NoStage, !.participant = Nobody,
                                !.completed = @ \cup {st.stage}]
        left == Remaining(policy, completed.completed)
        next == Select(First(policy, left), assign, st.returnTo)
    IN  IF left = {} THEN Decided([asked EXCEPT !.state = completed], "approved", actor)
        ELSE IF next = Nobody THEN Refused
        ELSE Decided(Pend(asked, completed, First(policy, left), next, Or(st.returnTo, Or(issue.assignee, actor))),
                     "approved", actor)

(* Mutant: the status of the stage is written as that of the issue. *)
RequestChangesAsStatus(asked, actor) ==
    LET st == issue.state IN
    IF st.returnTo = Nobody THEN Refused
    ELSE Decided([asked EXCEPT !.status = "changes_requested", !.assignee = st.returnTo,
                               !.state = [st EXCEPT !.phase = "changes_requested"]],
                 "changes_requested", actor)

RequestChanges(asked, actor) ==
    LET st == issue.state IN
    IF st.returnTo = Nobody THEN Refused
    ELSE Decided([asked EXCEPT !.status = "in_progress", !.assignee = st.returnTo,
                               !.state = [st EXCEPT !.phase = "changes_requested"]],
                 "changes_requested", actor)

(* Mutant: anybody may decide on the stage. *)
AtStageByAnybody(policy, asked, actor, comment) ==
    LET st == issue.state
        assign == IF asked.assignee = Keep THEN Nobody ELSE asked.assignee
    IN  IF asked.status \in {Keep, "in_review"} THEN Outcome(asked)
        ELSE IF ~comment THEN Refused
        ELSE IF asked.status = "done" THEN Approve(policy, asked, actor, assign)
        ELSE RequestChanges(asked, actor)

(* A request about an issue whose stage is pending.                         *)
AtStage(policy, asked, actor, comment) ==
    LET st == issue.state
        stage == StageOf(policy, st.stage)
        assign == IF asked.assignee = Keep THEN Nobody ELSE asked.assignee
        returnTo == Or(st.returnTo, Or(issue.assignee, actor))
        other == Select(stage, Or(assign, st.participant), st.returnTo)
        advances == \/ asked.status \notin {Keep, "in_review"}
                    \/ asked.assignee # Keep /\ assign # st.participant
        drifted == issue.status # "in_review" \/ issue.assignee # st.participant
    IN  IF ~Takes(stage, st.participant)
        THEN Outcome(IF other = Nobody THEN Clear(asked, asked.status = Keep)
                     ELSE Pend(asked, st, stage, other, returnTo))
        ELSE IF actor = st.participant /\ asked.status \notin {Keep, "in_review"}
        THEN IF ~comment THEN Refused
             ELSE IF asked.status = "done" THEN Approve(policy, asked, actor, assign)
             ELSE RequestChanges(asked, actor)
        ELSE IF drifted THEN Outcome(Pend(asked, st, stage, st.participant, returnTo))
        ELSE IF advances THEN Refused
        ELSE Outcome(asked)

(* Mutant: only a request to review opens a stage. *)
OpenStageForReview(policy, asked) ==
    LET st == issue.state
        left == Remaining(policy, st.completed)
        returnTo == Or(st.returnTo, issue.assignee)
        participant == IF left = {} THEN Nobody ELSE Select(First(policy, left), Nobody, returnTo)
    IN  IF asked.status # "in_review" \/ left = {} THEN Outcome(asked)
        ELSE IF participant = Nobody THEN Refused
        ELSE Outcome(Pend(asked, st, First(policy, left), participant, returnTo))

(* A request to finish, or to review, opens the next stage.                 *)
OpenStage(policy, asked) ==
    LET st == issue.state
        again == st.phase = "changes_requested" /\ st.stage \in StagesOf(policy)
        left == Remaining(policy, st.completed)
        stage == IF again THEN StageOf(policy, st.stage) ELSE First(policy, left)
        assign == IF asked.assignee = Keep THEN Nobody ELSE asked.assignee
        preferred == IF st.phase = "changes_requested" THEN Or(assign, st.participant) ELSE assign
        returnTo == Or(st.returnTo, issue.assignee)
        participant == Select(stage, preferred, returnTo)
    IN  IF asked.status \notin {"done", "in_review"} \/ (~again /\ left = {}) THEN Outcome(asked)
        ELSE IF participant = Nobody THEN Refused
        ELSE Outcome(Pend(asked, st, stage, participant, returnTo))

(* applyIssueExecutionPolicyTransition: what becomes of the fields a PATCH  *)
(* asks for, under the policy it leaves.                                    *)
Transition(policy, asked, actor, comment) ==
    LET st == issue.state IN
    IF policy = <<>>
    THEN Outcome(IF st = NoState THEN asked ELSE Clear(asked, TRUE))
    ELSE IF issue.status \in Closed /\ asked.status \notin Closed \cup {Keep}
    THEN Outcome([asked EXCEPT !.state = NoState])
    ELSE IF st.stage # NoStage /\ st.stage \notin StagesOf(policy)
    THEN Outcome(Clear(asked, asked.status = Keep))
    ELSE IF st.stage # NoStage /\ st.phase = "pending"
    THEN AtStage(policy, asked, actor, comment)
    ELSE OpenStage(policy, asked)

-----------------------------------------------------------------------------
Send(k, what) ==
    /\ request[k] = Idle /\ sent < MaxRequests
    /\ request' = [request EXCEPT ![k] = what]
    /\ sent' = sent + 1

Answer(k) == request' = [request EXCEPT ![k] = Idle]

(* An agent acts through a live run of its own, a user through none.        *)
Acts(actor, r) ==
    \/ actor \in Users /\ r = NoRun
    \/ r \in Runs /\ run[r] = "live" /\ actor = RunAgent[r]

(* An agent that works on the issue must own its checkout before it goes on  *)
(* with a PATCH or a release.                                               *)
Works(actor) == issue.status = "in_progress" /\ issue.assignee = actor

Owning(actor, next) ==
    IF actor \in Agents /\ Works(actor) THEN "own" ELSE next

Onward(k) ==
    IF request[k].next = "refuse" THEN Answer(k)
    ELSE request' = [request EXCEPT ![k].at = request[k].next]

(* PATCH: the issue is read and the transition decided on what was read.    *)
PatchRead(k, r, actor, asked, comment) ==
    LET policy == IF asked.policy = Keep THEN issue.policy ELSE asked.policy
        result == Transition(policy, asked, actor, comment)
        next == IF result.refused THEN "refuse" ELSE "write"
    IN  /\ Acts(actor, r)
        /\ Owning(actor, next) # "refuse"
        /\ Send(k, [at |-> Owning(actor, next), next |-> next, run |-> r, actor |-> actor,
                    seen |-> policy, patch |-> result.patch, decision |-> result.decision])
        /\ UNCHANGED <<issue, run, decisions>>

(* assertCheckoutOwner, with adoptStaleCheckoutRun.                         *)
(* Mutant: any checkout of another run is stale. *)
OverOrNot(r) == r \in Runs /\ run[r] # "none"

Over(r) == r \in Runs /\ run[r] = "over"

Adopted(r) == [issue EXCEPT !.checkout = r, !.owner = r]

AssertOwner(k) ==
    LET q == request[k] IN
    /\ q.at = "own"
    /\ IF Works(q.actor) /\ issue.checkout = q.run
       THEN Onward(k) /\ UNCHANGED issue
       ELSE IF Works(q.actor) /\ Over(issue.checkout)
       THEN Onward(k) /\ issue' = Adopted(q.run)
       ELSE Answer(k) /\ UNCHANGED issue
    /\ UNCHANGED <<run, sent, decisions>>

(* svc.update: whoever leaves in_progress, or changes hands, gives up the   *)
(* checkout and the execution lock.                                         *)
Patched(p) ==
    LET status == IF p.status = Keep THEN issue.status ELSE p.status
        assignee == IF p.assignee = Keep THEN issue.assignee ELSE p.assignee
        gives == p.status \notin {Keep, "in_progress"} \/ assignee # issue.assignee
    IN  [status |-> status, assignee |-> assignee,
         policy |-> IF p.policy = Keep THEN issue.policy ELSE p.policy,
         state |-> IF p.state = Keep THEN issue.state ELSE p.state,
         checkout |-> IF gives THEN NoRun ELSE issue.checkout,
         owner |-> IF gives THEN NoRun ELSE issue.owner]

(* Mutant: the decision is not recorded with the issue. *)
PatchWriteUndecided(k) ==
    LET q == request[k]
        next == Patched(q.patch)
    IN  /\ q.at = "write"
        /\ issue' = IF q.patch.status = "in_progress" /\ next.assignee = Nobody THEN issue ELSE next
        /\ Answer(k)
        /\ UNCHANGED <<run, sent, decisions>>

PatchWrite(k) ==
    LET q == request[k]
        next == Patched(q.patch)
    IN  /\ q.at = "write"
        /\ IF q.patch.status = "in_progress" /\ next.assignee = Nobody
           THEN UNCHANGED <<issue, decisions>>
           ELSE issue' = next /\ decisions' = decisions \o q.decision
        /\ Answer(k)
        /\ UNCHANGED <<run, sent>>

-----------------------------------------------------------------------------
(* checkout, by a run of the agent or by a user on its behalf: a lock whose  *)
(* run is not live is cleared, then one UPDATE takes the issue; failing     *)
(* that, the run's own or a stale checkout is adopted.                      *)
CheckoutClear(k, r, agent, expected) ==
    /\ r # NoRun => Acts(agent, r)
    /\ Send(k, [at |-> "take", run |-> r, actor |-> agent, expected |-> expected])
    /\ issue' = IF Over(issue.owner) THEN [issue EXCEPT !.owner = NoRun] ELSE issue
    /\ UNCHANGED <<run, decisions>>

CheckoutTake(k) ==
    LET q == request[k]
        free == issue.owner \in {NoRun, q.run}
        taken == [Adopted(q.run) EXCEPT !.status = "in_progress", !.assignee = q.actor]
        adopts == /\ q.run # NoRun /\ Works(q.actor)
                  /\ (issue.checkout = NoRun /\ free) \/ Over(issue.checkout)
    IN  /\ q.at = "take"
        /\ issue' =
             IF /\ issue.status \in q.expected /\ free
                /\ \/ issue.assignee \notin Agents
                   \/ issue.assignee = q.actor /\ issue.checkout \in {NoRun, q.run}
             THEN taken
             ELSE IF adopts THEN Adopted(q.run)
             ELSE issue
        /\ Answer(k)
        /\ UNCHANGED <<run, sent, decisions>>

(* release: the issue is read, the checkout asserted, the issue read again  *)
(* and checked, then written without a condition; its policy, its execution *)
(* lock and a user it is assigned to are left alone.                        *)
ReleaseRead(k, r, actor) ==
    /\ Acts(actor, r)
    /\ Send(k, [at |-> Owning(actor, "check"), next |-> "check", run |-> r, actor |-> actor])
    /\ UNCHANGED <<issue, run, decisions>>

ReleaseCheck(k) ==
    LET q == request[k] IN
    /\ q.at = "check"
    /\ IF q.actor \in Agents =>
              /\ issue.assignee \notin Agents \ {q.actor}
              /\ Works(q.actor) => issue.checkout \in {NoRun, q.run}
       THEN request' = [request EXCEPT ![k].at = "release"]
       ELSE Answer(k)
    /\ UNCHANGED <<issue, run, sent, decisions>>

ReleaseWrite(k) ==
    /\ request[k].at = "release"
    /\ issue' = [issue EXCEPT !.status = "todo", !.checkout = NoRun,
                              !.assignee = IF @ \in Users THEN @ ELSE Nobody]
    /\ Answer(k)
    /\ UNCHANGED <<run, sent, decisions>>

(* A comment on a closed issue that asks to reopen it.                      *)
CommentReopens ==
    /\ issue.status \in Closed /\ sent < MaxRequests
    /\ issue' = [issue EXCEPT !.status = "todo", !.checkout = NoRun, !.owner = NoRun]
    /\ sent' = sent + 1
    /\ UNCHANGED <<run, request, decisions>>

-----------------------------------------------------------------------------
(* The runs, as the heartbeat service moves them: one that starts stamps    *)
(* the lock if it is free; one that is over lets it go, later.              *)
RunStarts(r) ==
    /\ run[r] = "none"
    /\ run' = [run EXCEPT ![r] = "live"]
    /\ issue' = IF issue.owner = NoRun THEN [issue EXCEPT !.owner = r] ELSE issue
    /\ UNCHANGED <<request, sent, decisions>>

RunEnds(r) ==
    /\ run[r] = "live"
    /\ run' = [run EXCEPT ![r] = "over"]
    /\ UNCHANGED <<issue, request, sent, decisions>>

LockReleased(r) ==
    /\ run[r] = "over" /\ issue.owner = r
    /\ issue' = [issue EXCEPT !.owner = NoRun]
    /\ UNCHANGED <<run, request, sent, decisions>>

Next ==
    \/ CommentReopens
    \/ \E k \in Slots, actor \in Principals, r \in Runs \cup {NoRun} :
         \/ \E asked \in Asks, comment \in BOOLEAN : PatchRead(k, r, actor, asked, comment)
         \/ ReleaseRead(k, r, actor)
    \/ \E k \in Slots, r \in Runs \cup {NoRun}, agent \in Agents, expected \in CheckoutFrom :
         CheckoutClear(k, r, agent, expected)
    \/ \E k \in Slots :
         \/ AssertOwner(k) \/ PatchWrite(k) \/ CheckoutTake(k)
         \/ ReleaseCheck(k) \/ ReleaseWrite(k)
    \/ \E r \in Runs : RunStarts(r) \/ RunEnds(r) \/ LockReleased(r)

Spec == Init /\ [][Next]_vars

-----------------------------------------------------------------------------
ApprovedStages == {d.stage : d \in {e \in ToSet(decisions) : e.outcome = "approved"}}

States == [phase : {"none", "pending", "changes_requested", "completed"}, stage : Nat,
           participant : Someone, returnTo : Someone, completed : SUBSET Nat]

(* The type of the issue, the runs and the decisions.                       *)
TypeOK ==
    /\ issue \in [status : Statuses, assignee : Someone, policy : Policies, state : States,
                  checkout : Runs \cup {NoRun}, owner : Runs \cup {NoRun}]
    /\ run \in [Runs -> {"none", "live", "over"}]
    /\ sent \in 0..MaxRequests
    /\ decisions \in Seq([stage : Nat, outcome : {"approved", "changes_requested"}, actor : Principals])

(* Every stage the execution state calls completed was approved in a        *)
(* decision on record, whatever stale patch was written last.               *)
AuditTrail == issue.state.completed \subseteq ApprovedStages

(* Every decision was made by a participant of its stage, although PATCHes  *)
(* by anyone, policy edits and reassignments come in between.               *)
DecidedByParticipant ==
    \A d \in ToSet(decisions) :
      \E p \in Policies : d.stage \in StagesOf(p) /\ Takes(StageOf(p, d.stage), d.actor)

(* A PATCH that closes the issue as done finds, or adds, an approval of     *)
(* every stage of the policy it has read; unless it clears the execution    *)
(* state, because the stage it is at has been edited out of the policy, or  *)
(* nobody is left to take it.                                               *)
Finishes(k) ==
    request[k].at = "write" /\ request'[k] = Idle /\ issue.status # "done" /\ issue'.status = "done"
DoneIsApproved ==
    [][\A k \in Slots : Finishes(k) /\ request[k].patch.state # NoState =>
         StagesOf(request[k].seen) \subseteq ApprovedStages']_vars

(* Atomic checkout: the checkout of a live run goes to no other run.  It is *)
(* given up when the issue is released, reassigned or leaves in_progress.   *)
CheckoutIsKept ==
    [][issue.checkout \in Runs /\ run[issue.checkout] = "live" =>
         issue'.checkout \in {issue.checkout, NoRun}]_vars

(* "the runtime enforces review and approval stages automatically"          *)
(* (docs/guides/execution-policy.md:3): an issue with a policy is closed as *)
(* done by a decision only.                                                 *)
DoneByDecision ==
    [][issue'.status = "done" /\ issue.status # "done" /\ issue'.policy # <<>>
         => decisions' # decisions]_vars
==============================================================================
