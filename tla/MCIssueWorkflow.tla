-------------------------- MODULE MCIssueWorkflow --------------------------
(* An agent that works and takes part in the first stage, a user that        *)
(* reviews, a policy of two stages that is shortened and removed.            *)
EXTENDS IssueWorkflow, TLC

Review   == [id |-> 1, participants |-> <<"qa", "coder">>]
Approval == [id |-> 2, participants |-> <<"qa">>]
LongShortOrNone == {<<>>, <<Review, Approval>>, <<Approval>>}

Ask(status, policy) ==
    [status : status, assignee : {Keep}, state : {Keep}, policy : policy]
AskStatusOrPolicy == Ask({"in_progress", "done"}, {Keep}) \cup Ask({Keep}, {<<>>, <<Approval>>})

AllByCoder == [r \in Runs |-> "coder"]
OpenOrOwn  == {{"todo", "in_review"}, {"in_progress"}}

EitherSlot == Permutations(Slots)
=============================================================================
