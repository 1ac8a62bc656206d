---------------------------- MODULE JoinRequests ----------------------------
(***************************************************************************)
(* Joining a company of the TypeScript server (server/src/routes/access.ts *)
(* with services/access.ts and services/agents.ts): an invite is accepted, *)
(* which makes a join request; the board approves or rejects the request;  *)
(* an agent that has been let in exchanges the one-time secret of its      *)
(* request for its first API key.                                          *)
(*                                                                         *)
(* A handler awaits every statement on the database, and other handlers    *)
(* run meanwhile: a step is one statement (or one transaction), with the   *)
(* checks made on what it returned.  Nothing but the rows is shared.       *)
(* Invites allow both kinds of joins, and callers have the permission the  *)
(* route asks for: a request refused for that changes nothing.             *)
(***************************************************************************)
EXTENDS Naturals, FiniteSets

CONSTANTS
    Invites,        \* the invites of the company; a request is named by its invite
    Users,          \* the people who may accept one
    Agents,         \* bound: agents ever created by an approval
    KeyIds,         \* bound: agent API keys ever created
    Versions,       \* the adapter defaults a caller may send
    Handlers,       \* bound: HTTP requests in flight
    MaxRequests,    \* bound: HTTP requests ever made
    NoInvite, NoAgent, NoVersion, Operator  \* "none"; Operator creates keys by hand

ASSUME ConstantsAssumption ==
    /\ MaxRequests \in Nat
    /\ NoInvite \notin Invites
    /\ NoAgent \notin Users \cup Agents
    /\ NoVersion \notin Versions
    /\ Operator \notin Invites
    /\ Users \cap Agents = {}
    /\ Users \cap {"gateway", "process", "none"} = {}

AgentKinds == {"gateway", "process"}    \* adapterType: openclaw_gateway, any other
Kinds == Users \cup AgentKinds          \* a human request is made by its user
Principals == Users \cup Agents

VARIABLES
    invite,     \* table invites: invite[i].accepted, invite[i].revoked
    age,        \* of an invite: 0 valid, 1 expired, 2 its claim secret expired too
    request,    \* table join_requests, unique by invite; status "none": no row
    agent,      \* table agents, as far as approvals create them
    members,    \* principals with an active company_memberships row
    granted,    \* table principal_permission_grants: the invites whose grants
                \* a principal has
    keys,       \* table agent_api_keys
    handler,    \* the HTTP requests in flight
    made        \* HTTP requests made so far (bound)

vars == <<invite, age, request, agent, members, granted, keys, handler, made>>
tables == <<invite, request, agent, members, granted, keys>>

Statuses == {"none", "pending_approval", "approved", "rejected"}
Request == [status : Statuses, kind : Kinds \cup {"none"},
            payload : Versions \cup {NoVersion},
            agent : Agents \cup {NoAgent}, consumed : BOOLEAN]
NoRequest == [status |-> "none", kind |-> "none", payload |-> NoVersion,
              agent |-> NoAgent, consumed |-> FALSE]
Steps == {"idle", "accept", "replay", "push", "create", "member", "clear",
          "grant", "approve", "reject", "findKey", "consume", "createKey", "revoke"}
Idle == [pc |-> "idle", invite |-> NoInvite, kind |-> "none",
         payload |-> NoVersion, agent |-> NoAgent, cleared |-> {}]

Init ==
    /\ invite = [i \in Invites |-> [accepted |-> FALSE, revoked |-> FALSE]]
    /\ age = [i \in Invites |-> 0]
    /\ request = [i \in Invites |-> NoRequest]
    /\ agent = [a \in Agents |-> [status |-> "none", config |-> NoVersion]]
    /\ members = {}
    /\ granted = [p \in Principals |-> {}]
    /\ keys = {}
    /\ handler = [h \in Handlers |-> Idle]
    /\ made = 0

-----------------------------------------------------------------------------
\* A handler that has not begun makes its first reads and goes on as `next`.
Begin(h, next) ==
    /\ handler[h].pc = "idle"
    /\ made < MaxRequests
    /\ made' = made + 1
    /\ handler' = [handler EXCEPT ![h] = next]
    /\ UNCHANGED <<tables, age>>

Goto(h, pc) == handler' = [handler EXCEPT ![h].pc = pc]
Done(h) == handler' = [handler EXCEPT ![h] = Idle]

-----------------------------------------------------------------------------
(* POST /invites/:token/accept                                              *)

\* The invite is read, and its request if it has been accepted: an OpenClaw
\* gateway may send its defaults again.
ReadInvite(h, i, kind, version) ==
    LET replays == /\ kind = "gateway"
                   /\ request[i].kind = "gateway"
                   /\ request[i].status \in {"pending_approval", "approved"}
    IN  /\ age[i] = 0
        /\ ~invite[i].revoked
        /\ invite[i].accepted => replays
        /\ Begin(h, [pc |-> IF invite[i].accepted THEN "replay" ELSE "accept",
                     invite |-> i, kind |-> kind, agent |-> NoAgent, cleared |-> {},
                     payload |-> IF kind \in Users THEN NoVersion ELSE version])

\* One transaction: the invite is marked, unless it has been meanwhile, and the
\* row inserted; nothing happens if the invite has its row already.
AcceptInvite(h) ==
    LET i == handler[h].invite
    IN  /\ handler[h].pc = "accept"
        /\ IF request[i].status = "none"
           THEN /\ invite' = IF invite[i].accepted \/ invite[i].revoked THEN invite
                             ELSE [invite EXCEPT ![i].accepted = TRUE]
                /\ request' = [request EXCEPT ![i] =
                     [NoRequest EXCEPT !.status = "pending_approval",
                         !.kind = handler[h].kind, !.payload = handler[h].payload]]
           ELSE UNCHANGED <<invite, request>>
        /\ Done(h)
        /\ UNCHANGED <<age, agent, members, granted, keys, made>>

\* The row gets the new defaults; an agent that is in already is told next.
Replay(h) ==
    LET i == handler[h].invite
    IN  /\ handler[h].pc = "replay"
        /\ request' = [request EXCEPT ![i].payload = handler[h].payload]
        /\ IF request[i].status = "approved" /\ request[i].agent # NoAgent
           THEN handler' = [handler EXCEPT ![h].pc = "push",
                                           ![h].agent = request[i].agent]
           ELSE Done(h)
        /\ UNCHANGED <<invite, age, agent, members, granted, keys, made>>

PushConfig(h) ==
    /\ handler[h].pc = "push"
    /\ agent' = [agent EXCEPT ![handler[h].agent].config = handler[h].payload]
    /\ Done(h)
    /\ UNCHANGED <<invite, age, request, members, granted, keys, made>>

-----------------------------------------------------------------------------
(* POST /companies/:companyId/join-requests/:requestId/approve and /reject  *)

ReadForApproval(h, i) ==
    /\ request[i].status = "pending_approval"
    /\ Begin(h, [pc |-> IF request[i].kind \in Users THEN "member" ELSE "create",
                 invite |-> i, kind |-> request[i].kind,
                 payload |-> request[i].payload, agent |-> NoAgent, cleared |-> {}])

\* Mutant: the request is given its agent when the agent is made.
CreateNamedAgent(h) ==
    /\ handler[h].pc = "create"
    /\ \E a \in Agents :
        /\ agent[a].status = "none"
        /\ agent' = [agent EXCEPT ![a] = [status |-> "idle",
                                          config |-> handler[h].payload]]
        /\ request' = [request EXCEPT ![handler[h].invite].agent = a]
        /\ handler' = [handler EXCEPT ![h].pc = "member", ![h].agent = a]
    /\ UNCHANGED <<invite, age, members, granted, keys, made>>

CreateAgent(h) ==
    /\ handler[h].pc = "create"
    /\ \E a \in Agents :
        /\ agent[a].status = "none"
        /\ agent' = [agent EXCEPT ![a] = [status |-> "idle",
                                          config |-> handler[h].payload]]
        /\ handler' = [handler EXCEPT ![h].pc = "member", ![h].agent = a]
    /\ UNCHANGED <<invite, age, request, members, granted, keys, made>>

Principal(row) == IF row.kind \in Users THEN row.kind ELSE row.agent

EnsureMembership(h) ==
    /\ handler[h].pc = "member"
    /\ members' = members \cup {Principal(handler[h])}
    /\ Goto(h, "clear")
    /\ UNCHANGED <<invite, age, request, agent, granted, keys, made>>

\* One transaction sets the grants.  Its first statement deletes the rows it
\* sees; nobody else sees them go before the commit.
ClearGrants(h) ==
    /\ handler[h].pc = "clear"
    /\ handler' = [handler EXCEPT ![h].pc = "grant",
                                  ![h].cleared = granted[Principal(handler[h])]]
    /\ UNCHANGED <<tables, age, made>>

\* Its second inserts those of the invite, and it commits.  Rows another
\* transaction has committed meanwhile stay beside them; if one has the same key
\* the insert violates the unique index, which is Fail.
SetGrants(h) ==
    /\ handler[h].pc = "grant"
    /\ granted' = [granted EXCEPT ![Principal(handler[h])] =
                      (@ \ handler[h].cleared) \cup {handler[h].invite}]
    /\ Goto(h, "approve")
    /\ UNCHANGED <<invite, age, request, agent, members, keys, made>>

\* Written by id: the status is not looked at again.
Approve(h) ==
    /\ handler[h].pc = "approve"
    /\ request' = [request EXCEPT ![handler[h].invite].status = "approved",
                                  ![handler[h].invite].agent = handler[h].agent]
    /\ Done(h)
    /\ UNCHANGED <<invite, age, agent, members, granted, keys, made>>

ReadForRejection(h, i) ==
    /\ request[i].status = "pending_approval"
    /\ Begin(h, [Idle EXCEPT !.pc = "reject", !.invite = i])

Reject(h) ==
    /\ handler[h].pc = "reject"
    /\ request' = [request EXCEPT ![handler[h].invite].status = "rejected"]
    /\ Done(h)
    /\ UNCHANGED <<invite, age, agent, members, granted, keys, made>>

-----------------------------------------------------------------------------
(* POST /join-requests/:requestId/claim-api-key, by the holder of the secret *)

ReadForClaim(h, i) ==
    /\ request[i].kind \in AgentKinds
    /\ request[i].status = "approved"
    /\ request[i].agent # NoAgent
    /\ age[i] < 2
    /\ ~request[i].consumed
    /\ Begin(h, [Idle EXCEPT !.pc = "findKey", !.invite = i,
                             !.agent = request[i].agent])

FindKey(h) ==
    /\ handler[h].pc = "findKey"
    /\ IF \E k \in keys : k.agent = handler[h].agent
       THEN Done(h)
       ELSE Goto(h, "consume")
    /\ UNCHANGED <<tables, age, made>>

\* Mutant: the update is not conditional.
ConsumeAnySecret(h) ==
    /\ handler[h].pc = "consume"
    /\ request' = [request EXCEPT ![handler[h].invite].consumed = TRUE]
    /\ Goto(h, "createKey")
    /\ UNCHANGED <<invite, age, agent, members, granted, keys, made>>

\* update ... where claim_secret_consumed_at is null
ConsumeSecret(h) ==
    LET i == handler[h].invite
    IN  /\ handler[h].pc = "consume"
        /\ IF request[i].consumed
           THEN Done(h) /\ UNCHANGED request
           ELSE /\ request' = [request EXCEPT ![i].consumed = TRUE]
                /\ Goto(h, "createKey")
        /\ UNCHANGED <<invite, age, agent, members, granted, keys, made>>

NewKey(a, owner) ==
    \E id \in KeyIds \ {k.id : k \in keys} :
        keys' = keys \cup {[id |-> id, agent |-> a, owner |-> owner]}

CreateKey(h) ==
    /\ handler[h].pc = "createKey"
    /\ IF agent[handler[h].agent].status = "terminated"
       THEN UNCHANGED keys
       ELSE NewKey(handler[h].agent, handler[h].invite)
    /\ Done(h)
    /\ UNCHANGED <<invite, age, request, agent, members, granted, made>>

-----------------------------------------------------------------------------
(* POST /invites/:inviteId/revoke                                           *)

ReadForRevocation(h, i) ==
    /\ ~invite[i].accepted
    /\ ~invite[i].revoked
    /\ Begin(h, [Idle EXCEPT !.pc = "revoke", !.invite = i])

Revoke(h) ==
    /\ handler[h].pc = "revoke"
    /\ invite' = [invite EXCEPT ![handler[h].invite].revoked = TRUE]
    /\ Done(h)
    /\ UNCHANGED <<age, request, agent, members, granted, keys, made>>

-----------------------------------------------------------------------------
(* The surroundings.                                                        *)

\* A statement fails, the company has no active CEO for the new agent to report
\* to, or the server stops: what the handler has written stays.
Fail(h) ==
    /\ handler[h].pc # "idle"
    /\ Done(h)
    /\ UNCHANGED <<tables, age, made>>

\* The board creates a key of an agent by hand.
OperatorKey(a) ==
    /\ agent[a].status = "idle"
    /\ NewKey(a, Operator)
    /\ UNCHANGED <<invite, age, request, agent, members, granted, handler, made>>

Terminate(a) ==
    /\ agent[a].status = "idle"
    /\ agent' = [agent EXCEPT ![a].status = "terminated"]
    /\ UNCHANGED <<invite, age, request, members, granted, keys, handler, made>>

\* Ten minutes, then seven days.
Age(i) ==
    /\ age[i] < 2
    /\ age' = [age EXCEPT ![i] = @ + 1]
    /\ UNCHANGED <<tables, handler, made>>

Start(h) ==
    \E i \in Invites :
        \/ \E kind \in Kinds, version \in Versions : ReadInvite(h, i, kind, version)
        \/ ReadForApproval(h, i)
        \/ ReadForRejection(h, i)
        \/ ReadForClaim(h, i)
        \/ ReadForRevocation(h, i)

Continue(h) ==
    \/ AcceptInvite(h) \/ Replay(h) \/ PushConfig(h)
    \/ CreateAgent(h) \/ EnsureMembership(h)
    \/ ClearGrants(h) \/ SetGrants(h) \/ Approve(h) \/ Reject(h)
    \/ FindKey(h) \/ ConsumeSecret(h) \/ CreateKey(h)
    \/ Revoke(h)
    \/ Fail(h)

Next ==
    \/ \E h \in Handlers : Start(h) \/ Continue(h)
    \/ \E a \in Agents : OperatorKey(a) \/ Terminate(a)
    \/ \E i \in Invites : Age(i)

Spec == Init /\ [][Next]_vars

-----------------------------------------------------------------------------
(* Properties.                                                              *)

\* Every variable has its type.
TypeOK ==
    /\ invite \in [Invites -> [accepted : BOOLEAN, revoked : BOOLEAN]]
    /\ age \in [Invites -> 0..2]
    /\ request \in [Invites -> Request]
    /\ agent \in [Agents -> [status : {"none", "idle", "terminated"},
                             config : Versions \cup {NoVersion}]]
    /\ members \subseteq Principals
    /\ granted \in [Principals -> SUBSET Invites]
    /\ keys \subseteq [id : KeyIds, agent : Agents, owner : Invites \cup {Operator}]
    /\ handler \in [Handlers -> [pc : Steps, invite : Invites \cup {NoInvite},
                                 kind : Kinds \cup {"none"},
                                 payload : Versions \cup {NoVersion},
                                 agent : Agents \cup {NoAgent},
                                 cleared : SUBSET Invites]]
    /\ made \in 0..MaxRequests

\* An invite that is consumed has its join request, and a request stands for an
\* invite that was consumed or was revoked while it was being accepted: the
\* transaction (access.ts:2316) writes both rows or none, however many accept.
ConsumedInvite ==
    \A i \in Invites :
        /\ invite[i].accepted => request[i].status # "none"
        /\ request[i].status # "none" => invite[i].accepted \/ invite[i].revoked

\* A claim secret buys one API key: claims that run at the same time have all
\* read an unused secret and an agent without keys (access.ts:2823-2831), and
\* the conditional update (access.ts:2833) lets one of them through.
OneKeyPerSecret ==
    \A k1, k2 \in keys :
        k1.owner = k2.owner /\ k1.owner # Operator => k1 = k2

\* Principal p is in on invite i: a member, with the grants of that invite.  The
\* grants of a person are replaced when another request of theirs is approved.
IsIn(p, i) ==
    /\ p \in members
    /\ \/ i \in granted[p]
       \/ p \in Users /\ \E j \in granted[p] : request[j].kind = p

\* Whoever is let in is let in completely, whatever other decisions on the same
\* request or the same person were taken meanwhile (access.ts:2622-2707): an
\* approved request has made a member with the grants of its invite (or, for a
\* person, those of another invite they asked on), and so has every agent that
\* holds the key its request was exchanged for.
JoinedIsComplete ==
    /\ \A i \in Invites :
        request[i].status = "approved" => IsIn(Principal(request[i]), i)
    /\ \A k \in keys : k.owner # Operator => IsIn(k.agent, k.owner)
=============================================================================
