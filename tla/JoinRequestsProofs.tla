------------------------- MODULE JoinRequestsProofs -------------------------
(***************************************************************************)
(* Proofs about JoinRequests, for every set of invites, users, agents,     *)
(* handlers and keys: one claim secret buys one key, a consumed invite has *)
(* its request, and whoever has been let in is a member with its grants.   *)
(***************************************************************************)
EXTENDS JoinRequests, TLAPS

USE ConstantsAssumption

-----------------------------------------------------------------------------
(* The rows a step writes, and what a handler knows at each of its steps.   *)

HandlerType == [pc : Steps, invite : Invites \cup {NoInvite},
                kind : Kinds \cup {"none"}, payload : Versions \cup {NoVersion},
                agent : Agents \cup {NoAgent}, cleared : SUBSET Invites]

\* A handler past its first reads has an invite, and its row exists unless the
\* handler is the one that makes it or withdraws the invite.
HasRow(h) ==
    /\ handler[h].pc # "idle" => handler[h].invite \in Invites
    /\ handler[h].pc \notin {"idle", "accept", "revoke"} =>
          request[handler[h].invite].status # "none"
    /\ handler[h].pc \in {"accept", "create", "member", "clear", "grant",
                         "approve"} => handler[h].kind \in Kinds
    /\ handler[h].pc \in {"push", "findKey", "consume", "createKey"} =>
          handler[h].agent \in Agents

HandlersHaveRows == \A h \in Handlers : HasRow(h)

\* A row that does not exist is blank, one that does has its kind.
RowsAreWhole ==
    \A i \in Invites :
        IF request[i].status = "none" THEN request[i] = NoRequest
        ELSE request[i].kind \in Kinds

\* Who is in on which invite.
Inside == {x \in Principals \X Invites : IsIn(x[1], x[2])}

\* JoinedIsComplete, said of that set.
Complete ==
    /\ \A i \in Invites :
        request[i].status = "approved" => <<Principal(request[i]), i>> \in Inside
    /\ \A k \in keys : k.owner # Operator => <<k.agent, k.owner>> \in Inside

\* An approval knows whom it lets in, and what it has already done for them.
LetsIn(h) ==
    /\ handler[h].pc \in {"create", "member", "clear", "grant", "approve"} =>
          handler[h].kind = request[handler[h].invite].kind
    /\ handler[h].pc \in {"member", "clear", "grant", "approve"} =>
          Principal(handler[h]) \in Principals
    /\ handler[h].pc \in {"clear", "grant", "approve"} =>
          Principal(handler[h]) \in members
    /\ handler[h].pc = "approve" =>
          <<Principal(handler[h]), handler[h].invite>> \in Inside

ApprovalsInOrder == \A h \in Handlers : LetsIn(h)

\* An agent is let in by the handler that has made it and by no other, so that
\* nobody replaces its grants.
LetsAgentIn(h) ==
    /\ handler[h].pc \in {"member", "clear", "grant", "approve"}
    /\ handler[h].kind \notin Users

NewAgents ==
    /\ \A a \in Agents :
          agent[a].status = "none" =>
             /\ granted[a] = {}
             /\ \A h \in Handlers : LetsAgentIn(h) => handler[h].agent # a
    /\ \A h \in Handlers :
          LetsAgentIn(h) /\ handler[h].pc # "approve" => granted[handler[h].agent] = {}
    /\ \A h1, h2 \in Handlers :
          /\ LetsAgentIn(h1)
          /\ LetsAgentIn(h2)
          /\ handler[h1].agent = handler[h2].agent
          => h1 = h2

\* A claim is made for an agent that is in, by one handler at a time once the
\* secret is used up.
ClaimsInOrder ==
    /\ \A h \in Handlers :
          /\ handler[h].pc \in {"findKey", "consume", "createKey"} =>
                <<handler[h].agent, handler[h].invite>> \in Inside
          /\ handler[h].pc = "createKey" =>
                /\ request[handler[h].invite].consumed
                /\ \A k \in keys : k.owner # handler[h].invite
    /\ \A h1, h2 \in Handlers :
          /\ handler[h1].pc = "createKey"
          /\ handler[h2].pc = "createKey"
          /\ handler[h1].invite = handler[h2].invite
          => h1 = h2
    /\ \A k \in keys : k.owner # Operator => request[k.owner].consumed

IInv ==
    /\ TypeOK
    /\ HandlersHaveRows
    /\ RowsAreWhole
    /\ ApprovalsInOrder
    /\ NewAgents
    /\ ClaimsInOrder
    /\ ConsumedInvite
    /\ OneKeyPerSecret
    /\ Complete

-----------------------------------------------------------------------------
(* Who is in stays in.                                                      *)

\* Nobody leaves while memberships and grants are only added, and rows keep
\* their kinds.
LEMMA InsideGrows ==
    ASSUME IInv, members \subseteq members',
           \A p \in Principals : granted[p] \subseteq granted'[p],
           \A j \in Invites : request[j].kind \in Kinds => request'[j].kind = request[j].kind
    PROVE  Inside \subseteq Inside'
<1>1. granted \in [Principals -> SUBSET Invites]
  BY DEF IInv, TypeOK
<1> SUFFICES ASSUME NEW p \in Principals, NEW i \in Invites, IsIn(p, i)
             PROVE  IsIn(p, i)'
  BY DEF Inside
<1>2. CASE i \in granted[p]
  BY <1>2 DEF IsIn
<1>3. CASE p \in Users /\ \E j \in granted[p] : request[j].kind = p
  <2>1. PICK j \in granted[p] : request[j].kind = p
    BY <1>3
  <2>2. j \in Invites /\ j \in granted'[p] /\ request'[j].kind = p
    BY <1>1, <1>3, <2>1 DEF Kinds
  <2> QED
    BY <1>3, <2>2 DEF IsIn
<1> QED
  BY <1>2, <1>3 DEF IsIn

LEMMA SameInside ==
    ASSUME UNCHANGED <<members, granted, request>>
    PROVE  Inside' = Inside
BY DEF Inside, IsIn

LEMMA InsideIsIn ==
    ASSUME NEW p, NEW i
    PROVE  <<p, i>> \in Inside <=> p \in Principals /\ i \in Invites /\ IsIn(p, i)
BY DEF Inside

\* A handler that lets no agent in by its step leaves the agents to their makers.
LEMMA OthersLetIn ==
    ASSUME IInv, NEW h \in Handlers, UNCHANGED granted,
           \A a \in Agents : agent'[a].status = "none" => agent[a].status = "none",
           \A g \in Handlers \ {h} : handler'[g] = handler[g],
           LetsAgentIn(h)' =>
               /\ LetsAgentIn(h)
               /\ handler[h].pc # "approve"
               /\ handler'[h].agent = handler[h].agent
    PROVE  NewAgents'
<1>1. ASSUME NEW g \in Handlers, LetsAgentIn(g)'
      PROVE  /\ LetsAgentIn(g)
             /\ handler'[g].agent = handler[g].agent
             /\ handler'[g].pc # "approve" => handler[g].pc # "approve"
  <2>1. CASE g = h
    BY <1>1, <2>1
  <2>2. CASE g # h
    BY <1>1, <2>2 DEF LetsAgentIn
  <2> QED
    BY <2>1, <2>2
<1> HIDE DEF LetsAgentIn
<1> QED
  BY <1>1 DEF IInv, NewAgents

-----------------------------------------------------------------------------
(* Types.                                                                   *)

LEMMA IdleType == Idle \in HandlerType
BY DEF Idle, HandlerType, Steps

LEMMA NoRequestType == NoRequest \in Request
BY DEF NoRequest, Request, Statuses

\* Every variable has its type (TypeOK), from the first state on.
LEMMA TypeInit == Init => TypeOK
BY IdleType, NoRequestType DEF Init, TypeOK, HandlerType, Statuses

\* What a first read leaves behind.
LEMMA BeginType ==
    ASSUME TypeOK, NEW h \in Handlers, NEW next \in HandlerType, Begin(h, next)
    PROVE  TypeOK'
BY DEF TypeOK, Begin, tables, HandlerType

LEMMA DoneType ==
    ASSUME TypeOK, NEW h \in Handlers, Done(h)
    PROVE  /\ handler' \in [Handlers -> HandlerType]
           /\ handler'[h] = Idle
           /\ \A g \in Handlers \ {h} : handler'[g] = handler[g]
BY IdleType DEF TypeOK, HandlerType, Done

LEMMA GotoType ==
    ASSUME TypeOK, NEW h \in Handlers, NEW pc \in Steps, Goto(h, pc)
    PROVE  /\ handler' \in [Handlers -> HandlerType]
           /\ handler'[h] = [handler[h] EXCEPT !.pc = pc]
           /\ \A g \in Handlers \ {h} : handler'[g] = handler[g]
<1> DEFINE row == [handler[h] EXCEPT !.pc = pc]
<1>1. handler \in [Handlers -> HandlerType]
  BY DEF TypeOK, HandlerType
<1>2. row \in HandlerType
  BY <1>1 DEF HandlerType
<1>3. handler'[h] = row /\ \A g \in Handlers \ {h} : handler'[g] = handler[g]
  BY <1>1 DEF Goto
<1>4. handler' = [g \in Handlers |-> handler'[g]]
  BY <1>1 DEF Goto
<1> HIDE DEF row
<1>5. \A g \in Handlers : handler'[g] \in HandlerType
  BY <1>1, <1>2, <1>3
<1> QED
  BY <1>3, <1>4, <1>5 DEF row

\* A handler that ends without writing anything disturbs nothing.
LEMMA DoneStep ==
    ASSUME IInv, NEW h \in Handlers, Done(h), UNCHANGED <<tables, age, made>>
    PROVE  IInv'
<1>1. /\ handler' \in [Handlers -> HandlerType]
      /\ handler'[h].pc = "idle"
      /\ \A g \in Handlers \ {h} : handler'[g] = handler[g]
  BY DoneType DEF IInv, Idle
<1>2. UNCHANGED <<invite, request, agent, members, granted, keys, age, made>>
  BY DEF tables
<1>3. TypeOK'
  BY <1>1, <1>2 DEF IInv, TypeOK, HandlerType
<1>4. HandlersHaveRows'
  BY <1>1, <1>2 DEF IInv, HandlersHaveRows, HasRow
<1>5. RowsAreWhole' /\ ConsumedInvite' /\ OneKeyPerSecret'
  BY <1>2 DEF IInv, RowsAreWhole, ConsumedInvite, OneKeyPerSecret
<1>9. Inside' = Inside
  BY <1>2, SameInside
<1>6. ApprovalsInOrder'
  BY <1>1, <1>2, <1>9 DEF IInv, ApprovalsInOrder, LetsIn, Principal
<1>7. ClaimsInOrder'
  BY <1>1, <1>2, <1>9 DEF IInv, ClaimsInOrder
<1>8. Complete'
  BY <1>2, <1>9 DEF IInv, Complete, Principal
<1>10. NewAgents'
  <2>1. ~LetsAgentIn(h)'
    BY <1>1 DEF LetsAgentIn
  <2> QED
    BY <1>1, <1>2, <2>1, OthersLetIn
<1> QED
  BY <1>3, <1>4, <1>5, <1>6, <1>7, <1>8, <1>10 DEF IInv

LEMMA AcceptInviteStep ==
    ASSUME IInv, NEW h \in Handlers, AcceptInvite(h)
    PROVE  IInv'
<1> DEFINE i == handler[h].invite
<1>1. /\ i \in Invites
      /\ handler[h].kind \in Kinds
      /\ handler[h].payload \in Versions \cup {NoVersion}
  BY DEF IInv, TypeOK, HandlersHaveRows, HasRow, AcceptInvite
<1>2. /\ handler' \in [Handlers -> HandlerType]
      /\ handler'[h].pc = "idle"
      /\ \A g \in Handlers \ {h} : handler'[g] = handler[g]
  BY DoneType DEF IInv, Idle, AcceptInvite
<1>3. CASE request[i].status # "none"
  BY <1>3, DoneStep DEF AcceptInvite, tables
<1>4. CASE request[i].status = "none"
  <2> DEFINE row == [NoRequest EXCEPT !.status = "pending_approval",
                         !.kind = handler[h].kind, !.payload = handler[h].payload]
  <2>1. /\ row \in Request
        /\ row.status = "pending_approval"
        /\ row.kind \in Kinds
        /\ row.consumed = FALSE
    BY <1>1 DEF NoRequest, Request, Statuses
  <2>2. /\ request' = [request EXCEPT ![i] = row]
        /\ invite' = IF invite[i].accepted \/ invite[i].revoked THEN invite
                     ELSE [invite EXCEPT ![i].accepted = TRUE]
        /\ UNCHANGED <<age, agent, members, granted, keys, made>>
    BY <1>4 DEF AcceptInvite
  <2> HIDE DEF row
  <2>3. /\ request'[i] = row
        /\ \A j \in Invites \ {i} : request'[j] = request[j]
    BY <1>1, <2>2 DEF IInv, TypeOK
  <2>4. request[i].consumed = FALSE
    BY <1>1, <1>4 DEF IInv, RowsAreWhole, NoRequest
  <2>5. \A g \in Handlers \ {h} :
          handler[g].pc \notin {"idle", "accept", "revoke"} => handler[g].invite # i
    BY <1>4 DEF IInv, HandlersHaveRows, HasRow
  <2>14. Inside \subseteq Inside'
    <3>1. request[i].kind \notin Kinds
      BY <1>1, <1>4 DEF IInv, RowsAreWhole, NoRequest, Kinds, AgentKinds
    <3>2. \A j \in Invites : request[j].kind \in Kinds => request'[j].kind = request[j].kind
      BY <2>3, <3>1
    <3> QED
      BY <2>2, <3>2, InsideGrows
  <2>15. NewAgents'
    <3>1. ~LetsAgentIn(h)'
      BY <1>2 DEF LetsAgentIn
    <3> QED
      BY <1>2, <2>2, <3>1, OthersLetIn
  <2>6. TypeOK'
    <3>1. invite \in [Invites -> [accepted : BOOLEAN, revoked : BOOLEAN]]
      BY DEF IInv, TypeOK
    <3>2. [invite[i] EXCEPT !.accepted = TRUE] \in [accepted : BOOLEAN, revoked : BOOLEAN]
      BY <1>1, <3>1
    <3>3. [invite EXCEPT ![i].accepted = TRUE] \in
              [Invites -> [accepted : BOOLEAN, revoked : BOOLEAN]]
      BY <3>1, <3>2
    <3>4. invite' \in [Invites -> [accepted : BOOLEAN, revoked : BOOLEAN]]
      BY <2>2, <3>1, <3>3
    <3> QED
      BY <1>1, <1>2, <2>1, <2>2, <3>4 DEF IInv, TypeOK, HandlerType
  <2>7. HandlersHaveRows'
    BY <1>1, <1>2, <2>1, <2>3 DEF IInv, HandlersHaveRows, HasRow
  <2>8. RowsAreWhole'
    BY <1>1, <2>1, <2>3 DEF IInv, RowsAreWhole
  <2>9. ApprovalsInOrder'
    BY <1>2, <2>2, <2>3, <2>5, <2>14 DEF IInv, HandlersHaveRows, HasRow, ApprovalsInOrder, LetsIn, Principal
  <2>10. ClaimsInOrder'
    <3>1. \A k \in keys : k.owner \in Invites \cup {Operator}
      BY DEF IInv, TypeOK
    <3> QED
      BY <1>2, <2>2, <2>3, <2>4, <2>5, <2>14, <3>1 DEF IInv, HandlersHaveRows, HasRow, ClaimsInOrder
  <2>11. ConsumedInvite'
    <3>1. /\ invite'[i].accepted \/ invite'[i].revoked
          /\ \A j \in Invites \ {i} : invite'[j] = invite[j]
      BY <1>1, <2>2 DEF IInv, TypeOK
    <3> QED
      BY <2>1, <2>3, <3>1 DEF IInv, ConsumedInvite
  <2>12. OneKeyPerSecret'
    BY <2>2 DEF IInv, OneKeyPerSecret
  <2>13. Complete'
    BY <2>1, <2>2, <2>3, <2>14 DEF IInv, Complete, Principal
  <2> QED
    BY <2>6, <2>7, <2>8, <2>9, <2>10, <2>11, <2>12, <2>13, <2>15 DEF IInv
<1> QED
  BY <1>3, <1>4

\* A step that ends handler h and writes one field of its row, not the kind.
LEMMA RowStep ==
    ASSUME IInv, NEW h \in Handlers, NEW row \in Request, NEW i \in Invites,
           request[i].status # "none", row.status # "none",
           row.kind = request[i].kind,
           request[i].consumed => row.consumed,
           row.status = "approved" => <<Principal(row), i>> \in Inside,
           request' = [request EXCEPT ![i] = row],
           handler' \in [Handlers -> HandlerType],
           \A g \in Handlers \ {h} : handler'[g] = handler[g],
           handler'[h].pc \in {"idle", "push", "createKey"},
           handler'[h].pc # "idle" =>
               /\ handler'[h].invite = i
               /\ handler'[h].agent \in Agents,
           handler'[h].pc = "createKey" =>
               /\ handler[h].pc = "consume"
               /\ handler[h].invite = i
               /\ handler'[h].agent = handler[h].agent
               /\ ~request[i].consumed
               /\ row.consumed,
           UNCHANGED <<invite, age, agent, members, granted, keys, made>>
    PROVE  IInv'
<1>1. /\ request'[i] = row
      /\ \A j \in Invites \ {i} : request'[j] = request[j]
  BY DEF IInv, TypeOK
<1>2. \A j \in Invites : /\ request'[j].status = "none" <=> request[j].status = "none"
                         /\ request'[j].kind = request[j].kind
                         /\ request[j].consumed => request'[j].consumed
  BY <1>1
<1>10. Inside' = Inside
  BY <1>2 DEF Inside, IsIn, IInv, TypeOK
<1>11. NewAgents'
  <2>1. ~LetsAgentIn(h)'
    BY DEF LetsAgentIn
  <2> QED
    BY <2>1, OthersLetIn
<1>3. TypeOK'
  BY DEF IInv, TypeOK, HandlerType
<1>4. HandlersHaveRows'
  <2> SUFFICES ASSUME NEW g \in Handlers
               PROVE  HasRow(g)'
    BY DEF HandlersHaveRows
  <2>1. CASE g = h
    BY <1>1, <1>2, <2>1 DEF HasRow
  <2>2. CASE g # h
    <3>1. handler'[g] = handler[g]
      BY <2>2
    <3>2. HasRow(g)
      BY DEF IInv, HandlersHaveRows
    <3> QED
      BY <1>2, <3>1, <3>2 DEF HasRow
  <2> QED
    BY <2>1, <2>2
<1>5. RowsAreWhole'
  BY <1>1 DEF IInv, RowsAreWhole
<1>6. ApprovalsInOrder'
  <2> SUFFICES ASSUME NEW g \in Handlers
               PROVE  LetsIn(g)'
    BY DEF ApprovalsInOrder
  <2>1. CASE g = h
    BY <2>1 DEF LetsIn
  <2>2. CASE g # h
    <3>1. handler'[g] = handler[g]
      BY <2>2
    <3>2. LetsIn(g) /\ HasRow(g)
      BY DEF IInv, ApprovalsInOrder, HandlersHaveRows
    <3> QED
      BY <1>2, <1>10, <3>1, <3>2 DEF LetsIn, HasRow, Principal
  <2> QED
    BY <2>1, <2>2
<1>7. ClaimsInOrder'
  <2>1. \A k \in keys : k.owner \in Invites \cup {Operator}
    BY DEF IInv, TypeOK
  <2>2. \A k \in keys : k.owner # Operator => request'[k.owner].consumed
    BY <1>2, <2>1 DEF IInv, ClaimsInOrder
  <2>3. \A g \in Handlers \ {h} :
          /\ handler'[g].pc \in {"findKey", "consume", "createKey"} =>
                <<handler'[g].agent, handler'[g].invite>> \in Inside'
          /\ handler'[g].pc = "createKey" =>
                /\ request'[handler'[g].invite].consumed
                /\ \A k \in keys : k.owner # handler'[g].invite
    BY <1>2, <1>10 DEF IInv, HandlersHaveRows, HasRow, ClaimsInOrder
  <2>4. CASE handler'[h].pc # "createKey"
    <3>1. handler'[h].pc \in {"idle", "push"}
      BY <2>4
    <3>2. \A g \in Handlers : handler'[g].pc = "createKey" =>
            g # h /\ handler'[g] = handler[g]
      BY <3>1
    <3>3. \A h1, h2 \in Handlers :
            /\ handler'[h1].pc = "createKey"
            /\ handler'[h2].pc = "createKey"
            /\ handler'[h1].invite = handler'[h2].invite
            => h1 = h2
      BY <3>2 DEF IInv, ClaimsInOrder
    <3>4. \A g \in Handlers :
            /\ handler'[g].pc \in {"findKey", "consume", "createKey"} =>
                  <<handler'[g].agent, handler'[g].invite>> \in Inside'
            /\ handler'[g].pc = "createKey" =>
                  /\ request'[handler'[g].invite].consumed
                  /\ \A k \in keys : k.owner # handler'[g].invite
      BY <2>3, <3>1
    <3> QED
      BY <2>2, <3>3, <3>4 DEF ClaimsInOrder
  <2>5. CASE handler'[h].pc = "createKey"
    <3>1. /\ handler[h].pc = "consume"
          /\ handler'[h].invite = i
          /\ handler'[h].agent = handler[h].agent
          /\ ~request[i].consumed
          /\ row.consumed
      BY <2>5
    <3>2. \A k \in keys : k.owner # i
      BY <2>1, <3>1 DEF IInv, ClaimsInOrder
    <3>3. \A g \in Handlers \ {h} :
            handler[g].pc = "createKey" => handler[g].invite # i
      BY <3>1 DEF IInv, ClaimsInOrder
    <3>4. <<handler[h].agent, i>> \in Inside'
      <4>1. handler[h].invite = i
        BY <2>5
      <4> QED
        BY <1>10, <3>1, <4>1 DEF IInv, ClaimsInOrder
    <3> QED
      BY <1>1, <2>2, <2>3, <3>1, <3>2, <3>3, <3>4 DEF IInv, ClaimsInOrder
  <2> QED
    BY <2>4, <2>5
<1>8. ConsumedInvite' /\ OneKeyPerSecret'
  BY <1>2 DEF IInv, ConsumedInvite, OneKeyPerSecret
<1>9. Complete'
  BY <1>1, <1>10 DEF IInv, Complete, Principal
<1> QED
  BY <1>3, <1>4, <1>5, <1>6, <1>7, <1>8, <1>9, <1>11 DEF IInv

LEMMA ReplayStep ==
    ASSUME IInv, NEW h \in Handlers, Replay(h)
    PROVE  IInv'
<1> DEFINE i == handler[h].invite
           row == [request[i] EXCEPT !.payload = handler[h].payload]
<1>1. /\ i \in Invites
      /\ request[i] \in Request
      /\ request[i].status # "none"
      /\ handler[h] \in HandlerType
  BY DEF IInv, TypeOK, HandlersHaveRows, HasRow, Replay, HandlerType
<1>2. /\ row \in Request
      /\ row.status = request[i].status
      /\ row.kind = request[i].kind
      /\ row.agent = request[i].agent
      /\ row.consumed = request[i].consumed
  BY <1>1 DEF Request, HandlerType
<1>3. request' = [request EXCEPT ![i] = row]
  BY <1>1 DEF Replay, IInv, TypeOK
<1>4. row.status = "approved" => <<Principal(row), i>> \in Inside
  BY <1>1, <1>2 DEF IInv, Complete, Principal
<1>5. CASE request[i].status = "approved" /\ request[i].agent # NoAgent
  <2>1. handler' = [handler EXCEPT ![h].pc = "push", ![h].agent = request[i].agent]
    BY <1>5 DEF Replay
  <2>2. request[i].agent \in Agents
    BY <1>1, <1>5 DEF Request
  <2>3. /\ handler' \in [Handlers -> HandlerType]
        /\ handler'[h].pc = "push"
        /\ handler'[h].invite = i
        /\ handler'[h].agent \in Agents
        /\ \A g \in Handlers \ {h} : handler'[g] = handler[g]
    BY <1>1, <2>1, <2>2 DEF IInv, TypeOK, HandlerType, Steps
  <2>4. UNCHANGED <<invite, age, agent, members, granted, keys, made>>
    BY DEF Replay
  <2> HIDE DEF i, row
  <2> QED
    BY <1>1, <1>2, <1>3, <1>4, <2>3, <2>4, RowStep
<1>6. CASE ~(request[i].status = "approved" /\ request[i].agent # NoAgent)
  <2>1. /\ handler' \in [Handlers -> HandlerType]
        /\ handler'[h].pc = "idle"
        /\ \A g \in Handlers \ {h} : handler'[g] = handler[g]
    BY <1>6, DoneType DEF IInv, Idle, Replay
  <2>2. UNCHANGED <<invite, age, agent, members, granted, keys, made>>
    BY DEF Replay
  <2> HIDE DEF i, row
  <2> QED
    BY <1>1, <1>2, <1>3, <1>4, <2>1, <2>2, RowStep
<1> QED
  BY <1>5, <1>6

LEMMA ApproveStep ==
    ASSUME IInv, NEW h \in Handlers, Approve(h)
    PROVE  IInv'
<1> DEFINE i == handler[h].invite
           row == [request[i] EXCEPT !.status = "approved", !.agent = handler[h].agent]
<1>1. /\ i \in Invites
      /\ request[i] \in Request
      /\ request[i].status # "none"
      /\ handler[h] \in HandlerType
  BY DEF IInv, TypeOK, HandlersHaveRows, HasRow, Approve, HandlerType
<1>2. /\ row \in Request
      /\ row.status = "approved"
      /\ row.kind = request[i].kind
      /\ row.agent = handler[h].agent
      /\ row.consumed = request[i].consumed
  BY <1>1 DEF Request, HandlerType, Statuses
<1>3. request' = [request EXCEPT ![i] = row]
  BY <1>1 DEF Approve, IInv, TypeOK
<1>4. <<Principal(row), i>> \in Inside
  <2>1. /\ handler[h].kind = request[i].kind
        /\ <<Principal(handler[h]), i>> \in Inside
    BY DEF IInv, ApprovalsInOrder, LetsIn, Approve
  <2> QED
    BY <1>2, <2>1 DEF Principal
<1>5. /\ handler' \in [Handlers -> HandlerType]
      /\ handler'[h].pc = "idle"
      /\ \A g \in Handlers \ {h} : handler'[g] = handler[g]
  BY DoneType DEF IInv, Idle, Approve
<1>6. UNCHANGED <<invite, age, agent, members, granted, keys, made>>
  BY DEF Approve
<1> HIDE DEF i, row
<1> QED
  BY <1>1, <1>2, <1>3, <1>4, <1>5, <1>6, RowStep

LEMMA RejectStep ==
    ASSUME IInv, NEW h \in Handlers, Reject(h)
    PROVE  IInv'
<1> DEFINE i == handler[h].invite
           row == [request[i] EXCEPT !.status = "rejected"]
<1>1. /\ i \in Invites
      /\ request[i] \in Request
      /\ request[i].status # "none"
  BY DEF IInv, TypeOK, HandlersHaveRows, HasRow, Reject
<1>2. /\ row \in Request
      /\ row.status = "rejected"
      /\ row.kind = request[i].kind
      /\ row.consumed = request[i].consumed
  BY <1>1 DEF Request, Statuses
<1>3. request' = [request EXCEPT ![i] = row]
  BY <1>1 DEF Reject, IInv, TypeOK
<1>4. /\ handler' \in [Handlers -> HandlerType]
      /\ handler'[h].pc = "idle"
      /\ \A g \in Handlers \ {h} : handler'[g] = handler[g]
  BY DoneType DEF IInv, Idle, Reject
<1>5. UNCHANGED <<invite, age, agent, members, granted, keys, made>>
  BY DEF Reject
<1> HIDE DEF i, row
<1> QED
  BY <1>1, <1>2, <1>3, <1>4, <1>5, RowStep

LEMMA ConsumeSecretStep ==
    ASSUME IInv, NEW h \in Handlers, ConsumeSecret(h)
    PROVE  IInv'
<1> DEFINE i == handler[h].invite
           row == [request[i] EXCEPT !.consumed = TRUE]
<1>1. /\ i \in Invites
      /\ request[i] \in Request
      /\ request[i].status # "none"
      /\ handler[h] \in HandlerType
      /\ handler[h].pc = "consume"
  BY DEF IInv, TypeOK, HandlersHaveRows, HasRow, ConsumeSecret, HandlerType
<1>2. CASE request[i].consumed
  BY <1>2, DoneStep DEF ConsumeSecret, tables
<1>3. CASE ~request[i].consumed
  <2>1. /\ row \in Request
        /\ row.status = request[i].status
        /\ row.kind = request[i].kind
        /\ row.agent = request[i].agent
        /\ row.consumed
    BY <1>1 DEF Request
  <2>2. request' = [request EXCEPT ![i] = row]
    BY <1>1, <1>3 DEF ConsumeSecret, IInv, TypeOK
  <2>3. row.status = "approved" => <<Principal(row), i>> \in Inside
    BY <1>1, <2>1 DEF IInv, Complete, Principal
  <2>4. /\ handler' \in [Handlers -> HandlerType]
        /\ handler'[h] = [handler[h] EXCEPT !.pc = "createKey"]
        /\ \A g \in Handlers \ {h} : handler'[g] = handler[g]
    <3>1. Goto(h, "createKey")
      BY <1>3 DEF ConsumeSecret
    <3> QED
      BY <3>1, GotoType DEF IInv, Steps
  <2>5. UNCHANGED <<invite, age, agent, members, granted, keys, made>>
    BY DEF ConsumeSecret
  <2>6. /\ handler[h].invite = i
        /\ handler'[h].pc = "createKey"
        /\ handler'[h].invite = i
        /\ handler'[h].agent = handler[h].agent
        /\ handler[h].agent \in Agents
    BY <1>1, <2>4 DEF HandlerType, IInv, HandlersHaveRows, HasRow
  <2> HIDE DEF i, row
  <2> QED
    BY <1>1, <1>3, <2>1, <2>2, <2>3, <2>4, <2>5, <2>6, RowStep
<1> QED
  BY <1>2, <1>3

\* A step of handler h that leaves the requests and the keys alone.
LEMMA MoveStep ==
    ASSUME IInv, NEW h \in Handlers, TypeOK',
           UNCHANGED <<request, keys>>,
           Inside \subseteq Inside', members \subseteq members', NewAgents',
           \A i \in Invites : /\ invite'[i].accepted = invite[i].accepted
                              /\ invite[i].revoked => invite'[i].revoked,
           \A g \in Handlers \ {h} : handler'[g] = handler[g],
           HasRow(h)', LetsIn(h)',
           handler'[h].pc # "createKey",
           handler'[h].pc \in {"findKey", "consume"} =>
               <<handler'[h].agent, handler'[h].invite>> \in Inside'
    PROVE  IInv'
<1>1. ASSUME NEW g \in Handlers PROVE HasRow(g)' /\ LetsIn(g)'
  <2>1. CASE g = h
    BY <2>1
  <2>2. CASE g # h
    <3>1. handler'[g] = handler[g]
      BY <2>2
    <3>2. HasRow(g) /\ LetsIn(g)
      BY DEF IInv, HandlersHaveRows, ApprovalsInOrder
    <3> QED
      BY <3>1, <3>2 DEF HasRow, LetsIn, Principal
  <2> QED
    BY <2>1, <2>2
<1>2. HandlersHaveRows' /\ ApprovalsInOrder'
  BY <1>1 DEF HandlersHaveRows, ApprovalsInOrder
<1>3. RowsAreWhole' /\ OneKeyPerSecret'
  BY DEF IInv, RowsAreWhole, OneKeyPerSecret
<1>6. ConsumedInvite'
  <2>1. ASSUME NEW i \in Invites
        PROVE  /\ invite'[i].accepted => request'[i].status # "none"
               /\ request'[i].status # "none" => invite'[i].accepted \/ invite'[i].revoked
    <3>1. /\ invite[i].accepted => request[i].status # "none"
          /\ request[i].status # "none" => invite[i].accepted \/ invite[i].revoked
      BY DEF IInv, ConsumedInvite
    <3>2. /\ invite'[i].accepted = invite[i].accepted
          /\ invite[i].revoked => invite'[i].revoked
      OBVIOUS
    <3> QED
      BY <3>1, <3>2
  <2> QED
    BY <2>1 DEF ConsumedInvite
<1>4. ClaimsInOrder'
  <2>1. ASSUME NEW g \in Handlers, handler'[g].pc = "createKey"
        PROVE  g # h /\ handler'[g] = handler[g]
    BY <2>1
  <2>2. \A h1, h2 \in Handlers :
          /\ handler'[h1].pc = "createKey"
          /\ handler'[h2].pc = "createKey"
          /\ handler'[h1].invite = handler'[h2].invite
          => h1 = h2
    BY <2>1 DEF IInv, ClaimsInOrder
  <2>3. ASSUME NEW g \in Handlers
        PROVE  /\ handler'[g].pc \in {"findKey", "consume", "createKey"} =>
                     <<handler'[g].agent, handler'[g].invite>> \in Inside'
               /\ handler'[g].pc = "createKey" =>
                     /\ request'[handler'[g].invite].consumed
                     /\ \A k \in keys' : k.owner # handler'[g].invite
    <3>1. CASE g = h
      BY <3>1
    <3>2. CASE g # h
      <4>1. handler'[g] = handler[g]
        BY <3>2
      <4> QED
        BY <4>1 DEF IInv, ClaimsInOrder
    <3> QED
      BY <3>1, <3>2
  <2> QED
    BY <2>2, <2>3 DEF IInv, ClaimsInOrder
<1>5. Complete'
  BY DEF IInv, Complete, Principal
<1> QED
  BY <1>2, <1>3, <1>4, <1>5, <1>6 DEF IInv

\* A handler that begins: what it has read is true of the rows at that moment.
LEMMA BeginStep ==
    ASSUME IInv, NEW h \in Handlers, NEW next \in HandlerType, Begin(h, next),
           next.pc \notin {"idle", "clear", "grant", "approve", "push", "consume", "createKey"},
           next.invite \in Invites,
           next.pc \notin {"accept", "revoke"} => request[next.invite].status # "none",
           next.pc \in {"accept", "create", "member"} => next.kind \in Kinds,
           next.pc \in {"create", "member"} => next.kind = request[next.invite].kind,
           next.pc = "member" => next.kind \in Users,
           next.pc = "findKey" => /\ next.agent \in Agents
                                  /\ <<next.agent, next.invite>> \in Inside
    PROVE  IInv'
<1>1. TypeOK'
  BY BeginType DEF IInv
<1>2. /\ handler'[h] = next
      /\ \A g \in Handlers \ {h} : handler'[g] = handler[g]
      /\ UNCHANGED <<invite, request, agent, members, granted, keys>>
  BY DEF IInv, TypeOK, Begin, tables
<1>3. HasRow(h)'
  BY <1>2 DEF HasRow
<1>4. LetsIn(h)'
  BY <1>2 DEF LetsIn, Principal, Principals
<1>5. Inside' = Inside
  BY <1>2, SameInside
<1>6. NewAgents'
  <2>1. ~LetsAgentIn(h)'
    BY <1>2 DEF LetsAgentIn
  <2> QED
    BY <1>2, <2>1, OthersLetIn
<1> QED
  BY <1>1, <1>2, <1>3, <1>4, <1>5, <1>6, MoveStep

LEMMA StartStep ==
    ASSUME IInv, NEW h \in Handlers, Start(h)
    PROVE  IInv'
<1>1. PICK i \in Invites :
        \/ \E kind \in Kinds, version \in Versions : ReadInvite(h, i, kind, version)
        \/ ReadForApproval(h, i)
        \/ ReadForRejection(h, i)
        \/ ReadForClaim(h, i)
        \/ ReadForRevocation(h, i)
  BY DEF Start
<1>2. request[i] \in Request
  BY DEF IInv, TypeOK
<1>3. CASE \E kind \in Kinds, version \in Versions : ReadInvite(h, i, kind, version)
  <2>1. PICK kind \in Kinds, version \in Versions : ReadInvite(h, i, kind, version)
    BY <1>3
  <2> DEFINE next == [pc |-> IF invite[i].accepted THEN "replay" ELSE "accept",
                      invite |-> i, kind |-> kind, agent |-> NoAgent, cleared |-> {},
                      payload |-> IF kind \in Users THEN NoVersion ELSE version]
  <2>2. next \in HandlerType
    BY DEF HandlerType, Steps
  <2>3. Begin(h, next)
    BY <2>1 DEF ReadInvite
  <2>4. next.pc = "replay" => request[i].status # "none"
    BY DEF IInv, ConsumedInvite
  <2>5. /\ next.pc \in {"replay", "accept"}
        /\ next.invite = i
        /\ next.kind \in Kinds
    OBVIOUS
  <2> HIDE DEF next
  <2> QED
    BY <2>2, <2>3, <2>4, <2>5, BeginStep
<1>4. CASE ReadForApproval(h, i)
  <2> DEFINE next == [pc |-> IF request[i].kind \in Users THEN "member" ELSE "create",
                      invite |-> i, kind |-> request[i].kind,
                      payload |-> request[i].payload, agent |-> NoAgent,
                      cleared |-> {}]
  <2>1. next \in HandlerType
    BY <1>2 DEF HandlerType, Steps, Request
  <2>2. Begin(h, next) /\ request[i].status = "pending_approval"
    BY <1>4 DEF ReadForApproval
  <2>3. request[i].kind \in Kinds
    BY <2>2 DEF IInv, RowsAreWhole
  <2>4. /\ next.pc \in {"member", "create"}
        /\ next.pc = "member" => next.kind \in Users
        /\ next.invite = i
        /\ next.kind = request[i].kind
    OBVIOUS
  <2> HIDE DEF next
  <2> QED
    BY <2>1, <2>2, <2>3, <2>4, BeginStep
<1>5. CASE ReadForRejection(h, i)
  <2> DEFINE next == [Idle EXCEPT !.pc = "reject", !.invite = i]
  <2>1. /\ next \in HandlerType
        /\ next.pc = "reject"
        /\ next.invite = i
    BY DEF Idle, HandlerType, Steps
  <2>2. Begin(h, next) /\ request[i].status # "none"
    BY <1>5 DEF ReadForRejection
  <2> HIDE DEF next
  <2> QED
    BY <2>1, <2>2, BeginStep
<1>6. CASE ReadForClaim(h, i)
  <2> DEFINE next == [Idle EXCEPT !.pc = "findKey", !.invite = i,
                                  !.agent = request[i].agent]
  <2>1. /\ next \in HandlerType
        /\ next.pc = "findKey"
        /\ next.invite = i
        /\ next.agent = request[i].agent
    BY <1>2 DEF Idle, HandlerType, Steps, Request
  <2>2. /\ Begin(h, next)
        /\ request[i].status = "approved"
        /\ request[i].agent \in Agents
        /\ request[i].kind \notin Users
    BY <1>2, <1>6 DEF ReadForClaim, Request, AgentKinds
  <2>3. <<request[i].agent, i>> \in Inside
    BY <2>2 DEF IInv, Complete, Principal
  <2> HIDE DEF next
  <2> QED
    BY <2>1, <2>2, <2>3, BeginStep
<1>7. CASE ReadForRevocation(h, i)
  <2> DEFINE next == [Idle EXCEPT !.pc = "revoke", !.invite = i]
  <2>1. /\ next \in HandlerType
        /\ next.pc = "revoke"
        /\ next.invite = i
    BY DEF Idle, HandlerType, Steps
  <2>2. Begin(h, next)
    BY <1>7 DEF ReadForRevocation
  <2> HIDE DEF next
  <2> QED
    BY <2>1, <2>2, BeginStep
<1> QED
  BY <1>1, <1>3, <1>4, <1>5, <1>6, <1>7

LEMMA PushConfigStep ==
    ASSUME IInv, NEW h \in Handlers, PushConfig(h)
    PROVE  IInv'
<1>1. /\ handler' \in [Handlers -> HandlerType]
      /\ handler'[h].pc = "idle"
      /\ \A g \in Handlers \ {h} : handler'[g] = handler[g]
  BY DoneType DEF IInv, Idle, PushConfig
<1>2. UNCHANGED <<invite, age, request, members, granted, keys, made>>
  BY DEF PushConfig
<1>3. TypeOK'
  <2>1. handler[h] \in HandlerType /\ handler[h].agent \in Agents
    BY DEF IInv, TypeOK, HandlerType, HandlersHaveRows, HasRow, PushConfig
  <2>2. agent' \in [Agents -> [status : {"none", "idle", "terminated"},
                              config : Versions \cup {NoVersion}]]
    BY <2>1 DEF IInv, TypeOK, HandlerType, PushConfig
  <2> QED
    BY <1>1, <1>2, <2>2 DEF IInv, TypeOK, HandlerType
<1>4. HasRow(h)' /\ LetsIn(h)'
  BY <1>1 DEF HasRow, LetsIn
<1>5. Inside' = Inside
  BY <1>2, SameInside
<1>6. NewAgents'
  <2>1. \A a \in Agents : agent'[a].status = agent[a].status
    BY DEF PushConfig, IInv, TypeOK
  <2>2. ~LetsAgentIn(h)'
    BY <1>1 DEF LetsAgentIn
  <2> QED
    BY <1>1, <1>2, <2>1, <2>2, OthersLetIn
<1> QED
  BY <1>1, <1>2, <1>3, <1>4, <1>5, <1>6, MoveStep

LEMMA CreateAgentStep ==
    ASSUME IInv, NEW h \in Handlers, CreateAgent(h)
    PROVE  IInv'
<1>1. PICK a \in Agents :
        /\ agent[a].status = "none"
        /\ agent' = [agent EXCEPT ![a] = [status |-> "idle",
                                          config |-> handler[h].payload]]
        /\ handler' = [handler EXCEPT ![h].pc = "member", ![h].agent = a]
  BY DEF CreateAgent
<1>2. /\ UNCHANGED <<invite, age, request, members, granted, keys, made>>
      /\ handler[h].pc = "create"
      /\ handler[h] \in HandlerType
  BY DEF CreateAgent, IInv, TypeOK, HandlerType
<1>3. /\ handler' \in [Handlers -> HandlerType]
      /\ handler'[h] = [handler[h] EXCEPT !.pc = "member", !.agent = a]
      /\ \A g \in Handlers \ {h} : handler'[g] = handler[g]
  BY <1>1, <1>2 DEF IInv, TypeOK, HandlerType, Steps
<1>4. TypeOK'
  <2>1. agent' \in [Agents -> [status : {"none", "idle", "terminated"},
                              config : Versions \cup {NoVersion}]]
    BY <1>1, <1>2 DEF IInv, TypeOK, HandlerType
  <2> QED
    BY <1>2, <1>3, <2>1 DEF IInv, TypeOK, HandlerType
<1>5. /\ handler'[h].pc = "member"
      /\ handler'[h].agent = a
      /\ handler'[h].kind = handler[h].kind
      /\ handler'[h].invite = handler[h].invite
  BY <1>2, <1>3 DEF HandlerType
<1>6. HasRow(h)'
  BY <1>2, <1>5 DEF IInv, HandlersHaveRows, HasRow
<1>7. LetsIn(h)'
  BY <1>2, <1>5 DEF IInv, ApprovalsInOrder, LetsIn, Principal, Principals
<1>8. Inside' = Inside
  BY <1>2, SameInside
<1>9. NewAgents'
  <2>1. /\ agent'[a].status = "idle"
        /\ \A b \in Agents \ {a} : agent'[b] = agent[b]
    BY <1>1 DEF IInv, TypeOK
  <2>2. /\ granted[a] = {}
        /\ \A g \in Handlers : LetsAgentIn(g) => handler[g].agent # a
    BY <1>1 DEF IInv, NewAgents
  <2>3. \A g \in Handlers \ {h} :
          LetsAgentIn(g)' => LetsAgentIn(g) /\ handler'[g] = handler[g]
    BY <1>3 DEF LetsAgentIn
  <2>4. ~LetsAgentIn(h)
    BY <1>2 DEF LetsAgentIn
  <2>5. ASSUME NEW b \in Agents, agent'[b].status = "none"
        PROVE  /\ granted'[b] = {}
               /\ \A g \in Handlers : LetsAgentIn(g)' => handler'[g].agent # b
    <3>1. b # a /\ agent[b].status = "none"
      BY <2>1, <2>5
    <3> HIDE DEF LetsAgentIn
    <3> QED
      BY <1>2, <1>5, <2>3, <3>1 DEF IInv, NewAgents
  <2>6. ASSUME NEW g \in Handlers, LetsAgentIn(g)', handler'[g].pc # "approve"
        PROVE  granted'[handler'[g].agent] = {}
    BY <1>2, <1>5, <2>2, <2>3, <2>6 DEF IInv, NewAgents
  <2>7. ASSUME NEW h1 \in Handlers, NEW h2 \in Handlers, LetsAgentIn(h1)', LetsAgentIn(h2)',
               handler'[h1].agent = handler'[h2].agent
        PROVE  h1 = h2
    BY <1>5, <2>2, <2>3, <2>7 DEF IInv, NewAgents
  <2> QED
    BY <2>5, <2>6, <2>7 DEF NewAgents
<1> QED
  BY <1>2, <1>3, <1>4, <1>5, <1>6, <1>7, <1>8, <1>9, MoveStep

LEMMA EnsureMembershipStep ==
    ASSUME IInv, NEW h \in Handlers, EnsureMembership(h)
    PROVE  IInv'
<1>1. /\ handler' \in [Handlers -> HandlerType]
      /\ handler'[h] = [handler[h] EXCEPT !.pc = "clear"]
      /\ \A g \in Handlers \ {h} : handler'[g] = handler[g]
  BY GotoType DEF IInv, EnsureMembership, Steps
<1>2. /\ UNCHANGED <<invite, age, request, agent, granted, keys, made>>
      /\ members' = members \cup {Principal(handler[h])}
      /\ handler[h].pc = "member"
      /\ handler[h] \in HandlerType
  BY DEF EnsureMembership, IInv, TypeOK, HandlerType
<1>3. /\ handler'[h].pc = "clear"
      /\ handler'[h].agent = handler[h].agent
      /\ handler'[h].kind = handler[h].kind
      /\ handler'[h].invite = handler[h].invite
  BY <1>1, <1>2 DEF HandlerType
<1>4. Principal(handler[h]) \in Principals
  BY <1>2 DEF IInv, ApprovalsInOrder, LetsIn
<1>5. TypeOK'
  BY <1>1, <1>2, <1>4 DEF IInv, TypeOK, HandlerType
<1>6. HasRow(h)'
  BY <1>2, <1>3 DEF IInv, HandlersHaveRows, HasRow
<1>7. LetsIn(h)'
  BY <1>2, <1>3 DEF IInv, ApprovalsInOrder, LetsIn, Principal
<1>8. Inside \subseteq Inside'
  BY <1>2, InsideGrows
<1>9. NewAgents'
  <2>1. LetsAgentIn(h)' => LetsAgentIn(h)
    BY <1>2, <1>3 DEF LetsAgentIn
  <2> QED
    BY <1>1, <1>2, <1>3, <2>1, OthersLetIn
<1> QED
  BY <1>1, <1>2, <1>3, <1>5, <1>6, <1>7, <1>8, <1>9, MoveStep

LEMMA ClearGrantsStep ==
    ASSUME IInv, NEW h \in Handlers, ClearGrants(h)
    PROVE  IInv'
<1> DEFINE row == [handler[h] EXCEPT !.pc = "grant",
                                     !.cleared = granted[Principal(handler[h])]]
<1>1. /\ UNCHANGED <<invite, age, request, agent, members, granted, keys, made>>
      /\ handler[h].pc = "clear"
      /\ handler[h] \in HandlerType
      /\ handler \in [Handlers -> HandlerType]
  BY DEF ClearGrants, tables, IInv, TypeOK, HandlerType
<1>2. Principal(handler[h]) \in Principals
  BY <1>1 DEF IInv, ApprovalsInOrder, LetsIn
<1>3. row \in HandlerType
  <2>1. granted[Principal(handler[h])] \subseteq Invites
    BY <1>2 DEF IInv, TypeOK
  <2>2. "grant" \in Steps
    BY DEF Steps
  <2> QED
    BY <1>1, <2>1, <2>2 DEF HandlerType
<1>4. handler' = [handler EXCEPT ![h] = row]
  BY <1>1 DEF ClearGrants, HandlerType
<1>5. /\ row.pc = "grant"
      /\ row.agent = handler[h].agent
      /\ row.kind = handler[h].kind
      /\ row.invite = handler[h].invite
  BY <1>1 DEF HandlerType
<1> HIDE DEF row
<1>6. /\ handler' \in [Handlers -> HandlerType]
      /\ handler'[h] = row
      /\ \A g \in Handlers \ {h} : handler'[g] = handler[g]
  BY <1>1, <1>3, <1>4
<1>7. TypeOK'
  BY <1>1, <1>6 DEF IInv, TypeOK, HandlerType
<1>8. HasRow(h)'
  BY <1>1, <1>5, <1>6 DEF IInv, HandlersHaveRows, HasRow
<1>9. LetsIn(h)'
  BY <1>1, <1>5, <1>6 DEF IInv, ApprovalsInOrder, LetsIn, Principal
<1>10. Inside' = Inside
  BY <1>1, SameInside
<1>11. NewAgents'
  <2>1. LetsAgentIn(h)' => LetsAgentIn(h)
    BY <1>1, <1>5, <1>6 DEF LetsAgentIn
  <2> QED
    BY <1>1, <1>5, <1>6, <2>1, OthersLetIn
<1> QED
  BY <1>1, <1>5, <1>6, <1>7, <1>8, <1>9, <1>10, <1>11, MoveStep

LEMMA SetGrantsStep ==
    ASSUME IInv, NEW h \in Handlers, SetGrants(h)
    PROVE  IInv'
<1> DEFINE p == Principal(handler[h])
           i == handler[h].invite
<1>1. /\ handler' \in [Handlers -> HandlerType]
      /\ handler'[h] = [handler[h] EXCEPT !.pc = "approve"]
      /\ \A g \in Handlers \ {h} : handler'[g] = handler[g]
  BY GotoType DEF IInv, SetGrants, Steps
<1>2. /\ UNCHANGED <<invite, age, request, agent, members, keys, made>>
      /\ granted' = [granted EXCEPT ![p] = (@ \ handler[h].cleared) \cup {i}]
      /\ handler[h].pc = "grant"
      /\ handler[h] \in HandlerType
  BY DEF SetGrants, IInv, TypeOK, HandlerType
<1>3. /\ handler'[h].pc = "approve"
      /\ handler'[h].agent = handler[h].agent
      /\ handler'[h].kind = handler[h].kind
      /\ handler'[h].invite = handler[h].invite
  BY <1>1, <1>2 DEF HandlerType
<1>4. /\ p \in Principals
      /\ p \in members
      /\ i \in Invites
      /\ handler[h].kind = request[i].kind
      /\ handler[h].kind \in Kinds
      /\ granted \in [Principals -> SUBSET Invites]
  BY <1>2 DEF IInv, TypeOK, ApprovalsInOrder, LetsIn, HandlersHaveRows, HasRow
<1>8. p \in Agents => LetsAgentIn(h) /\ p = handler[h].agent /\ granted[p] = {}
  <2>1. p \in Agents => handler[h].kind \notin Users
    BY DEF Principal
  <2>2. handler[h].kind \notin Users => LetsAgentIn(h) /\ p = handler[h].agent
    BY <1>2 DEF LetsAgentIn, Principal
  <2> QED
    BY <1>2, <2>1, <2>2 DEF IInv, NewAgents
<1>9. p \in Users => request[i].kind = p
  <2>1. handler[h].agent \notin Users
    BY <1>2 DEF HandlerType
  <2> QED
    BY <1>4, <2>1 DEF Principal
<1>10. /\ granted' \in [Principals -> SUBSET Invites]
       /\ i \in granted'[p]
       /\ \A q \in Principals \ {p} : granted'[q] = granted[q]
  BY <1>2, <1>4
<1>11. Inside \subseteq Inside'
  <2> SUFFICES ASSUME NEW q \in Principals, NEW j \in Invites, IsIn(q, j)
               PROVE  IsIn(q, j)'
    BY DEF Inside
  <2>1. CASE q # p
    BY <1>2, <1>10, <2>1 DEF IsIn
  <2>2. CASE q = p /\ p \in Users
    BY <1>2, <1>4, <1>9, <1>10, <2>2 DEF IsIn
  <2>3. CASE q = p /\ p \in Agents
    BY <1>8, <2>3 DEF IsIn
  <2> QED
    BY <2>1, <2>2, <2>3 DEF Principals
<1>12. <<p, i>> \in Inside'
  BY <1>2, <1>4, <1>10 DEF Inside, IsIn
<1>13. NewAgents'
  <2>1. \A g \in Handlers :
          LetsAgentIn(g)' => LetsAgentIn(g) /\ handler'[g].agent = handler[g].agent
    BY <1>1, <1>2, <1>3 DEF LetsAgentIn
  <2>2. ASSUME NEW a \in Agents, agent'[a].status = "none"
        PROVE  /\ granted'[a] = {}
               /\ \A g \in Handlers : LetsAgentIn(g)' => handler'[g].agent # a
    <3>1. /\ granted[a] = {}
          /\ \A g \in Handlers : LetsAgentIn(g) => handler[g].agent # a
      BY <1>2, <2>2 DEF IInv, NewAgents
    <3>2. a # p
      BY <1>8, <3>1
    <3>3. granted'[a] = {}
      BY <1>10, <3>1, <3>2 DEF Principals
    <3> QED
      BY <2>1, <3>1, <3>3
  <2>3. ASSUME NEW g \in Handlers, LetsAgentIn(g)', handler'[g].pc # "approve"
        PROVE  granted'[handler'[g].agent] = {}
    <3>1. g # h /\ handler'[g] = handler[g] /\ LetsAgentIn(g)
      BY <1>1, <1>3, <2>1, <2>3
    <3>2. granted[handler[g].agent] = {}
      BY <2>3, <3>1 DEF IInv, NewAgents
    <3>3. handler[g].agent \in Agents
      <4>1. handler[g].agent \in Agents \cup {NoAgent}
        BY DEF IInv, TypeOK
      <4>2. handler[g].agent \in Principals
        BY <3>1 DEF IInv, ApprovalsInOrder, LetsIn, LetsAgentIn, Principal
      <4> QED
        BY <4>1, <4>2 DEF Principals
    <3>4. handler[g].agent # p
      BY <1>8, <3>1, <3>3 DEF IInv, NewAgents
    <3> QED
      BY <1>10, <3>1, <3>2, <3>3, <3>4 DEF Principals
  <2>4. ASSUME NEW h1 \in Handlers, NEW h2 \in Handlers, LetsAgentIn(h1)', LetsAgentIn(h2)',
               handler'[h1].agent = handler'[h2].agent
        PROVE  h1 = h2
    BY <2>1, <2>4 DEF IInv, NewAgents
  <2> QED
    BY <2>2, <2>3, <2>4 DEF NewAgents
<1>5. TypeOK'
  BY <1>1, <1>2, <1>10 DEF IInv, TypeOK, HandlerType
<1>6. HasRow(h)'
  BY <1>2, <1>3 DEF IInv, HandlersHaveRows, HasRow
<1>7. LetsIn(h)'
  BY <1>2, <1>3, <1>4, <1>12 DEF LetsIn, Principal
<1> QED
  BY <1>1, <1>2, <1>3, <1>5, <1>6, <1>7, <1>11, <1>13, MoveStep

LEMMA FindKeyStep ==
    ASSUME IInv, NEW h \in Handlers, FindKey(h)
    PROVE  IInv'
<1>1. CASE Done(h)
  BY <1>1, DoneStep DEF FindKey
<1>2. CASE Goto(h, "consume")
  <2>1. /\ handler' \in [Handlers -> HandlerType]
        /\ handler'[h] = [handler[h] EXCEPT !.pc = "consume"]
        /\ \A g \in Handlers \ {h} : handler'[g] = handler[g]
    BY <1>2, GotoType DEF IInv, Steps
  <2>2. /\ UNCHANGED <<invite, age, request, agent, members, granted, keys, made>>
        /\ handler[h].pc = "findKey"
        /\ handler[h] \in HandlerType
    BY DEF FindKey, tables, IInv, TypeOK, HandlerType
  <2>3. /\ handler'[h].pc = "consume"
        /\ handler'[h].agent = handler[h].agent
        /\ handler'[h].invite = handler[h].invite
    BY <2>1, <2>2 DEF HandlerType
  <2>4. TypeOK'
    BY <2>1, <2>2 DEF IInv, TypeOK, HandlerType
  <2>5. HasRow(h)' /\ LetsIn(h)'
    BY <2>2, <2>3 DEF IInv, HandlersHaveRows, HasRow, LetsIn
  <2>6. <<handler'[h].agent, handler'[h].invite>> \in Inside'
    BY <2>2, <2>3, SameInside DEF IInv, ClaimsInOrder
  <2>7. Inside' = Inside
    BY <2>2, SameInside
  <2>8. NewAgents'
    <3>1. ~LetsAgentIn(h)'
      BY <2>3 DEF LetsAgentIn
    <3> QED
      BY <2>1, <2>2, <3>1, OthersLetIn
  <2> QED
    BY <2>1, <2>2, <2>3, <2>4, <2>5, <2>6, <2>7, <2>8, MoveStep
<1> QED
  BY <1>1, <1>2 DEF FindKey

LEMMA RevokeStep ==
    ASSUME IInv, NEW h \in Handlers, Revoke(h)
    PROVE  IInv'
<1> DEFINE i == handler[h].invite
<1>1. /\ handler' \in [Handlers -> HandlerType]
      /\ handler'[h].pc = "idle"
      /\ \A g \in Handlers \ {h} : handler'[g] = handler[g]
  BY DoneType DEF IInv, Idle, Revoke
<1>2. /\ UNCHANGED <<age, request, agent, members, granted, keys, made>>
      /\ invite' = [invite EXCEPT ![i].revoked = TRUE]
  BY DEF Revoke
<1>3. i \in Invites /\ invite \in [Invites -> [accepted : BOOLEAN, revoked : BOOLEAN]]
  BY DEF IInv, TypeOK, HandlersHaveRows, HasRow, Revoke
<1>4. [invite[i] EXCEPT !.revoked = TRUE] \in [accepted : BOOLEAN, revoked : BOOLEAN]
  BY <1>3
<1>5. invite' \in [Invites -> [accepted : BOOLEAN, revoked : BOOLEAN]]
  BY <1>2, <1>3, <1>4
<1>6. TypeOK'
  BY <1>1, <1>2, <1>5 DEF IInv, TypeOK, HandlerType
<1>7. \A j \in Invites : /\ invite'[j].accepted = invite[j].accepted
                         /\ invite[j].revoked => invite'[j].revoked
  BY <1>2, <1>3
<1>8. HasRow(h)' /\ LetsIn(h)'
  BY <1>1 DEF HasRow, LetsIn
<1>9. Inside' = Inside
  BY <1>2, SameInside
<1>10. NewAgents'
  <2>1. ~LetsAgentIn(h)'
    BY <1>1 DEF LetsAgentIn
  <2> QED
    BY <1>1, <1>2, <2>1, OthersLetIn
<1> QED
  BY <1>1, <1>2, <1>6, <1>7, <1>8, <1>9, <1>10, MoveStep

LEMMA CreateKeyStep ==
    ASSUME IInv, NEW h \in Handlers, CreateKey(h)
    PROVE  IInv'
<1> DEFINE i == handler[h].invite
<1>1. /\ handler' \in [Handlers -> HandlerType]
      /\ handler'[h].pc = "idle"
      /\ \A g \in Handlers \ {h} : handler'[g] = handler[g]
  BY DoneType DEF IInv, Idle, CreateKey
<1>2. /\ handler[h].pc = "createKey"
      /\ UNCHANGED <<invite, age, request, agent, members, granted, made>>
  BY DEF CreateKey
<1>3. CASE UNCHANGED keys
  BY <1>2, <1>3, DoneStep DEF CreateKey, tables
<1>4. CASE NewKey(handler[h].agent, i)
  <2>1. PICK id \in KeyIds :
          keys' = keys \cup {[id |-> id, agent |-> handler[h].agent, owner |-> i]}
    BY <1>4 DEF NewKey
  <2> DEFINE new == [id |-> id, agent |-> handler[h].agent, owner |-> i]
  <2>2. /\ i \in Invites
        /\ handler[h].agent \in Agents
        /\ <<handler[h].agent, i>> \in Inside
        /\ request[i].consumed
        /\ \A k \in keys : k.owner # i
    BY <1>2 DEF IInv, HandlersHaveRows, HasRow, ClaimsInOrder
  <2>3. /\ new \in [id : KeyIds, agent : Agents, owner : Invites \cup {Operator}]
        /\ new.owner = i
        /\ new.agent = handler[h].agent
        /\ keys' = keys \cup {new}
    BY <2>1, <2>2
  <2>4. \A g \in Handlers \ {h} :
          handler[g].pc = "createKey" => handler[g].invite # i
    BY <1>2 DEF IInv, ClaimsInOrder
  <2> HIDE DEF new
  <2>12. Inside' = Inside
    BY <1>2, SameInside
  <2>13. NewAgents'
    <3>1. ~LetsAgentIn(h)'
      BY <1>1 DEF LetsAgentIn
    <3> QED
      BY <1>1, <1>2, <3>1, OthersLetIn
  <2>5. TypeOK'
    BY <1>1, <1>2, <2>3 DEF IInv, TypeOK, HandlerType
  <2>6. HandlersHaveRows'
    BY <1>1, <1>2 DEF IInv, HandlersHaveRows, HasRow
  <2>7. RowsAreWhole' /\ ConsumedInvite'
    BY <1>2 DEF IInv, RowsAreWhole, ConsumedInvite
  <2>8. ApprovalsInOrder'
    BY <1>1, <1>2, <2>12 DEF IInv, ApprovalsInOrder, LetsIn, Principal
  <2>9. ClaimsInOrder'
    <3>1. \A k \in keys' : k.owner # Operator => request'[k.owner].consumed
      BY <1>2, <2>2, <2>3 DEF IInv, ClaimsInOrder
    <3>2. \A g \in Handlers :
            /\ handler'[g].pc \in {"findKey", "consume", "createKey"} =>
                  <<handler'[g].agent, handler'[g].invite>> \in Inside'
            /\ handler'[g].pc = "createKey" =>
                  /\ request'[handler'[g].invite].consumed
                  /\ \A k \in keys' : k.owner # handler'[g].invite
      BY <1>1, <1>2, <2>3, <2>4, <2>12 DEF IInv, ClaimsInOrder
    <3>3. \A h1, h2 \in Handlers :
            /\ handler'[h1].pc = "createKey"
            /\ handler'[h2].pc = "createKey"
            /\ handler'[h1].invite = handler'[h2].invite
            => h1 = h2
      BY <1>1 DEF IInv, ClaimsInOrder
    <3> QED
      BY <3>1, <3>2, <3>3 DEF ClaimsInOrder
  <2>10. OneKeyPerSecret'
    BY <2>2, <2>3 DEF IInv, OneKeyPerSecret
  <2>11. Complete'
    BY <1>2, <2>2, <2>3, <2>12 DEF IInv, Complete, Principal
  <2> QED
    BY <2>5, <2>6, <2>7, <2>8, <2>9, <2>10, <2>11, <2>13 DEF IInv
<1> QED
  BY <1>3, <1>4 DEF CreateKey

\* A key the operator creates is nobody's join key.
LEMMA OperatorKeyStep ==
    ASSUME IInv, NEW a \in Agents, OperatorKey(a)
    PROVE  IInv'
<1>1. PICK id \in KeyIds :
        keys' = keys \cup {[id |-> id, agent |-> a, owner |-> Operator]}
  BY DEF OperatorKey, NewKey
<1> DEFINE new == [id |-> id, agent |-> a, owner |-> Operator]
<1>2. /\ new \in [id : KeyIds, agent : Agents, owner : Invites \cup {Operator}]
      /\ new.owner = Operator
      /\ keys' = keys \cup {new}
  BY <1>1
<1> HIDE DEF new
<1>3. UNCHANGED <<invite, age, request, agent, members, granted, handler, made>>
  BY DEF OperatorKey
<1>9. Inside' = Inside
  BY <1>3, SameInside
<1>10. NewAgents'
  BY <1>3 DEF IInv, NewAgents, LetsAgentIn
<1>4. TypeOK'
  BY <1>2, <1>3 DEF IInv, TypeOK
<1>5. HandlersHaveRows' /\ RowsAreWhole' /\ ConsumedInvite' /\ ApprovalsInOrder'
  BY <1>3, <1>9 DEF IInv, HandlersHaveRows, HasRow, RowsAreWhole, ConsumedInvite,
              ApprovalsInOrder, LetsIn, Principal
<1>6. \A h \in Handlers : handler[h].pc = "createKey" => handler[h].invite # Operator
  BY DEF IInv, HandlersHaveRows, HasRow
<1>7. ClaimsInOrder'
  BY <1>2, <1>3, <1>6, <1>9 DEF IInv, ClaimsInOrder
<1>8. OneKeyPerSecret' /\ Complete'
  BY <1>2, <1>3, <1>9 DEF IInv, OneKeyPerSecret, Complete, Principal
<1> QED
  BY <1>4, <1>5, <1>7, <1>8, <1>10 DEF IInv

\* Neither the status of an agent nor the time is part of the invariant.
LEMMA QuietStep ==
    ASSUME IInv, TypeOK', UNCHANGED <<invite, request, members, granted, keys, handler>>,
           \A a \in Agents : agent'[a].status = "none" => agent[a].status = "none"
    PROVE  IInv'
<1>1. Inside' = Inside
  BY SameInside
<1>2. NewAgents'
  BY DEF IInv, NewAgents, LetsAgentIn
<1> QED
  BY <1>1, <1>2 DEF IInv, HandlersHaveRows, HasRow, RowsAreWhole,
     ApprovalsInOrder, LetsIn, ClaimsInOrder, ConsumedInvite, OneKeyPerSecret, Complete, Principal

LEMMA InvInit == Init => IInv
<1> SUFFICES ASSUME Init
             PROVE  IInv
  OBVIOUS
<1>1. TypeOK
  BY TypeInit
<1>2. /\ \A h \in Handlers : handler[h].pc = "idle"
      /\ \A i \in Invites : request[i] = NoRequest /\ ~invite[i].accepted
      /\ keys = {}
      /\ \A p \in Principals : granted[p] = {}
  BY DEF Init, Idle
<1>3. NoRequest.status = "none"
  BY DEF NoRequest
<1> QED
  BY <1>1, <1>2, <1>3 DEF IInv, Principals, HandlersHaveRows, HasRow, RowsAreWhole,
     ApprovalsInOrder, LetsIn, ClaimsInOrder, ConsumedInvite, OneKeyPerSecret,
     Complete, NewAgents, LetsAgentIn

\* Every step keeps the invariant.
LEMMA InvNext == IInv /\ [Next]_vars => IInv'
<1> SUFFICES ASSUME IInv, [Next]_vars
             PROVE  IInv'
  OBVIOUS
<1>1. CASE UNCHANGED vars
  BY <1>1, QuietStep DEF vars, IInv, TypeOK
<1>2. ASSUME NEW h \in Handlers, Start(h)
      PROVE  IInv'
  BY <1>2, StartStep
<1>3. ASSUME NEW h \in Handlers, Continue(h)
      PROVE  IInv'
  <2>1. CASE Fail(h)
    BY <2>1, DoneStep DEF Fail
  <2> QED
    BY <1>3, <2>1, AcceptInviteStep, ReplayStep, PushConfigStep, CreateAgentStep,
       EnsureMembershipStep, ClearGrantsStep, SetGrantsStep, ApproveStep, RejectStep, FindKeyStep,
       ConsumeSecretStep, CreateKeyStep, RevokeStep DEF Continue
<1>4. ASSUME NEW a \in Agents, OperatorKey(a)
      PROVE  IInv'
  BY <1>4, OperatorKeyStep
<1>5. ASSUME NEW a \in Agents, Terminate(a)
      PROVE  IInv'
  <2>1. TypeOK'
    BY <1>5 DEF Terminate, IInv, TypeOK
  <2>2. \A b \in Agents : agent'[b].status = "none" => agent[b].status = "none"
    BY <1>5 DEF Terminate, IInv, TypeOK
  <2> QED
    BY <1>5, <2>1, <2>2, QuietStep DEF Terminate
<1>6. ASSUME NEW i \in Invites, Age(i)
      PROVE  IInv'
  <2>1. TypeOK'
    BY <1>6 DEF Age, tables, IInv, TypeOK
  <2> QED
    BY <1>6, <2>1, QuietStep DEF Age, tables
<1> QED
  BY <1>1, <1>2, <1>3, <1>4, <1>5, <1>6 DEF Next

THEOREM Invariance == Spec => []IInv
BY InvInit, InvNext, PTL DEF Spec

-----------------------------------------------------------------------------
(* What it gives.                                                           *)

\* Every variable has its type, in every state.
THEOREM TypeCorrect == Spec => []TypeOK
<1>1. IInv => TypeOK
  BY DEF IInv
<1> QED
  BY <1>1, Invariance, PTL

\* An invite that is consumed has its request, however many accept or revoke it
\* at once (access.ts:2316).
THEOREM ConsumedInvites == Spec => []ConsumedInvite
<1>1. IInv => ConsumedInvite
  BY DEF IInv
<1> QED
  BY <1>1, Invariance, PTL

\* However many claims run at once, a secret buys one key (access.ts:2833).
THEOREM SecretsBuyOneKey == Spec => []OneKeyPerSecret
<1>1. IInv => OneKeyPerSecret
  BY DEF IInv
<1> QED
  BY <1>1, Invariance, PTL

\* Whoever an approval lets in is a member with the grants of its invite, or, for a
\* person, of another invite they were approved on; every agent that has claimed
\* its key has those of its own (access.ts:2622-2707, services/access.ts:242-265).
THEOREM JoinedAreComplete == Spec => []JoinedIsComplete
<1>1. IInv => JoinedIsComplete
  BY InsideIsIn DEF IInv, Complete, JoinedIsComplete
<1> QED
  BY <1>1, Invariance, PTL
=============================================================================
