------------------------------ MODULE WebProofs ------------------------------
(***************************************************************************)
(* Proofs about the web server's parts (MCWeb): accounts, agents and       *)
(* tokens (Accounts), the provider calls (ProviderLimiter), the log-ins    *)
(* (LoginLimiter), the agent's submissions and listing (AgentJobs), the    *)
(* runtimes (RuntimeCache) and the account snapshot (AuthState, from       *)
(* AuthStateProofs), for any number of users, workspaces, requests,        *)
(* processes, threads, jobs and runtimes, any limits, pages and delays.    *)
(*                                                                         *)
(* Each part has an inductive invariant of its own; the parts share no     *)
(* state, so that the invariant of the whole is their conjunction.         *)
(***************************************************************************)
EXTENDS MCWeb, AuthStateProofs, FiniteSetTheorems, WellFoundedInduction, TLAPS

(***************************************************************************)
(* Accounts.  Memberships are changed but never withdrawn, so that what a  *)
(* request has read of one holds until it writes (Fine).  A limit that is  *)
(* counted under a lock of one process and inserted afterwards is kept up  *)
(* to the processes that have counted and not inserted yet: it is their    *)
(* number and the rows together that the invariant bounds.                 *)
(***************************************************************************)

AccountTypes ==
    /\ role \in [Users \X Spaces -> Roles \cup {"none"}]
    /\ session \in [Sessions -> [user : Users \cup {Nobody}, space : Spaces \cup {NoSpace}]]
    /\ agent \in [Agents -> [space : Spaces \cup {NoSpace}, owner : Users \cup {Nobody}, active : BOOLEAN]]
    /\ tokens \in [Agents -> Nat]
    /\ request \in [Requests -> Contexts]

\* A membership that has been read is still one.
Knows(c) == c.user \in Users /\ c.space \in Spaces /\ MemberOf(c.user, c.space)

\* What a request has resolved, found or counted is right.
Fine(c) ==
    /\ c \in Contexts
    /\ c.stage \in {"verified", "resolved"} => Knows(c) /\ c.agent = NoAgent
    /\ c.stage = "found" => c.agent \in Agents
    /\ c.stage = "counted" => Knows(c) \/ c.agent \in Agents

ContextsHold == \A r \in Requests : Fine(request[r])

RowsHold ==
    /\ \A s \in Sessions : session[s] # NoSession => Knows(session[s])
    /\ \A a \in Agents : agent[a] # NoServiceAgent =>
          agent[a].owner \in Users /\ agent[a].space \in Spaces /\ MemberOf(agent[a].owner, agent[a].space)

\* Of the requests of one process no more than one is between its count and its insert.
OneCounted ==
    \A q, r \in Requests :
        ProcessOf[q] = ProcessOf[r] /\ request[q].stage = "counted" /\ request[r].stage = "counted" => q = r

\* The processes that are about to insert an agent of w, or a token of a.
AgentPending(w) ==
    {p \in Processes : \E r \in Requests : ProcessOf[r] = p /\ request[r].stage = "counted"
                                           /\ request[r].agent = NoAgent /\ request[r].space = w}
TokenPending(a) ==
    {p \in Processes : \E r \in Requests : ProcessOf[r] = p /\ request[r].stage = "counted"
                                           /\ request[r].agent = a}

AgentsCounted ==
    \A w \in Spaces :
        /\ IsFiniteSet(ActiveAgents(w))
        /\ Cardinality(ActiveAgents(w)) + Cardinality(AgentPending(w))
              <= AgentLimit + Cardinality(Processes) - 1

TokensCounted ==
    \A a \in Agents :
        tokens[a] + Cardinality(TokenPending(a)) <= TokenLimit + Cardinality(Processes) - 1

Members == AccountTypes /\ ContextsHold /\ RowsHold
AccountsInv == Members /\ OneCounted /\ AgentsCounted /\ TokensCounted

-----------------------------------------------------------------------------
LEMMA ProcessCount ==
    /\ Cardinality(Processes) \in Nat \ {0}
    /\ \A S \in SUBSET Processes : /\ IsFiniteSet(S)
                                   /\ Cardinality(S) \in Nat
                                   /\ Cardinality(S) <= Cardinality(Processes)
<1>1. IsFiniteSet(Processes) /\ Processes # {}
  BY AccountsAssumption
<1>2. Cardinality(Processes) \in Nat /\ Cardinality(Processes) # 0
  BY <1>1, FS_CardinalityType, FS_EmptySet
<1>3. ASSUME NEW S \in SUBSET Processes
      PROVE  IsFiniteSet(S) /\ Cardinality(S) \in Nat /\ Cardinality(S) <= Cardinality(Processes)
  <2>1. IsFiniteSet(S) /\ Cardinality(S) <= Cardinality(Processes)
    BY <1>1, FS_Subset
  <2> QED
    BY <2>1, FS_CardinalityType
<1> QED
  BY <1>2, <1>3

LEMMA AccountsStart == AccountsInit => AccountsInv
<1> SUFFICES ASSUME AccountsInit PROVE AccountsInv
  OBVIOUS
<1>1. Idle \in Contexts /\ Idle.stage = "idle"
  BY DEF Idle, Contexts
<1>2. AccountTypes
  BY <1>1 DEF AccountsInit, AccountTypes, NoSession, NoServiceAgent
<1>3. \A r \in Requests : request[r].stage = "idle"
  BY <1>1 DEF AccountsInit
<1>4. ContextsHold /\ OneCounted
  BY <1>1, <1>3 DEF ContextsHold, OneCounted, Fine, AccountsInit
<1>5. RowsHold
  BY DEF AccountsInit, RowsHold
<1>6. \A w : AgentPending(w) = {} /\ TokenPending(w) = {}
  BY <1>3 DEF AgentPending, TokenPending
<1>7. \A w : ActiveAgents(w) = {}
  <2>1. \A a \in Agents : agent[a] = NoServiceAgent
    BY DEF AccountsInit
  <2>2. NoServiceAgent.active = FALSE
    BY DEF NoServiceAgent
  <2> QED
    BY <2>1, <2>2 DEF ActiveAgents
<1>8. Cardinality({}) = 0 /\ IsFiniteSet({})
  BY FS_EmptySet
<1>9. \A a \in Agents : tokens[a] = 0
  BY DEF AccountsInit
<1>10. 0 + 0 <= AgentLimit + Cardinality(Processes) - 1 /\ 0 + 0 <= TokenLimit + Cardinality(Processes) - 1
  BY ProcessCount, AccountsAssumption
<1>11. AgentsCounted
  BY <1>6, <1>7, <1>8, <1>10 DEF AgentsCounted
<1>12. TokensCounted
  BY <1>6, <1>8, <1>9, <1>10 DEF TokensCounted
<1> QED
  BY <1>2, <1>4, <1>5, <1>11, <1>12 DEF AccountsInv, Members

\* Memberships are changed, never withdrawn.
LEMMA MembersKeep ==
    ASSUME Members, AccountsNext
    PROVE  /\ role' \in [Users \X Spaces -> Roles \cup {"none"}]
           /\ \A u \in Users, w \in Spaces : MemberOf(u, w) => MemberOf(u, w)'
<1> USE DEF Members
<1>1. CASE role' = role
  BY <1>1 DEF MemberOf, AccountTypes
<1>2. ASSUME NEW u \in Users, NEW w \in Spaces, NEW new \in Roles, role' = [role EXCEPT ![<<u, w>>] = new]
      PROVE  /\ role' \in [Users \X Spaces -> Roles \cup {"none"}]
             /\ \A v \in Users, x \in Spaces : MemberOf(v, x) => MemberOf(v, x)'
  BY <1>2 DEF MemberOf, AccountTypes, Roles
<1>3. ASSUME NEW u \in Users, NEW w \in Spaces, CreateUser(u, w) PROVE role' = [role EXCEPT ![<<u, w>>] = "owner"]
  BY <1>3 DEF CreateUser
<1>4. ASSUME NEW u \in Users, NEW w \in Spaces, NEW x \in Roles, AddMember(u, w, x) PROVE role' = [role EXCEPT ![<<u, w>>] = x]
  BY <1>4 DEF AddMember
<1>5. ASSUME NEW r \in Requests, NEW w \in Spaces, CreateWorkspace(r, w)
      PROVE  request[r].user \in Users /\ role' = [role EXCEPT ![<<request[r].user, w>>] = "owner"]
  BY <1>5 DEF CreateWorkspace, ContextsHold, Fine, Knows
<1>6. "owner" \in Roles
  BY DEF Roles
<1>7. CASE \E s \in Sessions : Logout(s)
  BY <1>1, <1>7 DEF Logout, Revoke
<1>8. CASE \E u \in Users : RevokeAll(u)
  BY <1>1, <1>8 DEF RevokeAll, Revoke
<1>9. CASE \E a \in Agents : RevokeToken(a)
  BY <1>1, <1>9 DEF RevokeToken
<1>10. CASE \E u \in Users, w \in Spaces : CreateUser(u, w) \/ \E x \in Roles : AddMember(u, w, x)
  <2>1. ASSUME NEW u \in Users, NEW w \in Spaces, CreateUser(u, w)
        PROVE  /\ role' \in [Users \X Spaces -> Roles \cup {"none"}]
               /\ \A v \in Users, x \in Spaces : MemberOf(v, x) => MemberOf(v, x)'
    <3>1. role' = [role EXCEPT ![<<u, w>>] = "owner"]
      BY <1>3, <2>1
    <3> QED
      BY <3>1, <1>2, <1>6, ZenonT(30)
  <2>2. ASSUME NEW u \in Users, NEW w \in Spaces, NEW y \in Roles, AddMember(u, w, y)
        PROVE  /\ role' \in [Users \X Spaces -> Roles \cup {"none"}]
               /\ \A v \in Users, x \in Spaces : MemberOf(v, x) => MemberOf(v, x)'
    <3>1. role' = [role EXCEPT ![<<u, w>>] = y]
      BY <1>4, <2>2
    <3> QED
      BY <3>1, <1>2, ZenonT(30)
  <2> QED
    BY <1>10, <2>1, <2>2
<1>11. ASSUME NEW r \in Requests, \E w \in Spaces : CreateWorkspace(r, w)
       PROVE  /\ role' \in [Users \X Spaces -> Roles \cup {"none"}]
              /\ \A u \in Users, w \in Spaces : MemberOf(u, w) => MemberOf(u, w)'
  <2>1. PICK w \in Spaces : CreateWorkspace(r, w)
    BY <1>11
  <2>2. request[r].user \in Users /\ role' = [role EXCEPT ![<<request[r].user, w>>] = "owner"]
    BY <1>5, <2>1
  <2> QED
    BY <2>2, <1>2, <1>6, ZenonT(30)
<1>12. ASSUME NEW r \in Requests,
              \/ \E u \in Users, w \in Spaces : Verify(r, u, w) \/ ResolveActor(r, u, w)
              \/ \E s \in Sessions : StoreSession(r, s) \/ Resolve(r, s)
              \/ \E s \in Sessions, w \in Spaces : SelectWorkspace(r, s, w)
              \/ \E a \in Agents : InsertAgent(r, a) \/ FindAgent(r, a) \/ DeactivateAgent(r, a)
              \/ CountAgents(r) \/ CountTokens(r) \/ InsertToken(r) \/ EndRequest(r)
       PROVE  role' = role
  BY <1>12 DEF Verify, ResolveActor, StoreSession, Resolve, SelectWorkspace, InsertAgent, FindAgent,
     DeactivateAgent, CountAgents, CountTokens, InsertToken, EndRequest
<1> QED
  BY <1>1, <1>7, <1>8, <1>9, <1>10, <1>11, <1>12 DEF AccountsNext

LEMMA IdleFine == Fine(Idle) /\ Idle.stage = "idle"
BY DEF Fine, Idle, Contexts

LEMMA RequestsKeep ==
    ASSUME Members, AccountsNext
    PROVE  \/ request' = request
           \/ \E r \in Requests : \E c : Fine(c) /\ request' = [request EXCEPT ![r] = c]
<1> USE DEF Members
<1>1. CASE \/ \E s \in Sessions : Logout(s)
           \/ \E u \in Users : RevokeAll(u)
           \/ \E a \in Agents : RevokeToken(a)
           \/ \E u \in Users, w \in Spaces : CreateUser(u, w) \/ \E x \in Roles : AddMember(u, w, x)
  BY <1>1 DEF Logout, RevokeAll, Revoke, RevokeToken, CreateUser, AddMember
<1>2. ASSUME NEW r \in Requests,
             \/ \E s \in Sessions : StoreSession(r, s)
             \/ \E s \in Sessions, w \in Spaces : SelectWorkspace(r, s, w)
             \/ \E w \in Spaces : CreateWorkspace(r, w)
             \/ \E a \in Agents : InsertAgent(r, a) \/ DeactivateAgent(r, a)
             \/ InsertToken(r) \/ EndRequest(r)
      PROVE  request' = [request EXCEPT ![r] = Idle]
  BY <1>2 DEF StoreSession, SelectWorkspace, CreateWorkspace, InsertAgent, DeactivateAgent, InsertToken, EndRequest
<1>3. ASSUME NEW r \in Requests, NEW u \in Users, NEW w \in Spaces, Verify(r, u, w)
      PROVE  \E c : Fine(c) /\ request' = [request EXCEPT ![r] = c]
  <2> DEFINE c == [Idle EXCEPT !.stage = "verified", !.user = u, !.space = w]
  <2>1. Fine(c)
    BY <1>3 DEF Verify, Fine, Idle, Contexts, Knows
  <2> QED
    BY <2>1, <1>3 DEF Verify
<1>4. ASSUME NEW r \in Requests, NEW u \in Users, NEW w \in Spaces, MemberOf(u, w),
             request' = [request EXCEPT ![r] =
                [Idle EXCEPT !.stage = "resolved", !.user = u, !.space = w, !.role = role[<<u, w>>]]]
      PROVE  \E c : Fine(c) /\ request' = [request EXCEPT ![r] = c]
  <2> DEFINE c == [Idle EXCEPT !.stage = "resolved", !.user = u, !.space = w, !.role = role[<<u, w>>]]
  <2>1. role[<<u, w>>] \in Roles \cup {"none"}
    BY DEF AccountTypes
  <2>2. Fine(c)
    BY <1>4, <2>1 DEF Fine, Idle, Contexts, Knows
  <2> QED
    BY <2>2, <1>4
<1>5. ASSUME NEW r \in Requests, NEW s \in Sessions, Resolve(r, s)
      PROVE  \E c : Fine(c) /\ request' = [request EXCEPT ![r] = c]
  <2>1. session[s].user \in Users /\ session[s].space \in Spaces /\ MemberOf(session[s].user, session[s].space)
    BY <1>5 DEF Resolve, RowsHold, Knows
  <2> QED
    BY <2>1, <1>4, <1>5 DEF Resolve
<1>6. ASSUME NEW r \in Requests, NEW u \in Users, NEW w \in Spaces, ResolveActor(r, u, w)
      PROVE  \E c : Fine(c) /\ request' = [request EXCEPT ![r] = c]
  BY <1>4, <1>6 DEF ResolveActor
<1>7. ASSUME NEW r \in Requests, CountAgents(r)
      PROVE  \E c : Fine(c) /\ request' = [request EXCEPT ![r] = c]
  <2>1. request[r] \in Contexts /\ Knows(request[r])
    BY <1>7 DEF CountAgents, AccountTypes, ContextsHold, Fine
  <2>2. Fine([request[r] EXCEPT !.stage = "counted"])
    BY <2>1 DEF Fine, Contexts, Knows
  <2> QED
    BY <2>2, <1>7, IdleFine DEF CountAgents
<1>8. ASSUME NEW r \in Requests, NEW a \in Agents, FindAgent(r, a)
      PROVE  \E c : Fine(c) /\ request' = [request EXCEPT ![r] = c]
  <2>1. Fine([Idle EXCEPT !.stage = "found", !.agent = a])
    BY DEF Fine, Idle, Contexts
  <2> QED
    BY <2>1, <1>8 DEF FindAgent
<1>9. ASSUME NEW r \in Requests, CountTokens(r)
      PROVE  \E c : Fine(c) /\ request' = [request EXCEPT ![r] = c]
  <2>1. request[r] \in Contexts /\ request[r].agent \in Agents
    BY <1>9 DEF CountTokens, ContextsHold, Fine
  <2>2. Fine([request[r] EXCEPT !.stage = "counted"])
    BY <2>1 DEF Fine, Contexts
  <2> QED
    BY <2>2, <1>9, IdleFine DEF CountTokens
<1> QED
  BY <1>1, <1>2, <1>3, <1>5, <1>6, <1>7, <1>8, <1>9, IdleFine DEF AccountsNext

LEMMA ContextsStep ==
    ASSUME Members, AccountsNext
    PROVE  request' \in [Requests -> Contexts] /\ ContextsHold'
<1>1. \A c : Fine(c) => Fine(c)'
  <2> SUFFICES ASSUME NEW c, Fine(c) PROVE Fine(c)'
    OBVIOUS
  <2>1. c.user \in Users /\ c.space \in Spaces /\ MemberOf(c.user, c.space) => MemberOf(c.user, c.space)'
    BY MembersKeep
  <2> QED
    BY <2>1 DEF Fine, Knows
<1>2. \A r \in Requests : Fine(request'[r])
  BY RequestsKeep DEF Members, AccountTypes, ContextsHold
<1>3. request' \in [Requests -> Contexts]
  BY RequestsKeep DEF Members, AccountTypes, Fine
<1> QED
  BY <1>1, <1>2, <1>3 DEF ContextsHold

LEMMA SessionsStep ==
    ASSUME Members, AccountsNext
    PROVE  /\ session' \in [Sessions -> [user : Users \cup {Nobody}, space : Spaces \cup {NoSpace}]]
           /\ (\A s \in Sessions : session[s] # NoSession => Knows(session[s]))'
<1> DEFINE Good(x) == /\ x \in [user : Users \cup {Nobody}, space : Spaces \cup {NoSpace}]
                      /\ x # NoSession => Knows(x)
<1>1. \A s \in Sessions : Good(session[s])
  BY DEF Members, AccountTypes, RowsHold
<1>2. ASSUME NEW x, Good(x), x # NoSession
      PROVE  x.user \in Users /\ x.space \in Spaces /\ role'[<<x.user, x.space>>] # "none"
  BY <1>2, MembersKeep DEF Knows, MemberOf
<1>3. Good(NoSession)
  BY DEF NoSession
<1>4. session \in [Sessions -> [user : Users \cup {Nobody}, space : Spaces \cup {NoSpace}]]
  BY DEF Members, AccountTypes
<1>5. ASSUME NEW S, session' = [s \in Sessions |-> IF s \in S THEN NoSession ELSE session[s]]
      PROVE  DOMAIN session' = Sessions /\ session' = [s \in Sessions |-> session'[s]]
             /\ \A s \in Sessions : Good(session'[s])
  BY <1>1, <1>3, <1>5
<1>6. ASSUME NEW s \in Sessions, NEW x, Good(x), session' = [session EXCEPT ![s] = x]
      PROVE  DOMAIN session' = Sessions /\ session' = [t \in Sessions |-> session'[t]]
             /\ \A t \in Sessions : Good(session'[t])
  BY <1>1, <1>4, <1>6
<1>7. ASSUME NEW r \in Requests, NEW s \in Sessions, StoreSession(r, s)
      PROVE  \E x : Good(x) /\ session' = [session EXCEPT ![s] = x]
  <2>1. Good([user |-> request[r].user, space |-> request[r].space])
    BY <1>7 DEF StoreSession, Members, ContextsHold, Fine, Knows
  <2> QED
    BY <2>1, <1>7 DEF StoreSession
<1>8. ASSUME NEW r \in Requests, NEW s \in Sessions, NEW w \in Spaces, SelectWorkspace(r, s, w)
      PROVE  \E x : Good(x) /\ session' = [session EXCEPT ![s] = x]
  <2>1. Knows(request[r]) /\ MemberOf(request[r].user, w)
    BY <1>8 DEF SelectWorkspace, Selectable, Members, ContextsHold, Fine
  <2>2. Good([session[s] EXCEPT !.space = w])
    BY <2>1, <1>4, <1>8 DEF SelectWorkspace, Knows
  <2> QED
    BY <2>2, <1>8 DEF SelectWorkspace
<1>9. session' = session \/ /\ DOMAIN session' = Sessions /\ session' = [s \in Sessions |-> session'[s]]
                            /\ \A s \in Sessions : Good(session'[s])
  <2> HIDE DEF Good
  <2>1. CASE \E s \in Sessions : Logout(s)
    BY <2>1, <1>5 DEF Logout, Revoke
  <2>2. CASE \E u \in Users : RevokeAll(u)
    BY <2>2, <1>5 DEF RevokeAll, Revoke
  <2>3. CASE \/ \E a \in Agents : RevokeToken(a)
             \/ \E u \in Users, w \in Spaces : CreateUser(u, w) \/ \E x \in Roles : AddMember(u, w, x)
    BY <2>3 DEF RevokeToken, CreateUser, AddMember
  <2>4. ASSUME NEW r \in Requests,
               \/ \E u \in Users, w \in Spaces : Verify(r, u, w) \/ ResolveActor(r, u, w)
               \/ \E s \in Sessions : Resolve(r, s)
               \/ \E w \in Spaces : CreateWorkspace(r, w)
               \/ \E a \in Agents : InsertAgent(r, a) \/ FindAgent(r, a) \/ DeactivateAgent(r, a)
               \/ CountAgents(r) \/ CountTokens(r) \/ InsertToken(r) \/ EndRequest(r)
        PROVE  session' = session
    BY <2>4 DEF Verify, ResolveActor, Resolve, CreateWorkspace, InsertAgent, FindAgent,
       DeactivateAgent, CountAgents, CountTokens, InsertToken, EndRequest
  <2>5. CASE \E r \in Requests, s \in Sessions : StoreSession(r, s)
    BY <2>5, <1>6, <1>7
  <2>6. CASE \E r \in Requests, s \in Sessions, w \in Spaces : SelectWorkspace(r, s, w)
    BY <2>6, <1>6, <1>8
  <2> QED
    BY <2>1, <2>2, <2>3, <2>4, <2>5, <2>6 DEF AccountsNext
<1>10. \A s \in Sessions : Good(session'[s])
  BY <1>1, <1>9
<1>11. session' = [s \in Sessions |-> session'[s]]
  BY <1>4, <1>9
<1>12. session' \in [Sessions -> [user : Users \cup {Nobody}, space : Spaces \cup {NoSpace}]]
  BY <1>10, <1>11
<1>13. \A s \in Sessions : session'[s] # NoSession =>
          /\ session'[s].user \in Users /\ session'[s].space \in Spaces
          /\ role'[<<session'[s].user, session'[s].space>>] # "none"
  <2> HIDE DEF Good
  <2> QED
    BY <1>2, <1>10
<1> QED
  BY <1>12, <1>13 DEF Knows, MemberOf, NoSession

LEMMA AgentsStep ==
    ASSUME Members, AccountsNext
    PROVE  /\ agent' \in [Agents -> [space : Spaces \cup {NoSpace}, owner : Users \cup {Nobody}, active : BOOLEAN]]
           /\ (\A a \in Agents : agent[a] # NoServiceAgent =>
                 agent[a].owner \in Users /\ agent[a].space \in Spaces /\ MemberOf(agent[a].owner, agent[a].space))'
<1> DEFINE Good(x) == /\ x \in [space : Spaces \cup {NoSpace}, owner : Users \cup {Nobody}, active : BOOLEAN]
                      /\ x # NoServiceAgent => x.owner \in Users /\ x.space \in Spaces /\ MemberOf(x.owner, x.space)
<1>1. \A a \in Agents : Good(agent[a])
  BY DEF Members, AccountTypes, RowsHold
<1>2. ASSUME NEW x, Good(x), x # NoServiceAgent
      PROVE  x.owner \in Users /\ x.space \in Spaces /\ role'[<<x.owner, x.space>>] # "none"
  BY <1>2, MembersKeep DEF MemberOf
<1>3. agent \in [Agents -> [space : Spaces \cup {NoSpace}, owner : Users \cup {Nobody}, active : BOOLEAN]]
  BY DEF Members, AccountTypes
<1>4. ASSUME NEW a \in Agents, NEW x, Good(x), agent' = [agent EXCEPT ![a] = x]
      PROVE  DOMAIN agent' = Agents /\ agent' = [b \in Agents |-> agent'[b]]
             /\ \A b \in Agents : Good(agent'[b])
  BY <1>1, <1>3, <1>4
<1>5. ASSUME NEW r \in Requests, NEW a \in Agents, InsertAgent(r, a)
      PROVE  \E x : Good(x) /\ agent' = [agent EXCEPT ![a] = x]
  <2>1. Knows(request[r])
    BY <1>5, AccountsAssumption DEF InsertAgent, Members, ContextsHold, Fine
  <2>2. Good([space |-> request[r].space, owner |-> request[r].user, active |-> TRUE])
    BY <2>1 DEF Knows
  <2> QED
    BY <2>2, <1>5 DEF InsertAgent
<1>6. ASSUME NEW r \in Requests, NEW a \in Agents, DeactivateAgent(r, a)
      PROVE  \E x : Good(x) /\ agent' = [agent EXCEPT ![a] = x]
  <2>1. agent[a] # NoServiceAgent
    BY <1>6 DEF DeactivateAgent
  <2>2. agent[a] \in [space : Spaces \cup {NoSpace}, owner : Users \cup {Nobody}, active : BOOLEAN]
    BY <1>3
  <2>3. agent[a].owner \in Users /\ agent[a].space \in Spaces /\ MemberOf(agent[a].owner, agent[a].space)
    BY <2>1 DEF Members, RowsHold
  <2>4. Good([agent[a] EXCEPT !.active = FALSE])
    BY <2>2, <2>3
  <2> QED
    BY <2>4, <1>6 DEF DeactivateAgent
<1>7. agent' = agent \/ /\ DOMAIN agent' = Agents /\ agent' = [a \in Agents |-> agent'[a]]
                        /\ \A a \in Agents : Good(agent'[a])
  <2> HIDE DEF Good
  <2>1. CASE \/ \E s \in Sessions : Logout(s)
             \/ \E u \in Users : RevokeAll(u)
             \/ \E a \in Agents : RevokeToken(a)
             \/ \E u \in Users, w \in Spaces : CreateUser(u, w) \/ \E x \in Roles : AddMember(u, w, x)
    BY <2>1 DEF Logout, RevokeAll, Revoke, RevokeToken, CreateUser, AddMember
  <2>2. ASSUME NEW r \in Requests,
               \/ \E u \in Users, w \in Spaces : Verify(r, u, w) \/ ResolveActor(r, u, w)
               \/ \E s \in Sessions : StoreSession(r, s) \/ Resolve(r, s)
               \/ \E s \in Sessions, w \in Spaces : SelectWorkspace(r, s, w)
               \/ \E w \in Spaces : CreateWorkspace(r, w)
               \/ \E a \in Agents : FindAgent(r, a)
               \/ CountAgents(r) \/ CountTokens(r) \/ InsertToken(r) \/ EndRequest(r)
        PROVE  agent' = agent
    BY <2>2 DEF Verify, ResolveActor, StoreSession, Resolve, SelectWorkspace, CreateWorkspace, FindAgent,
       CountAgents, CountTokens, InsertToken, EndRequest
  <2>3. CASE \E r \in Requests, a \in Agents : InsertAgent(r, a)
    BY <2>3, <1>4, <1>5
  <2>4. CASE \E r \in Requests, a \in Agents : DeactivateAgent(r, a)
    BY <2>4, <1>4, <1>6
  <2> QED
    BY <2>1, <2>2, <2>3, <2>4 DEF AccountsNext
<1>8. \A a \in Agents : Good(agent'[a])
  BY <1>1, <1>7
<1>9. agent' = [a \in Agents |-> agent'[a]]
  BY <1>3, <1>7
<1>10. agent' \in [Agents -> [space : Spaces \cup {NoSpace}, owner : Users \cup {Nobody}, active : BOOLEAN]]
  BY <1>8, <1>9
<1>11. \A a \in Agents : agent'[a] # NoServiceAgent =>
          /\ agent'[a].owner \in Users /\ agent'[a].space \in Spaces
          /\ role'[<<agent'[a].owner, agent'[a].space>>] # "none"
  <2> HIDE DEF Good
  <2> QED
    BY <1>2, <1>8
<1> QED
  BY <1>10, <1>11 DEF MemberOf, NoServiceAgent

LEMMA TokensStep ==
    ASSUME Members, AccountsNext
    PROVE  tokens' \in [Agents -> Nat]
<1>1. tokens \in [Agents -> Nat]
  BY DEF Members, AccountTypes
<1>2. CASE \/ \E s \in Sessions : Logout(s)
           \/ \E u \in Users : RevokeAll(u)
           \/ \E u \in Users, w \in Spaces : CreateUser(u, w) \/ \E x \in Roles : AddMember(u, w, x)
  BY <1>1, <1>2 DEF Logout, RevokeAll, Revoke, CreateUser, AddMember
<1>3. CASE \E a \in Agents : RevokeToken(a)
  BY <1>1, <1>3 DEF RevokeToken
<1>4. ASSUME NEW r \in Requests,
             \/ \E u \in Users, w \in Spaces : Verify(r, u, w) \/ ResolveActor(r, u, w)
             \/ \E s \in Sessions : StoreSession(r, s) \/ Resolve(r, s)
             \/ \E s \in Sessions, w \in Spaces : SelectWorkspace(r, s, w)
             \/ \E w \in Spaces : CreateWorkspace(r, w)
             \/ \E a \in Agents : FindAgent(r, a) \/ InsertAgent(r, a)
             \/ CountAgents(r) \/ CountTokens(r) \/ EndRequest(r)
      PROVE  tokens' = tokens
  BY <1>4 DEF Verify, ResolveActor, StoreSession, Resolve, SelectWorkspace, CreateWorkspace, FindAgent,
     InsertAgent, CountAgents, CountTokens, EndRequest
<1>5. CASE \E r \in Requests : InsertToken(r) \/ \E a \in Agents : DeactivateAgent(r, a)
  BY <1>1, <1>5 DEF InsertToken, DeactivateAgent
<1> QED
  BY <1>1, <1>2, <1>3, <1>4, <1>5 DEF AccountsNext

LEMMA MembersStep == Members /\ [AccountsNext]_accountVars => Members'
<1> SUFFICES ASSUME Members, [AccountsNext]_accountVars PROVE Members'
  OBVIOUS
<1>1. CASE AccountsNext
  BY <1>1, MembersKeep, ContextsStep, SessionsStep, AgentsStep, TokensStep
     DEF Members, AccountTypes, RowsHold
<1>2. CASE UNCHANGED accountVars
  BY <1>2 DEF accountVars, Members, AccountTypes, RowsHold, ContextsHold, Fine, Knows, MemberOf
<1> QED
  BY <1>1, <1>2

-----------------------------------------------------------------------------
\* The steps that leave no request where it has just counted.
NothingCounted ==
    \/ request' = request
    \/ \E r \in Requests : \E c : c.stage # "counted" /\ request' = [request EXCEPT ![r] = c]

LEMMA PendingShrinks ==
    ASSUME Members, NothingCounted
    PROVE  /\ OneCounted => OneCounted'
           /\ \A w : AgentPending(w)' \subseteq AgentPending(w)
           /\ \A a : TokenPending(a)' \subseteq TokenPending(a)
<1>1. request \in [Requests -> Contexts]
  BY DEF Members, AccountTypes
<1>2. \A r \in Requests : request'[r].stage = "counted" => request'[r] = request[r]
  BY <1>1 DEF NothingCounted
<1> QED
  BY <1>2 DEF OneCounted, AgentPending, TokenPending

\* The request that inserts was the only one of its process to have counted.
LEMMA PendingEnds ==
    ASSUME Members, OneCounted, NEW r \in Requests, request[r].stage = "counted",
           request' = [request EXCEPT ![r] = Idle]
    PROVE  /\ NothingCounted
           /\ \A w : ProcessOf[r] \notin AgentPending(w)'
           /\ \A a : ProcessOf[r] \notin TokenPending(a)'
<1>1. request \in [Requests -> Contexts]
  BY DEF Members, AccountTypes
<1>2. \A q \in Requests : ProcessOf[q] = ProcessOf[r] => request'[q].stage # "counted"
  BY <1>1, IdleFine DEF OneCounted
<1>3. NothingCounted
  BY IdleFine DEF NothingCounted
<1> QED
  BY <1>2, <1>3 DEF AgentPending, TokenPending

\* A request that has just counted agents of its workspace, or tokens of its agent.
LEMMA PendingGrows ==
    ASSUME Members, OneCounted, NEW r \in Requests, LockFree(r),
           NEW c, request' = [request EXCEPT ![r] = c]
    PROVE  /\ OneCounted'
           /\ \A w : (c.agent # NoAgent \/ c.space # w) => AgentPending(w)' \subseteq AgentPending(w)
           /\ \A a : c.agent # a => TokenPending(a)' \subseteq TokenPending(a)
<1>1. request \in [Requests -> Contexts]
  BY DEF Members, AccountTypes
<1>2. request'[r] = c /\ \A q \in Requests : q # r => request'[q] = request[q]
  BY <1>1
<1>3. OneCounted'
  BY <1>2 DEF OneCounted, LockFree
<1> QED
  BY <1>2, <1>3 DEF AgentPending, TokenPending

LEMMA EndsOrCounts ==
    ASSUME Members, AccountsNext
    PROVE  NothingCounted \/ \E r \in Requests : CountAgents(r) \/ CountTokens(r)
<1>1. CASE \/ \E s \in Sessions : Logout(s)
           \/ \E u \in Users : RevokeAll(u)
           \/ \E a \in Agents : RevokeToken(a)
           \/ \E u \in Users, w \in Spaces : CreateUser(u, w) \/ \E x \in Roles : AddMember(u, w, x)
  BY <1>1 DEF Logout, RevokeAll, Revoke, RevokeToken, CreateUser, AddMember, NothingCounted
<1>2. ASSUME NEW r \in Requests,
             \/ \E s \in Sessions : StoreSession(r, s)
             \/ \E s \in Sessions, w \in Spaces : SelectWorkspace(r, s, w)
             \/ \E w \in Spaces : CreateWorkspace(r, w)
             \/ \E a \in Agents : InsertAgent(r, a) \/ DeactivateAgent(r, a)
             \/ InsertToken(r) \/ EndRequest(r)
      PROVE  NothingCounted
  <2>1. request' = [request EXCEPT ![r] = Idle]
    BY <1>2 DEF StoreSession, SelectWorkspace, CreateWorkspace, InsertAgent, DeactivateAgent, InsertToken, EndRequest
  <2> QED
    BY <2>1, IdleFine DEF NothingCounted
<1>3. ASSUME NEW r \in Requests, NEW u, NEW w, NEW y,
             request' = [request EXCEPT ![r] =
                [Idle EXCEPT !.stage = "resolved", !.user = u, !.space = w, !.role = y]]
      PROVE  NothingCounted
  <2> DEFINE c == [Idle EXCEPT !.stage = "resolved", !.user = u, !.space = w, !.role = y]
  <2>1. c.stage # "counted"
    BY DEF Idle
  <2> QED
    BY <2>1, <1>3 DEF NothingCounted
<1>4. ASSUME NEW r \in Requests, NEW u \in Users, NEW w \in Spaces, Verify(r, u, w)
      PROVE  NothingCounted
  <2> DEFINE c == [Idle EXCEPT !.stage = "verified", !.user = u, !.space = w]
  <2>1. c.stage # "counted"
    BY DEF Idle
  <2> QED
    BY <2>1, <1>4 DEF NothingCounted, Verify
<1>5. ASSUME NEW r \in Requests, \/ \E u \in Users, w \in Spaces : ResolveActor(r, u, w)
                                 \/ \E s \in Sessions : Resolve(r, s)
      PROVE  NothingCounted
  <2>1. ASSUME NEW u \in Users, NEW w \in Spaces, ResolveActor(r, u, w) PROVE NothingCounted
    BY <1>3, <2>1 DEF ResolveActor
  <2>2. ASSUME NEW s \in Sessions, Resolve(r, s) PROVE NothingCounted
    BY <1>3, <2>2 DEF Resolve
  <2> QED
    BY <1>5, <2>1, <2>2
<1>6. ASSUME NEW r \in Requests, NEW a \in Agents, FindAgent(r, a)
      PROVE  NothingCounted
  <2> DEFINE c == [Idle EXCEPT !.stage = "found", !.agent = a]
  <2>1. c.stage # "counted"
    BY DEF Idle
  <2> QED
    BY <2>1, <1>6 DEF NothingCounted, FindAgent
<1> QED
  BY <1>1, <1>2, <1>4, <1>5, <1>6 DEF AccountsNext

LEMMA PendingCounts ==
    /\ \A w : AgentPending(w) \in SUBSET Processes
    /\ \A a : TokenPending(a) \in SUBSET Processes
BY DEF AgentPending, TokenPending

\* A number and the set of those who are about to add to it.
LEMMA FewerPending ==
    ASSUME NEW P \in SUBSET Processes, NEW Q \in SUBSET P
    PROVE  Cardinality(Q) \in Nat /\ Cardinality(P) \in Nat /\ Cardinality(Q) <= Cardinality(P)
<1>1. IsFiniteSet(P) /\ Cardinality(P) \in Nat
  BY ProcessCount
<1>2. Cardinality(Q) \in Nat
  BY ProcessCount
<1>3. Cardinality(Q) <= Cardinality(P)
  BY <1>1, FS_Subset
<1> QED
  BY <1>1, <1>2, <1>3

LEMMA OneLessPending ==
    ASSUME NEW P \in SUBSET Processes, NEW Q \in SUBSET P, NEW p \in P, p \notin Q
    PROVE  Cardinality(Q) + 1 <= Cardinality(P)
<1>1. Cardinality(P \ {p}) = Cardinality(P) - 1 /\ Cardinality(P) \in Nat
  BY ProcessCount, FS_RemoveElement
<1>2. Cardinality(Q) <= Cardinality(P \ {p}) /\ Cardinality(Q) \in Nat
  BY FewerPending
<1> QED
  BY <1>1, <1>2

LEMMA OneCountedStep ==
    ASSUME Members, OneCounted, AccountsNext
    PROVE  OneCounted'
<1>1. CASE NothingCounted
  BY <1>1, PendingShrinks
<1>2. ASSUME NEW r \in Requests, CountAgents(r) \/ CountTokens(r)
      PROVE  OneCounted'
  BY <1>2, PendingGrows DEF CountAgents, CountTokens
<1> QED
  BY <1>1, <1>2, EndsOrCounts

LEMMA TokensCountedStep ==
    ASSUME Members, OneCounted, TokensCounted, AccountsNext
    PROVE  TokensCounted'
<1> SUFFICES ASSUME NEW a \in Agents
             PROVE  tokens'[a] + Cardinality(TokenPending(a)') <= TokenLimit + Cardinality(Processes) - 1
  BY DEF TokensCounted
<1>1. /\ tokens[a] \in Nat /\ tokens'[a] \in Nat
      /\ tokens[a] + Cardinality(TokenPending(a)) <= TokenLimit + Cardinality(Processes) - 1
      /\ TokenLimit \in Nat /\ Cardinality(Processes) \in Nat
      /\ Cardinality(TokenPending(a)) \in Nat /\ Cardinality(TokenPending(a)') \in Nat
      /\ Cardinality(TokenPending(a)') <= Cardinality(Processes)
  BY TokensStep, AccountsAssumption, ProcessCount, PendingCounts DEF Members, AccountTypes, TokensCounted, TokenPending
<1>2. ASSUME tokens'[a] <= tokens[a], TokenPending(a)' \subseteq TokenPending(a)
      PROVE  tokens'[a] + Cardinality(TokenPending(a)') <= TokenLimit + Cardinality(Processes) - 1
  <2>1. Cardinality(TokenPending(a)') <= Cardinality(TokenPending(a))
    BY <1>2, FewerPending, PendingCounts
  <2> QED
    BY <1>1, <1>2, <2>1
<1>3. ASSUME NEW r \in Requests, InsertToken(r)
      PROVE  tokens'[a] + Cardinality(TokenPending(a)') <= TokenLimit + Cardinality(Processes) - 1
  <2>1. request[r].stage = "counted" /\ request' = [request EXCEPT ![r] = Idle]
        /\ tokens' = [tokens EXCEPT ![request[r].agent] = @ + 1]
    BY <1>3 DEF InsertToken
  <2>2. TokenPending(a)' \subseteq TokenPending(a) /\ ProcessOf[r] \notin TokenPending(a)'
    BY <2>1, PendingEnds, PendingShrinks
  <2>3. CASE request[r].agent # a
    <3>1. tokens'[a] <= tokens[a]
      BY <2>1, <2>3, <1>1 DEF Members, AccountTypes
    <3> QED
      BY <3>1, <2>2, <1>2
  <2>4. CASE request[r].agent = a
    <3>1. ProcessOf[r] \in TokenPending(a)
      BY <2>1, <2>4, AccountsAssumption DEF TokenPending
    <3>2. Cardinality(TokenPending(a)') + 1 <= Cardinality(TokenPending(a))
      BY <3>1, <2>2, OneLessPending, PendingCounts
    <3>3. tokens'[a] = tokens[a] + 1
      BY <2>1, <2>4 DEF Members, AccountTypes
    <3> QED
      BY <3>2, <3>3, <1>1
  <2> QED
    BY <2>3, <2>4
<1>4. ASSUME NEW r \in Requests, CountTokens(r)
      PROVE  tokens'[a] + Cardinality(TokenPending(a)') <= TokenLimit + Cardinality(Processes) - 1
  <2>1. tokens' = tokens /\ LockFree(r) /\ request[r] \in Contexts
    BY <1>4 DEF CountTokens, Members, AccountTypes
  <2>2. CASE ~HasRoom(request[r].agent)
    <3>1. NothingCounted
      BY <2>2, <1>4, IdleFine DEF CountTokens, NothingCounted
    <3> QED
      BY <3>1, <2>1, <1>1, <1>2, PendingShrinks
  <2>3. CASE HasRoom(request[r].agent)
    <3> DEFINE c == [request[r] EXCEPT !.stage = "counted"]
    <3>1. request' = [request EXCEPT ![r] = c] /\ c.agent = request[r].agent
      BY <2>1, <2>3, <1>4 DEF CountTokens, Contexts
    <3>2. CASE c.agent = a
      <4>1. tokens[a] < TokenLimit
        BY <2>3, <3>1, <3>2 DEF HasRoom
      <4> QED
        BY <4>1, <2>1, <1>1
    <3>3. CASE c.agent # a
      <4>1. TokenPending(a)' \subseteq TokenPending(a)
        <5> HIDE DEF c
        <5> QED
          BY <3>1, <3>3, <2>1, PendingGrows
      <4> QED
        BY <4>1, <2>1, <1>1, <1>2
    <3> QED
      BY <3>2, <3>3
  <2> QED
    BY <2>2, <2>3
<1>5. ASSUME NEW r \in Requests, CountAgents(r)
      PROVE  tokens'[a] + Cardinality(TokenPending(a)') <= TokenLimit + Cardinality(Processes) - 1
  <2>1. tokens' = tokens /\ LockFree(r) /\ request[r] \in Contexts /\ request[r].agent = NoAgent
    BY <1>5 DEF CountAgents, Members, AccountTypes, ContextsHold, Fine
  <2>2. \/ request' = [request EXCEPT ![r] = Idle]
        \/ request' = [request EXCEPT ![r] = [request[r] EXCEPT !.stage = "counted"]]
    BY <1>5 DEF CountAgents
  <2>3. \E c : c.agent # a /\ request' = [request EXCEPT ![r] = c]
    <3>1. Idle.agent # a
      BY AccountsAssumption DEF Idle
    <3>2. [request[r] EXCEPT !.stage = "counted"].agent # a
      BY <2>1, AccountsAssumption DEF Contexts
    <3> QED
      BY <2>2, <3>1, <3>2
  <2>4. TokenPending(a)' \subseteq TokenPending(a)
    BY <2>3, <2>1, PendingGrows
  <2> QED
    BY <2>4, <2>1, <1>1, <1>2
<1>6. CASE NothingCounted /\ ~\E r \in Requests : InsertToken(r)
  <2>1. \A r \in Requests : ~InsertToken(r)
    BY <1>6
  <2>2. tokens'[a] <= tokens[a]
    <3>1. tokens \in [Agents -> Nat]
      BY DEF Members, AccountTypes
    <3>2. CASE \/ \E s \in Sessions : Logout(s)
               \/ \E u \in Users : RevokeAll(u)
               \/ \E u \in Users, w \in Spaces : CreateUser(u, w) \/ \E x \in Roles : AddMember(u, w, x)
      <4>1. tokens' = tokens
        BY <3>2 DEF Logout, RevokeAll, Revoke, CreateUser, AddMember
      <4> QED
        BY <4>1, <1>1
    <3>3. CASE \E b \in Agents : RevokeToken(b)
      BY <1>1, <3>1, <3>3 DEF RevokeToken
    <3>4. ASSUME NEW r \in Requests,
                 \/ \E u \in Users, w \in Spaces : Verify(r, u, w) \/ ResolveActor(r, u, w)
                 \/ \E s \in Sessions : StoreSession(r, s) \/ Resolve(r, s)
                 \/ \E s \in Sessions, w \in Spaces : SelectWorkspace(r, s, w)
                 \/ \E w \in Spaces : CreateWorkspace(r, w)
                 \/ \E b \in Agents : FindAgent(r, b) \/ InsertAgent(r, b)
                 \/ CountAgents(r) \/ CountTokens(r) \/ EndRequest(r)
          PROVE  tokens' = tokens
      BY <3>4 DEF Verify, ResolveActor, StoreSession, Resolve, SelectWorkspace, CreateWorkspace, FindAgent,
         InsertAgent, CountAgents, CountTokens, EndRequest
    <3>5. CASE \E r \in Requests, b \in Agents : DeactivateAgent(r, b)
      BY <1>1, <3>1, <3>5 DEF DeactivateAgent
    <3> QED
      BY <1>1, <2>1, <3>2, <3>3, <3>4, <3>5 DEF AccountsNext
  <2> QED
    BY <2>2, <1>6, <1>2, PendingShrinks
<1> QED
  BY <1>3, <1>4, <1>5, <1>6, EndsOrCounts

LEMMA AgentsCountedStep ==
    ASSUME Members, OneCounted, AgentsCounted, AccountsNext
    PROVE  AgentsCounted'
<1> SUFFICES ASSUME NEW w \in Spaces
             PROVE  /\ IsFiniteSet(ActiveAgents(w)')
                    /\ Cardinality(ActiveAgents(w)') + Cardinality(AgentPending(w)')
                          <= AgentLimit + Cardinality(Processes) - 1
  BY DEF AgentsCounted
<1> DEFINE Counted == /\ IsFiniteSet(ActiveAgents(w)')
                      /\ Cardinality(ActiveAgents(w)') + Cardinality(AgentPending(w)')
                            <= AgentLimit + Cardinality(Processes) - 1
<1>1. /\ IsFiniteSet(ActiveAgents(w)) /\ Cardinality(ActiveAgents(w)) \in Nat
      /\ Cardinality(ActiveAgents(w)) + Cardinality(AgentPending(w)) <= AgentLimit + Cardinality(Processes) - 1
      /\ AgentLimit \in Nat /\ Cardinality(Processes) \in Nat
      /\ Cardinality(AgentPending(w)) \in Nat /\ Cardinality(AgentPending(w)') \in Nat
      /\ Cardinality(AgentPending(w)') <= Cardinality(Processes)
  BY FS_CardinalityType, AccountsAssumption, ProcessCount, PendingCounts DEF AgentsCounted, AgentPending
<1>2. ASSUME ActiveAgents(w)' \subseteq ActiveAgents(w), AgentPending(w)' \subseteq AgentPending(w)
      PROVE  Counted
  <2>1. Cardinality(AgentPending(w)') <= Cardinality(AgentPending(w))
    BY <1>2, FewerPending, PendingCounts
  <2>2. IsFiniteSet(ActiveAgents(w)') /\ Cardinality(ActiveAgents(w)') <= Cardinality(ActiveAgents(w))
    BY <1>1, <1>2, FS_Subset
  <2>3. Cardinality(ActiveAgents(w)') \in Nat
    BY <2>2, FS_CardinalityType
  <2> QED
    BY <1>1, <2>1, <2>2, <2>3
<1>3. agent \in [Agents -> [space : Spaces \cup {NoSpace}, owner : Users \cup {Nobody}, active : BOOLEAN]]
  BY DEF Members, AccountTypes
<1>4. ASSUME NEW r \in Requests, NEW a \in Agents, InsertAgent(r, a)
      PROVE  Counted
  <2>1. /\ request[r].stage = "counted" /\ request[r].agent = NoAgent
        /\ request' = [request EXCEPT ![r] = Idle]
        /\ agent' = [agent EXCEPT ![a] = [space |-> request[r].space, owner |-> request[r].user, active |-> TRUE]]
    BY <1>4 DEF InsertAgent
  <2>2. AgentPending(w)' \subseteq AgentPending(w) /\ ProcessOf[r] \notin AgentPending(w)'
    BY <2>1, PendingEnds, PendingShrinks
  <2>3. CASE request[r].space # w
    <3>1. ActiveAgents(w)' \subseteq ActiveAgents(w)
      BY <2>1, <2>3, <1>3 DEF ActiveAgents
    <3> QED
      BY <3>1, <2>2, <1>2
  <2>4. CASE request[r].space = w
    <3>1. ProcessOf[r] \in AgentPending(w)
      BY <2>1, <2>4, AccountsAssumption DEF AgentPending
    <3>2. Cardinality(AgentPending(w)') + 1 <= Cardinality(AgentPending(w))
      BY <3>1, <2>2, OneLessPending, PendingCounts
    <3>3. ActiveAgents(w)' \subseteq ActiveAgents(w) \cup {a}
      BY <2>1, <1>3 DEF ActiveAgents
    <3>4. /\ IsFiniteSet(ActiveAgents(w) \cup {a})
          /\ Cardinality(ActiveAgents(w) \cup {a}) \in Nat
          /\ Cardinality(ActiveAgents(w) \cup {a}) <= Cardinality(ActiveAgents(w)) + 1
      <4>1. /\ IsFiniteSet(ActiveAgents(w) \cup {a})
            /\ Cardinality(ActiveAgents(w) \cup {a}) \in {Cardinality(ActiveAgents(w)), Cardinality(ActiveAgents(w)) + 1}
        BY <1>1, FS_AddElement
      <4> QED
        BY <4>1, <1>1
    <3>5. IsFiniteSet(ActiveAgents(w)') /\ Cardinality(ActiveAgents(w)') <= Cardinality(ActiveAgents(w) \cup {a})
      BY <3>3, <3>4, FS_Subset
    <3>6. Cardinality(ActiveAgents(w)') \in Nat
      BY <3>5, FS_CardinalityType
    <3> QED
      BY <3>2, <3>4, <3>5, <3>6, <1>1
  <2> QED
    BY <2>3, <2>4
<1>5. ASSUME NEW r \in Requests, CountAgents(r)
      PROVE  Counted
  <2>1. agent' = agent /\ LockFree(r) /\ request[r] \in Contexts
    BY <1>5 DEF CountAgents, Members, AccountTypes
  <2>2. ActiveAgents(w)' = ActiveAgents(w)
    BY <2>1 DEF ActiveAgents
  <2>3. CASE request' = [request EXCEPT ![r] = Idle]
    <3>1. NothingCounted
      BY <2>3, IdleFine DEF NothingCounted
    <3> QED
      BY <3>1, <2>2, <1>2, PendingShrinks
  <2>4. CASE /\ ~(Cardinality(ActiveAgents(request[r].space)) >= AgentLimit)
             /\ request' = [request EXCEPT ![r] = [request[r] EXCEPT !.stage = "counted"]]
    <3> DEFINE c == [request[r] EXCEPT !.stage = "counted"]
    <3>1. request' = [request EXCEPT ![r] = c] /\ c.space = request[r].space
      BY <2>1, <2>4 DEF Contexts
    <3>2. CASE c.space = w
      BY <2>4, <2>2, <3>1, <3>2, <1>1
    <3>3. CASE c.space # w
      <4>1. AgentPending(w)' \subseteq AgentPending(w)
        <5> HIDE DEF c
        <5> QED
          BY <3>1, <3>3, <2>1, PendingGrows
      <4> QED
        BY <4>1, <2>2, <1>2
    <3> QED
      BY <3>2, <3>3
  <2> QED
    BY <2>3, <2>4, <1>5 DEF CountAgents
<1>6. ASSUME NEW r \in Requests, CountTokens(r)
      PROVE  Counted
  <2>1. agent' = agent /\ LockFree(r) /\ request[r] \in Contexts /\ request[r].agent \in Agents
    BY <1>6 DEF CountTokens, Members, AccountTypes, ContextsHold, Fine
  <2>2. ActiveAgents(w)' = ActiveAgents(w)
    BY <2>1 DEF ActiveAgents
  <2>3. CASE request' = [request EXCEPT ![r] = Idle]
    <3>1. NothingCounted
      BY <2>3, IdleFine DEF NothingCounted
    <3> QED
      BY <3>1, <2>2, <1>2, PendingShrinks
  <2>4. CASE request' = [request EXCEPT ![r] = [request[r] EXCEPT !.stage = "counted"]]
    <3> DEFINE c == [request[r] EXCEPT !.stage = "counted"]
    <3>1. request' = [request EXCEPT ![r] = c] /\ c.agent # NoAgent
      BY <2>1, <2>4, AccountsAssumption DEF Contexts
    <3>2. AgentPending(w)' \subseteq AgentPending(w)
      <4> HIDE DEF c
      <4> QED
        BY <3>1, <2>1, PendingGrows
    <3> QED
      BY <3>2, <2>2, <1>2
  <2> QED
    BY <2>3, <2>4, <1>6 DEF CountTokens
<1>7. ASSUME NothingCounted, \A r \in Requests, a \in Agents : ~InsertAgent(r, a)
      PROVE  Counted
  <2>1. \A r \in Requests, a \in Agents : ~InsertAgent(r, a)
    BY <1>7
  <2>2. ActiveAgents(w)' \subseteq ActiveAgents(w)
    <3>1. CASE \/ \E s \in Sessions : Logout(s)
               \/ \E u \in Users : RevokeAll(u)
               \/ \E a \in Agents : RevokeToken(a)
               \/ \E u \in Users, x \in Spaces : CreateUser(u, x) \/ \E y \in Roles : AddMember(u, x, y)
      <4>1. agent' = agent
        BY <3>1 DEF Logout, RevokeAll, Revoke, RevokeToken, CreateUser, AddMember
      <4> QED
        BY <4>1 DEF ActiveAgents
    <3>2. ASSUME NEW r \in Requests,
                 \/ \E u \in Users, x \in Spaces : Verify(r, u, x) \/ ResolveActor(r, u, x)
                 \/ \E s \in Sessions : StoreSession(r, s) \/ Resolve(r, s)
                 \/ \E s \in Sessions, x \in Spaces : SelectWorkspace(r, s, x)
                 \/ \E x \in Spaces : CreateWorkspace(r, x)
                 \/ \E a \in Agents : FindAgent(r, a)
                 \/ CountAgents(r) \/ CountTokens(r) \/ InsertToken(r) \/ EndRequest(r)
          PROVE  ActiveAgents(w)' \subseteq ActiveAgents(w)
      <4>1. agent' = agent
        BY <3>2 DEF Verify, ResolveActor, StoreSession, Resolve, SelectWorkspace, CreateWorkspace, FindAgent,
           CountAgents, CountTokens, InsertToken, EndRequest
      <4> QED
        BY <4>1 DEF ActiveAgents
    <3>3. ASSUME NEW r \in Requests, NEW a \in Agents, DeactivateAgent(r, a)
          PROVE  ActiveAgents(w)' \subseteq ActiveAgents(w)
      <4>1. agent' = [agent EXCEPT ![a].active = FALSE]
        BY <3>3 DEF DeactivateAgent
      <4>2. \A b \in Agents : agent'[b].space = agent[b].space /\ (agent'[b].active => agent[b].active)
        BY <4>1, <1>3
      <4> QED
        BY <4>2 DEF ActiveAgents
    <3> QED
      BY <2>1, <3>1, <3>2, <3>3 DEF AccountsNext
  <2> QED
    BY <2>2, <1>7, <1>2, PendingShrinks
<1> HIDE DEF Counted
<1>8. Counted
  <2>1. CASE \E r \in Requests, a \in Agents : InsertAgent(r, a)
    BY <2>1, <1>4
  <2>2. CASE \E r \in Requests : CountAgents(r) \/ CountTokens(r)
    BY <2>2, <1>5, <1>6
  <2>3. NothingCounted \/ \E r \in Requests : CountAgents(r) \/ CountTokens(r)
    BY EndsOrCounts
  <2>4. CASE NothingCounted /\ \A r \in Requests, a \in Agents : ~InsertAgent(r, a)
    BY <2>4, <1>7
  <2> QED
    BY <2>1, <2>2, <2>3, <2>4
<1> QED
  BY <1>8 DEF Counted

LEMMA AccountsStep == AccountsInv /\ [AccountsNext]_accountVars => AccountsInv'
<1> SUFFICES ASSUME AccountsInv, [AccountsNext]_accountVars PROVE AccountsInv'
  OBVIOUS
<1>1. Members'
  BY MembersStep DEF AccountsInv
<1>2. CASE AccountsNext
  BY <1>1, <1>2, OneCountedStep, AgentsCountedStep, TokensCountedStep DEF AccountsInv
<1>3. CASE UNCHANGED accountVars
  BY <1>1, <1>3 DEF AccountsInv, accountVars, OneCounted, AgentsCounted, TokensCounted,
     ActiveAgents, AgentPending, TokenPending
<1> QED
  BY <1>2, <1>3

LEMMA AccountsInvHolds == AccountsInv => JoinsComplete /\ LimitsNearlyHold
<1> SUFFICES ASSUME AccountsInv PROVE JoinsComplete /\ LimitsNearlyHold
  OBVIOUS
<1>1. JoinsComplete
  BY DEF AccountsInv, Members, RowsHold, Knows, JoinsComplete
<1>2. \A w \in Spaces : Cardinality(ActiveAgents(w)) <= AgentLimit + Cardinality(Processes) - 1
  <2> TAKE w \in Spaces
  <2>1. /\ Cardinality(ActiveAgents(w)) \in Nat /\ Cardinality(AgentPending(w)) \in Nat
        /\ Cardinality(ActiveAgents(w)) + Cardinality(AgentPending(w)) <= AgentLimit + Cardinality(Processes) - 1
    BY FS_CardinalityType, PendingCounts, ProcessCount DEF AccountsInv, AgentsCounted
  <2> QED
    BY <2>1, ProcessCount, AccountsAssumption
<1>3. \A a \in Agents : tokens[a] <= TokenLimit + Cardinality(Processes) - 1
  <2> TAKE a \in Agents
  <2>1. /\ tokens[a] \in Nat /\ Cardinality(TokenPending(a)) \in Nat
        /\ tokens[a] + Cardinality(TokenPending(a)) <= TokenLimit + Cardinality(Processes) - 1
    BY PendingCounts, ProcessCount DEF AccountsInv, TokensCounted, Members, AccountTypes
  <2> QED
    BY <2>1, ProcessCount, AccountsAssumption
<1> QED
  BY <1>1, <1>2, <1>3 DEF LimitsNearlyHold

(***************************************************************************)
(* The provider calls.  A call that a late reading of the clock lets the   *)
(* limiter forget is older than the window by the clock itself, so that    *)
(* all the calls that still count are rows when the next one is counted.   *)
(***************************************************************************)

\* A row that is gone is older than the window.
ForgottenIsOld == \A c \in let \ rows : c.at < clock - Window

LimiterInv == LimiterTypeOK /\ ForgottenIsOld /\ WindowIsBounded

LEMMA LimiterStart == LimiterInit => LimiterInv
<1>1. Cardinality({}) = 0 /\ IsFiniteSet({})
  BY FS_EmptySet
<1>2. LimiterInit => Recent = {}
  BY DEF LimiterInit, Recent
<1> QED
  BY <1>1, <1>2, LimiterAssumption DEF LimiterInit, LimiterInv, LimiterTypeOK, ForgottenIsOld, WindowIsBounded

\* A late reading of the clock does not make the limiter forget a call that still counts.
LEMMA RecentIsKept ==
    ASSUME LimiterInv, NEW t \in Readings
    PROVE  Recent \subseteq rows \ Expired(t)
<1> SUFFICES ASSUME NEW c \in Recent PROVE c \in rows \ Expired(t)
  OBVIOUS
<1>1. /\ clock \in Int /\ t \in Int /\ t <= clock /\ Window \in Int /\ MaxDelay \in Int
      /\ c \in let /\ c.at \in Int /\ c.real \in Int /\ c.real - c.at <= MaxDelay
      /\ c.real >= clock - (Window - MaxDelay)
  BY LimiterAssumption DEF Readings, Recent, LimiterInv, LimiterTypeOK, Call
<1>2. ~(c.at < clock - Window) /\ ~(c.at < t - Window)
  BY <1>1
<1> QED
  BY <1>1, <1>2 DEF LimiterInv, ForgottenIsOld, Expired

LEMMA LimiterStep == LimiterInv /\ [LimiterNext]_limiterVars => LimiterInv'
<1> SUFFICES ASSUME LimiterInv, [LimiterNext]_limiterVars PROVE LimiterInv'
  OBVIOUS
<1>1. clock \in Nat /\ Window \in Nat /\ MaxDelay \in Nat /\ Limit \in Nat
  BY LimiterAssumption DEF LimiterInv, LimiterTypeOK
<1>2. \A S : S \subseteq let => IsFiniteSet(S) /\ Cardinality(S) \in Nat
  <2> TAKE S
  <2> HAVE S \subseteq let
  <2>1. IsFiniteSet(S)
    BY FS_Subset DEF LimiterInv, LimiterTypeOK
  <2> QED
    BY <2>1, FS_CardinalityType
<1>3. CASE TimePasses
  <2>1. clock' = clock + 1 /\ rows' = rows /\ let' = let
    BY <1>3 DEF TimePasses
  <2>2. LimiterTypeOK'
    BY <2>1, <1>1 DEF LimiterInv, LimiterTypeOK, Call
  <2>3. ForgottenIsOld'
    BY <2>1, <1>1 DEF LimiterInv, LimiterTypeOK, ForgottenIsOld, Call
  <2>4. Recent' \subseteq Recent /\ Recent \subseteq let
    BY <2>1, <1>1 DEF LimiterInv, LimiterTypeOK, Recent, Call
  <2>5. Cardinality(Recent') <= Cardinality(Recent)
    BY <2>4, <1>2, FS_Subset
  <2>6. Cardinality(Recent') \in Nat /\ Cardinality(Recent) \in Nat
    BY <2>4, <1>2
  <2>7. WindowIsBounded'
    BY <2>5, <2>6, <1>1 DEF LimiterInv, WindowIsBounded
  <2> QED
    BY <2>2, <2>3, <2>7 DEF LimiterInv
<1>4. ASSUME NEW t \in Readings, Consume(t), ~Admits(t)
      PROVE  LimiterInv'
  <2>1. clock' = clock /\ rows' = rows \ Expired(t) /\ let' = let
    BY <1>4 DEF Consume
  <2>2. t \in Nat /\ t <= clock
    BY <1>1 DEF Readings
  <2>3. LimiterTypeOK'
    BY <2>1 DEF LimiterInv, LimiterTypeOK
  <2>4. ForgottenIsOld'
    BY <2>1, <2>2, <1>1 DEF LimiterInv, LimiterTypeOK, ForgottenIsOld, Expired, Call
  <2>5. WindowIsBounded'
    BY <2>1 DEF LimiterInv, WindowIsBounded, Recent
  <2> QED
    BY <2>3, <2>4, <2>5 DEF LimiterInv
<1>5. ASSUME NEW t \in Readings, Consume(t), Admits(t)
      PROVE  LimiterInv'
  <2> DEFINE call == [call |-> Cardinality(let), at |-> t, real |-> clock]
             kept == rows \ Expired(t)
  <2>1. clock' = clock /\ rows' = kept \cup {call} /\ let' = let \cup {call}
    BY <1>5 DEF Consume
  <2>2. t \in Nat /\ t <= clock /\ clock - t <= MaxDelay
    BY <1>1 DEF Readings
  <2>3. call \in Call /\ call.at = t /\ call.real = clock
    BY <1>1, <1>2, <2>2 DEF Call
  <2>4. kept \subseteq let /\ IsFiniteSet(let)
    BY DEF LimiterInv, LimiterTypeOK
  <2> HIDE DEF call
  <2>5. IsFiniteSet(let')
    BY <2>1, <2>4, FS_AddElement
  <2>6. LimiterTypeOK'
    BY <2>1, <2>2, <2>3, <2>4, <2>5, <1>1 DEF LimiterInv, LimiterTypeOK
  <2>7. ForgottenIsOld'
    BY <2>1, <2>2, <1>1 DEF LimiterInv, LimiterTypeOK, ForgottenIsOld, Expired, Call
  <2>8. Recent' \subseteq kept \cup {call}
    <3>1. Recent' \subseteq Recent \cup {call}
      BY <2>1 DEF Recent
    <3> QED
      BY <3>1, <1>5, RecentIsKept
  <2>9. IsFiniteSet(kept \cup {call}) /\ Cardinality(kept \cup {call}) <= Limit
    <3>1. IsFiniteSet(kept) /\ Cardinality(kept) \in Nat /\ Cardinality(kept) < Limit
      BY <2>4, <1>2, <1>5 DEF Admits
    <3>2. /\ IsFiniteSet(kept \cup {call})
          /\ Cardinality(kept \cup {call}) \in {Cardinality(kept), Cardinality(kept) + 1}
      <4> HIDE DEF kept
      <4> QED
        BY <3>1, FS_AddElement
    <3> QED
      BY <3>1, <3>2, <1>1
  <2>10. Cardinality(Recent') <= Cardinality(kept \cup {call})
    BY <2>8, <2>9, FS_Subset
  <2>11. Cardinality(Recent') \in Nat /\ Cardinality(kept \cup {call}) \in Nat
    <3>1. IsFiniteSet(Recent')
      BY <2>8, <2>9, FS_Subset
    <3> QED
      BY <3>1, <2>9, FS_CardinalityType
  <2>12. WindowIsBounded'
    BY <2>9, <2>10, <2>11, <1>1 DEF WindowIsBounded
  <2> QED
    BY <2>6, <2>7, <2>12 DEF LimiterInv
<1>6. CASE UNCHANGED limiterVars
  BY <1>6 DEF limiterVars, LimiterInv, LimiterTypeOK, ForgottenIsOld, WindowIsBounded, Recent
<1> QED
  BY <1>3, <1>4, <1>5, <1>6 DEF LimiterNext

(***************************************************************************)
(* The log-ins.  From any instant in the window on, the passwords tried    *)
(* are no more than the failures recorded (as late as MaxLag before) and   *)
(* the threads that have failed and not recorded it yet (TriesRecorded);   *)
(* and the failures in the window, with the threads that were let in, are  *)
(* no more than the limit and the other threads (LetInBounded).            *)
(***************************************************************************)

\* The events of one instant are numbered from 0 on.
SameTime(S, t) == {e \in S : e.at = t}
Numbered(S) == \A e \in S : e.nth < Cardinality(SameTime(S, e.at))
Events(S) == S \subseteq Event /\ IsFiniteSet(S) /\ Numbered(S)

Counted(S, t) == Cardinality(Since(S, t))

LEMMA EventsCounted ==
    ASSUME NEW S, Events(S), NEW t
    PROVE  /\ IsFiniteSet(Since(S, t)) /\ Counted(S, t) \in Nat
           /\ IsFiniteSet(SameTime(S, t)) /\ Cardinality(SameTime(S, t)) \in Nat
<1>1. Since(S, t) \subseteq S /\ SameTime(S, t) \subseteq S
  BY DEF Since, SameTime
<1>2. IsFiniteSet(Since(S, t)) /\ IsFiniteSet(SameTime(S, t))
  BY <1>1, FS_Subset DEF Events
<1> QED
  BY <1>2, FS_CardinalityType DEF Counted

LEMMA NoEvents == Events({}) /\ \A t : Counted({}, t) = 0
<1>1. \A t : Since({}, t) = {}
  BY DEF Since
<1> QED
  BY <1>1, FS_EmptySet DEF Events, Numbered, Counted

\* What is older is forgotten, and nothing else.
LEMMA SinceKeeps ==
    ASSUME NEW S, Events(S), NEW t \in Int
    PROVE  /\ Events(Since(S, t))
           /\ \A x \in Int : x >= t => Counted(Since(S, t), x) = Counted(S, x)
<1>1. Since(S, t) \subseteq S /\ IsFiniteSet(Since(S, t))
  BY EventsCounted DEF Since
<1>2. ASSUME NEW e \in Since(S, t) PROVE SameTime(Since(S, t), e.at) = SameTime(S, e.at)
  BY DEF Since, SameTime
<1>3. Events(Since(S, t))
  BY <1>1, <1>2 DEF Events, Numbered
<1>4. ASSUME NEW x \in Int, x >= t PROVE Since(Since(S, t), x) = Since(S, x)
  <2>1. \A e \in S : e.at \in Int
    BY DEF Events, Event
  <2> QED
    BY <1>4, <2>1 DEF Since
<1> QED
  BY <1>3, <1>4 DEF Counted

LEMMA LaterFewer ==
    ASSUME NEW S, Events(S), NEW t \in Int, NEW x \in Int, t <= x
    PROVE  Counted(S, x) <= Counted(S, t)
<1>1. \A e \in S : e.at \in Int
  BY DEF Events, Event
<1>2. Since(S, x) \subseteq Since(S, t)
  BY <1>1 DEF Since
<1>3. IsFiniteSet(Since(S, t))
  BY EventsCounted
<1> QED
  BY <1>2, <1>3, FS_Subset DEF Counted

\* An event that is added counts once.
LEMMA WithCounts ==
    ASSUME NEW S, Events(S), NEW t \in Nat
    PROVE  /\ Events(With(S, t))
           /\ \A x \in Int : Counted(With(S, t), x) = IF t >= x THEN Counted(S, x) + 1 ELSE Counted(S, x)
<1> DEFINE n == Cardinality(SameTime(S, t))
           new == [at |-> t, nth |-> n]
<1>1. n \in Nat /\ IsFiniteSet(SameTime(S, t))
  BY EventsCounted
<1>2. new.at = t /\ new.nth = n /\ new \in Event
  BY <1>1 DEF Event
<1>3. With(S, t) = S \cup {new}
  BY DEF With, SameTime
<1> HIDE DEF n, new
<1>4. new \notin S
  <2> SUFFICES ASSUME new \in S PROVE FALSE
    OBVIOUS
  <2>1. new.nth < Cardinality(SameTime(S, new.at))
    BY DEF Events, Numbered
  <2> QED
    BY <1>1, <1>2, <2>1 DEF n
<1>5. /\ SameTime(With(S, t), t) = SameTime(S, t) \cup {new}
      /\ \A x : x # t => SameTime(With(S, t), x) = SameTime(S, x)
  BY <1>2, <1>3 DEF SameTime
<1>6. Cardinality(SameTime(S, t) \cup {new}) = n + 1
  <2>1. new \notin SameTime(S, t)
    BY <1>4 DEF SameTime
  <2> QED
    BY <1>1, <2>1, FS_AddElement DEF n
<1>7. Numbered(With(S, t))
  <2> SUFFICES ASSUME NEW e \in With(S, t) PROVE e.nth < Cardinality(SameTime(With(S, t), e.at))
    BY DEF Numbered
  <2>1. CASE e = new
    BY <2>1, <1>1, <1>2, <1>5, <1>6
  <2>2. CASE e \in S
    <3>1. e.nth < Cardinality(SameTime(S, e.at)) /\ e.nth \in Nat
      BY <2>2 DEF Events, Numbered, Event
    <3>2. CASE e.at # t
      BY <3>1, <3>2, <1>5
    <3>3. CASE e.at = t
      BY <3>1, <3>3, <1>1, <1>5, <1>6 DEF n
    <3> QED
      BY <3>2, <3>3
  <2> QED
    BY <1>3, <2>1, <2>2
<1>8. Events(With(S, t))
  <2>1. IsFiniteSet(S \cup {new})
    BY FS_AddElement DEF Events
  <2> QED
    BY <1>2, <1>3, <1>7, <2>1 DEF Events
<1>9. ASSUME NEW x \in Int, t >= x PROVE Counted(With(S, t), x) = Counted(S, x) + 1
  <2>1. Since(With(S, t), x) = Since(S, x) \cup {new} /\ new \notin Since(S, x)
    BY <1>2, <1>3, <1>4, <1>9 DEF Since
  <2>2. IsFiniteSet(Since(S, x))
    BY EventsCounted
  <2> QED
    BY <2>1, <2>2, FS_AddElement DEF Counted
<1>10. ASSUME NEW x \in Int, ~(t >= x) PROVE Counted(With(S, t), x) = Counted(S, x)
  <2>1. Since(With(S, t), x) = Since(S, x)
    BY <1>2, <1>3, <1>10 DEF Since
  <2> QED
    BY <2>1 DEF Counted
<1> QED
  BY <1>8, <1>9, <1>10

-----------------------------------------------------------------------------
Failed == {l \in Logins : login[l] = "failed"}
LetIn == {l \in Logins : login[l] \in {"verifying", "failed"}}

\* What has been tried has been recorded, or is about to be.
TriesRecorded ==
    /\ \A e \in tried : e.at <= time
    /\ \A x \in Int : x >= time - (AttemptWindow - MaxLag) =>
          Counted(tried, x) <= Counted(attempts, x - MaxLag) + Cardinality(Failed)

\* Whoever was let in was so when fewer than limit were recorded.
LetInBounded ==
    Counted(attempts, time - AttemptWindow) + Cardinality(LetIn)
        <= AttemptLimit + Cardinality(Logins) - 1

LoginInv ==
    /\ LoginTypeOK /\ Events(attempts) /\ Events(tried)
    /\ TriesRecorded /\ LetInBounded

LEMMA LoginNumbers ==
    /\ AttemptLimit \in Nat \ {0} /\ AttemptWindow \in Nat /\ MaxLag \in Nat /\ LastTime \in Nat /\ BlockTime \in Nat
    /\ Cardinality(Logins) \in Nat
    /\ \A S \in SUBSET Logins : /\ IsFiniteSet(S) /\ Cardinality(S) \in Nat
                                /\ Cardinality(S) <= Cardinality(Logins)
<1>1. IsFiniteSet(Logins)
  BY LoginAssumption
<1>2. ASSUME NEW S \in SUBSET Logins
      PROVE  IsFiniteSet(S) /\ Cardinality(S) \in Nat /\ Cardinality(S) <= Cardinality(Logins)
  <2>1. IsFiniteSet(S) /\ Cardinality(S) <= Cardinality(Logins)
    BY <1>1, FS_Subset
  <2> QED
    BY <2>1, FS_CardinalityType
<1> QED
  BY <1>1, <1>2, FS_CardinalityType, LoginAssumption

LEMMA ThreadsCounted ==
    /\ Cardinality(Failed) \in Nat /\ Cardinality(LetIn) \in Nat
    /\ Cardinality(Failed) <= Cardinality(LetIn) /\ Cardinality(LetIn) <= Cardinality(Logins)
<1>1. Failed \subseteq LetIn /\ LetIn \subseteq Logins
  BY DEF Failed, LetIn
<1>2. IsFiniteSet(LetIn) /\ Cardinality(Failed) \in Nat /\ Cardinality(LetIn) \in Nat
      /\ Cardinality(LetIn) <= Cardinality(Logins)
  BY <1>1, LoginNumbers
<1> QED
  BY <1>1, <1>2, FS_Subset

LEMMA LoginStart == LoginInit => LoginInv
<1> SUFFICES ASSUME LoginInit PROVE LoginInv
  OBVIOUS
<1>1. LoginTypeOK
  BY LoginNumbers DEF LoginInit, LoginTypeOK
<1>2. Events(attempts) /\ Events(tried)
  BY NoEvents DEF LoginInit
<1>3. \A x : Counted(tried, x) = 0 /\ Counted(attempts, x) = 0
  BY NoEvents DEF LoginInit
<1>4. Failed = {} /\ LetIn = {}
  BY DEF LoginInit, Failed, LetIn
<1>5. TriesRecorded
  BY <1>3, <1>4, FS_EmptySet DEF TriesRecorded, LoginInit
<1>6. LetInBounded
  BY <1>3, <1>4, FS_EmptySet, LoginNumbers DEF LetInBounded
<1> QED
  BY <1>1, <1>2, <1>5, <1>6 DEF LoginInv

\* A thread that goes from one thing to another.
LEMMA ThreadMoves ==
    ASSUME LoginTypeOK, NEW l \in Logins, NEW to, login' = [login EXCEPT ![l] = to]
    PROVE  /\ login[l] = "idle" /\ to = "verifying" => Failed' = Failed
           /\ login[l] = "verifying" /\ to = "failed" =>
                 Cardinality(Failed') = Cardinality(Failed) + 1 /\ LetIn' = LetIn
           /\ login[l] = "verifying" /\ to = "passed" =>
                 Failed' = Failed /\ Cardinality(LetIn') = Cardinality(LetIn) - 1
           /\ login[l] = "failed" /\ to = "idle" =>
                 Cardinality(Failed') = Cardinality(Failed) - 1 /\ Cardinality(LetIn') = Cardinality(LetIn) - 1
<1>1. login'[l] = to /\ \A k \in Logins : k # l => login'[k] = login[k]
  BY DEF LoginTypeOK
<1>2. IsFiniteSet(Failed) /\ IsFiniteSet(LetIn)
  BY LoginNumbers DEF Failed, LetIn
<1>3. ASSUME to = "failed", login[l] # "failed" PROVE Cardinality(Failed') = Cardinality(Failed) + 1
  <2>1. Failed' = Failed \cup {l} /\ l \notin Failed
    BY <1>1, <1>3 DEF Failed
  <2> QED
    BY <2>1, <1>2, FS_AddElement
<1>4. ASSUME to # "failed", login[l] = "failed" PROVE Cardinality(Failed') = Cardinality(Failed) - 1
  <2>1. Failed' = Failed \ {l} /\ l \in Failed
    BY <1>1, <1>4 DEF Failed
  <2> QED
    BY <2>1, <1>2, FS_RemoveElement
<1>5. ASSUME to # "failed", login[l] # "failed" PROVE Failed' = Failed
  BY <1>1, <1>5 DEF Failed
<1>6. ASSUME to = "failed", login[l] = "verifying" PROVE LetIn' = LetIn
  BY <1>1, <1>6 DEF LetIn
<1>7. ASSUME to \notin {"verifying", "failed"}, login[l] \in {"verifying", "failed"}
      PROVE  Cardinality(LetIn') = Cardinality(LetIn) - 1
  <2>1. LetIn' = LetIn \ {l} /\ l \in LetIn
    BY <1>1, <1>7 DEF LetIn
  <2> QED
    BY <2>1, <1>2, FS_RemoveElement
<1> QED
  BY <1>3, <1>4, <1>5, <1>6, <1>7

LEMMA LoginTypesKeep == LoginInv /\ [LoginNext]_loginVars => LoginTypeOK' /\ Events(attempts)' /\ Events(tried)'
<1> SUFFICES ASSUME LoginInv, [LoginNext]_loginVars
             PROVE  LoginTypeOK' /\ Events(attempts)' /\ Events(tried)'
  OBVIOUS
<1>1. LoginTypeOK /\ Events(attempts) /\ Events(tried)
  BY DEF LoginInv
<1>2. \A t \in ClockReadings : /\ t \in Nat /\ t <= LastTime /\ t - AttemptWindow \in Int
                               /\ t + BlockTime \in 0..(LastTime + BlockTime)
  BY <1>1, LoginNumbers DEF ClockReadings, LoginTypeOK
<1>3. \A S : Events(S) => S \subseteq Event
  BY DEF Events
<1>4. \A t \in ClockReadings : Events(InWindow(attempts, t)) /\ Events(With(InWindow(attempts, t), t))
  <2> TAKE t \in ClockReadings
  <2>1. Events(InWindow(attempts, t))
    BY <1>1, <1>2, SinceKeeps DEF InWindow
  <2> QED
    BY <2>1, <1>2, WithCounts
<1>5. time \in Nat /\ Events(With(tried, time)) /\ Events({})
  BY <1>1, LoginNumbers, WithCounts, NoEvents DEF LoginTypeOK
<1>6. CASE LoginTick
  BY <1>1, <1>6, LoginNumbers DEF LoginTick, LoginTypeOK
<1>7. ASSUME NEW l \in Logins, Allowed(l) PROVE LoginTypeOK' /\ Events(attempts)' /\ Events(tried)'
  BY <1>1, <1>3, <1>4, <1>7 DEF Allowed, LoginTypeOK
<1>8. ASSUME NEW l \in Logins, WrongPassword(l) PROVE LoginTypeOK' /\ Events(attempts)' /\ Events(tried)'
  BY <1>1, <1>3, <1>5, <1>8 DEF WrongPassword, LoginTypeOK
<1>9. ASSUME NEW l \in Logins, RightPassword(l) PROVE LoginTypeOK' /\ Events(attempts)' /\ Events(tried)'
  BY <1>1, <1>9 DEF RightPassword, LoginTypeOK
<1>10. ASSUME NEW l \in Logins, RecordFailure(l) PROVE LoginTypeOK' /\ Events(attempts)' /\ Events(tried)'
  BY <1>1, <1>2, <1>3, <1>4, <1>10 DEF RecordFailure, LoginTypeOK
<1>11. ASSUME NEW l \in Logins, RecordSuccess(l) PROVE LoginTypeOK' /\ Events(attempts)' /\ Events(tried)'
  BY <1>1, <1>3, <1>5, <1>11, LoginNumbers DEF RecordSuccess, LoginTypeOK
<1>12. CASE UNCHANGED loginVars
  BY <1>1, <1>12 DEF loginVars, LoginTypeOK
<1> QED
  BY <1>6, <1>7, <1>8, <1>9, <1>10, <1>11, <1>12 DEF LoginNext

LEMMA LoginStep == LoginInv /\ [LoginNext]_loginVars => LoginInv'
<1> SUFFICES ASSUME LoginInv, [LoginNext]_loginVars PROVE LoginInv'
  OBVIOUS
<1> DEFINE floor == time - (AttemptWindow - MaxLag)
           old == time - AttemptWindow
<1>1. LoginTypeOK' /\ Events(attempts)' /\ Events(tried)'
  BY LoginTypesKeep
<1>2. /\ LoginTypeOK /\ Events(attempts) /\ Events(tried) /\ TriesRecorded /\ LetInBounded
      /\ time \in Nat /\ floor \in Int /\ old \in Int /\ floor - MaxLag = old
  BY LoginNumbers DEF LoginInv, LoginTypeOK
<1>3. \A x \in Int : /\ Counted(tried, x) \in Nat /\ Counted(attempts, x) \in Nat
                     /\ Counted(tried', x) \in Nat /\ Counted(attempts', x) \in Nat
  BY <1>1, <1>2, EventsCounted
<1>4. Cardinality(Failed) \in Nat /\ Cardinality(LetIn) \in Nat
      /\ Cardinality(Failed) <= Cardinality(LetIn) /\ Cardinality(LetIn) <= Cardinality(Logins)
  BY ThreadsCounted
<1>5. \A t \in ClockReadings : t \in Nat /\ t <= time /\ time - t <= MaxLag /\ t - AttemptWindow \in Int
  BY <1>2, LoginNumbers DEF ClockReadings
<1>6. ASSUME NEW t \in ClockReadings
      PROVE  /\ Events(InWindow(attempts, t))
             /\ \A x \in Int : x >= old => Counted(InWindow(attempts, t), x) = Counted(attempts, x)
  <2>1. t - AttemptWindow \in Int /\ t - AttemptWindow <= old
    BY <1>2, <1>5, LoginNumbers
  <2>2. \A x \in Int : x >= old => x >= t - AttemptWindow
    BY <1>2, <2>1
  <2> HIDE DEF old
  <2> QED
    BY <1>2, <2>1, <2>2, SinceKeeps DEF InWindow
<1>7. CASE UNCHANGED loginVars
  BY <1>1, <1>2, <1>7 DEF loginVars, LoginInv, TriesRecorded, LetInBounded, Failed, LetIn, Counted, Since
<1>8. CASE LoginTick
  <2>1. time' = time + 1 /\ attempts' = attempts /\ tried' = tried /\ login' = login
    BY <1>8 DEF LoginTick
  <2>2. Failed' = Failed /\ LetIn' = LetIn
    BY <2>1 DEF Failed, LetIn
  <2>3. \A x \in Int : Counted(tried, x)' = Counted(tried, x) /\ Counted(attempts, x)' = Counted(attempts, x)
    BY <2>1 DEF Counted, Since
  <2>4. TriesRecorded'
    <3>1. \A e \in tried' : e.at <= time'
      BY <2>1, <1>2 DEF TriesRecorded, Events, Event
    <3>2. \A x \in Int : x >= time' - (AttemptWindow - MaxLag) => x >= floor
      BY <2>1, <1>2, LoginNumbers
    <3> QED
      BY <3>1, <3>2, <1>2, <2>1, <2>2 DEF TriesRecorded
  <2>5. LetInBounded'
    <3>1. old + 1 \in Int /\ old <= old + 1 /\ time' - AttemptWindow = old + 1
      BY <2>1, <1>2, LoginNumbers
    <3>2. Counted(attempts, old + 1) <= Counted(attempts, old)
      BY <3>1, <1>2, LaterFewer
    <3>3. Counted(attempts, old) + Cardinality(LetIn) <= AttemptLimit + Cardinality(Logins) - 1
      BY <1>2 DEF LetInBounded
    <3>4. Counted(attempts, old + 1) + Cardinality(LetIn) <= AttemptLimit + Cardinality(Logins) - 1
      BY <3>1, <3>2, <3>3, <1>2, <1>3, <1>4, LoginNumbers
    <3> QED
      BY <3>1, <3>4, <2>1, <2>2 DEF LetInBounded
  <2> QED
    BY <1>1, <2>4, <2>5 DEF LoginInv
<1>9. ASSUME NEW l \in Logins, Allowed(l) PROVE LoginInv'
  <2>1. PICK t \in ClockReadings :
          /\ login[l] = "idle"
          /\ attempts' = IF blockedUntil > t THEN attempts ELSE InWindow(attempts, t)
          /\ login' = IF Allows(t) THEN [login EXCEPT ![l] = "verifying"] ELSE login
          /\ UNCHANGED <<time, blockedUntil, tried>>
    BY <1>9 DEF Allowed
  <2>2. \A x \in Int : x >= old => Counted(attempts', x) = Counted(attempts, x)
    BY <2>1, <1>6
  <2>3. Failed' = Failed
    <3>1. CASE login' = login
      BY <3>1 DEF Failed
    <3>2. CASE login' = [login EXCEPT ![l] = "verifying"]
      BY <3>2, <2>1, <1>2, ThreadMoves
    <3> QED
      BY <2>1, <3>1, <3>2
  <2>4. TriesRecorded'
    <3>1. \A x \in Int : x >= floor => x - MaxLag \in Int /\ x - MaxLag >= old
      BY <1>2, LoginNumbers
    <3>2. \A x \in Int : x >= floor => Counted(tried, x) <= Counted(attempts', x - MaxLag) + Cardinality(Failed)
      BY <3>1, <2>2, <1>2 DEF TriesRecorded
    <3> QED
      BY <3>2, <2>1, <2>3, <1>2 DEF TriesRecorded
  <2>5. LetInBounded'
    <3>1. Counted(attempts', old) = Counted(attempts, old)
      BY <2>2, <1>2
    <3>2. CASE login' = login
      <4>1. LetIn' = LetIn
        BY <3>2 DEF LetIn
      <4> QED
        BY <4>1, <3>1, <2>1, <1>2 DEF LetInBounded
    <3>3. CASE Allows(t)
      <4>1. Cardinality(InWindow(attempts, t)) < AttemptLimit
        BY <3>3 DEF Allows
      <4>2. t - AttemptWindow <= old /\ t - AttemptWindow \in Int /\ old \in Int
        BY <1>2, <1>5, LoginNumbers
      <4>3. Counted(attempts, old) <= Counted(attempts, t - AttemptWindow)
        BY <4>2, <1>2, LaterFewer
      <4>4. Counted(attempts, t - AttemptWindow) = Cardinality(InWindow(attempts, t))
        BY DEF Counted, InWindow
      <4>5. Counted(attempts, old) + Cardinality(LetIn') <= AttemptLimit + Cardinality(Logins) - 1
        <5>1. Cardinality(LetIn') \in Nat /\ Cardinality(LetIn') <= Cardinality(Logins)
          BY LoginNumbers DEF LetIn
        <5>2. Counted(attempts, old) \in Nat /\ Counted(attempts, t - AttemptWindow) \in Nat
          BY <4>2, <1>3
        <5> QED
          BY <5>1, <5>2, <4>1, <4>3, <4>4, LoginNumbers
      <4> QED
        BY <4>5, <3>1, <2>1 DEF LetInBounded
    <3> QED
      BY <2>1, <3>2, <3>3
  <2> QED
    BY <1>1, <2>4, <2>5 DEF LoginInv
<1>10. ASSUME NEW l \in Logins, WrongPassword(l) PROVE LoginInv'
  <2>1. /\ login[l] = "verifying" /\ tried' = With(tried, time)
        /\ login' = [login EXCEPT ![l] = "failed"] /\ time' = time /\ attempts' = attempts
    BY <1>10 DEF WrongPassword
  <2>2. Cardinality(Failed') = Cardinality(Failed) + 1 /\ LetIn' = LetIn
    BY <2>1, <1>2, ThreadMoves
  <2>3. \A x \in Int : Counted(tried', x) <= Counted(tried, x) + 1
    <3>1. \A x \in Int : Counted(tried', x) = IF time >= x THEN Counted(tried, x) + 1 ELSE Counted(tried, x)
      BY <2>1, <1>2, WithCounts
    <3> QED
      BY <3>1, <1>3
  <2>4. TriesRecorded'
    <3>1. \A e \in tried' : e.at <= time
      BY <2>1, <1>2 DEF TriesRecorded, With
    <3>2. ASSUME NEW x \in Int, x >= floor
          PROVE  Counted(tried', x) <= Counted(attempts, x - MaxLag) + Cardinality(Failed')
      <4>1. Counted(tried, x) <= Counted(attempts, x - MaxLag) + Cardinality(Failed)
        BY <3>2, <1>2 DEF TriesRecorded
      <4>2. x - MaxLag \in Int
        BY LoginNumbers
      <4>3. Counted(attempts, x - MaxLag) \in Nat
        BY <4>2, <1>3
      <4> QED
        BY <4>1, <4>3, <2>2, <2>3, <1>3, <1>4
    <3> QED
      BY <3>1, <3>2, <2>1 DEF TriesRecorded
  <2>5. LetInBounded'
    BY <2>1, <2>2, <1>2 DEF LetInBounded
  <2> QED
    BY <1>1, <2>4, <2>5 DEF LoginInv
<1>11. ASSUME NEW l \in Logins, RightPassword(l) PROVE LoginInv'
  <2>1. /\ login[l] = "verifying" /\ tried' = tried
        /\ login' = [login EXCEPT ![l] = "passed"] /\ time' = time /\ attempts' = attempts
    BY <1>11 DEF RightPassword
  <2>2. Cardinality(LetIn') = Cardinality(LetIn) - 1 /\ Failed' = Failed
    BY <2>1, <1>2, ThreadMoves
  <2>3. TriesRecorded'
    BY <2>1, <2>2, <1>2 DEF TriesRecorded
  <2>4. Counted(attempts, old) + Cardinality(LetIn') <= AttemptLimit + Cardinality(Logins) - 1
    BY <2>2, <1>2, <1>3, <1>4, LoginNumbers DEF LetInBounded
  <2>5. LetInBounded'
    BY <2>1, <2>4 DEF LetInBounded
  <2> QED
    BY <1>1, <2>3, <2>5 DEF LoginInv
<1>12. ASSUME NEW l \in Logins, RecordFailure(l) PROVE LoginInv'
  <2>1. PICK t \in ClockReadings :
          /\ login[l] = "failed"
          /\ attempts' = With(InWindow(attempts, t), t)
          /\ login' = [login EXCEPT ![l] = "idle"]
          /\ time' = time /\ tried' = tried
    BY <1>12 DEF RecordFailure
  <2>2. Cardinality(LetIn') = Cardinality(LetIn) - 1 /\ Cardinality(Failed') = Cardinality(Failed) - 1
    BY <2>1, <1>2, ThreadMoves
  <2>3. \A x \in Int : x >= old => Counted(attempts', x) = IF t >= x THEN Counted(attempts, x) + 1 ELSE Counted(attempts, x)
    <3>1. \A x \in Int : Counted(attempts', x) = IF t >= x THEN Counted(InWindow(attempts, t), x) + 1
                                                            ELSE Counted(InWindow(attempts, t), x)
      BY <2>1, <1>5, <1>6, WithCounts
    <3> QED
      BY <3>1, <1>6
  <2>4. TriesRecorded'
    <3>1. ASSUME NEW x \in Int, x >= floor
          PROVE  Counted(tried, x) <= Counted(attempts', x - MaxLag) + Cardinality(Failed')
      <4>1. x - MaxLag \in Int /\ x - MaxLag >= old
        BY <3>1, <1>2, LoginNumbers
      <4>2. Counted(tried, x) <= Counted(attempts, x - MaxLag) + Cardinality(Failed)
        BY <3>1, <1>2 DEF TriesRecorded
      <4>3. CASE t >= x - MaxLag
        <5>1. Counted(attempts', x - MaxLag) = Counted(attempts, x - MaxLag) + 1
          BY <4>1, <4>3, <2>3
        <5> QED
          BY <5>1, <4>1, <4>2, <2>2, <1>3, <1>4
      <4>4. CASE ~(t >= x - MaxLag)
        <5>1. time < x
          BY <4>4, <1>2, <1>5, LoginNumbers
        <5>2. Since(tried, x) = {}
          BY <5>1, <1>2 DEF TriesRecorded, Since, Events, Event
        <5>3. Counted(tried, x) = 0
          BY <5>2, FS_EmptySet DEF Counted
        <5>4. Cardinality(Failed') \in Nat
          BY LoginNumbers DEF Failed
        <5> QED
          BY <5>3, <5>4, <4>1, <1>3
      <4> QED
        BY <4>3, <4>4
    <3> QED
      BY <3>1, <2>1, <1>2 DEF TriesRecorded
  <2>5. Counted(attempts', old) + Cardinality(LetIn') <= AttemptLimit + Cardinality(Logins) - 1
    <3>1. Counted(attempts', old) <= Counted(attempts, old) + 1
      BY <2>3, <1>2, <1>3
    <3> QED
      BY <3>1, <2>2, <1>2, <1>3, <1>4, LoginNumbers DEF LetInBounded
  <2>6. LetInBounded'
    BY <2>1, <2>5 DEF LetInBounded
  <2> QED
    BY <1>1, <2>4, <2>6 DEF LoginInv
<1>13. ASSUME NEW l \in Logins, RecordSuccess(l) PROVE LoginInv'
  <2>1. attempts' = {} /\ tried' = {} /\ time' = time
    BY <1>13 DEF RecordSuccess
  <2>2. \A x : Counted(tried', x) = 0 /\ Counted(attempts', x) = 0
    BY <2>1, NoEvents
  <2>3. /\ Cardinality(Failed') \in Nat /\ Cardinality(LetIn') \in Nat
        /\ Cardinality(LetIn') <= Cardinality(Logins)
    BY LoginNumbers DEF Failed, LetIn
  <2>4. \A x \in Int : Counted(tried', x) <= Counted(attempts', x - MaxLag) + Cardinality(Failed')
    BY <2>2, <2>3
  <2>5. TriesRecorded'
    BY <2>1, <2>4 DEF TriesRecorded
  <2>6. Counted(attempts', old) + Cardinality(LetIn') <= AttemptLimit + Cardinality(Logins) - 1
    BY <2>2, <2>3, LoginNumbers
  <2>7. LetInBounded'
    BY <2>1, <2>6 DEF LetInBounded
  <2> QED
    BY <1>1, <2>5, <2>7 DEF LoginInv
<1> QED
  BY <1>7, <1>8, <1>9, <1>10, <1>11, <1>12, <1>13 DEF LoginNext

LEMMA LoginInvBounds == LoginInv => TriesAreBounded
<1> SUFFICES ASSUME LoginInv PROVE TriesAreBounded
  OBVIOUS
<1> DEFINE floor == time - (AttemptWindow - MaxLag)
           old == time - AttemptWindow
<1>1. time \in Nat /\ floor \in Int /\ old \in Int /\ floor - MaxLag = old
  BY LoginNumbers DEF LoginInv, LoginTypeOK
<1>2. Counted(tried, floor) \in Nat /\ Counted(attempts, old) \in Nat
  BY <1>1, EventsCounted DEF LoginInv
<1>3. Counted(tried, floor) <= Counted(attempts, old) + Cardinality(Failed)
  BY <1>1, LoginNumbers DEF LoginInv, TriesRecorded
<1>4. Counted(attempts, old) + Cardinality(LetIn) <= AttemptLimit + Cardinality(Logins) - 1
  BY DEF LoginInv, LetInBounded
<1>5. Counted(tried, floor) <= AttemptLimit + Cardinality(Logins) - 1
  BY <1>2, <1>3, <1>4, ThreadsCounted, LoginNumbers
<1> QED
  BY <1>5 DEF TriesAreBounded, Counted

(***************************************************************************)
(* The agent's jobs.  A grant, once written, keeps its instant, and the    *)
(* order of (instant, id) is total: a cursor therefore splits the granted  *)
(* jobs once and for all.  What a walk has shown lies up to its cursor,    *)
(* what it still owes lies behind it, and a page moves the first jobs      *)
(* behind the cursor from the one to the other.                            *)
(***************************************************************************)

GrantTypes == grants \in [JobIds -> 0..MaxInstant]

\* A strict order of the jobs.
LEMMA BeforeOrders ==
    ASSUME GrantTypes
    PROVE  /\ \A i, j \in JobIds : i # j => Before(i, j) \/ Before(j, i)
           /\ \A i, j \in JobIds : ~(Before(i, j) /\ Before(j, i))
           /\ \A i, j, k \in JobIds : Before(i, j) /\ Before(j, k) => Before(i, k)
<1>1. \A j \in JobIds : j \in Nat /\ grants[j] \in Nat
  BY AgentJobsAssumption DEF GrantTypes
<1> QED
  BY <1>1 DEF Before

\* Sets of jobs, ordered by inclusion, have a smallest among any of them.
LEMMA SmallestSet ==
    ASSUME NEW S, IsFiniteSet(S), NEW T, T \subseteq SUBSET S, T # {}
    PROVE  \E X \in T : \A Y \in T : ~(Y \subseteq X /\ Y # X)
<1>1. IsWellFoundedOn(StrictSubsetOrdering(S), FiniteSubsetsOf(S))
  BY FS_StrictSubsetOrderingWellFounded
<1>2. \A X \in SUBSET S : IsFiniteSet(X)
  BY FS_Subset
<1>3. T \subseteq FiniteSubsetsOf(S)
  BY <1>2 DEF FiniteSubsetsOf
<1>4. \E X \in T : \A Y \in T : ~(<<Y, X>> \in StrictSubsetOrdering(S))
  BY <1>1, <1>3, WFMin
<1> QED
  BY <1>4 DEF StrictSubsetOrdering

LEMMA LastExists ==
    ASSUME GrantTypes, NEW S \in SUBSET JobIds, IsFiniteSet(S), S # {}
    PROVE  LastOf(S) \in S /\ \A i \in S \ {LastOf(S)} : Before(i, LastOf(S))
<1> DEFINE Later(j) == {k \in S : Before(j, k)}
           T == {Later(j) : j \in S}
<1>1. T \subseteq SUBSET S /\ T # {}
  OBVIOUS
<1>2. PICK X \in T : \A Y \in T : ~(Y \subseteq X /\ Y # X)
  <2> HIDE DEF T
  <2> QED
    BY <1>1, SmallestSet
<1>3. PICK j \in S : X = Later(j)
  OBVIOUS
<1>4. \A i \in S \ {j} : Before(i, j)
  <2> SUFFICES ASSUME NEW i \in S \ {j}, ~Before(i, j) PROVE FALSE
    OBVIOUS
  <2>1. Before(j, i) /\ i \in Later(j)
    BY BeforeOrders
  <2>2. i \notin Later(i)
    BY BeforeOrders
  <2>3. Later(i) \subseteq Later(j)
    BY <2>1, BeforeOrders
  <2>4. Later(i) \in T
    OBVIOUS
  <2> HIDE DEF Later, T
  <2> QED
    BY <1>2, <1>3, <2>1, <2>2, <2>3, <2>4
<1> QED
  BY <1>4 DEF LastOf

LEMMA FirstExists ==
    ASSUME GrantTypes, NEW S \in SUBSET JobIds, IsFiniteSet(S), S # {}, NEW n \in Nat \ {0}
    PROVE  FirstOf(S, n) # {}
<1> DEFINE Earlier(j) == {k \in S : Before(k, j)}
           T == {Earlier(j) : j \in S}
<1>1. T \subseteq SUBSET S /\ T # {}
  OBVIOUS
<1>2. PICK X \in T : \A Y \in T : ~(Y \subseteq X /\ Y # X)
  <2> HIDE DEF T
  <2> QED
    BY <1>1, SmallestSet
<1>3. PICK j \in S : X = Earlier(j)
  OBVIOUS
<1>4. Earlier(j) = {}
  <2> SUFFICES ASSUME NEW i \in Earlier(j) PROVE FALSE
    OBVIOUS
  <2>1. i \in S /\ i \notin Earlier(i)
    BY BeforeOrders
  <2>2. Earlier(i) \subseteq Earlier(j)
    BY BeforeOrders
  <2>3. Earlier(i) \in T
    BY <2>1
  <2> HIDE DEF Earlier, T
  <2> QED
    BY <1>2, <1>3, <2>1, <2>2, <2>3
<1>5. Cardinality(Earlier(j)) < n
  BY <1>4, FS_EmptySet
<1> QED
  BY <1>5 DEF FirstOf

LEMMA FirstsAreFirst ==
    ASSUME GrantTypes, NEW S \in SUBSET JobIds, IsFiniteSet(S), NEW n \in Nat,
           NEW j \in FirstOf(S, n), NEW i \in S \ FirstOf(S, n)
    PROVE  Before(j, i)
<1> SUFFICES ASSUME ~Before(j, i) PROVE FALSE
  OBVIOUS
<1> DEFINE Earlier(k) == {m \in S : Before(m, k)}
<1>1. j \in S /\ Cardinality(Earlier(j)) < n /\ ~(Cardinality(Earlier(i)) < n)
  BY DEF FirstOf
<1>2. Before(i, j)
  BY <1>1, BeforeOrders
<1>3. Earlier(i) \subseteq Earlier(j) /\ Earlier(j) \subseteq S
  BY <1>1, <1>2, BeforeOrders
<1> HIDE DEF Earlier
<1>4. IsFiniteSet(Earlier(j)) /\ IsFiniteSet(Earlier(i))
  BY <1>3, FS_Subset
<1>5. Cardinality(Earlier(i)) <= Cardinality(Earlier(j))
  BY <1>3, <1>4, FS_Subset
<1>6. Cardinality(Earlier(i)) \in Nat /\ Cardinality(Earlier(j)) \in Nat
  BY <1>4, FS_CardinalityType
<1> QED
  BY <1>1, <1>5, <1>6

LEMMA FewAreAllFirst ==
    ASSUME GrantTypes, NEW S \in SUBSET JobIds, IsFiniteSet(S), NEW n \in Nat, Cardinality(S) <= n
    PROVE  FirstOf(S, n) = S
<1> SUFFICES ASSUME NEW j \in S PROVE Cardinality({k \in S : Before(k, j)}) < n
  BY DEF FirstOf
<1> DEFINE E == {k \in S : Before(k, j)}
<1>1. E \subseteq S \ {j}
  BY BeforeOrders
<1> HIDE DEF E
<1>2. IsFiniteSet(S \ {j}) /\ Cardinality(S \ {j}) = Cardinality(S) - 1 /\ Cardinality(S) \in Nat
  BY FS_RemoveElement, FS_CardinalityType
<1>3. IsFiniteSet(E) /\ Cardinality(E) <= Cardinality(S \ {j})
  BY <1>1, <1>2, FS_Subset
<1>4. Cardinality(E) \in Nat
  BY <1>3, FS_CardinalityType
<1>5. Cardinality(E) < n
  BY <1>2, <1>3, <1>4
<1> QED
  BY <1>5 DEF E

\* A cut of more jobs than n: the last of the first n is between them and the rest.
LEMMA CutAtLast ==
    ASSUME GrantTypes, NEW S \in SUBSET JobIds, IsFiniteSet(S), NEW n \in Nat \ {0}, Cardinality(S) > n
    PROVE  /\ LastOf(FirstOf(S, n)) \in FirstOf(S, n) /\ FirstOf(S, n) \subseteq S
           /\ \A j \in FirstOf(S, n) : j = LastOf(FirstOf(S, n)) \/ Before(j, LastOf(FirstOf(S, n)))
           /\ \A j \in S \ FirstOf(S, n) : Before(LastOf(FirstOf(S, n)), j)
<1>1. S # {}
  BY FS_EmptySet
<1>2. FirstOf(S, n) \subseteq S
  BY DEF FirstOf
<1>3. FirstOf(S, n) # {} /\ IsFiniteSet(FirstOf(S, n))
  BY <1>1, <1>2, FirstExists, FS_Subset
<1>4. LastOf(FirstOf(S, n)) \in FirstOf(S, n)
      /\ \A i \in FirstOf(S, n) \ {LastOf(FirstOf(S, n))} : Before(i, LastOf(FirstOf(S, n)))
  BY <1>2, <1>3, LastExists
<1>5. \A j \in S \ FirstOf(S, n) : Before(LastOf(FirstOf(S, n)), j)
  BY <1>4, FirstsAreFirst
<1> QED
  BY <1>2, <1>4, <1>5

LEMMA PageCuts ==
    ASSUME GrantTypes, IsFiniteSet(Existing), NEW c \in JobIds \cup {0}, NEW R, NEW n \in Nat \ {0}
    PROVE  LET p == PageOf(c, R, n)
           IN  /\ p.ids \subseteq AfterCursor(c, R)
               /\ p.next = 0 => p.ids = AfterCursor(c, R)
               /\ p.next # 0 => /\ p.next \in p.ids
                                /\ \A j \in p.ids : j = p.next \/ Before(j, p.next)
                                /\ \A j \in AfterCursor(c, R) \ p.ids : Before(p.next, j)
<1> DEFINE S == AfterCursor(c, R)
<1>1. S \in SUBSET JobIds /\ S \subseteq Existing
  BY DEF AfterCursor, Listable, Existing
<1>2. IsFiniteSet(S) /\ Cardinality(S) \in Nat
  <2>1. IsFiniteSet(S)
    BY <1>1, FS_Subset
  <2> QED
    BY <2>1, FS_CardinalityType
<1>3. PageOf(c, R, n) = [ids |-> FirstOf(S, n), next |-> IF Cardinality(S) > n THEN LastOf(FirstOf(S, n)) ELSE 0]
  BY DEF PageOf
<1> HIDE DEF S
<1>4. CASE Cardinality(S) > n
  <2>1. LastOf(FirstOf(S, n)) # 0
    BY <1>1, <1>2, <1>4, CutAtLast, AgentJobsAssumption
  <2>2. /\ LastOf(FirstOf(S, n)) \in FirstOf(S, n) /\ FirstOf(S, n) \subseteq S
        /\ \A j \in FirstOf(S, n) : j = LastOf(FirstOf(S, n)) \/ Before(j, LastOf(FirstOf(S, n)))
        /\ \A j \in S \ FirstOf(S, n) : Before(LastOf(FirstOf(S, n)), j)
    BY <1>1, <1>2, <1>4, CutAtLast
  <2> QED
    BY <1>3, <1>4, <2>1, <2>2 DEF S
<1>5. CASE ~(Cardinality(S) > n)
  <2>1. FirstOf(S, n) = S
    BY <1>1, <1>2, <1>5, FewAreAllFirst
  <2> QED
    BY <1>3, <1>5, <2>1 DEF S
<1> QED
  BY <1>4, <1>5

-----------------------------------------------------------------------------
\* Submissions and their jobs.
JobRow == [key : 1..MaxKeys, repository : Repositories, state : JobStates]

SubmissionsInv ==
    /\ jobs \in [JobIds -> JobRow \cup {NoSuchJob}]
    /\ GrantTypes /\ instant \in 1..MaxInstant
    /\ submitting \in [Submissions -> JobIds \cup {0}]
    /\ IsFiniteSet(Existing)
    /\ \A i, j \in Existing : jobs[i].key = jobs[j].key => i = j
    /\ \A j \in JobIds : grants[j] # 0 => j \in Existing
    /\ \A s \in Submissions : submitting[s] # 0 => submitting[s] \in Existing

\* The walk.  The cursor lies between what the client has seen and what it is still due; within
\* a page the scan's cursor does, and the page is between the two.
Granted == {j \in JobIds : grants[j] # 0}
UpTo(j, c) == c # 0 /\ (j = c \/ Before(j, c))
Behind(c, j) == c = 0 \/ Before(c, j)

WalkTypes ==
    walk \in [stage : {"none", "next", "scanning", "done", "refused"}, filter : Filters \cup {"all"},
              repositories : SUBSET Repositories, cursor : Granted \cup {0}, scan : Granted \cup {0},
              page : SUBSET Granted, seen : SUBSET Granted, again : SUBSET Granted, due : SUBSET Granted]

NothingMissed ==
    /\ walk.again = {}
    /\ walk.stage \in {"next", "scanning"} => \A j \in walk.seen : UpTo(j, walk.cursor)
    /\ walk.stage = "next" =>
          /\ walk.page = {}
          /\ \A j \in walk.due \ walk.seen : Behind(walk.cursor, j)
    /\ walk.stage = "scanning" =>
          /\ walk.filter # "all"
          /\ walk.cursor = 0 \/ UpTo(walk.cursor, walk.scan)
          /\ \A j \in walk.page : Behind(walk.cursor, j) /\ UpTo(j, walk.scan)
          /\ \A j \in (walk.due \ walk.seen) \ walk.page : Behind(walk.scan, j)
    /\ walk.stage = "done" => walk.due \subseteq walk.seen

DueIsListed == \A j \in walk.due : j \in Listable(walk.repositories) /\ Matching(walk.filter, jobs[j].state)

EndedFilters == {"terminal"} \cup Terminal
EndedStay ==
    /\ walk.stage = "refused" => walk.filter \notin {"all"} \cup EndedFilters
    /\ walk.filter \in EndedFilters => /\ walk.cursor # 0 => jobs[walk.cursor].state \in Terminal
                                       /\ \A j \in walk.page : jobs[j].state \in Terminal

WalkInv == WalkTypes /\ NothingMissed /\ DueIsListed /\ EndedStay
AgentJobsInv == SubmissionsInv /\ WalkInv

LEMMA AgentJobsStart == AgentJobsInit => AgentJobsInv
<1> SUFFICES ASSUME AgentJobsInit PROVE AgentJobsInv
  OBVIOUS
<1>1. Existing = {} /\ IsFiniteSet({})
  BY FS_EmptySet DEF AgentJobsInit, Existing
<1>2. SubmissionsInv
  BY <1>1, AgentJobsAssumption DEF AgentJobsInit, SubmissionsInv, GrantTypes
<1>3. walk = NoWalk
  BY DEF AgentJobsInit
<1>4. WalkTypes
  BY <1>3 DEF WalkTypes, NoWalk
<1>5. NothingMissed /\ DueIsListed /\ EndedStay
  BY <1>3 DEF NoWalk, NothingMissed, DueIsListed, EndedStay, EndedFilters, Terminal
<1> QED
  BY <1>2, <1>4, <1>5 DEF AgentJobsInv, WalkInv

LEMMA SubmissionsStep == SubmissionsInv /\ [AgentJobsNext]_agentJobVars => SubmissionsInv'
<1> SUFFICES ASSUME SubmissionsInv, [AgentJobsNext]_agentJobVars PROVE SubmissionsInv'
  OBVIOUS
<1> USE DEF SubmissionsInv
<1>1. ASSUME jobs' = jobs PROVE Existing' = Existing
  BY <1>1 DEF Existing
<1>2. CASE UNCHANGED <<jobs, instant, grants, submitting>>
  BY <1>1, <1>2 DEF GrantTypes
<1>3. ASSUME NEW s \in Submissions, NEW k \in Keys, NEW r \in Repositories, Enqueued(s, k, r)
      PROVE  SubmissionsInv'
  <2>1. grants' = grants /\ instant' = instant
    BY <1>3 DEF Enqueued
  <2>2. ASSUME NEW j \in Replayed(k), submitting' = [submitting EXCEPT ![s] = j], jobs' = jobs
        PROVE  SubmissionsInv'
    <3>1. j \in Existing
      BY <2>2 DEF Replayed
    <3> QED
      BY <1>1, <2>1, <2>2, <3>1 DEF GrantTypes, Existing
  <2>3. ASSUME NEW j \in JobIds \ Existing, Replayed(k) = {},
               jobs' = [jobs EXCEPT ![j] = [key |-> k, repository |-> r, state |-> "queued"]],
               submitting' = [submitting EXCEPT ![s] = j]
        PROVE  SubmissionsInv'
    <3> DEFINE row == [key |-> k, repository |-> r, state |-> "queued"]
    <3>1. row \in JobRow /\ row # NoSuchJob /\ row.key = k
      BY AgentJobsAssumption DEF JobRow, JobStates, NoSuchJob, Keys
    <3> HIDE DEF row
    <3>2. jobs' = [jobs EXCEPT ![j] = row]
      BY <2>3 DEF row
    <3>3. Existing' = Existing \cup {j}
      BY <3>1, <3>2 DEF Existing
    <3>4. IsFiniteSet(Existing')
      BY <3>3, FS_AddElement
    <3>5. jobs' \in [JobIds -> JobRow \cup {NoSuchJob}]
      BY <3>1, <3>2
    <3>6. \A i \in Existing : jobs'[i] = jobs[i] /\ jobs[i].key # k
      BY <2>3, <3>2 DEF Existing, Replayed
    <3>7. \A i, m \in Existing' : jobs'[i].key = jobs'[m].key => i = m
      BY <3>1, <3>2, <3>3, <3>6
    <3>8. /\ submitting' \in [Submissions -> JobIds \cup {0}]
          /\ \A q \in Submissions : submitting'[q] # 0 => submitting'[q] \in Existing'
      BY <2>3, <3>3
    <3>9. GrantTypes' /\ \A m \in JobIds : grants'[m] # 0 => m \in Existing'
      BY <2>1, <3>3 DEF GrantTypes
    <3> QED
      BY <2>1, <3>4, <3>5, <3>7, <3>8, <3>9
  <2> QED
    BY <1>3, <2>2, <2>3 DEF Enqueued
<1>4. ASSUME NEW s \in Submissions, GrantJob(s)
      PROVE  SubmissionsInv'
  <2>1. /\ submitting[s] \in Existing /\ submitting[s] \in JobIds /\ jobs' = jobs /\ instant' = instant
        /\ grants' = [grants EXCEPT ![submitting[s]] = IF @ = 0 THEN instant ELSE @]
        /\ submitting' = [submitting EXCEPT ![s] = 0]
    BY <1>4 DEF GrantJob, Existing
  <2>2. Existing' = Existing
    BY <1>1, <2>1
  <2>3. grants' \in [JobIds -> Nat] /\ \A j \in JobIds : grants'[j] # 0 => j \in Existing
    BY <2>1 DEF GrantTypes
  <2>4. submitting' \in [Submissions -> JobIds \cup {0}]
        /\ \A q \in Submissions : submitting'[q] # 0 => submitting'[q] \in Existing
    BY <2>1
  <2> QED
    BY <2>1, <2>2, <2>3, <2>4 DEF GrantTypes
<1>5. ASSUME NEW s \in Submissions, SubmissionBreaks(s)
      PROVE  SubmissionsInv'
  BY <1>1, <1>5 DEF SubmissionBreaks, GrantTypes
<1>6. ASSUME NEW j \in JobIds, NEW state \in JobStates, jobs[j] # NoSuchJob, jobs' = [jobs EXCEPT ![j].state = state],
             UNCHANGED <<instant, grants, submitting>>
      PROVE  SubmissionsInv'
  <2>1. jobs[j] \in JobRow
    BY <1>6
  <2>2. jobs'[j] \in JobRow /\ jobs'[j].key = jobs[j].key /\ \A i \in JobIds : i # j => jobs'[i] = jobs[i]
    BY <1>6, <2>1 DEF JobRow
  <2>3. NoSuchJob \notin JobRow
    BY AgentJobsAssumption DEF JobRow, NoSuchJob
  <2>4. Existing' = Existing
    BY <1>6, <2>2, <2>3 DEF Existing
  <2>5. jobs' \in [JobIds -> JobRow \cup {NoSuchJob}]
    BY <1>6, <2>2
  <2>6. \A i \in Existing : jobs'[i].key = jobs[i].key
    BY <2>2 DEF Existing
  <2> QED
    BY <1>6, <2>4, <2>5, <2>6 DEF GrantTypes
<1>7. ASSUME NEW j \in JobIds, JobMoves(j) PROVE SubmissionsInv'
  <2>1. jobs[j] # NoSuchJob
    BY <1>7 DEF JobMoves, NoSuchJob
  <2> QED
    BY <1>6, <1>7, <2>1 DEF JobMoves, MoveTo, JobStates, Terminal
<1>8. ASSUME NEW j \in JobIds, CancelAgentJob(j) PROVE SubmissionsInv'
  <2>1. jobs[j] # NoSuchJob
    BY <1>8 DEF CancelAgentJob, NoSuchJob
  <2> QED
    BY <1>6, <1>8, <2>1 DEF CancelAgentJob, MoveTo, JobStates, Terminal
<1>9. CASE NextInstant
  BY <1>1, <1>9, AgentJobsAssumption DEF NextInstant, GrantTypes
<1>10. CASE \/ \E f \in Filters, R \in (SUBSET Repositories) \ {{}} : StartWalk(f, R)
            \/ PlainPage \/ BeginScan \/ ScanPage
  BY <1>2, <1>10 DEF StartWalk, PlainPage, BeginScan, ScanPage
<1> QED
  BY <1>2, <1>3, <1>4, <1>5, <1>7, <1>8, <1>9, <1>10 DEF AgentJobsNext, agentJobVars

\* New jobs and new grants do not disturb a walk.
LEMMA WalkUndisturbed ==
    ASSUME SubmissionsInv, WalkInv, walk' = walk,
           \A i \in Granted : grants'[i] = grants[i] /\ jobs'[i] = jobs[i]
    PROVE  WalkInv'
<1>1. 0 \notin Granted /\ Granted \subseteq Existing
  BY AgentJobsAssumption DEF Granted, SubmissionsInv
<1>2. Granted \subseteq Granted'
  BY DEF Granted
<1>3. /\ walk.cursor \in Granted \cup {0} /\ walk.scan \in Granted \cup {0} /\ walk.page \subseteq Granted
      /\ walk.seen \subseteq Granted /\ walk.due \subseteq Granted /\ walk.again \subseteq Granted
  BY DEF WalkInv, WalkTypes
<1>4. WalkTypes'
  BY <1>2 DEF WalkInv, WalkTypes
<1>5. \A i, j \in Granted : Before(i, j)' = Before(i, j)
  BY DEF Before
<1>6. \A i \in Granted \cup {0}, j \in Granted : UpTo(j, i)' = UpTo(j, i) /\ Behind(i, j)' = Behind(i, j)
  BY <1>5 DEF UpTo, Behind
<1>7. NothingMissed'
  BY <1>3, <1>6 DEF WalkInv, NothingMissed
<1>8. \A i \in Granted : i \in Listable(walk.repositories) => i \in Listable(walk.repositories)'
  BY <1>1 DEF Listable, Existing, Granted
<1>9. DueIsListed'
  BY <1>3, <1>8 DEF WalkInv, DueIsListed, Matching
<1>10. EndedStay'
  BY <1>1, <1>3 DEF WalkInv, EndedStay, EndedFilters, Terminal
<1> QED
  BY <1>4, <1>7, <1>9, <1>10 DEF WalkInv

\* Neither does a job that goes on: it is due no more if the filter excludes it now.
LEMMA WalkSurvivesMoves ==
    ASSUME SubmissionsInv, WalkInv, NEW j \in JobIds, NEW state \in JobStates, MoveTo(j, state),
           jobs[j].state \notin Terminal, jobs[j] # NoSuchJob, grants' = grants
    PROVE  WalkInv'
<1>1. jobs[j] \in JobRow /\ jobs' = [jobs EXCEPT ![j].state = state]
  BY DEF SubmissionsInv, MoveTo
<1>2. /\ jobs'[j].state = state /\ jobs'[j].repository = jobs[j].repository /\ jobs'[j].key = jobs[j].key
      /\ jobs'[j] # NoSuchJob
      /\ \A i \in JobIds : i # j => jobs'[i] = jobs[i]
  BY <1>1, AgentJobsAssumption DEF SubmissionsInv, JobRow, NoSuchJob
<1>3. Granted' = Granted
  BY DEF Granted
<1>4. /\ walk.cursor \in Granted \cup {0} /\ walk.page \subseteq Granted
      /\ walk.due \subseteq Granted /\ Granted \subseteq JobIds /\ 0 \notin Granted
  BY AgentJobsAssumption DEF WalkInv, WalkTypes, Granted
<1>5. /\ walk'.due \subseteq walk.due /\ walk' = [walk EXCEPT !.due = walk'.due]
      /\ ~Matching(walk.filter, state) => j \notin walk'.due
  BY DEF MoveTo, WalkInv, WalkTypes
<1>6. WalkTypes'
  BY <1>3, <1>5 DEF WalkInv, WalkTypes
<1>7. /\ walk'.stage = walk.stage /\ walk'.filter = walk.filter /\ walk'.repositories = walk.repositories
      /\ walk'.cursor = walk.cursor /\ walk'.scan = walk.scan /\ walk'.page = walk.page
      /\ walk'.seen = walk.seen /\ walk'.again = walk.again
  BY <1>5 DEF WalkInv, WalkTypes
<1>8. NothingMissed'
  <2>1. \A i, k : Before(i, k)' = Before(i, k)
    BY DEF Before
  <2>2. \A i, k : UpTo(k, i)' = UpTo(k, i) /\ Behind(i, k)' = Behind(i, k)
    BY <2>1 DEF UpTo, Behind
  <2> QED
    BY <1>5, <1>7, <2>2 DEF WalkInv, NothingMissed
<1>9. DueIsListed'
  <2> SUFFICES ASSUME NEW i \in walk'.due
               PROVE  i \in Listable(walk.repositories)' /\ Matching(walk'.filter, jobs'[i].state)
    BY DEF DueIsListed, Matching
  <2>1. i \in Granted /\ i \in JobIds /\ i \in Listable(walk.repositories) /\ Matching(walk.filter, jobs[i].state)
    BY <1>4, <1>5 DEF WalkInv, DueIsListed
  <2>2. jobs'[i] # NoSuchJob /\ jobs'[i].repository = jobs[i].repository /\ jobs[i] # NoSuchJob
    BY <1>2, <2>1 DEF Listable, Existing
  <2>3. i \in Listable(walk.repositories)'
    BY <1>7, <2>1, <2>2 DEF Listable, Existing
  <2>4. Matching(walk.filter, jobs'[i].state)
    BY <1>2, <1>5, <2>1
  <2> QED
    BY <1>7, <2>3, <2>4
<1>10. EndedStay'
  <2>1. \A i \in Granted : jobs[i].state \in Terminal => jobs'[i].state \in Terminal
    BY <1>2, <1>4
  <2> QED
    BY <1>4, <1>7, <2>1 DEF WalkInv, EndedStay, Terminal, EndedFilters
<1> QED
  BY <1>6, <1>8, <1>9, <1>10 DEF WalkInv

LEMMA PlacesInOrder ==
    ASSUME GrantTypes
    PROVE  /\ \A j, c \in JobIds, d \in JobIds : UpTo(j, c) /\ UpTo(c, d) => UpTo(j, d)
           /\ \A c \in JobIds \cup {0}, j \in JobIds : ~(UpTo(j, c) /\ Behind(c, j))
           /\ \A c, d, j \in JobIds : UpTo(c, d) /\ Behind(d, j) => Behind(c, j)
           /\ \A c, j \in JobIds : Behind(c, j) => UpTo(c, j)
<1>1. 0 \notin JobIds
  BY AgentJobsAssumption
<1> QED
  BY <1>1, BeforeOrders DEF UpTo, Behind

\* An answer that splits what is left at its cursor misses nothing and repeats nothing.
LEMMA AnswerIsRight ==
    ASSUME SubmissionsInv, WalkInv, walk.stage \in {"next", "scanning"},
           NEW ids \in SUBSET Granted, NEW next \in Granted \cup {0},
           \A j \in ids : Behind(walk.cursor, j),
           next # 0 => next \in ids /\ \A j \in ids : UpTo(j, next),
           \A j \in (walk.due \ walk.seen) \ ids : next # 0 /\ Behind(next, j),
           walk.filter \in EndedFilters => \A j \in ids : jobs[j].state \in Terminal,
           UNCHANGED <<jobs, grants>>,
           walk' = Answer(walk, ids, next)
    PROVE  WalkInv'
<1>1. /\ walk.cursor \in Granted \cup {0} /\ walk.seen \subseteq Granted /\ walk.due \subseteq Granted
      /\ Granted \subseteq JobIds /\ 0 \notin Granted /\ Granted' = Granted /\ GrantTypes
  BY AgentJobsAssumption DEF WalkInv, WalkTypes, Granted, SubmissionsInv
<1>2. /\ walk'.stage = (IF next = 0 THEN "done" ELSE "next") /\ walk'.filter = walk.filter
      /\ walk'.repositories = walk.repositories /\ walk'.due = walk.due
      /\ walk'.cursor = next /\ walk'.scan = 0 /\ walk'.page = {}
      /\ walk'.seen = walk.seen \cup ids /\ walk'.again = walk.again \cup (walk.seen \cap ids)
  BY DEF Answer, WalkInv, WalkTypes
<1>3. WalkTypes'
  BY <1>1 DEF Answer, WalkInv, WalkTypes
<1>4. /\ walk.seen \cap ids = {} /\ walk.again = {}
      /\ \A j \in walk.seen : UpTo(j, walk.cursor)
  BY <1>1, PlacesInOrder DEF WalkInv, NothingMissed
<1>5. ASSUME next # 0, NEW j \in walk.seen PROVE UpTo(j, next)
  <2>1. walk.cursor # 0 /\ UpTo(j, walk.cursor)
    BY <1>4 DEF UpTo
  <2>2. Behind(walk.cursor, next)
    BY <1>5
  <2> QED
    BY <1>1, <1>5, <2>1, <2>2, PlacesInOrder
<1>6. \A i, k : UpTo(k, i)' = UpTo(k, i) /\ Behind(i, k)' = Behind(i, k)
  BY DEF Before, UpTo, Behind
<1>7. NothingMissed'
  <2>1. \A j \in walk.due \ (walk.seen \cup ids) : next # 0 /\ Behind(next, j)
    OBVIOUS
  <2>2. CASE next = 0
    BY <2>1, <2>2, <1>2, <1>4 DEF NothingMissed
  <2>3. CASE next # 0
    BY <2>1, <2>3, <1>2, <1>4, <1>5, <1>6 DEF NothingMissed
  <2> QED
    BY <2>2, <2>3
<1>8. DueIsListed'
  BY <1>2 DEF WalkInv, DueIsListed, Listable, Existing, Matching
<1>9. EndedStay'
  BY <1>1, <1>2 DEF WalkInv, EndedStay, EndedFilters
<1> QED
  BY <1>3, <1>7, <1>8, <1>9 DEF WalkInv

\* What is behind a cursor, of the jobs the walk may list.
LEMMA RowsBehind ==
    ASSUME SubmissionsInv, WalkTypes, NEW c \in Granted \cup {0}
    PROVE  /\ AfterCursor(c, walk.repositories) \subseteq Granted
           /\ \A j \in AfterCursor(c, walk.repositories) : Behind(c, j)
           /\ \A j \in Listable(walk.repositories) : Behind(c, j) => j \in AfterCursor(c, walk.repositories)
BY DEF AfterCursor, Listable, Behind, Granted, Existing

LEMMA WalkSteps ==
    ASSUME SubmissionsInv, WalkInv,
           \/ \E f \in Filters, R \in (SUBSET Repositories) \ {{}} : StartWalk(f, R)
           \/ PlainPage \/ BeginScan \/ ScanPage
    PROVE  WalkInv'
<1>1. /\ walk.cursor \in Granted \cup {0} /\ walk.scan \in Granted \cup {0} /\ walk.page \subseteq Granted
      /\ walk.seen \subseteq Granted /\ walk.due \subseteq Granted
      /\ Granted \subseteq JobIds /\ 0 \notin Granted /\ GrantTypes /\ IsFiniteSet(Existing) /\ Granted \subseteq Existing
  BY AgentJobsAssumption DEF WalkInv, WalkTypes, Granted, SubmissionsInv
<1>2. jobs' = jobs /\ grants' = grants
  BY DEF StartWalk, PlainPage, BeginScan, ScanPage
<1>3. Granted' = Granted /\ \A i, k : UpTo(k, i)' = UpTo(k, i) /\ Behind(i, k)' = Behind(i, k)
  BY <1>2 DEF Granted, Before, UpTo, Behind
<1>4. PageLimit \in Nat \ {0} /\ ScanLimit \in Nat \ {0}
  BY AgentJobsAssumption
<1>5. ASSUME NEW f \in Filters, NEW R \in (SUBSET Repositories) \ {{}}, StartWalk(f, R) PROVE WalkInv'
  <2> DEFINE due == {j \in Listable(R) : Matching(f, jobs[j].state)}
  <2>1. walk' = [NoWalk EXCEPT !.stage = "next", !.filter = f, !.repositories = R, !.due = due]
    BY <1>5 DEF StartWalk
  <2>2. due \subseteq Granted
    BY DEF Listable, Granted, Existing
  <2> HIDE DEF due
  <2>3. /\ walk'.stage = "next" /\ walk'.filter = f /\ walk'.repositories = R /\ walk'.due = due
        /\ walk'.cursor = 0 /\ walk'.scan = 0 /\ walk'.page = {} /\ walk'.seen = {} /\ walk'.again = {}
    BY <2>1 DEF NoWalk
  <2>4. WalkTypes'
    BY <2>1, <2>2, <1>3 DEF NoWalk, WalkTypes
  <2>5. NothingMissed'
    BY <2>3 DEF NothingMissed, Behind
  <2>6. DueIsListed'
    BY <2>3, <1>2 DEF DueIsListed, due, Listable, Existing, Matching
  <2>7. EndedStay'
    BY <2>3 DEF EndedStay
  <2> QED
    BY <2>4, <2>5, <2>6, <2>7 DEF WalkInv
<1>6. CASE PlainPage
  <2> DEFINE candidates == AfterCursor(walk.cursor, walk.repositories)
             p == PageOf(walk.cursor, walk.repositories, PageLimit)
  <2>1. walk.stage = "next" /\ walk.filter = "all" /\ walk' = Answer(walk, p.ids, p.next)
    BY <1>6 DEF PlainPage
  <2>2. /\ p.ids \subseteq candidates /\ (p.next = 0 => p.ids = candidates)
        /\ p.next # 0 => /\ p.next \in p.ids
                         /\ \A j \in p.ids : j = p.next \/ Before(j, p.next)
                         /\ \A j \in candidates \ p.ids : Before(p.next, j)
    BY <1>1, <1>4, PageCuts
  <2>3. /\ candidates \subseteq Granted /\ (\A j \in candidates : Behind(walk.cursor, j))
        /\ \A j \in walk.due \ walk.seen : j \in candidates
    BY <2>1, <1>1, RowsBehind DEF WalkInv, NothingMissed, DueIsListed
  <2> HIDE DEF candidates, p
  <2>4. p.ids \in SUBSET Granted /\ p.next \in Granted \cup {0}
    BY <2>2, <2>3
  <2>5. /\ \A j \in p.ids : Behind(walk.cursor, j)
        /\ p.next # 0 => p.next \in p.ids /\ \A j \in p.ids : UpTo(j, p.next)
        /\ \A j \in (walk.due \ walk.seen) \ p.ids : p.next # 0 /\ Behind(p.next, j)
    BY <2>2, <2>3 DEF UpTo, Behind
  <2>6. walk.filter \notin EndedFilters
    BY <2>1 DEF EndedFilters, Terminal
  <2> QED
    BY <2>1, <2>4, <2>5, <2>6, <1>2, AnswerIsRight
<1>7. CASE BeginScan
  <2>1. walk.stage = "next" /\ walk.filter # "all"
    BY <1>7 DEF BeginScan
  <2>2. CASE walk.cursor # 0 /\ ~Matching(walk.filter, jobs[walk.cursor].state)
    <3>1. walk' = [walk EXCEPT !.stage = "refused"]
      BY <2>2, <1>7 DEF BeginScan
    <3>2. walk.filter \notin EndedFilters
      BY <2>2 DEF WalkInv, EndedStay, EndedFilters, Matching, Terminal
    <3>3. WalkTypes'
      BY <3>1, <1>3 DEF WalkInv, WalkTypes
    <3>4. /\ walk'.stage = "refused" /\ walk'.filter = walk.filter /\ walk'.repositories = walk.repositories
          /\ walk'.due = walk.due /\ walk'.again = walk.again
      BY <3>1 DEF WalkInv, WalkTypes
    <3>5. NothingMissed' /\ EndedStay'
      BY <3>2, <3>4, <2>1 DEF WalkInv, NothingMissed, EndedStay
    <3>6. DueIsListed'
      BY <3>4, <1>2 DEF WalkInv, DueIsListed, Listable, Existing, Matching
    <3> QED
      BY <3>3, <3>5, <3>6 DEF WalkInv
  <2>3. CASE ~(walk.cursor # 0 /\ ~Matching(walk.filter, jobs[walk.cursor].state))
    <3>1. walk' = [walk EXCEPT !.stage = "scanning", !.scan = walk.cursor]
      BY <2>3, <1>7 DEF BeginScan
    <3>2. WalkTypes'
      BY <3>1, <1>1, <1>3 DEF WalkInv, WalkTypes
    <3>3. /\ walk'.stage = "scanning" /\ walk'.scan = walk.cursor /\ walk'.cursor = walk.cursor /\ walk'.filter = walk.filter
          /\ walk'.repositories = walk.repositories /\ walk'.page = walk.page /\ walk'.seen = walk.seen
          /\ walk'.due = walk.due /\ walk'.again = walk.again
      BY <3>1 DEF WalkInv, WalkTypes
    <3>4. NothingMissed'
      BY <3>3, <2>1, <1>3 DEF WalkInv, NothingMissed, UpTo
    <3>5. DueIsListed' /\ EndedStay'
      BY <3>3, <1>2 DEF WalkInv, DueIsListed, EndedStay, Listable, Existing, Matching
    <3> QED
      BY <3>2, <3>4, <3>5 DEF WalkInv
  <2> QED
    BY <2>2, <2>3
<1>8. CASE ScanPage
  <2> DEFINE candidates == AfterCursor(walk.scan, walk.repositories)
             p == PageOf(walk.scan, walk.repositories, ScanLimit)
             matches == {j \in p.ids : Matching(walk.filter, jobs[j].state)}
             found == walk.page \cup matches
             w == [walk EXCEPT !.again = @ \cup (walk.page \cap matches)]
  <2>1. /\ walk.stage = "scanning"
        /\ walk' = IF Cardinality(found) > PageLimit
                   THEN Answer(w, CutPage(found), LastOf(CutPage(found)))
                   ELSE IF p.next = 0 THEN Answer(w, found, 0)
                   ELSE [w EXCEPT !.scan = p.next, !.page = found]
    BY <1>8 DEF ScanPage
  <2>2. /\ p.ids \subseteq candidates /\ (p.next = 0 => p.ids = candidates)
        /\ p.next # 0 => /\ p.next \in p.ids
                         /\ \A j \in p.ids : j = p.next \/ Before(j, p.next)
                         /\ \A j \in candidates \ p.ids : Before(p.next, j)
    BY <1>1, <1>4, PageCuts
  <2>3. /\ candidates \subseteq Granted /\ (\A j \in candidates : Behind(walk.scan, j))
        /\ \A j \in (walk.due \ walk.seen) \ walk.page : j \in candidates
    BY <2>1, <1>1, RowsBehind DEF WalkInv, NothingMissed, DueIsListed
  <2>4. /\ matches \subseteq p.ids
        /\ \A j \in p.ids \cap walk.due : j \in matches
    BY DEF WalkInv, DueIsListed
  <2>5. walk.filter \in EndedFilters => \A j \in matches : jobs[j].state \in Terminal
    BY DEF EndedFilters, Matching, Terminal
  <2>6. walk' = w => TRUE
    OBVIOUS
  <2> HIDE DEF candidates, p, matches
  <2>7. walk.page \cap matches = {}
    BY <2>1, <2>2, <2>3, <2>4, <1>1, PlacesInOrder DEF WalkInv, NothingMissed
  <2>8. w = walk
    BY <2>7 DEF WalkInv, WalkTypes
  <2> HIDE DEF w
  <2>9. found \subseteq Granted /\ IsFiniteSet(found)
    <3>1. found \subseteq Granted
      BY <2>2, <2>3, <2>4, <1>1
    <3> QED
      BY <3>1, <1>1, FS_Subset
  <2>10. \A j \in found : Behind(walk.cursor, j)
    <3>1. ASSUME NEW j \in matches PROVE Behind(walk.cursor, j)
      <4>1. Behind(walk.scan, j) /\ j \in Granted
        BY <3>1, <2>2, <2>3, <2>4
      <4>2. walk.cursor = 0 \/ UpTo(walk.cursor, walk.scan)
        BY <2>1 DEF WalkInv, NothingMissed
      <4>3. CASE walk.cursor = 0
        BY <4>3 DEF Behind
      <4>4. CASE UpTo(walk.cursor, walk.scan) /\ walk.cursor # 0
        <5>1. walk.scan \in JobIds /\ walk.cursor \in JobIds
          BY <4>4, <1>1 DEF UpTo
        <5> QED
          BY <5>1, <4>1, <4>4, <1>1, PlacesInOrder
      <4> QED
        BY <4>2, <4>3, <4>4
    <3> QED
      BY <2>1, <3>1 DEF WalkInv, NothingMissed
  <2>11. walk.filter \in EndedFilters => \A j \in found : jobs[j].state \in Terminal
    BY <2>5 DEF WalkInv, EndedStay
  <2>12. \A j \in (walk.due \ walk.seen) \ found : j \in candidates \ p.ids
    BY <2>3, <2>4
  \* What is in the page comes before what is behind the scan.
  <2>13. \A j \in found, k \in candidates \ p.ids : Before(j, k)
    <3> SUFFICES ASSUME NEW j \in found, NEW k \in candidates \ p.ids PROVE Before(j, k)
      OBVIOUS
    <3>1. CASE j \in matches
      <4>1. p.next # 0 /\ Before(p.next, k) /\ (j = p.next \/ Before(j, p.next)) /\ p.next \in Granted /\ k \in Granted
        BY <3>1, <2>2, <2>3, <2>4
      <4> QED
        BY <4>1, <2>9, <1>1, BeforeOrders
    <3>2. CASE j \in walk.page
      <4>1. UpTo(j, walk.scan) /\ Behind(walk.scan, k) /\ k \in Granted
        BY <3>2, <2>1, <2>3 DEF WalkInv, NothingMissed
      <4> QED
        BY <4>1, <2>9, <1>1, BeforeOrders DEF UpTo, Behind
    <3> QED
      BY <3>1, <3>2
  <2>14. CASE Cardinality(found) > PageLimit
    <3> DEFINE cut == CutPage(found)
               last == LastOf(cut)
    <3>1. /\ last \in cut /\ cut \subseteq found
          /\ \A j \in cut : j = last \/ Before(j, last)
          /\ \A j \in found \ cut : Before(last, j)
      <4>1. found \in SUBSET JobIds
        BY <2>9, <1>1
      <4> HIDE DEF found
      <4> QED
        BY <4>1, <2>9, <2>14, <1>1, <1>4, CutAtLast DEF CutPage
    <3>2. walk' = Answer(walk, cut, last)
      BY <2>1, <2>8, <2>14
    <3> HIDE DEF cut, last, found
    <3>3. cut \in SUBSET Granted /\ last \in Granted \cup {0} /\ last # 0
      BY <3>1, <2>9, <1>1
    <3>4. /\ \A j \in cut : Behind(walk.cursor, j)
          /\ last \in cut /\ \A j \in cut : UpTo(j, last)
      BY <3>1, <3>3, <2>10 DEF UpTo
    <3>5. \A j \in (walk.due \ walk.seen) \ cut : last # 0 /\ Behind(last, j)
      BY <3>1, <3>3, <2>12, <2>13 DEF Behind
    <3>6. walk.filter \in EndedFilters => \A j \in cut : jobs[j].state \in Terminal
      BY <3>1, <2>11
    <3> QED
      BY <3>2, <3>3, <3>4, <3>5, <3>6, <2>1, <1>2, AnswerIsRight
  <2>15. CASE ~(Cardinality(found) > PageLimit) /\ p.next = 0
    <3>1. walk' = Answer(walk, found, 0)
      BY <2>1, <2>8, <2>15
    <3>2. \A j \in (walk.due \ walk.seen) \ found : FALSE
      BY <2>2, <2>12, <2>15
    <3>3. found \in SUBSET Granted
      BY <2>9
    <3> HIDE DEF found
    <3> QED
      BY <3>1, <3>2, <3>3, <2>1, <2>10, <2>11, <1>2, AnswerIsRight
  <2>16. CASE ~(Cardinality(found) > PageLimit) /\ p.next # 0
    <3>1. walk' = [walk EXCEPT !.scan = p.next, !.page = found]
      BY <2>1, <2>8, <2>16
    <3> HIDE DEF found
    <3>2. p.next \in Granted /\ p.next \in candidates
      BY <2>2, <2>3, <2>16
    <3>3. WalkTypes'
      BY <3>1, <3>2, <2>9, <1>3 DEF WalkInv, WalkTypes
    <3>4. /\ walk'.stage = "scanning" /\ walk'.scan = p.next /\ walk'.cursor = walk.cursor /\ walk'.filter = walk.filter
          /\ walk'.repositories = walk.repositories /\ walk'.page = found /\ walk'.seen = walk.seen
          /\ walk'.due = walk.due /\ walk'.again = walk.again
      BY <3>1, <2>1 DEF WalkInv, WalkTypes
    <3>5. walk.cursor = 0 \/ UpTo(walk.cursor, p.next)
      <4>1. Behind(walk.cursor, p.next)
        <5>1. Behind(walk.scan, p.next)
          BY <3>2, <2>3
        <5>2. walk.cursor = 0 \/ UpTo(walk.cursor, walk.scan)
          BY <2>1 DEF WalkInv, NothingMissed
        <5> QED
          BY <5>1, <5>2, <3>2, <1>1, BeforeOrders DEF UpTo, Behind
      <4> QED
        BY <4>1, <3>2, <1>1 DEF Behind, UpTo
    <3>6. \A j \in found : UpTo(j, p.next)
      <4> SUFFICES ASSUME NEW j \in found PROVE UpTo(j, p.next)
        OBVIOUS
      <4>1. p.next # 0 /\ j \in Granted
        BY <2>9, <2>16
      <4>2. CASE j \in matches
        BY <4>1, <4>2, <2>2, <2>4 DEF UpTo
      <4>3. CASE j \in walk.page
        <5>1. UpTo(j, walk.scan) /\ Behind(walk.scan, p.next)
          BY <4>3, <3>2, <2>1, <2>3 DEF WalkInv, NothingMissed
        <5> QED
          BY <5>1, <4>1, <3>2, <1>1, BeforeOrders DEF UpTo, Behind
      <4> QED
        BY <4>2, <4>3 DEF found
    <3>7. \A j \in (walk.due \ walk.seen) \ found : Behind(p.next, j)
      BY <2>2, <2>12, <2>16 DEF Behind
    <3>8. NothingMissed'
      BY <3>4, <3>5, <3>6, <3>7, <2>1, <2>10, <1>3 DEF WalkInv, NothingMissed
    <3>9. DueIsListed' /\ EndedStay'
      BY <3>4, <2>11, <1>2 DEF WalkInv, DueIsListed, EndedStay, Listable, Existing, Matching
    <3> QED
      BY <3>3, <3>8, <3>9 DEF WalkInv
  <2> QED
    BY <2>14, <2>15, <2>16
<1> QED
  BY <1>5, <1>6, <1>7, <1>8

LEMMA AgentJobsStep == AgentJobsInv /\ [AgentJobsNext]_agentJobVars => AgentJobsInv'
<1> SUFFICES ASSUME AgentJobsInv, [AgentJobsNext]_agentJobVars PROVE AgentJobsInv'
  OBVIOUS
<1>1. SubmissionsInv /\ WalkInv /\ SubmissionsInv'
  BY SubmissionsStep DEF AgentJobsInv
<1>2. ASSUME walk' = walk, jobs' = jobs, grants' = grants PROVE WalkInv'
  BY <1>1, <1>2, WalkUndisturbed
<1>3. ASSUME NEW s \in Submissions, NEW k \in Keys, NEW r \in Repositories, Enqueued(s, k, r)
      PROVE  WalkInv'
  <2>1. walk' = walk /\ grants' = grants
    BY <1>3 DEF Enqueued
  <2>2. \A i \in Existing : jobs'[i] = jobs[i]
    BY <1>1, <1>3 DEF Enqueued, SubmissionsInv, Existing
  <2>3. Granted \subseteq Existing
    BY <1>1 DEF Granted, SubmissionsInv
  <2> QED
    BY <2>1, <2>2, <2>3, <1>1, WalkUndisturbed
<1>4. ASSUME NEW s \in Submissions, GrantJob(s)
      PROVE  WalkInv'
  <2>1. walk' = walk /\ jobs' = jobs /\ submitting[s] \in JobIds
        /\ grants' = [grants EXCEPT ![submitting[s]] = IF @ = 0 THEN instant ELSE @]
    BY <1>1, <1>4 DEF GrantJob, SubmissionsInv
  <2>2. \A i \in Granted : grants'[i] = grants[i]
    BY <2>1, <1>1 DEF Granted, SubmissionsInv, GrantTypes
  <2> QED
    BY <2>1, <2>2, <1>1, WalkUndisturbed
<1>5. ASSUME NEW j \in JobIds, JobMoves(j) \/ CancelAgentJob(j) PROVE WalkInv'
  <2>1. PICK state \in JobStates : MoveTo(j, state)
    BY <1>5 DEF JobMoves, CancelAgentJob, JobStates, Terminal
  <2>2. jobs[j].state \notin Terminal /\ jobs[j] # NoSuchJob /\ grants' = grants
    BY <1>5 DEF JobMoves, CancelAgentJob, NoSuchJob, Terminal
  <2> QED
    BY <2>1, <2>2, <1>1, WalkSurvivesMoves
<1>6. ASSUME NextInstant \/ (\E s \in Submissions : SubmissionBreaks(s)) PROVE WalkInv'
  <2>1. walk' = walk /\ jobs' = jobs /\ grants' = grants
    BY <1>6 DEF NextInstant, SubmissionBreaks
  <2> QED
    BY <2>1, <1>2
<1>7. ASSUME UNCHANGED agentJobVars PROVE WalkInv'
  <2>1. walk' = walk /\ jobs' = jobs /\ grants' = grants
    BY <1>7 DEF agentJobVars
  <2> QED
    BY <2>1, <1>2
<1>8. WalkInv'
  <2>1. CASE \/ \E f \in Filters, R \in (SUBSET Repositories) \ {{}} : StartWalk(f, R)
             \/ PlainPage \/ BeginScan \/ ScanPage
    BY <2>1, <1>1, WalkSteps
  <2>2. CASE \E s \in Submissions, k \in Keys, r \in Repositories : Enqueued(s, k, r)
    BY <2>2, <1>3
  <2>3. CASE \E s \in Submissions : GrantJob(s)
    BY <2>3, <1>4
  <2>4. CASE \E j \in JobIds : JobMoves(j) \/ CancelAgentJob(j)
    BY <2>4, <1>5
  <2> QED
    BY <2>1, <2>2, <2>3, <2>4, <1>6, <1>7 DEF AgentJobsNext
<1> QED
  BY <1>1, <1>8 DEF AgentJobsInv

LEMMA AgentJobsInvHolds == AgentJobsInv => SubmittedOnce /\ WalkSeesEveryJobOnce
BY DEF AgentJobsInv, SubmissionsInv, SubmittedOnce, WalkInv, NothingMissed, EndedStay, EndedFilters, WalkSeesEveryJobOnce

LEMMA AgentJobsTypes == AgentJobsInv => AgentJobsTypeOK
<1> SUFFICES ASSUME AgentJobsInv PROVE AgentJobsTypeOK
  OBVIOUS
<1>1. /\ jobs \in [JobIds -> [key : 1..MaxKeys, repository : Repositories, state : JobStates] \cup {NoSuchJob}]
      /\ instant \in 1..MaxInstant /\ grants \in [JobIds -> 0..MaxInstant]
      /\ submitting \in [Submissions -> JobIds \cup {0}]
  BY DEF AgentJobsInv, SubmissionsInv, GrantTypes, JobRow
<1>2. Granted \subseteq JobIds
  BY DEF Granted
<1>3. walk \in [stage : {"none", "next", "scanning", "done", "refused"}, filter : Filters \cup {"all"},
                repositories : SUBSET Repositories, cursor : JobIds \cup {0},
                scan : JobIds \cup {0}, page : SUBSET JobIds, seen : SUBSET JobIds,
                again : SUBSET JobIds, due : SUBSET JobIds]
  BY <1>2 DEF AgentJobsInv, WalkInv, WalkTypes
<1> QED
  BY <1>1, <1>3 DEF AgentJobsTypeOK

(***************************************************************************)
(* The slugs of the workspaces, which only the types ask about.            *)
(***************************************************************************)
SlugNumbers == 1..(Cardinality(Spaces) + 1)
Tenancy ==
    /\ tenant \in [Spaces -> Users \cup {Nobody}]
    /\ slug \in [Spaces -> {0} \cup SlugNumbers]

LEMMA SpacesCount ==
    /\ Cardinality(Spaces) \in Nat /\ IsFiniteSet(SlugNumbers)
    /\ Cardinality(SlugNumbers) = Cardinality(Spaces) + 1 /\ SlugNumbers \subseteq Nat \ {0}
<1>1. Cardinality(Spaces) \in Nat
  BY FS_CardinalityType, AccountsAssumption
<1> DEFINE last == Cardinality(Spaces) + 1
<1>2. last \in Nat \ {0}
  BY <1>1
<1> HIDE DEF last
<1>3. IsFiniteSet(1..last) /\ Cardinality(1..last) = last
  BY <1>2, FS_Interval
<1>4. 1..last \subseteq Nat \ {0}
  BY <1>2
<1> QED
  BY <1>1, <1>3, <1>4 DEF SlugNumbers, last

\* There are more numbers than workspaces, so that one is free in any tenant; FreeSlug is
\* the first.
LEMMA FreeSlugIsFree ==
    ASSUME NEW x
    PROVE  FreeSlug(x) \in SlugNumbers /\ \A w \in Spaces : tenant[w] = x => slug[w] # FreeSlug(x)
<1> DEFINE used(n) == \E w \in Spaces : tenant[w] = x /\ slug[w] = n
           holder == [n \in SlugNumbers |-> CHOOSE w \in Spaces : slug[w] = n]
           upTo(n) == {k \in SlugNumbers : k <= n}
           T == {upTo(n) : n \in {k \in SlugNumbers : ~used(k)}}
<1>1. \E n \in SlugNumbers : ~used(n)
  <2> SUFFICES ASSUME \A n \in SlugNumbers : used(n) PROVE FALSE
    OBVIOUS
  <2>1. \A n \in SlugNumbers : holder[n] \in Spaces /\ slug[holder[n]] = n
    <3> SUFFICES ASSUME NEW n \in SlugNumbers PROVE holder[n] \in Spaces /\ slug[holder[n]] = n
      OBVIOUS
    <3>1. \E w \in Spaces : slug[w] = n
      OBVIOUS
    <3> QED
      BY <3>1
  <2>2. holder \in Injection(SlugNumbers, Spaces)
    <3>1. holder \in [SlugNumbers -> Spaces]
      BY <2>1
    <3>2. \A m, n \in SlugNumbers : holder[m] = holder[n] => m = n
      BY <2>1
    <3> HIDE DEF holder
    <3> QED
      BY <3>1, <3>2 DEF Injection, IsInjective
  <2>3. Cardinality(SlugNumbers) <= Cardinality(Spaces)
    BY <2>2, FS_Injection, AccountsAssumption
  <2> QED
    BY <2>3, SpacesCount
<1>2. T \subseteq SUBSET SlugNumbers /\ T # {}
  BY <1>1
<1>3. PICK X \in T : \A Y \in T : ~(Y \subseteq X /\ Y # X)
  <2>1. IsFiniteSet(SlugNumbers)
    BY SpacesCount
  <2> HIDE DEF T
  <2> QED
    BY <1>2, <2>1, SmallestSet
<1>4. PICK n \in SlugNumbers : ~used(n) /\ X = upTo(n)
  OBVIOUS
<1>5. \A k \in SlugNumbers : k < n => used(k)
  <2> SUFFICES ASSUME NEW k \in SlugNumbers, k < n, ~used(k) PROVE FALSE
    OBVIOUS
  <2>1. k \in Nat /\ n \in Nat /\ SlugNumbers \subseteq Nat
    BY SpacesCount
  <2>2. upTo(k) \in T
    OBVIOUS
  <2>3. upTo(k) \subseteq upTo(n)
    <3> SUFFICES ASSUME NEW j \in SlugNumbers, j <= k PROVE j <= n
      OBVIOUS
    <3>1. j \in Nat
      BY <2>1
    <3> QED
      BY <2>1, <3>1
  <2>4. n \notin upTo(k) /\ n \in upTo(n)
    BY <2>1
  <2> QED
    BY <2>2, <2>3, <2>4, <1>3, <1>4
<1>6. \A k \in 1..(n - 1) : k \in SlugNumbers /\ k < n
  BY SpacesCount DEF SlugNumbers
<1>7. \E m \in 1..(Cardinality(Spaces) + 1) :
        /\ \A w \in Spaces : tenant[w] = x => slug[w] # m
        /\ \A k \in 1..(m - 1) : \E w \in Spaces : tenant[w] = x /\ slug[w] = k
  <2>1. n \in 1..(Cardinality(Spaces) + 1)
    BY DEF SlugNumbers
  <2>2. \A k \in 1..(n - 1) : used(k)
    BY <1>5, <1>6
  <2> QED
    BY <2>1, <2>2, <1>4
<1> QED
  BY <1>7 DEF FreeSlug, SlugNumbers

LEMMA TenancyStart == AccountsInit => Tenancy
BY DEF AccountsInit, Tenancy

LEMMA TenancyStep == Tenancy /\ Members /\ [AccountsNext]_accountVars => Tenancy'
<1> SUFFICES ASSUME Tenancy, Members, [AccountsNext]_accountVars PROVE Tenancy'
  OBVIOUS
<1>1. ASSUME tenant' = tenant, slug' = slug PROVE Tenancy'
  BY <1>1 DEF Tenancy
<1>2. ASSUME NEW u \in Users, NEW w \in Spaces, CreateUser(u, w) PROVE Tenancy'
  <2>1. 1 \in SlugNumbers
    BY SpacesCount DEF SlugNumbers
  <2> QED
    BY <1>2, <2>1 DEF CreateUser, Tenancy
<1>3. ASSUME NEW r \in Requests, NEW w \in Spaces, CreateWorkspace(r, w) PROVE Tenancy'
  <2> DEFINE x == tenant[request[r].space]
  <2>1. request[r].space \in Spaces
    BY <1>3 DEF CreateWorkspace, Members, ContextsHold, Fine, Knows
  <2>2. tenant' = [tenant EXCEPT ![w] = x] /\ slug' = [slug EXCEPT ![w] = FreeSlug(x)]
    BY <1>3 DEF CreateWorkspace
  <2>3. x \in Users \cup {Nobody}
    BY <2>1 DEF Tenancy
  <2>4. FreeSlug(x) \in SlugNumbers
    BY FreeSlugIsFree
  <2> HIDE DEF x
  <2> QED
    BY <2>2, <2>3, <2>4 DEF Tenancy
<1>4. ASSUME AccountsNext,
             ~\E u \in Users, w \in Spaces : CreateUser(u, w),
             ~\E r \in Requests, w \in Spaces : CreateWorkspace(r, w)
      PROVE  tenant' = tenant /\ slug' = slug
  BY <1>4 DEF AccountsNext, AddMember, Logout, RevokeAll, Revoke, RevokeToken, Verify, ResolveActor, StoreSession,
              Resolve, SelectWorkspace, InsertAgent, FindAgent, DeactivateAgent, CountAgents, CountTokens,
              InsertToken, EndRequest
<1>5. UNCHANGED accountVars => tenant' = tenant /\ slug' = slug
  BY DEF accountVars
<1> QED
  BY <1>1, <1>2, <1>3, <1>4, <1>5

(***************************************************************************)
(* The runtimes.  What a step of the manager does to its tables is shown   *)
(* for tables by themselves (Evicted, Touched, Created), since get passes  *)
(* them through several sweeps while the requests stand still (Reached).   *)
(* The leases are counted: a key without a lease has no user, so that      *)
(* evicting it takes nothing from anybody.                                 *)
(***************************************************************************)
TableTypes(T) ==
    T \in [lru : SUBSET (Workspaces \X Workspaces), cached : [Workspaces -> 0..MaxMade],
           runtimes : [1..MaxMade -> Runtime], faults : 0..MaxCloseFaults]

\* The order is one of these keys, and of nothing else that is cached.
Orders(T, keys) ==
    /\ T.lru \subseteq Keyed(T) \X Keyed(T)
    /\ \A u, w \in keys : u = w \/ (<<u, w>> \in T.lru <=> <<w, u>> \notin T.lru)
    /\ \A w \in Workspaces : <<w, w>> \notin T.lru

\* A runtime is under the key of its workspace, whatever is open is under its key, and what
\* is cached and not being closed is open.
Placed(T) ==
    /\ \A w \in Workspaces : T.cached[w] # 0 =>
          /\ T.runtimes[T.cached[w]].of = w
          /\ T.runtimes[T.cached[w]].closing \/ T.runtimes[T.cached[w]].open = Resources
    /\ \A i \in 1..MaxMade :
          T.runtimes[i].open # {} => T.runtimes[i].of \in Workspaces /\ T.cached[T.runtimes[i].of] = i

Roomy(T) == IsFiniteSet(Keyed(T)) /\ Cardinality(Keyed(T)) <= MaxRuntimes

\* The runtime can serve, and is the one of its workspace.
Serves(T, i) ==
    /\ i \in 1..MaxMade /\ T.runtimes[i].of \in Workspaces /\ T.cached[T.runtimes[i].of] = i
    /\ ~T.runtimes[i].closing /\ T.runtimes[i].open = Resources

Sound(T, users) == TableTypes(T) /\ Placed(T) /\ Roomy(T) /\ \A q \in users : Serves(T, held[q])

SameOwners(T, U) == \A i \in 1..MaxMade : U.runtimes[i].of = T.runtimes[i].of

Holders == {q \in Threads : held[q] # 0}
HoldersOf(w) == {q \in Threads : held[q] # 0 /\ runtimes[held[q]].of = w}

RequestTypes ==
    /\ leases \in [Workspaces -> Nat]
    /\ stage \in [Threads -> {"idle", "queued", "using", "leaving"}]
    /\ held \in [Threads -> 0..MaxMade]
    /\ managerClosed \in BOOLEAN
    /\ \A q \in Threads : held[q] = 0 <=> stage[q] = "idle"

CacheInv ==
    /\ RequestTypes
    /\ Sound(Tables, Holders) /\ Orders(Tables, Keyed(Tables))
    /\ \A w \in Workspaces : leases[w] = Cardinality(HoldersOf(w))
    /\ ClosedManagerKeepsNothing

-----------------------------------------------------------------------------
\* Evicting keys that none of these requests uses keeps the tables sound, whatever fails.
LEMMA EvictionIsSound ==
    ASSUME NEW T, NEW users \in SUBSET Threads, NEW keys \in SUBSET Keyed(T), NEW B \in Failures(T, keys),
           Sound(T, users), Orders(T, Keyed(T)),
           \A q \in users : T.runtimes[held[q]].of \notin keys
    PROVE  LET U == Evicted(T, keys, B)
           IN  /\ Sound(U, users) /\ Orders(U, Keyed(U)) /\ SameOwners(T, U)
               /\ \A w \in Workspaces : U.cached[w] # 0 =>
                     /\ U.cached[w] = T.cached[w]
                     /\ T.runtimes[T.cached[w]].closing => U.runtimes[U.cached[w]].closing
                     /\ w \in keys => U.runtimes[U.cached[w]].closing
<1> DEFINE U == Evicted(T, keys, B)
           gone == Dropped(keys, B)
           left(w) == {x \in Resources : <<w, x>> \in B}
<1>1. /\ T.lru \in SUBSET (Workspaces \X Workspaces) /\ T.cached \in [Workspaces -> 0..MaxMade]
      /\ T.runtimes \in [1..MaxMade -> Runtime] /\ T.faults \in 0..MaxCloseFaults
  BY DEF Sound, TableTypes
<1>2. /\ U.lru = {p \in T.lru : p[1] \notin gone /\ p[2] \notin gone}
      /\ U.cached = [w \in Workspaces |-> IF w \in gone THEN 0 ELSE T.cached[w]]
      /\ U.runtimes = [i \in 1..MaxMade |->
             IF T.runtimes[i].of \in keys /\ T.cached[T.runtimes[i].of] = i
             THEN CloseRuntime(T.runtimes[i], left(T.runtimes[i].of)) ELSE T.runtimes[i]]
      /\ U.faults = T.faults + Cardinality(B)
  BY DEF Evicted
<1>3. /\ DOMAIN U = {"lru", "cached", "runtimes", "faults"}
      /\ U = [lru |-> U.lru, cached |-> U.cached, runtimes |-> U.runtimes, faults |-> U.faults]
  BY DEF Evicted
<1>4. \A r \in Runtime : \A broken :
         /\ CloseRuntime(r, broken) \in Runtime /\ CloseRuntime(r, broken).of = r.of
         /\ CloseRuntime(r, broken).closing
         /\ CloseRuntime(r, broken).open = r.open \cap broken
  BY DEF CloseRuntime, Runtime
<1>5. /\ gone \subseteq keys /\ keys \subseteq Workspaces
      /\ \A w \in keys \ gone : left(w) # {}
      /\ \A w \in gone : left(w) = {}
  BY DEF Dropped, Keyed
<1>6. U.faults \in 0..MaxCloseFaults
  <2>1. IsFiniteSet(Resources)
    <3>1. IsFiniteSet({"ltm"}) /\ IsFiniteSet({"memory"})
      BY FS_Singleton
    <3>2. Resources = {"ltm"} \cup {"memory"}
      BY DEF Resources
    <3> QED
      BY <3>1, <3>2, FS_Union
  <2>2. IsFiniteSet(keys)
    BY FS_Subset DEF Sound, Roomy
  <2>3. IsFiniteSet(keys \X Resources)
    BY <2>1, <2>2, FS_Product
  <2>4. Cardinality(B) \in Nat
    BY <2>3, FS_Subset, FS_CardinalityType DEF Failures
  <2>5. T.faults + Cardinality(B) <= MaxCloseFaults
    BY DEF Failures
  <2> QED
    BY <1>1, <1>2, <2>4, <2>5, CacheAssumption
<1> HIDE DEF U, gone, left
<1>7. \A i \in 1..MaxMade :
         /\ U.runtimes[i] \in Runtime /\ U.runtimes[i].of = T.runtimes[i].of
         /\ IF T.runtimes[i].of \in keys /\ T.cached[T.runtimes[i].of] = i
            THEN U.runtimes[i].closing /\ U.runtimes[i].open = T.runtimes[i].open \cap left(T.runtimes[i].of)
            ELSE U.runtimes[i] = T.runtimes[i]
  <2> SUFFICES ASSUME NEW i \in 1..MaxMade
               PROVE  /\ U.runtimes[i] \in Runtime /\ U.runtimes[i].of = T.runtimes[i].of
                      /\ IF T.runtimes[i].of \in keys /\ T.cached[T.runtimes[i].of] = i
                         THEN /\ U.runtimes[i].closing
                              /\ U.runtimes[i].open = T.runtimes[i].open \cap left(T.runtimes[i].of)
                         ELSE U.runtimes[i] = T.runtimes[i]
    OBVIOUS
  <2>1. T.runtimes[i] \in Runtime
    BY <1>1
  <2>2. U.runtimes[i] = IF T.runtimes[i].of \in keys /\ T.cached[T.runtimes[i].of] = i
                        THEN CloseRuntime(T.runtimes[i], left(T.runtimes[i].of)) ELSE T.runtimes[i]
    BY <1>2
  <2> QED
    BY <2>1, <2>2, <1>4
<1>8. U.runtimes \in [1..MaxMade -> Runtime]
  <2>1. U.runtimes = [i \in 1..MaxMade |-> U.runtimes[i]]
    BY <1>2
  <2> QED
    BY <2>1, <1>7
<1>9. /\ U.cached \in [Workspaces -> 0..MaxMade]
      /\ \A w \in Workspaces : U.cached[w] = IF w \in gone THEN 0 ELSE T.cached[w]
  BY <1>1, <1>2, CacheAssumption
<1>10. Keyed(U) = Keyed(T) \ gone
  BY <1>9 DEF Keyed
<1>11. TableTypes(U)
  <2>1. U.lru \in SUBSET (Workspaces \X Workspaces)
    BY <1>1, <1>2
  <2> QED
    BY <2>1, <1>3, <1>6, <1>8, <1>9 DEF TableTypes
<1>12. Placed(U)
  <2>1. ASSUME NEW w \in Workspaces, U.cached[w] # 0
        PROVE  /\ U.runtimes[U.cached[w]].of = w
               /\ U.runtimes[U.cached[w]].closing \/ U.runtimes[U.cached[w]].open = Resources
    <3>1. U.cached[w] = T.cached[w] /\ T.cached[w] \in 1..MaxMade
      BY <2>1, <1>1, <1>9, CacheAssumption
    <3> QED
      BY <2>1, <3>1, <1>7 DEF Sound, Placed
  <2>2. ASSUME NEW i \in 1..MaxMade, U.runtimes[i].open # {}
        PROVE  U.runtimes[i].of \in Workspaces /\ U.cached[U.runtimes[i].of] = i
    <3>1. T.runtimes[i].open # {} /\ U.runtimes[i].of = T.runtimes[i].of
      BY <2>2, <1>7
    <3>2. T.runtimes[i].of \in Workspaces /\ T.cached[T.runtimes[i].of] = i
      BY <3>1 DEF Sound, Placed
    <3>3. T.runtimes[i].of \notin gone
      <4> SUFFICES ASSUME T.runtimes[i].of \in gone PROVE FALSE
        OBVIOUS
      <4>1. T.runtimes[i].of \in keys /\ left(T.runtimes[i].of) = {}
        BY <1>5
      <4>2. U.runtimes[i].open = T.runtimes[i].open \cap left(T.runtimes[i].of)
        BY <4>1, <3>2, <1>7
      <4> QED
        BY <4>1, <4>2, <2>2
    <3> QED
      BY <3>1, <3>2, <3>3, <1>9
  <2> QED
    BY <2>1, <2>2 DEF Placed
<1>13. Roomy(U)
  <2>1. Keyed(U) \in SUBSET Keyed(T) /\ IsFiniteSet(Keyed(T)) /\ Cardinality(Keyed(T)) <= MaxRuntimes
    BY <1>10 DEF Sound, Roomy
  <2>2. IsFiniteSet(Keyed(U)) /\ Cardinality(Keyed(U)) <= Cardinality(Keyed(T))
    BY <2>1, FS_Subset
  <2>3. Cardinality(Keyed(U)) \in Nat /\ Cardinality(Keyed(T)) \in Nat
    BY <2>1, <2>2, FS_CardinalityType
  <2> QED
    BY <2>1, <2>2, <2>3, CacheAssumption DEF Roomy
<1>14. \A q \in users : Serves(U, held[q])
  BY <1>5, <1>7, <1>9 DEF Sound, Serves
<1>15. Orders(U, Keyed(U))
  BY <1>2, <1>10 DEF Orders
<1>16. \A w \in Workspaces : U.cached[w] # 0 =>
         /\ U.cached[w] = T.cached[w]
         /\ T.runtimes[T.cached[w]].closing => U.runtimes[U.cached[w]].closing
         /\ w \in keys => U.runtimes[U.cached[w]].closing
  <2> SUFFICES ASSUME NEW w \in Workspaces, U.cached[w] # 0
               PROVE  /\ U.cached[w] = T.cached[w]
                      /\ T.runtimes[T.cached[w]].closing => U.runtimes[U.cached[w]].closing
                      /\ w \in keys => U.runtimes[U.cached[w]].closing
    OBVIOUS
  <2>1. U.cached[w] = T.cached[w] /\ T.cached[w] \in 1..MaxMade /\ T.runtimes[T.cached[w]].of = w
    BY <1>1, <1>9, CacheAssumption DEF Sound, Placed
  <2> QED
    BY <2>1, <1>7
<1>17. SameOwners(T, U)
  BY <1>7 DEF SameOwners
<1> QED
  BY <1>11, <1>12, <1>13, <1>14, <1>15, <1>16, <1>17 DEF Sound, U

-----------------------------------------------------------------------------
\* What get has made of the tables while the requests stand still.
Reached(T) == Sound(T, Holders) /\ Orders(T, Keyed(T)) /\ SameOwners(Tables, T)

LEMMA UnleasedIsUnused ==
    ASSUME CacheInv, NEW T, Reached(T), NEW w \in Workspaces, leases[w] = 0, NEW q \in Holders
    PROVE  T.runtimes[held[q]].of # w
<1>1. IsFiniteSet(HoldersOf(w))
  BY FS_Subset, CacheAssumption DEF HoldersOf
<1>2. HoldersOf(w) = {}
  BY <1>1, FS_EmptySet DEF CacheInv
<1>3. runtimes[held[q]].of # w
  BY <1>2 DEF Holders, HoldersOf
<1>4. held[q] \in 1..MaxMade
  BY DEF Reached, Sound, Serves
<1> QED
  BY <1>3, <1>4 DEF Reached, SameOwners, Tables

LEMMA SweptIsReached ==
    ASSUME CacheInv, NEW T, Reached(T), NEW keys, NEW U \in Swept(T, keys)
    PROVE  /\ Reached(U)
           /\ \A w \in keys : U.cached[w] # 0 /\ w \in Workspaces =>
                 leases[w] > 0 \/ Locked(U.cached[w]) \/ U.runtimes[U.cached[w]].closing
<1> DEFINE free == Evictable(T, keys)
<1>1. PICK B \in Failures(T, free) : U = Evicted(T, free, B)
  BY DEF Swept
<1>2. free \in SUBSET Keyed(T) /\ \A w \in free : w \in Workspaces /\ leases[w] = 0
  BY DEF Evictable, Keyed
<1>3. \A q \in Holders : T.runtimes[held[q]].of \notin free
  BY <1>2, UnleasedIsUnused
<1>4. Holders \in SUBSET Threads
  BY DEF Holders
<1>5. /\ Sound(U, Holders) /\ Orders(U, Keyed(U)) /\ SameOwners(T, U)
      /\ \A w \in Workspaces : U.cached[w] # 0 =>
            /\ U.cached[w] = T.cached[w]
            /\ w \in free => U.runtimes[U.cached[w]].closing
  <2> HIDE DEF free
  <2> QED
    BY <1>1, <1>2, <1>3, <1>4, EvictionIsSound DEF Reached
<1>6. Reached(U)
  BY <1>5 DEF Reached, SameOwners
<1>7. ASSUME NEW w \in keys, w \in Workspaces, U.cached[w] # 0
      PROVE  leases[w] > 0 \/ Locked(U.cached[w]) \/ U.runtimes[U.cached[w]].closing
  <2>1. CASE w \in free
    BY <2>1, <1>5, <1>7
  <2>2. CASE w \notin free
    <3>1. w \in Keyed(T) /\ U.cached[w] = T.cached[w]
      BY <1>5, <1>7 DEF Keyed
    <3>2. leases[w] # 0 \/ Locked(T.cached[w])
      BY <3>1, <2>2, <1>7 DEF Evictable
    <3>3. leases[w] \in Nat
      BY <1>7 DEF CacheInv, RequestTypes
    <3> QED
      BY <3>1, <3>2, <3>3
  <2> QED
    BY <2>1, <2>2
<1> QED
  BY <1>6, <1>7

LEMMA TablesReached == CacheInv => Reached(Tables)
BY DEF CacheInv, Reached, SameOwners

LEMMA ExpiryIsReached ==
    ASSUME CacheInv, NEW U \in AfterExpiry(Tables)
    PROVE  Reached(U)
BY TablesReached, SweptIsReached DEF AfterExpiry

LEMMA AdmittedIsReached ==
    ASSUME CacheInv, NEW w \in Workspaces, NEW U \in Admitted(w)
    PROVE  Reached(U)
<1> DEFINE closed == UNION {Swept(T, {w}) : T \in Unserved(w)}
<1>1. \A T \in closed : Reached(T)
  BY ExpiryIsReached, SweptIsReached DEF Unserved
<1>2. PICK T \in closed : U \in IF T.cached[w] = 0 THEN AfterVictims(T) ELSE {T}
  BY DEF Admitted
<1>3. CASE U = T
  BY <1>1, <1>3
<1>4. CASE U \in AfterVictims(T) /\ U # T
  <2>1. \E keys : U \in Swept(T, keys)
    <3> HIDE DEF closed
    <3>1. /\ ~(Cardinality(Keyed(T)) < MaxRuntimes)
          /\ U \in (UNION {{V \in Swept(T, UpToKey(T, v)) : Keyed(T) \ Keyed(V) = {v}} : v \in Keyed(T)})
                   \cup {V \in Swept(T, Keyed(T)) : Keyed(V) = Keyed(T)}
      BY <1>4 DEF AfterVictims
    <3>2. CASE U \in Swept(T, Keyed(T))
      BY <3>2
    <3>3. CASE \E v \in Keyed(T) : U \in Swept(T, UpToKey(T, v))
      BY <3>3
    <3> QED
      BY <3>1, <3>2, <3>3
  <2> HIDE DEF closed
  <2> QED
    BY <2>1, <1>1, SweptIsReached
<1> QED
  BY <1>2, <1>3, <1>4

-----------------------------------------------------------------------------
\* What stamping a key does to sound tables in which all the others are ordered.
LEMMA TouchIsSound ==
    ASSUME NEW T, NEW users, Sound(T, users), NEW w \in Keyed(T), Orders(T, Keyed(T) \ {w})
    PROVE  Sound(Touched(T, w), users) /\ Orders(Touched(T, w), Keyed(T))
           /\ Touched(T, w).cached = T.cached /\ Touched(T, w).runtimes = T.runtimes
<1> DEFINE U == Touched(T, w)
<1>1. /\ T.lru \in SUBSET (Workspaces \X Workspaces) /\ T.cached \in [Workspaces -> 0..MaxMade]
      /\ T.runtimes \in [1..MaxMade -> Runtime] /\ T.faults \in 0..MaxCloseFaults
      /\ T = [lru |-> T.lru, cached |-> T.cached, runtimes |-> T.runtimes, faults |-> T.faults]
  BY DEF Sound, TableTypes
<1>2. U = [lru |-> {p \in T.lru : p[1] # w} \cup {<<u, w>> : u \in Keyed(T) \ {w}},
           cached |-> T.cached, runtimes |-> T.runtimes, faults |-> T.faults]
  BY <1>1 DEF Touched
<1>3. U.cached = T.cached /\ U.runtimes = T.runtimes /\ U.faults = T.faults
      /\ U.lru = {p \in T.lru : p[1] # w} \cup {<<u, w>> : u \in Keyed(T) \ {w}}
  BY <1>2
<1>4. Keyed(U) = Keyed(T) /\ Keyed(T) \subseteq Workspaces
  BY <1>3 DEF Keyed
<1>5. U.lru \subseteq Keyed(T) \X Keyed(T)
  BY <1>3 DEF Orders
<1>6. TableTypes(U)
  BY <1>1, <1>2, <1>3, <1>4, <1>5 DEF TableTypes
<1> HIDE DEF U
<1>7. Sound(U, users)
  BY <1>3, <1>4, <1>6 DEF Sound, Placed, Roomy, Serves
<1>8. \A u, v \in Keyed(T) : <<u, v>> \in U.lru <=> u # v /\ u # w /\ (v = w \/ <<u, v>> \in T.lru)
  <2> SUFFICES ASSUME NEW u \in Keyed(T), NEW v \in Keyed(T)
               PROVE  <<u, v>> \in U.lru <=> u # v /\ u # w /\ (v = w \/ <<u, v>> \in T.lru)
    OBVIOUS
  <2>1. <<u, v>> \in {p \in T.lru : p[1] # w} <=> <<u, v>> \in T.lru /\ u # w
    OBVIOUS
  <2>2. <<u, v>> \in {<<x, w>> : x \in Keyed(T) \ {w}} <=> v = w /\ u # w
    OBVIOUS
  <2>3. <<u, u>> \notin T.lru
    BY <1>4 DEF Orders
  <2> QED
    BY <2>1, <2>2, <2>3, <1>3
<1>9. Orders(U, Keyed(T))
  <2>1. \A u, v \in Keyed(T) : u = v \/ (<<u, v>> \in U.lru <=> <<v, u>> \notin U.lru)
    BY <1>8 DEF Orders
  <2>2. \A u \in Workspaces : <<u, u>> \notin U.lru
    BY <1>5, <1>8
  <2> QED
    BY <1>4, <1>5, <2>1, <2>2 DEF Orders
<1> QED
  BY <1>3, <1>7, <1>9 DEF U

\* A new runtime under a free key, with room for it.
LEMMA CreationIsSound ==
    ASSUME NEW T, NEW users, Sound(T, users), Orders(T, Keyed(T)), NEW w \in Workspaces,
           T.cached[w] = 0, Cardinality(Keyed(T)) < MaxRuntimes,
           NEW i \in 1..MaxMade, T.runtimes[i] = NotMade
    PROVE  LET U == Created(T, w, i)
           IN  /\ Sound(U, users) /\ Orders(U, Keyed(U) \ {w}) /\ w \in Keyed(U) /\ Serves(U, i)
               /\ U.cached[w] = i /\ Keyed(U) = Keyed(T) \cup {w}
               /\ \A k \in 1..MaxMade : T.runtimes[k].of \in Workspaces => U.runtimes[k].of = T.runtimes[k].of
<1> DEFINE U == Created(T, w, i)
<1>1. /\ T.lru \in SUBSET (Workspaces \X Workspaces) /\ T.cached \in [Workspaces -> 0..MaxMade]
      /\ T.runtimes \in [1..MaxMade -> Runtime] /\ T.faults \in 0..MaxCloseFaults
      /\ T = [lru |-> T.lru, cached |-> T.cached, runtimes |-> T.runtimes, faults |-> T.faults]
  BY DEF Sound, TableTypes
<1>2. U = [lru |-> T.lru, cached |-> [T.cached EXCEPT ![w] = i],
           runtimes |-> [T.runtimes EXCEPT ![i] = [of |-> w, closing |-> FALSE, open |-> Resources]],
           faults |-> T.faults]
  <2>1. /\ DOMAIN T = {"lru", "cached", "runtimes", "faults"}
        /\ DOMAIN T.cached = Workspaces /\ DOMAIN T.runtimes = 1..MaxMade
    BY <1>1
  <2>2. /\ DOMAIN U = {"lru", "cached", "runtimes", "faults"}
        /\ U.lru = T.lru /\ U.faults = T.faults
        /\ U.cached = [T.cached EXCEPT ![w] = i]
        /\ U.runtimes = [T.runtimes EXCEPT ![i] = [of |-> w, closing |-> FALSE, open |-> Resources]]
    BY <2>1 DEF Created
  <2>3. U = [x \in {"lru", "cached", "runtimes", "faults"} |-> U[x]]
    BY <2>2 DEF Created
  <2> QED
    BY <2>2, <2>3
<1>3. /\ U.lru = T.lru /\ U.faults = T.faults
      /\ U.cached = [T.cached EXCEPT ![w] = i]
      /\ U.runtimes = [T.runtimes EXCEPT ![i] = [of |-> w, closing |-> FALSE, open |-> Resources]]
  BY <1>2
<1>4. [of |-> w, closing |-> FALSE, open |-> Resources] \in Runtime
  BY DEF Runtime
<1>5. U.cached \in [Workspaces -> 0..MaxMade] /\ U.runtimes \in [1..MaxMade -> Runtime]
  BY <1>1, <1>3, <1>4
<1>6. TableTypes(U)
  BY <1>1, <1>2, <1>3, <1>5 DEF TableTypes
<1> HIDE DEF U
<1>7. /\ U.cached[w] = i /\ \A u \in Workspaces \ {w} : U.cached[u] = T.cached[u]
      /\ U.runtimes[i].of = w /\ ~U.runtimes[i].closing /\ U.runtimes[i].open = Resources
      /\ \A k \in (1..MaxMade) \ {i} : U.runtimes[k] = T.runtimes[k]
  <2>1. U.cached[w] = i /\ \A u \in Workspaces \ {w} : U.cached[u] = T.cached[u]
    BY <1>1, <1>3
  <2>2. /\ U.runtimes[i] = [of |-> w, closing |-> FALSE, open |-> Resources]
        /\ \A k \in (1..MaxMade) \ {i} : U.runtimes[k] = T.runtimes[k]
    BY <1>1, <1>3
  <2> QED
    BY <2>1, <2>2
<1>8. Keyed(U) = Keyed(T) \cup {w} /\ w \notin Keyed(T)
  BY <1>7, CacheAssumption DEF Keyed
<1>9. \A u \in Workspaces : T.cached[u] # 0 => T.cached[u] # i
  <2>1. NotMade.of \notin Workspaces
    BY CacheAssumption DEF NotMade
  <2> QED
    BY <2>1 DEF Sound, Placed
<1>10. Placed(U)
  <2>1. ASSUME NEW u \in Workspaces, U.cached[u] # 0
        PROVE  /\ U.runtimes[U.cached[u]].of = u
               /\ U.runtimes[U.cached[u]].closing \/ U.runtimes[U.cached[u]].open = Resources
    <3>1. CASE u = w
      BY <3>1, <1>7
    <3>2. CASE u # w
      <4>1. U.cached[u] = T.cached[u] /\ T.cached[u] \in (1..MaxMade) \ {i}
        BY <2>1, <3>2, <1>1, <1>7, <1>9, CacheAssumption
      <4> QED
        BY <4>1, <1>7 DEF Sound, Placed
    <3> QED
      BY <3>1, <3>2
  <2>2. ASSUME NEW k \in 1..MaxMade, U.runtimes[k].open # {}
        PROVE  U.runtimes[k].of \in Workspaces /\ U.cached[U.runtimes[k].of] = k
    <3>1. CASE k = i
      BY <3>1, <1>7
    <3>2. CASE k # i
      <4>1. U.runtimes[k] = T.runtimes[k] /\ T.runtimes[k].of \in Workspaces /\ T.cached[T.runtimes[k].of] = k
        BY <3>2, <2>2, <1>7 DEF Sound, Placed
      <4>2. T.runtimes[k].of # w
        BY <4>1
      <4> QED
        BY <4>1, <4>2, <1>7
    <3> QED
      BY <3>1, <3>2
  <2> QED
    BY <2>1, <2>2 DEF Placed
<1>11. Roomy(U)
  <2>1. IsFiniteSet(Keyed(T)) /\ Cardinality(Keyed(T)) \in Nat
    BY FS_CardinalityType DEF Sound, Roomy
  <2>2. IsFiniteSet(Keyed(U)) /\ Cardinality(Keyed(U)) = Cardinality(Keyed(T)) + 1
    BY <2>1, <1>8, FS_AddElement
  <2> QED
    BY <2>1, <2>2, CacheAssumption DEF Roomy
<1>12. \A q \in users : Serves(U, held[q])
  <2> SUFFICES ASSUME NEW q \in users PROVE Serves(U, held[q])
    OBVIOUS
  <2>1. Serves(T, held[q])
    BY DEF Sound
  <2>2. held[q] # i /\ T.runtimes[held[q]].of # w
    BY <2>1, CacheAssumption DEF Serves, NotMade
  <2> QED
    BY <2>1, <2>2, <1>7 DEF Serves
<1>13. Orders(U, Keyed(U) \ {w})
  BY <1>3, <1>8 DEF Orders
<1>14. Serves(U, i) /\ w \in Keyed(U) /\ \A k \in 1..MaxMade : T.runtimes[k].of \in Workspaces => U.runtimes[k].of = T.runtimes[k].of
  BY <1>7, <1>8, CacheAssumption DEF Serves, NotMade
<1> QED
  BY <1>6, <1>7, <1>8, <1>10, <1>11, <1>12, <1>13, <1>14 DEF Sound, U

-----------------------------------------------------------------------------
LEMMA InstalledIsSound ==
    ASSUME NEW U, Install(U), TableTypes(U), Placed(U), Roomy(U), Orders(U, Keyed(U)),
           \A q \in Holders' : Serves(U, held'[q])
    PROVE  (Sound(Tables, Holders) /\ Orders(Tables, Keyed(Tables)))'
<1>1. Tables' = U
  <2>1. U = [lru |-> U.lru, cached |-> U.cached, runtimes |-> U.runtimes, faults |-> U.faults]
    BY DEF TableTypes
  <2> QED
    BY <2>1 DEF Tables, Install
<1>2. TableTypes(Tables') /\ Placed(Tables') /\ Roomy(Tables') /\ Orders(Tables', Keyed(Tables'))
      /\ \A q \in Holders' : Serves(Tables', held'[q])
  BY <1>1
<1> QED
  BY <1>2 DEF Sound, TableTypes, Placed, Roomy, Orders, Keyed, Serves

\* A request gets its lease on a runtime that can serve.
LEMMA LeaseStep ==
    ASSUME CacheInv, NEW q \in Threads, stage[q] = "idle", ~managerClosed,
           NEW T, Sound(T, Holders), NEW w \in Keyed(T), Orders(T, Keyed(T) \ {w}), Serves(T, T.cached[w]),
           \A k \in 1..MaxMade : runtimes[k].of \in Workspaces => T.runtimes[k].of = runtimes[k].of,
           Leased(q, w, T)
    PROVE  CacheInv'
<1> DEFINE U == Touched(T, w)
<1>1. /\ Install(U) /\ leases' = [leases EXCEPT ![w] = @ + 1] /\ stage' = [stage EXCEPT ![q] = "queued"]
      /\ held' = [held EXCEPT ![q] = T.cached[w]] /\ managerClosed' = managerClosed
  BY DEF Leased
<1>2. Sound(U, Holders) /\ Orders(U, Keyed(T)) /\ U.cached = T.cached /\ U.runtimes = T.runtimes
  BY TouchIsSound
<1> HIDE DEF U
<1>3. Keyed(U) = Keyed(T) /\ w \in Workspaces
  BY <1>2 DEF Keyed
<1>4. RequestTypes
  BY DEF CacheInv
<1>5. T.cached[w] \in 1..MaxMade /\ T.runtimes[T.cached[w]].of = w
  BY <1>3 DEF Serves, Sound, Placed, Keyed
<1>6. held[q] = 0 /\ Holders' = Holders \cup {q} /\ held'[q] = T.cached[w] /\ \A p \in Holders : held'[p] = held[p]
  BY <1>1, <1>4, <1>5, CacheAssumption DEF RequestTypes, Holders
<1>7. RequestTypes'
  BY <1>1, <1>3, <1>4, <1>5, CacheAssumption DEF RequestTypes
<1>8. (Sound(Tables, Holders) /\ Orders(Tables, Keyed(Tables)))'
  <2>1. \A p \in Holders' : Serves(U, held'[p])
    BY <1>2, <1>6 DEF Sound, Serves
  <2> QED
    BY <1>1, <1>2, <1>3, <2>1, InstalledIsSound DEF Sound
<1>9. \A v \in Workspaces : leases'[v] = Cardinality(HoldersOf(v)')
  <2> SUFFICES ASSUME NEW v \in Workspaces PROVE leases'[v] = Cardinality(HoldersOf(v)')
    OBVIOUS
  <2>1. runtimes' = T.runtimes
    BY <1>1, <1>2 DEF Install
  <2>2. \A p \in Holders : runtimes'[held[p]].of = runtimes[held[p]].of
    <3>1. \A p \in Holders : held[p] \in 1..MaxMade /\ runtimes[held[p]].of \in Workspaces
      BY DEF CacheInv, Sound, Serves, Tables
    <3> QED
      BY <2>1, <3>1
  <2>3. HoldersOf(v) \subseteq Holders /\ \A p \in Holders : p \in HoldersOf(v) <=> runtimes[held[p]].of = v
    BY DEF HoldersOf, Holders
  <2>4. HoldersOf(v)' \subseteq Holders' /\ \A p \in Holders' : p \in HoldersOf(v)' <=> runtimes'[held'[p]].of = v
    BY DEF HoldersOf, Holders
  <2>5. HoldersOf(v)' = IF v = w THEN HoldersOf(v) \cup {q} ELSE HoldersOf(v)
    <3>1. runtimes'[held'[q]].of = w
      BY <1>5, <1>6, <2>1
    <3>2. \A p \in Holders : p \in HoldersOf(v)' <=> p \in HoldersOf(v)
      BY <1>6, <2>2, <2>3, <2>4
    <3>3. q \in HoldersOf(v)' <=> v = w
      BY <3>1, <1>6, <2>4
    <3> QED
      BY <3>2, <3>3, <1>6, <2>3, <2>4
  <2>6. q \notin HoldersOf(v) /\ IsFiniteSet(HoldersOf(v)) /\ leases[v] = Cardinality(HoldersOf(v))
    BY <1>6, FS_Subset, CacheAssumption DEF HoldersOf, CacheInv
  <2>7. Cardinality(HoldersOf(v) \cup {q}) = Cardinality(HoldersOf(v)) + 1
    BY <2>6, FS_AddElement
  <2>8. leases'[v] = IF v = w THEN leases[v] + 1 ELSE leases[v]
    BY <1>1, <1>4 DEF RequestTypes
  <2> QED
    BY <2>5, <2>6, <2>7, <2>8
<1>10. ClosedManagerKeepsNothing'
  BY <1>1 DEF ClosedManagerKeepsNothing
<1> QED
  BY <1>7, <1>8, <1>9, <1>10 DEF CacheInv

\* What get has done stays done when it raises.
LEMMA RefusalStep ==
    ASSUME CacheInv, ~managerClosed, NEW T, Reached(T), Refused(T)
    PROVE  CacheInv'
<1>1. Install(T) /\ UNCHANGED <<leases, stage, held, managerClosed>>
  BY DEF Refused
<1>2. Holders' = Holders /\ \A w \in Workspaces : HoldersOf(w)' = HoldersOf(w)
  <2>1. \A q \in Holders : held[q] \in 1..MaxMade
    BY DEF Reached, Sound, Serves
  <2>2. \A i \in 1..MaxMade : runtimes'[i].of = runtimes[i].of
    BY <1>1 DEF Reached, SameOwners, Tables, Install
  <2> QED
    BY <1>1, <2>1, <2>2 DEF Holders, HoldersOf
<1>3. (Sound(Tables, Holders) /\ Orders(Tables, Keyed(Tables)))'
  BY <1>1, <1>2, InstalledIsSound DEF Reached, Sound
<1> QED
  BY <1>1, <1>2, <1>3 DEF CacheInv, RequestTypes, ClosedManagerKeepsNothing

LEMMA AcquireStep ==
    ASSUME CacheInv, NEW q \in Threads, NEW w \in Workspaces,
           AcquireCached(q, w) \/ AcquireNew(q, w) \/ AcquireFails(q, w)
    PROVE  CacheInv'
<1>1. CASE AcquireCached(q, w)
  <2>1. PICK T \in AfterExpiry(Tables) : Usable(T, w) /\ Leased(q, w, T)
    BY <1>1 DEF AcquireCached
  <2>2. Reached(T)
    BY ExpiryIsReached
  <2>3. T.cached[w] \in 1..MaxMade
    BY <2>1, <2>2 DEF Reached, Sound, TableTypes, Usable
  <2>4. w \in Keyed(T) /\ Serves(T, T.cached[w])
    BY <2>1, <2>2, <2>3 DEF Usable, Keyed, Reached, Sound, Placed, Serves
  <2>5. Orders(T, Keyed(T) \ {w}) /\ Sound(T, Holders)
    BY <2>2 DEF Reached, Orders
  <2>6. \A k \in 1..MaxMade : T.runtimes[k].of = runtimes[k].of
    BY <2>2 DEF Reached, SameOwners, Tables
  <2>7. stage[q] = "idle" /\ ~managerClosed
    BY <1>1 DEF AcquireCached
  <2> QED
    BY <2>1, <2>4, <2>5, <2>6, <2>7, LeaseStep
<1>2. CASE AcquireNew(q, w)
  <2>1. PICK T \in Admitted(w), i \in 1..MaxMade :
           /\ T.cached[w] = 0 /\ Cardinality(Keyed(T)) < MaxRuntimes
           /\ T.runtimes[i] = NotMade /\ Leased(q, w, Created(T, w, i))
    BY <1>2 DEF AcquireNew
  <2>2. Sound(T, Holders) /\ Orders(T, Keyed(T)) /\ SameOwners(Tables, T)
    BY AdmittedIsReached DEF Reached
  <2> DEFINE U == Created(T, w, i)
  <2>3. /\ Sound(U, Holders) /\ Orders(U, Keyed(U) \ {w}) /\ w \in Keyed(U) /\ Serves(U, U.cached[w])
        /\ \A k \in 1..MaxMade : T.runtimes[k].of \in Workspaces => U.runtimes[k].of = T.runtimes[k].of
    BY <2>1, <2>2, CreationIsSound
  <2>4. Leased(q, w, U)
    BY <2>1
  <2> HIDE DEF U
  <2>5. \A k \in 1..MaxMade : runtimes[k].of \in Workspaces => U.runtimes[k].of = runtimes[k].of
    BY <2>2, <2>3 DEF SameOwners, Tables
  <2>6. stage[q] = "idle" /\ ~managerClosed
    BY <1>2 DEF AcquireNew
  <2> QED
    BY <2>3, <2>4, <2>5, <2>6, LeaseStep
<1>3. CASE AcquireFails(q, w)
  <2>1. PICK T \in Admitted(w) : Refused(T)
    BY <1>3 DEF AcquireFails
  <2>2. Reached(T)
    BY AdmittedIsReached
  <2> QED
    BY <1>3, <2>1, <2>2, RefusalStep DEF AcquireFails
<1> QED
  BY <1>1, <1>2, <1>3

\* The runtime's own lock: only the stage of one request changes.
LEMMA RuntimeLockStep ==
    ASSUME CacheInv, NEW q \in Threads, TakeRuntimeLock(q) \/ ReleaseRuntimeLock(q)
    PROVE  CacheInv'
<1>1. UNCHANGED <<lru, cached, runtimes, leases, held, managerClosed, closeFaults>>
  BY DEF TakeRuntimeLock, ReleaseRuntimeLock
<1>2. RequestTypes'
  BY <1>1 DEF CacheInv, RequestTypes, TakeRuntimeLock, ReleaseRuntimeLock
<1>3. Tables' = Tables /\ Holders' = Holders
  BY <1>1 DEF Tables, Holders
<1>4. (Sound(Tables, Holders) /\ Orders(Tables, Keyed(Tables)))'
  BY <1>1, <1>3 DEF CacheInv, Sound, TableTypes, Placed, Roomy, Orders, Keyed, Serves
<1> QED
  BY <1>1, <1>2, <1>4 DEF CacheInv, HoldersOf, ClosedManagerKeepsNothing

LEMMA CloseManagerStep == ASSUME CacheInv, CloseManager PROVE CacheInv'
<1>1. PICK T \in Swept(Tables, Keyed(Tables)) : Install(T)
  BY DEF CloseManager
<1>2. UNCHANGED <<leases, stage, held>> /\ managerClosed'
  BY DEF CloseManager
<1>3. /\ Reached(T)
      /\ \A w \in Keyed(Tables) : T.cached[w] # 0 /\ w \in Workspaces =>
            leases[w] > 0 \/ Locked(T.cached[w]) \/ T.runtimes[T.cached[w]].closing
  BY TablesReached, SweptIsReached
<1>4. \A i \in 1..MaxMade : runtimes'[i].of = runtimes[i].of
  BY <1>1, <1>3 DEF Reached, SameOwners, Tables, Install
<1>5. Holders' = Holders /\ \A w \in Workspaces : HoldersOf(w)' = HoldersOf(w)
  <2>1. \A q \in Holders : held[q] \in 1..MaxMade
    BY <1>3 DEF Reached, Sound, Serves
  <2> QED
    BY <1>2, <1>4, <2>1 DEF Holders, HoldersOf
<1>6. (Sound(Tables, Holders) /\ Orders(Tables, Keyed(Tables)))'
  BY <1>1, <1>2, <1>3, <1>5, InstalledIsSound DEF Reached, Sound
<1>7. ClosedManagerKeepsNothing'
  <2> SUFFICES ASSUME NEW w \in Workspaces, T.cached[w] # 0
               PROVE  leases[w] > 0 \/ T.runtimes[T.cached[w]].closing
    BY <1>1, <1>2 DEF ClosedManagerKeepsNothing, Install
  <2>1. w \in Keyed(Tables)
    <3>1. T.cached[w] \in 1..MaxMade
      BY <1>3 DEF Reached, Sound, TableTypes
    <3>2. PICK B : T = Evicted(Tables, Evictable(Tables, Keyed(Tables)), B)
      BY DEF Swept
    <3> QED
      BY <3>2 DEF Evicted, Keyed
  <2>2. CASE Locked(T.cached[w])
    <3>1. PICK q \in Threads : stage[q] = "using" /\ held[q] = T.cached[w]
      BY <2>2 DEF Locked
    <3>2. q \in Holders /\ held[q] \in 1..MaxMade
      BY <3>1, <1>3 DEF Holders, Reached, Sound, TableTypes
    <3>3. runtimes[held[q]].of = w
      BY <3>1, <3>2, <1>1, <1>3, <1>4 DEF Reached, Sound, Placed, Install
    <3>4. q \in HoldersOf(w)
      BY <3>2, <3>3 DEF Holders, HoldersOf
    <3>5. IsFiniteSet(HoldersOf(w)) /\ leases[w] = Cardinality(HoldersOf(w)) /\ leases[w] \in Nat
      BY FS_Subset, CacheAssumption DEF HoldersOf, CacheInv, RequestTypes
    <3> QED
      BY <3>4, <3>5, FS_EmptySet
  <2> QED
    BY <1>3, <2>1, <2>2
<1> QED
  BY <1>2, <1>5, <1>6, <1>7 DEF CacheInv, RequestTypes

\* The end of a lease, and of the runtime if it is the last one after close().
LEMMA DropLeaseStep == ASSUME CacheInv, NEW q \in Threads, DropLease(q) PROVE CacheInv'
<1> DEFINE w == runtimes[held[q]].of
           T == Touched(Tables, w)
<1>1. /\ stage[q] = "leaving" /\ leases' = [leases EXCEPT ![w] = @ - 1]
      /\ IF managerClosed /\ leases[w] = 1
         THEN \E B \in Failures(T, {w}) : Install(Evicted(T, {w}, B))
         ELSE Install(T)
      /\ stage' = [stage EXCEPT ![q] = "idle"] /\ held' = [held EXCEPT ![q] = 0]
      /\ managerClosed' = managerClosed
  BY DEF DropLease
<1>2. RequestTypes /\ Sound(Tables, Holders) /\ Orders(Tables, Keyed(Tables))
  BY DEF CacheInv
<1>3. held[q] \in 1..MaxMade /\ q \in Holders
  BY <1>1, <1>2, CacheAssumption DEF RequestTypes, Holders
<1>4. Serves(Tables, held[q]) /\ w \in Keyed(Tables) /\ w \in Workspaces
  BY <1>2, <1>3 DEF Sound, Serves, Keyed, Tables
<1> HIDE DEF w
<1>5. Sound(T, Holders) /\ Orders(T, Keyed(Tables)) /\ T.cached = cached /\ T.runtimes = runtimes
  <2>1. Orders(Tables, Keyed(Tables) \ {w})
    BY <1>2 DEF Orders
  <2>2. Tables.cached = cached /\ Tables.runtimes = runtimes
    BY DEF Tables
  <2> QED
    BY <1>2, <1>4, <2>1, <2>2, TouchIsSound
<1> HIDE DEF T
<1>6. Keyed(T) = Keyed(Tables)
  BY <1>5 DEF Keyed, Tables
<1>7. Holders' = Holders \ {q} /\ \A p \in Holders' : held'[p] = held[p] /\ held[p] \in 1..MaxMade
  BY <1>1, <1>2, CacheAssumption DEF RequestTypes, Holders
<1>8. RequestTypes'
  <2>1. leases[w] \in Nat /\ leases[w] # 0
    <3>1. q \in HoldersOf(w)
      BY <1>3 DEF HoldersOf, Holders, w
    <3>2. IsFiniteSet(HoldersOf(w)) /\ leases[w] = Cardinality(HoldersOf(w))
      BY <1>4, FS_Subset, CacheAssumption DEF HoldersOf, CacheInv
    <3> QED
      BY <3>1, <3>2, <1>2, <1>4, FS_EmptySet DEF RequestTypes
  <2>2. leases' \in [Workspaces -> Nat]
    BY <1>1, <1>2, <1>4, <2>1 DEF RequestTypes
  <2> QED
    BY <1>1, <1>2, <2>2, CacheAssumption DEF RequestTypes
\* The tables afterwards, and that whoever else has a lease is not disturbed.
<1>9. /\ (Sound(Tables, Holders) /\ Orders(Tables, Keyed(Tables)))'
      /\ \A i \in 1..MaxMade : runtimes'[i].of = runtimes[i].of
      /\ ClosedManagerKeepsNothing'
  <2>1. CASE managerClosed /\ leases[w] = 1
    <3>1. PICK B \in Failures(T, {w}) : Install(Evicted(T, {w}, B))
      BY <2>1, <1>1
    <3> DEFINE U == Evicted(T, {w}, B)
    <3>2. \A p \in Holders \ {q} : T.runtimes[held[p]].of # w
      <4>1. IsFiniteSet(HoldersOf(w)) /\ Cardinality(HoldersOf(w)) = 1
        BY <2>1, <1>4, FS_Subset, CacheAssumption DEF HoldersOf, CacheInv
      <4>2. PICK x : HoldersOf(w) = {x}
        BY <4>1, FS_Singleton
      <4>3. q \in HoldersOf(w)
        BY <1>3 DEF HoldersOf, Holders, w
      <4> QED
        BY <4>2, <4>3, <1>5 DEF HoldersOf, Holders
    <3>3. Sound(T, Holders \ {q}) /\ Orders(T, Keyed(T)) /\ {w} \in SUBSET Keyed(T) /\ Holders \ {q} \in SUBSET Threads
      BY <1>4, <1>5, <1>6 DEF Sound, Holders
    <3>4. /\ Sound(U, Holders \ {q}) /\ Orders(U, Keyed(U)) /\ SameOwners(T, U)
          /\ \A v \in Workspaces : U.cached[v] # 0 =>
                /\ U.cached[v] = T.cached[v]
                /\ T.runtimes[T.cached[v]].closing => U.runtimes[U.cached[v]].closing
                /\ v \in {w} => U.runtimes[U.cached[v]].closing
      <4>1. \A p \in Holders \ {q} : T.runtimes[held[p]].of \notin {w}
        BY <3>2
      <4> QED
        BY <4>1, <3>1, <3>3, EvictionIsSound
    <3>5. Install(U)
      BY <3>1
    <3> HIDE DEF U
    <3>6. \A p \in Holders' : Serves(U, held'[p])
      BY <3>4, <1>7 DEF Sound
    <3>7. (Sound(Tables, Holders) /\ Orders(Tables, Keyed(Tables)))'
      BY <3>4, <3>5, <3>6, InstalledIsSound DEF Sound
    <3>8. \A i \in 1..MaxMade : runtimes'[i].of = runtimes[i].of
      BY <3>4, <3>5, <1>5 DEF SameOwners, Install
    <3>9. ClosedManagerKeepsNothing'
      <4> SUFFICES ASSUME NEW v \in Workspaces, cached'[v] # 0
                   PROVE  leases'[v] > 0 \/ runtimes'[cached'[v]].closing
        BY DEF ClosedManagerKeepsNothing
      <4>1. CASE v = w
        BY <4>1, <3>4, <3>5 DEF Install
      <4>2. CASE v # w
        <5>1. cached[v] # 0 /\ (runtimes[cached[v]].closing => runtimes'[cached'[v]].closing)
          BY <3>4, <3>5, <1>5 DEF Install
        <5>2. leases'[v] = leases[v]
          BY <4>2, <1>1, <1>2 DEF RequestTypes
        <5> QED
          BY <5>1, <5>2, <2>1 DEF CacheInv, ClosedManagerKeepsNothing
      <4> QED
        BY <4>1, <4>2
    <3> QED
      BY <3>7, <3>8, <3>9
  <2>2. CASE ~(managerClosed /\ leases[w] = 1)
    <3>1. Install(T)
      BY <2>2, <1>1
    <3>2. \A p \in Holders' : Serves(T, held'[p])
      BY <1>5, <1>7 DEF Sound
    <3>3. (Sound(Tables, Holders) /\ Orders(Tables, Keyed(Tables)))'
      BY <3>1, <3>2, <1>5, <1>6, InstalledIsSound DEF Sound
    <3>4. ClosedManagerKeepsNothing'
      <4> SUFFICES ASSUME managerClosed, NEW v \in Workspaces, cached[v] # 0
                   PROVE  leases'[v] > 0 \/ runtimes[cached[v]].closing
        BY <3>1, <1>1, <1>5 DEF ClosedManagerKeepsNothing, Install
      <4>1. leases[v] > 0 \/ runtimes[cached[v]].closing
        BY DEF CacheInv, ClosedManagerKeepsNothing
      <4>2. leases'[v] \in Nat /\ leases[v] \in Nat
        BY <1>2, <1>8 DEF RequestTypes
      <4>3. leases'[v] = IF v = w THEN leases[v] - 1 ELSE leases[v]
        BY <1>1, <1>2 DEF RequestTypes
      <4> QED
        BY <4>1, <4>2, <4>3, <2>2
    <3> QED
      BY <3>1, <3>3, <3>4, <1>5 DEF Install
  <2> QED
    BY <2>1, <2>2
<1>10. \A v \in Workspaces : leases'[v] = Cardinality(HoldersOf(v)')
  <2> SUFFICES ASSUME NEW v \in Workspaces PROVE leases'[v] = Cardinality(HoldersOf(v)')
    OBVIOUS
  <2>1. HoldersOf(v)' = HoldersOf(v) \ {q}
    <3>1. HoldersOf(v) \subseteq Holders /\ \A p \in Holders : p \in HoldersOf(v) <=> runtimes[held[p]].of = v
      BY DEF HoldersOf, Holders
    <3>2. HoldersOf(v)' \subseteq Holders' /\ \A p \in Holders' : p \in HoldersOf(v)' <=> runtimes'[held'[p]].of = v
      BY DEF HoldersOf, Holders
    <3> QED
      BY <3>1, <3>2, <1>7, <1>9
  <2>2. q \in HoldersOf(v) <=> v = w
    BY <1>3 DEF HoldersOf, Holders, w
  <2>3. IsFiniteSet(HoldersOf(v)) /\ leases[v] = Cardinality(HoldersOf(v))
    BY FS_Subset, CacheAssumption DEF HoldersOf, CacheInv
  <2>4. q \in HoldersOf(v) => Cardinality(HoldersOf(v) \ {q}) = Cardinality(HoldersOf(v)) - 1
    BY <2>3, FS_RemoveElement
  <2>5. leases'[v] = IF v = w THEN leases[v] - 1 ELSE leases[v]
    BY <1>1, <1>2 DEF RequestTypes
  <2>6. v # w => HoldersOf(v) \ {q} = HoldersOf(v)
    BY <2>2
  <2> QED
    BY <2>1, <2>2, <2>3, <2>4, <2>5, <2>6
<1> QED
  BY <1>8, <1>9, <1>10 DEF CacheInv

LEMMA CacheStart == CacheInit => CacheInv
<1> SUFFICES ASSUME CacheInit PROVE CacheInv
  OBVIOUS
<1>1. RequestTypes /\ Holders = {} /\ ClosedManagerKeepsNothing
  <2>1. RequestTypes
    <3>1. managerClosed \in BOOLEAN
      BY DEF CacheInit
    <3>2. leases \in [Workspaces -> Nat] /\ held \in [Threads -> 0..MaxMade]
      BY CacheAssumption DEF CacheInit
    <3>3. stage \in [Threads -> {"idle", "queued", "using", "leaving"}]
      BY DEF CacheInit
    <3>4. \A q \in Threads : held[q] = 0 <=> stage[q] = "idle"
      BY DEF CacheInit
    <3> QED
      BY <3>1, <3>2, <3>3, <3>4 DEF RequestTypes
  <2>2. Holders = {}
    BY DEF CacheInit, Holders
  <2>3. ~managerClosed
    BY DEF CacheInit
  <2> QED
    BY <2>1, <2>2, <2>3 DEF ClosedManagerKeepsNothing
<1>2. NotMade \in Runtime
  BY DEF NotMade, Runtime
<1>3. TableTypes(Tables)
  BY <1>2, CacheAssumption DEF CacheInit, TableTypes, Tables
<1>4. Keyed(Tables) = {}
  BY DEF CacheInit, Keyed, Tables
<1>5. Placed(Tables)
  BY DEF CacheInit, Placed, Tables, NotMade
<1>6. Roomy(Tables)
  BY <1>4, FS_EmptySet, CacheAssumption DEF Roomy
<1>7. Orders(Tables, Keyed(Tables))
  BY <1>4 DEF CacheInit, Orders, Tables
<1>8. \A w \in Workspaces : leases[w] = Cardinality(HoldersOf(w))
  BY <1>1, FS_EmptySet DEF CacheInit, HoldersOf, Holders
<1> QED
  BY <1>1, <1>3, <1>5, <1>6, <1>7, <1>8 DEF CacheInv, Sound

LEMMA CacheStep == CacheInv /\ [CacheNext]_cacheVars => CacheInv'
<1> SUFFICES ASSUME CacheInv, [CacheNext]_cacheVars PROVE CacheInv'
  OBVIOUS
<1>1. CASE UNCHANGED cacheVars
  <2>1. UNCHANGED <<lru, cached, runtimes, leases, stage, held, managerClosed, closeFaults>>
    BY <1>1 DEF cacheVars
  <2>2. (Sound(Tables, Holders) /\ Orders(Tables, Keyed(Tables)))'
    BY <2>1 DEF CacheInv, Sound, TableTypes, Placed, Roomy, Orders, Keyed, Serves, Tables, Holders
  <2> QED
    BY <2>1, <2>2 DEF CacheInv, RequestTypes, HoldersOf, ClosedManagerKeepsNothing
<1>2. ASSUME NEW q \in Threads, NEW w \in Workspaces,
             AcquireCached(q, w) \/ AcquireNew(q, w) \/ AcquireFails(q, w)
      PROVE  CacheInv'
  BY <1>2, AcquireStep
<1>3. ASSUME NEW q \in Threads, TakeRuntimeLock(q) \/ ReleaseRuntimeLock(q) \/ DropLease(q)
      PROVE  CacheInv'
  BY <1>3, RuntimeLockStep, DropLeaseStep
<1> QED
  BY <1>1, <1>2, <1>3, CloseManagerStep DEF CacheNext

LEMMA CacheInvHolds ==
    CacheInv => CacheTypeOK /\ LeasedRuntimeIsOpen /\ OpenRuntimesAreCached /\ ClosedManagerKeepsNothing
<1> SUFFICES ASSUME CacheInv
             PROVE  CacheTypeOK /\ LeasedRuntimeIsOpen /\ OpenRuntimesAreCached /\ ClosedManagerKeepsNothing
  OBVIOUS
<1>1. RequestTypes /\ Sound(Tables, Holders) /\ Orders(Tables, Keyed(Tables)) /\ ClosedManagerKeepsNothing
  BY DEF CacheInv
<1>2. CacheTypeOK
  <2>1. leases \in [Workspaces -> 0..Cardinality(Threads)]
    <3>1. ASSUME NEW w \in Workspaces PROVE leases[w] \in 0..Cardinality(Threads)
      <4>1. HoldersOf(w) \in SUBSET Threads /\ IsFiniteSet(Threads)
        BY CacheAssumption DEF HoldersOf
      <4>2. IsFiniteSet(HoldersOf(w)) /\ Cardinality(HoldersOf(w)) <= Cardinality(Threads)
        BY <4>1, FS_Subset
      <4>3. Cardinality(Threads) \in Nat /\ leases[w] = Cardinality(HoldersOf(w)) /\ leases[w] \in Nat
        BY <1>1, <4>1, FS_CardinalityType DEF CacheInv, RequestTypes
      <4> QED
        BY <4>2, <4>3
    <3> QED
      BY <3>1, <1>1 DEF RequestTypes
  <2>2. cached \in [Workspaces -> 0..MaxMade] /\ runtimes \in [1..MaxMade -> Runtime] /\ closeFaults \in 0..MaxCloseFaults
    BY <1>1 DEF Sound, TableTypes, Tables
  <2>3. /\ lru \subseteq Keyed(Tables) \X Keyed(Tables)
        /\ \A u, w \in Keyed(Tables) : u = w \/ (<<u, w>> \in lru <=> <<w, u>> \notin lru)
        /\ \A w \in Workspaces : <<w, w>> \notin lru
    <3>1. Tables.lru = lru
      BY DEF Tables
    <3> QED
      BY <3>1, <1>1 DEF Orders
  <2> QED
    BY <1>1, <2>1, <2>2, <2>3 DEF CacheTypeOK, RequestTypes
<1>3. LeasedRuntimeIsOpen
  BY <1>1 DEF LeasedRuntimeIsOpen, Sound, Serves, Holders, Tables
<1>4. OpenRuntimesAreCached
  <2> DEFINE opened == {i \in 1..MaxMade : runtimes[i].open # {}}
  <2>1. \A i \in opened : runtimes[i].of \in Workspaces /\ cached[runtimes[i].of] = i
    BY <1>1 DEF Sound, Placed, Tables
  <2>2. \A i \in opened : runtimes[i].of \in Keyed(Tables)
    BY <2>1, CacheAssumption DEF Keyed, Tables
  <2> DEFINE key == [i \in opened |-> runtimes[i].of]
  <2>3. key \in [opened -> Keyed(Tables)] /\ \A i, j \in opened : key[i] = key[j] => i = j
    BY <2>1, <2>2
  <2>4. IsFiniteSet(opened) /\ IsFiniteSet(Keyed(Tables))
    <3>1. IsFiniteSet(1..MaxMade)
      BY FS_Interval, CacheAssumption
    <3> QED
      BY <3>1, <1>1, FS_Subset DEF Sound, Roomy
  <2>5. Cardinality(opened) <= Cardinality(Keyed(Tables))
    <3> HIDE DEF opened, key
    <3>1. key \in Injection(opened, Keyed(Tables))
      BY <2>3 DEF Injection, IsInjective
    <3> QED
      BY <3>1, <2>4, FS_Injection
  <2>6. Cardinality(Keyed(Tables)) <= MaxRuntimes
    BY <1>1 DEF Sound, Roomy
  <2>7. Cardinality(opened) \in Nat /\ Cardinality(Keyed(Tables)) \in Nat
    BY <2>4, FS_CardinalityType
  <2>8. Cardinality(opened) <= MaxRuntimes
    BY <2>5, <2>6, <2>7, CacheAssumption
  <2> QED
    BY <2>1, <2>8 DEF OpenRuntimesAreCached
<1> QED
  BY <1>1, <1>2, <1>3, <1>4

-----------------------------------------------------------------------------
WebInv == AccountsInv /\ Tenancy /\ LimiterInv /\ LoginInv /\ AgentJobsInv /\ CacheInv /\ AuthStateInv

\* The invariants of the parts are kept by every step of the server, whichever part it is
\* of: accounts, agents and tokens, provider calls, log-ins, the agent's jobs, the runtimes and
\* the account snapshot.
THEOREM WebIsInductive == WebSpec => []WebInv
<1>1. WebInit => WebInv
  BY AccountsStart, TenancyStart, LimiterStart, LoginStart, AgentJobsStart, CacheStart, InitInv DEF WebInit, WebInv
<1>2. WebInv /\ [WebNext]_WebVars => WebInv'
  <2>1. [WebNext]_WebVars =>
           /\ [AccountsNext]_accountVars /\ [LimiterNext]_limiterVars
           /\ [LoginNext]_loginVars /\ [AgentJobsNext]_agentJobVars
           /\ [CacheNext]_cacheVars /\ [AuthStateNext]_authStateVars
    BY DEF WebNext, WebVars
  <2>2. AccountsInv => Members
    BY DEF AccountsInv
  <2> QED
    BY <2>1, <2>2, AccountsStep, TenancyStep, LimiterStep, LoginStep, AgentJobsStep, CacheStep, NextKeeps
    DEF WebInv
<1> QED
  BY <1>1, <1>2, PTL DEF WebSpec

\* There is no slug beyond the number of workspaces.
LEMMA AccountsTypesHold ==
    ASSUME AccountsInv, Tenancy
    PROVE  AccountsTypeOK
<1>1. {0} \cup SlugNumbers = 0..(Cardinality(Spaces) + 1)
  BY SpacesCount DEF SlugNumbers
<1> QED
  BY <1>1 DEF AccountsInv, Members, AccountTypes, Tenancy, AccountsTypeOK

\* WorkspaceRuntimeManager: whoever has a lease has an open runtime, the one of its workspace;
\* no more are open than max_runtimes, and none of one workspace twice; and close() leaves
\* none behind but those that are leased or would not close.
THEOREM RuntimesAreRight == WebSpec => []RuntimesHold
<1>1. WebInv => RuntimesHold
  BY CacheInvHolds DEF WebInv, RuntimesHold
<1> QED
  BY <1>1, WebIsInductive, PTL

\* AuthState: no answered change of the accounts is lost from the saved snapshot, and
\* containers that start together leave one owner, for any containers, changes and lost or
\* late messages.
THEOREM SnapshotsAreKept == WebSpec => []AuthStateHolds
<1>1. WebInv => AuthStateHolds
  BY InvOneOwner DEF WebInv, AuthStateInv, AuthStateHolds
<1> QED
  BY <1>1, WebIsInductive, PTL

\* AuthStore: a session is in a workspace its user belongs to and an agent's owner belongs to
\* its workspace, though both are written from what a request has read earlier; and the
\* limits on agents and tokens, counted and inserted in two statements, are exceeded by no
\* more than one for each further process.
THEOREM AccountsAreSafe == WebSpec => []AccountsHold
<1>1. WebInv => AccountsHold
  BY AccountsInvHolds, AccountsTypesHold DEF WebInv, AccountsHold
<1> QED
  BY <1>1, WebIsInductive, PTL

\* LoginRateLimiter and ProviderCallRateLimiter: neither the wrong passwords nor the calls in
\* a window exceed the limit, beyond the threads that were let in together and the time a
\* reading of the clock may be late.
THEOREM RatesAreKept == WebSpec => []RatesHold
<1>1. WebInv => RatesHold
  BY LoginInvBounds DEF WebInv, LimiterInv, LoginInv, RatesHold
<1> QED
  BY <1>1, WebIsInductive, PTL

\* enqueue and list_jobs for a remote agent: a key submitted for a repository gives one job
\* however often the request is repeated, and a walk along the cursors sends every job that
\* was granted before it began, and no job twice, while jobs are added and move on.
THEOREM SubmissionsAreAnswered == WebSpec => []SubmissionsHold
<1>1. WebInv => SubmissionsHold
  BY AgentJobsInvHolds, AgentJobsTypes DEF WebInv, SubmissionsHold
<1> QED
  BY <1>1, WebIsInductive, PTL
=============================================================================
