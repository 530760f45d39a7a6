------------------------------ MODULE Accounts ------------------------------
(***************************************************************************)
(* AuthStore (tankai/web/auth.py): users, workspaces, memberships,         *)
(* sessions, service agents and their tokens, as the request handlers of   *)
(* tankai/web/server.py and the two command lines use them.                *)
(*                                                                         *)
(* A request first resolves who asks and then acts on what it has read.    *)
(* AuthStore._lock keeps the threads of one process apart; the server and  *)
(* each command line are processes of their own, and their statements      *)
(* commit one by one unless a transaction is begun.                        *)
(*                                                                         *)
(* A tenant is named by the user it was created for.  Workspaces have the  *)
(* same name, so that their slugs differ by the counter only.              *)
(***************************************************************************)
EXTENDS Naturals, FiniteSets

CONSTANTS Users, Spaces, Sessions, Agents, Requests,
          Processes,
          ProcessOf,    \* the process each request runs in
          Nobody,       \* no user
          NoSpace,      \* no workspace
          NoAgent,
          AgentLimit,   \* active service agents of a workspace
          TokenLimit    \* active tokens of an agent

ASSUME AccountsAssumption ==
    /\ ProcessOf \in [Requests -> Processes]
    /\ IsFiniteSet(Spaces) /\ IsFiniteSet(Processes) /\ Processes # {}
    /\ Nobody \notin Users /\ NoSpace \notin Spaces /\ NoAgent \notin Agents
    /\ AgentLimit \in Nat /\ TokenLimit \in Nat

VARIABLES role,         \* memberships
          tenant,       \* workspaces.tenant_id
          slug,         \* workspaces.slug: the counter, 0 for no workspace
          session,      \* sessions: those neither revoked nor expired
          agent,        \* service_agents
          tokens,       \* agent_tokens: how many tokens of each agent are active
          request       \* each request: its context and how far it is

accountVars == <<role, tenant, slug, session, agent, tokens, request>>

\* "owner": owner or admin, who may do the same things.
Roles == {"owner", "member"}

\* A request knows the user, the workspace and the role it has resolved.
Idle == [stage |-> "idle", user |-> Nobody, space |-> NoSpace, role |-> "none", agent |-> NoAgent]

NoSession == [user |-> Nobody, space |-> NoSpace]
NoServiceAgent == [space |-> NoSpace, owner |-> Nobody, active |-> FALSE]

AccountsInit ==
    /\ role = [m \in Users \X Spaces |-> "none"]
    /\ tenant = [w \in Spaces |-> Nobody]
    /\ slug = [w \in Spaces |-> 0]
    /\ session = [s \in Sessions |-> NoSession]
    /\ agent = [a \in Agents |-> NoServiceAgent]
    /\ tokens = [a \in Agents |-> 0]
    /\ request = [r \in Requests |-> Idle]

IsUser(u) == \E w \in Spaces : tenant[w] = u
IsSpace(w) == slug[w] # 0
MemberOf(u, w) == role[<<u, w>>] # "none"

\* The store's lock is held by a request that is between two of its statements.
LockFree(r) == \A q \in Requests \ {r} :
    ProcessOf[q] = ProcessOf[r] => request[q].stage # "counted"

(***************************************************************************)
(* Users and workspaces                                                    *)
(***************************************************************************)

\* create_user_with_tenant: user, tenant, workspace and membership in one transaction.
CreateUser(u, w) ==
    /\ ~IsUser(u) /\ ~IsSpace(w)
    /\ tenant' = [tenant EXCEPT ![w] = u]
    /\ slug' = [slug EXCEPT ![w] = 1]
    /\ role' = [role EXCEPT ![<<u, w>>] = "owner"]
    /\ UNCHANGED <<session, agent, tokens, request>>

\* add_user_to_workspace: INSERT OR REPLACE.
AddMember(u, w, new) ==
    /\ IsUser(u) /\ IsSpace(w) /\ role[<<u, w>>] # new
    /\ role' = [role EXCEPT ![<<u, w>>] = new]
    /\ UNCHANGED <<tenant, slug, session, agent, tokens, request>>

\* create_workspace: the first slug that is free in the tenant.
FreeSlug(x) ==
    CHOOSE n \in 1..(Cardinality(Spaces) + 1) :
        /\ \A w \in Spaces : tenant[w] = x => slug[w] # n
        /\ \A k \in 1..(n - 1) : \E w \in Spaces : tenant[w] = x /\ slug[w] = k

\* POST /api/workspaces: the creator keeps the role of the request's context.
CreateWorkspace(r, w) ==
    LET c == request[r]
        x == tenant[c.space]
    IN  /\ c.stage = "resolved" /\ LockFree(r) /\ c.role = "owner" /\ ~IsSpace(w)
        /\ tenant' = [tenant EXCEPT ![w] = x]
        /\ slug' = [slug EXCEPT ![w] = FreeSlug(x)]
        /\ role' = [role EXCEPT ![<<c.user, w>>] = c.role]
        /\ request' = [request EXCEPT ![r] = Idle]
        /\ UNCHANGED <<session, agent, tokens>>

(***************************************************************************)
(* Sessions                                                                *)
(***************************************************************************)

\* authenticate: the password is right, and list_workspaces has a first one.
Verify(r, u, w) ==
    /\ request[r] = Idle
    /\ MemberOf(u, w)
    /\ request' = [request EXCEPT ![r] = [Idle EXCEPT !.stage = "verified", !.user = u, !.space = w]]
    /\ UNCHANGED <<role, tenant, slug, session, agent, tokens>>

\* authenticate: INSERT INTO sessions.
StoreSession(r, s) ==
    LET c == request[r]
    IN  /\ c.stage = "verified" /\ LockFree(r) /\ session[s] = NoSession
        /\ session' = [session EXCEPT ![s] = [user |-> c.user, space |-> c.space]]
        /\ request' = [request EXCEPT ![r] = Idle]
        /\ UNCHANGED <<role, tenant, slug, agent, tokens>>

\* resolve_session: one SELECT that joins session, user, workspace and membership.
Resolve(r, s) ==
    LET u == session[s].user
        w == session[s].space
    IN  /\ request[r] = Idle /\ LockFree(r)
        /\ session[s] # NoSession /\ MemberOf(u, w)
        /\ request' = [request EXCEPT ![r] =
              [Idle EXCEPT !.stage = "resolved", !.user = u, !.space = w, !.role = role[<<u, w>>]]]
        /\ UNCHANGED <<role, tenant, slug, session, agent, tokens>>

\* The command line's actor: no session, but the same context.
ResolveActor(r, u, w) ==
    /\ request[r] = Idle /\ MemberOf(u, w)
    /\ request' = [request EXCEPT ![r] =
          [Idle EXCEPT !.stage = "resolved", !.user = u, !.space = w, !.role = role[<<u, w>>]]]
    /\ UNCHANGED <<role, tenant, slug, session, agent, tokens>>

\* Mutation: any workspace of the tenant can be selected.
SelectableInTenant(u, w) == IsSpace(w)

\* select_workspace: the membership is looked up in the request itself.
Selectable(u, w) == MemberOf(u, w)

\* POST /api/workspaces/select; the session may have been revoked since it was resolved.
SelectWorkspace(r, s, w) ==
    /\ request[r].stage = "resolved" /\ LockFree(r)
    /\ session[s].user = request[r].user
    /\ Selectable(request[r].user, w)
    /\ session' = [session EXCEPT ![s].space = w]
    /\ request' = [request EXCEPT ![r] = Idle]
    /\ UNCHANGED <<role, tenant, slug, agent, tokens>>

\* revoke_session (logout), revoke_all_user_sessions (set_password) or the expiry; the rows
\* that cleanup_expired_sessions deletes later are not used any more.
Revoke(S) ==
    /\ S # {} /\ \A s \in S : session[s] # NoSession
    /\ session' = [s \in Sessions |-> IF s \in S THEN NoSession ELSE session[s]]
    /\ UNCHANGED <<role, tenant, slug, agent, tokens, request>>

Logout(s) == Revoke({s})
RevokeAll(u) == Revoke({s \in Sessions : session[s].user = u})

(***************************************************************************)
(* Service agents and tokens                                               *)
(***************************************************************************)
ActiveAgents(w) == {a \in Agents : agent[a].active /\ agent[a].space = w}

\* create_service_agent: the count, and then, under the same lock, the INSERT.
CountAgents(r) ==
    LET c == request[r]
    IN  /\ c.stage = "resolved" /\ LockFree(r) /\ c.role = "owner"
        /\ request' = [request EXCEPT ![r] =
              IF Cardinality(ActiveAgents(c.space)) >= AgentLimit THEN Idle ELSE [c EXCEPT !.stage = "counted"]]
        /\ UNCHANGED <<role, tenant, slug, session, agent, tokens>>

InsertAgent(r, a) ==
    LET c == request[r]
    IN  /\ c.stage = "counted" /\ c.agent = NoAgent /\ agent[a] = NoServiceAgent
        /\ agent' = [agent EXCEPT ![a] = [space |-> c.space, owner |-> c.user, active |-> TRUE]]
        /\ request' = [request EXCEPT ![r] = Idle]
        /\ UNCHANGED <<role, tenant, slug, session, tokens>>

\* create_agent_token: the agent is looked up before the lock is taken.
FindAgent(r, a) ==
    LET c == request[r]
    IN  /\ c.stage = "resolved" /\ c.role = "owner"
        /\ agent[a].active /\ agent[a].space = c.space
        /\ request' = [request EXCEPT ![r] = [Idle EXCEPT !.stage = "found", !.agent = a]]
        /\ UNCHANGED <<role, tenant, slug, session, agent, tokens>>

HasRoom(a) == tokens[a] < TokenLimit

CountTokens(r) ==
    LET c == request[r]
    IN  /\ c.stage = "found" /\ LockFree(r)
        /\ request' = [request EXCEPT ![r] =
              IF HasRoom(c.agent) THEN [c EXCEPT !.stage = "counted"] ELSE Idle]
        /\ UNCHANGED <<role, tenant, slug, session, agent, tokens>>

InsertToken(r) ==
    LET c == request[r]
    IN  /\ c.stage = "counted" /\ c.agent # NoAgent
        /\ tokens' = [tokens EXCEPT ![c.agent] = @ + 1]
        /\ request' = [request EXCEPT ![r] = Idle]
        /\ UNCHANGED <<role, tenant, slug, session, agent>>

\* revoke_agent_token, or the token's expiry.
RevokeToken(a) ==
    /\ tokens[a] > 0
    /\ tokens' = [tokens EXCEPT ![a] = @ - 1]
    /\ UNCHANGED <<role, tenant, slug, session, agent, request>>

\* deactivate_service_agent: the agent and its tokens in one transaction.
DeactivateAgent(r, a) ==
    LET c == request[r]
    IN  /\ c.stage = "resolved" /\ LockFree(r) /\ c.role = "owner"
        /\ agent[a] # NoServiceAgent /\ agent[a].space = c.space
        /\ agent' = [agent EXCEPT ![a].active = FALSE]
        /\ tokens' = [tokens EXCEPT ![a] = 0]
        /\ request' = [request EXCEPT ![r] = Idle]
        /\ UNCHANGED <<role, tenant, slug, session>>

\* The request does something else, or nothing, with what it has resolved; or it breaks off.
EndRequest(r) ==
    /\ request[r] # Idle
    /\ request' = [request EXCEPT ![r] = Idle]
    /\ UNCHANGED <<role, tenant, slug, session, agent, tokens>>

AccountsNext ==
    \/ \E u \in Users, w \in Spaces : CreateUser(u, w) \/ \E x \in Roles : AddMember(u, w, x)
    \/ \E s \in Sessions : Logout(s)
    \/ \E u \in Users : RevokeAll(u)
    \/ \E a \in Agents : RevokeToken(a)
    \/ \E r \in Requests :
          \/ \E u \in Users, w \in Spaces : Verify(r, u, w) \/ ResolveActor(r, u, w)
          \/ \E s \in Sessions : StoreSession(r, s) \/ Resolve(r, s)
          \/ \E s \in Sessions, w \in Spaces : SelectWorkspace(r, s, w)
          \/ \E w \in Spaces : CreateWorkspace(r, w)
          \/ \E a \in Agents : InsertAgent(r, a) \/ FindAgent(r, a) \/ DeactivateAgent(r, a)
          \/ CountAgents(r) \/ CountTokens(r) \/ InsertToken(r) \/ EndRequest(r)

-----------------------------------------------------------------------------
Contexts == [stage : {"idle", "verified", "resolved", "found", "counted"},
             user : Users \cup {Nobody}, space : Spaces \cup {NoSpace},
             role : Roles \cup {"none"}, agent : Agents \cup {NoAgent}]

AccountsTypeOK ==
    /\ role \in [Users \X Spaces -> Roles \cup {"none"}]
    /\ tenant \in [Spaces -> Users \cup {Nobody}]
    /\ slug \in [Spaces -> 0..(Cardinality(Spaces) + 1)]
    /\ session \in [Sessions -> [user : Users \cup {Nobody}, space : Spaces \cup {NoSpace}]]
    /\ agent \in [Agents -> [space : Spaces \cup {NoSpace}, owner : Users \cup {Nobody}, active : BOOLEAN]]
    /\ tokens \in [Agents -> Nat]
    /\ request \in [Requests -> Contexts]

\* The joins of resolve_session and resolve_agent_token never lose anybody: a session is in a
\* workspace its user belongs to, and an agent's owner belongs to the agent's workspace,
\* though the rows are written by requests that read the membership earlier.
JoinsComplete ==
    /\ \A s \in Sessions : session[s] # NoSession => MemberOf(session[s].user, session[s].space)
    /\ \A a \in Agents : agent[a] # NoServiceAgent => MemberOf(agent[a].owner, agent[a].space)

\* Counting and inserting are two statements, kept together by a lock of one process only: the
\* limits are exceeded by no more than one for each further process.
LimitsNearlyHold ==
    /\ \A w \in Spaces : Cardinality(ActiveAgents(w)) <= AgentLimit + Cardinality(Processes) - 1
    /\ \A a \in Agents : tokens[a] <= TokenLimit + Cardinality(Processes) - 1
=============================================================================
