-------------------------------- MODULE Access --------------------------------
(* Who may do what (plugin.go secure, handlers.go identify/canRead/canWrite, *)
(* acl.go): a request passes a gate, is identified and has its grants looked *)
(* up by one statement each, and only then acts; tokens and grants change in *)
(* between.  Vault adds the requests that touch secrets.                     *)
EXTENDS Integers

CONSTANTS
    Tokens, Agents, Namespaces,
    SessionAgents,      \* the random agents that sessions are given
    Credentials,        \* what a request may present: [token, agent, login]
    Operations,         \* what a request may ask for
    None,               \* no token, no agent
    FirstOwner, FirstAdmin, FirstGrants,    \* the tokens at first, what may be granted at first
    Callers, MaxRequests

Rights == {"read", "write"}

ASSUME AccessAssumption ==
    /\ SessionAgents \subseteq Agents /\ None \notin Tokens \cup Agents
    /\ Credentials \subseteq
        [token : Tokens \cup {None}, agent : Agents \cup {None}, login : BOOLEAN]
    /\ FirstOwner \in [Tokens -> Agents \cup {None}] /\ FirstAdmin \in [Tokens -> BOOLEAN]
    /\ FirstGrants \subseteq [Agents -> [Namespaces -> SUBSET Rights]]
    /\ MaxRequests \in Nat

\* What an operation carries: brain, agent, rights, token or flags, by its kind.
ASSUME OperationAssumption ==
    \A o \in Operations :
        /\ o.kind \notin {"create", "revoke"} => "ns" \in DOMAIN o
        /\ "ns" \in DOMAIN o => o.ns \in Namespaces
        /\ o.kind \in {"create", "grant", "share", "revokeGrant"} => o.agent \in Agents
        /\ o.kind \in {"grant", "share"} => o.rights \subseteq Rights
        /\ o.kind = "create" => o.admin \in BOOLEAN
        /\ o.kind = "revoke" => o.token \in Tokens

VARIABLES
    require,            \* the environment: CABRAIN_REQUIRE_AUTH, CABRAIN_REQUIRE_TOKEN
    owner, admin,       \* brain_tokens: the agent of each token (None: no such token)
    revoked,            \* the tokens revoked
    grant,              \* namespace_grants: per agent and brain, the rights held
    pc, cred, op,       \* the request of each caller
    needs, who,         \* the checks still to pass, the agent identified
    open, had,          \* history: its token was live when the request arrived;
                        \* the rights its agent has held on the brain since
    requests            \* a counter, for the bound

acl == <<owner, admin, revoked, grant>>
NoOp == [kind |-> "none"]

Live(t) == owner[t] # None /\ t \notin revoked

InitAccess ==
    /\ require \in [auth : BOOLEAN, token : BOOLEAN]
    /\ owner = FirstOwner /\ admin = FirstAdmin /\ revoked = {}
    /\ grant \in FirstGrants
    /\ pc = [c \in Callers |-> "idle"]
    /\ cred = [c \in Callers |-> None]
    /\ op = [c \in Callers |-> NoOp]
    /\ needs = [c \in Callers |-> {}]
    /\ who = [c \in Callers |-> None]
    /\ open = [c \in Callers |-> FALSE]
    /\ had = [c \in Callers |-> {}]
    /\ requests = 0

\* The checks of a handler: adminOnly, canRead, canWrite; canRead comes first.
Needs(o) ==
    IF o.kind \in {"create", "revoke", "grant", "revokeGrant"} THEN {"admin"}
    ELSE IF o.kind = "list" THEN {"read"}
    ELSE IF o.kind = "session" THEN (IF o.write THEN {"read", "write"} ELSE {"read"})
    ELSE {"write"}

Asked(c) == IF "admin" \in needs[c] THEN "admin" ELSE IF "read" \in needs[c] THEN "read" ELSE "write"

AgentOf(k) == IF k.token # None THEN owner[k.token] ELSE k.agent
RightsOf(table, agent, o) ==
    IF agent = None \/ "ns" \notin DOMAIN o THEN {} ELSE table[agent][o.ns]

Arrive(c) ==
    /\ pc[c] = "idle" /\ requests < MaxRequests /\ requests' = requests + 1
    /\ \E k \in Credentials, o \in Operations :
        /\ k.token # None => owner[k.token] # None
        /\ pc' = [pc EXCEPT ![c] = "gate"]
        /\ cred' = [cred EXCEPT ![c] = k]
        /\ op' = [op EXCEPT ![c] = o]
        /\ needs' = [needs EXCEPT ![c] = Needs(o)]
        /\ open' = [open EXCEPT ![c] = k.token # None => Live(k.token)]
        /\ had' = [had EXCEPT ![c] = RightsOf(grant, AgentOf(k), o)]
    /\ UNCHANGED <<require, acl, who>>

Finish(c) ==
    /\ pc' = [pc EXCEPT ![c] = "idle"]
    /\ cred' = [cred EXCEPT ![c] = None]
    /\ op' = [op EXCEPT ![c] = NoOp]
    /\ needs' = [needs EXCEPT ![c] = {}]
    /\ who' = [who EXCEPT ![c] = None]
    /\ open' = [open EXCEPT ![c] = FALSE]

Deny(c) == Finish(c) /\ had' = [had EXCEPT ![c] = {}] /\ UNCHANGED <<require, acl, requests>>

\* Mutant: a token is known by its row, revoked or not.
ResolveAnyToken(t) == t # None /\ owner[t] # None

ResolveToken(t) == t # None /\ Live(t)

\* secure: a live token, or a login; or else nothing is required.
Gate(c) ==
    /\ pc[c] = "gate"
    /\ IF require.auth => ResolveToken(cred[c].token) \/ cred[c].login
       THEN /\ pc' = [pc EXCEPT ![c] = "identify"]
            /\ UNCHANGED <<require, acl, cred, op, needs, who, open, had, requests>>
       ELSE Deny(c)

\* The check at hand is passed: on to the next one, or to the handler's work.
Pass(c) ==
    /\ pc' = [pc EXCEPT ![c] = IF needs[c] = {Asked(c)} THEN "act" ELSE "identify"]
    /\ needs' = [needs EXCEPT ![c] = @ \ {Asked(c)}]
    /\ who' = [who EXCEPT ![c] = None]
    /\ UNCHANGED <<require, acl, cred, op, open, had, requests>>

\* identify: the token, if one is presented, even if there is a login too.
\* Admins pass; adminOnly denies all others; grants decide about a known agent.
Identify(c) ==
    LET k       == cred[c]
        valid   == k.token # None => ResolveToken(k.token)
        isAdmin == IF k.token # None THEN valid /\ admin[k.token] ELSE ~ require.token
        agent   == IF valid THEN AgentOf(k) ELSE None
    IN  /\ pc[c] = "identify"
        /\ IF isAdmin THEN Pass(c)
           ELSE IF Asked(c) = "admin" \/ agent = None THEN Deny(c)
           ELSE /\ pc' = [pc EXCEPT ![c] = "grant"]
                /\ who' = [who EXCEPT ![c] = agent]
                /\ UNCHANGED <<require, acl, cred, op, needs, open, had, requests>>

\* Mutant: the read column, whatever is asked.
HasReadGrant(c) ==
    /\ pc[c] = "grant"
    /\ IF "read" \in grant[who[c]][op[c].ns] THEN Pass(c) ELSE Deny(c)

HasGrant(c) ==
    /\ pc[c] = "grant"
    /\ IF Asked(c) \in grant[who[c]][op[c].ns] THEN Pass(c) ELSE Deny(c)

\* A grant changes; rights held by a request in progress are remembered.
SetGrant(c, agent, ns, rights) ==
    /\ grant' = [grant EXCEPT ![agent][ns] = rights]
    /\ had' = [d \in Callers |->
                IF d = c \/ pc[d] = "idle" THEN {}
                ELSE had[d] \cup RightsOf(grant', AgentOf(cred[d]), op[d])]
    /\ UNCHANGED <<owner, admin, revoked>>

Fresh == {t \in Tokens : owner[t] = None}
Create(t, agent, isAdmin) ==
    /\ owner' = [owner EXCEPT ![t] = agent]
    /\ admin' = [admin EXCEPT ![t] = isAdmin]
    /\ UNCHANGED <<revoked, grant>>

Act(c, kind) == pc[c] = "act" /\ op[c].kind = kind

CreateToken(c) ==
    /\ Act(c, "create")
    /\ \E t \in Fresh : Create(t, op[c].agent, op[c].admin)
    /\ Finish(c) /\ had' = [had EXCEPT ![c] = {}]
    /\ UNCHANGED <<require, requests>>

\* Mutant: the agent in place of the token.
RevokeByAgent(c) ==
    /\ Act(c, "revoke")
    /\ revoked' = revoked \cup {owner[op[c].token]}
    /\ Finish(c) /\ had' = [had EXCEPT ![c] = {}]
    /\ UNCHANGED <<require, owner, admin, grant, requests>>

\* The UPDATE finds the row, or nothing changes.
RevokeToken(c) ==
    /\ Act(c, "revoke")
    /\ revoked' = revoked \cup ({op[c].token} \ Fresh)
    /\ Finish(c) /\ had' = [had EXCEPT ![c] = {}]
    /\ UNCHANGED <<require, owner, admin, grant, requests>>

\* GrantBrain (admins) and Share (writers of the brain) upsert the row.
Share(c) ==
    /\ Act(c, "grant") \/ Act(c, "share")
    /\ SetGrant(c, op[c].agent, op[c].ns, op[c].rights)
    /\ Finish(c)
    /\ UNCHANGED <<require, requests>>

RevokeGrant(c) ==
    /\ Act(c, "revokeGrant")
    /\ SetGrant(c, op[c].agent, op[c].ns, {})
    /\ Finish(c)
    /\ UNCHANGED <<require, requests>>

\* Session: a token for a new agent first, its grant by another statement.
MintSession(c) ==
    /\ Act(c, "session")
    /\ \E t \in Fresh, a \in {b \in SessionAgents : \A u \in Tokens : owner[u] # b} :
        Create(t, a, FALSE) /\ who' = [who EXCEPT ![c] = a]
    /\ pc' = [pc EXCEPT ![c] = "share"]
    /\ UNCHANGED <<require, cred, op, needs, open, had, requests>>

ShareSession(c) ==
    /\ pc[c] = "share"
    /\ SetGrant(c, who[c], op[c].ns, IF op[c].write THEN Rights ELSE {"read"})
    /\ Finish(c)
    /\ UNCHANGED <<require, requests>>

ShareSessionFails(c) == pc[c] = "share" /\ Deny(c)

\* What only reads, and is answered.
Answer(c) == Act(c, "list") /\ Deny(c)

AccessNext ==
    \E c \in Callers :
        \/ Arrive(c) \/ Gate(c) \/ Identify(c) \/ HasGrant(c) \/ Answer(c)
        \/ CreateToken(c) \/ RevokeToken(c) \/ Share(c) \/ RevokeGrant(c)
        \/ MintSession(c) \/ ShareSession(c) \/ ShareSessionFails(c)

-----------------------------------------------------------------------------
Phases == {"idle", "gate", "identify", "grant", "act", "share"}

AccessTyped ==
    /\ require \in [auth : BOOLEAN, token : BOOLEAN]
    /\ owner \in [Tokens -> Agents \cup {None}] /\ admin \in [Tokens -> BOOLEAN]
    /\ revoked \subseteq Tokens
    /\ grant \in [Agents -> [Namespaces -> SUBSET Rights]]
    /\ \A c \in Callers :
        /\ cred[c] \in Credentials \cup {None} /\ op[c] \in Operations \cup {NoOp}
        /\ who[c] \in Agents \cup {None} /\ had[c] \subseteq Rights
    /\ requests \in 0..MaxRequests

\* The credential of an administrator: an admin token, or the trusted console.
AdminBy(k) == IF k.token # None THEN admin[k.token] ELSE ~ require.token

Working(c) == pc[c] \notin {"idle", "gate", "identify", "grant"}

\* A request acts only for an admin, or for an agent that has held every right
\* the handler asks for while the request was there, whatever was granted,
\* shared or revoked between its checks (identify, canRead, canWrite, adminOnly).
OnlyAuthorisedActs ==
    \A c \in Callers :
        Working(c) =>
            \/ AdminBy(cred[c])
            \/ Needs(op[c]) \subseteq had[c]

\* A request with a token that was revoked before it came never acts, be there
\* a login session beside it (ResolveToken, "bad/revoked token -> deny").
RevokedIsShut == \A c \in Callers : Working(c) => open[c]
=============================================================================
