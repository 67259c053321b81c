----------------------------- MODULE VaultProofs ------------------------------
(* For any tokens, agents, brains and operations: whatever is granted,       *)
(* shared or revoked between the checks of a request, it acts only if its    *)
(* token was live when it came and its agent has held the rights since; and  *)
(* what a memory refers to was put into the vault, all of it or nothing.     *)
EXTENDS Vault, WellFoundedInduction, TLAPS

AllPhases == Phases \cup {"capture", "store"}

Typed ==
    /\ owner \in [Tokens -> Agents \cup {None}] /\ admin \in [Tokens -> BOOLEAN]
    /\ grant \in [Agents -> [Namespaces -> SUBSET Rights]]
    /\ pc \in [Callers -> AllPhases]
    /\ cred \in [Callers -> Credentials \cup {None}]
    /\ op \in [Callers -> Operations \cup {NoOp}]
    /\ needs \in [Callers -> SUBSET {"admin", "read", "write"}]
    /\ who \in [Callers -> Agents \cup {None}]
    /\ open \in [Callers -> BOOLEAN] /\ had \in [Callers -> SUBSET Rights]

\* The token presented exists, and if it is live it was live on arrival.
Known(c) ==
    /\ cred[c] \in Credentials /\ op[c] \in Operations
    /\ cred[c].token # None => owner[cred[c].token] # None
    /\ (cred[c].token # None => Live(cred[c].token)) => open[c]

\* The rights held now are remembered, and so is every right asked for so far.
Remembered(c) ==
    /\ RightsOf(grant, AgentOf(cred[c]), op[c]) \subseteq had[c]
    /\ needs[c] \subseteq Needs(op[c])
    /\ AdminBy(cred[c]) \/ Needs(op[c]) \subseteq needs[c] \cup had[c]

\* Where the request is tells what has been checked.
Checked(c) ==
    /\ pc[c] = "grant" =>
        /\ open[c] /\ who[c] = AgentOf(cred[c]) /\ who[c] \in Agents
        /\ "ns" \in DOMAIN op[c]
    /\ ~ Working(c) => needs[c] # {}
    /\ Working(c) => open[c] /\ needs[c] = {}

Good(c) == pc[c] # "idle" => Known(c) /\ Remembered(c) /\ Checked(c)

IInv == Typed /\ \A c \in Callers : Good(c)

LEMMA GoodIsSound == IInv => OnlyAuthorisedActs /\ RevokedIsShut
BY DEF IInv, Good, Known, Remembered, Checked, OnlyAuthorisedActs, RevokedIsShut, Working

\* A request that does not move stays good while the tables stay the same.
LEMMA Untouched ==
    ASSUME NEW d \in Callers, Good(d), UNCHANGED <<require, acl>>,
           pc'[d] = pc[d], cred'[d] = cred[d], op'[d] = op[d], needs'[d] = needs[d],
           who'[d] = who[d], open'[d] = open[d], had'[d] = had[d]
    PROVE  Good(d)'
BY DEF Good, Known, Remembered, Checked, acl, Live, RightsOf, AgentOf, AdminBy, Needs, Asked, Working

LEMMA Initially == Init => IInv
BY AccessAssumption DEF Init, InitAccess, IInv, Typed, Good, AllPhases, Phases, NoOp

\* A request that ends is idle; the others do not move.
LEMMA Ends ==
    ASSUME Typed, NEW c \in Callers, Finish(c)
    PROVE  /\ pc' \in [Callers -> AllPhases] /\ cred' \in [Callers -> Credentials \cup {None}]
           /\ op' \in [Callers -> Operations \cup {NoOp}]
           /\ needs' \in [Callers -> SUBSET {"admin", "read", "write"}]
           /\ who' \in [Callers -> Agents \cup {None}] /\ open' \in [Callers -> BOOLEAN]
           /\ pc'[c] = "idle"
           /\ \A d \in Callers : d # c =>
                /\ pc'[d] = pc[d] /\ cred'[d] = cred[d] /\ op'[d] = op[d]
                /\ needs'[d] = needs[d] /\ who'[d] = who[d] /\ open'[d] = open[d]
BY DEF Typed, Finish, AllPhases, Phases

LEMMA Denials == ASSUME IInv, NEW c \in Callers, Deny(c) PROVE IInv'
<1>1. Finish(c) /\ had' = [had EXCEPT ![c] = {}] /\ UNCHANGED <<require, acl>>
    BY DEF Deny
<1>2. Typed'
    BY <1>1, Ends DEF IInv, Typed, acl
<1>3. ASSUME NEW d \in Callers PROVE Good(d)'
    <2>1. CASE d = c
        BY <1>1, <2>1, Ends DEF IInv, Good
    <2>2. CASE d # c
        <3>1. had'[d] = had[d]
            BY <1>1, <2>2 DEF IInv, Typed
        <3> QED  BY <1>1, <2>2, <3>1, Ends, Untouched DEF IInv
    <2> QED  BY <2>1, <2>2
<1> QED  BY <1>2, <1>3 DEF IInv

LEMMA Arrivals == ASSUME IInv, NEW c \in Callers, Arrive(c) PROVE IInv'
<1>1. PICK k \in Credentials, o \in Operations :
        /\ k.token # None => owner[k.token] # None
        /\ pc' = [pc EXCEPT ![c] = "gate"]
        /\ cred' = [cred EXCEPT ![c] = k]
        /\ op' = [op EXCEPT ![c] = o]
        /\ needs' = [needs EXCEPT ![c] = Needs(o)]
        /\ open' = [open EXCEPT ![c] = k.token # None => Live(k.token)]
        /\ had' = [had EXCEPT ![c] = RightsOf(grant, AgentOf(k), o)]
        /\ UNCHANGED <<require, acl, who>>
    BY DEF Arrive
<1>2. Needs(o) \subseteq {"admin", "read", "write"}
    BY DEF Needs
<1>3. RightsOf(grant, AgentOf(k), o) \subseteq Rights
    <2>1. AgentOf(k) \in Agents \cup {None}
        BY <1>1, AccessAssumption DEF IInv, Typed, AgentOf
    <2>2. "ns" \in DOMAIN o => o.ns \in Namespaces
        BY OperationAssumption
    <2> QED  BY <2>1, <2>2 DEF IInv, Typed, RightsOf
<1>4. (k.token # None => Live(k.token)) \in BOOLEAN
    BY DEF Live
<1>5. Typed'
    BY <1>1, <1>2, <1>3, <1>4 DEF IInv, Typed, acl, AllPhases, Phases
<1>6. ASSUME NEW d \in Callers, d # c PROVE Good(d)'
    BY <1>1, <1>6, Untouched DEF IInv, Typed
<1>7. Good(c)'
    <2>1. /\ pc'[c] = "gate" /\ cred'[c] = k /\ op'[c] = o /\ needs'[c] = Needs(o)
          /\ open'[c] = (k.token # None => Live(k.token)) /\ had'[c] = RightsOf(grant, AgentOf(k), o)
          /\ UNCHANGED <<require, owner, admin, revoked, grant>>
        BY <1>1 DEF IInv, Typed, acl
    <2>2. Known(c)'
        <3>1. (k.token # None => Live(k.token)') <=> (k.token # None => Live(k.token))
            BY <2>1 DEF Live
        <3> QED  BY <1>1, <2>1, <3>1 DEF Known
    <2>3. Remembered(c)'
        BY <2>1 DEF Remembered, RightsOf, AgentOf, Needs
    <2>4. Checked(c)'
        BY <2>1 DEF Checked, Working, Needs
    <2> QED  BY <2>2, <2>3, <2>4 DEF Good
<1> QED  BY <1>5, <1>6, <1>7 DEF IInv

\* A check that moves only its own request.
LEMMA Moves ==
    ASSUME IInv, NEW c \in Callers, UNCHANGED <<require, acl, cred, op, open, had>>,
           NEW p \in AllPhases, pc' = [pc EXCEPT ![c] = p],
           NEW left \in SUBSET {"admin", "read", "write"}, needs' = [needs EXCEPT ![c] = left],
           NEW a \in Agents \cup {None}, who' = [who EXCEPT ![c] = a],
           pc[c] # "idle", Remembered(c)', Checked(c)'
    PROVE  IInv'
<1>1. Typed'
    BY DEF IInv, Typed, acl
<1>2. ASSUME NEW d \in Callers, d # c PROVE Good(d)'
    BY <1>2, Untouched DEF IInv, Typed
<1>3. Known(c)'
    BY DEF IInv, Good, Known, Live, acl
<1>4. Good(c)'
    BY <1>3 DEF Good
<1> QED  BY <1>1, <1>2, <1>4 DEF IInv

LEMMA Passes ==
    ASSUME IInv, NEW c \in Callers, Pass(c), pc[c] \in {"identify", "grant"}, open[c],
           AdminBy(cred[c]) \/ Asked(c) \in had[c]
    PROVE  IInv'
<1> DEFINE p == IF needs[c] = {Asked(c)} THEN "act" ELSE "identify"
           left == needs[c] \ {Asked(c)}
<1>1. /\ pc' = [pc EXCEPT ![c] = p] /\ needs' = [needs EXCEPT ![c] = left]
      /\ who' = [who EXCEPT ![c] = None] /\ UNCHANGED <<require, acl, cred, op, open, had>>
    BY DEF Pass
<1>2. /\ p \in AllPhases /\ left \in SUBSET {"admin", "read", "write"}
      /\ pc'[c] = p /\ needs'[c] = left /\ who'[c] = None
    BY <1>1 DEF IInv, Typed, AllPhases, Phases
<1>3. Remembered(c)'
    <2>1. /\ RightsOf(grant, AgentOf(cred[c]), op[c]) \subseteq had[c]
          /\ needs[c] \subseteq Needs(op[c])
          /\ AdminBy(cred[c]) \/ Needs(op[c]) \subseteq needs[c] \cup had[c]
        BY DEF IInv, Good, Remembered
    <2>2. /\ left \subseteq Needs(op[c])
          /\ AdminBy(cred[c]) \/ Needs(op[c]) \subseteq left \cup had[c]
        BY <2>1
    <2> HIDE DEF left
    <2> QED  BY <1>1, <1>2, <2>1, <2>2 DEF Remembered, RightsOf, AgentOf, AdminBy, Needs, acl
<1>4. Checked(c)'
    <2>1. needs[c] # {} /\ open[c]
        BY DEF IInv, Good, Checked, Working
    <2>2. IF p = "act" THEN left = {} ELSE p = "identify" /\ left # {}
        BY <2>1
    <2> HIDE DEF p, left
    <2> QED  BY <1>1, <1>2, <2>1, <2>2 DEF Checked, Working
<1> HIDE DEF p, left
<1> QED  BY <1>1, <1>2, <1>3, <1>4, Moves

LEMMA Checks ==
    ASSUME IInv, NEW c \in Callers, Gate(c) \/ Identify(c) \/ HasGrant(c)
    PROVE  IInv'
<1>1. CASE Gate(c)
    <2>1. CASE Deny(c)
        BY <2>1, Denials
    <2>2. CASE /\ pc[c] = "gate" /\ pc' = [pc EXCEPT ![c] = "identify"]
               /\ UNCHANGED <<require, acl, cred, op, needs, who, open, had>>
        <3>1. needs' = [needs EXCEPT ![c] = needs[c]] /\ who' = [who EXCEPT ![c] = who[c]]
            BY <2>2 DEF IInv, Typed
        <3>2. needs[c] \in SUBSET {"admin", "read", "write"} /\ who[c] \in Agents \cup {None}
            BY DEF IInv, Typed
        <3>3. pc'[c] = "identify" /\ "identify" \in AllPhases
            BY <2>2 DEF IInv, Typed, AllPhases, Phases
        <3>4. Remembered(c)'
            BY <2>2 DEF IInv, Good, Remembered, RightsOf, AgentOf, AdminBy, Needs, acl
        <3>5. Checked(c)'
            BY <2>2, <3>3 DEF IInv, Good, Checked, Working
        <3> QED  BY <2>2, <3>1, <3>2, <3>3, <3>4, <3>5, Moves
    <2> QED  BY <1>1, <2>1, <2>2 DEF Gate
<1>2. CASE Identify(c)
    <2> DEFINE k == cred[c]
               valid == k.token # None => ResolveToken(k.token)
               agent == IF valid THEN AgentOf(k) ELSE None
    <2>0. pc[c] = "identify" /\ Known(c) /\ Remembered(c) /\ Checked(c)
        BY <1>2 DEF Identify, IInv, Good
    <2>1. CASE Deny(c)
        BY <2>1, Denials
    <2>2. CASE Pass(c) /\ valid /\ AdminBy(k)
        <3>1. open[c]
            BY <2>0, <2>2 DEF Known, ResolveToken
        <3> QED  BY <2>0, <2>2, <3>1, Passes
    <2>3. CASE /\ Asked(c) # "admin" /\ agent # None
               /\ pc' = [pc EXCEPT ![c] = "grant"] /\ who' = [who EXCEPT ![c] = agent]
               /\ UNCHANGED <<require, acl, cred, op, needs, open, had>>
        <3>1. open[c] /\ agent = AgentOf(k)
            BY <2>0, <2>3 DEF Known, ResolveToken
        <3>2. agent \in Agents
            BY <2>0, <2>3, <3>1, AccessAssumption DEF Known, AgentOf, IInv, Typed
        <3>3. needs' = [needs EXCEPT ![c] = needs[c]] /\ needs[c] \in SUBSET {"admin", "read", "write"}
            BY <2>3 DEF IInv, Typed
        <3>4. pc'[c] = "grant" /\ who'[c] = agent /\ "grant" \in AllPhases
            BY <2>3 DEF IInv, Typed, AllPhases, Phases
        <3>5. Remembered(c)'
            BY <2>0, <2>3 DEF Remembered, RightsOf, AgentOf, AdminBy, Needs, acl
        <3>6. "ns" \in DOMAIN op[c]
            BY <2>0, <2>3, OperationAssumption DEF Known, Remembered, Asked, Needs, Checked, Working
        <3>7. Checked(c)'
            BY <2>0, <2>3, <3>1, <3>2, <3>4, <3>6 DEF Checked, Working, AgentOf, acl
        <3> HIDE DEF agent
        <3> QED  BY <2>0, <2>3, <3>2, <3>3, <3>4, <3>5, <3>7, Moves
    <2> QED  BY <1>2, <2>1, <2>2, <2>3 DEF Identify, AdminBy
<1>3. CASE HasGrant(c)
    <2>1. pc[c] = "grant" /\ Remembered(c) /\ Checked(c)
        BY <1>3 DEF HasGrant, IInv, Good
    <2>2. RightsOf(grant, AgentOf(cred[c]), op[c]) = grant[who[c]][op[c].ns]
        BY <2>1, AccessAssumption DEF Checked, RightsOf
    <2>3. grant[who[c]][op[c].ns] \subseteq had[c] /\ open[c]
        BY <2>1, <2>2 DEF Remembered, Checked
    <2>4. CASE Deny(c)
        BY <2>4, Denials
    <2>5. CASE Pass(c) /\ Asked(c) \in had[c]
        BY <2>1, <2>3, <2>5, Passes
    <2> QED  BY <1>3, <2>3, <2>4, <2>5 DEF HasGrant
<1> QED  BY <1>1, <1>2, <1>3

\* The tables change: a token is made or revoked, a grant is set.  A request that
\* does not move keeps its agent, and its rights are remembered.
LEMMA Undisturbed ==
    ASSUME Typed, NEW d \in Callers, Good(d), require' = require,
           \A t \in Tokens : owner[t] # None => owner'[t] = owner[t] /\ admin'[t] = admin[t],
           revoked \subseteq revoked',
           pc'[d] = pc[d], cred'[d] = cred[d], op'[d] = op[d], needs'[d] = needs[d],
           who'[d] = who[d], open'[d] = open[d], had[d] \subseteq had'[d],
           pc[d] # "idle" => RightsOf(grant', AgentOf(cred[d]), op[d]) \subseteq had'[d]
    PROVE  Good(d)'
<1> SUFFICES ASSUME pc[d] # "idle" PROVE (Known(d) /\ Remembered(d) /\ Checked(d))'
    BY DEF Good
<1>1. Known(d) /\ Remembered(d) /\ Checked(d)
    BY DEF Good
<1>2. cred[d].token # None => cred[d].token \in Tokens
    BY <1>1, AccessAssumption DEF Known
<1>3. AgentOf(cred[d])' = AgentOf(cred[d]) /\ AdminBy(cred[d])' = AdminBy(cred[d])
    BY <1>1, <1>2 DEF Known, AgentOf, AdminBy
<1>4. Known(d)'
    BY <1>1, <1>2 DEF Known, Live
<1>5. Remembered(d)'
    BY <1>1, <1>3 DEF Remembered, RightsOf, Needs
<1>6. Checked(d)'
    BY <1>1, <1>3 DEF Checked, Working
<1> QED  BY <1>4, <1>5, <1>6

\* A grant is set by a request that ends.
LEMMA GrantsSet ==
    ASSUME IInv, NEW c \in Callers, NEW a, NEW ns, NEW rights \in SUBSET Rights,
           SetGrant(c, a, ns, rights), Finish(c), require' = require
    PROVE  IInv'
<1>1. /\ grant' = [grant EXCEPT ![a][ns] = rights]
      /\ UNCHANGED <<owner, admin, revoked>>
      /\ had' = [d \in Callers |->
                IF d = c \/ pc[d] = "idle" THEN {}
                ELSE had[d] \cup RightsOf(grant', AgentOf(cred[d]), op[d])]
    BY DEF SetGrant
<1>2. grant' \in [Agents -> [Namespaces -> SUBSET Rights]]
    BY <1>1 DEF IInv, Typed
<1>3. ASSUME NEW d \in Callers, pc[d] # "idle"
      PROVE  RightsOf(grant', AgentOf(cred[d]), op[d]) \subseteq Rights
    <2>1. Known(d) /\ AgentOf(cred[d]) \in Agents \cup {None}
        BY <1>3, AccessAssumption DEF IInv, Good, Known, Typed, AgentOf
    <2>2. "ns" \in DOMAIN op[d] => op[d].ns \in Namespaces
        BY <2>1, OperationAssumption DEF Known
    <2> QED  BY <1>2, <2>1, <2>2 DEF RightsOf
<1>4. had' \in [Callers -> SUBSET Rights]
    BY <1>1, <1>3 DEF IInv, Typed
<1>5. Typed'
    BY <1>1, <1>2, <1>4, Ends DEF IInv, Typed
<1>6. ASSUME NEW d \in Callers PROVE Good(d)'
    <2>1. CASE d = c
        BY <2>1, Ends DEF IInv, Good
    <2>2. CASE d # c /\ pc[d] = "idle"
        BY <2>2, Ends DEF IInv, Good
    <2>3. CASE d # c /\ pc[d] # "idle"
        <3>1. had[d] \subseteq had'[d] /\ RightsOf(grant', AgentOf(cred[d]), op[d]) \subseteq had'[d]
            BY <1>1, <2>3
        <3> QED  BY <1>1, <2>3, <3>1, Ends, Undisturbed DEF IInv
    <2> QED  BY <2>1, <2>2, <2>3
<1> QED  BY <1>5, <1>6 DEF IInv

\* A token is made: it is nobody's yet, so no request presents it.
LEMMA TokensMade ==
    ASSUME IInv, NEW c \in Callers, NEW t \in Fresh, NEW a \in Agents, NEW b \in BOOLEAN,
           Create(t, a, b)
    PROVE  /\ owner' \in [Tokens -> Agents \cup {None}] /\ admin' \in [Tokens -> BOOLEAN]
           /\ UNCHANGED <<revoked, grant>>
           /\ \A u \in Tokens : owner[u] # None => owner'[u] = owner[u] /\ admin'[u] = admin[u]
BY DEF Create, Fresh, IInv, Typed

LEMMA CreatesToken == ASSUME IInv, NEW c \in Callers, CreateToken(c) PROVE IInv'
<1>1. op[c] \in Operations /\ op[c].kind = "create"
    BY DEF CreateToken, Act, IInv, Good, Known
<1>2. op[c].agent \in Agents /\ op[c].admin \in BOOLEAN
    BY <1>1, OperationAssumption
<1>3. PICK t \in Fresh : Create(t, op[c].agent, op[c].admin)
    BY DEF CreateToken
<1>4. Finish(c) /\ had' = [had EXCEPT ![c] = {}] /\ require' = require
    BY DEF CreateToken
<1>5. Typed'
    BY <1>2, <1>3, <1>4, Ends, TokensMade DEF IInv, Typed
<1>6. ASSUME NEW d \in Callers PROVE Good(d)'
    <2>1. CASE d = c
        BY <1>4, <2>1, Ends DEF IInv, Good
    <2>2. CASE d # c
        <3>1. had'[d] = had[d]
            BY <1>4, <2>2 DEF IInv, Typed
        <3>2. pc[d] # "idle" => RightsOf(grant', AgentOf(cred[d]), op[d]) \subseteq had'[d]
            BY <1>2, <1>3, <3>1, TokensMade DEF IInv, Good, Remembered, RightsOf
        <3> QED  BY <1>2, <1>3, <1>4, <2>2, <3>1, <3>2, Ends, TokensMade, Undisturbed DEF IInv
    <2> QED  BY <2>1, <2>2
<1> QED  BY <1>5, <1>6 DEF IInv

LEMMA MintsSession == ASSUME IInv, NEW c \in Callers, MintSession(c) PROVE IInv'
<1>1. PICK t \in Fresh, a \in SessionAgents : Create(t, a, FALSE) /\ who' = [who EXCEPT ![c] = a]
    BY DEF MintSession
<1>2. a \in Agents
    BY AccessAssumption
<1>3. /\ pc[c] = "act" /\ pc' = [pc EXCEPT ![c] = "share"]
      /\ UNCHANGED <<require, cred, op, needs, open, had>>
    BY DEF MintSession, Act
<1>4. Typed'
    BY <1>1, <1>2, <1>3, TokensMade DEF IInv, Typed, AllPhases, Phases
<1>5. ASSUME NEW d \in Callers, pc[d] # "idle"
      PROVE  RightsOf(grant', AgentOf(cred[d]), op[d]) \subseteq had'[d]
    BY <1>1, <1>2, <1>3, <1>5, TokensMade DEF IInv, Good, Remembered, RightsOf
<1>6. ASSUME NEW d \in Callers, d # c PROVE Good(d)'
    <2>1. pc'[d] = pc[d] /\ who'[d] = who[d] /\ had[d] \subseteq had'[d]
        BY <1>1, <1>3, <1>6 DEF IInv, Typed
    <2> QED  BY <1>1, <1>2, <1>3, <1>5, <2>1, TokensMade, Undisturbed DEF IInv
<1>7. Good(c)'
    <2>1. Known(c) /\ Remembered(c) /\ Checked(c) /\ Working(c) /\ pc'[c] = "share"
        BY <1>3 DEF IInv, Typed, Good, Working
    <2>2. cred[c].token # None => cred[c].token \in Tokens
        BY <2>1, AccessAssumption DEF Known
    <2>3. AgentOf(cred[c])' = AgentOf(cred[c]) /\ AdminBy(cred[c])' = AdminBy(cred[c])
        BY <1>1, <1>2, <1>3, <2>1, <2>2, TokensMade DEF Known, AgentOf, AdminBy
    <2>4. Known(c)'
        BY <1>1, <1>2, <1>3, <2>1, <2>2, TokensMade DEF Known, Live
    <2>5. Remembered(c)'
        BY <1>3, <1>5, <2>1, <2>3 DEF Remembered, RightsOf, Needs, Working
    <2>6. Checked(c)'
        BY <1>3, <2>1 DEF Checked, Working
    <2> QED  BY <2>4, <2>5, <2>6 DEF Good
<1> QED  BY <1>4, <1>6, <1>7 DEF IInv

LEMMA RevokesToken == ASSUME IInv, NEW c \in Callers, RevokeToken(c) PROVE IInv'
<1>1. /\ revoked \subseteq revoked' /\ Finish(c) /\ had' = [had EXCEPT ![c] = {}]
      /\ UNCHANGED <<require, owner, admin, grant>>
    BY DEF RevokeToken
<1>2. Typed'
    BY <1>1, Ends DEF IInv, Typed
<1>3. ASSUME NEW d \in Callers PROVE Good(d)'
    <2>1. CASE d = c
        BY <1>1, <2>1, Ends DEF IInv, Good
    <2>2. CASE d # c
        <3>1. had'[d] = had[d]
            BY <1>1, <2>2 DEF IInv, Typed
        <3>2. pc[d] # "idle" => RightsOf(grant', AgentOf(cred[d]), op[d]) \subseteq had'[d]
            BY <1>1, <3>1 DEF IInv, Good, Remembered, RightsOf
        <3> QED  BY <1>1, <2>2, <3>1, <3>2, Ends, Undisturbed DEF IInv
    <2> QED  BY <2>1, <2>2
<1> QED  BY <1>2, <1>3 DEF IInv

LEMMA SharesGrants ==
    ASSUME IInv, NEW c \in Callers, Share(c) \/ RevokeGrant(c) \/ ShareSession(c)
    PROVE  IInv'
<1>1. CASE Share(c)
    <2>1. op[c] \in Operations /\ op[c].kind \in {"grant", "share"}
        BY <1>1 DEF Share, Act, IInv, Good, Known
    <2>2. op[c].rights \in SUBSET Rights
        BY <2>1, OperationAssumption
    <2> QED  BY <1>1, <2>2, GrantsSet DEF Share
<1>2. CASE RevokeGrant(c)
    BY <1>2, GrantsSet DEF RevokeGrant
<1>3. CASE ShareSession(c)
    <2>1. (IF op[c].write THEN Rights ELSE {"read"}) \in SUBSET Rights
        BY DEF Rights
    <2> QED  BY <1>3, <2>1, GrantsSet DEF ShareSession
<1> QED  BY <1>1, <1>2, <1>3

\* A handler's work goes on from step to step with what was checked.
LEMMA WorkGoesOn ==
    ASSUME IInv, NEW c \in Callers, pc[c] \in {"act", "capture"},
           NEW p \in {"capture", "store"}, pc' = [pc EXCEPT ![c] = p],
           UNCHANGED <<require, acl, cred, op, needs, who, open, had>>
    PROVE  IInv'
<1>1. needs' = [needs EXCEPT ![c] = needs[c]] /\ who' = [who EXCEPT ![c] = who[c]]
    BY DEF IInv, Typed
<1>2. needs[c] \in SUBSET {"admin", "read", "write"} /\ who[c] \in Agents \cup {None}
    BY DEF IInv, Typed
<1>3. pc'[c] = p /\ p \in AllPhases
    BY DEF IInv, Typed, AllPhases
<1>4. Remembered(c)'
    BY DEF IInv, Good, Remembered, RightsOf, AgentOf, AdminBy, Needs, acl
<1>5. Checked(c)'
    BY <1>3 DEF IInv, Good, Checked, Working
<1> QED  BY <1>1, <1>2, <1>3, <1>4, <1>5, Moves

LEMMA AccessSteps == ASSUME IInv, AccessNext PROVE IInv'
BY Arrivals, Checks, Denials, CreatesToken, RevokesToken, SharesGrants, MintsSession
   DEF AccessNext, ShareSessionFails, Answer

LEMMA VaultSteps ==
    ASSUME IInv, NEW c \in Callers,
           \/ Extract(c) \/ Capture(c) \/ CaptureFails(c) \/ StoreMemory(c) \/ StoreFails(c)
           \/ PutSecret(c) \/ DeleteSecret(c) \/ RevealSecret(c)
    PROVE  IInv'
<1>1. CASE Extract(c)
    BY <1>1, WorkGoesOn DEF Extract, Act
<1>2. CASE Capture(c)
    BY <1>2, WorkGoesOn DEF Capture
<1>3. CASE CaptureFails(c)
    BY <1>3, WorkGoesOn DEF CaptureFails
<1>4. CASE StoreMemory(c) \/ StoreFails(c) \/ PutSecret(c) \/ DeleteSecret(c) \/ RevealSecret(c)
    <2>1. Deny(c)
        BY <1>4 DEF StoreMemory, StoreFails, PutSecret, DeleteSecret, RevealSecret, Leave
    <2> QED  BY <2>1, Denials
<1> QED  BY <1>1, <1>2, <1>3, <1>4

LEMMA Stutters == ASSUME IInv, UNCHANGED vars PROVE IInv'
<1>1. Typed'
    BY DEF IInv, Typed, vars, acl
<1>2. ASSUME NEW d \in Callers PROVE Good(d)'
    BY Untouched DEF IInv, vars
<1> QED  BY <1>1, <1>2 DEF IInv

LEMMA Inductive == Spec => []IInv
<1>1. IInv /\ [Next]_vars => IInv'
    BY AccessSteps, VaultSteps, Stutters DEF Next
<1> QED  BY <1>1, Initially, PTL DEF Spec

\* A request acts only for an admin, or for an agent that has held every right
\* the handler asks for since it came (identify, canRead, canWrite, adminOnly).
THEOREM AuthorisedActs == Spec => []OnlyAuthorisedActs
BY Inductive, GoodIsSound, PTL

\* A request with a token revoked before it came never acts (ResolveToken).
THEOREM RevokedTokensAreShut == Spec => []RevokedIsShut
BY Inductive, GoodIsSound, PTL

-----------------------------------------------------------------------------
(* What a Retain puts into the vault, and what it stores.                   *)

Capturing(p) == p \in {"capture", "store"}

\* Each secret of the text is in the vault under its name, but for some values.
PlacedBut(ns, text, values) ==
    \A i \in DOMAIN text :
        text[i].value \in values \/ <<ns, NameOf(text, text[i].value), text[i].value>> \in placed

\* A content is as it came, or redacted when every secret was placed.
Sound(ns, text, content) ==
    content = Raw(text) \/ (content = Redact(text, Values) /\ PlacedBut(ns, text, {}))

\* The capture of a request: nothing is redacted before all is placed.
Underway(c) ==
    Capturing(pc[c]) =>
        /\ op[c].kind = "retain"
        /\ pc[c] = "capture" =>
            /\ work[c].found \subseteq Detected(op[c].text) /\ work[c].content = Raw(op[c].text)
            /\ PlacedBut(op[c].ns, op[c].text, work[c].found)
        /\ pc[c] = "store" => Sound(op[c].ns, op[c].text, work[c].content)

Stored(m) == m.ns \in Namespaces /\ m.text \in Texts /\ Sound(m.ns, m.text, m.content)

\* What was placed under a hash has that hash, and what is there now was placed too.
Lasting(e) ==
    e[2][2] = "hash" =>
        /\ e[2][1][2] = Digest[e[3]]
        /\ <<e[1], e[2]>> \in touched \/ <<e[1], e[2], vault[e[1]][e[2]]>> \in placed

Tables ==
    /\ vault \in [Namespaces -> [Names -> Values \cup {NoValue}]]
    /\ placed \subseteq Namespaces \X Names \X Values
    /\ touched \subseteq Namespaces \X Names
    /\ DOMAIN work = Callers

VaultInv ==
    /\ Tables
    /\ \A c \in Callers : Underway(c)
    /\ \A m \in memories : Stored(m)
    /\ \A e \in placed : Lasting(e)

LEMMA VaultInitially == Init => VaultInv
BY DEF Init, InitAccess, InitVault, VaultInv, Tables, Underway, Capturing

\* A set of numbers that is not empty has a least one.
LEMMA Least ==
    ASSUME NEW A, A \subseteq Nat, A # {}
    PROVE  \E f \in A : \A n \in A : f <= n
<1> DEFINE R == OpToRel(<, Nat)
<1>1. \A m, n \in Nat : <<m, n>> \in R <=> m < n
  BY DEF OpToRel
<1>2. IsWellFoundedOn(R, Nat)
  BY NatLessThanWellFounded
<1> HIDE DEF R
<1>3. PICK f \in A : \A n \in A : ~ (<<n, f>> \in R)
  <2>1. A \subseteq Nat /\ A # {}
    OBVIOUS
  <2> QED BY <1>2, <2>1, WFMin
<1>4. \A n \in A : n \in Nat /\ f \in Nat /\ ~ (n < f)
  BY <1>1, <1>3
<1> QED BY <1>4

\* A value of a text is matched first somewhere: of the matchers that find it one
\* comes first, and of the places where that one does.
LEMMA FirstIsAPlace ==
    ASSUME NEW text \in Texts, NEW i \in DOMAIN text
    PROVE  First(text, text[i].value) \in Places(text, text[i].value)
<1> DEFINE P == Places(text, text[i].value)
<1>1. P \subseteq Nat /\ i \in P /\ \A k \in P : text[k].matcher \in Nat
  <2> HIDE DEF Secret
  <2>1. DOMAIN text = 1..Len(text) /\ Len(text) \in Nat /\ \A k \in 1..Len(text) : text[k] \in Secret
    BY DEF Texts
  <2> QED BY <2>1 DEF Places, Secret, Matchers
<1> HIDE DEF P
<1> DEFINE M == {text[k].matcher : k \in P}
<1>2. M \subseteq Nat /\ M # {}
  BY <1>1
<1>3. PICK m \in M : \A n \in M : m <= n
  <2> HIDE DEF M
  <2> QED BY <1>2, Least
<1> DEFINE Q == {k \in P : text[k].matcher = m}
<1>4. PICK j \in P : text[j].matcher = m
  BY <1>3
<1>5. Q \subseteq Nat /\ Q # {}
  BY <1>1, <1>4
<1>6. PICK f \in Q : \A n \in Q : f <= n
  <2> HIDE DEF Q
  <2> QED BY <1>5, Least
<1>7. f \in P /\ text[f].matcher = m
  BY <1>6
<1>8. ASSUME NEW k \in P PROVE Earlier(text, f, k)
  <2>1. m <= text[k].matcher /\ text[k].matcher \in Nat /\ m \in Nat
    BY <1>1, <1>2, <1>3
  <2>2. CASE text[k].matcher = m
    BY <1>6, <1>7, <2>2 DEF Earlier
  <2>3. CASE text[k].matcher # m
    BY <1>7, <2>1, <2>3 DEF Earlier
  <2> QED BY <2>2, <2>3
<1> QED BY <1>7, <1>8 DEF First, P

\* The secrets of a text have names.
LEMMA NamesTyped ==
    ASSUME NEW text \in Texts, NEW i \in DOMAIN text
    PROVE  text[i].value \in Values /\ NameOf(text, text[i].value) \in Names
<1>1. \A k \in DOMAIN text : text[k] \in Secret
  <2> HIDE DEF Secret
  <2> QED BY DEF Texts
<1> DEFINE at == text[First(text, text[i].value)]
<1>2. text[i].value \in Values /\ at \in Secret
  BY <1>1, FirstIsAPlace DEF Places, Secret
<1>3. Digest[text[i].value] \in Digests
  BY <1>2 DEF Digests
<1>4. at.label \in Labels
  BY <1>2 DEF Secret
<1>5. NameOf(text, text[i].value) =
        IF at.matcher \in ByForm THEN <<<<at.matcher, Digest[text[i].value]>>, "hash">>
        ELSE <<at.label, "label">>
  BY DEF NameOf
<1> HIDE DEF at
<1> QED BY <1>2, <1>3, <1>4, <1>5 DEF Names

\* A request whose capture is under way asks for a Retain of a text to a brain.
LEMMA RetainTyped ==
    ASSUME IInv, NEW c \in Callers, pc[c] # "idle", op[c].kind = "retain"
    PROVE  op[c].ns \in Namespaces /\ op[c].text \in Texts
BY SecretAssumption, OperationAssumption DEF IInv, Good, Known

\* The checks of requests and the tables of the ACL leave the vault alone.
LEMMA AccessLeavesCaptures ==
    ASSUME IInv, AccessNext, NEW d \in Callers, Capturing(pc'[d])
    PROVE  pc'[d] = pc[d] /\ op'[d] = op[d]
<1>1. PICK c \in Callers :
        \/ Arrive(c) \/ Gate(c) \/ Identify(c) \/ HasGrant(c) \/ Answer(c)
        \/ CreateToken(c) \/ RevokeToken(c) \/ Share(c) \/ RevokeGrant(c)
        \/ MintSession(c) \/ ShareSession(c) \/ ShareSessionFails(c)
  BY DEF AccessNext
<1>2. pc \in [Callers -> AllPhases] /\ op \in [Callers -> Operations \cup {NoOp}]
  BY DEF IInv, Typed
<1>3. CASE Finish(c)
  BY <1>2, <1>3 DEF Finish, Capturing
<1>4. CASE Pass(c)
  BY <1>2, <1>4 DEF Pass, Capturing
<1>5. CASE Arrive(c)
  BY <1>2, <1>5 DEF Arrive, Capturing
<1>6. CASE MintSession(c)
  BY <1>2, <1>6 DEF MintSession, Capturing
<1>7. CASE Gate(c)
  BY <1>2, <1>3, <1>7 DEF Gate, Deny, Capturing
<1>8. CASE Identify(c)
  BY <1>2, <1>3, <1>4, <1>8 DEF Identify, Deny, Capturing
<1>9. CASE HasGrant(c) \/ Answer(c) \/ ShareSessionFails(c)
  BY <1>3, <1>4, <1>9 DEF HasGrant, Answer, ShareSessionFails, Deny
<1>10. CASE CreateToken(c) \/ RevokeToken(c) \/ Share(c) \/ RevokeGrant(c) \/ ShareSession(c)
  BY <1>3, <1>10 DEF CreateToken, RevokeToken, Share, RevokeGrant, ShareSession
<1> QED BY <1>1, <1>5, <1>6, <1>7, <1>8, <1>9, <1>10

\* More is placed, and what was placed stays so.
LEMMA PlacedGrows ==
    ASSUME placed \subseteq placed', NEW ns, NEW text, NEW content, NEW values
    PROVE  /\ PlacedBut(ns, text, values) => PlacedBut(ns, text, values)'
           /\ Sound(ns, text, content) => Sound(ns, text, content)'
BY DEF PlacedBut, Sound

\* A request that does not move keeps its capture.
LEMMA CaptureKept ==
    ASSUME NEW d \in Callers, Underway(d), placed \subseteq placed',
           Capturing(pc'[d]) => pc'[d] = pc[d] /\ op'[d] = op[d] /\ work'[d] = work[d]
    PROVE  Underway(d)'
BY PlacedGrows DEF Underway

LEMMA VaultAlone ==
    ASSUME IInv, VaultInv, UNCHANGED vaultVars,
           \A d \in Callers : Capturing(pc'[d]) => pc'[d] = pc[d] /\ op'[d] = op[d]
    PROVE  VaultInv'
<1>1. Tables' /\ \A e \in placed' : Lasting(e)'
  BY DEF VaultInv, Tables, Lasting, vaultVars
<1>2. \A m \in memories' : Stored(m)'
  BY PlacedGrows DEF VaultInv, Stored, vaultVars
<1>3. \A d \in Callers : Underway(d)'
  BY CaptureKept DEF VaultInv, vaultVars
<1> QED BY <1>1, <1>2, <1>3 DEF VaultInv

\* The request that acts is where it is; the others stay.
LEMMA Extracts == ASSUME IInv, VaultInv, NEW c \in Callers, Extract(c) PROVE VaultInv'
<1> DEFINE text == op[c].text
<1>1. /\ op[c].kind = "retain" /\ pc[c] = "act"
      /\ work' = [work EXCEPT ![c] = [found |-> Detected(text), content |-> Raw(text)]]
      /\ pc' = [pc EXCEPT ![c] = IF Detected(text) = {} THEN "store" ELSE "capture"]
      /\ UNCHANGED <<op, vault, memories, placed, touched>>
  BY DEF Extract, Act
<1>2. text \in Texts
  BY <1>1, RetainTyped
<1>3. Tables' /\ \A e \in placed' : Lasting(e)'
  BY <1>1 DEF VaultInv, Tables, Lasting
<1>4. \A m \in memories' : Stored(m)'
  BY <1>1, PlacedGrows DEF VaultInv, Stored
<1>5. /\ work'[c] = [found |-> Detected(text), content |-> Raw(text)]
      /\ op'[c] = op[c] /\ pc'[c] \in {"capture", "store"}
  BY <1>1 DEF IInv, Typed, VaultInv, Tables
<1>6. PlacedBut(op[c].ns, text, Detected(text))
  BY <1>2, NamesTyped DEF Detected, PlacedBut
<1>7. Underway(c)'
  <2> HIDE DEF text
  <2> QED BY <1>1, <1>5, <1>6 DEF Underway, Sound, PlacedBut, text
<1>8. ASSUME NEW d \in Callers, d # c PROVE Underway(d)'
  <2>1. pc'[d] = pc[d] /\ op'[d] = op[d] /\ work'[d] = work[d]
    BY <1>1, <1>8 DEF IInv, Typed, VaultInv, Tables
  <2> QED BY <1>1, <2>1, CaptureKept DEF VaultInv
<1> QED BY <1>3, <1>4, <1>7, <1>8 DEF VaultInv

LEMMA Captures == ASSUME IInv, VaultInv, NEW c \in Callers, Capture(c) PROVE VaultInv'
<1> DEFINE text == op[c].text
           ns == op[c].ns
<1>1. PICK v \in work[c].found :
        /\ pc[c] = "capture"
        /\ vault' = [vault EXCEPT ![ns][NameOf(text, v)] = v]
        /\ placed' = placed \cup {<<ns, NameOf(text, v), v>>}
        /\ work' = [work EXCEPT ![c] =
              [found |-> work[c].found \ {v},
               content |-> IF work[c].found \ {v} = {} THEN Redact(text, Values) ELSE @.content]]
        /\ pc' = [pc EXCEPT ![c] = IF work[c].found \ {v} = {} THEN "store" ELSE "capture"]
        /\ UNCHANGED <<op, memories, touched>>
  BY DEF Capture
<1> DEFINE name == NameOf(text, v)
           rest == work[c].found \ {v}
<1>2. /\ op[c].kind = "retain" /\ work[c].found \subseteq Detected(text) /\ work[c].content = Raw(text)
      /\ PlacedBut(ns, text, work[c].found)
  BY <1>1 DEF VaultInv, Underway, Capturing
<1>3. ns \in Namespaces /\ text \in Texts
  BY <1>1, <1>2, RetainTyped
<1>4. v \in Values /\ name \in Names
  <2>1. PICK i \in DOMAIN text : text[i].value = v
    BY <1>1, <1>2 DEF Detected
  <2> QED BY <1>3, <2>1, NamesTyped
<1>5. name[2] = "hash" => name[1][2] = Digest[v]
  <2>1. CASE text[First(text, v)].matcher \in ByForm
    BY <2>1 DEF NameOf
  <2>2. CASE text[First(text, v)].matcher \notin ByForm
    BY <2>2 DEF NameOf
  <2> QED BY <2>1, <2>2
<1> HIDE DEF name, rest
<1>6. Tables'
  BY <1>1, <1>3, <1>4 DEF VaultInv, Tables, name
<1>7. ASSUME NEW e \in placed' PROVE Lasting(e)'
  <2>1. vault'[ns][name] = v /\ \A n \in Namespaces, m \in Names : n # ns \/ m # name => vault'[n][m] = vault[n][m]
    BY <1>1, <1>3, <1>4 DEF VaultInv, Tables, name
  <2>2. CASE e = <<ns, name, v>>
    BY <1>5, <2>1, <2>2 DEF Lasting
  <2>3. CASE e \in placed
    <3>1. e[1] \in Namespaces /\ e[2] \in Names /\ Lasting(e)
      BY <2>3 DEF VaultInv, Tables
    <3>2. CASE e[1] = ns /\ e[2] = name
      BY <1>1, <1>5, <2>1, <3>1, <3>2 DEF Lasting
    <3> QED BY <1>1, <2>1, <3>1, <3>2 DEF Lasting
  <2> QED BY <1>1, <2>2, <2>3 DEF name
<1>8. \A m \in memories' : Stored(m)'
  BY <1>1, PlacedGrows DEF VaultInv, Stored
<1>9. /\ op'[c] = op[c] /\ pc'[c] = IF rest = {} THEN "store" ELSE "capture"
      /\ work'[c] = [found |-> rest, content |-> IF rest = {} THEN Redact(text, Values) ELSE Raw(text)]
  BY <1>1, <1>2 DEF IInv, Typed, VaultInv, Tables, rest
<1>10. \A i \in DOMAIN text :
           text[i].value \in rest \/ <<ns, NameOf(text, text[i].value), text[i].value>> \in placed'
  BY <1>1, <1>2 DEF PlacedBut, name, rest
<1>11. Underway(c)'
  <2> HIDE DEF text, ns
  <2>1. CASE rest = {}
    <3>1. PlacedBut(op[c].ns, op[c].text, {})'
      BY <1>9, <1>10, <2>1 DEF PlacedBut, text, ns
    <3> QED BY <1>2, <1>9, <2>1, <3>1 DEF Underway, Sound, text
  <2>2. CASE rest # {}
    <3>1. pc'[c] = "capture" /\ work'[c].found = rest /\ work'[c].content = Raw(text)
      BY <1>9, <2>2
    <3>2. PlacedBut(op[c].ns, op[c].text, work[c].found)'
      BY <1>9, <1>10, <3>1 DEF PlacedBut, text, ns
    <3>3. rest \subseteq Detected(text)
      BY <1>2 DEF rest
    <3> QED BY <1>2, <1>9, <3>1, <3>2, <3>3 DEF Underway, text
  <2> QED BY <2>1, <2>2
<1>12. ASSUME NEW d \in Callers, d # c PROVE Underway(d)'
  <2>1. pc'[d] = pc[d] /\ op'[d] = op[d] /\ work'[d] = work[d]
    BY <1>1, <1>12 DEF IInv, Typed, VaultInv, Tables
  <2> QED BY <1>1, <2>1, CaptureKept DEF VaultInv
<1> QED BY <1>6, <1>7, <1>8, <1>11, <1>12 DEF VaultInv

LEMMA CapturesFail == ASSUME IInv, VaultInv, NEW c \in Callers, CaptureFails(c) PROVE VaultInv'
<1>1. /\ pc[c] = "capture" /\ pc' = [pc EXCEPT ![c] = "store"]
      /\ work' = [work EXCEPT ![c] = [found |-> {}, content |-> Raw(op[c].text)]]
      /\ UNCHANGED <<op, vault, memories, placed, touched>>
  BY DEF CaptureFails
<1>2. Tables' /\ \A e \in placed' : Lasting(e)'
  BY <1>1 DEF VaultInv, Tables, Lasting
<1>3. \A m \in memories' : Stored(m)'
  BY <1>1, PlacedGrows DEF VaultInv, Stored
<1>4. /\ work'[c].content = Raw(op[c].text) /\ op'[c] = op[c] /\ pc'[c] = "store"
      /\ op[c].kind = "retain"
  BY <1>1 DEF IInv, Typed, VaultInv, Tables, Underway, Capturing
<1>5. Underway(c)'
  BY <1>4 DEF Underway, Sound
<1>6. ASSUME NEW d \in Callers, d # c PROVE Underway(d)'
  <2>1. pc'[d] = pc[d] /\ op'[d] = op[d] /\ work'[d] = work[d]
    BY <1>1, <1>6 DEF IInv, Typed, VaultInv, Tables
  <2> QED BY <1>1, <2>1, CaptureKept DEF VaultInv
<1> QED BY <1>2, <1>3, <1>5, <1>6 DEF VaultInv

\* A request leaves: it has no capture any more, the others keep theirs.
LEMMA Leaving ==
    ASSUME IInv, VaultInv, NEW c \in Callers, Leave(c), placed' = placed
    PROVE  (\A d \in Callers : Underway(d)') /\ DOMAIN work' = Callers
<1>1. Finish(c) /\ work' = [work EXCEPT ![c] = NoSecrets]
  BY DEF Leave, Deny
<1>2. DOMAIN work' = Callers
  BY <1>1 DEF VaultInv, Tables
<1>3. ASSUME NEW d \in Callers PROVE Underway(d)'
  <2>1. CASE d = c
    BY <1>1, <2>1, Ends DEF IInv, Underway, Capturing
  <2>2. CASE d # c
    <3>1. pc'[d] = pc[d] /\ op'[d] = op[d]
      BY <1>1, <2>2, Ends DEF IInv
    <3>2. work'[d] = work[d]
      BY <1>1, <2>2 DEF VaultInv, Tables
    <3> QED BY <3>1, <3>2, CaptureKept DEF VaultInv
  <2> QED BY <2>1, <2>2
<1> QED BY <1>2, <1>3

LEMMA Stores ==
    ASSUME IInv, VaultInv, NEW c \in Callers, StoreMemory(c) \/ StoreFails(c)
    PROVE  VaultInv'
<1>1. pc[c] = "store" /\ Leave(c) /\ UNCHANGED <<vault, placed, touched>>
  BY DEF StoreMemory, StoreFails
<1>2. Tables' /\ \A e \in placed' : Lasting(e)'
  BY <1>1, Leaving DEF VaultInv, Tables, Lasting
<1>3. op[c].kind = "retain" /\ Sound(op[c].ns, op[c].text, work[c].content)
  BY <1>1 DEF VaultInv, Underway, Capturing
<1>4. op[c].ns \in Namespaces /\ op[c].text \in Texts
  BY <1>1, <1>3, RetainTyped
<1>5. ASSUME NEW m \in memories' PROVE Stored(m)'
  <2>1. Stored(m)
    <3>1. CASE m \in memories
      BY <3>1 DEF VaultInv
    <3>2. CASE m = [ns |-> op[c].ns, text |-> op[c].text, content |-> work[c].content]
      BY <1>3, <1>4, <3>2 DEF Stored
    <3> QED BY <3>1, <3>2 DEF StoreMemory, StoreFails
  <2> QED BY <1>1, <2>1, PlacedGrows DEF Stored
<1> QED BY <1>1, <1>2, <1>5, Leaving DEF VaultInv

\* An operator writes one name, and it is known that one did.
LEMMA Writes ==
    ASSUME IInv, VaultInv, NEW c \in Callers, NEW v \in Values \cup {NoValue},
           op[c].ns \in Namespaces, op[c].name \in Names, Leave(c),
           vault' = [vault EXCEPT ![op[c].ns][op[c].name] = v],
           touched' = touched \cup {<<op[c].ns, op[c].name>>}, UNCHANGED <<memories, placed>>
    PROVE  VaultInv'
<1> DEFINE ns == op[c].ns
           name == op[c].name
<1>1. Tables'
  BY Leaving DEF VaultInv, Tables
<1>2. ASSUME NEW e \in placed' PROVE Lasting(e)'
  <2>1. e[1] \in Namespaces /\ e[2] \in Names /\ Lasting(e)
    BY DEF VaultInv, Tables
  <2>2. CASE e[1] = ns /\ e[2] = name
    BY <2>1, <2>2 DEF Lasting
  <2>3. CASE ~ (e[1] = ns /\ e[2] = name)
    <3>1. vault'[e[1]][e[2]] = vault[e[1]][e[2]]
      BY <2>1, <2>3 DEF VaultInv, Tables
    <3> QED BY <2>1, <3>1 DEF Lasting
  <2> QED BY <2>2, <2>3
<1>3. \A m \in memories' : Stored(m)'
  BY PlacedGrows DEF VaultInv, Stored
<1> QED BY <1>1, <1>2, <1>3, Leaving DEF VaultInv

LEMMA Operates ==
    ASSUME IInv, VaultInv, NEW c \in Callers, PutSecret(c) \/ DeleteSecret(c) \/ RevealSecret(c)
    PROVE  VaultInv'
<1>1. op[c] \in Operations /\ op[c].kind \in {"put", "delete", "reveal"} /\ Leave(c)
  BY DEF PutSecret, DeleteSecret, RevealSecret, Act, IInv, Good, Known
<1>2. op[c].ns \in Namespaces
  BY <1>1, OperationAssumption
<1>3. CASE PutSecret(c)
  <2>1. op[c].name \in Names /\ op[c].value \in Values
    BY <1>1, <1>3, SecretAssumption DEF PutSecret, Act
  <2> QED BY <1>2, <1>3, <2>1, Writes DEF PutSecret
<1>4. CASE DeleteSecret(c)
  <2>1. op[c].name \in Names
    BY <1>1, <1>4, SecretAssumption DEF DeleteSecret, Act
  <2> QED BY <1>2, <1>4, <2>1, Writes DEF DeleteSecret
<1>5. CASE RevealSecret(c)
  <2>1. UNCHANGED <<vault, memories, placed, touched>>
    BY <1>5 DEF RevealSecret
  <2>2. Tables' /\ \A e \in placed' : Lasting(e)'
    BY <1>1, <2>1, Leaving DEF VaultInv, Tables, Lasting
  <2>3. \A m \in memories' : Stored(m)'
    BY <2>1, PlacedGrows DEF VaultInv, Stored
  <2> QED BY <1>1, <2>1, <2>2, <2>3, Leaving DEF VaultInv
<1> QED BY <1>3, <1>4, <1>5

LEMMA VaultInductive == Spec => []VaultInv
<1>1. ASSUME IInv, VaultInv, [Next]_vars PROVE VaultInv'
  <2>1. CASE AccessNext /\ UNCHANGED vaultVars
    BY <1>1, <2>1, AccessLeavesCaptures, VaultAlone
  <2>2. CASE UNCHANGED vars
    BY <1>1, <2>2, VaultAlone DEF vars
  <2> QED BY <1>1, <2>1, <2>2, Extracts, Captures, CapturesFail, Stores, Operates DEF Next
<1> QED BY <1>1, VaultInitially, Inductive, PTL DEF Spec

\* What a content refers to: nothing as it came, every secret once redacted.
LEMMA RedactedIs ==
    ASSUME NEW m, Stored(m)
    PROVE  /\ DOMAIN m.content = DOMAIN m.text
           /\ References(m) \in {{}, DOMAIN m.text}
           /\ \A i \in References(m) :
                /\ i \in DOMAIN m.text
                /\ m.content[i].ref = NameOf(m.text, m.text[i].value)
                /\ <<m.ns, m.content[i].ref, m.text[i].value>> \in placed
<1>1. \A i \in DOMAIN m.text : m.text[i].value \in Values
  BY NamesTyped DEF Stored
<1>2. CASE m.content = Raw(m.text)
  <2>1. DOMAIN m.content = DOMAIN m.text /\ \A i \in DOMAIN m.text : m.content[i] = [raw |-> m.text[i].value]
    BY <1>2 DEF Raw, Redact
  <2>2. ASSUME NEW i \in DOMAIN m.text PROVE "ref" \notin DOMAIN m.content[i]
    <3> DEFINE y == m.text[i].value
    <3>1. m.content[i] = [raw |-> y]
      BY <2>1
    <3> HIDE DEF y
    <3>2. DOMAIN [raw |-> y] = {"raw"} /\ "ref" \notin {"raw"}
      OBVIOUS
    <3> QED BY <3>1, <3>2
  <2> QED BY <2>1, <2>2 DEF References
<1>3. CASE m.content = Redact(m.text, Values) /\ PlacedBut(m.ns, m.text, {})
  <2>1. /\ DOMAIN m.content = DOMAIN m.text
        /\ \A i \in DOMAIN m.text : m.content[i] = [ref |-> NameOf(m.text, m.text[i].value)]
    BY <1>1, <1>3 DEF Redact
  <2>2. ASSUME NEW i \in DOMAIN m.text
        PROVE  "ref" \in DOMAIN m.content[i] /\ m.content[i].ref = NameOf(m.text, m.text[i].value)
    <3> DEFINE y == NameOf(m.text, m.text[i].value)
    <3>1. m.content[i] = [ref |-> y]
      BY <2>1
    <3> HIDE DEF y
    <3>2. DOMAIN [ref |-> y] = {"ref"} /\ [ref |-> y].ref = y
      OBVIOUS
    <3> QED BY <3>1, <3>2 DEF y
  <2> QED BY <1>3, <2>1, <2>2 DEF References, PlacedBut
<1> QED BY <1>2, <1>3 DEF Stored, Sound

\* A memory keeps all its secrets or none, and what it refers to was put into
\* the vault (captureSecrets).
THEOREM ReferencesAreVaulted == Spec => []ReferencesWereVaulted
<1>1. VaultInv => ReferencesWereVaulted
  BY RedactedIs DEF VaultInv, ReferencesWereVaulted
<1> QED BY <1>1, VaultInductive, PTL

\* Unless an operator wrote its name, a reference by hash shows a value that a
\* capture put there, with the hash of the one it replaced (extractSecrets,
\* PutSecret).
THEOREM HashedReferencesResolve == Spec => []HashedNamesResolve
<1>1. ASSUME VaultInv PROVE HashedNamesResolve
  <2> SUFFICES ASSUME NEW m \in memories, NEW i \in References(m),
                      m.content[i].ref[2] = "hash", ~ Written(m, i)
               PROVE  /\ <<m.ns, m.content[i].ref, Shown(m, i)>> \in placed
                      /\ Digest[Shown(m, i)] = Digest[m.text[i].value]
    BY DEF HashedNamesResolve
  <2> DEFINE ref == m.content[i].ref
             kept == m.text[i].value
             shown == Shown(m, i)
  <2>1. <<m.ns, ref, kept>> \in placed /\ ref[2] = "hash" /\ <<m.ns, ref>> \notin touched
        /\ shown = vault[m.ns][ref]
    BY <1>1, RedactedIs DEF VaultInv, Written, Shown
  <2> HIDE DEF ref, kept, shown
  <2>2. <<m.ns, ref, shown>> \in placed /\ ref[1][2] = Digest[kept]
    BY <1>1, <2>1 DEF VaultInv, Lasting
  <2>3. ref[1][2] = Digest[shown]
    BY <1>1, <2>1, <2>2 DEF VaultInv, Lasting
  <2> QED BY <2>2, <2>3 DEF ref, kept, shown
<1> QED BY <1>1, VaultInductive, PTL

\* What the checks read of the environment and of the tokens, and the counter.
Settings ==
    /\ require \in [auth : BOOLEAN, token : BOOLEAN]
    /\ revoked \subseteq Tokens /\ requests \in 0..MaxRequests

LEMMA SettingsStay ==
    ASSUME IInv, Settings, NEW c \in Callers,
           \/ Arrive(c) \/ Gate(c) \/ Identify(c) \/ HasGrant(c) \/ Answer(c)
           \/ CreateToken(c) \/ RevokeToken(c) \/ Share(c) \/ RevokeGrant(c)
           \/ MintSession(c) \/ ShareSession(c) \/ ShareSessionFails(c)
    PROVE  Settings'
<1>1. CASE Deny(c) \/ Pass(c)
  BY <1>1 DEF Deny, Pass, Settings, acl
<1>2. CASE Arrive(c)
  BY <1>2, AccessAssumption DEF Arrive, Settings, acl
<1>3. CASE Gate(c)
  BY <1>1, <1>3 DEF Gate, Settings, acl
<1>4. CASE Identify(c)
  BY <1>1, <1>4 DEF Identify, Settings, acl
<1>5. CASE HasGrant(c) \/ Answer(c) \/ ShareSessionFails(c)
  BY <1>1, <1>5 DEF HasGrant, Answer, ShareSessionFails
<1>6. CASE CreateToken(c) \/ MintSession(c)
  BY <1>6 DEF CreateToken, MintSession, Create, Settings
<1>7. CASE RevokeToken(c)
  <2>1. op[c] \in Operations /\ op[c].kind = "revoke"
    BY <1>7 DEF RevokeToken, Act, IInv, Good, Known
  <2>2. op[c].token \in Tokens
    BY <2>1, OperationAssumption
  <2> QED BY <1>7, <2>2 DEF RevokeToken, Settings
<1>8. CASE Share(c) \/ RevokeGrant(c) \/ ShareSession(c)
  BY <1>8 DEF Share, RevokeGrant, ShareSession, SetGrant, Settings
<1> QED BY <1>2, <1>3, <1>4, <1>5, <1>6, <1>7, <1>8

\* Every variable keeps its type, and a content has a place for each secret.
THEOREM VaultTypeCorrect == Spec => []TypeOK
<1>1. Init => Settings
  BY AccessAssumption DEF Init, InitAccess, Settings
<1>2. ASSUME IInv, Settings, [Next]_vars PROVE Settings'
  <2>1. CASE AccessNext
    BY <1>2, <2>1, SettingsStay DEF AccessNext
  <2>2. CASE UNCHANGED <<require, revoked, requests>>
    BY <1>2, <2>2 DEF Settings
  <2>3. ASSUME NEW c \in Callers,
               \/ Extract(c) \/ Capture(c) \/ CaptureFails(c) \/ StoreMemory(c) \/ StoreFails(c)
               \/ PutSecret(c) \/ DeleteSecret(c) \/ RevealSecret(c)
        PROVE  UNCHANGED <<require, revoked, requests>>
    <3>1. CASE Extract(c)
      BY <3>1 DEF Extract, acl
    <3>2. CASE Capture(c)
      BY <3>2 DEF Capture, acl
    <3>3. CASE CaptureFails(c)
      BY <3>3 DEF CaptureFails, acl
    <3>4. CASE StoreMemory(c) \/ StoreFails(c) \/ PutSecret(c) \/ DeleteSecret(c) \/ RevealSecret(c)
      <4>1. Leave(c)
        BY <3>4 DEF StoreMemory, StoreFails, PutSecret, DeleteSecret, RevealSecret
      <4> QED BY <4>1 DEF Leave, Deny, acl
    <3> QED BY <2>3, <3>1, <3>2, <3>3, <3>4
  <2>4. CASE UNCHANGED vars
    BY <1>2, <2>4 DEF vars, acl, Settings
  <2> QED BY <1>2, <2>1, <2>2, <2>3, <2>4 DEF Next
<1>3. IInv /\ Settings /\ VaultInv => TypeOK
  <2> SUFFICES ASSUME IInv, Settings, VaultInv PROVE TypeOK
    OBVIOUS
  <2>1. AccessTyped
    BY DEF IInv, Typed, Settings, AccessTyped
  <2>2. \A m \in memories : DOMAIN m.content = DOMAIN m.text
    BY RedactedIs DEF VaultInv
  <2> QED BY <2>1, <2>2 DEF IInv, Typed, VaultInv, Tables, TypeOK, AllPhases
<1> QED BY <1>1, <1>2, <1>3, Inductive, VaultInductive, PTL DEF Spec
=============================================================================
