------------------------------ MODULE Communities ------------------------------
(* Community detection (graph.go, DetectCommunities): label propagation over *)
(* the live edges of one brain, then the table of clusters.  A run is a      *)
(* sequence of statements that commit one by one, so two runs, and writers   *)
(* of the graph, may come in between any two of them.                        *)
(*                                                                           *)
(* Ids are numbers, as only their order matters.  A round is one UPDATE that *)
(* reads a snapshot and writes the rows it would change; a concurrent commit *)
(* may come between the two.                                                 *)
EXTENDS Integers, FiniteSets

CONSTANTS
    Entities,       \* ids of the brain's entities, present or to come
    Links,          \* pairs of entities a live edge may join
    Rank,           \* Rank[e]: place of e by entity type and name
    Runs,           \* concurrent callers of DetectCommunities
    Rounds,         \* iterations
    MaxRuns,        \* bound: runs begun by one caller
    MaxChanges      \* bound: entities and edges that appear or end

ASSUME EntitiesAssumption ==
    /\ Entities \subseteq Nat \ {0} /\ IsFiniteSet(Entities)
    /\ Links \subseteq Entities \X Entities
ASSUME RankAssumption ==
    /\ Rank \in [Entities -> Nat]
    /\ \A e, f \in Entities : Rank[e] = Rank[f] => e = f
ASSUME BoundsAssumption == Rounds \in Nat /\ MaxRuns \in Nat /\ MaxChanges \in Nat

Null == 0

VARIABLES
    entities,       \* entities of the brain
    edges,          \* live edges, as pairs
    label,          \* label[e]: community_id
    communities,    \* rows of the communities table
    pc,             \* pc[r]: the statement run r is at
    round,          \* round[r]: rounds run r has finished
    moves,          \* moves[r][e]: the label the round in hand will give e
    begun,          \* begun[r]: runs caller r has begun
    changes,        \* changes made to the graph
    seen,           \* history: edges live since the first run in progress began
    alone           \* history: runs that have overlapped with no other

graph == <<entities, edges, changes>>
vars == <<entities, edges, label, communities, pc, round, moves, begun, changes, seen,
          alone>>

Labels == Entities \cup {Null}
Keep == [e \in Entities |-> Null]

Init ==
    /\ entities \in SUBSET Entities
    /\ edges \in SUBSET (Links \cap (entities \X entities))
    /\ label = [e \in Entities |-> Null]
    /\ communities = {}
    /\ pc = [r \in Runs |-> "idle"]
    /\ round = [r \in Runs |-> 0]
    /\ moves = [r \in Runs |-> Keep]
    /\ begun = [r \in Runs |-> 0]
    /\ changes = 0
    /\ seen = edges
    /\ alone = {}

-----------------------------------------------------------------------------
(* Writers of the graph: the mirror, the sync scripts, an editor.           *)

AddEntity(e) ==
    /\ changes < MaxChanges /\ e \notin entities
    /\ entities' = entities \cup {e}
    /\ changes' = changes + 1
    /\ UNCHANGED <<edges, label, communities, pc, round, moves, begun, seen, alone>>

\* An edge that ends keeps its row, with a valid_to.
ChangeEdge(l) ==
    /\ changes < MaxChanges /\ l \in entities \X entities
    /\ edges' = IF l \in edges THEN edges \ {l} ELSE edges \cup {l}
    /\ seen' = seen \cup {l}
    /\ changes' = changes + 1
    /\ UNCHANGED <<entities, label, communities, pc, round, moves, begun, alone>>

-----------------------------------------------------------------------------
(* One run.                                                                 *)

Active == {q \in Runs : pc[q] # "idle"}

\* Mutant: entities that have a community keep it.
SeedOnlyNew(r) ==
    /\ pc[r] = "idle" /\ begun[r] < MaxRuns
    /\ label' = [e \in Entities |-> IF e \in entities /\ label[e] = Null THEN e ELSE label[e]]
    /\ seen' = IF Active = {} THEN edges ELSE seen
    /\ alone' = IF Active = {} THEN {r} ELSE {}
    /\ pc' = [pc EXCEPT ![r] = IF Rounds = 0 THEN "clear" ELSE "read"]
    /\ round' = [round EXCEPT ![r] = 0]
    /\ begun' = [begun EXCEPT ![r] = @ + 1]
    /\ UNCHANGED <<graph, communities, moves>>

\* Every entity is its own community.
Seed(r) ==
    /\ pc[r] = "idle" /\ begun[r] < MaxRuns
    /\ label' = [e \in Entities |-> IF e \in entities THEN e ELSE label[e]]
    /\ seen' = IF Active = {} THEN edges ELSE seen
    /\ alone' = IF Active = {} THEN {r} ELSE {}
    /\ pc' = [pc EXCEPT ![r] = IF Rounds = 0 THEN "clear" ELSE "read"]
    /\ round' = [round EXCEPT ![r] = 0]
    /\ begun' = [begun EXCEPT ![r] = @ + 1]
    /\ UNCHANGED <<graph, communities, moves>>

\* The edges through which n hears label c.  A loop counts n's own label.
Other(l, n) == IF l[1] = n THEN l[2] ELSE l[1]
Votes(n, c) == {l \in edges : n \in {l[1], l[2]} /\ label[Other(l, n)] = c}
Heard(n) == {c \in Labels : Votes(n, c) # {}}

\* c comes before d: more votes, then the smaller id, Null last.
Before(n, c, d) ==
    LET vc == Cardinality(Votes(n, c))
        vd == Cardinality(Votes(n, d))
    IN  vc > vd \/ (vc = vd /\ c # Null /\ (d = Null \/ c <= d))

Best(n) ==
    IF Heard(n) = {} THEN Null
    ELSE CHOOSE c \in Heard(n) : \A d \in Heard(n) \ {c} : Before(n, c, d)

RoundRead(r) ==
    /\ pc[r] = "read"
    /\ moves' = [moves EXCEPT ![r] = [n \in Entities |->
                    IF n \in entities /\ label[n] # Best(n) THEN Best(n) ELSE Null]]
    /\ pc' = [pc EXCEPT ![r] = "write"]
    /\ UNCHANGED <<graph, label, communities, round, begun, seen, alone>>

\* Mutant: the rounds are not counted.
RoundWriteNoCap(r) ==
    /\ pc[r] = "write"
    /\ label' = [n \in Entities |-> IF moves[r][n] # Null THEN moves[r][n] ELSE label[n]]
    /\ moves' = [moves EXCEPT ![r] = Keep]
    /\ round' = [round EXCEPT ![r] = @ + 1]
    /\ pc' = [pc EXCEPT ![r] = "read"]
    /\ UNCHANGED <<graph, communities, begun, seen, alone>>

RoundWrite(r) ==
    /\ pc[r] = "write"
    /\ label' = [n \in Entities |-> IF moves[r][n] # Null THEN moves[r][n] ELSE label[n]]
    /\ moves' = [moves EXCEPT ![r] = Keep]
    /\ round' = [round EXCEPT ![r] = @ + 1]
    /\ pc' = [pc EXCEPT ![r] = IF round[r] + 1 = Rounds THEN "clear" ELSE "read"]
    /\ UNCHANGED <<graph, communities, begun, seen, alone>>

\* Mutant: the clusters of the last run are not removed.
ClearNothing(r) ==
    /\ pc[r] = "clear"
    /\ pc' = [pc EXCEPT ![r] = "insert"]
    /\ UNCHANGED <<graph, label, communities, round, moves, begun, seen, alone>>

Clear(r) ==
    /\ pc[r] = "clear"
    /\ communities' = {}
    /\ pc' = [pc EXCEPT ![r] = "insert"]
    /\ UNCHANGED <<graph, label, round, moves, begun, seen, alone>>

\* A cluster has two members or more and the name of its first one.
Members(c) == {e \in entities : label[e] = c}
Lead(S) == CHOOSE e \in S : \A f \in S : Rank[e] <= Rank[f]
Clusters == {[lead |-> Lead(Members(c)), size |-> Cardinality(Members(c))] :
                c \in {d \in Entities : Cardinality(Members(d)) > 1}}

\* A cluster whose name is there already takes the new size.
Insert(r) ==
    /\ pc[r] = "insert"
    /\ communities' = {c \in communities : \A d \in Clusters : d.lead # c.lead} \cup Clusters
    /\ pc' = [pc EXCEPT ![r] = "idle"]
    /\ UNCHANGED <<graph, label, round, moves, begun, seen, alone>>

\* A statement fails: the ones before it stay.
Fail(r) ==
    /\ pc[r] # "idle"
    /\ pc' = [pc EXCEPT ![r] = "idle"]
    /\ moves' = [moves EXCEPT ![r] = Keep]
    /\ UNCHANGED <<graph, label, communities, round, begun, seen, alone>>

-----------------------------------------------------------------------------

Next ==
    \/ \E e \in Entities : AddEntity(e)
    \/ \E l \in Links : ChangeEdge(l)
    \/ \E r \in Runs :
          \/ Seed(r) \/ RoundRead(r) \/ RoundWrite(r)
          \/ Clear(r) \/ Insert(r) \/ Fail(r)

Spec == Init /\ [][Next]_vars

-----------------------------------------------------------------------------
(* Properties.                                                              *)

\* Every variable keeps its type.
TypeOK ==
    /\ entities \subseteq Entities
    /\ edges \subseteq Links /\ edges \subseteq entities \X entities
    /\ label \in [Entities -> Labels]
    /\ communities \subseteq [lead : Entities, size : Nat]
    /\ pc \in [Runs -> {"idle", "read", "write", "clear", "insert"}]
    /\ round \in [Runs -> 0..Rounds]
    /\ moves \in [Runs -> [Entities -> Labels]]
    /\ begun \in [Runs -> 0..MaxRuns]
    /\ changes \in 0..MaxChanges
    /\ seen \subseteq Links
    /\ alone \subseteq Runs

\* No edge that was live since the detection began leaves S or enters it.
Closed(S) == \A l \in seen : l[1] \in S <=> l[2] \in S

\* graph.go:241-243: a community is spread over live edges only, so two
\* entities share one only if edges live since the detection began connect
\* them, whatever other runs and writers of the graph do in between.
CommunitiesConnected ==
    \A S \in SUBSET Entities : Closed(S) =>
        \A e \in Entities : label[e] # Null => (e \in S <=> label[e] \in S)

\* graph.go:276: when a run that overlapped with no other has ended, the
\* communities table lists the clusters of the labels and nothing of an earlier
\* run, failed or not.
TableMatchesLabels ==
    [][\A r \in alone : Insert(r) => communities' = Clusters]_vars
=============================================================================
