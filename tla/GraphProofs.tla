------------------------------ MODULE GraphProofs ------------------------------
(* Proofs about Graph, and so about the detections, the mirrorings, the      *)
(* views, the walks and the spine of any entities and edges.                 *)
EXTENDS Graph, FiniteSetTheorems, WellFoundedInduction, SequenceTheorems, TLAPS

-----------------------------------------------------------------------------
(* The label that wins a round is one that was heard.                       *)

\* c wins over d when it has more votes, or as many and the smaller id.
Wins(v, c, d) == v[c] > v[d] \/ (v[c] = v[d] /\ c # Null /\ (d = Null \/ c < d))

\* Of finitely many labels with their votes one wins over all the others.
LEMMA Winner ==
    ASSUME NEW H, H \subseteq Nat, IsFiniteSet(H), H # {}, NEW v \in [H -> Nat]
    PROVE  \E c \in H : \A d \in H \ {c} : Wins(v, c, d)
<1> DEFINE Over(c) == {d \in H : Wins(v, d, c)}
           T == {Over(c) : c \in H}
           R == StrictSubsetOrdering(H)
<1>1. IsWellFoundedOn(R, SUBSET H)
  <2>1. FiniteSubsetsOf(H) = SUBSET H
    BY FS_FiniteSubsetsOfFinite
  <2> QED BY <2>1, FS_StrictSubsetOrderingWellFounded
<1>2. T \subseteq SUBSET H /\ T # {}
  OBVIOUS
<1>3. PICK x \in T : \A y \in T : ~ (<<y, x>> \in R)
  <2> HIDE DEF T, R
  <2> QED BY <1>1, <1>2, WFMin
<1>4. PICK c \in H : x = Over(c)
  BY <1>3
<1>5. \A d, e \in H : d # e => Wins(v, d, e) \/ Wins(v, e, d)
  BY DEF Wins, Null
<1>6. \A d \in H : ~ Wins(v, d, d)
  BY DEF Wins, Null
<1>7. \A d, e, f \in H : Wins(v, d, e) /\ Wins(v, e, f) => Wins(v, d, f)
  BY DEF Wins, Null
<1>8. ASSUME NEW d \in H \ {c}, ~ Wins(v, c, d) PROVE FALSE
  <2>1. Wins(v, d, c)
    BY <1>5, <1>8
  <2>2. Over(d) \subseteq Over(c) /\ d \in Over(c) /\ d \notin Over(d)
    BY <2>1, <1>6, <1>7
  <2>3. Over(d) \in SUBSET H /\ Over(c) \in SUBSET H /\ Over(d) # Over(c)
    BY <2>2
  <2>4. <<Over(d), Over(c)>> \in R
    <3> HIDE DEF Over
    <3> QED BY <2>2, <2>3 DEF StrictSubsetOrdering
  <2> QED BY <2>4, <1>3, <1>4
<1> QED BY <1>8

\* What the proofs need of the types of Communities.
Typed ==
    /\ entities \subseteq Entities /\ edges \subseteq entities \X entities
    /\ label \in [Entities -> Labels]
    /\ moves \in [Runs -> [Entities -> Labels]]
    /\ pc \in [Runs -> {"idle", "read", "write", "clear", "insert"}]

LEMMA BestIsHeard ==
    ASSUME Typed, NEW n \in Entities, Best(n) # Null
    PROVE  Best(n) \in Heard(n)
<1> DEFINE H == Heard(n)
           v == [c \in H |-> Cardinality(Votes(n, c))]
<1>1. H # {}
  BY DEF Best
<1>2. H \subseteq Nat /\ IsFiniteSet(H)
  <2>1. IsFiniteSet(Labels) /\ Labels \subseteq Nat
    BY EntitiesAssumption, FS_AddElement DEF Labels, Null
  <2>2. H \in SUBSET Labels
    BY DEF Heard
  <2> QED BY <2>1, <2>2, FS_Subset
<1>3. \A c \in H : Cardinality(Votes(n, c)) \in Nat
  <2>1. IsFiniteSet(Entities \X Entities)
    BY EntitiesAssumption, FS_Product
  <2>2. \A c : Votes(n, c) \in SUBSET (Entities \X Entities)
    BY DEF Votes, Typed
  <2> QED BY <2>1, <2>2, FS_Subset, FS_CardinalityType
<1>4. v \in [H -> Nat]
  BY <1>3
<1>5. PICK c \in H : \A d \in H \ {c} : Wins(v, c, d)
  <2> HIDE DEF H, v
  <2> QED BY <1>1, <1>2, <1>4, Winner
<1>6. \A d \in H \ {c} : Before(n, c, d)
  BY <1>2, <1>3, <1>5 DEF Wins, Before, Null
<1>7. Best(n) = CHOOSE b \in H : \A d \in H \ {b} : Before(n, b, d)
  BY <1>1 DEF Best
<1> QED BY <1>6, <1>7

-----------------------------------------------------------------------------
(* Communities are connected.                                               *)

\* What is spread keeps to its side of every set that no edge seen leaves.
Spread(f) ==
    \A S \in SUBSET Entities : Closed(S) =>
        \A e \in Entities : f[e] # Null => (e \in S <=> f[e] \in S)

\* An entity that is not there has no label, nor has one waiting for it; only
\* between its read and its write has a round labels to write.
Nothing ==
    /\ \A e \in Entities \ entities : label[e] = Null /\ \A r \in Runs : moves[r][e] = Null
    /\ \A r \in Runs : pc[r] # "write" => moves[r] = Keep

LabelInv ==
    /\ Typed /\ Nothing /\ edges \subseteq seen
    /\ Spread(label) /\ \A r \in Runs : Spread(moves[r])

\* The types that the mirror's entities need.
MirrorFields == {"phase", "todo", "links", "checked", "wanted"}
MirrorShape ==
    /\ DOMAIN mirror = Mirrors
    /\ \A r \in Mirrors : DOMAIN mirror[r] = MirrorFields /\ mirror[r].todo \subseteq Entities

LEMMA LabelInitial == ASSUME ExplorerInit PROVE LabelInv /\ MirrorShape
<1>1. LabelInv
  BY DEF ExplorerInit, Init, LabelInv, Typed, Nothing, Spread, Keep, Labels
<1>2. MirrorShape
  BY DEF ExplorerInit, MirrorInit, MirrorShape, NoMirror, MirrorFields
<1> QED BY <1>1, <1>2

\* What is spread is so as well when more edges have been seen.
LEMMA SpreadMore ==
    ASSUME seen \subseteq seen', NEW f, Spread(f)
    PROVE  \A S \in SUBSET Entities : Closed(S)' =>
               \A e \in Entities : f[e] # Null => (e \in S <=> f[e] \in S)
BY DEF Spread, Closed

\* Steps that write no label.
LEMMA LabelsKept ==
    ASSUME LabelInv, Typed', entities \subseteq entities', edges' \subseteq seen', seen \subseteq seen',
           label' = label,
           \A r \in Runs : \/ moves'[r] = moves[r] /\ (pc[r] = "write" => pc'[r] = "write")
                           \/ moves'[r] = Keep
    PROVE  LabelInv'
<1>1. Nothing'
  <2>1. ASSUME NEW e \in Entities, e \notin entities', NEW r \in Runs PROVE moves'[r][e] = Null
    <3>1. moves[r][e] = Null
      BY <2>1 DEF LabelInv, Nothing
    <3>2. Keep[e] = Null
      BY DEF Keep
    <3> QED BY <3>1, <3>2
  <2>2. ASSUME NEW e \in Entities, e \notin entities' PROVE label'[e] = Null
    BY <2>2 DEF LabelInv, Nothing
  <2>3. ASSUME NEW r \in Runs, pc'[r] # "write" PROVE moves'[r] = Keep
    BY <2>3 DEF LabelInv, Nothing
  <2>4. Keep' = Keep
    BY DEF Keep
  <2> QED BY <2>1, <2>2, <2>3, <2>4 DEF Nothing
<1>2. Spread(label)'
  BY SpreadMore DEF LabelInv, Spread
<1>3. ASSUME NEW r \in Runs PROVE Spread(moves[r])'
  <2>1. CASE moves'[r] = moves[r]
    BY <2>1, SpreadMore DEF LabelInv, Spread
  <2>2. CASE moves'[r] = Keep
    BY <2>2 DEF Spread, Keep
  <2> QED BY <2>1, <2>2
<1> QED BY <1>1, <1>2, <1>3 DEF LabelInv

LEMMA WriterStep ==
    ASSUME LabelInv, (\E e \in Entities : AddEntity(e)) \/ (\E l \in Links : ChangeEdge(l))
    PROVE  LabelInv'
<1>1. ASSUME NEW e \in Entities, AddEntity(e) PROVE LabelInv'
  BY <1>1, LabelsKept DEF AddEntity, LabelInv, Typed
<1>2. ASSUME NEW l \in Links, ChangeEdge(l) PROVE LabelInv'
  <2>1. Typed' /\ edges' \subseteq seen' /\ seen \subseteq seen'
    BY <1>2 DEF ChangeEdge, LabelInv, Typed
  <2> QED BY <1>2, <2>1, LabelsKept DEF ChangeEdge
<1> QED BY <1>1, <1>2

LEMMA SeedStep ==
    ASSUME LabelInv, NEW r \in Runs, Seed(r) PROVE LabelInv'
<1>1. /\ label' = [e \in Entities |-> IF e \in entities THEN e ELSE label[e]]
      /\ seen' = IF Active = {} THEN edges ELSE seen
      /\ pc[r] = "idle" /\ pc' = [pc EXCEPT ![r] = IF Rounds = 0 THEN "clear" ELSE "read"]
      /\ entities' = entities /\ edges' = edges /\ moves' = moves
  BY DEF Seed, graph
<1>2. Typed'
  BY <1>1 DEF LabelInv, Typed, Labels
<1>3. Nothing'
  BY <1>1 DEF LabelInv, Nothing, Typed
<1>4. edges' \subseteq seen'
  BY <1>1 DEF LabelInv
<1>5. Spread(label)'
  <2>1. CASE Active = {}
    BY <1>1, <2>1 DEF Spread, LabelInv, Nothing
  <2>2. CASE Active # {}
    <3>1. seen' = seen
      BY <1>1, <2>2
    <3> QED BY <1>1, <3>1 DEF Spread, Closed, LabelInv
  <2> QED BY <2>1, <2>2
<1>6. ASSUME NEW q \in Runs PROVE Spread(moves[q])'
  <2>1. CASE Active = {}
    <3>1. moves'[q] = Keep
      BY <1>1, <2>1 DEF Active, LabelInv, Nothing
    <3> QED BY <3>1 DEF Spread, Keep
  <2>2. CASE Active # {}
    <3>1. seen' = seen
      BY <1>1, <2>2
    <3> QED BY <1>1, <3>1 DEF Spread, Closed, LabelInv
  <2> QED BY <2>1, <2>2
<1> QED BY <1>2, <1>3, <1>4, <1>5, <1>6 DEF LabelInv

\* The label that wins comes over an edge, from the same side.
LEMMA BestStays ==
    ASSUME LabelInv, NEW S \in SUBSET Entities, Closed(S), NEW n \in Entities, Best(n) # Null
    PROVE  n \in S <=> Best(n) \in S
<1>1. Best(n) \in Heard(n)
  BY BestIsHeard DEF LabelInv
<1>2. PICK l \in edges : n \in {l[1], l[2]} /\ label[Other(l, n)] = Best(n)
  BY <1>1 DEF Heard, Votes
<1>3. l[1] \in Entities /\ l[2] \in Entities /\ Other(l, n) \in Entities
  BY DEF LabelInv, Typed, Other
<1>4. l \in seen
  BY DEF LabelInv
<1>5. n \in S <=> Other(l, n) \in S
  BY <1>2, <1>4 DEF Closed, Other
<1>6. Other(l, n) \in S <=> label[Other(l, n)] \in S
  BY <1>2, <1>3 DEF LabelInv, Spread
<1> QED BY <1>2, <1>5, <1>6

LEMMA RoundReadStep ==
    ASSUME LabelInv, NEW r \in Runs, RoundRead(r) PROVE LabelInv'
<1> DEFINE next == [n \in Entities |-> IF n \in entities /\ label[n] # Best(n) THEN Best(n) ELSE Null]
<1>1. /\ moves' = [moves EXCEPT ![r] = next] /\ pc' = [pc EXCEPT ![r] = "write"]
      /\ entities' = entities /\ edges' = edges /\ label' = label /\ seen' = seen
  BY DEF RoundRead, graph
<1>2. \A n \in Entities : Best(n) \in Labels
  BY BestIsHeard DEF LabelInv, Heard, Labels
<1>3. next \in [Entities -> Labels] /\ \A e \in Entities \ entities : next[e] = Null
  BY <1>2 DEF Labels
<1>4. \A S \in SUBSET Entities : Closed(S) =>
        \A e \in Entities : next[e] # Null => (e \in S <=> next[e] \in S)
  BY BestStays
<1> HIDE DEF next
<1>5. /\ moves'[r] = next
      /\ \A q \in Runs : q # r => moves'[q] = moves[q] /\ pc'[q] = pc[q]
      /\ pc'[r] = "write"
  BY <1>1 DEF LabelInv, Typed
<1>6. Typed'
  BY <1>1, <1>3 DEF LabelInv, Typed
<1>7. Nothing'
  BY <1>1, <1>3, <1>5 DEF LabelInv, Nothing
<1>8. Spread(label)'
  BY <1>1 DEF LabelInv, Spread, Closed
<1>9. ASSUME NEW q \in Runs PROVE Spread(moves[q])'
  <2>1. CASE q = r
    BY <1>1, <1>4, <1>5, <2>1 DEF Spread, Closed
  <2>2. CASE q # r
    BY <1>1, <1>5, <2>2 DEF LabelInv, Spread, Closed
  <2> QED BY <2>1, <2>2
<1> QED BY <1>1, <1>6, <1>7, <1>8, <1>9 DEF LabelInv

LEMMA RoundWriteStep ==
    ASSUME LabelInv, NEW r \in Runs, RoundWrite(r) PROVE LabelInv'
<1>1. /\ label' = [n \in Entities |-> IF moves[r][n] # Null THEN moves[r][n] ELSE label[n]]
      /\ moves' = [moves EXCEPT ![r] = Keep]
      /\ pc' = [pc EXCEPT ![r] = IF round[r] + 1 = Rounds THEN "clear" ELSE "read"]
      /\ entities' = entities /\ edges' = edges /\ seen' = seen
  BY DEF RoundWrite, graph
<1>2. Keep \in [Entities -> Labels]
  BY DEF Keep, Labels
<1>3. Typed'
  BY <1>1, <1>2 DEF LabelInv, Typed
<1>4. /\ moves'[r] = Keep /\ pc'[r] # "write"
      /\ \A q \in Runs : q # r => moves'[q] = moves[q] /\ pc'[q] = pc[q]
  BY <1>1 DEF LabelInv, Typed
<1>5. Nothing'
  BY <1>1, <1>4 DEF LabelInv, Nothing, Keep
<1>6. Spread(label)'
  BY <1>1 DEF LabelInv, Spread, Closed
<1>7. ASSUME NEW q \in Runs PROVE Spread(moves[q])'
  <2>1. CASE q = r
    BY <1>4, <2>1 DEF Spread, Keep
  <2>2. CASE q # r
    BY <1>1, <1>4, <2>2 DEF LabelInv, Spread, Closed
  <2> QED BY <2>1, <2>2
<1> QED BY <1>1, <1>3, <1>5, <1>6, <1>7 DEF LabelInv

LEMMA EndStep ==
    ASSUME LabelInv, NEW r \in Runs, Clear(r) \/ Insert(r) \/ Fail(r) PROVE LabelInv'
<1>1. /\ entities' = entities /\ edges' = edges /\ label' = label /\ seen' = seen
      /\ pc' = [pc EXCEPT ![r] = "insert"] \/ pc' = [pc EXCEPT ![r] = "idle"]
      /\ moves' = moves \/ moves' = [moves EXCEPT ![r] = Keep]
  BY DEF Clear, Insert, Fail, graph
<1>2. Keep \in [Entities -> Labels]
  BY DEF Keep, Labels
<1>3. Typed'
  BY <1>1, <1>2 DEF LabelInv, Typed
<1>4. \A q \in Runs : \/ moves'[q] = moves[q] /\ (pc[q] = "write" => pc'[q] = "write")
                      \/ moves'[q] = Keep
  BY <1>1 DEF Clear, Insert, Fail, LabelInv, Typed
<1> QED BY <1>1, <1>3, <1>4, LabelsKept DEF LabelInv

\* The mirror brings in entities that the service named, and nothing else that
\* concerns the labels.
LEMMA MirrorStep ==
    ASSUME LabelInv, MirrorShape, MirrorNext
    PROVE  LabelInv' /\ MirrorShape' /\ entities \subseteq entities'
<1>1. CASE DeleteBrain
  <2>1. UNCHANGED <<entities, edges, label, pc, moves, seen, mirror>>
    BY <1>1 DEF DeleteBrain
  <2>2. Typed'
    BY <2>1 DEF LabelInv, Typed
  <2> QED BY <2>1, <2>2, LabelsKept DEF LabelInv, MirrorShape
<1>2. ASSUME NEW r \in Mirrors, MirrorUpsert(r), mirror[r].todo # {}
      PROVE  LabelInv' /\ MirrorShape' /\ entities \subseteq entities'
  <2>1. PICK e \in mirror[r].todo :
          /\ entities' = entities \cup {e}
          /\ mirror' = [mirror EXCEPT ![r] = [mirror[r] EXCEPT !.todo = @ \ {e}]]
    BY <1>2 DEF MirrorUpsert, Becomes
  <2>2. UNCHANGED <<edges, label, pc, moves, seen>>
    BY <1>2 DEF MirrorUpsert, Detection
  <2>3. MirrorShape'
    BY <2>1 DEF MirrorShape, MirrorFields
  <2>4. Typed'
    BY <2>1, <2>2 DEF LabelInv, Typed, MirrorShape
  <2> QED BY <2>1, <2>2, <2>3, <2>4, LabelsKept DEF LabelInv
<1>3. ASSUME NEW r \in Mirrors,
             MirrorFetch(r) \/ (MirrorUpsert(r) /\ mirror[r].todo = {}) \/ MirrorCheck(r)
                \/ MirrorLink(r) \/ MirrorEnd(r) \/ MirrorFails(r)
      PROVE  LabelInv' /\ MirrorShape' /\ entities \subseteq entities'
  <2>1. UNCHANGED <<entities, edges, label, pc, moves, seen>>
    BY <1>3 DEF MirrorFetch, MirrorUpsert, MirrorCheck, MirrorLink, MirrorEnd, MirrorFails, Detection
  <2>2. Typed'
    BY <2>1 DEF LabelInv, Typed
  <2>3. PICK v : Becomes(r, v) /\ DOMAIN v = MirrorFields /\ v.todo \subseteq Entities
    <3>1. DOMAIN mirror[r] = MirrorFields /\ mirror[r].todo \subseteq Entities
      BY DEF MirrorShape
    <3>2. DOMAIN NoMirror = MirrorFields /\ NoMirror.todo = {}
      BY DEF NoMirror, MirrorFields
    <3>3. CASE MirrorFetch(r)
      <4>1. PICK g \in CogneeGraphs : \E reading \in Readings(g) :
              Becomes(r, [NoMirror EXCEPT !.phase = "entities", !.todo = EntityNames(g),
                            !.links = MemoryEntityLinks(g, reading), !.wanted = Owed(g, reading)])
        BY <3>3 DEF MirrorFetch
      <4>2. EntityNames(g) \subseteq Entities
        BY MirrorAssumption DEF EntityNames, IsEntity
      <4>3. PICK reading \in Readings(g) :
              Becomes(r, [NoMirror EXCEPT !.phase = "entities", !.todo = EntityNames(g),
                            !.links = MemoryEntityLinks(g, reading), !.wanted = Owed(g, reading)])
        BY <4>1
      <4> DEFINE v == [NoMirror EXCEPT !.phase = "entities", !.todo = EntityNames(g),
                            !.links = MemoryEntityLinks(g, reading), !.wanted = Owed(g, reading)]
      <4>4. DOMAIN v = MirrorFields /\ v.todo = EntityNames(g)
        BY <3>2 DEF MirrorFields
      <4> HIDE DEF v
      <4> QED BY <4>2, <4>3, <4>4 DEF v
    <3>4. CASE MirrorUpsert(r) /\ mirror[r].todo = {}
      <4> DEFINE v == [mirror[r] EXCEPT !.phase = "check"]
      <4>1. Becomes(r, v)
        BY <3>4 DEF MirrorUpsert
      <4>2. DOMAIN v = MirrorFields /\ v.todo = mirror[r].todo
        BY <3>1 DEF MirrorFields
      <4> HIDE DEF v
      <4> QED BY <3>1, <4>1, <4>2
    <3>5. CASE MirrorCheck(r)
      <4>1. PICK l \in mirror[r].links :
              \/ Becomes(r, [mirror[r] EXCEPT !.links = @ \ {l}, !.checked = {l}, !.phase = "link"])
              \/ Becomes(r, [mirror[r] EXCEPT !.links = @ \ {l}])
              \/ Becomes(r, [mirror[r] EXCEPT !.links = @ \ {l}, !.wanted = @ \ {l}])
        BY <3>5 DEF MirrorCheck
      <4> DEFINE u == [mirror[r] EXCEPT !.links = @ \ {l}, !.checked = {l}, !.phase = "link"]
                 v == [mirror[r] EXCEPT !.links = @ \ {l}]
                 w == [mirror[r] EXCEPT !.links = @ \ {l}, !.wanted = @ \ {l}]
      <4>2. DOMAIN u = MirrorFields /\ u.todo = mirror[r].todo
        BY <3>1 DEF MirrorFields
      <4>3. DOMAIN v = MirrorFields /\ v.todo = mirror[r].todo
        BY <3>1 DEF MirrorFields
      <4>4. DOMAIN w = MirrorFields /\ w.todo = mirror[r].todo
        BY <3>1 DEF MirrorFields
      <4>5. Becomes(r, u) \/ Becomes(r, v) \/ Becomes(r, w)
        BY <4>1
      <4> HIDE DEF u, v, w
      <4> QED BY <3>1, <4>2, <4>3, <4>4, <4>5
    <3>6. CASE MirrorLink(r)
      <4> DEFINE v == [mirror[r] EXCEPT !.checked = {}, !.phase = "check"]
      <4>1. Becomes(r, v)
        BY <3>6 DEF MirrorLink
      <4>2. DOMAIN v = MirrorFields /\ v.todo = mirror[r].todo
        BY <3>1 DEF MirrorFields
      <4> HIDE DEF v
      <4> QED BY <3>1, <4>1, <4>2
    <3>7. CASE MirrorEnd(r) \/ MirrorFails(r)
      BY <3>2, <3>7 DEF MirrorEnd, MirrorFails
    <3> QED BY <1>3, <3>3, <3>4, <3>5, <3>6, <3>7
  <2>4. MirrorShape'
    BY <2>3 DEF MirrorShape, Becomes
  <2> QED BY <2>1, <2>2, <2>4, LabelsKept DEF LabelInv
<1> QED BY <1>1, <1>2, <1>3 DEF MirrorNext

\* A request of the explorer reads; it counts as one of its caller.
LEMMA ViewStep ==
    ASSUME LabelInv, MirrorShape, NEW r \in Runs,
           \/ \E limit \in ViewLimits : View(r, limit)
           \/ ViewSample(r) \/ ViewCount(r) \/ ViewRelate(r) \/ ViewEdges(r) \/ ViewMentions(r)
    PROVE  LabelInv' /\ MirrorShape' /\ UNCHANGED entities
<1>1. UNCHANGED <<entities, edges, label, pc, moves, seen, mirror>>
  BY DEF View, ViewSample, ViewCount, ViewRelate, ViewEdges, ViewMentions, Advance, graph, vars, mirrorVars
<1>2. Typed'
  BY <1>1 DEF LabelInv, Typed
<1> QED BY <1>1, <1>2, LabelsKept DEF LabelInv, MirrorShape

LEMMA LabelStep ==
    ASSUME LabelInv, MirrorShape, [ExplorerNext]_explorerVars
    PROVE  LabelInv' /\ MirrorShape' /\ entities \subseteq entities'
<1>1. CASE Next /\ UNCHANGED <<mirrorVars, view>>
  <2>1. MirrorShape'
    BY <1>1 DEF MirrorShape, mirrorVars
  <2>2. entities \subseteq entities'
    BY <1>1 DEF Next, AddEntity, ChangeEdge, Seed, RoundRead, RoundWrite, Clear, Insert, Fail, graph
  <2>3. LabelInv'
    BY <1>1, WriterStep, SeedStep, RoundReadStep, RoundWriteStep, EndStep DEF Next
  <2> QED BY <2>1, <2>2, <2>3
<1>2. CASE MirrorNext /\ UNCHANGED view
  BY <1>2, MirrorStep
<1>3. ASSUME NEW r \in Runs,
             \/ \E limit \in ViewLimits : View(r, limit)
             \/ ViewSample(r) \/ ViewCount(r) \/ ViewRelate(r) \/ ViewEdges(r) \/ ViewMentions(r)
      PROVE  LabelInv' /\ MirrorShape' /\ entities \subseteq entities'
  BY <1>3, ViewStep
<1>4. CASE UNCHANGED explorerVars
  <2>1. UNCHANGED <<entities, edges, label, pc, moves, seen, mirror>>
    BY <1>4 DEF explorerVars, vars, mirrorVars
  <2>2. Typed'
    BY <2>1 DEF LabelInv, Typed
  <2> QED BY <2>1, <2>2, LabelsKept DEF LabelInv, MirrorShape
<1> QED BY <1>1, <1>2, <1>3, <1>4 DEF ExplorerNext

\* graph.go:241-243: whatever other runs, writers of the graph and mirrorings do
\* between the statements of a detection, and whichever of them fail, a label
\* comes to an entity over edges that were live since the detection began.
THEOREM LabelsFollowEdges == ExplorerSpec => []CommunitiesConnected
<1>1. ExplorerInit => LabelInv /\ MirrorShape
  BY LabelInitial
<1>2. LabelInv /\ MirrorShape /\ [ExplorerNext]_explorerVars => (LabelInv /\ MirrorShape)'
  BY LabelStep
<1>3. LabelInv => CommunitiesConnected
  BY DEF LabelInv, Spread, CommunitiesConnected
<1> QED BY <1>1, <1>2, <1>3, PTL DEF ExplorerSpec

-----------------------------------------------------------------------------
(* The mirror is true.                                                      *)

\* The neighbours among ids.
Near(ids, H, d) == {b \in ids : <<d, b>> \in H}

\* A recursive function on 0..2 exists, so it is what its equations say.
LEMMA BallOfTwo ==
    ASSUME NEW ids, NEW H, NEW d, NEW n \in Ball(ids, H, d, maxHops)
    PROVE  \/ n = d \/ n \in Near(ids, H, d)
           \/ \E m \in Near(ids, H, d) : n \in ids /\ <<m, n>> \in H
<1> DEFINE wider(S) == S \cup {b \in ids : \E m \in S : <<m, b>> \in H}
           G(f) == [k \in 0..2 |-> IF k = 0 THEN ids \cap {d} ELSE wider(f[k - 1])]
           B0 == ids \cap {d}
           B1 == wider(B0)
           B2 == wider(B1)
           B == CHOOSE f : f = G(f)
<1>1. Ball(ids, H, d, maxHops) = B[2]
  BY DEF Ball, maxHops
<1>2. \E f : f = G(f)
  <2> DEFINE w == [k \in 0..2 |-> IF k = 0 THEN B0 ELSE IF k = 1 THEN B1 ELSE B2]
  <2>1. w[0] = B0 /\ w[1] = B1 /\ w[2] = B2
    <3> HIDE DEF B0, B1, B2
    <3> QED OBVIOUS
  <2>2. ASSUME NEW k \in 0..2 PROVE w[k] = G(w)[k]
    <3> HIDE DEF w, wider
    <3>1. CASE k = 0
      BY <2>1, <3>1
    <3>2. CASE k = 1
      BY <2>1, <3>2
    <3>3. CASE k = 2
      BY <2>1, <3>3
    <3> QED BY <3>1, <3>2, <3>3
  <2>3. w = [k \in 0..2 |-> G(w)[k]]
    <3> HIDE DEF G, B0, B1, B2
    <3> QED BY <2>2
  <2>4. w = G(w)
    <3> HIDE DEF w
    <3> QED BY <2>3
  <2> QED BY <2>4
<1>3. B = G(B)
  <2> HIDE DEF G
  <2> QED BY <1>2
<1>4. B[0] = B0
  <2> HIDE DEF B, wider
  <2> QED BY <1>3
<1>5. B[1] = B1
  <2> HIDE DEF B, wider, B0
  <2> QED BY <1>3, <1>4
<1>6. B[2] = B2
  <2> HIDE DEF B, wider, B0, B1
  <2> QED BY <1>3, <1>5
<1> HIDE DEF B
<1> QED BY <1>1, <1>6 DEF Near

LEMMA ReachedInTwo ==
    ASSUME NEW g, NEW d, NEW n, n # d,
           \/ n \in Near(g.ids, Hops(g.edges, "both"), d)
           \/ \E m \in Near(g.ids, Hops(g.edges, "both"), d) :
                 n \in g.ids /\ <<m, n>> \in Hops(g.edges, "both")
    PROVE  n \in Reached(g, d)
<1> DEFINE H == Hops(g.edges, "both")
           new(F, V) == {b \in g.ids \ V : \E a \in F : <<a, b>> \in H}
           G(f) == [k \in 0..2 |->
                       IF k = 0 THEN [frontier |-> {d}, visited |-> {d}]
                       ELSE [frontier |-> new(f[k - 1].frontier, f[k - 1].visited),
                             visited |-> f[k - 1].visited \cup new(f[k - 1].frontier, f[k - 1].visited)]]
           N1 == new({d}, {d})
           V1 == {d} \cup N1
           N2 == new(N1, V1)
           B0 == [frontier |-> {d}, visited |-> {d}]
           B1 == [frontier |-> N1, visited |-> V1]
           B2 == [frontier |-> N2, visited |-> V1 \cup N2]
           B == CHOOSE f : f = G(f)
<1>1. Reached(g, d) = B[2].visited \ {d}
  BY DEF Reached, maxHops
<1>2. \E f : f = G(f)
  <2> DEFINE w == [k \in 0..2 |-> IF k = 0 THEN B0 ELSE IF k = 1 THEN B1 ELSE B2]
  <2>1. w[0] = B0 /\ w[1] = B1 /\ w[2] = B2
    <3> HIDE DEF B0, B1, B2
    <3> QED OBVIOUS
  <2>2. ASSUME NEW k \in 0..2 PROVE w[k] = G(w)[k]
    <3> HIDE DEF w, new
    <3>1. CASE k = 0
      BY <2>1, <3>1
    <3>2. CASE k = 1
      BY <2>1, <3>2
    <3>3. CASE k = 2
      BY <2>1, <3>3
    <3> QED BY <3>1, <3>2, <3>3
  <2>3. w = [k \in 0..2 |-> G(w)[k]]
    <3> HIDE DEF G, B0, B1, B2
    <3> QED BY <2>2
  <2>4. w = G(w)
    <3> HIDE DEF w
    <3> QED BY <2>3
  <2> QED BY <2>4
<1>3. B = G(B)
  <2> HIDE DEF G
  <2> QED BY <1>2
<1>4. B[0] = B0
  <2> HIDE DEF B, new
  <2> QED BY <1>3
<1>5. B[1] = B1
  <2> HIDE DEF B, new
  <2> QED BY <1>3, <1>4
<1>6. B[2] = B2
  <2>1. B[2] = [frontier |-> new(B[1].frontier, B[1].visited),
                visited |-> B[1].visited \cup new(B[1].frontier, B[1].visited)]
    <3> HIDE DEF B, new
    <3> QED BY <1>3
  <2>2. B[1].frontier = N1 /\ B[1].visited = V1
    <3> HIDE DEF B, N1, V1
    <3> QED BY <1>5
  <2> HIDE DEF B, new, N1, V1
  <2> QED BY <2>1, <2>2
<1> HIDE DEF B
<1>7. n \in V1 \cup N2
  BY DEF Near
<1> HIDE DEF N1, V1, N2
<1> QED BY <1>1, <1>6, <1>7

\* The search finds the entities that are within two edges.
LEMMA OwedIsFound ==
    ASSUME NEW g, NEW reading PROVE Owed(g, reading) \subseteq MemoryEntityLinks(g, reading)
<1> SUFFICES ASSUME NEW l \in Owed(g, reading) PROVE l \in MemoryEntityLinks(g, reading)
  OBVIOUS
<1>1. PICK d \in DOMAIN reading : \E n \in DOMAIN g.label :
        /\ reading[d] = l[1] /\ g.label[n] = l[2] /\ IsEntity(g, n)
        /\ n # d /\ n \in Ball(g.ids, Hops(g.edges, "both"), d, maxHops)
  BY DEF Owed
<1>2. PICK n \in DOMAIN g.label :
        /\ reading[d] = l[1] /\ g.label[n] = l[2] /\ IsEntity(g, n)
        /\ n # d /\ n \in Ball(g.ids, Hops(g.edges, "both"), d, maxHops)
  BY <1>1
<1>3. n \in Reached(g, d)
  BY <1>2, BallOfTwo, ReachedInTwo
<1>4. l = <<reading[d], g.label[n]>>
  BY <1>2 DEF Owed
<1> QED BY <1>2, <1>3, <1>4 DEF MemoryEntityLinks

LEMMA LinksNameEntities ==
    ASSUME NEW g \in CogneeGraphs, NEW reading \in Readings(g)
    PROVE  MemoryEntityLinks(g, reading) \subseteq Memories \X EntityNames(g)
<1>1. \A d \in DOMAIN reading : reading[d] \in Memories
  BY DEF Readings
<1> QED BY <1>1 DEF MemoryEntityLinks, EntityNames

\* A mirroring m, in a brain with the entities E, of which the rows `had' are
\* left and the links `linked' are made: what it will link is there or will be,
\* what it is about to link is the brain's, and what it owes is not lost.
Fits(m, E, had, linked) ==
    /\ DOMAIN m = MirrorFields /\ m.todo \subseteq Entities
    /\ m.phase # "entities" => m.todo = {}
    /\ m.phase # "link" => m.checked = {}
    /\ m.links \subseteq Memories \X (E \cup m.todo)
    /\ m.checked \subseteq Own \X E
    /\ had = Own => {l \in m.wanted : l[1] \in Own} \subseteq m.links \cup m.checked \cup linked

MirrorInv ==
    /\ memories \subseteq Own /\ mentions \subseteq Own \X entities
    /\ DOMAIN mirror = Mirrors
    /\ \A r \in Mirrors : Fits(mirror[r], entities, memories, mentions)

LEMMA FitsOn ==
    ASSUME NEW m, NEW E, NEW had, NEW linked, Fits(m, E, had, linked),
           NEW F, NEW have, NEW joined, E \subseteq F, have = Own => had = Own, linked \subseteq joined
    PROVE  Fits(m, F, have, joined)
BY DEF Fits

\* A step that replaces the mirroring of one caller.
LEMMA OneMirror ==
    ASSUME MirrorInv, NEW r \in Mirrors, NEW v, Becomes(r, v), entities \subseteq entities',
           memories' = memories, mentions \subseteq mentions', mentions' \subseteq Own \X entities',
           Fits(v, entities', memories', mentions')
    PROVE  MirrorInv'
<1>1. DOMAIN mirror' = Mirrors /\ mirror'[r] = v /\ \A q \in Mirrors : q # r => mirror'[q] = mirror[q]
  BY DEF MirrorInv, Becomes
<1>2. ASSUME NEW q \in Mirrors, q # r PROVE Fits(mirror'[q], entities', memories', mentions')
  <2>1. Fits(mirror[q], entities, memories, mentions)
    BY DEF MirrorInv
  <2>2. Fits(mirror[q], entities', memories', mentions')
    BY <2>1, FitsOn
  <2> QED BY <1>1, <1>2, <2>2
<1>3. memories' \subseteq Own
  BY DEF MirrorInv
<1> QED BY <1>1, <1>2, <1>3 DEF MirrorInv

LEMMA NothingFits == ASSUME NEW E, NEW had, NEW linked PROVE Fits(NoMirror, E, had, linked)
BY DEF Fits, NoMirror, MirrorFields

LEMMA MirrorInvStep ==
    ASSUME MirrorInv, MirrorNext PROVE MirrorInv'
<1>1. CASE DeleteBrain
  <2>1. /\ memories # {} /\ memories' = {}
        /\ UNCHANGED <<entities, mentions, mirror>>
    BY <1>1 DEF DeleteBrain
  <2>2. memories' # Own
    BY <2>1 DEF MirrorInv
  <2>3. ASSUME NEW r \in Mirrors PROVE Fits(mirror'[r], entities', memories', mentions')
    <3>1. Fits(mirror[r], entities, memories, mentions)
      BY DEF MirrorInv
    <3> QED BY <2>1, <2>2, <3>1, FitsOn
  <2> QED BY <2>1, <2>3 DEF MirrorInv
<1> SUFFICES ASSUME NEW r \in Mirrors,
                    MirrorFetch(r) \/ MirrorUpsert(r) \/ MirrorCheck(r) \/ MirrorLink(r)
                       \/ MirrorEnd(r) \/ MirrorFails(r)
             PROVE  MirrorInv'
  BY <1>1 DEF MirrorNext
<1> DEFINE m == mirror[r]
<1>2. Fits(m, entities, memories, mentions)
  BY DEF MirrorInv
<1>3. mentions \subseteq Own \X entities /\ memories \subseteq Own
  BY DEF MirrorInv
<1>4. CASE MirrorFetch(r)
  <2>1. UNCHANGED <<entities, memories, mentions>>
    BY <1>4 DEF MirrorFetch
  <2>2. PICK g \in CogneeGraphs : \E reading \in Readings(g) :
          Becomes(r, [NoMirror EXCEPT !.phase = "entities", !.todo = EntityNames(g),
                        !.links = MemoryEntityLinks(g, reading), !.wanted = Owed(g, reading)])
    BY <1>4 DEF MirrorFetch
  <2>3. PICK reading \in Readings(g) :
          Becomes(r, [NoMirror EXCEPT !.phase = "entities", !.todo = EntityNames(g),
                        !.links = MemoryEntityLinks(g, reading), !.wanted = Owed(g, reading)])
    BY <2>2
  <2> DEFINE v == [NoMirror EXCEPT !.phase = "entities", !.todo = EntityNames(g),
                        !.links = MemoryEntityLinks(g, reading), !.wanted = Owed(g, reading)]
  <2>4. /\ DOMAIN v = MirrorFields /\ v.todo = EntityNames(g) /\ v.phase = "entities"
        /\ v.checked = {} /\ v.links = MemoryEntityLinks(g, reading) /\ v.wanted = Owed(g, reading)
    BY DEF NoMirror, MirrorFields
  <2>5. EntityNames(g) \subseteq Entities
    BY MirrorAssumption DEF EntityNames, IsEntity
  <2> HIDE DEF v
  <2>6. Fits(v, entities, memories, mentions)
    BY <2>4, <2>5, OwedIsFound, LinksNameEntities DEF Fits
  <2> QED BY <1>3, <2>1, <2>3, <2>6, OneMirror DEF v
<1>5. CASE MirrorUpsert(r) /\ m.todo = {}
  <2> DEFINE v == [m EXCEPT !.phase = "check"]
  <2>1. Becomes(r, v) /\ UNCHANGED <<entities, memories, mentions>> /\ m.phase = "entities"
    BY <1>5 DEF MirrorUpsert, At
  <2>2. /\ DOMAIN v = MirrorFields /\ v.todo = m.todo /\ v.phase = "check"
        /\ v.checked = m.checked /\ v.links = m.links /\ v.wanted = m.wanted
    BY <1>2 DEF Fits, MirrorFields
  <2> HIDE DEF v
  <2>3. Fits(v, entities, memories, mentions)
    <3> HIDE DEF m
    <3> QED BY <1>2, <1>5, <2>1, <2>2 DEF Fits
  <2> QED BY <1>3, <2>1, <2>3, OneMirror
<1>6. CASE MirrorUpsert(r) /\ m.todo # {}
  <2>1. PICK e \in m.todo : entities' = entities \cup {e} /\ Becomes(r, [m EXCEPT !.todo = @ \ {e}])
    BY <1>6 DEF MirrorUpsert
  <2>2. UNCHANGED <<memories, mentions>> /\ m.phase = "entities"
    BY <1>6 DEF MirrorUpsert, At
  <2> DEFINE v == [m EXCEPT !.todo = @ \ {e}]
  <2>3. /\ DOMAIN v = MirrorFields /\ v.todo = m.todo \ {e} /\ v.phase = m.phase
        /\ v.checked = m.checked /\ v.links = m.links /\ v.wanted = m.wanted
    BY <1>2 DEF Fits, MirrorFields
  <2> HIDE DEF v
  <2>4. Fits(v, entities', memories', mentions')
    <3> HIDE DEF m
    <3> QED BY <1>2, <2>1, <2>2, <2>3 DEF Fits
  <2> QED BY <1>3, <2>1, <2>2, <2>4, OneMirror DEF v
<1>7. CASE MirrorCheck(r)
  <2>1. PICK l \in m.links :
          \/ l[1] \in memories
             /\ Becomes(r, [m EXCEPT !.links = @ \ {l}, !.checked = {l}, !.phase = "link"])
          \/ l[1] \notin memories /\ Becomes(r, [m EXCEPT !.links = @ \ {l}])
          \/ Becomes(r, [m EXCEPT !.links = @ \ {l}, !.wanted = @ \ {l}])
    BY <1>7 DEF MirrorCheck
  <2>2. UNCHANGED <<entities, memories, mentions>> /\ m.phase = "check"
    BY <1>7 DEF MirrorCheck, At
  <2> DEFINE u == [m EXCEPT !.links = @ \ {l}, !.checked = {l}, !.phase = "link"]
             v == [m EXCEPT !.links = @ \ {l}]
             w == [m EXCEPT !.links = @ \ {l}, !.wanted = @ \ {l}]
  <2>3. /\ DOMAIN u = MirrorFields /\ u.todo = m.todo /\ u.phase = "link"
        /\ u.checked = {l} /\ u.links = m.links \ {l} /\ u.wanted = m.wanted
    BY <1>2 DEF Fits, MirrorFields
  <2>4. /\ DOMAIN v = MirrorFields /\ v.todo = m.todo /\ v.phase = m.phase
        /\ v.checked = m.checked /\ v.links = m.links \ {l} /\ v.wanted = m.wanted
    BY <1>2 DEF Fits, MirrorFields
  <2>5. /\ DOMAIN w = MirrorFields /\ w.todo = m.todo /\ w.phase = m.phase
        /\ w.checked = m.checked /\ w.links = m.links \ {l} /\ w.wanted = m.wanted \ {l}
    BY <1>2 DEF Fits, MirrorFields
  <2>6. l \in Memories \X entities
    <3> HIDE DEF m
    <3> QED BY <1>2, <2>2 DEF Fits
  <2>7. CASE l[1] \in memories /\ Becomes(r, u)
    <3> HIDE DEF m, u
    <3>1. l \in Own \X entities
      BY <1>3, <2>6, <2>7
    <3>2. Fits(u, entities, memories, mentions)
      BY <1>2, <2>2, <2>3, <3>1 DEF Fits
    <3> QED BY <1>3, <2>2, <2>7, <3>2, OneMirror
  <2>8. CASE l[1] \notin memories /\ Becomes(r, v)
    <3> HIDE DEF m, v
    <3>1. Fits(v, entities, memories, mentions)
      BY <1>2, <2>2, <2>4, <2>8 DEF Fits
    <3> QED BY <1>3, <2>2, <2>8, <3>1, OneMirror
  <2>9. CASE Becomes(r, w)
    <3> HIDE DEF m, w
    <3>1. Fits(w, entities, memories, mentions)
      BY <1>2, <2>2, <2>5 DEF Fits
    <3> QED BY <1>3, <2>2, <2>9, <3>1, OneMirror
  <2> QED BY <2>1, <2>7, <2>8, <2>9
<1>8. CASE MirrorLink(r)
  <2> DEFINE v == [m EXCEPT !.checked = {}, !.phase = "check"]
  <2>1. /\ Becomes(r, v) /\ mentions' = mentions \cup m.checked
        /\ UNCHANGED <<entities, memories>> /\ m.phase = "link"
    BY <1>8 DEF MirrorLink, At
  <2>2. /\ DOMAIN v = MirrorFields /\ v.todo = m.todo /\ v.phase = "check"
        /\ v.checked = {} /\ v.links = m.links /\ v.wanted = m.wanted
    BY <1>2 DEF Fits, MirrorFields
  <2> HIDE DEF v, m
  <2>3. Fits(v, entities', memories', mentions')
    BY <1>2, <2>1, <2>2 DEF Fits
  <2>4. mentions' \subseteq Own \X entities'
    BY <1>2, <1>3, <2>1 DEF Fits
  <2> QED BY <2>1, <2>3, <2>4, OneMirror
<1>9. CASE MirrorEnd(r) \/ MirrorFails(r)
  <2>1. Becomes(r, NoMirror) /\ UNCHANGED <<entities, memories, mentions>>
    BY <1>9 DEF MirrorEnd, MirrorFails
  <2> QED BY <1>3, <2>1, NothingFits, OneMirror
<1> QED BY <1>4, <1>5, <1>6, <1>7, <1>8, <1>9

\* Everybody else lets the mentions be, and the entities grow.
LEMMA MirrorInvKept ==
    ASSUME LabelInv, MirrorShape, MirrorInv, [ExplorerNext]_explorerVars PROVE MirrorInv'
<1>1. CASE MirrorNext
  BY <1>1, MirrorInvStep
<1>2. CASE ~ MirrorNext
  <2>1. UNCHANGED mirrorVars
    BY <1>2 DEF ExplorerNext, explorerVars, View, ViewSample, ViewCount, ViewRelate, ViewEdges,
                ViewMentions, Advance
  <2>2. UNCHANGED <<memories, mentions, mirror>>
    BY <2>1 DEF mirrorVars
  <2>3. entities \subseteq entities'
    BY LabelStep
  <2>4. ASSUME NEW r \in Mirrors PROVE Fits(mirror'[r], entities', memories', mentions')
    <3>1. Fits(mirror[r], entities, memories, mentions)
      BY DEF MirrorInv
    <3> QED BY <2>2, <2>3, <3>1, FitsOn
  <2> QED BY <2>2, <2>3, <2>4 DEF MirrorInv
<1> QED BY <1>1, <1>2

LEMMA MirrorInitial == ASSUME ExplorerInit PROVE MirrorInv
<1>1. memories = Own /\ mentions = {} /\ DOMAIN mirror = Mirrors /\ \A r \in Mirrors : mirror[r] = NoMirror
  BY DEF ExplorerInit, MirrorInit
<1> QED BY <1>1, NothingFits DEF MirrorInv

\* mirror.go:29-35: whatever the service answers and whenever a mirroring fails or
\* the brain is deleted, no memory of another brain is linked; and a mirroring
\* that comes to its end has linked each memory to all the entities near it.
THEOREM MirrorKeepsToTheBrain == ExplorerSpec => MirrorIsTrue
<1> DEFINE Inv == LabelInv /\ MirrorShape /\ MirrorInv
<1>1. ExplorerInit => Inv
  BY LabelInitial, MirrorInitial
<1>2. Inv /\ [ExplorerNext]_explorerVars => Inv'
  BY LabelStep, MirrorInvKept
<1>3. Inv /\ Inv' =>
        [/\ mentions' \subseteq Own \X entities'
         /\ \A r \in Mirrors : MirrorEnd(r) /\ memories = Own =>
               {l \in mirror[r].wanted : l[1] \in Own} \subseteq mentions]_<<vars, mirrorVars>>
  BY DEF MirrorInv, Fits, MirrorEnd, At
<1> QED BY <1>1, <1>2, <1>3, PTL DEF ExplorerSpec, MirrorIsTrue

-----------------------------------------------------------------------------
(* The explorer's sample is honest.                                         *)

ViewFields == {"phase", "limit", "shown", "links", "counts", "total", "sampled", "began", "failed"}

\* The counts of a view stand beside what it shows.
Counted(m) ==
    /\ \A e \in m.shown : Role[e] \in DOMAIN m.counts
    /\ \A x \in DOMAIN m.counts : Cardinality({e \in m.shown : Role[e] = x}) <= m.counts[x]

\* A view m of a brain with the entities E: nothing it shows is gone, and once the
\* counts are there, they and the mark are true of what it shows.
Fair(m, E) ==
    /\ DOMAIN m = ViewFields
    /\ m.shown \subseteq E /\ m.began \subseteq E
    /\ m.phase \in {"relate", "edges", "mentions", "answered"} /\ ~ m.failed => Counted(m)
    /\ m.phase = "relate" /\ ~ m.failed => Cardinality(m.shown) < m.total \/ m.began \subseteq m.shown
    /\ m.phase \in {"edges", "mentions", "answered"} /\ ~ m.failed =>
          m.sampled \/ m.began \subseteq m.shown

ViewInv == DOMAIN view = Runs /\ \A r \in Runs : Fair(view[r], entities)

LEMMA FairOn ==
    ASSUME NEW m, NEW E, Fair(m, E), NEW F, E \subseteq F PROVE Fair(m, F)
BY DEF Fair

\* A step that replaces the view of one caller.
LEMMA OneView ==
    ASSUME ViewInv, NEW r \in Runs, NEW v, view' = [view EXCEPT ![r] = v], UNCHANGED entities,
           Fair(v, entities)
    PROVE  ViewInv'
<1>1. DOMAIN view' = Runs /\ view'[r] = v /\ \A q \in Runs : q # r => view'[q] = view[q]
  BY DEF ViewInv
<1> QED BY <1>1 DEF ViewInv

\* A part of the entities has no more of a role than there are, and if it has as
\* many altogether, it is all of them.
LEMMA PartOf ==
    ASSUME entities \subseteq Entities, NEW S, S \subseteq entities
    PROVE  /\ \A x : Cardinality({e \in S : Role[e] = x}) <= Cardinality({e \in entities : Role[e] = x})
           /\ Cardinality(S) < Cardinality(entities) \/ S = entities
<1>1. IsFiniteSet(entities)
  BY EntitiesAssumption, FS_Subset
<1>2. ASSUME NEW x
      PROVE  Cardinality({e \in S : Role[e] = x}) <= Cardinality({e \in entities : Role[e] = x})
  <2> DEFINE A == {e \in S : Role[e] = x}
             B == {e \in entities : Role[e] = x}
  <2>1. A \subseteq B /\ B \in SUBSET entities
    OBVIOUS
  <2> HIDE DEF A, B
  <2>2. IsFiniteSet(B)
    BY <1>1, <2>1, FS_Subset
  <2>3. Cardinality(A) <= Cardinality(B)
    BY <2>1, <2>2, FS_Subset
  <2> QED BY <2>3 DEF A, B
<1>3. Cardinality(S) < Cardinality(entities) \/ S = entities
  BY <1>1, FS_Subset, FS_CardinalityType
<1> QED BY <1>2, <1>3

LEMMA ViewInvStep ==
    ASSUME LabelInv, ViewInv, NEW r \in Runs,
           \/ \E limit \in ViewLimits : View(r, limit)
           \/ ViewSample(r) \/ ViewCount(r) \/ ViewRelate(r) \/ ViewEdges(r) \/ ViewMentions(r)
    PROVE  ViewInv'
<1> DEFINE m == view[r]
<1>1. Fair(m, entities)
  BY DEF ViewInv
<1>2. UNCHANGED entities
  BY DEF View, ViewSample, ViewCount, ViewRelate, ViewEdges, ViewMentions, Advance, graph, vars
<1>3. entities \subseteq Entities
  BY DEF LabelInv, Typed
<1>4. ASSUME NEW limit \in ViewLimits, View(r, limit) PROVE ViewInv'
  <2>1. PICK phase \in {"derived", "sample"} :
          view' = [view EXCEPT ![r] = [NoView EXCEPT
                      !.phase = phase, !.limit = limit, !.began = entities]]
    BY <1>4 DEF View
  <2> DEFINE v == [NoView EXCEPT !.phase = phase, !.limit = limit, !.began = entities]
  <2>2. DOMAIN v = ViewFields /\ v.phase = phase /\ v.shown = {} /\ v.began = entities
    BY DEF NoView, ViewFields
  <2> HIDE DEF v
  <2>3. Fair(v, entities)
    BY <2>2 DEF Fair
  <2> QED BY <1>2, <2>1, <2>3, OneView DEF v
<1>5. CASE ViewSample(r)
  <2> DEFINE v == [m EXCEPT !.phase = "count", !.shown = Sample(m.limit)]
             w == [m EXCEPT !.phase = "answered", !.failed = TRUE]
  <2>1. view' = [view EXCEPT ![r] = v] \/ view' = [view EXCEPT ![r] = w]
    BY <1>5 DEF ViewSample, Advance
  <2>2. DOMAIN v = ViewFields /\ v.phase = "count" /\ v.shown = Sample(m.limit) /\ v.began = m.began
    BY <1>1 DEF Fair, ViewFields
  <2>3. DOMAIN w = ViewFields /\ w.failed = TRUE /\ w.shown = m.shown /\ w.began = m.began
    BY <1>1 DEF Fair, ViewFields
  <2>4. Sample(m.limit) \subseteq entities
    BY DEF Sample
  <2> HIDE DEF v, w, m
  <2>5. Fair(v, entities)
    BY <1>1, <2>2, <2>4 DEF Fair
  <2>6. Fair(w, entities)
    BY <1>1, <2>3, <2>4 DEF Fair
  <2> QED BY <1>2, <2>1, <2>5, <2>6, OneView
<1>6. CASE ViewCount(r)
  <2> DEFINE ofRole(x) == Cardinality({e \in entities : Role[e] = x})
             v == [m EXCEPT !.phase = "relate",
                     !.counts = [x \in {Role[e] : e \in entities} |-> ofRole(x)],
                     !.total = Cardinality(entities)]
             w == [m EXCEPT !.phase = "relate", !.failed = TRUE]
  <2>1. view' = [view EXCEPT ![r] = v] \/ view' = [view EXCEPT ![r] = w]
    BY <1>6 DEF ViewCount, Advance
  <2>2. /\ DOMAIN v = ViewFields /\ v.phase = "relate" /\ v.shown = m.shown /\ v.began = m.began
        /\ v.counts = [x \in {Role[e] : e \in entities} |-> ofRole(x)]
        /\ v.total = Cardinality(entities)
    BY <1>1 DEF Fair, ViewFields
  <2>3. DOMAIN w = ViewFields /\ w.failed = TRUE /\ w.shown = m.shown /\ w.began = m.began
    BY <1>1 DEF Fair, ViewFields
  <2>4. m.shown \subseteq entities /\ m.began \subseteq entities
    BY <1>1 DEF Fair
  <2> HIDE DEF v, w, m
  <2>5. Counted(v)
    <3>1. \A e \in v.shown : Role[e] \in DOMAIN v.counts
      BY <2>2, <2>4
    <3>2. ASSUME NEW x \in DOMAIN v.counts
          PROVE  Cardinality({e \in v.shown : Role[e] = x}) <= v.counts[x]
      <4>1. v.counts[x] = ofRole(x)
        BY <2>2, <3>2
      <4>2. Cardinality({e \in m.shown : Role[e] = x}) <= ofRole(x)
        BY <1>3, <2>4, PartOf
      <4> QED BY <2>2, <4>1, <4>2
    <3> QED BY <3>1, <3>2 DEF Counted
  <2>6. Cardinality(v.shown) < v.total \/ v.began \subseteq v.shown
    BY <1>3, <2>2, <2>4, PartOf
  <2>7. Fair(v, entities)
    BY <2>2, <2>4, <2>5, <2>6 DEF Fair
  <2>8. Fair(w, entities)
    BY <2>3, <2>4 DEF Fair
  <2> QED BY <1>2, <2>1, <2>7, <2>8, OneView
<1>7. CASE ViewRelate(r)
  <2> DEFINE v == [m EXCEPT !.phase = "edges", !.sampled = Cardinality(m.shown) < m.total]
  <2>1. view' = [view EXCEPT ![r] = v] /\ m.phase = "relate"
    BY <1>7 DEF ViewRelate, Advance
  <2>2. /\ DOMAIN v = ViewFields /\ v.phase = "edges" /\ v.shown = m.shown /\ v.began = m.began
        /\ v.counts = m.counts /\ v.failed = m.failed
        /\ v.sampled = (Cardinality(m.shown) < m.total)
    BY <1>1 DEF Fair, ViewFields
  <2> HIDE DEF v, m
  <2>3. Fair(v, entities)
    BY <1>1, <2>1, <2>2 DEF Fair, Counted
  <2> QED BY <1>2, <2>1, <2>3, OneView
<1>8. CASE ViewEdges(r) \/ ViewMentions(r)
  <2>1. PICK phase \in {"mentions", "answered"} : \E links :
          view' = [view EXCEPT ![r] = [m EXCEPT !.links = links, !.phase = phase]]
    <3>1. CASE ViewEdges(r)
      <4>1. PICK read : view' = [view EXCEPT ![r] = [m EXCEPT !.links = read \cap Among(m.shown),
                           !.phase = IF read \cap Among(m.shown) = {} THEN "mentions" ELSE "answered"]]
        BY <3>1 DEF ViewEdges, Advance
      <4> DEFINE links == read \cap Among(m.shown)
                 phase == IF links = {} THEN "mentions" ELSE "answered"
      <4>2. phase \in {"mentions", "answered"}
        OBVIOUS
      <4>3. view' = [view EXCEPT ![r] = [m EXCEPT !.links = links, !.phase = phase]]
        BY <4>1
      <4> HIDE DEF links, phase
      <4> QED BY <4>2, <4>3
    <3>2. CASE ViewMentions(r)
      <4>1. PICK read : view' = [view EXCEPT ![r] = [m EXCEPT !.phase = "answered",
                                                       !.links = read \cap Among(m.shown)]]
        BY <3>2 DEF ViewMentions, Advance
      <4> DEFINE links == read \cap Among(m.shown)
      <4>2. view' = [view EXCEPT ![r] = [m EXCEPT !.links = links, !.phase = "answered"]]
        BY <4>1
      <4> HIDE DEF links
      <4> QED BY <4>2
    <3> QED BY <1>8, <3>1, <3>2
  <2>2. PICK links : view' = [view EXCEPT ![r] = [m EXCEPT !.links = links, !.phase = phase]]
    BY <2>1
  <2>3. m.phase \in {"edges", "mentions"}
    BY <1>8 DEF ViewEdges, ViewMentions, Advance
  <2> DEFINE v == [m EXCEPT !.links = links, !.phase = phase]
  <2>4. /\ DOMAIN v = ViewFields /\ v.phase = phase /\ v.shown = m.shown /\ v.began = m.began
        /\ v.counts = m.counts /\ v.failed = m.failed /\ v.sampled = m.sampled
    BY <1>1 DEF Fair, ViewFields
  <2> HIDE DEF v, m
  <2>5. Fair(v, entities)
    BY <1>1, <2>3, <2>4 DEF Fair, Counted
  <2> QED BY <1>2, <2>2, <2>5, OneView DEF v
<1> QED BY <1>4, <1>5, <1>6, <1>7, <1>8

LEMMA ViewInitial == ASSUME ExplorerInit PROVE ViewInv
<1>1. \A r \in Runs : view[r] = NoView
  BY DEF ExplorerInit
<1>2. DOMAIN NoView = ViewFields /\ NoView.shown = {} /\ NoView.began = {} /\ NoView.phase = "none"
  BY DEF NoView, ViewFields
<1>3. Fair(NoView, entities)
  BY <1>2 DEF Fair
<1> QED BY <1>1, <1>3 DEF ViewInv, ExplorerInit

LEMMA ViewInvKept ==
    ASSUME LabelInv, MirrorShape, ViewInv, [ExplorerNext]_explorerVars PROVE ViewInv'
<1>1. CASE UNCHANGED view
  <2>1. entities \subseteq entities'
    BY LabelStep
  <2> QED BY <1>1, <2>1, FairOn DEF ViewInv
<1>2. CASE ~ UNCHANGED view
  BY <1>2, ViewInvStep DEF ExplorerNext, explorerVars
<1> QED BY <1>1, <1>2

\* queries.go:149-153: however the graph grows between the statements of a view,
\* its counts and its mark hold for what it shows.
THEOREM SampleStaysHonest == ExplorerSpec => []SampleIsHonest
<1> DEFINE Inv == LabelInv /\ MirrorShape /\ ViewInv
<1>1. ExplorerInit => Inv
  BY LabelInitial, ViewInitial
<1>2. Inv /\ [ExplorerNext]_explorerVars => Inv'
  BY LabelStep, ViewInvKept
<1>3. Inv => SampleIsHonest
  BY DEF ViewInv, Fair, Counted, SampleIsHonest
<1> QED BY <1>1, <1>2, <1>3, PTL DEF ExplorerSpec

-----------------------------------------------------------------------------
(* The table of communities.                                                *)

\* While a run that overlapped with no other is there, nobody else is, and when
\* it is about to insert, the table is empty.
TableInv ==
    \A r \in alone :
        /\ \A q \in Runs : pc[q] # "idle" => q = r
        /\ pc[r] = "insert" => communities = {}

LEMMA TableInvStep ==
    ASSUME LabelInv, TableInv, alone \subseteq Runs, Next PROVE TableInv' /\ alone' \subseteq Runs
<1>1. DOMAIN pc = Runs
  BY DEF LabelInv, Typed
<1>2. CASE (\E e \in Entities : AddEntity(e)) \/ (\E l \in Links : ChangeEdge(l))
  BY <1>2 DEF AddEntity, ChangeEdge, TableInv
<1>3. ASSUME NEW r \in Runs, Seed(r) PROVE TableInv' /\ alone' \subseteq Runs
  BY <1>1, <1>3 DEF Seed, Active, TableInv
<1>4. ASSUME NEW r \in Runs, RoundRead(r) \/ RoundWrite(r) PROVE TableInv' /\ alone' \subseteq Runs
  BY <1>1, <1>4 DEF RoundRead, RoundWrite, TableInv
<1>5. ASSUME NEW r \in Runs, Clear(r) \/ Insert(r) \/ Fail(r) PROVE TableInv' /\ alone' \subseteq Runs
  BY <1>1, <1>5 DEF Clear, Insert, Fail, TableInv
<1> QED BY <1>2, <1>3, <1>4, <1>5 DEF Next

LEMMA TableInvKept ==
    ASSUME LabelInv, TableInv, alone \subseteq Runs, [ExplorerNext]_explorerVars
    PROVE  TableInv' /\ alone' \subseteq Runs
<1>1. CASE Next
  BY <1>1, TableInvStep
<1>2. CASE ~ Next
  <2>1. UNCHANGED <<alone, pc, communities>>
    BY <1>2 DEF ExplorerNext, explorerVars, vars, MirrorNext, MirrorFetch, MirrorUpsert, MirrorCheck,
                MirrorLink, MirrorEnd, MirrorFails, DeleteBrain, Detection, View, ViewSample,
                ViewCount, ViewRelate, ViewEdges, ViewMentions, Advance
  <2> QED BY <2>1 DEF TableInv
<1> QED BY <1>1, <1>2

\* graph.go:276: nothing of an earlier detection, ended or failed, is in the table
\* that one leaves that nobody disturbed.
THEOREM TableIsOfThisRun == ExplorerSpec => TableMatchesLabels
<1> DEFINE Inv == LabelInv /\ MirrorShape /\ TableInv /\ alone \subseteq Runs
<1>1. ExplorerInit => Inv
  <2> SUFFICES ASSUME ExplorerInit PROVE alone = {}
    BY LabelInitial DEF TableInv
  <2> QED BY DEF ExplorerInit, Init
<1>2. Inv /\ [ExplorerNext]_explorerVars => Inv'
  BY LabelStep, TableInvKept
<1>3. Inv => [\A r \in alone : Insert(r) => communities' = Clusters]_vars
  BY DEF TableInv, Insert
<1> QED BY <1>1, <1>2, <1>3, PTL DEF ExplorerSpec, TableMatchesLabels

-----------------------------------------------------------------------------
(* The types.                                                               *)

\* What the types need beside LabelInv, MirrorInv and ViewInv: a run in a round
\* has not had all its rounds.
Counters ==
    /\ edges \subseteq Links /\ seen \subseteq Links /\ alone \subseteq Runs
    /\ communities \subseteq [lead : Entities, size : Nat]
    /\ round \in [Runs -> 0..Rounds]
    /\ \A r \in Runs : pc[r] \in {"read", "write"} => round[r] < Rounds
    /\ begun \in [Runs -> 0..MaxRuns] /\ changes \in 0..MaxChanges

\* The first of some entities is one of them.
LEMMA LeadIsMember ==
    ASSUME NEW S \in SUBSET Entities, S # {}
    PROVE  Lead(S) \in S
<1> DEFINE T == {Rank[e] : e \in S}
           R == OpToRel(<, Nat)
<1>1. IsWellFoundedOn(R, Nat) /\ \A m, n \in Nat : <<m, n>> \in R <=> m < n
  BY NatLessThanWellFounded DEF OpToRel
<1>2. T \subseteq Nat /\ T # {}
  BY RankAssumption
<1> HIDE DEF T, R
<1>3. PICK x \in T : \A y \in T : ~ (<<y, x>> \in R)
  <2>1. IsWellFoundedOn(R, Nat)
    BY <1>1
  <2> QED BY <1>2, <2>1, WFMin
<1>4. \A y \in T : x <= y
  <2> SUFFICES ASSUME NEW y \in T PROVE x <= y
    OBVIOUS
  <2>1. x \in Nat /\ y \in Nat /\ ~ (y < x)
    BY <1>1, <1>2, <1>3
  <2> QED BY <2>1
<1>5. \E e \in S : \A f \in S : Rank[e] <= Rank[f]
  BY <1>3, <1>4 DEF T
<1> QED BY <1>5 DEF Lead

LEMMA ClustersTyped ==
    ASSUME entities \subseteq Entities
    PROVE  Clusters \subseteq [lead : Entities, size : Nat]
<1> SUFFICES ASSUME NEW c \in Entities, Cardinality(Members(c)) > 1
             PROVE  Lead(Members(c)) \in Entities /\ Cardinality(Members(c)) \in Nat
  BY DEF Clusters
<1>1. Members(c) \in SUBSET Entities
  BY DEF Members
<1>2. Members(c) # {}
  BY FS_EmptySet
<1>3. IsFiniteSet(Members(c))
  BY <1>1, EntitiesAssumption, FS_Subset
<1> QED BY <1>1, <1>2, <1>3, LeadIsMember, FS_CardinalityType

LEMMA CountersStart == ExplorerInit => Counters
BY BoundsAssumption DEF ExplorerInit, Init, Counters

LEMMA CountersRun ==
    ASSUME LabelInv, Counters, Next PROVE Counters'
<1>0. /\ pc \in [Runs -> {"idle", "read", "write", "clear", "insert"}] /\ entities \subseteq Entities
      /\ Rounds \in Nat /\ MaxRuns \in Nat /\ MaxChanges \in Nat
  BY BoundsAssumption DEF LabelInv, Typed
<1>1. CASE (\E e \in Entities : AddEntity(e)) \/ (\E l \in Links : ChangeEdge(l))
  BY <1>0, <1>1 DEF AddEntity, ChangeEdge, Counters
<1>2. ASSUME NEW r \in Runs, Seed(r) PROVE Counters'
  BY <1>0, <1>2 DEF Seed, Counters, graph
<1>3. ASSUME NEW r \in Runs, RoundRead(r) PROVE Counters'
  BY <1>0, <1>3 DEF RoundRead, Counters, graph
<1>4. ASSUME NEW r \in Runs, RoundWrite(r) PROVE Counters'
  BY <1>0, <1>4 DEF RoundWrite, Counters, graph
<1>5. ASSUME NEW r \in Runs, Clear(r) \/ Fail(r) PROVE Counters'
  BY <1>0, <1>5 DEF Clear, Fail, Counters, graph
<1>6. ASSUME NEW r \in Runs, Insert(r) PROVE Counters'
  BY <1>0, <1>6, ClustersTyped DEF Insert, Counters, graph
<1> QED BY <1>1, <1>2, <1>3, <1>4, <1>5, <1>6 DEF Next

LEMMA CountersKept ==
    ASSUME LabelInv, Counters, [ExplorerNext]_explorerVars PROVE Counters'
<1>0. MaxRuns \in Nat /\ MaxChanges \in Nat
  BY BoundsAssumption
<1>1. CASE Next
  BY <1>1, CountersRun
<1>2. CASE DeleteBrain
  BY <1>0, <1>2 DEF DeleteBrain, Counters
<1>3. ASSUME NEW r \in Mirrors, MirrorFetch(r) PROVE Counters'
  BY <1>0, <1>3, MirrorAssumption DEF MirrorFetch, Detection, Counters
<1>4. ASSUME NEW r \in Mirrors,
             MirrorUpsert(r) \/ MirrorCheck(r) \/ MirrorLink(r) \/ MirrorEnd(r) \/ MirrorFails(r)
      PROVE  Counters'
  <2>1. UNCHANGED <<begun, Detection>>
    BY <1>4 DEF MirrorUpsert, MirrorCheck, MirrorLink, MirrorEnd, MirrorFails
  <2> QED BY <2>1 DEF Detection, Counters
<1>5. ASSUME NEW r \in Runs, NEW limit \in ViewLimits, View(r, limit) PROVE Counters'
  BY <1>0, <1>5 DEF View, graph, Counters
<1>6. ASSUME NEW r \in Runs,
             ViewSample(r) \/ ViewCount(r) \/ ViewRelate(r) \/ ViewEdges(r) \/ ViewMentions(r)
      PROVE  Counters'
  <2>1. UNCHANGED vars
    BY <1>6 DEF ViewSample, ViewCount, ViewRelate, ViewEdges, ViewMentions, Advance
  <2> QED BY <2>1 DEF vars, Counters
<1>7. CASE UNCHANGED explorerVars
  BY <1>7 DEF explorerVars, vars, Counters
<1> QED BY <1>1, <1>2, <1>3, <1>4, <1>5, <1>6, <1>7 DEF ExplorerNext, MirrorNext

\* The phases of the requests, and the limit and the links of a view.
MirrorPhases == \A r \in Mirrors : mirror[r].phase \in {"none", "entities", "check", "link"}

ViewTyped(m) ==
    /\ m.phase \in Phases /\ m.limit \in ViewLimits \cup {0}
    /\ m.links \subseteq Among(m.shown) /\ (m.phase \in {"sample", "count", "relate"} => m.links = {})

ViewsTyped == \A r \in Runs : ViewTyped(view[r])

LEMMA MirrorPhasesKept ==
    ASSUME MirrorShape, MirrorPhases, [ExplorerNext]_explorerVars PROVE MirrorPhases'
<1>1. ASSUME NEW r \in Mirrors, NEW v, Becomes(r, v),
             v.phase \in {"none", "entities", "check", "link"}
      PROVE  MirrorPhases'
  BY <1>1 DEF Becomes, MirrorShape, MirrorPhases
<1>2. CASE UNCHANGED mirror
  BY <1>2 DEF MirrorPhases
<1>3. ASSUME NEW r \in Mirrors, MirrorFetch(r) PROVE MirrorPhases'
  <2>1. PICK t, l, w :
          Becomes(r, [NoMirror EXCEPT !.phase = "entities", !.todo = t, !.links = l, !.wanted = w])
    BY <1>3 DEF MirrorFetch
  <2> DEFINE v == [NoMirror EXCEPT !.phase = "entities", !.todo = t, !.links = l, !.wanted = w]
  <2>2. v.phase = "entities"
    BY DEF NoMirror
  <2> HIDE DEF v
  <2> QED BY <1>1, <2>1, <2>2 DEF v
<1>4. ASSUME NEW r \in Mirrors, MirrorUpsert(r) PROVE MirrorPhases'
  <2> DEFINE m == mirror[r]
  <2>1. DOMAIN m = MirrorFields
    BY DEF MirrorShape
  <2>2. CASE Becomes(r, [m EXCEPT !.phase = "check"])
    <3>1. [m EXCEPT !.phase = "check"].phase = "check"
      BY <2>1 DEF MirrorFields
    <3> QED BY <1>1, <2>2, <3>1
  <2>3. ASSUME NEW e, Becomes(r, [m EXCEPT !.todo = @ \ {e}]) PROVE MirrorPhases'
    <3>1. [m EXCEPT !.todo = @ \ {e}].phase = m.phase
      BY <2>1 DEF MirrorFields
    <3> QED BY <1>1, <2>3, <3>1 DEF MirrorPhases
  <2> QED BY <1>4, <2>2, <2>3 DEF MirrorUpsert
<1>5. ASSUME NEW r \in Mirrors, MirrorCheck(r) PROVE MirrorPhases'
  <2> DEFINE m == mirror[r]
  <2>1. DOMAIN m = MirrorFields
    BY DEF MirrorShape
  <2>2. PICK l : \/ Becomes(r, [m EXCEPT !.links = @ \ {l}, !.checked = {l}, !.phase = "link"])
                 \/ Becomes(r, [m EXCEPT !.links = @ \ {l}])
                 \/ Becomes(r, [m EXCEPT !.links = @ \ {l}, !.wanted = @ \ {l}])
    BY <1>5 DEF MirrorCheck
  <2>3. /\ [m EXCEPT !.links = @ \ {l}, !.checked = {l}, !.phase = "link"].phase = "link"
        /\ [m EXCEPT !.links = @ \ {l}].phase = m.phase
        /\ [m EXCEPT !.links = @ \ {l}, !.wanted = @ \ {l}].phase = m.phase
    BY <2>1 DEF MirrorFields
  <2>4. m.phase \in {"none", "entities", "check", "link"}
    BY DEF MirrorPhases
  <2> HIDE DEF m
  <2> QED BY <1>1, <2>2, <2>3, <2>4
<1>6. ASSUME NEW r \in Mirrors, MirrorLink(r) PROVE MirrorPhases'
  <2>1. [mirror[r] EXCEPT !.checked = {}, !.phase = "check"].phase = "check"
    BY DEF MirrorShape, MirrorFields
  <2> QED BY <1>1, <1>6, <2>1 DEF MirrorLink
<1>7. ASSUME NEW r \in Mirrors, MirrorEnd(r) \/ MirrorFails(r) PROVE MirrorPhases'
  <2>1. NoMirror.phase = "none"
    BY DEF NoMirror
  <2> QED BY <1>1, <1>7, <2>1 DEF MirrorEnd, MirrorFails
<1>8. CASE MirrorNext
  BY <1>2, <1>3, <1>4, <1>5, <1>6, <1>7, <1>8 DEF MirrorNext, DeleteBrain
<1>9. CASE ~ MirrorNext
  <2>1. UNCHANGED mirrorVars
    BY <1>9 DEF ExplorerNext, explorerVars, View, ViewSample, ViewCount, ViewRelate, ViewEdges,
                ViewMentions, Advance
  <2> QED BY <1>2, <2>1 DEF mirrorVars
<1> QED BY <1>8, <1>9

LEMMA ViewsTypedKept ==
    ASSUME ViewInv, ViewsTyped, [ExplorerNext]_explorerVars PROVE ViewsTyped'
<1>1. ASSUME NEW r \in Runs, NEW v, view' = [view EXCEPT ![r] = v], ViewTyped(v)
      PROVE  ViewsTyped'
  BY <1>1 DEF ViewInv, ViewsTyped
<1>2. ASSUME NEW r \in Runs PROVE DOMAIN view[r] = ViewFields /\ ViewTyped(view[r])
  BY DEF ViewInv, Fair, ViewsTyped
<1>3. CASE UNCHANGED view
  BY <1>3 DEF ViewsTyped
<1>4. ASSUME NEW r \in Runs, NEW limit \in ViewLimits, View(r, limit) PROVE ViewsTyped'
  <2>1. PICK phase \in {"derived", "sample"} :
          view' = [view EXCEPT ![r] = [NoView EXCEPT
                      !.phase = phase, !.limit = limit, !.began = entities]]
    BY <1>4 DEF View
  <2> DEFINE v == [NoView EXCEPT !.phase = phase, !.limit = limit, !.began = entities]
  <2>2. v.phase = phase /\ v.shown = {} /\ v.links = {} /\ v.limit = limit
    BY DEF NoView
  <2> HIDE DEF v
  <2>3. ViewTyped(v)
    BY <2>2 DEF ViewTyped, Phases, Among
  <2> QED BY <1>1, <2>1, <2>3 DEF v
<1>5. ASSUME NEW r \in Runs, ViewSample(r) PROVE ViewsTyped'
  <2> DEFINE m == view[r]
             v == [m EXCEPT !.phase = "count", !.shown = Sample(m.limit)]
             w == [m EXCEPT !.phase = "answered", !.failed = TRUE]
  <2>1. (view' = [view EXCEPT ![r] = v] \/ view' = [view EXCEPT ![r] = w]) /\ m.phase = "sample"
    BY <1>5 DEF ViewSample, Advance
  <2>2. v.phase = "count" /\ v.links = m.links /\ v.limit = m.limit
    BY <1>2 DEF ViewFields
  <2>3. w.phase = "answered" /\ w.shown = m.shown /\ w.links = m.links /\ w.limit = m.limit
    BY <1>2 DEF ViewFields
  <2>4. ViewTyped(m)
    BY <1>2
  <2> HIDE DEF v, w, m
  <2>5. ViewTyped(v) /\ ViewTyped(w)
    BY <2>1, <2>2, <2>3, <2>4 DEF ViewTyped, Phases
  <2> QED BY <1>1, <2>1, <2>5
<1>6. ASSUME NEW r \in Runs, ViewCount(r) PROVE ViewsTyped'
  <2> DEFINE m == view[r]
  <2>1. PICK counts, total :
          LET v == [m EXCEPT !.phase = "relate", !.counts = counts, !.total = total]
              w == [m EXCEPT !.phase = "relate", !.failed = TRUE]
          IN  (view' = [view EXCEPT ![r] = v] \/ view' = [view EXCEPT ![r] = w]) /\ m.phase = "count"
    BY <1>6 DEF ViewCount, Advance
  <2> DEFINE v == [m EXCEPT !.phase = "relate", !.counts = counts, !.total = total]
             w == [m EXCEPT !.phase = "relate", !.failed = TRUE]
  <2>2. v.phase = "relate" /\ v.shown = m.shown /\ v.links = m.links /\ v.limit = m.limit
    BY <1>2 DEF ViewFields
  <2>3. w.phase = "relate" /\ w.shown = m.shown /\ w.links = m.links /\ w.limit = m.limit
    BY <1>2 DEF ViewFields
  <2>4. ViewTyped(m)
    BY <1>2
  <2>5. view' = [view EXCEPT ![r] = v] \/ view' = [view EXCEPT ![r] = w]
    BY <2>1
  <2>6. m.phase = "count"
    BY <2>1
  <2> HIDE DEF v, w, m
  <2>7. ViewTyped(v) /\ ViewTyped(w)
    BY <2>2, <2>3, <2>4, <2>6 DEF ViewTyped, Phases
  <2> QED BY <1>1, <2>5, <2>7
<1>7. ASSUME NEW r \in Runs, ViewRelate(r) PROVE ViewsTyped'
  <2> DEFINE m == view[r]
             v == [m EXCEPT !.phase = "edges", !.sampled = Cardinality(m.shown) < m.total]
  <2>1. view' = [view EXCEPT ![r] = v]
    BY <1>7 DEF ViewRelate, Advance
  <2>2. v.phase = "edges" /\ v.shown = m.shown /\ v.links = m.links /\ v.limit = m.limit
    BY <1>2 DEF ViewFields
  <2>3. ViewTyped(m)
    BY <1>2
  <2> HIDE DEF v, m
  <2>4. ViewTyped(v)
    BY <2>2, <2>3 DEF ViewTyped, Phases
  <2> QED BY <1>1, <2>1, <2>4
<1>8. ASSUME NEW r \in Runs, NEW read, NEW phase \in {"mentions", "answered"},
             view' = [view EXCEPT ![r] = [view[r] EXCEPT !.links = read \cap Among(view[r].shown),
                                                         !.phase = phase]]
      PROVE  ViewsTyped'
  <2> DEFINE m == view[r]
             links == read \cap Among(m.shown)
             v == [m EXCEPT !.links = links, !.phase = phase]
  <2>1. v.phase = phase /\ v.shown = m.shown /\ v.links = links /\ v.limit = m.limit
    BY <1>2 DEF ViewFields
  <2>2. ViewTyped(m) /\ view' = [view EXCEPT ![r] = v]
    BY <1>2, <1>8
  <2>3. links \subseteq Among(m.shown)
    OBVIOUS
  <2> HIDE DEF v, m, links
  <2>4. ViewTyped(v)
    BY <2>1, <2>2, <2>3 DEF ViewTyped, Phases
  <2> QED BY <1>1, <2>2, <2>4
<1>9. ASSUME NEW r \in Runs, ViewEdges(r) PROVE ViewsTyped'
  <2>1. PICK read : view' = [view EXCEPT ![r] = [view[r] EXCEPT !.links = read \cap Among(view[r].shown),
                       !.phase = IF read \cap Among(view[r].shown) = {} THEN "mentions" ELSE "answered"]]
    BY <1>9 DEF ViewEdges, Advance
  <2> DEFINE phase == IF read \cap Among(view[r].shown) = {} THEN "mentions" ELSE "answered"
  <2>2. phase \in {"mentions", "answered"}
    OBVIOUS
  <2>3. view' = [view EXCEPT ![r] = [view[r] EXCEPT !.links = read \cap Among(view[r].shown), !.phase = phase]]
    BY <2>1
  <2> HIDE DEF phase
  <2> QED BY <1>8, <2>2, <2>3
<1>10. ASSUME NEW r \in Runs, ViewMentions(r) PROVE ViewsTyped'
  <2>1. PICK read : view' = [view EXCEPT ![r] = [view[r] EXCEPT !.phase = "answered",
                                                   !.links = read \cap Among(view[r].shown)]]
    BY <1>10 DEF ViewMentions, Advance
  <2> DEFINE links == read \cap Among(view[r].shown)
  <2>2. view' = [view EXCEPT ![r] = [view[r] EXCEPT !.links = links, !.phase = "answered"]]
    BY <2>1
  <2> QED BY <1>8, <2>2
<1> QED BY <1>3, <1>4, <1>5, <1>6, <1>7, <1>9, <1>10 DEF ExplorerNext, explorerVars

\* Every variable of detections, mirrorings and views keeps its type.
THEOREM GraphTypeCorrect == ExplorerSpec => []GraphTypeOK
<1> DEFINE Inv == LabelInv /\ MirrorShape /\ MirrorInv /\ ViewInv /\ Counters /\ MirrorPhases /\ ViewsTyped
<1>1. ExplorerInit => Inv
  <2> SUFFICES ASSUME ExplorerInit PROVE Inv
    OBVIOUS
  <2>1. MirrorPhases
    BY DEF ExplorerInit, MirrorInit, NoMirror, MirrorPhases
  <2>2. \A r \in Runs : view[r] = NoView
    BY DEF ExplorerInit
  <2>3. NoView.phase = "none" /\ NoView.limit = 0 /\ NoView.shown = {} /\ NoView.links = {}
    BY DEF NoView
  <2>4. ViewsTyped
    BY <2>2, <2>3 DEF ViewsTyped, ViewTyped, Phases, Among
  <2> QED BY <2>1, <2>4, LabelInitial, MirrorInitial, ViewInitial, CountersStart
<1>2. Inv /\ [ExplorerNext]_explorerVars => Inv'
  BY LabelStep, MirrorInvKept, ViewInvKept, CountersKept, MirrorPhasesKept, ViewsTypedKept
<1>3. Inv => GraphTypeOK
  <2> SUFFICES ASSUME Inv PROVE TypeOK /\ MirrorTypeOK /\ ExplorerTypeOK
    BY DEF GraphTypeOK
  <2>1. TypeOK
    BY DEF LabelInv, Typed, Counters, TypeOK
  <2>2. MirrorTypeOK
    <3>1. mentions \subseteq Memories \X Entities
      BY MirrorAssumption DEF LabelInv, Typed, MirrorInv
    <3>2. ASSUME NEW r \in Mirrors
          PROVE  mirror[r].todo \subseteq Entities /\ mirror[r].links \cup mirror[r].checked \subseteq Memories \X Entities
      <4>1. Fits(mirror[r], entities, memories, mentions) /\ entities \subseteq Entities
        BY DEF LabelInv, Typed, MirrorInv
      <4> QED BY <4>1, MirrorAssumption DEF Fits
    <3> QED BY <3>1, <3>2 DEF MirrorInv, MirrorPhases, MirrorTypeOK
  <2>3. ExplorerTypeOK
    BY DEF LabelInv, Typed, ViewInv, Fair, ViewsTyped, ViewTyped, ExplorerTypeOK
  <2> QED BY <2>1, <2>2, <2>3
<1> QED BY <1>1, <1>2, <1>3, PTL DEF ExplorerSpec

-----------------------------------------------------------------------------
(* The walks find the nearest.                                              *)

\* A set of numbers that holds 0 and, with each number, the next holds them all.
LEMMA Counting ==
    ASSUME NEW S, 0 \in S, \A j \in Nat : j \in S => j + 1 \in S
    PROVE  Nat \subseteq S
<1> DEFINE T == Nat \ S
           R == OpToRel(<, Nat)
<1>1. \A x, y \in Nat : <<y, x>> \in R <=> y < x
  BY DEF OpToRel
<1>2. IsWellFoundedOn(R, Nat)
  BY NatLessThanWellFounded
<1> HIDE DEF R
<1>3. ASSUME T # {} PROVE FALSE
  <2>1. PICK x \in T : \A y \in T : ~ (<<y, x>> \in R)
    <3>1. T \subseteq Nat /\ T # {}
      BY <1>3
    <3> HIDE DEF T
    <3> QED BY <1>2, <3>1, WFMin
  <2>2. x \in Nat /\ x # 0
    OBVIOUS
  <2>3. x - 1 \in Nat /\ x - 1 < x /\ (x - 1) + 1 = x
    BY <2>2
  <2>4. x - 1 \notin T
    BY <1>1, <2>1, <2>2, <2>3
  <2> QED BY <2>2, <2>3, <2>4
<1> QED BY <1>3

\* Some numbers have a least one.
LEMMA Least ==
    ASSUME NEW T, T \subseteq Nat, T # {}
    PROVE  \E x \in T : \A y \in T : x <= y
<1> DEFINE R == OpToRel(<, Nat)
<1>1. \A x, y \in Nat : <<y, x>> \in R <=> y < x
  BY DEF OpToRel
<1>2. IsWellFoundedOn(R, Nat)
  BY NatLessThanWellFounded
<1> HIDE DEF R
<1>3. PICK x \in T : \A y \in T : ~ (<<y, x>> \in R)
  BY <1>2, WFMin
<1>4. \A y \in T : x <= y
  <2> SUFFICES ASSUME NEW y \in T PROVE x <= y
    OBVIOUS
  <2>1. x \in Nat /\ y \in Nat /\ ~ (y < x)
    BY <1>1, <1>3
  <2> QED BY <2>1
<1> QED BY <1>4

\* What a step makes of base, 0 to k times.
Iterates(f, k, base, step) == f = [d \in 0..k |-> IF d = 0 THEN base ELSE step[f[d - 1]]]

LEMMA IterationExists ==
    ASSUME NEW k \in Nat, NEW A, NEW base \in A, NEW step \in [A -> A]
    PROVE  \E f \in [0..k -> A] : Iterates(f, k, base, step)
<1> DEFINE K == {j \in Nat : \E f \in [0..j -> A] : Iterates(f, j, base, step)}
<1>1. 0 \in K
  <2>1. [d \in 0..0 |-> base] \in [0..0 -> A] /\ Iterates([d \in 0..0 |-> base], 0, base, step)
    BY DEF Iterates
  <2> QED BY <2>1
<1>2. ASSUME NEW j \in Nat, j \in K PROVE j + 1 \in K
  <2>1. PICK f \in [0..j -> A] : Iterates(f, j, base, step)
    BY <1>2
  <2> DEFINE g == [d \in 0..(j + 1) |-> IF d = j + 1 THEN step[f[j]] ELSE f[d]]
  <2>2. g \in [0..(j + 1) -> A]
    OBVIOUS
  <2>3. ASSUME NEW d \in 0..(j + 1) PROVE g[d] = IF d = 0 THEN base ELSE step[g[d - 1]]
    <3>1. CASE d = j + 1
      BY <3>1
    <3>2. CASE d # j + 1
      <4>1. d \in 0..j
        BY <3>2
      <4>2. f[d] = IF d = 0 THEN base ELSE step[f[d - 1]]
        BY <2>1, <4>1 DEF Iterates
      <4> QED BY <3>2, <4>1, <4>2
    <3> QED BY <3>1, <3>2
  <2>4. g = [d \in 0..(j + 1) |-> g[d]]
    OBVIOUS
  <2> HIDE DEF g
  <2>5. Iterates(g, j + 1, base, step)
    BY <2>3, <2>4 DEF Iterates
  <2> QED BY <2>2, <2>5
<1>3. k \in K
  <2> HIDE DEF K
  <2> QED BY <1>1, <1>2, Counting
<1> QED BY <1>3

LEMMA IterationUnique ==
    ASSUME NEW k \in Nat, NEW l \in Nat, k <= l, NEW f, NEW g, NEW base, NEW step,
           Iterates(f, k, base, step), Iterates(g, l, base, step)
    PROVE  f[k] = g[k]
<1> DEFINE K == {j \in Nat : j <= k => f[j] = g[j]}
<1>1. 0 \in K
  BY DEF Iterates
<1>2. ASSUME NEW j \in Nat, j \in K PROVE j + 1 \in K
  <2> SUFFICES ASSUME j + 1 <= k PROVE f[j + 1] = g[j + 1]
    OBVIOUS
  <2>1. f[j] = g[j] /\ j + 1 \in 0..k /\ j + 1 \in 0..l /\ j + 1 # 0 /\ (j + 1) - 1 = j
    BY <1>2
  <2>2. f[j + 1] = step[f[j]] /\ g[j + 1] = step[g[j]]
    BY <2>1 DEF Iterates
  <2> QED BY <2>1, <2>2
<1>3. k \in K
  <2> HIDE DEF K
  <2> QED BY <1>1, <1>2, Counting
<1> QED BY <1>3

-----------------------------------------------------------------------------
(* The entities within k hops.                                              *)

Wider(N, H, X) == X \cup {n \in N : \E m \in X : <<m, n>> \in H}
Widen(N, H) == [X \in SUBSET N |-> Wider(N, H, X)]

LEMMA BallIs ==
    ASSUME NEW N, NEW H, NEW start, NEW k \in Nat
    PROVE  \E f \in [0..k -> SUBSET N] :
             Iterates(f, k, N \cap {start}, Widen(N, H)) /\ f[k] = Ball(N, H, start, k)
<1> DEFINE Eq(h) == h = [d \in 0..k |-> IF d = 0 THEN N \cap {start}
                                        ELSE h[d - 1] \cup {n \in N : \E m \in h[d - 1] : <<m, n>> \in H}]
<1>1. N \cap {start} \in SUBSET N /\ Widen(N, H) \in [SUBSET N -> SUBSET N]
  BY DEF Widen, Wider
<1>2. PICK f \in [0..k -> SUBSET N] : Iterates(f, k, N \cap {start}, Widen(N, H))
  BY <1>1, IterationExists
<1>3. Eq(f)
  <2>1. \A d \in 0..k : f[d] = IF d = 0 THEN N \cap {start}
                               ELSE f[d - 1] \cup {n \in N : \E m \in f[d - 1] : <<m, n>> \in H}
    <3> SUFFICES ASSUME NEW d \in 0..k, d # 0
                 PROVE  f[d] = f[d - 1] \cup {n \in N : \E m \in f[d - 1] : <<m, n>> \in H}
      BY <1>2 DEF Iterates
    <3>1. d - 1 \in 0..k
      OBVIOUS
    <3>2. f[d] = Widen(N, H)[f[d - 1]] /\ f[d - 1] \in SUBSET N
      BY <1>2, <3>1 DEF Iterates
    <3> QED BY <3>2 DEF Widen, Wider
  <2> QED BY <2>1
<1> DEFINE B == CHOOSE h : Eq(h)
<1>4. Eq(B)
  BY <1>3
<1>5. Ball(N, H, start, k) = B[k]
  BY DEF Ball
<1> HIDE DEF B
<1>6. ASSUME NEW d \in 0..k PROVE B[d] \in SUBSET N
  <2> DEFINE K == {j \in Nat : j <= k => B[j] \in SUBSET N}
  <2>1. 0 \in K
    BY <1>4
  <2>2. ASSUME NEW j \in Nat, j \in K PROVE j + 1 \in K
    <3> SUFFICES ASSUME j + 1 <= k PROVE B[j + 1] \in SUBSET N
      OBVIOUS
    <3>1. j + 1 \in 0..k /\ (j + 1) - 1 = j /\ j + 1 # 0 /\ B[j] \in SUBSET N
      BY <2>2
    <3> QED BY <1>4, <3>1
  <2>3. d \in K
    <3> HIDE DEF K
    <3> QED BY <2>1, <2>2, Counting
  <2> QED BY <2>3
<1>7. B \in [0..k -> SUBSET N]
  BY <1>4, <1>6
<1>8. Iterates(B, k, N \cap {start}, Widen(N, H))
  <2>1. \A d \in 0..k : B[d] = IF d = 0 THEN N \cap {start} ELSE Widen(N, H)[B[d - 1]]
    <3> SUFFICES ASSUME NEW d \in 0..k, d # 0 PROVE B[d] = Widen(N, H)[B[d - 1]]
      BY <1>4
    <3>1. d - 1 \in 0..k
      OBVIOUS
    <3>2. B[d - 1] \in SUBSET N
      BY <1>6, <3>1
    <3> QED BY <1>4, <3>2 DEF Widen, Wider
  <2>2. B = [d \in 0..k |-> B[d]]
    BY <1>7
  <2> QED BY <2>1, <2>2 DEF Iterates
<1> QED BY <1>5, <1>7, <1>8

LEMMA BallStarts ==
    ASSUME NEW N, NEW H, NEW start
    PROVE  Ball(N, H, start, 0) = N \cap {start}
BY BallIs DEF Iterates

LEMMA BallInside ==
    ASSUME NEW N, NEW H, NEW start, NEW k \in Nat
    PROVE  Ball(N, H, start, k) \subseteq N
<1>1. PICK f \in [0..k -> SUBSET N] : f[k] = Ball(N, H, start, k)
  BY BallIs
<1> QED BY <1>1

LEMMA BallGrows ==
    ASSUME NEW N, NEW H, NEW start, NEW k \in Nat
    PROVE  Ball(N, H, start, k + 1) = Wider(N, H, Ball(N, H, start, k))
<1>1. PICK f \in [0..k -> SUBSET N] :
        Iterates(f, k, N \cap {start}, Widen(N, H)) /\ f[k] = Ball(N, H, start, k)
  BY BallIs
<1>2. PICK g \in [0..(k + 1) -> SUBSET N] :
        Iterates(g, k + 1, N \cap {start}, Widen(N, H)) /\ g[k + 1] = Ball(N, H, start, k + 1)
  <2>1. k + 1 \in Nat
    OBVIOUS
  <2> QED BY <2>1, BallIs
<1>3. f[k] = g[k]
  BY <1>1, <1>2, IterationUnique
<1>4. g[k + 1] = Widen(N, H)[g[k]]
  <2>1. k + 1 \in 0..(k + 1) /\ k + 1 # 0 /\ (k + 1) - 1 = k
    OBVIOUS
  <2> QED BY <1>2, <2>1 DEF Iterates
<1> QED BY <1>1, <1>2, <1>3, <1>4 DEF Widen

LEMMA BallMonotone ==
    ASSUME NEW N, NEW H, NEW start, NEW j \in Nat, NEW k \in Nat, j <= k
    PROVE  Ball(N, H, start, j) \subseteq Ball(N, H, start, k)
<1> DEFINE K == {i \in Nat : Ball(N, H, start, j) \subseteq Ball(N, H, start, j + i)}
<1>1. 0 \in K
  OBVIOUS
<1>2. ASSUME NEW i \in Nat, i \in K PROVE i + 1 \in K
  <2>1. Ball(N, H, start, (j + i) + 1) = Wider(N, H, Ball(N, H, start, j + i))
    <3> DEFINE l == j + i
    <3>1. l \in Nat
      OBVIOUS
    <3> HIDE DEF l
    <3>2. Ball(N, H, start, l + 1) = Wider(N, H, Ball(N, H, start, l))
      BY <3>1, BallGrows
    <3> QED BY <3>2 DEF l
  <2>2. (j + i) + 1 = j + (i + 1)
    OBVIOUS
  <2> QED BY <1>2, <2>1, <2>2 DEF Wider
<1>3. k - j \in K
  <2> HIDE DEF K
  <2> QED BY <1>1, <1>2, Counting
<1> QED BY <1>3

-----------------------------------------------------------------------------
(* The paths of a walk.                                                     *)

\* A path from start that follows hops and never comes back.
Simple(H, start, p) ==
    /\ Len(p) >= 1 /\ p[1] = start
    /\ \A i \in 1..(Len(p) - 1) : <<p[i], p[i + 1]>> \in H
    /\ \A i, j \in 1..Len(p) : p[i] = p[j] => i = j

PathsOf(N, H, start, d) == {p \in Seq(N) : Len(p) = d + 1 /\ Simple(H, start, p)}

LEMMA AppendIs ==
    ASSUME NEW N, NEW p \in Seq(N), NEW n \in N
    PROVE  /\ Append(p, n) \in Seq(N) /\ Len(Append(p, n)) = Len(p) + 1
           /\ \A i \in 1..Len(p) : Append(p, n)[i] = p[i]
           /\ Append(p, n)[Len(p) + 1] = n
OBVIOUS

LEMMA FrontIs ==
    ASSUME NEW N, NEW p \in Seq(N), NEW d \in Nat, Len(p) = d + 1
    PROVE  \E q \in Seq(N) : /\ Len(q) = d /\ p = Append(q, p[d + 1])
                             /\ \A i \in 1..d : q[i] = p[i]
<1> DEFINE q == [i \in 1..d |-> p[i]]
<1>1. q \in Seq(N) /\ Len(q) = d
  OBVIOUS
<1>2. p[d + 1] \in N
  OBVIOUS
<1>3. Append(q, p[d + 1]) \in Seq(N) /\ Len(Append(q, p[d + 1])) = d + 1
  BY <1>1, <1>2
<1>4. \A i \in 1..(d + 1) : Append(q, p[d + 1])[i] = p[i]
  BY <1>1, <1>2
<1>5. p = Append(q, p[d + 1])
  BY <1>3, <1>4, SeqEqual
<1> QED BY <1>1, <1>5

\* A simple path goes on by one hop to where it has not been.
LEMMA SimpleAppend ==
    ASSUME NEW N, NEW H, NEW start, NEW p \in Seq(N), NEW n \in N, Len(p) >= 1
    PROVE  Simple(H, start, Append(p, n)) <=>
             Simple(H, start, p) /\ <<Last(p), n>> \in H /\ ~ Contains(p, n)
<1> DEFINE a == Append(p, n)
           l == Len(p)
<1>1. /\ l \in Nat /\ l >= 1 /\ Len(a) = l + 1 /\ \A i \in 1..l : a[i] = p[i]
      /\ a[l + 1] = n
  BY AppendIs
<1>2. Last(p) = p[l] /\ (Contains(p, n) <=> \E i \in 1..l : p[i] = n)
  BY DEF Last, Contains
<1> HIDE DEF a, l
<1>3. ASSUME Simple(H, start, a)
      PROVE  Simple(H, start, p) /\ <<Last(p), n>> \in H /\ ~ Contains(p, n)
  <2>1. p[1] = start
    BY <1>1, <1>3 DEF Simple
  <2>2. ASSUME NEW i \in 1..(l - 1) PROVE <<p[i], p[i + 1]>> \in H
    <3>1. i \in 1..l /\ i + 1 \in 1..l /\ i \in 1..((l + 1) - 1)
      BY <1>1
    <3> QED BY <1>1, <1>3, <3>1 DEF Simple
  <2>3. \A i, j \in 1..l : p[i] = p[j] => i = j
    <3> SUFFICES ASSUME NEW i \in 1..l, NEW j \in 1..l, p[i] = p[j] PROVE i = j
      OBVIOUS
    <3>1. i \in 1..(l + 1) /\ j \in 1..(l + 1) /\ a[i] = a[j]
      BY <1>1
    <3> QED BY <1>1, <1>3, <3>1 DEF Simple
  <2>4. <<p[l], n>> \in H
    <3>1. l \in 1..((l + 1) - 1) /\ l \in 1..l
      BY <1>1
    <3> QED BY <1>1, <1>3, <3>1 DEF Simple
  <2>5. ASSUME NEW i \in 1..l, p[i] = n PROVE FALSE
    <3>1. i \in 1..(l + 1) /\ l + 1 \in 1..(l + 1) /\ a[i] = a[l + 1] /\ i # l + 1
      BY <1>1, <2>5
    <3> QED BY <1>1, <1>3, <3>1 DEF Simple
  <2> QED BY <1>1, <1>2, <2>1, <2>2, <2>3, <2>4, <2>5 DEF Simple, l
<1>4. ASSUME Simple(H, start, p), <<Last(p), n>> \in H, ~ Contains(p, n)
      PROVE  Simple(H, start, a)
  <2>1. a[1] = start
    BY <1>1, <1>4 DEF Simple
  <2>2. ASSUME NEW i \in 1..((l + 1) - 1) PROVE <<a[i], a[i + 1]>> \in H
    <3>1. CASE i = l
      BY <1>1, <1>2, <1>4, <3>1
    <3>2. CASE i # l
      <4>1. i \in 1..(l - 1) /\ i \in 1..l /\ i + 1 \in 1..l
        BY <1>1, <3>2
      <4> QED BY <1>1, <1>4, <4>1 DEF Simple, l
    <3> QED BY <3>1, <3>2
  <2>3. \A i, j \in 1..(l + 1) : a[i] = a[j] => i = j
    <3>1. \A i \in 1..(l + 1) : i = l + 1 \/ i \in 1..l
      BY <1>1
    <3>2. \A i, j \in 1..l : p[i] = p[j] => i = j
      BY <1>4 DEF Simple, l
    <3>3. \A i \in 1..l : p[i] # n
      BY <1>2, <1>4
    <3> QED BY <1>1, <3>1, <3>2, <3>3
  <2> QED BY <1>1, <2>1, <2>2, <2>3 DEF Simple
<1> QED BY <1>3, <1>4 DEF a

\* The recursive term finds the simple paths that are one hop longer.
LEMMA StepIs ==
    ASSUME NEW N, NEW H, NEW start, NEW d \in Nat
    PROVE  Step(N, H, PathsOf(N, H, start, d)) = PathsOf(N, H, start, d + 1)
<1>1. ASSUME NEW a \in Step(N, H, PathsOf(N, H, start, d)) PROVE a \in PathsOf(N, H, start, d + 1)
  <2>1. PICK p \in PathsOf(N, H, start, d) :
          \E n \in N : <<Last(p), n>> \in H /\ ~ Contains(p, n) /\ a = Append(p, n)
    BY <1>1 DEF Step
  <2>2. PICK n \in N : <<Last(p), n>> \in H /\ ~ Contains(p, n) /\ a = Append(p, n)
    BY <2>1
  <2>3. p \in Seq(N) /\ Len(p) = d + 1 /\ Simple(H, start, p)
    BY DEF PathsOf
  <2>4. a \in Seq(N) /\ Len(a) = (d + 1) + 1
    BY <2>2, <2>3, AppendIs
  <2>5. Simple(H, start, a)
    BY <2>2, <2>3, SimpleAppend
  <2> QED BY <2>4, <2>5 DEF PathsOf
<1>2. ASSUME NEW a \in PathsOf(N, H, start, d + 1) PROVE a \in Step(N, H, PathsOf(N, H, start, d))
  <2>1. a \in Seq(N) /\ Len(a) = (d + 1) + 1 /\ Simple(H, start, a) /\ d + 1 \in Nat
    BY DEF PathsOf
  <2> DEFINE n == a[(d + 1) + 1]
  <2>2. n \in N
    BY <2>1
  <2>3. PICK p \in Seq(N) : Len(p) = d + 1 /\ a = Append(p, n)
    BY <2>1, FrontIs
  <2> HIDE DEF n
  <2>4. Simple(H, start, p) /\ <<Last(p), n>> \in H /\ ~ Contains(p, n)
    <3>1. Len(p) >= 1
      BY <2>3
    <3> QED BY <2>1, <2>2, <2>3, <3>1, SimpleAppend
  <2>5. p \in PathsOf(N, H, start, d)
    BY <2>3, <2>4 DEF PathsOf
  <2>6. a \in {Append(p, x) : x \in {m \in N : <<Last(p), m>> \in H /\ ~ Contains(p, m)}}
    BY <2>2, <2>3, <2>4
  <2> QED BY <2>5, <2>6 DEF Step
<1> QED BY <1>1, <1>2

LEMMA StartIs ==
    ASSUME NEW N, NEW H, NEW start
    PROVE  {<<n>> : n \in N \cap {start}} = PathsOf(N, H, start, 0)
<1>1. ASSUME NEW n \in N \cap {start} PROVE <<n>> \in PathsOf(N, H, start, 0)
  <2>1. <<n>> \in Seq(N) /\ Len(<<n>>) = 1 /\ <<n>>[1] = start
    OBVIOUS
  <2> QED BY <2>1 DEF PathsOf, Simple
<1>2. ASSUME NEW p \in PathsOf(N, H, start, 0) PROVE p \in {<<n>> : n \in N \cap {start}}
  <2>1. p \in Seq(N) /\ Len(p) = 1 /\ p[1] = start
    BY DEF PathsOf, Simple
  <2>2. p = <<p[1]>> /\ p[1] \in N
    BY <2>1
  <2> QED BY <2>1, <2>2
<1> QED BY <1>1, <1>2

\* The rows of walk are the simple paths of up to depth hops.
LEMMA WalkIs ==
    ASSUME NEW N, NEW H, NEW start, NEW depth \in Nat
    PROVE  Walk(N, H, start, depth) = UNION {PathsOf(N, H, start, d) : d \in 0..depth}
<1> DEFINE Eq(h) == h = [d \in 0..depth |-> IF d = 0 THEN {<<n>> : n \in N \cap {start}} ELSE Step(N, H, h[d - 1])]
           f == [d \in 0..depth |-> PathsOf(N, H, start, d)]
<1>1. Eq(f)
  <2>1. ASSUME NEW d \in 0..depth
        PROVE  f[d] = IF d = 0 THEN {<<n>> : n \in N \cap {start}} ELSE Step(N, H, f[d - 1])
    <3>1. CASE d = 0
      BY <3>1, StartIs
    <3>2. CASE d # 0
      <4>1. d - 1 \in Nat /\ d - 1 \in 0..depth /\ (d - 1) + 1 = d
        BY <3>2
      <4>2. Step(N, H, PathsOf(N, H, start, d - 1)) = PathsOf(N, H, start, (d - 1) + 1)
        BY <4>1, StepIs
      <4> QED BY <3>2, <4>1, <4>2
    <3> QED BY <3>1, <3>2
  <2> QED BY <2>1
<1> DEFINE W == CHOOSE h : Eq(h)
<1>2. Eq(W)
  BY <1>1
<1>3. Walk(N, H, start, depth) = UNION {W[d] : d \in 0..depth}
  BY DEF Walk
<1> HIDE DEF W
<1>4. ASSUME NEW d \in 0..depth PROVE W[d] = PathsOf(N, H, start, d)
  <2> DEFINE K == {j \in Nat : j <= depth => W[j] = PathsOf(N, H, start, j)}
  <2>1. 0 \in K
    BY <1>2, StartIs
  <2>2. ASSUME NEW j \in Nat, j \in K PROVE j + 1 \in K
    <3> SUFFICES ASSUME j + 1 <= depth PROVE W[j + 1] = PathsOf(N, H, start, j + 1)
      OBVIOUS
    <3>1. j + 1 \in 0..depth /\ (j + 1) - 1 = j /\ j + 1 # 0 /\ W[j] = PathsOf(N, H, start, j)
      BY <2>2
    <3>2. W[j + 1] = Step(N, H, PathsOf(N, H, start, j))
      BY <1>2, <3>1
    <3> QED BY <3>2, StepIs
  <2>3. d \in K
    <3> HIDE DEF K
    <3> QED BY <2>1, <2>2, Counting
  <2> QED BY <2>3
<1> QED BY <1>3, <1>4

\* What a path reaches by k hops is within k hops.
LEMMA PathReaches ==
    ASSUME NEW N, NEW H, NEW start, NEW p \in Seq(N), Simple(H, start, p), NEW k \in 1..Len(p)
    PROVE  p[k] \in Ball(N, H, start, k - 1)
<1> DEFINE K == {j \in Nat : j + 1 <= Len(p) => p[j + 1] \in Ball(N, H, start, j)}
<1>1. 0 \in K
  <2>1. p[1] = start /\ (1 <= Len(p) => p[1] \in N)
    BY DEF Simple
  <2> QED BY <2>1, BallStarts
<1>2. ASSUME NEW j \in Nat, j \in K PROVE j + 1 \in K
  <2> SUFFICES ASSUME (j + 1) + 1 <= Len(p) PROVE p[(j + 1) + 1] \in Ball(N, H, start, j + 1)
    OBVIOUS
  <2>1. j + 1 \in 1..(Len(p) - 1) /\ p[(j + 1) + 1] \in N /\ p[j + 1] \in Ball(N, H, start, j)
    BY <1>2
  <2>2. <<p[j + 1], p[(j + 1) + 1]>> \in H
    BY <2>1 DEF Simple
  <2> QED BY <2>1, <2>2, BallGrows DEF Wider
<1>3. k - 1 \in K
  <2> HIDE DEF K
  <2> QED BY <1>1, <1>2, Counting
<1> QED BY <1>3

\* What is k hops away, and not fewer, is reached by a simple path of k hops.
LEMMA SphereReached ==
    ASSUME NEW N, NEW H, NEW start, NEW k \in Nat, NEW n \in Sphere(N, H, start, k)
    PROVE  \E p \in PathsOf(N, H, start, k) : Last(p) = n
<1> DEFINE K == {j \in Nat : \A x \in Sphere(N, H, start, j) :
                               \E p \in PathsOf(N, H, start, j) : Last(p) = x}
<1>1. 0 \in K
  <2> SUFFICES ASSUME NEW x \in Sphere(N, H, start, 0)
               PROVE  \E p \in PathsOf(N, H, start, 0) : Last(p) = x
    OBVIOUS
  <2>1. x \in N \cap {start}
    BY BallStarts DEF Sphere
  <2>2. <<x>> \in PathsOf(N, H, start, 0) /\ Last(<<x>>) = x
    BY <2>1, StartIs DEF Last
  <2> QED BY <2>2
<1>2. ASSUME NEW j \in Nat, j \in K PROVE j + 1 \in K
  <2> SUFFICES ASSUME NEW x \in Sphere(N, H, start, j + 1)
               PROVE  \E p \in PathsOf(N, H, start, j + 1) : Last(p) = x
    OBVIOUS
  <2>1. x \in Ball(N, H, start, j + 1) /\ x \notin Ball(N, H, start, j)
    <3>1. j + 1 # 0 /\ (j + 1) - 1 = j
      OBVIOUS
    <3> QED BY <3>1 DEF Sphere
  <2>2. x \in N /\ \E m \in Ball(N, H, start, j) : <<m, x>> \in H
    BY <2>1, BallGrows DEF Wider
  <2>3. PICK m \in Ball(N, H, start, j) : <<m, x>> \in H
    BY <2>2
  <2>4. m \in Sphere(N, H, start, j)
    <3>1. CASE j = 0
      BY <3>1 DEF Sphere
    <3>2. CASE j # 0
      <4> DEFINE i == j - 1
      <4>1. i \in Nat /\ i + 1 = j
        BY <3>2
      <4>2. Ball(N, H, start, i + 1) = Wider(N, H, Ball(N, H, start, i))
        BY <4>1, BallGrows
      <4>3. m \notin Ball(N, H, start, i)
        BY <2>1, <2>2, <2>3, <4>1, <4>2 DEF Wider
      <4> QED BY <3>2, <4>3 DEF Sphere
    <3> QED BY <3>1, <3>2
  <2>5. PICK p \in PathsOf(N, H, start, j) : Last(p) = m
    BY <1>2, <2>4
  <2>6. p \in Seq(N) /\ Len(p) = j + 1 /\ Simple(H, start, p)
    BY DEF PathsOf
  <2>7. ASSUME Contains(p, x) PROVE FALSE
    <3>1. PICK i \in 1..(j + 1) : p[i] = x
      BY <2>6, <2>7 DEF Contains
    <3>2. x \in Ball(N, H, start, i - 1)
      BY <2>6, <3>1, PathReaches
    <3>3. i - 1 \in Nat /\ i - 1 <= j
      BY <3>1
    <3>4. Ball(N, H, start, i - 1) \subseteq Ball(N, H, start, j)
      BY <3>3, BallMonotone
    <3> QED BY <2>1, <3>2, <3>4
  <2>8. /\ Append(p, x) \in Seq(N) /\ Len(Append(p, x)) = (j + 1) + 1
        /\ Append(p, x)[(j + 1) + 1] = x
    BY <2>2, <2>6, AppendIs
  <2>9. Simple(H, start, Append(p, x))
    <3>1. Len(p) >= 1
      BY <2>6
    <3> QED BY <2>2, <2>3, <2>5, <2>6, <2>7, <3>1, SimpleAppend
  <2>10. Append(p, x) \in PathsOf(N, H, start, j + 1) /\ Last(Append(p, x)) = x
    BY <2>8, <2>9 DEF PathsOf, Last
  <2> QED BY <2>10
<1>3. k \in K
  <2> HIDE DEF K
  <2> QED BY <1>1, <1>2, Counting
<1> QED BY <1>3

\* What is within k hops is some number of hops away, and not fewer.
LEMMA SphereOf ==
    ASSUME NEW N, NEW H, NEW start, NEW k \in Nat, NEW n \in Ball(N, H, start, k)
    PROVE  \E j \in 0..k : n \in Sphere(N, H, start, j)
<1> DEFINE T == {j \in Nat : n \in Ball(N, H, start, j)}
<1>1. T \subseteq Nat /\ k \in T
  OBVIOUS
<1>2. PICK j \in T : \A i \in T : j <= i
  <2> HIDE DEF T
  <2> QED BY <1>1, Least
<1>3. j \in 0..k
  BY <1>1, <1>2
<1>4. n \in Sphere(N, H, start, j)
  <2>1. CASE j = 0
    BY <2>1 DEF Sphere
  <2>2. CASE j # 0
    <3>1. j - 1 \in Nat /\ ~ (j <= j - 1)
      BY <2>2
    <3>2. n \notin Ball(N, H, start, j - 1)
      BY <1>2, <3>1
    <3> QED BY <2>2, <3>2 DEF Sphere
  <2> QED BY <2>1, <2>2
<1> QED BY <1>3, <1>4

RowsTo(N, H, start, depth, n) == {p \in Walk(N, H, start, depth) : Last(p) = n}

LEMMA RowsAre ==
    ASSUME NEW N, NEW H, NEW start, NEW depth \in Nat, NEW n
    PROVE  \A p : p \in RowsTo(N, H, start, depth, n) <=>
                     \E d \in 0..depth : p \in PathsOf(N, H, start, d) /\ Last(p) = n
BY WalkIs DEF RowsTo

\* An entity has a row if it is near enough, then it has a shortest one, and
\* that one tells how far it is.
LEMMA RowsReach ==
    ASSUME NEW N, NEW H, NEW start, NEW depth \in Nat, NEW n
    PROVE  /\ RowsTo(N, H, start, depth, n) # {} <=> n \in Ball(N, H, start, depth)
           /\ RowsTo(N, H, start, depth, n) # {} => Shortest(RowsTo(N, H, start, depth, n)) # {}
<1> DEFINE rows == RowsTo(N, H, start, depth, n)
<1>1. ASSUME NEW p \in rows PROVE n \in Ball(N, H, start, depth)
  <2>1. PICK d \in 0..depth : p \in PathsOf(N, H, start, d) /\ Last(p) = n
    BY RowsAre
  <2>2. p \in Seq(N) /\ Len(p) = d + 1 /\ Simple(H, start, p) /\ p[d + 1] = n
    BY <2>1 DEF PathsOf, Last
  <2>3. d + 1 \in 1..Len(p) /\ (d + 1) - 1 = d /\ d \in Nat /\ d <= depth
    BY <2>2
  <2>4. n \in Ball(N, H, start, d)
    BY <2>2, <2>3, PathReaches
  <2> QED BY <2>3, <2>4, BallMonotone
<1>2. ASSUME n \in Ball(N, H, start, depth) PROVE rows # {}
  <2>1. PICK j \in 0..depth : n \in Sphere(N, H, start, j)
    BY <1>2, SphereOf
  <2>2. PICK p \in PathsOf(N, H, start, j) : Last(p) = n
    BY <2>1, SphereReached
  <2> QED BY <2>1, <2>2, RowsAre
<1>3. ASSUME rows # {} PROVE Shortest(rows) # {}
  <2> DEFINE T == {Len(p) : p \in rows}
  <2>1. ASSUME NEW p \in rows PROVE Len(p) \in Nat
    <3>1. PICK d \in 0..depth : p \in PathsOf(N, H, start, d)
      BY RowsAre
    <3> QED BY <3>1 DEF PathsOf
  <2>2. T \subseteq Nat /\ T # {}
    BY <1>3, <2>1
  <2>3. PICK l \in T : \A m \in T : l <= m
    <3> HIDE DEF T
    <3> QED BY <2>2, Least
  <2>4. PICK p \in rows : l = Len(p)
    BY <2>3
  <2>5. p \in Shortest(rows)
    BY <2>3, <2>4 DEF Shortest
  <2> QED BY <2>5
<1> QED BY <1>1, <1>2, <1>3

LEMMA ShortestIs ==
    ASSUME NEW N, NEW H, NEW start, NEW depth \in Nat, NEW n,
           NEW p \in Shortest(RowsTo(N, H, start, depth, n))
    PROVE  \E d \in 0..depth : /\ p \in PathsOf(N, H, start, d) /\ Len(p) = d + 1 /\ Last(p) = n
                               /\ n \in Sphere(N, H, start, d)
<1> DEFINE rows == RowsTo(N, H, start, depth, n)
<1>1. p \in rows /\ \A q \in rows : Len(p) <= Len(q)
  BY DEF Shortest
<1>2. PICK d \in 0..depth : p \in PathsOf(N, H, start, d) /\ Last(p) = n
  BY <1>1, RowsAre
<1>3. p \in Seq(N) /\ Len(p) = d + 1 /\ Simple(H, start, p) /\ p[d + 1] = n
  BY <1>2 DEF PathsOf, Last
<1>4. d + 1 \in 1..Len(p) /\ (d + 1) - 1 = d /\ d \in Nat /\ d <= depth
  BY <1>3
<1>5. n \in Ball(N, H, start, d)
  BY <1>3, <1>4, PathReaches
<1>6. ASSUME d # 0, n \in Ball(N, H, start, d - 1) PROVE FALSE
  <2>1. d - 1 \in Nat
    BY <1>6
  <2>2. PICK j \in 0..(d - 1) : n \in Sphere(N, H, start, j)
    BY <1>6, <2>1, SphereOf
  <2>3. PICK q \in PathsOf(N, H, start, j) : Last(q) = n
    BY <2>2, SphereReached
  <2>4. j \in 0..depth /\ Len(q) = j + 1 /\ j < d
    BY <1>4, <2>2 DEF PathsOf
  <2>5. q \in rows
    BY <2>3, <2>4, RowsAre
  <2> QED BY <1>1, <1>3, <2>4, <2>5
<1>7. n \in Sphere(N, H, start, d)
  BY <1>5, <1>6 DEF Sphere
<1> QED BY <1>2, <1>3, <1>7

-----------------------------------------------------------------------------
(* ShortestPath.                                                            *)

LEMMA BothWays ==
    ASSUME NEW E, NEW N, E \subseteq N \X N
    PROVE  \A m, n : <<m, n>> \in Hops(E, "both") <=> <<n, m>> \in Hops(E, "both")
<1>1. Hops(E, "both") = E \cup {<<e[2], e[1]>> : e \in E}
  BY DEF Hops
<1>2. ASSUME NEW m, NEW n, <<m, n>> \in Hops(E, "both") PROVE <<n, m>> \in Hops(E, "both")
  <2>1. CASE <<m, n>> \in E
    <3>1. <<n, m>> = <<<<m, n>>[2], <<m, n>>[1]>>
      OBVIOUS
    <3> QED BY <1>1, <2>1, <3>1
  <2>2. CASE \E e \in E : <<m, n>> = <<e[2], e[1]>>
    <3>1. PICK e \in E : <<m, n>> = <<e[2], e[1]>>
      BY <2>2
    <3>2. e = <<n, m>>
      BY <3>1
    <3> QED BY <1>1, <3>2
  <2> QED BY <1>1, <1>2, <2>1, <2>2
<1> QED BY <1>2

\* A simple path backwards is one from its end.
LEMMA Backwards ==
    ASSUME NEW N, NEW H, \A m, n : <<m, n>> \in H <=> <<n, m>> \in H, NEW start, NEW d \in Nat,
           NEW p \in PathsOf(N, H, start, d)
    PROVE  /\ Reverse(p) \in PathsOf(N, H, Last(p), d) /\ Len(Reverse(p)) = Len(p)
           /\ Last(Reverse(p)) = start
<1> DEFINE r == [i \in 1..Len(p) |-> p[(Len(p) - i) + 1]]
           l == Len(p)
<1>1. p \in Seq(N) /\ l = d + 1 /\ Simple(H, start, p) /\ l \in Nat /\ l >= 1
  BY DEF PathsOf
<1>2. Reverse(p) = r
  BY DEF Reverse
<1>3. \A i \in 1..l : (l - i) + 1 \in 1..l /\ r[i] = p[(l - i) + 1]
  BY <1>1
<1>4. r \in Seq(N) /\ Len(r) = l
  BY <1>1, <1>3
<1>5. r[1] = Last(p)
  BY <1>1, <1>3 DEF Last
<1>6. Last(r) = start
  BY <1>1, <1>3, <1>4 DEF Last, Simple
<1> HIDE DEF r, l
<1>7. ASSUME NEW i \in 1..(l - 1) PROVE <<r[i], r[i + 1]>> \in H
  <2> DEFINE j == l - i
  <2>1. j \in 1..(l - 1) /\ i \in 1..l /\ i + 1 \in 1..l /\ (l - i) + 1 = j + 1 /\ (l - (i + 1)) + 1 = j
    BY <1>1
  <2>2. r[i] = p[j + 1] /\ r[i + 1] = p[j]
    BY <1>3, <2>1
  <2>3. <<p[j], p[j + 1]>> \in H
    BY <1>1, <2>1 DEF Simple, l
  <2> QED BY <2>2, <2>3
<1>8. ASSUME NEW i \in 1..l, NEW j \in 1..l, r[i] = r[j] PROVE i = j
  <2>1. (l - i) + 1 \in 1..l /\ (l - j) + 1 \in 1..l /\ p[(l - i) + 1] = p[(l - j) + 1]
    BY <1>3, <1>8
  <2>2. (l - i) + 1 = (l - j) + 1
    BY <1>1, <2>1 DEF Simple, l
  <2> QED BY <1>1, <2>2
<1>9. Simple(H, Last(p), r)
  BY <1>1, <1>4, <1>5, <1>7, <1>8 DEF Simple
<1> QED BY <1>1, <1>2, <1>4, <1>6, <1>9 DEF PathsOf, l

\* One of the shortest rows backwards is one of the shortest the other way.
LEMMA ShortestBackwards ==
    ASSUME NEW N, NEW H, \A m, n : <<m, n>> \in H <=> <<n, m>> \in H, NEW from, NEW to,
           NEW depth \in Nat, NEW p \in Shortest(RowsTo(N, H, from, depth, to))
    PROVE  Reverse(p) \in Shortest(RowsTo(N, H, to, depth, from))
<1>1. \A q \in RowsTo(N, H, from, depth, to) : Len(p) <= Len(q)
  BY DEF Shortest
<1>2. PICK d \in 0..depth : p \in PathsOf(N, H, from, d) /\ Last(p) = to
  BY ShortestIs
<1>3. Reverse(p) \in RowsTo(N, H, to, depth, from) /\ Len(Reverse(p)) = Len(p)
  BY <1>2, Backwards, RowsAre
<1>4. ASSUME NEW q \in RowsTo(N, H, to, depth, from) PROVE Len(Reverse(p)) <= Len(q)
  <2>1. PICK e \in 0..depth : q \in PathsOf(N, H, to, e) /\ Last(q) = from
    BY RowsAre
  <2>2. Reverse(q) \in RowsTo(N, H, from, depth, to) /\ Len(Reverse(q)) = Len(q)
    BY <2>1, Backwards, RowsAre
  <2> QED BY <1>1, <1>3, <2>2
<1> QED BY <1>3, <1>4 DEF Shortest

LEMMA PathsAreShortest ==
    ASSUME NEW from, NEW to, NEW depth \in Depths, edges \subseteq entities \X entities
    PROVE  ShortestPathIsShortest(from, to, depth)
<1> DEFINE H == Hops(edges, "both")
           k == PathDepth(depth)
           paths == ShortestPath(entities, edges, from, to, depth)
           rows == RowsTo(entities, H, from, k, to)
<1>1. k \in Nat
  BY WalkAssumption DEF PathDepth
<1>2. paths = Shortest(rows) /\ ShortestPath(entities, edges, to, from, depth) = Shortest(RowsTo(entities, H, to, k, from))
  BY DEF ShortestPath, RowsTo
<1>3. \A m, n : <<m, n>> \in H <=> <<n, m>> \in H
  BY BothWays
<1> HIDE DEF H, k
<1>4. paths # {} <=> to \in Ball(entities, H, from, k)
  <2>1. rows = {} => Shortest(rows) = {}
    BY DEF Shortest
  <2> QED BY <1>1, <1>2, <2>1, RowsReach
<1>5. ASSUME NEW p \in paths
      PROVE  /\ p[1] = from /\ Last(p) = to
             /\ \A i \in 1..(Len(p) - 1) : <<p[i], p[i + 1]>> \in H
             /\ to \in Sphere(entities, H, from, Len(p) - 1)
             /\ Reverse(p) \in ShortestPath(entities, edges, to, from, depth)
  <2>1. PICK d \in 0..k : /\ p \in PathsOf(entities, H, from, d) /\ Len(p) = d + 1 /\ Last(p) = to
                          /\ to \in Sphere(entities, H, from, d)
    BY <1>1, <1>2, ShortestIs
  <2>2. Len(p) - 1 = d
    BY <2>1
  <2>3. Reverse(p) \in Shortest(RowsTo(entities, H, to, k, from))
    BY <1>1, <1>2, <1>3, ShortestBackwards
  <2> QED BY <1>2, <2>1, <2>2, <2>3 DEF PathsOf, Simple
<1> QED BY <1>4, <1>5 DEF ShortestPathIsShortest, H, k

-----------------------------------------------------------------------------
(* Traverse.                                                                *)

\* What a function without repetitions makes of a finite set is as large.
LEMMA OneToOne ==
    ASSUME NEW S, IsFiniteSet(S), NEW g, DOMAIN g = S, \A x, y \in S : g[x] = g[y] => x = y
    PROVE  /\ IsFiniteSet({g[x] : x \in S})
           /\ Cardinality({g[x] : x \in S}) = Cardinality(S)
<1> DEFINE T == {g[x] : x \in S}
           h == [x \in S |-> g[x]]
<1>1. h \in [S -> T]
  OBVIOUS
<1>2. h \in Injection(S, T)
  BY <1>1 DEF Injection, IsInjective
<1>3. h \in Surjection(S, T)
  BY <1>1 DEF Surjection
<1>4. ExistsBijection(S, T)
  BY <1>2, <1>3 DEF ExistsBijection, Bijection
<1>5. IsFiniteSet(T) /\ Cardinality(T) = Cardinality(S)
  <2> HIDE DEF T
  <2> QED BY <1>4, FS_Bijection
<1> QED BY <1>5

\* What comes before i in an order of T.
Earlier(T, R, i) == {k \in T : <<k, i>> \in R}

StrictOrder(T, R) ==
    /\ \A i \in T : <<i, i>> \notin R
    /\ \A i, j, k \in T : <<i, j>> \in R /\ <<j, k>> \in R => <<i, k>> \in R
    /\ \A i, j \in T : i # j => <<i, j>> \in R \/ <<j, i>> \in R

\* The elements of T are numbered from 0 on by how many come before them.
LEMMA Numbered ==
    ASSUME NEW T, IsFiniteSet(T), NEW R, StrictOrder(T, R)
    PROVE  LET rank == [i \in T |-> Cardinality(Earlier(T, R, i))]
           IN  /\ rank \in [T -> 0..(Cardinality(T) - 1)]
               /\ \A i, j \in T : rank[i] = rank[j] => i = j
               /\ \A r \in 0..(Cardinality(T) - 1) : \E i \in T : rank[i] = r
<1> DEFINE n == Cardinality(T)
           rank == [i \in T |-> Cardinality(Earlier(T, R, i))]
<1>1. n \in Nat
  BY FS_CardinalityType
<1>2. ASSUME NEW i \in T PROVE IsFiniteSet(Earlier(T, R, i)) /\ rank[i] \in 0..(n - 1)
  <2>1. Earlier(T, R, i) \in SUBSET T /\ i \notin Earlier(T, R, i)
    BY DEF Earlier, StrictOrder
  <2>2. /\ IsFiniteSet(Earlier(T, R, i)) /\ Cardinality(Earlier(T, R, i)) <= n
        /\ Cardinality(Earlier(T, R, i)) # n
    BY <2>1, FS_Subset
  <2>3. Cardinality(Earlier(T, R, i)) \in Nat
    BY <2>2, FS_CardinalityType
  <2> QED BY <1>1, <2>2, <2>3
<1>3. ASSUME NEW i \in T, NEW j \in T, <<i, j>> \in R PROVE rank[i] # rank[j]
  <2>1. /\ Earlier(T, R, i) \in SUBSET Earlier(T, R, j)
        /\ i \in Earlier(T, R, j) /\ i \notin Earlier(T, R, i)
    BY <1>3 DEF Earlier, StrictOrder
  <2> QED BY <1>2, <2>1, FS_Subset
<1>4. rank \in [T -> 0..(n - 1)]
  BY <1>2
<1>5. \A i, j \in T : rank[i] = rank[j] => i = j
  <2> HIDE DEF rank
  <2> QED BY <1>3 DEF StrictOrder
<1>6. rank \in Injection(T, 0..(n - 1))
  <2> HIDE DEF rank
  <2> QED BY <1>4, <1>5 DEF Injection, IsInjective
<1>7. IsFiniteSet(0..(n - 1)) /\ Cardinality(0..(n - 1)) = n
  <2>1. 0 \in Int /\ n - 1 \in Int
    BY <1>1
  <2>2. IsFiniteSet(0..(n - 1)) /\ Cardinality(0..(n - 1)) = IF 0 > n - 1 THEN 0 ELSE ((n - 1) - 0) + 1
    BY <2>1, FS_Interval
  <2> QED BY <1>1, <2>2
<1> HIDE DEF rank
<1>8. rank \in Surjection(T, 0..(n - 1))
  BY <1>6, <1>7, FS_Injection
<1> QED BY <1>4, <1>5, <1>8 DEF Surjection, rank

\* LIMIT: the first limit elements, or all of them.
LEMMA FirstFew ==
    ASSUME NEW T, IsFiniteSet(T), NEW R, StrictOrder(T, R), NEW limit \in Nat
    PROVE  LET few == {i \in T : Cardinality(Earlier(T, R, i)) < limit}
           IN  /\ IsFiniteSet(few)
               /\ Cardinality(few) = IF Cardinality(T) < limit THEN Cardinality(T) ELSE limit
<1> DEFINE n == Cardinality(T)
           m == IF n < limit THEN n ELSE limit
           rank == [i \in T |-> Cardinality(Earlier(T, R, i))]
           F == {i \in T : rank[i] < limit}
           g == [i \in F |-> rank[i]]
<1>1. n \in Nat /\ m \in Nat /\ m <= n /\ m <= limit
  BY FS_CardinalityType
<1>2. F = {i \in T : Cardinality(Earlier(T, R, i)) < limit}
  OBVIOUS
<1>3. /\ rank \in [T -> 0..(n - 1)] /\ (\A i, j \in T : rank[i] = rank[j] => i = j)
      /\ \A r \in 0..(n - 1) : \E i \in T : rank[i] = r
  BY Numbered
<1> HIDE DEF rank, n
<1>4. IsFiniteSet(F)
  <2>1. F \in SUBSET T
    OBVIOUS
  <2> HIDE DEF F
  <2> QED BY <2>1, FS_Subset
<1>5. {g[i] : i \in F} = 0..(m - 1)
  <2>1. ASSUME NEW i \in F PROVE g[i] \in 0..(m - 1)
    <3>1. rank[i] \in 0..(n - 1) /\ rank[i] < limit
      BY <1>3
    <3> QED BY <1>1, <3>1
  <2>2. ASSUME NEW r \in 0..(m - 1) PROVE \E i \in F : g[i] = r
    <3>1. r \in 0..(n - 1) /\ r < limit
      BY <1>1
    <3> QED BY <1>3, <3>1
  <2> HIDE DEF g, F, m
  <2> QED BY <2>1, <2>2
<1>6. Cardinality({g[i] : i \in F}) = Cardinality(F)
  <2>1. DOMAIN g = F /\ \A x, y \in F : g[x] = g[y] => x = y
    BY <1>3
  <2> HIDE DEF g, F
  <2> QED BY <1>4, <2>1, OneToOne
<1>7. Cardinality(0..(m - 1)) = m
  <2>1. 0 \in Int /\ m - 1 \in Int
    BY <1>1
  <2> HIDE DEF m
  <2>2. Cardinality(0..(m - 1)) = IF 0 > m - 1 THEN 0 ELSE ((m - 1) - 0) + 1
    BY <2>1, FS_Interval
  <2> QED BY <1>1, <2>2
<1> HIDE DEF F, g, m
<1> QED BY <1>2, <1>4, <1>5, <1>6, <1>7 DEF m, n

\* An entity is that far away, or it is farther or nearer.
LEMMA SpheresApart ==
    ASSUME NEW N, NEW H, NEW start, NEW j \in Nat, NEW k \in Nat, NEW n,
           n \in Sphere(N, H, start, j), n \in Sphere(N, H, start, k)
    PROVE  j = k
<1>1. ASSUME NEW i \in Nat, NEW l \in Nat, i < l,
             n \in Sphere(N, H, start, i), n \in Sphere(N, H, start, l)
      PROVE  FALSE
  <2>1. l # 0 /\ l - 1 \in Nat /\ i <= l - 1
    BY <1>1
  <2>2. n \in Ball(N, H, start, i) /\ n \notin Ball(N, H, start, l - 1)
    BY <1>1, <2>1 DEF Sphere
  <2> QED BY <2>1, <2>2, BallMonotone
<1>2. j < k \/ k < j \/ j = k
  OBVIOUS
<1> QED BY <1>1, <1>2

\* The rows of Traverse to one entity: all the rows to it but the one of no
\* hop, which is to start alone.
LEMMA RowsOfTraverse ==
    ASSUME NEW N, NEW H, NEW start, NEW depth \in Nat, NEW n, NEW p \in RowsTo(N, H, start, depth, n)
    PROVE  Len(p) > 1 <=> n # start
<1>1. PICK d \in 0..depth : p \in PathsOf(N, H, start, d) /\ Last(p) = n
  BY RowsAre
<1>2. p \in Seq(N) /\ Len(p) = d + 1 /\ Simple(H, start, p) /\ p[d + 1] = n
  BY <1>1 DEF PathsOf, Last
<1>3. p[1] = start /\ \A i, j \in 1..(d + 1) : p[i] = p[j] => i = j
  BY <1>2 DEF Simple
<1>4. 1 \in 1..(d + 1) /\ d + 1 \in 1..(d + 1)
  OBVIOUS
<1> QED BY <1>2, <1>3, <1>4

LEMMA TraversesAreShortest ==
    ASSUME NEW start, NEW dir, NEW depth \in Depths, NEW limit \in Limits, NEW wanted,
           entities \subseteq Entities
    PROVE  TraversalIsBreadthFirst(start, dir, depth, limit, wanted)
<1> DEFINE H == Hops(edges, dir)
           D == TraverseDepth(depth)
           walk == Walk(entities, H, start, D)
           rows == {p \in walk : Len(p) > 1 /\ Last(p) \in wanted}
           ids == {Last(p) : p \in rows}
           row(n) == CHOOSE p \in Shortest({q \in rows : Last(q) = n}) : TRUE
           far == [n \in ids |-> [id |-> n, depth |-> Len(row(n)) - 1]]
           shown == {i \in ids : Cardinality({k \in ids : k < i}) < limit}
           all == UNION {{[id |-> n, depth |-> k] : n \in Sphere(entities, H, start, k) \cap wanted} :
                           k \in 1..D}
           got == Traverse(entities, edges, dir, start, depth, wanted, limit)
<1>1. D \in Nat /\ limit \in Nat
  BY WalkAssumption DEF TraverseDepth
<1>2. got = {far[n] : n \in shown}
  <2>1. got = {[id |-> n, depth |-> Len(row(n)) - 1] : n \in shown}
    BY DEF Traverse
  <2>2. \A n \in shown : far[n] = [id |-> n, depth |-> Len(row(n)) - 1]
    OBVIOUS
  <2> HIDE DEF far, shown, row
  <2> QED BY <2>1, <2>2
<1> HIDE DEF H, D
<1>3. ASSUME NEW n \in ids PROVE {q \in rows : Last(q) = n} = RowsTo(entities, H, start, D, n) /\ n # start /\ n \in wanted
  <2>1. PICK p \in rows : Last(p) = n
    OBVIOUS
  <2>2. p \in RowsTo(entities, H, start, D, n) /\ n \in wanted /\ Len(p) > 1
    BY <2>1 DEF RowsTo
  <2>3. n # start
    BY <1>1, <2>2, RowsOfTraverse
  <2>4. \A q \in RowsTo(entities, H, start, D, n) : Len(q) > 1
    BY <1>1, <2>3, RowsOfTraverse
  <2> QED BY <2>2, <2>3, <2>4 DEF RowsTo
<1>4. ASSUME NEW n \in ids
      PROVE  /\ Len(row(n)) - 1 \in 1..D
             /\ n \in Sphere(entities, H, start, Len(row(n)) - 1) /\ n \in wanted
  <2> DEFINE reach == RowsTo(entities, H, start, D, n)
  <2>1. {q \in rows : Last(q) = n} = reach /\ n # start /\ n \in wanted
    BY <1>3
  <2>2. reach # {}
    BY <2>1
  <2>3. Shortest(reach) # {}
    BY <1>1, <2>2, RowsReach
  <2>4. row(n) \in Shortest(reach)
    BY <2>1, <2>3
  <2> HIDE DEF row, reach
  <2>5. PICK d \in 0..D : /\ Len(row(n)) = d + 1
                         /\ n \in Sphere(entities, H, start, d)
    BY <1>1, <2>4, ShortestIs DEF reach
  <2>6. d # 0
    <3>1. ASSUME d = 0 PROVE FALSE
      <4>1. n \in entities \cap {start}
        BY <2>5, <3>1, BallStarts DEF Sphere
      <4> QED BY <2>1, <4>1
    <3> QED BY <3>1
  <2> QED BY <1>1, <2>1, <2>5, <2>6
<1>5. ASSUME NEW k \in 1..D, NEW n \in Sphere(entities, H, start, k) \cap wanted
      PROVE  n \in ids /\ far[n] = [id |-> n, depth |-> k]
  <2>1. PICK p \in PathsOf(entities, H, start, k) : Last(p) = n
    <3>1. k \in Nat
      BY <1>1
    <3> QED BY <3>1, SphereReached
  <2>2. p \in walk /\ Len(p) = k + 1 /\ Len(p) > 1
    <3>1. p \in RowsTo(entities, H, start, D, n) /\ k + 1 > 1
      BY <1>1, <2>1, RowsAre
    <3> QED BY <2>1, <3>1 DEF PathsOf, RowsTo
  <2>3. n \in ids
    BY <2>1, <2>2
  <2> HIDE DEF ids, row
  <2>4. Len(row(n)) - 1 \in 1..D /\ n \in Sphere(entities, H, start, Len(row(n)) - 1)
    BY <1>4, <2>3
  <2>5. Len(row(n)) - 1 = k
    <3>1. Len(row(n)) - 1 \in Nat /\ k \in Nat
      BY <1>1, <2>4
    <3> QED BY <2>4, <3>1, SpheresApart
  <2> QED BY <2>3, <2>5
<1>6. ids \subseteq Nat /\ IsFiniteSet(ids)
  <2>1. ids \subseteq entities
    <3> SUFFICES ASSUME NEW n \in ids PROVE n \in entities
      OBVIOUS
    <3> HIDE DEF ids, row
    <3>1. Len(row(n)) - 1 \in Nat /\ n \in Sphere(entities, H, start, Len(row(n)) - 1)
      BY <1>1, <1>4
    <3> QED BY <3>1, BallInside DEF Sphere
  <2> HIDE DEF ids
  <2>2. ids \in SUBSET Entities
    BY <2>1
  <2> QED BY <2>2, EntitiesAssumption, FS_Subset
<1>7. all = {far[n] : n \in ids}
  <2>1. ASSUME NEW a \in all PROVE a \in {far[n] : n \in ids}
    <3>1. PICK k \in 1..D : \E n \in Sphere(entities, H, start, k) \cap wanted : a = [id |-> n, depth |-> k]
      OBVIOUS
    <3>2. PICK n \in Sphere(entities, H, start, k) \cap wanted : a = [id |-> n, depth |-> k]
      BY <3>1
    <3>3. n \in ids /\ far[n] = a
      BY <1>5, <3>2
    <3> HIDE DEF far, ids
    <3> QED BY <3>3
  <2>2. ASSUME NEW n \in ids PROVE far[n] \in all
    <3>1. far[n] = [id |-> n, depth |-> Len(row(n)) - 1]
      OBVIOUS
    <3> HIDE DEF far, ids, row
    <3> QED BY <1>4, <3>1
  <2> HIDE DEF all, far, ids
  <2> QED BY <2>1, <2>2
<1>8. \A m, n \in ids : far[m] = far[n] => m = n
  <2> HIDE DEF ids, row
  <2> QED OBVIOUS
<1>9. Cardinality(all) = Cardinality(ids)
  <2>1. DOMAIN far = ids
    OBVIOUS
  <2> HIDE DEF ids, far
  <2> QED BY <1>6, <1>7, <1>8, <2>1, OneToOne
<1>10. Cardinality(shown) = IF Cardinality(ids) < limit THEN Cardinality(ids) ELSE limit
  <2> DEFINE R == {x \in ids \X ids : x[1] < x[2]}
  <2> HIDE DEF ids
  <2>1. \A i, j \in ids : <<i, j>> \in R <=> i < j
    OBVIOUS
  <2>2. \A i \in ids : Earlier(ids, R, i) = {k \in ids : k < i}
    BY <2>1 DEF Earlier
  <2>3. StrictOrder(ids, R)
    <3>1. \A i, j, k \in Nat : ~ (i < i) /\ (i < j /\ j < k => i < k) /\ (i # j => i < j \/ j < i)
      OBVIOUS
    <3> HIDE DEF R
    <3> QED BY <1>6, <2>1, <3>1 DEF StrictOrder
  <2>4. shown = {i \in ids : Cardinality(Earlier(ids, R, i)) < limit}
    BY <2>2
  <2> HIDE DEF R, shown
  <2> QED BY <1>1, <1>6, <2>3, <2>4, FirstFew
<1>11. shown \in SUBSET ids
  <2> HIDE DEF ids
  <2> QED OBVIOUS
<1>12. Cardinality(got) = Cardinality(shown)
  <2> DEFINE near == [n \in shown |-> far[n]]
  <2> HIDE DEF ids, far, shown
  <2>1. IsFiniteSet(shown)
    BY <1>6, <1>11, FS_Subset
  <2>2. DOMAIN near = shown /\ \A m, n \in shown : near[m] = near[n] => m = n
    BY <1>8, <1>11
  <2>3. got = {near[n] : n \in shown}
    <3> HIDE DEF got
    <3> QED BY <1>2
  <2> HIDE DEF near, got
  <2> QED BY <2>1, <2>2, <2>3, OneToOne
<1>13. got \subseteq all
  <2> HIDE DEF got, all, far, ids, shown
  <2> QED BY <1>2, <1>7, <1>11
<1>14. got \subseteq all /\ Cardinality(got) = IF Cardinality(all) < limit THEN Cardinality(all) ELSE limit
  <2> HIDE DEF got, all, far, ids, shown
  <2> QED BY <1>9, <1>10, <1>12, <1>13
<1> QED BY <1>14 DEF TraversalIsBreadthFirst, H, D

\* graph.go:61, 210: the two recursive queries find what a breadth-first search
\* finds, whatever the graph that entities and edges may have come to be.
THEOREM WalksFindTheNearest == ExplorerSpec => []WalksAreShortest
<1>1. ExplorerInit => LabelInv /\ MirrorShape
  BY LabelInitial
<1>2. LabelInv /\ MirrorShape /\ [ExplorerNext]_explorerVars => (LabelInv /\ MirrorShape)'
  BY LabelStep
<1>3. LabelInv => WalksAreShortest
  <2> SUFFICES ASSUME LabelInv, NEW start \in Entities, NEW depth \in Depths
               PROVE  /\ \A to \in Entities : ShortestPathIsShortest(start, to, depth)
                      /\ \A dir \in Directions, limit \in Limits :
                            \A wanted \in {entities} \cup {entities \ {e} : e \in entities} :
                                TraversalIsBreadthFirst(start, dir, depth, limit, wanted)
    BY DEF WalksAreShortest
  <2>1. entities \subseteq Entities /\ edges \subseteq entities \X entities
    BY DEF LabelInv, Typed
  <2> QED BY <2>1, PathsAreShortest, TraversesAreShortest
<1> QED BY <1>1, <1>2, <1>3, PTL DEF ExplorerSpec

-----------------------------------------------------------------------------
(* The spine.                                                               *)

\* The hops of the spine's walk, among the entities N.
HubHops(N, E, root, q) ==
    {h \in N \X N : Expanded(q, root, h[1]) /\ Reaching(E, h[1], h[2]) # {}}

LEMMA HubBallIs ==
    ASSUME NEW N, NEW M, M \subseteq N, NEW E, NEW root \in M, NEW q, NEW k \in Nat
    PROVE  HubBall(M, E, root, q, k) = Ball(M, HubHops(N, E, root, q), root, k)
<1> DEFINE H == HubHops(N, E, root, q)
           Eq(h) == h = [d \in 0..k |->
                           IF d = 0 THEN {root}
                           ELSE h[d - 1] \cup {x \in M : \E m \in h[d - 1] :
                                                  Expanded(q, root, m) /\ Reaching(E, m, x) # {}}]
           f == [d \in 0..k |-> Ball(M, H, root, d)]
<1>1. Ball(M, H, root, 0) = {root}
  <2>1. M \cap {root} = {root}
    OBVIOUS
  <2> QED BY <2>1, BallStarts
<1>2. ASSUME NEW j \in Nat
      PROVE  Ball(M, H, root, j + 1) = Ball(M, H, root, j) \cup
               {x \in M : \E m \in Ball(M, H, root, j) : Expanded(q, root, m) /\ Reaching(E, m, x) # {}}
  <2>1. Ball(M, H, root, j + 1) = Wider(M, H, Ball(M, H, root, j))
    BY BallGrows
  <2>2. Ball(M, H, root, j) \subseteq N
    BY BallInside
  <2>3. \A m \in Ball(M, H, root, j), x \in M :
          <<m, x>> \in H <=> Expanded(q, root, m) /\ Reaching(E, m, x) # {}
    BY <2>2 DEF HubHops
  <2> HIDE DEF H
  <2> QED BY <2>1, <2>3 DEF Wider
<1> HIDE DEF H
<1>3. Eq(f)
  <2>1. ASSUME NEW d \in 0..k
        PROVE  f[d] = IF d = 0 THEN {root}
                      ELSE f[d - 1] \cup {x \in M : \E m \in f[d - 1] :
                                             Expanded(q, root, m) /\ Reaching(E, m, x) # {}}
    <3>1. CASE d = 0
      BY <1>1, <3>1
    <3>2. CASE d # 0
      <4> DEFINE j == d - 1
      <4>1. j \in Nat /\ j \in 0..k /\ j + 1 = d
        BY <3>2
      <4> HIDE DEF j
      <4>2. f[d] = Ball(M, H, root, j + 1) /\ f[j] = Ball(M, H, root, j)
        BY <4>1
      <4> HIDE DEF f
      <4>3. f[d] = f[j] \cup {x \in M : \E m \in f[j] : Expanded(q, root, m) /\ Reaching(E, m, x) # {}}
        BY <1>2, <4>1, <4>2
      <4> QED BY <3>2, <4>3 DEF j
    <3> QED BY <3>1, <3>2
  <2> QED BY <2>1
<1> DEFINE B == CHOOSE h : Eq(h)
<1>4. Eq(B)
  BY <1>3
<1>5. HubBall(M, E, root, q, k) = B[k]
  BY DEF HubBall
<1> HIDE DEF B
<1>9. \A d \in 0..k : B[d] = IF d = 0 THEN {root}
                             ELSE B[d - 1] \cup {x \in M : \E m \in B[d - 1] :
                                                    Expanded(q, root, m) /\ Reaching(E, m, x) # {}}
  BY <1>4
<1> HIDE DEF Eq
<1> DEFINE K == {j \in Nat : j <= k => B[j] = Ball(M, H, root, j)}
<1>6. 0 \in K
  <2>1. 0 \in 0..k
    OBVIOUS
  <2>2. B[0] = {root}
    BY <1>9, <2>1
  <2> QED BY <1>1, <2>2
<1>7. ASSUME NEW j \in Nat, j \in K PROVE j + 1 \in K
  <2> SUFFICES ASSUME j + 1 <= k PROVE B[j + 1] = Ball(M, H, root, j + 1)
    OBVIOUS
  <2>1. j + 1 \in 0..k /\ (j + 1) - 1 = j /\ j + 1 # 0 /\ B[j] = Ball(M, H, root, j)
    BY <1>7
  <2>2. B[j + 1] = B[j] \cup {x \in M : \E m \in B[j] : Expanded(q, root, m) /\ Reaching(E, m, x) # {}}
    <3> DEFINE e == j + 1
    <3>1. e \in 0..k /\ e # 0 /\ e - 1 = j
      BY <2>1
    <3> HIDE DEF e
    <3>2. B[e] = B[j] \cup {x \in M : \E m \in B[j] : Expanded(q, root, m) /\ Reaching(E, m, x) # {}}
      BY <1>9, <3>1
    <3> QED BY <3>2 DEF e
  <2> QED BY <1>2, <2>1, <2>2
<1>8. k \in K
  <2> HIDE DEF K
  <2> QED BY <1>6, <1>7, Counting
<1> QED BY <1>5, <1>8 DEF H

\* When the edge that reached the end of a path may have begun.
Begun(E, p) == IF Len(p) = 1 THEN {0} ELSE Reaching(E, p[Len(p) - 1], p[Len(p)])

SpineRows(N, E, root, q, d) ==
    UNION {{[path |-> p, at |-> t] : t \in Begun(E, p)} : p \in PathsOf(N, HubHops(N, E, root, q), root, d)}

LEMMA SpineRowsAre ==
    ASSUME NEW N, NEW E, NEW root, NEW q, NEW d \in Nat
    PROVE  \A w : w \in SpineRows(N, E, root, q, d) <=>
                    /\ w = [path |-> w.path, at |-> w.at]
                    /\ w.path \in PathsOf(N, HubHops(N, E, root, q), root, d)
                    /\ w.at \in Begun(E, w.path)
<1> DEFINE P == PathsOf(N, HubHops(N, E, root, q), root, d)
<1> HIDE DEF P
<1>1. \A w : w \in UNION {{[path |-> p, at |-> t] : t \in Begun(E, p)} : p \in P} <=>
                    /\ w = [path |-> w.path, at |-> w.at]
                    /\ w.path \in P
                    /\ w.at \in Begun(E, w.path)
  <2>1. ASSUME NEW w, w \in UNION {{[path |-> p, at |-> t] : t \in Begun(E, p)} : p \in P}
        PROVE  w = [path |-> w.path, at |-> w.at] /\ w.path \in P /\ w.at \in Begun(E, w.path)
    <3>1. PICK p \in P : w \in {[path |-> p, at |-> t] : t \in Begun(E, p)}
      BY <2>1
    <3>2. PICK t \in Begun(E, p) : w = [path |-> p, at |-> t]
      BY <3>1
    <3> QED BY <3>2
  <2>2. ASSUME NEW w, w = [path |-> w.path, at |-> w.at], w.path \in P, w.at \in Begun(E, w.path)
        PROVE  w \in UNION {{[path |-> p, at |-> t] : t \in Begun(E, p)} : p \in P}
    <3>1. w \in {[path |-> w.path, at |-> t] : t \in Begun(E, w.path)}
      BY <2>2
    <3> QED BY <2>2, <3>1
  <2> QED BY <2>1, <2>2
<1> QED BY <1>1 DEF P, SpineRows

\* A path of hub hops has an edge that reached its end.
LEMMA BegunIs ==
    ASSUME NEW N, NEW E, NEW root, NEW q, NEW p \in Seq(N), Simple(HubHops(N, E, root, q), root, p)
    PROVE  Begun(E, p) # {}
<1>1. CASE Len(p) = 1
  BY <1>1 DEF Begun
<1>2. CASE Len(p) # 1
  <2> DEFINE l == Len(p)
             i == l - 1
  <2>1. l \in Nat /\ l >= 1 /\ l # 1
    BY <1>2 DEF Simple
  <2> HIDE DEF l
  <2>2. i \in 1..(l - 1) /\ i + 1 = l
    BY <2>1
  <2>3. <<p[i], p[i + 1]>> \in HubHops(N, E, root, q)
    <3> HIDE DEF i
    <3> QED BY <2>2 DEF Simple, l
  <2> HIDE DEF i
  <2>4. Reaching(E, p[i], p[i + 1]) # {}
    BY <2>3 DEF HubHops
  <2> QED BY <1>2, <2>2, <2>4 DEF Begun, i, l
<1> QED BY <1>1, <1>2

SpineStep(N, E, root, q, X) ==
    LET Grow(w, n) == {[path |-> Append(w.path, n), at |-> t] : t \in Reaching(E, Last(w.path), n)}
    IN  UNION {Grow(x[1], x[2]) : x \in {y \in X \X N :
                   Expanded(q, root, Last(y[1].path)) /\ ~ Contains(y[1].path, y[2])}}

\* What the last edge of a longer path is.
LEMMA BegunAppend ==
    ASSUME NEW N, NEW E, NEW p \in Seq(N), NEW n \in N, Len(p) >= 1
    PROVE  Begun(E, Append(p, n)) = Reaching(E, Last(p), n)
<1> DEFINE a == Append(p, n)
           l == Len(p)
<1>1. l \in Nat /\ l >= 1 /\ Len(a) = l + 1 /\ a[l] = p[l] /\ a[l + 1] = n
  BY AppendIs
<1>2. l + 1 # 1 /\ (l + 1) - 1 = l
  BY <1>1
<1> HIDE DEF a
<1> QED BY <1>1, <1>2 DEF Begun, Last, a

\* The recursive term of the spine finds the rows that are one hop longer.
LEMMA SpineStepIs ==
    ASSUME NEW N, NEW E, NEW root, NEW q, NEW d \in Nat
    PROVE  SpineStep(N, E, root, q, SpineRows(N, E, root, q, d)) = SpineRows(N, E, root, q, d + 1)
<1> DEFINE H == HubHops(N, E, root, q)
           X == SpineRows(N, E, root, q, d)
           Grow(w, n) == {[path |-> Append(w.path, n), at |-> t] : t \in Reaching(E, Last(w.path), n)}
           C == {y \in X \X N : Expanded(q, root, Last(y[1].path)) /\ ~ Contains(y[1].path, y[2])}
<1>1. SpineStep(N, E, root, q, X) = UNION {Grow(x[1], x[2]) : x \in C}
  BY DEF SpineStep
<1>2. ASSUME NEW p \in Seq(N), NEW n \in N, Len(p) >= 1, Expanded(q, root, Last(p)), Reaching(E, Last(p), n) # {}
      PROVE  <<Last(p), n>> \in H
  <2>1. Last(p) \in N
    BY <1>2 DEF Last
  <2> QED BY <1>2, <2>1 DEF HubHops
<1>3. ASSUME NEW p \in Seq(N), NEW n \in N, <<Last(p), n>> \in H
      PROVE  Expanded(q, root, Last(p))
  BY <1>3 DEF HubHops
<1> HIDE DEF H
<1>4. ASSUME NEW a \in SpineStep(N, E, root, q, X) PROVE a \in SpineRows(N, E, root, q, d + 1)
  <2>1. PICK x \in C : a \in Grow(x[1], x[2])
    BY <1>1
  <2> DEFINE w == x[1]
             n == x[2]
             p == w.path
  <2>2. w \in X /\ n \in N /\ Expanded(q, root, Last(p)) /\ ~ Contains(p, n)
    OBVIOUS
  <2>3. a \in Grow(w, n)
    BY <2>1
  <2> HIDE DEF w, n, C
  <2>4. p \in PathsOf(N, H, root, d)
    BY <2>2, SpineRowsAre DEF H
  <2>5. p \in Seq(N) /\ Len(p) = d + 1 /\ Simple(H, root, p)
    BY <2>4 DEF PathsOf
  <2> HIDE DEF X
  <2>6. PICK t \in Reaching(E, Last(p), n) : a = [path |-> Append(p, n), at |-> t]
    BY <2>3
  <2>7. a.path = Append(p, n) /\ a.at = t /\ a = [path |-> a.path, at |-> a.at]
    BY <2>6
  <2> HIDE DEF p
  <2>8. Len(p) >= 1
    BY <2>5
  <2>9. Simple(H, root, Append(p, n))
    BY <1>2, <2>2, <2>5, <2>6, <2>8, SimpleAppend
  <2>10. Append(p, n) \in PathsOf(N, H, root, d + 1)
    <3>1. Append(p, n) \in Seq(N) /\ Len(Append(p, n)) = (d + 1) + 1
      BY <2>2, <2>5, AppendIs
    <3> QED BY <2>9, <3>1 DEF PathsOf
  <2>11. Begun(E, Append(p, n)) = Reaching(E, Last(p), n)
    BY <2>2, <2>5, <2>8, BegunAppend
  <2>12. d + 1 \in Nat
    OBVIOUS
  <2>13. a.path \in PathsOf(N, HubHops(N, E, root, q), root, d + 1) /\ a.at \in Begun(E, a.path)
    BY <2>6, <2>7, <2>10, <2>11 DEF H
  <2> QED BY <2>7, <2>12, <2>13, SpineRowsAre
<1>5. ASSUME NEW a \in SpineRows(N, E, root, q, d + 1) PROVE a \in SpineStep(N, E, root, q, X)
  <2> DEFINE r == a.path
             n == r[(d + 1) + 1]
  <2>1. d + 1 \in Nat
    OBVIOUS
  <2>2. a = [path |-> a.path, at |-> a.at] /\ r \in PathsOf(N, H, root, d + 1) /\ a.at \in Begun(E, r)
    BY <2>1, SpineRowsAre DEF H
  <2> HIDE DEF r
  <2>3. r \in Seq(N) /\ Len(r) = (d + 1) + 1 /\ Simple(H, root, r)
    BY <2>2 DEF PathsOf
  <2>4. n \in N
    BY <2>3
  <2>5. PICK p \in Seq(N) : Len(p) = d + 1 /\ r = Append(p, n)
    BY <2>1, <2>3, FrontIs
  <2> HIDE DEF n
  <2>6. Len(p) >= 1
    BY <2>5
  <2>7. Simple(H, root, p) /\ <<Last(p), n>> \in H /\ ~ Contains(p, n)
    BY <2>3, <2>4, <2>5, <2>6, SimpleAppend
  <2>8. Begun(E, p) # {}
    BY <2>7, BegunIs DEF H
  <2>9. PICK t : t \in Begun(E, p)
    BY <2>8
  <2> DEFINE w == [path |-> p, at |-> t]
  <2>10. w \in X
    <3>1. p \in PathsOf(N, HubHops(N, E, root, q), root, d)
      BY <2>5, <2>7 DEF PathsOf, H
    <3> QED BY <2>9, <3>1, SpineRowsAre
  <2>11. w.path = p
    OBVIOUS
  <2> HIDE DEF w, X
  <2>12. <<w, n>> \in C
    <3>1. Expanded(q, root, Last(p))
      BY <1>3, <2>4, <2>7
    <3> QED BY <2>4, <2>7, <2>10, <2>11, <3>1
  <2>13. a \in Grow(w, n)
    <3>1. Begun(E, r) = Reaching(E, Last(p), n)
      BY <2>4, <2>5, <2>6, BegunAppend
    <3>2. a = [path |-> Append(p, n), at |-> a.at] /\ a.at \in Reaching(E, Last(p), n)
      BY <2>2, <2>5, <3>1 DEF r
    <3> QED BY <2>11, <3>2
  <2>14. Grow(<<w, n>>[1], <<w, n>>[2]) \in {Grow(x[1], x[2]) : x \in C}
    <3> HIDE DEF C
    <3> QED BY <2>12
  <2>15. Grow(<<w, n>>[1], <<w, n>>[2]) = Grow(w, n)
    OBVIOUS
  <2> HIDE DEF Grow, C
  <2> QED BY <1>1, <2>13, <2>14, <2>15
<1> QED BY <1>4, <1>5

\* The rows of the spine's walk are the paths through hubs of up to its depth.
LEMMA SpineWalkIs ==
    ASSUME NEW N, NEW E, NEW root \in N, NEW q, SpineDepth(q) \in Nat
    PROVE  SpineWalk(N, E, root, q) = UNION {SpineRows(N, E, root, q, d) : d \in 0..SpineDepth(q)}
<1> DEFINE D == SpineDepth(q)
           R(d) == SpineRows(N, E, root, q, d)
           Grow(w, n) == {[path |-> Append(w.path, n), at |-> t] : t \in Reaching(E, Last(w.path), n)}
           Eq(h) == h = [d \in 0..D |->
                           IF d = 0 THEN {[path |-> <<root>>, at |-> 0]}
                           ELSE UNION {Grow(x[1], x[2]) : x \in {y \in h[d - 1] \X N :
                                    Expanded(q, root, Last(y[1].path)) /\ ~ Contains(y[1].path, y[2])}}]
           W == CHOOSE h : Eq(h)
           f == [d \in 0..D |-> R(d)]
<1>1. R(0) = {[path |-> <<root>>, at |-> 0]}
  <2>1. PathsOf(N, HubHops(N, E, root, q), root, 0) = {<<root>>}
    <3>1. N \cap {root} = {root} /\ {<<n>> : n \in {root}} = {<<root>>}
      OBVIOUS
    <3> QED BY <3>1, StartIs
  <2>2. Begun(E, <<root>>) = {0}
    BY DEF Begun
  <2> QED BY <2>1, <2>2 DEF SpineRows
<1>2. ASSUME NEW d \in Nat
      PROVE  R(d + 1) = UNION {Grow(x[1], x[2]) : x \in {y \in R(d) \X N :
                                  Expanded(q, root, Last(y[1].path)) /\ ~ Contains(y[1].path, y[2])}}
  <2>1. SpineStep(N, E, root, q, R(d)) = R(d + 1)
    BY SpineStepIs
  <2> HIDE DEF R
  <2> QED BY <2>1 DEF SpineStep
<1>3. SpineWalk(N, E, root, q) = UNION {W[d] : d \in 0..D}
  BY DEF SpineWalk
<1> HIDE DEF R, D
<1> DEFINE Onward(X) == UNION {Grow(x[1], x[2]) : x \in {y \in X \X N :
                                Expanded(q, root, Last(y[1].path)) /\ ~ Contains(y[1].path, y[2])}}
<1>4. \A h : Eq(h) <=> h = [d \in 0..D |-> IF d = 0 THEN {[path |-> <<root>>, at |-> 0]} ELSE Onward(h[d - 1])]
  OBVIOUS
<1>5. \A d \in Nat : R(d + 1) = Onward(R(d))
  BY <1>2
<1> HIDE DEF Onward, Eq, W
<1>6. Eq(f)
  <2>1. ASSUME NEW d \in 0..D
        PROVE  f[d] = IF d = 0 THEN {[path |-> <<root>>, at |-> 0]} ELSE Onward(f[d - 1])
    <3>1. CASE d = 0
      BY <1>1, <3>1
    <3>2. CASE d # 0
      <4> DEFINE j == d - 1
      <4>1. j \in Nat /\ j \in 0..D /\ j + 1 = d
        BY <3>2, SpineDepth(q) \in Nat DEF D
      <4> HIDE DEF j
      <4>2. f[d] = R(j + 1) /\ f[j] = R(j)
        BY <4>1
      <4> HIDE DEF f
      <4> QED BY <1>5, <3>2, <4>1, <4>2 DEF j
    <3> QED BY <3>1, <3>2
  <2> QED BY <1>4, <2>1
<1>7. Eq(W)
  BY <1>6 DEF W
<1>8. \A d \in 0..D : W[d] = IF d = 0 THEN {[path |-> <<root>>, at |-> 0]} ELSE Onward(W[d - 1])
  <2>1. W = [d \in 0..D |-> IF d = 0 THEN {[path |-> <<root>>, at |-> 0]} ELSE Onward(W[d - 1])]
    BY <1>4, <1>7
  <2> QED BY <2>1
<1>9. ASSUME NEW d \in 0..D PROVE W[d] = R(d)
  <2> DEFINE K == {j \in Nat : j <= D => W[j] = R(j)}
  <2>0. D \in Nat /\ d \in Nat
    BY DEF D
  <2>1. 0 \in K
    <3>1. 0 \in 0..D
      BY <2>0
    <3>2. W[0] = {[path |-> <<root>>, at |-> 0]}
      BY <1>8, <3>1
    <3> QED BY <1>1, <3>2
  <2>2. ASSUME NEW j \in Nat, j \in K PROVE j + 1 \in K
    <3> SUFFICES ASSUME j + 1 <= D PROVE W[j + 1] = R(j + 1)
      OBVIOUS
    <3> DEFINE e == j + 1
    <3>1. e \in 0..D /\ e - 1 = j /\ e # 0 /\ W[j] = R(j)
      BY <2>0, <2>2
    <3> HIDE DEF e
    <3>2. W[e] = Onward(R(j))
      BY <1>8, <3>1
    <3> QED BY <1>5, <3>2 DEF e
  <2>3. d \in K
    <3> HIDE DEF K
    <3> QED BY <2>0, <2>1, <2>2, Counting
  <2> QED BY <2>0, <2>3
<1> QED BY <1>3, <1>9 DEF D, R

\* The rows to n that Spine keeps.
KeptRows(N, E, root, q, n) ==
    {w \in SpineWalk(N, E, root, q) :
        Len(w.path) > 1 /\ InTime(q, n, w.at) /\ Asked(q, n) /\ Last(w.path) = n}

LEMMA KeptRowIs ==
    ASSUME NEW N, NEW E, NEW root \in N, NEW q, SpineDepth(q) \in Nat, NEW n,
           NEW w \in KeptRows(N, E, root, q, n)
    PROVE  \E d \in 1..SpineDepth(q) :
             /\ w.path \in PathsOf(N, HubHops(N, E, root, q), root, d)
             /\ w.path \in Seq(N) /\ Len(w.path) = d + 1 /\ w.path[d + 1] = n
             /\ w.at \in Reaching(E, w.path[d], n)
             /\ InTime(q, n, w.at) /\ Asked(q, n)
<1>1. w \in SpineWalk(N, E, root, q) /\ Len(w.path) > 1 /\ InTime(q, n, w.at) /\ Asked(q, n) /\ Last(w.path) = n
  BY DEF KeptRows
<1>2. PICK d \in 0..SpineDepth(q) : w \in SpineRows(N, E, root, q, d)
  BY <1>1, SpineWalkIs
<1> DEFINE p == w.path
<1>3. p \in PathsOf(N, HubHops(N, E, root, q), root, d) /\ w.at \in Begun(E, p)
  BY <1>2, SpineRowsAre
<1> HIDE DEF p
<1>4. p \in Seq(N) /\ Len(p) = d + 1
  BY <1>3 DEF PathsOf
<1>5. d # 0 /\ d \in 1..SpineDepth(q) /\ d + 1 # 1 /\ (d + 1) - 1 = d
  BY <1>1, <1>4 DEF p
<1>6. p[d + 1] = n
  BY <1>1, <1>4 DEF p, Last
<1>7. w.at \in Reaching(E, p[d], n)
  BY <1>3, <1>4, <1>5, <1>6 DEF Begun
<1> QED BY <1>1, <1>3, <1>4, <1>5, <1>6, <1>7 DEF p

\* An entity has a row that is kept just if it belongs to the answer.
LEMMA KeptIsBelonging ==
    ASSUME NEW N, NEW E, NEW root \in N, NEW q, SpineDepth(q) \in Nat, SpineDepth(q) >= 1, NEW n
    PROVE  KeptRows(N, E, root, q, n) # {} <=> n \in N /\ Belongs(N, E, root, q, n)
<1> DEFINE D == SpineDepth(q)
           H == HubHops(N, E, root, q)
           M == N \ {n}
<1>1. D - 1 \in Nat
  OBVIOUS
<1>2. n # root => HubBall(M, E, root, q, D - 1) = Ball(M, H, root, D - 1)
  <2> DEFINE k == D - 1
  <2>1. k \in Nat
    BY <1>1
  <2>2. M \subseteq N /\ (n # root => root \in M)
    OBVIOUS
  <2> HIDE DEF k, M
  <2>3. n # root => HubBall(M, E, root, q, k) = Ball(M, H, root, k)
    BY <2>1, <2>2, HubBallIs
  <2> QED BY <2>3 DEF k
<1>3. ASSUME NEW w \in KeptRows(N, E, root, q, n) PROVE n \in N /\ Belongs(N, E, root, q, n)
  <2> DEFINE p == w.path
  <2>1. PICK d \in 1..D :
             /\ p \in PathsOf(N, H, root, d)
             /\ p \in Seq(N) /\ Len(p) = d + 1 /\ p[d + 1] = n
             /\ w.at \in Reaching(E, p[d], n)
             /\ InTime(q, n, w.at) /\ Asked(q, n)
    BY KeptRowIs
  <2> HIDE DEF p, H, D
  <2>2. n \in N /\ d \in Nat /\ d >= 1 /\ d <= D
    BY <1>1, <2>1 DEF D
  <2>3. Simple(H, root, p)
    BY <2>1 DEF PathsOf
  <2>4. PICK f \in Seq(N) : Len(f) = d /\ p = Append(f, p[d + 1]) /\ \A i \in 1..d : f[i] = p[i]
    BY <2>1, <2>2, FrontIs
  <2>5. p = Append(f, n)
    BY <2>1, <2>4
  <2>6. Simple(H, root, f) /\ <<Last(f), n>> \in H /\ ~ Contains(f, n)
    <3>1. Len(f) >= 1
      BY <2>2, <2>4
    <3> QED BY <2>2, <2>3, <2>5, <3>1, SimpleAppend
  <2>7. f \in Seq(M)
    <3>1. \A i \in 1..d : f[i] \in N /\ f[i] # n
      BY <2>4, <2>6 DEF Contains
    <3>2. f = [i \in 1..d |-> f[i]]
      BY <2>4
    <3> QED BY <2>2, <3>1, <3>2
  <2>8. n # root
    <3>1. f[1] = root /\ 1 \in 1..d
      BY <2>2, <2>6 DEF Simple
    <3> QED BY <2>4, <2>6, <3>1 DEF Contains
  <2>9. Last(f) = p[d] /\ Last(f) = f[d]
    BY <2>2, <2>4 DEF Last
  <2>10. f[d] \in Ball(M, H, root, d - 1)
    <3>1. d \in 1..Len(f)
      BY <2>2, <2>4
    <3> HIDE DEF M
    <3> QED BY <2>6, <2>7, <3>1, PathReaches
  <2>11. Ball(M, H, root, d - 1) \subseteq Ball(M, H, root, D - 1)
    <3> DEFINE i == d - 1
               j == D - 1
    <3>1. i \in Nat /\ j \in Nat /\ i <= j
      BY <1>1, <2>2 DEF D
    <3> HIDE DEF i, j, M
    <3>2. Ball(M, H, root, i) \subseteq Ball(M, H, root, j)
      BY <3>1, BallMonotone
    <3> QED BY <3>2 DEF i, j
  <2>12. Last(f) \in HubBall(M, E, root, q, D - 1)
    BY <1>2, <2>8, <2>9, <2>10, <2>11
  <2>13. Expanded(q, root, Last(f))
    BY <2>6 DEF H, HubHops
  <2>14. w.at \in Reaching(E, Last(f), n) /\ InTime(q, n, w.at) /\ Asked(q, n)
    BY <2>1, <2>9
  <2> QED BY <2>2, <2>8, <2>12, <2>13, <2>14 DEF Belongs, D
<1>4. ASSUME n \in N, Belongs(N, E, root, q, n) PROVE KeptRows(N, E, root, q, n) # {}
  <2>1. n # root /\ Asked(q, n)
    BY <1>4 DEF Belongs
  <2>2. PICK m \in HubBall(M, E, root, q, D - 1) :
          Expanded(q, root, m) /\ \E at \in Reaching(E, m, n) : InTime(q, n, at)
    BY <1>4 DEF Belongs
  <2>3. PICK at \in Reaching(E, m, n) : InTime(q, n, at)
    BY <2>2
  <2> HIDE DEF H, M, D
  <2>4. m \in Ball(M, H, root, D - 1)
    BY <1>2, <2>1, <2>2
  <2>5. PICK j \in 0..(D - 1) : m \in Sphere(M, H, root, j)
    <3> DEFINE i == D - 1
    <3> HIDE DEF i
    <3>1. i \in Nat /\ m \in Ball(M, H, root, i)
      BY <1>1, <2>4 DEF i
    <3>2. \E j \in 0..i : m \in Sphere(M, H, root, j)
      BY <3>1, SphereOf
    <3> QED BY <3>2 DEF i
  <2>6. j \in Nat /\ j + 1 \in 0..D /\ j + 1 \in Nat
    BY <1>1, <2>5 DEF D
  <2>7. PICK p \in PathsOf(M, H, root, j) : Last(p) = m
    BY <2>5, <2>6, SphereReached
  <2>8. p \in Seq(M) /\ Len(p) = j + 1 /\ Simple(H, root, p)
    BY <2>7 DEF PathsOf
  <2>9. p \in Seq(N) /\ ~ Contains(p, n)
    <3>1. \A i \in 1..(j + 1) : p[i] \in N /\ p[i] # n
      BY <2>8 DEF M
    <3>2. p = [i \in 1..(j + 1) |-> p[i]]
      BY <2>8
    <3>3. p \in Seq(N)
      BY <2>6, <3>1, <3>2
    <3> QED BY <2>8, <3>1, <3>3 DEF Contains
  <2>10. Len(p) >= 1
    BY <2>6, <2>8
  <2>11. <<m, n>> \in H
    <3>1. m \in N
      BY <2>7, <2>8, <2>9, <2>10 DEF Last
    <3> QED BY <1>4, <2>2, <2>3, <3>1 DEF H, HubHops
  <2>12. Simple(H, root, Append(p, n))
    BY <1>4, <2>7, <2>8, <2>9, <2>10, <2>11, SimpleAppend
  <2>13. Append(p, n) \in Seq(N) /\ Len(Append(p, n)) = (j + 1) + 1 /\ Append(p, n)[(j + 1) + 1] = n
    BY <1>4, <2>8, <2>9, AppendIs
  <2>14. Begun(E, Append(p, n)) = Reaching(E, m, n)
    BY <1>4, <2>7, <2>9, <2>10, BegunAppend
  <2> DEFINE w == [path |-> Append(p, n), at |-> at]
  <2>15. w.path = Append(p, n) /\ w.at = at /\ w = [path |-> w.path, at |-> w.at]
    OBVIOUS
  <2> HIDE DEF w
  <2>16. w \in SpineRows(N, E, root, q, j + 1)
    <3>1. Append(p, n) \in PathsOf(N, HubHops(N, E, root, q), root, j + 1)
      BY <2>12, <2>13 DEF PathsOf, H
    <3> QED BY <2>3, <2>6, <2>14, <2>15, <3>1, SpineRowsAre
  <2>17. w \in SpineWalk(N, E, root, q)
    BY <2>6, <2>16, SpineWalkIs DEF D
  <2>18. Len(w.path) > 1 /\ Last(w.path) = n
    BY <2>6, <2>13, <2>15 DEF Last
  <2> QED BY <2>1, <2>3, <2>15, <2>17, <2>18 DEF KeptRows
<1> QED BY <1>3, <1>4

-----------------------------------------------------------------------------
(* What the spine shows.                                                    *)

\* Some numbers that do not exceed k have a greatest one.
LEMMA Greatest ==
    ASSUME NEW T, T \subseteq Nat, T # {}, NEW k \in Nat, \A x \in T : x <= k
    PROVE  \E x \in T : \A y \in T : y <= x
<1> DEFINE S == {k - x : x \in T}
<1>1. S \subseteq Nat /\ S # {}
  <2>1. \A x \in T : k - x \in Nat
    OBVIOUS
  <2>2. PICK x \in T : TRUE
    OBVIOUS
  <2>3. k - x \in S
    OBVIOUS
  <2> QED BY <2>1, <2>3
<1>2. PICK s \in S : \A y \in S : s <= y
  <2> HIDE DEF S
  <2> QED BY <1>1, Least
<1>3. PICK x \in T : s = k - x
  BY <1>2
<1>4. ASSUME NEW y \in T PROVE y <= x
  <2>1. k - y \in S /\ y \in Nat /\ x \in Nat
    OBVIOUS
  <2>2. k - x <= k - y
    BY <1>2, <1>3, <2>1
  <2> QED BY <2>1, <2>2
<1> QED BY <1>4

\* An edge begins at an instant between 1 and now.
LEMMA ReachingIs ==
    ASSUME NEW E, E \subseteq DOMAIN ValidFrom, NEW m, NEW n
    PROVE  Reaching(E, m, n) \subseteq 1..Now
BY SpineAssumption DEF Reaching

\* Of the rows to an entity DISTINCT ON takes one, and it says when and how far.
LEMMA BestIsOne ==
    ASSUME NEW N, NEW E, E \subseteq DOMAIN ValidFrom, NEW root \in N, NEW q, SpineDepth(q) \in Nat,
           NEW n \in DOMAIN SpineBest(N, E, root, q)
    PROVE  /\ KeptRows(N, E, root, q, n) # {}
           /\ SpineBest(N, E, root, q)[n].at \in Nat /\ SpineBest(N, E, root, q)[n].depth \in Nat
<1> DEFINE kept == {w \in SpineWalk(N, E, root, q) :
                      /\ Len(w.path) > 1
                      /\ InTime(q, Last(w.path), w.at) /\ Asked(q, Last(w.path))}
           Nearer(w, v) == Len(w.path) < Len(v.path) \/ (Len(w.path) = Len(v.path) /\ w.at >= v.at)
           RowsOf == {w \in kept : Last(w.path) = n}
           rows == KeptRows(N, E, root, q, n)
           best == CHOOSE w \in RowsOf : \A v \in RowsOf : Nearer(w, v)
<1>1. n \in {Last(w.path) : w \in kept}
  BY DEF SpineBest
<1>2. SpineBest(N, E, root, q)[n] = [depth |-> Len(best.path) - 1, at |-> best.at]
  BY <1>1 DEF SpineBest
<1>3. RowsOf = rows
  BY DEF KeptRows
<1>4. rows # {}
  BY <1>1, <1>3
<1>5. ASSUME NEW w \in rows
      PROVE  Len(w.path) \in Nat /\ Len(w.path) > 1 /\ w.at \in Nat /\ w.at <= Now
  <2>1. PICK d \in 1..SpineDepth(q) : Len(w.path) = d + 1 /\ w.at \in Reaching(E, w.path[d], n)
    BY KeptRowIs
  <2>2. w.at \in 1..Now
    BY <2>1, ReachingIs
  <2> QED BY <2>1, <2>2, SpineAssumption
<1> HIDE DEF kept
<1>6. \E w \in rows : \A v \in rows : Nearer(w, v)
  <2> DEFINE L == {Len(w.path) : w \in rows}
  <2> HIDE DEF rows
  <2>1. L \subseteq Nat /\ L # {}
    BY <1>4, <1>5
  <2>2. PICK l \in L : \A k \in L : l <= k
    <3> HIDE DEF L
    <3> QED BY <2>1, Least
  <2> DEFINE T == {w.at : w \in {v \in rows : Len(v.path) = l}}
  <2>3. T \subseteq Nat /\ T # {} /\ \A x \in T : x <= Now
    BY <1>5, <2>2
  <2>4. PICK t \in T : \A x \in T : x <= t
    <3> HIDE DEF T
    <3> QED BY <2>3, Greatest, SpineAssumption
  <2>5. PICK w \in rows : Len(w.path) = l /\ w.at = t
    BY <2>4
  <2>6. ASSUME NEW v \in rows PROVE Nearer(w, v)
    <3>1. Len(v.path) \in Nat /\ l \in Nat /\ l <= Len(v.path) /\ v.at \in Nat /\ t \in Nat
      BY <1>5, <2>1, <2>2, <2>3, <2>4
    <3>2. CASE l = Len(v.path)
      <4>1. v.at \in T
        BY <3>2
      <4>2. v.at <= t
        <5> HIDE DEF T
        <5> QED BY <2>4, <4>1
      <4> QED BY <2>5, <3>1, <3>2, <4>2
    <3>3. CASE l # Len(v.path)
      BY <2>5, <3>1, <3>3
    <3> QED BY <3>2, <3>3
  <2> QED BY <2>6
<1>7. best \in rows
  <2> HIDE DEF rows, RowsOf, Nearer
  <2> QED BY <1>3, <1>6
<1>8. Len(best.path) - 1 \in Nat /\ best.at \in Nat
  <2> HIDE DEF best
  <2>1. Len(best.path) \in Nat /\ Len(best.path) > 1 /\ best.at \in Nat
    BY <1>5, <1>7
  <2> QED BY <2>1
<1> HIDE DEF best
<1> QED BY <1>2, <1>4, <1>8

\* The entities of the answer are those that belong to it.
LEMMA BestAreBelonging ==
    ASSUME NEW N, NEW E, NEW root \in N, NEW q, SpineDepth(q) \in Nat, SpineDepth(q) >= 1
    PROVE  \A n : n \in DOMAIN SpineBest(N, E, root, q) <=> n \in N /\ Belongs(N, E, root, q, n)
<1> DEFINE kept == {w \in SpineWalk(N, E, root, q) :
                      /\ Len(w.path) > 1
                      /\ InTime(q, Last(w.path), w.at) /\ Asked(q, Last(w.path))}
<1>1. DOMAIN SpineBest(N, E, root, q) = {Last(w.path) : w \in kept}
  BY DEF SpineBest
<1>2. \A n : n \in {Last(w.path) : w \in kept} <=> KeptRows(N, E, root, q, n) # {}
  BY DEF KeptRows
<1>3. \A n : KeptRows(N, E, root, q, n) # {} <=> n \in N /\ Belongs(N, E, root, q, n)
  BY KeptIsBelonging
<1> HIDE DEF kept
<1> QED BY <1>1, <1>2, <1>3

\* ORDER BY at DESC, depth, name is a strict order: names are unique.
LEMMA AheadIsOrder ==
    ASSUME NEW best, NEW T, T \subseteq Entities,
           \A n \in T : best[n].at \in Nat /\ best[n].depth \in Nat
    PROVE  StrictOrder(T, {x \in T \X T : Ahead(best, x[1], x[2])})
<1> DEFINE R == {x \in T \X T : Ahead(best, x[1], x[2])}
<1>1. \A m, n \in T : <<m, n>> \in R <=> Ahead(best, m, n)
  OBVIOUS
<1>2. \A n \in T : NameRank[n] \in Nat /\ best[n].at \in Nat /\ best[n].depth \in Nat
  BY SpineQueryAssumption
<1>3. \A m, n \in T : NameRank[m] = NameRank[n] => m = n
  BY SpineQueryAssumption DEF IsInjective
<1> HIDE DEF R
<1>4. ASSUME NEW n \in T, Ahead(best, n, n) PROVE FALSE
  BY <1>2, <1>4 DEF Ahead
<1>5. ASSUME NEW m \in T, NEW n \in T, NEW o \in T, Ahead(best, m, n), Ahead(best, n, o) PROVE Ahead(best, m, o)
  BY <1>2, <1>5 DEF Ahead
<1>6. ASSUME NEW m \in T, NEW n \in T, m # n PROVE Ahead(best, m, n) \/ Ahead(best, n, m)
  BY <1>2, <1>3, <1>6 DEF Ahead
<1>7. StrictOrder(T, R)
  BY <1>1, <1>4, <1>5, <1>6 DEF StrictOrder
<1> QED BY <1>7 DEF R

\* The items of a role are as many of its entities as the cap allows, each once.
LEMMA ItemsAre ==
    ASSUME NEW best, NEW r, NEW k \in Nat, OfRole(best, r) \subseteq Entities,
           \A n \in OfRole(best, r) : best[n].at \in Nat /\ best[n].depth \in Nat
    PROVE  LET items == Items(best, r, k)
               total == Cardinality(OfRole(best, r))
           IN  /\ ToSet(items) \subseteq OfRole(best, r) /\ IsInjective(items)
               /\ Len(items) = IF total < k THEN total ELSE k
<1> DEFINE T == OfRole(best, r)
           R == {x \in T \X T : Ahead(best, x[1], x[2])}
           shown == {n \in T : RowNumber(best, n) <= k}
           items == Items(best, r, k)
           total == Cardinality(T)
           few == {n \in T : Cardinality(Earlier(T, R, n)) < k}
<1>1. IsFiniteSet(T) /\ total \in Nat
  <2>1. T \in SUBSET Entities
    OBVIOUS
  <2> HIDE DEF T
  <2> QED BY <2>1, EntitiesAssumption, FS_Subset, FS_CardinalityType
<1>2. StrictOrder(T, R)
  <2> HIDE DEF T
  <2> QED BY AheadIsOrder DEF T
<1>3. items = [i \in 1..Cardinality(shown) |-> CHOOSE n \in shown : RowNumber(best, n) = i]
  BY DEF Items
<1>4. \A n \in T : T = OfRole(best, Role[n])
  BY DEF OfRole
<1> HIDE DEF T
<1>5. \A n \in T : RowNumber(best, n) = 1 + Cardinality(Earlier(T, R, n))
  <2> SUFFICES ASSUME NEW n \in T PROVE RowNumber(best, n) = 1 + Cardinality(Earlier(T, R, n))
    OBVIOUS
  <2>1. Earlier(T, R, n) = {m \in T : Ahead(best, m, n)}
    BY DEF Earlier
  <2> QED BY <1>4, <2>1 DEF RowNumber
<1> HIDE DEF R
<1> DEFINE rank == [i \in T |-> Cardinality(Earlier(T, R, i))]
<1>6. /\ rank \in [T -> 0..(total - 1)] /\ (\A i, j \in T : rank[i] = rank[j] => i = j)
      /\ \A x \in 0..(total - 1) : \E i \in T : rank[i] = x
  BY <1>1, <1>2, Numbered
<1>7. \A n \in T : RowNumber(best, n) = 1 + rank[n] /\ (n \in few <=> rank[n] < k)
  BY <1>5
<1>8. Cardinality(few) = IF total < k THEN total ELSE k
  BY <1>1, <1>2, FirstFew
<1> HIDE DEF rank, few, total
<1>9. shown = few
  <2>1. \A n \in T : 1 + rank[n] <= k <=> rank[n] < k
    BY <1>6
  <2>2. \A n \in few : n \in T
    BY DEF few
  <2> QED BY <1>7, <2>1, <2>2
<1> DEFINE m == Cardinality(few)
<1>10. m \in Nat /\ m <= k /\ m <= total /\ m = IF total < k THEN total ELSE k
  BY <1>1, <1>8
<1> HIDE DEF shown, m, items
<1>11. items = [i \in 1..m |-> CHOOSE n \in few : RowNumber(best, n) = i]
  BY <1>3, <1>9 DEF m
<1>12. ASSUME NEW i \in 1..m PROVE items[i] \in few /\ RowNumber(best, items[i]) = i
  <2>1. i - 1 \in 0..(total - 1) /\ i - 1 < k /\ 1 + (i - 1) = i
    BY <1>1, <1>10
  <2>2. PICK n \in T : rank[n] = i - 1
    BY <1>6, <2>1
  <2>3. n \in few /\ RowNumber(best, n) = i
    BY <1>7, <2>1, <2>2
  <2>4. items[i] = CHOOSE x \in few : RowNumber(best, x) = i
    BY <1>11
  <2> QED BY <2>3, <2>4
<1>13. DOMAIN items = 1..m
  BY <1>11
<1>14. ToSet(items) \subseteq T
  <2>1. \A n \in few : n \in T
    BY DEF few
  <2> QED BY <1>12, <1>13, <2>1 DEF ToSet
<1>15. IsInjective(items)
  BY <1>12, <1>13 DEF IsInjective
<1>16. Len(items) = m
  <2>1. items \in [1..m -> few]
    <3>1. items = [i \in 1..m |-> items[i]]
      BY <1>11, <1>13
    <3> QED BY <1>12, <3>1
  <2>2. items \in Seq(few)
    BY <1>10, <2>1
  <2>3. Len(items) \in Nat /\ 1..Len(items) = 1..m
    BY <1>13, <2>2, LenProperties
  <2> QED BY <1>10, <2>3
<1> QED BY <1>10, <1>14, <1>15, <1>16 DEF items, T, total

LEMMA SpineIsTrue ==
    ASSUME NEW root \in entities, NEW q \in SpineQueries, entities \subseteq Entities, edges \subseteq Links
    PROVE  LET got == Spine(entities, edges, root, q)
               belonging == {n \in entities : Belongs(entities, edges, root, q, n)}
               ofRole(r) == {n \in belonging : Role[n] = r}
           IN  /\ DOMAIN got = {Role[n] : n \in belonging} \cup q.roles
               /\ \A r \in DOMAIN got :
                     /\ got[r].total = Cardinality(ofRole(r))
                     /\ ToSet(got[r].items) \subseteq ofRole(r) /\ IsInjective(got[r].items)
                     /\ Len(got[r].items) = IF got[r].total < PerGroup(q) THEN got[r].total ELSE PerGroup(q)
<1> DEFINE got == Spine(entities, edges, root, q)
           belonging == {n \in entities : Belongs(entities, edges, root, q, n)}
           ofRole(r) == {n \in belonging : Role[n] = r}
           best == SpineBest(entities, edges, root, q)
           k == PerGroup(q)
<1>1. SpineDepth(q) \in Nat /\ SpineDepth(q) >= 1 /\ k \in Nat
  BY SpineQueryAssumption DEF SpineDepth, PerGroup
<1>2. edges \subseteq DOMAIN ValidFrom
  BY SpineQueryAssumption
<1>3. DOMAIN best = belonging
  <2>1. \A n : n \in DOMAIN best <=> n \in entities /\ Belongs(entities, edges, root, q, n)
    BY <1>1, BestAreBelonging
  <2> HIDE DEF best
  <2> QED BY <2>1
<1>4. \A n \in DOMAIN best : best[n].at \in Nat /\ best[n].depth \in Nat
  BY <1>1, <1>2, BestIsOne
<1>5. got = [r \in {Role[n] : n \in DOMAIN best} \cup q.roles |->
               [total |-> Cardinality(OfRole(best, r)), items |-> Items(best, r, k)]]
  BY DEF Spine
<1>6. belonging \subseteq Entities
  OBVIOUS
<1> HIDE DEF got, belonging, best, k
<1>7. DOMAIN got = {Role[n] : n \in belonging} \cup q.roles
  BY <1>3, <1>5
<1>8. ASSUME NEW r \in DOMAIN got
      PROVE  /\ got[r].total = Cardinality(ofRole(r))
             /\ ToSet(got[r].items) \subseteq ofRole(r) /\ IsInjective(got[r].items)
             /\ Len(got[r].items) = IF got[r].total < k THEN got[r].total ELSE k
  <2>1. OfRole(best, r) = ofRole(r)
    BY <1>3 DEF OfRole
  <2>2. got[r].total = Cardinality(OfRole(best, r)) /\ got[r].items = Items(best, r, k)
    BY <1>5, <1>7, <1>3
  <2>3. OfRole(best, r) \subseteq Entities /\ \A n \in OfRole(best, r) : best[n].at \in Nat /\ best[n].depth \in Nat
    BY <1>3, <1>4, <1>6 DEF OfRole
  <2>4. /\ ToSet(Items(best, r, k)) \subseteq OfRole(best, r) /\ IsInjective(Items(best, r, k))
        /\ Len(Items(best, r, k)) = IF Cardinality(OfRole(best, r)) < k THEN Cardinality(OfRole(best, r)) ELSE k
    BY <1>1, <2>3, ItemsAre
  <2> HIDE DEF ofRole
  <2> QED BY <2>1, <2>2, <2>4
<1> QED BY <1>7, <1>8 DEF got, belonging, k

\* spine.go:24-30, 51-57: whatever the graph may have come to be, the total of a
\* role is the number of all entities that belong to the answer, and the cap
\* takes no more away from what is shown than it must.
THEOREM SpineTotalsAreOfAll == ExplorerSpec => []SpineTotalsAreTrue
<1> DEFINE Inv == LabelInv /\ MirrorShape /\ Counters
<1>1. ExplorerInit => Inv
  BY LabelInitial, CountersStart
<1>2. Inv /\ [ExplorerNext]_explorerVars => Inv'
  BY LabelStep, CountersKept
<1>3. Inv => SpineTotalsAreTrue
  <2> SUFFICES ASSUME Inv, NEW root \in entities, NEW q \in SpineQueries
               PROVE  LET got == Spine(entities, edges, root, q)
                          belonging == {n \in entities : Belongs(entities, edges, root, q, n)}
                          ofRole(r) == {n \in belonging : Role[n] = r}
                      IN  /\ DOMAIN got = {Role[n] : n \in belonging} \cup q.roles
                          /\ \A r \in DOMAIN got :
                                /\ got[r].total = Cardinality(ofRole(r))
                                /\ ToSet(got[r].items) \subseteq ofRole(r) /\ IsInjective(got[r].items)
                                /\ Len(got[r].items) = IF got[r].total < PerGroup(q) THEN got[r].total
                                                       ELSE PerGroup(q)
    BY DEF SpineTotalsAreTrue
  <2>1. entities \subseteq Entities /\ edges \subseteq Links
    BY DEF LabelInv, Typed, Counters
  <2> QED BY <2>1, SpineIsTrue
<1> QED BY <1>1, <1>2, <1>3, PTL DEF ExplorerSpec
=============================================================================
