-------------------------------- MODULE Mirror --------------------------------
(* The mirror of Cognee's graph (mirror.go: Mirror, and the reading of the   *)
(* graph in client.go): the entities it names go into the brain's entities,  *)
(* and each memory is linked to the entities that the service found near its *)
(* document.  Entities are known by their names, which are unique in a brain,*)
(* so the ids of module Communities stand for the names as well.             *)
(*                                                                           *)
(* A graph of the service: ids, which its edges may name without a node;     *)
(* label and type of each node (a name, or Null; "", "entity" or "chunk",    *)
(* for chunks and documents); and the memories whose file its strings name.  *)
EXTENDS Communities, GraphWalk

CONSTANTS
    Memories,       \* memories of all brains
    Own,            \* those of this one
    CogneeGraphs,   \* what the service may answer
    Mirrors         \* the callers that mirror

ASSUME MirrorAssumption ==
    /\ Own \subseteq Memories /\ Mirrors \subseteq Runs
    /\ \A g \in CogneeGraphs : \A n \in DOMAIN g.label : g.label[n] \in Entities \cup {Null}

VARIABLES
    memories,       \* rows of memories, as far as they are this brain's
    mentions,       \* rows of memory_entities, as pairs
    mirror          \* mirror[r]: the mirroring that caller r is at

mirrorVars == <<memories, mentions, mirror>>

NoMirror == [phase |-> "none", todo |-> {}, links |-> {}, checked |-> {}, wanted |-> {}]

MirrorInit ==
    /\ memories = Own /\ mentions = {}
    /\ mirror = [r \in Mirrors |-> NoMirror]

-----------------------------------------------------------------------------
(* Reading the graph.                                                       *)

\* The structural nodes are no entities; a node without a type is one, whether
\* others have one or not.
IsEntity(g, n) == g.label[n] # Null /\ g.type[n] # "chunk"

EntityNames(g) == {g.label[n] : n \in {n \in DOMAIN g.label : IsEntity(g, n)}}

\* The memory each document names; one that names several is taken for any of them.
Readings(g) ==
    LET docs == {n \in DOMAIN g.names : g.names[n] # {}}
    IN  {f \in [docs -> Memories] : \A n \in docs : f[n] \in g.names[n]}

maxHops == 2

\* Breadth first from a document, each id once, through ids without a node too.
Reached(g, start) ==
    LET next(F, V) == {b \in g.ids \ V : \E a \in F : <<a, b>> \in Hops(g.edges, "both")}
        B[hop \in 0..maxHops] ==
            IF hop = 0 THEN [frontier |-> {start}, visited |-> {start}]
            ELSE LET new == next(B[hop - 1].frontier, B[hop - 1].visited)
                 IN  [frontier |-> new, visited |-> B[hop - 1].visited \cup new]
    IN  B[maxHops].visited \ {start}

MemoryEntityLinks(g, reading) ==
    UNION {{<<reading[d], g.label[n]>> : n \in {n \in Reached(g, d) \cap DOMAIN g.label : IsEntity(g, n)}} :
              d \in DOMAIN reading}

-----------------------------------------------------------------------------
(* Mirror.                                                                  *)

At(r, phase) == mirror[r].phase = phase
Becomes(r, v) == mirror' = [mirror EXCEPT ![r] = v]
Detection == <<edges, label, communities, pc, round, moves, changes, seen, alone>>

\* What a mirroring owes the brain: each memory it has, and the entities at most
\* maxHops away from its document, which is how the service relates the two.
Owed(g, reading) ==
    {l \in Memories \X Entities : \E d \in DOMAIN reading, n \in DOMAIN g.label :
        /\ reading[d] = l[1] /\ g.label[n] = l[2] /\ IsEntity(g, n)
        /\ n # d /\ n \in Ball(g.ids, Hops(g.edges, "both"), d, maxHops)}

\* The data set and its graph are read; without them nothing is done.
MirrorFetch(r) ==
    /\ At(r, "none") /\ pc[r] = "idle" /\ begun[r] < MaxRuns
    /\ begun' = [begun EXCEPT ![r] = @ + 1]
    /\ \E g \in CogneeGraphs : \E reading \in Readings(g) :
          Becomes(r, [NoMirror EXCEPT !.phase = "entities", !.todo = EntityNames(g),
                        !.links = MemoryEntityLinks(g, reading), !.wanted = Owed(g, reading)])
    /\ UNCHANGED <<entities, Detection, memories, mentions>>

\* Entities are inserted or found there, one statement each.
MirrorUpsert(r) ==
    /\ At(r, "entities")
    /\ IF mirror[r].todo = {}
       THEN Becomes(r, [mirror[r] EXCEPT !.phase = "check"]) /\ UNCHANGED entities
       ELSE \E e \in mirror[r].todo :
               /\ entities' = entities \cup {e}
               /\ Becomes(r, [mirror[r] EXCEPT !.todo = @ \ {e}])
    /\ UNCHANGED <<begun, Detection, memories, mentions>>

\* Mutant: the memory is not looked for.
CheckNothing(r) ==
    /\ At(r, "check")
    /\ \E l \in mirror[r].links :
          Becomes(r, [mirror[r] EXCEPT !.links = @ \ {l}, !.checked = {l}, !.phase = "link"])
    /\ UNCHANGED <<entities, begun, Detection, memories, mentions>>

\* A link is passed over unless its memory is a row of this brain, and when that
\* cannot be told: then it is not owed any more.
MirrorCheck(r) ==
    /\ At(r, "check")
    /\ \E l \in mirror[r].links :
          \/ Becomes(r, IF l[1] \in memories
                        THEN [mirror[r] EXCEPT !.links = @ \ {l}, !.checked = {l}, !.phase = "link"]
                        ELSE [mirror[r] EXCEPT !.links = @ \ {l}])
          \/ Becomes(r, [mirror[r] EXCEPT !.links = @ \ {l}, !.wanted = @ \ {l}])
    /\ UNCHANGED <<entities, begun, Detection, memories, mentions>>

MirrorLink(r) ==
    /\ At(r, "link")
    /\ mentions' = mentions \cup mirror[r].checked
    /\ Becomes(r, [mirror[r] EXCEPT !.checked = {}, !.phase = "check"])
    /\ UNCHANGED <<entities, begun, Detection, memories>>

MirrorEnd(r) ==
    /\ At(r, "check") /\ mirror[r].links = {}
    /\ Becomes(r, NoMirror)
    /\ UNCHANGED <<entities, begun, Detection, memories, mentions>>

\* An upsert or a link fails, or the 30 s of brainctl are over: what is done stays.
MirrorFails(r) ==
    /\ At(r, "entities") \/ At(r, "link")
    /\ Becomes(r, NoMirror)
    /\ UNCHANGED <<entities, begun, Detection, memories, mentions>>

\* DeleteBrain leaves entities and mentions where they are.
DeleteBrain ==
    /\ changes < MaxChanges /\ memories # {}
    /\ memories' = {} /\ changes' = changes + 1
    /\ UNCHANGED <<entities, edges, label, communities, pc, round, moves, begun, seen, alone,
                   mentions, mirror>>

MirrorNext ==
    \/ \E r \in Mirrors :
          \/ MirrorFetch(r) \/ MirrorUpsert(r) \/ MirrorCheck(r) \/ MirrorLink(r)
          \/ MirrorEnd(r) \/ MirrorFails(r)
    \/ DeleteBrain

-----------------------------------------------------------------------------
(* Properties.                                                              *)

MirrorTypeOK ==
    /\ memories \subseteq Own /\ mentions \subseteq Memories \X Entities
    /\ \A r \in Mirrors :
          /\ mirror[r].phase \in {"none", "entities", "check", "link"}
          /\ mirror[r].todo \subseteq Entities
          /\ mirror[r].links \cup mirror[r].checked \subseteq Memories \X Entities

\* mirror.go:29-35, 76-77: "a stale/foreign id never leaks in": whatever the
\* service answers, a memory of another brain is never linked to an entity of this
\* one, nor one to an entity that is not there.  And a mirroring that comes to its
\* end, while nobody deleted the brain and every look at a memory was answered,
\* leaves each memory linked to all the entities within two edges of its document.
MirrorIsTrue ==
    [][/\ mentions' \subseteq Own \X entities'
       /\ \A r \in Mirrors : MirrorEnd(r) /\ memories = Own =>
             {l \in mirror[r].wanted : l[1] \in Own} \subseteq mentions]_<<vars, mirrorVars>>
=============================================================================
