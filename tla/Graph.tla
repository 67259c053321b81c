--------------------------------- MODULE Graph ---------------------------------
(* The graph API of one brain: community detection, which writes the graph's *)
(* labels; the walks and the spine, which read its entities and edges in one *)
(* statement; and the explorer, which reads them in several.                 *)
EXTENDS Explorer

CONSTANTS
    Depths,         \* the depths a caller may ask for
    Limits,         \* the limits of a traversal
    SpineQueries    \* the spine queries a caller may make

ASSUME WalkAssumption == Depths \subseteq Int /\ Limits \subseteq Nat
ASSUME SpineQueryAssumption ==
    /\ \A q \in SpineQueries : q.depth \in Int /\ q.perGroup \in Int
    /\ Links \subseteq DOMAIN ValidFrom
    /\ NameRank \in [Entities -> Nat] /\ IsInjective(NameRank)

\* A walk reads nothing a detection writes.  Every graph is there before the
\* first detection begins, so the walks are checked then.
Undetected == \A r \in Runs : begun[r] = 0

\* graph.go:61: Traverse is a bounded breadth-first walk.  Whatever the cycles,
\* loops and parallel paths, it returns exactly the entities between 1 and
\* `depth' hops away, at their distance; the type filter keeps the walk going
\* through entities it does not return; a limit leaves the others out.
TraversalIsBreadthFirst(start, dir, depth, limit, wanted) ==
    LET H == Hops(edges, dir)
        all == UNION {{[id |-> n, depth |-> k] : n \in Sphere(entities, H, start, k) \cap wanted} :
                        k \in 1..TraverseDepth(depth)}
        got == Traverse(entities, edges, dir, start, depth, wanted, limit)
    IN  /\ got \subseteq all
        /\ Cardinality(got) = IF Cardinality(all) < limit THEN Cardinality(all) ELSE limit

\* graph.go:210-211: ShortestPath answers with a hop sequence that exists and
\* that no other one beats, or nil if the two are not connected within the
\* depth, and it is as good in the other direction.
ShortestPathIsShortest(from, to, depth) ==
    LET H == Hops(edges, "both")
        paths == ShortestPath(entities, edges, from, to, depth)
    IN  /\ paths # {} <=> to \in Ball(entities, H, from, PathDepth(depth))
        /\ \A p \in paths :
              /\ p[1] = from /\ Last(p) = to
              /\ \A i \in 1..(Len(p) - 1) : <<p[i], p[i + 1]>> \in H
              /\ to \in Sphere(entities, H, from, Len(p) - 1)
              /\ Reverse(p) \in ShortestPath(entities, edges, to, from, depth)

\* The two recursive queries find what a breadth-first search finds, by paths
\* that must not run in circles.
WalksAreShortest ==
    Undetected => \A start \in Entities, depth \in Depths :
        /\ \A to \in Entities : ShortestPathIsShortest(start, to, depth)
        /\ \A dir \in Directions, limit \in Limits :
              \A wanted \in {entities} \cup {entities \ {e} : e \in entities} :
                  TraversalIsBreadthFirst(start, dir, depth, limit, wanted)

\* spine.go:24-30, 51-57: a capped list never passes for the population.  The
\* total of a role is the number of entities of that role that belong to the
\* answer, whatever the cap; as many of them are shown as the cap allows, none
\* twice; and a role asked for is there even if it is empty.
SpineTotalsAreTrue ==
    Undetected => \A root \in entities, q \in SpineQueries :
        LET got == Spine(entities, edges, root, q)
            belonging == {n \in entities : Belongs(entities, edges, root, q, n)}
            ofRole(r) == {n \in belonging : Role[n] = r}
        IN  /\ DOMAIN got = {Role[n] : n \in belonging} \cup q.roles
            /\ \A r \in DOMAIN got :
                  /\ got[r].total = Cardinality(ofRole(r))
                  /\ ToSet(got[r].items) \subseteq ofRole(r) /\ IsInjective(got[r].items)
                  /\ Len(got[r].items) = IF got[r].total < PerGroup(q) THEN got[r].total ELSE PerGroup(q)

GraphTypeOK == TypeOK /\ MirrorTypeOK /\ ExplorerTypeOK
=============================================================================
