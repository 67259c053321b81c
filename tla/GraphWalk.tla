------------------------------- MODULE GraphWalk -------------------------------
(* Walks over the entity graph (graph.go: Traverse, ShortestPath).  Each is  *)
(* one recursive SQL query, so it is a function of the graph of one instant: *)
(* N, the entities of the brain, and E, the edges that are live, or were at  *)
(* the instant asked for, and have the relations asked for.  The names that  *)
(* guard the paths are unique in a brain, so ids stand for them.             *)
EXTENDS Integers, Sequences, FiniteSets, SequencesExt

Directions == {"out", "in", "both"}

\* The pairs <<m, n>> such that an edge continues a walk from m to n.
Hops(E, dir) ==
    LET back == {<<e[2], e[1]>> : e \in E}
    IN  CASE dir = "out" -> E [] dir = "in" -> back [] OTHER -> E \cup back

\* The asked depth, with the default and the cap of each query.
TraverseDepth(d) == IF d <= 0 THEN 2 ELSE IF d > 6 THEN 6 ELSE d
PathDepth(d) == IF d <= 0 \/ d > 6 THEN 4 ELSE d

\* Mutant: a path may come back to where it has been.
StepAnywhere(N, H, paths) ==
    UNION {{Append(p, n) : n \in {m \in N : <<Last(p), m>> \in H}} : p \in paths}

\* The recursive term: each path of the working table goes on by one hop, to
\* an entity of the brain that is not on it.
Step(N, H, paths) ==
    UNION {{Append(p, n) : n \in {m \in N : <<Last(p), m>> \in H /\ ~ Contains(p, m)}} : p \in paths}

\* The rows of walk: a path has the entity it reaches last, and a depth of one
\* less than its length.
Walk(N, H, start, depth) ==
    LET W[d \in 0..depth] == IF d = 0 THEN {<<n>> : n \in N \cap {start}} ELSE Step(N, H, W[d - 1])
    IN  UNION {W[d] : d \in 0..depth}

\* ORDER BY depth: the rows that may come first.
Shortest(paths) == {p \in paths : \A q \in paths : Len(p) <= Len(q)}

\* SELECT DISTINCT ON (id) ... WHERE depth > 0 AND type ORDER BY id, depth LIMIT:
\* one shortest path for each of the first `limit' ids.
Traverse(N, E, dir, start, depth, wanted, limit) ==
    LET rows == {p \in Walk(N, Hops(E, dir), start, TraverseDepth(depth)) :
                    Len(p) > 1 /\ Last(p) \in wanted}
        ids  == {Last(p) : p \in rows}
    IN  {[id |-> n, depth |-> Len(CHOOSE p \in Shortest({q \in rows : Last(q) = n}) : TRUE) - 1] :
            n \in {i \in ids : Cardinality({k \in ids : k < i}) < limit}}

\* The answers ShortestPath may give: {} when the two are not connected.
ShortestPath(N, E, from, to, depth) ==
    Shortest({p \in Walk(N, Hops(E, "both"), from, PathDepth(depth)) : Last(p) = to})

-----------------------------------------------------------------------------
(* What the queries promise.                                                *)

\* The entities within k hops of start.
Ball(N, H, start, k) ==
    LET B[d \in 0..k] ==
          IF d = 0 THEN N \cap {start}
          ELSE B[d - 1] \cup {n \in N : \E m \in B[d - 1] : <<m, n>> \in H}
    IN  B[k]

\* The entities exactly k hops away from start.
Sphere(N, H, start, k) ==
    Ball(N, H, start, k) \ IF k = 0 THEN {} ELSE Ball(N, H, start, k - 1)
=============================================================================
