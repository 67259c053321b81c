--------------------------------- MODULE Spine ---------------------------------
(* The spine query (spine.go): everything about one entity, grouped by role. *)
(* One SQL statement walks, picks, counts and ranks, so the answer is a      *)
(* function of the graph of one instant, as the walks of GraphWalk are.  An  *)
(* instant is a number; 0 is the time that is not given.                     *)
EXTENDS GraphWalk

CONSTANTS
    Role,           \* Role[e]: the entity_type of e
    ValidFrom,      \* ValidFrom[l]: valid_from of the edges that join l when it is live
    NameRank,       \* NameRank[e]: place of e by name
    Now             \* the instant of the request

ASSUME SpineAssumption ==
    /\ Now \in Nat \ {0}
    /\ \A l \in DOMAIN ValidFrom : ValidFrom[l] # {} /\ ValidFrom[l] \subseteq 1..Now

DefaultHubs == {"repo", "venture", "feed"}
DefaultTimed == {"activity", "meeting", "channel", "feed"}

\* A query q: depth, perGroup, hubs, roles, timed (TimeRoles), since, until, and
\* window: the length of a window that could be parsed, else 0.
SpineDepth(q) == IF q.depth <= 0 THEN 2 ELSE IF q.depth > 4 THEN 4 ELSE q.depth
PerGroup(q) == IF q.perGroup <= 0 THEN 10 ELSE IF q.perGroup > 200 THEN 200 ELSE q.perGroup
HubsOf(q) == IF q.hubs = {} THEN DefaultHubs ELSE q.hubs
TimedRoles(q) == IF q.timed = {} THEN DefaultTimed ELSE q.timed
Since(q) == IF q.since = 0 /\ q.window > 0 THEN Now - q.window ELSE q.since

\* The window bounds the edge that reaches an entity of a timed role; {"*"}
\* makes every role one.
Timed(q, n) == TimedRoles(q) = {"*"} \/ Role[n] \in TimedRoles(q)
InTime(q, n, at) == Timed(q, n) => at >= Since(q) /\ (q.until = 0 \/ at <= q.until)
Asked(q, n) == q.roles = {} \/ Role[n] \in q.roles

\* Live edges are walked both ways.
Reaching(E, m, n) == UNION {ValidFrom[l] : l \in {<<m, n>>, <<n, m>>} \cap E}

\* Past the first hop, only hubs are walked through.
Expanded(q, root, m) == m = root \/ Role[m] \in HubsOf(q)

\* The rows of walk: the path, and when the edge that reached its end began.
SpineWalk(N, E, root, q) ==
    LET Grow(w, n) == {[path |-> Append(w.path, n), at |-> t] : t \in Reaching(E, Last(w.path), n)}
        W[d \in 0..SpineDepth(q)] ==
            IF d = 0 THEN {[path |-> <<root>>, at |-> 0]}
            ELSE UNION {Grow(x[1], x[2]) : x \in {y \in W[d - 1] \X N :
                            Expanded(q, root, Last(y[1].path)) /\ ~ Contains(y[1].path, y[2])}}
    IN  UNION {W[d] : d \in 0..SpineDepth(q)}

\* SELECT DISTINCT ON (id) ... ORDER BY id, depth, at DESC, of the rows kept.
SpineBest(N, E, root, q) ==
    LET kept == {w \in SpineWalk(N, E, root, q) :
                    /\ Len(w.path) > 1
                    /\ InTime(q, Last(w.path), w.at) /\ Asked(q, Last(w.path))}
        Nearer(w, v) == Len(w.path) < Len(v.path) \/ (Len(w.path) = Len(v.path) /\ w.at >= v.at)
        RowsOf(n) == {w \in kept : Last(w.path) = n}
    IN  [n \in {Last(w.path) : w \in kept} |->
            LET w == CHOOSE w \in RowsOf(n) : \A v \in RowsOf(n) : Nearer(w, v)
            IN  [depth |-> Len(w.path) - 1, at |-> w.at]]

\* ORDER BY at DESC, depth, name.
Ahead(best, m, n) ==
    LET b == best[m]
        c == best[n]
    IN  \/ b.at > c.at
        \/ b.at = c.at /\ (b.depth < c.depth \/ (b.depth = c.depth /\ NameRank[m] < NameRank[n]))

\* PARTITION BY entity_type, and row_number() in it.
OfRole(best, r) == {n \in DOMAIN best : Role[n] = r}
RowNumber(best, n) == 1 + Cardinality({m \in OfRole(best, Role[n]) : Ahead(best, m, n)})

\* WHERE rn <= k ORDER BY rn: the first k rows of a role.
Items(best, r, k) ==
    LET shown == {n \in OfRole(best, r) : RowNumber(best, n) <= k}
    IN  [i \in 1..Cardinality(shown) |-> CHOOSE n \in shown : RowNumber(best, n) = i]

\* Mutant: the rows are counted after the cap.
SpineOfSample(N, E, root, q) ==
    LET best == SpineBest(N, E, root, q)
        shown(r) == Items(best, r, PerGroup(q))
    IN  [r \in {Role[n] : n \in DOMAIN best} \cup q.roles |->
            [total |-> Len(shown(r)), items |-> shown(r)]]

\* The groups of the answer: for each role that has entities or was asked for,
\* the count of them all, and the first few.
Spine(N, E, root, q) ==
    LET best == SpineBest(N, E, root, q)
    IN  [r \in {Role[n] : n \in DOMAIN best} \cup q.roles |->
            [total |-> Cardinality(OfRole(best, r)), items |-> Items(best, r, PerGroup(q))]]

-----------------------------------------------------------------------------
(* What the query promises.                                                 *)

\* The entities of N within k hops of root, going through hubs only.
HubBall(N, E, root, q, k) ==
    LET B[d \in 0..k] ==
          IF d = 0 THEN {root}
          ELSE B[d - 1] \cup {n \in N : \E m \in B[d - 1] :
                                 Expanded(q, root, m) /\ Reaching(E, m, n) # {}}
    IN  B[k]

\* n has a place in the answer: one of its edges, begun in time, joins it to
\* something that the walk goes through and reaches without n.
Belongs(N, E, root, q, n) ==
    /\ n # root /\ Asked(q, n)
    /\ \E m \in HubBall(N \ {n}, E, root, q, SpineDepth(q) - 1) :
          /\ Expanded(q, root, m)
          /\ \E at \in Reaching(E, m, n) : InTime(q, n, at)
=============================================================================
