-------------------------------- MODULE Explorer --------------------------------
(* The graph explorer (queries.go: Graph): a fair sample of a brain's        *)
(* entities, the true counts, and the edges between the entities shown.  It  *)
(* is five statements, and the graph may change between any two of them.     *)
(* The caller of a view is a caller of Communities.                          *)
EXTENDS Mirror, Spine

CONSTANTS
    ViewLimits,     \* limits asked for, the default and the cap applied
    Quota,          \* Quota[r]: entities of role r that are shown at most
    EdgeFactor      \* edges read for each entity of the limit

ASSUME ExplorerAssumption ==
    /\ ViewLimits \subseteq Nat /\ EdgeFactor \in Nat
    /\ \A e \in Entities : Role[e] \in DOMAIN Quota /\ Quota[Role[e]] \in Nat

VARIABLE view       \* view[r]: the explorer request of caller r

explorerVars == <<vars, mirrorVars, view>>

NoView == [phase |-> "none", limit |-> 0, shown |-> {}, links |-> {}, counts |-> [r \in {} |-> 0],
           total |-> 0, sampled |-> FALSE, began |-> {}, failed |-> FALSE]
Phases == {"none", "sample", "count", "relate", "edges", "mentions", "answered", "derived"}

ExplorerInit == Init /\ MirrorInit /\ view = [r \in Runs |-> NoView]

\* How many live edges end at e; a loop ends there twice.
Degree(e) == Cardinality({l \in edges : l[1] = e}) + Cardinality({l \in edges : l[2] = e})

\* The best connected first, then by type and name.
Livelier(e, f) == Degree(e) > Degree(f) \/ (Degree(e) = Degree(f) /\ Rank[e] < Rank[f])

\* The first Quota[r] entities of each role r, and of those the first `limit'.
Sample(limit) ==
    LET ranked == {e \in entities :
                     Cardinality({f \in entities : Role[f] = Role[e] /\ Livelier(f, e)}) < Quota[Role[e]]}
    IN  {e \in ranked : Cardinality({f \in ranked : Livelier(f, e)}) < limit}

\* An unordered LIMIT: any k rows of S, or all.
AnyUpTo(S, k) == {T \in SUBSET S : Cardinality(T) = IF Cardinality(S) < k THEN Cardinality(S) ELSE k}

Advance(r, phase, v) == view[r].phase = phase /\ view' = [view EXCEPT ![r] = v] /\ UNCHANGED <<vars, mirrorVars>>

\* A brain without entities, and one whose entities cannot be counted, is shown
\* by its memories instead.
View(r, limit) ==
    /\ pc[r] = "idle" /\ view[r].phase = "none" /\ begun[r] < MaxRuns
    /\ begun' = [begun EXCEPT ![r] = @ + 1]
    /\ \E phase \in {"derived"} \cup IF entities = {} THEN {} ELSE {"sample"} :
          view' = [view EXCEPT ![r] = [NoView EXCEPT
                      !.phase = phase, !.limit = limit, !.began = entities]]
    /\ UNCHANGED <<graph, label, communities, pc, round, moves, seen, alone, mirrorVars>>

\* If the sample cannot be read, the answer is empty.
ViewSample(r) ==
    \/ Advance(r, "sample", [view[r] EXCEPT !.phase = "count", !.shown = Sample(view[r].limit)])
    \/ Advance(r, "sample", [view[r] EXCEPT !.phase = "answered", !.failed = TRUE])

\* Mutant: what is shown is counted.
CountShown(r) ==
    LET ofRole(x) == Cardinality({e \in view[r].shown : Role[e] = x})
    IN  Advance(r, "count", [view[r] EXCEPT !.phase = "relate",
                 !.counts = [x \in {Role[e] : e \in view[r].shown} |-> ofRole(x)],
                 !.total = Cardinality(view[r].shown)])

\* The true population of each role; without it, the counts stay empty.
ViewCount(r) ==
    LET ofRole(x) == Cardinality({e \in entities : Role[e] = x})
    IN  \/ Advance(r, "count", [view[r] EXCEPT !.phase = "relate",
                   !.counts = [x \in {Role[e] : e \in entities} |-> ofRole(x)],
                   !.total = Cardinality(entities)])
        \/ Advance(r, "count", [view[r] EXCEPT !.phase = "relate", !.failed = TRUE])

\* The count of each relation, which goes into the answer as it is.
ViewRelate(r) ==
    Advance(r, "relate", [view[r] EXCEPT !.phase = "edges",
                          !.sampled = Cardinality(view[r].shown) < view[r].total])

Among(S) == S \X S

\* Edges with both ends shown, of the first ones read; the mentions stand in if
\* there are none.
ViewEdges(r) ==
    \E read \in AnyUpTo(edges, EdgeFactor * view[r].limit) \cup {{}} :
        LET links == read \cap Among(view[r].shown)
        IN  Advance(r, "edges", [view[r] EXCEPT !.links = links,
                                !.phase = IF links = {} THEN "mentions" ELSE "answered"])

Together ==
    {l \in entities \X Entities :
        l[1] < l[2] /\ \E m \in Memories : {<<m, l[1]>>, <<m, l[2]>>} \subseteq mentions}
ViewMentions(r) ==
    \E read \in AnyUpTo(Together, view[r].limit) \cup {{}} :
        Advance(r, "mentions", [view[r] EXCEPT !.phase = "answered",
                                !.links = read \cap Among(view[r].shown)])

ExplorerNext ==
    \/ Next /\ UNCHANGED <<mirrorVars, view>>
    \/ MirrorNext /\ UNCHANGED view
    \/ \E r \in Runs :
          \/ \E limit \in ViewLimits : View(r, limit)
          \/ ViewSample(r) \/ ViewCount(r) \/ ViewRelate(r) \/ ViewEdges(r) \/ ViewMentions(r)

ExplorerSpec == ExplorerInit /\ [][ExplorerNext]_explorerVars

-----------------------------------------------------------------------------
(* Properties.                                                              *)

ExplorerTypeOK ==
    \A r \in Runs :
        /\ view[r].phase \in Phases /\ view[r].limit \in ViewLimits \cup {0}
        /\ view[r].shown \subseteq Entities
        /\ view[r].links \subseteq Among(view[r].shown)

\* queries.go:149-153: what is drawn is a sample, and the counts beside it are
\* the truth.  Whatever appears between the statements, no role shows more
\* entities than its count says, and an answer that is not marked as sampled
\* shows every entity that was there when it was asked for.
SampleIsHonest ==
    \A r \in Runs : view[r].phase = "answered" /\ ~ view[r].failed =>
        /\ \A e \in view[r].shown : Role[e] \in DOMAIN view[r].counts
        /\ \A x \in DOMAIN view[r].counts :
              Cardinality({e \in view[r].shown : Role[e] = x}) <= view[r].counts[x]
        /\ ~ view[r].sampled => view[r].began \subseteq view[r].shown
=============================================================================
