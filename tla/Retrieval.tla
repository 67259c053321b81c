------------------------------- MODULE Retrieval -------------------------------
(* One recall, or one search across brains, from the query to the answer     *)
(* (store.go Recall, search.go SearchAll), and the knowledge gaps that empty *)
(* answers leave (gaps.go), while memories come and go.  The pool and its    *)
(* expansion along shared entities are two reads of the table.  The cache in *)
(* front is RecallCache's.  Scores are left open: any order of the pool.     *)
EXTENDS Integers, FiniteSets, Sequences, SequencesExt

CONSTANTS
    Ids, Brains, Kinds, Entities,
    Tables, Links,      \* the tables and entity links there may be at first
    Arrivals,           \* rows that may be inserted
    Queries,            \* what may be asked: see QueryType
    Texts, AllBrains,   \* question texts; the namespace of a search's gap
    PoolSize,           \* rows in a pool: 40 in a recall, 60 in a search
    EfSearch,           \* hnsw.ef_search: rows an index scan may look at
    Callers, Start, MaxClock,
    None

Time == 0..MaxClock
Never == MaxClock + 1       \* invalid_at IS NULL: later than any time
Absent == [ns |-> None]

\* memories: `hot' for the tier, `kind' for source_kind and metadata.type, and
\* whether the embedding and the BM25 vector are there.
Row == [ns : Brains, at : Time, invalid : Time \cup {Never}, kind : Kinds, hot : BOOLEAN,
        important : BOOLEAN, embedded : BOOLEAN, tokenized : BOOLEAN]
QueryType == [op : {"recall", "search"}, brains : SUBSET Brains, text : Texts, limit : Nat \ {0},
              kinds : SUBSET Kinds, important : BOOLEAN, expand : BOOLEAN,
              since : Time, until : Time \cup {Never}, asOf : Time \cup {None},
              order : {"relevance", "recent", "oldest"}]

\* A row is inserted live.  A recall is of one brain; a search has no filters and
\* no expansion.
ASSUME RetrievalAssumption ==
    /\ IsFiniteSet(Ids) /\ Queries \subseteq QueryType
    /\ Arrivals \subseteq Row /\ \A row \in Arrivals : row.invalid = Never
    /\ Tables \subseteq [Ids -> Row \cup {Absent}] /\ Links \subseteq SUBSET (Ids \X Entities)
    /\ \A k \in Queries :
        IF k.op = "recall" THEN Cardinality(k.brains) = 1
        ELSE /\ k.kinds = Kinds /\ k.since = 0 /\ k.until = Never /\ k.asOf = None
             /\ k.order = "relevance" /\ ~ k.expand /\ ~ k.important
    /\ PoolSize \in Nat \ {0} /\ EfSearch \in Nat \ {0}
    /\ MaxClock \in Nat /\ Start \in Time
    /\ AllBrains \notin Brains /\ None \notin Brains \cup Time \cup Entities

VARIABLES
    memories, links, clock,
    bm25,               \* the BM25 layer is installed
    gaps,               \* memory_gaps: per namespace and text, [hits, status]
    pc, q, tx,          \* the request of each caller; its transaction
    pool,               \* its results so far: [id, at, via]
    emptied,            \* brains whose memories are deleted, their gaps not yet
    began, steady,      \* history: when it was asked; the rows that matched all along
    faulted             \* history: the embedder or the database failed it

tables == <<memories, links, clock, bm25, gaps, emptied>>
requests == <<pc, q, tx, pool, began, faulted>>
vars == <<tables, requests, steady>>

NoGap == [hits |-> 0, status |-> "none"]

Init ==
    /\ memories \in Tables /\ links \in Links /\ clock = Start /\ bm25 \in BOOLEAN
    /\ gaps = [g \in (Brains \cup {AllBrains}) \X Texts |-> NoGap]
    /\ pc = [c \in Callers |-> "idle"]
    /\ q = [c \in Callers |-> None]
    /\ tx = [c \in Callers |-> "none"]
    /\ pool = [c \in Callers |-> <<>>]
    /\ began = [c \in Callers |-> 0]
    /\ steady = [c \in Callers |-> {}]
    /\ faulted = [c \in Callers |-> FALSE]
    /\ emptied = {}

-----------------------------------------------------------------------------
(* The two queries.                                                         *)

InWindow(k, at) == k.since <= at /\ at <= k.until /\ (k.asOf # None => at <= k.asOf)

\* Rows that are true now, or that were at the time asked about.
HeldTrue(k, row) == IF k.asOf = None THEN row.invalid = Never ELSE row.invalid > k.asOf

\* buildFilteredRecallSQL: every filter, in every place that scans memories.
Match(k, row) ==
    /\ row # Absent /\ row.ns \in k.brains /\ row.hot /\ row.kind \in k.kinds
    /\ InWindow(k, row.at) /\ HeldTrue(k, row)

Matching(k) == {i \in Ids : Match(k, memories[i])}
Embedded == {i \in Ids : memories[i] # Absent /\ memories[i].embedded}
Tokenized == {i \in Ids : memories[i] # Absent /\ memories[i].tokenized}
Important(k, S) == {i \in S : k.important => memories[i].important}

Least(a, b) == IF a <= b THEN a ELSE b
AnyOf(S, n) == {U \in SUBSET S : Cardinality(U) = Least(n, Cardinality(S))}
Ranked(S, n) == Injection(1..Least(n, Cardinality(S)), S)

\* Mutant: a candidate list of one row, as if ef_search had been left small.
FewCandidates == 1

hnswEFSearch == EfSearch

\* The nearest rows of the index, live or not, filtered afterwards.
Near(k) == UNION {AnyOf(S \cap Matching(k), PoolSize) : S \in AnyOf(Embedded, hnswEFSearch)}
\* Vector and BM25 candidates fused; the importance is looked at after both limits.
HybridPools(k) ==
    UNION {Ranked(Important(k, V \cup T), Least(PoolSize, k.limit)) :
            V \in Near(k), T \in AnyOf(Matching(k) \cap Tokenized, PoolSize)}
\* The vector query alone, where the importance is a condition of the scan.
VectorPools(k) ==
    UNION {Ranked(S \cap Important(k, Matching(k)), Least(PoolSize, k.limit)) :
            S \in AnyOf(Embedded, hnswEFSearch)}

Primary(ids) == [n \in DOMAIN ids |-> [id |-> ids[n], at |-> memories[ids[n]].at, via |-> None]]

-----------------------------------------------------------------------------
(* A request.                                                               *)

Ask(c) ==
    /\ pc[c] = "idle"
    /\ \E k \in Queries :
        /\ q' = [q EXCEPT ![c] = k]
        /\ steady' = [steady EXCEPT ![c] =
                Matching(k) \cap (Embedded \cup IF bm25 THEN Tokenized ELSE {})]
    /\ pc' = [pc EXCEPT ![c] = "hybrid"]
    /\ tx' = [tx EXCEPT ![c] = "open"]
    /\ began' = [began EXCEPT ![c] = clock]
    /\ UNCHANGED <<tables, pool, faulted>>

\* The embedder fails, or the database does.
Fault(c) ==
    /\ pc[c] \in {"hybrid", "vector"}
    /\ pc' = [pc EXCEPT ![c] = "failed"]
    /\ faulted' = [faulted EXCEPT ![c] = TRUE]
    /\ UNCHANGED <<tables, q, tx, pool, began, steady>>

Got(c, pools) ==
    /\ \E s \in pools : pool' = [pool EXCEPT ![c] = Primary(s)]
    /\ pc' = [pc EXCEPT ![c] = "expand"]
    /\ tx' = [tx EXCEPT ![c] = "none"]
    /\ UNCHANGED <<tables, q, began, steady, faulted>>

Hybrid(c) == pc[c] = "hybrid" /\ bm25 /\ Got(c, HybridPools(q[c]))

\* Without the layer the query is always an error, with it the database may fail.
\* That aborts the transaction: a recall (recallPool) takes a new one for the next
\* query, a search goes on in it.
HybridError(c) ==
    /\ pc[c] = "hybrid"
    /\ pc' = [pc EXCEPT ![c] = "vector"]
    /\ tx' = [tx EXCEPT ![c] = IF q[c].op = "recall" THEN "open" ELSE "aborted"]
    /\ faulted' = [faulted EXCEPT ![c] = bm25]
    /\ UNCHANGED <<tables, q, pool, began, steady>>

Vector(c) == pc[c] = "vector" /\ tx[c] = "open" /\ Got(c, VectorPools(q[c]))

\* PostgreSQL: the commands of an aborted transaction are errors.
VectorRefused(c) ==
    /\ pc[c] = "vector" /\ tx[c] = "aborted"
    /\ pc' = [pc EXCEPT ![c] = "failed"]
    /\ UNCHANGED <<tables, q, tx, pool, began, steady, faulted>>

-----------------------------------------------------------------------------
(* The expansion, the order and the gap.                                    *)

Shared(i, j) == {e \in Entities : <<i, e>> \in links /\ <<j, e>> \in links}

\* Mutant: rows that were retired are neighbours too.
RetiredNeighbours(k, seeds) ==
    {i \in Ids : /\ memories[i] # Absent /\ memories[i].ns \in k.brains /\ memories[i].hot
                 /\ \E j \in seeds \ {i} : Shared(i, j) # {}}

\* What shares an entity with another row of the pool, the pool's own included.
Neighbours(k, seeds) ==
    {i \in Ids : /\ memories[i] # Absent /\ memories[i].ns \in k.brains
                 /\ memories[i].invalid = Never /\ memories[i].hot
                 /\ \E j \in seeds \ {i} : Shared(i, j) # {}}

maxExpand(limit) == IF limit \div 2 < 2 THEN 2 ELSE limit \div 2

\* Mutant: what the pool has already is not looked for.
expandAgain(k, seeds) ==
    UNION {{[n \in DOMAIN s |-> [id |-> s[n], at |-> memories[s[n]].at,
                                 via |-> CHOOSE e \in UNION {Shared(s[n], j) : j \in seeds \ {s[n]}} : TRUE]] :
            s \in Ranked(U, Cardinality(U))} : U \in AnyOf(Neighbours(k, seeds), maxExpand(k.limit))}

\* The LIMIT comes before the pool's own rows are dropped.
expandEntities(k, seeds) ==
    UNION {{[n \in DOMAIN s |-> [id |-> s[n], at |-> memories[s[n]].at,
                                 via |-> CHOOSE e \in UNION {Shared(s[n], j) : j \in seeds \ {s[n]}} : TRUE]] :
            s \in Ranked(U \ seeds, Cardinality(U))} : U \in AnyOf(Neighbours(k, seeds), maxExpand(k.limit))}

filterTemporal(k, found) ==
    FoldLeft(LAMBDA s, r : IF InWindow(k, r.at) THEN Append(s, r) ELSE s, <<>>, found)

\* A row moves up past those before it, until one that it must not pass.
Insert(order, s, r) ==
    LET stays == {n \in DOMAIN s : IF order = "recent" THEN r.at <= s[n].at ELSE r.at > s[n].at}
    IN  InsertAt(s, 1 + IF stays = {} THEN 0 ELSE CHOOSE n \in stays : \A i \in stays : i <= n, r)

sortByValidAt(order, rows) ==
    IF order = "relevance" THEN rows
    ELSE FoldLeft(LAMBDA s, r : Insert(order, s, r), <<>>, rows)

\* A recall expands what it has, by a read of its own, which may fail unnoticed.
Expand(c) ==
    LET k     == q[c]
        seeds == {pool[c][n].id : n \in DOMAIN pool[c]}
    IN  /\ pc[c] = "expand"
        /\ \E more \in {<<>>} \cup IF k.expand THEN expandEntities(k, seeds) ELSE {} :
            pool' = [pool EXCEPT ![c] = sortByValidAt(k.order, @ \o filterTemporal(k, more))]
        /\ pc' = [pc EXCEPT ![c] = "answer"]
        /\ UNCHANGED <<tables, q, tx, began, steady, faulted>>

\* Mutant: the insert leaves the counter alone.
recordGapUncounted(g) == gaps' = [gaps EXCEPT ![g].status = IF @ = "none" THEN "open" ELSE @]

\* Mutant: a question asked again is open again.
recordGapReopening(g) == gaps' = [gaps EXCEPT ![g] = [hits |-> @.hits + 1, status |-> "open"]]

recordGap(g) ==
    gaps' = [gaps EXCEPT ![g] =
        [hits |-> @.hits + 1, status |-> IF @.hits = 0 THEN "open" ELSE @.status]]

\* An empty answer is a gap, of the brain or, for a search, of all of them.
Answer(c) ==
    /\ pc[c] = "answer"
    /\ IF pool[c] = <<>>
       THEN \E ns \in IF q[c].op = "recall" THEN q[c].brains ELSE {AllBrains} : recordGap(<<ns, q[c].text>>)
       ELSE UNCHANGED gaps
    /\ pc' = [pc EXCEPT ![c] = "done"]
    /\ UNCHANGED <<memories, links, clock, bm25, emptied, q, tx, pool, began, steady, faulted>>

-----------------------------------------------------------------------------
(* What happens meanwhile.                                                  *)

\* What a change leaves of the rows that matched all along.
Steadily == steady' = [c \in Callers |->
                {i \in steady[c] : pc[c] # "idle" /\ Match(q[c], memories'[i])}]

Retain(i) ==
    /\ memories[i] = Absent /\ clock < MaxClock
    /\ \E row \in Arrivals : memories' = [memories EXCEPT ![i] = row]
    /\ clock' = clock + 1 /\ Steadily
    /\ UNCHANGED <<links, bm25, gaps, emptied, requests>>

\* Forgotten, superseded or swept as a duplicate: invalid_at = now().
Invalidate(i) ==
    /\ memories[i] # Absent /\ memories[i].invalid = Never /\ clock < MaxClock
    /\ clock' = clock + 1
    /\ memories' = [memories EXCEPT ![i].invalid = clock'] /\ Steadily
    /\ UNCHANGED <<links, bm25, gaps, emptied, requests>>

\* DeleteBrain: its memories, then its gaps; an error of the second is ignored.
DeleteBrain(ns) ==
    /\ clock < MaxClock /\ clock' = clock + 1
    /\ memories' = [i \in Ids |-> IF memories[i].ns = ns THEN Absent ELSE memories[i]]
    /\ emptied' = emptied \cup {ns} /\ Steadily
    /\ UNCHANGED <<links, bm25, gaps, requests>>

DeleteGaps(ns) ==
    /\ ns \in emptied /\ emptied' = emptied \ {ns}
    /\ \/ gaps' = [g \in DOMAIN gaps |-> IF g[1] = ns THEN NoGap ELSE gaps[g]]
       \/ UNCHANGED gaps
    /\ UNCHANGED <<memories, links, clock, bm25, requests, steady>>

ResolveGap(g, status) ==
    /\ gaps[g].hits > 0 /\ gaps[g].status # status
    /\ gaps' = [gaps EXCEPT ![g].status = status]
    /\ UNCHANGED <<memories, links, clock, bm25, emptied, requests, steady>>

Resolutions == {"indexed", "dismissed", "open"}

Next ==
    \/ \E c \in Callers :
        \/ Ask(c) \/ Fault(c) \/ Hybrid(c) \/ HybridError(c) \/ Vector(c) \/ VectorRefused(c)
        \/ Expand(c) \/ Answer(c)
    \/ \E i \in Ids : Retain(i) \/ Invalidate(i)
    \/ \E ns \in Brains : DeleteBrain(ns) \/ DeleteGaps(ns)
    \/ \E g \in DOMAIN gaps, status \in Resolutions : ResolveGap(g, status)

Spec == Init /\ [][Next]_vars

-----------------------------------------------------------------------------
Phases == {"idle", "hybrid", "vector", "expand", "answer", "done", "failed"}

TypeOK ==
    /\ memories \in [Ids -> Row \cup {Absent}] /\ links \in Links
    /\ clock \in Time /\ bm25 \in BOOLEAN /\ emptied \subseteq Brains
    /\ \A g \in DOMAIN gaps : gaps[g].hits = 0 <=> gaps[g] = NoGap
    /\ pc \in [Callers -> Phases] /\ tx \in [Callers -> {"none", "open", "aborted"}]
    /\ \A c \in Callers : q[c] \in Queries \cup {None} /\ steady[c] \subseteq Ids

Answered(c) == pc[c] = "done"
Primaries(c) == {pool[c][n].id : n \in {m \in DOMAIN pool[c] : pool[c][m].via = None}}
Extras(c) == {pool[c][n].id : n \in {m \in DOMAIN pool[c] : pool[c][m].via # None}}

\* Nothing in an answer had been retired when the question was asked, or, in a
\* question about a point in time, at that point: whatever is retired, retained
\* or deleted between the two reads (invalid_at IS NULL, RecallQuery.AsOf).
TrueWhenAsked ==
    \A c \in Callers : Answered(c) =>
        \A n \in DOMAIN pool[c] :
            LET row == memories[pool[c][n].id] IN
            row.ns # None =>
                \/ row.invalid > began[c]
                \/ q[c].asOf # None /\ row.invalid > q[c].asOf

Refused(op) == {c \in Callers : pc[c] = "failed" /\ ~ faulted[c] /\ q[c].op = op}

\* While the index scan may look at every row, an answer has as many rows as it
\* may, of those that matched all along: a question is no gap if its answer
\* exists (hnswEFSearch: "this makes recall correct regardless").  A minimum
\* importance is exempt, for the hybrid query applies it after its limits, and so
\* is a hybrid query that failed for another reason than the missing layer.  That
\* the layer is absent is no reason to refuse a recall ("still works").
FindsWhatIsThere ==
    /\ Refused("recall") = {}
    /\ \A c \in Callers : Answered(c) /\ ~ q[c].important /\ ~ faulted[c] /\ Cardinality(Ids) <= EfSearch =>
        Cardinality(Primaries(c)) >= Least(Least(q[c].limit, PoolSize), Cardinality(steady[c]))

\* An answer keeps to the window asked for, what it found by the graph included
\* (filterTemporal: "receiving April rows ... defeats the whole point").
WithinWindow(c) == \A n \in DOMAIN pool[c] : InWindow(q[c], pool[c][n].at)

\* No memory is answered twice, what the graph adds is linked to an answer of the
\* query itself, and both keep to their limits (Recall, maxExpand).
ExpansionSound(c) ==
    /\ \A m, n \in DOMAIN pool[c] : pool[c][m].id = pool[c][n].id => m = n
    /\ \A n \in DOMAIN pool[c] : pool[c][n].via # None =>
          \E i \in Primaries(c) : pool[c][n].via \in Shared(i, pool[c][n].id)
    /\ Cardinality(Primaries(c)) <= q[c].limit /\ Cardinality(Extras(c)) <= maxExpand(q[c].limit)

\* An answer asked for in time order is in time order, from end to end.
InTimeOrder(c) ==
    \A m, n \in DOMAIN pool[c] : m < n =>
        /\ q[c].order = "recent" => pool[c][m].at >= pool[c][n].at
        /\ q[c].order = "oldest" => pool[c][m].at <= pool[c][n].at

\* An answer is what was asked for, although two reads, a filter and a sort
\* between writes of others have made it.
AnswersFit ==
    \A c \in Callers : Answered(c) => WithinWindow(c) /\ ExpansionSound(c) /\ InTimeOrder(c)

\* A search is not refused because the layer is absent (searchVecSQL: "the vector-only fallback (BM25 layer absent)").
SearchFallsBack == Refused("search") = {}

\* A question that was dismissed stays so however often it is asked: an operator
\* changes it, or the brain goes (recordGap).
DismissedStays ==
    [][\A g \in DOMAIN gaps :
        gaps[g].status = "dismissed" /\ gaps'[g].hits > gaps[g].hits => gaps'[g].status = "dismissed"]_vars
=============================================================================
