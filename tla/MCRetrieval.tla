------------------------------ MODULE MCRetrieval ------------------------------
(* Small instances of Retrieval.                                            *)
EXTENDS Retrieval, TLC

CONSTANTS b1, b2, post, noise, e1, t1

Stored(at, invalid, kind) ==
    [ns |-> b1, at |-> at, invalid |-> invalid, kind |-> kind, hot |-> TRUE,
     important |-> FALSE, embedded |-> TRUE, tokenized |-> TRUE]

\* A row of the past that was superseded, one without an embedding, one that
\* is cold, one that matters, one of another brain, and room for one more.
Table1 == (1 :> Stored(0, 1, post)) @@ (2 :> [Stored(1, Never, post) EXCEPT !.embedded = FALSE])
       @@ (3 :> Stored(2, Never, noise)) @@ (4 :> Absent)
Table2 == (1 :> [Stored(1, Never, post) EXCEPT !.important = TRUE]) @@ (2 :> Stored(0, Never, post))
       @@ (3 :> [Stored(1, Never, post) EXCEPT !.ns = b2]) @@ (4 :> [Stored(2, Never, post) EXCEPT !.hot = FALSE])
Table3 == [i \in Ids |-> Absent]
AllTables == {Table1, Table2, Table3}

AllLinks == {{1, 3, 4} \X {e1}}
NewRows == {Stored(1, Never, post), [Stored(0, Never, noise) EXCEPT !.tokenized = FALSE]}

Question(limit) ==
    [op |-> "recall", brains |-> {b1}, text |-> t1, limit |-> limit, kinds |-> {post, noise},
     important |-> FALSE, expand |-> TRUE, since |-> 0, until |-> Never, asOf |-> None,
     order |-> "relevance"]
AllQueries ==
    {Question(1), [Question(2) EXCEPT !.important = TRUE, !.order = "recent"],
     [Question(1) EXCEPT !.kinds = {post}, !.since = 1, !.until = 1, !.order = "oldest"],
     [Question(2) EXCEPT !.asOf = 0, !.order = "oldest"],
     [Question(2) EXCEPT !.op = "search", !.brains = {b1, b2}, !.expand = FALSE]}
\* A search whose query may be refused is the question of the other run.
Searches == {k \in AllQueries : k.op = "search"}

Symmetry == Permutations(Callers)
=============================================================================
