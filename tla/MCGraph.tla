------------------------------- MODULE MCGraph -------------------------------
(* Small instances of Graph.                                                *)
EXTENDS Graph

CONSTANTS m1, m2, doc1, doc2, chunk, node1, node2

\* The documents of a memory of the brain and of another brain's share an id that
\* is no node; an entity is two edges from one and one edge from the other.
Typed ==
    [ids |-> {doc1, doc2, chunk, node1},
     label |-> (doc1 :> 3) @@ (doc2 :> 3) @@ (node1 :> 1),
     type |-> (doc1 :> "chunk") @@ (doc2 :> "chunk") @@ (node1 :> "entity"),
     names |-> (doc1 :> {m1}) @@ (doc2 :> {m2}) @@ (node1 :> {}),
     edges |-> {<<doc1, chunk>>, <<node1, chunk>>, <<chunk, doc2>>, <<doc2, node1>>}]
\* A document that names two memories, without types, next to another one whose
\* label passes for an entity.
Untyped ==
    [ids |-> {doc1, doc2, node2},
     label |-> (doc1 :> Null) @@ (doc2 :> 3) @@ (node2 :> 2),
     type |-> (doc1 :> "") @@ (doc2 :> "") @@ (node2 :> ""),
     names |-> (doc1 :> {m1, m2}) @@ (doc2 :> {}) @@ (node2 :> {}),
     edges |-> {<<doc1, doc2>>, <<node2, doc2>>}]
Answers == {Typed, Untyped}

AllLinks == Entities \X Entities
\* Any edges forwards, one backwards that makes a cycle, and a loop.
SomeLinks == {l \in AllLinks : l[1] < l[2]} \cup {<<3, 1>>, <<2, 2>>}
\* The orders by name, and by type and name, have nothing to do with the ids.
Reversed == [e \in Entities |-> 10 - e]
\* One hub, and two entities of a timed role; the explorer shows one of these.
Roles == [e \in Entities |-> IF e = 1 THEN "venture" ELSE "activity"]
Quotas == [r \in {"venture", "activity"} |-> IF r = "venture" THEN 5 ELSE 1]
\* Old and new edges; 1 and 2 are joined by two.
Starts == [l \in SomeLinks |-> IF l = <<1, 2>> THEN {1, 3} ELSE {l[2]}]

\* No window, one given by its bounds, one by its length, and both.
Windows == {[since |-> 0, until |-> 0, window |-> 0], [since |-> 2, until |-> 2, window |-> 0],
            [since |-> 0, until |-> 0, window |-> 2], [since |-> 3, until |-> 0, window |-> 3]}
Queries ==
    {[depth |-> d, perGroup |-> k, hubs |-> h, roles |-> x, timed |-> t,
      since |-> w.since, until |-> w.until, window |-> w.window] :
        d \in {0, 1}, k \in {0, 1}, h \in {{}, {"activity"}}, x \in {{}, {"activity", "meeting"}},
        t \in {{}, {"*"}}, w \in Windows}
=============================================================================
