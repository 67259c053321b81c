---------------------------- MODULE MCMemoryStore ----------------------------
(* Small instances of MemoryStore.  Two contents give every outcome of the   *)
(* write decision: the same again is a noop, a retraction of a fact          *)
(* invalidates it, the fact after its retraction is an update, and a         *)
(* neighbour that is not found, an addition.                                 *)
EXTENDS Archive, TLC

CONSTANTS n1, r1, fact, retraction

MCSimilarity == [c \in Contents |-> [d \in Contents |-> IF c = d THEN 100 ELSE 92]]

MCNorm == [c \in Contents |-> c]

\* A file of one line, and a file that repeats a record of a brain.
MCFiles == {<<[ns |-> n1, ref |-> r1, content |-> fact]>>,
            <<[ns |-> n1, ref |-> r1, content |-> fact], [ns |-> n1, ref |-> NoRef, content |-> fact]>>}
NoFiles == {}

Symmetry == Permutations(Workers)
=============================================================================
