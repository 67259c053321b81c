-------------------------------- MODULE Archive --------------------------------
(* A brain's archive (admin.go: Export, then Import into a brain that is     *)
(* empty).  Export is one SELECT, so a function of the table of one instant; *)
(* the statements of an Import that nobody disturbs follow one another, so   *)
(* that each line gets a later now() than the one before.                    *)
EXTENDS MemoryStore, Functions

\* The live rows, one by one, in any order.
Listings(ns) == {rows \in [1..Cardinality(LiveIn(ns)) -> LiveIn(ns)] : IsInjective(rows)}

\* Mutant: the rows come as the table has them.
ExportUnordered(ns) == Listings(ns)

\* ORDER BY valid_at; rows with the same valid_at come in any order.
Export(ns) ==
    {rows \in Listings(ns) : \A m, n \in DOMAIN rows : m < n => mem[rows[m]].at <= mem[rows[n]].at}

\* The table that Import makes of a file: what Import reads of a line, valid_at
\* not included, at the time of its own INSERT.
Import(rows) ==
    [n \in DOMAIN rows |-> [ref |-> mem[rows[n]].ref, content |-> mem[rows[n]].content, at |-> n]]

\* The contents that are the newest of record ref, in a table of live rows.
NewestSay(table, ref) ==
    {table[i].content : i \in {i \in DOMAIN table :
        /\ table[i].ref = ref
        /\ \A k \in DOMAIN table : table[k].ref = ref => table[k].at <= table[i].at}}

\* admin.go:84-88, 118-119: an archive brings a brain back.  Although Import drops
\* the event times, each record of the brain that it makes says last what it
\* said last in the brain exported, whatever copies of it races left live.
ArchiveKeepsTheLastWord ==
    \A ns \in Namespaces : \A rows \in Export(ns) : \A ref \in Refs :
        LET before == NewestSay([i \in LiveIn(ns) |-> mem[i]], ref)
            after == NewestSay(Import(rows), ref)
        IN  after \subseteq before /\ (before # {} => after # {})
=============================================================================
