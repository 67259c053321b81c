----------------------------- MODULE MCDatasource -----------------------------
(* Small instances of Datasource, with chunks of 8 runes.                   *)
EXTENDS Datasource

CONSTANTS repo, rows, hook

Para(words, runes, bytes) == [words |-> words, runes |-> runes, bytes |-> bytes, blank |-> FALSE]
BlankLine(bytes) == [words |-> "", runes |-> bytes, bytes |-> bytes, blank |-> TRUE]

\* Sizes on both sides of every limit, with runes of one byte and of two.
Short == Para("short", 2, 2)
Fitting == Para("fitting", 6, 6)
Full == Para("full", 8, 8)
Wide == Para("wide", 5, 10)
Long == Para("long", 9, 9)
Endless == Para("endless", 17, 17)

Words == {Short, Fitting, Full, Wide, Long, Endless}
Blanks == {BlankLine(0), BlankLine(3), BlankLine(9)}
AllTexts ==
    {<<>>} \cup {<<p>> : p \in Words} \cup (Words \X Words)
        \cup (Words \X (Words \cup Blanks) \X Words)
        \cup (Words \X {Short, Full} \X Blanks \X {Short, Full, Long})

\* A repository whose file shrinks, rows that repeat, and a push without a ref.
Doc(ref, text) == [ref |-> ref, text |-> text]
Repository == {<<Doc("a", <<Full, Short>>)>>, <<Doc("a", <<Short>>), Doc("b", <<Wide>>)>>}
Table == {<<Doc("1", <<Short>>), Doc(NoRef, <<Short>>)>>}
Pushes == {<<Doc("webhook", <<Long>>)>>, <<Doc("webhook", <<Full>>)>>}
Finds == (repo :> Repository) @@ (rows :> Table) @@ (hook :> Pushes)
=============================================================================
