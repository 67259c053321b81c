-------------------------------- MODULE Chunks --------------------------------
(* chunkText (datasource.go): a document becomes chunks that are retained    *)
(* one by one.  A text is its paragraphs, split at blank lines: what one     *)
(* says, its size in runes and in bytes, and whether it is only spaces.  A   *)
(* chunk is a sequence of pieces, each a run of runes of one paragraph.      *)
EXTENDS Integers, Sequences, SequencesExt

CONSTANT MaxRunes       \* the size of a chunk: 1600 in the code

ASSUME SizeAssumption == MaxRunes \in Nat \ {0}

Paragraph == [words : STRING, runes : Nat, bytes : Nat, blank : BOOLEAN]

\* The text is trimmed first, so it neither begins nor ends with a blank, and
\* no rune is shorter than a byte.
IsText(text) ==
    /\ text # <<>> => ~ text[1].blank /\ ~ Last(text).blank
    /\ \A k \in DOMAIN text : text[k] \in Paragraph /\ text[k].bytes >= text[k].runes

Separator == 2          \* the blank line between two paragraphs

Piece(p, from, to) == [words |-> p.words, blank |-> p.blank, from |-> from, to |-> to]
Whole(p) == Piece(p, 1, p.runes)

Sum(numbers) == FoldLeft(+, 0, numbers)
Runes(pieces) ==
    Sum([i \in DOMAIN pieces |-> pieces[i].to - pieces[i].from + 1]) + Separator * (Len(pieces) - 1)

\* An oversized paragraph is cut every MaxRunes runes.
Cut(p) ==
    [i \in 1..((p.runes + MaxRunes - 1) \div MaxRunes) |->
        <<Piece(p, (i - 1) * MaxRunes + 1, IF i * MaxRunes > p.runes THEN p.runes ELSE i * MaxRunes)>>]

\* The builder: the chunks so far, the pieces of the next one and its bytes.
Builder(out) == [out |-> out, cur |-> <<>>, bytes |-> 0]
Flush(b) == IF b.bytes > 0 THEN Builder(Append(b.out, b.cur)) ELSE b
Write(b, p) == [b EXCEPT !.cur = Append(@, Whole(p)), !.bytes = @ + p.bytes + Separator]

\* Mutant: the builder is not flushed before an oversized paragraph.
AddWithoutFlush(b, p) ==
    LET room == IF b.bytes + p.bytes + Separator > MaxRunes THEN Flush(b) ELSE b
    IN  IF p.runes > MaxRunes THEN Builder(b.out \o Cut(p)) ELSE Write(room, p)

\* The loop's body: the room is counted in bytes, the limit is one of runes.
Add(b, p) ==
    LET room == IF b.bytes + p.bytes + Separator > MaxRunes THEN Flush(b) ELSE b
    IN  IF p.runes > MaxRunes THEN Builder(Flush(room).out \o Cut(p)) ELSE Write(room, p)

chunkText(text) ==
    LET whole == [k \in DOMAIN text |-> Whole(text[k])]
    IN  IF text = <<>> THEN <<>>
        ELSE IF Runes(whole) <= MaxRunes THEN <<whole>>
        ELSE Flush(FoldLeft(Add, Builder(<<>>), text)).out

-----------------------------------------------------------------------------
(* What it promises, for a text.                                            *)

\* The runes of some pieces, one by one, blank ones left out.
Spelt(piece) == [j \in 1..(piece.to - piece.from + 1) |-> <<piece.words, piece.from + j - 1>>]
Said(pieces) == FoldLeft(LAMBDA s, piece : IF piece.blank THEN s ELSE s \o Spelt(piece), <<>>, pieces)

Complete(text) == Said(FlattenSeq(chunkText(text))) = Said([k \in DOMAIN text |-> Whole(text[k])])
Fits(text) == \A i \in DOMAIN chunkText(text) : Runes(chunkText(text)[i]) <= MaxRunes
=============================================================================
