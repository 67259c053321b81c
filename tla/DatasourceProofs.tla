--------------------------- MODULE DatasourceProofs ---------------------------
(* For any sources, callers and documents: doc_count never exceeds what was *)
(* retained, no path of a sync that keeps its request leaves "syncing", a   *)
(* sync left alone brings all it fetched, and the chunks are the text.      *)
EXTENDS Datasource, SequenceTheorems, WellFoundedInduction, TLAPS

-----------------------------------------------------------------------------
(* Folds over a sequence, one element after the other.                      *)

\* A set of numbers that holds 0 and, with each number, the next holds them all.
LEMMA Counting ==
    ASSUME NEW S, 0 \in S, \A j \in Nat : j \in S => j + 1 \in S
    PROVE  Nat \subseteq S
<1> DEFINE T == Nat \ S
           R == OpToRel(<, Nat)
<1>1. \A x, y \in Nat : <<y, x>> \in R <=> y < x
  BY DEF OpToRel
<1>2. IsWellFoundedOn(R, Nat)
  BY NatLessThanWellFounded
<1> HIDE DEF R
<1>3. ASSUME T # {} PROVE FALSE
  <2>1. PICK x \in T : \A y \in T : ~ (<<y, x>> \in R)
    <3>1. T \subseteq Nat /\ T # {}
      BY <1>3
    <3> HIDE DEF T
    <3> QED BY <1>2, <3>1, WFMin
  <2>2. x \in Nat /\ x # 0
    OBVIOUS
  <2>3. x - 1 \in Nat /\ x - 1 < x /\ (x - 1) + 1 = x
    BY <2>2
  <2>4. x - 1 \notin T
    BY <1>1, <2>1, <2>2, <2>3
  <2> QED BY <2>2, <2>3, <2>4
<1> QED BY <1>3

\* The last of some numbers, when there is none after k.
LEMMA LastIs ==
    ASSUME NEW k \in Nat, NEW t \in SUBSET (1..k), k \in t
    PROVE  Max(t) = k
<1>1. \A y \in t : y \in Int /\ k >= y
  OBVIOUS
<1>2. \A z \in t : (\A y \in t : z >= y) => z = k
  BY <1>1
<1> QED BY <1>1, <1>2 DEF Max

\* Some numbers up to k have a last one.
LEMMA LastOne ==
    ASSUME NEW k \in Nat, NEW t \in SUBSET (1..k), t # {}
    PROVE  \E m \in t : \A j \in t : j <= m
<1> DEFINE K == {j \in Nat : \A u \in SUBSET (1..j) : u # {} => \E m \in u : \A l \in u : l <= m}
<1>1. 0 \in K
  <2>1. \A u \in SUBSET (1..0) : u = {}
    OBVIOUS
  <2> QED BY <2>1
<1>2. ASSUME NEW j \in Nat, j \in K PROVE j + 1 \in K
  <2> SUFFICES ASSUME NEW u \in SUBSET (1..(j + 1)), u # {} PROVE \E m \in u : \A l \in u : l <= m
    OBVIOUS
  <2>1. CASE j + 1 \in u
    BY <2>1
  <2>2. CASE j + 1 \notin u
    <3>1. \A l \in u : l \in 1..j
      BY <2>2
    <3>2. u \in SUBSET (1..j)
      BY <3>1
    <3> QED BY <1>2, <3>2
  <2> QED BY <2>1, <2>2
<1>3. k \in K
  <2> HIDE DEF K
  <2> QED BY <1>1, <1>2, Counting
<1> QED BY <1>3

\* The equation of MapThenFoldSet when the numbers are taken from the last one.
Solves(g, N, base, step) ==
    g = [t \in SUBSET (1..N) |-> IF t = {} THEN base ELSE step[<<g[t \ {Max(t)}], Max(t)>>]]

\* It has a solution, and its values are where the steps stay.
LEMMA FoldExists ==
    ASSUME NEW N \in Nat, NEW A, NEW base \in A, NEW step,
           \A a \in A, j \in 1..N : step[<<a, j>>] \in A
    PROVE  \E g : Solves(g, N, base, step) /\ \A t \in SUBSET (1..N) : g[t] \in A
<1> DEFINE Folds(g, j) == g = [t \in SUBSET (1..j) |->
                                 IF t = {} THEN base ELSE step[<<g[t \ {Max(t)}], Max(t)>>]]
           In(g, j) == \A t \in SUBSET (1..j) : g[t] \in A
           There(j) == \E g : Folds(g, j) /\ In(g, j)
           K == {j \in Nat : j <= N => There(j)}
<1>1. 0 \in K
  <2>1. Folds([t \in SUBSET (1..0) |-> base], 0) /\ In([t \in SUBSET (1..0) |-> base], 0)
    OBVIOUS
  <2>2. There(0)
    BY <2>1
  <2> HIDE DEF There
  <2> QED BY <2>2
<1>2. ASSUME NEW j \in Nat, There(j), j + 1 <= N PROVE There(j + 1)
  <2>1. PICK g : Folds(g, j) /\ In(g, j)
    BY <1>2
  <2> DEFINE h == [t \in SUBSET (1..(j + 1)) |->
                     IF j + 1 \in t THEN step[<<g[t \ {j + 1}], j + 1>>] ELSE g[t]]
  <2>2. \A t \in SUBSET (1..(j + 1)) : j + 1 \notin t => t \in SUBSET (1..j)
    <3>1. \A x \in 1..(j + 1) : x # j + 1 => x \in 1..j
      OBVIOUS
    <3> QED BY <3>1
  <2>3. ASSUME NEW t \in SUBSET (1..(j + 1)), t # {}
        PROVE  h[t] = step[<<h[t \ {Max(t)}], Max(t)>>]
    <3>1. CASE j + 1 \in t
      <4>1. t \ {j + 1} \in SUBSET (1..(j + 1)) /\ j + 1 \notin t \ {j + 1}
        OBVIOUS
      <4>2. Max(t) = j + 1
        BY <3>1, LastIs
      <4> QED BY <3>1, <4>1, <4>2
    <3>2. CASE j + 1 \notin t
      <4>1. t \in SUBSET (1..j)
        BY <2>2, <3>2
      <4>2. t \ {Max(t)} \in SUBSET (1..(j + 1)) /\ j + 1 \notin t \ {Max(t)}
        BY <3>2
      <4>3. g[t] = step[<<g[t \ {Max(t)}], Max(t)>>]
        BY <2>1, <2>3, <4>1
      <4> QED BY <3>2, <4>2, <4>3
    <3> QED BY <3>1, <3>2
  <2>4. h[{}] = base
    BY <2>1
  <2>5. In(h, j + 1)
    <3> SUFFICES ASSUME NEW t \in SUBSET (1..(j + 1)) PROVE h[t] \in A
      OBVIOUS
    <3>1. CASE j + 1 \notin t
      BY <2>1, <2>2, <3>1
    <3>2. CASE j + 1 \in t
      <4>1. t \ {j + 1} \in SUBSET (1..j)
        <5>1. t \ {j + 1} \in SUBSET (1..(j + 1)) /\ j + 1 \notin t \ {j + 1}
          OBVIOUS
        <5> QED BY <2>2, <5>1
      <4>2. j + 1 \in 1..N
        BY <1>2
      <4>3. g[t \ {j + 1}] \in A
        BY <2>1, <4>1
      <4> QED BY <3>2, <4>2, <4>3
    <3> QED BY <3>1, <3>2
  <2>6. Folds(h, j + 1)
    <3>1. h = [t \in SUBSET (1..(j + 1)) |-> h[t]]
      OBVIOUS
    <3>2. \A t \in SUBSET (1..(j + 1)) :
            h[t] = IF t = {} THEN base ELSE step[<<h[t \ {Max(t)}], Max(t)>>]
      BY <2>3, <2>4
    <3> HIDE DEF h
    <3> QED BY <3>1, <3>2
  <2> HIDE DEF h, Folds, In
  <2> QED BY <2>5, <2>6
<1> HIDE DEF There
<1>3. \A j \in Nat : j \in K => j + 1 \in K
  BY <1>2
<1>4. N \in K
  <2> HIDE DEF K
  <2> QED BY <1>1, <1>3, Counting
<1>5. There(N)
  BY <1>4
<1> QED BY <1>5 DEF There, Solves

\* The numbers up to k, taken from the last one down.
LEMMA Downward ==
    ASSUME NEW k \in Nat \ {0}
    PROVE  Max(1..k) = k /\ (1..k) \ {k} = 1..(k - 1) /\ 1..k # {}
<1>1. \A x : x \in (1..k) \ {k} <=> x \in 1..(k - 1)
  OBVIOUS
<1>2. k \in 1..k
  OBVIOUS
<1> QED BY <1>1, <1>2, LastIs

LEMMA LastInside ==
    ASSUME NEW N \in Nat
    PROVE  \A t \in SUBSET (1..N) : t # {} => Max(t) \in 1..N /\ t \ {Max(t)} \in SUBSET (1..N)
<1> SUFFICES ASSUME NEW t \in SUBSET (1..N), t # {} PROVE Max(t) \in 1..N
  OBVIOUS
<1>1. PICK m \in t : \A j \in t : j <= m
  BY LastOne
<1>2. \A j \in t : m >= j
  BY <1>1
<1> QED BY <1>2 DEF Max

-----------------------------------------------------------------------------
(* chunkText, for any text and any size.                                    *)

PieceType == [words : STRING, blank : BOOLEAN, from : Nat \ {0}, to : Nat]
Rune == STRING \X Int
Say(s, piece) == IF piece.blank THEN s ELSE s \o Spelt(piece)
Built(s) == FoldLeft(Add, Builder(<<>>), s)
BuilderType == [out : Seq(Seq(PieceType)), cur : Seq(PieceType), bytes : Nat]

LEMMA WholeTyped == ASSUME NEW p \in Paragraph PROVE Whole(p) \in PieceType
BY DEF Paragraph, Whole, Piece, PieceType

LEMMA SpeltTyped == ASSUME NEW piece \in PieceType PROVE Spelt(piece) \in Seq(Rune)
<1>1. piece.to - piece.from + 1 <= piece.to /\ piece.to \in Nat /\ piece.from \in Nat
  BY DEF PieceType
<1> DEFINE k == piece.to - piece.from + 1
<1>2. \A j \in 1..k : <<piece.words, piece.from + j - 1>> \in Rune
  BY <1>1 DEF PieceType, Rune
<1>3. CASE k \in Nat
  BY <1>2, <1>3 DEF Spelt
<1>4. CASE k \notin Nat
  <2>1. 1..k = 1..0 /\ k \in Int
    BY <1>1, <1>4
  <2>2. Spelt(piece) = [j \in 1..0 |-> <<piece.words, piece.from + j - 1>>]
    BY <2>1 DEF Spelt
  <2> QED BY <2>2
<1> QED BY <1>3, <1>4

LEMMA CutTyped ==
    ASSUME NEW p \in Paragraph
    PROVE  /\ Cut(p) \in Seq(Seq(PieceType))
           /\ Len(Cut(p)) \in Nat /\ Len(Cut(p)) * MaxRunes >= p.runes
           /\ \A i \in 1..Len(Cut(p)) :
                Cut(p)[i] = <<Piece(p, (i - 1) * MaxRunes + 1, IF i * MaxRunes > p.runes THEN p.runes ELSE i * MaxRunes)>>
<1> DEFINE k == (p.runes + MaxRunes - 1) \div MaxRunes
           part(i) == Piece(p, (i - 1) * MaxRunes + 1, IF i * MaxRunes > p.runes THEN p.runes ELSE i * MaxRunes)
<1>1. p.runes \in Nat /\ p.words \in STRING /\ p.blank \in BOOLEAN
  BY DEF Paragraph
<1>2. k \in Nat /\ k * MaxRunes >= p.runes
  BY <1>1, SizeAssumption
<1>3. Cut(p) = [i \in 1..k |-> <<part(i)>>]
  BY DEF Cut
<1> HIDE DEF k
<1>4. \A i \in 1..k : part(i) \in PieceType
  <2> SUFFICES ASSUME NEW i \in 1..k PROVE part(i) \in PieceType
    OBVIOUS
  <2>1. (i - 1) * MaxRunes \in Nat /\ i * MaxRunes \in Nat
    BY <1>2, SizeAssumption
  <2> QED BY <1>1, <2>1 DEF PieceType, Piece
<1> HIDE DEF part
<1>5. \A i \in 1..k : <<part(i)>> \in Seq(PieceType)
  BY <1>4
<1>6. Cut(p) \in Seq(Seq(PieceType)) /\ Len(Cut(p)) = k
  BY <1>2, <1>3, <1>5
<1> QED BY <1>2, <1>3, <1>6 DEF part

LEMMA FlushTyped == ASSUME NEW b \in BuilderType PROVE Flush(b) \in BuilderType
BY DEF Flush, BuilderType, Builder

LEMMA WriteIs ==
    ASSUME NEW b \in BuilderType, NEW p \in Paragraph
    PROVE  /\ Write(b, p) \in BuilderType
           /\ Write(b, p).out = b.out
           /\ Write(b, p).cur = Append(b.cur, Whole(p))
           /\ Write(b, p).bytes = b.bytes + p.bytes + Separator
<1> DEFINE c == Append(b.cur, Whole(p))
           h == b.bytes + p.bytes + Separator
<1>1. c \in Seq(PieceType) /\ h \in Nat
  BY WholeTyped DEF BuilderType, Paragraph, Separator
<1>2. Write(b, p) = [b EXCEPT !.cur = c, !.bytes = h]
  BY DEF Write
<1> HIDE DEF c, h
<1>3. [b EXCEPT !.cur = c, !.bytes = h] \in BuilderType
  BY <1>1 DEF BuilderType
<1>4. Write(b, p).out = b.out /\ Write(b, p).cur = c /\ Write(b, p).bytes = h
  BY <1>1, <1>2 DEF BuilderType
<1> QED BY <1>2, <1>3, <1>4 DEF c, h

LEMMA AddTyped == ASSUME NEW b \in BuilderType, NEW p \in Paragraph PROVE Add(b, p) \in BuilderType
<1> DEFINE room == IF b.bytes + p.bytes + Separator > MaxRunes THEN Flush(b) ELSE b
<1>1. room \in BuilderType
  BY FlushTyped
<1>2. Flush(room) \in BuilderType
  BY <1>1, FlushTyped
<1> HIDE DEF room
<1>3. CASE p.runes > MaxRunes
  <2>1. Add(b, p) = Builder(Flush(room).out \o Cut(p))
    BY <1>3 DEF Add, room
  <2>2. Flush(room).out \o Cut(p) \in Seq(Seq(PieceType))
    BY <1>2, CutTyped DEF BuilderType
  <2> QED BY <2>1, <2>2 DEF Builder, BuilderType
<1>4. CASE ~ (p.runes > MaxRunes)
  <2>1. Add(b, p) = Write(room, p)
    BY <1>4 DEF Add, room
  <2> QED BY <1>1, <2>1, WriteIs
<1> QED BY <1>3, <1>4

\* A sum, one number after the other.
LEMMA SumUnfolds ==
    ASSUME NEW s \in Seq(Int)
    PROVE  \E f : /\ f[0] = 0 /\ f[Len(s)] = Sum(s)
                  /\ \A j \in 1..Len(s) : f[j] = f[j - 1] + s[j]
<1> DEFINE N == Len(s)
           A == Int
           step == [p \in A \X (1..N) |-> p[1] + s[p[2]]]
           Folds(g) == g = [t \in SUBSET (1..N) |->
                              IF t = {} THEN 0 ELSE g[t \ {Max(t)}] + s[Max(t)]]
<1>1. N \in Nat /\ DOMAIN s = 1..N /\ \A j \in 1..N : s[j] \in Int
  OBVIOUS
<1>2. 0 \in A /\ \A a \in A, j \in 1..N : a + s[j] \in A
  BY <1>1
<1>3. \A a \in A, j \in 1..N : step[<<a, j>>] = a + s[j]
  OBVIOUS
<1> HIDE DEF step
<1>4. PICK g : Solves(g, N, 0, step) /\ \A t \in SUBSET (1..N) : g[t] \in A
  <2>1. 0 \in A /\ \A a \in A, j \in 1..N : step[<<a, j>>] \in A
    BY <1>2, <1>3
  <2>2. N \in Nat
    BY <1>1
  <2> HIDE DEF A, N
  <2> QED BY <2>1, <2>2, FoldExists
<1>5. \A t \in SUBSET (1..N) : t # {} => Max(t) \in 1..N /\ t \ {Max(t)} \in SUBSET (1..N)
  BY <1>1, LastInside
<1>6. Folds(g)
  <2> HIDE DEF A
  <2> QED BY <1>3, <1>4, <1>5 DEF Solves
<1> DEFINE iter == CHOOSE h : Folds(h)
<1>7. Folds(iter)
  BY <1>6
<1>8. Sum(s) = iter[1..N]
  BY <1>1 DEF Sum, FoldLeft, MapThenFoldSet
<1> HIDE DEF iter
<1> DEFINE f == [j \in 0..N |-> iter[1..j]]
<1>9. ASSUME NEW j \in 1..N PROVE f[j] = f[j - 1] + s[j]
  <2>1. j \in Nat \ {0} /\ j \in 0..N /\ j - 1 \in 0..N /\ 1..j \in SUBSET (1..N)
    BY <1>1
  <2> QED BY <1>7, <2>1, Downward
<1>10. f[0] = 0 /\ f[N] = Sum(s)
  BY <1>1, <1>7, <1>8
<1> HIDE DEF f, N
<1> QED BY <1>9, <1>10 DEF N

\* What pieces say, one piece after the other.
LEMMA SaidUnfolds ==
    ASSUME NEW s \in Seq(PieceType)
    PROVE  \E f : /\ f[0] = <<>> /\ f[Len(s)] = Said(s)
                  /\ \A j \in 1..Len(s) : f[j] = Say(f[j - 1], s[j])
<1> DEFINE N == Len(s)
           A == Seq(Rune)
           step == [p \in A \X (1..N) |-> Say(p[1], s[p[2]])]
           Folds(g) == g = [t \in SUBSET (1..N) |->
                              IF t = {} THEN <<>> ELSE Say(g[t \ {Max(t)}], s[Max(t)])]
<1>1. N \in Nat /\ DOMAIN s = 1..N /\ \A j \in 1..N : s[j] \in PieceType
  OBVIOUS
<1>2. <<>> \in A /\ \A a \in A, j \in 1..N : Say(a, s[j]) \in A
  BY <1>1, SpeltTyped DEF Say
<1>3. \A a \in A, j \in 1..N : step[<<a, j>>] = Say(a, s[j])
  OBVIOUS
<1> HIDE DEF step
<1>4. PICK g : Solves(g, N, <<>>, step) /\ \A t \in SUBSET (1..N) : g[t] \in A
  <2>1. <<>> \in A /\ \A a \in A, j \in 1..N : step[<<a, j>>] \in A
    BY <1>2, <1>3
  <2>2. N \in Nat
    BY <1>1
  <2> HIDE DEF A, N
  <2> QED BY <2>1, <2>2, FoldExists
<1>5. \A t \in SUBSET (1..N) : t # {} => Max(t) \in 1..N /\ t \ {Max(t)} \in SUBSET (1..N)
  BY <1>1, LastInside
<1>6. Folds(g)
  <2> HIDE DEF A
  <2> QED BY <1>3, <1>4, <1>5 DEF Solves
<1> DEFINE iter == CHOOSE h : Folds(h)
<1>7. Folds(iter)
  BY <1>6
<1>8. Said(s) = iter[1..N]
  BY <1>1 DEF Said, Say, FoldLeft, MapThenFoldSet
<1> HIDE DEF iter
<1> DEFINE f == [j \in 0..N |-> iter[1..j]]
<1>9. ASSUME NEW j \in 1..N PROVE f[j] = Say(f[j - 1], s[j])
  <2>1. j \in Nat \ {0} /\ j \in 0..N /\ j - 1 \in 0..N /\ 1..j \in SUBSET (1..N)
    BY <1>1
  <2> QED BY <1>7, <2>1, Downward
<1>10. f[0] = <<>> /\ f[N] = Said(s)
  BY <1>1, <1>7, <1>8
<1> HIDE DEF f, N
<1> QED BY <1>9, <1>10 DEF N

\* The builder, one paragraph after the other.
LEMMA AddUnfolds ==
    ASSUME NEW s \in Seq(Paragraph)
    PROVE  \E f : /\ f[0] = Builder(<<>>) /\ f[Len(s)] = Built(s)
                  /\ \A j \in 1..Len(s) : f[j] = Add(f[j - 1], s[j])
<1> DEFINE N == Len(s)
           A == BuilderType
           step == [p \in A \X (1..N) |-> Add(p[1], s[p[2]])]
           Folds(g) == g = [t \in SUBSET (1..N) |->
                              IF t = {} THEN Builder(<<>>) ELSE Add(g[t \ {Max(t)}], s[Max(t)])]
<1>1. N \in Nat /\ DOMAIN s = 1..N /\ \A j \in 1..N : s[j] \in Paragraph
  OBVIOUS
<1>2. Builder(<<>>) \in A /\ \A a \in A, j \in 1..N : Add(a, s[j]) \in A
  BY <1>1, AddTyped DEF Builder, BuilderType
<1>3. \A a \in A, j \in 1..N : step[<<a, j>>] = Add(a, s[j])
  OBVIOUS
<1> HIDE DEF step
<1>4. PICK g : Solves(g, N, Builder(<<>>), step) /\ \A t \in SUBSET (1..N) : g[t] \in A
  <2>1. Builder(<<>>) \in A /\ \A a \in A, j \in 1..N : step[<<a, j>>] \in A
    BY <1>2, <1>3
  <2>2. N \in Nat
    BY <1>1
  <2> HIDE DEF A, N
  <2> QED BY <2>1, <2>2, FoldExists
<1>5. \A t \in SUBSET (1..N) : t # {} => Max(t) \in 1..N /\ t \ {Max(t)} \in SUBSET (1..N)
  BY <1>1, LastInside
<1>6. Folds(g)
  <2> HIDE DEF A
  <2> QED BY <1>3, <1>4, <1>5 DEF Solves
<1> DEFINE iter == CHOOSE h : Folds(h)
<1>7. Folds(iter)
  BY <1>6
<1>8. Built(s) = iter[1..N]
  BY <1>1 DEF Built, FoldLeft, MapThenFoldSet
<1> HIDE DEF iter
<1> DEFINE f == [j \in 0..N |-> iter[1..j]]
<1>9. ASSUME NEW j \in 1..N PROVE f[j] = Add(f[j - 1], s[j])
  <2>1. j \in Nat \ {0} /\ j \in 0..N /\ j - 1 \in 0..N /\ 1..j \in SUBSET (1..N)
    BY <1>1
  <2> QED BY <1>7, <2>1, Downward
<1>10. f[0] = Builder(<<>>) /\ f[N] = Built(s)
  BY <1>1, <1>7, <1>8
<1> HIDE DEF f, N
<1> QED BY <1>9, <1>10 DEF N

\* What holds of the empty sequence, and of a longer one when it does of its
\* front, holds of all.
LEMMA Appending ==
    ASSUME NEW S, NEW K, <<>> \in K, \A s \in Seq(S), x \in S : s \in K => Append(s, x) \in K
    PROVE  Seq(S) \subseteq K
<1> DEFINE T == {j \in Nat : \A s \in Seq(S) : Len(s) = j => s \in K}
<1>1. 0 \in T
  <2>1. \A s \in Seq(S) : Len(s) = 0 => s = <<>>
    OBVIOUS
  <2> QED BY <2>1
<1>2. ASSUME NEW j \in Nat, j \in T PROVE j + 1 \in T
  <2> SUFFICES ASSUME NEW s \in Seq(S), Len(s) = j + 1 PROVE s \in K
    OBVIOUS
  <2> DEFINE front == [i \in 1..j |-> s[i]]
  <2>1. \A i \in 1..(j + 1) : s[i] \in S
    OBVIOUS
  <2>2. front \in Seq(S) /\ Len(front) = j /\ s[j + 1] \in S
    BY <2>1
  <2>3. s = Append(front, s[j + 1])
    BY <2>1
  <2> HIDE DEF front
  <2> QED BY <1>2, <2>2, <2>3
<1>3. Nat \subseteq T
  <2> HIDE DEF T
  <2> QED BY <1>1, <1>2, Counting
<1> QED BY <1>3

\* A sum grows by the number appended.
LEMMA SumAppend ==
    /\ Sum(<<>>) = 0
    /\ \A s \in Seq(Int), x \in Int : Sum(s) \in Int /\ Sum(Append(s, x)) = Sum(s) + x
<1>1. Sum(<<>>) = 0
  <2>1. <<>> \in Seq(Int) /\ Len(<<>>) = 0
    OBVIOUS
  <2> QED BY <2>1, SumUnfolds
<1>2. ASSUME NEW s \in Seq(Int), NEW x \in Int
      PROVE  Sum(s) \in Int /\ Sum(Append(s, x)) = Sum(s) + x
  <2> DEFINE N == Len(s)
             t == Append(s, x)
  <2>1. /\ N \in Nat /\ t \in Seq(Int) /\ Len(t) = N + 1 /\ t[N + 1] = x
        /\ \A j \in 1..N : t[j] = s[j] /\ s[j] \in Int
    OBVIOUS
  <2> HIDE DEF t, N
  <2>2. PICK f : /\ f[0] = 0 /\ f[N] = Sum(s)
                 /\ \A j \in 1..N : f[j] = f[j - 1] + s[j]
    BY SumUnfolds DEF N
  <2>3. PICK g : /\ g[0] = 0 /\ g[N + 1] = Sum(t)
                 /\ \A j \in 1..(N + 1) : g[j] = g[j - 1] + t[j]
    <3>1. \E g : /\ g[0] = 0 /\ g[Len(t)] = Sum(t)
                   /\ \A j \in 1..Len(t) : g[j] = g[j - 1] + t[j]
      BY <2>1, SumUnfolds
    <3> QED BY <2>1, <3>1
  <2> DEFINE K == {j \in Nat : j <= N => f[j] = g[j] /\ f[j] \in Int}
  <2>4. 0 \in K
    <3>1. f[0] = g[0] /\ f[0] \in Int
      BY <2>2, <2>3
    <3> QED BY <3>1
  <2>5. ASSUME NEW j \in Nat, j \in K PROVE j + 1 \in K
    <3> SUFFICES ASSUME j + 1 <= N PROVE f[j + 1] = g[j + 1] /\ f[j + 1] \in Int
      OBVIOUS
    <3>1. j + 1 \in 1..N /\ j + 1 \in 1..(N + 1) /\ (j + 1) - 1 = j /\ j <= N
      BY <2>1
    <3>2. f[j] = g[j] /\ f[j] \in Int
      BY <2>5, <3>1
    <3>3. f[j + 1] = f[j] + s[j + 1] /\ g[j + 1] = g[j] + s[j + 1] /\ s[j + 1] \in Int
      BY <2>1, <2>2, <2>3, <3>1
    <3> QED BY <3>2, <3>3
  <2>6. N \in K
    <3> HIDE DEF K
    <3> QED BY <2>1, <2>4, <2>5, Counting
  <2>7. g[N + 1] = g[N] + x
    <3>1. N + 1 \in 1..(N + 1) /\ (N + 1) - 1 = N
      BY <2>1
    <3> QED BY <2>1, <2>3, <3>1
  <2> QED BY <2>1, <2>2, <2>3, <2>6, <2>7 DEF t
<1> QED BY <1>1, <1>2

\* What pieces say grows by what the piece appended says.
LEMMA SaidAppend ==
    /\ Said(<<>>) = <<>>
    /\ \A s \in Seq(PieceType), x \in PieceType : Said(s) \in Seq(Rune) /\ Said(Append(s, x)) = Say(Said(s), x)
<1>1. Said(<<>>) = <<>>
  <2>1. <<>> \in Seq(PieceType) /\ Len(<<>>) = 0
    OBVIOUS
  <2> QED BY <2>1, SaidUnfolds
<1>2. ASSUME NEW s \in Seq(PieceType), NEW x \in PieceType
      PROVE  Said(s) \in Seq(Rune) /\ Said(Append(s, x)) = Say(Said(s), x)
  <2> DEFINE N == Len(s)
             t == Append(s, x)
  <2>1. /\ N \in Nat /\ t \in Seq(PieceType) /\ Len(t) = N + 1 /\ t[N + 1] = x
        /\ \A j \in 1..N : t[j] = s[j] /\ s[j] \in PieceType
    OBVIOUS
  <2> HIDE DEF t, N
  <2>2. PICK f : /\ f[0] = <<>> /\ f[N] = Said(s)
                 /\ \A j \in 1..N : f[j] = Say(f[j - 1], s[j])
    BY SaidUnfolds DEF N
  <2>3. PICK g : /\ g[0] = <<>> /\ g[N + 1] = Said(t)
                 /\ \A j \in 1..(N + 1) : g[j] = Say(g[j - 1], t[j])
    <3>1. \E g : /\ g[0] = <<>> /\ g[Len(t)] = Said(t)
                   /\ \A j \in 1..Len(t) : g[j] = Say(g[j - 1], t[j])
      BY <2>1, SaidUnfolds
    <3> QED BY <2>1, <3>1
  <2> DEFINE K == {j \in Nat : j <= N => f[j] = g[j] /\ f[j] \in Seq(Rune)}
  <2>4. 0 \in K
    <3>1. f[0] = g[0] /\ f[0] \in Seq(Rune)
      BY <2>2, <2>3
    <3> QED BY <3>1
  <2>5. ASSUME NEW j \in Nat, j \in K PROVE j + 1 \in K
    <3> SUFFICES ASSUME j + 1 <= N PROVE f[j + 1] = g[j + 1] /\ f[j + 1] \in Seq(Rune)
      OBVIOUS
    <3>1. j + 1 \in 1..N /\ j + 1 \in 1..(N + 1) /\ (j + 1) - 1 = j /\ j <= N
      BY <2>1
    <3>2. f[j] = g[j] /\ f[j] \in Seq(Rune)
      BY <2>5, <3>1
    <3>3. f[j + 1] = Say(f[j], s[j + 1]) /\ g[j + 1] = Say(g[j], s[j + 1]) /\ s[j + 1] \in PieceType
      BY <2>1, <2>2, <2>3, <3>1
    <3> QED BY <3>2, <3>3, SpeltTyped DEF Say
  <2>6. N \in K
    <3> HIDE DEF K
    <3> QED BY <2>1, <2>4, <2>5, Counting
  <2>7. g[N + 1] = Say(g[N], x)
    <3>1. N + 1 \in 1..(N + 1) /\ (N + 1) - 1 = N
      BY <2>1
    <3> QED BY <2>1, <2>3, <3>1
  <2> QED BY <2>1, <2>2, <2>3, <2>6, <2>7 DEF t
<1> QED BY <1>1, <1>2

\* The builder takes one paragraph more.
LEMMA BuiltAppend ==
    /\ Built(<<>>) = Builder(<<>>)
    /\ \A s \in Seq(Paragraph), x \in Paragraph : Built(s) \in BuilderType /\ Built(Append(s, x)) = Add(Built(s), x)
<1>1. Built(<<>>) = Builder(<<>>)
  <2>1. <<>> \in Seq(Paragraph) /\ Len(<<>>) = 0
    OBVIOUS
  <2> QED BY <2>1, AddUnfolds
<1>2. ASSUME NEW s \in Seq(Paragraph), NEW x \in Paragraph
      PROVE  Built(s) \in BuilderType /\ Built(Append(s, x)) = Add(Built(s), x)
  <2> DEFINE N == Len(s)
             t == Append(s, x)
  <2>1. /\ N \in Nat /\ t \in Seq(Paragraph) /\ Len(t) = N + 1 /\ t[N + 1] = x
        /\ \A j \in 1..N : t[j] = s[j] /\ s[j] \in Paragraph
    OBVIOUS
  <2> HIDE DEF t, N
  <2>2. PICK f : /\ f[0] = Builder(<<>>) /\ f[N] = Built(s)
                 /\ \A j \in 1..N : f[j] = Add(f[j - 1], s[j])
    BY AddUnfolds DEF N
  <2>3. PICK g : /\ g[0] = Builder(<<>>) /\ g[N + 1] = Built(t)
                 /\ \A j \in 1..(N + 1) : g[j] = Add(g[j - 1], t[j])
    <3>1. \E g : /\ g[0] = Builder(<<>>) /\ g[Len(t)] = Built(t)
                   /\ \A j \in 1..Len(t) : g[j] = Add(g[j - 1], t[j])
      BY <2>1, AddUnfolds
    <3> QED BY <2>1, <3>1
  <2> DEFINE K == {j \in Nat : j <= N => f[j] = g[j] /\ f[j] \in BuilderType}
  <2>4. 0 \in K
    <3>1. f[0] = g[0] /\ f[0] \in BuilderType
      BY <2>2, <2>3 DEF Builder, BuilderType
    <3> QED BY <3>1
  <2>5. ASSUME NEW j \in Nat, j \in K PROVE j + 1 \in K
    <3> SUFFICES ASSUME j + 1 <= N PROVE f[j + 1] = g[j + 1] /\ f[j + 1] \in BuilderType
      OBVIOUS
    <3>1. j + 1 \in 1..N /\ j + 1 \in 1..(N + 1) /\ (j + 1) - 1 = j /\ j <= N
      BY <2>1
    <3>2. f[j] = g[j] /\ f[j] \in BuilderType
      BY <2>5, <3>1
    <3>3. f[j + 1] = Add(f[j], s[j + 1]) /\ g[j + 1] = Add(g[j], s[j + 1]) /\ s[j + 1] \in Paragraph
      BY <2>1, <2>2, <2>3, <3>1
    <3> QED BY <3>2, <3>3, AddTyped
  <2>6. N \in K
    <3> HIDE DEF K
    <3> QED BY <2>1, <2>4, <2>5, Counting
  <2>7. g[N + 1] = Add(g[N], x)
    <3>1. N + 1 \in 1..(N + 1) /\ (N + 1) - 1 = N
      BY <2>1
    <3> QED BY <2>1, <2>3, <3>1
  <2> QED BY <2>1, <2>2, <2>3, <2>6, <2>7 DEF t
<1> QED BY <1>1, <1>2

\* Flattening, one sequence after the other.
LEMMA FlattenUnfolds ==
    ASSUME NEW S, NEW ss \in Seq(Seq(S)), Len(ss) # 0
    PROVE  \E f : /\ f[1] = ss[1] /\ f[Len(ss)] = FlattenSeq(ss)
                  /\ \A j \in 2..Len(ss) : f[j] = f[j - 1] \o ss[j]
<1> DEFINE N == Len(ss)
           Flat(g, j) == g = [i \in 1..j |-> IF i = 1 THEN ss[i] ELSE g[i - 1] \o ss[i]]
           K == {j \in Nat : \E g : Flat(g, j)}
<1>0. N \in Nat /\ N >= 1
  OBVIOUS
<1>1. 0 \in K
  <2>1. Flat([i \in 1..0 |-> ss[i]], 0)
    OBVIOUS
  <2> HIDE DEF Flat
  <2> QED BY <2>1
<1>2. ASSUME NEW j \in Nat, j \in K PROVE j + 1 \in K
  <2>1. PICK g : Flat(g, j)
    BY <1>2
  <2> DEFINE h == [i \in 1..(j + 1) |-> IF i = j + 1 THEN IF i = 1 THEN ss[i] ELSE g[j] \o ss[i] ELSE g[i]]
  <2>2. ASSUME NEW i \in 1..(j + 1) PROVE h[i] = IF i = 1 THEN ss[i] ELSE h[i - 1] \o ss[i]
    <3>1. CASE i = j + 1
      <4>1. i # 1 => i - 1 \in 1..(j + 1) /\ i - 1 = j /\ i - 1 # j + 1
        BY <3>1
      <4> QED BY <3>1, <4>1
    <3>2. CASE i # j + 1
      <4>1. i \in 1..j /\ (i # 1 => i - 1 \in 1..(j + 1) /\ i - 1 # j + 1)
        BY <3>2
      <4> QED BY <2>1, <3>2, <4>1
    <3> QED BY <3>1, <3>2
  <2>3. h = [i \in 1..(j + 1) |-> h[i]]
    OBVIOUS
  <2> HIDE DEF h
  <2>4. Flat(h, j + 1)
    BY <2>2, <2>3
  <2> HIDE DEF Flat
  <2> QED BY <2>4
<1>3. \E g : Flat(g, N)
  <2> HIDE DEF K, N
  <2>1. N \in K
    BY <1>0, <1>1, <1>2, Counting
  <2> QED BY <2>1 DEF K
<1> DEFINE f == CHOOSE g : Flat(g, N)
<1>4. Flat(f, N)
  BY <1>3
<1>5. FlattenSeq(ss) = f[N]
  BY <1>0 DEF FlattenSeq
<1> HIDE DEF f
<1>6. f[1] = ss[1]
  <2>1. 1 \in 1..N
    BY <1>0
  <2> QED BY <1>4, <2>1
<1>7. \A j \in 2..N : f[j] = f[j - 1] \o ss[j]
  <2> SUFFICES ASSUME NEW j \in 2..N PROVE f[j] = f[j - 1] \o ss[j]
    OBVIOUS
  <2>1. j \in 1..N /\ j # 1
    BY <1>0
  <2> QED BY <1>4, <2>1
<1> QED BY <1>5, <1>6, <1>7

LEMMA FlattenAppend ==
    ASSUME NEW S
    PROVE  /\ FlattenSeq(<<>>) = <<>>
           /\ \A ss \in Seq(Seq(S)), x \in Seq(S) :
                FlattenSeq(ss) \in Seq(S) /\ FlattenSeq(Append(ss, x)) = FlattenSeq(ss) \o x
<1>1. FlattenSeq(<<>>) = <<>>
  BY DEF FlattenSeq
<1>2. ASSUME NEW ss \in Seq(Seq(S)), NEW x \in Seq(S)
      PROVE  FlattenSeq(ss) \in Seq(S) /\ FlattenSeq(Append(ss, x)) = FlattenSeq(ss) \o x
  <2> DEFINE N == Len(ss)
             tt == Append(ss, x)
  <2>1. /\ N \in Nat /\ tt \in Seq(Seq(S)) /\ Len(tt) = N + 1 /\ tt[N + 1] = x
        /\ \A j \in 1..N : tt[j] = ss[j] /\ ss[j] \in Seq(S)
    OBVIOUS
  <2> HIDE DEF tt
  <2>2. PICK g : /\ g[1] = tt[1] /\ g[N + 1] = FlattenSeq(tt)
                 /\ \A j \in 2..(N + 1) : g[j] = g[j - 1] \o tt[j]
    <3>1. Len(tt) # 0
      BY <2>1
    <3>2. \E g : /\ g[1] = tt[1] /\ g[Len(tt)] = FlattenSeq(tt)
                   /\ \A j \in 2..Len(tt) : g[j] = g[j - 1] \o tt[j]
      BY <2>1, <3>1, FlattenUnfolds
    <3> HIDE DEF N
    <3> QED BY <2>1, <3>2
  <2>3. CASE N = 0
    <3>1. ss = <<>>
      BY <2>3
    <3>2. g[N + 1] = x
      BY <2>1, <2>2, <2>3
    <3>3. <<>> \in Seq(S) /\ <<>> \o x = x
      OBVIOUS
    <3> QED BY <1>1, <2>2, <3>1, <3>2, <3>3 DEF tt
  <2>4. CASE N # 0
    <3>1. PICK f : /\ f[1] = ss[1] /\ f[N] = FlattenSeq(ss)
                   /\ \A j \in 2..N : f[j] = f[j - 1] \o ss[j]
      BY <2>4, FlattenUnfolds
    <3> HIDE DEF N
    <3> DEFINE K == {j \in Nat : j + 1 <= N => f[j + 1] = g[j + 1] /\ f[j + 1] \in Seq(S)}
    <3>2. 0 \in K
      <4>1. 1 \in 1..N /\ 0 + 1 = 1
        BY <2>1, <2>4
      <4> QED BY <2>1, <2>2, <3>1, <4>1
    <3>3. ASSUME NEW j \in Nat, j \in K PROVE j + 1 \in K
      <4> SUFFICES ASSUME (j + 1) + 1 <= N PROVE f[(j + 1) + 1] = g[(j + 1) + 1] /\ f[(j + 1) + 1] \in Seq(S)
        OBVIOUS
      <4> DEFINE m == (j + 1) + 1
      <4>1. m \in 2..N /\ m \in 2..(N + 1) /\ m \in 1..N /\ m - 1 = j + 1 /\ j + 1 <= N
        BY <2>1
      <4> HIDE DEF m
      <4>2. f[j + 1] = g[j + 1] /\ f[j + 1] \in Seq(S)
        BY <3>3, <4>1
      <4>3. f[m] = f[j + 1] \o ss[m] /\ g[m] = g[j + 1] \o ss[m] /\ ss[m] \in Seq(S)
        BY <2>1, <2>2, <3>1, <4>1
      <4>4. f[m] = g[m] /\ f[m] \in Seq(S)
        BY <4>2, <4>3
      <4> QED BY <4>4 DEF m
    <3>4. Nat \subseteq K
      <4> HIDE DEF K
      <4> QED BY <3>2, <3>3, Counting
    <3>5. f[N] = g[N] /\ f[N] \in Seq(S)
      <4>1. N - 1 \in Nat /\ (N - 1) + 1 = N
        BY <2>1, <2>4
      <4> QED BY <3>4, <4>1
    <3>6. g[N + 1] = g[N] \o x
      <4>1. N + 1 \in 2..(N + 1) /\ (N + 1) - 1 = N
        BY <2>1, <2>4
      <4> QED BY <2>1, <2>2, <4>1
    <3> QED BY <2>2, <3>1, <3>5, <3>6 DEF tt
  <2> QED BY <2>3, <2>4
<1> QED BY <1>1, <1>2

\* The runes of the pieces of a chunk, one piece more.
LEMMA RunesAppend ==
    /\ Runes(<<>>) = -2
    /\ \A s \in Seq(PieceType), x \in PieceType :
        /\ Runes(s) \in Int
        /\ Runes(Append(s, x)) = Runes(s) + (x.to - x.from + 1) + 2
<1> DEFINE size(x) == x.to - x.from + 1
           sizes(s) == [i \in DOMAIN s |-> size(s[i])]
<1>1. Runes(<<>>) = -2
  <2>1. sizes(<<>>) = <<>> /\ Len(<<>>) = 0
    OBVIOUS
  <2> QED BY <2>1, SumAppend DEF Runes, Separator
<1>2. ASSUME NEW s \in Seq(PieceType), NEW x \in PieceType
      PROVE  Runes(s) \in Int /\ Runes(Append(s, x)) = Runes(s) + size(x) + 2
  <2>1. Len(s) \in Nat /\ Len(Append(s, x)) = Len(s) + 1
    OBVIOUS
  <2>2. \A y \in PieceType : size(y) \in Int
    BY DEF PieceType
  <2>3. sizes(s) \in Seq(Int)
    <3>1. \A i \in 1..Len(s) : s[i] \in PieceType
      OBVIOUS
    <3>2. DOMAIN s = 1..Len(s)
      OBVIOUS
    <3> HIDE DEF size
    <3> QED BY <2>1, <2>2, <3>1, <3>2
  <2>4. sizes(Append(s, x)) = Append(sizes(s), size(x))
    <3> HIDE DEF size
    <3> QED OBVIOUS
  <2>5. Sum(Append(sizes(s), size(x))) = Sum(sizes(s)) + size(x) /\ Sum(sizes(s)) \in Int /\ size(x) \in Int
    <3>1. size(x) \in Int
      BY <2>2
    <3> HIDE DEF size, sizes
    <3> QED BY <2>3, <3>1, SumAppend
  <2>6. Runes(s) = Sum(sizes(s)) + 2 * (Len(s) - 1)
    BY DEF Runes, Separator
  <2>7. Runes(Append(s, x)) = Sum(sizes(Append(s, x))) + 2 * (Len(s) + 1 - 1)
    BY <2>1 DEF Runes, Separator
  <2> HIDE DEF size, sizes
  <2> QED BY <2>1, <2>4, <2>5, <2>6, <2>7
<1> QED BY <1>1, <1>2

\* Two runs of one paragraph, one after the other.
LEMMA SpeltJoins ==
    ASSUME NEW p \in Paragraph, NEW a \in Nat, NEW b \in Nat, a <= b
    PROVE  Spelt(Piece(p, 1, a)) \o Spelt(Piece(p, a + 1, b)) = Spelt(Piece(p, 1, b))
<1> DEFINE r(k) == <<p.words, k>>
<1>1. Spelt(Piece(p, 1, a)) = [j \in 1..a |-> r(j)]
  BY DEF Spelt, Piece
<1>2. Spelt(Piece(p, a + 1, b)) = [j \in 1..(b - a) |-> r(a + j)]
  BY DEF Spelt, Piece
<1>3. Spelt(Piece(p, 1, b)) = [j \in 1..b |-> r(j)]
  BY DEF Spelt, Piece
<1> HIDE DEF r
<1> DEFINE s == [j \in 1..a |-> r(j)]
           t == [j \in 1..(b - a) |-> r(a + j)]
           R == {r(j) : j \in 1..b}
<1>4. s \in Seq(R) /\ Len(s) = a
  OBVIOUS
<1>5. b - a \in Nat /\ \A j \in 1..(b - a) : a + j \in 1..b
  OBVIOUS
<1>6. t \in Seq(R) /\ Len(t) = b - a
  BY <1>5
<1>7. s \o t = [j \in 1..b |-> r(j)]
  <2>1. Len(s \o t) = b /\ DOMAIN (s \o t) = 1..b /\ s \o t \in Seq(R)
    BY <1>4, <1>5, <1>6
  <2>2. ASSUME NEW j \in 1..b PROVE (s \o t)[j] = r(j)
    <3>1. CASE j <= a
      BY <1>4, <1>6, <3>1
    <3>2. CASE j > a
      <4>1. j - a \in 1..(b - a) /\ a + (j - a) = j
        BY <3>2
      <4>2. t[j - a] = r(j)
        BY <4>1
      <4> HIDE DEF t, s, R
      <4>3. (s \o t)[j] = t[j - a]
        BY <1>4, <1>5, <1>6, <3>2
      <4> QED BY <4>2, <4>3
    <3> QED BY <3>1, <3>2
  <2>3. s \o t = [j \in 1..b |-> (s \o t)[j]]
    BY <2>1
  <2> HIDE DEF s, t
  <2> QED BY <2>2, <2>3
<1> QED BY <1>1, <1>2, <1>3, <1>7

LEMMA CutFacts ==
    ASSUME NEW p \in Paragraph, NEW i \in 1..Len(Cut(p))
    PROVE  (i - 1) * MaxRunes \in Nat /\ (i - 1) * MaxRunes < p.runes
<1> DEFINE k == (p.runes + MaxRunes - 1) \div MaxRunes
<1>1. p.runes \in Nat
  BY DEF Paragraph
<1>2. k \in Nat /\ (k - 1) * MaxRunes < p.runes
  BY <1>1, SizeAssumption, SMTT(30)
<1>3. Len(Cut(p)) = k
  <2> HIDE DEF k
  <2> QED BY <1>2 DEF Cut, k
<1> HIDE DEF k
<1>4. i - 1 \in Nat /\ k - i \in Nat
  BY <1>2, <1>3
<1>5. (k - 1) * MaxRunes = (i - 1) * MaxRunes + (k - i) * MaxRunes /\ (k - i) * MaxRunes \in Nat /\ (i - 1) * MaxRunes \in Nat
  BY <1>2, <1>4, SizeAssumption
<1> QED BY <1>1, <1>2, <1>5, SizeAssumption

Wholes(text) == [k \in DOMAIN text |-> Whole(text[k])]

\* What the builder has after the paragraphs of a text: the chunks and the next
\* one say what the text says; the next one has room for its last separator.
BuilderInv(b, text) ==
    /\ b \in BuilderType
    /\ Said(FlattenSeq(b.out) \o b.cur) = Said(Wholes(text))
    /\ \A i \in DOMAIN b.out : Runes(b.out[i]) <= MaxRunes
    /\ Runes(b.cur) <= MaxRunes /\ Runes(b.cur) + Separator <= b.bytes
    /\ b.bytes = 0 => b.cur = <<>>

LEMMA WholesAppend ==
    ASSUME NEW text \in Seq(Paragraph), NEW p \in Paragraph
    PROVE  /\ Wholes(text) \in Seq(PieceType)
           /\ Wholes(Append(text, p)) = Append(Wholes(text), Whole(p))
<1>1. \A i \in 1..Len(text) : Whole(text[i]) \in PieceType
  BY WholeTyped
<1> QED BY <1>1, WholeTyped DEF Wholes

\* Sequences put together.
LEMMA Joining ==
    ASSUME NEW S
    PROVE  /\ \A s, t \in Seq(S) : s \o t \in Seq(S)
           /\ \A s, t, u \in Seq(S) : (s \o t) \o u = s \o (t \o u)
           /\ \A s, t \in Seq(S), x \in S : s \o Append(t, x) = Append(s \o t, x)
OBVIOUS

LEMMA AppendFacts ==
    ASSUME NEW S, NEW s \in Seq(S), NEW x \in S
    PROVE  /\ Append(s, x) \in Seq(S)
           /\ \A j \in DOMAIN Append(s, x) :
                (j \in DOMAIN s /\ Append(s, x)[j] = s[j]) \/ Append(s, x)[j] = x
OBVIOUS

\* Flushing moves what is there to the chunks.
LEMMA FlushKeeps ==
    ASSUME NEW b, NEW text, BuilderInv(b, text)
    PROVE  /\ BuilderInv(Flush(b), text)
           /\ Flush(b).bytes = 0
<1>1. /\ b.out \in Seq(Seq(PieceType)) /\ b.cur \in Seq(PieceType) /\ b.bytes \in Nat
  BY DEF BuilderInv, BuilderType
<1>2. CASE b.bytes > 0
  <2> DEFINE out == Append(b.out, b.cur)
  <2>1. Flush(b) = [out |-> out, cur |-> <<>>, bytes |-> 0]
    BY <1>2 DEF Flush, Builder
  <2>2. out \in Seq(Seq(PieceType)) /\ <<>> \in Seq(PieceType)
    BY <1>1
  <2>3. FlattenSeq(out) \o <<>> = FlattenSeq(b.out) \o b.cur
    <3>1. FlattenSeq(out) = FlattenSeq(b.out) \o b.cur /\ FlattenSeq(b.out) \in Seq(PieceType)
      BY <1>1, FlattenAppend
    <3>2. FlattenSeq(b.out) \o b.cur \in Seq(PieceType)
      BY <1>1, <3>1
    <3>3. \A s \in Seq(PieceType) : s \o <<>> = s
      OBVIOUS
    <3> QED BY <3>1, <3>2, <3>3
  <2>4. ASSUME NEW i \in DOMAIN out PROVE Runes(out[i]) <= MaxRunes
    <3>1. (i \in DOMAIN b.out /\ out[i] = b.out[i]) \/ out[i] = b.cur
      BY <1>1, AppendFacts
    <3> QED BY <3>1 DEF BuilderInv
  <2>5. Runes(<<>>) <= MaxRunes /\ Runes(<<>>) + Separator <= 0
    BY RunesAppend, SizeAssumption DEF Separator
  <2> HIDE DEF out
  <2>6. Flush(b).out = out /\ Flush(b).cur = <<>> /\ Flush(b).bytes = 0 /\ Flush(b) \in BuilderType
    BY <2>1, <2>2 DEF BuilderType
  <2>7. Said(FlattenSeq(b.out) \o b.cur) = Said(Wholes(text)) /\ Runes(<<>>) <= MaxRunes
    BY <2>5 DEF BuilderInv
  <2> QED BY <2>3, <2>4, <2>5, <2>6, <2>7 DEF BuilderInv
<1>3. CASE ~ (b.bytes > 0)
  BY <1>1, <1>3 DEF Flush
<1> QED BY <1>2, <1>3

\* A paragraph is written where there is room for its bytes, or alone.
LEMMA WriteKeeps ==
    ASSUME NEW text \in Seq(Paragraph), NEW p \in Paragraph, NEW b, BuilderInv(b, text),
           p.runes <= p.bytes, p.runes <= MaxRunes,
           b.bytes = 0 \/ b.bytes + p.bytes + Separator <= MaxRunes
    PROVE  BuilderInv(Write(b, p), Append(text, p))
<1> DEFINE w == Whole(p)
<1>1. /\ b.out \in Seq(Seq(PieceType)) /\ b.cur \in Seq(PieceType) /\ b.bytes \in Nat /\ w \in PieceType
      /\ w.to - w.from + 1 = p.runes /\ p.runes \in Nat /\ p.bytes \in Nat /\ MaxRunes \in Nat
  <2>1. b.out \in Seq(Seq(PieceType)) /\ b.cur \in Seq(PieceType) /\ b.bytes \in Nat
    BY DEF BuilderInv, BuilderType
  <2>2. p.runes \in Nat /\ p.bytes \in Nat /\ MaxRunes \in Nat
    BY SizeAssumption DEF Paragraph
  <2>3. w.to = p.runes /\ w.from = 1
    BY DEF Whole, Piece
  <2>4. w \in PieceType
    BY WholeTyped
  <2> HIDE DEF w
  <2> QED BY <2>1, <2>2, <2>3, <2>4
<1> HIDE DEF w
<1> DEFINE cur == Append(b.cur, w)
           flat == FlattenSeq(b.out)
<1>2. flat \in Seq(PieceType)
  BY <1>1, FlattenAppend
<1> HIDE DEF flat
<1>3. flat \o cur = Append(flat \o b.cur, w) /\ flat \o b.cur \in Seq(PieceType)
  <2>1. b.cur \in Seq(PieceType) /\ w \in PieceType
    BY <1>1
  <2> QED BY <1>2, <2>1, Joining
<1> HIDE DEF cur
<1>4. Said(flat \o cur) = Said(Wholes(Append(text, p)))
  <2>1. Said(flat \o b.cur) = Said(Wholes(text))
    BY DEF BuilderInv, flat
  <2>2. Said(Append(flat \o b.cur, w)) = Say(Said(flat \o b.cur), w)
    BY <1>1, <1>3, SaidAppend
  <2>3. Said(Append(Wholes(text), w)) = Say(Said(Wholes(text)), w)
    BY <1>1, WholesAppend, SaidAppend
  <2>4. Wholes(Append(text, p)) = Append(Wholes(text), w)
    BY WholesAppend DEF w
  <2> QED BY <1>3, <2>1, <2>2, <2>3, <2>4
<1>5. Runes(cur) = Runes(b.cur) + p.runes + 2 /\ Runes(b.cur) \in Int
  BY <1>1, RunesAppend DEF cur
<1>6. Runes(b.cur) + 2 <= b.bytes /\ (b.bytes = 0 => Runes(b.cur) = -2)
  BY RunesAppend DEF BuilderInv, Separator
<1>7. Runes(cur) <= MaxRunes /\ Runes(cur) + Separator <= b.bytes + p.bytes + Separator
  BY <1>1, <1>5, <1>6 DEF Separator
<1>8. /\ Write(b, p) \in BuilderType /\ Write(b, p).out = b.out /\ Write(b, p).cur = cur
      /\ Write(b, p).bytes = b.bytes + p.bytes + Separator
  <2>1. b \in BuilderType
    BY DEF BuilderInv
  <2> QED BY <2>1, WriteIs DEF cur, w
<1>9. b.bytes + p.bytes + Separator # 0
  BY <1>1 DEF Separator
<1>10. \A i \in DOMAIN b.out : Runes(b.out[i]) <= MaxRunes
  BY DEF BuilderInv
<1> QED BY <1>4, <1>7, <1>8, <1>9, <1>10 DEF BuilderInv, flat

\* An oversized paragraph: every cut is a chunk, and the cuts are the paragraph.
LEMMA CutKeeps ==
    ASSUME NEW text \in Seq(Paragraph), NEW p \in Paragraph, NEW b, BuilderInv(b, text), b.bytes = 0,
           p.runes > MaxRunes
    PROVE  BuilderInv(Builder(b.out \o Cut(p)), Append(text, p))
<1> DEFINE cuts == Cut(p)
           M == Len(cuts)
           pre(i) == b.out \o [j \in 1..i |-> cuts[j]]
           upto(i) == IF i * MaxRunes > p.runes THEN p.runes ELSE i * MaxRunes
           Told(i) == Say(Said(FlattenSeq(b.out)), Piece(p, 1, upto(i)))
           Good(i) == /\ pre(i) \in Seq(Seq(PieceType))
                      /\ Said(FlattenSeq(pre(i))) = Told(i)
                      /\ \A j \in DOMAIN pre(i) : Runes(pre(i)[j]) <= MaxRunes
           K == {i \in Nat : i <= M => Good(i)}
<1>1. /\ b.out \in Seq(Seq(PieceType)) /\ b.cur = <<>> /\ MaxRunes \in Nat \ {0} /\ p.runes \in Nat
      /\ \A j \in DOMAIN b.out : Runes(b.out[j]) <= MaxRunes
  BY SizeAssumption DEF BuilderInv, BuilderType, Paragraph
<1>2. /\ cuts \in Seq(Seq(PieceType)) /\ M \in Nat /\ M * MaxRunes >= p.runes
      /\ \A i \in 1..M : cuts[i] = <<Piece(p, (i - 1) * MaxRunes + 1, upto(i))>>
  BY CutTyped
<1>3. FlattenSeq(b.out) \in Seq(PieceType)
  BY <1>1, FlattenAppend
<1>4. Said(FlattenSeq(b.out)) \in Seq(Rune)
  BY <1>3, SaidAppend
<1>5. 0 \in K
  <2>1. [j \in 1..0 |-> cuts[j]] = <<>> /\ \A s \in Seq(Seq(PieceType)) : s \o <<>> = s
    OBVIOUS
  <2>2. pre(0) = b.out
    BY <1>1, <2>1
  <2>3. upto(0) = 0
    BY <1>1
  <2>4. Told(0) = Said(FlattenSeq(b.out))
    <3>1. Spelt(Piece(p, 1, 0)) = <<>>
      BY DEF Spelt, Piece
    <3>2. \A s \in Seq(Rune) : s \o <<>> = s
      OBVIOUS
    <3> QED BY <1>4, <2>3, <3>1, <3>2 DEF Say
  <2> HIDE DEF pre, Told
  <2> QED BY <1>1, <2>2, <2>4
<1> HIDE DEF cuts, M
<1>6. ASSUME NEW i \in Nat, i \in K PROVE i + 1 \in K
  <2> HIDE DEF Good
  <2> SUFFICES ASSUME i + 1 <= M PROVE Good(i + 1)
    OBVIOUS
  <2> DEFINE at == i * MaxRunes
             x == Piece(p, at + 1, upto(i + 1))
  <2>1. i <= M /\ i + 1 \in 1..M /\ (i + 1) - 1 = i
    BY <1>2
  <2>2. at \in Nat /\ at < p.runes
    BY <2>1, CutFacts DEF M, cuts
  <2>3. (i + 1) * MaxRunes = at + MaxRunes
    BY <1>1
  <2>4. upto(i) = at /\ upto(i + 1) \in Nat /\ at <= upto(i + 1) /\ upto(i + 1) - at <= MaxRunes
    <3>1. upto(i) = IF at > p.runes THEN p.runes ELSE at
      OBVIOUS
    <3>2. upto(i + 1) = IF at + MaxRunes > p.runes THEN p.runes ELSE at + MaxRunes
      BY <2>3
    <3> HIDE DEF at, upto
    <3> QED BY <1>1, <2>2, <3>1, <3>2
  <2> HIDE DEF at, upto
  <2>5. cuts[i + 1] = <<x>>
    BY <1>2, <2>1 DEF at
  <2>6. x \in PieceType /\ x.to - x.from + 1 <= MaxRunes /\ x.blank = p.blank
    <3>1. at + 1 \in Nat \ {0} /\ upto(i + 1) - (at + 1) + 1 <= MaxRunes
      BY <1>1, <2>2, <2>4
    <3>2. p.words \in STRING /\ p.blank \in BOOLEAN
      BY DEF Paragraph
    <3> QED BY <2>4, <3>1, <3>2 DEF PieceType, Piece
  <2>7. /\ pre(i) \in Seq(Seq(PieceType)) /\ Said(FlattenSeq(pre(i))) = Told(i)
        /\ \A j \in DOMAIN pre(i) : Runes(pre(i)[j]) <= MaxRunes
    BY <1>6, <2>1 DEF Good
  <2>8. pre(i + 1) = Append(pre(i), <<x>>)
    <3>1. [j \in 1..(i + 1) |-> cuts[j]] = Append([j \in 1..i |-> cuts[j]], cuts[i + 1])
      OBVIOUS
    <3>2. \A j \in 1..(i + 1) : cuts[j] \in Seq(PieceType)
      <4>1. \A j \in 1..(i + 1) : j \in 1..M
        BY <1>2, <2>1
      <4>2. \A j \in 1..M : cuts[j] \in Seq(PieceType)
        BY <1>2 DEF M
      <4> QED BY <4>1, <4>2
    <3>3. [j \in 1..i |-> cuts[j]] \in Seq(Seq(PieceType)) /\ cuts[i + 1] \in Seq(PieceType)
      BY <3>2
    <3>4. \A s, t \in Seq(Seq(PieceType)), y \in Seq(PieceType) : s \o Append(t, y) = Append(s \o t, y)
      OBVIOUS
    <3> DEFINE t == [j \in 1..i |-> cuts[j]]
    <3>5. b.out \o Append(t, cuts[i + 1]) = Append(b.out \o t, cuts[i + 1])
      <4> HIDE DEF t
      <4> QED BY <1>1, <3>3, <3>4 DEF t
    <3>6. pre(i + 1) = b.out \o Append(t, cuts[i + 1]) /\ pre(i) = b.out \o t
      BY <3>1
    <3> HIDE DEF pre, t
    <3> QED BY <2>5, <3>5, <3>6
  <2>9. <<x>> \in Seq(PieceType) /\ Runes(<<x>>) <= MaxRunes
    <3>1. <<x>> = Append(<<>>, x) /\ <<>> \in Seq(PieceType) /\ <<x>> \in Seq(PieceType)
      BY <2>6
    <3>2. Runes(<<x>>) = Runes(<<>>) + (x.to - x.from + 1) + 2 /\ Runes(<<>>) = -2
      BY <2>6, <3>1, RunesAppend
    <3>3. x.to - x.from + 1 \in Int
      BY <2>6 DEF PieceType
    <3> QED BY <1>1, <2>6, <3>1, <3>2, <3>3
  <2> DEFINE flat == FlattenSeq(pre(i))
  <2>10. FlattenSeq(pre(i + 1)) = Append(flat, x) /\ flat \in Seq(PieceType)
    <3>1. FlattenSeq(Append(pre(i), <<x>>)) = flat \o <<x>> /\ flat \in Seq(PieceType)
      BY <2>7, <2>9, FlattenAppend
    <3>2. \A s \in Seq(PieceType) : s \o <<x>> = Append(s, x)
      BY <2>6
    <3> QED BY <2>8, <3>1, <3>2
  <2>11. Said(FlattenSeq(pre(i + 1))) = Say(Told(i), x)
    <3>1. Said(Append(flat, x)) = Say(Said(flat), x)
      BY <2>6, <2>10, SaidAppend
    <3> QED BY <2>7, <2>10, <3>1
  <2>12. Say(Told(i), x) = Told(i + 1)
    <3> DEFINE o == Said(FlattenSeq(b.out))
               A == Piece(p, 1, upto(i))
               C == Piece(p, 1, upto(i + 1))
    <3>1. Spelt(A) \o Spelt(x) = Spelt(C)
      BY <2>2, <2>4, SpeltJoins
    <3>2. A \in PieceType /\ A.blank = p.blank /\ C.blank = p.blank
      BY <2>2, <2>4 DEF PieceType, Piece, Paragraph
    <3>3. Spelt(A) \in Seq(Rune) /\ Spelt(x) \in Seq(Rune)
      BY <2>6, <3>2, SpeltTyped
    <3>4. (o \o Spelt(A)) \o Spelt(x) = o \o (Spelt(A) \o Spelt(x))
      <4> HIDE DEF x, A
      <4> QED BY <1>4, <3>3, Joining
    <3> HIDE DEF x, A, C, o
    <3> QED BY <2>6, <3>1, <3>2, <3>4 DEF Say, o, A, C
  <2>13. /\ pre(i + 1) \in Seq(Seq(PieceType))
         /\ \A j \in DOMAIN pre(i + 1) : (j \in DOMAIN pre(i) /\ pre(i + 1)[j] = pre(i)[j]) \/ pre(i + 1)[j] = <<x>>
    <3> DEFINE S == Seq(PieceType)
               s == pre(i)
               y == <<x>>
    <3>1. s \in Seq(S) /\ y \in S
      BY <2>7, <2>9
    <3> HIDE DEF S, s, y
    <3>2. /\ Append(s, y) \in Seq(S)
          /\ \A k \in DOMAIN Append(s, y) : (k \in DOMAIN s /\ Append(s, y)[k] = s[k]) \/ Append(s, y)[k] = y
      BY <3>1, AppendFacts
    <3> HIDE DEF pre, x
    <3> QED BY <2>8, <3>2 DEF S, s, y
  <2>14. \A j \in DOMAIN pre(i + 1) : Runes(pre(i + 1)[j]) <= MaxRunes
    <3> HIDE DEF pre, x
    <3> QED BY <2>7, <2>9, <2>13
  <2> QED BY <2>11, <2>12, <2>13, <2>14 DEF Good
<1>7. M \in K
  <2> HIDE DEF K
  <2> QED BY <1>2, <1>5, <1>6, Counting
<1> DEFINE out == b.out \o cuts
<1>8. pre(M) = out
  <2>1. cuts = [j \in 1..M |-> cuts[j]]
    BY <1>2 DEF M
  <2>2. pre(M) = b.out \o [j \in 1..M |-> cuts[j]]
    OBVIOUS
  <2> HIDE DEF pre
  <2> QED BY <2>1, <2>2
<1>9. upto(M) = p.runes
  <2>1. M * MaxRunes >= p.runes /\ M * MaxRunes \in Nat /\ p.runes \in Nat
    BY <1>1, <1>2
  <2> QED BY <2>1
<1>10. Told(M) = Say(Said(Wholes(text)), Whole(p))
  <2>1. Said(FlattenSeq(b.out) \o <<>>) = Said(Wholes(text))
    BY <1>1 DEF BuilderInv
  <2>2. \A s \in Seq(PieceType) : s \o <<>> = s
    OBVIOUS
  <2>3. Said(FlattenSeq(b.out)) = Said(Wholes(text))
    BY <1>3, <2>1, <2>2
  <2> QED BY <1>9, <2>3 DEF Whole
<1>11. Said(Wholes(Append(text, p))) = Say(Said(Wholes(text)), Whole(p))
  BY WholesAppend, WholeTyped, SaidAppend
<1>12. /\ out \in Seq(Seq(PieceType)) /\ Said(FlattenSeq(out)) = Said(Wholes(Append(text, p)))
       /\ \A j \in DOMAIN out : Runes(out[j]) <= MaxRunes
  <2> HIDE DEF pre, Told, out
  <2> QED BY <1>2, <1>7, <1>8, <1>10, <1>11
<1> HIDE DEF out
<1>13. FlattenSeq(out) \o <<>> = FlattenSeq(out)
  <2>1. FlattenSeq(out) \in Seq(PieceType)
    BY <1>12, FlattenAppend
  <2> QED BY <2>1
<1>14. Builder(out) \in BuilderType
  BY <1>12 DEF Builder, BuilderType
<1>15. Runes(<<>>) <= MaxRunes /\ Runes(<<>>) + Separator <= 0
  BY RunesAppend, SizeAssumption DEF Separator
<1>16. Builder(out).out = out /\ Builder(out).cur = <<>> /\ Builder(out).bytes = 0
  BY DEF Builder
<1> QED BY <1>12, <1>13, <1>14, <1>15, <1>16 DEF BuilderInv, out, cuts

\* A paragraph whose runes take at least a byte each.
Plain == {p \in Paragraph : p.runes <= p.bytes}

LEMMA AddKeeps ==
    ASSUME NEW text \in Seq(Paragraph), NEW p \in Plain, NEW b, BuilderInv(b, text)
    PROVE  BuilderInv(Add(b, p), Append(text, p))
<1> DEFINE room == IF b.bytes + p.bytes + Separator > MaxRunes THEN Flush(b) ELSE b
<1>1. p \in Paragraph /\ p.runes <= p.bytes /\ p.runes \in Nat /\ p.bytes \in Nat /\ MaxRunes \in Nat
  BY SizeAssumption DEF Plain, Paragraph
<1>2. b.bytes \in Nat
  BY DEF BuilderInv, BuilderType
<1>3. BuilderInv(room, text) /\ (room.bytes = 0 \/ room.bytes + p.bytes + Separator <= MaxRunes)
  <2>1. CASE b.bytes + p.bytes + Separator > MaxRunes
    <3>1. room = Flush(b)
      BY <2>1
    <3> HIDE DEF room
    <3> QED BY <3>1, FlushKeeps
  <2>2. CASE ~ (b.bytes + p.bytes + Separator > MaxRunes)
    BY <1>1, <1>2, <2>2 DEF Separator
  <2> QED BY <2>1, <2>2
<1>4. Add(b, p) = IF p.runes > MaxRunes THEN Builder(Flush(room).out \o Cut(p)) ELSE Write(room, p)
  BY DEF Add
<1> HIDE DEF room
<1>5. CASE p.runes > MaxRunes
  <2>1. BuilderInv(Flush(room), text) /\ Flush(room).bytes = 0
    BY <1>3, FlushKeeps
  <2> DEFINE c == Flush(room)
  <2> HIDE DEF c
  <2>2. BuilderInv(Builder(c.out \o Cut(p)), Append(text, p))
    <3>1. BuilderInv(c, text) /\ c.bytes = 0
      BY <2>1 DEF c
    <3> QED BY <1>1, <1>5, <3>1, CutKeeps
  <2> QED BY <1>4, <1>5, <2>2 DEF c
<1>6. CASE ~ (p.runes > MaxRunes)
  <2>1. p.runes <= MaxRunes
    BY <1>1, <1>6
  <2> QED BY <1>1, <1>3, <1>4, <1>6, <2>1, WriteKeeps
<1> QED BY <1>5, <1>6

LEMMA PlainTexts == Seq(Plain) \subseteq Seq(Paragraph)
BY DEF Plain

LEMMA BuiltKeeps == ASSUME NEW text \in Seq(Plain) PROVE BuilderInv(Built(text), text)
<1> DEFINE K == {t \in Seq(Plain) : BuilderInv(Built(t), t)}
<1>1. <<>> \in K
  <2>1. Built(<<>>) = [out |-> <<>>, cur |-> <<>>, bytes |-> 0]
    BY BuiltAppend DEF Builder
  <2>2. Wholes(<<>>) = <<>> /\ <<>> \o <<>> = <<>>
    BY DEF Wholes
  <2>3. <<>> \in Seq(PieceType) /\ <<>> \in Seq(Seq(PieceType)) /\ DOMAIN <<>> = {} /\ <<>> \in Seq(Plain)
    OBVIOUS
  <2>4. FlattenSeq(<<>>) = <<>>
    BY FlattenAppend
  <2>5. Runes(<<>>) <= MaxRunes /\ Runes(<<>>) + Separator <= 0
    BY RunesAppend, SizeAssumption DEF Separator
  <2>6. BuilderInv(Built(<<>>), <<>>)
    <3> DEFINE b == Built(<<>>)
    <3>1. b \in BuilderType
      <4>1. Builder(<<>>) \in BuilderType
        BY <2>3 DEF Builder, BuilderType
      <4> QED BY <2>1, <4>1 DEF Builder
    <3>2. b.out = <<>> /\ b.cur = <<>> /\ b.bytes = 0
      BY <2>1
    <3> HIDE DEF b
    <3>3. BuilderInv(b, <<>>)
      BY <2>2, <2>3, <2>4, <2>5, <3>1, <3>2 DEF BuilderInv
    <3> QED BY <3>3 DEF b
  <2> QED BY <2>3, <2>6
<1>2. ASSUME NEW t \in Seq(Plain), NEW p \in Plain, t \in K PROVE Append(t, p) \in K
  <2>1. t \in Seq(Paragraph) /\ p \in Paragraph /\ Append(t, p) \in Seq(Plain)
    BY PlainTexts DEF Plain
  <2>2. Built(Append(t, p)) = Add(Built(t), p)
    BY <2>1, BuiltAppend
  <2>3. BuilderInv(Add(Built(t), p), Append(t, p))
    BY <1>2, <2>1, AddKeeps
  <2> QED BY <2>1, <2>2, <2>3
<1>3. Seq(Plain) \subseteq K
  <2> HIDE DEF K
  <2> QED BY <1>1, <1>2, Appending
<1> QED BY <1>3

\* The chunks of a text: they say what it says, and none is too long.
LEMMA ChunksHold ==
    ASSUME NEW text \in Seq(Paragraph), IsText(text)
    PROVE  chunkText(text) \in Seq(Seq(PieceType)) /\ Complete(text) /\ Fits(text)
<1> DEFINE whole == [k \in DOMAIN text |-> Whole(text[k])]
           chunks == chunkText(text)
<1>1. text \in Seq(Plain)
  <2>1. \A k \in 1..Len(text) : text[k] \in Plain
    <3> SUFFICES ASSUME NEW k \in 1..Len(text) PROVE text[k] \in Plain
      OBVIOUS
    <3>1. k \in DOMAIN text /\ text[k] \in Paragraph
      OBVIOUS
    <3>2. text[k].bytes >= text[k].runes
      BY <3>1 DEF IsText
    <3> QED BY <3>1, <3>2 DEF Plain, Paragraph
  <2> QED BY <2>1
<1>2. whole = Wholes(text) /\ whole \in Seq(PieceType)
  <2>1. \A k \in 1..Len(text) : Whole(text[k]) \in PieceType
    BY WholeTyped
  <2> QED BY <2>1 DEF Wholes
<1>3. chunks = IF text = <<>> THEN <<>> ELSE IF Runes(whole) <= MaxRunes THEN <<whole>> ELSE Flush(Built(text)).out
  BY DEF chunkText, Built
<1>4. Complete(text) <=> Said(FlattenSeq(chunks)) = Said(whole)
  BY DEF Complete
<1>5. Fits(text) <=> \A i \in DOMAIN chunks : Runes(chunks[i]) <= MaxRunes
  BY DEF Fits
<1>6. CASE text = <<>>
  <2>1. whole = <<>> /\ chunks = <<>> /\ DOMAIN <<>> = {} /\ <<>> \in Seq(Seq(PieceType))
    BY <1>3, <1>6
  <2>2. FlattenSeq(<<>>) = <<>>
    BY FlattenAppend
  <2> HIDE DEF chunks, whole
  <2> QED BY <1>4, <1>5, <2>1, <2>2 DEF chunks
<1>7. CASE text # <<>> /\ Runes(whole) <= MaxRunes
  <2> HIDE DEF whole
  <2>1. chunks = <<whole>>
    BY <1>3, <1>7
  <2>2. <<whole>> = Append(<<>>, whole) /\ <<>> \in Seq(Seq(PieceType)) /\ <<whole>> \in Seq(Seq(PieceType))
    BY <1>2
  <2>3. FlattenSeq(<<whole>>) = <<>> \o whole
    BY <1>2, <2>2, FlattenAppend
  <2>4. <<>> \o whole = whole
    BY <1>2
  <2>5. \A i \in DOMAIN <<whole>> : <<whole>>[i] = whole
    OBVIOUS
  <2> HIDE DEF chunks
  <2> QED BY <1>4, <1>5, <1>7, <2>1, <2>2, <2>3, <2>4, <2>5 DEF chunks
<1>8. CASE text # <<>> /\ ~ (Runes(whole) <= MaxRunes)
  <2> DEFINE b == Flush(Built(text))
  <2>1. BuilderInv(b, text) /\ b.bytes = 0
    BY <1>1, BuiltKeeps, FlushKeeps
  <2>2. chunks = b.out
    BY <1>3, <1>8
  <2> HIDE DEF b, chunks, whole
  <2>3. /\ b.out \in Seq(Seq(PieceType)) /\ b.cur = <<>>
        /\ Said(FlattenSeq(b.out) \o b.cur) = Said(Wholes(text))
        /\ \A i \in DOMAIN b.out : Runes(b.out[i]) <= MaxRunes
    BY <2>1 DEF BuilderInv, BuilderType
  <2>4. FlattenSeq(b.out) \o <<>> = FlattenSeq(b.out)
    <3>1. FlattenSeq(b.out) \in Seq(PieceType)
      BY <2>3, FlattenAppend
    <3> QED BY <3>1
  <2> QED BY <1>2, <1>4, <1>5, <2>2, <2>3, <2>4 DEF chunks
<1> QED BY <1>6, <1>7, <1>8

-----------------------------------------------------------------------------
(* Sources, jobs and their counts.                                          *)

Typed ==
    /\ status \in [Sources -> Rows \cup {"none", "deleted"}]
    /\ count \in [Sources -> Nat] /\ accepted \in [Sources -> Nat]
    /\ pc \in [Callers -> {"idle", "mark", "fetch", "ingest"}]
    /\ source \in [Callers -> Sources \cup {None}]
    /\ snapshot \in [Callers -> Nat] /\ n \in [Callers -> Nat]
    /\ lost \in Nat
    /\ \A c \in Callers : pc[c] # "idle" => source[c] \in Sources

\* What a job is about to write is no more than what was retained.
Backed == \A c \in Callers : pc[c] # "idle" => snapshot[c] + n[c] <= accepted[source[c]]

IInv == Typed /\ CountNeverExceeds /\ Backed /\ SyncingHasASync

\* What a status update does to the row, when it is written and when it is not.
LEMMA StatusUpdate ==
    ASSUME Typed, NEW s \in Sources, NEW new \in Rows, NEW docs \in Nat,
           setDatasourceStatus(s, new, docs)
    PROVE  /\ status' \in [Sources -> Rows \cup {"none", "deleted"}]
           /\ count' \in [Sources -> Nat]
           /\ lost' \in Nat /\ lost' >= lost
           /\ \A t \in Sources : t # s => status'[t] = status[t] /\ count'[t] = count[t]
           /\ count'[s] \in {count[s], docs}
           /\ lost' = 0 => IF Exists(s) THEN status'[s] = new ELSE status'[s] = status[s]
BY DEF Typed, setDatasourceStatus, Exists, Rows

\* A request that ends is forgotten, and no other is touched.
LEMMA EndForgets ==
    ASSUME Typed, NEW c \in Callers, End(c)
    PROVE  /\ pc' \in [Callers -> {"idle", "mark", "fetch", "ingest"}]
           /\ source' \in [Callers -> Sources \cup {None}]
           /\ snapshot' \in [Callers -> Nat] /\ n' \in [Callers -> Nat]
           /\ pc'[c] = "idle"
           /\ \A d \in Callers : d # c =>
                pc'[d] = pc[d] /\ source'[d] = source[d] /\ snapshot'[d] = snapshot[d] /\ n'[d] = n[d]
BY DEF Typed, End

LEMMA Initially == Init => IInv
BY DEF Init, IInv, Typed, CountNeverExceeds, Backed, SyncingHasASync, Rows

LEMMA RowSteps ==
    ASSUME IInv, NEW s \in Sources, CreateDatasource(s) \/ DeleteDatasource(s) \/ ChangeRemote(s)
    PROVE  IInv'
BY DEF IInv, Typed, CountNeverExceeds, Backed, SyncingHasASync, Rows, Exists, request,
       CreateDatasource, DeleteDatasource, ChangeRemote

LEMMA Begins ==
    ASSUME IInv, NEW s \in Sources, NEW c \in Callers, NEW first \in {"mark", "ingest"}, NEW docs,
           Begin(c, s, first, docs)
    PROVE  IInv'
<1>1. /\ pc[c] = "idle" /\ Exists(s)
      /\ pc' = [pc EXCEPT ![c] = first] /\ source' = [source EXCEPT ![c] = s]
      /\ snapshot' = [snapshot EXCEPT ![c] = count[s]] /\ n' = [n EXCEPT ![c] = 0]
      /\ UNCHANGED <<status, count, accepted, lost>>
    BY DEF Begin
<1>2. Typed'
    BY <1>1 DEF IInv, Typed
<1>3. count[s] + 0 <= accepted[s]
    BY DEF IInv, Typed, CountNeverExceeds
<1>4. Backed'
    BY <1>1, <1>3 DEF IInv, Typed, Backed
<1>5. SyncingHasASync'
    BY <1>1 DEF IInv, Typed, SyncingHasASync
<1>6. CountNeverExceeds'
    BY <1>1 DEF IInv, CountNeverExceeds
<1> QED  BY <1>2, <1>4, <1>5, <1>6 DEF IInv

LEMMA Marks == ASSUME IInv, NEW c \in Callers, Mark(c) PROVE IInv'
<1> DEFINE s == source[c]
<1>0. s \in Sources /\ snapshot[c] \in Nat /\ n[c] \in Nat /\ accepted[s] \in Nat /\ "syncing" \in Rows
    BY DEF IInv, Typed, Mark, Rows
<1>1. /\ status' \in [Sources -> Rows \cup {"none", "deleted"}]
      /\ count' \in [Sources -> Nat] /\ lost' \in Nat /\ lost' >= lost
      /\ \A t \in Sources : t # s => status'[t] = status[t] /\ count'[t] = count[t]
      /\ count'[s] \in {count[s], snapshot[c]}
    BY <1>0, StatusUpdate DEF IInv, Mark
<1>2. /\ pc' = [pc EXCEPT ![c] = "fetch"]
      /\ UNCHANGED <<source, snapshot, n, accepted>>
    BY DEF Mark
<1>3. Typed'
    BY <1>0, <1>1, <1>2 DEF IInv, Typed, Mark
<1>4. snapshot[c] + n[c] <= accepted[s]
    BY DEF IInv, Backed, Mark
<1>5. CountNeverExceeds'
    BY <1>0, <1>1, <1>2, <1>4 DEF IInv, Typed, CountNeverExceeds
<1>6. Backed'
    BY <1>2, <1>4 DEF IInv, Typed, Backed, Mark
<1>7. SyncingHasASync'
    BY <1>0, <1>1, <1>2 DEF IInv, Typed, SyncingHasASync, Mark
<1> QED  BY <1>3, <1>5, <1>6, <1>7 DEF IInv

\* The three ways a request ends.
LEMMA Verdicts ==
    ASSUME IInv, NEW c \in Callers, pc[c] \in {"fetch", "ingest"}, End(c), UNCHANGED accepted,
           NEW new \in {"ok", "error"}, NEW docs \in Nat, docs <= accepted[source[c]],
           setDatasourceStatus(source[c], new, docs)
    PROVE  IInv'
<1> DEFINE s == source[c]
<1>0. s \in Sources /\ accepted[s] \in Nat /\ new \in Rows /\ new # "syncing"
    BY DEF IInv, Typed, Rows
<1>1. /\ status' \in [Sources -> Rows \cup {"none", "deleted"}]
      /\ count' \in [Sources -> Nat] /\ lost' \in Nat /\ lost' >= lost
      /\ \A t \in Sources : t # s => status'[t] = status[t] /\ count'[t] = count[t]
      /\ count'[s] \in {count[s], docs}
      /\ lost' = 0 => IF Exists(s) THEN status'[s] = new ELSE status'[s] = status[s]
    BY <1>0, StatusUpdate DEF IInv
<1>2. /\ pc' \in [Callers -> {"idle", "mark", "fetch", "ingest"}]
      /\ source' \in [Callers -> Sources \cup {None}]
      /\ snapshot' \in [Callers -> Nat] /\ n' \in [Callers -> Nat]
      /\ pc'[c] = "idle"
      /\ \A d \in Callers : d # c =>
            pc'[d] = pc[d] /\ source'[d] = source[d] /\ snapshot'[d] = snapshot[d] /\ n'[d] = n[d]
    BY EndForgets DEF IInv
<1>3. Typed'
    BY <1>0, <1>1, <1>2 DEF IInv, Typed
<1>4. CountNeverExceeds'
    BY <1>0, <1>1 DEF IInv, Typed, CountNeverExceeds
<1>5. Backed'
    BY <1>2 DEF IInv, Typed, Backed
<1>6. ASSUME NEW t \in Sources, status'[t] = "syncing", lost' = 0
      PROVE  \E d \in Callers : source'[d] = t /\ pc'[d] \in {"fetch", "ingest"}
    <2>1. t # s
        BY <1>0, <1>1, <1>6 DEF Exists, Rows
    <2>2. status[t] = "syncing" /\ lost = 0
        BY <1>1, <1>6, <2>1 DEF IInv, Typed
    <2>3. PICK d \in Callers : source[d] = t /\ pc[d] \in {"fetch", "ingest"}
        BY <2>2 DEF IInv, SyncingHasASync
    <2> QED  BY <1>2, <2>1, <2>3
<1>7. SyncingHasASync'
    BY <1>1, <1>6 DEF SyncingHasASync
<1> QED  BY <1>3, <1>4, <1>5, <1>7 DEF IInv

LEMMA FetchStep == ASSUME IInv, NEW c \in Callers, Fetch(c) PROVE IInv'
<1>1. Typed'
    BY DEF IInv, Typed, Fetch
<1>2. Backed'
    BY DEF IInv, Typed, Fetch, Backed
<1>3. CountNeverExceeds' /\ SyncingHasASync'
    BY DEF IInv, Typed, Fetch, CountNeverExceeds, SyncingHasASync
<1> QED  BY <1>1, <1>2, <1>3 DEF IInv

LEMMA Ingests == ASSUME IInv, NEW c \in Callers, Ingest(c) \/ IngestFails(c) PROVE IInv'
<1>1. CASE Ingest(c)
    <2>1. Typed'
        BY <1>1 DEF IInv, Typed, Ingest
    <2>2. \A s \in Sources : accepted'[s] \in Nat /\ accepted'[s] >= accepted[s]
        BY <1>1 DEF IInv, Typed, Ingest
    <2>3. CountNeverExceeds'
        BY <1>1, <2>2 DEF IInv, Typed, CountNeverExceeds, Ingest
    <2>4. accepted'[source[c]] = accepted[source[c]] + 1
        BY <1>1 DEF IInv, Typed, Ingest
    <2>5. Backed'
        BY <1>1, <2>2, <2>4 DEF IInv, Typed, Backed, Ingest
    <2>6. SyncingHasASync'
        BY <1>1 DEF IInv, SyncingHasASync, Ingest
    <2> QED  BY <2>1, <2>3, <2>5, <2>6 DEF IInv
<1>2. CASE IngestFails(c)
    BY <1>2 DEF IInv, Typed, CountNeverExceeds, Backed, SyncingHasASync, IngestFails
<1> QED  BY <1>1, <1>2

LEMMA Losses == ASSUME IInv, NEW c \in Callers, Lose(c) PROVE IInv'
<1>1. lost' \in Nat /\ lost' > 0 /\ UNCHANGED <<status, count, accepted>> /\ End(c)
    BY DEF IInv, Typed, Lose
<1>2. Typed' /\ Backed'
    BY <1>1, EndForgets DEF IInv, Typed, Backed
<1> QED  BY <1>1, <1>2 DEF IInv, CountNeverExceeds, SyncingHasASync

LEMMA Inductive == IInv /\ [Next]_vars => IInv'
<1> SUFFICES ASSUME IInv, [Next]_vars PROVE IInv'
    OBVIOUS
<1>1. ASSUME NEW s \in Sources, NEW c \in Callers, SyncDatasource(c, s) \/ IngestWebhook(c, s) PROVE IInv'
    BY <1>1, Begins DEF SyncDatasource, IngestWebhook
<1>2. ASSUME NEW c \in Callers, Step(c) PROVE IInv'
    <2>1. CASE FetchFails(c)
        <3>1. /\ pc[c] = "fetch" /\ End(c) /\ UNCHANGED accepted
              /\ snapshot[c] \in Nat /\ snapshot[c] <= accepted[source[c]]
              /\ setDatasourceStatus(source[c], "error", snapshot[c])
            BY <2>1 DEF FetchFails, IInv, Typed, Backed
        <3> QED  BY <3>1, Verdicts
    <2>2. CASE Finish(c)
        <3>1. /\ pc[c] = "ingest" /\ End(c) /\ UNCHANGED accepted
              /\ snapshot[c] + n[c] \in Nat /\ snapshot[c] + n[c] <= accepted[source[c]]
              /\ setDatasourceStatus(source[c], "ok", snapshot[c] + n[c])
            BY <2>2 DEF Finish, IInv, Typed, Backed
        <3> QED  BY <3>1, Verdicts
    <2> QED  BY <1>2, <2>1, <2>2, Marks, FetchStep, Ingests DEF Step
<1>3. CASE UNCHANGED vars
    BY <1>3 DEF IInv, Typed, CountNeverExceeds, Backed, SyncingHasASync, vars, request
<1> QED  BY <1>1, <1>2, <1>3, RowSteps, Losses DEF Next

-----------------------------------------------------------------------------
\* doc_count never claims more than was retained, however the jobs that write
\* it from their own copies overlap (SyncDatasource, IngestWebhook).
THEOREM CountIsBacked == Spec => []CountNeverExceeds
<1>1. IInv => CountNeverExceeds
    BY DEF IInv
<1> QED  BY Initially, Inductive, <1>1, PTL DEF Spec

\* While no request is lost, a source is "syncing" only while one syncs it
\* (every return of SyncDatasource after the first UPDATE writes a verdict).
THEOREM SyncEndsWithAVerdict == Spec => []SyncingHasASync
<1>1. IInv => SyncingHasASync
    BY DEF IInv
<1> QED  BY Initially, Inductive, <1>1, PTL DEF Spec

-----------------------------------------------------------------------------
(* What a job retains.                                                      *)

\* What is in a flattened sequence was in one of the sequences.
LEMMA FlattenElements ==
    ASSUME NEW S, NEW ss \in Seq(Seq(S))
    PROVE  \A x \in Range(FlattenSeq(ss)) : \E d \in DOMAIN ss : x \in Range(ss[d])
<1> DEFINE In(tt) == \A x \in Range(FlattenSeq(tt)) : \E d \in DOMAIN tt : x \in Range(tt[d])
           K == {tt \in Seq(Seq(S)) : In(tt)}
<1>1. <<>> \in K
  <2>1. FlattenSeq(<<>>) = <<>> /\ Range(<<>>) = {} /\ <<>> \in Seq(Seq(S))
    BY FlattenAppend DEF Range
  <2> QED BY <2>1
<1>2. ASSUME NEW tt \in Seq(Seq(S)), NEW x \in Seq(S), tt \in K PROVE Append(tt, x) \in K
  <2> DEFINE T == Seq(S)
             uu == Append(tt, x)
             f == FlattenSeq(tt)
  <2>1. f \in Seq(S) /\ FlattenSeq(uu) = f \o x
    BY FlattenAppend
  <2>2. uu \in Seq(T) /\ Len(uu) = Len(tt) + 1 /\ Len(tt) \in Nat /\ DOMAIN uu = 1..(Len(tt) + 1) /\ DOMAIN tt = 1..Len(tt)
        /\ uu[Len(tt) + 1] = x /\ \A d \in DOMAIN tt : uu[d] = tt[d]
    <3>1. tt \in Seq(T) /\ x \in T
      OBVIOUS
    <3> HIDE DEF T
    <3> QED BY <3>1
  <2>3. \A y \in Range(f) : \E d \in DOMAIN tt : y \in Range(tt[d])
    BY <1>2
  <2> HIDE DEF uu, f
  <2>4. \A y \in Range(f \o x) : y \in Range(f) \/ y \in Range(x)
    BY <2>1 DEF Range
  <2>5. ASSUME NEW y \in Range(FlattenSeq(uu)) PROVE \E d \in DOMAIN uu : y \in Range(uu[d])
    <3>1. CASE y \in Range(x)
      <4>1. Len(tt) + 1 \in DOMAIN uu
        BY <2>2
      <4> QED BY <2>2, <3>1, <4>1
    <3>2. CASE y \in Range(f)
      <4>1. PICK d \in DOMAIN tt : y \in Range(tt[d])
        BY <2>3, <3>2
      <4>2. d \in DOMAIN uu /\ uu[d] = tt[d]
        BY <2>2
      <4> QED BY <4>1, <4>2
    <3> QED BY <2>1, <2>4, <3>1, <3>2
  <2> QED BY <2>2, <2>5 DEF uu
<1>3. Seq(Seq(S)) \subseteq K
  <2> DEFINE T == Seq(S)
  <2>1. \A tt \in Seq(T), x \in T : tt \in K => Append(tt, x) \in K
    BY <1>2
  <2> HIDE DEF K, T
  <2>2. Seq(T) \subseteq K
    BY <1>1, <2>1, Appending
  <2> QED BY <2>2 DEF T
<1> QED BY <1>3

LEMMA DocumentFacts ==
    /\ \A s \in Sources : \A docs \in Fetches[s] : docs \in Seq(Documents)
    /\ \A doc \in Documents : doc.text \in Seq(Paragraph) /\ IsText(doc.text)
<1>1. ASSUME NEW s \in Sources, NEW docs \in Fetches[s] PROVE docs \in Seq(Documents)
  <2>1. docs \in Found /\ docs \in Seq(Range(docs))
    BY DocumentsAssumption DEF Found
  <2>2. Range(docs) \subseteq Documents
    BY <2>1 DEF Documents
  <2> DEFINE R == Range(docs)
             D == Documents
  <2>3. docs \in Seq(R) /\ R \subseteq D
    BY <2>1, <2>2
  <2> HIDE DEF R, D
  <2>4. docs \in Seq(D)
    BY <2>3
  <2> QED BY <2>4 DEF D
<1>2. ASSUME NEW doc \in Documents PROVE doc.text \in Seq(Paragraph) /\ IsText(doc.text)
  <2>1. PICK s \in Sources : \E docs \in Fetches[s] : doc \in Range(docs)
    BY DEF Documents, Found
  <2>2. doc.text \in Texts
    BY <2>1, DocumentsAssumption
  <2> QED BY <2>2, DocumentsAssumption
<1> QED BY <1>1, <1>2

\* The rows of a document differ in their numbers.
LEMMA RowsFacts ==
    ASSUME NEW doc \in Documents
    PROVE  /\ RowsOf(doc) \in Seq(Memory)
           /\ \A i \in DOMAIN RowsOf(doc) : RowsOf(doc)[i].ref[1] = doc.ref
           /\ \A i, j \in DOMAIN RowsOf(doc) : RowsOf(doc)[i].ref = RowsOf(doc)[j].ref => i = j
<1> DEFINE chunks == chunkText(doc.text)
           N == Len(chunks)
           row(i) == [ref |-> <<doc.ref, IF N > 1 THEN i ELSE 0>>, content |-> chunks[i]]
<1>1. chunks \in Seq(Seq(PieceType))
  BY DocumentFacts, ChunksHold
<1>2. N \in Nat /\ DOMAIN chunks = 1..N
  BY <1>1
<1>3. doc.text \in DOMAIN Chunked /\ Chunked[doc.text] = chunks
  BY DEF Chunked
<1>4. RowsOf(doc) = [i \in 1..N |-> row(i)]
  BY <1>2, <1>3 DEF RowsOf
<1>5. \A i \in 1..N : chunks[i] \in Contents
  BY <1>2, <1>3 DEF Contents, Range
<1> HIDE DEF chunks, N
<1>6. \A i \in 1..N : row(i) \in Memory
  <2>1. doc.ref \in Refs
    BY DEF Refs
  <2> QED BY <1>2, <1>5, <2>1 DEF Memory
<1>7. ASSUME NEW i \in 1..N, NEW j \in 1..N, row(i).ref = row(j).ref PROVE i = j
  <2>1. CASE N > 1
    BY <1>7, <2>1
  <2>2. CASE ~ (N > 1)
    BY <1>2, <2>2
  <2> QED BY <2>1, <2>2
<1>8. \A i \in 1..N : row(i).ref[1] = doc.ref
  OBVIOUS
<1> HIDE DEF row
<1>9. RowsOf(doc) \in Seq(Memory) /\ DOMAIN RowsOf(doc) = 1..N /\ \A i \in 1..N : RowsOf(doc)[i] = row(i)
  BY <1>2, <1>4, <1>6
<1> QED BY <1>7, <1>8, <1>9

\* The rows of documents with refs of their own: two with one ref are one row.
LEMMA AllRowsFacts ==
    ASSUME NEW docs \in Seq(Documents)
    PROVE  /\ AllRows(docs) \in Seq(Memory)
           /\ DistinctRefs(docs) =>
                \A x, y \in Range(AllRows(docs)) :
                    x.ref # <<NoRef, 0>> /\ (x.ref = y.ref => x = y)
<1> DEFINE ss == [d \in DOMAIN docs |-> RowsOf(docs[d])]
<1>1. \A d \in 1..Len(docs) : docs[d] \in Documents /\ RowsOf(docs[d]) \in Seq(Memory)
  BY RowsFacts
<1>2. ss \in Seq(Seq(Memory)) /\ DOMAIN ss = DOMAIN docs
  <2> DEFINE T == Seq(Memory)
  <2>1. \A d \in 1..Len(docs) : RowsOf(docs[d]) \in T
    BY <1>1
  <2> HIDE DEF T
  <2>2. ss \in Seq(T)
    BY <2>1
  <2> QED BY <2>2 DEF T
<1>3. AllRows(docs) = FlattenSeq(ss)
  BY DEF AllRows
<1>4. AllRows(docs) \in Seq(Memory)
  BY <1>2, <1>3, FlattenAppend
<1>5. \A x \in Range(AllRows(docs)) :
        \E d \in DOMAIN docs : \E i \in DOMAIN RowsOf(docs[d]) : x = RowsOf(docs[d])[i]
  <2> SUFFICES ASSUME NEW x \in Range(AllRows(docs))
               PROVE  \E d \in DOMAIN docs : \E i \in DOMAIN RowsOf(docs[d]) : x = RowsOf(docs[d])[i]
    OBVIOUS
  <2>1. PICK d \in DOMAIN ss : x \in Range(ss[d])
    BY <1>2, <1>3, FlattenElements
  <2>2. d \in DOMAIN docs /\ ss[d] = RowsOf(docs[d])
    BY <1>2
  <2> QED BY <2>1, <2>2 DEF Range
<1>6. ASSUME DistinctRefs(docs), NEW x \in Range(AllRows(docs)), NEW y \in Range(AllRows(docs))
      PROVE  x.ref # <<NoRef, 0>> /\ (x.ref = y.ref => x = y)
  <2>1. PICK d \in DOMAIN docs : \E i \in DOMAIN RowsOf(docs[d]) : x = RowsOf(docs[d])[i]
    BY <1>5
  <2>2. PICK i \in DOMAIN RowsOf(docs[d]) : x = RowsOf(docs[d])[i]
    BY <2>1
  <2>3. PICK e \in DOMAIN docs : \E j \in DOMAIN RowsOf(docs[e]) : y = RowsOf(docs[e])[j]
    BY <1>5
  <2>4. PICK j \in DOMAIN RowsOf(docs[e]) : y = RowsOf(docs[e])[j]
    BY <2>3
  <2>5. docs[d] \in Documents /\ docs[e] \in Documents
    BY <1>1
  <2>6. x.ref[1] = docs[d].ref /\ y.ref[1] = docs[e].ref
    BY <2>2, <2>4, <2>5, RowsFacts
  <2>7. docs[d].ref # NoRef /\ (docs[d].ref = docs[e].ref => d = e)
    BY <1>6 DEF DistinctRefs
  <2>8. x.ref # <<NoRef, 0>>
    BY <2>6, <2>7
  <2>9. x.ref = y.ref => x = y
    BY <2>2, <2>4, <2>5, <2>6, <2>7, RowsFacts
  <2> QED BY <2>8, <2>9
<1> QED BY <1>4, <1>6

Job == [fetched : Seq(Documents), todo : Seq(Memory), alone : BOOLEAN, failed : BOOLEAN]

\* A job that had the brain to itself and saw no error.
Undisturbed(w) == w.alone /\ ~ w.failed /\ DistinctRefs(w.fetched)

\* What it fetched is live, or still to be retained.
Carried(w, there) ==
    /\ Range(w.todo) \subseteq Range(AllRows(w.fetched))
    /\ Undisturbed(w) => Range(AllRows(w.fetched)) \subseteq there \cup Range(w.todo)

Alone == \A c \in Callers : pc[c] # "idle" /\ work[c].alone => \A d \in Callers : d # c => pc[d] = "idle"

SyncInv ==
    /\ TypeOK
    /\ remote \in [Sources \ Webhooks -> Found]
    /\ work \in [Callers -> Job]
    /\ \A c \in Callers : pc[c] # "idle" => source[c] \in Sources
    /\ \A c \in Callers : pc[c] \in {"mark", "fetch"} => source[c] \notin Webhooks
    /\ Alone
    /\ \A c \in Callers : pc[c] = "ingest" => Carried(work[c], live)

LEMMA NoWorkTyped == NoWork \in Job
<1>1. <<>> \in Seq(Documents) /\ <<>> \in Seq(Memory)
  OBVIOUS
<1> QED BY <1>1 DEF NoWork, Job

LEMMA SyncInvInit == Init => SyncInv
<1> SUFFICES ASSUME Init PROVE SyncInv
  OBVIOUS
<1>1. Range(NoWork.todo) \subseteq Memory
  BY DEF NoWork, Range
<1>2. TypeOK
  BY <1>1, SourcesAssumption DEF Init, TypeOK, Rows
<1> QED BY <1>2, NoWorkTyped DEF Init, SyncInv, Alone

\* A job that is written again, when nothing but it changes.
LEMMA RowWritten ==
    ASSUME SyncInv, NEW s \in Sources, NEW new \in Rows, NEW docs \in Nat, setDatasourceStatus(s, new, docs)
    PROVE  /\ status' \in [Sources -> Rows \cup {"none", "deleted"}]
           /\ count' \in [Sources -> Nat]
           /\ lost' \in 0..MaxLost
<1>1. MaxLost \in Nat
  BY SourcesAssumption
<1> QED BY <1>1 DEF SyncInv, TypeOK, setDatasourceStatus, Rows

LEMMA SyncInvRows ==
    ASSUME SyncInv, NEW s \in Sources, CreateDatasource(s) \/ DeleteDatasource(s) \/ ChangeRemote(s)
    PROVE  SyncInv'
<1>1. CASE CreateDatasource(s) \/ DeleteDatasource(s)
  <2>1. /\ UNCHANGED <<count, remote, live, pc, source, snapshot, n, work, accepted, jobs, lost, changes>>
        /\ status' \in [Sources -> Rows \cup {"none", "deleted"}]
    BY <1>1 DEF CreateDatasource, DeleteDatasource, SyncInv, TypeOK, Rows, request
  <2> QED BY <2>1 DEF SyncInv, TypeOK, Alone
<1>2. CASE ChangeRemote(s)
  <2>1. PICK docs \in Fetches[s] : remote' = [remote EXCEPT ![s] = docs]
    BY <1>2 DEF ChangeRemote
  <2>2. /\ s \in Sources \ Webhooks /\ docs \in Found
        /\ UNCHANGED <<status, count, live, pc, source, snapshot, n, work, accepted, jobs, lost>>
        /\ changes < MaxChanges /\ changes' = changes + 1
    BY <1>2 DEF ChangeRemote, Found, request
  <2>3. remote' \in [Sources \ Webhooks -> Found] /\ \A t \in Sources \ Webhooks : remote'[t] \in Fetches[t]
    BY <2>1, <2>2 DEF SyncInv, TypeOK
  <2>4. changes' \in 0..MaxChanges
    BY <2>2, SourcesAssumption DEF SyncInv, TypeOK
  <2> QED BY <2>2, <2>3, <2>4 DEF SyncInv, TypeOK, Alone
<1> QED BY <1>1, <1>2

LEMMA SyncInvBegin ==
    ASSUME SyncInv, NEW s \in Sources, NEW c \in Callers, NEW first \in {"mark", "ingest"},
           NEW docs \in Seq(Documents), first = "mark" => s \notin Webhooks, Begin(c, s, first, docs)
    PROVE  SyncInv'
<1> DEFINE mine == [NoWork EXCEPT !.fetched = docs, !.todo = AllRows(docs),
                                  !.alone = \A e \in Callers : pc[e] = "idle"]
<1>1. /\ pc[c] = "idle" /\ pc' = [pc EXCEPT ![c] = first] /\ source' = [source EXCEPT ![c] = s]
      /\ snapshot' = [snapshot EXCEPT ![c] = count[s]] /\ n' = [n EXCEPT ![c] = 0]
      /\ work' = [d \in Callers |-> IF d # c THEN [work[d] EXCEPT !.alone = FALSE] ELSE mine]
      /\ jobs < MaxJobs /\ jobs' = jobs + 1
      /\ UNCHANGED <<status, count, remote, live, accepted, lost, changes>>
  BY DEF Begin
<1>2. AllRows(docs) \in Seq(Memory)
  BY AllRowsFacts
<1>3. /\ mine \in Job /\ mine.fetched = docs /\ mine.todo = AllRows(docs)
      /\ mine.alone => \A e \in Callers : pc[e] = "idle"
  <2> DEFINE a == \A e \in Callers : pc[e] = "idle"
             rows == AllRows(docs)
  <2>1. a \in BOOLEAN /\ rows \in Seq(Memory)
    BY <1>2
  <2> HIDE DEF a, rows
  <2>2. mine = [NoWork EXCEPT !.fetched = docs, !.todo = rows, !.alone = a]
    BY DEF a, rows
  <2> HIDE DEF mine
  <2> QED BY <2>1, <2>2, NoWorkTyped DEF Job, a, rows
<1> HIDE DEF mine
<1>4. ASSUME NEW d \in Callers, d # c
      PROVE  /\ work'[d] \in Job /\ ~ work'[d].alone
             /\ work'[d].fetched = work[d].fetched /\ work'[d].todo = work[d].todo
  BY <1>1, <1>4 DEF SyncInv, Job
<1>5. work' \in [Callers -> Job] /\ work'[c] = mine
  <2>1. \A d \in Callers : work'[d] \in Job
    BY <1>1, <1>3, <1>4
  <2> QED BY <1>1, <2>1
<1>6. \A d \in Callers : Range(work'[d].todo) \subseteq Memory
  <2>1. \A d \in Callers : work'[d].todo \in Seq(Memory)
    BY <1>5 DEF Job
  <2>2. \A q \in Seq(Memory) : Range(q) \subseteq Memory
    BY DEF Range
  <2> QED BY <2>1, <2>2
<1>7. jobs' \in 0..MaxJobs
  BY <1>1, SourcesAssumption DEF SyncInv, TypeOK
<1>8. TypeOK'
  BY <1>1, <1>6, <1>7 DEF SyncInv, TypeOK
<1>9. ASSUME NEW d \in Callers, pc'[d] = "ingest" PROVE Carried(work'[d], live')
  <2>1. CASE d = c
    BY <1>1, <1>3, <1>5, <2>1 DEF Carried
  <2>2. CASE d # c
    <3>1. pc[d] = "ingest" /\ Carried(work[d], live)
      BY <1>1, <1>9, <2>2 DEF SyncInv, TypeOK
    <3> QED BY <1>4, <2>2, <3>1 DEF Carried, Undisturbed
  <2> QED BY <2>1, <2>2
<1>10. Alone'
  <2> SUFFICES ASSUME NEW d \in Callers, pc'[d] # "idle", work'[d].alone, NEW e \in Callers, e # d
               PROVE  pc'[e] = "idle"
    BY DEF Alone
  <2>1. d = c
    BY <1>4
  <2> QED BY <1>1, <1>3, <1>5, <2>1 DEF SyncInv, TypeOK
<1>11. \A d \in Callers : (pc'[d] # "idle" => source'[d] \in Sources) /\ (pc'[d] \in {"mark", "fetch"} => source'[d] \notin Webhooks)
  BY <1>1 DEF SyncInv, TypeOK
<1> QED BY <1>1, <1>5, <1>8, <1>9, <1>10, <1>11 DEF SyncInv

\* A request that ends leaves the others as they were.
LEMMA SyncInvEnd ==
    ASSUME SyncInv, NEW c \in Callers, End(c), UNCHANGED <<remote, live, accepted, jobs, changes>>,
           status' \in [Sources -> Rows \cup {"none", "deleted"}], count' \in [Sources -> Nat],
           lost' \in 0..MaxLost
    PROVE  SyncInv'
<1>1. /\ pc' = [pc EXCEPT ![c] = "idle"] /\ source' = [source EXCEPT ![c] = None]
      /\ snapshot' = [snapshot EXCEPT ![c] = 0] /\ n' = [n EXCEPT ![c] = 0]
      /\ work' = [work EXCEPT ![c] = NoWork]
  BY DEF End
<1>2. work' \in [Callers -> Job]
  BY <1>1, NoWorkTyped DEF SyncInv
<1>3. \A d \in Callers : Range(work'[d].todo) \subseteq Memory
  <2>1. \A d \in Callers : work'[d].todo \in Seq(Memory)
    BY <1>2 DEF Job
  <2>2. \A q \in Seq(Memory) : Range(q) \subseteq Memory
    BY DEF Range
  <2> QED BY <2>1, <2>2
<1>4. TypeOK'
  BY <1>1, <1>3 DEF SyncInv, TypeOK
<1>5. Alone'
  BY <1>1 DEF SyncInv, TypeOK, Alone
<1>6. \A d \in Callers : pc'[d] = "ingest" => Carried(work'[d], live')
  BY <1>1 DEF SyncInv, TypeOK
<1> QED BY <1>1, <1>2, <1>4, <1>5, <1>6 DEF SyncInv, TypeOK

LEMMA SyncInvMark == ASSUME SyncInv, NEW c \in Callers, Mark(c) PROVE SyncInv'
<1>1. /\ pc[c] = "mark" /\ pc' = [pc EXCEPT ![c] = "fetch"]
      /\ setDatasourceStatus(source[c], "syncing", snapshot[c])
      /\ UNCHANGED <<remote, live, source, snapshot, n, work, accepted, jobs, changes>>
  BY DEF Mark
<1>2. source[c] \in Sources /\ snapshot[c] \in Nat /\ "syncing" \in Rows
  BY <1>1 DEF SyncInv, TypeOK, Rows
<1>3. /\ status' \in [Sources -> Rows \cup {"none", "deleted"}] /\ count' \in [Sources -> Nat]
      /\ lost' \in 0..MaxLost
  BY <1>1, <1>2, RowWritten
<1> QED BY <1>1, <1>3 DEF SyncInv, TypeOK, Alone

LEMMA SyncInvFetch == ASSUME SyncInv, NEW c \in Callers, Fetch(c) PROVE SyncInv'
<1> DEFINE docs == remote[source[c]]
<1>1. /\ pc[c] = "fetch" /\ pc' = [pc EXCEPT ![c] = "ingest"]
      /\ work' = [work EXCEPT ![c].fetched = docs, ![c].todo = AllRows(docs)]
      /\ UNCHANGED <<status, count, remote, live, source, snapshot, n, accepted, jobs, lost, changes>>
  BY DEF Fetch
<1>2. docs \in Seq(Documents) /\ AllRows(docs) \in Seq(Memory)
  <2>1. source[c] \in Sources \ Webhooks
    BY <1>1 DEF SyncInv
  <2>2. docs \in Fetches[source[c]]
    BY <2>1 DEF SyncInv, TypeOK
  <2>3. docs \in Seq(Documents)
    BY <2>1, <2>2, DocumentFacts
  <2> HIDE DEF docs
  <2> QED BY <2>3, AllRowsFacts
<1> HIDE DEF docs
<1> DEFINE rows == AllRows(docs)
<1>3. /\ work' \in [Callers -> Job] /\ \A d \in Callers : d # c => work'[d] = work[d]
      /\ work'[c].fetched = docs /\ work'[c].todo = rows /\ work'[c].alone = work[c].alone
  <2> HIDE DEF rows
  <2>1. work' = [work EXCEPT ![c].fetched = docs, ![c].todo = rows] /\ work \in [Callers -> Job] /\ rows \in Seq(Memory)
    BY <1>1, <1>2 DEF rows, SyncInv
  <2> QED BY <1>2, <2>1 DEF Job
<1>4. \A d \in Callers : Range(work'[d].todo) \subseteq Memory
  <2>1. \A d \in Callers : work'[d].todo \in Seq(Memory)
    BY <1>3 DEF Job
  <2>2. \A q \in Seq(Memory) : Range(q) \subseteq Memory
    BY DEF Range
  <2> QED BY <2>1, <2>2
<1>5. TypeOK'
  BY <1>1, <1>4 DEF SyncInv, TypeOK
<1>6. Carried(work'[c], live')
  BY <1>3 DEF Carried
<1>7. Alone'
  BY <1>1, <1>3 DEF SyncInv, TypeOK, Alone
<1>8. \A d \in Callers : pc'[d] = "ingest" => Carried(work'[d], live')
  BY <1>1, <1>3, <1>6 DEF SyncInv, TypeOK
<1>9. \A d \in Callers : (pc'[d] # "idle" => source'[d] \in Sources) /\ (pc'[d] \in {"mark", "fetch"} => source'[d] \notin Webhooks)
  BY <1>1 DEF SyncInv, TypeOK
<1> QED BY <1>1, <1>3, <1>5, <1>7, <1>8, <1>9 DEF SyncInv

\* A row that is retained is live, and takes the place of no other of its job.
LEMMA RetainFacts ==
    ASSUME live \subseteq Memory, NEW row \in Memory, Retain(row)
    PROVE  /\ live' \subseteq Memory
           /\ row.ref # <<NoRef, 0>> => live' = {r \in live : r.ref # row.ref} \cup {row}
BY DEF Retain

LEMMA SyncInvIngest == ASSUME SyncInv, NEW c \in Callers, Ingest(c) \/ IngestFails(c) PROVE SyncInv'
<1> DEFINE w == work[c]
           row == Head(w.todo)
<1>1. /\ pc[c] = "ingest" /\ w.todo # <<>> /\ w \in Job /\ Carried(w, live)
      /\ UNCHANGED <<status, count, remote, pc, source, snapshot, jobs, lost, changes>>
      /\ source[c] \in Sources
  BY DEF Ingest, IngestFails, SyncInv
<1>2. /\ Tail(w.todo) \in Seq(Memory) /\ row \in Memory /\ row \in Range(w.todo)
      /\ Range(w.todo) = Range(Tail(w.todo)) \cup {row}
  <2> DEFINE q == w.todo
  <2>1. q \in Seq(Memory) /\ q # <<>>
    BY <1>1 DEF Job
  <2> HIDE DEF q
  <2>2. Len(q) \in Nat /\ Len(q) >= 1 /\ DOMAIN q = 1..Len(q) /\ Head(q) = q[1] /\ 1 \in DOMAIN q
    BY <2>1
  <2>3. /\ Tail(q) \in Seq(Memory) /\ DOMAIN Tail(q) = 1..(Len(q) - 1)
        /\ \A i \in 1..(Len(q) - 1) : Tail(q)[i] = q[i + 1]
    BY <2>1, <2>2
  <2>4. Head(q) \in Memory /\ Head(q) \in Range(q)
    BY <2>1, <2>2 DEF Range
  <2>5. ASSUME NEW i \in DOMAIN q PROVE q[i] \in Range(Tail(q)) \cup {Head(q)}
    <3>1. i # 1 => i - 1 \in 1..(Len(q) - 1) /\ (i - 1) + 1 = i
      BY <2>2
    <3> QED BY <2>2, <2>3, <3>1 DEF Range
  <2>6. ASSUME NEW i \in DOMAIN Tail(q) PROVE Tail(q)[i] \in Range(q)
    <3>1. i + 1 \in DOMAIN q
      BY <2>2, <2>3
    <3> QED BY <2>3, <3>1 DEF Range
  <2>7. Range(q) = Range(Tail(q)) \cup {Head(q)}
    BY <2>4, <2>5, <2>6 DEF Range
  <2> QED BY <2>3, <2>4, <2>7 DEF q
<1>3. /\ work' \in [Callers -> Job] /\ \A d \in Callers : d # c => work'[d] = work[d]
      /\ work'[c].fetched = w.fetched /\ work'[c].todo = Tail(w.todo) /\ work'[c].alone = w.alone
      /\ (Retain(row) /\ work'[c].failed = w.failed) \/ work'[c].failed
  <2> DEFINE t == Tail(w.todo)
  <2>1. /\ work \in [Callers -> Job] /\ t \in Seq(Memory)
        /\ Ingest(c) => work' = [work EXCEPT ![c].todo = t]
        /\ IngestFails(c) => work' = [work EXCEPT ![c].todo = t, ![c].failed = TRUE]
    BY <1>2 DEF Ingest, IngestFails, SyncInv
  <2> HIDE DEF t
  <2>2. CASE Ingest(c)
    <3> DEFINE v == [w EXCEPT !.todo = t]
    <3>1. work' = [work EXCEPT ![c] = v] /\ Retain(row)
      BY <2>1, <2>2 DEF Ingest
    <3>2. v \in Job /\ v.fetched = w.fetched /\ v.todo = t /\ v.alone = w.alone /\ v.failed = w.failed
      <4>1. w \in Job
        BY <1>1
      <4> HIDE DEF w
      <4> QED BY <2>1, <4>1 DEF Job
    <3> HIDE DEF v
    <3>3. /\ work' \in [Callers -> Job] /\ \A d \in Callers : d # c => work'[d] = work[d]
          /\ work'[c] = v
      BY <2>1, <3>1, <3>2
    <3> HIDE DEF row, w
    <3> QED BY <3>1, <3>2, <3>3 DEF t
  <2>3. CASE IngestFails(c)
    <3> DEFINE v == [w EXCEPT !.todo = t, !.failed = TRUE]
    <3>1. work' = [work EXCEPT ![c] = v]
      BY <2>1, <2>3 DEF IngestFails
    <3>2. v \in Job /\ v.fetched = w.fetched /\ v.todo = t /\ v.alone = w.alone /\ v.failed
      <4>1. w \in Job
        BY <1>1
      <4> HIDE DEF w
      <4> QED BY <2>1, <4>1 DEF Job
    <3> HIDE DEF v
    <3>3. /\ work' \in [Callers -> Job] /\ \A d \in Callers : d # c => work'[d] = work[d]
          /\ work'[c] = v
      BY <2>1, <3>1, <3>2
    <3> HIDE DEF row, w
    <3> QED BY <3>1, <3>2, <3>3 DEF t
  <2> QED BY <2>2, <2>3
<1>4. /\ n' \in [Callers -> Nat] /\ accepted' \in [Sources -> Nat]
      /\ live' \subseteq Memory
  <2>1. CASE Ingest(c)
    <3>1. Retain(row) /\ n' = [n EXCEPT ![c] = @ + 1] /\ accepted' = [accepted EXCEPT ![source[c]] = @ + 1]
      BY <2>1 DEF Ingest
    <3>2. live' \subseteq Memory
      BY <1>2, <3>1, RetainFacts DEF SyncInv, TypeOK
    <3> QED BY <1>1, <3>1, <3>2 DEF SyncInv, TypeOK
  <2>2. CASE IngestFails(c)
    BY <2>2 DEF IngestFails, SyncInv, TypeOK
  <2> QED BY <2>1, <2>2
<1> HIDE DEF row
<1>5. \A d \in Callers : Range(work'[d].todo) \subseteq Memory
  <2>1. \A d \in Callers : work'[d].todo \in Seq(Memory)
    BY <1>3 DEF Job
  <2>2. \A q \in Seq(Memory) : Range(q) \subseteq Memory
    BY DEF Range
  <2> QED BY <2>1, <2>2
<1>6. TypeOK'
  BY <1>1, <1>4, <1>5 DEF SyncInv, TypeOK
<1>7. Carried(work'[c], live')
  <2>1. Range(work'[c].todo) \subseteq Range(AllRows(w.fetched))
    BY <1>1, <1>2, <1>3 DEF Carried
  <2>2. ASSUME Undisturbed(work'[c]), NEW x \in Range(AllRows(w.fetched)), x \notin Range(Tail(w.todo))
        PROVE  x \in live'
    <3>1. Retain(row) /\ Undisturbed(w)
      BY <1>3, <2>2 DEF Undisturbed
    <3>2. x \in live \/ x = row
      BY <1>1, <1>2, <2>2, <3>1 DEF Carried
    <3>3. row \in Range(AllRows(w.fetched))
      BY <1>1, <1>2 DEF Carried
    <3>4. row.ref # <<NoRef, 0>> /\ (x.ref = row.ref => x = row)
      <4>1. w.fetched \in Seq(Documents) /\ DistinctRefs(w.fetched)
        BY <1>1, <3>1 DEF Job, Undisturbed
      <4> QED BY <2>2, <3>3, <4>1, AllRowsFacts
    <3>5. live' = {r \in live : r.ref # row.ref} \cup {row}
      BY <1>2, <3>1, <3>4, RetainFacts DEF SyncInv, TypeOK
    <3> QED BY <3>2, <3>4, <3>5
  <2> QED BY <1>3, <2>1, <2>2 DEF Carried
<1>8. ASSUME NEW d \in Callers, d # c, pc'[d] = "ingest" PROVE Carried(work'[d], live')
  <2>1. Carried(work[d], live) /\ ~ work[d].alone
    BY <1>1, <1>8 DEF SyncInv, Alone
  <2> QED BY <1>3, <1>8, <2>1 DEF Carried, Undisturbed
<1>9. Alone'
  BY <1>1, <1>3 DEF SyncInv, Alone
<1> QED BY <1>1, <1>3, <1>6, <1>7, <1>8, <1>9 DEF SyncInv

LEMMA SyncInvNext == SyncInv /\ [Next]_vars => SyncInv'
<1> SUFFICES ASSUME SyncInv, [Next]_vars PROVE SyncInv'
  OBVIOUS
<1>1. ASSUME NEW s \in Sources, NEW c \in Callers, SyncDatasource(c, s) PROVE SyncInv'
  <2>1. <<>> \in Seq(Documents)
    OBVIOUS
  <2> QED BY <1>1, <2>1, SyncInvBegin DEF SyncDatasource
<1>2. ASSUME NEW s \in Sources, NEW c \in Callers, IngestWebhook(c, s) PROVE SyncInv'
  <2>1. PICK docs \in Fetches[s] : Begin(c, s, "ingest", docs)
    BY <1>2 DEF IngestWebhook
  <2>2. docs \in Seq(Documents)
    BY DocumentFacts
  <2> QED BY <2>1, <2>2, SyncInvBegin
<1>3. ASSUME NEW c \in Callers, FetchFails(c) \/ Finish(c) PROVE SyncInv'
  <2>1. /\ End(c) /\ source[c] \in Sources /\ snapshot[c] \in Nat /\ n[c] \in Nat
        /\ UNCHANGED <<remote, live, accepted, jobs, changes>>
        /\ \/ setDatasourceStatus(source[c], "error", snapshot[c])
           \/ setDatasourceStatus(source[c], "ok", snapshot[c] + n[c])
    BY <1>3 DEF FetchFails, Finish, SyncInv, TypeOK
  <2>2. "error" \in Rows /\ "ok" \in Rows /\ snapshot[c] + n[c] \in Nat
    BY <2>1 DEF Rows
  <2>3. /\ status' \in [Sources -> Rows \cup {"none", "deleted"}] /\ count' \in [Sources -> Nat]
        /\ lost' \in 0..MaxLost
    BY <2>1, <2>2, RowWritten
  <2> QED BY <2>1, <2>3, SyncInvEnd
<1>4. ASSUME NEW c \in Callers, Lose(c) PROVE SyncInv'
  <2>1. /\ End(c) /\ UNCHANGED <<status, count, remote, live, accepted, jobs, changes>>
        /\ lost < MaxLost /\ lost' = lost + 1
    BY <1>4 DEF Lose
  <2>2. lost' \in 0..MaxLost
    BY <2>1, SourcesAssumption DEF SyncInv, TypeOK
  <2>3. status' \in [Sources -> Rows \cup {"none", "deleted"}] /\ count' \in [Sources -> Nat]
    BY <2>1 DEF SyncInv, TypeOK
  <2> QED BY <2>1, <2>2, <2>3, SyncInvEnd
<1>5. CASE UNCHANGED vars
  BY <1>5 DEF vars, request, SyncInv, TypeOK, Alone
<1> QED BY <1>1, <1>2, <1>3, <1>4, <1>5, SyncInvRows, SyncInvMark, SyncInvFetch, SyncInvIngest DEF Next, Step

\* Counters count, jobs are where jobs can be, and what is live or still to be
\* retained is a chunk of a document of some source (datasource.go).
THEOREM SourcesTypeCorrect == Spec => []TypeOK
<1>1. SyncInv => TypeOK
  BY DEF SyncInv
<1> QED BY SyncInvInit, SyncInvNext, <1>1, PTL DEF Spec

\* A sync that had the brain to itself and saw no error leaves all it fetched
\* live: no chunk supersedes another (ingestDocuments).
THEOREM SyncLeavesItsChunks == Spec => []SyncBringsCurrent
<1>1. SyncInv => SyncBringsCurrent
  <2> SUFFICES ASSUME SyncInv, NEW c \in Callers, pc[c] = "ingest", work[c].todo = <<>>, work[c].alone,
                      ~ work[c].failed, DistinctRefs(work[c].fetched)
               PROVE  Range(AllRows(work[c].fetched)) \subseteq live
    BY DEF SyncBringsCurrent
  <2>1. Range(work[c].todo) = {}
    BY DEF Range
  <2> QED BY <2>1 DEF SyncInv, Carried, Undisturbed
<1> QED BY SyncInvInit, SyncInvNext, <1>1, PTL DEF Spec

\* The chunks of any text are the text, and none has more runes than the limit,
\* for any limit (chunkText).
THEOREM ChunksKeepTheText == Spec => []ChunksAreTheText
<1>1. ChunksAreTheText
  BY DocumentsAssumption, ChunksHold DEF ChunksAreTheText
<1> QED BY <1>1, PTL
=============================================================================
