---------------------------- MODULE RetrievalProofs ----------------------------
(* Proofs about Retrieval, for any table, any queries and any limits.       *)
EXTENDS Retrieval, FiniteSetTheorems, SequenceTheorems, WellFoundedInduction, TLAPS

-----------------------------------------------------------------------------
(* Folds over a sequence, one element after the other.                      *)

\* A set of numbers that holds 0 and, with each number, the next holds them all.
LEMMA Counting ==
    ASSUME NEW S, 0 \in S, \A n \in Nat : n \in S => n + 1 \in S
    PROVE  Nat \subseteq S
<1> DEFINE T == Nat \ S
           R == OpToRel(<, Nat)
<1>1. \A x, y \in Nat : <<y, x>> \in R <=> y < x
  BY DEF OpToRel
<1>2. IsWellFoundedOn(R, Nat)
  BY NatLessThanWellFounded
<1> HIDE DEF R
<1>3. ASSUME T # {} PROVE FALSE
  <2>1. PICK x \in T : \A y \in T : ~ (<<y, x>> \in R)
    <3>1. T \subseteq Nat /\ T # {}
      BY <1>3
    <3> HIDE DEF T
    <3> QED BY <1>2, <3>1, WFMin
  <2>2. x \in Nat /\ x # 0
    OBVIOUS
  <2>3. x - 1 \in Nat /\ x - 1 < x /\ (x - 1) + 1 = x
    BY <2>2
  <2>4. x - 1 \notin T
    BY <1>1, <2>1, <2>2, <2>3
  <2> QED BY <2>2, <2>3, <2>4
<1> QED BY <1>3

\* The last of some numbers, when there is none after k.
LEMMA LastIs ==
    ASSUME NEW k \in Nat, NEW t \in SUBSET (1..k), k \in t
    PROVE  Max(t) = k
<1>1. \A y \in t : y \in Int /\ k >= y
  OBVIOUS
<1>2. \A z \in t : (\A y \in t : z >= y) => z = k
  BY <1>1
<1> QED BY <1>1, <1>2 DEF Max

\* Some numbers up to k have a last one.
LEMMA LastOne ==
    ASSUME NEW k \in Nat, NEW t \in SUBSET (1..k), t # {}
    PROVE  \E m \in t : \A n \in t : n <= m
<1> DEFINE K == {n \in Nat : \A u \in SUBSET (1..n) : u # {} => \E m \in u : \A l \in u : l <= m}
<1>1. 0 \in K
  <2>1. \A u \in SUBSET (1..0) : u = {}
    OBVIOUS
  <2> QED BY <2>1
<1>2. ASSUME NEW n \in Nat, n \in K PROVE n + 1 \in K
  <2> SUFFICES ASSUME NEW u \in SUBSET (1..(n + 1)), u # {} PROVE \E m \in u : \A l \in u : l <= m
    OBVIOUS
  <2>1. CASE n + 1 \in u
    BY <2>1
  <2>2. CASE n + 1 \notin u
    <3>1. \A l \in u : l \in 1..n
      BY <2>2
    <3>2. u \in SUBSET (1..n)
      BY <3>1
    <3> QED BY <1>2, <3>2
  <2> QED BY <2>1, <2>2
<1>3. k \in K
  <2> HIDE DEF K
  <2> QED BY <1>1, <1>2, Counting
<1> QED BY <1>3

\* The equation of MapThenFoldSet when the numbers are taken from the last one.
Solves(g, N, base, step) ==
    g = [t \in SUBSET (1..N) |-> IF t = {} THEN base ELSE step[<<g[t \ {Max(t)}], Max(t)>>]]

\* It has a solution, and its values are where the steps stay.
LEMMA FoldExists ==
    ASSUME NEW N \in Nat, NEW A, NEW base \in A, NEW step,
           \A a \in A, n \in 1..N : step[<<a, n>>] \in A
    PROVE  \E g : Solves(g, N, base, step) /\ \A t \in SUBSET (1..N) : g[t] \in A
<1> DEFINE Folds(g, n) == g = [t \in SUBSET (1..n) |->
                                 IF t = {} THEN base ELSE step[<<g[t \ {Max(t)}], Max(t)>>]]
           In(g, n) == \A t \in SUBSET (1..n) : g[t] \in A
           Exists(n) == \E g : Folds(g, n) /\ In(g, n)
           K == {n \in Nat : n <= N => Exists(n)}
<1>1. 0 \in K
  <2>1. Folds([t \in SUBSET (1..0) |-> base], 0) /\ In([t \in SUBSET (1..0) |-> base], 0)
    OBVIOUS
  <2>2. Exists(0)
    BY <2>1
  <2> HIDE DEF Exists
  <2> QED BY <2>2
<1>2. ASSUME NEW n \in Nat, Exists(n), n + 1 <= N PROVE Exists(n + 1)
  <2>1. PICK g : Folds(g, n) /\ In(g, n)
    BY <1>2
  <2> DEFINE h == [t \in SUBSET (1..(n + 1)) |->
                     IF n + 1 \in t THEN step[<<g[t \ {n + 1}], n + 1>>] ELSE g[t]]
  <2>2. \A t \in SUBSET (1..(n + 1)) : n + 1 \notin t => t \in SUBSET (1..n)
    <3>1. \A x \in 1..(n + 1) : x # n + 1 => x \in 1..n
      OBVIOUS
    <3> QED BY <3>1
  <2>3. ASSUME NEW t \in SUBSET (1..(n + 1)), t # {}
        PROVE  h[t] = step[<<h[t \ {Max(t)}], Max(t)>>]
    <3>1. CASE n + 1 \in t
      <4>1. t \ {n + 1} \in SUBSET (1..(n + 1)) /\ n + 1 \notin t \ {n + 1}
        OBVIOUS
      <4>2. Max(t) = n + 1
        BY <3>1, LastIs
      <4> QED BY <3>1, <4>1, <4>2
    <3>2. CASE n + 1 \notin t
      <4>1. t \in SUBSET (1..n)
        BY <2>2, <3>2
      <4>2. t \ {Max(t)} \in SUBSET (1..(n + 1)) /\ n + 1 \notin t \ {Max(t)}
        BY <3>2
      <4>3. g[t] = step[<<g[t \ {Max(t)}], Max(t)>>]
        BY <2>1, <2>3, <4>1
      <4> QED BY <3>2, <4>2, <4>3
    <3> QED BY <3>1, <3>2
  <2>4. h[{}] = base
    BY <2>1
  <2>5. In(h, n + 1)
    <3> SUFFICES ASSUME NEW t \in SUBSET (1..(n + 1)) PROVE h[t] \in A
      OBVIOUS
    <3>1. CASE n + 1 \notin t
      BY <2>1, <2>2, <3>1
    <3>2. CASE n + 1 \in t
      <4>1. t \ {n + 1} \in SUBSET (1..n)
        <5>1. t \ {n + 1} \in SUBSET (1..(n + 1)) /\ n + 1 \notin t \ {n + 1}
          OBVIOUS
        <5> QED BY <2>2, <5>1
      <4>2. n + 1 \in 1..N
        BY <1>2
      <4>3. g[t \ {n + 1}] \in A
        BY <2>1, <4>1
      <4> QED BY <3>2, <4>2, <4>3
    <3> QED BY <3>1, <3>2
  <2>6. Folds(h, n + 1)
    <3>1. h = [t \in SUBSET (1..(n + 1)) |-> h[t]]
      OBVIOUS
    <3>2. \A t \in SUBSET (1..(n + 1)) :
            h[t] = IF t = {} THEN base ELSE step[<<h[t \ {Max(t)}], Max(t)>>]
      BY <2>3, <2>4
    <3> HIDE DEF h
    <3> QED BY <3>1, <3>2
  <2> HIDE DEF h, Folds, In
  <2> QED BY <2>5, <2>6
<1> HIDE DEF Exists
<1>3. \A n \in Nat : n \in K => n + 1 \in K
  BY <1>2
<1>4. N \in K
  <2> HIDE DEF K
  <2> QED BY <1>1, <1>3, Counting
<1>5. Exists(N)
  BY <1>4
<1> QED BY <1>5 DEF Exists, Solves

\* The numbers up to k, taken from the last one down.
LEMMA Downward ==
    ASSUME NEW k \in Nat \ {0}
    PROVE  Max(1..k) = k /\ (1..k) \ {k} = 1..(k - 1) /\ 1..k # {}
<1>1. \A x : x \in (1..k) \ {k} <=> x \in 1..(k - 1)
  OBVIOUS
<1>2. k \in 1..k
  OBVIOUS
<1> QED BY <1>1, <1>2, LastIs

-----------------------------------------------------------------------------
(* The lists of an answer.                                                  *)

Result == [id : Ids, at : Time, via : Entities \cup {None}]

KeepIn(k, s, r) == IF InWindow(k, r.at) THEN Append(s, r) ELSE s

\* filterTemporal, as the sequence of what it has let through so far.
LEMMA FilterUnfolds ==
    ASSUME NEW k, NEW found \in Seq(Result)
    PROVE  \E f : /\ f[0] = <<>> /\ f[Len(found)] = filterTemporal(k, found)
                  /\ \A n \in 1..Len(found) : f[n] = KeepIn(k, f[n - 1], found[n])
<1> DEFINE N == Len(found)
           A == Seq(Result)
           step == [p \in A \X (1..N) |-> KeepIn(k, p[1], found[p[2]])]
           Folds(g) == g = [t \in SUBSET (1..N) |->
                              IF t = {} THEN <<>> ELSE KeepIn(k, g[t \ {Max(t)}], found[Max(t)])]
<1>1. N \in Nat /\ DOMAIN found = 1..N /\ \A n \in 1..N : found[n] \in Result
  OBVIOUS
<1>2. \A a \in A, n \in 1..N : KeepIn(k, a, found[n]) \in A
  BY <1>1 DEF KeepIn
<1>3. \A a \in A, n \in 1..N : step[<<a, n>>] = KeepIn(k, a, found[n])
  OBVIOUS
<1> HIDE DEF step
<1>4. PICK g : Solves(g, N, <<>>, step) /\ \A t \in SUBSET (1..N) : g[t] \in A
  <2>1. <<>> \in A /\ \A a \in A, n \in 1..N : step[<<a, n>>] \in A
    BY <1>2, <1>3
  <2>2. N \in Nat
    BY <1>1
  <2> HIDE DEF A, N
  <2> QED BY <2>1, <2>2, FoldExists
<1>5. \A t \in SUBSET (1..N) : t # {} => Max(t) \in 1..N /\ t \ {Max(t)} \in SUBSET (1..N)
  <2> SUFFICES ASSUME NEW t \in SUBSET (1..N), t # {} PROVE Max(t) \in 1..N
    OBVIOUS
  <2>1. PICK m \in t : \A n \in t : n <= m
    BY <1>1, LastOne
  <2>2. \A n \in t : m >= n
    BY <1>1, <2>1
  <2> QED BY <2>2 DEF Max
<1>6. Folds(g)
  BY <1>3, <1>4, <1>5 DEF Solves
<1> DEFINE iter == CHOOSE h : Folds(h)
<1>7. Folds(iter)
  BY <1>6
<1>8. filterTemporal(k, found) = iter[1..N]
  BY <1>1 DEF filterTemporal, FoldLeft, MapThenFoldSet, KeepIn
<1> HIDE DEF iter
<1> DEFINE f == [n \in 0..N |-> iter[1..n]]
<1>9. ASSUME NEW n \in 1..N PROVE f[n] = KeepIn(k, f[n - 1], found[n])
  <2>1. n \in Nat \ {0} /\ n \in 0..N /\ n - 1 \in 0..N /\ 1..n \in SUBSET (1..N)
    BY <1>1
  <2> QED BY <1>7, <2>1, Downward
<1>10. f[0] = <<>> /\ f[N] = filterTemporal(k, found)
  BY <1>1, <1>7, <1>8
<1> HIDE DEF f, N
<1> QED BY <1>9, <1>10 DEF N

Unlike(s) == \A m, n \in DOMAIN s : s[m].id = s[n].id => m = n

\* What filterTemporal lets through is in the window, was there, and once.
LEMMA FilterKeeps ==
    ASSUME NEW k, NEW found \in Seq(Result), Unlike(found)
    PROVE  LET r == filterTemporal(k, found)
           IN  /\ r \in Seq(Result) /\ Unlike(r)
               /\ \A n \in DOMAIN r : InWindow(k, r[n].at) /\ \E m \in DOMAIN found : r[n] = found[m]
<1> DEFINE N == Len(found)
           Good(s, n) == /\ s \in Seq(Result) /\ Unlike(s)
                         /\ \A i \in DOMAIN s : InWindow(k, s[i].at) /\ \E m \in 1..n : s[i] = found[m]
<1>0. N \in Nat /\ DOMAIN found = 1..N /\ \A n \in 1..N : found[n] \in Result
  OBVIOUS
<1>1. PICK f : /\ f[0] = <<>> /\ f[N] = filterTemporal(k, found)
               /\ \A n \in 1..N : f[n] = KeepIn(k, f[n - 1], found[n])
  BY FilterUnfolds
<1> DEFINE K == {n \in Nat : n <= N => Good(f[n], n)}
<1>2. 0 \in K
  <2>1. <<>> \in Seq(Result) /\ DOMAIN <<>> = {}
    OBVIOUS
  <2>2. Good(f[0], 0)
    BY <1>1, <2>1 DEF Unlike
  <2> QED BY <2>2
<1>3. ASSUME NEW n \in Nat, n \in K PROVE n + 1 \in K
  <2> SUFFICES ASSUME n + 1 <= N PROVE Good(f[n + 1], n + 1)
    OBVIOUS
  <2> DEFINE s == f[n]
             x == found[n + 1]
  <2>1. n + 1 \in 1..N /\ n <= N /\ (n + 1) - 1 = n /\ x \in Result
    BY <1>0
  <2>2. Good(s, n) /\ f[n + 1] = KeepIn(k, s, x)
    BY <1>1, <1>3, <2>1
  <2>3. \A m \in 1..n : m \in 1..N /\ found[m].id # x.id
    BY <1>0, <2>1 DEF Unlike
  <2> HIDE DEF s, x
  <2>4. CASE ~ InWindow(k, x.at)
    <3>1. f[n + 1] = s
      BY <2>2, <2>4 DEF KeepIn
    <3>2. \A m \in 1..n : m \in 1..(n + 1)
      OBVIOUS
    <3> QED BY <2>2, <3>1, <3>2
  <2>5. CASE InWindow(k, x.at)
    <3> DEFINE t == Append(s, x)
    <3>1. /\ t \in Seq(Result) /\ DOMAIN t = 1..(Len(s) + 1) /\ t[Len(s) + 1] = x
          /\ DOMAIN s = 1..Len(s) /\ Len(s) \in Nat /\ \A i \in 1..Len(s) : t[i] = s[i]
      BY <2>1, <2>2
    <3> HIDE DEF t
    <3>2. \A i \in 1..Len(s) : s[i].id # x.id
      BY <2>2, <2>3, <3>1
    <3>3. Unlike(t)
      <4> SUFFICES ASSUME NEW i \in DOMAIN t, NEW j \in DOMAIN t, t[i].id = t[j].id PROVE i = j
        BY DEF Unlike
      <4>1. (i \in 1..Len(s) \/ i = Len(s) + 1) /\ (j \in 1..Len(s) \/ j = Len(s) + 1)
        BY <3>1
      <4> QED BY <2>2, <3>1, <3>2, <4>1 DEF Unlike
    <3>4. ASSUME NEW i \in DOMAIN t
          PROVE  InWindow(k, t[i].at) /\ \E m \in 1..(n + 1) : t[i] = found[m]
      <4>1. CASE i = Len(s) + 1
        BY <2>5, <3>1, <4>1 DEF x
      <4>2. CASE i \in 1..Len(s)
        <5>1. PICK m \in 1..n : s[i] = found[m]
          BY <2>2, <3>1, <4>2
        <5>2. m \in 1..(n + 1) /\ InWindow(k, s[i].at) /\ t[i] = s[i]
          BY <2>2, <3>1, <4>2
        <5> QED BY <5>1, <5>2
      <4> QED BY <3>1, <4>1, <4>2
    <3>5. f[n + 1] = t
      BY <2>2, <2>5 DEF KeepIn, t
    <3> QED BY <3>1, <3>3, <3>4, <3>5
  <2> QED BY <2>4, <2>5
<1>4. N \in K
  <2> HIDE DEF K
  <2> QED BY <1>0, <1>2, <1>3, Counting
<1>5. Good(filterTemporal(k, found), N)
  BY <1>1, <1>4
<1> QED BY <1>0, <1>5

\* Sorted by time, the way asked for.
InOrder(order, s) ==
    \A m, n \in DOMAIN s : m < n =>
        /\ order = "recent" => s[m].at >= s[n].at
        /\ order = "oldest" => s[m].at <= s[n].at

\* What stays before a row that is inserted.
Stays(order, r, x) == IF order = "recent" THEN r.at <= x.at ELSE r.at > x.at

\* t is s with r after its first p rows, the last of which stays.
Placed(order, s, r, t, p) ==
    /\ t \in Seq(Result) /\ Len(t) = Len(s) + 1
    /\ \A i \in 1..p : t[i] = s[i]
    /\ t[p + 1] = r
    /\ \A i \in (p + 2)..(Len(s) + 1) : t[i] = s[i - 1]
    /\ p # 0 => Stays(order, r, s[p])
    /\ \A n \in (p + 1)..Len(s) : ~ Stays(order, r, s[n])

\* Where a row goes: behind those it must not pass, before the others.
LEMMA InsertPlaces ==
    ASSUME NEW order, NEW s \in Seq(Result), NEW r \in Result
    PROVE  \E p \in 0..Len(s) : Placed(order, s, r, Insert(order, s, r), p)
<1> DEFINE staying == {n \in DOMAIN s : IF order = "recent" THEN r.at <= s[n].at ELSE r.at > s[n].at}
           p == IF staying = {} THEN 0 ELSE CHOOSE n \in staying : \A i \in staying : i <= n
<1>1. Len(s) \in Nat /\ DOMAIN s = 1..Len(s)
  OBVIOUS
<1>2. p \in 0..Len(s) /\ (p # 0 => p \in staying) /\ \A n \in staying : n <= p
  <2>1. CASE staying = {}
    BY <1>1, <2>1
  <2>2. CASE staying # {}
    <3>1. staying \in SUBSET (1..Len(s))
      BY <1>1
    <3> HIDE DEF staying
    <3>2. \E n \in staying : \A i \in staying : i <= n
      BY <1>1, <2>2, <3>1, LastOne
    <3>3. p \in staying /\ \A i \in staying : i <= p
      BY <2>2, <3>2
    <3> HIDE DEF p
    <3>4. p \in 1..Len(s)
      BY <3>1, <3>3
    <3> QED BY <1>1, <3>3, <3>4
  <2> QED BY <2>1, <2>2
<1>3. Insert(order, s, r) = SubSeq(s, 1, p) \o <<r>> \o SubSeq(s, p + 1, Len(s))
  <2>1. Insert(order, s, r) = InsertAt(s, 1 + p, r)
    BY DEF Insert
  <2>2. (1 + p) - 1 = p /\ 1 + p = p + 1
    BY <1>2
  <2> HIDE DEF p
  <2> QED BY <2>1, <2>2 DEF InsertAt
<1> HIDE DEF p
<1> DEFINE a == SubSeq(s, 1, p)
           b == SubSeq(s, p + 1, Len(s))
           t == a \o <<r>> \o b
<1>4. /\ a \in Seq(Result) /\ Len(a) = p /\ \A i \in 1..p : a[i] = s[i]
      /\ b \in Seq(Result) /\ Len(b) = Len(s) - p /\ \A i \in 1..(Len(s) - p) : b[i] = s[p + i]
  <2>1. 1 \in Int /\ p \in Int /\ p + 1 \in Int /\ Len(s) \in Int
    BY <1>1, <1>2
  <2>2. (\A i \in 1..p : s[i] \in Result) /\ (\A i \in (p + 1)..Len(s) : s[i] \in Result)
    BY <1>1, <1>2
  <2>3. /\ a \in Seq(Result) /\ Len(a) = IF 1 <= p THEN p - 1 + 1 ELSE 0
        /\ \A i \in 1..(p - 1 + 1) : a[i] = s[1 + i - 1]
    BY <2>1, <2>2, SubSeqProperties
  <2>4. /\ b \in Seq(Result) /\ Len(b) = IF p + 1 <= Len(s) THEN Len(s) - (p + 1) + 1 ELSE 0
        /\ \A i \in 1..(Len(s) - (p + 1) + 1) : b[i] = s[(p + 1) + i - 1]
    BY <2>1, <2>2, SubSeqProperties
  <2> HIDE DEF a, b
  <2>5. p - 1 + 1 = p /\ Len(s) - (p + 1) + 1 = Len(s) - p
    BY <1>1, <1>2
  <2>6. \A i \in Int : 1 + i - 1 = i /\ (p + 1) + i - 1 = p + i
    BY <1>2
  <2>7. Len(a) = p /\ \A i \in 1..p : a[i] = s[i]
    BY <1>2, <2>3, <2>5, <2>6
  <2>8. Len(b) = Len(s) - p /\ \A i \in 1..(Len(s) - p) : b[i] = s[p + i]
    <3>0. Len(b) = IF p + 1 <= Len(s) THEN Len(s) - (p + 1) + 1 ELSE 0
      BY <2>4
    <3>1. Len(b) = Len(s) - p
      <4>1. p \in Int /\ Len(s) \in Int /\ p <= Len(s)
        BY <1>1, <1>2
      <4> QED BY <3>0, <4>1
    <3>2. \A i \in 1..(Len(s) - p) : i \in Int /\ b[i] = s[(p + 1) + i - 1]
      BY <2>4, <2>5
    <3> QED BY <2>6, <3>1, <3>2
  <2> QED BY <2>3, <2>4, <2>7, <2>8
<1> HIDE DEF a, b
<1>5. /\ a \o <<r>> \in Seq(Result) /\ Len(a \o <<r>>) = p + 1
      /\ (a \o <<r>>)[p + 1] = r /\ \A i \in 1..p : (a \o <<r>>)[i] = s[i]
  BY <1>2, <1>4
<1>6. /\ t \in Seq(Result) /\ Len(t) = Len(s) + 1
      /\ \A i \in 1..(p + 1) : t[i] = (a \o <<r>>)[i]
      /\ \A i \in (p + 2)..(Len(s) + 1) : t[i] = b[i - (p + 1)]
  <2> DEFINE c == a \o <<r>>
  <2> HIDE DEF c
  <2>1. c \in Seq(Result) /\ Len(c) = p + 1 /\ t = c \o b
    BY <1>5 DEF c
  <2> QED BY <1>1, <1>2, <1>4, <2>1 DEF c
<1>7. \A i \in (p + 2)..(Len(s) + 1) : i - (p + 1) \in 1..(Len(s) - p) /\ p + (i - (p + 1)) = i - 1
  BY <1>1, <1>2
<1>8. \A i \in (p + 2)..(Len(s) + 1) : t[i] = s[i - 1]
  BY <1>4, <1>6, <1>7
<1>9. \A i \in 1..p : i \in 1..(p + 1) /\ t[i] = s[i]
  BY <1>2, <1>5, <1>6
<1>10. p + 1 \in 1..(p + 1) /\ t[p + 1] = r
  BY <1>2, <1>5, <1>6
<1>11. Insert(order, s, r) = t
  BY <1>3 DEF a, b
<1>12. \A n \in (p + 1)..Len(s) : n \in DOMAIN s /\ n \notin staying
  BY <1>1, <1>2
<1> HIDE DEF t
<1>13. p # 0 => Stays(order, r, s[p])
  BY <1>2 DEF Stays
<1>14. \A n \in (p + 1)..Len(s) : ~ Stays(order, r, s[n])
  BY <1>12 DEF Stays
<1>15. Placed(order, s, r, t, p)
  BY <1>6, <1>8, <1>9, <1>10, <1>13, <1>14 DEF Placed
<1> QED BY <1>2, <1>11, <1>15

\* One more row in its place: nothing is lost, doubled or out of order.
LEMMA InsertKeeps ==
    ASSUME NEW order \in {"recent", "oldest"}, NEW s \in Seq(Result), InOrder(order, s), Unlike(s),
           NEW r \in Result, \A n \in DOMAIN s : s[n].id # r.id
    PROVE  /\ Insert(order, s, r) \in Seq(Result)
           /\ InOrder(order, Insert(order, s, r)) /\ Unlike(Insert(order, s, r))
           /\ Range(Insert(order, s, r)) = Range(s) \cup {r}
<1> DEFINE t == Insert(order, s, r)
           N == Len(s)
<1>1. N \in Nat /\ DOMAIN s = 1..N /\ r.at \in Int /\ \A n \in 1..N : s[n].at \in Int
  <2>1. Time \subseteq Int
    BY RetrievalAssumption DEF Time
  <2>2. \A x \in Result : x.at \in Time
    BY DEF Result
  <2>3. N \in Nat /\ DOMAIN s = 1..N /\ \A n \in 1..N : s[n] \in Result
    OBVIOUS
  <2> QED BY <2>1, <2>2, <2>3
<1>2. PICK p \in 0..N : Placed(order, s, r, t, p)
  <2> HIDE DEF t
  <2> QED BY InsertPlaces DEF t
<1>3. /\ t \in Seq(Result) /\ Len(t) = N + 1 /\ DOMAIN t = 1..(N + 1)
      /\ \A i \in 1..p : t[i] = s[i]
      /\ t[p + 1] = r
      /\ \A i \in (p + 2)..(N + 1) : t[i] = s[i - 1]
  BY <1>2 DEF Placed
<1>20. p # 0 => Stays(order, r, s[p])
  BY <1>2 DEF Placed
<1>21. \A n \in (p + 1)..N : ~ Stays(order, r, s[n])
  BY <1>2 DEF Placed
<1> HIDE DEF t, N
<1>4. \A i \in 1..(N + 1) : \/ i \in 1..p /\ i \in 1..N /\ t[i] = s[i]
                            \/ i = p + 1 /\ t[i] = r
                            \/ i \in (p + 2)..(N + 1) /\ i - 1 \in 1..N /\ i - 1 \in (p + 1)..N /\ t[i] = s[i - 1]
  BY <1>1, <1>3
<1>5. Unlike(t)
  <2> SUFFICES ASSUME NEW i \in 1..(N + 1), NEW j \in 1..(N + 1), t[i].id = t[j].id PROVE i = j
    BY <1>3 DEF Unlike
  <2>1. \A m, n \in 1..N : s[m].id = s[n].id => m = n
    BY <1>1 DEF Unlike
  <2>2. \A n \in 1..N : s[n].id # r.id
    BY <1>1
  <2> DEFINE Old(k) == \E m \in 1..N : t[k] = s[m] /\ ((m = k /\ k <= p) \/ (m = k - 1 /\ k > p + 1))
  <2>3. ASSUME NEW k \in 1..(N + 1) PROVE Old(k) \/ (t[k] = r /\ k = p + 1)
    <3>1. CASE k \in 1..p
      <4>1. k \in 1..N /\ t[k] = s[k] /\ k <= p
        BY <1>1, <1>2, <1>3, <3>1
      <4> QED BY <1>1, <4>1
    <3>2. CASE k \in (p + 2)..(N + 1)
      <4>1. k - 1 \in 1..N /\ t[k] = s[k - 1] /\ k > p + 1
        BY <1>1, <1>2, <1>3, <3>2
      <4> QED BY <1>1, <4>1
    <3> QED BY <1>4, <3>1, <3>2
  <2>4. Old(j) \/ (t[j] = r /\ j = p + 1)
    BY <2>3
  <2>5. CASE t[i] = r /\ i = p + 1
    BY <2>2, <2>4, <2>5
  <2>6. CASE Old(i)
    <3>1. PICK m \in 1..N : t[i] = s[m] /\ ((m = i /\ i <= p) \/ (m = i - 1 /\ i > p + 1))
      BY <2>6
    <3>2. CASE t[j] = r /\ j = p + 1
      BY <2>2, <3>1, <3>2
    <3>3. CASE Old(j)
      <4>1. PICK n \in 1..N : t[j] = s[n] /\ ((n = j /\ j <= p) \/ (n = j - 1 /\ j > p + 1))
        BY <3>3
      <4>2. m = n
        BY <2>1, <3>1, <4>1
      <4> QED BY <1>1, <3>1, <4>1, <4>2
    <3> QED BY <2>4, <3>2, <3>3
  <2>7. Old(i) \/ (t[i] = r /\ i = p + 1)
    BY <2>3
  <2> QED BY <2>5, <2>6, <2>7
<1>6. {t[i] : i \in DOMAIN t} = {s[i] : i \in DOMAIN s} \cup {r}
  <2>1. ASSUME NEW i \in 1..(N + 1) PROVE t[i] = r \/ \E n \in 1..N : t[i] = s[n]
    BY <1>4
  <2>2. ASSUME NEW n \in 1..N PROVE \E i \in 1..(N + 1) : t[i] = s[n]
    <3>1. CASE n <= p
      <4>1. n \in 1..p /\ n \in 1..(N + 1)
        BY <1>1, <3>1
      <4> QED BY <1>3, <4>1
    <3>2. CASE n > p
      <4>1. n + 1 \in (p + 2)..(N + 1) /\ n + 1 \in 1..(N + 1) /\ (n + 1) - 1 = n
        BY <1>1, <3>2
      <4> QED BY <1>3, <4>1
    <3> QED BY <1>1, <3>1, <3>2
  <2>3. p + 1 \in 1..(N + 1) /\ t[p + 1] = r
    BY <1>1, <1>3
  <2> DEFINE T == {t[i] : i \in 1..(N + 1)}
             S == {s[n] : n \in 1..N} \cup {r}
  <2>4. \A y : y \in T => y \in S
    BY <2>1
  <2>5. \A y : y \in S => y \in T
    BY <2>2, <2>3
  <2>6. T = S
    <3> HIDE DEF S, T
    <3> QED BY <2>4, <2>5
  <2> QED BY <1>1, <1>3, <2>6
<1>7. ASSUME NEW n \in 1..N
      PROVE  /\ n <= p => Stays(order, r, s[n])
             /\ n > p => ~ Stays(order, r, s[n])
  <2>1. CASE n <= p
    <3>1. p \in 1..N /\ p # 0 /\ (n < p \/ n = p)
      BY <1>1, <2>1
    <3>2. /\ n < p /\ order = "recent" => s[n].at >= s[p].at
          /\ n < p /\ order = "oldest" => s[n].at <= s[p].at
      BY <1>1, <3>1 DEF InOrder
    <3>3. Stays(order, r, s[p]) /\ s[n].at \in Int /\ s[p].at \in Int
      BY <1>1, <1>20, <3>1
    <3> QED BY <1>1, <2>1, <3>1, <3>2, <3>3 DEF Stays
  <2>2. CASE n > p
    <3>1. n \in (p + 1)..N
      BY <1>1, <2>2
    <3> QED BY <1>1, <1>21, <2>2, <3>1
  <2> QED BY <1>1, <2>1, <2>2
<1>8. InOrder(order, t)
  <2> SUFFICES ASSUME NEW i \in 1..(N + 1), NEW j \in 1..(N + 1), i < j
               PROVE  /\ order = "recent" => t[i].at >= t[j].at
                      /\ order = "oldest" => t[i].at <= t[j].at
    BY <1>3 DEF InOrder
  <2>1. \A m, n \in 1..N : m < n => /\ order = "recent" => s[m].at >= s[n].at
                                    /\ order = "oldest" => s[m].at <= s[n].at
    BY <1>1 DEF InOrder
  <2>2. \A n \in 1..N : /\ n <= p => /\ order = "recent" => s[n].at >= r.at
                                     /\ order = "oldest" => s[n].at <= r.at
                        /\ n > p => /\ order = "recent" => s[n].at <= r.at
                                    /\ order = "oldest" => s[n].at >= r.at
    BY <1>1, <1>7 DEF Stays
  <2>3. CASE i \in 1..p
    <3>1. i \in 1..N /\ i <= p /\ t[i] = s[i]
      BY <1>1, <1>3, <2>3
    <3>2. CASE j \in 1..p
      BY <1>1, <1>4, <2>1, <3>1, <3>2
    <3>3. CASE j = p + 1
      BY <1>3, <2>2, <3>1, <3>3
    <3>4. CASE j \in (p + 2)..(N + 1)
      <4>1. j - 1 \in 1..N /\ t[j] = s[j - 1] /\ i < j - 1
        BY <1>1, <1>3, <2>3, <3>4
      <4> QED BY <2>1, <3>1, <4>1
    <3> QED BY <1>4, <3>2, <3>3, <3>4
  <2>4. CASE i = p + 1
    <3>1. j \in (p + 2)..(N + 1) /\ j - 1 \in 1..N /\ j - 1 > p
      BY <1>1, <2>4
    <3>2. t[i] = r /\ t[j] = s[j - 1]
      BY <1>3, <2>4, <3>1
    <3> QED BY <1>1, <2>2, <3>1, <3>2
  <2>5. CASE i \in (p + 2)..(N + 1)
    <3>1. j \in (p + 2)..(N + 1) /\ i - 1 \in 1..N /\ j - 1 \in 1..N /\ i - 1 < j - 1
      BY <1>1, <2>5
    <3>2. t[i] = s[i - 1] /\ t[j] = s[j - 1]
      BY <1>3, <2>5, <3>1
    <3> QED BY <2>1, <3>1, <3>2
  <2> QED BY <1>4, <2>3, <2>4, <2>5
<1> QED BY <1>3, <1>5, <1>6, <1>8 DEF t, Range

\* sortByValidAt, as the list of what it has placed so far.
LEMMA SortUnfolds ==
    ASSUME NEW order, order # "relevance", NEW rows \in Seq(Result)
    PROVE  \E f : /\ f[0] = <<>> /\ f[Len(rows)] = sortByValidAt(order, rows)
                  /\ \A n \in 1..Len(rows) : f[n] = Insert(order, f[n - 1], rows[n])
<1> DEFINE N == Len(rows)
           A == Seq(Result)
           step == [p \in A \X (1..N) |-> Insert(order, p[1], rows[p[2]])]
           Folds(g) == g = [t \in SUBSET (1..N) |->
                              IF t = {} THEN <<>> ELSE Insert(order, g[t \ {Max(t)}], rows[Max(t)])]
<1>1. N \in Nat /\ DOMAIN rows = 1..N /\ \A n \in 1..N : rows[n] \in Result
  OBVIOUS
<1>2. \A a \in A, n \in 1..N : Insert(order, a, rows[n]) \in A
  BY <1>1, InsertPlaces DEF Placed
<1>3. \A a \in A, n \in 1..N : step[<<a, n>>] = Insert(order, a, rows[n])
  OBVIOUS
<1> HIDE DEF step
<1>4. PICK g : Solves(g, N, <<>>, step) /\ \A t \in SUBSET (1..N) : g[t] \in A
  <2>1. <<>> \in A /\ \A a \in A, n \in 1..N : step[<<a, n>>] \in A
    BY <1>2, <1>3
  <2>2. N \in Nat
    BY <1>1
  <2> HIDE DEF A, N
  <2> QED BY <2>1, <2>2, FoldExists
<1>5. \A t \in SUBSET (1..N) : t # {} => Max(t) \in 1..N /\ t \ {Max(t)} \in SUBSET (1..N)
  <2> SUFFICES ASSUME NEW t \in SUBSET (1..N), t # {} PROVE Max(t) \in 1..N
    OBVIOUS
  <2>1. PICK m \in t : \A n \in t : n <= m
    BY <1>1, LastOne
  <2>2. \A n \in t : m >= n
    BY <1>1, <2>1
  <2> QED BY <2>2 DEF Max
<1>6. Folds(g)
  BY <1>3, <1>4, <1>5 DEF Solves
<1> DEFINE iter == CHOOSE h : Folds(h)
<1>7. Folds(iter)
  BY <1>6
<1>8. sortByValidAt(order, rows) = iter[1..N]
  BY <1>1 DEF sortByValidAt, FoldLeft, MapThenFoldSet
<1> HIDE DEF iter
<1> DEFINE f == [n \in 0..N |-> iter[1..n]]
<1>9. ASSUME NEW n \in 1..N PROVE f[n] = Insert(order, f[n - 1], rows[n])
  <2>1. n \in Nat \ {0} /\ n \in 0..N /\ n - 1 \in 0..N /\ 1..n \in SUBSET (1..N)
    BY <1>1
  <2> QED BY <1>7, <2>1, Downward
<1>10. f[0] = <<>> /\ f[N] = sortByValidAt(order, rows)
  BY <1>1, <1>7, <1>8
<1> HIDE DEF f, N
<1> QED BY <1>9, <1>10 DEF N

\* A sort keeps the rows, and puts them in order.
LEMMA SortKeeps ==
    ASSUME NEW order \in {"relevance", "recent", "oldest"}, NEW rows \in Seq(Result), Unlike(rows)
    PROVE  LET r == sortByValidAt(order, rows)
           IN  r \in Seq(Result) /\ Unlike(r) /\ InOrder(order, r) /\ Range(r) = Range(rows)
<1>1. CASE order = "relevance"
  BY <1>1 DEF sortByValidAt, InOrder
<1>2. CASE order # "relevance"
  <2> DEFINE N == Len(rows)
             Good(s, n) == /\ s \in Seq(Result) /\ Unlike(s) /\ InOrder(order, s)
                           /\ Range(s) = {rows[i] : i \in 1..n}
  <2>1. N \in Nat /\ DOMAIN rows = 1..N /\ \A n \in 1..N : rows[n] \in Result
    OBVIOUS
  <2>2. PICK f : /\ f[0] = <<>> /\ f[N] = sortByValidAt(order, rows)
                 /\ \A n \in 1..N : f[n] = Insert(order, f[n - 1], rows[n])
    BY <1>2, SortUnfolds
  <2> DEFINE K == {n \in Nat : n <= N => Good(f[n], n)}
  <2>3. 0 \in K
    <3>1. <<>> \in Seq(Result) /\ DOMAIN <<>> = {} /\ 1..0 = {}
      OBVIOUS
    <3>2. Good(f[0], 0)
      BY <2>2, <3>1 DEF Unlike, InOrder, Range
    <3> QED BY <3>2
  <2>4. ASSUME NEW n \in Nat, n \in K PROVE n + 1 \in K
    <3> SUFFICES ASSUME n + 1 <= N PROVE Good(f[n + 1], n + 1)
      OBVIOUS
    <3> DEFINE s == f[n]
               x == rows[n + 1]
    <3>1. n + 1 \in 1..N /\ n <= N /\ (n + 1) - 1 = n /\ x \in Result
      BY <2>1
    <3>2. Good(s, n) /\ f[n + 1] = Insert(order, s, x)
      BY <2>2, <2>4, <3>1
    <3>3. \A m \in 1..n : m \in 1..N /\ rows[m].id # x.id
      BY <2>1, <3>1 DEF Unlike
    <3> HIDE DEF s
    <3>4. \A i \in DOMAIN s : s[i].id # x.id
      <4> SUFFICES ASSUME NEW i \in DOMAIN s PROVE s[i].id # x.id
        OBVIOUS
      <4>1. PICK m \in 1..n : s[i] = rows[m]
        BY <3>2 DEF Range
      <4> QED BY <3>3, <4>1
    <3>5. {rows[i] : i \in 1..(n + 1)} = {rows[i] : i \in 1..n} \cup {x}
      <4>1. \A i : i \in 1..(n + 1) <=> i \in 1..n \/ i = n + 1
        OBVIOUS
      <4> QED BY <4>1
    <3> HIDE DEF x
    <3>6. order \in {"recent", "oldest"}
      BY <1>2
    <3>7. s \in Seq(Result) /\ Unlike(s) /\ InOrder(order, s) /\ Range(s) = {rows[i] : i \in 1..n}
      BY <3>2
    <3> DEFINE t == Insert(order, s, x)
    <3>8. t \in Seq(Result) /\ InOrder(order, t) /\ Unlike(t) /\ Range(t) = Range(s) \cup {x}
      <4>1. x \in Result /\ s \in Seq(Result) /\ InOrder(order, s) /\ Unlike(s)
        BY <3>1, <3>7
      <4> HIDE DEF x, s
      <4> QED BY <3>4, <3>6, <4>1, InsertKeeps
    <3> HIDE DEF t
    <3>9. f[n + 1] = t
      BY <3>2 DEF t
    <3> QED BY <3>5, <3>7, <3>8, <3>9
  <2>5. N \in K
    <3> HIDE DEF K
    <3> QED BY <2>1, <2>3, <2>4, Counting
  <2>6. Good(sortByValidAt(order, rows), N)
    BY <2>1, <2>2, <2>5
  <2> QED BY <2>1, <2>6 DEF Range
<1> QED BY <1>1, <1>2

-----------------------------------------------------------------------------
(* The invariant.                                                           *)

Gaps == (Brains \cup {AllBrains}) \X Texts
Gap == [hits : Nat, status : {"none"} \cup Resolutions]

\* What each variable holds.  Where TypeOK does not look, too: the counters are
\* numbers and a request that was asked has a query.
Typed ==
    /\ memories \in [Ids -> Row \cup {Absent}] /\ links \in Links
    /\ clock \in Time /\ bm25 \in BOOLEAN /\ emptied \subseteq Brains
    /\ gaps \in [Gaps -> Gap] /\ \A g \in Gaps : gaps[g].hits = 0 <=> gaps[g] = NoGap
    /\ pc \in [Callers -> Phases] /\ tx \in [Callers -> {"none", "open", "aborted"}]
    /\ q \in [Callers -> Queries \cup {None}] /\ \A c \in Callers : pc[c] # "idle" => q[c] \in Queries
    /\ pool \in [Callers -> Seq(Result)] /\ steady \in [Callers -> SUBSET Ids]
    /\ began \in [Callers -> Time] /\ \A c \in Callers : began[c] <= clock
    /\ faulted \in [Callers -> BOOLEAN]

PrimariesOf(s) == {s[n].id : n \in {m \in DOMAIN s : s[m].via = None}}
ExtrasOf(s) == {s[n].id : n \in {m \in DOMAIN s : s[m].via # None}}

\* The rows of an answer are in the window; they held when it was asked for, at
\* time t, or at the time it asks about; they are a sound expansion; and there
\* are enough of them for the rows that matched all along.
Window(k, s) == \A n \in DOMAIN s : InWindow(k, s[n].at)
Holds(k, t, row) == row.ns # None => \/ row.invalid > t
                                     \/ k.asOf # None /\ row.invalid > k.asOf
Alive(k, t, s) == \A n \in DOMAIN s : Holds(k, t, memories[s[n].id])
Sound(k, s) ==
    /\ Unlike(s)
    /\ \A n \in DOMAIN s : s[n].via # None =>
          \E i \in PrimariesOf(s) : s[n].via \in Shared(i, s[n].id)
    /\ Cardinality(PrimariesOf(s)) <= k.limit /\ Cardinality(ExtrasOf(s)) <= maxExpand(k.limit)
Enough(k, s, always, fault) ==
    ~ k.important /\ ~ fault /\ Cardinality(Ids) <= EfSearch =>
        Cardinality(PrimariesOf(s)) >= Least(Least(k.limit, PoolSize), Cardinality(always))

\* What a row is found by.
Reachable(row) == row.embedded \/ (bm25 /\ row.tokenized)

\* A request, by its phase.
RequestInv(p, k, t, s, asked, always, fault) ==
    /\ p \in {"hybrid", "vector"} => \A i \in always : Match(k, memories[i]) /\ Reachable(memories[i])
    /\ p = "vector" => /\ k.op = "recall" => t = "open"
                       /\ ~ fault => ~ bm25
    /\ p = "failed" /\ ~ fault => k.op # "recall"
    /\ p = "expand" => \A n \in DOMAIN s : s[n].via = None
    /\ p \in {"expand", "answer", "done"} =>
          Window(k, s) /\ Alive(k, asked, s) /\ Sound(k, s) /\ Enough(k, s, always, fault)
    /\ p \in {"answer", "done"} => InOrder(k.order, s)

Requests == \A c \in Callers : RequestInv(pc[c], q[c], tx[c], pool[c], began[c], steady[c], faulted[c])

RetrievalInv == Typed /\ Requests

-----------------------------------------------------------------------------
(* The candidates of a query.                                               *)

LEMMA LeastOf ==
    ASSUME NEW a \in Nat, NEW b \in Nat
    PROVE  Least(a, b) \in Nat /\ Least(a, b) <= a /\ Least(a, b) <= b /\ (Least(a, b) = a \/ Least(a, b) = b)
  BY DEF Least

LEMMA FiniteRows ==
    ASSUME NEW S \in SUBSET Ids
    PROVE  IsFiniteSet(S) /\ Cardinality(S) \in Nat
  BY RetrievalAssumption, FS_Subset, FS_CardinalityType

\* A limit that no set exceeds takes all of it.
LEMMA AnyOfFacts ==
    ASSUME NEW S \in SUBSET Ids, NEW n \in Nat, NEW U \in AnyOf(S, n)
    PROVE  /\ U \in SUBSET S /\ Cardinality(U) = Least(n, Cardinality(S))
           /\ Cardinality(S) <= n => U = S
           /\ n <= Cardinality(S) => Cardinality(U) = n
<1>1. U \in SUBSET S /\ Cardinality(U) = Least(n, Cardinality(S))
  BY DEF AnyOf
<1>2. Cardinality(S) \in Nat
  BY FiniteRows
<1>3. IsFiniteSet(S)
  BY FiniteRows
<1>4. Cardinality(S) = Cardinality(U) => S = U
  BY <1>1, <1>3, FS_Subset
<1> QED BY <1>1, <1>2, <1>4 DEF Least

LEMMA RankedFacts ==
    ASSUME NEW S \in SUBSET Ids, NEW n \in Nat, NEW s \in Ranked(S, n)
    PROVE  /\ s \in Seq(S) /\ Range(s) \in SUBSET S
           /\ \A a, b \in DOMAIN s : s[a] = s[b] => a = b
           /\ Cardinality(Range(s)) = Least(n, Cardinality(S))
<1> DEFINE m == Least(n, Cardinality(S))
<1>1. Cardinality(S) \in Nat /\ m \in Nat
  <2>1. Cardinality(S) \in Nat
    BY FiniteRows
  <2> QED BY <2>1, LeastOf
<1>2. s \in [1..m -> S] /\ \A a, b \in 1..m : s[a] = s[b] => a = b
  BY DEF Ranked, Injection, IsInjective
<1> HIDE DEF m
<1>3. s \in Seq(S) /\ DOMAIN s = 1..m
  BY <1>1, <1>2
<1>4. Range(s) \in SUBSET S
  BY <1>2 DEF Range
<1>5. s \in Surjection(1..m, Range(s)) /\ s \in Injection(1..m, Range(s))
  <2>1. s \in [1..m -> Range(s)]
    BY <1>2 DEF Range
  <2>2. \A y \in Range(s) : \E x \in 1..m : s[x] = y
    BY <1>2 DEF Range
  <2>3. IsInjective(s)
    BY <1>2 DEF IsInjective
  <2> QED BY <2>1, <2>2, <2>3 DEF Surjection, Injection
<1>6. IsFiniteSet(1..m) /\ Cardinality(1..m) = m
  <2>1. 1 \in Int /\ m \in Int
    BY <1>1
  <2>2. IsFiniteSet(1..m) /\ Cardinality(1..m) = IF 1 > m THEN 0 ELSE m - 1 + 1
    BY <2>1, FS_Interval
  <2>3. (IF 1 > m THEN 0 ELSE m - 1 + 1) = m
    BY <1>1
  <2> QED BY <2>2, <2>3
<1>7. Cardinality(Range(s)) = m
  <2> HIDE DEF m
  <2>1. Cardinality(Range(s)) = Cardinality(1..m) <=> s \in Injection(1..m, Range(s))
    BY <1>5, <1>6, FS_Surjection
  <2> QED BY <1>5, <1>6, <2>1
<1> QED BY <1>2, <1>3, <1>4, <1>7 DEF m

\* Times and limits are numbers.
LEMMA Numbers ==
    /\ Time \subseteq Nat /\ Never \in Nat /\ \A t \in Time : t < Never
    /\ PoolSize \in Nat /\ EfSearch \in Nat
    /\ \A k \in Queries : k \in QueryType /\ k.limit \in Nat /\ maxExpand(k.limit) \in Nat
<1>1. MaxClock \in Nat
  BY RetrievalAssumption
<1>2. PoolSize \in Nat /\ EfSearch \in Nat /\ Queries \subseteq QueryType
  BY RetrievalAssumption
<1>3. Time \subseteq Nat /\ Never \in Nat /\ \A t \in Time : t < Never
  BY <1>1 DEF Time, Never
<1>4. ASSUME NEW k \in Queries PROVE k \in QueryType /\ k.limit \in Nat /\ maxExpand(k.limit) \in Nat
  <2>1. k \in QueryType
    BY <1>2
  <2>2. k.limit \in Nat
    BY <2>1 DEF QueryType
  <2>3. k.limit \div 2 \in Int
    BY <2>2
  <2>4. maxExpand(k.limit) \in Nat
    BY <2>3 DEF maxExpand
  <2> QED BY <2>1, <2>2, <2>4
<1> QED BY <1>2, <1>3, <1>4

\* A row that is there is a row.
LEMMA RowThere ==
    ASSUME Typed, NEW i \in Ids, memories[i] # Absent
    PROVE  /\ memories[i] \in Row /\ memories[i].ns \in Brains /\ memories[i].ns # None
           /\ memories[i].at \in Time /\ memories[i].invalid \in Time \cup {Never}
<1>1. memories[i] \in Row
  BY DEF Typed
<1> QED BY <1>1, RetrievalAssumption DEF Row

\* The results of a query: rows that match, each once, as many as the limit lets.
LEMMA GotPool ==
    ASSUME Typed, NEW k \in Queries, NEW S \in SUBSET Matching(k),
           NEW n \in Nat, n <= k.limit, NEW s \in Ranked(S, n), NEW t \in Time
    PROVE  /\ Primary(s) \in Seq(Result)
           /\ \A i \in DOMAIN Primary(s) : Primary(s)[i].via = None
           /\ Window(k, Primary(s)) /\ Alive(k, t, Primary(s)) /\ Sound(k, Primary(s))
           /\ Cardinality(PrimariesOf(Primary(s))) = Least(n, Cardinality(S))
<1> DEFINE p == Primary(s)
<1>1. S \in SUBSET Ids /\ \A i \in S : Match(k, memories[i])
  BY DEF Matching
<1>2. /\ s \in Seq(S) /\ Range(s) \in SUBSET S
      /\ \A a, b \in DOMAIN s : s[a] = s[b] => a = b
      /\ Cardinality(Range(s)) = Least(n, Cardinality(S))
  BY <1>1, RankedFacts
<1>3. Len(s) \in Nat /\ DOMAIN s = 1..Len(s) /\ \A a \in DOMAIN s : s[a] \in S
  BY <1>2
<1>4. \A i \in S : memories[i] # Absent /\ memories[i] \in Row /\ memories[i].at \in Time
  BY <1>1, RowThere DEF Match
<1>5. DOMAIN p = DOMAIN s /\ \A a \in DOMAIN s : p[a] = [id |-> s[a], at |-> memories[s[a]].at, via |-> None]
  BY DEF Primary
<1> HIDE DEF p
<1>6. \A a \in DOMAIN s : p[a] \in Result /\ p[a].id = s[a] /\ p[a].at = memories[s[a]].at /\ p[a].via = None
  <2> SUFFICES ASSUME NEW a \in DOMAIN s
               PROVE  p[a] \in Result /\ p[a].id = s[a] /\ p[a].at = memories[s[a]].at /\ p[a].via = None
    OBVIOUS
  <2>1. s[a] \in Ids /\ memories[s[a]].at \in Time
    BY <1>1, <1>3, <1>4
  <2> QED BY <1>5, <2>1 DEF Result
<1>7. p \in Seq(Result)
  <2>1. p \in [1..Len(s) -> Result]
    <3>1. p = [a \in DOMAIN s |-> p[a]]
      <4>1. p = [a \in DOMAIN s |-> [id |-> s[a], at |-> memories[s[a]].at, via |-> None]]
        BY DEF p, Primary
      <4> QED BY <1>5, <4>1
    <3> QED BY <1>3, <1>6, <3>1
  <2> QED BY <1>3, <2>1
<1>8. PrimariesOf(p) = Range(s) /\ ExtrasOf(p) = {}
  BY <1>5, <1>6 DEF PrimariesOf, ExtrasOf, Range
<1>9. Window(k, p)
  BY <1>1, <1>3, <1>5, <1>6 DEF Window, Match
<1>10. Alive(k, t, p)
  <2> SUFFICES ASSUME NEW a \in DOMAIN s PROVE Holds(k, t, memories[s[a]])
    BY <1>5, <1>6 DEF Alive
  <2>1. HeldTrue(k, memories[s[a]])
    BY <1>1, <1>3 DEF Match
  <2>2. t < Never
    BY Numbers
  <2>3. Never \in Nat /\ t \in Nat
    BY Numbers
  <2> QED BY <2>1, <2>2, <2>3 DEF HeldTrue, Holds
<1>11. Cardinality(S) \in Nat
  BY <1>1, FiniteRows
<1>12. Sound(k, p)
  <2>1. Unlike(p)
    BY <1>2, <1>5, <1>6 DEF Unlike
  <2>2. Cardinality(PrimariesOf(p)) <= k.limit
    <3>1. Least(n, Cardinality(S)) \in Nat /\ Least(n, Cardinality(S)) <= n
      BY <1>11, LeastOf
    <3>2. k.limit \in Nat
      BY Numbers
    <3> QED BY <1>2, <1>8, <3>1, <3>2
  <2>3. Cardinality(ExtrasOf(p)) <= maxExpand(k.limit)
    <3>1. maxExpand(k.limit) \in Nat
      BY Numbers
    <3>2. Cardinality(ExtrasOf(p)) = 0
      BY <1>8, FS_EmptySet
    <3> QED BY <3>1, <3>2
  <2> QED BY <1>5, <1>6, <2>1, <2>2, <2>3 DEF Sound
<1> QED BY <1>2, <1>5, <1>6, <1>7, <1>8, <1>9, <1>10, <1>12 DEF p

\* What each row of a set satisfies to have been found all along.
Steady(k, always) == \A i \in always : Match(k, memories[i]) /\ Reachable(memories[i])

\* S is enough for the rows of the other set.
Serves(k, S, always) ==
    Least(Least(k.limit, PoolSize), Cardinality(always)) <= Least(Least(PoolSize, k.limit), Cardinality(S))

LEMMA Larger ==
    ASSUME NEW k \in Queries, NEW S \in SUBSET Ids, NEW always \in SUBSET Ids,
           PoolSize <= Cardinality(S) \/ always \subseteq S
    PROVE  Serves(k, S, always)
<1>1. Cardinality(S) \in Nat /\ Cardinality(always) \in Nat /\ PoolSize \in Nat /\ k.limit \in Nat
  BY FiniteRows, Numbers
<1>2. always \subseteq S => Cardinality(always) <= Cardinality(S)
  BY FiniteRows, FS_Subset
<1> QED BY <1>1, <1>2 DEF Serves, Least

\* An index scan that may look at every row does.
LEMMA ScanSeesAll ==
    ASSUME NEW S \in AnyOf(Embedded, hnswEFSearch)
    PROVE  S \in SUBSET Embedded /\ (Cardinality(Ids) <= EfSearch => S = Embedded)
<1>1. Embedded \in SUBSET Ids /\ hnswEFSearch = EfSearch /\ EfSearch \in Nat
  BY Numbers DEF Embedded, hnswEFSearch
<1>2. S \in SUBSET Embedded /\ (Cardinality(Embedded) <= EfSearch => S = Embedded)
  BY <1>1, AnyOfFacts
<1>3. Cardinality(Embedded) <= Cardinality(Ids) /\ Cardinality(Embedded) \in Nat /\ Cardinality(Ids) \in Nat
  BY <1>1, FiniteRows, FS_Subset
<1> QED BY <1>1, <1>2, <1>3

\* The vector query.
LEMMA VectorFinds ==
    ASSUME NEW k \in Queries, NEW s \in VectorPools(k),
           NEW always \in SUBSET Ids, Steady(k, always), ~ bm25
    PROVE  \E S \in SUBSET Matching(k) :
             /\ s \in Ranked(S, Least(PoolSize, k.limit))
             /\ ~ k.important /\ Cardinality(Ids) <= EfSearch => Serves(k, S, always)
<1>1. PICK S \in AnyOf(Embedded, hnswEFSearch) :
        s \in Ranked(S \cap Important(k, Matching(k)), Least(PoolSize, k.limit))
  BY DEF VectorPools
<1> DEFINE R == S \cap Important(k, Matching(k))
<1>2. R \in SUBSET Matching(k) /\ R \in SUBSET Ids
  BY DEF Important, Matching
<1>3. ASSUME ~ k.important, Cardinality(Ids) <= EfSearch PROVE Serves(k, R, always)
  <2>1. S = Embedded
    BY <1>3, ScanSeesAll
  <2>2. always \subseteq R
    BY <1>3, <2>1 DEF Steady, Reachable, Embedded, Important, Matching, Match
  <2> HIDE DEF R
  <2> QED BY <1>2, <2>2, Larger
<1> HIDE DEF R
<1> QED BY <1>1, <1>2, <1>3 DEF R

\* The hybrid query: of each of its two sides either the limit's worth or all.
LEMMA HybridFinds ==
    ASSUME NEW k \in Queries, NEW s \in HybridPools(k),
           NEW always \in SUBSET Ids, Steady(k, always)
    PROVE  \E S \in SUBSET Matching(k) :
             /\ s \in Ranked(S, Least(PoolSize, k.limit))
             /\ ~ k.important /\ Cardinality(Ids) <= EfSearch => Serves(k, S, always)
<1>1. PICK V \in Near(k), T \in AnyOf(Matching(k) \cap Tokenized, PoolSize) :
        s \in Ranked(Important(k, V \cup T), Least(PoolSize, k.limit))
  <2> DEFINE P(V, T) == Ranked(Important(k, V \cup T), Least(PoolSize, k.limit))
             VS == Near(k)
             TS == AnyOf(Matching(k) \cap Tokenized, PoolSize)
  <2>1. HybridPools(k) = UNION {P(V, T) : V \in VS, T \in TS}
    BY DEF HybridPools
  <2> HIDE DEF P, VS, TS
  <2>2. PICK V \in VS, T \in TS : s \in P(V, T)
    BY <2>1
  <2> QED BY <2>2 DEF P, VS, TS
<1>2. PICK S \in AnyOf(Embedded, hnswEFSearch) : V \in AnyOf(S \cap Matching(k), PoolSize)
  BY DEF Near
<1>3. Matching(k) \in SUBSET Ids /\ PoolSize \in Nat
  BY Numbers DEF Matching
<1>4. /\ V \in SUBSET (S \cap Matching(k))
      /\ Cardinality(S \cap Matching(k)) <= PoolSize => V = S \cap Matching(k)
      /\ PoolSize <= Cardinality(S \cap Matching(k)) => Cardinality(V) = PoolSize
  <2>1. S \cap Matching(k) \in SUBSET Ids
    BY <1>3
  <2> QED BY <1>2, <1>3, <2>1, AnyOfFacts
<1>5. /\ T \in SUBSET (Matching(k) \cap Tokenized)
      /\ Cardinality(Matching(k) \cap Tokenized) <= PoolSize => T = Matching(k) \cap Tokenized
      /\ PoolSize <= Cardinality(Matching(k) \cap Tokenized) => Cardinality(T) = PoolSize
  <2>1. Matching(k) \cap Tokenized \in SUBSET Ids
    BY <1>3
  <2> QED BY <1>1, <1>3, <2>1, AnyOfFacts
<1> DEFINE R == Important(k, V \cup T)
<1>6. R \in SUBSET Matching(k) /\ R \in SUBSET Ids
  BY <1>3, <1>4, <1>5 DEF Important
<1>7. ASSUME ~ k.important, Cardinality(Ids) <= EfSearch PROVE Serves(k, R, always)
  <2>1. S = Embedded /\ R = V \cup T
    BY <1>2, <1>7, ScanSeesAll DEF Important
  <2>2. V \in SUBSET R /\ T \in SUBSET R
    BY <2>1
  <2>3. Cardinality(V) <= Cardinality(R) /\ Cardinality(T) <= Cardinality(R)
    BY <1>6, <2>2, FiniteRows, FS_Subset
  <2>4. Cardinality(V) \in Nat /\ Cardinality(T) \in Nat /\ Cardinality(R) \in Nat
    BY <1>6, <2>2, FiniteRows
  <2>5. CASE V = Embedded \cap Matching(k) /\ T = Matching(k) \cap Tokenized
    <3>1. always \subseteq R
      BY <2>1, <2>5 DEF Steady, Reachable, Embedded, Tokenized, Matching, Match
    <3> HIDE DEF R
    <3> QED BY <1>6, <3>1, Larger
  <2>6. CASE PoolSize <= Cardinality(R)
    <3> HIDE DEF R
    <3> QED BY <1>6, <2>6, Larger
  <2>7. /\ Cardinality(Embedded \cap Matching(k)) \in Nat
        /\ Cardinality(Matching(k) \cap Tokenized) \in Nat
    <3>1. Embedded \cap Matching(k) \in SUBSET Ids /\ Matching(k) \cap Tokenized \in SUBSET Ids
      BY <1>3
    <3> QED BY <3>1, FiniteRows
  <2>8. \/ V = Embedded \cap Matching(k) /\ T = Matching(k) \cap Tokenized
        \/ Cardinality(V) = PoolSize \/ Cardinality(T) = PoolSize
    BY <1>3, <1>4, <1>5, <2>1, <2>7
  <2> HIDE DEF R
  <2> QED BY <1>3, <2>3, <2>4, <2>5, <2>6, <2>8
<1> HIDE DEF R
<1> QED BY <1>1, <1>6, <1>7 DEF R

\* What the expansion finds: rows linked to a row of the pool that hold now, not
\* of the pool, each once, and no more than the limit.
LEMMA Expanded ==
    ASSUME Typed, NEW k \in Queries, NEW seeds \in SUBSET Ids, NEW more \in expandEntities(k, seeds)
    PROVE  /\ more \in Seq(Result) /\ Unlike(more)
           /\ \A n \in DOMAIN more : /\ more[n].id \notin seeds /\ more[n].via # None
                                    /\ \E j \in seeds : more[n].via \in Shared(j, more[n].id)
                                    /\ memories[more[n].id].invalid = Never
           /\ \E U \in SUBSET Ids : /\ Cardinality(U) <= maxExpand(k.limit)
                                   /\ \A n \in DOMAIN more : more[n].id \in U
<1> DEFINE Via(i) == UNION {Shared(i, j) : j \in seeds \ {i}}
           Found(s) == [n \in DOMAIN s |-> [id |-> s[n], at |-> memories[s[n]].at,
                                            via |-> CHOOSE e \in Via(s[n]) : TRUE]]
           Near1 == Neighbours(k, seeds)
<1>1. PICK U \in AnyOf(Near1, maxExpand(k.limit)) :
        more \in {Found(s) : s \in Ranked(U \ seeds, Cardinality(U))}
  <2> DEFINE P(V) == {Found(s) : s \in Ranked(V \ seeds, Cardinality(V))}
             VS == AnyOf(Near1, maxExpand(k.limit))
  <2>1. expandEntities(k, seeds) = UNION {P(V) : V \in VS}
    BY DEF expandEntities
  <2> HIDE DEF P, VS
  <2>2. PICK V \in VS : more \in P(V)
    BY <2>1
  <2> QED BY <2>2 DEF P, VS
<1>2. PICK s \in Ranked(U \ seeds, Cardinality(U)) : more = Found(s)
  BY <1>1
<1>3. Near1 \in SUBSET Ids /\ maxExpand(k.limit) \in Nat
  BY Numbers DEF Neighbours
<1>4. U \in SUBSET Near1 /\ Cardinality(U) = Least(maxExpand(k.limit), Cardinality(Near1))
  BY <1>1, <1>3, AnyOfFacts
<1>5. Cardinality(Near1) \in Nat /\ Cardinality(U) \in Nat /\ Cardinality(U) <= maxExpand(k.limit)
  <2>1. Cardinality(Near1) \in Nat /\ Cardinality(U) \in Nat
    BY <1>3, <1>4, FiniteRows
  <2> QED BY <1>3, <1>4, <2>1, LeastOf
<1>6. s \in Seq(U \ seeds) /\ \A a, b \in DOMAIN s : s[a] = s[b] => a = b
  <2>1. U \ seeds \in SUBSET Ids
    BY <1>3, <1>4
  <2> QED BY <1>5, <2>1, RankedFacts
<1>7. Len(s) \in Nat /\ DOMAIN s = 1..Len(s) /\ \A a \in DOMAIN s : s[a] \in U /\ s[a] \in Ids /\ s[a] \notin seeds
  BY <1>3, <1>4, <1>6
<1>8. ASSUME NEW i \in U
      PROVE  /\ i \in Ids /\ memories[i] # Absent /\ memories[i].invalid = Never
             /\ \E j \in seeds \ {i} : Shared(i, j) # {}
  BY <1>4 DEF Neighbours
<1> DEFINE v(i) == CHOOSE e \in Via(i) : TRUE
<1>9. ASSUME NEW i \in U
      PROVE  v(i) \in Entities /\ v(i) # None /\ \E j \in seeds : v(i) \in Shared(j, i)
  <2>1. PICK j \in seeds \ {i} : Shared(i, j) # {}
    BY <1>8
  <2>2. Via(i) # {}
    BY <2>1
  <2>3. v(i) \in Via(i)
    <3> HIDE DEF Via
    <3> QED BY <2>2
  <2> HIDE DEF v
  <2>4. PICK l \in seeds \ {i} : v(i) \in Shared(i, l)
    BY <2>3
  <2>5. v(i) \in Entities /\ v(i) \in Shared(l, i)
    BY <2>4 DEF Shared
  <2> QED BY <2>5, RetrievalAssumption
<1>10. /\ DOMAIN more = DOMAIN s
       /\ more = [n \in DOMAIN s |-> [id |-> s[n], at |-> memories[s[n]].at, via |-> v(s[n])]]
  BY <1>2
<1> HIDE DEF v, Found, Via
<1>11. \A a \in DOMAIN s : more[a] = [id |-> s[a], at |-> memories[s[a]].at, via |-> v(s[a])]
  BY <1>10
<1>12. \A a \in DOMAIN s : more[a] \in Result /\ more[a].id = s[a] /\ more[a].via = v(s[a])
  <2> SUFFICES ASSUME NEW a \in DOMAIN s
               PROVE  more[a] \in Result /\ more[a].id = s[a] /\ more[a].via = v(s[a])
    OBVIOUS
  <2>1. s[a] \in Ids /\ s[a] \in U
    BY <1>7
  <2>2. memories[s[a]].at \in Time /\ v(s[a]) \in Entities
    BY <1>8, <1>9, <2>1, RowThere
  <2>3. PICK e \in Entities : v(s[a]) = e
    BY <2>2
  <2>4. more[a] = [id |-> s[a], at |-> memories[s[a]].at, via |-> e]
    BY <1>11, <2>3
  <2> QED BY <2>1, <2>2, <2>3, <2>4 DEF Result
<1>13. more \in Seq(Result)
  <2>1. more = [a \in 1..Len(s) |-> more[a]]
    BY <1>7, <1>10
  <2>2. more \in [1..Len(s) -> Result]
    BY <1>7, <1>12, <2>1
  <2> QED BY <1>7, <2>2
<1>14. Unlike(more)
  BY <1>6, <1>10, <1>12 DEF Unlike
<1>15. \A n \in DOMAIN more : /\ more[n].id \notin seeds /\ more[n].via # None
                             /\ \E j \in seeds : more[n].via \in Shared(j, more[n].id)
                             /\ memories[more[n].id].invalid = Never
  <2> SUFFICES ASSUME NEW n \in DOMAIN s
               PROVE  /\ more[n].id \notin seeds /\ more[n].via # None
                      /\ \E j \in seeds : more[n].via \in Shared(j, more[n].id)
                      /\ memories[more[n].id].invalid = Never
    BY <1>10
  <2>1. s[n] \in U /\ s[n] \notin seeds
    BY <1>7
  <2> QED BY <1>8, <1>9, <1>12, <2>1
<1>16. \A n \in DOMAIN more : more[n].id \in U
  BY <1>7, <1>10, <1>12
<1>17. U \in SUBSET Ids
  BY <1>3, <1>4
<1> QED BY <1>5, <1>13, <1>14, <1>15, <1>16, <1>17

\* The pool and what the expansion adds to it, in the order asked for.
LEMMA ExpandedPool ==
    ASSUME Typed, NEW k \in Queries, NEW s \in Seq(Result), NEW t \in Time, NEW always, NEW fault,
           \A n \in DOMAIN s : s[n].via = None,
           Window(k, s), Alive(k, t, s), Sound(k, s), Enough(k, s, always, fault),
           NEW more, more = <<>> \/ more \in expandEntities(k, {s[n].id : n \in DOMAIN s})
    PROVE  LET r == sortByValidAt(k.order, s \o filterTemporal(k, more))
           IN  /\ r \in Seq(Result)
               /\ Window(k, r) /\ Alive(k, t, r) /\ Sound(k, r) /\ Enough(k, r, always, fault)
               /\ InOrder(k.order, r)
<1> DEFINE seeds == {s[n].id : n \in DOMAIN s}
           add == filterTemporal(k, more)
           all == s \o add
           r == sortByValidAt(k.order, all)
<1>0. Len(s) \in Nat /\ DOMAIN s = 1..Len(s) /\ \A n \in DOMAIN s : s[n] \in Result
  OBVIOUS
<1>1. seeds \in SUBSET Ids /\ PrimariesOf(s) = seeds
  BY <1>0 DEF Result, PrimariesOf
<1>2. /\ more \in Seq(Result) /\ Unlike(more)
      /\ \A n \in DOMAIN more : /\ more[n].id \notin seeds /\ more[n].via # None
                               /\ \E j \in seeds : more[n].via \in Shared(j, more[n].id)
                               /\ memories[more[n].id].invalid = Never
      /\ \E U \in SUBSET Ids : /\ Cardinality(U) <= maxExpand(k.limit)
                              /\ \A n \in DOMAIN more : more[n].id \in U
  <2>1. CASE more = <<>>
    <3>1. more \in Seq(Result) /\ DOMAIN more = {} /\ Unlike(more)
      BY <2>1 DEF Unlike
    <3>2. {} \in SUBSET Ids /\ Cardinality({}) <= maxExpand(k.limit)
      BY FS_EmptySet, Numbers
    <3> QED BY <3>1, <3>2
  <2>2. CASE more \in expandEntities(k, seeds)
    <3> HIDE DEF seeds
    <3> QED BY <1>1, <2>2, Expanded
  <2> QED BY <2>1, <2>2
<1>3. /\ add \in Seq(Result) /\ Unlike(add)
      /\ \A n \in DOMAIN add : InWindow(k, add[n].at) /\ \E m \in DOMAIN more : add[n] = more[m]
  BY <1>2, FilterKeeps
<1> HIDE DEF add, seeds
<1>4. \A n \in DOMAIN add : /\ add[n].id \notin seeds /\ add[n].via # None
                            /\ \E j \in seeds : add[n].via \in Shared(j, add[n].id)
                            /\ memories[add[n].id].invalid = Never
  <2> SUFFICES ASSUME NEW n \in DOMAIN add
               PROVE  /\ add[n].id \notin seeds /\ add[n].via # None
                      /\ \E j \in seeds : add[n].via \in Shared(j, add[n].id)
                      /\ memories[add[n].id].invalid = Never
    OBVIOUS
  <2>1. PICK m \in DOMAIN more : add[n] = more[m]
    BY <1>3
  <2> QED BY <1>2, <2>1
<1>5. /\ Len(add) \in Nat /\ DOMAIN add = 1..Len(add) /\ \A n \in DOMAIN add : add[n] \in Result
      /\ all \in Seq(Result) /\ DOMAIN all = 1..(Len(s) + Len(add))
      /\ \A n \in 1..Len(s) : all[n] = s[n]
      /\ \A n \in (Len(s) + 1)..(Len(s) + Len(add)) : all[n] = add[n - Len(s)]
  BY <1>0, <1>3
<1>6. \A n \in DOMAIN all : \/ n \in 1..Len(s) /\ all[n] = s[n]
                            \/ n - Len(s) \in 1..Len(add) /\ all[n] = add[n - Len(s)]
  BY <1>0, <1>5
<1>7. /\ \A n \in 1..Len(s) : n \in DOMAIN all
      /\ \A n \in 1..Len(add) : n + Len(s) \in DOMAIN all /\ all[n + Len(s)] = add[n]
  <2>1. ASSUME NEW n \in 1..Len(add)
        PROVE  n + Len(s) \in (Len(s) + 1)..(Len(s) + Len(add)) /\ (n + Len(s)) - Len(s) = n
    BY <1>0, <1>5
  <2>2. \A n \in (Len(s) + 1)..(Len(s) + Len(add)) : n \in 1..(Len(s) + Len(add))
    BY <1>0, <1>5
  <2>3. \A n \in 1..Len(s) : n \in 1..(Len(s) + Len(add))
    BY <1>0, <1>5
  <2> QED BY <1>5, <2>1, <2>2, <2>3
<1> HIDE DEF all
<1>8. \A x : x \in Range(all) <=> x \in Range(s) \/ x \in Range(add)
  <2>1. ASSUME NEW x \in Range(all) PROVE x \in Range(s) \/ x \in Range(add)
    <3>1. PICK n \in DOMAIN all : x = all[n]
      BY DEF Range
    <3> QED BY <1>0, <1>5, <1>6, <3>1 DEF Range
  <2>2. ASSUME NEW x \in Range(s) PROVE x \in Range(all)
    BY <1>0, <1>5, <1>7 DEF Range
  <2>3. ASSUME NEW x \in Range(add) PROVE x \in Range(all)
    BY <1>5, <1>7 DEF Range
  <2> QED BY <2>1, <2>2, <2>3
<1>9. Unlike(all)
  <2> SUFFICES ASSUME NEW m \in DOMAIN all, NEW n \in DOMAIN all, all[m].id = all[n].id PROVE m = n
    BY DEF Unlike
  <2>1. CASE m \in 1..Len(s) /\ all[m] = s[m]
    <3>1. CASE n \in 1..Len(s) /\ all[n] = s[n]
      BY <1>0, <2>1, <3>1 DEF Sound, Unlike
    <3>2. CASE n - Len(s) \in 1..Len(add) /\ all[n] = add[n - Len(s)]
      <4>1. s[m].id \in seeds
        BY <1>0, <2>1 DEF seeds
      <4> QED BY <1>4, <1>5, <2>1, <3>2, <4>1
    <3> QED BY <1>6, <3>1, <3>2
  <2>2. CASE m - Len(s) \in 1..Len(add) /\ all[m] = add[m - Len(s)]
    <3>1. CASE n \in 1..Len(s) /\ all[n] = s[n]
      <4>1. s[n].id \in seeds
        BY <1>0, <3>1 DEF seeds
      <4> QED BY <1>4, <1>5, <2>2, <3>1, <4>1
    <3>2. CASE n - Len(s) \in 1..Len(add) /\ all[n] = add[n - Len(s)]
      <4>1. m - Len(s) = n - Len(s)
        BY <1>3, <1>5, <2>2, <3>2 DEF Unlike
      <4>2. m \in Int /\ n \in Int
        BY <1>0, <1>5
      <4> QED BY <1>0, <4>1, <4>2
    <3> QED BY <1>6, <3>1, <3>2
  <2> QED BY <1>6, <2>1, <2>2
<1>10. k.order \in {"relevance", "recent", "oldest"} /\ k.limit \in Nat
  BY Numbers DEF QueryType
<1>11. r \in Seq(Result) /\ Unlike(r) /\ InOrder(k.order, r) /\ Range(r) = Range(all)
  BY <1>5, <1>9, <1>10, SortKeeps
<1> HIDE DEF r
<1>12. \A n \in DOMAIN r : r[n] \in Range(s) \/ r[n] \in Range(add)
  BY <1>8, <1>11 DEF Range
<1>13. Window(k, r)
  BY <1>3, <1>12 DEF Window, Range
<1>14. Alive(k, t, r)
  <2>1. \A x \in Range(s) : Holds(k, t, memories[x.id])
    BY DEF Alive, Range
  <2>2. ASSUME NEW x \in Range(add) PROVE Holds(k, t, memories[x.id])
    <3>1. memories[x.id].invalid = Never
      BY <1>4 DEF Range
    <3>2. Never > t
      BY Numbers
    <3> QED BY <3>1, <3>2 DEF Holds
  <2> QED BY <1>12, <2>1, <2>2 DEF Alive
<1>15. \A x \in Range(s) : x.via = None
  BY DEF Range
<1>16. \A x \in Range(add) : x.via # None
  BY <1>4 DEF Range
<1>17. PrimariesOf(r) = seeds
  <2>1. ASSUME NEW n \in DOMAIN r, r[n].via = None PROVE r[n].id \in seeds
    <3>1. r[n] \in Range(s)
      BY <1>12, <1>16, <2>1
    <3> QED BY <3>1 DEF Range, seeds
  <2>2. ASSUME NEW i \in seeds PROVE \E n \in DOMAIN r : r[n].via = None /\ r[n].id = i
    <3>1. PICK m \in DOMAIN s : i = s[m].id
      BY DEF seeds
    <3>2. s[m] \in Range(r)
      BY <1>8, <1>11, <3>1 DEF Range
    <3>3. PICK n \in DOMAIN r : s[m] = r[n]
      BY <3>2 DEF Range
    <3> QED BY <3>1, <3>3
  <2>3. \A i : i \in PrimariesOf(r) => i \in seeds
    BY <2>1 DEF PrimariesOf
  <2>4. \A i : i \in seeds => i \in PrimariesOf(r)
    BY <2>2 DEF PrimariesOf
  <2> QED BY <2>3, <2>4
<1>18. Enough(k, r, always, fault)
  BY <1>1, <1>17 DEF Enough
<1>19. Sound(k, r)
  <2>1. Cardinality(PrimariesOf(r)) <= k.limit
    BY <1>1, <1>17 DEF Sound
  <2>2. Cardinality(ExtrasOf(r)) <= maxExpand(k.limit)
    <3>1. PICK U \in SUBSET Ids : /\ Cardinality(U) <= maxExpand(k.limit)
                                 /\ \A n \in DOMAIN more : more[n].id \in U
      BY <1>2
    <3>2. ASSUME NEW n \in DOMAIN r, r[n].via # None PROVE r[n].id \in U
      <4>1. r[n] \in Range(add)
        BY <1>12, <1>15, <3>2
      <4>2. PICK m \in DOMAIN add : r[n] = add[m]
        BY <4>1 DEF Range
      <4>3. PICK l \in DOMAIN more : add[m] = more[l]
        BY <1>3
      <4> QED BY <3>1, <4>2, <4>3
    <3>3. ExtrasOf(r) \in SUBSET U
      BY <3>2 DEF ExtrasOf
    <3>4. ExtrasOf(r) \in SUBSET Ids
      BY <3>3
    <3>5. /\ Cardinality(ExtrasOf(r)) <= Cardinality(U) /\ Cardinality(ExtrasOf(r)) \in Nat
          /\ Cardinality(U) \in Nat
      BY <3>3, <3>4, FiniteRows, FS_Subset
    <3> QED BY <3>1, <3>5, Numbers
  <2>3. ASSUME NEW n \in DOMAIN r, r[n].via # None
        PROVE  \E i \in PrimariesOf(r) : r[n].via \in Shared(i, r[n].id)
    <3>1. r[n] \in Range(add)
      BY <1>12, <1>15, <2>3
    <3>2. PICK m \in DOMAIN add : r[n] = add[m]
      BY <3>1 DEF Range
    <3> QED BY <1>4, <1>17, <3>2
  <2> QED BY <1>11, <2>1, <2>2, <2>3 DEF Sound
<1> QED BY <1>11, <1>13, <1>14, <1>18, <1>19 DEF r, all, add

-----------------------------------------------------------------------------
(* What each variable holds.                                                *)

LEMMA EmptyGap == NoGap \in Gap /\ NoGap.hits = 0 /\ NoGap.status = "none"
  BY DEF NoGap, Gap

LEMMA TypedInit == Init => Typed
<1> SUFFICES ASSUME Init PROVE Typed
  OBVIOUS
<1>1. memories \in [Ids -> Row \cup {Absent}] /\ links \in Links /\ clock \in Time
  BY RetrievalAssumption DEF Init
<1>2. gaps \in [Gaps -> Gap] /\ \A g \in Gaps : gaps[g].hits = 0 <=> gaps[g] = NoGap
  BY EmptyGap DEF Init, Gaps
<1>3. 0 \in Time /\ 0 <= clock
  BY <1>1, RetrievalAssumption DEF Time
<1>4. <<>> \in Seq(Result)
  OBVIOUS
<1> QED BY <1>1, <1>2, <1>3, <1>4 DEF Init, Typed, Phases

\* What leaves the tables alone, and what leaves the requests alone.
LEMMA TypedRequests ==
    ASSUME Typed, UNCHANGED tables,
           pc' \in [Callers -> Phases], tx' \in [Callers -> {"none", "open", "aborted"}],
           q' \in [Callers -> Queries \cup {None}], \A c \in Callers : pc'[c] # "idle" => q'[c] \in Queries,
           pool' \in [Callers -> Seq(Result)], steady' \in [Callers -> SUBSET Ids],
           began' \in [Callers -> Time], \A c \in Callers : began'[c] <= clock,
           faulted' \in [Callers -> BOOLEAN]
    PROVE  Typed'
<1>1. /\ memories' = memories /\ links' = links /\ clock' = clock
      /\ bm25' = bm25 /\ gaps' = gaps /\ emptied' = emptied
  BY DEF tables
<1> QED BY <1>1 DEF Typed

LEMMA AskedTyped ==
    ASSUME Typed, NEW c \in Callers, Ask(c)
    PROVE  Typed'
<1>1. PICK k \in Queries :
        /\ q' = [q EXCEPT ![c] = k]
        /\ steady' = [steady EXCEPT ![c] = Matching(k) \cap (Embedded \cup IF bm25 THEN Tokenized ELSE {})]
  BY DEF Ask
<1>2. Matching(k) \in SUBSET Ids
  BY DEF Matching
<1>3. q' \in [Callers -> Queries \cup {None}] /\ \A d \in Callers : pc'[d] # "idle" => q'[d] \in Queries
  BY <1>1 DEF Typed, Ask
<1>4. steady' \in [Callers -> SUBSET Ids]
  BY <1>1, <1>2 DEF Typed
<1>5. UNCHANGED tables /\ pool' = pool /\ faulted' = faulted
  BY DEF Ask
<1>6. pc' \in [Callers -> Phases] /\ tx' \in [Callers -> {"none", "open", "aborted"}]
  BY DEF Typed, Ask, Phases
<1>7. began' \in [Callers -> Time] /\ \A d \in Callers : began'[d] <= clock
  <2>1. began' = [began EXCEPT ![c] = clock] /\ clock \in Time
    BY DEF Typed, Ask
  <2>2. clock <= clock
    BY <2>1, Numbers
  <2> QED BY <2>1, <2>2 DEF Typed
<1> QED BY <1>3, <1>4, <1>5, <1>6, <1>7, TypedRequests DEF Typed

\* A step of a request after its query.
LEMMA SteppedTyped ==
    ASSUME Typed, NEW c \in Callers, pc[c] # "idle", UNCHANGED <<tables, q, began, steady>>,
           NEW p \in Phases, pc' = [pc EXCEPT ![c] = p],
           tx' \in [Callers -> {"none", "open", "aborted"}],
           pool' \in [Callers -> Seq(Result)], faulted' \in [Callers -> BOOLEAN]
    PROVE  Typed'
<1>1. pc' \in [Callers -> Phases] /\ \A d \in Callers : pc'[d] # "idle" => pc[d] # "idle"
  BY DEF Typed
<1> QED BY <1>1, TypedRequests DEF Typed

\* What a query may return is a list of results.
LEMMA GotTyped ==
    ASSUME Typed, NEW k \in Queries, NEW s, s \in HybridPools(k) \/ s \in VectorPools(k)
    PROVE  Primary(s) \in Seq(Result)
<1>1. PICK S \in SUBSET Matching(k) : s \in Ranked(S, Least(PoolSize, k.limit))
  <2>1. {} \in SUBSET Ids /\ Steady(k, {})
    BY DEF Steady
  <2>2. CASE s \in HybridPools(k)
    BY <2>1, <2>2, HybridFinds
  <2>3. CASE s \in VectorPools(k)
    <3>1. PICK V \in AnyOf(Embedded, hnswEFSearch) :
            s \in Ranked(V \cap Important(k, Matching(k)), Least(PoolSize, k.limit))
      BY <2>3 DEF VectorPools
    <3> QED BY <3>1 DEF Important
  <2> QED BY <2>2, <2>3
<1>2. Least(PoolSize, k.limit) \in Nat /\ Least(PoolSize, k.limit) <= k.limit
  BY Numbers, LeastOf
<1>3. clock \in Time
  BY DEF Typed
<1> QED BY <1>1, <1>2, <1>3, GotPool

\* The table and the gaps, while the requests stay where they are.
LEMMA TablesTyped ==
    ASSUME Typed, UNCHANGED <<links, bm25, requests>>,
           memories' \in [Ids -> Row \cup {Absent}], clock' \in Time, clock <= clock',
           emptied' \subseteq Brains, steady' \in [Callers -> SUBSET Ids],
           gaps' \in [Gaps -> Gap], \A g \in Gaps : gaps'[g].hits = 0 <=> gaps'[g] = NoGap
    PROVE  Typed'
<1>1. /\ pc' = pc /\ q' = q /\ tx' = tx /\ pool' = pool /\ began' = began /\ faulted' = faulted
      /\ links' = links /\ bm25' = bm25
  BY DEF requests
<1>2. \A c \in Callers : began'[c] <= clock'
  <2>1. \A c \in Callers : began[c] \in Nat /\ began[c] <= clock /\ clock \in Nat /\ clock' \in Nat
    BY Numbers DEF Typed
  <2> QED BY <1>1, <2>1
<1> QED BY <1>1, <1>2 DEF Typed

LEMMA Ticks ==
    ASSUME Typed, clock < MaxClock, clock' = clock + 1
    PROVE  clock' \in Time /\ clock <= clock' /\ clock' > clock
<1>1. MaxClock \in Nat /\ clock \in 0..MaxClock
  BY RetrievalAssumption DEF Typed, Time
<1> QED BY <1>1 DEF Time

LEMMA SteadilyTyped ==
    ASSUME Typed, Steadily
    PROVE  steady' \in [Callers -> SUBSET Ids]
  BY DEF Typed, Steadily

\* How a change of the table may change a row: it comes, goes or ends after now,
\* and what it is found by stays.
Changes(row, new) ==
    /\ row = new \/ new.ns = None \/ new.invalid > clock
    /\ row # Absent => \/ new = Absent
                       \/ new.embedded = row.embedded /\ new.tokenized = row.tokenized

LEMMA RetainChanges ==
    ASSUME Typed, NEW i \in Ids, Retain(i)
    PROVE  Typed' /\ \A j \in Ids : Changes(memories[j], memories'[j])
<1>1. PICK row \in Arrivals : memories' = [memories EXCEPT ![i] = row]
  BY DEF Retain
<1>2. row \in Row /\ row.invalid = Never
  BY RetrievalAssumption
<1>3. memories' \in [Ids -> Row \cup {Absent}]
  BY <1>1, <1>2 DEF Typed
<1>4. clock' \in Time /\ clock <= clock'
  BY Ticks DEF Retain
<1>5. steady' \in [Callers -> SUBSET Ids]
  BY SteadilyTyped DEF Retain
<1>6. Typed'
  BY <1>3, <1>4, <1>5, TablesTyped DEF Retain, Typed
<1>7. ASSUME NEW j \in Ids PROVE Changes(memories[j], memories'[j])
  <2>1. CASE j = i
    <3>1. memories'[j] = row /\ memories[j] = Absent
      BY <1>1, <2>1 DEF Typed, Retain
    <3>2. Never > clock
      BY Numbers DEF Typed
    <3> QED BY <1>2, <3>1, <3>2 DEF Changes
  <2>2. CASE j # i
    <3>1. memories'[j] = memories[j]
      BY <1>1, <2>2 DEF Typed
    <3> QED BY <3>1 DEF Changes
  <2> QED BY <2>1, <2>2
<1> QED BY <1>6, <1>7

LEMMA InvalidateChanges ==
    ASSUME Typed, NEW i \in Ids, Invalidate(i)
    PROVE  Typed' /\ \A j \in Ids : Changes(memories[j], memories'[j])
<1>1. /\ memories' = [memories EXCEPT ![i].invalid = clock'] /\ memories[i] # Absent
      /\ clock < MaxClock /\ clock' = clock + 1 /\ Steadily
      /\ UNCHANGED <<links, bm25, gaps, emptied, requests>>
  BY DEF Invalidate
<1>2. clock' \in Time /\ clock <= clock' /\ clock' > clock
  BY <1>1, Ticks
<1>3. memories[i] \in Row
  BY <1>1 DEF Typed
<1> DEFINE row == [memories[i] EXCEPT !.invalid = clock']
<1>4. /\ row \in Row /\ row.invalid = clock' /\ row.embedded = memories[i].embedded
      /\ row.tokenized = memories[i].tokenized
  BY <1>2, <1>3 DEF Row
<1>5. memories' = [memories EXCEPT ![i] = row]
  BY <1>1 DEF Typed
<1> HIDE DEF row
<1>6. memories' \in [Ids -> Row \cup {Absent}]
  BY <1>4, <1>5 DEF Typed
<1>7. steady' \in [Callers -> SUBSET Ids]
  BY <1>1, SteadilyTyped
<1>8. Typed'
  BY <1>1, <1>2, <1>6, <1>7, TablesTyped DEF Typed
<1>9. ASSUME NEW j \in Ids PROVE Changes(memories[j], memories'[j])
  <2>1. CASE j = i
    <3>1. memories'[j] = row
      BY <1>5, <2>1 DEF Typed
    <3> QED BY <1>2, <1>4, <2>1, <3>1 DEF Changes
  <2>2. CASE j # i
    <3>1. memories'[j] = memories[j]
      BY <1>5, <2>2 DEF Typed
    <3> QED BY <3>1 DEF Changes
  <2> QED BY <2>1, <2>2
<1> QED BY <1>8, <1>9

LEMMA DeleteChanges ==
    ASSUME Typed, NEW ns \in Brains, DeleteBrain(ns)
    PROVE  Typed' /\ \A j \in Ids : Changes(memories[j], memories'[j])
<1>1. /\ memories' = [i \in Ids |-> IF memories[i].ns = ns THEN Absent ELSE memories[i]]
      /\ clock < MaxClock /\ clock' = clock + 1 /\ Steadily /\ emptied' = emptied \cup {ns}
      /\ UNCHANGED <<links, bm25, gaps, requests>>
  BY DEF DeleteBrain
<1>2. memories' \in [Ids -> Row \cup {Absent}]
  BY <1>1 DEF Typed
<1>3. clock' \in Time /\ clock <= clock'
  BY <1>1, Ticks
<1>4. steady' \in [Callers -> SUBSET Ids]
  BY <1>1, SteadilyTyped
<1>5. Typed'
  BY <1>1, <1>2, <1>3, <1>4, TablesTyped DEF Typed
<1>6. ASSUME NEW j \in Ids PROVE Changes(memories[j], memories'[j])
  <2>1. memories'[j] = Absent \/ memories'[j] = memories[j]
    BY <1>1
  <2>2. Absent.ns = None
    BY DEF Absent
  <2> QED BY <2>1, <2>2 DEF Changes
<1> QED BY <1>5, <1>6

LEMMA DeleteGapsTyped ==
    ASSUME Typed, NEW ns \in Brains, DeleteGaps(ns)
    PROVE  Typed'
<1>1. gaps' \in [Gaps -> Gap] /\ \A g \in Gaps : gaps'[g].hits = 0 <=> gaps'[g] = NoGap
  <2>1. CASE gaps' = [g \in DOMAIN gaps |-> IF g[1] = ns THEN NoGap ELSE gaps[g]]
    <3>1. DOMAIN gaps = Gaps
      BY DEF Typed
    <3>2. \A g \in Gaps : gaps'[g] = NoGap \/ gaps'[g] = gaps[g]
      BY <2>1, <3>1
    <3>3. gaps' = [g \in Gaps |-> gaps'[g]]
      BY <2>1, <3>1
    <3>4. \A g \in Gaps : gaps'[g] \in Gap
      BY <3>2, EmptyGap DEF Typed
    <3>5. \A g \in Gaps : gaps'[g].hits = 0 <=> gaps'[g] = NoGap
      BY <3>2, EmptyGap DEF Typed
    <3> QED BY <3>3, <3>4, <3>5
  <2>2. CASE UNCHANGED gaps
    BY <2>2 DEF Typed
  <2> QED BY <2>1, <2>2 DEF DeleteGaps
<1>2. emptied' \subseteq Brains
  BY DEF Typed, DeleteGaps
<1>3. /\ memories' = memories /\ clock' = clock /\ steady' = steady
      /\ UNCHANGED <<links, bm25, requests>>
  BY DEF DeleteGaps
<1>4. clock \in Time /\ clock <= clock
  BY Numbers DEF Typed
<1> QED BY <1>1, <1>2, <1>3, <1>4, TablesTyped DEF Typed

\* A gap that is changed keeps what a gap is.
LEMMA GapChanged ==
    ASSUME Typed, NEW g \in Gaps, NEW gap \in Gap, gap.hits # 0, gaps' = [gaps EXCEPT ![g] = gap]
    PROVE  gaps' \in [Gaps -> Gap] /\ \A h \in Gaps : gaps'[h].hits = 0 <=> gaps'[h] = NoGap
<1>1. gaps' \in [Gaps -> Gap]
  BY DEF Typed
<1>2. ASSUME NEW h \in Gaps PROVE gaps'[h].hits = 0 <=> gaps'[h] = NoGap
  <2>1. CASE h = g
    <3>1. gaps'[h] = gap
      BY <2>1 DEF Typed
    <3> QED BY <3>1, EmptyGap
  <2>2. CASE h # g
    <3>1. gaps'[h] = gaps[h]
      BY <2>2 DEF Typed
    <3> QED BY <3>1 DEF Typed
  <2> QED BY <2>1, <2>2
<1> QED BY <1>1, <1>2

LEMMA ResolveTyped ==
    ASSUME Typed, NEW g \in DOMAIN gaps, NEW status \in Resolutions, ResolveGap(g, status)
    PROVE  Typed'
<1>1. g \in Gaps /\ gaps[g] \in Gap
  BY DEF Typed
<1> DEFINE gap == [gaps[g] EXCEPT !.status = status]
<1>2. gap \in Gap /\ gap.hits = gaps[g].hits
  BY <1>1 DEF Gap
<1>3. gap.hits # 0
  BY <1>1, <1>2 DEF ResolveGap, Gap
<1>4. gaps' = [gaps EXCEPT ![g] = gap]
  BY <1>1 DEF ResolveGap, Typed
<1> HIDE DEF gap
<1>5. gaps' \in [Gaps -> Gap] /\ \A h \in Gaps : gaps'[h].hits = 0 <=> gaps'[h] = NoGap
  BY <1>1, <1>2, <1>3, <1>4, GapChanged
<1>6. /\ memories' = memories /\ clock' = clock /\ steady' = steady /\ emptied' = emptied
      /\ UNCHANGED <<links, bm25, requests>>
  BY DEF ResolveGap
<1>7. clock \in Time /\ clock <= clock
  BY Numbers DEF Typed
<1> QED BY <1>5, <1>6, <1>7, TablesTyped DEF Typed

LEMMA RecordTyped ==
    ASSUME Typed, NEW g \in Gaps, recordGap(g)
    PROVE  gaps' \in [Gaps -> Gap] /\ \A h \in Gaps : gaps'[h].hits = 0 <=> gaps'[h] = NoGap
<1>1. gaps[g] \in Gap
  BY DEF Typed
<1> DEFINE gap == [hits |-> gaps[g].hits + 1, status |-> IF gaps[g].hits = 0 THEN "open" ELSE gaps[g].status]
<1>2. gap \in Gap /\ gap.hits # 0
  BY <1>1 DEF Gap, Resolutions
<1>3. gaps' = [gaps EXCEPT ![g] = gap]
  BY DEF recordGap, Typed
<1> HIDE DEF gap
<1> QED BY <1>2, <1>3, GapChanged

LEMMA AnswerTyped ==
    ASSUME Typed, NEW c \in Callers, Answer(c)
    PROVE  Typed'
<1>1. /\ pc[c] = "answer" /\ pc' = [pc EXCEPT ![c] = "done"]
      /\ memories' = memories /\ links' = links /\ clock' = clock /\ bm25' = bm25 /\ emptied' = emptied
      /\ q' = q /\ tx' = tx /\ pool' = pool /\ began' = began /\ steady' = steady /\ faulted' = faulted
  BY DEF Answer
<1>2. q[c] \in Queries
  BY <1>1 DEF Typed
<1>3. q[c] \in QueryType
  BY <1>2, Numbers
<1>4. gaps' \in [Gaps -> Gap] /\ \A h \in Gaps : gaps'[h].hits = 0 <=> gaps'[h] = NoGap
  <2>1. CASE pool[c] = <<>>
    <3>1. PICK ns \in IF q[c].op = "recall" THEN q[c].brains ELSE {AllBrains} : recordGap(<<ns, q[c].text>>)
      BY <2>1 DEF Answer
    <3>2. ns \in Brains \cup {AllBrains} /\ q[c].text \in Texts
      BY <1>3, <3>1 DEF QueryType
    <3>3. <<ns, q[c].text>> \in Gaps
      BY <3>2 DEF Gaps
    <3> QED BY <3>1, <3>3, RecordTyped
  <2>2. CASE UNCHANGED gaps
    BY <2>2 DEF Typed
  <2> QED BY <2>1, <2>2 DEF Answer
<1>5. pc' \in [Callers -> Phases]
  BY <1>1 DEF Typed, Phases
<1> QED BY <1>1, <1>4, <1>5 DEF Typed

-----------------------------------------------------------------------------
(* The requests.                                                            *)

Request(c) == RequestInv(pc[c], q[c], tx[c], pool[c], began[c], steady[c], faulted[c])

\* The request of d is as it was.
Same(d) ==
    /\ pc'[d] = pc[d] /\ q'[d] = q[d] /\ tx'[d] = tx[d] /\ pool'[d] = pool[d]
    /\ began'[d] = began[d] /\ steady'[d] = steady[d] /\ faulted'[d] = faulted[d]

\* A request is as good as it was while the table is as it was.
LEMMA RequestStays ==
    ASSUME UNCHANGED <<memories, links, bm25>>, NEW p, NEW k, NEW t, NEW s, NEW asked, NEW always, NEW fault,
           RequestInv(p, k, t, s, asked, always, fault)
    PROVE  RequestInv(p, k, t, s, asked, always, fault)'
<1>1. memories' = memories /\ links' = links /\ bm25' = bm25
  OBVIOUS
<1>2. \A i, j : Shared(i, j)' = Shared(i, j)
  BY <1>1 DEF Shared
<1>3. Sound(k, s) => Sound(k, s)'
  BY <1>2 DEF Sound, PrimariesOf, ExtrasOf, Unlike, maxExpand
<1>4. /\ Window(k, s) => Window(k, s)'
      /\ Alive(k, asked, s) => Alive(k, asked, s)'
      /\ Enough(k, s, always, fault) => Enough(k, s, always, fault)'
      /\ InOrder(k.order, s) => InOrder(k.order, s)'
  BY <1>1 DEF Window, Alive, Holds, Enough, InOrder, PrimariesOf, InWindow, Least
<1>5. \A i : (Match(k, memories[i]) /\ Reachable(memories[i])) =>
              (Match(k, memories[i]) /\ Reachable(memories[i]))'
  BY <1>1 DEF Match, Reachable, InWindow, HeldTrue
<1> QED BY <1>1, <1>3, <1>4, <1>5 DEF RequestInv

LEMMA SameStays ==
    ASSUME UNCHANGED <<memories, links, bm25>>, NEW d \in Callers, Same(d), Request(d)
    PROVE  Request(d)'
<1>1. RequestInv(pc[d], q[d], tx[d], pool[d], began[d], steady[d], faulted[d])
  BY DEF Request
<1> QED BY <1>1, RequestStays DEF Request, Same

\* One request has moved, the others are as they were.
LEMMA OneMoves ==
    ASSUME Requests, UNCHANGED <<memories, links, bm25>>, NEW c \in Callers, Request(c)',
           \A d \in Callers : d # c => Same(d)
    PROVE  Requests'
<1>1. ASSUME NEW d \in Callers PROVE Request(d)'
  <2>1. Request(d)
    BY DEF Requests, Request
  <2> QED BY <2>1, SameStays
<1> QED BY <1>1 DEF Requests, Request

LEMMA AskedRequests ==
    ASSUME Typed, Requests, NEW c \in Callers, Ask(c)
    PROVE  Requests'
<1>1. PICK k \in Queries :
        /\ q' = [q EXCEPT ![c] = k]
        /\ steady' = [steady EXCEPT ![c] = Matching(k) \cap (Embedded \cup IF bm25 THEN Tokenized ELSE {})]
  BY DEF Ask
<1>2. /\ memories' = memories /\ links' = links /\ bm25' = bm25 /\ pool' = pool /\ faulted' = faulted
      /\ pc' = [pc EXCEPT ![c] = "hybrid"] /\ tx' = [tx EXCEPT ![c] = "open"]
      /\ began' = [began EXCEPT ![c] = clock]
  BY DEF Ask, tables
<1>3. pc'[c] = "hybrid" /\ q'[c] = k
      /\ steady'[c] = Matching(k) \cap (Embedded \cup IF bm25 THEN Tokenized ELSE {})
  BY <1>1, <1>2 DEF Typed
<1>4. \A i \in steady'[c] : Match(k, memories[i]) /\ Reachable(memories[i])
  BY <1>3 DEF Matching, Embedded, Tokenized, Reachable
<1>5. \A i \in steady'[c] : Match(q[c], memories[i])' /\ Reachable(memories[i])'
  BY <1>2, <1>3, <1>4 DEF Match, Reachable, InWindow, HeldTrue
<1>6. Request(c)'
  BY <1>3, <1>5 DEF Request, RequestInv
<1>7. \A d \in Callers : d # c => Same(d)
  BY <1>1, <1>2 DEF Same, Typed
<1> QED BY <1>2, <1>6, <1>7, OneMoves

\* What a query returns: the pool of a sound answer.
LEMMA GotRequests ==
    ASSUME Typed, Requests, NEW c \in Callers, NEW pools, Got(c, pools), pc[c] \in {"hybrid", "vector"},
           q[c] \in Queries, (pc[c] = "vector" /\ ~ faulted[c]) => ~ bm25,
           pools = HybridPools(q[c]) \/ (pools = VectorPools(q[c]) /\ pc[c] = "vector")
    PROVE  Typed' /\ Requests'
<1> DEFINE k == q[c]
           always == steady[c]
           fault == faulted[c]
           t == began[c]
<1>1. PICK s \in pools : pool' = [pool EXCEPT ![c] = Primary(s)]
  BY DEF Got
<1>2. /\ memories' = memories /\ links' = links /\ bm25' = bm25 /\ UNCHANGED <<tables, q, began, steady, faulted>>
      /\ pc' = [pc EXCEPT ![c] = "expand"] /\ tx' = [tx EXCEPT ![c] = "none"]
      /\ q' = q /\ began' = began /\ steady' = steady /\ faulted' = faulted
  BY DEF Got, tables
<1>3. always \in SUBSET Ids /\ t \in Time /\ Steady(k, always)
  BY DEF Typed, Requests, RequestInv, Steady
<1>4. PICK S \in SUBSET Matching(k) :
        /\ s \in Ranked(S, Least(PoolSize, k.limit))
        /\ ~ fault /\ ~ k.important /\ Cardinality(Ids) <= EfSearch => Serves(k, S, always)
  <2>1. CASE s \in HybridPools(k)
    <3> HIDE DEF k, always
    <3>1. k \in Queries
      BY DEF k
    <3> QED BY <1>3, <2>1, <3>1, HybridFinds
  <2>2. CASE s \in VectorPools(k) /\ pc[c] = "vector"
    <3>1. CASE fault
      <4>1. PICK V \in AnyOf(Embedded, hnswEFSearch) :
              s \in Ranked(V \cap Important(k, Matching(k)), Least(PoolSize, k.limit))
        BY <2>2 DEF VectorPools
      <4>2. V \cap Important(k, Matching(k)) \in SUBSET Matching(k)
        BY DEF Important
      <4> QED BY <3>1, <4>1, <4>2
    <3>2. CASE ~ fault
      <4>1. ~ bm25 /\ k \in Queries
        BY <2>2, <3>2
      <4> HIDE DEF k, always, fault
      <4> QED BY <1>3, <2>2, <4>1, VectorFinds
    <3> QED BY <3>1, <3>2
  <2> QED BY <1>1, <2>1, <2>2
<1> DEFINE p == Primary(s)
           n == Least(PoolSize, k.limit)
<1>5. n \in Nat /\ n <= k.limit
  BY Numbers, LeastOf
<1>6. /\ p \in Seq(Result)
      /\ \A i \in DOMAIN p : p[i].via = None
      /\ Window(k, p) /\ Alive(k, t, p) /\ Sound(k, p)
      /\ Cardinality(PrimariesOf(p)) = Least(n, Cardinality(S))
  <2> HIDE DEF k, n, t
  <2>1. k \in Queries
    BY DEF k
  <2> QED BY <1>3, <1>4, <1>5, <2>1, GotPool DEF n
<1>7. Enough(k, p, always, fault)
  <2> HIDE DEF p, k, always, fault
  <2>1. S \in SUBSET Ids
    BY DEF Matching
  <2>2. k \in Queries
    BY DEF k
  <2>3. Cardinality(S) \in Nat /\ Cardinality(always) \in Nat /\ PoolSize \in Nat /\ k.limit \in Nat
    BY <1>3, <2>1, <2>2, FiniteRows, Numbers
  <2>4. Serves(k, S, always) =>
          Cardinality(PrimariesOf(p)) >= Least(Least(k.limit, PoolSize), Cardinality(always))
    BY <1>6, <2>3 DEF Serves, Least
  <2> QED BY <1>4, <2>4 DEF Enough
<1>8. Typed'
  <2>1. pool' \in [Callers -> Seq(Result)]
    BY <1>1, <1>6 DEF Typed
  <2>2. tx' \in [Callers -> {"none", "open", "aborted"}] /\ faulted' \in [Callers -> BOOLEAN]
    BY <1>2 DEF Typed
  <2>3. "expand" \in Phases /\ pc[c] # "idle"
    BY DEF Phases
  <2> QED BY <1>2, <2>1, <2>2, <2>3, SteppedTyped
<1>9. Request(c)'
  <2> DEFINE u == tx'[c]
  <2>1. RequestInv("expand", k, u, p, t, always, fault)
    <3> HIDE DEF k, p, t, always, fault, u
    <3> QED BY <1>6, <1>7 DEF RequestInv
  <2>2. pool'[c] = p /\ pc'[c] = "expand"
    BY <1>1, <1>2 DEF Typed
  <2> HIDE DEF p, u
  <2> QED BY <1>2, <2>1, <2>2, RequestStays DEF Request, u
<1>10. \A d \in Callers : d # c => Same(d)
  BY <1>1, <1>2 DEF Same, Typed
<1> QED BY <1>2, <1>8, <1>9, <1>10, OneMoves

LEMMA FaultRequests ==
    ASSUME Typed, Requests, NEW c \in Callers, Fault(c)
    PROVE  Typed' /\ Requests'
<1>1. /\ pc[c] \in {"hybrid", "vector"} /\ UNCHANGED <<tables, q, began, steady>>
      /\ memories' = memories /\ links' = links /\ bm25' = bm25
      /\ pc' = [pc EXCEPT ![c] = "failed"] /\ faulted' = [faulted EXCEPT ![c] = TRUE]
      /\ q' = q /\ tx' = tx /\ pool' = pool /\ began' = began /\ steady' = steady
  BY DEF Fault, tables
<1>2. Typed'
  <2>1. pool' \in [Callers -> Seq(Result)] /\ faulted' \in [Callers -> BOOLEAN]
        /\ tx' \in [Callers -> {"none", "open", "aborted"}]
    BY <1>1 DEF Typed
  <2>2. "failed" \in Phases /\ pc[c] # "idle"
    BY <1>1 DEF Phases
  <2> QED BY <1>1, <2>1, <2>2, SteppedTyped
<1>3. pc'[c] = "failed" /\ faulted'[c]
  BY <1>1 DEF Typed
<1>4. Request(c)'
  BY <1>3 DEF Request, RequestInv
<1>5. \A d \in Callers : d # c => Same(d)
  BY <1>1 DEF Same, Typed
<1> QED BY <1>1, <1>2, <1>4, <1>5, OneMoves

LEMMA HybridErrorRequests ==
    ASSUME Typed, Requests, NEW c \in Callers, HybridError(c)
    PROVE  Typed' /\ Requests'
<1>1. /\ pc[c] = "hybrid" /\ UNCHANGED <<tables, q, began, steady>>
      /\ memories' = memories /\ links' = links /\ bm25' = bm25
      /\ pc' = [pc EXCEPT ![c] = "vector"] /\ faulted' = [faulted EXCEPT ![c] = bm25]
      /\ tx' = [tx EXCEPT ![c] = IF q[c].op = "recall" THEN "open" ELSE "aborted"]
      /\ q' = q /\ pool' = pool /\ began' = began /\ steady' = steady
  BY DEF HybridError, tables
<1>2. Typed'
  <2>1. pool' \in [Callers -> Seq(Result)] /\ faulted' \in [Callers -> BOOLEAN]
        /\ tx' \in [Callers -> {"none", "open", "aborted"}]
    BY <1>1 DEF Typed
  <2>2. "vector" \in Phases /\ pc[c] # "idle"
    BY <1>1 DEF Phases
  <2> QED BY <1>1, <2>1, <2>2, SteppedTyped
<1>3. /\ pc'[c] = "vector" /\ faulted'[c] = bm25 /\ q'[c] = q[c] /\ steady'[c] = steady[c]
      /\ q'[c].op = "recall" => tx'[c] = "open"
  BY <1>1 DEF Typed
<1>4. \A i \in steady[c] : Match(q[c], memories[i]) /\ Reachable(memories[i])
  BY <1>1 DEF Requests, RequestInv
<1>5. \A i \in steady'[c] : Match(q[c], memories[i])' /\ Reachable(memories[i])'
  BY <1>1, <1>4 DEF Match, Reachable, InWindow, HeldTrue
<1>6. Request(c)'
  BY <1>1, <1>3, <1>5 DEF Request, RequestInv
<1>7. \A d \in Callers : d # c => Same(d)
  BY <1>1 DEF Same, Typed
<1> QED BY <1>1, <1>2, <1>6, <1>7, OneMoves

LEMMA VectorRefusedRequests ==
    ASSUME Typed, Requests, NEW c \in Callers, VectorRefused(c)
    PROVE  Typed' /\ Requests'
<1>1. /\ pc[c] = "vector" /\ tx[c] = "aborted" /\ UNCHANGED <<tables, q, began, steady>>
      /\ memories' = memories /\ links' = links /\ bm25' = bm25
      /\ pc' = [pc EXCEPT ![c] = "failed"] /\ faulted' = faulted
      /\ q' = q /\ tx' = tx /\ pool' = pool /\ began' = began /\ steady' = steady
  BY DEF VectorRefused, tables
<1>2. Typed'
  <2>1. pool' \in [Callers -> Seq(Result)] /\ faulted' \in [Callers -> BOOLEAN]
        /\ tx' \in [Callers -> {"none", "open", "aborted"}]
    BY <1>1 DEF Typed
  <2>2. "failed" \in Phases /\ pc[c] # "idle"
    BY <1>1 DEF Phases
  <2> QED BY <1>1, <2>1, <2>2, SteppedTyped
<1>3. pc'[c] = "failed" /\ q[c].op # "recall"
  BY <1>1 DEF Typed, Requests, RequestInv
<1>4. Request(c)'
  BY <1>1, <1>3 DEF Request, RequestInv
<1>5. \A d \in Callers : d # c => Same(d)
  BY <1>1 DEF Same, Typed
<1> QED BY <1>1, <1>2, <1>4, <1>5, OneMoves

LEMMA ExpandRequests ==
    ASSUME Typed, Requests, NEW c \in Callers, Expand(c)
    PROVE  Typed' /\ Requests'
<1> DEFINE k == q[c]
           s == pool[c]
           t == began[c]
           always == steady[c]
           fault == faulted[c]
           seeds == {s[n].id : n \in DOMAIN s}
<1>1. /\ pc[c] = "expand" /\ UNCHANGED <<tables, q, began, steady>>
      /\ memories' = memories /\ links' = links /\ bm25' = bm25
      /\ pc' = [pc EXCEPT ![c] = "answer"] /\ faulted' = faulted
      /\ q' = q /\ tx' = tx /\ began' = began /\ steady' = steady
  BY DEF Expand, tables
<1>2. PICK more \in {<<>>} \cup IF k.expand THEN expandEntities(k, seeds) ELSE {} :
        pool' = [pool EXCEPT ![c] = sortByValidAt(k.order, pool[c] \o filterTemporal(k, more))]
  BY DEF Expand
<1>3. more = <<>> \/ more \in expandEntities(k, seeds)
  BY <1>2
<1>4. /\ k \in Queries /\ s \in Seq(Result) /\ t \in Time
      /\ \A n \in DOMAIN s : s[n].via = None
      /\ Window(k, s) /\ Alive(k, t, s) /\ Sound(k, s) /\ Enough(k, s, always, fault)
  BY <1>1 DEF Typed, Requests, RequestInv
<1> DEFINE r == sortByValidAt(k.order, s \o filterTemporal(k, more))
<1>5. pool' = [pool EXCEPT ![c] = r]
  BY <1>2
<1>6. /\ r \in Seq(Result)
      /\ Window(k, r) /\ Alive(k, t, r) /\ Sound(k, r) /\ Enough(k, r, always, fault)
      /\ InOrder(k.order, r)
  <2> HIDE DEF k, s, t, always, fault
  <2> QED BY <1>3, <1>4, ExpandedPool
<1> HIDE DEF r
<1>7. Typed'
  <2>1. pool' \in [Callers -> Seq(Result)] /\ faulted' \in [Callers -> BOOLEAN]
        /\ tx' \in [Callers -> {"none", "open", "aborted"}]
    BY <1>1, <1>5, <1>6 DEF Typed
  <2>2. "answer" \in Phases /\ pc[c] # "idle"
    BY <1>1 DEF Phases
  <2> QED BY <1>1, <2>1, <2>2, SteppedTyped
<1>8. Request(c)'
  <2>1. RequestInv("answer", k, tx[c], r, t, always, fault)
    <3> HIDE DEF k, s, t, always, fault
    <3> QED BY <1>6 DEF RequestInv
  <2>2. pool'[c] = r /\ pc'[c] = "answer"
    BY <1>1, <1>5 DEF Typed
  <2> QED BY <1>1, <2>1, <2>2, RequestStays DEF Request
<1>9. \A d \in Callers : d # c => Same(d)
  BY <1>1, <1>5 DEF Same, Typed
<1> QED BY <1>1, <1>7, <1>8, <1>9, OneMoves

LEMMA AnswerRequests ==
    ASSUME Typed, Requests, NEW c \in Callers, Answer(c)
    PROVE  Typed' /\ Requests'
<1>1. /\ pc[c] = "answer" /\ memories' = memories /\ links' = links /\ bm25' = bm25
      /\ pc' = [pc EXCEPT ![c] = "done"] /\ faulted' = faulted
      /\ q' = q /\ tx' = tx /\ pool' = pool /\ began' = began /\ steady' = steady
  BY DEF Answer
<1>2. Typed'
  BY AnswerTyped
<1>3. RequestInv("done", q[c], tx[c], pool[c], began[c], steady[c], faulted[c])
  BY <1>1 DEF Requests, RequestInv
<1>4. pc'[c] = "done"
  BY <1>1 DEF Typed
<1>5. Request(c)'
  BY <1>1, <1>3, <1>4, RequestStays DEF Request
<1>6. \A d \in Callers : d # c => Same(d)
  BY <1>1 DEF Same, Typed
<1> QED BY <1>1, <1>2, <1>5, <1>6, OneMoves

\* A change of the table, under a request.
LEMMA RequestKept ==
    ASSUME Typed, Typed', links' = links, bm25' = bm25, \A j \in Ids : Changes(memories[j], memories'[j]),
           NEW p, NEW k \in Queries, NEW tr, NEW s \in Seq(Result), NEW t \in Time, t <= clock,
           NEW always \in SUBSET Ids, NEW still \in SUBSET always, \A i \in still : Match(k, memories'[i]),
           NEW fault, RequestInv(p, k, tr, s, t, always, fault)
    PROVE  RequestInv(p, k, tr, s, t, still, fault)'
<1>1. links' = links /\ bm25' = bm25
  OBVIOUS
<1>2. \A n \in DOMAIN s : s[n].id \in Ids
  <2>1. \A n \in DOMAIN s : s[n] \in Result
    OBVIOUS
  <2> QED BY <2>1 DEF Result
<1>3. Alive(k, t, s) => Alive(k, t, s)'
  <2> SUFFICES ASSUME Alive(k, t, s), NEW n \in DOMAIN s PROVE Holds(k, t, memories'[s[n].id])
    BY DEF Alive, Holds
  <2>1. Holds(k, t, memories[s[n].id])
    BY DEF Alive
  <2>2. s[n].id \in Ids /\ Changes(memories[s[n].id], memories'[s[n].id])
    BY <1>2
  <2>3. t \in Nat /\ clock \in Nat
    BY Numbers DEF Typed
  <2>4. memories'[s[n].id].invalid > clock => Holds(k, t, memories'[s[n].id])
    <3>1. CASE memories'[s[n].id] = Absent
      BY <3>1 DEF Holds, Absent
    <3>2. CASE memories'[s[n].id] # Absent
      <4>1. memories'[s[n].id] \in Row
        BY <1>2, <3>2 DEF Typed
      <4>2. memories'[s[n].id].invalid \in Time \cup {Never}
        BY <4>1 DEF Row
      <4>3. memories'[s[n].id].invalid \in Nat
        BY <4>2, Numbers
      <4> QED BY <2>3, <4>3 DEF Holds
    <3> QED BY <3>1, <3>2
  <2> QED BY <2>1, <2>2, <2>4 DEF Changes, Holds
<1>4. (p \in {"hybrid", "vector"} => \A i \in always : Match(k, memories[i]) /\ Reachable(memories[i]))
        => (p \in {"hybrid", "vector"} => \A i \in still : Match(k, memories'[i]) /\ Reachable(memories[i])')
  <2> SUFFICES ASSUME NEW i \in still, Match(k, memories[i]), Reachable(memories[i])
               PROVE  Match(k, memories'[i]) /\ Reachable(memories[i])'
    OBVIOUS
  <2>1. Match(k, memories'[i])
    OBVIOUS
  <2>2. memories[i] # Absent /\ memories'[i] # Absent
    BY <2>1 DEF Match
  <2>3. Changes(memories[i], memories'[i])
    OBVIOUS
  <2> QED BY <1>1, <2>1, <2>2, <2>3 DEF Changes, Reachable
<1>5. Enough(k, s, always, fault) => Enough(k, s, still, fault)
  <2>1. /\ Cardinality(still) \in Nat /\ Cardinality(always) \in Nat
        /\ Cardinality(still) <= Cardinality(always)
    BY FiniteRows, FS_Subset
  <2>2. PrimariesOf(s) \in SUBSET Ids
    BY <1>2 DEF PrimariesOf
  <2>3. Cardinality(PrimariesOf(s)) \in Nat /\ PoolSize \in Nat /\ k.limit \in Nat
    BY <2>2, FiniteRows, Numbers
  <2>4. Least(Least(k.limit, PoolSize), Cardinality(still)) <= Least(Least(k.limit, PoolSize), Cardinality(always))
    BY <2>1, <2>3 DEF Least
  <2>5. /\ Least(Least(k.limit, PoolSize), Cardinality(still)) \in Nat
        /\ Least(Least(k.limit, PoolSize), Cardinality(always)) \in Nat
    BY <2>1, <2>3 DEF Least
  <2> QED BY <2>3, <2>4, <2>5 DEF Enough
<1>6. /\ Window(k, s) => Window(k, s)'
      /\ Enough(k, s, still, fault) => Enough(k, s, still, fault)'
      /\ InOrder(k.order, s) => InOrder(k.order, s)'
  BY DEF Window, Enough, InOrder, PrimariesOf, InWindow, Least
<1>7. Sound(k, s) => Sound(k, s)'
  <2>1. \A i, j : Shared(i, j)' = Shared(i, j)
    BY <1>1 DEF Shared
  <2> QED BY <2>1 DEF Sound, PrimariesOf, ExtrasOf, Unlike, maxExpand
<1>8. \A i : Match(k, memories'[i]) => Match(k, memories[i])'
  BY DEF Match, InWindow, HeldTrue
<1> QED
  BY <1>1, <1>3, <1>4, <1>5, <1>6, <1>7, <1>8 DEF RequestInv

\* A change of the table, under every request.
LEMMA ChangedRequests ==
    ASSUME Typed, Typed', Requests, UNCHANGED <<links, bm25, requests>>, Steadily,
           \A j \in Ids : Changes(memories[j], memories'[j])
    PROVE  Requests'
<1>1. /\ pc' = pc /\ q' = q /\ tx' = tx /\ pool' = pool /\ began' = began /\ faulted' = faulted
      /\ links' = links /\ bm25' = bm25
  BY DEF requests
<1> SUFFICES ASSUME NEW c \in Callers PROVE Request(c)'
  BY DEF Requests, Request
<1>2. steady'[c] = {i \in steady[c] : pc[c] # "idle" /\ Match(q[c], memories'[i])}
  BY DEF Steadily
<1>3. CASE pc[c] = "idle"
  BY <1>1, <1>3 DEF Request, RequestInv
<1>4. CASE pc[c] # "idle"
  <2>1. RequestInv(pc[c], q[c], tx[c], pool[c], began[c], steady[c], faulted[c])
    BY DEF Requests
  <2>2. /\ steady[c] \in SUBSET Ids /\ pool[c] \in Seq(Result) /\ began[c] \in Time
        /\ began[c] <= clock /\ q[c] \in Queries
    BY <1>4 DEF Typed
  <2>3. steady'[c] \in SUBSET steady[c] /\ \A i \in steady'[c] : Match(q[c], memories'[i])
    BY <1>2
  <2>4. PICK still : still = steady'[c]
    OBVIOUS
  <2> QED BY <1>1, <2>1, <2>2, <2>3, <2>4, RequestKept DEF Request
<1> QED BY <1>3, <1>4

-----------------------------------------------------------------------------
(* The invariant holds, and what follows.                                   *)

LEMMA InvInit == Init => RetrievalInv
<1> SUFFICES ASSUME Init PROVE Typed /\ Requests
  BY DEF RetrievalInv
<1>1. Typed
  BY TypedInit
<1>2. \A c \in Callers : pc[c] = "idle"
  BY DEF Init
<1>3. Requests
  BY <1>2 DEF Requests, RequestInv
<1> QED BY <1>1, <1>3

LEMMA InvNext == RetrievalInv /\ [Next]_vars => RetrievalInv'
<1> SUFFICES ASSUME Typed, Requests, [Next]_vars PROVE Typed' /\ Requests'
  BY DEF RetrievalInv
<1>1. ASSUME NEW c \in Callers, Ask(c) PROVE Typed' /\ Requests'
  BY <1>1, AskedTyped, AskedRequests
<1>2. ASSUME NEW c \in Callers, Fault(c) PROVE Typed' /\ Requests'
  BY <1>2, FaultRequests
<1>3. ASSUME NEW c \in Callers, Hybrid(c) PROVE Typed' /\ Requests'
  <2>1. pc[c] = "hybrid" /\ q[c] \in Queries /\ Got(c, HybridPools(q[c]))
    BY <1>3 DEF Hybrid, Typed
  <2> QED BY <2>1, GotRequests
<1>4. ASSUME NEW c \in Callers, HybridError(c) PROVE Typed' /\ Requests'
  BY <1>4, HybridErrorRequests
<1>5. ASSUME NEW c \in Callers, Vector(c) PROVE Typed' /\ Requests'
  <2>1. pc[c] = "vector" /\ q[c] \in Queries /\ Got(c, VectorPools(q[c]))
    BY <1>5 DEF Vector, Typed
  <2>2. ~ faulted[c] => ~ bm25
    BY <2>1 DEF Requests, RequestInv
  <2> QED BY <2>1, <2>2, GotRequests
<1>6. ASSUME NEW c \in Callers, VectorRefused(c) PROVE Typed' /\ Requests'
  BY <1>6, VectorRefusedRequests
<1>7. ASSUME NEW c \in Callers, Expand(c) PROVE Typed' /\ Requests'
  BY <1>7, ExpandRequests
<1>8. ASSUME NEW c \in Callers, Answer(c) PROVE Typed' /\ Requests'
  BY <1>8, AnswerRequests
<1>9. ASSUME NEW i \in Ids, Retain(i) PROVE Typed' /\ Requests'
  <2>1. UNCHANGED <<links, bm25, requests>> /\ Steadily
    BY <1>9 DEF Retain
  <2> QED BY <1>9, <2>1, RetainChanges, ChangedRequests
<1>10. ASSUME NEW i \in Ids, Invalidate(i) PROVE Typed' /\ Requests'
  <2>1. UNCHANGED <<links, bm25, requests>> /\ Steadily
    BY <1>10 DEF Invalidate
  <2> QED BY <1>10, <2>1, InvalidateChanges, ChangedRequests
<1>11. ASSUME NEW ns \in Brains, DeleteBrain(ns) PROVE Typed' /\ Requests'
  <2>1. UNCHANGED <<links, bm25, requests>> /\ Steadily
    BY <1>11 DEF DeleteBrain
  <2> QED BY <1>11, <2>1, DeleteChanges, ChangedRequests
<1>12. ASSUME UNCHANGED <<memories, links, bm25, requests, steady>> PROVE Requests'
  <2>1. \A c \in Callers : Same(c)
    BY <1>12 DEF Same, requests
  <2>2. \A c \in Callers : Request(c)'
    BY <1>12, <2>1, SameStays DEF Requests, Request
  <2> QED BY <2>2 DEF Requests, Request
<1>13. ASSUME NEW ns \in Brains, DeleteGaps(ns) PROVE Typed' /\ Requests'
  <2>1. UNCHANGED <<memories, links, bm25, requests, steady>>
    BY <1>13 DEF DeleteGaps
  <2> QED BY <1>12, <1>13, <2>1, DeleteGapsTyped
<1>14. ASSUME NEW g \in DOMAIN gaps, NEW status \in Resolutions, ResolveGap(g, status)
       PROVE  Typed' /\ Requests'
  <2>1. UNCHANGED <<memories, links, bm25, requests, steady>>
    BY <1>14 DEF ResolveGap
  <2> QED BY <1>12, <1>14, <2>1, ResolveTyped
<1>15. CASE UNCHANGED vars
  <2>1. UNCHANGED <<memories, links, bm25, requests, steady>>
    BY <1>15 DEF vars, tables
  <2>2. Typed'
    BY <1>15 DEF vars, tables, requests, Typed
  <2> QED BY <1>12, <2>1, <2>2
<1> QED
  BY <1>1, <1>2, <1>3, <1>4, <1>5, <1>6, <1>7, <1>8, <1>9, <1>10, <1>11, <1>13, <1>14, <1>15
  DEF Next

LEMMA InvHolds == Spec => []RetrievalInv
  BY InvInit, InvNext, PTL DEF Spec

\* Each variable holds what it is meant to, and a gap has been counted or is none
\* (recordGap, store.go Recall).
THEOREM RetrievalTypeCorrect == Spec => []TypeOK
<1>1. RetrievalInv => TypeOK
  BY DEF RetrievalInv, Typed, TypeOK
<1> QED BY <1>1, InvHolds, PTL

\* Whatever is retired, retained or deleted between the two reads of a recall,
\* nothing in its answer had been retired when it was asked (invalid_at IS NULL).
THEOREM AnswersHeldTrue == Spec => []TrueWhenAsked
<1>1. RetrievalInv => TrueWhenAsked
  <2> SUFFICES ASSUME Requests, NEW c \in Callers, pc[c] = "done"
               PROVE  Alive(q[c], began[c], pool[c])
    BY DEF RetrievalInv, TrueWhenAsked, Answered, Alive, Holds
  <2> QED BY DEF Requests, RequestInv
<1> QED BY <1>1, InvHolds, PTL

\* An answer is in the window and the order asked for, its expansion sound and
\* within its limit (filterTemporal, sortByValidAt, expandEntities).
THEOREM AnswersAreFit == Spec => []AnswersFit
<1>1. RetrievalInv => AnswersFit
  <2> SUFFICES ASSUME Requests, NEW c \in Callers, pc[c] = "done"
               PROVE  WithinWindow(c) /\ ExpansionSound(c) /\ InTimeOrder(c)
    BY DEF RetrievalInv, AnswersFit, Answered
  <2>1. Window(q[c], pool[c]) /\ Sound(q[c], pool[c]) /\ InOrder(q[c].order, pool[c])
    BY DEF Requests, RequestInv
  <2>2. WithinWindow(c) /\ InTimeOrder(c)
    BY <2>1 DEF WithinWindow, Window, InTimeOrder, InOrder
  <2>3. ExpansionSound(c)
    <3>1. Primaries(c) = PrimariesOf(pool[c]) /\ Extras(c) = ExtrasOf(pool[c])
      BY DEF Primaries, PrimariesOf, Extras, ExtrasOf
    <3> QED BY <2>1, <3>1 DEF ExpansionSound, Sound, Unlike
  <2> QED BY <2>2, <2>3
<1> QED BY <1>1, InvHolds, PTL

\* While the index scan may look at every row a question whose answer exists gets
\* as much of it as it may, and no recall is refused because the BM25 layer is
\* absent (hnswEFSearch, recallPool).
THEOREM AnswersAreFound == Spec => []FindsWhatIsThere
<1>1. RetrievalInv => FindsWhatIsThere
  <2> SUFFICES ASSUME Requests
               PROVE  /\ Refused("recall") = {}
                      /\ \A c \in Callers : pc[c] = "done" => Enough(q[c], pool[c], steady[c], faulted[c])
    BY DEF RetrievalInv, FindsWhatIsThere, Answered, Enough, Primaries, PrimariesOf
  <2>1. Refused("recall") = {}
    BY DEF Requests, RequestInv, Refused
  <2>2. \A c \in Callers : pc[c] = "done" => Enough(q[c], pool[c], steady[c], faulted[c])
    BY DEF Requests, RequestInv
  <2> QED BY <2>1, <2>2
<1> QED BY <1>1, InvHolds, PTL

\* A question that was dismissed is not open again because it was asked again
\* (recordGap, ON CONFLICT).
THEOREM DismissalsLast == Spec => DismissedStays
<1> DEFINE Kept == \A g \in DOMAIN gaps :
             gaps[g].status = "dismissed" /\ gaps'[g].hits > gaps[g].hits => gaps'[g].status = "dismissed"
<1>1. ASSUME Typed, Next PROVE Kept
  <2> SUFFICES ASSUME NEW g \in Gaps, gaps[g].status = "dismissed", gaps'[g].hits > gaps[g].hits
               PROVE  gaps'[g].status = "dismissed"
    BY <1>1 DEF Typed
  <2>1. gaps[g] \in Gap /\ gaps[g].hits \in Nat /\ gaps[g].hits # 0 /\ DOMAIN gaps = Gaps
    BY <1>1, EmptyGap DEF Typed, Gap
  <2>2. CASE gaps' = gaps
    BY <2>1, <2>2
  <2>3. ASSUME NEW h, recordGap(h) PROVE gaps'[g].status = "dismissed"
    <3>1. gaps' = [gaps EXCEPT ![h] = [hits |-> gaps[h].hits + 1,
                                       status |-> IF gaps[h].hits = 0 THEN "open" ELSE gaps[h].status]]
      BY <2>3 DEF recordGap
    <3> QED BY <2>1, <3>1
  <2>4. ASSUME NEW c \in Callers, Answer(c) PROVE gaps'[g].status = "dismissed"
    BY <2>2, <2>3, <2>4 DEF Answer
  <2>5. ASSUME NEW ns \in Brains, DeleteGaps(ns) PROVE gaps'[g].status = "dismissed"
    <3>1. gaps'[g] = NoGap \/ gaps'[g] = gaps[g]
      BY <2>1, <2>5 DEF DeleteGaps
    <3> QED BY <2>1, <3>1, EmptyGap
  <2>6. ASSUME NEW h \in DOMAIN gaps, NEW status \in Resolutions, ResolveGap(h, status)
        PROVE  gaps'[g].status = "dismissed"
    <3>1. gaps' = [gaps EXCEPT ![h] = [gaps[h] EXCEPT !.status = status]]
      BY <2>6 DEF ResolveGap
    <3>2. gaps[h] \in Gap
      BY <1>1, <2>1, <2>6 DEF Typed
    <3>3. gaps'[g].hits = gaps[g].hits
      BY <2>1, <3>1, <3>2 DEF Gap
    <3> QED BY <2>1, <3>3
  <2>7. ASSUME NEW c \in Callers,
               Ask(c) \/ Fault(c) \/ Hybrid(c) \/ HybridError(c) \/ Vector(c) \/ VectorRefused(c) \/ Expand(c)
        PROVE  gaps' = gaps
    BY <2>7 DEF Ask, Fault, Hybrid, HybridError, Vector, VectorRefused, Expand, Got, tables
  <2>8. ASSUME NEW i \in Ids, Retain(i) \/ Invalidate(i) PROVE gaps' = gaps
    BY <2>8 DEF Retain, Invalidate
  <2>9. ASSUME NEW ns \in Brains, DeleteBrain(ns) PROVE gaps' = gaps
    BY <2>9 DEF DeleteBrain
  <2> QED BY <1>1, <2>2, <2>4, <2>5, <2>6, <2>7, <2>8, <2>9 DEF Next
<1>2. RetrievalInv /\ [Next]_vars => [Kept]_vars
  BY <1>1 DEF RetrievalInv
<1> QED BY <1>2, InvHolds, PTL DEF Spec, DismissedStays
====
