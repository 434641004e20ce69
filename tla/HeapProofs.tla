----------------------------- MODULE HeapProofs -----------------------------
(***************************************************************************)
(* Theorems about the heap of module Heap, for a heap of any size and for  *)
(* requests and alignments of any size: no word is lost or handed out      *)
(* twice, the free list is merged as far as it can be, and the allocator   *)
(* keeps the promise of HeapPromise.                                       *)
(***************************************************************************)
EXTENDS Heap, FiniteSetTheorems, NaturalsInduction, WellFoundedInduction, TLAPS

\* The chunks of the proofs: large enough for their header.
Pieces == [base : Nat, len : {n \in Nat : n >= HeaderWords}]

WordsIn(list) == UNION {WordsOf(list[i]) : i \in DOMAIN list}

\* In address order, no two chunks touching.
Sorted(list) ==
    \A i, j \in DOMAIN list : i < j => End(list[i]) < list[j].base

HInv == /\ free_list \in Seq(Pieces) /\ Sorted(free_list)
        /\ live \subseteq [ptr : Nat, chunk : Pieces]
        /\ result \in Nat \cup {NULL}
        /\ NoWordLost /\ HeaderKept

-----------------------------------------------------------------------------
(* Words and chunks                                                        *)

LEMMA InWords ==
    ASSUME NEW c \in Pieces
    PROVE  /\ c.base \in Nat /\ c.len \in Nat /\ c.len >= 3 /\ End(c) \in Nat
           /\ End(c) >= c.base + 3 /\ End(c) = c.base + c.len
           /\ \A w : w \in WordsOf(c) <=> w \in Int /\ c.base <= w /\ w < End(c)
<1>1. /\ c.base \in Nat /\ c.len \in Nat /\ c.len >= 3
  BY DEF Pieces, HeaderWords
<1> QED BY <1>1 DEF WordsOf, End

LEMMA InList ==
    ASSUME NEW list \in Seq(Pieces)
    PROVE  /\ \A i \in DOMAIN list : list[i] \in Pieces
           /\ \A w : w \in WordsIn(list) <=> \E i \in DOMAIN list : w \in WordsOf(list[i])
BY DEF WordsIn

\* Chunks that share no word lie one behind the other.
LEMMA OneBehindTheOther ==
    ASSUME NEW c \in Pieces, NEW d \in Pieces, WordsOf(c) \cap WordsOf(d) = {},
           c.base < d.base
    PROVE  End(c) <= d.base
<1>1. d.base \in WordsOf(d)
  BY InWords
<1>2. ~ (d.base < End(c))
  BY <1>1, InWords
<1> QED BY <1>2, InWords

\* RoundUp gives the least multiple that is not below its argument.
LEMMA RoundedUp ==
    ASSUME NEW x \in Nat, NEW a \in Nat
    PROVE  /\ RoundUp(x, a) \in Nat /\ RoundUp(x, a) >= x
           /\ a = 0 => RoundUp(x, a) = x
           /\ a > 0 => RoundUp(x, a) <= x + a - 1 /\ RoundUp(x, a) % a = 0
<1>1. CASE a = 0
  BY <1>1 DEF RoundUp
<1>2. CASE a > 0
  <2> PICK q, m : q = (x + a - 1) \div a /\ m = (x + a - 1) % a
    OBVIOUS
  <2>1. q \in Int /\ m \in Int /\ 0 <= m /\ m < a /\ x + a - 1 = a * q + m
    BY <1>2
  <2>2. q >= 0
    <3>1. q <= -1 => a * q <= - a
      BY <1>2, <2>1
    <3> QED BY <1>2, <2>1, <3>1
  <2>3. RoundUp(x, a) = q * a
    BY <1>2 DEF RoundUp
  <2>4. q * a \in Nat /\ q * a >= x /\ q * a <= x + a - 1
    BY <1>2, <2>1, <2>2
  <2>5. (q * a) % a = 0
    BY <1>2, <2>1, <2>2
  <2> QED BY <1>2, <2>3, <2>4, <2>5
<1> QED BY <1>1, <1>2

-----------------------------------------------------------------------------
(* Cutting a piece out of a list, and putting others in its place           *)

\* r is s with its chunks from a + 1 to b replaced by m.
Spliced(r, s, a, b, m) == r = SubSeq(s, 1, a) \o m \o SubSeq(s, b + 1, Len(s))

\* r is p with q behind it, and what that means for each place.
Chained(r, p, q) == r = p \o q

Following(r, p, q) ==
    /\ Len(r) = Len(p) + Len(q)
    /\ \A k \in 1 .. Len(p) : r[k] = p[k]
    /\ \A k \in Len(p) + 1 .. Len(p) + Len(q) : r[k] = q[k - Len(p)]

LEMMA Joined ==
    ASSUME NEW S, NEW p \in Seq(S), NEW q \in Seq(S), NEW r, Chained(r, p, q)
    PROVE  r \in Seq(S) /\ Following(r, p, q)
BY DEF Chained, Following

LEMMA Parts ==
    ASSUME NEW S, NEW s \in Seq(S), NEW a \in 0 .. Len(s), NEW b \in 0 .. Len(s)
    PROVE  /\ SubSeq(s, 1, a) \in Seq(S) /\ Len(SubSeq(s, 1, a)) = a
           /\ \A k \in 1 .. a : SubSeq(s, 1, a)[k] = s[k]
           /\ SubSeq(s, b + 1, Len(s)) \in Seq(S) /\ Len(SubSeq(s, b + 1, Len(s))) = Len(s) - b
           /\ \A k \in 1 .. Len(s) - b : SubSeq(s, b + 1, Len(s))[k] = s[k + b]
OBVIOUS

LEMMA Splice ==
    ASSUME NEW S, NEW s \in Seq(S), NEW m \in Seq(S),
           NEW a \in 0 .. Len(s), NEW b \in a .. Len(s),
           NEW r, Spliced(r, s, a, b, m)
    PROVE  /\ r \in Seq(S) /\ DOMAIN r = 1 .. a + Len(m) + (Len(s) - b)
           /\ \A k \in 1 .. a : r[k] = s[k]
           /\ \A k \in a + 1 .. a + Len(m) : r[k] = m[k - a]
           /\ \A k \in a + Len(m) + 1 .. a + Len(m) + (Len(s) - b) :
                 r[k] = s[k + (b - a - Len(m))]
<1>0. PICK n, l, d, h : n = Len(s) /\ l = Len(m) /\ d = b - a - l /\ h = a + l + (n - b)
  OBVIOUS
<1> DEFINE p == SubSeq(s, 1, a)
           q == SubSeq(s, b + 1, n)
           pm == p \o m
<1>1. Chained(r, pm, q) /\ Chained(pm, p, m)
  BY <1>0 DEF Spliced, Chained
<1> HIDE DEF p, q, pm
<1>2. n \in Nat /\ l \in Nat /\ d \in Int /\ h \in Nat
      /\ a \in 0 .. n /\ b \in 0 .. n /\ b \in a .. n /\ a \in Nat /\ b \in Nat /\ n - b \in Nat /\ a + l \in Nat
  BY <1>0
<1>3. /\ p \in Seq(S) /\ Len(p) = a /\ \A k \in 1 .. a : p[k] = s[k]
      /\ q \in Seq(S) /\ Len(q) = n - b /\ \A k \in 1 .. n - b : q[k] = s[k + b]
  BY <1>0, <1>2, Parts DEF p, q
<1>4. /\ pm \in Seq(S) /\ Len(pm) = a + l
      /\ \A k \in 1 .. a : pm[k] = p[k]
      /\ \A k \in a + 1 .. a + l : pm[k] = m[k - a]
  <2>1. p \in Seq(S) /\ Len(p) = a
    BY <1>3
  <2>2. pm \in Seq(S) /\ Following(pm, p, m)
    BY <1>1, <2>1, Joined
  <2> QED BY <1>0, <1>2, <2>1, <2>2 DEF Following
<1>12. PICK al, nb : al = a + l /\ nb = n - b
  OBVIOUS
<1>5. /\ Len(pm) = al /\ Len(q) = nb /\ pm \in Seq(S) /\ q \in Seq(S)
      /\ al \in Nat /\ nb \in Nat
  BY <1>2, <1>3, <1>4, <1>12
<1>11. /\ r \in Seq(S) /\ Len(r) = al + nb
       /\ \A k \in 1 .. al : r[k] = pm[k]
       /\ \A k \in al + 1 .. al + nb : r[k] = q[k - al]
  <2>1. r \in Seq(S) /\ Following(r, pm, q)
    BY <1>1, <1>5, Joined
  <2> QED BY <1>5, <2>1 DEF Following
<1>6. DOMAIN r = 1 .. h
  BY <1>0, <1>2, <1>5, <1>11, <1>12
<1>7. ASSUME NEW k \in 1 .. a PROVE r[k] = s[k]
  <2>1. k \in 1 .. al
    BY <1>2, <1>12
  <2> QED BY <1>3, <1>4, <1>11, <2>1
<1>8. ASSUME NEW k \in a + 1 .. a + l PROVE r[k] = m[k - a]
  <2>1. k \in 1 .. al
    BY <1>2, <1>12
  <2> QED BY <1>4, <1>11, <2>1
<1>9. ASSUME NEW k \in a + l + 1 .. h PROVE r[k] = s[k + d]
  <2>1. k \in al + 1 .. al + nb /\ k - al \in 1 .. n - b /\ (k - al) + b = k + d
    BY <1>0, <1>2, <1>12
  <2> QED BY <1>3, <1>11, <2>1
<1>10. n = Len(s) /\ l = Len(m) /\ h = a + Len(m) + (Len(s) - b) /\ d = b - a - Len(m)
  BY <1>0
<1> QED BY <1>11, <1>6, <1>7, <1>8, <1>9, <1>10

\* The chunks of m fit into the gap.
Fits(s, a, b, m) ==
    \A i \in DOMAIN m : /\ \A k \in 1 .. a : End(s[k]) < m[i].base
                        /\ \A k \in b + 1 .. Len(s) : End(m[i]) < s[k].base

\* Chunks that fit between their neighbours keep the order, and the words of
\* the list are those of what stayed and of what came in.
LEMMA SpliceChunks ==
    ASSUME NEW s \in Seq(Pieces), Sorted(s), NEW m \in Seq(Pieces), Sorted(m),
           NEW a \in 0 .. Len(s), NEW b \in a .. Len(s),
           Fits(s, a, b, m), NEW r, Spliced(r, s, a, b, m)
    PROVE  /\ r \in Seq(Pieces) /\ Sorted(r)
           /\ \A w : w \in WordsIn(r) <=>
                 \/ \E k \in 1 .. a : w \in WordsOf(s[k])
                 \/ w \in WordsIn(m)
                 \/ \E k \in b + 1 .. Len(s) : w \in WordsOf(s[k])
<1> PICK n, l, d, h : n = Len(s) /\ l = Len(m) /\ d = b - a - l /\ h = a + l + (n - b)
  OBVIOUS
<1>0. /\ n \in Nat /\ l \in Nat /\ DOMAIN s = 1 .. n /\ DOMAIN m = 1 .. l
      /\ a \in Nat /\ b \in Nat /\ a <= b /\ b <= n /\ d \in Int /\ a + l + d = b
      /\ h \in Nat /\ h + d = n /\ a + l <= h
  OBVIOUS
<1>1. /\ r \in Seq(Pieces) /\ DOMAIN r = 1 .. h
      /\ \A k \in 1 .. a : r[k] = s[k]
      /\ \A k \in a + 1 .. a + l : r[k] = m[k - a]
      /\ \A k \in a + l + 1 .. h : r[k] = s[k + d]
  <2>1. /\ r \in Seq(Pieces) /\ DOMAIN r = 1 .. a + Len(m) + (Len(s) - b)
        /\ \A k \in 1 .. a : r[k] = s[k]
        /\ \A k \in a + 1 .. a + Len(m) : r[k] = m[k - a]
        /\ \A k \in a + Len(m) + 1 .. a + Len(m) + (Len(s) - b) :
              r[k] = s[k + (b - a - Len(m))]
    BY Splice, SMTT(30)
  <2> QED BY <2>1
\* The three parts of the new list.
<1>2. /\ \A k \in 1 .. a : k \in 1 .. h /\ k \in 1 .. n
      /\ \A k \in a + 1 .. a + l : k \in 1 .. h /\ k - a \in 1 .. l
      /\ \A k \in a + l + 1 .. h : k \in 1 .. h /\ k + d \in b + 1 .. n /\ k + d \in 1 .. n
      /\ \A k \in 1 .. h : \/ k \in 1 .. a \/ k \in a + 1 .. a + l \/ k \in a + l + 1 .. h
  BY <1>0
<1>3. /\ \A k \in 1 .. a : k \in 1 .. h /\ r[k] = s[k] /\ k \in 1 .. n
      /\ \A k \in a + 1 .. a + l : k \in 1 .. h /\ r[k] = m[k - a] /\ k - a \in 1 .. l
      /\ \A k \in a + l + 1 .. h : /\ k \in 1 .. h /\ r[k] = s[k + d]
                                   /\ k + d \in b + 1 .. n /\ k + d \in 1 .. n
      /\ \A k \in 1 .. h : \/ k \in 1 .. a \/ k \in a + 1 .. a + l \/ k \in a + l + 1 .. h
  BY <1>1, <1>2
<1>4. Sorted(r)
  <2> SUFFICES ASSUME NEW i \in 1 .. h, NEW j \in 1 .. h, i < j
               PROVE  End(r[i]) < r[j].base
    BY <1>1 DEF Sorted
  <2>1. /\ \A x, y \in 1 .. n : x < y => End(s[x]) < s[y].base
        /\ \A x, y \in 1 .. l : x < y => End(m[x]) < m[y].base
        /\ \A x \in 1 .. l : /\ \A k \in 1 .. a : End(s[k]) < m[x].base
                             /\ \A k \in b + 1 .. n : End(m[x]) < s[k].base
    BY <1>0 DEF Sorted, Fits
  <2>2. CASE j \in 1 .. a
    <3>1. i \in 1 .. a
      BY <1>0, <2>2
    <3> QED BY <1>3, <2>1, <2>2, <3>1
  <2>3. CASE i \in 1 .. a /\ j \in a + 1 .. a + l
    BY <1>3, <2>1, <2>3
  <2>4. CASE i \in 1 .. a /\ j \in a + l + 1 .. h
    <3>1. i < j + d
      BY <1>0, <2>4
    <3> QED BY <1>3, <2>1, <2>4, <3>1
  <2>5. CASE i \in a + 1 .. a + l /\ j \in a + 1 .. a + l
    <3>1. i - a < j - a
      BY <1>0, <2>5
    <3> QED BY <1>3, <2>1, <2>5, <3>1
  <2>6. CASE i \in a + 1 .. a + l /\ j \in a + l + 1 .. h
    BY <1>3, <2>1, <2>6
  <2>7. CASE i \in a + l + 1 .. h /\ j \in a + l + 1 .. h
    <3>1. i + d < j + d
      BY <1>0, <2>7
    <3> QED BY <1>3, <2>1, <2>7, <3>1
  <2>8. \/ j \in 1 .. a
        \/ i \in 1 .. a /\ j \in a + 1 .. a + l
        \/ i \in 1 .. a /\ j \in a + l + 1 .. h
        \/ i \in a + 1 .. a + l /\ j \in a + 1 .. a + l
        \/ i \in a + 1 .. a + l /\ j \in a + l + 1 .. h
        \/ i \in a + l + 1 .. h /\ j \in a + l + 1 .. h
    BY <1>0
  <2> QED BY <2>2, <2>3, <2>4, <2>5, <2>6, <2>7, <2>8
<1>5. ASSUME NEW w
      PROVE  w \in WordsIn(r) <=>
                 \/ \E k \in 1 .. a : w \in WordsOf(s[k])
                 \/ w \in WordsIn(m)
                 \/ \E k \in b + 1 .. n : w \in WordsOf(s[k])
  <2>1. /\ w \in WordsIn(r) <=> \E k \in 1 .. h : w \in WordsOf(r[k])
        /\ w \in WordsIn(m) <=> \E k \in 1 .. l : w \in WordsOf(m[k])
    BY <1>0, <1>1, InList
  <2>2. ASSUME NEW k \in 1 .. h, w \in WordsOf(r[k])
        PROVE  \/ \E x \in 1 .. a : w \in WordsOf(s[x])
               \/ \E x \in 1 .. l : w \in WordsOf(m[x])
               \/ \E x \in b + 1 .. n : w \in WordsOf(s[x])
    BY <1>3, <2>2, ZenonT(30)
  <2>3. ASSUME NEW k \in 1 .. l PROVE k + a \in 1 .. h /\ r[k + a] = m[k]
    <3>1. k + a \in a + 1 .. a + l /\ (k + a) - a = k
      BY <1>0
    <3> QED BY <1>3, <3>1
  <2>4. ASSUME NEW k \in b + 1 .. n PROVE k - d \in 1 .. h /\ r[k - d] = s[k]
    <3>1. k - d \in a + l + 1 .. h /\ (k - d) + d = k
      BY <1>0
    <3> QED BY <1>3, <3>1
  <2> QED BY <1>3, <2>1, <2>2, <2>3, <2>4, ZenonT(30)
<1> QED BY <1>1, <1>4, <1>5
-----------------------------------------------------------------------------
(* Putting a chunk back                                                    *)

\* A set of numbers that is not empty has a least one.
LEMMA LeastOne ==
    ASSUME NEW D \in SUBSET Nat, D # {}
    PROVE  \E i \in D : \A j \in D : i <= j
<1> DEFINE R == OpToRel(<, Nat)
<1>1. IsWellFoundedOn(R, Nat)
  BY NatLessThanWellFounded
<1>2. PICK x \in D : \A y \in D : ~ (<<y, x>> \in R)
  <2> HIDE DEF R
  <2> QED BY <1>1, WFMin
<1>3. ASSUME NEW y \in D PROVE x <= y
  <2>1. x \in Nat /\ y \in Nat
    OBVIOUS
  <2>2. ~ (y < x)
    BY <1>2, <2>1 DEF OpToRel
  <2> QED BY <2>1, <2>2
<1> QED BY <1>3

\* The walk of heap_insert_free_chunk stops between what lies before the chunk
\* and what lies behind it.
LEMMA WhereItStops ==
    ASSUME NEW s \in Seq(Pieces), Sorted(s), NEW c \in Pieces,
           WordsOf(c) \cap WordsIn(s) = {}
    PROVE  \E n \in 0 .. Len(s) :
              /\ Cardinality(Before(s, c)) = n
              /\ \A i \in 1 .. n : End(s[i]) <= c.base
              /\ \A i \in n + 1 .. Len(s) : End(c) <= s[i].base
<1> DEFINE D == {i \in 0 .. Len(s) : i + 1 \notin Before(s, c)}
<1>1. \A i \in DOMAIN s : s[i] \in Pieces /\ s[i].base \in Nat /\ End(s[i]) \in Nat
                         /\ s[i].base < End(s[i])
  BY InList, InWords
<1>2. c.base \in Nat
  BY InWords
<1>3. PICK n \in D : \A j \in D : n <= j
  <2>1. Len(s) \in D
    BY DEF Before
  <2> HIDE DEF D
  <2>2. D \in SUBSET Nat
    BY DEF D
  <2> QED BY <2>1, <2>2, LeastOne
<1>4. n \in 0 .. Len(s) /\ n + 1 \notin Before(s, c)
  OBVIOUS
<1>5. ASSUME NEW i \in 1 .. n PROVE i \in Before(s, c)
  <2>1. i - 1 \in 0 .. Len(s) /\ ~ (n <= i - 1) /\ (i - 1) + 1 = i
    BY <1>4
  <2> QED BY <1>3, <2>1
<1>6. ASSUME NEW i \in n + 1 .. Len(s) PROVE ~ (s[i].base < c.base)
  <2>1. n + 1 \in DOMAIN s /\ i \in DOMAIN s /\ (i = n + 1 \/ n + 1 < i)
    BY <1>4
  <2>2. ~ (s[n + 1].base < c.base)
    BY <1>4, <2>1 DEF Before
  <2>3. CASE n + 1 < i
    <3>1. End(s[n + 1]) < s[i].base
      BY <2>1, <2>3 DEF Sorted
    <3> QED BY <1>1, <1>2, <2>1, <2>2, <3>1
  <2> QED BY <2>1, <2>2, <2>3
<1>7. Before(s, c) = 1 .. n
  <2>1. ASSUME NEW i \in Before(s, c) PROVE i \in 1 .. n
    <3>1. i \in 1 .. Len(s) /\ s[i].base < c.base
      BY DEF Before
    <3> QED BY <1>4, <1>6, <3>1
  <2> QED BY <1>5, <2>1
<1>8. Cardinality(1 .. n) = n
  <2>1. n \in Nat
    BY <1>4
  <2> QED BY <2>1, FS_Interval
<1>9. \A i \in DOMAIN s : WordsOf(c) \cap WordsOf(s[i]) = {}
  BY InList
<1>10. ASSUME NEW i \in 1 .. n PROVE End(s[i]) <= c.base
  <2>1. i \in DOMAIN s /\ s[i].base < c.base
    BY <1>5 DEF Before
  <2> QED BY <1>1, <1>9, <2>1, OneBehindTheOther
<1>11. ASSUME NEW i \in n + 1 .. Len(s) PROVE End(c) <= s[i].base
  <2>1. i \in DOMAIN s /\ ~ (s[i].base < c.base)
    BY <1>4, <1>6
  <2>2. c.base \in WordsOf(c) /\ s[i].base \in WordsOf(s[i])
    <3>1. ASSUME NEW d \in Pieces PROVE d.base \in WordsOf(d)
      <4>1. d.base \in Nat /\ End(d) \in Nat /\ d.base < End(d)
        BY InWords
      <4> QED BY <4>1, InWords
    <3> QED BY <1>1, <2>1, <3>1
  <2>3. c.base < s[i].base
    BY <1>1, <1>2, <1>9, <2>1, <2>2
  <2> QED BY <1>1, <1>9, <2>1, <2>3, OneBehindTheOther
<1> QED BY <1>4, <1>7, <1>8, <1>10, <1>11
\* What the chunk becomes: the one before it, itself and the one behind it,
\* where they touch.
LEMMA Merged ==
    ASSUME NEW c \in Pieces, NEW before \in BOOLEAN, NEW p, before => p \in Pieces /\ End(p) = c.base,
           NEW behind \in BOOLEAN, NEW q, behind => q \in Pieces /\ End(c) = q.base,
           NEW d, d = [base |-> IF before THEN p.base ELSE c.base,
                       len  |-> c.len + (IF before THEN p.len ELSE 0)
                                      + (IF behind THEN q.len ELSE 0)]
    PROVE  /\ d \in Pieces
           /\ d.base = IF before THEN p.base ELSE c.base
           /\ End(d) = IF behind THEN End(q) ELSE End(c)
           /\ \A w : w \in WordsOf(d) <=> \/ w \in WordsOf(c)
                                          \/ before /\ w \in WordsOf(p)
                                          \/ behind /\ w \in WordsOf(q)
<1>1. c.base \in Nat /\ c.len \in Nat /\ c.len >= 3 /\ End(c) = c.base + c.len
  BY InWords
<1>2. before => p.base \in Nat /\ p.len \in Nat /\ p.base + p.len = c.base /\ p.len >= 3
  BY InWords
<1>3. behind => q.base \in Nat /\ q.len \in Nat /\ c.base + c.len = q.base /\ End(q) = q.base + q.len
  BY <1>1, InWords
<1> PICK x, y : x = (IF before THEN p.len ELSE 0) /\ y = (IF behind THEN q.len ELSE 0)
  OBVIOUS
<1>4. x \in Nat /\ y \in Nat /\ d.len = c.len + x + y /\ d.base = c.base - x /\ d.base \in Nat
      /\ d = [base |-> d.base, len |-> d.len]
  BY <1>1, <1>2, <1>3
<1>5. d \in Pieces
  <2>1. d.len \in Nat /\ d.len >= 3
    BY <1>1, <1>4
  <2> QED BY <1>4, <2>1 DEF Pieces, HeaderWords
<1>6. End(d) = c.base + c.len + y
  BY <1>1, <1>4 DEF End
<1>7. End(d) = IF behind THEN End(q) ELSE End(c)
  BY <1>1, <1>3, <1>6
<1>8. ASSUME NEW w
      PROVE  w \in WordsOf(d) <=> \/ w \in WordsOf(c)
                                  \/ before /\ w \in WordsOf(p)
                                  \/ behind /\ w \in WordsOf(q)
  <2>1. w \in WordsOf(d) <=> w \in Int /\ c.base - x <= w /\ w < c.base + c.len + y
    BY <1>4, <1>5, <1>6, InWords
  <2>2. w \in WordsOf(c) <=> w \in Int /\ c.base <= w /\ w < c.base + c.len
    BY <1>1, InWords
  <2>3. before => (w \in WordsOf(p) <=> w \in Int /\ c.base - x <= w /\ w < c.base)
    BY <1>1, <1>2, InWords
  <2>4. behind => (w \in WordsOf(q) <=> w \in Int /\ c.base + c.len <= w /\ w < c.base + c.len + y)
    BY <1>1, <1>3, InWords
  <2>5. (~ before => x = 0) /\ (~ behind => y = 0)
    OBVIOUS
  <2> QED BY <1>1, <1>4, <2>1, <2>2, <2>3, <2>4, <2>5
<1> QED BY <1>4, <1>5, <1>7, <1>8
\* The list that heap_insert_free_chunk leaves is in order, with no two chunks
\* touching, and holds the words of the chunk besides its own.
LEMMA Insert ==
    ASSUME NEW s \in Seq(Pieces), Sorted(s), NEW c \in Pieces,
           WordsOf(c) \cap WordsIn(s) = {},
           NEW r, r = heap_insert_free_chunk(s, c)
    PROVE  r \in Seq(Pieces) /\ Sorted(r) /\ WordsIn(r) = WordsIn(s) \cup WordsOf(c)
<1>1. PICK n \in 0 .. Len(s) :
              /\ Cardinality(Before(s, c)) = n
              /\ \A i \in 1 .. n : End(s[i]) <= c.base
              /\ \A i \in n + 1 .. Len(s) : End(c) <= s[i].base
  BY WhereItStops
<1> DEFINE h == Len(s)
<1>2. h = Len(s) /\ h \in Nat /\ n \in Nat /\ n <= h /\ DOMAIN s = 1 .. h
  OBVIOUS
<1> HIDE DEF h
<1> DEFINE joinsLast(at) == at > 1 /\ End(s[at - 1]) = c.base
           joinsNext(at) == at <= Len(s) /\ End(c) = s[at].base
           chunk(at) == [base |-> IF joinsLast(at) THEN s[at - 1].base ELSE c.base,
                         len  |-> c.len + (IF joinsLast(at) THEN s[at - 1].len ELSE 0)
                                        + (IF joinsNext(at) THEN s[at].len ELSE 0)]
           last(at) == IF joinsLast(at) THEN at - 2 ELSE at - 1
           next(at) == IF joinsNext(at) THEN at + 1 ELSE at
           list(at) == SubSeq(s, 1, last(at)) \o <<chunk(at)>>
                       \o SubSeq(s, next(at), Len(s))
<1>3. r = list(n + 1)
  <2>1. r = list(Cardinality(Before(s, c)) + 1)
    BY DEF heap_insert_free_chunk
  <2>2. Cardinality(Before(s, c)) + 1 = n + 1
    BY <1>1
  <2> HIDE DEF list
  <2> QED BY <2>1, <2>2
<1> HIDE DEF joinsLast, joinsNext, chunk, last, next, list
<1> DEFINE before == joinsLast(n + 1)
           behind == joinsNext(n + 1)
           d == chunk(n + 1)
           a == IF before THEN n - 1 ELSE n
           b == IF behind THEN n + 1 ELSE n
           m == <<d>>
<1>17. /\ before <=> n + 1 > 1 /\ End(s[n + 1 - 1]) = c.base
       /\ behind <=> n + 1 <= Len(s) /\ End(c) = s[n + 1].base
  BY DEF joinsLast, joinsNext
<1> HIDE DEF before, behind, d
<1>4. /\ a = (IF before THEN n + 1 - 2 ELSE n + 1 - 1)
      /\ b + 1 = (IF behind THEN n + 1 + 1 ELSE n + 1)
      /\ a \in 0 .. Len(s) /\ b \in a .. Len(s)
  BY <1>2, <1>17
<1>5. Spliced(r, s, a, b, m)
  <2>1. r = SubSeq(s, 1, last(n + 1)) \o m \o SubSeq(s, next(n + 1), Len(s))
    BY <1>3 DEF list, d
  <2>2. last(n + 1) = a /\ next(n + 1) = b + 1
    BY <1>4 DEF last, next, before, behind
  <2> HIDE DEF a, b, m
  <2> QED BY <2>1, <2>2 DEF Spliced
<1>18. /\ a = (IF before THEN n - 1 ELSE n) /\ b = (IF behind THEN n + 1 ELSE n)
       /\ a \in 0 .. Len(s) /\ b \in a .. Len(s) /\ a \in Nat /\ b \in Nat
  BY <1>2, <1>4
<1>6. /\ \A i \in 1 .. h : s[i] \in Pieces /\ s[i].base \in Nat /\ End(s[i]) \in Nat
                           /\ s[i].base < End(s[i])
      /\ c.base \in Nat /\ End(c) \in Nat /\ c.base < End(c)
  BY <1>2, InList, InWords
<1>10. d \in Pieces => m \in Seq(Pieces) /\ DOMAIN m = {1} /\ m[1] = d
  OBVIOUS
<1> HIDE DEF a, b, m
<1>7. before => n \in 1 .. h /\ n + 1 - 1 = n /\ s[n] \in Pieces /\ End(s[n]) = c.base
  BY <1>2, <1>6, <1>17
<1>8. behind => n + 1 \in 1 .. h /\ s[n + 1] \in Pieces /\ End(c) = s[n + 1].base
  BY <1>2, <1>6, <1>17
<1>9. /\ d \in Pieces
      /\ d.base = IF before THEN s[n].base ELSE c.base
      /\ End(d) = IF behind THEN End(s[n + 1]) ELSE End(c)
      /\ \A w : w \in WordsOf(d) <=> \/ w \in WordsOf(c)
                                     \/ before /\ w \in WordsOf(s[n])
                                     \/ behind /\ w \in WordsOf(s[n + 1])
  <2>1. d = [base |-> IF before THEN s[n].base ELSE c.base,
             len  |-> c.len + (IF before THEN s[n].len ELSE 0)
                            + (IF behind THEN s[n + 1].len ELSE 0)]
    BY <1>7 DEF d, chunk, before, behind
  <2>2. before \in BOOLEAN /\ behind \in BOOLEAN
    BY DEF before, behind, joinsLast, joinsNext
  <2> QED BY <1>7, <1>8, <2>1, <2>2, Merged
<1>11. Sorted(m)
  BY <1>9, <1>10 DEF Sorted
<1>12. ASSUME NEW k \in 1 .. a PROVE k \in 1 .. n /\ End(s[k]) < d.base
  <2>1. k \in 1 .. n /\ k \in 1 .. h
    BY <1>2, <1>18
  <2>2. CASE before
    <3>1. k < n /\ n \in 1 .. h
      BY <1>2, <1>7, <1>8, <1>18, <2>2
    <3>2. End(s[k]) < s[n].base
      BY <1>2, <2>1, <3>1 DEF Sorted
    <3> QED BY <1>9, <2>1, <2>2, <3>2
  <2>3. CASE ~ before
    <3>1. End(s[k]) <= c.base
      BY <1>1, <1>2, <2>1
    <3>2. End(s[k]) # c.base
      <4>1. CASE k = n
        BY <1>2, <1>17, <2>1, <2>3, <4>1
      <4>2. CASE k < n
        <5>1. End(s[k]) < s[n].base /\ n \in 1 .. n /\ n \in 1 .. h
          BY <1>2, <2>1, <4>2 DEF Sorted
        <5>2. End(s[n]) <= c.base
          BY <1>1, <1>2, <5>1
        <5> QED BY <1>6, <2>1, <5>1, <5>2
      <4> QED BY <1>2, <2>1, <4>1, <4>2
    <3> QED BY <1>6, <1>9, <2>1, <2>3, <3>1, <3>2
  <2> QED BY <2>1, <2>2, <2>3
<1>13. ASSUME NEW k \in b + 1 .. h PROVE k \in n + 1 .. h /\ End(d) < s[k].base
  <2>1. k \in n + 1 .. h /\ k \in 1 .. h
    BY <1>2, <1>18
  <2>2. CASE behind
    <3>1. n + 1 < k /\ n + 1 \in 1 .. h
      BY <1>2, <1>7, <1>8, <1>18, <2>2
    <3>2. End(s[n + 1]) < s[k].base
      BY <1>2, <2>1, <3>1 DEF Sorted
    <3> QED BY <1>9, <2>1, <2>2, <3>2
  <2>3. CASE ~ behind
    <3>1. End(c) <= s[k].base
      BY <1>1, <1>2, <2>1
    <3>2. End(c) # s[k].base
      <4>1. CASE k = n + 1
        BY <1>2, <1>17, <2>1, <2>3, <4>1
      <4>2. CASE n + 1 < k
        <5>3. n + 1 \in n + 1 .. h /\ n + 1 \in 1 .. h
          BY <1>2, <2>1, <4>2
        <5>1. End(s[n + 1]) < s[k].base /\ n + 1 \in n + 1 .. h /\ n + 1 \in 1 .. h
          BY <1>2, <2>1, <4>2, <5>3 DEF Sorted
        <5>2. End(c) <= s[n + 1].base
          BY <1>1, <1>2, <5>1
        <5> QED BY <1>6, <2>1, <5>1, <5>2
      <4> QED BY <1>2, <2>1, <4>1, <4>2
    <3> QED BY <1>6, <1>9, <2>1, <2>3, <3>1, <3>2
  <2> QED BY <2>1, <2>2, <2>3
<1>14. Fits(s, a, b, m)
  BY <1>2, <1>9, <1>10, <1>12, <1>13 DEF Fits
<1>15. /\ r \in Seq(Pieces) /\ Sorted(r)
       /\ \A w : w \in WordsIn(r) <=>
                 \/ \E k \in 1 .. a : w \in WordsOf(s[k])
                 \/ w \in WordsIn(m)
                 \/ \E k \in b + 1 .. Len(s) : w \in WordsOf(s[k])
  <2>1. a \in 0 .. Len(s) /\ b \in a .. Len(s) /\ m \in Seq(Pieces)
    BY <1>9, <1>10, <1>18
  <2> QED BY <1>5, <1>11, <1>14, <2>1, SpliceChunks
<1>16. ASSUME NEW w PROVE w \in WordsIn(r) <=> w \in WordsIn(s) \/ w \in WordsOf(c)
  <2>1. w \in WordsIn(m) <=> w \in WordsOf(d)
    BY <1>9, <1>10, InList
  <2>2. w \in WordsIn(s) <=> \E k \in 1 .. h : w \in WordsOf(s[k])
    BY <1>2, InList
  <2>3. /\ \A k \in 1 .. h : k \in 1 .. a \/ (k = n /\ before) \/ (k = n + 1 /\ behind)
                             \/ k \in b + 1 .. h
        /\ \A k \in 1 .. a : k \in 1 .. h
        /\ \A k \in b + 1 .. h : k \in 1 .. h
        /\ before => n \in 1 .. h
        /\ behind => n + 1 \in 1 .. h
    BY <1>2, <1>7, <1>8, <1>18
  <2> QED BY <1>2, <1>9, <1>15, <2>1, <2>2, <2>3
<1> QED BY <1>15, <1>16
-----------------------------------------------------------------------------
(* Taking a chunk out                                                      *)

Halves(chunk, need, taken, left) ==
    taken = Cut(chunk, need).taken /\ left = Cut(chunk, need).left

\* heap_alloc gives away the front of a chunk that is large enough, and keeps
\* the rest if it can hold the header of a chunk.
LEMMA CutInTwo ==
    ASSUME NEW chunk \in Pieces, NEW need \in Nat, need >= 3, chunk.len >= need,
           NEW taken, NEW left, Halves(chunk, need, taken, left)
    PROVE  /\ taken \in Pieces /\ taken.base = chunk.base /\ taken.len >= need
           /\ left \in Seq(Pieces) /\ Sorted(left)
           /\ \A i \in DOMAIN left : chunk.base <= left[i].base /\ End(left[i]) = End(chunk)
           /\ \A w : w \in WordsOf(chunk) <=> w \in WordsOf(taken) \/ w \in WordsIn(left)
           /\ \A w : ~ (w \in WordsOf(taken) /\ w \in WordsIn(left))
<1>1. /\ chunk.base \in Nat /\ chunk.len \in Nat /\ chunk.len >= 3
      /\ End(chunk) = chunk.base + chunk.len
      /\ chunk = [base |-> chunk.base, len |-> chunk.len]
  BY InWords DEF Pieces
<1>2. CASE chunk.len > need + 3
  <2> DEFINE rest == [base |-> chunk.base + need, len |-> chunk.len - need]
  <2>1. taken = [base |-> chunk.base, len |-> need] /\ left = <<rest>>
    BY <1>1, <1>2 DEF Halves, Cut, HeaderWords
  <2>2. taken \in Pieces /\ taken.base = chunk.base /\ taken.len = need
    BY <1>1, <2>1 DEF Pieces, HeaderWords
  <2>3. rest \in Pieces /\ rest.base = chunk.base + need /\ rest.len = chunk.len - need
    BY <1>1, <1>2 DEF Pieces, HeaderWords
  <2>4. End(taken) = chunk.base + need /\ End(rest) = chunk.base + chunk.len
    BY <1>1, <2>2, <2>3 DEF End
  <2> HIDE DEF rest
  <2>5. left \in Seq(Pieces) /\ DOMAIN left = {1} /\ left[1] = rest
    BY <2>1, <2>3
  <2>6. Sorted(left)
    BY <2>5 DEF Sorted
  <2>7. \A w : w \in WordsIn(left) <=> w \in WordsOf(rest)
    BY <2>5, InList
  <2>8. /\ \A w : w \in WordsOf(chunk) <=> w \in Int /\ chunk.base <= w /\ w < chunk.base + chunk.len
        /\ \A w : w \in WordsOf(taken) <=> w \in Int /\ chunk.base <= w /\ w < chunk.base + need
        /\ \A w : w \in WordsOf(rest) <=> w \in Int /\ chunk.base + need <= w /\ w < chunk.base + chunk.len
    <3>1. \A w : w \in WordsOf(chunk) <=> w \in Int /\ chunk.base <= w /\ w < chunk.base + chunk.len
      BY <1>1, InWords
    <3>2. \A w : w \in WordsOf(taken) <=> w \in Int /\ chunk.base <= w /\ w < chunk.base + need
      BY <2>2, <2>4, InWords
    <3>3. \A w : w \in WordsOf(rest) <=> w \in Int /\ chunk.base + need <= w /\ w < chunk.base + chunk.len
      BY <2>3, <2>4, InWords
    <3> QED BY <3>1, <3>2, <3>3
  <2>9. \A i \in DOMAIN left : chunk.base <= left[i].base /\ End(left[i]) = End(chunk)
    BY <1>1, <2>3, <2>4, <2>5
  <2>10. ASSUME NEW w
         PROVE  /\ w \in WordsOf(chunk) <=> w \in WordsOf(taken) \/ w \in WordsIn(left)
                /\ ~ (w \in WordsOf(taken) /\ w \in WordsIn(left))
    BY <1>1, <1>2, <2>7, <2>8
  <2>11. taken.len >= need
    BY <2>2
  <2> QED BY <2>2, <2>5, <2>6, <2>9, <2>10, <2>11
<1>3. CASE ~ (chunk.len > need + 3)
  <2>1. taken = chunk /\ left = <<>>
    BY <1>3 DEF Halves, Cut, HeaderWords
  <2>2. left \in Seq(Pieces) /\ DOMAIN left = {}
    BY <2>1
  <2>3. Sorted(left) /\ \A w : w \notin WordsIn(left)
    BY <2>2, InList DEF Sorted
  <2> QED BY <2>1, <2>2, <2>3
<1> QED BY <1>2, <1>3

\* Two chunks of the list share no word.
LEMMA InListOnce ==
    ASSUME NEW s \in Seq(Pieces), Sorted(s), NEW i \in DOMAIN s, NEW j \in DOMAIN s, i # j
    PROVE  \A w : ~ (w \in WordsOf(s[i]) /\ w \in WordsOf(s[j]))
<1>1. \A k \in DOMAIN s : s[k] \in Pieces
  BY InList
<1>2. i \in Nat /\ j \in Nat /\ (i < j \/ j < i)
  OBVIOUS
<1>3. ASSUME NEW k \in DOMAIN s, NEW l \in DOMAIN s, k < l
      PROVE  \A w : ~ (w \in WordsOf(s[k]) /\ w \in WordsOf(s[l]))
  <2>1. End(s[k]) < s[l].base
    BY <1>3 DEF Sorted
  <2> QED BY <1>1, <2>1, InWords
<1> QED BY <1>2, <1>3

\* The list without what heap_alloc gives away.
LEMMA TakeOut ==
    ASSUME NEW s \in Seq(Pieces), Sorted(s), NEW i \in DOMAIN s,
           NEW need \in Nat, need >= 3, s[i].len >= need,
           NEW taken, NEW left, NEW r,
           Halves(s[i], need, taken, left), Spliced(r, s, i - 1, i, left)
    PROVE  /\ taken \in Pieces /\ taken.base = s[i].base /\ taken.len >= need
           /\ r \in Seq(Pieces) /\ Sorted(r)
           /\ WordsOf(taken) \subseteq WordsIn(s)
           /\ WordsIn(r) = WordsIn(s) \ WordsOf(taken)
<1> DEFINE a == i - 1
<1>1. Spliced(r, s, a, i, left)
  OBVIOUS
<1>2. a \in 0 .. Len(s) /\ i \in a .. Len(s) /\ i \in 1 .. Len(s) /\ a = i - 1 /\ i \in Nat
  OBVIOUS
<1> HIDE DEF a
<1>3. \A k \in DOMAIN s : s[k] \in Pieces
  BY InList
<1>4. /\ taken \in Pieces /\ taken.base = s[i].base /\ taken.len >= need
      /\ left \in Seq(Pieces) /\ Sorted(left)
      /\ \A k \in DOMAIN left : s[i].base <= left[k].base /\ End(left[k]) = End(s[i])
      /\ \A w : w \in WordsOf(s[i]) <=> w \in WordsOf(taken) \/ w \in WordsIn(left)
      /\ \A w : ~ (w \in WordsOf(taken) /\ w \in WordsIn(left))
  <2>1. s[i] \in Pieces
    BY <1>3
  <2> QED BY <2>1, CutInTwo
<1>5. Fits(s, a, i, left)
  <2> SUFFICES ASSUME NEW k \in DOMAIN left
               PROVE  /\ \A x \in 1 .. a : End(s[x]) < left[k].base
                      /\ \A x \in i + 1 .. Len(s) : End(left[k]) < s[x].base
    BY DEF Fits
  <2>1. /\ s[i].base \in Nat /\ left[k].base \in Nat /\ s[i].base <= left[k].base
        /\ End(left[k]) = End(s[i])
    <3>1. left[k] \in Pieces
      BY <1>4, InList
    <3> QED BY <1>3, <1>4, <3>1, InWords
  <2>2. ASSUME NEW x \in 1 .. a PROVE End(s[x]) < left[k].base
    <3>1. x \in DOMAIN s /\ x < i
      BY <1>2
    <3>2. End(s[x]) < s[i].base /\ End(s[x]) \in Nat
      BY <1>3, <3>1, InWords DEF Sorted
    <3> QED BY <2>1, <3>2
  <2>3. ASSUME NEW x \in i + 1 .. Len(s) PROVE End(left[k]) < s[x].base
    <3>1. x \in DOMAIN s /\ i < x
      BY <1>2
    <3> QED BY <2>1, <3>1 DEF Sorted
  <2> QED BY <2>2, <2>3
<1>6. /\ r \in Seq(Pieces) /\ Sorted(r)
      /\ \A w : w \in WordsIn(r) <=>
                 \/ \E k \in 1 .. a : w \in WordsOf(s[k])
                 \/ w \in WordsIn(left)
                 \/ \E k \in i + 1 .. Len(s) : w \in WordsOf(s[k])
  <2>1. a \in 0 .. Len(s) /\ i \in a .. Len(s) /\ left \in Seq(Pieces) /\ Sorted(left)
    BY <1>2, <1>4
  <2> PICK b : b = i
    OBVIOUS
  <2>2. b \in a .. Len(s) /\ Spliced(r, s, a, b, left) /\ Fits(s, a, b, left)
    BY <1>1, <1>5, <2>1
  <2>3. /\ r \in Seq(Pieces) /\ Sorted(r)
        /\ \A w : w \in WordsIn(r) <=>
                 \/ \E k \in 1 .. a : w \in WordsOf(s[k])
                 \/ w \in WordsIn(left)
                 \/ \E k \in b + 1 .. Len(s) : w \in WordsOf(s[k])
    BY <2>1, <2>2, SpliceChunks
  <2> QED BY <2>3
<1>7. ASSUME NEW w
      PROVE  /\ w \in WordsOf(taken) => w \in WordsIn(s)
             /\ w \in WordsIn(r) <=> w \in WordsIn(s) /\ w \notin WordsOf(taken)
  <2>1. w \in WordsIn(s) <=> \E k \in DOMAIN s : w \in WordsOf(s[k])
    BY InList
  <2>2. \A k \in DOMAIN s : k = i \/ (k # i /\ (k \in 1 .. a \/ k \in i + 1 .. Len(s)))
    BY <1>2
  <2>3. /\ \A k \in 1 .. a : k \in DOMAIN s /\ k # i
        /\ \A k \in i + 1 .. Len(s) : k \in DOMAIN s /\ k # i
    BY <1>2
  <2>4. \A k \in DOMAIN s : k # i => ~ (w \in WordsOf(s[i]) /\ w \in WordsOf(s[k]))
    BY InListOnce
  <2> QED BY <1>4, <1>6, <2>1, <2>2, <2>3, <2>4
<1> QED BY <1>4, <1>6, <1>7

\* The pointer heap_alloc returns leaves room for its header before it, is as
\* aligned as was asked, and what was asked for lies inside the chunk.
LEMMA PointerInChunk ==
    ASSUME NEW size \in Nat, NEW alignment \in Nat, ~ Malformed(alignment),
           NEW chunk \in Pieces, chunk.len >= Needed(size, alignment),
           NEW ptr, ptr = RoundUp(chunk.base + HeaderWords, Aligned(alignment))
    PROVE  /\ ptr \in Nat /\ ptr >= chunk.base + 3 /\ ptr + size <= End(chunk)
           /\ alignment > 0 => ptr % alignment = 0
<1> PICK al, x : al = Aligned(alignment) /\ x = chunk.base + 3
  OBVIOUS
<1>1. chunk.base \in Nat /\ chunk.len \in Nat /\ End(chunk) = chunk.base + chunk.len
  BY InWords
<1>2. al \in Nat /\ chunk.len >= size + 3 + al /\ x \in Nat
  BY <1>1 DEF Aligned, Needed, HeaderWords
<1>3. /\ ptr \in Nat /\ ptr >= x
      /\ al = 0 => ptr = x
      /\ al > 0 => ptr <= x + al - 1 /\ ptr % al = 0
  <2>1. ptr = RoundUp(x, al)
    BY DEF HeaderWords
  <2> QED BY <1>2, <2>1, RoundedUp, ZenonT(30)
<1>4. alignment > 0 => ptr % alignment = 0
  <2>1. CASE alignment >= 4
    BY <1>3, <2>1 DEF Aligned
  <2>2. CASE alignment = 1 \/ alignment = 2
    <3>1. ptr % 4 = 0
      BY <1>3, <2>2 DEF Aligned
    <3> QED BY <1>3, <2>2, <3>1
  <2>3. alignment # 3
    <3>1. 3 \in 3 .. 3 /\ 3 % 2 = 1 /\ 3 % 3 = 0
      OBVIOUS
    <3> QED BY <3>1 DEF Malformed
  <2> QED BY <2>1, <2>2, <2>3
<1> QED BY <1>1, <1>2, <1>3, <1>4
-----------------------------------------------------------------------------
(* What the operations do to the words of the heap                         *)

HeapWords == HEAP_START .. HEAP_START + HEAP_LEN - 1

LEMMA FreeAre == FreeWords = WordsIn(free_list)
BY DEF FreeWords, WordsIn

\* A chunk and a pointer into it go from the list to a caller.
Given(size, alignment, chunk, ptr) ==
    /\ free_list' \in Seq(Pieces) /\ Sorted(free_list')
    /\ WordsOf(chunk) \subseteq WordsIn(free_list)
    /\ WordsIn(free_list') = WordsIn(free_list) \ WordsOf(chunk)
    /\ ptr >= chunk.base + 3 /\ ptr + size <= End(chunk)
    /\ alignment > 0 => ptr % alignment = 0
    /\ live' = live \cup {[ptr |-> ptr, chunk |-> chunk]}
    /\ result' = ptr

\* heap_alloc fails and changes nothing, or gives a chunk away.
LEMMA AllocGives ==
    ASSUME HInv, NEW size \in Requests, NEW alignment \in Alignments,
           heap_alloc(size, alignment)
    PROVE  \/ /\ UNCHANGED <<free_list, live>> /\ result' = NULL
              /\ \/ Malformed(alignment)
                 \/ \A i \in DOMAIN free_list : ~ (free_list[i].len >= Needed(size, alignment))
           \/ /\ ~ Malformed(alignment)
              /\ \E chunk \in Pieces, ptr \in Nat : Given(size, alignment, chunk, ptr)
<1> DEFINE need == Needed(size, alignment)
<1>1. size \in Nat /\ alignment \in Nat
  BY HeapAssumption
<1>2. need \in Nat /\ need >= 3
  BY <1>1 DEF Needed, Aligned, HeaderWords
<1>3. free_list \in Seq(Pieces) /\ Sorted(free_list)
  BY DEF HInv
<1>4. CASE ~ Malformed(alignment) /\ ~ (\A i \in DOMAIN free_list : ~ (free_list[i].len >= need))
  <2>1. PICK i \in DOMAIN free_list :
           LET cut == Cut(free_list[i], need)
               ptr == RoundUp(cut.taken.base + HeaderWords, Aligned(alignment))
           IN  /\ free_list[i].len >= need
               /\ free_list' = SubSeq(free_list, 1, i - 1) \o cut.left
                               \o SubSeq(free_list, i + 1, Len(free_list))
               /\ live' = live \cup {[ptr |-> ptr, chunk |-> cut.taken]}
               /\ result' = ptr
    BY <1>4 DEF heap_alloc
  <2>7. PICK taken, left : taken = Cut(free_list[i], need).taken /\ left = Cut(free_list[i], need).left
    OBVIOUS
  <2>8. PICK ptr, r : ptr = RoundUp(taken.base + HeaderWords, Aligned(alignment)) /\ r = free_list'
    OBVIOUS
  <2>2. /\ free_list[i].len >= need
        /\ r = SubSeq(free_list, 1, i - 1) \o left
                \o SubSeq(free_list, i + 1, Len(free_list))
        /\ live' = live \cup {[ptr |-> ptr, chunk |-> taken]}
        /\ result' = ptr
    BY <2>1, <2>7, <2>8
  <2>3. Halves(free_list[i], need, taken, left) /\ Spliced(r, free_list, i - 1, i, left)
    BY <2>2, <2>7 DEF Halves, Spliced
  <2>9. free_list[i].len >= need
    BY <2>2
  <2> HIDE DEF need
  <2>4. /\ taken \in Pieces /\ taken.base = free_list[i].base /\ taken.len >= need
        /\ r \in Seq(Pieces) /\ Sorted(r)
        /\ WordsOf(taken) \subseteq WordsIn(free_list)
        /\ WordsIn(r) = WordsIn(free_list) \ WordsOf(taken)
    BY <1>2, <1>3, <2>3, <2>9, TakeOut
  <2>5. /\ ptr \in Nat /\ ptr >= taken.base + 3 /\ ptr + size <= End(taken)
        /\ alignment > 0 => ptr % alignment = 0
    BY <1>1, <1>4, <2>4, <2>8, PointerInChunk DEF need
  <2>6. Given(size, alignment, taken, ptr)
    BY <2>2, <2>4, <2>5, <2>8 DEF Given
  <2> QED BY <1>4, <2>4, <2>5, <2>6
<1>5. CASE Malformed(alignment) \/ \A i \in DOMAIN free_list : ~ (free_list[i].len >= need)
  BY <1>5 DEF heap_alloc
<1> QED BY <1>4, <1>5

\* heap_free adds the words of the chunk to those of the list.
LEMMA FreeTakes ==
    ASSUME HInv, NEW block \in live, heap_free(block)
    PROVE  /\ free_list' \in Seq(Pieces) /\ Sorted(free_list')
           /\ WordsIn(free_list') = WordsIn(free_list) \cup WordsOf(block.chunk)
<1>1. /\ free_list \in Seq(Pieces) /\ Sorted(free_list) /\ block.chunk \in Pieces
      /\ WordsOf(block.chunk) \cap WordsIn(free_list) = {}
  BY FreeAre DEF HInv, NoWordLost
<1>2. free_list' = heap_insert_free_chunk(free_list, block.chunk)
  BY DEF heap_free
<1> QED BY <1>1, <1>2, Insert

-----------------------------------------------------------------------------
(* The invariant                                                           *)

LEMMA HInvInit == Init => HInv
<1> SUFFICES ASSUME Init PROVE HInv
  OBVIOUS
<1> PICK none, c : none = <<>> /\ c = [base |-> HEAP_START, len |-> HEAP_LEN]
  OBVIOUS
<1>1. none \in Seq(Pieces) /\ DOMAIN none = {} /\ WordsIn(none) = {} /\ Sorted(none)
  BY DEF WordsIn, Sorted
<1>2. c \in Pieces /\ WordsOf(c) = HeapWords
  BY HeapAssumption DEF Pieces, HeaderWords, WordsOf, End, HeapWords
<1>3. free_list = heap_insert_free_chunk(none, c)
  BY DEF Init
<1>4. free_list \in Seq(Pieces) /\ Sorted(free_list) /\ WordsIn(free_list) = HeapWords
  <2>1. WordsOf(c) \cap WordsIn(none) = {}
    BY <1>1
  <2>2. /\ free_list \in Seq(Pieces) /\ Sorted(free_list)
        /\ WordsIn(free_list) = WordsIn(none) \cup WordsOf(c)
    BY <1>1, <1>2, <1>3, <2>1, Insert
  <2> QED BY <1>1, <1>2, <2>2
<1>5. live = {} /\ result = NULL
  BY DEF Init
<1>6. NoWordLost
  BY <1>4, <1>5, FreeAre DEF NoWordLost, HeapWords
<1> QED BY <1>4, <1>5, <1>6 DEF HInv, HeaderKept

\* What NoWordLost says of each word.
LEMMA EachWord ==
    ASSUME HInv
    PROVE  /\ \A w : w \in HeapWords <=> \/ w \in WordsIn(free_list)
                                         \/ \E b \in live : w \in WordsOf(b.chunk)
           /\ \A b \in live : /\ b = [ptr |-> b.ptr, chunk |-> b.chunk]
                              /\ b.ptr \in Nat /\ b.chunk \in Pieces
                              /\ WordsOf(b.chunk) \cap WordsIn(free_list) = {}
           /\ \A b, c \in live : b # c => WordsOf(b.chunk) \cap WordsOf(c.chunk) = {}
<1>1. /\ WordsIn(free_list) \cup UNION {WordsOf(b.chunk) : b \in live} = HeapWords
      /\ \A b \in live : /\ WordsOf(b.chunk) \cap WordsIn(free_list) = {}
                         /\ \A c \in live : b # c => WordsOf(b.chunk) \cap WordsOf(c.chunk) = {}
  BY FreeAre DEF HInv, NoWordLost, HeapWords
<1>2. \A b \in live : /\ b = [ptr |-> b.ptr, chunk |-> b.chunk]
                      /\ b.ptr \in Nat /\ b.chunk \in Pieces
  BY DEF HInv
<1>3. \A w : w \in HeapWords <=> \/ w \in WordsIn(free_list)
                                 \/ \E b \in live : w \in WordsOf(b.chunk)
  BY <1>1
<1> QED BY <1>1, <1>2, <1>3

LEMMA HInvAlloc ==
    ASSUME HInv, NEW size \in Requests, NEW alignment \in Alignments,
           NEW chunk \in Pieces, NEW ptr \in Nat, Given(size, alignment, chunk, ptr)
    PROVE  HInv'
<1> DEFINE new == [ptr |-> ptr, chunk |-> chunk]
<1>1. /\ free_list' \in Seq(Pieces) /\ Sorted(free_list')
      /\ \A w : w \in WordsOf(chunk) => w \in WordsIn(free_list)
      /\ \A w : w \in WordsIn(free_list') <=> w \in WordsIn(free_list) /\ w \notin WordsOf(chunk)
      /\ ptr >= chunk.base + 3 /\ live' = live \cup {new} /\ result' = ptr
  BY DEF Given
<1>2. new \in [ptr : Nat, chunk : Pieces] /\ new.ptr = ptr /\ new.chunk = chunk
  OBVIOUS
<1>3. live \subseteq [ptr : Nat, chunk : Pieces] /\ HeaderKept
  BY DEF HInv
<1> HIDE DEF new
<1>4. \A b \in live' : b \in live \/ b = new
  BY <1>1
<1>5. live' \subseteq [ptr : Nat, chunk : Pieces] /\ result' \in Nat \cup {NULL}
  BY <1>1, <1>2, <1>3
<1>6. HeaderKept'
  <2>1. \A b \in live : b.ptr - 3 >= b.chunk.base
    BY <1>3 DEF HeaderKept, HeaderWords
  <2>2. new.ptr - 3 >= new.chunk.base
    BY <1>1, <1>2, InWords
  <2> QED BY <1>4, <2>1, <2>2 DEF HeaderKept, HeaderWords
<1>7. \A b \in live : ~ \E w : w \in WordsOf(b.chunk) /\ w \in WordsIn(free_list)
  BY EachWord
<1>8. \A b, c \in live' : b # c => WordsOf(b.chunk) \cap WordsOf(c.chunk) = {}
  BY <1>1, <1>2, <1>4, <1>7, EachWord
<1>9. \A b \in live' : WordsOf(b.chunk) \cap WordsIn(free_list') = {}
  BY <1>1, <1>2, <1>4, <1>7
<1>10. ASSUME NEW w
       PROVE w \in HeapWords <=> \/ w \in WordsIn(free_list')
                                 \/ \E b \in live' : w \in WordsOf(b.chunk)
  <2>1. w \in HeapWords <=> \/ w \in WordsIn(free_list)
                            \/ \E b \in live : w \in WordsOf(b.chunk)
    BY EachWord
  <2>2. (\E b \in live' : w \in WordsOf(b.chunk))
           <=> (\E b \in live : w \in WordsOf(b.chunk)) \/ w \in WordsOf(chunk)
    BY <1>1, <1>2
  <2> QED BY <1>1, <2>1, <2>2
<1>11. NoWordLost'
  <2>1. FreeWords' = WordsIn(free_list')
    BY DEF FreeWords, WordsIn
  <2>2. FreeWords' \cup UNION {WordsOf(b.chunk) : b \in live'} = HeapWords
    BY <1>10, <2>1
  <2> QED BY <1>8, <1>9, <2>1, <2>2 DEF NoWordLost, HeapWords
<1> QED BY <1>1, <1>5, <1>6, <1>11 DEF HInv

LEMMA HInvFree ==
    ASSUME HInv, NEW block \in live, heap_free(block)
    PROVE  HInv'
<1>1. /\ free_list' \in Seq(Pieces) /\ Sorted(free_list')
      /\ WordsIn(free_list') = WordsIn(free_list) \cup WordsOf(block.chunk)
  BY FreeTakes
<1>2. live' = live \ {block} /\ result' = result
  BY DEF heap_free
<1>3. live' \subseteq [ptr : Nat, chunk : Pieces] /\ result' \in Nat \cup {NULL} /\ HeaderKept'
  BY <1>2 DEF HInv, HeaderKept
<1>4. \A b, c \in live' : b # c => WordsOf(b.chunk) \cap WordsOf(c.chunk) = {}
  BY <1>2, EachWord
<1>5. \A b \in live' : WordsOf(b.chunk) \cap WordsIn(free_list') = {}
  <2>1. \A b \in live' : /\ WordsOf(b.chunk) \cap WordsOf(block.chunk) = {}
                         /\ WordsOf(b.chunk) \cap WordsIn(free_list) = {}
    BY <1>2, EachWord
  <2> QED BY <1>1, <2>1
<1>6. ASSUME NEW w
      PROVE w \in HeapWords <=> \/ w \in WordsIn(free_list')
                                \/ \E b \in live' : w \in WordsOf(b.chunk)
  <2>1. w \in HeapWords <=> \/ w \in WordsIn(free_list)
                            \/ \E b \in live : w \in WordsOf(b.chunk)
    BY EachWord
  <2> QED BY <1>1, <1>2, <2>1
<1>7. NoWordLost'
  <2>1. FreeWords' = WordsIn(free_list')
    BY DEF FreeWords, WordsIn
  <2>2. FreeWords' \cup UNION {WordsOf(b.chunk) : b \in live'} = HeapWords
    BY <1>6, <2>1
  <2> QED BY <1>4, <1>5, <2>1, <2>2 DEF NoWordLost, HeapWords
<1> QED BY <1>1, <1>3, <1>7 DEF HInv

LEMMA HInvStays ==
    ASSUME HInv, UNCHANGED <<free_list, live>>, result' \in Nat \cup {NULL}
    PROVE  HInv'
<1>1. Sorted(free_list)' /\ HeaderKept'
  BY DEF HInv, Sorted, HeaderKept
<1>2. NoWordLost'
  <2>1. FreeWords' = FreeWords
    BY DEF FreeWords
  <2>2. live' = live /\ NoWordLost
    BY DEF HInv
  <2> QED BY <2>1, <2>2 DEF NoWordLost
<1> QED BY <1>1, <1>2 DEF HInv

LEMMA HInvKeeps == HInv /\ [Next]_vars => HInv'
<1> SUFFICES ASSUME HInv, [Next]_vars PROVE HInv'
  OBVIOUS
<1>1. ASSUME NEW size \in Requests, NEW alignment \in Alignments, heap_alloc(size, alignment)
      PROVE  HInv'
  <2>1. CASE UNCHANGED <<free_list, live>> /\ result' = NULL
    BY <2>1, HInvStays
  <2>2. CASE \E chunk \in Pieces, ptr \in Nat : Given(size, alignment, chunk, ptr)
    BY <2>2, HInvAlloc
  <2> QED BY <1>1, <2>1, <2>2, AllocGives
<1>2. ASSUME NEW block \in live, heap_free(block) PROVE HInv'
  BY <1>2, HInvFree
<1>3. CASE UNCHANGED vars
  <2>1. UNCHANGED <<free_list, live>> /\ result' \in Nat \cup {NULL}
    BY <1>3 DEF vars, HInv
  <2> QED BY <2>1, HInvStays
<1> QED BY <1>1, <1>2, <1>3 DEF Next
-----------------------------------------------------------------------------
(* Theorems                                                                *)

LEMMA HInvImplies == HInv => HeapInv
<1> SUFFICES ASSUME HInv PROVE HeapInv
  OBVIOUS
<1>1. /\ free_list \in Seq(Pieces) /\ Sorted(free_list)
      /\ live \subseteq [ptr : Nat, chunk : Pieces]
      /\ result \in Nat \cup {NULL} /\ NoWordLost /\ HeaderKept
  BY DEF HInv
\* A chunk whose words are all words of the heap is no larger than the heap.
<1>2. ASSUME NEW c \in Pieces, \A w : w \in WordsOf(c) => w \in HeapWords PROVE c \in Chunks
  <2>1. /\ c.base \in Nat /\ c.len \in Nat /\ c.len >= 3 /\ End(c) = c.base + c.len
        /\ c = [base |-> c.base, len |-> c.len]
    BY InWords DEF Pieces
  <2>2. c.base \in WordsOf(c) /\ c.base + c.len - 1 \in WordsOf(c)
    BY <2>1, InWords
  <2>3. c.base \in HeapWords /\ c.base + c.len - 1 \in HeapWords
    BY <1>2, <2>2
  <2>4. c.len \in HeaderWords .. HEAP_LEN
    BY <2>1, <2>3, HeapAssumption DEF HeapWords, HeaderWords
  <2> QED BY <2>1, <2>4 DEF Chunks
<1>3. free_list \in Seq(Chunks)
  <2>1. ASSUME NEW i \in DOMAIN free_list PROVE free_list[i] \in Chunks
    <3>1. free_list[i] \in Pieces /\ \A w : w \in WordsOf(free_list[i]) => w \in WordsIn(free_list)
      BY <1>1, InList
    <3> QED BY <1>2, <3>1, EachWord
  <2> QED BY <1>1, <2>1
<1>4. live \subseteq [ptr : Nat, chunk : Chunks]
  <2>1. ASSUME NEW b \in live PROVE b \in [ptr : Nat, chunk : Chunks]
    <3>1. /\ b = [ptr |-> b.ptr, chunk |-> b.chunk] /\ b.ptr \in Nat /\ b.chunk \in Pieces
          /\ \A w : w \in WordsOf(b.chunk) => w \in HeapWords
      BY EachWord
    <3>2. b.chunk \in Chunks
      BY <1>2, <3>1
    <3> QED BY <3>1, <3>2
  <2> QED BY <2>1
<1>5. FreeListInv
  BY <1>1 DEF FreeListInv, Sorted
<1> QED BY <1>1, <1>3, <1>4, <1>5 DEF HeapInv, HeapTypeOK

\* heap.c: whatever is allocated and freed, in whatever order, no word of the
\* heap is lost or owned twice, every header stays whole, every chunk can hold
\* the struct that is written into it, and free chunks are merged as far as
\* they can be.
THEOREM HeapCorrect == Spec => []HeapInv
<1>1. HInv /\ [Next]_vars => HInv'
  BY HInvKeeps
<1> QED BY <1>1, HInvInit, HInvImplies, PTL DEF Spec

\* A run of free words lies in one chunk: the walk of heap_alloc finds it.
LEMMA RunInOneChunk ==
    ASSUME NEW s \in Seq(Pieces), Sorted(s), NEW x \in Int, NEW need \in Nat, need >= 1,
           x .. x + need - 1 \subseteq WordsIn(s)
    PROVE  \E i \in DOMAIN s : s[i].len >= need
<1>1. PICK i \in DOMAIN s : x \in WordsOf(s[i])
  <2>1. x \in x .. x + need - 1
    OBVIOUS
  <2> QED BY <2>1, InList
<1>2. \A j \in DOMAIN s : /\ s[j].base \in Nat /\ s[j].len \in Nat /\ End(s[j]) \in Nat
                          /\ s[j].base < End(s[j]) /\ End(s[j]) = s[j].base + s[j].len
                          /\ \A w : w \in WordsOf(s[j]) <=> w \in Int /\ s[j].base <= w /\ w < End(s[j])
  BY InList, InWords
<1>3. End(s[i]) \notin WordsIn(s)
  <2> SUFFICES ASSUME NEW j \in DOMAIN s, End(s[i]) \in WordsOf(s[j]) PROVE FALSE
    BY InList
  <2>1. s[j].base <= End(s[i]) /\ End(s[i]) < End(s[j])
    BY <1>2
  <2>2. i \in Nat /\ j \in Nat /\ (i = j \/ i < j \/ j < i)
    OBVIOUS
  <2>3. CASE i < j
    <3>1. End(s[i]) < s[j].base
      BY <2>3 DEF Sorted
    <3> QED BY <1>2, <2>1, <3>1
  <2>4. CASE j < i
    <3>1. End(s[j]) < s[i].base
      BY <2>4 DEF Sorted
    <3> QED BY <1>2, <2>1, <3>1
  <2>5. CASE i = j
    BY <1>2, <2>1, <2>5
  <2> QED BY <2>2, <2>3, <2>4, <2>5
<1>4. x + need - 1 < End(s[i])
  <2>1. End(s[i]) \notin x .. x + need - 1
    BY <1>3
  <2> QED BY <1>1, <1>2, <2>1
<1> QED BY <1>1, <1>2, <1>4
\* What the promise sees of an allocation, and of all of them.
Seen(b) == [ptr |-> b.ptr, words |-> WordsOf(b.chunk)]
Blocks == {Seen(b) : b \in live}

\* Allocations are told apart by what the promise sees of them.
LEMMA SeenOnce ==
    ASSUME HInv
    PROVE  \A b, c \in live : Seen(b) = Seen(c) => b = c
<1> SUFFICES ASSUME NEW b \in live, NEW c \in live, Seen(b) = Seen(c), b # c PROVE FALSE
  OBVIOUS
<1>1. WordsOf(b.chunk) = WordsOf(c.chunk)
  BY DEF Seen
<1>2. WordsOf(b.chunk) \cap WordsOf(c.chunk) = {} /\ b.chunk \in Pieces
  BY EachWord
<1>3. b.chunk.base \in WordsOf(b.chunk)
  BY <1>2, InWords
<1> QED BY <1>1, <1>2, <1>3

LEMMA AllocPromised ==
    ASSUME HInv, NEW size \in Requests, NEW alignment \in Alignments,
           ~ Malformed(alignment),
           NEW chunk \in Pieces, NEW ptr \in Nat, Given(size, alignment, chunk, ptr)
    PROVE  Promise!Alloc
<1> PICK first, last : first = chunk.base /\ last = End(chunk) - 1
  OBVIOUS
<1>1. /\ chunk.base \in Nat /\ End(chunk) \in Nat /\ End(chunk) >= chunk.base + 3
      /\ WordsOf(chunk) = first .. last
  BY InWords DEF WordsOf
<1>2. first \in Nat /\ last \in Nat /\ first <= last /\ first \in first .. last /\ last \in first .. last
  BY <1>1
<1>3. /\ first .. last \subseteq FreeWords /\ FreeWords' = FreeWords \ (first .. last)
  <2>1. FreeWords' = WordsIn(free_list')
    BY DEF FreeWords, WordsIn
  <2> QED BY <1>1, <2>1, FreeAre DEF Given
<1>4. /\ ptr >= chunk.base + 3 /\ ptr + size <= End(chunk) /\ size \in Nat
      /\ alignment > 0 => ptr % alignment = 0
      /\ live' = live \cup {[ptr |-> ptr, chunk |-> chunk]}
      /\ result' = ptr
  BY HeapAssumption DEF Given
<1>5. ptr \in first .. last + 1 /\ ptr + size - 1 <= last
  BY <1>1, <1>2, <1>4
<1>6. {[ptr |-> b.ptr, words |-> WordsOf(b.chunk)] : b \in live'}
        = {[ptr |-> b.ptr, words |-> WordsOf(b.chunk)] : b \in live}
          \cup {[ptr |-> ptr, words |-> first .. last]}
  <2> DEFINE new == [ptr |-> ptr, chunk |-> chunk]
  <2>1. new.ptr = ptr /\ new.chunk = chunk
    OBVIOUS
  <2>2. live' = live \cup {new}
    BY <1>4
  <2> HIDE DEF new
  <2> QED BY <1>1, <2>1, <2>2
<1>7. alignment \in Alignments \ {a \in Alignments : Malformed(a)}
  OBVIOUS
<1>8. first \in FreeWords /\ last \in FreeWords
  BY <1>2, <1>3
<1> QED BY <1>2, <1>3, <1>4, <1>5, <1>6, <1>7, <1>8 DEF Promise!Alloc

LEMMA FreePromised ==
    ASSUME HInv, NEW block \in live, heap_free(block)
    PROVE  Promise!Free
<1>1. FreeWords' = FreeWords \cup WordsOf(block.chunk)
  <2>1. FreeWords' = WordsIn(free_list')
    BY DEF FreeWords, WordsIn
  <2> QED BY <2>1, FreeTakes, FreeAre
<1>2. live' = live \ {block} /\ result' = result
  BY DEF heap_free
<1>3. {Seen(b) : b \in live'} = {Seen(b) : b \in live} \ {Seen(block)}
  <2>1. \A b \in live : b # block => Seen(b) # Seen(block)
    BY SeenOnce
  <2> QED BY <1>2, <2>1
<1>4. Seen(block) \in {Seen(b) : b \in live} /\ Seen(block).words = WordsOf(block.chunk)
  BY DEF Seen
<1> QED BY <1>1, <1>2, <1>3, <1>4 DEF Promise!Free, Seen

LEMMA FailPromised ==
    ASSUME HInv, NEW size \in Requests, NEW alignment \in Alignments,
           UNCHANGED <<free_list, live>>, result' = NULL,
           \/ Malformed(alignment)
           \/ \A i \in DOMAIN free_list : ~ (free_list[i].len >= Needed(size, alignment))
    PROVE  Promise!Fail
<1>1. FreeWords' = FreeWords /\ Blocks' = Blocks
  BY DEF FreeWords, Blocks
<1>2. \/ alignment \in {a \in Alignments : Malformed(a)}
      \/ \A x \in FreeWords : ~ (x .. x + Needed(size, alignment) - 1 \subseteq FreeWords)
  <2>1. CASE \A i \in DOMAIN free_list : ~ (free_list[i].len >= Needed(size, alignment))
    <3> SUFFICES ASSUME NEW x \in FreeWords,
                        x .. x + Needed(size, alignment) - 1 \subseteq FreeWords
                 PROVE  FALSE
      OBVIOUS
    <3>1. Needed(size, alignment) \in Nat /\ Needed(size, alignment) >= 1
      <4>1. size \in Nat /\ alignment \in Nat
        BY HeapAssumption
      <4> QED BY <4>1 DEF Needed, Aligned, HeaderWords
    <3>2. free_list \in Seq(Pieces) /\ Sorted(free_list)
      BY DEF HInv
    <3>3. x \in Int
      <4>1. PICK i \in DOMAIN free_list : x \in WordsOf(free_list[i])
        BY <3>2, InList, FreeAre
      <4>2. free_list[i] \in Pieces
        BY <3>2, InList
      <4> QED BY <4>1, <4>2, InWords
    <3>4. PICK need : need = Needed(size, alignment)
      OBVIOUS
    <3>5. \E i \in DOMAIN free_list : free_list[i].len >= need
      <4>1. need \in Nat /\ need >= 1 /\ x .. x + need - 1 \subseteq WordsIn(free_list)
        BY <3>1, <3>4, FreeAre
      <4> QED BY <3>2, <3>3, <4>1, RunInOneChunk
    <3> QED BY <2>1, <3>4, <3>5
  <2>2. CASE Malformed(alignment)
    BY <2>2
  <2> QED BY <2>1, <2>2
<1> QED BY <1>1, <1>2 DEF Promise!Fail, Blocks, Seen

\* heap.c keeps its promise: every allocation is a region of its own, as large
\* and as aligned as was asked; what is freed can be allocated again; and
\* heap_alloc fails only if no run of free words is long enough.
THEOREM HeapKeepsPromise == Spec => PromiseSpec
<1>1. Init => Promise!Init
  <2> SUFFICES ASSUME Init PROVE Promise!Init
    OBVIOUS
  <2>1. live = {} /\ result = NULL
    BY DEF Init
  <2>2. FreeWords = HEAP_START .. HEAP_START + HEAP_LEN - 1
    <3>1. NoWordLost
      BY HInvInit DEF HInv
    <3> QED BY <2>1, <3>1 DEF NoWordLost
  <2> QED BY <2>1, <2>2 DEF Promise!Init
<1>2. HInv /\ [Next]_vars => [Promise!Next]_(Promise!vars)
  <2> SUFFICES ASSUME HInv, [Next]_vars PROVE Promise!Next \/ UNCHANGED Promise!vars
    OBVIOUS
  <2>1. ASSUME NEW size \in Requests, NEW alignment \in Alignments, heap_alloc(size, alignment)
        PROVE  Promise!Next
    <3>1. CASE /\ UNCHANGED <<free_list, live>> /\ result' = NULL
               /\ \/ Malformed(alignment)
                  \/ \A i \in DOMAIN free_list : ~ (free_list[i].len >= Needed(size, alignment))
      BY <3>1, FailPromised DEF Promise!Next
    <3>2. CASE /\ ~ Malformed(alignment)
               /\ \E chunk \in Pieces, ptr \in Nat : Given(size, alignment, chunk, ptr)
      BY <3>2, AllocPromised DEF Promise!Next
    <3> QED BY <2>1, <3>1, <3>2, AllocGives
  <2>2. ASSUME NEW block \in live, heap_free(block) PROVE Promise!Next
    BY <2>2, FreePromised DEF Promise!Next
  <2>3. CASE UNCHANGED vars
    <3>1. FreeWords' = FreeWords /\ Blocks' = Blocks /\ result' = result
      BY <2>3 DEF vars, FreeWords, Blocks
    <3> QED BY <3>1 DEF Promise!vars, Blocks, Seen
  <2> QED BY <2>1, <2>2, <2>3 DEF Next
<1>3. HInv /\ [Next]_vars => HInv'
  BY HInvKeeps
<1> QED BY <1>1, <1>2, <1>3, HInvInit, PTL DEF Spec, PromiseSpec, Promise!Spec

=============================================================================
