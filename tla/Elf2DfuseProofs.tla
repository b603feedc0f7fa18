--------------------------- MODULE Elf2DfuseProofs ---------------------------
(* For any set of well-linked files, any alignment and any memory: the image   *)
(* is as long as its prefixes announce, and a loader that believes them has    *)
(* every byte of every kept section at its physical address.                   *)
(* What a fold computes follows by induction, for which a set takes the place  *)
(* of the predicate: a set of numbers that is not empty has a least one.       *)
EXTENDS Elf2Dfuse, SequenceTheorems, WellFoundedInduction, TLAPS

-----------------------------------------------------------------------------
\* Induction, and the folds of the community modules.

\* A set of numbers has a least one: the naturals are well-founded.
LEMMA Least ==
  ASSUME NEW S \in SUBSET Nat, S # {}
  PROVE  \E n \in S : \A m \in S : n <= m
<1>1. PICK R : IsWellFoundedOn(R, Nat) /\ \A x \in Nat, y \in Nat : y < x => <<y, x>> \in R
  BY NatLessThanWellFounded DEF OpToRel
<1>2. PICK n \in S : \A m \in S : ~(<<m, n>> \in R)
  BY <1>1, WFMin
<1>3. \A m \in S : n <= m
  <2> SUFFICES ASSUME NEW m \in S, ~(n <= m)
               PROVE  FALSE
    OBVIOUS
  <2>1. n \in Nat /\ m \in Nat /\ m < n
    OBVIOUS
  <2>2. <<m, n>> \in R
    BY <1>1, <2>1
  <2> QED
    BY <1>2, <2>2
<1> QED
  BY <1>3

\* Induction, for a set in the place of a predicate.
LEMMA Induct ==
  ASSUME NEW S, 0 \in S, \A n \in Nat : n \in S => n + 1 \in S
  PROVE  Nat \subseteq S
<1> DEFINE T == Nat \ S
<1> SUFFICES ASSUME T # {}
             PROVE  FALSE
  OBVIOUS
<1>1. PICK n \in T : \A m \in T : n <= m
  <2> HIDE DEF T
  <2>1. T \in SUBSET Nat
    BY DEF T
  <2> QED
    BY <2>1, Least
<1>2. n # 0
  OBVIOUS
<1>3. n - 1 \in Nat /\ n - 1 \notin T /\ (n - 1) + 1 = n
  BY <1>1, <1>2
<1> QED
  BY <1>1, <1>3

\* Min picks it.
LEMMA MinIs ==
  ASSUME NEW S \in SUBSET Nat, S # {}
  PROVE  Min(S) \in S /\ \A m \in S : Min(S) <= m
<1>1. \E n \in S : \A m \in S : n <= m
  BY Least
<1> QED
  BY <1>1 DEF Min

\* A set of numbers up to n has a greatest one.
Greatest(s) == Max(s) \in s /\ \A y \in s : Max(s) >= y

\* Max picks it.
LEMMA MaxIs ==
  ASSUME NEW n \in Nat, NEW s \in SUBSET (1..n), s # {}
  PROVE  Greatest(s)
<1> DEFINE A == {k \in Nat : \A r \in SUBSET (1..k) : r # {} => \E x \in r : \A y \in r : x >= y}
<1>1. 0 \in A
  <2>1. \A r \in SUBSET (1..0) : r = {}
    OBVIOUS
  <2> QED
    BY <2>1
<1>2. ASSUME NEW k \in Nat, k \in A
      PROVE  k + 1 \in A
  <2> SUFFICES ASSUME NEW r \in SUBSET (1..(k + 1)), r # {}
               PROVE  \E x \in r : \A y \in r : x >= y
    OBVIOUS
  <2>1. CASE k + 1 \in r
    <3>1. \A y \in r : k + 1 >= y
      OBVIOUS
    <3> QED
      BY <2>1, <3>1
  <2>2. CASE k + 1 \notin r
    <3>1. r \in SUBSET (1..k)
      BY <2>2
    <3> QED
      BY <1>2, <3>1
  <2> QED
    BY <2>1, <2>2
<1>3. n \in A
  <2> HIDE DEF A
  <2> QED
    BY <1>1, <1>2, Induct
<1>4. \E x \in s : \A y \in s : x >= y
  BY <1>3
<1> QED
  BY <1>4 DEF Max, Greatest

\* The greatest of the numbers up to n + 1.
LEMMA MaxOfInterval ==
  ASSUME NEW n \in Nat
  PROVE  Max(1..(n + 1)) = n + 1
<1>1. Greatest(1..(n + 1))
  <2>1. n + 1 \in 1..(n + 1)
    OBVIOUS
  <2> QED
    BY <2>1, MaxIs
<1> QED
  BY <1>1 DEF Greatest

\* The equation of a fold over the numbers 1..n.
FoldEquation(g, H, base, n) == g = [s \in SUBSET (1..n) |->
    IF s = {} THEN base ELSE H[<<g[s \ {Max(s)}], Max(s)>>]]

\* It has a solution, whose values are those that H and base let it have.
LEMMA FoldExists ==
  ASSUME NEW V, NEW base \in V, NEW n \in Nat, NEW H \in [V \X (1..n) -> V]
  PROVE  \E g \in [SUBSET (1..n) -> V] : FoldEquation(g, H, base, n)
<1> DEFINE P(k) == k <= n => \E g \in [SUBSET (1..k) -> V] : FoldEquation(g, H, base, k)
<1>1. P(0)
  <2> DEFINE g == [s \in SUBSET (1..0) |-> base]
  <2>1. \A s \in SUBSET (1..0) : s = {}
    OBVIOUS
  <2>2. FoldEquation(g, H, base, 0)
    BY <2>1 DEF FoldEquation
  <2>3. g \in [SUBSET (1..0) -> V]
    OBVIOUS
  <2> QED
    BY <2>2, <2>3
<1>2. ASSUME NEW k \in Nat, P(k)
      PROVE  P(k + 1)
  <2> SUFFICES ASSUME k + 1 <= n
               PROVE  \E h \in [SUBSET (1..(k + 1)) -> V] : FoldEquation(h, H, base, k + 1)
    OBVIOUS
  <2>1. PICK g \in [SUBSET (1..k) -> V] : FoldEquation(g, H, base, k)
    <3>1. k <= n
      OBVIOUS
    <3> QED
      BY <1>2, <3>1, Zenon
  <2> DEFINE h == [s \in SUBSET (1..(k + 1)) |->
                     IF k + 1 \in s THEN H[<<g[s \ {k + 1}], k + 1>>] ELSE g[s]]
             e == [s \in SUBSET (1..(k + 1)) |->
                     IF s = {} THEN base ELSE H[<<h[s \ {Max(s)}], Max(s)>>]]
  <2>2. \A s \in SUBSET (1..k) : h[s] = g[s]
    OBVIOUS
  <2>3. ASSUME NEW s \in SUBSET (1..(k + 1))
        PROVE  h[s] \in V /\ h[s] = e[s]
    <3>0. s # {} => Greatest(s)
      <4>1. k + 1 \in Nat
        OBVIOUS
      <4> HIDE DEF h, e
      <4> QED
        BY <4>1, MaxIs
    <3>1. CASE k + 1 \in s
      <4>1. Max(s) = k + 1
        <5>1. Max(s) \in 1..(k + 1) /\ Max(s) >= k + 1
          BY <3>0, <3>1 DEF Greatest
        <5> QED
          BY <5>1
      <4>2. s \ {k + 1} \in SUBSET (1..k)
        OBVIOUS
      <4>3. h[s] = H[<<g[s \ {k + 1}], k + 1>>]
        BY <3>1
      <4>4. h[s \ {k + 1}] = g[s \ {k + 1}]
        BY <2>2, <4>2
      <4>5. e[s] = H[<<h[s \ {Max(s)}], Max(s)>>]
        BY <3>1
      <4>6. h[s] \in V
        <5>1. g[s \ {k + 1}] \in V /\ k + 1 \in 1..n
          BY <4>2
        <5> HIDE DEF h
        <5> QED
          BY <4>3, <5>1
      <4> HIDE DEF h, e
      <4> QED
        BY <4>1, <4>3, <4>4, <4>5, <4>6
    <3>2. CASE k + 1 \notin s
      <4>1. s \in SUBSET (1..k)
        BY <3>2
      <4>2. s # {} => s \ {Max(s)} \in SUBSET (1..k)
        BY <4>1
      <4>3. g[s] = IF s = {} THEN base ELSE H[<<g[s \ {Max(s)}], Max(s)>>]
        BY <2>1, <4>1 DEF FoldEquation
      <4>4. h[s] = g[s]
        BY <2>2, <4>1
      <4>5. s # {} => h[s \ {Max(s)}] = g[s \ {Max(s)}]
        BY <2>2, <4>2
      <4>6. e[s] = IF s = {} THEN base ELSE H[<<h[s \ {Max(s)}], Max(s)>>]
        OBVIOUS
      <4>7. g[s] \in V
        BY <4>1
      <4> HIDE DEF h, e
      <4> QED
        BY <4>3, <4>4, <4>5, <4>6, <4>7
    <3> QED
      BY <3>1, <3>2
  <2>4. h = [s \in SUBSET (1..(k + 1)) |-> h[s]] /\ e = [s \in SUBSET (1..(k + 1)) |-> e[s]]
    BY Zenon
  <2>5. h = e
    <3> HIDE DEF h, e
    <3> QED
      BY <2>3, <2>4
  <2>6. h \in [SUBSET (1..(k + 1)) -> V]
    <3> HIDE DEF h, e
    <3> QED
      BY <2>3, <2>4
  <2>7. FoldEquation(h, H, base, k + 1)
    <3> HIDE DEF h
    <3> QED
      BY <2>5 DEF FoldEquation
  <2> QED
    BY <2>6, <2>7
<1>3. P(n)
  <2> HIDE DEF P
  <2> DEFINE A == {k \in Nat : P(k)}
  <2>1. 0 \in A /\ \A k \in Nat : k \in A => k + 1 \in A
    BY <1>1, <1>2
  <2>2. Nat \subseteq A
    <3> HIDE DEF A
    <3> QED
      BY <2>1, Induct
  <2> QED
    BY <2>2
<1> QED
  <2>1. n <= n
    OBVIOUS
  <2> QED
    BY <1>3, <2>1, Zenon

-----------------------------------------------------------------------------
\* The sums of the element sizes.

Blob == [section : Nat, count : Nat, address : Nat]

SumEquation(g, s, n) == g = [r \in SUBSET (1..n) |->
    IF r = {} THEN 0 ELSE g[r \ {Max(r)}] + s[Max(r)].count]

\* The fold of ElementSize is such an equation.
LEMMA SumUnfolds ==
  ASSUME NEW k, NEW e, NEW s \in Seq(Blob), s = SubSeq(blobs, k, e)
  PROVE  ElementSize(k, e) = (CHOOSE g : SumEquation(g, s, Len(s)))[1..Len(s)]
<1>1. ElementSize(k, e) = FoldLeft(LAMBDA sum, b : sum + b.count, 0, s)
  BY DEF ElementSize
<1>2. FoldLeft(LAMBDA sum, b : sum + b.count, 0, s)
        = (CHOOSE g : g = [r \in SUBSET (DOMAIN s) |->
             IF r = {} THEN 0 ELSE g[r \ {Max(r)}] + s[Max(r)].count])[DOMAIN s]
  BY Zenon DEF FoldLeft, MapThenFoldSet
<1>3. DOMAIN s = 1..Len(s)
  OBVIOUS
<1> QED
  BY <1>1, <1>2, <1>3, Zenon DEF SumEquation

\* It has a solution.
LEMMA SumExists ==
  ASSUME NEW s \in Seq(Blob)
  PROVE  \E g : SumEquation(g, s, Len(s))
<1> DEFINE n == Len(s)
           H == [p \in Int \X (1..n) |-> p[1] + s[p[2]].count]
<1>1. n \in Nat
  OBVIOUS
<1>2. \A j \in 1..n : s[j].count \in Int
  <2> TAKE j \in 1..n
  <2>1. s[j] \in Blob
    OBVIOUS
  <2>2. s[j].count \in Nat
    BY <2>1 DEF Blob
  <2> QED
    BY <2>2
<1>3. H \in [Int \X (1..n) -> Int]
  <2> HIDE DEF n
  <2> QED
    BY <1>2
<1>4. \A x \in Int, j \in 1..n : H[<<x, j>>] = x + s[j].count
  <2> HIDE DEF n
  <2> QED
    OBVIOUS
<1> HIDE DEF n, H
<1>5. PICK g \in [SUBSET (1..n) -> Int] : FoldEquation(g, H, 0, n)
  <2>1. 0 \in Int
    OBVIOUS
  <2> QED
    BY <1>1, <1>3, <2>1, FoldExists
<1> DEFINE h == [r \in SUBSET (1..n) |-> IF r = {} THEN 0 ELSE g[r \ {Max(r)}] + s[Max(r)].count]
           e == [r \in SUBSET (1..n) |-> IF r = {} THEN 0 ELSE H[<<g[r \ {Max(r)}], Max(r)>>]]
<1>6. ASSUME NEW r \in SUBSET (1..n)
      PROVE  h[r] = e[r]
  <2>1. r # {} => Max(r) \in 1..n
    BY <1>1, MaxIs DEF Greatest
  <2>2. g[r \ {Max(r)}] \in Int
    OBVIOUS
  <2>3. r # {} => H[<<g[r \ {Max(r)}], Max(r)>>] = g[r \ {Max(r)}] + s[Max(r)].count
    BY <1>4, <2>1, <2>2
  <2> QED
    BY <2>3
<1>7. h = e
  <2>1. h = [r \in SUBSET (1..n) |-> h[r]] /\ e = [r \in SUBSET (1..n) |-> e[r]]
    BY Zenon
  <2> HIDE DEF h, e
  <2> QED
    BY <1>6, <2>1
<1>8. g = e
  BY <1>5 DEF FoldEquation
<1>9. g = h
  <2> HIDE DEF h, e
  <2> QED
    BY <1>7, <1>8
<1>10. SumEquation(g, s, n)
  BY <1>9, Zenon DEF SumEquation
<1> QED
  BY <1>10, Zenon DEF n

\* A sum is what its partial sums lead to.
LEMMA SumIs ==
  ASSUME NEW k, NEW e, NEW s \in Seq(Blob), s = SubSeq(blobs, k, e),
         NEW f \in [0..Len(s) -> Int], f[0] = 0,
         \A m \in 0..(Len(s) - 1) : f[m + 1] = f[m] + s[m + 1].count
  PROVE  ElementSize(k, e) = f[Len(s)]
<1> DEFINE n == Len(s)
           g == CHOOSE g : SumEquation(g, s, n)
           P(m) == m <= n => g[1..m] = f[m]
<1>1. SumEquation(g, s, n)
  BY SumExists
<1>2. n \in Nat
  OBVIOUS
<1> HIDE DEF n, g
<1>3. P(0)
  <2>1. 1..0 = {} /\ {} \in SUBSET (1..n)
    OBVIOUS
  <2>2. g[{}] = 0
    BY <1>1, <2>1, Zenon DEF SumEquation
  <2> QED
    BY <2>1, <2>2
<1>4. ASSUME NEW m \in Nat, P(m)
      PROVE  P(m + 1)
  <2> SUFFICES ASSUME m + 1 <= n
               PROVE  g[1..(m + 1)] = f[m + 1]
    OBVIOUS
  <2>1. g[1..m] = f[m]
    <3>1. m <= n
      BY <1>2
    <3> QED
      BY <1>4, <3>1, Zenon
  <2>2. 1..(m + 1) \in SUBSET (1..n) /\ 1..(m + 1) # {} /\ (1..(m + 1)) \ {m + 1} = 1..m
    <3>1. \A x \in 1..(m + 1) : x \in 1..n
      BY <1>2
    <3>2. m + 1 \in 1..(m + 1)
      OBVIOUS
    <3>3. \A x : x \in (1..(m + 1)) \ {m + 1} <=> x \in 1..m
      OBVIOUS
    <3> QED
      BY <3>1, <3>2, <3>3
  <2>3. Max(1..(m + 1)) = m + 1
    BY MaxOfInterval
  <2>4. g[1..(m + 1)] = g[1..m] + s[m + 1].count
    <3> DEFINE r == 1..(m + 1)
    <3>1. g[r] = g[r \ {Max(r)}] + s[Max(r)].count
      <4> HIDE DEF r
      <4>1. r \in SUBSET (1..n) /\ r # {}
        BY <2>2 DEF r
      <4> QED
        BY <1>1, <4>1 DEF SumEquation
    <3> QED
      BY <2>2, <2>3, <3>1
  <2>5. f[m + 1] = f[m] + s[m + 1].count
    BY <1>2 DEF n
  <2> QED
    BY <2>1, <2>4, <2>5
<1>5. P(n)
  <2> DEFINE A == {m \in Nat : P(m)}
  <2> HIDE DEF P
  <2>1. 0 \in A /\ \A m \in Nat : m \in A => m + 1 \in A
    BY <1>3, <1>4
  <2>2. Nat \subseteq A
    <3> HIDE DEF A
    <3> QED
      BY <2>1, Induct
  <2> QED
    BY <1>2, <2>2
<1>6. ElementSize(k, e) = g[1..n]
  BY SumUnfolds, Zenon DEF g, n
<1>7. g[1..n] = f[n]
  BY <1>2, <1>5
<1> QED
  BY <1>6, <1>7 DEF n

-----------------------------------------------------------------------------
\* The elements of a sorted list of blobs.

End(m) == blobs[m].address + blobs[m].count
Sorted ==
    /\ blobs \in Seq(Blob)
    /\ \A l, m \in 1..Len(blobs) : l < m => End(l) <= blobs[m].address
    /\ \A m \in 1..Len(blobs) : blobs[m].count = 0 => m < Len(blobs) /\ Contiguous(m)
    /\ \A m \in 1..Len(blobs) : End(m) <= MaxAddress + 1

\* The parts of a blob, and its end.
LEMMA BlobFacts ==
  ASSUME Sorted
  PROVE  \A m \in 1..Len(blobs) :
           /\ blobs[m].address \in Nat /\ blobs[m].count \in Nat /\ blobs[m].section \in Nat
           /\ End(m) \in Nat /\ blobs[m].address <= End(m)
<1> TAKE m \in 1..Len(blobs)
<1>1. blobs[m] \in Blob
  BY DEF Sorted
<1>2. blobs[m].address \in Nat /\ blobs[m].count \in Nat /\ blobs[m].section \in Nat
  BY <1>1 DEF Blob
<1> QED
  BY <1>2 DEF End

\* The run of an element ends, and with a blob that has something in it.
LEMMA ElementEndIs ==
  ASSUME Sorted, NEW k \in 1..Len(blobs)
  PROVE  /\ ElementEnd(k) \in k..Len(blobs)
         /\ \A j \in k..(ElementEnd(k) - 1) : Contiguous(j)
         /\ ElementEnd(k) < Len(blobs) => ~Contiguous(ElementEnd(k))
         /\ blobs[ElementEnd(k)].count > 0
<1> DEFINE S == {e \in k..Len(blobs) : e < Len(blobs) => ~Contiguous(e)}
<1>0. Len(blobs) \in Nat
  BY DEF Sorted
<1>1. PICK e \in S : \A m \in S : e <= m
  <2>1. S \in SUBSET Nat /\ Len(blobs) \in S
    BY <1>0
  <2> HIDE DEF S
  <2> QED
    BY <2>1, Least
<1>2. e \in k..Len(blobs) /\ (e < Len(blobs) => ~Contiguous(e))
  OBVIOUS
<1>3. \A j \in k..(e - 1) : Contiguous(j)
  <2> SUFFICES ASSUME NEW j \in k..(e - 1), ~Contiguous(j)
               PROVE  FALSE
    OBVIOUS
  <2>1. j \in S
    BY <1>0, <1>2
  <2> HIDE DEF S
  <2> QED
    BY <1>0, <1>1, <1>2, <2>1
<1>4. /\ ElementEnd(k) \in k..Len(blobs)
      /\ \A j \in k..(ElementEnd(k) - 1) : Contiguous(j)
      /\ ElementEnd(k) < Len(blobs) => ~Contiguous(ElementEnd(k))
  <2> HIDE DEF S
  <2> QED
    BY <1>2, <1>3, Zenon DEF ElementEnd
<1>5. blobs[ElementEnd(k)].count > 0
  <2>1. ElementEnd(k) \in 1..Len(blobs)
    BY <1>0, <1>4
  <2>2. blobs[ElementEnd(k)].count # 0
    BY <1>4, <2>1 DEF Sorted
  <2> QED
    BY <2>1, <2>2, BlobFacts
<1> QED
  BY <1>4, <1>5

\* The size of a run without a gap is the distance from its start to its end.
LEMMA RunSize ==
  ASSUME Sorted, NEW k \in 1..Len(blobs), NEW e \in (k - 1)..Len(blobs),
         \A j \in k..(e - 1) : Contiguous(j)
  PROVE  ElementSize(k, e) = IF e < k THEN 0 ELSE End(e) - blobs[k].address
<1> DEFINE s == SubSeq(blobs, k, e)
           f == [m \in 0..(e - k + 1) |-> IF m = 0 THEN 0 ELSE End(k + m - 1) - blobs[k].address]
<1>0. Len(blobs) \in Nat /\ blobs \in Seq(Blob)
  BY DEF Sorted
<1>1. s \in Seq(Blob) /\ Len(s) = e - k + 1 /\ \A m \in 1..(e - k + 1) : s[m] = blobs[k + m - 1]
  BY <1>0
<1>2. f \in [0..Len(s) -> Int]
  <2>1. ASSUME NEW m \in 1..(e - k + 1)
        PROVE  End(k + m - 1) - blobs[k].address \in Int
    <3>1. k + m - 1 \in 1..Len(blobs)
      BY <1>0
    <3> QED
      BY <3>1, BlobFacts
  <2> HIDE DEF s
  <2> QED
    BY <1>1, <2>1
<1>3. f[0] = 0
  BY <1>0
<1>4. ASSUME NEW m \in 0..(Len(s) - 1)
      PROVE  f[m + 1] = f[m] + s[m + 1].count
  <2>0. m \in Nat /\ m <= e - k /\ k + m \in 1..Len(blobs) /\ k + m - 1 \in Nat
    <3> HIDE DEF s
    <3> QED
      BY <1>0, <1>1
  <2>1. f[m + 1] = End(k + m) - blobs[k].address
    <3> HIDE DEF s
    <3> QED
      BY <1>0, <2>0
  <2>2. s[m + 1] = blobs[k + m]
    BY <1>1, <2>0
  <2>3. f[m] = IF m = 0 THEN 0 ELSE End(k + m - 1) - blobs[k].address
    BY <2>0
  <2>4. m # 0 => Contiguous(k + m - 1)
    <3> HIDE DEF s, f
    <3> QED
      BY <1>0, <2>0
  <2>5. blobs[k + m].address \in Nat /\ blobs[k + m].count \in Nat
    BY <2>0, BlobFacts
  <2>6. m # 0 => blobs[k + m].address = End(k + m - 1)
    <3>1. (k + m - 1) + 1 = k + m
      BY <2>0
    <3> HIDE DEF s, f
    <3> QED
      BY <2>4, <3>1 DEF Contiguous, End
  <2>7. End(k + m) = blobs[k + m].address + blobs[k + m].count
    BY DEF End
  <2>8. blobs[k].address \in Nat
    BY BlobFacts
  <2> HIDE DEF s, f
  <2>9. f[m + 1] = blobs[k + m].address + blobs[k + m].count - blobs[k].address
    <3> DEFINE a == blobs[k + m].address
               c == blobs[k + m].count
               b == blobs[k].address
               r == End(k + m)
    <3>1. a \in Nat /\ c \in Nat /\ b \in Nat /\ r = a + c
      BY <2>5, <2>7, <2>8
    <3>2. f[m + 1] = r - b
      BY <2>1
    <3> HIDE DEF a, b, c, r
    <3>3. r - b = a + (c - b)
      BY <3>1
    <3>4. f[m + 1] = a + (c - b)
      BY <3>2, <3>3
    <3> QED
      BY <3>4 DEF a, b, c
  <2>10. CASE m = 0
    <3>1. k + m = k
      BY <2>10
    <3>2. s[m + 1].count = blobs[k].count /\ f[m] = 0
      BY <2>2, <2>3, <2>10, <3>1
    <3> QED
      BY <2>5, <2>8, <2>9, <3>1, <3>2
  <2>11. CASE m # 0
    <3>1. f[m] = blobs[k + m].address - blobs[k].address
      BY <2>3, <2>6, <2>11
    <3> QED
      BY <2>2, <2>5, <2>8, <2>9, <3>1
  <2> QED
    BY <2>10, <2>11
<1>5. ElementSize(k, e) = f[Len(s)]
  <2> HIDE DEF f
  <2> QED
    BY <1>1, <1>2, <1>3, <1>4, SumIs
<1> QED
  <2>1. f[Len(s)] = IF e - k + 1 = 0 THEN 0 ELSE End(k + (e - k + 1) - 1) - blobs[k].address
    <3> HIDE DEF s
    <3> QED
      BY <1>0, <1>1
  <2>2. k + (e - k + 1) - 1 = e
    OBVIOUS
  <2> HIDE DEF s, f
  <2> QED
    BY <1>0, <1>5, <2>1, <2>2

\* The size of the element that starts with blob k.
Size(k) == ElementSize(k, ElementEnd(k))

\* It is the distance between its ends, and never 0.
LEMMA SizeIs ==
  ASSUME Sorted, NEW k \in 1..Len(blobs)
  PROVE  /\ Size(k) = End(ElementEnd(k)) - blobs[k].address
         /\ Size(k) \in Nat \ {0}
<1> DEFINE e == ElementEnd(k)
<1>1. /\ e \in k..Len(blobs) /\ blobs[e].count > 0
      /\ \A j \in k..(e - 1) : Contiguous(j)
  BY ElementEndIs
<1> HIDE DEF e
<1>2. e \in (k - 1)..Len(blobs) /\ ~(e < k) /\ e \in 1..Len(blobs)
  BY <1>1 DEF Sorted
<1>3. Size(k) = End(e) - blobs[k].address
  <2>1. ElementSize(k, e) = End(e) - blobs[k].address
    BY <1>1, <1>2, RunSize
  <2> QED
    BY <2>1 DEF Size, e
<1>4. k < e => End(k) <= blobs[e].address
  BY <1>2 DEF Sorted
<1>5. /\ End(k) \in Nat /\ blobs[k].address <= End(k) /\ blobs[k].address \in Nat
      /\ blobs[e].address \in Nat /\ blobs[e].count \in Nat /\ End(e) = blobs[e].address + blobs[e].count
  BY <1>2, BlobFacts DEF End
<1>6. k = e \/ k < e
  BY <1>1 DEF Sorted
<1> QED
  BY <1>1, <1>3, <1>4, <1>5, <1>6 DEF e

\* The second pass writes the blobs of the element, all of them.
LEMMA LastWrittenIs ==
  ASSUME Sorted, NEW k \in 1..Len(blobs)
  PROVE  LastWritten(k) = ElementEnd(k)
<1> DEFINE e == ElementEnd(k)
<1>0. Len(blobs) \in Nat
  BY DEF Sorted
<1>1. /\ e \in k..Len(blobs) /\ blobs[e].count > 0
      /\ \A j \in k..(e - 1) : Contiguous(j)
  BY ElementEndIs
<1>2. Size(k) = End(e) - blobs[k].address /\ Size(k) \in Nat /\ Size(k) > 0
  BY SizeIs
<1>s. ElementSize(k, e) = Size(k)
  BY DEF Size
<1> HIDE DEF e
<1>3. ASSUME NEW j \in (k - 1)..(e - 1)
      PROVE  ElementSize(k, j) < Size(k)
  <2>1. j \in (k - 1)..Len(blobs) /\ \A x \in k..(j - 1) : Contiguous(x)
    BY <1>0, <1>1
  <2>2. ElementSize(k, j) = IF j < k THEN 0 ELSE End(j) - blobs[k].address
    BY <2>1, RunSize
  <2>3. CASE j < k
    BY <1>2, <2>2, <2>3
  <2>4. CASE ~(j < k)
    <3>1. j \in 1..Len(blobs) /\ e \in 1..Len(blobs) /\ j < e
      BY <1>0, <1>1, <2>4
    <3>2. End(j) <= blobs[e].address
      BY <3>1 DEF Sorted
    <3>3. /\ End(j) \in Nat /\ blobs[k].address \in Nat
          /\ blobs[e].address \in Nat /\ blobs[e].count \in Nat /\ End(e) = blobs[e].address + blobs[e].count
      BY <3>1, BlobFacts DEF End
    <3>4. ElementSize(k, j) = End(j) - blobs[k].address
      BY <2>2, <2>4, Zenon
    <3> HIDE DEF End
    <3> QED
      BY <1>1, <1>2, <3>2, <3>3, <3>4
  <2> QED
    BY <2>3, <2>4
<1>4. LastWritten(k) = CHOOSE x \in (k - 1)..e : /\ ElementSize(k, x) = Size(k)
                                                /\ \A j \in (k - 1)..(x - 1) : ElementSize(k, j) < Size(k)
  BY Zenon DEF LastWritten, Size, e
<1>5. e \in (k - 1)..e
  BY <1>0, <1>1
<1> DEFINE w == LastWritten(k)
<1>6. w \in (k - 1)..e /\ ElementSize(k, w) = Size(k)
  BY <1>3, <1>4, <1>5, <1>s, Zenon
<1> HIDE DEF w
<1>7. ~(w \in (k - 1)..(e - 1))
  BY <1>2, <1>3, <1>6
<1> QED
  BY <1>0, <1>1, <1>6, <1>7 DEF e, w

-----------------------------------------------------------------------------
\* The data of an element.

\* What the memory is to hold at an address.
BlobAt(a) == CHOOSE m \in 1..Len(blobs) : blobs[m].address <= a /\ a < End(m)
Content(a) == Byte(blobs[BlobAt(a)].section, a - blobs[BlobAt(a)].address + 1)

\* No two blobs share an address.
LEMMA BlobAtIs ==
  ASSUME Sorted, NEW m \in 1..Len(blobs), NEW a \in Nat, blobs[m].address <= a, a < End(m)
  PROVE  BlobAt(a) = m
<1> DEFINE l == BlobAt(a)
<1>1. l \in 1..Len(blobs) /\ blobs[l].address <= a /\ a < End(l)
  BY Zenon DEF BlobAt
<1> HIDE DEF l
<1>2. /\ blobs[l].address \in Nat /\ End(l) \in Nat
      /\ blobs[m].address \in Nat /\ End(m) \in Nat
  BY <1>1, BlobFacts
<1>3. (l < m => End(l) <= blobs[m].address) /\ (m < l => End(m) <= blobs[l].address)
  BY <1>1 DEF Sorted
<1>4. l = m
  BY <1>1, <1>2, <1>3
<1> QED
  BY <1>4 DEF l

\* Within a blob, memory is to hold its bytes.
LEMMA ContentIs ==
  ASSUME Sorted, NEW m \in 1..Len(blobs), NEW x \in 1..blobs[m].count
  PROVE  Content(blobs[m].address + x - 1) = Byte(blobs[m].section, x)
<1> DEFINE a == blobs[m].address + x - 1
<1>1. blobs[m].address \in Nat /\ blobs[m].count \in Nat /\ End(m) = blobs[m].address + blobs[m].count
  BY BlobFacts DEF End
<1>2. x \in Nat /\ a \in Nat /\ blobs[m].address <= a /\ a < End(m) /\ a - blobs[m].address + 1 = x
  BY <1>1
<1> HIDE DEF a
<1>3. BlobAt(a) = m
  BY <1>2, BlobAtIs
<1>4. Content(a) = Byte(blobs[m].section, x)
  BY <1>2, <1>3 DEF Content
<1> QED
  BY <1>4 DEF a

\* A sequence is its first p elements, and what follows them.
LEMMA Split ==
  ASSUME NEW p \in Nat, NEW q \in Nat, NEW c
  PROVE  [x \in 1..(p + q) |-> c[x]] = [x \in 1..p |-> c[x]] \o [x \in 1..q |-> c[p + x]]
<1> DEFINE u == [x \in 1..p |-> c[x]]
           v == [x \in 1..q |-> c[p + x]]
           w == [x \in 1..(p + q) |-> c[x]]
           V == {c[x] : x \in 1..(p + q)}
<1>1. u \in Seq(V) /\ v \in Seq(V) /\ w \in Seq(V)
  OBVIOUS
<1>2. Len(u) = p /\ Len(v) = q /\ Len(w) = p + q
  OBVIOUS
<1>3. \A x \in 1..p : w[x] = u[x]
  OBVIOUS
<1>4. \A x \in 1..q : w[p + x] = v[x]
  OBVIOUS
<1> HIDE DEF u, v, w, V
<1>5. u \o v \in Seq(V) /\ Len(u \o v) = p + q
  BY <1>1, <1>2
<1>6. ASSUME NEW x \in 1..(p + q)
      PROVE  (u \o v)[x] = w[x]
  <2>1. CASE x <= p
    <3>1. x \in 1..p /\ x \in 1..(Len(u) + Len(v))
      BY <1>2, <2>1
    <3>2. (u \o v)[x] = u[x]
      BY <1>1, <1>2, <3>1, ConcatProperties
    <3> QED
      BY <1>3, <3>1, <3>2
  <2>2. CASE ~(x <= p)
    <3>1. p < x /\ x - p \in 1..q /\ p + (x - p) = x
      BY <2>2
    <3>2. (u \o v)[x] = v[x - p]
      BY <1>1, <1>2, <2>2, <3>1, ConcatProperties
    <3>3. w[p + (x - p)] = v[x - p]
      BY <1>4, <3>1
    <3> QED
      BY <3>1, <3>2, <3>3
  <2> QED
    BY <2>1, <2>2
<1>7. u \o v = w
  <2> DEFINE z == u \o v
  <2>1. z \in Seq(V) /\ Len(z) = p + q
    BY <1>5
  <2>2. \A y \in 1..(p + q) : z[y] = w[y]
    BY <1>6
  <2> HIDE DEF z
  <2>3. z = w
    BY <1>1, <1>2, <2>1, <2>2, SeqEqual
  <2> QED
    BY <2>3 DEF z
<1> QED
  BY <1>7 DEF u, v, w

\* Appending the data of one blob after the other.
LEMMA FlattenIs ==
  ASSUME NEW seqs, NEW n \in Nat \ {0}, Len(seqs) = n,
         NEW f, f[1] = seqs[1], \A j \in 1..(n - 1) : f[j + 1] = f[j] \o seqs[j + 1]
  PROVE  FlattenSeq(seqs) = f[n]
<1> DEFINE Eq(g) == g = [j \in 1..Len(seqs) |-> IF j = 1 THEN seqs[j] ELSE g[j - 1] \o seqs[j]]
           h == [j \in 1..Len(seqs) |-> f[j]]
           g == CHOOSE g : Eq(g)
           P(j) == j + 1 <= n => g[j + 1] = f[j + 1]
<1>1. FlattenSeq(seqs) = g[n]
  <2>1. Len(seqs) # 0
    OBVIOUS
  <2>2. FlattenSeq(seqs) = (CHOOSE x : Eq(x))[Len(seqs)]
    BY <2>1, Zenon DEF FlattenSeq
  <2> QED
    BY <2>2
<1>2. Eq(h)
  <2> DEFINE r == [j \in 1..Len(seqs) |-> IF j = 1 THEN seqs[j] ELSE h[j - 1] \o seqs[j]]
  <2>1. ASSUME NEW j \in 1..n
        PROVE  h[j] = r[j]
    <3>1. CASE j = 1
      BY <3>1
    <3>2. CASE j # 1
      <4>1. j - 1 \in 1..(n - 1) /\ (j - 1) + 1 = j
        BY <3>2
      <4>2. f[j] = f[j - 1] \o seqs[j]
        BY <4>1
      <4>3. h[j] = f[j] /\ h[j - 1] = f[j - 1] /\ r[j] = h[j - 1] \o seqs[j]
        BY <3>2, <4>1
      <4> HIDE DEF h, r
      <4> QED
        BY <4>2, <4>3
    <3> QED
      BY <3>1, <3>2
  <2>2. h = [j \in 1..n |-> h[j]] /\ r = [j \in 1..n |-> r[j]]
    OBVIOUS
  <2>3. h = r
    <3> HIDE DEF h, r
    <3> QED
      BY <2>1, <2>2
  <2> HIDE DEF h
  <2> QED
    BY <2>3
<1>3. Eq(g)
  <2> HIDE DEF Eq, h
  <2> QED
    BY <1>2, Zenon
<1>4. \A j \in 1..n : g[j] = IF j = 1 THEN seqs[j] ELSE g[j - 1] \o seqs[j]
  <2> HIDE DEF g
  <2> QED
    BY <1>3
<1> HIDE DEF g, Eq
<1>5. P(0)
  BY <1>4
<1>6. ASSUME NEW j \in Nat, P(j)
      PROVE  P(j + 1)
  <2> SUFFICES ASSUME (j + 1) + 1 <= n
               PROVE  g[(j + 1) + 1] = f[(j + 1) + 1]
    OBVIOUS
  <2> DEFINE m == j + 1
  <2>1. m \in 1..(n - 1) /\ m + 1 \in 1..n /\ m + 1 # 1 /\ (m + 1) - 1 = m
    OBVIOUS
  <2>2. g[m] = f[m]
    BY <1>6
  <2> HIDE DEF m
  <2>3. f[m + 1] = f[m] \o seqs[m + 1]
    BY <2>1
  <2>4. g[m + 1] = g[m] \o seqs[m + 1]
    BY <1>4, <2>1
  <2>5. g[m + 1] = f[m + 1]
    BY <2>2, <2>3, <2>4
  <2> QED
    BY <2>5 DEF m
<1>7. P(n - 1)
  <2> HIDE DEF P
  <2> DEFINE A == {j \in Nat : P(j)}
  <2>1. 0 \in A /\ \A j \in Nat : j \in A => j + 1 \in A
    BY <1>5, <1>6
  <2>2. Nat \subseteq A
    <3> HIDE DEF A
    <3> QED
      BY <2>1, Induct
  <2>3. n - 1 \in Nat
    OBVIOUS
  <2> QED
    BY <2>2, <2>3
<1>8. (n - 1) + 1 = n
  OBVIOUS
<1> QED
  BY <1>1, <1>7, <1>8

Image(k) == [x \in 1..Size(k) |-> Content(blobs[k].address + x - 1)]

\* The blobs that WriteElement writes are the image of the element.
LEMMA DataIs ==
  ASSUME Sorted, NEW k \in 1..Len(blobs)
  PROVE  ElementData(k) = Image(k)
<1> DEFINE e == ElementEnd(k)
           n == e - k + 1
           Run(b) == [x \in 1..b.count |-> Byte(b.section, x)]
           seqs == [j \in 1..n |-> Run(blobs[k + j - 1])]
           f == [j \in 1..n |-> [x \in 1..(End(k + j - 1) - blobs[k].address) |-> Content(blobs[k].address + x - 1)]]
<1>0. Len(blobs) \in Nat
  BY DEF Sorted
<1>1. e \in k..Len(blobs) /\ \A j \in k..(e - 1) : Contiguous(j)
  BY ElementEndIs
<1>2. ElementData(k) = FlattenSeq(seqs)
  BY LastWrittenIs DEF ElementData
<1> HIDE DEF e
<1>3. n \in Nat \ {0}
  BY <1>0, <1>1
<1>4. Len(seqs) = n
  BY <1>3
<1>5. ASSUME NEW m \in k..e
      PROVE  /\ blobs[m].address \in Nat /\ blobs[m].count \in Nat /\ blobs[k].address \in Nat
             /\ End(m) = blobs[m].address + blobs[m].count
             /\ blobs[k].address <= blobs[m].address
  <2>1. m \in 1..Len(blobs)
    BY <1>0, <1>1
  <2>2. m = k \/ k < m
    BY <1>0
  <2>3. End(k) \in Nat /\ blobs[k].address <= End(k) /\ blobs[k].address \in Nat /\ blobs[m].address \in Nat
    BY <2>1, BlobFacts
  <2>4. k < m => End(k) <= blobs[m].address
    BY <2>1 DEF Sorted
  <2>5. blobs[k].address <= blobs[m].address
    <3> HIDE DEF End
    <3> QED
      BY <2>2, <2>3, <2>4
  <2> QED
    BY <2>1, <2>3, <2>5, BlobFacts DEF End
<1>6. f[1] = seqs[1]
  <2>1. f[1] = [x \in 1..(End(k) - blobs[k].address) |-> Content(blobs[k].address + x - 1)]
    <3>1. 1 \in 1..n /\ k + 1 - 1 = k
      BY <1>3
    <3> HIDE DEF n
    <3> QED
      BY <3>1
  <2>2. seqs[1] = Run(blobs[k])
    <3>1. 1 \in 1..n /\ k + 1 - 1 = k
      BY <1>3
    <3> HIDE DEF n, Run
    <3> QED
      BY <3>1
  <2>3. End(k) - blobs[k].address = blobs[k].count
    <3>1. k \in k..e
      BY <1>0, <1>1
    <3> QED
      BY <1>5, <3>1
  <2>4. \A x \in 1..blobs[k].count : Content(blobs[k].address + x - 1) = Byte(blobs[k].section, x)
    BY ContentIs
  <2> HIDE DEF f, seqs
  <2> QED
    BY <2>1, <2>2, <2>3, <2>4
<1>7. ASSUME NEW j \in 1..(n - 1)
      PROVE  f[j + 1] = f[j] \o seqs[j + 1]
  <2> DEFINE m == k + j
             a == blobs[k].address
             F(l) == [x \in 1..l |-> Content(a + x - 1)]
             p == blobs[m].address - a
             q == blobs[m].count
  <2>1. m \in k..e /\ m - 1 \in k..(e - 1) /\ (m - 1) + 1 = m
    BY <1>0, <1>1, <1>3
  <2>2. f[j + 1] = F(End(m) - a)
    <3>1. j + 1 \in 1..n /\ k + (j + 1) - 1 = m
      BY <1>0, <1>3
    <3> HIDE DEF n, m
    <3> QED
      BY <3>1
  <2>3. f[j] = F(End(m - 1) - a)
    <3>1. j \in 1..n /\ k + j - 1 = m - 1
      BY <1>0, <1>3
    <3> HIDE DEF n, m
    <3> QED
      BY <3>1
  <2>4. seqs[j + 1] = Run(blobs[m])
    <3>1. j + 1 \in 1..n /\ k + (j + 1) - 1 = m
      BY <1>0, <1>3
    <3> HIDE DEF n, m, Run
    <3> QED
      BY <3>1
  <2> HIDE DEF m
  <2>5. End(m - 1) = blobs[m].address
    BY <1>1, <2>1 DEF Contiguous, End
  <2>6. p \in Nat /\ q \in Nat /\ a \in Nat /\ End(m - 1) - a = p /\ End(m) - a = p + q
    BY <1>5, <2>1, <2>5
  <2>7. ASSUME NEW x \in 1..q
        PROVE  Content(a + (p + x) - 1) = Byte(blobs[m].section, x)
    <3>1. m \in 1..Len(blobs)
      BY <1>0, <1>1, <2>1
    <3>2. a + (p + x) - 1 = blobs[m].address + x - 1
      <4>1. a \in Nat /\ blobs[m].address \in Nat
        BY <1>5, <2>1
      <4> HIDE DEF a, q
      <4> QED
        BY <4>1
    <3> QED
      BY <3>1, <3>2, ContentIs
  <2> HIDE DEF a, q, p
  <2>8. F(p + q) = F(p) \o Run(blobs[m])
    <3> DEFINE c == [x \in 1..(p + q) |-> Content(a + x - 1)]
    <3>1. Run(blobs[m]) = [x \in 1..q |-> Content(a + (p + x) - 1)]
      BY <2>7 DEF q
    <3>2. \A x \in 1..q : c[p + x] = Content(a + (p + x) - 1)
      <4> TAKE x \in 1..q
      <4>1. p + x \in 1..(p + q)
        BY <2>6
      <4> QED
        BY <4>1
    <3>3. [x \in 1..q |-> c[p + x]] = [x \in 1..q |-> Content(a + (p + x) - 1)]
      <4> HIDE DEF c
      <4> QED
        BY <3>2
    <3>4. F(p) = [x \in 1..p |-> c[x]] /\ F(p + q) = [x \in 1..(p + q) |-> c[x]]
      <4>1. \A x \in 1..p : x \in 1..(p + q)
        BY <2>6
      <4> QED
        BY <4>1
    <3> HIDE DEF c, F, Run
    <3>5. [x \in 1..(p + q) |-> c[x]] = [x \in 1..p |-> c[x]] \o [x \in 1..q |-> c[p + x]]
      BY <2>6, Split
    <3>6. [x \in 1..q |-> c[p + x]] = Run(blobs[m])
      BY <3>1, <3>3, Zenon
    <3> QED
      BY <3>4, <3>5, <3>6, Zenon
  <2> HIDE DEF f, seqs, Run, F
  <2> QED
    BY <2>2, <2>3, <2>4, <2>6, <2>8
<1>8. FlattenSeq(seqs) = f[n]
  <2> HIDE DEF n, seqs, f
  <2> QED
    BY <1>3, <1>4, <1>6, <1>7, FlattenIs
<1>9. f[n] = [x \in 1..(End(e) - blobs[k].address) |-> Content(blobs[k].address + x - 1)]
  <2>1. n \in 1..n /\ k + n - 1 = e
    BY <1>0, <1>1, <1>3
  <2> HIDE DEF n
  <2> QED
    BY <2>1
<1>10. Size(k) = End(e) - blobs[k].address
  BY SizeIs DEF e
<1> HIDE DEF f
<1> QED
  BY <1>2, <1>8, <1>9, <1>10 DEF Image

-----------------------------------------------------------------------------
\* The list of blobs, as the sections are read.

\* A blob goes behind those with no greater address.
LEMMA FindBlobIs ==
  ASSUME NEW list \in Seq(Blob), NEW x \in Blob
  PROVE  \E pos \in 1..(Len(list) + 1) : LET r == find_blob(list, x) IN
           /\ r \in Seq(Blob) /\ Len(r) = Len(list) + 1 /\ r[pos] = x
           /\ \A j \in 1..(pos - 1) : r[j] = list[j] /\ list[j].address <= x.address
           /\ \A j \in (pos + 1)..(Len(list) + 1) : r[j] = list[j - 1]
           /\ pos <= Len(list) => list[pos].address > x.address
<1> DEFINE after == {k \in 1..Len(list) : list[k].address > x.address}
           pos == IF after = {} THEN Len(list) + 1 ELSE Min(after)
<1>1. after \in SUBSET Nat
  OBVIOUS
<1>2. after # {} => Min(after) \in after /\ \A m \in after : Min(after) <= m
  <2> HIDE DEF after
  <2> QED
    BY <1>1, MinIs
<1>3. pos \in 1..(Len(list) + 1) /\ (pos <= Len(list) => list[pos].address > x.address)
  BY <1>2
<1>4. \A j \in 1..(pos - 1) : j \in 1..Len(list) /\ j \notin after
  <2> TAKE j \in 1..(pos - 1)
  <2>1. j \in 1..Len(list)
    BY <1>3
  <2>2. j < pos
    BY <1>3
  <2>3. after # {} => ~(pos <= j)
    BY <1>3, <2>2
  <2> HIDE DEF after
  <2> QED
    BY <1>2, <2>1, <2>3
<1>5. \A j \in 1..(pos - 1) : list[j].address <= x.address
  <2> TAKE j \in 1..(pos - 1)
  <2>1. j \in 1..Len(list) /\ ~(list[j].address > x.address)
    BY <1>4
  <2>2. list[j] \in Blob
    BY <2>1
  <2>3. list[j].address \in Nat /\ x.address \in Nat
    BY <2>2 DEF Blob
  <2> QED
    BY <2>1, <2>3
<1>6. find_blob(list, x) = InsertAt(list, pos, x)
  BY DEF find_blob
<1>7. PICK p \in 1..(Len(list) + 1) :
             /\ find_blob(list, x) = InsertAt(list, p, x)
             /\ \A j \in 1..(p - 1) : list[j].address <= x.address
             /\ p <= Len(list) => list[p].address > x.address
  <2> HIDE DEF pos
  <2> QED
    BY <1>3, <1>5, <1>6
<1> HIDE DEF pos, after
<1>8. PICK r : r = find_blob(list, x)
  OBVIOUS
<1>9. /\ r \in Seq(Blob) /\ Len(r) = Len(list) + 1 /\ r[p] = x
      /\ \A j \in 1..(p - 1) : r[j] = list[j]
      /\ \A j \in (p + 1)..(Len(list) + 1) : r[j] = list[j - 1]
  <2> DEFINE n == Len(list)
             u == SubSeq(list, 1, p - 1)
             v == SubSeq(list, p, n)
             w == u \o <<x>>
             z == w \o v
  <2>0. n \in Nat /\ p \in Nat /\ p >= 1 /\ p <= n + 1
    OBVIOUS
  <2>1. u \in Seq(Blob) /\ Len(u) = p - 1 /\ \A j \in 1..(p - 1) : u[j] = list[j]
    OBVIOUS
  <2>2. v \in Seq(Blob) /\ Len(v) = n - p + 1 /\ \A j \in 1..(n - p + 1) : v[j] = list[p + j - 1]
    OBVIOUS
  <2>r. InsertAt(list, p, x) = z
    BY Zenon DEF InsertAt
  <2> HIDE DEF n, u, v
  <2>3. w \in Seq(Blob) /\ Len(w) = p /\ w[p] = x /\ \A j \in 1..(p - 1) : w[j] = u[j]
    BY <2>0, <2>1
  <2> HIDE DEF w
  <2>4. z \in Seq(Blob) /\ Len(z) = n + 1
    <3>1. (w \o v) \in Seq(Blob) /\ Len(w \o v) = Len(w) + Len(v)
      BY <2>2, <2>3, ConcatProperties
    <3>2. Len(w) + Len(v) = n + 1
      BY <2>0, <2>2, <2>3
    <3> QED
      BY <3>1, <3>2
  <2>5. \A j \in 1..(n + 1) : z[j] = IF j <= p THEN w[j] ELSE v[j - p]
    <3> TAKE j \in 1..(n + 1)
    <3>1. j \in 1..(Len(w) + Len(v))
      BY <2>0, <2>2, <2>3
    <3>2. (w \o v)[j] = IF j <= Len(w) THEN w[j] ELSE v[j - Len(w)]
      BY <2>2, <2>3, <3>1, ConcatProperties
    <3>3. Len(w) = p
      BY <2>3
    <3> QED
      BY <3>2, <3>3
  <2> HIDE DEF z
  <2>6. z[p] = x
    BY <2>0, <2>3, <2>5
  <2>7. \A j \in 1..(p - 1) : z[j] = list[j]
    BY <2>0, <2>1, <2>3, <2>5
  <2>8. ASSUME NEW j \in (p + 1)..(n + 1)
        PROVE  z[j] = list[j - 1]
    <3>1. j - p \in 1..(n - p + 1) /\ p + (j - p) - 1 = j - 1 /\ ~(j <= p) /\ j \in 1..(n + 1)
      BY <2>0
    <3>2. v[j - p] = list[p + (j - p) - 1]
      BY <2>2, <3>1
    <3>3. v[j - p] = list[j - 1]
      BY <3>1, <3>2
    <3> QED
      BY <2>5, <3>1, <3>3
  <2>9. r = z
    BY <1>7, <1>8, <2>r
  <2> QED
    BY <2>4, <2>6, <2>7, <2>8, <2>9 DEF n
<1> QED
  BY <1>7, <1>8, <1>9

Segment == [vaddr : Nat, memsz : Nat, paddr : Nat, filesz : Nat]
SectionHeader == [addr : Nat, size : Nat, alloc : BOOLEAN, progbits : BOOLEAN]
Elves == [valid : BOOLEAN, segments : Seq(Segment), sections : Seq(SectionHeader)]

\* A section is kept if the segments place it, where they do.
LEMMA PlaceIs ==
  ASSUME elf \in Elves, NEW s \in 1..Len(elf.sections)
  PROVE  LET sh == elf.sections[s] IN
         /\ Places(elf, s) \in SUBSET Nat
         /\ Relevant(sh) /\ Covering(sh) # {} <=> Places(elf, s) # {}
         /\ Relevant(sh) /\ Covering(sh) # {} => phy_addr(sh) \in Places(elf, s)
<1> DEFINE sh == elf.sections[s]
           seg == elf.segments
           n == Len(seg)
           Place(p) == p.paddr + (sh.addr - p.vaddr)
           Maps(p) == Relevant(sh) /\ p.filesz > 0 /\ sh.addr \in p.vaddr..(p.vaddr + p.memsz - 1)
<1>0. elf.sections \in Seq(SectionHeader) /\ seg \in Seq(Segment)
  BY DEF Elves
<1>1. sh.addr \in Nat
  <2>1. sh \in SectionHeader
    BY <1>0
  <2> HIDE DEF sh
  <2> QED
    BY <2>1 DEF SectionHeader
<1>2. \A j \in 1..n : /\ seg[j].vaddr \in Nat /\ seg[j].memsz \in Nat
                      /\ seg[j].paddr \in Nat /\ seg[j].filesz \in Nat
  <2> TAKE j \in 1..n
  <2>1. seg[j] \in Segment
    BY <1>0
  <2> QED
    BY <2>1 DEF Segment
<1>3. \A a : a \in Places(elf, s) <=> \E j \in 1..n : Maps(seg[j]) /\ a = Place(seg[j])
  <2>1. \A p : p \in ToSet(seg) <=> \E j \in 1..n : p = seg[j]
    <3>1. DOMAIN seg = 1..n
      BY <1>0
    <3> QED
      BY <3>1 DEF ToSet
  <2> HIDE DEF seg, n
  <2> QED
    BY <2>1 DEF Places, seg
<1>4. \A j : j \in Covering(sh) <=> /\ j \in 1..n
                                    /\ sh.addr >= seg[j].vaddr /\ sh.addr < seg[j].vaddr + seg[j].memsz
                                    /\ seg[j].filesz > 0
  BY DEF Covering
<1> HIDE DEF sh, seg, n
<1>5. \A j \in 1..n : Relevant(sh) /\ j \in Covering(sh) <=> Maps(seg[j])
  <2> TAKE j \in 1..n
  <2>1. sh.addr \in seg[j].vaddr..(seg[j].vaddr + seg[j].memsz - 1)
          <=> sh.addr >= seg[j].vaddr /\ sh.addr < seg[j].vaddr + seg[j].memsz
    BY <1>1, <1>2
  <2>2. j \in Covering(sh) <=>
          seg[j].filesz > 0 /\ sh.addr \in seg[j].vaddr..(seg[j].vaddr + seg[j].memsz - 1)
    BY <1>4, <2>1
  <2> QED
    BY <2>2, Zenon
<1>6. \A j \in 1..n : Maps(seg[j]) => Place(seg[j]) \in Nat
  <2> TAKE j \in 1..n
  <2> QED
    BY <1>1, <1>2
<1>7. Covering(sh) # {} => Min(Covering(sh)) \in Covering(sh)
  <2>1. Covering(sh) \in SUBSET Nat
    BY <1>4
  <2> QED
    BY <2>1, MinIs
<1>8. phy_addr(sh) = Place(seg[Min(Covering(sh))])
  BY DEF phy_addr, seg
<1> HIDE DEF Maps, Place
<1>9. Covering(sh) # {} => Min(Covering(sh)) \in 1..n
  BY <1>4, <1>7
<1>10. Relevant(sh) /\ Covering(sh) # {} => phy_addr(sh) \in Places(elf, s)
  BY <1>3, <1>5, <1>7, <1>8, <1>9
<1>11. Places(elf, s) # {} => Relevant(sh) /\ Covering(sh) # {}
  BY <1>3, <1>5
<1>12. Places(elf, s) \in SUBSET Nat
  BY <1>3, <1>6
<1> QED
  BY <1>10, <1>11, <1>12 DEF sh

\* The list after n sections: what the segments place of them, in the order of
\* the addresses, and of the sections where these are the same.
Entered(list, n) ==
    /\ list \in Seq(Blob)
    /\ \A m \in 1..Len(list) : /\ list[m].section \in 1..n
                               /\ list[m].address \in Places(elf, list[m].section)
                               /\ list[m].count = elf.sections[list[m].section].size
    /\ \A s \in 1..n : Places(elf, s) # {} => \E m \in 1..Len(list) : list[m].section = s
    /\ \A l, m \in 1..Len(list) : l < m =>
         \/ list[l].address < list[m].address
         \/ list[l].address = list[m].address /\ list[l].section < list[m].section

\* A section that is placed joins the list.
LEMMA EnterKept ==
  ASSUME elf \in Elves, NEW s \in 1..Len(elf.sections), NEW list, Entered(list, s - 1), NEW x \in Blob,
         x.section = s, x.address \in Places(elf, s), x.count = elf.sections[s].size
  PROVE  Entered(find_blob(list, x), s)
<1>0. list \in Seq(Blob) /\ s \in Nat /\ s >= 1
  BY DEF Entered, Elves
<1>1. PICK r : r = find_blob(list, x)
  OBVIOUS
<1>2. PICK p \in 1..(Len(list) + 1) :
             /\ r \in Seq(Blob) /\ Len(r) = Len(list) + 1 /\ r[p] = x
             /\ \A j \in 1..(p - 1) : r[j] = list[j] /\ list[j].address <= x.address
             /\ \A j \in (p + 1)..(Len(list) + 1) : r[j] = list[j - 1]
             /\ p <= Len(list) => list[p].address > x.address
  <2>1. \E p \in 1..(Len(list) + 1) : LET q == find_blob(list, x) IN
           /\ q \in Seq(Blob) /\ Len(q) = Len(list) + 1 /\ q[p] = x
           /\ \A j \in 1..(p - 1) : q[j] = list[j] /\ list[j].address <= x.address
           /\ \A j \in (p + 1)..(Len(list) + 1) : q[j] = list[j - 1]
           /\ p <= Len(list) => list[p].address > x.address
    BY <1>0, FindBlobIs, Zenon
  <2> QED
    BY <1>1, <2>1, Zenon
<1>n. Len(list) \in Nat
  BY <1>0
<1>a. \A j \in 1..Len(list) : /\ list[j].address \in Nat /\ list[j].section \in 1..(s - 1)
                              /\ list[j].address \in Places(elf, list[j].section)
                              /\ list[j].count = elf.sections[list[j].section].size
  <2> TAKE j \in 1..Len(list)
  <2>1. list[j] \in Blob
    BY <1>0
  <2>2. list[j].address \in Nat
    BY <2>1 DEF Blob
  <2> QED
    BY <2>2 DEF Entered
<1>b. x.address \in Nat
  <2>1. x \in Blob
    OBVIOUS
  <2> QED
    BY <2>1 DEF Blob
<1>p. p \in Nat /\ p >= 1 /\ p <= Len(list) + 1 /\ Len(r) = Len(list) + 1
  BY <1>2, <1>n
\* An old blob keeps its place, or moves by one.
<1>c. \A j \in 1..(p - 1) : j \in 1..Len(list) /\ r[j] = list[j] /\ list[j].address <= x.address
  <2> TAKE j \in 1..(p - 1)
  <2>1. j \in 1..Len(list)
    BY <1>n, <1>p
  <2> QED
    BY <1>2, <2>1
<1>d. \A j \in (p + 1)..Len(r) : j - 1 \in 1..Len(list) /\ p <= j - 1 /\ r[j] = list[j - 1]
  <2> TAKE j \in (p + 1)..Len(r)
  <2>1. j \in (p + 1)..(Len(list) + 1) /\ j - 1 \in 1..Len(list) /\ p <= j - 1
    BY <1>n, <1>p
  <2> QED
    BY <1>2, <2>1
<1>e. \A j \in 1..Len(r) : j \in 1..(p - 1) \/ j = p \/ j \in (p + 1)..Len(r)
  BY <1>2, <1>n
<1>o. \A l, m \in 1..Len(list) : l < m =>
         \/ list[l].address < list[m].address
         \/ list[l].address = list[m].address /\ list[l].section < list[m].section
  BY DEF Entered
<1>f. \A j \in p..Len(list) : list[j].address > x.address
  <2> TAKE j \in p..Len(list)
  <2>1. p \in 1..Len(list) /\ j \in 1..Len(list) /\ (p < j \/ p = j) /\ list[p].address > x.address
    BY <1>2, <1>n
  <2>2. list[p].address \in Nat /\ list[j].address \in Nat
    BY <1>a, <2>1
  <2>3. p < j => list[p].address < list[j].address \/ list[p].address = list[j].address
    BY <1>o, <2>1
  <2> QED
    BY <1>b, <2>1, <2>2, <2>3
<1>3. \A m \in 1..Len(r) : /\ r[m].section \in 1..s
                           /\ r[m].address \in Places(elf, r[m].section)
                           /\ r[m].count = elf.sections[r[m].section].size
  <2> TAKE m \in 1..Len(r)
  <2>1. CASE m \in 1..(p - 1)
    BY <1>0, <1>a, <1>c, <2>1
  <2>2. CASE m = p
    BY <1>0, <1>2, <2>2
  <2>3. CASE m \in (p + 1)..Len(r)
    <3>1. m - 1 \in 1..Len(list) /\ r[m] = list[m - 1]
      BY <1>d, <2>3
    <3>2. \A t \in 1..(s - 1) : t \in 1..s
      BY <1>0
    <3> QED
      BY <1>a, <3>1, <3>2
  <2> QED
    BY <1>e, <2>1, <2>2, <2>3
<1>4. ASSUME NEW t \in 1..s, Places(elf, t) # {}
      PROVE  \E m \in 1..Len(r) : r[m].section = t
  <2>1. CASE t = s
    <3>1. p \in 1..Len(r) /\ r[p].section = t
      BY <1>2, <2>1
    <3> QED
      BY <3>1
  <2>2. CASE t # s
    <3>1. t \in 1..(s - 1)
      BY <1>0, <2>2
    <3>2. PICK m \in 1..Len(list) : list[m].section = t
      BY <1>4, <3>1 DEF Entered
    <3>3. CASE m < p
      <4>1. m \in 1..(p - 1) /\ m \in 1..Len(r)
        BY <1>2, <1>n, <3>3
      <4> QED
        BY <1>c, <3>2, <4>1
    <3>4. CASE ~(m < p)
      <4>1. m + 1 \in (p + 1)..Len(r) /\ m + 1 \in 1..Len(r) /\ (m + 1) - 1 = m
        BY <1>2, <1>n, <3>4
      <4>2. r[m + 1] = list[m]
        BY <1>d, <4>1
      <4> QED
        BY <3>2, <4>1, <4>2
    <3> QED
      BY <3>3, <3>4
  <2> QED
    BY <2>1, <2>2
<1>5. ASSUME NEW l \in 1..Len(r), NEW m \in 1..Len(r), l < m
      PROVE  \/ r[l].address < r[m].address
             \/ r[l].address = r[m].address /\ r[l].section < r[m].section
  <2>1. CASE m \in 1..(p - 1)
    <3>1. l \in 1..(p - 1)
      BY <1>n, <1>5, <2>1
    <3> QED
      BY <1>5, <1>c, <1>o, <2>1, <3>1
  <2>2. CASE m = p
    <3>1. l \in 1..(p - 1)
      BY <1>n, <1>5, <2>2
    <3>2. r[l] = list[l] /\ l \in 1..Len(list) /\ list[l].address <= x.address
      BY <1>c, <3>1
    <3>3. list[l].address \in Nat /\ list[l].section < s
      BY <1>0, <1>a, <3>2
    <3> QED
      BY <1>2, <1>b, <2>2, <3>2, <3>3
  <2>3. CASE m \in (p + 1)..Len(r)
    <3>1. m - 1 \in 1..Len(list) /\ p <= m - 1 /\ r[m] = list[m - 1]
      BY <1>d, <2>3
    <3>2. CASE l \in 1..(p - 1)
      <4>1. l < m - 1 /\ l \in 1..Len(list) /\ r[l] = list[l]
        BY <1>c, <1>n, <3>1, <3>2
      <4> QED
        BY <1>o, <3>1, <4>1
    <3>3. CASE l = p
      <4>1. list[m - 1].address > x.address /\ list[m - 1].address \in Nat
        BY <1>a, <1>f, <1>n, <3>1
      <4> QED
        BY <1>2, <1>b, <3>1, <3>3, <4>1
    <3>4. CASE l \in (p + 1)..Len(r)
      <4>1. l - 1 \in 1..Len(list) /\ r[l] = list[l - 1] /\ l - 1 < m - 1
        BY <1>5, <1>d, <1>n, <3>4
      <4> QED
        BY <1>o, <3>1, <4>1
    <3> QED
      BY <1>e, <3>2, <3>3, <3>4
  <2> QED
    BY <1>e, <2>1, <2>2, <2>3
<1> QED
  BY <1>1, <1>2, <1>3, <1>4, <1>5 DEF Entered

\* One that is not leaves it as it is.
LEMMA EnterNone ==
  ASSUME NEW s \in Nat \ {0}, NEW list, Entered(list, s - 1), Places(elf, s) = {}
  PROVE  Entered(list, s)
<1>1. \A m \in 1..Len(list) : list[m].section \in 1..(s - 1) => list[m].section \in 1..s
  OBVIOUS
<1>2. \A t \in 1..s : t = s \/ t \in 1..(s - 1)
  OBVIOUS
<1> QED
  BY <1>1, <1>2 DEF Entered

\* When all sections of a well-linked file are in it, the blobs lie apart, in
\* memory, and an empty one is within an element.
LEMMA EnteredIsSorted ==
  ASSUME elf \in Elves, WellLinked(elf), Entered(blobs, Len(elf.sections))
  PROVE  Sorted
<1> DEFINE N == Len(blobs)
           S == Len(elf.sections)
           size(s) == elf.sections[s].size
<1>0. blobs \in Seq(Blob) /\ N \in Nat /\ S \in Nat
  BY DEF Entered, Elves
<1>1. \A s \in 1..S : size(s) \in Nat
  <2> TAKE s \in 1..S
  <2>1. elf.sections[s] \in SectionHeader
    BY DEF Elves
  <2> QED
    BY <2>1 DEF SectionHeader
<1>2. ASSUME NEW m \in 1..N
      PROVE  LET b == blobs[m] IN
             /\ b.section \in 1..S /\ b.address \in Nat /\ b.count \in Nat
             /\ b.address \in Places(elf, b.section) /\ b.count = size(b.section)
  <2>1. blobs[m] \in Blob
    BY <1>0
  <2>2. blobs[m].address \in Nat /\ blobs[m].count \in Nat
    BY <2>1 DEF Blob
  <2> QED
    BY <2>2 DEF Entered
<1>3. ASSUME NEW s \in 1..S, NEW a \in Places(elf, s)
      PROVE  /\ Places(elf, s) = {a} /\ a + size(s) <= MaxAddress + 1
             /\ \A t \in 1..S : t # s => \A b \in Places(elf, t) : a + size(s) <= b \/ b + size(t) <= a
             /\ size(s) = 0 => \E t \in (s + 1)..S : a \in Places(elf, t) /\ size(t) > 0
  BY DEF WellLinked
<1>o. \A l, m \in 1..N : l < m =>
         \/ blobs[l].address < blobs[m].address
         \/ blobs[l].address = blobs[m].address /\ blobs[l].section < blobs[m].section
  BY DEF Entered
<1> HIDE DEF N, S, size
<1>4. ASSUME NEW l \in 1..N, NEW m \in 1..N, l < m
      PROVE  End(l) <= blobs[m].address
  <2> DEFINE s == blobs[l].section
             t == blobs[m].section
             a == blobs[l].address
             b == blobs[m].address
  <2>1. /\ s \in 1..S /\ t \in 1..S /\ a \in Nat /\ b \in Nat
        /\ a \in Places(elf, s) /\ b \in Places(elf, t)
        /\ blobs[l].count = size(s) /\ blobs[m].count = size(t)
    BY <1>2
  <2>2. a < b \/ (a = b /\ s < t)
    BY <1>4, <1>o
  <2>3. End(l) = a + size(s)
    BY <2>1 DEF End
  <2> HIDE DEF s, t, a, b
  <2>4. size(s) \in Nat /\ size(t) \in Nat
    BY <1>1, <2>1
  <2>5. s # t
    <3> SUFFICES ASSUME s = t
                 PROVE  FALSE
      OBVIOUS
    <3>1. a = b
      BY <1>3, <2>1
    <3> QED
      BY <1>0, <2>1, <2>2, <3>1
  <2>6. a + size(s) <= b \/ b + size(t) <= a
    BY <1>3, <2>1, <2>5
  <2>7. a + size(s) <= b
    <3> SUFFICES ASSUME ~(a + size(s) <= b)
                 PROVE  FALSE
      OBVIOUS
    <3>1. a = b /\ size(t) = 0 /\ size(s) > 0 /\ s < t
      BY <2>1, <2>2, <2>4, <2>6
    <3>2. PICK u \in (t + 1)..S : b \in Places(elf, u) /\ size(u) > 0
      BY <1>3, <2>1, <3>1
    <3>3. u \in 1..S /\ u # s /\ size(u) \in Nat
      BY <1>0, <1>1, <2>1, <3>1, <3>2
    <3>4. a + size(s) <= b \/ b + size(u) <= a
      BY <1>3, <2>1, <3>2, <3>3
    <3> QED
      BY <2>1, <2>4, <3>1, <3>2, <3>3, <3>4
  <2> QED
    BY <2>3, <2>7 DEF b
<1>5. ASSUME NEW m \in 1..N, blobs[m].count = 0
      PROVE  m < N /\ Contiguous(m)
  <2> DEFINE s == blobs[m].section
             a == blobs[m].address
  <2>1. s \in 1..S /\ a \in Nat /\ a \in Places(elf, s) /\ size(s) = 0
    BY <1>2, <1>5
  <2> HIDE DEF s
  <2>2. PICK u \in (s + 1)..S : a \in Places(elf, u) /\ size(u) > 0
    BY <1>3, <2>1
  <2>3. u \in 1..S /\ s < u
    BY <1>0, <2>1
  <2>4. PICK n \in 1..N : blobs[n].section = u
    BY <2>2, <2>3 DEF Entered, N, S
  <2>5. blobs[n].address = a
    <3>1. blobs[n].address \in Places(elf, u)
      BY <1>2, <2>4
    <3> QED
      BY <1>3, <2>2, <2>3, <3>1
  <2>6. m < n
    <3>1. n # m
      BY <1>0, <2>1, <2>3, <2>4 DEF s
    <3>2. ~(n < m)
      <4> SUFFICES ASSUME n < m
                   PROVE  FALSE
        OBVIOUS
      <4>1. u < s
        BY <1>o, <2>1, <2>4, <2>5 DEF s
      <4> QED
        BY <1>0, <2>1, <2>3, <4>1
    <3> QED
      BY <1>0, <3>1, <3>2
  <2>7. m + 1 \in 1..N /\ m < m + 1 /\ m < N
    BY <1>0, <2>6
  <2>8. blobs[m + 1].address \in Nat
    BY <1>2, <2>7
  <2>9. blobs[m + 1].address <= a
    <3>1. m + 1 = n \/ m + 1 < n
      BY <1>0, <2>6
    <3>2. m + 1 < n => blobs[m + 1].address < a \/ blobs[m + 1].address = a
      BY <1>o, <2>5, <2>7
    <3> QED
      BY <2>1, <2>5, <2>8, <3>1, <3>2
  <2>10. a < blobs[m + 1].address \/ a = blobs[m + 1].address
    BY <1>o, <2>7
  <2>11. blobs[m + 1].address = a + blobs[m].count
    BY <1>5, <2>1, <2>8, <2>9, <2>10
  <2> QED
    BY <2>7, <2>11 DEF Contiguous
<1>6. \A m \in 1..N : End(m) <= MaxAddress + 1
  <2> TAKE m \in 1..N
  <2>1. /\ blobs[m].section \in 1..S /\ blobs[m].address \in Places(elf, blobs[m].section)
        /\ blobs[m].count = size(blobs[m].section)
    BY <1>2
  <2> QED
    BY <1>3, <2>1 DEF End
<1> QED
  BY <1>0, <1>4, <1>5, <1>6 DEF Sorted, N

-----------------------------------------------------------------------------
\* The elements in the file.

\* The blobs k to e make an element, and this is its size.
Run(k, e) == /\ k \in 1..Len(blobs) /\ e \in k..Len(blobs)
             /\ \A j \in k..(e - 1) : Contiguous(j)
             /\ e < Len(blobs) => ~Contiguous(e)
Extent(k, e) == End(e) - blobs[k].address

\* The sequence o has the element of the blobs k to e at its place `at`.
Holds(o, k, e, at) ==
    /\ at + 1 + Padded(Extent(k, e)) <= Len(o)
    /\ o[at] = blobs[k].address /\ o[at + 1] = Padded(Extent(k, e))
    /\ \A m \in k..e : \A x \in 1..blobs[m].count :
         o[at + 1 + (blobs[m].address - blobs[k].address) + x] = Byte(blobs[m].section, x)

\* Padding only adds.
LEMMA PaddedIs ==
  ASSUME NEW n \in Nat
  PROVE  Padded(n) \in Nat /\ Padded(n) >= n
BY OutputAssumption DEF Padded

\* The blobs of a run lie between the start of the first and the end of the last.
LEMMA RunFacts ==
  ASSUME Sorted, NEW k, NEW e, Run(k, e)
  PROVE  /\ k \in 1..Len(blobs) /\ e \in 1..Len(blobs) /\ k <= e
         /\ Extent(k, e) \in Nat
         /\ \A m \in k..e : /\ m \in 1..Len(blobs)
                            /\ blobs[k].address <= blobs[m].address
                            /\ End(m) - blobs[k].address <= Extent(k, e)
<1>0. Len(blobs) \in Nat /\ k \in 1..Len(blobs) /\ e \in 1..Len(blobs) /\ k <= e
  BY DEF Sorted, Run
<1>1. ASSUME NEW l \in 1..Len(blobs), NEW m \in 1..Len(blobs), l <= m
      PROVE  blobs[l].address <= blobs[m].address /\ End(l) <= End(m)
  <2>1. l = m \/ l < m
    BY <1>0, <1>1
  <2>2. /\ blobs[l].address \in Nat /\ blobs[m].address \in Nat /\ End(l) \in Nat /\ End(m) \in Nat
        /\ blobs[l].address <= End(l) /\ blobs[m].address <= End(m)
    BY BlobFacts
  <2>3. l < m => End(l) <= blobs[m].address
    BY DEF Sorted
  <2> QED
    BY <2>1, <2>2, <2>3
<1>2. ASSUME NEW m \in k..e
      PROVE  /\ m \in 1..Len(blobs) /\ blobs[k].address <= blobs[m].address
             /\ End(m) - blobs[k].address <= Extent(k, e)
  <2>1. m \in 1..Len(blobs) /\ k <= m /\ m <= e
    BY <1>0
  <2>2. blobs[k].address <= blobs[m].address /\ End(m) <= End(e)
    BY <1>0, <1>1, <2>1
  <2>3. blobs[k].address \in Nat /\ End(m) \in Nat /\ End(e) \in Nat
    BY <1>0, <2>1, BlobFacts
  <2> QED
    BY <2>1, <2>2, <2>3 DEF Extent
<1>3. Extent(k, e) \in Nat
  <2>1. blobs[k].address <= blobs[e].address
    BY <1>0, <1>1
  <2>2. blobs[k].address \in Nat /\ blobs[e].address \in Nat /\ End(e) \in Nat /\ blobs[e].address <= End(e)
    BY <1>0, BlobFacts
  <2> QED
    BY <2>1, <2>2 DEF Extent
<1> QED
  BY <1>0, <1>2, <1>3

\* The elements of the model are such runs.
LEMMA RunIs ==
  ASSUME Sorted, NEW k \in 1..Len(blobs)
  PROVE  Run(k, ElementEnd(k)) /\ Size(k) = Extent(k, ElementEnd(k)) /\ Size(k) \in Nat
<1>1. Size(k) = End(ElementEnd(k)) - blobs[k].address /\ Size(k) \in Nat
  BY SizeIs
<1> QED
  BY <1>1, ElementEndIs DEF Run, Extent

\* Every byte of the image of an element is one of a blob.
LEMMA ImageIsTyped ==
  ASSUME Sorted, NEW k \in 1..Len(blobs)
  PROVE  Image(k) \in Seq(Nat) /\ Len(Image(k)) = Size(k)
<1> DEFINE e == ElementEnd(k)
<1>1. Run(k, e) /\ Size(k) = Extent(k, e) /\ Size(k) \in Nat
  BY RunIs
<1> HIDE DEF e
<1>2. ASSUME NEW x \in 1..Size(k)
      PROVE  Content(blobs[k].address + x - 1) \in Nat
  <2> DEFINE a == blobs[k].address + x - 1
             S == {m \in k..e : a < End(m)}
  <2>0. k \in Nat /\ e \in Nat /\ k <= e /\ Len(blobs) \in Nat
    BY <1>1, RunFacts DEF Sorted
  <2>1. blobs[k].address \in Nat /\ a \in Nat /\ blobs[k].address <= a /\ End(e) \in Nat /\ e \in 1..Len(blobs)
    <3>1. blobs[k].address \in Nat /\ e \in 1..Len(blobs)
      BY <1>1, RunFacts, BlobFacts
    <3>2. End(e) \in Nat
      BY <3>1, BlobFacts
    <3> QED
      BY <3>1, <3>2
  <2>2. a < End(e)
    BY <1>1, <2>1 DEF Extent
  <2> HIDE DEF a
  <2>3. S \in SUBSET Nat /\ S # {}
    BY <2>0, <2>2
  <2>4. PICK m \in S : \A y \in S : m <= y
    <3> HIDE DEF S
    <3> QED
      BY <2>3, Least
  <2>5. m \in k..e /\ a < End(m) /\ m \in 1..Len(blobs)
    BY <1>1, RunFacts
  <2>6. blobs[m].address <= a
    <3>1. CASE m = k
      BY <2>1, <3>1
    <3>2. CASE m # k
      <4>1. m - 1 \in k..(e - 1) /\ m - 1 \in k..e /\ (m - 1) + 1 = m /\ ~(m <= m - 1) /\ m - 1 \in 1..Len(blobs)
        BY <2>0, <2>5, <3>2
      <4>2. ~(a < End(m - 1))
        BY <2>4, <4>1
      <4>3. blobs[m].address = End(m - 1)
        BY <1>1, <4>1 DEF Run, Contiguous, End
      <4>4. End(m - 1) \in Nat
        BY <4>1, BlobFacts
      <4> QED
        BY <2>1, <4>2, <4>3, <4>4
    <3> QED
      BY <3>1, <3>2
  <2>7. /\ blobs[m].address \in Nat /\ blobs[m].count \in Nat /\ blobs[m].section \in Nat
        /\ End(m) = blobs[m].address + blobs[m].count
    BY <2>5, BlobFacts DEF End
  <2>8. BlobAt(a) = m
    BY <2>1, <2>5, <2>6, BlobAtIs
  <2>9. Content(a) = 1000 + 100 * blobs[m].section + (a - blobs[m].address + 1)
    BY <2>8 DEF Content, Byte
  <2>10. Content(a) \in Nat
    <3>1. a - blobs[m].address + 1 \in Nat
      BY <2>1, <2>6, <2>7
    <3> DEFINE p == blobs[m].section
               q == a - blobs[m].address + 1
    <3>2. p \in Nat /\ q \in Nat /\ Content(a) = 1000 + 100 * p + q
      BY <2>7, <2>9, <3>1
    <3> HIDE DEF p, q
    <3> QED
      BY <3>2
  <2> QED
    BY <2>10 DEF a
<1>3. Len(Image(k)) = Size(k)
  BY <1>1 DEF Image
<1>4. Image(k) \in [1..Size(k) -> Nat]
  BY <1>2 DEF Image
<1> QED
  BY <1>1, <1>3, <1>4

\* What WriteElement appends.
Bytes(k) == <<blobs[k].address, Padded(Size(k))>> \o ElementData(k) \o [n \in 1..(Padded(Size(k)) - Size(k)) |-> Pad]

\* These bytes are numbers, as many as announced, and hold the element.
LEMMA ElementIs ==
  ASSUME Sorted, NEW k \in 1..Len(blobs)
  PROVE  /\ Bytes(k) \in Seq(Nat) /\ Len(Bytes(k)) = 2 + Padded(Size(k))
         /\ Holds(Bytes(k), k, ElementEnd(k), 1)
<1> DEFINE e == ElementEnd(k)
           z == Size(k)
           u == <<blobs[k].address, Padded(z)>>
           v == Image(k)
           w == [n \in 1..(Padded(z) - z) |-> Pad]
           t == u \o v
           b == t \o w
<1>1. Run(k, e) /\ z = Extent(k, e) /\ z \in Nat
  BY RunIs
<1>2. Padded(z) \in Nat /\ Padded(z) >= z
  BY <1>1, PaddedIs
<1>3. blobs[k].address \in Nat /\ Pad \in Nat
  BY BlobFacts DEF Pad
<1>4. v \in Seq(Nat) /\ Len(v) = z /\ \A x \in 1..z : v[x] = Content(blobs[k].address + x - 1)
  BY ImageIsTyped DEF Image
<1>5. u \in Seq(Nat) /\ Len(u) = 2 /\ u[1] = blobs[k].address /\ u[2] = Padded(z)
  <2> HIDE DEF z
  <2> QED
    BY <1>2, <1>3
<1>6. Bytes(k) = b
  BY DataIs DEF Bytes
<1> HIDE DEF e, z, u, v
<1>7. w \in Seq(Nat) /\ Len(w) = Padded(z) - z
  BY <1>1, <1>2, <1>3
<1> HIDE DEF w
<1>8. /\ t \in Seq(Nat) /\ Len(t) = 2 + z
      /\ t[1] = blobs[k].address /\ t[2] = Padded(z)
      /\ \A x \in 1..z : t[2 + x] = v[x]
  <2>0. t \in Seq(Nat) /\ Len(t) = Len(u) + Len(v)
    BY <1>4, <1>5, ConcatProperties
  <2>1. t \in Seq(Nat) /\ Len(t) = 2 + z
    BY <1>4, <1>5, <2>0
  <2>2. \A y \in 1..(2 + z) : t[y] = IF y <= 2 THEN u[y] ELSE v[y - 2]
    <3>1. \A y \in 1..(Len(u) + Len(v)) : t[y] = IF y <= Len(u) THEN u[y] ELSE v[y - Len(u)]
      BY <1>4, <1>5, ConcatProperties
    <3> QED
      BY <1>4, <1>5, <3>1
  <2>3. 1 \in 1..(2 + z) /\ 2 \in 1..(2 + z)
    BY <1>1
  <2>4. \A x \in 1..z : t[2 + x] = v[x]
    <3> TAKE x \in 1..z
    <3>1. 2 + x \in 1..(2 + z) /\ ~(2 + x <= 2) /\ (2 + x) - 2 = x
      BY <1>1
    <3>2. t[2 + x] = v[(2 + x) - 2]
      BY <2>2, <3>1
    <3> QED
      BY <3>1, <3>2
  <2> HIDE DEF t
  <2> QED
    BY <1>5, <2>1, <2>2, <2>3, <2>4
<1> HIDE DEF t
<1>9. b \in Seq(Nat) /\ Len(b) = 2 + Padded(z) /\ \A y \in 1..(2 + z) : b[y] = t[y]
  <2>1. b \in Seq(Nat) /\ Len(b) = Len(t) + Len(w) /\ Len(t) + Len(w) = 2 + Padded(z)
    BY <1>1, <1>2, <1>7, <1>8
  <2>2. \A y \in 1..(2 + z) : b[y] = t[y]
    <3> TAKE y \in 1..(2 + z)
    <3>1. y \in 1..(Len(t) + Len(w)) /\ y <= Len(t)
      BY <1>1, <1>2, <1>7, <1>8
    <3> QED
      BY <1>7, <1>8, <3>1, ConcatProperties
  <2> QED
    BY <2>1, <2>2
<1> HIDE DEF b
<1>10. ASSUME NEW m \in k..e, NEW x \in 1..blobs[m].count
       PROVE  b[1 + 1 + (blobs[m].address - blobs[k].address) + x] = Byte(blobs[m].section, x)
  <2> DEFINE y == (blobs[m].address - blobs[k].address) + x
  <2>1. m \in 1..Len(blobs) /\ blobs[k].address <= blobs[m].address /\ End(m) - blobs[k].address <= z
    BY <1>1, RunFacts
  <2>2. blobs[m].address \in Nat /\ blobs[m].count \in Nat /\ End(m) = blobs[m].address + blobs[m].count
    BY <2>1, BlobFacts DEF End
  <2>d. blobs[m].address - blobs[k].address \in Nat
    BY <1>3, <2>1, <2>2
  <2>s. (blobs[m].address - blobs[k].address) + blobs[m].count <= z
    BY <1>1, <1>3, <2>1, <2>2
  <2>3. y \in 1..z /\ 2 + y \in 1..(2 + z) /\ 1 + 1 + (blobs[m].address - blobs[k].address) + x = 2 + y
    <3> DEFINE c == blobs[m].count
               d == blobs[m].address - blobs[k].address
    <3>1. c \in Nat /\ x \in 1..c /\ d + c <= z /\ d \in Nat
      BY <2>2, <2>d, <2>s
    <3> HIDE DEF c, d
    <3>2. d + x \in 1..z /\ 2 + (d + x) \in 1..(2 + z) /\ 1 + 1 + d + x = 2 + (d + x)
      BY <1>1, <3>1
    <3> QED
      BY <3>2 DEF d
  <2>4. blobs[k].address + y - 1 = blobs[m].address + x - 1
    BY <1>3, <2>2
  <2>5. Content(blobs[m].address + x - 1) = Byte(blobs[m].section, x)
    BY <2>1, ContentIs
  <2> HIDE DEF y
  <2>6. b[2 + y] = Content(blobs[k].address + y - 1)
    BY <1>4, <1>8, <1>9, <2>3
  <2> QED
    BY <2>3, <2>4, <2>5, <2>6
<1>11. b[1] = blobs[k].address /\ b[1 + 1] = Padded(z)
  <2>1. 1 \in 1..(2 + z) /\ 2 \in 1..(2 + z) /\ 1 + 1 = 2
    BY <1>1
  <2> QED
    BY <1>8, <1>9, <2>1
<1>12. 1 + 1 + Padded(z) <= Len(b)
  BY <1>2, <1>9
<1>13. Holds(b, k, e, 1)
  BY <1>1, <1>10, <1>11, <1>12 DEF Holds
<1> QED
  BY <1>6, <1>9, <1>13 DEF e, z

\* What a file holds stays where it is when more is appended, and what is
\* appended is held behind it.
LEMMA HoldsMore ==
  ASSUME Sorted, NEW k, NEW e, Run(k, e), NEW o \in Seq(Nat), NEW w \in Seq(Nat), NEW at \in Nat \ {0},
         Holds(o, k, e, at)
  PROVE  Holds(o \o w, k, e, at) /\ Holds(w \o o, k, e, Len(w) + at)
<1> DEFINE n == Extent(k, e)
<1>1. n \in Nat /\ Padded(n) \in Nat /\ Padded(n) >= n
  BY RunFacts, PaddedIs
<1>2. at + 1 + Padded(n) <= Len(o)
  BY DEF Holds
<1> HIDE DEF n
<1>3. Len(o) \in Nat /\ Len(w) \in Nat /\ Len(o \o w) = Len(o) + Len(w) /\ Len(w \o o) = Len(w) + Len(o)
  OBVIOUS
<1>4. ASSUME NEW y \in at..(at + 1 + n)
      PROVE  (o \o w)[y] = o[y] /\ (w \o o)[Len(w) + y] = o[y]
  <2>1. /\ y \in 1..(Len(o) + Len(w)) /\ y <= Len(o)
        /\ Len(w) + y \in 1..(Len(w) + Len(o)) /\ ~(Len(w) + y <= Len(w)) /\ (Len(w) + y) - Len(w) = y
    BY <1>1, <1>2, <1>3
  <2>2. (w \o o)[Len(w) + y] = o[(Len(w) + y) - Len(w)]
    BY <2>1, ConcatProperties
  <2> QED
    BY <2>1, <2>2, ConcatProperties
<1>5. ASSUME NEW m \in k..e, NEW x \in 1..blobs[m].count
      PROVE  LET y == at + 1 + (blobs[m].address - blobs[k].address) + x IN
             /\ y \in at..(at + 1 + n) /\ o[y] = Byte(blobs[m].section, x)
             /\ (Len(w) + at) + 1 + (blobs[m].address - blobs[k].address) + x = Len(w) + y
  <2>1. k \in 1..Len(blobs) /\ m \in 1..Len(blobs) /\ blobs[k].address <= blobs[m].address /\ End(m) - blobs[k].address <= n
    BY RunFacts DEF n
  <2>2. /\ blobs[k].address \in Nat
        /\ blobs[m].address \in Nat /\ blobs[m].count \in Nat /\ End(m) = blobs[m].address + blobs[m].count
    BY <2>1, BlobFacts DEF End
  <2>3. o[at + 1 + (blobs[m].address - blobs[k].address) + x] = Byte(blobs[m].section, x)
    BY DEF Holds
  <2> DEFINE d == blobs[m].address - blobs[k].address
  <2>d. d \in Nat
    BY <2>1, <2>2
  <2>s. d + blobs[m].count <= n
    BY <1>1, <2>1, <2>2
  <2> HIDE DEF d
  <2>x. d + x \in 1..n
    <3>1. blobs[m].count \in Nat
      BY <2>2
    <3> DEFINE c == blobs[m].count
    <3>2. c \in Nat /\ x \in 1..c /\ d + c <= n
      BY <2>s, <3>1
    <3> HIDE DEF c
    <3> QED
      BY <1>1, <2>d, <3>2
  <2>n. x \in Int
    BY <2>2
  <2>4. at + 1 + d + x \in at..(at + 1 + n)
    BY <1>1, <2>n, <2>d, <2>x
  <2>5. (Len(w) + at) + 1 + d + x = Len(w) + (at + 1 + d + x)
    BY <1>3, <2>n, <2>d
  <2> QED
    BY <2>3, <2>4, <2>5 DEF d
<1>6. at \in at..(at + 1 + n) /\ at + 1 \in at..(at + 1 + n) /\ (Len(w) + at) + 1 = Len(w) + (at + 1)
  BY <1>1, <1>3
<1>7. o[at] = blobs[k].address /\ o[at + 1] = Padded(n)
  BY DEF Holds, n
<1>8. Holds(o \o w, k, e, at)
  <2>1. at + 1 + Padded(n) <= Len(o \o w)
    BY <1>1, <1>2, <1>3
  <2>2. (o \o w)[at] = blobs[k].address /\ (o \o w)[at + 1] = Padded(n)
    BY <1>4, <1>6, <1>7
  <2>3. \A m \in k..e : \A x \in 1..blobs[m].count :
          (o \o w)[at + 1 + (blobs[m].address - blobs[k].address) + x] = Byte(blobs[m].section, x)
    BY <1>4, <1>5
  <2> QED
    BY <2>1, <2>2, <2>3 DEF Holds, n
<1>9. Holds(w \o o, k, e, Len(w) + at)
  <2>1. (Len(w) + at) + 1 + Padded(n) <= Len(w \o o)
    BY <1>1, <1>2, <1>3
  <2>2. (w \o o)[Len(w) + at] = blobs[k].address /\ (w \o o)[(Len(w) + at) + 1] = Padded(n)
    BY <1>4, <1>6, <1>7
  <2>3. \A m \in k..e : \A x \in 1..blobs[m].count :
          (w \o o)[(Len(w) + at) + 1 + (blobs[m].address - blobs[k].address) + x] = Byte(blobs[m].section, x)
    <3> TAKE m \in k..e
    <3> TAKE x \in 1..blobs[m].count
    <3> DEFINE y == at + 1 + (blobs[m].address - blobs[k].address) + x
    <3>1. /\ y \in at..(at + 1 + n) /\ o[y] = Byte(blobs[m].section, x)
          /\ (Len(w) + at) + 1 + (blobs[m].address - blobs[k].address) + x = Len(w) + y
      BY <1>5
    <3> HIDE DEF y
    <3>2. (w \o o)[Len(w) + y] = o[y]
      BY <1>4, <3>1
    <3> QED
      BY <3>1, <3>2
  <2> QED
    BY <2>1, <2>2, <2>3 DEF Holds, n
<1> QED
  BY <1>8, <1>9

-----------------------------------------------------------------------------
\* The layout of the file, and the inductive invariant.

\* Where the elements start, in the list of blobs and in the file; the last
\* entry is the place behind the last of them.
Element == [first : Nat, at : Nat]
Layout(L) ==
    /\ L \in Seq(Element) /\ Len(L) >= 1
    /\ L[1].first = 1 /\ L[1].at = 4
    /\ \A j \in 1..Len(L) : L[j].at <= L[Len(L)].at
    /\ \A j \in 1..(Len(L) - 1) :
         /\ Run(L[j].first, L[j + 1].first - 1)
         /\ L[j + 1].at = L[j].at + 2 + Padded(Extent(L[j].first, L[j + 1].first - 1))
\* The first pass has counted these elements.
Counted(L) == /\ sizes.elements = Len(L) - 1
              /\ sizes.file = L[Len(L)].at - 1 /\ sizes.target = L[Len(L)].at - 4
Complete(L) == Layout(L) /\ Counted(L) /\ L[Len(L)].first = Len(blobs) + 1
\* The sequence o has the prefixes and the first n - 1 of the elements.
Elements(L, n, o) ==
    /\ o \in Seq(Nat) /\ Len(o) >= 3
    /\ o[1] = sizes.file /\ o[2] = sizes.target /\ o[3] = sizes.elements
    /\ \A j \in 1..(n - 1) : Holds(o, L[j].first, L[j + 1].first - 1, L[j].at)

\* The inductive invariant.
Starting == step \in {"header", "sections"} =>
    /\ out = <<>> /\ crc = <<>> /\ sizes = [file |-> 0, target |-> 0, elements |-> 0]
    /\ step = "header" => blobs = <<>> /\ i = 1
Reading == step = "sections" => i \in 1..(Len(elf.sections) + 1) /\ Entered(blobs, i - 1)
AllRead == step \in {"count", "write", "done"} => Entered(blobs, Len(elf.sections))
Counting == step = "count" =>
    out = <<>> /\ crc = <<>> /\ \E L : Layout(L) /\ Counted(L) /\ L[Len(L)].first = i
Writing == step = "write" =>
    crc = out /\ \E L : /\ Complete(L)
                        /\ \E n \in 1..Len(L) : L[n].first = i /\ Elements(L, n, out) /\ Len(out) + 1 = L[n].at
Written == step = "done" =>
    \E L : Complete(L) /\ Elements(L, Len(L), out) /\ Len(out) = L[Len(L)].at + 1 /\ crc = Front(out)
ImageInv == elf \in Inputs /\ Starting /\ Reading /\ AllRead /\ Counting /\ Writing /\ Written

\* The types of a layout, and its entries but the last start at a blob.
LEMMA LayoutFacts ==
  ASSUME Sorted, NEW L, Layout(L)
  PROVE  /\ Len(L) \in Nat \ {0} /\ Len(L) \in 1..Len(L)
         /\ L[Len(L)].first <= Len(blobs) + 1
         /\ \A j \in 1..Len(L) : L[j].first \in Nat \ {0} /\ L[j].at \in Nat \ {0}
         /\ \A j \in 1..(Len(L) - 1) : j \in 1..Len(L) /\ j + 1 \in 1..Len(L) /\ L[j].first <= Len(blobs)
<1>1. Len(L) \in Nat \ {0} /\ Len(L) \in 1..Len(L)
  BY DEF Layout
<1>2. \A j \in 1..Len(L) : L[j].first \in Nat /\ L[j].at \in Nat
  <2> TAKE j \in 1..Len(L)
  <2>1. L[j] \in Element
    BY DEF Layout
  <2> QED
    BY <2>1 DEF Element
<1>3. ASSUME NEW j \in 1..(Len(L) - 1)
      PROVE  /\ j \in 1..Len(L) /\ j + 1 \in 1..Len(L)
             /\ L[j].first \in 1..Len(blobs) /\ L[j + 1].first - 1 \in 1..Len(blobs)
             /\ L[j + 1].at \in Nat \ {0}
  <2>1. j \in 1..Len(L) /\ j + 1 \in 1..Len(L)
    BY <1>1
  <2>2. /\ Run(L[j].first, L[j + 1].first - 1)
        /\ L[j + 1].at = L[j].at + 2 + Padded(Extent(L[j].first, L[j + 1].first - 1))
    BY DEF Layout
  <2>3. /\ L[j].first \in 1..Len(blobs) /\ L[j + 1].first - 1 \in 1..Len(blobs)
        /\ Padded(Extent(L[j].first, L[j + 1].first - 1)) \in Nat
    BY <2>2, RunFacts, PaddedIs
  <2> QED
    BY <1>2, <2>1, <2>2, <2>3
<1>4. L[1].first = 1 /\ L[1].at = 4
  BY DEF Layout
<1>5. \A j \in 1..Len(L) : j # 1 => j - 1 \in 1..(Len(L) - 1) /\ (j - 1) + 1 = j
  BY <1>1
<1>6. Len(blobs) \in Nat
  BY DEF Sorted
<1>7. \A j \in 1..Len(L) : /\ L[j].first \in Nat \ {0} /\ L[j].at \in Nat \ {0}
                           /\ L[j].first <= Len(blobs) + 1
  <2> TAKE j \in 1..Len(L)
  <2>1. CASE j = 1
    BY <1>4, <1>6, <2>1
  <2>2. CASE j # 1
    <3>1. L[j].first - 1 \in 1..Len(blobs) /\ L[j].at \in Nat \ {0}
      BY <1>3, <1>5, <2>2
    <3> QED
      BY <1>2, <1>6, <3>1
  <2> QED
    BY <2>1, <2>2
<1>8. \A j \in 1..(Len(L) - 1) : L[j].first <= Len(blobs)
  BY <1>3, <1>6
<1> QED
  BY <1>1, <1>3, <1>7, <1>8

\* An element has one end.
LEMMA OneEnd ==
  ASSUME Sorted, NEW k, NEW e, NEW f, Run(k, e), Run(k, f)
  PROVE  e = f
<1>1. Len(blobs) \in Nat
  BY DEF Sorted
<1>2. ASSUME NEW x, NEW y, Run(k, x), Run(k, y), x < y
      PROVE  FALSE
  <2>1. x \in k..(y - 1) /\ x < Len(blobs)
    BY <1>1, <1>2 DEF Run
  <2> QED
    BY <1>2, <2>1 DEF Run
<1>3. e \in Int /\ f \in Int
  BY <1>1 DEF Run
<1> QED
  BY <1>2, <1>3

\* Counting one more element.
LEMMA LayoutGrows ==
  ASSUME Sorted, NEW L, Layout(L), NEW k \in 1..Len(blobs), L[Len(L)].first = k
  PROVE  LET M == Append(L, [first |-> ElementEnd(k) + 1, at |-> L[Len(L)].at + 2 + Padded(Size(k))]) IN
         /\ Layout(M) /\ Len(M) = Len(L) + 1
         /\ M[Len(M)].first = ElementEnd(k) + 1 /\ M[Len(M)].at = L[Len(L)].at + 2 + Padded(Size(k))
<1> DEFINE n == Len(L)
           e == ElementEnd(k)
           x == [first |-> e + 1, at |-> L[n].at + 2 + Padded(Size(k))]
           M == Append(L, x)
<1>1. L \in Seq(Element) /\ n \in Nat \ {0}
  BY DEF Layout
<1>2. Run(k, e) /\ Size(k) = Extent(k, e) /\ Padded(Size(k)) \in Nat
  BY RunIs, PaddedIs
<1>3. \A j \in 1..n : L[j].first \in Nat \ {0} /\ L[j].at \in Nat \ {0}
  BY LayoutFacts
<1>4. e \in Nat
  BY <1>2, RunFacts
<1> HIDE DEF e
<1>5. x \in Element /\ x.first = e + 1 /\ x.at = L[n].at + 2 + Padded(Size(k)) /\ x.at \in Nat
  BY <1>1, <1>2, <1>3, <1>4 DEF Element
<1> HIDE DEF x, n
<1>6. M \in Seq(Element) /\ Len(M) = n + 1 /\ M[n + 1] = x /\ \A j \in 1..n : M[j] = L[j]
  BY <1>1, <1>5 DEF n
<1> HIDE DEF M
<1>7. M[1].first = 1 /\ M[1].at = 4
  <2>1. 1 \in 1..n
    BY <1>1
  <2> QED
    BY <1>6, <2>1 DEF Layout
<1>8. \A j \in 1..Len(M) : M[j].at <= M[Len(M)].at
  <2> TAKE j \in 1..Len(M)
  <2>1. CASE j \in 1..n
    <3>1. L[j].at <= L[n].at /\ L[j].at \in Nat /\ L[n].at \in Nat
      BY <1>1, <1>3, <2>1 DEF Layout, n
    <3>2. M[j].at = L[j].at /\ M[Len(M)].at = L[n].at + 2 + Padded(Size(k))
      BY <1>5, <1>6, <2>1
    <3> HIDE DEF Size
    <3> QED
      BY <1>2, <3>1, <3>2
  <2>2. CASE j = n + 1
    BY <1>5, <1>6, <2>2
  <2> QED
    BY <1>1, <1>6, <2>1, <2>2
<1>9. ASSUME NEW j \in 1..(Len(M) - 1)
      PROVE  /\ Run(M[j].first, M[j + 1].first - 1)
             /\ M[j + 1].at = M[j].at + 2 + Padded(Extent(M[j].first, M[j + 1].first - 1))
  <2>1. CASE j = n
    <3>1. M[j] = L[n] /\ M[j + 1] = x /\ x.first - 1 = e
      BY <1>1, <1>4, <1>5, <1>6, <2>1
    <3> QED
      BY <1>2, <1>5, <3>1 DEF n
  <2>2. CASE j # n
    <3>1. j \in 1..(n - 1) /\ j \in 1..n /\ j + 1 \in 1..n
      BY <1>1, <1>6, <2>2
    <3>2. M[j] = L[j] /\ M[j + 1] = L[j + 1]
      BY <1>6, <3>1
    <3> QED
      BY <3>1, <3>2 DEF Layout, n
  <2> QED
    BY <2>1, <2>2
<1>10. Layout(M)
  <2>1. Len(M) >= 1
    BY <1>1, <1>6
  <2> QED
    BY <1>6, <1>7, <1>8, <1>9, <2>1 DEF Layout
<1> QED
  BY <1>5, <1>6, <1>10 DEF M, x, n, e

-----------------------------------------------------------------------------
\* The steps.

\* What is said of the blobs stays true while they are not changed.
LEMMA Kept ==
  ASSUME elf' = elf, blobs' = blobs
  PROVE  /\ \A n : Entered(blobs, n) => Entered(blobs, n)'
         /\ \A L : Layout(L) => Layout(L)'
         /\ \A o, k, e, at : Holds(o, k, e, at) => Holds(o, k, e, at)'
<1>1. \A n : Entered(blobs, n) => Entered(blobs, n)'
  BY DEF Entered
<1>2. \A L : Layout(L) => Layout(L)'
  BY DEF Layout, Run, Extent, End, Contiguous
<1>3. \A o, k, e, at : Holds(o, k, e, at) => Holds(o, k, e, at)'
  BY DEF Holds, Extent, End
<1> QED
  BY <1>1, <1>2, <1>3

\* The input has the type of a file.
LEMMA ElvesAre ==
  ASSUME elf \in Inputs
  PROVE  elf \in Elves /\ Len(elf.sections) \in Nat
<1>1. elf \in Elves
  BY InputsAssumption, Zenon DEF Elves, Segment, SectionHeader
<1> QED
  BY <1>1 DEF Elves

\* The invariant holds when main() starts.
LEMMA ImageInit ==
  ASSUME Init
  PROVE  ImageInv
BY DEF Init, ImageInv, Starting, Reading, AllRead, Counting, Writing, Written

\* A header checked: nothing is read yet.
LEMMA CheckHeaderKeeps ==
  ASSUME ImageInv, CheckHeader
  PROVE  ImageInv'
<1>1. elf \in Inputs /\ elf' = elf /\ step = "header" /\ (step' = "sections" \/ step' = "rejected")
  BY DEF ImageInv, CheckHeader
<1>2. Starting'
  BY <1>1 DEF ImageInv, CheckHeader, Starting
<1>3. Reading'
  <2>1. blobs' = <<>> /\ i' = 1
    BY <1>1 DEF ImageInv, CheckHeader, Starting
  <2>2. 1 \in 1..(Len(elf.sections) + 1)
    BY <1>1, ElvesAre
  <2>3. Entered(<<>>, 0)
    BY DEF Entered
  <2>4. Entered(blobs, i - 1)'
    BY <1>1, <2>1 DEF Entered
  <2> QED
    BY <1>1, <2>1, <2>2, <2>4 DEF Reading
<1> QED
  BY <1>1, <1>2, <1>3 DEF ImageInv, AllRead, Counting, Writing, Written

\* A section read: find_blob puts it in its place if it is kept.
LEMMA ReadSectionKeeps ==
  ASSUME ImageInv, ReadSection
  PROVE  ImageInv'
<1> DEFINE sh == elf.sections[i]
           x == [section |-> i, count |-> sh.size, address |-> phy_addr(sh)]
<1>1. /\ elf \in Inputs /\ elf' = elf /\ step = "sections" /\ step' = "sections"
      /\ i' = i + 1 /\ i <= Len(elf.sections)
  BY DEF ImageInv, ReadSection
<1>2. elf \in Elves /\ Len(elf.sections) \in Nat
  BY <1>1, ElvesAre
<1>3. i \in 1..Len(elf.sections) /\ i \in Nat \ {0} /\ Entered(blobs, i - 1)
  BY <1>1, <1>2 DEF ImageInv, Reading
<1>4. /\ Places(elf, i) \in SUBSET Nat
      /\ Relevant(sh) /\ Covering(sh) # {} <=> Places(elf, i) # {}
      /\ Relevant(sh) /\ Covering(sh) # {} => phy_addr(sh) \in Places(elf, i)
  BY <1>2, <1>3, PlaceIs
<1>5. sh.size \in Nat
  <2>1. sh \in SectionHeader
    BY <1>2, <1>3 DEF Elves
  <2> HIDE DEF sh
  <2> QED
    BY <2>1 DEF SectionHeader
<1>6. Entered(blobs', i)
  <2>1. CASE Relevant(sh) /\ Covering(sh) # {}
    <3>1. blobs' = find_blob(blobs, x)
      BY <2>1 DEF ReadSection
    <3>2. x.section = i /\ x.address \in Places(elf, i) /\ x.count = elf.sections[i].size
      BY <1>4, <2>1
    <3>3. x \in Blob
      <4>1. phy_addr(sh) \in Nat
        BY <1>4, <2>1
      <4> HIDE DEF sh
      <4> QED
        BY <1>3, <1>5, <4>1 DEF Blob
    <3> HIDE DEF x, sh
    <3>4. Entered(find_blob(blobs, x), i)
      BY <1>2, <1>3, <3>2, <3>3, EnterKept
    <3> QED
      BY <3>1, <3>4
  <2>2. CASE ~(Relevant(sh) /\ Covering(sh) # {})
    <3>1. blobs' = blobs
      BY <2>2 DEF ReadSection
    <3>2. Places(elf, i) = {}
      BY <1>4, <2>2
    <3> QED
      BY <1>3, <3>1, <3>2, EnterNone
  <2> QED
    BY <2>1, <2>2
<1>7. Reading'
  <2>1. i' - 1 = i /\ i' \in 1..(Len(elf'.sections) + 1)
    BY <1>1, <1>2, <1>3
  <2>2. Entered(blobs, i - 1)'
    BY <1>1, <1>6, <2>1 DEF Entered
  <2> QED
    BY <2>1, <2>2 DEF Reading
<1>8. Starting'
  BY <1>1 DEF ImageInv, ReadSection, Starting
<1> QED
  BY <1>1, <1>7, <1>8 DEF ImageInv, AllRead, Counting, Writing, Written

\* The first element comes behind the prefixes.
First == <<[first |-> 1, at |-> 4]>>

\* The list is complete: the layout has no element yet.
LEMMA SectionsReadKeeps ==
  ASSUME ImageInv, SectionsRead
  PROVE  ImageInv'
<1>1. /\ elf \in Inputs /\ elf' = elf /\ step = "sections" /\ step' = "count" /\ i' = 1 /\ blobs' = blobs
      /\ i > Len(elf.sections) /\ out' = <<>> /\ crc' = <<>>
      /\ sizes' = [file |-> 3, target |-> 0, elements |-> 0]
  BY DEF ImageInv, SectionsRead, Starting
<1>2. Entered(blobs, Len(elf.sections))
  <2>1. i - 1 = Len(elf.sections) /\ Entered(blobs, i - 1)
    BY <1>1, ElvesAre DEF ImageInv, Reading
  <2> QED
    BY <2>1
<1>3. AllRead'
  <2>1. Entered(blobs', Len(elf'.sections))
    BY <1>1, <1>2
  <2>2. Entered(blobs, Len(elf.sections))'
    BY <1>1, <2>1 DEF Entered
  <2> QED
    BY <2>2 DEF AllRead
<1>4. First \in Seq(Element) /\ Len(First) = 1 /\ First[1].first = 1 /\ First[1].at = 4
  BY DEF First, Element
<1>5. Counting'
  <2>1. Layout(First)
    BY <1>4 DEF Layout
  <2>2. Layout(First)' /\ Counted(First)' /\ First[Len(First)].first = i'
    <3>1. Layout(First)'
      BY <1>4 DEF Layout, First
    <3>2. Counted(First)'
      BY <1>1, <1>4 DEF Counted, First
    <3> QED
      BY <1>1, <1>4, <3>1, <3>2
  <2> QED
    BY <1>1, <2>2 DEF Counting, First
<1> QED
  BY <1>1, <1>3, <1>5 DEF ImageInv, Starting, Reading, Writing, Written

\* Once all sections are read.
LEMMA ReadIsSorted ==
  ASSUME ImageInv, WellLinked(elf), step \in {"count", "write", "done"}
  PROVE  Sorted
<1>1. elf \in Elves
  BY ElvesAre DEF ImageInv
<1> QED
  BY <1>1, EnteredIsSorted DEF ImageInv, AllRead

\* After that the list stays as it is.
LEMMA AllReadKept ==
  ASSUME ImageInv, step \in {"count", "write", "done"}, elf' = elf, blobs' = blobs
  PROVE  AllRead'
<1>1. Entered(blobs, Len(elf.sections))
  BY DEF ImageInv, AllRead
<1>2. Entered(blobs', Len(elf'.sections))
  BY <1>1
<1>3. Entered(blobs, Len(elf.sections))'
  BY <1>2 DEF Entered
<1> QED
  BY <1>3 DEF AllRead

\* An element counted: the layout has one more.
LEMMA CountElementKeeps ==
  ASSUME ImageInv, WellLinked(elf), CountElement
  PROVE  ImageInv'
<1>1. /\ elf \in Inputs /\ elf' = elf /\ blobs' = blobs /\ step = "count" /\ step' = "count"
      /\ out' = <<>> /\ crc' = <<>> /\ i <= Len(blobs)
      /\ i' = ElementEnd(i) + 1
      /\ sizes' = [file |-> sizes.file + (2 + Padded(Size(i))), target |-> sizes.target + (2 + Padded(Size(i))),
                   elements |-> sizes.elements + 1]
  BY DEF ImageInv, CountElement, Counting, Size
<1>2. Sorted
  BY <1>1, ReadIsSorted
<1>3. AllRead'
  BY <1>1, AllReadKept
<1>4. PICK L : Layout(L) /\ Counted(L) /\ L[Len(L)].first = i
  BY <1>1 DEF ImageInv, Counting
<1>5. /\ Len(L) \in Nat /\ L[Len(L)].at \in Nat /\ i \in 1..Len(blobs)
  <2>1. Len(L) \in 1..Len(L) /\ Len(L) \in Nat
    BY <1>2, <1>4, LayoutFacts
  <2>2. L[Len(L)].first \in Nat \ {0} /\ L[Len(L)].at \in Nat
    BY <1>2, <1>4, <2>1, LayoutFacts
  <2>3. Len(blobs) \in Nat
    BY <1>2 DEF Sorted
  <2> QED
    BY <1>1, <1>4, <2>1, <2>2, <2>3
<1>6. PICK M : /\ Layout(M) /\ Len(M) = Len(L) + 1
               /\ M[Len(M)].first = ElementEnd(i) + 1 /\ M[Len(M)].at = L[Len(L)].at + 2 + Padded(Size(i))
  BY <1>2, <1>4, <1>5, LayoutGrows
<1>7. Padded(Size(i)) \in Nat
  BY <1>2, <1>5, RunIs, PaddedIs
<1>8. Counted(M)'
  <2>1. sizes.elements = Len(L) - 1 /\ sizes.file = L[Len(L)].at - 1 /\ sizes.target = L[Len(L)].at - 4
    BY <1>4 DEF Counted
  <2>2. sizes'.elements = (Len(L) - 1) + 1
    BY <1>1, <2>1
  <2>3. sizes'.file = (L[Len(L)].at - 1) + (2 + Padded(Size(i)))
    BY <1>1, <2>1
  <2>4. sizes'.target = (L[Len(L)].at - 4) + (2 + Padded(Size(i)))
    BY <1>1, <2>1
  <2> DEFINE a == L[Len(L)].at
             n == Len(L)
             p == Padded(Size(i))
  <2>5. /\ a \in Nat /\ n \in Nat /\ p \in Nat /\ Len(M) = n + 1 /\ M[Len(M)].at = a + 2 + p
        /\ sizes'.elements = (n - 1) + 1 /\ sizes'.file = (a - 1) + (2 + p) /\ sizes'.target = (a - 4) + (2 + p)
    BY <1>5, <1>6, <1>7, <2>2, <2>3, <2>4
  <2> HIDE DEF a, n, p
  <2>6. sizes'.elements = Len(M) - 1 /\ sizes'.file = M[Len(M)].at - 1 /\ sizes'.target = M[Len(M)].at - 4
    BY <2>5
  <2> QED
    BY <2>6 DEF Counted
<1>9. Counting'
  <2>1. Layout(M)'
    BY <1>1, <1>6, Kept
  <2> QED
    BY <1>1, <1>6, <1>8, <2>1 DEF Counting
<1> QED
  BY <1>1, <1>3, <1>9 DEF ImageInv, Starting, Reading, Writing, Written

\* The prefixes written: the file has no element yet.
LEMMA WritePrefixesKeeps ==
  ASSUME ImageInv, WellLinked(elf), WritePrefixes
  PROVE  ImageInv'
<1>0. PICK o : o = <<sizes.file, sizes.target, sizes.elements>>
  OBVIOUS
<1>1. /\ elf \in Inputs /\ elf' = elf /\ blobs' = blobs /\ sizes' = sizes /\ step = "count" /\ step' = "write"
      /\ out = <<>> /\ crc = <<>> /\ i > Len(blobs) /\ i' = 1
      /\ out' = <<>> \o o /\ crc' = <<>> \o o
  BY <1>0 DEF ImageInv, WritePrefixes, Write, Counting
<1>2. Sorted
  BY <1>1, ReadIsSorted
<1>3. AllRead'
  BY <1>1, AllReadKept
<1>4. PICK L : Layout(L) /\ Counted(L) /\ L[Len(L)].first = i
  BY <1>1 DEF ImageInv, Counting
<1>5. /\ Len(L) \in Nat \ {0} /\ Len(L) \in 1..Len(L)
      /\ L[Len(L)].first <= Len(blobs) + 1
      /\ \A j \in 1..Len(L) : L[j].first \in Nat \ {0} /\ L[j].at \in Nat \ {0}
  BY <1>2, <1>4, LayoutFacts
<1>6. L[1].first = 1 /\ L[1].at = 4 /\ 1 \in 1..Len(L) /\ L[1].at <= L[Len(L)].at
  BY <1>4, <1>5 DEF Layout
<1>7. o \in Seq(Nat) /\ Len(o) = 3 /\ o[1] = sizes.file /\ o[2] = sizes.target /\ o[3] = sizes.elements
  <2>1. sizes.elements = Len(L) - 1 /\ sizes.file = L[Len(L)].at - 1 /\ sizes.target = L[Len(L)].at - 4
    BY <1>4 DEF Counted
  <2>2. sizes.elements \in Nat /\ sizes.file \in Nat /\ sizes.target \in Nat
    BY <1>5, <1>6, <2>1
  <2> QED
    BY <1>0, <2>2
<1>8. out' = o /\ crc' = o
  BY <1>1, <1>7, ConcatEmptySeq
<1>9. L[Len(L)].first = Len(blobs) + 1
  <2>1. Len(blobs) \in Nat
    BY <1>2 DEF Sorted
  <2>2. L[Len(L)].first \in Nat
    BY <1>5
  <2> QED
    BY <1>1, <1>4, <1>5, <2>1, <2>2
<1>11. Complete(L)'
  <2>1. Layout(L)'
    BY <1>1, <1>4, Kept
  <2>2. Counted(L)'
    BY <1>1, <1>4 DEF Counted
  <2> QED
    BY <1>1, <1>9, <2>1, <2>2 DEF Complete
<1>12. Writing'
  <2>1. Elements(L, 1, out)'
    <3>1. out' \in Seq(Nat) /\ Len(out') >= 3
      <4>1. Len(o) >= 3
        BY <1>7
      <4> QED
        BY <1>7, <1>8, <4>1, Zenon
    <3>2. out'[1] = sizes'.file /\ out'[2] = sizes'.target /\ out'[3] = sizes'.elements
      BY <1>1, <1>7, <1>8
    <3>3. \A j : j \notin 1..(1 - 1)
      OBVIOUS
    <3> QED
      BY <3>1, <3>2, <3>3 DEF Elements
  <2>2. Len(out') + 1 = L[1].at /\ L[1].first = i' /\ 1 \in 1..Len(L) /\ crc' = out'
    <3>1. Len(o) + 1 = L[1].at /\ L[1].first = i' /\ 1 \in 1..Len(L)
      BY <1>1, <1>6, <1>7
    <3> QED
      BY <1>8, <3>1, Zenon
  <2> QED
    BY <1>11, <2>1, <2>2 DEF Writing
<1> QED
  BY <1>1, <1>3, <1>12 DEF ImageInv, Starting, Reading, Counting, Written

\* An element written: it is the one that was counted at this place.
LEMMA WriteElementKeeps ==
  ASSUME ImageInv, WellLinked(elf), WriteElement
  PROVE  ImageInv'
<1>1. /\ elf \in Inputs /\ elf' = elf /\ blobs' = blobs /\ sizes' = sizes /\ step = "write" /\ step' = "write"
      /\ i <= Len(blobs) /\ i' = LastWritten(i) + 1
      /\ out' = out \o Bytes(i) /\ crc' = crc \o Bytes(i) /\ crc = out
  BY DEF ImageInv, WriteElement, Write, Writing, Bytes, Size
<1>2. Sorted
  BY <1>1, ReadIsSorted
<1>3. AllRead'
  BY <1>1, AllReadKept
<1>4. PICK L : /\ Complete(L)
               /\ \E n \in 1..Len(L) : L[n].first = i /\ Elements(L, n, out) /\ Len(out) + 1 = L[n].at
  BY <1>1 DEF ImageInv, Writing
<1>5. PICK n \in 1..Len(L) : L[n].first = i /\ Elements(L, n, out) /\ Len(out) + 1 = L[n].at
  BY <1>4
<1>6. /\ Layout(L) /\ L[Len(L)].first = Len(blobs) + 1
      /\ Len(L) \in Nat \ {0} /\ Len(L) \in 1..Len(L)
      /\ \A j \in 1..Len(L) : L[j].first \in Nat \ {0} /\ L[j].at \in Nat \ {0}
      /\ \A j \in 1..(Len(L) - 1) : j \in 1..Len(L) /\ j + 1 \in 1..Len(L) /\ L[j].first <= Len(blobs)
  <2>1. Layout(L) /\ L[Len(L)].first = Len(blobs) + 1
    BY <1>4 DEF Complete
  <2> QED
    BY <1>2, <2>1, LayoutFacts
<1>7. Len(blobs) \in Nat /\ i \in 1..Len(blobs)
  <2>1. Len(blobs) \in Nat /\ i \in Nat \ {0}
    BY <1>2, <1>5, <1>6 DEF Sorted
  <2> QED
    BY <1>1, <2>1
<1>8. n \in 1..(Len(L) - 1) /\ n + 1 \in 1..Len(L)
  <2>1. n # Len(L)
    BY <1>1, <1>5, <1>6, <1>7
  <2> QED
    BY <1>6, <2>1
<1> DEFINE e == L[n + 1].first - 1
           w == Bytes(i)
<1>9. Run(i, e) /\ L[n + 1].at = L[n].at + 2 + Padded(Extent(i, e)) /\ L[n + 1].first \in Nat
  BY <1>5, <1>6, <1>8 DEF Layout
<1>10. Run(i, ElementEnd(i)) /\ Size(i) = Extent(i, ElementEnd(i))
  BY <1>2, <1>7, RunIs
<1>11. e = ElementEnd(i)
  <2> HIDE DEF e
  <2> QED
    BY <1>2, <1>9, <1>10, OneEnd
<1>12. w \in Seq(Nat) /\ Len(w) = 2 + Padded(Extent(i, e)) /\ Holds(w, i, e, 1)
  <2>1. w \in Seq(Nat) /\ Len(w) = 2 + Padded(Size(i)) /\ Holds(w, i, ElementEnd(i), 1)
    BY <1>2, <1>7, ElementIs
  <2> HIDE DEF e, w
  <2> QED
    BY <1>10, <1>11, <2>1
<1>13. i' = L[n + 1].first
  <2>1. i' = ElementEnd(i) + 1
    BY <1>1, <1>2, <1>7, LastWrittenIs
  <2>2. (L[n + 1].first - 1) + 1 = L[n + 1].first
    BY <1>9
  <2> QED
    BY <1>11, <2>1, <2>2
<1>14. /\ out \in Seq(Nat) /\ Len(out) >= 3 /\ Len(out) \in Nat
       /\ out[1] = sizes.file /\ out[2] = sizes.target /\ out[3] = sizes.elements
       /\ \A j \in 1..(n - 1) : Holds(out, L[j].first, L[j + 1].first - 1, L[j].at)
  BY <1>5 DEF Elements
<1>15. Padded(Extent(i, e)) \in Nat
  <2> HIDE DEF e
  <2> QED
    BY <1>2, <1>9, RunFacts, PaddedIs
<1> HIDE DEF w
<1>16. /\ out' \in Seq(Nat) /\ Len(out') = Len(out) + 2 + Padded(Extent(i, e)) /\ out' = out \o w
       /\ \A y \in 1..Len(out) : out'[y] = out[y]
  <2>1. out' = out \o w
    BY <1>1 DEF w
  <2>2. out \o w \in Seq(Nat) /\ Len(out \o w) = Len(out) + Len(w)
    BY <1>12, <1>14, ConcatProperties
  <2>3. \A y \in 1..Len(out) : (out \o w)[y] = out[y]
    <3> TAKE y \in 1..Len(out)
    <3>1. y \in 1..(Len(out) + Len(w)) /\ y <= Len(out)
      BY <1>12, <1>14, <1>15
    <3> QED
      BY <1>12, <1>14, <3>1, ConcatProperties
  <2> HIDE DEF e
  <2> QED
    BY <1>12, <1>14, <1>15, <2>1, <2>2, <2>3
<1>17. ASSUME NEW j \in 1..n
       PROVE  Holds(out', L[j].first, L[j + 1].first - 1, L[j].at)
  <2>1. CASE j = n
    <3>1. Holds(out \o w, i, e, Len(out) + 1)
      <4> HIDE DEF e
      <4>1. 1 \in Nat \ {0}
        OBVIOUS
      <4> QED
        BY <1>2, <1>9, <1>12, <1>14, <4>1, HoldsMore
    <3> QED
      BY <1>5, <1>16, <2>1, <3>1
  <2>2. CASE j # n
    <3>1. j \in 1..(n - 1) /\ j \in 1..(Len(L) - 1) /\ j \in 1..Len(L)
      BY <1>8, <2>2
    <3>2. Holds(out, L[j].first, L[j + 1].first - 1, L[j].at)
      BY <1>14, <3>1
    <3>3. Run(L[j].first, L[j + 1].first - 1) /\ L[j].at \in Nat \ {0}
      BY <1>6, <3>1 DEF Layout
    <3>4. Holds(out \o w, L[j].first, L[j + 1].first - 1, L[j].at)
      BY <1>2, <1>12, <1>14, <3>2, <3>3, HoldsMore
    <3> QED
      BY <1>16, <3>4
  <2> QED
    BY <2>1, <2>2
<1>18. Elements(L, n + 1, out)'
  <2>1. ASSUME NEW j \in 1..((n + 1) - 1)
        PROVE  Holds(out, L[j].first, L[j + 1].first - 1, L[j].at)'
    <3>1. j \in 1..n
      BY <1>8
    <3>2. Holds(out', L[j].first, L[j + 1].first - 1, L[j].at)
      BY <1>17, <3>1
    <3> QED
      BY <1>1, <3>2 DEF Holds, Extent, End
  <2>2. 1 \in 1..Len(out) /\ 2 \in 1..Len(out) /\ 3 \in 1..Len(out) /\ Len(out') >= 3
    <3> HIDE DEF e
    <3> QED
      BY <1>14, <1>15, <1>16
  <2>3. out'[1] = sizes'.file /\ out'[2] = sizes'.target /\ out'[3] = sizes'.elements
    BY <1>1, <1>14, <1>16, <2>2
  <2>4. out' \in Seq(Nat)
    BY <1>16
  <2> QED
    BY <2>1, <2>2, <2>3, <2>4 DEF Elements
<1>19. Complete(L)'
  <2>1. Layout(L)'
    BY <1>1, <1>6, Kept
  <2>2. Counted(L)'
    BY <1>1, <1>4 DEF Counted, Complete
  <2> QED
    BY <1>1, <1>6, <2>1, <2>2 DEF Complete
<1>20. Writing'
  <2>1. Len(out') + 1 = L[n + 1].at
    <3> DEFINE p == Padded(Extent(i, e))
    <3>1. /\ Len(out') = Len(out) + 2 + p /\ p \in Nat /\ Len(out) \in Nat
          /\ Len(out) + 1 = L[n].at /\ L[n + 1].at = L[n].at + 2 + p
      BY <1>5, <1>9, <1>14, <1>15, <1>16
    <3> HIDE DEF p
    <3> QED
      BY <3>1
  <2>2. crc' = out'
    BY <1>1
  <2> QED
    BY <1>8, <1>13, <1>18, <1>19, <2>1, <2>2 DEF Writing
<1> QED
  BY <1>1, <1>3, <1>20 DEF ImageInv, Starting, Reading, Counting, Written

\* Front drops the last element.
LEMMA FrontIs ==
  ASSUME NEW q \in Seq(Nat), NEW n \in Nat, Len(q) = n + 1
  PROVE  Front(q) \in Seq(Nat) /\ Len(Front(q)) = n /\ \A y \in 1..n : Front(q)[y] = q[y]
<1>1. Len(q) - 1 = n
  OBVIOUS
<1>2. Front(q) = SubSeq(q, 1, n)
  BY <1>1 DEF Front
<1>3. SubSeq(q, 1, n) \in Seq(Nat) /\ Len(SubSeq(q, 1, n)) = n /\ \A y \in 1..n : SubSeq(q, 1, n)[y] = q[y]
  OBVIOUS
<1> QED
  BY <1>2, <1>3

\* The suffix written: all elements are there.
LEMMA WriteSuffixKeeps ==
  ASSUME ImageInv, WellLinked(elf), WriteSuffix
  PROVE  ImageInv'
<1>1. /\ elf \in Inputs /\ elf' = elf /\ blobs' = blobs /\ sizes' = sizes /\ i' = i
      /\ step = "write" /\ step' = "done" /\ i > Len(blobs)
      /\ out' = out \o <<Pad, 0>> /\ crc' = crc \o <<Pad>> /\ crc = out
  BY DEF ImageInv, WriteSuffix, Writing
<1>2. Sorted
  BY <1>1, ReadIsSorted
<1>3. AllRead'
  BY <1>1, AllReadKept
<1>4. PICK L : /\ Complete(L)
               /\ \E n \in 1..Len(L) : L[n].first = i /\ Elements(L, n, out) /\ Len(out) + 1 = L[n].at
  BY <1>1 DEF ImageInv, Writing
<1>5. PICK n \in 1..Len(L) : L[n].first = i /\ Elements(L, n, out) /\ Len(out) + 1 = L[n].at
  BY <1>4
<1>6. /\ Layout(L) /\ L[Len(L)].first = Len(blobs) + 1
      /\ Len(L) \in Nat \ {0} /\ Len(L) \in 1..Len(L)
      /\ \A j \in 1..Len(L) : L[j].first \in Nat \ {0} /\ L[j].at \in Nat \ {0}
      /\ \A j \in 1..(Len(L) - 1) : j \in 1..Len(L) /\ j + 1 \in 1..Len(L) /\ L[j].first <= Len(blobs)
  <2>1. Layout(L) /\ L[Len(L)].first = Len(blobs) + 1
    BY <1>4 DEF Complete
  <2> QED
    BY <1>2, <2>1, LayoutFacts
<1>7. n = Len(L)
  <2>1. Len(blobs) \in Nat /\ i \in Nat
    BY <1>2, <1>5, <1>6 DEF Sorted
  <2>2. n \notin 1..(Len(L) - 1)
    BY <1>1, <1>5, <1>6, <2>1
  <2> QED
    BY <1>6, <2>2
<1>8. /\ out \in Seq(Nat) /\ Len(out) >= 3 /\ Len(out) \in Nat
      /\ out[1] = sizes.file /\ out[2] = sizes.target /\ out[3] = sizes.elements
      /\ \A j \in 1..(Len(L) - 1) : Holds(out, L[j].first, L[j + 1].first - 1, L[j].at)
  BY <1>5, <1>7 DEF Elements
<1>9. PICK w : w = <<Pad, 0>>
  OBVIOUS
<1>10. w \in Seq(Nat) /\ Len(w) = 2 /\ w[1] = Pad
  BY <1>9 DEF Pad
<1>11. /\ out' = out \o w /\ out' \in Seq(Nat) /\ Len(out') = Len(out) + 2
       /\ \A y \in 1..(Len(out) + 2) : out'[y] = IF y <= Len(out) THEN out[y] ELSE w[y - Len(out)]
  <2>1. out' = out \o w
    BY <1>1, <1>9
  <2>2. /\ out \o w \in Seq(Nat) /\ Len(out \o w) = Len(out) + Len(w)
        /\ \A y \in 1..(Len(out) + Len(w)) : (out \o w)[y] = IF y <= Len(out) THEN out[y] ELSE w[y - Len(out)]
    BY <1>8, <1>10, ConcatProperties
  <2> QED
    BY <1>10, <2>1, <2>2
<1>12. crc' = Front(out')
  <2> DEFINE f == Front(out')
             c == out \o <<Pad>>
  <2>1. f \in Seq(Nat) /\ Len(f) = Len(out) + 1 /\ \A y \in 1..(Len(out) + 1) : f[y] = out'[y]
    <3>1. out' \in Seq(Nat) /\ Len(out) + 1 \in Nat /\ Len(out') = (Len(out) + 1) + 1
      BY <1>8, <1>11
    <3> QED
      BY <3>1, FrontIs
  <2>2. c \in Seq(Nat) /\ Len(c) = Len(out) + 1
        /\ \A y \in 1..(Len(out) + 1) : c[y] = IF y <= Len(out) THEN out[y] ELSE Pad
    BY <1>8 DEF Pad
  <2>3. \A y \in 1..(Len(out) + 1) : out'[y] = IF y <= Len(out) THEN out[y] ELSE Pad
    <3> TAKE y \in 1..(Len(out) + 1)
    <3>1. y \in 1..(Len(out) + 2)
      BY <1>8
    <3>2. ~(y <= Len(out)) => y - Len(out) = 1
      BY <1>8
    <3> QED
      BY <1>10, <1>11, <3>1, <3>2
  <2> HIDE DEF f, c
  <2>4. \A y \in 1..(Len(out) + 1) : f[y] = c[y]
    BY <2>1, <2>2, <2>3
  <2>5. f = c
    <3>1. Len(f) = Len(c) /\ \A y \in 1..Len(f) : f[y] = c[y]
      BY <2>1, <2>2, <2>4
    <3> QED
      BY <2>1, <2>2, <3>1, SeqEqual
  <2>6. crc' = c
    BY <1>1 DEF c
  <2> QED
    BY <2>5, <2>6 DEF f
<1>13. Elements(L, Len(L), out)'
  <2>1. ASSUME NEW j \in 1..(Len(L) - 1)
        PROVE  Holds(out, L[j].first, L[j + 1].first - 1, L[j].at)'
    <3>1. Run(L[j].first, L[j + 1].first - 1) /\ L[j].at \in Nat \ {0}
      BY <1>6 DEF Layout
    <3>2. Holds(out \o w, L[j].first, L[j + 1].first - 1, L[j].at)
      BY <1>2, <1>8, <1>10, <3>1, HoldsMore
    <3>3. Holds(out', L[j].first, L[j + 1].first - 1, L[j].at)
      BY <1>11, <3>2
    <3> QED
      BY <1>1, <3>3 DEF Holds, Extent, End
  <2>2. out'[1] = sizes'.file /\ out'[2] = sizes'.target /\ out'[3] = sizes'.elements /\ Len(out') >= 3
    BY <1>1, <1>8, <1>11
  <2> QED
    BY <1>11, <2>1, <2>2 DEF Elements
<1>14. Complete(L)'
  <2>1. Layout(L)'
    BY <1>1, <1>6, Kept
  <2>2. Counted(L)'
    BY <1>1, <1>4 DEF Counted, Complete
  <2> QED
    BY <1>1, <1>6, <2>1, <2>2 DEF Complete
<1>15. Len(out') = L[Len(L)].at + 1
  <2>1. L[Len(L)].at \in Nat
    BY <1>6
  <2> QED
    BY <1>5, <1>7, <1>8, <1>11, <2>1
<1>16. Written'
  BY <1>12, <1>13, <1>14, <1>15 DEF Written
<1> QED
  BY <1>1, <1>3, <1>16 DEF ImageInv, Starting, Reading, Counting, Writing

\* Nothing done.
LEMMA NothingKeeps ==
  ASSUME ImageInv, UNCHANGED vars
  PROVE  ImageInv'
<1>1. /\ elf' = elf /\ step' = step /\ i' = i /\ blobs' = blobs
      /\ sizes' = sizes /\ out' = out /\ crc' = crc
  BY DEF vars
<1>2. Reading' /\ AllRead'
  <2>1. \A n : Entered(blobs, n) => Entered(blobs, n)'
    BY <1>1, Kept
  <2> QED
    BY <1>1, <2>1 DEF ImageInv, Reading, AllRead, Entered
<1>3. \A L : /\ Counted(L) => Counted(L)'
             /\ Layout(L) => Layout(L)'
             /\ Complete(L) => Complete(L)'
             /\ \A n : Elements(L, n, out) => Elements(L, n, out)'
  <2>1. \A L : Layout(L) => Layout(L)'
    BY <1>1, Kept
  <2>2. \A L : Counted(L) => Counted(L)'
    BY <1>1 DEF Counted
  <2>3. \A L : Complete(L) => Complete(L)'
    BY <1>1, <2>1, <2>2 DEF Complete
  <2>4. \A L, n : Elements(L, n, out) => Elements(L, n, out)'
    BY <1>1 DEF Elements, Holds, Extent, End
  <2> QED
    BY <2>1, <2>2, <2>3, <2>4
<1>4. Counting'
  BY <1>1, <1>3 DEF ImageInv, Counting
<1>5. Writing'
  <2> SUFFICES ASSUME step' = "write"
               PROVE  Writing'
    BY DEF Writing
  <2>1. PICK L : /\ Complete(L)
                 /\ \E n \in 1..Len(L) : L[n].first = i /\ Elements(L, n, out) /\ Len(out) + 1 = L[n].at
    BY <1>1 DEF ImageInv, Writing
  <2>2. PICK n \in 1..Len(L) : L[n].first = i /\ Elements(L, n, out) /\ Len(out) + 1 = L[n].at
    BY <2>1
  <2>3. Complete(L)' /\ Elements(L, n, out)' /\ L[n].first = i' /\ Len(out') + 1 = L[n].at /\ crc' = out'
    BY <1>1, <1>3, <2>1, <2>2 DEF ImageInv, Writing
  <2> QED
    BY <2>3 DEF Writing
<1>6. Written'
  <2> SUFFICES ASSUME step' = "done"
               PROVE  Written'
    BY DEF Written
  <2>1. PICK L : Complete(L) /\ Elements(L, Len(L), out) /\ Len(out) = L[Len(L)].at + 1 /\ crc = Front(out)
    BY <1>1 DEF ImageInv, Written
  <2>2. crc' = Front(out')
    BY <1>1, <2>1
  <2>3. Complete(L)' /\ Elements(L, Len(L), out)' /\ Len(out') = L[Len(L)].at + 1
    BY <1>1, <1>3, <2>1
  <2> QED
    BY <2>2, <2>3 DEF Written
<1>7. Starting'
  BY <1>1 DEF ImageInv, Starting
<1> QED
  BY <1>1, <1>2, <1>4, <1>5, <1>6, <1>7 DEF ImageInv

\* For every set of well-linked files, the invariant holds throughout.
THEOREM ImageInvariant ==
  ASSUME \A file \in Inputs : WellLinked(file)
  PROVE  Spec => []ImageInv
<1>1. Init => ImageInv
  BY ImageInit
<1>2. ImageInv /\ [Next]_vars => ImageInv'
  <2> SUFFICES ASSUME ImageInv, [Next]_vars
               PROVE  ImageInv'
    OBVIOUS
  <2>0. WellLinked(elf)
    BY DEF ImageInv
  <2>1. CASE CheckHeader
    BY <2>1, CheckHeaderKeeps
  <2>2. CASE ReadSection
    BY <2>2, ReadSectionKeeps
  <2>3. CASE SectionsRead
    BY <2>3, SectionsReadKeeps
  <2>4. CASE CountElement
    BY <2>0, <2>4, CountElementKeeps
  <2>5. CASE WritePrefixes
    BY <2>0, <2>5, WritePrefixesKeeps
  <2>6. CASE WriteElement
    BY <2>0, <2>6, WriteElementKeeps
  <2>7. CASE WriteSuffix
    BY <2>0, <2>7, WriteSuffixKeeps
  <2>8. CASE UNCHANGED vars
    BY <2>8, NothingKeeps
  <2> QED
    BY <2>1, <2>2, <2>3, <2>4, <2>5, <2>6, <2>7, <2>8 DEF Next
<1> QED
  BY <1>1, <1>2, PTL DEF Spec

\* The program writes no more than the prefix announces.
THEOREM ImageKeepsItsSize ==
  ASSUME \A file \in Inputs : WellLinked(file)
  PROVE  Spec => []ImageFits
<1>1. ImageInv => ImageFits
  <2> SUFFICES ASSUME ImageInv, step = "write"
               PROVE  Len(out) <= sizes.file
    BY DEF ImageFits
  <2>1. Sorted
    BY ReadIsSorted DEF ImageInv
  <2>2. PICK L : Complete(L) /\ \E n \in 1..Len(L) : Elements(L, n, out) /\ Len(out) + 1 = L[n].at
    BY DEF ImageInv, Writing
  <2>3. PICK n \in 1..Len(L) : Elements(L, n, out) /\ Len(out) + 1 = L[n].at
    BY <2>2
  <2>4. Layout(L) /\ sizes.file = L[Len(L)].at - 1
    BY <2>2 DEF Complete, Counted
  <2>5. L[n].at <= L[Len(L)].at
    BY <2>4 DEF Layout
  <2>6. Len(out) \in Nat /\ L[n].at \in Nat /\ L[Len(L)].at \in Nat
    <3>1. Len(L) \in 1..Len(L)
      BY <2>1, <2>4, LayoutFacts
    <3>2. out \in Seq(Nat)
      BY <2>3 DEF Elements
    <3> QED
      BY <2>1, <2>4, <3>1, <3>2, LayoutFacts
  <2> QED
    BY <2>3, <2>4, <2>5, <2>6
<1> QED
  BY <1>1, ImageInvariant, PTL

-----------------------------------------------------------------------------
\* The loader.

\* The states of the loader, and what it has done after all elements.
Loads == [at : Nat \ {0}, memory : [0..MaxAddress -> Nat]]
Empty == [at |-> 4, memory |-> [a \in 0..MaxAddress |-> Pad]]
LoadEquation(g, n) == g = [r \in SUBSET (1..n) |-> IF r = {} THEN Empty ELSE LoadElement(g[r \ {Max(r)}])]

\* The loader writes numbers, whatever place it takes for an element.
LEMMA LoadIsTyped ==
  ASSUME out \in Seq(Nat), NEW l \in Loads
  PROVE  LoadElement(l) \in Loads
<1> DEFINE at == l.at
           mem == l.memory
<1>1. at \in Nat \ {0} /\ mem \in [0..MaxAddress -> Nat]
  BY DEF Loads
<1>2. l = [at |-> at, memory |-> mem]
  BY DEF Loads
<1>3. Len(out) \in Nat
  OBVIOUS
<1> HIDE DEF at, mem
<1>4. CASE at + 1 > Len(out)
  <2>1. LoadElement(l) = [l EXCEPT !.at = Len(out) + 2]
    BY <1>4 DEF LoadElement, at
  <2>2. [l EXCEPT !.at = Len(out) + 2] = [at |-> Len(out) + 2, memory |-> mem]
    BY <1>2
  <2> QED
    BY <1>1, <1>3, <2>1, <2>2 DEF Loads
<1>5. CASE ~(at + 1 > Len(out))
  <2> DEFINE M == [a \in 0..MaxAddress |->
                     LET p == at + 2 + a - out[at]
                     IN  IF a >= out[at] /\ a < out[at] + out[at + 1] /\ p <= Len(out)
                         THEN out[p] ELSE mem[a]]
  <2>1. LoadElement(l) = [at |-> at + 2 + out[at + 1], memory |-> M]
    BY <1>5, Zenon DEF LoadElement, at, mem
  <2>2. at \in 1..Len(out) /\ at + 1 \in 1..Len(out)
    BY <1>1, <1>3, <1>5
  <2>3. out[at] \in Nat /\ out[at + 1] \in Nat
    BY <2>2
  <2>4. \A a \in 0..MaxAddress : M[a] \in Nat
    <3> TAKE a \in 0..MaxAddress
    <3> DEFINE p == at + 2 + a - out[at]
    <3>1. CASE a >= out[at] /\ a < out[at] + out[at + 1] /\ p <= Len(out)
      <4>1. p \in 1..Len(out)
        BY <1>1, <1>3, <2>3, <3>1
      <4>2. M[a] = out[p]
        BY <3>1
      <4> HIDE DEF p, M
      <4> QED
        BY <4>1, <4>2
    <3>2. CASE ~(a >= out[at] /\ a < out[at] + out[at + 1] /\ p <= Len(out))
      <4>1. M[a] = mem[a]
        BY <3>2
      <4> HIDE DEF p, M
      <4> QED
        BY <1>1, <4>1
    <3> QED
      BY <3>1, <3>2
  <2>5. M \in [0..MaxAddress -> Nat]
    <3>1. M = [a \in 0..MaxAddress |-> M[a]]
      BY Zenon
    <3> HIDE DEF M
    <3> QED
      BY <2>4, <3>1
  <2> HIDE DEF M
  <2>6. at + 2 + out[at + 1] \in Nat \ {0}
    BY <1>1, <2>3
  <2> QED
    BY <2>1, <2>5, <2>6 DEF Loads
<1> QED
  BY <1>4, <1>5

\* The fold of Loaded is such an equation.
LEMMA LoadUnfolds ==
  ASSUME NEW n, n = out[3]
  PROVE  Loaded = (CHOOSE g : LoadEquation(g, n))[1..n]
<1> DEFINE s == [x \in 1..n |-> x]
<1>1. Loaded = FoldLeft(LAMBDA l, x : LoadElement(l), Empty, s)
  BY Zenon DEF Loaded, Empty
<1>2. FoldLeft(LAMBDA l, x : LoadElement(l), Empty, s)
        = (CHOOSE g : g = [r \in SUBSET (DOMAIN s) |->
             IF r = {} THEN Empty ELSE LoadElement(g[r \ {Max(r)}])])[DOMAIN s]
  BY Zenon DEF FoldLeft, MapThenFoldSet
<1>3. DOMAIN s = 1..n
  OBVIOUS
<1> QED
  BY <1>1, <1>2, <1>3, Zenon DEF LoadEquation

\* It has a solution.
LEMMA LoadExists ==
  ASSUME out \in Seq(Nat), NEW n \in Nat
  PROVE  LET g == CHOOSE g : LoadEquation(g, n) IN
         LoadEquation(g, n)
<1> DEFINE H == [p \in Loads \X (1..n) |-> LoadElement(p[1])]
<1>1. H \in [Loads \X (1..n) -> Loads]
  <2>1. \A p \in Loads \X (1..n) : LoadElement(p[1]) \in Loads
    BY LoadIsTyped
  <2> QED
    BY <2>1
<1>2. \A l \in Loads, j \in 1..n : H[<<l, j>>] = LoadElement(l)
  OBVIOUS
<1>3. Empty \in Loads
  BY DEF Empty, Loads, Pad
<1> HIDE DEF H
<1>4. PICK g \in [SUBSET (1..n) -> Loads] : FoldEquation(g, H, Empty, n)
  BY <1>1, <1>3, FoldExists
<1> DEFINE h == [r \in SUBSET (1..n) |-> IF r = {} THEN Empty ELSE LoadElement(g[r \ {Max(r)}])]
           e == [r \in SUBSET (1..n) |-> IF r = {} THEN Empty ELSE H[<<g[r \ {Max(r)}], Max(r)>>]]
<1>5. ASSUME NEW r \in SUBSET (1..n)
      PROVE  h[r] = e[r]
  <2>1. r # {} => Max(r) \in 1..n
    BY MaxIs DEF Greatest
  <2>2. g[r \ {Max(r)}] \in Loads
    OBVIOUS
  <2>3. r # {} => H[<<g[r \ {Max(r)}], Max(r)>>] = LoadElement(g[r \ {Max(r)}])
    BY <1>2, <2>1, <2>2
  <2> QED
    BY <2>3
<1>6. h = e
  <2>1. h = [r \in SUBSET (1..n) |-> h[r]] /\ e = [r \in SUBSET (1..n) |-> e[r]]
    BY Zenon
  <2> HIDE DEF h, e
  <2> QED
    BY <1>5, <2>1
<1>7. g = e
  BY <1>4 DEF FoldEquation
<1>8. g = h
  <2> HIDE DEF h, e
  <2> QED
    BY <1>6, <1>7
<1>9. LoadEquation(g, n)
  BY <1>8, Zenon DEF LoadEquation
<1> QED
  BY <1>9, Zenon

\* The memory holds the blobs before blob k.
Holding(memory, k) == \A m \in 1..(k - 1) : \A x \in 1..blobs[m].count :
    memory[blobs[m].address + x - 1] = Byte(blobs[m].section, x)

\* Loading an element of the layout adds its blobs.
LEMMA LoadAdds ==
  ASSUME Sorted, out \in Seq(Nat), NEW k, NEW e, Run(k, e), NEW l \in Loads,
         Holds(out, k, e, l.at), Holding(l.memory, k)
  PROVE  /\ LoadElement(l).at = l.at + 2 + Padded(Extent(k, e))
         /\ Holding(LoadElement(l).memory, e + 1)
<1> DEFINE at == l.at
           mem == l.memory
           n == Extent(k, e)
           M == [a \in 0..MaxAddress |->
                   LET p == at + 2 + a - out[at]
                   IN  IF a >= out[at] /\ a < out[at] + out[at + 1] /\ p <= Len(out)
                       THEN out[p] ELSE mem[a]]
<1>1. at \in Nat \ {0} /\ mem \in [0..MaxAddress -> Nat]
  BY DEF Loads
<1>2. /\ at + 1 + Padded(n) <= Len(out) /\ out[at] = blobs[k].address /\ out[at + 1] = Padded(n)
      /\ \A m \in k..e : \A x \in 1..blobs[m].count :
           out[at + 1 + (blobs[m].address - blobs[k].address) + x] = Byte(blobs[m].section, x)
  BY DEF Holds
<1>3. /\ n \in Nat /\ Padded(n) \in Nat /\ Padded(n) >= n /\ Len(out) \in Nat /\ Len(blobs) \in Nat
      /\ k \in 1..Len(blobs) /\ e \in 1..Len(blobs) /\ k <= e
  <2>1. n \in Nat /\ k \in 1..Len(blobs) /\ e \in 1..Len(blobs) /\ k <= e
    BY RunFacts
  <2>2. Len(out) \in Nat /\ Len(blobs) \in Nat
    BY DEF Sorted
  <2> HIDE DEF n
  <2>3. Padded(n) \in Nat /\ Padded(n) >= n
    BY <2>1, PaddedIs
  <2> QED
    BY <2>1, <2>2, <2>3
<1> HIDE DEF at, mem, n
<1>4. ~(at + 1 > Len(out))
  BY <1>1, <1>2, <1>3
<1>5. LoadElement(l) = [at |-> at + 2 + out[at + 1], memory |-> M]
  BY <1>4, Zenon DEF LoadElement, at, mem
<1>6. LoadElement(l).at = at + 2 + Padded(n) /\ LoadElement(l).memory = M
  <2> HIDE DEF M
  <2> QED
    BY <1>2, <1>5
<1>7. blobs[k].address \in Nat /\ MaxAddress \in Nat
  BY <1>3, BlobFacts, OutputAssumption
<1>8. ASSUME NEW m \in 1..e, NEW x \in 1..blobs[m].count
      PROVE  M[blobs[m].address + x - 1] = Byte(blobs[m].section, x)
  <2> DEFINE b == blobs[m].address
             c == blobs[m].count
             s == blobs[k].address
             a == b + x - 1
  <2>0. m \in 1..Len(blobs) /\ m \in Nat
    BY <1>3
  <2>1. b \in Nat /\ c \in Nat /\ End(m) = b + c /\ b + c <= MaxAddress + 1 /\ s \in Nat /\ x \in 1..c
    BY <1>7, <2>0, BlobFacts DEF End, Sorted
  <2>2. out[at] = s /\ out[at + 1] = Padded(n)
    BY <1>2
  <2>w. Byte(blobs[m].section, x) = Byte(blobs[m].section, x)
    OBVIOUS
  <2>h. m < k => mem[a] = Byte(blobs[m].section, x)
    <3> SUFFICES ASSUME m < k
                 PROVE  mem[a] = Byte(blobs[m].section, x)
      OBVIOUS
    <3>1. m \in 1..(k - 1)
      BY <1>3, <2>0
    <3> QED
      BY <3>1 DEF Holding, mem
  <2>k. m < k => b + c <= s
    BY <1>3, <2>0, <2>1 DEF Sorted
  <2>e. ~(m < k) => m \in k..e /\ s <= b /\ (b + c) - s <= n
    <3> SUFFICES ASSUME ~(m < k)
                 PROVE  m \in k..e /\ s <= b /\ (b + c) - s <= n
      OBVIOUS
    <3>1. m \in k..e
      BY <1>3, <2>0
    <3> QED
      BY <2>1, <3>1, RunFacts DEF n
  <2>d. m \in k..e => out[at + 1 + (b - s) + x] = Byte(blobs[m].section, x)
    BY <1>2
  <2> HIDE DEF b, c, s
  <2>3. a \in 0..MaxAddress
    BY <1>7, <2>1
  <2>4. CASE m < k
    <3>1. ~(a >= s)
      BY <2>1, <2>4, <2>k
    <3>2. M[a] = mem[a]
      BY <2>2, <2>3, <3>1
    <3> QED
      BY <2>4, <2>h, <3>2 DEF b
  <2>5. CASE ~(m < k)
    <3> DEFINE p == at + 2 + a - s
    <3>1. a >= s /\ a < s + Padded(n) /\ p <= Len(out) /\ p = at + 1 + (b - s) + x
      <4>1. a \in Nat /\ a >= s /\ a < s + n
        BY <2>1, <2>5, <2>e, <1>3
      <4>2. p = at + 1 + (b - s) + x
        BY <1>1, <2>1
      <4> HIDE DEF a
      <4>3. p <= Len(out)
        BY <1>1, <1>2, <1>3, <2>1, <4>1
      <4> QED
        BY <1>3, <2>1, <4>1, <4>2, <4>3
    <3>2. M[a] = out[p]
      <4> HIDE DEF a
      <4> QED
        BY <2>2, <2>3, <3>1
    <3> QED
      BY <2>5, <2>d, <2>e, <3>1, <3>2 DEF b
  <2> QED
    BY <2>4, <2>5
<1>9. Holding(M, e + 1)
  <2>1. (e + 1) - 1 = e
    BY <1>3
  <2> HIDE DEF M
  <2> QED
    BY <1>8, <2>1 DEF Holding
<1> QED
  BY <1>6, <1>9 DEF at, n

\* After all elements the loader is at the suffix and its memory has all blobs.
LEMMA LoadIs ==
  ASSUME Sorted, NEW L, Complete(L), Elements(L, Len(L), out)
  PROVE  /\ Loaded.at = L[Len(L)].at
         /\ Holding(Loaded.memory, Len(blobs) + 1)
<1> DEFINE n == Len(L) - 1
           g == CHOOSE g : LoadEquation(g, n)
           Q(j) == /\ g[1..j] \in Loads /\ g[1..j].at = L[j + 1].at
                   /\ Holding(g[1..j].memory, L[j + 1].first)
           P(j) == j <= n => Q(j)
<1>1. /\ out \in Seq(Nat) /\ out[3] = sizes.elements
      /\ \A j \in 1..(Len(L) - 1) : Holds(out, L[j].first, L[j + 1].first - 1, L[j].at)
  BY DEF Elements
<1>2. Layout(L) /\ sizes.elements = Len(L) - 1 /\ L[Len(L)].first = Len(blobs) + 1
  BY DEF Complete, Counted
<1>3. /\ Len(L) \in Nat \ {0}
      /\ \A j \in 1..Len(L) : L[j].first \in Nat \ {0} /\ L[j].at \in Nat \ {0}
      /\ L[1].first = 1 /\ L[1].at = 4
  BY <1>2, LayoutFacts DEF Layout
<1>4. n \in Nat /\ n + 1 = Len(L)
  BY <1>3
<1>5. LoadEquation(g, n)
  BY <1>1, <1>4, LoadExists, Zenon
<1>6. Loaded = g[1..n]
  BY <1>1, <1>2, LoadUnfolds, Zenon
<1> HIDE DEF n, g
<1>7. P(0)
  <2>1. 1..0 = {} /\ {} \in SUBSET (1..n)
    OBVIOUS
  <2>2. g[{}] = Empty
    BY <1>5, <2>1, Zenon DEF LoadEquation
  <2>3. Empty \in Loads /\ Empty.at = 4
    BY DEF Empty, Loads, Pad
  <2>4. Holding(Empty.memory, 1)
    BY DEF Holding
  <2> QED
    BY <1>3, <2>1, <2>2, <2>3, <2>4
<1>8. ASSUME NEW j \in Nat, P(j)
      PROVE  P(j + 1)
  <2> SUFFICES ASSUME j + 1 <= n
               PROVE  Q(j + 1)
    OBVIOUS
  <2>1. Q(j)
    <3>1. j <= n
      BY <1>4
    <3> HIDE DEF Q
    <3> QED
      BY <1>8, <3>1, Zenon
  <2> DEFINE l == g[1..j]
             k == L[j + 1].first
             e == L[j + 2].first - 1
  <2>2. j + 1 \in 1..(Len(L) - 1) /\ (j + 1) + 1 = j + 2 /\ j + 2 \in 1..Len(L)
    BY <1>4
  <2>3. /\ Run(k, e) /\ L[j + 2].at = L[j + 1].at + 2 + Padded(Extent(k, e))
        /\ Holds(out, k, e, L[j + 1].at) /\ e + 1 = L[j + 2].first
    BY <1>1, <1>2, <1>3, <2>2 DEF Layout
  <2>4. l \in Loads /\ l.at = L[j + 1].at /\ Holding(l.memory, k)
    BY <2>1
  <2> HIDE DEF l, k, e
  <2>5. /\ LoadElement(l).at = l.at + 2 + Padded(Extent(k, e))
        /\ Holding(LoadElement(l).memory, e + 1)
    BY <1>1, <2>3, <2>4, LoadAdds
  <2>6. LoadElement(l) \in Loads
    BY <1>1, <2>4, LoadIsTyped
  <2>7. 1..(j + 1) \in SUBSET (1..n) /\ 1..(j + 1) # {} /\ (1..(j + 1)) \ {j + 1} = 1..j
    <3>1. \A x \in 1..(j + 1) : x \in 1..n
      BY <1>4
    <3>2. j + 1 \in 1..(j + 1)
      OBVIOUS
    <3>3. \A x : x \in (1..(j + 1)) \ {j + 1} <=> x \in 1..j
      OBVIOUS
    <3> QED
      BY <3>1, <3>2, <3>3
  <2>8. Max(1..(j + 1)) = j + 1
    BY MaxOfInterval
  <2>9. g[1..(j + 1)] = LoadElement(l)
    <3> DEFINE r == 1..(j + 1)
    <3>1. g[r] = LoadElement(g[r \ {Max(r)}])
      <4> HIDE DEF r
      <4>1. r \in SUBSET (1..n) /\ r # {}
        BY <2>7 DEF r
      <4> QED
        BY <1>5, <4>1 DEF LoadEquation
    <3>2. r \ {Max(r)} = 1..j
      BY <2>7, <2>8
    <3> QED
      BY <3>1, <3>2 DEF l
  <2> QED
    BY <2>2, <2>3, <2>4, <2>5, <2>6, <2>9
<1>9. P(n)
  <2> DEFINE A == {j \in Nat : P(j)}
  <2> HIDE DEF P
  <2>1. 0 \in A /\ \A j \in Nat : j \in A => j + 1 \in A
    BY <1>7, <1>8
  <2>2. Nat \subseteq A
    <3> HIDE DEF A
    <3> QED
      BY <2>1, Induct
  <2> QED
    BY <1>4, <2>2
<1>10. Q(n)
  <2>1. n <= n
    BY <1>4
  <2> HIDE DEF Q
  <2> QED
    BY <1>9, <2>1, Zenon
<1> QED
  BY <1>2, <1>4, <1>6, <1>10

\* A loader that believes the numbers of the file ends at its suffix, with
\* every byte of every kept section at its physical address.
THEOREM ImageIsLoaded ==
  ASSUME \A file \in Inputs : WellLinked(file)
  PROVE  Spec => []ImageLoads
<1>1. ImageInv => ImageLoads
  <2> SUFFICES ASSUME ImageInv, step = "done"
               PROVE  /\ out[1] = Len(out) - 2 /\ out[2] = Len(out) - 5
                      /\ Loaded.at = Len(out) - 1
                      /\ \A s \in 1..Len(elf.sections) : \A a \in Places(elf, s), k \in 1..elf.sections[s].size :
                           Loaded.memory[a + k - 1] = Byte(s, k)
                      /\ crc = Front(out)
    BY DEF ImageLoads
  <2>1. WellLinked(elf)
    BY DEF ImageInv
  <2>2. Sorted /\ Entered(blobs, Len(elf.sections))
    BY <2>1, ReadIsSorted DEF ImageInv, AllRead
  <2>3. PICK L : Complete(L) /\ Elements(L, Len(L), out) /\ Len(out) = L[Len(L)].at + 1 /\ crc = Front(out)
    BY DEF ImageInv, Written
  <2>4. L[Len(L)].at \in Nat
    <3>1. Layout(L)
      BY <2>3 DEF Complete
    <3>2. Len(L) \in 1..Len(L)
      BY <2>2, <3>1, LayoutFacts
    <3> QED
      BY <2>2, <3>1, <3>2, LayoutFacts
  <2>5. out[1] = Len(out) - 2 /\ out[2] = Len(out) - 5
    <3>1. out[1] = L[Len(L)].at - 1 /\ out[2] = L[Len(L)].at - 4
      BY <2>3 DEF Elements, Complete, Counted
    <3> QED
      BY <2>3, <2>4, <3>1
  <2>6. Loaded.at = L[Len(L)].at /\ Holding(Loaded.memory, Len(blobs) + 1)
    BY <2>2, <2>3, LoadIs
  <2>7. Loaded.at = Len(out) - 1
    BY <2>3, <2>4, <2>6
  <2>8. ASSUME NEW s \in 1..Len(elf.sections), NEW a \in Places(elf, s), NEW k \in 1..elf.sections[s].size
        PROVE  Loaded.memory[a + k - 1] = Byte(s, k)
    <3>1. PICK m \in 1..Len(blobs) : blobs[m].section = s
      BY <2>2 DEF Entered
    <3>2. blobs[m].address \in Places(elf, s) /\ blobs[m].count = elf.sections[s].size
      BY <2>2, <3>1 DEF Entered
    <3>3. blobs[m].address = a
      BY <2>1, <3>2 DEF WellLinked
    <3>4. m \in 1..((Len(blobs) + 1) - 1)
      BY <2>2 DEF Sorted
    <3>5. Loaded.memory[blobs[m].address + k - 1] = Byte(blobs[m].section, k)
      BY <2>6, <3>2, <3>4 DEF Holding
    <3> QED
      BY <3>1, <3>3, <3>5
  <2> QED
    BY <2>3, <2>5, <2>7, <2>8
<1> QED
  BY <1>1, ImageInvariant, PTL
=============================================================================
