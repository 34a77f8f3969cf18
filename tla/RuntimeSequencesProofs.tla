----------------------- MODULE RuntimeSequencesProofs -----------------------
(***************************************************************************)
(* For any variables, elements and bounds: the sequences of the runtime    *)
(* library keep their types, are never shared, and implement the abstract  *)
(* store, provided that a program does not look again at what it gave to   *)
(* the SSA write and to the copy.  The loops of the library that exchange  *)
(* two ranges are recursive functions here; what they compute for ranges   *)
(* of any length follows by induction, from the well-foundedness of Nat.   *)
(***************************************************************************)
EXTENDS RuntimeSequences, FiniteSetTheorems, SequenceTheorems, WellFoundedInduction, TLAPS

-----------------------------------------------------------------------------

(* Sequences by their elements. *)

LEMMA Tabulated ==
  ASSUME NEW S, NEW n \in Nat, NEW s \in [1 .. n -> S]
  PROVE  s \in Seq(S) /\ Len(s) = n
OBVIOUS

LEMMA SubSeqIs ==
  ASSUME NEW S, NEW s \in Seq(S), NEW i \in Nat, NEW j \in Nat, i <= j, j <= Len(s)
  PROVE  /\ SubSeq(s, i + 1, j) \in Seq(S) /\ Len(SubSeq(s, i + 1, j)) = j - i
         /\ SubSeq(s, i + 1, j) = [x \in 1 .. j - i |-> s[x + i]]
<1>1. SubSeq(s, i + 1, j) = [x \in 1 .. j - i |-> s[x + i]]
  BY SMTT(20)
<1>2. [x \in 1 .. j - i |-> s[x + i]] \in [1 .. j - i -> S]
  BY LenProperties
<1>3. j - i \in Nat
  OBVIOUS
<1> QED
  BY <1>1, <1>2, <1>3, Tabulated

LEMMA CutIs ==
  ASSUME NEW S, NEW s \in Seq(S), NEW i \in Nat, NEW j \in Nat, i <= Len(s), j <= Len(s)
  PROVE  /\ VectorErase(s, i, j) \in Seq(S)
         /\ VectorErase(s, i, j) = [x \in 1 .. Len(s) + i - j |->
                                      IF x <= i THEN s[x] ELSE s[x + j - i]]
<1> DEFINE a == SubSeq(s, 0 + 1, i)
           b == SubSeq(s, j + 1, Len(s))
<1>1. Len(s) \in Nat
  BY LenProperties
<1>2. a \in Seq(S) /\ Len(a) = i /\ a = [x \in 1 .. i |-> s[x]]
  <2>1. a \in Seq(S) /\ Len(a) = i - 0 /\ a = [x \in 1 .. i - 0 |-> s[x + 0]]
    BY <1>1, SubSeqIs
  <2> QED
    BY <2>1
<1>3. b \in Seq(S) /\ Len(b) = Len(s) - j /\ b = [x \in 1 .. Len(s) - j |-> s[x + j]]
  BY <1>1, SubSeqIs
<1>4. VectorErase(s, i, j) = a \o b
  BY DEF VectorErase
<1> HIDE DEF a, b
<1>5. a \o b \in Seq(S) /\ a \o b = [x \in 1 .. i + (Len(s) - j) |-> IF x <= i THEN a[x] ELSE b[x - i]]
  BY <1>2, <1>3, ConcatProperties
<1> QED
  BY <1>2, <1>3, <1>4, <1>5

LEMMA ThreeParts ==
  ASSUME NEW S, NEW a \in Seq(S), NEW t \in Seq(S), NEW b \in Seq(S)
  PROVE  /\ a \o t \o b \in Seq(S)
         /\ a \o t \o b = [x \in 1 .. Len(a) + Len(t) + Len(b) |->
                             IF x <= Len(a) THEN a[x]
                             ELSE IF x <= Len(a) + Len(t) THEN t[x - Len(a)]
                             ELSE b[x - (Len(a) + Len(t))]]
<1> DEFINE c == a \o t
           w == c \o b
<1>1. /\ c \in Seq(S) /\ Len(c) = Len(a) + Len(t)
      /\ \A x \in 1 .. Len(a) + Len(t) : c[x] = IF x <= Len(a) THEN a[x] ELSE t[x - Len(a)]
  BY ConcatProperties
<1>2. Len(a) \in Nat /\ Len(t) \in Nat /\ Len(b) \in Nat
  BY LenProperties
<1> HIDE DEF c
<1>3. /\ w \in Seq(S) /\ Len(w) = Len(c) + Len(b)
      /\ \A x \in 1 .. Len(c) + Len(b) : w[x] = IF x <= Len(c) THEN c[x] ELSE b[x - Len(c)]
  <2>1. c \in Seq(S)
    BY <1>1
  <2> QED
    BY <2>1, ConcatProperties
<1>4. w = [x \in 1 .. Len(w) |-> w[x]]
  BY <1>3, LenProperties
<1>5. w = a \o t \o b
  BY DEF c
<1> HIDE DEF w
<1>6. \A x \in 1 .. Len(a) + Len(t) + Len(b) :
        w[x] = IF x <= Len(a) THEN a[x]
               ELSE IF x <= Len(a) + Len(t) THEN t[x - Len(a)]
               ELSE b[x - (Len(a) + Len(t))]
  BY <1>1, <1>2, <1>3
<1> QED
  BY <1>1, <1>3, <1>4, <1>5, <1>6

LEMMA FrontIs ==
  ASSUME NEW S, NEW s \in Seq(S), NEW i \in Nat, i <= Len(s)
  PROVE  /\ SubSeq(s, 1, i) \in Seq(S) /\ Len(SubSeq(s, 1, i)) = i
         /\ SubSeq(s, 1, i) = [x \in 1 .. i |-> s[x]]
<1>1. /\ SubSeq(s, 0 + 1, i) \in Seq(S) /\ Len(SubSeq(s, 0 + 1, i)) = i - 0
      /\ SubSeq(s, 0 + 1, i) = [x \in 1 .. i - 0 |-> s[x + 0]]
  BY SubSeqIs
<1> QED
  BY <1>1

LEMMA BackIs ==
  ASSUME NEW S, NEW s \in Seq(S), NEW i \in Nat, i <= Len(s)
  PROVE  /\ SubSeq(s, i + 1, Len(s)) \in Seq(S) /\ Len(SubSeq(s, i + 1, Len(s))) = Len(s) - i
         /\ SubSeq(s, i + 1, Len(s)) = [x \in 1 .. Len(s) - i |-> s[x + i]]
<1>1. Len(s) \in Nat /\ Len(s) <= Len(s)
  BY LenProperties
<1> QED
  BY <1>1, SubSeqIs

LEMMA SpliceIs ==
  ASSUME NEW S, NEW s \in Seq(S), NEW t \in Seq(S), NEW i \in Nat, i <= Len(s)
  PROVE  /\ VectorInsert(s, i, t) \in Seq(S)
         /\ VectorInsert(s, i, t) =
              [x \in 1 .. Len(s) + Len(t) |-> IF x <= i THEN s[x]
                                              ELSE IF x <= i + Len(t) THEN t[x - i]
                                              ELSE s[x - Len(t)]]
<1> DEFINE a == SubSeq(s, 1, i)
           b == SubSeq(s, i + 1, Len(s))
<1>1. Len(s) \in Nat /\ Len(t) \in Nat
  BY LenProperties
<1>2. a \in Seq(S) /\ Len(a) = i /\ a = [x \in 1 .. i |-> s[x]]
  BY FrontIs
<1>3. b \in Seq(S) /\ Len(b) = Len(s) - i /\ b = [x \in 1 .. Len(s) - i |-> s[x + i]]
  BY <1>1, BackIs
<1>4. VectorInsert(s, i, t) = a \o t \o b
  BY DEF VectorInsert
<1> HIDE DEF a, b
<1>5. /\ a \o t \o b \in Seq(S)
      /\ a \o t \o b = [x \in 1 .. Len(a) + Len(t) + Len(b) |->
                          IF x <= Len(a) THEN a[x]
                          ELSE IF x <= Len(a) + Len(t) THEN t[x - Len(a)]
                          ELSE b[x - (Len(a) + Len(t))]]
  <2>1. a \in Seq(S) /\ b \in Seq(S)
    BY <1>2, <1>3
  <2> QED
    BY <2>1, ThreeParts
<1>6. /\ i + Len(t) + (Len(s) - i) = Len(s) + Len(t)
      /\ \A x \in 1 .. Len(s) + Len(t) : x > i + Len(t) =>
            /\ x - (i + Len(t)) \in 1 .. Len(s) - i
            /\ (x - (i + Len(t))) + i = x - Len(t)
  BY <1>1
<1>7. \A x \in 1 .. Len(s) + Len(t) :
        (IF x <= i THEN a[x] ELSE IF x <= i + Len(t) THEN t[x - i] ELSE b[x - (i + Len(t))])
          = IF x <= i THEN s[x] ELSE IF x <= i + Len(t) THEN t[x - i] ELSE s[x - Len(t)]
  <2> TAKE x \in 1 .. Len(s) + Len(t)
  <2>1. CASE x <= i
    BY <1>1, <1>2, <2>1
  <2>2. CASE x > i /\ x <= i + Len(t)
    BY <1>1, <2>2
  <2>3. CASE x > i /\ x > i + Len(t)
    BY <1>1, <1>3, <1>6, <2>3
  <2> QED
    BY <1>1, <2>1, <2>2, <2>3
<1>8. a \o t \o b = [x \in 1 .. Len(s) + Len(t) |->
                       IF x <= i THEN a[x] ELSE IF x <= i + Len(t) THEN t[x - i]
                       ELSE b[x - (i + Len(t))]]
  BY <1>2, <1>3, <1>5, <1>6
<1> QED
  BY <1>4, <1>5, <1>7, <1>8

\* t written over s, from index i on.
LEMMA OverIs ==
  ASSUME NEW S, NEW s \in Seq(S), NEW t \in Seq(S), NEW i \in Nat, i + Len(t) <= Len(s)
  PROVE  /\ Store!Over(s, i, t) \in Seq(S)
         /\ Store!Over(s, i, t) = CopyTo(s, i, t)
<1> DEFINE e == i + Len(t)
           a == SubSeq(s, 1, i)
           b == SubSeq(s, e + 1, Len(s))
<1>1. /\ Len(s) \in Nat /\ Len(t) \in Nat /\ DOMAIN s = 1 .. Len(s)
      /\ e \in Nat /\ e <= Len(s) /\ i <= Len(s)
  BY LenProperties
<1>2. a \in Seq(S) /\ Len(a) = i /\ a = [x \in 1 .. i |-> s[x]]
  BY <1>1, FrontIs
<1>3. Store!Over(s, i, t) = a \o t \o b
  BY DEF Store!Over
<1> HIDE DEF e
<1>4. b \in Seq(S) /\ Len(b) = Len(s) - e /\ b = [x \in 1 .. Len(s) - e |-> s[x + e]]
  <2>1. e \in Nat /\ e <= Len(s)
    BY <1>1
  <2> QED
    BY <2>1, BackIs
<1> HIDE DEF a, b
<1>5. /\ a \o t \o b \in Seq(S)
      /\ a \o t \o b = [x \in 1 .. Len(a) + Len(t) + Len(b) |->
                          IF x <= Len(a) THEN a[x]
                          ELSE IF x <= Len(a) + Len(t) THEN t[x - Len(a)]
                          ELSE b[x - (Len(a) + Len(t))]]
  <2>1. a \in Seq(S) /\ b \in Seq(S)
    BY <1>2, <1>4
  <2> QED
    BY <2>1, ThreeParts
<1>6. e = i + Len(t) /\ i + Len(t) + (Len(s) - e) = Len(s)
  BY <1>1 DEF e
<1>7. \A x \in 1 .. Len(s) : x > e => x - e \in 1 .. Len(s) - e /\ (x - e) + e = x
  BY <1>1
<1>8. \A x \in 1 .. Len(s) :
        (IF x <= i THEN a[x] ELSE IF x <= e THEN t[x - i] ELSE b[x - e])
          = IF i < x /\ x <= e THEN t[x - i] ELSE s[x]
  BY <1>1, <1>2, <1>4, <1>7
<1>9. a \o t \o b = [x \in 1 .. Len(s) |-> IF i < x /\ x <= e THEN t[x - i] ELSE s[x]]
  BY <1>2, <1>4, <1>5, <1>6, <1>8
<1> QED
  BY <1>1, <1>3, <1>5, <1>6, <1>9 DEF CopyTo

\* Growing and copying behind what was there is appending.
LEMMA AppendedIs ==
  ASSUME NEW S, NEW s \in Seq(S), NEW t \in Seq(S)
  PROVE  CopyTo(VectorResize(s, Len(s) + Len(t)), Len(s), t) = s \o t
<1>1. Len(s) \in Nat /\ Len(t) \in Nat
  BY LenProperties
<1>2. /\ s \o t \in Seq(S) /\ Len(s \o t) = Len(s) + Len(t)
      /\ \A x \in 1 .. Len(s) + Len(t) : (s \o t)[x] = IF x <= Len(s) THEN s[x] ELSE t[x - Len(s)]
  BY ConcatProperties
<1> DEFINE w == s \o t
           c == CopyTo(VectorResize(s, Len(s) + Len(t)), Len(s), t)
<1>3. w = [x \in 1 .. Len(s) + Len(t) |-> IF x <= Len(s) THEN s[x] ELSE t[x - Len(s)]]
  <2>1. DOMAIN w = 1 .. Len(s) + Len(t) /\ w = [x \in DOMAIN w |-> w[x]]
    BY <1>2, LenProperties
  <2> HIDE DEF w
  <2> QED
    BY <1>2, <2>1 DEF w
<1>4. c = [x \in 1 .. Len(s) + Len(t) |-> IF x <= Len(s) THEN s[x] ELSE t[x - Len(s)]]
  BY <1>1 DEF CopyTo, VectorResize
<1> QED
  BY <1>3, <1>4

-----------------------------------------------------------------------------
(* Counting up. *)

\* A set of numbers has a least one.
LEMMA LeastNat ==
  ASSUME NEW T \in SUBSET Nat, T # {}
  PROVE  \E n \in T : \A k \in T : n <= k
<1> DEFINE R == {ss \in Nat \X Nat : ss[1] < ss[2]}
<1>1. IsWellFoundedOn(R, Nat)
  BY NatLessThanWellFounded DEF OpToRel
<1>2. \A y, x \in Nat : y < x => <<y, x>> \in R
  OBVIOUS
<1> HIDE DEF R
<1>3. PICK x \in T : \A y \in T : ~(<<y, x>> \in R)
  BY <1>1, WFMin
<1>4. \A y \in T : x <= y
  <2> TAKE y \in T
  <2>1. x \in Nat /\ y \in Nat
    OBVIOUS
  <2>2. ~(y < x)
    BY <1>2, <1>3, <2>1
  <2> QED
    BY <2>1, <2>2
<1> QED
  BY <1>4

\* Induction up to m: the least number that is not in Q would have none before it.
LEMMA CountUp ==
  ASSUME NEW m \in Nat, NEW Q, 0 \in Q, \A k \in 1 .. m : k - 1 \in Q => k \in Q
  PROVE  \A k \in 0 .. m : k \in Q
<1> DEFINE T == {k \in 0 .. m : k \notin Q}
<1>1. ASSUME T # {} PROVE FALSE
  <2>1. T \in SUBSET Nat
    OBVIOUS
  <2>2. \A k \in T : k \in 0 .. m /\ k \notin Q
    OBVIOUS
  <2>3. \A k \in 0 .. m : k \notin T => k \in Q
    OBVIOUS
  <2> HIDE DEF T
  <2>4. PICK n \in T : \A k \in T : n <= k
    BY <1>1, <2>1, LeastNat
  <2>5. n \in 1 .. m /\ n \notin Q
    BY <2>2
  <2>6. n - 1 \in 0 .. m /\ ~(n <= n - 1)
    BY <2>5
  <2>7. n - 1 \in Q
    BY <2>3, <2>4, <2>6
  <2> QED
    BY <2>5, <2>7
<1> QED
  BY <1>1

-----------------------------------------------------------------------------
(* Swapping ranges. *)

Heaps == [Objects -> Seq(Elements) \cup {Freed}]

\* The heaps after each of the m swaps.
Swapping(f, h, o, i, p, j, m) ==
  f = [k \in 0 .. m |-> IF k = 0 THEN h ELSE SwapElement(f[k - 1], o, i + k, p, j + k)]

LEMMA SwappingExists ==
  ASSUME NEW h, NEW o, NEW i, NEW p, NEW j, NEW m \in Nat
  PROVE  \E f : Swapping(f, h, o, i, p, j, m)
<1> DEFINE Q == {n \in Nat : \E f : Swapping(f, h, o, i, p, j, n)}
<1>1. 0 \in Q
  <2> DEFINE f == [k \in 0 .. 0 |-> h]
  <2>1. Swapping(f, h, o, i, p, j, 0)
    BY DEF Swapping
  <2> QED
    BY <2>1
<1>2. ASSUME NEW n \in 1 .. m, n - 1 \in Q PROVE n \in Q
  <2>1. PICK g : Swapping(g, h, o, i, p, j, n - 1)
    BY <1>2
  <2> DEFINE f == [k \in 0 .. n |-> IF k = n THEN SwapElement(g[n - 1], o, i + n, p, j + n)
                                    ELSE g[k]]
  <2>2. \A k \in 0 .. n - 1 :
          g[k] = IF k = 0 THEN h ELSE SwapElement(g[k - 1], o, i + k, p, j + k)
    BY <2>1 DEF Swapping
  <2>3. /\ f = [k \in 0 .. n |-> f[k]] /\ f[n] = SwapElement(g[n - 1], o, i + n, p, j + n)
        /\ \A k \in 0 .. n - 1 : f[k] = g[k]
    OBVIOUS
  <2> HIDE DEF f
  <2>4. \A k \in 0 .. n : k # n => k \in 0 .. n - 1 /\ (k # 0 => k - 1 \in 0 .. n - 1)
    OBVIOUS
  <2>5. \A k \in 0 .. n : f[k] = IF k = 0 THEN h ELSE SwapElement(f[k - 1], o, i + k, p, j + k)
    <3> TAKE k \in 0 .. n
    <3>1. CASE k = n
      <4>1. n - 1 \in 0 .. n - 1 /\ n # 0
        OBVIOUS
      <4> QED
        BY <2>3, <3>1, <4>1
    <3>2. CASE k # n
      BY <2>2, <2>3, <2>4, <3>2
    <3> QED
      BY <3>1, <3>2
  <2>6. Swapping(f, h, o, i, p, j, n)
    BY <2>3, <2>5 DEF Swapping
  <2> QED
    BY <2>6
<1> HIDE DEF Q
<1>3. \A n \in 0 .. m : n \in Q
  BY <1>1, <1>2, CountUp
<1> QED
  BY <1>3 DEF Q

\* SwapRanges is the last of them.
LEMMA SwapRangesIs ==
  ASSUME NEW h, NEW o, NEW i, NEW p, NEW j, NEW m \in Nat
  PROVE  \E f : Swapping(f, h, o, i, p, j, m) /\ SwapRanges(h, o, i, p, j, m) = f[m]
<1> DEFINE f == CHOOSE f : f = [k \in 0 .. m |->
                  IF k = 0 THEN h ELSE SwapElement(f[k - 1], o, i + k, p, j + k)]
<1>1. \E g : g = [k \in 0 .. m |->
                  IF k = 0 THEN h ELSE SwapElement(g[k - 1], o, i + k, p, j + k)]
  <2>1. \E g : Swapping(g, h, o, i, p, j, m)
    BY SwappingExists
  <2> QED
    BY <2>1 DEF Swapping
<1>2. f = [k \in 0 .. m |-> IF k = 0 THEN h ELSE SwapElement(f[k - 1], o, i + k, p, j + k)]
  BY <1>1
<1>3. SwapRanges(h, o, i, p, j, m) = f[m]
  BY DEF SwapRanges
<1> HIDE DEF f
<1>4. Swapping(f, h, o, i, p, j, m)
  BY <1>2 DEF Swapping
<1> QED
  BY <1>3, <1>4

\* s has k elements from index i on, t has k elements from index j on.
Ranges(S, s, i, t, j, k) ==
  /\ s \in Seq(S) /\ t \in Seq(S) /\ i \in Nat /\ j \in Nat /\ k \in Nat
  /\ i + k <= Len(s) /\ j + k <= Len(t)

\* s with the k elements of t from index j written over it from index i on.
Mixed(s, i, t, j, k) ==
  [x \in DOMAIN s |-> IF i < x /\ x <= i + k THEN t[x - i + j] ELSE s[x]]

\* s with k elements from i and from j exchanged.
Crossed(s, i, j, k) ==
  [x \in DOMAIN s |-> IF i < x /\ x <= i + k THEN s[x - i + j]
                      ELSE IF j < x /\ x <= j + k THEN s[x - j + i] ELSE s[x]]

Permuted(s, g) == [x \in DOMAIN s |-> s[g[x]]]
Shuffles(s) ==
  {g \in [DOMAIN s -> DOMAIN s] : \A x, y \in DOMAIN s : g[x] = g[y] => x = y}

\* f with v at x.
Put(f, x, v) == [f EXCEPT ![x] = v]

LEMMA SwapApart ==
  ASSUME NEW h, NEW o \in DOMAIN h, NEW p \in DOMAIN h, o # p,
         NEW a, NEW b, NEW x, NEW y
  PROVE  SwapElement(Put(Put(h, o, a), p, b), o, x, p, y)
           = Put(Put(h, o, Put(a, x, b[y])), p, Put(b, y, a[x]))
  BY DEF SwapElement, Put

LEMMA SwapTogether ==
  ASSUME NEW h, NEW o \in DOMAIN h, NEW a, NEW x, NEW y
  PROVE  SwapElement(Put(h, o, a), o, x, o, y) = Put(h, o, Put(Put(a, x, a[y]), y, a[x]))
  BY DEF SwapElement, Put

LEMMA MixedStep ==
  ASSUME NEW S, NEW s, NEW t, NEW i, NEW j, NEW k, Ranges(S, s, i, t, j, k), k # 0
  PROVE  /\ Mixed(s, i, t, j, k - 1)[i + k] = s[i + k]
         /\ Put(Mixed(s, i, t, j, k - 1), i + k, t[j + k]) = Mixed(s, i, t, j, k)
<1> DEFINE a == Mixed(s, i, t, j, k - 1)
           w == Mixed(s, i, t, j, k)
           n == Len(s)
<1>0. /\ i \in Nat /\ j \in Nat /\ k \in Nat /\ k # 0
      /\ n \in Nat /\ DOMAIN s = 1 .. n /\ i + k <= n
  BY LenProperties DEF Ranges
<1> HIDE DEF n
<1>1. (i + k) - i + j = j + k /\ i + k \in 1 .. n /\ i < i + k /\ i + k <= i + k
      /\ ~(i + k <= i + (k - 1))
  BY <1>0
<1>2. \A x \in 1 .. n : x # i + k => (x <= i + (k - 1) <=> x <= i + k)
  BY <1>0
<1>3. a = [x \in 1 .. n |-> IF i < x /\ x <= i + (k - 1) THEN t[x - i + j] ELSE s[x]]
  BY <1>0 DEF Mixed
<1>4. w = [x \in 1 .. n |-> IF i < x /\ x <= i + k THEN t[x - i + j] ELSE s[x]]
  BY <1>0 DEF Mixed
<1>5. \A x \in 1 .. n : x # i + k => a[x] = w[x]
  BY <1>0, <1>2, <1>3, <1>4
<1>6. w[i + k] = t[j + k] /\ a[i + k] = s[i + k]
  BY <1>1, <1>3, <1>4
<1>7. DOMAIN a = 1 .. n /\ DOMAIN w = 1 .. n /\ w = [x \in 1 .. n |-> w[x]]
  BY <1>3, <1>4
<1> HIDE DEF a, w
<1> DEFINE z == i + k
<1>8. z \in 1 .. n /\ w[z] = t[j + k] /\ \A x \in 1 .. n : x # z => a[x] = w[x]
  BY <1>1, <1>5, <1>6
<1> HIDE DEF z
<1>9. Put(a, z, t[j + k]) = w
  BY <1>7, <1>8 DEF Put
<1> QED
  BY <1>6, <1>9 DEF a, w, z

LEMMA CrossedStep ==
  ASSUME NEW S, NEW s, NEW i, NEW j, NEW k, Ranges(S, s, i, s, j, k), k # 0,
         i + k <= j \/ j + k <= i
  PROVE  /\ Crossed(s, i, j, k - 1)[i + k] = s[i + k]
         /\ Crossed(s, i, j, k - 1)[j + k] = s[j + k]
         /\ Put(Put(Crossed(s, i, j, k - 1), i + k, s[j + k]), j + k, s[i + k])
              = Crossed(s, i, j, k)
<1> DEFINE a == Crossed(s, i, j, k - 1)
           w == Crossed(s, i, j, k)
           n == Len(s)
<1>0. /\ i \in Nat /\ j \in Nat /\ k \in Nat /\ k # 0 /\ (i + k <= j \/ j + k <= i)
      /\ n \in Nat /\ DOMAIN s = 1 .. n /\ i + k <= n /\ j + k <= n
  BY LenProperties DEF Ranges
<1> HIDE DEF n
<1>1. /\ (i + k) - i + j = j + k /\ i + k \in 1 .. n /\ i < i + k /\ i + k <= i + k
      /\ (j + k) - j + i = i + k /\ j + k \in 1 .. n /\ j < j + k /\ j + k <= j + k
      /\ i + k # j + k
      /\ ~(i + k <= i + (k - 1)) /\ ~(j + k <= j + (k - 1))
  BY <1>0
<1>2. /\ ~(j < i + k /\ i + k <= j + k) /\ ~(i < j + k /\ j + k <= i + k)
      /\ ~(j < i + k /\ i + k <= j + (k - 1)) /\ ~(i < j + k /\ j + k <= i + (k - 1))
  BY <1>0
<1>3. \A x \in 1 .. n : /\ x # i + k => (x <= i + (k - 1) <=> x <= i + k)
                        /\ x # j + k => (x <= j + (k - 1) <=> x <= j + k)
  BY <1>0
<1>4. a = [x \in 1 .. n |-> IF i < x /\ x <= i + (k - 1) THEN s[x - i + j]
                            ELSE IF j < x /\ x <= j + (k - 1) THEN s[x - j + i] ELSE s[x]]
  BY <1>0 DEF Crossed
<1>5. w = [x \in 1 .. n |-> IF i < x /\ x <= i + k THEN s[x - i + j]
                            ELSE IF j < x /\ x <= j + k THEN s[x - j + i] ELSE s[x]]
  BY <1>0 DEF Crossed
<1>6. \A x \in 1 .. n : x # i + k /\ x # j + k => a[x] = w[x]
  BY <1>0, <1>3, <1>4, <1>5
<1>7. a[i + k] = s[i + k] /\ a[j + k] = s[j + k]
  BY <1>1, <1>2, <1>4
<1>8. w[i + k] = s[j + k] /\ w[j + k] = s[i + k]
  BY <1>1, <1>2, <1>5
<1>9. DOMAIN a = 1 .. n /\ DOMAIN w = 1 .. n /\ w = [x \in 1 .. n |-> w[x]]
  BY <1>4, <1>5
<1> HIDE DEF a, w
<1> DEFINE y == i + k
           z == j + k
<1>10. /\ y \in 1 .. n /\ z \in 1 .. n /\ y # z /\ w[y] = s[z] /\ w[z] = s[y]
       /\ \A x \in 1 .. n : x # y /\ x # z => a[x] = w[x]
  BY <1>1, <1>6, <1>8
<1> HIDE DEF y, z
<1>11. Put(Put(a, y, s[z]), z, s[y]) = w
  BY <1>9, <1>10 DEF Put
<1> QED
  BY <1>7, <1>11 DEF a, w, y, z

LEMMA PermutedStep ==
  ASSUME NEW s, NEW g \in Shuffles(s), NEW x \in DOMAIN s, NEW y \in DOMAIN s
  PROVE  \E f \in Shuffles(s) :
           Put(Put(Permuted(s, g), x, Permuted(s, g)[y]), y, Permuted(s, g)[x]) = Permuted(s, f)
<1> DEFINE f == [z \in DOMAIN s |-> IF z = y THEN g[x] ELSE IF z = x THEN g[y] ELSE g[z]]
<1>1. f \in Shuffles(s)
  BY DEF Shuffles
<1>2. Put(Put(Permuted(s, g), x, Permuted(s, g)[y]), y, Permuted(s, g)[x]) = Permuted(s, f)
  BY DEF Permuted, Put
<1> QED
  BY <1>1, <1>2

LEMMA SwapRangesApart ==
  ASSUME NEW h \in Heaps, NEW o \in Objects, NEW p \in Objects, o # p,
         NEW i, NEW j, NEW m, Ranges(Elements, h[o], i, h[p], j, m)
  PROVE  SwapRanges(h, o, i, p, j, m)
           = Put(Put(h, o, Mixed(h[o], i, h[p], j, m)), p, Mixed(h[p], j, h[o], i, m))
<1> DEFINE s == h[o]
           t == h[p]
           After(k) == Put(Put(h, o, Mixed(s, i, t, j, k)), p, Mixed(t, j, s, i, k))
<1>0. i \in Nat /\ j \in Nat /\ m \in Nat
  BY DEF Ranges
<1>1. PICK f : Swapping(f, h, o, i, p, j, m) /\ SwapRanges(h, o, i, p, j, m) = f[m]
  BY <1>0, SwapRangesIs
<1>2. /\ f[0] = h
      /\ \A k \in 1 .. m : f[k] = SwapElement(f[k - 1], o, i + k, p, j + k)
  <2>1. /\ 0 \in 0 .. m
        /\ \A k \in 1 .. m : k \in 0 .. m /\ k # 0
    BY <1>0
  <2> QED
    BY <1>1, <2>1 DEF Swapping
<1>3. /\ s \in Seq(Elements) /\ t \in Seq(Elements)
      /\ Len(s) \in Nat /\ DOMAIN s = 1 .. Len(s) /\ i + m <= Len(s)
      /\ Len(t) \in Nat /\ DOMAIN t = 1 .. Len(t) /\ j + m <= Len(t)
  BY <1>0, LenProperties DEF Ranges
<1>4. DOMAIN h = Objects /\ h = [x \in Objects |-> h[x]]
  BY DEF Heaps
<1>5. After(0) = h
  <2>1. s = [x \in DOMAIN s |-> s[x]] /\ t = [x \in DOMAIN t |-> t[x]]
    BY <1>3, LenProperties
  <2>2. Mixed(s, i, t, j, 0) = [x \in DOMAIN s |-> s[x]]
    BY <1>0, <1>3 DEF Mixed
  <2>3. Mixed(t, j, s, i, 0) = [x \in DOMAIN t |-> t[x]]
    BY <1>0, <1>3 DEF Mixed
  <2>4. After(0) = Put(Put(h, o, s), p, t)
    BY <2>1, <2>2, <2>3
  <2> QED
    BY <1>4, <2>4 DEF Put
<1> HIDE DEF s, t
<1>6. ASSUME NEW k \in 1 .. m, f[k - 1] = After(k - 1)
      PROVE  f[k] = After(k)
  <2> DEFINE a == Mixed(s, i, t, j, k - 1)
             b == Mixed(t, j, s, i, k - 1)
  <2>1. k # 0 /\ Ranges(Elements, s, i, t, j, k) /\ Ranges(Elements, t, j, s, i, k)
    BY <1>3 DEF Ranges
  <2>2. a[i + k] = s[i + k] /\ Put(a, i + k, t[j + k]) = Mixed(s, i, t, j, k)
    BY <2>1, MixedStep
  <2>3. b[j + k] = t[j + k] /\ Put(b, j + k, s[i + k]) = Mixed(t, j, s, i, k)
    BY <2>1, MixedStep
  <2>4. f[k - 1] = Put(Put(h, o, a), p, b)
    BY <1>6
  <2> HIDE DEF a, b
  <2>5. f[k] = Put(Put(h, o, Put(a, i + k, b[j + k])), p, Put(b, j + k, a[i + k]))
    <3>1. SwapElement(Put(Put(h, o, a), p, b), o, i + k, p, j + k)
            = Put(Put(h, o, Put(a, i + k, b[j + k])), p, Put(b, j + k, a[i + k]))
      BY <1>4, SwapApart
    <3> QED
      BY <1>2, <2>4, <3>1
  <2> QED
    BY <2>2, <2>3, <2>5
<1> DEFINE Q == {k \in 0 .. m : f[k] = After(k)}
<1>7. 0 \in Q /\ \A k \in 1 .. m : k - 1 \in Q => k \in Q
  BY <1>0, <1>2, <1>5, <1>6
<1> HIDE DEF Q
<1>8. \A k \in 0 .. m : k \in Q
  BY <1>0, <1>7, CountUp
<1>9. m \in Q
  BY <1>0, <1>8
<1> QED
  BY <1>1, <1>9 DEF Q, s, t

LEMMA SwapRangesWithin ==
  ASSUME NEW h \in Heaps, NEW o \in Objects,
         NEW i, NEW j, NEW m, Ranges(Elements, h[o], i, h[o], j, m)
  PROVE  /\ i + m <= j \/ j + m <= i =>
               SwapRanges(h, o, i, o, j, m) = Put(h, o, Crossed(h[o], i, j, m))
         /\ \E g \in Shuffles(h[o]) :
               SwapRanges(h, o, i, o, j, m) = Put(h, o, Permuted(h[o], g))
<1> DEFINE s == h[o]
<1>0. i \in Nat /\ j \in Nat /\ m \in Nat
  BY DEF Ranges
<1>1. PICK f : Swapping(f, h, o, i, o, j, m) /\ SwapRanges(h, o, i, o, j, m) = f[m]
  BY <1>0, SwapRangesIs
<1>2. /\ f[0] = h
      /\ \A k \in 1 .. m : f[k] = SwapElement(f[k - 1], o, i + k, o, j + k)
  <2>1. /\ 0 \in 0 .. m
        /\ \A k \in 1 .. m : k \in 0 .. m /\ k # 0
    BY <1>0
  <2> QED
    BY <1>1, <2>1 DEF Swapping
<1>3. /\ s \in Seq(Elements)
      /\ Len(s) \in Nat /\ DOMAIN s = 1 .. Len(s) /\ i + m <= Len(s) /\ j + m <= Len(s)
      /\ s = [x \in DOMAIN s |-> s[x]] /\ h = Put(h, o, s)
  BY LenProperties DEF Heaps, Put, Ranges
<1>4. DOMAIN h = Objects /\ h = [x \in Objects |-> h[x]]
  BY DEF Heaps
<1> HIDE DEF s
<1>5. ASSUME i + m <= j \/ j + m <= i
      PROVE  f[m] = Put(h, o, Crossed(s, i, j, m))
  <2> DEFINE Q == {k \in 0 .. m : f[k] = Put(h, o, Crossed(s, i, j, k))}
  <2>1. 0 \in Q
    <3>1. Crossed(s, i, j, 0) = [x \in DOMAIN s |-> s[x]]
      BY <1>0, <1>3 DEF Crossed
    <3> QED
      BY <1>0, <1>2, <1>3, <3>1
  <2>2. ASSUME NEW k \in 1 .. m, f[k - 1] = Put(h, o, Crossed(s, i, j, k - 1))
        PROVE  f[k] = Put(h, o, Crossed(s, i, j, k))
    <3> DEFINE a == Crossed(s, i, j, k - 1)
    <3>1. k # 0 /\ Ranges(Elements, s, i, s, j, k) /\ (i + k <= j \/ j + k <= i)
      BY <1>3, <1>5 DEF Ranges
    <3>2. /\ a[i + k] = s[i + k] /\ a[j + k] = s[j + k]
          /\ Put(Put(a, i + k, s[j + k]), j + k, s[i + k]) = Crossed(s, i, j, k)
      BY <3>1, CrossedStep
    <3>3. f[k - 1] = Put(h, o, a)
      BY <2>2
    <3> HIDE DEF a
    <3>4. f[k] = Put(h, o, Put(Put(a, i + k, a[j + k]), j + k, a[i + k]))
      <4>1. SwapElement(Put(h, o, a), o, i + k, o, j + k)
              = Put(h, o, Put(Put(a, i + k, a[j + k]), j + k, a[i + k]))
        BY <1>4, SwapTogether
      <4> QED
        BY <1>2, <3>3, <4>1
    <3> QED
      BY <3>2, <3>4
  <2>3. ASSUME NEW k \in 1 .. m, k - 1 \in Q PROVE k \in Q
    <3>1. k - 1 \in 0 .. m /\ k \in 0 .. m
      BY <1>0
    <3> QED
      BY <2>2, <2>3, <3>1
  <2> HIDE DEF Q
  <2>4. \A k \in 0 .. m : k \in Q
    BY <1>0, <2>1, <2>3, CountUp
  <2>5. m \in Q
    BY <1>0, <2>4
  <2> QED
    BY <2>5 DEF Q
<1>6. \E g \in Shuffles(s) : f[m] = Put(h, o, Permuted(s, g))
  <2> DEFINE Q == {k \in 0 .. m : \E g \in Shuffles(s) : f[k] = Put(h, o, Permuted(s, g))}
  <2>1. 0 \in Q
    <3> DEFINE g == [x \in DOMAIN s |-> x]
    <3>1. g \in Shuffles(s) /\ Permuted(s, g) = [x \in DOMAIN s |-> s[x]]
      BY DEF Shuffles, Permuted
    <3>2. f[0] = Put(h, o, Permuted(s, g))
      BY <1>0, <1>2, <1>3, <3>1
    <3> HIDE DEF g
    <3> QED
      BY <1>0, <3>1, <3>2
  <2>2. ASSUME NEW k \in 1 .. m, NEW g \in Shuffles(s), f[k - 1] = Put(h, o, Permuted(s, g))
        PROVE  \E e \in Shuffles(s) : f[k] = Put(h, o, Permuted(s, e))
    <3> DEFINE a == Permuted(s, g)
    <3>1. i + k \in DOMAIN s /\ j + k \in DOMAIN s
      BY <1>0, <1>3
    <3>2. PICK e \in Shuffles(s) :
            Put(Put(a, i + k, a[j + k]), j + k, a[i + k]) = Permuted(s, e)
      BY <3>1, PermutedStep
    <3>3. f[k - 1] = Put(h, o, a)
      BY <2>2
    <3> HIDE DEF a
    <3>4. f[k] = Put(h, o, Put(Put(a, i + k, a[j + k]), j + k, a[i + k]))
      <4>1. SwapElement(Put(h, o, a), o, i + k, o, j + k)
              = Put(h, o, Put(Put(a, i + k, a[j + k]), j + k, a[i + k]))
        BY <1>4, SwapTogether
      <4> QED
        BY <1>2, <3>3, <4>1
    <3> QED
      BY <3>2, <3>4
  <2>3. ASSUME NEW k \in 1 .. m, k - 1 \in Q PROVE k \in Q
    <3>1. k - 1 \in 0 .. m /\ k \in 0 .. m
      BY <1>0
    <3> QED
      BY <2>2, <2>3, <3>1
  <2> HIDE DEF Q
  <2>4. \A k \in 0 .. m : k \in Q
    BY <1>0, <2>1, <2>3, CountUp
  <2>5. m \in Q
    BY <1>0, <2>4
  <2> QED
    BY <2>5 DEF Q
<1> QED
  BY <1>1, <1>5, <1>6 DEF s

-----------------------------------------------------------------------------
(* The same in the words of the store. *)

LEMMA MixedIs ==
  ASSUME NEW S, NEW s, NEW t, NEW i, NEW j, NEW m, Ranges(S, s, i, t, j, m)
  PROVE  /\ Mixed(s, i, t, j, m) \in Seq(S)
         /\ Mixed(s, i, t, j, m) = Store!Over(s, i, Store!Slice(t, j, j + m))
<1> DEFINE u == Store!Slice(t, j, j + m)
<1>1. /\ s \in Seq(S) /\ t \in Seq(S) /\ i \in Nat /\ j \in Nat /\ m \in Nat
      /\ i + m <= Len(s) /\ j + m <= Len(t)
      /\ Len(s) \in Nat /\ DOMAIN s = 1 .. Len(s) /\ j + m \in Nat /\ j <= j + m
      /\ (j + m) - j = m
  BY LenProperties DEF Ranges
<1>2. u \in Seq(S) /\ Len(u) = m /\ u = [x \in 1 .. m |-> t[x + j]]
  BY <1>1, SubSeqIs DEF Store!Slice
<1> HIDE DEF u
<1>3. Store!Over(s, i, u) \in Seq(S) /\ Store!Over(s, i, u) = CopyTo(s, i, u)
  <2>1. s \in Seq(S) /\ u \in Seq(S) /\ i \in Nat /\ i + Len(u) <= Len(s)
    BY <1>1, <1>2
  <2> QED
    BY <2>1, OverIs
<1>4. \A x \in 1 .. Len(s) : i < x /\ x <= i + m => u[x - i] = t[x - i + j]
  BY <1>1, <1>2
<1>5. CopyTo(s, i, u) = Mixed(s, i, t, j, m)
  BY <1>1, <1>2, <1>4 DEF CopyTo, Mixed
<1> QED
  BY <1>3, <1>5 DEF u

LEMMA CrossedIs ==
  ASSUME NEW S, NEW s, NEW i, NEW j, NEW m, Ranges(S, s, i, s, j, m),
         i + m <= j \/ j + m <= i
  PROVE  /\ Crossed(s, i, j, m) \in Seq(S)
         /\ Crossed(s, i, j, m) = Store!Over(Store!Over(s, i, Store!Slice(s, j, j + m)), j,
                                             Store!Slice(s, i, i + m))
<1> DEFINE a == Mixed(s, i, s, j, m)
<1>1. /\ Len(s) \in Nat /\ DOMAIN s = 1 .. Len(s) /\ i \in Nat /\ j \in Nat /\ m \in Nat
      /\ i + m <= j \/ j + m <= i
  BY LenProperties DEF Ranges
<1>2. a \in Seq(S) /\ a = Store!Over(s, i, Store!Slice(s, j, j + m))
  BY MixedIs
<1>3. a = [x \in 1 .. Len(s) |-> IF i < x /\ x <= i + m THEN s[x - i + j] ELSE s[x]]
  BY <1>1 DEF Mixed
<1> HIDE DEF a
<1>4. DOMAIN a = 1 .. Len(s) /\ Len(a) = Len(s)
  BY <1>1, <1>2, <1>3, LenProperties
<1>5. /\ Mixed(a, j, s, i, m) \in Seq(S)
      /\ Mixed(a, j, s, i, m) = Store!Over(a, j, Store!Slice(s, i, i + m))
  <2>1. Ranges(S, a, j, s, i, m)
    BY <1>2, <1>4 DEF Ranges
  <2> QED
    BY <2>1, MixedIs
<1>6. \A x \in 1 .. Len(s) :
        (IF j < x /\ x <= j + m THEN s[x - j + i] ELSE a[x])
          = IF i < x /\ x <= i + m THEN s[x - i + j]
            ELSE IF j < x /\ x <= j + m THEN s[x - j + i] ELSE s[x]
  BY <1>1, <1>3
<1>7. Mixed(a, j, s, i, m) = Crossed(s, i, j, m)
  BY <1>1, <1>4, <1>6 DEF Mixed, Crossed
<1> QED
  BY <1>2, <1>5, <1>7

LEMMA PermutedIs ==
  ASSUME NEW S, NEW s \in Seq(S), NEW g \in Shuffles(s)
  PROVE  Permuted(s, g) \in Seq(S) /\ Permuted(s, g) \in Store!Rearrangements(s)
<1>1. Len(s) \in Nat /\ DOMAIN s = 1 .. Len(s) /\ s \in [1 .. Len(s) -> S]
  BY LenProperties
<1>2. g \in [1 .. Len(s) -> 1 .. Len(s)]
  BY <1>1 DEF Shuffles
<1>3. Permuted(s, g) \in [1 .. Len(s) -> S]
  BY <1>1, <1>2 DEF Permuted
<1>4. Permuted(s, g) \in Store!Rearrangements(s)
  BY DEF Store!Rearrangements, Shuffles, Permuted
<1> QED
  BY <1>1, <1>3, <1>4, Tabulated

-----------------------------------------------------------------------------
(* Objects. *)

IInv == TypeOK /\ heap \in Heaps /\ NoSharing

\* The SSA write stores into its operand, and the copy takes out of it.
DestroysLinear ==
  /\ "write" \in Ops => "write" \in Linear
  /\ "copy" \in Ops => "copy" \in Linear

\* There is an object that no variable points to and that is not one given object.
LEMMA ObjectLeft ==
  ASSUME TypeOK, NEW x
  PROVE  \E o \in Objects \ {x} : \A n \in Names : env[n] # o
<1> DEFINE Used == {env[n] : n \in Names}
<1>1. IsFiniteSet(Used) /\ Cardinality(Used) <= Cardinality(Names)
  <2>1. env \in [Names -> Used] /\ \A u \in Used : \E n \in Names : env[n] = u
    BY DEF TypeOK
  <2>2. env \in Surjection(Names, Used)
    BY <2>1 DEF Surjection
  <2> QED
    BY <2>2, FS_Surjection, ObjectsAssumption
<1>2. IsFiniteSet(Used \cup {x}) /\ Cardinality(Used \cup {x}) <= Cardinality(Used) + 1
  <2> HIDE DEF Used
  <2>1. /\ IsFiniteSet(Used \cup {x})
        /\ Cardinality(Used \cup {x}) = IF x \in Used THEN Cardinality(Used)
                                       ELSE Cardinality(Used) + 1
    BY <1>1, FS_AddElement
  <2>2. Cardinality(Used) \in Nat
    BY <1>1, FS_CardinalityType
  <2> QED
    BY <2>1, <2>2
<1>3. CASE Objects \subseteq Used \cup {x}
  <2>1. Cardinality(Objects) <= Cardinality(Used \cup {x})
    BY <1>2, <1>3, FS_Subset
  <2> QED
    BY <1>1, <1>2, <2>1, FS_CardinalityType, ObjectsAssumption
<1>4. CASE ~(Objects \subseteq Used \cup {x})
  BY <1>4
<1> QED
  BY <1>3, <1>4

\* Two new objects.
LEMMA FreshFacts ==
  ASSUME TypeOK
  PROVE  /\ Fresh \in Objects /\ Fresh # None /\ \A n \in Names : env[n] # Fresh
         /\ Fresh2 \in Objects /\ Fresh2 # None /\ \A n \in Names : env[n] # Fresh2
         /\ Fresh2 # Fresh
<1>1. \E o \in Objects : \A n \in Names : env[n] # o
  BY ObjectLeft
<1>2. Fresh \in Objects /\ \A n \in Names : env[n] # Fresh
  BY <1>1 DEF Fresh
<1>3. \E o \in Objects \ {Fresh} : \A n \in Names : env[n] # o
  BY ObjectLeft
<1> HIDE DEF Fresh
<1>4. Fresh2 \in Objects \ {Fresh} /\ \A n \in Names : env[n] # Fresh2
  BY <1>3 DEF Fresh2
<1> QED
  BY <1>2, <1>4, ObjectsAssumption

-----------------------------------------------------------------------------
(* What the store sees. *)

Contents(x)  == IF x = Freed THEN None ELSE x
Sees(e, h)   == [n \in Names |-> IF e[n] = None THEN None ELSE Contents(h[e[n]])]
Apart(e)     == \A n, x \in Names : n # x /\ e[n] # None => e[n] # e[x]

LEMMA HeldNow ==
  Held = Sees(env, heap)
BY DEF Held, Sees, Contents, Bound, Usable, object

LEMMA HeldNext ==
  Held' = Sees(env', heap')
BY DEF Held, Sees, Contents, Bound, Usable, object

\* What is bound and usable holds a sequence, which the store sees.
LEMMA LiveIfUsable ==
  ASSUME IInv, NEW n \in Names, Bound(n), Usable({n})
  PROVE  /\ env[n] \in Objects /\ seq(n) = heap[env[n]] /\ seq(n) \in Seq(Elements)
         /\ Held[n] = seq(n) /\ Held[n] # None
<1>1. env[n] \in Objects /\ seq(n) = heap[env[n]] /\ seq(n) \in Seq(Elements)
  BY DEF IInv, TypeOK, Bound, Usable, seq, object
<1>2. Held[n] = seq(n)
  BY DEF Held, seq, Bound, Usable
<1> QED
  BY <1>1, <1>2, NoneAssumption

\* The call changes nothing.
LEMMA SameStep ==
  ASSUME IInv, UNCHANGED <<env, heap>>, status' \in {"running", "aborted", "undefined"}
  PROVE  IInv' /\ UNCHANGED Held
BY DEF IInv, TypeOK, Heaps, NoSharing, Bound, Held, Usable, object

\* The call leaves the variables e and the heap h.
LEMMA LeavesStep ==
  ASSUME IInv, NEW r, NEW e \in [Names -> Objects \cup {None}], NEW h \in Heaps, Apart(e),
         Leaves(r, e, h), UNCHANGED status
  PROVE  IInv' /\ call' = r /\ Held' = Sees(e, h)
<1>1. /\ call' = r /\ env' = e
      /\ heap' = [o \in Objects |-> IF \E n \in Names : e[n] = o THEN h[o] ELSE Freed]
  BY DEF Leaves
<1>2. \A o \in Objects : heap'[o] \in Seq(Elements) \cup {Freed}
  BY <1>1 DEF Heaps
<1>3. TypeOK' /\ heap' \in Heaps'
  BY <1>1, <1>2 DEF IInv, TypeOK, Heaps
<1>4. NoSharing'
  BY <1>1 DEF NoSharing, Apart, Bound
<1>5. \A n \in Names : e[n] # None => e[n] \in Objects /\ heap'[e[n]] = h[e[n]]
  BY <1>1
<1>6. Sees(env', heap') = Sees(e, h)
  BY <1>1, <1>5 DEF Sees
<1> QED
  BY <1>1, <1>3, <1>4, <1>6, HeldNext DEF IInv, Heaps

LEMMA Now ==
  ASSUME IInv
  PROVE  /\ env \in [Names -> Objects \cup {None}] /\ heap \in Heaps /\ Apart(env)
         /\ Held = Sees(env, heap)
BY HeldNow DEF IInv, TypeOK, NoSharing, Apart, Bound

\* A variable's object is changed.
LEMMA ChangeStep ==
  ASSUME IInv, NEW r, NEW n \in Names, Bound(n), NEW x \in Seq(Elements) \cup {Freed},
         Leaves(r, env, Put(heap, env[n], x)), UNCHANGED status
  PROVE  IInv' /\ call' = r /\ Held' = [Held EXCEPT ![n] = Contents(x)]
<1> DEFINE h == Put(heap, env[n], x)
<1>1. env[n] \in Objects /\ env[n] # None
  BY Now DEF Bound
<1>2. h \in Heaps /\ h[env[n]] = x /\ \A o \in Objects : o # env[n] => h[o] = heap[o]
  BY <1>1, Now DEF Put, Heaps
<1> HIDE DEF h
<1>3. IInv' /\ call' = r /\ Held' = Sees(env, h)
  BY <1>2, Now, LeavesStep DEF h
<1>4. \A m \in Names : m # n /\ env[m] # None => env[m] \in Objects /\ env[m] # env[n]
  BY Now DEF Apart
<1>5. Sees(env, h) = [Held EXCEPT ![n] = Contents(x)]
  BY <1>1, <1>2, <1>4, Now DEF Sees
<1> QED
  BY <1>3, <1>5

\* The result is a new object, and an operand's object may be changed.
LEMMA ResultStep ==
  ASSUME IInv, NEW r, NEW d \in Names, NEW x \in Seq(Elements), NEW n \in Names, Bound(n),
         NEW y \in Seq(Elements) \cup {Freed},
         Leaves(r, Put(env, d, Fresh), Put(Put(heap, Fresh, x), env[n], y)), UNCHANGED status
  PROVE  /\ IInv' /\ call' = r
         /\ Held' = Put(Put(Held, n, Contents(y)), d, x)
<1> DEFINE f == Fresh
           e == Put(env, d, f)
           h == Put(Put(heap, f, x), env[n], y)
<1>1. f \in Objects /\ f # None /\ \A m \in Names : env[m] # f
  BY FreshFacts DEF IInv
<1>2. Leaves(r, e, h)
  OBVIOUS
<1> HIDE DEF f
<1>3. env[n] \in Objects /\ env[n] # None /\ env[n] # f
  BY <1>1, Now DEF Bound
<1>4. /\ h \in Heaps /\ h[env[n]] = y /\ h[f] = x
      /\ \A o \in Objects : o # env[n] /\ o # f => h[o] = heap[o]
  BY <1>1, <1>3, Now DEF Put, Heaps
<1>5. /\ e \in [Names -> Objects \cup {None}] /\ e[d] = f
      /\ \A m \in Names : m # d => e[m] = env[m]
  BY <1>1, Now DEF Put
<1> HIDE DEF e, h
<1>6. Apart(e)
  BY <1>1, <1>5, Now DEF Apart
<1>7. IInv' /\ call' = r /\ Held' = Sees(e, h)
  BY <1>2, <1>4, <1>5, <1>6, LeavesStep
<1>8. \A m \in Names : m # n /\ env[m] # None => env[m] \in Objects /\ env[m] # env[n]
  BY Now DEF Apart
<1>9. Contents(x) = x
  BY FreedAssumption DEF Contents
<1>10. Sees(e, h) = Put(Put(Held, n, Contents(y)), d, x)
  <2>1. \A m \in Names : Sees(e, h)[m] = IF m = d THEN x ELSE IF m = n THEN Contents(y)
                                          ELSE Sees(env, heap)[m]
    BY <1>1, <1>3, <1>4, <1>5, <1>8, <1>9 DEF Sees
  <2> QED
    BY <2>1, Now DEF Sees, Put
<1> QED
  BY <1>7, <1>10

\* The result is a new object.
LEMMA NewStep ==
  ASSUME IInv, NEW r, NEW d \in Names, NEW x \in Seq(Elements), New(r, d, x), UNCHANGED status
  PROVE  IInv' /\ call' = r /\ Held' = [Held EXCEPT ![d] = x]
<1> DEFINE f == Fresh
           e == Put(env, d, f)
           h == Put(heap, f, x)
<1>1. f \in Objects /\ f # None /\ \A m \in Names : env[m] # f
  BY FreshFacts DEF IInv
<1>2. Leaves(r, e, h)
  BY DEF New, Put
<1> HIDE DEF f
<1>3. h \in Heaps /\ h[f] = x /\ \A o \in Objects : o # f => h[o] = heap[o]
  BY <1>1, Now DEF Put, Heaps
<1>4. /\ e \in [Names -> Objects \cup {None}] /\ e[d] = f
      /\ \A m \in Names : m # d => e[m] = env[m]
  BY <1>1, Now DEF Put
<1> HIDE DEF e, h
<1>5. Apart(e)
  BY <1>1, <1>4, Now DEF Apart
<1>6. IInv' /\ call' = r /\ Held' = Sees(e, h)
  BY <1>2, <1>3, <1>4, <1>5, LeavesStep
<1>7. Contents(x) = x
  BY FreedAssumption DEF Contents
<1>8. Sees(e, h) = [Held EXCEPT ![d] = x]
  <2>1. \A m \in Names : Sees(e, h)[m] = IF m = d THEN x ELSE Sees(env, heap)[m]
    BY <1>1, <1>3, <1>4, <1>7, Now DEF Sees
  <2> QED
    BY <2>1, Now DEF Sees
<1> QED
  BY <1>6, <1>8

-----------------------------------------------------------------------------
(* One call. *)

StoreStep == Store!Next \/ UNCHANGED <<Held, call>>

LEMMA StopStep ==
  ASSUME IInv, NEW how \in {"aborted", "undefined"}, Stop(how)
  PROVE  IInv' /\ StoreStep
BY SameStep DEF Stop, StoreStep

LEMMA BoundsAreNat == Bounds \subseteq Nat
BY MaxLengthAssumption DEF Bounds

LEMMA PosIs ==
  ASSUME IInv, NEW n \in Names, Bound(n), Usable({n}), NEW i \in Indices
  PROVE  At(i, seq(n)) \in Nat /\ Store!Pos(n, i) = At(i, seq(n))
<1>1. Held[n] = seq(n) /\ seq(n) \in Seq(Elements)
  BY LiveIfUsable
<1>2. Len(seq(n)) \in Nat
  BY <1>1, LenProperties
<1> QED
  BY <1>1, <1>2, BoundsAreNat DEF Indices, At, Store!Pos

LEMMA PosInBounds ==
  ASSUME NEW n \in Names, NEW i \in Bounds
  PROVE  i \in Nat /\ Store!Pos(n, i) = i
BY BoundsAreNat, EndAssumption DEF Store!Pos

LEMMA OneElement ==
  ASSUME NEW v \in Elements
  PROVE  <<v>> \in Seq(Elements) /\ Len(<<v>>) = 1 /\ <<v>>[1] = v
OBVIOUS

LEMMA WriteIs ==
  ASSUME NEW s \in Seq(Elements), NEW i \in Nat, i < Len(s), NEW v \in Elements
  PROVE  Put(s, i + 1, v) \in Seq(Elements) /\ Put(s, i + 1, v) = Store!Over(s, i, <<v>>)
<1> DEFINE t == <<v>>
<1>1. t \in Seq(Elements) /\ Len(t) = 1 /\ t[1] = v
  BY OneElement
<1> HIDE DEF t
<1>2. Len(s) \in Nat /\ DOMAIN s = 1 .. Len(s) /\ s = [x \in 1 .. Len(s) |-> s[x]]
  BY LenProperties
<1>3. i + Len(t) <= Len(s)
  BY <1>1, <1>2
<1>4. Store!Over(s, i, t) \in Seq(Elements) /\ Store!Over(s, i, t) = CopyTo(s, i, t)
  BY <1>1, <1>3, OverIs
<1>5. \A x \in 1 .. Len(s) : (i < x /\ x <= i + 1 <=> x = i + 1) /\ (i + 1) - i = 1
  BY <1>2
<1>6. CopyTo(s, i, t) = [x \in 1 .. Len(s) |-> IF x = i + 1 THEN v ELSE s[x]]
  BY <1>1, <1>2, <1>5 DEF CopyTo
<1>7. Put(s, i + 1, v) = [x \in 1 .. Len(s) |-> IF x = i + 1 THEN v ELSE s[x]]
  BY <1>2 DEF Put
<1> QED
  BY <1>4, <1>6, <1>7 DEF t

LEMMA AllocateStep ==
  ASSUME IInv, NEW d \in Names, NEW len \in Bounds, Allocate(d, len)
  PROVE  IInv' /\ StoreStep
<1> DEFINE s == [x \in 1 .. len |-> Zero]
<1>1. s \in Seq(Elements)
  <2>1. len \in Nat /\ s \in [1 .. len -> Elements]
    BY BoundsAreNat, ZeroAssumption
  <2> QED
    BY <2>1, Tabulated
<1>2. New(<<"allocate", d, len>>, d, s) /\ UNCHANGED status
  BY DEF Allocate
<1>3. Store!Allocate(d, len) <=> Held' = [Held EXCEPT ![d] = s]
  BY DEF Store!Allocate, Store!Become
<1> HIDE DEF s
<1>4. IInv' /\ call' = <<"allocate", d, len>> /\ Held' = [Held EXCEPT ![d] = s]
  BY <1>1, <1>2, NewStep
<1>5. Store!Next
  BY <1>3, <1>4 DEF Store!Next, Store!Does
<1> QED
  BY <1>4, <1>5 DEF StoreStep

LEMMA DeleteStep ==
  ASSUME IInv, NEW n \in Names, Delete(n)
  PROVE  IInv' /\ StoreStep
<1>1. CASE Stop("undefined") \/ Stop("aborted")
  BY <1>1, StopStep
<1>2. CASE Usable({n}) /\ InPlace(<<"delete", n>>, n, Freed) /\ UNCHANGED status
  <2>1. Bound(n)
    BY DEF Delete, Calls
  <2>2. Leaves(<<"delete", n>>, env, Put(heap, env[n], Freed))
    BY <1>2 DEF InPlace, Put
  <2>3. IInv' /\ call' = <<"delete", n>> /\ Held' = [Held EXCEPT ![n] = Contents(Freed)]
    BY <1>2, <2>1, <2>2, ChangeStep
  <2>4. Held[n] # None
    BY <1>2, <2>1, LiveIfUsable
  <2>5. Store!Next
    BY <2>3, <2>4
    DEF Contents, Store!Next, Store!Does, Store!Delete, Store!Live, Store!Become
  <2> QED
    BY <2>3, <2>5 DEF StoreStep
<1> QED
  BY <1>1, <1>2 DEF Delete, Outcome

LEMMA IndexReadStep ==
  ASSUME IInv, NEW n \in Names, NEW i \in Bounds, IndexRead(n, i)
  PROVE  IInv' /\ StoreStep
<1>1. CASE Stop("undefined") \/ Stop("aborted")
  BY <1>1, StopStep
<1>2. CASE /\ Usable({n}) /\ i < Len(seq(n)) /\ UNCHANGED <<env, heap, status>>
           /\ call' = <<"read", n, i, seq(n)[i + 1]>>
  <2>1. Held[n] = seq(n) /\ Held[n] # None
    BY <1>2, LiveIfUsable DEF IndexRead, Calls
  <2>2. IInv' /\ UNCHANGED Held
    BY <1>2, SameStep DEF IInv, TypeOK
  <2>3. Store!Read(n, i, seq(n)[i + 1])
    BY <1>2, <2>1, <2>2 DEF Store!Read, Store!Live
  <2>4. Store!Next
    BY <1>2, <2>3 DEF Store!Next, Store!Does
  <2> QED
    BY <2>2, <2>4 DEF StoreStep
<1> QED
  BY <1>1, <1>2 DEF IndexRead, Outcome, Returns

LEMMA SizeStep ==
  ASSUME IInv, NEW n \in Names, Size(n)
  PROVE  IInv' /\ StoreStep
<1>1. CASE Stop("undefined") \/ Stop("aborted")
  BY <1>1, StopStep
<1>2. CASE /\ Usable({n}) /\ UNCHANGED <<env, heap, status>>
           /\ call' = <<"size", n, Len(seq(n))>>
  <2>1. Held[n] = seq(n) /\ Held[n] # None
    BY <1>2, LiveIfUsable DEF Size, Calls
  <2>2. IInv' /\ UNCHANGED Held
    BY <1>2, SameStep DEF IInv, TypeOK
  <2>3. Store!Size(n, Len(seq(n)))
    BY <2>1, <2>2 DEF Store!Size, Store!Live
  <2>4. Store!Next
    BY <1>2, <2>3 DEF Store!Next, Store!Does
  <2> QED
    BY <2>2, <2>4 DEF StoreStep
<1> QED
  BY <1>1, <1>2 DEF Size, Outcome, Returns

\* A variable's own object is given the sequence x: in place.
LEMMA InPlaceStep ==
  ASSUME IInv, NEW r, NEW n \in Names, Bound(n), NEW x \in Seq(Elements),
         Leaves(r, env, Put(heap, env[n], x)), UNCHANGED status
  PROVE  IInv' /\ call' = r /\ Store!Become(n, x)
<1>1. Contents(x) = x
  BY FreedAssumption DEF Contents
<1>2. x \in Seq(Elements) \cup {Freed}
  OBVIOUS
<1>3. IInv' /\ call' = r /\ Held' = [Held EXCEPT ![n] = Contents(x)]
  BY <1>2, ChangeStep
<1> QED
  BY <1>1, <1>3 DEF Store!Become

LEMMA MutIndexWriteStep ==
  ASSUME IInv, NEW n \in Names, NEW i \in Bounds, NEW v \in Elements, MutIndexWrite(n, i, v)
  PROVE  IInv' /\ StoreStep
<1> DEFINE r == <<"write", n, n, i, v>>
<1>1. CASE Stop("undefined") \/ Stop("aborted")
  BY <1>1, StopStep
<1>2. CASE /\ Usable({n}) /\ i < Len(seq(n)) /\ UNCHANGED status
           /\ InPlace(r, n, [seq(n) EXCEPT ![i + 1] = v])
  <2>1. Bound(n)
    BY DEF MutIndexWrite, Calls
  <2>2. seq(n) \in Seq(Elements) /\ Held[n] = seq(n) /\ Held[n] # None
    BY <1>2, <2>1, LiveIfUsable
  <2> DEFINE x == Put(seq(n), i + 1, v)
  <2>3. x \in Seq(Elements) /\ x = Store!Over(seq(n), i, <<v>>)
    BY <1>2, <2>2, BoundsAreNat, WriteIs
  <2>4. Leaves(r, env, Put(heap, env[n], x))
    BY <1>2 DEF InPlace, Put
  <2> HIDE DEF x
  <2>5. IInv' /\ call' = r /\ Store!Become(n, x)
    BY <1>2, <2>1, <2>3, <2>4, InPlaceStep
  <2>6. Store!Write(n, n, i, v)
    BY <1>2, <2>2, <2>3, <2>5 DEF Store!Write, Store!Live
  <2>7. Store!Next
    BY <2>5, <2>6 DEF Store!Next, Store!Does
  <2> QED
    BY <2>5, <2>7 DEF StoreStep
<1> QED
  BY <1>1, <1>2 DEF MutIndexWrite, Outcome

\* d is n: the write is in place.
LEMMA IndexWriteStep ==
  ASSUME IInv, NEW n \in Names, NEW i \in Bounds, NEW v \in Elements, IndexWrite(n, n, i, v)
  PROVE  IInv' /\ StoreStep
<1> DEFINE r == <<"write", n, n, i, v>>
<1>1. CASE Stop("undefined") \/ Stop("aborted")
  BY <1>1, StopStep
<1>2. CASE /\ Usable({n}) /\ i < Len(seq(n)) /\ UNCHANGED status
           /\ Leaves(r, [env EXCEPT ![n] = env[n]], [heap EXCEPT ![env[n]][i + 1] = v])
  <2>1. Bound(n)
    BY DEF IndexWrite, Calls
  <2>2. seq(n) \in Seq(Elements) /\ Held[n] = seq(n) /\ Held[n] # None /\ seq(n) = heap[env[n]]
    BY <1>2, <2>1, LiveIfUsable
  <2> DEFINE x == Put(seq(n), i + 1, v)
  <2>3. x \in Seq(Elements) /\ x = Store!Over(seq(n), i, <<v>>)
    BY <1>2, <2>2, BoundsAreNat, WriteIs
  <2>4. Leaves(r, env, Put(heap, env[n], x))
    <3>1. [env EXCEPT ![n] = env[n]] = env
      BY DEF IInv, TypeOK
    <3>2. [heap EXCEPT ![env[n]][i + 1] = v] = Put(heap, env[n], x)
      BY <2>2 DEF Put
    <3> QED
      BY <1>2, <3>1, <3>2
  <2> HIDE DEF x
  <2>5. IInv' /\ call' = r /\ Store!Become(n, x)
    BY <1>2, <2>1, <2>3, <2>4, InPlaceStep
  <2>6. Store!Write(n, n, i, v)
    BY <1>2, <2>2, <2>3, <2>5 DEF Store!Write, Store!Live
  <2>7. Store!Next
    BY <2>5, <2>6 DEF Store!Next, Store!Does
  <2> QED
    BY <2>5, <2>7 DEF StoreStep
<1> QED
  BY <1>1, <1>2 DEF IndexWrite, Outcome

-----------------------------------------------------------------------------
(* Insertion, removal and concatenation. *)

LEMMA MutSeqInsertStep ==
  ASSUME IInv, NEW n \in Names, NEW i \in Bounds, NEW v \in Elements, MutSeqInsert(n, i, v)
  PROVE  IInv' /\ StoreStep
<1> DEFINE r == <<"insert", n, n, i, v>>
<1>1. CASE Stop("undefined") \/ Stop("aborted")
  BY <1>1, StopStep
<1>2. CASE /\ Usable({n}) /\ i <= Len(seq(n)) /\ UNCHANGED status
           /\ InPlace(r, n, VectorInsert(seq(n), i, <<v>>))
  <2>1. Bound(n)
    BY DEF MutSeqInsert, Calls
  <2>2. seq(n) \in Seq(Elements) /\ Held[n] = seq(n) /\ Held[n] # None
    BY <1>2, <2>1, LiveIfUsable
  <2>3. i \in Nat /\ Store!Pos(n, i) = i
    BY PosInBounds
  <2> DEFINE x == VectorInsert(seq(n), i, <<v>>)
  <2>4. x \in Seq(Elements)
    BY <1>2, <2>2, <2>3, OneElement, SpliceIs
  <2>5. x = Store!Splice(seq(n), i, <<v>>)
    BY DEF VectorInsert, Store!Splice
  <2>6. Leaves(r, env, Put(heap, env[n], x))
    BY <1>2 DEF InPlace, Put
  <2> HIDE DEF x
  <2>7. IInv' /\ call' = r /\ Store!Become(n, x)
    BY <1>2, <2>1, <2>4, <2>6, InPlaceStep
  <2>8. Store!Insert(n, n, i, v)
    BY <1>2, <2>2, <2>3, <2>5, <2>7 DEF Store!Insert, Store!Live
  <2>9. Store!Next
    BY <2>7, <2>8 DEF Store!Next, Store!Does
  <2> QED
    BY <2>7, <2>9 DEF StoreStep
<1> QED
  BY <1>1, <1>2 DEF MutSeqInsert, Outcome

LEMMA MutSeqInsertSeqStep ==
  ASSUME IInv, NEW n \in Names, NEW i \in Bounds, NEW e \in Names, MutSeqInsertSeq(n, i, e)
  PROVE  IInv' /\ StoreStep
<1> DEFINE r == <<"insert_seq", n, n, i, e>>
<1>1. CASE Stop("undefined") \/ Stop("aborted")
  BY <1>1, StopStep
<1>2. CASE /\ Usable({n, e}) /\ i <= Len(seq(n)) /\ UNCHANGED status
           /\ InPlace(r, n, VectorInsert(seq(n), i, seq(e)))
  <2>1. Bound(n) /\ Bound(e) /\ Usable({n}) /\ Usable({e})
    BY <1>2 DEF MutSeqInsertSeq, Calls, Usable
  <2>2. /\ seq(n) \in Seq(Elements) /\ Held[n] = seq(n) /\ Held[n] # None
        /\ seq(e) \in Seq(Elements) /\ Held[e] = seq(e) /\ Held[e] # None
    BY <2>1, LiveIfUsable
  <2>3. i \in Nat /\ Store!Pos(n, i) = i
    BY PosInBounds
  <2> DEFINE x == VectorInsert(seq(n), i, seq(e))
  <2>4. x \in Seq(Elements)
    BY <1>2, <2>2, <2>3, SpliceIs
  <2>5. x = Store!Splice(seq(n), i, seq(e))
    BY DEF VectorInsert, Store!Splice
  <2>6. Leaves(r, env, Put(heap, env[n], x))
    BY <1>2 DEF InPlace, Put
  <2> HIDE DEF x
  <2>7. IInv' /\ call' = r /\ Store!Become(n, x)
    BY <1>2, <2>1, <2>4, <2>6, InPlaceStep
  <2>8. Store!InsertSeq(n, n, i, e)
    BY <1>2, <2>2, <2>3, <2>5, <2>7 DEF Store!InsertSeq, Store!Live
  <2>9. Store!Next
    BY <2>7, <2>8 DEF Store!Next, Store!Does
  <2> QED
    BY <2>7, <2>9 DEF StoreStep
<1> QED
  BY <1>1, <1>2 DEF MutSeqInsertSeq, Outcome

LEMMA MutSeqRemoveStep ==
  ASSUME IInv, NEW n \in Names, NEW i \in Bounds, NEW j \in Bounds, MutSeqRemove(n, i, j)
  PROVE  IInv' /\ StoreStep
<1> DEFINE r == <<"remove", n, n, i, j>>
<1>1. CASE Stop("undefined") \/ Stop("aborted")
  BY <1>1, StopStep
<1>2. CASE /\ Usable({n}) /\ i <= j /\ j <= Len(seq(n)) /\ UNCHANGED status
           /\ InPlace(r, n, VectorErase(seq(n), i, j))
  <2>1. Bound(n)
    BY DEF MutSeqRemove, Calls
  <2>2. seq(n) \in Seq(Elements) /\ Held[n] = seq(n) /\ Held[n] # None
    BY <1>2, <2>1, LiveIfUsable
  <2>3. i \in Nat /\ Store!Pos(n, i) = i /\ j \in Nat /\ Store!Pos(n, j) = j
    BY PosInBounds
  <2>4. i <= Len(seq(n))
    BY <1>2, <2>2, <2>3, LenProperties
  <2> DEFINE x == VectorErase(seq(n), i, j)
  <2>5. x \in Seq(Elements)
    BY <1>2, <2>2, <2>3, <2>4, CutIs
  <2>6. x = Store!Cut(seq(n), i, j)
    BY DEF VectorErase, Store!Cut
  <2>7. Leaves(r, env, Put(heap, env[n], x))
    BY <1>2 DEF InPlace, Put
  <2> HIDE DEF x
  <2>8. IInv' /\ call' = r /\ Store!Become(n, x)
    BY <1>2, <2>1, <2>5, <2>7, InPlaceStep
  <2>9. Store!Remove(n, n, i, j)
    BY <1>2, <2>2, <2>3, <2>4, <2>6, <2>8 DEF Store!Remove, Store!Live
  <2>10. Store!Next
    BY <2>8, <2>9 DEF Store!Next, Store!Does
  <2> QED
    BY <2>8, <2>10 DEF StoreStep
<1> QED
  BY <1>1, <1>2 DEF MutSeqRemove, Outcome

LEMMA SeqInsertStep ==
  ASSUME IInv, NEW d \in Names, NEW n \in Names, NEW index \in Indices, NEW v \in Elements,
         SeqInsert(d, n, index, v)
  PROVE  IInv' /\ StoreStep
<1> DEFINE r == <<"insert", d, n, index, v>>
           s == seq(n)
           i == At(index, s)
           x == [k \in 1 .. Len(s) + 1 |-> IF k <= i THEN s[k]
                                           ELSE IF k = i + 1 THEN v ELSE s[k - 1]]
<1>1. CASE Stop("undefined") \/ Stop("aborted")
  BY <1>1, StopStep
<1>2. CASE Usable({n}) /\ i <= Len(s) /\ New(r, d, x) /\ UNCHANGED status
  <2>1. Bound(n)
    BY DEF SeqInsert, Calls
  <2>2. s \in Seq(Elements) /\ Held[n] = s /\ Held[n] # None
    BY <1>2, <2>1, LiveIfUsable
  <2>3. i \in Nat /\ Store!Pos(n, index) = i
    BY <1>2, <2>1, PosIs
  <2> HIDE DEF s, i
  <2>4. x \in Seq(Elements) /\ x = Store!Splice(s, i, <<v>>)
    <3> DEFINE t == <<v>>
               w == VectorInsert(s, i, t)
    <3>1. t \in Seq(Elements) /\ Len(t) = 1 /\ t[1] = v
      BY OneElement
    <3>2. w = Store!Splice(s, i, t)
      BY DEF VectorInsert, Store!Splice
    <3> HIDE DEF t
    <3>3. /\ w \in Seq(Elements)
          /\ w = [k \in 1 .. Len(s) + Len(t) |-> IF k <= i THEN s[k]
                                                  ELSE IF k <= i + Len(t) THEN t[k - i]
                                                  ELSE s[k - Len(t)]]
      <4>1. s \in Seq(Elements) /\ t \in Seq(Elements) /\ i \in Nat /\ i <= Len(s)
        BY <1>2, <2>2, <2>3, <3>1
      <4> QED
        BY <4>1, SpliceIs
    <3>4. Len(s) \in Nat
      BY <2>2, LenProperties
    <3> HIDE DEF w
    <3>5. \A k \in 1 .. Len(s) + 1 : ~(k <= i) => /\ k <= i + 1 <=> k = i + 1
                                                   /\ (i + 1) - i = 1
      BY <2>3, <3>4
    <3>6. w = x
      BY <2>3, <3>1, <3>3, <3>4, <3>5
    <3> QED
      BY <3>2, <3>3, <3>6 DEF t
  <2> HIDE DEF x
  <2>5. IInv' /\ call' = r /\ Held' = [Held EXCEPT ![d] = x]
    BY <1>2, <2>4, NewStep
  <2>6. Store!Insert(d, n, index, v)
    BY <1>2, <2>2, <2>3, <2>4, <2>5 DEF Store!Insert, Store!Live, Store!Become
  <2>7. Store!Next
    BY <2>5, <2>6 DEF Store!Next, Store!Does
  <2> QED
    BY <2>5, <2>7 DEF StoreStep
<1> QED
  BY <1>1, <1>2 DEF SeqInsert, Outcome

LEMMA SeqInsertSeqStep ==
  ASSUME IInv, NEW d \in Names, NEW n \in Names, NEW index \in Indices, NEW e \in Names,
         SeqInsertSeq(d, n, index, e)
  PROVE  IInv' /\ StoreStep
<1> DEFINE r == <<"insert_seq", d, n, index, e>>
           s == seq(n)
           t == seq(e)
           i == At(index, s)
           x == [k \in 1 .. Len(s) + Len(t) |-> IF k <= i THEN s[k]
                                                ELSE IF k <= i + Len(t) THEN t[k - i]
                                                ELSE s[k - Len(t)]]
<1>1. CASE Stop("undefined") \/ Stop("aborted")
  BY <1>1, StopStep
<1>2. CASE Usable({n, e}) /\ i <= Len(s) /\ New(r, d, x) /\ UNCHANGED status
  <2>1. Bound(n) /\ Bound(e) /\ Usable({n}) /\ Usable({e})
    BY <1>2 DEF SeqInsertSeq, Calls, Usable
  <2>2. /\ s \in Seq(Elements) /\ Held[n] = s /\ Held[n] # None
        /\ t \in Seq(Elements) /\ Held[e] = t /\ Held[e] # None
    BY <2>1, LiveIfUsable
  <2>3. i \in Nat /\ Store!Pos(n, index) = i
    BY <2>1, PosIs
  <2> HIDE DEF s, t, i
  <2>4. x \in Seq(Elements) /\ x = VectorInsert(s, i, t)
    <3>1. s \in Seq(Elements) /\ t \in Seq(Elements) /\ i \in Nat /\ i <= Len(s)
      BY <1>2, <2>2, <2>3
    <3>2. /\ VectorInsert(s, i, t) \in Seq(Elements)
          /\ VectorInsert(s, i, t) =
               [k \in 1 .. Len(s) + Len(t) |-> IF k <= i THEN s[k]
                                                ELSE IF k <= i + Len(t) THEN t[k - i]
                                                ELSE s[k - Len(t)]]
      BY <3>1, SpliceIs
    <3> QED
      BY <3>2
  <2>5. x = Store!Splice(s, i, t)
    BY <2>4 DEF VectorInsert, Store!Splice
  <2> HIDE DEF x
  <2>6. IInv' /\ call' = r /\ Held' = [Held EXCEPT ![d] = x]
    BY <1>2, <2>4, NewStep
  <2>7. Store!InsertSeq(d, n, index, e)
    BY <1>2, <2>2, <2>3, <2>5, <2>6 DEF Store!InsertSeq, Store!Live, Store!Become
  <2>8. Store!Next
    BY <2>6, <2>7 DEF Store!Next, Store!Does
  <2> QED
    BY <2>6, <2>8 DEF StoreStep
<1> QED
  BY <1>1, <1>2 DEF SeqInsertSeq, Outcome

LEMMA SeqRemoveStep ==
  ASSUME IInv, NEW d \in Names, NEW n \in Names, NEW begin \in Indices, NEW end \in Indices,
         SeqRemove(d, n, begin, end)
  PROVE  IInv' /\ StoreStep
<1> DEFINE r == <<"remove", d, n, begin, end>>
           s == seq(n)
           i == At(begin, s)
           j == At(end, s)
           x == [k \in 1 .. Len(s) + i - j |-> IF k <= i THEN s[k] ELSE s[k + j - i]]
<1>1. CASE Stop("undefined") \/ Stop("aborted")
  BY <1>1, StopStep
<1>2. CASE Usable({n}) /\ i <= Len(s) /\ j <= Len(s) /\ New(r, d, x) /\ UNCHANGED status
  <2>1. Bound(n)
    BY DEF SeqRemove, Calls
  <2>2. s \in Seq(Elements) /\ Held[n] = s /\ Held[n] # None
    BY <1>2, <2>1, LiveIfUsable
  <2>3. i \in Nat /\ Store!Pos(n, begin) = i /\ j \in Nat /\ Store!Pos(n, end) = j
    BY <1>2, <2>1, PosIs
  <2> HIDE DEF s, i, j
  <2>4. x \in Seq(Elements) /\ x = VectorErase(s, i, j)
    <3>1. s \in Seq(Elements) /\ i \in Nat /\ j \in Nat /\ i <= Len(s) /\ j <= Len(s)
      BY <1>2, <2>2, <2>3
    <3>2. /\ VectorErase(s, i, j) \in Seq(Elements)
          /\ VectorErase(s, i, j) = [k \in 1 .. Len(s) + i - j |->
                                       IF k <= i THEN s[k] ELSE s[k + j - i]]
      BY <3>1, CutIs, SMTT(30)
    <3> QED
      BY <3>2
  <2>5. x = Store!Cut(s, i, j)
    BY <2>4 DEF VectorErase, Store!Cut
  <2> HIDE DEF x
  <2>6. IInv' /\ call' = r /\ Held' = [Held EXCEPT ![d] = x]
    BY <1>2, <2>4, NewStep
  <2>7. Store!Remove(d, n, begin, end)
    BY <1>2, <2>2, <2>3, <2>5, <2>6 DEF Store!Remove, Store!Live, Store!Become
  <2>8. Store!Next
    BY <2>6, <2>7 DEF Store!Next, Store!Does
  <2> QED
    BY <2>6, <2>8 DEF StoreStep
<1> QED
  BY <1>1, <1>2 DEF SeqRemove, Outcome

-----------------------------------------------------------------------------
(* Calls that change two objects, or make two. *)

LEMMA TwoChangesStep ==
  ASSUME IInv, NEW r, NEW n \in Names, NEW x \in Names, Bound(n), Bound(x),
         NEW a \in Seq(Elements) \cup {Freed}, NEW b \in Seq(Elements) \cup {Freed},
         Leaves(r, env, Put(Put(heap, env[n], a), env[x], b)), UNCHANGED status
  PROVE  /\ IInv' /\ call' = r
         /\ Held' = Put(Put(Held, n, Contents(a)), x, Contents(b))
<1> DEFINE h == Put(Put(heap, env[n], a), env[x], b)
<1>1. env[n] \in Objects /\ env[n] # None /\ env[x] \in Objects /\ env[x] # None
  BY Now DEF Bound
<1>2. /\ h \in Heaps /\ h[env[x]] = b /\ (env[n] # env[x] => h[env[n]] = a)
      /\ \A o \in Objects : o # env[n] /\ o # env[x] => h[o] = heap[o]
  BY <1>1, Now DEF Put, Heaps
<1> HIDE DEF h
<1>3. IInv' /\ call' = r /\ Held' = Sees(env, h)
  BY <1>2, Now, LeavesStep DEF h
<1>4. /\ n # x => env[n] # env[x]
      /\ \A m \in Names : /\ m # n /\ env[m] # None => env[m] \in Objects /\ env[m] # env[n]
                          /\ m # x /\ env[m] # None => env[m] \in Objects /\ env[m] # env[x]
  BY <1>1, Now DEF Apart
<1>5. Sees(env, h) = Put(Put(Held, n, Contents(a)), x, Contents(b))
  <2>1. \A m \in Names : Sees(env, h)[m] = IF m = x THEN Contents(b) ELSE IF m = n THEN Contents(a)
                                           ELSE Sees(env, heap)[m]
    BY <1>1, <1>2, <1>4 DEF Sees
  <2> QED
    BY <2>1, Now DEF Sees, Put
<1> QED
  BY <1>3, <1>5

LEMMA TwoResultsStep ==
  ASSUME IInv, NEW r, NEW d \in Names, NEW e \in Names, d # e,
         NEW a \in Seq(Elements), NEW b \in Seq(Elements), NEW h \in Heaps,
         \A o \in Objects : o # Fresh /\ o # Fresh2 => h[o] = heap[o],
         Leaves(r, Put(Put(env, d, Fresh), e, Fresh2), Put(Put(h, Fresh, a), Fresh2, b)),
         UNCHANGED status
  PROVE  IInv' /\ call' = r /\ Held' = Put(Put(Held, d, a), e, b)
<1> DEFINE f == Fresh
           f2 == Fresh2
           v == Put(Put(env, d, f), e, f2)
           g == Put(Put(h, f, a), f2, b)
<1>1. /\ f \in Objects /\ f # None /\ \A m \in Names : env[m] # f
      /\ f2 \in Objects /\ f2 # None /\ \A m \in Names : env[m] # f2
      /\ f2 # f
  BY FreshFacts DEF IInv
<1>2. Leaves(r, v, g) /\ \A o \in Objects : o # f /\ o # f2 => h[o] = heap[o]
  OBVIOUS
<1> HIDE DEF f, f2
<1>3. /\ g \in Heaps /\ g[f] = a /\ g[f2] = b
      /\ \A o \in Objects : o # f /\ o # f2 => g[o] = heap[o]
  BY <1>1, <1>2 DEF Put, Heaps
<1>4. /\ v \in [Names -> Objects \cup {None}] /\ v[d] = f /\ v[e] = f2
      /\ \A m \in Names : m # d /\ m # e => v[m] = env[m]
  BY <1>1, Now DEF Put
<1> HIDE DEF v, g
<1>5. Apart(v)
  BY <1>1, <1>4, Now DEF Apart
<1>6. IInv' /\ call' = r /\ Held' = Sees(v, g)
  BY <1>2, <1>3, <1>4, <1>5, LeavesStep
<1>7. Contents(a) = a /\ Contents(b) = b
  BY FreedAssumption DEF Contents
<1>8. Sees(v, g) = Put(Put(Held, d, a), e, b)
  <2>1. \A m \in Names : Sees(v, g)[m] = IF m = e THEN b ELSE IF m = d THEN a
                                         ELSE Sees(env, heap)[m]
    BY <1>1, <1>3, <1>4, <1>7, Now DEF Sees
  <2> QED
    BY <2>1, Now DEF Sees, Put
<1> QED
  BY <1>6, <1>8

LEMMA MutSeqAppendStep ==
  ASSUME IInv, NEW n \in Names, NEW x \in Names, MutSeqAppend(n, x)
  PROVE  IInv' /\ StoreStep
<1> DEFINE r == <<"append", n, x>>
           size1 == Len(seq(n))
           a == CopyTo(VectorResize(seq(n), size1 + Len(seq(x))), size1, seq(x))
<1>1. CASE Stop("undefined") \/ Stop("aborted")
  BY <1>1, StopStep
<1>2. CASE /\ Usable({n, x}) /\ (env[n] # env[x] \/ seq(n) = << >>) /\ UNCHANGED status
           /\ Leaves(r, env, [heap EXCEPT ![env[n]] = a, ![env[x]] = Freed])
  <2>1. Bound(n) /\ Bound(x) /\ Usable({n}) /\ Usable({x})
    BY <1>2 DEF MutSeqAppend, Calls, Usable
  <2>2. /\ seq(n) \in Seq(Elements) /\ Held[n] = seq(n) /\ Held[n] # None
        /\ seq(x) \in Seq(Elements) /\ Held[x] = seq(x) /\ Held[x] # None
    BY <2>1, LiveIfUsable
  <2>3. a = seq(n) \o seq(x)
    BY <2>2, AppendedIs
  <2>4. a \in Seq(Elements) \cup {Freed}
    BY <2>2, <2>3, ConcatProperties
  <2>5. Leaves(r, env, Put(Put(heap, env[n], a), env[x], Freed))
    BY <1>2 DEF Put
  <2> HIDE DEF a
  <2>6. Contents(a) = a /\ Contents(Freed) = None
    BY <2>2, <2>3, ConcatProperties, FreedAssumption DEF Contents
  <2>7. /\ IInv' /\ call' = r
        /\ Held' = Put(Put(Held, n, Contents(a)), x, Contents(Freed))
    <3>1. Freed \in Seq(Elements) \cup {Freed}
      OBVIOUS
    <3> QED
      BY <1>2, <2>1, <2>4, <2>5, <3>1, TwoChangesStep
  <2>8. n # x \/ Held[n] = << >>
    BY <1>2, <2>2
  <2>9. Store!AppendTo(n, x)
    BY <2>2, <2>3, <2>6, <2>7, <2>8 DEF Store!AppendTo, Store!Live, Put
  <2>10. Store!Next
    BY <2>7, <2>9 DEF Store!Next, Store!Does
  <2> QED
    BY <2>7, <2>10 DEF StoreStep
<1> QED
  BY <1>1, <1>2 DEF MutSeqAppend, Outcome

LEMMA TakenApart ==
  ASSUME NEW s \in Seq(Elements), NEW i \in Nat, NEW j \in Nat, i <= j, j <= Len(s)
  PROVE  /\ SubSeq(s, i + 1, j) \in Seq(Elements)
         /\ SubSeq(s, i + 1, j) = Store!Slice(s, i, j)
         /\ VectorErase(s, i, j) \in Seq(Elements)
         /\ VectorErase(s, i, j) = Store!Cut(s, i, j)
<1>1. SubSeq(s, i + 1, j) \in Seq(Elements)
  BY SubSeqIs
<1>2. i <= Len(s)
  BY LenProperties
<1>3. VectorErase(s, i, j) \in Seq(Elements)
  BY <1>2, CutIs
<1> QED
  BY <1>1, <1>3 DEF Store!Slice, Store!Cut, VectorErase

LEMMA MutSeqSplitStep ==
  ASSUME IInv, NEW d \in Names, NEW n \in Names, NEW i \in Bounds, NEW j \in Bounds,
         MutSeqSplit(d, n, i, j)
  PROVE  IInv' /\ StoreStep
<1> DEFINE r == <<"split", d, n, i, j>>
           s == seq(n)
           x == SubSeq(s, i + 1, j)
           y == VectorErase(s, i, j)
<1>1. CASE Stop("undefined") \/ Stop("aborted")
  BY <1>1, StopStep
<1>2. CASE /\ Usable({n}) /\ i <= j /\ j <= Len(s) /\ UNCHANGED status
           /\ Leaves(r, [env EXCEPT ![d] = Fresh], [heap EXCEPT ![Fresh] = x, ![env[n]] = y])
  <2>1. Bound(n)
    BY DEF MutSeqSplit, Calls
  <2>2. s \in Seq(Elements) /\ Held[n] = s /\ Held[n] # None
    BY <1>2, <2>1, LiveIfUsable
  <2>3. i \in Nat /\ j \in Nat
    BY BoundsAreNat
  <2> HIDE DEF s
  <2>4. /\ x \in Seq(Elements) /\ x = Store!Slice(s, i, j)
        /\ y \in Seq(Elements) /\ y = Store!Cut(s, i, j)
    BY <1>2, <2>2, <2>3, TakenApart
  <2>5. Leaves(r, Put(env, d, Fresh), Put(Put(heap, Fresh, x), env[n], y))
    BY <1>2 DEF Put
  <2> HIDE DEF x, y
  <2>6. Contents(y) = y /\ y \in Seq(Elements) \cup {Freed}
    BY <2>4, FreedAssumption DEF Contents
  <2>7. IInv' /\ call' = r /\ Held' = Put(Put(Held, n, Contents(y)), d, x)
    BY <1>2, <2>1, <2>4, <2>5, <2>6, ResultStep
  <2>8. Store!Split(d, n, i, j)
    BY <1>2, <2>2, <2>4, <2>6, <2>7 DEF Store!Split, Store!Live, Put
  <2>9. Store!Next
    BY <2>7, <2>8 DEF Store!Next, Store!Does
  <2> QED
    BY <2>7, <2>9 DEF StoreStep
<1> QED
  BY <1>1, <1>2 DEF MutSeqSplit, Outcome

\* d is n: nothing looks at the operand again.
LEMMA SeqCopyStep ==
  ASSUME IInv, NEW n \in Names, NEW begin \in Indices, NEW end \in Indices,
         SeqCopy(n, n, begin, end)
  PROVE  IInv' /\ StoreStep
<1> DEFINE r == <<"copy", n, n, begin, end>>
           s == seq(n)
           i == At(begin, s)
           j == At(end, s)
           x == SubSeq(s, i + 1, j)
           y == VectorErase(s, i, j)
<1>1. CASE Stop("undefined") \/ Stop("aborted")
  BY <1>1, StopStep
<1>2. CASE /\ Usable({n}) /\ i <= j /\ j <= Len(s) /\ UNCHANGED status
           /\ Leaves(r, [env EXCEPT ![n] = Fresh], [heap EXCEPT ![Fresh] = x, ![env[n]] = y])
  <2>1. Bound(n)
    BY DEF SeqCopy, Calls
  <2>2. s \in Seq(Elements) /\ Held[n] = s /\ Held[n] # None
    BY <1>2, <2>1, LiveIfUsable
  <2>3. i \in Nat /\ Store!Pos(n, begin) = i /\ j \in Nat /\ Store!Pos(n, end) = j
    BY <1>2, <2>1, PosIs
  <2> HIDE DEF s, i, j
  <2>4. /\ x \in Seq(Elements) /\ x = Store!Slice(s, i, j)
        /\ y \in Seq(Elements) /\ y = Store!Cut(s, i, j)
    BY <1>2, <2>2, <2>3, TakenApart
  <2>5. Leaves(r, Put(env, n, Fresh), Put(Put(heap, Fresh, x), env[n], y))
    BY <1>2 DEF Put
  <2> HIDE DEF x, y
  <2>6. y \in Seq(Elements) \cup {Freed}
    BY <2>4
  <2>7. IInv' /\ call' = r /\ Held' = Put(Put(Held, n, Contents(y)), n, x)
    BY <1>2, <2>1, <2>4, <2>5, <2>6, ResultStep
  <2>8. Store!Copy(n, n, begin, end)
    BY <1>2, <2>2, <2>3, <2>4, <2>7 DEF Store!Copy, Store!Live, Store!Become, Put
  <2>9. Store!Next
    BY <2>7, <2>8 DEF Store!Next, Store!Does
  <2> QED
    BY <2>7, <2>9 DEF StoreStep
<1> QED
  BY <1>1, <1>2 DEF SeqCopy, Outcome

-----------------------------------------------------------------------------
(* Swaps. *)

\* What a sequence becomes when ranges of it are swapped.
WithinOf(s, i, j, k, x) ==
  IF j <= k \/ k + (j - i) <= i
  THEN x = Store!Over(Store!Over(s, i, Store!Slice(s, k, k + (j - i))), k, Store!Slice(s, i, j))
  ELSE x \in Store!Rearrangements(s)

SwapsWithin(h, o, s, i, j, k) ==
  /\ h \in Heaps /\ o \in Objects /\ s \in Seq(Elements) /\ h[o] = s
  /\ i \in Nat /\ j \in Nat /\ k \in Nat
  /\ i <= j /\ j <= Len(s) /\ k + (j - i) <= Len(s)

LEMMA WithinIs ==
  ASSUME NEW h, NEW o, NEW s, NEW i, NEW j, NEW k, SwapsWithin(h, o, s, i, j, k)
  PROVE  \E x \in Seq(Elements) :
           WithinOf(s, i, j, k, x) /\ SwapRanges(h, o, i, o, k, j - i) = Put(h, o, x)
<1> DEFINE m == j - i
<1>0. /\ h \in Heaps /\ o \in Objects /\ s \in Seq(Elements) /\ h[o] = s
      /\ i \in Nat /\ j \in Nat /\ k \in Nat
  BY DEF SwapsWithin
<1>1. m \in Nat /\ i + m = j /\ i + m <= Len(s) /\ k + m <= Len(s) /\ k + (j - i) = k + m
  BY LenProperties DEF SwapsWithin
<1> HIDE DEF m
<1>r. Ranges(Elements, s, i, s, k, m)
  BY <1>0, <1>1 DEF Ranges
<1>2. /\ i + m <= k \/ k + m <= i =>
               SwapRanges(h, o, i, o, k, m) = Put(h, o, Crossed(s, i, k, m))
      /\ \E g \in Shuffles(s) : SwapRanges(h, o, i, o, k, m) = Put(h, o, Permuted(s, g))
  <2>1. Ranges(Elements, h[o], i, h[o], k, m)
    BY <1>0, <1>r
  <2>2. /\ i + m <= k \/ k + m <= i =>
               SwapRanges(h, o, i, o, k, m) = Put(h, o, Crossed(h[o], i, k, m))
        /\ \E g \in Shuffles(h[o]) : SwapRanges(h, o, i, o, k, m) = Put(h, o, Permuted(h[o], g))
    <3>1. h \in Heaps /\ o \in Objects
      BY <1>0
    <3> DEFINE z == h[o]
    <3>2. z = h[o] /\ Ranges(Elements, z, i, z, k, m)
      BY <2>1
    <3> HIDE DEF z
    <3> QED
      BY <3>1, <3>2, SwapRangesWithin
  <2> QED
    BY <1>0, <2>2
<1>3. CASE i + m <= k \/ k + m <= i
  <2>1. /\ Crossed(s, i, k, m) \in Seq(Elements)
        /\ Crossed(s, i, k, m) = Store!Over(Store!Over(s, i, Store!Slice(s, k, k + m)), k,
                                            Store!Slice(s, i, i + m))
    BY <1>r, <1>3, CrossedIs
  <2>2. WithinOf(s, i, j, k, Crossed(s, i, k, m))
    BY <1>0, <1>1, <1>3, <2>1 DEF WithinOf
  <2> QED
    BY <1>2, <1>3, <2>1, <2>2 DEF m
<1>4. CASE ~(i + m <= k \/ k + m <= i)
  <2>1. PICK g \in Shuffles(s) : SwapRanges(h, o, i, o, k, m) = Put(h, o, Permuted(s, g))
    BY <1>2
  <2>2. Permuted(s, g) \in Seq(Elements) /\ Permuted(s, g) \in Store!Rearrangements(s)
    BY <1>0, PermutedIs
  <2>3. WithinOf(s, i, j, k, Permuted(s, g))
    BY <1>0, <1>1, <1>4, <2>2 DEF WithinOf
  <2> QED
    BY <2>1, <2>2, <2>3 DEF m
<1> QED
  BY <1>3, <1>4

\* What two sequences become when ranges of them are swapped.
SwapsBetween(h, o, p, s, t, i, j, k) ==
  /\ h \in Heaps /\ o \in Objects /\ p \in Objects /\ o # p
  /\ s \in Seq(Elements) /\ h[o] = s /\ t \in Seq(Elements) /\ h[p] = t
  /\ i \in Nat /\ j \in Nat /\ k \in Nat
  /\ i <= j /\ j <= Len(s) /\ k + (j - i) <= Len(t)

LEMMA BetweenIs ==
  ASSUME NEW h, NEW o, NEW p, NEW s, NEW t, NEW i, NEW j, NEW k,
         SwapsBetween(h, o, p, s, t, i, j, k),
         NEW a, a = Store!Over(s, i, Store!Slice(t, k, k + (j - i))),
         NEW b, b = Store!Over(t, k, Store!Slice(s, i, j))
  PROVE  /\ a \in Seq(Elements) /\ b \in Seq(Elements)
         /\ SwapRanges(h, o, i, p, k, j - i) = Put(Put(h, o, a), p, b)
<1> DEFINE m == j - i
<1>0. /\ h \in Heaps /\ o \in Objects /\ p \in Objects /\ o # p
      /\ s \in Seq(Elements) /\ h[o] = s /\ t \in Seq(Elements) /\ h[p] = t
      /\ i \in Nat /\ j \in Nat /\ k \in Nat
  BY DEF SwapsBetween
<1>1. m \in Nat /\ i + m = j /\ i + m <= Len(s) /\ k + m <= Len(t) /\ k + (j - i) = k + m
  BY LenProperties DEF SwapsBetween
<1>2. m = j - i
  OBVIOUS
<1> HIDE DEF m
<1>r. Ranges(Elements, s, i, t, k, m) /\ Ranges(Elements, t, k, s, i, m)
  BY <1>0, <1>1 DEF Ranges
<1>3. SwapRanges(h, o, i, p, k, m) = Put(Put(h, o, Mixed(s, i, t, k, m)), p, Mixed(t, k, s, i, m))
  <2>1. Ranges(Elements, h[o], i, h[p], k, m)
    BY <1>0, <1>r
  <2>2. SwapRanges(h, o, i, p, k, m)
          = Put(Put(h, o, Mixed(h[o], i, h[p], k, m)), p, Mixed(h[p], k, h[o], i, m))
    BY <1>0, <2>1, SwapRangesApart
  <2> QED
    BY <1>0, <2>2
<1>4. Mixed(s, i, t, k, m) \in Seq(Elements) /\ Mixed(s, i, t, k, m) = a
  <2>1. /\ Mixed(s, i, t, k, m) \in Seq(Elements)
        /\ Mixed(s, i, t, k, m) = Store!Over(s, i, Store!Slice(t, k, k + m))
    BY <1>r, MixedIs
  <2> QED
    BY <1>1, <2>1
<1>5. Mixed(t, k, s, i, m) \in Seq(Elements) /\ Mixed(t, k, s, i, m) = b
  <2>1. /\ Mixed(t, k, s, i, m) \in Seq(Elements)
        /\ Mixed(t, k, s, i, m) = Store!Over(t, k, Store!Slice(s, i, i + m))
    BY <1>r, MixedIs
  <2> QED
    BY <1>1, <2>1
<1> QED
  BY <1>2, <1>3, <1>4, <1>5

\* An object's ranges are swapped in place.
LEMMA InPlaceSwapStep ==
  ASSUME IInv, NEW n \in Names, NEW i \in Bounds, NEW j \in Bounds, NEW k \in Bounds,
         Bound(n), Usable({n}), SwapAsserts(i, j, k, seq(n)), j <= Len(seq(n)),
         Leaves(<<"swap_within", n, n, i, j, k>>, env,
                SwapRanges(heap, env[n], i, env[n], k, j - i)), UNCHANGED status
  PROVE  IInv' /\ StoreStep
<1> DEFINE r == <<"swap_within", n, n, i, j, k>>
           s == seq(n)
<1>1. /\ env[n] \in Objects /\ heap[env[n]] = s /\ s \in Seq(Elements)
      /\ Held[n] = s /\ Held[n] # None
  BY LiveIfUsable
<1>2. /\ i \in Nat /\ Store!Pos(n, i) = i /\ j \in Nat /\ Store!Pos(n, j) = j
      /\ k \in Nat /\ Store!Pos(n, k) = k
  BY PosInBounds
<1>3. i <= j /\ j <= Len(s) /\ k + (j - i) <= Len(s) /\ heap \in Heaps
  BY Now DEF SwapAsserts
<1> HIDE DEF s
<1>4. PICK x \in Seq(Elements) :
        /\ WithinOf(s, i, j, k, x)
        /\ SwapRanges(heap, env[n], i, env[n], k, j - i) = Put(heap, env[n], x)
  <2>1. SwapsWithin(heap, env[n], s, i, j, k)
    BY <1>1, <1>2, <1>3 DEF SwapsWithin
  <2> QED
    BY <2>1, WithinIs
<1>5. IInv' /\ call' = r /\ Store!Become(n, x)
  BY <1>4, InPlaceStep
<1>6. Store!SwapWithin(n, n, i, j, k)
  <2>1. Store!Live(n) /\ Store!Fits(n, i, j, n, k)
    BY <1>1, <1>3 DEF Store!Live, Store!Fits
  <2>2. IF j <= k \/ k + (j - i) <= i
        THEN Store!Become(n, Store!Over(Store!Exchanged(n, i, j, n, k), k,
                                        Store!Slice(Held[n], i, j)))
        ELSE \E w \in Store!Rearrangements(Held[n]) : Store!Become(n, w)
    BY <1>1, <1>4, <1>5 DEF WithinOf, Store!Exchanged
  <2> QED
    BY <1>2, <2>1, <2>2 DEF Store!SwapWithin
<1>7. Store!Next
  BY <1>5, <1>6 DEF Store!Next, Store!Does
<1> QED
  BY <1>5, <1>7 DEF StoreStep

LEMMA MutSeqSwapWithinStep ==
  ASSUME IInv, NEW n \in Names, NEW i \in Bounds, NEW j \in Bounds, NEW k \in Bounds,
         MutSeqSwapWithin(n, i, j, k)
  PROVE  IInv' /\ StoreStep
<1>1. CASE Stop("undefined") \/ Stop("aborted")
  BY <1>1, StopStep
<1>2. CASE /\ Usable({n}) /\ SwapAsserts(i, j, k, seq(n)) /\ j <= Len(seq(n)) /\ UNCHANGED status
           /\ Leaves(<<"swap_within", n, n, i, j, k>>, env,
                     SwapRanges(heap, env[n], i, env[n], k, j - i))
  <2>1. Bound(n)
    BY DEF MutSeqSwapWithin, Calls
  <2> QED
    BY <1>2, <2>1, InPlaceSwapStep
<1> QED
  BY <1>1, <1>2 DEF MutSeqSwapWithin, Outcome

LEMMA MutSeqSwapStep ==
  ASSUME IInv, NEW n \in Names, NEW x \in Names, NEW i \in Bounds, NEW j \in Bounds,
         NEW k \in Bounds, MutSeqSwap(n, i, j, x, k)
  PROVE  IInv' /\ StoreStep
<1> DEFINE s == seq(n)
           t == seq(x)
           r == IF n = x THEN <<"swap_within", n, n, i, j, k>>
                ELSE <<"swap", n, x, n, i, j, x, k>>
<1>1. CASE Stop("undefined") \/ Stop("aborted")
  BY <1>1, StopStep
<1>2. CASE /\ Usable({n, x}) /\ SwapAsserts(i, j, k, t) /\ j <= Len(s) /\ UNCHANGED status
           /\ Leaves(r, env, SwapRanges(heap, env[n], i, env[x], k, j - i))
  <2>1. Bound(n) /\ Bound(x) /\ Usable({n}) /\ Usable({x})
    BY <1>2 DEF MutSeqSwap, Calls, Usable
  <2>2. CASE n = x
    BY <1>2, <2>1, <2>2, InPlaceSwapStep
  <2>3. CASE n # x
    <3>1. /\ env[n] \in Objects /\ heap[env[n]] = s /\ s \in Seq(Elements)
          /\ env[x] \in Objects /\ heap[env[x]] = t /\ t \in Seq(Elements)
          /\ Held[n] = s /\ Held[n] # None /\ Held[x] = t /\ Held[x] # None
      BY <2>1, LiveIfUsable
    <3>2. env[n] # env[x]
      BY <2>1, <2>3 DEF IInv, NoSharing
    <3>3. /\ i \in Nat /\ Store!Pos(n, i) = i /\ j \in Nat /\ Store!Pos(n, j) = j
          /\ k \in Nat /\ Store!Pos(x, k) = k
      BY PosInBounds
    <3>4. i <= j /\ j <= Len(s) /\ k + (j - i) <= Len(t) /\ heap \in Heaps
      BY <1>2, Now DEF SwapAsserts
    <3> DEFINE a == Store!Over(s, i, Store!Slice(t, k, k + (j - i)))
               b == Store!Over(t, k, Store!Slice(s, i, j))
    <3>5. a = Store!Exchanged(n, i, j, x, k) /\ b = Store!Over(Held[x], k, Store!Slice(Held[n], i, j))
      BY <3>1 DEF Store!Exchanged
    <3> HIDE DEF s, t
    <3>6. /\ a \in Seq(Elements) /\ b \in Seq(Elements)
          /\ SwapRanges(heap, env[n], i, env[x], k, j - i) = Put(Put(heap, env[n], a), env[x], b)
      <4>1. SwapsBetween(heap, env[n], env[x], s, t, i, j, k)
        BY <3>1, <3>2, <3>3, <3>4 DEF SwapsBetween
      <4> QED
        BY <4>1, BetweenIs
    <3> HIDE DEF a, b
    <3>7. r = <<"swap", n, x, n, i, j, x, k>>
      BY <2>3
    <3>8. Contents(a) = a /\ Contents(b) = b
      BY <3>6, FreedAssumption DEF Contents
    <3>9. IInv' /\ call' = r /\ Held' = Put(Put(Held, n, Contents(a)), x, Contents(b))
      <4>1. a \in Seq(Elements) \cup {Freed} /\ b \in Seq(Elements) \cup {Freed}
        BY <3>6
      <4>2. Leaves(r, env, Put(Put(heap, env[n], a), env[x], b)) /\ UNCHANGED status
        BY <1>2, <3>6
      <4> HIDE DEF r
      <4> QED
        BY <2>1, <4>1, <4>2, TwoChangesStep
    <3>10. Store!Swap(n, x, n, i, j, x, k)
      <4>1. Store!Live(n) /\ Store!Live(x) /\ Store!Fits(n, i, j, x, k)
        BY <3>1, <3>4 DEF Store!Live, Store!Fits
      <4> QED
        BY <3>3, <3>5, <3>8, <3>9, <4>1 DEF Store!Swap, Put
    <3>11. Store!Next
      BY <3>7, <3>9, <3>10 DEF Store!Next, Store!Does
    <3> QED
      BY <3>9, <3>11 DEF StoreStep
  <2> QED
    BY <2>2, <2>3
<1> QED
  BY <1>1, <1>2 DEF MutSeqSwap, Outcome

LEMMA SeqSwapWithinStep ==
  ASSUME IInv, NEW d \in Names, NEW n \in Names, NEW from_begin \in Indices,
         NEW from_end \in Indices, NEW to_begin \in Indices,
         SeqSwapWithin(d, n, from_begin, from_end, to_begin)
  PROVE  IInv' /\ StoreStep
<1> DEFINE s == seq(n)
           i == At(from_begin, s)
           j == At(from_end, s)
           k == At(to_begin, s)
           r == <<"swap_within", d, n, from_begin, from_end, to_begin>>
           f == Fresh
           h == Put(heap, f, s)
<1>1. CASE Stop("undefined") \/ Stop("aborted")
  BY <1>1, StopStep
<1>2. CASE /\ Usable({n}) /\ SwapAsserts(i, j, k, s) /\ j <= Len(s) /\ UNCHANGED status
           /\ Leaves(r, [env EXCEPT ![d] = Fresh],
                     SwapRanges([heap EXCEPT ![Fresh] = s], Fresh, i, Fresh, k, j - i))
  <2>1. Bound(n)
    BY DEF SeqSwapWithin, Calls
  <2>2. s \in Seq(Elements) /\ Held[n] = s /\ Held[n] # None
    BY <1>2, <2>1, LiveIfUsable
  <2>3. /\ i \in Nat /\ Store!Pos(n, from_begin) = i /\ j \in Nat /\ Store!Pos(n, from_end) = j
        /\ k \in Nat /\ Store!Pos(n, to_begin) = k
    BY <1>2, <2>1, PosIs
  <2>4. i <= j /\ j <= Len(s) /\ k + (j - i) <= Len(s)
    BY <1>2 DEF SwapAsserts
  <2>5. Leaves(r, Put(env, d, f), SwapRanges(h, f, i, f, k, j - i))
    BY <1>2 DEF Put
  <2>6. f \in Objects
    BY FreshFacts DEF IInv
  <2> HIDE DEF s, i, j, k, f
  <2>7. h \in Heaps /\ h[f] = s
    BY <2>2, <2>6, Now DEF Put, Heaps
  <2>8. PICK x \in Seq(Elements) :
          WithinOf(s, i, j, k, x) /\ SwapRanges(h, f, i, f, k, j - i) = Put(h, f, x)
    <3> HIDE DEF h
    <3>1. SwapsWithin(h, f, s, i, j, k)
      BY <2>2, <2>3, <2>4, <2>6, <2>7 DEF SwapsWithin
    <3> QED
      BY <3>1, WithinIs
  <2>9. Put(h, f, x) = Put(heap, f, x)
    BY <2>6, Now DEF Put, Heaps
  <2>10. New(r, d, x)
    BY <2>5, <2>8, <2>9 DEF New, Put, f
  <2>11. IInv' /\ call' = r /\ Held' = [Held EXCEPT ![d] = x]
    BY <1>2, <2>10, NewStep
  <2>12. Store!SwapWithin(d, n, from_begin, from_end, to_begin)
    <3>1. Store!Live(n) /\ Store!Fits(n, i, j, n, k)
      BY <2>2, <2>4 DEF Store!Live, Store!Fits
    <3>2. Store!Become(d, x)
      BY <2>11 DEF Store!Become
    <3>3. IF j <= k \/ k + (j - i) <= i
          THEN Store!Become(d, Store!Over(Store!Exchanged(n, i, j, n, k), k,
                                          Store!Slice(Held[n], i, j)))
          ELSE \E w \in Store!Rearrangements(Held[n]) : Store!Become(d, w)
      BY <2>2, <2>8, <3>2 DEF WithinOf, Store!Exchanged
    <3> QED
      BY <2>3, <3>1, <3>3 DEF Store!SwapWithin
  <2>13. Store!Next
    BY <2>11, <2>12 DEF Store!Next, Store!Does
  <2> QED
    BY <2>11, <2>13 DEF StoreStep
<1> QED
  BY <1>1, <1>2 DEF SeqSwapWithin, Outcome

LEMMA SeqSwapStep ==
  ASSUME IInv, NEW d \in Names, NEW e \in Names, NEW n \in Names, NEW x \in Names,
         NEW from \in Indices, NEW to \in Indices, NEW from2 \in Indices,
         SeqSwap(d, e, n, from, to, x, from2)
  PROVE  IInv' /\ StoreStep
<1> DEFINE s == seq(n)
           t == seq(x)
           i == At(from, s)
           j == At(to, s)
           k == At(from2, t)
           r == <<"swap", d, e, n, from, to, x, from2>>
           f == Fresh
           f2 == Fresh2
           h == Put(Put(heap, f, s), f2, t)
<1>1. CASE Stop("undefined") \/ Stop("aborted")
  BY <1>1, StopStep
<1>2. CASE /\ Usable({n, x}) /\ SwapAsserts(i, j, k, t) /\ j <= Len(s) /\ UNCHANGED status
           /\ Leaves(r, [env EXCEPT ![d] = Fresh, ![e] = Fresh2],
                     SwapRanges([heap EXCEPT ![Fresh] = s, ![Fresh2] = t],
                                Fresh, i, Fresh2, k, j - i))
  <2>1. Bound(n) /\ Bound(x) /\ Usable({n}) /\ Usable({x}) /\ d # e
    BY <1>2 DEF SeqSwap, Calls, Usable
  <2>2. /\ s \in Seq(Elements) /\ Held[n] = s /\ Held[n] # None
        /\ t \in Seq(Elements) /\ Held[x] = t /\ Held[x] # None
    BY <2>1, LiveIfUsable
  <2>3. /\ i \in Nat /\ Store!Pos(n, from) = i /\ j \in Nat /\ Store!Pos(n, to) = j
        /\ k \in Nat /\ Store!Pos(x, from2) = k
    BY <2>1, PosIs
  <2>4. i <= j /\ j <= Len(s) /\ k + (j - i) <= Len(t)
    BY <1>2 DEF SwapAsserts
  <2>5. Leaves(r, Put(Put(env, d, f), e, f2), SwapRanges(h, f, i, f2, k, j - i))
    BY <1>2 DEF Put
  <2>6. f \in Objects /\ f2 \in Objects /\ f # f2
    BY FreshFacts DEF IInv
  <2> DEFINE a == Store!Over(s, i, Store!Slice(t, k, k + (j - i)))
             b == Store!Over(t, k, Store!Slice(s, i, j))
  <2> HIDE DEF s, t, i, j, k, f, f2
  <2>7. /\ h \in Heaps /\ h[f] = s /\ h[f2] = t
        /\ \A o \in Objects : o # f /\ o # f2 => h[o] = heap[o]
    BY <2>2, <2>6, Now DEF Put, Heaps
  <2> HIDE DEF h
  <2>8. /\ a \in Seq(Elements) /\ b \in Seq(Elements)
        /\ SwapRanges(h, f, i, f2, k, j - i) = Put(Put(h, f, a), f2, b)
    <3>1. SwapsBetween(h, f, f2, s, t, i, j, k)
      BY <2>2, <2>3, <2>4, <2>6, <2>7 DEF SwapsBetween
    <3> QED
      BY <3>1, BetweenIs
  <2>9. a = Store!Exchanged(n, i, j, x, k) /\ b = Store!Over(Held[x], k, Store!Slice(Held[n], i, j))
    BY <2>2 DEF Store!Exchanged
  <2> HIDE DEF a, b, r
  <2>10. IInv' /\ call' = r /\ Held' = Put(Put(Held, d, a), e, b)
    <3>1. Leaves(r, Put(Put(env, d, f), e, f2), Put(Put(h, f, a), f2, b)) /\ UNCHANGED status
      BY <1>2, <2>5, <2>8
    <3> QED
      BY <2>1, <2>7, <2>8, <3>1, TwoResultsStep DEF f, f2
  <2>11. Store!Swap(d, e, n, from, to, x, from2)
    <3>1. Store!Live(n) /\ Store!Live(x) /\ Store!Fits(n, i, j, x, k)
      BY <2>2, <2>4 DEF Store!Live, Store!Fits
    <3> QED
      BY <2>3, <2>9, <2>10, <3>1 DEF Store!Swap, Put
  <2>12. Store!Next
    BY <2>10, <2>11 DEF Store!Next, Store!Does, r
  <2> QED
    BY <2>10, <2>12 DEF StoreStep
<1> QED
  BY <1>1, <1>2 DEF SeqSwap, Outcome

-----------------------------------------------------------------------------
(* The theorems. *)

LEMMA CommonStep ==
  ASSUME IInv, NEW n \in Names, Common(n)
  PROVE  IInv' /\ StoreStep
BY AllocateStep, IndexReadStep, SizeStep, DeleteStep DEF Common

LEMMA MutOpStep ==
  ASSUME IInv, NEW n \in Names, MutOp(n)
  PROVE  IInv' /\ StoreStep
<1>1. ASSUME NEW i \in Bounds, NEW v \in Elements, MutIndexWrite(n, i, v) \/ MutSeqInsert(n, i, v)
      PROVE  IInv' /\ StoreStep
  BY <1>1, MutIndexWriteStep, MutSeqInsertStep
<1>2. ASSUME NEW i \in Bounds, NEW x \in Names, MutSeqInsertSeq(n, i, x)
      PROVE  IInv' /\ StoreStep
  BY <1>2, MutSeqInsertSeqStep
<1>3. ASSUME NEW x \in Names, MutSeqAppend(n, x)
      PROVE  IInv' /\ StoreStep
  BY <1>3, MutSeqAppendStep
<1>4. ASSUME NEW i \in Bounds, NEW j \in Bounds, MutSeqRemove(n, i, j)
      PROVE  IInv' /\ StoreStep
  BY <1>4, MutSeqRemoveStep
<1>5. ASSUME NEW i \in Bounds, NEW j \in Bounds, NEW d \in Names, MutSeqSplit(d, n, i, j)
      PROVE  IInv' /\ StoreStep
  BY <1>5, MutSeqSplitStep
<1>6. ASSUME NEW i \in Bounds, NEW j \in Bounds, NEW k \in Bounds, MutSeqSwapWithin(n, i, j, k)
      PROVE  IInv' /\ StoreStep
  BY <1>6, MutSeqSwapWithinStep
<1>7. ASSUME NEW i \in Bounds, NEW j \in Bounds, NEW k \in Bounds, NEW x \in Names,
             MutSeqSwap(n, i, j, x, k)
      PROVE  IInv' /\ StoreStep
  BY <1>7, MutSeqSwapStep
<1> QED
  BY <1>1, <1>2, <1>3, <1>4, <1>5, <1>6, <1>7 DEF MutOp

LEMMA SSAOpStep ==
  ASSUME DestroysLinear, IInv, NEW n \in Names, SSAOp(n)
  PROVE  IInv' /\ StoreStep
<1>0. \A op, x : x \in Names => Targets(op, x) \subseteq Names
  BY DEF Targets
<1>1. ASSUME NEW i \in Bounds, NEW v \in Elements, NEW d \in Targets("write", n),
             IndexWrite(d, n, i, v)
      PROVE  IInv' /\ StoreStep
  <2>1. d = n
    BY <1>1 DEF IndexWrite, Calls, DestroysLinear, Targets
  <2> QED
    BY <1>1, <2>1, IndexWriteStep
<1>2. ASSUME NEW i \in Indices, NEW v \in Elements, NEW d \in Targets("insert", n),
             SeqInsert(d, n, i, v)
      PROVE  IInv' /\ StoreStep
  BY <1>0, <1>2, SeqInsertStep
<1>3. ASSUME NEW i \in Indices, NEW e \in Names, NEW d \in Targets("insert_seq", n),
             SeqInsertSeq(d, n, i, e)
      PROVE  IInv' /\ StoreStep
  BY <1>0, <1>3, SeqInsertSeqStep
<1>4. ASSUME NEW i \in Indices, NEW j \in Indices, NEW d \in Targets("remove", n),
             SeqRemove(d, n, i, j)
      PROVE  IInv' /\ StoreStep
  BY <1>0, <1>4, SeqRemoveStep
<1>5. ASSUME NEW i \in Indices, NEW j \in Indices, NEW d \in Targets("copy", n),
             SeqCopy(d, n, i, j)
      PROVE  IInv' /\ StoreStep
  <2>1. d = n
    BY <1>5 DEF SeqCopy, Calls, DestroysLinear, Targets
  <2> QED
    BY <1>5, <2>1, SeqCopyStep
<1>6. ASSUME NEW i \in Indices, NEW j \in Indices, NEW k \in Indices,
             NEW d \in Targets("swap_within", n), SeqSwapWithin(d, n, i, j, k)
      PROVE  IInv' /\ StoreStep
  BY <1>0, <1>6, SeqSwapWithinStep
<1>7. ASSUME NEW i \in Indices, NEW j \in Indices, NEW k \in Indices, NEW x \in Names,
             NEW d \in Targets("swap", n), NEW e \in Targets("swap", x),
             SeqSwap(d, e, n, i, j, x, k)
      PROVE  IInv' /\ StoreStep
  BY <1>0, <1>7, SeqSwapStep
<1> QED
  BY <1>1, <1>2, <1>3, <1>4, <1>5, <1>6, <1>7 DEF SSAOp

LEMMA NextStep ==
  ASSUME DestroysLinear, IInv, Next
  PROVE  IInv' /\ StoreStep
<1>1. CASE Ended
  <2>1. UNCHANGED <<env, heap, call>> /\ status' \in {"running", "aborted", "undefined"}
    BY <1>1 DEF Ended, vars, IInv, TypeOK
  <2> QED
    BY <2>1, SameStep DEF StoreStep
<1>2. CASE \E n \in Names : Common(n) \/ MutOp(n) \/ SSAOp(n)
  BY <1>2, CommonStep, MutOpStep, SSAOpStep
<1> QED
  BY <1>1, <1>2 DEF Next

LEMMA InitStep ==
  ASSUME Init
  PROVE  IInv /\ Store!Init
<1>1. IInv
  BY DEF Init, IInv, TypeOK, Heaps, NoSharing, Bound
<1>2. Held = [n \in Names |-> None]
  BY DEF Init, Held, Bound
<1> QED
  BY <1>1, <1>2 DEF Init, Store!Init

LEMMA Invariance ==
  ASSUME DestroysLinear
  PROVE  Spec => []IInv
<1>1. Init => IInv
  BY InitStep
<1>2. IInv /\ [Next]_vars => IInv'
  <2> SUFFICES ASSUME IInv, [Next]_vars
               PROVE  IInv'
    OBVIOUS
  <2>1. CASE Next
    BY <2>1, NextStep
  <2>2. CASE UNCHANGED vars
    BY <2>2, SameStep DEF vars, IInv, TypeOK
  <2> QED
    BY <2>1, <2>2
<1> QED
  BY <1>1, <1>2, PTL DEF Spec

\* Variables point to objects, and objects that were not deleted hold sequences of
\* elements, whatever the runtime library's operations on sequences are called on.
THEOREM TypeCorrect ==
  ASSUME DestroysLinear
  PROVE  Spec => []TypeOK
<1>1. IInv => TypeOK
  BY DEF IInv
<1> QED
  BY <1>1, Invariance, PTL

\* No two variables share a sequence.
THEOREM NothingIsShared ==
  ASSUME DestroysLinear
  PROVE  Spec => []NoSharing
<1>1. IInv => NoSharing
  BY DEF IInv
<1> QED
  BY <1>1, Invariance, PTL

\* Each operation of the runtime library on sequences, the exchanges of ranges of any
\* length included, does to the contents what its name says, and leaves every other
\* variable what it holds.
THEOREM StoreIsImplemented ==
  ASSUME DestroysLinear
  PROVE  Spec => ImplementsStore
<1>1. Init => Store!Init
  BY InitStep
<1>2. IInv /\ [Next]_vars => [Store!Next]_<<Held, call>>
  <2> SUFFICES ASSUME IInv, [Next]_vars
               PROVE  [Store!Next]_<<Held, call>>
    OBVIOUS
  <2>1. CASE Next
    BY <2>1, NextStep DEF StoreStep
  <2>2. CASE UNCHANGED vars
    BY <2>2, SameStep DEF vars, IInv, TypeOK
  <2> QED
    BY <2>1, <2>2
<1> QED
  BY <1>1, <1>2, Invariance, PTL DEF Spec, ImplementsStore, Store!Spec
=============================================================================
