------------------------- MODULE PostProcessProofs -------------------------
(***************************************************************************)
(* Proofs about post_process for any number of threads, any outputs of the *)
(* network, any grid and any limits.                                       *)
(*                                                                         *)
(* What holds of a thread's locals depends on its place.  In the sort the  *)
(* array is a permutation of the candidates in which two elements in the   *)
(* wrong order lie in a common segment that is still to be sorted; while a *)
(* segment is partitioned that is true of the array with the pivot in the  *)
(* hole.  In nms the positions that are done have suppressed all they      *)
(* overlap, and whatever is suppressed has such a position before it.      *)
(*                                                                         *)
(* The n-th cell and the r-th survivor are found by counting those before  *)
(* them, so the first lemmas are about ranks in finite ordered sets.       *)
(***************************************************************************)
EXTENDS PostProcess, FiniteSetTheorems, SequenceTheorems, TLAPS

----------------------------------------------------------------------------
(* Counting in a finite set that is strictly and totally ordered.          *)

Rank(K, R, c) == Cardinality({d \in K : <<d, c>> \in R})

StrictOrder(K, R) ==
  /\ \A a \in K : <<a, a>> \notin R
  /\ \A a, b, c \in K : <<a, b>> \in R /\ <<b, c>> \in R => <<a, c>> \in R
  /\ \A a, b \in K : a = b \/ <<a, b>> \in R \/ <<b, a>> \in R

\* Every rank below the cardinality is the rank of exactly one element.
LEMMA RankEnumerates ==
  ASSUME NEW K, IsFiniteSet(K), NEW R, StrictOrder(K, R)
  PROVE  /\ \A c \in K : Rank(K, R, c) \in 0 .. (Cardinality(K) - 1)
         /\ \A a, b \in K : <<a, b>> \in R <=> Rank(K, R, a) < Rank(K, R, b)
         /\ \A a, b \in K : Rank(K, R, a) = Rank(K, R, b) => a = b
         /\ \A n \in 1 .. Cardinality(K) : \E c \in K : Rank(K, R, c) = n - 1
<1> DEFINE B(c) == {d \in K : <<d, c>> \in R}
           N == Cardinality(K)
<1>1. N \in Nat
  BY FS_CardinalityType
<1>2. ASSUME NEW c \in K
      PROVE  IsFiniteSet(B(c)) /\ Cardinality(B(c)) \in 0 .. (N - 1)
  <2>1. B(c) \in SUBSET K /\ c \notin B(c)
    BY DEF StrictOrder
  <2>2. IsFiniteSet(B(c)) /\ Cardinality(B(c)) <= N /\ Cardinality(B(c)) # N
    BY <2>1, FS_Subset
  <2>3. Cardinality(B(c)) \in Nat
    BY <2>2, FS_CardinalityType
  <2> QED
    BY <1>1, <2>2, <2>3
<1>3. ASSUME NEW a \in K, NEW b \in K, <<a, b>> \in R
      PROVE  Cardinality(B(a)) < Cardinality(B(b))
  <2>1. B(a) \in SUBSET B(b)
    BY <1>3 DEF StrictOrder
  <2>2. a \in B(b) /\ a \notin B(a)
    BY <1>3 DEF StrictOrder
  <2>3. IsFiniteSet(B(a)) /\ IsFiniteSet(B(b))
    BY <1>2
  <2>4. Cardinality(B(a)) <= Cardinality(B(b)) /\ Cardinality(B(a)) # Cardinality(B(b))
    BY <2>1, <2>2, <2>3, FS_Subset
  <2>5. Cardinality(B(a)) \in Nat /\ Cardinality(B(b)) \in Nat
    BY <2>3, FS_CardinalityType
  <2> QED
    BY <2>4, <2>5
<1> DEFINE g == [c \in K |-> Cardinality(B(c))]
<1>4. /\ g \in [K -> 0 .. (N - 1)]
      /\ \A c \in K : g[c] = Rank(K, R, c)
      /\ \A a, b \in K : <<a, b>> \in R => g[a] < g[b]
  BY <1>2, <1>3 DEF Rank
<1> HIDE DEF g, N
<1>5. ASSUME NEW a \in K, NEW b \in K
      PROVE  (g[a] < g[b] => <<a, b>> \in R) /\ (g[a] = g[b] => a = b)
  <2>1. g[a] \in Int /\ g[b] \in Int
    BY <1>1, <1>4
  <2>2. (<<a, b>> \in R => g[a] < g[b]) /\ (<<b, a>> \in R => g[b] < g[a])
    BY <1>4
  <2> QED
    BY <2>1, <2>2 DEF StrictOrder
<1>6. ASSUME NEW n \in 1 .. N
      PROVE  \E c \in K : g[c] = n - 1
  <2> DEFINE f == [c \in K |-> g[c] + 1]
  <2>1. f \in [K -> 1 .. N]
    BY <1>1, <1>4
  <2>2. ASSUME NEW a \in K, NEW b \in K, f[a] = f[b] PROVE a = b
    <3>1. g[a] \in Int /\ g[b] \in Int /\ g[a] + 1 = g[b] + 1
      BY <1>1, <1>4, <2>2
    <3>2. g[a] = g[b]
      BY <3>1
    <3> QED
      BY <1>5, <3>2
  <2>3. f \in Injection(K, 1 .. N)
    BY <2>1, <2>2 DEF Injection, IsInjective
  <2>4. IsFiniteSet(1 .. N) /\ Cardinality(1 .. N) = N
    BY <1>1, FS_Interval
  <2>5. f \in Surjection(K, 1 .. N)
    BY <2>3, <2>4, FS_Injection DEF N
  <2>6. PICK c \in K : f[c] = n
    BY <2>5 DEF Surjection
  <2> QED
    BY <1>1, <1>4, <2>6
<1>7. \A c \in K : Rank(K, R, c) \in 0 .. (N - 1)
  BY <1>4
<1>8. \A a, b \in K : /\ <<a, b>> \in R <=> Rank(K, R, a) < Rank(K, R, b)
                      /\ Rank(K, R, a) = Rank(K, R, b) => a = b
  <2> SUFFICES ASSUME NEW a \in K, NEW b \in K
               PROVE  /\ <<a, b>> \in R <=> Rank(K, R, a) < Rank(K, R, b)
                      /\ Rank(K, R, a) = Rank(K, R, b) => a = b
    OBVIOUS
  <2>1. Rank(K, R, a) = g[a] /\ Rank(K, R, b) = g[b]
    BY <1>4
  <2>2. <<a, b>> \in R => g[a] < g[b]
    BY <1>4
  <2>3. (g[a] < g[b] => <<a, b>> \in R) /\ (g[a] = g[b] => a = b)
    BY <1>5
  <2> QED
    BY <2>1, <2>2, <2>3
<1>9. \A n \in 1 .. N : \E c \in K : Rank(K, R, c) = n - 1
  BY <1>4, <1>6
<1> QED
  BY <1>7, <1>8, <1>9 DEF N

\* Visited enumerates the cells of K, each once.
LEMMA VisitedEnumerates ==
  ASSUME NEW K \in SUBSET Cells
  PROVE  /\ IsFiniteSet(K) /\ Cardinality(K) \in Nat
         /\ \A n \in 1 .. Cardinality(K) : Visited(K, n) \in K
         /\ \A c \in K : \E n \in 1 .. Cardinality(K) : Visited(K, n) = c
<1> DEFINE R == {p \in K \X K : Before(p[1], p[2])}
<1>1. Cells \in SUBSET ((DOMAIN Strides) \X (0 .. model_in) \X (0 .. model_in))
  BY DEF Cells
<1>2. DOMAIN Strides = 1 .. Len(Strides) /\ Len(Strides) \in Nat /\ model_in \in Nat
  BY PostProcessAssumption
<1>3. IsFiniteSet(K) /\ Cardinality(K) \in Nat
  <2>1. IsFiniteSet(0 .. model_in) /\ IsFiniteSet(DOMAIN Strides)
    BY <1>2, FS_Interval
  <2>2. IsFiniteSet((0 .. model_in) \X (0 .. model_in))
    BY <2>1, FS_Product
  <2> DEFINE f == [x \in (DOMAIN Strides) \X ((0 .. model_in) \X (0 .. model_in)) |->
                     <<x[1], x[2][1], x[2][2]>>]
             D == (DOMAIN Strides) \X ((0 .. model_in) \X (0 .. model_in))
             T == (DOMAIN Strides) \X (0 .. model_in) \X (0 .. model_in)
  <2>3. IsFiniteSet(D)
    BY <2>1, <2>2, FS_Product
  <2>4. f \in Surjection(D, T)
    <3>1. f \in [D -> T]
      OBVIOUS
    <3>2. ASSUME NEW c \in T PROVE \E x \in D : f[x] = c
      <4>1. <<c[1], <<c[2], c[3]>>>> \in D /\ f[<<c[1], <<c[2], c[3]>>>>] = c
        OBVIOUS
      <4> QED
        BY <4>1
    <3> QED
      BY <3>1, <3>2 DEF Surjection
  <2>5. IsFiniteSet(T)
    BY <2>3, <2>4, FS_Surjection
  <2> QED
    BY <1>1, <2>5, FS_Subset, FS_CardinalityType
<1>4. \A a, b \in K : <<a, b>> \in R <=> Before(a, b)
  OBVIOUS
<1>5. \A c \in K : c \in Int \X Int \X Int
  BY <1>1, <1>2
<1>6. StrictOrder(K, R)
  <2> HIDE DEF R
  <2>1. \A a \in K : ~Before(a, a)
    BY <1>5 DEF Before
  <2>2. \A a, b, c \in K : Before(a, b) /\ Before(b, c) => Before(a, c)
    BY <1>5 DEF Before
  <2>3. \A a, b \in K : a = b \/ Before(a, b) \/ Before(b, a)
    BY <1>5 DEF Before
  <2> QED
    BY <1>4, <2>1, <2>2, <2>3 DEF StrictOrder
<1>7. ASSUME NEW c \in K PROVE {d \in K : <<d, c>> \in R} = {d \in K : Before(d, c)}
  BY <1>4
<1> HIDE DEF R
<1>8. /\ \A c \in K : Rank(K, R, c) \in 0 .. (Cardinality(K) - 1)
      /\ \A a, b \in K : Rank(K, R, a) = Rank(K, R, b) => a = b
      /\ \A n \in 1 .. Cardinality(K) : \E c \in K : Rank(K, R, c) = n - 1
  BY <1>3, <1>6, RankEnumerates
<1>9. \A c \in K : Rank(K, R, c) = Cardinality({d \in K : Before(d, c)})
  BY <1>7 DEF Rank
<1>10. ASSUME NEW n \in 1 .. Cardinality(K)
       PROVE  Visited(K, n) \in K /\ Rank(K, R, Visited(K, n)) = n - 1
  BY <1>8, <1>9 DEF Visited
<1>11. ASSUME NEW c \in K PROVE \E n \in 1 .. Cardinality(K) : Visited(K, n) = c
  <2>1. Rank(K, R, c) + 1 \in 1 .. Cardinality(K)
    BY <1>3, <1>8
  <2> DEFINE v == Visited(K, Rank(K, R, c) + 1)
  <2>2. v \in K /\ Rank(K, R, v) = Rank(K, R, c)
    BY <1>3, <1>8, <1>10, <2>1
  <2> HIDE DEF v
  <2>3. v = c
    BY <1>8, <2>2
  <2> QED
    BY <2>1, <2>3 DEF v
<1> QED
  BY <1>3, <1>10, <1>11

\* Survivor enumerates the positions that survive, in increasing order.
LEMMA SurvivorEnumerates ==
  ASSUME NEW N \in Nat, NEW order, DOMAIN order = 1 .. N
  PROVE  LET K == Surviving(order)
             C == Cardinality(K)
         IN  /\ K \subseteq 1 .. N /\ IsFiniteSet(K) /\ C \in 0 .. N
             /\ \A r \in 1 .. C : Survivor(order, r) \in K
             /\ \A q, r \in 1 .. C : q < r => Survivor(order, q) < Survivor(order, r)
             /\ \A i \in K : \E r \in 1 .. C : Survivor(order, r) = i
<1> DEFINE K == Surviving(order)
           C == Cardinality(K)
           R == {p \in K \X K : p[1] < p[2]}
<1>1. K \in SUBSET (1 .. N)
  BY DEF Surviving
<1>2. IsFiniteSet(K) /\ C \in 0 .. N
  <2>1. IsFiniteSet(1 .. N) /\ Cardinality(1 .. N) = N
    BY FS_Interval
  <2> QED
    BY <1>1, <2>1, FS_Subset, FS_CardinalityType
<1>3. \A i, j \in K : <<i, j>> \in R <=> i < j
  OBVIOUS
<1>4. ASSUME NEW i \in K PROVE {j \in K : <<j, i>> \in R} = {j \in K : j < i}
  BY <1>3
<1>5. \A r : Survivor(order, r) = CHOOSE i \in K : Cardinality({j \in K : j < i}) = r - 1
  BY DEF Survivor
<1> HIDE DEF R, K
<1>6. StrictOrder(K, R)
  BY <1>1, <1>3 DEF StrictOrder
<1>7. /\ \A i \in K : Rank(K, R, i) \in 0 .. (C - 1)
      /\ \A i, j \in K : <<i, j>> \in R <=> Rank(K, R, i) < Rank(K, R, j)
      /\ \A i, j \in K : Rank(K, R, i) = Rank(K, R, j) => i = j
      /\ \A r \in 1 .. C : \E i \in K : Rank(K, R, i) = r - 1
  BY <1>2, <1>6, RankEnumerates
<1>8. \A i \in K : Rank(K, R, i) = Cardinality({j \in K : j < i})
  BY <1>4 DEF Rank
<1>9. ASSUME NEW r \in 1 .. C
      PROVE  Survivor(order, r) \in K /\ Rank(K, R, Survivor(order, r)) = r - 1
  BY <1>5, <1>7, <1>8
<1>10. ASSUME NEW q \in 1 .. C, NEW r \in 1 .. C, q < r
       PROVE  Survivor(order, q) < Survivor(order, r)
  <2>1. /\ Survivor(order, q) \in K /\ Rank(K, R, Survivor(order, q)) = q - 1
        /\ Survivor(order, r) \in K /\ Rank(K, R, Survivor(order, r)) = r - 1
    BY <1>9
  <2>2. q - 1 < r - 1
    BY <1>2, <1>10
  <2> HIDE DEF C
  <2>3. Rank(K, R, Survivor(order, q)) < Rank(K, R, Survivor(order, r))
    BY <2>1, <2>2
  <2>4. <<Survivor(order, q), Survivor(order, r)>> \in R
    BY <1>7, <2>1, <2>3
  <2> QED
    BY <1>3, <2>1, <2>4
<1>11. ASSUME NEW i \in K PROVE \E r \in 1 .. C : Survivor(order, r) = i
  <2>1. Rank(K, R, i) + 1 \in 1 .. C
    BY <1>2, <1>7
  <2> DEFINE v == Survivor(order, Rank(K, R, i) + 1)
  <2>2. v \in K /\ Rank(K, R, v) = Rank(K, R, i)
    BY <1>2, <1>7, <1>9, <2>1
  <2> HIDE DEF v
  <2>3. v = i
    BY <1>7, <2>2
  <2> QED
    BY <2>1, <2>3 DEF v
<1> QED
  BY <1>1, <1>2, <1>9, <1>10, <1>11 DEF K

----------------------------------------------------------------------------
(* The sort.                                                               *)

Boxes == [x1 : Int, y1 : Int, x2 : Int, y2 : Int]

Cands == [cell : Cells, box : Boxes, class : Classes, prob : Int]

Pairs(N) == [prob : Int, n : 1 .. N]

\* The array is a permutation of the candidates, each with its own score.
Perm(cands, a) ==
  /\ a \in [1 .. Len(cands) -> Pairs(Len(cands))]
  /\ \A i \in 1 .. Len(cands) : a[i].prob = cands[a[i].n].prob
  /\ \A i, j \in 1 .. Len(cands) : a[i].n = a[j].n => i = j

\* The segments S of 1 .. N that are to be sorted are disjoint.
Segs(N, S) ==
  /\ S \in SUBSET ((1 .. N) \X (1 .. N))
  /\ \A s \in S : s[1] < s[2]
  /\ \A s, u \in S : s = u \/ s[2] < u[1] \/ u[2] < s[1]

InOne(S, i, j) == \E s \in S : s[1] <= i /\ j <= s[2]

\* Two elements in the wrong order lie in a segment that is to be sorted.
SortedBut(N, a, S) ==
  \A i, j \in 1 .. N : i < j /\ ~InOne(S, i, j) => a[i].prob >= a[j].prob

\* While a segment is partitioned, the array with the pivot in the hole.
Filled(a, g) == [a EXCEPT ![g.low] = g.pivot]

SegRecs(N) == [left : 1 .. N, right : 1 .. N, low : 1 .. N, high : 1 .. N, pivot : Pairs(N)]

Partitioned(a, g) ==
  /\ g.left < g.right /\ g.left <= g.low /\ g.low <= g.high /\ g.high <= g.right
  /\ \A x \in g.left .. (g.low - 1) : Filled(a, g)[x].prob >= g.pivot.prob
  /\ \A x \in (g.high + 1) .. g.right : Filled(a, g)[x].prob <= g.pivot.prob

SortInv(cands, a, S) ==
  /\ Perm(cands, a)
  /\ Segs(Len(cands), S)
  /\ SortedBut(Len(cands), a, S)

PartitionInv(cands, a, S, g) ==
  /\ a \in [1 .. Len(cands) -> Pairs(Len(cands))]
  /\ g \in SegRecs(Len(cands))
  /\ <<g.left, g.right>> \notin S
  /\ SortInv(cands, Filled(a, g), S \cup {<<g.left, g.right>>})
  /\ Partitioned(a, g)

\* The array with the elements at x and y exchanged.
Exchanged(a, x, y) == [i \in DOMAIN a |-> a[IF i = x THEN y ELSE IF i = y THEN x ELSE i]]

\* An exchange inside a segment keeps what the sort relies on.
LEMMA ExchangeKeepsSortInv ==
  ASSUME NEW cands \in Seq(Cands), NEW a, NEW S, SortInv(cands, a, S),
         NEW s \in S, NEW x \in s[1] .. s[2], NEW y \in s[1] .. s[2]
  PROVE  SortInv(cands, Exchanged(a, x, y), S)
<1> DEFINE N == Len(cands)
           p(i) == IF i = x THEN y ELSE IF i = y THEN x ELSE i
           b == Exchanged(a, x, y)
<1>1. N \in Nat
  OBVIOUS
<1>2. /\ S \in SUBSET ((1 .. N) \X (1 .. N))
      /\ \A u \in S : u[1] < u[2]
      /\ \A r, u \in S : r = u \/ r[2] < u[1] \/ u[2] < r[1]
      /\ a \in [1 .. N -> Pairs(N)]
  BY DEF SortInv, Segs, Perm
<1> HIDE DEF N
<1>3. s[1] \in 1 .. N /\ s[2] \in 1 .. N /\ x \in 1 .. N /\ y \in 1 .. N
  BY <1>1, <1>2
<1>4. \A i \in 1 .. N : p(i) \in 1 .. N /\ b[i] = a[p(i)]
  BY <1>2, <1>3 DEF Exchanged
<1>5. \A i, j \in 1 .. N : p(i) = p(j) => i = j
  BY <1>3
<1>6. b \in [1 .. N -> Pairs(N)]
  BY <1>2, <1>3 DEF Exchanged
<1> HIDE DEF b
<1>7. Perm(cands, b)
  <2>1. \A i \in 1 .. N : b[i].prob = cands[b[i].n].prob
    BY <1>4 DEF SortInv, Perm, N
  <2>2. \A i, j \in 1 .. N : b[i].n = b[j].n => i = j
    <3> SUFFICES ASSUME NEW i \in 1 .. N, NEW j \in 1 .. N, b[i].n = b[j].n
                 PROVE  i = j
      OBVIOUS
    <3>1. a[p(i)].n = a[p(j)].n /\ p(i) \in 1 .. N /\ p(j) \in 1 .. N
      BY <1>4
    <3>2. p(i) = p(j)
      BY <3>1 DEF SortInv, Perm, N
    <3> QED
      BY <1>5, <3>2
  <2> QED
    BY <1>6, <2>1, <2>2 DEF Perm, N
<1>8. SortedBut(N, b, S)
  <2> SUFFICES ASSUME NEW i \in 1 .. N, NEW j \in 1 .. N, i < j, ~InOne(S, i, j)
               PROVE  b[i].prob >= b[j].prob
    BY DEF SortedBut
  <2>1. ~(i \in s[1] .. s[2] /\ j \in s[1] .. s[2])
    BY <1>3 DEF InOne
  <2>2. p(i) < p(j)
    BY <1>1, <1>3, <2>1
  <2>3. ~InOne(S, p(i), p(j))
    <3> SUFFICES ASSUME NEW u \in S, u[1] <= p(i), p(j) <= u[2] PROVE FALSE
      BY DEF InOne
    <3>1. u[1] \in 1 .. N /\ u[2] \in 1 .. N
      BY <1>2
    <3>2. CASE u = s
      <4>1. i \in s[1] .. s[2] /\ j \in s[1] .. s[2]
        BY <1>1, <1>3, <2>2, <3>1, <3>2
      <4> QED
        BY <2>1, <4>1
    <3>3. CASE u # s
      <4>1. s[2] < u[1] \/ u[2] < s[1]
        BY <1>2, <3>3
      <4>2. p(i) = i /\ p(j) = j
        BY <1>1, <1>3, <2>2, <3>1, <4>1
      <4> QED
        BY <4>2 DEF InOne
    <3> QED
      BY <3>2, <3>3
  <2> QED
    BY <1>4, <2>2, <2>3 DEF SortInv, SortedBut, N
<1> QED
  BY <1>7, <1>8 DEF SortInv, N, b

\* The body of the partition loop exchanges elements of the segment twice.
LEMMA PartitionKeepsInv ==
  ASSUME NEW cands \in Seq(Cands), NEW a, NEW S, NEW g, PartitionInv(cands, a, S, g),
         NEW h \in g.low .. g.high, NEW b, b = [a EXCEPT ![g.low] = a[h]],
         NEW l \in g.low .. h,
         HighStops(a, g.low, g.high, g.pivot.prob, h),
         LowStops(b, g.low, h, g.pivot.prob, l)
  PROVE  PartitionInv(cands, [b EXCEPT ![h] = b[l]], S, [g EXCEPT !.low = l, !.high = h])
<1> DEFINE N == Len(cands)
           c == [b EXCEPT ![h] = b[l]]
           k == [g EXCEPT !.low = l, !.high = h]
           v == Filled(a, g)
           w == Filled(c, k)
           s == <<g.left, g.right>>
<1>1. N \in Nat
  OBVIOUS
<1> HIDE DEF N
<1>2. /\ a \in [1 .. N -> Pairs(N)]
      /\ g \in SegRecs(N)
      /\ s \notin S
      /\ SortInv(cands, v, S \cup {s})
      /\ Partitioned(a, g)
  BY DEF PartitionInv, N
<1>3. /\ g.left \in 1 .. N /\ g.right \in 1 .. N /\ g.low \in 1 .. N /\ g.high \in 1 .. N
      /\ g.pivot \in Pairs(N)
  BY <1>2 DEF SegRecs
<1>4. g.left < g.right /\ g.left <= g.low /\ g.low <= g.high /\ g.high <= g.right
  BY <1>2 DEF Partitioned
<1>5. h \in 1 .. N /\ l \in 1 .. N /\ g.left <= l /\ l <= h /\ h <= g.right /\ g.low <= l
  BY <1>1, <1>3, <1>4
<1>6. /\ b \in [1 .. N -> Pairs(N)]
      /\ \A x \in 1 .. N : b[x] = IF x = g.low THEN a[h] ELSE a[x]
  BY <1>2, <1>3, <1>5
<1>7. /\ c \in [1 .. N -> Pairs(N)]
      /\ \A x \in 1 .. N : c[x] = IF x = h THEN b[l] ELSE b[x]
  BY <1>5, <1>6
<1>8. /\ k \in SegRecs(N)
      /\ k.left = g.left /\ k.right = g.right /\ k.low = l /\ k.high = h /\ k.pivot = g.pivot
  BY <1>2, <1>5 DEF SegRecs
<1> HIDE DEF c, k
<1>9. /\ v \in [1 .. N -> Pairs(N)]
      /\ \A x \in 1 .. N : v[x] = IF x = g.low THEN g.pivot ELSE a[x]
  BY <1>2, <1>3 DEF Filled
<1>10. /\ w \in [1 .. N -> Pairs(N)]
       /\ \A x \in 1 .. N : w[x] = IF x = l THEN g.pivot ELSE c[x]
  BY <1>3, <1>5, <1>7, <1>8 DEF Filled
<1> HIDE DEF v, w
<1>11. w = Exchanged(Exchanged(v, g.low, h), h, l)
  <2> DEFINE e == Exchanged(v, g.low, h)
             f == Exchanged(e, h, l)
  <2>1. DOMAIN e = 1 .. N /\ DOMAIN f = 1 .. N
    BY <1>9 DEF Exchanged
  <2>2. \A x \in 1 .. N : e[x] = v[IF x = g.low THEN h ELSE IF x = h THEN g.low ELSE x]
    BY <1>9 DEF Exchanged
  <2>3. \A x \in 1 .. N : f[x] = e[IF x = h THEN l ELSE IF x = l THEN h ELSE x]
    BY <2>1 DEF Exchanged
  <2>4. f = [x \in 1 .. N |-> f[x]]
    BY <2>1 DEF Exchanged
  <2> HIDE DEF e, f
  <2>5. ASSUME NEW x \in 1 .. N PROVE w[x] = f[x]
    BY <1>3, <1>5, <1>6, <1>7, <1>9, <1>10, <2>2, <2>3
  <2>6. w = f
    BY <1>10, <2>4, <2>5
  <2> QED
    BY <2>6 DEF e, f
<1>12. SortInv(cands, w, S \cup {s})
  <2>1. s \in S \cup {s} /\ s[1] = g.left /\ s[2] = g.right
    OBVIOUS
  <2>2. g.low \in s[1] .. s[2] /\ h \in s[1] .. s[2] /\ l \in s[1] .. s[2]
    BY <1>1, <1>3, <1>4, <1>5, <2>1
  <2> HIDE DEF s
  <2>3. SortInv(cands, Exchanged(v, g.low, h), S \cup {s})
    BY <1>2, <2>1, <2>2, ExchangeKeepsSortInv
  <2> QED
    BY <1>11, <2>1, <2>2, <2>3, ExchangeKeepsSortInv
<1>13. Partitioned(c, k)
  <2>1. ASSUME NEW x \in g.left .. (l - 1) PROVE w[x].prob >= g.pivot.prob
    <3>1. x \in 1 .. N /\ x < l /\ g.left <= x
      BY <1>1, <1>3, <1>5
    <3>2. w[x] = b[x]
      BY <1>5, <1>7, <1>10, <3>1
    <3>3. CASE x < g.low
      <4>1. b[x] = v[x] /\ x \in g.left .. (g.low - 1)
        BY <1>3, <1>6, <1>9, <3>1, <3>3
      <4> QED
        BY <1>2, <3>2, <4>1 DEF Partitioned, v
    <3>4. CASE x >= g.low
      <4>1. x \in g.low .. (l - 1)
        BY <1>3, <1>5, <3>1, <3>4
      <4> QED
        BY <3>2, <4>1 DEF LowStops
    <3> QED
      BY <1>3, <3>1, <3>3, <3>4
  <2>2. ASSUME NEW x \in (h + 1) .. g.right PROVE w[x].prob <= g.pivot.prob
    <3>1. x \in 1 .. N /\ h < x /\ x <= g.right
      BY <1>1, <1>3, <1>5
    <3>2. w[x] = a[x] /\ v[x] = a[x]
      BY <1>3, <1>5, <1>6, <1>7, <1>9, <1>10, <3>1
    <3>3. CASE x <= g.high
      <4>1. x \in (h + 1) .. g.high
        BY <1>3, <1>5, <3>1, <3>3
      <4> QED
        BY <3>2, <4>1 DEF HighStops
    <3>4. CASE x > g.high
      <4>1. x \in (g.high + 1) .. g.right
        BY <1>3, <3>1, <3>4
      <4> QED
        BY <1>2, <3>2, <4>1 DEF Partitioned, v
    <3> QED
      BY <1>3, <3>1, <3>3, <3>4
  <2> QED
    BY <1>4, <1>5, <1>8, <2>1, <2>2 DEF Partitioned, w
<1> QED
  BY <1>2, <1>7, <1>8, <1>12, <1>13 DEF PartitionInv, N, c, k, w

\* A segment that is taken up is partitioned as far as its first element goes.
LEMMA BeginSegmentKeepsInv ==
  ASSUME NEW cands \in Seq(Cands), NEW a, NEW S, SortInv(cands, a, S), NEW s \in S
  PROVE  PartitionInv(cands, a, S \ {s},
           [left |-> s[1], right |-> s[2], low |-> s[1], high |-> s[2], pivot |-> a[s[1]]])
<1> DEFINE N == Len(cands)
           g == [left |-> s[1], right |-> s[2], low |-> s[1], high |-> s[2], pivot |-> a[s[1]]]
<1>1. /\ a \in [1 .. N -> Pairs(N)]
      /\ s \in (1 .. N) \X (1 .. N) /\ s[1] < s[2]
  BY DEF SortInv, Perm, Segs
<1>2. s = <<g.left, g.right>> /\ (S \ {s}) \cup {s} = S
  BY <1>1
<1>3. N \in Nat /\ s[1] \in 1 .. N /\ s[2] \in 1 .. N /\ a[s[1]] \in Pairs(N)
  BY <1>1
<1>4. g \in SegRecs(N)
  BY <1>3 DEF SegRecs
<1>5. Filled(a, g) = a
  BY <1>1, <1>3 DEF Filled
<1>6. Partitioned(a, g)
  BY <1>1, <1>3 DEF Partitioned
<1>7. SortInv(cands, Filled(a, g), (S \ {s}) \cup {<<g.left, g.right>>})
  BY <1>2, <1>5
<1>8. <<g.left, g.right>> \notin S \ {s}
  BY <1>2
<1> HIDE DEF g
<1> QED
  BY <1>1, <1>4, <1>6, <1>7, <1>8 DEF PartitionInv, g

\* The pivot separates the two sides, which are the segments that are left to sort.
LEMMA EndSegmentKeepsInv ==
  ASSUME NEW cands \in Seq(Cands), NEW a, NEW S, NEW g, PartitionInv(cands, a, S, g),
         g.low >= g.high
  PROVE  SortInv(cands, [a EXCEPT ![g.low] = g.pivot],
                 S \cup Segment(g.left, g.low - 1) \cup Segment(g.low + 1, g.right))
<1> DEFINE N == Len(cands)
           v == Filled(a, g)
           s == <<g.left, g.right>>
           T == S \cup Segment(g.left, g.low - 1) \cup Segment(g.low + 1, g.right)
<1>1. N \in Nat
  OBVIOUS
<1> HIDE DEF N
<1>2. /\ a \in [1 .. N -> Pairs(N)]
      /\ g \in SegRecs(N)
      /\ s \notin S
      /\ SortInv(cands, v, S \cup {s})
      /\ Partitioned(a, g)
  BY DEF PartitionInv, N
<1>3. /\ g.left \in 1 .. N /\ g.right \in 1 .. N /\ g.low \in 1 .. N /\ g.high \in 1 .. N
      /\ g.pivot \in Pairs(N) /\ g.pivot.prob \in Int
  BY <1>2 DEF SegRecs, Pairs
<1>4. g.left < g.right /\ g.left <= g.low /\ g.low = g.high /\ g.high <= g.right
  BY <1>2, <1>3 DEF Partitioned
<1>5. /\ S \in SUBSET ((1 .. N) \X (1 .. N))
      /\ \A u \in S : u[1] < u[2]
      /\ \A r, u \in S : r = u \/ r[2] < u[1] \/ u[2] < r[1]
      /\ \A u \in S : g.right < u[1] \/ u[2] < g.left
  BY <1>2 DEF SortInv, Segs, N
<1>6. /\ v[g.low] = g.pivot /\ v \in [1 .. N -> Pairs(N)]
      /\ \A x \in g.left .. (g.low - 1) : v[x].prob >= g.pivot.prob
      /\ \A x \in (g.low + 1) .. g.right : v[x].prob <= g.pivot.prob
  BY <1>2, <1>3, <1>4 DEF Partitioned, Filled
<1> HIDE DEF v
<1>7. ASSUME NEW u \in T
      PROVE  \/ u \in S
             \/ u = <<g.left, g.low - 1>> /\ g.left < g.low - 1
             \/ u = <<g.low + 1, g.right>> /\ g.low + 1 < g.right
  BY DEF Segment
<1>8. /\ \A u \in S : u \in T
      /\ g.left < g.low - 1 => <<g.left, g.low - 1>> \in T
      /\ g.low + 1 < g.right => <<g.low + 1, g.right>> \in T
  BY DEF Segment
<1> HIDE DEF T
<1>9. Segs(N, T)
  <2>1. \A u \in T : u \in (1 .. N) \X (1 .. N) /\ u[1] < u[2]
    BY <1>1, <1>3, <1>4, <1>5, <1>7
  <2>2. ASSUME NEW r \in T, NEW u \in T PROVE r = u \/ r[2] < u[1] \/ u[2] < r[1]
    <3>1. /\ r[1] \in Int /\ r[2] \in Int /\ u[1] \in Int /\ u[2] \in Int
      BY <2>1
    <3>2. CASE r \in S /\ u \in S
      BY <1>5, <3>2
    <3>3. CASE r \in S /\ u \notin S
      <4>1. g.right < r[1] \/ r[2] < g.left
        BY <1>5, <3>3
      <4> QED
        BY <1>3, <1>4, <1>7, <3>1, <3>3, <4>1
    <3>4. CASE r \notin S /\ u \in S
      <4>1. g.right < u[1] \/ u[2] < g.left
        BY <1>5, <3>4
      <4> QED
        BY <1>3, <1>4, <1>7, <3>1, <3>4, <4>1
    <3>5. CASE r \notin S /\ u \notin S
      BY <1>3, <1>4, <1>7, <3>1, <3>5
    <3> QED
      BY <3>2, <3>3, <3>4, <3>5
  <2> QED
    BY <2>1, <2>2 DEF Segs
<1>10. SortedBut(N, v, T)
  <2> SUFFICES ASSUME NEW i \in 1 .. N, NEW j \in 1 .. N, i < j, ~InOne(T, i, j)
               PROVE  v[i].prob >= v[j].prob
    BY DEF SortedBut
  <2>1. ~InOne(S, i, j)
    BY <1>8 DEF InOne
  <2>2. v[i].prob \in Int /\ v[j].prob \in Int
    BY <1>6 DEF Pairs
  <2>3. CASE i < g.left \/ g.right < j
    <3>1. ~InOne(S \cup {s}, i, j)
      BY <1>3, <2>1, <2>3 DEF InOne
    <3> QED
      BY <1>2, <3>1 DEF SortInv, SortedBut, N
  <2>4. CASE ~(i < g.left) /\ ~(g.right < j)
    <3>1. g.left <= i /\ j <= g.right
      BY <1>3, <2>4
    <3>2. ~(j <= g.low - 1)
      <4> SUFFICES ASSUME j <= g.low - 1 PROVE FALSE
        OBVIOUS
      <4>1. <<g.left, g.low - 1>> \in T
        BY <1>3, <1>8, <3>1
      <4> QED
        BY <3>1, <4>1 DEF InOne
    <3>3. ~(g.low + 1 <= i)
      <4> SUFFICES ASSUME g.low + 1 <= i PROVE FALSE
        OBVIOUS
      <4>1. <<g.low + 1, g.right>> \in T
        BY <1>3, <1>8, <3>1
      <4> QED
        BY <3>1, <4>1 DEF InOne
    <3>4. v[i].prob >= g.pivot.prob
      <4>1. i = g.low \/ i \in g.left .. (g.low - 1)
        BY <1>3, <3>1, <3>3
      <4> QED
        BY <1>3, <1>6, <4>1
    <3>5. v[j].prob <= g.pivot.prob
      <4>1. j = g.low \/ j \in (g.low + 1) .. g.right
        BY <1>3, <3>1, <3>2
      <4> QED
        BY <1>3, <1>6, <4>1
    <3> QED
      BY <1>3, <2>2, <3>4, <3>5
  <2> QED
    BY <2>3, <2>4
<1> QED
  BY <1>2, <1>9, <1>10 DEF SortInv, N, v, T, Filled

----------------------------------------------------------------------------
(* Suppression.                                                            *)

\* Overlap does not depend on which of the two boxes comes first.
LEMMA OverlappingSymmetric ==
  ASSUME NEW a \in Boxes, NEW b \in Boxes
  PROVE  Overlapping(a, b) => Overlapping(b, a)
<1> DEFINE w(x, y) == Greater(0, Side(Greater(x.x1, y.x1), Lesser(x.x2, y.x2)))
           h(x, y) == Greater(0, Side(Greater(x.y1, y.y1), Lesser(x.y2, y.y2)))
           A(x) == Side(x.x1, x.x2) * Side(x.y1, x.y2)
           u(x, y) == A(x) + A(y) - w(x, y) * h(x, y)
<1>1. /\ a.x1 \in Int /\ a.y1 \in Int /\ a.x2 \in Int /\ a.y2 \in Int
      /\ b.x1 \in Int /\ b.y1 \in Int /\ b.x2 \in Int /\ b.y2 \in Int
  BY DEF Boxes
<1>2. w(a, b) = w(b, a) /\ h(a, b) = h(b, a) /\ w(a, b) \in Int /\ h(a, b) \in Int
  BY <1>1 DEF Greater, Lesser, Side
<1>3. A(a) \in Int /\ A(b) \in Int
  BY <1>1 DEF Side
<1>4. \A x, y : Overlapping(x, y) <=> u(x, y) > 0 /\ 100 * w(x, y) * h(x, y) > 45 * u(x, y)
  BY DEF Overlapping
<1> HIDE DEF w, h, A
<1>5. u(a, b) = u(b, a)
  BY <1>2, <1>3
<1> HIDE DEF u
<1> QED
  BY <1>2, <1>4, <1>5

\* The candidates that go on.
Valid(cands) == Lesser(TOP_K, Len(cands))

\* The order holds what is left of the sorted indices.
OrderInv(cands, a, order) ==
  /\ Perm(cands, a)
  /\ SortedBut(Len(cands), a, {})
  /\ order \in [1 .. Valid(cands) -> Int]
  /\ \A j \in 1 .. Valid(cands) : order[j] = -1 \/ order[j] = a[j].n

Clash(cands, a, p, q) == Overlapping(cands[a[p].n].box, cands[a[q].n].box)

\* Of the positions in Done, those that survive have suppressed what they overlap, and
\* nothing else is suppressed.
SuppressedBy(cands, a, order, Done) ==
  /\ \A p \in Done, q \in 1 .. Valid(cands) :
       p < q /\ order[p] # -1 /\ order[q] # -1 => ~Clash(cands, a, p, q)
  /\ \A q \in 1 .. Valid(cands) :
       order[q] = -1 => \E p \in Done : p < q /\ order[p] # -1 /\ Clash(cands, a, p, q)

\* Indices are not -1.
LEMMA PermElements ==
  ASSUME NEW cands \in Seq(Cands), Len(cands) # 0, NEW a, Perm(cands, a)
  PROVE  /\ Valid(cands) \in 1 .. Len(cands) /\ Len(cands) \in Nat
         /\ Valid(cands) = TOP_K \/ Valid(cands) = Len(cands)
         /\ TOP_K \in Nat \ {0}
         /\ \A j \in 1 .. Len(cands) : /\ a[j].n \in 1 .. Len(cands)
                                       /\ a[j].prob \in Int
                                       /\ a[j].prob = cands[a[j].n].prob
                                       /\ cands[a[j].n] \in Cands
                                       /\ cands[a[j].n].box \in Boxes
<1>1. Len(cands) \in Nat /\ TOP_K \in Nat \ {0}
  BY PostProcessAssumption
<1>2. Valid(cands) \in 1 .. Len(cands) /\ (Valid(cands) = TOP_K \/ Valid(cands) = Len(cands))
  BY <1>1 DEF Valid, Lesser
<1>3. ASSUME NEW j \in 1 .. Len(cands)
      PROVE  /\ a[j].n \in 1 .. Len(cands) /\ a[j].prob \in Int
             /\ a[j].prob = cands[a[j].n].prob
  BY DEF Perm, Pairs
<1>4. ASSUME NEW n \in 1 .. Len(cands)
      PROVE  cands[n] \in Cands /\ cands[n].box \in Boxes
  <2>1. cands[n] \in Cands
    BY ElementOfSeq
  <2> QED
    BY <2>1 DEF Cands
<1> QED
  BY <1>1, <1>2, <1>3, <1>4

\* An iteration of the loop over i adds i to the positions that are done.
LEMMA SuppressKeepsInv ==
  ASSUME NEW cands \in Seq(Cands), Len(cands) # 0, NEW a, NEW order,
         OrderInv(cands, a, order), NEW i \in 1 .. Valid(cands), NEW c
  PROVE  LET new == Suppress(cands, order, i, c)
         IN  /\ OrderInv(cands, a, new)
             /\ \A Done \in SUBSET (1 .. (i - 1)) :
                  cands[i].class = c /\ SuppressedBy(cands, a, order, Done) =>
                    SuppressedBy(cands, a, new, Done \cup {i})
<1> DEFINE new == Suppress(cands, order, i, c)
           V == Valid(cands)
           hit(j) == /\ j > i /\ order[i] # -1 /\ cands[i].class = c /\ order[j] # -1
                     /\ Overlapping(cands[order[i]].box, cands[order[j]].box)
<1>1. /\ V \in 1 .. Len(cands) /\ Len(cands) \in Nat
      /\ \A j \in 1 .. Len(cands) : a[j].n \in 1 .. Len(cands)
  BY PermElements DEF OrderInv
<1>2. order \in [1 .. V -> Int] /\ \A j \in 1 .. V : order[j] = -1 \/ order[j] = a[j].n
  BY DEF OrderInv
<1> HIDE DEF V
<1>3. new \in [1 .. V -> Int] /\ \A j \in 1 .. V : new[j] = IF hit(j) THEN -1 ELSE order[j]
  BY <1>2 DEF Suppress
<1> HIDE DEF new
<1>4. OrderInv(cands, a, new)
  BY <1>2, <1>3 DEF OrderInv, V
<1>5. ASSUME NEW Done \in SUBSET (1 .. (i - 1)), cands[i].class = c,
             SuppressedBy(cands, a, order, Done)
      PROVE  SuppressedBy(cands, a, new, Done \cup {i})
  <2>1. i \in 1 .. V /\ \A p \in Done : p \in 1 .. V /\ p < i
    BY <1>1 DEF V
  <2>2. new[i] = order[i] /\ \A p \in Done : new[p] = order[p]
    BY <1>1, <1>3, <2>1
  <2>3. ASSUME NEW q \in 1 .. V, order[i] # -1, order[q] # -1, i < q
        PROVE  new[q] = -1 <=> Clash(cands, a, i, q)
    <3>1. order[i] = a[i].n /\ order[q] = a[q].n
      BY <1>2, <2>1, <2>3
    <3>2. hit(q) <=> Clash(cands, a, i, q)
      BY <1>1, <1>5, <2>1, <2>3, <3>1 DEF Clash
    <3> QED
      BY <1>3, <2>3, <3>2
  <2>4. \A q \in 1 .. V : new[q] # -1 => order[q] # -1
    BY <1>3
  <2>5. ASSUME NEW p \in Done \cup {i}, NEW q \in 1 .. V, p < q, new[p] # -1, new[q] # -1
        PROVE  ~Clash(cands, a, p, q)
    <3>1. CASE p = i
      BY <2>2, <2>3, <2>4, <2>5, <3>1
    <3>2. CASE p \in Done
      BY <1>5, <2>2, <2>4, <2>5, <3>2 DEF SuppressedBy, V
    <3> QED
      BY <3>1, <3>2
  <2>6. ASSUME NEW q \in 1 .. V, new[q] = -1
        PROVE  \E p \in Done \cup {i} : p < q /\ new[p] # -1 /\ Clash(cands, a, p, q)
    <3>1. CASE order[q] = -1
      <4>1. PICK p \in Done : p < q /\ order[p] # -1 /\ Clash(cands, a, p, q)
        BY <1>5, <3>1 DEF SuppressedBy, V
      <4> QED
        BY <2>2, <4>1
    <3>2. CASE order[q] # -1
      <4>1. hit(q)
        BY <1>3, <2>6, <3>2
      <4>2. i < q
        BY <1>1, <2>1, <4>1
      <4> QED
        BY <2>2, <2>3, <2>6, <3>2, <4>1, <4>2
    <3> QED
      BY <3>1, <3>2
  <2> QED
    BY <2>5, <2>6 DEF SuppressedBy, V
<1> QED
  BY <1>4, <1>5 DEF new

\* A sequence without repetition has as many elements as places.
LEMMA ImageCounts ==
  ASSUME NEW L \in Nat, NEW I, NEW f \in [1 .. L -> I],
         \A q, r \in 1 .. L : f[q] = f[r] => q = r,
         \A x \in I : \E r \in 1 .. L : f[r] = x
  PROVE  IsFiniteSet(I) /\ Cardinality(I) = L
<1>1. ExistsBijection(1 .. L, I)
  BY DEF ExistsBijection, Bijection, Injection, Surjection, IsInjective
<1>2. IsFiniteSet(1 .. L) /\ Cardinality(1 .. L) = L
  BY FS_Interval
<1> QED
  BY <1>1, <1>2, FS_Bijection

\* Every candidate has a place in the array.
LEMMA PermOnto ==
  ASSUME NEW cands \in Seq(Cands), NEW a, Perm(cands, a), NEW n \in 1 .. Len(cands)
  PROVE  \E k \in 1 .. Len(cands) : a[k].n = n
<1> DEFINE N == Len(cands)
           f == [k \in 1 .. N |-> a[k].n]
<1>1. N \in Nat /\ IsFiniteSet(1 .. N)
  BY FS_Interval
<1>2. f \in [1 .. N -> 1 .. N] /\ \A j, k \in 1 .. N : f[j] = f[k] => j = k
  BY DEF Perm, Pairs
<1> HIDE DEF f
<1>3. f \in Injection(1 .. N, 1 .. N)
  BY <1>2 DEF Injection, IsInjective
<1>4. f \in Surjection(1 .. N, 1 .. N)
  BY <1>1, <1>3, FS_Injection
<1>5. PICK k \in 1 .. N : f[k] = n
  BY <1>4 DEF Surjection
<1> QED
  BY <1>5 DEF f

\* When suppression is done for all positions, the survivors that there is room for are
\* what Justified asks for.
LEMMA CollectJustified ==
  ASSUME NEW cands \in Seq(Cands), Len(cands) # 0, NEW a, NEW order,
         OrderInv(cands, a, order),
         SuppressedBy(cands, a, order, 1 .. Valid(cands)),
         NEW L, L = Lesser(OBJ_NUMB_MAX_SIZE, Cardinality(Surviving(order))),
         NEW group,
         group = [r \in 1 .. L |-> LET i == Survivor(order, r)
                                   IN  Detection(cands, order[i], a[i].prob)]
  PROVE  Justified(cands, group)
<1> DEFINE N == Len(cands)
           V == Valid(cands)
           K == Surviving(order)
           C == Cardinality(K)
           e == [r \in 1 .. C |-> Survivor(order, r)]
           shown == {group[r].n : r \in DOMAIN group}
           NoWorse(n) == {m \in DOMAIN cands \ {n} : cands[m].prob >= cands[n].prob}
<1>1. /\ V \in 1 .. N /\ N \in Nat /\ V \in Nat
      /\ V = TOP_K \/ V = N
      /\ TOP_K \in Nat \ {0}
      /\ OBJ_NUMB_MAX_SIZE \in Nat \ {0}
      /\ DOMAIN cands = 1 .. N
  BY PermElements, PostProcessAssumption DEF OrderInv
<1>2. \A j \in 1 .. N : /\ a[j].n \in 1 .. N /\ a[j].prob \in Int
                        /\ a[j].prob = cands[a[j].n].prob
                        /\ cands[a[j].n].box \in Boxes
  BY PermElements DEF OrderInv
<1>3. \A i, j \in 1 .. N : /\ a[i].n = a[j].n => i = j
                           /\ i < j => a[i].prob >= a[j].prob
  BY DEF OrderInv, Perm, SortedBut, InOne
<1>4. /\ DOMAIN order = 1 .. V
      /\ \A j \in 1 .. V : order[j] = -1 \/ order[j] = a[j].n
      /\ \A j : j \in K <=> j \in 1 .. V /\ order[j] # -1
  BY DEF OrderInv, Surviving
<1>5. /\ K \subseteq 1 .. V /\ C \in 0 .. V
      /\ e \in [1 .. C -> K]
      /\ \A q, r \in 1 .. C : q < r => e[q] < e[r]
      /\ \A i \in K : \E r \in 1 .. C : e[r] = i
  BY <1>1, <1>4, SurvivorEnumerates
<1>6. L \in Nat /\ L <= C /\ L <= OBJ_NUMB_MAX_SIZE /\ (L < C => L = OBJ_NUMB_MAX_SIZE)
  BY <1>1, <1>5 DEF Lesser
<1> HIDE DEF N, V, K, C
<1>e. \A r \in 1 .. C : e[r] = Survivor(order, r)
  OBVIOUS
<1> HIDE DEF e
<1>7. ASSUME NEW r \in 1 .. L
      PROVE  /\ r \in 1 .. C /\ e[r] \in K /\ e[r] \in 1 .. V /\ e[r] \in 1 .. N
             /\ group[r].n = a[e[r]].n /\ group[r].prop = a[e[r]].prob
  <2>1. r \in 1 .. C
    BY <1>1, <1>5, <1>6
  <2>2. e[r] \in K /\ e[r] \in 1 .. V /\ e[r] \in 1 .. N
    <3>1. e[r] \in K
      BY <1>5, <2>1
    <3>2. e[r] \in 1 .. V
      BY <1>5, <3>1
    <3> QED
      BY <1>1, <3>1, <3>2
  <2>3. order[e[r]] = a[e[r]].n
    BY <1>4, <2>2
  <2>4. e[r] = Survivor(order, r)
    BY <1>e, <2>1
  <2>5. group[r] = Detection(cands, order[e[r]], a[e[r]].prob)
    BY <2>4
  <2> QED
    BY <2>1, <2>2, <2>3, <2>5 DEF Detection
<1>8. DOMAIN group = 1 .. L
  OBVIOUS
<1>9. Len(group) = L
  BY <1>6, <1>8
<1>10. \A m : m \in shown <=> \E r \in 1 .. L : m = a[e[r]].n
  BY <1>7, <1>8
<1>11. shown = {group[r].n : r \in 1 .. L}
  BY <1>8
<1>12. IsFiniteSet(shown) /\ Cardinality(shown) = L
  <2> DEFINE f == [r \in 1 .. L |-> group[r].n]
  <2>1. f \in [1 .. L -> shown] /\ \A x \in shown : \E r \in 1 .. L : f[r] = x
    BY <1>11
  <2>2. ASSUME NEW q \in 1 .. L, NEW r \in 1 .. L, f[q] = f[r] PROVE q = r
    <3>1. e[q] = e[r]
      BY <1>3, <1>7, <2>2
    <3>2. ~(q < r) /\ ~(r < q)
      BY <1>1, <1>5, <1>7, <3>1
    <3> QED
      BY <3>2
  <2>3. \A q, r \in 1 .. L : f[q] = f[r] => q = r
    BY <2>2
  <2> HIDE DEF f, shown
  <2> QED
    BY <1>6, <2>1, <2>3, ImageCounts
<1> HIDE DEF shown
<1>13. ASSUME NEW r \in DOMAIN group
       PROVE  /\ group[r].prop = cands[group[r].n].prob
              /\ r > 1 => group[r].prop <= group[r - 1].prop
  <2>1. r \in 1 .. L /\ r \in Nat
    BY <1>8
  <2>2. group[r].prop = cands[group[r].n].prob
    BY <1>2, <1>7, <2>1
  <2>3. ASSUME r > 1 PROVE group[r].prop <= group[r - 1].prop
    <3>1. r - 1 \in 1 .. L /\ r - 1 < r
      BY <1>6, <2>1, <2>3
    <3>2. e[r - 1] < e[r]
      BY <1>5, <1>7, <2>1, <3>1
    <3>3. a[e[r - 1]].prob >= a[e[r]].prob
      BY <1>3, <1>7, <2>1, <3>1, <3>2
    <3>4. a[e[r - 1]].prob \in Int /\ a[e[r]].prob \in Int
      BY <1>2, <1>7, <2>1, <3>1
    <3> QED
      BY <1>7, <2>1, <3>1, <3>3, <3>4
  <2> QED
    BY <2>2, <2>3
<1>14. ASSUME NEW m \in shown, NEW n \in shown, m # n
       PROVE  ~Overlapping(cands[m].box, cands[n].box)
  <2>1. PICK q \in 1 .. L : m = a[e[q]].n
    BY <1>10
  <2>2. PICK r \in 1 .. L : n = a[e[r]].n
    BY <1>10
  <2>3. /\ e[q] \in 1 .. V /\ e[r] \in 1 .. V /\ e[q] \in 1 .. N /\ e[r] \in 1 .. N
        /\ order[e[q]] # -1 /\ order[e[r]] # -1
    BY <1>4, <1>7
  <2>4. cands[m].box \in Boxes /\ cands[n].box \in Boxes
    BY <1>2, <2>1, <2>2, <2>3
  <2>5. e[q] < e[r] \/ e[r] < e[q]
    BY <1>14, <2>1, <2>2, <2>3
  <2>6. ~Clash(cands, a, e[q], e[r]) \/ ~Clash(cands, a, e[r], e[q])
    BY <2>3, <2>5 DEF SuppressedBy, V
  <2> QED
    BY <2>1, <2>2, <2>4, <2>6, OverlappingSymmetric DEF Clash
<1>15. ASSUME NEW n \in DOMAIN cands \ shown
       PROVE  \/ \E m \in shown \cap NoWorse(n) : Overlapping(cands[m].box, cands[n].box)
              \/ Cardinality(shown \cap NoWorse(n)) = OBJ_NUMB_MAX_SIZE
              \/ Cardinality(NoWorse(n)) >= TOP_K
  <2>0. n \in 1 .. N
    BY <1>1
  <2>1. PICK k \in 1 .. N : a[k].n = n
    BY <2>0, PermOnto DEF OrderInv, N
  <2>2. ASSUME NEW p \in 1 .. N, p < k PROVE a[p].n \in NoWorse(n)
    <3>1. a[p].n # n /\ a[p].n \in DOMAIN cands /\ a[p].prob >= a[k].prob
      BY <1>1, <1>2, <1>3, <2>1, <2>2
    <3>2. a[p].prob = cands[a[p].n].prob /\ a[k].prob = cands[n].prob
      BY <1>2, <2>1
    <3> QED
      BY <3>1, <3>2
  <2>3. IsFiniteSet(NoWorse(n))
    <3>1. IsFiniteSet(1 .. N) /\ NoWorse(n) \in SUBSET (1 .. N)
      BY <1>1, FS_Interval
    <3> QED
      BY <3>1, FS_Subset
  <2> HIDE DEF NoWorse
  <2>4. CASE k > V
    <3>1. V = TOP_K /\ \A p \in 1 .. V : p \in 1 .. N /\ p < k
      BY <1>1, <2>1, <2>4
    <3> DEFINE f == [p \in 1 .. V |-> a[p].n]
               I == {a[p].n : p \in 1 .. V}
    <3>2. f \in [1 .. V -> I] /\ \A x \in I : \E p \in 1 .. V : f[p] = x
      OBVIOUS
    <3>3. \A p, q \in 1 .. V : f[p] = f[q] => p = q
      BY <1>3, <3>1
    <3>4. I \in SUBSET NoWorse(n)
      BY <2>2, <3>1
    <3> HIDE DEF f, I
    <3>5. IsFiniteSet(I) /\ Cardinality(I) = V
      BY <1>1, <3>2, <3>3, ImageCounts
    <3>6. V <= Cardinality(NoWorse(n)) /\ Cardinality(NoWorse(n)) \in Nat
      BY <2>3, <3>4, <3>5, FS_Subset, FS_CardinalityType
    <3> QED
      BY <1>1, <3>1, <3>6
  <2>5. ASSUME NEW s \in 1 .. C, s > L, e[s] <= k
        PROVE  Cardinality(shown \cap NoWorse(n)) = OBJ_NUMB_MAX_SIZE
    <3>1. L = OBJ_NUMB_MAX_SIZE
      BY <1>1, <1>5, <1>6, <2>5
    <3>2. ASSUME NEW m \in shown PROVE m \in NoWorse(n)
      <4>1. PICK r \in 1 .. L : m = a[e[r]].n
        BY <1>10
      <4>2. r \in 1 .. C /\ r < s /\ e[r] \in 1 .. N
        BY <1>5, <1>6, <1>7, <2>5
      <4>3. e[r] < e[s] /\ e[s] \in 1 .. V
        BY <1>5, <4>2
      <4>4. e[r] < k
        BY <1>1, <2>5, <4>2, <4>3
      <4> QED
        BY <2>2, <4>1, <4>2, <4>4
    <3>3. shown \cap NoWorse(n) = shown
      BY <3>2
    <3> QED
      BY <1>12, <3>1, <3>3
  <2>6. CASE k <= V /\ order[k] = -1
    <3>1. k \in 1 .. V
      BY <1>1, <2>6
    <3>2. PICK p \in 1 .. V : p < k /\ order[p] # -1 /\ Clash(cands, a, p, k)
      BY <2>6, <3>1 DEF SuppressedBy, V
    <3>3. PICK s \in 1 .. C : e[s] = p
      BY <1>4, <1>5, <3>2
    <3>4. CASE s <= L
      <4>1. a[p].n \in shown
        BY <1>5, <1>6, <1>10, <3>3, <3>4
      <4>2. a[p].n \in NoWorse(n)
        BY <1>1, <2>2, <3>2
      <4>3. Overlapping(cands[a[p].n].box, cands[n].box)
        BY <2>1, <3>2 DEF Clash
      <4> QED
        BY <4>1, <4>2, <4>3
    <3>5. CASE s > L
      <4>1. e[s] <= k
        BY <1>1, <3>2, <3>3
      <4>2. Cardinality(shown \cap NoWorse(n)) = OBJ_NUMB_MAX_SIZE
        BY <2>5, <3>5, <4>1
      <4> QED
        BY <4>2
    <3> QED
      BY <1>5, <1>6, <3>4, <3>5
  <2>7. CASE k <= V /\ order[k] # -1
    <3>1. k \in 1 .. V /\ k \in K
      BY <1>1, <1>4, <2>7
    <3>2. PICK s \in 1 .. C : e[s] = k
      BY <1>5, <3>1
    <3>3. s \notin 1 .. L
      BY <1>10, <2>1, <3>2
    <3>4. s > L
      BY <1>5, <1>6, <3>3
    <3>5. e[s] <= k
      BY <1>1, <3>2
    <3>6. Cardinality(shown \cap NoWorse(n)) = OBJ_NUMB_MAX_SIZE
      BY <2>5, <3>4, <3>5
    <3> QED
      BY <3>6
  <2> QED
    BY <1>1, <2>4, <2>6, <2>7
<1>16. Len(group) = Cardinality(shown) /\ Len(group) <= OBJ_NUMB_MAX_SIZE
  BY <1>6, <1>9, <1>12
<1> QED
  BY <1>13, <1>14, <1>15, <1>16 DEF Justified, shown

----------------------------------------------------------------------------
(* The threshold.                                                          *)

\* A score that reaches the threshold passes the comparison in int8, and one that
\* passes is less than one step below the threshold.
LEMMA ThresholdInInt8 ==
  ASSUME NEW q \in Int8, NEW zp \in Int8
  PROVE  /\ 1000 * (q - zp) >= ThresMilli => q >= qnt_f32_to_affine(ThresMilli, zp)
         /\ ThresMilli < 1000 /\ q >= qnt_f32_to_affine(ThresMilli, zp) =>
              1000 * (q - zp) > ThresMilli - 1000
<1> DEFINE x == ThresMilli + 1000 * zp
           y == Truncate(x)
<1>1. q \in -128 .. 127 /\ zp \in -128 .. 127 /\ ThresMilli \in Int /\ x \in Int
  BY PostProcessAssumption DEF Int8
<1> HIDE DEF x
<1>2. y \in Int /\ y * 1000 < x + 1000 /\ x < y * 1000 + 1000
  BY <1>1 DEF Truncate
<1> HIDE DEF y
<1>3. qnt_f32_to_affine(ThresMilli, zp) = IF y <= -128 THEN -128 ELSE IF y >= 127 THEN 127 ELSE y
  BY DEF qnt_f32_to_affine, clip, x, y
<1>4. 1000 * (q - zp) >= ThresMilli => q * 1000 >= x
  BY <1>1 DEF x
<1>5. ThresMilli < 1000 => x < 128000
  BY <1>1 DEF x
<1>6. q * 1000 > x - 1000 => 1000 * (q - zp) > ThresMilli - 1000
  BY <1>1 DEF x
<1>7. q * 1000 >= x => q >= qnt_f32_to_affine(ThresMilli, zp)
  BY <1>1, <1>2, <1>3
<1>8. x < 128000 /\ q >= qnt_f32_to_affine(ThresMilli, zp) => q * 1000 > x - 1000
  BY <1>1, <1>2, <1>3
<1> QED
  BY <1>4, <1>5, <1>6, <1>7, <1>8

\* The candidates of a frame are the cells that pass.
Decoded(f, cands) ==
  /\ f \in UNION {Frames[t] : t \in Threads}
  /\ Len(cands) # 0
  /\ {cands[n].cell : n \in DOMAIN cands} = Found(f)

\* The candidates of a frame honour a threshold of at most one half.
LEMMA DecodedHonoured ==
  ASSUME ThresMilli < 1000, NEW f, NEW cands, Decoded(f, cands)
  PROVE  Honoured(f, cands)
<1> DEFINE found == {cands[n].cell : n \in DOMAIN cands}
<1>1. found = Found(f)
  BY DEF Decoded
<1> HIDE DEF found
<1> SUFFICES ASSUME NEW c \in Cells, NEW k \in Classes
             PROVE  LET q == f.cell[c].scores[k]
                        milli == 1000 * (q - f.zp[c[1]])
                    IN  /\ (milli >= ThresMilli /\ q > 0) => c \in found
                        /\ (OBJ_CLASS_NUM = 1 /\ c \in found) => milli > ThresMilli - 1000
  BY DEF Honoured, found
<1> DEFINE q == f.cell[c].scores[k]
           zp == f.zp[c[1]]
<1>2. q \in Int8 /\ zp \in Int8
  <2>1. /\ f.zp \in [DOMAIN Strides -> Int8]
        /\ f.cell \in [Cells -> [scores : [Classes -> Int8], dfl : [1 .. 4 -> 0 .. 15]]]
    BY FramesAssumption DEF Decoded
  <2>2. c[1] \in DOMAIN Strides
    BY DEF Cells
  <2> QED
    BY <2>1, <2>2
<1>3. k \in Passing(f, c) <=> q >= qnt_f32_to_affine(ThresMilli, zp) /\ q > 0
  BY DEF Passing
<1>4. OBJ_CLASS_NUM = 1 => \A l \in Classes : l = k
  BY DEF Classes
<1>5. OBJ_CLASS_NUM = 1 /\ c \in found => k \in Passing(f, c)
  BY <1>1, <1>4 DEF Found, Passing
<1>6. k \in Passing(f, c) => c \in found
  BY <1>1 DEF Found
<1> HIDE DEF q, zp
<1>7. 1000 * (q - zp) >= ThresMilli => q >= qnt_f32_to_affine(ThresMilli, zp)
  BY <1>2, ThresholdInInt8
<1>8. q >= qnt_f32_to_affine(ThresMilli, zp) => 1000 * (q - zp) > ThresMilli - 1000
  BY <1>2, ThresholdInInt8
<1> QED
  BY <1>3, <1>5, <1>6, <1>7, <1>8 DEF q, zp

----------------------------------------------------------------------------
(* The invariant.                                                          *)

Early == {"idle", "init", "load", "loaded", "decode"}

Places == Early \cup {"sort", "partition", "nms", "name"}

NoOutputs == [zp |-> <<>>, cell |-> <<>>]

Outputs == (UNION {Frames[t] : t \in Threads}) \cup {NoOutputs}

PairRecs == [prob : Int, n : Nat]

Detections ==
  [n : Nat, class : Classes, prop : Int, left : Int, top : Int, right : Int, bottom : Int]

Locals ==
  [frame : Outputs, cands : Seq(Cands), array : Seq(PairRecs), todo : SUBSET (Nat \X Nat),
   seg : [left : Nat, right : Nat, low : Nat, high : Nat, pivot : PairRecs],
   order : Seq(Int), c : Nat, i : Nat, group : Seq(Detections)]

TypeOK ==
  /\ init \in {-1, 0}
  /\ labels \in [Classes -> BOOLEAN]
  /\ incomplete \in BOOLEAN
  /\ stopping \in BOOLEAN
  /\ pc \in [Threads -> Places]
  /\ call \in [Threads -> Locals]

\* The positions whose turn in the loop over i has come.
Done(l) == IF l.c = 0 THEN 1 .. (l.i - 1) ELSE 1 .. Valid(l.cands)

NmsInv(l) ==
  /\ OrderInv(l.cands, l.array, l.order)
  /\ l.i \in 1 .. Valid(l.cands)
  /\ OBJ_CLASS_NUM = 1 => SuppressedBy(l.cands, l.array, l.order, Done(l))

\* What holds of the locals l of a thread that is at p.
ThreadInv(p, l) ==
  /\ p \notin Early => Decoded(l.frame, l.cands)
  /\ p \in {"sort", "partition"} => l.c = 0 /\ l.i = 1
  /\ p = "sort" => SortInv(l.cands, l.array, l.todo)
  /\ p = "partition" => PartitionInv(l.cands, l.array, l.todo, l.seg)
  /\ p = "nms" => NmsInv(l)
  /\ p = "name" /\ OBJ_CLASS_NUM = 1 => Justified(l.cands, l.group)

CallInv == TypeOK /\ \A t \in Threads : ThreadInv(pc[t], call[t])

\* Functions on 1 .. n are sequences.
LEMMA FunctionIsSeq ==
  ASSUME NEW S, NEW n \in Nat, NEW f \in [1 .. n -> S]
  PROVE  f \in Seq(S) /\ Len(f) = n /\ DOMAIN f = 1 .. n
OBVIOUS

\* The locals outside of a call.
LEMMA NoCallIsLocals ==
  NoCall \in Locals
<1>1. NoOutputs \in Outputs
  BY DEF Outputs
<1>2. NoSegment \in [left : Nat, right : Nat, low : Nat, high : Nat, pivot : PairRecs]
  BY DEF NoSegment, PairRecs
<1>3. /\ <<>> \in Seq(Cands) /\ <<>> \in Seq(PairRecs) /\ {} \in SUBSET (Nat \X Nat)
      /\ <<>> \in Seq(Int) /\ <<>> \in Seq(Detections)
  OBVIOUS
<1> QED
  BY <1>1, <1>2, <1>3 DEF NoCall, Locals, NoOutputs

\* A step of a thread on its own locals has to establish what holds at the new place.
LEMMA LocalStep ==
  ASSUME CallInv, NEW t \in Threads, NEW from, NEW to \in Places, NEW locals \in Locals,
         Local(t, from, to, locals), ThreadInv(to, locals)
  PROVE  CallInv'
<1>1. TypeOK'
  BY DEF CallInv, TypeOK, Local, Goto, shared
<1>2. ASSUME NEW u \in Threads PROVE ThreadInv(pc'[u], call'[u])
  <2>1. CASE u = t
    BY <2>1 DEF CallInv, TypeOK, Local, Goto
  <2>2. CASE u # t
    BY <2>2 DEF CallInv, TypeOK, Local, Goto
  <2> QED
    BY <2>1, <2>2
<1> QED
  BY <1>1, <1>2 DEF CallInv

\* Nothing is asked of the locals of a thread that has not decoded yet.
LEMMA EarlyStep ==
  ASSUME CallInv, NEW t \in Threads, NEW from, NEW to \in Early, Goto(t, from, to),
         call' = call, TypeOK'
  PROVE  CallInv'
<1>1. ASSUME NEW u \in Threads PROVE ThreadInv(pc'[u], call'[u])
  <2>1. CASE u = t
    <3>1. pc'[u] \in Early
      BY <2>1 DEF CallInv, TypeOK, Goto
    <3> QED
      BY <3>1 DEF ThreadInv, Early
  <2>2. CASE u # t
    BY <2>2 DEF CallInv, TypeOK, Goto
  <2> QED
    BY <2>1, <2>2
<1> QED
  BY <1>1 DEF CallInv

----------------------------------------------------------------------------
(* One lemma for each step of post_process on the locals.                  *)

\* What a cell becomes has the type of a candidate.
LEMMA CandidateType ==
  ASSUME NEW t \in Threads, NEW f \in Frames[t], NEW c \in Cells, NEW k \in Classes
  PROVE  Candidate(f, c, k) \in Cands
<1> DEFINE d == f.cell[c].dfl
           s == Strides[c[1]]
<1>1. /\ f.zp \in [DOMAIN Strides -> Int8]
      /\ f.cell \in [Cells -> [scores : [Classes -> Int8], dfl : [1 .. 4 -> 0 .. 15]]]
  BY FramesAssumption
<1>2. c[1] \in DOMAIN Strides /\ c[2] \in Int /\ c[3] \in Int
  BY PostProcessAssumption DEF Cells
<1>3. s \in Int
  BY <1>2, PostProcessAssumption
<1>4. d \in [1 .. 4 -> 0 .. 15] /\ f.cell[c].scores[k] \in Int8 /\ f.zp[c[1]] \in Int8
  BY <1>1, <1>2
<1>5. d[1] \in Int /\ d[2] \in Int /\ d[3] \in Int /\ d[4] \in Int
  BY <1>4
<1>6. Box(f, c) \in Boxes
  BY <1>2, <1>3, <1>5 DEF Box, Boxes
<1> DEFINE q == f.cell[c].scores[k]
           z == f.zp[c[1]]
<1>7. q - z \in Int
  <2> HIDE DEF q, z
  <2>1. q \in -128 .. 127 /\ z \in -128 .. 127
    BY <1>4 DEF Int8, q, z
  <2> QED
    BY <2>1
<1> QED
  BY <1>6, <1>7 DEF Candidate, Cands

\* Before the sort the array is the candidates in the order of the loops, one segment.
LEMMA DecodeKeepsInv ==
  ASSUME CallInv, NEW t \in Threads, NEW f \in Frames[t], Decode(t, f)
  PROVE  CallInv'
<1> DEFINE K == Found(f)
           C == Cardinality(K)
           cells == [n \in 1 .. C |-> Visited(K, n)]
<1>1. K \in SUBSET Cells
  BY DEF Found
<1> HIDE DEF K
<1>2. /\ C \in Nat
      /\ \A n \in 1 .. C : Visited(K, n) \in K
      /\ \A c \in K : \E n \in 1 .. C : Visited(K, n) = c
  BY <1>1, VisitedEnumerates
<1> HIDE DEF C
<1>3. /\ cells \in [1 .. C -> Cells] /\ DOMAIN cells = 1 .. C
      /\ \A n \in 1 .. C : cells[n] \in K
      /\ \A c \in K : \E n \in 1 .. C : cells[n] = c
  BY <1>1, <1>2
<1>4. PICK class \in [1 .. C -> Classes] :
        LET cands == [n \in 1 .. C |-> Candidate(f, cells[n], class[n])]
        IN  IF cands = <<>> THEN Local(t, "decode", "idle", NoCall)
            ELSE Local(t, "decode", "sort",
                   [NoCall EXCEPT !.frame = f, !.cands = cands,
                      !.array = [n \in DOMAIN cands |-> [prob |-> cands[n].prob, n |-> n]],
                      !.todo = Segment(1, Len(cands))])
  BY DEF Decode, K, C
<1> HIDE DEF cells
<1> DEFINE cands == [n \in 1 .. C |-> Candidate(f, cells[n], class[n])]
           array == [n \in 1 .. C |-> [prob |-> cands[n].prob, n |-> n]]
           todo == Segment(1, C)
           l == [NoCall EXCEPT !.frame = f, !.cands = cands, !.array = array, !.todo = todo]
<1>5. /\ cands \in [1 .. C -> Cands]
      /\ \A n \in 1 .. C : cands[n].cell = cells[n] /\ cands[n].prob \in Int
  <2>1. ASSUME NEW n \in 1 .. C PROVE Candidate(f, cells[n], class[n]) \in Cands
    BY <1>3, CandidateType
  <2> QED
    BY <2>1 DEF Candidate, Cands
<1>6. cands \in Seq(Cands) /\ Len(cands) = C /\ DOMAIN cands = 1 .. C
  BY <1>2, <1>5, FunctionIsSeq
<1>7. CASE cands = <<>>
  <2>1. Local(t, "decode", "idle", NoCall)
    BY <1>4, <1>7
  <2>2. ThreadInv("idle", NoCall)
    BY DEF ThreadInv, Early
  <2> QED
    BY <2>1, <2>2, NoCallIsLocals, LocalStep DEF Places, Early
<1>8. CASE cands # <<>>
  <2>1. Local(t, "decode", "sort", l)
    BY <1>4, <1>6, <1>8
  <2>2. C # 0
    BY <1>6, <1>8, EmptySeq
  <2> HIDE DEF cands
  <2>3. array \in [1 .. C -> Pairs(C)] /\ array \in [1 .. C -> PairRecs]
    BY <1>2, <1>5 DEF Pairs, PairRecs
  <2>4. array \in Seq(PairRecs)
    BY <1>2, <2>3, FunctionIsSeq
  <2>5. Perm(cands, array)
    BY <1>6, <2>3 DEF Perm
  <2> HIDE DEF array
  <2>6. todo \in SUBSET ((1 .. C) \X (1 .. C)) /\ \A s \in todo : s = <<1, C>> /\ 1 < C
    BY <1>2 DEF Segment
  <2>7. Segs(C, todo)
    BY <1>2, <2>6 DEF Segs
  <2>8. SortedBut(C, array, todo)
    <3> SUFFICES ASSUME NEW i \in 1 .. C, NEW j \in 1 .. C, i < j PROVE InOne(todo, i, j)
      BY DEF SortedBut
    <3>1. <<1, C>> \in todo
      BY <1>2 DEF Segment
    <3> QED
      BY <1>2, <3>1 DEF InOne
  <2> HIDE DEF todo
  <2>9. Decoded(f, cands)
    <3>1. {cands[n].cell : n \in DOMAIN cands} = K
      BY <1>3, <1>5, <1>6
    <3> QED
      BY <1>6, <2>2, <3>1 DEF Decoded, K
  <2>10. /\ l \in Locals
         /\ l.frame = f /\ l.cands = cands /\ l.array = array /\ l.todo = todo
         /\ l.c = 0 /\ l.i = 1
    <3>1. f \in Outputs /\ todo \in SUBSET (Nat \X Nat)
      BY <2>6 DEF Outputs
    <3>2. NoCall.c = 0 /\ NoCall.i = 1
      BY DEF NoCall
    <3> QED
      BY <1>6, <2>4, <3>1, <3>2, NoCallIsLocals DEF Locals
  <2>11. ThreadInv("sort", l)
    BY <1>6, <2>5, <2>7, <2>8, <2>9, <2>10 DEF ThreadInv, SortInv
  <2> HIDE DEF l
  <2> QED
    BY <2>1, <2>10, <2>11, LocalStep DEF Places
<1> QED
  BY <1>7, <1>8

\* What the invariant says of a thread in the sort or later.
LEMMA LocalsOf ==
  ASSUME CallInv, NEW t \in Threads
  PROVE  /\ call[t] \in Locals
         /\ call[t].cands \in Seq(Cands) /\ Len(call[t].cands) \in Nat
         /\ ThreadInv(pc[t], call[t])
         /\ pc[t] \notin Early => Len(call[t].cands) # 0
<1>1. call[t] \in Locals /\ ThreadInv(pc[t], call[t])
  BY DEF CallInv, TypeOK
<1>2. call[t].cands \in Seq(Cands)
  BY <1>1 DEF Locals
<1>3. Len(call[t].cands) \in Nat
  BY <1>2
<1> QED
  BY <1>1, <1>2, <1>3 DEF ThreadInv, Decoded

\* A call of quick_sort_indice_inverse begins.
LEMMA BeginSegmentStep ==
  ASSUME CallInv, NEW t \in Threads, BeginSegment(t)
  PROVE  CallInv'
<1> DEFINE l == call[t]
           N == Len(l.cands)
<1>1. PICK s \in l.todo :
        Local(t, "sort", "partition",
          [l EXCEPT !.todo = l.todo \ {s},
                    !.seg = [left |-> s[1], right |-> s[2], low |-> s[1], high |-> s[2],
                             pivot |-> l.array[s[1]]]])
  BY DEF BeginSegment
<1>2. pc[t] = "sort"
  BY <1>1 DEF Local, Goto
<1>3. /\ l \in Locals /\ l.cands \in Seq(Cands) /\ N \in Nat /\ ThreadInv("sort", l)
  BY <1>2, LocalsOf
<1>4. SortInv(l.cands, l.array, l.todo) /\ Decoded(l.frame, l.cands) /\ l.c = 0 /\ l.i = 1
  BY <1>3 DEF ThreadInv, Early
<1> DEFINE g == [left |-> s[1], right |-> s[2], low |-> s[1], high |-> s[2],
                 pivot |-> l.array[s[1]]]
           m == [l EXCEPT !.todo = l.todo \ {s}, !.seg = g]
<1> HIDE DEF l
<1>5. PartitionInv(l.cands, l.array, l.todo \ {s}, g)
  BY <1>3, <1>4, BeginSegmentKeepsInv
<1>6. g \in [left : Nat, right : Nat, low : Nat, high : Nat, pivot : PairRecs]
  <2>1. g \in SegRecs(N)
    BY <1>5 DEF PartitionInv
  <2> HIDE DEF g
  <2> QED
    BY <1>3, <2>1 DEF SegRecs, Pairs, PairRecs
<1> HIDE DEF g
<1>7. l.todo \ {s} \in SUBSET (Nat \X Nat)
  BY <1>3 DEF Locals
<1>8. /\ m \in Locals /\ m.cands = l.cands /\ m.array = l.array /\ m.todo = l.todo \ {s}
      /\ m.seg = g /\ m.c = l.c /\ m.i = l.i /\ m.frame = l.frame
  BY <1>3, <1>6, <1>7 DEF Locals
<1>9. Local(t, "sort", "partition", m)
  BY <1>1 DEF g, l
<1> HIDE DEF m
<1>10. ThreadInv("partition", m)
  BY <1>4, <1>5, <1>8 DEF ThreadInv
<1> QED
  BY <1>8, <1>9, <1>10, LocalStep DEF Places

\* The body of its loop.
LEMMA PartitionStep ==
  ASSUME CallInv, NEW t \in Threads, Partition(t)
  PROVE  CallInv'
<1> DEFINE l == call[t]
           N == Len(l.cands)
           a == l.array
           g == l.seg
<1>1. PICK h \in g.low .. g.high :
        /\ HighStops(a, g.low, g.high, g.pivot.prob, h)
        /\ LET b == [a EXCEPT ![g.low] = a[h]]
           IN  \E k \in g.low .. h :
                 /\ LowStops(b, g.low, h, g.pivot.prob, k)
                 /\ Local(t, "partition", "partition",
                      [l EXCEPT !.array = [b EXCEPT ![h] = b[k]],
                                !.seg = [g EXCEPT !.low = k, !.high = h]])
  BY DEF Partition
<1> DEFINE b == [a EXCEPT ![g.low] = a[h]]
<1>2. PICK k \in g.low .. h :
        /\ LowStops(b, g.low, h, g.pivot.prob, k)
        /\ Local(t, "partition", "partition",
             [l EXCEPT !.array = [b EXCEPT ![h] = b[k]],
                       !.seg = [g EXCEPT !.low = k, !.high = h]])
  BY <1>1
<1>3. pc[t] = "partition"
  BY <1>2 DEF Local, Goto
<1>4. /\ l \in Locals /\ l.cands \in Seq(Cands) /\ N \in Nat /\ ThreadInv("partition", l)
  BY <1>3, LocalsOf
<1>5. PartitionInv(l.cands, a, l.todo, g) /\ Decoded(l.frame, l.cands) /\ l.c = 0 /\ l.i = 1
  BY <1>4 DEF ThreadInv, Early
<1> DEFINE w == [b EXCEPT ![h] = b[k]]
           n == [g EXCEPT !.low = k, !.high = h]
           m == [l EXCEPT !.array = w, !.seg = n]
<1>6. Local(t, "partition", "partition", m)
  BY <1>2
<1> HIDE DEF l, a, g
<1>7. PartitionInv(l.cands, w, l.todo, n)
  <2> HIDE DEF b
  <2>1. b = [a EXCEPT ![g.low] = a[h]]
    BY DEF b
  <2> QED
    BY <1>1, <1>2, <1>4, <1>5, <2>1, PartitionKeepsInv
<1> HIDE DEF b, w, n
<1>8. /\ w \in [1 .. N -> Pairs(N)] /\ n \in SegRecs(N)
  BY <1>7 DEF PartitionInv
<1>9. w \in Seq(PairRecs)
  <2>1. w \in [1 .. N -> PairRecs]
    BY <1>4, <1>8 DEF Pairs, PairRecs
  <2> QED
    BY <1>4, <2>1, FunctionIsSeq
<1>10. n \in [left : Nat, right : Nat, low : Nat, high : Nat, pivot : PairRecs]
  BY <1>4, <1>8 DEF SegRecs, Pairs, PairRecs
<1>11. /\ m \in Locals /\ m.cands = l.cands /\ m.array = w /\ m.todo = l.todo
       /\ m.seg = n /\ m.c = l.c /\ m.i = l.i /\ m.frame = l.frame
  BY <1>4, <1>9, <1>10 DEF Locals
<1> HIDE DEF m
<1>12. ThreadInv("partition", m)
  BY <1>5, <1>7, <1>11 DEF ThreadInv
<1> QED
  BY <1>6, <1>11, <1>12, LocalStep DEF Places

\* The pivot is stored, the two calls on its sides are to come.
LEMMA EndSegmentStep ==
  ASSUME CallInv, NEW t \in Threads, EndSegment(t)
  PROVE  CallInv'
<1> DEFINE l == call[t]
           N == Len(l.cands)
           g == l.seg
           w == [l.array EXCEPT ![g.low] = g.pivot]
           T == l.todo \cup Segment(g.left, g.low - 1) \cup Segment(g.low + 1, g.right)
           m == [l EXCEPT !.array = w, !.todo = T, !.seg = NoSegment]
<1>1. g.low >= g.high /\ Local(t, "partition", "sort", m)
  BY DEF EndSegment
<1>2. pc[t] = "partition"
  BY <1>1 DEF Local, Goto
<1>3. /\ l \in Locals /\ l.cands \in Seq(Cands) /\ N \in Nat /\ ThreadInv("partition", l)
  BY <1>2, LocalsOf
<1>4. PartitionInv(l.cands, l.array, l.todo, g) /\ Decoded(l.frame, l.cands)
      /\ l.c = 0 /\ l.i = 1
  BY <1>3 DEF ThreadInv, Early
<1> HIDE DEF l, g
<1>5. SortInv(l.cands, w, T)
  BY <1>1, <1>3, <1>4, EndSegmentKeepsInv
<1> HIDE DEF w, T
<1>6. w \in [1 .. N -> Pairs(N)] /\ T \in SUBSET ((1 .. N) \X (1 .. N))
  BY <1>5 DEF SortInv, Perm, Segs
<1>7. w \in Seq(PairRecs)
  <2>1. w \in [1 .. N -> PairRecs]
    BY <1>3, <1>6 DEF Pairs, PairRecs
  <2> QED
    BY <1>3, <2>1, FunctionIsSeq
<1>8. T \in SUBSET (Nat \X Nat)
  BY <1>3, <1>6
<1>9. NoSegment \in [left : Nat, right : Nat, low : Nat, high : Nat, pivot : PairRecs]
  BY DEF NoSegment, PairRecs
<1>10. /\ m \in Locals /\ m.cands = l.cands /\ m.array = w /\ m.todo = T
       /\ m.c = l.c /\ m.i = l.i /\ m.frame = l.frame
  BY <1>3, <1>7, <1>8, <1>9 DEF Locals
<1> HIDE DEF m
<1>11. ThreadInv("sort", m)
  BY <1>4, <1>5, <1>10 DEF ThreadInv
<1> QED
  BY <1>1, <1>10, <1>11, LocalStep DEF Places

\* When no segment is left the array is sorted, and nothing is suppressed yet.
LEMMA EndSortStep ==
  ASSUME CallInv, NEW t \in Threads, EndSort(t)
  PROVE  CallInv'
<1> DEFINE l == call[t]
           N == Len(l.cands)
           V == Valid(l.cands)
           o == [i \in 1 .. V |-> l.array[i].n]
           m == [l EXCEPT !.order = o]
<1>1. l.todo = {} /\ Local(t, "sort", "nms", m)
  BY DEF EndSort, Valid
<1>2. pc[t] = "sort"
  BY <1>1 DEF Local, Goto
<1>3. /\ l \in Locals /\ l.cands \in Seq(Cands) /\ N \in Nat /\ N # 0 /\ ThreadInv("sort", l)
  BY <1>2, LocalsOf DEF Early
<1>4. SortInv(l.cands, l.array, l.todo) /\ Decoded(l.frame, l.cands) /\ l.c = 0 /\ l.i = 1
  BY <1>3 DEF ThreadInv, Early
<1> HIDE DEF l
<1>5. /\ Perm(l.cands, l.array) /\ SortedBut(N, l.array, {})
  BY <1>1, <1>4 DEF SortInv
<1>6. /\ V \in 1 .. N /\ V \in Nat
      /\ \A j \in 1 .. N : l.array[j].n \in 1 .. N
  BY <1>3, <1>5, PermElements
<1> HIDE DEF V
<1>7. /\ o \in [1 .. V -> Int]
      /\ \A j \in 1 .. V : o[j] = l.array[j].n /\ o[j] # -1
  BY <1>3, <1>6
<1>8. o \in Seq(Int)
  BY <1>6, <1>7, FunctionIsSeq
<1> HIDE DEF o
<1>9. OrderInv(l.cands, l.array, o)
  BY <1>5, <1>7 DEF OrderInv, V
<1>10. SuppressedBy(l.cands, l.array, o, {})
  BY <1>7 DEF SuppressedBy, V
<1>11. /\ m \in Locals /\ m.cands = l.cands /\ m.array = l.array /\ m.order = o
       /\ m.c = 0 /\ m.i = 1 /\ m.frame = l.frame
  BY <1>3, <1>4, <1>8 DEF Locals
<1> HIDE DEF m
<1>12. Done(m) = {}
  BY <1>11 DEF Done
<1>13. NmsInv(m)
  BY <1>6, <1>9, <1>10, <1>11, <1>12 DEF NmsInv, V
<1>14. ThreadInv("nms", m)
  BY <1>4, <1>11, <1>13 DEF ThreadInv
<1> QED
  BY <1>1, <1>11, <1>14, LocalStep DEF Places

\* An iteration of nms, the last of a class or not.
LEMMA NmsStep ==
  ASSUME CallInv, NEW t \in Threads, Nms(t)
  PROVE  CallInv'
<1> DEFINE l == call[t]
           N == Len(l.cands)
           V == Valid(l.cands)
           o == Suppress(l.cands, l.order, l.i, l.c)
           again == l.i < Len(l.order)
           j == IF again THEN l.i + 1 ELSE 1
           d == IF again THEN l.c ELSE l.c + 1
           m == [l EXCEPT !.order = o, !.i = j, !.c = d]
<1>1. l.c \in Classes /\ Local(t, "nms", "nms", m)
  BY DEF Nms
<1>2. pc[t] = "nms"
  BY <1>1 DEF Local, Goto
<1>3. /\ l \in Locals /\ l.cands \in Seq(Cands) /\ N \in Nat /\ N # 0 /\ ThreadInv("nms", l)
  BY <1>2, LocalsOf DEF Early
<1>4. NmsInv(l) /\ Decoded(l.frame, l.cands)
  BY <1>3 DEF ThreadInv, Early
<1> HIDE DEF l
<1>5. /\ OrderInv(l.cands, l.array, l.order) /\ l.i \in 1 .. V
      /\ OBJ_CLASS_NUM = 1 => SuppressedBy(l.cands, l.array, l.order, Done(l))
  BY <1>4 DEF NmsInv
<1>6. V \in 1 .. N /\ V \in Nat
  BY <1>3, <1>5, PermElements DEF OrderInv
<1>7. Len(l.order) = V
  BY <1>5, <1>6, FunctionIsSeq DEF OrderInv
<1>8. /\ OrderInv(l.cands, l.array, o)
      /\ \A D \in SUBSET (1 .. (l.i - 1)) :
           l.cands[l.i].class = l.c /\ SuppressedBy(l.cands, l.array, l.order, D) =>
             SuppressedBy(l.cands, l.array, o, D \cup {l.i})
  BY <1>3, <1>5, SuppressKeepsInv
<1> HIDE DEF o
<1>9. o \in Seq(Int)
  BY <1>6, <1>8, FunctionIsSeq DEF OrderInv
<1> HIDE DEF V
<1>10. j \in 1 .. V /\ j \in Nat /\ d \in Nat /\ l.c \in Nat
  <2>1. l.c \in Nat
    BY <1>3 DEF Locals
  <2>2. j \in 1 .. V
    BY <1>5, <1>6, <1>7
  <2> QED
    BY <2>1, <2>2
<1>11. ASSUME OBJ_CLASS_NUM = 1
       PROVE  SuppressedBy(l.cands, l.array, o, IF d = 0 THEN 1 .. (j - 1) ELSE 1 .. V)
  <2>1. l.c = 0 /\ Done(l) = 1 .. (l.i - 1)
    BY <1>1, <1>11 DEF Classes, Done
  <2>2. l.cands[l.i].class = l.c
    <3>1. l.cands[l.i] \in Cands
      BY <1>3, <1>5, <1>6, ElementOfSeq
    <3> QED
      BY <1>1, <1>11, <3>1 DEF Cands, Classes
  <2>3. SuppressedBy(l.cands, l.array, o, (1 .. (l.i - 1)) \cup {l.i})
    BY <1>5, <1>8, <1>11, <2>1, <2>2
  <2>4. (1 .. (l.i - 1)) \cup {l.i} = 1 .. l.i
    BY <1>5, <1>6
  <2>5. CASE again
    <3>1. d = 0 /\ j - 1 = l.i
      BY <1>5, <1>6, <2>1, <2>5
    <3> QED
      BY <2>3, <2>4, <3>1
  <2>6. CASE ~again
    <3>1. d # 0 /\ V = l.i
      BY <1>5, <1>6, <1>7, <2>1, <2>6
    <3> QED
      BY <2>3, <2>4, <3>1
  <2> QED
    BY <2>5, <2>6
<1>12. /\ m \in Locals /\ m.cands = l.cands /\ m.array = l.array /\ m.order = o
       /\ m.c = d /\ m.i = j /\ m.frame = l.frame
  BY <1>3, <1>9, <1>10 DEF Locals
<1> HIDE DEF m, j, d
<1>13. NmsInv(m)
  BY <1>8, <1>10, <1>11, <1>12 DEF NmsInv, Done, V
<1>14. ThreadInv("nms", m)
  BY <1>4, <1>12, <1>13 DEF ThreadInv
<1> QED
  BY <1>1, <1>12, <1>14, LocalStep DEF Places

\* What is collected has the class of a candidate.
LEMMA DetectionType ==
  ASSUME NEW cands \in Seq(Cands), NEW n \in 1 .. Len(cands), NEW prob \in Int
  PROVE  Detection(cands, n, prob) \in Detections
<1>1. cands[n] \in Cands
  BY ElementOfSeq
<1>2. cands[n].class \in Classes /\ cands[n].box \in Boxes
  BY <1>1 DEF Cands
<1>3. ASSUME NEW x \in Int PROVE Scaled(x) \in Int
  <2>1. model_in \in Int /\ Upscale \in Int
    BY PostProcessAssumption
  <2>2. clamp(x, model_in) \in Int
    BY <2>1 DEF clamp
  <2> QED
    BY <2>1, <2>2 DEF Scaled
<1>4. /\ Scaled(cands[n].box.x1) \in Int /\ Scaled(cands[n].box.y1) \in Int
      /\ Scaled(cands[n].box.x2) \in Int /\ Scaled(cands[n].box.y2) \in Int
  BY <1>2, <1>3 DEF Boxes
<1>5. n \in Nat
  OBVIOUS
<1> QED
  BY <1>2, <1>4, <1>5 DEF Detection, Detections

\* The collection ends the loops over the classes.
LEMMA CollectStep ==
  ASSUME CallInv, NEW t \in Threads, Collect(t)
  PROVE  CallInv'
<1> DEFINE l == call[t]
           N == Len(l.cands)
           V == Valid(l.cands)
           C == Cardinality(Surviving(l.order))
           L == Lesser(OBJ_NUMB_MAX_SIZE, C)
           group == [r \in 1 .. L |-> LET i == Survivor(l.order, r)
                                      IN  Detection(l.cands, l.order[i], l.array[i].prob)]
           m == [l EXCEPT !.group = group]
<1>1. l.c \notin Classes /\ Local(t, "nms", "name", m)
  BY DEF Collect
<1>2. pc[t] = "nms"
  BY <1>1 DEF Local, Goto
<1>3. /\ l \in Locals /\ l.cands \in Seq(Cands) /\ N \in Nat /\ N # 0 /\ ThreadInv("nms", l)
  BY <1>2, LocalsOf DEF Early
<1>4. NmsInv(l) /\ Decoded(l.frame, l.cands)
  BY <1>3 DEF ThreadInv, Early
<1> HIDE DEF l
<1>5. /\ OrderInv(l.cands, l.array, l.order)
      /\ OBJ_CLASS_NUM = 1 => SuppressedBy(l.cands, l.array, l.order, Done(l))
  BY <1>4 DEF NmsInv
<1>6. /\ V \in 1 .. N /\ V \in Nat
      /\ \A j \in 1 .. N : l.array[j].n \in 1 .. N /\ l.array[j].prob \in Int
  BY <1>3, <1>5, PermElements DEF OrderInv
<1>7. /\ DOMAIN l.order = 1 .. V
      /\ \A j \in Surviving(l.order) : j \in 1 .. V /\ l.order[j] = l.array[j].n
  BY <1>5 DEF OrderInv, Surviving
<1> HIDE DEF V
<1>8. C \in Nat /\ \A r \in 1 .. C : Survivor(l.order, r) \in Surviving(l.order)
  BY <1>6, <1>7, SurvivorEnumerates
<1> HIDE DEF C
<1>9. L \in Nat /\ L <= C
  BY <1>8, PostProcessAssumption DEF Lesser
<1>10. group \in Seq(Detections)
  <2>1. ASSUME NEW r \in 1 .. L
        PROVE  LET i == Survivor(l.order, r)
               IN  Detection(l.cands, l.order[i], l.array[i].prob) \in Detections
    <3> DEFINE i == Survivor(l.order, r)
    <3>1. r \in 1 .. C
      BY <1>8, <1>9
    <3>2. i \in 1 .. N /\ l.order[i] = l.array[i].n
      BY <1>6, <1>7, <1>8, <3>1
    <3> HIDE DEF i
    <3>3. l.order[i] \in 1 .. N /\ l.array[i].prob \in Int
      BY <1>6, <3>2
    <3>4. Detection(l.cands, l.order[i], l.array[i].prob) \in Detections
      BY <1>3, <3>3, DetectionType
    <3> QED
      BY <3>4 DEF i
  <2>2. group \in [1 .. L -> Detections]
    BY <2>1
  <2> HIDE DEF group, L
  <2> QED
    BY <1>9, <2>2, FunctionIsSeq
<1>11. ASSUME OBJ_CLASS_NUM = 1 PROVE Justified(l.cands, group)
  <2>1. Done(l) = 1 .. V
    BY <1>1, <1>11 DEF Done, Classes, V
  <2>2. SuppressedBy(l.cands, l.array, l.order, 1 .. Valid(l.cands))
    BY <1>5, <1>11, <2>1 DEF V
  <2>3. L = Lesser(OBJ_NUMB_MAX_SIZE, Cardinality(Surviving(l.order)))
    BY DEF C
  <2> HIDE DEF L
  <2> QED
    BY <1>3, <1>5, <2>2, <2>3, CollectJustified
<1> HIDE DEF group
<1>12. /\ m \in Locals /\ m.cands = l.cands /\ m.group = group /\ m.frame = l.frame
  BY <1>3, <1>10 DEF Locals
<1> HIDE DEF m
<1>13. ThreadInv("name", m)
  BY <1>4, <1>11, <1>12 DEF ThreadInv
<1> QED
  BY <1>1, <1>12, <1>13, LocalStep DEF Places

----------------------------------------------------------------------------
(* The invariant is inductive.                                             *)

\* At first no thread has been called.
LEMMA CallInvInit ==
  Init => CallInv
<1> SUFFICES ASSUME Init PROVE CallInv
  OBVIOUS
<1>1. TypeOK
  <2>1. call \in [Threads -> Locals]
    BY NoCallIsLocals DEF Init
  <2>2. pc \in [Threads -> Places]
    BY DEF Init, Places, Early
  <2> QED
    BY <2>1, <2>2 DEF Init, TypeOK
<1>2. ASSUME NEW t \in Threads PROVE ThreadInv(pc[t], call[t])
  BY DEF Init, ThreadInv, Early
<1> QED
  BY <1>1, <1>2 DEF CallInv

\* The steps that come before the frame is decoded leave the locals alone.
LEMMA EarlyActions ==
  ASSUME CallInv, NEW t \in Threads,
         Call(t) \/ TestInit(t) \/ LoadLabels(t) \/ SetInit(t)
  PROVE  CallInv'
<1>1. CASE Call(t)
  <2>1. TypeOK'
    BY <1>1 DEF Call, Goto, CallInv, TypeOK, Places, Early, shared
  <2> QED
    BY <1>1, <2>1, EarlyStep DEF Call, Early
<1>2. CASE TestInit(t)
  <2> DEFINE to == IF init = -1 THEN "load" ELSE "decode"
  <2>1. to \in Early /\ Goto(t, "init", to) /\ call' = call /\ UNCHANGED shared
    BY <1>2 DEF TestInit, Early
  <2> HIDE DEF to
  <2>2. TypeOK'
    BY <2>1 DEF Goto, CallInv, TypeOK, Places, shared
  <2> QED
    BY <2>1, <2>2, EarlyStep
<1>3. CASE LoadLabels(t)
  <2>1. PICK lines \in IF LabelsMayFail THEN 0 .. OBJ_CLASS_NUM ELSE {OBJ_CLASS_NUM} :
          /\ labels' = [k \in Classes |-> labels[k] \/ k < lines]
          /\ incomplete' = (incomplete \/ lines < OBJ_CLASS_NUM)
    BY <1>3 DEF LoadLabels
  <2>2. labels' \in [Classes -> BOOLEAN] /\ incomplete' \in BOOLEAN
    BY <2>1, Zenon
  <2>3. /\ Goto(t, "load", "loaded") /\ UNCHANGED <<init, stopping, call>>
    BY <1>3 DEF LoadLabels
  <2>4. TypeOK'
    BY <2>2, <2>3 DEF Goto, CallInv, TypeOK, Places, Early
  <2> QED
    BY <2>3, <2>4, EarlyStep DEF Early
<1>4. CASE SetInit(t)
  <2>1. TypeOK'
    BY <1>4 DEF SetInit, Goto, CallInv, TypeOK, Places, Early
  <2> QED
    BY <1>4, <2>1, EarlyStep DEF SetInit, Early
<1> QED
  BY <1>1, <1>2, <1>3, <1>4

\* The return of post_process forgets the locals.
LEMMA NameStep ==
  ASSUME CallInv, NEW t \in Threads, Name(t)
  PROVE  CallInv'
<1>1. Local(t, "name", "idle", NoCall)
  BY DEF Name
<1>2. ThreadInv("idle", NoCall)
  BY DEF ThreadInv, Early
<1> QED
  BY <1>1, <1>2, NoCallIsLocals, LocalStep DEF Places, Early

\* Every step keeps what the invariant says of every thread.
LEMMA CallInvNext ==
  CallInv /\ [Next]_vars => CallInv'
<1> SUFFICES ASSUME CallInv, [Next]_vars PROVE CallInv'
  OBVIOUS
<1>1. ASSUME NEW t \in Threads, post_process(t) PROVE CallInv'
  <2>1. CASE Call(t) \/ TestInit(t) \/ LoadLabels(t) \/ SetInit(t)
    BY <2>1, EarlyActions
  <2>2. ASSUME NEW f \in Frames[t], Decode(t, f) PROVE CallInv'
    BY <2>2, DecodeKeepsInv
  <2>3. CASE BeginSegment(t)
    BY <2>3, BeginSegmentStep
  <2>4. CASE Partition(t)
    BY <2>4, PartitionStep
  <2>5. CASE EndSegment(t)
    BY <2>5, EndSegmentStep
  <2>6. CASE EndSort(t)
    BY <2>6, EndSortStep
  <2>7. CASE Nms(t)
    BY <2>7, NmsStep
  <2>8. CASE Collect(t)
    BY <2>8, CollectStep
  <2>9. CASE Name(t)
    BY <2>9, NameStep
  <2> QED
    BY <1>1, <2>1, <2>2, <2>3, <2>4, <2>5, <2>6, <2>7, <2>8, <2>9 DEF post_process
<1>2. CASE Stop
  BY <1>2 DEF Stop, CallInv, TypeOK
<1>3. CASE deinitPostProcess
  BY <1>3 DEF deinitPostProcess, CallInv, TypeOK
<1>4. CASE UNCHANGED vars
  BY <1>4 DEF vars, shared, CallInv, TypeOK
<1> QED
  BY <1>1, <1>2, <1>3, <1>4 DEF Next

\* Every thread's locals have their types, and are what the sort, the suppression and
\* the collection of post_process rely on, in every state of the program.
THEOREM CallInvAlways ==
  Spec => []CallInv
<1> QED
  BY CallInvInit, CallInvNext, PTL DEF Spec

\* With one class, as in the code: the detections of a frame are the best of every
\* cluster of candidates and nothing else, whatever the outputs of the network are, for
\* any grid and any limits (post_process, from the sort to the result loop).
THEOREM SuppressionAlwaysJustified ==
  ASSUME OBJ_CLASS_NUM = 1
  PROVE  Spec => []SuppressionJustified
<1>1. CallInv => SuppressionJustified
  BY DEF CallInv, ThreadInv, SuppressionJustified
<1> QED
  BY <1>1, CallInvAlways, PTL

\* With a confidence threshold of one half or less, as the code's 0.45 (its logit is not
\* positive): the comparison in int8 honours the threshold up to one step of the
\* quantisation, for every zero point (qnt_f32_to_affine and process).
THEOREM ThresholdAlwaysHonoured ==
  ASSUME ThresMilli < 1000
  PROVE  Spec => []ThresholdHonoured
<1>1. CallInv => ThresholdHonoured
  <2> SUFFICES ASSUME CallInv, NEW t \in Threads, pc[t] = "name"
               PROVE  Honoured(call[t].frame, call[t].cands)
    BY DEF ThresholdHonoured
  <2>1. Decoded(call[t].frame, call[t].cands)
    BY DEF CallInv, ThreadInv, Early
  <2> QED
    BY <2>1, DecodedHonoured
<1> QED
  BY <1>1, CallInvAlways, PTL

\* The part of the segment that is still to be compared.
Open(l) == l.seg.high - l.seg.low

PartitionShrinks ==
  [][\A t \in Threads : Partition(t) => Open(call'[t]) \in Nat /\ Open(call'[t]) < Open(call[t])]_vars

\* Every round of the loop that partitions a segment makes progress, also among equal
\* scores: it cannot go round for ever (quick_sort_indice_inverse's outer while).
THEOREM PartitionAlwaysShrinks ==
  Spec => PartitionShrinks
<1>1. ASSUME CallInv, NEW t \in Threads, Partition(t)
      PROVE  Open(call'[t]) \in Nat /\ Open(call'[t]) < Open(call[t])
  <2> DEFINE l == call[t]
             N == Len(l.cands)
             a == l.array
             g == l.seg
  <2>1. PICK h \in g.low .. g.high :
          /\ g.low < g.high
          /\ HighStops(a, g.low, g.high, g.pivot.prob, h)
          /\ LET b == [a EXCEPT ![g.low] = a[h]]
             IN  \E k \in g.low .. h :
                   /\ LowStops(b, g.low, h, g.pivot.prob, k)
                   /\ Local(t, "partition", "partition",
                        [l EXCEPT !.array = [b EXCEPT ![h] = b[k]],
                                  !.seg = [g EXCEPT !.low = k, !.high = h]])
    BY <1>1 DEF Partition
  <2> DEFINE b == [a EXCEPT ![g.low] = a[h]]
  <2>2. PICK k \in g.low .. h :
          /\ LowStops(b, g.low, h, g.pivot.prob, k)
          /\ Local(t, "partition", "partition",
               [l EXCEPT !.array = [b EXCEPT ![h] = b[k]],
                         !.seg = [g EXCEPT !.low = k, !.high = h]])
    BY <2>1
  <2>3. pc[t] = "partition"
    BY <2>2 DEF Local, Goto
  <2>4. l \in Locals /\ N \in Nat /\ ThreadInv("partition", l)
    BY <1>1, <2>3, LocalsOf
  <2>5. a \in [1 .. N -> Pairs(N)] /\ g \in SegRecs(N)
    BY <2>4 DEF ThreadInv, PartitionInv
  <2>6. call'[t].seg.low = k /\ call'[t].seg.high = h
    <3>1. call'[t] = [l EXCEPT !.array = [b EXCEPT ![h] = b[k]],
                               !.seg = [g EXCEPT !.low = k, !.high = h]]
      BY <1>1, <2>2 DEF Local, CallInv, TypeOK
    <3> HIDE DEF b, g
    <3>2. call'[t].seg = [g EXCEPT !.low = k, !.high = h]
      BY <2>4, <3>1 DEF Locals
    <3> QED
      BY <2>5, <3>2 DEF SegRecs
  <2> HIDE DEF a, g, N
  <2>7. /\ g.low \in 1 .. N /\ g.high \in 1 .. N /\ g.pivot.prob \in Int
        /\ h \in 1 .. N /\ k \in 1 .. N
    <3>1. g.low \in 1 .. N /\ g.high \in 1 .. N /\ g.pivot \in Pairs(N)
      BY <2>5 DEF SegRecs
    <3>2. g.pivot.prob \in Int
      BY <3>1 DEF Pairs
    <3> QED
      BY <2>4, <3>1, <3>2
  <2>8. h = g.high => k # g.low
    <3> SUFFICES ASSUME h = g.high, k = g.low PROVE FALSE
      OBVIOUS
    <3>1. a[h].prob > g.pivot.prob /\ a[h].prob \in Int
      BY <2>1, <2>5, <2>7 DEF HighStops, Pairs
    <3>2. b[g.low] = a[h]
      BY <2>5, <2>7
    <3>3. b[g.low].prob < g.pivot.prob
      BY <2>1, <2>2, <2>7 DEF LowStops
    <3> QED
      BY <2>7, <3>1, <3>2, <3>3
  <2> QED
    BY <2>1, <2>2, <2>6, <2>7, <2>8 DEF Open, g
<1>2. CallInv /\ [Next]_vars =>
        [\A t \in Threads : Partition(t) => Open(call'[t]) \in Nat /\ Open(call'[t]) < Open(call[t])]_vars
  BY <1>1
<1> QED
  BY <1>2, CallInvAlways, PTL DEF Spec, PartitionShrinks

----------------------------------------------------------------------------
(* The labels.                                                             *)

Late == Places \ {"idle", "init", "load"}

AllIdle == \A t \in Threads : pc[t] = "idle"

\* Someone may still copy a label without loading the table.
Needed == (\E t \in Threads : pc[t] \in Late) \/ (init = 0 /\ ~(stopping /\ AllIdle))

LabelInv == ~incomplete /\ Needed => \A k \in Classes : labels[k]

\* A thread that has the labels does not need more of them.
LEMMA LateStep ==
  ASSUME TypeOK, LabelInv, NEW t \in Threads, NEW from \in Late, NEW to, NEW locals,
         Local(t, from, to, locals)
  PROVE  LabelInv'
<1>1. Needed
  BY DEF Needed, Local, Goto
<1> QED
  BY <1>1 DEF LabelInv, Local, shared

\* Every step keeps the labels that are needed.
LEMMA LabelInvNext ==
  CallInv /\ LabelInv /\ [Next]_vars => LabelInv'
<1> SUFFICES ASSUME CallInv, LabelInv, [Next]_vars PROVE LabelInv'
  OBVIOUS
<1>1. TypeOK
  BY DEF CallInv
<1>2. ASSUME NEW t \in Threads, post_process(t) PROVE LabelInv'
  <2>1. CASE Call(t)
    <3>1. Needed' => Needed
      BY <1>1, <2>1 DEF Call, Goto, shared, Needed, AllIdle, Late, TypeOK
    <3> QED
      BY <2>1, <3>1 DEF Call, shared, LabelInv
  <2>2. CASE TestInit(t)
    <3>1. ~AllIdle /\ pc[t] = "init"
      BY <2>2 DEF AllIdle, TestInit, Goto
    <3>2. Needed' => Needed
      BY <1>1, <2>2, <3>1 DEF TestInit, Goto, shared, Needed, Late, TypeOK
    <3> QED
      BY <2>2, <3>2 DEF TestInit, shared, LabelInv
  <2>3. CASE LoadLabels(t)
    <3>1. PICK lines \in IF LabelsMayFail THEN 0 .. OBJ_CLASS_NUM ELSE {OBJ_CLASS_NUM} :
            /\ labels' = [k \in Classes |-> labels[k] \/ k < lines]
            /\ incomplete' = (incomplete \/ lines < OBJ_CLASS_NUM)
      BY <2>3 DEF LoadLabels
    <3>2. ASSUME ~incomplete' PROVE \A k \in Classes : labels'[k]
      <4>1. lines \in 0 .. OBJ_CLASS_NUM /\ OBJ_CLASS_NUM \in Nat
        BY PostProcessAssumption
      <4>2. ~(lines < OBJ_CLASS_NUM)
        BY <3>1, <3>2
      <4>3. \A k \in Classes : k < lines
        BY <4>1, <4>2 DEF Classes
      <4> QED
        BY <3>1, <4>3
    <3> QED
      BY <3>2 DEF LabelInv
  <2>4. CASE SetInit(t)
    <3>1. Needed
      BY <2>4 DEF SetInit, Goto, Needed, Late, Places, Early
    <3> QED
      BY <2>4, <3>1 DEF SetInit, LabelInv
  <2>5. ASSUME NEW f \in Frames[t], Decode(t, f) PROVE LabelInv'
    <3>1. pc[t] = "decode" /\ UNCHANGED shared
      BY <2>5 DEF Decode, Local
    <3>2. Needed
      BY <3>1 DEF Needed, Late, Places, Early
    <3> QED
      BY <3>1, <3>2 DEF LabelInv, shared
  <2>6. CASE BeginSegment(t)
    BY <1>1, <2>6, LateStep DEF BeginSegment, Late, Places, Early
  <2>7. CASE Partition(t)
    BY <1>1, <2>7, LateStep DEF Partition, Late, Places, Early
  <2>8. CASE EndSegment(t)
    BY <1>1, <2>8, LateStep DEF EndSegment, Late, Places, Early
  <2>9. CASE EndSort(t)
    BY <1>1, <2>9, LateStep DEF EndSort, Late, Places, Early
  <2>10. CASE Nms(t)
    BY <1>1, <2>10, LateStep DEF Nms, Late, Places, Early
  <2>11. CASE Collect(t)
    BY <1>1, <2>11, LateStep DEF Collect, Late, Places, Early
  <2>12. CASE Name(t)
    BY <1>1, <2>12, LateStep DEF Name, Late, Places, Early
  <2> QED
    BY <1>2, <2>1, <2>2, <2>3, <2>4, <2>5, <2>6, <2>7, <2>8, <2>9, <2>10, <2>11, <2>12
       DEF post_process
<1>3. CASE Stop
  <2>1. Needed' => Needed
    BY <1>3 DEF Stop, Needed, AllIdle
  <2> QED
    BY <1>3, <2>1 DEF Stop, LabelInv
<1>4. CASE deinitPostProcess
  <2>1. ~Needed'
    BY <1>4 DEF deinitPostProcess, Needed, AllIdle, Late, Places, Early
  <2> QED
    BY <2>1 DEF LabelInv
<1>5. CASE UNCHANGED vars
  BY <1>5 DEF vars, shared, LabelInv, Needed, AllIdle
<1> QED
  BY <1>2, <1>3, <1>4, <1>5 DEF Next

\* A thread that copies a label finds one, for any number of threads and classes, though
\* the flag that says the labels are loaded is neither atomic nor locked (post_process's
\* static init, loadLabelName, deinitPostProcess).
THEOREM LabelsAlwaysNamed ==
  Spec => []LabelsNamed
<1>1. Init => LabelInv
  BY DEF Init, LabelInv, Needed, Late, Places, Early
<1>2. CallInv /\ LabelInv => LabelsNamed
  <2> SUFFICES ASSUME CallInv, LabelInv, NEW t \in Threads, pc[t] = "name", ~incomplete,
                      NEW r \in DOMAIN call[t].group
               PROVE  labels[call[t].group[r].class]
    BY DEF LabelsNamed
  <2>1. Needed
    BY DEF Needed, Late, Places, Early
  <2>2. call[t].group \in Seq(Detections)
    BY DEF CallInv, TypeOK, Locals
  <2>3. call[t].group[r] \in Detections
    BY <2>2, ElementOfSeq
  <2> QED
    BY <2>1, <2>3 DEF LabelInv, Detections
<1> QED
  BY <1>1, <1>2, LabelInvNext, CallInvAlways, PTL DEF Spec
=============================================================================
