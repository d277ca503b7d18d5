----------------------------- MODULE SearchProofs -----------------------------
(***************************************************************************)
(* What holds of the searches, for every value of the constants: how       *)
(* ranked lists become one (RankedLists, RankFusion, HitGroups), the       *)
(* passes of the live engines and what is shown of them (LiveSearch), the  *)
(* seeds of a crawl (SeedDiscovery) and the three searches of one request  *)
(* over the store (HybridSearch).                                          *)
(***************************************************************************)
EXTENDS HybridSearch, SeedDiscovery, FiniteSetTheorems, SequenceTheorems,
        WellFoundedInduction, TLAPS

-----------------------------------------------------------------------------
(* Lists in order *)

LEMMA Least ==
    ASSUME NEW T, T \subseteq Nat, T # {}
    PROVE  \E n \in T : \A k \in T : n <= k
<1>1. PICK n \in T : \A k \in T : ~(<<k, n>> \in OpToRel(<, Nat))
  BY NatLessThanWellFounded, WFMin
<1>2. \A k \in T : ~(k < n)
  BY <1>1 DEF OpToRel
<1>3. QED
  BY <1>2

Preceding(S, R, x) == {y \in S : <<y, x>> \in R}

StrictOrder(S, R) ==
    /\ \A x \in S : <<x, x>> \notin R
    /\ \A x, y, z \in S : <<x, y>> \in R /\ <<y, z>> \in R => <<x, z>> \in R
    /\ \A x, y \in S : x # y => <<x, y>> \in R \/ <<y, x>> \in R

\* In a strict order of a finite set the elements are told apart by how many precede
\* them, and each number below the set's is that of one.
LEMMA Ranks ==
    ASSUME NEW S, IsFiniteSet(S), NEW R, StrictOrder(S, R)
    PROVE  /\ Cardinality(S) \in Nat
           /\ \A x \in S : Cardinality(Preceding(S, R, x)) \in 0..(Cardinality(S) - 1)
           /\ \A x, z \in S : Cardinality(Preceding(S, R, x)) = Cardinality(Preceding(S, R, z)) => x = z
           /\ \A n \in 1..Cardinality(S) :
                  \E x \in S : Cardinality(Preceding(S, R, x)) = n - 1
           /\ \A x, y \in S : <<x, y>> \in R =>
                  Cardinality(Preceding(S, R, x)) < Cardinality(Preceding(S, R, y))
<1> DEFINE Below(x) == Preceding(S, R, x)
           N == Cardinality(S)
           rank == [x \in S |-> Cardinality(Below(x)) + 1]
<1>1. N \in Nat
  BY FS_CardinalityType
<1>2. ASSUME NEW x \in S PROVE IsFiniteSet(Below(x)) /\ Cardinality(Below(x)) \in Nat
  <2>1. Below(x) \in SUBSET S
    BY DEF Preceding
  <2>2. IsFiniteSet(Below(x))
    BY <2>1, FS_Subset
  <2>3. QED
    BY <2>2, FS_CardinalityType
<1>3. ASSUME NEW x \in S PROVE Cardinality(Below(x)) < N
  <2>1. Below(x) \in SUBSET S /\ Below(x) # S
    BY DEF Preceding, StrictOrder
  <2>2. Cardinality(Below(x)) <= N /\ (N = Cardinality(Below(x)) => S = Below(x))
    BY <2>1, FS_Subset
  <2>3. QED
    BY <1>1, <1>2, <2>1, <2>2
<1>4. ASSUME NEW x \in S, NEW y \in S, <<x, y>> \in R
      PROVE  Cardinality(Below(x)) < Cardinality(Below(y))
  <2>1. Below(x) \in SUBSET Below(y) /\ Below(x) # Below(y)
    <3>1. \A z \in Below(x) : z \in Below(y)
      BY <1>4 DEF Preceding, StrictOrder
    <3>2. x \in Below(y) /\ x \notin Below(x)
      BY <1>4 DEF Preceding, StrictOrder
    <3>3. QED
      BY <3>1, <3>2
  <2>2. /\ Cardinality(Below(x)) <= Cardinality(Below(y))
        /\ Cardinality(Below(y)) = Cardinality(Below(x)) => Below(y) = Below(x)
    BY <1>2, <2>1, FS_Subset
  <2>3. Cardinality(Below(x)) \in Nat /\ Cardinality(Below(y)) \in Nat
    BY <1>2
  <2> HIDE DEF Below
  <2>4. QED
    BY <2>1, <2>2, <2>3
<1>5. ASSUME NEW x \in S, NEW z \in S, Cardinality(Below(x)) = Cardinality(Below(z))
      PROVE  x = z
  <2> SUFFICES ASSUME x # z PROVE FALSE
    OBVIOUS
  <2>1. <<x, z>> \in R \/ <<z, x>> \in R
    BY DEF StrictOrder
  <2>2. Cardinality(Below(x)) \in Nat
    BY <1>2
  <2>3. Cardinality(Below(x)) < Cardinality(Below(z)) \/ Cardinality(Below(z)) < Cardinality(Below(x))
    BY <1>4, <2>1
  <2> HIDE DEF Below
  <2>4. QED
    BY <1>5, <2>2, <2>3
<1> HIDE DEF Below, N
<1>6. rank \in [S -> 1..N]
  BY <1>1, <1>2, <1>3
<1>7. ASSUME NEW x \in S, NEW z \in S, rank[x] = rank[z] PROVE x = z
  <2>1. Cardinality(Below(x)) + 1 = Cardinality(Below(z)) + 1
    BY <1>7
  <2>2. Cardinality(Below(x)) = Cardinality(Below(z))
    BY <1>2, <2>1
  <2>3. QED
    BY <1>5, <2>2
<1>8. rank \in Injection(S, 1..N)
  BY <1>6, <1>7 DEF Injection, IsInjective
<1>9. IsFiniteSet(1..N) /\ Cardinality(1..N) = N
  BY <1>1, FS_Interval
<1>10. rank \in Surjection(S, 1..N)
  BY <1>8, <1>9, FS_Injection DEF N
<1>11. ASSUME NEW n \in 1..N PROVE \E x \in S : Cardinality(Below(x)) = n - 1
  <2>1. PICK x \in S : rank[x] = n
    BY <1>10 DEF Surjection
  <2>2. Cardinality(Below(x)) + 1 = n /\ Cardinality(Below(x)) \in Nat
    BY <1>2, <2>1
  <2>3. Cardinality(Below(x)) = n - 1
    BY <1>1, <2>2
  <2>4. QED
    BY <2>3
<1>12. ASSUME NEW x \in S PROVE Cardinality(Below(x)) \in 0..(N - 1)
  BY <1>1, <1>2, <1>3
<1>13. QED
  BY <1>1, <1>4, <1>5, <1>11, <1>12 DEF Below, N

\* A list of all elements of S, each once, in the order R.
Arranges(s, S, R) ==
    /\ Cardinality(S) \in Nat /\ s \in [1..Cardinality(S) -> S]
    /\ \A x \in S : \E n \in 1..Cardinality(S) : s[n] = x
    /\ \A i, j \in 1..Cardinality(S) : s[i] = s[j] => i = j
    /\ \A i, j \in 1..Cardinality(S) : i < j => <<s[i], s[j]>> \in R

LEMMA Ordered ==
    ASSUME NEW S, IsFiniteSet(S), NEW R, StrictOrder(S, R),
           NEW s, s = [n \in 1..Cardinality(S) |-> s[n]],
           \A n \in 1..Cardinality(S) :
               (\E x \in S : Cardinality(Preceding(S, R, x)) = n - 1)
                   => s[n] \in S /\ Cardinality(Preceding(S, R, s[n])) = n - 1
    PROVE  Arranges(s, S, R)
<1> DEFINE N == Cardinality(S)
           B(x) == Cardinality(Preceding(S, R, x))
<1>1. /\ N \in Nat
      /\ \A x \in S : B(x) \in 0..(N - 1)
      /\ \A x, z \in S : B(x) = B(z) => x = z
      /\ \A n \in 1..N : \E x \in S : B(x) = n - 1
      /\ \A x, y \in S : <<x, y>> \in R => B(x) < B(y)
  BY Ranks
<1>2. \A n \in 1..N : s[n] \in S /\ B(s[n]) = n - 1
  BY <1>1
<1> HIDE DEF B, N
<1>3. s \in [1..N -> S]
  <2>1. s = [n \in 1..N |-> s[n]]
    BY DEF N
  <2>2. QED
    BY <1>2, <2>1
<1>4. ASSUME NEW x \in S PROVE \E n \in 1..N : s[n] = x
  <2>1. B(x) + 1 \in 1..N /\ B(x) \in Int
    BY <1>1
  <2>2. PICK n \in 1..N : n = B(x) + 1
    BY <2>1
  <2>3. s[n] \in S /\ B(s[n]) = n - 1
    BY <1>2
  <2>4. B(s[n]) = B(x)
    BY <2>1, <2>2, <2>3
  <2>5. QED
    BY <1>1, <2>3, <2>4
<1>5. ASSUME NEW i \in 1..N, NEW j \in 1..N, s[i] = s[j] PROVE i = j
  <2>1. B(s[i]) = i - 1 /\ B(s[j]) = j - 1
    BY <1>2
  <2>2. i - 1 = j - 1 /\ i \in Int /\ j \in Int
    BY <1>5, <2>1
  <2>3. QED
    BY <2>2
<1>6. ASSUME NEW i \in 1..N, NEW j \in 1..N, i < j PROVE <<s[i], s[j]>> \in R
  <2>1. s[i] \in S /\ s[j] \in S /\ s[i] # s[j]
    <3>1. i # j
      BY <1>6
    <3>2. QED
      BY <1>2, <1>5, <3>1
  <2>2. <<s[i], s[j]>> \in R \/ <<s[j], s[i]>> \in R
    BY <2>1 DEF StrictOrder
  <2>3. ~(B(s[j]) < B(s[i]))
    <3>1. B(s[i]) = i - 1 /\ B(s[j]) = j - 1
      BY <1>2
    <3>2. ~(j - 1 < i - 1)
      BY <1>6
    <3>3. QED
      BY <3>1, <3>2
  <2>4. QED
    BY <1>1, <2>1, <2>2, <2>3
<1>7. QED
  BY <1>1, <1>3, <1>4, <1>5, <1>6 DEF Arranges, N

\* What At keeps of a list, and that it keeps it.
LEMMA AtKeeps ==
    ASSUME NEW V, NEW seq \in Seq(V), NEW P \in SUBSET (1..Len(seq))
    PROVE  /\ At(P, seq) \in Seq(V) /\ Len(At(P, seq)) <= Len(seq)
           /\ \A n \in 1..Len(At(P, seq)) : \E i \in P : At(P, seq)[n] = seq[i]
           /\ \A i \in P : \E n \in 1..Len(At(P, seq)) : At(P, seq)[n] = seq[i]
<1> DEFINE R == {p \in P \X P : p[1] < p[2]}
           Above(x) == {y \in P : y < x}
           G(n) == CHOOSE x \in P : Cardinality(Above(x)) = n - 1
           N == Cardinality(P)
           o == [n \in 1..N |-> G(n)]
<1>1. IsFiniteSet(P) /\ N \in Nat /\ N <= Len(seq)
  <2>1. IsFiniteSet(1..Len(seq)) /\ Cardinality(1..Len(seq)) = Len(seq)
    <3>1. Len(seq) \in Nat
      OBVIOUS
    <3>2. QED
      BY SMTT(20), <3>1, FS_Interval
  <2>2. QED
    BY <2>1, FS_Subset, FS_CardinalityType
<1>2. StrictOrder(P, R)
  <2>1. \A x, y \in P : <<x, y>> \in R <=> x < y
    OBVIOUS
  <2>2. \A x \in P : x \in Int
    OBVIOUS
  <2> HIDE DEF R
  <2>3. QED
    BY <2>1, <2>2 DEF StrictOrder
<1>3. ASSUME NEW x \in P PROVE Preceding(P, R, x) = Above(x)
  BY DEF Preceding
<1>4. At(P, seq) = [n \in 1..Len(o) |-> seq[o[n]]]
  BY DEF At, InOrder
<1> HIDE DEF R, Above
<1>5. \A n \in 1..N : (\E x \in P : Cardinality(Preceding(P, R, x)) = n - 1)
          => o[n] \in P /\ Cardinality(Preceding(P, R, o[n])) = n - 1
  <2> SUFFICES ASSUME NEW n \in 1..N, NEW x \in P, Cardinality(Above(x)) = n - 1
               PROVE  o[n] \in P /\ Cardinality(Above(o[n])) = n - 1
    BY <1>3
  <2>1. G(n) \in P /\ Cardinality(Above(G(n))) = n - 1
    OBVIOUS
  <2> HIDE DEF G
  <2>2. QED
    BY <2>1
<1> HIDE DEF G
<1>6. Arranges(o, P, R)
  <2>1. o = [n \in 1..N |-> o[n]]
    OBVIOUS
  <2> HIDE DEF o
  <2>2. QED
    BY <1>1, <1>2, <1>5, <2>1, Ordered
<1>7. /\ o \in [1..N -> P] /\ Len(o) = N
      /\ \A i \in P : \E n \in 1..N : o[n] = i
  BY <1>1, <1>6 DEF Arranges
<1> HIDE DEF o, N
<1>8. At(P, seq) = [n \in 1..N |-> seq[o[n]]]
  BY <1>4, <1>7
<1>9. \A n \in 1..N : seq[o[n]] \in V
  <2>1. \A i \in P : seq[i] \in V
    OBVIOUS
  <2>2. QED
    BY <1>7, <2>1
<1>10. At(P, seq) \in Seq(V) /\ Len(At(P, seq)) = N
  <2>1. At(P, seq) \in [1..N -> V]
    BY <1>8, <1>9
  <2>2. QED
    BY <1>1, <1>8, <2>1
<1>11. \A n \in 1..N : o[n] \in P /\ At(P, seq)[n] = seq[o[n]]
  BY <1>7, <1>8
<1>12. \A i \in P : \E n \in 1..N : At(P, seq)[n] = seq[i]
  BY <1>7, <1>11
<1>13. QED
  BY <1>1, <1>10, <1>11, <1>12

LEMMA FirstType ==
    ASSUME NEW n \in Nat, NEW S, NEW s \in Seq(S)
    PROVE  /\ First(n, s) \in Seq(S)
           /\ Len(First(n, s)) = LeastOf(n, Len(s))
           /\ \A i \in 1..LeastOf(n, Len(s)) : First(n, s)[i] = s[i]
<1>1. LeastOf(n, Len(s)) \in Nat /\ LeastOf(n, Len(s)) <= Len(s)
  BY DEF LeastOf
<1> HIDE DEF LeastOf
<1>2. QED
  BY <1>1 DEF First

\* Induction for a set of numbers in place of a predicate.
LEMMA ByCounting ==
    ASSUME NEW T, 0 \in T, \A n \in Nat : n \in T => n + 1 \in T
    PROVE  \A n \in Nat : n \in T
<1> SUFFICES ASSUME Nat \ T # {} PROVE FALSE
  OBVIOUS
<1>1. PICK n \in Nat \ T : \A k \in Nat \ T : n <= k
  BY Least
<1>2. n - 1 \in Nat /\ n - 1 \in T
  BY <1>1
<1>3. n \in T
  BY <1>2
<1>4. QED
  BY <1>3

-----------------------------------------------------------------------------
(* Sums *)

\* What SumFunctionOnSet computes, for subsets of a finite set.
Summed(f, F, X) ==
    IF X = {} THEN 0 ELSE f[CHOOSE x \in X : TRUE] + F[X \ {CHOOSE x \in X : TRUE}]

SumOf(f, F, S) == \A X \in SUBSET S : F[X] = Summed(f, F, X)

LEMMA SumExists ==
    ASSUME NEW f, NEW S, IsFiniteSet(S)
    PROVE  \E F : F = [X \in SUBSET S |-> Summed(f, F, X)]
<1> DEFINE c(X) == CHOOSE x \in X : TRUE
           V(F, X) == IF X = {} THEN 0 ELSE f[c(X)] + F[X \ {c(X)}]
           Upto(n) == {X \in SUBSET S : Cardinality(X) <= n}
           Rec(F, n) == F = [X \in Upto(n) |-> V(F, X)]
           T == {n \in Nat : \E F : Rec(F, n)}
<1>1. \A X \in SUBSET S : IsFiniteSet(X) /\ Cardinality(X) \in Nat
  BY FS_Subset, FS_CardinalityType
<1>2. ASSUME NEW X \in SUBSET S, X # {}
      PROVE  X \ {c(X)} \in SUBSET S /\ Cardinality(X \ {c(X)}) = Cardinality(X) - 1
  <2>1. c(X) \in X
    BY <1>2
  <2>2. QED
    BY <1>1, <2>1, FS_RemoveElement
<1> HIDE DEF c
<1>3. 0 \in T
  <2> DEFINE F == [X \in Upto(0) |-> 0]
  <2>1. ASSUME NEW X \in Upto(0) PROVE X = {}
    BY <1>1, FS_EmptySet
  <2>2. F = [X \in Upto(0) |-> V(F, X)]
    BY <2>1
  <2>3. Rec(F, 0)
    BY <2>2
  <2> HIDE DEF Rec
  <2>4. QED
    BY <2>3
<1>4. ASSUME NEW n \in Nat, n \in T PROVE n + 1 \in T
  <2>1. PICK F : F = [X \in Upto(n) |-> V(F, X)]
    BY <1>4
  <2> DEFINE G == [X \in Upto(n + 1) |-> V(F, X)]
  <2>2. ASSUME NEW X \in Upto(n + 1) PROVE V(F, X) = V(G, X)
    <3>1. CASE X = {}
      BY <3>1
    <3>2. CASE X # {}
      <4> DEFINE Y == X \ {c(X)}
      <4>1. Y \in Upto(n) /\ Y \in Upto(n + 1)
        BY <1>1, <1>2, <3>2
      <4>2. F[Y] = V(F, Y) /\ G[Y] = V(F, Y)
        <5>1. F[Y] = V(F, Y)
          <6> HIDE DEF V, Y, Upto
          <6>1. QED
            BY <2>1, <4>1, Zenon
        <5>2. QED
          BY <4>1, <5>1
      <4>3. QED
        BY <3>2, <4>2
    <3>3. QED
      BY <3>1, <3>2
  <2>3. G = [X \in Upto(n + 1) |-> V(G, X)]
    <3> HIDE DEF V, Upto
    <3>1. G = [X \in Upto(n + 1) |-> V(F, X)]
      OBVIOUS
    <3> HIDE DEF G
    <3>2. QED
      BY <2>2, <3>1
  <2>4. Rec(G, n + 1)
    BY <2>3
  <2> HIDE DEF Rec, G
  <2>5. QED
    BY <2>4
<1> DEFINE N == Cardinality(S)
<1>5. N \in Nat /\ N \in T
  <2>1. N \in Nat
    BY <1>1
  <2> HIDE DEF T, N
  <2>2. QED
    BY <1>3, <1>4, <2>1, ByCounting
<1>6. Upto(N) = SUBSET S
  BY FS_Subset
<1>7. PICK F : F = [X \in Upto(N) |-> V(F, X)]
  BY <1>5
<1>8. \A G, X : V(G, X) = Summed(f, G, X)
  BY DEF c, Summed
<1> HIDE DEF V, Upto
<1>9. F = [X \in SUBSET S |-> Summed(f, F, X)]
  <2>1. F = [X \in SUBSET S |-> V(F, X)]
    BY <1>6, <1>7, Zenon
  <2>2. QED
    BY <1>8, <2>1
<1>10. QED
  BY <1>9

LEMMA SumIsOf ==
    ASSUME NEW f, NEW S, IsFiniteSet(S)
    PROVE  \E F : SumOf(f, F, S) /\ SumFunctionOnSet(f, S) = F[S]
<1> DEFINE Rec(F) == F = [X \in SUBSET S |-> Summed(f, F, X)]
<1>1. \E F : Rec(F)
  BY SumExists
<1>2. PICK F : F = (CHOOSE G : Rec(G)) /\ Rec(F)
  <2> HIDE DEF Rec
  <2>1. QED
    BY <1>1
<1>3. SumFunctionOnSet(f, S) = F[S]
  BY <1>2 DEF SumFunctionOnSet, FoldFunctionOnSet, MapThenFoldSet, Summed
<1>4. \A X \in SUBSET S : F[X] = Summed(f, F, X)
  <2>1. Rec(F)
    BY <1>2
  <2>2. QED
    BY ONLY <2>1, Zenon
<1>5. QED
  BY <1>3, <1>4 DEF SumOf

\* Induction over the subsets of a finite set, for a set of them in place of a
\* predicate.
LEMMA BySubsets ==
    ASSUME NEW S, IsFiniteSet(S), NEW T, {} \in T,
           \A X \in SUBSET S : X # {} /\ (\A x \in X : X \ {x} \in T) => X \in T
    PROVE  \A X \in SUBSET S : X \in T
<1> DEFINE C == {n \in Nat : \A X \in SUBSET S : Cardinality(X) = n => X \in T}
<1>1. \A X \in SUBSET S : IsFiniteSet(X) /\ Cardinality(X) \in Nat
  BY FS_Subset, FS_CardinalityType
<1>2. 0 \in C
  BY <1>1, FS_EmptySet
<1>3. ASSUME NEW n \in Nat, n \in C PROVE n + 1 \in C
  <2> SUFFICES ASSUME NEW X \in SUBSET S, Cardinality(X) = n + 1 PROVE X \in T
    OBVIOUS
  <2>1. X # {}
    <3>1. Cardinality(X) # 0
      OBVIOUS
    <3>2. QED
      BY <3>1, FS_EmptySet
  <2>2. ASSUME NEW x \in X PROVE X \ {x} \in T
    <3>1. Cardinality(X \ {x}) = Cardinality(X) - 1
      BY <1>1, FS_RemoveElement
    <3>2. Cardinality(X \ {x}) = n /\ X \ {x} \in SUBSET S
      BY <3>1
    <3>3. QED
      BY <1>3, <3>2
  <2>3. QED
    BY <2>1, <2>2
<1>4. ASSUME NEW X \in SUBSET S PROVE X \in T
  <2>1. Cardinality(X) \in C
    <3> HIDE DEF C
    <3>1. QED
      BY <1>1, <1>2, <1>3, ByCounting
  <2>2. QED
    BY <2>1
<1>5. QED
  BY <1>4

LEMMA SumUnique ==
    ASSUME NEW f, NEW S, IsFiniteSet(S), NEW F, NEW G, SumOf(f, F, S), SumOf(f, G, S)
    PROVE  \A X \in SUBSET S : F[X] = G[X]
<1> DEFINE T == {X \in SUBSET S : F[X] = G[X]}
           c(X) == CHOOSE x \in X : TRUE
<1>1. \A X \in SUBSET S : /\ F[X] = IF X = {} THEN 0 ELSE f[c(X)] + F[X \ {c(X)}]
                          /\ G[X] = IF X = {} THEN 0 ELSE f[c(X)] + G[X \ {c(X)}]
  BY DEF SumOf, Summed
<1>2. \A X \in SUBSET S : X # {} => c(X) \in X
  OBVIOUS
<1> HIDE DEF c
<1>3. {} \in T
  BY <1>1
<1>4. ASSUME NEW X \in SUBSET S, X # {}, \A x \in X : X \ {x} \in T PROVE X \in T
  <2>1. F[X \ {c(X)}] = G[X \ {c(X)}]
    BY <1>2, <1>4
  <2>2. QED
    BY <1>1, <1>4, <2>1
<1> HIDE DEF T
<1>5. \A X \in SUBSET S : X \in T
  BY <1>3, <1>4, BySubsets
<1>6. QED
  BY <1>5 DEF T

\* The sum over a set is one of its elements' and the sum over the others.
LEMMA SumStep ==
    ASSUME NEW f, NEW S, IsFiniteSet(S)
    PROVE  /\ S = {} => SumFunctionOnSet(f, S) = 0
           /\ S # {} => \E x \in S :
                  SumFunctionOnSet(f, S) = f[x] + SumFunctionOnSet(f, S \ {x})
<1>1. PICK F : SumOf(f, F, S) /\ SumFunctionOnSet(f, S) = F[S]
  BY SumIsOf
<1>2. CASE S = {}
  BY <1>1, <1>2 DEF SumOf, Summed
<1>3. CASE S # {}
  <2> DEFINE c == CHOOSE x \in S : TRUE
             Y == S \ {c}
  <2>1. c \in S /\ F[S] = f[c] + F[Y]
    BY <1>1, <1>3 DEF SumOf, Summed
  <2> HIDE DEF c
  <2>2. IsFiniteSet(Y)
    BY FS_Subset
  <2>3. PICK G : SumOf(f, G, Y) /\ SumFunctionOnSet(f, Y) = G[Y]
    BY <2>2, SumIsOf
  <2>4. SumOf(f, F, Y)
    BY <1>1 DEF SumOf
  <2>5. F[Y] = G[Y]
    <3> HIDE DEF Y
    <3>1. QED
      BY <2>2, <2>3, <2>4, SumUnique
  <2>6. QED
    BY <1>1, <1>3, <2>1, <2>3, <2>5
<1>4. QED
  BY <1>2, <1>3

\* What the functions of the sums below are.
Gives(f, S, V) == \A x \in S : f[x] \in V

LEMMA SumType ==
    ASSUME NEW f, NEW S, IsFiniteSet(S), Gives(f, S, Int)
    PROVE  SumFunctionOnSet(f, S) \in Int
<1> DEFINE T == {X \in SUBSET S : SumFunctionOnSet(f, X) \in Int}
<1>1. \A X \in SUBSET S : IsFiniteSet(X)
  BY FS_Subset
<1>2. {} \in T
  BY <1>1, SumStep
<1>3. ASSUME NEW X \in SUBSET S, X # {}, \A x \in X : X \ {x} \in T PROVE X \in T
  <2>1. PICK x \in X : SumFunctionOnSet(f, X) = f[x] + SumFunctionOnSet(f, X \ {x})
    BY <1>1, <1>3, SumStep
  <2>2. QED
    BY <1>3, <2>1 DEF Gives
<1> HIDE DEF T
<1>4. \A X \in SUBSET S : X \in T
  BY <1>2, <1>3, BySubsets
<1>5. QED
  BY <1>4 DEF T

\* ... whichever element that is.
LEMMA SumAdd ==
    ASSUME NEW f, NEW S, IsFiniteSet(S), Gives(f, S, Int), NEW e \in S
    PROVE  SumFunctionOnSet(f, S) = f[e] + SumFunctionOnSet(f, S \ {e})
<1> DEFINE Sum(X) == SumFunctionOnSet(f, X)
           T == {X \in SUBSET S : \A x \in X : Sum(X) = f[x] + Sum(X \ {x})}
<1>1. \A X \in SUBSET S : IsFiniteSet(X)
  BY FS_Subset
<1>2. \A X \in SUBSET S : Sum(X) \in Int
  BY <1>1, SumType DEF Gives
<1>3. {} \in T
  OBVIOUS
<1>4. ASSUME NEW X \in SUBSET S, X # {}, \A x \in X : X \ {x} \in T PROVE X \in T
  <2> SUFFICES ASSUME NEW x \in X PROVE Sum(X) = f[x] + Sum(X \ {x})
    OBVIOUS
  <2>1. PICK y \in X : Sum(X) = f[y] + Sum(X \ {y})
    BY <1>1, SumStep
  <2> HIDE DEF Sum
  <2>2. CASE x = y
    BY <2>1, <2>2
  <2>3. CASE x # y
    <3> DEFINE Z == (X \ {y}) \ {x}
    <3>1. Sum(X \ {y}) = f[x] + Sum(Z)
      BY <1>4, <2>3
    <3>2. Sum(X \ {x}) = f[y] + Sum(Z)
      <4>1. Z = (X \ {x}) \ {y} /\ y \in X \ {x}
        BY <2>3
      <4>2. QED
        BY <1>4, <4>1
    <3>3. Sum(Z) \in Int /\ f[x] \in Int /\ f[y] \in Int
      BY <1>2 DEF Gives
    <3> HIDE DEF Z
    <3>4. QED
      BY <2>1, <3>1, <3>2, <3>3
  <2>4. QED
    BY <2>2, <2>3
<1> HIDE DEF T
<1>5. \A X \in SUBSET S : X \in T
  BY <1>3, <1>4, BySubsets
<1>6. QED
  BY <1>5 DEF T

\* Only what a function gives on the set matters.
LEMMA SumAgree ==
    ASSUME NEW f, NEW g, NEW S, IsFiniteSet(S), \A x \in S : f[x] = g[x]
    PROVE  SumFunctionOnSet(f, S) = SumFunctionOnSet(g, S)
<1>1. PICK F : SumOf(f, F, S) /\ SumFunctionOnSet(f, S) = F[S]
  BY SumIsOf
<1>2. PICK G : SumOf(g, G, S) /\ SumFunctionOnSet(g, S) = G[S]
  BY SumIsOf
<1>3. SumOf(g, F, S)
  <2>1. ASSUME NEW X \in SUBSET S PROVE Summed(f, F, X) = Summed(g, F, X)
    BY DEF Summed
  <2>2. QED
    BY <1>1, <2>1 DEF SumOf
<1>4. QED
  BY <1>1, <1>2, <1>3, SumUnique

LEMMA SumUnion ==
    ASSUME NEW f, NEW A, NEW B, IsFiniteSet(A), IsFiniteSet(B), A \cap B = {},
           Gives(f, A \cup B, Int)
    PROVE  SumFunctionOnSet(f, A \cup B) = SumFunctionOnSet(f, A) + SumFunctionOnSet(f, B)
<1> DEFINE Sum(X) == SumFunctionOnSet(f, X)
           T == {X \in SUBSET B : Sum(A \cup X) = Sum(A) + Sum(X)}
<1>1. \A X \in SUBSET B : IsFiniteSet(X) /\ IsFiniteSet(A \cup X)
  BY FS_Subset, FS_Union
<1>2. Sum(A) \in Int /\ \A X \in SUBSET B : Sum(X) \in Int /\ Sum(A \cup X) \in Int
  BY <1>1, SumType DEF Gives
<1>3. {} \in T
  <2>1. A \cup {} = A /\ Sum({}) = 0
    BY <1>1, SumStep
  <2> HIDE DEF Sum
  <2>2. QED
    BY <1>2, <2>1
<1>4. ASSUME NEW X \in SUBSET B, X # {}, \A x \in X : X \ {x} \in T PROVE X \in T
  <2>1. PICK x : x \in X
    BY <1>4
  <2>2. Sum(X) = f[x] + Sum(X \ {x})
    <3>1. IsFiniteSet(X) /\ Gives(f, X, Int)
      BY <1>1 DEF Gives
    <3>2. QED
      BY <2>1, <3>1, SumAdd
  <2>3. Sum(A \cup X) = f[x] + Sum(A \cup (X \ {x}))
    <3>1. (A \cup X) \ {x} = A \cup (X \ {x}) /\ x \in A \cup X
      BY <2>1
    <3>2. IsFiniteSet(A \cup X) /\ Gives(f, A \cup X, Int)
      BY <1>1 DEF Gives
    <3>3. Sum(A \cup X) = f[x] + Sum((A \cup X) \ {x})
      BY <3>1, <3>2, SumAdd
    <3>4. QED
      BY <3>1, <3>3
  <2>4. Sum(A \cup (X \ {x})) = Sum(A) + Sum(X \ {x})
    BY <1>4, <2>1
  <2>5. f[x] \in Int /\ Sum(X \ {x}) \in Int
    BY <1>2, <2>1 DEF Gives
  <2> HIDE DEF Sum
  <2>6. QED
    BY <1>2, <2>2, <2>3, <2>4, <2>5
<1> HIDE DEF T
<1>5. B \in T
  BY <1>3, <1>4, BySubsets
<1>6. QED
  BY <1>5 DEF T

LEMMA FiniteImage ==
    ASSUME NEW S, IsFiniteSet(S), NEW r
    PROVE  /\ IsFiniteSet({r[i] : i \in S})
           /\ Cardinality({r[i] : i \in S}) <= Cardinality(S)
           /\ (\A i, j \in S : r[i] = r[j] => i = j) => Cardinality({r[i] : i \in S}) = Cardinality(S)
<1> DEFINE T == {r[i] : i \in S}
           f == [i \in S |-> r[i]]
<1>1. f \in Surjection(S, T)
  BY DEF Surjection
<1>2. (\A i, j \in S : r[i] = r[j] => i = j) => f \in Injection(S, T)
  BY DEF Injection, IsInjective
<1> HIDE DEF f, T
<1>3. QED
  BY <1>1, <1>2, FS_Surjection DEF T

\* Adding up groups of a set: r[i] is what stands for the group that m sends to i, and
\* k gives it the sum of the group.
LEMMA SumOfGroups ==
    ASSUME NEW f, NEW S, IsFiniteSet(S), Gives(f, S, Int),
           NEW I, IsFiniteSet(I), NEW m, Gives(m, S, I),
           NEW r, \A i, j \in I : r[i] = r[j] => i = j,
           NEW k, \A i \in I : k[r[i]] = SumFunctionOnSet(f, {x \in S : m[x] = i})
    PROVE  SumFunctionOnSet(k, {r[i] : i \in I}) = SumFunctionOnSet(f, S)
<1> DEFINE In(J) == {x \in S : m[x] \in J}
           Of(J) == {r[i] : i \in J}
           Sum(X) == SumFunctionOnSet(f, X)
           T == {J \in SUBSET I : SumFunctionOnSet(k, Of(J)) = Sum(In(J))}
<1>1. \A X \in SUBSET S : IsFiniteSet(X) /\ Sum(X) \in Int
  BY FS_Subset, SumType DEF Gives
<1>2. \A J \in SUBSET I : IsFiniteSet(Of(J))
  <2> SUFFICES ASSUME NEW J \in SUBSET I PROVE IsFiniteSet(Of(J))
    OBVIOUS
  <2>1. IsFiniteSet(J)
    BY FS_Subset
  <2>2. QED
    BY <2>1, FiniteImage
<1>3. \A J \in SUBSET I : Gives(k, Of(J), Int)
  <2>1. \A i \in I : k[r[i]] \in Int
    BY <1>1
  <2>2. QED
    BY <2>1 DEF Gives
<1>4. {} \in T
  <2>1. Of({}) = {} /\ In({}) = {}
    OBVIOUS
  <2>2. QED
    BY <1>1, <1>2, <2>1, SumStep
<1>5. ASSUME NEW J \in SUBSET I, J # {}, \A i \in J : J \ {i} \in T PROVE J \in T
  <2>1. PICK i : i \in J
    BY <1>5
  <2> DEFINE L == J \ {i}
  <2>2. SumFunctionOnSet(k, Of(J)) = k[r[i]] + SumFunctionOnSet(k, Of(L))
    <3>1. Of(J) \ {r[i]} = Of(L) /\ r[i] \in Of(J)
      <4>1. \A j \in L : r[j] # r[i]
        BY <2>1
      <4>2. QED
        BY <2>1, <4>1
    <3>2. IsFiniteSet(Of(J)) /\ Gives(k, Of(J), Int)
      BY <1>2, <1>3
    <3>3. SumFunctionOnSet(k, Of(J)) = k[r[i]] + SumFunctionOnSet(k, Of(J) \ {r[i]})
      <4> HIDE DEF Of
      <4>1. QED
        BY <3>1, <3>2, SumAdd
    <3>4. QED
      BY <3>1, <3>3
  <2>3. k[r[i]] = Sum({x \in S : m[x] = i})
    BY <2>1
  <2>4. Sum(In(J)) = Sum({x \in S : m[x] = i}) + Sum(In(L))
    <3> DEFINE A == {x \in S : m[x] = i}
               B == In(L)
    <3>1. In(J) = A \cup B /\ A \cap B = {} /\ A \in SUBSET S /\ B \in SUBSET S
      BY <2>1
    <3> HIDE DEF A, B
    <3>2. Gives(f, A \cup B, Int)
      BY <3>1 DEF Gives
    <3>3. Sum(A \cup B) = Sum(A) + Sum(B)
      BY <1>1, <3>1, <3>2, SumUnion
    <3>4. QED
      BY <3>1, <3>3 DEF A, B
  <2>5. SumFunctionOnSet(k, Of(L)) = Sum(In(L))
    BY <1>5, <2>1
  <2> HIDE DEF Sum, In, Of
  <2>6. QED
    BY <2>2, <2>3, <2>4, <2>5
<1>6. I \in T
  <2> HIDE DEF T
  <2>1. QED
    BY <1>4, <1>5, BySubsets
<1>7. In(I) = S
  BY DEF Gives
<1>8. QED
  BY <1>6, <1>7

LEMMA SumOnes ==
    ASSUME NEW f, NEW S, IsFiniteSet(S), \A x \in S : f[x] = 1
    PROVE  SumFunctionOnSet(f, S) = Cardinality(S)
<1> DEFINE T == {X \in SUBSET S : SumFunctionOnSet(f, X) = Cardinality(X)}
<1>1. \A X \in SUBSET S : IsFiniteSet(X) /\ Cardinality(X) \in Nat
  BY FS_Subset, FS_CardinalityType
<1>2. {} \in T
  BY <1>1, SumStep, FS_EmptySet
<1>3. ASSUME NEW X \in SUBSET S, X # {}, \A x \in X : X \ {x} \in T PROVE X \in T
  <2>1. PICK x \in X : SumFunctionOnSet(f, X) = f[x] + SumFunctionOnSet(f, X \ {x})
    BY <1>1, <1>3, SumStep
  <2>2. Cardinality(X \ {x}) = Cardinality(X) - 1
    BY <1>1, FS_RemoveElement
  <2>3. SumFunctionOnSet(f, X \ {x}) = Cardinality(X \ {x})
    BY <1>3
  <2>4. QED
    BY <1>1, <2>1, <2>2, <2>3
<1> HIDE DEF T
<1>4. \A X \in SUBSET S : X \in T
  BY <1>2, <1>3, BySubsets
<1>5. QED
  BY <1>4 DEF T

LEMMA SumNat ==
    ASSUME NEW f, NEW S, IsFiniteSet(S), Gives(f, S, Nat)
    PROVE  SumFunctionOnSet(f, S) \in Nat
<1> DEFINE T == {X \in SUBSET S : SumFunctionOnSet(f, X) \in Nat}
<1>1. \A X \in SUBSET S : IsFiniteSet(X)
  BY FS_Subset
<1>2. {} \in T
  BY <1>1, SumStep
<1>3. ASSUME NEW X \in SUBSET S, X # {}, \A x \in X : X \ {x} \in T PROVE X \in T
  <2>1. PICK x \in X : SumFunctionOnSet(f, X) = f[x] + SumFunctionOnSet(f, X \ {x})
    BY <1>1, <1>3, SumStep
  <2>2. QED
    BY <1>3, <2>1 DEF Gives
<1> HIDE DEF T
<1>4. \A X \in SUBSET S : X \in T
  BY <1>2, <1>3, BySubsets
<1>5. QED
  BY <1>4 DEF T

LEMMA SumAtLeast ==
    ASSUME NEW f, NEW S, IsFiniteSet(S), NEW c \in Nat, \A x \in S : f[x] \in Nat /\ c <= f[x]
    PROVE  Cardinality(S) * c <= SumFunctionOnSet(f, S)
<1> DEFINE Sum(X) == SumFunctionOnSet(f, X)
           T == {X \in SUBSET S : Cardinality(X) * c <= Sum(X)}
<1>1. \A X \in SUBSET S : IsFiniteSet(X) /\ Cardinality(X) \in Nat
  BY FS_Subset, FS_CardinalityType
<1>2. \A X \in SUBSET S : Sum(X) \in Nat
  BY <1>1, SumNat DEF Gives
<1>3. {} \in T
  <2>1. Sum({}) = 0 /\ Cardinality({}) = 0
    BY <1>1, SumStep, FS_EmptySet
  <2> HIDE DEF Sum
  <2>2. QED
    BY <2>1
<1>4. ASSUME NEW X \in SUBSET S, X # {}, \A x \in X : X \ {x} \in T PROVE X \in T
  <2>1. PICK x \in X : Sum(X) = f[x] + Sum(X \ {x})
    BY <1>1, <1>4, SumStep
  <2> DEFINE n == Cardinality(X \ {x})
             s == Sum(X \ {x})
  <2>2. Cardinality(X) = n + 1 /\ n \in Nat
    BY <1>1, FS_RemoveElement
  <2>3. n * c <= s /\ s \in Nat /\ f[x] \in Nat /\ c <= f[x]
    BY <1>2, <1>4
  <2>4. Sum(X) = f[x] + s
    BY <2>1
  <2> HIDE DEF n, s, Sum
  <2>5. (n + 1) * c = n * c + c /\ n * c \in Nat
    BY <2>2, SMT
  <2>6. (n + 1) * c <= Sum(X)
    BY <2>3, <2>4, <2>5, SMT
  <2>7. QED
    BY <2>2, <2>6
<1> HIDE DEF T
<1>5. \A X \in SUBSET S : X \in T
  BY <1>3, <1>4, BySubsets
<1>6. QED
  BY <1>5 DEF T

LEMMA SumAtMost ==
    ASSUME NEW f, NEW S, IsFiniteSet(S), NEW c \in Nat, \A x \in S : f[x] \in Nat /\ f[x] <= c
    PROVE  SumFunctionOnSet(f, S) <= Cardinality(S) * c
<1> DEFINE Sum(X) == SumFunctionOnSet(f, X)
           T == {X \in SUBSET S : Sum(X) <= Cardinality(X) * c}
<1>1. \A X \in SUBSET S : IsFiniteSet(X) /\ Cardinality(X) \in Nat
  BY FS_Subset, FS_CardinalityType
<1>2. \A X \in SUBSET S : Sum(X) \in Nat
  BY <1>1, SumNat DEF Gives
<1>3. {} \in T
  <2>1. Sum({}) = 0 /\ Cardinality({}) = 0
    BY <1>1, SumStep, FS_EmptySet
  <2> HIDE DEF Sum
  <2>2. QED
    BY <2>1
<1>4. ASSUME NEW X \in SUBSET S, X # {}, \A x \in X : X \ {x} \in T PROVE X \in T
  <2>1. PICK x \in X : Sum(X) = f[x] + Sum(X \ {x})
    BY <1>1, <1>4, SumStep
  <2> DEFINE n == Cardinality(X \ {x})
             s == Sum(X \ {x})
  <2>2. Cardinality(X) = n + 1 /\ n \in Nat
    BY <1>1, FS_RemoveElement
  <2>3. s <= n * c /\ s \in Nat /\ f[x] \in Nat /\ f[x] <= c
    BY <1>2, <1>4
  <2>4. Sum(X) = f[x] + s
    BY <2>1
  <2> HIDE DEF n, s, Sum
  <2>5. (n + 1) * c = n * c + c /\ n * c \in Nat
    BY <2>2, SMT
  <2>6. Sum(X) <= (n + 1) * c
    BY <2>3, <2>4, <2>5, SMT
  <2>7. QED
    BY <2>2, <2>6
<1> HIDE DEF T
<1>5. \A X \in SUBSET S : X \in T
  BY <1>3, <1>4, BySubsets
<1>6. QED
  BY <1>5 DEF T

-----------------------------------------------------------------------------
(* Fusion *)

Fusible(rankings) ==
    /\ Len(rankings) \in Nat
    /\ \A i \in 1..Len(rankings) : rankings[i].hits \in Seq(Urls) /\ rankings[i].weight \in Int

\* The hits of a list.
HitsOf(rankings, i) ==
    {[at |-> <<i, r>>, url |-> rankings[i].hits[r], engine |-> rankings[i].engine,
      score |-> Contribution(rankings[i].weight, r)] : r \in 1..Len(rankings[i].hits)}

LEMMA ShareType == ASSUME NEW r \in Nat PROVE Share(r) \in Nat
  BY DEF Share, Unit, K

LEMMA HitTypes ==
    ASSUME NEW rankings, Fusible(rankings)
    PROVE  /\ IsFiniteSet(Hits(rankings))
           /\ \A h \in Hits(rankings) :
                  /\ h.at[1] \in Nat /\ h.at[2] \in Nat
                  /\ h.url \in Urls /\ h.score \in Int
           /\ \A h \in Hits(rankings) : \E i \in 1..Len(rankings) : \E r \in 1..Len(rankings[i].hits) :
                  /\ h.at = <<i, r>>
                  /\ h.url = rankings[i].hits[r] /\ h.engine = rankings[i].engine
                  /\ h.score = Contribution(rankings[i].weight, r)
           /\ \A i \in 1..Len(rankings) : \A r \in 1..Len(rankings[i].hits) :
                  \E h \in Hits(rankings) : h.at = <<i, r>> /\ h.url = rankings[i].hits[r]
<1> DEFINE f == [i \in 1..Len(rankings) |-> HitsOf(rankings, i)]
<1>1. Hits(rankings) = UNION {f[i] : i \in 1..Len(rankings)}
  BY DEF Hits, HitsOf
<1>2. IsFiniteSet(Hits(rankings))
  <2>1. ASSUME NEW i \in 1..Len(rankings) PROVE IsFiniteSet(f[i])
    <3> DEFINE g == [r \in 1..Len(rankings[i].hits) |->
                        [at |-> <<i, r>>, url |-> rankings[i].hits[r], engine |-> rankings[i].engine,
                         score |-> Contribution(rankings[i].weight, r)]]
    <3>1. f[i] = {g[r] : r \in 1..Len(rankings[i].hits)}
      BY DEF HitsOf
    <3>2. Len(rankings[i].hits) \in Nat
      BY DEF Fusible
    <3>3. IsFiniteSet(1..Len(rankings[i].hits))
      <4> DEFINE n == Len(rankings[i].hits)
      <4>1. n \in Nat /\ 1 \in Int
        BY <3>2
      <4> HIDE DEF n
      <4>2. IsFiniteSet(1..n)
        BY <4>1, FS_Interval
      <4>3. QED
        BY <4>2 DEF n
    <3> HIDE DEF g, f
    <3>4. QED
      BY <3>1, <3>3, FiniteImage
  <2>2. IsFiniteSet(1..Len(rankings))
    BY FS_Interval DEF Fusible
  <2> HIDE DEF f
  <2>3. IsFiniteSet({f[i] : i \in 1..Len(rankings)})
    BY <2>2, FiniteImage
  <2>4. QED
    BY <1>1, <2>1, <2>3, FS_UNION
<1>3. ASSUME NEW h \in Hits(rankings)
      PROVE  \E i \in 1..Len(rankings) : \E r \in 1..Len(rankings[i].hits) :
                  /\ h.at = <<i, r>>
                  /\ h.url = rankings[i].hits[r] /\ h.engine = rankings[i].engine
                  /\ h.score = Contribution(rankings[i].weight, r)
  <2>1. PICK i \in 1..Len(rankings) : h \in HitsOf(rankings, i)
    BY <1>1
  <2>2. QED
    BY <2>1 DEF HitsOf
<1>4. ASSUME NEW h \in Hits(rankings)
      PROVE  /\ h.at[1] \in Nat /\ h.at[2] \in Nat
             /\ h.url \in Urls /\ h.score \in Int
  <2>1. PICK i \in 1..Len(rankings) : \E r \in 1..Len(rankings[i].hits) :
                  /\ h.at = <<i, r>>
                  /\ h.url = rankings[i].hits[r] /\ h.engine = rankings[i].engine
                  /\ h.score = Contribution(rankings[i].weight, r)
    BY <1>3
  <2>2. rankings[i].hits \in Seq(Urls) /\ rankings[i].weight \in Int
    BY DEF Fusible
  <2>3. PICK r \in 1..Len(rankings[i].hits) :
            h.at = <<i, r>> /\ h.url = rankings[i].hits[r] /\ h.score = rankings[i].weight * Share(r)
    BY <2>1 DEF Contribution
  <2>4. Share(r) \in Int
    BY ShareType
  <2>5. QED
    BY <2>2, <2>3, <2>4
<1>5. ASSUME NEW i \in 1..Len(rankings), NEW r \in 1..Len(rankings[i].hits)
      PROVE  \E h \in Hits(rankings) : h.at = <<i, r>> /\ h.url = rankings[i].hits[r]
  <2> DEFINE h == [at |-> <<i, r>>, url |-> rankings[i].hits[r], engine |-> rankings[i].engine,
                   score |-> Contribution(rankings[i].weight, r)]
  <2>1. h \in HitsOf(rankings, i)
    BY DEF HitsOf
  <2>2. h \in Hits(rankings)
    BY <1>1, <2>1
  <2>3. QED
    BY <2>2
<1>6. QED
  BY <1>2, <1>3, <1>4, <1>5

LEMMA EarliestIsOne ==
    ASSUME NEW X, X # {}, \A h \in X : h.at[1] \in Nat /\ h.at[2] \in Nat
    PROVE  /\ Earliest(X) \in X
           /\ \A g \in X : LET e == Earliest(X) IN
                  e.at[1] < g.at[1] \/ (e.at[1] = g.at[1] /\ e.at[2] <= g.at[2])
<1> DEFINE A == {h.at[1] : h \in X}
<1>1. PICK a \in A : \A k \in A : a <= k
  BY Least
<1> DEFINE B == {h.at[2] : h \in {h \in X : h.at[1] = a}}
<1>2. PICK b \in B : \A k \in B : b <= k
  <2>1. B # {} /\ B \subseteq Nat
    OBVIOUS
  <2> HIDE DEF B
  <2>2. QED
    BY <2>1, Least
<1>3. PICK h \in X : h.at[1] = a /\ h.at[2] = b
  OBVIOUS
<1>4. ASSUME NEW g \in X
      PROVE  h.at[1] < g.at[1] \/ (h.at[1] = g.at[1] /\ h.at[2] <= g.at[2])
  <2>1. a <= g.at[1] /\ a \in Nat /\ g.at[1] \in Nat
    BY <1>1, <1>3
  <2>2. g.at[1] = a => b <= g.at[2]
    BY <1>2
  <2>3. QED
    BY <1>3, <2>1, <2>2
<1>5. QED
  BY <1>4 DEF Earliest

PagesOf(rankings) == {Canon[h.url] : h \in Hits(rankings)}
HitsOn(rankings, page) == {h \in Hits(rankings) : Canon[h.url] = page}

\* Each page of the rankings has one fused hit.
LEMMA FusedPages ==
    ASSUME NEW rankings, Fusible(rankings)
    PROVE  /\ IsFiniteSet(Fuse(rankings)) /\ IsFiniteSet(PagesOf(rankings))
           /\ Fuse(rankings) = {FusedPage(HitsOn(rankings, page)) : page \in PagesOf(rankings)}
           /\ \A page \in PagesOf(rankings) :
                  LET hit == FusedPage(HitsOn(rankings, page)) IN
                  /\ hit.url \in Urls /\ hit.score \in Int /\ hit.count \in Nat
                  /\ Canon[hit.url] = page
           /\ \A a, b \in Fuse(rankings) : Canon[a.url] = Canon[b.url] => a = b
<1> DEFINE H == Hits(rankings)
           P == PagesOf(rankings)
<1>1. /\ IsFiniteSet(H)
      /\ \A h \in H : h.at[1] \in Nat /\ h.at[2] \in Nat /\ h.url \in Urls /\ h.score \in Int
  BY HitTypes
<1>2. Fuse(rankings) = {FusedPage(HitsOn(rankings, page)) : page \in P}
  BY DEF Fuse, HitsOn, PagesOf
<1>3. IsFiniteSet(P)
  <2> DEFINE m == [h \in H |-> Canon[h.url]]
  <2>1. P = {m[h] : h \in H}
    BY DEF PagesOf
  <2> HIDE DEF m, H, P
  <2>2. QED
    BY <1>1, <2>1, FiniteImage
<1>4. IsFiniteSet(Fuse(rankings))
  <2> DEFINE m == [page \in P |-> FusedPage(HitsOn(rankings, page))]
  <2>1. Fuse(rankings) = {m[page] : page \in P}
    BY <1>2
  <2> HIDE DEF m, P
  <2>2. QED
    BY <1>3, <2>1, FiniteImage
<1>5. ASSUME NEW page \in P
      PROVE  LET hit == FusedPage(HitsOn(rankings, page)) IN
             /\ hit.url \in Urls /\ hit.score \in Int /\ hit.count \in Nat
             /\ Canon[hit.url] = page
  <2> DEFINE X == HitsOn(rankings, page)
             f == [h \in X |-> h.score]
  <2>1. X # {} /\ X \in SUBSET H
    BY DEF PagesOf, HitsOn
  <2>2. Earliest(X) \in X
    BY <1>1, <2>1, EarliestIsOne
  <2>3. Earliest(X).url \in Urls /\ Canon[Earliest(X).url] = page
    BY <1>1, <2>1, <2>2 DEF HitsOn
  <2>4. IsFiniteSet(X) /\ Cardinality(X) \in Nat
    BY <1>1, <2>1, FS_Subset, FS_CardinalityType
  <2>5. SumFunctionOnSet(f, X) \in Int
    <3>1. Gives(f, X, Int)
      BY <1>1, <2>1 DEF Gives
    <3> HIDE DEF f, X
    <3>2. QED
      BY <2>4, <3>1, SumType
  <2>6. FusedPage(X).score = SumFunctionOnSet(f, X)
    BY DEF FusedPage, SumFunction
  <2>7. FusedPage(X).url = Earliest(X).url /\ FusedPage(X).count = Cardinality(X)
    BY DEF FusedPage
  <2> HIDE DEF X, f
  <2>8. QED
    BY <2>3, <2>4, <2>5, <2>6, <2>7 DEF X
<1>6. \A a, b \in Fuse(rankings) : Canon[a.url] = Canon[b.url] => a = b
  BY <1>2, <1>5
<1>7. QED
  BY <1>2, <1>3, <1>4, <1>5, <1>6

LEMMA Foremost ==
    ASSUME NEW S, IsFiniteSet(S), S # {}, NEW R, StrictOrder(S, R)
    PROVE  \E x \in S : \A y \in S : x = y \/ <<x, y>> \in R
<1>1. Cardinality(S) \in Nat /\ Cardinality(S) # 0
  BY FS_CardinalityType, FS_EmptySet
<1>2. 1 \in 1..Cardinality(S)
  BY <1>1
<1>3. PICK x \in S : Cardinality(Preceding(S, R, x)) = 1 - 1
  BY <1>2, Ranks
<1>4. Preceding(S, R, x) = {}
  <2>1. IsFiniteSet(Preceding(S, R, x))
    <3>1. Preceding(S, R, x) \in SUBSET S
      BY DEF Preceding
    <3>2. QED
      BY <3>1, FS_Subset
  <2>2. Cardinality(Preceding(S, R, x)) = 0
    BY <1>3
  <2>3. QED
    BY <2>1, <2>2, FS_EmptySet
<1>5. \A y \in S : ~(<<y, x>> \in R)
  BY <1>4 DEF Preceding
<1>6. QED
  BY <1>5 DEF StrictOrder

\* Fusion neither adds nor loses a hit's score, nor a hit.
LEMMA FusionSums ==
    ASSUME NEW rankings, Fusible(rankings)
    PROVE  /\ SumFunctionOnSet([f \in Fuse(rankings) |-> f.score], Fuse(rankings))
                = SumFunctionOnSet([h \in Hits(rankings) |-> h.score], Hits(rankings))
           /\ SumFunctionOnSet([f \in Fuse(rankings) |-> f.count], Fuse(rankings))
                = Cardinality(Hits(rankings))
<1> DEFINE H == Hits(rankings)
           P == PagesOf(rankings)
           m == [h \in H |-> Canon[h.url]]
           r == [page \in P |-> FusedPage(HitsOn(rankings, page))]
           scores == [h \in H |-> h.score]
           ones == [h \in H |-> 1]
           ks == [f \in Fuse(rankings) |-> f.score]
           kc == [f \in Fuse(rankings) |-> f.count]
<1>1. IsFiniteSet(H) /\ \A h \in H : h.score \in Int
  BY HitTypes
<1>2. IsFiniteSet(P) /\ Fuse(rankings) = {r[page] : page \in P}
  BY FusedPages
<1>3. \A page, other \in P : r[page] = r[other] => page = other
  <2>1. \A page \in P : Canon[r[page].url] = page
    BY FusedPages
  <2> HIDE DEF r, P
  <2>2. QED
    BY <2>1
<1>4. Gives(m, H, P)
  BY DEF Gives, PagesOf
<1>5. ASSUME NEW page \in P
      PROVE  /\ ks[r[page]] = SumFunctionOnSet(scores, {h \in H : m[h] = page})
             /\ kc[r[page]] = SumFunctionOnSet(ones, {h \in H : m[h] = page})
  <2> DEFINE X == HitsOn(rankings, page)
             own == [h \in X |-> h.score]
  <2>1. X = {h \in H : m[h] = page} /\ X \in SUBSET H
    BY DEF HitsOn
  <2>2. IsFiniteSet(X)
    BY <1>1, <2>1, FS_Subset
  <2>3. ks[r[page]] = FusedPage(X).score /\ kc[r[page]] = FusedPage(X).count
    BY <1>2
  <2>4. FusedPage(X).score = SumFunctionOnSet(own, X) /\ FusedPage(X).count = Cardinality(X)
    BY DEF FusedPage, SumFunction
  <2>5. \A h \in X : own[h] = scores[h] /\ ones[h] = 1
    BY <2>1
  <2> HIDE DEF X, own, scores, ones, H, ks, kc, r, m
  <2>6. SumFunctionOnSet(own, X) = SumFunctionOnSet(scores, X)
    BY <2>2, <2>5, SumAgree
  <2>7. SumFunctionOnSet(ones, X) = Cardinality(X)
    BY <2>2, <2>5, SumOnes
  <2>8. QED
    BY <2>1, <2>3, <2>4, <2>6, <2>7
<1>6. Gives(scores, H, Int) /\ Gives(ones, H, Int) /\ \A h \in H : ones[h] = 1
  BY <1>1 DEF Gives
<1> HIDE DEF H, P, m, r, scores, ones, ks, kc
<1>7. SumFunctionOnSet(ks, Fuse(rankings)) = SumFunctionOnSet(scores, H)
  BY <1>1, <1>2, <1>3, <1>4, <1>5, <1>6, SumOfGroups
<1>8. SumFunctionOnSet(kc, Fuse(rankings)) = SumFunctionOnSet(ones, H)
  <2>1. \A page \in P : kc[r[page]] = SumFunctionOnSet(ones, {h \in H : m[h] = page})
    BY <1>5
  <2>2. SumFunctionOnSet(kc, {r[page] : page \in P}) = SumFunctionOnSet(ones, H)
    BY <1>1, <1>2, <1>3, <1>4, <1>6, <2>1, SumOfGroups
  <2>3. QED
    BY <1>2, <2>2
<1>9. SumFunctionOnSet(ones, H) = Cardinality(H)
  BY <1>1, <1>6, SumOnes
<1>10. QED
  BY <1>7, <1>8, <1>9 DEF H, scores, ks, kc

\* Hits that are told apart by their URLs, as fused ones are.
FusedHits(F) ==
    /\ IsFiniteSet(F)
    /\ \A f \in F : f.url \in Urls /\ f.score \in Int /\ f.count \in Nat
    /\ \A a, b \in F : a.url = b.url => a = b

LEMMA FuseFits == ASSUME NEW rankings, Fusible(rankings) PROVE FusedHits(Fuse(rankings))
<1>1. \A f \in Fuse(rankings) : f.url \in Urls /\ f.score \in Int /\ f.count \in Nat
  BY FusedPages
<1>2. \A a, b \in Fuse(rankings) : a.url = b.url => a = b
  BY FusedPages
<1>3. IsFiniteSet(Fuse(rankings))
  BY FusedPages
<1>4. QED
  BY <1>1, <1>2, <1>3 DEF FusedHits

ScoreOrder(S) ==
    {p \in S \X S :
        \/ p[1].score > p[2].score
        \/ p[1].score = p[2].score /\ Before[p[1].url] < Before[p[2].url]}

RankOrder(S) ==
    {p \in S \X S :
        \/ p[1].score > p[2].score
        \/ p[1].score = p[2].score /\ Matches[p[1].url] > Matches[p[2].url]
        \/ p[1].score = p[2].score /\ Matches[p[1].url] = Matches[p[2].url]
               /\ Before[p[1].url] < Before[p[2].url]}

MatchOrder(S) ==
    {p \in S \X S :
        \/ Matches[p[1].url] > Matches[p[2].url]
        \/ Matches[p[1].url] = Matches[p[2].url] /\ Before[p[1].url] < Before[p[2].url]}

LEMMA HitOrders ==
    ASSUME NEW S, FusedHits(S)
    PROVE  StrictOrder(S, ScoreOrder(S)) /\ StrictOrder(S, RankOrder(S))
           /\ StrictOrder(S, MatchOrder(S))
<1> DEFINE b(f) == Before[f.url]
           k(f) == Matches[f.url]
           s(f) == f.score
<1>1. \A f \in S : b(f) \in Nat /\ k(f) \in Nat /\ s(f) \in Int
  BY RankFusionAssumption, HitGroupsAssumption DEF FusedHits
<1>2. \A x, y \in S : b(x) = b(y) => x = y
  BY RankFusionAssumption DEF FusedHits
<1>3. \A x, y \in S :
          (<<x, y>> \in ScoreOrder(S)) <=> (s(x) > s(y) \/ (s(x) = s(y) /\ b(x) < b(y)))
  BY DEF ScoreOrder
<1>4. \A x, y \in S :
          (<<x, y>> \in MatchOrder(S)) <=> (k(x) > k(y) \/ (k(x) = k(y) /\ b(x) < b(y)))
  BY DEF MatchOrder
<1>5. \A x, y \in S :
          (<<x, y>> \in RankOrder(S)) <=>
              (\/ s(x) > s(y)
               \/ s(x) = s(y) /\ k(x) > k(y)
               \/ s(x) = s(y) /\ k(x) = k(y) /\ b(x) < b(y))
  BY DEF RankOrder
<1> HIDE DEF b, k, s
<1>6. StrictOrder(S, ScoreOrder(S))
  BY <1>1, <1>2, <1>3 DEF StrictOrder
<1>7. StrictOrder(S, RankOrder(S))
  BY <1>1, <1>2, <1>5 DEF StrictOrder
<1>8. StrictOrder(S, MatchOrder(S))
  BY <1>1, <1>2, <1>4 DEF StrictOrder
<1>9. QED
  BY <1>6, <1>7, <1>8

LEMMA ByScoreArranges ==
    ASSUME NEW S, FusedHits(S)
    PROVE  Arranges(ByScore(S), S, ScoreOrder(S))
<1> DEFINE R == ScoreOrder(S)
           Above(x) == {y \in S : y.score > x.score
                                     \/ (y.score = x.score /\ Before[y.url] < Before[x.url])}
           G(n) == CHOOSE x \in S : Cardinality(Above(x)) = n - 1
           o == [n \in 1..Cardinality(S) |-> G(n)]
<1>1. ASSUME NEW x \in S PROVE Preceding(S, R, x) = Above(x)
  BY DEF Preceding, ScoreOrder
<1>2. ByScore(S) = o
  BY DEF ByScore, InOrder
<1> HIDE DEF R, Above
<1>3. \A n \in 1..Cardinality(S) : (\E x \in S : Cardinality(Preceding(S, R, x)) = n - 1)
          => o[n] \in S /\ Cardinality(Preceding(S, R, o[n])) = n - 1
  <2> SUFFICES ASSUME NEW n \in 1..Cardinality(S), NEW x \in S, Cardinality(Above(x)) = n - 1
               PROVE  o[n] \in S /\ Cardinality(Above(o[n])) = n - 1
    BY <1>1
  <2>1. G(n) \in S /\ Cardinality(Above(G(n))) = n - 1
    OBVIOUS
  <2> HIDE DEF G
  <2>2. QED
    BY <2>1
<1> HIDE DEF G
<1>4. o = [n \in 1..Cardinality(S) |-> o[n]]
  OBVIOUS
<1>5. StrictOrder(S, R) /\ IsFiniteSet(S)
  BY HitOrders DEF R, FusedHits
<1> HIDE DEF o
<1>6. QED
  BY <1>2, <1>3, <1>4, <1>5, Ordered DEF R

LEMMA RankedArranges ==
    ASSUME NEW S, FusedHits(S)
    PROVE  Arranges(Ranked(S), S, RankOrder(S))
<1> DEFINE R == RankOrder(S)
           Above(x) == {y \in S :
                \/ y.score > x.score
                \/ y.score = x.score /\ Matches[y.url] > Matches[x.url]
                \/ y.score = x.score /\ Matches[y.url] = Matches[x.url]
                       /\ Before[y.url] < Before[x.url]}
           G(n) == CHOOSE x \in S : Cardinality(Above(x)) = n - 1
           o == [n \in 1..Cardinality(S) |-> G(n)]
<1>1. ASSUME NEW x \in S PROVE Preceding(S, R, x) = Above(x)
  BY DEF Preceding, RankOrder
<1>2. Ranked(S) = o
  BY DEF Ranked, InOrder
<1> HIDE DEF R, Above
<1>3. \A n \in 1..Cardinality(S) : (\E x \in S : Cardinality(Preceding(S, R, x)) = n - 1)
          => o[n] \in S /\ Cardinality(Preceding(S, R, o[n])) = n - 1
  <2> SUFFICES ASSUME NEW n \in 1..Cardinality(S), NEW x \in S, Cardinality(Above(x)) = n - 1
               PROVE  o[n] \in S /\ Cardinality(Above(o[n])) = n - 1
    BY <1>1
  <2>1. G(n) \in S /\ Cardinality(Above(G(n))) = n - 1
    OBVIOUS
  <2> HIDE DEF G
  <2>2. QED
    BY <2>1
<1> HIDE DEF G
<1>4. o = [n \in 1..Cardinality(S) |-> o[n]]
  OBVIOUS
<1>5. StrictOrder(S, R) /\ IsFiniteSet(S)
  BY HitOrders DEF R, FusedHits
<1> HIDE DEF o
<1>6. QED
  BY <1>2, <1>3, <1>4, <1>5, Ordered DEF R

LEMMA RepresentativeIsOne ==
    ASSUME NEW X, FusedHits(X), X # {}
    PROVE  Representative(X) \in X
<1>1. PICK a \in X : \A b \in X : a = b \/ <<a, b>> \in MatchOrder(X)
  BY HitOrders, Foremost DEF FusedHits
<1>2. \A b \in X : \/ Matches[a.url] > Matches[b.url]
                   \/ Matches[a.url] = Matches[b.url] /\ Before[a.url] <= Before[b.url]
  <2> SUFFICES ASSUME NEW b \in X
               PROVE  \/ Matches[a.url] > Matches[b.url]
                      \/ Matches[a.url] = Matches[b.url] /\ Before[a.url] <= Before[b.url]
    OBVIOUS
  <2>1. Before[a.url] \in Nat /\ Before[b.url] \in Nat
    BY RankFusionAssumption DEF FusedHits
  <2>2. CASE a = b
    BY <2>1, <2>2
  <2>3. CASE a # b
    <3>1. <<a, b>> \in MatchOrder(X)
      BY <1>1, <2>3
    <3>2. \/ Matches[a.url] > Matches[b.url]
          \/ Matches[a.url] = Matches[b.url] /\ Before[a.url] < Before[b.url]
      BY <3>1 DEF MatchOrder
    <3>3. QED
      BY <2>1, <3>2
  <2>4. QED
    BY <2>2, <2>3
<1>3. QED
  BY <1>2 DEF Representative

\* A list of such hits.
HitList(s) ==
    /\ s \in Seq(ToSet(s))
    /\ \A f \in ToSet(s) : f.url \in Urls /\ f.score \in Int /\ f.count \in Nat

LEMMA ArrangedIsSet ==
    ASSUME NEW s, NEW S, NEW R, Arranges(s, S, R)
    PROVE  s \in Seq(S) /\ ToSet(s) = S /\ Len(s) = Cardinality(S)
<1> DEFINE N == Cardinality(S)
<1>1. N \in Nat /\ s \in [1..N -> S] /\ \A x \in S : \E n \in 1..N : s[n] = x
  BY DEF Arranges
<1> HIDE DEF N
<1>2. s \in Seq(S) /\ Len(s) = N
  BY <1>1
<1>3. ToSet(s) = S
  BY <1>1 DEF ToSet
<1>4. QED
  BY <1>2, <1>3 DEF N

\* Nor does aggregation, whichever groups join which.
LEMMA Aggregated ==
    ASSUME NEW F, FusedHits(F), NEW A \in Aggregations(F)
    PROVE  /\ HitList(A)
           /\ SumFunctionOnSet([f \in ToSet(A) |-> f.score], ToSet(A))
                = SumFunctionOnSet([f \in F |-> f.score], F)
           /\ SumFunctionOnSet([f \in ToSet(A) |-> f.count], ToSet(A))
                = SumFunctionOnSet([f \in F |-> f.count], F)
<1> DEFINE groups == {Group(h.url) : h \in F}
           Of(join, g) == {h \in F : join[Group(h.url)] = g}
<1>1. PICK join : /\ join \in [groups -> groups]
                  /\ A = Ranked({Absorbed(Of(join, g)) : g \in {join[x] : x \in groups}})
  <2>1. PICK join \in JoinsOf(F) :
            A = Ranked({Absorbed({h \in F : join[Group(h.url)] = g}) : g \in {join[x] : x \in DOMAIN join}})
    BY DEF Aggregations
  <2>2. join \in [groups -> groups]
    BY DEF JoinsOf
  <2>3. DOMAIN join = groups
    BY <2>2
  <2>4. QED
    BY ZenonT(40), <2>1, <2>2, <2>3
<1> DEFINE I == {join[x] : x \in groups}
           m == [h \in F |-> join[Group(h.url)]]
           X(g) == {h \in F : m[h] = g}
           r == [g \in I |-> Absorbed(X(g))]
           S == {r[g] : g \in I}
           scores == [f \in F |-> f.score]
           counts == [f \in F |-> f.count]
           ks == [f \in S |-> f.score]
           kc == [f \in S |-> f.count]
<1>2. A = Ranked(S)
  <2>1. ASSUME NEW g \in I PROVE Absorbed(Of(join, g)) = r[g]
    <3>1. Of(join, g) = X(g)
      OBVIOUS
    <3>2. QED
      BY <3>1
  <2>2. {Absorbed(Of(join, g)) : g \in I} = S
    <3> HIDE DEF Of, X, r
    <3>1. QED
      BY <2>1
  <2>3. QED
    BY <1>1, <2>2
<1>3. IsFiniteSet(F) /\ \A f \in F : f.url \in Urls /\ f.score \in Int /\ f.count \in Nat
  BY DEF FusedHits
<1>4. IsFiniteSet(I)
  <2> DEFINE q == [h \in F |-> Group(h.url)]
  <2>1. groups = {q[h] : h \in F}
    OBVIOUS
  <2>2. IsFiniteSet(groups)
    <3> HIDE DEF q, groups
    <3>1. QED
      BY <1>3, <2>1, FiniteImage
  <2>3. QED
    <3> HIDE DEF groups
    <3>1. QED
      BY <2>2, FiniteImage
<1>5. Gives(m, F, I)
  BY DEF Gives
<1>6. ASSUME NEW g \in I
      PROVE  /\ r[g].url \in Urls /\ r[g].score \in Int /\ r[g].count \in Nat
             /\ join[Group(r[g].url)] = g
             /\ r[g].score = SumFunctionOnSet(scores, X(g))
             /\ r[g].count = SumFunctionOnSet(counts, X(g))
  <2> DEFINE Y == X(g)
             own == [h \in Y |-> h.score]
             num == [h \in Y |-> h.count]
  <2>1. Y \in SUBSET F /\ Y # {}
    OBVIOUS
  <2>2. IsFiniteSet(Y)
    <3> HIDE DEF Y
    <3>1. QED
      BY <1>3, <2>1, FS_Subset
  <2>3. FusedHits(Y)
    <3> HIDE DEF Y
    <3>1. QED
      BY <2>1, <2>2 DEF FusedHits
  <2>4. Representative(Y) \in Y
    <3> HIDE DEF Y
    <3>1. QED
      BY <2>1, <2>3, RepresentativeIsOne
  <2>5. join[Group(Representative(Y).url)] = g /\ Representative(Y).url \in Urls
    <3> DEFINE a == Representative(Y)
    <3>1. a \in F /\ m[a] = g
      BY <2>4
    <3> HIDE DEF a, X, Y, I
    <3>2. join[Group(a.url)] = g /\ a.url \in Urls
      BY <1>3, <3>1
    <3>3. QED
      BY <3>2 DEF a
  <2>6. /\ r[g].url = Representative(Y).url
        /\ r[g].score = SumFunctionOnSet(own, Y)
        /\ r[g].count = SumFunctionOnSet(num, Y)
    BY DEF Absorbed, SumFunction
  <2>7. /\ \A h \in Y : own[h] = scores[h] /\ num[h] = counts[h]
        /\ Gives(scores, Y, Int) /\ Gives(counts, Y, Nat)
    BY <1>3 DEF Gives
  <2> HIDE DEF Y, own, num, scores, counts, r, I
  <2>8. SumFunctionOnSet(own, Y) = SumFunctionOnSet(scores, Y)
    BY <2>2, <2>7, SumAgree
  <2>9. SumFunctionOnSet(num, Y) = SumFunctionOnSet(counts, Y)
    BY <2>2, <2>7, SumAgree
  <2>10. SumFunctionOnSet(scores, Y) \in Int
    BY <2>2, <2>7, SumType
  <2>11. SumFunctionOnSet(counts, Y) \in Nat
    BY <2>2, <2>7, SumNat
  <2>12. QED
    BY <2>5, <2>6, <2>8, <2>9, <2>10, <2>11 DEF Y
<1>7. \A i, j \in I : r[i].url = r[j].url => i = j
  <2> HIDE DEF r, I
  <2>1. QED
    BY <1>6
<1>8. FusedHits(S)
  <2> HIDE DEF r, I
  <2>1. IsFiniteSet(S)
    BY <1>4, FiniteImage
  <2>2. \A i \in I : r[i].url \in Urls /\ r[i].score \in Int /\ r[i].count \in Nat
    BY <1>6
  <2>3. \A f \in S : f.url \in Urls /\ f.score \in Int /\ f.count \in Nat
    BY <2>2
  <2>4. \A a, b \in S : a.url = b.url => a = b
    BY <1>7
  <2> HIDE DEF S
  <2>5. QED
    BY <2>1, <2>3, <2>4 DEF FusedHits
<1>9. A \in Seq(S) /\ ToSet(A) = S
  <2> HIDE DEF S
  <2>1. QED
    BY <1>2, <1>8, RankedArranges, ArrangedIsSet
<1>10. HitList(A)
  <2> HIDE DEF S
  <2>1. QED
    BY <1>8, <1>9 DEF HitList, FusedHits
<1>11. Gives(scores, F, Int) /\ Gives(counts, F, Int)
  BY <1>3 DEF Gives
<1>12. \A i, j \in I : r[i] = r[j] => i = j
  <2> HIDE DEF r, I
  <2>1. QED
    BY <1>7
<1>13. /\ \A i \in I : ks[r[i]] = SumFunctionOnSet(scores, X(i))
       /\ \A i \in I : kc[r[i]] = SumFunctionOnSet(counts, X(i))
  <2> HIDE DEF r, I, X, scores, counts
  <2>1. QED
    BY <1>6
<1> HIDE DEF r, I, m, scores, counts, ks, kc
<1>14. SumFunctionOnSet(ks, S) = SumFunctionOnSet(scores, F)
  <2>1. \A i \in I : ks[r[i]] = SumFunctionOnSet(scores, {h \in F : m[h] = i})
    BY <1>13
  <2>2. QED
    BY <1>3, <1>4, <1>5, <1>11, <1>12, <2>1, SumOfGroups
<1>15. SumFunctionOnSet(kc, S) = SumFunctionOnSet(counts, F)
  <2>1. \A i \in I : kc[r[i]] = SumFunctionOnSet(counts, {h \in F : m[h] = i})
    BY <1>13
  <2> HIDE DEF X, S, groups, Of
  <2>2. SumFunctionOnSet(kc, {r[i] : i \in I}) = SumFunctionOnSet(counts, F)
    BY <1>3, <1>4, <1>5, <1>11, <1>12, <2>1, SumOfGroups
  <2>3. QED
    BY <2>2 DEF S
<1>16. QED
  BY <1>9, <1>10, <1>14, <1>15 DEF ks, kc, scores, counts

-----------------------------------------------------------------------------
(* What a hit is worth *)

LEMMA Times ==
    ASSUME NEW w \in Nat, NEW s \in Nat, NEW a \in Nat, NEW b \in Nat, a <= w, b <= s
    PROVE  a * b <= w * s
<1>1. a * b <= a * s
  BY SMT
<1>2. a * s <= w * s
  BY SMT
<1>3. a * b \in Nat /\ a * s \in Nat /\ w * s \in Nat
  BY SMT
<1>4. QED
  BY <1>1, <1>2, <1>3

\* The lower the rank, the less.
LEMMA Shares ==
    ASSUME NEW n \in Nat, NEW r \in Nat, n <= r
    PROVE  Share(n) \in Nat /\ Share(r) \in Nat /\ Share(r) <= Share(n)
<1> DEFINE a == K + n
           b == K + r
<1>1. a \in Nat \ {0} /\ b \in Nat \ {0} /\ a <= b
  BY DEF K
<1>2. Unit \in Nat
  BY DEF Unit
<1> HIDE DEF a, b
<1>3. Unit \div a \in Nat /\ Unit \div b \in Nat
  BY <1>1, <1>2 
<1>4. b * (Unit \div b) <= Unit /\ Unit < a * ((Unit \div a) + 1)
  BY <1>1, <1>2, <1>3, SMTT(20)
<1>5. ASSUME Unit \div b > Unit \div a PROVE FALSE
  <2> DEFINE x == Unit \div a
             y == Unit \div b
  <2>1. x + 1 \in Nat /\ y \in Nat /\ x + 1 <= y
    BY <1>3, <1>5
  <2> HIDE DEF x, y
  <2>2. a * (x + 1) <= b * y
    BY <1>1, <2>1, Times
  <2>3. a * (x + 1) \in Nat /\ b * y \in Nat
    BY <1>1, <2>1, SMT
  <2>4. QED
    BY <1>2, <1>4, <2>2, <2>3 DEF x, y
<1>6. QED
  BY <1>3, <1>5 DEF Share, a, b

LEMMA Weights ==
    ASSUME NEW n \in Nat, NEW latency \in Nat
    PROVE  LET w == Reliability(n, latency) IN
           w \in Nat /\ w <= 800 /\ 400 <= w
<1> DEFINE speed == IF latency > 30 THEN 70 ELSE 100 - latency
<1>1. speed \in 70..100
  OBVIOUS
<1>2. Reliability(n, latency) =
        IF (4 + (IF n < 4 THEN n ELSE 4)) * speed < 400 THEN 400 ELSE (4 + (IF n < 4 THEN n ELSE 4)) * speed
  BY DEF Reliability
<1> HIDE DEF speed
<1>3. CASE n = 0
  BY <1>1, <1>2, <1>3
<1>4. CASE n = 1
  BY <1>1, <1>2, <1>4
<1>5. CASE n = 2
  BY <1>1, <1>2, <1>5
<1>6. CASE n = 3
  BY <1>1, <1>2, <1>6
<1>7. CASE n >= 4
  BY <1>1, <1>2, <1>7
<1>8. QED
  BY <1>3, <1>4, <1>5, <1>6, <1>7

-----------------------------------------------------------------------------
(* The engines' reports *)

Reported == [engine: Engines, ok: BOOLEAN, hits: Seq(Urls), latency: Nat]

\* What is fused of them.
LEMMA WeightedFits ==
    ASSUME NEW reps \in Seq(Reported)
    PROVE  /\ Fusible(Weighted(reps))
           /\ \A i \in 1..Len(Weighted(reps)) : \E j \in 1..Len(reps) :
                  /\ Weighted(reps)[i].hits = reps[j].hits
                  /\ Weighted(reps)[i].weight = Reliability(Len(reps[j].hits), reps[j].latency)
<1> DEFINE P == {i \in 1..Len(reps) : reps[i].ok}
           ok == Answers(reps)
           W == Weighted(reps)
<1>1. /\ ok \in Seq(Reported)
      /\ \A n \in 1..Len(ok) : \E i \in P : ok[n] = reps[i]
  <2>1. P \in SUBSET (1..Len(reps)) /\ ok = At(P, reps)
    BY DEF Answers
  <2> HIDE DEF P, ok
  <2>2. QED
    BY <2>1, AtKeeps
<1>2. W = [i \in 1..Len(ok) |-> [hits |-> ok[i].hits, engine |-> ok[i].engine,
                                weight |-> Reliability(Len(ok[i].hits), ok[i].latency)]]
  BY DEF Weighted
<1> HIDE DEF ok, W
<1>3. Len(W) \in Nat /\ Len(W) = Len(ok)
  BY <1>1, <1>2
<1>4. ASSUME NEW i \in 1..Len(W)
      PROVE  /\ W[i].hits \in Seq(Urls) /\ W[i].weight \in Int
             /\ \E j \in 1..Len(reps) :
                  /\ W[i].hits = reps[j].hits
                  /\ W[i].weight = Reliability(Len(reps[j].hits), reps[j].latency)
  <2>1. PICK j \in P : ok[i] = reps[j]
    BY <1>1, <1>3
  <2>2. reps[j] \in Reported /\ j \in 1..Len(reps)
    OBVIOUS
  <2>3. /\ W[i].hits = reps[j].hits
        /\ W[i].weight = Reliability(Len(reps[j].hits), reps[j].latency)
    BY <1>2, <1>3, <2>1
  <2>4. reps[j].hits \in Seq(Urls) /\ reps[j].latency \in Nat
    BY <2>2 DEF Reported
  <2>5. Len(reps[j].hits) \in Nat
    BY <2>4
  <2>6. Reliability(Len(reps[j].hits), reps[j].latency) \in Nat
    BY ZenonT(40), <2>4, <2>5, Weights
  <2>7. QED
    BY <2>2, <2>3, <2>4, <2>6
<1>5. QED
  BY <1>3, <1>4 DEF Fusible, W

\* A hit is worth from half to the whole of what any can be worth at its rank.
LEMMA Worth ==
    ASSUME NEW reps \in Seq(Reported), NEW h \in Hits(Weighted(reps))
    PROVE  /\ h.at[2] \in Nat /\ Share(h.at[2]) \in Nat /\ h.score \in Nat
           /\ 400 * Share(h.at[2]) <= h.score /\ h.score <= 800 * Share(h.at[2])
<1> DEFINE W == Weighted(reps)
<1>1. Fusible(W)
  BY WeightedFits
<1>2. PICK i \in 1..Len(W) : \E r \in 1..Len(W[i].hits) :
          h.at = <<i, r>> /\ h.score = Contribution(W[i].weight, r)
  BY <1>1, HitTypes
<1>3. PICK r \in 1..Len(W[i].hits) : h.at = <<i, r>> /\ h.score = Contribution(W[i].weight, r)
  BY <1>2
<1>4. PICK j \in 1..Len(reps) :
          /\ W[i].hits = reps[j].hits
          /\ W[i].weight = Reliability(Len(reps[j].hits), reps[j].latency)
  BY WeightedFits
<1> DEFINE n == Len(reps[j].hits)
           latency == reps[j].latency
           w == Reliability(n, latency)
           s == Share(r)
<1>5. n \in Nat /\ latency \in Nat
  <2>1. reps[j] \in Reported
    OBVIOUS
  <2>2. QED
    BY <2>1 DEF Reported
<1>6. r \in Nat /\ h.at[2] = r /\ h.score = w * s
  <2>1. r \in Nat
    BY <1>4, <1>5
  <2>2. QED
    BY <1>3, <1>4, <2>1 DEF Contribution
<1> HIDE DEF n, latency
<1>7. w \in Nat /\ w <= 800 /\ 400 <= w
  BY ZenonT(40), <1>5, Weights
<1>8. s \in Nat
  BY <1>6, ShareType
<1> HIDE DEF w, s
<1>9. w * s \in Nat
  BY <1>7, <1>8, SMT
<1>10. 400 * s <= w * s
  BY <1>7, <1>8, Times
<1>11. w * s <= 800 * s
  BY <1>7, <1>8, Times
<1>12. QED
  BY <1>6, <1>8, <1>9, <1>10, <1>11 DEF s

\* Twice as many hits, none of them ranked lower, outweigh what the others add up to.
LEMMA Agreement ==
    ASSUME reports \in Seq(Reported),
           NEW a \in Fuse(Weighted(reports)), NEW b \in Fuse(Weighted(reports)),
           Cardinality(Ahead(a, b)) >= 2 * b.count
    PROVE  a.score >= b.score
<1> DEFINE W == Weighted(reports)
           scores == [h \in Hits(W) |-> h.score]
<1>1. Fusible(W)
  BY WeightedFits
<1>2. \A h \in Hits(W) : /\ h.at[2] \in Nat /\ Share(h.at[2]) \in Nat /\ h.score \in Nat
                         /\ 400 * Share(h.at[2]) <= h.score /\ h.score <= 800 * Share(h.at[2])
  BY Worth
<1>3. ASSUME NEW f \in Fuse(W)
      PROVE  /\ IsFiniteSet(HitsAt(f)) /\ HitsAt(f) # {} /\ HitsAt(f) \in SUBSET Hits(W)
             /\ f.score = SumFunctionOnSet(scores, HitsAt(f)) /\ f.count = Cardinality(HitsAt(f))
  <2>1. PICK page \in PagesOf(W) : f = FusedPage(HitsOn(W, page)) /\ Canon[f.url] = page
    BY <1>1, FusedPages
  <2> DEFINE X == HitsOn(W, page)
             own == [h \in X |-> h.score]
  <2>2. HitsAt(f) = X /\ X \in SUBSET Hits(W) /\ X # {}
    BY <2>1 DEF HitsAt, HitsOn, PagesOf
  <2>3. IsFiniteSet(X)
    BY <1>1, <2>2, HitTypes, FS_Subset
  <2>4. f.score = SumFunctionOnSet(own, X) /\ f.count = Cardinality(X)
    BY <2>1 DEF FusedPage, SumFunction
  <2>5. \A h \in X : own[h] = scores[h]
    BY <2>2
  <2> HIDE DEF X, own, scores
  <2>6. SumFunctionOnSet(own, X) = SumFunctionOnSet(scores, X)
    BY <2>3, <2>5, SumAgree
  <2>7. QED
    BY <2>2, <2>3, <2>4, <2>6
<1> DEFINE A == Ahead(a, b)
           B == HitsAt(b)
           R == {g.at[2] : g \in B}
<1>4. B # {} /\ B \in SUBSET Hits(W) /\ IsFiniteSet(B)
  BY <1>3
<1>5. PICK m \in R : \A k \in R : m <= k
  <2>1. R # {} /\ R \subseteq Nat
    BY <1>2, <1>4
  <2> HIDE DEF R
  <2>2. QED
    BY <2>1, Least
<1>6. PICK first \in B : first.at[2] = m
  OBVIOUS
<1> DEFINE t == Share(m)
<1>7. m \in Nat /\ t \in Nat
  BY <1>2, <1>4, <1>6
<1>8. A \in SUBSET HitsAt(a) /\ A \in SUBSET Hits(W) /\ IsFiniteSet(A)
  <2>1. A \in SUBSET HitsAt(a)
    BY DEF Ahead
  <2>2. QED
    BY <1>3, <2>1, FS_Subset
<1>9. \A g \in B : scores[g] \in Nat /\ scores[g] <= 800 * t
  <2> SUFFICES ASSUME NEW g \in B PROVE scores[g] \in Nat /\ scores[g] <= 800 * t
    OBVIOUS
  <2>1. g \in Hits(W) /\ scores[g] = g.score /\ m <= g.at[2]
    BY <1>4, <1>5
  <2>2. Share(g.at[2]) <= t
    BY <1>2, <1>7, <2>1, Shares
  <2>3. /\ Share(g.at[2]) \in Nat /\ g.score \in Nat /\ g.score <= 800 * Share(g.at[2])
    BY <1>2, <2>1
  <2> HIDE DEF t, scores
  <2>4. QED
    BY <1>7, <2>1, <2>2, <2>3, SMT
<1>10. \A h \in A : scores[h] \in Nat /\ 400 * t <= scores[h]
  <2> SUFFICES ASSUME NEW h \in A PROVE scores[h] \in Nat /\ 400 * t <= scores[h]
    OBVIOUS
  <2>1. h \in Hits(W) /\ scores[h] = h.score /\ h.at[2] <= m
    BY <1>6, <1>8 DEF Ahead
  <2>2. t <= Share(h.at[2])
    BY <1>2, <1>7, <2>1, Shares
  <2>3. /\ Share(h.at[2]) \in Nat /\ h.score \in Nat /\ 400 * Share(h.at[2]) <= h.score
    BY <1>2, <2>1
  <2> HIDE DEF t, scores
  <2>4. QED
    BY <1>7, <2>1, <2>2, <2>3, SMT
<1>11. a.score >= SumFunctionOnSet(scores, A) /\ a.score \in Nat
  <2> DEFINE rest == HitsAt(a) \ A
  <2>1. /\ rest \in SUBSET Hits(W) /\ IsFiniteSet(rest)
        /\ A \cup rest = HitsAt(a) /\ A \cap rest = {}
    BY <1>3, <1>8, FS_Subset
  <2>2. Gives(scores, A \cup rest, Int) /\ Gives(scores, rest, Nat) /\ Gives(scores, A, Nat)
    BY <1>2, <1>8, <2>1 DEF Gives
  <2> HIDE DEF rest, A, scores
  <2>3. SumFunctionOnSet(scores, A \cup rest)
            = SumFunctionOnSet(scores, A) + SumFunctionOnSet(scores, rest)
    BY <1>8, <2>1, <2>2, SumUnion
  <2>4. SumFunctionOnSet(scores, rest) \in Nat /\ SumFunctionOnSet(scores, A) \in Nat
    BY <1>8, <2>1, <2>2, SumNat
  <2>5. a.score = SumFunctionOnSet(scores, A \cup rest)
    BY <1>3, <2>1
  <2> HIDE DEF W
  <2>6. QED
    BY <2>3, <2>4, <2>5, SMT
<1>12. b.score = SumFunctionOnSet(scores, B) /\ b.count = Cardinality(B)
  BY <1>3
<1> DEFINE n == Cardinality(A)
           c == Cardinality(B)
<1>13. n \in Nat /\ c \in Nat /\ 2 * c <= n
  BY <1>4, <1>8, <1>12, FS_CardinalityType
<1> HIDE DEF A, B, R, scores, t
<1>14. n * (400 * t) <= SumFunctionOnSet(scores, A) /\ SumFunctionOnSet(scores, A) \in Nat
  <2>1. SumFunctionOnSet(scores, A) >= n * (400 * t)
    <3> DEFINE low == 400 * t
    <3>1. low \in Nat /\ \A h \in A : scores[h] \in Nat /\ low <= scores[h]
      BY <1>7, <1>10
    <3> HIDE DEF low
    <3>2. QED
      BY <1>8, <3>1, SumAtLeast DEF low
  <2>2. SumFunctionOnSet(scores, A) \in Nat
    BY <1>8, <1>10, SumNat DEF Gives
  <2>3. QED
    BY <1>7, <1>13, <2>1, <2>2, SMT
<1>15. SumFunctionOnSet(scores, B) <= c * (800 * t) /\ SumFunctionOnSet(scores, B) \in Nat
  <2> DEFINE high == 800 * t
  <2>1. high \in Nat /\ \A g \in B : scores[g] \in Nat /\ scores[g] <= high
    BY <1>7, <1>9
  <2> HIDE DEF high
  <2>2. SumFunctionOnSet(scores, B) <= c * high
    BY <1>4, <2>1, SumAtMost
  <2>3. SumFunctionOnSet(scores, B) \in Nat
    BY <1>4, <2>1, SumNat DEF Gives
  <2>4. QED
    BY <2>2, <2>3 DEF high
<1>16. c * (800 * t) <= n * (400 * t)
  <2> DEFINE low == 400 * t
  <2>1. low \in Nat /\ 800 * t = 2 * low
    BY <1>7
  <2> HIDE DEF low, n, c
  <2>2. (2 * c) * low <= n * low
    BY <1>13, <2>1, Times
  <2>3. c * (2 * low) = (2 * c) * low
    BY <1>13, <2>1, SMT
  <2>4. QED
    BY <2>1, <2>2, <2>3 DEF low
<1>17. c * (800 * t) \in Nat /\ n * (400 * t) \in Nat
  BY <1>7, <1>13, SMT
<1> HIDE DEF n, c
<1>18. QED
  BY <1>11, <1>12, <1>14, <1>15, <1>16, <1>17, SMT

-----------------------------------------------------------------------------
(* The list the merge returns *)

\* A function defined by what it was before, of which each value is made of the last.
Unfolds(t, n, D, d0, G) ==
    t \in [0..n -> D] /\ t[0] = d0 /\ \A k \in 1..n : t[k] = G[k][t[k - 1]]

Stays(n, D, G) == \A k \in 1..n : \A d \in D : G[k][d] \in D

LEMMA Unfolding ==
    ASSUME NEW n \in Nat, NEW D, NEW d0 \in D, NEW G, Stays(n, D, G)
    PROVE  \E t : Unfolds(t, n, D, d0, G)
<1> DEFINE Good(t, m) == Unfolds(t, m, D, d0, G)
           T == {m \in Nat : m <= n => \E t : Good(t, m)}
<1>1. 0 \in T
  <2> DEFINE t == [k \in 0..0 |-> d0]
  <2>1. Good(t, 0)
    BY DEF Unfolds
  <2> HIDE DEF Good
  <2>2. QED
    BY <2>1
<1>2. ASSUME NEW m \in Nat, m \in T PROVE m + 1 \in T
  <2> SUFFICES ASSUME m + 1 <= n PROVE \E t : Good(t, m + 1)
    OBVIOUS
  <2>1. PICK t : Good(t, m)
    BY <1>2
  <2> DEFINE d == G[m + 1][t[m]]
             s == [k \in 0..m + 1 |-> IF k = m + 1 THEN d ELSE t[k]]
  <2>2. d \in D
    <3>1. m + 1 \in 1..n /\ t[m] \in D
      BY <2>1 DEF Unfolds
    <3>2. QED
      BY <3>1 DEF Stays
  <2>3. ASSUME NEW k \in 1..m + 1 PROVE s[k] = G[k][s[k - 1]]
    <3>1. CASE k = m + 1
      BY <3>1
    <3>2. CASE k # m + 1
      BY <2>1, <3>2 DEF Unfolds
    <3>3. QED
      BY <3>1, <3>2
  <2> HIDE DEF d
  <2>4. s \in [0..m + 1 -> D] /\ s[0] = d0
    BY <2>1, <2>2 DEF Unfolds
  <2>5. Good(s, m + 1)
    <3> HIDE DEF s
    <3>1. QED
      BY <2>3, <2>4 DEF Unfolds
  <2> HIDE DEF Good, s
  <2>6. QED
    BY <2>5
<1> HIDE DEF T
<1>3. n \in T
  BY <1>1, <1>2, ByCounting
<1>4. QED
  BY <1>3 DEF T

Returned(from) == [url: Urls, from: from]
MergeState == [seen: SUBSET {Canon[u] : u \in Urls}, results: Seq(Returned({"live", "store"}))]
Nothing == [seen |-> {}, results |-> <<>>]

LEMMA ResultKeeps ==
    ASSUME NEW q, q.store \in Seq(Urls), NEW u \in Urls
    PROVE  /\ Result(q, u) \in Returned({"live", "store"})
           /\ Canon[Result(q, u).url] = Canon[u]
<1> DEFINE I == InStore(q.store, u)
<1>1. CASE I = {}
  BY <1>1 DEF Result, Returned
<1>2. CASE I # {}
  <2> DEFINE L == Len(q.store)
             T == {L - i : i \in I}
  <2>1. L \in Nat /\ I = {i \in 1..L : Canon[q.store[i]] = Canon[u]}
    BY DEF InStore
  <2> HIDE DEF I, L
  <2>2. T \subseteq Nat /\ T # {}
    BY <1>2, <2>1
  <2>3. PICK n \in T : \A k \in T : n <= k
    <3> HIDE DEF T
    <3>1. QED
      BY <2>2, Least
  <2>4. PICK m \in I : n = L - m
    OBVIOUS
  <2>5. \A i \in I : m >= i
    <3> SUFFICES ASSUME NEW i \in I PROVE m >= i
      OBVIOUS
    <3>1. L - m <= L - i
      BY <2>3, <2>4
    <3>2. QED
      BY <2>1, <3>1
  <2>6. Max(I) \in I
    BY <2>5 DEF Max
  <2>7. q.store[Max(I)] \in Urls /\ Canon[q.store[Max(I)]] = Canon[u]
    <3>1. Max(I) \in 1..L /\ Canon[q.store[Max(I)]] = Canon[u]
      BY <2>1, <2>6
    <3>2. \A i \in 1..L : q.store[i] \in Urls
      BY DEF L
    <3>3. QED
      BY <3>1, <3>2
  <2>8. Result(q, u) = [url |-> q.store[Max(I)], from |-> "store"]
    BY <1>2 DEF Result, I
  <2>9. QED
    BY <2>7, <2>8 DEF Returned
<1>3. QED
  BY <1>1, <1>2

LEMMA CandidateIs ==
    ASSUME NEW q, q.store \in Seq(Urls), NEW u, NEW i \in InStore(q.store, u),
           \A j \in InStore(q.store, u) : i <= j
    PROVE  Candidate(q, u) = q.store[i]
<1> DEFINE I == InStore(q.store, u)
<1>1. I \subseteq Nat
  <2>1. Len(q.store) \in Nat
    OBVIOUS
  <2>2. QED
    BY <2>1 DEF InStore
<1>2. Min(I) \in I /\ \A j \in I : Min(I) <= j
  BY DEF Min
<1>3. Min(I) = i
  <2>1. PICK n : n = Min(I) /\ n \in I /\ n <= i
    BY <1>2
  <2>2. i <= n /\ n \in Nat /\ i \in Nat
    BY <1>1, <2>1
  <2>3. QED
    BY <2>1, <2>2
<1>4. I # {}
  OBVIOUS
<1>5. QED
  BY <1>3, <1>4 DEF Candidate

\* A page has one candidate, whichever of its URLs is looked up.
LEMMA OneCandidate ==
    ASSUME NEW q, NEW u, NEW v, Canon[u] = Canon[v], InStore(q.store, u) # {}
    PROVE  Candidate(q, u) = Candidate(q, v)
<1>1. InStore(q.store, u) = InStore(q.store, v)
  BY DEF InStore
<1>2. QED
  BY <1>1 DEF Candidate

\* What the gates look at is the candidate, and the result stands for it.
LEMMA ResultJudged ==
    ASSUME NEW q, q.store \in Seq(Urls), NEW u \in Urls, u = Candidate(q, u)
    PROVE  Judged(q, Result(q, u)) = u
<1>1. Result(q, u) \in Returned({"live", "store"}) /\ Canon[Result(q, u).url] = Canon[u]
  BY ResultKeeps
<1>2. Judged(q, Result(q, u)) = Candidate(q, Result(q, u).url)
  BY <1>1 DEF Judged, Returned
<1>3. CASE InStore(q.store, u) = {}
  <2>1. Result(q, u).url = u
    BY <1>3 DEF Result
  <2>2. QED
    BY <1>2, <2>1
<1>4. CASE InStore(q.store, u) # {}
  <2>1. Candidate(q, u) = Candidate(q, Result(q, u).url)
    BY <1>1, <1>4, OneCandidate
  <2>2. QED
    BY <1>2, <2>1
<1>5. QED
  BY <1>3, <1>4

LEMMA TakeFusedType ==
    ASSUME NEW q, q.store \in Seq(Urls), NEW acc \in MergeState, NEW u \in Urls
    PROVE  TakeFused(q, acc, u) \in MergeState
<1>1. Result(q, u) \in Returned({"live", "store"})
  BY ResultKeeps
<1>2. acc.seen \cup {Canon[u]} \in SUBSET {Canon[v] : v \in Urls}
  BY DEF MergeState
<1>3. acc.results \in Seq(Returned({"live", "store"}))
  BY DEF MergeState
<1>4. Append(acc.results, Result(q, u)) \in Seq(Returned({"live", "store"}))
  BY <1>1, <1>3
<1>5. QED
  BY <1>2, <1>3, <1>4 DEF TakeFused, MergeState

\* The merge takes the fused hits one by one.
Merges(q, hits, t) ==
    /\ t \in [0..Len(hits) -> MergeState] /\ t[0] = Nothing
    /\ \A k \in 1..Len(hits) : t[k] = TakeFused(q, t[k - 1], hits[k].url)

LEMMA FusedPartUnfolds ==
    ASSUME NEW q, q.store \in Seq(Urls), NEW hits, Len(hits) \in Nat,
           \A k \in 1..Len(hits) : hits[k].url \in Urls
    PROVE  \E t : Merges(q, hits, t) /\ FusedPart(q, hits) = t[Len(hits)]
<1> DEFINE n == Len(hits)
           A(d, k) == TakeFused(q, d, hits[k].url)
           Body(t, i) == IF i = 0 THEN [seen |-> {}, results |-> <<>>] ELSE A(t[i - 1], i)
           Rec(t) == t = [i \in 0..n |-> Body(t, i)]
           G == [k \in 1..n |-> [d \in MergeState |-> A(d, k)]]
<1>1. \A k \in 1..n : \A d \in MergeState : A(d, k) \in MergeState
  BY TakeFusedType
<1>2. Nothing \in MergeState /\ n \in Nat
  BY DEF Nothing, MergeState
<1> HIDE DEF A, n
<1>3. PICK t : Unfolds(t, n, MergeState, Nothing, G)
  <2>1. Stays(n, MergeState, G)
    BY <1>1 DEF Stays
  <2> HIDE DEF G
  <2>2. QED
    BY <1>2, <2>1, Unfolding
<1>4. ASSUME NEW k \in 1..n PROVE t[k] = A(t[k - 1], k)
  <2>1. t[k - 1] \in MergeState
    BY <1>2, <1>3 DEF Unfolds
  <2>2. QED
    BY <1>3, <2>1 DEF Unfolds
<1>5. Rec(t)
  <2>1. t = [i \in 0..n |-> t[i]]
    BY <1>3 DEF Unfolds
  <2>2. \A i \in 0..n : t[i] = Body(t, i)
    BY <1>2, <1>3, <1>4 DEF Nothing, Unfolds
  <2> HIDE DEF Body
  <2>3. QED
    BY <2>1, <2>2
<1>6. PICK F : F = (CHOOSE f : Rec(f)) /\ Rec(F)
  <2> HIDE DEF Rec
  <2>1. QED
    BY <1>5
<1>7. FusedPart(q, hits) = F[n]
  BY <1>6 DEF FusedPart, A, n
<1>8. \A i \in 0..n : F[i] = Body(F, i)
  <2>1. Rec(F)
    BY <1>6
  <2> HIDE DEF Body
  <2>2. QED
    BY ONLY <2>1, Zenon
<1>9. F[0] = Nothing /\ \A k \in 1..n : F[k] = A(F[k - 1], k)
  BY <1>2, <1>8 DEF Nothing
<1>10. ASSUME NEW i \in 0..n PROVE F[i] \in MergeState
  <2> DEFINE T == {k \in Nat : k <= n => F[k] \in MergeState}
  <2>1. 0 \in T
    BY <1>2, <1>9
  <2>2. ASSUME NEW k \in Nat, k \in T PROVE k + 1 \in T
    <3> SUFFICES ASSUME k + 1 <= n PROVE F[k + 1] \in MergeState
      OBVIOUS
    <3>1. F[k] \in MergeState /\ k + 1 \in 1..n /\ (k + 1) - 1 = k
      BY <1>2, <2>2
    <3>2. F[k + 1] = A(F[k], k + 1)
      BY <1>9, <3>1
    <3>3. QED
      BY <1>1, <3>1, <3>2
  <2> HIDE DEF T
  <2>3. i \in T
    BY <1>2, <2>1, <2>2, ByCounting
  <2>4. QED
    BY <1>2, <2>3 DEF T
<1>11. F \in [0..n -> MergeState]
  <2>1. Rec(F)
    BY <1>6
  <2>2. F = [i \in 0..n |-> Body(F, i)]
    BY <2>1
  <2>3. F = [i \in 0..n |-> F[i]]
    <3> HIDE DEF Body
    <3>1. QED
      BY <1>8, <2>2
  <2>4. QED
    BY <1>10, <2>3
<1>12. Merges(q, hits, F)
  BY <1>9, <1>11 DEF Merges, A, n
<1>13. QED
  BY <1>7, <1>12 DEF n

\* Each result stands for a fused hit that passed the gates.
Stands(q, had, r, u) ==
    /\ Canon[u] = Canon[r.url] /\ Canon[u] \in had
    /\ u = Judged(q, r) /\ Passes(q, u) /\ Scores(q, u, r.url)

Earned(q, acc) ==
    \A x \in 1..Len(acc.results) : \E u \in Urls : Stands(q, acc.seen, acc.results[x], u)

Once(s) == \A x, y \in 1..Len(s) : Canon[s[x].url] = Canon[s[y].url] => x = y

LEMMA TakeFusedKeeps ==
    ASSUME NEW q, q.store \in Seq(Urls), NEW acc \in MergeState, NEW u \in Urls,
           u = Candidate(q, u), Earned(q, acc), Once(acc.results), Canon[u] \notin acc.seen
    PROVE  LET new == TakeFused(q, acc, u) IN
           Earned(q, new) /\ Once(new.results) /\ new.seen \subseteq acc.seen \cup {Canon[u]}
<1> DEFINE new == TakeFused(q, acc, u)
           r == Result(q, u)
           old == acc.results
           had == acc.seen \cup {Canon[u]}
<1>1. r \in Returned({"live", "store"}) /\ Canon[r.url] = Canon[u] /\ Judged(q, r) = u
  BY ResultKeeps, ResultJudged
<1>2. old \in Seq(Returned({"live", "store"})) /\ Len(old) \in Nat
  BY DEF MergeState
<1>3. ASSUME NEW x \in 1..Len(old)
      PROVE  /\ Canon[old[x].url] \in acc.seen
             /\ \E v \in Urls : Stands(q, had, old[x], v)
  <2>1. PICK v \in Urls : Stands(q, acc.seen, old[x], v)
    BY DEF Earned
  <2>2. Canon[old[x].url] \in acc.seen /\ Stands(q, had, old[x], v)
    BY <2>1 DEF Stands
  <2>3. QED
    BY <2>2
<1>4. CASE Len(old) >= Wanted \/ ~Passes(q, u)
  BY <1>4 DEF TakeFused
<1>5. CASE ~(Len(old) >= Wanted \/ ~Passes(q, u)) /\ ~Scores(q, u, r.url)
  <2>1. new.seen = had /\ new.results = old
    BY <1>5 DEF TakeFused
  <2> HIDE DEF new, had, old
  <2>2. Earned(q, new)
    BY <1>3, <2>1 DEF Earned
  <2>3. QED
    BY <2>1, <2>2 DEF old, had, new
<1>6. CASE ~(Len(old) >= Wanted \/ ~Passes(q, u)) /\ Scores(q, u, r.url)
  <2>1. new.seen = had /\ new.results = Append(old, r)
    BY <1>6 DEF TakeFused
  <2>2. Stands(q, had, r, u)
    BY <1>1, <1>6 DEF Stands
  <2>3. \A x \in 1..Len(old) : Canon[old[x].url] # Canon[r.url]
    BY <1>1, <1>3
  <2>4. \A x, y \in 1..Len(old) : Canon[old[x].url] = Canon[old[y].url] => x = y
    BY DEF Once
  <2> HIDE DEF new, had, old, r
  <2>5. /\ Len(Append(old, r)) = Len(old) + 1
        /\ \A x \in 1..(Len(old) + 1) :
              \/ x \in 1..Len(old) /\ Append(old, r)[x] = old[x]
              \/ x = Len(old) + 1 /\ Append(old, r)[x] = r
    BY <1>2
  <2>6. Earned(q, new)
    <3> SUFFICES ASSUME NEW x \in 1..Len(new.results)
                 PROVE  \E v \in Urls : Stands(q, new.seen, new.results[x], v)
      BY DEF Earned
    <3>1. x \in 1..(Len(old) + 1) /\ new.results[x] = Append(old, r)[x]
      BY <2>1, <2>5
    <3>2. CASE x \in 1..Len(old) /\ Append(old, r)[x] = old[x]
      BY <1>3, <2>1, <3>1, <3>2
    <3>3. CASE x = Len(old) + 1 /\ Append(old, r)[x] = r
      BY <2>1, <2>2, <3>1, <3>3
    <3>4. QED
      BY <2>5, <3>1, <3>2, <3>3
  <2>7. Once(new.results)
    <3> SUFFICES ASSUME NEW x \in 1..(Len(old) + 1), NEW y \in 1..(Len(old) + 1),
                        Canon[Append(old, r)[x].url] = Canon[Append(old, r)[y].url]
                 PROVE  x = y
      BY <2>1, <2>5 DEF Once
    <3>1. CASE x \in 1..Len(old) /\ Append(old, r)[x] = old[x]
      BY <2>3, <2>4, <2>5, <3>1
    <3>2. CASE x = Len(old) + 1 /\ Append(old, r)[x] = r
      BY <2>3, <2>5, <3>2
    <3>3. QED
      BY <2>5, <3>1, <3>2
  <2>8. QED
    BY <2>1, <2>6, <2>7 DEF new, had
<1>7. QED
  BY <1>4, <1>5, <1>6

\* Until the list is full no fused hit is passed over that passes the gates.
Missed(q, hits, n, acc) ==
    Len(acc.results) < Wanted =>
        \A j \in 1..n : Canon[hits[j].url] \in acc.seen \/ ~Passes(q, hits[j].url)

LEMMA TakeFusedMisses ==
    ASSUME NEW q, NEW acc, acc.results \in Seq(Returned({"live", "store"})), NEW u
    PROVE  LET new == TakeFused(q, acc, u) IN
           Len(new.results) < Wanted =>
               /\ Len(acc.results) < Wanted /\ acc.seen \subseteq new.seen
               /\ Canon[u] \in new.seen \/ ~Passes(q, u)
<1> DEFINE new == TakeFused(q, acc, u)
           r == Result(q, u)
<1>1. Wanted \in Nat /\ Len(acc.results) \in Nat
  BY LiveSearchAssumption
<1>2. CASE Len(acc.results) >= Wanted \/ ~Passes(q, u)
  <2>1. new = acc
    BY <1>2 DEF TakeFused
  <2> HIDE DEF new
  <2>2. QED
    BY <1>1, <1>2, <2>1 DEF new
<1>3. CASE ~(Len(acc.results) >= Wanted \/ ~Passes(q, u))
  <2>1. new.seen = acc.seen \cup {Canon[u]}
    BY <1>3 DEF TakeFused
  <2> HIDE DEF new
  <2>2. QED
    BY <1>1, <1>3, <2>1 DEF new
<1>4. QED
  BY <1>2, <1>3

LEMMA FusedPartFits ==
    ASSUME NEW q, q.store \in Seq(Urls), NEW hits, Len(hits) \in Nat,
           \A k \in 1..Len(hits) : hits[k].url \in Urls /\ hits[k].url = Candidate(q, hits[k].url),
           Once(hits)
    PROVE  LET acc == FusedPart(q, hits) IN
           /\ acc \in MergeState /\ Earned(q, acc) /\ Once(acc.results)
           /\ Missed(q, hits, Len(hits), acc)
<1> DEFINE n == Len(hits)
<1>1. PICK t : Merges(q, hits, t) /\ FusedPart(q, hits) = t[n]
  BY FusedPartUnfolds
<1>2. t \in [0..n -> MergeState] /\ t[0] = Nothing
  BY <1>1 DEF Merges
<1>3. \A k \in 1..n : t[k] = TakeFused(q, t[k - 1], hits[k].url)
  BY <1>1 DEF Merges
<1> DEFINE Good(i) == /\ Earned(q, t[i]) /\ Once(t[i].results)
                      /\ t[i].seen \subseteq {Canon[hits[j].url] : j \in 1..i}
                      /\ Missed(q, hits, i, t[i])
           T == {i \in Nat : i <= n => Good(i)}
<1>4. 0 \in T
  BY <1>2 DEF Nothing, Earned, Once, Missed
<1>5. ASSUME NEW i \in Nat, i \in T PROVE i + 1 \in T
  <2> SUFFICES ASSUME i + 1 <= n PROVE Good(i + 1)
    OBVIOUS
  <2> DEFINE u == hits[i + 1].url
             acc == t[i]
  <2>1. i + 1 \in 1..n /\ i \in 0..n /\ (i + 1) - 1 = i
    OBVIOUS
  <2>2. /\ Good(i) /\ u \in Urls /\ u = Candidate(q, u)
        /\ acc \in MergeState /\ t[i + 1] = TakeFused(q, acc, u)
    BY <1>2, <1>3, <1>5, <2>1
  <2>3. Canon[u] \notin acc.seen
    <3> SUFFICES ASSUME NEW j \in 1..i, Canon[u] = Canon[hits[j].url] PROVE FALSE
      BY <2>2
    <3>1. j \in 1..n /\ j # i + 1
      OBVIOUS
    <3>2. QED
      BY <2>1, <3>1 DEF Once
  <2>4. /\ Earned(q, TakeFused(q, acc, u)) /\ Once(TakeFused(q, acc, u).results)
        /\ TakeFused(q, acc, u).seen \subseteq acc.seen \cup {Canon[u]}
    <3>1. Earned(q, acc) /\ Once(acc.results)
      BY <2>2
    <3> HIDE DEF u, acc
    <3>2. QED
      BY <2>2, <2>3, <3>1, TakeFusedKeeps
  <2>5. acc.seen \cup {Canon[u]} \subseteq {Canon[hits[j].url] : j \in 1..(i + 1)}
    <3>1. \A j \in 1..i : j \in 1..(i + 1)
      OBVIOUS
    <3>2. acc.seen \subseteq {Canon[hits[j].url] : j \in 1..i}
      BY <2>2
    <3>3. i + 1 \in 1..(i + 1)
      OBVIOUS
    <3>4. QED
      BY <3>1, <3>2, <3>3
  <2>6. Missed(q, hits, i + 1, t[i + 1])
    <3> DEFINE new == t[i + 1]
    <3> SUFFICES ASSUME Len(new.results) < Wanted, NEW j \in 1..(i + 1)
                 PROVE  Canon[hits[j].url] \in new.seen \/ ~Passes(q, hits[j].url)
      BY DEF Missed
    <3>1. acc.results \in Seq(Returned({"live", "store"})) /\ Missed(q, hits, i, acc)
      BY <2>2 DEF MergeState
    <3>2. new = TakeFused(q, acc, u)
      BY <2>2
    <3> HIDE DEF acc, new
    <3>3. /\ Len(acc.results) < Wanted /\ acc.seen \subseteq new.seen
          /\ Canon[u] \in new.seen \/ ~Passes(q, u)
      BY <3>1, <3>2, TakeFusedMisses
    <3>4. CASE j = i + 1
      BY <3>3, <3>4
    <3>5. CASE j # i + 1
      <4>1. j \in 1..i
        BY <3>5
      <4>2. QED
        BY <3>1, <3>3, <4>1 DEF Missed
    <3>6. QED
      BY <3>4, <3>5
  <2>7. QED
    <3> HIDE DEF u, acc
    <3>1. QED
      BY <2>2, <2>4, <2>5, <2>6
<1> HIDE DEF T
<1>6. n \in T
  BY <1>4, <1>5, ByCounting
<1>7. Good(n) /\ t[n] \in MergeState
  BY <1>2, <1>6 DEF T
<1>8. QED
  BY <1>1, <1>7

\* The URL of a fused page is the store's first, if the store's list is the first.
LEMMA FusedIsCandidate ==
    ASSUME NEW q, q.store \in Seq(Urls), NEW L, Fusible(L), Len(L) = 2, L[1].hits = q.store,
           NEW f \in Fuse(L)
    PROVE  f.url = Candidate(q, f.url)
<1> DEFINE I == InStore(q.store, f.url)
<1>1. CASE I = {}
  BY <1>1 DEF Candidate
<1>2. CASE I # {}
  <2>1. PICK page \in PagesOf(L) : f = FusedPage(HitsOn(L, page)) /\ Canon[f.url] = page
    BY FusedPages
  <2> DEFINE X == HitsOn(L, page)
             e == Earliest(X)
  <2>2. f.url = e.url
    BY <2>1 DEF FusedPage
  <2>3. /\ e \in X
        /\ \A g \in X : e.at[1] < g.at[1] \/ (e.at[1] = g.at[1] /\ e.at[2] <= g.at[2])
    <3>1. X # {} /\ X \subseteq Hits(L)
      BY DEF PagesOf, HitsOn
    <3>2. \A h \in X : h.at[1] \in Nat /\ h.at[2] \in Nat
      BY <3>1, HitTypes
    <3> HIDE DEF X
    <3>3. QED
      BY <3>1, <3>2, EarliestIsOne
  <2> HIDE DEF e
  <2>4. PICK k \in 1..2 : \E r \in 1..Len(L[k].hits) : e.at = <<k, r>> /\ e.url = L[k].hits[r]
    <3>1. e \in Hits(L)
      BY <2>3 DEF HitsOn
    <3>2. QED
      BY <3>1, HitTypes
  <2>5. PICK r \in 1..Len(L[k].hits) : e.at = <<k, r>> /\ e.url = L[k].hits[r]
    BY <2>4
  <2>6. PICK i \in I : \A j \in I : i <= j
    <3>1. I \subseteq Nat
      <4>1. Len(q.store) \in Nat
        OBVIOUS
      <4>2. QED
        BY <4>1 DEF InStore
    <3> HIDE DEF I
    <3>2. QED
      BY <1>2, <3>1, Least
  <2>7. i \in 1..Len(q.store) /\ Canon[q.store[i]] = Canon[f.url]
    BY DEF InStore
  <2>8. PICK g \in Hits(L) : g.at = <<1, i>> /\ g.url = q.store[i]
    <3>1. 1 \in 1..Len(L) /\ i \in 1..Len(L[1].hits)
      BY <2>7
    <3>2. QED
      BY <3>1, HitTypes
  <2>9. e.at[1] < g.at[1] \/ (e.at[1] = g.at[1] /\ e.at[2] <= g.at[2])
    <3>1. g \in X
      BY <2>1, <2>7, <2>8 DEF HitsOn
    <3>2. QED
      BY <2>3, <3>1
  <2>10. k = 1 /\ r <= i
    BY <2>5, <2>8, <2>9
  <2>11. r \in I
    BY <2>2, <2>5, <2>10 DEF InStore
  <2>12. r = i
    <3>1. i <= r /\ r \in Nat /\ i \in Nat
      BY <2>5, <2>6, <2>7, <2>10, <2>11
    <3>2. QED
      BY <2>10, <3>1
  <2>13. f.url = q.store[i]
    BY <2>2, <2>5, <2>10, <2>12
  <2>14. Candidate(q, f.url) = q.store[i]
    BY <2>6, CandidateIs
  <2>15. QED
    BY <2>13, <2>14
<1>3. QED
  BY <1>1, <1>2

LEMMA StoreIsFused ==
    ASSUME NEW L, Fusible(L), Len(L) = 2, NEW i \in 1..Len(L[1].hits)
    PROVE  \E f \in Fuse(L) : Canon[f.url] = Canon[L[1].hits[i]]
<1>1. PICK g \in Hits(L) : g.url = L[1].hits[i]
  <2>1. 1 \in 1..Len(L)
    OBVIOUS
  <2>2. QED
    BY <2>1, HitTypes
<1> DEFINE page == Canon[g.url]
<1>2. page \in PagesOf(L)
  BY DEF PagesOf
<1>3. /\ FusedPage(HitsOn(L, page)) \in Fuse(L)
      /\ Canon[FusedPage(HitsOn(L, page)).url] = page
  <2> HIDE DEF page
  <2>1. QED
    BY <1>2, FusedPages
<1>4. QED
  BY <1>1, <1>3

\* Each hit is the candidate of its page, and each row of the store has one.
CandidatesOf(q, s) ==
    /\ Len(s) \in Nat /\ Once(s)
    /\ \A k \in 1..Len(s) : s[k].url \in Urls /\ s[k].url = Candidate(q, s[k].url)
    /\ \A i \in 1..Len(q.store) : \E k \in 1..Len(s) : Canon[s[k].url] = Canon[q.store[i]]

LEMMA FusedWithLive ==
    ASSUME NEW q, q.store \in Seq(Urls), NEW hits, hits \in Seq(ToSet(hits)),
           \A f \in ToSet(hits) : f.url \in Urls /\ f.count \in Nat
    PROVE  CandidatesOf(q, FuseIndexAndLive(q.store, hits))
<1> DEFINE store == q.store
           L == IndexAndLive(store, hits)
           urls == [i \in 1..Len(hits) |-> hits[i].url]
           grown(f) == [f EXCEPT !.score = @ * Novelty(store, hits, f)]
           M == {grown(f) : f \in Fuse(L)}
           s == FuseIndexAndLive(store, hits)
<1>1. Fusible(L) /\ Len(L) = 2 /\ L[1].hits = store
  <2>1. \A i \in 1..Len(hits) : hits[i].url \in Urls
    BY DEF ToSet
  <2>2. urls \in Seq(Urls)
    <3>1. Len(hits) \in Nat
      OBVIOUS
    <3>2. QED
      BY <2>1, <3>1
  <2>3. L = <<[hits |-> store, weight |-> 1, engine |-> "index"],
              [hits |-> urls, weight |-> LiveWeight, engine |-> "live"]>>
    BY DEF IndexAndLive
  <2> HIDE DEF urls, L
  <2>4. Len(L) = 2 /\ L[1].hits = store /\ L[1].weight = 1 /\ L[2].hits = urls /\ L[2].weight = 3
    BY <2>3 DEF LiveWeight
  <2>5. QED
    BY <2>2, <2>4 DEF Fusible
<1> HIDE DEF L, store
<1>2. ASSUME NEW f \in Fuse(L) PROVE Novelty(store, hits, f) \in Int
  <2> DEFINE mine == {g \in ToSet(hits) : Canon[g.url] = Canon[f.url]}
             c == (CHOOSE g \in mine : TRUE).count
  <2>1. Novelty(store, hits, f) =
            IF mine # {} /\ \A u \in ToSet(store) : Canon[u] # Canon[f.url]
            THEN 110 + (IF 5 * (c - 1) < 10 THEN 5 * (c - 1) ELSE 10) ELSE 100
    BY DEF Novelty
  <2>2. mine # {} => c \in Nat
    <3> SUFFICES ASSUME mine # {} PROVE c \in Nat
      OBVIOUS
    <3>1. (CHOOSE g \in mine : TRUE) \in mine
      OBVIOUS
    <3>2. QED
      BY <3>1
  <2> HIDE DEF mine, c
  <2>3. CASE mine # {} /\ \A u \in ToSet(store) : Canon[u] # Canon[f.url]
    BY <2>1, <2>2, <2>3
  <2>4. CASE ~(mine # {} /\ \A u \in ToSet(store) : Canon[u] # Canon[f.url])
    BY <2>1, <2>4
  <2>5. QED
    BY <2>3, <2>4
<1>3. \A f \in Fuse(L) : f = [url |-> f.url, score |-> f.score, count |-> f.count,
                              engines |-> f.engines]
  <2>1. ASSUME NEW X PROVE FusedPage(X) = [url |-> FusedPage(X).url, score |-> FusedPage(X).score,
                                           count |-> FusedPage(X).count,
                                           engines |-> FusedPage(X).engines]
    BY DEF FusedPage
  <2>2. ASSUME NEW f \in Fuse(L) PROVE \E X : f = FusedPage(X)
    BY DEF Fuse
  <2>3. QED
    BY <2>1, <2>2
<1>4. ASSUME NEW f \in Fuse(L)
      PROVE  /\ grown(f).url = f.url /\ grown(f).count = f.count
             /\ grown(f).url \in Urls /\ grown(f).count \in Nat /\ grown(f).score \in Int
  <2>1. f.url \in Urls /\ f.score \in Int /\ f.count \in Nat
    BY <1>1, FuseFits DEF FusedHits
  <2>2. grown(f).url = f.url /\ grown(f).count = f.count
        /\ grown(f).score = f.score * Novelty(store, hits, f)
    BY <1>3
  <2>3. f.score * Novelty(store, hits, f) \in Int
    BY <1>2, <2>1, SMT
  <2>4. QED
    BY <2>1, <2>2, <2>3
<1>5. \A a, b \in Fuse(L) : Canon[a.url] = Canon[b.url] => a = b
  BY <1>1, FusedPages
<1>6. IsFiniteSet(M)
  <2> DEFINE r == [f \in Fuse(L) |-> grown(f)]
  <2>1. M = {r[f] : f \in Fuse(L)}
    OBVIOUS
  <2> HIDE DEF r, M
  <2>2. IsFiniteSet(Fuse(L))
    BY <1>1, FuseFits DEF FusedHits
  <2>3. QED
    BY <2>1, <2>2, FiniteImage
<1> HIDE DEF grown
<1>7. \A a, b \in M : Canon[a.url] = Canon[b.url] => a = b
  BY <1>4, <1>5
<1>8. \A a \in M : a.url \in Urls /\ a.count \in Nat /\ a.score \in Int
  BY <1>4
<1> HIDE DEF M
<1>9. FusedHits(M)
  <2>1. \A a, b \in M : a.url = b.url => a = b
    BY <1>7
  <2>2. QED
    BY <1>6, <1>8, <2>1 DEF FusedHits
<1>10. s = ByScore(M)
  BY DEF FuseIndexAndLive, M, L, grown
<1>11. Arranges(s, M, ScoreOrder(M))
  BY <1>9, <1>10, ByScoreArranges
<1> HIDE DEF s
<1>12. s \in Seq(M) /\ Len(s) = Cardinality(M) /\ Len(s) \in Nat
  BY <1>11, ArrangedIsSet
<1>13. \A k \in 1..Len(s) : s[k] \in M
  BY <1>12
<1>14. \A i, j \in 1..Len(s) : s[i] = s[j] => i = j
  BY <1>11, <1>12 DEF Arranges
<1>15. Once(s)
  BY <1>7, <1>13, <1>14 DEF Once
<1>16. \A f \in Fuse(L) : f.url = Candidate(q, f.url)
  BY <1>1, FusedIsCandidate DEF store
<1>17. \A k \in 1..Len(s) : \E f \in Fuse(L) : s[k].url = f.url
  BY <1>4, <1>13 DEF M
<1>18. ASSUME NEW i \in 1..Len(store) PROVE \E k \in 1..Len(s) : Canon[s[k].url] = Canon[store[i]]
  <2>1. PICK f \in Fuse(L) : Canon[f.url] = Canon[store[i]]
    BY <1>1, <1>18, StoreIsFused
  <2>2. grown(f) \in M /\ grown(f).url = f.url
    BY <1>4 DEF M
  <2>3. PICK k \in 1..Len(s) : s[k] = grown(f)
    BY <1>11, <1>12, <2>2 DEF Arranges
  <2>4. QED
    BY <2>1, <2>2, <2>3
<1>19. QED
  BY <1>8, <1>12, <1>13, <1>15, <1>16, <1>17, <1>18 DEF s, store, CandidatesOf

Queried == [store: Seq(Urls), quotes: BOOLEAN, keywords: BOOLEAN]

DistinctFor(q, list) ==
    \A i, j \in 1..Len(list) :
        i # j /\ Canon[list[i].url] = Canon[list[j].url]
            => /\ list[i].from = "fill" /\ list[j].from = "fill"
               /\ ~Passes(q, Candidate(q, list[i].url))

PreciseFor(q, list) ==
    \A i \in 1..Len(list) :
        LET r == list[i] IN
        /\ q.quotes => Judged(q, r) \in Quoted
        /\ q.keywords /\ ~(q.quotes /\ r.from = "fill")
               => Matches[r.url] > 0 \/ Matches[Judged(q, r)] > 0

LEMMA MergedFits ==
    ASSUME NEW q \in Queried, HitList(live)
    PROVE  DistinctFor(q, Merged(q)) /\ PreciseFor(q, Merged(q))
<1> DEFINE cut == First(4 * Wanted, live)
           hits == FuseIndexAndLive(q.store, cut)
           acc == FusedPart(q, hits)
           P == {i \in 1..Len(q.store) : Fills(q, acc.seen, q.store[i])}
           fill == At(P, q.store)
           rest == [i \in 1..Len(fill) |-> [url |-> fill[i], from |-> "fill"]]
           R == Returned({"live", "store", "fill"})
           all == acc.results \o rest
           list == Merged(q)
<1>1. q.store \in Seq(Urls)
  BY DEF Queried
<1>2. /\ cut \in Seq(ToSet(cut))
      /\ \A f \in ToSet(cut) : f.url \in Urls /\ f.count \in Nat
  <2>1. 4 * Wanted \in Nat /\ live \in Seq(ToSet(live))
    BY LiveSearchAssumption DEF HitList
  <2> DEFINE n == 4 * Wanted
             c == First(n, live)
  <2> HIDE DEF n
  <2>2. c \in Seq(ToSet(live))
    BY <2>1, FirstType DEF n
  <2> HIDE DEF c
  <2>3. c \in Seq(ToSet(c)) /\ ToSet(c) \subseteq ToSet(live)
    <3>1. \A i \in 1..Len(c) : c[i] \in ToSet(live)
      BY <2>2
    <3>2. ToSet(c) = {c[i] : i \in 1..Len(c)} /\ Len(c) \in Nat /\ c = [i \in 1..Len(c) |-> c[i]]
      BY <2>2 DEF ToSet
    <3>3. QED
      BY <3>1, <3>2
  <2>4. QED
    BY <2>3 DEF HitList, c, n
<1>3. /\ Len(hits) \in Nat /\ Once(hits)
      /\ \A k \in 1..Len(hits) : hits[k].url \in Urls /\ hits[k].url = Candidate(q, hits[k].url)
      /\ \A i \in 1..Len(q.store) : \E k \in 1..Len(hits) : Canon[hits[k].url] = Canon[q.store[i]]
  <2> HIDE DEF cut
  <2>1. CandidatesOf(q, hits)
    BY <1>1, <1>2, FusedWithLive
  <2> HIDE DEF hits
  <2>2. QED
    BY <2>1 DEF CandidatesOf
<1>4. acc \in MergeState /\ Earned(q, acc) /\ Once(acc.results) /\ Missed(q, hits, Len(hits), acc)
  <2> HIDE DEF hits
  <2>1. QED
    BY <1>1, <1>3, FusedPartFits
<1>5. list = First(Wanted, all)
  BY DEF Merged
<1> HIDE DEF cut, hits, acc
<1>6. /\ fill \in Seq(Urls) /\ Len(fill) \in Nat
      /\ \A n \in 1..Len(fill) : fill[n] \in Urls /\ Fills(q, acc.seen, fill[n])
      /\ \A n \in 1..Len(fill) : \E i \in 1..Len(q.store) : fill[n] = q.store[i]
  <2>1. P \in SUBSET (1..Len(q.store))
    OBVIOUS
  <2>2. \A i \in P : Fills(q, acc.seen, q.store[i])
    OBVIOUS
  <2> HIDE DEF P
  <2>3. fill \in Seq(Urls) /\ \A n \in 1..Len(fill) : \E i \in P : fill[n] = q.store[i]
    BY <1>1, <2>1, AtKeeps
  <2> HIDE DEF fill
  <2>4. QED
    BY <2>1, <2>2, <2>3
<1> HIDE DEF fill
<1>7. acc.results \in Seq(Returned({"live", "store"})) /\ Len(acc.results) \in Nat
  BY <1>4 DEF MergeState
<1>8. /\ Len(rest) = Len(fill)
      /\ \A n \in 1..Len(rest) : rest[n] = [url |-> fill[n], from |-> "fill"]
      /\ rest \in Seq(R) /\ acc.results \in Seq(R)
  <2>1. rest \in Seq(R) /\ Len(rest) = Len(fill)
    BY <1>6 DEF Returned
  <2>2. acc.results \in Seq(R)
    <3>1. \A i \in 1..Len(acc.results) : acc.results[i] \in Returned({"live", "store"})
      BY <1>7
    <3>2. \A i \in 1..Len(acc.results) : acc.results[i] \in R
      BY <3>1 DEF Returned
    <3>3. QED
      BY <1>7, <3>2
  <2>3. QED
    BY <2>1, <2>2
<1> DEFINE m == Len(acc.results)
<1> HIDE DEF rest, R
<1>9. /\ all \in Seq(R) /\ Len(all) = m + Len(fill)
      /\ \A i \in 1..m : all[i] = acc.results[i]
      /\ \A i \in (m + 1)..(m + Len(fill)) :
            i - m \in 1..Len(fill) /\ all[i] = [url |-> fill[i - m], from |-> "fill"]
  <2>1. all \in Seq(R) /\ Len(all) = m + Len(fill) /\ \A i \in 1..m : all[i] = acc.results[i]
    <3>1. acc.results \in Seq(R) /\ rest \in Seq(R)
      BY <1>8
    <3>2. all \in Seq(R)
      BY <3>1
    <3>3. Len(all) = m + Len(rest) /\ \A i \in 1..m : all[i] = acc.results[i]
      BY <3>1
    <3>4. QED
      BY <1>8, <3>2, <3>3
  <2>2. ASSUME NEW i \in (m + 1)..(m + Len(fill))
        PROVE  i - m \in 1..Len(fill) /\ all[i] = [url |-> fill[i - m], from |-> "fill"]
    <3>1. i - m \in 1..Len(fill)
      <4>1. m \in Nat /\ Len(fill) \in Nat
        BY ONLY <1>6, <1>7
      <4>2. QED
        BY ONLY <4>1, i \in (m + 1)..(m + Len(fill))
    <3>2. all[i] = rest[i - m]
      <4>1. acc.results \in Seq(R) /\ rest \in Seq(R) /\ Len(rest) = Len(fill)
        BY ONLY <1>8
      <4>2. i \in (Len(acc.results) + 1)..(Len(acc.results) + Len(rest))
        BY ONLY <4>1, i \in (m + 1)..(m + Len(fill))
      <4>3. QED
        BY ONLY <4>1, <4>2
    <3>3. QED
      BY <1>8, <3>1, <3>2
  <2>3. QED
    BY <2>1, <2>2
<1> HIDE DEF all
<1>10. /\ Len(list) \in Nat /\ Len(list) <= Wanted /\ Wanted \in Nat
       /\ \A i \in 1..Len(list) : i \in 1..Len(all) /\ list[i] = all[i]
  <2>1. Wanted \in Nat
    BY LiveSearchAssumption
  <2>2. /\ Len(list) = LeastOf(Wanted, Len(all))
        /\ \A i \in 1..LeastOf(Wanted, Len(all)) : list[i] = all[i]
    <3> HIDE DEF list
    <3>1. all \in Seq(R)
      BY <1>9
    <3>2. QED
      BY ONLY <1>5, <2>1, <3>1, FirstType
  <2>3. /\ LeastOf(Wanted, Len(all)) \in Nat /\ LeastOf(Wanted, Len(all)) <= Len(all)
        /\ LeastOf(Wanted, Len(all)) <= Wanted
    BY <1>9, <2>1 DEF LeastOf
  <2> HIDE DEF list
  <2>4. QED
    BY <1>9, <2>1, <2>2, <2>3
<1> HIDE DEF list
<1>11. ASSUME NEW i \in 1..Len(list)
       PROVE  \/ i \in 1..m /\ list[i] = acc.results[i]
              \/ m < Wanted /\ \E k \in 1..Len(fill) : list[i] = [url |-> fill[k], from |-> "fill"]
  <2>1. i \in 1..m \/ i \in (m + 1)..(m + Len(fill))
    BY <1>6, <1>7, <1>9, <1>10
  <2>2. CASE i \in 1..m
    BY <1>9, <1>10, <2>2
  <2>3. CASE i \in (m + 1)..(m + Len(fill))
    <3>1. m < i /\ i <= Wanted
      BY <1>7, <1>10, <2>3
    <3>2. m < Wanted
      BY <1>6, <1>7, <1>10, <2>3, <3>1
    <3>3. QED
      BY <1>9, <1>10, <2>3, <3>2
  <2>4. QED
    BY <2>1, <2>2, <2>3
<1>12. DistinctFor(q, list)
  <2> SUFFICES ASSUME NEW i \in 1..Len(list), NEW j \in 1..Len(list), i # j,
                      Canon[list[i].url] = Canon[list[j].url]
               PROVE  /\ list[i].from = "fill" /\ list[j].from = "fill"
                      /\ ~Passes(q, Candidate(q, list[i].url))
    BY DEF DistinctFor
  <2>1. \A x \in 1..m : Canon[acc.results[x].url] \in acc.seen
    <3> SUFFICES ASSUME NEW x \in 1..m PROVE Canon[acc.results[x].url] \in acc.seen
      OBVIOUS
    <3>1. PICK u \in Urls : Stands(q, acc.seen, acc.results[x], u)
      BY <1>4 DEF Earned
    <3>2. QED
      BY <3>1 DEF Stands
  <2>2. \A k \in 1..Len(fill) : Canon[fill[k]] \notin acc.seen
    BY <1>6 DEF Fills
  <2>3. CASE i \in 1..m /\ list[i] = acc.results[i]
    <3>1. Canon[list[j].url] \in acc.seen
      BY <2>1, <2>3
    <3>2. j \in 1..m /\ list[j] = acc.results[j]
      <4>1. CASE \E k \in 1..Len(fill) : list[j] = [url |-> fill[k], from |-> "fill"]
        <5>1. PICK k \in 1..Len(fill) : list[j] = [url |-> fill[k], from |-> "fill"]
          BY <4>1
        <5>2. list[j].url = fill[k]
          BY <5>1
        <5>3. QED
          BY <2>2, <3>1, <5>2
      <4>2. QED
        BY <1>11, <4>1
    <3>3. i = j
      BY <1>4, <2>3, <3>2 DEF Once
    <3>4. QED
      BY <3>3
  <2>4. CASE j \in 1..m /\ list[j] = acc.results[j]
    <3>1. Canon[list[i].url] \in acc.seen
      BY <2>1, <2>4
    <3>2. i \in 1..m /\ list[i] = acc.results[i]
      <4>1. CASE \E k \in 1..Len(fill) : list[i] = [url |-> fill[k], from |-> "fill"]
        <5>1. PICK k \in 1..Len(fill) : list[i] = [url |-> fill[k], from |-> "fill"]
          BY <4>1
        <5>2. list[i].url = fill[k]
          BY <5>1
        <5>3. QED
          BY <2>2, <3>1, <5>2
      <4>2. QED
        BY <1>11, <4>1
    <3>3. i = j
      BY <1>4, <2>4, <3>2 DEF Once
    <3>4. QED
      BY <3>3
  <2>5. CASE ~(i \in 1..m /\ list[i] = acc.results[i]) /\ ~(j \in 1..m /\ list[j] = acc.results[j])
    <3>1. m < Wanted /\ \E k \in 1..Len(fill) : list[i] = [url |-> fill[k], from |-> "fill"]
      BY <1>11, <2>5
    <3>2. \E k \in 1..Len(fill) : list[j] = [url |-> fill[k], from |-> "fill"]
      BY <1>11, <2>5
    <3>3. PICK k \in 1..Len(fill) : list[i] = [url |-> fill[k], from |-> "fill"]
      BY <3>1
    <3>4. PICK x \in 1..Len(q.store) : fill[k] = q.store[x]
      BY <1>6
    <3>5. PICK y \in 1..Len(hits) : Canon[hits[y].url] = Canon[fill[k]]
      BY <1>3, <3>4
    <3>6. ~Passes(q, hits[y].url)
      BY <1>4, <2>2, <3>1, <3>5 DEF Missed
    <3>7. hits[y].url = Candidate(q, fill[k])
      <4>1. InStore(q.store, fill[k]) # {}
        BY <3>4 DEF InStore
      <4>2. Candidate(q, fill[k]) = Candidate(q, hits[y].url)
        BY <3>5, <4>1, OneCandidate
      <4>3. QED
        BY <1>3, <4>2
    <3>8. list[i].from = "fill" /\ list[i].url = fill[k]
      BY ONLY <3>3
    <3>9. list[j].from = "fill"
      BY ONLY <3>2
    <3>10. ~Passes(q, Candidate(q, list[i].url))
      BY ONLY <3>6, <3>7, <3>8
    <3>11. QED
      BY ONLY <3>8, <3>9, <3>10
  <2>6. QED
    BY <2>3, <2>4, <2>5
<1>13. PreciseFor(q, list)
  <2> SUFFICES ASSUME NEW i \in 1..Len(list)
               PROVE  /\ q.quotes => Judged(q, list[i]) \in Quoted
                      /\ q.keywords /\ ~(q.quotes /\ list[i].from = "fill")
                             => Matches[list[i].url] > 0 \/ Matches[Judged(q, list[i])] > 0
    BY DEF PreciseFor
  <2>1. CASE i \in 1..m /\ list[i] = acc.results[i]
    <3>1. PICK u \in Urls : Stands(q, acc.seen, acc.results[i], u)
      BY <1>4, <2>1 DEF Earned
    <3>2. /\ u = Judged(q, list[i])
          /\ q.quotes => u \in Quoted
          /\ q.keywords => Matches[u] > 0 \/ Matches[list[i].url] > 0
      BY <2>1, <3>1 DEF Stands, Passes, Scores
    <3>3. QED
      BY <3>2
  <2>2. CASE \E k \in 1..Len(fill) : list[i] = [url |-> fill[k], from |-> "fill"]
    <3>1. PICK k \in 1..Len(fill) : list[i] = [url |-> fill[k], from |-> "fill"]
      BY <2>2
    <3>2. /\ list[i].url = fill[k] /\ list[i].from = "fill" /\ Fills(q, acc.seen, fill[k])
          /\ Judged(q, list[i]) = fill[k]
      BY <1>6, <3>1 DEF Judged
    <3>3. QED
      BY <3>2 DEF Fills
  <2>3. QED
    BY <1>11, <2>1, <2>2
<1>14. QED
  BY <1>12, <1>13 DEF list

-----------------------------------------------------------------------------
(* The states of a search *)

LiveInv ==
    /\ clock \in Nat
    /\ reports \in Seq(Reported)
    /\ HitList(live)
    /\ phase # "done" => results = NoHits
    /\ EvidenceConserved
    /\ ResultsFit

LEMMA NothingReported == Hits(Weighted(<<>>)) = {}
<1>1. <<>> \in Seq(Reported) /\ Len(<<>>) = 0
  OBVIOUS
<1>2. /\ Fusible(Weighted(<<>>))
      /\ \A i \in 1..Len(Weighted(<<>>)) : \E j \in 1..Len(<<>>) :
             Weighted(<<>>)[i].hits = <<>>[j].hits
  BY <1>1, WeightedFits
<1>3. 1..Len(<<>>) = {}
  BY <1>1
<1>4. ~ \E i \in 1..Len(Weighted(<<>>)) : TRUE
  BY <1>2, <1>3
<1>5. QED
  BY <1>2, <1>4, HitTypes

LEMMA NothingLost ==
    ASSUME live = <<>>, reports = <<>>
    PROVE  HitList(live) /\ EvidenceConserved
<1>1. ToSet(live) = {} /\ live \in Seq({})
  BY DEF ToSet
<1>2. HitList(live)
  BY <1>1 DEF HitList
<1>3. \A f : SumFunctionOnSet(f, {}) = 0
  BY SumStep, FS_EmptySet
<1>4. Hits(Weighted(reports)) = {}
  BY NothingReported
<1>5. Cardinality({}) = 0
  BY FS_EmptySet
<1>6. EvidenceConserved
  BY <1>1, <1>3, <1>4, <1>5 DEF EvidenceConserved, SumFunction
<1>7. QED
  BY <1>2, <1>6

LEMMA LiveInvInit == ASSUME Init PROVE LiveInv
<1>1. clock \in Nat /\ reports \in Seq(Reported) /\ results = NoHits
  BY DEF Init
<1>2. HitList(live) /\ EvidenceConserved
  BY NothingLost DEF Init
<1>3. QED
  BY <1>1, <1>2 DEF LiveInv, ResultsFit

LEMMA SearchingKeeps ==
    ASSUME LiveInv, phase # "done", phase' \in {"searching", "fusing"}, clock' \in Nat,
           reports' \in Seq(Reported), live' = live, results' = results
    PROVE  LiveInv'
<1>1. HitList(live')
  BY DEF LiveInv
<1>2. results' = NoHits
  BY DEF LiveInv
<1>3. EvidenceConserved'
  BY DEF EvidenceConserved
<1>4. ResultsFit'
  BY <1>2 DEF ResultsFit
<1>5. QED
  BY <1>1, <1>2, <1>3, <1>4 DEF LiveInv

LEMMA ReportKeeps ==
    ASSUME clock \in Nat, reports \in Seq(Reported),
           NEW e \in Engines, NEW ok \in BOOLEAN, NEW hits \in Seq(Urls), Report(e, ok, hits)
    PROVE  /\ reports' \in Seq(Reported) /\ clock' \in Nat
           /\ phase' \in {"searching", "fusing"} /\ live' = live /\ results' = results
<1> DEFINE r == [engine |-> e, ok |-> ok, hits |-> hits, latency |-> clock]
<1>1. r \in Reported
  BY DEF Reported
<1>2. reports' = Append(reports, r)
  BY DEF Report
<1>3. reports' \in Seq(Reported)
  BY <1>1, <1>2
<1>4. phase' \in {"searching", "fusing"} /\ clock' \in Nat /\ live' = live /\ results' = results
  BY DEF Report, mergeVars
<1>5. QED
  BY <1>3, <1>4

\* The steps of a pass.
LEMMA EngineSteps ==
    ASSUME clock \in Nat, reports \in Seq(Reported),
           \/ \E e \in Engines : Engine(e)
           \/ Tick \/ Exhausted \/ Deadline
    PROVE  /\ phase = "searching"
           /\ reports' \in Seq(Reported) /\ clock' \in Nat
           /\ phase' \in {"searching", "fusing"} /\ live' = live /\ results' = results
<1>1. CASE \E e \in Engines : Engine(e)
  <2>1. PICK e \in Engines : Engine(e)
    BY <1>1
  <2>2. <<>> \in Seq(Urls)
    OBVIOUS
  <2>3. ASSUME NEW hits \in HitLists, Answered(e, hits)
        PROVE  /\ phase = "searching"
               /\ reports' \in Seq(Reported) /\ clock' \in Nat
               /\ phase' \in {"searching", "fusing"} /\ live' = live /\ results' = results
    <3>1. hits \in Seq(Urls)
      BY LiveSearchAssumption
    <3>2. phase = "searching" /\ Report(e, TRUE, hits)
      BY <2>3 DEF Answered, Asking
    <3>3. QED
      BY <3>1, <3>2, ReportKeeps
  <2>4. CASE Report(e, FALSE, <<>>) /\ Asking(e)
    <3>1. phase = "searching"
      BY <2>4 DEF Asking
    <3>2. QED
      BY <2>2, <2>4, <3>1, ReportKeeps
  <2>5. CASE Fails(e)
    BY <2>4, <2>5 DEF Fails
  <2>6. CASE Blocked(e)
    <3>1. CASE attempt[e] < MaxAttempts
      BY <2>6, <3>1 DEF Blocked, Asking, mergeVars
    <3>2. CASE ~(attempt[e] < MaxAttempts)
      BY <2>4, <2>6, <3>2 DEF Blocked
    <3>3. QED
      BY <3>1, <3>2
  <2>7. CASE Retry(e)
    BY <2>7 DEF Retry, mergeVars
  <2>8. QED
    BY <2>1, <2>3, <2>5, <2>6, <2>7 DEF Engine
<1>2. CASE Tick
  BY <1>2 DEF Tick, mergeVars
<1>3. CASE Exhausted
  BY <1>3 DEF Exhausted, mergeVars
<1>4. CASE Deadline
  BY <1>4 DEF Deadline, mergeVars
<1>5. QED
  BY <1>1, <1>2, <1>3, <1>4

LEMMA FuseAnswersKeeps == ASSUME LiveInv, FuseAnswers PROVE LiveInv'
<1> DEFINE F == Fuse(Weighted(reports))
<1>1. /\ phase = "fusing" /\ phase' = "fused" /\ clock' = 0
      /\ live' \in Aggregations(F) /\ reports' = reports /\ results' = results
  BY DEF FuseAnswers, mergeVars
<1>2. Fusible(Weighted(reports)) /\ results = NoHits /\ reports \in Seq(Reported)
  BY <1>1, WeightedFits DEF LiveInv
<1>3. FusedHits(F)
  BY <1>2, FuseFits
<1>4. /\ SumFunctionOnSet([f \in F |-> f.score], F)
            = SumFunctionOnSet([h \in Hits(Weighted(reports)) |-> h.score], Hits(Weighted(reports)))
      /\ SumFunctionOnSet([f \in F |-> f.count], F) = Cardinality(Hits(Weighted(reports)))
  BY <1>2, FusionSums
<1> HIDE DEF F
<1>5. /\ HitList(live')
      /\ SumFunctionOnSet([f \in ToSet(live') |-> f.score], ToSet(live'))
            = SumFunctionOnSet([f \in F |-> f.score], F)
      /\ SumFunctionOnSet([f \in ToSet(live') |-> f.count], ToSet(live'))
            = SumFunctionOnSet([f \in F |-> f.count], F)
  <2> DEFINE A == live'
  <2>1. A \in Aggregations(F)
    BY <1>1
  <2> HIDE DEF A
  <2>2. /\ HitList(A)
        /\ SumFunctionOnSet([f \in ToSet(A) |-> f.score], ToSet(A))
              = SumFunctionOnSet([f \in F |-> f.score], F)
        /\ SumFunctionOnSet([f \in ToSet(A) |-> f.count], ToSet(A))
              = SumFunctionOnSet([f \in F |-> f.count], F)
    BY <1>3, <2>1, Aggregated
  <2>3. QED
    BY <2>2 DEF A
<1>6. EvidenceConserved'
  BY <1>1, <1>4, <1>5 DEF EvidenceConserved, SumFunction
<1>7. ResultsFit'
  BY <1>1, <1>2 DEF ResultsFit
<1>8. QED
  BY <1>1, <1>2, <1>5, <1>6, <1>7 DEF LiveInv

LEMMA MergeKeeps == ASSUME LiveInv, Merge PROVE LiveInv'
<1>1. /\ phase = "fused" /\ phase' = "done" /\ clock' = clock
      /\ live' = live /\ reports' = reports
      /\ results' = IF live = <<>> THEN Fallback(query') ELSE Merged(query')
  BY DEF Merge
<1>2. query' \in Queried
  <2>1. PICK hits \in StoreLists, quotes \in BOOLEAN, keywords \in BOOLEAN :
            query' = [store |-> hits, quotes |-> quotes, keywords |-> keywords]
    BY DEF Merge
  <2>2. hits \in Seq(Urls)
    BY LiveSearchAssumption
  <2>3. QED
    BY <2>1, <2>2 DEF Queried
<1>3. HitList(live)
  BY DEF LiveInv
<1>4. ASSUME live' # <<>> PROVE Distinct' /\ Precise'
  <2> DEFINE q == query'
  <2>1. results' = Merged(q) /\ q \in Queried
    BY <1>1, <1>2, <1>4
  <2>2. DistinctFor(q, results') /\ PreciseFor(q, results')
    <3> HIDE DEF q
    <3>1. DistinctFor(q, Merged(q)) /\ PreciseFor(q, Merged(q))
      BY <1>3, <2>1, MergedFits
    <3>2. QED
      BY <2>1, <3>1
  <2>3. QED
    BY <2>2 DEF Distinct, Precise, DistinctFor, PreciseFor
<1>5. EvidenceConserved'
  BY <1>1 DEF LiveInv, EvidenceConserved
<1>6. ResultsFit'
  BY <1>4 DEF ResultsFit
<1>7. clock' \in Nat /\ reports' \in Seq(Reported) /\ HitList(live')
  BY <1>1 DEF LiveInv
<1>8. QED
  BY <1>1, <1>5, <1>6, <1>7 DEF LiveInv

LEMMA LeaveKeeps == ASSUME LiveInv, phase # "done", Leave PROVE LiveInv'
<1>1. /\ phase' = "done" /\ clock' = 0 /\ reports' = <<>> /\ live' = <<>> /\ results' = results
  BY DEF Leave, mergeVars
<1>2. HitList(live') /\ EvidenceConserved'
  <2>1. (live = <<>> /\ reports = <<>> => HitList(live) /\ EvidenceConserved)'
    BY NothingLost, PTL
  <2>2. QED
    BY <1>1, <2>1
<1>3. ResultsFit'
  BY <1>1 DEF ResultsFit
<1>4. QED
  BY <1>1, <1>2, <1>3 DEF LiveInv

LEMMA LiveInvNext == ASSUME LiveInv, [SeedNext]_seedVars PROVE LiveInv'
<1>1. clock \in Nat /\ reports \in Seq(Reported)
  BY DEF LiveInv
<1>2. CASE \/ \E e \in Engines : Engine(e)
           \/ Tick \/ Exhausted \/ Deadline
  <2>1. phase # "done" /\ reports' \in Seq(Reported) /\ clock' \in Nat
        /\ phase' \in {"searching", "fusing"} /\ live' = live /\ results' = results
    BY <1>1, <1>2, EngineSteps
  <2>2. QED
    BY <2>1, SearchingKeeps
<1>3. CASE FuseAnswers
  BY <1>3, FuseAnswersKeeps
<1>4. CASE NextPass
  <2>1. /\ phase # "done" /\ phase' = "searching" /\ clock' = 0
        /\ reports' = <<>> /\ live' = live /\ results' = results
    BY <1>4 DEF NextPass, Ask, mergeVars
  <2>2. reports' \in Seq(Reported) /\ clock' \in Nat
    BY <2>1
  <2>3. QED
    BY <2>1, <2>2, SearchingKeeps
<1>5. CASE Merge
  BY <1>5, MergeKeeps
<1>6. CASE DiscoverLive \/ DiscoveryTimesOut
  <2>1. phase # "done" /\ Leave
    BY <1>6 DEF DiscoverLive, DiscoveryTimesOut
  <2>2. QED
    BY <2>1, LeaveKeeps
<1>7. CASE UNCHANGED vars
  <2>1. /\ clock' = clock /\ reports' = reports /\ live' = live /\ phase' = phase
        /\ results' = results /\ query' = query
    BY <1>7 DEF vars, mergeVars
  <2>2. EvidenceConserved'
    BY <2>1 DEF LiveInv, EvidenceConserved
  <2>3. ResultsFit'
    BY <2>1 DEF LiveInv, ResultsFit, Distinct, Precise
  <2>4. HitList(live')
    BY <2>1 DEF LiveInv
  <2>5. QED
    BY <2>1, <2>2, <2>3, <2>4 DEF LiveInv
<1>8. QED
  BY <1>2, <1>3, <1>4, <1>5, <1>6, <1>7
     DEF SeedNext, Next, SearchStep, Discover, DiscoverOffline, IndexFails, Finished, seedVars

LEMMA LiveInvAlways == SeedSpec => []LiveInv
<1>1. SeedInit => LiveInv
  BY LiveInvInit DEF SeedInit
<1>2. LiveInv /\ [SeedNext]_seedVars => LiveInv'
  BY LiveInvNext
<1>3. QED
  BY <1>1, <1>2, PTL DEF SeedSpec

\* Whatever the engines answer and whichever groups join which, aggregated hits carry all
\* the score and all the hits of the answers they were fused from (rrf.rs, absorb()).
THEOREM EvidenceAlwaysConserved == SeedSpec => []EvidenceConserved
<1>1. LiveInv => EvidenceConserved
  BY DEF LiveInv
<1>2. QED
  BY <1>1, LiveInvAlways, PTL

\* The merged list never has a page twice, unless as fill for a candidate that did not pass
\* the gates, nor a result that was let in without the quoted phrases or, but for a fill
\* judged by the phrases, without any keyword (search.rs:631-702).
THEOREM ResultsAlwaysFit == SeedSpec => []ResultsFit
<1>1. LiveInv => ResultsFit
  BY DEF LiveInv
<1>2. QED
  BY <1>1, LiveInvAlways, PTL

ConsensusInv == clock \in Nat /\ reports \in Seq(Reported)

\* A page whose hits outnumber another's two to one, none of them ranked lower than any of
\* the other's, scores no less, however long the lists and whatever the reliability of
\* their engines (web_index.rs:275-281).
THEOREM ConsensusAlwaysWins == SeedSpec => []ConsensusWins
<1>1. SeedInit => ConsensusInv
  <2>1. ASSUME SeedInit PROVE ConsensusInv
    <3>1. clock = 0 /\ reports = <<>>
      BY <2>1 DEF SeedInit, Init
    <3>2. QED
      BY <3>1 DEF ConsensusInv
  <2>2. QED
    BY <2>1
<1>2. ConsensusInv /\ [SeedNext]_seedVars => ConsensusInv'
  <2> SUFFICES ASSUME ConsensusInv, [SeedNext]_seedVars PROVE ConsensusInv'
    OBVIOUS
  <2>1. clock \in Nat /\ reports \in Seq(Reported)
    BY DEF ConsensusInv
  <2>2. CASE \/ \E e \in Engines : Engine(e)
             \/ Tick \/ Exhausted \/ Deadline
    <3>1. reports' \in Seq(Reported) /\ clock' \in Nat
      BY <2>1, <2>2, EngineSteps
    <3>2. QED
      BY <3>1 DEF ConsensusInv
  <2>3. CASE FuseAnswers \/ Merge
    <3>1. (clock' = 0 \/ clock' = clock) /\ reports' = reports
      BY <2>3 DEF FuseAnswers, Merge, mergeVars
    <3>2. QED
      BY <2>1, <3>1 DEF ConsensusInv
  <2>4. CASE NextPass \/ DiscoverLive \/ DiscoveryTimesOut
    <3>1. clock' = 0 /\ reports' = <<>>
      BY <2>4 DEF NextPass, Ask, DiscoverLive, DiscoveryTimesOut, Leave, mergeVars
    <3>2. QED
      BY <3>1 DEF ConsensusInv
  <2>5. CASE UNCHANGED vars
    <3>1. clock' = clock /\ reports' = reports
      BY <2>5 DEF vars
    <3>2. QED
      BY <2>1, <3>1 DEF ConsensusInv
  <2>6. QED
    BY <2>2, <2>3, <2>4, <2>5
       DEF SeedNext, Next, SearchStep, Discover, DiscoverOffline, IndexFails, Finished, seedVars
<1>3. ConsensusInv => ConsensusWins
  <2> SUFFICES ASSUME ConsensusInv PROVE ConsensusWins
    OBVIOUS
  <2>1. \A a, b \in Fuse(Weighted(reports)) :
            Cardinality(Ahead(a, b)) >= 2 * b.count => a.score >= b.score
    BY Agreement DEF ConsensusInv
  <2>2. QED
    BY <2>1 DEF ConsensusWins
<1>4. QED
  BY <1>1, <1>2, <1>3, PTL DEF SeedSpec

-----------------------------------------------------------------------------
(* Choosing among seeds *)

Scored == [url: Urls, relevance: Int]

Contents(s) == {s[i] : i \in 1..Len(s)}

Falling(s) == \A i, j \in 1..Len(s) : i < j => s[i].relevance >= s[j].relevance

RelevanceOrder(s) ==
    {p \in (1..Len(s)) \X (1..Len(s)) :
        \/ s[p[1]].relevance > s[p[2]].relevance
        \/ s[p[1]].relevance = s[p[2]].relevance /\ p[1] < p[2]}

LEMMA RelevanceIsStrict ==
    ASSUME NEW s \in Seq(Scored)
    PROVE  StrictOrder(1..Len(s), RelevanceOrder(s))
<1> DEFINE r(i) == s[i].relevance
           S == 1..Len(s)
<1>1. \A i \in S : r(i) \in Int /\ i \in Int
  <2>1. \A i \in S : s[i] \in Scored
    OBVIOUS
  <2>2. QED
    BY <2>1 DEF Scored
<1>2. \A x, y \in S : (<<x, y>> \in RelevanceOrder(s)) <=> (r(x) > r(y) \/ (r(x) = r(y) /\ x < y))
  BY DEF RelevanceOrder
<1> HIDE DEF r, S
<1>3. QED
  BY <1>1, <1>2 DEF StrictOrder, S

LEMMA ByRelevanceKeeps ==
    ASSUME NEW s \in Seq(Scored)
    PROVE  /\ ByRelevance(s) \in Seq(Scored) /\ Len(ByRelevance(s)) = Len(s)
           /\ Contents(ByRelevance(s)) = Contents(s)
           /\ Falling(ByRelevance(s))
<1> DEFINE S == 1..Len(s)
           R == RelevanceOrder(s)
           Above(x) == {y \in S : \/ s[y].relevance > s[x].relevance
                                  \/ s[y].relevance = s[x].relevance /\ y < x}
           G(n) == CHOOSE x \in S : Cardinality(Above(x)) = n - 1
           o == [n \in 1..Cardinality(S) |-> G(n)]
           t == ByRelevance(s)
<1>1. Len(s) \in Nat /\ DOMAIN s = S
  OBVIOUS
<1>2. IsFiniteSet(S) /\ Cardinality(S) = Len(s)
  <2> DEFINE n == Len(s)
  <2>1. n \in Nat
    OBVIOUS
  <2> HIDE DEF n
  <2>2. IsFiniteSet(1..n) /\ Cardinality(1..n) = n
    BY <2>1, FS_Interval
  <2>3. QED
    BY <2>2 DEF n
<1>3. ASSUME NEW x \in S PROVE Preceding(S, R, x) = Above(x)
  BY DEF Preceding, RelevanceOrder
<1>4. t = [n \in 1..Len(s) |-> s[o[n]]]
  BY <1>1 DEF ByRelevance, InOrder
<1> HIDE DEF R, Above
<1>5. \A n \in 1..Cardinality(S) : (\E x \in S : Cardinality(Preceding(S, R, x)) = n - 1)
          => o[n] \in S /\ Cardinality(Preceding(S, R, o[n])) = n - 1
  <2> SUFFICES ASSUME NEW n \in 1..Cardinality(S), NEW x \in S, Cardinality(Above(x)) = n - 1
               PROVE  o[n] \in S /\ Cardinality(Above(o[n])) = n - 1
    BY <1>3
  <2>1. G(n) \in S /\ Cardinality(Above(G(n))) = n - 1
    OBVIOUS
  <2> HIDE DEF G
  <2>2. QED
    BY <2>1
<1> HIDE DEF G
<1>6. o = [n \in 1..Cardinality(S) |-> o[n]]
  OBVIOUS
<1>7. StrictOrder(S, R)
  BY RelevanceIsStrict DEF R
<1> HIDE DEF o, t
<1>8. Arranges(o, S, R)
  <2> HIDE DEF S
  <2>1. QED
    BY <1>2, <1>5, <1>6, <1>7, Ordered
<1>9. /\ o \in [1..Len(s) -> 1..Len(s)]
      /\ \A x \in 1..Len(s) : \E n \in 1..Len(s) : o[n] = x
      /\ \A i, j \in 1..Len(s) : i < j => <<o[i], o[j]>> \in R
  BY <1>2, <1>8 DEF Arranges
<1>10. \A n \in 1..Len(s) : t[n] = s[o[n]] /\ s[o[n]] \in Scored
  BY <1>4, <1>9
<1>11. t \in Seq(Scored) /\ Len(t) = Len(s)
  <2>1. t \in [1..Len(s) -> Scored]
    BY <1>4, <1>10
  <2>2. QED
    BY <1>1, <1>4, <2>1
<1>12. Contents(t) = Contents(s)
  <2>1. \A n \in 1..Len(s) : o[n] \in 1..Len(s)
    BY <1>9
  <2>2. \A i \in 1..Len(s) : \E n \in 1..Len(s) : t[n] = s[i]
    BY <1>9, <1>10
  <2>3. \A n \in 1..Len(s) : \E i \in 1..Len(s) : t[n] = s[i]
    BY <1>10, <2>1
  <2>4. Len(t) = Len(s)
    BY <1>11
  <2>5. Contents(t) \subseteq Contents(s)
    BY <2>3, <2>4 DEF Contents
  <2>6. Contents(s) \subseteq Contents(t)
    BY <2>2, <2>4 DEF Contents
  <2>7. QED
    BY <2>5, <2>6
<1>13. Falling(t)
  <2> SUFFICES ASSUME NEW i \in 1..Len(s), NEW j \in 1..Len(s), i < j
               PROVE  t[i].relevance >= t[j].relevance
    BY <1>11 DEF Falling
  <2>1. <<o[i], o[j]>> \in R
    BY <1>9
  <2>2. \/ s[o[i]].relevance > s[o[j]].relevance
        \/ s[o[i]].relevance = s[o[j]].relevance
    BY <2>1 DEF R, RelevanceOrder
  <2>3. s[o[i]].relevance \in Int /\ s[o[j]].relevance \in Int
    BY <1>10 DEF Scored
  <2>4. QED
    BY <1>10, <2>2, <2>3
<1>14. QED
  BY <1>11, <1>12, <1>13 DEF t

LEMMA AtLeastKeeps ==
    ASSUME NEW s \in Seq(Scored), NEW relevance
    PROVE  /\ AtLeast(relevance, s) \in Seq(Scored)
           /\ Contents(AtLeast(relevance, s)) = {x \in Contents(s) : x.relevance >= relevance}
<1> DEFINE P == {i \in 1..Len(s) : s[i].relevance >= relevance}
           t == At(P, s)
<1>1. AtLeast(relevance, s) = t
  BY DEF AtLeast
<1>2. /\ t \in Seq(Scored)
      /\ \A n \in 1..Len(t) : \E i \in P : t[n] = s[i]
      /\ \A i \in P : \E n \in 1..Len(t) : t[n] = s[i]
  <2>1. P \in SUBSET (1..Len(s))
    OBVIOUS
  <2> HIDE DEF P
  <2>2. QED
    BY <2>1, AtKeeps
<1> HIDE DEF t
<1>3. Contents(t) \subseteq {x \in Contents(s) : x.relevance >= relevance}
  BY <1>2 DEF Contents
<1>4. {x \in Contents(s) : x.relevance >= relevance} \subseteq Contents(t)
  <2> SUFFICES ASSUME NEW i \in 1..Len(s), s[i].relevance >= relevance
               PROVE  \E n \in 1..Len(t) : t[n] = s[i]
    BY DEF Contents
  <2>1. i \in P
    OBVIOUS
  <2>2. QED
    BY <1>2, <2>1
<1>5. QED
  BY <1>1, <1>2, <1>3, <1>4

LEMMA FirstKeeps ==
    ASSUME NEW n \in Nat, NEW S, NEW s \in Seq(S)
    PROVE  /\ First(n, s) \in Seq(S)
           /\ Contents(First(n, s)) \subseteq Contents(s)
           /\ Len(s) > 0 /\ n > 0 => Len(First(n, s)) > 0 /\ First(n, s)[1] = s[1]
<1> DEFINE t == First(n, s)
           m == LeastOf(n, Len(s))
<1>1. m \in Nat /\ m <= Len(s) /\ (Len(s) > 0 /\ n > 0 => m > 0) /\ Len(s) \in Nat
  BY DEF LeastOf
<1>2. t \in Seq(S) /\ Len(t) = m /\ \A i \in 1..m : t[i] = s[i]
  BY FirstType
<1> HIDE DEF t, m
<1>3. Contents(t) \subseteq Contents(s)
  BY <1>1, <1>2 DEF Contents
<1>4. QED
  BY <1>1, <1>2, <1>3 DEF t

-----------------------------------------------------------------------------
(* The live seeds *)

Alike(s) == \A i, j \in 1..Len(s) : s[i].url = s[j].url => s[i] = s[j]

LEMMA LiveSeedsFit ==
    ASSUME NEW k \in Keywords, NEW hits, Len(hits) \in Nat,
           \A i \in 1..Len(hits) : hits[i].url \in Urls
    PROVE  LiveSeeds(k, hits) \in Seq(Scored) /\ Alike(LiveSeeds(k, hits))
<1> DEFINE V == {[url |-> u, relevance |-> LiveRelevance(k, u)] : u \in Urls}
           all == [i \in 1..Len(hits) |-> [url |-> hits[i].url,
                                           relevance |-> LiveRelevance(k, hits[i].url)]]
           some == AtLeast(1, all)
           sorted == ByRelevance(some)
           t == LiveSeeds(k, hits)
<1>1. \A u \in Urls : LiveRelevance(k, u) \in Int
  <2> SUFFICES ASSUME NEW u \in Urls PROVE LiveRelevance(k, u) \in Int
    OBVIOUS
  <2> DEFINE m == IF Matches[u] < k THEN Matches[u] ELSE k
             share == (1000 * m) \div k
  <2>1. k \in Nat \ {0} /\ Matches[u] \in Nat
    BY SeedDiscoveryAssumption, HitGroupsAssumption
  <2>2. m \in Nat
    BY <2>1
  <2> HIDE DEF m
  <2>3. share \in Int
    BY <2>1, <2>2, SMT
  <2>4. KeywordShare(k, u) = share
    BY DEF KeywordShare, m
  <2> HIDE DEF share
  <2>5. QED
    BY <2>3, <2>4 DEF LiveRelevance
<1>2. all \in Seq(Scored) /\ Contents(all) \subseteq V
  <2>1. \A i \in 1..Len(hits) : all[i] \in Scored /\ all[i] \in V
    BY <1>1 DEF Scored
  <2>2. all \in Seq(Scored) /\ Len(all) = Len(hits)
    BY <2>1
  <2> HIDE DEF all, V
  <2>3. QED
    BY <2>1, <2>2 DEF Contents
<1> HIDE DEF all
<1>3. some \in Seq(Scored) /\ Contents(some) \subseteq V
  <2> HIDE DEF V
  <2>1. QED
    BY <1>2, AtLeastKeeps
<1> HIDE DEF some
<1>4. sorted \in Seq(Scored) /\ Contents(sorted) \subseteq V
  <2> HIDE DEF V
  <2>1. QED
    BY <1>3, ByRelevanceKeeps
<1>5. t = First(MaxSeeds, sorted) /\ MaxSeeds \in Nat
  BY SeedDiscoveryAssumption DEF LiveSeeds, all, some
<1> HIDE DEF sorted, t
<1>6. t \in Seq(Scored) /\ Contents(t) \subseteq V
  <2> HIDE DEF V
  <2>1. QED
    BY <1>4, <1>5, FirstKeeps
<1>7. \A i \in 1..Len(t) : t[i] \in V
  <2> HIDE DEF V
  <2>1. QED
    BY <1>6 DEF Contents
<1>8. \A x, y \in V : x.url = y.url => x = y
  OBVIOUS
<1>9. Alike(t)
  <2> HIDE DEF V
  <2>1. QED
    BY <1>7, <1>8 DEF Alike
<1>10. QED
  BY <1>6, <1>9 DEF t

-----------------------------------------------------------------------------
(* Filling up with offline seeds *)

FillState == [seeds: Seq(Scored), full: BOOLEAN]

TakeSeed(acc, s) ==
    IF acc.full \/ Named(s.url, acc.seeds) THEN acc
    ELSE [seeds |-> Append(acc.seeds, s), full |-> Len(acc.seeds) + 1 >= MaxSeeds]

Started(seeds) == [seeds |-> seeds, full |-> FALSE]

\* The offline seeds are taken one by one.
FillsUp(seeds, offline, t) ==
    /\ t \in [0..Len(offline) -> FillState] /\ t[0] = Started(seeds)
    /\ \A k \in 1..Len(offline) : t[k] = TakeSeed(t[k - 1], offline[k])

LEMMA TakeSeedType ==
    ASSUME NEW acc \in FillState, NEW s \in Scored
    PROVE  TakeSeed(acc, s) \in FillState
<1>1. acc.seeds \in Seq(Scored) /\ acc.full \in BOOLEAN
  BY DEF FillState
<1>2. Append(acc.seeds, s) \in Seq(Scored) /\ (Len(acc.seeds) + 1 >= MaxSeeds) \in BOOLEAN
  BY <1>1
<1>3. QED
  BY <1>1, <1>2 DEF TakeSeed, FillState

LEMMA FilledUnfolds ==
    ASSUME NEW seeds \in Seq(Scored), NEW offline \in Seq(Scored)
    PROVE  \E t : FillsUp(seeds, offline, t) /\ Filled(seeds, offline) = t[Len(offline)].seeds
<1> DEFINE n == Len(offline)
           d0 == Started(seeds)
           A(d, k) == TakeSeed(d, offline[k])
           Body(t, i) == IF i = 0 THEN d0 ELSE A(t[i - 1], i)
           Rec(t) == t = [i \in 0..n |-> Body(t, i)]
           G == [k \in 1..n |-> [d \in FillState |-> A(d, k)]]
<1>1. \A k \in 1..n : \A d \in FillState : A(d, k) \in FillState
  BY TakeSeedType
<1>2. d0 \in FillState /\ n \in Nat
  BY DEF Started, FillState
<1>3. Filled(seeds, offline) = (CHOOSE f : Rec(f))[n].seeds
  BY DEF Filled, TakeSeed, Started
<1> HIDE DEF A, n, d0
<1>4. PICK t : Unfolds(t, n, FillState, d0, G)
  <2>1. Stays(n, FillState, G)
    BY <1>1 DEF Stays
  <2> HIDE DEF G
  <2>2. QED
    BY <1>2, <2>1, Unfolding
<1>5. ASSUME NEW k \in 1..n PROVE t[k] = A(t[k - 1], k)
  <2>1. t[k - 1] \in FillState
    BY <1>2, <1>4 DEF Unfolds
  <2>2. QED
    BY <1>4, <2>1 DEF Unfolds
<1>6. Rec(t)
  <2>1. t = [i \in 0..n |-> t[i]]
    BY <1>4 DEF Unfolds
  <2>2. \A i \in 0..n : t[i] = Body(t, i)
    BY <1>2, <1>4, <1>5 DEF Unfolds
  <2> HIDE DEF Body
  <2>3. QED
    BY <2>1, <2>2
<1>7. PICK F : F = (CHOOSE f : Rec(f)) /\ Rec(F)
  <2> HIDE DEF Rec
  <2>1. QED
    BY <1>6
<1>8. \A i \in 0..n : F[i] = Body(F, i)
  <2>1. Rec(F)
    BY <1>7
  <2> HIDE DEF Body
  <2>2. QED
    BY ONLY <2>1, Zenon
<1>9. F[0] = d0 /\ \A k \in 1..n : F[k] = A(F[k - 1], k)
  BY <1>2, <1>8
<1>10. ASSUME NEW i \in 0..n PROVE F[i] \in FillState
  <2> DEFINE T == {k \in Nat : k <= n => F[k] \in FillState}
  <2>1. 0 \in T
    BY <1>2, <1>9
  <2>2. ASSUME NEW k \in Nat, k \in T PROVE k + 1 \in T
    <3> SUFFICES ASSUME k + 1 <= n PROVE F[k + 1] \in FillState
      OBVIOUS
    <3>1. F[k] \in FillState /\ k + 1 \in 1..n /\ (k + 1) - 1 = k
      BY <1>2, <2>2
    <3>2. F[k + 1] = A(F[k], k + 1)
      BY <1>9, <3>1
    <3>3. QED
      BY <1>1, <3>1, <3>2
  <2> HIDE DEF T
  <2>3. i \in T
    BY <1>2, <2>1, <2>2, ByCounting
  <2>4. QED
    BY <1>2, <2>3 DEF T
<1>11. F \in [0..n -> FillState]
  <2>1. Rec(F)
    BY <1>7
  <2>2. F = [i \in 0..n |-> Body(F, i)]
    BY <2>1
  <2>3. F = [i \in 0..n |-> F[i]]
    <3> HIDE DEF Body
    <3>1. QED
      BY <1>8, <2>2
  <2>4. QED
    BY <1>10, <2>3
<1>12. FillsUp(seeds, offline, F)
  BY <1>9, <1>11 DEF FillsUp, A, n, d0
<1>13. Filled(seeds, offline) = F[n].seeds
  <2> HIDE DEF Rec
  <2>1. QED
    BY <1>3, <1>7
<1>14. QED
  BY <1>12, <1>13 DEF n

\* An offline seed is new if no live one and none before it has its URL.
New(seeds, offline, j) ==
    /\ ~ Named(offline[j].url, seeds)
    /\ \A i \in 1..(j - 1) : offline[i].url # offline[j].url

\* What the fill keeps after k offline seeds.
Filling(seeds, offline, acc, k) ==
    /\ Contents(seeds) \subseteq Contents(acc.seeds)
    /\ \A x \in Contents(acc.seeds) :
            \/ x \in Contents(seeds)
            \/ \E j \in 1..k : x = offline[j] /\ New(seeds, offline, j)
    /\ ~ acc.full => \A j \in 1..k : Named(offline[j].url, acc.seeds)
    /\ \/ /\ acc = Started(seeds)
          /\ \A j \in 1..k : Named(offline[j].url, seeds)
       \/ \E j \in 1..k : /\ offline[j] \in Contents(acc.seeds)
                          /\ New(seeds, offline, j)
                          /\ \A i \in 1..(j - 1) : Named(offline[i].url, seeds)

LEMMA AppendAdds ==
    ASSUME NEW s \in Seq(Scored), NEW x \in Scored
    PROVE  /\ Contents(Append(s, x)) = Contents(s) \cup {x}
           /\ \A u : Named(u, Append(s, x)) <=> Named(u, s) \/ u = x.url
<1> DEFINE t == Append(s, x)
           n == Len(s)
<1>1. n \in Nat /\ Len(t) = n + 1 /\ t[n + 1] = x /\ \A i \in 1..n : t[i] = s[i]
  OBVIOUS
<1> HIDE DEF t, n
<1>2. 1..(n + 1) = (1..n) \cup {n + 1}
  BY <1>1
<1>3. Contents(t) = Contents(s) \cup {x}
  BY <1>1, <1>2 DEF Contents, n
<1>4. \A u : Named(u, t) <=> Named(u, s) \/ u = x.url
  BY <1>1, <1>2 DEF Named, n
<1>5. QED
  BY <1>3, <1>4 DEF t

LEMMA TakeSeedFills ==
    ASSUME NEW seeds \in Seq(Scored), NEW offline \in Seq(Scored), NEW acc \in FillState,
           NEW k \in Nat, k + 1 <= Len(offline), Filling(seeds, offline, acc, k)
    PROVE  Filling(seeds, offline, TakeSeed(acc, offline[k + 1]), k + 1)
<1> DEFINE s == offline[k + 1]
           next == TakeSeed(acc, s)
<1>1. s \in Scored /\ acc.seeds \in Seq(Scored) /\ acc.full \in BOOLEAN
  BY DEF FillState
<1>2. 1..(k + 1) = (1..k) \cup {k + 1} /\ (k + 1) - 1 = k
  OBVIOUS
<1>3. CASE acc.full \/ Named(s.url, acc.seeds)
  <2>1. next = acc
    BY <1>3 DEF TakeSeed
  <2>2. ~ acc.full => \A j \in 1..(k + 1) : Named(offline[j].url, acc.seeds)
    BY <1>2, <1>3 DEF Filling
  <2>3. acc = Started(seeds) => Named(s.url, seeds)
    BY <1>3 DEF Started
  <2>4. QED
    BY <1>2, <2>1, <2>2, <2>3 DEF Filling
<1>4. CASE ~ acc.full /\ ~ Named(s.url, acc.seeds)
  <2>1. next.seeds = Append(acc.seeds, s)
    BY <1>4 DEF TakeSeed
  <2>2. Contents(next.seeds) = Contents(acc.seeds) \cup {s}
    BY <1>1, <2>1, AppendAdds
  <2>3. \A j \in 1..k : Named(offline[j].url, acc.seeds)
    BY <1>4 DEF Filling
  <2>4. \A j \in 1..(k + 1) : Named(offline[j].url, next.seeds)
    <3>1. \A u : Named(u, next.seeds) <=> Named(u, acc.seeds) \/ u = s.url
      BY <1>1, <2>1, AppendAdds
    <3>2. QED
      BY <1>2, <2>3, <3>1
  <2>5. New(seeds, offline, k + 1)
    <3>1. ~ Named(s.url, seeds)
      <4> SUFFICES ASSUME NEW i \in 1..Len(seeds), seeds[i].url = s.url PROVE FALSE
        BY DEF Named
      <4>1. seeds[i] \in Contents(acc.seeds)
        BY DEF Filling, Contents
      <4>2. QED
        BY <1>4, <4>1 DEF Contents, Named
    <3>2. QED
      BY <1>2, <1>4, <2>3, <3>1 DEF New
  <2>6. \A x \in Contents(next.seeds) :
            \/ x \in Contents(seeds)
            \/ \E j \in 1..(k + 1) : x = offline[j] /\ New(seeds, offline, j)
    BY <1>2, <2>2, <2>5 DEF Filling
  <2>7. Contents(seeds) \subseteq Contents(next.seeds)
    BY <2>2 DEF Filling
  <2>8. \E j \in 1..(k + 1) : /\ offline[j] \in Contents(next.seeds)
                              /\ New(seeds, offline, j)
                              /\ \A i \in 1..(j - 1) : Named(offline[i].url, seeds)
    <3>1. CASE \A j \in 1..k : Named(offline[j].url, seeds)
      BY <1>2, <2>2, <2>5, <3>1
    <3>2. CASE \E j \in 1..k : /\ offline[j] \in Contents(acc.seeds)
                               /\ New(seeds, offline, j)
                               /\ \A i \in 1..(j - 1) : Named(offline[i].url, seeds)
      BY <1>2, <2>2, <3>2
    <3>3. QED
      BY <3>1, <3>2 DEF Filling
  <2>9. QED
    BY <2>4, <2>6, <2>7, <2>8 DEF Filling
<1>5. QED
  BY <1>3, <1>4

LEMMA FilledFits ==
    ASSUME NEW seeds \in Seq(Scored), NEW offline \in Seq(Scored)
    PROVE  /\ Filled(seeds, offline) \in Seq(Scored)
           /\ \E acc : /\ acc.seeds = Filled(seeds, offline)
                       /\ Filling(seeds, offline, acc, Len(offline))
<1> DEFINE n == Len(offline)
<1>1. PICK t : FillsUp(seeds, offline, t) /\ Filled(seeds, offline) = t[n].seeds
  BY FilledUnfolds
<1>2. n \in Nat
  OBVIOUS
<1> DEFINE T == {k \in Nat : k <= n => Filling(seeds, offline, t[k], k)}
<1>3. 0 \in T
  <2>1. t[0] = Started(seeds) /\ 1..0 = {}
    BY <1>1 DEF FillsUp
  <2>2. t[0].seeds = seeds
    BY <2>1 DEF Started
  <2>3. QED
    BY <2>1, <2>2 DEF Filling
<1>4. ASSUME NEW k \in Nat, k \in T PROVE k + 1 \in T
  <2> SUFFICES ASSUME k + 1 <= n PROVE Filling(seeds, offline, t[k + 1], k + 1)
    OBVIOUS
  <2>1. k + 1 \in 1..n /\ (k + 1) - 1 = k /\ k \in 0..n
    BY <1>2
  <2>2. t[k + 1] = TakeSeed(t[k], offline[k + 1]) /\ t[k] \in FillState
    BY <1>1, <2>1 DEF FillsUp
  <2>3. Filling(seeds, offline, t[k], k)
    BY <1>4, <2>1
  <2>4. Filling(seeds, offline, TakeSeed(t[k], offline[k + 1]), k + 1)
    BY <2>2, <2>3, TakeSeedFills
  <2>5. QED
    BY <2>2, <2>4
<1> HIDE DEF T
<1>5. n \in T
  BY <1>2, <1>3, <1>4, ByCounting
<1>6. Filling(seeds, offline, t[n], n)
  BY <1>2, <1>5 DEF T
<1>7. t[n] \in FillState
  BY <1>1, <1>2 DEF FillsUp
<1>8. QED
  BY <1>1, <1>6, <1>7 DEF FillState

-----------------------------------------------------------------------------
(* The candidates, and what is chosen of them *)

Offers(seeds, offline) ==
    LET all == seeds \o offline IN
    {all[i] : i \in {i \in 1..Len(all) : \A j \in 1..(i - 1) : all[j].url # all[i].url}}

LEMMA OffersAre ==
    ASSUME NEW seeds \in Seq(Scored), NEW offline \in Seq(Scored), Alike(seeds)
    PROVE  /\ Contents(seeds) \subseteq Offers(seeds, offline)
           /\ \A j \in 1..Len(offline) :
                  New(seeds, offline, j) => offline[j] \in Offers(seeds, offline)
           /\ \A x \in Offers(seeds, offline) :
                  \/ x \in Contents(seeds)
                  \/ \E j \in 1..Len(offline) : x = offline[j] /\ New(seeds, offline, j)
<1> DEFINE all == seeds \o offline
           m == Len(seeds)
           n == Len(offline)
           P == {i \in 1..(m + n) : \A j \in 1..(i - 1) : all[j].url # all[i].url}
<1>1. m \in Nat /\ n \in Nat /\ Len(all) = m + n
  OBVIOUS
<1>2. /\ \A i \in 1..m : all[i] = seeds[i]
      /\ \A i \in 1..n : all[m + i] = offline[i]
  OBVIOUS
<1>3. \A x : x \in Offers(seeds, offline) <=> \E i \in P : x = all[i]
  BY <1>1 DEF Offers
<1> HIDE DEF all, m, n
<1>4. ASSUME NEW i \in 1..m PROVE seeds[i] \in Offers(seeds, offline)
  <2> DEFINE Same == {k \in 1..m : seeds[k].url = seeds[i].url}
  <2>1. Same \subseteq Nat /\ Same # {}
    BY <1>1
  <2>2. PICK k \in Same : \A j \in Same : k <= j
    <3> HIDE DEF Same
    <3>1. QED
      BY <2>1, Least
  <2>3. seeds[k] = seeds[i]
    BY DEF Alike, m
  <2>4. \A j \in 1..(k - 1) : seeds[j].url # seeds[k].url
    <3> SUFFICES ASSUME NEW j \in 1..(k - 1), seeds[j].url = seeds[k].url PROVE FALSE
      OBVIOUS
    <3>1. j \in Same
      BY <1>1, <2>3
    <3>2. QED
      BY <1>1, <2>2, <3>1
  <2>5. k \in P
    <3>1. k \in 1..(m + n) /\ \A j \in 1..(k - 1) : j \in 1..m
      BY <1>1
    <3>2. QED
      BY <1>2, <2>4, <3>1
  <2>6. all[k] = seeds[i]
    BY <1>2, <2>3
  <2> HIDE DEF Same, P
  <2>7. QED
    BY <1>3, <2>5, <2>6
<1>5. ASSUME NEW j \in 1..n PROVE m + j \in P <=> New(seeds, offline, j)
  <2>1. all[m + j] = offline[j]
    BY <1>2
  <2>2. ASSUME New(seeds, offline, j), NEW i \in 1..(m + j - 1) PROVE all[i].url # offline[j].url
    <3>1. CASE i \in 1..m
      BY <1>2, <2>2, <3>1 DEF New, Named, m
    <3>2. CASE i \notin 1..m
      <4>1. i - m \in 1..n /\ i - m \in 1..(j - 1) /\ i = m + (i - m)
        BY <1>1, <3>2
      <4>2. all[i] = offline[i - m]
        BY <1>2, <4>1
      <4>3. QED
        BY <2>2, <4>1, <4>2 DEF New
    <3>3. QED
      BY <3>1, <3>2
  <2>3. ASSUME \A i \in 1..(m + j - 1) : all[i].url # offline[j].url PROVE New(seeds, offline, j)
    <3>1. ASSUME NEW i \in 1..m PROVE seeds[i].url # offline[j].url
      <4>1. i \in 1..(m + j - 1)
        BY <1>1
      <4>2. QED
        BY <1>2, <2>3, <4>1
    <3>2. ASSUME NEW i \in 1..(j - 1) PROVE offline[i].url # offline[j].url
      <4>1. m + i \in 1..(m + j - 1) /\ i \in 1..n
        BY <1>1
      <4>2. QED
        BY <1>2, <2>3, <4>1
    <3>3. QED
      BY <3>1, <3>2 DEF New, Named, m
  <2>4. m + j \in 1..(m + n)
    BY <1>1
  <2> DEFINE k == m + j
  <2>5. k \in P <=> \A i \in 1..(k - 1) : all[i].url # all[k].url
    <3>1. k \in 1..(m + n)
      BY <2>4
    <3> HIDE DEF k
    <3>2. QED
      BY ONLY <3>1
  <2> HIDE DEF P
  <2>6. New(seeds, offline, j) => \A i \in 1..(k - 1) : all[i].url # all[k].url
    BY <1>1, <2>1, <2>2
  <2>7. (\A i \in 1..(k - 1) : all[i].url # all[k].url) => New(seeds, offline, j)
    BY <1>1, <2>1, <2>3
  <2>8. QED
    BY <2>5, <2>6, <2>7
<1>6. ASSUME NEW j \in 1..n, New(seeds, offline, j) PROVE offline[j] \in Offers(seeds, offline)
  <2>1. m + j \in P /\ all[m + j] = offline[j]
    BY <1>2, <1>5, <1>6
  <2> HIDE DEF P
  <2>2. QED
    BY <1>3, <2>1
<1>7. ASSUME NEW x \in Offers(seeds, offline)
      PROVE  \/ x \in Contents(seeds)
             \/ \E j \in 1..n : x = offline[j] /\ New(seeds, offline, j)
  <2>1. PICK i \in P : x = all[i]
    BY <1>3
  <2>2. i \in 1..(m + n)
    OBVIOUS
  <2>3. CASE i \in 1..m
    BY <1>2, <2>1, <2>3 DEF Contents, m
  <2>4. CASE i \notin 1..m
    <3>1. i - m \in 1..n /\ i = m + (i - m)
      BY <1>1, <2>2, <2>4
    <3>2. all[i] = offline[i - m]
      BY <1>2, <3>1
    <3>3. New(seeds, offline, i - m)
      BY <1>5, <3>1
    <3>4. QED
      BY <2>1, <3>1, <3>2, <3>3
  <2>5. QED
    BY <2>3, <2>4
<1>8. QED
  BY <1>4, <1>6, <1>7 DEF Contents, m, n

\* Of some candidates one is at least as relevant as the others.
LEMMA OneIsBest ==
    ASSUME NEW seeds \in Seq(Scored), NEW offline \in Seq(Scored), Offers(seeds, offline) # {}
    PROVE  \E b \in Offers(seeds, offline) :
               \A d \in Offers(seeds, offline) : b.relevance >= d.relevance
<1> DEFINE all == seeds \o offline
           P == {i \in 1..Len(all) : \A j \in 1..(i - 1) : all[j].url # all[i].url}
           s == At(P, all)
           r == ByRelevance(s)
           O == Offers(seeds, offline)
<1>1. all \in Seq(Scored) /\ P \in SUBSET (1..Len(all))
  OBVIOUS
<1>2. \A x : x \in O <=> \E i \in P : x = all[i]
  BY DEF Offers
<1> HIDE DEF all, P
<1>3. /\ s \in Seq(Scored)
      /\ \A n \in 1..Len(s) : \E i \in P : s[n] = all[i]
      /\ \A i \in P : \E n \in 1..Len(s) : s[n] = all[i]
  BY <1>1, AtKeeps
<1> HIDE DEF s, O
<1>4. \A x : x \in O <=> x \in Contents(s)
  <2>1. \A x : x \in Contents(s) <=> \E n \in 1..Len(s) : x = s[n]
    BY DEF Contents
  <2>2. QED
    BY ZenonT(40), <1>2, <1>3, <2>1
<1>5. r \in Seq(Scored) /\ Contents(r) = Contents(s) /\ Falling(r)
  BY <1>3, ByRelevanceKeeps
<1> HIDE DEF r
<1>6. \A x : x \in O <=> \E i \in 1..Len(r) : x = r[i]
  BY <1>4, <1>5 DEF Contents
<1>7. Len(r) \in Nat /\ 1 \in 1..Len(r) /\ \A i \in 1..Len(r) : r[i] \in Scored
  BY <1>5, <1>6 DEF O
<1>8. ASSUME NEW i \in 1..Len(r) PROVE r[1].relevance >= r[i].relevance
  <2>1. r[1] \in Scored /\ r[i] \in Scored
    BY <1>7
  <2>2. r[1].relevance \in Int /\ r[i].relevance \in Int
    BY <2>1 DEF Scored
  <2>3. i = 1 \/ 1 < i
    BY <1>7
  <2>4. QED
    BY <1>5, <1>7, <2>2, <2>3 DEF Falling
<1>9. r[1] \in O /\ \A d \in O : r[1].relevance >= d.relevance
  BY <1>6, <1>7, <1>8
<1>10. QED
  BY <1>9 DEF O

LEMMA PreferredKeeps ==
    ASSUME NEW seeds \in Seq(Scored), NEW b \in Contents(seeds),
           \A d \in Contents(seeds) : b.relevance >= d.relevance
    PROVE  /\ Preferred(seeds) \in Seq(Scored)
           /\ Contents(Preferred(seeds)) \subseteq Contents(seeds)
           /\ \E x \in Contents(Preferred(seeds)) : x.relevance = b.relevance
           /\ \A x, y \in Contents(Preferred(seeds)) :
                  x.relevance >= MinRelevance => y.relevance >= MinRelevance
<1> DEFINE high == AtLeast(MinRelevance, seeds)
           best == AtLeast(FallbackRelevance, seeds)
           sorted == ByRelevance(best)
           t == Preferred(seeds)
           C == Contents(seeds)
<1>1. /\ high \in Seq(Scored) /\ Contents(high) = {x \in C : x.relevance >= MinRelevance}
      /\ best \in Seq(Scored) /\ Contents(best) = {x \in C : x.relevance >= FallbackRelevance}
  BY AtLeastKeeps
<1>2. /\ high # <<>> => t = high
      /\ high = <<>> /\ best # <<>> => t = First(MaxSeeds, sorted)
      /\ high = <<>> /\ best = <<>> => t = seeds
  BY DEF Preferred
<1>3. \A x \in C : x \in Scored
  BY DEF Contents
<1>4. \A x \in C : x.relevance \in Int
  BY <1>3 DEF Scored
<1>5. MaxSeeds \in Nat \ {0} /\ MinRelevance \in Int /\ FallbackRelevance \in Int
  BY SeedDiscoveryAssumption
<1> HIDE DEF high, best, t, C
<1>6. \A s \in Seq(Scored) : s # <<>> <=> \E x : x \in Contents(s)
  <2> SUFFICES ASSUME NEW s \in Seq(Scored) PROVE s # <<>> <=> \E x : x \in Contents(s)
    OBVIOUS
  <2>1. Len(s) \in Nat /\ (s = <<>> <=> Len(s) = 0)
    OBVIOUS
  <2>2. s # <<>> <=> 1 \in 1..Len(s)
    BY <2>1
  <2>3. QED
    BY <2>1, <2>2 DEF Contents
<1>7. CASE high # <<>>
  <2>1. PICK x : x \in Contents(high)
    BY <1>1, <1>6, <1>7
  <2>2. x \in C /\ x.relevance >= MinRelevance /\ b.relevance >= x.relevance
    BY <1>1, <2>1 DEF C
  <2>3. b.relevance >= MinRelevance /\ b \in C
    BY <1>4, <1>5, <2>2 DEF C
  <2>4. b \in Contents(t)
    BY <1>1, <1>2, <1>7, <2>3
  <2>5. QED
    BY <1>1, <1>2, <1>7, <2>4 DEF t, C
<1>8. CASE high = <<>>
  <2>1. \A x \in C : ~ (x.relevance >= MinRelevance)
    BY <1>1, <1>6, <1>8
  <2>2. CASE best # <<>>
    <3>1. PICK x : x \in Contents(best)
      BY <1>1, <1>6, <2>2
    <3>2. x \in C /\ x.relevance >= FallbackRelevance /\ b.relevance >= x.relevance
      BY <1>1, <3>1 DEF C
    <3>3. b.relevance >= FallbackRelevance /\ b \in C
      BY <1>4, <1>5, <3>2 DEF C
    <3>4. b \in Contents(best)
      BY <1>1, <3>3
    <3>5. sorted \in Seq(Scored) /\ Contents(sorted) = Contents(best) /\ Falling(sorted)
      BY <1>1, ByRelevanceKeeps
    <3> HIDE DEF sorted
    <3>6. PICK i \in 1..Len(sorted) : sorted[i] = b
      BY <3>4, <3>5 DEF Contents
    <3>7. Len(sorted) \in Nat /\ 1 \in 1..Len(sorted) /\ Len(sorted) > 0
      BY <3>5
    <3>8. /\ t \in Seq(Scored) /\ Contents(t) \subseteq Contents(sorted)
          /\ Len(t) > 0 /\ t[1] = sorted[1]
      BY <1>2, <1>5, <1>8, <2>2, <3>5, <3>7, FirstKeeps
    <3>9. sorted[1] \in Contents(best) /\ t[1] \in Contents(t)
      <4>1. sorted[1] \in Contents(sorted)
        BY <3>7 DEF Contents
      <4>2. Len(t) \in Nat
        BY <3>8
      <4>3. t[1] \in Contents(t)
        BY <3>8, <4>2 DEF Contents
      <4>4. QED
        BY <3>5, <4>1, <4>3
    <3>10. sorted[1] \in C
      BY <1>1, <3>9
    <3>11. sorted[1].relevance = b.relevance
      <4>1. b.relevance >= sorted[1].relevance
        BY <3>10 DEF C
      <4>2. sorted[1].relevance >= b.relevance
        <5>1. i = 1 \/ 1 < i
          BY <3>7
        <5>2. CASE i = 1
          BY <1>4, <3>3, <3>6, <5>2
        <5>3. CASE 1 < i
          BY <3>5, <3>6, <3>7, <5>3 DEF Falling
        <5>4. QED
          BY <5>1, <5>2, <5>3
      <4>3. b.relevance \in Int /\ sorted[1].relevance \in Int
        BY <1>4, <3>3, <3>10
      <4>4. QED
        BY <4>1, <4>2, <4>3
    <3>12. Contents(t) \subseteq C
      BY <1>1, <3>5, <3>8
    <3>13. QED
      BY <2>1, <3>8, <3>9, <3>11, <3>12 DEF t, C
  <2>3. CASE best = <<>>
    <3>1. t = seeds
      BY <1>2, <1>8, <2>3
    <3>2. QED
      BY <2>1, <3>1 DEF t, C
  <2>4. QED
    BY <2>2, <2>3
<1>9. QED
  BY <1>7, <1>8

LEMMA SanitizedKeeps ==
    ASSUME NEW seeds \in Seq(Scored), NEW x \in Contents(seeds), x.url \notin Forbidden
    PROVE  Canon[x.url] \in ToSet(Sanitized(seeds))
<1> DEFINE P == {i \in 1..Len(seeds) : seeds[i].url \notin Forbidden}
           allowed == At(P, seeds)
<1>1. Sanitized(seeds) = [i \in 1..Len(allowed) |-> Canon[allowed[i].url]]
  BY DEF Sanitized
<1>2. PICK i \in P : seeds[i] = x
  BY DEF Contents
<1>3. P \in SUBSET (1..Len(seeds))
  OBVIOUS
<1> HIDE DEF P
<1>4. \A k \in P : \E n \in 1..Len(allowed) : allowed[n] = seeds[k]
  BY <1>3, AtKeeps
<1>5. PICK n \in 1..Len(allowed) : allowed[n] = x
  BY <1>2, <1>4
<1> HIDE DEF allowed
<1>6. n \in DOMAIN Sanitized(seeds) /\ Sanitized(seeds)[n] = Canon[x.url]
  BY <1>1, <1>5
<1>7. QED
  BY <1>6 DEF ToSet

LEMMA NoneSanitized == Sanitized(<<>>) = <<>>
<1> DEFINE P == {i \in 1..Len(<<>>) : <<>>[i].url \notin Forbidden}
           allowed == At(P, <<>>)
<1>1. <<>> \in Seq(Scored) /\ Len(<<>>) = 0
  OBVIOUS
<1>2. P \in SUBSET (1..Len(<<>>))
  OBVIOUS
<1> HIDE DEF P
<1>3. allowed \in Seq(Scored) /\ Len(allowed) <= 0
  BY <1>1, <1>2, AtKeeps
<1>4. Sanitized(<<>>) = [i \in 1..Len(allowed) |-> Canon[allowed[i].url]]
  BY DEF Sanitized, P
<1> HIDE DEF allowed
<1>5. Len(allowed) = 0
  BY <1>3
<1>6. QED
  BY <1>4, <1>5

LEMMA ContentsIsSet ==
    ASSUME NEW S, NEW s \in Seq(S)
    PROVE  ToSet(s) = Contents(s)
BY DEF ToSet, Contents

\* What a layer returns is a sequence of scored seeds.
LEMMA OfflineFits ==
    ASSUME NEW catalog \in Catalogs, NEW index \in Indexes, NEW graph \in Graphs,
           NEW c \in FromCatalog(catalog), NEW i \in FromIndex(index), NEW g \in FromGraph(graph)
    PROVE  c \o i \o g \in Seq(Scored)
<1>1. ASSUME NEW found \in Catalogs \cup Indexes \cup Graphs, NEW S, S \subseteq found,
             NEW s \in SetToSeqs(S)
      PROVE  s \in Seq(Scored)
  <2>1. IsFiniteSet(S) /\ S \subseteq Seed
    <3>1. found \subseteq Seed /\ IsFiniteSet(found)
      BY SeedDiscoveryAssumption
    <3>2. QED
      BY <1>1, <3>1, FS_Subset
  <2>2. S \subseteq Scored
    <3>1. \A x \in 0..1000 : x \in Int
      OBVIOUS
    <3>2. QED
      BY <2>1, <3>1 DEF Seed, Scored
  <2>3. Cardinality(S) \in Nat
    BY <2>1, FS_CardinalityType
  <2> DEFINE n == Cardinality(S)
  <2>4. s \in [1..n -> S]
    BY DEF SetToSeqs
  <2> HIDE DEF n
  <2>5. n \in Nat
    BY <2>3 DEF n
  <2>6. QED
    BY <2>2, <2>4, <2>5
<1>2. MaxSeeds \in Nat /\ 2 * MaxSeeds \in Nat
  BY SeedDiscoveryAssumption
<1>3. Highest(catalog) \subseteq catalog /\ Highest(index) \subseteq index
  BY DEF Highest
<1>4. c \in Seq(Scored)
  <2>1. PICK s \in SetToSeqs(Highest(catalog)) : c = First(MaxSeeds, ByRelevance(s))
    BY DEF FromCatalog, Sorted
  <2>2. s \in Seq(Scored)
    BY <1>1, <1>3
  <2>3. ByRelevance(s) \in Seq(Scored)
    BY <2>2, ByRelevanceKeeps
  <2>4. QED
    BY <1>2, <2>1, <2>3, FirstKeeps
<1>5. i \in Seq(Scored)
  <2>1. PICK s \in SetToSeqs(Highest(index)) : i = First(2 * MaxSeeds, s)
    BY DEF FromIndex
  <2>2. s \in Seq(Scored)
    BY <1>1, <1>3
  <2>3. QED
    BY <1>2, <2>1, <2>2, FirstKeeps
<1>6. g \in Seq(Scored)
  <2>1. PICK s \in SetToSeqs(graph) : g = First(2 * MaxSeeds, ByRelevance(s))
    BY DEF FromGraph, Sorted
  <2>2. s \in Seq(Scored)
    BY <1>1
  <2>3. ByRelevance(s) \in Seq(Scored)
    BY <2>2, ByRelevanceKeeps
  <2>4. QED
    BY <1>2, <2>1, <2>3, FirstKeeps
<1>7. QED
  BY <1>4, <1>5, <1>6

\* BestSeedOffered of the rankings it speaks of.
BestOf(seeds, offline, chosen, sanitized) ==
    LET O == Offers(seeds, offline)
        best == {c \in O : \A d \in O : c.relevance >= d.relevance}
    IN  /\ best \cap ToSet(chosen) # {}
        /\ \A c \in best \cap ToSet(chosen) :
                c.url \notin Forbidden => Canon[c.url] \in ToSet(sanitized)
        /\ \A s, t \in ToSet(chosen) : s.relevance >= MinRelevance => t.relevance >= MinRelevance

LEMMA BestIsChosen ==
    ASSUME NEW seeds \in Seq(Scored), Alike(seeds), NEW offline \in Seq(Scored), Falling(offline),
           Preferred(Filled(seeds, offline)) # <<>>
    PROVE  BestOf(seeds, offline, Preferred(Filled(seeds, offline)),
                  Sanitized(Preferred(Filled(seeds, offline))))
<1> DEFINE O == Offers(seeds, offline)
           f == Filled(seeds, offline)
           chosen == Preferred(f)
           n == Len(offline)
<1>1. PICK acc : acc.seeds = f /\ Filling(seeds, offline, acc, n)
  BY FilledFits
<1>2. f \in Seq(Scored) /\ n \in Nat
  BY FilledFits
<1> HIDE DEF f
<1>3. Contents(f) \subseteq O
  <2>1. ASSUME NEW x \in Contents(f) PROVE x \in O
    <3>1. \/ x \in Contents(seeds)
          \/ \E j \in 1..n : x = offline[j] /\ New(seeds, offline, j)
      BY <1>1 DEF Filling
    <3>2. QED
      BY <3>1, OffersAre
  <2>2. QED
    BY <2>1
<1>4. \A x \in O : x.relevance \in Int
  <2> SUFFICES ASSUME NEW x \in O PROVE x.relevance \in Int
    OBVIOUS
  <2>1. \/ x \in Contents(seeds)
        \/ \E j \in 1..n : x = offline[j]
    BY OffersAre
  <2>2. x \in Scored
    BY <2>1 DEF Contents
  <2>3. QED
    BY <2>2 DEF Scored
<1>5. f # <<>>
  <2> SUFFICES ASSUME f = <<>> PROVE FALSE
    OBVIOUS
  <2>1. \A r : AtLeast(r, f) \in Seq(Scored) /\ Contents(AtLeast(r, f)) = {x \in Contents(f) : x.relevance >= r}
    BY <1>2, AtLeastKeeps
  <2>2. Contents(f) = {}
    BY DEF Contents
  <2>3. \A r : AtLeast(r, f) = <<>>
    <3> TAKE r
    <3> DEFINE t == AtLeast(r, f)
    <3>1. t \in Seq(Scored) /\ Contents(t) = {}
      BY <2>1, <2>2
    <3> HIDE DEF t
    <3>2. Len(t) \in Nat /\ ~ 1 \in 1..Len(t)
      <4>1. 1 \in 1..Len(t) => t[1] \in Contents(t)
        BY DEF Contents
      <4>2. QED
        BY <3>1, <4>1
    <3>3. Len(t) = 0
      BY <3>2
    <3>4. t = <<>>
      BY <3>1, <3>3
    <3>5. QED
      BY <3>4 DEF t
  <2>4. Preferred(f) = f
    BY <2>3 DEF Preferred
  <2>5. QED
    BY <2>4 DEF f
<1>6. O # {}
  <2>1. 1 \in 1..Len(f)
    BY <1>2, <1>5
  <2>2. QED
    BY <1>3, <2>1 DEF Contents
<1> HIDE DEF O
<1>7. PICK b \in O : \A d \in O : b.relevance >= d.relevance
  BY <1>6, OneIsBest DEF O
\* A most relevant candidate is among what the fill keeps.
<1>8. PICK y \in Contents(f) : y.relevance = b.relevance
  <2>1. CASE b \in Contents(seeds)
    BY <1>1, <2>1 DEF Filling
  <2>2. CASE b \notin Contents(seeds)
    <3>1. PICK k \in 1..n : b = offline[k] /\ New(seeds, offline, k)
      BY <2>2, OffersAre DEF O
    <3>2. PICK j \in 1..n : /\ offline[j] \in Contents(f)
                            /\ New(seeds, offline, j)
                            /\ \A i \in 1..(j - 1) : Named(offline[i].url, seeds)
      BY <1>1, <3>1 DEF Filling, New
    <3>3. j <= k
      <4> SUFFICES ASSUME k < j PROVE FALSE
        BY <1>2
      <4>1. k \in 1..(j - 1)
        BY <1>2
      <4>2. QED
        BY <3>1, <3>2, <4>1 DEF New
    <3>4. offline[j].relevance >= offline[k].relevance
      <4>1. j = k \/ j < k
        BY <1>2, <3>3
      <4>2. offline[k].relevance \in Int
        BY <1>4, <3>1
      <4>3. QED
        BY <4>1, <4>2 DEF Falling
    <3>5. offline[j] \in O
      BY <1>3, <3>2 DEF O
    <3>6. b.relevance >= offline[j].relevance
      BY <1>7, <3>5
    <3>7. offline[j].relevance = b.relevance
      BY <1>4, <3>1, <3>4, <3>5, <3>6
    <3>8. QED
      BY <3>2, <3>7
  <2>3. QED
    BY <2>1, <2>2
<1>9. \A d \in O : y.relevance >= d.relevance
  BY <1>7, <1>8
<1>10. \A d \in Contents(f) : y.relevance >= d.relevance
  BY <1>3, <1>9 DEF O
<1>11. /\ chosen \in Seq(Scored) /\ Contents(chosen) \subseteq Contents(f)
       /\ \E x \in Contents(chosen) : x.relevance = y.relevance
       /\ \A s, t \in Contents(chosen) :
              s.relevance >= MinRelevance => t.relevance >= MinRelevance
  BY <1>2, <1>8, <1>10, PreferredKeeps
<1> HIDE DEF chosen
<1>12. ToSet(chosen) = Contents(chosen)
  BY <1>11, ContentsIsSet
<1>13. PICK x \in Contents(chosen) : x.relevance = y.relevance
  BY <1>11
<1>14. x \in O /\ \A d \in O : x.relevance >= d.relevance
  BY <1>3, <1>9, <1>11, <1>13 DEF O
<1>15. \A c \in Contents(chosen) :
           c.url \notin Forbidden => Canon[c.url] \in ToSet(Sanitized(chosen))
  BY <1>11, SanitizedKeeps
<1>16. BestOf(seeds, offline, chosen, Sanitized(chosen))
  BY <1>11, <1>12, <1>13, <1>14, <1>15 DEF BestOf, O
<1>17. QED
  BY <1>16 DEF chosen, f

-----------------------------------------------------------------------------
(* BestSeedOffered *)

Discovered(s) ==
    /\ s.live \in Seq(Scored) /\ Alike(s.live)
    /\ s = [stage |-> s.stage, live |-> s.live, offline |-> s.offline, chosen |-> s.chosen,
            seeds |-> s.seeds]

SeedInv ==
    /\ discovery # NotAsked => Discovered(discovery)
    /\ BestSeedOffered

\* BestSeedOffered of the next state is BestOf of its rankings.
LEMMA OffersOf ==
    ASSUME discovery'.stage \in {"found", "rejected"} =>
               BestOf(discovery'.live, discovery'.offline, discovery'.chosen, discovery'.seeds)
    PROVE  BestSeedOffered'
<1> SUFFICES ASSUME discovery' # NotAsked /\ discovery'.stage \in {"found", "rejected"}
             PROVE  LET best == {c \in SeedCandidates' : \A d \in SeedCandidates' :
                                                           c.relevance >= d.relevance}
                        chosen == ToSet(discovery'.chosen)
                    IN  /\ best \cap chosen # {}
                        /\ \A c \in best \cap chosen :
                                c.url \notin Forbidden => Canon[c.url] \in ToSet(discovery'.seeds)
                        /\ \A s, t \in chosen :
                                s.relevance >= MinRelevance => t.relevance >= MinRelevance
  BY DEF BestSeedOffered
<1>1. SeedCandidates' = Offers(discovery'.live, discovery'.offline)
  BY DEF SeedCandidates, Offers
<1>2. BestOf(discovery'.live, discovery'.offline, discovery'.chosen, discovery'.seeds)
  OBVIOUS
<1> HIDE DEF Offers
<1>3. QED
  BY <1>1, <1>2 DEF BestOf

LEMMA NoLiveSeeds == <<>> \in Seq(Scored) /\ Alike(<<>>)
<1>1. <<>> \in Seq(Scored) /\ Len(<<>>) = 0
  OBVIOUS
<1>2. QED
  BY <1>1 DEF Alike

LEMMA DiscoveringKeeps ==
    ASSUME NEW s \in Seq(Scored), Alike(s), discovery' = Discovering(s)
    PROVE  SeedInv'
<1> DEFINE d == Discovering(s)
<1>1. d.stage = "offline" /\ d.live = s
  BY DEF Discovering
<1>2. Discovered(d)
  BY <1>1 DEF Discovered, Discovering
<1>3. "offline" \notin {"found", "rejected"}
  OBVIOUS
<1> HIDE DEF d
<1>4. discovery' = d
  BY DEF d
<1>5. QED
  BY <1>1, <1>2, <1>3, <1>4 DEF SeedInv, BestSeedOffered

LEMMA OfflineKeeps == ASSUME SeedInv, DiscoverOffline PROVE SeedInv'
<1> DEFINE D == discovery
<1>1. D # NotAsked /\ Discovered(D)
  BY DEF DiscoverOffline, SeedInv
<1>2. PICK catalog \in Catalogs, index \in Indexes, graph \in Graphs :
        \E c \in FromCatalog(catalog), i \in FromIndex(index), g \in FromGraph(graph) :
            LET offline == ByRelevance(c \o i \o g)
                chosen == Preferred(Filled(D.live, offline))
                seeds == Sanitized(chosen)
            IN  discovery' = [D EXCEPT
                    !.stage = CASE chosen = <<>> -> "none"
                                [] chosen # <<>> /\ seeds = <<>> -> "rejected"
                                [] seeds # <<>> -> "found",
                    !.offline = offline, !.chosen = chosen, !.seeds = seeds]
  BY DEF DiscoverOffline
<1>3. PICK c \in FromCatalog(catalog), i \in FromIndex(index), g \in FromGraph(graph) :
            LET offline == ByRelevance(c \o i \o g)
                chosen == Preferred(Filled(D.live, offline))
                seeds == Sanitized(chosen)
            IN  discovery' = [D EXCEPT
                    !.stage = CASE chosen = <<>> -> "none"
                                [] chosen # <<>> /\ seeds = <<>> -> "rejected"
                                [] seeds # <<>> -> "found",
                    !.offline = offline, !.chosen = chosen, !.seeds = seeds]
  BY <1>2
<1> DEFINE all == c \o i \o g
           offline == ByRelevance(all)
           chosen == Preferred(Filled(D.live, offline))
           seeds == Sanitized(chosen)
           stage == CASE chosen = <<>> -> "none"
                      [] chosen # <<>> /\ seeds = <<>> -> "rejected"
                      [] seeds # <<>> -> "found"
<1>4. discovery' = [D EXCEPT !.stage = stage, !.offline = offline, !.chosen = chosen,
                             !.seeds = seeds]
  BY <1>3
<1>5. offline \in Seq(Scored) /\ Falling(offline)
  <2>1. all \in Seq(Scored)
    BY OfflineFits
  <2> HIDE DEF all
  <2>2. QED
    BY <2>1, ByRelevanceKeeps
<1>6. D.live \in Seq(Scored) /\ Alike(D.live)
  BY <1>1 DEF Discovered
<1> HIDE DEF offline, D
<1>7. chosen # <<>> => BestOf(D.live, offline, chosen, seeds)
  BY <1>5, <1>6, BestIsChosen
<1>8. chosen = <<>> => stage = "none"
  <2>1. chosen = <<>> => seeds = <<>>
    <3> HIDE DEF chosen
    <3>1. QED
      BY NoneSanitized
  <2> HIDE DEF chosen, seeds
  <2>2. QED
    BY <2>1
<1> HIDE DEF chosen, seeds
<1> HIDE DEF stage
<1>9. D = [stage |-> D.stage, live |-> D.live, offline |-> D.offline, chosen |-> D.chosen,
           seeds |-> D.seeds]
  BY <1>1 DEF Discovered
<1>10. discovery' = [stage |-> stage, live |-> D.live, offline |-> offline, chosen |-> chosen,
                     seeds |-> seeds]
  BY <1>4, <1>9
<1> DEFINE E == [stage |-> stage, live |-> D.live, offline |-> offline, chosen |-> chosen,
                 seeds |-> seeds]
<1>11. /\ E.stage = stage /\ E.live = D.live /\ E.offline = offline
       /\ E.chosen = chosen /\ E.seeds = seeds
  OBVIOUS
<1>12. Discovered(E)
  BY <1>6, <1>11 DEF Discovered
<1>13. "none" \notin {"found", "rejected"}
  OBVIOUS
<1>14. E.stage \in {"found", "rejected"} => BestOf(E.live, E.offline, E.chosen, E.seeds)
  BY <1>7, <1>8, <1>11, <1>13
<1>15. discovery' = E
  BY <1>10
<1> HIDE DEF E
<1>16. BestSeedOffered'
  <2> SUFFICES ASSUME E.stage \in {"found", "rejected"}
               PROVE  BestOf(E.live, E.offline, E.chosen, E.seeds)
    BY <1>15, OffersOf
  <2>1. QED
    BY <1>14
<1>17. QED
  BY <1>12, <1>15, <1>16 DEF SeedInv

LEMMA FailureKeeps == ASSUME SeedInv, IndexFails PROVE SeedInv'
<1> DEFINE D == discovery
<1>1. D # NotAsked /\ Discovered(D) /\ discovery' = [D EXCEPT !.stage = "failed"]
  BY DEF IndexFails, SeedInv
<1>2. /\ D.live \in Seq(Scored) /\ Alike(D.live)
      /\ D = [stage |-> D.stage, live |-> D.live, offline |-> D.offline, chosen |-> D.chosen,
              seeds |-> D.seeds]
  BY <1>1 DEF Discovered
<1> HIDE DEF D
<1> DEFINE E == [stage |-> "failed", live |-> D.live, offline |-> D.offline,
                 chosen |-> D.chosen, seeds |-> D.seeds]
<1>3. discovery' = E
  BY <1>1, <1>2
<1>4. E.stage = "failed" /\ Discovered(E)
  BY <1>2 DEF Discovered
<1>5. "failed" \notin {"found", "rejected"}
  OBVIOUS
<1> HIDE DEF E
<1>6. QED
  BY <1>3, <1>4, <1>5 DEF SeedInv, BestSeedOffered

LEMMA SeedInvNext == ASSUME LiveInv, SeedInv, [SeedNext]_seedVars PROVE SeedInv'
<1>1. CASE UNCHANGED discovery
  <2>1. discovery' = discovery
    BY <1>1
  <2>2. SeedCandidates' = SeedCandidates
    BY <2>1 DEF SeedCandidates
  <2>3. QED
    BY <2>1, <2>2 DEF SeedInv, BestSeedOffered
<1>2. CASE DiscoverLive
  <2>1. PICK k \in Keywords : discovery' = Discovering(LiveSeeds(k, live))
    BY <1>2 DEF DiscoverLive
  <2>2. HitList(live)
    BY DEF LiveInv
  <2>3. Len(live) \in Nat /\ \A i \in 1..Len(live) : live[i].url \in Urls
    <3>1. live \in Seq(ToSet(live)) /\ \A f \in ToSet(live) : f.url \in Urls
      BY <2>2 DEF HitList
    <3>2. QED
      BY <3>1
  <2>4. LiveSeeds(k, live) \in Seq(Scored) /\ Alike(LiveSeeds(k, live))
    BY <2>3, LiveSeedsFit
  <2>5. QED
    BY <2>1, <2>4, DiscoveringKeeps
<1>3. CASE DiscoveryTimesOut
  <2>1. discovery' = Discovering(<<>>)
    BY <1>3 DEF DiscoveryTimesOut
  <2>2. QED
    BY <2>1, NoLiveSeeds, DiscoveringKeeps
<1>4. CASE DiscoverOffline
  BY <1>4, OfflineKeeps
<1>5. CASE IndexFails
  BY <1>5, FailureKeeps
<1>6. QED
  BY <1>1, <1>2, <1>3, <1>4, <1>5 DEF SeedNext, Discover, seedVars

\* Of all that the layers return for a request, the search of the index after its unsorted
\* cut (discovery.rs:303-304), the most relevant seed is offered, unless the
\* security gate refuses it, and never beside one below the bar if it reaches it
\* (discovery.rs:97-145).
THEOREM BestSeedAlwaysOffered == SeedSpec => []BestSeedOffered
<1>1. SeedInit => SeedInv
  BY DEF SeedInit, SeedInv, BestSeedOffered
<1>2. LiveInv /\ SeedInv /\ [SeedNext]_seedVars => SeedInv'
  BY SeedInvNext
<1>3. SeedInv => BestSeedOffered
  BY DEF SeedInv
<1>4. QED
  BY <1>1, <1>2, <1>3, LiveInvAlways, PTL DEF SeedSpec

-----------------------------------------------------------------------------
(* The lists of a query *)

LEMMA ByMostType ==
    ASSUME NEW measure \in [Urls -> Nat], NEW S \in SUBSET Urls
    PROVE  ByMost(measure, S) \in Seq(Urls)
<1> DEFINE R == {p \in S \X S : \/ measure[p[1]] > measure[p[2]]
                                \/ measure[p[1]] = measure[p[2]] /\ Before[p[1]] < Before[p[2]]}
           Above(x) == {y \in S : measure[y] > measure[x]
                                      \/ (measure[y] = measure[x] /\ Before[y] < Before[x])}
           G(n) == CHOOSE x \in S : Cardinality(Above(x)) = n - 1
           N == Cardinality(S)
           s == [n \in 1..N |-> G(n)]
<1>1. /\ Before \in [Urls -> Nat] /\ \A u, v \in Urls : Before[u] = Before[v] => u = v
      /\ IsFiniteSet(S) /\ Limit \in Nat
  BY RankFusionAssumption, HybridSearchAssumption, FS_Subset
<1>2. StrictOrder(S, R)
  <2>1. \A x, y \in S : <<x, y>> \in R <=> \/ measure[x] > measure[y]
                                           \/ measure[x] = measure[y] /\ Before[x] < Before[y]
    OBVIOUS
  <2>2. \A x \in S : x \in Urls /\ measure[x] \in Nat /\ Before[x] \in Nat
    BY <1>1
  <2> HIDE DEF R
  <2>3. QED
    BY <1>1, <2>1, <2>2 DEF StrictOrder
<1>3. ASSUME NEW x \in S PROVE Preceding(S, R, x) = Above(x)
  BY DEF Preceding
<1>4. ByMost(measure, S) = First(Limit, s)
  BY DEF ByMost, InOrder
<1> HIDE DEF R, Above
<1>5. N \in Nat /\ \A n \in 1..N : \E x \in S : Cardinality(Preceding(S, R, x)) = n - 1
  BY <1>1, <1>2, Ranks
<1>6. ASSUME NEW n \in 1..N PROVE G(n) \in Urls
  <2>1. \E x \in S : Cardinality(Above(x)) = n - 1
    BY <1>3, <1>5
  <2>2. QED
    BY <2>1
<1> HIDE DEF G, N
<1>7. s \in [1..N -> Urls]
  BY <1>6
<1> HIDE DEF s
<1>8. s \in Seq(Urls)
  BY <1>5, <1>7
<1>9. QED
  BY <1>1, <1>4, <1>8, FirstType

LEMMA MatchingFinite ==
    ASSUME NEW q \in Queries
    PROVE  /\ IsFiniteSet(MatchingRows(q))
           /\ \A r \in MatchingRows(q) :
                  r[1] \in Texts /\ r[2] \in Urls /\ r[3] \in 1..CopyBound
                      /\ r = <<r[1], r[2], r[3]>>
<1>1. \A r \in MatchingRows(q) :
          r[1] \in Texts /\ r[2] \in Urls /\ r[3] \in 1..CopyBound /\ r = <<r[1], r[2], r[3]>>
  BY HybridSearchAssumption DEF MatchingRows
<1> DEFINE U == Texts \X Urls
           T == U \X (1..CopyBound)
           f == [r \in MatchingRows(q) |-> << <<r[1], r[2]>>, r[3]>>]
<1>2. IsFiniteSet(T)
  <2>1. IsFiniteSet(1..CopyBound)
    <3>1. 1 \in Int /\ CopyBound \in Int
      BY DEF CopyBound
    <3>2. QED
      BY <3>1, FS_Interval
  <2>2. IsFiniteSet(U)
    BY HybridSearchAssumption, FS_Product
  <2> HIDE DEF U
  <2>3. QED
    BY <2>1, <2>2, FS_Product
<1>3. f \in [MatchingRows(q) -> T]
  BY <1>1
<1>4. ASSUME NEW r \in MatchingRows(q), NEW o \in MatchingRows(q), f[r] = f[o] PROVE r = o
  <2>1. r[1] = o[1] /\ r[2] = o[2] /\ r[3] = o[3]
    BY <1>4
  <2>2. QED
    BY <1>1, <2>1
<1> HIDE DEF f, T
<1>5. f \in Injection(MatchingRows(q), T)
  BY <1>3, <1>4 DEF Injection, IsInjective
<1>6. QED
  BY <1>1, <1>2, <1>5, FS_Injection

\* If all rows that match fit into the list, the URL of each is in it.
LEMMA Bm25Matches ==
    ASSUME NEW q \in Queries
    PROVE  /\ Bm25Search(q) \in Seq(Urls)
           /\ Cardinality(MatchingRows(q)) \in Nat
           /\ Cardinality(MatchingRows(q)) <= Limit =>
                  \A r \in MatchingRows(q) : r[2] \in ToSet(Bm25Search(q))
<1> DEFINE S == MatchingRows(q)
           rel == Relevance[q]
           R == {p \in S \X S :
                    \/ rel[p[1][1]] > rel[p[2][1]]
                    \/ /\ rel[p[1][1]] = rel[p[2][1]]
                       /\ \/ Rowid[p[1][1]] < Rowid[p[2][1]]
                          \/ p[1][1] = p[2][1] /\ p[1][3] < p[2][3]
                          \/ p[1][1] = p[2][1] /\ p[1][3] = p[2][3] /\ Before[p[1][2]] < Before[p[2][2]]}
           Above(x) == {y \in S :
                    \/ rel[y[1]] > rel[x[1]]
                    \/ /\ rel[y[1]] = rel[x[1]]
                       /\ \/ Rowid[y[1]] < Rowid[x[1]]
                          \/ y[1] = x[1] /\ y[3] < x[3]
                          \/ y[1] = x[1] /\ y[3] = x[3] /\ Before[y[2]] < Before[x[2]]}
           G(n) == CHOOSE x \in S : Cardinality(Above(x)) = n - 1
           N == Cardinality(S)
           s == [n \in 1..N |-> G(n)]
<1>1. /\ rel \in [Texts -> Nat]
      /\ Before \in [Urls -> Nat] /\ \A u, v \in Urls : Before[u] = Before[v] => u = v
      /\ Rowid \in [Texts -> Nat] /\ \A t, o \in Texts : Rowid[t] = Rowid[o] => t = o
      /\ Limit \in Nat
  BY RankFusionAssumption, HybridSearchAssumption
<1>2. /\ IsFiniteSet(S)
      /\ \A r \in S : r[1] \in Texts /\ r[2] \in Urls /\ r[3] \in Nat /\ r = <<r[1], r[2], r[3]>>
  BY MatchingFinite DEF CopyBound
<1>3. Bm25Search(q) = [i \in 1..LeastOf(Limit, Len(s)) |-> s[i][2]]
  BY DEF Bm25Search, InOrder
<1> HIDE DEF S, rel
<1>4. StrictOrder(S, R)
  <2>1. \A x, y \in S : <<x, y>> \in R <=>
            \/ rel[x[1]] > rel[y[1]]
            \/ /\ rel[x[1]] = rel[y[1]]
               /\ \/ Rowid[x[1]] < Rowid[y[1]]
                  \/ x[1] = y[1] /\ x[3] < y[3]
                  \/ x[1] = y[1] /\ x[3] = y[3] /\ Before[x[2]] < Before[y[2]]
    OBVIOUS
  <2>2. \A x \in S : rel[x[1]] \in Nat /\ Rowid[x[1]] \in Nat /\ Before[x[2]] \in Nat /\ x[3] \in Nat
    BY <1>1, <1>2
  <2>3. \A x, y \in S : Rowid[x[1]] = Rowid[y[1]] => x[1] = y[1]
    BY <1>1, <1>2
  <2>4. \A x, y \in S : x[1] = y[1] /\ x[3] = y[3] /\ Before[x[2]] = Before[y[2]] => x = y
    BY <1>1, <1>2
  <2> HIDE DEF R
  <2>5. \A x \in S : <<x, x>> \notin R
    BY <2>1, <2>2
  <2>6. \A x, y, z \in S : <<x, y>> \in R /\ <<y, z>> \in R => <<x, z>> \in R
    BY <2>1, <2>2
  <2>7. \A x, y \in S : x # y => <<x, y>> \in R \/ <<y, x>> \in R
    BY <2>1, <2>2, <2>3, <2>4
  <2>8. QED
    BY <2>5, <2>6, <2>7 DEF StrictOrder
<1>5. ASSUME NEW x \in S PROVE Preceding(S, R, x) = Above(x)
  BY DEF Preceding
<1> HIDE DEF R, Above
<1>6. /\ N \in Nat
      /\ \A x \in S : Cardinality(Above(x)) \in 0..(N - 1)
      /\ \A x, z \in S : Cardinality(Above(x)) = Cardinality(Above(z)) => x = z
      /\ \A n \in 1..N : \E x \in S : Cardinality(Above(x)) = n - 1
  <2>1. /\ N \in Nat
        /\ \A x \in S : Cardinality(Preceding(S, R, x)) \in 0..(N - 1)
        /\ \A x, z \in S : Cardinality(Preceding(S, R, x)) = Cardinality(Preceding(S, R, z)) => x = z
        /\ \A n \in 1..N : \E x \in S : Cardinality(Preceding(S, R, x)) = n - 1
    BY <1>2, <1>4, Ranks
  <2>2. QED
    BY <1>5, <2>1
<1>7. ASSUME NEW n \in 1..N PROVE G(n) \in S /\ Cardinality(Above(G(n))) = n - 1
  <2>1. \E x \in S : Cardinality(Above(x)) = n - 1
    BY <1>6
  <2>2. QED
    BY <2>1
<1>8. ASSUME NEW x \in S PROVE \E n \in 1..N : G(n) = x
  <2>1. Cardinality(Above(x)) + 1 \in 1..N /\ Cardinality(Above(x)) \in Int
    BY <1>6
  <2>2. PICK n \in 1..N : n = Cardinality(Above(x)) + 1
    BY <2>1
  <2>3. Cardinality(Above(x)) = n - 1
    BY <2>1, <2>2
  <2>4. G(n) = x
    BY <1>6, <1>7, <2>3
  <2>5. QED
    BY <2>4
<1> HIDE DEF G, N
<1>9. Len(s) = N /\ \A i \in 1..N : s[i] = G(i)
  BY <1>6
<1>10. LeastOf(Limit, N) \in Nat /\ LeastOf(Limit, N) <= N /\ (N <= Limit => LeastOf(Limit, N) = N)
  BY <1>1, <1>6 DEF LeastOf
<1> HIDE DEF s
<1>11. Bm25Search(q) = [i \in 1..LeastOf(Limit, N) |-> G(i)[2]]
  BY <1>3, <1>9, <1>10
<1>12. Bm25Search(q) \in Seq(Urls)
  <2>1. \A i \in 1..LeastOf(Limit, N) : G(i)[2] \in Urls
    BY <1>2, <1>6, <1>7, <1>10
  <2>2. Bm25Search(q) \in [1..LeastOf(Limit, N) -> Urls]
    BY <1>11, <2>1
  <2> HIDE DEF LeastOf
  <2>3. QED
    BY <1>10, <2>2
<1>13. ASSUME N <= Limit, NEW r \in S PROVE r[2] \in ToSet(Bm25Search(q))
  <2>1. PICK n \in 1..N : G(n) = r
    BY <1>8
  <2>2. DOMAIN Bm25Search(q) = 1..N /\ Bm25Search(q)[n] = r[2]
    BY <1>10, <1>11, <1>13, <2>1
  <2>3. QED
    BY <2>2 DEF ToSet
<1>14. QED
  BY <1>6, <1>12, <1>13 DEF N, S

\* What is answered are candidates, and all of them if there is room left.
LEMMA HybridsFit ==
    ASSUME NEW l, NEW newest, Candidates(l) \subseteq Urls,
           NEW hits \in Hybrids(l, newest)
    PROVE  /\ hits \in Seq(Urls)
           /\ Len(hits) = Limit \/ ToSet(hits) = Candidates(l)
<1> DEFINE C == Candidates(l)
           N == Cardinality(C)
<1>1. IsFiniteSet(C) /\ N \in Nat /\ Limit \in Nat
  BY HybridSearchAssumption, FS_Subset, FS_CardinalityType
<1>2. PICK s \in SetToSeqs(C) : hits = First(Limit, s)
  BY DEF Hybrids
<1> HIDE DEF C, N
<1>3. s \in [1..N -> C] /\ \A i, j \in 1..N : i # j => s[i] # s[j]
  BY <1>2 DEF SetToSeqs, N
<1>4. s \in Injection(1..N, C)
  BY <1>3 DEF Injection, IsInjective
<1>5. IsFiniteSet(1..N) /\ Cardinality(1..N) = N
  BY <1>1, FS_Interval
<1>6. s \in Surjection(1..N, C)
  BY <1>1, <1>4, <1>5, FS_Injection DEF N
<1>7. s \in [1..N -> Urls]
  BY <1>3 DEF C
<1>8. /\ hits \in Seq(Urls) /\ Len(hits) = LeastOf(Limit, N)
      /\ \A i \in 1..LeastOf(Limit, N) : hits[i] = s[i]
  <2>1. s \in Seq(Urls) /\ Len(s) = N
    BY <1>1, <1>7
  <2>2. /\ First(Limit, s) \in Seq(Urls) /\ Len(First(Limit, s)) = LeastOf(Limit, N)
        /\ \A i \in 1..LeastOf(Limit, N) : First(Limit, s)[i] = s[i]
    BY <1>1, <2>1, FirstType
  <2>3. QED
    BY <1>2, <2>2
<1>9. CASE Limit <= N
  BY <1>1, <1>8, <1>9 DEF LeastOf
<1>10. CASE N < Limit
  <2>1. LeastOf(Limit, N) = N
    BY <1>1, <1>10 DEF LeastOf
  <2>2. DOMAIN hits = 1..N /\ \A i \in 1..N : hits[i] = s[i]
    BY <1>8, <2>1
  <2>3. ToSet(hits) = {s[i] : i \in 1..N}
    BY <2>2 DEF ToSet
  <2>4. {s[i] : i \in 1..N} = C
    BY <1>3, <1>6 DEF Surjection
  <2>5. QED
    BY <1>8, <2>3, <2>4 DEF C
<1>11. QED
  BY <1>1, <1>9, <1>10

-----------------------------------------------------------------------------
(* The queries of a request *)

\* The queries taken of the arguments, after those in l and with the i-th.
Taken(l, args, i) ==
    IF i = 1 THEN <<args[1]>>
    ELSE IF args[i] = Blank \/ args[i] \in ToSet(l) THEN l
    ELSE Append(l, args[i])

\* t has them after each of the first n arguments.
Taking(t, args, n) == \A i \in 1..n : t[i] = Taken(t[i - 1], args, i)

LEMMA TakenType ==
    ASSUME NEW args \in Requests, NEW i \in 1..Len(args), NEW l, i # 1 => l \in Seq(Queries)
    PROVE  Taken(l, args, i) \in Seq(Queries)
<1>1. args \in Seq(Queries \cup {Blank}) /\ args[1] \in Queries
  BY HybridSearchAssumption
<1>2. args[i] \in Queries \/ args[i] = Blank
  BY <1>1
<1>3. CASE i = 1
  BY <1>1, <1>3 DEF Taken
<1>4. CASE i # 1
  BY <1>2, <1>4 DEF Taken
<1>5. QED
  BY <1>3, <1>4

LEMMA Takes ==
    ASSUME NEW args \in Requests, NEW n \in Nat, n <= Len(args)
    PROVE  \E t \in [1..n -> Seq(Queries)] : Taking(t, args, n)
<1> DEFINE T == {m \in Nat : m <= Len(args) =>
                     \E t \in [1..m -> Seq(Queries)] : Taking(t, args, m)}
<1>1. args \in Seq(Queries \cup {Blank}) /\ Len(args) \in Nat
  BY HybridSearchAssumption
<1>2. 0 \in T
  <2> DEFINE t == [k \in 1..0 |-> <<>>]
  <2>1. t \in [1..0 -> Seq(Queries)] /\ Taking(t, args, 0)
    BY DEF Taking
  <2>2. QED
    BY <2>1
<1>3. ASSUME NEW m \in Nat, m \in T PROVE m + 1 \in T
  <2> SUFFICES ASSUME m + 1 <= Len(args)
               PROVE  \E t \in [1..m + 1 -> Seq(Queries)] : Taking(t, args, m + 1)
    OBVIOUS
  <2>1. PICK t \in [1..m -> Seq(Queries)] : Taking(t, args, m)
    BY <1>1, <1>3
  <2> DEFINE l == Taken(t[m], args, m + 1)
             s == [k \in 1..m + 1 |-> IF k = m + 1 THEN l ELSE t[k]]
  <2>2. l \in Seq(Queries)
    <3>1. m + 1 \in 1..Len(args) /\ (m + 1 # 1 => t[m] \in Seq(Queries))
      BY <1>1
    <3>2. QED
      BY <3>1, TakenType
  <2>3. ASSUME NEW k \in 1..m + 1 PROVE s[k] = Taken(s[k - 1], args, k)
    <3>1. CASE k = m + 1 /\ m # 0
      BY <3>1
    <3>2. CASE k = m + 1 /\ m = 0
      BY <3>2 DEF Taken
    <3>3. CASE k # m + 1 /\ k = 1
      BY <2>1, <3>3 DEF Taking, Taken
    <3>4. CASE k # m + 1 /\ k # 1
      BY <2>1, <3>4 DEF Taking
    <3>5. QED
      BY <3>1, <3>2, <3>3, <3>4
  <2> HIDE DEF l
  <2>4. s \in [1..m + 1 -> Seq(Queries)]
    BY <2>2
  <2> HIDE DEF s
  <2>5. QED
    BY <2>3, <2>4 DEF Taking
<1> HIDE DEF T
<1>4. n \in T
  BY <1>2, <1>3, ByCounting
<1>5. QED
  BY <1>4 DEF T

LEMMA AllQueriesType ==
    ASSUME NEW args \in Requests
    PROVE  AllQueries(args) \in Seq(Queries)
<1> DEFINE n == Len(args)
           A(l, i) == Taken(l, args, i)
           Rec(t) == t = [i \in 1..n |-> A(t[i - 1], i)]
<1>1. args \in Seq(Queries \cup {Blank}) /\ n \in Nat /\ n >= 1
  BY HybridSearchAssumption
<1> HIDE DEF n
<1>2. PICK t \in [1..n -> Seq(Queries)] : Taking(t, args, n)
  BY <1>1, Takes DEF n
<1>3. ASSUME NEW i \in 1..n PROVE t[i] = A(t[i - 1], i)
  BY <1>2 DEF Taking
<1>4. Rec(t)
  <2> HIDE DEF A
  <2>1. t = [i \in 1..n |-> t[i]]
    OBVIOUS
  <2>2. QED
    BY <1>3, <2>1
<1>5. PICK s : s = (CHOOSE r : Rec(r)) /\ Rec(s)
  BY <1>4
<1>6. AllQueries(args) = s[n]
  BY <1>5 DEF AllQueries, Taken, n
<1>7. ASSUME NEW i \in 1..n PROVE s[i] = A(s[i - 1], i)
  <2>1. Rec(s)
    BY <1>5
  <2> HIDE DEF A
  <2>2. QED
    BY ONLY <2>1, Zenon
<1>8. s[n] \in Seq(Queries)
  <2> DEFINE T == {i \in Nat : i \in 1..n => s[i] \in Seq(Queries)}
  <2>1. 0 \in T
    OBVIOUS
  <2>2. ASSUME NEW i \in Nat, i \in T PROVE i + 1 \in T
    <3> SUFFICES ASSUME i + 1 \in 1..n PROVE s[i + 1] \in Seq(Queries)
      OBVIOUS
    <3>1. i + 1 \in 1..Len(args) /\ (i + 1 # 1 => s[i] \in Seq(Queries))
      BY <1>1, <2>2 DEF n
    <3>2. s[i + 1] = Taken(s[i], args, i + 1)
      BY <1>7
    <3>3. QED
      BY <3>1, <3>2, TakenType
  <2> HIDE DEF T
  <2>3. n \in T
    BY <1>1, <2>1, <2>2, ByCounting
  <2>4. QED
    BY <1>1, <2>3 DEF T
<1>9. QED
  BY <1>6, <1>8

-----------------------------------------------------------------------------
(* Types of the searches *)

LEMMA HybridTypeInit == HybridInit => HybridTypeOK
<1> SUFFICES ASSUME HybridInit PROVE HybridTypeOK
  OBVIOUS
<1>1. Asked \subseteq Queries
  <2>1. PICK args \in Requests : asked = AllQueries(args)
    BY DEF HybridInit
  <2>2. asked \in Seq(Queries)
    BY <2>1, AllQueriesType
  <2>3. QED
    BY <2>2 DEF Asked, ToSet
<1>2. fts \in [Rows -> 0..CopyBound] /\ ftsVersion \in Nat /\ rankVersion \in Nat /\ version \in Nat
  BY DEF HybridInit, CopyBound
<1>3. embedded \subseteq Urls /\ ranked \subseteq Urls
  BY DEF HybridInit
<1>4. lists \in [Queries -> Lists]
  BY DEF HybridInit, NoLists, Lists
<1>5. /\ pc \in [Queries -> Stages] /\ \A q \in Queries \ Asked : pc[q] = "idle"
      /\ seen \in [Queries -> Nat] /\ rows \in [Queries -> SUBSET Rows]
      /\ answer \in [Queries -> Seq(Urls)] /\ response.status \in {"open", "done", "failed"}
      /\ kept \in [Queries -> SUBSET Rows] /\ disturbed \subseteq Queries /\ intact \in BOOLEAN
  BY DEF HybridInit, Stages
<1>6. content \in [Texts -> Urls \cup {NoUrl}]
  BY DEF HybridInit
<1>7. QED
  BY <1>1, <1>2, <1>3, <1>4, <1>5, <1>6 DEF HybridTypeOK

LEMMA StoredType == ASSUME NEW c PROVE Stored(c) \in SUBSET Rows
BY DEF Stored

LEMMA VersionsType == ASSUME HybridTypeOK PROVE GraphVersions \subseteq Nat
BY DEF HybridTypeOK, GraphVersions, Misread

LEMMA HybridTypeKept ==
    ASSUME HybridTypeOK, [HybridNext]_hybridVars
    PROVE  HybridTypeOK'
<1> USE DEF HybridTypeOK
<1>1. ASSUME NEW q \in Queries, pc[q] # "idle" PROVE q \in Asked
  BY <1>1
<1>2. ASSUME NEW q \in Queries, ReadVersion(q) PROVE HybridTypeOK'
  <2>1. pc' \in [Queries -> Stages] /\ Asked' = Asked /\ \A o \in Queries \ Asked : pc'[o] = "idle"
    BY <1>1, <1>2 DEF ReadVersion, Asked, Stages
  <2>2. kept' \in [Queries -> SUBSET Rows]
    BY <1>2, StoredType DEF ReadVersion
  <2>3. seen' \in [Queries -> Nat] /\ disturbed' \subseteq Queries
    BY <1>2, VersionsType DEF ReadVersion
  <2>4. QED
    BY <1>2, <2>1, <2>2, <2>3 DEF ReadVersion, graphVars, indexVars
<1>3. ASSUME NEW q \in Queries, CheckFts(q) PROVE HybridTypeOK'
  <2>1. disturbed' \subseteq Queries /\ Asked' = Asked
    BY <1>1, <1>3 DEF CheckFts, Asked
  <2>2. pc' \in [Queries -> Stages] /\ \A o \in Queries \ Asked : pc'[o] = "idle"
    BY <1>1, <1>3 DEF CheckFts, Stages
  <2>3. QED
    BY <1>3, <2>1, <2>2 DEF CheckFts, graphVars, indexVars
<1>4. ASSUME NEW q \in Queries, ClearFts(q) PROVE HybridTypeOK'
  <2>1. /\ fts' \in [Rows -> 0..CopyBound] /\ intact' \in BOOLEAN
        /\ disturbed' \subseteq Queries
    BY <1>4 DEF ClearFts, CopyBound
  <2>2. pc' \in [Queries -> Stages] /\ Asked' = Asked /\ \A o \in Queries \ Asked : pc'[o] = "idle"
    BY <1>1, <1>4 DEF ClearFts, Asked, Stages
  <2>3. QED
    BY <1>4, <2>1, <2>2 DEF ClearFts, graphVars
<1>5. ASSUME NEW q \in Queries, SelectTexts(q) PROVE HybridTypeOK'
  <2>1. pc' \in [Queries -> Stages] /\ Asked' = Asked /\ \A o \in Queries \ Asked : pc'[o] = "idle"
    BY <1>1, <1>5 DEF SelectTexts, Asked, Stages
  <2>2. rows' \in [Queries -> SUBSET Rows]
    BY <1>5, StoredType DEF SelectTexts
  <2>3. QED
    BY <1>5, <2>1, <2>2 DEF SelectTexts, graphVars, indexVars, history
<1>6. ASSUME NEW q \in Queries, InsertRow(q) PROVE HybridTypeOK'
  <2>1. ASSUME NEW r \in rows[q],
               fts' = [fts EXCEPT ![r] = LeastOf(CopyBound, @ + 1)], rows' = [rows EXCEPT ![q] = @ \ {r}]
        PROVE  fts' \in [Rows -> 0..CopyBound] /\ rows' \in [Queries -> SUBSET Rows]
    <3>1. r \in Rows /\ fts[r] \in 0..CopyBound
      OBVIOUS
    <3>2. LeastOf(CopyBound, fts[r] + 1) \in 0..CopyBound
      BY <3>1 DEF LeastOf, CopyBound
    <3>3. QED
      BY <2>1, <3>1, <3>2
  <2>2. fts' \in [Rows -> 0..CopyBound] /\ rows' \in [Queries -> SUBSET Rows]
    BY <1>6, <2>1 DEF InsertRow
  <2>3. pc' \in [Queries -> Stages] /\ Asked' = Asked /\ \A o \in Queries \ Asked : pc'[o] = "idle"
    BY <1>1, <1>6 DEF InsertRow, Asked, Stages
  <2>4. QED
    BY <1>6, <2>2, <2>3 DEF InsertRow, graphVars, history
<1>7. ASSUME NEW q \in Queries, StampFts(q) PROVE HybridTypeOK'
  <2>1. lists' \in [Queries -> Lists] /\ ftsVersion' \in Nat
    <3>1. CASE pc[q] = "version"
      <4>1. PICK v \in GraphVersions :
                lists' = [lists EXCEPT ![q] = [@ EXCEPT !.stamp = v]] /\ ftsVersion' = ftsVersion
        BY <1>7, <3>1 DEF StampFts
      <4>2. [lists[q] EXCEPT !.stamp = v] \in Lists
        BY VersionsType DEF Lists
      <4>3. lists \in [Queries -> Lists] /\ ftsVersion \in Nat
        OBVIOUS
      <4>4. QED
        BY <4>1, <4>2, <4>3
    <3>2. CASE pc[q] = "stamp"
      BY <1>7, <3>2 DEF StampFts, Lists
    <3>3. QED
      BY <1>7, <3>1, <3>2 DEF StampFts
  <2>2. pc' \in [Queries -> Stages] /\ Asked' = Asked /\ \A o \in Queries \ Asked : pc'[o] = "idle"
    BY <1>1, <1>7 DEF StampFts, Asked, Stages
  <2>3. QED
    BY <1>7, <2>1, <2>2 DEF StampFts, graphVars, history
<1>8. ASSUME NEW q \in Queries, CheckRank(q) PROVE HybridTypeOK'
  <2>1. pc' \in [Queries -> Stages] /\ Asked' = Asked /\ \A o \in Queries \ Asked : pc'[o] = "idle"
    BY <1>1, <1>8 DEF CheckRank, Asked, Stages
  <2>2. ranked' \subseteq Urls /\ rankVersion' \in Nat
    BY <1>8, VersionsType DEF CheckRank
  <2>3. QED
    BY <1>8, <2>1, <2>2 DEF CheckRank, graphVars, history
<1>9. ASSUME NEW q \in Queries, MatchTexts(q) PROVE HybridTypeOK'
  <2>1. Bm25Search(q) \in Seq(Urls) /\ Cardinality(MatchingRows(q)) \in Nat
    BY Bm25Matches
  <2>2. lists' \in [Queries -> Lists]
    <3>1. lists' = [lists EXCEPT ![q] = [@ EXCEPT !.bm25 = Bm25Search(q),
                                                  !.matched = Cardinality(MatchingRows(q))]]
      BY <1>9 DEF MatchTexts
    <3>2. [lists[q] EXCEPT !.bm25 = Bm25Search(q), !.matched = Cardinality(MatchingRows(q))] \in Lists
      BY <2>1 DEF Lists
    <3>3. QED
      BY <3>1, <3>2
  <2>3. pc' \in [Queries -> Stages] /\ Asked' = Asked /\ \A o \in Queries \ Asked : pc'[o] = "idle"
    BY <1>1, <1>9 DEF MatchTexts, Asked, Stages
  <2>4. QED
    BY <1>9, <2>2, <2>3 DEF MatchTexts, graphVars, indexVars, history
<1>10. ASSUME NEW q \in Queries, CompareEmbeddings(q) PROVE HybridTypeOK'
  <2>1. VectorSearch(q) \in Seq(Urls)
    <3>1. Nearness[q] \in [Urls -> Nat]
      BY HybridSearchAssumption
    <3>2. QED
      BY <3>1, ByMostType DEF VectorSearch
  <2>2. lists' \in [Queries -> Lists]
    BY <1>10, <2>1 DEF CompareEmbeddings, Lists
  <2>3. pc' \in [Queries -> Stages] /\ Asked' = Asked /\ \A o \in Queries \ Asked : pc'[o] = "idle"
    BY <1>1, <1>10 DEF CompareEmbeddings, Asked, Stages
  <2>4. QED
    BY <1>10, <2>2, <2>3 DEF CompareEmbeddings, graphVars, indexVars, history
<1>11. ASSUME NEW q \in Queries, ReadCentral(q) PROVE HybridTypeOK'
  <2>1. ByMost(Authority, ranked) \in Seq(Urls)
    <3>1. Authority \in [Urls -> Nat]
      BY HybridSearchAssumption
    <3>2. QED
      BY <3>1, ByMostType
  <2>2. lists' \in [Queries -> Lists]
    BY <1>11, <2>1 DEF ReadCentral, Lists
  <2>3. pc' \in [Queries -> Stages] /\ Asked' = Asked /\ \A o \in Queries \ Asked : pc'[o] = "idle"
    BY <1>1, <1>11 DEF ReadCentral, Asked, Stages
  <2>4. QED
    BY <1>11, <2>2, <2>3 DEF ReadCentral, graphVars, indexVars, history
<1>12. ASSUME NEW q \in Queries, Answer(q) PROVE HybridTypeOK'
  <2>1. PICK hits \in Hybrids(lists[q], Newest) : answer' = [answer EXCEPT ![q] = hits]
    BY <1>12 DEF Answer
  <2>2. Candidates(lists[q]) \subseteq Urls
    BY DEF Candidates, ToSet, Lists
  <2>3. hits \in Seq(Urls)
    BY <2>2, HybridsFit
  <2>4. answer' \in [Queries -> Seq(Urls)]
    BY <2>1, <2>3
  <2>5. pc' \in [Queries -> Stages] /\ Asked' = Asked /\ \A o \in Queries \ Asked : pc'[o] = "idle"
    BY <1>1, <1>12 DEF Answer, Asked, Stages
  <2>6. QED
    BY <1>12, <2>4, <2>5 DEF Answer, graphVars, indexVars, history
<1>13. ASSUME NEW q \in Queries, Fail(q) PROVE HybridTypeOK'
  <2>1. lists' \in [Queries -> Lists]
    BY <1>13 DEF Fail, NoLists, Lists
  <2>2. pc' \in [Queries -> Stages] /\ Asked' = Asked /\ \A o \in Queries : pc'[o] = "idle"
    BY <1>13 DEF Fail, Asked, Stages
  <2>3. /\ seen' \in [Queries -> Nat] /\ rows' \in [Queries -> SUBSET Rows]
        /\ answer' \in [Queries -> Seq(Urls)]
    BY <1>13 DEF Fail
  <2>4. QED
    BY <1>13, <2>1, <2>2, <2>3 DEF Fail, graphVars, indexVars, history
<1>14. CASE Respond
  BY <1>14 DEF Respond, graphVars, indexVars, queryVars, history, Asked
<1>15. ASSUME NEW t \in Texts, NEW u \in Urls, StoreText(t, u) PROVE HybridTypeOK'
  <2>1. kept' \in [Queries -> SUBSET Rows] /\ intact' \in BOOLEAN
    BY <1>15 DEF StoreText
  <2>2. QED
    BY <1>15, <2>1 DEF StoreText, indexVars, queryVars, Asked
<1>16. ASSUME NEW u \in Urls, Embed(u) PROVE HybridTypeOK'
  BY <1>16 DEF Embed, indexVars, queryVars, history, Asked
<1>17. CASE Touch
  BY <1>17 DEF Touch, indexVars, queryVars, history, Asked
<1>18. CASE UNCHANGED hybridVars
  BY <1>18 DEF hybridVars, graphVars, indexVars, queryVars, history, Asked
<1> HIDE DEF HybridTypeOK
<1>19. QED
  BY <1>2, <1>3, <1>4, <1>5, <1>6, <1>7, <1>8, <1>9, <1>10, <1>11, <1>12, <1>13, <1>14, <1>15,
     <1>16, <1>17, <1>18 DEF HybridNext, Search

\* The state of searches side by side is of its type, whatever the crawl writes.
THEOREM HybridTypeCorrect == HybridSpec => []HybridTypeOK
BY HybridTypeInit, HybridTypeKept, PTL DEF HybridSpec

-----------------------------------------------------------------------------
(* The indexes *)

Indexed == {r \in Rows : fts[r] > 0}

\* What has been read is of the past.
PastVersions ==
    /\ version >= 2 /\ ftsVersion <= version
    /\ \A q \in Asked : seen[q] <= version /\ lists[q].stamp <= version
    /\ \A q \in Asked \ disturbed : pc[q] = "check" => seen[q] >= 2

\* Until a search has matched its query, what it counts on is stored.
KeptStored == \A q \in Asked : Pending(q) => kept[q] \subseteq Stored(content)

\* What is in the index, or will be when the searches that copy texts have done so.
Coming == Indexed \cup UNION {rows[o] : o \in {q \in Asked : pc[q] = "insert"}}

\* An intact index has, or will have once the rebuilds that run are over, the texts of the
\* graph if it claims their version or is about to, and all that a search that read this
\* version counts on; one that was just cleared will have them whatever it claims.
IntactIndex ==
    /\ intact
    /\ \E q \in Asked : pc[q] \in {"start", "check"}
    /\ \A o \in Asked : pc[o] # "select"
    =>
    /\ \/ ftsVersion = version
       \/ \E o \in Asked : \/ pc[o] \in {"insert", "version"}
                           \/ pc[o] = "stamp" /\ lists[o].stamp = version
       => Stored(content) \subseteq Coming
    /\ \A q \in Asked \ disturbed :
           /\ pc[q] = "check"
           /\ \/ seen[q] = ftsVersion
              \/ \E o \in Asked : pc[o] = "stamp" /\ lists[o].stamp = seen[q]
           => kept[q] \subseteq Coming

\* What a search that was not disturbed counts on is in the index when it looks there.
OwnIndex ==
    \A q \in Asked \ disturbed :
        /\ pc[q] = "insert" => kept[q] \subseteq Indexed \cup rows[q]
        /\ pc[q] \in {"version", "stamp", "checkRank", "bm25"} => kept[q] \subseteq Indexed

\* And then among its matches, if all have room there.
Matched ==
    \A q \in Asked \ disturbed : pc[q] \in {"vector", "central", "newest"} =>
        \A r \in kept[q] : r[1] \in Matching[q] =>
            r[2] \in ToSet(lists[q].bm25) \/ lists[q].matched > Limit

SearchInv ==
    /\ PastVersions /\ KeptStored /\ IntactIndex /\ OwnIndex /\ Matched /\ MatchesFound

\* A step of one search, from one stage to another.
Moves(q, from, to) ==
    /\ q \in Asked /\ pc[q] \in from /\ pc'[q] = to
    /\ \A o \in Asked \ {q} : pc'[o] = pc[o]
    /\ Asked' = Asked

LEMMA SearchInit == HybridInit => SearchInv
<1> SUFFICES ASSUME HybridInit PROVE SearchInv
  OBVIOUS
<1>1. HybridTypeOK
  BY HybridTypeInit
<1>2. \A q \in Asked : q \in Queries /\ pc[q] = "start" /\ seen[q] = 0 /\ lists[q].stamp = 0
  BY <1>1 DEF HybridInit, HybridTypeOK, NoLists
<1>3. /\ version = 2 /\ ftsVersion \in {1, 2}
      /\ intact /\ ftsVersion = 2 => Stored(content) \subseteq Indexed
  <2>1. PICK had \in SUBSET Stored(content), stamped \in BOOLEAN :
            /\ fts = [r \in Rows |-> IF r \in had THEN 1 ELSE 0]
            /\ ftsVersion = IF stamped THEN version ELSE 1
            /\ intact = (stamped => had = Stored(content))
    BY DEF HybridInit
  <2>2. version = 2
    BY DEF HybridInit
  <2>3. ASSUME had = Stored(content), NEW r \in Stored(content) PROVE r \in Indexed
    <3>1. r \in Rows
      BY StoredType
    <3>2. QED
      BY <2>1, <2>3, <3>1 DEF Indexed
  <2>4. ftsVersion \in {1, 2} /\ (ftsVersion = 2 => stamped)
    BY <2>1, <2>2
  <2>5. intact /\ stamped => had = Stored(content)
    BY <2>1, Zenon
  <2>6. QED
    BY <2>2, <2>3, <2>4, <2>5
<1>4. PastVersions
  BY <1>2, <1>3 DEF PastVersions
<1>5. IntactIndex
  BY <1>2, <1>3 DEF IntactIndex, Coming
<1>6. QED
  BY <1>2, <1>4, <1>5 DEF SearchInv, KeptStored, OwnIndex, Matched, MatchesFound, Pending, Rebuilding

\* What will be in the index stays so in a step that inserts or reads nothing.
LEMMA ComingStays ==
    ASSUME Asked' = Asked, Indexed' = Indexed, UNCHANGED rows,
           \A o \in Asked : pc'[o] = "insert" <=> pc[o] = "insert"
    PROVE  Coming' = Coming
BY DEF Coming

LEMMA ReadVersionKeeps ==
    ASSUME HybridTypeOK, SearchInv, NEW q \in Queries, ReadVersion(q)
    PROVE  SearchInv'
<1> USE DEF SearchInv
<1>1. Moves(q, {"start"}, "check")
  BY DEF ReadVersion, HybridTypeOK, Moves, Asked
<1>2. /\ seen'[q] \in Nat /\ seen'[q] <= version
      /\ disturbed \subseteq disturbed' /\ disturbed' \subseteq disturbed \cup {q}
      /\ q \notin disturbed' => seen'[q] = version
  <2>1. PICK v \in GraphVersions :
            /\ seen' = [seen EXCEPT ![q] = v]
            /\ disturbed' = IF v = version THEN disturbed ELSE disturbed \cup {q}
    BY DEF ReadVersion
  <2>2. v \in Nat /\ v <= version
    BY DEF GraphVersions, Misread, PastVersions, HybridTypeOK
  <2>3. QED
    BY <2>1, <2>2 DEF HybridTypeOK
<1>3. /\ kept'[q] = Stored(content)
      /\ \A o \in Asked \ {q} : seen'[o] = seen[o] /\ kept'[o] = kept[o]
      /\ Stored(content)' = Stored(content) /\ Indexed' = Indexed
      /\ UNCHANGED <<version, ftsVersion, rows, lists, answer, intact>>
  BY DEF ReadVersion, HybridTypeOK, graphVars, indexVars, Stored, Indexed
<1>4. PastVersions'
  BY <1>1, <1>2, <1>3 DEF PastVersions, Moves
<1>5. KeptStored'
  BY <1>1, <1>3 DEF KeptStored, Moves, Pending, Rebuilding
<1>6. IntactIndex'
  <2>1. Coming' = Coming
    BY <1>1, <1>3, ComingStays DEF Moves
  <2>2. QED
    BY <1>1, <1>2, <1>3, <2>1 DEF IntactIndex, Moves
<1>7. OwnIndex'
  BY <1>1, <1>2, <1>3 DEF OwnIndex, Moves
<1>8. Matched' /\ MatchesFound'
  BY <1>1, <1>2, <1>3 DEF Matched, MatchesFound, Moves
<1>9. QED
  BY <1>4, <1>5, <1>6, <1>7, <1>8

LEMMA CheckFtsKeeps ==
    ASSUME HybridTypeOK, SearchInv, NEW q \in Queries, CheckFts(q)
    PROVE  SearchInv'
<1> USE DEF SearchInv
<1>1. /\ Moves(q, {"check"}, "checkRank") \/ Moves(q, {"check"}, "clear")
      /\ disturbed \subseteq disturbed'
  BY DEF CheckFts, HybridTypeOK, Moves, Asked
<1>2. /\ Stored(content)' = Stored(content) /\ Indexed' = Indexed
      /\ UNCHANGED <<version, ftsVersion, seen, rows, lists, answer, kept, intact>>
  BY DEF CheckFts, graphVars, indexVars, Stored, Indexed
<1>3. ASSUME q \notin disturbed', pc'[q] = "checkRank" PROVE kept[q] \subseteq Indexed
  <2>1. seen[q] >= 2 /\ q \in Asked \ disturbed /\ pc[q] = "check"
    BY <1>1, <1>3 DEF PastVersions, Moves
  <2>2. PICK stamp \in {ftsVersion} \cup Misread(0) :
            \/ /\ stamp = seen[q]
               /\ disturbed' = IF intact /\ \A o \in Asked : ~Rebuilding(o) THEN disturbed
                               ELSE disturbed \cup {q}
            \/ pc'[q] = "clear"
    BY DEF CheckFts, HybridTypeOK
  <2>3. stamp = seen[q] /\ intact /\ \A o \in Asked : ~Rebuilding(o)
    BY <1>3, <2>2
  <2>4. stamp = ftsVersion
    BY <2>1, <2>2, <2>3 DEF Misread
  <2>5. Coming = Indexed
    BY <2>3 DEF Coming, Rebuilding
  <2>6. QED
    BY <2>1, <2>3, <2>4, <2>5 DEF IntactIndex, Rebuilding
<1>4. PastVersions'
  BY <1>1, <1>2 DEF PastVersions, Moves
<1>5. KeptStored'
  BY <1>1, <1>2 DEF KeptStored, Moves, Pending, Rebuilding
<1>6. IntactIndex'
  <2>1. Coming' = Coming
    BY <1>1, <1>2, ComingStays DEF Moves
  <2>2. QED
    BY <1>1, <1>2, <2>1 DEF IntactIndex, Moves
<1>7. OwnIndex'
  BY <1>1, <1>2, <1>3 DEF OwnIndex, Moves
<1>8. Matched' /\ MatchesFound'
  BY <1>1, <1>2 DEF Matched, MatchesFound, Moves
<1>9. QED
  BY <1>4, <1>5, <1>6, <1>7, <1>8

\* Whoever relied on the index is disturbed.
LEMMA ClearFtsKeeps ==
    ASSUME HybridTypeOK, SearchInv, NEW q \in Queries, ClearFts(q)
    PROVE  SearchInv'
<1> USE DEF SearchInv
<1>1. Moves(q, {"clear"}, "select")
  BY DEF ClearFts, HybridTypeOK, Moves, Asked
<1>2. /\ Stored(content)' = Stored(content)
      /\ disturbed \subseteq disturbed'
      /\ \A o \in Asked \ {q} : Relying(o) => o \in disturbed'
      /\ UNCHANGED <<version, ftsVersion, seen, rows, lists, answer, kept>>
  BY DEF ClearFts, graphVars, Stored
<1>3. PastVersions'
  BY <1>1, <1>2 DEF PastVersions, Moves
<1>4. KeptStored'
  BY <1>1, <1>2 DEF KeptStored, Moves, Pending, Rebuilding
<1>5. IntactIndex'
  BY <1>1 DEF IntactIndex, Moves
<1>6. OwnIndex'
  BY <1>1, <1>2 DEF OwnIndex, Moves, Relying
<1>7. Matched' /\ MatchesFound'
  BY <1>1, <1>2 DEF Matched, MatchesFound, Moves
<1>8. QED
  BY <1>3, <1>4, <1>5, <1>6, <1>7

LEMMA SelectTextsKeeps ==
    ASSUME HybridTypeOK, SearchInv, NEW q \in Queries, SelectTexts(q)
    PROVE  SearchInv'
<1> USE DEF SearchInv
<1>1. Moves(q, {"select"}, "insert")
  BY DEF SelectTexts, HybridTypeOK, Moves, Asked
<1>2. /\ rows'[q] = Stored(content) /\ \A o \in Asked \ {q} : rows'[o] = rows[o]
      /\ Stored(content)' = Stored(content) /\ Indexed' = Indexed
      /\ UNCHANGED <<version, ftsVersion, seen, lists, answer, kept, disturbed, intact>>
  BY DEF SelectTexts, HybridTypeOK, graphVars, indexVars, history, Stored, Indexed
<1>3. PastVersions'
  BY <1>1, <1>2 DEF PastVersions, Moves
<1>4. KeptStored'
  BY <1>1, <1>2 DEF KeptStored, Moves, Pending, Rebuilding
<1>5. IntactIndex'
  <2>1. Stored(content)' \subseteq Coming'
    BY <1>1, <1>2 DEF Coming, Moves
  <2>2. \A o \in Asked : pc'[o] = "check" => kept'[o] \subseteq Coming'
    BY <1>1, <2>1, <1>4 DEF KeptStored, Pending, Moves
  <2>3. QED
    BY <1>1, <2>1, <2>2 DEF IntactIndex, Moves
<1>6. OwnIndex'
  BY <1>1, <1>2 DEF OwnIndex, Moves, KeptStored, Pending, Rebuilding
<1>7. Matched' /\ MatchesFound'
  BY <1>1, <1>2 DEF Matched, MatchesFound, Moves
<1>8. QED
  BY <1>3, <1>4, <1>5, <1>6, <1>7

\* A row leaves those that a search has yet to insert when it is in the index.
LEMMA InsertRowKeeps ==
    ASSUME HybridTypeOK, SearchInv, NEW q \in Queries, InsertRow(q)
    PROVE  SearchInv'
<1> USE DEF SearchInv
<1>1. \/ Moves(q, {"insert"}, "insert")
      \/ Moves(q, {"insert"}, "version") /\ rows[q] = {}
  BY DEF InsertRow, HybridTypeOK, Moves, Asked
<1>2. /\ Stored(content)' = Stored(content)
      /\ UNCHANGED <<version, ftsVersion, seen, lists, answer, kept, disturbed, intact>>
  BY DEF InsertRow, graphVars, history, Stored
<1>3. /\ Indexed \subseteq Indexed'
      /\ rows[q] \subseteq Indexed' \cup rows'[q]
      /\ \A o \in Asked \ {q} : rows'[o] = rows[o]
  <2>1. ASSUME NEW r \in rows[q],
               fts' = [fts EXCEPT ![r] = LeastOf(CopyBound, @ + 1)], rows' = [rows EXCEPT ![q] = @ \ {r}]
        PROVE  /\ Indexed \subseteq Indexed' /\ rows[q] \subseteq Indexed' \cup rows'[q]
               /\ \A o \in Asked \ {q} : rows'[o] = rows[o]
    <3>1. r \in Rows /\ fts[r] \in 0..CopyBound
      BY DEF HybridTypeOK
    <3>2. LeastOf(CopyBound, fts[r] + 1) > 0
      BY <3>1 DEF LeastOf, CopyBound
    <3>3. fts'[r] > 0 /\ \A o \in Rows : fts[o] > 0 => fts'[o] > 0
      BY <2>1, <3>1, <3>2 DEF HybridTypeOK
    <3>4. QED
      BY <2>1, <3>1, <3>3 DEF Indexed, HybridTypeOK
  <2>2. CASE fts' = fts /\ rows' = rows
    BY <2>2 DEF Indexed
  <2>3. QED
    BY <2>1, <2>2 DEF InsertRow
<1>4. PastVersions'
  BY <1>1, <1>2 DEF PastVersions, Moves
<1>5. KeptStored'
  BY <1>1, <1>2 DEF KeptStored, Moves, Pending, Rebuilding
<1>6. IntactIndex'
  <2>1. Coming \subseteq Coming'
    <3>1. ASSUME NEW o \in Asked, pc[o] = "insert" PROVE rows[o] \subseteq Coming'
      BY <1>1, <1>3, <3>1 DEF Coming, Moves
    <3>2. QED
      BY <1>3, <3>1 DEF Coming
  <2>2. QED
    BY <1>1, <1>2, <2>1 DEF IntactIndex, Moves
<1>7. OwnIndex'
  BY <1>1, <1>2, <1>3 DEF OwnIndex, Moves
<1>8. Matched' /\ MatchesFound'
  BY <1>1, <1>2 DEF Matched, MatchesFound, Moves
<1>9. QED
  BY <1>4, <1>5, <1>6, <1>7, <1>8

\* The version that a search stamps is that of the texts it has inserted, or 1.
LEMMA StampFtsKeeps ==
    ASSUME HybridTypeOK, SearchInv, NEW q \in Queries, StampFts(q)
    PROVE  SearchInv'
<1> USE DEF SearchInv
<1>1. \/ /\ Moves(q, {"version"}, "stamp") /\ ftsVersion' = ftsVersion
         /\ lists'[q].stamp \in GraphVersions /\ lists'[q].bm25 = lists[q].bm25
         /\ lists'[q].matched = lists[q].matched
         /\ \A o \in Asked \ {q} : lists'[o] = lists[o]
      \/ Moves(q, {"stamp"}, "checkRank") /\ ftsVersion' = lists[q].stamp /\ lists' = lists
  BY DEF StampFts, HybridTypeOK, Moves, Asked, Lists
<1>2. /\ Stored(content)' = Stored(content) /\ Indexed' = Indexed
      /\ UNCHANGED <<version, seen, rows, answer, kept, disturbed, intact>>
  BY DEF StampFts, graphVars, history, Stored, Indexed
<1>3. version \in Nat /\ version >= 2 /\ \A v \in GraphVersions : v = version \/ v = 1
  BY DEF HybridTypeOK, PastVersions, GraphVersions, Misread
<1>4. PastVersions'
  BY <1>1, <1>2, <1>3 DEF PastVersions, Moves
<1>5. KeptStored'
  BY <1>1, <1>2 DEF KeptStored, Moves, Pending, Rebuilding
<1>6. IntactIndex'
  <2>1. Coming' = Coming
    BY <1>1, <1>2, ComingStays DEF Moves
  <2>2. CASE pc[q] = "stamp"
    BY <1>1, <1>2, <2>1, <2>2 DEF IntactIndex, Moves
  <2>3. CASE pc[q] = "version"
    <3> SUFFICES ASSUME intact', \E o \in Asked : pc'[o] \in {"start", "check"},
                        \A o \in Asked : pc'[o] # "select"
                 PROVE  /\ Stored(content)' \subseteq Coming'
                        /\ \A o \in Asked \ disturbed :
                               /\ pc'[o] = "check"
                               /\ \/ seen'[o] = ftsVersion'
                                  \/ \E e \in Asked : pc'[e] = "stamp" /\ lists'[e].stamp = seen'[o]
                               => kept'[o] \subseteq Coming'
      BY <1>1, <1>2 DEF IntactIndex, Moves
    <3>1. Stored(content) \subseteq Coming
      BY <1>1, <1>2, <2>3 DEF IntactIndex, Moves
    <3>2. \A o \in Asked : pc'[o] = "check" => kept'[o] \subseteq Coming'
      BY <1>1, <1>2, <1>5, <2>1, <3>1 DEF KeptStored, Pending, Moves
    <3>3. QED
      BY <1>2, <2>1, <3>1, <3>2
  <2>4. QED
    BY <1>1, <2>2, <2>3 DEF Moves
<1>7. OwnIndex'
  BY <1>1, <1>2 DEF OwnIndex, Moves
<1>8. Matched' /\ MatchesFound'
  BY <1>1, <1>2 DEF Matched, MatchesFound, Moves
<1>9. QED
  BY <1>4, <1>5, <1>6, <1>7, <1>8

LEMMA CheckRankKeeps ==
    ASSUME HybridTypeOK, SearchInv, NEW q \in Queries, CheckRank(q)
    PROVE  SearchInv'
<1> USE DEF SearchInv
<1>1. Moves(q, {"checkRank"}, "bm25")
  BY DEF CheckRank, HybridTypeOK, Moves, Asked
<1>2. /\ Stored(content)' = Stored(content) /\ Indexed' = Indexed
      /\ UNCHANGED <<version, ftsVersion, seen, rows, lists, answer, kept, disturbed, intact>>
  BY DEF CheckRank, graphVars, history, Stored, Indexed
<1>3. PastVersions'
  BY <1>1, <1>2 DEF PastVersions, Moves
<1>4. KeptStored'
  BY <1>1, <1>2 DEF KeptStored, Moves, Pending, Rebuilding
<1>5. IntactIndex'
  <2>1. Coming' = Coming
    BY <1>1, <1>2, ComingStays DEF Moves
  <2>2. QED
    BY <1>1, <1>2, <2>1 DEF IntactIndex, Moves
<1>6. OwnIndex'
  BY <1>1, <1>2 DEF OwnIndex, Moves
<1>7. Matched' /\ MatchesFound'
  BY <1>1, <1>2 DEF Matched, MatchesFound, Moves
<1>8. QED
  BY <1>3, <1>4, <1>5, <1>6, <1>7

\* What a search that was not disturbed counts on is matched, and listed if there is room.
LEMMA KeptIsListed ==
    ASSUME HybridTypeOK, OwnIndex, NEW q \in Asked \ disturbed, pc[q] = "bm25",
           NEW r \in kept[q], r[1] \in Matching[q]
    PROVE  r[2] \in ToSet(Bm25Search(q)) \/ Cardinality(MatchingRows(q)) > Limit
<1>1. q \in Queries /\ r \in Indexed
  BY DEF HybridTypeOK, OwnIndex
<1>2. r[2] \in Urls /\ r = <<r[1], r[2]>> /\ fts[r] \in 0..CopyBound /\ fts[r] > 0
  BY <1>1 DEF Indexed, Rows, HybridTypeOK
<1>3. <<r[1], r[2], 1>> \in MatchingRows(q)
  BY <1>2 DEF MatchingRows, CopyBound
<1>4. <<r[1], r[2], 1>>[2] = r[2]
  OBVIOUS
<1>5. CASE Cardinality(MatchingRows(q)) <= Limit
  BY <1>1, <1>3, <1>4, <1>5, Bm25Matches
<1>6. CASE ~(Cardinality(MatchingRows(q)) <= Limit)
  <2>1. Cardinality(MatchingRows(q)) \in Nat /\ Limit \in Nat
    BY <1>1, Bm25Matches, HybridSearchAssumption
  <2>2. QED
    BY <1>6, <2>1
<1>7. QED
  BY <1>5, <1>6

LEMMA MatchTextsKeeps ==
    ASSUME HybridTypeOK, SearchInv, NEW q \in Queries, MatchTexts(q)
    PROVE  SearchInv'
<1> USE DEF SearchInv
<1>1. Moves(q, {"bm25"}, "vector")
  BY DEF MatchTexts, HybridTypeOK, Moves, Asked
<1>2. /\ Stored(content)' = Stored(content) /\ Indexed' = Indexed
      /\ UNCHANGED <<version, ftsVersion, seen, rows, answer, kept, disturbed, intact>>
  BY DEF MatchTexts, graphVars, indexVars, history, Stored, Indexed
<1>3. /\ lists'[q].bm25 = Bm25Search(q) /\ lists'[q].matched = Cardinality(MatchingRows(q))
      /\ lists'[q].stamp = lists[q].stamp
      /\ \A o \in Asked \ {q} : lists'[o] = lists[o]
  BY DEF MatchTexts, HybridTypeOK
<1>4. PastVersions'
  BY <1>1, <1>2, <1>3 DEF PastVersions, Moves
<1>5. KeptStored'
  BY <1>1, <1>2 DEF KeptStored, Moves, Pending, Rebuilding
<1>6. IntactIndex'
  <2>1. Coming' = Coming
    BY <1>1, <1>2, ComingStays DEF Moves
  <2>2. QED
    BY <1>1, <1>2, <1>3, <2>1 DEF IntactIndex, Moves
<1>7. OwnIndex'
  BY <1>1, <1>2 DEF OwnIndex, Moves
<1>8. Matched'
  <2>1. ASSUME q \notin disturbed, NEW r \in kept[q], r[1] \in Matching[q]
        PROVE  r[2] \in ToSet(lists'[q].bm25) \/ lists'[q].matched > Limit
    BY <1>1, <1>3, <2>1, KeptIsListed DEF Moves
  <2>2. QED
    BY <1>1, <1>2, <1>3, <2>1 DEF Matched, Moves
<1>9. MatchesFound'
  BY <1>1, <1>2, <1>3 DEF MatchesFound, Moves
<1>10. QED
  BY <1>4, <1>5, <1>6, <1>7, <1>8, <1>9

\* The steps of a search after it has matched its query.
LEMMA ReadingKeeps ==
    ASSUME HybridTypeOK, SearchInv, NEW q \in Queries, CompareEmbeddings(q) \/ ReadCentral(q)
    PROVE  SearchInv'
<1> USE DEF SearchInv
<1>1. \E to \in {"central", "newest"} : Moves(q, {"vector", "central"}, to)
  BY DEF CompareEmbeddings, ReadCentral, HybridTypeOK, Moves, Asked
<1>2. /\ Stored(content)' = Stored(content) /\ Indexed' = Indexed
      /\ UNCHANGED <<version, ftsVersion, seen, rows, answer, kept, disturbed, intact>>
  BY DEF CompareEmbeddings, ReadCentral, graphVars, indexVars, history, Stored, Indexed
<1>3. /\ lists'[q].bm25 = lists[q].bm25 /\ lists'[q].matched = lists[q].matched
      /\ lists'[q].stamp = lists[q].stamp
      /\ \A o \in Asked \ {q} : lists'[o] = lists[o]
  BY DEF CompareEmbeddings, ReadCentral, HybridTypeOK, Lists
<1>4. PastVersions'
  BY <1>1, <1>2, <1>3 DEF PastVersions, Moves
<1>5. KeptStored'
  BY <1>1, <1>2 DEF KeptStored, Moves, Pending, Rebuilding
<1>6. IntactIndex'
  <2>1. Coming' = Coming
    BY <1>1, <1>2, ComingStays DEF Moves
  <2>2. QED
    BY <1>1, <1>2, <1>3, <2>1 DEF IntactIndex, Moves
<1>7. OwnIndex'
  BY <1>1, <1>2 DEF OwnIndex, Moves
<1>8. Matched' /\ MatchesFound'
  BY <1>1, <1>2, <1>3 DEF Matched, MatchesFound, Moves
<1>9. QED
  BY <1>4, <1>5, <1>6, <1>7, <1>8

LEMMA AnswerKeeps ==
    ASSUME HybridTypeOK, SearchInv, NEW q \in Queries, Answer(q)
    PROVE  SearchInv'
<1> USE DEF SearchInv
<1>1. Moves(q, {"newest"}, "answered")
  BY DEF Answer, HybridTypeOK, Moves, Asked
<1>2. /\ Stored(content)' = Stored(content) /\ Indexed' = Indexed
      /\ UNCHANGED <<version, ftsVersion, seen, rows, lists, kept, disturbed, intact>>
  BY DEF Answer, graphVars, indexVars, history, Stored, Indexed
<1>3. /\ Len(answer'[q]) = Limit \/ ToSet(lists[q].bm25) \subseteq ToSet(answer'[q])
      /\ \A o \in Asked \ {q} : answer'[o] = answer[o]
  <2>1. PICK hits \in Hybrids(lists[q], Newest) : answer' = [answer EXCEPT ![q] = hits]
    BY DEF Answer
  <2>2. Candidates(lists[q]) \subseteq Urls
    BY DEF Candidates, ToSet, HybridTypeOK, Lists
  <2>3. Len(hits) = Limit \/ ToSet(hits) = Candidates(lists[q])
    BY <2>2, HybridsFit
  <2>4. answer'[q] = hits /\ \A o \in Asked \ {q} : answer'[o] = answer[o]
    BY <2>1 DEF HybridTypeOK
  <2>5. QED
    BY <2>3, <2>4 DEF Candidates
<1>4. PastVersions'
  BY <1>1, <1>2 DEF PastVersions, Moves
<1>5. KeptStored'
  BY <1>1, <1>2 DEF KeptStored, Moves, Pending, Rebuilding
<1>6. IntactIndex'
  <2>1. Coming' = Coming
    BY <1>1, <1>2, ComingStays DEF Moves
  <2>2. QED
    BY <1>1, <1>2, <1>3, <2>1 DEF IntactIndex, Moves
<1>7. OwnIndex'
  BY <1>1, <1>2 DEF OwnIndex, Moves
<1>8. Matched'
  BY <1>1, <1>2 DEF Matched, Moves
<1>9. MatchesFound'
  BY <1>1, <1>2, <1>3 DEF Matched, MatchesFound, Moves
<1>10. QED
  BY <1>4, <1>5, <1>6, <1>7, <1>8, <1>9

LEMMA FailKeeps ==
    ASSUME HybridTypeOK, SearchInv, NEW q \in Queries, Fail(q)
    PROVE  SearchInv'
<1> USE DEF SearchInv
<1>1. /\ Asked' = Asked /\ \A o \in Asked : pc'[o] = "idle" /\ seen'[o] = 0 /\ lists'[o].stamp = 0
      /\ UNCHANGED <<version, ftsVersion>>
  BY DEF Fail, graphVars, indexVars, HybridTypeOK, Asked, NoLists
<1>2. PastVersions'
  BY <1>1 DEF PastVersions, HybridTypeOK
<1>3. QED
  BY <1>1, <1>2 DEF KeptStored, IntactIndex, OwnIndex, Matched, MatchesFound, Pending, Rebuilding

\* A write of the crawl: it stores r in place of what had the text of r.
LEMMA StoreTextKeeps ==
    ASSUME HybridTypeOK, SearchInv, NEW t \in Texts, NEW u \in Urls, StoreText(t, u)
    PROVE  SearchInv'
<1> USE DEF SearchInv
<1>1. /\ version' = version + 1 /\ version \in Nat
      /\ Asked' = Asked /\ Indexed' = Indexed /\ Asked \subseteq Queries
      /\ UNCHANGED <<ftsVersion, pc, seen, rows, lists, answer, disturbed>>
  BY DEF StoreText, HybridTypeOK, indexVars, queryVars, Asked, Indexed
<1>2. \A q \in Asked : /\ kept'[q] \subseteq kept[q]
                       /\ Pending(q) => kept'[q] = {r \in kept[q] : r[1] # t \/ r[2] = u}
  BY <1>1 DEF StoreText
<1>3. intact' => intact /\ \A q \in Asked : pc[q] \notin {"insert", "version"}
  BY DEF StoreText
<1>4. ASSUME NEW r \in Stored(content), r[1] # t \/ r[2] = u PROVE r \in Stored(content)'
  <2>1. r \in Rows /\ r[1] \in Texts /\ content[r[1]] = r[2]
    BY DEF Stored, Rows
  <2>2. content'[r[1]] = r[2]
    BY <1>4, <2>1 DEF StoreText, HybridTypeOK
  <2>3. QED
    BY <2>1, <2>2 DEF Stored
<1>5. \A q \in Asked : /\ seen[q] \in Nat /\ seen[q] <= version
                       /\ lists[q].stamp \in Nat /\ lists[q].stamp <= version
  BY <1>1 DEF PastVersions, HybridTypeOK, Lists
<1>6. ftsVersion \in Nat /\ ftsVersion <= version
  BY DEF PastVersions, HybridTypeOK
<1>7. PastVersions'
  BY <1>1, <1>5, <1>6 DEF PastVersions
<1>8. KeptStored'
  BY <1>1, <1>2, <1>4 DEF KeptStored, Pending, Rebuilding
<1>9. IntactIndex'
  <2>1. Coming' = Coming
    BY <1>1, ComingStays
  <2>2. \A q \in Asked : lists[q].stamp # version' /\ ftsVersion # version'
    BY <1>1, <1>5, <1>6
  <2>3. QED
    BY <1>1, <1>2, <1>3, <2>1, <2>2 DEF IntactIndex
<1>10. OwnIndex'
  BY <1>1, <1>2 DEF OwnIndex
<1>11. Matched' /\ MatchesFound'
  BY <1>1, <1>2 DEF Matched, MatchesFound
<1>12. QED
  BY <1>7, <1>8, <1>9, <1>10, <1>11

\* Other writes change the version at most.
LEMMA OthersKeep ==
    ASSUME HybridTypeOK, SearchInv,
           Respond \/ Touch \/ (\E u \in Urls : Embed(u)) \/ UNCHANGED hybridVars
    PROVE  SearchInv'
<1> USE DEF SearchInv
<1>1. /\ version' \in {version, version + 1} /\ version \in Nat
      /\ Asked' = Asked /\ Indexed' = Indexed /\ Stored(content)' = Stored(content)
      /\ UNCHANGED <<ftsVersion, pc, seen, rows, lists, answer, kept, disturbed, intact>>
  BY DEF Respond, Touch, Embed, hybridVars, graphVars, indexVars, queryVars, history, HybridTypeOK,
     Asked, Indexed, Stored
<1>2. \A q \in Asked : /\ seen[q] \in Nat /\ seen[q] <= version
                       /\ lists[q].stamp \in Nat /\ lists[q].stamp <= version
  BY <1>1 DEF PastVersions, HybridTypeOK, Lists
<1>3. ftsVersion \in Nat /\ ftsVersion <= version
  BY DEF PastVersions, HybridTypeOK
<1>4. PastVersions'
  BY <1>1, <1>2, <1>3 DEF PastVersions
<1>5. KeptStored'
  BY <1>1 DEF KeptStored, Pending, Rebuilding
<1>6. IntactIndex'
  <2>1. Coming' = Coming
    BY <1>1, ComingStays
  <2>2. version' = version \/ \A q \in Asked : lists[q].stamp # version' /\ ftsVersion # version'
    BY <1>1, <1>2, <1>3
  <2>3. QED
    BY <1>1, <2>1, <2>2 DEF IntactIndex
<1>7. OwnIndex' /\ Matched' /\ MatchesFound'
  BY <1>1 DEF OwnIndex, Matched, MatchesFound
<1>8. QED
  BY <1>4, <1>5, <1>6, <1>7

\* A page whose text matched and was stored from the start of a search is answered,
\* whatever the crawl writes and whatever index the request begins with, unless more was
\* found than there is room for, the search misread the version, trusted an index that was
\* not intact or was being rebuilt, or had the index cleared under it.  For any number of
\* searches side by side, an index that was cleared since the request began is right again
\* when all have inserted their texts, whichever of them stamps it.
THEOREM MatchesAlwaysFound == HybridSpec => []MatchesFound
<1>1. HybridTypeOK /\ SearchInv /\ [HybridNext]_hybridVars => SearchInv'
  BY ReadVersionKeeps, CheckFtsKeeps, ClearFtsKeeps, SelectTextsKeeps, InsertRowKeeps, StampFtsKeeps,
     CheckRankKeeps, MatchTextsKeeps, ReadingKeeps, AnswerKeeps, FailKeeps, StoreTextKeeps, OthersKeep
     DEF HybridNext, Search
<1>2. SearchInv => MatchesFound
  BY DEF SearchInv
<1>3. QED
  BY SearchInit, HybridTypeCorrect, <1>1, <1>2, PTL DEF HybridSpec

-----------------------------------------------------------------------------
(* The fused answer *)

\* The pages that the queries of a request have found.
FoundPages == {Canon[u] : u \in UNION {ToSet(answer[q]) : q \in Asked}}

LEMMA ResponsesFit ==
    ASSUME asked \in Seq(Queries), answer \in [Queries -> Seq(Urls)]
    PROVE  Fusible(Responses) /\ PagesOf(Responses) = FoundPages
<1> DEFINE n == Len(asked)
           R == Responses
<1>1. n \in Nat /\ DOMAIN asked = 1..n /\ Len(R) = n
  BY DEF Responses
<1>2. ASSUME NEW i \in 1..n
      PROVE  /\ asked[i] \in Queries /\ R[i].hits = answer[asked[i]] /\ R[i].weight = 1
             /\ answer[asked[i]] \in Seq(Urls)
  BY <1>1 DEF Responses
<1> HIDE DEF n, R
<1>3. \A i \in 1..Len(R) : R[i].hits \in Seq(Urls) /\ R[i].weight \in Int
  <2> SUFFICES ASSUME NEW i \in 1..Len(R)
               PROVE  R[i].hits \in Seq(Urls) /\ R[i].weight \in Int
    OBVIOUS
  <2>1. i \in 1..n
    BY <1>1
  <2>2. R[i].hits = answer[asked[i]] /\ answer[asked[i]] \in Seq(Urls) /\ R[i].weight = 1
    BY <1>2, <2>1
  <2>3. QED
    BY <2>2
<1>4. Fusible(R)
  BY <1>1, <1>3 DEF Fusible
<1>5. ASSUME NEW h \in Hits(R) PROVE Canon[h.url] \in FoundPages
  <2>1. PICK i \in 1..Len(R) : \E r \in 1..Len(R[i].hits) : h.url = R[i].hits[r]
    BY <1>4, HitTypes
  <2>2. PICK r \in 1..Len(R[i].hits) : h.url = R[i].hits[r]
    BY <2>1
  <2>3. i \in 1..n /\ R[i].hits = answer[asked[i]] /\ answer[asked[i]] \in Seq(Urls)
    BY <1>1, <1>2
  <2>4. h.url \in ToSet(answer[asked[i]])
    BY <2>2, <2>3 DEF ToSet
  <2>5. asked[i] \in Asked
    BY <1>1, <2>3 DEF Asked, ToSet
  <2>6. QED
    BY <2>4, <2>5 DEF FoundPages
<1>6. ASSUME NEW q \in Asked, NEW u \in ToSet(answer[q]) PROVE Canon[u] \in PagesOf(R)
  <2>1. PICK i \in 1..n : q = asked[i]
    BY <1>1 DEF Asked, ToSet
  <2>2. answer[q] \in Seq(Urls) /\ R[i].hits = answer[q] /\ i \in 1..Len(R)
    BY <1>1, <1>2, <2>1
  <2>3. PICK r \in 1..Len(answer[q]) : u = answer[q][r]
    <3> DEFINE a == answer[q]
    <3>1. a \in Seq(Urls) /\ u \in ToSet(a)
      BY <2>2
    <3> HIDE DEF a
    <3>2. \E r \in 1..Len(a) : u = a[r]
      BY <3>1 DEF ToSet
    <3>3. QED
      BY <3>2 DEF a
  <2>4. r \in 1..Len(R[i].hits) /\ u = R[i].hits[r]
    BY <2>2, <2>3
  <2>5. PICK h \in Hits(R) : h.url = R[i].hits[r]
    BY <1>4, <2>2, <2>4, HitTypes
  <2>6. QED
    BY <2>4, <2>5 DEF PagesOf
<1>7. PagesOf(R) \subseteq FoundPages
  BY <1>5 DEF PagesOf
<1>8. FoundPages \subseteq PagesOf(R)
  BY <1>6 DEF FoundPages
<1>9. QED
  BY <1>4, <1>7, <1>8 DEF R

\* Each page the queries have found is among the fused results once, if the limit allows.
LEMMA FusedResultsFit ==
    ASSUME asked \in Seq(Queries), answer \in [Queries -> Seq(Urls)]
    PROVE  LET shown == {Canon[u] : u \in ToSet(FusedResults)}
           IN  /\ shown \subseteq FoundPages
               /\ Cardinality(shown) = Len(FusedResults)
               /\ Len(FusedResults) = LeastOf(Limit, Cardinality(FoundPages))
<1> DEFINE R == Responses
           F == Fuse(R)
           s == ByScore(F)
           P == PagesOf(R)
           N == Cardinality(F)
           m == LeastOf(Limit, N)
           best == First(Limit, s)
<1>1. Fusible(R) /\ P = FoundPages
  BY ResponsesFit
<1> HIDE DEF R
<1>2. /\ IsFiniteSet(F) /\ IsFiniteSet(P)
      /\ F = {FusedPage(HitsOn(R, page)) : page \in P}
      /\ \A a, b \in F : Canon[a.url] = Canon[b.url] => a = b
  BY <1>1, FusedPages
<1>3. ASSUME NEW page \in P
      PROVE  /\ Canon[FusedPage(HitsOn(R, page)).url] = page
             /\ Canon[Shown(page)] = page
  <2>1. Canon[FusedPage(HitsOn(R, page)).url] = page
    BY <1>1, FusedPages
  <2>2. FusedPage(HitsOn(R, page)).url = Shown(page)
    BY DEF FusedPage, HitsOn, Shown, R
  <2>3. QED
    BY <2>1, <2>2
<1>4. ASSUME NEW f \in F PROVE Canon[f.url] \in P /\ Canon[Shown(Canon[f.url])] = Canon[f.url]
  <2>1. PICK page \in P : f = FusedPage(HitsOn(R, page))
    BY <1>2
  <2>2. QED
    BY <1>3, <2>1
<1>5. FusedHits(F)
  BY <1>1, FuseFits
<1>6. Arranges(s, F, ScoreOrder(F))
  BY <1>5, ByScoreArranges
<1> HIDE DEF F, s, P
<1>7. /\ N \in Nat /\ s \in [1..N -> F]
      /\ \A i, j \in 1..N : s[i] = s[j] => i = j
  BY <1>6 DEF Arranges
<1>8. N = Cardinality(P)
  <2> DEFINE r == [page \in P |-> FusedPage(HitsOn(R, page))]
  <2>1. F = {r[page] : page \in P}
    BY <1>2
  <2>2. \A i, j \in P : r[i] = r[j] => i = j
    BY <1>3
  <2> HIDE DEF r
  <2>3. IsFiniteSet(P)
    BY <1>2
  <2>4. (\A i, j \in P : r[i] = r[j] => i = j) => Cardinality({r[i] : i \in P}) = Cardinality(P)
    BY ONLY <2>3, FiniteImage
  <2>5. QED
    BY <2>1, <2>2, <2>4
<1> HIDE DEF N
<1>9. Limit \in Nat /\ m \in Nat /\ m <= N
  BY <1>7, HybridSearchAssumption DEF LeastOf
<1>10. Len(best) = m /\ \A i \in 1..m : best[i] = s[i]
  <2>1. s \in Seq(F) /\ Len(s) = N
    BY <1>7
  <2>2. /\ Len(First(Limit, s)) = LeastOf(Limit, Len(s))
        /\ \A i \in 1..LeastOf(Limit, Len(s)) : First(Limit, s)[i] = s[i]
    BY <1>9, <2>1, FirstType
  <2>3. QED
    BY <2>1, <2>2
<1>11. FusedResults = [i \in 1..m |-> Shown(Canon[best[i].url])]
  BY <1>10 DEF FusedResults, F, R, s
<1> HIDE DEF best, m
<1> DEFINE p == [i \in 1..m |-> Canon[s[i].url]]
<1>12. ASSUME NEW i \in 1..m
       PROVE  p[i] \in P /\ Canon[FusedResults[i]] = p[i] /\ i \in 1..N /\ s[i] \in F
  <2>1. i \in 1..N
    BY <1>7, <1>9
  <2>2. s[i] \in F
    BY <1>7, <2>1
  <2>3. FusedResults[i] = Shown(Canon[s[i].url])
    BY <1>10, <1>11
  <2>4. QED
    BY <1>4, <2>1, <2>2, <2>3
<1>13. \A i, j \in 1..m : p[i] = p[j] => i = j
  <2> SUFFICES ASSUME NEW i \in 1..m, NEW j \in 1..m, p[i] = p[j] PROVE i = j
    OBVIOUS
  <2>1. Canon[s[i].url] = Canon[s[j].url]
    OBVIOUS
  <2>2. i \in 1..N /\ j \in 1..N /\ s[i] \in F /\ s[j] \in F
    BY <1>12
  <2>3. s[i] = s[j]
    BY <1>2, <2>1, <2>2
  <2>4. QED
    BY <1>7, <2>2, <2>3
<1> DEFINE shown == {Canon[u] : u \in ToSet(FusedResults)}
<1>14. shown = {p[i] : i \in 1..m}
  <2>1. ToSet(FusedResults) = {FusedResults[i] : i \in 1..m}
    BY <1>11 DEF ToSet
  <2>2. shown = {Canon[FusedResults[i]] : i \in 1..m}
    BY <2>1
  <2> HIDE DEF p, shown
  <2>3. QED
    BY <1>12, <2>2
<1> HIDE DEF p
<1>15. IsFiniteSet(1..m) /\ Cardinality(1..m) = m
  BY <1>9, FS_Interval
<1>16. Cardinality(shown) = m
  <2> DEFINE D == 1..m
  <2>1. IsFiniteSet(D)
    BY <1>15
  <2>2. (\A i, j \in D : p[i] = p[j] => i = j) => Cardinality({p[i] : i \in D}) = Cardinality(D)
    <3> HIDE DEF D
    <3>1. QED
      BY ONLY <2>1, FiniteImage
  <2>3. QED
    BY <1>13, <1>14, <1>15, <2>2
<1>17. Len(FusedResults) = m
  BY <1>9, <1>11
<1>18. shown \subseteq FoundPages
  BY <1>1, <1>12, <1>14 DEF P
<1>19. m = LeastOf(Limit, Cardinality(FoundPages))
  BY <1>1, <1>8 DEF m, P
<1>20. QED
  BY <1>16, <1>17, <1>18, <1>19

\* What was responded is of answers that no search changes any more.
FusionInv ==
    /\ asked \in Seq(Queries)
    /\ response.status = "done" => \A q \in Asked : pc[q] = "answered"
    /\ FusionComplete

LEMMA FusionInit == HybridInit => FusionInv
<1> SUFFICES ASSUME HybridInit PROVE FusionInv
  OBVIOUS
<1>1. asked \in Seq(Queries)
  <2>1. PICK args \in Requests : asked = AllQueries(args)
    BY DEF HybridInit
  <2>2. QED
    BY <2>1, AllQueriesType
<1>2. response.status = "open"
  BY DEF HybridInit
<1>3. QED
  BY <1>1, <1>2 DEF FusionInv, FusionComplete

LEMMA RespondCompletes == ASSUME HybridTypeOK, FusionInv, Respond PROVE FusionInv'
<1>1. asked \in Seq(Queries) /\ answer \in [Queries -> Seq(Urls)]
  BY DEF FusionInv, HybridTypeOK
<1>2. /\ UNCHANGED <<asked, pc, answer>> /\ \A q \in Asked : pc[q] = "answered"
      /\ Len(asked) > 1 => response'.results = FusedResults
  <2>1. response' = [status |-> "done",
                     results |-> IF Len(asked) = 1 THEN answer[asked[1]] ELSE FusedResults]
    BY DEF Respond
  <2>2. ASSUME Len(asked) > 1 PROVE response'.results = FusedResults
    <3>1. Len(asked) \in Nat
      BY <1>1
    <3> DEFINE n == Len(asked)
    <3>2. n \in Nat /\ n > 1
      BY <2>2, <3>1
    <3> HIDE DEF n
    <3>3. n # 1
      BY <3>2
    <3>4. Len(asked) # 1
      BY <3>3 DEF n
    <3>5. QED
      BY <2>1, <3>4
  <2>3. QED
    BY <2>2 DEF Respond, queryVars
<1>3. Asked' = Asked /\ FoundPages' = FoundPages
  BY <1>2 DEF Asked, FoundPages
<1>4. ASSUME Len(asked) > 1
      PROVE  LET shown == {Canon[u] : u \in ToSet(response'.results)}
             IN  /\ shown \subseteq FoundPages'
                 /\ Cardinality(shown) = Len(response'.results)
                 /\ Len(response'.results) = LeastOf(Limit, Cardinality(FoundPages'))
  BY <1>1, <1>2, <1>3, <1>4, FusedResultsFit
<1>5. FusionComplete'
  BY <1>2, <1>4 DEF FusionComplete, FoundPages
<1>6. QED
  BY <1>1, <1>2, <1>3, <1>5 DEF FusionInv

LEMMA FusionKept == ASSUME HybridTypeOK, FusionInv, [HybridNext]_hybridVars PROVE FusionInv'
<1>1. CASE Respond
  BY <1>1, RespondCompletes
<1>2. CASE \E q \in Queries : Search(q)
  <2>1. PICK q \in Queries : Search(q)
    BY <1>2
  <2>2. pc[q] \notin {"idle", "answered"} \/ Fail(q)
    BY <2>1 DEF Search, ReadVersion, CheckFts, ClearFts, SelectTexts, InsertRow, StampFts, CheckRank,
       MatchTexts, CompareEmbeddings, ReadCentral, Answer
  <2>3. \/ response' = response
        \/ response.status = "open" /\ response'.status = "failed"
    <3>1. CASE Fail(q)
      BY <3>1 DEF Fail
    <3>2. CASE ~ Fail(q)
      BY <2>1, <3>2 DEF Search, ReadVersion, CheckFts, ClearFts, SelectTexts, InsertRow, StampFts,
         CheckRank, MatchTexts, CompareEmbeddings, ReadCentral, Answer
    <3>3. QED
      BY <3>1, <3>2
  <2>4. response.status # "done"
    <3>1. CASE Fail(q)
      BY <3>1 DEF Fail
    <3>2. CASE pc[q] \notin {"idle", "answered"}
      <4>1. q \in Asked
        BY <3>2 DEF HybridTypeOK
      <4>2. QED
        BY <3>2, <4>1 DEF FusionInv
    <3>3. QED
      BY <2>2, <3>1, <3>2
  <2>5. asked' = asked
    BY <2>1 DEF Search, ReadVersion, CheckFts, ClearFts, SelectTexts, InsertRow, StampFts, CheckRank,
       MatchTexts, CompareEmbeddings, ReadCentral, Answer, Fail
  <2>6. response'.status # "done"
    BY <2>3, <2>4
  <2>7. QED
    BY <2>5, <2>6 DEF FusionInv, FusionComplete
<1>3. CASE \/ \E t \in Texts, u \in Urls : StoreText(t, u)
           \/ \E u \in Urls : Embed(u)
           \/ Touch
           \/ UNCHANGED hybridVars
  <2>1. UNCHANGED <<asked, pc, answer, response>>
    BY <1>3 DEF StoreText, Embed, Touch, hybridVars, queryVars
  <2>2. QED
    BY <2>1 DEF FusionInv, FusionComplete, Asked
<1>4. QED
  BY <1>1, <1>2, <1>3 DEF HybridNext

\* The answer that several queries share has every page that one of them found, once, as
\* far as the limit allows (commands/search.rs:1097).
THEOREM FusionAlwaysComplete == HybridSpec => []FusionComplete
<1>1. FusionInv => FusionComplete
  BY DEF FusionInv
<1>2. HybridSpec => []HybridTypeOK
  BY HybridTypeInit, HybridTypeKept, PTL DEF HybridSpec
<1>3. QED
  BY <1>1, <1>2, FusionInit, FusionKept, PTL DEF HybridSpec
=============================================================================
