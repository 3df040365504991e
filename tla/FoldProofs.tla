------------------------------ MODULE FoldProofs ------------------------------
(***************************************************************************)
(* Facts about folds over finite sets.  The recursive function behind a    *)
(* fold exists, which is shown by induction on the size of the set (a      *)
(* least counterexample); what a sum does when one summand changes follows *)
(* from that.                                                              *)
(***************************************************************************)
EXTENDS Integers, FiniteSets, Functions, Folds, FiniteSetsExt, FiniteSetTheorems,
        WellFoundedInduction, TLAPS

-----------------------------------------------------------------------------
(* Induction. *)

(* A non-empty set of natural numbers has a least element. *)
LEMMA LeastNatural ==
    ASSUME NEW S \in SUBSET Nat, S # {}
    PROVE  \E i \in S : \A j \in S : i <= j
  <1>1. PICK i \in S : \A j \in S : ~ (<<j, i>> \in OpToRel(<, Nat))
    BY NatLessThanWellFounded, WFMin
  <1>2. ASSUME NEW j \in S, ~(i <= j) PROVE FALSE
    <2>1. j \in Nat /\ i \in Nat /\ j < i
      BY <1>2
    <2>2. <<j, i>> \in OpToRel(<, Nat)
      BY <2>1 DEF OpToRel
    <2> QED
      BY <1>1, <2>2
  <1> QED
    BY <1>2

(* A set of natural numbers that has 0, and n + 1 with every n, has all. *)
LEMMA AllNaturals ==
    ASSUME NEW P, 0 \in P, \A n \in Nat : n \in P => n + 1 \in P
    PROVE  Nat \subseteq P
  <1> SUFFICES ASSUME Nat \ P # {} PROVE FALSE
    OBVIOUS
  <1>1. PICK i \in Nat \ P : \A j \in Nat \ P : i <= j
    BY LeastNatural
  <1>2. i # 0 /\ i - 1 \in Nat
    BY <1>1
  <1>3. i - 1 \in P
    BY <1>1, <1>2
  <1> QED
    BY <1>1, <1>2, <1>3

(* g is the fold over the subsets of S: c chooses the element that is      *)
(* taken off, h combines it with the fold of the rest.                     *)
IsFold(g, S, base, c, h) ==
    \A s \in SUBSET S :
        g[s] = IF s = {} THEN base ELSE h[<<c[s], g[s \ {c[s]}]>>]

(* c chooses an element of every non-empty subset of S. *)
Chooses(c, S) == \A s \in SUBSET S : s # {} => c[s] \in s

(* The size of a subset, and that of the rest without a chosen element. *)
LEMMA SubsetSizes ==
    ASSUME NEW S, IsFiniteSet(S)
    PROVE  \A s \in SUBSET S :
              /\ IsFiniteSet(s) /\ Cardinality(s) \in Nat
              /\ Cardinality(s) <= Cardinality(S)
              /\ Cardinality(s) = 0 <=> s = {}
              /\ \A x \in s : Cardinality(s \ {x}) = Cardinality(s) - 1
  BY FS_Subset, FS_CardinalityType, FS_EmptySet, FS_RemoveElement

(* A fold exists. *)
LEMMA FoldExists ==
    ASSUME NEW S, IsFiniteSet(S), NEW V, NEW base \in V, NEW c, Chooses(c, S),
           NEW h \in [S \X V -> V]
    PROVE  \E g \in [SUBSET S -> V] : IsFold(g, S, base, c, h)
  <1> DEFINE Up(n) == {s \in SUBSET S : Cardinality(s) <= n}
             Upto(g, n) ==
                 \A s \in Up(n) :
                     g[s] = IF s = {} THEN base ELSE h[<<c[s], g[s \ {c[s]}]>>]
             Good(n) == \E g \in [Up(n) -> V] : Upto(g, n)
             P == {n \in Nat : Good(n)}
  <1>1. Good(0)
    <2> DEFINE g == [s \in Up(0) |-> base]
    <2>1. \A s \in Up(0) : s = {}
      BY SubsetSizes
    <2>2. g \in [Up(0) -> V]
      OBVIOUS
    <2>3. Upto(g, 0)
      BY <2>1
    <2> HIDE DEF g, Up, Upto
    <2> QED
      BY <2>2, <2>3
  <1>2. ASSUME NEW n \in Nat, Good(n) PROVE Good(n + 1)
    <2>1. PICK g \in [Up(n) -> V] : Upto(g, n)
      <3> HIDE DEF Up, Upto
      <3> QED
        BY <1>2
    <2> DEFINE g2 == [s \in Up(n + 1) |->
                        IF s = {} THEN base ELSE h[<<c[s], g[s \ {c[s]}]>>]]
    <2>2. ASSUME NEW s \in Up(n + 1), s # {}
          PROVE  /\ c[s] \in S /\ s \ {c[s]} \in Up(n)
                 /\ g[s \ {c[s]}] \in V
      <3>1. c[s] \in s
        BY <2>2 DEF Chooses
      <3>2. s \ {c[s]} \in Up(n)
        BY <3>1, SubsetSizes
      <3> QED
        BY <2>1, <3>1, <3>2
    <2>3. g2 \in [Up(n + 1) -> V]
      BY <2>2
    <2>4. \A s \in Up(n) : s \in Up(n + 1) /\ g2[s] = g[s]
      BY <2>1, SubsetSizes
    <2>5. Upto(g2, n + 1)
      <3> SUFFICES ASSUME NEW s \in Up(n + 1), s # {}
                   PROVE  g2[s] = h[<<c[s], g2[s \ {c[s]}]>>]
        OBVIOUS
      <3>1. g2[s] = h[<<c[s], g[s \ {c[s]}]>>]
        OBVIOUS
      <3>2. g2[s \ {c[s]}] = g[s \ {c[s]}]
        BY <2>2, <2>4
      <3> HIDE DEF g2
      <3> QED
        BY <3>1, <3>2
    <2> HIDE DEF g2, Up, Upto
    <2> QED
      BY <2>3, <2>5
  <1>3. Good(Cardinality(S))
    <2> HIDE DEF Good
    <2>1. Nat \subseteq P
      <3>1. 0 \in P /\ \A n \in Nat : n \in P => n + 1 \in P
        BY <1>1, <1>2
      <3> HIDE DEF P
      <3> QED
        BY <3>1, AllNaturals
    <2> QED
      BY <2>1, FS_CardinalityType
  <1>4. Up(Cardinality(S)) = SUBSET S
    BY SubsetSizes
  <1>5. PICK g \in [Up(Cardinality(S)) -> V] : Upto(g, Cardinality(S))
    <2> HIDE DEF Up, Upto
    <2> QED
      BY <1>3
  <1>6. IsFold(g, S, base, c, h)
    <2> HIDE DEF Up
    <2> QED
      BY <1>4, <1>5 DEF IsFold
  <1> HIDE DEF Up
  <1> QED
    BY <1>4, <1>5, <1>6

(* What holds of the empty set, and of a set if it does of the rest, holds *)
(* of all: the values of a fold are in V.                                  *)
LEMMA FoldTyped ==
    ASSUME NEW S, IsFiniteSet(S), NEW V, NEW c, Chooses(c, S), NEW g, g[{}] \in V,
           \A s \in SUBSET S : s # {} /\ g[s \ {c[s]}] \in V => g[s] \in V
    PROVE  \A s \in SUBSET S : g[s] \in V
  <1> DEFINE Good(n) == \A s \in SUBSET S : Cardinality(s) = n => g[s] \in V
             P == {n \in Nat : Good(n)}
  <1>1. Good(0)
    BY SubsetSizes
  <1>2. ASSUME NEW n \in Nat, Good(n) PROVE Good(n + 1)
    <2> SUFFICES ASSUME NEW s \in SUBSET S, Cardinality(s) = n + 1 PROVE g[s] \in V
      OBVIOUS
    <2>1. s # {} /\ c[s] \in s
      BY SubsetSizes DEF Chooses
    <2>2. g[s \ {c[s]}] \in V
      BY <1>2, <2>1, SubsetSizes
    <2> QED
      BY <2>1, <2>2
  <1>3. Nat \subseteq P
    <2> HIDE DEF Good
    <2>1. 0 \in P /\ \A n \in Nat : n \in P => n + 1 \in P
      BY <1>1, <1>2
    <2> HIDE DEF P
    <2> QED
      BY <2>1, AllNaturals
  <1> QED
    BY <1>3, SubsetSizes

-----------------------------------------------------------------------------
(* Sums. *)

(* The element that a sum takes off first, and the recursion of a sum. *)
Pick(s) == CHOOSE x \in s : TRUE
IsSum(g, f, S) ==
    \A s \in SUBSET S : g[s] = IF s = {} THEN 0 ELSE f[Pick(s)] + g[s \ {Pick(s)}]

(* It is one of the set. *)
LEMMA PickOne == ASSUME NEW s, s # {} PROVE Pick(s) \in s
  BY DEF Pick

(* There is a function that satisfies the recursion. *)
LEMMA SumUnfolds ==
    ASSUME NEW f, NEW S, IsFiniteSet(S), \A x \in S : f[x] \in Int
    PROVE  \E g : SumFunctionOnSet(f, S) = g[S] /\ IsSum(g, f, S)
  <1> DEFINE c == [s \in SUBSET S |-> Pick(s)]
             h == [p \in S \X Int |-> f[p[1]] + p[2]]
             Iter(g) == [s \in SUBSET S |->
                            IF s = {} THEN 0 ELSE f[Pick(s)] + g[s \ {Pick(s)}]]
             it == CHOOSE g : g = Iter(g)
  <1>1. Chooses(c, S)
    BY PickOne DEF Chooses
  <1>2. h \in [S \X Int -> Int]
    OBVIOUS
  <1>3. PICK g \in [SUBSET S -> Int] : IsFold(g, S, 0, c, h)
    <2> HIDE DEF c, h
    <2> QED
      BY <1>1, <1>2, 0 \in Int, FoldExists, Zenon
  <1>4. ASSUME NEW s \in SUBSET S, s # {}, NEW v \in Int
        PROVE  h[<<c[s], v>>] = f[Pick(s)] + v
    <2>1. c[s] \in S /\ c[s] = Pick(s)
      BY <1>1, <1>4 DEF Chooses
    <2> HIDE DEF c
    <2> QED
      BY <2>1
  <1>5. g = Iter(g)
    <2>1. ASSUME NEW s \in SUBSET S
          PROVE  g[s] = IF s = {} THEN 0 ELSE f[Pick(s)] + g[s \ {Pick(s)}]
      <3>1. CASE s = {}
        BY <1>3, <3>1, Zenon DEF IsFold
      <3>2. CASE s # {}
        <4>1. g[s] = h[<<c[s], g[s \ {c[s]}]>>]
          BY <1>3, <3>2, Zenon DEF IsFold
        <4>2. c[s] = Pick(s) /\ s \ {c[s]} \in SUBSET S
          OBVIOUS
        <4>3. g[s \ {c[s]}] \in Int
          BY <1>3, <4>2
        <4>4. h[<<c[s], g[s \ {c[s]}]>>] = f[Pick(s)] + g[s \ {c[s]}]
          BY <1>4, <3>2, <4>3, Zenon
        <4> HIDE DEF c, h
        <4> QED
          BY <3>2, <4>1, <4>2, <4>4, Zenon
      <3> QED
        BY <3>1, <3>2
    <2> QED
      BY <2>1
  <1>6. it = Iter(it)
    <2> HIDE DEF Iter
    <2> QED
      BY <1>5, Zenon
  <1>7. SumFunctionOnSet(f, S) = it[S]
    BY DEF SumFunctionOnSet, FoldFunctionOnSet, MapThenFoldSet, Pick
  <1> HIDE DEF it
  <1>8. IsSum(it, f, S)
    BY <1>6 DEF IsSum
  <1> QED
    BY <1>7, <1>8

(* It is the only one. *)
LEMMA SumUnique ==
    ASSUME NEW f, NEW S, IsFiniteSet(S), NEW g1, NEW g2, IsSum(g1, f, S), IsSum(g2, f, S)
    PROVE  g1[S] = g2[S]
  <1> DEFINE c == [s \in SUBSET S |-> Pick(s)]
             d == [s \in SUBSET S |-> g1[s] = g2[s]]
             Yes == {TRUE}
  <1>1. Chooses(c, S)
    BY PickOne DEF Chooses
  <1>2. d[{}] \in Yes
    BY DEF IsSum
  <1>3. ASSUME NEW s \in SUBSET S, s # {}, d[s \ {c[s]}] \in Yes
        PROVE  d[s] \in Yes
    <2>1. c[s] = Pick(s) /\ s \ {Pick(s)} \in SUBSET S
      OBVIOUS
    <2>2. g1[s \ {Pick(s)}] = g2[s \ {Pick(s)}]
      BY <1>3, <2>1, Zenon
    <2>3. /\ g1[s] = f[Pick(s)] + g1[s \ {Pick(s)}]
          /\ g2[s] = f[Pick(s)] + g2[s \ {Pick(s)}]
      BY <1>3, Zenon DEF IsSum
    <2> QED
      BY <2>2, <2>3, Zenon
  <1>4. d[S] \in Yes
    <2>1. \A s \in SUBSET S : d[s] \in Yes
      <3> HIDE DEF c, d, Yes
      <3> QED
        BY <1>1, <1>2, <1>3, FoldTyped, Zenon
    <2> QED
      BY <2>1, S \in SUBSET S, Zenon
  <1> QED
    BY <1>4, S \in SUBSET S, Zenon

(* Nothing sums up to 0. *)
LEMMA SumEmpty == ASSUME NEW f PROVE SumFunctionOnSet(f, {}) = 0
  <1>1. PICK g : SumFunctionOnSet(f, {}) = g[{}] /\ IsSum(g, f, {})
    BY SumUnfolds, FS_EmptySet, Zenon
  <1> QED
    BY <1>1, {} \in SUBSET {}, Zenon DEF IsSum

(* The first step of the recursion. *)
LEMMA SumStep ==
    ASSUME NEW f, NEW S, IsFiniteSet(S), S # {}, \A x \in S : f[x] \in Int
    PROVE  SumFunctionOnSet(f, S) = f[Pick(S)] + SumFunctionOnSet(f, S \ {Pick(S)})
  <1> DEFINE T == S \ {Pick(S)}
  <1>1. PICK g : SumFunctionOnSet(f, S) = g[S] /\ IsSum(g, f, S)
    BY SumUnfolds, Zenon
  <1>2. IsFiniteSet(T) /\ T \in SUBSET S
    BY FS_RemoveElement
  <1>3. PICK g2 : SumFunctionOnSet(f, T) = g2[T] /\ IsSum(g2, f, T)
    <2>1. \A x \in T : f[x] \in Int
      OBVIOUS
    <2> HIDE DEF T
    <2> QED
      BY <1>2, <2>1, SumUnfolds, Zenon
  <1>4. IsSum(g, f, T)
    BY <1>1 DEF IsSum
  <1>5. g[T] = g2[T]
    <2> HIDE DEF T
    <2> QED
      BY <1>2, <1>3, <1>4, SumUnique, Zenon
  <1>6. g[S] = f[Pick(S)] + g[T]
    BY <1>1, S \in SUBSET S, Zenon DEF IsSum
  <1> HIDE DEF T
  <1>7. SumFunctionOnSet(f, S) = f[Pick(S)] + SumFunctionOnSet(f, T)
    BY <1>1, <1>3, <1>5, <1>6, Zenon
  <1> QED
    BY <1>7 DEF T

(* A sum of integers is an integer. *)
LEMMA SumInt ==
    ASSUME NEW f, NEW S, IsFiniteSet(S), \A x \in S : f[x] \in Int
    PROVE  SumFunctionOnSet(f, S) \in Int
  <1> DEFINE c == [s \in SUBSET S |-> Pick(s)]
  <1>1. PICK g : SumFunctionOnSet(f, S) = g[S] /\ IsSum(g, f, S)
    BY SumUnfolds, Zenon
  <1>2. Chooses(c, S)
    BY PickOne DEF Chooses
  <1>3. g[{}] \in Int
    <2>1. g[{}] = 0
      BY <1>1, {} \in SUBSET S, Zenon DEF IsSum
    <2> QED
      BY <2>1
  <1>4. ASSUME NEW s \in SUBSET S, s # {}, g[s \ {c[s]}] \in Int PROVE g[s] \in Int
    <2>1. c[s] = Pick(s) /\ c[s] \in S
      BY <1>2, <1>4 DEF Chooses
    <2>2. g[s] = f[c[s]] + g[s \ {c[s]}]
      <3>1. g[s] = f[Pick(s)] + g[s \ {Pick(s)}]
        BY <1>1, <1>4, Zenon DEF IsSum
      <3> HIDE DEF c
      <3> QED
        BY <2>1, <3>1, Zenon
    <2>3. f[c[s]] \in Int
      BY <2>1
    <2> HIDE DEF c
    <2> QED
      BY <1>4, <2>2, <2>3
  <1>5. \A s \in SUBSET S : g[s] \in Int
    <2> HIDE DEF c
    <2> QED
      BY <1>2, <1>3, <1>4, FoldTyped, Zenon
  <1> QED
    BY <1>1, <1>5, S \in SUBSET S, Zenon

(* One summand, whichever, can be taken out. *)
LEMMA SumSplit ==
    ASSUME NEW f, NEW S, IsFiniteSet(S), \A y \in S : f[y] \in Int, NEW t \in S
    PROVE  SumFunctionOnSet(f, S) = f[t] + SumFunctionOnSet(f, S \ {t})
  <1> DEFINE Sum(s) == SumFunctionOnSet(f, s)
             Good(n) == \A s \in SUBSET S : Cardinality(s) = n =>
                            /\ Sum(s) \in Int
                            /\ \A y \in s : Sum(s) = f[y] + Sum(s \ {y})
             P == {n \in Nat : Good(n)}
  <1>1. Good(0)
    <2> SUFFICES ASSUME NEW s \in SUBSET S, Cardinality(s) = 0
                 PROVE  /\ Sum(s) \in Int
                        /\ \A y \in s : Sum(s) = f[y] + Sum(s \ {y})
      OBVIOUS
    <2>1. s = {}
      BY SubsetSizes
    <2>2. Sum(s) = 0
      BY <2>1, SumEmpty
    <2> HIDE DEF Sum
    <2> QED
      BY <2>1, <2>2
  <1>2. ASSUME NEW n \in Nat, Good(n) PROVE Good(n + 1)
    <2> SUFFICES ASSUME NEW s \in SUBSET S, Cardinality(s) = n + 1
                 PROVE  /\ Sum(s) \in Int
                        /\ \A y \in s : Sum(s) = f[y] + Sum(s \ {y})
      OBVIOUS
    <2> DEFINE x == Pick(s)
    <2>1. s # {} /\ x \in s /\ IsFiniteSet(s)
      BY SubsetSizes, PickOne
    <2>2. Sum(s) = f[x] + Sum(s \ {x})
      <3>1. \A y \in s : f[y] \in Int
        OBVIOUS
      <3> QED
        BY <2>1, <3>1, SumStep, Zenon
    <2> HIDE DEF x, Sum
    <2>3. ASSUME NEW y \in s
          PROVE  /\ s \ {y} \in SUBSET S /\ Cardinality(s \ {y}) = n
                 /\ Sum(s \ {y}) \in Int /\ f[y] \in Int
                 /\ \A z \in s \ {y} : Sum(s \ {y}) = f[z] + Sum((s \ {y}) \ {z})
      <3>1. s \ {y} \in SUBSET S /\ Cardinality(s \ {y}) = n
        BY SubsetSizes
      <3>2. /\ Sum(s \ {y}) \in Int
            /\ \A z \in s \ {y} : Sum(s \ {y}) = f[z] + Sum((s \ {y}) \ {z})
        BY <1>2, <3>1, Zenon
      <3> QED
        BY <3>1, <3>2
    <2>4. ASSUME NEW y \in s, y # x PROVE Sum(s) = f[y] + Sum(s \ {y})
      <3>1. Sum(s \ {x}) = f[y] + Sum((s \ {x}) \ {y})
        BY <2>1, <2>3, <2>4
      <3>2. Sum(s \ {y}) = f[x] + Sum((s \ {y}) \ {x})
        BY <2>1, <2>3, <2>4
      <3>3. (s \ {x}) \ {y} = (s \ {y}) \ {x}
        OBVIOUS
      <3>4. Sum((s \ {x}) \ {y}) \in Int
        <4> DEFINE T == (s \ {x}) \ {y}
        <4>1. T \in SUBSET S /\ IsFiniteSet(T)
          BY SubsetSizes
        <4>2. \A z \in T : f[z] \in Int
          OBVIOUS
        <4> HIDE DEF T
        <4> QED
          BY <4>1, <4>2, SumInt, Zenon DEF Sum, T
      <3> QED
        BY <2>1, <2>2, <2>3, <3>1, <3>2, <3>3, <3>4
    <2>5. Sum(s) \in Int
      <3>1. \A y \in s : f[y] \in Int
        OBVIOUS
      <3> QED
        BY <2>1, <3>1, SumInt, Zenon DEF Sum
    <2>6. \A y \in s : Sum(s) = f[y] + Sum(s \ {y})
      BY <2>2, <2>4, Zenon
    <2> QED
      BY <2>5, <2>6
  <1>3. Nat \subseteq P
    <2> HIDE DEF Good
    <2>1. 0 \in P /\ \A n \in Nat : n \in P => n + 1 \in P
      BY <1>1, <1>2
    <2> HIDE DEF P
    <2> QED
      BY <2>1, AllNaturals
  <1>4. Good(Cardinality(S))
    <2> HIDE DEF Good
    <2> QED
      BY <1>3, FS_CardinalityType
  <1> QED
    BY <1>4, S \in SUBSET S, Zenon

(* Functions that agree on a set have the same sum over it. *)
LEMMA SumEqual ==
    ASSUME NEW f, NEW g, NEW S, IsFiniteSet(S), \A x \in S : f[x] \in Int,
           \A x \in S : f[x] = g[x]
    PROVE  SumFunctionOnSet(f, S) = SumFunctionOnSet(g, S)
  <1>1. PICK u : SumFunctionOnSet(f, S) = u[S] /\ IsSum(u, f, S)
    BY SumUnfolds, Zenon
  <1>2. \A x \in S : g[x] \in Int
    BY Zenon
  <1>3. PICK v : SumFunctionOnSet(g, S) = v[S] /\ IsSum(v, g, S)
    BY <1>2, SumUnfolds, Zenon
  <1>4. IsSum(v, f, S)
    <2> SUFFICES ASSUME NEW s \in SUBSET S
                 PROVE  v[s] = IF s = {} THEN 0 ELSE f[Pick(s)] + v[s \ {Pick(s)}]
      BY DEF IsSum
    <2>1. v[s] = IF s = {} THEN 0 ELSE g[Pick(s)] + v[s \ {Pick(s)}]
      BY <1>3, Zenon DEF IsSum
    <2>2. CASE s = {}
      BY <2>1, <2>2, Zenon
    <2>3. CASE s # {}
      <3>1. Pick(s) \in S
        BY <2>3, PickOne
      <3>2. f[Pick(s)] = g[Pick(s)]
        BY <3>1, Zenon
      <3> QED
        BY <2>1, <2>3, <3>2, Zenon
    <2> QED
      BY <2>2, <2>3
  <1>5. u[S] = v[S]
    BY <1>1, <1>4, SumUnique, Zenon
  <1> QED
    BY <1>1, <1>3, <1>5, Zenon

(* One summand is raised by k. *)
LEMMA SumRaised ==
    ASSUME NEW f, NEW g, NEW S, IsFiniteSet(S), \A x \in S : f[x] \in Int,
           NEW x \in S, NEW k \in Int, g[x] = f[x] + k, \A y \in S \ {x} : g[y] = f[y]
    PROVE  SumFunctionOnSet(g, S) = SumFunctionOnSet(f, S) + k
  <1> DEFINE T == S \ {x}
  <1>1. SumFunctionOnSet(f, S) = f[x] + SumFunctionOnSet(f, T)
    BY SumSplit, SMT
  <1>2. IsFiniteSet(T) /\ (\A y \in T : f[y] \in Int)
    BY FS_RemoveElement
  <1>3. \A y \in S : g[y] \in Int
    OBVIOUS
  <1>4. SumFunctionOnSet(g, S) = g[x] + SumFunctionOnSet(g, T)
    BY <1>3, SumSplit, SMT
  <1>5. \A y \in T : f[y] = g[y]
    OBVIOUS
  <1>6. SumFunctionOnSet(f, T) = SumFunctionOnSet(g, T)
    <2> HIDE DEF T
    <2> QED
      BY <1>2, <1>5, SumEqual, Zenon
  <1>7. SumFunctionOnSet(f, T) \in Int
    <2> HIDE DEF T
    <2> QED
      BY <1>2, SumInt, Zenon
  <1> HIDE DEF T
  <1> QED
    BY <1>1, <1>4, <1>6, <1>7

(* A sum of zeros is 0. *)
LEMMA SumZero ==
    ASSUME NEW f, NEW S, IsFiniteSet(S), \A x \in S : f[x] = 0
    PROVE  SumFunctionOnSet(f, S) = 0
  <1> DEFINE g == [s \in SUBSET S |-> 0]
  <1>1. \A x \in S : f[x] \in Int
    OBVIOUS
  <1>2. PICK u : SumFunctionOnSet(f, S) = u[S] /\ IsSum(u, f, S)
    BY <1>1, SumUnfolds, Zenon
  <1>3. IsSum(g, f, S)
    <2> SUFFICES ASSUME NEW s \in SUBSET S, s # {}
                 PROVE  0 = f[Pick(s)] + g[s \ {Pick(s)}]
      BY DEF IsSum
    <2>1. Pick(s) \in S /\ s \ {Pick(s)} \in SUBSET S
      BY PickOne
    <2> QED
      BY <2>1
  <1>4. u[S] = g[S]
    <2> HIDE DEF g
    <2> QED
      BY <1>2, <1>3, SumUnique, Zenon
  <1> QED
    BY <1>2, <1>4

(* The sum of the sums is the sum. *)
LEMMA SumAdds ==
    ASSUME NEW f, NEW g, NEW h, NEW S, IsFiniteSet(S),
           \A x \in S : f[x] \in Int /\ g[x] \in Int /\ h[x] = f[x] + g[x]
    PROVE  SumFunctionOnSet(h, S) = SumFunctionOnSet(f, S) + SumFunctionOnSet(g, S)
  <1> DEFINE a == [s \in SUBSET S |-> SumFunctionOnSet(f, s)]
             b == [s \in SUBSET S |-> SumFunctionOnSet(g, s)]
             v == [s \in SUBSET S |-> a[s] + b[s]]
  <1>1. (\A x \in S : f[x] \in Int) /\ (\A x \in S : g[x] \in Int) /\ (\A x \in S : h[x] \in Int)
    OBVIOUS
  <1>2. PICK u : SumFunctionOnSet(h, S) = u[S] /\ IsSum(u, h, S)
    BY <1>1, SumUnfolds, Zenon
  <1>3. IsSum(v, h, S)
    <2> SUFFICES ASSUME NEW s \in SUBSET S
                 PROVE  v[s] = IF s = {} THEN 0 ELSE h[Pick(s)] + v[s \ {Pick(s)}]
      BY DEF IsSum
    <2>1. CASE s = {}
      <3>1. a[s] = 0 /\ b[s] = 0
        BY <2>1, SumEmpty
      <3> HIDE DEF a, b
      <3> QED
        BY <2>1, <3>1
    <2>2. CASE s # {}
      <3> DEFINE T == s \ {Pick(s)}
      <3>1. Pick(s) \in S /\ T \in SUBSET S /\ IsFiniteSet(s) /\ IsFiniteSet(T)
        BY <2>2, PickOne, SubsetSizes
      <3>2. (\A x \in s : f[x] \in Int) /\ (\A x \in s : g[x] \in Int)
            /\ (\A x \in T : f[x] \in Int) /\ (\A x \in T : g[x] \in Int)
        BY <3>1
      <3>3. /\ SumFunctionOnSet(f, s) = f[Pick(s)] + SumFunctionOnSet(f, T)
            /\ SumFunctionOnSet(g, s) = g[Pick(s)] + SumFunctionOnSet(g, T)
        BY <2>2, <3>1, <3>2, SumStep, Zenon
      <3>4. SumFunctionOnSet(f, T) \in Int /\ SumFunctionOnSet(g, T) \in Int
        <4> HIDE DEF T
        <4> QED
          BY <3>1, <3>2, SumInt, Zenon
      <3>5. /\ a[s] = f[Pick(s)] + a[T] /\ b[s] = g[Pick(s)] + b[T]
            /\ a[T] \in Int /\ b[T] \in Int
        BY <3>1, <3>3, <3>4, Zenon
      <3>6. v[s] = a[s] + b[s] /\ v[T] = a[T] + b[T]
        BY <3>1, Zenon
      <3> HIDE DEF a, b, v
      <3>7. h[Pick(s)] = f[Pick(s)] + g[Pick(s)] /\ f[Pick(s)] \in Int /\ g[Pick(s)] \in Int
        BY <3>1
      <3> HIDE DEF T
      <3>8. v[s] = h[Pick(s)] + v[T]
        BY <3>5, <3>6, <3>7
      <3> QED
        BY <2>2, <3>8 DEF T
    <2> QED
      BY <2>1, <2>2
  <1>4. u[S] = v[S]
    <2> HIDE DEF v
    <2> QED
      BY <1>2, <1>3, SumUnique, Zenon
  <1> QED
    BY <1>2, <1>4, S \in SUBSET S, Zenon

(* What is nowhere smaller has no smaller sum. *)
LEMMA SumMonotone ==
    ASSUME NEW f, NEW g, NEW S, IsFiniteSet(S), \A x \in S : f[x] \in Int /\ g[x] \in Int,
           \A x \in S : f[x] <= g[x]
    PROVE  /\ SumFunctionOnSet(f, S) \in Int /\ SumFunctionOnSet(g, S) \in Int
           /\ SumFunctionOnSet(f, S) <= SumFunctionOnSet(g, S)
  <1> DEFINE h == [x \in S |-> g[x] - f[x]]
  <1>1. (\A x \in S : f[x] \in Int) /\ (\A x \in S : g[x] \in Int)
        /\ (\A x \in S : h[x] \in Nat /\ h[x] \in Int)
    OBVIOUS
  <1>2. \A x \in S : f[x] \in Int /\ h[x] \in Int /\ g[x] = f[x] + h[x]
    OBVIOUS
  <1> HIDE DEF h
  <1>3. SumFunctionOnSet(g, S) = SumFunctionOnSet(f, S) + SumFunctionOnSet(h, S)
    BY <1>2, SumAdds, SMT
  <1>4. SumFunctionOnSet(f, S) \in Int /\ SumFunctionOnSet(g, S) \in Int
    BY <1>1, SumInt, Zenon
  <1>5. SumFunctionOnSet(h, S) \in Nat
    <2> DEFINE c == [s \in SUBSET S |-> Pick(s)]
    <2>1. PICK u : SumFunctionOnSet(h, S) = u[S] /\ IsSum(u, h, S)
      BY <1>1, SumUnfolds, Zenon
    <2>2. Chooses(c, S)
      BY PickOne DEF Chooses
    <2>3. u[{}] = 0
      BY <2>1, {} \in SUBSET S, Zenon DEF IsSum
    <2>4. ASSUME NEW s \in SUBSET S, s # {}, u[s \ {c[s]}] \in Nat PROVE u[s] \in Nat
      <3>1. c[s] = Pick(s) /\ c[s] \in S
        BY <2>2, <2>4 DEF Chooses
      <3>2. u[s] = h[c[s]] + u[s \ {c[s]}]
        <4>1. u[s] = h[Pick(s)] + u[s \ {Pick(s)}]
          BY <2>1, <2>4, Zenon DEF IsSum
        <4> HIDE DEF c
        <4> QED
          BY <3>1, <4>1, Zenon
      <3>3. h[c[s]] \in Nat
        BY <1>1, <3>1
      <3> HIDE DEF c
      <3> QED
        BY <2>4, <3>2, <3>3
    <2>5. \A s \in SUBSET S : u[s] \in Nat
      <3> HIDE DEF c
      <3>1. u[{}] \in Nat
        BY <2>3
      <3> QED
        BY <2>2, <2>4, <3>1, FoldTyped, Zenon
    <2> QED
      BY <2>1, <2>5, S \in SUBSET S, Zenon
  <1> QED
    BY <1>3, <1>4, <1>5

(* As many ones as elements. *)
LEMMA SumOnes ==
    ASSUME NEW f, NEW S, IsFiniteSet(S), \A x \in S : f[x] = 1
    PROVE  SumFunctionOnSet(f, S) = Cardinality(S)
  <1> DEFINE g == [s \in SUBSET S |-> Cardinality(s)]
  <1>1. \A x \in S : f[x] \in Int
    OBVIOUS
  <1>2. PICK u : SumFunctionOnSet(f, S) = u[S] /\ IsSum(u, f, S)
    BY <1>1, SumUnfolds, Zenon
  <1>3. IsSum(g, f, S)
    <2> SUFFICES ASSUME NEW s \in SUBSET S
                 PROVE  g[s] = IF s = {} THEN 0 ELSE f[Pick(s)] + g[s \ {Pick(s)}]
      BY DEF IsSum
    <2>1. CASE s = {}
      BY <2>1, SubsetSizes
    <2>2. CASE s # {}
      <3>1. Pick(s) \in s /\ s \ {Pick(s)} \in SUBSET S /\ f[Pick(s)] = 1
        BY <2>2, PickOne
      <3>2. g[s] = Cardinality(s) /\ g[s \ {Pick(s)}] = Cardinality(s \ {Pick(s)})
        BY <3>1
      <3>3. Cardinality(s) \in Nat /\ Cardinality(s \ {Pick(s)}) = Cardinality(s) - 1
        BY <3>1, SubsetSizes
      <3> HIDE DEF g
      <3> QED
        BY <2>2, <3>1, <3>2, <3>3
    <2> QED
      BY <2>1, <2>2
  <1>4. u[S] = g[S]
    <2> HIDE DEF g
    <2> QED
      BY <1>2, <1>3, SumUnique, Zenon
  <1> QED
    BY <1>2, <1>4, S \in SUBSET S, Zenon

-----------------------------------------------------------------------------
(* Sums of functions into the natural numbers. *)

(* The sum of a function is the sum over its domain. *)
LEMMA NatSum ==
    ASSUME NEW S, IsFiniteSet(S), NEW f \in [S -> Nat]
    PROVE  /\ SumFunction(f) = SumFunctionOnSet(f, S)
           /\ SumFunction(f) \in Nat
  <1> DEFINE z == [x \in S |-> 0]
  <1>1. DOMAIN f = S
    OBVIOUS
  <1>2. SumFunction(f) = SumFunctionOnSet(f, S)
    BY <1>1, Zenon DEF SumFunction
  <1>3. (\A x \in S : z[x] = 0) /\ (\A x \in S : z[x] \in Int /\ f[x] \in Int)
        /\ (\A x \in S : z[x] <= f[x])
    OBVIOUS
  <1> HIDE DEF z
  <1>4. SumFunctionOnSet(z, S) = 0
    BY <1>3, SumZero, Zenon
  <1>5. /\ SumFunctionOnSet(f, S) \in Int
        /\ SumFunctionOnSet(z, S) <= SumFunctionOnSet(f, S)
    BY <1>3, SumMonotone, SMT
  <1> QED
    BY <1>2, <1>4, <1>5

(* The functions f and g on S are the same but for one value, which is     *)
(* larger by k.                                                            *)
Raised(f, g, S, t, k) ==
    /\ IsFiniteSet(S) /\ f \in [S -> Nat] /\ g \in [S -> Nat] /\ t \in S /\ k \in Nat
    /\ g[t] = f[t] + k /\ \A y \in S \ {t} : g[y] = f[y]

(* Then the sum is larger by k. *)
LEMMA NatSumRaised ==
    ASSUME NEW S, NEW f, NEW g, NEW t, NEW k, Raised(f, g, S, t, k)
    PROVE  SumFunction(g) = SumFunction(f) + k
  <1>1. IsFiniteSet(S) /\ (\A x \in S : f[x] \in Int) /\ k \in Int
    BY DEF Raised
  <1>2. SumFunctionOnSet(g, S) = SumFunctionOnSet(f, S) + k
    BY <1>1, SumRaised, SMT DEF Raised
  <1>3. SumFunction(f) = SumFunctionOnSet(f, S) /\ SumFunction(g) = SumFunctionOnSet(g, S)
    BY NatSum, Zenon DEF Raised
  <1> QED
    BY <1>2, <1>3, Zenon

(* So is the sum over a part of the domain that has the argument. *)
LEMMA NatSumPart ==
    ASSUME NEW S, NEW f, NEW g, NEW t, NEW k, Raised(f, g, S, t, k), NEW T \in SUBSET S
    PROVE  /\ SumFunctionOnSet(f, T) \in Int
           /\ SumFunctionOnSet(g, T) = SumFunctionOnSet(f, T) + IF t \in T THEN k ELSE 0
  <1>1. IsFiniteSet(T)
    BY FS_Subset, Zenon DEF Raised
  <1>2. (\A x \in T : f[x] \in Int) /\ k \in Int
    BY DEF Raised
  <1>3. SumFunctionOnSet(f, T) \in Int
    BY <1>1, <1>2, SumInt, Zenon
  <1>4. CASE t \in T
    <2>1. g[t] = f[t] + k /\ \A y \in T \ {t} : g[y] = f[y]
      BY DEF Raised
    <2>2. SumFunctionOnSet(g, T) = SumFunctionOnSet(f, T) + k
      BY <1>1, <1>2, <1>4, <2>1, SumRaised, SMT
    <2> QED
      BY <1>3, <1>4, <2>2
  <1>5. CASE t \notin T
    <2>1. \A y \in T : f[y] = g[y]
      BY <1>5 DEF Raised
    <2>2. SumFunctionOnSet(f, T) = SumFunctionOnSet(g, T)
      BY <1>1, <1>2, <2>1, SumEqual, Zenon
    <2> QED
      BY <1>3, <1>5, <2>2
  <1> QED
    BY <1>3, <1>4, <1>5

(* No value is smaller. *)
LEMMA NatSumMonotone ==
    ASSUME NEW S, IsFiniteSet(S), NEW f \in [S -> Nat], NEW g \in [S -> Nat],
           \A x \in S : f[x] <= g[x]
    PROVE  SumFunction(f) <= SumFunction(g)
  <1>1. \A x \in S : f[x] \in Int /\ g[x] \in Int
    OBVIOUS
  <1>2. SumFunctionOnSet(f, S) <= SumFunctionOnSet(g, S)
    BY <1>1, SumMonotone, SMT
  <1>3. SumFunction(f) = SumFunctionOnSet(f, S) /\ SumFunction(g) = SumFunctionOnSet(g, S)
    BY NatSum, Zenon
  <1> QED
    BY <1>2, <1>3, Zenon

(* The value is 0 everywhere. *)
LEMMA NatSumZero ==
    ASSUME NEW S, IsFiniteSet(S), NEW f \in [S -> Nat], \A x \in S : f[x] = 0
    PROVE  SumFunction(f) = 0
  <1>1. SumFunctionOnSet(f, S) = 0
    BY SumZero, Zenon
  <1>2. SumFunction(f) = SumFunctionOnSet(f, S)
    BY NatSum, Zenon
  <1> QED
    BY <1>1, <1>2, Zenon

(* The same of the function that is zero everywhere. *)
LEMMA ZeroSum ==
    ASSUME NEW S, IsFiniteSet(S) PROVE SumFunction([x \in S |-> 0]) = 0
  <1> DEFINE f == [x \in S |-> 0]
  <1>1. f \in [S -> Nat] /\ \A x \in S : f[x] = 0
    OBVIOUS
  <1> HIDE DEF f
  <1>2. SumFunction(f) = 0
    BY <1>1, NatSumZero, SMT
  <1> QED
    BY <1>2 DEF f

(* The value is 0 or 1: the sum is at most the number of arguments. *)
LEMMA NatSumSmall ==
    ASSUME NEW S, IsFiniteSet(S), NEW f \in [S -> Nat], \A x \in S : f[x] <= 1
    PROVE  SumFunction(f) <= Cardinality(S)
  <1> DEFINE o == [x \in S |-> 1]
  <1>1. o \in [S -> Nat] /\ (\A x \in S : o[x] = 1) /\ (\A x \in S : f[x] <= o[x])
    OBVIOUS
  <1> HIDE DEF o
  <1>2. SumFunction(f) <= SumFunction(o)
    BY <1>1, NatSumMonotone, SMT
  <1>3. SumFunction(o) = SumFunctionOnSet(o, S)
    BY <1>1, NatSum, Zenon
  <1>4. SumFunctionOnSet(o, S) = Cardinality(S)
    BY <1>1, SumOnes, Zenon
  <1> QED
    BY <1>2, <1>3, <1>4, Zenon

(* Where no value is smaller, the sums are as far apart as any two values. *)
LEMMA NatSumApart ==
    ASSUME NEW S, IsFiniteSet(S), NEW f \in [S -> Nat], NEW g \in [S -> Nat],
           \A x \in S : f[x] <= g[x], NEW t \in S
    PROVE  g[t] + SumFunction(f) <= f[t] + SumFunction(g)
  <1> DEFINE h == [f EXCEPT ![t] = g[t]]
             k == g[t] - f[t]
  <1>1. k \in Nat /\ g[t] = f[t] + k
    OBVIOUS
  <1>2. /\ h \in [S -> Nat] /\ h[t] = f[t] + k
        /\ \A x \in S \ {t} : h[x] = f[x]
        /\ \A x \in S : h[x] <= g[x]
    BY <1>1
  <1> HIDE DEF h, k
  <1>3. SumFunction(h) = SumFunction(f) + k
    <2>1. Raised(f, h, S, t, k)
      BY <1>1, <1>2 DEF Raised
    <2> QED
      BY <2>1, NatSumRaised
  <1>4. SumFunction(h) <= SumFunction(g)
    BY <1>2, NatSumMonotone, SMT
  <1>5. SumFunction(f) \in Nat /\ SumFunction(g) \in Nat
    BY NatSum, Zenon
  <1> QED
    BY <1>1, <1>3, <1>4, <1>5

(* A table h with rows S and columns B: its columns, and the sums of both. *)
Crossed(S, B, h, row, col, sums) ==
    /\ h \in [S -> [B -> Nat]]
    /\ col \in [B -> [S -> Nat]] /\ \A b \in B, x \in S : col[b][x] = h[x][b]
    /\ row \in [S -> Nat] /\ \A x \in S : row[x] = SumFunction(h[x])
    /\ sums \in [B -> Nat] /\ \A b \in B : sums[b] = SumFunction(col[b])

(* The values of a table add up to the same by rows and by columns. *)
LEMMA NatSumSwap ==
    ASSUME NEW S, IsFiniteSet(S), NEW B, IsFiniteSet(B),
           NEW h, NEW row, NEW col, NEW sums, Crossed(S, B, h, row, col, sums)
    PROVE  SumFunction(sums) = SumFunction(row)
  <1>h. /\ h \in [S -> [B -> Nat]]
        /\ col \in [B -> [S -> Nat]] /\ row \in [S -> Nat] /\ sums \in [B -> Nat]
    BY DEF Crossed
  <1>i. \A b \in B, x \in S : col[b][x] = h[x][b]
    BY DEF Crossed
  <1>j. \A x \in S : row[x] = SumFunction(h[x])
    BY DEF Crossed
  <1>k. \A b \in B : sums[b] = SumFunction(col[b])
    BY DEF Crossed
  <1> DEFINE part(s) == [b \in B |-> SumFunctionOnSet(col[b], s)]
             v == [s \in SUBSET S |-> SumFunctionOnSet(part(s), B)]
  <1>1. /\ row \in [S -> Nat]
        /\ \A x \in S : row[x] = SumFunctionOnSet(h[x], B)
    <2>1. \A x \in S : h[x] \in [B -> Nat]
      BY <1>h
    <2>2. \A x \in S : SumFunction(h[x]) = SumFunctionOnSet(h[x], B) /\ SumFunction(h[x]) \in Nat
      BY <2>1, NatSum, SMT
    <2> QED
      BY <1>h, <1>j, <2>2
  <1>2. ASSUME NEW b \in B PROVE /\ col[b] \in [S -> Nat]
                                 /\ \A x \in S : col[b][x] = h[x][b] /\ col[b][x] \in Int
    BY <1>h, <1>i
  <1>3. \A x \in S : row[x] \in Int
    BY <1>1
  <1>4. PICK u : SumFunctionOnSet(row, S) = u[S] /\ IsSum(u, row, S)
    BY <1>3, SumUnfolds, Zenon
  <1>5. IsSum(v, row, S)
    <2> SUFFICES ASSUME NEW s \in SUBSET S
                 PROVE  v[s] = IF s = {} THEN 0 ELSE row[Pick(s)] + v[s \ {Pick(s)}]
      BY DEF IsSum
    <2>1. CASE s = {}
      <3>1. \A b \in B : part(s)[b] = 0
        BY <2>1, SumEmpty
      <3> HIDE DEF part
      <3>2. SumFunctionOnSet(part(s), B) = 0
        BY <3>1, SumZero, Zenon
      <3> QED
        BY <2>1, <3>2
    <2>2. CASE s # {}
      <3> DEFINE p == Pick(s)
                 T == s \ {p}
      <3>1. p \in S /\ T \in SUBSET S /\ IsFiniteSet(s) /\ IsFiniteSet(T)
        BY <2>2, PickOne, SubsetSizes
      <3>2. ASSUME NEW b \in B
            PROVE  /\ part(s)[b] = h[p][b] + part(T)[b]
                   /\ h[p][b] \in Int /\ part(T)[b] \in Int
        <4>1. (\A x \in s : col[b][x] \in Int) /\ (\A x \in T : col[b][x] \in Int)
          BY <1>2
        <4>2. SumFunctionOnSet(col[b], s) = col[b][p] + SumFunctionOnSet(col[b], T)
          BY <2>2, <3>1, <4>1, SumStep, Zenon
        <4>3. SumFunctionOnSet(col[b], T) \in Int
          <5> HIDE DEF T
          <5> QED
            BY <3>1, <4>1, SumInt, Zenon
        <4>4. col[b][p] = h[p][b] /\ col[b][p] \in Int
          BY <1>2, <1>i, <3>1
        <4>5. part(s)[b] = SumFunctionOnSet(col[b], s) /\ part(T)[b] = SumFunctionOnSet(col[b], T)
          OBVIOUS
        <4> HIDE DEF part, T, p
        <4> QED
          BY <4>2, <4>3, <4>4, <4>5
      <3> DEFINE f1 == h[p]
                 f2 == part(T)
                 f3 == part(s)
      <3>3. \A b \in B : f1[b] \in Int /\ f2[b] \in Int /\ f3[b] = f1[b] + f2[b]
        BY <3>2, Zenon
      <3>4. v[s] = SumFunctionOnSet(f3, B) /\ v[T] = SumFunctionOnSet(f2, B)
        BY <3>1, Zenon
      <3>5. row[p] = SumFunctionOnSet(f1, B)
        BY <1>1, <3>1, Zenon
      <3> HIDE DEF f1, f2, f3, v
      <3>6. SumFunctionOnSet(f3, B) = SumFunctionOnSet(f1, B) + SumFunctionOnSet(f2, B)
        BY <3>3, SumAdds, SMT
      <3>7. v[s] = row[p] + v[T]
        BY <3>4, <3>5, <3>6, Zenon
      <3> QED
        BY <2>2, <3>7, Zenon
    <2> QED
      BY <2>1, <2>2, Zenon
  <1>6. u[S] = v[S]
    <2> HIDE DEF v
    <2> QED
      BY <1>4, <1>5, SumUnique, SMT
  <1>7. SumFunctionOnSet(row, S) = v[S]
    BY <1>4, <1>6, Zenon
  <1>8. SumFunction(row) = SumFunctionOnSet(row, S)
    BY <1>1, NatSum, Zenon
  <1>9. \A b \in B : sums[b] = SumFunctionOnSet(col[b], S)
    <2>1. \A b \in B : SumFunction(col[b]) = SumFunctionOnSet(col[b], S)
      BY <1>2, NatSum, Zenon
    <2> QED
      BY <1>k, <2>1
  <1>10. sums = part(S)
    <2>1. part(S) = [b \in B |-> SumFunctionOnSet(col[b], S)]
      OBVIOUS
    <2> QED
      BY <1>9, <1>h, <2>1
  <1>11. SumFunction(sums) = SumFunctionOnSet(sums, B)
    BY <1>h, NatSum, Zenon
  <1>12. v[S] = SumFunctionOnSet(part(S), B)
    BY S \in SUBSET S, Zenon
  <1> QED
    BY <1>7, <1>8, <1>10, <1>11, <1>12, Zenon

(* The values add up. *)
LEMMA NatSumAdds ==
    ASSUME NEW S, IsFiniteSet(S), NEW f \in [S -> Nat], NEW g \in [S -> Nat],
           NEW h \in [S -> Nat], \A x \in S : h[x] = f[x] + g[x]
    PROVE  SumFunction(h) = SumFunction(f) + SumFunction(g)
  <1>1. \A x \in S : f[x] \in Int /\ g[x] \in Int /\ h[x] = f[x] + g[x]
    OBVIOUS
  <1>2. SumFunctionOnSet(h, S) = SumFunctionOnSet(f, S) + SumFunctionOnSet(g, S)
    BY <1>1, SumAdds, SMT
  <1>3. /\ SumFunction(f) = SumFunctionOnSet(f, S) /\ SumFunction(g) = SumFunctionOnSet(g, S)
        /\ SumFunction(h) = SumFunctionOnSet(h, S)
    BY NatSum, Zenon
  <1> QED
    BY <1>2, <1>3, Zenon

-----------------------------------------------------------------------------
(* Minima and maxima. *)

(* The minimum of a set of natural numbers. *)
LEMMA MinIsLeast ==
    ASSUME NEW S \in SUBSET Nat, S # {}
    PROVE  Min(S) \in S /\ \A x \in S : Min(S) <= x
  BY LeastNatural, Zenon DEF Min

(* A finite set of natural numbers has a greatest element. *)
LEMMA GreatestNatural ==
    ASSUME NEW S \in SUBSET Nat, IsFiniteSet(S), S # {}
    PROVE  \E x \in S : \A y \in S : y <= x
  <1> DEFINE Top(s) == \E x \in s : \A y \in s : y <= x
             Good(n) == \A s \in SUBSET S : Cardinality(s) = n /\ s # {} => Top(s)
             P == {n \in Nat : Good(n)}
  <1>1. Good(0)
    BY SubsetSizes
  <1>2. ASSUME NEW n \in Nat, Good(n) PROVE Good(n + 1)
    <2> SUFFICES ASSUME NEW s \in SUBSET S, Cardinality(s) = n + 1, s # {} PROVE Top(s)
      OBVIOUS
    <2>1. PICK x \in s : TRUE
      OBVIOUS
    <2>2. s \ {x} \in SUBSET S /\ Cardinality(s \ {x}) = n
      <3>1. Cardinality(s \ {x}) = Cardinality(s) - 1
        BY SubsetSizes, Zenon
      <3> QED
        BY <3>1
    <2>3. CASE s \ {x} = {}
      <3>1. x \in Nat /\ \A y \in s : y = x
        BY <2>3
      <3> QED
        BY <3>1
    <2>4. CASE s \ {x} # {}
      <3>1. Top(s \ {x})
        <4> HIDE DEF Top
        <4> QED
          BY <1>2, <2>2, <2>4
      <3>2. PICK z \in s \ {x} : \A y \in s \ {x} : y <= z
        BY <3>1
      <3>3. z \in Nat /\ x \in Nat
        OBVIOUS
      <3>4. CASE z <= x
        <4>1. \A y \in s : y <= x
          BY <3>2, <3>3, <3>4
        <4> QED
          BY <4>1
      <3>5. CASE x <= z
        <4>1. \A y \in s : y <= z
          BY <3>2, <3>3, <3>5
        <4> QED
          BY <4>1
      <3> QED
        BY <3>3, <3>4, <3>5
    <2> QED
      BY <2>3, <2>4
  <1>3. Nat \subseteq P
    <2> HIDE DEF Good
    <2>1. 0 \in P /\ \A n \in Nat : n \in P => n + 1 \in P
      BY <1>1, <1>2
    <2> HIDE DEF P
    <2> QED
      BY <2>1, AllNaturals
  <1>4. Good(Cardinality(S))
    <2> HIDE DEF Good
    <2> QED
      BY <1>3, FS_CardinalityType
  <1> QED
    BY <1>4, S \in SUBSET S, Zenon

(* The maximum of a finite set of natural numbers. *)
LEMMA MaxIsGreatest ==
    ASSUME NEW S \in SUBSET Nat, IsFiniteSet(S), S # {}
    PROVE  Max(S) \in S /\ \A x \in S : x <= Max(S)
  <1>1. PICK t \in S : \A y \in S : y <= t
    BY GreatestNatural, Zenon
  <1>2. \A y \in S : t >= y
    BY <1>1
  <1>3. Max(S) \in S /\ \A x \in S : Max(S) >= x
    BY <1>2, Zenon DEF Max
  <1> QED
    BY <1>3
=============================================================================
