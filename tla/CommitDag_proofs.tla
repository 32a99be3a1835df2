-------------------------- MODULE CommitDag_proofs --------------------------
(***************************************************************************)
(* Facts that the proofs of the other modules rest on: about recursion on  *)
(* the naturals, and about ancestry.                                       *)
(***************************************************************************)
EXTENDS CommitDag, FiniteSetTheorems, WellFoundedInduction, TLAPS

\* A set of naturals has a least element.
LEMMA LeastNatural ==
  ASSUME NEW T \in SUBSET Nat, T # {}
  PROVE  \E x \in T : \A y \in T : x <= y
<1> DEFINE R == {p \in Nat \X Nat : p[1] < p[2]}
<1>1. IsWellFoundedOn(R, Nat)
  BY NatLessThanWellFounded DEF OpToRel
<1>2. \A x, y \in Nat : <<y, x>> \in R <=> y < x
  OBVIOUS
<1> HIDE DEF R
<1>3. PICK x \in T : \A y \in T : ~(<<y, x>> \in R)
  BY <1>1, WFMin
<1>4. ASSUME NEW y \in T PROVE x <= y
  <2>1. x \in Nat /\ y \in Nat /\ ~(<<y, x>> \in R)
    BY <1>3
  <2>2. ~(y < x)
    BY <1>2, <2>1
  <2> QED BY <2>1, <2>2
<1> QED BY <1>4

-----------------------------------------------------------------------------
(***************************************************************************)
(* Recursive functions on the naturals.  Induction is by the least number  *)
(* at which a claim fails.                                                 *)
(***************************************************************************)

\* g follows the recursion from a by G up to n.
Follows(g, a, G, n) == g[0] = a /\ \A i \in 0..(n - 1) : g[i + 1] = G[i][g[i]]

LEMMA FollowsUnique ==
  ASSUME NEW a, NEW G, NEW n \in Nat, NEW m \in Nat, n <= m, NEW g, NEW h,
         Follows(g, a, G, n), Follows(h, a, G, m)
  PROVE  \A i \in 0..n : g[i] = h[i]
<1> DEFINE Bad == {i \in 0..n : g[i] # h[i]}
<1> SUFFICES ASSUME Bad # {}
             PROVE  FALSE
  OBVIOUS
<1>1. PICK i \in Bad : \A j \in Bad : i <= j
  <2>1. Bad \in SUBSET Nat
    OBVIOUS
  <2> HIDE DEF Bad
  <2> QED BY <2>1, LeastNatural
<1>2. i # 0
  BY DEF Follows
<1>3. i - 1 \in 0..(n - 1) /\ i - 1 \in 0..(m - 1) /\ i - 1 \in 0..n /\ ~(i <= i - 1)
      /\ (i - 1) + 1 = i
  BY <1>2
<1>4. g[i - 1] = h[i - 1]
  BY <1>1, <1>3
<1>5. g[i] = G[i - 1][g[i - 1]] /\ h[i] = G[i - 1][h[i - 1]]
  BY <1>3 DEF Follows
<1> QED BY <1>4, <1>5

LEMMA FollowsExists ==
  ASSUME NEW V, NEW a \in V, NEW G \in [Nat -> [V -> V]]
  PROVE  \A n \in Nat : \E g \in [0..n -> V] : Follows(g, a, G, n)
<1> DEFINE Has(n) == \E g \in [0..n -> V] : Follows(g, a, G, n)
           Bad == {n \in Nat : ~Has(n)}
<1> SUFFICES ASSUME Bad # {}
             PROVE  FALSE
  OBVIOUS
<1>1. PICK n \in Bad : \A j \in Bad : n <= j
  <2>1. Bad \in SUBSET Nat
    OBVIOUS
  <2> HIDE DEF Bad
  <2> QED BY <2>1, LeastNatural
<1>2. n # 0
  <2>1. Follows([i \in 0..0 |-> a], a, G, 0)
    BY DEF Follows
  <2>2. Has(0)
    BY <2>1
  <2> QED BY <2>2
<1>3. n \in Nat /\ n - 1 \in Nat /\ ~(n <= n - 1) /\ n \notin 0..(n - 1)
  BY <1>2
<1>4. PICK g \in [0..(n - 1) -> V] : Follows(g, a, G, n - 1)
  <2> HIDE DEF Has
  <2>1. Has(n - 1)
    BY <1>1, <1>3
  <2> QED BY <2>1 DEF Has
<1>5. g[n - 1] \in V /\ G[n - 1][g[n - 1]] \in V
  BY <1>3
<1> DEFINE h == [i \in 0..n |-> IF i = n THEN G[n - 1][g[n - 1]] ELSE g[i]]
<1>6. h \in [0..n -> V]
  BY <1>3, <1>5
<1>7. Follows(h, a, G, n)
  <2>1. h[0] = a
    BY <1>2, <1>3, <1>4 DEF Follows
  <2>2. ASSUME NEW i \in 0..(n - 1)
        PROVE  h[i + 1] = G[i][h[i]]
    <3>1. CASE i = n - 1
      BY <1>3, <3>1
    <3>2. CASE i # n - 1
      <4>1. i \in 0..((n - 1) - 1) /\ h[i] = g[i] /\ h[i + 1] = g[i + 1]
        BY <1>3, <3>2
      <4> QED BY <1>4, <4>1 DEF Follows
    <3> QED BY <3>1, <3>2
  <2> HIDE DEF h
  <2> QED BY <2>1, <2>2 DEF Follows
<1>8. Has(n)
  <2> HIDE DEF h
  <2> QED BY <1>6, <1>7
<1> QED BY <1>8

\* A recursive definition on the naturals has a solution.
IsRecursion(f, a, G) == f[0] = a /\ \A n \in Nat : f[n + 1] = G[n][f[n]]

LEMMA NatRecursion ==
  ASSUME NEW V, NEW a \in V, NEW G \in [Nat -> [V -> V]]
  PROVE  \E f \in [Nat -> V] : IsRecursion(f, a, G)
<1> DEFINE g(n) == CHOOSE g \in [0..n -> V] : Follows(g, a, G, n)
           f == [n \in Nat |-> g(n)[n]]
<1>1. \A n \in Nat : g(n) \in [0..n -> V] /\ Follows(g(n), a, G, n)
  BY FollowsExists
<1> HIDE DEF g
<1>2. f \in [Nat -> V]
  <2>1. \A n \in Nat : n \in 0..n
    OBVIOUS
  <2> QED BY <1>1, <2>1
<1>3. f[0] = a
  BY <1>1 DEF Follows
<1>4. ASSUME NEW n \in Nat
      PROVE  f[n + 1] = G[n][f[n]]
  <2> DEFINE u == g(n)
             v == g(n + 1)
  <2>1. Follows(u, a, G, n) /\ Follows(v, a, G, n + 1)
    BY <1>1
  <2>2. u[n] = v[n]
    <3>1. n <= n + 1 /\ n \in 0..n /\ n + 1 \in Nat
      OBVIOUS
    <3> HIDE DEF u, v
    <3> QED BY <2>1, <3>1, FollowsUnique
  <2>3. v[n + 1] = G[n][v[n]]
    <3>1. n \in 0..((n + 1) - 1)
      OBVIOUS
    <3> HIDE DEF v
    <3> QED BY <2>1, <3>1 DEF Follows
  <2> QED BY <2>2, <2>3
<1> HIDE DEF f
<1> QED BY <1>2, <1>3, <1>4 DEF IsRecursion

\* Growing sets of elements of a finite set, each determined by the one
\* before, stop growing after as many steps as there are elements.
LEMMA LevelsSettle ==
  ASSUME NEW S, IsFiniteSet(S), NEW f \in [Nat -> SUBSET S],
         \A n \in Nat : f[n] \subseteq f[n + 1],
         \A n \in Nat : f[n + 1] = f[n] => f[n + 2] = f[n + 1]
  PROVE  f[Cardinality(S) + 1] = f[Cardinality(S)]
<1> DEFINE N == Cardinality(S)
<1> SUFFICES ASSUME f[N + 1] # f[N]
             PROVE  FALSE
  OBVIOUS
<1>0. N \in Nat /\ \A n \in Nat : IsFiniteSet(f[n]) /\ Cardinality(f[n]) \in Nat
                                  /\ Cardinality(f[n]) <= N
  BY FS_CardinalityType, FS_Subset
<1> HIDE DEF N
\* Every step up to N adds an element.
<1>1. \A n \in 0..N : f[n + 1] # f[n]
  <2> DEFINE Bad == {k \in 0..N : f[(N - k) + 1] = f[N - k]}
  <2>1. Bad = {}
    <3> SUFFICES ASSUME Bad # {}
                 PROVE  FALSE
      OBVIOUS
    <3>1. PICK k \in Bad : \A j \in Bad : k <= j
      <4>1. Bad \in SUBSET Nat
        BY <1>0
      <4> HIDE DEF Bad
      <4> QED BY <4>1, LeastNatural
    <3>2. k # 0
      BY <1>0
    <3>3. /\ N - k \in Nat /\ k - 1 \in 0..N /\ ~(k <= k - 1)
          /\ N - (k - 1) = (N - k) + 1 /\ (N - (k - 1)) + 1 = (N - k) + 2
      BY <1>0, <3>2
    <3>4. f[(N - k) + 2] = f[(N - k) + 1]
      BY <3>3
    <3>5. k - 1 \in Bad
      BY <3>3, <3>4
    <3> QED BY <3>1, <3>3, <3>5
  <2>2. ASSUME NEW n \in 0..N
        PROVE  f[n + 1] # f[n]
    <3>1. N - n \in 0..N /\ N - (N - n) = n
      BY <1>0
    <3> QED BY <2>1, <3>1
  <2> QED BY <2>2
<1>2. \A n \in 0..(N + 1) : Cardinality(f[n]) >= n
  <2> DEFINE Bad == {n \in 0..(N + 1) : ~(Cardinality(f[n]) >= n)}
  <2> SUFFICES ASSUME Bad # {}
               PROVE  FALSE
    OBVIOUS
  <2>1. PICK n \in Bad : \A j \in Bad : n <= j
    <3>1. Bad \in SUBSET Nat
      BY <1>0
    <3> HIDE DEF Bad
    <3> QED BY <3>1, LeastNatural
  <2>2. n # 0
    BY <1>0
  <2>3. n - 1 \in 0..N /\ n - 1 \in 0..(N + 1) /\ ~(n <= n - 1) /\ (n - 1) + 1 = n
        /\ n - 1 \in Nat /\ n \in Nat
    BY <1>0, <2>2
  <2>4. Cardinality(f[n - 1]) >= n - 1
    BY <2>1, <2>3
  <2>5. f[n - 1] \subseteq f[n] /\ f[n] # f[n - 1]
    BY <1>1, <2>3
  <2>6. Cardinality(f[n - 1]) <= Cardinality(f[n]) /\ Cardinality(f[n - 1]) # Cardinality(f[n])
    BY <1>0, <2>3, <2>5, FS_Subset
  <2>7. /\ Cardinality(f[n - 1]) \in Nat /\ Cardinality(f[n]) \in Nat /\ n \in Nat
        /\ ~(Cardinality(f[n]) >= n)
    BY <1>0, <2>3
  <2> QED BY <2>4, <2>6, <2>7
<1>3. Cardinality(f[N + 1]) >= N + 1 /\ Cardinality(f[N + 1]) <= N
      /\ Cardinality(f[N + 1]) \in Nat
  BY <1>0, <1>2
<1> QED BY <1>0, <1>3

-----------------------------------------------------------------------------
(***************************************************************************)
(* Ancestry.                                                               *)
(***************************************************************************)

LEMMA AncestryTyped ==
  ASSUME NEW c \in Commit
  PROVE  Ancestry[c] = Ancestors(c) /\ Ancestry[c] \subseteq Commit /\ c \in Ancestry[c]
BY DEF Ancestry, Ancestors

\* A closed set of commits holds the ancestry of its members.
LEMMA ClosedHoldsAncestry ==
  ASSUME NEW S \in SUBSET Commit, ClosedUnderParents(S), NEW c \in S
  PROVE  Ancestry[c] \subseteq S
BY AncestryTyped DEF Ancestors

\* The ancestry of a commit holds the parents of its members.
LEMMA AncestryClosed ==
  ASSUME NEW c \in Commit
  PROVE  ClosedUnderParents(Ancestry[c])
<1> SUFFICES ASSUME NEW a \in Ancestry[c], NEW d \in ParentSet(a)
             PROVE  d \in Ancestry[c]
  BY DEF ClosedUnderParents
<1>1. a \in Commit /\ d \in Commit
  BY AncestryTyped, CommitDagAssumption DEF ParentSet
<1>2. ASSUME NEW S \in SUBSET Commit, c \in S, ClosedUnderParents(S)
      PROVE  d \in S
  BY <1>2, AncestryTyped DEF Ancestors, ClosedUnderParents
<1> QED BY <1>1, <1>2, AncestryTyped DEF Ancestors

\* An ancestor of an ancestor is an ancestor.
LEMMA AncestryTransitive ==
  ASSUME NEW c \in Commit, NEW b \in Ancestry[c]
  PROVE  Ancestry[b] \subseteq Ancestry[c]
BY AncestryTyped, AncestryClosed, ClosedHoldsAncestry

\* A parent is an ancestor.
LEMMA ParentIsAncestor ==
  ASSUME NEW c \in Commit, NEW d \in ParentSet(c)
  PROVE  d \in Ancestry[c]
BY AncestryTyped, AncestryClosed DEF ClosedUnderParents

\* No two commits are ancestors of each other.
LEMMA AncestryAntisymmetric ==
  ASSUME NEW c \in Commit, NEW a \in Ancestry[c], c \in Ancestry[a]
  PROVE  a = c
<1> DEFINE S == {c} \cup UNION {Ancestry[d] : d \in ParentSet(c)}
<1>1. ParentSet(c) \subseteq Commit
  BY CommitDagAssumption DEF ParentSet
<1>2. S \in SUBSET Commit
  BY <1>1, AncestryTyped
<1>3. ClosedUnderParents(S)
  <2> SUFFICES ASSUME NEW x \in S, NEW y \in ParentSet(x) PROVE y \in S
    BY DEF ClosedUnderParents
  <2>1. CASE x = c
    <3>1. y \in ParentSet(c) /\ y \in Ancestry[y]
      BY <1>1, <2>1, AncestryTyped
    <3> QED BY <3>1
  <2>2. ASSUME NEW d \in ParentSet(c), x \in Ancestry[d] PROVE y \in S
    <3>1. y \in Ancestry[d]
      BY <1>1, <2>2, AncestryClosed DEF ClosedUnderParents
    <3> QED BY <3>1
  <2> QED BY <2>1, <2>2
<1>4. a \in S
  <2>1. c \in S
    OBVIOUS
  <2> HIDE DEF S
  <2> QED BY <1>2, <1>3, <2>1, ClosedHoldsAncestry
<1>5. ASSUME NEW d \in ParentSet(c), a \in Ancestry[d] PROVE FALSE
  <2>1. c \in Ancestry[d]
    BY <1>1, <1>5, AncestryTransitive
  <2> QED BY <2>1, ContentAddressed
<1> QED BY <1>4, <1>5

\* What the recursive query finds are ancestors.
LEMMA StoredAncestorsAreAncestors ==
  ASSUME NEW S \in SUBSET Commit, NEW c \in S
  PROVE  StoredAncestors(S, c) \subseteq Ancestry[c]
<1>1. c \in Commit /\ c \in Ancestry[c] /\ ClosedUnderParents(Ancestry[c])
  BY AncestryTyped, AncestryClosed
<1> DEFINE T == Ancestry[c] \cap S
<1>2. \A d \in T : ParentSet(d) \cap S \subseteq T
  BY <1>1 DEF ClosedUnderParents
<1>3. T \in SUBSET S /\ c \in T
  BY <1>1
<1> QED BY <1>2, <1>3 DEF StoredAncestors
\* Over rows whose parents are rows, the recursive query finds them all.
LEMMA AncestorsAreStored ==
  ASSUME NEW S \in SUBSET Commit, ClosedUnderParents(S), NEW c \in S
  PROVE  Ancestry[c] \subseteq StoredAncestors(S, c)
<1> SUFFICES ASSUME NEW a \in Ancestry[c],
                    NEW T \in SUBSET S, c \in T,
                    \A d \in T : ParentSet(d) \cap S \subseteq T
             PROVE  a \in S /\ a \in T
  <2>1. Ancestry[c] \subseteq S
    BY ClosedHoldsAncestry
  <2> QED BY <2>1 DEF StoredAncestors
<1>1. ClosedUnderParents(T)
  BY DEF ClosedUnderParents
<1>2. Ancestry[c] \subseteq T
  BY <1>1, ClosedHoldsAncestry
<1> QED BY <1>2
=============================================================================
