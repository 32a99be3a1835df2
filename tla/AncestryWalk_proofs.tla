------------------------- MODULE AncestryWalk_proofs -------------------------
(***************************************************************************)
(* The walk of FindLowestCommonAncestor records distances, answers the     *)
(* nearest common ancestor and makes finitely many steps, in any commit    *)
(* graph and any order of the map; what such an ancestor is.               *)
(***************************************************************************)
EXTENDS AncestryWalk, CommitDag_proofs

-----------------------------------------------------------------------------
(***************************************************************************)
(* The levels of a walk.                                                   *)
(***************************************************************************)
ParentsOf(S) == UNION {ParentSet(d) : d \in S}

LEMMA WithinLevels ==
  ASSUME NEW e \in Commit
  PROVE  /\ Within(e) \in [Nat -> SUBSET Commit]
         /\ Within(e)[0] = {e}
         /\ \A n \in Nat : Within(e)[n + 1] = Within(e)[n] \cup ParentsOf(Within(e)[n])
<1> DEFINE Sets == SUBSET Commit
           first == {e}
           next == [n \in Nat |-> [S \in Sets |-> S \cup ParentsOf(S)]]
           IsLevel(l) == l = [n \in Nat |-> IF n = 0 THEN first
                                            ELSE l[n - 1] \cup ParentsOf(l[n - 1])]
           level == CHOOSE l : IsLevel(l)
<1>1. first \in Sets /\ next \in [Nat -> [Sets -> Sets]]
  BY CommitDagAssumption DEF ParentsOf, ParentSet
<1>2. PICK f \in [Nat -> Sets] : IsRecursion(f, first, next)
  <2> HIDE DEF Sets, first, next, IsLevel, level
  <2>1. first \in Sets /\ next \in [Nat -> [Sets -> Sets]]
    BY <1>1
  <2> QED BY <2>1, NatRecursion
<1>3. IsLevel(f)
  <2>1. ASSUME NEW n \in Nat, n # 0
        PROVE  f[n] = f[n - 1] \cup ParentsOf(f[n - 1])
    <3>1. n - 1 \in Nat /\ (n - 1) + 1 = n
      BY <2>1
    <3>2. f[n] = next[n - 1][f[n - 1]] /\ f[n - 1] \in Sets
      BY <1>2, <3>1 DEF IsRecursion
    <3> HIDE DEF Sets
    <3> QED BY <3>1, <3>2
  <2> HIDE DEF first
  <2> QED BY <1>2, <2>1 DEF IsRecursion
<1>4. IsLevel(level)
  <2> HIDE DEF IsLevel
  <2> QED BY <1>3
<1>5. Within(e) = level
  BY DEF Within, ParentsOf
<1> HIDE DEF level, Sets
<1>6. level[0] = first
  BY <1>4
<1>7. ASSUME NEW n \in Nat
      PROVE  level[n + 1] = level[n] \cup ParentsOf(level[n])
  <2>1. n + 1 \in Nat /\ n + 1 # 0 /\ (n + 1) - 1 = n
    OBVIOUS
  <2> QED BY <1>4, <2>1
<1>8. \A n \in Nat : level[n] \in Sets
  <2> DEFINE Bad == {n \in Nat : level[n] \notin Sets}
  <2> SUFFICES ASSUME Bad # {}
               PROVE  FALSE
    OBVIOUS
  <2>1. PICK n \in Bad : \A k \in Bad : n <= k
    <3>1. Bad \in SUBSET Nat
      OBVIOUS
    <3> HIDE DEF Bad
    <3> QED BY <3>1, LeastNatural
  <2>2. n # 0
    BY <1>1, <1>6
  <2>3. n - 1 \in Nat /\ ~(n <= n - 1) /\ (n - 1) + 1 = n
    BY <2>2
  <2>4. level[n - 1] \in Sets
    BY <2>1, <2>3
  <2>5. level[n] = next[n - 1][level[n - 1]]
    BY <1>7, <2>3, <2>4
  <2>6. next[n - 1] \in [Sets -> Sets]
    BY <1>1, <2>3
  <2> HIDE DEF next
  <2> QED BY <2>4, <2>5, <2>6
<1>9. level \in [Nat -> Sets]
  <2>1. level = [n \in Nat |-> level[n]]
    BY <1>4
  <2> QED BY <1>8, <2>1
<1> QED BY <1>5, <1>6, <1>7, <1>9 DEF Sets

\* A parent is at most one level further.
LEMMA ParentWithin ==
  ASSUME NEW e \in Commit, NEW n \in Nat, NEW c \in Within(e)[n], NEW p \in ParentSet(c)
  PROVE  p \in Within(e)[n + 1]
<1>1. Within(e)[n + 1] = Within(e)[n] \cup ParentsOf(Within(e)[n])
  BY WithinLevels
<1>2. p \in ParentsOf(Within(e)[n])
  BY DEF ParentsOf
<1> QED BY <1>1, <1>2

\* All levels hold ancestors only.
LEMMA WithinAncestry ==
  ASSUME NEW e \in Commit, NEW n \in Nat
  PROVE  Within(e)[n] \subseteq Ancestry[e]
<1> DEFINE Bad == {k \in Nat : ~(Within(e)[k] \subseteq Ancestry[e])}
<1> SUFFICES ASSUME Bad # {}
             PROVE  FALSE
  OBVIOUS
<1>1. PICK k \in Bad : \A j \in Bad : k <= j
  <2>1. Bad \in SUBSET Nat
    OBVIOUS
  <2> HIDE DEF Bad
  <2> QED BY <2>1, LeastNatural
<1>2. k # 0
  BY WithinLevels, AncestryTyped
<1>3. k - 1 \in Nat /\ ~(k <= k - 1) /\ (k - 1) + 1 = k
  BY <1>2
<1>4. Within(e)[k - 1] \subseteq Ancestry[e]
  BY <1>1, <1>3
<1>5. Within(e)[k] = Within(e)[k - 1] \cup ParentsOf(Within(e)[k - 1])
  BY <1>3, WithinLevels
<1> QED BY <1>4, <1>5, AncestryClosed DEF ClosedUnderParents, ParentsOf

\* There are at most as many levels as commits.
LEMMA AncestryWithin ==
  ASSUME NEW e \in Commit
  PROVE  Cardinality(Commit) \in Nat /\ Ancestry[e] \subseteq Within(e)[Cardinality(Commit)]
<1> DEFINE N == Cardinality(Commit)
           f == Within(e)
<1>1. N \in Nat
  BY FiniteIds, FS_CardinalityType
<1>2. f[N + 1] = f[N]
  <2>1. f \in [Nat -> SUBSET Commit]
    BY WithinLevels
  <2>2. \A n \in Nat : f[n] \subseteq f[n + 1]
    BY WithinLevels
  <2>3. ASSUME NEW n \in Nat, f[n + 1] = f[n]
        PROVE  f[n + 2] = f[n + 1]
    <3>1. n + 1 \in Nat /\ (n + 1) + 1 = n + 2
      OBVIOUS
    <3>2. f[n + 2] = f[n + 1] \cup ParentsOf(f[n + 1])
      BY WithinLevels, <3>1
    <3> QED BY WithinLevels, <2>3, <3>2
  <2> HIDE DEF f
  <2> QED BY <2>1, <2>2, <2>3, LevelsSettle, FiniteIds
<1> HIDE DEF N
<1>3. ClosedUnderParents(f[N]) /\ f[N] \in SUBSET Commit
  BY <1>1, <1>2, WithinLevels, ParentWithin DEF ClosedUnderParents
<1>4. e \in f[N]
  <2> DEFINE Bad == {k \in Nat : e \notin f[k]}
  <2> SUFFICES ASSUME Bad # {}
               PROVE  FALSE
    BY <1>1
  <2>1. PICK k \in Bad : \A j \in Bad : k <= j
    <3>1. Bad \in SUBSET Nat
      OBVIOUS
    <3> HIDE DEF Bad
    <3> QED BY <3>1, LeastNatural
  <2>2. k # 0
    BY WithinLevels
  <2>3. k - 1 \in Nat /\ ~(k <= k - 1) /\ (k - 1) + 1 = k
    BY <2>2
  <2>4. f[k] = f[k - 1] \cup ParentsOf(f[k - 1])
    BY <2>3, WithinLevels
  <2> QED BY <2>1, <2>3, <2>4
<1>5. Ancestry[e] \subseteq f[N]
  BY <1>3, <1>4, ClosedHoldsAncestry
<1> QED BY <1>1, <1>5 DEF N

\* Depth is the number of the first level that holds an ancestor.
LEMMA DepthIsFirstLevel ==
  ASSUME NEW e \in Commit, NEW c \in Ancestry[e]
  PROVE  /\ Depth(e, c) \in Nat
         /\ c \in Within(e)[Depth(e, c)]
         /\ \A k \in 0..(Depth(e, c) - 1) : c \notin Within(e)[k]
<1> DEFINE N == Cardinality(Commit)
           At(n) == c \in Within(e)[n] /\ \A k \in 0..(n - 1) : c \notin Within(e)[k]
           Levels == {n \in 0..N : c \in Within(e)[n]}
<1>1. N \in Nat /\ N \in Levels
  BY AncestryWithin
<1> HIDE DEF N
<1>2. PICK n \in Levels : \A k \in Levels : n <= k
  <2>1. Levels \in SUBSET Nat
    BY <1>1
  <2> HIDE DEF Levels
  <2> QED BY <1>1, <2>1, LeastNatural
<1>3. n \in 0..N /\ At(n)
  <2>1. ASSUME NEW k \in 0..(n - 1)
        PROVE  c \notin Within(e)[k]
    <3>1. k \in 0..N /\ ~(n <= k)
      BY <1>1
    <3> QED BY <1>2, <3>1
  <2> QED BY <2>1
<1>4. Depth(e, c) = CHOOSE m \in 0..N : At(m)
  BY DEF Depth, N
<1> HIDE DEF At
<1>5. Depth(e, c) \in 0..N /\ At(Depth(e, c))
  BY <1>3, <1>4
<1> QED BY <1>1, <1>5 DEF At

\* And the only such number.
LEMMA DepthIsUnique ==
  ASSUME NEW e \in Commit, NEW c \in Commit, NEW n \in Nat, c \in Within(e)[n],
         \A k \in 0..(n - 1) : c \notin Within(e)[k]
  PROVE  c \in Ancestry[e] /\ n = Depth(e, c)
<1>1. c \in Ancestry[e]
  BY WithinAncestry
<1>2. /\ Depth(e, c) \in Nat /\ c \in Within(e)[Depth(e, c)]
      /\ \A k \in 0..(Depth(e, c) - 1) : c \notin Within(e)[k]
  BY <1>1, DepthIsFirstLevel
<1> DEFINE m == Depth(e, c)
<1> HIDE DEF m
<1>3. ~(m < n) /\ ~(n < m)
  BY <1>2 DEF m
<1> QED BY <1>1, <1>2, <1>3 DEF m

-----------------------------------------------------------------------------
(***************************************************************************)
(* The queue.                                                              *)
(***************************************************************************)

\* q holds only records of depth n whose ids are parents of c outside S, and
\* one for every such parent.
QueuesParents(q, ps, n, S) ==
  /\ q \in Seq(QueuedCommit)
  /\ \A k \in DOMAIN q : q[k].depth = n /\ q[k].id \in ps \ S
  /\ \A p \in ps \ S : \E k \in DOMAIN q : q[k].id = p /\ q[k].depth = n

\* One turn of the loop over the parents.
LEMMA QueueOneParent ==
  ASSUME NEW q, NEW ps \in SUBSET Commit, NEW n \in Nat, NEW S,
         QueuesParents(q, ps, n, S), NEW p \in Commit
  PROVE  /\ p \in S => QueuesParents(q, ps \cup {p}, n, S)
         /\ p \notin S => QueuesParents(Append(q, Queued(p, n)), ps \cup {p}, n, S)
<1>1. p \in S => QueuesParents(q, ps \cup {p}, n, S)
  BY DEF QueuesParents
<1>2. ASSUME p \notin S
      PROVE  QueuesParents(Append(q, Queued(p, n)), ps \cup {p}, n, S)
  <2> DEFINE record == Queued(p, n)
             t == Append(q, record)
  <2>1. record \in QueuedCommit /\ record.id = p /\ record.depth = n /\ q \in Seq(QueuedCommit)
    BY DEF QueuedCommit, Queued, QueuesParents
  <2> HIDE DEF record
  <2>2. /\ t \in Seq(QueuedCommit) /\ Len(q) \in Nat
        /\ DOMAIN t = 1..(Len(q) + 1) /\ DOMAIN q = 1..Len(q)
        /\ \A k \in DOMAIN q : t[k] = q[k]
        /\ t[Len(q) + 1] = record
    BY <2>1
  <2> HIDE DEF t
  <2>3. ASSUME NEW k \in DOMAIN t
        PROVE  t[k].depth = n /\ t[k].id \in (ps \cup {p}) \ S
    <3>1. CASE k \in DOMAIN q
      BY <2>2, <3>1 DEF QueuesParents
    <3>2. CASE k \notin DOMAIN q
      <4>1. t[k] = record
        BY <2>2, <3>2
      <4> QED BY <1>2, <2>1, <4>1
    <3> QED BY <3>1, <3>2
  <2>4. ASSUME NEW e \in (ps \cup {p}) \ S
        PROVE  \E k \in DOMAIN t : t[k].id = e /\ t[k].depth = n
    <3>1. CASE e \in ps
      <4>1. PICK k \in DOMAIN q : q[k].id = e /\ q[k].depth = n
        BY <2>4, <3>1 DEF QueuesParents
      <4>2. k \in DOMAIN t /\ t[k] = q[k]
        BY <2>2
      <4> QED BY <4>1, <4>2
    <3>2. CASE e = p
      <4>1. Len(q) + 1 \in DOMAIN t
        BY <2>2
      <4> QED BY <2>1, <2>2, <3>2, <4>1
    <3> QED BY <2>4, <3>1, <3>2
  <2> QED BY <2>2, <2>3, <2>4 DEF QueuesParents, t, record
<1> QED BY <1>1, <1>2

\* The loop queues the parents h does not hold.
LEMMA NewParentsAreQueued ==
  ASSUME NEW c \in Commit, NEW d \in Nat, NEW h
  PROVE  QueuesParents(NewParents(c, d, h), ParentSet(c), d + 1, DOMAIN h)
<1> DEFINE Queue == Seq(QueuedCommit)
           ps == Parents[c]
           n == Len(ps)
           Turn(i, q) == IF ps[i] \in DOMAIN h THEN q ELSE Append(q, Queued(ps[i], d + 1))
           first == <<>>
           next == [i \in Nat |-> [q \in Queue |-> IF i + 1 \in 1..n THEN Turn(i + 1, q) ELSE q]]
           IsUpTo(u) == u = [i \in 0..n |-> IF i = 0 THEN first
                                            ELSE IF ps[i] \in DOMAIN h THEN u[i - 1]
                                            ELSE Append(u[i - 1], Queued(ps[i], d + 1))]
           upTo == CHOOSE u : IsUpTo(u)
<1>1. ps \in Seq(Commit) /\ n \in Nat /\ \A i \in 1..n : ps[i] \in Commit
  BY CommitDagAssumption
<1>2. \A i \in 1..n : Queued(ps[i], d + 1) \in QueuedCommit
  BY <1>1 DEF Queued, QueuedCommit
<1>3. first \in Queue /\ next \in [Nat -> [Queue -> Queue]]
  <2>1. ASSUME NEW i \in Nat, NEW q \in Queue
        PROVE  (IF i + 1 \in 1..n THEN Turn(i + 1, q) ELSE q) \in Queue
    <3> HIDE DEF ps, n
    <3> QED BY <1>2
  <2> HIDE DEF Turn, Queue
  <2>2. next \in [Nat -> [Queue -> Queue]]
    BY <2>1
  <2> QED BY <2>2 DEF Queue
<1>4. PICK f \in [Nat -> Queue] : IsRecursion(f, first, next)
  <2> HIDE DEF Queue, first, next, IsUpTo, upTo
  <2>1. first \in Queue /\ next \in [Nat -> [Queue -> Queue]]
    BY <1>3
  <2> QED BY <2>1, NatRecursion
<1> HIDE DEF Queue
<1>5. f[0] = first /\ \A i \in 1..n : f[i] = Turn(i, f[i - 1])
  <2>1. ASSUME NEW i \in 1..n
        PROVE  f[i] = Turn(i, f[i - 1])
    <3>1. i - 1 \in Nat /\ (i - 1) + 1 = i
      BY <1>1
    <3>2. f[i] = next[i - 1][f[i - 1]] /\ f[i - 1] \in Queue
      BY <1>4, <3>1 DEF IsRecursion
    <3> HIDE DEF Turn, n
    <3> QED BY <3>1, <3>2
  <2> QED BY <1>4, <2>1 DEF IsRecursion
<1>6. \E u : IsUpTo(u)
  <2> DEFINE u == [i \in 0..n |-> f[i]]
  <2>1. u[0] = first
    BY <1>1, <1>5
  <2>2. \A i \in 0..n : i # 0 => i \in 1..n /\ i - 1 \in 0..n
    BY <1>1
  <2>3. \A i \in 1..n : u[i] = Turn(i, u[i - 1])
    BY <1>1, <1>5, <2>2
  <2>4. IsUpTo(u)
    <3> HIDE DEF first, ps, n
    <3> QED BY <2>1, <2>2, <2>3
  <2> HIDE DEF IsUpTo
  <2> QED BY <2>4
<1>7. IsUpTo(upTo)
  <2> HIDE DEF IsUpTo
  <2> QED BY <1>6
<1>8. NewParents(c, d, h) = upTo[n]
  BY DEF NewParents
<1> HIDE DEF upTo
<1>9. upTo[0] = <<>> /\ \A i \in 1..n : upTo[i] = Turn(i, upTo[i - 1])
  <2>1. \A i \in 1..n : i \in 0..n /\ i # 0
    BY <1>1
  <2>2. 0 \in 0..n
    BY <1>1
  <2> QED BY <1>7, <2>1, <2>2
<1> DEFINE upToSet(i) == {ps[j] : j \in 1..i}
           Fine(i) == QueuesParents(upTo[i], upToSet(i), d + 1, DOMAIN h)
<1>10. Fine(0)
  <2>1. upToSet(0) = {} /\ <<>> \in Seq(QueuedCommit) /\ DOMAIN <<>> = {}
    OBVIOUS
  <2> HIDE DEF upToSet
  <2> QED BY <1>9, <2>1 DEF QueuesParents
<1>11. ASSUME NEW i \in 1..n, Fine(i - 1)
       PROVE  Fine(i)
  <2>1. upToSet(i) = upToSet(i - 1) \cup {ps[i]} /\ upToSet(i - 1) \subseteq Commit
    <3>1. 1..i = 1..(i - 1) \cup {i} /\ 1..(i - 1) \subseteq 1..n
      BY <1>1
    <3> HIDE DEF ps, n
    <3> QED BY <1>1, <3>1
  <2>2. ps[i] \in Commit /\ d + 1 \in Nat
    BY <1>1
  <2> DEFINE before == upTo[i - 1]
             held == DOMAIN h
             parent == ps[i]
             queued == upToSet(i - 1)
  <2>3. QueuesParents(before, queued, d + 1, held)
    BY <1>11
  <2>4. upTo[i] = IF parent \in held THEN before ELSE Append(before, Queued(parent, d + 1))
    BY <1>9
  <2> HIDE DEF before, held, parent, queued
  <2>5. parent \in Commit /\ queued \in SUBSET Commit
    BY <2>1, <2>2 DEF parent, queued
  <2>6. QueuesParents(upTo[i], queued \cup {parent}, d + 1, held)
    <3>1. /\ parent \in held => QueuesParents(before, queued \cup {parent}, d + 1, held)
          /\ parent \notin held => QueuesParents(Append(before, Queued(parent, d + 1)),
                                                queued \cup {parent}, d + 1, held)
      BY <2>2, <2>3, <2>5, QueueOneParent
    <3> QED BY <2>4, <3>1
  <2> QED BY <2>1, <2>6 DEF queued, parent, held
<1>12. \A i \in 0..n : Fine(i)
  <2> DEFINE Bad == {i \in 0..n : ~Fine(i)}
  <2> SUFFICES ASSUME Bad # {}
               PROVE  FALSE
    OBVIOUS
  <2>1. PICK i \in Bad : \A k \in Bad : i <= k
    <3>1. Bad \in SUBSET Nat
      BY <1>1
    <3> HIDE DEF Bad
    <3> QED BY <3>1, LeastNatural
  <2> HIDE DEF Fine
  <2>2. i \in 1..n /\ i - 1 \in 0..n /\ ~(i <= i - 1)
    BY <1>1, <1>10
  <2> QED BY <1>11, <2>1, <2>2
<1>13. upToSet(n) = ParentSet(c)
  BY <1>1 DEF ParentSet
<1>14. n \in 0..n
  BY <1>1
<1> QED BY <1>8, <1>12, <1>13, <1>14

\* What is queued is a commit with a depth.
LEMMA QueueElements ==
  ASSUME NEW q \in Seq(QueuedCommit)
  PROVE  \A i \in DOMAIN q : q[i].id \in Commit /\ q[i].depth \in Nat
<1>1. \A i \in DOMAIN q : q[i] \in QueuedCommit
  OBVIOUS
<1> QED BY <1>1 DEF QueuedCommit

\* The head of a queue and its tail are its elements.
LEMMA HeadAndTail ==
  ASSUME NEW q \in Seq(QueuedCommit), q # <<>>
  PROVE  /\ Head(q) = q[1] /\ 1 \in DOMAIN q /\ Head(q) \in QueuedCommit
         /\ DOMAIN q = 1..Len(q) /\ Len(q) \in Nat
         /\ Tail(q) \in Seq(QueuedCommit) /\ Len(Tail(q)) = Len(q) - 1
         /\ DOMAIN Tail(q) = 1..(Len(q) - 1)
         /\ \A i \in DOMAIN Tail(q) : i + 1 \in DOMAIN q /\ Tail(q)[i] = q[i + 1]
         /\ \A i \in DOMAIN q : i # 1 => i - 1 \in DOMAIN Tail(q) /\ Tail(q)[i - 1] = q[i]
OBVIOUS

\* ab holds the elements of a, then those of b.
IsConcat(ab, a, b) ==
  /\ ab \in Seq(QueuedCommit)
  /\ \A i \in DOMAIN a : i \in DOMAIN ab /\ ab[i] = a[i]
  /\ \A k \in DOMAIN b : Len(a) + k \in DOMAIN ab /\ ab[Len(a) + k] = b[k]
  /\ \A i \in DOMAIN ab :
       \/ i \in DOMAIN a
       \/ i - Len(a) \in DOMAIN b /\ ab[i] = b[i - Len(a)] /\ i > Len(a)
  /\ DOMAIN a = 1..Len(a) /\ Len(a) \in Nat

LEMMA ConcatElements ==
  ASSUME NEW a \in Seq(QueuedCommit), NEW b \in Seq(QueuedCommit)
  PROVE  IsConcat(a \o b, a, b)
BY DEF IsConcat

-----------------------------------------------------------------------------
(***************************************************************************)
(* The frontier of a walk.                                                 *)
(***************************************************************************)
Depths(h) == DOMAIN h \subseteq Commit /\ \A c \in DOMAIN h : h[c] \in Nat

\* A commit on some level was visited by then, or the queue is not past it.
LEMMA FrontierSees ==
  ASSUME NEW q \in Seq(QueuedCommit), NEW h, Depths(h), NEW e \in Commit, Frontier(q, h, e)
  PROVE  \A k \in Nat : \A x \in Within(e)[k] :
           (x \in DOMAIN h /\ h[x] <= k) \/ \E i \in DOMAIN q : q[i].depth <= k
<1> DEFINE Seen(k) == \A x \in Within(e)[k] :
                        (x \in DOMAIN h /\ h[x] <= k) \/ \E i \in DOMAIN q : q[i].depth <= k
           Bad == {k \in Nat : ~Seen(k)}
<1> SUFFICES ASSUME Bad # {}
             PROVE  FALSE
  OBVIOUS
<1>0. \A i \in DOMAIN q : q[i].id \in Commit /\ q[i].depth \in Nat
  BY QueueElements
<1>1. PICK k \in Bad : \A j \in Bad : k <= j
  <2>1. Bad \in SUBSET Nat
    OBVIOUS
  <2> HIDE DEF Bad
  <2> QED BY <2>1, LeastNatural
<1>2. k # 0
  <2>1. Met(q, h, e, 0)
    BY DEF Frontier
  <2>2. Seen(0)
    BY <2>1, WithinLevels DEF Met
  <2> QED BY <2>2
<1>3. k - 1 \in Nat /\ ~(k <= k - 1) /\ (k - 1) + 1 = k /\ k \in Nat
  BY <1>2
<1>4. Seen(k - 1)
  BY <1>1, <1>3
<1>5. ASSUME NEW x \in Within(e)[k]
      PROVE  (x \in DOMAIN h /\ h[x] <= k) \/ \E i \in DOMAIN q : q[i].depth <= k
  <2>1. ASSUME NEW y \in Within(e)[k - 1]
        PROVE  \/ y \in DOMAIN h /\ h[y] <= k - 1
               \/ \E i \in DOMAIN q : q[i].depth <= k
    <3>1. CASE y \in DOMAIN h /\ h[y] <= k - 1
      BY <3>1
    <3>2. ASSUME NEW i \in DOMAIN q, q[i].depth <= k - 1
          PROVE  q[i].depth <= k
      BY <1>0, <1>3, <3>2
    <3> QED BY <1>4, <3>1, <3>2
  <2>2. CASE x \in Within(e)[k - 1]
    <3>1. x \in DOMAIN h /\ h[x] <= k - 1 => h[x] <= k
      BY <1>3 DEF Depths
    <3> QED BY <2>1, <2>2, <3>1
  <2>3. ASSUME NEW y \in Within(e)[k - 1], x \in ParentSet(y)
        PROVE  (x \in DOMAIN h /\ h[x] <= k) \/ \E i \in DOMAIN q : q[i].depth <= k
    <3>1. CASE y \in DOMAIN h /\ h[y] <= k - 1
      <4>1. Met(q, h, x, h[y] + 1)
        BY <2>3, <3>1 DEF Frontier
      <4>2. h[y] \in Nat /\ h[y] + 1 <= k
        BY <1>3, <3>1 DEF Depths
      <4>3. CASE x \in DOMAIN h /\ h[x] <= h[y] + 1
        BY <1>3, <4>2, <4>3 DEF Depths
      <4>4. ASSUME NEW i \in DOMAIN q, q[i].depth <= h[y] + 1
            PROVE  q[i].depth <= k
        BY <1>0, <1>3, <4>2, <4>4
      <4> QED BY <4>1, <4>3, <4>4 DEF Met
    <3> QED BY <2>1, <3>1
  <2>4. x \in Within(e)[k - 1] \/ \E y \in Within(e)[k - 1] : x \in ParentSet(y)
    BY <1>3, WithinLevels DEF ParentsOf
  <2> QED BY <2>2, <2>3, <2>4
<1> QED BY <1>1, <1>5

\* The head of the queue is on no level before its own, unless visited.
LEMMA HeadIsShortest ==
  ASSUME NEW q \in Seq(QueuedCommit), q # <<>>, NEW h, Depths(h), NEW e \in Commit,
         Frontier(q, h, e), Head(q).id \notin DOMAIN h
  PROVE  /\ OnPath(e, Head(q).id, Head(q).depth)
         /\ \A k \in 0..(Head(q).depth - 1) : ~OnPath(e, Head(q).id, k)
<1>1. Head(q) = q[1] /\ 1 \in DOMAIN q /\ Head(q) \in QueuedCommit /\ DOMAIN q = 1..Len(q)
      /\ \A i \in DOMAIN q : q[i].depth \in Nat
  BY HeadAndTail, QueueElements
<1>2. \A i \in DOMAIN q : Head(q).depth <= q[i].depth
  <2>1. ASSUME NEW i \in DOMAIN q
        PROVE  Head(q).depth <= q[i].depth
    <3>1. i = 1 \/ 1 < i
      BY <1>1
    <3> QED BY <1>1, <3>1 DEF Frontier, InLevels
  <2> QED BY <2>1
<1>3. ASSUME NEW k \in 0..(Head(q).depth - 1), Head(q).id \in Within(e)[k]
      PROVE  FALSE
  <2>1. k \in Nat /\ Head(q).depth \in Nat /\ k < Head(q).depth
    BY <1>1
  <2>2. PICK i \in DOMAIN q : q[i].depth <= k
    BY <1>3, <2>1, FrontierSees
  <2> QED BY <1>1, <1>2, <2>1, <2>2
<1> QED BY <1>1, <1>3 DEF Frontier, OnPath

\* Dropping a visited commit keeps the frontier.
LEMMA SkipKeepsFrontier ==
  ASSUME NEW q \in Seq(QueuedCommit), q # <<>>, NEW h, Depths(h), NEW e \in Commit,
         Frontier(q, h, e), Head(q).id \in DOMAIN h
  PROVE  Frontier(Tail(q), h, e)
<1> DEFINE t == Tail(q)
<1>1. /\ Head(q) = q[1] /\ 1 \in DOMAIN q
      /\ DOMAIN q = 1..Len(q) /\ DOMAIN t = 1..(Len(q) - 1) /\ Len(q) \in Nat
      /\ \A i \in DOMAIN t : i + 1 \in DOMAIN q /\ t[i] = q[i + 1]
      /\ \A i \in DOMAIN q : i # 1 => i - 1 \in DOMAIN t /\ t[i - 1] = q[i]
      /\ \A i \in DOMAIN q : q[i].depth \in Nat
  BY HeadAndTail, QueueElements
<1> HIDE DEF t
<1>2. ASSUME NEW c, NEW n \in Nat, Met(q, h, c, n)
      PROVE  Met(t, h, c, n)
  <2>1. CASE c \in DOMAIN h /\ h[c] <= n
    BY <2>1 DEF Met
  <2>2. ASSUME NEW i \in DOMAIN q, q[i].id = c, q[i].depth <= n
        PROVE  Met(t, h, c, n)
    <3>1. CASE i = 1
      <4>1. c \in DOMAIN h /\ h[c] <= q[1].depth /\ h[c] \in Nat
        BY <1>1, <2>2, <3>1 DEF Frontier, Depths
      <4> QED BY <1>1, <2>2, <3>1, <4>1 DEF Met
    <3>2. CASE i # 1
      BY <1>1, <2>2, <3>2 DEF Met
    <3> QED BY <3>1, <3>2
  <2> QED BY <1>2, <2>1, <2>2 DEF Met
<1>3. \A i \in DOMAIN t : OnPath(e, t[i].id, t[i].depth)
  BY <1>1 DEF Frontier
<1>4. InLevels(t)
  <2>1. ASSUME NEW i \in DOMAIN t, NEW j \in DOMAIN t
        PROVE  /\ i < j => t[i].depth <= t[j].depth
               /\ t[j].depth <= t[i].depth + 1
    <3>1. i + 1 \in DOMAIN q /\ j + 1 \in DOMAIN q /\ (i < j => i + 1 < j + 1)
          /\ t[i] = q[i + 1] /\ t[j] = q[j + 1]
      BY <1>1
    <3> QED BY <3>1 DEF Frontier, InLevels
  <2> QED BY <2>1 DEF InLevels
<1>5. \A c \in DOMAIN h : \A i \in DOMAIN t : h[c] <= t[i].depth
  BY <1>1 DEF Frontier
<1>6. Met(t, h, e, 0)
  BY <1>2 DEF Frontier
<1>7. \A c \in DOMAIN h : \A p \in ParentSet(c) : Met(t, h, p, h[c] + 1)
  BY <1>2 DEF Frontier, Depths
<1> QED BY <1>3, <1>4, <1>5, <1>6, <1>7 DEF Frontier, t

\* Visiting a commit and queueing its new parents keeps the frontier.
LEMMA VisitKeepsFrontier ==
  ASSUME NEW q \in Seq(QueuedCommit), q # <<>>, NEW h, Depths(h), NEW e \in Commit,
         Frontier(q, h, e), Head(q).id \notin DOMAIN h,
         NEW g, DOMAIN g = DOMAIN h \cup {Head(q).id}, g[Head(q).id] = Head(q).depth,
         \A c \in DOMAIN h : g[c] = h[c],
         NEW parents,
         QueuesParents(parents, ParentSet(Head(q).id), Head(q).depth + 1, DOMAIN g)
  PROVE  Tail(q) \o parents \in Seq(QueuedCommit) /\ Frontier(Tail(q) \o parents, g, e)
<1> DEFINE t == Tail(q)
           s == t \o parents
           c == Head(q).id
           d == Head(q).depth
<1>1. /\ Head(q) = q[1] /\ 1 \in DOMAIN q /\ c \in Commit /\ d \in Nat
      /\ DOMAIN q = 1..Len(q) /\ DOMAIN t = 1..(Len(q) - 1) /\ Len(q) \in Nat
      /\ \A i \in DOMAIN t : i + 1 \in DOMAIN q /\ t[i] = q[i + 1]
      /\ \A i \in DOMAIN q : i # 1 => i - 1 \in DOMAIN t /\ t[i - 1] = q[i]
      /\ \A i \in DOMAIN q : q[i].depth \in Nat
      /\ t \in Seq(QueuedCommit)
  BY HeadAndTail, QueueElements
<1>2. /\ parents \in Seq(QueuedCommit)
      /\ \A k \in DOMAIN parents :
           parents[k].depth = d + 1 /\ parents[k].id \in ParentSet(c) \ DOMAIN g
      /\ \A p \in ParentSet(c) \ DOMAIN g :
           \E k \in DOMAIN parents : parents[k].id = p /\ parents[k].depth = d + 1
  BY DEF QueuesParents
<1> HIDE DEF t
<1>3. /\ s \in Seq(QueuedCommit)
      /\ \A i \in DOMAIN t : i \in DOMAIN s /\ s[i] = t[i]
      /\ \A k \in DOMAIN parents : Len(t) + k \in DOMAIN s /\ s[Len(t) + k] = parents[k]
      /\ \A i \in DOMAIN s : \/ i \in DOMAIN t
                             \/ /\ i - Len(t) \in DOMAIN parents /\ i > Len(t)
                                /\ s[i] = parents[i - Len(t)]
      /\ DOMAIN t = 1..Len(t) /\ Len(t) \in Nat
  <2>1. IsConcat(t \o parents, t, parents)
    BY <1>1, <1>2, ConcatElements
  <2>2. IsConcat(s, t, parents)
    BY <2>1
  <2> HIDE DEF s
  <2> QED BY <2>2 DEF IsConcat
<1>4. \A i \in DOMAIN q : d <= q[i].depth /\ q[i].depth <= d + 1
  <2>1. ASSUME NEW i \in DOMAIN q
        PROVE  d <= q[i].depth /\ q[i].depth <= d + 1
    <3>1. i = 1 \/ 1 < i
      BY <1>1
    <3> QED BY <1>1, <3>1 DEF Frontier, InLevels
  <2> QED BY <2>1
<1> HIDE DEF s
\* What is queued afterwards: what was, and the parents one level down.
<1>5. ASSUME NEW i \in DOMAIN s
      PROVE  \/ i \in DOMAIN t /\ i + 1 \in DOMAIN q /\ s[i] = q[i + 1]
             \/ i > Len(t) /\ s[i].depth = d + 1 /\ s[i].id \in ParentSet(c)
  <2>1. CASE i \in DOMAIN t
    BY <1>1, <1>3, <2>1
  <2>2. CASE i \notin DOMAIN t
    <3>1. i - Len(t) \in DOMAIN parents /\ i > Len(t) /\ s[i] = parents[i - Len(t)]
      BY <1>3, <2>2
    <3> HIDE DEF c, d
    <3> QED BY <1>2, <3>1
  <2> QED BY <2>1, <2>2
<1>6. \A i \in DOMAIN s : s[i].depth \in Nat /\ d <= s[i].depth /\ s[i].depth <= d + 1
  BY <1>1, <1>4, <1>5
<1>7. \A i \in DOMAIN s : OnPath(e, s[i].id, s[i].depth)
  <2>1. OnPath(e, c, d)
    BY <1>1 DEF Frontier
  <2>2. \A p \in ParentSet(c) : OnPath(e, p, d + 1)
    BY <1>1, <2>1, ParentWithin DEF OnPath
  <2> QED BY <1>5, <2>2 DEF Frontier
<1>8. InLevels(s)
  <2>1. ASSUME NEW i \in DOMAIN s, NEW j \in DOMAIN s
        PROVE  s[j].depth <= s[i].depth + 1
    BY <1>1, <1>6
  <2>2. ASSUME NEW i \in DOMAIN s, NEW j \in DOMAIN s, i < j
        PROVE  s[i].depth <= s[j].depth
    <3>1. CASE s[j].depth = d + 1
      BY <1>6, <3>1
    <3>2. CASE i \in DOMAIN t /\ j \in DOMAIN t
      <4>1. i + 1 \in DOMAIN q /\ j + 1 \in DOMAIN q /\ i + 1 < j + 1
            /\ s[i] = q[i + 1] /\ s[j] = q[j + 1]
        BY <1>1, <1>3, <2>2, <3>2
      <4> QED BY <4>1 DEF Frontier, InLevels
    <3>3. j \in DOMAIN t => i \in DOMAIN t
      BY <1>1, <1>3, <1>5, <2>2
    <3> QED BY <1>5, <3>1, <3>2, <3>3
  <2> QED BY <2>1, <2>2 DEF InLevels
<1>9. \A x \in DOMAIN g : g[x] <= d /\ g[x] \in Nat
  BY <1>1 DEF Frontier, Depths
<1>10. \A x \in DOMAIN g : \A i \in DOMAIN s : g[x] <= s[i].depth
  BY <1>1, <1>6, <1>9
<1>11. ASSUME NEW x, NEW n \in Nat, Met(q, h, x, n)
       PROVE  Met(s, g, x, n)
  <2>1. CASE x \in DOMAIN h /\ h[x] <= n
    BY <2>1 DEF Met
  <2>2. ASSUME NEW i \in DOMAIN q, q[i].id = x, q[i].depth <= n
        PROVE  Met(s, g, x, n)
    <3>1. CASE i = 1
      BY <1>1, <2>2, <3>1 DEF Met
    <3>2. CASE i # 1
      <4>1. i - 1 \in DOMAIN s /\ s[i - 1] = q[i]
        BY <1>1, <1>3, <3>2
      <4> QED BY <2>2, <4>1 DEF Met
    <3> QED BY <3>1, <3>2
  <2> QED BY <1>11, <2>1, <2>2 DEF Met
<1>12. Met(s, g, e, 0)
  BY <1>11 DEF Frontier
<1>13. ASSUME NEW x \in DOMAIN g, NEW p \in ParentSet(x)
       PROVE  Met(s, g, p, g[x] + 1)
  <2>1. CASE x \in DOMAIN h
    <3>1. Met(q, h, p, h[x] + 1) /\ h[x] + 1 \in Nat /\ g[x] = h[x]
      BY <1>13, <2>1 DEF Frontier, Depths
    <3> QED BY <1>11, <3>1
  <2>2. CASE x = c
    <3>1. CASE p \in DOMAIN g
      <4>1. g[p] <= d + 1
        BY <1>1, <1>9, <3>1
      <4> QED BY <2>2, <3>1, <4>1 DEF Met
    <3>2. CASE p \notin DOMAIN g
      <4>1. PICK k \in DOMAIN parents : parents[k].id = p /\ parents[k].depth = d + 1
        BY <1>2, <1>13, <2>2, <3>2
      <4>2. Len(t) + k \in DOMAIN s /\ s[Len(t) + k].id = p /\ s[Len(t) + k].depth = d + 1
        BY <1>3, <4>1
      <4> QED BY <1>1, <2>2, <4>2 DEF Met
    <3> QED BY <3>1, <3>2
  <2> QED BY <1>13, <2>1, <2>2
<1>14. Frontier(s, g, e)
  BY <1>7, <1>8, <1>10, <1>12, <1>13 DEF Frontier
<1> QED BY <1>3, <1>14 DEF s, t

\* When the queue is empty the walk has been everywhere.
LEMMA EmptyFrontier ==
  ASSUME NEW q, q = <<>>, NEW h, Depths(h), NEW e \in Commit, Frontier(q, h, e), Shortest(h, e)
  PROVE  DOMAIN h = Ancestry[e]
<1>1. DOMAIN q = {}
  OBVIOUS
<1>2. e \in DOMAIN h /\ \A c \in DOMAIN h : ParentSet(c) \subseteq DOMAIN h
  BY <1>1 DEF Frontier, Met
<1>3. Ancestry[e] \subseteq DOMAIN h
  BY <1>2, ClosedHoldsAncestry DEF ClosedUnderParents, Depths
<1>4. DOMAIN h \subseteq Ancestry[e]
  BY WithinAncestry DEF Shortest, OnPath, Depths
<1> QED BY <1>3, <1>4

-----------------------------------------------------------------------------
(***************************************************************************)
(* Nearer is a strict total order on common ancestors.                     *)
(***************************************************************************)
LEMMA NearerOrder ==
  ASSUME NEW s \in Commit, NEW t \in Commit
  PROVE  /\ \A a \in CommonAncestors(s, t) : TotalDepth(s, t, a) \in Nat /\ MaxDepth(s, t, a) \in Nat
         /\ \A a, b \in CommonAncestors(s, t) :
              /\ a # b => Nearer(s, t, a, b) \/ Nearer(s, t, b, a)
              /\ Nearer(s, t, a, b) => ~Nearer(s, t, b, a)
         /\ \A a, b, c \in CommonAncestors(s, t) :
              Nearer(s, t, a, b) /\ Nearer(s, t, b, c) => Nearer(s, t, a, c)
<1> DEFINE total(a) == TotalDepth(s, t, a)
           longest(a) == MaxDepth(s, t, a)
<1>1. ASSUME NEW a \in CommonAncestors(s, t)
      PROVE  total(a) \in Nat /\ longest(a) \in Nat /\ a \in Commit /\ IdRank[a] \in Nat
  <2>1. a \in Ancestry[s] /\ a \in Ancestry[t] /\ a \in Commit
    BY AncestryTyped DEF CommonAncestors
  <2>2. Depth(s, a) \in Nat /\ Depth(t, a) \in Nat
    BY <2>1, DepthIsFirstLevel
  <2> QED BY <2>1, <2>2, MergeBaseAssumption DEF TotalDepth, MaxDepth
<1>2. \A a, b : Nearer(s, t, a, b) <=>
        \/ total(a) < total(b)
        \/ /\ total(a) = total(b)
           /\ \/ longest(a) < longest(b)
              \/ longest(a) = longest(b) /\ IdRank[a] < IdRank[b]
  BY DEF Nearer
<1> HIDE DEF total, longest
<1>3. ASSUME NEW a \in CommonAncestors(s, t), NEW b \in CommonAncestors(s, t)
      PROVE  /\ a # b => Nearer(s, t, a, b) \/ Nearer(s, t, b, a)
             /\ Nearer(s, t, a, b) => ~Nearer(s, t, b, a)
  <2>1. IdRank[a] = IdRank[b] => a = b
    BY <1>1, MergeBaseAssumption
  <2> QED BY <1>1, <1>2, <2>1
<1>4. ASSUME NEW a \in CommonAncestors(s, t), NEW b \in CommonAncestors(s, t),
             NEW c \in CommonAncestors(s, t), Nearer(s, t, a, b), Nearer(s, t, b, c)
      PROVE  Nearer(s, t, a, c)
  BY <1>1, <1>2, <1>4
<1> QED BY <1>1, <1>3, <1>4 DEF total, longest

-----------------------------------------------------------------------------
(***************************************************************************)
(* The invariant of the call.                                              *)
(***************************************************************************)

\* At first one commit is queued and nothing was visited.
LEMMA StartFrontier ==
  ASSUME NEW e \in Commit, NEW h, DOMAIN h = {}
  PROVE  <<Queued(e, 0)>> \in Seq(QueuedCommit) /\ Frontier(<<Queued(e, 0)>>, h, e)
<1> DEFINE record == Queued(e, 0)
           q == <<record>>
<1>1. record \in QueuedCommit /\ record.id = e /\ record.depth = 0
  BY DEF Queued, QueuedCommit
<1> HIDE DEF record
<1>2. q \in Seq(QueuedCommit) /\ DOMAIN q = {1} /\ q[1] = record
  BY <1>1
<1> HIDE DEF q
<1>3. OnPath(e, e, 0)
  BY WithinLevels DEF OnPath
<1>4. Met(q, h, e, 0)
  BY <1>1, <1>2 DEF Met
<1>5. InLevels(q)
  BY <1>1, <1>2 DEF InLevels
<1>6. \A i \in DOMAIN q : OnPath(e, q[i].id, q[i].depth)
  BY <1>1, <1>2, <1>3
<1>7. Frontier(q, h, e)
  BY <1>4, <1>5, <1>6 DEF Frontier
<1> QED BY <1>2, <1>7 DEF q, record

LEMMA InitWalkInv == WalkInit => WalkInv
<1> SUFFICES ASSUME WalkInit PROVE WalkInv
  OBVIOUS
<1>1. /\ pc = "source" /\ ends \in [Side -> Commit] /\ ends["source"] \in Commit
      /\ DOMAIN history = Side /\ \A s \in Side : DOMAIN history[s] = {}
      /\ queue = <<Queued(ends["source"], 0)>>
  BY DEF WalkInit, Side, NoHistory
<1>2. queue \in Seq(QueuedCommit) /\ Frontier(queue, history["source"], ends["source"])
  BY <1>1, StartFrontier DEF Side
<1>3. WalkTypeOK
  BY <1>1, <1>2 DEF WalkInit, WalkTypeOK, Side
<1>4. \A s \in Side : Shortest(history[s], ends[s])
                      /\ Cardinality(DOMAIN history[s]) <= MaxMergeAncestryCommits
  <2>1. ASSUME NEW s \in Side PROVE Shortest(history[s], ends[s])
    BY <1>1 DEF Shortest
  <2>2. Cardinality({}) = 0
    BY FS_EmptySet
  <2>3. ASSUME NEW s \in Side PROVE Cardinality(DOMAIN history[s]) <= MaxMergeAncestryCommits
    <3>1. DOMAIN history[s] = {}
      BY <1>1
    <3>2. Cardinality(DOMAIN history[s]) = 0
      BY <2>2, <3>1
    <3> QED BY <3>2, MergeBaseAssumption
  <2> QED BY <2>1, <2>3
<1>5. WalksInv
  BY <1>1, <1>2, <1>4 DEF WalksInv, Walked, Side
<1>6. ChoiceInv /\ TooDeepInv
  BY <1>1 DEF WalkInit, ChoiceInv, TooDeepInv, Side
<1> QED BY <1>3, <1>5, <1>6 DEF WalkInv

\* The history of the walk under way.
LEMMA WalkUnderWay ==
  ASSUME WalkInv, pc \in Side
  PROVE  /\ queue \in Seq(QueuedCommit) /\ ends[pc] \in Commit
         /\ Depths(history[pc]) /\ Shortest(history[pc], ends[pc])
         /\ Frontier(queue, history[pc], ends[pc])
         /\ IsFiniteSet(DOMAIN history[pc]) /\ DOMAIN history[pc] \subseteq Ancestry[ends[pc]]
         /\ Cardinality(DOMAIN history[pc]) \in Nat
         /\ Cardinality(DOMAIN history[pc]) <= MaxMergeAncestryCommits
<1>1. /\ queue \in Seq(QueuedCommit) /\ ends[pc] \in Commit
      /\ Depths(history[pc]) /\ Shortest(history[pc], ends[pc])
      /\ Frontier(queue, history[pc], ends[pc])
      /\ Cardinality(DOMAIN history[pc]) <= MaxMergeAncestryCommits
  BY DEF WalkInv, WalkTypeOK, WalksInv, Depths
<1>2. IsFiniteSet(DOMAIN history[pc])
  BY <1>1, FiniteIds, FS_Subset DEF Depths
<1>3. DOMAIN history[pc] \subseteq Ancestry[ends[pc]]
  BY <1>1, WithinAncestry DEF Shortest, OnPath, Depths
<1> QED BY <1>1, <1>2, <1>3, FS_CardinalityType

LEMMA SkipSeenInv == WalkInv /\ SkipSeen => WalkInv'
<1> SUFFICES ASSUME WalkInv, SkipSeen PROVE WalkInv'
  OBVIOUS
<1>1. /\ pc \in Side /\ queue # <<>> /\ queue' = Tail(queue)
      /\ Head(queue).id \in DOMAIN history[pc]
      /\ UNCHANGED <<pc, ends, history, rest, ancestor>>
  BY DEF SkipSeen
<1>2. queue' \in Seq(QueuedCommit) /\ Frontier(queue', history[pc], ends[pc])
  BY <1>1, WalkUnderWay, HeadAndTail, SkipKeepsFrontier
<1>3. WalkTypeOK'
  BY <1>1, <1>2 DEF WalkInv, WalkTypeOK
<1>4. WalksInv'
  BY <1>1, <1>2 DEF WalkInv, WalksInv, Walked
<1>5. ChoiceInv' /\ TooDeepInv'
  BY <1>1 DEF WalkInv, ChoiceInv, TooDeepInv
<1> QED BY <1>3, <1>4, <1>5 DEF WalkInv

\* One more commit than the limit is an ancestor.
LEMMA GiveUpInv == WalkInv /\ GiveUp => WalkInv'
<1> SUFFICES ASSUME WalkInv, GiveUp PROVE WalkInv'
  OBVIOUS
<1> DEFINE c == Head(queue).id
           e == ends[pc]
           H == DOMAIN history[pc]
<1>1. /\ pc \in Side /\ queue # <<>> /\ c \notin H
      /\ Cardinality(H) = MaxMergeAncestryCommits /\ pc' = "tooDeep"
      /\ UNCHANGED <<ends, queue, history, rest, ancestor>>
  BY DEF GiveUp, AtLimit
<1>2. /\ e \in Commit /\ IsFiniteSet(H) /\ H \subseteq Ancestry[e] /\ Cardinality(H) \in Nat
      /\ queue \in Seq(QueuedCommit) /\ Frontier(queue, history[pc], e)
  BY <1>1, WalkUnderWay
<1>3. c \in Ancestry[e]
  <2>1. Head(queue) = queue[1] /\ 1 \in DOMAIN queue /\ Head(queue).depth \in Nat
    BY <1>1, <1>2, HeadAndTail, QueueElements
  <2>2. c \in Within(e)[Head(queue).depth]
    BY <1>2, <2>1 DEF Frontier, OnPath
  <2> QED BY <1>2, <2>1, <2>2, WithinAncestry
<1>4. HistoryTooDeep(e)
  <2>1. IsFiniteSet(Ancestry[e])
    BY <1>2, AncestryTyped, FiniteIds, FS_Subset
  <2>2. IsFiniteSet(H \cup {c}) /\ Cardinality(H \cup {c}) = Cardinality(H) + 1
    BY <1>1, <1>2, FS_AddElement
  <2>3. H \cup {c} \subseteq Ancestry[e]
    BY <1>2, <1>3
  <2>4. Cardinality(H \cup {c}) <= Cardinality(Ancestry[e]) /\ Cardinality(Ancestry[e]) \in Nat
    BY <2>1, <2>3, FS_Subset, FS_CardinalityType
  <2> HIDE DEF H, c
  <2> QED BY <1>1, <1>2, <2>2, <2>4, MergeBaseAssumption DEF HistoryTooDeep
<1>5. WalkTypeOK' /\ WalksInv'
  BY <1>1 DEF WalkInv, WalkTypeOK, WalksInv, Side
<1>6. ChoiceInv' /\ TooDeepInv'
  BY <1>1, <1>4 DEF ChoiceInv, TooDeepInv, Side
<1> QED BY <1>5, <1>6 DEF WalkInv

LEMMA VisitInv == WalkInv /\ Visit => WalkInv'
<1> SUFFICES ASSUME WalkInv, Visit PROVE WalkInv'
  OBVIOUS
<1> DEFINE c == Head(queue)
           e == ends[pc]
           h == history[pc]
           g == Recorded(h, c)
           parents == NewParents(c.id, c.depth, g)
<1>1. /\ pc \in Side /\ queue # <<>> /\ c.id \notin DOMAIN h
      /\ Cardinality(DOMAIN h) # MaxMergeAncestryCommits
      /\ history' = [history EXCEPT ![pc] = g]
      /\ queue' = Tail(queue) \o parents
      /\ UNCHANGED <<pc, ends, rest, ancestor>>
  BY DEF Visit, AtLimit, Enqueue
<1>2. /\ e \in Commit /\ Depths(h) /\ Shortest(h, e) /\ Frontier(queue, h, e)
      /\ queue \in Seq(QueuedCommit) /\ IsFiniteSet(DOMAIN h) /\ Cardinality(DOMAIN h) \in Nat
      /\ Cardinality(DOMAIN h) <= MaxMergeAncestryCommits
  BY <1>1, WalkUnderWay
<1>3. c.id \in Commit /\ c.depth \in Nat
  BY <1>1, <1>2, HeadAndTail, QueueElements
<1>4. /\ DOMAIN g = DOMAIN h \cup {c.id} /\ g[c.id] = c.depth
      /\ \A x \in DOMAIN h : g[x] = h[x]
  BY <1>1 DEF Recorded
<1> HIDE DEF g
<1>5. QueuesParents(parents, ParentSet(c.id), c.depth + 1, DOMAIN g)
  BY <1>3, NewParentsAreQueued
<1> HIDE DEF parents
<1>6. queue' \in Seq(QueuedCommit) /\ Frontier(queue', g, e)
  BY <1>1, <1>2, <1>4, <1>5, VisitKeepsFrontier
<1>7. /\ OnPath(e, c.id, c.depth) /\ \A k \in 0..(c.depth - 1) : ~OnPath(e, c.id, k)
  BY <1>1, <1>2, HeadIsShortest
<1>8. Depths(g) /\ Shortest(g, e)
  BY <1>2, <1>3, <1>4, <1>7 DEF Depths, Shortest
<1>9. Cardinality(DOMAIN g) <= MaxMergeAncestryCommits
  <2>1. Cardinality(DOMAIN g) = Cardinality(DOMAIN h) + 1
    BY <1>1, <1>2, <1>4, FS_AddElement
  <2> QED BY <1>1, <1>2, <2>1, MergeBaseAssumption
<1>10. /\ DOMAIN history' = Side /\ history'[pc] = g
       /\ \A s \in Side \ {pc} : history'[s] = history[s]
  BY <1>1 DEF WalkInv, WalkTypeOK
<1> HIDE DEF c, e, h
<1>11. WalkTypeOK'
  BY <1>1, <1>6, <1>8, <1>10 DEF WalkInv, WalkTypeOK, Depths
<1>12. WalksInv'
  <2>1. Frontier(queue, history[pc], ends[pc])'
    BY <1>1, <1>6, <1>10 DEF e
  <2>2. \A s \in Side : /\ Shortest(history'[s], ends'[s])
                        /\ Cardinality(DOMAIN history'[s]) <= MaxMergeAncestryCommits
    BY <1>1, <1>8, <1>9, <1>10 DEF WalkInv, WalksInv, e
  <2>3. pc' = "source" => DOMAIN history'["target"] = {}
    BY <1>1, <1>10 DEF WalkInv, WalksInv, Side
  <2>4. \A s \in Walked' : DOMAIN history'[s] = Ancestry[ends'[s]]
    BY <1>1, <1>10 DEF WalkInv, WalksInv, Walked, Side
  <2> QED BY <1>1, <2>1, <2>2, <2>3, <2>4 DEF WalksInv
<1>13. ChoiceInv' /\ TooDeepInv'
  BY <1>1 DEF WalkInv, ChoiceInv, TooDeepInv, Side
<1> QED BY <1>11, <1>12, <1>13 DEF WalkInv

LEMMA NextWalkInv == WalkInv /\ NextWalk => WalkInv'
<1> SUFFICES ASSUME WalkInv, NextWalk PROVE WalkInv'
  OBVIOUS
<1>1. /\ pc = "source" /\ queue = <<>> /\ pc' = "target"
      /\ queue' = <<Queued(ends["target"], 0)>>
      /\ UNCHANGED <<ends, history, rest, ancestor>>
  BY DEF NextWalk
<1>2. DOMAIN history["source"] = Ancestry[ends["source"]]
  BY <1>1, WalkUnderWay, EmptyFrontier DEF Side
<1>3. DOMAIN history["target"] = {} /\ ends["target"] \in Commit
  BY <1>1 DEF WalkInv, WalksInv, WalkTypeOK, Side
<1>4. queue' \in Seq(QueuedCommit) /\ Frontier(queue', history["target"], ends["target"])
  BY <1>1, <1>3, StartFrontier
<1>5. WalkTypeOK'
  BY <1>1, <1>4 DEF WalkInv, WalkTypeOK, Side
<1>6. WalksInv'
  BY <1>1, <1>2, <1>4 DEF WalkInv, WalksInv, Walked
<1>7. ChoiceInv' /\ TooDeepInv'
  BY <1>1 DEF WalkInv, ChoiceInv, TooDeepInv, Side
<1> QED BY <1>5, <1>6, <1>7 DEF WalkInv

LEMMA StartChoiceInv == WalkInv /\ StartChoice => WalkInv'
<1> SUFFICES ASSUME WalkInv, StartChoice PROVE WalkInv'
  OBVIOUS
<1>1. /\ pc = "target" /\ queue = <<>> /\ pc' = "choose"
      /\ rest' = DOMAIN history["source"]
      /\ UNCHANGED <<ends, queue, history, ancestor>>
  BY DEF StartChoice
<1>2. DOMAIN history["target"] = Ancestry[ends["target"]]
  BY <1>1, WalkUnderWay, EmptyFrontier DEF Side
<1>3. DOMAIN history["source"] = Ancestry[ends["source"]]
  BY <1>1 DEF WalkInv, WalksInv, Walked
<1>4. WalkTypeOK'
  BY <1>1 DEF WalkInv, WalkTypeOK, Side
<1>5. WalksInv'
  BY <1>1, <1>2, <1>3 DEF WalkInv, WalksInv, Walked, Side
<1>6. ChoiceInv' /\ TooDeepInv'
  BY <1>1, <1>3 DEF WalkInv, ChoiceInv, TooDeepInv, Side, CommonAncestors
<1> QED BY <1>4, <1>5, <1>6 DEF WalkInv

\* Depths on first levels are the distances of MergeBase.
LEMMA HistoriesHoldDepths ==
  ASSUME WalkInv, NEW s \in Side, NEW c \in DOMAIN history[s]
  PROVE  c \in Ancestry[ends[s]] /\ history[s][c] = Depth(ends[s], c) /\ c \in Commit
<1>1. ends[s] \in Commit /\ c \in Commit /\ history[s][c] \in Nat
  BY DEF WalkInv, WalkTypeOK
<1>2. /\ c \in Within(ends[s])[history[s][c]]
      /\ \A k \in 0..(history[s][c] - 1) : c \notin Within(ends[s])[k]
  BY DEF WalkInv, WalksInv, Shortest, OnPath
<1> QED BY <1>1, <1>2, DepthIsUnique

\* Once the walks are over the loop compares the distances of MergeBase.
LEMMA ChoiceComparesDistances ==
  ASSUME WalkInv, pc \in {"choose", "done"}
  PROVE  /\ \A s \in Side : DOMAIN history[s] = Ancestry[ends[s]]
         /\ \A c \in CommonAncestors(ends["source"], ends["target"]) :
              /\ Distance(c) = TotalDepth(ends["source"], ends["target"], c)
              /\ MaximumDepth(c) = MaxDepth(ends["source"], ends["target"], c)
         /\ \A c \in CommonAncestors(ends["source"], ends["target"]) :
              ancestor \in CommonAncestors(ends["source"], ends["target"]) =>
                (Improves(c) <=> \/ ancestor = NoCommit
                                 \/ Nearer(ends["source"], ends["target"], c, ancestor))
<1> DEFINE s == ends["source"]
           t == ends["target"]
<1>1. \A z \in Side : DOMAIN history[z] = Ancestry[ends[z]]
  BY DEF WalkInv, WalksInv, Walked, Side
<1>2. ASSUME NEW c \in CommonAncestors(s, t)
      PROVE  /\ history["source"][c] = Depth(s, c)
             /\ history["target"][c] = Depth(t, c)
  BY <1>1, HistoriesHoldDepths DEF CommonAncestors, Side
<1>3. ASSUME NEW c \in CommonAncestors(s, t)
      PROVE  Distance(c) = TotalDepth(s, t, c) /\ MaximumDepth(c) = MaxDepth(s, t, c)
  BY <1>2 DEF Distance, MaximumDepth, TotalDepth, MaxDepth
<1>4. ASSUME NEW c \in CommonAncestors(s, t), ancestor \in CommonAncestors(s, t)
      PROVE  Improves(c) <=> ancestor = NoCommit \/ Nearer(s, t, c, ancestor)
  BY <1>3, <1>4 DEF Improves, Nearer
<1> QED BY <1>1, <1>3, <1>4

LEMMA ConsiderInv == WalkInv /\ Consider => WalkInv'
<1> SUFFICES ASSUME WalkInv, Consider PROVE WalkInv'
  OBVIOUS
<1> DEFINE s == ends["source"]
           t == ends["target"]
           common == CommonAncestors(s, t)
           seen == common \ rest
<1>1. PICK c \in rest :
        /\ rest' = rest \ {c}
        /\ ancestor' = IF c \in DOMAIN history["target"] /\ Improves(c) THEN c ELSE ancestor
  BY DEF Consider
<1>2. pc = "choose" /\ UNCHANGED <<pc, ends, queue, history>>
  BY DEF Consider
<1>3. /\ s \in Commit /\ t \in Commit /\ rest \subseteq Commit /\ NoCommit \notin Commit
      /\ common \subseteq Commit
  BY AncestryTyped, CommitDagAssumption DEF WalkInv, WalkTypeOK, Side, CommonAncestors
<1>4. /\ rest \subseteq Ancestry[s]
      /\ ancestor = NoCommit => seen = {}
      /\ ancestor # NoCommit =>
           ancestor \in seen /\ \A b \in seen \ {ancestor} : Nearer(s, t, ancestor, b)
  BY <1>2 DEF WalkInv, ChoiceInv
<1>5. DOMAIN history["target"] = Ancestry[t]
  BY <1>2, ChoiceComparesDistances DEF Side
<1>6. c \in DOMAIN history["target"] <=> c \in common
  BY <1>4, <1>5 DEF CommonAncestors
<1>7. common \ rest' = IF c \in common THEN seen \cup {c} ELSE seen
  BY <1>1
<1> DEFINE found == /\ rest' \subseteq Ancestry[s]
                    /\ ancestor' = NoCommit => common \ rest' = {}
                    /\ ancestor' # NoCommit =>
                         /\ ancestor' \in common \ rest'
                         /\ \A b \in (common \ rest') \ {ancestor'} : Nearer(s, t, ancestor', b)
<1>8. found
  <2>1. rest' \subseteq Ancestry[s]
    BY <1>1, <1>4
  <2>2. CASE c \notin common
    BY <1>1, <1>4, <1>6, <1>7, <2>1, <2>2
  <2>3. CASE c \in common /\ ancestor = NoCommit
    <3>1. ancestor' = c /\ common \ rest' = {c} /\ c # NoCommit
      BY <1>1, <1>3, <1>4, <1>6, <1>7, <2>3 DEF Improves
    <3> QED BY <2>1, <3>1
  <2>4. CASE c \in common /\ ancestor # NoCommit
    <3>1. ancestor \in common /\ ancestor \in seen /\ c \notin seen /\ c # ancestor
      BY <1>4, <2>4
    <3>2. Improves(c) <=> Nearer(s, t, c, ancestor)
      BY <1>2, <2>4, <3>1, ChoiceComparesDistances
    <3>3. CASE Improves(c)
      <4>1. ancestor' = c
        BY <1>1, <1>6, <2>4, <3>3
      <4>2. ASSUME NEW b \in (seen \cup {c}) \ {c} PROVE Nearer(s, t, c, b)
        BY <1>3, <1>4, <2>4, <3>1, <3>2, <3>3, NearerOrder
      <4> QED BY <1>3, <1>7, <2>1, <2>4, <4>1, <4>2
    <3>4. CASE ~Improves(c)
      <4>1. ancestor' = ancestor
        BY <1>1, <3>4
      <4>2. Nearer(s, t, ancestor, c)
        BY <1>3, <2>4, <3>1, <3>2, <3>4, NearerOrder
      <4> QED BY <1>4, <1>7, <2>1, <2>4, <4>1, <4>2
    <3> QED BY <3>3, <3>4
  <2> QED BY <2>2, <2>3, <2>4
<1>9. WalkTypeOK'
  BY <1>1, <1>2, <1>3 DEF WalkInv, WalkTypeOK
<1>10. WalksInv'
  BY <1>2 DEF WalkInv, WalksInv, Walked, Side
<1>11. ChoiceInv' /\ TooDeepInv'
  BY <1>2, <1>8 DEF ChoiceInv, TooDeepInv, Side
<1> QED BY <1>9, <1>10, <1>11 DEF WalkInv

LEMMA AnswerInv == WalkInv /\ Answer => WalkInv'
<1> SUFFICES ASSUME WalkInv, Answer PROVE WalkInv'
  OBVIOUS
<1>1. /\ pc = "choose" /\ rest = {} /\ pc' = "done"
      /\ UNCHANGED <<ends, queue, history, rest, ancestor>>
  BY DEF Answer
<1>2. WalkTypeOK' /\ WalksInv'
  BY <1>1 DEF WalkInv, WalkTypeOK, WalksInv, Walked, Side
<1>3. ChoiceInv' /\ TooDeepInv'
  BY <1>1 DEF WalkInv, ChoiceInv, TooDeepInv, Side
<1> QED BY <1>2, <1>3 DEF WalkInv

LEMMA WalkInvStep == WalkInv /\ [WalkNext]_walkVars => WalkInv'
<1>1. WalkInv /\ UNCHANGED walkVars => WalkInv'
  BY DEF walkVars, WalkInv, WalkTypeOK, WalksInv, Walked, ChoiceInv, TooDeepInv
<1> QED
  BY <1>1, SkipSeenInv, GiveUpInv, VisitInv, NextWalkInv, StartChoiceInv, ConsiderInv,
     AnswerInv DEF WalkNext

-----------------------------------------------------------------------------
(***************************************************************************)
(* Every state of a call satisfies the invariant above: the queue of       *)
(* collectMergeAncestry stays in order of depth over two levels, and the   *)
(* loop of FindLowestCommonAncestor holds the nearest commit it ranged     *)
(* over.                                                                   *)
(***************************************************************************)
THEOREM WalkInvariant == WalkSpec => []WalkInv
<1>1. WalkInit => WalkInv
  BY InitWalkInv
<1>2. WalkInv /\ [WalkNext]_walkVars => WalkInv'
  BY WalkInvStep
<1> QED BY <1>1, <1>2, PTL DEF WalkSpec

(***************************************************************************)
(* The depth collectMergeAncestry records at the first visit of a commit   *)
(* is its distance from the start, whatever paths lead to it: the visited  *)
(* check at the head of the queue never keeps a longer one.                *)
(***************************************************************************)
THEOREM WalkDepthsAreShortest == WalkSpec => []DepthsAreShortest
<1>1. WalkInv => DepthsAreShortest
  BY HistoriesHoldDepths DEF DepthsAreShortest
<1> QED BY <1>1, WalkInvariant, PTL

(***************************************************************************)
(* In any graph, and for any order the runtime ranges over the map in,     *)
(* FindLowestCommonAncestor answers the one nearest common ancestor, and   *)
(* ErrCommitHistoryTooDeep only when a history is over the limit.          *)
(***************************************************************************)
THEOREM WalkAnswersNearest == WalkSpec => []AnswerIsNearest
<1>1. WalkInv => AnswerIsNearest
  <2> SUFFICES ASSUME WalkInv PROVE AnswerIsNearest
    OBVIOUS
  <2> DEFINE s == ends["source"]
             t == ends["target"]
             common == CommonAncestors(s, t)
  <2>1. ASSUME pc = "done"
        PROVE  /\ ~HistoryTooDeep(s) /\ ~HistoryTooDeep(t)
               /\ ancestor = FindLowestCommonAncestor(s, t)
    <3>1. /\ \A z \in Side : DOMAIN history[z] = Ancestry[ends[z]]
          /\ \A z \in Side : Cardinality(DOMAIN history[z]) <= MaxMergeAncestryCommits
      BY <2>1, ChoiceComparesDistances DEF WalkInv, WalksInv
    <3>2. ~HistoryTooDeep(s) /\ ~HistoryTooDeep(t)
      <4>1. ASSUME NEW z \in Side PROVE ~HistoryTooDeep(ends[z])
        <5>1. /\ Cardinality(Ancestry[ends[z]]) \in Nat
              /\ Cardinality(Ancestry[ends[z]]) <= MaxMergeAncestryCommits
          <6>1. ends[z] \in Commit
            BY DEF WalkInv, WalkTypeOK
          <6>2. IsFiniteSet(Ancestry[ends[z]])
            BY <6>1, AncestryTyped, FiniteIds, FS_Subset
          <6> QED BY <3>1, <6>2, FS_CardinalityType
        <5> QED BY <5>1, MergeBaseAssumption DEF HistoryTooDeep
      <4> QED BY <4>1 DEF Side
    <3>3. /\ s \in Commit /\ t \in Commit
          /\ ancestor = NoCommit => common = {}
          /\ ancestor # NoCommit =>
               ancestor \in common /\ \A b \in common \ {ancestor} : Nearer(s, t, ancestor, b)
      BY <2>1 DEF WalkInv, WalkTypeOK, ChoiceInv, Side
    <3>4. CASE ancestor = NoCommit
      BY <3>2, <3>3, <3>4 DEF FindLowestCommonAncestor
    <3>5. CASE ancestor # NoCommit
      <4> DEFINE Best(a) == \A b \in common \ {a} : Nearer(s, t, a, b)
      <4>1. \A a \in common : Best(a) => a = ancestor
        BY <3>3, <3>5, NearerOrder
      <4>2. ancestor \in common /\ Best(ancestor)
        BY <3>3, <3>5
      <4>3. common # {}
           /\ FindLowestCommonAncestor(s, t) = CHOOSE a \in common : Best(a)
        BY <3>2, <4>2 DEF FindLowestCommonAncestor
      <4> HIDE DEF Best, common
      <4> QED BY <3>2, <4>1, <4>2, <4>3
    <3> QED BY <3>2, <3>4, <3>5
  <2> QED BY <2>1 DEF AnswerIsNearest, WalkInv, TooDeepInv
<1> QED BY <1>1, WalkInvariant, PTL

-----------------------------------------------------------------------------
(***************************************************************************)
(* What the definition the walk computes says of a merge.                  *)
(***************************************************************************)

\* Of the commits of a set, one has the least value of f.
LEMMA LeastValue ==
  ASSUME NEW S, S # {}, NEW f, \A c \in S : f[c] \in Nat
  PROVE  \E c \in S : \A b \in S : f[c] <= f[b]
<1> DEFINE values == {f[c] : c \in S}
<1>1. values \in SUBSET Nat /\ values # {}
  OBVIOUS
<1> HIDE DEF values
<1>2. PICK n \in values : \A k \in values : n <= k
  BY <1>1, LeastNatural
<1> QED BY <1>2 DEF values

(***************************************************************************)
(* Two histories within the limit that share a commit have one nearest     *)
(* shared commit, which FindLowestCommonAncestor answers: the comparison   *)
(* of distance, depth and id leaves no tie and no cycle.                   *)
(***************************************************************************)
THEOREM MergeBaseIsNearest ==
  ASSUME NEW s \in Commit, NEW t \in Commit,
         ~HistoryTooDeep(s), ~HistoryTooDeep(t), CommonAncestors(s, t) # {}
  PROVE  LET base == MergeBaseOf[s][t] IN
         /\ base \in CommonAncestors(s, t)
         /\ \A b \in CommonAncestors(s, t) \ {base} : Nearer(s, t, base, b)
<1> DEFINE common == CommonAncestors(s, t)
           Best(a) == \A b \in common \ {a} : Nearer(s, t, a, b)
           total == [a \in common |-> TotalDepth(s, t, a)]
           longest == [a \in common |-> MaxDepth(s, t, a)]
           byTotal == {a \in common : \A b \in common : total[a] <= total[b]}
           byLongest == {a \in byTotal : \A b \in byTotal : longest[a] <= longest[b]}
<1>1. /\ \A a \in common : total[a] \in Nat /\ longest[a] \in Nat
      /\ \A a \in common : a \in Commit /\ IdRank[a] \in Nat
  BY NearerOrder, AncestryTyped, MergeBaseAssumption DEF CommonAncestors
<1>2. \A a, b \in common : Nearer(s, t, a, b) <=>
        \/ total[a] < total[b]
        \/ /\ total[a] = total[b]
           /\ \/ longest[a] < longest[b]
              \/ longest[a] = longest[b] /\ IdRank[a] < IdRank[b]
  BY DEF Nearer
<1> HIDE DEF total, longest
<1>3. common # {}
  OBVIOUS
<1>4. byTotal # {}
  <2> HIDE DEF common
  <2>1. \E a \in common : \A b \in common : total[a] <= total[b]
    BY <1>1, <1>3, LeastValue
  <2> QED BY <2>1
<1>5. byLongest # {}
  <2>1. \A a \in byTotal : longest[a] \in Nat
    BY <1>1
  <2> HIDE DEF byTotal
  <2>2. \E a \in byTotal : \A b \in byTotal : longest[a] <= longest[b]
    BY <1>4, <2>1, LeastValue
  <2> QED BY <2>2
<1>6. PICK a \in byLongest : \A b \in byLongest : IdRank[a] <= IdRank[b]
  <2>1. \A b \in byLongest : IdRank[b] \in Nat
    BY <1>1
  <2> HIDE DEF byLongest
  <2> QED BY <1>5, <2>1, LeastValue
<1>7. a \in common /\ Best(a)
  <2>1. a \in common /\ a \in byTotal
    BY <1>6
  <2>2. ASSUME NEW b \in common, b # a
        PROVE  Nearer(s, t, a, b)
    <3>1. total[a] <= total[b] /\ total[a] \in Nat /\ total[b] \in Nat
      BY <1>1, <2>1
    <3>2. total[a] = total[b] => b \in byTotal
      BY <1>1, <2>1
    <3>3. b \in byTotal => longest[a] <= longest[b] /\ longest[a] \in Nat /\ longest[b] \in Nat
      BY <1>1, <1>6
    <3>4. b \in byTotal /\ longest[a] = longest[b] => b \in byLongest
      BY <1>1, <1>6
    <3>5. b \in byLongest => IdRank[a] < IdRank[b]
      <4>1. a \in Commit /\ b \in Commit /\ IdRank[a] \in Nat /\ IdRank[b] \in Nat
        BY <1>1, <2>1
      <4>2. IdRank[a] # IdRank[b]
        BY <2>2, <4>1, MergeBaseAssumption
      <4> QED BY <1>6, <4>1, <4>2
    <3> HIDE DEF byTotal, byLongest, common
    <3> QED BY <1>2, <2>1, <3>1, <3>2, <3>3, <3>4, <3>5
  <2> QED BY <2>1, <2>2
<1> HIDE DEF Best, common, byTotal, byLongest
<1>8. MergeBaseOf[s][t] = CHOOSE c \in common : Best(c)
  BY <1>3 DEF MergeBaseOf, FindLowestCommonAncestor, common, Best
<1>9. MergeBaseOf[s][t] \in common /\ Best(MergeBaseOf[s][t])
  BY <1>7, <1>8
<1> QED BY <1>9 DEF common, Best

(***************************************************************************)
(* The base of a merge does not depend on which branch is the source:      *)
(* FindLowestCommonAncestor answers both directions alike, the refusals    *)
(* included.                                                               *)
(***************************************************************************)
THEOREM MergeBaseIsSymmetric ==
  ASSUME NEW s \in Commit, NEW t \in Commit
  PROVE  MergeBaseOf[s][t] = MergeBaseOf[t][s]
<1> DEFINE common == CommonAncestors(s, t)
<1>1. CommonAncestors(t, s) = common
  BY DEF CommonAncestors
<1>2. ASSUME NEW a \in common, NEW b \in common
      PROVE  Nearer(s, t, a, b) <=> Nearer(t, s, a, b)
  <2>1. ASSUME NEW c \in common
        PROVE  TotalDepth(t, s, c) = TotalDepth(s, t, c) /\ MaxDepth(t, s, c) = MaxDepth(s, t, c)
    <3>1. Depth(s, c) \in Nat /\ Depth(t, c) \in Nat
      BY DepthIsFirstLevel DEF CommonAncestors
    <3> QED BY <3>1 DEF TotalDepth, MaxDepth
  <2> QED BY <2>1 DEF Nearer
<1>3. CASE HistoryTooDeep(s) \/ HistoryTooDeep(t) \/ common = {}
  BY <1>1, <1>3 DEF MergeBaseOf, FindLowestCommonAncestor
<1>4. CASE ~(HistoryTooDeep(s) \/ HistoryTooDeep(t) \/ common = {})
  <2> DEFINE one == MergeBaseOf[s][t]
             other == MergeBaseOf[t][s]
  <2>1. one \in common /\ \A b \in common \ {one} : Nearer(s, t, one, b)
    BY <1>4, MergeBaseIsNearest
  <2>2. other \in common /\ \A b \in common \ {other} : Nearer(t, s, other, b)
    BY <1>1, <1>4, MergeBaseIsNearest
  <2> HIDE DEF one, other
  <2>3. one = other
    <3>1. SUFFICES ASSUME one # other PROVE FALSE
      OBVIOUS
    <3>2. Nearer(s, t, one, other) /\ Nearer(s, t, other, one)
      BY <1>2, <2>1, <2>2, <3>1
    <3> QED BY <2>1, <2>2, <3>2, NearerOrder
  <2> QED BY <2>3 DEF one, other
<1> QED BY <1>3, <1>4

-----------------------------------------------------------------------------
(***************************************************************************)
(* Why a call ends: every step of it lowers a quadruple of naturals, read  *)
(* from left to right: what is still to run, how many commits the walk may *)
(* still visit, how many are queued, how many the loop has to range over.  *)
(***************************************************************************)
ToRun == IF pc = "source" THEN 3 ELSE IF pc = "target" THEN 2 ELSE IF pc = "choose" THEN 1 ELSE 0
ToVisit == IF pc \in Side THEN MaxMergeAncestryCommits - Cardinality(DOMAIN history[pc]) ELSE 0

Descends ==
  \/ ToRun' < ToRun
  \/ /\ ToRun' = ToRun
     /\ \/ ToVisit' < ToVisit
        \/ /\ ToVisit' = ToVisit
           /\ \/ Len(queue') < Len(queue)
              \/ Len(queue') = Len(queue) /\ Cardinality(rest') < Cardinality(rest)

MeasureTyped == ToRun \in Nat /\ ToVisit \in Nat /\ Len(queue) \in Nat /\ Cardinality(rest) \in Nat

(***************************************************************************)
(* FindLowestCommonAncestor makes finitely many steps: a commit that is    *)
(* queued over several paths is skipped, one that is visited counts        *)
(* against the limit, and the choice ranges over each commit once.         *)
(***************************************************************************)
THEOREM WalkDescends == WalkSpec => []MeasureTyped /\ [][Descends]_walkVars
<1>1. ASSUME WalkInv PROVE MeasureTyped
  <2>1. Cardinality(rest) \in Nat
    BY <1>1, FiniteIds, FS_Subset, FS_CardinalityType DEF WalkInv, WalkTypeOK
  <2>2. ToVisit \in Nat
    <3>1. CASE pc \in Side
      BY <1>1, <3>1, WalkUnderWay, MergeBaseAssumption DEF ToVisit
    <3> QED BY <3>1 DEF ToVisit
  <2>3. Len(queue) \in Nat
    BY <1>1 DEF WalkInv, WalkTypeOK
  <2> QED BY <2>1, <2>2, <2>3 DEF MeasureTyped, ToRun
<1>2. ASSUME WalkInv, WalkNext PROVE Descends
  <2>1. CASE SkipSeen
    <3>1. queue \in Seq(QueuedCommit) /\ queue # <<>> /\ queue' = Tail(queue)
          /\ UNCHANGED <<pc, ends, history, rest, ancestor>>
      BY <1>2, <2>1 DEF SkipSeen, WalkInv, WalkTypeOK
    <3>2. Len(queue') < Len(queue)
      BY <3>1
    <3> QED BY <3>1, <3>2 DEF Descends, ToRun, ToVisit
  <2>2. CASE GiveUp \/ NextWalk \/ StartChoice \/ Answer
    BY <2>2 DEF GiveUp, NextWalk, StartChoice, Answer, Descends, ToRun, Side
  <2>3. CASE Visit
    <3> DEFINE c == Head(queue)
               h == history[pc]
    <3>1. pc \in Side /\ c.id \notin DOMAIN h /\ UNCHANGED <<pc, ends, rest, ancestor>>
          /\ history' = [history EXCEPT ![pc] = Recorded(h, c)]
      BY <2>3 DEF Visit
    <3>2. DOMAIN history'[pc'] = DOMAIN h \cup {c.id}
      BY <1>2, <3>1 DEF WalkInv, WalkTypeOK, Recorded
    <3>3. IsFiniteSet(DOMAIN h) /\ Cardinality(DOMAIN h) \in Nat
      BY <1>2, <3>1, WalkUnderWay
    <3>4. Cardinality(DOMAIN history'[pc']) = Cardinality(DOMAIN h) + 1
      BY <3>1, <3>2, <3>3, FS_AddElement
    <3>5. ToVisit' < ToVisit
      <4> HIDE DEF h
      <4>1. ToVisit = MaxMergeAncestryCommits - Cardinality(DOMAIN h)
        BY <3>1 DEF ToVisit, h
      <4>2. ToVisit' = MaxMergeAncestryCommits - (Cardinality(DOMAIN h) + 1)
        BY <3>1, <3>4 DEF ToVisit
      <4> QED BY <3>3, <4>1, <4>2, MergeBaseAssumption
    <3> QED BY <3>1, <3>5 DEF Descends, ToRun
  <2>4. CASE Consider
    <3>1. PICK c \in rest : rest' = rest \ {c}
      BY <2>4 DEF Consider
    <3>2. UNCHANGED <<pc, ends, queue, history>>
      BY <2>4 DEF Consider
    <3>3. IsFiniteSet(rest)
      BY <1>2, FiniteIds, FS_Subset DEF WalkInv, WalkTypeOK
    <3>4. Cardinality(rest') = Cardinality(rest) - 1 /\ Cardinality(rest) \in Nat
      BY <3>1, <3>3, FS_RemoveElement, FS_CardinalityType
    <3>5. Cardinality(rest') < Cardinality(rest)
      BY <3>4
    <3> QED BY <3>2, <3>5 DEF Descends, ToRun, ToVisit
  <2> QED BY <1>2, <2>1, <2>2, <2>3, <2>4 DEF WalkNext
<1> QED BY <1>1, <1>2, WalkInvariant, PTL DEF WalkSpec
=============================================================================
