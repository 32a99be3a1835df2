--------------------------- MODULE RackPull_proofs ---------------------------
(***************************************************************************)
(* Pack ranges lead from every head to the root.  What a pull of v2 packs  *)
(* is sent is the whole history, in order, and what a clone is sent the    *)
(* client's decoder accepts.  For any commit graph, packs and calls.       *)
(***************************************************************************)
EXTENDS RackPull, RackServer_proofs

(***************************************************************************)
(* A step of RackPull is a step of RackServer or leaves it alone, so what  *)
(* steps of RackServer keep is kept here.                                  *)
(***************************************************************************)
LEMMA PullStepsServer == [RackPullNext]_pullVars => [Next]_vars
BY DEF RackPullNext, pullVars, PullNext, vars, storeVars

-----------------------------------------------------------------------------
(***************************************************************************)
(* GetPackRanges.  Packs are reached level by level; there are at most as  *)
(* many levels as ranges.                                                  *)
(***************************************************************************)

\* The ranges that end where one of S starts.
Before(S, known) == RangesTo({p.base : p \in S} \ {known})

LEMMA PackChainLevels ==
  ASSUME IsFiniteSet(packRanges), NEW c, NEW known
  PROVE  \E f \in [Nat -> SUBSET packRanges] :
           /\ f[0] = RangesTo({c})
           /\ \A n \in Nat : f[n + 1] = f[n] \cup Before(f[n], known)
           /\ PackChain(c, known) = f[Cardinality(packRanges)]
<1> DEFINE Packs == SUBSET packRanges
           first == RangesTo({c})
           next == [n \in Nat |-> [x \in Packs |-> x \cup Before(x, known)]]
           IsLevel(l) == l = [n \in Nat |-> IF n = 0 THEN first
                                            ELSE l[n - 1] \cup Before(l[n - 1], known)]
           level == CHOOSE l : IsLevel(l)
<1>1. first \in Packs /\ next \in [Nat -> [Packs -> Packs]]
  BY DEF RangesTo, Before
<1>2. \E l : IsLevel(l)
  <2>1. PICK f \in [Nat -> Packs] : IsRecursion(f, first, next)
    <3> HIDE DEF Packs, first, next, IsLevel, level
    <3>1. first \in Packs /\ next \in [Nat -> [Packs -> Packs]]
      BY <1>1
    <3> QED BY <3>1, NatRecursion
  <2>2. ASSUME NEW n \in Nat, n # 0
        PROVE  f[n] = f[n - 1] \cup Before(f[n - 1], known)
    <3>1. n - 1 \in Nat /\ (n - 1) + 1 = n
      BY <2>2
    <3>2. f[n] = next[n - 1][f[n - 1]] /\ f[n - 1] \in Packs
      BY <2>1, <3>1 DEF IsRecursion
    <3> QED BY <3>1, <3>2
  <2>3. IsLevel(f)
    <3> HIDE DEF first
    <3> QED BY <2>1, <2>2 DEF IsRecursion
  <2> QED BY <2>3
<1>3. IsLevel(level)
  <2> HIDE DEF IsLevel
  <2> QED BY <1>2
<1>4. PackChain(c, known) = {p \in packRanges : p \in level[Cardinality(packRanges)]}
  BY DEF PackChain, Before
<1> HIDE DEF level, Packs
<1>5. level[0] = first /\ \A n \in Nat : level[n + 1] = level[n] \cup Before(level[n], known)
  <2>1. level[0] = first
    BY <1>3
  <2>2. ASSUME NEW n \in Nat
        PROVE  level[n + 1] = level[n] \cup Before(level[n], known)
    <3>1. n + 1 \in Nat /\ n + 1 # 0 /\ (n + 1) - 1 = n
      OBVIOUS
    <3> QED BY <1>3, <3>1
  <2> QED BY <2>1, <2>2
<1>6. \A n \in Nat : level[n] \in Packs
  <2> DEFINE Bad == {n \in Nat : level[n] \notin Packs}
  <2> SUFFICES ASSUME Bad # {}
               PROVE  FALSE
    OBVIOUS
  <2>1. PICK n \in Bad : \A k \in Bad : n <= k
    <3> HIDE DEF Bad
    <3>1. Bad \in SUBSET Nat
      BY DEF Bad
    <3> QED BY <3>1, LeastNatural
  <2>2. n # 0
    BY <1>1, <1>5
  <2>3. n - 1 \in Nat /\ ~(n <= n - 1) /\ (n - 1) + 1 = n
    BY <2>2
  <2>4. level[n - 1] \in Packs
    BY <2>1, <2>3
  <2>5. level[n] = level[n - 1] \cup Before(level[n - 1], known)
    BY <1>5, <2>3
  <2> QED BY <2>4, <2>5 DEF Before, RangesTo, Packs
<1>7. level \in [Nat -> Packs]
  <2>1. level = [n \in Nat |-> level[n]]
    BY <1>3
  <2> QED BY <1>6, <2>1
<1>8. PackChain(c, known) = level[Cardinality(packRanges)]
  <2>1. Cardinality(packRanges) \in Nat
    BY FS_CardinalityType
  <2> QED BY <1>4, <1>6, <2>1 DEF Packs
<1> QED BY <1>5, <1>7, <1>8 DEF Packs

\* A chain holds the ranges that end at c, and those that end where one of
\* its ranges starts, up to the known commit; and nothing else.
LEMMA PackChainIsChain ==
  ASSUME IsFiniteSet(packRanges), NEW c, NEW known
  PROVE  /\ PackChain(c, known) \subseteq packRanges
         /\ RangesTo({c}) \subseteq PackChain(c, known)
         /\ \A p \in PackChain(c, known) :
              p.base # known => RangesTo({p.base}) \subseteq PackChain(c, known)
         /\ \A p \in PackChain(c, known) :
              p.target = c \/ \E q \in PackChain(c, known) : q.base = p.target
<1> DEFINE N == Cardinality(packRanges)
           chain == PackChain(c, known)
<1>1. PICK f \in [Nat -> SUBSET packRanges] :
        /\ f[0] = RangesTo({c})
        /\ \A n \in Nat : f[n + 1] = f[n] \cup Before(f[n], known)
        /\ chain = f[N]
  BY PackChainLevels
<1>2. N \in Nat
  BY FS_CardinalityType
<1> HIDE DEF N, chain
<1>3. f[N + 1] = f[N]
  <2>1. \A n \in Nat : f[n] \subseteq f[n + 1]
    BY <1>1
  <2>2. ASSUME NEW n \in Nat, f[n + 1] = f[n]
        PROVE  f[n + 2] = f[n + 1]
    <3>1. n + 1 \in Nat /\ (n + 1) + 1 = n + 2
      OBVIOUS
    <3>2. f[n + 2] = f[n + 1] \cup Before(f[n + 1], known)
      BY <1>1, <3>1
    <3> QED BY <1>1, <2>2, <3>2
  <2> QED BY <2>1, <2>2, LevelsSettle DEF N
<1>4. Before(chain, known) \subseteq chain
  BY <1>1, <1>2, <1>3
<1>5. \A n \in Nat : RangesTo({c}) \subseteq f[n]
  <2> DEFINE Bad == {n \in Nat : ~(RangesTo({c}) \subseteq f[n])}
  <2> SUFFICES ASSUME Bad # {}
               PROVE  FALSE
    OBVIOUS
  <2>1. PICK n \in Bad : \A k \in Bad : n <= k
    <3>1. Bad \in SUBSET Nat
      OBVIOUS
    <3> HIDE DEF Bad
    <3> QED BY <3>1, LeastNatural
  <2>2. n # 0
    BY <1>1
  <2>3. n - 1 \in Nat /\ ~(n <= n - 1) /\ (n - 1) + 1 = n
    BY <2>2
  <2>4. RangesTo({c}) \subseteq f[n - 1] /\ f[n - 1] \subseteq f[n]
    BY <1>1, <2>1, <2>3
  <2> QED BY <2>4
<1>6. \A n \in Nat : \A p \in f[n] : p.target = c \/ \E q \in f[n] : q.base = p.target
  <2> DEFINE Fine(n) == \A p \in f[n] : p.target = c \/ \E q \in f[n] : q.base = p.target
             Bad == {n \in Nat : ~Fine(n)}
  <2> SUFFICES ASSUME Bad # {}
               PROVE  FALSE
    OBVIOUS
  <2>1. PICK n \in Bad : \A k \in Bad : n <= k
    <3>1. Bad \in SUBSET Nat
      OBVIOUS
    <3> HIDE DEF Bad
    <3> QED BY <3>1, LeastNatural
  <2>2. n # 0
    BY <1>1 DEF RangesTo
  <2>3. n - 1 \in Nat /\ ~(n <= n - 1) /\ (n - 1) + 1 = n
    BY <2>2
  <2>4. Fine(n - 1)
    BY <2>1, <2>3
  <2>5. f[n] = f[n - 1] \cup Before(f[n - 1], known)
    BY <1>1, <2>3
  <2>6. Fine(n)
    BY <2>4, <2>5 DEF Before, RangesTo
  <2> QED BY <2>6
<1>7. chain \subseteq packRanges
  BY <1>1, <1>2
<1>8. \A p \in chain : p.base # known => RangesTo({p.base}) \subseteq chain
  BY <1>4 DEF Before, RangesTo
<1> QED BY <1>1, <1>2, <1>5, <1>6, <1>7, <1>8 DEF chain

\* A chain does not leave a set that ranges lead back into.
LEMMA PackChainStaysIn ==
  ASSUME IsFiniteSet(packRanges), NEW c, NEW known, NEW S, c \in S,
         \A p \in packRanges : p.target \in S => p.base \in S \cup {known}
  PROVE  \A p \in PackChain(c, known) : p.target \in S
<1>1. PICK f \in [Nat -> SUBSET packRanges] :
        /\ f[0] = RangesTo({c})
        /\ \A n \in Nat : f[n + 1] = f[n] \cup Before(f[n], known)
        /\ PackChain(c, known) = f[Cardinality(packRanges)]
  BY PackChainLevels
<1>2. \A n \in Nat : \A p \in f[n] : p.target \in S
  <2> DEFINE Inside(n) == \A p \in f[n] : p.target \in S
             Bad == {n \in Nat : ~Inside(n)}
  <2> SUFFICES ASSUME Bad # {}
               PROVE  FALSE
    OBVIOUS
  <2>1. PICK n \in Bad : \A k \in Bad : n <= k
    <3>1. Bad \in SUBSET Nat
      OBVIOUS
    <3> HIDE DEF Bad
    <3> QED BY <3>1, LeastNatural
  <2>2. n # 0
    BY <1>1 DEF RangesTo
  <2>3. n - 1 \in Nat /\ ~(n <= n - 1) /\ (n - 1) + 1 = n
    BY <2>2
  <2>4. Inside(n - 1)
    BY <2>1, <2>3
  <2>5. f[n] = f[n - 1] \cup Before(f[n - 1], known) /\ f[n - 1] \subseteq packRanges
    BY <1>1, <2>3
  <2>6. Inside(n)
    BY <2>4, <2>5 DEF Before, RangesTo
  <2> QED BY <2>6
<1>3. Cardinality(packRanges) \in Nat
  BY FS_CardinalityType
<1> QED BY <1>1, <1>2, <1>3

(***************************************************************************)
(* Rooted commits: the least set of commits that ranges extend.            *)
(***************************************************************************)
LEMMA RootedExtends ==
  ASSUME packRanges \subseteq Pack
  PROVE  Rooted \subseteq Commit /\ Extends(Rooted)
<1>1. Rooted \subseteq Commit
  BY DEF Rooted
<1>2. ASSUME NEW p \in packRanges, p.base \in Rooted \cup {NoCommit}
      PROVE  p.target \in Rooted
  <2>1. p.target \in Commit
    BY <1>2, RackStoreAssumption DEF PackRecord
  <2>2. ASSUME NEW S \in SUBSET Commit, Extends(S)
        PROVE  p.target \in S
    BY <1>2, <2>2 DEF Extends, Rooted
  <2> QED BY <2>1, <2>2 DEF Rooted
<1> QED BY <1>1, <1>2 DEF Extends

\* A set that ranges extend holds every rooted commit.
LEMMA RootedIsLeast ==
  ASSUME NEW S \in SUBSET Commit, Extends(S)
  PROVE  Rooted \subseteq S
BY DEF Rooted

\* A rooted commit ends a range that starts at one, or at the root.
LEMMA RootedHasRange ==
  ASSUME packRanges \subseteq Pack, NEW c \in Rooted
  PROVE  \E p \in packRanges : p.target = c /\ p.base \in Rooted \cup {NoCommit}
<1> DEFINE S == {e \in Rooted : \E p \in packRanges :
                                  p.target = e /\ p.base \in Rooted \cup {NoCommit}}
<1>1. Rooted \subseteq Commit /\ Extends(Rooted)
  BY RootedExtends
<1>2. Extends(S)
  BY <1>1 DEF Extends
<1>3. S \in SUBSET Commit
  BY <1>1
<1> HIDE DEF S
<1>4. c \in S
  BY <1>2, <1>3, RootedIsLeast
<1> QED BY <1>4 DEF S

(***************************************************************************)
(* When a commit is the target of at most one range, the ranges that lead  *)
(* back from a rooted one reach the root.                                  *)
(***************************************************************************)
LEMMA RootedChainIsComplete ==
  ASSUME IsFiniteSet(packRanges), packRanges \subseteq Pack,
         \A p, q \in packRanges : p.target = q.target => p = q,
         NEW c \in Rooted
  PROVE  CompleteChain(PackChain(c, NoCommit), c, NoCommit)
<1> DEFINE chain == PackChain(c, NoCommit)
           ends == {p.target : p \in chain}
<1>1. /\ Rooted \subseteq Commit /\ Extends(Rooted)
      /\ \A e \in Rooted : \E p \in packRanges :
           p.target = e /\ p.base \in Rooted \cup {NoCommit}
  BY RootedExtends, RootedHasRange
<1>2. \A p \in packRanges : p.target \in Rooted => p.base \in Rooted \cup {NoCommit}
  BY <1>1
<1>3. /\ chain \subseteq packRanges /\ RangesTo({c}) \subseteq chain
      /\ \A p \in chain : p.base # NoCommit => RangesTo({p.base}) \subseteq chain
  BY PackChainIsChain
<1>4. \A p \in chain : p.target \in Rooted
  BY <1>2, PackChainStaysIn
<1> HIDE DEF chain
<1>5. \E p \in chain : p.target = c
  BY <1>1, <1>3 DEF RangesTo
<1>6. ASSUME NEW p \in chain, p.base # NoCommit
      PROVE  \E q \in chain : q.target = p.base
  <2>1. p.base \in Rooted
    BY <1>2, <1>3, <1>4, <1>6
  <2>2. PICK q \in packRanges : q.target = p.base
    BY <1>1, <2>1
  <2> QED BY <1>3, <1>6, <2>2 DEF RangesTo
<1>7. \E p \in chain : p.base = NoCommit
  <2> SUFFICES ASSUME \A p \in chain : p.base # NoCommit
               PROVE  FALSE
    OBVIOUS
  <2>1. ASSUME NEW p \in packRanges, p.base \in (Rooted \ ends) \cup {NoCommit}
        PROVE  p.target \in Rooted \ ends
    <3>1. p.target \in Rooted
      BY <1>1, <2>1 DEF Extends
    <3>2. ASSUME p.target \in ends
          PROVE  FALSE
      <4>1. p \in chain
        BY <1>3, <3>2
      <4> QED BY <1>6, <2>1, <4>1
    <3> QED BY <3>1, <3>2
  <2>2. Extends(Rooted \ ends)
    BY <2>1 DEF Extends
  <2>3. Rooted \ ends \in SUBSET Commit
    BY <1>1
  <2>4. c \in Rooted \ ends
    BY <2>2, <2>3, RootedIsLeast
  <2> QED BY <1>5, <2>4
<1> QED BY <1>5, <1>6, <1>7 DEF CompleteChain, chain

(***************************************************************************)
(* Ranges are only added, and never one for a target that has another.     *)
(***************************************************************************)
LEMMA RangeSteps ==
  ASSUME StoreInv, [Next]_vars
  PROVE  \/ packRanges' = packRanges
         \/ \E p \in Pack : /\ \A q \in packRanges : q.target = p.target => q = p
                            /\ packRanges' = packRanges \cup {p}
<1>1. ASSUME NEW r \in PushReq, PushPutPackRange(r)
      PROVE  \E p \in Pack : /\ \A q \in packRanges : q.target = p.target => q = p
                             /\ packRanges' = packRanges \cup {p}
  BY <1>1 DEF PushPutPackRange, PutPackRange, StoreInv, PushKnows, TypeOK, StoreTypeOK
<1>2. ASSUME NEW r \in PushReq,
             PushWritePack(r) \/ PushFail(r) \/ (PushStep(r) /\ ~PushPutPackRange(r))
      PROVE  packRanges' = packRanges
  BY <1>2 DEF PushStep, PushWritePack, PushFail, PushVerify, PushPutCommit,
     PushRefMissing, PushRefAtBase, PushRefAtTarget, PushRefElsewhere,
     PushIsAncestor, PushCreateBranch, PushCompareAndSwap, storeVars
<1>3. ASSUME NEW m \in MergeReq, MergeApply(m)
      PROVE  \E p \in Pack : /\ \A q \in packRanges : q.target = p.target => q = p
                             /\ packRanges' = packRanges \cup {p}
  <2> DEFINE p == MergePack(merge[m].target, merge[m].result)
  <2>1. p \in Pack
    BY <1>3 DEF MergeApply, StoreInv, MergeKnows, TypeOK, StoreTypeOK
  <2>2. p.target = merge[m].result
    BY DEF MergePack
  <2>3. packRanges' = packRanges \cup {p} /\ \A q \in packRanges : q.target # p.target
    BY <1>3, <2>2 DEF MergeApply, ApplyMerge
  <2> HIDE DEF p
  <2> QED BY <2>1, <2>3
<1>4. ASSUME NEW m \in MergeReq,
             \/ MergeReadSource(m) \/ MergeReadTarget(m) \/ MergeAcquire(m)
             \/ MergeFastForward(m) \/ MergeWritePack(m) \/ MergeFail(m)
      PROVE  packRanges' = packRanges
  BY <1>4 DEF MergeReadSource, MergeReadTarget, MergeAcquire, MergeFastForward,
     MergeWritePack, MergeFail, storeVars
<1>5. LeaseNext \/ BranchAdminNext \/ UNCHANGED vars => packRanges' = packRanges
  BY DEF LeaseNext, ReleaseLease, LeaseExpires, BranchAdminNext, AdminCreateBranch,
     DeleteReadDefault, DeleteMark, DeleteFail, vars, storeVars
<1> QED BY <1>1, <1>2, <1>3, <1>4, <1>5 DEF Next, PushNext, MergeNext, MergeStep

\* Rooted commits stay rooted, and a new range from one makes another.
LEMMA RootedGrows ==
  ASSUME packRanges \subseteq packRanges', packRanges' \subseteq Pack
  PROVE  /\ Rooted \subseteq Rooted'
         /\ \A p \in packRanges' : p.base \in Rooted' \cup {NoCommit} => p.target \in Rooted'
<1>1. \A S \in SUBSET Commit : Extends(S)' => Extends(S)
  BY DEF Extends
<1>2. Rooted \subseteq Rooted'
  BY <1>1 DEF Rooted
<1>3. ASSUME NEW p \in packRanges', p.base \in Rooted' \cup {NoCommit}
      PROVE  p.target \in Rooted'
  <2>1. p.target \in Commit
    BY <1>3, RackStoreAssumption DEF PackRecord
  <2>2. ASSUME NEW S \in SUBSET Commit, Extends(S)'
        PROVE  p.target \in S
    BY <1>3, <2>2 DEF Extends, Rooted
  <2> QED BY <2>1, <2>2 DEF Rooted
<1> QED BY <1>2, <1>3

\* What a push knows of the range it stored.
LEMMA PushKnowsRangeStep ==
  ASSUME StoreInv, RangesInv, [Next]_vars, NEW q \in PushReq
  PROVE  PushKnowsRange(q)'
<1>0. push \in [PushReq -> PushRecord] /\ push[q] \in PushRecord /\ packRanges \subseteq packRanges'
  BY RangeSteps DEF StoreInv, TypeOK, PushTypeOK
<1>1. CASE push'[q] = push[q]
  BY <1>0, <1>1 DEF RangesInv, PushKnowsRange
<1>2. ASSUME NEW r \in PushReq, PushWritePack(r) \/ PushStep(r) \/ PushFail(r)
      PROVE  PushKnowsRange(q)'
  <2>1. CASE q # r
    BY <1>1, <1>2, <2>1, PushKeepsOthers
  <2>2. CASE q = r /\ PushPutPackRange(q)
    <3>1. push'[q].pc = "ref" /\ push'[q].pack = push[q].pack
          /\ push[q].pack \in packRanges'
      BY <1>0, <2>2 DEF PushPutPackRange, PutPackRange, Goto, PushRecord
    <3> QED BY <3>1 DEF PushKnowsRange
  <2>3. CASE q = r /\ PushRefMissing(q)
    <3>1. /\ push[q].pc = "ref" /\ push'[q].pc = "create" /\ push'[q].pack = push[q].pack
          /\ push[q].pack.base = NoCommit
      BY <1>0, <2>3 DEF PushRefMissing, Goto, PushRecord
    <3> QED BY <1>0, <3>1 DEF RangesInv, PushKnowsRange
  <2>4. CASE q = r /\ PushRefAtBase(q)
    <3>1. /\ push[q].pc = "ref" /\ push'[q].pc = "swap" /\ push'[q].pack = push[q].pack
          /\ push'[q].expected = push[q].pack.base
      BY <1>0, <2>4 DEF PushRefAtBase, PushRecord
    <3> QED BY <1>0, <3>1 DEF RangesInv, PushKnowsRange
  <2>5. CASE q = r /\ PushRefElsewhere(q)
    <3>1. /\ push[q].pc = "ref" /\ push'[q].pc = "ancestry" /\ push'[q].pack = push[q].pack
          /\ push[q].pack.base = NoCommit
      BY <1>0, <2>5 DEF PushRefElsewhere, PushRecord
    <3> QED BY <1>0, <3>1 DEF RangesInv, PushKnowsRange
  <2>6. CASE q = r /\ PushIsAncestor(q)
    <3>1. /\ push[q].pc = "ancestry" /\ push'[q].pc = "swap" /\ push'[q].pack = push[q].pack
      BY <1>0, <2>6 DEF PushIsAncestor, Goto, PushRecord
    <3> QED BY <1>0, <3>1 DEF RangesInv, PushKnowsRange
  <2>7. CASE q = r /\ ~(\/ PushPutPackRange(q) \/ PushRefMissing(q) \/ PushRefAtBase(q)
                        \/ PushRefElsewhere(q) \/ PushIsAncestor(q))
    <3>1. push'[q].pc \in {"idle", "verify", "commits", "range"}
      BY <1>2, <2>7, PushGoesTo DEF PushStep
    <3> QED BY <3>1 DEF PushKnowsRange
  <2> QED BY <1>2, <2>1, <2>2, <2>3, <2>4, <2>5, <2>6, <2>7
<1> QED BY <1>1, <1>2 DEF Next, PushNext, MergeNext, LeaseNext, BranchAdminNext, vars

\* The source a merge merges, it read from a head.
LEMMA MergeSourceSteps ==
  ASSUME StoreInv, [Next]_vars, NEW m \in MergeReq
  PROVE  \/ merge'[m].pc = "idle"
         \/ merge[m].pc # "idle" /\ merge'[m].source = merge[m].source
         \/ \E b \in Branch : BranchExists(b) /\ merge'[m].source = head[b]
<1>0. merge \in [MergeReq -> MergeRecord] /\ merge[m] \in MergeRecord
  BY DEF StoreInv, TypeOK, MergeTypeOK
<1>1. CASE merge'[m] = merge[m]
  BY <1>1
<1>2. ASSUME NEW o \in MergeReq, MergeReadSource(o) \/ MergeStep(o) \/ MergeFail(o)
      PROVE  \/ merge'[m] = merge[m]
             \/ merge'[m].pc = "idle"
             \/ merge[m].pc # "idle" /\ merge'[m].source = merge[m].source
             \/ \E b \in Branch : BranchExists(b) /\ merge'[m].source = head[b]
  <2>1. CASE o # m
    <3>1. \E rec : merge' = [merge EXCEPT ![o] = rec]
      BY <1>2 DEF MergeStep, MergeReadSource, MergeReadTarget, MergeAcquire,
         MergeFastForward, MergeWritePack, MergeApply, MergeFail, MergeDone
    <3> QED BY <1>0, <2>1, <3>1
  <2>2. CASE o = m /\ MergeReadSource(m)
    BY <1>0, <2>2 DEF MergeReadSource, IdleMerge
  <2>3. CASE o = m /\ MergeReadTarget(m)
    BY <1>0, <2>3 DEF MergeReadTarget, MergeRecord
  <2>4. CASE o = m /\ MergeWritePack(m)
    BY <1>0, <2>4 DEF MergeWritePack, MergeRecord
  <2>5. CASE o = m /\ (MergeAcquire(m) \/ MergeFastForward(m) \/ MergeApply(m) \/ MergeFail(m))
    BY <1>0, <2>5 DEF MergeAcquire, MergeFastForward, MergeApply, MergeFail, MergeDone, IdleMerge
  <2> QED BY <1>2, <2>1, <2>2, <2>3, <2>4, <2>5 DEF MergeStep
<1> QED BY <1>1, <1>2 DEF Next, PushNext, MergeNext, LeaseNext, BranchAdminNext, vars

\* Heads go from rooted commits to rooted commits, when only pushes and merges
\* move them.
LEMMA HeadsStayRooted ==
  ASSUME AdminBranch = {}, StoreInv, StoreInv', RangesInv, [Next]_vars,
         NEW d \in Branch, BranchExists(d)'
  PROVE  head'[d] \in Rooted'
<1>1. /\ packRanges \subseteq Pack /\ packRanges \subseteq packRanges' /\ packRanges' \subseteq Pack
      /\ head' \in [Branch -> Commit \cup {NoCommit}]
  BY RangeSteps DEF StoreInv, TypeOK, StoreTypeOK
<1>2. Extends(Rooted) /\ Rooted \subseteq Rooted'
  BY <1>1, RootedExtends, RootedGrows
<1>3. CASE head'[d] = head[d]
  BY <1>2, <1>3 DEF RangesInv, BranchExists
<1>4. ASSUME NEW b \in Branch, Moves(b), d = b
      PROVE  head'[d] \in Rooted'
  <2>1. CASE Created(b)
    <3>1. PICK r \in PushReq : push[r].pc = "create" /\ head'[b] = push[r].pack.target
      BY <2>1 DEF Created
    <3>2. push[r].pack \in packRanges /\ push[r].pack.base = NoCommit
      BY <3>1 DEF RangesInv, PushKnowsRange
    <3> QED BY <1>2, <1>4, <3>1, <3>2 DEF Extends
  <2>2. CASE Swapped(b)
    <3>1. head[b] \in Rooted
      BY <2>2 DEF Swapped, RangesInv
    <3>2. ASSUME NEW r \in PushReq, push[r].pc = "swap", push[r].expected = head[b],
                 head'[b] = push[r].pack.target
          PROVE  head'[b] \in Rooted
      <4>1. push[r].pack \in packRanges /\ push[r].pack.base \in {NoCommit, head[b]}
        BY <3>2 DEF RangesInv, PushKnowsRange
      <4> QED BY <1>2, <3>1, <3>2, <4>1 DEF Extends
    <3>3. ASSUME NEW m \in MergeReq, merge[m].pc = "previewed", head'[b] = merge[m].source
          PROVE  head'[b] \in Rooted
      BY <3>3 DEF RangesInv
    <3> QED BY <1>2, <1>4, <2>2, <3>2, <3>3 DEF Swapped
  <2>3. CASE Merged(b)
    <3> DEFINE p == MergePack(head[b], head'[b])
    <3>1. p \in packRanges' /\ head[b] \in Rooted
      BY <2>3, MergedAdvances DEF Merged, RangesInv
    <3>2. p.base = head[b] /\ p.target = head'[b]
      BY DEF MergePack
    <3> HIDE DEF p
    <3> QED BY <1>1, <1>2, <1>4, <3>1, <3>2, RootedGrows
  <2> QED BY <1>4, <2>1, <2>2, <2>3 DEF Moves
<1> QED BY <1>3, <1>4, HeadSteps DEF Moves

\* The invariant holds under every step.
LEMMA RangesInvStep ==
  ASSUME AdminBranch = {}
  PROVE  StoreInv /\ StoreInv' /\ RangesInv /\ [Next]_vars => RangesInv'
<1> SUFFICES ASSUME StoreInv, StoreInv', RangesInv, [Next]_vars
             PROVE  RangesInv'
  OBVIOUS
<1>1. /\ packRanges \subseteq packRanges' /\ packRanges' \subseteq Pack
  BY RangeSteps DEF StoreInv, TypeOK, StoreTypeOK
<1>2. IsFiniteSet(packRanges)'
  BY RangeSteps, FS_AddElement DEF RangesInv
<1>3. (\A p, q \in packRanges : p.target = q.target => p = q)'
  BY RangeSteps DEF RangesInv
<1>4. \A b \in Branch : BranchExists(b)' => head'[b] \in Rooted'
  BY HeadsStayRooted
<1>5. \A r \in PushReq : PushKnowsRange(r)'
  BY PushKnowsRangeStep
<1>6. ASSUME NEW m \in MergeReq, merge'[m].pc # "idle"
      PROVE  merge'[m].source \in Rooted'
  BY <1>1, <1>6, MergeSourceSteps, RootedGrows DEF RangesInv
<1> QED BY <1>2, <1>3, <1>4, <1>5, <1>6 DEF RangesInv, BranchExists

(***************************************************************************)
(* In a repository whose branches are created by pushes, pack ranges lead  *)
(* from every head to the root, whatever pushes and merges ran, in what    *)
(* order, and wherever they were cut off.  (The branch endpoint may create *)
(* one at a commit inside a pack.)                                         *)
(***************************************************************************)
THEOREM HeadRangesReachTheRoot ==
  ASSUME AdminBranch = {}
  PROVE  RackPullSpec => []HeadRangesReachRoot
<1>1. RackPullInit => RangesInv
  BY FS_EmptySet DEF RackPullInit, Init, StoreInit, PushInit, IdlePush, MergeInit, IdleMerge,
     RangesInv, BranchExists, PushKnowsRange
<1>2. StoreInv /\ StoreInv' /\ RangesInv /\ [RackPullNext]_pullVars => RangesInv'
  BY PullStepsServer, RangesInvStep
<1>3. StoreInv /\ RangesInv => HeadRangesReachRoot
  BY RootedChainIsComplete DEF HeadRangesReachRoot, RangesInv, StoreInv, TypeOK, StoreTypeOK
<1>4. RackPullSpec => []StoreInv
  <2>1. RackPullInit => StoreInv
    BY InitStoreInv DEF RackPullInit
  <2>2. StoreInv /\ [RackPullNext]_pullVars => StoreInv'
    BY PullStepsServer, StoreInvStep
  <2> QED BY <2>1, <2>2, PTL DEF RackPullSpec
<1> QED BY <1>1, <1>2, <1>3, <1>4, PTL DEF RackPullSpec

-----------------------------------------------------------------------------
(***************************************************************************)
(* CAS: pushes write validated frames, merges write valid ones, and no     *)
(* pack goes away.                                                         *)
(***************************************************************************)
LEMMA CasSteps ==
  ASSUME StoreInv, [Next]_vars
  PROVE  \/ casPacks' = casPacks
         \/ \E p \in Pack : ValidFrame(p) /\ casPacks' = casPacks \cup {p}
<1>1. ASSUME NEW r \in PushReq, PushWritePack(r) PROVE
        \E p \in Pack : ValidFrame(p) /\ casPacks' = casPacks \cup {p}
  BY <1>1 DEF PushWritePack, WritePack
<1>2. ASSUME NEW r \in PushReq, PushStep(r) \/ PushFail(r) PROVE casPacks' = casPacks
  BY <1>2 DEF PushStep, PushFail, PushVerify, PushPutCommit, PushPutPackRange,
     PushRefMissing, PushRefAtBase, PushRefAtTarget, PushRefElsewhere,
     PushIsAncestor, PushCreateBranch, PushCompareAndSwap, storeVars
<1>3. ASSUME NEW m \in MergeReq, MergeWritePack(m) PROVE
        \E p \in Pack : ValidFrame(p) /\ casPacks' = casPacks \cup {p}
  <2>1. PICK c \in Commit \ commits :
          /\ Parents[c] = <<merge[m].target, merge[m].source>>
          /\ MergePack(merge[m].target, c) \in Pack
          /\ casPacks' = casPacks \cup {MergePack(merge[m].target, c)}
    BY <1>3 DEF MergeWritePack, WritePack
  <2> DEFINE t == merge[m].target
             p == MergePack(t, c)
  <2>2. p.base = t /\ p.target = c /\ p.commits = <<c>> /\ p.format # PackFormatV3
    BY DEF MergePack, PackFormatV2, PackFormatV3
  <2>3. FirstParent(c) = t
    BY <2>1 DEF FirstParent
  <2> HIDE DEF t, p
  <2>4. ValidFrame(p)
    BY <2>2, <2>3 DEF ValidFrame, ValidV2, EndsAtTarget, Previous
  <2> QED BY <2>1, <2>4 DEF t, p
<1>4. ASSUME NEW m \in MergeReq,
             \/ MergeReadSource(m) \/ MergeReadTarget(m) \/ MergeAcquire(m)
             \/ MergeFastForward(m) \/ MergeApply(m) \/ MergeFail(m)
      PROVE  casPacks' = casPacks
  BY <1>4 DEF MergeReadSource, MergeReadTarget, MergeAcquire, MergeFastForward,
     MergeApply, MergeFail, storeVars
<1>5. LeaseNext \/ BranchAdminNext \/ UNCHANGED vars => casPacks' = casPacks
  BY DEF LeaseNext, ReleaseLease, LeaseExpires, BranchAdminNext, AdminCreateBranch,
     DeleteReadDefault, DeleteMark, DeleteFail, vars, storeVars
<1> QED BY <1>1, <1>2, <1>3, <1>4, <1>5 DEF Next, PushNext, MergeNext, MergeStep

\* Every frame in CAS stays valid.
LEMMA FramesValidStep == StoreInv /\ FramesValid /\ [Next]_vars => FramesValid'
BY CasSteps DEF FramesValid

-----------------------------------------------------------------------------
(***************************************************************************)
(* The manifest.                                                           *)
(***************************************************************************)
LEMMA SentAppend ==
  ASSUME NEW s \in Seq(Pack), NEW p \in Pack
  PROVE  /\ Append(s, p) \in Seq(Pack)
         /\ Sent(Append(s, p)) = Sent(s) \cup {p}
         /\ DOMAIN Append(s, p) = 1..(Len(s) + 1)
         /\ \A i \in DOMAIN s : Append(s, p)[i] = s[i]
         /\ Append(s, p)[Len(s) + 1] = p
         /\ DOMAIN s = 1..Len(s) /\ Len(s) \in Nat
<1>1. /\ Append(s, p) \in Seq(Pack)
      /\ Len(s) \in Nat /\ DOMAIN s = 1..Len(s)
      /\ DOMAIN Append(s, p) = 1..(Len(s) + 1)
      /\ \A i \in DOMAIN s : Append(s, p)[i] = s[i]
      /\ Append(s, p)[Len(s) + 1] = p
  OBVIOUS
<1>2. 1..(Len(s) + 1) = 1..Len(s) \cup {Len(s) + 1}
  BY <1>1
<1>3. Sent(Append(s, p)) = Sent(s) \cup {p}
  <2> DEFINE t == Append(s, p)
             n == Len(s) + 1
  <2>1. /\ DOMAIN t = DOMAIN s \cup {n} /\ t[n] = p
        /\ \A i \in DOMAIN s : t[i] = s[i]
    BY <1>1, <1>2
  <2> HIDE DEF t, n
  <2>2. {t[i] : i \in DOMAIN t} = {s[i] : i \in DOMAIN s} \cup {p}
    BY <2>1
  <2> QED BY <2>2 DEF Sent, t
<1> QED BY <1>1, <1>3

(***************************************************************************)
(* A step of one pull call keeps the invariant when its own locals are     *)
(* right afterwards.                                                       *)
(***************************************************************************)
PullRecordOK(rec) ==
  /\ rec \in PullRecord
  /\ \A i \in DOMAIN rec.ordered : rec.ordered[i] \in rec.selected
  /\ \A i, j \in DOMAIN rec.ordered : rec.ordered[i] = rec.ordered[j] => i = j

\* A step that only changes the locals of q.
LEMMA PullLocal ==
  ASSUME PullInv, NEW q \in PullReq, NEW rec, PullRecordOK(rec),
         pull' = [pull EXCEPT ![q] = rec], UNCHANGED storeVars, PullKnows(q)'
  PROVE  PullInv'
<1>1. pull'[q] = rec /\ \A o \in PullReq \ {q} : pull'[o] = pull[o]
  BY DEF PullInv, PullTypeOK
<1>2. PullTypeOK'
  BY <1>1 DEF PullInv, PullTypeOK, PullRecordOK
<1>3. FramesValid'
  BY DEF PullInv, FramesValid, storeVars
<1>4. ASSUME NEW o \in PullReq \ {q} PROVE PullKnows(o)'
  BY <1>1, <1>4 DEF PullInv, PullKnows, storeVars
<1> QED BY <1>2, <1>3, <1>4 DEF PullInv

\* A call that ends is idle again.
LEMMA PullEndInv ==
  ASSUME PullInv, NEW q \in PullReq, PullEnd(q), UNCHANGED storeVars
  PROVE  PullInv'
<1>1. PullRecordOK(IdlePull)
  BY DEF PullRecordOK, IdlePull, PullRecord, PullPc
<1>2. pull' = [pull EXCEPT ![q] = IdlePull]
  BY DEF PullEnd, PullDone
<1>3. PullKnows(q)'
  BY <1>2 DEF PullKnows, IdlePull, PullInv, PullTypeOK
<1> QED BY <1>1, <1>2, <1>3, PullLocal

\* A call that starts knows the head it read.
LEMMA PullReadRefInv ==
  ASSUME StoreInv, PullInv, NEW q \in PullReq, PullReadRef(q), UNCHANGED storeVars
  PROVE  PullInv'
<1>1. PICK b \in Branch, known \in Commit \cup {NoCommit} :
        /\ BranchExists(b)
        /\ pull' = [pull EXCEPT ![q] = [IdlePull EXCEPT
                      !.pc = "ranges", !.head = head[b], !.known = known]]
  BY DEF PullReadRef
<1> DEFINE rec == [IdlePull EXCEPT !.pc = "ranges", !.head = head[b], !.known = known]
<1>2. head[b] \in Commit
  BY <1>1 DEF StoreInv, TypeOK, StoreTypeOK, BranchExists
<1>3. rec \in PullRecord /\ rec.pc = "ranges" /\ rec.ordered = <<>> /\ rec.head \in Commit
  <2>1. IdlePull \in PullRecord /\ IdlePull.ordered = <<>>
    BY DEF IdlePull, PullRecord, PullPc
  <2> QED BY <1>1, <1>2, <2>1 DEF PullRecord, PullPc
<1>4. pull'[q] = rec
  BY <1>1 DEF PullInv, PullTypeOK
<1> HIDE DEF rec
<1>6. PullRecordOK(rec)
  BY <1>3 DEF PullRecordOK
<1>5. PullKnows(q)'
  BY <1>3, <1>4 DEF PullKnows
<1> QED BY <1>1, <1>5, <1>6, PullLocal DEF rec

-----------------------------------------------------------------------------
(***************************************************************************)
(* The planner: a complete chain leads back, and so does what complete     *)
(* chains to the root add to it.                                           *)
(***************************************************************************)
LEMMA ChainLeadsBack ==
  ASSUME NEW packs, NEW c, NEW known, CompleteChain(packs, c, known)
  PROVE  LeadsBack(packs, c, known)
BY DEF CompleteChain, LeadsBack

\* Complete chains to the root keep a set leading back.
LEMMA ExpansionLeadsBack ==
  ASSUME NEW packs, NEW c, NEW known, LeadsBack(packs, c, known), NEW missing,
         \A d \in missing : CompleteChain(PackChain(d, NoCommit), d, NoCommit)
  PROVE  LeadsBack(packs \cup Expansion(missing), c, known)
<1> DEFINE all == packs \cup Expansion(missing)
<1>1. ASSUME NEW p \in Expansion(missing)
      PROVE  p.base = NoCommit \/ \E d \in all : d.target = p.base
  <2>1. PICK d \in missing : p \in PackChain(d, NoCommit)
    BY DEF Expansion
  <2>2. PackChain(d, NoCommit) \subseteq all
    BY DEF Expansion
  <2> DEFINE chain == PackChain(d, NoCommit)
  <2> HIDE DEF chain
  <2>3. CompleteChain(chain, d, NoCommit) /\ p \in chain /\ chain \subseteq all
    BY <2>1, <2>2 DEF chain
  <2> HIDE DEF all
  <2> QED BY <2>3 DEF CompleteChain
<1> QED BY <1>1 DEF LeadsBack

\* The chain a call selects leads back and is in CAS.
LEMMA PullGetRangesInv ==
  ASSUME StoreInv, PullInv, NEW q \in PullReq, PullGetRanges(q), UNCHANGED storeVars
  PROVE  PullInv'
<1> DEFINE chain == PackChain(pull[q].head, pull[q].known)
           rec == [pull[q] EXCEPT !.pc = "plan", !.selected = chain]
<1>1. /\ pull[q] \in PullRecord /\ pull[q].ordered = <<>> /\ pull[q].head \in Commit
      /\ casPacks \subseteq Pack
  BY DEF PullGetRanges, PullInv, PullTypeOK, PullKnows, StoreInv, TypeOK, StoreTypeOK
<1>2. /\ pull' = [pull EXCEPT ![q] = rec]
      /\ CompleteChain(chain, pull[q].head, pull[q].known)
      /\ chain \subseteq casPacks
  BY DEF PullGetRanges, Selectable
<1> HIDE DEF chain
<1>3. /\ rec \in PullRecord /\ rec.pc = "plan" /\ rec.selected = chain
      /\ rec.ordered = <<>> /\ rec.head = pull[q].head /\ rec.known = pull[q].known
  BY <1>1, <1>2 DEF PullRecord, PullPc
<1>4. pull'[q] = rec
  BY <1>2 DEF PullInv, PullTypeOK
<1> HIDE DEF rec
<1>5. PullRecordOK(rec)
  BY <1>3 DEF PullRecordOK
<1>6. PullKnows(q)'
  BY <1>1, <1>2, <1>3, <1>4, ChainLeadsBack DEF PullKnows, storeVars
<1> QED BY <1>2, <1>5, <1>6, PullLocal

\* One turn of the planner keeps what is selected leading back.
LEMMA PullExpandInv ==
  ASSUME StoreInv, PullInv, NEW q \in PullReq, PullExpand(q), UNCHANGED storeVars
  PROVE  PullInv'
<1> DEFINE missing == MissingParents(pull[q].selected, pull[q].known)
           all == pull[q].selected \cup Expansion(missing)
           rec == [pull[q] EXCEPT
                     !.selected = all, !.expanded = pull[q].expanded \cup missing]
<1>1. /\ pull[q] \in PullRecord /\ pull[q].pc = "plan" /\ pull[q].ordered = <<>>
      /\ pull[q].head \in Commit
      /\ LeadsBack(pull[q].selected, pull[q].head, pull[q].known)
      /\ casPacks \subseteq Pack
  BY DEF PullExpand, PullInv, PullTypeOK, PullKnows, StoreInv, TypeOK, StoreTypeOK
<1>2. /\ pull' = [pull EXCEPT ![q] = rec]
      /\ \A c \in missing : CompleteChain(PackChain(c, NoCommit), c, NoCommit)
      /\ all \subseteq casPacks
  <2>1. Selectable(all)
    BY DEF PullExpand
  <2>2. all \subseteq casPacks
    BY <2>1 DEF Selectable
  <2>3. /\ pull' = [pull EXCEPT ![q] = [@ EXCEPT
               !.selected = all, !.expanded = pull[q].expanded \cup missing]]
        /\ \A c \in missing : CompleteChain(PackChain(c, NoCommit), c, NoCommit)
    BY DEF PullExpand
  <2>4. pull' = [pull EXCEPT ![q] = rec]
    <3> HIDE DEF all, missing
    <3> QED BY <2>3, <1>1 DEF PullInv, PullTypeOK
  <2> QED BY <2>2, <2>3, <2>4
<1>3. missing \subseteq Commit
  <2>1. ASSUME NEW d \in Supplied(pull[q].selected) PROVE MergeParents(d) \subseteq Commit
    <3>1. d \in Commit
      BY <1>1, RackStoreAssumption DEF PullRecord, Supplied, PackCommits, PackRecord
    <3> QED BY <3>1, CommitDagAssumption DEF MergeParents
  <2> QED BY <2>1 DEF MissingParents
<1>4. LeadsBack(all, pull[q].head, pull[q].known)
  <2> HIDE DEF missing
  <2> QED BY <1>1, <1>2, ExpansionLeadsBack
<1> HIDE DEF all, missing
<1>5. /\ rec \in PullRecord /\ rec.pc = "plan" /\ rec.selected = all
      /\ rec.ordered = <<>> /\ rec.head = pull[q].head /\ rec.known = pull[q].known
  BY <1>1, <1>2, <1>3 DEF PullRecord, PullPc
<1>6. pull'[q] = rec
  BY <1>2 DEF PullInv, PullTypeOK
<1> HIDE DEF rec
<1>7. PullRecordOK(rec)
  BY <1>5 DEF PullRecordOK
<1>8. PullKnows(q)'
  BY <1>1, <1>2, <1>4, <1>5, <1>6 DEF PullKnows, storeVars
<1> QED BY <1>2, <1>7, <1>8, PullLocal

\* When no merge parent is missing, the client gets it or has it.
LEMMA NothingMissingMeans ==
  ASSUME StoreInv, NEW packs \in SUBSET Pack, NEW known \in Commit \cup {NoCommit},
         MissingParents(packs, known) = {}, NEW c \in Supplied(packs)
  PROVE  MergeParents(c) \subseteq Supplied(packs) \cup KnownHistory(known)
<1> SUFFICES ASSUME NEW d \in MergeParents(c), d \notin Supplied(packs)
             PROVE  d \in KnownHistory(known)
  OBVIOUS
<1>1. known # NoCommit /\ (d = known \/ IsAncestor(commits, d, known))
  BY DEF MissingParents
<1>2. known \in Commit /\ known \in Ancestry[known] /\ commits \in SUBSET Commit
  BY <1>1, AncestryTyped DEF StoreInv, TypeOK, StoreTypeOK
<1>3. IsAncestor(commits, d, known) => d \in Ancestry[known]
  BY <1>2, StoredAncestorsAreAncestors DEF IsAncestor
<1> QED BY <1>1, <1>2, <1>3 DEF KnownHistory

\* A planner that is done is missing nothing.
LEMMA PullPlannedInv ==
  ASSUME StoreInv, PullInv, NEW q \in PullReq, PullPlanned(q), UNCHANGED storeVars
  PROVE  PullInv'
<1> DEFINE rec == [pull[q] EXCEPT !.pc = "order"]
<1>1. /\ pull[q] \in PullRecord /\ pull[q].ordered = <<>> /\ PullKnows(q)
      /\ pull[q].pc = "plan" /\ MissingParents(pull[q].selected, pull[q].known) = {}
  BY DEF PullPlanned, PullInv, PullTypeOK, PullKnows
<1>2. /\ pull' = [pull EXCEPT ![q] = rec]
      /\ pull'[q] = rec
  BY DEF PullPlanned, PullInv, PullTypeOK
<1>3. /\ rec \in PullRecord /\ rec.pc = "order" /\ rec.ordered = <<>>
      /\ rec.selected = pull[q].selected /\ rec.head = pull[q].head
      /\ rec.known = pull[q].known
  BY <1>1 DEF PullRecord, PullPc
<1> HIDE DEF rec
<1>4. PullRecordOK(rec)
  BY <1>3 DEF PullRecordOK
<1>5. \A c \in Supplied(pull[q].selected) :
        MergeParents(c) \subseteq Supplied(pull[q].selected) \cup KnownHistory(pull[q].known)
  BY <1>1, NothingMissingMeans DEF PullRecord
<1>6. PullKnows(q)'
  BY <1>1, <1>2, <1>3, <1>5 DEF PullKnows, storeVars
<1> QED BY <1>2, <1>4, <1>6, PullLocal

-----------------------------------------------------------------------------
(***************************************************************************)
(* Ordering appends a pack that is not out yet.                            *)
(***************************************************************************)
LEMMA PullOrderInv ==
  ASSUME StoreInv, PullInv, NEW q \in PullReq, PullOrder(q), UNCHANGED storeVars
  PROVE  PullInv'
<1> DEFINE s == pull[q].ordered
<1>1. PICK p \in Ready(pull[q].selected, s) :
        pull' = [pull EXCEPT ![q] = [@ EXCEPT !.ordered = Append(s, p)]]
  BY DEF PullOrder
<1> DEFINE rec == [pull[q] EXCEPT !.ordered = Append(s, p)]
<1>2. /\ pull[q] \in PullRecord /\ PullKnows(q) /\ pull[q].pc = "order"
      /\ s \in Seq(Pack) /\ pull[q].selected \subseteq Pack
      /\ \A i \in DOMAIN s : s[i] \in pull[q].selected
      /\ \A i, j \in DOMAIN s : s[i] = s[j] => i = j
  BY DEF PullOrder, PullInv, PullTypeOK, PullRecord
<1>3. p \in pull[q].selected /\ p \in Pack /\ \A i \in DOMAIN s : s[i] # p
  BY <1>2 DEF Ready, Sent
<1>4. pull' = [pull EXCEPT ![q] = rec] /\ pull'[q] = rec
  BY <1>1 DEF PullInv, PullTypeOK
<1>5. /\ rec.pc = "order" /\ rec.ordered = Append(s, p)
      /\ rec.selected = pull[q].selected /\ rec.head = pull[q].head
      /\ rec.known = pull[q].known /\ rec \in PullRecord
  BY <1>2, <1>3, SentAppend DEF PullRecord
<1> HIDE DEF rec
<1>6. PullRecordOK(rec)
  <2> HIDE DEF s
  <2>1. /\ DOMAIN Append(s, p) = DOMAIN s \cup {Len(s) + 1}
        /\ \A i \in DOMAIN s : Append(s, p)[i] = s[i]
        /\ Append(s, p)[Len(s) + 1] = p
    BY <1>2, <1>3, SentAppend
  <2>2. \A i \in DOMAIN Append(s, p) : Append(s, p)[i] \in pull[q].selected
    BY <1>2, <1>3, <2>1
  <2>3. \A i, j \in DOMAIN Append(s, p) :
          Append(s, p)[i] = Append(s, p)[j] => i = j
    BY <1>2, <1>3, <2>1
  <2> QED BY <1>5, <2>2, <2>3 DEF PullRecordOK
<1>7. PullKnows(q)'
  BY <1>2, <1>4, <1>5 DEF PullKnows, storeVars
<1> QED BY <1>4, <1>6, <1>7, PullLocal

\* Streaming changes nothing but the program counter.
LEMMA PullStreamInv ==
  ASSUME StoreInv, PullInv, NEW q \in PullReq, PullStream(q), UNCHANGED storeVars
  PROVE  PullInv'
<1> DEFINE rec == [pull[q] EXCEPT !.pc = "sent"]
<1>1. /\ pull[q] \in PullRecord /\ PullKnows(q) /\ pull[q].pc = "order"
      /\ PullRecordOK(pull[q]) /\ Sent(pull[q].ordered) = pull[q].selected
  BY DEF PullStream, PullInv, PullTypeOK, PullRecordOK
<1>2. pull' = [pull EXCEPT ![q] = rec] /\ pull'[q] = rec
  BY DEF PullStream, PullInv, PullTypeOK
<1>3. /\ rec \in PullRecord /\ rec.pc = "sent" /\ rec.ordered = pull[q].ordered
      /\ rec.selected = pull[q].selected /\ rec.head = pull[q].head
      /\ rec.known = pull[q].known
  BY <1>1 DEF PullRecord, PullPc
<1> HIDE DEF rec
<1>4. PullRecordOK(rec)
  BY <1>1, <1>3 DEF PullRecordOK
<1>5. PullKnows(q)'
  BY <1>1, <1>2, <1>3 DEF PullKnows, storeVars
<1> QED BY <1>2, <1>4, <1>5, PullLocal

-----------------------------------------------------------------------------
(***************************************************************************)
(* The invariant holds at first and under every step: the other calls only *)
(* add valid packs to CAS.                                                 *)
(***************************************************************************)
LEMMA PullInvStep == StoreInv /\ PullInv /\ [RackPullNext]_pullVars => PullInv'
<1> SUFFICES ASSUME StoreInv, PullInv, [RackPullNext]_pullVars PROVE PullInv'
  OBVIOUS
<1>1. CASE PullNext
  BY <1>1, PullEndInv, PullReadRefInv, PullGetRangesInv, PullExpandInv,
     PullPlannedInv, PullOrderInv, PullStreamInv DEF PullNext, PullStep
<1>2. CASE pull' = pull
  <2>1. FramesValid' /\ casPacks \subseteq casPacks'
    BY PullStepsServer, CasSteps, FramesValidStep DEF PullInv
  <2>2. \A q \in PullReq : PullKnows(q)'
    BY <1>2, <2>1 DEF PullInv, PullKnows
  <2>3. PullTypeOK'
    BY <1>2 DEF PullInv, PullTypeOK
  <2> QED BY <2>1, <2>2, <2>3 DEF PullInv
<1> QED BY <1>1, <1>2 DEF RackPullNext, pullVars

\* Idle calls know nothing, and CAS is empty.
LEMMA InitPullInv == RackPullInit => PullInv
<1> SUFFICES ASSUME RackPullInit PROVE PullInv
  OBVIOUS
<1>1. PullRecordOK(IdlePull)
  BY DEF PullRecordOK, IdlePull, PullRecord, PullPc
<1>2. PullTypeOK
  BY <1>1 DEF RackPullInit, PullInit, PullTypeOK, PullRecordOK
<1>3. \A q \in PullReq : PullKnows(q)
  BY DEF RackPullInit, PullInit, PullKnows, IdlePull
<1> QED BY <1>2, <1>3 DEF PullInv, FramesValid, RackPullInit, Init, StoreInit

\* Both invariants hold in every reachable state.
LEMMA PullInvariant == RackPullSpec => [](StoreInv /\ PullInv)
<1>1. RackPullInit => StoreInv /\ PullInv
  BY InitStoreInv, InitPullInv DEF RackPullInit
<1>2. StoreInv /\ PullInv /\ [RackPullNext]_pullVars => (StoreInv /\ PullInv)'
  BY PullStepsServer, StoreInvStep, PullInvStep
<1> QED BY <1>1, <1>2, PTL DEF RackPullSpec

(***************************************************************************)
(* The locals of a pull are well-typed and its manifest repeats no pack.   *)
(***************************************************************************)
THEOREM PullTypeCorrect == RackPullSpec => []PullTypeOK
BY PullInvariant, PTL DEF PullInv

-----------------------------------------------------------------------------
(***************************************************************************)
(* A planned set of v2 packs and what the client has are closed under      *)
(* parents: first parents by the frames, the others by the planner.        *)
(***************************************************************************)
PlanHistory(q) == Supplied(pull[q].selected) \cup KnownHistory(pull[q].known)

\* The plan and what the client has hold the head and every parent.
LEMMA PlanIsClosed ==
  ASSUME V2Only, StoreInv, PullInv, NEW q \in PullReq, pull[q].pc \in {"order", "sent"}
  PROVE  /\ PlanHistory(q) \subseteq Commit
         /\ ClosedUnderParents(PlanHistory(q))
         /\ pull[q].head \in PlanHistory(q)
<1> DEFINE packs == pull[q].selected
           known == pull[q].known
           H == PlanHistory(q)
<1>1. /\ packs \subseteq casPacks /\ casPacks \subseteq Pack
      /\ known \in Commit \cup {NoCommit}
      /\ LeadsBack(packs, pull[q].head, known)
      /\ \A c \in Supplied(packs) : MergeParents(c) \subseteq H
  BY DEF PullInv, PullTypeOK, PullRecord, PullKnows, StoreInv, TypeOK, StoreTypeOK,
     PlanHistory
<1>2. ASSUME NEW p \in packs
      PROVE  /\ p \in PackRecord /\ ValidV2(p)
             /\ p.commits \in Seq(Commit) /\ p.target \in PackCommits(p)
             /\ PackCommits(p) \subseteq Commit /\ PackCommits(p) \subseteq H
  <2>1. p \in PackRecord /\ p.format = PackFormatV2 /\ ValidFrame(p)
    BY <1>1, <1>2, RackStoreAssumption DEF V2Only, PullInv, FramesValid
  <2>2. p.commits \in Seq(Commit) /\ ValidV2(p)
    BY <2>1 DEF PackRecord, ValidFrame, PackFormatV2, PackFormatV3
  <2>3. p.target \in PackCommits(p) /\ PackCommits(p) \subseteq Commit
    BY <2>2 DEF ValidV2, EndsAtTarget, PackCommits
  <2>4. PackCommits(p) \subseteq H
    BY <1>2 DEF PlanHistory, Supplied
  <2> QED BY <2>1, <2>2, <2>3, <2>4
<1>3. KnownHistory(known) \subseteq Commit /\ ClosedUnderParents(KnownHistory(known))
  BY <1>1, AncestryTyped, AncestryClosed DEF KnownHistory, ClosedUnderParents
<1>4. known # NoCommit => known \in KnownHistory(known)
  BY <1>1, AncestryTyped DEF KnownHistory
<1>5. H \subseteq Commit
  BY <1>2, <1>3 DEF PlanHistory, Supplied
<1>6. pull[q].head \in H
  BY <1>1, <1>2 DEF LeadsBack
<1>7. ASSUME NEW p \in packs, NEW i \in DOMAIN p.commits
      PROVE  ParentSet(p.commits[i]) \subseteq H
  <2> DEFINE c == p.commits[i]
  <2>1. /\ c \in Commit /\ c \in Supplied(packs) /\ Parents[c] \in Seq(Commit)
        /\ FirstParent(c) = Previous(p, i)
    BY <1>2, <1>7, CommitDagAssumption DEF ValidV2, Supplied, PackCommits
  <2>2. FirstParent(c) \in H \cup {NoCommit}
    <3>1. CASE i = 1
      <4>1. FirstParent(c) = p.base
        BY <2>1, <3>1 DEF Previous
      <4>2. p.base \in {NoCommit, known} \/ \E d \in packs : d.target = p.base
        BY <1>1 DEF LeadsBack
      <4> QED BY <1>2, <1>4, <4>1, <4>2 DEF PlanHistory
    <3>2. CASE i # 1
      <4>1. i - 1 \in DOMAIN p.commits
        BY <1>2, <1>7, <3>2
      <4>2. p.commits[i - 1] \in PackCommits(p)
        BY <4>1 DEF PackCommits
      <4> QED BY <1>2, <2>1, <3>2, <4>2 DEF Previous
    <3> QED BY <3>1, <3>2
  <2>3. ASSUME NEW k \in DOMAIN Parents[c] PROVE Parents[c][k] \in H
    <3>1. CASE k = 1
      <4>1. Parents[c][1] = FirstParent(c) /\ Parents[c][1] \in Commit
        BY <2>1, <2>3, <3>1 DEF FirstParent
      <4> QED BY <2>2, <3>1, <4>1, CommitDagAssumption
    <3>2. CASE k # 1
      <4>1. k \in 2..Len(Parents[c])
        BY <2>1, <2>3, <3>2
      <4>2. Parents[c][k] \in MergeParents(c)
        BY <4>1 DEF MergeParents
      <4> QED BY <1>1, <2>1, <4>2
    <3> QED BY <3>1, <3>2
  <2> QED BY <2>3 DEF ParentSet
<1>8. ClosedUnderParents(H)
  <2> SUFFICES ASSUME NEW c \in H PROVE ParentSet(c) \subseteq H
    BY DEF ClosedUnderParents
  <2>1. CASE c \in KnownHistory(known)
    BY <1>3, <2>1 DEF ClosedUnderParents, PlanHistory
  <2>2. CASE c \in Supplied(packs)
    <3>1. PICK p \in packs : c \in PackCommits(p)
      BY <2>2 DEF Supplied
    <3> QED BY <1>7, <3>1 DEF PackCommits
  <2> QED BY <2>1, <2>2 DEF PlanHistory
<1> QED BY <1>5, <1>6, <1>8

(***************************************************************************)
(* A clone of v2 packs is the whole history of the head, and a pull is     *)
(* what the client does not have of it.                                    *)
(***************************************************************************)
THEOREM V2PullsAreComplete ==
  ASSUME V2Only
  PROVE  RackPullSpec => []PulledHistoryComplete
<1>1. StoreInv /\ PullInv => PulledHistoryComplete
  <2> SUFFICES ASSUME StoreInv, PullInv, NEW q \in PullReq, pull[q].pc = "sent"
               PROVE  Ancestry[pull[q].head] \subseteq
                        Supplied(Sent(pull[q].ordered)) \cup KnownHistory(pull[q].known)
    BY DEF PulledHistoryComplete
  <2>1. Sent(pull[q].ordered) = pull[q].selected
    BY DEF PullInv, PullKnows
  <2>2. Ancestry[pull[q].head] \subseteq PlanHistory(q)
    BY PlanIsClosed, ClosedHoldsAncestry
  <2> QED BY <2>1, <2>2 DEF PlanHistory
<1> QED BY <1>1, PullInvariant, PTL

-----------------------------------------------------------------------------
(***************************************************************************)
(* Order.                                                                  *)
(***************************************************************************)
InOrder(ordered, known) ==
  \A i \in DOMAIN ordered : \A c \in PackCommits(ordered[i]) :
    ParentSet(c) \subseteq
      Supplied({ordered[j] : j \in 1..i}) \cup KnownHistory(known)

\* A ready pack of a closed plan can follow what is out.
LEMMA ReadyIsInOrder ==
  ASSUME V2Only, StoreInv, PullInv, NEW q \in PullReq, pull[q].pc = "order",
         InOrder(pull[q].ordered, pull[q].known),
         NEW p \in Ready(pull[q].selected, pull[q].ordered)
  PROVE  InOrder(Append(pull[q].ordered, p), pull[q].known)
<1> DEFINE s == pull[q].ordered
           t == Append(s, p)
           known == pull[q].known
           upTo(i) == {t[j] : j \in 1..i}
<1>1. s \in Seq(Pack) /\ pull[q].selected \subseteq Pack /\ p \in pull[q].selected
  BY DEF PullInv, PullTypeOK, PullRecord, Ready
<1>2. /\ DOMAIN t = 1..(Len(s) + 1) /\ DOMAIN s = 1..Len(s) /\ Len(s) \in Nat
      /\ \A i \in DOMAIN s : t[i] = s[i]
      /\ t[Len(s) + 1] = p
  BY <1>1, SentAppend
<1> HIDE DEF t
<1>3. ASSUME NEW i \in DOMAIN s, NEW c \in PackCommits(t[i])
      PROVE  ParentSet(c) \subseteq Supplied(upTo(i)) \cup KnownHistory(known)
  <2>1. t[i] = s[i] /\ \A j \in 1..i : t[j] = s[j]
    BY <1>2, <1>3
  <2>2. upTo(i) = {s[j] : j \in 1..i}
    BY <2>1
  <2>3. ParentSet(c) \subseteq Supplied({s[j] : j \in 1..i}) \cup KnownHistory(known)
    BY <1>3, <2>1 DEF InOrder
  <2> QED BY <2>2, <2>3
<1>4. ASSUME NEW c \in PackCommits(p), NEW e \in ParentSet(c), e \notin KnownHistory(known)
      PROVE  e \in Supplied(upTo(Len(s) + 1))
  <2>1. c \in PlanHistory(q)
    BY <1>1, <1>4 DEF PlanHistory, Supplied
  <2>2. e \in PlanHistory(q)
    BY <1>4, <2>1, PlanIsClosed DEF ClosedUnderParents
  <2>3. PICK d \in pull[q].selected : e \in PackCommits(d)
    BY <1>4, <2>2 DEF PlanHistory, Supplied
  <2>4. d \in upTo(Len(s) + 1)
    <3>1. CASE d = p
      BY <1>2, <3>1
    <3>2. CASE d # p
      <4>1. DependsOn(p, d)
        BY <1>4, <2>3, <3>2 DEF DependsOn
      <4>2. d \in Sent(s)
        BY <2>3, <4>1 DEF Ready
      <4>3. PICK j \in DOMAIN s : d = s[j]
        BY <4>2 DEF Sent
      <4>4. j \in 1..(Len(s) + 1) /\ d = t[j]
        BY <1>2, <4>3
      <4> QED BY <4>4
    <3> QED BY <3>1, <3>2
  <2> QED BY <2>3, <2>4 DEF Supplied
<1>5. \A i \in DOMAIN t : \A c \in PackCommits(t[i]) :
        ParentSet(c) \subseteq Supplied(upTo(i)) \cup KnownHistory(known)
  <2> HIDE DEF upTo
  <2> SUFFICES ASSUME NEW i \in DOMAIN t, NEW c \in PackCommits(t[i])
               PROVE  ParentSet(c) \subseteq Supplied(upTo(i)) \cup KnownHistory(known)
    OBVIOUS
  <2>1. CASE i \in DOMAIN s
    BY <1>3, <2>1
  <2>2. CASE i \notin DOMAIN s
    <3>1. i = Len(s) + 1 /\ t[i] = p
      BY <1>2, <2>2
    <3> QED BY <1>4, <3>1
  <2> QED BY <2>1, <2>2
<1> QED BY <1>5 DEF InOrder, t

\* Every other step starts a manifest or leaves it as it is.
LEMMA ManifestSteps ==
  ASSUME PullInv, PullInv', [RackPullNext]_pullVars, NEW q \in PullReq
  PROVE  \/ pull'[q].ordered = <<>>
         \/ pull'[q].ordered = pull[q].ordered /\ pull'[q].known = pull[q].known
         \/ /\ pull[q].pc = "order" /\ pull'[q].known = pull[q].known
            /\ \E p \in Ready(pull[q].selected, pull[q].ordered) :
                 pull'[q].ordered = Append(pull[q].ordered, p)
<1>1. pull[q] \in PullRecord /\ pull \in [PullReq -> PullRecord]
  BY DEF PullInv, PullTypeOK
<1>2. CASE UNCHANGED pull
  BY <1>2
<1>3. CASE PullNext
  <2>1. PICK o \in PullReq : PullStep(o)
    BY <1>3 DEF PullNext
  <2>2. CASE o # q
    <3>1. pull'[q] = pull[q]
      BY <1>1, <2>1, <2>2 DEF PullStep, PullReadRef, PullGetRanges, PullExpand,
         PullPlanned, PullOrder, PullStream, PullEnd, PullDone
    <3> QED BY <3>1
  <2>3. CASE o = q
    <3>1. CASE PullReadRef(q) \/ PullGetRanges(q) \/ PullExpand(q) \/ PullPlanned(q)
               \/ PullEnd(q)
      <4>1. pull'[q].pc \notin {"order", "sent"} \/ PullPlanned(q)
        <5>1. PullReadRef(q) => pull'[q].pc = "ranges"
          BY <1>1 DEF PullReadRef, IdlePull
        <5>2. PullGetRanges(q) => pull'[q].pc = "plan"
          BY <1>1 DEF PullGetRanges, PullRecord
        <5>3. PullExpand(q) => pull'[q].pc = "plan"
          BY <1>1 DEF PullExpand, PullRecord
        <5>4. PullEnd(q) => pull'[q].pc = "idle"
          BY <1>1 DEF PullEnd, PullDone, IdlePull
        <5> QED BY <3>1, <5>1, <5>2, <5>3, <5>4
      <4>2. PullPlanned(q) => pull'[q].ordered = pull[q].ordered /\ pull'[q].known = pull[q].known
        BY <1>1 DEF PullPlanned, PullRecord
      <4> QED BY <4>1, <4>2 DEF PullInv, PullKnows
    <3>2. CASE PullStream(q)
      BY <1>1, <3>2 DEF PullStream, PullRecord
    <3>3. CASE PullOrder(q)
      <4>1. PICK p \in Ready(pull[q].selected, pull[q].ordered) :
              pull' = [pull EXCEPT ![q] = [@ EXCEPT !.ordered = Append(pull[q].ordered, p)]]
        BY <3>3 DEF PullOrder
      <4>2. /\ pull'[q].ordered = Append(pull[q].ordered, p)
            /\ pull'[q].known = pull[q].known /\ pull[q].pc = "order"
        BY <1>1, <3>3, <4>1 DEF PullOrder, PullRecord
      <4> QED BY <4>2
    <3> QED BY <2>1, <2>3, <3>1, <3>2, <3>3 DEF PullStep
  <2> QED BY <2>2, <2>3
<1> QED BY <1>2, <1>3 DEF RackPullNext, pullVars

(***************************************************************************)
(* Packs of a v2 pull come in an order in which a client can apply them.   *)
(***************************************************************************)
THEOREM V2PullsAreOrdered ==
  ASSUME V2Only
  PROVE  RackPullSpec => []PulledInOrder
<1> DEFINE I == StoreInv /\ PullInv
           Ordered == \A q \in PullReq : InOrder(pull[q].ordered, pull[q].known)
<1>1. RackPullInit => Ordered
  BY DEF RackPullInit, PullInit, IdlePull, InOrder
<1>2. I /\ I' /\ Ordered /\ [RackPullNext]_pullVars => Ordered'
  <2> SUFFICES ASSUME I, I', Ordered, [RackPullNext]_pullVars, NEW q \in PullReq
               PROVE  InOrder(pull'[q].ordered, pull'[q].known)
    OBVIOUS
  <2>1. CASE pull'[q].ordered = <<>>
    BY <2>1 DEF InOrder
  <2>2. CASE pull'[q].ordered = pull[q].ordered /\ pull'[q].known = pull[q].known
    BY <2>2
  <2>3. ASSUME pull[q].pc = "order", pull'[q].known = pull[q].known,
               NEW p \in Ready(pull[q].selected, pull[q].ordered),
               pull'[q].ordered = Append(pull[q].ordered, p)
        PROVE  InOrder(pull'[q].ordered, pull'[q].known)
    BY <2>3, ReadyIsInOrder
  <2> QED BY <2>1, <2>2, <2>3, ManifestSteps
<1>3. Ordered => PulledInOrder
  BY DEF PulledInOrder, InOrder
<1>4. RackPullSpec => []I
  BY PullInvariant
<1> HIDE DEF I, Ordered
<1> QED BY <1>1, <1>2, <1>3, <1>4, PTL DEF RackPullSpec

-----------------------------------------------------------------------------
(***************************************************************************)
(* A clone decodes: the packs are disjoint, and the one that ends at the   *)
(* head is the last, since some pack depends on every other one.           *)
(***************************************************************************)

\* A range of a chain ends at the commit asked for, or is the base of one.
LEMMA ChainLeadsOn ==
  ASSUME IsFiniteSet(packRanges), packRanges \subseteq Pack, V2Only, FramesValid,
         NEW c, NEW known, NEW packs, PackChain(c, known) \subseteq packs,
         packs \subseteq casPacks, NEW p \in PackChain(c, known)
  PROVE  p.target = c \/ \E d \in Supplied(packs) : p.target \in ParentSet(d)
<1> SUFFICES ASSUME p.target # c
             PROVE  \E d \in Supplied(packs) : p.target \in ParentSet(d)
  OBVIOUS
<1>1. PICK q \in PackChain(c, known) : q.base = p.target
  BY PackChainIsChain
<1>2. p \in packRanges /\ q \in packRanges /\ q \in packs
  BY <1>1, PackChainIsChain
<1>3. p.target \in Commit
  BY <1>2, RackStoreAssumption DEF PackRecord
<1>4. q \in PackRecord /\ ValidV2(q)
  BY <1>2, RackStoreAssumption DEF V2Only, FramesValid, ValidFrame, PackFormatV2, PackFormatV3
<1> DEFINE first == q.commits[1]
<1>5. /\ q.commits \in Seq(Commit) /\ 1 \in DOMAIN q.commits /\ first \in Commit
      /\ FirstParent(first) = q.base
  BY <1>4 DEF PackRecord, ValidV2, EndsAtTarget, Previous
<1>6. first \in Supplied(packs)
  BY <1>2, <1>5 DEF Supplied, PackCommits
<1>7. p.target \in ParentSet(first)
  BY <1>1, <1>3, <1>5, FirstParentIsParent
<1> HIDE DEF first
<1> QED BY <1>6, <1>7

\* So does a turn of the planner: a merge parent is a parent.
LEMMA ExpansionLeadsOn ==
  ASSUME IsFiniteSet(packRanges), packRanges \subseteq Pack, V2Only, FramesValid,
         NEW packs, NEW c, LeadsOn(packs, c), NEW known,
         packs \cup Expansion(MissingParents(packs, known)) \subseteq casPacks,
         packs \subseteq Pack
  PROVE  LeadsOn(packs \cup Expansion(MissingParents(packs, known)), c)
<1> DEFINE missing == MissingParents(packs, known)
           all == packs \cup Expansion(missing)
<1>1. Supplied(packs) \subseteq Supplied(all)
  BY DEF Supplied
<1>2. ASSUME NEW m \in missing
      PROVE  \E d \in Supplied(packs) : m \in ParentSet(d)
  <2>1. PICK d \in Supplied(packs) : m \in MergeParents(d)
    BY DEF MissingParents
  <2>2. d \in Commit
    BY RackStoreAssumption DEF Supplied, PackCommits, PackRecord
  <2>3. m \in ParentSet(d)
    BY <2>1, <2>2, CommitDagAssumption DEF MergeParents, ParentSet
  <2> QED BY <2>3
<1>3. ASSUME NEW p \in Expansion(missing)
      PROVE  \E d \in Supplied(all) : p.target \in ParentSet(d)
  <2>1. PICK m \in missing : p \in PackChain(m, NoCommit)
    BY <1>3 DEF Expansion
  <2>2. PackChain(m, NoCommit) \subseteq all
    BY DEF Expansion
  <2> HIDE DEF all, missing
  <2>3. all \subseteq casPacks
    BY DEF all, missing
  <2>4. p.target = m \/ \E d \in Supplied(all) : p.target \in ParentSet(d)
    BY <2>1, <2>2, <2>3, ChainLeadsOn
  <2> QED BY <1>1, <1>2, <2>4
<1> HIDE DEF missing
<1>4. ASSUME NEW p \in packs
      PROVE  p.target = c \/ \E d \in Supplied(all) : p.target \in ParentSet(d)
  BY <1>1 DEF LeadsOn
<1> QED BY <1>3, <1>4 DEF LeadsOn, missing

\* What PullPlans says of the locals of one call.
PlanOK(rec) ==
  /\ rec.pc \in {"plan", "order", "sent"} =>
       Disjoint(rec.selected) /\ LeadsOn(rec.selected, rec.head)
  /\ \A i \in DOMAIN rec.ordered : \A d \in rec.selected :
       DependsOn(rec.ordered[i], d) => d \in {rec.ordered[j] : j \in 1..(i - 1)}

\* The pack a manifest grows by has what it depends on before it.
LEMMA ReadyPlans ==
  ASSUME StoreInv, PullInv, PlansInv, NEW q \in PullReq, PullOrder(q)
  PROVE  PlanOK(pull'[q])
<1> DEFINE s == pull[q].ordered
           packs == pull[q].selected
<1>1. pull[q] \in PullRecord /\ pull[q].pc = "order" /\ packs \subseteq Pack /\ s \in Seq(Pack)
  BY DEF PullOrder, PullInv, PullTypeOK, PullRecord
<1>2. PICK p \in Ready(packs, s) :
        pull' = [pull EXCEPT ![q] = [@ EXCEPT !.ordered = Append(s, p)]]
  BY DEF PullOrder
<1> DEFINE t == Append(s, p)
<1>3. /\ pull'[q].ordered = t /\ pull'[q].selected = packs /\ pull'[q].pc = "order"
      /\ pull'[q].head = pull[q].head
  BY <1>1, <1>2 DEF PullInv, PullTypeOK, PullRecord
<1>4. p \in Pack /\ \A d \in packs : DependsOn(p, d) => d \in Sent(s)
  BY <1>1 DEF Ready
<1>5. /\ DOMAIN t = 1..(Len(s) + 1) /\ DOMAIN s = 1..Len(s) /\ Len(s) \in Nat
      /\ \A i \in DOMAIN s : t[i] = s[i]
      /\ t[Len(s) + 1] = p
  BY <1>1, <1>4, SentAppend
<1>6. Disjoint(packs) /\ LeadsOn(packs, pull[q].head)
  BY <1>1 DEF PlansInv, PullPlans
<1> HIDE DEF t
<1>7. ASSUME NEW i \in DOMAIN t, NEW d \in packs, DependsOn(t[i], d)
      PROVE  \E j \in 1..(i - 1) : d = t[j]
  <2>1. CASE i \in DOMAIN s
    <3>1. DependsOn(s[i], d)
      BY <1>5, <1>7, <2>1
    <3>2. PICK j \in 1..(i - 1) : d = s[j]
      BY <2>1, <3>1 DEF PlansInv, PullPlans
    <3>3. j \in DOMAIN s
      BY <1>5, <2>1
    <3> QED BY <1>5, <3>2, <3>3
  <2>2. CASE i \notin DOMAIN s
    <3>1. i = Len(s) + 1 /\ t[i] = p
      BY <1>5, <2>2
    <3>2. d \in Sent(s)
      BY <1>4, <1>7, <3>1
    <3>3. PICK j \in DOMAIN s : d = s[j]
      BY <3>2 DEF Sent
    <3>4. j \in 1..(i - 1) /\ d = t[j]
      BY <1>5, <3>1, <3>3
    <3> QED BY <3>4
  <2> QED BY <2>1, <2>2
<1>8. \A i \in DOMAIN t : \A d \in packs :
        DependsOn(t[i], d) => d \in {t[j] : j \in 1..(i - 1)}
  BY <1>7
<1> HIDE DEF s, packs
<1> QED BY <1>3, <1>6, <1>8 DEF PlanOK

\* Every step keeps a plan a plan.
LEMMA PlansInvStep ==
  ASSUME V2Only
  PROVE  StoreInv /\ PullInv /\ PullInv' /\ IsFiniteSet(packRanges) /\ PlansInv
           /\ [RackPullNext]_pullVars => PlansInv'
<1> SUFFICES ASSUME StoreInv, PullInv, PullInv', IsFiniteSet(packRanges), PlansInv,
                    [RackPullNext]_pullVars, NEW q \in PullReq
             PROVE  PlanOK(pull'[q])
  BY DEF PlansInv, PullPlans, PlanOK
<1>1. /\ pull[q] \in PullRecord /\ pull \in [PullReq -> PullRecord] /\ PlanOK(pull[q])
      /\ FramesValid /\ casPacks \subseteq Pack /\ packRanges \subseteq Pack
  BY DEF PullInv, PullTypeOK, PlansInv, PullPlans, PlanOK, StoreInv, TypeOK, StoreTypeOK
<1>2. CASE pull'[q] = pull[q]
  BY <1>1, <1>2
<1>3. CASE PullReadRef(q) \/ PullEnd(q)
  <2>1. pull'[q].ordered = <<>> /\ pull'[q].pc \in {"ranges", "idle"}
    <3>1. PullReadRef(q) => pull'[q].ordered = <<>> /\ pull'[q].pc = "ranges"
      BY <1>1 DEF PullReadRef, IdlePull
    <3>2. PullEnd(q) => pull'[q].ordered = <<>> /\ pull'[q].pc = "idle"
      BY <1>1 DEF PullEnd, PullDone, IdlePull
    <3> QED BY <1>3, <3>1, <3>2
  <2> QED BY <2>1 DEF PlanOK
<1>4. CASE PullGetRanges(q)
  <2> DEFINE chain == PackChain(pull[q].head, pull[q].known)
  <2>1. /\ pull'[q].selected = chain /\ pull'[q].head = pull[q].head
        /\ pull'[q].pc = "plan" /\ Selectable(chain)
    BY <1>1, <1>4 DEF PullGetRanges, PullRecord
  <2>2. pull'[q].ordered = <<>>
    BY <2>1 DEF PullInv, PullKnows
  <2>3. chain \subseteq casPacks /\ Disjoint(chain)
    BY <2>1 DEF Selectable, Disjoint
  <2>4. LeadsOn(chain, pull[q].head)
    <3>1. \A p \in chain :
            p.target = pull[q].head \/ \E d \in Supplied(chain) : p.target \in ParentSet(d)
      BY <1>1, <2>3, ChainLeadsOn
    <3> QED BY <3>1 DEF LeadsOn
  <2> HIDE DEF chain
  <2> QED BY <2>1, <2>2, <2>3, <2>4 DEF PlanOK
<1>5. CASE PullExpand(q)
  <2> DEFINE packs == pull[q].selected
             all == packs \cup Expansion(MissingParents(packs, pull[q].known))
  <2>1. /\ pull'[q].selected = all /\ pull'[q].head = pull[q].head
        /\ pull'[q].pc = "plan" /\ pull[q].pc = "plan" /\ Selectable(all)
    BY <1>1, <1>5 DEF PullExpand, PullRecord
  <2>2. pull'[q].ordered = <<>>
    BY <2>1 DEF PullInv, PullKnows
  <2>3. all \subseteq casPacks /\ Disjoint(all) /\ packs \subseteq Pack
    BY <1>1, <2>1 DEF Selectable, Disjoint, PullRecord
  <2>4. LeadsOn(packs, pull[q].head)
    BY <1>1, <2>1 DEF PlanOK
  <2>5. LeadsOn(all, pull[q].head)
    BY <1>1, <2>3, <2>4, ExpansionLeadsOn
  <2> HIDE DEF all
  <2> QED BY <2>1, <2>2, <2>3, <2>5 DEF PlanOK
<1>6. CASE PullPlanned(q) \/ PullStream(q)
  <2>1. /\ pull[q].pc \in {"plan", "order"} /\ pull'[q].selected = pull[q].selected
        /\ pull'[q].ordered = pull[q].ordered /\ pull'[q].head = pull[q].head
    BY <1>1, <1>6 DEF PullPlanned, PullStream, PullRecord
  <2> QED BY <1>1, <2>1 DEF PlanOK
<1>7. CASE PullOrder(q)
  BY <1>7, ReadyPlans
<1>8. ASSUME NEW o \in PullReq, PullStep(o), o # q
      PROVE  pull'[q] = pull[q]
  BY <1>1, <1>8 DEF PullStep, PullReadRef, PullGetRanges, PullExpand,
     PullPlanned, PullOrder, PullStream, PullEnd, PullDone
<1> QED BY <1>2, <1>3, <1>4, <1>5, <1>6, <1>7, <1>8 DEF RackPullNext, pullVars, PullNext, PullStep

\* Of a plan that is out, the pack that ends at the head is the last.
LEMMA HeadPackIsLast ==
  ASSUME V2Only, StoreInv, PullInv, PlansInv, NEW q \in PullReq, pull[q].pc = "sent"
  PROVE  LET s == pull[q].ordered IN s # <<>> /\ s[Len(s)].target = pull[q].head
<1> DEFINE s == pull[q].ordered
           packs == pull[q].selected
           n == Len(s)
<1>1. /\ s \in Seq(Pack) /\ packs \subseteq casPacks /\ Sent(s) = packs
      /\ LeadsBack(packs, pull[q].head, pull[q].known)
      /\ \A i, j \in DOMAIN s : s[i] = s[j] => i = j
      /\ casPacks \subseteq Pack /\ FramesValid
  BY DEF PullInv, PullTypeOK, PullRecord, PullKnows, StoreInv, TypeOK, StoreTypeOK
<1>2. /\ LeadsOn(packs, pull[q].head)
      /\ \A i \in DOMAIN s : \A d \in packs :
           DependsOn(s[i], d) => d \in {s[j] : j \in 1..(i - 1)}
  BY DEF PlansInv, PullPlans
<1> HIDE DEF s, packs
<1>3. s # <<>> /\ n \in Nat /\ n \in DOMAIN s /\ DOMAIN s = 1..n
  <2>1. packs # {}
    BY <1>1 DEF LeadsBack
  <2>2. s # <<>>
    BY <1>1, <2>1 DEF Sent
  <2> QED BY <1>1, <2>2
<1> HIDE DEF n
<1>4. s[n].target = pull[q].head
  <2> SUFFICES ASSUME s[n].target # pull[q].head
               PROVE  FALSE
    OBVIOUS
  <2> DEFINE p == s[n]
  <2>1. p \in packs /\ p \in Pack
    BY <1>1, <1>3 DEF Sent
  <2>2. PICK c \in Supplied(packs) : p.target \in ParentSet(c)
    BY <1>2, <2>1 DEF LeadsOn
  <2>3. PICK d \in packs : c \in PackCommits(d)
    BY <2>2 DEF Supplied
  <2>4. p \in PackRecord /\ ValidV2(p) /\ c \in Commit
    BY <1>1, <2>1, <2>3, RackStoreAssumption
       DEF V2Only, FramesValid, ValidFrame, PackFormatV2, PackFormatV3, PackCommits, PackRecord
  <2>5. d # p
    BY <2>2, <2>3, <2>4, V2CommitsAreAncestors, ContentAddressed
  <2>6. p.target \in PackCommits(p)
    BY <2>4 DEF ValidV2, EndsAtTarget, PackCommits, PackRecord
  <2>7. DependsOn(d, p)
    BY <2>2, <2>3, <2>5, <2>6 DEF DependsOn
  <2>8. PICK i \in DOMAIN s : s[i] = d
    BY <1>1, <2>3 DEF Sent
  <2>9. PICK j \in 1..(i - 1) : p = s[j]
    BY <1>2, <2>1, <2>7, <2>8
  <2>10. j \in DOMAIN s /\ j # n
    BY <1>3
  <2> QED BY <1>1, <1>3, <2>9, <2>10
<1> QED BY <1>3, <1>4 DEF s, n

(***************************************************************************)
(* What a clone of v2 packs is sent, the client's decoder accepts, for any *)
(* commit graph and any number of calls.                                   *)
(***************************************************************************)
THEOREM V2ClonesDecode ==
  ASSUME V2Only
  PROVE  RackPullSpec => []CloneDecodes
<1> DEFINE I == StoreInv /\ PullInv
           Finite == IsFiniteSet(packRanges)
<1>1. RackPullInit => PlansInv /\ Finite
  BY FS_EmptySet DEF RackPullInit, Init, StoreInit, PullInit, IdlePull, PlansInv, PullPlans
<1>2. I /\ I' /\ Finite /\ PlansInv /\ [RackPullNext]_pullVars => PlansInv' /\ Finite'
  <2>1. I /\ Finite /\ [RackPullNext]_pullVars => Finite'
    BY PullStepsServer, RangeSteps, FS_AddElement
  <2> QED BY <2>1, PlansInvStep
<1>3. I /\ PlansInv => CloneDecodes
  <2> SUFFICES ASSUME I, PlansInv, NEW q \in PullReq, pull[q].pc = "sent",
                      pull[q].known = NoCommit
               PROVE  Decodes(pull[q].head, pull[q].ordered)
    BY DEF CloneDecodes
  <2> DEFINE s == pull[q].ordered
  <2>1. s # <<>> /\ s[Len(s)].target = pull[q].head
    BY HeadPackIsLast
  <2>2. \A i, j \in DOMAIN s : i # j => PackCommits(s[i]) \cap PackCommits(s[j]) = {}
    BY DEF PullInv, PullTypeOK, PlansInv, PullPlans, Disjoint
  <2>3. \A d \in Supplied(Sent(s)) : MergeParents(d) \subseteq Supplied(Sent(s))
    BY DEF PullInv, PullKnows, KnownHistory
  <2> HIDE DEF s
  <2> QED BY <2>1, <2>2, <2>3 DEF Decodes, s
<1>4. RackPullSpec => []I
  BY PullInvariant
<1> HIDE DEF I, Finite
<1> QED BY <1>1, <1>2, <1>3, <1>4, PTL DEF RackPullSpec
=============================================================================
