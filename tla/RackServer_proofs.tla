-------------------------- MODULE RackServer_proofs --------------------------
(***************************************************************************)
(* Proofs about RackServer for every commit graph, every set of packs and  *)
(* any number of branches and concurrent calls: the store invariant, the   *)
(* safety properties that follow from it, what a push call knows when it   *)
(* registers commits and when it moves the ref, what the default branch is *)
(* protected from, and that RackServer implements BranchRefs.              *)
(***************************************************************************)
EXTENDS RackServer, CommitDag_proofs

USE DEF storeVars

-----------------------------------------------------------------------------
(***************************************************************************)
(* The store: types, closed history and what the calls rely on.            *)
(***************************************************************************)

(***************************************************************************)
(* An empty repository without calls satisfies the store invariant.        *)
(***************************************************************************)
LEMMA InitStoreInv == Init => StoreInv
BY RackStoreAssumption, PushEngineAssumption
DEF Init, StoreInit, PushInit, MergeInit, BranchAdminInit, StoreInv, TypeOK,
    StoreTypeOK, PushTypeOK, MergeTypeOK, BranchAdminTypeOK, PushRecord,
    MergeRecord, IdlePush, IdleMerge, PushPc, MergePc, NoToken, HistoryClosed,
    ClosedUnderParents, BranchExists, PushKnows, MergeKnows

(***************************************************************************)
(* A step of one push call keeps the invariant when it leaves the rows     *)
(* well-formed, removes neither commits nor packs, and its own locals are  *)
(* right afterwards: what the other calls know does not go stale.          *)
(***************************************************************************)
LEMMA PushLocal ==
  ASSUME StoreInv, NEW r \in PushReq, NEW rec \in PushRecord,
         push' = [push EXCEPT ![r] = rec], UNCHANGED <<merge, deleting>>,
         commits \subseteq commits', casPacks \subseteq casPacks',
         StoreTypeOK', HistoryClosed', PushKnows(r)'
  PROVE  StoreInv'
<1>1. TypeOK'
  BY DEF StoreInv, TypeOK, PushTypeOK, MergeTypeOK, BranchAdminTypeOK
<1>2. ASSUME NEW q \in PushReq PROVE PushKnows(q)'
  <2>1. CASE q = r BY <2>1
  <2>2. CASE q # r
    <3>1. push'[q] = push[q] BY <2>2 DEF StoreInv, TypeOK, PushTypeOK
    <3> QED BY <3>1 DEF StoreInv, PushKnows
  <2> QED BY <2>1, <2>2
<1>3. \A m \in MergeReq : MergeKnows(m)'
  BY DEF StoreInv, MergeKnows
<1> QED BY <1>1, <1>2, <1>3 DEF StoreInv

\* The same for a call that returns.
LEMMA PushReturns ==
  ASSUME StoreInv, NEW r \in PushReq, PushDone(r), UNCHANGED <<merge, deleting>>,
         commits \subseteq commits', casPacks \subseteq casPacks',
         StoreTypeOK', HistoryClosed'
  PROVE  StoreInv'
<1>1. IdlePush \in PushRecord /\ IdlePush.pc = "idle"
  BY DEF IdlePush, PushRecord, PushPc
<1>2. push' = [push EXCEPT ![r] = IdlePush]
  BY DEF PushDone
<1>3. PushKnows(r)'
  BY <1>1, <1>2 DEF PushKnows, StoreInv, TypeOK, PushTypeOK
<1> QED BY <1>1, <1>2, <1>3, PushLocal

\* The same for a call that goes on to a step with nothing new to know.
LEMMA PushGoesOn ==
  ASSUME StoreInv, NEW r \in PushReq, UNCHANGED <<merge, deleting>>,
         commits \subseteq commits', casPacks \subseteq casPacks',
         StoreTypeOK', HistoryClosed', push[r].pc # "idle",
         NEW pc \in PushPc \ {"verify", "commits"}, NEW e \in Commit \cup {NoCommit},
         push' = [push EXCEPT ![r] = [@ EXCEPT !.pc = pc, !.expected = e]]
  PROVE  StoreInv'
<1> DEFINE rec == [push[r] EXCEPT !.pc = pc, !.expected = e]
<1>1. push[r] \in PushRecord
  BY DEF StoreInv, TypeOK, PushTypeOK
<1>2. rec \in PushRecord
  BY <1>1 DEF PushRecord
<1>3. push' = [push EXCEPT ![r] = rec] /\ push'[r] = rec
  BY DEF StoreInv, TypeOK, PushTypeOK
<1>4. /\ rec.pack = push[r].pack /\ rec.branch = push[r].branch
      /\ rec.next = push[r].next /\ rec.pc \notin {"verify", "commits"}
  BY <1>1 DEF PushRecord
<1> HIDE DEF rec
<1>5. PushKnows(r)'
  BY <1>3, <1>4 DEF PushKnows, StoreInv
<1> QED BY <1>2, <1>3, <1>5, PushLocal

(***************************************************************************)
(* HandlePush steps keep it.                                               *)
(***************************************************************************)
LEMMA PushWritePackInv ==
  ASSUME StoreInv, NEW r \in PushReq, PushWritePack(r), UNCHANGED <<merge, deleting>>
  PROVE  StoreInv'
<1>1. PICK p \in Pack, b \in Branch :
        /\ ValidFrame(p)
        /\ casPacks' = casPacks \cup {p}
        /\ push' = [push EXCEPT ![r] = [IdlePush EXCEPT
                      !.pc = "verify", !.pack = p, !.branch = b]]
  BY DEF PushWritePack, WritePack
<1> DEFINE rec == [IdlePush EXCEPT !.pc = "verify", !.pack = p, !.branch = b]
<1>2. rec \in PushRecord
  BY DEF PushRecord, PushPc, IdlePush
<1>3. StoreTypeOK' /\ HistoryClosed'
  BY <1>1 DEF StoreInv, TypeOK, StoreTypeOK, HistoryClosed, ClosedUnderParents,
     BranchExists, PushWritePack
<1>4. Len(p.commits) \in Nat /\ p.commits # <<>> /\ p.commits \in Seq(Commit)
  BY <1>1, RackStoreAssumption DEF PackRecord, ValidFrame, ValidV2, ValidV3, EndsAtTarget
<1>5. PushKnows(r)'
  BY <1>1, <1>4 DEF StoreInv, TypeOK, PushTypeOK, PushKnows, IdlePush
<1> HIDE DEF rec
<1> QED BY <1>1, <1>2, <1>3, <1>5, PushLocal DEF PushWritePack, rec

\* PushVerify only moves the call's program counter.
LEMMA PushVerifyInv ==
  ASSUME StoreInv, NEW r \in PushReq, PushVerify(r), UNCHANGED <<merge, deleting>>
  PROVE  StoreInv'
<1> DEFINE p == push[r].pack
           rec == [push[r] EXCEPT !.pc = "commits"]
<1>1. p \in Pack /\ ValidFrame(p) /\ push[r].pc = "verify"
  BY DEF PushVerify, StoreInv, TypeOK, StoreTypeOK, PushKnows
<1>2. push' = [push EXCEPT ![r] = rec] /\ rec \in PushRecord
  BY DEF PushVerify, Goto, StoreInv, TypeOK, PushTypeOK, PushRecord, PushPc
<1>3. StoreTypeOK' /\ HistoryClosed'
  BY DEF PushVerify, StoreInv, TypeOK, StoreTypeOK, HistoryClosed,
     ClosedUnderParents, BranchExists
<1>4. PushKnows(r)'
  <2>1. push'[r] = rec
    BY <1>2 DEF StoreInv, TypeOK, PushTypeOK
  <2>2. /\ rec.pack = push[r].pack /\ rec.branch = push[r].branch
        /\ rec.next = push[r].next
    BY DEF StoreInv, TypeOK, PushTypeOK, PushRecord
  <2> HIDE DEF rec
  <2> QED BY <1>1, <2>1, <2>2 DEF PushVerify, PushKnows, StoreInv
<1> HIDE DEF rec
<1> QED BY <1>2, <1>3, <1>4, PushLocal DEF PushVerify

\* PushPutCommit adds a row whose parents' rows exist, and goes to the next
\* commit.
LEMMA PushPutCommitInv ==
  ASSUME StoreInv, NEW r \in PushReq, PushPutCommit(r), UNCHANGED <<merge, deleting>>
  PROVE  StoreInv'
<1> DEFINE p == push[r].pack
           n == push[r].next
           c == p.commits[n]
           rec == AfterCommit(r)
<1>1. p \in Pack /\ n \in 1..Len(p.commits) /\ push[r] \in PushRecord
  BY DEF PushPutCommit, StoreInv, TypeOK, StoreTypeOK, PushTypeOK, PushKnows
<1>2. p.commits \in Seq(Commit) /\ Len(p.commits) \in Nat /\ c \in Commit
  BY <1>1, RackStoreAssumption DEF PackRecord
<1>3. commits' = commits \cup {c} /\ ParentSet(c) \subseteq commits
  BY DEF PushPutCommit, PutCommit
<1>4. StoreTypeOK' /\ HistoryClosed'
  BY <1>2, <1>3 DEF PushPutCommit, StoreInv, TypeOK, StoreTypeOK, HistoryClosed,
     ClosedUnderParents, BranchExists
<1>5. push' = [push EXCEPT ![r] = rec]
  BY DEF PushPutCommit
<1>6. /\ rec.pack = p /\ rec.branch = push[r].branch
      /\ rec.next = n + 1 /\ rec.expected = push[r].expected
      /\ rec.pc = IF n = Len(p.commits) THEN "range" ELSE "commits"
  BY <1>1 DEF AfterCommit, PushRecord
<1>7. rec \in PushRecord
  <2>1. n + 1 \in Nat
    BY <1>1, <1>2
  <2> QED BY <1>1, <2>1 DEF AfterCommit, PushRecord, PushPc
<1>8. PushKnows(r)'
  <2>1. push'[r] = rec
    BY <1>5 DEF StoreInv, TypeOK, PushTypeOK
  <2>2. p \in casPacks' /\ ValidFrame(p) /\ push[r].branch \in Branch
    BY DEF PushPutCommit, PushKnows, StoreInv
  <2> HIDE DEF rec, p, n, c
  <2>3. /\ n + 1 \in 1..(Len(p.commits) + 1)
        /\ n # Len(p.commits) => n + 1 <= Len(p.commits)
    <3>1. \A k, m \in Nat : k \in 1..m => k + 1 \in 1..(m + 1) /\ (k # m => k + 1 <= m)
      OBVIOUS
    <3>2. n \in Nat
      BY <1>1
    <3> QED BY <1>1, <1>2, <3>1, <3>2
  <2> QED BY <1>6, <2>1, <2>2, <2>3 DEF PushKnows
<1> HIDE DEF rec
<1> QED BY <1>3, <1>4, <1>5, <1>7, <1>8, PushLocal DEF PushPutCommit

\* PushPutPackRange adds the range of the call's own pack.
LEMMA PushPutPackRangeInv ==
  ASSUME StoreInv, NEW r \in PushReq, PushPutPackRange(r), UNCHANGED <<merge, deleting>>
  PROVE  StoreInv'
<1>1. push[r] \in PushRecord /\ push[r].pack \in Pack
  BY DEF PushPutPackRange, StoreInv, TypeOK, StoreTypeOK, PushTypeOK, PushKnows
<1>2. push' = [push EXCEPT ![r] = [@ EXCEPT !.pc = "ref", !.expected = push[r].expected]]
  BY <1>1 DEF PushPutPackRange, Goto, PushRecord
<1>3. StoreTypeOK' /\ HistoryClosed'
  BY <1>1 DEF PushPutPackRange, PutPackRange, StoreInv, TypeOK, StoreTypeOK,
     HistoryClosed, ClosedUnderParents, BranchExists
<1>4. "ref" \in PushPc \ {"verify", "commits"} /\ push[r].expected \in Commit \cup {NoCommit}
  BY <1>1 DEF PushPc, PushRecord
<1> QED BY <1>2, <1>3, <1>4, PushGoesOn DEF PushPutPackRange

\* A step without effect on the store and with no new fact.
LEMMA PushReadsInv ==
  ASSUME StoreInv, NEW r \in PushReq, UNCHANGED <<merge, deleting>>,
         \/ PushRefMissing(r) \/ PushRefAtBase(r) \/ PushRefAtTarget(r)
         \/ PushRefElsewhere(r) \/ PushIsAncestor(r) \/ PushFail(r)
  PROVE  StoreInv'
<1>1. StoreTypeOK' /\ HistoryClosed' /\ UNCHANGED storeVars
  BY DEF PushRefMissing, PushRefAtBase, PushRefAtTarget, PushRefElsewhere,
     PushIsAncestor, PushFail, StoreInv, TypeOK, StoreTypeOK, HistoryClosed,
     ClosedUnderParents, BranchExists
<1>2. push[r] \in PushRecord /\ push[r].branch \in Branch \cup {NoBranch}
  BY DEF StoreInv, TypeOK, PushTypeOK, PushRecord
<1>3. CASE PushRefAtTarget(r) \/ PushFail(r)
  BY <1>1, <1>3, PushReturns DEF PushRefAtTarget, PushFail
<1>4. CASE PushRefMissing(r) \/ PushIsAncestor(r)
  <2>1. PICK pc \in {"create", "swap"} :
          push' = [push EXCEPT ![r] = [@ EXCEPT !.pc = pc, !.expected = push[r].expected]]
    BY <1>2, <1>4 DEF PushRefMissing, PushIsAncestor, Goto, PushRecord
  <2>2. pc \in PushPc \ {"verify", "commits"} /\ push[r].expected \in Commit \cup {NoCommit}
    BY <1>2 DEF PushPc, PushRecord
  <2> QED BY <1>1, <1>4, <2>1, <2>2, PushGoesOn DEF PushRefMissing, PushIsAncestor
<1>5. CASE PushRefAtBase(r) \/ PushRefElsewhere(r)
  <2> DEFINE h == head[push[r].branch]
  <2>1. PICK pc \in {"swap", "ancestry"} :
          push' = [push EXCEPT ![r] = [@ EXCEPT !.pc = pc, !.expected = h]]
    BY <1>5 DEF PushRefAtBase, PushRefElsewhere
  <2>2. pc \in PushPc \ {"verify", "commits"} /\ h \in Commit \cup {NoCommit}
    BY <1>5 DEF PushPc, PushRefAtBase, PushRefElsewhere, StoreInv, PushKnows,
       TypeOK, StoreTypeOK
  <2> QED BY <1>1, <1>5, <2>1, <2>2, PushGoesOn DEF PushRefAtBase, PushRefElsewhere
<1> QED BY <1>3, <1>4, <1>5

\* The two steps that write a ref put a registered commit there.
LEMMA PushWritesRefInv ==
  ASSUME StoreInv, NEW r \in PushReq, UNCHANGED <<merge, deleting>>,
         PushCreateBranch(r) \/ PushCompareAndSwap(r)
  PROVE  StoreInv'
<1>1. push[r].branch \in Branch /\ push[r].pack.target \in commits
  BY DEF PushCreateBranch, PushCompareAndSwap, CreateBranch,
     CompareAndSwapBranchRef, StoreInv, PushKnows
<1>2. StoreTypeOK' /\ HistoryClosed'
  BY <1>1 DEF PushCreateBranch, PushCompareAndSwap, CreateBranch,
     CompareAndSwapBranchRef, StoreInv, TypeOK, StoreTypeOK, HistoryClosed,
     ClosedUnderParents, BranchExists
<1> QED BY <1>2, PushReturns DEF PushCreateBranch, PushCompareAndSwap

\* Every step of a push call preserves StoreInv.
LEMMA PushInv ==
  ASSUME StoreInv, PushNext, UNCHANGED <<merge, deleting>>
  PROVE  StoreInv'
BY PushWritePackInv, PushVerifyInv, PushPutCommitInv, PushPutPackRangeInv,
   PushReadsInv, PushWritesRefInv DEF PushNext, PushStep

-----------------------------------------------------------------------------
(***************************************************************************)
(* A step of one merge call, likewise.                                     *)
(***************************************************************************)
LEMMA MergeLocal ==
  ASSUME StoreInv, NEW m \in MergeReq, NEW rec \in MergeRecord,
         merge' = [merge EXCEPT ![m] = rec], UNCHANGED <<push, deleting>>,
         commits \subseteq commits', casPacks \subseteq casPacks',
         StoreTypeOK', HistoryClosed', MergeKnows(m)'
  PROVE  StoreInv'
<1>1. TypeOK'
  BY DEF StoreInv, TypeOK, PushTypeOK, MergeTypeOK, BranchAdminTypeOK
<1>2. ASSUME NEW n \in MergeReq PROVE MergeKnows(n)'
  <2>1. CASE n = m BY <2>1
  <2>2. CASE n # m
    <3>1. merge'[n] = merge[n] BY <2>2 DEF StoreInv, TypeOK, MergeTypeOK
    <3> QED BY <3>1 DEF StoreInv, MergeKnows
  <2> QED BY <2>1, <2>2
<1>3. \A r \in PushReq : PushKnows(r)'
  BY DEF StoreInv, PushKnows
<1> QED BY <1>1, <1>2, <1>3 DEF StoreInv

\* A merge call that returns leaves nothing to know about it.
LEMMA MergeReturns ==
  ASSUME StoreInv, NEW m \in MergeReq, MergeDone(m), UNCHANGED <<push, deleting>>,
         commits \subseteq commits', casPacks \subseteq casPacks',
         StoreTypeOK', HistoryClosed'
  PROVE  StoreInv'
<1>1. IdleMerge \in MergeRecord /\ IdleMerge.pc = "idle"
  BY DEF IdleMerge, MergeRecord, MergePc, NoToken
<1>2. merge' = [merge EXCEPT ![m] = IdleMerge]
  BY DEF MergeDone
<1>3. MergeKnows(m)'
  BY <1>1, <1>2 DEF MergeKnows, StoreInv, TypeOK, MergeTypeOK
<1> QED BY <1>1, <1>2, <1>3, MergeLocal

(***************************************************************************)
(* AcquireLease and Apply steps keep the invariant.                        *)
(***************************************************************************)
LEMMA MergeReadSourceInv ==
  ASSUME StoreInv, NEW m \in MergeReq, MergeReadSource(m), UNCHANGED <<push, deleting>>
  PROVE  StoreInv'
<1>1. PICK from \in Branch :
        /\ BranchExists(from)
        /\ merge' = [merge EXCEPT ![m] = [IdleMerge EXCEPT
             !.pc = "target", !.from = from, !.source = head[from]]]
  BY DEF MergeReadSource
<1> DEFINE rec == [IdleMerge EXCEPT !.pc = "target", !.from = from, !.source = head[from]]
<1>2. head[from] \in Commit /\ head[from] \in commits
  BY <1>1 DEF StoreInv, HistoryClosed, TypeOK, StoreTypeOK
<1>3. rec \in MergeRecord /\ rec.pc = "target" /\ rec.source = head[from]
  BY <1>2 DEF MergeRecord, MergePc, IdleMerge, NoToken
<1>4. StoreTypeOK' /\ HistoryClosed'
  BY DEF MergeReadSource, StoreInv, TypeOK, StoreTypeOK, HistoryClosed,
     ClosedUnderParents, BranchExists
<1>5. merge'[m] = rec
  BY <1>1 DEF StoreInv, TypeOK, MergeTypeOK
<1> HIDE DEF rec
<1>6. MergeKnows(m)'
  BY <1>2, <1>3, <1>5 DEF MergeKnows, MergeReadSource
<1> QED BY <1>1, <1>3, <1>4, <1>6, MergeLocal DEF MergeReadSource, rec

\* MergeReadTarget: the target head it reads is a registered commit.
LEMMA MergeReadTargetInv ==
  ASSUME StoreInv, NEW m \in MergeReq, MergeReadTarget(m), UNCHANGED <<push, deleting>>
  PROVE  StoreInv'
<1>1. PICK into \in Branch :
        /\ BranchExists(into)
        /\ merge' = [merge EXCEPT ![m] = [@ EXCEPT
             !.pc = "previewed", !.into = into, !.target = head[into]]]
  BY DEF MergeReadTarget
<1> DEFINE rec == [merge[m] EXCEPT !.pc = "previewed", !.into = into, !.target = head[into]]
<1>2. /\ head[into] \in Commit /\ head[into] \in commits
      /\ merge[m] \in MergeRecord /\ merge[m].source \in commits
  BY <1>1 DEF MergeReadTarget, StoreInv, HistoryClosed, TypeOK, StoreTypeOK,
     MergeTypeOK, MergeKnows
<1>3. /\ rec \in MergeRecord
      /\ rec.pc = "previewed" /\ rec.source = merge[m].source
      /\ rec.into = into /\ rec.target = head[into]
  BY <1>2 DEF MergeRecord, MergePc
<1>4. StoreTypeOK' /\ HistoryClosed'
  BY DEF MergeReadTarget, StoreInv, TypeOK, StoreTypeOK, HistoryClosed,
     ClosedUnderParents, BranchExists
<1>5. merge'[m] = rec
  BY <1>1 DEF StoreInv, TypeOK, MergeTypeOK
<1> HIDE DEF rec
<1>6. MergeKnows(m)'
  BY <1>2, <1>3, <1>5 DEF MergeKnows, MergeReadTarget
<1> QED BY <1>1, <1>3, <1>4, <1>6, MergeLocal DEF MergeReadTarget, rec

\* MergeAcquire writes a well-typed lease row.
LEMMA MergeAcquireInv ==
  ASSUME StoreInv, NEW m \in MergeReq, MergeAcquire(m), UNCHANGED <<push, deleting>>
  PROVE  StoreInv'
<1> DEFINE into == merge[m].into
           row == [token |-> issued', source |-> merge[m].source,
                   target |-> merge[m].target, base |-> BaseOf(m), expired |-> FALSE]
<1>1. into \in Branch /\ merge[m].source \in Commit /\ merge[m].target \in Commit
  BY DEF MergeAcquire, StoreInv, MergeKnows, TypeOK, StoreTypeOK
<1>2. issued' \in Nat
  BY DEF MergeAcquire, AcquireMergeLease, StoreInv, TypeOK, StoreTypeOK
<1>3. row \in LeaseRecord
  BY <1>1, <1>2 DEF MergeAcquire, LeaseRecord
<1>4. lease' = [lease EXCEPT ![into] = row]
  BY DEF MergeAcquire, AcquireMergeLease
<1> HIDE DEF row
<1>5. StoreTypeOK' /\ HistoryClosed'
  BY <1>1, <1>2, <1>3, <1>4 DEF MergeAcquire, StoreInv, TypeOK, StoreTypeOK,
     HistoryClosed, ClosedUnderParents, BranchExists
<1> QED BY <1>5, MergeReturns DEF MergeAcquire

\* MergeFastForward moves a ref to the registered head of the source.
LEMMA MergeFastForwardInv ==
  ASSUME StoreInv, NEW m \in MergeReq, MergeFastForward(m), UNCHANGED <<push, deleting>>
  PROVE  StoreInv'
<1>1. merge[m].into \in Branch /\ merge[m].source \in commits
  BY DEF MergeFastForward, StoreInv, MergeKnows
<1>2. StoreTypeOK' /\ HistoryClosed'
  BY <1>1 DEF MergeFastForward, CompareAndSwapBranchRef, StoreInv, TypeOK,
     StoreTypeOK, HistoryClosed, ClosedUnderParents, BranchExists
<1> QED BY <1>2, MergeReturns DEF MergeFastForward

\* MergeWritePack: from here on the merge commit's pack is in CAS.
LEMMA MergeWritePackInv ==
  ASSUME StoreInv, NEW m \in MergeReq, MergeWritePack(m), UNCHANGED <<push, deleting>>
  PROVE  StoreInv'
<1> DEFINE into == merge[m].into
           target == merge[m].target
<1>1. PICK c \in Commit \ commits :
        /\ Parents[c] = <<target, merge[m].source>>
        /\ MergePack(target, c) \in Pack
        /\ casPacks' = casPacks \cup {MergePack(target, c)}
        /\ merge' = [merge EXCEPT ![m] = [@ EXCEPT
             !.pc = "apply", !.result = c, !.token = lease[into].token]]
  BY DEF MergeWritePack, WritePack
<1> DEFINE rec == [merge[m] EXCEPT
                     !.pc = "apply", !.result = c, !.token = lease[into].token]
<1>2. /\ merge[m] \in MergeRecord /\ into \in Branch
      /\ merge[m].source \in commits /\ target \in commits
  BY DEF MergeWritePack, StoreInv, TypeOK, MergeTypeOK, MergeKnows
<1>3. lease[into].token \in Nat
  BY <1>2 DEF MergeWritePack, StoreInv, TypeOK, StoreTypeOK, LeaseRecord
<1>4. /\ rec \in MergeRecord
      /\ rec.pc = "apply" /\ rec.source = merge[m].source
      /\ rec.into = into /\ rec.target = target /\ rec.result = c
  BY <1>2, <1>3 DEF MergeRecord, MergePc
<1>5. StoreTypeOK' /\ HistoryClosed'
  BY <1>1 DEF MergeWritePack, StoreInv, TypeOK, StoreTypeOK, HistoryClosed,
     ClosedUnderParents, BranchExists
<1>6. merge'[m] = rec
  BY <1>1 DEF StoreInv, TypeOK, MergeTypeOK
<1> HIDE DEF rec
<1>7. MergePack(target, c) \in casPacks' /\ commits' = commits /\ c \in Commit
  BY <1>1 DEF MergeWritePack
<1>8. MergeKnows(m)'
  <2> HIDE DEF into, target
  <2>1. merge'[m].source \in commits'
    BY <1>2, <1>4, <1>6, <1>7
  <2>2. merge'[m].into \in Branch /\ merge'[m].target \in commits'
    BY <1>2, <1>4, <1>6, <1>7
  <2>3. /\ merge'[m].result \in Commit
        /\ Parents[merge'[m].result] = <<merge'[m].target, merge'[m].source>>
        /\ MergePack(merge'[m].target, merge'[m].result) \in casPacks'
    BY <1>1, <1>4, <1>6, <1>7
  <2> QED BY <2>1, <2>2, <2>3 DEF MergeKnows
<1> QED BY <1>1, <1>4, <1>5, <1>8, MergeLocal DEF MergeWritePack, rec

\* MergeApply registers the merge commit after its two parents.
LEMMA MergeApplyInv ==
  ASSUME StoreInv, NEW m \in MergeReq, MergeApply(m), UNCHANGED <<push, deleting>>
  PROVE  StoreInv'
<1> DEFINE c == merge[m].result
           p == MergePack(merge[m].target, c)
<1>1. /\ merge[m].into \in Branch /\ c \in Commit /\ p \in Pack /\ p.target = c
      /\ Parents[c] = <<merge[m].target, merge[m].source>>
      /\ {merge[m].target, merge[m].source} \subseteq commits
  BY DEF MergeApply, StoreInv, TypeOK, StoreTypeOK, MergeKnows, MergePack
<1>2. ParentSet(c) \subseteq commits
  BY <1>1 DEF ParentSet
<1>3. /\ commits' = commits \cup {c} /\ packRanges' = packRanges \cup {p}
      /\ head' = [head EXCEPT ![merge[m].into] = c]
      /\ lease' = [lease EXCEPT ![merge[m].into] = NoLease]
  BY <1>1 DEF MergeApply, ApplyMerge, ConsumeLease
<1>4. StoreTypeOK'
  BY <1>1, <1>3 DEF MergeApply, StoreInv, TypeOK, StoreTypeOK
<1>5. HistoryClosed'
  BY <1>1, <1>2, <1>3 DEF StoreInv, HistoryClosed, ClosedUnderParents, BranchExists,
     TypeOK, StoreTypeOK
<1> QED BY <1>3, <1>4, <1>5, MergeReturns DEF MergeApply

\* MergeFail changes no row.
LEMMA MergeFailInv ==
  ASSUME StoreInv, NEW m \in MergeReq, MergeFail(m), UNCHANGED <<push, deleting>>
  PROVE  StoreInv'
<1>1. StoreTypeOK' /\ HistoryClosed'
  BY DEF MergeFail, StoreInv, TypeOK, StoreTypeOK, HistoryClosed,
     ClosedUnderParents, BranchExists
<1> QED BY <1>1, MergeReturns DEF MergeFail

\* Every step of a merge call preserves StoreInv.
LEMMA MergeInv ==
  ASSUME StoreInv, MergeNext, UNCHANGED <<push, deleting>>
  PROVE  StoreInv'
BY MergeReadSourceInv, MergeReadTargetInv, MergeAcquireInv, MergeFastForwardInv,
   MergeWritePackInv, MergeApplyInv, MergeFailInv DEF MergeNext, MergeStep

-----------------------------------------------------------------------------
(***************************************************************************)
(* Leases that go away, branch administration, and the theorem.            *)
(***************************************************************************)
LEMMA LeaseInv ==
  ASSUME StoreInv, LeaseNext, UNCHANGED <<push, merge, deleting>>
  PROVE  StoreInv'
<1> PICK b \in Branch : ReleaseLease(b) \/ LeaseExpires(b)
  BY DEF LeaseNext
<1>1. lease' \in [Branch -> LeaseRecord \cup {NoLease}]
  <2>1. lease \in [Branch -> LeaseRecord \cup {NoLease}]
    BY DEF StoreInv, TypeOK, StoreTypeOK
  <2>2. CASE ReleaseLease(b)
    BY <2>1, <2>2 DEF ReleaseLease, ReleaseMergeLease
  <2>3. CASE LeaseExpires(b)
    <3>1. lease[b] \in LeaseRecord /\ lease' = [lease EXCEPT ![b].expired = TRUE]
      BY <2>1, <2>3 DEF LeaseExpires, LeaseHeld
    <3>2. [lease[b] EXCEPT !.expired = TRUE] \in LeaseRecord
      BY <3>1 DEF LeaseRecord
    <3> QED BY <2>1, <3>1, <3>2
  <2> QED BY <2>2, <2>3
<1> QED BY <1>1 DEF ReleaseLease, LeaseExpires, StoreInv, TypeOK, StoreTypeOK,
     PushTypeOK, MergeTypeOK, BranchAdminTypeOK, HistoryClosed,
     ClosedUnderParents, BranchExists, PushKnows, MergeKnows

\* The branch endpoints preserve StoreInv.
LEMMA BranchAdminInv ==
  ASSUME StoreInv, BranchAdminNext, UNCHANGED <<push, merge>>
  PROVE  StoreInv'
<1> PICK b \in Branch : \/ AdminCreateBranch(b) \/ DeleteReadDefault(b)
                        \/ DeleteMark(b) \/ DeleteFail(b)
  BY BranchAdminAssumption DEF BranchAdminNext
<1>1. TypeOK'
  BY DEF AdminCreateBranch, CreateBranch, DeleteReadDefault, DeleteMark, DeleteFail,
     StoreInv, TypeOK, StoreTypeOK, PushTypeOK, MergeTypeOK, BranchAdminTypeOK
<1>2. HistoryClosed'
  BY DEF AdminCreateBranch, CreateBranch, DeleteReadDefault, DeleteMark, DeleteFail,
     StoreInv, TypeOK, StoreTypeOK, HistoryClosed, ClosedUnderParents, BranchExists
<1>3. UNCHANGED <<commits, casPacks>>
  BY DEF AdminCreateBranch, DeleteReadDefault, DeleteMark, DeleteFail
<1> QED BY <1>1, <1>2, <1>3 DEF StoreInv, PushKnows, MergeKnows

\* Every step of the server preserves StoreInv.
LEMMA StoreInvStep == StoreInv /\ [Next]_vars => StoreInv'
<1> SUFFICES ASSUME StoreInv, [Next]_vars PROVE StoreInv'
  OBVIOUS
<1>1. CASE UNCHANGED vars
  BY <1>1 DEF vars, StoreInv, TypeOK, StoreTypeOK, PushTypeOK, MergeTypeOK,
     BranchAdminTypeOK, HistoryClosed, ClosedUnderParents, BranchExists,
     PushKnows, MergeKnows
<1> QED BY <1>1, PushInv, MergeInv, LeaseInv, BranchAdminInv DEF Next

(***************************************************************************)
(* The rows and the locals of every call are well-formed, heads and        *)
(* parents are registered, and no call relies on what is not there.        *)
(***************************************************************************)
THEOREM StoreInvariant == Spec => []StoreInv
BY InitStoreInv, StoreInvStep, PTL DEF Spec

-----------------------------------------------------------------------------
(***************************************************************************)
(* Rows and locals keep their types: no handler stores an identifier where *)
(* another kind of value belongs.                                          *)
(***************************************************************************)
THEOREM TypeCorrect == Spec => []TypeOK
BY StoreInvariant, PTL DEF StoreInv

-----------------------------------------------------------------------------
(***************************************************************************)
(* A branch head's history is registered in full: foreign keys make the    *)
(* registered commits a closed set, whatever calls were cut off.           *)
(***************************************************************************)
THEOREM HeadHistoryIsComplete == Spec => []HeadHistoryComplete
<1>1. StoreInv => HeadHistoryComplete
  BY ClosedHoldsAncestry DEF StoreInv, TypeOK, StoreTypeOK, HistoryClosed, HeadHistoryComplete
<1> QED BY <1>1, StoreInvariant, PTL

-----------------------------------------------------------------------------
(***************************************************************************)
(* Metadata never gets ahead of CAS.                                       *)
(***************************************************************************)
LEMMA DurableStep == StoreInv /\ MetadataIsDurable /\ [Next]_vars => MetadataIsDurable'
<1> SUFFICES ASSUME StoreInv, MetadataIsDurable, [Next]_vars
             PROVE  MetadataIsDurable'
  OBVIOUS
<1>1. ASSUME casPacks \subseteq casPacks', UNCHANGED <<commits, packRanges>>
      PROVE  MetadataIsDurable'
  BY <1>1 DEF MetadataIsDurable
<1>2. ASSUME NEW r \in PushReq, PushWritePack(r) \/ PushStep(r) \/ PushFail(r)
      PROVE  MetadataIsDurable'
  <2>1. CASE PushPutCommit(r)
    <3> DEFINE p == push[r].pack
               c == p.commits[push[r].next]
    <3>1. p \in casPacks /\ p \in Pack /\ push[r].next \in 1..Len(p.commits)
      BY <2>1 DEF PushPutCommit, StoreInv, PushKnows, TypeOK, StoreTypeOK
    <3>2. c \in PackCommits(p)
      BY <3>1, RackStoreAssumption DEF PackCommits, PackRecord
    <3>3. commits' = commits \cup {c} /\ UNCHANGED <<packRanges, casPacks>>
      BY <2>1 DEF PushPutCommit, PutCommit
    <3> HIDE DEF c, p
    <3> QED BY <3>1, <3>2, <3>3 DEF MetadataIsDurable
  <2>2. CASE PushPutPackRange(r)
    BY <2>2 DEF PushPutPackRange, PutPackRange, StoreInv, PushKnows, MetadataIsDurable
  <2>3. CASE PushWritePack(r)
    BY <2>3, <1>1 DEF PushWritePack, WritePack
  <2>4. CASE \/ PushVerify(r) \/ PushRefMissing(r) \/ PushRefAtBase(r)
             \/ PushRefAtTarget(r) \/ PushRefElsewhere(r) \/ PushIsAncestor(r)
             \/ PushCreateBranch(r) \/ PushCompareAndSwap(r) \/ PushFail(r)
    BY <2>4, <1>1 DEF PushVerify, PushRefMissing, PushRefAtBase, PushRefAtTarget,
       PushRefElsewhere, PushIsAncestor, PushCreateBranch, PushCompareAndSwap, PushFail
  <2> QED BY <1>2, <2>1, <2>2, <2>3, <2>4 DEF PushStep
<1>3. ASSUME NEW m \in MergeReq, MergeReadSource(m) \/ MergeStep(m) \/ MergeFail(m)
      PROVE  MetadataIsDurable'
  <2>1. CASE MergeApply(m)
    <3> DEFINE c == merge[m].result
               p == MergePack(merge[m].target, c)
    <3>1. p \in casPacks /\ c \in PackCommits(p) /\ p.target = c
      BY <2>1 DEF MergeApply, StoreInv, MergeKnows, MergePack, PackCommits
    <3>2. /\ commits' = commits \cup {c} /\ packRanges' = packRanges \cup {p}
          /\ UNCHANGED casPacks
      BY <2>1, <3>1 DEF MergeApply, ApplyMerge
    <3> HIDE DEF c, p
    <3> QED BY <3>1, <3>2 DEF MetadataIsDurable
  <2>2. CASE MergeWritePack(m)
    BY <2>2, <1>1 DEF MergeWritePack, WritePack
  <2>3. CASE \/ MergeReadSource(m) \/ MergeReadTarget(m) \/ MergeAcquire(m)
             \/ MergeFastForward(m) \/ MergeFail(m)
    BY <2>3, <1>1 DEF MergeReadSource, MergeReadTarget, MergeAcquire,
       MergeFastForward, MergeFail
  <2> QED BY <1>3, <2>1, <2>2, <2>3 DEF MergeStep
<1>4. CASE LeaseNext \/ BranchAdminNext \/ UNCHANGED vars
  BY <1>4, <1>1 DEF LeaseNext, ReleaseLease, LeaseExpires, BranchAdminNext,
     AdminCreateBranch, DeleteReadDefault, DeleteMark, DeleteFail, vars
<1> QED BY <1>2, <1>3, <1>4 DEF Next, PushNext, MergeNext

(***************************************************************************)
(* Every registered commit travels in a pack that is in CAS, and so does   *)
(* every registered pack range, at every instant: a call that dies leaves  *)
(* packs without rows, never rows without packs.                           *)
(***************************************************************************)
THEOREM MetadataDurable == Spec => []MetadataIsDurable
<1>1. Init => MetadataIsDurable
  BY DEF Init, StoreInit, MetadataIsDurable
<1> QED BY <1>1, DurableStep, StoreInvariant, PTL DEF Spec

-----------------------------------------------------------------------------
(***************************************************************************)
(* How one step may change a branch: what the store operations guarantee   *)
(* about heads and leases, whoever calls them.                             *)
(***************************************************************************)
Created(b) == /\ ~BranchExists(b) /\ head'[b] \in Commit /\ lease' = lease
              /\ \/ b \in AdminBranch
                 \/ \E r \in PushReq :
                      push[r].pc = "create" /\ head'[b] = push[r].pack.target

Swapped(b) == /\ BranchExists(b) /\ ~LeaseHeld(b) /\ lease' = lease
              /\ \/ \E r \in PushReq :
                      /\ push[r].pc = "swap" /\ push[r].branch = b
                      /\ push[r].expected = head[b]
                      /\ head'[b] = push[r].pack.target
                 \/ \E m \in MergeReq :
                      /\ merge[m].pc = "previewed" /\ CanFastForward(m)
                      /\ merge[m].target = head[b] /\ head'[b] = merge[m].source

Merged(b) == /\ OwnsLease(b, lease[b].token)
             /\ Parents[head'[b]] = <<lease[b].target, lease[b].source>>
             /\ head[b] = lease[b].target
             /\ head'[b] \in Commit
             /\ MergePack(head[b], head'[b]) \in packRanges'
             /\ lease' = [lease EXCEPT ![b] = NoLease]
             /\ \E m \in MergeReq : /\ merge[m].pc = "apply" /\ merge[m].into = b
                                     /\ merge[m].token = lease[b].token

Moves(b) == /\ \A d \in Branch \ {b} : head'[d] = head[d]
            /\ Created(b) \/ Swapped(b) \/ Merged(b)

\* What a step does to the heads: nothing, or one is created, swapped or
\* merged.
LEMMA HeadSteps ==
  ASSUME StoreInv, [Next]_vars
  PROVE  head' = head \/ \E b \in Branch : Moves(b)
<1>0. head \in [Branch -> Commit \cup {NoCommit}]
  BY DEF StoreInv, TypeOK, StoreTypeOK
<1>1. ASSUME NEW r \in PushReq, PushWritePack(r) \/ PushStep(r) \/ PushFail(r)
      PROVE  head' = head \/ \E b \in Branch : Moves(b)
  <2> DEFINE b == push[r].branch
  <2>1. CASE PushCreateBranch(r)
    <3>1. b \in Branch /\ push[r].pack.target \in Commit
      BY <2>1 DEF PushCreateBranch, CreateBranch, StoreInv, PushKnows, TypeOK, StoreTypeOK
    <3> QED BY <1>0, <2>1, <3>1 DEF PushCreateBranch, CreateBranch, Moves, Created
  <2>2. CASE PushCompareAndSwap(r)
    <3>1. b \in Branch
      BY <2>2 DEF PushCompareAndSwap, StoreInv, PushKnows
    <3> QED BY <1>0, <2>2, <3>1 DEF PushCompareAndSwap, CompareAndSwapBranchRef, Moves, Swapped
  <2> QED BY <1>1, <2>1, <2>2 DEF PushStep, PushWritePack, PushVerify, PushPutCommit,
          PushPutPackRange, PushRefMissing, PushRefAtBase, PushRefAtTarget,
          PushRefElsewhere, PushIsAncestor, PushFail
<1>2. ASSUME NEW m \in MergeReq, MergeReadSource(m) \/ MergeStep(m) \/ MergeFail(m)
      PROVE  head' = head \/ \E b \in Branch : Moves(b)
  <2> DEFINE b == merge[m].into
  <2>1. CASE MergeFastForward(m)
    <3>1. b \in Branch
      BY <2>1 DEF MergeFastForward, StoreInv, MergeKnows
    <3> QED BY <1>0, <2>1, <3>1 DEF MergeFastForward, CompareAndSwapBranchRef, Moves, Swapped
  <2>2. CASE MergeApply(m)
    <3> DEFINE c == merge[m].result
    <3>1. /\ b \in Branch /\ c \in Commit
          /\ Parents[c] = <<merge[m].target, merge[m].source>>
          /\ merge[m].pc = "apply"
          /\ MergePack(merge[m].target, c).target = c
      BY <2>2 DEF MergeApply, StoreInv, MergeKnows, MergePack
    <3>2. /\ head[b] = merge[m].target /\ OwnsLease(b, merge[m].token)
          /\ lease[b].target = merge[m].target /\ lease[b].source = merge[m].source
          /\ head' = [head EXCEPT ![b] = c]
          /\ packRanges' = packRanges \cup {MergePack(merge[m].target, c)}
          /\ lease' = [lease EXCEPT ![b] = NoLease]
      BY <2>2, <3>1 DEF MergeApply, ApplyMerge, LeaseMatches, ConsumeLease
    <3>3. lease[b].token = merge[m].token
      BY <3>2 DEF OwnsLease
    <3> HIDE DEF c
    <3> QED BY <1>0, <3>1, <3>2, <3>3 DEF Moves, Merged
  <2> QED BY <1>2, <2>1, <2>2 DEF MergeStep, MergeReadSource, MergeReadTarget,
          MergeAcquire, MergeWritePack, MergeFail
<1>3. CASE LeaseNext
  BY <1>3 DEF LeaseNext, ReleaseLease, LeaseExpires
<1>4. CASE BranchAdminNext
  <2>1. ASSUME NEW b \in AdminBranch, AdminCreateBranch(b)
        PROVE  \E d \in Branch : Moves(d)
    <3>1. b \in Branch
      BY BranchAdminAssumption
    <3> QED BY <1>0, <2>1, <3>1 DEF AdminCreateBranch, CreateBranch, Moves, Created,
            StoreInv, TypeOK, StoreTypeOK
  <2> QED BY <1>4, <2>1 DEF BranchAdminNext, DeleteReadDefault, DeleteMark, DeleteFail
<1>5. CASE UNCHANGED vars
  BY <1>5 DEF vars
<1> QED BY <1>1, <1>2, <1>3, <1>4, <1>5 DEF Next, PushNext, MergeNext

\* How one step may change the leases.
Granted(b) ==
  /\ BranchExists(b) /\ ~LeaseHeld(b)
  /\ \E row \in LeaseRecord : /\ lease' = [lease EXCEPT ![b] = row]
                            /\ row.target = head[b] /\ ~row.expired
  /\ head' = head

Ended(b) ==
  /\ lease[b] # NoLease
  /\ \/ lease' = [lease EXCEPT ![b] = NoLease]
     \/ lease' = [lease EXCEPT ![b].expired = TRUE]
  /\ head' = head

\* What a step does to a lease row: nothing, or a grant, an expiry or its end.
LEMMA LeaseSteps ==
  ASSUME StoreInv, [Next]_vars
  PROVE  lease' = lease \/ \E b \in Branch : Granted(b) \/ Ended(b) \/ Moves(b)
<1>1. CASE LeaseNext
  BY <1>1 DEF LeaseNext, ReleaseLease, ReleaseMergeLease, LeaseExpires, LeaseHeld, Ended
<1>2. ASSUME NEW m \in MergeReq, MergeAcquire(m)
      PROVE  \E b \in Branch : Granted(b)
  <2> DEFINE b == merge[m].into
             row == [token |-> issued', source |-> merge[m].source,
                     target |-> merge[m].target, base |-> BaseOf(m), expired |-> FALSE]
  <2>1. /\ b \in Branch /\ merge[m].source \in Commit /\ merge[m].target \in Commit
        /\ issued' \in Nat
    BY <1>2 DEF MergeAcquire, AcquireMergeLease, StoreInv, MergeKnows, TypeOK, StoreTypeOK
  <2>2. row \in LeaseRecord
    BY <1>2, <2>1 DEF MergeAcquire, LeaseRecord
  <2>3. /\ lease' = [lease EXCEPT ![b] = row] /\ row.target = head[b]
        /\ row.expired = FALSE /\ BranchExists(b) /\ ~LeaseHeld(b) /\ head' = head
    BY <1>2 DEF MergeAcquire, AcquireMergeLease
  <2> HIDE DEF row
  <2> QED BY <2>1, <2>2, <2>3 DEF Granted
<1>3. ASSUME NEW m \in MergeReq, MergeReadSource(m) \/ MergeStep(m) \/ MergeFail(m)
      PROVE  lease' = lease \/ \E b \in Branch : Granted(b) \/ Moves(b)
  <2>1. CASE MergeApply(m)
    <3> DEFINE c == merge[m].result
    <3>1. /\ merge[m].into \in Branch /\ c \in Commit /\ merge[m].target \in commits
          /\ Parents[c] = <<merge[m].target, merge[m].source>>
          /\ MergePack(merge[m].target, c).target = c
      BY <2>1 DEF MergeApply, StoreInv, MergeKnows, MergePack
    <3>2. /\ head[merge[m].into] = merge[m].target /\ c \notin commits
          /\ head' = [head EXCEPT ![merge[m].into] = c]
      BY <2>1, <3>1 DEF MergeApply, ApplyMerge
    <3> HIDE DEF c
    <3>3. head' # head
      BY <3>1, <3>2 DEF StoreInv, TypeOK, StoreTypeOK
    <3> QED BY <3>3, HeadSteps
  <2> QED BY <1>2, <1>3, <2>1 DEF MergeStep, MergeReadSource, MergeReadTarget,
          MergeFastForward, MergeWritePack, MergeFail
<1>4. ASSUME NEW r \in PushReq, PushWritePack(r) \/ PushStep(r) \/ PushFail(r)
      PROVE  lease' = lease
  BY <1>4 DEF PushStep, PushWritePack, PushVerify, PushPutCommit,
          PushPutPackRange, PushRefMissing, PushRefAtBase, PushRefAtTarget,
          PushRefElsewhere, PushIsAncestor, PushCreateBranch, PushCompareAndSwap, PushFail
<1>5. CASE BranchAdminNext \/ UNCHANGED vars
  BY <1>5 DEF BranchAdminNext, AdminCreateBranch, DeleteReadDefault, DeleteMark,
     DeleteFail, vars
<1> QED BY <1>1, <1>3, <1>4, <1>5 DEF Next, PushNext, MergeNext

-----------------------------------------------------------------------------
\* Every step preserves LeasePinsHead.
LEMMA LeasePinsHeadStep == StoreInv /\ LeasePinsHead /\ [Next]_vars => LeasePinsHead'
<1> SUFFICES ASSUME StoreInv, LeasePinsHead, [Next]_vars,
                    NEW d \in Branch, LeaseHeld(d)'
             PROVE  head'[d] = lease'[d].target
  BY DEF LeasePinsHead
<1>0. /\ lease \in [Branch -> LeaseRecord \cup {NoLease}]
      /\ head \in [Branch -> Commit \cup {NoCommit}]
      /\ LeaseHeld(d) => head[d] = lease[d].target
  BY DEF StoreInv, TypeOK, StoreTypeOK, LeasePinsHead
<1>1. ASSUME NEW b \in Branch, Moves(b) PROVE head'[d] = lease'[d].target
  <2>1. CASE d # b
    BY <1>0, <1>1, <2>1 DEF Moves, Created, Swapped, Merged, LeaseHeld
  <2>2. CASE d = b /\ Created(b)
    BY <1>0, <2>2, CommitDagAssumption DEF Created, BranchExists, LeaseHeld, LeaseRecord
  <2>3. CASE d = b /\ Swapped(b)
    BY <2>3 DEF Swapped, LeaseHeld
  <2>4. CASE d = b /\ Merged(b)
    BY <1>0, <2>4 DEF Merged, LeaseHeld
  <2> QED BY <1>1, <2>1, <2>2, <2>3, <2>4 DEF Moves
<1>2. ASSUME NEW b \in Branch, Granted(b) PROVE head'[d] = lease'[d].target
  BY <1>0, <1>2 DEF Granted, LeaseHeld
<1>3. ASSUME NEW b \in Branch, Ended(b) PROVE head'[d] = lease'[d].target
  <2>1. CASE d # b
    BY <1>0, <1>3, <2>1 DEF Ended, LeaseHeld
  <2>2. CASE d = b
    <3>1. CASE lease' = [lease EXCEPT ![b] = NoLease]
      BY <1>0, <2>2, <3>1 DEF LeaseHeld
    <3>2. CASE lease' = [lease EXCEPT ![b].expired = TRUE]
      <4>1. lease[b] \in LeaseRecord
        BY <1>0, <1>3 DEF Ended
      <4>2. lease'[b] = [lease[b] EXCEPT !.expired = TRUE]
        BY <1>0, <3>2
      <4>3. lease'[b].expired = TRUE
        BY <4>1, <4>2 DEF LeaseRecord
      <4> QED BY <2>2, <4>3 DEF LeaseHeld
    <3> QED BY <1>3, <3>1, <3>2 DEF Ended
  <2> QED BY <2>1, <2>2
<1>4. CASE lease' = lease /\ head' = head
  BY <1>0, <1>4 DEF LeaseHeld
<1> QED BY <1>1, <1>2, <1>3, <1>4, LeaseSteps, HeadSteps

(***************************************************************************)
(* An unexpired lease keeps the head it was granted on: no push and no     *)
(* other merge gets in between the preview and its Apply.                  *)
(***************************************************************************)
THEOREM LeasePinsHeadAlways == Spec => []LeasePinsHead
<1>1. Init => LeasePinsHead
  BY DEF Init, StoreInit, LeasePinsHead, LeaseHeld
<1> QED BY <1>1, LeasePinsHeadStep, StoreInvariant, PTL DEF Spec

(***************************************************************************)
(* A leased head moves only by the merge its lease was granted for, and    *)
(* that step consumes the lease.                                           *)
(***************************************************************************)
THEOREM OnlyMergeMovesLeasedHead == Spec => LeasedHeadMovesByMerge
<1> DEFINE A == \A b \in Branch :
                  LeaseHeld(b) /\ head'[b] # head[b] =>
                    /\ Parents[head'[b]] = <<lease[b].target, lease[b].source>>
                    /\ lease'[b] = NoLease
<1>1. StoreInv /\ LeasePinsHead /\ [Next]_vars => [A]_vars
  <2> SUFFICES ASSUME StoreInv, LeasePinsHead, [Next]_vars, NEW b \in Branch,
                      LeaseHeld(b), head'[b] # head[b]
               PROVE  /\ Parents[head'[b]] = <<lease[b].target, lease[b].source>>
                      /\ lease'[b] = NoLease
    OBVIOUS
  <2>1. Created(b) \/ Swapped(b) \/ Merged(b)
    BY HeadSteps DEF Moves
  <2>2. BranchExists(b) /\ lease \in [Branch -> LeaseRecord \cup {NoLease}]
    BY CommitDagAssumption DEF LeasePinsHead, LeaseHeld, BranchExists, LeaseRecord,
       StoreInv, TypeOK, StoreTypeOK
  <2> QED BY <2>1, <2>2 DEF Created, Swapped, Merged
<1> QED BY <1>1, StoreInvariant, LeasePinsHeadAlways, PTL
        DEF Spec, LeasedHeadMovesByMerge

(***************************************************************************)
(* A leased head moves only in the Apply of a request with the lease's own *)
(* token.                                                                  *)
(***************************************************************************)
THEOREM OnlyHolderMerges == Spec => LeaseHolderMerges
<1> DEFINE A == \A b \in Branch :
                  LeaseHeld(b) /\ head'[b] # head[b] =>
                    \E m \in MergeReq : /\ merge[m].pc = "apply"
                                        /\ merge[m].into = b
                                        /\ merge[m].token = lease[b].token
<1>1. StoreInv /\ LeasePinsHead /\ [Next]_vars => [A]_vars
  <2> SUFFICES ASSUME StoreInv, LeasePinsHead, [Next]_vars, NEW b \in Branch,
                      LeaseHeld(b), head'[b] # head[b]
               PROVE  \E m \in MergeReq : /\ merge[m].pc = "apply"
                                          /\ merge[m].into = b
                                          /\ merge[m].token = lease[b].token
    OBVIOUS
  <2>1. Created(b) \/ Swapped(b) \/ Merged(b)
    BY HeadSteps DEF Moves
  <2>2. BranchExists(b)
    BY CommitDagAssumption DEF LeasePinsHead, LeaseHeld, BranchExists, LeaseRecord,
       StoreInv, TypeOK, StoreTypeOK
  <2> QED BY <2>1, <2>2 DEF Created, Swapped, Merged
<1> QED BY <1>1, StoreInvariant, LeasePinsHeadAlways, PTL DEF Spec, LeaseHolderMerges

-----------------------------------------------------------------------------
(***************************************************************************)
(* What a lease stands for, from its grant to its end.                     *)
(***************************************************************************)

(***************************************************************************)
(* Between AcquireMergeLease and ApplyMerge the terms of a lease row stay  *)
(* true: its heads are registered and no fast-forward joins them, its base *)
(* is their merge base, and its token was handed out for it alone.         *)
(***************************************************************************)
LeaseTerms ==
  \A b \in Branch :
    lease[b] # NoLease =>
      /\ lease[b].source \in commits /\ lease[b].target \in commits
      /\ lease[b].target \notin Ancestry[lease[b].source]
      /\ lease[b].base = MergeBaseOf[lease[b].source][lease[b].target]
      /\ lease[b].token \in 1..issued
      /\ \A d \in Branch : OwnsLease(d, lease[b].token) => d = b

(***************************************************************************)
(* A token that a call has validated never comes to stand for anything     *)
(* else: while it owns a lease at all, it is one on the call's branch with *)
(* the heads and the base of the call's preview, so the comparisons of     *)
(* ApplyMerge with the row refuse none of the calls that FinalizeEngine    *)
(* makes.                                                                  *)
(***************************************************************************)
TokenKeepsItsTerms ==
  \A m \in MergeReq :
    merge[m].pc = "apply" =>
      /\ merge[m].token \in 1..issued
      /\ \A b \in Branch :
           OwnsLease(b, merge[m].token) =>
             /\ b = merge[m].into
             /\ LeaseMatches(b, merge[m].source, merge[m].target, BaseOf(m))

\* Rows of commits are never deleted.
LEMMA CommitsGrow == [Next]_vars => commits \subseteq commits'
BY DEF Next, PushNext, PushStep, PushWritePack, PushVerify, PushPutCommit, PutCommit,
   PushPutPackRange, PushRefMissing, PushRefAtBase, PushRefAtTarget,
   PushRefElsewhere, PushIsAncestor, PushCreateBranch, PushCompareAndSwap, PushFail,
   MergeNext, MergeStep, MergeReadSource, MergeReadTarget, MergeAcquire,
   MergeFastForward, MergeWritePack, MergeApply, ApplyMerge, MergeFail, LeaseNext,
   ReleaseLease, LeaseExpires, BranchAdminNext, AdminCreateBranch,
   DeleteReadDefault, DeleteMark, DeleteFail, vars

\* OwnsLease after the step.
OwnsLeaseNext(b, token) == lease'[b] # NoLease /\ lease'[b].token = token

\* What a lease was granted for is never rewritten.
SameTerms(b) ==
  /\ lease[b] # NoLease
  /\ lease'[b].token = lease[b].token /\ lease'[b].base = lease[b].base
  /\ lease'[b].source = lease[b].source /\ lease'[b].target = lease[b].target

RowsOnlyEnd == /\ issued' = issued
               /\ \A b \in Branch : lease'[b] # NoLease => SameTerms(b)

\* Besides AcquireLease, whatever runs lets rows stand, expire or go.
LEMMA RowsEndOrGranted ==
  ASSUME StoreInv, [Next]_vars
  PROVE  RowsOnlyEnd \/ \E m \in MergeReq : MergeAcquire(m)
<1>0. lease \in [Branch -> LeaseRecord \cup {NoLease}]
  BY DEF StoreInv, TypeOK, StoreTypeOK
<1>1. CASE UNCHANGED <<lease, issued>>
  BY <1>1 DEF RowsOnlyEnd, SameTerms
<1>2. ASSUME NEW b \in Branch, lease[b] # NoLease, UNCHANGED issued,
             \/ lease' = [lease EXCEPT ![b] = NoLease]
             \/ lease' = [lease EXCEPT ![b].expired = TRUE]
      PROVE  RowsOnlyEnd
  <2> SUFFICES ASSUME NEW d \in Branch, lease'[d] # NoLease PROVE SameTerms(d)
    BY <1>2 DEF RowsOnlyEnd
  <2>1. CASE d # b
    BY <1>0, <1>2, <2>1 DEF SameTerms
  <2>2. CASE d = b
    <3>1. lease'[b] = [lease[b] EXCEPT !.expired = TRUE] /\ lease[b] \in LeaseRecord
      BY <1>0, <1>2, <2>2
    <3> QED BY <1>2, <2>2, <3>1 DEF SameTerms, LeaseRecord
  <2> QED BY <2>1, <2>2
<1>3. CASE LeaseNext
  <2>1. PICK b \in Branch : ReleaseLease(b) \/ LeaseExpires(b)
    BY <1>3 DEF LeaseNext
  <2> QED BY <1>2, <2>1 DEF ReleaseLease, ReleaseMergeLease, LeaseExpires, LeaseHeld
<1>4. ASSUME NEW m \in MergeReq, MergeApply(m) PROVE RowsOnlyEnd
  <2>1. merge[m].into \in Branch
    BY <1>4 DEF MergeApply, StoreInv, MergeKnows
  <2> QED BY <1>2, <1>4, <2>1 DEF MergeApply, ApplyMerge, ConsumeLease
<1>5. CASE MergeNext
  <2>1. PICK m \in MergeReq : MergeReadSource(m) \/ MergeStep(m) \/ MergeFail(m)
    BY <1>5 DEF MergeNext
  <2>2. MergeAcquire(m) \/ MergeApply(m) \/ UNCHANGED <<lease, issued>>
    BY <2>1 DEF MergeStep, MergeReadSource, MergeReadTarget, MergeFastForward,
       MergeWritePack, MergeFail
  <2> QED BY <1>1, <1>4, <2>2
<1>6. CASE PushNext \/ BranchAdminNext \/ UNCHANGED vars
  <2>1. UNCHANGED <<lease, issued>>
    BY <1>6 DEF PushNext, PushStep, PushWritePack, PushVerify, PushPutCommit,
       PushPutPackRange, PushRefMissing, PushRefAtBase, PushRefAtTarget,
       PushRefElsewhere, PushIsAncestor, PushCreateBranch, PushCompareAndSwap,
       PushFail, BranchAdminNext, AdminCreateBranch, DeleteReadDefault, DeleteMark,
       DeleteFail, vars
  <2> QED BY <1>1, <2>1
<1> QED BY <1>3, <1>5, <1>6 DEF Next

\* A call is about to apply because it was before, or has just validated
\* its token.
LEMMA ApplyingCalls ==
  ASSUME StoreInv, [Next]_vars, NEW m \in MergeReq, merge'[m].pc = "apply"
  PROVE  \/ merge'[m] = merge[m] /\ merge[m].pc = "apply"
         \/ MergeWritePack(m)
<1>0. merge \in [MergeReq -> MergeRecord]
  BY DEF StoreInv, TypeOK, MergeTypeOK
<1>1. CASE merge' = merge
  BY <1>1
<1>2. ASSUME NEW n \in MergeReq, n # m,
             MergeReadSource(n) \/ MergeStep(n) \/ MergeFail(n)
      PROVE  merge'[m] = merge[m]
  BY <1>0, <1>2 DEF MergeReadSource, MergeStep, MergeReadTarget, MergeAcquire,
     MergeFastForward, MergeWritePack, MergeApply, MergeFail, MergeDone
<1>3. CASE MergeReadSource(m) \/ MergeStep(m) \/ MergeFail(m)
  <2>1. ASSUME MergeDone(m) PROVE FALSE
    BY <1>0, <2>1 DEF MergeDone, IdleMerge
  <2>2. ASSUME MergeReadSource(m) PROVE FALSE
    <3>1. PICK from \in Branch : merge' = [merge EXCEPT ![m] = [IdleMerge EXCEPT
            !.pc = "target", !.from = from, !.source = head[from]]]
      BY <2>2 DEF MergeReadSource
    <3>2. merge'[m].pc = "target"
      BY <1>0, <3>1 DEF IdleMerge
    <3> QED BY <3>2
  <2>3. ASSUME MergeReadTarget(m) PROVE FALSE
    <3>1. PICK into \in Branch : merge' = [merge EXCEPT ![m] = [@ EXCEPT
            !.pc = "previewed", !.into = into, !.target = head[into]]]
      BY <2>3 DEF MergeReadTarget
    <3>2. merge'[m].pc = "previewed"
      BY <1>0, <3>1 DEF MergeRecord
    <3> QED BY <3>2
  <2> QED BY <1>3, <2>1, <2>2, <2>3 DEF MergeStep, MergeAcquire, MergeFastForward,
          MergeApply, MergeFail
<1>4. CASE MergeNext
  BY <1>2, <1>3, <1>4 DEF MergeNext
<1>5. CASE \/ (PushNext \/ LeaseNext \/ BranchAdminNext) /\ UNCHANGED merge
           \/ UNCHANGED vars
  BY <1>1, <1>5 DEF vars
<1> QED BY <1>4, <1>5 DEF Next
\* A lease row that stands keeps its terms.
LEMMA StandingTerms ==
  ASSUME StoreInv, LeaseTerms, RowsOnlyEnd, commits \subseteq commits'
  PROVE  LeaseTerms'
<1> SUFFICES ASSUME NEW b \in Branch, lease'[b] # NoLease
             PROVE  /\ lease'[b].source \in commits' /\ lease'[b].target \in commits'
                    /\ lease'[b].target \notin Ancestry[lease'[b].source]
                    /\ lease'[b].base = MergeBaseOf[lease'[b].source][lease'[b].target]
                    /\ lease'[b].token \in 1..issued'
                    /\ \A d \in Branch : OwnsLeaseNext(d, lease'[b].token) => d = b
  BY DEF LeaseTerms, OwnsLease, OwnsLeaseNext
<1>1. SameTerms(b) /\ issued' = issued
  BY DEF RowsOnlyEnd
<1>2. ASSUME NEW d \in Branch, OwnsLeaseNext(d, lease'[b].token) PROVE d = b
  <2>1. SameTerms(d)
    BY <1>2 DEF RowsOnlyEnd, OwnsLease, OwnsLeaseNext
  <2>2. OwnsLease(d, lease[b].token)
    BY <1>1, <1>2, <2>1 DEF OwnsLease, OwnsLeaseNext, SameTerms
  <2> QED BY <1>1, <2>2 DEF LeaseTerms, SameTerms
<1> QED BY <1>1, <1>2 DEF LeaseTerms, SameTerms

\* A grant: AcquireLease refused a fast-forward, and the token is new.
LEMMA GrantedTerms ==
  ASSUME StoreInv, LeaseTerms, NEW m \in MergeReq, MergeAcquire(m)
  PROVE  /\ LeaseTerms' /\ issued' = issued + 1
         /\ \A b \in Branch : lease'[b] # NoLease =>
              SameTerms(b) \/ lease'[b].token = issued'
<1> DEFINE into == merge[m].into
           source == merge[m].source
           target == merge[m].target
           row == [token |-> issued', source |-> source, target |-> target,
                   base |-> BaseOf(m), expired |-> FALSE]
<1>1. /\ into \in Branch /\ source \in commits /\ target \in commits
      /\ commits' = commits /\ issued \in Nat /\ issued' = issued + 1
      /\ lease \in [Branch -> LeaseRecord \cup {NoLease}]
      /\ lease' = [lease EXCEPT ![into] = row]
  BY DEF MergeAcquire, AcquireMergeLease, StoreInv, MergeKnows, TypeOK, StoreTypeOK
<1>2. target \notin Ancestry[source]
  <2>1. ~IsAncestor(commits, target, source)
    BY DEF MergeAcquire, CanFastForward
  <2>2. commits \in SUBSET Commit /\ ClosedUnderParents(commits)
    BY DEF StoreInv, HistoryClosed, TypeOK, StoreTypeOK
  <2> HIDE DEF source, target
  <2> QED BY <1>1, <2>1, <2>2, AncestorsAreStored DEF IsAncestor
<1>3. /\ row.source = source /\ row.target = target /\ row.token = issued'
      /\ row.base = MergeBaseOf[source][target]
  BY DEF BaseOf
<1> HIDE DEF row, into, source, target
<1>4. ASSUME NEW b \in Branch
      PROVE  IF b = into THEN lease'[b] = row ELSE lease'[b] = lease[b]
  BY <1>1
<1>5. ASSUME NEW b \in Branch, lease[b] # NoLease
      PROVE  lease[b].token \in 1..issued
  BY <1>5 DEF LeaseTerms
<1>6. LeaseTerms'
  <2> SUFFICES ASSUME NEW b \in Branch, lease'[b] # NoLease
               PROVE  /\ lease'[b].source \in commits' /\ lease'[b].target \in commits'
                      /\ lease'[b].target \notin Ancestry[lease'[b].source]
                      /\ lease'[b].base = MergeBaseOf[lease'[b].source][lease'[b].target]
                      /\ lease'[b].token \in 1..issued'
                      /\ \A d \in Branch : OwnsLeaseNext(d, lease'[b].token) => d = b
    BY DEF LeaseTerms, OwnsLease, OwnsLeaseNext
  <2>1. CASE b = into
    <3>1. ASSUME NEW d \in Branch, d # into, lease'[d] # NoLease
          PROVE  lease'[d].token # issued'
      BY <1>1, <1>4, <1>5, <3>1
    <3>2. \A d \in Branch : OwnsLeaseNext(d, lease'[b].token) => d = b
      BY <1>3, <1>4, <2>1, <3>1 DEF OwnsLease, OwnsLeaseNext
    <3>3. issued' \in 1..issued'
      BY <1>1
    <3> QED BY <1>1, <1>2, <1>3, <1>4, <2>1, <3>2, <3>3
  <2>2. CASE b # into
    <3>1. lease'[b] = lease[b]
      BY <1>4, <2>2
    <3>2. /\ lease[b].source \in commits /\ lease[b].target \in commits
          /\ lease[b].target \notin Ancestry[lease[b].source]
          /\ lease[b].base = MergeBaseOf[lease[b].source][lease[b].target]
          /\ lease[b].token \in 1..issued
          /\ \A d \in Branch : OwnsLease(d, lease[b].token) => d = b
      BY <3>1 DEF LeaseTerms
    <3>3. lease[b].token \in 1..issued' /\ lease[b].token # issued'
      BY <1>1, <3>2
    <3>4. ASSUME NEW d \in Branch, OwnsLeaseNext(d, lease'[b].token) PROVE d = b
      <4>1. d # into
        BY <1>3, <1>4, <3>1, <3>3, <3>4 DEF OwnsLease, OwnsLeaseNext
      <4>2. lease'[d] = lease[d]
        BY <1>4, <4>1
      <4> QED BY <3>1, <3>2, <3>4, <4>2 DEF OwnsLease, OwnsLeaseNext
    <3> QED BY <1>1, <3>1, <3>2, <3>3, <3>4
  <2> QED BY <2>1, <2>2
<1>7. ASSUME NEW b \in Branch, lease'[b] # NoLease
      PROVE  SameTerms(b) \/ lease'[b].token = issued'
  BY <1>3, <1>4, <1>7 DEF SameTerms
<1> QED BY <1>1, <1>6, <1>7

\* Every step keeps the terms of the leases.
LEMMA LeaseTermsStep ==
  ASSUME StoreInv, LeaseTerms, [Next]_vars
  PROVE  LeaseTerms'
BY CommitsGrow, RowsEndOrGranted, StandingTerms, GrantedTerms

\* Only a grant hands out a token, a new one, and no step rewrites a row.
LEMMA TokensChange ==
  ASSUME StoreInv, LeaseTerms, [Next]_vars
  PROVE  /\ issued \in Nat /\ issued' \in {issued, issued + 1}
         /\ \A b \in Branch : lease'[b] # NoLease =>
              SameTerms(b) \/ lease'[b].token = issued + 1
<1>1. issued \in Nat
  BY DEF StoreInv, TypeOK, StoreTypeOK
<1>2. CASE RowsOnlyEnd
  BY <1>1, <1>2 DEF RowsOnlyEnd
<1>3. ASSUME NEW m \in MergeReq, MergeAcquire(m)
      PROVE  /\ issued' = issued + 1
             /\ \A b \in Branch : lease'[b] # NoLease =>
                  SameTerms(b) \/ lease'[b].token = issued + 1
  BY <1>3, GrantedTerms
<1> QED BY <1>1, <1>2, <1>3, RowsEndOrGranted

(***************************************************************************)
(* Every step keeps what a validated token stands for: when it is          *)
(* validated it is the token of the call's own lease and of no other, and  *)
(* from then on a grant hands out another token.                           *)
(***************************************************************************)
LEMMA TokenKeepsItsTermsStep ==
  ASSUME StoreInv, LeaseTerms, TokenKeepsItsTerms, [Next]_vars
  PROVE  TokenKeepsItsTerms'
<1> SUFFICES ASSUME NEW m \in MergeReq, merge'[m].pc = "apply"
             PROVE  /\ merge'[m].token \in 1..issued'
                    /\ \A b \in Branch :
                         OwnsLeaseNext(b, merge'[m].token) =>
                           /\ b = merge'[m].into
                           /\ LeaseMatches(b, merge[m].source, merge[m].target, BaseOf(m))'
  BY DEF TokenKeepsItsTerms, OwnsLease, OwnsLeaseNext, LeaseMatches, BaseOf
<1>1. CASE merge'[m] = merge[m] /\ merge[m].pc = "apply"
  <2>1. /\ merge[m].token \in 1..issued
        /\ \A b \in Branch :
             OwnsLease(b, merge[m].token) =>
               /\ b = merge[m].into
               /\ LeaseMatches(b, merge[m].source, merge[m].target, BaseOf(m))
    BY <1>1 DEF TokenKeepsItsTerms
  <2>2. /\ merge[m].token \in 1..issued'
        /\ merge[m].token # issued + 1
    BY <2>1, TokensChange
  <2>3. ASSUME NEW b \in Branch, OwnsLeaseNext(b, merge'[m].token)
        PROVE  SameTerms(b) /\ OwnsLease(b, merge[m].token)
    <3>1. lease'[b] # NoLease /\ lease'[b].token = merge[m].token
      BY <1>1, <2>3 DEF OwnsLease, OwnsLeaseNext
    <3>2. SameTerms(b)
      BY <2>2, <3>1, TokensChange
    <3> QED BY <3>1, <3>2 DEF SameTerms, OwnsLease, OwnsLeaseNext
  <2>4. ASSUME NEW b \in Branch, OwnsLeaseNext(b, merge'[m].token)
        PROVE  /\ b = merge'[m].into
               /\ LeaseMatches(b, merge[m].source, merge[m].target, BaseOf(m))'
    BY <1>1, <2>1, <2>3, <2>4 DEF SameTerms, LeaseMatches, BaseOf
  <2> QED BY <1>1, <2>2, <2>4
<1>2. CASE MergeWritePack(m)
  <2> DEFINE into == merge[m].into
  <2>1. /\ into \in Branch /\ lease[into] # NoLease
        /\ LeaseMatches(into, merge[m].source, merge[m].target, BaseOf(m))
        /\ UNCHANGED <<lease, issued>>
    BY <1>2 DEF MergeWritePack, StoreInv, MergeKnows
  <2>2. PICK r \in Commit : merge' = [merge EXCEPT ![m] = [@ EXCEPT
          !.pc = "apply", !.result = r, !.token = lease[into].token]]
    BY <1>2 DEF MergeWritePack
  <2> DEFINE rec == [merge[m] EXCEPT !.pc = "apply", !.result = r,
                       !.token = lease[into].token]
  <2>3. merge'[m] = rec /\ merge[m] \in MergeRecord
    BY <2>2 DEF StoreInv, TypeOK, MergeTypeOK
  <2>4. /\ rec.token = lease[into].token /\ rec.into = into
        /\ rec.source = merge[m].source /\ rec.target = merge[m].target
    BY <2>3 DEF MergeRecord
  <2>5. BaseOf(m)' = BaseOf(m)
    BY <2>3, <2>4 DEF BaseOf
  <2>6. /\ lease[into].token \in 1..issued
        /\ \A d \in Branch : OwnsLease(d, lease[into].token) => d = into
    BY <2>1 DEF LeaseTerms
  <2> HIDE DEF rec, into
  <2>7. ASSUME NEW b \in Branch, OwnsLeaseNext(b, merge'[m].token)
        PROVE  b = into
    BY <2>1, <2>3, <2>4, <2>6, <2>7 DEF OwnsLease, OwnsLeaseNext
  <2>8. /\ lease'[into].source = merge'[m].source
        /\ lease'[into].target = merge'[m].target
        /\ lease'[into].base = BaseOf(m)'
    BY <2>1, <2>3, <2>4, <2>5 DEF LeaseMatches
  <2>9. ASSUME NEW b \in Branch, OwnsLeaseNext(b, merge'[m].token)
        PROVE  /\ b = merge'[m].into
               /\ LeaseMatches(b, merge[m].source, merge[m].target, BaseOf(m))'
    BY <2>3, <2>4, <2>7, <2>8, <2>9 DEF LeaseMatches
  <2> QED BY <2>1, <2>3, <2>4, <2>6, <2>9
<1> QED BY <1>1, <1>2, ApplyingCalls

(***************************************************************************)
(* A lease row says the truth about its heads from grant to end, whatever  *)
(* is pushed, merged, deleted or released meanwhile.                       *)
(***************************************************************************)
THEOREM LeaseTermsStand == Spec => []LeaseTerms
<1>1. Init => LeaseTerms
  BY DEF Init, StoreInit, LeaseTerms
<1>2. StoreInv /\ LeaseTerms /\ [Next]_vars => LeaseTerms'
  BY LeaseTermsStep
<1> QED BY <1>1, <1>2, StoreInvariant, PTL DEF Spec

(***************************************************************************)
(* Between ValidateMergeLease and ApplyMerge a token goes on to stand for  *)
(* the lease that was validated, or for none.                              *)
(***************************************************************************)
THEOREM ValidatedTokenStands == Spec => []TokenKeepsItsTerms
<1>1. Init => TokenKeepsItsTerms
  BY DEF Init, MergeInit, IdleMerge, TokenKeepsItsTerms
<1>2. StoreInv /\ LeaseTerms /\ TokenKeepsItsTerms /\ [Next]_vars => TokenKeepsItsTerms'
  BY TokenKeepsItsTermsStep
<1> QED BY <1>1, <1>2, StoreInvariant, LeaseTermsStand, PTL DEF Spec

(***************************************************************************)
(* A merge commit on a leased branch joins two heads that no fast-forward  *)
(* joins, and has both in its history: however old the preview is that the *)
(* Apply relies on, it is still true of the heads it merges.               *)
(***************************************************************************)
MergesJoinWhatDiverged ==
  [][\A b \in Branch :
       LeaseHeld(b) /\ head'[b] # head[b] =>
         /\ head[b] \notin Ancestry[lease[b].source]
         /\ {head[b], lease[b].source} \subseteq Ancestry[head'[b]]]_vars

(***************************************************************************)
(* No step makes a merge commit where a fast-forward would do, and none    *)
(* loses one of the two heads.                                             *)
(***************************************************************************)
THEOREM LeasedMergesJoin == Spec => MergesJoinWhatDiverged
<1> DEFINE A == \A b \in Branch :
                  LeaseHeld(b) /\ head'[b] # head[b] =>
                    /\ head[b] \notin Ancestry[lease[b].source]
                    /\ {head[b], lease[b].source} \subseteq Ancestry[head'[b]]
<1>1. StoreInv /\ LeasePinsHead /\ LeaseTerms /\ [Next]_vars => [A]_vars
  <2> SUFFICES ASSUME StoreInv, LeasePinsHead, LeaseTerms, [Next]_vars,
                      NEW b \in Branch, LeaseHeld(b), head'[b] # head[b]
               PROVE  /\ head[b] \notin Ancestry[lease[b].source]
                      /\ {head[b], lease[b].source} \subseteq Ancestry[head'[b]]
    OBVIOUS
  <2> DEFINE source == lease[b].source
             target == lease[b].target
  <2>1. Created(b) \/ Swapped(b) \/ Merged(b)
    BY HeadSteps DEF Moves
  <2>2. /\ lease[b] # NoLease /\ head[b] = target
        /\ target \in commits /\ source \in commits /\ commits \subseteq Commit
        /\ target \notin Ancestry[source]
    BY DEF LeaseHeld, LeasePinsHead, LeaseTerms, StoreInv, TypeOK, StoreTypeOK
  <2>3. BranchExists(b)
    BY <2>2, CommitDagAssumption DEF BranchExists
  <2>4. head'[b] \in Commit /\ Parents[head'[b]] = <<target, source>>
    BY <2>1, <2>3 DEF Created, Swapped, Merged
  <2> HIDE DEF source, target
  <2>5. target \in ParentSet(head'[b]) /\ source \in ParentSet(head'[b])
    <3>1. 1 \in DOMAIN <<target, source>> /\ 2 \in DOMAIN <<target, source>>
      OBVIOUS
    <3>2. <<target, source>>[1] = target /\ <<target, source>>[2] = source
      OBVIOUS
    <3> QED BY <2>4, <3>1, <3>2 DEF ParentSet
  <2>6. target \in Ancestry[head'[b]] /\ source \in Ancestry[head'[b]]
    BY <2>4, <2>5, ParentIsAncestor
  <2> QED BY <2>2, <2>6 DEF source
<1> QED BY <1>1, StoreInvariant, LeasePinsHeadAlways, LeaseTermsStand, PTL
        DEF Spec, MergesJoinWhatDiverged

-----------------------------------------------------------------------------
(***************************************************************************)
(* The default branch.                                                     *)
(***************************************************************************)

(***************************************************************************)
(* Once a default branch is recorded and no DeleteBranch call on it is     *)
(* between its two statements, no later call soft-deletes it.              *)
(***************************************************************************)
THEOREM DefaultBranchIsKept == Spec => DefaultBranchStaysLive
<1> DEFINE D == DefaultBranchSafe
<1>1. D /\ [Next]_vars => D'
  <2> SUFFICES ASSUME D, [Next]_vars PROVE D'
    OBVIOUS
  <2> USE DEF DefaultBranchSafe
  <2>1. CASE BranchAdminNext
    BY <2>1 DEF BranchAdminNext, AdminCreateBranch, CreateBranch, DeleteReadDefault,
       DeleteMark, DeleteFail
  <2>2. CASE PushNext /\ UNCHANGED <<merge, deleting>>
    BY <2>2 DEF PushNext, PushStep, PushWritePack, PushVerify, PushPutCommit,
       PushPutPackRange, PushRefMissing, PushRefAtBase, PushRefAtTarget,
       PushRefElsewhere, PushIsAncestor, PushCreateBranch, CreateBranch,
       PushCompareAndSwap, PushFail
  <2>3. CASE \/ MergeNext /\ UNCHANGED <<push, deleting>>
             \/ LeaseNext /\ UNCHANGED <<push, merge, deleting>>
    BY <2>3 DEF MergeNext, MergeStep, MergeReadSource, MergeReadTarget, MergeAcquire,
       MergeFastForward, MergeWritePack, MergeApply, MergeFail, LeaseNext,
       ReleaseLease, LeaseExpires
  <2>4. CASE UNCHANGED vars
    BY <2>4 DEF vars
  <2> QED BY <2>1, <2>2, <2>3, <2>4 DEF Next
<1>2. [Next]_vars => [D => D']_vars
  BY <1>1
<1> QED BY <1>2, PTL DEF Spec, DefaultBranchStaysLive

-----------------------------------------------------------------------------
(***************************************************************************)
(* A push call that is not the one stepping keeps its locals.              *)
(***************************************************************************)
LEMMA PushKeepsOthers ==
  ASSUME StoreInv, NEW r \in PushReq, PushWritePack(r) \/ PushStep(r) \/ PushFail(r),
         NEW q \in PushReq \ {r}
  PROVE  push'[q] = push[q]
<1>1. push \in [PushReq -> PushRecord]
  BY DEF StoreInv, TypeOK, PushTypeOK
<1>2. \E rec : push' = [push EXCEPT ![r] = rec]
  BY DEF PushStep, PushWritePack, PushVerify, PushPutCommit,
     PushPutPackRange, PushRefMissing, PushRefAtBase, PushRefAtTarget,
     PushRefElsewhere, PushIsAncestor, PushCreateBranch, PushCompareAndSwap,
     PushFail, PushDone, Goto
<1> QED BY <1>1, <1>2

(***************************************************************************)
(* Where each step of a call leads.                                        *)
(***************************************************************************)
LEMMA PushGoesTo ==
  ASSUME StoreInv, NEW r \in PushReq
  PROVE  /\ PushWritePack(r) => push'[r].pc = "verify" /\ push'[r].next = 1
         /\ PushVerify(r) => push'[r].pc = "commits"
         /\ PushPutCommit(r) => push'[r].pc \in {"commits", "range"}
         /\ PushPutPackRange(r) => push'[r].pc = "ref"
         /\ PushRefMissing(r) => push'[r].pc = "create"
         /\ PushRefAtBase(r) => push'[r].pc = "swap"
         /\ PushRefElsewhere(r) => push'[r].pc = "ancestry"
         /\ PushIsAncestor(r) => push'[r].pc = "swap"
         /\ (PushRefAtTarget(r) \/ PushCreateBranch(r) \/ PushCompareAndSwap(r)
             \/ PushFail(r)) => push'[r].pc = "idle"
<1>1. push \in [PushReq -> PushRecord] /\ push[r] \in PushRecord
  BY DEF StoreInv, TypeOK, PushTypeOK
<1>2. PushWritePack(r) => push'[r].pc = "verify" /\ push'[r].next = 1
  BY <1>1 DEF PushWritePack, IdlePush
<1>3. PushVerify(r) => push'[r].pc = "commits"
  BY <1>1 DEF PushVerify, Goto, PushRecord
<1>4. PushPutCommit(r) => push'[r].pc \in {"commits", "range"}
  BY <1>1 DEF PushPutCommit, AfterCommit, PushRecord
<1>5. /\ PushPutPackRange(r) => push'[r].pc = "ref"
      /\ PushRefMissing(r) => push'[r].pc = "create"
      /\ PushIsAncestor(r) => push'[r].pc = "swap"
  BY <1>1 DEF PushPutPackRange, PushRefMissing, PushIsAncestor, Goto, PushRecord
<1>6. /\ PushRefAtBase(r) => push'[r].pc = "swap"
      /\ PushRefElsewhere(r) => push'[r].pc = "ancestry"
  <2>1. ASSUME NEW pc, NEW h, push' = [push EXCEPT ![r] = [@ EXCEPT !.pc = pc, !.expected = h]]
        PROVE  push'[r].pc = pc
    BY <1>1, <2>1 DEF PushRecord
  <2> QED BY <2>1 DEF PushRefAtBase, PushRefElsewhere
<1>7. PushDone(r) => push'[r].pc = "idle"
  BY <1>1 DEF PushDone, IdlePush
<1> QED BY <1>2, <1>3, <1>4, <1>5, <1>6, <1>7 DEF PushRefAtTarget, PushCreateBranch,
        PushCompareAndSwap, PushFail

(***************************************************************************)
(* The parent walk ran before the first commit was registered.             *)
(***************************************************************************)
StartsAtFirst == \A r \in PushReq : push[r].pc = "verify" => push[r].next = 1

\* Every step preserves StartsAtFirst: a call begins at its first commit.
LEMMA StartsAtFirstStep == StoreInv /\ StartsAtFirst /\ [Next]_vars => StartsAtFirst'
<1> SUFFICES ASSUME StoreInv, StartsAtFirst, [Next]_vars, NEW q \in PushReq,
                    push'[q].pc = "verify"
             PROVE  push'[q].next = 1
  BY DEF StartsAtFirst
<1>0. push \in [PushReq -> PushRecord]
  BY DEF StoreInv, TypeOK, PushTypeOK
<1>1. CASE push' = push
  BY <1>1 DEF StartsAtFirst
<1>2. ASSUME NEW r \in PushReq, PushWritePack(r) \/ PushStep(r) \/ PushFail(r)
      PROVE  push'[q].next = 1
  <2>1. CASE q # r
    BY <1>2, <2>1, PushKeepsOthers DEF StartsAtFirst
  <2>2. CASE q = r /\ PushWritePack(r)
    BY <2>2, PushGoesTo
  <2>3. CASE q = r /\ (PushStep(r) \/ PushFail(r))
    <3>1. push'[r].pc # "verify"
      BY <2>3, PushGoesTo DEF PushStep
    <3> QED BY <2>3, <3>1
  <2> QED BY <1>2, <2>1, <2>2, <2>3
<1> QED BY <1>1, <1>2 DEF Next, PushNext, MergeNext, LeaseNext, BranchAdminNext, vars

(***************************************************************************)
(* What one verified v3 push still has to register.                        *)
(***************************************************************************)
Rest(r) ==
  LET cs == push[r].pack.commits
      k  == push[r].next
  IN  push[r].pc = "commits" /\ push[r].pack.format = PackFormatV3 =>
        \A i \in k..Len(cs) :
          ParentSet(cs[i]) \subseteq commits \cup {cs[j] : j \in k..(i - 1)}

\* The walk establishes it.
LEMMA VerifyOrders ==
  ASSUME StoreInv, StartsAtFirst, NEW r \in PushReq, PushVerify(r)
  PROVE  Rest(r)'
<1> DEFINE p == push[r].pack
<1>1. /\ p \in Pack /\ push[r].next = 1
      /\ p.base \in commits \cup {NoCommit}
      /\ p.format = PackFormatV3 => ParentsKnown(p, commits)
  BY DEF PushVerify, StoreInv, TypeOK, StoreTypeOK, PushKnows, StartsAtFirst
<1>2. p.commits \in Seq(Commit)
  BY <1>1, RackStoreAssumption DEF PackRecord
<1>3. push'[r].pack = p /\ push'[r].next = 1 /\ commits' = commits
  BY <1>1 DEF PushVerify, Goto, StoreInv, TypeOK, PushTypeOK, PushRecord
<1> HIDE DEF p
<1>4. ASSUME p.format = PackFormatV3, NEW i \in 1..Len(p.commits)
      PROVE  ParentSet(p.commits[i]) \subseteq commits \cup {p.commits[j] : j \in 1..(i - 1)}
  <2>1. p.commits[i] \in Commit
    BY <1>2
  <2>2. NoCommit \notin ParentSet(p.commits[i])
    BY <2>1, CommitDagAssumption DEF ParentSet
  <2>3. i \in DOMAIN p.commits
    BY <1>2
  <2> QED BY <1>1, <1>4, <2>2, <2>3 DEF ParentsKnown
<1> QED BY <1>3, <1>4 DEF Rest

\* Registering the next commit keeps it for the rest.
LEMMA RegisterOrders ==
  ASSUME StoreInv, NEW r \in PushReq, Rest(r), PushPutCommit(r)
  PROVE  Rest(r)'
<1> DEFINE p == push[r].pack
           k == push[r].next
<1>1. /\ push[r].pc = "commits" /\ k \in Nat /\ k >= 1
      /\ commits' = commits \cup {p.commits[k]}
      /\ p \in Pack
  BY DEF PushPutCommit, PutCommit, StoreInv, PushKnows, TypeOK, StoreTypeOK
<1>2. push'[r].pack = p /\ push'[r].next = k + 1
  BY DEF PushPutCommit, AfterCommit, StoreInv, TypeOK, PushTypeOK, PushRecord
<1>3. p.commits \in Seq(Commit) /\ Len(p.commits) \in Nat
  BY <1>1, RackStoreAssumption DEF PackRecord
<1>4. p.format = PackFormatV3 =>
        \A i \in k..Len(p.commits) :
          ParentSet(p.commits[i]) \subseteq commits \cup {p.commits[j] : j \in k..(i - 1)}
  BY <1>1 DEF Rest
<1> HIDE DEF p, k
<1>5. ASSUME p.format = PackFormatV3, NEW i \in (k + 1)..Len(p.commits)
      PROVE  ParentSet(p.commits[i])
               \subseteq commits' \cup {p.commits[j] : j \in (k + 1)..(i - 1)}
  <2>1. i \in k..Len(p.commits) /\ i \in Nat
    BY <1>1, <1>3
  <2>2. ParentSet(p.commits[i]) \subseteq commits \cup {p.commits[j] : j \in k..(i - 1)}
    BY <1>4, <1>5, <2>1
  <2>3. \A j \in k..(i - 1) : j = k \/ j \in (k + 1)..(i - 1)
    BY <1>1, <2>1
  <2> QED BY <1>1, <2>2, <2>3
<1> QED BY <1>2, <1>5 DEF Rest

\* Every step preserves RestIsOrdered: rows of commits are only added.
LEMMA RestIsOrderedStep ==
  StoreInv /\ StartsAtFirst /\ RestIsOrdered /\ [Next]_vars => RestIsOrdered'
<1> SUFFICES ASSUME StoreInv, StartsAtFirst, RestIsOrdered, [Next]_vars, NEW q \in PushReq
             PROVE  Rest(q)'
  BY DEF RestIsOrdered, Rest
<1>0. push \in [PushReq -> PushRecord] /\ Rest(q)
  BY DEF StoreInv, TypeOK, PushTypeOK, RestIsOrdered, Rest
<1>1. CASE push'[q] = push[q]
  BY <1>0, <1>1, CommitsGrow DEF Rest
<1>2. ASSUME NEW r \in PushReq, PushWritePack(r) \/ PushStep(r) \/ PushFail(r)
      PROVE  Rest(q)'
  <2>1. CASE q # r
    BY <1>1, <1>2, <2>1, PushKeepsOthers
  <2>2. CASE q = r /\ PushVerify(r)
    BY <2>2, VerifyOrders
  <2>3. CASE q = r /\ PushPutCommit(r)
    BY <1>0, <2>3, RegisterOrders
  <2>4. CASE q = r /\ ~PushVerify(r) /\ ~PushPutCommit(r)
    <3>1. push'[r].pc # "commits"
      BY <1>2, <2>4, PushGoesTo DEF PushStep
    <3> QED BY <2>4, <3>1 DEF Rest
  <2> QED BY <2>1, <2>2, <2>3, <2>4
<1> QED BY <1>1, <1>2 DEF Next, PushNext, MergeNext, LeaseNext, BranchAdminNext, vars

(***************************************************************************)
(* HandlePush's parent walk decides before the commits are registered one  *)
(* transaction at a time: what it accepted never fails on a missing parent *)
(* while it registers, however other calls interleave.                     *)
(***************************************************************************)
THEOREM VerifiedCommitsAlwaysRegister == Spec => []VerifiedCommitsRegister
<1>1. Init => StartsAtFirst /\ RestIsOrdered
  BY DEF Init, PushInit, IdlePush, StartsAtFirst, RestIsOrdered
<1>2. StoreInv /\ RestIsOrdered => VerifiedCommitsRegister
  <2> SUFFICES ASSUME StoreInv, RestIsOrdered, NEW r \in PushReq,
                      push[r].pc = "commits", push[r].pack.format = PackFormatV3
               PROVE  ParentSet(push[r].pack.commits[push[r].next]) \subseteq commits
    BY DEF VerifiedCommitsRegister
  <2>1. /\ push[r].next \in Nat /\ push[r].next <= Len(push[r].pack.commits)
        /\ push[r].pack \in Pack
    BY DEF StoreInv, PushKnows, TypeOK, StoreTypeOK
  <2>2. Len(push[r].pack.commits) \in Nat
    BY <2>1, RackStoreAssumption DEF PackRecord
  <2>3. push[r].next \in push[r].next..Len(push[r].pack.commits)
        /\ push[r].next..(push[r].next - 1) = {}
    BY <2>1, <2>2
  <2> QED BY <2>3 DEF RestIsOrdered
<1> QED BY <1>1, <1>2, StartsAtFirstStep, RestIsOrderedStep, StoreInvariant, PTL DEF Spec

-----------------------------------------------------------------------------
(***************************************************************************)
(* Fast-forward.                                                           *)
(***************************************************************************)

\* A first parent is a parent.
LEMMA FirstParentIsParent ==
  ASSUME NEW c \in Commit, FirstParent(c) \in Commit
  PROVE  FirstParent(c) \in ParentSet(c)
<1>1. Parents[c] # <<>> /\ Parents[c] \in Seq(Commit)
  BY CommitDagAssumption DEF FirstParent
<1>2. 1 \in DOMAIN Parents[c]
  BY <1>1
<1> QED BY <1>1, <1>2 DEF FirstParent, ParentSet

(***************************************************************************)
(* PackFrameV2.validate: the commits of a v2 pack are ancestors of its     *)
(* target, and so is its base.                                             *)
(***************************************************************************)
LEMMA V2CommitsAreAncestors ==
  ASSUME NEW p \in PackRecord, ValidV2(p)
  PROVE  PackCommits(p) \subseteq Ancestry[p.target]
<1> DEFINE A == Ancestry[p.target]
           cs == p.commits
           n == Len(cs)
           T == {d \in 0..(n - 1) : cs[n - d] \notin A}
<1>1. /\ cs \in Seq(Commit) /\ n \in Nat /\ n >= 1
      /\ p.target \in Commit /\ cs[n] = p.target
  BY DEF PackRecord, ValidV2, EndsAtTarget
<1>2. p.target \in A /\ ClosedUnderParents(A)
  BY <1>1, AncestryTyped, AncestryClosed
<1>3. ASSUME NEW c \in Commit, FirstParent(c) \in Commit, c \in A
      PROVE  FirstParent(c) \in A
  BY <1>2, <1>3, FirstParentIsParent DEF ClosedUnderParents
<1>4. \A i \in 1..n : cs[i] \in Commit /\ FirstParent(cs[i]) = Previous(p, i)
  BY <1>1 DEF ValidV2
<1>5. T = {}
  <2> SUFFICES ASSUME T # {} PROVE FALSE
    OBVIOUS
  <2>1. T \in SUBSET Nat
    BY <1>1
  <2>2. PICK d \in T : \A e \in T : d <= e
    <3> HIDE DEF T
    <3> QED BY <2>1, LeastNatural
  <2>3. d \in 0..(n - 1) /\ cs[n - d] \notin A /\ d # 0
    BY <1>1, <1>2, <2>2
  <2> DEFINE i == n - (d - 1)
  <2>4. /\ d - 1 \in 0..(n - 1) /\ i \in 1..n /\ i # 1 /\ i - 1 = n - d /\ i - 1 \in 1..n
    BY <1>1, <2>3
  <2>5. d - 1 \notin T
    <3> HIDE DEF T
    <3>1. d \in Int /\ ~(d <= d - 1)
      BY <1>1, <2>3
    <3> QED BY <2>2, <3>1
  <2>6. cs[i] \in A
    BY <2>4, <2>5
  <2>7. FirstParent(cs[i]) = cs[n - d]
    BY <1>4, <2>4 DEF Previous
  <2> HIDE DEF i
  <2> QED BY <1>3, <1>4, <2>3, <2>4, <2>6, <2>7
<1>6. ASSUME NEW i \in 1..n
      PROVE  cs[i] \in A
  <2>1. n - i \in 0..(n - 1) /\ n - (n - i) = i
    BY <1>1
  <2> QED BY <1>5, <2>1
<1> QED BY <1>1, <1>6 DEF PackCommits

LEMMA V2BaseIsAncestor ==
  ASSUME NEW p \in PackRecord, ValidV2(p), p.base \in Commit
  PROVE  p.base \in Ancestry[p.target]
<1> DEFINE first == p.commits[1]
<1>1. /\ p.commits \in Seq(Commit) /\ 1 \in DOMAIN p.commits /\ first \in Commit
      /\ p.target \in Commit /\ FirstParent(first) = p.base
  BY DEF PackRecord, ValidV2, EndsAtTarget, Previous
<1>2. first \in Ancestry[p.target]
  BY <1>1, V2CommitsAreAncestors DEF PackCommits
<1>3. p.base \in ParentSet(first)
  BY <1>1, FirstParentIsParent
<1> QED BY <1>1, <1>2, <1>3, AncestryClosed DEF ClosedUnderParents

\* What a push about to move the ref has established, whichever way it went.
LEMMA PushAdvancesStep ==
  StoreInv /\ PushAdvances /\ [Next]_vars => PushAdvances'
<1> DEFINE Knows(rec) == \/ rec.expected \in Ancestry[rec.pack.target]
                         \/ /\ rec.pack.format = PackFormatV3
                            /\ rec.expected = rec.pack.base
<1> SUFFICES ASSUME StoreInv, PushAdvances, [Next]_vars, NEW q \in PushReq,
                    push'[q].pc = "swap"
             PROVE  Knows(push'[q])
  BY DEF PushAdvances
<1>0. push \in [PushReq -> PushRecord]
  BY DEF StoreInv, TypeOK, PushTypeOK
<1>1. CASE push'[q] = push[q]
  BY <1>1 DEF PushAdvances
<1>2. ASSUME NEW r \in PushReq, PushWritePack(r) \/ PushStep(r) \/ PushFail(r)
      PROVE  Knows(push'[q])
  <2>1. CASE q # r
    BY <1>1, <1>2, <2>1, PushKeepsOthers
  <2>2. CASE q = r /\ PushRefAtBase(r)
    <3> DEFINE p == push[r].pack
    <3>1. /\ p \in Pack /\ ValidFrame(p) /\ push[r].branch \in Branch
          /\ p.base = head[push[r].branch] /\ BranchExists(push[r].branch)
      BY <2>2 DEF PushRefAtBase, StoreInv, PushKnows, TypeOK, StoreTypeOK
    <3>2. p.base \in Commit
      BY <3>1 DEF StoreInv, TypeOK, StoreTypeOK, BranchExists
    <3>3. p \in PackRecord
      BY <3>1, RackStoreAssumption
    <3>4. push'[r].pack = p /\ push'[r].expected = p.base
      BY <1>0, <2>2, <3>1 DEF PushRefAtBase, PushRecord
    <3>5. CASE p.format = PackFormatV3
      BY <2>2, <3>4, <3>5
    <3>6. CASE p.format # PackFormatV3
      <4>1. ValidV2(p)
        BY <3>1, <3>6 DEF ValidFrame
      <4> QED BY <2>2, <3>2, <3>3, <3>4, <4>1, V2BaseIsAncestor
    <3> QED BY <3>5, <3>6
  <2>3. CASE q = r /\ PushIsAncestor(r)
    <3> DEFINE p == push[r].pack
    <3>1. IsAncestor(commits, push[r].expected, p.target) /\ commits \in SUBSET Commit
      BY <2>3 DEF PushIsAncestor, StoreInv, TypeOK, StoreTypeOK
    <3>2. push'[r].pack = p /\ push'[r].expected = push[r].expected
      BY <1>0, <2>3 DEF PushIsAncestor, Goto, PushRecord
    <3> QED BY <2>3, <3>1, <3>2, StoredAncestorsAreAncestors DEF IsAncestor
  <2>4. CASE q = r /\ ~PushRefAtBase(r) /\ ~PushIsAncestor(r)
    <3>1. push'[r].pc # "swap"
      BY <1>2, <2>4, PushGoesTo DEF PushStep
    <3> QED BY <2>4, <3>1
  <2> QED BY <2>1, <2>2, <2>3, <2>4
<1> QED BY <1>1, <1>2 DEF Next, PushNext, MergeNext, LeaseNext, BranchAdminNext, vars

\* A compare-and-swap, by a push or by a fast-forward merge, moves a ref to a
\* descendant of its head, unless the push took it from a v3 pack.
LEMMA SwappedAdvances ==
  ASSUME StoreInv, PushAdvances, NEW b \in Branch, Swapped(b)
  PROVE  /\ head'[b] \in Commit
         /\ head[b] \in Ancestry[head'[b]] \/ TakesBaseOnTrust(b)
<1>1. ASSUME NEW r \in PushReq, push[r].pc = "swap", push[r].branch = b,
             push[r].expected = head[b], head'[b] = push[r].pack.target
      PROVE  /\ head'[b] \in Commit
             /\ head[b] \in Ancestry[head'[b]] \/ TakesBaseOnTrust(b)
  <2>1. push[r].pack \in Pack
    BY <1>1 DEF StoreInv, PushKnows, TypeOK, StoreTypeOK
  <2>2. head'[b] \in Commit
    BY <1>1, <2>1, RackStoreAssumption DEF PackRecord
  <2>3. CASE push[r].expected \in Ancestry[push[r].pack.target]
    BY <1>1, <2>2, <2>3
  <2>4. CASE /\ push[r].pack.format = PackFormatV3
             /\ push[r].expected = push[r].pack.base
    BY <1>1, <2>2, <2>4 DEF TakesBaseOnTrust
  <2> QED BY <1>1, <2>3, <2>4 DEF PushAdvances
<1>2. ASSUME NEW m \in MergeReq, merge[m].pc = "previewed", CanFastForward(m),
             merge[m].target = head[b], head'[b] = merge[m].source
      PROVE  head'[b] \in Commit /\ head[b] \in Ancestry[head'[b]]
  <2>1. commits \in SUBSET Commit /\ merge[m].source \in commits
    BY <1>2 DEF StoreInv, MergeKnows, TypeOK, StoreTypeOK
  <2> QED BY <1>2, <2>1, StoredAncestorsAreAncestors DEF CanFastForward, IsAncestor
<1> QED BY <1>1, <1>2 DEF Swapped

\* With v2 packs only there is no such push.
LEMMA V2TakesNothingOnTrust ==
  ASSUME V2Only, StoreInv, NEW b \in Branch
  PROVE  ~TakesBaseOnTrust(b)
<1> SUFFICES ASSUME NEW r \in PushReq, push[r].pc = "swap",
                    push[r].pack.format = PackFormatV3
             PROVE  FALSE
  BY DEF TakesBaseOnTrust
<1>1. push[r].pack \in Pack
  BY DEF StoreInv, PushKnows, TypeOK, StoreTypeOK
<1> QED BY <1>1 DEF V2Only, PackFormatV2, PackFormatV3

\* So does an applied merge: the head was its first parent.
LEMMA MergedAdvances ==
  ASSUME NEW b \in Branch, Merged(b), StoreInv
  PROVE  /\ head'[b] \in Commit /\ head[b] \in Ancestry[head'[b]]
         /\ BranchExists(b)
<1>1. /\ head'[b] \in Commit /\ head[b] = lease[b].target
      /\ Parents[head'[b]] = <<lease[b].target, lease[b].source>>
  BY DEF Merged
<1>2. head[b] \in ParentSet(head'[b])
  BY <1>1 DEF ParentSet
<1>3. head[b] \in Commit
  BY <1>1, <1>2, AncestryTyped, ParentIsAncestor
<1> QED BY <1>1, <1>2, <1>3, ParentIsAncestor, CommitDagAssumption DEF BranchExists

\* A step moves one ref, and to a descendant unless a v3 pack was trusted.
LEMMA HeadsAdvance ==
  ASSUME StoreInv, PushAdvances, [Next]_vars, NEW b \in Branch, BranchExists(b)
  PROVE  /\ head'[b] \in Commit
         /\ head[b] \in Ancestry[head'[b]] \/ TakesBaseOnTrust(b)
<1>1. head[b] \in Commit
  BY DEF BranchExists, StoreInv, TypeOK, StoreTypeOK
<1>2. CASE head' = head
  BY <1>1, <1>2, AncestryTyped
<1>3. ASSUME NEW d \in Branch, Moves(d)
      PROVE  /\ head'[b] \in Commit
             /\ head[b] \in Ancestry[head'[b]] \/ TakesBaseOnTrust(b)
  <2>1. CASE b # d
    BY <1>1, <1>3, <2>1, AncestryTyped DEF Moves
  <2>2. CASE b = d /\ Created(d)
    BY <2>2 DEF Created
  <2>3. CASE b = d /\ Swapped(d)
    BY <2>3, SwappedAdvances
  <2>4. CASE b = d /\ Merged(d)
    BY <2>4, MergedAdvances
  <2> QED BY <1>3, <2>1, <2>2, <2>3, <2>4 DEF Moves
<1> QED BY <1>2, <1>3, HeadSteps

\* What every push knows from its swap on.
LEMMA PushAdvancesAlways == Spec => []PushAdvances
<1>1. Init => PushAdvances
  BY DEF Init, PushInit, IdlePush, PushAdvances
<1>2. StoreInv /\ PushAdvances /\ [Next]_vars => PushAdvances'
  BY PushAdvancesStep
<1> QED BY <1>1, <1>2, StoreInvariant, PTL DEF Spec

(***************************************************************************)
(* Whatever is pushed and merged, a ref moves to a descendant of its head  *)
(* or by a v3 pack that names the head as its base: the compare-and-swap   *)
(* of a push, the merge and the merge engine's fast-forward included.      *)
(***************************************************************************)
THEOREM OnlyV3MovesSideways == Spec => SidewaysOnlyByV3
<1> DEFINE A == \A b \in Branch :
                  BranchExists(b) =>
                    /\ head'[b] \in Commit
                    /\ head[b] \in Ancestry[head'[b]] \/ TakesBaseOnTrust(b)
<1>1. StoreInv /\ PushAdvances /\ [Next]_vars => [A]_vars
  BY HeadsAdvance
<1> QED BY <1>1, PushAdvancesAlways, StoreInvariant, PTL DEF Spec, SidewaysOnlyByV3

(***************************************************************************)
(* When every pack is a v2 pack, branch refs only move to descendants of   *)
(* their heads.                                                            *)
(***************************************************************************)
THEOREM V2PushesFastForward ==
  ASSUME V2Only
  PROVE  Spec => FastForwardOnly
<1> DEFINE A == \A b \in Branch :
                  BranchExists(b) =>
                    head'[b] \in Commit /\ head[b] \in Ancestry[head'[b]]
<1>1. StoreInv /\ PushAdvances /\ [Next]_vars => [A]_head
  BY HeadsAdvance, V2TakesNothingOnTrust
<1> QED BY <1>1, PushAdvancesAlways, StoreInvariant, PTL DEF Spec, FastForwardOnly

(***************************************************************************)
(* What a branch once showed stays in its history: with v2 packs only, a   *)
(* commit a client has seen below the head of a branch is below every      *)
(* later head of it, whoever pushes, merges or deletes.                    *)
(***************************************************************************)
THEOREM V2HistoryStays ==
  ASSUME V2Only, NEW branch \in Branch, NEW commit \in Commit
  PROVE  Spec => [](BranchExists(branch) /\ commit \in Ancestry[head[branch]]
                      => [](BranchExists(branch) /\ commit \in Ancestry[head[branch]]))
<1> DEFINE P == BranchExists(branch) /\ commit \in Ancestry[head[branch]]
           A == \A b \in Branch :
                  BranchExists(b) =>
                    head'[b] \in Commit /\ head[b] \in Ancestry[head'[b]]
<1>1. P /\ [A]_head => P'
  <2> SUFFICES ASSUME P, [A]_head PROVE P'
    OBVIOUS
  <2>1. CASE A
    <3>1. head'[branch] \in Commit /\ head[branch] \in Ancestry[head'[branch]]
      BY <2>1
    <3>2. Ancestry[head[branch]] \subseteq Ancestry[head'[branch]] /\ head'[branch] # NoCommit
      BY <3>1, AncestryTransitive, CommitDagAssumption
    <3> QED BY <3>2 DEF BranchExists
  <2>2. CASE UNCHANGED head
    BY <2>2 DEF BranchExists
  <2> QED BY <2>1, <2>2
<1>2. Spec => FastForwardOnly
  BY V2PushesFastForward
<1> HIDE DEF P
<1>3. Spec => [](P => []P)
  BY <1>1, <1>2, PTL DEF FastForwardOnly
<1> QED BY <1>3 DEF P

-----------------------------------------------------------------------------
(***************************************************************************)
(* RackServer implements BranchRefs when every pack is a v2 pack.          *)
(***************************************************************************)

\* The commit graph of BranchRefs is the server's.
LEMMA SameAncestry == Refs!Ancestry = Ancestry
BY DEF Refs!Ancestry, Refs!Ancestors, Refs!ClosedUnderParents, Refs!ParentSet,
       Ancestry, Ancestors, ClosedUnderParents, ParentSet

\* An empty repository has no refs and no pins.
LEMMA InitRefs == Init => Refs!Init
BY DEF Init, StoreInit, Refs!Init, Pins, LeaseHeld

\* How the pin of a branch follows from its lease row.
LEMMA PinOf ==
  ASSUME NEW b \in Branch
  PROVE  /\ LeaseHeld(b) => Pins[b] = <<lease[b].target, lease[b].source>>
         /\ ~LeaseHeld(b) => Pins[b] = NoLease
BY DEF Pins

\* A pin changes only with the lease row of its branch.
LEMMA PinsChangeAt ==
  ASSUME NEW b \in Branch, NEW row \in LeaseRecord \cup {NoLease},
         lease \in [Branch -> LeaseRecord \cup {NoLease}],
         lease' = [lease EXCEPT ![b] = row]
  PROVE  Pins' = [Pins EXCEPT ![b] = IF row # NoLease /\ ~row.expired
                                     THEN <<row.target, row.source>> ELSE NoLease]
<1>1. \A d \in Branch \ {b} : lease'[d] = lease[d]
  OBVIOUS
<1>2. lease'[b] = row
  OBVIOUS
<1>3. Pins' = [d \in Branch |->
        IF LeaseHeld(d)' THEN <<lease'[d].target, lease'[d].source>> ELSE NoLease]
  BY DEF Pins
<1>4. \A d \in Branch \ {b} : Pins'[d] = Pins[d]
  BY <1>1, <1>3 DEF Pins, LeaseHeld
<1>5. Pins'[b] = IF row # NoLease /\ ~row.expired
                 THEN <<row.target, row.source>> ELSE NoLease
  BY <1>2, <1>3 DEF LeaseHeld
<1>6. Pins = [d \in Branch |-> Pins[d]] /\ Pins' = [d \in Branch |-> Pins'[d]]
  BY DEF Pins
<1> HIDE DEF Pins
<1> QED BY <1>4, <1>5, <1>6

\* A ref that moves moves alone.
LEMMA HeadChangesAt ==
  ASSUME StoreInv, StoreInv', NEW b \in Branch, Moves(b)
  PROVE  head' = [head EXCEPT ![b] = head'[b]]
BY DEF StoreInv, TypeOK, StoreTypeOK, Moves

-----------------------------------------------------------------------------
\* CreateBranch is BranchRefs' Create: a branch that does not exist is not
\* pinned.
LEMMA CreatedIsCreate ==
  ASSUME StoreInv, StoreInv', NEW b \in Branch, Moves(b), Created(b)
  PROVE  Refs!Create(b)
<1>1. Pins' = Pins
  BY DEF Created, Pins, LeaseHeld
<1> QED BY <1>1, HeadChangesAt DEF Created, BranchExists, Refs!Create

\* A swapped head that ends above its predecessor is BranchRefs' Advance.
LEMMA AdvanceIsAdvance ==
  ASSUME StoreInv, StoreInv', NEW b \in Branch, Moves(b), BranchExists(b),
         ~LeaseHeld(b), head'[b] \in Commit, head[b] \in Ancestry[head'[b]],
         lease' = lease \/ lease' = [lease EXCEPT ![b] = NoLease]
  PROVE  Refs!Advance(b)
<1>0. lease \in [Branch -> LeaseRecord \cup {NoLease}]
  BY DEF StoreInv, TypeOK, StoreTypeOK
<1>1. Pins[b] = NoLease
  BY PinOf
<1>2. Pins' = Pins
  <2>1. CASE lease' = lease
    BY <2>1 DEF Pins, LeaseHeld
  <2>2. CASE lease' = [lease EXCEPT ![b] = NoLease]
    <3>1. Pins' = [Pins EXCEPT ![b] = NoLease]
      BY <1>0, <2>2, PinsChangeAt
    <3>2. Pins = [d \in Branch |-> Pins[d]]
      BY DEF Pins
    <3> QED BY <1>1, <3>1, <3>2
  <2> QED BY <2>1, <2>2
<1> QED BY <1>1, <1>2, HeadChangesAt, SameAncestry DEF BranchExists, Refs!Advance

\* ApplyMerge under a live lease is BranchRefs' Merge.
LEMMA MergedIsMerge ==
  ASSUME StoreInv, StoreInv', NEW b \in Branch, Moves(b), Merged(b), LeaseHeld(b)
  PROVE  Refs!Merge(b)
<1>0. lease \in [Branch -> LeaseRecord \cup {NoLease}]
  BY DEF StoreInv, TypeOK, StoreTypeOK
<1>1. lease[b] \in LeaseRecord
  BY <1>0 DEF LeaseHeld
<1>2. Pins[b] = <<lease[b].target, lease[b].source>> /\ Pins[b] \in Commit \X Commit
  BY <1>1, PinOf DEF LeaseRecord
<1>3. Pins[b] # NoLease
  BY <1>2, PinsAssumption
<1>4. Pins' = [Pins EXCEPT ![b] = NoLease]
  BY <1>0, PinsChangeAt DEF Merged
<1>5. head'[b] \in Commit /\ Parents[head'[b]] = Pins[b]
  BY <1>2 DEF Merged
<1> HIDE DEF Pins
<1> QED BY <1>3, <1>4, <1>5, HeadChangesAt DEF Refs!Merge

\* AcquireMergeLease is BranchRefs' Pin on the current head.
LEMMA GrantedIsPin ==
  ASSUME StoreInv, NEW b \in Branch, Granted(b)
  PROVE  Refs!Pin(b)
<1>0. lease \in [Branch -> LeaseRecord \cup {NoLease}]
  BY DEF StoreInv, TypeOK, StoreTypeOK
<1>1. PICK row \in LeaseRecord : /\ lease' = [lease EXCEPT ![b] = row]
                                 /\ row.target = head[b] /\ ~row.expired
  BY DEF Granted
<1>2. CASE row # NoLease
  <2>1. Pins' = [Pins EXCEPT ![b] = <<head[b], row.source>>]
    BY <1>0, <1>1, <1>2, PinsChangeAt
  <2>2. row.source \in Commit
    BY DEF LeaseRecord
  <2>3. Pins[b] = NoLease /\ head[b] # NoCommit /\ head' = head
    BY PinOf DEF Granted, BranchExists
  <2> QED BY <2>1, <2>2, <2>3 DEF Refs!Pin
<1> QED BY <1>2, NoLeaseAssumption

\* A live lease that is released or expires is BranchRefs' Unpin.
LEMMA EndedIsUnpin ==
  ASSUME StoreInv, NEW b \in Branch, Ended(b)
  PROVE  Refs!Unpin(b) \/ UNCHANGED <<head, Pins>>
<1>0. lease \in [Branch -> LeaseRecord \cup {NoLease}] /\ lease[b] \in LeaseRecord
  BY DEF StoreInv, TypeOK, StoreTypeOK, Ended
<1>1. Pins' = [Pins EXCEPT ![b] = NoLease]
  <2>1. CASE lease' = [lease EXCEPT ![b] = NoLease]
    BY <1>0, <2>1, PinsChangeAt
  <2>2. CASE lease' = [lease EXCEPT ![b].expired = TRUE]
    <3> DEFINE row == [lease[b] EXCEPT !.expired = TRUE]
    <3>1. row \in LeaseRecord /\ row.expired = TRUE
      BY <1>0 DEF LeaseRecord
    <3>2. lease' = [lease EXCEPT ![b] = row]
      BY <1>0, <2>2
    <3> HIDE DEF row
    <3> QED BY <1>0, <3>1, <3>2, PinsChangeAt
  <2> QED BY <2>1, <2>2 DEF Ended
<1>2. CASE Pins[b] = NoLease
  <2>1. Pins = [d \in Branch |-> Pins[d]]
    BY DEF Pins
  <2> QED BY <1>1, <1>2, <2>1 DEF Ended
<1>3. CASE Pins[b] # NoLease
  BY <1>1, <1>3 DEF Ended, Refs!Unpin
<1> QED BY <1>2, <1>3

-----------------------------------------------------------------------------
\* Every step of the server is a step of BranchRefs or leaves its variables
\* alone.
LEMMA StepRefines ==
  ASSUME StoreInv, StoreInv', PushAdvances, V2Only, [Next]_vars
  PROVE  [Refs!Next]_(Refs!refVars)
<1>1. ASSUME NEW b \in Branch, Moves(b) PROVE Refs!Next
  <2>1. CASE Created(b)
    BY <1>1, <2>1, CreatedIsCreate DEF Refs!Next
  <2>2. CASE Swapped(b)
    <3>1. head'[b] \in Commit /\ head[b] \in Ancestry[head'[b]]
      BY <2>2, SwappedAdvances, V2TakesNothingOnTrust
    <3> QED BY <1>1, <2>2, <3>1, AdvanceIsAdvance DEF Swapped, Refs!Next
  <2>3. CASE Merged(b) /\ LeaseHeld(b)
    BY <1>1, <2>3, MergedIsMerge DEF Refs!Next
  <2>4. CASE Merged(b) /\ ~LeaseHeld(b)
    <3>1. head'[b] \in Commit /\ head[b] \in Ancestry[head'[b]] /\ BranchExists(b)
      BY <2>4, MergedAdvances
    <3> QED BY <1>1, <2>4, <3>1, AdvanceIsAdvance DEF Merged, Refs!Next
  <2> QED BY <1>1, <2>1, <2>2, <2>3, <2>4 DEF Moves
<1>2. ASSUME NEW b \in Branch, Granted(b) PROVE Refs!Next
  BY <1>2, GrantedIsPin DEF Refs!Next
<1>3. ASSUME NEW b \in Branch, Ended(b) PROVE [Refs!Next]_(Refs!refVars)
  BY <1>3, EndedIsUnpin DEF Refs!Next, Refs!refVars
<1>4. CASE head' = head /\ lease' = lease
  <2>1. Pins' = Pins
    BY <1>4 DEF Pins, LeaseHeld
  <2> QED BY <1>4, <2>1 DEF Refs!refVars
<1> QED BY <1>1, <1>2, <1>3, <1>4, HeadSteps, LeaseSteps

(***************************************************************************)
(* Seen from its clients' side, and with v2 packs only, the server with    *)
(* its pushes, merges, leases and branch administration is BranchRefs:     *)
(* refs are created once, advance to descendants, and a pinned ref moves   *)
(* only by the merge it is pinned for.                                     *)
(***************************************************************************)
THEOREM ServerImplementsBranchRefs ==
  ASSUME V2Only
  PROVE  Spec => ImplementsBranchRefs
<1>1. StoreInv /\ StoreInv' /\ PushAdvances /\ [Next]_vars => [Refs!Next]_(Refs!refVars)
  BY StepRefines
<1> QED BY <1>1, PushAdvancesAlways, InitRefs, StoreInvariant, PTL
        DEF Spec, ImplementsBranchRefs, Refs!Spec
=============================================================================
