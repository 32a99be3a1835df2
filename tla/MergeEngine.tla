------------------------------ MODULE MergeEngine ------------------------------
(***************************************************************************)
(* FinalizeEngine: AcquireLease, Apply and ReleaseLease, over the preview  *)
(* PreviewEngine.PreviewMerge computes first.  The preview reads the two   *)
(* branch refs in two transactions, so the pair it works on may never have *)
(* existed at one instant.                                                 *)
(***************************************************************************)
EXTENDS RackStore, MergeBase

CONSTANTS
  MergeReq,    \* AcquireLease and Apply calls in flight
  MaxTokens,   \* bound: how many leases a behaviour may hand out
  ClockSkew    \* whether a server's clock may run behind PostgreSQL's

ASSUME MergeEngineAssumption == ClockSkew \in BOOLEAN

VARIABLE merge   \* the locals of each call

MergePc == {"idle", "target", "previewed", "apply"}

NoToken == 0

(***************************************************************************)
(* from and into are the branches of the request, source and target the    *)
(* heads the preview read, token the leaseToken and result the commit of   *)
(* an Apply that has framed its pack.  A part of the request nothing has   *)
(* looked at yet (into, the token, which handler it is) is chosen when it  *)
(* is first used: the outcomes are the same.                               *)
(***************************************************************************)
MergeRecord ==
  [pc : MergePc, token : Nat,
   from : Branch \cup {NoBranch}, into : Branch \cup {NoBranch},
   source : Commit \cup {NoCommit}, target : Commit \cup {NoCommit},
   result : Commit \cup {NoCommit}]

IdleMerge == [pc |-> "idle", token |-> NoToken, from |-> NoBranch,
              into |-> NoBranch, source |-> NoCommit, target |-> NoCommit,
              result |-> NoCommit]

MergeTypeOK == merge \in [MergeReq -> MergeRecord]

MergeInit == merge = [m \in MergeReq |-> IdleMerge]

MergeDone(m) == merge' = [merge EXCEPT ![m] = IdleMerge]

\* The pack Apply frames for the merge commit r of target and source.
MergePack(target, r) ==
  [base |-> target, target |-> r, commits |-> <<r>>, format |-> PackFormatV2]

-----------------------------------------------------------------------------
(***************************************************************************)
(* PreviewMerge: GetBranchRef of the source, then of the target.           *)
(***************************************************************************)
MergeReadSource(m) ==
  /\ merge[m].pc = "idle"
  /\ \E from \in Branch :
       /\ BranchExists(from)
       /\ merge' = [merge EXCEPT ![m] = [IdleMerge EXCEPT
            !.pc = "target", !.from = from, !.source = head[from]]]
  /\ UNCHANGED storeVars

MergeReadTarget(m) ==
  /\ merge[m].pc = "target"
  /\ \E into \in Branch :
       /\ BranchExists(into)
       /\ merge' = [merge EXCEPT ![m] = [@ EXCEPT
            !.pc = "previewed", !.into = into, !.target = head[into]]]
  /\ UNCHANGED storeVars

\* IsAncestor and FindLowestCommonAncestor only read rows that are never
\* deleted, so the answer is the same whenever they run after the heads
\* are known.
CanFastForward(m) == IsAncestor(commits, merge[m].target, merge[m].source)

BaseOf(m) == MergeBaseOf[merge[m].source][merge[m].target]

-----------------------------------------------------------------------------
\* AcquireLease, refused for a fast-forward and without a merge base.
MergeAcquire(m) ==
  LET into == merge[m].into IN
  /\ merge[m].pc = "previewed"
  /\ ~CanFastForward(m)
  /\ BaseOf(m) \in Commit
  /\ issued < MaxTokens
  /\ AcquireMergeLease(into, merge[m].source, merge[m].target, BaseOf(m))
  /\ MergeDone(m)
  /\ UNCHANGED <<commits, packRanges, casPacks, head, deleted, defaultBranch>>

\* Apply of a fast-forward, by a request without a lease token.
MergeFastForward(m) ==
  LET into == merge[m].into IN
  /\ merge[m].pc = "previewed"
  /\ CanFastForward(m)
  /\ CompareAndSwapBranchRef(into, merge[m].target, merge[m].source)
  /\ MergeDone(m)
  /\ UNCHANGED <<commits, packRanges, casPacks, deleted, defaultBranch,
                 lease, issued>>

(***************************************************************************)
(* What the server makes of expires_at: time.Now() on its own clock, which *)
(* may lag PostgreSQL's.  A clock that runs ahead only turns the call into *)
(* a failure.                                                              *)
(***************************************************************************)
LeaseLive(b) == ~lease[b].expired \/ ClockSkew

(***************************************************************************)
(* Apply of a three-way merge by a request with the token of the lease row *)
(* (any other token is refused): ValidateMergeLease, the comparison with   *)
(* the preview, and the merge commit with its snapshot and pack written to *)
(* CAS.  The commit's time makes its id a new one.                         *)
(***************************************************************************)
MergeWritePack(m) ==
  LET into == merge[m].into IN
  /\ merge[m].pc = "previewed"
  /\ ~CanFastForward(m)
  /\ lease[into] # NoLease
  /\ LeaseLive(into)
  /\ LeaseMatches(into, merge[m].source, merge[m].target, BaseOf(m))
  /\ \E r \in Commit \ commits :
       /\ Parents[r] = <<merge[m].target, merge[m].source>>
       /\ MergePack(merge[m].target, r) \in Pack
       /\ WritePack(MergePack(merge[m].target, r))
       /\ merge' = [merge EXCEPT ![m] = [@ EXCEPT
            !.pc = "apply", !.result = r, !.token = lease[into].token]]
  /\ UNCHANGED <<commits, packRanges, head, deleted, defaultBranch, lease,
                 issued>>

MergeApply(m) ==
  LET into == merge[m].into
      r    == merge[m].result
  IN
  /\ merge[m].pc = "apply"
  /\ lease[into] # NoLease
  /\ ApplyMerge(into, merge[m].token, LeaseLive(into), BaseOf(m),
                MergePack(merge[m].target, r))
  /\ MergeDone(m)
  /\ UNCHANGED <<casPacks, deleted, defaultBranch, issued>>

\* An error answer, a lost connection or a crash, after any step.
MergeFail(m) ==
  /\ merge[m].pc # "idle"
  /\ MergeDone(m)
  /\ UNCHANGED storeVars

-----------------------------------------------------------------------------
\* ReleaseLease by its owner, expired or not.
ReleaseLease(b) ==
  /\ ReleaseMergeLease(b)
  /\ UNCHANGED <<commits, packRanges, casPacks, head, deleted, defaultBranch,
                 issued>>

\* PostgreSQL's clock passes expires_at (defaultMergeLeaseDuration).
LeaseExpires(b) ==
  /\ LeaseHeld(b)
  /\ lease' = [lease EXCEPT ![b].expired = TRUE]
  /\ UNCHANGED <<commits, packRanges, casPacks, head, deleted, defaultBranch,
                 issued>>

MergeStep(m) ==
  \/ MergeReadTarget(m)
  \/ MergeAcquire(m)
  \/ MergeFastForward(m)
  \/ MergeWritePack(m)
  \/ MergeApply(m)

MergeNext ==
  \E m \in MergeReq : MergeReadSource(m) \/ MergeStep(m) \/ MergeFail(m)

LeaseNext == \E b \in Branch : ReleaseLease(b) \/ LeaseExpires(b)
=============================================================================
