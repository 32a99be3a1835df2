------------------------------ MODULE PushEngine ------------------------------
(***************************************************************************)
(* PushEngine.HandlePush, one call per push request: every store and CAS   *)
(* call is a step of its own, so requests interleave between them and may  *)
(* end (an error answer, a lost connection, a crashed server) after any.   *)
(***************************************************************************)
EXTENDS RackStore

CONSTANTS
  PushReq,   \* HandlePush calls in flight
  NoPack     \* the pack field of a request slot that is free

ASSUME PushEngineAssumption == NoPack \notin Pack

VARIABLE push   \* the locals of each call

PushPc == {"idle", "verify", "commits", "range", "ref", "ancestry",
           "create", "swap"}

(***************************************************************************)
(* next is the index of the commit to register, expected the branch head   *)
(* the final compare-and-swap will name.                                   *)
(***************************************************************************)
PushRecord ==
  [pc : PushPc, pack : Pack \cup {NoPack}, branch : Branch \cup {NoBranch},
   next : Nat, expected : Commit \cup {NoCommit}]

IdlePush == [pc |-> "idle", pack |-> NoPack, branch |-> NoBranch, next |-> 1,
             expected |-> NoCommit]

PushTypeOK == push \in [PushReq -> PushRecord]

PushInit == push = [r \in PushReq |-> IdlePush]

Goto(r, pc) == push' = [push EXCEPT ![r] = [@ EXCEPT !.pc = pc]]

\* HandlePush returns: with nil, an answer the client may act on.
PushDone(r) == push' = [push EXCEPT ![r] = IdlePush]

(***************************************************************************)
(* validatePushRequest and writePack: an invalid frame is refused before   *)
(* anything is stored, a valid one is in CAS before the store is asked     *)
(* anything about branches.                                                *)
(***************************************************************************)
PushWritePack(r) ==
  /\ push[r].pc = "idle"
  /\ \E p \in Pack, b \in Branch :
       /\ ValidFrame(p)
       /\ WritePack(p)
       /\ push' = [push EXCEPT ![r] = [IdlePush EXCEPT
                     !.pc = "verify", !.pack = p, !.branch = b]]
  /\ UNCHANGED <<commits, packRanges, head, deleted, defaultBranch, lease,
                 issued>>

(***************************************************************************)
(* validateV2BaseFormat, and for a v3 pack the parent walk.  Rows of       *)
(* commits are never deleted, so reading them one by one or at once makes  *)
(* no difference.                                                          *)
(***************************************************************************)
PushVerify(r) ==
  LET p == push[r].pack IN
  /\ push[r].pc = "verify"
  /\ p.base \in commits \cup {NoCommit}
  /\ p.format = PackFormatV3 => ParentsKnown(p, commits)
  /\ Goto(r, "commits")
  /\ UNCHANGED storeVars

\* The loop's next turn, or what follows it.
AfterCommit(r) ==
  [push[r] EXCEPT
     !.next = push[r].next + 1,
     !.pc = IF push[r].next = Len(push[r].pack.commits) THEN "range" ELSE "commits"]

\* One PutCommitWithFormat per commit of the pack, each its own transaction.
PushPutCommit(r) ==
  LET p == push[r].pack IN
  /\ push[r].pc = "commits"
  /\ PutCommit(p.commits[push[r].next])
  /\ push' = [push EXCEPT ![r] = AfterCommit(r)]
  /\ UNCHANGED <<packRanges, casPacks, head, deleted, defaultBranch, lease,
                 issued>>

PushPutPackRange(r) ==
  /\ push[r].pc = "range"
  /\ PutPackRange(push[r].pack)
  /\ Goto(r, "ref")
  /\ UNCHANGED <<commits, casPacks, head, deleted, defaultBranch, lease,
                 issued>>

-----------------------------------------------------------------------------
(***************************************************************************)
(* GetBranchRef and the decision HandlePush takes on the head it read.     *)
(* The head may move before the next step; every other answer ends in an   *)
(* error (PushFail).                                                       *)
(***************************************************************************)

\* No such branch and a pack from the root: the push creates the branch.
PushRefMissing(r) ==
  /\ push[r].pc = "ref"
  /\ ~BranchExists(push[r].branch)
  /\ push[r].pack.base = NoCommit
  /\ Goto(r, "create")
  /\ UNCHANGED storeVars

\* The head is the pack's base.
PushRefAtBase(r) ==
  LET h == head[push[r].branch] IN
  /\ push[r].pc = "ref"
  /\ BranchExists(push[r].branch)
  /\ h = push[r].pack.base
  /\ push' = [push EXCEPT ![r] = [@ EXCEPT !.pc = "swap", !.expected = h]]
  /\ UNCHANGED storeVars

\* A pack from the root whose target is already the head: nil.
PushRefAtTarget(r) ==
  LET p == push[r].pack IN
  /\ push[r].pc = "ref"
  /\ p.base = NoCommit
  /\ head[push[r].branch] = p.target
  /\ PushDone(r)
  /\ UNCHANGED storeVars

\* A pack from the root on another head: IsAncestor decides.
PushRefElsewhere(r) ==
  LET h == head[push[r].branch] IN
  /\ push[r].pc = "ref"
  /\ BranchExists(push[r].branch)
  /\ push[r].pack.base = NoCommit
  /\ h # push[r].pack.target
  /\ push' = [push EXCEPT ![r] = [@ EXCEPT !.pc = "ancestry", !.expected = h]]
  /\ UNCHANGED storeVars

\* A variant that goes on whatever IsAncestor answers.
PushAnyAncestry(r) ==
  /\ push[r].pc = "ancestry"
  /\ Goto(r, "swap")
  /\ UNCHANGED storeVars

PushIsAncestor(r) ==
  /\ push[r].pc = "ancestry"
  /\ IsAncestor(commits, push[r].expected, push[r].pack.target)
  /\ Goto(r, "swap")
  /\ UNCHANGED storeVars

-----------------------------------------------------------------------------
PushCreateBranch(r) ==
  LET p == push[r].pack IN
  /\ push[r].pc = "create"
  /\ CreateBranch(push[r].branch, p.target)
  /\ PushDone(r)
  /\ UNCHANGED <<commits, packRanges, casPacks, deleted, lease, issued>>

PushCompareAndSwap(r) ==
  LET p == push[r].pack IN
  /\ push[r].pc = "swap"
  /\ CompareAndSwapBranchRef(push[r].branch, push[r].expected, p.target)
  /\ PushDone(r)
  /\ UNCHANGED <<commits, packRanges, casPacks, deleted, defaultBranch,
                 lease, issued>>

(***************************************************************************)
(* The call ends without success: a check above failed, a transaction      *)
(* returned an error, the answer was lost or the server died.  What it     *)
(* stored so far stays.                                                    *)
(***************************************************************************)
PushFail(r) ==
  /\ push[r].pc # "idle"
  /\ PushDone(r)
  /\ UNCHANGED storeVars

PushStep(r) ==
  \/ PushVerify(r)
  \/ PushPutCommit(r)
  \/ PushPutPackRange(r)
  \/ PushRefMissing(r)
  \/ PushRefAtBase(r)
  \/ PushRefAtTarget(r)
  \/ PushRefElsewhere(r)
  \/ PushIsAncestor(r)
  \/ PushCreateBranch(r)
  \/ PushCompareAndSwap(r)

PushNext == \E r \in PushReq : PushWritePack(r) \/ PushStep(r) \/ PushFail(r)
=============================================================================
