------------------------------ MODULE RackStore ------------------------------
(***************************************************************************)
(* What one repository keeps: the PostgreSQL rows (commits, pack ranges,   *)
(* branches, default branch, merge leases) and the packs in CAS.  Each     *)
(* operator below is one transaction of PGStore that succeeds; a           *)
(* transaction that fails changes nothing, so its caller's failure is the  *)
(* caller's action.  Foreign keys and unique constraints are guards.       *)
(*                                                                         *)
(* All commits here carry object format 2, the only one PushEngine and     *)
(* FinalizeEngine register.                                                *)
(***************************************************************************)
EXTENDS PackFrame

CONSTANTS
  Pack,       \* the packs clients and merges may produce
  Branch,     \* branch names
  NoBranch,   \* NULL in repositories.default_branch
  NoLease     \* no row in target_branch_merge_leases

ASSUME RackStoreAssumption ==
  /\ Pack \subseteq PackRecord
  /\ NoBranch \notin Branch

VARIABLES
  commits,        \* rows of commits (with their commit_parents rows)
  packRanges,     \* rows of pack_ranges, each named by its pack
  casPacks,       \* pack files in CAS
  head,           \* branches.head_commit_id, NoCommit when there is no row
  deleted,        \* branches whose deleted_at is set
  defaultBranch,  \* repositories.default_branch
  lease,          \* target_branch_merge_leases by target branch
  issued          \* how many lease tokens newOpaqueToken has handed out

storeVars == <<commits, packRanges, casPacks, head, deleted, defaultBranch,
               lease, issued>>

(***************************************************************************)
(* A lease row.  `expired' is expires_at <= now() on PostgreSQL's clock.   *)
(* Tokens are random; a counter gives the freshness that matters.          *)
(***************************************************************************)
LeaseRecord ==
  [token : Nat, source : Commit, target : Commit, base : Commit,
   expired : BOOLEAN]

ASSUME NoLeaseAssumption == NoLease \notin LeaseRecord

StoreTypeOK ==
  /\ commits \subseteq Commit
  /\ packRanges \subseteq Pack
  /\ casPacks \subseteq Pack
  /\ head \in [Branch -> Commit \cup {NoCommit}]
  /\ deleted \subseteq Branch
  /\ defaultBranch \in Branch \cup {NoBranch}
  /\ lease \in [Branch -> LeaseRecord \cup {NoLease}]
  /\ issued \in Nat

StoreInit ==
  /\ commits = {}
  /\ packRanges = {}
  /\ casPacks = {}
  /\ head = [b \in Branch |-> NoCommit]
  /\ deleted = {}
  /\ defaultBranch = NoBranch
  /\ lease = [b \in Branch |-> NoLease]
  /\ issued = 0

BranchExists(b) == head[b] # NoCommit

LeaseHeld(b) == lease[b] # NoLease /\ ~lease[b].expired

-----------------------------------------------------------------------------
(***************************************************************************)
(* CAS.                                                                    *)
(***************************************************************************)
\* A variant that answers before the pack is durable.
WritePackLater(p) == casPacks' = casPacks

WritePack(p) == casPacks' = casPacks \cup {p}

(***************************************************************************)
(* Commits and pack ranges.                                                *)
(***************************************************************************)

\* A variant without the commit_parents foreign key.
PutCommitUnreferenced(c) == commits' = commits \cup {c}

\* putCommitTx: registered again, a commit is left alone; a new one needs
\* the rows its commit_parents rows reference.
PutCommit(c) ==
  /\ ParentSet(c) \subseteq commits
  /\ commits' = commits \cup {c}

\* A variant that takes the newest pack for a target.
ReplacePackRange(p) ==
  /\ p.target \in commits
  /\ p.base \in commits \cup {NoCommit}
  /\ packRanges' = {q \in packRanges : q.target # p.target} \cup {p}

\* putPackRange: the same pack again is left alone, another pack with the
\* same target breaks UNIQUE (tenant_id, repo_id, target_commit_id).
PutPackRange(p) ==
  /\ p.target \in commits
  /\ p.base \in commits \cup {NoCommit}
  /\ \A q \in packRanges : q.target = p.target => q = p
  /\ packRanges' = packRanges \cup {p}

-----------------------------------------------------------------------------
(***************************************************************************)
(* Branches.                                                               *)
(***************************************************************************)

\* A variant that writes the head's id where the branch's name belongs.
CreateBranchSwapped(b, c) ==
  /\ ~BranchExists(b)
  /\ c \in commits
  /\ head' = [head EXCEPT ![b] = c]
  /\ defaultBranch' = IF defaultBranch = NoBranch THEN c ELSE defaultBranch

\* The name of a deleted branch stays taken; the first branch ever created
\* becomes the default.
CreateBranch(b, c) ==
  /\ ~BranchExists(b)
  /\ c \in commits
  /\ head' = [head EXCEPT ![b] = c]
  /\ defaultBranch' = IF defaultBranch = NoBranch THEN b ELSE defaultBranch

\* A variant that does not compare.
SetBranchRef(b, expected, c) ==
  /\ BranchExists(b)
  /\ ~LeaseHeld(b)
  /\ c \in commits
  /\ head' = [head EXCEPT ![b] = c]

\* A variant that ignores leases.
SwapLeasedBranchRef(b, expected, c) ==
  /\ BranchExists(b)
  /\ head[b] = expected
  /\ c \in commits
  /\ head' = [head EXCEPT ![b] = c]

(***************************************************************************)
(* The branch row is locked, compared, and refused while an unexpired      *)
(* lease owns it.  deleted_at is not looked at.                            *)
(***************************************************************************)
CompareAndSwapBranchRef(b, expected, c) ==
  /\ BranchExists(b)
  /\ head[b] = expected
  /\ ~LeaseHeld(b)
  /\ c \in commits
  /\ head' = [head EXCEPT ![b] = c]

-----------------------------------------------------------------------------
(***************************************************************************)
(* Merge leases.                                                           *)
(***************************************************************************)

\* A variant that trusts the preview's target head.
AcquireStaleLease(b, source, target, base) ==
  /\ BranchExists(b)
  /\ ~LeaseHeld(b)
  /\ issued' = issued + 1
  /\ lease' = [lease EXCEPT ![b] =
       [token |-> issued', source |-> source, target |-> target,
        base |-> base, expired |-> FALSE]]

AcquireMergeLease(b, source, target, base) ==
  /\ BranchExists(b)
  /\ head[b] = target
  /\ ~LeaseHeld(b)
  /\ issued' = issued + 1
  /\ lease' = [lease EXCEPT ![b] =
       [token |-> issued', source |-> source, target |-> target,
        base |-> base, expired |-> FALSE]]

\* A variant that takes any lease on the branch.
AnyLease(b, token) == lease[b] # NoLease

OwnsLease(b, token) == lease[b] # NoLease /\ lease[b].token = token

LeaseMatches(b, source, target, base) ==
  /\ lease[b].source = source
  /\ lease[b].target = target
  /\ lease[b].base = base

ReleaseMergeLease(b) ==
  /\ lease[b] # NoLease
  /\ lease' = [lease EXCEPT ![b] = NoLease]

ConsumeLease(b) == lease' = [lease EXCEPT ![b] = NoLease]

(***************************************************************************)
(* ApplyMerge, one transaction: head and lease are locked and checked, the *)
(* merge commit, its parents and its pack range are inserted, the head     *)
(* moves and the lease is consumed.  `live' is the application server's    *)
(* view of the lease's expiry.                                             *)
(***************************************************************************)
ApplyMerge(b, token, live, base, p) ==
  LET result == p.target
      target == Parents[result][1]
      source == Parents[result][2]
  IN  /\ head[b] = target
      /\ OwnsLease(b, token)
      /\ live
      /\ LeaseMatches(b, source, target, base)
      /\ result \notin commits
      /\ {source, target} \subseteq commits
      /\ \A q \in packRanges : q.target # result
      /\ commits' = commits \cup {result}
      /\ packRanges' = packRanges \cup {p}
      /\ head' = [head EXCEPT ![b] = result]
      /\ ConsumeLease(b)
=============================================================================
