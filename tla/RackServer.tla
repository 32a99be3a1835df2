------------------------------ MODULE RackServer ------------------------------
(***************************************************************************)
(* One repository served by the gateway: push calls, merge calls and       *)
(* branch administration interleaving over the shared store.               *)
(***************************************************************************)
EXTENDS PushEngine, MergeEngine, BranchAdmin

vars == <<storeVars, push, merge, deleting>>

Init == StoreInit /\ PushInit /\ MergeInit /\ BranchAdminInit

Next ==
  \/ PushNext /\ UNCHANGED <<merge, deleting>>
  \/ MergeNext /\ UNCHANGED <<push, deleting>>
  \/ LeaseNext /\ UNCHANGED <<push, merge, deleting>>
  \/ BranchAdminNext /\ UNCHANGED <<push, merge>>

Spec == Init /\ [][Next]_vars

-----------------------------------------------------------------------------
(***************************************************************************)
(* Type correctness of the rows and of the locals of every call.           *)
(***************************************************************************)
TypeOK == StoreTypeOK /\ PushTypeOK /\ MergeTypeOK /\ BranchAdminTypeOK

(***************************************************************************)
(* HandlePush and Apply write CAS before they touch metadata, so every     *)
(* registered commit, and with it its snapshot, travels in a pack that is  *)
(* in CAS, and no pack range names a pack that is not.                     *)
(***************************************************************************)
MetadataIsDurable ==
  /\ packRanges \subseteq casPacks
  /\ \A c \in commits : \E p \in casPacks : c \in PackCommits(p)

(***************************************************************************)
(* The whole history of a branch head is registered, wherever the calls    *)
(* that put it there were interleaved or cut off: the walks of IsAncestor, *)
(* FindLowestCommonAncestor and the pull planner from a head never meet    *)
(* ErrCommitHistoryIncomplete.                                             *)
(***************************************************************************)
HeadHistoryComplete ==
  \A b \in Branch : BranchExists(b) => Ancestry[head[b]] \subseteq commits

(***************************************************************************)
(* While a lease is unexpired the head it was granted on stays the head:   *)
(* its holder cannot lose the race to a push or to another merge.          *)
(***************************************************************************)
LeasePinsHead ==
  \A b \in Branch : LeaseHeld(b) => head[b] = lease[b].target

(***************************************************************************)
(* "ApplyMerge is the sole path that can advance a leased target": a step  *)
(* that moves a leased head installs the merge of the two heads the lease  *)
(* was granted for and consumes the lease.                                 *)
(***************************************************************************)
LeasedHeadMovesByMerge ==
  [][\A b \in Branch :
       LeaseHeld(b) /\ head'[b] # head[b] =>
         /\ Parents[head'[b]] = <<lease[b].target, lease[b].source>>
         /\ lease'[b] = NoLease]_vars

(***************************************************************************)
(* "PushEngine persists incoming packs and advances branch refs once the   *)
(* push is proven to be a fast-forward" (sync/push.go:79-80): a branch ref *)
(* only moves to a descendant of its head.  It does so with v2 packs only. *)
(* A v3 pack, which HandlePush accepts unless it is configured otherwise,  *)
(* moves a ref from the base it names to a target that need not descend    *)
(* from it.                                                                *)
(***************************************************************************)
FastForwardOnly ==
  [][\A b \in Branch :
       BranchExists(b) =>
         head'[b] \in Commit /\ head[b] \in Ancestry[head'[b]]]_head

\* The step installs a v3 pack that names the head as its base.
TakesBaseOnTrust(b) ==
  \E r \in PushReq : /\ push[r].pc = "swap"
                     /\ push[r].branch = b
                     /\ push[r].pack.format = PackFormatV3
                     /\ push[r].pack.base = head[b]
                     /\ head'[b] = push[r].pack.target

(***************************************************************************)
(* What the code does keep, with packs of either format: but for that one  *)
(* case, every step that moves a ref moves it to a descendant of its head, *)
(* although pushes and merges decide on a head they read in an earlier     *)
(* transaction.                                                            *)
(***************************************************************************)
SidewaysOnlyByV3 ==
  [][\A b \in Branch :
       BranchExists(b) =>
         /\ head'[b] \in Commit
         /\ head[b] \in Ancestry[head'[b]] \/ TakesBaseOnTrust(b)]_vars

(***************************************************************************)
(* A v3 push that passed the parent walk never meets a missing parent when *)
(* it registers its commits one transaction at a time.                     *)
(***************************************************************************)
VerifiedCommitsRegister ==
  \A r \in PushReq :
    push[r].pc = "commits" /\ push[r].pack.format = PackFormatV3 =>
      ParentSet(push[r].pack.commits[push[r].next]) \subseteq commits

(***************************************************************************)
(* A lease is for its holder: a step that moves a leased head is the Apply *)
(* of a request that carries that lease's token, whatever expired, was     *)
(* released or was granted again since the request was validated.          *)
(***************************************************************************)
LeaseHolderMerges ==
  [][\A b \in Branch :
       LeaseHeld(b) /\ head'[b] # head[b] =>
         \E m \in MergeReq : /\ merge[m].pc = "apply"
                             /\ merge[m].into = b
                             /\ merge[m].token = lease[b].token]_vars

\* There is a default branch, live, and no DeleteBranch call has passed its
\* comparison with it.
DefaultBranchSafe ==
  defaultBranch # NoBranch /\ defaultBranch \notin deleting \cup deleted

(***************************************************************************)
(* What DeleteBranch does guarantee: a default branch that was recorded    *)
(* while no DeleteBranch call on it was under way is never soft-deleted.   *)
(* It says nothing of the call that read default_branch before the branch  *)
(* became the default; such a call deletes it.                             *)
(***************************************************************************)
DefaultBranchStaysLive == [][DefaultBranchSafe => DefaultBranchSafe']_vars

-----------------------------------------------------------------------------
(***************************************************************************)
(* With v2 packs only the server implements BranchRefs: a branch is pinned *)
(* by its lease as long as it is unexpired.  A v3 pack can move a ref      *)
(* sideways, which BranchRefs does not allow.                              *)
(***************************************************************************)
ASSUME PinsAssumption == NoLease \notin Commit \X Commit

Pins ==
  [b \in Branch |->
     IF LeaseHeld(b) THEN <<lease[b].target, lease[b].source>> ELSE NoLease]

Refs == INSTANCE BranchRefs WITH tip <- head, pin <- Pins, NoPin <- NoLease

ImplementsBranchRefs == Refs!Spec

-----------------------------------------------------------------------------
(***************************************************************************)
(* What makes these invariants inductive: what each call knows of the rows *)
(* and packs it will use next.  Packs in CAS and rows of commits are never *)
(* removed, so none of it goes stale while other calls run.                *)
(***************************************************************************)
PushKnows(r) ==
  LET p == push[r].pack IN
  push[r].pc # "idle" =>
    /\ p \in casPacks
    /\ ValidFrame(p)
    /\ push[r].branch \in Branch
    /\ push[r].next \in 1..(Len(p.commits) + 1)
    /\ push[r].pc \in {"verify", "commits"} => push[r].next <= Len(p.commits)

MergeKnows(m) ==
  /\ merge[m].pc # "idle" => merge[m].source \in commits
  /\ merge[m].pc \in {"previewed", "apply"} =>
       merge[m].into \in Branch /\ merge[m].target \in commits
  /\ merge[m].pc = "apply" =>
       /\ merge[m].result \in Commit
       /\ Parents[merge[m].result] = <<merge[m].target, merge[m].source>>
       /\ MergePack(merge[m].target, merge[m].result) \in casPacks

\* Heads and the parents of registered commits are registered (foreign keys).
HistoryClosed ==
  /\ ClosedUnderParents(commits)
  /\ \A b \in Branch : BranchExists(b) => head[b] \in commits

StoreInv ==
  /\ TypeOK
  /\ HistoryClosed
  /\ \A r \in PushReq : PushKnows(r)
  /\ \A m \in MergeReq : MergeKnows(m)

\* A push about to move the ref found the head it expects below its target,
\* or has it from the base of a v3 pack.
PushAdvances ==
  \A r \in PushReq :
    push[r].pc = "swap" =>
      \/ push[r].expected \in Ancestry[push[r].pack.target]
      \/ /\ push[r].pack.format = PackFormatV3
         /\ push[r].expected = push[r].pack.base

\* Every v2 pack is a first-parent line; v3 packs need not be.
V2Only == \A p \in Pack : p.format = PackFormatV2

(***************************************************************************)
(* The commits a verified v3 pack still has to register need only rows and *)
(* commits of the pack that are registered before them.                    *)
(***************************************************************************)
RestIsOrdered ==
  \A r \in PushReq :
    LET cs == push[r].pack.commits
        k  == push[r].next
    IN  push[r].pc = "commits" /\ push[r].pack.format = PackFormatV3 =>
          \A i \in k..Len(cs) :
            ParentSet(cs[i]) \subseteq commits \cup {cs[j] : j \in k..(i - 1)}
=============================================================================
