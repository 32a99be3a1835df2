------------------------------- MODULE RackPull -------------------------------
(***************************************************************************)
(* The server with pull calls: what pushes, merges and branch endpoints    *)
(* leave behind, while they run, is what clones and pulls must make sense  *)
(* of.                                                                     *)
(***************************************************************************)
EXTENDS RackServer, PullEngine

pullVars == <<vars, pull>>

RackPullInit == Init /\ PullInit

RackPullNext ==
  \/ Next /\ UNCHANGED pull
  \/ PullNext /\ UNCHANGED <<push, merge, deleting>>

RackPullSpec == RackPullInit /\ [][RackPullNext]_pullVars

-----------------------------------------------------------------------------
\* What a client that has c has.
KnownHistory(c) == IF c = NoCommit THEN {} ELSE Ancestry[c]

(***************************************************************************)
(* "clone always fetches complete history from root": with the packs it    *)
(* was sent and what it had, a client has the whole history of the head.   *)
(***************************************************************************)
PulledHistoryComplete ==
  \A q \in PullReq :
    pull[q].pc = "sent" =>
      Ancestry[pull[q].head] \subseteq
        Supplied(Sent(pull[q].ordered)) \cup KnownHistory(pull[q].known)

(***************************************************************************)
(* A client can apply the packs as they come: the parents of a commit are  *)
(* in its pack, in one sent before, or in what the client had.             *)
(***************************************************************************)
PulledInOrder ==
  \A q \in PullReq : \A i \in DOMAIN pull[q].ordered :
    \A c \in PackCommits(pull[q].ordered[i]) :
      ParentSet(c) \subseteq
        Supplied({pull[q].ordered[j] : j \in 1..i})
          \cup KnownHistory(pull[q].known)

(***************************************************************************)
(* What a clone is sent, UnmarshalPullEnvelopeV2 accepts.                  *)
(***************************************************************************)
CloneDecodes ==
  \A q \in PullReq :
    pull[q].pc = "sent" /\ pull[q].known = NoCommit =>
      Decodes(pull[q].head, pull[q].ordered)

\* The same of any pull.
PullDecodes ==
  \A q \in PullReq :
    pull[q].pc = "sent" => Decodes(pull[q].head, pull[q].ordered)

(***************************************************************************)
(* "Pull traverses these ranges backwards from a branch head": they lead   *)
(* from every head to the root, whatever pushes were refused or cut off,   *)
(* where branches are created by pushes only (AdminBranch = {}): a branch  *)
(* that the endpoint creates inside a pack has no range for its head.      *)
(***************************************************************************)
HeadRangesReachRoot ==
  \A b \in Branch :
    BranchExists(b) =>
      CompleteChain(PackChain(head[b], NoCommit), head[b], NoCommit)

-----------------------------------------------------------------------------
(***************************************************************************)
(* What makes the first two inductive.  Frames in CAS are valid, and what  *)
(* a call has selected leads back to what the client has; when the planner *)
(* is done, along every parent.                                            *)
(***************************************************************************)
FramesValid == \A p \in casPacks : ValidFrame(p)

LeadsBack(packs, c, known) ==
  /\ \E p \in packs : p.target = c
  /\ \A p \in packs :
       p.base \in {NoCommit, known} \/ \E d \in packs : d.target = p.base

PullKnows(q) ==
  LET packs == pull[q].selected
      known == pull[q].known
  IN
  /\ pull[q].pc \notin {"order", "sent"} => pull[q].ordered = <<>>
  /\ pull[q].pc # "idle" => pull[q].head \in Commit
  /\ pull[q].pc \in {"plan", "order", "sent"} =>
       packs \subseteq casPacks /\ LeadsBack(packs, pull[q].head, known)
  /\ pull[q].pc \in {"order", "sent"} =>
       \A c \in Supplied(packs) :
         MergeParents(c) \subseteq Supplied(packs) \cup KnownHistory(known)
  /\ pull[q].pc = "sent" => Sent(pull[q].ordered) = packs

PullInv ==
  /\ PullTypeOK
  /\ FramesValid
  /\ \A q \in PullReq : PullKnows(q)

(***************************************************************************)
(* What makes HeadRangesReachRoot inductive.  Rooted are the commits that  *)
(* ranges lead back from to the root; heads are, and what a call has       *)
(* checked before it moves a ref leaves them so.  The first range stored   *)
(* for a target stays the only one.                                        *)
(***************************************************************************)
Extends(S) == \A p \in packRanges : p.base \in S \cup {NoCommit} => p.target \in S

Rooted == {c \in Commit : \A S \in SUBSET Commit : Extends(S) => c \in S}

PushKnowsRange(r) ==
  LET p == push[r].pack IN
  /\ push[r].pc \in {"ref", "ancestry", "create", "swap"} => p \in packRanges
  /\ push[r].pc \in {"ancestry", "create"} => p.base = NoCommit
  /\ push[r].pc = "swap" => p.base \in {NoCommit, push[r].expected}

RangesInv ==
  /\ IsFiniteSet(packRanges)
  /\ \A p, q \in packRanges : p.target = q.target => p = q
  /\ \A b \in Branch : BranchExists(b) => head[b] \in Rooted
  /\ \A r \in PushReq : PushKnowsRange(r)
  /\ \A m \in MergeReq : merge[m].pc # "idle" => merge[m].source \in Rooted

(***************************************************************************)
(* What makes CloneDecodes inductive.  No commit is in two selected packs, *)
(* every target but the head is a parent of a selected commit, and a pack  *)
(* is out only after the packs it depends on.                              *)
(***************************************************************************)
Disjoint(packs) ==
  \A p, d \in packs : p # d => PackCommits(p) \cap PackCommits(d) = {}

LeadsOn(packs, c) ==
  \A p \in packs : p.target = c \/ \E d \in Supplied(packs) : p.target \in ParentSet(d)

PullPlans(q) ==
  LET packs   == pull[q].selected
      ordered == pull[q].ordered
  IN
  /\ pull[q].pc \in {"plan", "order", "sent"} =>
       Disjoint(packs) /\ LeadsOn(packs, pull[q].head)
  /\ \A i \in DOMAIN ordered : \A d \in packs :
       DependsOn(ordered[i], d) => d \in {ordered[j] : j \in 1..(i - 1)}

PlansInv == \A q \in PullReq : PullPlans(q)
=============================================================================
