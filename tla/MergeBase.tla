------------------------------ MODULE MergeBase ------------------------------
(***************************************************************************)
(* FindLowestCommonAncestor: two bounded breadth-first walks and the       *)
(* common commit with the smallest total depth.                            *)
(***************************************************************************)
EXTENDS CommitDag

CONSTANTS
  IdRank,                    \* the string order of commit ids
  MaxMergeAncestryCommits    \* maxMergeAncestryCommits

ASSUME MergeBaseAssumption ==
  /\ IdRank \in [Commit -> Nat]
  /\ \A c, d \in Commit : IdRank[c] = IdRank[d] => c = d
  /\ MaxMergeAncestryCommits \in Nat

\* Ids are hashes of a fixed width.
ASSUME FiniteIds == IsFiniteSet(Commit)

(***************************************************************************)
(* Commits at depth at most n of a walk from c.  Once all parents of a     *)
(* registered commit are registered, the walk meets no missing row.        *)
(***************************************************************************)
Within(c) ==
  LET level[n \in Nat] ==
        IF n = 0 THEN {c}
        ELSE level[n - 1] \cup UNION {ParentSet(d) : d \in level[n - 1]}
  IN  level

Depth(c, a) ==
  CHOOSE n \in 0..Cardinality(Commit) :
    a \in Within(c)[n] /\ \A k \in 0..(n - 1) : a \notin Within(c)[k]

\* collectMergeAncestry gives up when one more commit would exceed the cap.
HistoryTooDeep(c) == Cardinality(Ancestry[c]) > MaxMergeAncestryCommits

TotalDepth(s, t, a) == Depth(s, a) + Depth(t, a)

MaxDepth(s, t, a) ==
  IF Depth(s, a) > Depth(t, a) THEN Depth(s, a) ELSE Depth(t, a)

\* a wins over b: smaller sum, then smaller maximum, then smaller id.
Nearer(s, t, a, b) ==
  \/ TotalDepth(s, t, a) < TotalDepth(s, t, b)
  \/ /\ TotalDepth(s, t, a) = TotalDepth(s, t, b)
     /\ \/ MaxDepth(s, t, a) < MaxDepth(s, t, b)
        \/ /\ MaxDepth(s, t, a) = MaxDepth(s, t, b)
           /\ IdRank[a] < IdRank[b]

CommonAncestors(s, t) == Ancestry[s] \cap Ancestry[t]

\* NoCommit stands for ErrNoCommonAncestor and ErrCommitHistoryTooDeep.
FindLowestCommonAncestor(s, t) ==
  IF HistoryTooDeep(s) \/ HistoryTooDeep(t) \/ CommonAncestors(s, t) = {}
  THEN NoCommit
  ELSE CHOOSE a \in CommonAncestors(s, t) :
         \A b \in CommonAncestors(s, t) \ {a} : Nearer(s, t, a, b)

MergeBaseOf ==
  [s \in Commit |-> [t \in Commit |-> FindLowestCommonAncestor(s, t)]]
=============================================================================
