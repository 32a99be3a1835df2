------------------------------ MODULE CommitDag ------------------------------
(***************************************************************************)
(* The commit graph.  A commit is content addressed (its id is the hash of *)
(* its frame, parents included), so the parents of a commit id never       *)
(* change: they are a constant of the model.  What changes is which of the *)
(* commits a repository has registered; ancestry as PostgreSQL computes it *)
(* therefore takes the set of registered commits as a parameter.           *)
(***************************************************************************)
EXTENDS Integers, Sequences, FiniteSets

CONSTANTS
  Commit,    \* commit ids
  Parents,   \* the ordered parents each id commits to
  NoCommit   \* the empty string where an id is expected

ASSUME CommitDagAssumption ==
  /\ NoCommit \notin Commit
  /\ Parents \in [Commit -> Seq(Commit)]

ParentSet(c) == {Parents[c][i] : i \in DOMAIN Parents[c]}

\* Parents[0] of a frame, the empty identity for a root commit.
FirstParent(c) == IF Parents[c] = <<>> THEN NoCommit ELSE Parents[c][1]

ClosedUnderParents(S) == \A c \in S : ParentSet(c) \subseteq S

(***************************************************************************)
(* The commits reachable from c, c included, through any parent: the least *)
(* set that holds c and the parents of its members.                        *)
(***************************************************************************)
Ancestors(c) ==
  {a \in Commit : \A S \in SUBSET Commit :
                     c \in S /\ ClosedUnderParents(S) => a \in S}

Ancestry == [c \in Commit |-> Ancestors(c)]

\* A hash commits to its parents, so no commit is its own ancestor's parent.
ASSUME ContentAddressed ==
  \A c \in Commit : \A d \in ParentSet(c) : c \notin Ancestry[d]

(***************************************************************************)
(* The same over the registered rows only: the recursive query joins every *)
(* parent with the commits table, so it never leaves `registered'.         *)
(***************************************************************************)
StoredAncestors(registered, c) ==
  {a \in registered : \A S \in SUBSET registered :
     c \in S /\ (\A d \in S : ParentSet(d) \cap registered \subseteq S)
       => a \in S}

\* PGStore.IsAncestor: false, not an error, when c is not registered.
IsAncestor(registered, a, c) ==
  /\ c \in registered
  /\ a \in StoredAncestors(registered, c)
=============================================================================
