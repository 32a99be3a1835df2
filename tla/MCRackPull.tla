------------------------------ MODULE MCRackPull ------------------------------
(***************************************************************************)
(* RackPull on the repository of MCRackServer, and on one more commit:     *)
(* again = merge of b into ab, which has b already.                        *)
(***************************************************************************)
EXTENDS MCRackServer, RackPull

CONSTANTS again

AgainCommit == MCCommit \cup {again}
AgainParents == MCParents @@ (again :> <<ab, b>>)
AgainIdRank == MCIdRank @@ (again :> 6)

\* Two sides and their merge in packs of one commit, and one side again from
\* the root.
TwoSidesPacks ==
  {PackOf(NoCommit, <<root>>, 2), PackOf(root, <<a>>, 2),
   PackOf(root, <<b>>, 2), PackOf(a, <<ab>>, 2),
   PackOf(NoCommit, <<root, b>>, 2)}

\* One side, its merge, and all from the root in a v3 pack in topological
\* order; and a v3 pack out of that order that moves one side to the other.
PushPacks ==
  {PackOf(NoCommit, <<root>>, 2), PackOf(NoCommit, <<root, a>>, 2),
   PackOf(a, <<ab>>, 2), PackOf(root, <<a, b, ab>>, 3),
   PackOf(a, <<ab, b>>, 3)}

\* The other side in a v3 pack that names this side as its base.
SidewaysPacks ==
  {PackOf(NoCommit, <<root>>, 2), PackOf(NoCommit, <<root, a>>, 2),
   PackOf(a, <<b>>, 3)}

(***************************************************************************)
(* A repository after a push of root and a to main, a branch feature       *)
(* created at root and a push of b to it.                                  *)
(***************************************************************************)
DivergedPacks == {PackOf(NoCommit, <<root, a>>, 2), PackOf(root, <<b>>, 2)}

DivergedInit ==
  /\ commits = {root, a, b}
  /\ packRanges = DivergedPacks
  /\ casPacks = DivergedPacks
  /\ head = (main :> a) @@ (feature :> b)
  /\ deleted = {}
  /\ defaultBranch = main
  /\ lease = [br \in Branch |-> NoLease]
  /\ issued = 0
  /\ PushInit /\ MergeInit /\ BranchAdminInit /\ PullInit

DivergedSpec == DivergedInit /\ [][RackPullNext]_pullVars

RefsPacks == DivergedPacks \cup {PackOf(a, <<ab>>, 2)}

(***************************************************************************)
(* A repository after pushes of root and a to main, a push of b to feature *)
(* (created at root), and a merge of feature into main.                    *)
(***************************************************************************)
MergedPacks ==
  {PackOf(NoCommit, <<root>>, 2), PackOf(root, <<a>>, 2),
   PackOf(root, <<b>>, 2), PackOf(a, <<ab>>, 2)}

AgainPacks == MergedPacks \cup {PackOf(ab, <<again>>, 2)}

MergedInit ==
  /\ commits = MCCommit \ {ba}
  /\ packRanges = MergedPacks
  /\ casPacks = MergedPacks
  /\ head = (main :> ab) @@ (feature :> b)
  /\ deleted = {}
  /\ defaultBranch = main
  /\ lease = [br \in Branch |-> NoLease]
  /\ issued = 0
  /\ PushInit /\ MergeInit /\ BranchAdminInit /\ PullInit

MergedSpec == MergedInit /\ [][RackPullNext]_pullVars
=============================================================================
