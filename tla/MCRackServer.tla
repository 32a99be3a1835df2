----------------------------- MODULE MCRackServer -----------------------------
(***************************************************************************)
(* RackServer on a small repository: a root, two commits on it, and the    *)
(* merges of the two in either order.                                      *)
(*                                                                         *)
(*            root                                                         *)
(*           /    \                                                        *)
(*          a      b                                                       *)
(*           \    /                                                        *)
(*           ab, ba       ab = merge of b into a, ba = merge of a into b   *)
(***************************************************************************)
EXTENDS RackServer, TLC

CONSTANTS root, a, b, ab, ba, main, feature

MCCommit == {root, a, b, ab, ba}

MCParents == (root :> <<>>) @@ (a :> <<root>>) @@ (b :> <<root>>)
             @@ (ab :> <<a, b>>) @@ (ba :> <<b, a>>)

MCIdRank == (root :> 1) @@ (a :> 2) @@ (b :> 3) @@ (ab :> 4) @@ (ba :> 5)

PackOf(base, cs, format) ==
  [base |-> base, target |-> cs[Len(cs)], commits |-> cs, format |-> format]

TwoPushes == Permutations(PushReq)
TwoMerges == Permutations(MergeReq)
=============================================================================
