---------------------------- MODULE MCAncestryWalk ----------------------------
(***************************************************************************)
(* A graph with two equally near merge bases (a and b for x and y), a      *)
(* merge that reaches the root over a short and a long path (z), a history *)
(* one commit over the limit of five (w) and one with nothing in common    *)
(* with the others (o).                                                    *)
(***************************************************************************)
EXTENDS AncestryWalk, TLC

CONSTANTS r, a, b, x, y, z, w, o

MCCommit == {r, a, b, x, y, z, w, o}

MCParents ==
  (r :> <<>>) @@ (o :> <<>>) @@ (a :> <<r>>) @@ (b :> <<r>>)
  @@ (x :> <<a, b>>) @@ (y :> <<b, a>>) @@ (z :> <<y, r>>) @@ (w :> <<z>>)

MCIdRank ==
  (r :> 1) @@ (a :> 3) @@ (b :> 2) @@ (x :> 4) @@ (y :> 5) @@ (z :> 6)
  @@ (w :> 7) @@ (o :> 8)
=============================================================================
