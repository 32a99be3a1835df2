---------------------------- MODULE MCAssetStore ----------------------------
(* AssetStore with one repository under one identifier, two contents of    *)
(* length one and two, so that an upload can carry the wrong one, and      *)
(* three requests.                                                         *)
EXTENDS AssetStore, TLC

CONSTANTS id1, r1, small, large, u1, u2, u3

MCSize == [b \in {small, large} |-> IF b = small THEN 1 ELSE 2]
MCRepoOf == [i \in Scope |-> r1]
UploadSymmetry == Permutations({u1, u2, u3})
=============================================================================
