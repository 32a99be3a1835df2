---------------------------- MODULE MCNativeRack ----------------------------
(* NativeRack on a chain root, a, b.  The snapshot of b is that of a, so   *)
(* the pack of b alone needs an object of another pack.                    *)
EXTENDS NativeRack, TLC

CONSTANTS root, a, b, s0, s1, main, dev, pa, pb, pab, xa, xb, xab, c1, c2

MCParents == (root :> <<>>) @@ (a :> <<root>>) @@ (b :> <<a>>)
MCSnapshotOf == (root :> s0) @@ (a :> s1) @@ (b :> s1)
MCContent == (xa :> {a, s1}) @@ (xb :> {b}) @@ (xab :> {a, b, s1})

Push(p, x, br, base, cs) ==
  [pack |-> p, blob |-> x, branch |-> br, base |-> base, commits |-> cs]

PushA == Push(pa, xa, main, root, <<a>>)
PushB == Push(pb, xb, main, a, <<b>>)
\* a and b in one pack.
PushBoth == Push(pab, xab, main, root, <<a, b>>)
\* The id of PushA for another branch.
PushElsewhere == Push(pa, xa, dev, root, <<a>>)
\* The bytes of PushA under another id, indexed for no commit.
IndexSame == Push(pab, xa, main, root, <<>>)

MCRequest == {PushA, PushB, PushBoth, PushElsewhere, IndexSame}
MCAuditRecord == {[commit |-> b, object |-> s1]}

\* root is a native commit and the head of both branches.
ChainInit ==
  /\ Init
  /\ format = [c \in Commit |-> IF c = root THEN CommitFormatNative ELSE Unregistered]
  /\ head = [br \in Branch |-> root]

ChainSpec == ChainInit /\ [][Next]_vars

CallSymmetry == Permutations(Call)
=============================================================================
