------------------------------ MODULE PackFrame ------------------------------
(***************************************************************************)
(* Pack frames as PushEngine accepts them.  A pack is content addressed,   *)
(* so the record stands for its hash: base and target as the frame names   *)
(* them, the commits it carries in frame order, and its format version.    *)
(* Every commit's snapshot travels in the same pack (both validators       *)
(* refuse a frame that misses one), so objects need no field of their own. *)
(***************************************************************************)
EXTENDS CommitDag

PackFormatV2 == 2
PackFormatV3 == 3

PackRecord ==
  [base    : Commit \cup {NoCommit},
   target  : Commit,
   commits : Seq(Commit),
   format  : {PackFormatV2, PackFormatV3}]

PackCommits(p) == {p.commits[i] : i \in DOMAIN p.commits}

EndsAtTarget(p) ==
  /\ p.commits # <<>>
  /\ p.commits[Len(p.commits)] = p.target

\* The id a v2 frame expects as first parent of its i-th commit.
Previous(p, i) == IF i = 1 THEN p.base ELSE p.commits[i - 1]

(***************************************************************************)
(* PackFrameV2.validate: the commits continue the first-parent line from   *)
(* base to target; a commit without parents is only allowed first, in a    *)
(* pack with no base.                                                      *)
(***************************************************************************)
ValidV2(p) ==
  /\ EndsAtTarget(p)
  /\ \A i \in DOMAIN p.commits : FirstParent(p.commits[i]) = Previous(p, i)

(***************************************************************************)
(* PackFrameV3.validate: no commit twice (the base counts), no root commit *)
(* above a base, the last commit is the target.                            *)
(***************************************************************************)
ValidV3(p) ==
  /\ EndsAtTarget(p)
  /\ \A i \in DOMAIN p.commits :
       /\ p.commits[i] # p.base
       /\ \A j \in 1..(i - 1) : p.commits[j] # p.commits[i]
       /\ p.base # NoCommit => Parents[p.commits[i]] # <<>>

ValidFrame(p) ==
  IF p.format = PackFormatV3 THEN ValidV3(p) ELSE ValidV2(p)

\* A variant that takes any commit of the pack, later ones included.
ParentsKnownAnywhere(p, registered) ==
  \A i \in DOMAIN p.commits :
    ParentSet(p.commits[i]) \subseteq {p.base} \cup PackCommits(p) \cup registered

(***************************************************************************)
(* HandlePush's parent walk over a v3 pack: every parent is the base, an   *)
(* earlier commit of the pack, or already registered.                      *)
(***************************************************************************)
ParentsKnown(p, registered) ==
  \A i \in DOMAIN p.commits :
    ParentSet(p.commits[i]) \subseteq
      {p.base} \cup {p.commits[j] : j \in 1..(i - 1)} \cup registered
=============================================================================
