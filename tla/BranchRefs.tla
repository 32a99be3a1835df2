------------------------------ MODULE BranchRefs ------------------------------
(***************************************************************************)
(* What a client of the server may rely on about branch refs, with no      *)
(* requests, packs or transactions, as long as all packs are v2 packs: a   *)
(* branch is created once, moves only to descendants of its head, and      *)
(* while a merge lease pins it, only the merge the lease was granted for   *)
(* moves it.  The server may start over a repository with branches.        *)
(***************************************************************************)
EXTENDS CommitDag

CONSTANTS Branch, NoPin

VARIABLES
  tip,   \* head of each branch, NoCommit before it is created
  pin    \* <<target, source>> of the live lease of a branch, or NoPin

refVars == <<tip, pin>>

Init ==
  /\ tip \in [Branch -> Commit \cup {NoCommit}]
  /\ pin = [b \in Branch |-> NoPin]

Create(b) ==
  /\ tip[b] = NoCommit
  /\ \E c \in Commit : tip' = [tip EXCEPT ![b] = c]
  /\ UNCHANGED pin

\* A push or a fast-forward merge.
Advance(b) ==
  /\ tip[b] # NoCommit
  /\ pin[b] = NoPin
  /\ \E c \in Commit : /\ tip[b] \in Ancestry[c]
                       /\ tip' = [tip EXCEPT ![b] = c]
  /\ UNCHANGED pin

\* A lease is granted on the head the client previewed.
Pin(b) ==
  /\ tip[b] # NoCommit
  /\ pin[b] = NoPin
  /\ \E s \in Commit : pin' = [pin EXCEPT ![b] = <<tip[b], s>>]
  /\ UNCHANGED tip

\* It is released or expires.
Unpin(b) ==
  /\ pin[b] # NoPin
  /\ pin' = [pin EXCEPT ![b] = NoPin]
  /\ UNCHANGED tip

\* The merge it was granted for, and the lease with it.
Merge(b) ==
  /\ pin[b] # NoPin
  /\ \E c \in Commit : /\ Parents[c] = pin[b]
                       /\ tip' = [tip EXCEPT ![b] = c]
  /\ pin' = [pin EXCEPT ![b] = NoPin]

Next == \E b \in Branch : Create(b) \/ Advance(b) \/ Pin(b) \/ Unpin(b) \/ Merge(b)

Spec == Init /\ [][Next]_refVars
=============================================================================
