------------------------------ MODULE PullEngine ------------------------------
(***************************************************************************)
(* PullEngine.HandlePull: a clone (no known commit) or an incremental      *)
(* pull.  The call reads a ref, walks pack ranges back from it, fetches    *)
(* the history of merge parents, orders the packs and streams them.        *)
(*                                                                         *)
(* Pack ranges and packs in CAS are never removed and a commit is the      *)
(* target of at most one range.  So a walk that succeeds gives the same    *)
(* ranges whenever its transactions run; the walks one turn of the planner *)
(* makes are a single step here.                                           *)
(***************************************************************************)
EXTENDS RackStore

CONSTANT PullReq   \* HandlePull calls in flight

VARIABLE pull   \* the locals of each call

PullPc == {"idle", "ranges", "plan", "order", "sent"}

(***************************************************************************)
(* head and known are the two ends of the history asked for, selected and  *)
(* expanded the planner's maps, ordered the manifest so far.               *)
(***************************************************************************)
PullRecord ==
  [pc : PullPc, head : Commit \cup {NoCommit}, known : Commit \cup {NoCommit},
   selected : SUBSET Pack, expanded : SUBSET Commit, ordered : Seq(Pack)]

IdlePull == [pc |-> "idle", head |-> NoCommit, known |-> NoCommit,
             selected |-> {}, expanded |-> {}, ordered |-> <<>>]

\* The manifest names selected packs, each once.
PullTypeOK ==
  /\ pull \in [PullReq -> PullRecord]
  /\ \A q \in PullReq :
       /\ \A i \in DOMAIN pull[q].ordered : pull[q].ordered[i] \in pull[q].selected
       /\ \A i, j \in DOMAIN pull[q].ordered :
            pull[q].ordered[i] = pull[q].ordered[j] => i = j

PullInit == pull = [q \in PullReq |-> IdlePull]

PullDone(q) == pull' = [pull EXCEPT ![q] = IdlePull]

-----------------------------------------------------------------------------
(***************************************************************************)
(* GetPackRanges: from the range that ends at c, back over bases, up to a  *)
(* range whose base is the known commit.                                   *)
(***************************************************************************)
RangesTo(S) == {p \in packRanges : p.target \in S}

PackChain(c, known) ==
  LET level[n \in Nat] ==
        IF n = 0 THEN RangesTo({c})
        ELSE level[n - 1]
             \cup RangesTo({p.base : p \in level[n - 1]} \ {known})
  IN  {p \in packRanges : p \in level[Cardinality(packRanges)]}

(***************************************************************************)
(* validatePackChain: the first range ends at c, each one starts where the *)
(* next ends, and the last starts at the known commit.  (A chain that runs *)
(* in a circle has no last range: the query does not return.)              *)
(***************************************************************************)
CompleteChain(chain, c, known) ==
  /\ \E p \in chain : p.target = c
  /\ \A p \in chain : p.base = known \/ \E q \in chain : q.target = p.base
  /\ \E p \in chain : p.base = known

-----------------------------------------------------------------------------
(***************************************************************************)
(* planPullDAG.                                                            *)
(***************************************************************************)
Supplied(packs) == UNION {PackCommits(p) : p \in packs}

\* A variant that lets two packs carry the same commit.
Readable(packs) == packs \subseteq casPacks

\* Every pack can be opened and no commit is in two of them.
Selectable(packs) ==
  /\ packs \subseteq casPacks
  /\ \A p, q \in packs : p # q => PackCommits(p) \cap PackCommits(q) = {}

MergeParents(c) == {Parents[c][i] : i \in 2..Len(Parents[c])}

\* A variant that takes every merge parent for known to the client.
NothingMissing(packs, known) == {}

\* Merge parents that neither the packs nor the client have.
MissingParents(packs, known) ==
  {c \in UNION {MergeParents(d) : d \in Supplied(packs)} :
     /\ c \notin Supplied(packs)
     /\ known # NoCommit => c # known /\ ~IsAncestor(commits, c, known)}

\* The packs of the whole history of every missing parent.
Expansion(missing) == UNION {PackChain(c, NoCommit) : c \in missing}

-----------------------------------------------------------------------------
(***************************************************************************)
(* orderPullPacks: a pack is ready when the packs that hold parents of its *)
(* commits are out.  Ready packs go by hash, which is any order.           *)
(***************************************************************************)

\* A variant that only looks at the base of a pack.
DependsOnBase(p, d) == p # d /\ p.base \in PackCommits(d)

DependsOn(p, d) ==
  /\ p # d
  /\ \E c \in PackCommits(p) : ParentSet(c) \cap PackCommits(d) # {}

Sent(ordered) == {ordered[i] : i \in DOMAIN ordered}

\* A variant that leaves a pack ready when it is out.
ReadyAgain(packs, ordered) ==
  {p \in packs : \A d \in packs : DependsOn(p, d) => d \in Sent(ordered)}

Ready(packs, ordered) ==
  {p \in packs \ Sent(ordered) :
     \A d \in packs : DependsOn(p, d) => d \in Sent(ordered)}

-----------------------------------------------------------------------------
\* GetBranchRef and IsAncestor; a client that is up to date or has diverged
\* gets its answer here and the call leaves no trace.
PullReadRef(q) ==
  /\ pull[q].pc = "idle"
  /\ \E b \in Branch, known \in Commit \cup {NoCommit} :
       /\ BranchExists(b)
       /\ known # head[b]
       /\ known # NoCommit => IsAncestor(commits, known, head[b])
       /\ pull' = [pull EXCEPT ![q] = [IdlePull EXCEPT
                     !.pc = "ranges", !.head = head[b], !.known = known]]

PullGetRanges(q) ==
  LET chain == PackChain(pull[q].head, pull[q].known) IN
  /\ pull[q].pc = "ranges"
  /\ CompleteChain(chain, pull[q].head, pull[q].known)
  /\ Selectable(chain)
  /\ pull' = [pull EXCEPT ![q] = [@ EXCEPT !.pc = "plan", !.selected = chain]]

\* One turn of the planner's loop.
PullExpand(q) ==
  LET missing  == MissingParents(pull[q].selected, pull[q].known)
      selected == pull[q].selected \cup Expansion(missing)
  IN
  /\ pull[q].pc = "plan"
  /\ missing # {}
  /\ missing \cap pull[q].expanded = {}
  /\ \A c \in missing : CompleteChain(PackChain(c, NoCommit), c, NoCommit)
  /\ Selectable(selected)
  /\ pull' = [pull EXCEPT ![q] = [@ EXCEPT
                !.selected = selected, !.expanded = pull[q].expanded \cup missing]]

PullPlanned(q) ==
  /\ pull[q].pc = "plan"
  /\ MissingParents(pull[q].selected, pull[q].known) = {}
  /\ pull' = [pull EXCEPT ![q] = [@ EXCEPT !.pc = "order"]]

PullOrder(q) ==
  /\ pull[q].pc = "order"
  /\ \E p \in Ready(pull[q].selected, pull[q].ordered) :
       pull' = [pull EXCEPT ![q] = [@ EXCEPT !.ordered = Append(pull[q].ordered, p)]]

\* A variant that does not look for packs left over.
PullStreamSome(q) ==
  /\ pull[q].pc = "order"
  /\ pull[q].ordered # <<>>
  /\ pull[q].selected \subseteq casPacks
  /\ pull' = [pull EXCEPT ![q] = [@ EXCEPT !.pc = "sent"]]

\* BuildPullManifest and StreamPull read the packs again and send them.
PullStream(q) ==
  /\ pull[q].pc = "order"
  /\ Sent(pull[q].ordered) = pull[q].selected
  /\ pull[q].selected \subseteq casPacks
  /\ pull' = [pull EXCEPT ![q] = [@ EXCEPT !.pc = "sent"]]

\* The answer was sent, a check above failed, or the client went away.
PullEnd(q) ==
  /\ pull[q].pc # "idle"
  /\ PullDone(q)

PullStep(q) ==
  \/ PullReadRef(q)
  \/ PullGetRanges(q)
  \/ PullExpand(q)
  \/ PullPlanned(q)
  \/ PullOrder(q)
  \/ PullStream(q)
  \/ PullEnd(q)

PullNext == (\E q \in PullReq : PullStep(q)) /\ UNCHANGED storeVars

-----------------------------------------------------------------------------
(***************************************************************************)
(* UnmarshalPullEnvelopeV2, the decoder of what was sent: no commit twice, *)
(* the head is the target of the last pack (and so of no other), and every *)
(* merge parent is in the envelope.                                        *)
(***************************************************************************)
Decodes(c, packs) ==
  /\ packs # <<>>
  /\ packs[Len(packs)].target = c
  /\ \A i, j \in DOMAIN packs :
       i # j => PackCommits(packs[i]) \cap PackCommits(packs[j]) = {}
  /\ \A d \in Supplied(Sent(packs)) : MergeParents(d) \subseteq Supplied(Sent(packs))
=============================================================================
