----------------------------- MODULE AncestryWalk -----------------------------
(***************************************************************************)
(* FindLowestCommonAncestor step by step: collectMergeAncestry's queue for *)
(* the source, then for the target, then the loop over the source history, *)
(* a Go map, which the runtime may range over in any order.  All parents   *)
(* of a registered commit are registered (RackServer!HeadHistoryComplete), *)
(* so the walk never meets ErrCommitHistoryIncomplete.                     *)
(***************************************************************************)
EXTENDS MergeBase

VARIABLES
  pc,        \* what runs: a walk, the choice, or how the call ended
  ends,      \* the two commits of the call
  queue,     \* queuedCommit records of the walk under way
  history,   \* commit to depth, for the walks "source" and "target"
  rest,      \* commits of the source history the loop has not ranged over
  ancestor   \* the best common ancestor so far, NoCommit at first

walkVars == <<pc, ends, queue, history, rest, ancestor>>

Side == {"source", "target"}

Queued(c, d) == [id |-> c, depth |-> d]

NoHistory == [c \in {} |-> 0]

WalkInit ==
  /\ pc = "source"
  /\ ends \in [Side -> Commit]
  /\ queue = <<Queued(ends["source"], 0)>>
  /\ history = [s \in Side |-> NoHistory]
  /\ rest = {}
  /\ ancestor = NoCommit

-----------------------------------------------------------------------------
(***************************************************************************)
(* The loop of collectMergeAncestry.                                       *)
(***************************************************************************)

\* A variant that leaves the seen commit at the front of the queue.
KeepSeen ==
  /\ pc \in Side
  /\ queue # <<>>
  /\ Head(queue).id \in DOMAIN history[pc]
  /\ UNCHANGED walkVars

SkipSeen ==
  /\ pc \in Side
  /\ queue # <<>>
  /\ Head(queue).id \in DOMAIN history[pc]
  /\ queue' = Tail(queue)
  /\ UNCHANGED <<pc, ends, history, rest, ancestor>>

AtLimit(h) == Cardinality(DOMAIN h) = MaxMergeAncestryCommits

GiveUp ==
  /\ pc \in Side
  /\ queue # <<>>
  /\ Head(queue).id \notin DOMAIN history[pc]
  /\ AtLimit(history[pc])
  /\ pc' = "tooDeep"
  /\ UNCHANGED <<ends, queue, history, rest, ancestor>>

\* The parents of a commit at depth d that h does not hold yet, in order.
NewParents(c, d, h) ==
  LET upTo[i \in 0..Len(Parents[c])] ==
        IF i = 0 THEN <<>>
        ELSE IF Parents[c][i] \in DOMAIN h THEN upTo[i - 1]
        ELSE Append(upTo[i - 1], Queued(Parents[c][i], d + 1))
  IN  upTo[Len(Parents[c])]

\* A variant that walks depth first.
EnqueueFirst(q, parents) == parents \o q

Enqueue(q, parents) == q \o parents

\* history[current.id] = current.depth
Recorded(h, c) == [x \in DOMAIN h \cup {c.id} |-> IF x = c.id THEN c.depth ELSE h[x]]

Visit ==
  LET c == Head(queue)
      h == Recorded(history[pc], c)
  IN  /\ pc \in Side
      /\ queue # <<>>
      /\ c.id \notin DOMAIN history[pc]
      /\ ~AtLimit(history[pc])
      /\ history' = [history EXCEPT ![pc] = h]
      /\ queue' = Enqueue(Tail(queue), NewParents(c.id, c.depth, h))
      /\ UNCHANGED <<pc, ends, rest, ancestor>>

NextWalk ==
  /\ pc = "source"
  /\ queue = <<>>
  /\ pc' = "target"
  /\ queue' = <<Queued(ends["target"], 0)>>
  /\ UNCHANGED <<ends, history, rest, ancestor>>

StartChoice ==
  /\ pc = "target"
  /\ queue = <<>>
  /\ pc' = "choose"
  /\ rest' = DOMAIN history["source"]
  /\ UNCHANGED <<ends, queue, history, ancestor>>

-----------------------------------------------------------------------------
(***************************************************************************)
(* The choice among the common ancestors.                                  *)
(***************************************************************************)
Distance(c) == history["source"][c] + history["target"][c]

MaximumDepth(c) ==
  IF history["source"][c] > history["target"][c]
  THEN history["source"][c] ELSE history["target"][c]

\* A variant without the comparison of ids.
ImprovesWithoutIds(c) ==
  \/ ancestor = NoCommit
  \/ Distance(c) < Distance(ancestor)
  \/ /\ Distance(c) = Distance(ancestor)
     /\ MaximumDepth(c) < MaximumDepth(ancestor)

Improves(c) ==
  \/ ancestor = NoCommit
  \/ Distance(c) < Distance(ancestor)
  \/ /\ Distance(c) = Distance(ancestor)
     /\ \/ MaximumDepth(c) < MaximumDepth(ancestor)
        \/ /\ MaximumDepth(c) = MaximumDepth(ancestor)
           /\ IdRank[c] < IdRank[ancestor]

Consider ==
  /\ pc = "choose"
  /\ \E c \in rest :
       /\ rest' = rest \ {c}
       /\ ancestor' = IF c \in DOMAIN history["target"] /\ Improves(c)
                      THEN c ELSE ancestor
  /\ UNCHANGED <<pc, ends, queue, history>>

\* The answer, or ErrNoCommonAncestor when ancestor is still NoCommit.
Answer ==
  /\ pc = "choose"
  /\ rest = {}
  /\ pc' = "done"
  /\ UNCHANGED <<ends, queue, history, rest, ancestor>>

WalkNext ==
  \/ SkipSeen
  \/ GiveUp
  \/ Visit
  \/ NextWalk
  \/ StartChoice
  \/ Consider
  \/ Answer

\* A call runs until it returns.
WalkSpec == WalkInit /\ [][WalkNext]_walkVars /\ WF_walkVars(WalkNext)

-----------------------------------------------------------------------------
(***************************************************************************)
(* The queue meets every commit first along a shortest path: the depths it *)
(* records, and the choice takes for distances, are distances.             *)
(***************************************************************************)
DepthsAreShortest ==
  \A s \in Side : \A c \in DOMAIN history[s] :
    history[s][c] = Depth(ends[s], c)

(***************************************************************************)
(* Whatever the order of the map, and whenever both histories fit the      *)
(* limit, the call answers the one commit FindLowestCommonAncestor of      *)
(* MergeBase defines; it gives up only when a history does not fit.        *)
(***************************************************************************)
AnswerIsNearest ==
  /\ pc = "done" =>
       /\ ~HistoryTooDeep(ends["source"]) /\ ~HistoryTooDeep(ends["target"])
       /\ ancestor = FindLowestCommonAncestor(ends["source"], ends["target"])
  /\ pc = "tooDeep" =>
       HistoryTooDeep(ends["source"]) \/ HistoryTooDeep(ends["target"])

(***************************************************************************)
(* The call returns: commits met over several paths do not keep it going.  *)
(***************************************************************************)
WalkReturns == <>(pc \in {"done", "tooDeep"})

-----------------------------------------------------------------------------
(***************************************************************************)
(* What makes these inductive.  What is queued and what was visited lies   *)
(* on a path of its depth; the queue is in order of depth and spans two    *)
(* levels; every parent of a visited commit was visited or is queued, no   *)
(* deeper than one level below.                                            *)
(***************************************************************************)
QueuedCommit == [id : Commit, depth : Nat]

WalkTypeOK ==
  /\ pc \in Side \cup {"choose", "done", "tooDeep"}
  /\ ends \in [Side -> Commit]
  /\ queue \in Seq(QueuedCommit)
  /\ DOMAIN history = Side
  /\ \A s \in Side : /\ DOMAIN history[s] \subseteq Commit
                     /\ \A c \in DOMAIN history[s] : history[s][c] \in Nat
  /\ rest \subseteq Commit
  /\ ancestor \in Commit \cup {NoCommit}

OnPath(e, c, d) == c \in Within(e)[d]

\* c was visited, or is queued, at depth d at most.
Met(q, h, c, d) ==
  \/ c \in DOMAIN h /\ h[c] <= d
  \/ \E i \in DOMAIN q : q[i].id = c /\ q[i].depth <= d

InLevels(q) ==
  \A i, j \in DOMAIN q :
    /\ i < j => q[i].depth <= q[j].depth
    /\ q[j].depth <= q[i].depth + 1

Frontier(q, h, e) ==
  /\ \A i \in DOMAIN q : OnPath(e, q[i].id, q[i].depth)
  /\ InLevels(q)
  /\ \A c \in DOMAIN h : \A i \in DOMAIN q : h[c] <= q[i].depth
  /\ Met(q, h, e, 0)
  /\ \A c \in DOMAIN h : \A p \in ParentSet(c) : Met(q, h, p, h[c] + 1)

Shortest(h, e) ==
  \A c \in DOMAIN h :
    /\ OnPath(e, c, h[c])
    /\ \A k \in 0..(h[c] - 1) : ~OnPath(e, c, k)

\* Sides whose walk is over.
Walked == IF pc = "source" THEN {} ELSE IF pc = "target" THEN {"source"} ELSE Side

WalksInv ==
  /\ pc \in Side => Frontier(queue, history[pc], ends[pc])
  /\ pc = "source" => DOMAIN history["target"] = {}
  /\ \A s \in Side : /\ Shortest(history[s], ends[s])
                     /\ Cardinality(DOMAIN history[s]) <= MaxMergeAncestryCommits
  /\ pc # "tooDeep" =>
       \A s \in Walked : DOMAIN history[s] = Ancestry[ends[s]]

\* The choice has the nearest of the common ancestors it ranged over.
ChoiceInv ==
  LET s    == ends["source"]
      t    == ends["target"]
      seen == CommonAncestors(s, t) \ rest
  IN
  /\ pc \in Side => ancestor = NoCommit
  /\ pc = "done" => rest = {}
  /\ pc \in {"choose", "done"} =>
       /\ rest \subseteq Ancestry[s]
       /\ ancestor = NoCommit => seen = {}
       /\ ancestor # NoCommit =>
            /\ ancestor \in seen
            /\ \A b \in seen \ {ancestor} : Nearer(s, t, ancestor, b)

TooDeepInv ==
  pc = "tooDeep" => HistoryTooDeep(ends["source"]) \/ HistoryTooDeep(ends["target"])

WalkInv == WalkTypeOK /\ WalksInv /\ ChoiceInv /\ TooDeepInv
=============================================================================
