-------------------------- MODULE NativeRack_proofs --------------------------
(***************************************************************************)
(* The properties of NativeRack for any commits, packs, requests and       *)
(* number of calls.                                                        *)
(***************************************************************************)
EXTENDS NativeRack, CommitDag_proofs

(***************************************************************************)
(* The commits from c back to base over first parents: the least set that  *)
(* holds c and the first parents of its members, except of base.           *)
(***************************************************************************)
ClosedDownTo(base, S) ==
  \A x \in S : x # base /\ FirstParent(x) \in Commit => FirstParent(x) \in S

ChainTo(base, c) ==
  {d \in Commit : \A S \in SUBSET Commit : c \in S /\ ClosedDownTo(base, S) => d \in S}

\* What a call has verified of a request after n commits: they lead, by
\* first parents, from the last of them to the base.
FirstCommits(req, n) == {req.commits[i] : i \in 1..n}
LastOf(req, n) == IF n = 0 THEN req.base ELSE req.commits[n]

Linked(req, n) ==
  /\ \A x \in FirstCommits(req, n) : FirstParent(x) \in FirstCommits(req, n) \cup {req.base}
  /\ FirstCommits(req, n) \subseteq ChainTo(req.base, LastOf(req, n))
  /\ req.base \in Ancestry[LastOf(req, n)]
  /\ n # 0 => LastOf(req, n) # req.base

(***************************************************************************)
(* The ledger is true for ever: a published target stays in the history of *)
(* its branch, and what was published with it is native.                   *)
(***************************************************************************)
LedgerHolds ==
  \A p \in Pack : ledger[p] # NoRow =>
    /\ ledger[p].target \in Ancestry[head[ledger[p].branch]]
    /\ \A d \in ChainTo(ledger[p].base, ledger[p].target) : format[d] = CommitFormatNative

Verifying == {"verify", "open", "publish"}
Answered == {"published", "ok"}

CallHolds(c) ==
  LET req == call[c].req
      n == call[c].verified
  IN  /\ call[c].pc \in {"anchor", "base"} \cup Verifying \cup Answered => req.commits # <<>>
      /\ call[c].pc \in {"idle", "index", "anchor", "base"} => n = 0
      /\ call[c].pc \in {"verify", "open"} => n < Len(req.commits)
      /\ call[c].pc = "open" => /\ FirstParent(req.commits[n + 1]) = LastOf(req, n)
                                /\ call[c].opening \in Blob
                                /\ SnapshotOf[req.commits[n + 1]] \in Content[call[c].opening]
      /\ call[c].pc = "publish" => n = Len(req.commits)
      /\ call[c].pc \in Verifying =>
           format[req.base] = CommitFormatNative /\ Linked(req, n)
      /\ call[c].pc \in Answered =>
           /\ ledger[req.pack] = EntryOf(req)
           /\ CommitsOf(req) \subseteq ChainTo(req.base, TargetOf(req))

(***************************************************************************)
(* The index: a location names an indexed pack that carries the object.     *)
(***************************************************************************)
LocationsIndexed ==
  \A o \in Object : location[o] # NoPack =>
    /\ packRow[location[o]] # NoRow
    /\ o \in Content[packRow[location[o]].blob]

(***************************************************************************)
(* The pass: its commits hold the history it read, and no candidate is in  *)
(* that history or retained, nor is the blob it deletes.                   *)
(***************************************************************************)
Reading == {"anchors", "audit", "index", "packs"}

CandidateHolds(x) ==
  /\ packRow[x.pack] # NoRow /\ packRow[x.pack].blob = x.blob
  /\ \A d \in pass.branches : packRow[x.pack].commit \notin Ancestry[d]
  /\ \A r \in pass.retained : r.pack # x.pack

PassHolds ==
  /\ pass.pc \in Reading =>
       \A d \in pass.branches : Ancestry[d] \subseteq pass.commits
  /\ pass.pc \in Reading \cup {"idle"} => pass.retained = {} /\ pass.candidates = {}
  /\ \A x \in pass.candidates : CandidateHolds(x)
  /\ pass.pc = "blob" =>
       /\ pass.deleting \in Blob
       /\ \A r \in pass.retained : r.blob # pass.deleting

NativeInv ==
  /\ NativeTypeOK
  /\ LedgerHolds
  /\ \A c \in Call : CallHolds(c)
  /\ LocationsIndexed
  /\ PassHolds

-----------------------------------------------------------------------------
(* Chains of first parents.                                                *)

LEMMA RequestTyped ==
  ASSUME NEW req \in Request
  PROVE  /\ req.pack \in Pack /\ req.blob \in Blob /\ req.branch \in Branch
         /\ req.base \in Commit /\ req.commits \in Seq(Commit)
         /\ CommitsOf(req) \subseteq Commit
         /\ TargetOf(req) \in Commit \cup {NoCommit}
         /\ RowOf(req) \in PackRow
         /\ req.commits # <<>> => /\ TargetOf(req) \in CommitsOf(req)
                                  /\ EntryOf(req) \in Entry
                                  /\ TargetOf(req) = LastOf(req, Len(req.commits))
                                  /\ CommitsOf(req) = FirstCommits(req, Len(req.commits))
<1>1. /\ req.pack \in Pack /\ req.blob \in Blob /\ req.branch \in Branch
      /\ req.base \in Commit /\ req.commits \in Seq(Commit)
  BY NativeAssumption DEF PushRequest
<1>2. CommitsOf(req) \subseteq Commit
  BY <1>1 DEF CommitsOf
<1>3. ASSUME req.commits # <<>>
      PROVE  /\ Len(req.commits) \in DOMAIN req.commits
             /\ Len(req.commits) # 0
             /\ TargetOf(req) = req.commits[Len(req.commits)]
  BY <1>1, <1>3 DEF TargetOf
<1>4. req.commits # <<>> => /\ TargetOf(req) \in CommitsOf(req)
                            /\ TargetOf(req) = LastOf(req, Len(req.commits))
                            /\ CommitsOf(req) = FirstCommits(req, Len(req.commits))
  BY <1>1, <1>3 DEF CommitsOf, FirstCommits, LastOf
<1>5. TargetOf(req) \in Commit \cup {NoCommit}
  BY <1>2, <1>4 DEF TargetOf
<1>6. RowOf(req) \in PackRow /\ (req.commits # <<>> => EntryOf(req) \in Entry)
  BY <1>1, <1>2, <1>4, <1>5 DEF RowOf, PackRow, EntryOf, Entry
<1> QED BY <1>1, <1>2, <1>4, <1>5, <1>6

LEMMA LinkedStart ==
  ASSUME NEW req \in Request
  PROVE  Linked(req, 0)
<1>1. req.base \in Commit /\ FirstCommits(req, 0) = {} /\ LastOf(req, 0) = req.base
  BY RequestTyped DEF FirstCommits, LastOf
<1> QED BY <1>1, AncestryTyped DEF Linked

\* A commit whose first parent is the last verified one lengthens the chain:
\* it is not the base, which its parent descends from.
LEMMA LinkedNext ==
  ASSUME NEW req \in Request, NEW n \in Nat, n < Len(req.commits), Linked(req, n),
         FirstParent(req.commits[n + 1]) = LastOf(req, n)
  PROVE  Linked(req, n + 1)
<1> DEFINE next == req.commits[n + 1]
           prev == LastOf(req, n)
           base == req.base
<1>1. /\ next \in Commit /\ prev \in Commit /\ base \in Commit
      /\ FirstCommits(req, n + 1) = FirstCommits(req, n) \cup {next}
      /\ LastOf(req, n + 1) = next
      /\ prev \in FirstCommits(req, n) \cup {base}
  <2>1. base \in Commit /\ req.commits \in Seq(Commit)
    BY RequestTyped
  <2>2. next \in Commit /\ prev \in Commit
    BY <2>1 DEF LastOf
  <2>3. 1..(n + 1) = (1..n) \cup {n + 1}
    OBVIOUS
  <2>4. FirstCommits(req, n + 1) = FirstCommits(req, n) \cup {next}
    BY <2>3 DEF FirstCommits
  <2>5. prev \in FirstCommits(req, n) \cup {base}
    BY DEF LastOf, FirstCommits
  <2>6. LastOf(req, n + 1) = next
    BY DEF LastOf
  <2> QED BY <2>1, <2>2, <2>4, <2>5, <2>6
<1>2. FirstParent(next) = prev
  OBVIOUS
<1>3. /\ \A x \in FirstCommits(req, n) : FirstParent(x) \in FirstCommits(req, n) \cup {base}
      /\ FirstCommits(req, n) \subseteq ChainTo(base, prev)
      /\ base \in Ancestry[prev]
  BY DEF Linked
<1> HIDE DEF next, prev, base
<1>4. prev \in ParentSet(next)
  BY <1>1, <1>2, CommitDagAssumption DEF FirstParent, ParentSet
<1>5. base \in Ancestry[next]
  BY <1>1, <1>3, <1>4, ParentIsAncestor, AncestryTransitive
<1>6. next # base
  BY <1>1, <1>3, <1>4, ContentAddressed
<1>7. ChainTo(base, prev) \cup {next} \subseteq ChainTo(base, next)
  BY <1>1, <1>2, <1>6 DEF ChainTo, ClosedDownTo
<1>8. /\ \A x \in FirstCommits(req, n + 1) : FirstParent(x) \in FirstCommits(req, n + 1) \cup {base}
      /\ FirstCommits(req, n + 1) \subseteq ChainTo(base, LastOf(req, n + 1))
      /\ base \in Ancestry[LastOf(req, n + 1)]
      /\ LastOf(req, n + 1) # base
  BY <1>1, <1>2, <1>3, <1>5, <1>6, <1>7
<1> QED BY <1>8 DEF Linked, base

\* The chain of a request that is verified to its end.
LEMMA LinkedEnd ==
  ASSUME NEW req \in Request, req.commits # <<>>, Linked(req, Len(req.commits))
  PROVE  /\ req.base \in Ancestry[TargetOf(req)] /\ TargetOf(req) # req.base
         /\ CommitsOf(req) \subseteq ChainTo(req.base, TargetOf(req))
         /\ ChainTo(req.base, TargetOf(req)) \subseteq CommitsOf(req) \cup {req.base}
<1> DEFINE S == CommitsOf(req) \cup {req.base}
<1>1. /\ TargetOf(req) \in S /\ S \in SUBSET Commit
      /\ TargetOf(req) = LastOf(req, Len(req.commits))
      /\ CommitsOf(req) = FirstCommits(req, Len(req.commits))
  BY RequestTyped
<1>2. ClosedDownTo(req.base, S)
  BY <1>1 DEF Linked, ClosedDownTo
<1>3. ChainTo(req.base, TargetOf(req)) \subseteq S
  BY <1>1, <1>2 DEF ChainTo
<1>4. Len(req.commits) # 0
  BY RequestTyped
<1> QED BY <1>1, <1>3, <1>4 DEF Linked

-----------------------------------------------------------------------------
(* How the calls move.                                                     *)

LEMMA CallTyped ==
  ASSUME NativeTypeOK, NEW c \in Call
  PROVE  /\ call[c].req \in Request /\ call[c].pc \in CallPhase
         /\ call[c].verified \in Nat /\ call[c].opening \in Blob \cup {NoBlob}
BY DEF NativeTypeOK, CallRecord

\* Only call c moves, to a phase, with n commits verified.
MovesTo(c, phase, n) ==
  /\ call' \in [Call -> CallRecord]
  /\ call'[c].pc = phase
  /\ call'[c].verified = n
  /\ \A d \in Call : /\ call'[d].req = call[d].req
                     /\ d # c => call'[d] = call[d]

LEMMA GoToMoves ==
  ASSUME NativeTypeOK, NEW c \in Call, NEW phase \in CallPhase, GoTo(c, phase)
  PROVE  MovesTo(c, phase, call[c].verified) /\ call'[c].opening = call[c].opening
BY DEF NativeTypeOK, CallRecord, GoTo, MovesTo

LEMMA PassedMoves ==
  ASSUME NativeTypeOK, NEW c \in Call, call' = Passed(c)
  PROVE  MovesTo(c, IF call[c].verified + 1 = Len(call[c].req.commits)
                    THEN "publish" ELSE "verify", call[c].verified + 1)
<1> DEFINE n == call[c].verified + 1
           phase == IF n = Len(call[c].req.commits) THEN "publish" ELSE "verify"
           rec == [call[c] EXCEPT !.pc = phase, !.verified = n, !.opening = NoBlob]
<1>1. call \in [Call -> CallRecord] /\ n \in Nat
  BY CallTyped DEF NativeTypeOK
<1>2. phase \in CallPhase
  BY DEF CallPhase
<1>3. call' = [call EXCEPT ![c].pc = phase, ![c].verified = n, ![c].opening = NoBlob]
  BY Zenon DEF Passed
<1> HIDE DEF n, phase
<1>4. call' = [call EXCEPT ![c] = rec]
  BY <1>1, <1>3
<1>5. call[c] \in CallRecord
  BY <1>1
<1>6. /\ rec \in CallRecord /\ rec.pc = phase
      /\ rec.verified = n /\ rec.req = call[c].req
  BY <1>1, <1>2, <1>5 DEF CallRecord
<1> HIDE DEF rec
<1>7. call' \in [Call -> CallRecord]
  BY <1>1, <1>4, <1>6
<1>8. call'[c] = rec /\ \A d \in Call \ {c} : call'[d] = call[d]
  BY <1>1, <1>4
<1>9. MovesTo(c, phase, n)
  BY <1>6, <1>7, <1>8 DEF MovesTo
<1> QED BY <1>9 DEF phase, n

\* What a call holds is kept by whatever leaves it alone, lets native
\* commits be native and ledger rows stand.
LEMMA CallKept ==
  ASSUME NativeTypeOK, NEW d \in Call, CallHolds(d), call'[d] = call[d],
         \A x \in Commit : format[x] = CommitFormatNative => format'[x] = CommitFormatNative,
         \A p \in Pack : ledger[p] # NoRow => ledger'[p] = ledger[p]
  PROVE  CallHolds(d)'
<1> DEFINE req == call[d].req
<1>1. req \in Request /\ req.base \in Commit /\ req.pack \in Pack
  BY CallTyped, RequestTyped
<1>2. req.commits # <<>> => EntryOf(req) # NoRow
  BY <1>1, RequestTyped, NativeAssumption DEF Entry
<1>3. call[d].pc \in Answered => ledger[req.pack] # NoRow
  BY <1>2 DEF CallHolds
<1> QED BY <1>1, <1>3 DEF CallHolds

\* The same when a call goes on and leaves commits and ledger alone.
LEMMA CallsKept ==
  ASSUME NativeInv, UNCHANGED <<format, ledger>>, NEW c \in Call,
         NEW phase, NEW n, MovesTo(c, phase, n), CallHolds(c)'
  PROVE  \A d \in Call : CallHolds(d)'
BY CallKept DEF NativeInv, MovesTo

-----------------------------------------------------------------------------
(* What leaves the index, the pass and the ledger as they are.             *)

LEMMA LedgerKept ==
  ASSUME LedgerHolds, UNCHANGED <<head, ledger>>, ledger \in [Pack -> Entry \cup {NoRow}],
         \A x \in Commit : format[x] = CommitFormatNative => format'[x] = CommitFormatNative
  PROVE  LedgerHolds'
BY DEF LedgerHolds, ChainTo

LEMMA PassKept ==
  ASSUME PassHolds, UNCHANGED <<pass, packRow>>
  PROVE  PassHolds'
BY DEF PassHolds, CandidateHolds

LEMMA IndexKept ==
  ASSUME LocationsIndexed, UNCHANGED <<packRow, location>>
  PROVE  LocationsIndexed'
BY DEF LocationsIndexed

-----------------------------------------------------------------------------
(* The steps of a call.                                                    *)

\* A step that moves its call, and an anchor at most.
LEMMA QuietStep ==
  ASSUME NativeInv, NEW c \in Call, NEW phase, NEW n, phase # "index",
         MovesTo(c, phase, n),
         UNCHANGED <<commitVars, indexVars, blobs, records, pass>>,
         anchor' \in [Pack -> Commit \cup {NoCommit}],
         CallHolds(c)'
  PROVE  NativeInv'
<1>1. NativeTypeOK'
  BY DEF NativeInv, NativeTypeOK, MovesTo, commitVars, indexVars
<1>2. LedgerHolds'
  BY LedgerKept DEF NativeInv, NativeTypeOK, commitVars
<1>3. \A d \in Call : CallHolds(d)'
  BY CallsKept DEF commitVars
<1>4. LocationsIndexed'
  BY IndexKept DEF NativeInv, indexVars
<1>5. PassHolds'
  BY PassKept DEF NativeInv, indexVars
<1> QED BY <1>1, <1>2, <1>3, <1>4, <1>5 DEF NativeInv

LEMMA PutActiveTransactionKeeps ==
  ASSUME NativeInv, NEW c \in Call, PutActiveTransaction(c)
  PROVE  NativeInv'
<1>1. MovesTo(c, "base", call[c].verified)
  BY GoToMoves DEF PutActiveTransaction, NativeInv, CallPhase
<1>2. CallHolds(c)'
  BY <1>1 DEF NativeInv, CallHolds, MovesTo, PutActiveTransaction, At, Verifying, Answered
<1>3. anchor' \in [Pack -> Commit \cup {NoCommit}]
  BY CallTyped, RequestTyped DEF NativeInv, NativeTypeOK, PutActiveTransaction
<1> QED BY <1>1, <1>2, <1>3, QuietStep DEF PutActiveTransaction

LEMMA VerifyBaseKeeps ==
  ASSUME NativeInv, NEW c \in Call, VerifyBase(c)
  PROVE  NativeInv'
<1> DEFINE phase == IF /\ CommitsOf(call[c].req) \subseteq Content[call[c].req.blob]
                       /\ format[call[c].req.base] = CommitFormatNative
                    THEN "verify" ELSE "rejected"
<1>1. /\ At(c, "base") /\ GoTo(c, phase)
      /\ UNCHANGED <<commitVars, indexVars, blobs, rootVars, pass>>
  BY DEF VerifyBase
<1>2. MovesTo(c, phase, call[c].verified)
  BY <1>1, GoToMoves DEF NativeInv, CallPhase
<1>3. CallHolds(c)'
  <2>1. /\ call[c].req.commits # <<>> /\ call[c].verified = 0
        /\ call[c].req \in Request
    BY <1>1, CallTyped DEF NativeInv, CallHolds, At
  <2>2. Len(call[c].req.commits) > 0 /\ Linked(call[c].req, 0)
    BY <2>1, RequestTyped, LinkedStart
  <2>3. CASE phase = "verify"
    BY <1>1, <1>2, <2>1, <2>2, <2>3
    DEF CallHolds, MovesTo, Verifying, Answered, commitVars
  <2>4. CASE phase = "rejected"
    BY <1>2, <2>4 DEF CallHolds, MovesTo, Verifying, Answered
  <2> QED BY <2>3, <2>4
<1>4. phase # "index"
  OBVIOUS
<1> HIDE DEF phase
<1> QED BY <1>1, <1>2, <1>3, <1>4, QuietStep DEF rootVars, NativeInv, NativeTypeOK

\* One more commit has passed.
LEMMA PassedHolds ==
  ASSUME NativeInv, NEW c \in Call, call[c].pc \in {"verify", "open"},
         FirstParent(call[c].req.commits[call[c].verified + 1])
           = LastOf(call[c].req, call[c].verified),
         call' = Passed(c), UNCHANGED <<format, ledger>>
  PROVE  \E phase \in {"publish", "verify"} :
           MovesTo(c, phase, call[c].verified + 1) /\ CallHolds(c)'
<1> DEFINE req == call[c].req
           n == call[c].verified
           phase == IF n + 1 = Len(req.commits) THEN "publish" ELSE "verify"
<1>1. /\ req \in Request /\ n \in Nat /\ n < Len(req.commits)
      /\ req.commits # <<>> /\ Linked(req, n)
      /\ format[req.base] = CommitFormatNative
  BY CallTyped DEF NativeInv, CallHolds, Verifying
<1>2. Linked(req, n + 1) /\ Len(req.commits) \in Nat
  <2>1. FirstParent(req.commits[n + 1]) = LastOf(req, n)
    OBVIOUS
  <2> HIDE DEF req, n
  <2>2. Linked(req, n + 1)
    BY <1>1, <2>1, LinkedNext
  <2>3. Len(req.commits) \in Nat
    BY <1>1, RequestTyped
  <2> QED BY <2>2, <2>3
<1>3. MovesTo(c, phase, n + 1)
  BY PassedMoves DEF NativeInv
<1>4. CallHolds(c)'
  BY <1>1, <1>2, <1>3 DEF CallHolds, MovesTo, Verifying, Answered
<1> QED BY <1>3, <1>4

LEMMA VerifyCommitKeeps ==
  ASSUME NativeInv, NEW c \in Call, VerifyCommit(c) \/ OpenSnapshot(c)
  PROVE  NativeInv'
<1> DEFINE next == call[c].req.commits[call[c].verified + 1]
           prev == LastOf(call[c].req, call[c].verified)
           x == packRow[location[SnapshotOf[next]]].blob
<1>1. UNCHANGED <<commitVars, indexVars, blobs, rootVars, pass>>
  BY DEF VerifyCommit, OpenSnapshot
<1>2. call[c].pc \in {"verify", "open"}
  BY DEF VerifyCommit, OpenSnapshot, At
<1>3. /\ anchor' \in [Pack -> Commit \cup {NoCommit}] /\ UNCHANGED records
      /\ UNCHANGED <<format, ledger>>
  BY <1>1 DEF rootVars, commitVars, NativeInv, NativeTypeOK
<1>4. CASE GoTo(c, "rejected")
  <2>1. MovesTo(c, "rejected", call[c].verified)
    BY <1>4, GoToMoves DEF NativeInv, CallPhase
  <2>2. CallHolds(c)'
    BY <2>1 DEF CallHolds, MovesTo, Verifying, Answered
  <2> QED BY <1>1, <1>3, <2>1, <2>2, QuietStep
<1>5. CASE call' = Passed(c) /\ FirstParent(next) = prev
  <2>1. PICK phase \in {"publish", "verify"} :
          MovesTo(c, phase, call[c].verified + 1) /\ CallHolds(c)'
    BY <1>2, <1>3, <1>5, PassedHolds
  <2> QED BY <1>1, <1>3, <2>1, QuietStep
<1>6. CASE /\ At(c, "verify") /\ FirstParent(next) = prev
           /\ location[SnapshotOf[next]] # NoPack
           /\ call' = [call EXCEPT ![c].pc = "open", ![c].opening = x]
  <2>1. next \in Commit
    <3>1. /\ call[c].verified < Len(call[c].req.commits) /\ call[c].verified \in Nat
          /\ call[c].req.commits \in Seq(Commit)
      BY <1>6, CallTyped, RequestTyped DEF NativeInv, CallHolds, At
    <3> QED BY <3>1
  <2>2. x \in Blob /\ SnapshotOf[next] \in Content[x]
    <3>1. SnapshotOf[next] \in Object
      BY <2>1, NativeAssumption DEF Object
    <3> QED BY <1>6, <3>1 DEF NativeInv, NativeTypeOK, LocationsIndexed, PackRow
  <2> HIDE DEF x
  <2>3. MovesTo(c, "open", call[c].verified) /\ call'[c].opening = x
    <3> DEFINE rec == [call[c] EXCEPT !.pc = "open", !.opening = x]
    <3>1. call \in [Call -> CallRecord] /\ call[c] \in CallRecord
      BY DEF NativeInv, NativeTypeOK
    <3>2. /\ rec \in CallRecord /\ rec.pc = "open" /\ rec.opening = x
          /\ rec.verified = call[c].verified /\ rec.req = call[c].req
      BY <2>2, <3>1 DEF CallRecord, CallPhase
    <3>3. call' = [call EXCEPT ![c] = rec]
      BY <1>6, <3>1
    <3> HIDE DEF rec
    <3>4. /\ call' \in [Call -> CallRecord] /\ call'[c] = rec
          /\ \A d \in Call \ {c} : call'[d] = call[d]
      BY <3>1, <3>2, <3>3
    <3> QED BY <3>2, <3>4 DEF MovesTo
  <2>4. CallHolds(c)'
    BY <1>3, <1>6, <2>2, <2>3 DEF NativeInv, CallHolds, MovesTo, At, Verifying, Answered
  <2> QED BY <1>1, <1>3, <2>3, <2>4, QuietStep
<1>7. CASE VerifyCommit(c)
  <2>1. next = NextCommit(c) /\ prev = Previous(c)
    BY DEF NextCommit, Previous, LastOf
  <2> QED BY <1>4, <1>5, <1>6, <1>7, <2>1 DEF VerifyCommit, Connected, GoTo
<1>8. CASE OpenSnapshot(c)
  <2>1. FirstParent(next) = prev
    BY <1>8 DEF OpenSnapshot, At, NativeInv, CallHolds
  <2> QED BY <1>4, <1>5, <1>8, <2>1 DEF OpenSnapshot, GoTo
<1> QED BY <1>7, <1>8

LEMMA EndKeeps ==
  ASSUME NativeInv, NEW c \in Call,
         \/ DeleteActiveTransaction(c) \/ ReleaseFails(c) \/ StepFails(c) \/ CallLost(c)
  PROVE  NativeInv'
<1>1. PICK phase \in {"ok", "refused", "abandoned", "rejected"} :
        GoTo(c, phase) /\ (phase = "ok" => At(c, "published"))
  BY DEF DeleteActiveTransaction, ReleaseFails, StepFails, CallLost, Answer
<1>2. MovesTo(c, phase, call[c].verified)
  BY <1>1, GoToMoves DEF NativeInv, CallPhase, Ended
<1>3. /\ UNCHANGED <<commitVars, indexVars, blobs, records, pass>>
      /\ anchor' \in [Pack -> Commit \cup {NoCommit}]
  BY CallTyped, RequestTyped DEF DeleteActiveTransaction, ReleaseFails, StepFails, CallLost,
     rootVars, NativeInv, NativeTypeOK
<1>4. CallHolds(c)'
  BY <1>1, <1>2, <1>3 DEF NativeInv, CallHolds, MovesTo, At, Verifying, Answered, commitVars
<1> QED BY <1>1, <1>2, <1>3, <1>4, QuietStep

LEMMA WritePackKeeps ==
  ASSUME NativeInv, NEW c \in Call, WritePack(c)
  PROVE  NativeInv'
<1>1. MovesTo(c, "index", call[c].verified) /\ UNCHANGED <<format, ledger>>
  BY GoToMoves DEF WritePack, NativeInv, CallPhase, commitVars
<1>2. NativeTypeOK'
  BY <1>1, CallTyped, RequestTyped
  DEF WritePack, NativeInv, NativeTypeOK, MovesTo, commitVars, indexVars, rootVars
<1>3. LedgerHolds'
  BY LedgerKept DEF WritePack, NativeInv, NativeTypeOK, commitVars
<1>4. CallHolds(c)'
  BY <1>1 DEF WritePack, NativeInv, CallHolds, MovesTo, At, Verifying, Answered
<1>5. \A d \in Call : CallHolds(d)'
  BY <1>1, <1>4, CallsKept
<1>6. LocationsIndexed'
  BY IndexKept DEF WritePack, NativeInv, indexVars
<1>7. PassHolds'
  BY PassKept DEF WritePack, NativeInv, indexVars
<1> QED BY <1>2, <1>3, <1>5, <1>6, <1>7 DEF NativeInv

LEMMA PutNativePackKeeps ==
  ASSUME NativeInv, NEW c \in Call, PutNativePack(c)
  PROVE  NativeInv'
<1> DEFINE req == call[c].req
           phase == IF req.commits = <<>> THEN "indexed" ELSE "anchor"
<1>1. /\ UNCHANGED <<commitVars, blobs, rootVars, pass>>
      /\ At(c, "index")
      /\ req \in Request /\ req.pack \in Pack /\ RowOf(req) \in PackRow
      /\ RowOf(req) # NoRow /\ RowOf(req).blob = req.blob
  BY CallTyped, RequestTyped, NativeAssumption DEF PutNativePack, NativeInv, PackRow, RowOf
<1>2. CASE ~Indexable(req)
  <2>1. MovesTo(c, "refused", call[c].verified) /\ UNCHANGED indexVars
    BY <1>2, GoToMoves DEF PutNativePack, NativeInv, CallPhase, Ended
  <2>2. CallHolds(c)'
    BY <2>1 DEF CallHolds, MovesTo, Verifying, Answered
  <2> QED BY <1>1, <2>1, <2>2, QuietStep DEF rootVars, NativeInv, NativeTypeOK
<1>3. CASE Indexable(req)
  <2>1. /\ packRow' = [packRow EXCEPT ![req.pack] = RowOf(req)]
        /\ location' = Located(req)
        /\ MovesTo(c, phase, call[c].verified)
    BY <1>3, GoToMoves DEF PutNativePack, NativeInv, CallPhase, Ended
  <2>2. /\ packRow'[req.pack] = RowOf(req)
        /\ \A p \in Pack : packRow[p] # NoRow => packRow'[p] = packRow[p]
        /\ \A p \in Pack : p # req.pack => packRow'[p] = packRow[p]
    BY <1>1, <1>3, <2>1 DEF Indexable, NativeInv, NativeTypeOK
  <2>3. \A o \in Object : /\ location[o] # NoPack => location'[o] = location[o]
                          /\ location[o] = NoPack => location'[o] \in {req.pack, NoPack}
                          /\ location[o] = NoPack /\ location'[o] = req.pack
                               => o \in Content[req.blob]
                          /\ o \in Content[req.blob] => location'[o] # NoPack
    BY <1>1, <2>1, NativeAssumption DEF Located
  <2>4. NativeTypeOK'
    <3>1. packRow' \in [Pack -> PackRow \cup {NoRow}]
      BY <1>1, <2>1 DEF NativeInv, NativeTypeOK
    <3>2. location' \in [Object -> Pack \cup {NoPack}]
      BY <1>1, <2>1 DEF NativeInv, NativeTypeOK, Located
    <3> QED BY <1>1, <2>1, <3>1, <3>2
        DEF NativeInv, NativeTypeOK, MovesTo, commitVars, rootVars
  <2>5. LedgerHolds'
    BY <1>1, LedgerKept DEF NativeInv, NativeTypeOK, commitVars
  <2>6. CallHolds(c)'
    BY <1>1, <2>1 DEF NativeInv, CallHolds, MovesTo, At, Verifying, Answered
  <2>7. \A d \in Call : CallHolds(d)'
    BY <1>1, <2>1, <2>6, CallsKept DEF commitVars
  <2> HIDE DEF phase
  <2>8. LocationsIndexed'
    <3> SUFFICES ASSUME NEW o \in Object, location'[o] # NoPack
                 PROVE  /\ packRow'[location'[o]] # NoRow
                        /\ o \in Content[packRow'[location'[o]].blob]
      BY DEF LocationsIndexed
    <3>1. CASE location[o] # NoPack
      <4>1. /\ location[o] \in Pack /\ packRow[location[o]] # NoRow
            /\ o \in Content[packRow[location[o]].blob]
        BY <3>1 DEF NativeInv, NativeTypeOK, LocationsIndexed
      <4> QED BY <2>2, <2>3, <3>1, <4>1
    <3>2. CASE location[o] = NoPack
      BY <1>1, <2>2, <2>3, <3>2
    <3> QED BY <3>1, <3>2
  <2>9. PassHolds'
    <3>1. ASSUME NEW x \in pass.candidates
          PROVE  CandidateHolds(x)'
      <4>1. CandidateHolds(x) /\ x.pack \in Pack
        BY DEF NativeInv, NativeTypeOK, PassHolds, PassRecord, PackRef
      <4> QED BY <1>1, <2>2, <4>1 DEF CandidateHolds
    <3> QED BY <1>1, <3>1 DEF NativeInv, PassHolds
  <2> QED BY <2>4, <2>5, <2>7, <2>8, <2>9 DEF NativeInv
<1> QED BY <1>2, <1>3

LEMMA PublishKeeps ==
  ASSUME NativeInv, NEW c \in Call, Publish(c)
  PROVE  /\ NativeInv'
         /\ \A b \in Branch : head'[b] # head[b] =>
              /\ head[b] \in Ancestry[head'[b]]
              /\ \E p \in Pack : /\ ledger[p] = NoRow
                                 /\ ledger'[p] = [branch |-> b, base |-> head[b],
                                                  target |-> head'[b]]
<1> DEFINE req == call[c].req
           target == TargetOf(req)
<1>1. /\ req \in Request /\ req.commits # <<>>
      /\ format[req.base] = CommitFormatNative /\ Linked(req, Len(req.commits))
      /\ UNCHANGED <<indexVars, blobs, rootVars, pass>>
  BY CallTyped DEF Publish, NativeInv, CallHolds, At, Verifying
<1>2. /\ req.pack \in Pack /\ req.branch \in Branch /\ req.base \in Commit
      /\ target \in Commit /\ CommitsOf(req) \subseteq Commit
      /\ EntryOf(req) \in Entry /\ EntryOf(req) # NoRow
  <2>1. target \in Commit /\ EntryOf(req) \in Entry
    BY <1>1, RequestTyped
  <2>2. EntryOf(req) # NoRow
    BY <2>1, NativeAssumption DEF Entry
  <2> QED BY <1>1, <2>1, <2>2, RequestTyped
<1>3. /\ req.base \in Ancestry[target] /\ target \in Ancestry[target]
      /\ CommitsOf(req) \subseteq ChainTo(req.base, target)
      /\ ChainTo(req.base, target) \subseteq CommitsOf(req) \cup {req.base}
  BY <1>1, <1>2, LinkedEnd, AncestryTyped
<1>4. CASE ledger[req.pack] = NoRow /\ head[req.branch] = req.base /\ Registrable(req)
  <2>1. /\ format' = [d \in Commit |-> IF d \in CommitsOf(req)
                                      THEN CommitFormatNative ELSE format[d]]
        /\ head' = [head EXCEPT ![req.branch] = target]
        /\ ledger' = [ledger EXCEPT ![req.pack] = EntryOf(req)]
        /\ MovesTo(c, "published", call[c].verified)
    BY <1>4, GoToMoves DEF Publish, NativeInv, CallPhase
  <2>2. /\ \A d \in Commit : format[d] = CommitFormatNative => format'[d] = CommitFormatNative
        /\ \A d \in CommitsOf(req) \cup {req.base} : format'[d] = CommitFormatNative
    BY <1>1, <1>2, <2>1
  <2>3. /\ \A p \in Pack : ledger[p] # NoRow => ledger'[p] = ledger[p]
        /\ \A p \in Pack : p # req.pack => ledger'[p] = ledger[p]
        /\ ledger'[req.pack] = EntryOf(req)
        /\ \A b \in Branch : b # req.branch => head'[b] = head[b]
        /\ head'[req.branch] = target /\ head[req.branch] = req.base
    BY <1>2, <1>4, <2>1 DEF NativeInv, NativeTypeOK
  <2>4. NativeTypeOK'
    BY <1>1, <1>2, <2>1
    DEF NativeInv, NativeTypeOK, MovesTo, indexVars, rootVars, Format, CommitFormatNative
  <2>5. LedgerHolds'
    <3> SUFFICES ASSUME NEW p \in Pack, ledger'[p] # NoRow
                 PROVE  /\ ledger'[p].target \in Ancestry[head'[ledger'[p].branch]]
                        /\ \A d \in ChainTo(ledger'[p].base, ledger'[p].target) :
                             format'[d] = CommitFormatNative
      BY DEF LedgerHolds, ChainTo
    <3>1. CASE p = req.pack
      <4>1. /\ ledger'[p].branch = req.branch /\ ledger'[p].base = req.base
            /\ ledger'[p].target = target
        BY <2>3, <3>1 DEF EntryOf
      <4> QED BY <1>3, <2>2, <2>3, <4>1
    <3>2. CASE p # req.pack
      <4>1. ledger'[p] = ledger[p] /\ ledger[p] # NoRow /\ ledger[p] \in Entry
        BY <2>3, <3>2 DEF NativeInv, NativeTypeOK
      <4>2. /\ ledger[p].target \in Ancestry[head[ledger[p].branch]]
            /\ \A d \in ChainTo(ledger[p].base, ledger[p].target) : format[d] = CommitFormatNative
            /\ ledger[p].branch \in Branch
        BY <4>1 DEF NativeInv, LedgerHolds, Entry
      <4>3. Ancestry[req.base] \subseteq Ancestry[target]
        BY <1>2, <1>3, AncestryTransitive
      <4>4. ledger[p].target \in Ancestry[head'[ledger[p].branch]]
        BY <2>3, <4>2, <4>3
      <4>5. \A d \in ChainTo(ledger[p].base, ledger[p].target) : d \in Commit
        BY DEF ChainTo
      <4> QED BY <2>2, <4>1, <4>2, <4>4, <4>5
    <3> QED BY <3>1, <3>2
  <2>6. CallHolds(c)'
    BY <1>1, <1>3, <2>1, <2>3 DEF CallHolds, MovesTo, Verifying, Answered
  <2>7. \A d \in Call : CallHolds(d)'
    <3>1. ASSUME NEW d \in Call, d # c
          PROVE  CallHolds(d)'
      <4>1. call'[d] = call[d]
        BY <2>1, <3>1 DEF MovesTo
      <4> QED BY <2>2, <2>3, <4>1, CallKept DEF NativeInv
    <3> QED BY <2>6, <3>1
  <2>8. LocationsIndexed' /\ PassHolds'
    BY <1>1, IndexKept, PassKept DEF NativeInv, indexVars
  <2>9. \A b \in Branch : head'[b] # head[b] =>
          /\ head[b] \in Ancestry[head'[b]]
          /\ \E p \in Pack : /\ ledger[p] = NoRow
                             /\ ledger'[p] = [branch |-> b, base |-> head[b],
                                              target |-> head'[b]]
    BY <1>2, <1>3, <1>4, <2>3 DEF EntryOf
  <2> QED BY <2>4, <2>5, <2>7, <2>8, <2>9 DEF NativeInv
<1>5. CASE ~(ledger[req.pack] = NoRow /\ head[req.branch] = req.base /\ Registrable(req))
  <2> DEFINE phase == IF ledger[req.pack] = EntryOf(req) THEN "published" ELSE "rejected"
  <2>1. MovesTo(c, phase, call[c].verified) /\ UNCHANGED commitVars
    BY <1>5, GoToMoves DEF Publish, NativeInv, CallPhase
  <2>2. CallHolds(c)'
    BY <1>1, <1>3, <2>1 DEF CallHolds, MovesTo, Verifying, Answered, commitVars
  <2>3. phase # "index"
    OBVIOUS
  <2> HIDE DEF phase
  <2>4. NativeInv'
    BY <1>1, <2>1, <2>2, <2>3, QuietStep DEF rootVars, NativeInv, NativeTypeOK
  <2> QED BY <2>1, <2>4 DEF commitVars
<1> QED BY <1>4, <1>5

-----------------------------------------------------------------------------
(* The steps of a pass.                                                    *)

LEMMA CallsUndisturbed ==
  ASSUME NativeInv, UNCHANGED <<format, ledger, call>>
  PROVE  \A c \in Call : CallHolds(c)'
BY CallKept DEF NativeInv

\* A step that changes only what the pass knows.
LEMMA ReadStep ==
  ASSUME NativeInv, UNCHANGED <<commitVars, indexVars, blobs, rootVars, call>>,
         pass' \in PassRecord, PassHolds'
  PROVE  NativeInv'
<1>1. NativeTypeOK'
  BY DEF NativeInv, NativeTypeOK, commitVars, indexVars, rootVars
<1>2. LedgerHolds'
  BY LedgerKept DEF NativeInv, NativeTypeOK, commitVars
<1>3. \A c \in Call : CallHolds(c)'
  BY CallsUndisturbed DEF commitVars
<1>4. LocationsIndexed'
  BY IndexKept DEF NativeInv, indexVars
<1> QED BY <1>1, <1>2, <1>3, <1>4 DEF NativeInv

LEMMA NoPassTyped == NoPass \in PassRecord
BY DEF NoPass, PassRecord, PassPhase

LEMMA PassEnds ==
  ASSUME NativeInv, pass' = NoPass,
         UNCHANGED <<commitVars, indexVars, blobs, rootVars, call>>
  PROVE  NativeInv'
<1>1. PassHolds'
  BY DEF PassHolds, NoPass, Reading
<1> QED BY <1>1, NoPassTyped, ReadStep

LEMMA ListBranchRefsKeeps ==
  ASSUME NativeInv, ListBranchRefs
  PROVE  NativeInv'
<1> DEFINE heads == {head[b] : b \in Branch}
           commits == UNION {Ancestry[head[b]] : b \in Branch}
<1>1. pass' = [NoPass EXCEPT !.pc = "anchors", !.branches = heads, !.commits = commits]
  BY DEF ListBranchRefs
<1>2. heads \subseteq Commit /\ \A d \in heads : Ancestry[d] \subseteq commits
  BY DEF NativeInv, NativeTypeOK
<1>3. commits \subseteq Commit
  BY AncestryTyped DEF NativeInv, NativeTypeOK
<1> HIDE DEF heads, commits
<1>4. pass' \in PassRecord
  BY <1>1, <1>2, <1>3, NoPassTyped DEF PassRecord, PassPhase
<1>5. PassHolds'
  BY <1>1, <1>2 DEF PassHolds, NoPass, Reading
<1> QED BY <1>4, <1>5, ReadStep DEF ListBranchRefs

LEMMA ListActiveTransactionsKeeps ==
  ASSUME NativeInv, ListActiveTransactions
  PROVE  NativeInv'
<1> DEFINE objects == {anchor[p] : p \in Pack} \ {NoCommit}
<1>1. pass' = [pass EXCEPT !.pc = "audit", !.objects = objects] /\ pass.pc = "anchors"
  BY DEF ListActiveTransactions
<1>2. objects \subseteq Object
  BY DEF NativeInv, NativeTypeOK, Object
<1> HIDE DEF objects
<1>3. pass' \in PassRecord
  BY <1>1, <1>2 DEF NativeInv, NativeTypeOK, PassRecord, PassPhase
<1>4. PassHolds'
  BY <1>1 DEF NativeInv, NativeTypeOK, PassRecord, PassHolds, Reading
<1> QED BY <1>3, <1>4, ReadStep DEF ListActiveTransactions

LEMMA ListAuditRecordsKeeps ==
  ASSUME NativeInv, ListAuditRecords
  PROVE  NativeInv'
<1> DEFINE commits == pass.commits \cup UNION {RootedBy(r.commit) : r \in records}
           objects == pass.objects \cup ({r.object : r \in records} \ {NoCommit})
<1>1. /\ pass' = [pass EXCEPT !.pc = "index", !.commits = commits, !.objects = objects]
      /\ pass.pc = "audit"
  BY DEF ListAuditRecords
<1>2. pass \in PassRecord /\ records \subseteq AuditRecord
  BY DEF NativeInv, NativeTypeOK
<1>3. \A r \in records : RootedBy(r.commit) \subseteq Commit
  BY <1>2, NativeAssumption, AncestryTyped DEF RootedBy
<1>4. commits \subseteq Commit /\ objects \subseteq Object
  BY <1>2, <1>3, NativeAssumption DEF PassRecord
<1>5. pass.commits \subseteq commits
  OBVIOUS
<1> HIDE DEF commits, objects
<1>6. pass' \in PassRecord
  BY <1>1, <1>2, <1>4 DEF PassRecord, PassPhase
<1>7. /\ pass'.pc = "index" /\ pass'.commits = commits /\ pass'.branches = pass.branches
      /\ pass'.retained = pass.retained /\ pass'.candidates = pass.candidates
  BY <1>1, <1>2 DEF PassRecord
<1>8. PassHolds'
  BY <1>1, <1>5, <1>7 DEF NativeInv, PassHolds, Reading
<1> QED BY <1>6, <1>8, ReadStep DEF ListAuditRecords

LEMMA ListNativePackObjectIDsKeeps ==
  ASSUME NativeInv, ListNativePackObjectIDs
  PROVE  NativeInv'
<1> DEFINE packs == {location[o] : o \in pass.objects} \ {NoPack}
<1>1. /\ pass' = [pass EXCEPT !.pc = "packs", !.objects = {}, !.packs = packs]
      /\ pass.pc = "index"
  BY DEF ListNativePackObjectIDs
<1>2. packs \subseteq Pack
  BY DEF NativeInv, NativeTypeOK, PassRecord
<1> HIDE DEF packs
<1>3. pass' \in PassRecord
  BY <1>1, <1>2 DEF NativeInv, NativeTypeOK, PassRecord, PassPhase
<1>4. PassHolds'
  BY <1>1 DEF NativeInv, NativeTypeOK, PassRecord, PassHolds, Reading
<1> QED BY <1>3, <1>4, ReadStep DEF ListNativePackObjectIDs

LEMMA ListNativePacksKeeps ==
  ASSUME NativeInv, ListNativePacks
  PROVE  NativeInv'
<1> DEFINE retained == {p \in IndexedPacks : Retained(p)}
           kept == RefTo(retained)
           candidates == RefTo(IndexedPacks \ retained)
<1>1. CASE pass' = NoPass
  BY <1>1, PassEnds DEF ListNativePacks
<1>2. CASE pass' = [NoPass EXCEPT !.pc = "rows", !.branches = pass.branches,
                      !.retained = kept, !.candidates = candidates]
  <2>1. /\ pass \in PassRecord /\ pass.pc = "packs"
        /\ \A d \in pass.branches : d \in Commit /\ Ancestry[d] \subseteq pass.commits
    BY DEF ListNativePacks, NativeInv, NativeTypeOK, PassHolds, Reading, PassRecord
  <2>2. \A p \in IndexedPacks : /\ [pack |-> p, blob |-> packRow[p].blob] \in PackRef
                               /\ packRow[p] # NoRow
    BY DEF NativeInv, NativeTypeOK, IndexedPacks, PackRow, PackRef
  <2>3. kept \subseteq PackRef /\ candidates \subseteq PackRef
    BY <2>2 DEF RefTo
  <2>4. \A r \in kept : r.pack \in retained
    BY DEF RefTo
  <2>5. ASSUME NEW y \in candidates
        PROVE  /\ packRow[y.pack] # NoRow /\ packRow[y.pack].blob = y.blob
               /\ \A d \in pass.branches : packRow[y.pack].commit \notin Ancestry[d]
               /\ \A r \in kept : r.pack # y.pack
    <3>1. /\ y.pack \in IndexedPacks /\ y.pack \notin retained
          /\ packRow[y.pack].blob = y.blob
      BY DEF RefTo
    <3>2. \/ packRow[y.pack].commit = NoCommit
          \/ packRow[y.pack].commit \notin pass.commits
      BY <3>1 DEF Retained
    <3>3. \A d \in pass.branches : packRow[y.pack].commit \notin Ancestry[d]
      BY <2>1, <3>2, AncestryTyped, CommitDagAssumption
    <3> QED BY <2>2, <2>4, <3>1, <3>3
  <2> HIDE DEF kept, candidates, retained
  <2>6. pass' \in PassRecord
    BY <1>2, <2>1, <2>3, NoPassTyped DEF PassRecord, PassPhase
  <2>7. /\ pass'.pc = "rows" /\ pass'.branches = pass.branches
        /\ pass'.retained = kept /\ pass'.candidates = candidates
    BY <1>2 DEF NoPass
  <2>8. PassHolds'
    BY <2>5, <2>7 DEF PassHolds, CandidateHolds, Reading, ListNativePacks, indexVars
  <2> QED BY <2>6, <2>8, ReadStep DEF ListNativePacks
<1> QED BY <1>1, <1>2 DEF ListNativePacks

LEMMA DeletePackKeeps ==
  ASSUME NativeInv, DeletePack
  PROVE  /\ NativeInv'
         /\ \A r \in pass.retained : r.blob \in blobs => r.blob \in blobs'
<1>1. /\ pass \in PassRecord /\ pass.pc = "blob" /\ pass.deleting \in Blob
      /\ \A r \in pass.retained : r.blob # pass.deleting
      /\ blobs' = blobs \ {pass.deleting}
      /\ UNCHANGED <<commitVars, indexVars, rootVars, call>>
  BY DEF DeletePack, NativeInv, NativeTypeOK, PassHolds
<1> DEFINE handled == pass.handled \cup {pass.deleting}
<1>2. pass' = [pass EXCEPT !.pc = "rows", !.deleting = NoBlob, !.handled = handled]
  BY DEF DeletePack
<1>3. handled \subseteq Blob
  BY <1>1 DEF PassRecord
<1> HIDE DEF handled
<1>4. pass' \in PassRecord
  BY <1>1, <1>2, <1>3 DEF PassRecord, PassPhase
<1>5. NativeTypeOK'
  BY <1>1, <1>4 DEF NativeInv, NativeTypeOK, commitVars, indexVars, rootVars
<1>6. LedgerHolds' /\ \A c \in Call : CallHolds(c)'
  BY <1>1, LedgerKept, CallsUndisturbed DEF NativeInv, NativeTypeOK, commitVars
<1>7. LocationsIndexed'
  BY <1>1, IndexKept DEF NativeInv, indexVars
<1>8. PassHolds'
  <2>1. /\ pass'.pc = "rows" /\ pass'.branches = pass.branches
        /\ pass'.retained = pass.retained /\ pass'.candidates = pass.candidates
    BY <1>1, <1>2 DEF PassRecord
  <2> QED BY <1>1, <2>1 DEF NativeInv, PassHolds, CandidateHolds, Reading, indexVars
<1> QED BY <1>1, <1>5, <1>6, <1>7, <1>8 DEF NativeInv

LEMMA DeleteNativePackKeeps ==
  ASSUME NativeInv, DeleteNativePack
  PROVE  /\ NativeInv'
         /\ \E old \in pass.candidates :
              \A p \in Pack : p # old.pack => packRow'[p] = packRow[p]
<1>1. PICK old \in pass.candidates :
        /\ packRow' = [packRow EXCEPT ![old.pack] = NoRow]
        /\ location' = [o \in Object |-> IF location[o] = old.pack
                                         THEN NoPack ELSE location[o]]
        /\ pass' = IF CanDeletePack /\ old.blob \notin RetainedBlobs \cup pass.handled
                   THEN [pass EXCEPT !.pc = "blob", !.deleting = old.blob,
                                     !.candidates = pass.candidates \ {old}]
                   ELSE [pass EXCEPT !.candidates = pass.candidates \ {old}]
  BY DEF DeleteNativePack
<1>2. /\ pass \in PassRecord /\ pass.pc = "rows" /\ old \in PackRef
      /\ old.pack \in Pack /\ old.blob \in Blob /\ CandidateHolds(old)
      /\ UNCHANGED <<commitVars, blobs, rootVars, call>>
  BY DEF DeleteNativePack, NativeInv, NativeTypeOK, PassRecord, PackRef, PassHolds
<1> DEFINE left == pass.candidates \ {old}
<1>3. left \subseteq PackRef
  BY <1>2 DEF PassRecord
<1>4. /\ \A p \in Pack : p # old.pack => packRow'[p] = packRow[p]
      /\ packRow'[old.pack] = NoRow
  BY <1>1, <1>2 DEF NativeInv, NativeTypeOK
<1>5. \A o \in Object : /\ location[o] # old.pack => location'[o] = location[o]
                        /\ location'[o] # old.pack \/ location'[o] = NoPack
  BY <1>1
<1> HIDE DEF left
<1>6. pass' \in PassRecord /\ pass'.candidates = left
      /\ pass'.branches = pass.branches /\ pass'.retained = pass.retained
      /\ \/ pass'.pc = "rows"
         \/ /\ pass'.pc = "blob" /\ pass'.deleting = old.blob
            /\ old.blob \notin RetainedBlobs
  <2>1. CASE CanDeletePack /\ old.blob \notin RetainedBlobs \cup pass.handled
    <3>1. pass' = [pass EXCEPT !.pc = "blob", !.deleting = old.blob, !.candidates = left]
      BY <1>1, <2>1 DEF left
    <3> QED BY <1>2, <1>3, <2>1, <3>1 DEF PassRecord, PassPhase
  <2>2. CASE ~(CanDeletePack /\ old.blob \notin RetainedBlobs \cup pass.handled)
    <3>1. pass' = [pass EXCEPT !.candidates = left]
      BY <1>1, <2>2 DEF left
    <3> QED BY <1>2, <1>3, <3>1 DEF PassRecord, PassPhase
  <2> QED BY <2>1, <2>2
<1>7. NativeTypeOK'
  <2>1. packRow' \in [Pack -> PackRow \cup {NoRow}]
    BY <1>1, <1>2 DEF NativeInv, NativeTypeOK
  <2>2. location' \in [Object -> Pack \cup {NoPack}]
    BY <1>1 DEF NativeInv, NativeTypeOK
  <2> QED BY <1>1, <1>2, <1>6, <2>1, <2>2
      DEF NativeInv, NativeTypeOK, commitVars, rootVars
<1>8. LedgerHolds' /\ \A c \in Call : CallHolds(c)'
  BY <1>2, LedgerKept, CallsUndisturbed DEF NativeInv, NativeTypeOK, commitVars
<1>9. LocationsIndexed'
  <2> SUFFICES ASSUME NEW o \in Object, location'[o] # NoPack
               PROVE  /\ packRow'[location'[o]] # NoRow
                      /\ o \in Content[packRow'[location'[o]].blob]
    BY DEF LocationsIndexed
  <2>1. location[o] # old.pack /\ location'[o] = location[o]
    BY <1>1
  <2>2. /\ location[o] \in Pack /\ packRow[location[o]] # NoRow
        /\ o \in Content[packRow[location[o]].blob]
    BY <2>1 DEF NativeInv, NativeTypeOK, LocationsIndexed
  <2> QED BY <1>4, <2>1, <2>2
<1>10. PassHolds'
  <2>1. ASSUME NEW y \in left
        PROVE  CandidateHolds(y)'
    <3>1. /\ y \in PackRef /\ CandidateHolds(y) /\ y # old
      BY <1>3 DEF left, NativeInv, PassHolds
    <3>2. y.pack # old.pack
      BY <1>2, <3>1 DEF CandidateHolds, PackRef
    <3> QED BY <1>4, <1>6, <3>1, <3>2 DEF CandidateHolds, PackRef
  <2>2. pass'.pc = "blob" =>
          /\ pass'.deleting \in Blob
          /\ \A r \in pass'.retained : r.blob # pass'.deleting
    BY <1>1, <1>2, <1>6 DEF RetainedBlobs
  <2> QED BY <1>6, <2>1, <2>2 DEF PassHolds, Reading
<1> QED BY <1>4, <1>7, <1>8, <1>9, <1>10 DEF NativeInv

-----------------------------------------------------------------------------
(* The invariant.                                                          *)

LEMMA InitHolds ==
  ASSUME Init
  PROVE  NativeInv
<1>1. /\ call \in [Call -> [pc : {"idle"}, req : Request, verified : {0}, opening : {NoBlob}]]
      /\ format \in [Commit -> Format]
      /\ head \in [Branch -> {c \in Commit : Registered(c)}]
      /\ packRow = [p \in Pack |-> NoRow] /\ location = [o \in Object |-> NoPack]
      /\ blobs = {} /\ anchor = [p \in Pack |-> NoCommit] /\ ledger = [p \in Pack |-> NoRow]
      /\ records = {} /\ pass = NoPass
  BY DEF Init
<1>2. \A c \in Call : call[c].pc = "idle" /\ call[c].verified = 0
  BY <1>1
<1>3. call \in [Call -> CallRecord]
  BY <1>1 DEF CallRecord, CallPhase
<1>4. NativeTypeOK
  BY <1>1, <1>3, NoPassTyped DEF NativeTypeOK
<1>5. LedgerHolds
  BY <1>1 DEF LedgerHolds
<1>6. \A c \in Call : CallHolds(c)
  BY <1>2 DEF CallHolds, Verifying, Answered
<1>7. LocationsIndexed
  BY <1>1, <1>2 DEF LocationsIndexed, IndexedPacks, At
<1>8. PassHolds
  BY <1>1 DEF PassHolds, NoPass, Reading
<1> QED BY <1>4, <1>5, <1>6, <1>7, <1>8 DEF NativeInv

LEMMA PutCommitWithFormatKeeps ==
  ASSUME NativeInv, PutCommitWithFormat
  PROVE  NativeInv'
<1>1. PICK d \in Commit, f \in Format \ {Unregistered} :
        ~Registered(d) /\ format' = [format EXCEPT ![d] = f]
  BY DEF PutCommitWithFormat
<1>2. /\ format' \in [Commit -> Format]
      /\ \A x \in Commit : format[x] = CommitFormatNative => format'[x] = CommitFormatNative
      /\ UNCHANGED <<head, ledger, indexVars, blobs, rootVars, call, pass>>
  BY <1>1 DEF PutCommitWithFormat, NativeInv, NativeTypeOK, Registered, Unregistered,
     CommitFormatNative
<1>3. NativeTypeOK'
  BY <1>2 DEF NativeInv, NativeTypeOK, indexVars, rootVars
<1>4. LedgerHolds'
  BY <1>2, LedgerKept DEF NativeInv, NativeTypeOK
<1>5. \A c \in Call : CallHolds(c)'
  BY <1>2, CallKept DEF NativeInv
<1>6. LocationsIndexed' /\ PassHolds'
  BY <1>2, IndexKept, PassKept DEF NativeInv, indexVars
<1> QED BY <1>3, <1>4, <1>5, <1>6 DEF NativeInv

LEMMA UndisturbedKeeps ==
  ASSUME NativeInv, UNCHANGED vars \/ PutAuditRecord
  PROVE  NativeInv'
<1>1. /\ UNCHANGED <<commitVars, indexVars, blobs, anchor, call, pass>>
      /\ records' \subseteq AuditRecord
  BY DEF vars, rootVars, PutAuditRecord, NativeInv, NativeTypeOK
<1>2. NativeTypeOK'
  BY <1>1 DEF NativeInv, NativeTypeOK, commitVars, indexVars
<1>3. LedgerHolds' /\ \A c \in Call : CallHolds(c)'
  BY <1>1, LedgerKept, CallsUndisturbed DEF NativeInv, NativeTypeOK, commitVars
<1>4. LocationsIndexed' /\ PassHolds'
  BY <1>1, IndexKept, PassKept DEF NativeInv, indexVars
<1> QED BY <1>2, <1>3, <1>4 DEF NativeInv

LEMMA StepHolds ==
  ASSUME NativeInv, [Next]_vars
  PROVE  NativeInv'
<1>1. ASSUME NEW c \in Call, PushStep(c) \/ CallLost(c)
      PROVE  NativeInv'
  BY <1>1, WritePackKeeps, PutNativePackKeeps, PutActiveTransactionKeeps, VerifyBaseKeeps,
     VerifyCommitKeeps, PublishKeeps, EndKeeps DEF PushStep
<1>2. CASE Collect
  <2>1. CASE CollectReturns \/ CollectFails
    BY <2>1, PassEnds DEF CollectReturns, CollectFails
  <2> QED BY <1>2, <2>1, ListBranchRefsKeeps, ListActiveTransactionsKeeps,
          ListAuditRecordsKeeps, ListNativePackObjectIDsKeeps, ListNativePacksKeeps,
          DeleteNativePackKeeps, DeletePackKeeps DEF Collect
<1> QED BY <1>1, <1>2, PutCommitWithFormatKeeps, UndisturbedKeeps DEF Next

\* Ledger, calls, index and pass are as described above in every state.
THEOREM NativeInvariant == Spec => []NativeInv
<1>1. Init => NativeInv
  BY InitHolds
<1>2. NativeInv /\ [Next]_vars => NativeInv'
  BY StepHolds
<1> QED BY <1>1, <1>2, PTL DEF Spec

-----------------------------------------------------------------------------
(* What native packs promise.                                              *)

\* The rows, the calls and the pass keep their types.
THEOREM NativeTypeCorrect == Spec => []NativeTypeOK
<1>1. NativeInv => NativeTypeOK
  BY DEF NativeInv
<1> QED BY <1>1, NativeInvariant, PTL

\* A push that was answered stays in the history of its branch.
THEOREM AnsweredPushStays == Spec => []PushAnswerHolds
<1>1. NativeInv => PushAnswerHolds
  <2> SUFFICES ASSUME NativeInv, NEW c \in Call, At(c, "ok")
               PROVE  LET req == call[c].req
                      IN  /\ ledger[req.pack] = EntryOf(req)
                          /\ \A d \in CommitsOf(req) : format[d] = CommitFormatNative
                          /\ TargetOf(req) \in Ancestry[head[req.branch]]
    BY DEF PushAnswerHolds
  <2> DEFINE req == call[c].req
  <2>1. /\ req \in Request /\ req.commits # <<>>
        /\ ledger[req.pack] = EntryOf(req)
        /\ CommitsOf(req) \subseteq ChainTo(req.base, TargetOf(req))
    BY CallTyped DEF NativeInv, CallHolds, At, Answered
  <2>2. req.pack \in Pack /\ EntryOf(req) # NoRow
    BY <2>1, RequestTyped, NativeAssumption DEF Entry
  <2>3. /\ TargetOf(req) \in Ancestry[head[req.branch]]
        /\ \A d \in ChainTo(req.base, TargetOf(req)) : format[d] = CommitFormatNative
    BY <2>1, <2>2 DEF NativeInv, LedgerHolds, EntryOf
  <2> QED BY <2>1, <2>3
<1> QED BY <1>1, NativeInvariant, PTL

\* What the index says of an object is right, whatever was removed.
THEOREM IndexIsRight == Spec => []LookupsFindObjects
<1>1. NativeInv => LookupsFindObjects
  <2> SUFFICES ASSUME NativeInv
               PROVE  LookupsFindObjects
    OBVIOUS
  <2>1. ASSUME NEW c \in Call, At(c, "open")
        PROVE  SnapshotOf[NextCommit(c)] \in Content[call[c].opening]
    BY <2>1 DEF NativeInv, CallHolds, At, NextCommit
  <2>2. LocationsIndexed
    BY DEF NativeInv
  <2> QED BY <2>1, <2>2 DEF LookupsFindObjects, LocationsIndexed
<1> QED BY <1>1, NativeInvariant, PTL

\* A key moves a branch once, to a descendant.
THEOREM PublicationIsOnce == Spec => KeyPublishesOnce
<1> DEFINE Moved(b) ==
      head'[b] # head[b] =>
        /\ head[b] \in Ancestry[head'[b]]
        /\ \E p \in Pack : /\ ledger[p] = NoRow
                           /\ ledger'[p] = [branch |-> b, base |-> head[b],
                                            target |-> head'[b]]
<1>1. NativeInv /\ [Next]_vars => [\A b \in Branch : Moved(b)]_vars
  <2> SUFFICES ASSUME NativeInv, Next
               PROVE  \A b \in Branch : Moved(b)
    OBVIOUS
  <2>1. ASSUME NEW c \in Call, Publish(c)
        PROVE  \A b \in Branch : Moved(b)
    BY <2>1, PublishKeeps
  <2>2. CASE UNCHANGED head
    BY <2>2
  <2>3. \/ \E c \in Call : Publish(c)
        \/ UNCHANGED head
    BY DEF Next, PushStep, WritePack, PutNativePack, PutActiveTransaction, VerifyBase,
       VerifyCommit, OpenSnapshot, DeleteActiveTransaction, ReleaseFails, StepFails,
       CallLost, Collect, ListBranchRefs, ListActiveTransactions, ListAuditRecords,
       ListNativePackObjectIDs, ListNativePacks, DeleteNativePack, DeletePack,
       CollectReturns, CollectFails, PutCommitWithFormat, PutAuditRecord, commitVars
  <2> QED BY <2>1, <2>2, <2>3
<1> QED BY <1>1, NativeInvariant, PTL DEF Spec, KeyPublishesOnce

\* The steps that may change a row of native_packs or the packs in CAS.
LEMMA OtherStepsKeepPacks ==
  ASSUME [Next]_vars
  PROVE  \/ \E c \in Call : WritePack(c) \/ PutNativePack(c)
         \/ DeleteNativePack \/ DeletePack
         \/ UNCHANGED <<packRow, blobs>>
BY DEF Next, PushStep, PutActiveTransaction, VerifyBase, VerifyCommit, OpenSnapshot,
   Publish, DeleteActiveTransaction, ReleaseFails, StepFails, CallLost, Collect,
   ListBranchRefs, ListActiveTransactions, ListAuditRecords, ListNativePackObjectIDs,
   ListNativePacks, CollectReturns, CollectFails, PutCommitWithFormat, PutAuditRecord,
   indexVars, vars

LEMMA PutNativePackAddsRows ==
  ASSUME NativeInv, NEW c \in Call, PutNativePack(c)
  PROVE  \A p \in IndexedPacks : packRow'[p] # NoRow
<1>1. call[c].req \in Request /\ RowOf(call[c].req) # NoRow
  BY CallTyped, RequestTyped, NativeAssumption DEF NativeInv, PackRow
<1> QED BY <1>1 DEF PutNativePack, indexVars, IndexedPacks, NativeInv, NativeTypeOK

\* No pass removes what was in the history it read.
THEOREM HistoryIsKept == Spec => PassKeepsHistory
<1> DEFINE Kept(p) ==
      packRow'[p] = NoRow => \A d \in pass.branches : packRow[p].commit \notin Ancestry[d]
<1>1. NativeInv /\ [Next]_vars => [\A p \in IndexedPacks : Kept(p)]_vars
  <2> SUFFICES ASSUME NativeInv, [Next]_vars, NEW p \in IndexedPacks, packRow'[p] = NoRow
               PROVE  \A d \in pass.branches : packRow[p].commit \notin Ancestry[d]
    OBVIOUS
  <2>1. p \in Pack /\ packRow[p] # NoRow
    BY DEF IndexedPacks
  <2>2. CASE DeleteNativePack
    <3>1. PICK old \in pass.candidates :
            \A q \in Pack : q # old.pack => packRow'[q] = packRow[q]
      BY <2>2, DeleteNativePackKeeps
    <3> QED BY <2>1, <3>1 DEF NativeInv, PassHolds, CandidateHolds
  <2>3. ASSUME NEW c \in Call, PutNativePack(c)
        PROVE  FALSE
    BY <2>3, PutNativePackAddsRows
  <2>4. packRow' = packRow => FALSE
    BY <2>1
  <2> QED BY <2>2, <2>3, <2>4, OtherStepsKeepPacks DEF WritePack, DeletePack, indexVars
<1> QED BY <1>1, NativeInvariant, PTL DEF Spec, PassKeepsHistory

\* What a pass retains stays for as long as the pass runs.
THEOREM RetainedIsKept == Spec => RetainedStays
<1> DEFINE Kept(r) == packRow[r.pack] # NoRow /\ r.blob \in blobs =>
                        packRow'[r.pack] # NoRow /\ r.blob \in blobs'
<1>1. NativeInv /\ [Next]_vars => [\A r \in pass.retained : Kept(r)]_vars
  <2> SUFFICES ASSUME NativeInv, [Next]_vars, NEW r \in pass.retained,
                      packRow[r.pack] # NoRow, r.blob \in blobs
               PROVE  packRow'[r.pack] # NoRow /\ r.blob \in blobs'
    OBVIOUS
  <2>1. r.pack \in IndexedPacks
    BY DEF NativeInv, NativeTypeOK, PassRecord, PackRef, IndexedPacks
  <2>2. CASE DeleteNativePack
    <3>1. PICK old \in pass.candidates :
            \A q \in Pack : q # old.pack => packRow'[q] = packRow[q]
      BY <2>2, DeleteNativePackKeeps
    <3>2. r.pack # old.pack /\ r.pack \in Pack
      BY <2>1, <3>1 DEF NativeInv, PassHolds, CandidateHolds, IndexedPacks
    <3> QED BY <2>2, <3>1, <3>2 DEF DeleteNativePack
  <2>3. CASE DeletePack
    BY <2>3, DeletePackKeeps DEF DeletePack, indexVars
  <2>4. CASE \E c \in Call : WritePack(c)
    BY <2>4 DEF WritePack, indexVars
  <2>5. CASE \E c \in Call : PutNativePack(c)
    BY <2>1, <2>5, PutNativePackAddsRows DEF PutNativePack
  <2>6. CASE UNCHANGED <<packRow, blobs>>
    BY <2>6
  <2> QED BY <2>2, <2>3, <2>4, <2>5, <2>6, OtherStepsKeepPacks
<1> QED BY <1>1, NativeInvariant, PTL DEF Spec, RetainedStays
-----------------------------------------------------------------------------
(* The publications of a branch are in line.                               *)

(***************************************************************************)
(* Each row of the ledger is a real advance, and of two rows of one branch *)
(* one was published after the other, from a base that has the other's     *)
(* target in its history.                                                  *)
(***************************************************************************)
LedgerInLine ==
  /\ \A p \in Pack : ledger[p] # NoRow =>
       /\ ledger[p].base \in Ancestry[ledger[p].target]
       /\ ledger[p].base # ledger[p].target
  /\ \A p, q \in Pack :
       p # q /\ ledger[p] # NoRow /\ ledger[q] # NoRow /\ ledger[p].branch = ledger[q].branch =>
         \/ ledger[p].target \in Ancestry[ledger[q].base]
         \/ ledger[q].target \in Ancestry[ledger[p].base]

(***************************************************************************)
(* No two pushes, of whatever calls, were ever published on one base of a  *)
(* branch or with one target: no publication overwrites another.           *)
(***************************************************************************)
NoPublicationLost ==
  \A p, q \in Pack :
    p # q /\ ledger[p] # NoRow /\ ledger[q] # NoRow /\ ledger[p].branch = ledger[q].branch =>
      ledger[p].base # ledger[q].base /\ ledger[p].target # ledger[q].target

\* A row that a push adds: it starts at the head of its branch.
AddsRow(p) ==
  /\ ledger[p] = NoRow
  /\ \A q \in Pack \ {p} : ledger'[q] = ledger[q]
  /\ ledger'[p].base = head[ledger'[p].branch]
  /\ ledger'[p].base \in Ancestry[ledger'[p].target]
  /\ ledger'[p].base # ledger'[p].target

LEMMA LedgerSteps ==
  ASSUME NativeInv, [Next]_vars
  PROVE  UNCHANGED ledger \/ \E p \in Pack : AddsRow(p)
<1>1. ASSUME NEW c \in Call, Publish(c), ledger' # ledger
      PROVE  \E p \in Pack : AddsRow(p)
  <2> DEFINE req == call[c].req
             row == EntryOf(req)
  <2>1. /\ req \in Request /\ req.commits # <<>> /\ Linked(req, Len(req.commits))
        /\ ledger[req.pack] = NoRow /\ head[req.branch] = req.base
        /\ ledger' = [ledger EXCEPT ![req.pack] = row]
        /\ ledger \in [Pack -> Entry \cup {NoRow}]
    BY <1>1, CallTyped DEF Publish, NativeInv, NativeTypeOK, CallHolds, At, Verifying, commitVars
  <2>2. row.branch = req.branch /\ row.base = req.base /\ row.target = TargetOf(req)
    BY DEF EntryOf
  <2> HIDE DEF req, row
  <2>3. req.pack \in Pack
    BY <2>1, RequestTyped
  <2>4. req.base \in Ancestry[TargetOf(req)] /\ TargetOf(req) # req.base
    BY <2>1, LinkedEnd
  <2>5. ledger'[req.pack] = row /\ \A q \in Pack \ {req.pack} : ledger'[q] = ledger[q]
    BY <2>1, <2>3
  <2>6. AddsRow(req.pack)
    BY <2>1, <2>2, <2>4, <2>5 DEF AddsRow
  <2> QED BY <2>3, <2>6
<1>2. (\E c \in Call : Publish(c)) \/ UNCHANGED ledger
  BY DEF Next, PushStep, WritePack, PutNativePack, PutActiveTransaction, VerifyBase,
     VerifyCommit, OpenSnapshot, DeleteActiveTransaction, ReleaseFails, StepFails,
     CallLost, Collect, ListBranchRefs, ListActiveTransactions, ListAuditRecords,
     ListNativePackObjectIDs, ListNativePacks, DeleteNativePack, DeletePack,
     CollectReturns, CollectFails, PutCommitWithFormat, PutAuditRecord, commitVars, vars
<1> QED BY <1>1, <1>2

\* Every step keeps the line: what a branch has published is in the history
\* of the head from which the next publication starts.
LEMMA LedgerInLineStep ==
  ASSUME NativeInv, LedgerInLine, [Next]_vars
  PROVE  LedgerInLine'
<1>1. ASSUME NEW p \in Pack, AddsRow(p) PROVE LedgerInLine'
  <2> DEFINE Row(q) == ledger'[q]
  <2>1. ASSUME NEW q \in Pack, q # p, Row(q) # NoRow, Row(q).branch = Row(p).branch
        PROVE  Row(q).target \in Ancestry[Row(p).base]
    BY <1>1, <2>1 DEF AddsRow, NativeInv, LedgerHolds
  <2>2. ASSUME NEW q \in Pack, Row(q) # NoRow
        PROVE  Row(q).base \in Ancestry[Row(q).target] /\ Row(q).base # Row(q).target
    <3>1. CASE q = p
      BY <1>1, <3>1 DEF AddsRow
    <3>2. CASE q # p
      BY <1>1, <2>2, <3>2 DEF AddsRow, LedgerInLine
    <3> QED BY <3>1, <3>2
  <2>3. ASSUME NEW q \in Pack, NEW r \in Pack, q # r, Row(q) # NoRow, Row(r) # NoRow,
               Row(q).branch = Row(r).branch
        PROVE  \/ Row(q).target \in Ancestry[Row(r).base]
               \/ Row(r).target \in Ancestry[Row(q).base]
    <3>1. CASE q = p
      BY <2>1, <2>3, <3>1
    <3>2. CASE r = p
      BY <2>1, <2>3, <3>2
    <3>3. CASE q # p /\ r # p
      <4>1. Row(q) = ledger[q] /\ Row(r) = ledger[r]
        BY <1>1, <3>3 DEF AddsRow
      <4> QED BY <2>3, <4>1 DEF LedgerInLine
    <3> QED BY <3>1, <3>2, <3>3
  <2> QED BY <2>2, <2>3 DEF LedgerInLine
<1>2. CASE UNCHANGED ledger
  BY <1>2 DEF LedgerInLine
<1> QED BY <1>1, <1>2, LedgerSteps

LEMMA LineLosesNothing ==
  ASSUME NativeInv, LedgerInLine
  PROVE  NoPublicationLost
<1>1. ASSUME NEW p \in Pack, NEW q \in Pack, ledger[p] # NoRow, ledger[q] # NoRow,
             ledger[p].target \in Ancestry[ledger[q].base]
      PROVE  ledger[p].base # ledger[q].base /\ ledger[p].target # ledger[q].target
  <2> DEFINE one == ledger[p]
             other == ledger[q]
  <2>1. /\ one.base \in Commit /\ one.target \in Commit
        /\ other.base \in Commit /\ other.target \in Commit
    BY <1>1 DEF NativeInv, NativeTypeOK, Entry
  <2>2. /\ one.base \in Ancestry[one.target] /\ one.base # one.target
        /\ other.base \in Ancestry[other.target] /\ other.base # other.target
    BY <1>1 DEF LedgerInLine
  <2>3. one.target \in Ancestry[other.base]
    BY <1>1
  <2> HIDE DEF one, other
  <2>4. one.base # other.base
    BY <2>1, <2>2, <2>3, AncestryAntisymmetric
  <2>5. one.target # other.target
    BY <2>1, <2>2, <2>3, AncestryAntisymmetric
  <2> QED BY <2>4, <2>5 DEF one, other
<1> QED BY <1>1 DEF LedgerInLine, NoPublicationLost

\* Publications never overwrite each other, whatever the calls and keys.
THEOREM PublicationsAreInLine == Spec => []LedgerInLine /\ []NoPublicationLost
<1>1. Init => LedgerInLine
  BY DEF Init, LedgerInLine
<1>2. NativeInv /\ LedgerInLine /\ [Next]_vars => LedgerInLine'
  BY LedgerInLineStep
<1>3. NativeInv /\ LedgerInLine => NoPublicationLost
  BY LineLosesNothing
<1> QED BY <1>1, <1>2, <1>3, NativeInvariant, PTL DEF Spec
=============================================================================
