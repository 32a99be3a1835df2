----------------------------- MODULE NativeRack -----------------------------
(***************************************************************************)
(* Native packs of one repository: the push of nativepush/nativepush.go,   *)
(* the index of nativeindex/nativeindex.go, the collection of              *)
(* retention/retention.go and their transactions in                        *)
(* storage/postgres/store.go.                                              *)
(*                                                                         *)
(* A push writes its pack, indexes it, anchors it against collection,      *)
(* verifies what it carries, publishes and takes the anchor away, each in  *)
(* a transaction of its own.  A collection reads refs, anchors, audit      *)
(* records, the index and the packs one after the other and then deletes,  *)
(* pack by pass.  They run beside each other, in one process or several,   *)
(* and either may stop anywhere.                                           *)
(*                                                                         *)
(* The ids of a pack are two: the id its sender gives it, which is also    *)
(* the idempotency key and the name of the anchor, and the hash of its     *)
(* bytes in CAS.  Content says which objects a blob carries, SnapshotOf    *)
(* which of them a commit names.  Every blob is one that graphcontract     *)
(* takes for a well-formed pack; any other is refused before the first     *)
(* step.                                                                   *)
(***************************************************************************)
EXTENDS CommitDag

CONSTANTS
  Branch,
  Snapshot,       \* objects that are not commits
  SnapshotOf,     \* the snapshot each commit names
  Pack,           \* pack ids
  NoPack,
  Blob,           \* CAS hashes
  NoBlob,
  NoRow,          \* no row under a key
  Content,        \* the objects in each blob
  Request,        \* pushes that clients send, and packs they only index
  AuditRecord,    \* audit records that may be appended
  Call,           \* concurrent calls; each serves one request
  CanDeletePack   \* whether the CAS driver is a PackDeleter

Object == Commit \cup Snapshot

\* A request without commits indexes its pack and nothing else.
PushRequest ==
  [pack : Pack, blob : Blob, branch : Branch, base : Commit, commits : Seq(Commit)]

ASSUME NativeAssumption ==
  /\ SnapshotOf \in [Commit -> Snapshot]
  /\ NoPack \notin Pack /\ NoBlob \notin Blob /\ NoCommit \notin Object
  /\ NoRow \notin [blob : Blob, commit : Commit \cup {NoCommit}]
  /\ NoRow \notin [branch : Branch, base : Commit, target : Commit]
  /\ Content \in [Blob -> SUBSET Object]
  /\ Request \subseteq PushRequest
  /\ AuditRecord \subseteq [commit : Commit \cup {NoCommit},
                            object : Object \cup {NoCommit}]
  /\ CanDeletePack \in BOOLEAN

VARIABLES
  format,   \* commits.object_format, 0 for a commit without a row
  head,     \* branches.head_commit_id, of deleted branches too
  packRow,  \* native_packs
  location, \* native_pack_objects: the pack an object is looked up in
  blobs,    \* packs in CAS
  anchor,   \* repo_active_transactions: the object each transaction roots
  ledger,   \* native_push_transactions
  records,  \* audit_records
  call,     \* HandlePush calls
  pass      \* the collection

commitVars == <<format, head, ledger>>
indexVars == <<packRow, location>>
rootVars == <<anchor, records>>
vars == <<commitVars, indexVars, blobs, rootVars, call, pass>>

CommitFormatNative == 3
Unregistered == 0
Format == {Unregistered, 2, CommitFormatNative}
Registered(c) == format[c] # Unregistered

PackRow == [blob : Blob, commit : Commit \cup {NoCommit}]
Entry == [branch : Branch, base : Commit, target : Commit]

TargetOf(req) == IF req.commits = <<>> THEN NoCommit
                 ELSE req.commits[Len(req.commits)]
EntryOf(req) == [branch |-> req.branch, base |-> req.base, target |-> TargetOf(req)]
CommitsOf(req) == {req.commits[i] : i \in DOMAIN req.commits}

Ended == {"ok", "indexed", "refused", "abandoned"}
CallPhase == {"idle", "index", "anchor", "base", "verify", "open",
              "publish", "published", "rejected"} \cup Ended

\* verified counts the commits that passed, opening is the CAS hash that
\* the snapshot of the next one was located in.
CallRecord == [pc : CallPhase, req : Request, verified : Nat,
               opening : Blob \cup {NoBlob}]

\* branches, commits, objects, packs and handled are the locals of Collect
\* branches, retainedCommits, rootedObjectIDs, rootedPackIDs and
\* handledHashes; retained and candidates divide what it listed.  A local
\* that is not read again is emptied.
PackRef == [pack : Pack, blob : Blob]
RefTo(packs) == {[pack |-> p, blob |-> packRow[p].blob] : p \in packs}

PassPhase == {"idle", "anchors", "audit", "index", "packs", "rows", "blob"}
PassRecord ==
  [pc : PassPhase, branches : SUBSET Commit, commits : SUBSET Commit,
   objects : SUBSET Object, packs : SUBSET Pack,
   candidates : SUBSET PackRef,
   retained : SUBSET PackRef, handled : SUBSET Blob, deleting : Blob \cup {NoBlob}]

NoPass ==
  [pc |-> "idle", branches |-> {}, commits |-> {}, objects |-> {}, packs |-> {},
   candidates |-> {}, retained |-> {}, handled |-> {}, deleting |-> NoBlob]

\* A repository whose registered commits are closed under parents and whose
\* branches point at some of them.
Init ==
  /\ format \in [Commit -> Format]
  /\ \A c \in Commit : Registered(c) => \A p \in ParentSet(c) : Registered(p)
  /\ head \in [Branch -> {c \in Commit : Registered(c)}]
  /\ packRow = [p \in Pack |-> NoRow]
  /\ location = [o \in Object |-> NoPack]
  /\ blobs = {}
  /\ anchor = [p \in Pack |-> NoCommit]
  /\ ledger = [p \in Pack |-> NoRow]
  /\ records = {}
  /\ call \in [Call -> [pc : {"idle"}, req : Request, verified : {0},
                        opening : {NoBlob}]]
  /\ pass = NoPass

At(c, phase) == call[c].pc = phase
GoTo(c, phase) == call' = [call EXCEPT ![c].pc = phase]
-----------------------------------------------------------------------------
(* Indexer.IndexPack                                                       *)

\* A pack that is in CAS already is not written again.
WritePack(c) ==
  /\ At(c, "idle")
  /\ blobs' = blobs \cup {call[c].req.blob}
  /\ GoTo(c, "index")
  /\ UNCHANGED <<commitVars, indexVars, rootVars, pass>>

RowOf(req) == [blob |-> req.blob, commit |-> TargetOf(req)]

\* An index that takes other bytes for a pack it knows.
IndexableAgain(req) ==
  \/ packRow[req.pack] # NoRow
  \/ TargetOf(req) # NoCommit => Registered(TargetOf(req))

\* A new row must name a registered commit, an old one what this call names.
Indexable(req) ==
  IF packRow[req.pack] = NoRow
  THEN TargetOf(req) # NoCommit => Registered(TargetOf(req))
  ELSE packRow[req.pack] = RowOf(req)

\* An object keeps the location it was first indexed at.
Located(req) ==
  [o \in Object |-> IF o \in Content[req.blob] /\ location[o] = NoPack
                    THEN req.pack ELSE location[o]]

PutNativePack(c) ==
  LET req == call[c].req
  IN  /\ At(c, "index")
      /\ IF Indexable(req)
         THEN /\ packRow' = [packRow EXCEPT ![req.pack] = RowOf(req)]
              /\ location' = Located(req)
              /\ GoTo(c, IF req.commits = <<>> THEN "indexed" ELSE "anchor")
         ELSE GoTo(c, "refused") /\ UNCHANGED indexVars
      /\ UNCHANGED <<commitVars, blobs, rootVars, pass>>
-----------------------------------------------------------------------------
(* The rest of Engine.HandlePush                                           *)

\* An anchor on the pack's id.
AnchorPack(c) ==
  /\ At(c, "anchor")
  /\ anchor' = [anchor EXCEPT ![call[c].req.pack] = call[c].req.pack]
  /\ GoTo(c, "base")
  /\ UNCHANGED <<commitVars, indexVars, blobs, records, pass>>

\* PutActiveTransaction, under the pack's id: a second call with that id
\* replaces the row of the first.
PutActiveTransaction(c) ==
  /\ At(c, "anchor")
  /\ anchor' = [anchor EXCEPT ![call[c].req.pack] = TargetOf(call[c].req)]
  /\ GoTo(c, "base")
  /\ UNCHANGED <<commitVars, indexVars, blobs, records, pass>>

\* The commit records must be in the pack, the base a native commit.
VerifyBase(c) ==
  LET req == call[c].req
  IN  /\ At(c, "base")
      /\ GoTo(c, IF /\ CommitsOf(req) \subseteq Content[req.blob]
                    /\ format[req.base] = CommitFormatNative
                 THEN "verify" ELSE "rejected")
      /\ UNCHANGED <<commitVars, indexVars, blobs, rootVars, pass>>

NextCommit(c) == call[c].req.commits[call[c].verified + 1]
Previous(c) == IF call[c].verified = 0 THEN call[c].req.base
               ELSE call[c].req.commits[call[c].verified]
KnownCommits(c) == {call[c].req.commits[i] : i \in 1..call[c].verified}

\* The first parent continues the push, the others are pushed or registered.
Connected(c) ==
  /\ FirstParent(NextCommit(c)) = Previous(c)
  /\ \A i \in 2..Len(Parents[NextCommit(c)]) :
        Parents[NextCommit(c)][i] \in KnownCommits(c) \/ Registered(Parents[NextCommit(c)][i])

\* The phase after one more commit has passed.
Passed(c) ==
  [call EXCEPT ![c].pc = IF call[c].verified + 1 = Len(call[c].req.commits)
                         THEN "publish" ELSE "verify",
               ![c].verified = call[c].verified + 1,
               ![c].opening = NoBlob]

\* One commit: its parents, and its snapshot in the pack or in the index.
VerifyCommit(c) ==
  LET snapshot == SnapshotOf[NextCommit(c)]
  IN  /\ At(c, "verify")
      /\ call' = IF ~Connected(c) THEN [call EXCEPT ![c].pc = "rejected"]
                 ELSE IF snapshot \in Content[call[c].req.blob] THEN Passed(c)
                 ELSE IF location[snapshot] = NoPack
                 THEN [call EXCEPT ![c].pc = "rejected"]
                 ELSE [call EXCEPT ![c].pc = "open",
                                   ![c].opening = packRow[location[snapshot]].blob]
      /\ UNCHANGED <<commitVars, indexVars, blobs, rootVars, pass>>

\* The second half of ResolveObject reads the object from the pack the index
\* named, if that is still there.
OpenSnapshot(c) ==
  /\ At(c, "open")
  /\ call' = IF /\ call[c].opening \in blobs
                /\ SnapshotOf[NextCommit(c)] \in Content[call[c].opening]
             THEN Passed(c)
             ELSE [call EXCEPT ![c].pc = "rejected"]
  /\ UNCHANGED <<commitVars, indexVars, blobs, rootVars, pass>>

\* putCommitTx takes a commit that is there in the same format.
Registrable(req) ==
  \A d \in CommitsOf(req) : format[d] \in {Unregistered, CommitFormatNative}

\* A publication that trusts the verification.
PublishAnyHead(c) ==
  LET req == call[c].req
  IN  /\ At(c, "publish")
      /\ IF ledger[req.pack] = NoRow /\ Registrable(req)
         THEN /\ format' = [d \in Commit |-> IF d \in CommitsOf(req)
                                            THEN CommitFormatNative ELSE format[d]]
              /\ head' = [head EXCEPT ![req.branch] = TargetOf(req)]
              /\ ledger' = [ledger EXCEPT ![req.pack] = EntryOf(req)]
              /\ GoTo(c, "published")
         ELSE /\ GoTo(c, IF ledger[req.pack] = EntryOf(req)
                         THEN "published" ELSE "rejected")
              /\ UNCHANGED commitVars
      /\ UNCHANGED <<indexVars, blobs, rootVars, pass>>

\* A publication that answers a known key without looking at its outcome.
PublishAnyKey(c) ==
  LET req == call[c].req
  IN  /\ At(c, "publish")
      /\ IF ledger[req.pack] = NoRow /\ head[req.branch] = req.base /\ Registrable(req)
         THEN /\ format' = [d \in Commit |-> IF d \in CommitsOf(req)
                                            THEN CommitFormatNative ELSE format[d]]
              /\ head' = [head EXCEPT ![req.branch] = TargetOf(req)]
              /\ ledger' = [ledger EXCEPT ![req.pack] = EntryOf(req)]
              /\ GoTo(c, "published")
         ELSE /\ GoTo(c, IF ledger[req.pack] # NoRow THEN "published" ELSE "rejected")
              /\ UNCHANGED commitVars
      /\ UNCHANGED <<indexVars, blobs, rootVars, pass>>

\* PublishNativePush: the key is claimed, or its outcome repeated; the
\* commits, the ref and the ledger change together or not at all.
Publish(c) ==
  LET req == call[c].req
  IN  /\ At(c, "publish")
      /\ IF ledger[req.pack] = NoRow /\ head[req.branch] = req.base /\ Registrable(req)
         THEN /\ format' = [d \in Commit |-> IF d \in CommitsOf(req)
                                            THEN CommitFormatNative ELSE format[d]]
              /\ head' = [head EXCEPT ![req.branch] = TargetOf(req)]
              /\ ledger' = [ledger EXCEPT ![req.pack] = EntryOf(req)]
              /\ GoTo(c, "published")
         ELSE /\ GoTo(c, IF ledger[req.pack] = EntryOf(req)
                         THEN "published" ELSE "rejected")
              /\ UNCHANGED commitVars
      /\ UNCHANGED <<indexVars, blobs, rootVars, pass>>

Answer(c) == IF At(c, "published") THEN "ok" ELSE "refused"

\* The deferred DeleteActiveTransaction.
DeleteActiveTransaction(c) ==
  /\ At(c, "published") \/ At(c, "rejected")
  /\ anchor' = [anchor EXCEPT ![call[c].req.pack] = NoCommit]
  /\ GoTo(c, Answer(c))
  /\ UNCHANGED <<commitVars, indexVars, blobs, records, pass>>

\* Its failure is ignored, and the anchor stays.
ReleaseFails(c) ==
  /\ At(c, "published") \/ At(c, "rejected")
  /\ GoTo(c, Answer(c))
  /\ UNCHANGED <<commitVars, indexVars, blobs, rootVars, pass>>

\* A call of the store or of CAS fails.  A transaction that reports an error
\* may have committed: the acknowledgement of its COMMIT was lost.
StepFails(c) ==
  /\ \/ /\ call[c].pc \in {"index", "anchor"}
        /\ GoTo(c, "abandoned")
     \/ /\ call[c].pc \in {"base", "verify", "open", "publish", "published"}
        /\ GoTo(c, "rejected")
  /\ UNCHANGED <<commitVars, indexVars, blobs, rootVars, pass>>

PushStep(c) ==
  \/ WritePack(c) \/ PutNativePack(c) \/ PutActiveTransaction(c)
  \/ VerifyBase(c) \/ VerifyCommit(c) \/ OpenSnapshot(c) \/ Publish(c)
  \/ DeleteActiveTransaction(c) \/ ReleaseFails(c) \/ StepFails(c)
-----------------------------------------------------------------------------
(* Collector.Collect                                                       *)

\* CommitAncestryIDs, or the id alone when no such commit is registered.
RootedBy(c) == IF c = NoCommit THEN {}
               ELSE IF Registered(c) THEN Ancestry[c] ELSE {c}

\* A pass that keeps the heads and not what they descend from.
ListBranchHeads ==
  /\ pass.pc = "idle"
  /\ pass' = [NoPass EXCEPT !.pc = "anchors",
                 !.branches = {head[b] : b \in Branch},
                 !.commits = {head[b] : b \in Branch}]
  /\ UNCHANGED <<commitVars, indexVars, blobs, rootVars, call>>

\* ListBranchRefs and the ancestry of every head, deleted branches too.
ListBranchRefs ==
  /\ pass.pc = "idle"
  /\ pass' = [NoPass EXCEPT !.pc = "anchors",
                 !.branches = {head[b] : b \in Branch},
                 !.commits = UNION {Ancestry[head[b]] : b \in Branch}]
  /\ UNCHANGED <<commitVars, indexVars, blobs, rootVars, call>>

\* A push anchors an object and no commit.
ListActiveTransactions ==
  /\ pass.pc = "anchors"
  /\ pass' = [pass EXCEPT !.pc = "audit",
                 !.objects = {anchor[p] : p \in Pack} \ {NoCommit}]
  /\ UNCHANGED <<commitVars, indexVars, blobs, rootVars, call>>

ListAuditRecords ==
  /\ pass.pc = "audit"
  /\ pass' = [pass EXCEPT !.pc = "index",
                 !.commits = @ \cup UNION {RootedBy(r.commit) : r \in records},
                 !.objects = @ \cup ({r.object : r \in records} \ {NoCommit})]
  /\ UNCHANGED <<commitVars, indexVars, blobs, rootVars, call>>

ListNativePackObjectIDs ==
  /\ pass.pc = "index"
  /\ pass' = [pass EXCEPT !.pc = "packs", !.objects = {},
                 !.packs = {location[o] : o \in pass.objects} \ {NoPack}]
  /\ UNCHANGED <<commitVars, indexVars, blobs, rootVars, call>>

Retained(p) == \/ packRow[p].commit # NoCommit /\ packRow[p].commit \in pass.commits
               \/ p \in pass.packs

IndexedPacks == {p \in Pack : packRow[p] # NoRow}

\* The packs that are kept and the candidates; a dry run ends here.
ListNativePacks ==
  /\ pass.pc = "packs"
  /\ LET retained == {p \in IndexedPacks : Retained(p)}
     IN  \/ pass' = NoPass
         \/ pass' = [NoPass EXCEPT !.pc = "rows", !.branches = pass.branches,
                       !.retained = RefTo(retained),
                       !.candidates = RefTo(IndexedPacks \ retained)]
  /\ UNCHANGED <<commitVars, indexVars, blobs, rootVars, call>>

\* A pass that deletes what a retained pack shares.
NoRetainedBlobs == {}

RetainedBlobs == {r.blob : r \in pass.retained}

\* The rows of one candidate, the objects located in it included.
DeleteNativePack ==
  /\ pass.pc = "rows"
  /\ \E old \in pass.candidates :
       /\ packRow' = [packRow EXCEPT ![old.pack] = NoRow]
       /\ location' = [o \in Object |-> IF location[o] = old.pack
                                        THEN NoPack ELSE location[o]]
       /\ pass' = IF CanDeletePack /\ old.blob \notin RetainedBlobs \cup pass.handled
                  THEN [pass EXCEPT !.pc = "blob", !.deleting = old.blob,
                                    !.candidates = @ \ {old}]
                  ELSE [pass EXCEPT !.candidates = @ \ {old}]
  /\ UNCHANGED <<commitVars, blobs, rootVars, call>>

\* LocalDriver.DeletePack, for the first candidate of a blob.
DeletePack ==
  /\ pass.pc = "blob"
  /\ blobs' = blobs \ {pass.deleting}
  /\ pass' = [pass EXCEPT !.pc = "rows", !.deleting = NoBlob,
                          !.handled = @ \cup {pass.deleting}]
  /\ UNCHANGED <<commitVars, indexVars, rootVars, call>>

CollectReturns ==
  /\ pass.pc = "rows" /\ pass.candidates = {}
  /\ pass' = NoPass
  /\ UNCHANGED <<commitVars, indexVars, blobs, rootVars, call>>

\* A call of the store or of CAS fails, or the process of the pass stops.
CollectFails ==
  /\ pass.pc # "idle"
  /\ pass' = NoPass
  /\ UNCHANGED <<commitVars, indexVars, blobs, rootVars, call>>

Collect ==
  \/ ListBranchRefs \/ ListActiveTransactions \/ ListAuditRecords
  \/ ListNativePackObjectIDs \/ ListNativePacks \/ DeleteNativePack
  \/ DeletePack \/ CollectReturns \/ CollectFails
-----------------------------------------------------------------------------
(* What else happens to the repository.                                    *)

\* PGStore.PutCommitWithFormat, by a library caller or a sync push.
PutCommitWithFormat ==
  /\ \E d \in Commit, f \in Format \ {Unregistered} :
       /\ ~Registered(d)
       /\ \A p \in ParentSet(d) : Registered(p)
       /\ format' = [format EXCEPT ![d] = f]
  /\ UNCHANGED <<head, ledger, indexVars, blobs, rootVars, call, pass>>

PutAuditRecord ==
  /\ \E r \in AuditRecord \ records : records' = records \cup {r}
  /\ UNCHANGED <<commitVars, indexVars, blobs, anchor, call, pass>>

\* The process of a call stops: its deferred release never runs.
CallLost(c) ==
  /\ call[c].pc \notin Ended \cup {"idle"}
  /\ GoTo(c, "abandoned")
  /\ UNCHANGED <<commitVars, indexVars, blobs, rootVars, pass>>

Next ==
  \/ \E c \in Call : PushStep(c) \/ CallLost(c)
  \/ Collect
  \/ PutCommitWithFormat \/ PutAuditRecord

Spec == Init /\ [][Next]_vars
-----------------------------------------------------------------------------
(* What native packs promise.                                              *)

\* Types of the rows, the calls and the pass.
NativeTypeOK ==
  /\ format \in [Commit -> Format]
  /\ head \in [Branch -> Commit]
  /\ packRow \in [Pack -> PackRow \cup {NoRow}]
  /\ location \in [Object -> Pack \cup {NoPack}]
  /\ blobs \subseteq Blob
  /\ anchor \in [Pack -> Commit \cup {NoCommit}]
  /\ ledger \in [Pack -> Entry \cup {NoRow}]
  /\ records \subseteq AuditRecord
  /\ call \in [Call -> CallRecord]
  /\ pass \in PassRecord

\* A push that answers success, a repeated or a resumed one too, has its
\* commits registered and its target in the history of its branch, whatever
\* moved the branch since.
PushAnswerHolds ==
  \A c \in Call : At(c, "ok") =>
    LET req == call[c].req
    IN  /\ ledger[req.pack] = EntryOf(req)
        /\ \A d \in CommitsOf(req) : format[d] = CommitFormatNative
        /\ TargetOf(req) \in Ancestry[head[req.branch]]

\* A branch moves to a descendant of its head, once for each pack id, and
\* only as the ledger says from then on.
KeyPublishesOnce ==
  [][\A b \in Branch : head'[b] # head[b] =>
       /\ head[b] \in Ancestry[head'[b]]
       /\ \E p \in Pack : /\ ledger[p] = NoRow
                          /\ ledger'[p] = [branch |-> b, base |-> head[b],
                                           target |-> head'[b]]]_vars

\* What the index says is right: the pack an object is looked up in is there
\* and its bytes hold the object, and so do the bytes that a call is about to
\* open, although packs are removed and their ids indexed again, with other
\* bytes too, between its look-up and that.  Not that the bytes are there,
\* nor that every object of an indexed pack has a location: a removal takes
\* both away from packs that stay.
LookupsFindObjects ==
  /\ \A o \in Object : location[o] # NoPack =>
       /\ packRow[location[o]] # NoRow
       /\ o \in Content[packRow[location[o]].blob]
  /\ \A c \in Call : At(c, "open") =>
       SnapshotOf[NextCommit(c)] \in Content[call[c].opening]

\* A pass removes no pack whose commit was in the history of a branch when
\* it read the refs, a deleted branch too.
PassKeepsHistory ==
  [][\A p \in IndexedPacks : packRow'[p] = NoRow =>
       \A d \in pass.branches : packRow[p].commit \notin Ancestry[d]]_vars

\* A pack that a pass retained keeps its row and its bytes throughout the
\* pass, also when other packs with the same bytes are removed.
RetainedStays ==
  [][\A r \in pass.retained : packRow[r.pack] # NoRow /\ r.blob \in blobs =>
       packRow'[r.pack] # NoRow /\ r.blob \in blobs']_vars
=============================================================================
