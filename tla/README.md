# spool-rack in TLA+

spool-rack is the remote of the Spool content graph: clients push packs of
commits to it, pull packs from it, and let it merge one branch into another.
Pack and object files live in a content-addressed store (CAS) on disk; commits,
pack ranges, branch refs and merge leases are PostgreSQL rows. Handlers run
concurrently, in several server processes, and share nothing but those two
stores. This directory specifies the parts of the server whose correctness
depends on how their steps interleave, checks them with TLC on small
repositories, and proves the main results with TLAPS for all repositories.

Paths below are relative to `src/internal/server/` unless they say otherwise.

## The system

| Component | State it keeps | Operations | What makes it hard | What makes it correct |
|---|---|---|---|---|
| Repository rows (`storage/postgres/store.go`, `migrations/*.sql`) | commits and their parents, pack ranges, branches, default branch, merge leases | one transaction per operation, `SELECT ... FOR UPDATE` on branch and lease rows | READ COMMITTED; checks and writes in separate statements | foreign keys closed, refs compare-and-swapped, one lease per target |
| Push engine (`sync/push.go`, `sync/framing.go`) | locals of each call | `HandlePush`: CAS, parent walk, one transaction per commit, pack range, ref | up to a dozen separate transactions; a call may end after any | nothing registered before it is durable; whole history of a head registered; with v2 packs, refs only fast-forward |
| Merge engine (`review/engine.go`, `review/finalize.go`) | locals of each call | preview, `AcquireLease`, `Apply`, `ReleaseLease` | previews read two refs at two moments; leases expire while a merge is computed; two clocks | a lease pins its head; only its merge moves it; only its holder merges |
| Merge base (`store.go` 1237-1384) | queue and depth map of a walk | `FindLowestCommonAncestor` | criss-cross histories, a limit of 100 commits, Go map order | the nearest common ancestor, the same for every caller |
| Branch endpoints (`gateway/branches.go`) | none | create, list, soft-delete | the two statements of `DeleteBranch` | a default recorded while nobody deletes that branch stays |
| Pull engine (`sync/pull.go`) | none | prepare a clone or an incremental pull, plan pack order | packs that overlap, branches that start inside a pack, merges that need other packs | whatever can be pushed can be cloned |
| Assets and quota (`asset/service.go`, `store.go` 2335-2429) | assets, tenant usage | negotiate, upload, download | admission, CAS and registration are three steps | what is accepted opens as itself; usage is what is registered, plus what racing uploads of one asset charged again; charges are within the quota |
| CAS driver (`storage/cas/local.go`) | files | put, get, write pack, write asset, delete | temp file, rename, late hash check | an address yields its content |
| Native push and index (`nativepush`, `nativeindex`) | native packs, anchors, push transactions | `HandlePush`, `IndexPack`, `ResolveObject` | idempotent retries, anchors shared by retries | published once; an answer stays true; the index finds objects where they are |
| Retention (`retention/retention.go`) | none | `Collect` | reads roots in many transactions, then deletes | no pack it listed as retained is deleted, none of a history it read |
| Audit logger (`audit/audit.go`) | bounded queue | `Emit`, `Close`, drain | never blocks, closes while others emit | no send after close; what was accepted is handled, once and in order |
| Three-way merge (`review/engine.go`, `review/finalize.go`, `review/snapshot.go`) | none | structural conflicts, materialised snapshot | nodes and edges deleted on one side, changed on the other | neither side's change lost |
| Native pull (`nativepull/framing.go`) | none | encode and decode one stream | - | the decoder inverts the encoder |
| Gateway, authentication, tenancy | none | HTTP handlers | - | every transaction under one tenant (row level security) |
| Migrations, process start-up, charts | schema ledger | - | - | - |

How they interact: the gateway constructs one push, pull and merge engine and one
asset service over one `PGStore` and one CAS driver; every request is a goroutine
that calls them. Engines do not call each other. All interaction is through rows
and files. Native push, native index and retention share rows and CAS with each
other; no handler of the gateway constructs them at this commit, so they do not
interleave with the first group. The audit logger is one object that every
request goroutine emits to; its Close is for a graceful shutdown and for tests.

So the project is one composition and four modules beside it: `RackPull` (store,
push, merge, branch endpoints, pull), `AssetStore`, `NativeRack`, `AuditLogger`
and the content of a merge, `SnapshotMerge`, with `AncestryWalk` for its base.

## Modules

| Module | What it is |
|---|---|
| `CommitDag` | commits, their parents (constant: a commit id is the hash of its frame), ancestry, and ancestry as PostgreSQL computes it over registered rows |
| `PackFrame` | what a v2 and a v3 frame must satisfy, and the parent walk over a v3 pack |
| `RackStore` | the rows and CAS packs of one repository; one operator per `PGStore` transaction that succeeds |
| `PushEngine` | `HandlePush`; each store or CAS call is an action |
| `MergeBase` | `FindLowestCommonAncestor` as a definition |
| `AncestryWalk` | the same as the two bounded walks and the choice the code performs |
| `MergeEngine` | preview, lease, fast-forward, three-way apply, release, expiry |
| `BranchAdmin` | the branch endpoints, `DeleteBranch` as two statements |
| `RackServer` | all of these over one store; the properties |
| `BranchRefs` | the abstract specification: what clients may rely on about refs while all packs are v2 packs |
| `PullEngine` | `HandlePull`, which clone shares: ranges, planner, order, stream; the decoder as an operator |
| `RackPull` | `RackServer` with pulls, and the properties of pulls |
| `AssetStore` | `Negotiate`, `Upload`, the asset files of the local driver, `RegisterAsset` and the usage of a tenant |
| `NativeRack` | native `HandlePush` with its index, `PublishNativePush`, and `Collect` beside it |
| `AuditLogger` | `Emit`, `Close`, `run`, over a channel and a read-write mutex |
| `SnapshotMerge` | `mergeSnapshots` and `materializeMerge` |
| `MC*` | instances for TLC |
| `CommitDag_proofs` | recursion on the naturals; ancestry |
| `AncestryWalk_proofs` | the walk records distances and answers the merge base; what a merge base is |
| `RackServer_proofs` | the inductive invariant of the server; durability, complete histories, leases, the default branch, v3 registration, fast-forward; `RackServer` implements `BranchRefs` |
| `RackPull_proofs` | ranges reach the root; pulls of v2 packs are complete and in order, and clones decode |
| `AssetStore_proofs` | files, accepted assets, the usage counter |
| `NativeRack_proofs`, `AuditLogger_proofs`, `SnapshotMerge_proofs` | the properties of those modules |

### The server

`commits`, `packRanges`, `head`, `deleted`, `defaultBranch` and `lease` are the
tables and columns named in `RackStore`; `casPacks` the pack files. A pack
record stands for its hash. An operator of `RackStore` is a transaction that
commits: its guards are the `WHERE` clauses, row counts, foreign keys and unique
constraints that would make the transaction fail. A transaction that fails
changes nothing, so failures are the caller's business: `PushFail`, `MergeFail`
and `DeleteFail` end a call after any step, which covers refusals, lost
connections, time-outs and server crashes alike. What the call has stored so far
stays.

A retry is a new call with the same pack. `WritePack`, `PutCommit` and
`PutPackRange` accept what is already there, as the code does.

Three facts let steps of the code share one action without hiding an
interleaving: rows of `commits` are never deleted, a commit's parents never
change, and packs in CAS are never removed by the components of the server.
Reading them once or one by one then gives the same answers (`PushVerify`,
`CanFastForward`, `BaseOf`). Reading refs and leases is never merged in this way.

A pull only reads, and what it reads only grows: ranges and packs are never
removed, and a commit is the target of one range at most. So the ranges of one
walk are one set (`PackChain`), the walks of one turn of the planner are one step
(`PullExpand`), and `PullOrder` appends any ready pack, which covers the code's
order by hash. Every other boundary between calls is a step: the ref, the ranges,
each turn, each manifest entry, the stream. `PullEnd` stands for every refusal.

A request slot (`PushReq`, `MergeReq`, `PullReq`) is one call in flight, not one
client: it is free again when the call ends. What a request asks for (pack,
branch, token) is chosen when the code first looks at it.

Time appears only as lease expiry: `LeaseExpires` is PostgreSQL's clock passing
`expires_at`. `ValidateMergeLease` and `ApplyMerge` compare with the server's
own clock instead; with `ClockSkew` the server may still take an expired lease
for live. Under it a three-way merge can be applied under a lease that has
expired, but not under one that was granted again, because the token no longer
matches (`LeaseHolderMerges`).

### Assets

`row` and `usedBytes` are the asset rows and `tenants.storage_used_bytes`, `file`
what opening an address reads, `durable` what it holds after a power failure. An
upload (`up`) goes through the phases of its handler: negotiation, the two halves
of the admission, stat, copy, rename, fsync, hash comparison, and the two halves
of `RegisterAsset`, whose look-up takes no lock. The second half ends with the
commit of the transaction (`registered`); the answer is a step of its own, which
may be lost (`unanswered`): the acknowledgement of the COMMIT, the response, or
the process. A failure before the commit leaves nothing. `raced` is a history
variable, read by properties only: the uploads whose row another request inserted
between their look-up and their charge. An operator may set the quota at
any time; `Crash` ends all uploads at once wherever they are and, with
`PowerMayFail`, takes directory entries that were not synced. A blob stands for
its bytes and their hash.

### Native packs

`packRow`, `location`, `anchor`, `ledger` and `records` are `native_packs`,
`native_pack_objects`, `repo_active_transactions`, `native_push_transactions`
and `audit_records`; `blobs` the packs in CAS. A call of `HandlePush` is indexed,
anchored, verified commit by commit, published and released in its own steps; an
object outside the pack is located in one step and opened in the next. `Collect`
is one step per table it reads and two per candidate (rows, then blob); its
locals are the record `pass`, and one pass runs at a time. `CallLost` and
`CollectFails` are the process stopping; `StepFails` is any step that returns an
error, also after the publication was committed and its acknowledgement lost;
`ReleaseFails` is the deferred release whose error is ignored.

### The audit logger

Each statement that touches the mutex, the flag or the channel is a step. The
mutex is Go's: a waiting writer keeps new readers out. `queue` is the channel,
`current` the event in the hand of the goroutine, `handled` what it is done with.

### The content of a merge

A snapshot is a schema and a function from elements to structure and properties;
nodes and edges go through the same code. `Verdict` is what graphcontract's
validation finds in a snapshot, any function at all. A slot is a place where a
snapshot has a value; `ThreeWay` is the reference definition for one slot. A
resolution chooses a snapshot to take the value of a conflict from. `Token` takes
the tokens of conflicts for injective: `review/engine.go:377-389` joins type,
element, id and property with `:` and drops a string it has already, so
this assumes ids and property names without a `:`.

## Properties and runs

Every bound is a constant in the `.cfg`. The graph of `MCRackServer` has a root,
two commits on it and their merges in both orders: the smallest graph with a
fork, a merge commit and a merge that is not the one a lease asked for.

| Run | What is asked | Instance and bounds | Result |
|---|---|---|---|
| `pushes` | `TypeOK`, `HeadHistoryComplete`, `MetadataIsDurable`, `VerifiedCommitsRegister`, `HeadRangesReachRoot`, `SidewaysOnlyByV3` | two calls, two branches, no branch endpoint, five packs: in v2 the root, one side from the root and its merge; in v3 all that is above the root in topological order, and one out of that order that moves one side to the other | holds, 1 158 000 states |
| `merges` | `LeasePinsHead`, `LeasedHeadMovesByMerge`, `LeaseHolderMerges`, `ImplementsBranchRefs` | two merge calls, one push call, v2 packs only, two lease tokens, skewed clock, from a repository with two diverged branches | holds, 274 000 states |
| `pull_v2` | `PullTypeOK`, `PulledHistoryComplete`, `PulledInOrder`, `CloneDecodes`, `DefaultBranchStaysLive` | from an empty repository: one pull, one push call, two branches, the endpoint on one of them, five v2 packs: one commit each, and one side again from the root | holds, 3 111 000 states |
| `v3_sideways` | `FastForwardOnly` | one push call, one branch, the two sides: one in v2, the other in v3 with the first as its base | violated, see findings |
| `pull_known_parent` | `PullDecodes` | one merge, one pull, from a merged repository | violated, see findings |
| `ancestry_walk` | `DepthsAreShortest`, `AnswerIsNearest`, `WalkReturns` | all 64 pairs of commits of an eight-commit graph, limit 5 instead of 100 | holds, 1 100 states |
| `assets` | `AssetTypeOK`, `BadFileHasWriter`, `AcceptedIsOpenable`, `UsageAccounted`, `ChargesWithinQuota` | three uploads of two contents, right or wrong bytes, with and without a length, quota 0 (unlimited) or 3, lost answers, crashes | holds, 1 347 000 states |
| `asset_charged_twice` | `UsageIsExact` | as `assets` | violated, see findings |
| `native` | `NativeTypeOK`, `PushAnswerHolds`, `LookupsFindObjects`, `KeyPublishesOnce`, `PassKeepsHistory`, `RetainedStays` | two calls of five requests that share packs, bytes, objects and keys, on a chain of three commits, two branches, one audit record, passes of the collector one after the other | holds, 3 558 000 states |
| `audit` | `AuditTypeOK`, `NeverPanics`, `HandledInOrder`, `CloseDrains`, `EmitReturns`, `CloseReturns` | two emitters of two events, a buffer of two, two callers of Close | holds, 53 000 states |
| `snapshot_merge` | `MergeTypeOK`, `PreviewIsThreeWay`, `PreviewIsSymmetric`, `ResolvedAsChosen`, `RestIsThreeWay` | a node with one property and an edge, two schemas, a validation that knows schema and cardinality violations, all triples of valid snapshots, all resolutions | holds, 522 000 states |
| `merge_clean_lost` | `CleanChangesStay` | as `snapshot_merge` | violated, see findings |

Why the bounds are enough. Two calls are needed for a race, and a call slot is
reused in the server, so sequences of calls are unbounded even though two run at
a time. Two lease tokens give one lease and the lease that replaces it while the
first holder still computes. The branch endpoints are interleaved with pushes and
pulls in `pull_v2`; beside merges and leases only the proofs have them. Two
branches give a source and a target; every ref
property speaks of one branch at a time. The limit of 5 commits lies between the
histories of the graph, so both sides of the boundary are met. One pull at a time
is enough, because a pull changes nothing another call reads. Three uploads give
a wrong one, a right one and a retry at one address. Two native calls give a
retry beside its first call, or two pushes of which one needs an object of the
other's pack; a pass may begin and end between any two of their steps. Two
emitters fill a buffer that a third event overflows, with a Close before, between
and after. One element with a property and one that depends on it give every case
of the merge, which treats elements alike. The proofs then remove the bounds from
every safety property, and leave them on the three liveness properties.

What the properties say, in the order of the hazards they cover:

* `HeadHistoryComplete` - commits are registered one transaction at a time and a
  push may die half way; still no head ever has an unregistered ancestor.
* `MetadataIsDurable` - no row names what is not in CAS, whichever process stops
  where; it says nothing of a power failure that takes a pack file.
* `VerifiedCommitsRegister` - the v3 parent walk is done before registration and
  by set, registration is by order; the walk is strong enough.
* `FastForwardOnly` - what `sync/push.go:79-80` says: a ref moves only to
  descendants of its head. It is false with v3 packs and a finding.
* `SidewaysOnlyByV3` - what holds instead: the decision is taken on a head read in
  an earlier transaction, and the compare-and-swap makes it safe, except that a v3
  pack whose base is the head is taken for a fast-forward.
* `LeasePinsHead`, `LeasedHeadMovesByMerge`, `LeaseHolderMerges` - grant, expiry,
  release, re-grant and two clocks around one ref.
* `ImplementsBranchRefs` - leases and fast-forwards as one refinement, for v2 packs
  only: `tip` is the head of a branch, `pin` the heads of its live lease. The
  abstract server may start over any repository, as the run does. Steps of calls that do not
  touch a ref or a lease are stutters, and deletion is invisible, since the code
  lets refs of soft-deleted branches move on.
* `DefaultBranchStaysLive` - the guarantee `DeleteBranch` really gives: a default
  recorded while nobody is deleting that branch stays, step by step. The race in
  which it does not is outside of this property (see limits).
* `PulledHistoryComplete`, `PulledInOrder` - the planner has to find the packs of
  everything that was merged, turn by turn, and send each after the packs of all
  parents of its commits, on rows that pushes are adding to.
* `CloneDecodes` - what a clone is sent, the decoder of the other side accepts:
  no commit twice, the head last, every merge parent there.
* `HeadRangesReachRoot` - pushes that are refused or cut off leave ranges behind;
  the ranges still lead from every head to the root. That is for branches created
  by pushes: the endpoint may create one at a commit inside a pack (see limits).
* `DepthsAreShortest`, `AnswerIsNearest`, `WalkReturns` - the walk computes the
  definition in `MergeBase`, for every map order, and ends.
* `BadFileHasWriter`, `AcceptedIsOpenable` - the rename comes before the hash
  comparison: wrong bytes are visible for a while, and only while their writer is
  there or was cut off; what was accepted opens as itself.
* `UsageAccounted`, `ChargesWithinQuota` - three steps, two of them admission, a
  quota that changes, and answers that get lost: the counter is the size of what
  is registered and, on top of it, only what uploads charged whose look-up ran
  before another's insert of the same asset. An upload whose answer was lost may
  be registered and charged; sending it again charges nothing more.
* `PushAnswerHolds`, `KeyPublishesOnce` - a retry beside the first call, and a
  key that comes back for another branch: one publication, and an answer that
  stays true however the branch moves afterwards.
* `LookupsFindObjects` - packs go and their ids are indexed again, with other bytes
  too, while calls hold a location they looked up: what the index says of an object
  is right, and the bytes a call is about to open contain it. That the bytes are
  still there it does not say, nor that every object of an indexed pack has a
  location (see limits).
* `PassKeepsHistory`, `RetainedStays` - a pass deletes on what it read in six
  transactions; packs of the histories it read and packs it retained are kept,
  those that share bytes with a candidate too.
* `NeverPanics`, `CloseDrains`, `HandledInOrder` - no send on a closed channel,
  and Close loses nothing that was accepted.
* `EmitReturns`, `CloseReturns` - see fairness.
* `PreviewIsThreeWay`, `PreviewIsSymmetric` - no change of either side is lost
  without a conflict; direction does not matter.
* `ResolvedAsChosen`, `RestIsThreeWay` - resolutions of an element and of its
  properties in one Apply, in the order of their rank; nothing else changes.
* `MergeTypeOK` - Apply stores only what validation accepts, though the preview
  validated only what had no conflict.

Fairness. `AncestryWalk` assumes weak fairness of its next step: it is a
sequential loop that runs until it returns. `AuditLogger` assumes it of the steps
of an emitter inside `Emit` and of a closer inside `Close`, which are goroutines
the runtime schedules; nobody need call either. `EmitReturns` assumes nothing of
the sink: a sink that never returns holds up no request. `CloseReturns` states
what it needs as its premise, that the drain goroutine goes on, because Close
waits for it. Everything else has no fairness: a client may go away at any time,
and the code promises it nothing.

The runs whose calls all end at some time are without the deadlock check: the walk,
assets, native packs, the logger after Close, and the merge after Apply.

## Findings

* `v3_sideways`. `HandlePush` takes a head equal to the claimed base for a
  fast-forward (`sync/push.go:203`) and accepts v3 packs by default
  (`sync/push.go:241`), and `PackFrameV3.validate` demands no path from base to
  target. A v3 pack with base `a` and target `b`, a sibling of `a`, moves the
  branch sideways, though `sync/push.go:79-80` says refs advance once the push is
  proven to be a fast-forward. `BranchRefs` and its refinement are therefore for
  v2 packs.
* `pull_known_parent`. The planner leaves out a merge parent the client's commit
  contains; `UnmarshalPullEnvelopeV2` refuses an envelope without it, as
  `sync/pull_test.go:82` demands. Merging a branch again that is already merged
  is enough.
* `asset_charged_twice`. `RegisterAsset` looks for the row before it locks the
  tenant. Of two uploads of one asset both find nothing; the second inserts
  nothing and charges again, for good. `storage/postgres/asset_test.go:60` says
  registering an asset again does not consume quota.
* `merge_clean_lost`. Resolving a structural conflict with the source replaces
  the whole element; a property that the target changed and the preview listed as
  clean is lost. `review/finalize.go:26` says a resolution selects a value for one
  conflict.

### Limits the models show

These follow from the same actions, and each reappears when the instance named is
run with the stronger property or constant.

* `PulledHistoryComplete` needs v2 packs: a v3 pack with no base may leave out
  registered first parents and its range claims to start at the root.
* `DeleteBranch` reads `default_branch` in one statement and marks the branch in
  the next. In a repository without a default, a create or push of that branch in
  between records it as the default, and it is deleted nevertheless.
* A branch created at a commit that is not the last of its pack has no range for
  its head, and cannot be cloned. `pushes` therefore has no branch endpoint.
* A new branch is pushed with no base, so its pack repeats commits other packs
  have; after the server merges it, a clone of the target selects both packs and
  is refused. The refusal is `PullEnd` in `pull_v2`.
* An upload with wrong bytes can remove the right file: it renames over it, fails
  its comparison and removes the address. `AcceptedIsOpenable` is for assets that
  nobody sends wrong bytes for.
* With `PowerMayFail`, `AcceptedIsOpenable` does not hold: an upload that finds
  the file of another between rename and fsync registers it, and new prefix
  directories are never synced. Nor does `BadFileHasWriter`: a power failure after
  a mismatch was found and its file removed can bring the file back, because the
  removal is not synced.
* With two identifiers of one repository (`Scope` of two elements),
  `AcceptedIsOpenable` does not hold either: the driver keeps a directory per identifier, the rows are per
  repository, so an asset uploaded under the id is "existing" under the name.
* A native object can be lost with the pack it is located in. Its location is the
  first pack that carried it, since "only the first indexed location needs to be
  kept" (`storage/postgres/migrations/0001_baseline.sql:225-227`); when a pass
  removes that pack, the location goes, and a retained pack that carries the object
  too does not get it. Then Rack does not "resolve every object reachable from an
  uploaded commit" (`nativeindex/nativeindex.go:1-4`).
* A native pack can go while its push runs, although an in-flight upload's objects
  "can never be collected" (`retention/retention.go:12-14`): retries share one
  anchor and the first to end deletes it, an anchor or audit record protects an
  object only through the pack it is located in, a pass reads its roots before it
  deletes, and an upload may find the bytes of a pack that the pass then deletes.
  `LookupsFindObjects`, `PassKeepsHistory` and `RetainedStays` say what remains.
* Two passes of `Collect` at the same time are not modelled.
* The nearest shared commit, which `FindLowestCommonAncestor` answers as its
  comment says (`storage/postgres/store.go:1237`), need not be the last one. Let `b`
  be a child of the root, `x` and `y` children of `b`, and the two heads merges of
  `x` with the root and of `y` with the root: the base is the root, at distance
  2, and not `b`, at distance 4. If the target is a merge of `x` with the root and
  the source is `b` itself, which the target already has, the base is the root too.
* The second caller of Close returns before the queue is drained.

## Proofs

All theorems hold for every value of the constants that satisfies the named
assumptions: no bound on commits, parents, branches, packs, calls, leases,
assets, uploads, emitters, events, elements or properties. The assumptions are the
`ASSUME`s of the modules: sentinels are not values of the kind they stand in for,
functions have the types their names say, `ContentAddressed` (no commit is an
ancestor of its own parent, since a hash commits to the parents), `FiniteIds` (an
id has a fixed width) and `FiniteTenant` (a tenant has finitely many repositories,
contents and requests). Some theorems add a hypothesis, named in the tables; each
is one a deployment or a run meets, and the limits above show what fails without:
`V2Only` (no v3 packs), `AdminBranch = {}` (branches are created by pushes),
`~PowerMayFail` (processes crash, the file system does not), `OneNamePerRepo` (a
repository is addressed by one identifier).

The definitions that recurse over numbers or sets (`Within`, `PackChain`,
`NewParents`, the sum of the charges) are reached by minimal counterexamples: the
least number (`LeastNatural`) or a smallest subset (`SmallestSubset`) at which a
claim fails leads to a smaller one. `NatRecursion` of `CommitDag_proofs` says that a
function defined by recursion on a number is the one that follows its equation.

`RackServer`. The properties are not inductive: they say nothing of what a call in
flight carries. `StoreInv` adds that:

* `TypeOK`;
* `HistoryClosed` - registered commits have registered parents, heads are
  registered (the foreign keys);
* `PushKnows(r)` - a call past `writePack` has a valid frame in CAS, and its index
  is inside the pack;
* `MergeKnows(m)` - the heads a preview read are registered, and a call about to
  apply has its merge commit's pack in CAS and that commit has the two heads as
  parents.

Nothing in it goes stale when another call runs, because rows and packs only
grow. `RackServer_proofs` proves one lemma per action, then `StoreInvariant`.

| Theorem | Argument on top of `StoreInv` |
|---|---|
| `TypeCorrect` | a conjunct |
| `HeadHistoryIsComplete` | a closed set that holds a head holds its ancestry |
| `MetadataDurable` | inductive with `StoreInv`: what is registered comes from a pack a call knows in CAS |
| `LeasePinsHeadAlways` | `HeadSteps`: a ref is created, swapped (no live lease) or merged (the lease goes); `LeaseSteps`: a lease is granted on the current head, expires or goes |
| `OnlyMergeMovesLeasedHead`, `OnlyHolderMerges` | `HeadSteps` |
| `DefaultBranchIsKept` | an action property: the default never changes once set, a call enters `deleting` only for a branch that is not the default, and only a branch in `deleting` is marked |
| `OnlyV3MovesSideways` | `PushAdvancesAlways`: at the swap the head a call expects is an ancestor of its target, or its pack is v3 with that head as base; `HeadSteps` for the rest |
| `VerifiedCommitsAlwaysRegister` | `RestIsOrdered`: what is still to register needs only rows and earlier commits of the rest |
| `V2PushesFastForward` | assumes `V2Only`; a v2 frame's base is an ancestor of its target, so a call at the swap expects an ancestor (`PushAdvances`) |
| `LeaseTermsStand` | inductive with `StoreInv`: a row is granted from a preview whose source is not up to date, and changes only by expiring or going (`LeaseSteps`); tokens are numbered |
| `ValidatedTokenStands` | on top of `LeaseTerms`: a new lease has a new token, so what a call has validated can end and never be replaced under it |
| `LeasedMergesJoin` | an action property: `HeadSteps` with `LeaseTerms` and `LeasePinsHead` |
| `V2HistoryStays` | assumes `V2Only`; with `V2PushesFastForward` no step moves a ref away from a commit of its history, and a merge commit has the old head as parent; a temporal conclusion about every later state |
| `ServerImplementsBranchRefs` | assumes `V2Only`; `HeadSteps` and `LeaseSteps` name the abstract step |
| `PullTypeCorrect` | a conjunct of `PullInv` |
| `V2PullsAreComplete` | assumes `V2Only`; by `PullInv` what is selected leads back to what the client has; a v2 frame is a first-parent line and the planner found the other parents, so the plan and the client's history are closed under parents (`PlanIsClosed`) |
| `V2PullsAreOrdered` | assumes `V2Only`; a parent outside the pack is the client's or in another selected pack, on which the pack depends (`ReadyIsInOrder`) |
| `HeadRangesReachTheRoot` | assumes `AdminBranch = {}`; by `RangesInv` every head is among the commits that ranges lead back from to the root (`Rooted`), which only grow; the walk follows the one range of each target (`RootedChainIsComplete`) |
| `V2ClonesDecode` | assumes `V2Only`; on top of `PlanIsClosed`, `PlansInv`: no commit is in two selected packs, every target but the head is a parent of a selected commit, and what is out is out after what it depends on; so the pack of the head, on which nothing depends, is last (`HeadPackIsLast`) |

`PullInv` adds what a pull call knows: its packs are in CAS, their frames are
valid, and every base among them is the root, the known commit or the target of
another of them. `RangesInv` adds what a push knows of ranges: before it creates a
ref its range is stored and starts at the root, before it swaps one it starts at
the head it expects.

`AncestryWalk`. `WalkInv` is types and:

* `WalksInv` - the queue is in order of depth and spans two levels; every queued or
  visited commit lies on a path of its depth; every parent of a visited commit was
  visited or is queued at most one level below (`Frontier`); a recorded depth is
  the first level that has the commit (`Shortest`);
* `ChoiceInv` - the commit in hand is nearer than all others the loop ranged over;
* `TooDeepInv` - a call that gave up has a history over the limit.

| Theorem | Argument |
|---|---|
| `WalkDepthsAreShortest` | whatever lies on a shorter path than the head of the queue has been visited (`FrontierSees`), so a commit met for the first time is met at its distance (`HeadIsShortest`); the distance is unique (`DepthIsUnique`) |
| `WalkAnswersNearest` | with an empty queue the histories are the ancestries (`EmptyFrontier`), with nothing left to range over `ChoiceInv` speaks of all shared commits; `Nearer` is a strict total order (`NearerOrder`), so there is one such commit |
| `WalkDescends` | every step lowers, in this order, what is still to run, how many commits the walk may still visit, the length of the queue, and what the loop has to range over; all are naturals, so a call makes finitely many steps |
| `MergeBaseIsNearest` | of the shared commits of least distance and least depth, the one of the least id |
| `MergeBaseIsSymmetric` | distance and depth do not tell the sides apart |

The proofs about the server use no property of which common ancestor is chosen.

`AssetStore`.

| Theorem | Argument |
|---|---|
| `AssetTypesHold` | inductive |
| `ChargesHold` | only `RegisterCharge` writes the counter, after its own comparison with the quota |
| `WrongFilesHaveWriters` | assumes `~PowerMayFail`; inductive with the types: a rename makes its upload the writer of the file, and an upload leaves that part only by a comparison that passes, a removal or being cut off |
| `AcceptedOpens` | assumes `~PowerMayFail` and `OneNamePerRepo`; `OpenInv`: at an address nobody sent wrong bytes for, the file is absent or right, and right once somebody renamed, found or registered it |
| `UsageIsAccounted` | inductive with the types and `RaceInv`: an upload between look-up and charge finds a row exactly if it is in `raced`; a sum changes by what one summand changes (`SumUpdate`), so a charge adds one row or one racing upload |

`NativeRack`. `NativeInv` is types and:

* `LedgerHolds` - the target of every ledger row is in the history of its branch,
  and the first-parent line from it to the base (`ChainTo`) is native;
* `CallHolds(c)` - what a call has verified is a first-parent line from its base
  (`Linked`), what it is about to open holds the object it looks for, and a call
  that is answered has its row in the ledger. The line
  grows by one commit at a time because a commit is not its own ancestor
  (`LinkedNext`);
* `LocationsIndexed` - a location names an indexed pack whose bytes hold the object;
* `PassHolds` - the pass has the whole history of the refs it read; a candidate
  still has the row it was listed with and is neither in that history nor
  retained; the blob under deletion is no retained pack's.

`AnsweredPushStays` is `CallHolds` with `LedgerHolds`, `IndexIsRight`
`LocationsIndexed` with `CallHolds`; `PublicationIsOnce`, `HistoryIsKept` and `RetainedIsKept` look at
the few steps that move a head or remove a row or a blob.
`PublicationsAreInLine` is inductive with `NativeInv`: a row is added with the head
of its branch as base, and the target of every earlier row of the branch is in the
history of that head (`LedgerHolds`); that no two rows share a base or a target
follows because no two commits are ancestors of each other
(`AncestryAntisymmetric`).

`AuditLogger`. `AuditInv` is the types, the three safety properties, and how lock,
flag and channel fit: readers are exactly the emitters past `RLock`
(`ReadersHold`), a sender saw the flag unset and holds the lock (`SendersSawOpen`),
there is one writer (`OneWriter`), the flag is set before the channel is closed
(`FlagThenChannel`), and the goroutine is done only after the channel is closed
and empty (`DrainHolds`).

`CallsNeverWaitInCircle` follows from `AuditInv`: a writer waits for readers, a reader
never waits for the full buffer, and while a Close awaits the goroutine, that
goroutine can move or is done. It is the part of `EmitReturns` and `CloseReturns`
that is not about fairness. ENABLED being out of reach, "can move" is spelled out as the
guards of the actions (`EmitterMoves`, `WriterMoves`, `DrainMoves`).

`SnapshotMerge`. `MergeInv` says that preview and result are the functions of the
inputs they were computed by. The rest is about those functions:
`SnapshotIsThreeWay` by cases on which side has an element, `ConflictsAreSymmetric`
and `CleanMergeIsSymmetric`, `OneConflictEach` (no two conflicts are about one
schema or one whole element), `ResolveChooses` and `ResolveKeeps`.
`OneSidedMergeIsTaken`: where one side has the base's snapshot, or both have the
same, every slot takes the other side's value, so there is nothing to resolve and,
the inputs being valid, nothing to refuse.

Only model-checked: `WalkReturns`, `EmitReturns` and `CloseReturns`, which are
liveness under fairness, out of reach of the prover. `WalkDescends` and
`CallsNeverWaitInCircle` are the parts of them that are not about fairness. The properties of the runs
that expect a violation are false of the code, so there is nothing to prove.

## Not modelled, and why

* Native pull framing: a stateless encoder and decoder of one byte stream that no
  handler uses; its properties are about bytes.
* Authentication, tenancy and row level security: every transaction runs under one
  tenant, and no transaction of the modelled components spans two repositories but
  the usage counter, which `AssetStore` has.
* Administration of tenants, workspaces, clients and repositories: single
  statements on rows that nothing modelled reads beside them, except the quota.
* The migrations runner: it runs before the server serves, and the resulting
  schema is what the modules have. It reads its ledger outside of any lock
  (`storage/postgres/migrate.go:300`), so of two replicas that start together one
  may fail and stop; nothing is lost.
* Hashes, canonical encoding and size limits: a frame or pack that fails them is
  refused before anything is stored. Snapshot objects of v2 and v3 packs: both
  validators demand that each commit's snapshot travels in its pack, so a pack in
  CAS stands for them. Commit time and author make a merge commit's id fresh,
  which is what the model keeps. Format 1 rows: neither engine writes them.
* Native push beside leases: `PublishNativePush` does not look at
  `target_branch_merge_leases`; it is not reachable through the gateway, so the
  two are not composed.
* HTTP decoding, status codes, middleware, configuration, charts: I/O and
  templates.
