----------------------------- MODULE AssetStore -----------------------------
(***************************************************************************)
(* Contextual assets of one tenant: the upload path of the asset service   *)
(* (asset/service.go), the asset files of the CAS driver (storage/cas/     *)
(* local.go) and the asset rows and the storage counter of the tenant      *)
(* (storage/postgres/store.go).                                            *)
(*                                                                         *)
(* An upload is not a transaction.  It asks what is missing, is admitted   *)
(* against the quota, writes a file and registers a row, each in a step of *)
(* its own and some in two; other uploads, of the same asset too, run in   *)
(* between, and the process may stop anywhere.                             *)
(*                                                                         *)
(* A blob stands for its bytes.  Its hash is taken to be collision free,   *)
(* so an address is a scope and the one blob with that hash.  A client may *)
(* give a repository's id or its name: the driver keeps a directory for    *)
(* each identifier (scopeRoot), the store resolves both to one repository  *)
(* (resolveRepoUUID).                                                      *)
(***************************************************************************)
EXTENDS Integers, FiniteSets, Functions

CONSTANTS
  Upload,        \* requests; each uploads once, a retry is another request
  Scope,         \* repository identifiers in the paths of requests
  Repo,          \* repositories of the tenant
  RepoOf,        \* the repository an identifier resolves to
  Blob,          \* contents that may be sent
  NoBlob,        \* no file at an address
  Size,          \* length of each content
  Quota,         \* values an operator sets storage_quota_bytes to
  PowerMayFail   \* whether a crash may also lose unsynced directory entries

ASSUME AssetAssumption ==
  /\ NoBlob \notin Blob
  /\ RepoOf \in [Scope -> Repo]
  /\ Size \in [Blob -> Nat]
  /\ Quota \subseteq Nat
  /\ PowerMayFail \in BOOLEAN

\* A tenant has a finite number of repositories, contents and requests.
ASSUME FiniteTenant ==
  IsFiniteSet(Repo) /\ IsFiniteSet(Blob) /\ IsFiniteSet(Upload)

VARIABLES
  row,        \* assets: the size registered for a key, NoRow if none
  usedBytes,  \* tenants.storage_used_bytes
  quotaBytes, \* tenants.storage_quota_bytes, 0 for unlimited
  file,       \* what opening an address reads
  durable,    \* what an address holds after a power failure
  up,         \* the requests
  raced       \* history: requests that looked for their row in vain before
              \* another request inserted it

vars == <<row, usedBytes, quotaBytes, file, durable, up, raced>>

Address == Scope \X Blob
HashOf(a) == a[2]
Key == Repo \X Blob
KeyOf(a) == <<RepoOf[a[1]], HashOf(a)>>
NoRow == -1

\* Unanswered is a request that is registered and was never told so.
Ended == {"existing", "stored", "unanswered", "refused", "mismatch", "failed",
          "lost", "abandoned"}
Phase == {"idle", "asked", "askedLock", "authorised", "sent", "sentLock",
          "write", "copy", "renamed", "synced", "register", "registerLock",
          "registered"} \cup Ended

\* body is what the request carries, sized whether it has a Content-Length,
\* written the length the driver reported.
Request == [pc : Phase, addr : Address, body : Blob, sized : BOOLEAN,
            written : Nat]

Init ==
  /\ row = [k \in Key |-> NoRow]
  /\ usedBytes = 0
  /\ quotaBytes \in Quota
  /\ file = [a \in Address |-> NoBlob]
  /\ durable = [a \in Address |-> NoBlob]
  /\ up \in [Upload -> [pc : {"idle"}, addr : Address, body : Blob,
                        sized : BOOLEAN, written : {0}]]
  /\ raced = {}

At(u, phase) == up[u].pc = phase
GoTo(u, phase) == up' = [up EXCEPT ![u].pc = phase]
Registered(a) == row[KeyOf(a)] # NoRow
\* PGStore.ListMissingAssets, for one hash.
Missing(a) == ~Registered(a)
\* quota > 0 && used + size > quota.
OverQuota(size) == quotaBytes > 0 /\ usedBytes + size > quotaBytes

\* A positive Content-Length, or a positive size in the negotiation.
SizeKnown(u) == up[u].sized /\ Size[up[u].body] > 0

tenantVars == <<row, usedBytes, quotaBytes, raced>>
fileVars == <<file, durable>>
-----------------------------------------------------------------------------
(* Service.Negotiate for one hash, then the upload if it is missing.  A    *)
(* client may also upload without asking.                                  *)

Negotiate(u) ==
  /\ At(u, "idle")
  /\ GoTo(u, IF ~Missing(up[u].addr) THEN "existing"
             ELSE IF SizeKnown(u) THEN "asked" ELSE "authorised")
  /\ UNCHANGED <<tenantVars, fileVars>>

\* Without a positive Content-Length nothing is admitted up front.
SendUpload(u) ==
  /\ At(u, "idle") \/ At(u, "authorised")
  /\ GoTo(u, IF SizeKnown(u) THEN "sent" ELSE "write")
  /\ UNCHANGED <<tenantVars, fileVars>>

Admitted(u) == IF up[u].pc \in {"asked", "askedLock"} THEN "authorised" ELSE "write"

\* PGStore.AdmitAssetUpload, first statement: a registered asset is admitted.
AdmitExists(u) ==
  /\ At(u, "asked") \/ At(u, "sent")
  /\ GoTo(u, IF Registered(up[u].addr) THEN Admitted(u)
             ELSE IF At(u, "asked") THEN "askedLock" ELSE "sentLock")
  /\ UNCHANGED <<tenantVars, fileVars>>

\* Second statement, under the lock of the tenant row: nothing is reserved.
AdmitQuota(u) ==
  /\ At(u, "askedLock") \/ At(u, "sentLock")
  /\ GoTo(u, IF OverQuota(Size[up[u].body]) THEN "refused" ELSE Admitted(u))
  /\ UNCHANGED <<tenantVars, fileVars>>
-----------------------------------------------------------------------------
(* LocalDriver.WriteAsset                                                  *)

\* A file at the address is taken for the asset: the body is drained unread
\* and the length of the file is reported.
FindFile(u) ==
  /\ At(u, "write")
  /\ LET found == file[up[u].addr]
     IN  up' = IF found = NoBlob
               THEN [up EXCEPT ![u].pc = "copy"]
               ELSE [up EXCEPT ![u].pc = "register", ![u].written = Size[found]]
  /\ UNCHANGED <<tenantVars, fileVars>>

\* A driver that takes a broken body for a whole one.
CopyFailsUnseen(u) ==
  /\ At(u, "write") \/ At(u, "copy")
  /\ GoTo(u, "register")
  /\ UNCHANGED <<tenantVars, fileVars>>

\* The body breaks off or the temporary file cannot be written.
CopyFails(u) ==
  /\ At(u, "write") \/ At(u, "copy")
  /\ GoTo(u, "failed")
  /\ UNCHANGED <<tenantVars, fileVars>>

\* The synced temporary file replaces whatever is at the address by now.
RenameIntoPlace(u) ==
  /\ At(u, "copy")
  /\ file' = [file EXCEPT ![up[u].addr] = up[u].body]
  /\ GoTo(u, "renamed")
  /\ UNCHANGED <<tenantVars, durable>>

\* fsync of the directory, which makes its present entry durable.
SyncDir(u) ==
  /\ At(u, "renamed")
  /\ durable' = [durable EXCEPT ![up[u].addr] = file[up[u].addr]]
  /\ GoTo(u, "synced")
  /\ UNCHANGED <<tenantVars, file>>

\* An error here returns before the hash is compared.
SyncDirFails(u) ==
  /\ At(u, "renamed")
  /\ GoTo(u, "abandoned")
  /\ UNCHANGED <<tenantVars, fileVars>>

HashMatches(u) == up[u].body = HashOf(up[u].addr)

\* A driver that reports the mismatch and keeps the file.
VerifyHashKeepsFile(u) ==
  /\ At(u, "synced")
  /\ up' = [up EXCEPT ![u].pc = IF HashMatches(u) THEN "register" ELSE "mismatch",
                      ![u].written = Size[up[u].body]]
  /\ UNCHANGED <<tenantVars, fileVars>>

\* The hash of the body is compared last; a wrong file is removed by name.
VerifyHash(u) ==
  /\ At(u, "synced")
  /\ IF HashMatches(u)
     THEN /\ up' = [up EXCEPT ![u].pc = "register",
                              ![u].written = Size[up[u].body]]
          /\ UNCHANGED file
     ELSE /\ file' = [file EXCEPT ![up[u].addr] = NoBlob]
          /\ GoTo(u, "mismatch")
  /\ UNCHANGED <<tenantVars, durable>>

RemoveFails(u) ==
  /\ At(u, "synced")
  /\ ~HashMatches(u)
  /\ GoTo(u, "abandoned")
  /\ UNCHANGED <<tenantVars, fileVars>>
-----------------------------------------------------------------------------
(* PGStore.RegisterAsset.  From "registered" on its transaction has         *)
(* committed, and the client may or may not get to know.                   *)

\* A transaction that does not look for the row.
RegisterUnseen(u) ==
  /\ At(u, "register")
  /\ GoTo(u, "registerLock")
  /\ UNCHANGED <<tenantVars, fileVars>>

\* First statement, before any lock.
RegisterExists(u) ==
  /\ At(u, "register")
  /\ GoTo(u, IF Registered(up[u].addr) THEN "registered" ELSE "registerLock")
  /\ UNCHANGED <<tenantVars, fileVars>>

\* INSERT ... ON CONFLICT DO NOTHING.
InsertRow(u) ==
  LET k == KeyOf(up[u].addr)
  IN  IF row[k] # NoRow
      THEN UNCHANGED <<row, raced>>
      ELSE /\ row' = [row EXCEPT ![k] = up[u].written]
           /\ raced' = raced \cup {v \in Upload \ {u} : /\ At(v, "registerLock")
                                                      /\ KeyOf(up[v].addr) = k}

\* A transaction that trusts the admission.
RegisterUnchecked(u) ==
  /\ At(u, "registerLock")
  /\ InsertRow(u)
  /\ usedBytes' = usedBytes + up[u].written
  /\ GoTo(u, "registered")
  /\ UNCHANGED <<quotaBytes, fileVars>>

\* A transaction that takes the size off the counter.
RegisterDiscount(u) ==
  /\ At(u, "registerLock")
  /\ ~OverQuota(up[u].written)
  /\ InsertRow(u)
  /\ usedBytes' = usedBytes - up[u].written
  /\ GoTo(u, "registered")
  /\ UNCHANGED <<quotaBytes, fileVars>>

\* The rest of the transaction runs under the lock of the tenant row: the
\* charge is made whether or not the insert did anything.
RegisterCharge(u) ==
  /\ At(u, "registerLock")
  /\ IF OverQuota(up[u].written)
     THEN GoTo(u, "refused") /\ UNCHANGED <<row, usedBytes, raced>>
     ELSE /\ InsertRow(u)
          /\ usedBytes' = usedBytes + up[u].written
          /\ GoTo(u, "registered")
  /\ UNCHANGED <<quotaBytes, fileVars>>

\* The transaction fails before its COMMIT: nothing of it stays.
RegisterFails(u) ==
  /\ At(u, "register") \/ At(u, "registerLock")
  /\ GoTo(u, "failed")
  /\ UNCHANGED <<tenantVars, fileVars>>

Answer(u) ==
  /\ At(u, "registered")
  /\ GoTo(u, "stored")
  /\ UNCHANGED <<tenantVars, fileVars>>

\* The acknowledgement of the COMMIT is lost, which RegisterAsset reports as
\* an error, or the answer of the server is: row and charge stand.
AnswerLost(u) ==
  /\ At(u, "registered")
  /\ GoTo(u, "unanswered")
  /\ UNCHANGED <<tenantVars, fileVars>>
-----------------------------------------------------------------------------
\* PGStore.SetTenantStorageQuota, at any time.
SetTenantStorageQuota ==
  /\ quotaBytes' \in Quota
  /\ UNCHANGED <<row, usedBytes, raced, fileVars, up>>

\* Every request in flight is gone.  A power failure may also undo renames
\* and removals that no fsync of the directory followed.
AfterPowerLoss == {f \in [Address -> Blob \cup {NoBlob}] :
                     \A a \in Address : f[a] \in {file[a], durable[a]}}

Crash ==
  /\ \E u \in Upload : up[u].pc \notin Ended \cup {"idle"}
  /\ up' = [u \in Upload |->
              IF up[u].pc \in Ended \cup {"idle"} THEN up[u]
              ELSE [up[u] EXCEPT !.pc =
                      IF @ \in {"renamed", "synced"} THEN "abandoned"
                      ELSE IF @ = "registered" THEN "unanswered" ELSE "lost"]]
  /\ IF PowerMayFail
     THEN /\ file' \in AfterPowerLoss
          /\ durable' = file'
     ELSE UNCHANGED fileVars
  /\ UNCHANGED tenantVars

UploadStep(u) ==
  \/ Negotiate(u) \/ SendUpload(u) \/ AdmitExists(u) \/ AdmitQuota(u)
  \/ FindFile(u) \/ CopyFails(u) \/ RenameIntoPlace(u) \/ SyncDir(u)
  \/ SyncDirFails(u) \/ VerifyHash(u) \/ RemoveFails(u)
  \/ RegisterExists(u) \/ RegisterCharge(u) \/ RegisterFails(u)
  \/ Answer(u) \/ AnswerLost(u)

Next == (\E u \in Upload : UploadStep(u)) \/ SetTenantStorageQuota \/ Crash

Spec == Init /\ [][Next]_vars
-----------------------------------------------------------------------------
(* What the asset store promises.                                          *)

\* LocalDriver.OpenAsset reads the file; no hash is compared.
OpenAsset(a) == file[a]
\* Service.Open: the row is looked at for the MIME type only.
Open(a) == OpenAsset(a)

\* Types of the rows, the files and the requests in flight.
AssetTypeOK ==
  /\ row \in [Key -> Nat \cup {NoRow}]
  /\ usedBytes \in Nat
  /\ quotaBytes \in Quota
  /\ file \in [Address -> Blob \cup {NoBlob}]
  /\ durable \in [Address -> Blob \cup {NoBlob}]
  /\ up \in [Upload -> Request]
  /\ raced \subseteq Upload

\* A file whose content does not have the hash of its address is there only
\* while the request that sent that content is between its rename and its
\* verification, or because that request was cut off there: no interleaving
\* of correct and incorrect uploads of one address leaves it behind.
BadFileHasWriter ==
  \A a \in Address : file[a] \notin {NoBlob, HashOf(a)} =>
    \E u \in Upload : /\ up[u].addr = a
                      /\ up[u].body = file[a]
                      /\ up[u].pc \in {"renamed", "synced", "abandoned"}

Accepted(u) == up[u].pc \in {"stored", "existing"}

\* No request for this asset sent anything but the asset itself.
Untainted(a) ==
  \A u \in Upload : KeyOf(up[u].addr) = KeyOf(a) /\ up[u].pc # "idle"
                      => HashMatches(u)

\* An asset that was answered as stored or existing is registered with its
\* true size and opens as itself, whichever uploads of it broke off, were
\* repeated or ran at the same time, if all of them sent the asset.
AcceptedIsOpenable ==
  \A u \in Upload : Accepted(u) /\ Untainted(up[u].addr) =>
    /\ row[KeyOf(up[u].addr)] = Size[HashOf(up[u].addr)]
    /\ Open(up[u].addr) = HashOf(up[u].addr)

RegisteredSize == [k \in Key |-> IF row[k] = NoRow THEN 0 ELSE row[k]]
RegisteredBytes == SumFunctionOnSet(RegisteredSize, Key)

\* What was charged for a row that another request had inserted.
ChargedAgain(u) == u \in raced /\ up[u].pc \in {"registered", "stored", "unanswered"}
ChargedTwice == [u \in Upload |-> IF ChargedAgain(u) THEN up[u].written ELSE 0]
TwiceBytes == SumFunctionOnSet(ChargedTwice, Upload)

\* The counter is the size of what is registered and, on top of it, only what
\* requests charged whose look-up ran before another request's insert of the
\* same asset: no refusal, failure, crash, lost answer or later upload of the
\* asset costs anything more, although the client of a lost answer may send
\* the asset again.
UsageAccounted == usedBytes = RegisteredBytes + TwiceBytes

\* An asset is charged once, however often it is registered.
UsageIsExact == usedBytes = RegisteredBytes

\* The counter grows only to a value the quota of that moment allows,
\* whatever was admitted when the quota or the counter was another.
ChargesWithinQuota ==
  [][usedBytes' # usedBytes => quotaBytes = 0 \/ usedBytes' <= quotaBytes]_vars
=============================================================================
