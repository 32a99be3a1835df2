------------------------------ MODULE BranchAdmin ------------------------------
(***************************************************************************)
(* The branch endpoints of the gateway: create, and delete with its two    *)
(* statements in a READ COMMITTED transaction.                             *)
(***************************************************************************)
EXTENDS RackStore

CONSTANT AdminBranch   \* branches the branch endpoints are called for

ASSUME BranchAdminAssumption == AdminBranch \subseteq Branch

VARIABLE deleting   \* branches whose DeleteBranch has read default_branch

BranchAdminTypeOK == deleting \subseteq Branch

BranchAdminInit == deleting = {}

(***************************************************************************)
(* handleCreateBranch: from a source commit the client names, or from the  *)
(* head of a source branch read just before.  Commits are never deleted    *)
(* and heads are registered commits, so either way any registered commit.  *)
(***************************************************************************)
AdminCreateBranch(b) ==
  /\ \E c \in commits : CreateBranch(b, c)
  /\ UNCHANGED <<commits, packRanges, casPacks, deleted, lease, issued,
                 deleting>>

\* A variant that forgot the protection of the default branch.
DeleteReadNothing(b) ==
  /\ b \notin deleting
  /\ deleting' = deleting \cup {b}
  /\ UNCHANGED storeVars

\* DeleteBranch, first statement: the repository row is read, not locked.
DeleteReadDefault(b) ==
  /\ b \notin deleting
  /\ defaultBranch # b
  /\ deleting' = deleting \cup {b}
  /\ UNCHANGED storeVars

\* DeleteBranch, second statement: UPDATE ... WHERE deleted_at IS NULL.
DeleteMark(b) ==
  /\ b \in deleting
  /\ BranchExists(b)
  /\ b \notin deleted
  /\ deleted' = deleted \cup {b}
  /\ deleting' = deleting \ {b}
  /\ UNCHANGED <<commits, packRanges, casPacks, head, defaultBranch, lease,
                 issued>>

\* No row to mark, an error or a lost connection: the transaction rolls back.
DeleteFail(b) ==
  /\ b \in deleting
  /\ deleting' = deleting \ {b}
  /\ UNCHANGED storeVars

BranchAdminNext ==
  \E b \in AdminBranch : \/ AdminCreateBranch(b)
                         \/ DeleteReadDefault(b)
                         \/ DeleteMark(b)
                         \/ DeleteFail(b)
=============================================================================
