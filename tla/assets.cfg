SPECIFICATION Spec
CONSTANTS
  r1 = r1
  id1 = id1
  small = small
  large = large
  u1 = u1
  u2 = u2
  u3 = u3
  Upload = {u1, u2, u3}
  Scope = {id1}
  Repo = {r1}
  RepoOf <- MCRepoOf
  Blob = {small, large}
  NoBlob = NoBlob
  Size <- MCSize
  Quota = {0, 3}
  PowerMayFail = FALSE
SYMMETRY UploadSymmetry
CHECK_DEADLOCK FALSE
INVARIANTS AssetTypeOK BadFileHasWriter AcceptedIsOpenable UsageAccounted
PROPERTY ChargesWithinQuota
