SPECIFICATION ChainSpec
CONSTANTS
  root = root
  a = a
  b = b
  s0 = s0
  s1 = s1
  main = main
  dev = dev
  pa = pa
  pb = pb
  pab = pab
  xa = xa
  xb = xb
  xab = xab
  c1 = c1
  c2 = c2
  Commit = {root, a, b}
  NoCommit = NoCommit
  Parents <- MCParents
  Branch = {main, dev}
  Snapshot = {s0, s1}
  SnapshotOf <- MCSnapshotOf
  Pack = {pa, pb, pab}
  NoPack = NoPack
  Blob = {xa, xb, xab}
  NoBlob = NoBlob
  NoRow = NoRow
  Content <- MCContent
  Request <- MCRequest
  AuditRecord <- MCAuditRecord
  Call = {c1, c2}
  CanDeletePack = TRUE
SYMMETRY CallSymmetry
CHECK_DEADLOCK FALSE
INVARIANTS NativeTypeOK PushAnswerHolds LookupsFindObjects
PROPERTIES KeyPublishesOnce PassKeepsHistory RetainedStays
