\* Clones and pulls while v2 packs are pushed and a branch is created and
\* deleted.
SPECIFICATION RackPullSpec
CONSTANTS
  root = root
  a = a
  b = b
  ab = ab
  ba = ba
  again = again
  NoCommit = NoCommit
  NoBranch = NoBranch
  NoLease = NoLease
  NoPack = NoPack
  main = main
  feature = feature
  Commit <- MCCommit
  Parents <- MCParents
  IdRank <- MCIdRank
  MaxMergeAncestryCommits = 6
  Branch = {main, feature}
  Pack <- TwoSidesPacks
  PushReq = {p1}
  MergeReq = {}
  AdminBranch = {feature}
  PullReq = {q1}
  MaxTokens = 0
  ClockSkew = FALSE
INVARIANTS
  PullTypeOK
  PulledHistoryComplete
  PulledInOrder
  CloneDecodes
PROPERTIES
  DefaultBranchStaysLive
