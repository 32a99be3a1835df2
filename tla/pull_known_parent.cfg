\* Can what an incremental pull is sent be decoded?
SPECIFICATION MergedSpec
CONSTANTS
  root = root
  a = a
  b = b
  ab = ab
  ba = ba
  again = again
  NoCommit = NoCommit
  NoBranch = NoBranch
  NoLease = NoLease
  NoPack = NoPack
  main = main
  feature = feature
  Commit <- AgainCommit
  Parents <- AgainParents
  IdRank <- AgainIdRank
  MaxMergeAncestryCommits = 6
  Branch = {main, feature}
  Pack <- AgainPacks
  PushReq = {}
  MergeReq = {m1}
  AdminBranch = {}
  PullReq = {q1}
  MaxTokens = 1
  ClockSkew = FALSE
INVARIANTS
  PullDecodes
