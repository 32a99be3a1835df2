\* A v3 pack on the head it names as its base.
SPECIFICATION RackPullSpec
CONSTANTS
  root = root
  a = a
  b = b
  ab = ab
  ba = ba
  again = again
  NoCommit = NoCommit
  NoBranch = NoBranch
  NoLease = NoLease
  NoPack = NoPack
  main = main
  feature = feature
  Commit <- MCCommit
  Parents <- MCParents
  IdRank <- MCIdRank
  MaxMergeAncestryCommits = 6
  Branch = {main}
  Pack <- SidewaysPacks
  PushReq = {p1}
  MergeReq = {}
  AdminBranch = {}
  PullReq = {}
  MaxTokens = 0
  ClockSkew = FALSE
PROPERTIES
  FastForwardOnly
