\* Two merge calls, their leases and their successors against a push of v2
\* packs.
SPECIFICATION DivergedSpec
CONSTANTS
  root = root
  a = a
  b = b
  ab = ab
  ba = ba
  again = again
  NoCommit = NoCommit
  NoBranch = NoBranch
  NoLease = NoLease
  NoPack = NoPack
  main = main
  feature = feature
  Commit <- MCCommit
  Parents <- MCParents
  IdRank <- MCIdRank
  MaxMergeAncestryCommits = 5
  Branch = {main, feature}
  Pack <- RefsPacks
  PushReq = {p1}
  MergeReq = {m1, m2}
  AdminBranch = {}
  PullReq = {}
  MaxTokens = 2
  ClockSkew = TRUE
INVARIANTS
  LeasePinsHead
PROPERTIES
  LeasedHeadMovesByMerge
  LeaseHolderMerges
  ImplementsBranchRefs
SYMMETRY TwoMerges
