\* Concurrent pushes of v2 and v3 packs to two branches, cut off anywhere.
SPECIFICATION RackPullSpec
CONSTANTS
  root = root
  a = a
  b = b
  ab = ab
  ba = ba
  again = again
  NoCommit = NoCommit
  NoBranch = NoBranch
  NoLease = NoLease
  NoPack = NoPack
  main = main
  feature = feature
  Commit <- MCCommit
  Parents <- MCParents
  IdRank <- MCIdRank
  MaxMergeAncestryCommits = 6
  Branch = {main, feature}
  Pack <- PushPacks
  PushReq = {p1, p2}
  MergeReq = {}
  AdminBranch = {}
  PullReq = {}
  MaxTokens = 0
  ClockSkew = FALSE
INVARIANTS
  TypeOK
  HeadHistoryComplete
  MetadataIsDurable
  VerifiedCommitsRegister
  HeadRangesReachRoot
PROPERTIES
  SidewaysOnlyByV3
SYMMETRY TwoPushes
