\* FindLowestCommonAncestor on every pair of commits of a small graph.
SPECIFICATION WalkSpec
CONSTANTS
  r = r
  a = a
  b = b
  x = x
  y = y
  z = z
  w = w
  o = o
  NoCommit = NoCommit
  Commit <- MCCommit
  Parents <- MCParents
  IdRank <- MCIdRank
  MaxMergeAncestryCommits = 5
INVARIANTS
  DepthsAreShortest
  AnswerIsNearest
PROPERTIES
  WalkReturns
CHECK_DEADLOCK FALSE
