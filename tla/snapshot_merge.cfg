SPECIFICATION MCSpec
CONSTANTS
  node = node
  edge = edge
  weight = weight
  lax = lax
  strict = strict
  s1 = s1
  s2 = s2
  s3 = s3
  v1 = v1
  v2 = v2
  Element = {node, edge}
  Property = {weight}
  Schema = {lax, strict}
  Structure = {s1, s2, s3}
  Value = {v1, v2}
  Absent = Absent
  Verdict <- MCVerdict
  Manual <- MCManual
CHECK_DEADLOCK FALSE
INVARIANTS MergeTypeOK PreviewIsThreeWay PreviewIsSymmetric ResolvedAsChosen RestIsThreeWay
