SPECIFICATION FSpec
CONSTANTS
  s0 = s0
  s1 = s1
  s2 = s2
  s3 = s3
  Scope = {s0, s1, s2, s3}
  Main = s0
  NoScope = NoScope
  Fn = {"f", "g"}
  MaxDepth = 4
SYMMETRY FramesSymmetry
INVARIANTS
  AlwaysInItsScope
