SPECIFICATION CSpec
CONSTANTS
  i1 = i1
  i2 = i2
  a = a
  b = b
  n = n
  Interp = {i1, i2}
  Main = i1
  Obj = {a, b, n}
  Lists = {a}
  NoObj = NoObj
  Nesting <- ThreadNesting
  Limit = 2
SYMMETRY CollectorSymmetry
INVARIANTS
  CInv
  ReachableExists
  LeftIsUnique
PROPERTIES
  SweepIsPrecise
