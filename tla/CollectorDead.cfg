SPECIFICATION CSpec
CONSTANTS
  i1 = i1
  i2 = i2
  a = a
  b = b
  n = n
  Interp = {i1, i2}
  Main = i1
  Obj = {a, b, n}
  Lists = {a, b}
  NoObj = NoObj
  Nesting <- NoNesting
  Limit = 1
SYMMETRY CollectorSymmetry
INVARIANTS
  OnlyDeadDeleted
