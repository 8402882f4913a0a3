SPECIFICATION CSpec
CONSTANTS
  i1 = i1
  i2 = i2
  a = a
  n = n
  Interp = {i1, i2}
  Main = i1
  Obj = {a, n}
  Lists = {a}
  NoObj = NoObj
  Nesting <- MainNesting
  Limit = 1
SYMMETRY CollectorSymmetry
INVARIANTS
  OperandExists
