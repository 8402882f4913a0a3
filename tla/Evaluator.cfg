SPECIFICATION ESpec
CONSTANTS
  x = x
  y = y
  Names = {x, y}
  Constants <- SomeConstants
  Width = 4
  Mantissa = 2
  MaxLen = 1
  a = a
  Lists = {a}
  MaxElements = 2
  Kept <- SomeKept
SYMMETRY EvaluatorSymmetry
INVARIANTS
  ETypeOK
  AgreesWithPython
  OneOrder
