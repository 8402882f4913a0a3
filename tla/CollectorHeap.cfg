SPECIFICATION HFairSpec
CONSTANTS
  i1 = i1
  a = a
  b = b
  n = n
  Interp = {i1}
  Main = i1
  Obj = {a, b, n}
  Lists = {a, b}
  NoObj = NoObj
  Nesting <- NoNesting
  Limit = 1
  Word = 4
  ObjSize = 1
  Letters <- MCLetters
  NoOption = NoOption
  Options <- MCOptions
INVARIANTS
  CInv
  RoomIsRight
PROPERTIES
  MarkingTerminates
