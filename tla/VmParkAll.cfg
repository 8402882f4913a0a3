SPECIFICATION Spec
CONSTANTS
  i1 = i1
  i2 = i2
  i3 = i3
  Interp = {i1, i2}
  Main = i1
  GC = GC
  NoThread = NoThread
  Reuse = FALSE
  Allocates = {i1, i2}
  Starts <- AnyPair
  Joins <- AnyPair
PROPERTIES
  ParkAllReturns
