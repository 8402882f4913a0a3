SPECIFICATION Spec
CONSTANTS
  i1 = i1
  i2 = i2
  i3 = i3
  Interp = {i1, i2, i3}
  Main = i1
  GC = GC
  NoThread = NoThread
  Reuse = TRUE
  Allocates = {}
  Starts <- Chain
  Joins <- BothJoin
PROPERTIES
  ParkAllReturnsOrStuck
  StopEnds
  ParkedRunsAgain
  JoinReturns
  CollectReturns
