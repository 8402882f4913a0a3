SPECIFICATION Safety
CONSTANTS
  i1 = i1
  i2 = i2
  i3 = i3
  Interp = {i1, i2, i3}
  Main = i1
  GC = GC
  NoThread = NoThread
  Reuse = FALSE
  Allocates = {i1, i2, i3}
  Starts <- AnyPair
  Joins <- AnyPair
SYMMETRY Symmetry
INVARIANTS
  TerminateOnlyAtLaunch
  IInv
  WorldStands
  SnapshotIsCurrent
  NoStaleUnpark
  NoStalePark
  LaunchedIsAlive
  CollectJoinsAll
  JoinWaitsForThread
PROPERTIES
  KeepsStopTheWorld
