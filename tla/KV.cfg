SPECIFICATION SSpec
CONSTANTS
  Key = {5, 6, 12, 22, 33, 39, 50}
  Value = {1}
  Wanted = {22}
  Hash <- MCHash
  Capacities <- MCCapacities
  UpPercent = 70
  DownPercent = 30
  ReducePercent = 10
INVARIANTS
  KTypeOK
  LiveIsFound
  CountersAreRight
  RoomLeft
  RehashRebuilds
  LookupIsRight
PROPERTIES
  IsAMap
