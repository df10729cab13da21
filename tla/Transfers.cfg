SPECIFICATION Spec
CONSTANTS
  Transfers = {t1}
  Instances = {i1}
  NoInstance = NoInstance
  Connections = {c1, c2}
  NoConnection = NoConnection
  MaxActive = 2
  Size = 4
  ChunkBytes = 2
  Window = 1
  MaxStray = 1
  MaxLives = 2
CHECK_DEADLOCK FALSE
INVARIANTS WindowKept CancelReachesGame ActiveHasTask
PROPERTIES EndsOnce KeepsPromise
