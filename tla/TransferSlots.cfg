SPECIFICATION FairSpec
CONSTANTS
  Transfers = {t1, t2}
  Instances = {i1}
  NoInstance = NoInstance
  Connections = {c1}
  NoConnection = NoConnection
  MaxActive = 2
  Size = 1
  ChunkBytes = 1
  Window = 1
  MaxStray = 0
  MaxLives = 1
CHECK_DEADLOCK FALSE
INVARIANTS LimitsKept
PROPERTIES SlotsAreFreed
