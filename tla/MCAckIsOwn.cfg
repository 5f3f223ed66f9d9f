SPECIFICATION SessionSpec

CONSTANTS
  MAX_PLAYERS = 1
  MAX_FOOD = 0
  WORLD_WIDTH = 2
  WORLD_HEIGHT = 0
  Tenth = 1
  Stride = 1
  DiagonalStride = 1
  SpawnPoints <- MCSpawnPoints
  Moves <- MCMoves
  MaxSize = 100
  MaxSeq = 1
  MaxBurst = 2
  MaxBroken = 1
  TickWrap = 5
  Clients = {c1, c2}
  c1 = c1
  c2 = c2
  NoClient = NoClient
  MAX_INPUT_HISTORY = 2
  MAX_SNAPSHOTS = 1
  InOrder = TRUE
  MaxTick = 4
  MaxPackets = 2

INVARIANTS
  AckIsOwn
