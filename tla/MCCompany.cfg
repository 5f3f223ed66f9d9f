SPECIFICATION FairSessionSpec

CONSTANTS
  MAX_PLAYERS = 2
  MAX_FOOD = 0
  WORLD_WIDTH = 2
  WORLD_HEIGHT = 0
  Tenth = 1
  Stride = 1
  DiagonalStride = 1
  SpawnPoints <- MCSpawnPoints
  Moves <- MCMoves
  MaxSize = 100
  MaxSeq = 0
  MaxBurst = 1
  MaxBroken = 1
  TickWrap = 1
  Clients = {c1, c2}
  c1 = c1
  c2 = c2
  NoClient = NoClient
  MAX_INPUT_HISTORY = 1
  MAX_SNAPSHOTS = 1
  InOrder = FALSE
  MaxTick = 1
  MaxPackets = 1

PROPERTIES
  SeesWhoIsThere
