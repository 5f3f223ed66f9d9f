SPECIFICATION ServerSpec

CONSTANTS
  MAX_PLAYERS = 2
  MAX_FOOD = 1
  WORLD_WIDTH = 200
  WORLD_HEIGHT = 0
  Tenth = 1
  Stride = 100
  DiagonalStride = 71
  SpawnPoints <- MCSpawnPoints
  Moves <- MCMoves
  MaxSize = 107
  MaxSeq = 1
  MaxBurst = 1
  MaxBroken = 1
  TickWrap = 1

PROPERTIES
  EaterGrows
