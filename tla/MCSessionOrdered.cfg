SPECIFICATION SessionSpec

CONSTANTS
  MAX_PLAYERS = 1
  MAX_FOOD = 0
  WORLD_WIDTH = 2
  WORLD_HEIGHT = 0
  Tenth = 1
  Stride = 1
  DiagonalStride = 1
  SpawnPoints <- MCSpawnPair
  Moves <- MCMoves
  MaxSize = 100
  MaxSeq = 4
  MaxBurst = 3
  MaxBroken = 1
  TickWrap = 6
  Clients = {c1}
  c1 = c1
  NoClient = NoClient
  MAX_INPUT_HISTORY = 3
  MAX_SNAPSHOTS = 2
  InOrder = TRUE
  MaxTick = 5
  MaxPackets = 3

INVARIANTS
  HistoryIsRecent
  PredictionIsReplay
  PredictionIsExact

PROPERTIES
  ImplementsServer
  ImplementsPrediction
