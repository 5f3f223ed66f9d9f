SPECIFICATION UsedSlotsSpec

CONSTANTS
  MAX_PLAYERS = 1
  MAX_FOOD = 0
  WORLD_WIDTH = 2
  WORLD_HEIGHT = 0
  Tenth = 1
  Stride = 1
  DiagonalStride = 1
  SpawnPoints <- MCSpawnAtEnd
  Moves <- MCMoves
  MaxSize = 100
  MaxSeq = 3
  MaxBurst = 2
  MaxBroken = 1
  TickWrap = 1
  Clients = {c1}
  c1 = c1
  NoClient = NoClient
  MAX_INPUT_HISTORY = 2
  MAX_SNAPSHOTS = 1
  InOrder = FALSE
  MaxTick = 1
  MaxPackets = 2

INVARIANTS
  SessionTypeOK
  HistoryIsRecent
  PredictionIsReplay
  MovedAtMostAsSent

PROPERTIES
  SettlesOnServer
