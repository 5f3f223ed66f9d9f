SPECIFICATION MCSpec

CONSTANTS
  MAX_PLAYERS = 3
  MAX_FOOD = 2
  WORLD_WIDTH = 200
  WORLD_HEIGHT = 0
  Tenth = 1
  Stride = 100
  DiagonalStride = 71
  SpawnPoints <- MCSpawnPoints
  Moves <- MCMoves
  MaxSize = 107
  MaxSeq = 1
  MaxBurst = 1
  MaxBroken = 1
  TickWrap = 1

INVARIANTS
  ServerTypeOK
  PlayersMatchConnected
  WireShowsSettledWorld

PROPERTIES
  InputsAreFresh
  OnlyTheEatenShrink
  ImplementsArena
  UpdateGetsOn
  UpdateCompletes
