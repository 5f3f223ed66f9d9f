SPECIFICATION Spec

CONSTANTS
  Clients = {c1, c2}
  c1 = c1
  c2 = c2
  Tick = 3
  UpdateTimes = {0, 2}
  MaxStall = 4
  EarlyWake = 1
  ClientInterval = 2
  Timeout = 7

INVARIANTS
  RunLoopTypeOK
  NeverAhead
  LagIsBounded
  LiveClientsKept

PROPERTIES
  CatchesUp
  DeadClientsDropped
