SPECIFICATION FairSpec

CONSTANTS
  NULL = NULL
  Addresses = {a1, a2, a3}
  SendQueueSize = 2
  ReceiveQueueSize = 2
  MaxPerPacket = 2

INVARIANTS
  MessagesTypeOK
  CountIsHolders
  MemoryReturned

PROPERTIES
  GameIsServed
  QueuesAreFifo
  ErrorEndsConnection
