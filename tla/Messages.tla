------------------------------ MODULE Messages -------------------------------
(***************************************************************************)
(* The messages of one end of a connection (a slot of the server, or a     *)
(* client) through its updates: they are created by a message factory with *)
(* memory of its own, counted references keep them alive while a packet,   *)
(* a queue or the game has them, and the last to let go destroys them.     *)
(*                                                                         *)
(*   AdvanceTime -> ReceivePackets -> ProcessMessages -> SendMessage       *)
(*        -> WritePacket -> AdvanceTime                                    *)
(*                                                                         *)
(* where ReceivePackets goes through ReadPacket and ProcessPacketData for  *)
(* every packet.  The factory, the reference count and the queues are in   *)
(* the repository's headers; the channel is known by its declaration and   *)
(* by how server and client use it.                                        *)
(***************************************************************************)
EXTENDS Queue, Functions

CONSTANTS
  Addresses,          \* where the factory's allocator has room for a message
  SendQueueSize,      \* messageSendQueueSize
  ReceiveQueueSize,   \* messageReceiveQueueSize
  MaxPerPacket        \* maxMessagesPerPacket

ASSUME MessagesAssumption ==
  /\ Addresses # {}
  /\ NULL \notin Addresses
  /\ SendQueueSize \in Nat \ {0}
  /\ ReceiveQueueSize \in Nat \ {0}
  /\ MaxPerPacket \in Nat \ {0}

VARIABLES
  refCount,       \* m_refCount of every message in allocated_messages
  factoryError,   \* the factory's m_errorLevel is not NONE
  channelError,   \* the channel's m_errorLevel is not NONE
  sendQueue,      \* m_messageSendQueue
  receiveQueue,   \* m_messageReceiveQueue
  packet,         \* ChannelPacketData: the messages of the packet at hand
  processed,      \* how many of them ProcessPacketData has seen
  message,        \* what the game's code has in its variable message or msg
  phase           \* where in the update this end is

messagesVars ==
  <<refCount, factoryError, channelError, sendQueue, receiveQueue,
    packet, processed, message, phase>>

Phases == {"Disconnected", "AdvanceTime", "ReceivePackets", "ReadPacket",
           "ProcessPacketData", "ProcessMessages", "SendMessage", "WritePacket"}

-----------------------------------------------------------------------------
(* The message factory.                                                    *)

allocated_messages == DOMAIN refCount

(* CreateMessage returned a message; it has one reference.                 *)
Created(m) ==
  /\ m \in Addresses \ allocated_messages
  /\ refCount' = [n \in allocated_messages \cup {m} |-> IF n = m THEN 1 ELSE refCount[n]]
  /\ factoryError' = factoryError

Acquired(m) == [refCount EXCEPT ![m] = @ + 1]

(* Mutant: a message is destroyed by whoever releases it first.            *)
ReleasedAtOnce(ms) == [m \in allocated_messages \ ms |-> refCount[m]]

(* ReleaseMessage on each of ms; those that nobody refers to any more are  *)
(* destroyed.                                                              *)
Released(ms) ==
  LET count(m) == IF m \in ms THEN refCount[m] - 1 ELSE refCount[m]
  IN  [m \in {n \in allocated_messages : count(n) # 0} |-> count(m)]

-----------------------------------------------------------------------------
Init ==
  /\ refCount = [m \in {} |-> 0]
  /\ factoryError = FALSE
  /\ channelError = FALSE
  /\ sendQueue = NewQueue(SendQueueSize)
  /\ receiveQueue = NewQueue(ReceiveQueueSize)
  /\ packet = <<>>
  /\ processed = 0
  /\ message = NULL
  /\ phase = "Disconnected"

(* Mutant: the factory's error level is forgotten.                         *)
InErrorOfChannel == channelError

InError == factoryError \/ channelError

(* A new connection starts without the errors of the last one.             *)
Connect ==
  /\ phase = "Disconnected"
  /\ phase' = "AdvanceTime"
  /\ factoryError' = FALSE
  /\ channelError' = FALSE
  /\ UNCHANGED <<refCount, sendQueue, receiveQueue, packet, processed, message>>

AdvanceTime ==
  /\ phase = "AdvanceTime"
  /\ ~InError
  /\ phase' = "ReceivePackets"
  /\ UNCHANGED <<refCount, factoryError, channelError, sendQueue, receiveQueue,
                 packet, processed, message>>

(* AdvanceTime finds the connection in error, closed or silent; the        *)
(* channel is reset.                                                       *)
Disconnect ==
  /\ phase = "AdvanceTime"
  /\ phase' = "Disconnected"
  /\ refCount' = Released(Range(Contents(sendQueue)) \cup Range(Contents(receiveQueue)))
  /\ sendQueue' = Cleared(sendQueue)
  /\ receiveQueue' = Cleared(receiveQueue)
  /\ UNCHANGED <<factoryError, channelError, packet, processed, message>>

-----------------------------------------------------------------------------
(* ReceivePackets.                                                         *)

(* A connection in error reads no more packets.                            *)
PacketArrives ==
  /\ phase = "ReceivePackets"
  /\ ~InError
  /\ phase' = "ReadPacket"
  /\ UNCHANGED <<refCount, factoryError, channelError, sendQueue, receiveQueue,
                 packet, processed, message>>

NoMorePackets ==
  /\ phase = "ReceivePackets"
  /\ phase' = "ProcessMessages"
  /\ UNCHANGED <<refCount, factoryError, channelError, sendQueue, receiveQueue,
                 packet, processed, message>>

ReadMessage ==
  /\ phase = "ReadPacket"
  /\ Len(packet) < MaxPerPacket
  /\ \E m \in Addresses :
       /\ Created(m)
       /\ packet' = Append(packet, m)
  /\ UNCHANGED <<channelError, sendQueue, receiveQueue, processed, message, phase>>

(* The packet is freed, its references with it.                            *)
FreePacket ==
  /\ packet' = <<>>
  /\ processed' = 0
  /\ refCount' = Released(Range(packet))

(* There is no memory for the next message of the packet.                  *)
ReadFails ==
  /\ phase = "ReadPacket"
  /\ Len(packet) < MaxPerPacket
  /\ allocated_messages = Addresses
  /\ factoryError' = TRUE
  /\ FreePacket
  /\ phase' = "ReceivePackets"
  /\ UNCHANGED <<channelError, sendQueue, receiveQueue, message>>

(* Serialize returned false for one of the messages.                       *)
SerializeFails ==
  /\ phase = "ReadPacket"
  /\ packet # <<>>
  /\ channelError' = TRUE
  /\ FreePacket
  /\ phase' = "ReceivePackets"
  /\ UNCHANGED <<factoryError, sendQueue, receiveQueue, message>>

PacketRead ==
  /\ phase = "ReadPacket"
  /\ phase' = "ProcessPacketData"
  /\ UNCHANGED <<refCount, factoryError, channelError, sendQueue, receiveQueue,
                 packet, processed, message>>

(* A message that finds no room in the receive queue is dropped.           *)
ProcessPacketMessage ==
  /\ phase = "ProcessPacketData"
  /\ processed < Len(packet)
  /\ processed' = processed + 1
  /\ IF IsFull(receiveQueue)
     THEN UNCHANGED <<refCount, receiveQueue>>
     ELSE /\ refCount' = Acquired(packet[processed + 1])
          /\ receiveQueue' = Pushed(receiveQueue, packet[processed + 1])
  /\ UNCHANGED <<factoryError, channelError, sendQueue, packet, message, phase>>

PacketProcessed ==
  /\ phase = "ProcessPacketData"
  /\ processed = Len(packet)
  /\ FreePacket
  /\ phase' = "ReceivePackets"
  /\ UNCHANGED <<factoryError, channelError, sendQueue, receiveQueue, message>>

-----------------------------------------------------------------------------
(* The game's part of the update.                                          *)

NothingToReceive == channelError \/ IsEmpty(receiveQueue)

ReceiveMessage ==
  /\ phase = "ProcessMessages"
  /\ message = NULL
  /\ ~NothingToReceive
  /\ message' = Oldest(receiveQueue)
  /\ receiveQueue' = Popped(receiveQueue)
  /\ UNCHANGED <<refCount, factoryError, channelError, sendQueue, packet, processed, phase>>

(* Mutant: a message of unknown type is not released.                      *)
ReleaseKnownMessage ==
  /\ phase = "ProcessMessages"
  /\ message # NULL
  /\ refCount' \in {refCount, Released({message})}
  /\ message' = NULL
  /\ UNCHANGED <<factoryError, channelError, sendQueue, receiveQueue, packet, processed, phase>>

(* Whatever its type, the game looks at the message and releases it.       *)
ReleaseMessage ==
  /\ phase = "ProcessMessages"
  /\ message # NULL
  /\ refCount' = Released({message})
  /\ message' = NULL
  /\ UNCHANGED <<factoryError, channelError, sendQueue, receiveQueue, packet, processed, phase>>

(* Mutant: one message per update is enough.                               *)
MessagesProcessedEarly ==
  /\ phase = "ProcessMessages"
  /\ message = NULL
  /\ phase' = "SendMessage"
  /\ UNCHANGED <<refCount, factoryError, channelError, sendQueue, receiveQueue,
                 packet, processed, message>>

MessagesProcessed ==
  /\ phase = "ProcessMessages"
  /\ message = NULL
  /\ NothingToReceive
  /\ phase' = "SendMessage"
  /\ UNCHANGED <<refCount, factoryError, channelError, sendQueue, receiveQueue,
                 packet, processed, message>>

(* CreateMessage for a world state or an input; when it returns NULL, the  *)
(* game says so and sends nothing.                                         *)
CreateMessage ==
  /\ phase = "SendMessage"
  /\ message = NULL
  /\ IF allocated_messages = Addresses
     THEN /\ factoryError' = TRUE
          /\ phase' = "WritePacket"
          /\ UNCHANGED <<refCount, message>>
     ELSE \E m \in Addresses : Created(m) /\ message' = m /\ phase' = phase
  /\ UNCHANGED <<channelError, sendQueue, receiveQueue, packet, processed>>

(* A client has no key down.                                               *)
SendNothing ==
  /\ phase = "SendMessage"
  /\ message = NULL
  /\ phase' = "WritePacket"
  /\ UNCHANGED <<refCount, factoryError, channelError, sendQueue, receiveQueue,
                 packet, processed, message>>

(* The channel takes the message over; in error, or when the send queue is *)
(* full, which is an error, it releases it.                                *)
SendMessage ==
  /\ phase = "SendMessage"
  /\ message # NULL
  /\ channelError' = (channelError \/ IsFull(sendQueue))
  /\ IF channelError'
     THEN refCount' = Released({message}) /\ sendQueue' = sendQueue
     ELSE sendQueue' = Pushed(sendQueue, message) /\ refCount' = refCount
  /\ message' = NULL
  /\ phase' = "WritePacket"
  /\ UNCHANGED <<factoryError, receiveQueue, packet, processed>>

-----------------------------------------------------------------------------
(* SendPackets: the queue's reference to a message becomes the packet's.   *)
WriteMessage ==
  /\ phase = "WritePacket"
  /\ ~IsEmpty(sendQueue)
  /\ Len(packet) < MaxPerPacket
  /\ sendQueue' = Popped(sendQueue)
  /\ packet' = Append(packet, Oldest(sendQueue))
  /\ UNCHANGED <<refCount, factoryError, channelError, receiveQueue, processed, message, phase>>

(* A message too large for the packet is dropped.                          *)
DropMessage ==
  /\ phase = "WritePacket"
  /\ ~IsEmpty(sendQueue)
  /\ Len(packet) < MaxPerPacket
  /\ sendQueue' = Popped(sendQueue)
  /\ refCount' = Released({Oldest(sendQueue)})
  /\ UNCHANGED <<factoryError, channelError, receiveQueue, packet, processed, message, phase>>

SendPacket ==
  /\ phase = "WritePacket"
  /\ IsEmpty(sendQueue) \/ Len(packet) = MaxPerPacket
  /\ FreePacket
  /\ phase' = "AdvanceTime"
  /\ UNCHANGED <<factoryError, channelError, sendQueue, receiveQueue, message>>

Runs ==
  \/ AdvanceTime \/ Disconnect
  \/ NoMorePackets \/ ReadMessage \/ ReadFails \/ SerializeFails \/ PacketRead
  \/ ProcessPacketMessage \/ PacketProcessed
  \/ ReceiveMessage \/ ReleaseMessage \/ MessagesProcessed
  \/ CreateMessage \/ SendNothing \/ SendMessage
  \/ WriteMessage \/ DropMessage \/ SendPacket

Next == Connect \/ PacketArrives \/ Runs

Spec == Init /\ [][Next]_messagesVars

(* The thread that runs the updates goes on.                               *)
FairSpec == Spec /\ WF_messagesVars(Runs)

-----------------------------------------------------------------------------
(* Properties.                                                             *)

(* The type invariant: the queues stay inside their arrays, and a message  *)
(* that exists has a reference.                                            *)
MessagesTypeOK ==
  /\ allocated_messages \subseteq Addresses
  /\ refCount \in [allocated_messages -> Nat \ {0}]
  /\ factoryError \in BOOLEAN
  /\ channelError \in BOOLEAN
  /\ sendQueue \in Queues(Addresses \cup {NULL}, SendQueueSize)
  /\ receiveQueue \in Queues(Addresses \cup {NULL}, ReceiveQueueSize)
  /\ packet \in Seq(Addresses)
  /\ Len(packet) <= MaxPerPacket
  /\ processed \in 0 .. Len(packet)
  /\ message \in Addresses \cup {NULL}
  /\ phase \in Phases

(* Who refers to message m.                                                *)
InPacket(m)       == m \in Range(packet)
InSendQueue(m)    == m \in Range(Contents(sendQueue))
InReceiveQueue(m) == m \in Range(Contents(receiveQueue))

One(b) == IF b THEN 1 ELSE 0

Holders(m) ==
  One(InPacket(m)) + One(InSendQueue(m)) + One(InReceiveQueue(m)) + One(message = m)

(* The count of every message is the number of places that refer to it:    *)
(* nothing that is still referred to has been destroyed, nothing that is   *)
(* forgotten stays (yojimbo_message.h would find a leak only when the      *)
(* factory is destroyed, in a debug build).                                *)
CountIsHolders ==
  \A m \in Addresses :
    Holders(m) = IF m \in allocated_messages THEN refCount[m] ELSE 0

(* All memory is back when a connection has ended, and after every update  *)
(* of a connection whose channel is in order.                              *)
MemoryReturned ==
  \/ phase = "Disconnected"
  \/ phase = "AdvanceTime" /\ ~channelError
  => allocated_messages = {}

(* The game's own message finds memory and a place in the send queue,      *)
(* however many packets came in, unless the channel had failed before:     *)
(* neither CreateMessage nor SendMessage in BroadcastWorldState or in      *)
(* SendInput is what puts a connection into error.                         *)
GameIsServed ==
  [][phase = "SendMessage" /\ ~channelError => UNCHANGED <<factoryError, channelError>>]_messagesVars

(* Both circular buffers are queues, wherever they start.                  *)
ReceiveFifo == INSTANCE Fifo WITH
  Items <- Addresses, Capacity <- ReceiveQueueSize, contents <- Contents(receiveQueue)
SendFifo == INSTANCE Fifo WITH
  Items <- Addresses, Capacity <- SendQueueSize, contents <- Contents(sendQueue)

QueuesAreFifo == ReceiveFifo!Spec /\ SendFifo!Spec

(* An error ends the connection.                                           *)
ErrorEndsConnection == factoryError \/ channelError ~> phase = "Disconnected"
=============================================================================
