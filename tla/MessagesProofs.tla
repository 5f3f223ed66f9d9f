---------------------------- MODULE MessagesProofs ----------------------------
(***************************************************************************)
(* Proofs about Messages, for queues and packets of every size and every   *)
(* amount of memory.  The queues are looked at through Contents only; what *)
(* Push and Pop do to that is proved in QueueTheorems.                     *)
(***************************************************************************)
EXTENDS Messages, QueueTheorems

Pointers == Addresses \cup {NULL}

waiting  == Contents(sendQueue)
received == Contents(receiveQueue)

-----------------------------------------------------------------------------
(* Sequences and the sets of what they hold.                               *)

Distinct(s) == \A i, j \in 1 .. Len(s) : s[i] = s[j] => i = j

LEMMA RangeOfEmpty == Range(<<>>) = {} /\ Distinct(<<>>)
BY DEF Range, Distinct

LEMMA RangeOfAppend ==
  ASSUME NEW s \in Seq(Addresses), NEW e \in Addresses
  PROVE  /\ Append(s, e) \in Seq(Addresses)
         /\ Len(Append(s, e)) = Len(s) + 1
         /\ Range(Append(s, e)) = Range(s) \cup {e}
         /\ Distinct(s) /\ e \notin Range(s) => Distinct(Append(s, e))
         /\ \A i \in 1 .. Len(s) : Append(s, e)[i] = s[i]
         /\ Append(s, e)[Len(s) + 1] = e
BY AppendProperties DEF Range, Distinct

LEMMA RangeOfTail ==
  ASSUME NEW s \in Seq(Addresses), s # <<>>
  PROVE  /\ Tail(s) \in Seq(Addresses)
         /\ Len(Tail(s)) = Len(s) - 1
         /\ Head(s) \in Addresses
         /\ Head(s) \in Range(s)
         /\ Distinct(s) => Distinct(Tail(s)) /\ Range(Tail(s)) = Range(s) \ {Head(s)}
<1>1. /\ Len(s) \in Nat \ {0}
      /\ Head(s) = s[1]
      /\ Tail(s) \in Seq(Addresses)
      /\ Len(Tail(s)) = Len(s) - 1
      /\ \A i \in 1 .. Len(s) - 1 : Tail(s)[i] = s[i + 1]
  BY HeadTailProperties
<1>2. Head(s) \in Range(s) /\ Head(s) \in Addresses
  BY <1>1 DEF Range
<1>3. ASSUME Distinct(s)
      PROVE  Distinct(Tail(s)) /\ Range(Tail(s)) = Range(s) \ {Head(s)}
  <2>1. Distinct(Tail(s))
    BY <1>1, <1>3 DEF Distinct
  <2>2. Range(Tail(s)) = {s[i + 1] : i \in 1 .. Len(s) - 1}
    <3>1. Range(Tail(s)) = {Tail(s)[i] : i \in 1 .. Len(s) - 1}
      BY <1>1, RangeEquality
    <3> QED
      BY <1>1, <3>1
  <2>3. ASSUME NEW x \in Range(s), x # Head(s)
        PROVE  x \in Range(Tail(s))
    <3>1. PICK i \in 1 .. Len(s) : x = s[i]
      BY RangeEquality DEF Range
    <3>2. i - 1 \in 1 .. Len(s) - 1 /\ (i - 1) + 1 = i
      BY <1>1, <2>3, <3>1
    <3> QED
      BY <2>2, <3>1, <3>2
  <2>4. ASSUME NEW x \in Range(Tail(s))
        PROVE  x \in Range(s) /\ x # Head(s)
    <3>1. PICK i \in 1 .. Len(s) - 1 : x = s[i + 1]
      BY <2>2, <2>4
    <3>2. i + 1 \in 1 .. Len(s) /\ i + 1 # 1 /\ 1 \in 1 .. Len(s)
      BY <1>1
    <3> QED
      BY <1>1, <1>3, <3>1, <3>2 DEF Distinct, Range
  <2> QED
    BY <2>1, <2>3, <2>4
<1> QED
  BY <1>1, <1>2, <1>3

-----------------------------------------------------------------------------
(* Type correctness.  Queues of pointers are not enough: NULL is never     *)
(* among the entries that are in use.                                      *)

TypeInv ==
  /\ MessagesTypeOK
  /\ waiting \in Seq(Addresses)
  /\ received \in Seq(Addresses)

LEMMA ReleasedTyped ==
  ASSUME refCount \in [allocated_messages -> Nat \ {0}], NEW ms
  PROVE  /\ Released(ms) \in [DOMAIN Released(ms) -> Nat \ {0}]
         /\ DOMAIN Released(ms) \subseteq allocated_messages
BY DEF Released, allocated_messages

LEMMA TypeInvInit == Init => TypeInv
<1> SUFFICES ASSUME Init
             PROVE  TypeInv
  OBVIOUS
<1>1. NULL \in Pointers /\ SendQueueSize \in Nat \ {0} /\ ReceiveQueueSize \in Nat \ {0}
  BY MessagesAssumption DEF Pointers
<1>2. /\ sendQueue \in Queues(Pointers, SendQueueSize) /\ waiting = <<>>
      /\ receiveQueue \in Queues(Pointers, ReceiveQueueSize) /\ received = <<>>
  BY <1>1, NewQueueIsEmpty DEF Init, waiting, received
<1>3. waiting \in Seq(Addresses) /\ received \in Seq(Addresses)
  BY <1>2, EmptySeq
<1>4. packet \in Seq(Addresses) /\ Len(packet) = 0
  BY EmptySeq DEF Init
<1>5. /\ allocated_messages \subseteq Addresses
      /\ refCount \in [allocated_messages -> Nat \ {0}]
  BY DEF Init, allocated_messages
<1>6. Len(packet) <= MaxPerPacket /\ processed \in 0 .. Len(packet)
  BY <1>4, MessagesAssumption DEF Init
<1> QED
  BY <1>2, <1>3, <1>4, <1>5, <1>6
  DEF Init, TypeInv, MessagesTypeOK, Phases, Pointers

(* What one step does to the contents of the queues.                       *)
LEMMA QueueSteps ==
  ASSUME TypeInv
  PROVE  /\ ~IsEmpty(sendQueue) =>
              /\ Popped(sendQueue) \in Queues(Pointers, SendQueueSize)
              /\ waiting # <<>>
              /\ Oldest(sendQueue) = Head(waiting)
              /\ Contents(Popped(sendQueue)) = Tail(waiting)
         /\ ~IsEmpty(receiveQueue) =>
              /\ Popped(receiveQueue) \in Queues(Pointers, ReceiveQueueSize)
              /\ received # <<>>
              /\ Oldest(receiveQueue) = Head(received)
              /\ Contents(Popped(receiveQueue)) = Tail(received)
         /\ \A m \in Addresses : ~IsFull(sendQueue) =>
              /\ Pushed(sendQueue, m) \in Queues(Pointers, SendQueueSize)
              /\ Contents(Pushed(sendQueue, m)) = Append(waiting, m)
         /\ \A m \in Addresses : ~IsFull(receiveQueue) =>
              /\ Pushed(receiveQueue, m) \in Queues(Pointers, ReceiveQueueSize)
              /\ Contents(Pushed(receiveQueue, m)) = Append(received, m)
         /\ Cleared(sendQueue) \in Queues(Pointers, SendQueueSize)
         /\ Contents(Cleared(sendQueue)) = <<>>
         /\ Cleared(receiveQueue) \in Queues(Pointers, ReceiveQueueSize)
         /\ Contents(Cleared(receiveQueue)) = <<>>
         /\ IsEmpty(sendQueue) <=> waiting = <<>>
         /\ IsEmpty(receiveQueue) <=> received = <<>>
         /\ IsFull(sendQueue) <=> Len(waiting) = SendQueueSize
         /\ IsFull(receiveQueue) <=> Len(received) = ReceiveQueueSize
<1>1. /\ sendQueue \in Queues(Pointers, SendQueueSize)
      /\ receiveQueue \in Queues(Pointers, ReceiveQueueSize)
      /\ SendQueueSize \in Nat \ {0} /\ ReceiveQueueSize \in Nat \ {0}
      /\ Addresses \subseteq Pointers
  BY MessagesAssumption DEF TypeInv, MessagesTypeOK, Pointers
<1>2. ~IsEmpty(sendQueue) =>
        /\ Popped(sendQueue) \in Queues(Pointers, SendQueueSize)
        /\ waiting # <<>>
        /\ Oldest(sendQueue) = Head(waiting)
        /\ Contents(Popped(sendQueue)) = Tail(waiting)
  BY <1>1, PopTakesHead DEF waiting
<1>3. ~IsEmpty(receiveQueue) =>
        /\ Popped(receiveQueue) \in Queues(Pointers, ReceiveQueueSize)
        /\ received # <<>>
        /\ Oldest(receiveQueue) = Head(received)
        /\ Contents(Popped(receiveQueue)) = Tail(received)
  BY <1>1, PopTakesHead DEF received
<1>4. \A m \in Addresses : ~IsFull(sendQueue) =>
        /\ Pushed(sendQueue, m) \in Queues(Pointers, SendQueueSize)
        /\ Contents(Pushed(sendQueue, m)) = Append(waiting, m)
  BY <1>1, PushAppends DEF waiting
<1>5. \A m \in Addresses : ~IsFull(receiveQueue) =>
        /\ Pushed(receiveQueue, m) \in Queues(Pointers, ReceiveQueueSize)
        /\ Contents(Pushed(receiveQueue, m)) = Append(received, m)
  BY <1>1, PushAppends DEF received
<1>6. /\ Cleared(sendQueue) \in Queues(Pointers, SendQueueSize)
      /\ Contents(Cleared(sendQueue)) = <<>>
      /\ Cleared(receiveQueue) \in Queues(Pointers, ReceiveQueueSize)
      /\ Contents(Cleared(receiveQueue)) = <<>>
  BY <1>1, ClearedIsEmpty
<1>7. /\ IsEmpty(sendQueue) <=> waiting = <<>>
      /\ IsEmpty(receiveQueue) <=> received = <<>>
  BY <1>1, ContentsIsSeq DEF waiting, received
<1>8. /\ IsFull(sendQueue) <=> Len(waiting) = SendQueueSize
      /\ IsFull(receiveQueue) <=> Len(received) = ReceiveQueueSize
  BY <1>1, ContentsIsSeq, Fields DEF waiting, received, IsFull
<1> QED
  BY <1>2, <1>3, <1>4, <1>5, <1>6, <1>7, <1>8

LEMMA FreedTyped ==
  ASSUME TypeInv, FreePacket
  PROVE  /\ packet' \in Seq(Addresses)
         /\ Len(packet') <= MaxPerPacket
         /\ processed' \in 0 .. Len(packet')
         /\ allocated_messages' \subseteq Addresses
         /\ refCount' \in [allocated_messages' -> Nat \ {0}]
BY ReleasedTyped, MessagesAssumption DEF FreePacket, TypeInv, MessagesTypeOK, allocated_messages

LEMMA TypeInvStep == TypeInv /\ [Next]_messagesVars => TypeInv'
<1> SUFFICES ASSUME TypeInv, [Next]_messagesVars
             PROVE  TypeInv'
  OBVIOUS
<1> USE DEF TypeInv, MessagesTypeOK, waiting, received
<1>1. CASE Connect
  BY <1>1 DEF Connect, Phases, allocated_messages
<1>2. CASE PacketArrives
  BY <1>2 DEF PacketArrives, Phases, allocated_messages
<1>3. CASE AdvanceTime
  BY <1>3 DEF AdvanceTime, Phases, allocated_messages
<1>4. CASE Disconnect
  <2>1. /\ sendQueue' \in Queues(Pointers, SendQueueSize) /\ waiting' = <<>>
        /\ receiveQueue' \in Queues(Pointers, ReceiveQueueSize) /\ received' = <<>>
    BY <1>4, QueueSteps DEF Disconnect
  <2>2. /\ allocated_messages' \subseteq Addresses
        /\ refCount' \in [allocated_messages' -> Nat \ {0}]
    BY <1>4, ReleasedTyped DEF Disconnect, allocated_messages
  <2>3. waiting' \in Seq(Addresses) /\ received' \in Seq(Addresses)
    BY <2>1, EmptySeq
  <2> QED
    BY <1>4, <2>1, <2>2, <2>3 DEF Disconnect, Phases, Pointers
<1>5. CASE NoMorePackets
  BY <1>5 DEF NoMorePackets, Phases, allocated_messages
<1>6. CASE ReadMessage
  <2>1. PICK m \in Addresses : Created(m) /\ packet' = Append(packet, m)
    BY <1>6 DEF ReadMessage
  <2>2. /\ allocated_messages' \subseteq Addresses
        /\ refCount' \in [allocated_messages' -> Nat \ {0}]
        /\ factoryError' = factoryError
    BY <2>1 DEF Created, allocated_messages
  <2>3. packet' \in Seq(Addresses) /\ Len(packet') = Len(packet) + 1 /\ Len(packet) \in Nat
    BY <2>1, RangeOfAppend
  <2>4. Len(packet') <= MaxPerPacket /\ processed' \in 0 .. Len(packet')
    BY <1>6, <2>3, MessagesAssumption DEF ReadMessage
  <2> QED
    BY <1>6, <2>2, <2>3, <2>4 DEF ReadMessage
<1>7. CASE ReadFails
  BY <1>7, FreedTyped DEF ReadFails, Phases
<1>8. CASE SerializeFails
  BY <1>8, FreedTyped DEF SerializeFails, Phases
<1>9. CASE PacketRead
  BY <1>9 DEF PacketRead, Phases, allocated_messages
<1>10. CASE ProcessPacketMessage
  <2>1. processed + 1 \in 1 .. Len(packet) /\ packet[processed + 1] \in Addresses
    BY <1>10 DEF ProcessPacketMessage
  <2>2. /\ allocated_messages' \subseteq Addresses
        /\ refCount' \in [allocated_messages' -> Nat \ {0}]
    BY <1>10 DEF ProcessPacketMessage, Acquired, allocated_messages
  <2>3. receiveQueue' \in Queues(Pointers, ReceiveQueueSize) /\ received' \in Seq(Addresses)
    <3>1. CASE IsFull(receiveQueue)
      BY <1>10, <3>1 DEF ProcessPacketMessage, Pointers
    <3>2. CASE ~IsFull(receiveQueue)
      <4>1. receiveQueue' = Pushed(receiveQueue, packet[processed + 1])
        BY <1>10, <3>2 DEF ProcessPacketMessage
      <4>2. receiveQueue' \in Queues(Pointers, ReceiveQueueSize)
            /\ received' = Append(received, packet[processed + 1])
        BY <2>1, <3>2, <4>1, QueueSteps
      <4> QED
        BY <2>1, <4>2, RangeOfAppend
    <3> QED
      BY <3>1, <3>2
  <2> QED
    BY <1>10, <2>1, <2>2, <2>3 DEF ProcessPacketMessage, Pointers
<1>11. CASE PacketProcessed
  BY <1>11, FreedTyped DEF PacketProcessed, Phases
<1>12. CASE ReceiveMessage
  <2>1. ~IsEmpty(receiveQueue)
    BY <1>12 DEF ReceiveMessage, NothingToReceive
  <2>2. /\ receiveQueue' \in Queues(Pointers, ReceiveQueueSize)
        /\ received # <<>>
        /\ received' = Tail(received)
        /\ message' = Head(received)
    BY <1>12, <2>1, QueueSteps DEF ReceiveMessage
  <2>3. received' \in Seq(Addresses) /\ message' \in Addresses
    BY <2>2, RangeOfTail
  <2> QED
    BY <1>12, <2>2, <2>3 DEF ReceiveMessage, Pointers, allocated_messages
<1>13. CASE ReleaseMessage
  <2>1. /\ allocated_messages' \subseteq Addresses
        /\ refCount' \in [allocated_messages' -> Nat \ {0}]
    BY <1>13, ReleasedTyped DEF ReleaseMessage, allocated_messages
  <2> QED
    BY <1>13, <2>1 DEF ReleaseMessage
<1>14. CASE MessagesProcessed
  BY <1>14 DEF MessagesProcessed, Phases, allocated_messages
<1>15. CASE CreateMessage
  <2>1. CASE allocated_messages = Addresses
    BY <1>15, <2>1 DEF CreateMessage, Phases, allocated_messages
  <2>2. CASE allocated_messages # Addresses
    <3>1. PICK m \in Addresses : Created(m) /\ message' = m /\ phase' = phase
      BY <1>15, <2>2 DEF CreateMessage
    <3>2. /\ allocated_messages' \subseteq Addresses
          /\ refCount' \in [allocated_messages' -> Nat \ {0}]
          /\ factoryError' = factoryError
      BY <3>1 DEF Created, allocated_messages
    <3> QED
      BY <1>15, <3>1, <3>2 DEF CreateMessage
  <2> QED
    BY <2>1, <2>2
<1>16. CASE SendNothing
  BY <1>16 DEF SendNothing, Phases, allocated_messages
<1>17. CASE SendMessage
  <2>1. channelError' \in BOOLEAN
    BY <1>17, Zenon DEF SendMessage
  <2>2. CASE channelError'
    <3>1. /\ allocated_messages' \subseteq Addresses
          /\ refCount' \in [allocated_messages' -> Nat \ {0}]
          /\ sendQueue' = sendQueue
      BY <1>17, <2>2, ReleasedTyped DEF SendMessage, allocated_messages
    <3> QED
      BY <1>17, <2>1, <3>1 DEF SendMessage, Phases
  <2>3. CASE ~channelError'
    <3>1. sendQueue' = Pushed(sendQueue, message) /\ refCount' = refCount
      BY <1>17, <2>3 DEF SendMessage
    <3>2. ~IsFull(sendQueue)
      BY <1>17, <2>3, Zenon DEF SendMessage
    <3>3. message \in Addresses
      BY <1>17 DEF SendMessage
    <3>4. sendQueue' \in Queues(Pointers, SendQueueSize) /\ waiting' = Append(waiting, message)
      BY <3>1, <3>2, <3>3, QueueSteps
    <3>5. waiting' \in Seq(Addresses)
      BY <3>3, <3>4, RangeOfAppend
    <3> QED
      BY <1>17, <2>1, <3>1, <3>4, <3>5 DEF SendMessage, Phases, Pointers, allocated_messages
  <2> QED
    BY <2>2, <2>3
<1>18. CASE WriteMessage
  <2>1. /\ sendQueue' \in Queues(Pointers, SendQueueSize)
        /\ waiting # <<>>
        /\ waiting' = Tail(waiting)
        /\ packet' = Append(packet, Head(waiting))
    BY <1>18, QueueSteps DEF WriteMessage
  <2>2. waiting' \in Seq(Addresses) /\ Head(waiting) \in Addresses
    BY <2>1, RangeOfTail
  <2>3. packet' \in Seq(Addresses) /\ Len(packet') = Len(packet) + 1 /\ Len(packet) \in Nat
    BY <2>1, <2>2, RangeOfAppend
  <2>4. Len(packet') <= MaxPerPacket /\ processed' \in 0 .. Len(packet')
    BY <1>18, <2>3, MessagesAssumption DEF WriteMessage
  <2> QED
    BY <1>18, <2>1, <2>2, <2>3, <2>4 DEF WriteMessage, Pointers, allocated_messages
<1>19. CASE DropMessage
  <2>1. /\ sendQueue' \in Queues(Pointers, SendQueueSize)
        /\ waiting # <<>>
        /\ waiting' = Tail(waiting)
    BY <1>19, QueueSteps DEF DropMessage
  <2>2. waiting' \in Seq(Addresses)
    BY <2>1, RangeOfTail
  <2>3. /\ allocated_messages' \subseteq Addresses
        /\ refCount' \in [allocated_messages' -> Nat \ {0}]
    BY <1>19, ReleasedTyped DEF DropMessage, allocated_messages
  <2> QED
    BY <1>19, <2>1, <2>2, <2>3 DEF DropMessage, Pointers
<1>20. CASE SendPacket
  BY <1>20, FreedTyped DEF SendPacket, Phases
<1>21. CASE UNCHANGED messagesVars
  BY <1>21 DEF messagesVars, allocated_messages
<1> QED
  BY <1>1, <1>2, <1>3, <1>4, <1>5, <1>6, <1>7, <1>8, <1>9, <1>10, <1>11, <1>12, <1>13,
     <1>14, <1>15, <1>16, <1>17, <1>18, <1>19, <1>20, <1>21 DEF Next, Runs

(* All variables keep their types, the queues stay inside their arrays,    *)
(* and every message that exists has a reference.                          *)
THEOREM MessagesTyped == Spec => []MessagesTypeOK
<1>1. Spec => []TypeInv
  BY TypeInvInit, TypeInvStep, PTL DEF Spec
<1>2. TypeInv => MessagesTypeOK
  BY DEF TypeInv
<1> QED
  BY <1>1, <1>2, PTL

-----------------------------------------------------------------------------
(* The circular buffers are queues.                                        *)

LEMMA SendQueueChanges ==
  ASSUME [Next]_messagesVars, ~SendMessage, ~WriteMessage, ~DropMessage, ~Disconnect
  PROVE  sendQueue' = sendQueue
BY DEF messagesVars, Next, Runs, Connect, PacketArrives, AdvanceTime, NoMorePackets,
  ReadMessage, ReadFails, SerializeFails, PacketRead, ProcessPacketMessage, PacketProcessed,
  ReceiveMessage, ReleaseMessage, MessagesProcessed, CreateMessage, SendNothing, SendPacket

LEMMA ReceiveQueueChanges ==
  ASSUME [Next]_messagesVars, ~ProcessPacketMessage, ~ReceiveMessage, ~Disconnect
  PROVE  receiveQueue' = receiveQueue
BY DEF messagesVars, Next, Runs, Connect, PacketArrives, AdvanceTime, NoMorePackets,
  ReadMessage, ReadFails, SerializeFails, PacketRead, PacketProcessed, ReleaseMessage,
  MessagesProcessed, CreateMessage, SendNothing, SendMessage, WriteMessage, DropMessage,
  SendPacket

LEMMA SendFifoStep == TypeInv /\ [Next]_messagesVars => [SendFifo!Next]_waiting
<1> SUFFICES ASSUME TypeInv, [Next]_messagesVars
             PROVE  [SendFifo!Next]_waiting
  OBVIOUS
<1> USE DEF SendFifo!Next, SendFifo!Put, SendFifo!Take, SendFifo!Clear
<1>1. CASE SendMessage
  <2>1. CASE channelError'
    BY <1>1, <2>1 DEF SendMessage, waiting
  <2>2. CASE ~channelError'
    <3>1. sendQueue' = Pushed(sendQueue, message)
      BY <1>1, <2>2 DEF SendMessage
    <3>2. ~IsFull(sendQueue)
      BY <1>1, <2>2, Zenon DEF SendMessage
    <3>3. message \in Addresses
      BY <1>1 DEF SendMessage, TypeInv, MessagesTypeOK
    <3>4. waiting' = Append(waiting, message)
      BY <3>1, <3>2, <3>3, QueueSteps DEF waiting
    <3>5. Len(waiting) < SendQueueSize
      <4>1. sendQueue \in Queues(Pointers, SendQueueSize) /\ SendQueueSize \in Nat \ {0}
        BY MessagesAssumption DEF TypeInv, MessagesTypeOK, Pointers
      <4>2. /\ Len(waiting) = sendQueue.numEntries
            /\ sendQueue.numEntries \in 0 .. SendQueueSize
            /\ sendQueue.arraySize = SendQueueSize
        BY <4>1, ContentsIsSeq, Fields DEF waiting
      <4> QED
        BY <3>2, <4>1, <4>2 DEF IsFull
    <3> QED
      BY <3>3, <3>4, <3>5 DEF waiting
  <2> QED
    BY <2>1, <2>2
<1>2. CASE WriteMessage \/ DropMessage
  <2>1. waiting # <<>> /\ waiting' = Tail(waiting)
    BY <1>2, QueueSteps DEF WriteMessage, DropMessage, waiting
  <2> QED
    BY <2>1 DEF waiting
<1>3. CASE Disconnect
  <2>1. waiting' = <<>>
    BY <1>3, QueueSteps DEF Disconnect, waiting
  <2> QED
    BY <2>1 DEF waiting
<1>4. CASE sendQueue' = sendQueue
  BY <1>4 DEF waiting
<1> QED
  BY <1>1, <1>2, <1>3, <1>4, SendQueueChanges

LEMMA ReceiveFifoStep == TypeInv /\ [Next]_messagesVars => [ReceiveFifo!Next]_received
<1> SUFFICES ASSUME TypeInv, [Next]_messagesVars
             PROVE  [ReceiveFifo!Next]_received
  OBVIOUS
<1> USE DEF ReceiveFifo!Next, ReceiveFifo!Put, ReceiveFifo!Take, ReceiveFifo!Clear
<1>1. CASE ProcessPacketMessage
  <2>1. CASE IsFull(receiveQueue)
    BY <1>1, <2>1 DEF ProcessPacketMessage, received
  <2>2. CASE ~IsFull(receiveQueue)
    <3>1. receiveQueue' = Pushed(receiveQueue, packet[processed + 1])
      BY <1>1, <2>2 DEF ProcessPacketMessage
    <3>2. packet[processed + 1] \in Addresses
      BY <1>1 DEF ProcessPacketMessage, TypeInv, MessagesTypeOK
    <3>3. received' = Append(received, packet[processed + 1])
      BY <2>2, <3>1, <3>2, QueueSteps DEF received
    <3>4. Len(received) < ReceiveQueueSize
      <4>1. receiveQueue \in Queues(Pointers, ReceiveQueueSize) /\ ReceiveQueueSize \in Nat \ {0}
        BY MessagesAssumption DEF TypeInv, MessagesTypeOK, Pointers
      <4>2. /\ Len(received) = receiveQueue.numEntries
            /\ receiveQueue.numEntries \in 0 .. ReceiveQueueSize
            /\ receiveQueue.arraySize = ReceiveQueueSize
        BY <4>1, ContentsIsSeq, Fields DEF received
      <4> QED
        BY <2>2, <4>1, <4>2 DEF IsFull
    <3> QED
      BY <3>2, <3>3, <3>4 DEF received
  <2> QED
    BY <2>1, <2>2
<1>2. CASE ReceiveMessage
  <2>1. received # <<>> /\ received' = Tail(received)
    BY <1>2, QueueSteps DEF ReceiveMessage, NothingToReceive, received
  <2> QED
    BY <2>1 DEF received
<1>3. CASE Disconnect
  <2>1. received' = <<>>
    BY <1>3, QueueSteps DEF Disconnect, received
  <2> QED
    BY <2>1 DEF received
<1>4. CASE receiveQueue' = receiveQueue
  BY <1>4 DEF received
<1> QED
  BY <1>1, <1>2, <1>3, <1>4, ReceiveQueueChanges

(* Messages leave the queues in the order in which they entered, none is   *)
(* lost and none made up, for every size of the circular buffers.          *)
THEOREM BuffersAreQueues == Spec => QueuesAreFifo
<1>1. Spec => []TypeInv
  BY TypeInvInit, TypeInvStep, PTL DEF Spec
<1>2. Init => SendFifo!Init /\ ReceiveFifo!Init
  BY NewQueueIsEmpty, MessagesAssumption
  DEF Init, SendFifo!Init, ReceiveFifo!Init, Pointers
<1>3. TypeInv /\ [Next]_messagesVars => [SendFifo!Next]_(Contents(sendQueue))
  BY SendFifoStep DEF waiting
<1>4. TypeInv /\ [Next]_messagesVars => [ReceiveFifo!Next]_(Contents(receiveQueue))
  BY ReceiveFifoStep DEF received
<1> QED
  BY <1>1, <1>2, <1>3, <1>4, PTL
  DEF Spec, QueuesAreFifo, SendFifo!Spec, ReceiveFifo!Spec

-----------------------------------------------------------------------------
(* The counts are the numbers of holders.  What makes this inductive is    *)
(* that nothing is held twice by the same holder, that the queues and the  *)
(* packet are empty where the update has no use for them, and that the     *)
(* messages of a packet that are still to be processed are not in the      *)
(* receive queue.                                                          *)

HoldInv ==
  /\ CountIsHolders
  /\ Distinct(packet)
  /\ Distinct(received)
  /\ Len(waiting) <= 1
  /\ waiting # <<>> => phase = "WritePacket" /\ packet = <<>> /\ ~channelError
  /\ phase \notin {"ReadPacket", "ProcessPacketData", "WritePacket"} => packet = <<>>
  /\ phase # "ProcessPacketData" => processed = 0
  /\ phase \notin {"ProcessMessages", "SendMessage"} => message = NULL
  /\ \A i \in processed + 1 .. Len(packet) : packet[i] \notin Range(received)
  /\ phase \in {"SendMessage", "WritePacket", "AdvanceTime"} /\ ~channelError => received = <<>>
  /\ phase = "Disconnected" => received = <<>>

Count(m) == IF m \in allocated_messages THEN refCount[m] ELSE 0

LEMMA ReleasedCounts ==
  ASSUME TypeInv, NEW ms \in SUBSET allocated_messages, refCount' = Released(ms)
  PROVE  \A m \in Addresses : Count(m)' = Count(m) - One(m \in ms)
BY DEF TypeInv, MessagesTypeOK, Count, Released, One, allocated_messages

(* What somebody holds exists, and what does not exist nobody holds.       *)
LEMMA HeldExists ==
  ASSUME TypeInv, HoldInv
  PROVE  /\ Range(packet) \subseteq allocated_messages
         /\ Range(waiting) \subseteq allocated_messages
         /\ Range(received) \subseteq allocated_messages
         /\ message # NULL => message \in allocated_messages
<1>1. /\ Range(packet) \subseteq Addresses
      /\ Range(waiting) \subseteq Addresses
      /\ Range(received) \subseteq Addresses
      /\ message # NULL => message \in Addresses
  BY RangeOfSeq DEF TypeInv, MessagesTypeOK, Range
<1>2. ASSUME NEW m \in Addresses, m \notin allocated_messages
      PROVE  /\ m \notin Range(packet)
             /\ m \notin Range(waiting)
             /\ m \notin Range(received)
             /\ m # message
  <2>1. Holders(m) = 0
    BY <1>2 DEF HoldInv, CountIsHolders
  <2> QED
    BY <2>1 DEF Holders, One, InPacket, InSendQueue, InReceiveQueue, waiting, received
<1> QED
  BY <1>1, <1>2

(* The four places a message may be held in, as sets; a step changes the   *)
(* counts right if it changes them by what it changes these sets by.       *)
LEMMA CountsKept ==
  ASSUME HoldInv,
         \A m \in Addresses :
           Count(m)' - Count(m) =
             (One(m \in Range(packet'))   - One(m \in Range(packet)))
           + (One(m \in Range(waiting'))  - One(m \in Range(waiting)))
           + (One(m \in Range(received')) - One(m \in Range(received)))
           + (One(message' = m)           - One(message = m)),
         TypeInv, TypeInv'
  PROVE  CountIsHolders'
<1> SUFFICES ASSUME NEW m \in Addresses
             PROVE  (Holders(m) = Count(m))'
  BY DEF CountIsHolders, Count
<1>1. Holders(m) = Count(m)
  BY DEF HoldInv, CountIsHolders, Count
<1>2. Count(m) \in Int /\ Count(m)' \in Int
  BY DEF Count, TypeInv, MessagesTypeOK, allocated_messages
<1>3. /\ Holders(m) = One(m \in Range(packet)) + One(m \in Range(waiting))
                      + One(m \in Range(received)) + One(message = m)
      /\ Holders(m)' = One(m \in Range(packet')) + One(m \in Range(waiting'))
                       + One(m \in Range(received')) + One(message' = m)
  BY DEF Holders, InPacket, InSendQueue, InReceiveQueue, waiting, received
<1>4. \A b : One(b) \in Int
  BY DEF One
<1> HIDE DEF Count
<1>5. Count(m)' - Count(m) =
         (One(m \in Range(packet'))   - One(m \in Range(packet)))
       + (One(m \in Range(waiting'))  - One(m \in Range(waiting)))
       + (One(m \in Range(received')) - One(m \in Range(received)))
       + (One(message' = m)           - One(message = m))
  OBVIOUS
<1>6. /\ One(m \in Range(packet)) \in Int /\ One(m \in Range(packet')) \in Int
      /\ One(m \in Range(waiting)) \in Int /\ One(m \in Range(waiting')) \in Int
      /\ One(m \in Range(received)) \in Int /\ One(m \in Range(received')) \in Int
      /\ One(message = m) \in Int /\ One(message' = m) \in Int
  BY <1>4
<1>7. PICK p \in Int, w \in Int, r \in Int, x \in Int, n \in Int,
           p2 \in Int, w2 \in Int, r2 \in Int, x2 \in Int, n2 \in Int :
        /\ p = One(m \in Range(packet))   /\ p2 = One(m \in Range(packet'))
        /\ w = One(m \in Range(waiting))  /\ w2 = One(m \in Range(waiting'))
        /\ r = One(m \in Range(received)) /\ r2 = One(m \in Range(received'))
        /\ x = One(message = m)           /\ x2 = One(message' = m)
        /\ n = Count(m)                   /\ n2 = Count(m)'
  BY <1>2, <1>6
<1>8. n2 - n = (p2 - p) + (w2 - w) + (r2 - r) + (x2 - x)
  BY <1>5, <1>7
<1>9. n = p + w + r + x
  BY <1>1, <1>3, <1>7
<1>10. n2 = p2 + w2 + r2 + x2
  BY <1>8, <1>9
<1>11. Holders(m)' = p2 + w2 + r2 + x2
  BY <1>3, <1>7
<1> QED
  BY <1>7, <1>10, <1>11

(* Steps that touch neither messages nor what holds them.                  *)
LEMMA CountsUntouched ==
  ASSUME HoldInv, TypeInv, TypeInv',
         UNCHANGED <<refCount, packet, sendQueue, receiveQueue, message>>
  PROVE  CountIsHolders'
BY DEF HoldInv, CountIsHolders, Holders, InPacket, InSendQueue, InReceiveQueue, One,
       allocated_messages

(* Freeing the packet.                                                     *)
LEMMA CountsFreed ==
  ASSUME HoldInv, TypeInv, TypeInv', FreePacket,
         UNCHANGED <<sendQueue, receiveQueue, message>>
  PROVE  CountIsHolders'
<1>1. \A m \in Addresses : Count(m)' = Count(m) - One(m \in Range(packet))
  BY HeldExists, ReleasedCounts DEF FreePacket
<1>2. Range(packet') = {}
  BY RangeOfEmpty DEF FreePacket
<1>3. waiting' = waiting /\ received' = received
  BY DEF waiting, received
<1>4. \A m \in Addresses : Count(m) \in Int
  BY DEF Count, TypeInv, MessagesTypeOK
<1> HIDE DEF Count
<1>5. \A m \in Addresses :
        Count(m)' - Count(m) =
          (One(m \in Range(packet'))   - One(m \in Range(packet)))
        + (One(m \in Range(waiting'))  - One(m \in Range(waiting)))
        + (One(m \in Range(received')) - One(m \in Range(received)))
        + (One(message' = m)           - One(message = m))
  BY <1>1, <1>2, <1>3, <1>4 DEF One
<1> QED
  BY <1>5, CountsKept

LEMMA HoldInvInit == Init => HoldInv
<1> SUFFICES ASSUME Init
             PROVE  HoldInv
  OBVIOUS
<1>1. waiting = <<>> /\ received = <<>>
  BY NewQueueIsEmpty, MessagesAssumption DEF Init, waiting, received, Pointers
<1>2. CountIsHolders
  <2> SUFFICES ASSUME NEW m \in Addresses
               PROVE  Holders(m) = Count(m)
    BY DEF CountIsHolders, Count
  <2>1. m \notin Range(packet) /\ m \notin Range(waiting) /\ m \notin Range(received)
    BY <1>1, RangeOfEmpty DEF Init
  <2>2. message # m
    BY MessagesAssumption DEF Init
  <2>3. Count(m) = 0
    BY DEF Init, Count, allocated_messages
  <2> QED
    BY <2>1, <2>2, <2>3
    DEF Holders, One, InPacket, InSendQueue, InReceiveQueue, waiting, received
<1>3. Distinct(packet) /\ Distinct(received) /\ Len(waiting) <= 1 /\ Len(packet) = 0
  BY <1>1, RangeOfEmpty, EmptySeq DEF Init
<1> QED
  BY <1>1, <1>2, <1>3 DEF Init, HoldInv

LEMMA CreatedCounts ==
  ASSUME TypeInv, NEW m \in Addresses, Created(m)
  PROVE  /\ m \notin allocated_messages
         /\ \A n \in Addresses : Count(n)' = Count(n) + One(n = m)
BY DEF TypeInv, MessagesTypeOK, Created, Count, One, allocated_messages

LEMMA CountsAreNumbers ==
  ASSUME TypeInv
  PROVE  \A n \in Addresses : Count(n) \in Int
BY DEF Count, TypeInv, MessagesTypeOK

LEMMA HoldInvStep == TypeInv /\ TypeInv' /\ HoldInv /\ [Next]_messagesVars => HoldInv'
<1> SUFFICES ASSUME TypeInv, TypeInv', HoldInv, [Next]_messagesVars
             PROVE  HoldInv'
  OBVIOUS
<1> HIDE DEF Count
<1>a. /\ Len(packet) \in Nat /\ packet \in Seq(Addresses)
      /\ waiting \in Seq(Addresses) /\ received \in Seq(Addresses)
      /\ processed \in 0 .. Len(packet)
      /\ message \in Addresses \cup {NULL} /\ NULL \notin Addresses
  BY MessagesAssumption DEF TypeInv, MessagesTypeOK
<1>b. \A n \in Addresses : Count(n) \in Int
  BY CountsAreNumbers
<1>c. <<>> \in Seq(Addresses) /\ Len(<<>>) = 0 /\ Range(<<>>) = {} /\ Distinct(<<>>)
  BY EmptySeq, RangeOfEmpty
<1>1. CASE Connect \/ PacketArrives \/ AdvanceTime \/ NoMorePackets \/ PacketRead
           \/ MessagesProcessed \/ SendNothing \/ UNCHANGED messagesVars
  <2>1. UNCHANGED <<refCount, packet, sendQueue, receiveQueue, message, processed>>
    BY <1>1 DEF Connect, PacketArrives, AdvanceTime, NoMorePackets, PacketRead,
                MessagesProcessed, SendNothing, messagesVars
  <2>2. CountIsHolders'
    BY <2>1, CountsUntouched
  <2>3. waiting' = waiting /\ received' = received
    BY <2>1 DEF waiting, received
  <2>5. CASE MessagesProcessed
    <3>1. ~channelError => received = <<>>
      BY <2>5, QueueSteps DEF MessagesProcessed, NothingToReceive
    <3> QED
      BY <2>1, <2>2, <2>3, <2>5, <3>1 DEF HoldInv, MessagesProcessed
  <2>6. CASE SendNothing
    BY <2>1, <2>2, <2>3, <2>6 DEF HoldInv, SendNothing
  <2>7. CASE Connect \/ PacketArrives \/ AdvanceTime \/ NoMorePackets \/ PacketRead
    BY <2>1, <2>2, <2>3, <2>7
    DEF HoldInv, Connect, PacketArrives, AdvanceTime, NoMorePackets, PacketRead
  <2>8. CASE UNCHANGED messagesVars
    BY <2>1, <2>2, <2>3, <2>8 DEF HoldInv, messagesVars
  <2> QED
    BY <1>1, <2>5, <2>6, <2>7, <2>8
<1>2. CASE Disconnect
  <2>1. /\ waiting = <<>> /\ packet = <<>> /\ message = NULL /\ phase = "AdvanceTime"
        /\ processed = 0
    BY <1>2 DEF HoldInv, Disconnect
  <2>2. waiting' = <<>> /\ received' = <<>>
    BY <1>2, QueueSteps DEF Disconnect, waiting, received
  <2>3. refCount' = Released(Range(received))
    BY <1>2, <1>c, <2>1 DEF Disconnect, waiting, received
  <2>4. \A n \in Addresses : Count(n)' = Count(n) - One(n \in Range(received))
    BY <2>3, HeldExists, ReleasedCounts
  <2>5. packet' = packet /\ message' = message /\ processed' = processed /\ phase' = "Disconnected"
    BY <1>2 DEF Disconnect
  <2>6. \A n \in Addresses :
          Count(n)' - Count(n) =
            (One(n \in Range(packet'))   - One(n \in Range(packet)))
          + (One(n \in Range(waiting'))  - One(n \in Range(waiting)))
          + (One(n \in Range(received')) - One(n \in Range(received)))
          + (One(message' = n)           - One(message = n))
    BY <1>a, <1>b, <1>c, <2>1, <2>2, <2>4, <2>5 DEF One
  <2>7. CountIsHolders'
    BY <2>6, CountsKept
  <2> QED
    BY <1>c, <2>1, <2>2, <2>5, <2>7 DEF HoldInv
<1>3. CASE ReadMessage
  <2>1. PICK m \in Addresses : Created(m) /\ packet' = Append(packet, m)
    BY <1>3 DEF ReadMessage
  <2>2. /\ m \notin allocated_messages
        /\ \A n \in Addresses : Count(n)' = Count(n) + One(n = m)
    BY <2>1, CreatedCounts
  <2>3. m \notin Range(packet) /\ m \notin Range(received)
    BY <2>2, HeldExists
  <2>4. /\ Range(packet') = Range(packet) \cup {m}
        /\ Distinct(packet')
        /\ Len(packet') = Len(packet) + 1
        /\ \A i \in 1 .. Len(packet) : packet'[i] = packet[i]
        /\ packet'[Len(packet) + 1] = m
    BY <1>a, <2>1, <2>3, RangeOfAppend DEF HoldInv
  <2>5. /\ UNCHANGED <<channelError, sendQueue, receiveQueue, processed, message, phase>>
        /\ phase = "ReadPacket"
        /\ waiting' = waiting /\ received' = received
    BY <1>3 DEF ReadMessage, waiting, received
  <2>6. \A n \in Addresses :
          Count(n)' - Count(n) =
            (One(n \in Range(packet'))   - One(n \in Range(packet)))
          + (One(n \in Range(waiting'))  - One(n \in Range(waiting)))
          + (One(n \in Range(received')) - One(n \in Range(received)))
          + (One(message' = n)           - One(message = n))
    BY <1>a, <1>b, <2>2, <2>3, <2>4, <2>5 DEF One
  <2>7. CountIsHolders'
    BY <2>6, CountsKept
  <2>8. waiting = <<>> /\ processed = 0
    BY <2>5 DEF HoldInv
  <2>9. \A i \in processed' + 1 .. Len(packet') : packet'[i] \notin Range(received')
    BY <1>a, <2>3, <2>4, <2>5, <2>8 DEF HoldInv
  <2> QED
    BY <2>4, <2>5, <2>7, <2>8, <2>9 DEF HoldInv
<1>4. CASE ReadFails \/ SerializeFails \/ PacketProcessed \/ SendPacket
  <2>1. /\ FreePacket
        /\ UNCHANGED <<sendQueue, receiveQueue, message>>
        /\ phase \in {"ReadPacket", "ProcessPacketData", "WritePacket"}
    BY <1>4 DEF ReadFails, SerializeFails, PacketProcessed, SendPacket
  <2>2. CountIsHolders'
    BY <2>1, CountsFreed
  <2>3. /\ packet' = <<>> /\ processed' = 0
        /\ waiting' = waiting /\ received' = received
    BY <2>1 DEF FreePacket, waiting, received
  <2>4. message' = NULL
    BY <2>1 DEF HoldInv
  <2>5. CASE SendPacket
    <3>1. waiting = <<>>
      <4>1. Len(packet) = MaxPerPacket => packet # <<>>
        BY <1>c, MessagesAssumption
      <4> QED
        BY <2>5, <4>1, QueueSteps DEF SendPacket, HoldInv
    <3> QED
      BY <1>c, <2>2, <2>3, <2>4, <2>5, <3>1 DEF HoldInv, SendPacket
  <2>6. CASE ReadFails \/ SerializeFails \/ PacketProcessed
    <3>1. phase' = "ReceivePackets" /\ phase # "WritePacket"
      BY <2>6 DEF ReadFails, SerializeFails, PacketProcessed
    <3> QED
      BY <1>c, <2>2, <2>3, <2>4, <3>1 DEF HoldInv
  <2> QED
    BY <1>4, <2>5, <2>6
<1>5. CASE ProcessPacketMessage
  <2> DEFINE m == packet[processed + 1]
  <2>1. /\ phase = "ProcessPacketData" /\ processed + 1 \in 1 .. Len(packet)
        /\ m \in Addresses /\ m \in Range(packet) /\ m \notin Range(received)
        /\ message = NULL /\ waiting = <<>>
    BY <1>5, <1>a DEF ProcessPacketMessage, HoldInv, Range
  <2>2. /\ UNCHANGED <<channelError, sendQueue, packet, message, phase>>
        /\ processed' = processed + 1
        /\ waiting' = waiting
    BY <1>5 DEF ProcessPacketMessage, waiting
  <2>3. CASE IsFull(receiveQueue)
    <3>1. UNCHANGED <<refCount, receiveQueue>> /\ received' = received
      BY <1>5, <2>3 DEF ProcessPacketMessage, received
    <3>2. CountIsHolders'
      BY <2>2, <3>1, CountsUntouched
    <3>3. \A i \in processed' + 1 .. Len(packet') : packet'[i] \notin Range(received')
      BY <1>a, <2>2, <3>1 DEF HoldInv
    <3> QED
      BY <2>1, <2>2, <3>1, <3>2, <3>3 DEF HoldInv
  <2>4. CASE ~IsFull(receiveQueue)
    <3>1. refCount' = Acquired(m) /\ receiveQueue' = Pushed(receiveQueue, m)
      BY <1>5, <2>4 DEF ProcessPacketMessage
    <3>2. received' = Append(received, m)
      BY <2>1, <2>4, <3>1, QueueSteps DEF received
    <3>3. m \in allocated_messages
      BY <2>1, HeldExists
    <3>4. \A n \in Addresses : Count(n)' = Count(n) + One(n = m)
      BY <3>1, <3>3 DEF Count, Acquired, One, allocated_messages, TypeInv, MessagesTypeOK
    <3>5. Range(received') = Range(received) \cup {m} /\ Distinct(received')
      BY <1>a, <2>1, <3>2, RangeOfAppend DEF HoldInv
    <3>6. \A n \in Addresses :
            Count(n)' - Count(n) =
              (One(n \in Range(packet'))   - One(n \in Range(packet)))
            + (One(n \in Range(waiting'))  - One(n \in Range(waiting)))
            + (One(n \in Range(received')) - One(n \in Range(received)))
            + (One(message' = n)           - One(message = n))
      BY <1>a, <1>b, <2>1, <2>2, <3>4, <3>5 DEF One
    <3>7. CountIsHolders'
      BY <3>6, CountsKept
    <3>8. \A i \in processed' + 1 .. Len(packet') : packet'[i] \notin Range(received')
      <4> SUFFICES ASSUME NEW i \in processed' + 1 .. Len(packet')
                   PROVE  packet'[i] \notin Range(received')
        OBVIOUS
      <4>1. i \in processed + 1 .. Len(packet) /\ i # processed + 1 /\ i \in 1 .. Len(packet)
        BY <1>a, <2>2
      <4>2. packet[i] \notin Range(received)
        BY <4>1 DEF HoldInv
      <4>3. packet[i] # m
        BY <2>1, <4>1 DEF HoldInv, Distinct
      <4> QED
        BY <2>2, <3>5, <4>2, <4>3
    <3> QED
      BY <2>1, <2>2, <3>5, <3>7, <3>8 DEF HoldInv
  <2> QED
    BY <2>3, <2>4
<1>6. CASE ReceiveMessage
  <2>1. /\ received # <<>>
        /\ received' = Tail(received)
        /\ message' = Head(received)
    BY <1>6, QueueSteps DEF ReceiveMessage, NothingToReceive, received
  <2>2. /\ phase = "ProcessMessages" /\ message = NULL
        /\ UNCHANGED <<refCount, channelError, sendQueue, packet, processed, phase>>
        /\ waiting' = waiting /\ packet = <<>> /\ waiting = <<>> /\ processed = 0
    BY <1>6 DEF ReceiveMessage, waiting, HoldInv
  <2>3. /\ Head(received) \in Addresses /\ Head(received) \in Range(received)
        /\ Range(received') = Range(received) \ {Head(received)}
        /\ Distinct(received')
    BY <1>a, <2>1, RangeOfTail DEF HoldInv
  <2>4. \A n \in Addresses : Count(n)' = Count(n)
    BY <2>2 DEF Count, allocated_messages
  <2>5. \A n \in Addresses :
          Count(n)' - Count(n) =
            (One(n \in Range(packet'))   - One(n \in Range(packet)))
          + (One(n \in Range(waiting'))  - One(n \in Range(waiting)))
          + (One(n \in Range(received')) - One(n \in Range(received)))
          + (One(message' = n)           - One(message = n))
    BY <1>a, <1>b, <2>1, <2>2, <2>3, <2>4 DEF One
  <2>6. CountIsHolders'
    BY <2>5, CountsKept
  <2> QED
    BY <1>c, <2>2, <2>3, <2>6 DEF HoldInv
<1>7. CASE ReleaseMessage
  <2>1. /\ phase = "ProcessMessages" /\ message # NULL /\ message' = NULL
        /\ refCount' = Released({message})
        /\ UNCHANGED <<channelError, sendQueue, receiveQueue, packet, processed, phase>>
        /\ waiting' = waiting /\ received' = received
    BY <1>7 DEF ReleaseMessage, waiting, received
  <2>2. \A n \in Addresses : Count(n)' = Count(n) - One(n \in {message})
    BY <2>1, HeldExists, ReleasedCounts
  <2>3. \A n \in Addresses :
          Count(n)' - Count(n) =
            (One(n \in Range(packet'))   - One(n \in Range(packet)))
          + (One(n \in Range(waiting'))  - One(n \in Range(waiting)))
          + (One(n \in Range(received')) - One(n \in Range(received)))
          + (One(message' = n)           - One(message = n))
    BY <1>a, <1>b, <2>1, <2>2 DEF One
  <2>4. CountIsHolders'
    BY <2>3, CountsKept
  <2> QED
    BY <2>1, <2>4 DEF HoldInv
<1>8. CASE CreateMessage
  <2>1. /\ phase = "SendMessage" /\ message = NULL
        /\ UNCHANGED <<channelError, sendQueue, receiveQueue, packet, processed>>
        /\ waiting' = waiting /\ received' = received
        /\ waiting = <<>> /\ packet = <<>> /\ processed = 0
    BY <1>8 DEF CreateMessage, waiting, received, HoldInv
  <2>2. CASE allocated_messages = Addresses
    <3>1. phase' = "WritePacket" /\ UNCHANGED <<refCount, message>>
      BY <1>8, <2>2 DEF CreateMessage
    <3>2. CountIsHolders'
      BY <2>1, <3>1, CountsUntouched
    <3> QED
      BY <1>c, <2>1, <3>1, <3>2 DEF HoldInv
  <2>3. CASE allocated_messages # Addresses
    <3>1. PICK m \in Addresses : Created(m) /\ message' = m /\ phase' = phase
      BY <1>8, <2>3 DEF CreateMessage
    <3>2. \A n \in Addresses : Count(n)' = Count(n) + One(n = m)
      BY <3>1, CreatedCounts
    <3>3. \A n \in Addresses :
            Count(n)' - Count(n) =
              (One(n \in Range(packet'))   - One(n \in Range(packet)))
            + (One(n \in Range(waiting'))  - One(n \in Range(waiting)))
            + (One(n \in Range(received')) - One(n \in Range(received)))
            + (One(message' = n)           - One(message = n))
      BY <1>a, <1>b, <2>1, <3>1, <3>2 DEF One
    <3>4. CountIsHolders'
      BY <3>3, CountsKept
    <3> QED
      BY <1>c, <2>1, <3>1, <3>4 DEF HoldInv
  <2> QED
    BY <2>2, <2>3
<1>9. CASE SendMessage
  <2>1. /\ phase = "SendMessage" /\ message # NULL /\ message' = NULL /\ phase' = "WritePacket"
        /\ UNCHANGED <<receiveQueue, packet, processed>>
        /\ received' = received
        /\ waiting = <<>> /\ packet = <<>> /\ processed = 0 /\ message \in Addresses
        /\ ~channelError => received = <<>>
    BY <1>9, <1>a DEF SendMessage, received, HoldInv
  <2>2. CASE channelError'
    <3>1. sendQueue' = sendQueue /\ waiting' = waiting /\ refCount' = Released({message})
      BY <1>9, <2>2 DEF SendMessage, waiting
    <3>2. \A n \in Addresses : Count(n)' = Count(n) - One(n \in {message})
      BY <2>1, <3>1, HeldExists, ReleasedCounts
    <3>3. \A n \in Addresses :
            Count(n)' - Count(n) =
              (One(n \in Range(packet'))   - One(n \in Range(packet)))
            + (One(n \in Range(waiting'))  - One(n \in Range(waiting)))
            + (One(n \in Range(received')) - One(n \in Range(received)))
            + (One(message' = n)           - One(message = n))
      BY <1>a, <1>b, <2>1, <3>1, <3>2 DEF One
    <3>4. CountIsHolders'
      BY <3>3, CountsKept
    <3> QED
      BY <1>c, <2>1, <2>2, <3>1, <3>4 DEF HoldInv
  <2>3. CASE ~channelError'
    <3>1. refCount' = refCount /\ sendQueue' = Pushed(sendQueue, message)
      BY <1>9, <2>3 DEF SendMessage
    <3>2. ~channelError /\ ~IsFull(sendQueue)
      BY <1>9, <2>3, Zenon DEF SendMessage
    <3>3. waiting' = Append(waiting, message)
      BY <2>1, <3>1, <3>2, QueueSteps DEF waiting
    <3>4. Range(waiting') = {message} /\ Len(waiting') = 1
      <4>1. Range(Append(waiting, message)) = Range(waiting) \cup {message}
            /\ Len(Append(waiting, message)) = Len(waiting) + 1
        BY <1>a, <2>1, RangeOfAppend
      <4> QED
        BY <1>c, <2>1, <3>3, <4>1
    <3>5. \A n \in Addresses : Count(n)' = Count(n)
      BY <3>1 DEF Count, allocated_messages
    <3>6. packet' = packet /\ received' = received /\ Range(waiting) = {}
      BY <1>c, <2>1
    <3>7. \A n \in Addresses :
            Count(n)' - Count(n) =
              (One(n \in Range(packet'))   - One(n \in Range(packet)))
            + (One(n \in Range(waiting'))  - One(n \in Range(waiting)))
            + (One(n \in Range(received')) - One(n \in Range(received)))
            + (One(message' = n)           - One(message = n))
      BY <1>a, <1>b, <2>1, <3>4, <3>5, <3>6 DEF One
    <3>8. CountIsHolders'
      BY <3>7, CountsKept
    <3> QED
      BY <1>c, <2>1, <2>3, <3>2, <3>4, <3>8 DEF HoldInv
  <2> QED
    BY <2>2, <2>3
<1>10. CASE WriteMessage \/ DropMessage
  <2>1. /\ waiting # <<>> /\ waiting' = Tail(waiting)
        /\ phase = "WritePacket" /\ phase' = phase /\ message = NULL /\ processed = 0
        /\ packet = <<>> /\ ~channelError /\ received = <<>>
        /\ UNCHANGED <<channelError, receiveQueue, processed, message>>
        /\ received' = received
    BY <1>10, QueueSteps DEF WriteMessage, DropMessage, waiting, received, HoldInv
  <2> DEFINE m == Head(waiting)
  <2>2. m \in Addresses /\ m \in Range(waiting) /\ Len(waiting') = 0 /\ Len(waiting) = 1
    <3>1. /\ m \in Addresses /\ m \in Range(waiting)
          /\ Len(waiting') = Len(waiting) - 1
          /\ waiting' \in Seq(Addresses)
      BY <1>a, <2>1, RangeOfTail
    <3>2. Len(waiting) <= 1
      BY DEF HoldInv
    <3>3. Len(waiting) \in Nat /\ Len(waiting') \in Nat
      BY <1>a, <3>1
    <3> QED
      BY <3>1, <3>2, <3>3
  <2>3. Range(waiting) = {m} /\ waiting' = <<>>
    <3>1. \A i \in 1 .. Len(waiting) : waiting[i] = m
      BY <1>a, <2>1, <2>2
    <3>2. Range(waiting) = {waiting[i] : i \in 1 .. Len(waiting)}
      BY <1>a, RangeEquality
    <3>3. waiting' = <<>>
      BY <1>a, <2>1, <2>2, RangeOfTail
    <3> QED
      BY <2>2, <3>1, <3>2, <3>3
  <2>a. Range(packet) = {} /\ Range(waiting') = {} /\ m # NULL
    BY <1>a, <1>c, <2>1, <2>2, <2>3
  <2>4. CASE WriteMessage
    <3>1. packet' = Append(packet, m) /\ refCount' = refCount
      BY <2>4, QueueSteps DEF WriteMessage
    <3>2. Range(packet') = {m} /\ Len(packet') = 1 /\ Distinct(packet')
      <4>1. /\ Range(Append(packet, m)) = Range(packet) \cup {m}
            /\ Len(Append(packet, m)) = Len(packet) + 1
            /\ Distinct(packet) /\ m \notin Range(packet) => Distinct(Append(packet, m))
        BY <1>a, <2>2, RangeOfAppend
      <4> QED
        BY <1>c, <2>1, <2>a, <3>1, <4>1
    <3>3. \A n \in Addresses : Count(n)' = Count(n)
      BY <3>1 DEF Count, allocated_messages
    <3>4. \A n \in Addresses :
            Count(n)' - Count(n) =
              (One(n \in Range(packet'))   - One(n \in Range(packet)))
            + (One(n \in Range(waiting'))  - One(n \in Range(waiting)))
            + (One(n \in Range(received')) - One(n \in Range(received)))
            + (One(message' = n)           - One(message = n))
      BY <1>b, <2>1, <2>3, <2>a, <3>2, <3>3 DEF One
    <3>5. CountIsHolders'
      BY <3>4, CountsKept
    <3> QED
      BY <1>c, <2>1, <2>3, <3>2, <3>5 DEF HoldInv
  <2>5. CASE DropMessage
    <3>1. refCount' = Released({m}) /\ packet' = packet
      BY <2>5, QueueSteps DEF DropMessage
    <3>2. \A n \in Addresses : Count(n)' = Count(n) - One(n \in {m})
      BY <2>2, <3>1, HeldExists, ReleasedCounts
    <3>3. \A n \in Addresses :
            Count(n)' - Count(n) =
              (One(n \in Range(packet'))   - One(n \in Range(packet)))
            + (One(n \in Range(waiting'))  - One(n \in Range(waiting)))
            + (One(n \in Range(received')) - One(n \in Range(received)))
            + (One(message' = n)           - One(message = n))
      BY <1>b, <2>1, <2>3, <2>a, <3>1, <3>2 DEF One
    <3>4. CountIsHolders'
      BY <3>3, CountsKept
    <3> QED
      BY <1>c, <2>1, <2>3, <3>1, <3>4 DEF HoldInv
  <2> QED
    BY <1>10, <2>4, <2>5
<1> QED
  BY <1>1, <1>2, <1>3, <1>4, <1>5, <1>6, <1>7, <1>8, <1>9, <1>10 DEF Next, Runs

-----------------------------------------------------------------------------
(* Reference counts are exact, for every capacity and any memory: no       *)
(* message is destroyed while the game, a queue or a packet refers to it,  *)
(* and none outlives its last holder.                                      *)
THEOREM CountsAreExact == Spec => []CountIsHolders
<1>1. Init => TypeInv /\ HoldInv
  BY TypeInvInit, HoldInvInit
<1>2. TypeInv /\ HoldInv /\ [Next]_messagesVars => (TypeInv /\ HoldInv)'
  BY TypeInvStep, HoldInvStep
<1>3. HoldInv => CountIsHolders
  BY DEF HoldInv
<1> QED
  BY <1>1, <1>2, <1>3, PTL DEF Spec

LEMMA NothingHeld ==
  ASSUME TypeInv, HoldInv, packet = <<>>, waiting = <<>>, received = <<>>, message = NULL
  PROVE  allocated_messages = {}
<1> SUFFICES ASSUME NEW m \in allocated_messages
             PROVE  FALSE
  OBVIOUS
<1>1. m \in Addresses /\ refCount[m] \in Nat \ {0}
  BY DEF TypeInv, MessagesTypeOK
<1>2. Holders(m) = 0
  BY <1>1, RangeOfEmpty, MessagesAssumption
  DEF Holders, One, InPacket, InSendQueue, InReceiveQueue, waiting, received
<1> QED
  BY <1>1, <1>2 DEF HoldInv, CountIsHolders

(* All memory is back after every update of a connection in order, and     *)
(* after every connection, so that memory never runs out slowly.           *)
THEOREM MemoryComesBack == Spec => []MemoryReturned
<1>1. Init => TypeInv /\ HoldInv
  BY TypeInvInit, HoldInvInit
<1>2. TypeInv /\ HoldInv /\ [Next]_messagesVars => (TypeInv /\ HoldInv)'
  BY TypeInvStep, HoldInvStep
<1>3. TypeInv /\ HoldInv => MemoryReturned
  BY NothingHeld DEF HoldInv, MemoryReturned
<1> QED
  BY <1>1, <1>2, <1>3, PTL DEF Spec

(* The game finds memory and a place in the send queue whenever it sends   *)
(* on a channel that is in order, for every capacity.                      *)
THEOREM GameFindsRoom == Spec => GameIsServed
<1>1. Init => TypeInv /\ HoldInv
  BY TypeInvInit, HoldInvInit
<1>2. TypeInv /\ HoldInv /\ [Next]_messagesVars => (TypeInv /\ HoldInv)'
  BY TypeInvStep, HoldInvStep
<1>3. TypeInv /\ HoldInv /\ [Next]_messagesVars =>
        [phase = "SendMessage" /\ ~channelError =>
           UNCHANGED <<factoryError, channelError>>]_messagesVars
  <2> SUFFICES ASSUME TypeInv, HoldInv, [Next]_messagesVars,
                      phase = "SendMessage", ~channelError
               PROVE  UNCHANGED <<factoryError, channelError>>
    OBVIOUS
  <2>1. packet = <<>> /\ waiting = <<>> /\ received = <<>>
    BY DEF HoldInv
  <2>2. CASE CreateMessage
    <3>1. allocated_messages # Addresses
      BY <2>1, <2>2, NothingHeld, MessagesAssumption DEF CreateMessage
    <3> QED
      BY <2>2, <3>1 DEF CreateMessage, Created
  <2>3. CASE SendMessage
    <3>1. ~IsFull(sendQueue)
      <4>1. Len(waiting) # SendQueueSize
        BY <2>1, EmptySeq, MessagesAssumption
      <4> QED
        BY <4>1, QueueSteps
    <3>2. channelError' = FALSE /\ channelError = FALSE
      BY <2>3, <3>1, Zenon DEF SendMessage, TypeInv, MessagesTypeOK
    <3> QED
      BY <2>3, <3>2 DEF SendMessage
  <2>4. CASE SendNothing
    BY <2>4 DEF SendNothing
  <2>5. CASE UNCHANGED messagesVars
    BY <2>5 DEF messagesVars
  <2> QED
    BY <2>2, <2>3, <2>4, <2>5
    DEF Next, Runs, Connect, PacketArrives, AdvanceTime, Disconnect, NoMorePackets,
        ReadMessage, ReadFails, SerializeFails, PacketRead, ProcessPacketMessage,
        PacketProcessed, ReceiveMessage, ReleaseMessage, MessagesProcessed, WriteMessage,
        DropMessage, SendPacket
<1> QED
  BY <1>1, <1>2, <1>3, PTL DEF Spec, GameIsServed
===============================================================================
