----------------------------- MODULE GameServer -----------------------------
(***************************************************************************)
(* The authoritative game server (server/game_server.cpp).                 *)
(*                                                                         *)
(* Run() fills the world with food and then calls Update() sixty times a   *)
(* second.  One Update is split into its steps, in the order of the code:  *)
(*                                                                         *)
(*   Idle -> AdvanceTime -> ProcessMessages -> HandleGameFood              *)
(*        -> HandlePlayerCollisions -> RespawnPlayers                      *)
(*        -> BroadcastWorldState -> SendPackets -> Idle                    *)
(*                                                                         *)
(* Each iteration of a loop of the code is one step, with the loop's       *)
(* iterators in variables, because the properties are about what one       *)
(* iteration leaves for the next.  yojimbo::Server is external: connected, *)
(* inbox, outbox and broken are the part of its state that matters.        *)
(***************************************************************************)
EXTENDS Protocol

CONSTANTS
  MaxSize,   \* bound: no update starts with a player larger than this
  MaxSeq,    \* bound on the sequence numbers of arriving inputs
  MaxBurst,  \* bound on the inputs one client gets through per update
  MaxBroken, \* bound on the connections in error at a time
  TickWrap   \* serverTick is counted modulo this (2^32 in the code)

ASSUME ServerAssumption ==
  /\ MaxSize \in Nat
  /\ MaxSeq \in Nat
  /\ MaxBurst \in Nat
  /\ MaxBroken \in Nat
  /\ TickWrap \in Nat \ {0}

VARIABLES
  connected,          \* yojimbo: slots for which IsClientConnected holds
  inbox,              \* yojimbo: messages ReceiveMessage will return, per slot
  outbox,             \* yojimbo: world states waiting for SendPackets, per slot
  broken,             \* yojimbo: slots whose connection is in error
  players,            \* m_worldState.players, keyed by slot
  foodItems,          \* m_worldState.foodItems
  lastProcessedInput, \* m_lastProcessedInput, an absent key reading as 0
  serverTick,         \* m_worldState.serverTick
  phase,              \* which part of Update runs next
  order,              \* the iteration order of the players map in this update
  it1, it2,           \* the iterators of the loop that is running
  foodReach,          \* twice the collisionRadius HandleGameFood computed
  playersToRespawn    \* HandlePlayerCollisions' vector of eaten players

netVars    == <<connected, inbox, outbox, broken>>
worldVars  == <<players, foodItems, lastProcessedInput, serverTick>>
loopVars   == <<order, it1, it2, foodReach, playersToRespawn>>
serverVars == <<netVars, worldVars, loopVars, phase>>

-----------------------------------------------------------------------------
INITIAL_SIZE == 100 * Tenth
FOOD_SIZE    == 50 * Tenth

Phases == {"Idle", "AdvanceTime", "ProcessMessages", "HandleGameFood",
           "HandlePlayerCollisions", "RespawnPlayers", "BroadcastWorldState",
           "SendPackets", "Stopped"}

(* What a player looks like where rand() has put it. *)
Spawned == {[position |-> p, size |-> INITIAL_SIZE] : p \in SpawnPoints}

(* The inputs that may reach one slot in one update. *)
InputBursts ==
  UNION {[1 .. n -> [sequenceNumber : 1 .. MaxSeq, move : Moves]] : n \in 0 .. MaxBurst}

(* eastl::unordered_map iterates in an order of its own; it keeps it while *)
(* nothing is inserted or erased.                                          *)
IterationOrders ==
  LET ids == DOMAIN players
  IN  {s \in [1 .. Cardinality(ids) -> ids] :
         \A i, j \in DOMAIN s : s[i] = s[j] => i = j}

(* The message BroadcastWorldState fills in for slot c. *)
WorldStateMessage(c) ==
  [serverTick            |-> serverTick,
   lastProcessedInputSeq |-> lastProcessedInput[c],
   players               |-> {[id       |-> d,
                               position |-> players[d].position,
                               size     |-> players[d].size] : d \in DOMAIN players},
   food                  |-> [j \in FoodSlots |->
                               [position |-> foodItems[j].position,
                                tier     |-> foodItems[j].tier]]]

WorldStateMessages ==
  [serverTick            : 0 .. TickWrap - 1,
   lastProcessedInputSeq : Nat,
   players               : SUBSET [id : Slots, position : Position, size : Nat],
   food                  : [FoodSlots -> [position : Position, tier : FoodTier]]]

-----------------------------------------------------------------------------
(* A server nobody is connected to, between two updates.  Run has made     *)
(* every food item before the first of them.                               *)
EmptyServer ==
  /\ connected = {}
  /\ inbox  = [c \in Slots |-> <<>>]
  /\ outbox = [c \in Slots |-> <<>>]
  /\ broken = {}
  /\ players = [c \in {} |-> [position |-> [x |-> 0, y |-> 0], size |-> 0]]
  /\ foodItems \in [FoodSlots -> FoodItems]
  /\ serverTick = 0
  /\ phase = "Idle"
  /\ order = <<>>
  /\ it1 = 1
  /\ it2 = 0
  /\ foodReach = 0
  /\ playersToRespawn = <<>>

ServerInit == EmptyServer /\ lastProcessedInput = [c \in Slots |-> 0]

(* Update begins. *)
BeginUpdate ==
  /\ phase = "Idle"
  /\ \A c \in DOMAIN players : players[c].size <= MaxSize
  /\ serverTick' = (serverTick + 1) % TickWrap
  /\ phase' = "AdvanceTime"
  /\ UNCHANGED <<netVars, players, foodItems, lastProcessedInput, loopVars>>

(* AdvanceTime calls back for every handshake that completed...            *)
ClientConnected(c) ==
  /\ phase = "AdvanceTime"
  /\ c \notin connected
  /\ connected' = connected \cup {c}
  /\ \E player \in Spawned :
       players' = [d \in DOMAIN players \cup {c} |->
                     IF d = c THEN player ELSE players[d]]
  /\ UNCHANGED <<inbox, outbox, broken, foodItems, lastProcessedInput, serverTick,
                 loopVars, phase>>

(* Mutant: the slot is freed, the player stays in the world.               *)
DisconnectedPlayerStays(c) ==
  /\ phase = "AdvanceTime"
  /\ c \in connected
  /\ connected' = connected \ {c}
  /\ inbox' = [inbox EXCEPT ![c] = <<>>]
  /\ broken' = broken \ {c}
  /\ UNCHANGED <<outbox, worldVars, loopVars, phase>>

(* ... and for every client that disconnected or timed out or whose        *)
(* connection is in error; yojimbo resets that slot's connection, with the *)
(* messages still in it.  A message factory that failed while packets were *)
(* read has no other effect, so it is not told from a disconnection.       *)
ClientDisconnected(c) ==
  /\ phase = "AdvanceTime"
  /\ c \in connected
  /\ connected' = connected \ {c}
  /\ inbox' = [inbox EXCEPT ![c] = <<>>]
  /\ broken' = broken \ {c}
  /\ players' = [d \in DOMAIN players \ {c} |-> players[d]]
  /\ UNCHANGED <<outbox, foodItems, lastProcessedInput, serverTick, loopVars, phase>>

(* Mutant: an error does not cost the connection.                          *)
ReceivePacketsAnyway(batch, failed) ==
  /\ phase = "AdvanceTime"
  /\ inbox' = [c \in Slots |-> IF c \in connected THEN inbox[c] \o batch[c] ELSE <<>>]
  /\ broken' = failed
  /\ Cardinality(broken') <= MaxBroken
  /\ phase' = "ProcessMessages"
  /\ UNCHANGED <<connected, outbox, worldVars, loopVars>>

(* ReceivePackets: the inputs that got through, in whatever order.  By now *)
(* AdvanceTime has disconnected every client in error.  A packet that does *)
(* not serialize puts the channel of its slot in error, behind what it has *)
(* already received.                                                       *)
ReceivePackets(batch, failed) ==
  /\ phase = "AdvanceTime"
  /\ broken = {}
  /\ inbox' = [c \in Slots |-> IF c \in connected THEN inbox[c] \o batch[c] ELSE <<>>]
  /\ broken' = failed
  /\ Cardinality(broken') <= MaxBroken
  /\ phase' = "ProcessMessages"
  /\ UNCHANGED <<connected, outbox, worldVars, loopVars>>

-----------------------------------------------------------------------------
(* Mutant: only the lower bounds are clamped.                              *)
MovedBeyondWorld(position, move) ==
  LET d == Displacement(move)
  IN  [x |-> IF position.x + d.x < 0 THEN 0 ELSE position.x + d.x,
       y |-> IF position.y + d.y < 0 THEN 0 ELSE position.y + d.y]

(* Where an input takes a player: one stride, clamped to the world.        *)
Moved(position, move) ==
  [x |-> Clamp(position.x + Displacement(move).x, WORLD_WIDTH),
   y |-> Clamp(position.y + Displacement(move).y, WORLD_HEIGHT)]

(* ReceivePlayerInputMessage: the sequence number is recorded even when    *)
(* the slot has no player to move.                                         *)
ReceivePlayerInputMessage(c, message) ==
  /\ lastProcessedInput' = [lastProcessedInput EXCEPT ![c] = message.sequenceNumber]
  /\ players' = IF c \in DOMAIN players
                THEN [players EXCEPT ![c].position = Moved(@, message.move)]
                ELSE players

(* The slots for which ReceiveMessage still returns a message: a channel   *)
(* in error returns none, whatever its queue holds.                        *)
WithMessages == {c \in connected \ broken : inbox[c] # <<>>}

(* The slot whose messages the loop of ProcessMessages is draining.        *)
Draining(c) ==
  /\ c \in WithMessages
  /\ \A d \in WithMessages : c <= d

(* Mutant: the message stays in the queue and is processed again.          *)
ProcessMessageAgain(c) ==
  /\ phase = "ProcessMessages"
  /\ Draining(c)
  /\ ReceivePlayerInputMessage(c, Head(inbox[c]))
  /\ UNCHANGED <<netVars, foodItems, serverTick, loopVars, phase>>

ProcessMessage(c) ==
  /\ phase = "ProcessMessages"
  /\ Draining(c)
  /\ ReceivePlayerInputMessage(c, Head(inbox[c]))
  /\ inbox' = [inbox EXCEPT ![c] = Tail(@)]
  /\ UNCHANGED <<connected, outbox, broken, foodItems, serverTick, loopVars, phase>>

(* No slot has a message to return: on to the food, the first player first. *)
StartFood ==
  /\ phase = "ProcessMessages"
  /\ WithMessages = {}
  /\ order' \in IterationOrders
  /\ it1' = 1
  /\ it2' = 0
  /\ phase' = "HandleGameFood"
  /\ UNCHANGED <<netVars, worldVars, foodReach, playersToRespawn>>

-----------------------------------------------------------------------------
(* HandleGameFood.  it1 is the player, it2 the food item.                  *)
InFoodLoop == phase = "HandleGameFood" /\ it1 <= Len(order) /\ MAX_FOOD > 0

(* Mutant: the radius is computed once for all players.                    *)
FoodReachOfFirst ==
  IF it1 = 1 /\ it2 = 0 THEN players[order[it1]].size + FOOD_SIZE ELSE foodReach

(* The radius is computed once per player, before it eats anything.        *)
FoodReach ==
  IF it2 = 0 THEN players[order[it1]].size + FOOD_SIZE ELSE foodReach

NextFoodPair ==
  /\ foodReach' = FoodReach
  /\ IF it2 + 1 < MAX_FOOD
     THEN it1' = it1 /\ it2' = it2 + 1
     ELSE it1' = it1 + 1 /\ it2' = 0

Eats(p, j) == Overlap(foodItems[j].position, players[p].position, FoodReach)

(* The player grows by the item's value and the item is made anew.         *)
EatFood ==
  /\ InFoodLoop
  /\ LET p == order[it1]
     IN  /\ Eats(p, it2)
         /\ players' = [players EXCEPT ![p].size = @ + foodItems[it2].value]
  /\ \E item \in FoodItems : foodItems' = [foodItems EXCEPT ![it2] = item]
  /\ NextFoodPair
  /\ UNCHANGED <<netVars, lastProcessedInput, serverTick, order, playersToRespawn, phase>>

SkipFood ==
  /\ InFoodLoop
  /\ ~Eats(order[it1], it2)
  /\ NextFoodPair
  /\ UNCHANGED <<netVars, worldVars, order, playersToRespawn, phase>>

StartCollisions ==
  /\ phase = "HandleGameFood"
  /\ it1 > Len(order) \/ MAX_FOOD = 0
  /\ it1' = 1
  /\ it2' = 2
  /\ playersToRespawn' = <<>>
  /\ phase' = "HandlePlayerCollisions"
  /\ UNCHANGED <<netVars, worldVars, order, foodReach>>

-----------------------------------------------------------------------------
(* HandlePlayerCollisions.  it1 and it2 are the two players, it1 first.    *)
InPairLoop == phase = "HandlePlayerCollisions" /\ it2 <= Len(order)

NextPair ==
  IF it2 + 1 <= Len(order)
  THEN it1' = it1 /\ it2' = it2 + 1
  ELSE it1' = it1 + 1 /\ it2' = it1 + 2

Touching(p, q) ==
  Overlap(players[p].position, players[q].position, players[p].size + players[q].size)

(* SIZE_ADVANTAGE is 1.1.                                                  *)
Dominates(p, q) == 10 * players[p].size > 11 * players[q].size

(* The earlier player eats the later one; its size is left as it was.      *)
FirstEatsSecond ==
  /\ InPairLoop
  /\ LET p == order[it1]
         q == order[it2]
     IN  /\ Touching(p, q)
         /\ Dominates(p, q)
         /\ playersToRespawn' = Append(playersToRespawn, q)
  /\ NextPair
  /\ UNCHANGED <<netVars, worldVars, order, foodReach, phase>>

(* The later player eats the earlier one and grows by half of it.          *)
SecondEatsFirst ==
  /\ InPairLoop
  /\ LET p == order[it1]
         q == order[it2]
     IN  /\ Touching(p, q)
         /\ Dominates(q, p)
         /\ playersToRespawn' = Append(playersToRespawn, p)
         /\ players' = [players EXCEPT ![q].size = @ + players[p].size \div 2]
  /\ NextPair
  /\ UNCHANGED <<netVars, foodItems, lastProcessedInput, serverTick, order,
                 foodReach, phase>>

SkipPair ==
  /\ InPairLoop
  /\ LET p == order[it1]
         q == order[it2]
     IN  ~(Touching(p, q) /\ (Dominates(p, q) \/ Dominates(q, p)))
  /\ NextPair
  /\ UNCHANGED <<netVars, worldVars, order, foodReach, playersToRespawn, phase>>

StartRespawns ==
  /\ phase = "HandlePlayerCollisions"
  /\ it2 > Len(order)
  /\ it1' = 1
  /\ phase' = "RespawnPlayers"
  /\ UNCHANGED <<netVars, worldVars, order, it2, foodReach, playersToRespawn>>

(* Mutant: the id is taken for a place in the iteration order.             *)
RespawnByPlace ==
  /\ phase = "RespawnPlayers"
  /\ it1 <= Len(playersToRespawn)
  /\ \E player \in Spawned :
       players' = [d \in DOMAIN players |-> IF d = order[it1] THEN player ELSE players[d]]
  /\ it1' = it1 + 1
  /\ UNCHANGED <<netVars, foodItems, lastProcessedInput, serverTick, order, it2,
                 foodReach, playersToRespawn, phase>>

(* Mutant: the loop's iterator does not advance.                           *)
RespawnForever ==
  /\ phase = "RespawnPlayers"
  /\ it1 <= Len(playersToRespawn)
  /\ \E player \in Spawned :
       players' = [d \in DOMAIN players |->
                     IF d = playersToRespawn[it1] THEN player ELSE players[d]]
  /\ UNCHANGED <<netVars, foodItems, lastProcessedInput, serverTick, loopVars, phase>>

(* RespawnPlayer of the next eaten player.                                 *)
RespawnPlayer ==
  /\ phase = "RespawnPlayers"
  /\ it1 <= Len(playersToRespawn)
  /\ \E player \in Spawned :
       players' = [d \in DOMAIN players |->
                     IF d = playersToRespawn[it1] THEN player ELSE players[d]]
  /\ it1' = it1 + 1
  /\ UNCHANGED <<netVars, foodItems, lastProcessedInput, serverTick, order, it2,
                 foodReach, playersToRespawn, phase>>

(* Mutant: the last eaten player may be left out.                          *)
StartBroadcastEarly ==
  /\ phase = "RespawnPlayers"
  /\ it1 >= Len(playersToRespawn)
  /\ phase' = "BroadcastWorldState"
  /\ UNCHANGED <<netVars, worldVars, loopVars>>

StartBroadcast ==
  /\ phase = "RespawnPlayers"
  /\ it1 > Len(playersToRespawn)
  /\ phase' = "BroadcastWorldState"
  /\ UNCHANGED <<netVars, worldVars, loopVars>>

-----------------------------------------------------------------------------
(* BroadcastWorldState: a message per connected client, except those whose *)
(* CreateMessage found no memory and which are in error now, and those     *)
(* whose channel already was, which drops what it is given.                *)
BroadcastWorldState(failed) ==
  /\ phase = "BroadcastWorldState"
  /\ broken' = broken \cup failed
  /\ Cardinality(broken') <= MaxBroken
  /\ outbox' = [c \in Slots |->
                  IF c \in connected \ broken'
                  THEN Append(outbox[c], WorldStateMessage(c)) ELSE outbox[c]]
  /\ phase' = "SendPackets"
  /\ UNCHANGED <<connected, inbox, worldVars, loopVars>>

(* SendPackets empties the send queues; the update's locals are gone.      *)
SendPackets ==
  /\ phase = "SendPackets"
  /\ outbox' = [c \in Slots |-> <<>>]
  /\ order' = <<>>
  /\ it1' = 1
  /\ it2' = 0
  /\ foodReach' = 0
  /\ playersToRespawn' = <<>>
  /\ phase' = "Idle"
  /\ UNCHANGED <<connected, inbox, broken, worldVars>>

(* ~GameServer stops yojimbo's server: every client is disconnected, with  *)
(* its ClientDisconnected, and Run leaves its loop.  Here it happens       *)
(* between two updates; Processes has it wherever the thread is.           *)
Stop ==
  /\ phase = "Idle"
  /\ connected' = {}
  /\ inbox' = [c \in Slots |-> <<>>]
  /\ broken' = {}
  /\ players' = [d \in {} |-> players[d]]
  /\ phase' = "Stopped"
  /\ UNCHANGED <<outbox, foodItems, lastProcessedInput, serverTick, loopVars>>

Stopped == phase = "Stopped" /\ UNCHANGED serverVars

-----------------------------------------------------------------------------
(* What the server's own thread does next inside an update.                *)
ServerStep ==
  \/ \E c \in Slots : c \in broken /\ ClientDisconnected(c)
  \/ /\ phase = "AdvanceTime"
     /\ \E batch \in [Slots -> InputBursts], failed \in SUBSET connected :
          ReceivePackets(batch, failed)
  \/ \E c \in Slots : ProcessMessage(c)
  \/ StartFood
  \/ EatFood
  \/ SkipFood
  \/ StartCollisions
  \/ FirstEatsSecond
  \/ SecondEatsFirst
  \/ SkipPair
  \/ StartRespawns
  \/ RespawnPlayer
  \/ StartBroadcast
  \/ \E failed \in SUBSET connected : BroadcastWorldState(failed)
  \/ SendPackets

ServerNext ==
  \/ BeginUpdate
  \/ \E c \in Slots : ClientConnected(c)
  \/ \E c \in Slots : ClientDisconnected(c)
  \/ ServerStep
  \/ Stop
  \/ Stopped

ServerSpec == ServerInit /\ [][ServerNext]_serverVars

(* The thread that runs Update keeps running it to its end.                *)
FairServerSpec == ServerSpec /\ WF_serverVars(ServerStep)

-----------------------------------------------------------------------------
(* Properties.                                                             *)

(* Every variable stays in its type; in particular no input, clamped as it *)
(* is, takes a player out of the world (ReceivePlayerInputMessage).        *)
ServerTypeOK ==
  /\ connected \in SUBSET Slots
  /\ inbox \in [Slots -> Seq(PlayerInputMessage)]
  /\ outbox \in [Slots -> Seq(WorldStateMessages)]
  /\ broken \in SUBSET Slots
  /\ \E S \in SUBSET Slots : players \in [S -> PlayerState]
  /\ foodItems \in [FoodSlots -> FoodItems]
  /\ lastProcessedInput \in [Slots -> Nat]
  /\ serverTick \in 0 .. TickWrap - 1
  /\ phase \in Phases
  /\ order \in Seq(Slots)
  /\ it1 \in Nat \ {0}
  /\ it2 \in Nat
  /\ foodReach \in Nat
  /\ playersToRespawn \in Seq(Slots)

(* The game's players are exactly yojimbo's connected clients, at every    *)
(* step: the callbacks keep two containers owned by two libraries in line, *)
(* and no loop adds or removes a player behind them.                       *)
PlayersMatchConnected == DOMAIN players = connected

(* An input is processed in the update it arrived in, for the client it    *)
(* came from, or never.  ReceiveMessage leaves the inputs of a channel in  *)
(* error queued through the rest of the update; yet none is there when the *)
(* next packets are read or when another client is given the slot.         *)
InputsAreFresh ==
  [][/\ phase = "AdvanceTime" /\ phase' = "ProcessMessages" =>
          \A c \in Slots : inbox[c] = <<>>
     /\ \A c \in connected' \ connected : inbox'[c] = <<>>]_serverVars

(* The eaten players whose RespawnPlayer has not run yet.                  *)
Unpaid ==
  LET first == IF phase = "RespawnPlayers" THEN it1 ELSE 1
  IN  IF phase \in {"HandlePlayerCollisions", "RespawnPlayers"}
      THEN {playersToRespawn[i] : i \in first .. Len(playersToRespawn)}
      ELSE {}

(* What BroadcastWorldState sends is a settled world: each message shows   *)
(* its addressee and the connected players, nobody below the initial size, *)
(* and every player eaten in this update back at the initial size.         *)
WireShowsSettledWorld ==
  \A c \in Slots : \A i \in DOMAIN outbox[c] :
    LET shown == outbox[c][i].players
    IN  /\ \E player \in shown : player.id = c
        /\ {player.id : player \in shown} = connected
        /\ \A player \in shown :
             /\ player.size >= INITIAL_SIZE
             /\ \A k \in DOMAIN playersToRespawn :
                  player.id = playersToRespawn[k] => player.size = INITIAL_SIZE

(* A player that stays connected loses size only by being eaten in this    *)
(* very update; a new connection to the slot is the only other way.        *)
OnlyTheEatenShrink ==
  [][\A c \in connected \cap connected' :
       players'[c].size < players[c].size => c \in Unpaid]_serverVars

(* The server's loops implement the arena: food and players are eaten only *)
(* when touched, food pays its value once, and respawns settle every debt  *)
(* before anybody else may move, join or leave.                            *)
ArenaOfServer == INSTANCE Arena WITH eaten <- Unpaid
ImplementsArena == ArenaOfServer!Spec

(* How far an update has come.                                             *)
Progress ==
  [AdvanceTime |-> 1, ProcessMessages |-> 2, HandleGameFood |-> 3, HandlePlayerCollisions |-> 4,
   RespawnPlayers |-> 5, BroadcastWorldState |-> 6, SendPackets |-> 7, Idle |-> 8]

(* An input less, and no slot has got another one.                         *)
QueuesShrink ==
  /\ \A c \in Slots : Len(inbox'[c]) <= Len(inbox[c])
  /\ \E c \in Slots : Len(inbox'[c]) < Len(inbox[c])

(* The next pair of a loop, or what there is after its last pair.          *)
NextIn(length1, length2) ==
  /\ it1' > it1 \/ (it1' = it1 /\ it2' > it2)
  /\ it1' <= length1 + 1
  /\ it2' <= length2 + 1

(* What there is to do in a part of Update has become less.                *)
LessToDo ==
  \/ phase = "AdvanceTime" /\ broken' \subseteq broken /\ broken' # broken
  \/ phase = "ProcessMessages" /\ QueuesShrink
  \/ phase = "HandleGameFood" /\ NextIn(Len(order), MAX_FOOD)
  \/ phase = "HandlePlayerCollisions" /\ NextIn(Len(order), Len(order))
  \/ /\ phase = "RespawnPlayers"
     /\ playersToRespawn' = playersToRespawn
     /\ it1' > it1
     /\ it1' <= Len(playersToRespawn) + 1

(* The argument for the end of an update: each step of the server's thread *)
(* goes on to a later part of Update or leaves less to do in the one at    *)
(* hand, where nothing is added meanwhile.  The loops change what they go  *)
(* through, sizes and the vector of the eaten, but never how much it is.   *)
UpdateGetsOn ==
  [][ServerStep =>
       \/ Progress[phase'] > Progress[phase]
       \/ phase' = phase /\ order' = order /\ LessToDo]_serverVars

(* An update, once begun, comes to its end: every loop of it terminates.   *)
UpdateCompletes == phase = "AdvanceTime" ~> phase = "Idle"

(* Eating somebody makes the eater grow: both branches of the collision    *)
(* code compute growthAmount and log the eater's size "before" as the size *)
(* minus that growth.  The branch of the earlier player never adds it.     *)
EaterGrows ==
  [][Len(playersToRespawn') > Len(playersToRespawn) =>
       \E p \in DOMAIN players : players'[p].size > players[p].size]_serverVars
=============================================================================
