------------------------- MODULE ServerRefinesArena -------------------------
(***************************************************************************)
(* The server implements the arena: the initial states map to initial      *)
(* states, and every step of an update is one step of Arena or a stutter.  *)
(*                                                                         *)
(* Two facts carry the proof.  The radius that HandleGameFood caches never *)
(* exceeds the player's current one, since a player only grows while it    *)
(* eats; so whatever it eats with a stale radius, it does touch.  And the  *)
(* players still to respawn are the tail of the vector that RespawnPlayers *)
(* walks, so the debts shrink as the loop advances.                        *)
(***************************************************************************)
EXTENDS GameServerProofs

-----------------------------------------------------------------------------
(* The cached radius.                                                      *)

CachedReachIsSafe ==
  phase = "HandleGameFood" /\ it2 > 0 /\ it1 <= Len(order) =>
    foodReach <= players[order[it1]].size + FOOD_SIZE

(* A wider reach overlaps whatever a narrower one overlaps.                *)
LEMMA OverlapMonotone ==
  ASSUME NEW p \in Position, NEW q \in Position,
         NEW d \in Nat, NEW e \in Nat, d <= e, Overlap(p, q, d)
  PROVE  Overlap(p, q, e)
<1>1. distanceSquared(p, q) \in Int
  BY ProtocolAssumption DEF distanceSquared, Position
<1>2. d * d <= e * e
  OBVIOUS
<1> QED
  BY <1>1, <1>2 DEF Overlap

(* In the food loop the reach in use is at most the player's own.          *)
LEMMA ReachBound ==
  ASSUME Typed, CachedReachIsSafe, InFoodLoop
  PROVE  /\ order[it1] \in connected
         /\ it2 \in FoodSlots
         /\ FoodReach \in Nat
         /\ players[order[it1]].size + FOOD_SIZE \in Nat
         /\ FoodReach <= players[order[it1]].size + FOOD_SIZE
<1>1. /\ it1 \in Nat \ {0}
      /\ it2 \in Nat
      /\ it2 \in FoodSlots
      /\ foodReach \in Nat
      /\ it1 <= Len(order)
      /\ phase = "HandleGameFood"
  BY FoodIndexTyped DEF InFoodLoop, Typed, LoopsTyped
<1>2. /\ order[it1] \in connected
      /\ players[order[it1]].size \in Nat
  BY <1>1, OrderTyped DEF PlayerState
<1>3. players[order[it1]].size + FOOD_SIZE \in Nat
  BY <1>2, ProtocolAssumption DEF FOOD_SIZE
<1>4. CASE it2 = 0
  BY <1>1, <1>2, <1>3, <1>4 DEF FoodReach
<1>5. CASE it2 # 0
  BY <1>1, <1>2, <1>3, <1>5 DEF FoodReach, CachedReachIsSafe
<1> QED
  BY <1>1, <1>2, <1>3, <1>4, <1>5

LEMMA CachedReachStep ==
  Typed /\ CachedReachIsSafe /\ [ServerNext]_serverVars => CachedReachIsSafe'
<1> SUFFICES ASSUME Typed, CachedReachIsSafe, [ServerNext]_serverVars
             PROVE  CachedReachIsSafe'
  OBVIOUS
<1>1. ASSUME phase' # "HandleGameFood" PROVE CachedReachIsSafe'
  BY <1>1 DEF CachedReachIsSafe
<1>2. CASE EatFood
  <2> DEFINE p == order[it1]
             growth == foodItems[it2].value
  <2>1. /\ InFoodLoop
        /\ NextFoodPair
        /\ order' = order
        /\ players' = [players EXCEPT ![p] =
                         [players[p] EXCEPT !.size = players[p].size + growth]]
    BY <1>2 DEF EatFood
  <2>2. /\ p \in connected
        /\ FoodReach \in Nat
        /\ FoodReach <= players[p].size + FOOD_SIZE
        /\ players[p] \in PlayerState
        /\ growth \in Nat
        /\ FOOD_SIZE \in Nat
        /\ FOOD_SIZE' = FOOD_SIZE
    <3>1. /\ p \in connected
          /\ it2 \in FoodSlots
          /\ FoodReach \in Nat
          /\ FoodReach <= players[p].size + FOOD_SIZE
      BY <2>1, ReachBound
    <3>2. growth \in Nat
      BY <3>1, FoodItemsTyped DEF Typed
    <3>3. FOOD_SIZE \in Nat /\ FOOD_SIZE' = FOOD_SIZE
      BY ProtocolAssumption DEF FOOD_SIZE
    <3> QED
      BY <3>1, <3>2, <3>3 DEF Typed, PlayersTyped
  <2>3. players'[p].size = players[p].size + growth
    BY <2>1, <2>2 DEF Typed, PlayersTyped, PlayerState
  <2>4. CASE it2 + 1 < MAX_FOOD
    <3>1. foodReach' = FoodReach /\ it1' = it1
      BY <2>1, <2>4 DEF NextFoodPair
    <3>2. order'[it1'] = p
      BY <2>1, <3>1
    <3>3. players[p].size \in Nat
      BY <2>2 DEF PlayerState
    <3> HIDE DEF p, growth
    <3>4. foodReach' <= players'[p].size + FOOD_SIZE
      BY <2>2, <2>3, <3>1, <3>3
    <3> QED
      BY <2>2, <3>2, <3>4 DEF CachedReachIsSafe
  <2>5. CASE ~(it2 + 1 < MAX_FOOD)
    BY <2>1, <2>5 DEF NextFoodPair, CachedReachIsSafe
  <2> QED
    BY <2>4, <2>5
<1>3. CASE SkipFood
  <2>1. /\ InFoodLoop
        /\ NextFoodPair
        /\ UNCHANGED <<order, players>>
    BY <1>3 DEF SkipFood, worldVars
  <2>2. /\ FoodReach <= players[order[it1]].size + FOOD_SIZE
        /\ FOOD_SIZE' = FOOD_SIZE
    BY <2>1, ReachBound DEF FOOD_SIZE
  <2>3. CASE it2 + 1 < MAX_FOOD
    BY <2>1, <2>2, <2>3 DEF NextFoodPair, CachedReachIsSafe
  <2>4. CASE ~(it2 + 1 < MAX_FOOD)
    BY <2>1, <2>4 DEF NextFoodPair, CachedReachIsSafe
  <2> QED
    BY <2>3, <2>4
<1>4. CASE StartFood
  BY <1>4 DEF StartFood, CachedReachIsSafe
<1>5. CASE \/ BeginUpdate \/ StartCollisions \/ StartRespawns \/ StartBroadcast
           \/ FirstEatsSecond \/ SecondEatsFirst \/ SkipPair \/ RespawnPlayer
           \/ SendPackets \/ Stop \/ Stopped
           \/ \E c \in Slots : ClientConnected(c) \/ ClientDisconnected(c) \/ ProcessMessage(c)
           \/ \E batch \in [Slots -> InputBursts], failed \in SUBSET connected :
                   ReceivePackets(batch, failed)
           \/ \E failed \in SUBSET connected : BroadcastWorldState(failed)
  <2>1. phase' # "HandleGameFood"
    BY <1>5
    DEF BeginUpdate, StartCollisions, StartRespawns, StartBroadcast, FirstEatsSecond,
        SecondEatsFirst, SkipPair, InPairLoop, RespawnPlayer, SendPackets, Stop, Stopped,
        ClientConnected, ClientDisconnected, ProcessMessage, ReceivePackets,
        BroadcastWorldState, serverVars
  <2> QED
    BY <1>1, <2>1
<1>6. CASE UNCHANGED serverVars
  BY <1>6 DEF serverVars, worldVars, loopVars, CachedReachIsSafe, FOOD_SIZE
<1> QED
  BY <1>2, <1>3, <1>4, <1>5, <1>6 DEF ServerNext, ServerStep

LEMMA CachedReachInvariant == ServerSpec => []CachedReachIsSafe
<1>1. ServerInit => CachedReachIsSafe
  BY DEF ServerInit, EmptyServer, CachedReachIsSafe
<1> QED
  BY <1>1, CachedReachStep, CoreInvariant, PTL DEF ServerSpec

-----------------------------------------------------------------------------
(* The step simulation.  Arena's vocabulary is GameServer's.               *)

LEMMA ArenaInit == Typed /\ Unpaid = {} => ArenaOfServer!Init
BY DEF Typed, PlayersTyped, ArenaOfServer!Init, ArenaOfServer!Slots, Slots,
       ArenaOfServer!PlayerState, PlayerState, ArenaOfServer!Position, Position,
       ArenaOfServer!FoodSlots, FoodSlots,
       ArenaOfServer!FoodItems, FoodItems, ArenaOfServer!FoodTier, FoodTier,
       ArenaOfServer!CreateFoodItemFromTier, CreateFoodItemFromTier,
       ArenaOfServer!FoodValue, FoodValue

LEMMA ArenaJoin ==
  ASSUME Typed, NEW c \in Slots, ClientConnected(c)
  PROVE  ArenaOfServer!Join(c)
<1>1. Unpaid = {} /\ Unpaid' = {}
  BY DEF ClientConnected, Unpaid
<1> QED
  BY <1>1
  DEF ClientConnected, Typed, PlayersTyped, ArenaOfServer!Join, ArenaOfServer!Newcomers,
      Spawned, ArenaOfServer!StartSize, INITIAL_SIZE

LEMMA ArenaLeave ==
  ASSUME Typed, NEW c \in Slots, ClientDisconnected(c)
  PROVE  ArenaOfServer!Leave(c)
<1>1. Unpaid = {} /\ Unpaid' = {}
  BY DEF ClientDisconnected, Unpaid
<1> QED
  BY <1>1 DEF ClientDisconnected, Typed, PlayersTyped, ArenaOfServer!Leave

LEMMA ArenaMove ==
  ASSUME Typed, NEW c \in Slots, ProcessMessage(c)
  PROVE  ArenaOfServer!Move(c)
<1>1. Unpaid = {} /\ Unpaid' = {}
  BY DEF ProcessMessage, Unpaid
<1>2. c \in connected /\ Head(inbox[c]).move \in Moves
  <2>1. /\ c \in connected
        /\ inbox[c] \in Seq(PlayerInputMessage)
        /\ inbox[c] # <<>>
    BY DEF ProcessMessage, Draining, WithMessages, Typed
  <2>2. Head(inbox[c]) \in PlayerInputMessage
    BY <2>1
  <2> QED
    BY <2>1, <2>2 DEF PlayerInputMessage
<1>3. players' = [players EXCEPT ![c].position = Moved(@, Head(inbox[c]).move)]
  BY <1>2 DEF ProcessMessage, ReceivePlayerInputMessage, Typed, PlayersTyped
<1>4. foodItems' = foodItems
  BY DEF ProcessMessage
<1> QED
  BY <1>1, <1>2, <1>3, <1>4
  DEF Typed, PlayersTyped, ArenaOfServer!Move, Moved, Clamp, Displacement,
      ArenaOfServer!Clamp, ArenaOfServer!Displacement

LEMMA ArenaEatFood ==
  ASSUME Typed, CachedReachIsSafe, EatFood
  PROVE  ArenaOfServer!EatFood(order[it1], it2)
<1> DEFINE p == order[it1]
<1>1. Unpaid = {} /\ Unpaid' = {}
  BY DEF EatFood, InFoodLoop, Unpaid
<1>2. /\ p \in connected
      /\ it2 \in FoodSlots
      /\ FoodReach \in Nat
      /\ players[p].size + FOOD_SIZE \in Nat
      /\ FoodReach <= players[p].size + FOOD_SIZE
  BY ReachBound DEF EatFood
<1>3. foodItems[it2].position \in Position /\ players[p].position \in Position
  BY <1>2, FoodItemsTyped DEF Typed, PlayersTyped, PlayerState
<1>4. Overlap(foodItems[it2].position, players[p].position, FoodReach)
  BY DEF EatFood, Eats
<1>5. Overlap(foodItems[it2].position, players[p].position, players[p].size + FOOD_SIZE)
  BY <1>2, <1>3, <1>4, OverlapMonotone
<1>6. /\ players' = [players EXCEPT ![p].size = @ + foodItems[it2].value]
      /\ \E item \in FoodItems : foodItems' = [foodItems EXCEPT ![it2] = item]
  BY DEF EatFood
<1> HIDE DEF p
<1>7. ArenaOfServer!Overlap(foodItems[it2].position, players[p].position,
                            players[p].size + ArenaOfServer!FoodWidth)
  BY <1>5
  DEF ArenaOfServer!Overlap, Overlap, ArenaOfServer!distanceSquared, distanceSquared,
      ArenaOfServer!FoodWidth, FOOD_SIZE
<1>8. ArenaOfServer!FoodItems = FoodItems
  BY DEF ArenaOfServer!FoodItems, FoodItems, ArenaOfServer!FoodTier, FoodTier,
         ArenaOfServer!CreateFoodItemFromTier, CreateFoodItemFromTier,
         ArenaOfServer!FoodValue, FoodValue
<1>9. ArenaOfServer!EatFood(p, it2)
  BY <1>1, <1>2, <1>6, <1>7, <1>8 DEF ArenaOfServer!EatFood, Typed, PlayersTyped
<1> QED
  BY <1>9 DEF p

(* Appending an eaten player to the vector adds it to the debts.           *)
LEMMA AppendOwes ==
  ASSUME Typed, NEW q \in connected,
         phase = "HandlePlayerCollisions", phase' = phase,
         playersToRespawn' = Append(playersToRespawn, q)
  PROVE  Unpaid' = Unpaid \cup {q}
<1> DEFINE n == Len(playersToRespawn)
<1>1. playersToRespawn \in Seq(connected) /\ n \in Nat
  BY DEF Typed, LoopsTyped
<1>2. /\ Len(playersToRespawn') = n + 1
      /\ playersToRespawn'[n + 1] = q
      /\ \A i \in 1 .. n : playersToRespawn'[i] = playersToRespawn[i]
  BY <1>1
<1>3. Unpaid = {playersToRespawn[i] : i \in 1 .. n}
  BY DEF Unpaid
<1>4. Unpaid' = {playersToRespawn'[i] : i \in 1 .. n + 1}
  BY <1>2 DEF Unpaid
<1> HIDE DEF n
<1> QED
  BY <1>1, <1>2, <1>3, <1>4

LEMMA PairTyped ==
  ASSUME Typed, InPairLoop
  PROVE  /\ order[it1] \in connected
         /\ order[it2] \in connected
<1>1. /\ it1 \in Nat \ {0}
      /\ it2 \in Nat
      /\ order \in Seq(connected)
      /\ it1 < it2
      /\ it2 <= Len(order)
  BY DEF InPairLoop, Typed, LoopsTyped, LoopsFitPhase
<1>2. it2 \in Nat \ {0} /\ it1 <= Len(order)
  BY <1>1
<1> QED
  BY <1>1, <1>2, OrderTyped

LEMMA ArenaEatPlayer ==
  ASSUME Typed, NEW p \in connected, NEW q \in connected,
         Touching(p, q), Dominates(p, q),
         Unpaid' = Unpaid \cup {q},
         \/ players' = [players EXCEPT ![p].size = @ + players[q].size \div 2]
         \/ players' = players,
         foodItems' = foodItems
  PROVE  ArenaOfServer!EatPlayer(p, q)
<1>1. p # q
  <2>1. players[p].size \in Nat
    BY DEF Typed, PlayersTyped, PlayerState
  <2> QED
    BY <2>1 DEF Dominates
<1> QED
  BY <1>1
  DEF ArenaOfServer!EatPlayer, Typed, PlayersTyped, Touching, Dominates,
      ArenaOfServer!Overlap, Overlap, ArenaOfServer!distanceSquared, distanceSquared

LEMMA OverlapSymmetric ==
  ASSUME NEW p \in connected, NEW q \in connected, Typed, Touching(p, q)
  PROVE  Touching(q, p)
<1>1. /\ players[p].size \in Int
      /\ players[q].size \in Int
      /\ players[p].position \in Position
      /\ players[q].position \in Position
  BY DEF Typed, PlayersTyped, PlayerState
<1>2. players[p].size + players[q].size = players[q].size + players[p].size
  BY <1>1
<1>3. distanceSquared(players[p].position, players[q].position)
        = distanceSquared(players[q].position, players[p].position)
  BY <1>1, ProtocolAssumption DEF Position, distanceSquared
<1> QED
  BY <1>2, <1>3 DEF Touching, Overlap

LEMMA ArenaCollision ==
  ASSUME Typed, FirstEatsSecond \/ SecondEatsFirst
  PROVE  \E p, q \in Slots : ArenaOfServer!EatPlayer(p, q)
<1> DEFINE p == order[it1]
           q == order[it2]
<1>1. p \in connected /\ q \in connected /\ phase = "HandlePlayerCollisions"
  BY PairTyped DEF FirstEatsSecond, SecondEatsFirst, InPairLoop
<1>2. p \in Slots /\ q \in Slots
  BY <1>1 DEF Typed
<1>3. CASE FirstEatsSecond
  <2>1. /\ Touching(p, q)
        /\ Dominates(p, q)
        /\ playersToRespawn' = Append(playersToRespawn, q)
        /\ UNCHANGED <<players, foodItems, phase>>
    BY <1>3 DEF FirstEatsSecond, worldVars
  <2> HIDE DEF p, q
  <2> QED
    BY <1>1, <1>2, <2>1, AppendOwes, ArenaEatPlayer
<1>4. CASE SecondEatsFirst
  <2>1. /\ Touching(p, q)
        /\ Dominates(q, p)
        /\ playersToRespawn' = Append(playersToRespawn, p)
        /\ players' = [players EXCEPT ![q].size = @ + players[p].size \div 2]
        /\ UNCHANGED <<foodItems, phase>>
    BY <1>4 DEF SecondEatsFirst
  <2> HIDE DEF p, q
  <2>2. Touching(q, p)
    BY <1>1, <2>1, OverlapSymmetric
  <2> QED
    BY <1>1, <1>2, <2>1, <2>2, AppendOwes, ArenaEatPlayer
<1> QED
  BY <1>3, <1>4

LEMMA ArenaRespawn ==
  ASSUME Typed, RespawnPlayer
  PROVE  /\ playersToRespawn[it1] \in Slots
         /\ ArenaOfServer!Respawn(playersToRespawn[it1])
<1> DEFINE q == playersToRespawn[it1]
           n == Len(playersToRespawn)
<1>1. /\ it1 \in Nat \ {0}
      /\ it1 <= n
      /\ n \in Nat
      /\ playersToRespawn \in Seq(connected)
      /\ phase = "RespawnPlayers"
      /\ it1' = it1 + 1
      /\ UNCHANGED <<playersToRespawn, phase, foodItems>>
  BY DEF RespawnPlayer, Typed, LoopsTyped
<1>2. q \in connected /\ connected \subseteq Slots
  BY <1>1 DEF Typed
<1>3. /\ Unpaid = {playersToRespawn[i] : i \in it1 .. n}
      /\ Unpaid' = {playersToRespawn[i] : i \in it1 + 1 .. n}
  BY <1>1 DEF Unpaid
<1>4. q \in Unpaid
  BY <1>1, <1>3
<1>5. \A i \in it1 .. n : i = it1 \/ i \in it1 + 1 .. n
  BY <1>1
<1>6. \A i \in it1 + 1 .. n : i \in it1 .. n
  BY <1>1
<1>7. Unpaid = Unpaid' \cup {q}
  <2> HIDE DEF n
  <2> QED
    BY <1>3, <1>4, <1>5, <1>6
<1>8. Unpaid' \in {Unpaid, Unpaid \ {q}}
  BY <1>7
<1>9. \E player \in Spawned : players' = [players EXCEPT ![q] = player]
  BY DEF RespawnPlayer, Typed, PlayersTyped
<1> HIDE DEF q, n
<1>10. ArenaOfServer!Respawn(q)
  BY <1>1, <1>2, <1>4, <1>8, <1>9
  DEF ArenaOfServer!Respawn, ArenaOfServer!Newcomers, Spawned, ArenaOfServer!StartSize,
      INITIAL_SIZE, Typed, PlayersTyped
<1> QED
  BY <1>2, <1>10 DEF q

(* Every step of the server is a step of the arena or leaves it unchanged. *)
LEMMA ArenaStep ==
  Typed /\ CachedReachIsSafe /\ [ServerNext]_serverVars
    => [ArenaOfServer!Next]_<<players, foodItems, Unpaid>>
<1> SUFFICES ASSUME Typed, CachedReachIsSafe, [ServerNext]_serverVars
             PROVE  ArenaOfServer!Next \/ UNCHANGED <<players, foodItems, Unpaid>>
  OBVIOUS
<1> USE DEF ArenaOfServer!Next, ArenaOfServer!Slots, Slots
<1>1. ASSUME NEW c \in Slots, ClientConnected(c) \/ ClientDisconnected(c) \/ ProcessMessage(c)
      PROVE  ArenaOfServer!Next
  BY <1>1, ArenaJoin, ArenaLeave, ArenaMove
<1>2. CASE EatFood
  <2>1. order[it1] \in Slots /\ it2 \in FoodSlots
    BY <1>2, ReachBound DEF EatFood, Typed
  <2> QED
    BY <1>2, <2>1, ArenaEatFood DEF ArenaOfServer!FoodSlots, FoodSlots
<1>3. CASE FirstEatsSecond \/ SecondEatsFirst
  BY <1>3, ArenaCollision
<1>4. CASE RespawnPlayer
  BY <1>4, ArenaRespawn
<1>5. CASE StartCollisions
  <2>1. Unpaid = {} /\ Unpaid' = {}
    BY <1>5 DEF StartCollisions, Unpaid
  <2> QED
    BY <1>5, <2>1 DEF StartCollisions, worldVars
<1>6. CASE StartRespawns
  <2>1. Unpaid' = Unpaid
    BY <1>6 DEF StartRespawns, Unpaid
  <2> QED
    BY <1>6, <2>1 DEF StartRespawns, worldVars
<1>7. CASE StartBroadcast
  <2>1. /\ it1 \in Nat
        /\ it1 > Len(playersToRespawn)
        /\ Len(playersToRespawn) \in Nat
        /\ phase = "RespawnPlayers"
        /\ phase' = "BroadcastWorldState"
    BY <1>7 DEF StartBroadcast, Typed, LoopsTyped
  <2>2. it1 .. Len(playersToRespawn) = {}
    BY <2>1
  <2>3. Unpaid = {} /\ Unpaid' = {}
    BY <2>1, <2>2 DEF Unpaid
  <2> QED
    BY <1>7, <2>3 DEF StartBroadcast, worldVars
<1>8. CASE SkipFood \/ SkipPair \/ Stopped \/ UNCHANGED serverVars
  <2>1. UNCHANGED <<players, foodItems, playersToRespawn, phase>>
    BY <1>8 DEF SkipFood, SkipPair, Stopped, serverVars, worldVars, loopVars
  <2>2. phase = "RespawnPlayers" => it1' = it1
    BY <1>8 DEF SkipFood, InFoodLoop, SkipPair, InPairLoop, Stopped, serverVars, loopVars
  <2>3. Unpaid' = Unpaid
    BY <2>1, <2>2 DEF Unpaid
  <2> QED
    BY <2>1, <2>3
<1>9. CASE \/ BeginUpdate \/ StartFood \/ SendPackets
           \/ \E batch \in [Slots -> InputBursts], failed \in SUBSET connected :
                   ReceivePackets(batch, failed)
           \/ \E failed \in SUBSET connected : BroadcastWorldState(failed)
  <2>1. /\ UNCHANGED <<players, foodItems>>
        /\ phase \notin {"HandlePlayerCollisions", "RespawnPlayers"}
        /\ phase' \notin {"HandlePlayerCollisions", "RespawnPlayers"}
    BY <1>9
    DEF BeginUpdate, StartFood, SendPackets, ReceivePackets, BroadcastWorldState,
        worldVars
  <2>2. Unpaid = {} /\ Unpaid' = {}
    BY <2>1 DEF Unpaid
  <2> QED
    BY <2>1, <2>2
<1>10. CASE Stop
  <2>1. Unpaid = {} /\ Unpaid' = {}
    BY <1>10 DEF Stop, Unpaid
  <2>2. ArenaOfServer!Close
    BY <1>10, <2>1 DEF Stop, ArenaOfServer!Close
  <2> QED
    BY <2>2 DEF ArenaOfServer!Next
<1> QED
  BY <1>1, <1>2, <1>3, <1>4, <1>5, <1>6, <1>7, <1>8, <1>9, <1>10 DEF ServerNext, ServerStep

(* The server implements the arena: for any number of players and any      *)
(* world, food and players are eaten only when touched, food pays its      *)
(* value once, and debts are settled before anybody moves, joins or leaves *)
(* (Run and Update of game_server.cpp).                                    *)
THEOREM ServerImplementsArena == ServerSpec => ImplementsArena
<1>1. ServerInit => Unpaid = {}
  BY DEF ServerInit, EmptyServer, Unpaid
<1> QED
  BY <1>1, ArenaInit, ArenaStep, CoreInvariant, CachedReachInvariant, PTL
  DEF ServerSpec, ImplementsArena, ArenaOfServer!Spec, ArenaOfServer!arenaVars

(* From the middle of a game on, too: whatever the sizes and places of the *)
(* players and wherever the loops of Update stand, a server on which       *)
(* nobody waits for a respawn goes on as the arena does.                   *)
THEOREM MidGameImplementsArena ==
  Typed /\ CachedReachIsSafe /\ Unpaid = {} /\ [][ServerNext]_serverVars => ImplementsArena
BY ArenaInit, ArenaStep, TypedStep, CachedReachStep, PTL
DEF ImplementsArena, ArenaOfServer!Spec, ArenaOfServer!arenaVars
=============================================================================
