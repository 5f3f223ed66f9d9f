------------------------------ MODULE Protocol ------------------------------
(***************************************************************************)
(* The vocabulary the game server and the game client share                *)
(* (common/protocol.hpp): limits, positions, food tiers, input messages.   *)
(*                                                                         *)
(* Numbers.  Lengths and sizes are integers in one model unit; a tenth of  *)
(* a game unit is Tenth model units, so that every size constant of the    *)
(* code (10.0, 5.0, 0.3, 0.7, 1.5) is exact.  Players' colours, velocities *)
(* and the double timestamps are left out: no code path of the game reads  *)
(* them to decide anything.                                                *)
(***************************************************************************)
EXTENDS Integers, Sequences, FiniteSets

CONSTANTS
  MAX_PLAYERS,    \* client slots of the server
  MAX_FOOD,       \* food items in the world
  WORLD_WIDTH,    \* the world is [0, WORLD_WIDTH] x [0, WORLD_HEIGHT]
  WORLD_HEIGHT,
  Tenth,          \* model units in a tenth of a game unit
  Stride,         \* how far an input along one axis moves a player
  DiagonalStride, \* how far a diagonal input moves it, along each axis
  SpawnPoints,    \* the positions rand() may pick for a player or a food item
  Moves           \* the (moveX, moveY) pairs the keyboard may produce

(* The client slots, and the indices of the food array. *)
Slots     == 0 .. MAX_PLAYERS - 1
FoodSlots == 0 .. MAX_FOOD - 1

Position == [x : 0 .. WORLD_WIDTH, y : 0 .. WORLD_HEIGHT]

(* A Player, without its id (the key it is stored under), velocity, colour. *)
PlayerState == [position : Position, size : Nat]

(* The keys W, S, A, D: opposite keys cancel, and SendInput drops (0, 0). *)
KeyboardMoves == [x : {-1, 0, 1}, y : {-1, 0, 1}] \ {[x |-> 0, y |-> 0]}

ASSUME ProtocolAssumption ==
  /\ MAX_PLAYERS \in Nat \ {0}
  /\ MAX_FOOD \in Nat
  /\ WORLD_WIDTH \in Nat
  /\ WORLD_HEIGHT \in Nat
  /\ Tenth \in Nat \ {0}
  /\ Stride \in Nat
  /\ DiagonalStride \in 0 .. Stride
  /\ SpawnPoints \subseteq Position
  /\ SpawnPoints # {}
  /\ Moves \subseteq KeyboardMoves

-----------------------------------------------------------------------------
(* Position::distanceSquared. *)
distanceSquared(p, q) ==
  (p.x - q.x) * (p.x - q.x) + (p.y - q.y) * (p.y - q.y)

(* Two round bodies whose diameters add up to d overlap when their centres *)
(* are closer than d / 2; squared and multiplied by four to stay integral. *)
Overlap(p, q, d) == 4 * distanceSquared(p, q) < d * d

FoodTier == {"SMALL", "MEDIUM", "LARGE"}

(* GetFoodPropertiesFromTier: the growth a food item of this tier pays. *)
FoodValue(tier) ==
  CASE tier = "SMALL"  -> 3 * Tenth
    [] tier = "MEDIUM" -> 7 * Tenth
    [] tier = "LARGE"  -> 15 * Tenth

CreateFoodItemFromTier(position, tier) ==
  [position |-> position, tier |-> tier, value |-> FoodValue(tier)]

(* The items rand() can make. *)
FoodItems == {CreateFoodItemFromTier(p, t) : p \in SpawnPoints, t \in FoodTier}

-----------------------------------------------------------------------------
(* The displacement of one input.  A diagonal direction is normalised, so  *)
(* it advances DiagonalStride = Stride / sqrt(2) along each axis.          *)
Displacement(move) ==
  LET step == IF move.x # 0 /\ move.y # 0 THEN DiagonalStride ELSE Stride
  IN  [x |-> move.x * step, y |-> move.y * step]

(* A coordinate pushed back into [0, limit]. *)
Clamp(coordinate, limit) ==
  IF coordinate < 0 THEN 0 ELSE IF coordinate > limit THEN limit ELSE coordinate

(* A PlayerInputMessage, reduced to its sequence number and direction. *)
PlayerInputMessage == [sequenceNumber : Nat, move : Moves]
=============================================================================
