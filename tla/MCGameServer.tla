---------------------------- MODULE MCGameServer ----------------------------
(***************************************************************************)
(* GameServer on small instances.  The world is a corridor of three places *)
(* one stride apart.  A stride is as long as two initial radii, so equal   *)
(* newcomers at neighbouring places just miss each other, and a player     *)
(* that has eaten one LARGE food item reaches its neighbours and dominates *)
(* a newcomer.                                                             *)
(***************************************************************************)
EXTENDS GameServer

(* Newcomers and food appear at one end of the corridor.                   *)
MCSpawnPoints == {[x |-> 0, y |-> 0]}

(* Left and right.                                                         *)
MCMoves == {[x |-> -1, y |-> 0], [x |-> 1, y |-> 0]}

-----------------------------------------------------------------------------
(* A game under way.  Three connected players of sizes that eating food    *)
(* gives, numbered from left to right and from small to large, and their   *)
(* inputs read: what remains is to resolve, in any iteration order, who    *)
(* eats what and whom.                                                     *)
MidGameSizes == {100, 115, 160}

MidGameInit ==
  /\ connected = Slots
  /\ inbox  = [c \in Slots |-> <<>>]
  /\ outbox = [c \in Slots |-> <<>>]
  /\ broken = {}
  /\ players \in [Slots -> [position : {[x |-> x, y |-> 0] : x \in {0, 100, 200}},
                            size : MidGameSizes]]
  /\ \A c, d \in Slots : c < d =>
       \/ players[c].position.x < players[d].position.x
       \/ /\ players[c].position = players[d].position
          /\ players[c].size <= players[d].size
  /\ foodItems \in [FoodSlots -> {CreateFoodItemFromTier(p, "SMALL") : p \in SpawnPoints}]
  /\ lastProcessedInput = [c \in Slots |-> 0]
  /\ serverTick = 0
  /\ phase = "ProcessMessages"
  /\ order = <<>>
  /\ it1 = 1
  /\ it2 = 0
  /\ foodReach = 0
  /\ playersToRespawn = <<>>

(* Two clients that come and go over any number of updates, or three that  *)
(* are there and play one update to its end.                               *)
CompanyOfTwo == {0, 1}

MCNext ==
  \/ BeginUpdate /\ connected \subseteq CompanyOfTwo
  \/ \E c \in CompanyOfTwo : ClientConnected(c)
  \/ \E c \in Slots : ClientDisconnected(c)
  \/ ServerStep
  \/ Stop
  \/ Stopped

MCSpec ==
  /\ ServerInit \/ MidGameInit
  /\ [][MCNext]_serverVars
  /\ WF_serverVars(ServerStep)
=============================================================================
