-------------------------------- MODULE Arena --------------------------------
(***************************************************************************)
(* What the game promises its players, without the server's loops, message *)
(* queues or ticks.  Players join, leave, move by one stride, eat food they *)
(* touch and eat smaller players they touch; whoever was eaten starts over *)
(* from the initial size.  Being eaten is a debt: nobody joins, leaves or  *)
(* moves while an eaten player has not yet respawned.                      *)
(***************************************************************************)
EXTENDS Protocol

VARIABLES
  players,    \* the players in the arena, keyed by slot
  foodItems,  \* the food in the arena
  eaten       \* players that were eaten and have yet to respawn

arenaVars == <<players, foodItems, eaten>>

StartSize  == 100 * Tenth
FoodWidth  == 50 * Tenth
Newcomers  == {[position |-> p, size |-> StartSize] : p \in SpawnPoints}

(* A game is taken up at any moment at which nobody waits for a respawn:   *)
(* empty, or with players of any size anywhere.                            *)
Init ==
  /\ \E present \in SUBSET Slots : players \in [present -> PlayerState]
  /\ foodItems \in [FoodSlots -> FoodItems]
  /\ eaten = {}

Join(c) ==
  /\ eaten = {}
  /\ c \notin DOMAIN players
  /\ \E newcomer \in Newcomers :
       players' = [d \in DOMAIN players \cup {c} |->
                     IF d = c THEN newcomer ELSE players[d]]
  /\ UNCHANGED <<foodItems, eaten>>

Leave(c) ==
  /\ eaten = {}
  /\ c \in DOMAIN players
  /\ players' = [d \in DOMAIN players \ {c} |-> players[d]]
  /\ UNCHANGED <<foodItems, eaten>>

(* The arena closes and everybody leaves.                                  *)
Close ==
  /\ eaten = {}
  /\ players' = [d \in {} |-> players[d]]
  /\ UNCHANGED <<foodItems, eaten>>

(* One stride in a direction the keyboard has, never out of the world.     *)
Move(c) ==
  /\ eaten = {}
  /\ c \in DOMAIN players
  /\ \E m \in Moves :
       players' = [players EXCEPT ![c].position =
         [x |-> Clamp(@.x + Displacement(m).x, WORLD_WIDTH),
          y |-> Clamp(@.y + Displacement(m).y, WORLD_HEIGHT)]]
  /\ UNCHANGED <<foodItems, eaten>>

(* Only food the player touches, for exactly the value of that food.       *)
EatFood(c, j) ==
  /\ eaten = {}
  /\ c \in DOMAIN players
  /\ Overlap(foodItems[j].position, players[c].position, players[c].size + FoodWidth)
  /\ players' = [players EXCEPT ![c].size = @ + foodItems[j].value]
  /\ \E item \in FoodItems : foodItems' = [foodItems EXCEPT ![j] = item]
  /\ eaten' = eaten

(* Only a player touched and smaller by the size advantage.  The eater may *)
(* gain half of its victim: which eaters do is left open here.             *)
EatPlayer(p, q) ==
  /\ p # q
  /\ {p, q} \subseteq DOMAIN players
  /\ Overlap(players[p].position, players[q].position, players[p].size + players[q].size)
  /\ 10 * players[p].size > 11 * players[q].size
  /\ eaten' = eaten \cup {q}
  /\ \/ players' = [players EXCEPT ![p].size = @ + players[q].size \div 2]
     \/ players' = players
  /\ foodItems' = foodItems

(* An eaten player starts over; eaten more than once, it may do so again.  *)
Respawn(q) ==
  /\ q \in eaten
  /\ q \in DOMAIN players
  /\ \E newcomer \in Newcomers : players' = [players EXCEPT ![q] = newcomer]
  /\ eaten' \in {eaten, eaten \ {q}}
  /\ foodItems' = foodItems

Next ==
  \/ \E c \in Slots : Join(c) \/ Leave(c) \/ Move(c)
  \/ Close
  \/ \E c \in Slots, j \in FoodSlots : EatFood(c, j)
  \/ \E p, q \in Slots : EatPlayer(p, q)
  \/ \E q \in Slots : Respawn(q)

Spec == Init /\ [][Next]_arenaVars
=============================================================================
