# A verification of circ.io

circ.io is a small Agar.io: an authoritative C++ server, clients that predict
their own movement, UDP in between through yojimbo. This directory holds TLA+
modules of the server, the client, the session between them, the two programs
around them, the loop that paces the server and the messages each end of a
connection keeps; the TLC configurations that check them; and TLAPS proofs for
every value of the constants.

Paths below are relative to the repository.

## 1. Inventory

### Components, their state and their operations

| Component | State | Operations |
|---|---|---|
| Shared protocol, `common/protocol.hpp` | none: limits, positions, food tiers, players, the two messages, the channel configuration | `distanceSquared`, `CreateFoodItemFromTier`, `Serialize` |
| Game server, `server/game_server.cpp` | `m_worldState` (players map, food, tick), `m_lastProcessedInput`, `m_time`, yojimbo's server | `Run`, `Update` = AdvanceTime (connection callbacks), ReceivePackets, `ProcessMessages`, `HandleGameFood`, `HandlePlayerCollisions`, `BroadcastWorldState`, SendPackets |
| Server program, `server/main.cpp` | `g_running`, the `GameServer` on main's stack, a detached thread in `Run` | start, signal, stop, shutdown |
| Game client, `client/game_client.cpp` | local and predicted player, input sequence and history, snapshots, other players, food, yojimbo's client | `Update` = AdvanceTime, ReceivePackets, `ProcessServerMessages`, `SendInput`, `Render`, SendPackets |
| Client program, `client/main.cpp` | the polling loop's counter, the `GameClient` on main's stack, raylib's window | poll for the connection, game loop, every way out |
| Network (yojimbo, netcode, reliable) | connections, slots, timeouts, send and receive queues, packets in flight | external, but for what `include/yojimbo_*.h` define inline: the message factory with its counted references and the circular queue |
| Camera, grid, drawing, interpolation | camera | draw; `InterpolatePlayerStates` is never called |
| Tests, build files, Docker, vendored raylib/json/catch | - | - |

### How they interact

The server is one thread calling `Update` sixty times a second. yojimbo calls
back into it (`OnServerClientConnected`, `OnServerClientDisconnected`) from
inside AdvanceTime; the players map and yojimbo's slot table are thereby two
containers that must stay in line. A client is one thread of another process.
Server and client share nothing but packets: world states down, inputs up, both
on the *unreliable unordered* channel. In the server's process a second thread,
main's, owns the `GameServer` and the library.

### What is hard, and what makes each component correct

* **Server.** Three nested loops over a hash map whose values their bodies
  change. The collision radius for food is computed before the player grows.
  Eaten players stay in play, and may eat, until all pairs have been seen, and
  are respawned later, some more than once. All of that depends on the map's
  iteration order. Correct means: the players are the connected slots; no
  input outlives its update or its connection; a player shrinks only by being eaten; nobody eats what it does
  not touch; the world that is sent is settled; every update ends.
* **Client.** The prediction must be the server's last word plus exactly the
  inputs the server has not processed, while world states are lost, late or
  stale and the history is trimmed at both ends.
* **Session.** Slots are reused while packets are in flight; inputs and world
  states overtake each other; acknowledgements are kept per slot.
* **Run loop.** The simulated time runs slower than the clock when the thread
  is held up and faster while it catches up; yojimbo measures the clients'
  silence in simulated time. Correct means: never ahead, never far behind, back
  on time after a stall, and no live client dropped on the way.
* **Messages.** A message is shared by a packet, a queue and the game; each lets
  go of it on a path of its own, several of them error paths. Correct means:
  nothing is used after it is destroyed, nothing leaks, and the game's own
  message finds memory however many packets came in.
* **Programs.** A detached thread uses what main destroys; the client uses a
  library it has shut down. A client that loses its connection must still end,
  and the server must in the end be rid of a client that is gone, however it went.

Every such place is listed with its line under `hazards` in `PROJECT.json`.

## 2. Modules

| Module | Models | EXTENDS / composes |
|---|---|---|
| `Protocol` | `common/protocol.hpp`: the shared vocabulary and its assumptions | |
| `Arena` | abstract specification: the game as its players understand it | `Protocol` |
| `GameServer` | `server/game_server.cpp` | `Protocol`; instantiates `Arena` |
| `GameClient` | `client/game_client.cpp`, a record per client process | `Protocol` |
| `GameSession` | server, clients, packets in flight | `GameServer`, `GameClient` |
| `Prediction` | abstract specification: what prediction promises to the player | `Protocol`; instantiated by `GameSession` |
| `RunLoop` | `GameServer::Run`: the pacing, and yojimbo's timeouts that depend on it | |
| `Queue` | `include/yojimbo_queue.h`: the circular buffer | |
| `Fifo` | abstract specification: a bounded queue | |
| `Messages` | `include/yojimbo_message.h` and what the game, the channel and the packets do with messages | `Queue`; instantiates `Fifo` twice |
| `Processes` | `server/main.cpp`, `client/main.cpp`, `GameServer::Run` as a thread | |
| `MCGameServer`, `MCGameSession` | small worlds for TLC | |
| `GameServerProofs`, `ServerRefinesArena` | proofs about the server; its refinement | `GameServer`, `TLAPS` |
| `GameClientProofs` | lemmas about one client's loops: induction over indices, replay, history | `GameClient`, `TLAPS` |
| `GameSessionProofs` | proofs about sessions | `GameSession` and the three above |
| `ProcessesProofs`, `RunLoopProofs`, `QueueTheorems`, `MessagesProofs` | proofs about the module of that name | `TLAPS` |

### GameServer

One `Update` is cut into its steps, in the code's order, by the variable
`phase`:

    Idle -> AdvanceTime -> ProcessMessages -> HandleGameFood
         -> HandlePlayerCollisions -> RespawnPlayers
         -> BroadcastWorldState -> SendPackets -> Idle

| Action | Code (`server/game_server.cpp`) |
|---|---|
| `BeginUpdate` | 73-94: the loop of `Run` calls `Update`, the tick advances |
| `ClientConnected`, `ClientDisconnected` | 46-61 with the adapter callbacks 4-18, from inside AdvanceTime |
| `ReceivePackets` | 95: any sequence of inputs for the connected slots; packets that do not serialize put the channels of the slots `failed` in error |
| `ProcessMessage` | 105-175: one message of the lowest slot of `WithMessages`, those for which ReceiveMessage (114) returns one: a channel in error returns none, though messages are queued |
| `StartFood` | 114, 99: no slot has a message to return |
| `EatFood`, `SkipFood` | 248-268: one (player, item) pair each, `it1`, `it2`; `foodReach` is the cached radius |
| `FirstEatsSecond`, `SecondEatsFirst`, `SkipPair` | 312-351: one pair of players each |
| `RespawnPlayer` | 289-306 from the loop 353-356 |
| `BroadcastWorldState` | 195-246; `failed` are the clients whose CreateMessage returned null, which leaves their connections `broken`; a channel already in error drops what it is given |
| `SendPackets` | 102; the update's locals go out of scope |
| `ClientDisconnected` of a `broken` slot | yojimbo's next AdvanceTime drops a connection whose channel or message factory is in error, before `ReceivePackets` (`broken = {}`) |
| `Stop` | 41-44: the destructor's Stop disconnects every client and so erases every player (50-61); `Run` sees IsRunning false and returns |

The iteration order of the hash map is chosen anew in every update (`order`):
it is fixed while nothing is inserted or erased, and inserts and erases happen
only in AdvanceTime. The loops are single steps, not one big step, because the
properties are about what one iteration leaves for the next. The world is
integral: `Tenth` model units are a tenth of a game unit, so the constants of
the code are exact; the half of an eaten player's size is rounded down. Floating
point rounding is not modelled. Colours, velocities and timestamps are left
out: nothing in the running code reads them to decide anything.

### Arena

Join, Leave, Close (everybody leaves at once), Move, EatFood, EatPlayer, Respawn,
each atomic, over players, food and the set `eaten` of players that owe a
respawn. It starts with any players, none of them owing one: a game may be under
way. While a debt is open nobody may join, leave, move or eat food. `GameServer` implements it with `eaten`
mapped to `Unpaid`, the eaten players whose RespawnPlayer has not run.
`Arena!EatPlayer` lets the eater grow by half its victim or not at all, because
the code does both (see *Findings*).

### GameClient and GameSession

`ReceiveWorldState`, `ReconcileWithServer`, `SendInput`, `PredictMovement` are
operators on a client's record; `ClientUpdate` is the whole `Update`, message
loop first, then keys, then what is shown. The client is single-threaded and
meets the world only in ReceivePackets and SendPackets, so this is one step.

`GameSession` adds who sits behind each slot and the packets in flight. A packet
may be delivered late, out of order, or never; duplicates and packets of another
connection do not occur (netcode's replay protection and encryption). When the
server stops (`ServerStops`) every slot loses its client. Clients
move between two updates of the server only (`BetweenUpdates`): an update of the
server reads the network once and writes it once, so what a client does in the
middle of it could as well be done before or after. `InOrder = TRUE` is a
network on which no input is lost or overtaken and no world state is overtaken
by an older one (world states may still be lost). Such a network also brings no
world state of a session that has ended to the next one: `Drop` loses what is
still in flight to the client. Without that, prediction is not exact: a client
that comes back to its slot takes a world state of its earlier player for one of
the new player. `session_ordered` has two spawn points to tell the two apart.

`Prediction` says in four actions what all of this is for: the player on the
screen moves one stride at each key press and at no other moment, whatever
world states arrive, while the server goes after it one input at a time.
`ImplementsPrediction` maps a client and its slot to it: `shown` is the
predicted player, `truth` the server's, `unprocessed` the inputs in the inbox
and on their way. A client that is not connected, or whose history has
overflowed, is not `playing`, and `Start` says where it may come back.

### RunLoop

`ReadClock`, `Update`, `AddTick` and `Sleep` are the lines of `Run`'s loop
(73-86). Only differences of times are kept: `behind` is the clock minus
`m_time`, `seen` what it was when the clock was read. Real time passes in `Pass`
alone; each step says how long it keeps the thread (`busy`), and may be held up
besides, for `MaxStall` in all from one moment on time to the next. yojimbo's
`AdvanceTime(m_time)` reads the packets in the socket, then drops whoever has
been silent for `Timeout`; live clients send at least every `ClientInterval` of
real time, and any of them may die without a word.

### Queue and Messages

`Queue` is the class field by field, `Contents` what it holds, oldest first.
`Messages` is one end of one connection: on the server a slot with the memory,
factory and queues that yojimbo gives each slot, on the client its only
connection. `phase` goes round the update,

    AdvanceTime -> ReceivePackets -> ProcessMessages -> SendMessage -> WritePacket

with `ReadPacket` and `ProcessPacketData` for every packet, and `Disconnected`
before and after. `refCount` has an entry for every message that exists
(`allocated_messages`): CreateMessage adds one, ReleaseMessage removes it with
its last reference. Where the library is a binary, an action is what its headers
say and its callers rely on: the queue takes a reference of its own to a
received message and drops one it has no room for; a message sent passes from
the game to the queue to the packet; a packet that cannot be read releases what
it has read so far; an error makes AdvanceTime disconnect. `CreateMessage`,
`SendMessage`, `SendNothing` are `BroadcastWorldState` and `SendInput`;
`ReceiveMessage`, `ReleaseMessage` the loops of `ProcessMessages` and
`ProcessServerMessages`. The game sends at most one message per update on this
channel and reads every message there is; that is what the properties rest on.

### Processes

The two `main` functions, with the detached thread in `Run` as a process of its
own. `serverMain` and `clientMain` are the places in main. The two share what
netcode keeps of the one client: on the server's side `seat`, whether a slot is
its, and `quiet`, how long it has not been heard; on the client's `connection`
and `silence`; and `toServer`, the last packet it sent. `HearsNothing` and
`HearsClient` are what an update of the server makes of them, `Network` what an
update of the client does. `StopServer`
and `DestroyServer` (`~GameServer`, then its members) do not wait for the
thread; after that, reading `IsRunning` gives anything and an update may crash
(`RunCrashes`). `Update` refreshes `shouldClose` only when it renders, as raylib
does in EndDrawing.

The client's main shuts the library down first and only then, returning, runs
`~GameClient`, whose Disconnect uses it (`ShutdownClient`, then `ClientReturns`).
What that does is undefined, so `DestroyClient` leaves it open whether the server
is told, and `ClientReturns` whether the program crashes instead of ending. Where
an exception unwinds the stack the destructor comes first and the goodbye is
sent, though it may be lost. Whichever it was, the server must come to free the
slot: `ClientExitIsNoticed`.

## 3. What the runs check

| Run | Instance | Shows |
|---|---|---|
| `server` | either 2 clients that come and go over any number of updates, or 3 of sizes 10, 11.5, 16 anywhere in a corridor of three places, in all 6 iteration orders, from the middle of an update to its end; 2 food items | `ServerTypeOK`, `PlayersMatchConnected`, `InputsAreFresh`, `WireShowsSettledWorld`, `OnlyTheEatenShrink`, `ImplementsArena`, `UpdateGetsOn`; under fairness `UpdateCompletes` |
| `session_ordered` | 1 client, orderly network, 4 inputs with a history of 3, 5 updates, two spawn points | `HistoryIsRecent`, `PredictionIsReplay`, `PredictionIsExact`, `ImplementsServer`, `ImplementsPrediction` |
| `session` | 1 client in a slot others have used, from the left end of the world, loss and reordering, 3 inputs with a history of 2, any number of updates | `SessionTypeOK`, `HistoryIsRecent`, `PredictionIsReplay`, `MovedAtMostAsSent`; under fairness `SettlesOnServer`: a client that rests, its last input processed, ends up where the server has it |
| `company` | 2 clients that come and go, loss and reordering, any number of updates | under fairness `SeesWhoIsThere`: once nobody comes or goes, each client shows exactly the players there are |
| `processes` | both programs, 3 polls, timeout after 2 silent updates | `ProcessesTypeOK`; under fairness `InterruptEndsServer`, `StartupDecides`, `ServerExitIsNoticed`, `ClientExitIsNoticed` |
| `run_loop` | 2 clients, a tick of 3, updates that take 0 or 2, stalls of 4, timeout 7 | `RunLoopTypeOK`, `NeverAhead`, `LagIsBounded`, `LiveClientsKept`, `CatchesUp`, `DeadClientsDropped` |
| `messages` | memory for 3 messages, queues of 2, 2 messages per packet | `MessagesTypeOK`, `CountIsHolders`, `MemoryReturned`, `GameIsServed`, `QueuesAreFifo`, `ErrorEndsConnection` |
| `eater_grows`, `ack_is_own`, `acks_move_back`, `run_thread_outlives`, `close_request` | | one property each that the code does not have; see *Findings* |

### Bounds, and why they are enough

* `server` starts from one of two kinds of state (`MCSpec`). From `ServerInit`
  two of the three slots are used (`CompanyOfTwo`), over any number of updates;
  from `MidGameInit` three clients are connected, their inputs read, and what is
  left is one update, with every size relation (equal, near, dominating) between
  three players: double eating, eating after being eaten. `MidGameInit` is a
  state the game can be in: players eat food at a distance from each other and
  meet. Newcomers and food appear at one end of the corridor.
* `MaxSize` ends the growth of players: no update starts with a larger one. In
  `server` it is 10.7, so a player that starts an update at 10.7 or less can
  still reach 13.7 in it, which dominates and reaches a newcomer.
* With all food in one place, a player that touches one item touches them all,
  and one that touches none does not grow: growing within the food loop moves no
  decision about food. That the radius goes stale is therefore visible here
  only in what it must not become, the radius of another player
  (`FoodReachOfFirst`); that a stale radius lets nobody eat too far is
  `CachedReachIsSafe`, proved for all sizes.
* `MaxBroken` is 1: the connections in error at a time. One is enough for its
  messages to stay queued while another slot's are read, and for it to be
  dropped before the next packets.
* `MaxBurst`, `MaxSeq`, `MaxPackets` bound the inputs per update, the inputs of
  a client, the packets taken in at once. Two inputs in flight are enough to be
  reordered and one to be lost; `MaxPackets` is no more than `MaxBurst`, so that
  what a session delivers to the server is what `GameServer` alone allows; `session_ordered` has one input more than the
  history holds. `session` starts from `UsedSlotsInit`: nobody is connected and
  earlier occupants have left any acknowledgement in the slot, which is where a
  server is after they have gone.
* `MaxTick` bounds the updates of `session_ordered`, `ack_is_own` and
  `acks_move_back`, with `TickWrap` above it, because an orderly network sorts world states by tick. In
  the other runs `TickWrap = 1` takes the tick out of the state (no code path
  reads it), so updates go on for ever, as liveness needs; world states in
  flight that differ in nothing else are then one, which loses no behaviour
  beyond the number of equal copies.
* `run_loop`: a stall (4) is longer than a tick (3), so the loop owes several
  updates and runs them back to back; the timeout (7) is the least
  that is `Patient`; with 6, TLC finds a live client dropped. Sleep may
  end early by 1, so the loop also reads the clock too soon and sleeps again.
* `messages`: three messages and packets of two let the memory run out while a
  packet is read, with a message in the receive queue and one read; the receive
  queue is full, drops, and wraps. That CreateMessage fails or the send queue is
  full without an earlier channel error never happens, which is what
  `GameIsServed` says; the `failed` of `BroadcastWorldState` are thereby more
  than the code does, kept because the code handles it.
* `MAX_PLAYERS`, `MAX_FOOD` are 1 to 3 and 0 to 2 instead of 16 and 128: the
  loops treat pairs, three players give every way two pairs can share one, two
  items give the stale radius its second use. Positions are one stride apart;
  a stride equals two initial radii, so that newcomers just miss each other and
  growth decides.
* `MAX_ATTEMPTS` is 3 instead of 200 and `TIMEOUT` 2 updates: the loops only
  compare them.

No symmetry is used: slots are compared by number. Deadlock is checked
everywhere; where a program really ends there is an explicit stuttering action
(`Stopped`, `Ended`).

### Fairness

`FairServerSpec` assumes weak fairness of `ServerStep`, the thread that runs
`Update`: nothing in an update blocks or waits, so the thread is only ever
delayed by the scheduler. It does not assume that updates begin, that clients
connect or that packets arrive. `Processes!Spec` assumes weak fairness of each
thread (server main, the thread in `Run`, client main) and of nobody outside:
signals, key presses and exceptions may never happen. It also assumes that `Run`
goes from its check to an update if it checks for ever (strong fairness): the
clock decides between update and sleep there, and `RunLoop`, which has the
clock, keeps the lag bounded (`LagIsBounded`), so that it cannot always say sleep.

`SessionFairness` is weak fairness of the server's thread and strong fairness of
delivery: if over and over a world state that shows the world as it is could
reach a client, one does, on its own. That is the usual fair-loss link; a
network that loses everything for ever disconnects its clients, and then
nothing is claimed. No fairness is assumed of inputs, of coming and going, nor of
keys: `SettlesOnServer` and `SeesWhoIsThere` say what happens once those have
come to rest. `RunLoop!Spec` lets the thread, the clock and the live clients go
on; `Messages!FairSpec` the thread that runs the updates, not the arrival of
packets.

## 4. What is proved

TLAPS proves, for every number of slots and food items, every world, stride,
set of spawn points, set of keyboard moves and every bound; for any number of clients and any depth of their history; for every
tick, timeout and stall; for any memory and any sizes of queues and packets:

| Theorem | States |
|---|---|
| `TypeCorrect` | `ServerTypeOK`: in particular, players never leave the world |
| `PlayersAreTheConnected` | `PlayersMatchConnected` |
| `InputsStayFresh` | `InputsAreFresh` |
| `ShrinkOnlyWhenEaten` | `OnlyTheEatenShrink` |
| `WireIsSettled` | `WireShowsSettledWorld` |
| `ServerImplementsArena` | `ImplementsArena`, the refinement |
| `MidGameImplementsArena` | `ImplementsArena` from any well-typed state of a game under way in which nobody owes a respawn |
| `EveryStepGetsOn` | `UpdateGetsOn`: a variant for the whole of `Update` |
| `SessionTypeCorrect` | `SessionTypeOK` |
| `SessionsImplementServer`, `SessionsAreGames` | `ImplementsServer`, `ImplementsArena`: sessions refine the server alone, and so the arena |
| `HistoryRecent` | `HistoryIsRecent` |
| `PredictionReplays` | `PredictionIsReplay` |
| `MovesAreBounded` | `MovedAtMostAsSent` |
| `UsedSlotsDoNoHarm` | `SessionTypeOK`, `HistoryIsRecent`, `PredictionIsReplay`, `MovedAtMostAsSent` from `UsedSlotsInit`, where run `session` starts |
| `PredictionsAreExact` | `PredictionIsExact`, if `InOrder` and as long as acknowledgements are own and nobody is eaten |
| `SessionsPredict` | `ImplementsPrediction`, under the same conditions: the refinement |
| `AcksAreOwn` | `AckIsOwn`, for one client, on any network |
| `PredictionOfOneClient`, `OneClientPredicts` | the two conditional ones for one client, without `[]AckIsOwn` |
| `ProcessesTyped` | `ProcessesTypeOK`, for every bound of the polling loop and every timeout |
| `RunLoopTyped` | `RunLoopTypeOK` |
| `LoopNeverAhead` | `NeverAhead` |
| `LagStaysBounded` | `LagIsBounded`, if updates are `Quick` |
| `RunKeepsLiveClients` | `LiveClientsKept`, if updates are `Quick` and the timeout `Patient` |
| `PushAppends`, `PopTakesHead` | `Push` and `Pop` on a circular buffer are `Append`, `Head` and `Tail` on what it holds |
| `MessagesTyped` | `MessagesTypeOK` |
| `BuffersAreQueues` | `QueuesAreFifo`, the refinement of both buffers |
| `CountsAreExact` | `CountIsHolders` |
| `MemoryComesBack` | `MemoryReturned` |
| `GameFindsRoom` | `GameIsServed` |

**The argument for the server.** `ServerTypeOK` is not inductive: a step of a
loop indexes the players map with what the iterators point at, and that is in
the map only because nothing is inserted or erased between AdvanceTime and the
end of the update. The core, `Typed` (`GameServerProofs`), therefore adds that
the map's keys are the connected slots, that `order` and `playersToRespawn`
name connected slots only and are empty while clients come and go, and that the
iterators fit the loop of the phase (`it1 < it2` among the pairs). `CoreInvariant`
proves it inductive, one lemma per phase. On top of it: `InputsInv` (a slot
that is not connected has no inputs, and outside of ProcessMessages only one in
error has any: those yojimbo drops, with what they hold, before it reads the next
packets), a step lemma for shrinking (only
RespawnPlayer assigns a smaller size, and its player is in `Unpaid`), and
`SettledInv` (nobody is below the initial size at any point, every eaten player
the respawn loop has passed is at the initial size, and the outbox is empty
except between the broadcast and SendPackets). For the
refinement, `CachedReachIsSafe` says that the cached radius never exceeds the
player's current one, because a player only grows in the food loop; with it
each of the server's steps is one step of `Arena` or leaves its variables alone
(`ArenaStep`). `ArenaStep` needs no more than `Typed` and `CachedReachIsSafe` of
the state a step starts from, and both are kept by every step, so
`MidGameImplementsArena` has no other hypotheses but that nobody owes a respawn.

**The end of an update.** That every update ends is liveness and stays with
TLC; why it does is a safety property, `UpdateGetsOn`: every step of the thread
goes on to a later part of `Update`, or leaves in the part at hand a set or queue
smaller or a pair of iterators further, within bounds that do not move. That is
a lexicographic measure which falls at every step, so an update is finite for any
numbers of players, items and inputs, once the thread runs.

**The argument for the session.** `SessionInv` is the server's invariants and
`Linked`: clients satisfy `ClientInv`, packets are of their types, every
connected slot has one client and no client has two. Under it each step of a
session is a step of `GameServer` or leaves the server alone
(`SessionStepIsServerStep`: what arrives at a slot is a burst the server expects,
clients come and go only in AdvanceTime), hence `ImplementsServer`, and every
theorem about the server holds of every session.

*History and replay.* A client's update loops over the messages that arrived,
each of which trims the history and replays what is left, and then over the key
presses. `ClientInv` says that the history is the run of the latest inputs
(`Recent`), that a client without a player has none (`Unmoved`), and that the
prediction is the replay of the history unless that has overflowed (`Replayed`).
It is proved through the loops by induction over their indices: where the
property fails there is a least index at which it does (`LeastNatural`, from the
library's theorem on well-founded sets; `IndexInduction`), a form that needs no
operator parameter. `WorldStatesPreserve`: what each message preserves, the loop
preserves; `ReplayAppend`: a replay of one more input is one more movement.

*Bounded movement.* `ReachInv` adds the inputs underway: what a client has sent
is no less than what is in flight from it and in its inbox, and the player is
within a stride of a spawn point for each of the others. Loss only makes that
difference larger.

*Acknowledgements.* On an orderly network the inputs of a session stand in a
line (`InLine`): processed up to the acknowledgement, then those in the inbox,
then those in flight, each number once. The line is per session, and it is
broken when a slot passes to another client, whose acknowledgement starts at
somebody else's number (finding 2). That is why `[]AckIsOwn` is a hypothesis; and
`AcksAreOwn` shows that one client alone, whose numbers are never below what its
slots have processed (`OwnInv`), satisfies it.

*Exact prediction.* `ExactInv` gives every connected slot a tale: the moves `M`
its client has made, the path `P` they lead along. The server stands at
`P[acknowledgement]`; every world state in flight shows the player where the
path was at the acknowledgement it carries, which is why world states that are
lost or late do no harm; the client's history is the end of `M`, and its local
player, which the replay starts from, is on the path just before it. The
prediction is then `P` at the last input, and so is the server after the inputs
on their way (`PathTrail`). `NewsInv` says that of two world states to one client
the younger does not acknowledge less; here `TicksDiffer`, sessions shorter than
`TickWrap` (in the code 2^32) updates, is needed. That a player is eaten puts the
server off the path, which no client can foresee: `[]NobodyEaten`. For the
refinement, the moves yet to be processed are the rest of `M` after the
acknowledgement (`LineMoves`), one shorter when the server processes an input and
one longer at a key press. The two corollaries for one client are what
`session_ordered` checks, and show that the hypotheses are not empty.

**The argument for the programs.** `ProcessesTypeOK` is not inductive: that no
thread is left in `Run` when main has ended also holds of a main that ends
before there is one. `NoThreadYet` says so, and `LifeInv` is the two together.

**The argument for the run loop.** `PaceInv` keeps what the loop knows at each
step: it updates because the clock it read was not before `m_time`, and the
clock has only gone on since. For the lag, `LagInv` bounds `Owed`, the lag there
will be once the step at hand is over and the thread has been held up by all
that is left of `MaxStall`: the passing of time does not change it, a quick
update adds no more than the tick it will subtract, and a sleep is no longer
than the time it was ahead. `KeptInv` bounds a live client's silence in `m_time`
by its silence in real time and what `m_time` can have gained on the clock,
which is the lag it made up for. `Quick` and `Patient` are hypotheses of those
theorems and hold in the run.

**The argument for the messages.** `QueueTheorems` is about remainders: entry i
of a buffer is at `(startIndex + i) % arraySize`, and no two of at most
`arraySize` entries share a place. With it every step does to the contents of a
buffer nothing, `Append`, `Tail` or `Clear`. `TypeInv` adds to the type
invariant that the entries in use are messages (popped ones are not erased, so
the array alone says nothing). `CountIsHolders` is not inductive: releasing
subtracts one reference from each message of a set, which is wrong if a packet
holds one twice. `HoldInv` therefore adds that packet and receive queue name no
message twice, that the messages of a packet still to be processed are not in
the receive queue, and which holders are empty at which phase: the send queue
has at most one message and only while a packet is written. From that also
follow `MemoryReturned` and `GameIsServed`: when the game creates its message,
packet and queues are empty, so all memory is free.

The assumptions are those named in the modules: `ProtocolAssumption`,
`ServerAssumption`, `ClientAssumption`, `SessionAssumption`, `ProcessesAssumption`,
`RunLoopAssumption`, `MessagesAssumption`. TLC evaluates them on every run of their
module. `ProtocolAssumption` says of movement only that a diagonal step is no
longer along an axis than a straight one.

**Only model-checked:** liveness under fairness (`UpdateCompletes`,
`SettlesOnServer`, `SeesWhoIsThere`, `InterruptEndsServer`, `StartupDecides`,
`ServerExitIsNoticed`, `ClientExitIsNoticed`, `CatchesUp`, `DeadClientsDropped`,
`ErrorEndsConnection`), which is outside this prover. Every invariant, action
property and refinement that a passing run checks has a theorem.

## 5. Findings

1. **Eating pays only one side** (`server/game_server.cpp:330`, run
   `eater_grows`). When the earlier of two players in the hash map eats the
   later, `growthAmount` is computed, subtracted in the log line and never
   added to its size. Whether a player grows by eating depends on the
   iteration order.
2. **An acknowledgement of somebody else** (`server/game_server.cpp:57`, run
   `ack_is_own`). A disconnection keeps `m_lastProcessedInput` of the slot, and
   the next client of the slot is sent it; that client then drops inputs the
   server has not processed and its prediction jumps.
3. **An acknowledgement moves back** (`server/game_server.cpp:141`, run
   `acks_move_back`). Inputs travel on an unordered channel, and the number of
   whichever is processed is the acknowledgement. After an input that was
   overtaken it is smaller than before; the client keeps the younger input and
   replays it on a position that already contains it. `session` checks what the
   client's code promises all the same (`PredictionIsReplay`,
   `MovedAtMostAsSent`); exact prediction is claimed of an orderly network only.
4. **The library is shut down under its users** (`server/main.cpp:56`, run
   `run_thread_outlives`). The thread in `Run` is detached, so main destroys
   the server and shuts the library down under it. `client/main.cpp:44` (and
   `:31`) breaks the same contract, `yojimbo.h:78`, on every normal path: the
   destructor of `client` disconnects through a library already shut down.
5. **A disconnected client cannot be closed** (`client/game_client.cpp:75`, run
   `close_request`). Without a connection nothing is rendered, and only
   rendering looks at the window's events.

Besides, observed and modelled as they are: inputs use the unreliable channel
(`client/game_client.cpp:196`) and the reliable one is unused, so a lost input
is never sent again. The next input to be processed mends that; a last input
that is lost is never acknowledged and leaves the prediction off for as long as
no other key is pressed. `SettlesOnServer` presupposes that the last
input was processed. A world state overtaken on its way replaces a newer one
(`client/game_client.cpp:107`: the tick is copied and not compared); that does
not last, as `SettlesOnServer` and `SeesWhoIsThere` say.

## 6. Not modelled

* Serialization: every field the game reads is sent at full width.
* The insides of yojimbo, netcode and reliable that are not in the headers; the
  handshake is one step, packets are members of a set. Of the headers' inline
  code, `SequenceBuffer`, `BitArray` and what serves the reliable channel, blocks
  and the network simulator: the game sends nothing on the reliable channel, and
  the unreliable one uses none of it. Headers are otherwise declarations.
* The bytes of a packet: at most 16 players and 128 food items make about 1.5 KB
  of the 8 KB a packet may have, so a world state always fits; `DropMessage`
  nevertheless lets any message be too large.
* Floating point; the wrap of the 32-bit sequence numbers.
* `InterpolatePlayerStates`: nothing calls it, so no behaviour of the program
  depends on it. Camera and drawing; build, packaging, tests, vendored code (most
  of the repository's lines: `libs/json.hpp`, which no source of the game uses).
* A race on the players map itself: `~GameServer` calls Stop on main's thread,
  which disconnects the clients and so erases from the map. `GameServer!Stop`
  does that between two updates. In the middle of one it is a data race, which
  only `Processes` has, as `RunCrashes`.

## 7. Plan

Done, in this order: `Protocol`, `Arena`, `GameServer` with its runs, its proofs
and the refinement; `GameClient` and `GameSession`; `Processes`; `RunLoop` with
its proofs; liveness of the session under fair delivery; `Prediction` and its
refinement; `Queue`, `Fifo`, `Messages` with their proofs.

Then the proofs about sessions: `GameClientProofs`, `GameSessionProofs`, and the
variant of an update.

Next:

1. Acknowledgements and prediction on a network that loses inputs but keeps the
   order.
2. `InterpolatePlayerStates` against a reference definition, if it is ever called.
3. The reliable channel and its `SequenceBuffer`, if inputs ever move to it.
