# TLA+ models of CppNetworkArena

CppNetworkArena is a two-player arena game: an authoritative C++ server
(Boost.Asio, one thread) and a Windows client (Boost.Asio polled by the frame
loop, Direct3D 11). The modules here model both sides: the game of a room, a
server session, the server that ties sessions, registry and room together, the
encoding they share, and on the client the connection, the game as one player
sees it, and the life of the program around it.
Paths below are relative to `src/CppNetworkArena/src/` unless they start with
`src/`.

## 1. Inventory

| Component | State it keeps | Operations | Hard behaviour | What makes it correct |
|---|---|---|---|---|
| **Room** `server/game/room.*`, `player.*` | players with position, direction, dash and cooldown; next player id; game state; attacking side and its timer; game timer; winner; scores | `Enter`, `Leave`, `ApplyPlayerInput`, `Tick`, `CaptureSnapshot`, `Broadcast`; inside them `StartGame`, `StopGame`, `FinishGame`, `UpdateAttackDefenseState` | ticks of varying length; contact, role change, end of dash and end of game inside one tick; restarts; exhausted ids | seats and ids distinct; game state, roster, timers and scores agree; points go to the attacker at the instant of contact; no contact is missed; speed is limited by the server; games end |
| **Session** `server/network/session.*` | `closed_`, socket, accumulation buffer, send queue, pending byte count | `Start`, `Stop`, `Send`, `ReadNext`/`HandleRead`/`ProcessMessages`/`DispatchMessage`, `WriteNext`/`HandleWrite`, `Close` | completions in any order, after `Close`, with errors; a full queue; a write that still uses the front of the queue | one read and one write at a time; messages delivered in order; one close callback; buffers outlive writes; closed sessions are released; the limit on waiting bytes |
| **Server, SessionManager, main** `server/network/server.*`, `session_manager.*`, `server/main.cpp` | acceptor, tick timer, server tick, stop flag; session registry and next session id | `HandleAccept`, `HandleTick`, `HandlePlayerInput`, `LeaveDefaultRoom`, `Stop`; `CreateSession`, `RemoveSession`, `CloseAll` | nested callbacks (`Close` → registry → room) from inside broadcasts and shutdown; a full room; shutdown with operations outstanding | registry, seats and open sockets agree; identity comes first; one accept and one timer; a stopped server is empty and runs out of work |
| **RoomManager** `server/game/room_manager.*` | rooms, next room id | `CreateRoom`, `FindRoom`, `RemoveRoom` | – (one room, created at start, never removed) | – |
| **Codec and payloads** `shared/network/messages/*` | – (pure) | encode and decode header, message, ping, pong, input, identity, snapshot | integers at the edges of their width; a player count and a size that contradict each other; values one side accepts and the other does not | what is encoded is decoded to the same value; a header names exactly its own message; encoder and decoder accept the same values |
| **NetworkClient** `client/network/*` | connection state and generation, callbacks, accumulation buffer, send queue, what was learnt from the server | `Connect`, `Disconnect`, `Poll`, `SendPing`, `SendPlayerInput`, the handlers of resolve, connect, read and write | any cut of the stream into reads; completions and posted callbacks of an old connection after a reconnect; a disconnect from inside a callback | only the current generation changes anything; messages are cut exactly; the owner hears each once and in order; queue and count agree |
| **ClientGameState, snapshot history, input loop** `client/game/*`, parts of `client/application/client_application.cpp` | identity, last snapshot, history for interpolation, render objects of the players, current and last sent input | `SetLocalPlayerIdentity`, `ApplyWorldStateSnapshot`, `Reset`, interpolation, `UpdatePlayerInput`, `SendPlayerInput` | snapshots late, in bursts or from before the identity; input sent only on change, against a server that forgets it; a full send queue | the history is ordered and ends in the current state; a player drawn where it was interpolated never moves back; no key that was let go keeps moving the player |
| **Client program, window, renderer, HUD, network UI** `client/application/*`, `client/platform/*`, `client/graphics/d3d11/*`, `client/graphics/ui/*` | window and quit message; device, swap chain, views; Direct2D bitmap; ImGui backends; exit code | `Run`, `HandleWindowResized`, `Render`, `RequestExit`, `Shutdown` and the calls inside them | any platform call failing; resize, minimise and close between any two frames; layers that share a back buffer and take each other's pipeline state | frames are whole and of the right size; the exit code tells of failures; everything is given back |
| **Mesh and texture repositories** `client/graphics/model/*repository*` | handles to GPU resources | create, find, clear | handles used after `Clear` | handles resolve while objects use them |
| **Loaders, shaders, camera, transforms** rest of `client/graphics/*` | – | files to GPU objects, matrices | none of protocol or game state | – |

Interaction. `Server` owns the acceptor, the timer, `SessionManager` and
`RoomManager`. A session tells its end through `onClosed`, which
`SessionManager` turns into "remove from the registry, then call the server",
and the server into `Room::Leave`; it hands player input to the server, which
hands it to the room. A tick runs `Room::Tick`, captures the snapshot, and
`Room::Broadcast` sends it through each player's session; a session that
refuses it is removed from the room and stopped, whose callback asks the room
to remove it again. `io_context::run` is called by one thread (`main.cpp`), so
handlers never overlap: what is concurrent is the **order of handlers**, and
that is what the modules interleave.

On the client `ClientApplication` owns everything. Its loop handles window
messages, then polls the `NetworkClient` (`ProcessNetworkEvents`), then updates
interpolation and input, then renders. The `NetworkClient` hands identities and
snapshots over by callbacks that are posted to its executor, so that they run
later in the same or a following poll; a window message may resize the back
buffer that renderer, HUD and network UI share. There is one thread here too.

## 2. Modules

```
Kinematics   <- Room <- MCRoom, RoomProofs
Lobby        <- Room (by INSTANCE, as the abstraction), Server
SessionState <- Session <- MCSession
SessionState <- SessionStateProofs <- SessionProofs, ServerProofs
SessionState, Lobby <- Server <- MCServer, ServerProofs
Connection   <- NetworkClient (by INSTANCE, as the abstraction)
NetworkClient, Codec <- MCNetworkClient
NetworkClient <- NetworkClientProofs
Codec         <- CodecProofs
ClientGame    <- ClientGameProofs
ClientApplication <- ClientApplicationProofs
```

**Kinematics** — the free functions of `room.cpp`: normalizing an input, the
free path of a player (dash, then walk), cutting a tick where a dash ends, the
quadratic contact test on a segment, the clamp to the walls. Time and space are
an exact integer grid; a direction of full strength has length `AxisMax`.
Square roots are never taken: a contact is kept as the surd
`base + (-b - sqrt(disc)) / twoA` and compared with integers by squaring, which
is exact. Not modelled: IEEE rounding, and the epsilon that the code uses to
tell a zero relative velocity.

**Room** — one action per public member function that changes state. `Enter`
includes the side choice, the id, and `StartGame`; `Leave` includes `StopGame`;
`Tick` is the whole of `Room::Tick`, in its order: contact from the positions
at the start, motion and clamp, score and respawn, game timer, then either
`FinishGame` or `UpdateAttackDefenseState`. Calls that return early without a
change are stutters and have no action. `NextPlayerId = 0` stands for "all ids
used", as in the code. Two fields of a player are history: the dash key as the
player last sent it in this game (`dashKey`) and the game time at which its last
dash of this game began (`dashedAt`). `EveryDashPaid` compares them with what the
code decides from `dashInputActive_` and the cooldown: a dash begins only when the
game clock has moved on by a whole cooldown and the key was not down before.

**Lobby** — what a room promises about seats and phases, with no positions,
timers or scores: who is seated, which side is free next, when a game starts,
stops and finishes. `Room` implements it (`ImplementsLobby`, by
`INSTANCE Lobby WITH sideOf <- ..., phase <- gameState`; checked and proved), so
`Server` can be built on `Lobby` in place of the room.

**SessionState** — a session as a record and each member function as an
operator on it; used by `Session` and, one record per connection, by `Server`.
`reading` and `writing` count the registered asynchronous operations, so a
doubled read or write would show. `socket_` is open until `Close`, so it is not
kept apart from `closed_`. Messages are their types, with a size each; a read
delivers at most one whole message, because the loop of `ProcessMessages`
continues exactly when `HandleRead` would read again. The loop itself, which
the client has too, is in `NetworkClient`.

**Session** — one session against its environment: the server sends,
broadcasts and stops; reads and writes complete or fail; operations on a closed
socket come back in whatever way. `accepted` and `delivered` are history
variables.

**Server** — acceptor, timer, registry, sessions and lobby. A handler is one
action with every callback it causes: `Conclude` computes which sessions ended
in it and removes them from the registry and the room. The specification starts
when `Server::Start` has returned. `accepting` and `timing` count registered
operations; each handler takes off its own and `AcceptNext` and
`ScheduleNextTick` add the next, so a handler that forgets to register, or does
it twice, shows. `timerFailed` is history: a wait of the running server ended
with an error, after which the code does not tick again. Only session ids in `Sessions` are created;
`MaxTicks` and `MaxQueue` bound the run and appear in guards only.

**Codec** — the functions of `shared/network/messages` down to the byte. A
function that returns `bool` and fills an output is two operators, for the
result and for the output. `Base` is the number of values of a byte; a float is
its bit pattern, with the sets of patterns that are not finite or are negative
as constants. It has no state, so it is evaluated by assumptions of
`MCNetworkClient` and proved about in `CodecProofs`.

**Connection** — what the owner of a `NetworkClient` may rely on: an attempt to
connect is settled by one callback or cancelled; the callbacks of an open
connection are those of the messages its own server sent, in order, once, up to
the first message that is not acceptable; a lost connection is announced once;
nothing is heard after the end. `Spec` is the safety of it, `FairSpec` adds that
an attempt to connect is settled.

**NetworkClient** — the class as a record, each member function and handler an
operator on it, and one action per call of the owner or completion of an
operation. `operations` counts the registered operations of every type **and
generation**: an old resolve, connect, read or write stays registered after its
connection ended and completes at any later time, with success or error. The
server's bytes are units (the two fields of a header, a payload), because a
header is useless until it is whole and so is a payload; a read takes any number of
the units that have arrived. `ProcessMessages` is the whole loop. A message is
`Invalid` when its payload does not decode, its type is not for a client or its
room is not the client's; `BadSize` when its header states a size out of range.
`posted` holds the callbacks on the executor. The packet log, which only the
network window shows, is left out. `NetworkClient` implements `Connection`
(`ConnectionContract`).

**ClientGame** — one player's frame loop against its server. `Frame` is one
turn: any number of the messages that have arrived are handled in order, the
interpolation picks its interval and moves the players, the keys are sampled and, if
they changed and the queue has room, sent. The server's side of it is what the
room does with a player's input: `StartGame` forgets it, `ServerTakesInput`
sets it. Opponents come and go, each a new player. Time is counted in ticks; where
a snapshot has a player is abstracted to the tick it is of, so a player is drawn
at a moment between two ticks and "moves back" is an order on moments. `picture`
has the moment each player is drawn at: a snapshot puts its players at its own
tick (`SynchronizePlayerRenderObjects`), and the interpolation moves those that
are drawn and in both snapshots (`ApplyInterpolatedPlayerStates`). `smoothed` is
history, the moment each player was last interpolated at under this identity.
Nothing bounds how late the client takes a snapshot.

**ClientApplication** — `Run` from the creation of the window to the end of
`Shutdown`. The platform's calls, and the request to connect, are the places where
something may fail: an action takes the set of calls that fail in it. `Then` is the early return,
`OrElse` the cleanup on an error path. Views, buffers and bitmap carry the size
they were made for; a frame carries the layers that are on it.

**MCRoom, MCSession, MCServer, MCNetworkClient** — instances for TLC;
`ClientGame` and `ClientApplication` need none, their constants being numbers
and model values.
**RoomProofs, SessionStateProofs, SessionProofs, ServerProofs, CodecProofs,
ClientGameProofs, NetworkClientProofs, ClientApplicationProofs** — theorems checked by TLAPS.

A comment that begins "Mutant" marks a deliberately wrong version of
the definition that follows it; each property is known to fail when its
mutant replaces the definition.

## 3. Runs

| Run | Instance | Question |
|---|---|---|
| `room_game` | two sessions moving along a line, three ids, ticks of 1–2 steps, roles change every 2 steps, games of 4 | Do timers, roles, dashes and points agree however the game is cut into ticks, and over a restart? |
| `room_motion` | two sessions in a plane, a diagonal input outside the unit disc, dashes that end inside a tick | Is any contact on the free paths missed? Can players overlap away from a wall? Is speed limited? |
| `room_lobby` | three sessions for two seats, three ids, games of two ticks | Do seats, ids, state and results survive leaving, entering and restarting until the ids run out? Does `Room` implement `Lobby`? Does every game end? |
| `room_missed_contact` | as `room_motion`, along a line | (violation) players in contact after a tick |
| `session` | snapshots of size 3, other messages of size 1, limit 6, up to 7 accepted | All interleavings of sends, reads, completions, failures and stops |
| `session_pending`, `session_limit` | as `session` | (violations) the byte count and the limit |
| `server` | three connections for two seats, two ticks, limit 4 | Registry, room and sockets agree; every accept and tick registers the next; identity first; shutdown |
| `network_client` | three generations, two messages of the server, limit 2, a ping of size 1 and an input of size 2 | Does the client implement `Connection` under every cut of the stream, every failure and every late completion? Does every acceptable message get heard? Does the codec give back what it got? |
| `client_game` | delay 2, history 3, two opponents, one input on its way, five ticks | Is the history in order, is nobody drawn before a moment it was interpolated at, does the player stop when the keys are let go? |
| `client_input` | two opponents, four ticks | (violation) the keys held are the server's input |
| `client_application` | three sizes and a minimised window, every platform call may fail | Are frames whole, are failures told, is everything given back? |

*Bounds.* `room_game`: the spawns are at -4 and 4, the walls at -5 and 5, contact
is at distance 3, a step is 2 long when walking and 4 when dashing, so players
meet by walking, by dashing, by either alone, and on either part of a tick that
a dash divides. A game of 4 steps with roles every 2 has a role change, and ends
with one; a tick of 2 can contain a role change or stop exactly on it; the dash
lasts 1 step and its cooldown 2, so a game has room for a second dash, too early
or in time. The third id lets a player be replaced and another game start. `room_motion`: dashes are three
times as fast as walks and cross the whole contact distance in one step, and a
wall is one step behind each spawn. `room_lobby`: three sessions for two seats is
the smallest case with a refused entry and a replacement; the third id allows
one replacement and then the ids are exhausted; motion is cut to one direction,
since `room_game` and `room_motion` cover it. `session`: the limit holds an
identity, a snapshot and two pongs, so queues of two and more (the least on
which the completion of one leaves another waiting), a refused snapshot and a
refused pong all occur, and with `MaxAccepted = 7` also after a reset count.
`server`: three connections give a full room, a refusal and a replacement; the
limit admits an identity and one snapshot, so that the second snapshot to a
client that does not take the first is refused in the middle of a broadcast;
pings are answered only while no other message waits (`MaxQueue`), because
queues are `Session`'s subject. `network_client`: a generation passes with every
connect and every disconnect of the owner, so three allow a connection that the
owner ends and one after it with the completions and posted callbacks of the
first still to come; two messages are the least with a message, or a part of
one, behind another in a read, and the identity before a snapshot; the limit
admits two pings or one input, so both the refused send and a queue of two
occur. The codec is evaluated with 12 values to a byte, at the edges of every
width, and with a largest message that holds exactly two players, so
that one more is refused; the proofs have no such bounds. `client_game`: with a
delay of 2 and a history of 3 (in the code: 64 ms, which is 4 ticks, and 32
entries) a burst of three snapshots drops everything older than the delay, so
within five ticks the players are drawn from the newest state, interpolated, drawn
from the newest state again after a burst and interpolated again; the second
opponent enters while the first is still drawn, and is drawn before it can be
interpolated. `client_application`: three sizes let a resize
follow a resize before a frame is drawn. A start or a frame ends at its first
failure, a resize goes on to the HUD after one, so sets of failing calls are
enumerated there; the program has no counters, so nothing else is cut.
Symmetry over sessions is used only in runs
without liveness, and sessions are only compared for equality. Deadlock is
allowed where the program stops by itself or a bound does: an empty room
without ids, a closed session, a stopped server, a client whose
connections or ticks are used up, a program that has ended.

*Fairness.* `Room`: the timer rearms itself at the end of every tick
(`Server::ScheduleNextTick`), so a tick eventually happens while a game runs.
`Session` and `Server`: an operation on a closed socket, a cancelled accept and a
cancelled timer come back with an error, since Boost.Asio calls every handler. On
an open socket nothing is assumed: a read may wait for ever for the client to
send, and a write for the client to read, for the code has no time limit on
either. `EverythingDelivered` is therefore an implication: **if** the client goes on
taking what it is sent (`ClientTakesAll`), every accepted message is delivered or
the session closes. `NetworkClient`: a resolve and a
connect complete, bytes that have arrived reach the registered read, and posted
callbacks run, because the frame loop polls the executor every turn. `ClientGame`
and `ClientApplication` state safety only. Nothing obliges clients to act,
servers to send, or the operator to stop the server.

## 4. What the code does otherwise than it says

* `session_pending` — `Session::HandleWrite` (`session.cpp:507-513`) starts the
  next write and then sets `pendingSendBytes_` to zero although a message is
  still queued. The comment at line 512 ("when every send is complete") and
  `session.h:118` say otherwise. With two messages queued the completion of the
  second fails the consistency test at line 482 and closes a healthy session.
  `NetworkClient::HandleWrite`, otherwise the same, returns after starting the
  next write; there the count is right (`SendQueueAccounted`).
* `session_limit` — for the same reason the queue of a slow client can grow past
  `MaxPendingSendBytes` (`session.h:58`, `session.cpp:96`).
* `room_missed_contact` — `src/README.md:81-82` promises that continuous
  collision detection misses no contact; the contact test follows the free
  paths, and the clamp to the walls comes afterwards (`room.cpp:572-586`), so a
  player pressed against a wall can be in contact at the end of a tick without
  a point. `OverlapOnlyAtWall` shows this is the only way.
* `client_input` — `src/README.md:13` and `47` say that the client passes the
  player's input on to the server. It sends an input only when it differs from
  the last one sent (`client_application.cpp:1459-1475`) and forgets that one
  only with a new identity, while `Room::StartGame` (`room.cpp:868-881`) sets
  the server's copy back to no input at each start of a game. A player who holds a key
  from one game into the next (the opponent leaves and another enters) stands
  still until the key is let go. `NoKeySticks` shows that the two sides differ in
  this direction only: the server may have no input, never one that was let go.

`ReadsOnUnlessPongRefused` records a related fact that contradicts no text: when the
pong of a ping is refused at the limit, the session stays open and never reads
again (`session.cpp:188`).

## 5. Theorems

TLAPS checks these for every value of the constants that the named assumptions
admit (`KinematicsAssumption`, `RoomAssumption`, `SessionStateAssumption`,
`SessionAssumption`, `ServerAssumption`, `CodecAssumption`,
`ClientGameAssumption`, `NetworkClientAssumption`,
`ClientApplicationAssumption`). What the assumptions ask of numbers is what the
constants of the code satisfy: a message has a size of at least one byte, a tick is no longer
than a role interval, the spawns are apart by more than the distance of a
contact. `ClientApplicationAssumption` says that the size the window is created
for is one of its sizes, and that "no pixels" and "no view" are none of them.

*RoomProofs.* `RoomInv` is the conjunction of `TypeOK`, `GameStateConsistent` and
`SeatsAndIdsDistinct`. Only the third is inductive alone: that both timers are
positive while a game runs is needed to keep the role timer in range, and the
roster decides which states there may be. The proof goes from geometry
(`GreatestInSet`, `NormalizeType`, `ClampInArena`) over single players (`Sound`, one
lemma for each operation on a player) and rosters (`JoinedRoster`,
`RestartedRoster`, `TickedRoster`) to one lemma per action. `RoleTimer` uses the
assumption that a tick is no longer than a role interval (0.25 s against 3 s).
Theorems: `TypeCorrect`, `SeatsDistinct`, `GameConsistent`, `AlwaysEncodable`.
`RoomImplementsLobby` then proves the refinement by the map `SideOf` from
rosters to seats: an entry is a `Seat`, a departure an `Unseat` of one session,
the end of a game is `Finish`, and every other tick and every input goes unseen.
It needs `RoomInv`, since a free side exists exactly while the room waits.

`RolesAreClock` proves `RolesFollowClock`: attacker and role timer are those of the time
played, `GameDuration - gameRemaining`, divided by the role interval. A tick
crosses at most one change (`IntervalPassed`, `NextAttacker`), whose quotient
and remainder `ClockAfterTick` computes; the rest of the invariant is `RoomInv`.
`DashesPaid` proves `EveryDashPaid`. Its invariant `DashesByClock` ties what the code
keeps to the history: before the first dash of a game neither dash nor cooldown
runs, after it the cooldown is what the game clock has left of it, and the code's
note of the dash key is the key last sent in this game. One lemma for each thing that
happens to a player (`NewPlayerByClock`, `WithInputByClock`, `MovedByClock`,
`StoppedByClock`) carries it on. That a dash begins no sooner needs both tests of
`StartsDash`, the cooldown and the edge of the key.
`PointsByClock` proves `PointsFollowClock` on top of `RolesAreClock`: a tick has one contact
at most, because a side has one player (`OneContactOfTwo`), and the side that
`GetAttackingSideAtTickTime` names for the instant of contact is the one of the clock
(`ScorerFollowsClock`), instants being compared as surds.

`EveryContactScores` proves `ContactScores`: the search of `FindCollisions` misses
nothing. The distance of two players on a segment is a quadratic of time whose
integer coefficients the code computes (`QuadraticOfTime`); where it is at most
the contact distance, its first root is a real instant of the segment
(`RootReached`, `ContactOnSegment`), again as a surd and without ever taking the
root; every time of a tick lies in one of the segments that the ends of the
dashes cut (`SegmentOfTime`), and the first segment with a contact is the one the
code takes (`LeastInSet`, `ContactFound`, `CollisionFound`). Two players who
enter or respawn are apart (`SpawnsApart`). `OverlapsAtWalls` adds what the clamp
can do afterwards: without it the players are where their free paths end
(`ClampedOrOnWall`), and there a contact would have been found.

`SpeedHasLimit` proves `SpeedLimited` from a second invariant, `DirectionsLimited`:
every direction that is kept, of the input and of the dash, has at most full
strength (`NormalizeLimited`, for directions in whole numbers, which
`OnUnitCircle` rounds towards zero). Two such
parts of a way, dash and walk, reach no further than their lengths together
(`ReachOfTwo`, the triangle inequality in integers), and the walls only shorten a
way that begins between them (`WallsShorten`).

*SessionStateProofs, SessionProofs.* `WellFormed` is what every member function
of a session relies on and leaves behind, with one lemma per function, stated
for a session as a value so that `Server` can use them. `SessionInv` adds that nothing is
registered or accepted before the start, and `StreamInOrder`, without which the
completion of a write could not be followed. Theorems: `TypeCorrect`,
`OneOperationEachWay`, `OwnerToldOnce`, `DeliveredInOrder`, `BufferKept`,
`KeepsReading`.

*ServerProofs.* `ServerInv` is `ConnectionInv` (every session well-formed, seats
orderly as the lobby keeps them, ids below the next one, registry, seats and
open sockets the same sessions, whoever is open was sent its identity first) and
`ControlInv` (`OneAcceptOneTimer`: exactly one accept while the server runs, exactly
one tick until the timer itself fails, never two of either; an empty registry
after `Stop`). The heart is `Conclude`: whatever a handler does to the
sessions, if none opens again (`Follows`), what ended is exactly what is closed
now and was not (`EndedAre`), and removing it from registry and room restores
the agreement. Each action then only has to show `Follows`. Theorems:
`TypeCorrect`, `RegistryAgrees`, `ChainsStaySingle`, `StaysEmpty`,
`IdentityComesFirst`; and `ServerImplementsLobby`: a handler with all its
callbacks is one step of the lobby, or none.

*CodecProofs.* Numbers cut in quotient and remainder, bytes found at an offset
(`Piece`), integers, whole messages, then each payload: `MessageCutExactly`,
`PingRoundTrip`, `IdentityRoundTrip`, `InputRoundTrip`, and `SnapshotRoundTrip`
for any number of players. Each says that what the encoder accepts the decoder
accepts and gives back. `InputRoundTrip` has the other direction too: a payload
that the decoder accepts is, byte for byte, the encoding of a valid input
(`WritesInt16`, `WritesUint16`, `InputRewritten`), so the server takes from a
client nothing but what a client could have encoded.

*ClientGameProofs.* `ClientGameInv`: types, `Sound` (the history is ordered, ends
in the current state and has nothing from the future; every moment drawn is in range)
and `InputOnItsWay` (the last input on its way is the last one sent; when none is on
its way the server has that one or none; an identity comes first, to a client
that has sent nothing). A frame handles any number of messages by a recursive
function; `PollingExists` and `PolledSteps` unfold it by a least counterexample
(`LeastElement`), which takes the place of induction. Theorems: `TypeCorrect`,
`HistoryIsOrdered`, `KeysLetGo`.

`TimeGoesOn` proves `PictureNeverGoesBack` from one more invariant, `PictureInv`: every
player follows the moment it was last interpolated at (`Follows`). It is drawn no
earlier, and whatever the history still has in store, from the present render time
on, is not before that moment (`Ahead`). Nothing is assumed of how late or in what
batches snapshots come: a history that has lost its beginning leaves the newest
state, which is not before any moment that was ever drawn, and one that grows at its
end adds only what lies ahead (`AheadGrows`). The next moment of a player lies in the
interval of a later render time: if it is the same interval the part of it that has
passed has grown (`BetweenGrows`), otherwise whole intervals lie in between, and
those of an ordered history are ordered (`TimedOrder`). An identity and a lost
connection start anew (`FollowsNothing`).
Moments are compared as products, so the leaves are facts about
products of natural numbers (`ProductBound`).

*NetworkClientProofs.* `NetworkClientInv`: the operations of the current
generation are exactly those of its stage, no generation ahead of the current
one has any, something waits to be sent only while connected, and the count of
waiting bytes is that of the queue (`Queued`). So a new connection starts
without operations, and a completion of an old one changes no more than its own
count. The loop of `ProcessMessages` is unfolded as above; it touches no
operation. Theorems: `TypeCorrect`, `ChainsIntact`, `SendLimitKept`.

The second half is about what is read. A stream is a concatenation of messages of
different lengths, so the proofs begin with facts about sequences of sequences:
how many pieces, and how much of the next, a prefix of their concatenation holds. `Framed`
says of a connection that what it has read and passed on is that number of whole
messages and that what it keeps is the piece of the next; one turn of the loop of
`ProcessMessages` preserves it, and so does the whole loop (once more by a least
counterexample). `FrameInv` says `Framed` of the client, its stream and what the
server has sent on it: while connecting nothing is read, posted or heard, and
while connected what was heard and what is posted are the callbacks of the whole
messages. It gives `EveryMessageOnce` (`FramedExactly`)
and, with one lemma per action, `KeepsContract`: every step of the
`NetworkClient` is a step of `Connection`'s `Spec`, or unseen by the owner.

*ClientApplicationProofs.* Every function of the program is a chain of calls each
of which may fail, so there is one lemma per function with two sides: what holds
after it when all went well, and what when a call failed (`Outcome`), together
with the parts of the client it leaves alone (`OnlyRenderer`, `OnlyHud`,
`OnlyUi`, `SameResources`). Chains of them give `StartEffect`, `ResizedEffect`,
`FrameEffect` and `ShutdownEffect`. `ApplicationInv` says what state `Run` has at
each place of its loop: `Ready` (initialised, not faulted, device, views and
bitmap of the size last told, no frame open, every resource at hand) or, while
messages are handled, `Exiting`; after a frame a `Complete` picture; at the end
`Ended`. `PictureWhole` and `EndsCleanly` alone are not inductive: that a frame
begins at all needs `Ready`, down to the repository that its objects refer to.
Theorems: `ApplicationInvariant`, `TypeCorrect`, `PicturesAreWhole`,
`AlwaysEndsCleanly`.

With these, every invariant and every action property that a run checks is
proved, except for the violations of section 4. Only model-checked: liveness
(`GameEnds`, `EverythingDelivered`, `Released`, `ShutdownCompletes`,
`EverythingHeard`) and the fairness in `ConnectionContract` (that an attempt
to connect is settled), which the provers do not handle.

## 6. Not modelled, and the plan

Not modelled, and why:

* What is inside a layer of the picture: vertices, shaders, textures, texts,
  viewport and HUD transforms, ImGui widgets, camera, the Assimp loader. It is
  pure conversion, and nothing of it outlives the call. That any of it can fail
  is in `ClientApplication`.
* The packet log and statistics of the network window: no decision depends on
  them.
* `RemoveRoom`, `RemoveMesh` and `RemoveTexture`, which nothing calls; ids of 64
  bits running out; full-screen switching by Alt+Enter, which is the platform's.
* Memory exhaustion, exceptions of the standard library, and float rounding.
* The freed buffer of a cancelled write in `NetworkClient::ClearSendQueue`
  (`network_client.cpp:1029`): what the platform still reads is below the
  model. `Session` keeps the buffer, and is checked for it.
* A window that gets another size while it is shown, before the resize callback
  is set (`client_application.cpp:208`): the code promises nothing for it.
* Which way a player faces. One who stands still in both snapshots of the interval
  keeps the facing of the newest state (`client_application.cpp:706`), a little
  ahead of the position it is drawn at; the code promises nothing for it.

Planned:

1. `Session` composed with `NetworkClient` over one channel, for the two send
   queues against each other.
2. The safety half of the liveness properties: that no state of a session, of a
   server after `Stop` or of a connecting client is stuck, as invariants from
   which fairness alone leads on.
