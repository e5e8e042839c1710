-------------------------------- MODULE Room --------------------------------
(***************************************************************************)
(* The authoritative game of one room (server/game/room.cpp, player.h):    *)
(* who is in it, how the players move and dash, the attack and defence     *)
(* timer, contacts and scores, and the start, stop and end of a game.      *)
(* Every handler runs to completion on the single server thread, so every  *)
(* member function is one action.                                          *)
(*                                                                         *)
(* Time is counted in whole steps; a tick covers 1 .. MaxTickDelta steps.  *)
(* Calls that return early without a change (an input of a session that is *)
(* not in the room, a tick while no game runs, a refused entry) are        *)
(* stutters of this specification.                                         *)
(***************************************************************************)
EXTENDS Kinematics

CONSTANTS
    Sessions,           \* sessions that may enter
    MaxPlayerId,        \* the largest PlayerId (2^32 - 1 in the code)
    InputAxes,          \* the raw axis vectors a client may send
    DashDuration,       \* PlayerDashDurationSeconds
    DashCooldown,       \* PlayerDashCooldownSeconds
    RoleInterval,       \* AttackRoleSwitchIntervalSeconds
    GameDuration,       \* GameDurationSeconds
    MaxTickDelta,       \* MaxServerTickDeltaSeconds, the server's clamp
    SpawnX              \* distance of the two spawn positions from the centre

ASSUME RoomAssumption ==
    /\ MaxPlayerId \in Nat \ {0}
    /\ InputAxes \subseteq [x : -AxisMax .. AxisMax, y : -AxisMax .. AxisMax]
    /\ DashDuration \in Nat \ {0}
    /\ DashCooldown \in Nat /\ DashCooldown >= DashDuration
    /\ RoleInterval \in Nat \ {0}
    /\ GameDuration \in Nat \ {0}
    /\ MaxTickDelta \in Nat \ {0} /\ MaxTickDelta <= RoleInterval
    /\ SpawnX \in Nat /\ SpawnX <= WallX /\ 2 * SpawnX > CollisionDistance

VARIABLES
    players,                    \* players_: the PlayerState of each session inside
    nextPlayerId,               \* nextPlayerId_: 0 once all ids are used
    gameState,                  \* gameState_
    attackingSide,              \* attackingSide_
    attackRoleSwitchRemaining,  \* attackRoleSwitchRemainingSeconds_
    gameRemaining,              \* gameRemainingSeconds_
    winningSide,                \* winningSide_
    sideScores                  \* sideScores_

clockVars == <<attackingSide, attackRoleSwitchRemaining, gameRemaining>>
gameVars == <<gameState, clockVars, winningSide, sideScores>>
vars == <<players, nextPlayerId, gameVars>>

-----------------------------------------------------------------------------
Sides == {"Flame", "Frost"}
NoSide == "None"
Opposite(side) == IF side = "Flame" THEN "Frost" ELSE "Flame"
MaxPlayerCount == 2

Member == DOMAIN players

\* The game time that has passed since the game began.
ElapsedTime == GameDuration - gameRemaining

SpawnPosition(side) == [x |-> IF side = "Flame" THEN -SpawnX ELSE SpawnX, y |-> 0]

Never == -1

\* The last two fields are history: the dash input as the player last sent it
\* in this game, and the game time at which the last dash of this game began.
PlayerState ==
    [playerId : 1 .. MaxPlayerId, side : Sides, pos : Arena, dir : Vector,
     dashInputActive : BOOLEAN, dashDir : Vector,
     dash : 0 .. DashDuration, cooldown : 0 .. DashCooldown,
     dashKey : {"Unknown", "Up", "Down"}, dashedAt : Never .. GameDuration]

NewPlayer(id, side) ==
    [playerId |-> id, side |-> side, pos |-> SpawnPosition(side), dir |-> Zero,
     dashInputActive |-> FALSE, dashDir |-> Zero, dash |-> 0, cooldown |-> 0,
     dashKey |-> "Unknown", dashedAt |-> Never]

EndDash(p) == [p EXCEPT !.dashDir = Zero, !.dash = 0]
Respawn(p) == [p EXCEPT !.pos = SpawnPosition(p.side)]

HasPlayerOnSide(roster, side) == \E s \in DOMAIN roster : roster[s].side = side
\* Mutant: one taken side is enough.
OneSideTaken(roster) == \E side \in Sides : HasPlayerOnSide(roster, side)

IsAttackDefenseReady(roster) == \A side \in Sides : HasPlayerOnSide(roster, side)

-----------------------------------------------------------------------------
Init ==
    /\ players = [s \in {} |-> NewPlayer(1, "Flame")]
    /\ nextPlayerId = 1
    /\ gameState = "Waiting"
    /\ attackingSide = NoSide
    /\ attackRoleSwitchRemaining = 0
    /\ gameRemaining = 0
    /\ winningSide = NoSide
    /\ sideScores = [side \in Sides |-> 0]

StartGame(roster) ==
    /\ gameState' = "Playing"
    /\ sideScores' = [side \in Sides |-> 0]
    /\ winningSide' = NoSide
    /\ gameRemaining' = GameDuration
    /\ attackingSide' = "Flame"
    /\ attackRoleSwitchRemaining' = RoleInterval
    /\ players' = [s \in DOMAIN roster |->
                      NewPlayer(roster[s].playerId, roster[s].side)]

\* Mutant: the result of the game that stops is kept.
StopGameKeepingResult ==
    /\ gameState' = "Waiting"
    /\ attackingSide' = NoSide
    /\ attackRoleSwitchRemaining' = 0
    /\ gameRemaining' = 0
    /\ UNCHANGED winningSide
    /\ sideScores' = [side \in Sides |-> 0]

StopGame ==
    /\ gameState' = "Waiting"
    /\ attackingSide' = NoSide
    /\ attackRoleSwitchRemaining' = 0
    /\ gameRemaining' = 0
    /\ winningSide' = NoSide
    /\ sideScores' = [side \in Sides |-> 0]

-----------------------------------------------------------------------------
(* Membership.                                                             *)

\* Mutant: the ids start over.
GenerateIdAround(id) == IF id = MaxPlayerId THEN 1 ELSE id + 1

GeneratePlayerId(id) == IF id = MaxPlayerId THEN 0 ELSE id + 1

FreeSides == {side \in Sides : ~HasPlayerOnSide(players, side)}

Joined(s) ==
    LET side == IF "Flame" \in FreeSides THEN "Flame" ELSE "Frost"
    IN  [r \in Member \cup {s} |->
            IF r = s THEN NewPlayer(nextPlayerId, side) ELSE players[r]]

\* Mutant: an exhausted id space is not noticed.
CanEnterWithoutId(s) ==
    /\ s \notin Member
    /\ Cardinality(Member) < MaxPlayerCount
    /\ FreeSides # {}

\* The server lets a session enter once, before it starts, so the insertion
\* into players_ never finds the session there already.
CanEnter(s) ==
    /\ s \notin Member
    /\ Cardinality(Member) < MaxPlayerCount
    /\ FreeSides # {}
    /\ nextPlayerId # 0

Enter(s) ==
    /\ CanEnter(s)
    /\ nextPlayerId' = GeneratePlayerId(nextPlayerId)
    /\ IF gameState = "Waiting" /\ IsAttackDefenseReady(Joined(s))
       THEN StartGame(Joined(s))
       ELSE players' = Joined(s) /\ UNCHANGED gameVars

Leave(s) ==
    /\ s \in Member
    /\ players' = [r \in Member \ {s} |-> players[r]]
    /\ IF IsAttackDefenseReady(players') THEN UNCHANGED gameVars ELSE StopGame
    /\ UNCHANGED nextPlayerId

-----------------------------------------------------------------------------
(* Input.  A dash starts on the rising edge of the dash input, while a     *)
(* game runs, after the cooldown, and in a direction.                      *)

\* Mutant: a dash may begin as soon as the last one is over.
StartsDashAfterDash(p, dir, dashInput) ==
    /\ gameState = "Playing"
    /\ dashInput /\ ~p.dashInputActive
    /\ p.dash = 0
    /\ dir # Zero

StartsDash(p, dir, dashInput) ==
    /\ gameState = "Playing"
    /\ dashInput /\ ~p.dashInputActive
    /\ p.cooldown = 0
    /\ dir # Zero

WithInput(p, dir, dashInput) ==
    LET steered == [p EXCEPT !.dir = dir, !.dashInputActive = dashInput,
                             !.dashKey = IF dashInput THEN "Down" ELSE "Up"]
    IN  IF StartsDash(p, dir, dashInput)
        THEN [steered EXCEPT !.dashDir = dir, !.dash = DashDuration, !.cooldown = DashCooldown,
                             !.dashedAt = ElapsedTime]
        ELSE steered

ApplyPlayerInput(s, axes, dashInput) ==
    /\ s \in Member
    /\ players' = [players EXCEPT
                      ![s] = WithInput(@, NormalizePlayerInput(axes), dashInput)]
    /\ UNCHANGED <<nextPlayerId, gameVars>>

-----------------------------------------------------------------------------
(* The tick.                                                               *)

\* Mutant: the walls do not stop a player.
MovedThroughWalls(p, delta) ==
    [p EXCEPT !.pos = FreePosition(p, delta),
              !.dash = Greatest(0, @ - delta),
              !.cooldown = Greatest(0, @ - delta)]

\* Motion of one player: dash, then walk, cool down, stop at the walls.
Moved(p, delta) ==
    [p EXCEPT !.pos = Clamp(FreePosition(p, delta)),
              !.dash = Greatest(0, @ - delta),
              !.cooldown = Greatest(0, @ - delta)]

\* The contact of the two players of the roster during the tick, from where
\* they stand and head at its start: {} or one contact.
PlayerCollisions(roster, delta) ==
    LET OnSide(side) == {s \in DOMAIN roster : roster[s].side = side}
    IN  UNION {FindPlayerCollisionTimeDuringTick(roster[s], roster[r], delta) :
                  s \in OnSide("Flame"), r \in OnSide("Frost")}

\* Mutant: the point goes to the attacker at the start of the tick.
AttackerAtTickStart(contact) == attackingSide

GetAttackingSideAtTickTime(contact) ==
    IF Before(contact, attackRoleSwitchRemaining)
    THEN attackingSide
    ELSE Opposite(attackingSide)

\* Mutant: no swap when the timer stands at exactly zero.
RoleSwitchesPastZero(remaining) ==
    IF remaining >= 0 THEN 0 ELSE ((-remaining) \div RoleInterval) + 1

\* Roles swap once for every interval that the time left falls short by.
RoleSwitches(remaining) ==
    IF remaining > 0 THEN 0 ELSE ((-remaining) \div RoleInterval) + 1

UpdateAttackDefenseState(delta) ==
    LET remaining == attackRoleSwitchRemaining - delta
        switches == RoleSwitches(remaining)
    IN  /\ attackRoleSwitchRemaining' = remaining + switches * RoleInterval
        /\ attackingSide' = IF switches % 2 = 1 THEN Opposite(attackingSide)
                                                ELSE attackingSide

Leader(scores) ==
    IF scores["Flame"] > scores["Frost"] THEN "Flame"
    ELSE IF scores["Frost"] > scores["Flame"] THEN "Frost" ELSE NoSide

\* Mutant: the game is scored but not put in the finished state.
FinishGameStillPlaying(roster) ==
    /\ winningSide' = Leader(sideScores')
    /\ players' = [s \in DOMAIN roster |-> EndDash(roster[s])]
    /\ UNCHANGED <<gameState, attackingSide, attackRoleSwitchRemaining>>

FinishGame(roster) ==
    /\ winningSide' = Leader(sideScores')
    /\ gameState' = "Finished"
    /\ attackingSide' = NoSide
    /\ attackRoleSwitchRemaining' = 0
    /\ players' = [s \in DOMAIN roster |-> EndDash(roster[s])]

Tick(tickDelta) ==
    /\ gameState = "Playing"
    /\ UNCHANGED nextPlayerId
    /\ \E delta \in {Least(tickDelta, gameRemaining)} :
       \E collisions \in {PlayerCollisions(players, delta)} :
         LET moved == [s \in Member |-> Moved(players[s], delta)]
             roster == IF collisions = {} THEN moved
                       ELSE [s \in Member |-> Respawn(EndDash(moved[s]))]
         IN  /\ sideScores' = [side \in Sides |-> sideScores[side] +
                    IF \E c \in collisions : GetAttackingSideAtTickTime(c) = side THEN 1 ELSE 0]
             /\ gameRemaining' = gameRemaining - delta
             /\ IF gameRemaining' = 0
                THEN FinishGame(roster)
                ELSE /\ players' = roster
                     /\ UpdateAttackDefenseState(delta)
                     /\ UNCHANGED <<gameState, winningSide>>

-----------------------------------------------------------------------------
(* The state sent to the clients, and what the encoder accepts.            *)

PlayerStateSnapshot(p) ==
    [playerId |-> p.playerId, side |-> p.side, pos |-> p.pos,
     dir |-> IF gameState # "Playing" THEN Zero
             ELSE IF p.dash > 0 THEN p.dashDir ELSE p.dir]

CaptureSnapshot ==
    [gamePlayState |-> gameState, attackingSide |-> attackingSide,
     winningSide |-> winningSide, gameRemaining |-> gameRemaining,
     attackRoleSwitchRemaining |-> attackRoleSwitchRemaining,
     flameScore |-> sideScores["Flame"], frostScore |-> sideScores["Frost"],
     players |-> {PlayerStateSnapshot(players[s]) : s \in Member}]

EncodeWorldStateSnapshotPayload(snapshot) ==
    /\ snapshot.gamePlayState \in {"Waiting", "Playing", "Finished"}
    /\ {snapshot.attackingSide, snapshot.winningSide} \subseteq Sides \cup {NoSide}
    /\ snapshot.gameRemaining >= 0
    /\ snapshot.attackRoleSwitchRemaining >= 0
    /\ \A p \in snapshot.players : p.playerId # 0 /\ p.side \in Sides

-----------------------------------------------------------------------------
Next ==
    \/ \E s \in Sessions : Enter(s)
    \/ \E s \in Sessions : Leave(s)
    \/ \E s \in Sessions, axes \in InputAxes, dashInput \in BOOLEAN :
          ApplyPlayerInput(s, axes, dashInput)
    \/ \E tickDelta \in 1 .. MaxTickDelta : Tick(tickDelta)

Spec == Init /\ [][Next]_vars

\* The timer rearms itself at the end of every tick, and a tick lasts at least
\* one step (server.cpp, ScheduleNextTick and HandleTick).
FairSpec == Spec /\ WF_vars(\E tickDelta \in 1 .. MaxTickDelta : Tick(tickDelta))

-----------------------------------------------------------------------------
(* Properties.                                                             *)

\* Every variable has the type of the member it stands for; positions are
\* inside the arena and both timers inside their range.
TypeOK ==
    /\ Member \subseteq Sessions
    /\ players \in [Member -> PlayerState]
    /\ nextPlayerId \in 0 .. MaxPlayerId
    /\ gameState \in {"Waiting", "Playing", "Finished"}
    /\ attackingSide \in Sides \cup {NoSide}
    /\ attackRoleSwitchRemaining \in 0 .. RoleInterval
    /\ gameRemaining \in 0 .. GameDuration
    /\ winningSide \in Sides \cup {NoSide}
    /\ sideScores \in [Sides -> Nat]

\* Two sessions in the room never share a side or a player id, and every id in
\* use was issued before the next one to come, however often sessions enter
\* and leave and even after the last id (Room::Enter, GeneratePlayerId).
SeatsAndIdsDistinct ==
    /\ \A r, s \in Member :
          r # s => /\ players[r].side # players[s].side
                   /\ players[r].playerId # players[s].playerId
    /\ \A s \in Member : nextPlayerId = 0 \/ players[s].playerId < nextPlayerId

\* The game state agrees with the roster, the attacker, both timers, the
\* scores and the result: a game runs or is over only while both sides are
\* taken, has an attacker and time on both timers exactly while it runs, and a
\* room that waits shows neither points nor a winner (StartGame, StopGame,
\* FinishGame).
GameStateConsistent ==
    /\ gameState = "Waiting" <=> ~IsAttackDefenseReady(players)
    /\ gameState = "Playing" <=> attackingSide # NoSide
    /\ gameState = "Playing" <=> gameRemaining > 0
    /\ gameState = "Playing" <=> attackRoleSwitchRemaining > 0
    /\ gameState = "Waiting" => \A side \in Sides : sideScores[side] = 0
    /\ winningSide = IF gameState = "Finished" THEN Leader(sideScores) ELSE NoSide

\* What a player may still have of a dash when the clock of the game shows now:
\* the rest of the last dash of this very game; before the first there is none,
\* and before the first input no way to go and no dash key down either.
DashByClock(p, now) ==
    LET since == now - p.dashedAt
    IN  /\ p.dashedAt = Never => p.dash = 0 /\ p.cooldown = 0
        /\ p.dashedAt # Never =>
              /\ since >= 0
              /\ p.cooldown = Greatest(0, DashCooldown - since)
              /\ p.dash \in {0, Greatest(0, DashDuration - since)}
        /\ p.dashKey = "Unknown" => p.dir = Zero /\ p.dashedAt = Never
        /\ p.dashInputActive <=> p.dashKey = "Down"

DashesByClock ==
    gameState = "Playing" => \A s \in Member : DashByClock(players[s], ElapsedTime)

\* In this step the player begins to dash, or to dash another way.
BeginsDash(s) ==
    /\ s \in DOMAIN players' /\ players'[s].dash > 0
    /\ players'[s].dash > players[s].dash \/ players'[s].dashDir # players[s].dashDir

\* A dash that begins in this step may.
PaysForDash(s) ==
    BeginsDash(s) =>
      /\ gameState = "Playing"
      /\ players[s].dashedAt # Never => ElapsedTime - players[s].dashedAt >= DashCooldown
      /\ players[s].dashKey # "Down"
      /\ players'[s].dashDir # Zero

\* Every dash is paid for: it begins in a running game, a whole cooldown of game
\* time after the last one of that game, in a direction, and with a press of its
\* own, never by a key that was down already; and nothing of an earlier game's
\* dash, cooldown or input is left in the next, whatever inputs, ticks,
\* contacts, departures and restarts come between (ApplyPlayerInput, Tick,
\* StartGame).
EveryDashPaid ==
    /\ []DashesByClock
    /\ [][\A s \in Member : PaysForDash(s)]_vars

AttackerAt(time) == IF (time \div RoleInterval) % 2 = 0 THEN "Flame" ELSE "Frost"

\* However the game time is cut into ticks, the attacker is the one that the
\* elapsed time alone determines, and the role timer shows the time to the
\* next change (UpdateAttackDefenseState).
RolesFollowClock ==
    gameState = "Playing" =>
        /\ attackingSide = AttackerAt(ElapsedTime)
        /\ attackRoleSwitchRemaining = RoleInterval - (ElapsedTime % RoleInterval)

\* A step that gives a side a point gives it the only one, at a contact that
\* comes in the turn of that side by the clock of the whole game.
PointByClock(side) ==
    gameState = "Playing" /\ gameState' # "Waiting" /\ sideScores'[side] # sideScores[side] =>
      LET delta == gameRemaining - gameRemaining'
          change == RoleInterval - (ElapsedTime % RoleInterval)
      IN  /\ sideScores'[side] = sideScores[side] + 1
          /\ sideScores'[Opposite(side)] = sideScores[Opposite(side)]
          /\ \E c \in PlayerCollisions(players, delta) :
                side = AttackerAt(IF Before(c, change) THEN ElapsedTime
                                                       ELSE ElapsedTime + change)

\* A tick awards at most one point, and to the side whose turn it is at the
\* instant of contact by the clock of the whole game, also when the roles
\* change inside the tick or exactly at the contact
\* (GetAttackingSideIndexAtTickTime against UpdateAttackDefenseState).
PointsFollowClock == [][\A side \in Sides : PointByClock(side)]_vars

\* Contact during a tick is never missed on the free paths: if the bodies
\* touch at any step of the tick, however fast they go, a point is awarded and
\* both stand on their spawns afterwards (the CCD of Tick, README 79-82).
ContactScores ==
    [][gameState = "Playing" /\ gameRemaining' < gameRemaining /\ gameState' # "Waiting" =>
          \A r, s \in Member :
            (/\ r # s
             /\ \E t \in 0 .. gameRemaining - gameRemaining' :
                  Touching(FreePosition(players[r], t), FreePosition(players[s], t)))
            => /\ sideScores' # sideScores
               /\ players'[r].pos = SpawnPosition(players[r].side)
               /\ players'[r].dash = 0]_vars

\* The server decides how fast a player moves: whatever input it accepts, one
\* tick takes a player at most as far as the steps still left of its dash and
\* a walk for the rest allow, unless it respawns (NormalizePlayerInput, Tick).
SpeedLimited ==
    [][gameState = "Playing" /\ sideScores' = sideScores =>
          \A s \in Member \cap DOMAIN players' :
            LET delta == gameRemaining - gameRemaining'
                dashing == Least(delta, players[s].dash)
                reach == AxisMax * (dashing * DashSpeed + (delta - dashing) * MoveSpeed)
                way == Minus(players'[s].pos, players[s].pos)
            IN  gameState' # "Waiting" => Dot(way, way) <= reach * reach]_vars

OnWall(p) == p.pos.x \in {-WallX, WallX} \/ p.pos.y \in {-WallY, WallY}

\* After a tick two players overlap only if a wall stopped one of them: the
\* contact test looks at the free path and the wall cuts it afterwards (Tick).
OverlapOnlyAtWall ==
    \A r, s \in Member :
        (r # s /\ Touching(players[r].pos, players[s].pos)) => OnWall(players[r]) \/ OnWall(players[s])

\* What README 79-82 says of the contact test: no contact is missed, so two
\* players never stand in contact when a tick is over.
NoContactMissed ==
    \A r, s \in Member : r # s => ~Touching(players[r].pos, players[s].pos)

\* Every state of the room has a snapshot the encoder accepts, so a tick never
\* goes without its broadcast (CaptureSnapshot, EncodeWorldStateSnapshotPayload).
SnapshotEncodable == EncodeWorldStateSnapshotPayload(CaptureSnapshot)

\* The room implements the abstract lobby: sides are given out, and games
\* start, stop and finish, only as Lobby allows.
Abstract == INSTANCE Lobby WITH
    sideOf <- [s \in Member |-> players[s].side], phase <- gameState

ImplementsLobby == Abstract!LobbySpec

\* A game that starts comes to an end, by its clock or because a player leaves
\* (Tick, FinishGame, StopGame).
GameEnds == gameState = "Playing" ~> gameState # "Playing"

=============================================================================
