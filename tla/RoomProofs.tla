----------------------------- MODULE RoomProofs -----------------------------
(***************************************************************************)
(* What holds of a room for every number of sessions, every size of the    *)
(* arena and every speed and duration that RoomAssumption admits.  First   *)
(* the geometry, then what each operation makes of one player, then the    *)
(* inductive invariant RoomInv and what follows from it: the types, the    *)
(* seats and the states of the game; the roles and points by the clock; no *)
(* missed contact and the overlaps that walls leave; the speed limit; the  *)
(* lobby.                                                                  *)
(***************************************************************************)
EXTENDS Room, WellFoundedInduction, TLAPS

-----------------------------------------------------------------------------
(* Geometry.                                                               *)

\* A set of numbers that is not empty has a least element.
LEMMA LeastInSet ==
  ASSUME NEW S \in SUBSET Nat, S # {}
  PROVE  Min(S) \in S /\ \A k \in S : Min(S) <= k
<1>1. PICK least \in S : \A other \in S : ~(<<other, least>> \in OpToRel(<, Nat))
  BY NatLessThanWellFounded, WFMin
<1>2. \A k \in S : least <= k
  <2> TAKE k \in S
  <2>1. k \in Nat /\ least \in Nat
    OBVIOUS
  <2>2. ~(k < least)
    BY <1>1, <2>1 DEF OpToRel
  <2> QED
    BY <2>1, <2>2
<1> QED
  BY <1>2 DEF Min

\* The greatest element of a set of numbers with a bound.
LEMMA GreatestInSet ==
  ASSUME NEW n \in Nat, NEW S \in SUBSET (0 .. n), S # {}
  PROVE  Max(S) \in S /\ \A k \in S : k <= Max(S)
<1> DEFINE gaps == {n - k : k \in S}
<1>1. gaps \in SUBSET Nat /\ gaps # {}
  <2>1. \A k \in S : k \in Nat /\ n - k \in Nat
    OBVIOUS
  <2>2. PICK k \in S : TRUE
    OBVIOUS
  <2>3. n - k \in gaps
    BY <2>2
  <2> QED
    BY <2>1, <2>3
<1>2. Min(gaps) \in gaps /\ \A gap \in gaps : Min(gaps) <= gap
  <2> HIDE DEF gaps
  <2> QED
    BY <1>1, LeastInSet
<1>3. PICK k \in S : Min(gaps) = n - k
  BY <1>2
<1>4. \A j \in S : k >= j
  <2> TAKE j \in S
  <2>1. n - j \in gaps /\ j \in Nat /\ k \in Nat
    OBVIOUS
  <2>2. n - k <= n - j
    BY <1>2, <1>3, <2>1
  <2> QED
    BY <2>1, <2>2
<1> QED
  BY <1>4 DEF Max

\* A square is never negative.
LEMMA SquareNotNegative == \A n \in Int : n * n >= 0
OBVIOUS

\* The size of a component on the unit circle is at most its share.
LEMMA ComponentSize ==
  ASSUME NEW component \in Int, NEW raw \in Vector
  PROVE  LET k == OnUnitCircle(component, raw)
         IN  /\ k \in Int
             /\ (k * k) * Dot(raw, raw) <= (AxisMax * AxisMax) * (component * component)
<1> DEFINE R == Dot(raw, raw)
           sizes == {k \in 0 .. AxisMax : k * k * R <= (AxisMax * component) * (AxisMax * component)}
           size == Max(sizes)
<1>1. AxisMax \in Nat /\ R \in Int
  BY KinematicsAssumption DEF Vector, Dot
<1> HIDE DEF R
<1>2. 0 \in sizes
  <2>1. AxisMax * component \in Int
    BY <1>1
  <2>2. 0 * 0 * R = 0 /\ (AxisMax * component) * (AxisMax * component) >= 0
    BY <1>1, <2>1, SquareNotNegative
  <2> QED
    BY <1>1, <2>2
<1>3. size \in sizes
  <2>1. sizes \in SUBSET (0 .. AxisMax)
    OBVIOUS
  <2> HIDE DEF sizes
  <2> QED
    BY <1>1, <1>2, <2>1, GreatestInSet
<1>4. size \in 0 .. AxisMax /\ size * size * R <= (AxisMax * component) * (AxisMax * component)
  BY <1>3
<1>5. OnUnitCircle(component, raw) = IF component < 0 THEN -size ELSE size
  BY DEF OnUnitCircle, R
<1> HIDE DEF sizes, size
<1> DEFINE k == OnUnitCircle(component, raw)
<1>6. size \in Int /\ k \in Int /\ k * k = size * size
  BY <1>1, <1>4, <1>5
<1>7. (AxisMax * component) * (AxisMax * component) = (AxisMax * AxisMax) * (component * component)
  BY <1>1
<1> HIDE DEF k
<1>8. (k * k) * R <= (AxisMax * AxisMax) * (component * component)
  <2>1. (k * k) * R = size * size * R
    BY <1>6
  <2> QED
    BY <1>4, <1>7, <2>1
<1> QED
  BY <1>6, <1>8 DEF k, R

\* A normalized input is a vector.
LEMMA NormalizeType ==
  ASSUME NEW raw \in Vector
  PROVE  NormalizePlayerInput(raw) \in Vector
<1>1. raw.x \in Int /\ raw.y \in Int
  BY DEF Vector
<1>2. OnUnitCircle(raw.x, raw) \in Int /\ OnUnitCircle(raw.y, raw) \in Int
  BY <1>1, ComponentSize
<1> QED
  BY <1>2 DEF NormalizePlayerInput, Vector

\* A clamped position is inside the arena.
LEMMA ClampInArena ==
  ASSUME NEW v \in Vector
  PROVE  Clamp(v) \in Arena
BY KinematicsAssumption DEF Clamp, Bounded, Greatest, Least, Vector, Arena

\* Without walls a player would be somewhere on the plane.
LEMMA FreePositionType ==
  ASSUME NEW p \in PlayerState, NEW t \in Nat
  PROVE  FreePosition(p, t) \in Vector
<1>1. /\ p.pos \in Vector /\ p.dir \in Vector /\ p.dashDir \in Vector /\ p.dash \in Nat
  BY KinematicsAssumption, RoomAssumption DEF PlayerState, Arena, Vector
<1>2. ASSUME NEW k \in Int, NEW v \in Vector, NEW w \in Vector
      PROVE  Times(k, v) \in Vector /\ Plus(v, w) \in Vector
  BY DEF Times, Plus, Vector
<1>3. /\ Least(t, p.dash) * DashSpeed \in Int
      /\ (t - Least(t, p.dash)) * MoveSpeed \in Int
  BY <1>1, KinematicsAssumption DEF Least
<1> QED
  BY <1>1, <1>2, <1>3 DEF FreePosition

-----------------------------------------------------------------------------
(* One player.  Every operation keeps the type, the side and the id of a    *)
(* player.                                                                  *)

Sound(p) == p \in PlayerState

\* q is p in another position, direction or state of its dash.
SamePlayer(q, p) == q.side = p.side /\ q.playerId = p.playerId

\* A player stays a player when one of its fields takes a value of its type.
LEMMA PlayerUpdate ==
  ASSUME NEW p \in PlayerState
  PROVE  /\ \A pos \in Arena : [p EXCEPT !.pos = pos] \in PlayerState
         /\ \A dir \in Vector : /\ [p EXCEPT !.dir = dir] \in PlayerState
                                /\ [p EXCEPT !.dashDir = dir] \in PlayerState
         /\ \A active \in BOOLEAN : [p EXCEPT !.dashInputActive = active] \in PlayerState
         /\ \A dash \in 0 .. DashDuration : [p EXCEPT !.dash = dash] \in PlayerState
         /\ \A cooldown \in 0 .. DashCooldown : [p EXCEPT !.cooldown = cooldown] \in PlayerState
         /\ \A key \in {"Up", "Down"} : [p EXCEPT !.dashKey = key] \in PlayerState
         /\ \A time \in 0 .. GameDuration : [p EXCEPT !.dashedAt = time] \in PlayerState
BY RoomAssumption DEF PlayerState, Never

\* A new player stands on the spawn of its side and does not dash.
LEMMA NewPlayerSound ==
  ASSUME NEW id \in 1 .. MaxPlayerId, NEW side \in Sides
  PROVE  /\ Sound(NewPlayer(id, side))
         /\ NewPlayer(id, side).side = side /\ NewPlayer(id, side).playerId = id
<1>1. SpawnPosition(side) \in Arena
  BY RoomAssumption, KinematicsAssumption DEF SpawnPosition, Arena
<1>2. Zero \in Vector
  BY DEF Zero, Vector
<1>3. 0 \in 0 .. DashDuration /\ 0 \in 0 .. DashCooldown
  BY RoomAssumption
<1> QED
  BY <1>1, <1>2, <1>3, RoomAssumption DEF NewPlayer, Sound, PlayerState, Never

\* The end of a dash.
LEMMA EndDashSound ==
  ASSUME NEW p, Sound(p)
  PROVE  Sound(EndDash(p)) /\ SamePlayer(EndDash(p), p)
<1>1. Zero \in Vector /\ 0 \in 0 .. DashDuration
  BY RoomAssumption DEF Zero, Vector
<1>2. EndDash(p) \in PlayerState
  BY <1>1, PlayerUpdate DEF EndDash, Sound
<1>3. EndDash(p).side = p.side /\ EndDash(p).playerId = p.playerId
  BY DEF EndDash, Sound, PlayerState
<1> QED
  BY <1>2, <1>3 DEF Sound, SamePlayer

\* A player is put back on its spawn.
LEMMA RespawnSound ==
  ASSUME NEW p, Sound(p)
  PROVE  Sound(Respawn(p)) /\ SamePlayer(Respawn(p), p)
<1>1. SpawnPosition(p.side) \in Arena
  BY RoomAssumption, KinematicsAssumption DEF SpawnPosition, Arena
<1>2. Respawn(p) \in PlayerState
  BY <1>1, PlayerUpdate DEF Respawn, Sound
<1>3. Respawn(p).side = p.side /\ Respawn(p).playerId = p.playerId
  BY DEF Respawn, Sound, PlayerState
<1> QED
  BY <1>2, <1>3 DEF Sound, SamePlayer

\* Motion during a tick.
LEMMA MovedSound ==
  ASSUME NEW p, Sound(p), NEW delta \in Nat
  PROVE  Sound(Moved(p, delta)) /\ SamePlayer(Moved(p, delta), p)
<1>1. /\ p \in PlayerState /\ p.dash \in 0 .. DashDuration
      /\ p.cooldown \in 0 .. DashCooldown
      /\ DashDuration \in Nat /\ DashCooldown \in Nat /\ DashCooldown >= DashDuration
  BY RoomAssumption DEF Sound, PlayerState
<1>2. Clamp(FreePosition(p, delta)) \in Arena
  BY <1>1, FreePositionType, ClampInArena
<1>3. /\ Greatest(0, p.dash - delta) \in 0 .. DashDuration
      /\ Greatest(0, p.cooldown - delta) \in 0 .. DashCooldown
  BY <1>1 DEF Greatest
<1>4. Moved(p, delta) \in PlayerState
  BY <1>1, <1>2, <1>3, PlayerUpdate DEF Moved
<1>5. SamePlayer(Moved(p, delta), p)
  BY <1>1 DEF Moved, PlayerState, SamePlayer
<1> QED
  BY <1>4, <1>5 DEF Sound

\* An input, with the dash it may start.
LEMMA WithInputSound ==
  ASSUME NEW p, Sound(p), NEW dir \in Vector, NEW dashInput \in BOOLEAN,
         ElapsedTime \in 0 .. GameDuration
  PROVE  /\ Sound(WithInput(p, dir, dashInput))
         /\ SamePlayer(WithInput(p, dir, dashInput), p)
<1> DEFINE steered == [p EXCEPT !.dir = dir, !.dashInputActive = dashInput,
                                !.dashKey = IF dashInput THEN "Down" ELSE "Up"]
           dashing == [steered EXCEPT !.dashDir = dir, !.dash = DashDuration,
                                      !.cooldown = DashCooldown, !.dashedAt = ElapsedTime]
<1>1. p \in PlayerState
  BY DEF Sound
<1>2. steered \in PlayerState
  BY <1>1, PlayerUpdate
<1>3. SamePlayer(steered, p)
  BY <1>1 DEF PlayerState, SamePlayer
<1>4. WithInput(p, dir, dashInput) = IF StartsDash(p, dir, dashInput) THEN dashing ELSE steered
  BY DEF WithInput
<1> HIDE DEF steered
<1>5. DashDuration \in 0 .. DashDuration /\ DashCooldown \in 0 .. DashCooldown
  BY RoomAssumption
<1>6. dashing \in PlayerState
  BY <1>2, <1>5, PlayerUpdate
<1>7. SamePlayer(dashing, p)
  BY <1>2, <1>3 DEF PlayerState, SamePlayer
<1> HIDE DEF dashing
<1> QED
  BY <1>2, <1>3, <1>4, <1>6, <1>7 DEF Sound

-----------------------------------------------------------------------------
(* The players of the room together.                                        *)

SoundRoster(roster) ==
    /\ roster \in [DOMAIN roster -> PlayerState]
    /\ \A s \in DOMAIN roster : Sound(roster[s])

SameSeats(new, old) ==
    /\ DOMAIN new = DOMAIN old
    /\ \A s \in DOMAIN old : SamePlayer(new[s], old[s])

DistinctSeats(roster, nextId) ==
    /\ \A r, s \in DOMAIN roster :
          r # s => /\ roster[r].side # roster[s].side
                   /\ roster[r].playerId # roster[s].playerId
    /\ \A s \in DOMAIN roster : nextId = 0 \/ roster[s].playerId < nextId

\* The inductive invariant.  The game state decides which of the timers and of
\* the results may be set, and the roster decides which game states there may
\* be, so neither half of it is inductive without the other; the types of the
\* positions and timers are needed for both.
RoomInv ==
    /\ TypeOK
    /\ GameStateConsistent
    /\ SeatsAndIdsDistinct

\* The invariant in terms of the roster.
LEMMA InvRoster ==
  ASSUME RoomInv
  PROVE  SoundRoster(players) /\ DistinctSeats(players, nextPlayerId)
BY DEF RoomInv, TypeOK, Member, SeatsAndIdsDistinct, SoundRoster, DistinctSeats, Sound

\* And back again, in the next state.
LEMMA RosterInv ==
  ASSUME SoundRoster(players'), DistinctSeats(players', nextPlayerId')
  PROVE  /\ players' \in [Member' -> PlayerState]
         /\ SeatsAndIdsDistinct'
BY DEF Member, SeatsAndIdsDistinct, SoundRoster, DistinctSeats, Sound

\* Who holds which side decides whether a game is possible and whether seats
\* and ids are distinct.
LEMMA SameSeatsSameGame ==
  ASSUME NEW new, NEW old, SameSeats(new, old)
  PROVE  /\ IsAttackDefenseReady(new) <=> IsAttackDefenseReady(old)
         /\ \A nextId : DistinctSeats(old, nextId) => DistinctSeats(new, nextId)
BY DEF SameSeats, SamePlayer, IsAttackDefenseReady, HasPlayerOnSide, DistinctSeats

\* A player who enters gets a free side and an id that was never used.
LEMMA JoinedRoster ==
  ASSUME RoomInv, NEW s \in Sessions, CanEnter(s)
  PROVE  /\ SoundRoster(Joined(s))
         /\ DOMAIN Joined(s) = Member \cup {s}
         /\ DistinctSeats(Joined(s), GeneratePlayerId(nextPlayerId))
         /\ GeneratePlayerId(nextPlayerId) \in 0 .. MaxPlayerId
         /\ ~IsAttackDefenseReady(players)
<1> DEFINE side == IF "Flame" \in FreeSides THEN "Flame" ELSE "Frost"
<1>1. /\ SoundRoster(players) /\ DistinctSeats(players, nextPlayerId)
      /\ nextPlayerId \in 1 .. MaxPlayerId /\ MaxPlayerId \in Nat
      /\ s \notin Member
  BY InvRoster, RoomAssumption DEF RoomInv, TypeOK, CanEnter
<1>2. /\ side \in Sides /\ \A r \in Member : players[r].side # side
      /\ ~IsAttackDefenseReady(players)
  BY DEF CanEnter, FreeSides, HasPlayerOnSide, Member, Sides, IsAttackDefenseReady
<1> HIDE DEF side
<1>3. /\ Sound(NewPlayer(nextPlayerId, side))
      /\ NewPlayer(nextPlayerId, side).side = side
      /\ NewPlayer(nextPlayerId, side).playerId = nextPlayerId
  BY <1>1, <1>2, NewPlayerSound
<1>4. /\ Joined(s) = [r \in Member \cup {s} |->
                         IF r = s THEN NewPlayer(nextPlayerId, side) ELSE players[r]]
      /\ DOMAIN Joined(s) = Member \cup {s}
  BY DEF Joined, side
<1>5. SoundRoster(Joined(s))
  BY <1>1, <1>3, <1>4 DEF SoundRoster, Sound, Member
<1>6. DistinctSeats(Joined(s), GeneratePlayerId(nextPlayerId))
  <2>1. \A r \in Member : players[r].playerId < nextPlayerId /\ players[r].playerId \in Nat
    BY <1>1, RoomAssumption DEF DistinctSeats, SoundRoster, Member, PlayerState
  <2>2. GeneratePlayerId(nextPlayerId) = 0 \/ GeneratePlayerId(nextPlayerId) = nextPlayerId + 1
    BY DEF GeneratePlayerId
  <2>3. \A r \in Member \cup {s} :
           Joined(s)[r] = IF r = s THEN NewPlayer(nextPlayerId, side) ELSE players[r]
    BY <1>4
  <2>4. ASSUME NEW q \in Member \cup {s}, NEW r \in Member \cup {s}, q # r
        PROVE  /\ Joined(s)[q].side # Joined(s)[r].side
               /\ Joined(s)[q].playerId # Joined(s)[r].playerId
    BY <1>1, <1>2, <1>3, <2>1, <2>3, <2>4 DEF DistinctSeats, Member
  <2>5. ASSUME NEW r \in Member \cup {s}
        PROVE  \/ GeneratePlayerId(nextPlayerId) = 0
               \/ Joined(s)[r].playerId < GeneratePlayerId(nextPlayerId)
    BY <1>1, <1>3, <2>1, <2>2, <2>3
  <2> QED
    BY <1>4, <2>4, <2>5 DEF DistinctSeats
<1>7. GeneratePlayerId(nextPlayerId) \in 0 .. MaxPlayerId
  BY <1>1 DEF GeneratePlayerId
<1> QED
  BY <1>2, <1>4, <1>5, <1>6, <1>7

\* A game starts with the same players, each as new.
LEMMA RestartedRoster ==
  ASSUME NEW roster, SoundRoster(roster), NEW new,
         new = [s \in DOMAIN roster |-> NewPlayer(roster[s].playerId, roster[s].side)]
  PROVE  SoundRoster(new) /\ SameSeats(new, roster)
<1>1. ASSUME NEW s \in DOMAIN roster
      PROVE  /\ Sound(NewPlayer(roster[s].playerId, roster[s].side))
             /\ SamePlayer(NewPlayer(roster[s].playerId, roster[s].side), roster[s])
  <2>1. roster[s].playerId \in 1 .. MaxPlayerId /\ roster[s].side \in Sides
    BY DEF SoundRoster, PlayerState
  <2> QED
    BY <2>1, NewPlayerSound DEF SamePlayer
<1> QED
  BY <1>1 DEF SoundRoster, SameSeats, Sound

-----------------------------------------------------------------------------
(* The tick.                                                               *)

\* A tick moves the players, respawns them after a contact and ends their
\* dashes when the game is over; it never changes who they are.
LEMMA TickedRoster ==
  ASSUME RoomInv, NEW delta \in Nat, NEW roster, NEW contact \in BOOLEAN,
         LET moved == [s \in Member |-> Moved(players[s], delta)]
         IN  roster = IF contact THEN [s \in Member |-> Respawn(EndDash(moved[s]))] ELSE moved
  PROVE  /\ SoundRoster(roster) /\ SameSeats(roster, players)
         /\ SoundRoster([s \in DOMAIN roster |-> EndDash(roster[s])])
         /\ SameSeats([s \in DOMAIN roster |-> EndDash(roster[s])], players)
<1> DEFINE moved == [s \in Member |-> Moved(players[s], delta)]
<1>1. SoundRoster(players)
  BY InvRoster
<1>2. \A s \in Member : Sound(moved[s]) /\ SamePlayer(moved[s], players[s])
  BY <1>1, MovedSound DEF SoundRoster, Member
<1> HIDE DEF moved
<1>3. ASSUME NEW s \in Member
      PROVE  /\ Sound(Respawn(EndDash(moved[s])))
             /\ SamePlayer(Respawn(EndDash(moved[s])), players[s])
  <2>1. Sound(EndDash(moved[s])) /\ SamePlayer(EndDash(moved[s]), players[s])
    BY <1>2, EndDashSound DEF SamePlayer
  <2> QED
    BY <2>1, RespawnSound DEF SamePlayer
<1>4. /\ DOMAIN roster = Member
      /\ roster = [s \in Member |-> roster[s]]
      /\ \A s \in Member : Sound(roster[s]) /\ SamePlayer(roster[s], players[s])
  <2>1. roster = IF contact THEN [s \in Member |-> Respawn(EndDash(moved[s]))] ELSE moved
    BY DEF moved
  <2>2. moved = [s \in Member |-> moved[s]] /\ DOMAIN moved = Member
    BY DEF moved
  <2>3. CASE contact
    BY <1>3, <2>1, <2>3
  <2>4. CASE ~contact
    BY <1>2, <2>1, <2>2, <2>4
  <2> QED
    BY <2>3, <2>4
<1>5. SoundRoster(roster) /\ SameSeats(roster, players)
  BY <1>4 DEF SoundRoster, SameSeats, Sound, Member
<1>6. \A s \in Member : /\ Sound(EndDash(roster[s]))
                        /\ SamePlayer(EndDash(roster[s]), players[s])
  BY <1>4, EndDashSound DEF SamePlayer
<1>7. /\ SoundRoster([s \in DOMAIN roster |-> EndDash(roster[s])])
      /\ SameSeats([s \in DOMAIN roster |-> EndDash(roster[s])], players)
  BY <1>4, <1>6 DEF SoundRoster, SameSeats, Sound, Member
<1> QED
  BY <1>5, <1>7

\* A tick is no longer than a role interval, so the role timer passes at most
\* one change and is left with some time, at most a whole interval.
LEMMA RoleTimer ==
  ASSUME NEW remaining \in Int, remaining > -RoleInterval, remaining <= RoleInterval
  PROVE  remaining + RoleSwitches(remaining) * RoleInterval \in 1 .. RoleInterval
<1>1. RoleInterval \in Nat \ {0}
  BY RoomAssumption
<1>2. CASE remaining > 0
  BY <1>1, <1>2 DEF RoleSwitches
<1>3. CASE remaining <= 0
  <2>1. (-remaining) \div RoleInterval = 0
    BY <1>1, <1>3
  <2>2. RoleSwitches(remaining) = 1
    BY <1>3, <2>1 DEF RoleSwitches
  <2> QED
    BY <1>1, <1>3, <2>2
<1> QED
  BY <1>2, <1>3

\* What a tick does to the state of the game: it goes on with time on both
\* timers, or it is over.
LEMMA TickEffect ==
  ASSUME RoomInv, NEW tickDelta \in 1 .. MaxTickDelta, Tick(tickDelta)
  PROVE  /\ SoundRoster(players') /\ SameSeats(players', players)
         /\ gameState = "Playing" /\ nextPlayerId' = nextPlayerId
         /\ sideScores' \in [Sides -> Nat]
         /\ gameRemaining' \in 0 .. GameDuration
         /\ \/ /\ gameState' = "Playing" /\ gameRemaining' > 0
               /\ winningSide' = winningSide
               /\ attackingSide' \in Sides
               /\ attackRoleSwitchRemaining' \in 1 .. RoleInterval
            \/ /\ gameState' = "Finished" /\ gameRemaining' = 0
               /\ winningSide' = Leader(sideScores')
               /\ attackingSide' = NoSide
               /\ attackRoleSwitchRemaining' = 0
<1>1. /\ gameRemaining \in 1 .. GameDuration /\ attackRoleSwitchRemaining \in 1 .. RoleInterval
      /\ attackingSide \in Sides /\ gameState = "Playing"
      /\ sideScores \in [Sides -> Nat]
      /\ MaxTickDelta \in Nat /\ MaxTickDelta <= RoleInterval
      /\ RoleInterval \in Nat \ {0} /\ GameDuration \in Nat
  BY RoomAssumption DEF Tick, RoomInv, TypeOK, GameStateConsistent
<1> DEFINE delta == Least(tickDelta, gameRemaining)
           collisions == PlayerCollisions(players, delta)
           moved == [s \in Member |-> Moved(players[s], delta)]
           roster == IF collisions = {} THEN moved
                     ELSE [s \in Member |-> Respawn(EndDash(moved[s]))]
<1>2. delta \in 1 .. MaxTickDelta /\ delta <= gameRemaining
  BY <1>1 DEF Least
<1>3. /\ sideScores' = [side \in Sides |-> sideScores[side] +
                IF \E c \in collisions : GetAttackingSideAtTickTime(c) = side THEN 1 ELSE 0]
      /\ gameRemaining' = gameRemaining - delta
      /\ nextPlayerId' = nextPlayerId
      /\ IF gameRemaining' = 0
         THEN FinishGame(roster)
         ELSE /\ players' = roster
              /\ UpdateAttackDefenseState(delta)
              /\ UNCHANGED <<gameState, winningSide>>
  BY DEF Tick
<1>4. /\ SoundRoster(roster) /\ SameSeats(roster, players)
      /\ SoundRoster([s \in DOMAIN roster |-> EndDash(roster[s])])
      /\ SameSeats([s \in DOMAIN roster |-> EndDash(roster[s])], players)
  <2>1. roster = IF collisions # {} THEN [s \in Member |-> Respawn(EndDash(moved[s]))] ELSE moved
    OBVIOUS
  <2>2. delta \in Nat
    BY <1>2
  <2> HIDE DEF delta, collisions, roster
  <2> QED
    BY <2>1, <2>2, TickedRoster
<1> HIDE DEF delta, collisions, moved, roster
<1>5. sideScores' \in [Sides -> Nat]
  BY <1>1, <1>3
<1>6. gameRemaining' \in 0 .. GameDuration
  BY <1>1, <1>2, <1>3
<1>7. CASE gameRemaining' = 0
  BY <1>1, <1>3, <1>4, <1>5, <1>6, <1>7 DEF FinishGame
<1>8. CASE gameRemaining' # 0
  <2>1. attackRoleSwitchRemaining' \in 1 .. RoleInterval
    <3> DEFINE remaining == attackRoleSwitchRemaining - delta
    <3>1. remaining \in Int /\ remaining > -RoleInterval /\ remaining <= RoleInterval
      BY <1>1, <1>2
    <3>2. attackRoleSwitchRemaining' = remaining + RoleSwitches(remaining) * RoleInterval
      BY <1>3, <1>8 DEF UpdateAttackDefenseState
    <3> HIDE DEF remaining
    <3> QED
      BY <3>1, <3>2, RoleTimer
  <2>2. attackingSide' \in Sides
    BY <1>1, <1>3, <1>8 DEF UpdateAttackDefenseState, Opposite, Sides
  <2> QED
    BY <1>1, <1>3, <1>4, <1>5, <1>6, <1>8, <2>1, <2>2
<1> QED
  BY <1>7, <1>8

-----------------------------------------------------------------------------
(* The invariant.                                                          *)

\* The empty room satisfies the invariant.
LEMMA RoomInvInit == Init => RoomInv
<1> SUFFICES ASSUME Init PROVE RoomInv
  OBVIOUS
<1>1. Member = {} /\ players \in [Member -> PlayerState]
  BY DEF Init, Member
<1>2. TypeOK
  BY <1>1, RoomAssumption DEF Init, TypeOK
<1>3. ~IsAttackDefenseReady(players)
  BY <1>1 DEF Member, IsAttackDefenseReady, HasPlayerOnSide, Sides
<1>4. GameStateConsistent
  BY <1>3 DEF Init, GameStateConsistent, NoSide
<1>5. SeatsAndIdsDistinct
  BY <1>1 DEF SeatsAndIdsDistinct
<1> QED
  BY <1>2, <1>4, <1>5 DEF RoomInv

\* A step that keeps the game and the seats keeps the invariant.
LEMMA SameGameInv ==
  ASSUME RoomInv, UNCHANGED gameVars, SoundRoster(players'),
         DistinctSeats(players', nextPlayerId'), nextPlayerId' \in 0 .. MaxPlayerId,
         Member' \subseteq Sessions,
         IsAttackDefenseReady(players') <=> IsAttackDefenseReady(players)
  PROVE  RoomInv'
BY RosterInv DEF RoomInv, TypeOK, GameStateConsistent, gameVars, clockVars

\* A game that stops leaves a room that waits, without points or winner.
LEMMA StopGameInv ==
  ASSUME RoomInv, StopGame, SoundRoster(players'),
         DistinctSeats(players', nextPlayerId'), nextPlayerId' \in 0 .. MaxPlayerId,
         Member' \subseteq Sessions, ~IsAttackDefenseReady(players')
  PROVE  RoomInv'
<1>1. TypeOK'
  BY RosterInv, RoomAssumption DEF RoomInv, TypeOK, StopGame
<1>2. GameStateConsistent'
  BY DEF GameStateConsistent, StopGame, NoSide
<1> QED
  BY <1>1, <1>2, RosterInv DEF RoomInv

\* Enter preserves the invariant.
LEMMA EnterInv ==
  ASSUME RoomInv, NEW s \in Sessions, Enter(s)
  PROVE  RoomInv'
<1>1. /\ SoundRoster(Joined(s)) /\ DOMAIN Joined(s) = Member \cup {s}
      /\ DistinctSeats(Joined(s), nextPlayerId')
      /\ nextPlayerId' \in 0 .. MaxPlayerId
      /\ ~IsAttackDefenseReady(players) /\ gameState = "Waiting"
      /\ Member \subseteq Sessions
  BY JoinedRoster DEF Enter, RoomInv, TypeOK, GameStateConsistent
<1>2. CASE IsAttackDefenseReady(Joined(s))
  <2>1. StartGame(Joined(s))
    BY <1>1, <1>2 DEF Enter
  <2>2. SoundRoster(players') /\ SameSeats(players', Joined(s))
    BY <1>1, <2>1, RestartedRoster DEF StartGame
  <2>3. /\ IsAttackDefenseReady(players') /\ DistinctSeats(players', nextPlayerId')
        /\ Member' \subseteq Sessions
    BY <1>1, <1>2, <2>2, SameSeatsSameGame DEF SameSeats, Member
  <2>4. TypeOK'
    BY <1>1, <2>1, <2>2, <2>3, RosterInv, RoomAssumption DEF TypeOK, StartGame, Sides
  <2>5. GameStateConsistent'
    BY <2>1, <2>3, RoomAssumption DEF GameStateConsistent, StartGame, NoSide
  <2> QED
    BY <2>2, <2>3, <2>4, <2>5, RosterInv DEF RoomInv
<1>3. CASE ~IsAttackDefenseReady(Joined(s))
  <2>1. players' = Joined(s) /\ UNCHANGED gameVars
    BY <1>3 DEF Enter
  <2> QED
    BY <1>1, <1>3, <2>1, SameGameInv DEF Member
<1> QED
  BY <1>2, <1>3

\* Leave preserves the invariant.
LEMMA LeaveInv ==
  ASSUME RoomInv, NEW s \in Sessions, Leave(s)
  PROVE  RoomInv'
<1>1. /\ SoundRoster(players) /\ DistinctSeats(players, nextPlayerId)
      /\ Member \subseteq Sessions /\ nextPlayerId \in 0 .. MaxPlayerId
      /\ players' = [r \in Member \ {s} |-> players[r]]
      /\ nextPlayerId' = nextPlayerId
  BY InvRoster DEF Leave, RoomInv, TypeOK
<1>2. Member' = Member \ {s} /\ \A r \in Member' : r \in Member /\ players'[r] = players[r]
  BY <1>1 DEF Member
<1>3. /\ SoundRoster(players') /\ DistinctSeats(players', nextPlayerId')
      /\ Member' \subseteq Sessions
  <2>1. SoundRoster(players')
    BY <1>1, <1>2 DEF SoundRoster, Sound, Member
  <2>2. DistinctSeats(players', nextPlayerId')
    BY <1>1, <1>2 DEF DistinctSeats, Member
  <2> QED
    BY <1>1, <1>2, <2>1, <2>2
<1>4. IsAttackDefenseReady(players') => IsAttackDefenseReady(players)
  BY <1>2 DEF IsAttackDefenseReady, HasPlayerOnSide, Member
<1>5. CASE IsAttackDefenseReady(players')
  BY <1>1, <1>3, <1>4, <1>5, SameGameInv DEF Leave
<1>6. CASE ~IsAttackDefenseReady(players')
  BY <1>1, <1>3, <1>6, StopGameInv DEF Leave
<1> QED
  BY <1>5, <1>6

\* ApplyPlayerInput preserves the invariant.
LEMMA InputInv ==
  ASSUME RoomInv, NEW s \in Sessions, NEW axes \in InputAxes, NEW dashInput \in BOOLEAN,
         ApplyPlayerInput(s, axes, dashInput)
  PROVE  RoomInv'
<1> DEFINE steered == WithInput(players[s], NormalizePlayerInput(axes), dashInput)
<1>1. /\ SoundRoster(players) /\ DistinctSeats(players, nextPlayerId)
      /\ Member \subseteq Sessions /\ nextPlayerId \in 0 .. MaxPlayerId
      /\ s \in Member /\ Sound(players[s]) /\ ElapsedTime \in 0 .. GameDuration
  BY InvRoster, RoomAssumption
     DEF ApplyPlayerInput, RoomInv, TypeOK, SoundRoster, Member, ElapsedTime
<1>2. NormalizePlayerInput(axes) \in Vector
  <2>1. axes \in Vector
    BY RoomAssumption, KinematicsAssumption DEF Vector
  <2> QED
    BY <2>1, NormalizeType
<1>3. Sound(steered) /\ SamePlayer(steered, players[s])
  BY <1>1, <1>2, WithInputSound
<1> HIDE DEF steered
<1>4. /\ players' = [players EXCEPT ![s] = steered]
      /\ UNCHANGED <<nextPlayerId, gameVars>>
  BY DEF ApplyPlayerInput, steered
<1>5. SoundRoster(players') /\ SameSeats(players', players)
  BY <1>1, <1>3, <1>4 DEF SoundRoster, SameSeats, SamePlayer, Sound, Member
<1>6. /\ IsAttackDefenseReady(players') <=> IsAttackDefenseReady(players)
      /\ DistinctSeats(players', nextPlayerId')
      /\ Member' = Member
  BY <1>1, <1>4, <1>5, SameSeatsSameGame DEF SameSeats, Member
<1> QED
  BY <1>1, <1>4, <1>5, <1>6, SameGameInv

\* Tick preserves the invariant.
LEMMA TickInv ==
  ASSUME RoomInv, NEW tickDelta \in 1 .. MaxTickDelta, Tick(tickDelta)
  PROVE  RoomInv'
<1>1. /\ DistinctSeats(players, nextPlayerId) /\ Member \subseteq Sessions
      /\ nextPlayerId \in 0 .. MaxPlayerId
      /\ GameStateConsistent /\ RoleInterval \in Nat
      /\ winningSide \in Sides \cup {NoSide}
  BY InvRoster, RoomAssumption DEF RoomInv, TypeOK
<1>2. /\ SoundRoster(players') /\ SameSeats(players', players)
      /\ gameState = "Playing" /\ nextPlayerId' = nextPlayerId
      /\ sideScores' \in [Sides -> Nat]
      /\ gameRemaining' \in 0 .. GameDuration
      /\ \/ /\ gameState' = "Playing" /\ gameRemaining' > 0
            /\ winningSide' = winningSide
            /\ attackingSide' \in Sides
            /\ attackRoleSwitchRemaining' \in 1 .. RoleInterval
         \/ /\ gameState' = "Finished" /\ gameRemaining' = 0
            /\ winningSide' = Leader(sideScores')
            /\ attackingSide' = NoSide
            /\ attackRoleSwitchRemaining' = 0
  BY TickEffect
<1>3. /\ IsAttackDefenseReady(players') /\ DistinctSeats(players', nextPlayerId')
      /\ Member' = Member
  BY <1>1, <1>2, SameSeatsSameGame DEF SameSeats, Member, GameStateConsistent
<1>4. Leader(sideScores') \in Sides \cup {NoSide}
  BY DEF Leader, Sides
<1>5. TypeOK'
  BY <1>1, <1>2, <1>3, <1>4, RosterInv DEF TypeOK
<1>6. GameStateConsistent'
  BY <1>1, <1>2, <1>3 DEF GameStateConsistent, Sides, NoSide
<1> QED
  BY <1>2, <1>3, <1>5, <1>6, RosterInv DEF RoomInv

\* Every step of the room preserves the invariant.
LEMMA RoomInvNext == RoomInv /\ [Next]_vars => RoomInv'
<1> SUFFICES ASSUME RoomInv, [Next]_vars PROVE RoomInv'
  OBVIOUS
<1>1. CASE UNCHANGED vars
  BY <1>1 DEF vars, gameVars, clockVars, RoomInv, TypeOK, GameStateConsistent,
              SeatsAndIdsDistinct, Member
<1> QED
  BY <1>1, EnterInv, LeaveInv, InputInv, TickInv DEF Next

-----------------------------------------------------------------------------
(* The theorems.                                                           *)

\* Every behaviour satisfies the inductive invariant.
THEOREM RoomInvariant == Spec => []RoomInv
<1> QED
  BY RoomInvInit, RoomInvNext, PTL DEF Spec

\* Every variable keeps its type: positions stay inside the arena, timers and
\* cooldowns inside their ranges, ids inside the id space (TypeOK of Room).
THEOREM TypeCorrect == Spec => []TypeOK
<1>1. RoomInv => TypeOK
  BY DEF RoomInv
<1> QED
  BY <1>1, RoomInvariant, PTL

\* However sessions enter and leave, no two players share a side or an id, and
\* no id is given out twice (Room::Enter, GeneratePlayerId).
THEOREM SeatsDistinct == Spec => []SeatsAndIdsDistinct
<1>1. RoomInv => SeatsAndIdsDistinct
  BY DEF RoomInv
<1> QED
  BY <1>1, RoomInvariant, PTL

\* The game state, the roster, the attacker, both timers, the scores and the
\* result agree in every reachable state (StartGame, StopGame, FinishGame).
THEOREM GameConsistent == Spec => []GameStateConsistent
<1>1. RoomInv => GameStateConsistent
  BY DEF RoomInv
<1> QED
  BY <1>1, RoomInvariant, PTL

\* Every reachable state has a snapshot that the encoder accepts, so a tick
\* never goes without its broadcast (EncodeWorldStateSnapshotPayload).
THEOREM AlwaysEncodable == Spec => []SnapshotEncodable
<1>1. RoomInv => SnapshotEncodable
  <2> SUFFICES ASSUME RoomInv PROVE SnapshotEncodable
    OBVIOUS
  <2>1. \A s \in Member : players[s].playerId \in 1 .. MaxPlayerId /\ players[s].side \in Sides
    BY DEF RoomInv, TypeOK, PlayerState
  <2>2. \A p \in CaptureSnapshot.players : p.playerId # 0 /\ p.side \in Sides
    BY <2>1, RoomAssumption DEF CaptureSnapshot, PlayerStateSnapshot
  <2> QED
    BY <2>2, RoomAssumption
       DEF RoomInv, TypeOK, CaptureSnapshot, SnapshotEncodable, EncodeWorldStateSnapshotPayload
<1> QED
  BY <1>1, RoomInvariant, PTL

-----------------------------------------------------------------------------
(* The role clock.                                                         *)

\* A number that lies r past q whole intervals has quotient q and remainder r.
LEMMA Quotient ==
  ASSUME NEW n \in Nat, NEW R \in Nat \ {0}, NEW q \in Nat, NEW r \in 0 .. R - 1,
         n = q * R + r
  PROVE  n \div R = q /\ n % R = r
<1> DEFINE p == n \div R
           m == n % R
<1>1. p \in Int /\ m \in 0 .. R - 1 /\ n = p * R + m
  OBVIOUS
<1> HIDE DEF p, m
<1>2. p = q
  <2>1. CASE p < q
    <3>1. p + 1 <= q
      BY <1>1, <2>1
    <3>2. (p + 1) * R <= q * R
      BY <1>1, <3>1
    <3>3. p * R + R <= q * R
      BY <1>1, <3>2
    <3> QED
      BY <1>1, <3>3
  <2>2. CASE q < p
    <3>1. q + 1 <= p
      BY <1>1, <2>2
    <3>2. (q + 1) * R <= p * R
      BY <1>1, <3>1
    <3>3. q * R + R <= p * R
      BY <1>1, <3>2
    <3> QED
      BY <1>1, <3>3
  <2> QED
    BY <1>1, <2>1, <2>2
<1>3. m = r
  BY <1>1, <1>2
<1> QED
  BY <1>2, <1>3 DEF p, m

\* What becomes of quotient and remainder when at most one interval passes.
LEMMA IntervalPassed ==
  ASSUME NEW n \in Nat, NEW R \in Nat \ {0}, NEW d \in Nat, d <= R
  PROVE  IF (n % R) + d < R
         THEN (n + d) \div R = n \div R /\ (n + d) % R = (n % R) + d
         ELSE (n + d) \div R = (n \div R) + 1 /\ (n + d) % R = (n % R) + d - R
<1> DEFINE q == n \div R
           r == n % R
<1>1. q \in Nat /\ r \in 0 .. R - 1 /\ n = q * R + r
  OBVIOUS
<1> HIDE DEF q, r
<1>2. CASE r + d < R
  <2>1. n + d \in Nat /\ r + d \in 0 .. R - 1 /\ n + d = q * R + (r + d)
    BY <1>1, <1>2
  <2>2. (n + d) \div R = q /\ (n + d) % R = r + d
    BY <1>1, <2>1, Quotient
  <2> QED
    BY <1>2, <2>2 DEF q, r
<1>3. CASE ~(r + d < R)
  <2>1. n + d \in Nat /\ q + 1 \in Nat /\ r + d - R \in 0 .. R - 1
    BY <1>1, <1>3
  <2>2. (q + 1) * R = q * R + R
    BY <1>1
  <2>3. n + d = (q + 1) * R + (r + d - R)
    BY <1>1, <2>2
  <2>4. (n + d) \div R = q + 1 /\ (n + d) % R = r + d - R
    BY <2>1, <2>3, Quotient
  <2> QED
    BY <1>3, <2>4 DEF q, r
<1> QED
  BY <1>2, <1>3 DEF r

\* The attacker of the next interval is the opponent.
LEMMA NextAttacker ==
  ASSUME NEW m \in Nat, NEW n \in Nat
  PROVE  /\ m \div RoleInterval = n \div RoleInterval => AttackerAt(m) = AttackerAt(n)
         /\ m \div RoleInterval = (n \div RoleInterval) + 1 => AttackerAt(m) = Opposite(AttackerAt(n))
<1> DEFINE q == n \div RoleInterval
<1>1. q \in Nat
  BY RoomAssumption
<1> HIDE DEF q
<1>2. q % 2 = 0 <=> (q + 1) % 2 # 0
  BY <1>1
<1> QED
  BY <1>2 DEF q, AttackerAt, Opposite

\* Where the role clock stands, and what a tick that does not end the game
\* makes of it: the timer and the attacker move as the elapsed time says.
LEMMA ClockAfterTick ==
  ASSUME RoomInv, RolesFollowClock, gameState = "Playing",
         NEW delta \in 1 .. MaxTickDelta, delta <= gameRemaining,
         gameRemaining' = gameRemaining - delta, UpdateAttackDefenseState(delta)
  PROVE  /\ attackingSide' = AttackerAt(ElapsedTime')
         /\ attackRoleSwitchRemaining' = RoleInterval - (ElapsedTime' % RoleInterval)
<1> DEFINE E == ElapsedTime
           R == RoleInterval
           r == E % R
<1>1. /\ R \in Nat \ {0} /\ delta \in Nat /\ delta <= R
      /\ E \in Nat /\ ElapsedTime' = E + delta
      /\ attackRoleSwitchRemaining = R - r /\ attackingSide = AttackerAt(E)
  BY RoomAssumption DEF RoomInv, TypeOK, RolesFollowClock, ElapsedTime
<1>2. r \in 0 .. R - 1
  BY <1>1
<1>3. IF r + delta < R
      THEN (E + delta) \div R = E \div R /\ (E + delta) % R = r + delta
      ELSE (E + delta) \div R = (E \div R) + 1 /\ (E + delta) % R = r + delta - R
  BY <1>1, IntervalPassed
<1>4. E + delta \in Nat
  BY <1>1
<1> HIDE DEF E, r
<1>5. CASE r + delta < R
  <2>1. R - r - delta > 0
    BY <1>1, <1>2, <1>5
  <2>2. RoleSwitches(attackRoleSwitchRemaining - delta) = 0
    BY <1>1, <2>1 DEF RoleSwitches
  <2>3. attackingSide' = attackingSide /\ attackRoleSwitchRemaining' = R - r - delta + 0 * R
    BY <1>1, <2>2 DEF UpdateAttackDefenseState
  <2>4. AttackerAt(E + delta) = AttackerAt(E)
    BY <1>1, <1>3, <1>4, <1>5, NextAttacker
  <2> QED
    BY <1>1, <1>2, <1>3, <1>5, <2>3, <2>4
<1>6. CASE ~(r + delta < R)
  <2>1. R - r - delta <= 0 /\ R - r - delta > -R
    BY <1>1, <1>2, <1>6
  <2>2. RoleSwitches(R - r - delta) = 1
    <3> DEFINE past == R - r - delta
    <3>1. past \in Int /\ past <= 0 /\ past > -R
      BY <1>1, <1>2, <2>1
    <3> HIDE DEF past
    <3>2. (-past) \div R = 0
      BY <1>1, <3>1
    <3>3. RoleSwitches(past) = 1
      BY <3>1, <3>2 DEF RoleSwitches
    <3> QED
      BY <3>3 DEF past
  <2>3. /\ attackingSide' = Opposite(attackingSide)
        /\ attackRoleSwitchRemaining' = R - r - delta + 1 * R
    BY <1>1, <2>2 DEF UpdateAttackDefenseState
  <2>4. AttackerAt(E + delta) = Opposite(AttackerAt(E))
    BY <1>1, <1>3, <1>4, <1>6, NextAttacker
  <2> QED
    BY <1>1, <1>2, <1>3, <1>6, <2>3, <2>4
<1> QED
  BY <1>5, <1>6

\* The clock stands at zero when a game starts.
LEMMA ClockAtStart ==
  /\ AttackerAt(0) = "Flame"
  /\ RoleInterval - (0 % RoleInterval) = RoleInterval
<1>1. RoleInterval \in Nat \ {0}
  BY RoomAssumption
<1>2. 0 \div RoleInterval = 0 /\ 0 % RoleInterval = 0
  BY <1>1, Quotient
<1> QED
  BY <1>1, <1>2 DEF AttackerAt

\* The role clock is inductive relative to RoomInv.
LEMMA ClockNext == RoomInv /\ RolesFollowClock /\ [Next]_vars => RolesFollowClock'
<1> SUFFICES ASSUME RoomInv, RolesFollowClock, [Next]_vars, gameState' = "Playing"
             PROVE  /\ attackingSide' = AttackerAt(ElapsedTime')
                    /\ attackRoleSwitchRemaining' = RoleInterval - (ElapsedTime' % RoleInterval)
  BY DEF RolesFollowClock
<1>1. CASE UNCHANGED gameVars
  BY <1>1 DEF gameVars, clockVars, RolesFollowClock, ElapsedTime, AttackerAt
<1>2. CASE \E roster : StartGame(roster)
  <2>1. /\ attackingSide' = "Flame" /\ attackRoleSwitchRemaining' = RoleInterval
        /\ gameRemaining' = GameDuration /\ GameDuration \in Nat
    BY <1>2, RoomAssumption DEF StartGame
  <2>2. ElapsedTime' = 0
    BY <2>1 DEF ElapsedTime
  <2> QED
    BY <2>1, <2>2, ClockAtStart
<1>3. ASSUME NEW tickDelta \in 1 .. MaxTickDelta, Tick(tickDelta)
      PROVE  /\ attackingSide' = AttackerAt(ElapsedTime')
             /\ attackRoleSwitchRemaining' = RoleInterval - (ElapsedTime' % RoleInterval)
  <2> DEFINE delta == Least(tickDelta, gameRemaining)
  <2>1. gameState = "Playing" /\ gameRemaining \in Nat \ {0} /\ MaxTickDelta \in Nat
    BY <1>3, RoomAssumption DEF Tick, RoomInv, TypeOK, GameStateConsistent
  <2>2. delta \in 1 .. MaxTickDelta /\ delta <= gameRemaining
    BY <2>1 DEF Least
  <2>3. gameRemaining' = gameRemaining - delta /\ UpdateAttackDefenseState(delta)
    <3>1. gameRemaining' # 0
      BY <1>3, TickEffect
    <3> QED
      BY <1>3, <3>1 DEF Tick
  <2> HIDE DEF delta
  <2> QED
    BY <2>1, <2>2, <2>3, ClockAfterTick
<1>4. CASE UNCHANGED vars
  BY <1>1, <1>4 DEF vars
<1>5. ASSUME NEW s \in Sessions, Enter(s)
      PROVE  UNCHANGED gameVars \/ \E roster : StartGame(roster)
  BY <1>5 DEF Enter
<1>6. ASSUME NEW s \in Sessions, Leave(s)
      PROVE  UNCHANGED gameVars
  BY <1>6 DEF Leave, StopGame
<1>7. ASSUME NEW s \in Sessions, NEW axes \in InputAxes, NEW dashInput \in BOOLEAN,
             ApplyPlayerInput(s, axes, dashInput)
      PROVE  UNCHANGED gameVars
  BY <1>7 DEF ApplyPlayerInput
<1> QED
  BY <1>1, <1>2, <1>3, <1>4, <1>5, <1>6, <1>7 DEF Next

\* However the game is cut into ticks, the attacker and the role timer are the
\* ones that the elapsed time alone determines (UpdateAttackDefenseState).
THEOREM RolesAreClock == Spec => []RolesFollowClock
<1>1. Init => RolesFollowClock
  BY DEF Init, RolesFollowClock
<1>2. RoomInv /\ RolesFollowClock /\ [Next]_vars => RolesFollowClock'
  BY ClockNext
<1> QED
  BY <1>1, <1>2, RoomInvariant, PTL DEF Spec

-----------------------------------------------------------------------------
(* The dash clock.  What a player has left of a dash follows from the time  *)
(* at which the dash began; a game that starts knows of none.               *)

\* A new player has not dashed.
LEMMA NewPlayerByClock ==
  ASSUME NEW id, NEW side, NEW now
  PROVE  /\ DashByClock(NewPlayer(id, side), now)
         /\ NewPlayer(id, side).dash = 0 /\ NewPlayer(id, side).dashedAt = Never
BY DEF DashByClock, NewPlayer, Never

\* Time passes.
LEMMA MovedByClock ==
  ASSUME NEW p \in PlayerState, NEW now \in Nat, NEW delta \in Nat, DashByClock(p, now)
  PROVE  DashByClock(Moved(p, delta), now + delta)
<1> DEFINE q == Moved(p, delta)
<1>1. /\ q.dash = Greatest(0, p.dash - delta) /\ q.cooldown = Greatest(0, p.cooldown - delta)
      /\ q.dashedAt = p.dashedAt /\ q.dashKey = p.dashKey
      /\ q.dashInputActive = p.dashInputActive /\ q.dir = p.dir
  BY DEF Moved, PlayerState
<1>2. /\ p.dash \in Nat /\ p.cooldown \in Nat /\ p.dashedAt \in Int
      /\ DashDuration \in Nat /\ DashCooldown \in Nat
  BY RoomAssumption DEF PlayerState, Never
<1> HIDE DEF q
<1>3. /\ q.dashKey = "Unknown" => q.dir = Zero /\ q.dashedAt = Never
      /\ q.dashInputActive <=> q.dashKey = "Down"
  BY <1>1 DEF DashByClock
<1>4. CASE p.dashedAt = Never
  <2>1. q.dash = 0 /\ q.cooldown = 0
    BY <1>1, <1>2, <1>4 DEF DashByClock, Greatest
  <2>2. DashByClock(q, now + delta)
    BY <1>1, <1>3, <1>4, <2>1 DEF DashByClock
  <2> QED
    BY <2>2 DEF q
<1>5. CASE p.dashedAt # Never
  <2> DEFINE since == now - p.dashedAt
  <2>1. /\ since \in Nat /\ p.cooldown = Greatest(0, DashCooldown - since)
        /\ p.dash \in {0, Greatest(0, DashDuration - since)}
    BY <1>2, <1>5 DEF DashByClock
  <2>2. (now + delta) - q.dashedAt = since + delta
    BY <1>1, <1>2
  <2> HIDE DEF since
  <2>3. /\ q.cooldown = Greatest(0, DashCooldown - (since + delta))
        /\ q.dash \in {0, Greatest(0, DashDuration - (since + delta))}
    BY <1>1, <1>2, <2>1 DEF Greatest
  <2>4. since + delta >= 0
    BY <2>1
  <2>5. /\ (now + delta) - q.dashedAt >= 0
        /\ q.cooldown = Greatest(0, DashCooldown - ((now + delta) - q.dashedAt))
        /\ q.dash \in {0, Greatest(0, DashDuration - ((now + delta) - q.dashedAt))}
    BY <2>2, <2>3, <2>4
  <2>6. q.dashedAt # Never
    BY <1>1, <1>5
  <2>7. DashByClock(q, now + delta)
    BY <1>3, <2>5, <2>6 DEF DashByClock
  <2> QED
    BY <2>7 DEF q
<1> QED
  BY <1>4, <1>5

\* A contact, or the end of the game, cuts a dash off; its cooldown goes on.
LEMMA StoppedByClock ==
  ASSUME NEW p \in PlayerState, NEW now, DashByClock(p, now)
  PROVE  /\ DashByClock(EndDash(p), now) /\ DashByClock(Respawn(p), now)
         /\ EndDash(p).dash = 0 /\ Respawn(p).dash = p.dash /\ Respawn(p).dashDir = p.dashDir
<1>1. /\ EndDash(p).dash = 0 /\ EndDash(p).cooldown = p.cooldown
      /\ EndDash(p).dashedAt = p.dashedAt /\ EndDash(p).dashKey = p.dashKey
      /\ EndDash(p).dashInputActive = p.dashInputActive /\ EndDash(p).dir = p.dir
  BY DEF EndDash, PlayerState
<1>2. /\ Respawn(p).dash = p.dash /\ Respawn(p).cooldown = p.cooldown
      /\ Respawn(p).dashedAt = p.dashedAt /\ Respawn(p).dashKey = p.dashKey
      /\ Respawn(p).dashInputActive = p.dashInputActive /\ Respawn(p).dir = p.dir
      /\ Respawn(p).dashDir = p.dashDir
  BY DEF Respawn, PlayerState
<1> QED
  BY <1>1, <1>2 DEF DashByClock

\* An input starts a dash only when the clock allows it, on a press of its own.
LEMMA WithInputByClock ==
  ASSUME NEW p \in PlayerState, NEW dir \in Vector, NEW dashInput \in BOOLEAN,
         ElapsedTime \in Nat, gameState = "Playing" => DashByClock(p, ElapsedTime)
  PROVE  LET q == WithInput(p, dir, dashInput)
         IN  /\ gameState = "Playing" => DashByClock(q, ElapsedTime)
             /\ q.dash # p.dash \/ q.dashDir # p.dashDir =>
                   /\ gameState = "Playing"
                   /\ p.dashedAt # Never => ElapsedTime - p.dashedAt >= DashCooldown
                   /\ p.dashKey # "Down"
                   /\ q.dashDir # Zero
<1> DEFINE q == WithInput(p, dir, dashInput)
<1>1. /\ q.dir = dir /\ q.dashInputActive = dashInput
      /\ q.dashKey = IF dashInput THEN "Down" ELSE "Up"
  BY DEF WithInput, PlayerState
<1>2. CASE StartsDash(p, dir, dashInput)
  <2>1. /\ gameState = "Playing" /\ ~p.dashInputActive /\ p.cooldown = 0 /\ dir # Zero
        /\ DashByClock(p, ElapsedTime)
    BY <1>2 DEF StartsDash
  <2>2. /\ q.dash = DashDuration /\ q.cooldown = DashCooldown
        /\ q.dashedAt = ElapsedTime /\ q.dashDir = dir
    BY <1>2 DEF WithInput, PlayerState
  <2>3. DashDuration \in Nat /\ DashCooldown \in Nat /\ p.dashedAt \in Int
    BY RoomAssumption DEF PlayerState, Never
  <2> HIDE DEF q
  <2>4. p.dashedAt # Never => ElapsedTime - p.dashedAt >= DashCooldown
    BY <2>1, <2>3 DEF DashByClock, Greatest
  <2>5. /\ ElapsedTime - ElapsedTime = 0 /\ DashCooldown = Greatest(0, DashCooldown - 0)
        /\ DashDuration = Greatest(0, DashDuration - 0) /\ ElapsedTime # Never
    BY <2>3 DEF Greatest, Never
  <2>6. DashByClock(q, ElapsedTime)
    BY <1>1, <2>2, <2>5 DEF DashByClock
  <2>7. p.dashKey # "Down"
    BY <2>1 DEF DashByClock
  <2> QED
    BY <2>1, <2>2, <2>4, <2>6, <2>7 DEF q
<1>3. CASE ~StartsDash(p, dir, dashInput)
  <2>1. /\ q.dash = p.dash /\ q.dashDir = p.dashDir /\ q.cooldown = p.cooldown
        /\ q.dashedAt = p.dashedAt
    BY <1>3 DEF WithInput, PlayerState
  <2> HIDE DEF q
  <2>2. gameState = "Playing" => DashByClock(q, ElapsedTime)
    BY <1>1, <2>1 DEF DashByClock
  <2> QED
    BY <2>1, <2>2 DEF q
<1> QED
  BY <1>2, <1>3

\* A tick keeps every player on the clock and starts no dash.
LEMMA TickByClock ==
  ASSUME RoomInv, DashesByClock, NEW tickDelta \in 1 .. MaxTickDelta, Tick(tickDelta)
  PROVE  DashesByClock' /\ \A s \in Member : PaysForDash(s)
<1> DEFINE delta == Least(tickDelta, gameRemaining)
           collisions == PlayerCollisions(players, delta)
           moved == [s \in Member |-> Moved(players[s], delta)]
           roster == IF collisions = {} THEN moved
                     ELSE [s \in Member |-> Respawn(EndDash(moved[s]))]
<1>1. /\ gameState = "Playing" /\ gameRemaining \in 1 .. GameDuration
      /\ GameDuration \in Nat /\ MaxTickDelta \in Nat
  BY RoomAssumption DEF Tick, RoomInv, TypeOK, GameStateConsistent
<1>2. delta \in Nat /\ delta <= gameRemaining
  BY <1>1 DEF Least
<1>3. /\ gameRemaining' = gameRemaining - delta
      /\ IF gameRemaining' = 0
         THEN gameState' = "Finished" /\ players' = [s \in DOMAIN roster |-> EndDash(roster[s])]
         ELSE players' = roster
  BY DEF Tick, FinishGame
<1>4. ElapsedTime \in Nat /\ ElapsedTime' = ElapsedTime + delta
  BY <1>1, <1>2, <1>3 DEF ElapsedTime
<1> HIDE DEF delta, collisions
<1>5. \A s \in Member : players[s] \in PlayerState /\ DashByClock(players[s], ElapsedTime)
  BY <1>1 DEF RoomInv, TypeOK, DashesByClock
<1>6. ASSUME NEW s \in Member
      PROVE  /\ moved[s] \in PlayerState /\ DashByClock(moved[s], ElapsedTime')
             /\ moved[s].dash <= players[s].dash /\ moved[s].dashDir = players[s].dashDir
             /\ players[s].dash \in Nat
  <2>1. moved[s] \in PlayerState
    BY <1>2, <1>5, MovedSound DEF Sound
  <2>2. DashByClock(moved[s], ElapsedTime')
    BY <1>2, <1>4, <1>5, MovedByClock
  <2>3. players[s].dash \in Nat
    BY <1>5, RoomAssumption DEF PlayerState
  <2>4. /\ moved[s].dash = Greatest(0, players[s].dash - delta)
        /\ moved[s].dashDir = players[s].dashDir
    BY <1>5 DEF Moved, PlayerState
  <2> QED
    BY <1>2, <2>1, <2>2, <2>3, <2>4 DEF Greatest
<1>7. ASSUME NEW s \in Member
      PROVE  /\ roster[s] \in PlayerState /\ DashByClock(roster[s], ElapsedTime')
             /\ roster[s].dash = 0 \/ roster[s] = moved[s]
             /\ DOMAIN roster = Member
  <2>1. CASE collisions = {}
    BY <1>6, <2>1
  <2>2. CASE collisions # {}
    <3>1. roster[s] = Respawn(EndDash(moved[s])) /\ DOMAIN roster = Member
      BY <2>2
    <3>2. EndDash(moved[s]) \in PlayerState /\ Respawn(EndDash(moved[s])) \in PlayerState
      BY <1>6, EndDashSound, RespawnSound DEF Sound
    <3> HIDE DEF moved
    <3>3. DashByClock(EndDash(moved[s]), ElapsedTime') /\ EndDash(moved[s]).dash = 0
      BY <1>6, StoppedByClock
    <3>4. DashByClock(Respawn(EndDash(moved[s])), ElapsedTime')
          /\ Respawn(EndDash(moved[s])).dash = 0
      BY <3>2, <3>3, StoppedByClock
    <3> QED
      BY <3>1, <3>2, <3>4
  <2> QED
    BY <2>1, <2>2
<1>8. DOMAIN roster = Member
  OBVIOUS
<1> HIDE DEF roster, moved
<1>9. CASE gameRemaining' = 0
  <2>1. gameState' = "Finished"
    BY <1>3, <1>9
  <2>2. \A s \in Member : players'[s].dash = 0
    <3> TAKE s \in Member
    <3>1. players'[s] = EndDash(roster[s])
      BY <1>3, <1>8, <1>9
    <3> QED
      BY <1>7, <3>1, StoppedByClock
  <2> QED
    BY <2>1, <2>2 DEF DashesByClock, PaysForDash, BeginsDash
<1>10. CASE gameRemaining' # 0
  <2>1. players' = roster /\ Member' = Member
    BY <1>3, <1>8, <1>10 DEF Member
  <2>2. DashesByClock'
    BY <1>7, <2>1 DEF DashesByClock
  <2>3. \A s \in Member : PaysForDash(s)
    <3> TAKE s \in Member
    <3>1. \/ players'[s].dash = 0
          \/ /\ players'[s].dash <= players[s].dash /\ players'[s].dashDir = players[s].dashDir
             /\ players'[s].dash \in Nat /\ players[s].dash \in Nat
      BY <1>6, <1>7, <2>1, RoomAssumption DEF PlayerState
    <3> QED
      BY <3>1 DEF PaysForDash, BeginsDash
  <2> QED
    BY <2>2, <2>3
<1> QED
  BY <1>9, <1>10

\* Every step keeps the players of a running game on the clock and lets nobody
\* dash before the time.
LEMMA DashNext ==
  RoomInv /\ DashesByClock /\ [Next]_vars => DashesByClock' /\ \A s \in Member : PaysForDash(s)
<1> SUFFICES ASSUME RoomInv, DashesByClock, [Next]_vars
             PROVE  DashesByClock' /\ \A s \in Member : PaysForDash(s)
  OBVIOUS
<1>1. \A s \in Member : players[s] \in PlayerState /\ players[s].dash \in Nat
  BY RoomAssumption DEF RoomInv, TypeOK, PlayerState
<1>2. ASSUME UNCHANGED gameVars,
             \A s \in Member' :
                \/ players'[s].dashedAt = Never /\ DashByClock(players'[s], ElapsedTime)
                \/ s \in Member /\ players'[s] = players[s]
      PROVE  DashesByClock'
  <2>1. ElapsedTime' = ElapsedTime /\ gameState' = gameState
    BY <1>2 DEF gameVars, clockVars, ElapsedTime
  <2> QED
    BY <1>2, <2>1 DEF DashesByClock
<1>3. ASSUME \A s \in Member \cap Member' : players'[s] = players[s] \/ players'[s].dash = 0
      PROVE  \A s \in Member : PaysForDash(s)
  BY <1>1, <1>3 DEF PaysForDash, BeginsDash, Member
<1>4. CASE UNCHANGED vars
  <2>1. UNCHANGED <<players, gameVars>> /\ Member' = Member
    BY <1>4 DEF vars, Member
  <2> QED
    BY <1>2, <1>3, <2>1
<1>5. ASSUME NEW s \in Sessions, Enter(s)
      PROVE  DashesByClock' /\ \A m \in Member : PaysForDash(m)
  <2>1. CASE gameState = "Waiting" /\ IsAttackDefenseReady(Joined(s))
    <3>1. /\ gameState' = "Playing" /\ Member' = DOMAIN Joined(s)
          /\ \A r \in Member' :
                players'[r] = NewPlayer(Joined(s)[r].playerId, Joined(s)[r].side)
      BY <1>5, <2>1 DEF Enter, StartGame, Member
    <3>2. \A r \in Member' : players'[r].dash = 0
      BY <3>1, NewPlayerByClock
    <3>3. \A r \in Member' : DashByClock(players'[r], ElapsedTime')
      BY <3>1, NewPlayerByClock
    <3>4. DashesByClock'
      BY <3>3 DEF DashesByClock
    <3> QED
      BY <1>3, <3>2, <3>4
  <2>2. CASE ~(gameState = "Waiting" /\ IsAttackDefenseReady(Joined(s)))
    <3> DEFINE side == IF "Flame" \in FreeSides THEN "Flame" ELSE "Frost"
    <3>1. players' = Joined(s) /\ UNCHANGED gameVars
      BY <1>5, <2>2 DEF Enter
    <3>2. /\ Member' = Member \cup {s} /\ s \notin Member
          /\ players'[s] = NewPlayer(nextPlayerId, side)
          /\ \A r \in Member : players'[r] = players[r]
      BY <1>5, <3>1 DEF Enter, CanEnter, Joined, Member
    <3> HIDE DEF side
    <3>3. players'[s].dashedAt = Never /\ DashByClock(players'[s], ElapsedTime)
      BY <3>2, NewPlayerByClock DEF NewPlayer
    <3> QED
      BY <1>2, <1>3, <3>1, <3>2, <3>3
  <2> QED
    BY <2>1, <2>2
<1>6. ASSUME NEW s \in Sessions, Leave(s)
      PROVE  DashesByClock' /\ \A m \in Member : PaysForDash(m)
  <2>1. Member' = Member \ {s} /\ \A r \in Member' : players'[r] = players[r]
    BY <1>6 DEF Leave, Member
  <2>2. UNCHANGED gameVars \/ gameState' = "Waiting"
    BY <1>6 DEF Leave, StopGame
  <2>3. DashesByClock'
    <3>1. CASE UNCHANGED gameVars
      BY <1>2, <2>1, <3>1
    <3>2. CASE gameState' = "Waiting"
      BY <3>2 DEF DashesByClock
    <3> QED
      BY <2>2, <3>1, <3>2
  <2> QED
    BY <1>3, <2>1, <2>3
<1>7. ASSUME NEW s \in Sessions, NEW axes \in InputAxes, NEW dashInput \in BOOLEAN,
             ApplyPlayerInput(s, axes, dashInput)
      PROVE  DashesByClock' /\ \A m \in Member : PaysForDash(m)
  <2> DEFINE dir == NormalizePlayerInput(axes)
  <2>1. dir \in Vector
    <3>1. axes \in Vector
      BY RoomAssumption, KinematicsAssumption DEF Vector
    <3> QED
      BY <3>1, NormalizeType
  <2>2. /\ s \in Member /\ Member' = Member /\ UNCHANGED gameVars
        /\ players'[s] = WithInput(players[s], dir, dashInput)
        /\ \A r \in Member : r # s => players'[r] = players[r]
    BY <1>7 DEF ApplyPlayerInput, Member
  <2>3. ElapsedTime \in Nat /\ ElapsedTime' = ElapsedTime /\ gameState' = gameState
    BY <2>2, RoomAssumption DEF RoomInv, TypeOK, ElapsedTime, gameVars, clockVars
  <2> HIDE DEF dir
  <2>4. gameState = "Playing" => DashByClock(players[s], ElapsedTime)
    BY <2>2 DEF DashesByClock
  <2>5. /\ gameState = "Playing" => DashByClock(players'[s], ElapsedTime)
        /\ players'[s].dash # players[s].dash \/ players'[s].dashDir # players[s].dashDir =>
              /\ gameState = "Playing"
              /\ players[s].dashedAt # Never => ElapsedTime - players[s].dashedAt >= DashCooldown
              /\ players[s].dashKey # "Down"
              /\ players'[s].dashDir # Zero
    BY <1>1, <2>1, <2>2, <2>3, <2>4, WithInputByClock
  <2>6. DashesByClock'
    BY <2>2, <2>3, <2>5 DEF DashesByClock
  <2>7. ASSUME NEW m \in Member PROVE PaysForDash(m)
    <3>1. CASE m = s
      BY <1>1, <2>2, <2>5, <3>1 DEF PaysForDash, BeginsDash
    <3>2. CASE m # s
      BY <1>1, <2>2, <3>2 DEF PaysForDash, BeginsDash
    <3> QED
      BY <3>1, <3>2
  <2> QED
    BY <2>6, <2>7
<1> QED
  BY <1>4, <1>5, <1>6, <1>7, TickByClock DEF Next

\* Every dash begins in a running game, a whole cooldown of game time after the
\* last one, with a press of its own and in a direction, and no game begins with
\* anything left of an earlier one's dash, cooldown or input, whatever inputs,
\* ticks, contacts, departures and restarts come between (ApplyPlayerInput, Tick,
\* StartGame).
THEOREM DashesPaid == Spec => EveryDashPaid
<1>1. Init => DashesByClock
  BY DEF Init, DashesByClock
<1>2. RoomInv /\ DashesByClock /\ [Next]_vars => DashesByClock'
  BY DashNext
<1>3. RoomInv /\ DashesByClock /\ [Next]_vars => [\A s \in Member : PaysForDash(s)]_vars
  BY DashNext
<1> QED
  BY <1>1, <1>2, <1>3, RoomInvariant, PTL DEF Spec, EveryDashPaid

-----------------------------------------------------------------------------
(* Points.                                                                 *)

\* Two players make at most one contact in a tick.
LEMMA OneContactOfTwo ==
  ASSUME NEW p, NEW q, NEW delta \in Int, p.dash \in Int, q.dash \in Int,
         NEW c \in FindPlayerCollisionTimeDuringTick(p, q, delta),
         NEW d \in FindPlayerCollisionTimeDuringTick(p, q, delta)
  PROVE  c = d
<1>1. PICK t \in SegmentStarts(p, q, delta) :
         /\ c \in SegmentContact(p, q, delta, t)
         /\ \A r \in SegmentStarts(p, q, delta) :
               r < t => SegmentContact(p, q, delta, r) = {}
  BY DEF FindPlayerCollisionTimeDuringTick
<1>2. PICK u \in SegmentStarts(p, q, delta) :
         /\ d \in SegmentContact(p, q, delta, u)
         /\ \A r \in SegmentStarts(p, q, delta) :
               r < u => SegmentContact(p, q, delta, r) = {}
  BY DEF FindPlayerCollisionTimeDuringTick
<1>3. t \in Int /\ u \in Int
  BY DEF SegmentStarts, MovementBoundaries
<1>4. t = u
  BY <1>1, <1>2, <1>3
<1>5. \A offset, closing, start, length :
        \A e, f \in FindPlayerCollisionTime(offset, closing, start, length) : e = f
  BY DEF FindPlayerCollisionTime
<1> QED
  BY <1>1, <1>2, <1>4, <1>5 DEF SegmentContact

\* Each side has one player, so the whole tick has at most one contact.
LEMMA OneContact ==
  ASSUME RoomInv, NEW delta \in Int,
         NEW c \in PlayerCollisions(players, delta), NEW d \in PlayerCollisions(players, delta)
  PROVE  c = d
<1>1. PICK s \in Member, r \in Member :
         /\ players[s].side = "Flame" /\ players[r].side = "Frost"
         /\ c \in FindPlayerCollisionTimeDuringTick(players[s], players[r], delta)
  BY DEF PlayerCollisions, Member
<1>2. PICK s2 \in Member, r2 \in Member :
         /\ players[s2].side = "Flame" /\ players[r2].side = "Frost"
         /\ d \in FindPlayerCollisionTimeDuringTick(players[s2], players[r2], delta)
  BY DEF PlayerCollisions, Member
<1>3. s = s2 /\ r = r2
  BY <1>1, <1>2 DEF RoomInv, SeatsAndIdsDistinct
<1>4. players[s].dash \in Int /\ players[r].dash \in Int
  BY RoomAssumption DEF RoomInv, TypeOK, PlayerState
<1> QED
  BY <1>1, <1>2, <1>3, <1>4, OneContactOfTwo

\* The side that the tick takes for the attacker is the one of the game clock.
LEMMA ScorerFollowsClock ==
  ASSUME RoomInv, RolesFollowClock, gameState = "Playing", NEW c
  PROVE  LET change == RoleInterval - (ElapsedTime % RoleInterval)
         IN  GetAttackingSideAtTickTime(c) =
                AttackerAt(IF Before(c, change) THEN ElapsedTime ELSE ElapsedTime + change)
<1> DEFINE E == ElapsedTime
           r == E % RoleInterval
           change == RoleInterval - r
<1>1. /\ RoleInterval \in Nat \ {0} /\ E \in Nat
      /\ attackRoleSwitchRemaining = change /\ attackingSide = AttackerAt(E)
  BY RoomAssumption DEF RoomInv, TypeOK, RolesFollowClock, ElapsedTime
<1>2. r \in 0 .. RoleInterval - 1
  BY <1>1
<1>3. change \in Nat /\ change <= RoleInterval /\ r + change = RoleInterval /\ E + change \in Nat
  BY <1>1, <1>2
<1>4. (E + change) \div RoleInterval = (E \div RoleInterval) + 1
  <2>1. /\ E \in Nat /\ RoleInterval \in Nat \ {0} /\ change \in Nat /\ change <= RoleInterval
        /\ ~((E % RoleInterval) + change < RoleInterval)
    BY <1>1, <1>3
  <2> HIDE DEF E, change
  <2>2. IF (E % RoleInterval) + change < RoleInterval
        THEN /\ (E + change) \div RoleInterval = E \div RoleInterval
             /\ (E + change) % RoleInterval = (E % RoleInterval) + change
        ELSE /\ (E + change) \div RoleInterval = (E \div RoleInterval) + 1
             /\ (E + change) % RoleInterval = (E % RoleInterval) + change - RoleInterval
    BY <2>1, IntervalPassed
  <2> QED
    BY <2>1, <2>2
<1>5. AttackerAt(E + change) = Opposite(AttackerAt(E))
  <2> HIDE DEF E, change
  <2> QED
    BY <1>1, <1>3, <1>4, NextAttacker
<1> HIDE DEF E, change
<1>6. GetAttackingSideAtTickTime(c) = AttackerAt(IF Before(c, change) THEN E ELSE E + change)
  BY <1>1, <1>5 DEF GetAttackingSideAtTickTime
<1> QED
  BY <1>6 DEF E, change

\* A tick gives its one point to the attacker of the game clock.
LEMMA PointsOfTick ==
  ASSUME RoomInv, RolesFollowClock, NEW tickDelta \in 1 .. MaxTickDelta, Tick(tickDelta),
         NEW side \in Sides
  PROVE  PointByClock(side)
<1> DEFINE delta == Least(tickDelta, gameRemaining)
           collisions == PlayerCollisions(players, delta)
<1>1. /\ gameState = "Playing" /\ gameRemaining \in Nat /\ MaxTickDelta \in Nat
      /\ sideScores \in [Sides -> Nat] /\ Opposite(side) \in Sides /\ Opposite(side) # side
  BY RoomAssumption DEF Tick, RoomInv, TypeOK, Opposite, Sides
<1>2. delta \in Int
  BY <1>1 DEF Least
<1>3. /\ sideScores' = [a \in Sides |-> sideScores[a] +
                IF \E c \in collisions : GetAttackingSideAtTickTime(c) = a THEN 1 ELSE 0]
      /\ gameRemaining' = gameRemaining - delta
  BY DEF Tick
<1>4. \A c, d \in collisions : c = d
  BY <1>2, OneContact
<1>5. gameRemaining - gameRemaining' = delta
  BY <1>1, <1>2, <1>3
<1> HIDE DEF delta, collisions
<1> SUFFICES ASSUME sideScores'[side] # sideScores[side]
             PROVE  /\ sideScores'[side] = sideScores[side] + 1
                    /\ sideScores'[Opposite(side)] = sideScores[Opposite(side)]
                    /\ \E c \in collisions :
                          LET change == RoleInterval - (ElapsedTime % RoleInterval)
                          IN  side = AttackerAt(IF Before(c, change) THEN ElapsedTime
                                                                     ELSE ElapsedTime + change)
  BY <1>5 DEF PointByClock, collisions
<1>6. PICK c \in collisions : GetAttackingSideAtTickTime(c) = side
  BY <1>1, <1>3
<1>7. ~\E d \in collisions : GetAttackingSideAtTickTime(d) = Opposite(side)
  BY <1>1, <1>4, <1>6
<1>8. /\ sideScores'[side] = sideScores[side] + 1
      /\ sideScores'[Opposite(side)] = sideScores[Opposite(side)]
  BY <1>1, <1>3, <1>6, <1>7
<1> QED
  BY <1>1, <1>6, <1>8, ScorerFollowsClock

\* Only a tick changes the score of a game that runs.
LEMMA PointsNext ==
  ASSUME RoomInv, RolesFollowClock, [Next]_vars, NEW side \in Sides
  PROVE  PointByClock(side)
<1>1. CASE UNCHANGED gameVars
  BY <1>1 DEF gameVars, PointByClock
<1>2. CASE UNCHANGED vars
  BY <1>1, <1>2 DEF vars
<1>3. ASSUME NEW s \in Sessions, Enter(s)
      PROVE  gameState # "Playing"
  BY <1>3, JoinedRoster DEF Enter, RoomInv, GameStateConsistent
<1>4. ASSUME NEW s \in Sessions, Leave(s)
      PROVE  UNCHANGED gameVars \/ gameState' = "Waiting"
  BY <1>4 DEF Leave, StopGame
<1>5. ASSUME NEW s \in Sessions, NEW axes \in InputAxes, NEW dashInput \in BOOLEAN,
             ApplyPlayerInput(s, axes, dashInput)
      PROVE  UNCHANGED gameVars
  BY <1>5 DEF ApplyPlayerInput
<1>6. gameState # "Playing" \/ gameState' = "Waiting" => PointByClock(side)
  BY DEF PointByClock
<1> QED
  BY <1>1, <1>2, <1>3, <1>4, <1>5, <1>6, PointsOfTick DEF Next

\* A tick awards at most one point, and to the side whose turn it is at the
\* instant of contact by the clock of the whole game, wherever the role change
\* falls in the tick (GetAttackingSideIndexAtTickTime).
THEOREM PointsByClock == Spec => PointsFollowClock
<1>1. RoomInv /\ RolesFollowClock /\ [Next]_vars => [\A side \in Sides : PointByClock(side)]_vars
  BY PointsNext
<1> QED
  BY <1>1, RoomInvariant, RolesAreClock, PTL DEF Spec, PointsFollowClock

-----------------------------------------------------------------------------
(* Contacts.  First the motion of two bodies, then that the search over the *)
(* segments of a tick misses no contact, then what a tick makes of one.     *)

\* The squared distance of two bodies whose relative velocity stays the same is
\* a quadratic of the time.
LEMMA QuadraticOfTime ==
  ASSUME NEW ox \in Int, NEW oy \in Int, NEW cx \in Int, NEW cy \in Int, NEW s \in Int
  PROVE  (ox + s * cx) * (ox + s * cx) + (oy + s * cy) * (oy + s * cy)
            = (ox * ox + oy * oy) + (2 * (ox * cx + oy * cy)) * s + (cx * cx + cy * cy) * (s * s)
<1>1. \A o, v \in Int : (o + s * v) * (o + s * v) = o * o + 2 * (o * v) * s + (v * v) * (s * s)
  OBVIOUS
<1> QED
  BY <1>1

\* Of two numbers without sign the greater has the greater square.
LEMMA SquareMonotone ==
  ASSUME NEW m \in Nat, NEW n \in Nat, m <= n
  PROVE  m * m <= n * n
<1>1. PICK d \in Nat : n = m + d
  <2>1. n - m \in Nat /\ n = m + (n - m)
    OBVIOUS
  <2> QED
    BY <2>1
<1>2. n * n = m * m + 2 * (m * d) + d * d
  BY <1>1
<1>3. m * d >= 0 /\ d * d >= 0 /\ m * m \in Int /\ m * d \in Int /\ d * d \in Int
  OBVIOUS
<1> QED
  BY <1>2, <1>3

\* A quadratic that begins above zero and is not above zero at some time up to
\* length falls, has a root, and has its first root by then.
LEMMA RootReached ==
  ASSUME NEW a \in Nat, NEW b \in Int, NEW c \in Int, NEW s \in Nat, NEW length \in Nat,
         c > 0, s <= length, c + b * s + a * (s * s) <= 0, a = 0 => b = 0
  PROVE  LET disc == b * b - 4 * a * c
             late == -b - 2 * a * length
         IN  a > 0 /\ disc >= 0 /\ b <= 0 /\ (late <= 0 \/ late * late <= disc)
<1> DEFINE disc == b * b - 4 * a * c
           late == -b - 2 * a * length
           slope == 2 * a * s + b
<1>1. a > 0
  <2>1. a = 0 => b * s = 0 /\ a * (s * s) = 0
    OBVIOUS
  <2> QED
    BY <2>1
<1>2. b <= 0
  <2>1. a * (s * s) >= 0 /\ a * (s * s) \in Int /\ b * s \in Int
    OBVIOUS
  <2>2. b > 0 => b * s >= 0
    OBVIOUS
  <2> QED
    BY <2>1, <2>2
<1>3. slope * slope <= disc
  <2>1. slope * slope = 4 * a * (c + b * s + a * (s * s)) + disc
    OBVIOUS
  <2>2. \A k \in Int : k <= 0 => a * k <= 0
    OBVIOUS
  <2>3. c + b * s + a * (s * s) \in Int /\ disc \in Int
    OBVIOUS
  <2>4. a * (c + b * s + a * (s * s)) <= 0
    BY <2>2, <2>3
  <2>5. \A k \in Int : 4 * a * k = 4 * (a * k) /\ a * k \in Int
    OBVIOUS
  <2> DEFINE value == c + b * s + a * (s * s)
  <2>6. 4 * a * value = 4 * (a * value) /\ a * value \in Int /\ a * value <= 0
    BY <2>3, <2>4, <2>5
  <2>7. slope * slope = 4 * a * value + disc
    BY <2>1
  <2> HIDE DEF slope, disc, value
  <2> QED
    BY <2>3, <2>6, <2>7
<1>4. disc >= 0
  <2>1. slope \in Int /\ disc \in Int
    OBVIOUS
  <2>2. slope * slope >= 0 /\ slope * slope \in Int
    BY <2>1, SquareNotNegative
  <2> HIDE DEF slope, disc
  <2> QED
    BY <1>3, <2>1, <2>2
<1>5. ASSUME late > 0
      PROVE  late * late <= disc
  <2>1. a * s <= a * length
    <3>1. PICK d \in Nat : length = s + d
      <4>1. length - s \in Nat /\ length = s + (length - s)
        OBVIOUS
      <4> QED
        BY <4>1
    <3>2. a * length = a * s + a * d /\ a * d >= 0 /\ a * s \in Int /\ a * d \in Int
      BY <3>1
    <3> QED
      BY <3>2
  <2>2. 2 * a * s = 2 * (a * s) /\ 2 * a * length = 2 * (a * length)
    OBVIOUS
  <2>3. slope \in Int /\ late \in Int /\ disc \in Int /\ a * s \in Int /\ a * length \in Int
    OBVIOUS
  <2>4. late <= -slope
    <3> DEFINE x == a * s
               y == a * length
    <3>1. late = -b - 2 * y /\ slope = 2 * x + b /\ x <= y /\ x \in Int /\ y \in Int
      BY <2>1, <2>2, <2>3
    <3> HIDE DEF x, y, late, slope
    <3> QED
      BY <3>1
  <2> HIDE DEF late, slope, disc
  <2>5. late \in Nat /\ -slope \in Nat
    BY <1>5, <2>3, <2>4
  <2>6. late * late <= (-slope) * (-slope)
    BY <2>4, <2>5, SquareMonotone
  <2>7. (-slope) * (-slope) = slope * slope
    BY <2>3
  <2>8. late * late \in Int /\ slope * slope \in Int
    BY <2>3
  <2> QED
    BY <1>3, <2>3, <2>6, <2>7, <2>8
<1>6. late <= 0 \/ late > 0
  <2>1. late \in Int
    OBVIOUS
  <2> HIDE DEF late
  <2> QED
    BY <2>1
<1> HIDE DEF disc, late
<1>7. a > 0 /\ disc >= 0 /\ b <= 0 /\ (late <= 0 \/ late * late <= disc)
  BY <1>1, <1>2, <1>4, <1>5, <1>6
<1> QED
  BY <1>7 DEF disc, late

\* Two bodies whose distance is at most that of a contact at some time of a
\* segment are found to touch on it.
LEMMA ContactOnSegment ==
  ASSUME NEW offset \in Vector, NEW closing \in Vector, NEW start, NEW length \in Nat,
         NEW s \in Nat, s <= length,
         LET apart == Plus(offset, Times(s, closing))
         IN  Dot(apart, apart) <= CollisionDistance * CollisionDistance
  PROVE  FindPlayerCollisionTime(offset, closing, start, length) # {}
<1> DEFINE D == CollisionDistance * CollisionDistance
           c == Dot(offset, offset) - D
           a == Dot(closing, closing)
           b == 2 * Dot(offset, closing)
<1>1. /\ offset.x \in Int /\ offset.y \in Int /\ closing.x \in Int /\ closing.y \in Int
      /\ D \in Int
  BY KinematicsAssumption DEF Vector
<1>2. a \in Nat /\ b \in Int /\ c \in Int
  <2>1. closing.x * closing.x >= 0 /\ closing.y * closing.y >= 0
    BY <1>1, SquareNotNegative
  <2>2. a \in Int
    BY <1>1 DEF Dot
  <2>3. a >= 0
    BY <1>1, <2>1 DEF Dot
  <2>4. b \in Int /\ c \in Int
    BY <1>1 DEF Dot
  <2> HIDE DEF a, b, c
  <2> QED
    BY <2>2, <2>3, <2>4
<1>3. a = 0 => b = 0
  <2>1. \A m, n \in Int : m * m + n * n = 0 => m = 0 /\ n = 0
    <3> TAKE m, n \in Int
    <3>1. m * m >= 0 /\ n * n >= 0 /\ m * m \in Int /\ n * n \in Int
      BY SquareNotNegative
    <3>2. m # 0 => m * m > 0
      OBVIOUS
    <3>3. n # 0 => n * n > 0
      OBVIOUS
    <3> QED
      BY <3>1, <3>2, <3>3
  <2>2. a = 0 => closing.x = 0 /\ closing.y = 0
    BY <1>1, <2>1 DEF Dot
  <2>3. closing.x = 0 /\ closing.y = 0 => b = 0
    BY <1>1 DEF Dot
  <2> QED
    BY <2>2, <2>3
<1>4. c + b * s + a * (s * s) <= 0
  <2> DEFINE apart == Plus(offset, Times(s, closing))
  <2>1. Dot(apart, apart) = (offset.x + s * closing.x) * (offset.x + s * closing.x)
                              + (offset.y + s * closing.y) * (offset.y + s * closing.y)
    BY DEF Dot, Plus, Times
  <2>2. Dot(apart, apart) = Dot(offset, offset) + b * s + a * (s * s)
    BY <1>1, <2>1, QuadraticOfTime DEF Dot
  <2>3. Dot(offset, offset) \in Int /\ b * s \in Int /\ a * (s * s) \in Int
    <3>1. Dot(offset, offset) \in Int
      BY <1>1 DEF Dot
    <3> HIDE DEF a, b
    <3> QED
      BY <1>2, <3>1
  <2>4. Dot(apart, apart) <= D
    OBVIOUS
  <2>5. c = Dot(offset, offset) - D
    OBVIOUS
  <2> DEFINE bs == b * s
             ass == a * (s * s)
             oo == Dot(offset, offset)
             dd == Dot(apart, apart)
  <2>6. dd = oo + bs + ass /\ dd <= D /\ c = oo - D
        /\ oo \in Int /\ bs \in Int /\ ass \in Int
    BY <2>2, <2>3, <2>4, <2>5
  <2> HIDE DEF bs, ass, oo, dd, c, D
  <2>7. c + bs + ass <= 0
    BY <1>1, <2>6
  <2> QED
    BY <2>7 DEF bs, ass
<1>5. FindPlayerCollisionTime(offset, closing, start, length) =
        IF c <= 0 THEN {[base |-> start, b |-> 0, twoA |-> 1, disc |-> 0]}
        ELSE IF /\ a > 0
                /\ b * b - 4 * a * c >= 0
                /\ b <= 0
                /\ \/ -b - 2 * a * length <= 0
                   \/ (-b - 2 * a * length) * (-b - 2 * a * length) <= b * b - 4 * a * c
             THEN {[base |-> start, b |-> b, twoA |-> 2 * a, disc |-> b * b - 4 * a * c]}
             ELSE {}
  BY DEF FindPlayerCollisionTime
<1> HIDE DEF a, b, c, D
<1>6. CASE c <= 0
  BY <1>5, <1>6
<1>7. CASE c > 0
  <2>1. /\ a > 0 /\ b * b - 4 * a * c >= 0 /\ b <= 0
        /\ \/ -b - 2 * a * length <= 0
           \/ (-b - 2 * a * length) * (-b - 2 * a * length) <= b * b - 4 * a * c
    BY <1>2, <1>3, <1>4, <1>7, RootReached
  <2> QED
    BY <1>5, <2>1
<1> QED
  BY <1>2, <1>6, <1>7

\* One coordinate at time n of a player at o that dashes towards dash for the
\* first m steps and then walks towards walk.
Along(o, dash, walk, n, m) == o + ((m * DashSpeed) * dash + ((n - m) * MoveSpeed) * walk)

\* The walk is uniform, and so is the dash.
LEMMA AlongWalk ==
  ASSUME NEW o \in Int, NEW dash \in Int, NEW walk \in Int,
         NEW t \in Nat, NEW u \in Nat, NEW m \in Nat
  PROVE  Along(o, dash, walk, u, m) = Along(o, dash, walk, t, m) + (u - t) * (MoveSpeed * walk)
<1>1. DashSpeed \in Int /\ MoveSpeed \in Int
  BY KinematicsAssumption
<1>2. ((u - m) * MoveSpeed) * walk = ((t - m) * MoveSpeed) * walk + (u - t) * (MoveSpeed * walk)
  BY <1>1
<1>3. (m * DashSpeed) * dash \in Int /\ ((t - m) * MoveSpeed) * walk \in Int
      /\ (u - t) * (MoveSpeed * walk) \in Int
  BY <1>1
<1> QED
  BY <1>2, <1>3 DEF Along

LEMMA AlongDash ==
  ASSUME NEW o \in Int, NEW dash \in Int, NEW walk \in Int, NEW t \in Nat, NEW u \in Nat
  PROVE  Along(o, dash, walk, u, u) = Along(o, dash, walk, t, t) + (u - t) * (DashSpeed * dash)
<1>1. DashSpeed \in Int /\ MoveSpeed \in Int
  BY KinematicsAssumption
<1>2. (u * DashSpeed) * dash = (t * DashSpeed) * dash + (u - t) * (DashSpeed * dash)
  BY <1>1
<1>3. (t * DashSpeed) * dash \in Int /\ (u - t) * (DashSpeed * dash) \in Int
  BY <1>1
<1>4. ((u - u) * MoveSpeed) * walk = 0 /\ ((t - t) * MoveSpeed) * walk = 0
  BY <1>1
<1> QED
  BY <1>2, <1>3, <1>4 DEF Along

\* Where a player is, coordinate by coordinate.
LEMMA FreePositionAlong ==
  ASSUME NEW p, NEW n
  PROVE  LET m == Least(n, p.dash)
         IN  FreePosition(p, n) = [x |-> Along(p.pos.x, p.dashDir.x, p.dir.x, n, m),
                                   y |-> Along(p.pos.y, p.dashDir.y, p.dir.y, n, m)]
BY DEF FreePosition, Plus, Times, Along

\* While neither the dash of a player nor the segment ends, it moves at the
\* velocity it has at the start.
LEMMA SteadyMotion ==
  ASSUME NEW p \in PlayerState, NEW t \in Nat, NEW u \in Nat, t <= u,
         p.dash <= t \/ u <= p.dash
  PROVE  FreePosition(p, u) = Plus(FreePosition(p, t), Times(u - t, Velocity(p, t)))
<1>1. /\ p.pos.x \in Int /\ p.pos.y \in Int /\ p.dir.x \in Int /\ p.dir.y \in Int
      /\ p.dashDir.x \in Int /\ p.dashDir.y \in Int /\ p.dash \in Nat
  BY KinematicsAssumption, RoomAssumption DEF PlayerState, Arena, Vector
<1>2. CASE p.dash <= t
  <2>1. Least(t, p.dash) = p.dash /\ Least(u, p.dash) = p.dash
    BY <1>1, <1>2 DEF Least
  <2>2. Velocity(p, t) = [x |-> MoveSpeed * p.dir.x, y |-> MoveSpeed * p.dir.y]
    BY <1>1, <1>2 DEF Velocity, Times
  <2>3. FreePosition(p, t) = [x |-> Along(p.pos.x, p.dashDir.x, p.dir.x, t, p.dash),
                              y |-> Along(p.pos.y, p.dashDir.y, p.dir.y, t, p.dash)]
    BY <2>1, FreePositionAlong
  <2>4. FreePosition(p, u) = [x |-> Along(p.pos.x, p.dashDir.x, p.dir.x, u, p.dash),
                                  y |-> Along(p.pos.y, p.dashDir.y, p.dir.y, u, p.dash)]
    BY <2>1, FreePositionAlong
  <2>5. \A o, dash, walk \in Int :
           Along(o, dash, walk, u, p.dash)
             = Along(o, dash, walk, t, p.dash) + (u - t) * (MoveSpeed * walk)
    <3> DEFINE m == p.dash
    <3>1. m \in Nat
      BY <1>1
    <3> HIDE DEF m
    <3>2. \A o, dash, walk \in Int :
             Along(o, dash, walk, u, m) = Along(o, dash, walk, t, m) + (u - t) * (MoveSpeed * walk)
      BY <3>1, AlongWalk
    <3> QED
      BY <3>2 DEF m
  <2>6. Plus(FreePosition(p, t), Times(u - t, Velocity(p, t)))
          = [x |-> Along(p.pos.x, p.dashDir.x, p.dir.x, t, p.dash) + (u - t) * (MoveSpeed * p.dir.x),
             y |-> Along(p.pos.y, p.dashDir.y, p.dir.y, t, p.dash) + (u - t) * (MoveSpeed * p.dir.y)]
    BY <2>2, <2>3 DEF Plus, Times
  <2> QED
    BY <1>1, <2>4, <2>5, <2>6
<1>3. CASE p.dash > t /\ u <= p.dash
  <2>1. Least(t, p.dash) = t /\ Least(u, p.dash) = u
    BY <1>1, <1>3 DEF Least
  <2>2. Velocity(p, t) = [x |-> DashSpeed * p.dashDir.x, y |-> DashSpeed * p.dashDir.y]
    BY <1>3 DEF Velocity, Times
  <2>3. FreePosition(p, t) = [x |-> Along(p.pos.x, p.dashDir.x, p.dir.x, t, t),
                              y |-> Along(p.pos.y, p.dashDir.y, p.dir.y, t, t)]
    BY <2>1, FreePositionAlong
  <2>4. FreePosition(p, u) = [x |-> Along(p.pos.x, p.dashDir.x, p.dir.x, u, u),
                                  y |-> Along(p.pos.y, p.dashDir.y, p.dir.y, u, u)]
    BY <2>1, FreePositionAlong
  <2>5. \A o, dash, walk \in Int :
           Along(o, dash, walk, u, u)
             = Along(o, dash, walk, t, t) + (u - t) * (DashSpeed * dash)
    BY <1>1, AlongDash
  <2>6. Plus(FreePosition(p, t), Times(u - t, Velocity(p, t)))
          = [x |-> Along(p.pos.x, p.dashDir.x, p.dir.x, t, t) + (u - t) * (DashSpeed * p.dashDir.x),
             y |-> Along(p.pos.y, p.dashDir.y, p.dir.y, t, t) + (u - t) * (DashSpeed * p.dashDir.y)]
    BY <2>2, <2>3 DEF Plus, Times
  <2> QED
    BY <1>1, <2>4, <2>5, <2>6
<1> QED
  BY <1>1, <1>2, <1>3

\* Every moment of a tick is in a segment, on which neither dash ends.
LEMMA SegmentOfTime ==
  ASSUME NEW p, NEW q, p.dash \in Nat, q.dash \in Nat, NEW delta \in Nat \ {0},
         NEW u \in 0 .. delta
  PROVE  \E t \in SegmentStarts(p, q, delta) :
           LET end == SegmentEnd(p, q, delta, t)
           IN  /\ t \in Nat /\ t <= u
               /\ end \in Nat /\ u <= end
               /\ p.dash <= t \/ u <= p.dash
               /\ q.dash <= t \/ u <= q.dash
<1> DEFINE B == MovementBoundaries(p, q, delta)
           passed == {t \in B : t < delta /\ t <= u}
<1>1. /\ B \in SUBSET (0 .. delta) /\ 0 \in B /\ delta \in B
      /\ \A d \in {p.dash, q.dash} : 0 < d /\ d < delta => d \in B
  BY DEF MovementBoundaries
<1> HIDE DEF B
<1>2. passed \in SUBSET (0 .. delta) /\ 0 \in passed
  <2>1. passed \subseteq 0 .. delta
    BY <1>1
  <2>2. 0 < delta /\ 0 <= u
    OBVIOUS
  <2> QED
    BY <1>1, <2>1, <2>2
<1>3. PICK t \in passed : \A k \in passed : k <= t
  <2>1. Max(passed) \in passed /\ \A k \in passed : k <= Max(passed)
    <3> HIDE DEF passed
    <3> QED
      BY <1>2, GreatestInSet
  <2> QED
    BY <2>1
<1>4. t \in B /\ t \in Nat /\ t < delta /\ t <= u /\ t \in SegmentStarts(p, q, delta)
  BY <1>1 DEF SegmentStarts, B
<1> DEFINE after == {k \in B : k > t}
           end == SegmentEnd(p, q, delta, t)
<1>5. end = Min(after) /\ after \in SUBSET Nat /\ delta \in after
  BY <1>1, <1>4 DEF SegmentEnd, B
<1>6. end \in after /\ \A k \in after : end <= k
  <2> HIDE DEF after, end
  <2> QED
    BY <1>5, LeastInSet
<1>7. end \in B /\ end \in Nat /\ end > t /\ end <= delta
  BY <1>1, <1>4, <1>5, <1>6
<1> HIDE DEF end
<1>8. u <= end
  <2> SUFFICES ASSUME end < u PROVE FALSE
    BY <1>7
  <2>1. end \in passed
    BY <1>7
  <2> QED
    BY <1>3, <1>4, <1>7, <2>1
<1>9. ASSUME NEW d \in Nat, 0 < d /\ d < delta => d \in B
      PROVE  d <= t \/ u <= d
  <2> SUFFICES ASSUME t < d, d < u PROVE FALSE
    BY <1>4
  <2>1. d \in passed
    BY <1>4, <1>9
  <2> QED
    BY <1>3, <1>4, <2>1
<1>10. (p.dash <= t \/ u <= p.dash) /\ (q.dash <= t \/ u <= q.dash)
  <2>1. 0 < p.dash /\ p.dash < delta => p.dash \in B
    BY <1>1
  <2>2. 0 < q.dash /\ q.dash < delta => q.dash \in B
    BY <1>1
  <2> QED
    BY <1>9, <2>1, <2>2
<1> QED
  BY <1>4, <1>7, <1>8, <1>10 DEF end

\* Contact does not depend on which of the two bodies is named first.
LEMMA TouchingSymmetric ==
  ASSUME NEW v \in Vector, NEW w \in Vector
  PROVE  Touching(v, w) <=> Touching(w, v)
<1>1. \A m, n \in Int : (m - n) * (m - n) = (n - m) * (n - m)
  OBVIOUS
<1>2. v.x \in Int /\ v.y \in Int /\ w.x \in Int /\ w.y \in Int
  BY DEF Vector
<1>3. /\ (v.x - w.x) * (v.x - w.x) = (w.x - v.x) * (w.x - v.x)
      /\ (v.y - w.y) * (v.y - w.y) = (w.y - v.y) * (w.y - v.y)
  BY <1>1, <1>2
<1> QED
  BY <1>3 DEF Touching, Dot, Minus

\* Two players whose free paths touch at some moment of a tick are found to
\* touch on the segment of that moment.
LEMMA ContactAtTime ==
  ASSUME NEW p \in PlayerState, NEW q \in PlayerState, NEW delta \in Nat \ {0},
         NEW u \in 0 .. delta, Touching(FreePosition(p, u), FreePosition(q, u))
  PROVE  \E t \in SegmentStarts(p, q, delta) : t \in Nat /\ SegmentContact(p, q, delta, t) # {}
<1>1. p.dash \in Nat /\ q.dash \in Nat /\ u \in Nat
  BY RoomAssumption DEF PlayerState
<1>2. PICK t \in SegmentStarts(p, q, delta) :
           LET end == SegmentEnd(p, q, delta, t)
           IN  /\ t \in Nat /\ t <= u
               /\ end \in Nat /\ u <= end
               /\ p.dash <= t \/ u <= p.dash
               /\ q.dash <= t \/ u <= q.dash
  BY <1>1, SegmentOfTime
<1> DEFINE end == SegmentEnd(p, q, delta, t)
           P == FreePosition(p, t)
           Q == FreePosition(q, t)
           V == Velocity(p, t)
           W == Velocity(q, t)
<1>3. /\ t \in Nat /\ u - t \in Nat /\ end - t \in Nat /\ u - t <= end - t
  BY <1>1, <1>2
<1>4. /\ FreePosition(p, u) = Plus(P, Times(u - t, V))
      /\ FreePosition(q, u) = Plus(Q, Times(u - t, W))
  BY <1>1, <1>2, SteadyMotion
<1>5. P \in Vector /\ Q \in Vector
  BY <1>3, FreePositionType
<1>6. V \in Vector /\ W \in Vector
  BY KinematicsAssumption DEF Velocity, Times, PlayerState, Vector
<1>7. FreePosition(p, u) \in Vector /\ FreePosition(q, u) \in Vector
  BY <1>1, FreePositionType
<1> HIDE DEF P, Q, V, W, end
<1> DEFINE s == u - t
           offset == Minus(Q, P)
           closing == Minus(W, V)
           apart == Plus(offset, Times(s, closing))
<1>8. offset \in Vector /\ closing \in Vector /\ s \in Nat
  BY <1>3, <1>5, <1>6 DEF Minus, Vector
<1>9. Minus(FreePosition(q, u), FreePosition(p, u)) = apart
  <2>1. \A k, m, n, v, w \in Int : (m + k * v) - (n + k * w) = (m - n) + k * (v - w)
    OBVIOUS
  <2>2. /\ P.x \in Int /\ P.y \in Int /\ Q.x \in Int /\ Q.y \in Int
        /\ V.x \in Int /\ V.y \in Int /\ W.x \in Int /\ W.y \in Int
    BY <1>5, <1>6 DEF Vector
  <2>3. s \in Int
    BY <1>8
  <2>4. Minus(FreePosition(q, u), FreePosition(p, u))
          = [x |-> (Q.x + s * W.x) - (P.x + s * V.x), y |-> (Q.y + s * W.y) - (P.y + s * V.y)]
    BY <1>4 DEF Minus, Plus, Times
  <2>5. apart = [x |-> (Q.x - P.x) + s * (W.x - V.x), y |-> (Q.y - P.y) + s * (W.y - V.y)]
    BY DEF Minus, Plus, Times
  <2> HIDE DEF s, apart
  <2>6. (Q.x + s * W.x) - (P.x + s * V.x) = (Q.x - P.x) + s * (W.x - V.x)
    BY <2>1, <2>2, <2>3
  <2>7. (Q.y + s * W.y) - (P.y + s * V.y) = (Q.y - P.y) + s * (W.y - V.y)
    BY <2>1, <2>2, <2>3
  <2> QED
    BY <2>4, <2>5, <2>6, <2>7
<1>10. Dot(apart, apart) <= CollisionDistance * CollisionDistance
  <2>1. Touching(FreePosition(q, u), FreePosition(p, u))
    BY <1>7, TouchingSymmetric
  <2> HIDE DEF apart
  <2> QED
    BY <1>9, <2>1 DEF Touching
<1>11. FindPlayerCollisionTime(offset, closing, t, end - t) # {}
  <2>1. s <= end - t
    BY <1>3
  <2> HIDE DEF offset, closing, s
  <2> QED
    BY <1>3, <1>8, <1>10, <2>1, ContactOnSegment
<1>12. SegmentContact(p, q, delta, t) # {}
  BY <1>11 DEF SegmentContact, P, Q, V, W, end
<1> QED
  BY <1>3, <1>12

\* The contact of a tick is never missed: if the free paths of two players
\* touch at any moment of it, the search over its segments finds a contact.
LEMMA ContactFound ==
  ASSUME NEW p \in PlayerState, NEW q \in PlayerState, NEW delta \in Nat \ {0},
         NEW u \in 0 .. delta, Touching(FreePosition(p, u), FreePosition(q, u))
  PROVE  FindPlayerCollisionTimeDuringTick(p, q, delta) # {}
<1> DEFINE found == {t \in SegmentStarts(p, q, delta) : SegmentContact(p, q, delta, t) # {}}
<1>1. found # {}
  BY ContactAtTime
<1>2. SegmentStarts(p, q, delta) \in SUBSET Nat
  <2>1. p.dash \in Nat /\ q.dash \in Nat
    BY RoomAssumption DEF PlayerState
  <2> QED
    BY <2>1 DEF SegmentStarts, MovementBoundaries
<1>3. PICK t \in found : \A r \in found : t <= r
  <2>1. found \in SUBSET Nat
    BY <1>2
  <2>2. Min(found) \in found /\ \A k \in found : Min(found) <= k
    <3> HIDE DEF found
    <3> QED
      BY <1>1, <2>1, LeastInSet
  <2> QED
    BY <2>2
<1>4. \A r \in SegmentStarts(p, q, delta) : r < t => SegmentContact(p, q, delta, r) = {}
  <2> TAKE r \in SegmentStarts(p, q, delta)
  <2>1. r \in Nat /\ t \in Nat
    BY <1>2
  <2>2. r \in found => t <= r
    BY <1>3
  <2> QED
    BY <2>1, <2>2
<1>5. PICK c : c \in SegmentContact(p, q, delta, t)
  OBVIOUS
<1> QED
  BY <1>4, <1>5 DEF FindPlayerCollisionTimeDuringTick

\* The end of a dash and the return to the spawn give a player again.
LEMMA StillPlayer ==
  ASSUME NEW p \in PlayerState
  PROVE  EndDash(p) \in PlayerState /\ Respawn(p) \in PlayerState
<1>1. Zero \in Vector /\ 0 \in 0 .. DashDuration
  BY RoomAssumption DEF Zero, Vector
<1>2. SpawnPosition(p.side) \in Arena
  BY RoomAssumption, KinematicsAssumption DEF SpawnPosition, Arena
<1> QED
  BY <1>1, <1>2, PlayerUpdate DEF EndDash, Respawn

\* What a tick makes of the positions and the scores: without a contact every
\* player is where its free path ends, or on the wall that cuts it, and the
\* scores stay; with one both are on their spawns and one side has a point.
LEMMA TickMoves ==
  ASSUME RoomInv, NEW tickDelta \in 1 .. MaxTickDelta, Tick(tickDelta)
  PROVE  LET delta == gameRemaining - gameRemaining'
             collisions == PlayerCollisions(players, delta)
         IN  /\ delta \in Nat \ {0}
             /\ Member' = Member
             /\ collisions = {} =>
                  /\ sideScores' = sideScores
                  /\ \A s \in Member :
                        players'[s].pos = Clamp(FreePosition(players[s], delta))
             /\ collisions # {} =>
                  /\ sideScores' # sideScores
                  /\ \A s \in Member : /\ players'[s].pos = SpawnPosition(players[s].side)
                                       /\ players'[s].dash = 0
<1> DEFINE delta == Least(tickDelta, gameRemaining)
           collisions == PlayerCollisions(players, delta)
           moved == [s \in Member |-> Moved(players[s], delta)]
           roster == IF collisions = {} THEN moved
                     ELSE [s \in Member |-> Respawn(EndDash(moved[s]))]
<1>1. /\ gameRemaining \in Nat /\ gameRemaining > 0 /\ MaxTickDelta \in Nat
      /\ attackingSide \in Sides /\ sideScores \in [Sides -> Nat]
  BY RoomAssumption DEF RoomInv, TypeOK, GameStateConsistent, Tick
<1>2. delta \in Nat \ {0}
  BY <1>1 DEF Least
<1>3. /\ sideScores' = [side \in Sides |-> sideScores[side] +
                IF \E c \in collisions : GetAttackingSideAtTickTime(c) = side THEN 1 ELSE 0]
      /\ gameRemaining' = gameRemaining - delta
      /\ IF gameRemaining' = 0
         THEN FinishGame(roster)
         ELSE players' = roster
  BY DEF Tick
<1>4. gameRemaining - gameRemaining' = delta
  BY <1>1, <1>2, <1>3
<1>5. \A s \in Member : moved[s] \in PlayerState /\ moved[s].side = players[s].side
                        /\ moved[s].pos = Clamp(FreePosition(players[s], delta))
  <2> SUFFICES ASSUME NEW s \in Member
               PROVE  /\ Moved(players[s], delta) \in PlayerState
                      /\ Moved(players[s], delta).side = players[s].side
                      /\ Moved(players[s], delta).pos = Clamp(FreePosition(players[s], delta))
    OBVIOUS
  <2>1. Sound(players[s])
    BY InvRoster DEF SoundRoster, Member
  <2>2. Sound(Moved(players[s], delta)) /\ SamePlayer(Moved(players[s], delta), players[s])
    BY <1>2, <2>1, MovedSound
  <2>3. Moved(players[s], delta).pos = Clamp(FreePosition(players[s], delta))
    BY <2>1 DEF Moved, Sound, PlayerState
  <2> QED
    BY <2>2, <2>3 DEF Sound, SamePlayer
<1>6. \A p \in PlayerState :
         /\ EndDash(p) \in PlayerState /\ EndDash(p).pos = p.pos /\ EndDash(p).dash = 0
         /\ EndDash(p).side = p.side
         /\ Respawn(p).pos = SpawnPosition(p.side) /\ Respawn(p).dash = p.dash
         /\ Respawn(p) \in PlayerState
  <2> TAKE p \in PlayerState
  <2>1. EndDash(p) \in PlayerState /\ Respawn(p) \in PlayerState
    BY StillPlayer
  <2>2. EndDash(p).pos = p.pos /\ EndDash(p).dash = 0 /\ EndDash(p).side = p.side
    BY DEF EndDash, PlayerState
  <2>3. Respawn(p).pos = SpawnPosition(p.side) /\ Respawn(p).dash = p.dash
    BY DEF Respawn, PlayerState
  <2> QED
    BY <2>1, <2>2, <2>3
<1>7. /\ DOMAIN roster = Member
      /\ collisions = {} => \A s \in Member : roster[s] = moved[s]
      /\ collisions # {} => \A s \in Member : roster[s] = Respawn(EndDash(moved[s]))
  OBVIOUS
<1> HIDE DEF delta, collisions, moved, roster
<1>8. \A s \in Member :
         /\ roster[s] \in PlayerState
         /\ collisions = {} => roster[s].pos = Clamp(FreePosition(players[s], delta))
         /\ collisions # {} => /\ roster[s].pos = SpawnPosition(players[s].side)
                               /\ roster[s].dash = 0
  BY <1>5, <1>6, <1>7
<1>9. /\ Member' = Member
      /\ \A s \in Member : players'[s].pos = roster[s].pos
                           /\ (roster[s].dash = 0 => players'[s].dash = 0)
  <2>1. CASE gameRemaining' = 0
    <3>1. players' = [s \in DOMAIN roster |-> EndDash(roster[s])]
      BY <1>3, <2>1 DEF FinishGame
    <3> QED
      BY <1>6, <1>7, <1>8, <3>1 DEF Member
  <2>2. CASE gameRemaining' # 0
    BY <1>3, <1>7, <2>2 DEF Member
  <2> QED
    BY <2>1, <2>2
<1>10. collisions = {} => sideScores' = sideScores
  BY <1>1, <1>3
<1>11. collisions # {} => sideScores' # sideScores
  <2> SUFFICES ASSUME NEW c \in collisions
               PROVE  sideScores' # sideScores
    OBVIOUS
  <2>1. GetAttackingSideAtTickTime(c) \in Sides
    BY <1>1 DEF GetAttackingSideAtTickTime, Opposite, Sides
  <2>2. PICK side \in Sides : side = GetAttackingSideAtTickTime(c)
    BY <2>1
  <2>3. sideScores'[side] = sideScores[side] + 1 /\ sideScores[side] \in Nat
    BY <1>1, <1>3, <2>2
  <2> QED
    BY <2>3
<1> QED
  BY <1>2, <1>4, <1>8, <1>9, <1>10, <1>11 DEF collisions

\* When two players of the room touch on their free paths, the tick finds it.
LEMMA CollisionFound ==
  ASSUME RoomInv, NEW delta \in Nat \ {0}, NEW u \in 0 .. delta,
         NEW r \in Member, NEW s \in Member, r # s,
         Touching(FreePosition(players[r], u), FreePosition(players[s], u))
  PROVE  PlayerCollisions(players, delta) # {}
<1>1. /\ players[r] \in PlayerState /\ players[s] \in PlayerState /\ u \in Nat
      /\ players[r].side # players[s].side
      /\ players[r].side \in Sides /\ players[s].side \in Sides
  BY DEF RoomInv, TypeOK, SeatsAndIdsDistinct, PlayerState
<1>2. ASSUME NEW flame \in Member, NEW frost \in Member,
             players[flame].side = "Flame", players[frost].side = "Frost",
             FindPlayerCollisionTimeDuringTick(players[flame], players[frost], delta) # {}
      PROVE  PlayerCollisions(players, delta) # {}
  BY <1>2 DEF PlayerCollisions, Member
<1>3. FindPlayerCollisionTimeDuringTick(players[r], players[s], delta) # {}
  BY <1>1, ContactFound
<1>4. FindPlayerCollisionTimeDuringTick(players[s], players[r], delta) # {}
  <2>1. FreePosition(players[r], u) \in Vector /\ FreePosition(players[s], u) \in Vector
    BY <1>1, FreePositionType
  <2>2. Touching(FreePosition(players[s], u), FreePosition(players[r], u))
    BY <2>1, TouchingSymmetric
  <2> QED
    BY <1>1, <2>2, ContactFound
<1> QED
  BY <1>1, <1>2, <1>3, <1>4 DEF Sides

\* An input moves nobody.
LEMMA InputKeepsPositions ==
  ASSUME RoomInv, NEW s \in Sessions, NEW axes \in InputAxes, NEW dashInput \in BOOLEAN,
         ApplyPlayerInput(s, axes, dashInput)
  PROVE  Member' = Member /\ \A r \in Member : players'[r].pos = players[r].pos
<1>1. \A p \in PlayerState : \A dir : WithInput(p, dir, dashInput).pos = p.pos
  BY DEF WithInput, PlayerState
<1>2. players \in [Member -> PlayerState] /\ s \in Member
  BY DEF RoomInv, TypeOK, ApplyPlayerInput
<1>3. players' = [players EXCEPT
                    ![s] = WithInput(players[s], NormalizePlayerInput(axes), dashInput)]
  BY DEF ApplyPlayerInput
<1> QED
  BY <1>1, <1>2, <1>3 DEF Member

\* Only a tick lets time pass in a game that goes on.
LEMMA TimePassesInTicks ==
  ASSUME RoomInv, Next, gameState = "Playing", gameState' # "Waiting"
  PROVE  \/ \E tickDelta \in 1 .. MaxTickDelta : Tick(tickDelta)
         \/ /\ UNCHANGED gameVars
            /\ \A s \in Member \cap Member' : players'[s].pos = players[s].pos
<1>1. ASSUME NEW s \in Sessions, Enter(s)
      PROVE  FALSE
  BY <1>1, JoinedRoster DEF Enter, RoomInv, GameStateConsistent
<1>2. ASSUME NEW s \in Sessions, Leave(s)
      PROVE  /\ UNCHANGED gameVars
             /\ \A r \in Member \cap Member' : players'[r].pos = players[r].pos
  BY <1>2 DEF Leave, StopGame, Member
<1>3. ASSUME NEW s \in Sessions, NEW axes \in InputAxes, NEW dashInput \in BOOLEAN,
             ApplyPlayerInput(s, axes, dashInput)
      PROVE  /\ UNCHANGED gameVars
             /\ \A r \in Member \cap Member' : players'[r].pos = players[r].pos
  BY <1>3, InputKeepsPositions DEF ApplyPlayerInput
<1> QED
  BY <1>1, <1>2, <1>3 DEF Next

\* No contact of a tick is missed: when the bodies touch at any moment of it a
\* side gets a point and both players are on their spawns (Tick).
THEOREM EveryContactScores == Spec => ContactScores
<1>1. ASSUME RoomInv, Next, gameState = "Playing", gameRemaining' < gameRemaining,
             gameState' # "Waiting", NEW r \in Member, NEW s \in Member, r # s,
             NEW t \in 0 .. gameRemaining - gameRemaining',
             Touching(FreePosition(players[r], t), FreePosition(players[s], t))
      PROVE  /\ sideScores' # sideScores
             /\ players'[r].pos = SpawnPosition(players[r].side)
             /\ players'[r].dash = 0
  <2>1. PICK tickDelta \in 1 .. MaxTickDelta : Tick(tickDelta)
    <3>1. gameRemaining \in Nat
      BY <1>1 DEF RoomInv, TypeOK
    <3>2. gameRemaining' # gameRemaining
      BY <1>1, <3>1
    <3> QED
      BY <1>1, <3>2, TimePassesInTicks DEF gameVars, clockVars
  <2> DEFINE delta == gameRemaining - gameRemaining'
  <2>2. /\ delta \in Nat \ {0}
        /\ PlayerCollisions(players, delta) # {} =>
             /\ sideScores' # sideScores
             /\ \A m \in Member : /\ players'[m].pos = SpawnPosition(players[m].side)
                                  /\ players'[m].dash = 0
    BY <1>1, <2>1, TickMoves
  <2>3. t \in 0 .. delta
    OBVIOUS
  <2> HIDE DEF delta
  <2>4. PlayerCollisions(players, delta) # {}
    BY <1>1, <2>2, <2>3, CollisionFound
  <2> QED
    BY <2>2, <2>4
<1> DEFINE Scores == gameState = "Playing" /\ gameRemaining' < gameRemaining /\ gameState' # "Waiting" =>
              \A r, s \in Member :
                (/\ r # s
                 /\ \E t \in 0 .. gameRemaining - gameRemaining' :
                      Touching(FreePosition(players[r], t), FreePosition(players[s], t)))
                => /\ sideScores' # sideScores
                   /\ players'[r].pos = SpawnPosition(players[r].side)
                   /\ players'[r].dash = 0
<1>2. RoomInv /\ [Next]_vars => [Scores]_vars
  BY <1>1
<1>3. ContactScores <=> [][Scores]_vars
  BY DEF ContactScores
<1> HIDE DEF Scores
<1> QED
  BY <1>2, <1>3, RoomInvariant, PTL DEF Spec

\* The two spawns are further apart than a contact.
LEMMA SpawnsApart ==
  ASSUME NEW side \in Sides, NEW other \in Sides, side # other
  PROVE  ~Touching(SpawnPosition(side), SpawnPosition(other))
<1>1. SpawnX \in Nat /\ CollisionDistance \in Nat \ {0} /\ 2 * SpawnX > CollisionDistance
  BY RoomAssumption, KinematicsAssumption
<1> DEFINE apart == Minus(SpawnPosition(side), SpawnPosition(other))
           far == 2 * SpawnX
<1>2. far \in Nat /\ far > CollisionDistance
  BY <1>1
<1>3. apart = [x |-> -far, y |-> 0] \/ apart = [x |-> far, y |-> 0]
  BY <1>1 DEF SpawnPosition, Minus, Sides
<1> HIDE DEF apart, far
<1>4. Dot(apart, apart) = far * far
  <2>1. (-far) * (-far) = far * far /\ far * far + 0 * 0 = far * far
    BY <1>2
  <2>2. (-far) * (-far) + 0 * 0 = far * far
    BY <1>2
  <2> QED
    BY <1>3, <2>1, <2>2 DEF Dot
<1>5. far * far > CollisionDistance * CollisionDistance
  <2>1. CollisionDistance + 1 \in Nat /\ CollisionDistance + 1 <= far
    BY <1>1, <1>2
  <2>2. (CollisionDistance + 1) * (CollisionDistance + 1) <= far * far
    BY <1>2, <2>1, SquareMonotone
  <2>3. (CollisionDistance + 1) * (CollisionDistance + 1)
          = CollisionDistance * CollisionDistance + 2 * CollisionDistance + 1
    BY <1>1
  <2>4. CollisionDistance * CollisionDistance \in Int /\ far * far \in Int
    BY <1>1, <1>2
  <2> QED
    BY <1>1, <2>2, <2>3, <2>4
<1>6. far * far \in Int /\ CollisionDistance * CollisionDistance \in Int
  BY <1>1, <1>2
<1>7. ~(Dot(apart, apart) <= CollisionDistance * CollisionDistance)
  BY <1>4, <1>5, <1>6
<1> QED
  BY <1>7 DEF Touching, apart

\* Two players of the room have both sides between them.
LEMMA TwoAreReady ==
  ASSUME NEW roster, SoundRoster(roster), NEW nextId, DistinctSeats(roster, nextId),
         NEW r \in DOMAIN roster, NEW s \in DOMAIN roster, r # s
  PROVE  IsAttackDefenseReady(roster)
BY DEF SoundRoster, DistinctSeats, IsAttackDefenseReady, HasPlayerOnSide, PlayerState, Sides

\* A position that the walls leave alone, or that is on one of them.
LEMMA ClampedOrOnWall ==
  ASSUME NEW v \in Vector
  PROVE  \/ Clamp(v) = v
         \/ Clamp(v).x \in {-WallX, WallX} \/ Clamp(v).y \in {-WallY, WallY}
<1>1. \A n \in Int, bound \in Nat : Bounded(n, bound) = n \/ Bounded(n, bound) \in {-bound, bound}
  BY DEF Bounded, Greatest, Least
<1>2. v = [x |-> v.x, y |-> v.y] /\ v.x \in Int /\ v.y \in Int
  BY DEF Vector
<1>3. WallX \in Nat /\ WallY \in Nat
  BY KinematicsAssumption
<1>4. /\ Bounded(v.x, WallX) = v.x \/ Bounded(v.x, WallX) \in {-WallX, WallX}
      /\ Bounded(v.y, WallY) = v.y \/ Bounded(v.y, WallY) \in {-WallY, WallY}
  BY <1>1, <1>2, <1>3
<1>5. Clamp(v) = [x |-> Bounded(v.x, WallX), y |-> Bounded(v.y, WallY)]
  BY DEF Clamp
<1> QED
  BY <1>2, <1>4, <1>5

\* A step leaves the players without a contact in the open.
LEMMA OverlapNext == RoomInv /\ OverlapOnlyAtWall /\ [Next]_vars => OverlapOnlyAtWall'
<1> SUFFICES ASSUME RoomInv, OverlapOnlyAtWall, [Next]_vars PROVE OverlapOnlyAtWall'
  OBVIOUS
<1>1. SoundRoster(players) /\ DistinctSeats(players, nextPlayerId)
  BY InvRoster
<1>2. ASSUME NEW s \in Sessions, Enter(s)
      PROVE  OverlapOnlyAtWall'
  <2>1. /\ SoundRoster(Joined(s)) /\ DistinctSeats(Joined(s), GeneratePlayerId(nextPlayerId))
        /\ gameState = "Waiting"
    BY <1>2, JoinedRoster DEF Enter, RoomInv, GameStateConsistent
  <2>2. CASE IsAttackDefenseReady(Joined(s))
    <3>1. players' = [r \in DOMAIN Joined(s) |->
                        NewPlayer(Joined(s)[r].playerId, Joined(s)[r].side)]
      BY <1>2, <2>1, <2>2 DEF Enter, StartGame
    <3>2. \A r \in Member' : r \in DOMAIN Joined(s)
                             /\ players'[r].pos = SpawnPosition(Joined(s)[r].side)
                             /\ Joined(s)[r].side \in Sides
      BY <2>1, <3>1 DEF Member, NewPlayer, SoundRoster, PlayerState
    <3>3. \A q, r \in Member' : q # r => Joined(s)[q].side # Joined(s)[r].side
      BY <2>1, <3>2 DEF DistinctSeats
    <3>4. \A q, r \in Member' : q # r => ~Touching(players'[q].pos, players'[r].pos)
      BY <3>2, <3>3, SpawnsApart
    <3> QED
      BY <3>4 DEF OverlapOnlyAtWall
  <2>3. CASE ~IsAttackDefenseReady(Joined(s))
    <3>1. players' = Joined(s)
      BY <1>2, <2>3 DEF Enter
    <3>2. \A q, r \in Member' : q = r
      BY <2>1, <2>3, <3>1, TwoAreReady DEF Member
    <3> QED
      BY <3>2 DEF OverlapOnlyAtWall
  <2> QED
    BY <2>2, <2>3
<1>3. ASSUME Member' \subseteq Member, \A s \in Member' : players'[s].pos = players[s].pos
      PROVE  OverlapOnlyAtWall'
  BY <1>3 DEF OverlapOnlyAtWall, OnWall
<1>4. ASSUME NEW s \in Sessions, Leave(s)
      PROVE  OverlapOnlyAtWall'
  <2>1. Member' \subseteq Member /\ \A r \in Member' : players'[r].pos = players[r].pos
    BY <1>4 DEF Leave, Member
  <2> QED
    BY <1>3, <2>1
<1>5. ASSUME NEW s \in Sessions, NEW axes \in InputAxes, NEW dashInput \in BOOLEAN,
             ApplyPlayerInput(s, axes, dashInput)
      PROVE  OverlapOnlyAtWall'
  <2>1. Member' = Member /\ \A r \in Member : players'[r].pos = players[r].pos
    BY <1>5, InputKeepsPositions
  <2> QED
    BY <1>3, <2>1
<1>6. ASSUME NEW tickDelta \in 1 .. MaxTickDelta, Tick(tickDelta)
      PROVE  OverlapOnlyAtWall'
  <2> DEFINE delta == gameRemaining - gameRemaining'
             collisions == PlayerCollisions(players, delta)
  <2>1. /\ delta \in Nat \ {0}
        /\ Member' = Member
        /\ collisions = {} => \A s \in Member :
                                 players'[s].pos = Clamp(FreePosition(players[s], delta))
        /\ collisions # {} => \A s \in Member :
                                 players'[s].pos = SpawnPosition(players[s].side)
    BY <1>6, TickMoves
  <2> HIDE DEF delta
  <2> SUFFICES ASSUME NEW r \in Member, NEW s \in Member, r # s,
                      ~OnWall(players'[r]), ~OnWall(players'[s])
               PROVE  ~Touching(players'[r].pos, players'[s].pos)
    BY <2>1 DEF OverlapOnlyAtWall, OnWall
  <2>2. CASE collisions # {}
    <3>1. players[r].side # players[s].side /\ players[r].side \in Sides /\ players[s].side \in Sides
      BY <1>1 DEF DistinctSeats, SoundRoster, PlayerState, Member
    <3> QED
      BY <2>1, <2>2, <3>1, SpawnsApart
  <2>3. CASE collisions = {}
    <3> DEFINE v == FreePosition(players[r], delta)
               w == FreePosition(players[s], delta)
    <3>1. players[r] \in PlayerState /\ players[s] \in PlayerState /\ delta \in Nat
      BY <1>1, <2>1 DEF SoundRoster, Member
    <3>2. v \in Vector /\ w \in Vector
      BY <3>1, FreePositionType
    <3>3. players'[r].pos = Clamp(v) /\ players'[s].pos = Clamp(w)
      BY <2>1, <2>3
    <3>4. ~Touching(v, w)
      <4>1. delta \in 0 .. delta
        BY <2>1
      <4> QED
        BY <2>1, <2>3, <4>1, CollisionFound
    <3> HIDE DEF v, w
    <3>5. Clamp(v) = v /\ Clamp(w) = w
      BY <3>2, <3>3, ClampedOrOnWall DEF OnWall
    <3> QED
      BY <3>3, <3>4, <3>5
  <2> QED
    BY <2>2, <2>3
<1>7. CASE UNCHANGED vars
  BY <1>7 DEF vars, OverlapOnlyAtWall, OnWall, Member
<1> QED
  BY <1>2, <1>4, <1>5, <1>6, <1>7 DEF Next

\* After a step two players stand in contact only if a wall stopped one of
\* them: nothing else separates where they stand from the free paths on which
\* the tick looks for their contact (Tick).
THEOREM OverlapsAtWalls == Spec => []OverlapOnlyAtWall
<1>1. Init => OverlapOnlyAtWall
  BY DEF Init, OverlapOnlyAtWall, Member
<1>2. RoomInv /\ OverlapOnlyAtWall /\ [Next]_vars => OverlapOnlyAtWall'
  BY OverlapNext
<1> QED
  BY <1>1, <1>2, RoomInvariant, PTL DEF Spec

-----------------------------------------------------------------------------
(* The speed limit.                                                        *)

\* A direction of at most full strength.
Limited(v) == Dot(v, v) <= AxisMax * AxisMax

\* The speed of a player has a limit because its directions have one.
LimitedPlayer(p) == Limited(p.dir) /\ Limited(p.dashDir)
DirectionsLimited == \A s \in Member : LimitedPlayer(players[s])

\* A factor that is not zero can be taken away.
LEMMA CancelFactor ==
  ASSUME NEW m \in Int, NEW n \in Int, NEW k \in Int, k > 0, m * k <= n * k
  PROVE  m <= n
<1> SUFFICES ASSUME m > n PROVE FALSE
  OBVIOUS
<1>1. PICK d \in Nat : m = n + d /\ d > 0
  <2>1. m - n \in Nat /\ m = n + (m - n) /\ m - n > 0
    OBVIOUS
  <2> QED
    BY <2>1
<1>2. m * k = n * k + d * k /\ d * k > 0 /\ n * k \in Int /\ d * k \in Int
  BY <1>1
<1> QED
  BY <1>2

\* The input a player is given has at most full strength, whatever was sent.
LEMMA NormalizeLimited ==
  ASSUME NEW raw \in Vector
  PROVE  Limited(NormalizePlayerInput(raw))
<1> DEFINE R == Dot(raw, raw)
           A2 == AxisMax * AxisMax
<1>1. /\ raw.x \in Int /\ raw.y \in Int /\ A2 \in Int /\ R \in Int /\ A2 >= 0
      /\ R = raw.x * raw.x + raw.y * raw.y
  <2>1. AxisMax \in Int /\ raw.x \in Int /\ raw.y \in Int
    BY KinematicsAssumption DEF Vector
  <2>2. AxisMax * AxisMax >= 0
    BY <2>1, SquareNotNegative
  <2> QED
    BY <2>1, <2>2 DEF Dot
<1>2. CASE ~(R > A2)
  <2>1. NormalizePlayerInput(raw) = raw
    BY <1>2 DEF NormalizePlayerInput
  <2>2. R <= A2
    <3> HIDE DEF R, A2
    <3> QED
      BY <1>1, <1>2
  <2> QED
    BY <2>1, <2>2 DEF Limited
<1>3. CASE R > A2
  <2> DEFINE kx == OnUnitCircle(raw.x, raw)
             ky == OnUnitCircle(raw.y, raw)
  <2>1. /\ kx \in Int /\ (kx * kx) * R <= A2 * (raw.x * raw.x)
        /\ ky \in Int /\ (ky * ky) * R <= A2 * (raw.y * raw.y)
    BY <1>1, ComponentSize
  <2>2. NormalizePlayerInput(raw) = [x |-> kx, y |-> ky]
    BY <1>3 DEF NormalizePlayerInput
  <2> HIDE DEF kx, ky, A2, R
  <2> DEFINE K == kx * kx + ky * ky
  <2>3. K \in Int /\ K * R = (kx * kx) * R + (ky * ky) * R
    BY <1>1, <2>1
  <2>4. A2 * R = A2 * (raw.x * raw.x) + A2 * (raw.y * raw.y)
    BY <1>1
  <2>5. /\ (kx * kx) * R \in Int /\ (ky * ky) * R \in Int
        /\ A2 * (raw.x * raw.x) \in Int /\ A2 * (raw.y * raw.y) \in Int
    BY <1>1, <2>1
  <2> HIDE DEF K
  <2>6. K * R <= A2 * R
    BY <2>1, <2>3, <2>4, <2>5
  <2>7. K <= A2
    BY <1>1, <1>3, <2>3, <2>6, CancelFactor
  <2> QED
    BY <2>2, <2>7 DEF K, A2, Limited, Dot
<1> QED
  BY <1>2, <1>3

\* Walking n and dashing m lengths in directions of at most full strength
\* leads at most as far as both in the same direction.
LEMMA ReachOfTwo ==
  ASSUME NEW m \in Nat, NEW n \in Nat, NEW u \in Vector, NEW v \in Vector, Limited(u), Limited(v)
  PROVE  LET way == Plus(Times(m, u), Times(n, v))
             reach == AxisMax * (m + n)
         IN  Dot(way, way) <= reach * reach
<1> DEFINE A2 == AxisMax * AxisMax
           U == u.x * u.x + u.y * u.y
           V == v.x * v.x + v.y * v.y
           W == u.x * v.x + u.y * v.y
           way == Plus(Times(m, u), Times(n, v))
           reach == AxisMax * (m + n)
<1>1. /\ u.x \in Int /\ u.y \in Int /\ v.x \in Int /\ v.y \in Int
      /\ AxisMax \in Int
  BY KinematicsAssumption DEF Vector
<1>2. U \in Int /\ V \in Int /\ W \in Int /\ A2 \in Int
  BY <1>1
<1>3. U <= A2 /\ V <= A2
  BY DEF Limited, Dot
<1>4. W <= A2
  <2>1. (u.x - v.x) * (u.x - v.x) >= 0 /\ (u.y - v.y) * (u.y - v.y) >= 0
    BY <1>1, SquareNotNegative
  <2>2. (u.x - v.x) * (u.x - v.x) + (u.y - v.y) * (u.y - v.y) = U + V - 2 * W
    BY <1>1
  <2>3. (u.x - v.x) * (u.x - v.x) \in Int /\ (u.y - v.y) * (u.y - v.y) \in Int
    BY <1>1
  <2> HIDE DEF U, V, W, A2
  <2>4. U + V - 2 * W >= 0
    BY <2>1, <2>2, <2>3
  <2> QED
    BY <1>2, <1>3, <2>4
<1>5. Dot(way, way) = (m * m) * U + 2 * ((m * n) * W) + (n * n) * V
  <2>1. Dot(way, way) = (m * u.x + n * v.x) * (m * u.x + n * v.x)
                          + (m * u.y + n * v.y) * (m * u.y + n * v.y)
    BY DEF Dot, Plus, Times
  <2>2. \A a, b \in Int : (m * a + n * b) * (m * a + n * b)
                            = (m * m) * (a * a) + 2 * ((m * n) * (a * b)) + (n * n) * (b * b)
    OBVIOUS
  <2>3. Dot(way, way) = ((m * m) * (u.x * u.x) + 2 * ((m * n) * (u.x * v.x)) + (n * n) * (v.x * v.x))
                          + ((m * m) * (u.y * u.y) + 2 * ((m * n) * (u.y * v.y)) + (n * n) * (v.y * v.y))
    BY <1>1, <2>1, <2>2
  <2> HIDE DEF way
  <2> QED
    BY <1>1, <2>3
<1>6. reach * reach = (m * m) * A2 + 2 * ((m * n) * A2) + (n * n) * A2
  BY <1>1
<1> HIDE DEF U, V, W, A2, way, reach
<1>7. \A k \in Nat, a, b \in Int : a <= b => k * a <= k * b
  <2> TAKE k \in Nat, a, b \in Int
  <2> HAVE a <= b
  <2>1. b - a \in Nat /\ b = a + (b - a)
    OBVIOUS
  <2>2. PICK d \in Nat : b = a + d
    BY <2>1
  <2>3. k * b = k * a + k * d /\ k * d >= 0 /\ k * a \in Int /\ k * d \in Int
    BY <2>2
  <2> QED
    BY <2>3
<1>8. m * m \in Nat /\ m * n \in Nat /\ n * n \in Nat
  <2>1. m * m >= 0 /\ m * n >= 0 /\ n * n >= 0 /\ m * m \in Int /\ m * n \in Int /\ n * n \in Int
    OBVIOUS
  <2> QED
    BY <2>1
<1>9. /\ (m * m) * U <= (m * m) * A2
      /\ (m * n) * W <= (m * n) * A2
      /\ (n * n) * V <= (n * n) * A2
  BY <1>2, <1>3, <1>4, <1>7, <1>8
<1> DEFINE a == (m * m) * U
           b == (m * n) * W
           c == (n * n) * V
           d == (m * m) * A2
           e == (m * n) * A2
           f == (n * n) * A2
<1>10. /\ a \in Int /\ b \in Int /\ c \in Int /\ d \in Int /\ e \in Int /\ f \in Int
       /\ a <= d /\ b <= e /\ c <= f
       /\ Dot(way, way) = a + 2 * b + c /\ reach * reach = d + 2 * e + f
  BY <1>2, <1>5, <1>6, <1>8, <1>9
<1> HIDE DEF a, b, c, d, e, f
<1>11. Dot(way, way) <= reach * reach
  BY <1>10
<1> QED
  BY <1>11 DEF way, reach

\* A wall only shortens the way of a player.
LEMMA WallsShorten ==
  ASSUME NEW pos \in Arena, NEW v \in Vector
  PROVE  Dot(Minus(Clamp(v), pos), Minus(Clamp(v), pos)) <= Dot(Minus(v, pos), Minus(v, pos))
<1>1. ASSUME NEW bound \in Nat, NEW n \in -bound .. bound, NEW k \in Int
      PROVE  /\ Bounded(k, bound) \in Int
             /\ (Bounded(k, bound) - n) * (Bounded(k, bound) - n) <= (k - n) * (k - n)
  <2> DEFINE near == Bounded(k, bound) - n
             far == k - n
  <2>1. n \in Int /\ Bounded(k, bound) \in Int
    BY DEF Bounded, Greatest, Least
  <2>2. far \in Int /\ near \in Int
    BY <2>1
  <2>3. (0 <= near /\ near <= far) \/ (far <= near /\ near <= 0)
    BY DEF Bounded, Greatest, Least
  <2> HIDE DEF near, far
  <2>4. ASSUME 0 <= near, near <= far
        PROVE  near * near <= far * far
    BY <2>2, <2>4, SquareMonotone
  <2>5. ASSUME far <= near, near <= 0
        PROVE  near * near <= far * far
    <3>1. -near \in Nat /\ -far \in Nat /\ -near <= -far
      BY <2>2, <2>5
    <3>2. (-near) * (-near) <= (-far) * (-far)
      BY <3>1, SquareMonotone
    <3>3. (-near) * (-near) = near * near /\ (-far) * (-far) = far * far
      BY <2>2
    <3> QED
      BY <3>2, <3>3
  <2>6. near * near <= far * far
    BY <2>3, <2>4, <2>5
  <2> QED
    BY <2>1, <2>6 DEF near, far
<1>2. /\ pos.x \in -WallX .. WallX /\ pos.y \in -WallY .. WallY
      /\ v.x \in Int /\ v.y \in Int /\ WallX \in Nat /\ WallY \in Nat
  BY KinematicsAssumption DEF Arena, Vector
<1> DEFINE cx == Bounded(v.x, WallX)
           cy == Bounded(v.y, WallY)
<1>3. /\ cx \in Int /\ (cx - pos.x) * (cx - pos.x) <= (v.x - pos.x) * (v.x - pos.x)
      /\ cy \in Int /\ (cy - pos.y) * (cy - pos.y) <= (v.y - pos.y) * (v.y - pos.y)
  BY <1>1, <1>2
<1> HIDE DEF cx, cy
<1>4. /\ Dot(Minus(Clamp(v), pos), Minus(Clamp(v), pos))
            = (cx - pos.x) * (cx - pos.x) + (cy - pos.y) * (cy - pos.y)
      /\ Dot(Minus(v, pos), Minus(v, pos))
            = (v.x - pos.x) * (v.x - pos.x) + (v.y - pos.y) * (v.y - pos.y)
  BY DEF Dot, Minus, Clamp, cx, cy
<1>5. /\ (cx - pos.x) * (cx - pos.x) \in Int /\ (v.x - pos.x) * (v.x - pos.x) \in Int
      /\ (cy - pos.y) * (cy - pos.y) \in Int /\ (v.y - pos.y) * (v.y - pos.y) \in Int
  <2>1. pos.x \in Int /\ pos.y \in Int
    BY <1>2
  <2> QED
    BY <1>2, <1>3, <2>1
<1> DEFINE a == (cx - pos.x) * (cx - pos.x)
           b == (v.x - pos.x) * (v.x - pos.x)
           c == (cy - pos.y) * (cy - pos.y)
           d == (v.y - pos.y) * (v.y - pos.y)
<1>6. a \in Int /\ b \in Int /\ c \in Int /\ d \in Int /\ a <= b /\ c <= d
  BY <1>3, <1>5
<1>7. /\ Dot(Minus(Clamp(v), pos), Minus(Clamp(v), pos)) = a + c
      /\ Dot(Minus(v, pos), Minus(v, pos)) = b + d
  BY <1>4
<1> HIDE DEF a, b, c, d
<1> QED
  BY <1>6, <1>7

\* No operation on a player gives it a direction of more than full strength.
LEMMA PlayerLimited ==
  /\ \A id, side : LimitedPlayer(NewPlayer(id, side))
  /\ \A p \in PlayerState : LimitedPlayer(p) =>
        /\ LimitedPlayer(EndDash(p)) /\ LimitedPlayer(Respawn(p))
        /\ \A delta : LimitedPlayer(Moved(p, delta))
        /\ \A dir, dashInput : Limited(dir) => LimitedPlayer(WithInput(p, dir, dashInput))
<1>1. Limited(Zero)
  <2>1. AxisMax * AxisMax >= 0
    BY KinematicsAssumption, SquareNotNegative
  <2>2. Dot(Zero, Zero) = 0
    BY DEF Dot, Zero
  <2> QED
    BY <2>1, <2>2 DEF Limited
<1>2. \A id, side : LimitedPlayer(NewPlayer(id, side))
  BY <1>1 DEF NewPlayer, LimitedPlayer
<1>3. ASSUME NEW p \in PlayerState, LimitedPlayer(p)
      PROVE  /\ LimitedPlayer(EndDash(p)) /\ LimitedPlayer(Respawn(p))
             /\ \A delta : LimitedPlayer(Moved(p, delta))
             /\ \A dir, dashInput : Limited(dir) => LimitedPlayer(WithInput(p, dir, dashInput))
  <2>1. EndDash(p).dir = p.dir /\ EndDash(p).dashDir = Zero
    BY DEF EndDash, PlayerState
  <2>2. Respawn(p).dir = p.dir /\ Respawn(p).dashDir = p.dashDir
    BY DEF Respawn, PlayerState
  <2>3. \A delta : Moved(p, delta).dir = p.dir /\ Moved(p, delta).dashDir = p.dashDir
    BY DEF Moved, PlayerState
  <2>4. \A dir, dashInput : /\ WithInput(p, dir, dashInput).dir = dir
                            /\ WithInput(p, dir, dashInput).dashDir \in {p.dashDir, dir}
    BY DEF WithInput, PlayerState
  <2> QED
    BY <1>1, <1>3, <2>1, <2>2, <2>3, <2>4 DEF LimitedPlayer
<1> QED
  BY <1>2, <1>3

\* Nor does a step of the room.
LEMMA LimitedNext == RoomInv /\ DirectionsLimited /\ [Next]_vars => DirectionsLimited'
<1> SUFFICES ASSUME RoomInv, DirectionsLimited, [Next]_vars PROVE DirectionsLimited'
  OBVIOUS
<1>1. players \in [Member -> PlayerState]
  BY DEF RoomInv, TypeOK
<1>2. ASSUME NEW s \in Sessions, Enter(s)
      PROVE  DirectionsLimited'
  <2>1. \A r \in DOMAIN Joined(s) : LimitedPlayer(Joined(s)[r])
    BY <1>1, PlayerLimited DEF Joined, DirectionsLimited
  <2>2. \/ players' = Joined(s)
        \/ players' = [r \in DOMAIN Joined(s) |->
                         NewPlayer(Joined(s)[r].playerId, Joined(s)[r].side)]
    BY <1>2 DEF Enter, StartGame
  <2> QED
    BY <2>1, <2>2, PlayerLimited DEF DirectionsLimited, Member
<1>3. ASSUME NEW s \in Sessions, Leave(s)
      PROVE  DirectionsLimited'
  BY <1>3 DEF Leave, DirectionsLimited, Member
<1>4. ASSUME NEW s \in Sessions, NEW axes \in InputAxes, NEW dashInput \in BOOLEAN,
             ApplyPlayerInput(s, axes, dashInput)
      PROVE  DirectionsLimited'
  <2>1. axes \in Vector
    BY RoomAssumption, KinematicsAssumption DEF Vector
  <2>2. Limited(NormalizePlayerInput(axes))
    BY <2>1, NormalizeLimited
  <2>3. /\ s \in Member
        /\ players' = [players EXCEPT
                         ![s] = WithInput(players[s], NormalizePlayerInput(axes), dashInput)]
    BY <1>4 DEF ApplyPlayerInput
  <2>4. LimitedPlayer(WithInput(players[s], NormalizePlayerInput(axes), dashInput))
    BY <1>1, <2>2, <2>3, PlayerLimited DEF DirectionsLimited
  <2> QED
    BY <1>1, <2>3, <2>4 DEF DirectionsLimited, Member
<1>5. ASSUME NEW tickDelta \in 1 .. MaxTickDelta, Tick(tickDelta)
      PROVE  DirectionsLimited'
  <2> DEFINE delta == Least(tickDelta, gameRemaining)
             collisions == PlayerCollisions(players, delta)
             moved == [s \in Member |-> Moved(players[s], delta)]
             roster == IF collisions = {} THEN moved
                       ELSE [s \in Member |-> Respawn(EndDash(moved[s]))]
  <2>1. players' = roster \/ players' = [s \in DOMAIN roster |-> EndDash(roster[s])]
    BY <1>5 DEF Tick, FinishGame
  <2>2. delta \in Nat
    BY <1>1, RoomAssumption DEF Least, RoomInv, TypeOK
  <2>3. \A s \in Member : moved[s] \in PlayerState /\ LimitedPlayer(moved[s])
    <3> SUFFICES ASSUME NEW s \in Member
                 PROVE  Moved(players[s], delta) \in PlayerState /\ LimitedPlayer(Moved(players[s], delta))
      OBVIOUS
    <3>1. Sound(players[s]) /\ LimitedPlayer(players[s])
      BY InvRoster DEF SoundRoster, Member, DirectionsLimited
    <3>2. Sound(Moved(players[s], delta))
      BY <2>2, <3>1, MovedSound
    <3> QED
      BY <3>1, <3>2, PlayerLimited DEF Sound
  <2>4. \A p \in PlayerState : EndDash(p) \in PlayerState
    BY StillPlayer
  <2>5. \A p \in PlayerState : Respawn(p) \in PlayerState
    BY StillPlayer
  <2>6. /\ DOMAIN roster = Member
        /\ collisions = {} => \A s \in Member : roster[s] = moved[s]
        /\ collisions # {} => \A s \in Member : roster[s] = Respawn(EndDash(moved[s]))
    OBVIOUS
  <2> HIDE DEF collisions, moved, roster
  <2>7. \A s \in Member : roster[s] \in PlayerState /\ LimitedPlayer(roster[s])
    BY <2>3, <2>4, <2>5, <2>6, PlayerLimited
  <2> QED
    BY <2>1, <2>6, <2>7, PlayerLimited DEF DirectionsLimited, Member
<1>6. CASE UNCHANGED vars
  BY <1>6 DEF vars, DirectionsLimited, Member
<1> QED
  BY <1>2, <1>3, <1>4, <1>5, <1>6 DEF Next

\* A tick without a contact takes a player at most as far as the rest of its
\* dash and a walk for the rest of the time allow.
LEMMA TickWithinReach ==
  ASSUME NEW p \in PlayerState, LimitedPlayer(p), NEW delta \in Nat
  PROVE  LET dashing == Least(delta, p.dash)
             reach == AxisMax * (dashing * DashSpeed + (delta - dashing) * MoveSpeed)
             way == Minus(Clamp(FreePosition(p, delta)), p.pos)
         IN  Dot(way, way) <= reach * reach
<1> DEFINE dashing == Least(delta, p.dash)
           m == dashing * DashSpeed
           n == (delta - dashing) * MoveSpeed
           v == FreePosition(p, delta)
           free == Plus(Times(m, p.dashDir), Times(n, p.dir))
           reach == AxisMax * (m + n)
           way == Minus(Clamp(v), p.pos)
<1>1. /\ p.pos \in Arena /\ p.dir \in Vector /\ p.dashDir \in Vector /\ p.dash \in Nat
      /\ DashSpeed \in Nat /\ MoveSpeed \in Nat /\ AxisMax \in Nat
  BY RoomAssumption, KinematicsAssumption DEF PlayerState
<1>2. m \in Nat /\ n \in Nat
  <2>1. dashing \in Nat /\ delta - dashing \in Nat
    BY <1>1 DEF Least
  <2>2. \A j, k \in Nat : j * k \in Nat
    OBVIOUS
  <2> HIDE DEF dashing
  <2> QED
    BY <1>1, <2>1, <2>2
<1>3. v \in Vector /\ v = Plus(p.pos, free)
  BY FreePositionType DEF FreePosition
<1>4. Dot(free, free) <= reach * reach
  <2>1. Limited(p.dashDir) /\ Limited(p.dir)
    BY DEF LimitedPlayer
  <2> HIDE DEF m, n
  <2> QED
    BY <1>1, <1>2, <2>1, ReachOfTwo
<1>5. Minus(v, p.pos) = free
  <2>1. free \in Vector /\ p.pos.x \in Int /\ p.pos.y \in Int
    <3>1. p.pos.x \in Int /\ p.pos.y \in Int
      BY <1>1, KinematicsAssumption DEF Arena
    <3>2. /\ p.dir.x \in Int /\ p.dir.y \in Int /\ p.dashDir.x \in Int /\ p.dashDir.y \in Int
      BY <1>1 DEF Vector
    <3>3. m \in Int /\ n \in Int
      BY <1>2
    <3> HIDE DEF m, n
    <3> QED
      BY <3>1, <3>2, <3>3 DEF Plus, Times, Vector
  <2> HIDE DEF free, v
  <2> QED
    BY <1>3, <2>1 DEF Minus, Plus, Vector
<1>6. Dot(way, way) <= Dot(Minus(v, p.pos), Minus(v, p.pos))
  <2> HIDE DEF v
  <2> QED
    BY <1>1, <1>3, WallsShorten
<1>7. Dot(way, way) \in Int /\ Dot(free, free) \in Int /\ reach * reach \in Int
  <2>1. Clamp(v) \in Arena
    BY <1>3, ClampInArena
  <2>2. \A w, o \in Arena : Minus(w, o) \in Vector
    BY KinematicsAssumption DEF Minus, Arena, Vector
  <2>3. way \in Vector
    BY <1>1, <2>1, <2>2
  <2>4. free \in Vector
    <3>1. \A o, w \in Vector : Minus(w, o) \in Vector
      BY DEF Minus, Vector
    <3>2. p.pos \in Vector
      BY <1>1, KinematicsAssumption DEF Arena, Vector
    <3> QED
      BY <1>3, <1>5, <3>1, <3>2
  <2>5. \A w \in Vector : Dot(w, w) \in Int
    BY DEF Dot, Vector
  <2>6. reach \in Int
    <3> HIDE DEF m, n
    <3> QED
      BY <1>1, <1>2
  <2>7. reach * reach \in Int
    <3> HIDE DEF reach
    <3> QED
      BY <2>6
  <2> QED
    BY <2>3, <2>4, <2>5, <2>7
<1> HIDE DEF way, free, reach
<1>8. Dot(way, way) <= reach * reach
  BY <1>4, <1>5, <1>6, <1>7
<1> QED
  BY <1>8 DEF way, reach

\* The way of one player in one step, as SpeedLimited bounds it.
WithinReach(s) ==
    LET delta == gameRemaining - gameRemaining'
        dashing == Least(delta, players[s].dash)
        reach == AxisMax * (dashing * DashSpeed + (delta - dashing) * MoveSpeed)
        way == Minus(players'[s].pos, players[s].pos)
    IN  Dot(way, way) <= reach * reach

\* Every step of the room keeps the speed limit.
LEMMA SpeedNext ==
  ASSUME RoomInv, DirectionsLimited, Next, gameState = "Playing", sideScores' = sideScores,
         gameState' # "Waiting", NEW s \in Member \cap DOMAIN players'
  PROVE  WithinReach(s)
<1>1. players[s] \in PlayerState /\ LimitedPlayer(players[s]) /\ gameRemaining \in Nat
  BY DEF RoomInv, TypeOK, DirectionsLimited
<1>2. ASSUME NEW tickDelta \in 1 .. MaxTickDelta, Tick(tickDelta)
      PROVE  WithinReach(s)
  <2> DEFINE delta == gameRemaining - gameRemaining'
  <2>1. delta \in Nat /\ players'[s].pos = Clamp(FreePosition(players[s], delta))
    BY <1>2, TickMoves
  <2> HIDE DEF delta
  <2>2. LET dashing == Least(delta, players[s].dash)
            reach == AxisMax * (dashing * DashSpeed + (delta - dashing) * MoveSpeed)
            way == Minus(players'[s].pos, players[s].pos)
        IN  Dot(way, way) <= reach * reach
    BY <1>1, <2>1, TickWithinReach
  <2> QED
    BY <2>2 DEF WithinReach, delta
<1>3. ASSUME UNCHANGED gameVars, \A r \in Member \cap Member' : players'[r].pos = players[r].pos
      PROVE  WithinReach(s)
  <2> DEFINE delta == gameRemaining - gameRemaining'
             dashing == Least(delta, players[s].dash)
             reach == AxisMax * (dashing * DashSpeed + (delta - dashing) * MoveSpeed)
             way == Minus(players'[s].pos, players[s].pos)
  <2>1. players'[s].pos = players[s].pos
    BY <1>3 DEF Member
  <2>2. delta = 0
    BY <1>1, <1>3 DEF gameVars, clockVars
  <2>3. players[s].dash \in Nat /\ players[s].pos.x \in Int /\ players[s].pos.y \in Int
        /\ DashSpeed \in Nat /\ MoveSpeed \in Nat /\ AxisMax \in Nat
    BY <1>1, RoomAssumption, KinematicsAssumption DEF PlayerState, Arena
  <2>4. Dot(way, way) = 0
    BY <2>1, <2>3 DEF Dot, Minus
  <2>5. dashing = 0
    BY <2>2, <2>3 DEF Least
  <2>6. reach = 0
    <3>1. 0 * DashSpeed + (0 - 0) * MoveSpeed = 0 /\ AxisMax * 0 = 0
      BY <2>3
    <3> QED
      BY <2>2, <2>5, <3>1
  <2>7. reach * reach = 0
    BY <2>6
  <2> HIDE DEF way, reach
  <2>8. Dot(way, way) <= reach * reach
    BY <2>4, <2>7
  <2> QED
    BY <2>8 DEF WithinReach, way, reach
<1> QED
  BY <1>2, <1>3, TimePassesInTicks

\* The server decides how fast a player moves: whatever axes it accepts, one
\* step takes a player at most as far as the rest of its dash and a walk for
\* the rest of the tick allow, unless it respawns (NormalizePlayerInput, Tick).
THEOREM SpeedHasLimit == Spec => SpeedLimited
<1> DEFINE Limits == gameState = "Playing" /\ sideScores' = sideScores =>
              \A s \in Member \cap DOMAIN players' :
                LET delta == gameRemaining - gameRemaining'
                    dashing == Least(delta, players[s].dash)
                    reach == AxisMax * (dashing * DashSpeed + (delta - dashing) * MoveSpeed)
                    way == Minus(players'[s].pos, players[s].pos)
                IN  gameState' # "Waiting" => Dot(way, way) <= reach * reach
<1>1. Init => DirectionsLimited
  BY DEF Init, DirectionsLimited, Member
<1>2. RoomInv /\ DirectionsLimited /\ [Next]_vars => DirectionsLimited'
  BY LimitedNext
<1>3. RoomInv /\ DirectionsLimited /\ [Next]_vars => [Limits]_vars
  BY SpeedNext DEF WithinReach
<1>4. SpeedLimited <=> [][Limits]_vars
  BY DEF SpeedLimited
<1> HIDE DEF Limits
<1> QED
  BY <1>1, <1>2, <1>3, <1>4, RoomInvariant, PTL DEF Spec

-----------------------------------------------------------------------------
(* The room implements the lobby.                                          *)

SideOf(roster) == [s \in DOMAIN roster |-> roster[s].side]

\* The lobby sees a full room exactly when the room does.
LEMMA SeesReady ==
  ASSUME NEW roster
  PROVE  Abstract!Ready(SideOf(roster)) <=> IsAttackDefenseReady(roster)
BY DEF SideOf, Abstract!Ready, Abstract!FreeSides, Abstract!Sides,
       IsAttackDefenseReady, HasPlayerOnSide, Sides

\* A change that keeps who is who is not seen by the lobby.
LEMMA SeesSeats ==
  ASSUME NEW new, NEW old, SameSeats(new, old)
  PROVE  SideOf(new) = SideOf(old)
BY DEF SameSeats, SamePlayer, SideOf

\* Enter seats the session on the side the lobby gives out first.
LEMMA EnterSeats ==
  ASSUME RoomInv, NEW s \in Sessions, Enter(s)
  PROVE  Abstract!Seat(s)
<1> DEFINE side == Abstract!FirstFree(SideOf(players))
           seats == [r \in Member \cup {s} |-> IF r = s THEN side ELSE SideOf(players)[r]]
<1>1. /\ SoundRoster(Joined(s)) /\ DOMAIN Joined(s) = Member \cup {s}
      /\ ~IsAttackDefenseReady(players) /\ gameState = "Waiting" /\ s \notin Member
  BY JoinedRoster DEF Enter, CanEnter, RoomInv, GameStateConsistent
<1>2. SideOf(Joined(s)) = seats
  <2>1. side = IF "Flame" \in FreeSides THEN "Flame" ELSE "Frost"
    BY DEF Abstract!FirstFree, Abstract!FreeSides, Abstract!Sides, SideOf,
           FreeSides, HasPlayerOnSide, Sides
  <2>2. Joined(s)[s].side = side
    BY <2>1 DEF Joined, NewPlayer
  <2>3. \A r \in Member : r # s => Joined(s)[r].side = SideOf(players)[r]
    BY DEF Joined, SideOf, Member
  <2> HIDE DEF side
  <2> QED
    BY <1>1, <2>2, <2>3 DEF SideOf
<1>3. SideOf(players') = SideOf(Joined(s))
  <2>1. CASE IsAttackDefenseReady(Joined(s))
    BY <1>1, <2>1, RestartedRoster, SeesSeats DEF Enter, StartGame
  <2>2. CASE ~IsAttackDefenseReady(Joined(s))
    BY <2>2 DEF Enter
  <2> QED
    BY <2>1, <2>2
<1>4. gameState' = IF Abstract!Ready(SideOf(players')) THEN "Playing" ELSE gameState
  BY <1>1, <1>3, SeesReady DEF Enter, StartGame, gameVars
<1>5. DOMAIN SideOf(players) = Member
  BY DEF SideOf, Member
<1>6. ~Abstract!Ready(SideOf(players))
  BY <1>1, SeesReady
<1> HIDE DEF side
<1> QED
  BY <1>1, <1>2, <1>3, <1>4, <1>5, <1>6
     DEF Abstract!Seat, Abstract!Seated, SideOf, Member, side

\* Leave empties the seat of the session.
LEMMA LeaveUnseats ==
  ASSUME RoomInv, NEW s \in Sessions, Leave(s)
  PROVE  Abstract!Unseat({s})
<1>1. /\ s \in Member /\ players' = [r \in Member \ {s} |-> players[r]]
  BY DEF Leave
<1>2. SideOf(players') = [r \in Member \ {s} |-> SideOf(players)[r]]
  BY <1>1 DEF SideOf, Member
<1>3. gameState' = IF Abstract!Ready(SideOf(players')) THEN gameState ELSE "Waiting"
  BY SeesReady DEF Leave, StopGame, gameVars
<1> QED
  BY <1>1, <1>2, <1>3 DEF Abstract!Unseat, Abstract!Seated, SideOf, Member

\* A tick either goes unseen or finishes the game.
LEMMA TickFinishes ==
  ASSUME RoomInv, NEW tickDelta \in 1 .. MaxTickDelta, Tick(tickDelta)
  PROVE  Abstract!Finish \/ UNCHANGED Abstract!lobbyVars
<1>1. /\ SideOf(players') = SideOf(players)
      /\ gameState = "Playing" /\ gameState' \in {"Playing", "Finished"}
  BY TickEffect, SeesSeats
<1> QED
  BY <1>1 DEF Abstract!Finish, Abstract!lobbyVars, SideOf, Member

\* An input goes unseen.
LEMMA InputUnseen ==
  ASSUME RoomInv, NEW s \in Sessions, NEW axes \in InputAxes, NEW dashInput \in BOOLEAN,
         ApplyPlayerInput(s, axes, dashInput)
  PROVE  UNCHANGED Abstract!lobbyVars
<1>1. SideOf(players') = SideOf(players)
  <2>1. Sound(players[s]) /\ s \in Member /\ ElapsedTime \in 0 .. GameDuration
    BY InvRoster, RoomAssumption
       DEF SoundRoster, Member, ApplyPlayerInput, RoomInv, TypeOK, ElapsedTime
  <2>2. NormalizePlayerInput(axes) \in Vector
    <3>1. axes \in Vector
      BY RoomAssumption, KinematicsAssumption DEF Vector
    <3> QED
      BY <3>1, NormalizeType
  <2>3. SamePlayer(WithInput(players[s], NormalizePlayerInput(axes), dashInput), players[s])
    BY <2>1, <2>2, WithInputSound
  <2>4. SameSeats(players', players)
    BY <2>1, <2>3 DEF ApplyPlayerInput, SameSeats, SamePlayer, Member
  <2> QED
    BY <2>4, SeesSeats
<1> QED
  BY <1>1 DEF ApplyPlayerInput, gameVars, Abstract!lobbyVars, SideOf, Member

\* The room implements the lobby that the server is written against: a step of
\* the room is a step of the lobby or goes unseen (ImplementsLobby of Room).
THEOREM RoomImplementsLobby == Spec => ImplementsLobby
<1>1. Init => Abstract!LobbyInit
  BY DEF Init, Abstract!LobbyInit, Member
<1>2. RoomInv /\ [Next]_vars => [Abstract!LobbyNext]_(Abstract!lobbyVars)
  <2> SUFFICES ASSUME RoomInv, [Next]_vars
               PROVE  Abstract!LobbyNext \/ UNCHANGED Abstract!lobbyVars
    BY DEF Abstract!lobbyVars
  <2>1. CASE UNCHANGED vars
    BY <2>1 DEF vars, gameVars, Abstract!lobbyVars, Member
  <2>2. ASSUME NEW s \in Sessions, Enter(s)
        PROVE  Abstract!LobbyNext
    BY <2>2, EnterSeats DEF Abstract!LobbyNext
  <2>3. ASSUME NEW s \in Sessions, Leave(s)
        PROVE  Abstract!LobbyNext
    <3>1. {s} \in SUBSET Abstract!Seated
      BY <2>3 DEF Leave, Abstract!Seated, Member
    <3> QED
      BY <2>3, <3>1, LeaveUnseats DEF Abstract!LobbyNext
  <2>4. ASSUME NEW tickDelta \in 1 .. MaxTickDelta, Tick(tickDelta)
        PROVE  Abstract!LobbyNext \/ UNCHANGED Abstract!lobbyVars
    BY <2>4, TickFinishes DEF Abstract!LobbyNext
  <2> QED
    BY <2>1, <2>2, <2>3, <2>4, InputUnseen DEF Next
<1> QED
  BY <1>1, <1>2, RoomInvariant, PTL DEF Spec, ImplementsLobby, Abstract!LobbySpec

=============================================================================
