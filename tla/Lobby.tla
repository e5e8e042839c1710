------------------------------- MODULE Lobby -------------------------------
(***************************************************************************)
(* What a Room promises about who plays and when: a session holds at most  *)
(* one side, a side at most one session, the game starts exactly when the  *)
(* second side fills, and a game, running or finished, ends when a side    *)
(* empties.  Positions, timers and scores are left out.  Room implements   *)
(* this specification and Server is written on top of it.                  *)
(***************************************************************************)
EXTENDS Integers, FiniteSets

CONSTANT Sessions       \* the sessions that may ask to enter

VARIABLES
    sideOf,             \* the side of each session in the room
    phase               \* GamePlayState

lobbyVars == <<sideOf, phase>>

Sides == {"Flame", "Frost"}
GamePlayStates == {"Waiting", "Playing", "Finished"}

Seated == DOMAIN sideOf
FreeSides(seats) == Sides \ {seats[s] : s \in DOMAIN seats}

\* IsAttackDefenseReady: both sides are taken.
Ready(seats) == FreeSides(seats) = {}

\* Mutant: no side for the second player.
FlameOrNone(seats) == IF "Flame" \in FreeSides(seats) THEN "Flame" ELSE "None"

\* Flame is given out before Frost.
FirstFree(seats) == IF "Flame" \in FreeSides(seats) THEN "Flame" ELSE "Frost"

LobbyInit ==
    /\ sideOf = [s \in {} |-> "Flame"]
    /\ phase = "Waiting"

Seat(s) ==
    /\ s \notin Seated
    /\ ~Ready(sideOf)
    /\ sideOf' = [r \in Seated \cup {s} |-> IF r = s THEN FirstFree(sideOf) ELSE sideOf[r]]
    /\ phase' = IF Ready(sideOf') THEN "Playing" ELSE phase

\* Sessions leave; the game stops because a side is now empty.
Unseat(leaving) ==
    /\ leaving # {}
    /\ leaving \subseteq Seated
    /\ sideOf' = [r \in Seated \ leaving |-> sideOf[r]]
    /\ phase' = IF Ready(sideOf') THEN phase ELSE "Waiting"

Finish ==
    /\ phase = "Playing"
    /\ phase' = "Finished"
    /\ UNCHANGED sideOf

LobbyNext ==
    \/ \E s \in Sessions : Seat(s)
    \/ \E leaving \in SUBSET Seated : Unseat(leaving)
    \/ Finish

LobbySpec == LobbyInit /\ [][LobbyNext]_lobbyVars

LobbyTypeOK ==
    /\ DOMAIN sideOf \subseteq Sessions
    /\ sideOf \in [DOMAIN sideOf -> Sides]
    /\ phase \in GamePlayStates

\* No two sessions share a side, and a game is on or over exactly while both
\* sides are taken (Room::Enter, Room::Leave).
LobbyOrder ==
    /\ \A r, s \in Seated : sideOf[r] = sideOf[s] => r = s
    /\ phase = "Waiting" <=> ~Ready(sideOf)

=============================================================================
