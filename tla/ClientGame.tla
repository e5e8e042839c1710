----------------------------- MODULE ClientGame -----------------------------
(***************************************************************************)
(* What one player sees and does: the client's frame loop, which takes the *)
(* snapshots that have arrived, draws every player where it was a fixed    *)
(* delay ago and sends the keys when they changed, against its server,     *)
(* which ticks, takes the input and starts and stops games as opponents    *)
(* come and go.  Time is counted in ticks.  Where a snapshot has a player  *)
(* is abstracted to the snapshot's tick, so a player is drawn at a moment  *)
(* between two ticks; which way it faces is left out.                      *)
(***************************************************************************)
EXTENDS Integers, SequencesExt

CONSTANTS
    Delay,          \* how far in the past the picture is
    HistorySize,    \* snapshots the client keeps
    SendLimit,      \* inputs on their way before a send is refused
    MaxOpponents,   \* bound: opponents that come, one after the other
    MaxTime         \* bound: ticks of the server

ASSUME ClientGameAssumption ==
    /\ Delay \in Nat \ {0} /\ HistorySize \in Nat \ {0} /\ SendLimit \in Nat \ {0}
    /\ MaxOpponents \in Nat \ {0} /\ MaxTime \in Nat

\* The player of this client, and the opponents as they come.
Players == 0 .. MaxOpponents
Inputs == {"Neutral", "Move"}
GamePlayStates == {"Waiting", "Playing", "Finished"}
NoWorldState == [serverTick |-> 0, gamePlayState |-> "Waiting", players |-> {}]
WorldStateSnapshot ==
    [serverTick : 1 .. MaxTime, gamePlayState : GamePlayStates, players : SUBSET Players]
PlayerIdentity == [serverTick |-> 0, gamePlayState |-> "Playing", players |-> {}]

VARIABLES
    now,            \* the time, which is also the server's tick
    gameState,      \* of the room
    opponents,      \* that have come so far; the last is there in every game
    serverInput,    \* the input the room holds for this player
    downlink,       \* messages on their way to the client
    uplink,         \* inputs on their way to the server
    connected,
    keys,           \* what the player holds down
    client          \* the client's game state, history, picture and inputs

serverVars == <<now, gameState, opponents, serverInput>>
vars == <<now, gameState, opponents, serverInput, downlink, uplink, connected, keys, client>>

-----------------------------------------------------------------------------
(* The client, as functions of its state.  A player drawn at               *)
(* [tick, part, of] is where it was at the moment tick + part / of.        *)
(* picture has the moment every player is drawn at, smoothed (history) the *)
(* one it was last interpolated at.                                        *)

AtTick(tick) == [tick |-> tick, part |-> 0, of |-> 1]

\* Of a player who is not drawn, or was never interpolated.
NoMoment == AtTick(0)
Nowhere == [p \in Players |-> NoMoment]

\* The picture with some of the players put where they were at a moment.
Put(picture, players, moment) ==
    [p \in Players |-> IF p \in players THEN moment ELSE picture[p]]

NewClient ==
    [playerIdentity |-> FALSE, worldState |-> NoWorldState, history |-> <<>>,
     picture |-> Nowhere, smoothed |-> Nowhere,
     currentPlayerInput |-> "Neutral", lastSentPlayerInput |-> "Neutral"]

\* HandleDisconnected; the render objects stay as they were.
Reset(c) ==
    [c EXCEPT !.playerIdentity = FALSE, !.worldState = NoWorldState,
              !.history = <<>>, !.smoothed = Nowhere]

HandlePlayerIdentity(c) ==
    [Reset(c) EXCEPT !.playerIdentity = TRUE, !.lastSentPlayerInput = "Neutral"]

\* ApplyWorldStateSnapshot takes a newer state only.
IsNewer(c, snapshot) ==
    c.playerIdentity /\ snapshot.serverTick > c.worldState.serverTick

\* Mutant: a full history drops the snapshot that has just come.
TrimmedAtTheEnd(history) ==
    IF Len(history) > HistorySize THEN SubSeq(history, 1, HistorySize) ELSE history

Trimmed(history) == IF Len(history) > HistorySize THEN Tail(history) ELSE history

\* Exactly the players of the newest state are drawn, where it has them; the
\* update of the frame moves them back to where they were a delay ago, if it can.
HandleWorldStateSnapshot(c, snapshot) ==
    IF ~IsNewer(c, snapshot) THEN c
    ELSE [c EXCEPT
             !.worldState = snapshot,
             !.history = Trimmed(Append(@, [serverTick |-> snapshot.serverTick,
                                            players |-> snapshot.players,
                                            receivedAt |-> now])),
             !.picture = Put(Nowhere, snapshot.players, AtTick(snapshot.serverTick))]

Take(c, message) ==
    IF message = PlayerIdentity THEN HandlePlayerIdentity(c)
    ELSE HandleWorldStateSnapshot(c, message)

\* ProcessNetworkEvents: what has arrived is handled in order.
Polled(c, messages) ==
    LET after[n \in 0 .. Len(messages)] ==
            IF n = 0 THEN c ELSE Take(after[n - 1], messages[n])
    IN  after[Len(messages)]

\* The snapshots of the history the picture may lie before: those that, with
\* the one before them, enclose the render time.
Selectable(history) ==
    {i \in 2 .. Len(history) :
        /\ history[i - 1].receivedAt <= now - Delay
        /\ now - Delay <= history[i].receivedAt}

\* Mutant: the part that remains of the interval for the part that has gone.
BetweenReversed(previous, next) ==
    LET interval == next.receivedAt - previous.receivedAt
        ticks == next.serverTick - previous.serverTick
    IN  IF interval = 0 THEN AtTick(next.serverTick)
        ELSE [tick |-> previous.serverTick,
              part |-> ticks * (next.receivedAt - (now - Delay)), of |-> interval]

Between(previous, next) ==
    LET interval == next.receivedAt - previous.receivedAt
        ticks == next.serverTick - previous.serverTick
    IN  IF interval = 0 THEN AtTick(next.serverTick)
        ELSE [tick |-> previous.serverTick,
              part |-> ticks * (now - Delay - previous.receivedAt), of |-> interval]

\* A player is moved if it is drawn and both snapshots have it.
Interpolated(c) ==
    IF Selectable(c.history) = {} THEN c
    ELSE LET i == Min(Selectable(c.history))
             previous == c.history[i - 1]
             next == c.history[i]
             found == {p \in previous.players \cap next.players : c.picture[p] # NoMoment}
         IN  [c EXCEPT !.picture = Put(@, found, Between(previous, next)),
                       !.smoothed = Put(@, found, Between(previous, next))]

\* The keys are looked at only while the newest state known is of a game.
Sampled(c) ==
    IF c.worldState.gamePlayState = "Playing"
    THEN [c EXCEPT !.currentPlayerInput = keys] ELSE c

Updated(c) == IF c.playerIdentity THEN Sampled(Interpolated(c)) ELSE c

\* Mutant: the limit of the queue is not looked at.
SendsAnyway(c) ==
    /\ c.worldState.gamePlayState = "Playing"
    /\ c.currentPlayerInput # c.lastSentPlayerInput

\* A changed input is sent, unless the send queue is full.
Sends(c) ==
    /\ c.worldState.gamePlayState = "Playing"
    /\ c.currentPlayerInput # c.lastSentPlayerInput
    /\ Len(uplink) < SendLimit

\* Mutant: an input counts as sent although the queue refused it.
SentOrRefused(c) ==
    IF c.worldState.gamePlayState = "Playing"
    THEN [c EXCEPT !.lastSentPlayerInput = c.currentPlayerInput] ELSE c

Sent(c) ==
    IF Sends(c) THEN [c EXCEPT !.lastSentPlayerInput = c.currentPlayerInput] ELSE c

-----------------------------------------------------------------------------

Init ==
    /\ now = 0
    /\ \/ gameState = "Waiting" /\ opponents = 0
       \/ gameState = "Playing" /\ opponents = 1
    /\ serverInput = "Neutral"
    /\ downlink = <<PlayerIdentity>>
    /\ uplink = <<>>
    /\ connected = TRUE
    /\ keys = "Neutral"
    /\ client = NewClient

\* One turn of the client's loop: network events, then the update.  The render
\* that follows changes nothing of this.
Frame(count) ==
    /\ count \in 0 .. Len(downlink)
    /\ downlink' = SubSeq(downlink, count + 1, Len(downlink))
    /\ LET updated == Updated(Polled(client, SubSeq(downlink, 1, count)))
       IN  /\ client' = Sent(updated)
           /\ uplink' = IF Sends(updated) THEN Append(uplink, updated.currentPlayerInput)
                        ELSE uplink
    /\ UNCHANGED <<serverVars, connected, keys>>

ConnectionLost ==
    /\ connected
    /\ connected' = FALSE
    /\ client' = Reset(client)
    /\ downlink' = <<>>
    /\ uplink' = <<>>
    /\ UNCHANGED <<serverVars, keys>>

PlayerPresses(input) ==
    /\ input # keys
    /\ keys' = input
    /\ UNCHANGED <<serverVars, downlink, uplink, connected, client>>

\* The players in the room.
InRoom == IF gameState = "Waiting" THEN {0} ELSE {0, opponents}

\* A tick of the server and its broadcast.
ServerTicks ==
    /\ connected
    /\ now < MaxTime
    /\ now' = now + 1
    /\ downlink' = Append(downlink, [serverTick |-> now + 1, gamePlayState |-> gameState,
                                    players |-> InRoom])
    /\ UNCHANGED <<gameState, opponents, serverInput, uplink, connected, keys, client>>

\* Another opponent enters: StartGame forgets what the players were doing.
OpponentEnters ==
    /\ gameState = "Waiting"
    /\ opponents < MaxOpponents
    /\ opponents' = opponents + 1
    /\ gameState' = "Playing"
    /\ serverInput' = "Neutral"
    /\ UNCHANGED <<now, downlink, uplink, connected, keys, client>>

OpponentLeaves ==
    /\ gameState # "Waiting"
    /\ gameState' = "Waiting"
    /\ UNCHANGED <<now, opponents, serverInput, downlink, uplink, connected, keys, client>>

GameEnds ==
    /\ gameState = "Playing"
    /\ gameState' = "Finished"
    /\ UNCHANGED <<now, opponents, serverInput, downlink, uplink, connected, keys, client>>

\* The room takes an input in every state of the game.
ServerTakesInput ==
    /\ uplink # <<>>
    /\ serverInput' = Head(uplink)
    /\ uplink' = Tail(uplink)
    /\ UNCHANGED <<now, gameState, opponents, downlink, connected, keys, client>>

Next ==
    \/ \E count \in 0 .. Len(downlink) : Frame(count)
    \/ ConnectionLost
    \/ \E input \in Inputs : PlayerPresses(input)
    \/ ServerTicks
    \/ OpponentEnters
    \/ OpponentLeaves
    \/ GameEnds
    \/ ServerTakesInput

Spec == Init /\ [][Next]_vars

-----------------------------------------------------------------------------
(* Properties.                                                             *)

Moment == [tick : 0 .. MaxTime, part : Nat, of : Nat \ {0}]
Received == [serverTick : 1 .. MaxTime, players : SUBSET Players, receivedAt : 0 .. MaxTime]

TypeOK ==
    /\ now \in 0 .. MaxTime
    /\ gameState \in GamePlayStates
    /\ opponents \in Players /\ (gameState # "Waiting" => opponents > 0)
    /\ {serverInput, keys} \subseteq Inputs
    /\ downlink \in Seq(WorldStateSnapshot \cup {PlayerIdentity})
    /\ uplink \in Seq(Inputs) /\ Len(uplink) <= SendLimit
    /\ connected \in BOOLEAN
    /\ client \in
          [playerIdentity : BOOLEAN,
           worldState : WorldStateSnapshot \cup {NoWorldState},
           history : Seq(Received),
           picture : [Players -> Moment], smoothed : [Players -> Moment],
           currentPlayerInput : Inputs, lastSentPlayerInput : Inputs]
    /\ \A p \in Players :
          client.picture[p].part < client.picture[p].of * (MaxTime + 1)

\* The history is the last states received, oldest first, at most as many as
\* it keeps and ending in the current one; none of it outlives the identity
\* it was received for (ApplyWorldStateSnapshot, HandleWorldStateSnapshot,
\* HandlePlayerIdentity, HandleDisconnected).
HistoryFollowsState ==
    LET history == client.history
    IN  /\ Len(history) <= HistorySize
        /\ \A i \in 2 .. Len(history) :
              /\ history[i - 1].serverTick < history[i].serverTick
              /\ history[i - 1].receivedAt <= history[i].receivedAt
        /\ IF client.worldState = NoWorldState THEN history = <<>>
           ELSE /\ client.playerIdentity
                /\ Last(history).serverTick = client.worldState.serverTick

NotBefore(later, earlier) ==
    (later.tick * later.of + later.part) * earlier.of >=
    (earlier.tick * earlier.of + earlier.part) * later.of

\* No player is ever drawn at a moment before one it was interpolated at:
\* not when snapshots stay away longer than the delay or come in bursts of any
\* length, not when the history drops its oldest so that it no longer reaches
\* back over the delay, not when players come and go.  In particular a player
\* drawn where it was interpolated never goes back.  One drawn where the newest
\* state has it (it is new, or the history does not reach back) may come back,
\* but never behind a moment it was interpolated at
\* (UpdateWorldStateInterpolationSelection, ApplyInterpolatedPlayerStates,
\* SynchronizePlayerRenderObjects).
PictureNeverGoesBack ==
    [][\A p \in Players :
          client'.picture[p] # NoMoment =>
             NotBefore(client'.picture[p], client.smoothed[p])]_vars

\* Nothing is on its way, both ends are in a game, and the client has looked at
\* the keys since they changed.
Quiet ==
    /\ connected
    /\ downlink = <<>> /\ uplink = <<>>
    /\ gameState = "Playing"
    /\ client.worldState.gamePlayState = "Playing"
    /\ client.currentPlayerInput = keys
    /\ client.currentPlayerInput = client.lastSentPlayerInput

\* A key that was let go never keeps the player moving: the server ends up
\* with the keys held or with none, whatever games start and stop in between
\* (Update, HandlePlayerIdentity, Room::StartGame).
NoKeySticks == Quiet => serverInput \in {keys, "Neutral"}

\* README.md 13, 47: the client passes the player's input on to the server.
InputReachesServer == Quiet => serverInput = keys

=============================================================================
