------------------------------- MODULE Server -------------------------------
(***************************************************************************)
(* The server as a whole: the acceptor, the tick timer, the registry of    *)
(* sessions, the sessions and the default room, tied together by callbacks *)
(* (server/network/server.cpp, session_manager.cpp, Room::Broadcast).  A   *)
(* session is a SessionState value; of the room only the Lobby is kept,    *)
(* since the game itself never touches a session.                          *)
(*                                                                         *)
(* io_context::run is called by one thread, so every handler runs to its   *)
(* end before the next one: each is one action, with all the callbacks it  *)
(* causes.  The specification begins when Server::Start has returned.      *)
(***************************************************************************)
EXTENDS SessionState, Lobby

CONSTANTS
    MaxTicks,       \* bound: ticks of one run
    MaxQueue        \* bound: a ping is answered when fewer messages are waiting

ASSUME ServerAssumption ==
    /\ Sessions \subseteq Nat \ {0}
    /\ MaxTicks \in Nat
    /\ MaxQueue \in Nat

VARIABLES
    stopped,        \* stopped_
    accepting,      \* accepts registered with the acceptor
    timing,         \* waits registered with tickTimer_
    timerFailed,    \* history: a wait of the running server ended with an error
    serverTick,     \* serverTick_
    nextSessionId,  \* SessionManager::nextSessionId_
    registry,       \* SessionManager::sessions_
    session,        \* every Session object created so far
    firstSent       \* history: the first message each session accepted, if any

connectionVars == <<registry, session, sideOf, phase, firstSent>>
timerVars == <<timing, timerFailed, serverTick>>
vars == <<stopped, accepting, timerVars, nextSessionId, connectionVars>>

Created == DOMAIN session
Nothing == "Nothing"

\* Sends of the given type go to the sessions in reached.
Record(reached, type) ==
    firstSent' = [id \in Created |->
                     IF id \in reached /\ firstSent[id] = Nothing THEN type ELSE firstSent[id]]

\* shared_ptr: the registry and each registered operation keep a session alive.
Alive(id) == id \in registry \/ session[id].reading > 0 \/ session[id].writing > 0

Init ==
    /\ LobbyInit
    /\ stopped = FALSE
    /\ accepting = 1
    /\ timing = 1
    /\ timerFailed = FALSE
    /\ serverTick = 0
    /\ nextSessionId = 1
    /\ registry = {}
    /\ session = [id \in {} |-> NewSession]
    /\ firstSent = [id \in {} |-> Nothing]

-----------------------------------------------------------------------------
\* The callback chain of Session::Close: a session that calls onClosed_ leaves
\* the registry (RemoveSession) and then the room (LeaveDefaultRoom).
Ended(after) ==
    {id \in DOMAIN after :
        after[id].callbacks > IF id \in Created THEN session[id].callbacks ELSE 0}

\* Mutant: the game goes on when a side is empty.
RemainPlaying(seats, game, leaving) ==
    /\ sideOf' = [id \in DOMAIN seats \ leaving |-> seats[id]]
    /\ phase' = game

\* The room after the sessions in leaving have left it in some order.
Remain(seats, game, leaving) ==
    /\ sideOf' = [id \in DOMAIN seats \ leaving |-> seats[id]]
    /\ phase' = IF leaving \cap DOMAIN seats = {} \/ Ready(sideOf') THEN game ELSE "Waiting"

\* Mutant: the callback does not reach the room.
ConcludeWithoutLeave(after, registered, seats, game) ==
    /\ session' = after
    /\ registry' = registered \ Ended(after)
    /\ sideOf' = seats /\ phase' = game

\* A handler turns the sessions into after, given the registry and the room it
\* has made so far.
Conclude(after, registered, seats, game) ==
    /\ session' = after
    /\ registry' = registered \ Ended(after)
    /\ Remain(seats, game, Ended(after))

-----------------------------------------------------------------------------
(* Accepting a connection.  Every handler takes an accept off those that   *)
(* are registered; what it registers itself is added.                      *)

\* One more accept, while the acceptor is open: until Stop closes it.
AcceptNext(registered) == IF stopped THEN registered ELSE registered + 1

EnterDefaultRoom(id) == [s \in Seated \cup {id} |-> IF s = id THEN FirstFree(sideOf) ELSE sideOf[s]]

\* Mutant: the session starts without having been told its identity.
AdmittedSilently == Start(NewSession)

\* The session of a player the room admits.
Admitted == Start(Send(NewSession, "PlayerIdentity"))

HandleAccept ==
    LET id == nextSessionId
        seats == EnterDefaultRoom(id)
        With(record) == [s \in Created \cup {id} |-> IF s = id THEN record ELSE session[s]]
        First(type) == [s \in Created \cup {id} |-> IF s = id THEN type ELSE firstSent[s]]
    IN  /\ accepting > 0 /\ ~stopped
        /\ id \in Sessions
        /\ nextSessionId' = nextSessionId + 1
        /\ IF ~Ready(sideOf) /\ Accepts(NewSession, "PlayerIdentity")
           THEN /\ Conclude(With(Admitted), registry \cup {id}, seats,
                            IF Ready(seats) THEN "Playing" ELSE phase)
                /\ firstSent' = First(IF Admitted.sendQueue = <<>> THEN Nothing ELSE Head(Admitted.sendQueue))
           ELSE \* refused by the room: session->Stop()
                /\ Conclude(With(Close(NewSession)), registry \cup {id}, sideOf, phase)
                /\ firstSent' = First(Nothing)
        /\ accepting' = AcceptNext(accepting - 1)
        /\ UNCHANGED <<stopped, timerVars>>

\* Mutant: after a failed accept no other is registered.
AcceptFailsForGood ==
    /\ accepting > 0
    /\ accepting' = accepting - 1
    /\ UNCHANGED <<stopped, timerVars, nextSessionId, connectionVars>>

\* The accept failed, or came back after Stop: no session is created.
AcceptFails ==
    /\ accepting > 0
    /\ accepting' = AcceptNext(accepting - 1)
    /\ UNCHANGED <<stopped, timerVars, nextSessionId, connectionVars>>

-----------------------------------------------------------------------------
(* The tick: the game may finish, then the snapshot goes to every player.  *)
(* A player whose session is gone or refuses the snapshot leaves the room, *)
(* and a session that refused is stopped.                                  *)

Broadcast(game) ==
    LET expired == {id \in Seated : ~Alive(id)}
        reached == {id \in Seated \ expired : Accepts(session[id], "WorldStateSnapshot")}
        failed == Seated \ (expired \cup reached)
        after == [id \in Created |->
                     IF id \in reached THEN Send(session[id], "WorldStateSnapshot")
                     ELSE IF id \in failed THEN Close(session[id])
                     ELSE session[id]]
    IN  /\ session' = after
        /\ registry' = registry \ Ended(after)
        /\ Remain(sideOf, game, expired \cup failed \cup Ended(after))
        /\ Record(reached, "WorldStateSnapshot")

\* One more wait, unless the server was stopped.
ScheduleNextTick(registered) == IF stopped THEN registered ELSE registered + 1

HandleTick ==
    /\ timing > 0 /\ ~stopped
    /\ serverTick < MaxTicks
    /\ serverTick' = serverTick + 1
    /\ \E game \in {phase} \cup (IF phase = "Playing" THEN {"Finished"} ELSE {}) : Broadcast(game)
    /\ timing' = ScheduleNextTick(timing - 1)
    /\ UNCHANGED <<stopped, accepting, timerFailed, nextSessionId>>

\* The wait was cancelled by Stop, or failed: either way no tick is scheduled.
TickTimerFails ==
    /\ timing > 0
    /\ timing' = timing - 1
    /\ timerFailed' = (timerFailed \/ ~stopped)
    /\ UNCHANGED <<stopped, accepting, serverTick, nextSessionId, connectionVars>>

-----------------------------------------------------------------------------
(* The completions of session operations.                                  *)

Becomes(id, record) ==
    /\ Conclude([session EXCEPT ![id] = record], registry, sideOf, phase)
    /\ UNCHANGED <<stopped, accepting, timerVars, nextSessionId>>

SessionReads(id, message) ==
    /\ session[id].reading > 0
    /\ message = "Ping" /\ Accepts(session[id], "Pong") => Len(session[id].sendQueue) < MaxQueue
    /\ Becomes(id, HandleRead(session[id], message))
    /\ Record(IF message = "Ping" /\ Accepts(session[id], "Pong") THEN {id} ELSE {}, "Pong")

SessionReadFails(id) ==
    /\ session[id].reading > 0
    /\ Becomes(id, HandleReadError(session[id]))
    /\ UNCHANGED firstSent

SessionWrites(id, ok) ==
    /\ session[id].writing > 0
    /\ Becomes(id, HandleWrite(session[id], ok))
    /\ UNCHANGED firstSent

-----------------------------------------------------------------------------
(* Shutdown on SIGINT or SIGTERM: close every registered session, whose    *)
(* callbacks empty the registry and the room, then clear the registry.     *)

\* Mutant: the registry is cleared and the sessions are left alone.
CloseNone == session

CloseAll == [id \in Created |-> IF id \in registry THEN Close(session[id]) ELSE session[id]]

Stop ==
    /\ ~stopped
    /\ stopped' = TRUE
    /\ session' = CloseAll
    /\ registry' = {}
    /\ Remain(sideOf, phase, Ended(CloseAll))
    /\ UNCHANGED <<accepting, timerVars, nextSessionId, firstSent>>

-----------------------------------------------------------------------------
Next ==
    \/ HandleAccept
    \/ AcceptFails
    \/ HandleTick
    \/ TickTimerFails
    \/ \E id \in Created, message \in Received : SessionReads(id, message)
    \/ \E id \in Created : SessionReadFails(id)
    \/ \E id \in Created, ok \in BOOLEAN : SessionWrites(id, ok)
    \/ Stop

Spec == Init /\ [][Next]_vars

\* Boost.Asio calls the handler of every operation that was cancelled or whose
\* socket was closed.  An open socket promises nothing.
FairSpec ==
    /\ Spec
    /\ WF_vars(stopped /\ AcceptFails)
    /\ WF_vars(stopped /\ TickTimerFails)
    /\ \A id \in Sessions :
          /\ WF_vars(id \in Created /\ session[id].closed /\ SessionReadFails(id))
          /\ WF_vars(id \in Created /\ session[id].closed /\ SessionWrites(id, FALSE))

-----------------------------------------------------------------------------
(* Properties.                                                             *)

TypeOK ==
    /\ LobbyTypeOK
    /\ {stopped, timerFailed} \subseteq BOOLEAN
    /\ accepting \in Nat /\ timing \in Nat /\ serverTick \in Nat
    /\ nextSessionId \in Nat \ {0}
    /\ Created \subseteq Sessions
    /\ session \in [Created -> SessionRecord]
    /\ registry \subseteq Created
    /\ firstSent \in [Created -> SendableTypes \cup {Nothing}]

\* Between two handlers the registry holds exactly the open sessions, and they
\* are exactly the players of the room: no closed session keeps a seat or a
\* place in the registry, no open one is without both, whatever the order in
\* which reads, writes, broadcasts, refusals and shutdown close sessions
\* (CreateSession, the onClosed callbacks, Room::Broadcast, CloseAll).
SeatsRegistryAndSocketsAgree ==
    /\ registry = {id \in Created : ~session[id].closed}
    /\ Seated = registry

\* Whatever comes of an accept or a tick, a running server has exactly one next
\* accept and one next tick registered: it never stops admitting, and it ticks
\* until the timer itself fails; and never are there two of either, so a stopped
\* server has no more to wait for than those (HandleAccept, HandleTick).
OneAcceptOneTimer ==
    /\ ~stopped => accepting = 1 /\ timing = IF timerFailed THEN 0 ELSE 1
    /\ accepting <= 1 /\ timing <= 1

\* After Stop nothing is left open and nothing opens again: no session, no
\* player, no game, no tick (Server::Stop, and the stopped_ checks).
StoppedIsEmpty ==
    stopped => /\ registry = {} /\ Seated = {} /\ phase = "Waiting"
               /\ \A id \in Created : session[id].closed

\* The identity is the first message a client is sent: a snapshot before it
\* would make the client drop the connection (EnterDefaultRoom before Start and
\* before the next tick).
IdentityFirst == \A id \in Created : firstSent[id] \in {"PlayerIdentity", Nothing}

\* The server moves the room only as the abstract lobby allows.
ImplementsLobby == LobbySpec

\* After Stop every registered operation comes back and none is registered
\* again: io_context::run returns and the process ends (Server::Stop).
ShutdownCompletes ==
    stopped ~> [](/\ accepting = 0 /\ timing = 0
                  /\ \A id \in Created : session[id].reading = 0 /\ session[id].writing = 0)

=============================================================================
