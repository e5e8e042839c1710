---------------------------- MODULE ServerProofs ----------------------------
(***************************************************************************)
(* What holds of the server for any number of connections, every message   *)
(* size and every limit.  First the room and the registry when sessions    *)
(* end, then the inductive invariant ServerInv, then the theorems and the  *)
(* refinement of the lobby.                                                *)
(***************************************************************************)
EXTENDS Server, SessionStateProofs

-----------------------------------------------------------------------------
(* The room.                                                               *)

\* What LobbyOrder says, of any seats and game.
Orderly(seats, game) ==
    /\ DOMAIN seats \subseteq Sessions
    /\ seats \in [DOMAIN seats -> Sides]
    /\ \A r, s \in DOMAIN seats : seats[r] = seats[s] => r = s
    /\ game \in GamePlayStates
    /\ game = "Waiting" <=> ~Ready(seats)

\* The seats that are left.
Left(seats, leaving) == [id \in DOMAIN seats \ leaving |-> seats[id]]

\* A side that someone had is free once they leave.
LEMMA LeavingFrees ==
  ASSUME NEW seats, NEW game, Orderly(seats, game), NEW leaving,
         leaving \cap DOMAIN seats # {}
  PROVE  ~Ready(Left(seats, leaving))
<1>1. PICK id \in DOMAIN seats : id \in leaving
  OBVIOUS
<1>2. seats[id] \in Sides
  BY DEF Orderly
<1>3. \A s \in DOMAIN seats \ leaving : Left(seats, leaving)[s] # seats[id]
  BY <1>1 DEF Orderly, Left
<1>4. DOMAIN Left(seats, leaving) = DOMAIN seats \ leaving
  BY DEF Left
<1>5. seats[id] \in FreeSides(Left(seats, leaving))
  BY <1>2, <1>3, <1>4 DEF FreeSides
<1> QED
  BY <1>5 DEF Ready

\* The room stays in order when sessions leave it (Remain).
LEMMA RemainOrderly ==
  ASSUME NEW seats, NEW game, Orderly(seats, game), NEW leaving,
         Remain(seats, game, leaving)
  PROVE  /\ Orderly(sideOf', phase')
         /\ Seated' = DOMAIN seats \ leaving
         /\ leaving \cap DOMAIN seats = {} => sideOf' = seats /\ phase' = game
<1>1. sideOf' = Left(seats, leaving) /\ DOMAIN sideOf' = DOMAIN seats \ leaving
  BY DEF Remain, Left
<1>2. CASE leaving \cap DOMAIN seats = {}
  <2>1. DOMAIN seats \ leaving = DOMAIN seats
    BY <1>2
  <2>2. sideOf' = seats
    BY <1>1, <2>1 DEF Orderly, Left
  <2>3. phase' = game
    BY <1>2 DEF Remain
  <2> QED
    BY <1>1, <2>2, <2>3 DEF Seated
<1>3. CASE leaving \cap DOMAIN seats # {}
  <2>1. ~Ready(sideOf')
    BY <1>1, <1>3, LeavingFrees
  <2>2. phase' = "Waiting"
    BY <1>3, <2>1 DEF Remain
  <2>3. /\ DOMAIN sideOf' \subseteq Sessions
        /\ sideOf' \in [DOMAIN sideOf' -> Sides]
        /\ \A r, s \in DOMAIN sideOf' : sideOf'[r] = sideOf'[s] => r = s
    BY <1>1 DEF Orderly, Left
  <2> QED
    BY <1>1, <1>3, <2>1, <2>2, <2>3 DEF Orderly, GamePlayStates, Seated
<1> QED
  BY <1>2, <1>3

\* The seats of a room that a session enters (EnterDefaultRoom).
LEMMA EnterOrderly ==
  ASSUME Orderly(sideOf, phase), ~Ready(sideOf), NEW id \in Sessions, id \notin Seated
  PROVE  LET seats == EnterDefaultRoom(id)
         IN  /\ DOMAIN seats = Seated \cup {id}
             /\ Orderly(seats, IF Ready(seats) THEN "Playing" ELSE phase)
<1> DEFINE seats == EnterDefaultRoom(id)
           side == FirstFree(sideOf)
<1>1. side \in FreeSides(sideOf)
  BY DEF Ready, FirstFree, FreeSides, Sides
<1>2. side \in Sides /\ \A s \in Seated : sideOf[s] # side
  BY <1>1 DEF FreeSides, Seated
<1>3. seats = [s \in Seated \cup {id} |-> IF s = id THEN side ELSE sideOf[s]]
  BY DEF EnterDefaultRoom
<1> HIDE DEF seats, side
<1>4. /\ DOMAIN seats = Seated \cup {id}
      /\ seats \in [Seated \cup {id} -> Sides]
      /\ \A r, s \in Seated \cup {id} : seats[r] = seats[s] => r = s
  BY <1>2, <1>3 DEF Orderly, Seated
<1>5. phase = "Waiting"
  BY DEF Orderly
<1>6. Seated \cup {id} \subseteq Sessions
  BY DEF Orderly, Seated
<1> QED
  BY <1>4, <1>5, <1>6 DEF Orderly, GamePlayStates, seats

\* What the room does when sessions leave it, and a game possibly ends before
\* that, is a step of the lobby or goes unseen.
LEMMA RemainIsLobbyStep ==
  ASSUME Orderly(sideOf, phase), NEW game, NEW leaving, Remain(sideOf, game, leaving),
         game = phase \/ (phase = "Playing" /\ game = "Finished")
  PROVE  LobbyNext \/ UNCHANGED lobbyVars
<1>1. Orderly(sideOf, game)
  BY DEF Orderly, GamePlayStates
<1>2. CASE leaving \cap Seated = {}
  <2>1. sideOf' = sideOf /\ phase' = game
    BY <1>1, <1>2, RemainOrderly DEF Seated
  <2> QED
    BY <2>1 DEF LobbyNext, Finish, lobbyVars
<1>3. CASE leaving \cap Seated # {}
  <2> DEFINE gone == leaving \cap Seated
  <2>1. sideOf' = Left(sideOf, leaving) /\ Seated \ gone = Seated \ leaving
    BY DEF Remain, Left, Seated
  <2>2. sideOf' = [r \in Seated \ gone |-> sideOf[r]]
    BY <2>1 DEF Left, Seated
  <2>3. ~Ready(sideOf') /\ phase' = "Waiting"
    BY <1>1, <1>3, <2>1, LeavingFrees DEF Remain, Seated
  <2>4. gone # {} /\ gone \in SUBSET Seated
    BY <1>3
  <2> HIDE DEF gone
  <2>5. Unseat(gone)
    BY <2>2, <2>3, <2>4 DEF Unseat
  <2> QED
    BY <2>4, <2>5 DEF LobbyNext
<1> QED
  BY <1>2, <1>3

-----------------------------------------------------------------------------
(* The inductive invariant.  SeatsRegistryAndSocketsAgree is not inductive: *)
(* the sessions have to be well-formed for the calls of onClosed_ to tell   *)
(* who ended, the seats distinct for a departure to stop the game, and ids  *)
(* below the next one for a new session to be new.                          *)

ConnectionInv ==
    /\ Orderly(sideOf, phase)
    /\ nextSessionId \in Nat \ {0}
    /\ \A id \in Created : id \in Sessions /\ id < nextSessionId
    /\ session \in [Created -> SessionRecord]
    /\ \A id \in Created : WellFormed(session[id])
    /\ SeatsRegistryAndSocketsAgree
    /\ firstSent \in [Created -> {"PlayerIdentity", Nothing}]
    /\ \A id \in Created : ~session[id].closed => firstSent[id] = "PlayerIdentity"

ControlInv ==
    /\ stopped \in BOOLEAN /\ timerFailed \in BOOLEAN
    /\ accepting \in Nat /\ timing \in Nat /\ serverTick \in Nat
    /\ OneAcceptOneTimer
    /\ stopped => registry = {}

ServerInv == ConnectionInv /\ ControlInv

\* The sessions of the next state, when none opens again.
Follows(after) ==
    /\ Created \subseteq DOMAIN after
    /\ \A id \in DOMAIN after : WellFormed(after[id])
    /\ \A id \in Created : session[id].closed => after[id].closed

\* The sessions that ended are those that are closed now and were not before.
LEMMA EndedAre ==
  ASSUME ConnectionInv, NEW after, Follows(after)
  PROVE  Ended(after) = {id \in DOMAIN after :
                            after[id].closed /\ (id \in Created => ~session[id].closed)}
<1>1. ASSUME NEW id \in DOMAIN after
      PROVE  (after[id].callbacks > IF id \in Created THEN session[id].callbacks ELSE 0)
                <=> (after[id].closed /\ (id \in Created => ~session[id].closed))
  <2>1. after[id].callbacks = IF after[id].closed THEN 1 ELSE 0
    BY DEF Follows, WellFormed
  <2>2. id \in Created => session[id].callbacks = IF session[id].closed THEN 1 ELSE 0
    BY DEF ConnectionInv, WellFormed
  <2> QED
    BY <2>1, <2>2 DEF Follows
<1> QED
  BY <1>1 DEF Ended

\* A handler that only lets sessions go on or end keeps the invariant, when the
\* sessions that ended leave the registry and the room.
LEMMA ConnectionsKept ==
  ASSUME ConnectionInv, NEW after, Follows(after), DOMAIN after = Created,
         after = [id \in Created |-> after[id]],
         session' = after, registry' = registry \ Ended(after),
         NEW game, Orderly(sideOf, game), Remain(sideOf, game, Ended(after)),
         nextSessionId' = nextSessionId,
         firstSent' \in [Created -> {"PlayerIdentity", Nothing}],
         \A id \in Created : firstSent[id] = "PlayerIdentity" => firstSent'[id] = "PlayerIdentity"
  PROVE  ConnectionInv'
<1>1. registry = {id \in Created : ~session[id].closed} /\ Seated = registry
  BY DEF ConnectionInv, SeatsRegistryAndSocketsAgree
<1>2. Ended(after) = {id \in Created : after[id].closed /\ ~session[id].closed}
  BY EndedAre
<1>3. \A id \in Created : ~after[id].closed => ~session[id].closed
  BY DEF Follows
<1>4. registry' = {id \in Created : ~after[id].closed}
  BY <1>1, <1>2, <1>3
<1>5. Orderly(sideOf', phase') /\ Seated' = Seated \ Ended(after)
  BY RemainOrderly DEF Seated
<1>6. Created' = Created /\ session' = after
  BY DEF Created
<1>7. SeatsRegistryAndSocketsAgree'
  BY <1>1, <1>4, <1>5, <1>6 DEF SeatsRegistryAndSocketsAgree
<1>8. /\ session' \in [Created -> SessionRecord]
      /\ \A id \in Created : WellFormed(session'[id])
  BY DEF Follows, WellFormed
<1>9. \A id \in Created : ~session'[id].closed => firstSent'[id] = "PlayerIdentity"
  BY <1>3, <1>6 DEF ConnectionInv
<1> QED
  BY <1>5, <1>6, <1>7, <1>8, <1>9 DEF ConnectionInv

\* Nothing that is sent to an open session is the first thing it is sent.
LEMMA FirstStays ==
  ASSUME ConnectionInv, NEW reached, NEW type, Record(reached, type),
         \A id \in reached : id \in Created /\ ~session[id].closed
  PROVE  firstSent' = firstSent
<1>1. \A id \in Created : id \in reached => firstSent[id] = "PlayerIdentity"
  BY DEF ConnectionInv
<1>2. \A id \in Created : firstSent'[id] = firstSent[id]
  BY <1>1 DEF Record, Nothing
<1> QED
  BY <1>2 DEF Record, ConnectionInv

-----------------------------------------------------------------------------
(* The actions.                                                            *)

LobbyStep == LobbyNext \/ UNCHANGED lobbyVars

\* An accept that came back has been replaced, unless the server was stopped.
LEMMA AcceptsGoOn ==
  ASSUME ControlInv, accepting > 0, accepting' = AcceptNext(accepting - 1),
         UNCHANGED <<stopped, timerVars>>, stopped => registry' = {}
  PROVE  ControlInv'
<1>1. accepting = 1 /\ accepting - 1 = 0
  BY DEF ControlInv, OneAcceptOneTimer
<1>2. accepting' = IF stopped THEN 0 ELSE 1
  BY <1>1 DEF AcceptNext
<1>3. UNCHANGED <<stopped, timing, timerFailed, serverTick>>
  BY DEF timerVars
<1> QED
  BY <1>2, <1>3 DEF ControlInv, OneAcceptOneTimer

\* An operation of one session completes.
LEMMA BecomesKeeps ==
  ASSUME ConnectionInv, NEW id \in Created, NEW record, WellFormed(record),
         session[id].closed => record.closed,
         Becomes(id, record), firstSent' = firstSent
  PROVE  ConnectionInv' /\ LobbyStep /\ registry' \subseteq registry
<1> DEFINE after == [session EXCEPT ![id] = record]
<1>1. DOMAIN after = Created /\ after = [i \in Created |-> after[i]] /\ after[id] = record
      /\ \A i \in Created : i # id => after[i] = session[i]
  BY DEF ConnectionInv, Created
<1>2. Conclude(after, registry, sideOf, phase) /\ nextSessionId' = nextSessionId
  BY DEF Becomes
<1> HIDE DEF after
<1>3. Follows(after)
  BY <1>1 DEF ConnectionInv, Follows
<1>4. /\ session' = after /\ registry' = registry \ Ended(after)
      /\ Remain(sideOf, phase, Ended(after))
  BY <1>2 DEF Conclude
<1>5. Orderly(sideOf, phase) /\ firstSent \in [Created -> {"PlayerIdentity", Nothing}]
  BY DEF ConnectionInv
<1>6. ConnectionInv'
  BY <1>1, <1>2, <1>3, <1>4, <1>5, ConnectionsKept
<1>7. LobbyStep
  BY <1>4, <1>5, RemainIsLobbyStep DEF LobbyStep
<1> QED
  BY <1>4, <1>6, <1>7

\* A read or a write of a session completes, or fails.
LEMMA SessionKeeps ==
  ASSUME ConnectionInv, NEW id \in Created,
         \/ \E message \in Received : SessionReads(id, message)
         \/ SessionReadFails(id)
         \/ \E ok \in BOOLEAN : SessionWrites(id, ok)
  PROVE  /\ ConnectionInv' /\ LobbyStep /\ registry' \subseteq registry
         /\ UNCHANGED <<stopped, accepting, timerVars>>
<1>1. /\ WellFormed(session[id]) /\ session[id] \in SessionRecord
      /\ session[id].reading \in Nat /\ session[id].writing \in Nat
      /\ session[id].reading <= 1 /\ session[id].writing <= 1
  BY DEF ConnectionInv, WellFormed, SessionRecord
<1>2. ASSUME NEW message \in Received, SessionReads(id, message)
      PROVE  ConnectionInv' /\ LobbyStep /\ registry' \subseteq registry
  <2> DEFINE record == HandleRead(session[id], message)
             reached == IF message = "Ping" /\ Accepts(session[id], "Pong") THEN {id} ELSE {}
  <2>1. session[id].reading = 1
    BY <1>1, <1>2 DEF SessionReads
  <2>2. WellFormed(record) /\ (session[id].closed => record.closed)
    BY <1>1, <2>1, HandleReadEffect
  <2>3. \A i \in reached : i \in Created /\ ~session[i].closed
    BY DEF Accepts
  <2>4. Becomes(id, record) /\ Record(reached, "Pong")
    BY <1>2 DEF SessionReads
  <2> HIDE DEF record, reached
  <2>5. firstSent' = firstSent
    BY <2>3, <2>4, FirstStays
  <2> QED
    BY <2>2, <2>4, <2>5, BecomesKeeps
<1>3. ASSUME SessionReadFails(id)
      PROVE  ConnectionInv' /\ LobbyStep /\ registry' \subseteq registry
  <2>1. session[id].reading = 1
    BY <1>1, <1>3 DEF SessionReadFails
  <2>2. WellFormed(HandleReadError(session[id])) /\ HandleReadError(session[id]).closed
    BY <1>1, <2>1, HandleReadErrorEffect
  <2> QED
    BY <1>3, <2>2, BecomesKeeps DEF SessionReadFails
<1>4. ASSUME NEW ok \in BOOLEAN, SessionWrites(id, ok)
      PROVE  ConnectionInv' /\ LobbyStep /\ registry' \subseteq registry
  <2>1. session[id].writing = 1
    BY <1>1, <1>4 DEF SessionWrites
  <2>2. /\ WellFormed(HandleWrite(session[id], ok))
        /\ session[id].closed => HandleWrite(session[id], ok).closed
    BY <1>1, <2>1, HandleWriteEffect
  <2> QED
    BY <1>4, <2>2, BecomesKeeps DEF SessionWrites
<1>5. UNCHANGED <<stopped, accepting, timerVars>>
  BY DEF SessionReads, SessionReadFails, SessionWrites, Becomes, timerVars
<1> QED
  BY <1>2, <1>3, <1>4, <1>5

\* A tick: nobody's session is gone, and who refuses the snapshot ends.
LEMMA BroadcastKeeps ==
  ASSUME ConnectionInv, NEW game, Broadcast(game), nextSessionId' = nextSessionId,
         game = phase \/ (phase = "Playing" /\ game = "Finished")
  PROVE  ConnectionInv' /\ LobbyStep /\ registry' \subseteq registry
<1> DEFINE expired == {id \in Seated : ~Alive(id)}
           reached == {id \in Seated \ expired : Accepts(session[id], "WorldStateSnapshot")}
           failed == Seated \ (expired \cup reached)
           after == [id \in Created |->
                        IF id \in reached THEN Send(session[id], "WorldStateSnapshot")
                        ELSE IF id \in failed THEN Close(session[id])
                        ELSE session[id]]
<1>1. /\ session' = after /\ registry' = registry \ Ended(after)
      /\ Remain(sideOf, game, expired \cup failed \cup Ended(after))
      /\ Record(reached, "WorldStateSnapshot")
  BY DEF Broadcast
<1>2. /\ expired = {} /\ reached \subseteq Seated /\ failed = Seated \ reached
      /\ \A id \in Seated : id \in Created /\ ~session[id].closed
  BY DEF ConnectionInv, SeatsRegistryAndSocketsAgree, Alive
<1>3. \A id \in Created : WellFormed(session[id])
  BY DEF ConnectionInv
<1>4. "WorldStateSnapshot" \in SendableTypes
  BY DEF SendableTypes
<1>5. ASSUME NEW id \in Created
      PROVE  /\ WellFormed(after[id])
             /\ id \in failed => after[id].closed
             /\ id \notin failed => after[id].closed = session[id].closed
  <2>1. CASE id \in reached
    <3>1. after[id] = Send(session[id], "WorldStateSnapshot") /\ id \notin failed
      BY <2>1
    <3> QED
      BY <1>3, <1>4, <3>1, SendEffect
  <2>2. CASE id \in failed
    <3>1. after[id] = Close(session[id])
      BY <2>2
    <3> QED
      BY <1>3, <2>2, <3>1, CloseEffect
  <2>3. CASE id \notin reached /\ id \notin failed
    <3>1. after[id] = session[id]
      BY <2>3
    <3> QED
      BY <1>3, <2>3, <3>1
  <2> QED
    BY <2>1, <2>2, <2>3
<1>6. DOMAIN after = Created /\ after = [id \in Created |-> after[id]]
  OBVIOUS
<1> HIDE DEF expired, reached, failed, after
<1>7. Follows(after)
  BY <1>2, <1>5, <1>6 DEF Follows
<1>8. expired \cup failed \cup Ended(after) = Ended(after)
  <2>1. failed \subseteq Ended(after)
    BY <1>2, <1>5, <1>6, <1>7, EndedAre
  <2> QED
    BY <1>2, <2>1
<1>9. Orderly(sideOf, phase) /\ Orderly(sideOf, game)
      /\ firstSent \in [Created -> {"PlayerIdentity", Nothing}]
  BY DEF ConnectionInv, Orderly, GamePlayStates
<1>10. firstSent' = firstSent
  BY <1>1, <1>2, FirstStays
<1>11. ConnectionInv'
  BY <1>1, <1>6, <1>7, <1>8, <1>9, <1>10, ConnectionsKept
<1>12. LobbyStep
  BY <1>1, <1>9, RemainIsLobbyStep DEF LobbyStep
<1> QED
  BY <1>1, <1>11, <1>12

\* A new session joins the others, open and seated or closed at once.
LEMMA NewcomerKeeps ==
  ASSUME ConnectionInv, nextSessionId \in Sessions, nextSessionId' = nextSessionId + 1,
         NEW record, WellFormed(record),
         NEW after, after = [s \in Created \cup {nextSessionId} |->
                                IF s = nextSessionId THEN record ELSE session[s]],
         NEW seats, NEW game, Orderly(seats, game),
         DOMAIN seats = IF record.closed THEN Seated ELSE Seated \cup {nextSessionId},
         Conclude(after, registry \cup {nextSessionId}, seats, game),
         NEW first \in {"PlayerIdentity", Nothing},
         ~record.closed => first = "PlayerIdentity",
         firstSent' = [s \in Created \cup {nextSessionId} |->
                          IF s = nextSessionId THEN first ELSE firstSent[s]]
  PROVE  /\ ConnectionInv'
         /\ ~record.closed => sideOf' = seats /\ phase' = game
         /\ record.closed /\ seats = sideOf /\ game = phase => UNCHANGED lobbyVars
<1> DEFINE id == nextSessionId
<1>1. id \notin Created /\ id \in Nat
  BY DEF ConnectionInv
<1>2. /\ DOMAIN after = Created \cup {id} /\ after[id] = record
      /\ \A s \in Created : after[s] = session[s]
  BY <1>1
<1>3. Follows(after)
  BY <1>2 DEF ConnectionInv, Follows
<1>4. Ended(after) = IF record.closed THEN {id} ELSE {}
  <2>1. \A s \in DOMAIN after :
           (after[s].closed /\ (s \in Created => ~session[s].closed))
               <=> (s = id /\ record.closed)
    BY <1>1, <1>2
  <2>2. Ended(after) = {s \in DOMAIN after : s = id /\ record.closed}
    BY <1>3, <2>1, EndedAre
  <2> QED
    BY <1>2, <2>2
<1>5. /\ session' = after /\ registry' = (registry \cup {id}) \ Ended(after)
      /\ Remain(seats, game, Ended(after))
  BY DEF Conclude
<1>6. registry = {s \in Created : ~session[s].closed} /\ Seated = registry
  BY DEF ConnectionInv, SeatsRegistryAndSocketsAgree
<1>7. Ended(after) \cap DOMAIN seats = {}
  BY <1>1, <1>4, <1>6
<1>8. /\ Orderly(sideOf', phase') /\ Seated' = DOMAIN seats
      /\ sideOf' = seats /\ phase' = game
  BY <1>5, <1>7, RemainOrderly
<1>9. Created' = Created \cup {id} /\ session' = after
  BY <1>2, <1>5 DEF Created
<1>10. SeatsRegistryAndSocketsAgree'
  <2>1. registry' = IF record.closed THEN registry ELSE registry \cup {id}
    BY <1>1, <1>4, <1>5, <1>6
  <2>2. registry' = {s \in Created' : ~session'[s].closed}
    BY <1>2, <1>6, <1>9, <2>1
  <2>3. Seated' = registry'
    BY <1>6, <1>8, <2>1
  <2> QED
    BY <2>2, <2>3 DEF SeatsRegistryAndSocketsAgree
<1>11. /\ nextSessionId' \in Nat \ {0}
       /\ \A s \in Created' : s \in Sessions /\ s < nextSessionId'
  <2>1. \A s \in Created : s \in Nat /\ s \in Sessions /\ s < id
    BY ServerAssumption DEF ConnectionInv
  <2> QED
    BY <1>1, <1>9, <2>1
<1>12. /\ session' \in [Created' -> SessionRecord]
       /\ \A s \in Created' : WellFormed(session'[s])
  <2>1. \A s \in Created' : WellFormed(session'[s])
    BY <1>3, <1>2, <1>9 DEF Follows
  <2> QED
    BY <1>2, <1>9, <2>1 DEF WellFormed
<1>13. /\ firstSent' \in [Created' -> {"PlayerIdentity", Nothing}]
       /\ \A s \in Created' : ~session'[s].closed => firstSent'[s] = "PlayerIdentity"
  BY <1>1, <1>2, <1>9 DEF ConnectionInv
<1>14. ConnectionInv'
  BY <1>8, <1>10, <1>11, <1>12, <1>13 DEF ConnectionInv
<1> QED
  BY <1>8, <1>14 DEF lobbyVars

\* A player who is admitted is told who it is before anything else.
LEMMA AdmittedIs ==
  ASSUME Accepts(NewSession, "PlayerIdentity")
  PROVE  WellFormed(Admitted) /\ ~Admitted.closed /\ Admitted.sendQueue = <<"PlayerIdentity">>
<1>1. /\ NewSession \in SessionRecord /\ NewSession.sendQueue = <<>>
      /\ NewSession.reading = 0 /\ NewSession.writing = 0
      /\ NewSession.callbacks = 0 /\ NewSession.closed = FALSE
  BY DEF NewSession, SessionRecord
<1>2. WellFormed(NewSession) /\ "PlayerIdentity" \in SendableTypes
  BY <1>1 DEF WellFormed, SendableTypes
<1> DEFINE told == Send(NewSession, "PlayerIdentity")
<1>3. /\ WellFormed(told) /\ told.reading = 0 /\ told.closed = FALSE
      /\ told.sendQueue = Append(<<>>, "PlayerIdentity")
  BY <1>1, <1>2, SendEffect
<1>4. Admitted = ReadNext(told)
  BY DEF Admitted, Start
<1> HIDE DEF told
<1>5. WellFormed(Admitted) /\ Admitted.closed = FALSE /\ Admitted.sendQueue = told.sendQueue
  BY <1>3, <1>4, ReadNextEffect
<1> QED
  BY <1>3, <1>5

\* A connection is accepted, and seated or turned away.
LEMMA AcceptKeeps ==
  ASSUME ServerInv, HandleAccept
  PROVE  ServerInv' /\ LobbyStep
<1> DEFINE id == nextSessionId
           seats == EnterDefaultRoom(id)
           With(record) == [s \in Created \cup {id} |-> IF s = id THEN record ELSE session[s]]
           First(type) == [s \in Created \cup {id} |-> IF s = id THEN type ELSE firstSent[s]]
<1>1. /\ ConnectionInv /\ Orderly(sideOf, phase) /\ id \in Sessions
      /\ nextSessionId' = nextSessionId + 1
  BY DEF ServerInv, ConnectionInv, HandleAccept
<1>2. ControlInv'
  <2>1. ControlInv /\ ~stopped /\ accepting > 0
    BY DEF ServerInv, HandleAccept
  <2>2. accepting' = AcceptNext(accepting - 1) /\ UNCHANGED <<stopped, timerVars>>
    BY DEF HandleAccept
  <2> QED
    BY <2>1, <2>2, AcceptsGoOn
<1>3. id \notin Seated
  BY <1>1 DEF ConnectionInv, SeatsRegistryAndSocketsAgree
<1>4. CASE ~Ready(sideOf) /\ Accepts(NewSession, "PlayerIdentity")
  <2> DEFINE game == IF Ready(seats) THEN "Playing" ELSE phase
  <2>1. /\ WellFormed(Admitted) /\ ~Admitted.closed
        /\ Admitted.sendQueue = <<"PlayerIdentity">>
    BY <1>4, AdmittedIs
  <2>2. DOMAIN seats = Seated \cup {id} /\ Orderly(seats, game)
    BY <1>1, <1>3, <1>4, EnterOrderly
  <2>3. /\ Conclude(With(Admitted), registry \cup {id}, seats, game)
        /\ firstSent' = First("PlayerIdentity")
    BY <1>4, <2>1 DEF HandleAccept
  <2> HIDE DEF seats
  <2>4. ConnectionInv' /\ sideOf' = seats /\ phase' = game
    BY <1>1, <2>1, <2>2, <2>3, NewcomerKeeps
  <2>5. Seat(id)
    BY <1>3, <1>4, <2>4 DEF Seat, seats, EnterDefaultRoom
  <2> QED
    BY <1>1, <1>2, <2>4, <2>5 DEF ServerInv, LobbyStep, LobbyNext
<1>5. CASE ~(~Ready(sideOf) /\ Accepts(NewSession, "PlayerIdentity"))
  <2> DEFINE record == Close(NewSession)
  <2>1. WellFormed(record) /\ record.closed
    <3>1. WellFormed(NewSession)
      BY DEF NewSession, SessionRecord, WellFormed
    <3> QED
      BY <3>1, CloseEffect
  <2>2. /\ Conclude(With(record), registry \cup {id}, sideOf, phase)
        /\ firstSent' = First(Nothing)
    BY <1>5 DEF HandleAccept
  <2> HIDE DEF record
  <2>3. ConnectionInv' /\ UNCHANGED lobbyVars
    BY <1>1, <2>1, <2>2, NewcomerKeeps DEF Seated
  <2> QED
    BY <1>2, <2>3 DEF ServerInv, LobbyStep
<1> QED
  BY <1>4, <1>5

\* The server stops: everybody leaves.
LEMMA StopKeeps ==
  ASSUME ServerInv, Stop
  PROVE  ServerInv' /\ LobbyStep
<1>1. ConnectionInv /\ \A id \in Created : WellFormed(session[id])
  BY DEF ServerInv, ConnectionInv
<1>2. registry = {id \in Created : ~session[id].closed}
  BY <1>1 DEF ConnectionInv, SeatsRegistryAndSocketsAgree
<1>3. DOMAIN CloseAll = Created /\ CloseAll = [id \in Created |-> CloseAll[id]]
  BY DEF CloseAll
<1>4. \A id \in Created : WellFormed(CloseAll[id]) /\ CloseAll[id].closed
  <2> TAKE id \in Created
  <2>1. CASE id \in registry
    <3>1. CloseAll[id] = Close(session[id])
      BY <2>1 DEF CloseAll
    <3> QED
      BY <1>1, <3>1, CloseEffect
  <2>2. CASE id \notin registry
    <3>1. CloseAll[id] = session[id]
      BY <2>2 DEF CloseAll
    <3> QED
      BY <1>1, <1>2, <2>2, <3>1
  <2> QED
    BY <2>1, <2>2
<1>5. Follows(CloseAll)
  BY <1>3, <1>4 DEF Follows
<1>6. registry \ Ended(CloseAll) = {}
  BY <1>1, <1>2, <1>3, <1>4, <1>5, EndedAre
<1>7. /\ session' = CloseAll /\ registry' = registry \ Ended(CloseAll)
      /\ Remain(sideOf, phase, Ended(CloseAll))
      /\ nextSessionId' = nextSessionId /\ firstSent' = firstSent
  BY <1>6 DEF Stop
<1>8. Orderly(sideOf, phase) /\ firstSent \in [Created -> {"PlayerIdentity", Nothing}]
  BY <1>1 DEF ConnectionInv
<1>9. ConnectionInv'
  BY <1>1, <1>3, <1>5, <1>7, <1>8, ConnectionsKept
<1>10. LobbyStep
  BY <1>7, <1>8, RemainIsLobbyStep DEF LobbyStep
<1>11. ControlInv'
  BY DEF ServerInv, ControlInv, Stop, OneAcceptOneTimer, timerVars
<1> QED
  BY <1>9, <1>10, <1>11 DEF ServerInv

-----------------------------------------------------------------------------
(* The invariant and the theorems.                                         *)

\* The server begins with nobody connected.
LEMMA ServerInvInit == Init => ServerInv
<1> SUFFICES ASSUME Init PROVE ServerInv
  OBVIOUS
<1>1. /\ Created = {} /\ registry = {} /\ Seated = {}
  BY DEF Init, LobbyInit, Created, Seated
<1>2. Orderly(sideOf, phase)
  BY <1>1 DEF Init, LobbyInit, Orderly, Seated, Ready, FreeSides, Sides, GamePlayStates
<1>3. ConnectionInv
  BY <1>1, <1>2 DEF Init, ConnectionInv, SeatsRegistryAndSocketsAgree, Created
<1>4. ControlInv
  <2>1. accepting = 1 /\ timing = 1 /\ serverTick = 0
    BY DEF Init
  <2>2. stopped = FALSE /\ timerFailed = FALSE
    BY DEF Init
  <2>3. OneAcceptOneTimer
    BY <2>1, <2>2 DEF OneAcceptOneTimer
  <2> QED
    BY <2>1, <2>2, <2>3 DEF ControlInv
<1> QED
  BY <1>3, <1>4 DEF ServerInv

\* Every handler preserves the invariant and is a step of the lobby or unseen.
LEMMA ServerInvNext == ServerInv /\ [Next]_vars => ServerInv' /\ LobbyStep
<1> SUFFICES ASSUME ServerInv, [Next]_vars PROVE ServerInv' /\ LobbyStep
  OBVIOUS
<1>1. ConnectionInv /\ ControlInv
  BY DEF ServerInv
<1>2. ASSUME UNCHANGED connectionVars, UNCHANGED nextSessionId
      PROVE  ConnectionInv' /\ LobbyStep
  BY <1>1, <1>2 DEF connectionVars, ConnectionInv, Orderly, SeatsRegistryAndSocketsAgree,
                    Created, Seated, LobbyStep, lobbyVars
<1>3. ASSUME registry' \subseteq registry,
             UNCHANGED <<stopped, accepting, timing, timerFailed>>, serverTick' \in Nat
      PROVE  ControlInv'
  BY <1>1, <1>3 DEF ControlInv, OneAcceptOneTimer
<1>4. CASE HandleAccept
  BY <1>4, AcceptKeeps
<1>5. CASE AcceptFails
  <2>1. /\ accepting > 0 /\ accepting' = AcceptNext(accepting - 1)
        /\ UNCHANGED <<stopped, timerVars, nextSessionId, connectionVars>>
    BY <1>5 DEF AcceptFails
  <2>2. stopped => registry' = {}
    BY <1>1, <2>1 DEF connectionVars, ControlInv
  <2>3. ControlInv'
    BY <1>1, <2>1, <2>2, AcceptsGoOn
  <2> QED
    BY <1>2, <2>1, <2>3 DEF ServerInv
<1>6. CASE HandleTick
  <2>1. PICK game \in {phase} \cup (IF phase = "Playing" THEN {"Finished"} ELSE {}) :
           Broadcast(game)
    BY <1>6 DEF HandleTick
  <2>2. game = phase \/ (phase = "Playing" /\ game = "Finished")
    BY <2>1
  <2>3. ConnectionInv' /\ LobbyStep /\ registry' \subseteq registry
    BY <1>1, <1>6, <2>1, <2>2, BroadcastKeeps DEF HandleTick
  <2>4. serverTick' \in Nat /\ UNCHANGED <<stopped, accepting, timerFailed>>
    BY <1>1, <1>6 DEF HandleTick, ControlInv
  <2>5. timing' = timing \* the wait that came back is replaced
    <3>1. ~stopped /\ timing \in Nat /\ timing' = ScheduleNextTick(timing - 1)
      BY <1>1, <1>6 DEF HandleTick, ControlInv
    <3> QED
      BY <3>1 DEF ScheduleNextTick
  <2> QED
    BY <1>3, <2>3, <2>4, <2>5 DEF ServerInv
<1>7. CASE TickTimerFails
  <2>1. /\ timing > 0 /\ timing' = timing - 1
        /\ timerFailed' = (timerFailed \/ ~stopped)
        /\ UNCHANGED <<stopped, accepting, serverTick, registry>>
    BY <1>7 DEF TickTimerFails, connectionVars
  <2>2. timing = 1 /\ timing' = 0
    BY <1>1, <2>1 DEF ControlInv, OneAcceptOneTimer
  <2>3. timerFailed' \in BOOLEAN /\ (~stopped => timerFailed')
    BY <2>1
  <2>4. ControlInv'
    BY <1>1, <2>1, <2>2, <2>3 DEF ControlInv, OneAcceptOneTimer
  <2> QED
    BY <1>2, <1>7, <2>4 DEF TickTimerFails, ServerInv
<1>8. ASSUME NEW id \in Created,
             \/ \E message \in Received : SessionReads(id, message)
             \/ SessionReadFails(id)
             \/ \E ok \in BOOLEAN : SessionWrites(id, ok)
      PROVE  ServerInv' /\ LobbyStep
  <2>1. /\ ConnectionInv' /\ LobbyStep /\ registry' \subseteq registry
        /\ UNCHANGED <<stopped, accepting, timerVars>>
    BY <1>1, <1>8, SessionKeeps
  <2>2. /\ UNCHANGED <<stopped, accepting, timing, timerFailed, serverTick>>
        /\ serverTick' \in Nat
    BY <1>1, <2>1 DEF ControlInv, timerVars
  <2> QED
    BY <1>3, <2>1, <2>2 DEF ServerInv
<1>9. CASE Stop
  BY <1>9, StopKeeps
<1>10. CASE UNCHANGED vars
  <2>1. ControlInv'
    BY <1>1, <1>10 DEF vars, timerVars, connectionVars, ControlInv, OneAcceptOneTimer
  <2> QED
    BY <1>2, <1>10, <2>1 DEF vars, ServerInv
<1> QED
  BY <1>4, <1>5, <1>6, <1>7, <1>8, <1>9, <1>10 DEF Next

\* Every behaviour of the server satisfies the inductive invariant.
THEOREM ServerInvariant == Spec => []ServerInv
<1>1. ServerInv /\ [Next]_vars => ServerInv'
  BY ServerInvNext
<1> QED
  BY <1>1, ServerInvInit, PTL DEF Spec

\* Every variable keeps its type (TypeOK of Server).
THEOREM TypeCorrect == Spec => []TypeOK
<1>1. ServerInv => TypeOK
  <2> SUFFICES ASSUME ServerInv PROVE TypeOK
    OBVIOUS
  <2>1. LobbyTypeOK
    BY DEF ServerInv, ConnectionInv, Orderly, LobbyTypeOK
  <2>2. registry \subseteq Created
    BY DEF ServerInv, ConnectionInv, SeatsRegistryAndSocketsAgree
  <2>3. firstSent \in [Created -> SendableTypes \cup {Nothing}]
    BY DEF ServerInv, ConnectionInv, SendableTypes
  <2> QED
    BY <2>1, <2>2, <2>3 DEF ServerInv, ConnectionInv, ControlInv, TypeOK
<1> QED
  BY <1>1, ServerInvariant, PTL

\* However many clients connect, whatever order their reads, writes and ends
\* come in and whichever broadcast, refusal or shutdown closes them, no closed
\* session keeps a seat or a place in the registry and no open one lacks either
\* (CreateSession, the onClosed callbacks, Room::Broadcast, CloseAll).
THEOREM RegistryAgrees == Spec => []SeatsRegistryAndSocketsAgree
<1>1. ServerInv => SeatsRegistryAndSocketsAgree
  BY DEF ServerInv, ConnectionInv
<1> QED
  BY <1>1, ServerInvariant, PTL

\* Whatever comes of its accepts and ticks, a running server has exactly one
\* accept registered and, until the timer itself fails, exactly one tick; a
\* stopped one never has two of either (AcceptNext, ScheduleNextTick).
THEOREM ChainsStaySingle == Spec => []OneAcceptOneTimer
<1>1. ServerInv => OneAcceptOneTimer
  BY DEF ServerInv, ControlInv
<1> QED
  BY <1>1, ServerInvariant, PTL

\* A stopped server has no session, player or game, and never again gets one
\* (Server::Stop and the tests of stopped_ in the handlers).
THEOREM StaysEmpty == Spec => []StoppedIsEmpty
<1>1. ServerInv => StoppedIsEmpty
  <2> SUFFICES ASSUME ServerInv, stopped PROVE StoppedIsEmpty
    BY DEF StoppedIsEmpty
  <2>1. /\ registry = {} /\ Seated = {} /\ \A id \in Created : session[id].closed
    BY DEF ServerInv, ConnectionInv, ControlInv, SeatsRegistryAndSocketsAgree
  <2>2. ~Ready(sideOf)
    BY <2>1 DEF Ready, FreeSides, Sides, Seated
  <2>3. phase = "Waiting"
    BY <2>2 DEF ServerInv, ConnectionInv, Orderly
  <2> QED
    BY <2>1, <2>3 DEF StoppedIsEmpty
<1> QED
  BY <1>1, ServerInvariant, PTL

\* A client is told who it is before it is sent anything else, which it relies
\* on to accept a snapshot (HandleAccept, HandleTick, HandlePing).
THEOREM IdentityComesFirst == Spec => []IdentityFirst
<1>1. ServerInv => IdentityFirst
  BY DEF ServerInv, ConnectionInv, IdentityFirst
<1> QED
  BY <1>1, ServerInvariant, PTL

\* Whatever the sessions do, the room is moved only as the lobby allows: one
\* player a side, a game exactly while there are two (ImplementsLobby).
THEOREM ServerImplementsLobby == Spec => ImplementsLobby
<1>1. Init => LobbyInit
  BY DEF Init
<1>2. ServerInv /\ [Next]_vars => [LobbyNext]_lobbyVars
  BY ServerInvNext DEF LobbyStep
<1> QED
  BY <1>1, <1>2, ServerInvariant, PTL DEF Spec, ImplementsLobby, LobbySpec

=============================================================================
