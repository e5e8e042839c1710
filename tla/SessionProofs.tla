--------------------------- MODULE SessionProofs ---------------------------
(***************************************************************************)
(* What holds of a session for every message size, limit and length of     *)
(* run: the inductive invariant SessionInv of Session and what follows     *)
(* from it.  SessionStateProofs has the lemmas about the member functions. *)
(***************************************************************************)
EXTENDS Session, SessionStateProofs

-----------------------------------------------------------------------------
(* Sequences.                                                              *)

\* A sequence is a prefix of itself with more at its end.
LEMMA PrefixOfConcat ==
  ASSUME NEW S, NEW s \in Seq(S), NEW t \in Seq(S)
  PROVE  IsPrefix(s, s \o t)
<1>1. /\ Len(s) \in Nat /\ Len(t) \in Nat
      /\ Len(s \o t) = Len(s) + Len(t)
      /\ s \o t \in Seq(S)
      /\ \A i \in 1 .. Len(s) : (s \o t)[i] = s[i]
  BY ConcatProperties, LenProperties
<1>2. Len(s) <= Len(s \o t)
  BY <1>1
<1>3. SubSeq(s, 1, Len(s)) = SubSeq(s \o t, 1, Len(s))
  BY <1>1
<1> QED
  BY <1>2, <1>3 DEF IsPrefix

\* Appending to a concatenation appends to its second part.
LEMMA AppendToConcat ==
  ASSUME NEW S, NEW s \in Seq(S), NEW t \in Seq(S), NEW u \in Seq(S), NEW e \in S,
         u = s \o t
  PROVE  Append(u, e) = s \o Append(t, e)
<1>1. /\ Append(u, e) \in Seq(S) /\ s \o Append(t, e) \in Seq(S)
      /\ Len(Append(u, e)) = Len(s \o Append(t, e))
  BY AppendProperties, ConcatProperties, LenProperties
<1>2. \A i \in 1 .. Len(Append(u, e)) : Append(u, e)[i] = (s \o Append(t, e))[i]
  BY AppendProperties, ConcatProperties, LenProperties
<1> QED
  BY <1>1, <1>2, SeqEqual

\* Moving the head of a queue to the end of what was delivered changes
\* nothing of the two together.
LEMMA HeadMoves ==
  ASSUME NEW S, NEW s \in Seq(S), NEW q \in Seq(S), q # <<>>
  PROVE  /\ Append(s, Head(q)) \in Seq(S)
         /\ Tail(q) \in Seq(S)
         /\ s \o q = Append(s, Head(q)) \o Tail(q)
<1>1. /\ Head(q) \in S /\ Tail(q) \in Seq(S)
  BY HeadTailProperties
<1>2. Append(s, Head(q)) \in Seq(S)
  BY <1>1
<1>3. s \o q = Append(s, Head(q)) \o Tail(q)
  BY <1>1, <1>2
<1> QED
  BY <1>1, <1>2, <1>3

-----------------------------------------------------------------------------
(* The inductive invariant.  OperationChains and ClosedOnce are not         *)
(* inductive: that no read or write is registered, and nothing accepted,    *)
(* before the start has to be known when the room admits the session, and   *)
(* that accepted messages are in the queue or delivered when a write        *)
(* completes.                                                               *)

NotStarted ==
    /\ session.reading = 0 /\ session.sendQueue = <<>>
    /\ accepted = <<>> /\ delivered = <<>>

SessionInv ==
    /\ TypeOK
    /\ WellFormed(session)
    /\ ~started => NotStarted
    /\ StreamInOrder

\* What SessionInv says of the next state when nothing but pongs and
\* snapshots is added to what was accepted, or nothing at all is.
LEMMA Appending ==
  ASSUME SessionInv, WellFormed(session'), started, UNCHANGED <<started, delivered>>,
         NEW type \in SendableTypes, NEW taken \in BOOLEAN,
         taken => ~session.closed,
         accepted' = IF taken THEN Append(accepted, type) ELSE accepted,
         session.closed => session'.closed,
         session'.sendQueue = IF taken THEN Append(session.sendQueue, type) ELSE session.sendQueue
  PROVE  SessionInv'
<1>1. /\ accepted \in Seq(SendableTypes) /\ delivered \in Seq(SendableTypes)
      /\ session.sendQueue \in Seq(SendableTypes)
      /\ session' \in SessionRecord
  BY DEF SessionInv, TypeOK, WellFormed, SessionRecord
<1>2. CASE taken
  <2>1. accepted = delivered \o session.sendQueue
    BY <1>2 DEF SessionInv, StreamInOrder
  <2>2. accepted' = delivered \o session'.sendQueue
    <3>1. Append(accepted, type) = delivered \o Append(session.sendQueue, type)
      BY <1>1, <2>1, AppendToConcat
    <3>2. /\ accepted' = Append(accepted, type)
          /\ session'.sendQueue = Append(session.sendQueue, type)
      BY <1>2
    <3> QED
      BY <3>1, <3>2, Zenon
  <2>3. /\ accepted' \in Seq(SendableTypes) /\ session'.sendQueue \in Seq(SendableTypes)
    BY <1>1, <1>2, AppendProperties
  <2>4. IsPrefix(delivered, accepted')
    BY <1>1, <2>2, <2>3, PrefixOfConcat
  <2> QED
    BY <1>1, <2>2, <2>3, <2>4 DEF SessionInv, TypeOK, StreamInOrder
<1>3. CASE ~taken
  BY <1>1, <1>3 DEF SessionInv, TypeOK, StreamInOrder
<1> QED
  BY <1>2, <1>3

\* The initial state satisfies the invariant.
LEMMA SessionInvInit == Init => SessionInv
<1> SUFFICES ASSUME Init PROVE SessionInv
  OBVIOUS
<1>1. NewSession \in SessionRecord
  BY DEF NewSession, SessionRecord
<1>2. WellFormed(session)
  BY <1>1 DEF Init, NewSession, WellFormed
<1>3. TypeOK
  BY <1>1, EmptySeq DEF Init, TypeOK
<1>4. NotStarted
  BY DEF Init, NewSession, NotStarted
<1>5. StreamInOrder
  <2>1. delivered \o session.sendQueue = <<>> /\ <<>> \in Seq(SendableTypes)
    BY ConcatEmptySeq DEF Init, NewSession
  <2>2. IsPrefix(delivered, delivered \o session.sendQueue)
    BY <2>1, PrefixOfConcat DEF Init, NewSession
  <2> QED
    BY <2>1, <2>2 DEF Init, StreamInOrder
<1> QED
  BY <1>2, <1>3, <1>4, <1>5 DEF SessionInv

\* Every step of a session preserves the invariant.
LEMMA SessionInvNext == SessionInv /\ [Next]_vars => SessionInv'
<1> SUFFICES ASSUME SessionInv, [Next]_vars PROVE SessionInv'
  OBVIOUS
<1>1. /\ WellFormed(session) /\ session \in SessionRecord
      /\ session.reading \in Nat /\ session.writing \in Nat
      /\ session.sendQueue \in Seq(SendableTypes)
      /\ accepted \in Seq(SendableTypes) /\ delivered \in Seq(SendableTypes)
      /\ ~started => NotStarted
  BY DEF SessionInv, TypeOK, SessionRecord
<1>2. {"Pong", "PlayerIdentity", "WorldStateSnapshot"} \subseteq SendableTypes
  BY DEF SendableTypes
<1>3. CASE ServerAdmits
  <2>1. CASE Accepts(session, "PlayerIdentity")
    <3> DEFINE told == Send(session, "PlayerIdentity")
    <3>1. session.sendQueue = <<>> /\ session.reading = 0 /\ delivered = <<>> /\ accepted = <<>>
      BY <1>1, <1>3 DEF ServerAdmits, NotStarted
    <3>2. /\ WellFormed(told) /\ told.reading = 0
          /\ told.sendQueue = Append(<<>>, "PlayerIdentity")
      BY <1>1, <1>2, <2>1, <3>1, SendEffect
    <3>3. WellFormed(ReadNext(told)) /\ ReadNext(told).sendQueue = told.sendQueue
      BY <3>2, ReadNextEffect
    <3>4. /\ session' = ReadNext(told)
          /\ started' = TRUE /\ accepted' = <<"PlayerIdentity">> /\ delivered' = <<>>
      BY <1>3, <2>1, <3>1 DEF ServerAdmits, Start
    <3> HIDE DEF told
    <3>5. /\ accepted' = delivered' \o session'.sendQueue
          /\ accepted' \in Seq(SendableTypes) /\ delivered' \in Seq(SendableTypes)
          /\ session'.sendQueue \in Seq(SendableTypes)
      BY <1>2, <3>2, <3>3, <3>4
    <3>6. IsPrefix(delivered', accepted')
      BY <3>5, PrefixOfConcat
    <3> QED
      BY <3>3, <3>4, <3>5, <3>6 DEF SessionInv, TypeOK, WellFormed, StreamInOrder
  <2>2. CASE ~Accepts(session, "PlayerIdentity")
    <3>1. session' = Close(session) /\ UNCHANGED <<started, accepted, delivered>>
      BY <1>3, <2>2 DEF ServerAdmits
    <3>2. /\ WellFormed(session') /\ session'.closed
          /\ session'.sendQueue = session.sendQueue /\ session'.reading = session.reading
      BY <1>1, <3>1, CloseEffect
    <3> QED
      BY <1>1, <3>1, <3>2 DEF SessionInv, TypeOK, WellFormed, StreamInOrder, NotStarted
  <2> QED
    BY <2>1, <2>2
<1>4. CASE ServerBroadcasts
  <2>1. /\ WellFormed(session') /\ session'.closed = session.closed
        /\ session'.sendQueue = IF Accepts(session, "WorldStateSnapshot")
                                THEN Append(session.sendQueue, "WorldStateSnapshot")
                                ELSE session.sendQueue
    BY <1>1, <1>2, <1>4, SendEffect DEF ServerBroadcasts
  <2>2. Accepts(session, "WorldStateSnapshot") \in BOOLEAN
        /\ (Accepts(session, "WorldStateSnapshot") => ~session.closed)
    BY DEF Accepts
  <2> QED
    BY <1>2, <1>4, <2>1, <2>2, Appending DEF ServerBroadcasts
<1>5. CASE ServerStops
  <2>1. session' = Close(session) /\ UNCHANGED <<started, accepted, delivered>>
    BY <1>5 DEF ServerStops
  <2>2. /\ WellFormed(session') /\ session'.closed
        /\ session'.sendQueue = session.sendQueue /\ session'.reading = session.reading
    BY <1>1, <2>1, CloseEffect
  <2> QED
    BY <1>1, <2>1, <2>2 DEF SessionInv, TypeOK, WellFormed, StreamInOrder, NotStarted
<1>6. ASSUME NEW message \in Received, ReadCompletes(message)
      PROVE  SessionInv'
  <2>1. session.reading = 1 /\ started
    BY <1>1, <1>6 DEF ReadCompletes, WellFormed, NotStarted
  <2> DEFINE taken == message = "Ping" /\ Accepts(session, "Pong")
  <2>2. /\ WellFormed(session') /\ (session.closed => session'.closed)
        /\ session'.sendQueue = IF taken THEN Append(session.sendQueue, "Pong")
                                ELSE session.sendQueue
    BY <1>1, <1>6, <2>1, HandleReadEffect DEF ReadCompletes
  <2>3. taken \in BOOLEAN /\ (taken => ~session.closed)
    BY DEF Accepts
  <2>4. /\ UNCHANGED <<started, delivered>>
        /\ accepted' = IF taken THEN Append(accepted, "Pong") ELSE accepted
    BY <1>6 DEF ReadCompletes
  <2> HIDE DEF taken
  <2> QED
    BY <1>2, <2>1, <2>2, <2>3, <2>4, Appending
<1>7. CASE ReadFails
  <2>1. session.reading = 1 /\ started
    BY <1>1, <1>7 DEF ReadFails, WellFormed, NotStarted
  <2>2. /\ WellFormed(session') /\ session'.closed
        /\ session'.sendQueue = session.sendQueue
        /\ UNCHANGED <<started, accepted, delivered>>
    BY <1>1, <1>7, <2>1, HandleReadErrorEffect DEF ReadFails
  <2> QED
    BY <1>1, <2>1, <2>2 DEF SessionInv, TypeOK, WellFormed, StreamInOrder
<1>8. CASE WriteCompletes
  <2>1. /\ session.writing = 1 /\ session.sendQueue # <<>> /\ started /\ ~session.closed
    BY <1>1, <1>8 DEF WriteCompletes, WellFormed, NotStarted
  <2>2. /\ WellFormed(session')
        /\ ~session'.closed => session'.sendQueue = Tail(session.sendQueue)
        /\ delivered' = Append(delivered, Head(session.sendQueue))
        /\ UNCHANGED <<started, accepted>>
    BY <1>1, <1>8, <2>1, HandleWriteEffect DEF WriteCompletes
  <2>3. accepted = delivered \o session.sendQueue
    BY <2>1 DEF SessionInv, StreamInOrder
  <2>4. /\ delivered' \in Seq(SendableTypes) /\ Tail(session.sendQueue) \in Seq(SendableTypes)
        /\ accepted' = delivered' \o Tail(session.sendQueue)
    <3>1. /\ Append(delivered, Head(session.sendQueue)) \in Seq(SendableTypes)
          /\ Tail(session.sendQueue) \in Seq(SendableTypes)
          /\ delivered \o session.sendQueue
               = Append(delivered, Head(session.sendQueue)) \o Tail(session.sendQueue)
      BY <1>1, <2>1, HeadMoves
    <3> QED
      BY <2>2, <2>3, <3>1
  <2>5. IsPrefix(delivered', accepted')
    BY <2>4, PrefixOfConcat
  <2> QED
    BY <1>1, <2>1, <2>2, <2>4, <2>5 DEF SessionInv, TypeOK, WellFormed, StreamInOrder
<1>9. CASE WriteFails
  <2>1. session.writing = 1 /\ started
    BY <1>1, <1>9 DEF WriteFails, WellFormed, NotStarted
  <2>2. /\ WellFormed(session') /\ session'.closed
        /\ UNCHANGED <<started, accepted, delivered>>
    BY <1>1, <1>9, <2>1, HandleWriteEffect DEF WriteFails
  <2> QED
    BY <1>1, <2>1, <2>2 DEF SessionInv, TypeOK, WellFormed, StreamInOrder
<1>10. CASE UNCHANGED vars
  BY <1>10 DEF vars, SessionInv, TypeOK, WellFormed, StreamInOrder, NotStarted
<1> QED
  BY <1>3, <1>4, <1>5, <1>6, <1>7, <1>8, <1>9, <1>10 DEF Next

-----------------------------------------------------------------------------
(* The theorems.                                                           *)

\* Every behaviour satisfies the inductive invariant.
THEOREM SessionInvariant == Spec => []SessionInv
<1> QED
  BY SessionInvInit, SessionInvNext, PTL DEF Spec

\* Every variable keeps its type (TypeOK of Session).
THEOREM TypeCorrect == Spec => []TypeOK
<1>1. SessionInv => TypeOK
  BY DEF SessionInv
<1> QED
  BY <1>1, SessionInvariant, PTL

\* At most one read and one write are registered at a time, whatever order
\* sends, reads, completions, failures and stops come in, and an open session
\* never has messages waiting with no write to move them (Send, WriteNext,
\* HandleWrite, Close).
THEOREM OneOperationEachWay == Spec => []OperationChains
<1>1. SessionInv => OperationChains
  BY DEF SessionInv, WellFormed, NotStarted, OperationChains
<1> QED
  BY <1>1, SessionInvariant, PTL

\* The owner of a session is told of its end exactly once, whoever closes it
\* first (Close).
THEOREM OwnerToldOnce == Spec => []ClosedOnce
<1>1. SessionInv => ClosedOnce
  BY DEF SessionInv, WellFormed, ClosedOnce
<1> QED
  BY <1>1, SessionInvariant, PTL

\* Whatever the interleaving, what the client was sent is what the server
\* accepted, in order and without gaps (Send, HandleWrite).
THEOREM DeliveredInOrder == Spec => []StreamInOrder
<1>1. SessionInv => StreamInOrder
  BY DEF SessionInv
<1> QED
  BY <1>1, SessionInvariant, PTL

\* No step moves or frees the message under a registered write; what the step
\* relation guarantees from a state that satisfies the invariant.
LEMMA BufferStays ==
  ASSUME SessionInv, Next, session.writing = 1, session'.writing = 1, delivered' = delivered
  PROVE  /\ session'.sendQueue # <<>>
         /\ Head(session'.sendQueue) = Head(session.sendQueue)
<1>1. /\ WellFormed(session) /\ session \in SessionRecord
      /\ session.reading \in Nat /\ session.writing \in Nat
      /\ session.sendQueue \in Seq(SendableTypes) /\ session.sendQueue # <<>>
      /\ delivered \in Seq(SendableTypes)
      /\ ~started => NotStarted
  BY DEF SessionInv, TypeOK, WellFormed, SessionRecord
<1>2. {"Pong", "PlayerIdentity", "WorldStateSnapshot"} \subseteq SendableTypes
  BY DEF SendableTypes
<1>3. ASSUME NEW type \in SendableTypes,
             session'.sendQueue \in {session.sendQueue, Append(session.sendQueue, type)}
      PROVE  /\ session'.sendQueue # <<>>
             /\ Head(session'.sendQueue) = Head(session.sendQueue)
  BY <1>1, <1>3, AppendProperties, HeadTailAppend
<1>4. CASE ServerAdmits
  <2>1. session.sendQueue = <<>> \/ session' = Close(session)
    BY <1>1, <1>4 DEF ServerAdmits, NotStarted
  <2> QED
    BY <1>1, <2>1, CloseEffect
<1>5. CASE ServerBroadcasts
  <2>1. session'.sendQueue \in {session.sendQueue, Append(session.sendQueue, "WorldStateSnapshot")}
    BY <1>1, <1>2, <1>5, SendEffect DEF ServerBroadcasts
  <2> QED
    BY <1>2, <1>3, <2>1
<1>6. CASE ServerStops
  BY <1>1, <1>6, CloseEffect DEF ServerStops
<1>7. ASSUME NEW message \in Received, ReadCompletes(message)
      PROVE  session'.sendQueue \in {session.sendQueue, Append(session.sendQueue, "Pong")}
  <2>1. session.reading = 1 /\ session' = HandleRead(session, message)
    BY <1>1, <1>7 DEF ReadCompletes, WellFormed
  <2> QED
    BY <1>1, <2>1, HandleReadEffect
<1>8. CASE ReadFails
  BY <1>1, <1>8, HandleReadErrorEffect DEF ReadFails, WellFormed
<1>9. CASE WriteCompletes
  <2>1. delivered' = Append(delivered, Head(session.sendQueue))
    BY <1>9 DEF WriteCompletes
  <2>2. Head(session.sendQueue) \in SendableTypes
    BY <1>1, HeadTailProperties
  <2>3. Len(delivered') = Len(delivered) + 1 /\ Len(delivered) \in Nat
    BY <1>1, <2>1, <2>2, AppendProperties, LenProperties
  <2> QED
    BY <2>3
<1>10. CASE WriteFails
  <2>1. session' = HandleWrite(session, FALSE) /\ session.writing = 1
    BY <1>10 DEF WriteFails
  <2>2. session'.writing = 0
    BY <1>1, <2>1, HandleWriteEffect
  <2> QED
    BY <2>2
<1> QED
  BY <1>2, <1>3, <1>4, <1>5, <1>6, <1>7, <1>8, <1>9, <1>10 DEF Next

\* The buffer handed to an asynchronous write stays in place until the write
\* has completed, also when the session is closed meanwhile (Close, HandleWrite).
THEOREM BufferKept == Spec => BufferOutlivesWrite
<1>1. SessionInv /\ [Next]_vars =>
        [session.writing = 1 /\ session'.writing = 1 /\ delivered' = delivered =>
            /\ session'.sendQueue # <<>>
            /\ Head(session'.sendQueue) = Head(session.sendQueue)]_vars
  BY BufferStays
<1> QED
  BY <1>1, SessionInvariant, PTL DEF Spec, BufferOutlivesWrite

\* A step after which no read is registered although one was has closed the
\* session, or read a ping whose pong is refused.
LEMMA ReadGoesOn ==
  ASSUME SessionInv, Next, session.reading = 1, session'.reading = 0, ~session'.closed
  PROVE  ~Accepts(session, "Pong")
<1>1. /\ WellFormed(session) /\ started
      /\ {"Pong", "PlayerIdentity", "WorldStateSnapshot"} \subseteq SendableTypes
  BY DEF SessionInv, NotStarted, SendableTypes
<1>2. CASE ServerAdmits
  BY <1>1, <1>2 DEF ServerAdmits
<1>3. CASE ServerBroadcasts
  BY <1>1, <1>3, SendEffect DEF ServerBroadcasts
<1>4. CASE ServerStops
  BY <1>1, <1>4, CloseEffect DEF ServerStops
<1>5. ASSUME NEW message \in Received, ReadCompletes(message)
      PROVE  ~Accepts(session, "Pong")
  BY <1>1, <1>5, HandleReadEffect DEF ReadCompletes
<1>6. CASE ReadFails
  BY <1>1, <1>6, HandleReadErrorEffect DEF ReadFails
<1>7. session.writing > 0 => session.writing = 1
  BY DEF SessionInv, WellFormed, TypeOK, SessionRecord
<1>8. CASE WriteCompletes
  <2>1. session' = HandleWrite(session, TRUE) /\ session.writing = 1
    BY <1>7, <1>8 DEF WriteCompletes
  <2>2. session'.reading = session.reading
    BY <1>1, <2>1, HandleWriteEffect
  <2> QED
    BY <2>2
<1>9. CASE WriteFails
  <2>1. session' = HandleWrite(session, FALSE) /\ session.writing = 1
    BY <1>7, <1>9 DEF WriteFails
  <2>2. session'.reading = session.reading
    BY <1>1, <2>1, HandleWriteEffect
  <2> QED
    BY <2>2
<1> QED
  BY <1>2, <1>3, <1>4, <1>5, <1>6, <1>8, <1>9 DEF Next

\* A session that stays open goes on reading whatever it reads, sends or is asked
\* to send, except when the pong of a ping was refused at the limit (HandleRead,
\* HandlePing).
THEOREM KeepsReading == Spec => ReadsOnUnlessPongRefused
<1>1. SessionInv /\ [Next]_vars =>
        [session.reading = 1 /\ session'.reading = 0 /\ ~session'.closed =>
            ~Accepts(session, "Pong")]_vars
  BY ReadGoesOn
<1> QED
  BY <1>1, SessionInvariant, PTL DEF Spec, ReadsOnUnlessPongRefused

=============================================================================
