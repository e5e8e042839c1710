------------------------------ MODULE Session ------------------------------
(***************************************************************************)
(* A server session against its environment: the server sends and stops,   *)
(* the client's bytes arrive or the connection fails, writes complete in   *)
(* their own time.  The handlers run one at a time on the server thread.   *)
(***************************************************************************)
EXTENDS SessionState, SequencesExt

CONSTANT MaxAccepted    \* bound: messages accepted for sending in one run

ASSUME SessionAssumption == MaxAccepted \in Nat

VARIABLES
    session,        \* the session
    started,        \* Start has been called
    accepted,       \* history: every message Send accepted, in order
    delivered       \* history: every message whose write completed, in order

vars == <<session, started, accepted, delivered>>

Init ==
    /\ session = NewSession
    /\ started = FALSE
    /\ accepted = <<>>
    /\ delivered = <<>>

\* The room admits the session: identity first, then the session starts to
\* read; one that cannot be told its identity is stopped (HandleAccept).
ServerAdmits ==
    /\ ~started /\ ~session.closed
    /\ IF Accepts(session, "PlayerIdentity")
       THEN /\ session' = Start(Send(session, "PlayerIdentity"))
            /\ started' = TRUE
            /\ accepted' = <<"PlayerIdentity">>
       ELSE /\ session' = Close(session)
            /\ UNCHANGED <<started, accepted>>
    /\ UNCHANGED delivered

\* The snapshot of a tick; a refused one is dropped.
ServerBroadcasts ==
    /\ started
    /\ Accepts(session, "WorldStateSnapshot") => Len(accepted) < MaxAccepted
    /\ session' = Send(session, "WorldStateSnapshot")
    /\ accepted' = IF Accepts(session, "WorldStateSnapshot")
                   THEN Append(accepted, "WorldStateSnapshot") ELSE accepted
    /\ UNCHANGED <<started, delivered>>

\* The room is full, a broadcast was refused, or the server shuts down.
ServerStops ==
    /\ session' = Close(session)
    /\ UNCHANGED <<started, accepted, delivered>>

ReadCompletes(message) ==
    /\ session.reading > 0
    /\ session' = HandleRead(session, message)
    /\ message = "Ping" /\ Accepts(session, "Pong") => Len(accepted) < MaxAccepted
    /\ accepted' = IF message = "Ping" /\ Accepts(session, "Pong")
                   THEN Append(accepted, "Pong") ELSE accepted
    /\ UNCHANGED <<started, delivered>>

ReadFails ==
    /\ session.reading > 0
    /\ session' = HandleReadError(session)
    /\ UNCHANGED <<started, accepted, delivered>>

\* A write completes while the session is open.
WriteCompletes ==
    /\ session.writing > 0
    /\ ~session.closed
    /\ session' = HandleWrite(session, TRUE)
    /\ delivered' = Append(delivered, Head(session.sendQueue))
    /\ UNCHANGED <<started, accepted>>

\* A write fails, or completes in whatever way after the session was closed.
WriteFails ==
    /\ session.writing > 0
    /\ session' = HandleWrite(session, FALSE)
    /\ UNCHANGED <<started, accepted, delivered>>

Next ==
    \/ ServerAdmits
    \/ ServerBroadcasts
    \/ ServerStops
    \/ \E message \in Received : ReadCompletes(message)
    \/ ReadFails
    \/ WriteCompletes
    \/ WriteFails

Spec == Init /\ [][Next]_vars

\* An operation on a closed socket is aborted: Boost.Asio calls its handler.
\* On an open one a read may wait for ever for the client to send, and a write
\* for the client to read.
FairSpec ==
    /\ Spec
    /\ WF_vars(session.closed /\ WriteFails)
    /\ WF_vars(session.closed /\ ReadFails)

-----------------------------------------------------------------------------
(* Properties.                                                             *)

TypeOK ==
    /\ session \in SessionRecord
    /\ started \in BOOLEAN
    /\ accepted \in Seq(SendableTypes)
    /\ delivered \in Seq(SendableTypes)

\* At most one read and one write are registered at a time, a read only after
\* the start; while a write is, the message it
\* reads from is at the front of the queue, also after Close; and an open
\* session never has messages waiting with no write to move them (Send,
\* WriteNext, HandleWrite, Close).
OperationChains ==
    /\ session.reading <= 1 /\ (session.reading = 1 => started)
    /\ session.writing <= 1
    /\ session.writing = 1 => session.sendQueue # <<>>
    /\ ~session.closed /\ session.sendQueue # <<>> => session.writing = 1

\* The owner is told of the end exactly once, whichever of a failed read, a
\* failed write, a bad message and the server closes first (Close).
ClosedOnce == session.callbacks = IF session.closed THEN 1 ELSE 0

\* Nothing accepted is lost, repeated or reordered while the session is open,
\* and what was delivered before it closed is a prefix (Send, HandleWrite).
StreamInOrder ==
    /\ ~session.closed => accepted = delivered \o session.sendQueue
    /\ IsPrefix(delivered, accepted)

\* The message under an asynchronous write stays where it is until the write
\* has completed (the buffer handed to async_write).
BufferOutlivesWrite ==
    [][session.writing = 1 /\ session'.writing = 1 /\ delivered' = delivered =>
          /\ session'.sendQueue # <<>>
          /\ Head(session'.sendQueue) = Head(session.sendQueue)]_vars

\* A session that stays open stops reading in one case only: the pong of a
\* ping it just read was refused (HandleRead, HandlePing).
ReadsOnUnlessPongRefused ==
    [][session.reading = 1 /\ session'.reading = 0 /\ ~session'.closed =>
          ~Accepts(session, "Pong")]_vars

\* What the client may do and the code cannot make it do: take what it is sent,
\* so that every write ends.
ClientTakesAll == WF_vars(WriteCompletes \/ WriteFails)

\* A client that goes on taking what it is sent gets every message accepted for
\* it, unless the session closes: the chain of writes never breaks (WriteNext,
\* HandleWrite).  One that stops is not given up by the code before the limit.
EverythingDelivered ==
    ClientTakesAll =>
        \A n \in 1 .. MaxAccepted :
            Len(accepted) >= n ~> (Len(delivered) >= n \/ session.closed)

\* A closed session is released: every operation registered for it comes back
\* and none is registered again (Close, ReadNext, WriteNext).
Released == session.closed ~> [](session.writing = 0 /\ session.reading = 0)

QueuedBytes ==
    FoldSeq(LAMBDA type, sum : MessageSize[type] + sum, 0, session.sendQueue)

\* session.h 118: the count is the bytes being sent or waiting to be sent.
PendingBytesMatchQueue ==
    ~session.closed => session.pendingSendBytes = QueuedBytes

\* session.h 58: a client never occupies more than the limit.
QueueWithinLimit == QueuedBytes <= MaxPendingSendBytes

=============================================================================
