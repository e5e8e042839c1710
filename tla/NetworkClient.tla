--------------------------- MODULE NetworkClient ---------------------------
(***************************************************************************)
(* The client's side of its connection: resolving, connecting, reading,    *)
(* cutting the stream into messages, writing, ending.  Operations of a     *)
(* connection that is over still complete, some after the next connection  *)
(* began, and only the connection generation tells them apart.             *)
(***************************************************************************)
EXTENDS Integers, SequencesExt

CONSTANTS
    MessageSize,            \* bytes of a message the client sends
    MaxPendingSendBytes,    \* limit of the bytes waiting to be sent
    MaxGenerations,         \* bound: connection generations in one run
    MaxMessages             \* bound: messages of the server per connection

SendableTypes == {"Ping", "PlayerInput"}

ASSUME NetworkClientAssumption ==
    /\ MessageSize \in [SendableTypes -> Nat \ {0}]
    /\ MaxPendingSendBytes \in Nat
    /\ MaxGenerations \in Nat
    /\ MaxMessages \in Nat

\* What a server's bytes can hold.  An invalid message has a payload that does
\* not decode, a type that is not for a client, or a snapshot of another room;
\* the header of the last one states a size out of range.
Messages == {"Pong", "PlayerIdentity", "WorldStateSnapshot", "Invalid", "BadSize"}

\* The stream is cut into units: the two fields of a header, then a payload.
HeaderUnits == 2
Units(message) == IF message = "BadSize" THEN HeaderUnits ELSE HeaderUnits + 1
Encoded(message) == [part \in 1 .. Units(message) |-> <<message, part>>]

\* The units of several messages, one after the other.
Stream(messages) ==
    FlattenSeq([i \in DOMAIN messages |-> Encoded(messages[i])])

ConnectionStates == {"Disconnected", "Resolving", "Connecting", "Connected"}
CallbackTypes ==
    {"Connected", "ConnectionFailed", "Disconnected", "PlayerIdentity",
     "WorldStateSnapshot"}
OperationTypes == {"resolve", "connect", "read", "write"}
Generations == 0 .. MaxGenerations

VARIABLES
    client,     \* the NetworkClient and its asynchronous operations
    stream,     \* units of the current connection's server not yet read
    sent        \* history: messages the current connection's server sent

vars == <<client, stream, sent>>

-----------------------------------------------------------------------------
(* The operations of the class, as functions of the client's state.  Field *)
(* operations counts the registered operations of a type and generation,   *)
(* posted holds the callbacks posted to the executor, and heard (history)  *)
(* the callbacks called since the last Connect.                            *)

NewClient ==
    [connectionState |-> "Disconnected", connectionGeneration |-> 0,
     callbacks |-> {}, accumulatedBuffer |-> <<>>, sendQueue |-> <<>>,
     pendingSendBytes |-> 0, playerIdentity |-> FALSE, latestRtt |-> FALSE,
     operations |-> [operation \in OperationTypes \X Generations |-> 0],
     posted |-> <<>>, heard |-> <<>>]

IsCurrentOperation(c, generation, state) ==
    generation = c.connectionGeneration /\ c.connectionState = state

Register(c, type, generation) ==
    [c EXCEPT !.operations[<<type, generation>>] = @ + 1]

Call(c, callback) ==
    IF callback \in c.callbacks
    THEN [c EXCEPT !.heard = Append(@, callback)] ELSE c

\* What every end of a connection does: the socket is closed, the buffers and
\* what was learnt from the server are dropped.
Reset(c) ==
    [c EXCEPT !.connectionState = "Disconnected", !.accumulatedBuffer = <<>>,
              !.sendQueue = <<>>, !.pendingSendBytes = 0,
              !.playerIdentity = FALSE, !.latestRtt = FALSE]

Connect(c) ==
    LET generation == c.connectionGeneration + 1
    IN  Register([Reset(c) EXCEPT !.connectionState = "Resolving",
                                  !.connectionGeneration = generation,
                                  !.callbacks = CallbackTypes,
                                  !.heard = <<>>],
                 "resolve", generation)

Disconnect(c) ==
    [Reset(c) EXCEPT !.connectionGeneration = @ + 1, !.callbacks = {}]

CompleteConnectionFailure(c, generation) ==
    IF generation = c.connectionGeneration
    THEN [Call(Reset(c), "ConnectionFailed") EXCEPT !.callbacks = {}]
    ELSE c

CompleteDisconnection(c, generation) ==
    IF IsCurrentOperation(c, generation, "Connected")
    THEN [Call(Reset(c), "Disconnected") EXCEPT
             !.callbacks = @ \ {"Disconnected", "PlayerIdentity", "WorldStateSnapshot"}]
    ELSE c

HandleResolve(c, error, generation) ==
    IF ~IsCurrentOperation(c, generation, "Resolving") THEN c
    ELSE IF error THEN CompleteConnectionFailure(c, generation)
    ELSE Register([c EXCEPT !.connectionState = "Connecting"], "connect", generation)

ReadNext(c, generation) ==
    IF IsCurrentOperation(c, generation, "Connected")
    THEN Register(c, "read", generation) ELSE c

\* answer is what the owner does in the callback: nothing, or disconnect.
HandleConnect(c, error, generation, answer) ==
    LET connected ==
            [Call([c EXCEPT !.connectionState = "Connected"], "Connected") EXCEPT
                !.callbacks = @ \ {"Connected", "ConnectionFailed"}]
    IN  IF ~IsCurrentOperation(c, generation, "Connecting") THEN c
        ELSE IF error THEN CompleteConnectionFailure(c, generation)
        ELSE ReadNext(IF answer = "disconnect" THEN Disconnect(connected) ELSE connected,
                      generation)

Post(c, callback) ==
    IF callback \in c.callbacks
    THEN [c EXCEPT !.posted =
             Append(@, [callback |-> callback, generation |-> c.connectionGeneration])]
    ELSE c

\* Mutant: any connection that is open will do.
RunCallbackAnyway(c) ==
    LET next == Head(c.posted)
        rest == [c EXCEPT !.posted = Tail(@)]
    IN  IF c.connectionState = "Connected"
        THEN [rest EXCEPT !.heard = Append(@, next.callback)] ELSE rest

\* A posted callback runs on the connection that posted it, or not at all.
RunCallback(c) ==
    LET next == Head(c.posted)
        rest == [c EXCEPT !.posted = Tail(@)]
    IN  IF IsCurrentOperation(c, next.generation, "Connected")
        THEN [rest EXCEPT !.heard = Append(@, next.callback)] ELSE rest

\* A buffer that does not start with a header has no size a message can have.
DecodeHeader(buffer) ==
    IF Head(buffer)[2] = 1 THEN Head(buffer)[1] ELSE "BadSize"

Handles(c, message) ==
    \/ message \in {"Pong", "PlayerIdentity"}
    \/ message = "WorldStateSnapshot" /\ c.playerIdentity

DispatchMessage(c, message) ==
    CASE message = "Pong" -> [c EXCEPT !.latestRtt = TRUE]
      [] message = "PlayerIdentity" -> Post([c EXCEPT !.playerIdentity = TRUE], message)
      [] message = "WorldStateSnapshot" -> Post(c, message)

\* Mutant: the whole buffer goes with the message.
ProcessMessageClearing(c) ==
    LET message == DecodeHeader(c.accumulatedBuffer)
    IN  IF c.connectionState # "Connected" \/ Len(c.accumulatedBuffer) < HeaderUnits
        THEN c
        ELSE IF message = "BadSize"
        THEN CompleteDisconnection(c, c.connectionGeneration)
        ELSE IF Len(c.accumulatedBuffer) < Units(message) THEN c
        ELSE IF ~Handles(c, message)
        THEN CompleteDisconnection(c, c.connectionGeneration)
        ELSE [DispatchMessage(c, message) EXCEPT !.accumulatedBuffer = <<>>]

\* One turn of ProcessMessages, which ends the connection or takes one whole
\* message from the accumulated buffer; nothing when neither can be done.
ProcessMessage(c) ==
    LET message == DecodeHeader(c.accumulatedBuffer)
        size == Units(message)
    IN  IF c.connectionState # "Connected" \/ Len(c.accumulatedBuffer) < HeaderUnits
        THEN c
        ELSE IF message = "BadSize"
        THEN CompleteDisconnection(c, c.connectionGeneration)
        ELSE IF Len(c.accumulatedBuffer) < size THEN c
        ELSE IF ~Handles(c, message)
        THEN CompleteDisconnection(c, c.connectionGeneration)
        ELSE [DispatchMessage(c, message) EXCEPT
                 !.accumulatedBuffer = SubSeq(@, size + 1, Len(@))]

\* Mutant: one message for every read.
ProcessFirstMessage(c) == ProcessMessage(c)

\* The loop takes at most as many turns as headers fit in the buffer.
ProcessMessages(c) ==
    LET limit == Len(c.accumulatedBuffer) \div HeaderUnits
        after[turns \in 0 .. limit] ==
            IF turns = 0 THEN c ELSE ProcessMessage(after[turns - 1])
    IN  after[limit]

\* A connection that ProcessMessages ended has no current operation left, so
\* neither of the last two calls does anything.
HandleRead(c, units, error, generation) ==
    LET processed ==
            ProcessMessages([c EXCEPT !.accumulatedBuffer = @ \o units])
    IN  IF ~IsCurrentOperation(c, generation, "Connected") THEN c
        ELSE IF error THEN CompleteDisconnection(processed, generation)
        ELSE ReadNext(processed, generation)

WriteNext(c, generation) ==
    IF IsCurrentOperation(c, generation, "Connected") /\ c.sendQueue # <<>>
    THEN Register(c, "write", generation) ELSE c

\* Send, with the identity SendPlayerInput waits for.
CanSend(c, type) ==
    /\ c.connectionState = "Connected"
    /\ type = "PlayerInput" => c.playerIdentity
    /\ c.pendingSendBytes <= MaxPendingSendBytes
    /\ MessageSize[type] <= MaxPendingSendBytes - c.pendingSendBytes

\* Mutant: every message starts a write.
SendWritingAlways(c, type) ==
    WriteNext([c EXCEPT !.sendQueue = Append(@, type),
                        !.pendingSendBytes = @ + MessageSize[type]],
              c.connectionGeneration)

Send(c, type) ==
    LET queued == [c EXCEPT !.sendQueue = Append(@, type),
                            !.pendingSendBytes = @ + MessageSize[type]]
    IN  IF c.sendQueue = <<>> THEN WriteNext(queued, c.connectionGeneration) ELSE queued

\* Mutant: the count is set to zero although messages wait, as Session does.
HandleWriteForgetting(c, error, generation) ==
    LET completed == [c EXCEPT !.sendQueue = Tail(@)]
    IN  IF ~IsCurrentOperation(c, generation, "Connected") THEN c
        ELSE IF error \/ c.sendQueue = <<>> THEN CompleteDisconnection(c, generation)
        ELSE [WriteNext(completed, generation) EXCEPT !.pendingSendBytes = 0]

\* Mutant: the count is set to zero before the message is taken off it.
HandleWriteUnderflow(c, error, generation) ==
    LET size == MessageSize[Head(c.sendQueue)]
        completed == [c EXCEPT !.sendQueue = Tail(@), !.pendingSendBytes = -size]
    IN  IF ~IsCurrentOperation(c, generation, "Connected") THEN c
        ELSE IF error \/ c.sendQueue = <<>> THEN CompleteDisconnection(c, generation)
        ELSE IF completed.sendQueue # <<>> THEN WriteNext(completed, generation)
        ELSE [completed EXCEPT !.pendingSendBytes = 0]

HandleWrite(c, error, generation) ==
    LET size == MessageSize[Head(c.sendQueue)]
        completed == [c EXCEPT !.sendQueue = Tail(@), !.pendingSendBytes = @ - size]
    IN  IF ~IsCurrentOperation(c, generation, "Connected") THEN c
        ELSE IF error \/ c.sendQueue = <<>> THEN CompleteDisconnection(c, generation)
        ELSE IF c.pendingSendBytes < size THEN CompleteDisconnection(c, generation)
        ELSE IF completed.sendQueue # <<>> THEN WriteNext(completed, generation)
        ELSE IF completed.pendingSendBytes # 0
        THEN CompleteDisconnection(completed, generation)
        ELSE completed

-----------------------------------------------------------------------------

Init ==
    /\ client = NewClient
    /\ stream = <<>>
    /\ sent = <<>>

OwnerConnects ==
    /\ client.connectionState = "Disconnected"
    /\ client.connectionGeneration < MaxGenerations
    /\ client' = Connect(client)
    /\ stream' = <<>>
    /\ sent' = <<>>

OwnerDisconnects ==
    /\ client.connectionState # "Disconnected"
    /\ client.connectionGeneration < MaxGenerations
    /\ client' = Disconnect(client)
    /\ UNCHANGED <<stream, sent>>

\* A send that is refused changes nothing.
OwnerSends(type) ==
    /\ CanSend(client, type)
    /\ client' = Send(client, type)
    /\ UNCHANGED <<stream, sent>>

ServerSends(message) ==
    /\ client.connectionState = "Connected"
    /\ Len(sent) < MaxMessages
    /\ stream' = stream \o Encoded(message)
    /\ sent' = Append(sent, message)
    /\ UNCHANGED client

\* The client without the operation that completes.
Completing(type, generation) ==
    [client EXCEPT !.operations[<<type, generation>>] = @ - 1]

ResolveCompletes(generation, error) ==
    /\ client.operations[<<"resolve", generation>>] > 0
    /\ client' = HandleResolve(Completing("resolve", generation), error, generation)
    /\ UNCHANGED <<stream, sent>>

ConnectCompletes(generation, error, answer) ==
    /\ client.operations[<<"connect", generation>>] > 0
    /\ answer = "disconnect" => client.connectionGeneration < MaxGenerations
    /\ client' = HandleConnect(Completing("connect", generation), error, generation, answer)
    /\ UNCHANGED <<stream, sent>>

\* A read brings any number of the units that have arrived.
ReadCompletes(generation, count) ==
    /\ client.operations[<<"read", generation>>] > 0
    /\ generation = client.connectionGeneration
    /\ count \in 1 .. Len(stream)
    /\ stream' = SubSeq(stream, count + 1, Len(stream))
    /\ UNCHANGED sent
    /\ client' = HandleRead(Completing("read", generation), SubSeq(stream, 1, count),
                            FALSE, generation)

\* A read of an earlier generation had its bytes before the socket closed.
OldReadCompletes(generation) ==
    /\ client.operations[<<"read", generation>>] > 0
    /\ generation # client.connectionGeneration
    /\ client' = HandleRead(Completing("read", generation), Encoded("PlayerIdentity"),
                            FALSE, generation)
    /\ UNCHANGED <<stream, sent>>

\* The server closed the connection, it failed, or the read was cancelled.
ReadFails(generation) ==
    /\ client.operations[<<"read", generation>>] > 0
    /\ client' = HandleRead(Completing("read", generation), <<>>, TRUE, generation)
    /\ UNCHANGED <<stream, sent>>

WriteCompletes(generation, error) ==
    /\ client.operations[<<"write", generation>>] > 0
    /\ client' = HandleWrite(Completing("write", generation), error, generation)
    /\ UNCHANGED <<stream, sent>>

CallbackRuns ==
    /\ client.posted # <<>>
    /\ UNCHANGED <<stream, sent>>
    /\ client' = RunCallback(client)

Next ==
    \/ OwnerConnects
    \/ OwnerDisconnects
    \/ \E type \in SendableTypes : OwnerSends(type)
    \/ \E message \in Messages : ServerSends(message)
    \/ CallbackRuns
    \/ \E generation \in Generations, error \in BOOLEAN :
          \/ ResolveCompletes(generation, error)
          \/ \E answer \in {"continue", "disconnect"} :
                ConnectCompletes(generation, error, answer)
          \/ WriteCompletes(generation, error)
    \/ \E generation \in Generations :
          \/ \E count \in 1 .. Len(stream) : ReadCompletes(generation, count)
          \/ OldReadCompletes(generation)
          \/ ReadFails(generation)

Spec == Init /\ [][Next]_vars

\* Boost.Asio completes every resolve and connect, delivers what has arrived
\* to a registered read and runs what is posted.
FairSpec ==
    /\ Spec
    /\ WF_vars(\E generation \in Generations, error \in BOOLEAN :
                  \/ ResolveCompletes(generation, error)
                  \/ ConnectCompletes(generation, error, "continue"))
    /\ WF_vars(\E count \in 1 .. Len(stream) :
                  ReadCompletes(client.connectionGeneration, count))
    /\ WF_vars(CallbackRuns)

-----------------------------------------------------------------------------
(* Properties.                                                             *)

Posted == [callback : {"PlayerIdentity", "WorldStateSnapshot"}, generation : Generations]

TypeOK ==
    /\ client \in
          [connectionState : ConnectionStates, connectionGeneration : Generations,
           callbacks : SUBSET CallbackTypes,
           accumulatedBuffer : Seq(Messages \X (1 .. HeaderUnits + 1)),
           sendQueue : Seq(SendableTypes), pendingSendBytes : Nat,
           playerIdentity : BOOLEAN, latestRtt : BOOLEAN,
           operations : [OperationTypes \X Generations -> Nat],
           posted : Seq(Posted), heard : Seq(CallbackTypes)]
    /\ stream \in Seq(Messages \X (1 .. HeaderUnits + 1))
    /\ sent \in Seq(Messages)

\* Each stage of a connection has its one operation and no other, however many
\* old ones are still to complete: one resolve, then one connect, then one
\* read, and one write exactly while there is something to send.
OperationChains ==
    LET current(type) == client.operations[<<type, client.connectionGeneration>>]
        state == client.connectionState
    IN  /\ state = "Resolving" => current("resolve") = 1 /\ current("connect") = 0
        /\ state = "Connecting" => current("resolve") = 0 /\ current("connect") = 1
        /\ state \in {"Resolving", "Connecting"} =>
              current("read") = 0 /\ current("write") = 0
        /\ state = "Connected" =>
              /\ current("resolve") = 0 /\ current("connect") = 0
              /\ current("read") = 1
              /\ current("write") = IF client.sendQueue = <<>> THEN 0 ELSE 1

\* The bytes that wait to be sent, one message after the other.
WaitingBytes(queue) ==
    FlattenSeq([i \in DOMAIN queue |-> [byte \in 1 .. MessageSize[queue[i]] |-> queue[i]]])

\* The limit is on what waits: the count is the bytes of the queue, which stays
\* within the limit (Send, HandleWrite, ClearSendQueue).
SendQueueAccounted ==
    /\ client.pendingSendBytes = Len(WaitingBytes(client.sendQueue))
    /\ client.pendingSendBytes <= MaxPendingSendBytes

-----------------------------------------------------------------------------
(* The contract with the owner.                                            *)

Phase ==
    CASE client.connectionState = "Disconnected" -> "closed"
      [] client.connectionState = "Connected" -> "open"
      [] OTHER -> "pending"

Contract == INSTANCE Connection WITH phase <- Phase, heard <- client.heard

\* The client implements the contract: callbacks in the order of the stream,
\* once each, none of an earlier connection, none after the end, and every
\* attempt is settled or given up (all the handlers).
ConnectionContract == Contract!FairSpec

\* The posted callbacks that will be heard: those of this connection.
ToRun(c) ==
    FlattenSeq([i \in DOMAIN c.posted |->
        IF c.posted[i].generation = c.connectionGeneration
        THEN <<c.posted[i].callback>> ELSE <<>>])

\* The read messages are exactly the whole messages of the bytes read so far,
\* however the stream was cut, and the client knows and has passed on what they
\* say; a message that is not acceptable is never passed (ProcessMessages).
FramedExactly ==
    client.connectionState = "Connected" =>
        \E n \in 0 .. Len(sent) :
            LET whole == SubSeq(sent, 1, n)
            IN  /\ client.accumulatedBuffer \o stream =
                       Stream(SubSeq(sent, n + 1, Len(sent)))
                /\ n < Len(sent) => Len(client.accumulatedBuffer) < Units(sent[n + 1])
                /\ Contract!Refused(whole) = {}
                /\ client.heard \o ToRun(client) =
                       <<"Connected">> \o Contract!Callbacks(whole)
                /\ client.playerIdentity = Contains(whole, "PlayerIdentity")
                /\ client.latestRtt = Contains(whole, "Pong")

\* Everything acceptable the server sent is heard in the end, unless the
\* connection ends: no chunking leaves a whole message waiting for more bytes
\* (the server sends at most MaxMessages).
EverythingHeard ==
    []<>(client.connectionState = "Connected" =>
            Len(client.heard) = Len(Contract!Heardable(sent)) + 1)

=============================================================================
