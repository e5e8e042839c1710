---------------------------- MODULE SessionState ----------------------------
(***************************************************************************)
(* One server session as a value, and what each of its member functions    *)
(* makes of it (server/network/session.cpp).  Session runs one such value  *)
(* against its environment; Server keeps one for every connection.         *)
(*                                                                         *)
(* socket_ is open until Close closes it, so it is not kept apart from     *)
(* closed_.  An asynchronous operation holds a reference to the session    *)
(* and, once it has been registered, completes exactly once: with a result *)
(* or, after the socket was closed, as aborted.                            *)
(***************************************************************************)
EXTENDS Integers, Sequences

CONSTANTS
    MessageSize,            \* the encoded size of each MessageType
    MaxPendingSendBytes     \* the limit on a client's waiting bytes

MessageTypes == {"Ping", "Pong", "PlayerInput", "PlayerIdentity", "WorldStateSnapshot"}
SendableTypes == {"Pong", "PlayerIdentity", "WorldStateSnapshot"}

ASSUME SessionStateAssumption ==
    /\ MessageSize \in [MessageTypes -> Nat \ {0}]
    /\ MaxPendingSendBytes \in Nat

SessionRecord ==
    [closed : BOOLEAN,                  \* closed_
     reading : Nat,                     \* async reads registered
     writing : Nat,                     \* async writes registered
     sendQueue : Seq(SendableTypes),    \* sendQueue_
     pendingSendBytes : Nat,            \* pendingSendBytes_
     callbacks : Nat]                   \* calls of onClosed_

NewSession ==
    [closed |-> FALSE, reading |-> 0, writing |-> 0, sendQueue |-> <<>>,
     pendingSendBytes |-> 0, callbacks |-> 0]

-----------------------------------------------------------------------------
ReadNext(c) == IF c.closed THEN c ELSE [c EXCEPT !.reading = @ + 1]

WriteNext(c) ==
    IF c.closed \/ c.sendQueue = <<>> THEN c ELSE [c EXCEPT !.writing = @ + 1]

\* Mutant: the callback is not guarded by closed_.
CloseAgain(c) ==
    [c EXCEPT !.closed = TRUE, !.pendingSendBytes = 0, !.callbacks = @ + 1]

\* Mutant: the queue is emptied although an aborted write may be using it.
CloseClearingQueue(c) ==
    IF c.closed THEN c
    ELSE [c EXCEPT !.closed = TRUE, !.pendingSendBytes = 0, !.callbacks = @ + 1, !.sendQueue = <<>>]

\* The queue is left alone: an aborted write may still be using its front.
Close(c) ==
    IF c.closed THEN c
    ELSE [c EXCEPT !.closed = TRUE, !.pendingSendBytes = 0, !.callbacks = @ + 1]

Start(c) == ReadNext(c)

-----------------------------------------------------------------------------
(* Sending.                                                                *)

\* Send returns true.
Accepts(c, type) ==
    /\ ~c.closed
    /\ type \in SendableTypes
    /\ c.pendingSendBytes <= MaxPendingSendBytes
    /\ MessageSize[type] <= MaxPendingSendBytes - c.pendingSendBytes

\* Mutant: every message starts a write.
SendWritingAlways(c, type) ==
    IF ~Accepts(c, type) THEN c
    ELSE WriteNext([c EXCEPT !.sendQueue = Append(@, type),
                             !.pendingSendBytes = @ + MessageSize[type]])

Send(c, type) ==
    LET queued == [c EXCEPT !.sendQueue = Append(@, type),
                            !.pendingSendBytes = @ + MessageSize[type]]
    IN  IF ~Accepts(c, type) THEN c
        ELSE IF c.sendQueue = <<>> THEN WriteNext(queued) ELSE queued

CloseEmptied(c) == Close([c EXCEPT !.sendQueue = <<>>])

\* Mutant: the count is set to zero before the message is taken off it.
HandleWriteUnderflow(c, ok) ==
    LET done == [c EXCEPT !.writing = @ - 1]
    IN  IF c.closed THEN done
        ELSE IF ~ok THEN CloseEmptied(done)
        ELSE [WriteNext([done EXCEPT !.sendQueue = Tail(@)])
                 EXCEPT !.pendingSendBytes = 0 - MessageSize[Head(c.sendQueue)]]

\* Mutant: the message that was sent stays at the front.
HandleWriteWithoutPop(c, ok) ==
    LET done == [c EXCEPT !.writing = @ - 1]
    IN  IF c.closed THEN done
        ELSE IF ~ok THEN CloseEmptied(done)
        ELSE [WriteNext(done) EXCEPT !.pendingSendBytes = 0]

\* Mutant: the next waiting message is not started.
HandleWriteWithoutNext(c, ok) ==
    LET done == [c EXCEPT !.writing = @ - 1]
    IN  IF c.closed THEN done
        ELSE IF ~ok THEN CloseEmptied(done)
        ELSE [done EXCEPT !.sendQueue = Tail(@), !.pendingSendBytes = 0]

\* The completion of a write.  A composed async_write reports no error only
\* when it has sent the whole message.  The count drops by the message sent
\* and is then set to zero, whether or not messages are still waiting.
HandleWrite(c, ok) ==
    LET done == [c EXCEPT !.writing = @ - 1]
        sent == [done EXCEPT !.sendQueue = Tail(@)]
    IN  IF c.closed THEN done
        ELSE IF ~ok \/ c.sendQueue = <<>> THEN CloseEmptied(done)
        ELSE IF c.pendingSendBytes < MessageSize[Head(c.sendQueue)] THEN CloseEmptied(done)
        ELSE [WriteNext(sent) EXCEPT !.pendingSendBytes = 0]

-----------------------------------------------------------------------------
(* Receiving.  One read brings at most one whole message here: a read that *)
(* brings several has the effect of as many reads in a row, because the    *)
(* loop of ProcessMessages goes on exactly when HandleRead would read      *)
(* again.  A fragment completes no message; an invalid one has a size out   *)
(* of range, a type a client may not send or a payload that does not       *)
(* decode.                                                                 *)

Received == {"Fragment", "Ping", "PlayerInput", "Invalid"}

\* Mutant: an incomplete message is taken for a bad one.
DispatchedWhole(c, message) ==
    \/ message = "PlayerInput"
    \/ message = "Ping" /\ Accepts(c, "Pong")

\* DispatchMessage returns true: processing, and reading, may go on.
Dispatched(c, message) ==
    \/ message \in {"Fragment", "PlayerInput"}
    \/ message = "Ping" /\ Accepts(c, "Pong")

DispatchMessage(c, message) ==
    CASE message \in {"Fragment", "PlayerInput"} -> c
      [] message = "Ping" -> Send(c, "Pong")
      [] message = "Invalid" -> Close(c)

HandleRead(c, message) ==
    LET done == [c EXCEPT !.reading = @ - 1]
    IN  IF c.closed THEN done
        ELSE IF Dispatched(done, message)
             THEN ReadNext(DispatchMessage(done, message))
             ELSE DispatchMessage(done, message)

\* Mutant: the read is registered again after an error.
RetryRead(c) == c

\* The read ended with an error: end of stream, reset, or aborted.
HandleReadError(c) == Close([c EXCEPT !.reading = @ - 1])

=============================================================================
