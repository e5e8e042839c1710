------------------------ MODULE SessionStateProofs ------------------------
(***************************************************************************)
(* What the member functions of one session keep and change, for every     *)
(* message size and limit: one lemma for each.  SessionProofs and          *)
(* ServerProofs build their invariants on them.                            *)
(***************************************************************************)
EXTENDS SessionState, SequenceTheorems, TLAPS

\* What every member function may rely on and must leave behind.
WellFormed(c) ==
    /\ c \in SessionRecord
    /\ c.reading <= 1
    /\ c.writing <= 1
    /\ c.writing = 1 => c.sendQueue # <<>>
    /\ ~c.closed /\ c.sendQueue # <<>> => c.writing = 1
    /\ c.callbacks = IF c.closed THEN 1 ELSE 0

-----------------------------------------------------------------------------

\* A session stays a session when one of its fields takes a value of its type.
LEMMA FieldUpdate ==
  ASSUME NEW r \in SessionRecord
  PROVE  /\ \A b \in BOOLEAN : [r EXCEPT !.closed = b] \in SessionRecord
         /\ \A n \in Nat : /\ [r EXCEPT !.reading = n] \in SessionRecord
                           /\ [r EXCEPT !.writing = n] \in SessionRecord
                           /\ [r EXCEPT !.pendingSendBytes = n] \in SessionRecord
                           /\ [r EXCEPT !.callbacks = n] \in SessionRecord
         /\ \A q \in Seq(SendableTypes) : [r EXCEPT !.sendQueue = q] \in SessionRecord
BY DEF SessionRecord

\* Close keeps a session well-formed and leaves its operations and its queue.
LEMMA CloseEffect ==
  ASSUME NEW c, WellFormed(c)
  PROVE  /\ WellFormed(Close(c))
         /\ Close(c).closed
         /\ Close(c).sendQueue = c.sendQueue
         /\ Close(c).reading = c.reading
         /\ Close(c).writing = c.writing
<1>1. CASE c.closed
  BY <1>1 DEF Close
<1>2. CASE ~c.closed
  <2>1. c \in SessionRecord /\ c.callbacks + 1 \in Nat
    BY DEF WellFormed, SessionRecord
  <2>2. Close(c) \in SessionRecord
    BY <1>2, <2>1, FieldUpdate DEF Close
  <2>3. /\ Close(c).closed = TRUE
        /\ Close(c).sendQueue = c.sendQueue
        /\ Close(c).reading = c.reading
        /\ Close(c).writing = c.writing
        /\ Close(c).callbacks = c.callbacks + 1
    BY <1>2, <2>1 DEF Close, SessionRecord
  <2> QED
    BY <1>2, <2>2, <2>3 DEF WellFormed
<1> QED
  BY <1>1, <1>2

\* ReadNext registers one read, unless the session is closed.
LEMMA ReadNextEffect ==
  ASSUME NEW c, WellFormed(c), c.reading = 0
  PROVE  /\ WellFormed(ReadNext(c))
         /\ ReadNext(c).closed = c.closed
         /\ ReadNext(c).sendQueue = c.sendQueue
         /\ ReadNext(c).writing = c.writing
         /\ ~c.closed => ReadNext(c).reading = 1
BY DEF WellFormed, ReadNext, SessionRecord

\* Send appends an accepted message and starts the write of a first one; it
\* leaves the front of the queue and the reads alone.
LEMMA SendEffect ==
  ASSUME NEW c, WellFormed(c), NEW type \in SendableTypes
  PROVE  /\ WellFormed(Send(c, type))
         /\ Send(c, type).closed = c.closed
         /\ Send(c, type).reading = c.reading
         /\ Send(c, type).sendQueue =
              IF Accepts(c, type) THEN Append(c.sendQueue, type) ELSE c.sendQueue
<1>1. type \in MessageTypes /\ MessageSize[type] \in Nat
  BY SessionStateAssumption DEF SendableTypes, MessageTypes
<1> DEFINE queued == [c EXCEPT !.sendQueue = Append(@, type),
                               !.pendingSendBytes = @ + MessageSize[type]]
<1>2. /\ c.sendQueue \in Seq(SendableTypes)
      /\ Append(c.sendQueue, type) \in Seq(SendableTypes)
      /\ Append(c.sendQueue, type) # <<>>
  BY AppendProperties DEF WellFormed, SessionRecord
<1>3. /\ queued \in SessionRecord
      /\ queued.sendQueue = Append(c.sendQueue, type)
      /\ queued.closed = c.closed /\ queued.reading = c.reading
      /\ queued.writing = c.writing /\ queued.callbacks = c.callbacks
  <2>1. c \in SessionRecord /\ c.pendingSendBytes + MessageSize[type] \in Nat
    BY <1>1 DEF WellFormed, SessionRecord
  <2>2. queued \in SessionRecord
    BY <1>2, <2>1, FieldUpdate
  <2> QED
    BY <2>1, <2>2 DEF SessionRecord
<1>4. CASE ~Accepts(c, type)
  BY <1>4 DEF Send
<1>5. CASE Accepts(c, type) /\ c.sendQueue = <<>>
  <2>1. Send(c, type) = [queued EXCEPT !.writing = @ + 1]
    BY <1>2, <1>3, <1>5 DEF Send, WriteNext, Accepts
  <2>2. c.writing = 0
    BY <1>5 DEF WellFormed, SessionRecord
  <2>3. /\ [queued EXCEPT !.writing = @ + 1] \in SessionRecord
        /\ [queued EXCEPT !.writing = @ + 1].writing = 1
        /\ [queued EXCEPT !.writing = @ + 1].sendQueue = queued.sendQueue
        /\ [queued EXCEPT !.writing = @ + 1].closed = queued.closed
        /\ [queued EXCEPT !.writing = @ + 1].reading = queued.reading
        /\ [queued EXCEPT !.writing = @ + 1].callbacks = queued.callbacks
    <3> HIDE DEF queued
    <3> QED
      BY <1>3, <2>2, FieldUpdate DEF SessionRecord
  <2> QED
    BY <1>2, <1>3, <1>5, <2>1, <2>3 DEF WellFormed
<1>6. CASE Accepts(c, type) /\ c.sendQueue # <<>>
  <2>1. Send(c, type) = queued
    BY <1>6 DEF Send
  <2> QED
    BY <1>2, <1>3, <1>6, <2>1 DEF WellFormed, Accepts
<1> QED
  BY <1>4, <1>5, <1>6

\* The completion of a read keeps a session well-formed, all it can do to the
\* queue is to append an accepted pong, and it registers the next read unless the
\* session closes or the pong was not accepted.
LEMMA HandleReadEffect ==
  ASSUME NEW c, WellFormed(c), c.reading = 1, NEW message \in Received
  PROVE  /\ WellFormed(HandleRead(c, message))
         /\ c.closed => HandleRead(c, message).closed
         /\ HandleRead(c, message).sendQueue =
              IF message = "Ping" /\ Accepts(c, "Pong")
              THEN Append(c.sendQueue, "Pong") ELSE c.sendQueue
         /\ \/ HandleRead(c, message).closed
            \/ HandleRead(c, message).reading = 1
            \/ ~Accepts(c, "Pong")
<1> DEFINE done == [c EXCEPT !.reading = @ - 1]
<1>1. /\ WellFormed(done) /\ done.reading = 0
      /\ done.closed = c.closed /\ done.sendQueue = c.sendQueue
      /\ Accepts(done, "Pong") <=> Accepts(c, "Pong")
  <2>1. c \in SessionRecord /\ c.reading - 1 \in Nat
    BY DEF WellFormed, SessionRecord
  <2>2. done \in SessionRecord
    BY <2>1, FieldUpdate
  <2>3. /\ done.reading = 0 /\ done.writing = c.writing
        /\ done.closed = c.closed /\ done.sendQueue = c.sendQueue
        /\ done.callbacks = c.callbacks /\ done.pendingSendBytes = c.pendingSendBytes
    BY <2>1 DEF SessionRecord
  <2> HIDE DEF done
  <2> QED
    BY <2>2, <2>3 DEF WellFormed, Accepts
<1>2. HandleRead(c, message) =
        IF c.closed THEN done
        ELSE IF Dispatched(done, message)
             THEN ReadNext(DispatchMessage(done, message))
             ELSE DispatchMessage(done, message)
  BY DEF HandleRead
<1> HIDE DEF done
<1>3. CASE c.closed
  BY <1>1, <1>2, <1>3 DEF Accepts
<1>4. CASE ~c.closed /\ message = "Ping"
  <2>1. /\ DispatchMessage(done, message) = Send(done, "Pong")
        /\ Dispatched(done, message) <=> Accepts(done, "Pong")
    BY <1>4 DEF DispatchMessage, Dispatched
  <2>2. "Pong" \in SendableTypes
    BY DEF SendableTypes
  <2>3. /\ WellFormed(Send(done, "Pong"))
        /\ Send(done, "Pong").reading = 0
        /\ Send(done, "Pong").closed = c.closed
        /\ Send(done, "Pong").sendQueue =
             IF Accepts(c, "Pong") THEN Append(c.sendQueue, "Pong") ELSE c.sendQueue
    BY <1>1, <2>2, SendEffect
  <2> QED
    BY <1>1, <1>2, <1>4, <2>1, <2>3, ReadNextEffect
<1>5. CASE ~c.closed /\ message \in {"Fragment", "PlayerInput"}
  <2>1. DispatchMessage(done, message) = done /\ Dispatched(done, message)
    BY <1>5 DEF DispatchMessage, Dispatched
  <2> QED
    BY <1>1, <1>2, <1>5, <2>1, ReadNextEffect
<1>6. CASE ~c.closed /\ message = "Invalid"
  <2>1. DispatchMessage(done, message) = Close(done) /\ ~Dispatched(done, message)
    BY <1>6 DEF DispatchMessage, Dispatched
  <2> QED
    BY <1>1, <1>2, <1>6, <2>1, CloseEffect
<1> QED
  BY <1>3, <1>4, <1>5, <1>6 DEF Received

\* A read that ends with an error closes the session and nothing else.
LEMMA HandleReadErrorEffect ==
  ASSUME NEW c, WellFormed(c), c.reading = 1
  PROVE  /\ WellFormed(HandleReadError(c))
         /\ HandleReadError(c).closed
         /\ HandleReadError(c).sendQueue = c.sendQueue
<1> DEFINE done == [c EXCEPT !.reading = @ - 1]
<1>1. WellFormed(done) /\ done.sendQueue = c.sendQueue
  <2>1. c \in SessionRecord /\ c.reading - 1 \in Nat
    BY DEF WellFormed, SessionRecord
  <2>2. done \in SessionRecord
    BY <2>1, FieldUpdate
  <2>3. /\ done.reading = 0 /\ done.writing = c.writing
        /\ done.closed = c.closed /\ done.sendQueue = c.sendQueue
        /\ done.callbacks = c.callbacks
    BY <2>1 DEF SessionRecord
  <2> HIDE DEF done
  <2> QED
    BY <2>2, <2>3 DEF WellFormed
<1>2. HandleReadError(c) = Close(done)
  BY DEF HandleReadError
<1> HIDE DEF done
<1> QED
  BY <1>1, <1>2, CloseEffect

\* The completion of a write keeps a session well-formed: it removes the front
\* of the queue and starts the next write, or it closes the session; a session
\* that was closed already keeps its queue.
LEMMA HandleWriteEffect ==
  ASSUME NEW c, WellFormed(c), c.writing = 1, NEW ok \in BOOLEAN
  PROVE  /\ WellFormed(HandleWrite(c, ok))
         /\ HandleWrite(c, ok).reading = c.reading
         /\ c.closed => HandleWrite(c, ok).closed /\ HandleWrite(c, ok).writing = 0
         /\ ~ok => HandleWrite(c, ok).closed /\ HandleWrite(c, ok).writing = 0
         /\ ~HandleWrite(c, ok).closed => HandleWrite(c, ok).sendQueue = Tail(c.sendQueue)
<1> DEFINE done == [c EXCEPT !.writing = @ - 1]
           emptied == [done EXCEPT !.sendQueue = <<>>]
           sent == [done EXCEPT !.sendQueue = Tail(@)]
<1>1. /\ done \in SessionRecord
      /\ done.writing = 0 /\ done.reading = c.reading
      /\ done.closed = c.closed /\ done.sendQueue = c.sendQueue
      /\ done.callbacks = c.callbacks
  <2>1. c \in SessionRecord /\ c.writing - 1 \in Nat
    BY DEF WellFormed, SessionRecord
  <2>2. done \in SessionRecord
    BY <2>1, FieldUpdate
  <2> QED
    BY <2>1, <2>2 DEF SessionRecord
<1>2. /\ c.sendQueue \in Seq(SendableTypes) /\ c.sendQueue # <<>>
      /\ Tail(c.sendQueue) \in Seq(SendableTypes) /\ <<>> \in Seq(SendableTypes)
  BY HeadTailProperties DEF WellFormed, SessionRecord
<1>3. HandleWrite(c, ok) =
        IF c.closed THEN done
        ELSE IF ~ok \/ c.sendQueue = <<>> THEN Close(emptied)
        ELSE IF c.pendingSendBytes < MessageSize[Head(c.sendQueue)] THEN Close(emptied)
        ELSE [WriteNext(sent) EXCEPT !.pendingSendBytes = 0]
  BY DEF HandleWrite, CloseEmptied
<1>4. CASE c.closed
  <2>1. HandleWrite(c, ok) = done
    BY <1>3, <1>4
  <2> HIDE DEF done
  <2>2. WellFormed(done)
    BY <1>1, <1>4 DEF WellFormed
  <2> QED
    BY <1>1, <1>4, <2>1, <2>2
<1>5. /\ emptied \in SessionRecord /\ emptied.sendQueue = <<>>
      /\ emptied.writing = 0 /\ emptied.reading = c.reading
      /\ emptied.closed = c.closed /\ emptied.callbacks = c.callbacks
  <2> HIDE DEF done
  <2> QED
    BY <1>1, <1>2, FieldUpdate DEF SessionRecord
<1>6. CASE HandleWrite(c, ok) = Close(emptied)
  <2> HIDE DEF emptied
  <2>1. WellFormed(emptied)
    BY <1>5 DEF WellFormed
  <2> QED
    BY <1>5, <1>6, <2>1, CloseEffect
<1>7. CASE ~c.closed /\ ok /\ HandleWrite(c, ok) = [WriteNext(sent) EXCEPT !.pendingSendBytes = 0]
  <2>1. /\ sent \in SessionRecord /\ sent.sendQueue = Tail(c.sendQueue)
        /\ sent.writing = 0 /\ sent.reading = c.reading
        /\ sent.closed = c.closed /\ sent.callbacks = c.callbacks
    <3> HIDE DEF done
    <3> QED
      BY <1>1, <1>2, FieldUpdate DEF SessionRecord
  <2> HIDE DEF sent
  <2>2. WriteNext(sent) = IF sent.sendQueue = <<>> THEN sent ELSE [sent EXCEPT !.writing = @ + 1]
    BY <1>7, <2>1 DEF WriteNext
  <2>3. /\ WriteNext(sent) \in SessionRecord
        /\ WriteNext(sent).sendQueue = sent.sendQueue
        /\ WriteNext(sent).writing = IF sent.sendQueue = <<>> THEN 0 ELSE 1
        /\ WriteNext(sent).reading = sent.reading
        /\ WriteNext(sent).closed = sent.closed /\ WriteNext(sent).callbacks = sent.callbacks
    <3>1. CASE sent.sendQueue = <<>>
      BY <2>1, <2>2, <3>1
    <3>2. CASE sent.sendQueue # <<>>
      <4>1. WriteNext(sent) = [sent EXCEPT !.writing = 1]
        BY <2>1, <2>2, <3>2
      <4> QED
        BY <2>1, <3>2, <4>1, FieldUpdate DEF SessionRecord
    <3> QED
      BY <3>1, <3>2
  <2> DEFINE next == WriteNext(sent)
  <2> HIDE DEF next
  <2>4. /\ [next EXCEPT !.pendingSendBytes = 0] \in SessionRecord
        /\ [next EXCEPT !.pendingSendBytes = 0].sendQueue = next.sendQueue
        /\ [next EXCEPT !.pendingSendBytes = 0].writing = next.writing
        /\ [next EXCEPT !.pendingSendBytes = 0].reading = next.reading
        /\ [next EXCEPT !.pendingSendBytes = 0].closed = next.closed
        /\ [next EXCEPT !.pendingSendBytes = 0].callbacks = next.callbacks
    BY <2>3, FieldUpdate DEF next, SessionRecord
  <2>5. HandleWrite(c, ok) = [next EXCEPT !.pendingSendBytes = 0]
    BY <1>7 DEF next
  <2>6. /\ HandleWrite(c, ok) \in SessionRecord
        /\ HandleWrite(c, ok).sendQueue = Tail(c.sendQueue)
        /\ HandleWrite(c, ok).writing = IF Tail(c.sendQueue) = <<>> THEN 0 ELSE 1
        /\ HandleWrite(c, ok).reading = c.reading
        /\ HandleWrite(c, ok).closed = FALSE
        /\ HandleWrite(c, ok).callbacks = c.callbacks
    <3>1. c.closed = FALSE
      BY <1>7 DEF WellFormed, SessionRecord
    <3> QED
      BY <2>1, <2>3, <2>4, <2>5, <3>1 DEF next
  <2>7. c.reading <= 1 /\ c.callbacks = 0
    BY <1>7 DEF WellFormed
  <2>8. WellFormed(HandleWrite(c, ok))
    BY <2>6, <2>7 DEF WellFormed
  <2> QED
    BY <1>7, <2>6, <2>8
<1> HIDE DEF done, emptied, sent
<1> QED
  BY <1>2, <1>3, <1>4, <1>6, <1>7

=============================================================================
