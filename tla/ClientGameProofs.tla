-------------------------- MODULE ClientGameProofs --------------------------
(***************************************************************************)
(* What holds of the client's game for every delay, history size, send     *)
(* limit, number of opponents and length of the run, however late or many  *)
(* at once snapshots are taken.                                            *)
(* First what the functions of the client's state do, then that polling    *)
(* any number of messages at once is no more than taking them one by one,  *)
(* then the inductive invariant ClientGameInv, and last PictureInv, from   *)
(* which the picture never goes back.                                      *)
(***************************************************************************)
EXTENDS ClientGame, SequenceTheorems, WellFoundedInduction, TLAPS

-----------------------------------------------------------------------------
(* Natural numbers.                                                        *)

\* A set of natural numbers that is not empty has a least element: what fails
\* somewhere fails first at one place.
LEMMA LeastElement ==
  ASSUME NEW S \in SUBSET Nat, S # {}
  PROVE  \E m \in S : \A n \in S : m <= n
<1>1. PICK m \in S : \A n \in S : ~(<<n, m>> \in OpToRel(<, Nat))
  BY NatLessThanWellFounded, WFMin, Zenon
<1>2. \A n \in S : m <= n
  <2> TAKE n \in S
  <2>1. ~(n < m)
    BY <1>1 DEF OpToRel
  <2> QED
    BY <2>1
<1> QED
  BY <1>2

\* A product is at most the product of the bounds.
LEMMA ProductBound ==
  ASSUME NEW a \in Nat, NEW b \in Nat, NEW x \in Nat, NEW y \in Nat, a <= b, x <= y
  PROVE  a * x \in Nat /\ a * x <= b * y
<1>1. a * x <= b * x
  <2>1. PICK d \in Nat : b = a + d
    <3>1. b - a \in Nat /\ b = a + (b - a)
      OBVIOUS
    <3> QED
      BY <3>1
  <2>2. b * x = a * x + d * x /\ d * x \in Nat /\ a * x \in Nat
    BY <2>1
  <2> QED
    BY <2>2
<1>2. b * x <= b * y
  <2>1. PICK d \in Nat : y = x + d
    <3>1. y - x \in Nat /\ y = x + (y - x)
      OBVIOUS
    <3> QED
      BY <3>1
  <2>2. b * y = b * x + b * d /\ b * d \in Nat /\ b * x \in Nat
    BY <2>1
  <2> QED
    BY <2>2
<1>3. a * x \in Nat /\ b * x \in Nat /\ b * y \in Nat
  OBVIOUS
<1> QED
  BY <1>1, <1>2, <1>3

-----------------------------------------------------------------------------
(* The client's state.                                                     *)

\* The snapshot that is selected is one of those that can be, and the first.
LEMMA MinIsLeast ==
  ASSUME NEW S \in SUBSET Nat, S # {}
  PROVE  Min(S) \in S /\ \A n \in S : Min(S) <= n
BY LeastElement DEF Min

ClientState ==
    [playerIdentity : BOOLEAN,
     worldState : WorldStateSnapshot \cup {NoWorldState},
     history : Seq(Received),
     picture : [Players -> Moment], smoothed : [Players -> Moment],
     currentPlayerInput : Inputs, lastSentPlayerInput : Inputs]

MomentInRange(moment) == moment.part < moment.of * (MaxTime + 1)
InRange(picture) == \A p \in Players : MomentInRange(picture[p])

\* HistoryFollowsState of one state of the client, and nothing of the history
\* was received in the future.
Orderly(c) ==
    /\ Len(c.history) <= HistorySize
    /\ \A i \in 2 .. Len(c.history) :
          /\ c.history[i - 1].serverTick < c.history[i].serverTick
          /\ c.history[i - 1].receivedAt <= c.history[i].receivedAt
    /\ \A i \in 1 .. Len(c.history) : c.history[i].receivedAt <= now
    /\ IF c.worldState = NoWorldState THEN c.history = <<>>
       ELSE /\ c.playerIdentity
            /\ c.history # <<>>
            /\ c.history[Len(c.history)].serverTick = c.worldState.serverTick

\* A state the client may be in.
Sound(c) == c \in ClientState /\ InRange(c.picture) /\ Orderly(c)

\* The start of a tick is a moment.
LEMMA AtTickSound ==
  ASSUME NEW tick \in 0 .. MaxTime
  PROVE  AtTick(tick) \in Moment /\ MomentInRange(AtTick(tick))
BY ClientGameAssumption DEF AtTick, Moment, MomentInRange

\* No picture is one, too.
LEMMA NowhereSound == Nowhere \in [Players -> Moment] /\ InRange(Nowhere)
<1>1. NoMoment \in Moment /\ MomentInRange(NoMoment)
  BY AtTickSound, ClientGameAssumption DEF NoMoment
<1> QED
  BY <1>1 DEF Nowhere, InRange

\* Players are put where they were at a moment.
LEMMA PutSound ==
  ASSUME NEW picture \in [Players -> Moment], NEW S, NEW moment \in Moment
  PROVE  /\ Put(picture, S, moment) \in [Players -> Moment]
         /\ InRange(picture) /\ MomentInRange(moment) => InRange(Put(picture, S, moment))
BY DEF Put, InRange

\* Forgetting everything is sound.
LEMMA ResetSound ==
  ASSUME NEW c, Sound(c)
  PROVE  /\ Sound(Reset(c)) /\ Reset(c).worldState = NoWorldState
         /\ Reset(c).lastSentPlayerInput = c.lastSentPlayerInput
<1>1. /\ Reset(c) \in ClientState /\ Reset(c).picture = c.picture
      /\ Reset(c).worldState = NoWorldState /\ Reset(c).history = <<>>
      /\ Reset(c).lastSentPlayerInput = c.lastSentPlayerInput
  <2>1. c \in ClientState /\ <<>> \in Seq(Received)
    BY DEF Sound
  <2> QED
    BY <2>1, NowhereSound DEF ClientState, Reset
<1>2. Orderly(Reset(c))
  BY <1>1, ClientGameAssumption DEF Orderly
<1> QED
  BY <1>1, <1>2 DEF Sound

\* An identity starts over, with no input sent.
LEMMA IdentitySound ==
  ASSUME NEW c, Sound(c)
  PROVE  /\ Sound(HandlePlayerIdentity(c))
         /\ HandlePlayerIdentity(c).playerIdentity
         /\ HandlePlayerIdentity(c).lastSentPlayerInput = "Neutral"
<1> DEFINE r == Reset(c)
           h == [r EXCEPT !.playerIdentity = TRUE, !.lastSentPlayerInput = "Neutral"]
<1>1. /\ r \in ClientState /\ InRange(r.picture) /\ Orderly(r) /\ r.worldState = NoWorldState
  BY ResetSound DEF Sound
<1>2. h = HandlePlayerIdentity(c)
  BY DEF HandlePlayerIdentity
<1> HIDE DEF r
<1>3. /\ h \in ClientState /\ h.picture = r.picture /\ h.worldState = NoWorldState
      /\ h.history = r.history /\ h.playerIdentity = TRUE
      /\ h.lastSentPlayerInput = "Neutral"
  BY <1>1 DEF ClientState, Inputs
<1> HIDE DEF h
<1>4. Orderly(h)
  BY <1>1, <1>3 DEF Orderly
<1> QED
  BY <1>1, <1>2, <1>3, <1>4 DEF Sound

\* A newer snapshot ends the history, also a full one.
LEMMA HistoryGrows ==
  ASSUME NEW c, Sound(c), NEW tick \in 1 .. MaxTime, NEW players \in SUBSET Players,
         now \in 0 .. MaxTime,
         c.worldState # NoWorldState => tick > c.worldState.serverTick
  PROVE  LET h == Trimmed(Append(c.history, [serverTick |-> tick, players |-> players,
                                             receivedAt |-> now]))
         IN  /\ h \in Seq(Received) /\ h # <<>> /\ Len(h) <= HistorySize
             /\ \A i \in 2 .. Len(h) :
                   /\ h[i - 1].serverTick < h[i].serverTick
                   /\ h[i - 1].receivedAt <= h[i].receivedAt
             /\ \A i \in 1 .. Len(h) : h[i].receivedAt <= now
             /\ h[Len(h)].serverTick = tick
<1> DEFINE old == c.history
           e == [serverTick |-> tick, players |-> players, receivedAt |-> now]
           g == Append(old, e)
           h == Trimmed(g)
<1>1. /\ old \in Seq(Received) /\ e \in Received
      /\ Len(old) <= HistorySize
      /\ \A i \in 2 .. Len(old) :
            /\ old[i - 1].serverTick < old[i].serverTick
            /\ old[i - 1].receivedAt <= old[i].receivedAt
      /\ \A i \in 1 .. Len(old) : old[i].receivedAt <= now
      /\ old # <<>> => old[Len(old)].serverTick < tick
  BY DEF Sound, ClientState, Orderly, Received
<1>2. e.serverTick = tick /\ e.receivedAt = now
  OBVIOUS
<1> HIDE DEF old, e
<1>3. /\ g \in Seq(Received) /\ Len(g) = Len(old) + 1 /\ Len(old) \in Nat
      /\ \A i \in 1 .. Len(old) : g[i] = old[i]
      /\ g[Len(old) + 1] = e
  BY <1>1, AppendProperties
<1>4. \A i \in 1 .. Len(g) : g[i].receivedAt <= now
  <2> TAKE i \in 1 .. Len(g)
  <2>1. CASE i \in 1 .. Len(old)
    BY <1>1, <1>3, <2>1
  <2>2. CASE i = Len(old) + 1
    BY <1>2, <1>3, <2>2
  <2> QED
    BY <1>3, <2>1, <2>2
<1>5. \A i \in 2 .. Len(g) :
         /\ g[i - 1].serverTick < g[i].serverTick
         /\ g[i - 1].receivedAt <= g[i].receivedAt
  <2> TAKE i \in 2 .. Len(g)
  <2>1. CASE i \in 2 .. Len(old)
    BY <1>1, <1>3, <2>1
  <2>2. CASE i = Len(old) + 1
    <3>1. old # <<>> /\ i - 1 = Len(old) /\ i - 1 \in 1 .. Len(old)
      BY <1>1, <1>3, <2>2
    <3>2. g[i] = e /\ g[i - 1] = old[Len(old)]
      BY <1>3, <2>2, <3>1
    <3> QED
      BY <1>1, <1>2, <3>1, <3>2
  <2> QED
    BY <1>3, <2>1, <2>2
<1>6. HistorySize \in Nat /\ HistorySize >= 1
  BY ClientGameAssumption
<1> HIDE DEF g
<1>7. CASE Len(g) <= HistorySize
  <2>1. h = g
    BY <1>1, <1>3, <1>6, <1>7 DEF Trimmed
  <2>2. /\ h \in Seq(Received) /\ Len(h) <= HistorySize /\ Len(h) = Len(old) + 1
        /\ h[Len(old) + 1] = e
    BY <1>3, <1>7, <2>1
  <2>3. h[Len(h)].serverTick = tick /\ h # <<>>
    BY <1>2, <1>3, <2>2
  <2> QED
    BY <1>4, <1>5, <2>1, <2>2, <2>3 DEF e, g, old
<1>8. CASE ~(Len(g) <= HistorySize)
  <2>1. h = Tail(g) /\ Len(g) > HistorySize /\ Len(g) <= HistorySize + 1
    BY <1>1, <1>3, <1>6, <1>8 DEF Trimmed
  <2>2. g # <<>>
    BY <1>3
  <2>3. /\ h \in Seq(Received) /\ Len(h) = Len(g) - 1
        /\ \A i \in 1 .. Len(h) : h[i] = g[i + 1]
    BY <1>3, <2>1, <2>2, HeadTailProperties
  <2>4. Len(h) >= 1 /\ Len(h) <= HistorySize /\ Len(h) \in Nat /\ h # <<>>
    BY <1>3, <1>6, <2>1, <2>3
  <2> HIDE DEF h
  <2>5. \A i \in 1 .. Len(h) : h[i].receivedAt <= now
    <3> TAKE i \in 1 .. Len(h)
    <3>1. i + 1 \in 1 .. Len(g)
      BY <1>3, <2>3
    <3> QED
      BY <1>4, <2>3, <3>1
  <2>6. \A i \in 2 .. Len(h) :
           /\ h[i - 1].serverTick < h[i].serverTick
           /\ h[i - 1].receivedAt <= h[i].receivedAt
    <3> TAKE i \in 2 .. Len(h)
    <3>1. i + 1 \in 2 .. Len(g) /\ i \in 1 .. Len(h) /\ i - 1 \in 1 .. Len(h)
      BY <1>3, <2>3, <2>4
    <3>2. h[i] = g[i + 1] /\ h[i - 1] = g[(i + 1) - 1]
      BY <2>3, <3>1
    <3> QED
      BY <1>5, <3>1, <3>2
  <2>7. h[Len(h)].serverTick = tick
    <3>1. Len(h) \in 1 .. Len(h) /\ Len(h) + 1 = Len(old) + 1
      BY <1>3, <2>3, <2>4
    <3>2. h[Len(h)] = e
      BY <1>3, <2>3, <3>1
    <3> QED
      BY <1>2, <3>2
  <2> QED
    BY <2>3, <2>4, <2>5, <2>6, <2>7 DEF e, g, h, old
<1> QED
  BY <1>7, <1>8

\* A snapshot leaves the client sound and its input as it was.
LEMMA SnapshotSound ==
  ASSUME NEW c, Sound(c), NEW snapshot \in WorldStateSnapshot, now \in 0 .. MaxTime
  PROVE  LET n == HandleWorldStateSnapshot(c, snapshot)
         IN  /\ Sound(n) /\ n.lastSentPlayerInput = c.lastSentPlayerInput
             /\ n.playerIdentity = c.playerIdentity
<1> DEFINE tick == snapshot.serverTick
           h == Trimmed(Append(c.history, [serverTick |-> tick, players |-> snapshot.players,
                                           receivedAt |-> now]))
           start == Put(Nowhere, snapshot.players, AtTick(tick))
           n == [c EXCEPT !.worldState = snapshot, !.history = h, !.picture = start]
<1>1. CASE ~IsNewer(c, snapshot)
  BY <1>1 DEF HandleWorldStateSnapshot
<1>2. CASE IsNewer(c, snapshot)
  <2>1. /\ tick \in 1 .. MaxTime /\ snapshot.players \in SUBSET Players
        /\ tick > c.worldState.serverTick /\ c.playerIdentity
    BY <1>2 DEF IsNewer, WorldStateSnapshot
  <2>2. /\ h \in Seq(Received) /\ h # <<>> /\ Len(h) <= HistorySize
        /\ \A i \in 2 .. Len(h) :
              /\ h[i - 1].serverTick < h[i].serverTick
              /\ h[i - 1].receivedAt <= h[i].receivedAt
        /\ \A i \in 1 .. Len(h) : h[i].receivedAt <= now
        /\ h[Len(h)].serverTick = tick
    BY <2>1, HistoryGrows
  <2>3. start \in [Players -> Moment] /\ InRange(start)
    BY <2>1, AtTickSound, NowhereSound, PutSound, ClientGameAssumption
  <2>4. snapshot # NoWorldState
    BY <2>1 DEF NoWorldState
  <2>5. c \in ClientState
    BY DEF Sound
  <2>6. HandleWorldStateSnapshot(c, snapshot) = n
    BY <1>2 DEF HandleWorldStateSnapshot
  <2> HIDE DEF h, start, tick
  <2>7. /\ n \in ClientState /\ n.worldState = snapshot /\ n.history = h
        /\ n.picture = start /\ n.playerIdentity = c.playerIdentity
        /\ n.lastSentPlayerInput = c.lastSentPlayerInput
    BY <2>2, <2>3, <2>5 DEF ClientState
  <2> HIDE DEF n
  <2>8. Orderly(n)
    BY <2>1, <2>2, <2>4, <2>7 DEF Orderly, tick
  <2> QED
    BY <2>3, <2>6, <2>7, <2>8 DEF Sound
<1> QED
  BY <1>1, <1>2

-----------------------------------------------------------------------------
(* Polling.                                                                *)

Message == WorldStateSnapshot \cup {PlayerIdentity}

\* f[n] is the client after the first n of the messages.
Polling(f, c, messages, count) ==
    f = [n \in 0 .. count |-> IF n = 0 THEN c ELSE Take(f[n - 1], messages[n])]

\* Messages are taken one by one.
LEMMA PollingExists ==
  ASSUME NEW c, NEW messages
  PROVE  \A count \in Nat : \E f : Polling(f, c, messages, count)
<1> DEFINE open == {count \in Nat : ~\E f : Polling(f, c, messages, count)}
<1>1. SUFFICES ASSUME open # {} PROVE FALSE
  OBVIOUS
<1>2. PICK least \in open : \A count \in open : least <= count
  BY <1>1, LeastElement
<1>3. CASE least = 0
  <2> DEFINE f == [n \in 0 .. 0 |-> c]
  <2>1. Polling(f, c, messages, 0)
    BY DEF Polling
  <2> QED
    BY <1>2, <1>3, <2>1
<1>4. CASE least # 0
  <2>1. least - 1 \in Nat /\ least - 1 \notin open
    BY <1>2, <1>4
  <2>2. PICK f : Polling(f, c, messages, least - 1)
    BY <2>1
  <2> DEFINE g == [n \in 0 .. least |-> IF n = least THEN Take(f[least - 1], messages[least]) ELSE f[n]]
  <2>3. \A n \in 0 .. least - 1 : f[n] = IF n = 0 THEN c ELSE Take(f[n - 1], messages[n])
    BY <2>1, <2>2 DEF Polling
  <2>4. \A n \in 0 .. least : g[n] = IF n = 0 THEN c ELSE Take(g[n - 1], messages[n])
    <3> TAKE n \in 0 .. least
    <3>1. CASE n = least
      <4>1. n - 1 \in 0 .. least /\ n - 1 # least /\ n # 0
        BY <1>4, <2>1, <3>1
      <4> QED
        BY <3>1, <4>1
    <3>2. CASE n # least /\ n # 0
      <4>1. n - 1 \in 0 .. least /\ n - 1 # least /\ n \in 0 .. least - 1
        BY <2>1, <3>2
      <4> QED
        BY <2>3, <3>2, <4>1
    <3>3. CASE n # least /\ n = 0
      <4>1. 0 \in 0 .. least - 1
        BY <2>1
      <4> QED
        BY <2>3, <3>3, <4>1
    <3> QED
      BY <3>1, <3>2, <3>3
  <2>5. g = [n \in 0 .. least |-> g[n]]
    OBVIOUS
  <2> HIDE DEF g
  <2>6. Polling(g, c, messages, least)
    BY <2>4, <2>5 DEF Polling
  <2> QED
    BY <1>2, <2>6
<1> QED
  BY <1>3, <1>4

\* Polled is the last of the states that taking one by one goes through.
LEMMA PolledSteps ==
  ASSUME NEW c, NEW messages, Len(messages) \in Nat
  PROVE  \E f : /\ Polled(c, messages) = f[Len(messages)]
                /\ f[0] = c
                /\ \A n \in 1 .. Len(messages) : f[n] = Take(f[n - 1], messages[n])
<1> DEFINE after == CHOOSE f : f = [n \in 0 .. Len(messages) |->
                        IF n = 0 THEN c ELSE Take(f[n - 1], messages[n])]
<1>1. Polled(c, messages) = after[Len(messages)]
  BY DEF Polled
<1>2. \E f : f = [n \in 0 .. Len(messages) |->
                        IF n = 0 THEN c ELSE Take(f[n - 1], messages[n])]
  <2>1. \E f : Polling(f, c, messages, Len(messages))
    BY PollingExists
  <2> QED
    BY <2>1, Zenon DEF Polling
<1>3. after = [n \in 0 .. Len(messages) |->
                  IF n = 0 THEN c ELSE Take(after[n - 1], messages[n])]
  BY <1>2, Zenon
<1> HIDE DEF after
<1>4. /\ after[0] = c
      /\ \A n \in 1 .. Len(messages) : after[n] = Take(after[n - 1], messages[n])
  BY <1>3
<1> QED
  BY <1>1, <1>4

\* Polling leaves the client sound and the input it sent last as it was: an
\* identity resets the input only of a client that has none, and sent none.
LEMMA PolledSound ==
  ASSUME NEW c, Sound(c), NEW messages \in Seq(Message), now \in 0 .. MaxTime,
         \/ c.lastSentPlayerInput = "Neutral"
         \/ \A n \in 1 .. Len(messages) : messages[n] # PlayerIdentity
  PROVE  /\ Sound(Polled(c, messages))
         /\ Polled(c, messages).lastSentPlayerInput = c.lastSentPlayerInput
         /\ c.playerIdentity => Polled(c, messages).playerIdentity
         /\ \A n \in 1 .. Len(messages) :
               messages[n] = PlayerIdentity => Polled(c, messages).playerIdentity
<1>1. Len(messages) \in Nat
  OBVIOUS
<1>2. PICK f : /\ Polled(c, messages) = f[Len(messages)]
               /\ f[0] = c
               /\ \A n \in 1 .. Len(messages) : f[n] = Take(f[n - 1], messages[n])
  BY <1>1, PolledSteps
<1> DEFINE Good(n) == /\ Sound(f[n])
                      /\ f[n].lastSentPlayerInput = c.lastSentPlayerInput
                      /\ c.playerIdentity => f[n].playerIdentity
                      /\ \A k \in 1 .. n : messages[k] = PlayerIdentity => f[n].playerIdentity
           bad == {n \in 0 .. Len(messages) : ~Good(n)}
<1>3. Good(0)
  BY <1>2
<1>4. ASSUME NEW n \in 1 .. Len(messages), Good(n - 1)
      PROVE  Good(n)
  <2>1. f[n] = Take(f[n - 1], messages[n]) /\ messages[n] \in Message
    BY <1>2
  <2> DEFINE old == f[n - 1]
             new == f[n]
  <2>2. /\ Sound(old) /\ old.lastSentPlayerInput = c.lastSentPlayerInput
        /\ c.playerIdentity => old.playerIdentity
        /\ \A k \in 1 .. n - 1 : messages[k] = PlayerIdentity => old.playerIdentity
    BY <1>4
  <2> HIDE DEF old, new
  <2>3. CASE messages[n] = PlayerIdentity
    <3>1. new = HandlePlayerIdentity(old)
      BY <2>1, <2>3 DEF Take, old, new
    <3>2. /\ Sound(new) /\ new.playerIdentity /\ new.lastSentPlayerInput = "Neutral"
      BY <2>2, <3>1, IdentitySound
    <3>3. c.lastSentPlayerInput = "Neutral"
      BY <2>3
    <3> QED
      BY <3>2, <3>3 DEF new
  <2>4. CASE messages[n] # PlayerIdentity
    <3>1. new = HandleWorldStateSnapshot(old, messages[n]) /\ messages[n] \in WorldStateSnapshot
      BY <2>1, <2>4 DEF Take, Message, old, new
    <3>2. /\ Sound(new) /\ new.lastSentPlayerInput = old.lastSentPlayerInput
          /\ new.playerIdentity = old.playerIdentity
      BY <2>2, <3>1, SnapshotSound
    <3>3. \A k \in 1 .. n : messages[k] = PlayerIdentity => k \in 1 .. n - 1
      BY <2>4
    <3> QED
      BY <2>2, <3>2, <3>3 DEF new
  <2> QED
    BY <2>3, <2>4
<1> HIDE DEF Good
<1>5. SUFFICES ASSUME bad # {} PROVE FALSE
  <2>1. SUFFICES Good(Len(messages))
    BY <1>2 DEF Good
  <2> QED
    BY <1>1, <1>5
<1>6. PICK least \in bad : \A n \in bad : least <= n
  <2>1. bad \in SUBSET Nat
    BY <1>1
  <2> HIDE DEF bad
  <2> QED
    BY <1>5, <2>1, LeastElement
<1>7. least \in 1 .. Len(messages)
  BY <1>1, <1>3, <1>6
<1>8. least - 1 \in 0 .. Len(messages) /\ least - 1 \notin bad
  BY <1>1, <1>6, <1>7
<1> QED
  BY <1>4, <1>6, <1>7, <1>8

-----------------------------------------------------------------------------
(* The update.                                                             *)

\* The picture between two snapshots of the history is a moment of the game.
LEMMA BetweenInRange ==
  ASSUME NEW previous \in Received, NEW next \in Received, now \in 0 .. MaxTime,
         previous.serverTick <= next.serverTick,
         previous.receivedAt <= now - Delay, now - Delay <= next.receivedAt
  PROVE  Between(previous, next) \in Moment /\ MomentInRange(Between(previous, next))
<1> DEFINE interval == next.receivedAt - previous.receivedAt
           ticks == next.serverTick - previous.serverTick
           gone == now - Delay - previous.receivedAt
<1>1. /\ Delay \in Nat /\ MaxTime \in Nat
      /\ previous.receivedAt \in 0 .. MaxTime /\ next.receivedAt \in 0 .. MaxTime
      /\ previous.serverTick \in 1 .. MaxTime /\ next.serverTick \in 1 .. MaxTime
  BY ClientGameAssumption DEF Received
<1>2. /\ interval \in Nat /\ ticks \in Nat /\ ticks <= MaxTime
      /\ gone \in Nat /\ gone <= interval
  BY <1>1
<1>3. CASE interval = 0
  <2>1. Between(previous, next) = AtTick(next.serverTick)
    BY <1>3 DEF Between
  <2> QED
    BY <1>1, <2>1, AtTickSound
<1>4. CASE interval # 0
  <2>1. Between(previous, next) =
           [tick |-> previous.serverTick, part |-> ticks * gone, of |-> interval]
    BY <1>4 DEF Between
  <2> HIDE DEF interval, ticks, gone
  <2>2. ticks * gone \in Nat /\ ticks * gone <= MaxTime * interval
    BY <1>1, <1>2, ProductBound
  <2>3. interval * (MaxTime + 1) = MaxTime * interval + interval /\ MaxTime * interval \in Nat
    BY <1>1, <1>2
  <2>4. ticks * gone < interval * (MaxTime + 1)
    BY <1>2, <1>4, <2>2, <2>3
  <2> QED
    BY <1>1, <1>2, <1>4, <2>1, <2>2, <2>4 DEF Moment, MomentInRange
<1> QED
  BY <1>3, <1>4

\* The update of a frame changes the picture and the input looked at, and no
\* more.
LEMMA UpdatedSound ==
  ASSUME NEW c, Sound(c), now \in 0 .. MaxTime, keys \in Inputs
  PROVE  /\ Sound(Updated(c))
         /\ Updated(c).lastSentPlayerInput = c.lastSentPlayerInput
         /\ Updated(c).playerIdentity = c.playerIdentity
         /\ Updated(c).worldState = c.worldState
<1> DEFINE i == Interpolated(c)
           Same(n) == /\ Sound(n) /\ n.lastSentPlayerInput = c.lastSentPlayerInput
                      /\ n.playerIdentity = c.playerIdentity /\ n.worldState = c.worldState
<1>1. Same(i)
  <2>1. CASE Selectable(c.history) = {}
    BY <2>1 DEF Interpolated
  <2>2. CASE Selectable(c.history) # {}
    <3> DEFINE h == c.history
               next == Min(Selectable(h))
               between == Between(h[next - 1], h[next])
               found == {p \in h[next - 1].players \cap h[next].players :
                            c.picture[p] # NoMoment}
               n == [c EXCEPT !.picture = Put(c.picture, found, between),
                              !.smoothed = Put(c.smoothed, found, between)]
    <3>1. c \in ClientState /\ h \in Seq(Received) /\ Len(h) \in Nat
          /\ \A k \in 2 .. Len(h) : h[k - 1].serverTick < h[k].serverTick
      BY DEF Sound, ClientState, Orderly
    <3>2. Selectable(h) \in SUBSET Nat
      BY <3>1 DEF Selectable
    <3>3. next \in Selectable(h)
      BY <2>2, <3>2, MinIsLeast
    <3>4. i = n
      BY <2>2 DEF Interpolated
    <3> HIDE DEF next, h, found
    <3>5. /\ next \in 2 .. Len(h)
          /\ h[next - 1].receivedAt <= now - Delay /\ now - Delay <= h[next].receivedAt
      BY <3>3 DEF Selectable
    <3>6. /\ next - 1 \in 1 .. Len(h) /\ next \in 1 .. Len(h)
      BY <3>1, <3>5
    <3>7. h[next - 1] \in Received /\ h[next] \in Received
      BY <3>1, <3>6
    <3>8. h[next - 1].serverTick <= h[next].serverTick
      <4>1. h[next - 1].serverTick \in Int /\ h[next].serverTick \in Int
        BY <3>7 DEF Received
      <4> QED
        BY <3>1, <3>5, <4>1
    <3>9. between \in Moment /\ MomentInRange(between)
      BY <3>5, <3>7, <3>8, BetweenInRange
    <3> DEFINE picture == Put(c.picture, found, between)
               smoothed == Put(c.smoothed, found, between)
    <3>12. /\ picture \in [Players -> Moment] /\ smoothed \in [Players -> Moment]
           /\ InRange(picture)
      <4>1. /\ c.picture \in [Players -> Moment] /\ c.smoothed \in [Players -> Moment]
            /\ InRange(c.picture)
        BY DEF Sound, ClientState
      <4> HIDE DEF between
      <4> QED
        BY <3>9, <4>1, PutSound
    <3> HIDE DEF between, i, picture, smoothed
    <3>10. /\ n \in ClientState /\ n.picture = picture /\ n.history = c.history
           /\ n.lastSentPlayerInput = c.lastSentPlayerInput
           /\ n.playerIdentity = c.playerIdentity /\ n.worldState = c.worldState
      BY <3>1, <3>12 DEF ClientState, picture, smoothed
    <3> HIDE DEF n
    <3>11. Orderly(n)
      BY <3>10 DEF Sound, Orderly
    <3> QED
      BY <3>4, <3>10, <3>11, <3>12 DEF Sound
  <2> QED
    BY <2>1, <2>2
<1> HIDE DEF i
<1>2. Same(Sampled(i))
  <2> DEFINE n == [i EXCEPT !.currentPlayerInput = keys]
  <2>1. CASE Sampled(i) = i
    BY <1>1, <2>1
  <2>2. CASE Sampled(i) = n
    <3>0. i \in ClientState
      BY <1>1 DEF Sound
    <3>1. /\ n \in ClientState /\ n.picture = i.picture /\ n.history = i.history
          /\ n.lastSentPlayerInput = i.lastSentPlayerInput
          /\ n.playerIdentity = i.playerIdentity /\ n.worldState = i.worldState
      BY <3>0 DEF ClientState
    <3> HIDE DEF n
    <3>2. Orderly(n)
      BY <1>1, <3>1 DEF Sound, Orderly
    <3> QED
      BY <1>1, <2>2, <3>1, <3>2 DEF Sound
  <2> QED
    BY <2>1, <2>2 DEF Sampled
<1> QED
  BY <1>2 DEF Updated, i

-----------------------------------------------------------------------------
(* The invariant.                                                          *)

\* The identity comes before everything else, to a client that has none and
\* has sent nothing.  Once no input is on its way, the room holds the last one
\* sent, or none.
InputOnItsWay ==
    /\ \A i \in 1 .. Len(downlink) : downlink[i] = PlayerIdentity =>
          /\ i = 1
          /\ ~client.playerIdentity
          /\ client.lastSentPlayerInput = "Neutral"
    /\ connected =>
          IF uplink = <<>> THEN serverInput \in {client.lastSentPlayerInput, "Neutral"}
          ELSE uplink[Len(uplink)] = client.lastSentPlayerInput

\* The inductive invariant: types and history support each other, because the
\* part of a picture is in range only between snapshots in order, and a
\* history stays ordered only if no snapshot comes from the future.
ClientGameInv ==
    /\ now \in 0 .. MaxTime
    /\ gameState \in GamePlayStates
    /\ opponents \in Players /\ (gameState # "Waiting" => opponents > 0)
    /\ serverInput \in Inputs /\ keys \in Inputs
    /\ downlink \in Seq(Message)
    /\ uplink \in Seq(Inputs) /\ Len(uplink) <= SendLimit
    /\ connected \in BOOLEAN
    /\ Sound(client)
    /\ InputOnItsWay

\* A client that has just connected satisfies the invariant.
LEMMA ClientGameInvInit == Init => ClientGameInv
<1> SUFFICES ASSUME Init PROVE ClientGameInv
  OBVIOUS
<1>1. /\ MaxTime \in Nat /\ SendLimit \in Nat /\ HistorySize \in Nat
  BY ClientGameAssumption
<1>2. Nowhere \in [Players -> Moment] /\ InRange(Nowhere)
  BY NowhereSound
<1>3. /\ client.picture = Nowhere /\ client.history = <<>> /\ <<>> \in Seq(Received)
      /\ client.worldState = NoWorldState /\ client.lastSentPlayerInput = "Neutral"
      /\ client.playerIdentity = FALSE
  BY DEF Init, NewClient
<1>4. client \in ClientState
  BY <1>2, <1>3 DEF Init, NewClient, ClientState, Inputs
<1>5. Sound(client)
  BY <1>1, <1>2, <1>3, <1>4 DEF Sound, Orderly
<1>6. /\ now \in 0 .. MaxTime /\ gameState \in GamePlayStates
      /\ opponents \in Players /\ (gameState # "Waiting" => opponents > 0)
      /\ serverInput \in Inputs /\ keys \in Inputs /\ connected \in BOOLEAN
  BY <1>1, ClientGameAssumption DEF Init, GamePlayStates, Inputs, Players
<1>7. /\ downlink \in Seq(Message) /\ Len(downlink) = 1
      /\ uplink \in Seq(Inputs) /\ Len(uplink) = 0 /\ uplink = <<>>
  <2>1. PlayerIdentity \in Message
    BY DEF Message
  <2> QED
    BY <2>1 DEF Init
<1>8. InputOnItsWay
  BY <1>3, <1>7 DEF InputOnItsWay, Init
<1> QED
  BY <1>1, <1>5, <1>6, <1>7, <1>8 DEF ClientGameInv

\* Frame preserves the invariant.
LEMMA FrameInv ==
  ASSUME ClientGameInv, NEW count \in 0 .. Len(downlink), Frame(count)
  PROVE  ClientGameInv'
<1> DEFINE messages == SubSeq(downlink, 1, count)
           polled == Polled(client, messages)
           updated == Updated(polled)
<1>1. /\ downlink \in Seq(Message) /\ Len(downlink) \in Nat /\ count \in Nat
      /\ count <= Len(downlink) /\ uplink \in Seq(Inputs) /\ Len(uplink) \in Nat
      /\ now \in 0 .. MaxTime /\ keys \in Inputs
      /\ SendLimit \in Nat \ {0}
      /\ Sound(client) /\ client \in ClientState
  BY ClientGameAssumption DEF ClientGameInv, Sound
<1>2. /\ messages \in Seq(Message) /\ Len(messages) = count
      /\ \A i \in 1 .. count : messages[i] = downlink[i]
      /\ downlink' \in Seq(Message) /\ Len(downlink') = Len(downlink) - count
      /\ \A i \in 1 .. Len(downlink') : downlink'[i] = downlink[count + i]
  <2>1. downlink' = SubSeq(downlink, count + 1, Len(downlink))
    BY DEF Frame
  <2>2. \A i \in 1 .. Len(downlink) : downlink[i] \in Message
    BY <1>1
  <2> QED
    BY <1>1, <2>1, <2>2, SubSeqProperties
<1> HIDE DEF messages
<1>3. /\ client' = Sent(updated)
      /\ uplink' = IF Sends(updated) THEN Append(uplink, updated.currentPlayerInput) ELSE uplink
      /\ UNCHANGED <<now, gameState, opponents, serverInput, connected, keys>>
  BY DEF Frame, serverVars, messages
<1>4. /\ \A i \in 1 .. Len(downlink) : downlink[i] = PlayerIdentity =>
            i = 1 /\ ~client.playerIdentity /\ client.lastSentPlayerInput = "Neutral"
      /\ connected => IF uplink = <<>>
                      THEN serverInput \in {client.lastSentPlayerInput, "Neutral"}
                      ELSE uplink[Len(uplink)] = client.lastSentPlayerInput
  BY DEF ClientGameInv, InputOnItsWay
<1>5. \/ client.lastSentPlayerInput = "Neutral"
      \/ \A n \in 1 .. Len(messages) : messages[n] # PlayerIdentity
  BY <1>1, <1>2, <1>4
<1>6. /\ Sound(polled) /\ polled.lastSentPlayerInput = client.lastSentPlayerInput
      /\ count = 0 => polled = client
  <2>1. /\ Sound(polled) /\ polled.lastSentPlayerInput = client.lastSentPlayerInput
    BY <1>1, <1>2, <1>5, PolledSound
  <2>2. count = 0 => polled = client
    <3>1. Len(messages) \in Nat
      BY <1>1, <1>2
    <3>2. PICK f : /\ polled = f[Len(messages)]
                   /\ f[0] = client
                   /\ \A n \in 1 .. Len(messages) : f[n] = Take(f[n - 1], messages[n])
      BY <3>1, PolledSteps
    <3> QED
      BY <1>2, <3>2
  <2> QED
    BY <2>1, <2>2
<1> HIDE DEF polled
<1>7. /\ Sound(updated) /\ updated.lastSentPlayerInput = client.lastSentPlayerInput
      /\ updated.playerIdentity = polled.playerIdentity
      /\ updated.worldState = polled.worldState
  BY <1>1, <1>6, UpdatedSound
<1> HIDE DEF updated
<1>8. /\ Sound(client') /\ updated.currentPlayerInput \in Inputs
      /\ client'.playerIdentity = updated.playerIdentity
      /\ client'.lastSentPlayerInput = IF Sends(updated) THEN updated.currentPlayerInput
                                                         ELSE client.lastSentPlayerInput
  <2>1. updated \in ClientState
    BY <1>7 DEF Sound
  <2>2. updated.currentPlayerInput \in Inputs
    BY <2>1 DEF ClientState
  <2> DEFINE n == [updated EXCEPT !.lastSentPlayerInput = updated.currentPlayerInput]
  <2>3. /\ n \in ClientState /\ n.picture = updated.picture /\ n.history = updated.history
        /\ n.worldState = updated.worldState /\ n.playerIdentity = updated.playerIdentity
        /\ n.lastSentPlayerInput = updated.currentPlayerInput
    BY <2>1, <2>2 DEF ClientState
  <2>4. client' = IF Sends(updated) THEN n ELSE updated
    BY <1>3 DEF Sent
  <2> HIDE DEF n
  <2>5. Orderly(n)
    BY <1>7, <2>3 DEF Sound, Orderly
  <2>6. Sound(n)
    BY <1>7, <2>3, <2>5 DEF Sound
  <2>7. Sound(client')
    BY <1>7, <2>4, <2>6
  <2> QED
    BY <1>7, <2>2, <2>3, <2>4, <2>7
<1>9. Sound(client)' 
  <2>1. now' = now
    BY <1>3
  <2> QED
    BY <1>8, <2>1 DEF Sound, Orderly
<1>10. uplink' \in Seq(Inputs) /\ Len(uplink') <= SendLimit
  <2>1. CASE Sends(updated)
    <3>1. Len(uplink) < SendLimit
      BY <2>1 DEF Sends
    <3>2. uplink' = Append(uplink, updated.currentPlayerInput)
      BY <1>3, <2>1
    <3> QED
      BY <1>1, <1>8, <3>1, <3>2
  <2>2. CASE ~Sends(updated)
    BY <1>3, <2>2 DEF ClientGameInv
  <2> QED
    BY <2>1, <2>2
<1>11. \A i \in 1 .. Len(downlink') : downlink'[i] = PlayerIdentity =>
          i = 1 /\ ~client'.playerIdentity /\ client'.lastSentPlayerInput = "Neutral"
  <2> TAKE i \in 1 .. Len(downlink')
  <2> HAVE downlink'[i] = PlayerIdentity
  <2>1. /\ count + i \in 1 .. Len(downlink) /\ downlink[count + i] = PlayerIdentity
    BY <1>1, <1>2
  <2>2. count = 0 /\ i = 1 /\ ~client.playerIdentity /\ client.lastSentPlayerInput = "Neutral"
    BY <1>1, <1>4, <2>1
  <2>3. updated.playerIdentity = client.playerIdentity
    BY <1>6, <1>7, <2>2
  <2>4. ~Sends(updated)
    BY <1>7, <2>2, <2>3 DEF Sound, Orderly, Sends, NoWorldState
  <2> QED
    BY <1>8, <2>2, <2>3, <2>4
<1>12. connected' => IF uplink' = <<>>
                     THEN serverInput' \in {client'.lastSentPlayerInput, "Neutral"}
                     ELSE uplink'[Len(uplink')] = client'.lastSentPlayerInput
  <2>1. CASE Sends(updated)
    <3>1. uplink' = Append(uplink, updated.currentPlayerInput)
      BY <1>3, <2>1
    <3>2. uplink' # <<>> /\ uplink'[Len(uplink')] = updated.currentPlayerInput
      BY <1>1, <1>8, <3>1
    <3> QED
      BY <1>8, <2>1, <3>2
  <2>2. CASE ~Sends(updated)
    BY <1>3, <1>4, <1>8, <2>2
  <2> QED
    BY <2>1, <2>2
<1>13. InputOnItsWay'
  BY <1>11, <1>12 DEF InputOnItsWay
<1> QED
  BY <1>2, <1>3, <1>9, <1>10, <1>13 DEF ClientGameInv

\* Sound depends on the time only through the history, which it only lets grow
\* older.
LEMMA SoundLater ==
  ASSUME Sound(client), client' = client, now \in Nat, now' \in Nat, now' >= now
  PROVE  Sound(client)'
<1>1. /\ client \in ClientState /\ InRange(client.picture)
      /\ Len(client.history) \in Nat
      /\ \A i \in 1 .. Len(client.history) : client.history[i].receivedAt \in Int
  <2>1. client.history \in Seq(Received)
    BY DEF Sound, ClientState
  <2>2. \A i \in 1 .. Len(client.history) : client.history[i] \in Received
    BY <2>1
  <2>3. \A r \in Received : r.receivedAt \in Int
    BY ClientGameAssumption DEF Received
  <2> QED
    BY <2>1, <2>2, <2>3 DEF Sound
<1>2. \A i \in 1 .. Len(client.history) : client.history[i].receivedAt <= now'
  BY <1>1 DEF Sound, Orderly
<1>3. Orderly(client)'
  BY <1>1, <1>2 DEF Sound, Orderly
<1> QED
  BY <1>1, <1>3 DEF Sound

\* ConnectionLost preserves the invariant.
LEMMA ConnectionLostInv ==
  ASSUME ClientGameInv, ConnectionLost
  PROVE  ClientGameInv'
<1>1. /\ connected' = FALSE /\ client' = Reset(client) /\ downlink' = <<>> /\ uplink' = <<>>
      /\ UNCHANGED <<now, gameState, opponents, serverInput, keys>>
  BY DEF ConnectionLost, serverVars
<1>2. Sound(Reset(client))
  BY ResetSound DEF ClientGameInv
<1>3. Sound(client)'
  BY <1>1, <1>2 DEF Sound, Orderly
<1>4. Len(downlink') = 0 /\ downlink' \in Seq(Message) /\ uplink' \in Seq(Inputs)
      /\ Len(uplink') <= SendLimit
  BY <1>1, ClientGameAssumption
<1>5. InputOnItsWay'
  BY <1>1, <1>4 DEF InputOnItsWay
<1> QED
  BY <1>1, <1>3, <1>4, <1>5 DEF ClientGameInv

\* ServerTicks preserves the invariant.
LEMMA ServerTicksInv ==
  ASSUME ClientGameInv, ServerTicks
  PROVE  ClientGameInv'
<1> DEFINE snapshot == [serverTick |-> now + 1, gamePlayState |-> gameState,
                        players |-> InRoom]
<1>1. /\ now \in 0 .. MaxTime /\ now < MaxTime /\ now' = now + 1 /\ MaxTime \in Nat
      /\ downlink' = Append(downlink, snapshot)
      /\ UNCHANGED <<gameState, opponents, serverInput, uplink, connected, keys, client>>
  BY ClientGameAssumption DEF ServerTicks, ClientGameInv
<1>8. InRoom \in SUBSET Players
  BY ClientGameAssumption DEF InRoom, Players, ClientGameInv
<1>2. snapshot \in WorldStateSnapshot
  BY <1>1, <1>8 DEF ClientGameInv, WorldStateSnapshot
<1>3. snapshot # PlayerIdentity /\ snapshot \in Message
  BY <1>1, <1>2 DEF PlayerIdentity, Message
<1> HIDE DEF snapshot
<1>4. /\ downlink \in Seq(Message) /\ downlink' \in Seq(Message)
      /\ Len(downlink) \in Nat /\ Len(downlink') = Len(downlink) + 1
      /\ \A i \in 1 .. Len(downlink) : downlink'[i] = downlink[i]
      /\ downlink'[Len(downlink) + 1] = snapshot
  BY <1>1, <1>3, AppendProperties DEF ClientGameInv
<1>5. \A i \in 1 .. Len(downlink') : downlink'[i] = PlayerIdentity =>
         i \in 1 .. Len(downlink) /\ downlink[i] = PlayerIdentity
  BY <1>3, <1>4
<1>6. Sound(client)'
  BY <1>1, SoundLater DEF ClientGameInv
<1>7. InputOnItsWay'
  BY <1>1, <1>5 DEF ClientGameInv, InputOnItsWay
<1> QED
  BY <1>1, <1>4, <1>6, <1>7 DEF ClientGameInv

\* What the players do, and what the game does, preserves the invariant.
LEMMA GameStepInv ==
  ASSUME ClientGameInv, UNCHANGED <<now, downlink, uplink, connected, client>>,
         gameState' \in GamePlayStates, keys' \in Inputs,
         opponents' \in Players, gameState' # "Waiting" => opponents' > 0,
         serverInput' \in {serverInput, "Neutral"}
  PROVE  ClientGameInv'
<1>1. Sound(client)'
  BY SoundLater DEF ClientGameInv
<1>2. InputOnItsWay'
  BY DEF ClientGameInv, InputOnItsWay
<1>3. serverInput' \in Inputs
  BY DEF ClientGameInv, Inputs
<1> QED
  BY <1>1, <1>2, <1>3 DEF ClientGameInv

\* ServerTakesInput preserves the invariant.
LEMMA ServerTakesInputInv ==
  ASSUME ClientGameInv, ServerTakesInput
  PROVE  ClientGameInv'
<1>1. /\ uplink \in Seq(Inputs) /\ uplink # <<>> /\ Len(uplink) \in Nat /\ Len(uplink) <= SendLimit
      /\ serverInput' = Head(uplink) /\ uplink' = Tail(uplink)
      /\ SendLimit \in Nat
      /\ UNCHANGED <<now, gameState, opponents, downlink, connected, keys, client>>
  BY ClientGameAssumption DEF ServerTakesInput, ClientGameInv
<1>2. /\ Len(uplink) > 0 /\ serverInput' = uplink[1] /\ serverInput' \in Inputs
      /\ uplink' \in Seq(Inputs) /\ Len(uplink') = Len(uplink) - 1
      /\ \A i \in 1 .. Len(uplink') : uplink'[i] = uplink[i + 1]
  BY <1>1, HeadTailProperties
<1>3. Sound(client)'
  BY <1>1, SoundLater DEF ClientGameInv
<1>4. connected => uplink[Len(uplink)] = client.lastSentPlayerInput
  BY <1>1 DEF ClientGameInv, InputOnItsWay
<1>5. connected' => IF uplink' = <<>>
                    THEN serverInput' \in {client'.lastSentPlayerInput, "Neutral"}
                    ELSE uplink'[Len(uplink')] = client'.lastSentPlayerInput
  <2>1. CASE uplink' = <<>>
    <3>1. Len(uplink) = 1
      <4>1. Len(uplink') = 0
        BY <2>1
      <4> QED
        BY <1>1, <1>2, <4>1
    <3> QED
      BY <1>1, <1>2, <1>4, <2>1, <3>1
  <2>2. CASE uplink' # <<>>
    <3>1. Len(uplink') \in 1 .. Len(uplink') /\ Len(uplink') + 1 = Len(uplink)
      BY <1>1, <1>2, <2>2
    <3> QED
      BY <1>1, <1>2, <1>4, <2>2, <3>1
  <2> QED
    BY <2>1, <2>2
<1>6. InputOnItsWay'
  BY <1>1, <1>5 DEF ClientGameInv, InputOnItsWay
<1> QED
  BY <1>1, <1>2, <1>3, <1>6 DEF ClientGameInv

\* Every step preserves the invariant.
LEMMA ClientGameInvNext == ClientGameInv /\ [Next]_vars => ClientGameInv'
<1> SUFFICES ASSUME ClientGameInv, [Next]_vars PROVE ClientGameInv'
  OBVIOUS
<1>1. /\ keys \in Inputs /\ gameState \in GamePlayStates
      /\ opponents \in Players /\ (gameState # "Waiting" => opponents > 0)
  BY DEF ClientGameInv
<1>2. CASE UNCHANGED vars
  BY <1>1, <1>2, GameStepInv DEF vars
<1>3. ASSUME NEW input \in Inputs, PlayerPresses(input)
      PROVE  ClientGameInv'
  BY <1>1, <1>3, GameStepInv DEF PlayerPresses, serverVars
<1>4. CASE OpponentLeaves \/ GameEnds
  BY <1>1, <1>4, GameStepInv DEF OpponentLeaves, GameEnds, GamePlayStates
<1>5. CASE OpponentEnters
  <2>1. opponents' \in Players /\ opponents' > 0
    BY <1>1, <1>5, ClientGameAssumption DEF OpponentEnters, Players
  <2> QED
    BY <1>1, <1>5, <2>1, GameStepInv DEF OpponentEnters, GamePlayStates
<1> QED
  BY <1>2, <1>3, <1>4, <1>5, FrameInv, ConnectionLostInv, ServerTicksInv, ServerTakesInputInv DEF Next

-----------------------------------------------------------------------------
(* The picture never goes back.                                            *)

\* Time goes one way: a moment not before another that is not before a third.
LEMMA NotBeforeTransitive ==
  ASSUME NEW a \in Moment, NEW b \in Moment, NEW c \in Moment,
         NotBefore(c, b), NotBefore(b, a)
  PROVE  NotBefore(c, a)
<1> DEFINE x == a.tick * a.of + a.part
           y == b.tick * b.of + b.part
           z == c.tick * c.of + c.part
           p == a.of
           q == b.of
           r == c.of
<1>1. /\ a.tick \in Nat /\ a.part \in Nat /\ b.tick \in Nat /\ b.part \in Nat
      /\ c.tick \in Nat /\ c.part \in Nat
      /\ p \in Nat /\ q \in Nat /\ r \in Nat /\ q > 0
  BY ClientGameAssumption DEF Moment
<1>2. x \in Nat /\ y \in Nat /\ z \in Nat
  BY <1>1
<1>3. y * r <= z * q /\ x * q <= y * p
  <2>1. z * q >= y * r /\ y * p >= x * q
    BY DEF NotBefore
  <2> HIDE DEF x, y, z, p, q, r
  <2>2. z * q \in Nat /\ y * r \in Nat /\ y * p \in Nat /\ x * q \in Nat
    BY <1>1, <1>2
  <2> QED
    BY <2>1, <2>2
<1> HIDE DEF x, y, z, p, q, r
<1>4. (x * q) * r <= (y * p) * r /\ (y * r) * p <= (z * q) * p
  <2>1. x * q \in Nat /\ y * p \in Nat /\ y * r \in Nat /\ z * q \in Nat
    BY <1>1, <1>2
  <2> QED
    BY <1>1, <1>3, <2>1, ProductBound
<1>5. /\ (x * q) * r = (x * r) * q /\ (y * p) * r = (y * r) * p /\ (z * q) * p = (z * p) * q
      /\ x * r \in Nat /\ z * p \in Nat
      /\ (x * r) * q \in Nat /\ (y * r) * p \in Nat /\ (z * p) * q \in Nat
  BY <1>1, <1>2
<1>6. (x * r) * q <= (z * p) * q
  BY <1>4, <1>5
<1>7. x * r <= z * p
  <2> SUFFICES ASSUME z * p + 1 <= x * r PROVE FALSE
    BY <1>5
  <2> DEFINE m == z * p
             n == x * r
  <2> HIDE DEF m, n
  <2>0. m \in Nat /\ n \in Nat /\ m + 1 <= n /\ n * q <= m * q
    BY <1>5, <1>6 DEF m, n
  <2>1. (m + 1) * q <= n * q
    BY <1>1, <2>0, ProductBound
  <2>2. (m + 1) * q = m * q + q /\ m * q \in Nat /\ n * q \in Nat
    BY <1>1, <2>0
  <2> QED
    BY <1>1, <2>0, <2>1, <2>2
<1> QED
  BY <1>5, <1>7 DEF NotBefore, x, z, p, r

\* The moments between two ticks: after the first, before the second, and in
\* the order of their parts.
LEMMA MomentsBetween ==
  ASSUME NEW tick \in 0 .. MaxTime, NEW next \in 0 .. MaxTime, tick <= next,
         NEW of \in Nat \ {0}, NEW gone \in 0 .. of
  PROVE  LET moment == [tick |-> tick, part |-> (next - tick) * gone, of |-> of]
         IN  /\ moment \in Moment
             /\ NotBefore(moment, AtTick(tick))
             /\ NotBefore(AtTick(next), moment)
             /\ \A more \in gone .. of :
                   NotBefore([tick |-> tick, part |-> (next - tick) * more, of |-> of],
                             moment)
<1> DEFINE ticks == next - tick
           part == ticks * gone
<1>1. /\ tick \in Nat /\ next \in Nat /\ ticks \in Nat /\ of \in Nat /\ of > 0
      /\ gone \in Nat /\ gone <= of /\ next = tick + ticks
  BY ClientGameAssumption
<1> HIDE DEF ticks
<1>2. part \in Nat /\ part <= ticks * of /\ ticks * of \in Nat /\ tick * of \in Nat
  BY <1>1, ProductBound
<1>3. next * of = tick * of + ticks * of
  BY <1>1
<1>4. [tick |-> tick, part |-> part, of |-> of] \in Moment
  BY <1>1, <1>2 DEF Moment
<1>5. NotBefore([tick |-> tick, part |-> part, of |-> of], AtTick(tick))
  <2>1. (tick * of + part) * 1 >= (tick * 1 + 0) * of
    BY <1>1, <1>2
  <2> QED
    BY <2>1 DEF NotBefore, AtTick
<1>6. NotBefore(AtTick(next), [tick |-> tick, part |-> part, of |-> of])
  <2>1. (next * 1 + 0) * of >= (tick * of + part) * 1
    BY <1>1, <1>2, <1>3
  <2> QED
    BY <2>1 DEF NotBefore, AtTick
<1>7. ASSUME NEW more \in gone .. of
      PROVE  NotBefore([tick |-> tick, part |-> ticks * more, of |-> of],
                       [tick |-> tick, part |-> part, of |-> of])
  <2>1. more \in Nat /\ part <= ticks * more /\ ticks * more \in Nat
    BY <1>1, ProductBound
  <2>2. tick * of + part <= tick * of + ticks * more
    BY <1>2, <2>1
  <2>3. tick * of + part \in Nat /\ tick * of + ticks * more \in Nat
    BY <1>2, <2>1
  <2>4. (tick * of + part) * of <= (tick * of + ticks * more) * of
    BY <1>1, <2>2, <2>3, ProductBound
  <2>5. (tick * of + part) * of \in Nat /\ (tick * of + ticks * more) * of \in Nat
    BY <1>1, <2>3
  <2> QED
    BY <2>4, <2>5 DEF NotBefore
<1> QED
  BY <1>4, <1>5, <1>6, <1>7 DEF ticks

\* Ticks come in the order of their numbers.
LEMMA TicksInOrder ==
  ASSUME NEW tick \in 0 .. MaxTime, NEW next \in 0 .. MaxTime, tick <= next
  PROVE  AtTick(tick) \in Moment /\ NotBefore(AtTick(next), AtTick(tick))
<1>1. tick \in Int /\ next \in Int
  BY ClientGameAssumption
<1>2. (next * 1 + 0) * 1 >= (tick * 1 + 0) * 1
  BY <1>1
<1> QED
  BY <1>2 DEF NotBefore, AtTick, Moment

\* No moment is before itself.
LEMMA NotBeforeReflexive ==
  ASSUME NEW a \in Moment
  PROVE  NotBefore(a, a)
<1>1. a.tick \in Nat /\ a.part \in Nat /\ a.of \in Nat
  BY ClientGameAssumption DEF Moment
<1>2. (a.tick * a.of + a.part) * a.of \in Nat
  BY <1>1
<1> QED
  BY <1>2 DEF NotBefore

\* Nothing is before the moment of those who have none.
LEMMA NotBeforeNothing ==
  ASSUME NEW a \in Moment
  PROVE  NotBefore(a, NoMoment)
<1>1. a.tick \in Nat /\ a.part \in Nat /\ a.of \in Nat
  BY ClientGameAssumption DEF Moment
<1>2. (a.tick * a.of + a.part) * 1 \in Nat /\ (0 * 1 + 0) * a.of = 0
  BY <1>1
<1> QED
  BY <1>2 DEF NotBefore, NoMoment, AtTick

\* What is known of the snapshots of a history and of when they were received.
Timed(h) ==
    /\ h \in Seq(Received)
    /\ \A i \in 2 .. Len(h) :
          /\ h[i - 1].serverTick < h[i].serverTick
          /\ h[i - 1].receivedAt <= h[i].receivedAt
    /\ \A i \in 1 .. Len(h) : h[i].receivedAt <= now

\* What the history has in store is not before this moment: neither the newest
\* state, nor what is between the snapshots that enclose the render time, nor
\* the snapshots to come.  The first one counts only while the render time has
\* yet to reach the history.
Ahead(picture, h) ==
    /\ h = <<>> => picture = NoMoment
    /\ h # <<>> => NotBefore(AtTick(h[Len(h)].serverTick), picture)
    /\ h # <<>> /\ now - Delay < h[1].receivedAt =>
          NotBefore(AtTick(h[1].serverTick), picture)
    /\ \A i \in 2 .. Len(h) :
          now - Delay <= h[i].receivedAt => NotBefore(AtTick(h[i].serverTick), picture)
    /\ \A i \in 2 .. Len(h) :
          /\ h[i - 1].receivedAt <= now - Delay /\ now - Delay <= h[i].receivedAt
          /\ h[i - 1].receivedAt < h[i].receivedAt
          => NotBefore(Between(h[i - 1], h[i]), picture)

\* The history of a sound client is timed.
LEMMA SoundTimed ==
  ASSUME NEW c, Sound(c)
  PROVE  Timed(c.history)
BY DEF Sound, ClientState, Orderly, Timed

\* The numbers of a history, and the order of any two of its snapshots.
LEMMA TimedOrder ==
  ASSUME NEW h, Timed(h), now \in 0 .. MaxTime
  PROVE  /\ Len(h) \in Nat
         /\ \A i \in 1 .. Len(h) :
               /\ h[i] \in Received
               /\ h[i].serverTick \in 1 .. MaxTime /\ h[i].receivedAt \in 0 .. MaxTime
         /\ \A n \in 0 .. Len(h) : \A i \in 1 .. Len(h) :
               n \in 1 .. Len(h) /\ i <= n =>
                  /\ h[i].serverTick + (n - i) <= h[n].serverTick
                  /\ h[i].receivedAt <= h[n].receivedAt
<1>1. Len(h) \in Nat /\ \A i \in 1 .. Len(h) : h[i] \in Received
  BY DEF Timed
<1>2. \A i \in 1 .. Len(h) : h[i].serverTick \in Int /\ h[i].receivedAt \in Int
  <2>1. \A r \in Received : r.serverTick \in Int /\ r.receivedAt \in Int
    BY ClientGameAssumption DEF Received
  <2> QED
    BY <1>1, <2>1
<1> DEFINE Good(n) == \A i \in 1 .. Len(h) : n \in 1 .. Len(h) /\ i <= n =>
                         /\ h[i].serverTick + (n - i) <= h[n].serverTick
                         /\ h[i].receivedAt <= h[n].receivedAt
           bad == {n \in 0 .. Len(h) : ~Good(n)}
<1>3. Good(0)
  BY <1>1
<1>4. ASSUME NEW n \in 1 .. Len(h), Good(n - 1)
      PROVE  Good(n)
  <2> TAKE i \in 1 .. Len(h)
  <2> HAVE n \in 1 .. Len(h) /\ i <= n
  <2>1. CASE i = n
    <3>1. h[n].serverTick \in Int /\ h[n].receivedAt \in Int /\ n - i = 0
      BY <1>1, <1>2, <2>1
    <3> QED
      BY <2>1, <3>1
  <2>2. CASE i < n
    <3>1. n - 1 \in 1 .. Len(h) /\ i <= n - 1 /\ n \in 2 .. Len(h) /\ n \in Nat /\ i \in Nat
      BY <1>1, <2>2
    <3>2. /\ h[i].serverTick + (n - 1 - i) <= h[n - 1].serverTick
          /\ h[i].receivedAt <= h[n - 1].receivedAt
      BY <1>4, <3>1
    <3>3. h[n - 1].serverTick < h[n].serverTick /\ h[n - 1].receivedAt <= h[n].receivedAt
      BY <3>1 DEF Timed
    <3>4. /\ h[i].serverTick \in Int /\ h[n - 1].serverTick \in Int /\ h[n].serverTick \in Int
          /\ h[i].receivedAt \in Int /\ h[n - 1].receivedAt \in Int /\ h[n].receivedAt \in Int
      <4> DEFINE k == n - 1
      <4>1. k \in 1 .. Len(h)
        BY <3>1
      <4>2. h[k].serverTick \in Int /\ h[k].receivedAt \in Int
        <5> HIDE DEF k
        <5> QED
          BY <1>2, <4>1
      <4>3. /\ h[i].serverTick \in Int /\ h[i].receivedAt \in Int
            /\ h[n].serverTick \in Int /\ h[n].receivedAt \in Int
        BY <1>2
      <4> QED
        BY <4>2, <4>3
    <3> DEFINE a == h[i].serverTick
               b == h[n - 1].serverTick
               c == h[n].serverTick
               early == h[i].receivedAt
               late == h[n - 1].receivedAt
               last == h[n].receivedAt
    <3>5. a \in Int /\ b \in Int /\ c \in Int /\ a + (n - 1 - i) <= b /\ b < c
      BY <3>2, <3>3, <3>4
    <3>6. /\ early \in Int /\ late \in Int /\ last \in Int
          /\ early <= late /\ late <= last
      BY <3>2, <3>3, <3>4
    <3> HIDE DEF a, b, c, early, late, last
    <3>7. a + (n - i) <= c
      BY <3>1, <3>5
    <3>8. early <= last
      BY <3>6
    <3> QED
      BY <3>7, <3>8 DEF a, c, early, last
  <2> QED
    BY <1>1, <2>1, <2>2
<1> HIDE DEF Good
<1>5. bad = {}
  <2> SUFFICES ASSUME bad # {} PROVE FALSE
    OBVIOUS
  <2>1. bad \in SUBSET Nat
    BY <1>1
  <2>2. PICK least \in bad : \A n \in bad : least <= n
    <3> HIDE DEF bad
    <3> QED
      BY <2>1, LeastElement
  <2>3. least \in 1 .. Len(h)
    BY <1>1, <1>3, <2>2
  <2>4. least - 1 \in 0 .. Len(h) /\ least - 1 \notin bad
    BY <1>1, <2>2, <2>3
  <2> QED
    BY <1>4, <2>2, <2>3, <2>4
<1>6. \A n \in 0 .. Len(h) : Good(n)
  BY <1>5
<1>7. \A r \in Received : r.serverTick \in 1 .. MaxTime /\ r.receivedAt \in 0 .. MaxTime
  BY DEF Received
<1>8. \A i \in 1 .. Len(h) :
         h[i].serverTick \in 1 .. MaxTime /\ h[i].receivedAt \in 0 .. MaxTime
  BY <1>1, <1>7
<1> QED
  BY <1>1, <1>6, <1>8 DEF Good

\* A picture between two snapshots of the history is between their ticks.
LEMMA BetweenTicks ==
  ASSUME NEW h, Timed(h), now \in 0 .. MaxTime, NEW i \in 2 .. Len(h),
         h[i - 1].receivedAt <= now - Delay, now - Delay <= h[i].receivedAt
  PROVE  LET between == Between(h[i - 1], h[i])
         IN  /\ between \in Moment
             /\ NotBefore(between, AtTick(h[i - 1].serverTick))
             /\ NotBefore(AtTick(h[i].serverTick), between)
<1> DEFINE p == h[i - 1]
           n == h[i]
           interval == n.receivedAt - p.receivedAt
           gone == now - Delay - p.receivedAt
<1>1. Len(h) \in Nat
  BY TimedOrder
<1>2. i \in 1 .. Len(h) /\ i - 1 \in 1 .. Len(h)
  BY <1>1
<1>3. /\ p.serverTick \in 1 .. MaxTime /\ n.serverTick \in 1 .. MaxTime
      /\ p.receivedAt \in 0 .. MaxTime /\ n.receivedAt \in 0 .. MaxTime
  BY <1>2, TimedOrder
<1>4. p.serverTick < n.serverTick /\ p.receivedAt <= n.receivedAt
  BY DEF Timed
<1>5. p.receivedAt <= now - Delay /\ now - Delay <= n.receivedAt
  OBVIOUS
<1>6. MaxTime \in Nat /\ Delay \in Nat
  BY ClientGameAssumption
<1> HIDE DEF p, n
<1>7. CASE interval = 0
  <2>1. Between(p, n) = AtTick(n.serverTick)
    BY <1>7 DEF Between, AtTick
  <2>2. /\ p.serverTick \in 0 .. MaxTime /\ n.serverTick \in 0 .. MaxTime
        /\ p.serverTick <= n.serverTick /\ n.serverTick <= n.serverTick
    BY <1>3, <1>4, <1>6
  <2> QED
    BY <2>1, <2>2, TicksInOrder DEF p, n
<1>8. CASE interval # 0
  <2>1. Between(p, n) = [tick |-> p.serverTick,
                         part |-> (n.serverTick - p.serverTick) * gone, of |-> interval]
    BY <1>8 DEF Between
  <2>2. /\ p.serverTick \in 0 .. MaxTime /\ n.serverTick \in 0 .. MaxTime
        /\ p.serverTick <= n.serverTick
        /\ interval \in Nat \ {0} /\ gone \in 0 .. interval
    <3>1. /\ p.serverTick \in Nat /\ 1 <= p.serverTick /\ p.serverTick <= MaxTime
          /\ n.serverTick \in Nat /\ 1 <= n.serverTick /\ n.serverTick <= MaxTime
      BY <1>3, <1>6
    <3>2. /\ p.serverTick \in 0 .. MaxTime /\ n.serverTick \in 0 .. MaxTime
          /\ p.serverTick <= n.serverTick
      BY <1>4, <1>6, <3>1
    <3>3. p.receivedAt \in Nat /\ n.receivedAt \in Nat /\ now - Delay \in Int
      BY <1>3, <1>6
    <3>4. interval \in Nat /\ interval # 0
      BY <1>4, <1>8, <3>3
    <3>5. gone \in Int /\ 0 <= gone /\ gone <= interval
      BY <1>5, <3>3
    <3> HIDE DEF interval, gone
    <3> QED
      BY <3>2, <3>4, <3>5
  <2> HIDE DEF interval, gone
  <2> QED
    BY <2>1, <2>2, MomentsBetween DEF p, n
<1> QED
  BY <1>7, <1>8

\* Ticks of the history from a snapshot on are not before what is not after it.
LEMMA TicksNotBefore ==
  ASSUME NEW h, Timed(h), now \in 0 .. MaxTime, NEW picture \in Moment,
         NEW i \in 1 .. Len(h), NEW j \in 1 .. Len(h), i <= j,
         NotBefore(AtTick(h[i].serverTick), picture)
  PROVE  NotBefore(AtTick(h[j].serverTick), picture)
<1>1. Len(h) \in Nat /\ j \in 0 .. Len(h)
  BY TimedOrder
<1>2. h[i].serverTick + (j - i) <= h[j].serverTick
  BY <1>1, TimedOrder
<1>3. h[i].serverTick \in 1 .. MaxTime /\ h[j].serverTick \in 1 .. MaxTime
  BY TimedOrder
<1>4. /\ h[i].serverTick \in 0 .. MaxTime /\ h[j].serverTick \in 0 .. MaxTime
      /\ h[i].serverTick <= h[j].serverTick
  BY <1>1, <1>2, <1>3, ClientGameAssumption
<1>5. /\ AtTick(h[i].serverTick) \in Moment /\ AtTick(h[j].serverTick) \in Moment
      /\ NotBefore(AtTick(h[j].serverTick), AtTick(h[i].serverTick))
  <2>1. h[j].serverTick <= h[j].serverTick
    BY <1>3
  <2> QED
    BY <1>4, <2>1, TicksInOrder
<1> QED
  BY <1>5, NotBeforeTransitive

\* Everything is ahead of those who have no moment yet.
LEMMA AheadOfNothing ==
  ASSUME NEW h, Timed(h), now \in 0 .. MaxTime
  PROVE  Ahead(NoMoment, h)
<1>1. /\ Len(h) \in Nat /\ h # <<>> => Len(h) \in 1 .. Len(h) /\ 1 \in 1 .. Len(h)
      /\ \A i \in 2 .. Len(h) : i \in 1 .. Len(h)
  <2>1. Len(h) \in Nat /\ (h # <<>> => Len(h) # 0)
    BY TimedOrder DEF Timed
  <2> QED
    BY <2>1
<1>2. \A i \in 1 .. Len(h) : NotBefore(AtTick(h[i].serverTick), NoMoment)
  <2> TAKE i \in 1 .. Len(h)
  <2>1. h[i].serverTick \in 0 .. MaxTime
    BY TimedOrder, ClientGameAssumption
  <2> QED
    BY <2>1, AtTickSound, NotBeforeNothing
<1>3. ASSUME NEW i \in 2 .. Len(h),
             h[i - 1].receivedAt <= now - Delay, now - Delay <= h[i].receivedAt
      PROVE  NotBefore(Between(h[i - 1], h[i]), NoMoment)
  BY <1>3, BetweenTicks, NotBeforeNothing
<1> QED
  BY <1>1, <1>2, <1>3 DEF Ahead

\* The picture that is selected is followed by every one that can come next,
\* and comes no earlier than those before it allow.
LEMMA PictureSelected ==
  ASSUME NEW h, Timed(h), now \in 0 .. MaxTime, Selectable(h) # {}
  PROVE  LET next == Min(Selectable(h))
             between == Between(h[next - 1], h[next])
         IN  /\ between \in Moment
             /\ Ahead(between, h)
             /\ \A picture \in Moment : Ahead(picture, h) => NotBefore(between, picture)
<1> DEFINE next == Min(Selectable(h))
           between == Between(h[next - 1], h[next])
<1>1. Len(h) \in Nat /\ now - Delay \in Int
  BY TimedOrder, ClientGameAssumption
<1>2. Selectable(h) \in SUBSET Nat
  BY <1>1 DEF Selectable
<1>3. next \in Selectable(h) /\ \A i \in Selectable(h) : next <= i
  BY <1>2, MinIsLeast
<1> HIDE DEF next
<1>4. /\ next \in 2 .. Len(h) /\ h[next - 1].receivedAt <= now - Delay
      /\ now - Delay <= h[next].receivedAt
  BY <1>3 DEF Selectable
<1>5. next \in 1 .. Len(h) /\ next - 1 \in 1 .. Len(h) /\ 1 \in 1 .. Len(h) /\ next \in 0 .. Len(h)
      /\ Len(h) \in 1 .. Len(h)
  BY <1>1, <1>4
<1>6. \A i \in 1 .. Len(h) : h[i].receivedAt \in Int /\ h[i].serverTick \in 0 .. MaxTime
  BY TimedOrder, ClientGameAssumption
<1>7. /\ between \in Moment
      /\ NotBefore(between, AtTick(h[next - 1].serverTick))
      /\ NotBefore(AtTick(h[next].serverTick), between)
  BY <1>4, BetweenTicks
<1>8. ASSUME NEW i \in 2 .. Len(h), now - Delay <= h[i].receivedAt
      PROVE  next <= i
  <2> SUFFICES ASSUME i < next PROVE FALSE
    BY <1>1, <1>4
  <2>1. i \in 1 .. Len(h) /\ i <= next - 1 /\ next - 1 \in 0 .. Len(h) /\ i - 1 \in 1 .. Len(h)
    BY <1>1, <1>4
  <2>2. h[i].receivedAt <= h[next - 1].receivedAt
    BY <1>5, <2>1, TimedOrder
  <2>3. h[i - 1].receivedAt <= h[i].receivedAt
    BY DEF Timed
  <2>4. h[i - 1].receivedAt <= now - Delay
    BY <1>1, <1>4, <1>5, <1>6, <2>1, <2>2, <2>3
  <2>5. i \in Selectable(h)
    BY <2>4, <1>8 DEF Selectable
  <2> QED
    BY <1>1, <1>3, <1>4, <2>5
<1>9. ASSUME NEW i \in 1 .. Len(h), next <= i
      PROVE  NotBefore(AtTick(h[i].serverTick), between)
  BY <1>5, <1>7, <1>9, TicksNotBefore
<1> HIDE DEF between
<1>10. Ahead(between, h)
  <2>1. h # <<>> /\ ~(now - Delay < h[1].receivedAt)
    <3>1. 1 <= next - 1 /\ next - 1 \in 0 .. Len(h)
      BY <1>1, <1>4
    <3>2. h[1].receivedAt <= h[next - 1].receivedAt
      BY <1>5, <3>1, TimedOrder
    <3> QED
      BY <1>1, <1>4, <1>5, <1>6, <3>2
  <2>2. ASSUME NEW i \in 2 .. Len(h), now - Delay <= h[i].receivedAt
        PROVE  NotBefore(AtTick(h[i].serverTick), between)
    <3>1. i \in 1 .. Len(h)
      BY <1>1
    <3> QED
      BY <1>8, <1>9, <2>2, <3>1
  <2>3. ASSUME NEW i \in 2 .. Len(h),
               h[i - 1].receivedAt <= now - Delay, now - Delay <= h[i].receivedAt
        PROVE  NotBefore(Between(h[i - 1], h[i]), between)
    <3>1. next <= i
      BY <1>8, <2>3
    <3>2. CASE i = next
      BY <1>7, <3>2, NotBeforeReflexive DEF between
    <3>3. CASE i # next
      <4>1. next <= i - 1 /\ i - 1 \in 1 .. Len(h)
        BY <1>1, <1>4, <3>1, <3>3
      <4>2. NotBefore(AtTick(h[i - 1].serverTick), between)
        BY <1>9, <4>1
      <4>3. /\ Between(h[i - 1], h[i]) \in Moment
            /\ NotBefore(Between(h[i - 1], h[i]), AtTick(h[i - 1].serverTick))
        BY <2>3, BetweenTicks
      <4>4. AtTick(h[i - 1].serverTick) \in Moment
        <5>1. h[i - 1].serverTick \in 0 .. MaxTime /\ h[i - 1].serverTick <= h[i - 1].serverTick
          BY <1>6, <4>1, ClientGameAssumption
        <5> QED
          BY <5>1, TicksInOrder
      <4> QED
        BY <1>7, <4>2, <4>3, <4>4, NotBeforeTransitive
    <3> QED
      BY <3>2, <3>3
  <2>4. NotBefore(AtTick(h[Len(h)].serverTick), between)
    BY <1>1, <1>4, <1>5, <1>9
  <2> QED
    BY <2>1, <2>2, <2>3, <2>4 DEF Ahead
<1>11. ASSUME NEW picture \in Moment, Ahead(picture, h)
       PROVE  NotBefore(between, picture)
  <2>1. CASE h[next - 1].receivedAt < h[next].receivedAt
    BY <1>4, <1>11, <2>1 DEF Ahead, between
  <2>2. CASE ~(h[next - 1].receivedAt < h[next].receivedAt)
    <3>1. h[next].receivedAt - h[next - 1].receivedAt = 0
      <4>1. h[next - 1].receivedAt <= h[next].receivedAt
        BY <1>4 DEF Timed
      <4>2. h[next - 1].receivedAt \in Int /\ h[next].receivedAt \in Int
        BY <1>5, <1>6
      <4> QED
        BY <2>2, <4>1, <4>2
    <3>2. between = AtTick(h[next].serverTick)
      BY <3>1 DEF between, Between, AtTick
    <3> QED
      BY <1>4, <1>11, <3>2 DEF Ahead
  <2> QED
    BY <2>1, <2>2
<1> QED
  BY <1>7, <1>10, <1>11 DEF between, next

\* Between of a time that is given, for one that comes next.
LEMMA BetweenGrows ==
  ASSUME Timed(client.history), now \in 0 .. MaxTime, now' = now + 1, client' = client,
         NEW i \in 2 .. Len(client.history),
         client.history[i - 1].receivedAt <= now - Delay,
         now' - Delay <= client.history[i].receivedAt
  PROVE  /\ Between(client.history[i - 1], client.history[i]) \in Moment
         /\ Between(client.history[i - 1], client.history[i])' \in Moment
         /\ NotBefore(Between(client.history[i - 1], client.history[i])',
                      Between(client.history[i - 1], client.history[i]))
<1> DEFINE h == client.history
           p == h[i - 1]
           n == h[i]
           interval == n.receivedAt - p.receivedAt
           gone == now - Delay - p.receivedAt
<1>1. Len(h) \in Nat
  BY TimedOrder
<1>2. i \in 1 .. Len(h) /\ i - 1 \in 1 .. Len(h)
  BY <1>1
<1>3. /\ p.serverTick \in 1 .. MaxTime /\ n.serverTick \in 1 .. MaxTime
      /\ p.receivedAt \in 0 .. MaxTime /\ n.receivedAt \in 0 .. MaxTime
  BY <1>2, TimedOrder
<1>4. p.serverTick < n.serverTick
  BY DEF Timed
<1>5. MaxTime \in Nat /\ Delay \in Nat
  BY ClientGameAssumption
<1>6. p.receivedAt <= now - Delay /\ now + 1 - Delay <= n.receivedAt
  BY <1>5
<1>7. /\ interval \in Nat \ {0} /\ gone \in 0 .. interval /\ gone + 1 \in gone .. interval
      /\ gone + 1 \in 0 .. interval /\ interval # 0
  <2> DEFINE first == p.receivedAt
             second == n.receivedAt
  <2>1. first \in Nat /\ second \in Nat /\ first <= now - Delay /\ now + 1 - Delay <= second
    BY <1>3, <1>6
  <2> HIDE DEF first, second
  <2>2. /\ second - first \in Nat /\ second - first > 0
        /\ now - Delay - first \in Nat /\ now - Delay - first + 1 <= second - first
    BY <1>5, <2>1
  <2> QED
    BY <2>2 DEF first, second
<1>8. Between(p, n) = [tick |-> p.serverTick,
                       part |-> (n.serverTick - p.serverTick) * gone, of |-> interval]
  BY <1>7 DEF Between
<1>9. Between(p, n)' = [tick |-> p.serverTick,
                        part |-> (n.serverTick - p.serverTick) * (gone + 1), of |-> interval]
  <2>1. Between(p, n)' = [tick |-> p.serverTick,
                  part |-> (n.serverTick - p.serverTick) * (now' - Delay - p.receivedAt),
                  of |-> interval]
    BY <1>7 DEF Between
  <2>2. now' - Delay - p.receivedAt = gone + 1
    <3> DEFINE r == p.receivedAt
               later == now'
    <3>1. r \in Int /\ later = now + 1 /\ now \in Int
      BY <1>3, <1>5
    <3> HIDE DEF r, later
    <3>2. later - Delay - r = now - Delay - r + 1
      BY <1>5, <3>1
    <3> QED
      BY <3>2, Zenon DEF r, later
  <2> QED
    BY <2>1, <2>2
<1>10. /\ p.serverTick \in 0 .. MaxTime /\ n.serverTick \in 0 .. MaxTime
       /\ p.serverTick <= n.serverTick
  BY <1>3, <1>4, <1>5
<1> HIDE DEF interval, gone, p, n
<1>11. /\ Between(p, n) \in Moment /\ Between(p, n)' \in Moment
       /\ NotBefore(Between(p, n)', Between(p, n))
  BY <1>7, <1>8, <1>9, <1>10, MomentsBetween
<1> QED
  BY <1>11 DEF p, n

\* The time that passes only brings the next picture forward.
LEMMA AheadLater ==
  ASSUME Timed(client.history), now \in 0 .. MaxTime, now' \in 0 .. MaxTime,
         NEW p \in Players, client.smoothed[p] \in Moment,
         Ahead(client.smoothed[p], client.history),
         now' = now + 1, client' = client
  PROVE  Ahead(client.smoothed[p], client.history)'
<1> DEFINE h == client.history
           picture == client.smoothed[p]
<1>1. Len(h) \in Nat /\ Delay \in Nat /\ MaxTime \in Nat
  BY TimedOrder, ClientGameAssumption
<1>2. \A i \in 1 .. Len(h) : h[i].receivedAt \in Int /\ h[i].serverTick \in 0 .. MaxTime
  BY TimedOrder, ClientGameAssumption
<1>3. h' = h /\ picture' = picture
  OBVIOUS
<1>4. /\ h = <<>> => picture = NoMoment
      /\ h # <<>> => NotBefore(AtTick(h[Len(h)].serverTick), picture)
      /\ h # <<>> /\ now - Delay < h[1].receivedAt =>
            NotBefore(AtTick(h[1].serverTick), picture)
      /\ \A i \in 2 .. Len(h) :
            now - Delay <= h[i].receivedAt => NotBefore(AtTick(h[i].serverTick), picture)
      /\ \A i \in 2 .. Len(h) :
            /\ h[i - 1].receivedAt <= now - Delay /\ now - Delay <= h[i].receivedAt
            /\ h[i - 1].receivedAt < h[i].receivedAt
            => NotBefore(Between(h[i - 1], h[i]), picture)
  BY DEF Ahead
<1>6. now - Delay \in Int /\ now' - Delay = now - Delay + 1
  BY <1>1
<1>7. ASSUME h # <<>>, now' - Delay < h[1].receivedAt
      PROVE  NotBefore(AtTick(h[1].serverTick), picture)
  <2>1. 1 \in 1 .. Len(h)
    BY <1>1, <1>7 DEF Timed
  <2>2. now - Delay < h[1].receivedAt
    BY <1>2, <1>6, <1>7, <2>1
  <2> QED
    BY <1>4, <1>7, <2>2
<1>8. ASSUME NEW i \in 2 .. Len(h), now' - Delay <= h[i].receivedAt
      PROVE  NotBefore(AtTick(h[i].serverTick), picture)
  <2>1. i \in 1 .. Len(h)
    BY <1>1
  <2>2. now - Delay <= h[i].receivedAt
    BY <1>2, <1>6, <1>8, <2>1
  <2> QED
    BY <1>4, <2>2
<1>9. ASSUME NEW i \in 2 .. Len(h), h[i - 1].receivedAt <= now' - Delay,
             now' - Delay <= h[i].receivedAt, h[i - 1].receivedAt < h[i].receivedAt
      PROVE  NotBefore(Between(h[i - 1], h[i])', picture)
  <2>1. i \in 1 .. Len(h) /\ i - 1 \in 1 .. Len(h)
    BY <1>1
  <2>2. CASE h[i - 1].receivedAt <= now - Delay
    <3>1. now - Delay <= h[i].receivedAt
      BY <1>2, <1>6, <1>9, <2>1
    <3>2. NotBefore(Between(h[i - 1], h[i]), picture)
      BY <1>4, <1>9, <2>2, <3>1
    <3>3. /\ Between(h[i - 1], h[i]) \in Moment
          /\ Between(h[i - 1], h[i])' \in Moment
          /\ NotBefore(Between(h[i - 1], h[i])', Between(h[i - 1], h[i]))
      BY <1>9, <2>2, BetweenGrows
    <3> DEFINE b == Between(h[i - 1], h[i])
               d == Between(h[i - 1], h[i])'
    <3> HIDE DEF b, d
    <3>4. NotBefore(d, picture)
      <4>1. b \in Moment /\ d \in Moment /\ NotBefore(d, b) /\ NotBefore(b, picture)
        BY <3>2, <3>3 DEF b, d
      <4> QED
        BY <4>1, NotBeforeTransitive
    <3> QED
      BY <3>4 DEF d
  <2>3. CASE ~(h[i - 1].receivedAt <= now - Delay)
    <3>1. h[i - 1].receivedAt = now' - Delay
      <4> DEFINE r == h[i - 1].receivedAt
                 t == now - Delay
      <4>1. r \in Int /\ t \in Int /\ now' - Delay = t + 1 /\ r <= now' - Delay /\ ~(r <= t)
        BY <1>2, <1>6, <1>9, <2>1, <2>3
      <4> HIDE DEF r, t
      <4>2. r = t + 1
        BY <4>1
      <4> QED
        BY <4>1, <4>2 DEF r
    <3>3. NotBefore(AtTick(h[i - 1].serverTick), picture)
      <4>1. CASE i - 1 \in 2 .. Len(h)
        BY <1>6, <1>8, <3>1, <4>1
      <4>2. CASE i = 2
        <5>1. h # <<>> /\ now - Delay < h[1].receivedAt
          BY <1>1, <1>2, <1>6, <2>1, <2>3, <4>2
        <5> QED
          BY <1>4, <4>2, <5>1
      <4> QED
        BY <1>1, <2>1, <4>1, <4>2
    <3> DEFINE tick == h[i - 1].serverTick
               next == h[i].serverTick
               interval == h[i].receivedAt - h[i - 1].receivedAt
               moment == [tick |-> tick, part |-> (next - tick) * 0, of |-> interval]
    <3>4. /\ interval \in Nat \ {0} /\ 0 \in 0 .. interval
          /\ now' - Delay - h[i - 1].receivedAt = 0
      BY <1>2, <1>6, <1>9, <2>1, <3>1
    <3>5. Between(h[i - 1], h[i])' = moment
      <4>1. Between(h[i - 1], h[i])' =
               [tick |-> tick, part |-> (next - tick) * (now' - Delay - h[i - 1].receivedAt),
                of |-> interval]
        BY <3>4 DEF Between
      <4> QED
        BY <3>4, <4>1
    <3>6. /\ tick \in 0 .. MaxTime /\ next \in 0 .. MaxTime /\ tick <= next /\ tick <= tick
      <4>1. tick < next
        BY DEF Timed
      <4> QED
        BY <1>1, <1>2, <2>1, <4>1
    <3> HIDE DEF tick, next, interval
    <3>7. moment \in Moment /\ NotBefore(moment, AtTick(tick))
      BY <3>4, <3>6, MomentsBetween
    <3>8. AtTick(tick) \in Moment /\ NotBefore(AtTick(tick), picture)
      BY <3>3, <3>6, TicksInOrder DEF tick
    <3> HIDE DEF moment
    <3>9. NotBefore(moment, picture)
      BY <3>7, <3>8, NotBeforeTransitive
    <3> QED
      BY <3>5, <3>9
  <2> QED
    BY <2>2, <2>3
<1> QED
  BY <1>3, <1>4, <1>7, <1>8, <1>9 DEF Ahead

\* A history that takes a snapshot is the one before, without its oldest when it
\* was full, and the snapshot at the end.
LEMMA TrimmedAppend ==
  ASSUME NEW old \in Seq(Received), Len(old) <= HistorySize, NEW e \in Received
  PROVE  LET h == Trimmed(Append(old, e))
         IN  \E shift \in {0, 1} :
                /\ h \in Seq(Received) /\ Len(h) = Len(old) + 1 - shift
                /\ \A i \in 1 .. Len(old) - shift : h[i] = old[i + shift]
                /\ h[Len(old) + 1 - shift] = e
                /\ shift = 1 => Len(old) = HistorySize
<1> DEFINE g == Append(old, e)
           h == Trimmed(g)
<1>1. /\ g \in Seq(Received) /\ Len(g) = Len(old) + 1 /\ Len(old) \in Nat
      /\ \A i \in 1 .. Len(old) : g[i] = old[i]
      /\ g[Len(old) + 1] = e
  BY AppendProperties
<1>2. HistorySize \in Nat /\ HistorySize >= 1
  BY ClientGameAssumption
<1> HIDE DEF g
<1>3. CASE Len(g) <= HistorySize
  <2>1. h = g
    BY <1>1, <1>2, <1>3 DEF Trimmed
  <2>2. /\ h \in Seq(Received) /\ Len(h) = Len(old) + 1 - 0
        /\ \A i \in 1 .. Len(old) - 0 : h[i] = old[i + 0]
        /\ h[Len(old) + 1 - 0] = e
    BY <1>1, <2>1
  <2> QED
    BY <2>2 DEF h, g
<1>4. CASE ~(Len(g) <= HistorySize)
  <2>1. h = Tail(g) /\ Len(old) = HistorySize
    BY <1>1, <1>2, <1>4 DEF Trimmed
  <2>2. g # <<>>
    BY <1>1
  <2>3. /\ h \in Seq(Received) /\ Len(h) = Len(g) - 1
        /\ \A i \in 1 .. Len(h) : h[i] = g[i + 1]
    BY <1>1, <2>1, <2>2, HeadTailProperties
  <2> HIDE DEF h
  <2>4. /\ Len(h) = Len(old) + 1 - 1
        /\ \A i \in 1 .. Len(old) - 1 : h[i] = old[i + 1]
        /\ h[Len(old) + 1 - 1] = e
    <3>1. Len(h) = Len(old) /\ Len(old) \in 1 .. Len(h)
      BY <1>1, <1>2, <2>1, <2>3
    <3> QED
      BY <1>1, <2>3, <3>1
  <2> QED
    BY <2>1, <2>3, <2>4 DEF h, g
<1> QED
  BY <1>3, <1>4

\* A newer snapshot leaves the history timed, and what it has in store ahead,
\* also when its oldest is dropped.
LEMMA AheadGrows ==
  ASSUME NEW old, Timed(old), Len(old) <= HistorySize, now \in 0 .. MaxTime,
         NEW tick \in 1 .. MaxTime, NEW players \in SUBSET Players,
         old # <<>> => tick > old[Len(old)].serverTick
  PROVE  LET h == Trimmed(Append(old, [serverTick |-> tick, players |-> players,
                                       receivedAt |-> now]))
         IN  /\ Timed(h)
             /\ \A picture \in Moment : Ahead(picture, old) =>
                   Ahead(picture, h) /\ NotBefore(AtTick(tick), picture)
<1> DEFINE e == [serverTick |-> tick, players |-> players, receivedAt |-> now]
           h == Trimmed(Append(old, e))
<1>1. e \in Received /\ e.serverTick = tick /\ e.receivedAt = now
  BY DEF Received
<1> HIDE DEF e
<1>2. old \in Seq(Received)
  BY DEF Timed
<1>3. PICK shift \in {0, 1} :
         /\ h \in Seq(Received) /\ Len(h) = Len(old) + 1 - shift
         /\ \A i \in 1 .. Len(old) - shift : h[i] = old[i + shift]
         /\ h[Len(old) + 1 - shift] = e
         /\ shift = 1 => Len(old) = HistorySize
  BY <1>1, <1>2, TrimmedAppend
<1> HIDE DEF h
<1>4. /\ Len(old) \in Nat /\ shift \in Nat /\ shift <= 1
      /\ \A i \in 1 .. Len(old) :
            /\ old[i].serverTick \in 1 .. MaxTime /\ old[i].receivedAt \in 0 .. MaxTime
  BY TimedOrder
<1>5. HistorySize \in Nat /\ HistorySize >= 1 /\ Delay \in Nat /\ MaxTime \in Nat
  BY ClientGameAssumption
<1>6. \A i \in 1 .. Len(h) :
         \/ i \in 1 .. Len(old) - shift /\ i + shift \in 1 .. Len(old) /\ h[i] = old[i + shift]
         \/ i = Len(old) + 1 - shift /\ h[i] = e
  <2> TAKE i \in 1 .. Len(h)
  <2>1. i \in 1 .. Len(old) - shift \/ i = Len(old) + 1 - shift
    BY <1>3, <1>4
  <2>2. i \in 1 .. Len(old) - shift => i + shift \in 1 .. Len(old)
    BY <1>4
  <2> QED
    BY <1>3, <2>1, <2>2
<1>7. ASSUME NEW i \in 2 .. Len(h)
      PROVE  /\ i - 1 \in 1 .. Len(old) - shift /\ (i - 1) + shift \in 1 .. Len(old)
             /\ h[i - 1] = old[(i - 1) + shift] /\ i \in 1 .. Len(h)
  <2> DEFINE k == i - 1
  <2>1. k \in 1 .. Len(old) - shift /\ i \in 1 .. Len(h)
    BY <1>3, <1>4
  <2> HIDE DEF k
  <2>2. k + shift \in 1 .. Len(old) /\ h[k] = old[k + shift]
    BY <1>3, <1>4, <2>1
  <2> QED
    BY <2>1, <2>2 DEF k
<1>8. Timed(h)
  <2>1. ASSUME NEW i \in 2 .. Len(h)
        PROVE  /\ h[i - 1].serverTick < h[i].serverTick
               /\ h[i - 1].receivedAt <= h[i].receivedAt
    <3>1. /\ i - 1 \in 1 .. Len(old) - shift /\ (i - 1) + shift \in 1 .. Len(old)
          /\ h[i - 1] = old[(i - 1) + shift] /\ i \in 1 .. Len(h)
      BY <1>7
    <3>2. CASE i \in 1 .. Len(old) - shift /\ i + shift \in 1 .. Len(old) /\ h[i] = old[i + shift]
      <4>1. i + shift \in 2 .. Len(old) /\ (i + shift) - 1 = (i - 1) + shift
        BY <1>4, <3>2
      <4> QED
        BY <3>1, <3>2, <4>1 DEF Timed
    <3>3. CASE i = Len(old) + 1 - shift /\ h[i] = e
      <4>1. (i - 1) + shift = Len(old) /\ old # <<>> /\ Len(old) \in 1 .. Len(old)
        BY <1>4, <3>1, <3>3
      <4>2. old[Len(old)].serverTick < tick /\ old[Len(old)].receivedAt <= now
        BY <1>4, <4>1 DEF Timed
      <4> QED
        BY <1>1, <3>1, <3>3, <4>1, <4>2
    <3> QED
      BY <1>6, <3>1, <3>2, <3>3
  <2>2. ASSUME NEW i \in 1 .. Len(h)
        PROVE  h[i].receivedAt <= now
    <3>1. CASE i \in 1 .. Len(old) - shift /\ i + shift \in 1 .. Len(old) /\ h[i] = old[i + shift]
      BY <3>1 DEF Timed
    <3>2. CASE i = Len(old) + 1 - shift /\ h[i] = e
      <4>1. now <= now
        BY <1>5
      <4> QED
        BY <1>1, <3>2, <4>1
    <3> QED
      BY <1>6, <3>1, <3>2
  <2> QED
    BY <1>3, <2>1, <2>2 DEF Timed
<1>9. ASSUME NEW picture \in Moment, Ahead(picture, old)
      PROVE  Ahead(picture, h) /\ NotBefore(AtTick(tick), picture)
  <2>1. /\ old = <<>> => picture = NoMoment
        /\ old # <<>> => NotBefore(AtTick(old[Len(old)].serverTick), picture)
        /\ old # <<>> /\ now - Delay < old[1].receivedAt =>
              NotBefore(AtTick(old[1].serverTick), picture)
        /\ \A i \in 2 .. Len(old) :
              now - Delay <= old[i].receivedAt => NotBefore(AtTick(old[i].serverTick), picture)
        /\ \A i \in 2 .. Len(old) :
              /\ old[i - 1].receivedAt <= now - Delay /\ now - Delay <= old[i].receivedAt
              /\ old[i - 1].receivedAt < old[i].receivedAt
              => NotBefore(Between(old[i - 1], old[i]), picture)
    BY <1>9 DEF Ahead
  <2>2. tick \in 0 .. MaxTime /\ AtTick(tick) \in Moment
    BY <1>5, AtTickSound
  <2>3. CASE old = <<>>
    BY <1>8, <2>1, <2>2, <2>3, AheadOfNothing, NotBeforeNothing
  <2>4. CASE old # <<>>
    <3> USE <2>4
    <3>1. Len(old) \in 1 .. Len(old) /\ 1 \in 1 .. Len(old)
      <4>1. Len(old) # 0
        BY <1>2, <2>4
      <4> QED
        BY <1>4, <4>1
    <3>2. /\ Len(h) \in Nat /\ Len(h) >= 1 /\ h[Len(h)] = e
          /\ h # <<>> /\ 1 \in 1 .. Len(h) /\ Len(h) \in 1 .. Len(h)
      BY <1>1, <1>3, <1>4, <3>1
    <3>3. ASSUME NEW from \in 1 .. Len(h)
          PROVE  h[from].serverTick \in 0 .. MaxTime /\ h[from].receivedAt \in 0 .. MaxTime
      BY <1>5, <1>8, TimedOrder
    <3>4. NotBefore(AtTick(tick), picture)
      <4> DEFINE last == old[Len(old)].serverTick
      <4>1. last \in 0 .. MaxTime /\ last <= tick
        BY <1>4, <1>5, <3>1
      <4>2. NotBefore(AtTick(last), picture)
        BY <2>1
      <4> HIDE DEF last
      <4>3. AtTick(last) \in Moment /\ NotBefore(AtTick(tick), AtTick(last))
        BY <2>2, <4>1, TicksInOrder
      <4> QED
        BY <2>2, <4>2, <4>3, NotBeforeTransitive
    <3>5. NotBefore(AtTick(h[Len(h)].serverTick), picture)
      BY <1>1, <3>2, <3>4
    <3>6. ASSUME now - Delay < h[1].receivedAt
          PROVE  NotBefore(AtTick(h[1].serverTick), picture)
      <4>1. CASE 1 \in 1 .. Len(old) - shift /\ 1 + shift \in 1 .. Len(old) /\ h[1] = old[1 + shift]
        <5>1. CASE shift = 0
          BY <2>1, <3>6, <4>1, <5>1
        <5>2. CASE shift = 1
          <6>1. 2 \in 2 .. Len(old) /\ h[1] = old[2] /\ 2 \in 1 .. Len(old)
            BY <1>4, <4>1, <5>2
          <6>2. now - Delay <= old[2].receivedAt
            BY <1>4, <1>5, <3>6, <6>1
          <6> QED
            BY <2>1, <6>1, <6>2
        <5> QED
          BY <5>1, <5>2
      <4>2. CASE h[1] = e
        BY <1>1, <3>4, <4>2
      <4> QED
        BY <1>6, <3>2, <4>1, <4>2
    <3>7. ASSUME NEW i \in 2 .. Len(h), now - Delay <= h[i].receivedAt
          PROVE  NotBefore(AtTick(h[i].serverTick), picture)
      <4>1. i \in 1 .. Len(h)
        BY <3>2
      <4>2. CASE i \in 1 .. Len(old) - shift /\ i + shift \in 1 .. Len(old) /\ h[i] = old[i + shift]
        <5>1. i + shift \in 2 .. Len(old)
          BY <1>4, <4>2
        <5> QED
          BY <2>1, <3>7, <4>2, <5>1
      <4>3. CASE i = Len(old) + 1 - shift /\ h[i] = e
        BY <1>3, <3>5, <4>3
      <4> QED
        BY <1>6, <4>1, <4>2, <4>3
    <3>8. ASSUME NEW i \in 2 .. Len(h), h[i - 1].receivedAt <= now - Delay,
                 now - Delay <= h[i].receivedAt, h[i - 1].receivedAt < h[i].receivedAt
          PROVE  NotBefore(Between(h[i - 1], h[i]), picture)
      <4>1. /\ i - 1 \in 1 .. Len(old) - shift /\ (i - 1) + shift \in 1 .. Len(old)
            /\ h[i - 1] = old[(i - 1) + shift] /\ i \in 1 .. Len(h)
        BY <1>7
      <4>2. CASE i \in 1 .. Len(old) - shift /\ i + shift \in 1 .. Len(old) /\ h[i] = old[i + shift]
        <5>1. i + shift \in 2 .. Len(old) /\ (i + shift) - 1 = (i - 1) + shift
          BY <1>4, <4>2
        <5>2. h[i - 1] = old[(i + shift) - 1] /\ h[i] = old[i + shift]
          BY <4>1, <4>2, <5>1
        <5> QED
          BY <2>1, <3>8, <5>1, <5>2
      <4>3. CASE i = Len(old) + 1 - shift /\ h[i] = e
        <5>1. h[i - 1] = old[Len(old)]
          BY <1>4, <4>1, <4>3
        <5> DEFINE b == Between(h[i - 1], h[i])
                   last == AtTick(h[i - 1].serverTick)
        <5>2. b \in Moment /\ NotBefore(b, last)
          BY <1>8, <3>8, BetweenTicks
        <5>3. last \in Moment
          <6>1. i - 1 \in 1 .. Len(h)
            BY <1>3, <1>4, <4>1
          <6>2. h[i - 1].serverTick \in 0 .. MaxTime /\ h[i - 1].serverTick <= h[i - 1].serverTick
            BY <1>5, <3>3, <6>1
          <6> QED
            BY <6>2, TicksInOrder
        <5>4. NotBefore(last, picture)
          BY <2>1, <5>1
        <5> HIDE DEF b, last
        <5>5. NotBefore(b, picture)
          BY <5>2, <5>3, <5>4, NotBeforeTransitive
        <5> QED
          BY <5>5 DEF b
      <4> QED
        BY <1>6, <4>1, <4>2, <4>3
    <3>9. Ahead(picture, h)
      BY <3>2, <3>5, <3>6, <3>7, <3>8 DEF Ahead
    <3> QED
      BY <3>4, <3>9
  <2> QED
    BY <2>3, <2>4
<1> QED
  BY <1>8, <1>9 DEF h, e

\* A player is drawn no earlier than a moment, and will not be.
Follows(c, p, moment) ==
    /\ Ahead(moment, c.history)
    /\ c.picture[p] # NoMoment => NotBefore(c.picture[p], moment)

\* Everyone follows those who have no moment yet.
LEMMA FollowsNothing ==
  ASSUME NEW c, Sound(c), now \in 0 .. MaxTime, NEW p \in Players
  PROVE  Follows(c, p, NoMoment)
<1>1. c.picture[p] \in Moment
  BY DEF Sound, ClientState
<1> QED
  BY <1>1, SoundTimed, AheadOfNothing, NotBeforeNothing DEF Follows

\* One message: an identity forgets what was drawn when, a snapshot leaves every
\* player after the moments it was after, or changes nothing.
LEMMA TakenFollows ==
  ASSUME NEW c, Sound(c), now \in 0 .. MaxTime, NEW message \in Message,
         NEW p \in Players, NEW moment \in Moment, Follows(c, p, moment),
         message = PlayerIdentity => moment = NoMoment
  PROVE  LET n == Take(c, message)
         IN  /\ Sound(n)
             /\ Follows(n, p, moment)
             /\ n.smoothed[p] \in {c.smoothed[p], NoMoment}
<1> DEFINE n == Take(c, message)
<1>1. CASE message = PlayerIdentity
  <2>1. n = HandlePlayerIdentity(c) /\ c \in ClientState
    BY <1>1 DEF Take, Sound
  <2>2. Sound(n) /\ n.smoothed = Nowhere
    <3>1. Sound(n)
      BY <2>1, IdentitySound
    <3>2. HandlePlayerIdentity(c).smoothed = Nowhere
      BY <2>1 DEF HandlePlayerIdentity, Reset, ClientState
    <3> QED
      BY <2>1, <3>1, <3>2
  <2>3. n.smoothed[p] = NoMoment
    BY <2>2 DEF Nowhere
  <2> QED
    BY <1>1, <2>2, <2>3, FollowsNothing
<1>2. CASE message # PlayerIdentity /\ ~IsNewer(c, message)
  <2>1. n = c
    BY <1>2 DEF Take, HandleWorldStateSnapshot
  <2> QED
    BY <2>1
<1>3. CASE message # PlayerIdentity /\ IsNewer(c, message)
  <2> DEFINE tick == message.serverTick
             players == message.players
             h == Trimmed(Append(c.history, [serverTick |-> tick, players |-> players,
                                             receivedAt |-> now]))
             picture == Put(Nowhere, players, AtTick(tick))
  <2>1. n = [c EXCEPT !.worldState = message, !.history = h, !.picture = picture]
    BY <1>3 DEF Take, HandleWorldStateSnapshot
  <2>2. tick \in 1 .. MaxTime /\ players \in SUBSET Players /\ message \in WorldStateSnapshot
    BY <1>3 DEF Message, WorldStateSnapshot
  <2>3. Sound(n)
    BY <1>3, <2>2, SnapshotSound DEF Take
  <2>4. c.history # <<>> => tick > c.history[Len(c.history)].serverTick
    <3>1. tick > c.worldState.serverTick
      BY <1>3 DEF IsNewer
    <3>2. c.history # <<>> => c.history[Len(c.history)].serverTick = c.worldState.serverTick
      BY DEF Sound, Orderly
    <3> QED
      BY <3>1, <3>2
  <2>5. Len(c.history) <= HistorySize /\ Timed(c.history) /\ Ahead(moment, c.history)
    BY SoundTimed DEF Sound, Orderly, Follows
  <2>6. Ahead(moment, h) /\ NotBefore(AtTick(tick), moment)
    BY <2>2, <2>4, <2>5, AheadGrows
  <2>7. picture[p] \in {AtTick(tick), NoMoment}
    BY DEF Put, Nowhere
  <2> HIDE DEF h, picture
  <2>8. n.history = h /\ n.picture = picture /\ n.smoothed = c.smoothed
    BY <2>1 DEF Sound, ClientState
  <2> HIDE DEF n
  <2>9. Follows(n, p, moment)
    BY <2>6, <2>7, <2>8 DEF Follows
  <2> QED
    BY <2>3, <2>8, <2>9 DEF n
<1> QED
  BY <1>1, <1>2, <1>3

\* Any number of messages at once.
LEMMA PolledFollows ==
  ASSUME NEW c, Sound(c), now \in 0 .. MaxTime, NEW messages \in Seq(Message),
         NEW p \in Players, NEW moment \in Moment, Follows(c, p, moment),
         c.smoothed[p] \in {moment, NoMoment},
         \A n \in 1 .. Len(messages) : messages[n] = PlayerIdentity => moment = NoMoment
  PROVE  LET polled == Polled(c, messages)
         IN  /\ Sound(polled)
             /\ Follows(polled, p, moment)
             /\ polled.smoothed[p] \in {moment, NoMoment}
<1>1. Len(messages) \in Nat
  OBVIOUS
<1>2. PICK f : /\ Polled(c, messages) = f[Len(messages)]
               /\ f[0] = c
               /\ \A n \in 1 .. Len(messages) : f[n] = Take(f[n - 1], messages[n])
  BY <1>1, PolledSteps
<1> DEFINE Good(n) == /\ Sound(f[n])
                      /\ Follows(f[n], p, moment)
                      /\ f[n].smoothed[p] \in {moment, NoMoment}
           bad == {n \in 0 .. Len(messages) : ~Good(n)}
<1>3. Good(0)
  BY <1>2
<1>4. ASSUME NEW n \in 1 .. Len(messages), Good(n - 1)
      PROVE  Good(n)
  <2> DEFINE old == f[n - 1]
             new == f[n]
             message == messages[n]
  <2>1. /\ new = Take(old, message) /\ message \in Message
        /\ message = PlayerIdentity => moment = NoMoment
    BY <1>2
  <2>2. Sound(old) /\ Follows(old, p, moment) /\ old.smoothed[p] \in {moment, NoMoment}
    BY <1>4
  <2> HIDE DEF old, new, message
  <2>3. /\ Sound(new) /\ Follows(new, p, moment)
        /\ new.smoothed[p] \in {old.smoothed[p], NoMoment}
    BY <2>1, <2>2, TakenFollows
  <2> QED
    BY <2>2, <2>3 DEF new
<1> HIDE DEF Good
<1>5. Good(Len(messages))
  <2> SUFFICES ASSUME bad # {} PROVE FALSE
    BY <1>1
  <2>1. bad \in SUBSET Nat
    BY <1>1
  <2>2. PICK least \in bad : \A n \in bad : least <= n
    <3> HIDE DEF bad
    <3> QED
      BY <2>1, LeastElement
  <2>3. least \in 1 .. Len(messages)
    BY <1>1, <1>3, <2>2
  <2>4. least - 1 \in 0 .. Len(messages) /\ least - 1 \notin bad
    BY <1>1, <2>2, <2>3
  <2> QED
    BY <1>4, <2>2, <2>3, <2>4
<1> QED
  BY <1>2, <1>5 DEF Good

\* The update draws a player no earlier than it was interpolated, and at what it
\* is now interpolated the next pictures are not before either.
LEMMA UpdatedFollows ==
  ASSUME NEW c, Sound(c), now \in 0 .. MaxTime, NEW p \in Players,
         NEW moment \in Moment, Follows(c, p, moment),
         c.smoothed[p] \in {moment, NoMoment}
  PROVE  LET u == Updated(c)
         IN  /\ Follows(u, p, u.smoothed[p])
             /\ u.picture[p] # NoMoment => NotBefore(u.picture[p], moment)
<1> DEFINE h == c.history
           next == Min(Selectable(h))
           between == Between(h[next - 1], h[next])
           found == {q \in h[next - 1].players \cap h[next].players : c.picture[q] # NoMoment}
           i == Interpolated(c)
           u == Updated(c)
           Done(n) == /\ Follows(n, p, n.smoothed[p])
                      /\ n.picture[p] # NoMoment => NotBefore(n.picture[p], moment)
<1>1. c \in ClientState /\ Timed(h) /\ Ahead(moment, h)
  BY SoundTimed DEF Sound, Follows
<1>2. ASSUME NEW n, n.history = h, n.picture[p] = c.picture[p], n.smoothed[p] = c.smoothed[p]
      PROVE  Done(n)
  BY <1>2, FollowsNothing DEF Follows
<1>3. Done(i) /\ i.history = h
  <2>1. CASE Selectable(h) = {}
    <3>1. i = c
      BY <2>1 DEF Interpolated
    <3> QED
      BY <1>2, <3>1
  <2>2. CASE Selectable(h) # {}
    <3>1. i = [c EXCEPT !.picture = Put(c.picture, found, between),
                        !.smoothed = Put(c.smoothed, found, between)]
      BY <2>2 DEF Interpolated
    <3>2. /\ between \in Moment /\ Ahead(between, h) /\ NotBefore(between, moment)
      BY <1>1, <2>2, PictureSelected
    <3>3. NotBefore(between, between)
      BY <3>2, NotBeforeReflexive
    <3> HIDE DEF between, found, i
    <3>4. /\ i.history = h
          /\ i.picture[p] = IF p \in found THEN between ELSE c.picture[p]
          /\ i.smoothed[p] = IF p \in found THEN between ELSE c.smoothed[p]
      BY <1>1, <3>1 DEF ClientState, Put
    <3>5. CASE p \in found
      BY <3>2, <3>3, <3>4, <3>5 DEF Follows
    <3>6. CASE p \notin found
      BY <1>2, <3>4, <3>6
    <3> QED
      BY <3>4, <3>5, <3>6
  <2> QED
    BY <2>1, <2>2
<1> HIDE DEF i, h
<1>4. CASE ~c.playerIdentity
  <2>1. u = c
    BY <1>4 DEF Updated
  <2> QED
    BY <1>2, <2>1 DEF h
<1>5. CASE c.playerIdentity
  <2>1. u = Sampled(i)
    BY <1>5 DEF Updated, i
  <2>2. u.history = i.history /\ u.picture = i.picture /\ u.smoothed = i.smoothed
    BY <2>1 DEF Sampled
  <2> QED
    BY <1>3, <2>2 DEF Follows
<1> QED
  BY <1>4, <1>5

\* The invariant of the picture: every player is drawn no earlier than it was
\* interpolated, and the history has nothing earlier in store for it.
PictureInv ==
    /\ ClientGameInv
    /\ \A p \in Players : Follows(client, p, client.smoothed[p])

\* What PictureNeverGoesBack says of a step.
GoesOn ==
    \A p \in Players :
       client'.picture[p] # NoMoment => NotBefore(client'.picture[p], client.smoothed[p])

\* The client has no picture to begin with.
LEMMA PictureInvInit == Init => PictureInv
<1> SUFFICES ASSUME Init PROVE PictureInv
  OBVIOUS
<1>1. ClientGameInv /\ Sound(client) /\ now \in 0 .. MaxTime
  BY ClientGameInvInit DEF ClientGameInv
<1>2. \A p \in Players : client.smoothed[p] = NoMoment
  BY DEF Init, NewClient, Nowhere
<1> QED
  BY <1>1, <1>2, FollowsNothing DEF PictureInv

\* A frame preserves the invariant and draws nobody earlier.
LEMMA FramePicture ==
  ASSUME PictureInv, NEW count \in 0 .. Len(downlink), Frame(count)
  PROVE  PictureInv' /\ GoesOn
<1> DEFINE messages == SubSeq(downlink, 1, count)
           polled == Polled(client, messages)
           updated == Updated(polled)
<1>1. /\ downlink \in Seq(Message) /\ Len(downlink) \in Nat /\ count \in Nat
      /\ count <= Len(downlink) /\ now \in 0 .. MaxTime
      /\ Sound(client) /\ client \in ClientState
  BY DEF PictureInv, ClientGameInv, Sound
<1>2. /\ messages \in Seq(Message) /\ Len(messages) = count
      /\ \A i \in 1 .. count : messages[i] = downlink[i]
  <2>1. \A i \in 1 .. Len(downlink) : downlink[i] \in Message
    BY <1>1
  <2> QED
    BY <1>1, <2>1, SubSeqProperties
<1> HIDE DEF messages
<1>3. ASSUME NEW p \in Players
      PROVE  /\ Follows(updated, p, updated.smoothed[p])
             /\ updated.picture[p] # NoMoment =>
                   NotBefore(updated.picture[p], client.smoothed[p])
  <2> DEFINE moment == client.smoothed[p]
  <2>1. moment \in Moment /\ Follows(client, p, moment)
    BY <1>1 DEF PictureInv, ClientState
  <2>2. \A n \in 1 .. Len(messages) : messages[n] = PlayerIdentity => moment = NoMoment
    <3> SUFFICES ASSUME NEW n \in 1 .. Len(messages), messages[n] = PlayerIdentity
                 PROVE  moment = NoMoment
      OBVIOUS
    <3>1. n \in 1 .. Len(downlink) /\ downlink[n] = PlayerIdentity
      BY <1>1, <1>2
    <3>2. ~client.playerIdentity
      BY <3>1 DEF PictureInv, ClientGameInv, InputOnItsWay
    <3>3. client.history = <<>>
      BY <1>1, <3>2 DEF Sound, Orderly
    <3> QED
      BY <2>1, <3>3 DEF Follows, Ahead
  <2> HIDE DEF moment
  <2>3. client.smoothed[p] \in {moment, NoMoment}
    BY DEF moment
  <2>4. /\ Sound(polled) /\ Follows(polled, p, moment)
        /\ polled.smoothed[p] \in {moment, NoMoment}
    BY <1>1, <1>2, <2>1, <2>2, <2>3, PolledFollows
  <2> HIDE DEF polled
  <2>5. /\ Follows(updated, p, updated.smoothed[p])
        /\ updated.picture[p] # NoMoment => NotBefore(updated.picture[p], moment)
    BY <1>1, <2>1, <2>4, UpdatedFollows
  <2> QED
    BY <2>5 DEF moment
<1> HIDE DEF updated
<1>4. /\ client'.history = updated.history /\ client'.smoothed = updated.smoothed
      /\ client'.picture = updated.picture /\ now' = now
  <2>1. client' = Sent(updated) /\ now' = now
    BY DEF Frame, serverVars, updated, polled, messages
  <2> QED
    BY <2>1 DEF Sent
<1>5. ClientGameInv'
  BY FrameInv DEF PictureInv
<1>6. GoesOn
  BY <1>3, <1>4 DEF GoesOn
<1>7. \A p \in Players : Follows(client, p, client.smoothed[p])'
  <2> TAKE p \in Players
  <2>1. Follows(updated, p, updated.smoothed[p])
    BY <1>3
  <2> QED
    BY <1>4, <2>1 DEF Follows, Ahead, Between
<1> QED
  BY <1>5, <1>6, <1>7 DEF PictureInv

\* A step in which the client does nothing draws nobody earlier.
LEMMA GoesOnByInv ==
  ASSUME PictureInv, client' = client
  PROVE  GoesOn
BY DEF PictureInv, Follows, GoesOn

\* A tick of the server preserves the invariant.
LEMMA ServerTicksPicture ==
  ASSUME PictureInv, ServerTicks
  PROVE  PictureInv' /\ GoesOn
<1>1. /\ now \in 0 .. MaxTime /\ now < MaxTime /\ now' = now + 1
      /\ MaxTime \in Nat /\ client' = client /\ Sound(client)
  BY ClientGameAssumption DEF ServerTicks, PictureInv, ClientGameInv
<1>2. now' \in 0 .. MaxTime /\ Timed(client.history)
  BY <1>1, SoundTimed
<1>3. ASSUME NEW p \in Players
      PROVE  Follows(client, p, client.smoothed[p])'
  <2>1. client.smoothed[p] \in Moment /\ Follows(client, p, client.smoothed[p])
    BY <1>1 DEF PictureInv, Sound, ClientState
  <2>2. Ahead(client.smoothed[p], client.history)'
    BY <1>1, <1>2, <2>1, AheadLater DEF Follows
  <2> QED
    BY <1>1, <2>1, <2>2 DEF Follows
<1>4. ClientGameInv'
  BY ServerTicksInv DEF PictureInv
<1> QED
  BY <1>1, <1>3, <1>4, GoesOnByInv DEF PictureInv

\* Every step preserves the invariant and draws nobody earlier.
LEMMA PictureInvNext ==
  ASSUME PictureInv, [Next]_vars
  PROVE  PictureInv' /\ [GoesOn]_vars
<1>1. ClientGameInv'
  BY ClientGameInvNext DEF PictureInv
<1>2. ASSUME UNCHANGED <<now, client>>
      PROVE  PictureInv' /\ GoesOn
  <2>1. \A p \in Players : Follows(client, p, client.smoothed[p])'
    BY <1>2 DEF PictureInv, Follows, Ahead, Between
  <2> QED
    BY <1>1, <1>2, <2>1, GoesOnByInv DEF PictureInv
<1>3. CASE UNCHANGED vars
  BY <1>2, <1>3 DEF vars
<1>4. ASSUME NEW count \in 0 .. Len(downlink), Frame(count)
      PROVE  PictureInv' /\ GoesOn
  BY <1>4, FramePicture
<1>5. CASE ConnectionLost
  <2>1. client' = Reset(client) /\ Sound(client) /\ now' = now /\ now \in 0 .. MaxTime
    BY <1>5 DEF ConnectionLost, serverVars, PictureInv, ClientGameInv
  <2>2. client'.smoothed = Nowhere /\ client'.picture = client.picture
    BY <2>1 DEF Reset, Sound, ClientState
  <2>3. Sound(client)' /\ (now \in 0 .. MaxTime)'
    BY <1>1 DEF ClientGameInv
  <2>4. \A p \in Players : Follows(client, p, client.smoothed[p])'
    <3> TAKE p \in Players
    <3>1. client'.smoothed[p] = NoMoment
      BY <2>2 DEF Nowhere
    <3>2. Sound(client') /\ now \in 0 .. MaxTime
      BY <2>1, ResetSound
    <3>3. Follows(client', p, NoMoment)
      BY <3>2, FollowsNothing
    <3> QED
      BY <2>1, <3>1, <3>3 DEF Follows, Ahead, Between
  <2>5. GoesOn
    BY <2>2 DEF PictureInv, Follows, GoesOn
  <2> QED
    BY <1>1, <2>4, <2>5 DEF PictureInv
<1>6. CASE ServerTicks
  BY <1>6, ServerTicksPicture
<1>7. ASSUME NEW input \in Inputs, PlayerPresses(input)
      PROVE  UNCHANGED <<now, client>>
  BY <1>7 DEF PlayerPresses, serverVars
<1>8. CASE OpponentEnters \/ OpponentLeaves \/ GameEnds \/ ServerTakesInput
  <2>1. UNCHANGED <<now, client>>
    BY <1>8 DEF OpponentEnters, OpponentLeaves, GameEnds, ServerTakesInput
  <2> QED
    BY <1>2, <2>1
<1> QED
  BY <1>2, <1>3, <1>4, <1>5, <1>6, <1>7, <1>8 DEF Next

-----------------------------------------------------------------------------
(* The theorems.                                                           *)

\* Every behaviour satisfies the inductive invariant.
THEOREM ClientGameInvariant == Spec => []ClientGameInv
<1> QED
  BY ClientGameInvInit, ClientGameInvNext, PTL DEF Spec

\* Every variable keeps its type; above all a picture is always a moment that
\* lies between the ticks of the game (TypeOK of ClientGame).
THEOREM TypeCorrect == Spec => []TypeOK
<1>1. ClientGameInv => TypeOK
  BY DEF ClientGameInv, TypeOK, Sound, ClientState, InRange, MomentInRange, Message
<1> QED
  BY <1>1, ClientGameInvariant, PTL

\* However snapshots are batched, repeated, late or lost with the connection,
\* the history is the newest states received, oldest first, and ends in the
\* current one (ApplyWorldStateSnapshot, HandleWorldStateSnapshot).
THEOREM HistoryIsOrdered == Spec => []HistoryFollowsState
<1>1. ClientGameInv => HistoryFollowsState
  <2> SUFFICES ASSUME ClientGameInv PROVE HistoryFollowsState
    OBVIOUS
  <2>1. /\ client \in ClientState /\ Orderly(client)
    BY DEF ClientGameInv, Sound
  <2>2. client.history \in Seq(Received)
    BY <2>1 DEF ClientState
  <2> QED
    BY <2>1, <2>2 DEF Orderly, HistoryFollowsState, Last
<1> QED
  BY <1>1, ClientGameInvariant, PTL

\* A key that was let go never keeps the player moving, whatever games start
\* and stop while inputs are on their way (Update, Room::StartGame).
THEOREM KeysLetGo == Spec => []NoKeySticks
<1>1. ClientGameInv => NoKeySticks
  BY DEF ClientGameInv, InputOnItsWay, NoKeySticks, Quiet
<1> QED
  BY <1>1, ClientGameInvariant, PTL

\* No player is ever drawn at a moment before one it was interpolated at, for
\* every delay and history size, however late snapshots are taken and however
\* many at once, whoever comes and goes (UpdateWorldStateInterpolationSelection,
\* ApplyInterpolatedPlayerStates, SynchronizePlayerRenderObjects).
THEOREM TimeGoesOn == Spec => PictureNeverGoesBack
<1>1. Spec => []PictureInv
  <2>1. PictureInv /\ [Next]_vars => PictureInv'
    BY PictureInvNext
  <2> QED
    BY <2>1, PictureInvInit, PTL DEF Spec
<1>2. PictureInv /\ [Next]_vars =>
         [\A p \in Players : client'.picture[p] # NoMoment =>
             NotBefore(client'.picture[p], client.smoothed[p])]_vars
  BY PictureInvNext DEF GoesOn
<1> QED
  BY <1>1, <1>2, PTL DEF Spec, PictureNeverGoesBack

=============================================================================
