----------------------------- MODULE Connection -----------------------------
(***************************************************************************)
(* What the owner of a NetworkClient may rely on, whatever the bytes of    *)
(* the stream are cut into and whichever old operations are still about:   *)
(* an attempt to connect is settled by one callback, a connection hears    *)
(* what its own server sent, in order and once, up to the first message    *)
(* the client does not accept, and nothing is heard after its end.         *)
(***************************************************************************)
EXTENDS Integers, SequencesExt

CONSTANT Messages       \* the messages a server can put on the stream

VARIABLES
    phase,      \* of the latest attempt to connect
    heard,      \* the callbacks of the latest attempt, in order
    sent        \* the messages the server sent over its connection

vars == <<phase, heard, sent>>

Phases == {"closed", "pending", "open"}

\* The places of the messages a client does not accept after those before
\* them: a snapshot before its identity, one of another room, one malformed.
Refused(messages) ==
    {i \in DOMAIN messages :
        /\ messages[i] \notin {"Pong", "PlayerIdentity"}
        /\ messages[i] = "WorldStateSnapshot" =>
              \A j \in 1 .. i - 1 : messages[j] # "PlayerIdentity"}

\* The callbacks a sequence of messages leads to: a pong has none.
Callbacks(messages) ==
    FlattenSeq([i \in DOMAIN messages |->
        IF messages[i] \in {"PlayerIdentity", "WorldStateSnapshot"}
        THEN <<messages[i]>> ELSE <<>>])

\* What can be heard of the messages: those before the first refused one.
Heardable(messages) ==
    IF Refused(messages) = {} THEN Callbacks(messages)
    ELSE Callbacks(SubSeq(messages, 1, Min(Refused(messages)) - 1))

Init ==
    /\ phase = "closed"
    /\ heard = <<>>
    /\ sent = <<>>

Connect ==
    /\ phase = "closed"
    /\ phase' = "pending"
    /\ heard' = <<>>
    /\ sent' = <<>>

\* The owner may disconnect from within the callback of the success.
Settle ==
    /\ phase = "pending"
    /\ \/ /\ heard' = <<"Connected">>
          /\ phase' \in {"open", "closed"}
       \/ /\ heard' = <<"ConnectionFailed">>
          /\ phase' = "closed"
    /\ UNCHANGED sent

\* A disconnect the owner asked for has no callback.
Cancel ==
    /\ phase # "closed"
    /\ phase' = "closed"
    /\ UNCHANGED <<heard, sent>>

ServerSends ==
    /\ phase = "open"
    /\ \E message \in Messages : sent' = Append(sent, message)
    /\ UNCHANGED <<phase, heard>>

Hear ==
    /\ phase = "open"
    /\ Len(heard) <= Len(Heardable(sent))
    /\ heard' = Append(heard, Heardable(sent)[Len(heard)])
    /\ UNCHANGED <<phase, sent>>

Lose ==
    /\ phase = "open"
    /\ phase' = "closed"
    /\ heard' = Append(heard, "Disconnected")
    /\ UNCHANGED sent

Next ==
    \/ Connect
    \/ Settle
    \/ Cancel
    \/ ServerSends
    \/ Hear
    \/ Lose

Spec == Init /\ [][Next]_vars

\* Every attempt is settled or given up.
FairSpec == Spec /\ WF_vars(Settle)

=============================================================================
