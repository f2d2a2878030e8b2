---------------------------- MODULE MCHandshake -----------------------------
(* Handshake for TLC.  With MAX_FRAME 5 the second request is too long for a   *)
(* frame and the third, once decompressed, for a message.                      *)
EXTENDS Handshake

Short == <<5>>
Long == <<5, 6, 5, 6, 5>>
Repeated == <<5, 5, 5, 5, 5, 5>>

\* A connection over QUIC, or WebSocket should that fail, with every request.
Streams ==
    [conns |-> {1}, quic |-> {1}, requests |-> {Short, Long, Repeated}, data |-> 1,
     fails |-> TRUE, flows |-> [c \in Conns |-> {"static", "device"}]]

\* Two WebSocket connections, one of them with every kind of token.
EveryToken ==
    [conns |-> {1, 2}, quic |-> {}, requests |-> {Short}, data |-> 0,
     fails |-> FALSE, flows |-> [c \in Conns |-> IF c = 1 THEN {"device"} ELSE Flows]]

MCSetups == {Streams, EveryToken}
=============================================================================
