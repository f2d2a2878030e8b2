----------------------------- MODULE Handshake ------------------------------
(***************************************************************************)
(* From connecting to an attached session: Conn::connect and               *)
(* connect_and_start on the client, handle_connection on the server, and   *)
(* between them the messages of either transport.  A WebSocket carries     *)
(* them one by one.  A QUIC stream is bytes that arrive in chunks of any   *)
(* size and are taken apart by a FrameDecoder; once attached, both sides   *)
(* poll next() beside other work and drop it half way through a frame.     *)
(***************************************************************************)
EXTENDS Sequences, Frames, Auth

CONSTANT Setups          \* the situations considered

\* A situation: the connections made, those for which quic_addr is configured,
\* the flows their tokens come from, the requests they make, how many messages a
\* session then sends and receives, and whether connections fail or time out.
ASSUME SetupAssumption ==
    \A s \in Setups :
        /\ s.conns \subseteq Conns /\ s.quic \subseteq s.conns /\ s.fails \in BOOLEAN
        /\ s.flows \in [Conns -> SUBSET Flows]
        /\ s.requests \subseteq Seq(Byte) /\ s.data \in Nat

\* A request is not empty, and its encoding is shorter than 2^31.
ASSUME RequestAssumption ==
    \A s \in Setups : \A r \in s.requests : r # <<>> /\ Len(r) < 2147483647

VARIABLES
    setup,               \* the situation, chosen at the start
    request,             \* the request the clients make
    client,              \* where each client is
    server,              \* where the handler of its connection is
    transport,           \* what it connected by
    up, down,            \* the streams to the server and back
    cut                  \* whether the connection has failed

given == <<setup, request>>
pcs == <<client, server, transport>>
vars == <<authVars, given, pcs, up, down, cut>>

\* postcard's bytes for the messages of a handshake.  A Hello holds a token and
\* is long enough to be compressed.
Hello == <<1, 1, 1, 1>>
Welcome == <<2>>
Started == <<3, 4>>
Stdin == <<7>>
Stdout == <<8>>

\* One direction of a connection: messages sent; pieces on the way, which are the
\* messages of a WebSocket or the single bytes of a QUIC stream; the buffer of
\* the reader's FrameDecoder; messages received.
Stream == [sent : Seq(Seq(Byte)), wire : Seq(Seq(Byte)), buf : Seq(Byte), got : Seq(Seq(Byte))]
NewStream == [sent |-> <<>>, wire |-> <<>>, buf |-> <<>>, got |-> <<>>]

Init ==
    /\ AuthInit
    /\ setup \in Setups /\ request \in setup.requests
    /\ client = [c \in Conns |-> "start"] /\ server = [c \in Conns |-> "none"]
    /\ transport = [c \in Conns |-> "none"]
    /\ up = [c \in Conns |-> NewStream] /\ down = [c \in Conns |-> NewStream]
    /\ cut = [c \in Conns |-> FALSE]

Goto(pc, c, to) == pc' = [pc EXCEPT ![c] = to]

\* send.  A connection that has failed takes the message and loses it, or says
\* so; the sender finds out by reading all the same.
Pieces(c, body) ==
    IF transport[c] = "quic"
    THEN LET frame == EncodeFrame(body) IN [i \in 1 .. Len(frame) |-> <<frame[i]>>]
    ELSE <<Encode(body)>>

Send(stream, c, body) ==
    stream' = [stream EXCEPT
        ![c].sent = Append(@, body),
        ![c].wire = IF cut[c] THEN @ ELSE @ \o Pieces(c, body)]

\* next(): the message of a WebSocket or the frame of the decoder, if any.
Event(c, s) ==
    IF transport[c] = "quic" THEN NextFrame(s.buf)
    ELSE IF s.wire = <<>> THEN NoFrame(s.buf)
    ELSE Frame(Head(s.wire), s.buf)

Bad(c, s) ==
    LET event == Event(c, s) IN
    event.kind = "oversized" \/ (event.kind = "frame" /\ Decode(event.frame) = Malformed)

\* recv, when next() has a frame that decodes.
Recv(stream, c) ==
    LET event == Event(c, stream[c]) IN
    /\ event.kind = "frame" /\ ~Bad(c, stream[c])
    /\ stream' = [stream EXCEPT
          ![c].got = Append(@, Decode(event.frame)),
          ![c].wire = IF transport[c] = "quic" THEN @ ELSE Tail(@),
          ![c].buf = event.rest]

\* No frame yet: read_chunk gives the next bytes, as many as it likes.
Chunk(stream, c) ==
    /\ transport[c] = "quic" /\ Event(c, stream[c]).kind = "none"
    /\ \E n \in 1 .. Len(stream[c].wire) :
         stream' = [stream EXCEPT
             ![c].buf = @ \o [i \in 1 .. n |-> stream[c].wire[i][1]],
             ![c].wire = SubSeq(@, n + 1, Len(@))]

-----------------------------------------------------------------------------
\* Conn::connect: QUIC where configured, then WebSocket.  The server's handler
\* of an established connection waits for Hello.
Connected(c, by) ==
    /\ Goto(client, c, "hello") /\ Goto(server, c, "hello") /\ Goto(transport, c, by)
    /\ UNCHANGED <<authVars, given, up, down, cut>>

Connect(c) ==
    /\ c \in setup.conns /\ client[c] = "start"
    /\ \/ c \in setup.quic /\ Connected(c, "quic")
       \/ /\ Goto(client, c, "fallback")
          /\ UNCHANGED <<authVars, given, server, transport, up, down, cut>>

ConnectWs(c) ==
    /\ client[c] = "fallback"
    /\ \/ Connected(c, "ws")
       \/ /\ setup.fails /\ Goto(client, c, "failed")
          /\ UNCHANGED <<authVars, given, server, transport, up, down, cut>>

\* connect_and_start: Hello and, without waiting for the answer, the request.
SendHello(c) ==
    /\ client[c] = "hello" /\ Goto(client, c, "request")
    /\ \E flow \in setup.flows[c] : Present(c, flow)
    /\ Send(up, c, Hello)
    /\ UNCHANGED <<given, server, transport, down, cut>>

SendRequest(c) ==
    /\ client[c] = "request" /\ Goto(client, c, "welcome")
    /\ Send(up, c, request)
    /\ UNCHANGED <<authVars, given, server, transport, down, cut>>

-----------------------------------------------------------------------------
ServerReads == {"hello", "request", "attached"}

ServerChunk(c) ==
    /\ server[c] \in ServerReads /\ Chunk(up, c)
    /\ UNCHANGED <<authVars, given, pcs, down, cut>>

\* handle_connection: the Hello goes to verify.
ServerHello(c) ==
    /\ server[c] = "hello" /\ Recv(up, c)
    /\ Goto(server, c, "verify")
    /\ Verify(c)
    /\ UNCHANGED <<given, client, transport, down, cut>>

\* verify is done: Welcome, or the connection is closed.
ServerVerified(c) ==
    /\ server[c] = "verify"
    /\ \/ /\ verdict[c] = "accepted"
          /\ Goto(server, c, "request") /\ Send(down, c, Welcome)
       \/ /\ verdict[c] \in {"rejected", "unreachable"}
          /\ Goto(server, c, "gone") /\ UNCHANGED down
    /\ UNCHANGED <<authVars, given, client, transport, up, cut>>

\* The request: the session is started and attached to, or cannot be started.
ServerRequest(c) ==
    /\ server[c] = "request" /\ Recv(up, c)
    /\ \/ Goto(server, c, "attached") /\ Send(down, c, Started)
       \/ Goto(server, c, "no_session") /\ UNCHANGED down
    /\ UNCHANGED <<authVars, given, client, transport, cut>>

\* attach: a message of the client, or output, which drops the pending next().
ServerStdin(c) ==
    /\ server[c] = "attached" /\ Recv(up, c)
    /\ UNCHANGED <<authVars, given, pcs, down, cut>>

ServerOutput(c) ==
    /\ server[c] = "attached" /\ Len(down[c].sent) < 2 + setup.data
    /\ Send(down, c, Stdout)
    /\ UNCHANGED <<authVars, given, pcs, up, cut>>

\* The handler ends: a frame is too long or does not decode, or the transport
\* tells it that the connection has failed, if it ever does.
ServerFails(c) ==
    /\ server[c] \in ServerReads /\ Goto(server, c, "gone")
    /\ UNCHANGED <<authVars, given, client, transport, up, down, cut>>

ServerRefuses(c) == Bad(c, up[c]) /\ ServerFails(c)
ServerLost(c) == cut[c] /\ ServerFails(c)

-----------------------------------------------------------------------------
ClientReads == {"welcome", "started", "exec"}

ClientChunk(c) ==
    /\ client[c] \in ClientReads /\ Chunk(down, c)
    /\ UNCHANGED <<authVars, given, pcs, up, cut>>

\* connect_and_start takes Welcome and then Started; run_exec takes output.
ClientAfter == [welcome |-> "started", started |-> "exec", exec |-> "exec"]

ClientRecv(c) ==
    /\ client[c] \in ClientReads /\ Recv(down, c)
    /\ Goto(client, c, ClientAfter[client[c]])
    /\ UNCHANGED <<authVars, given, server, transport, up, cut>>

\* Faulty: what a dropped next() has read is dropped with it.
ClientStdinForgetful(c) ==
    /\ client[c] = "exec" /\ Len(up[c].sent) < 2 + setup.data
    /\ Send(up, c, Stdin)
    /\ down' = [down EXCEPT ![c].buf = <<>>]
    /\ UNCHANGED <<authVars, given, pcs, cut>>

\* run_exec: stdin is ready, and the pending next() is dropped.
ClientStdin(c) ==
    /\ client[c] = "exec" /\ Len(up[c].sent) < 2 + setup.data
    /\ Send(up, c, Stdin)
    /\ UNCHANGED <<authVars, given, pcs, down, cut>>

\* The server has closed the connection.
ClientClosed(c) ==
    /\ client[c] \in ClientReads /\ server[c] \in {"gone", "no_session"}
    /\ Goto(client, c, "closed")
    /\ UNCHANGED <<authVars, given, server, transport, up, down, cut>>

\* The client gives the connection up: connect_timeout while it connects, a
\* failed connection at any time.
GiveUp(c) ==
    /\ Goto(client, c, "failed")
    /\ cut' = [cut EXCEPT ![c] = TRUE]
    /\ UNCHANGED <<authVars, given, server, transport, up, down>>

ConnectTimeout(c) ==
    /\ c \in setup.conns /\ setup.fails
    /\ client[c] \in {"start", "fallback", "hello", "request", "welcome", "started"}
    /\ GiveUp(c)

ClientLost(c) ==
    /\ client[c] \in {"hello", "request"} \cup ClientReads /\ cut[c]
    /\ GiveUp(c)

\* The connection fails, and what is on the way is lost.
Cut(c) ==
    /\ transport[c] # "none" /\ ~cut[c] /\ setup.fails
    /\ cut' = [cut EXCEPT ![c] = TRUE]
    /\ up' = [up EXCEPT ![c].wire = <<>>] /\ down' = [down EXCEPT ![c].wire = <<>>]
    /\ UNCHANGED <<authVars, given, pcs>>

-----------------------------------------------------------------------------
\* The steps of authentication that do not touch a connection.
Aside == UNCHANGED <<given, pcs, up, down, cut>>

ClientStep(c) ==
    \/ Connect(c) \/ ConnectWs(c) \/ SendHello(c) \/ SendRequest(c)
    \/ ClientChunk(c) \/ ClientRecv(c) \/ ClientClosed(c) \/ ClientLost(c)

ServerStep(c) ==
    \/ ServerChunk(c) \/ ServerHello(c) \/ ServerVerified(c) \/ ServerRequest(c)
    \/ ServerStdin(c) \/ ServerRefuses(c)
    \/ (DecodingKey(c) \/ FetchJwks(c) \/ FetchFails(c)) /\ Aside

Next ==
    \/ \E c \in Conns :
         \/ ClientStep(c) \/ ClientStdin(c) \/ ConnectTimeout(c)
         \/ ServerStep(c) \/ ServerOutput(c) \/ ServerLost(c)
         \/ Cut(c)
    \/ (PublishKey \/ RetireKey) /\ Aside

Spec == Init /\ [][Next]_vars

\* Both sides do what they can, what is on the way arrives or the client learns
\* that the connection is gone, and a fetch ends one way or the other.  Nothing
\* is assumed of ConnectTimeout, of stdin and output, or of a server noticing.
FairSpec == Spec /\ \A c \in Conns : WF_vars(ClientStep(c)) /\ WF_vars(ServerStep(c))
-----------------------------------------------------------------------------
TypeOK ==
    /\ AuthTypeOK
    /\ setup \in Setups /\ request \in setup.requests
    /\ client \in [Conns -> {"start", "fallback", "hello", "request", "failed", "closed"}
                              \cup ClientReads]
    /\ server \in [Conns -> {"none", "verify", "gone", "no_session"} \cup ServerReads]
    /\ transport \in [Conns -> {"none", "quic", "ws"}]
    /\ \A c \in Conns : up[c] \in Stream /\ down[c] \in Stream
    /\ cut \in [Conns -> BOOLEAN]

\* A message whose frame or content is longer than MAX_FRAME.
TooLong(body) == Len(body) > MAX_FRAME \/ Len(Encode(body)) > MAX_FRAME

\* The other messages of a handshake are not: MAX_FRAME is 1 MiB.
ASSUME MessagesFit == \A body \in {Hello, Welcome, Started, Stdin, Stdout} : ~TooLong(body)

\* What a side has received, and what it finds next, is what the other has sent.
InStep(c, s) ==
    LET next == Event(c, s)
        due == s.sent[Len(s.got) + 1]
    IN  /\ Len(s.got) <= Len(s.sent) /\ \A i \in 1 .. Len(s.got) : s.got[i] = s.sent[i]
        /\ next.kind # "none" =>
              /\ Len(s.got) < Len(s.sent)
              /\ TooLong(due) \/ (next.kind = "frame" /\ Decode(next.frame) = due)

\* Either side decodes what the other sent, in order: however the stream is cut
\* into chunks and wherever a pending next() is dropped, no byte is lost or read
\* twice, no frame starts in the wrong place and none but a message that is too
\* long fails to decode.
FramesExact == \A c \in Conns : InStep(c, up[c]) /\ InStep(c, down[c])

\* The server closes a connection on its client only for a reason: it refused
\* the token, the request is too long or the session could not be started.
ClosedForCause ==
    \A c \in Conns : client[c] = "closed" =>
        \/ verdict[c] \in {"rejected", "unreachable"}
        \/ TooLong(request)
        \/ server[c] = "no_session"
        \/ cut[c]

\* A connection that holds comes to rest with everything sent received, or with
\* the client told: the request sent ahead of Welcome, the keys fetched under a
\* mutex and frames that arrive in pieces leave nobody waiting for anybody.
Settles ==
    \A c \in Conns : []<>(
        \/ c \notin setup.conns \/ client[c] \in {"failed", "closed"}
        \/ client[c] = "exec" /\ up[c].got = up[c].sent /\ down[c].got = down[c].sent)
=============================================================================
