----------------------------- MODULE ExecClient -----------------------------
(***************************************************************************)
(* The client (client/src/lib.rs, run_exec and connect_and_start).         *)
(*                                                                         *)
(*   connect     about to call connect_and_start                           *)
(*   handshake   request sent, waiting for Started or Denied               *)
(*   attached    in the select loop of the `attached` block                *)
(*   done        returned Ok(code)                                         *)
(*   denied      returned Err(Denied)                                      *)
(*   failed      returned another error                                    *)
(*                                                                         *)
(* Retry delays are abstracted to arbitrary finite delays.                 *)
(***************************************************************************)
EXTENDS ExecState

Returned == phase \in {"done", "denied", "failed"}

\* Whatever connection c still had for the client is lost when the client drops it.
Unread(c) ==
    /\ s2c' = [s2c EXCEPT ![c] = <<>>]
    /\ dgs2c' = [dgs2c EXCEPT ![c] = {}]

\* After a lost connection: resume when there is a token, fail otherwise.
Retry ==
    /\ phase' = IF resume_token THEN "connect" ELSE "failed"
    /\ Unread(conn)

ClientInit ==
    /\ phase = "connect" /\ conn = 0 /\ resume_token = FALSE
    /\ stdin_open = TRUE /\ client_seq = 0 /\ sent_stdin = <<>> /\ dropped = {}
    /\ last_server_seq = 0 /\ out = <<>> /\ code = NoCode

\* Connects and sends Hello and the request in one flight.  The listening TCP
\* socket belongs to systemd and queues connections while the daemon is away;
\* the QUIC endpoint answers only while the daemon serves.
Connect ==
    /\ phase = "connect" /\ conn < MaxConns
    /\ conn + 1 \in QuicConns => daemon = "up"
    /\ phase' = "handshake" /\ conn' = conn + 1
    /\ handler' = [handler EXCEPT ![conn + 1] = "queued"]
    /\ c2s' = [c2s EXCEPT ![conn + 1] =
                  <<IF resume_token THEN Resume(last_server_seq) ELSE Exec>>]
    /\ UNCHANGED <<resume_token, stdin_open, client_seq, sent_stdin, last_server_seq,
                   out, code, dropped, s2c, dgc2s, dgs2c, sent_up_to, acked_stdin,
                   exit_seq, seen, taskVars, inbound, log, daemonVars>>

\* The session is attached: keep the token and resend all unacknowledged stdin.
\* Resent messages get no datagram copy.
HandshakeStarted ==
    /\ phase = "handshake" /\ s2c[conn] # <<>> /\ Head(s2c[conn]).type = "Started"
    /\ phase' = "attached" /\ resume_token' = TRUE
    /\ s2c' = [s2c EXCEPT ![conn] = Tail(@)]
    /\ SendToServer(conn, sent_stdin)
    /\ UNCHANGED <<conn, stdin_open, client_seq, sent_stdin, last_server_seq, out, code,
                   dropped, dgc2s, dgs2c, handlerVars, taskVars, inbound, log, daemonVars>>

\* Denied is final.  (No other first answer exists: attach sends Started before
\* anything else and deny sends nothing else.)
HandshakeDenied ==
    /\ phase = "handshake" /\ s2c[conn] # <<>> /\ Head(s2c[conn]).type = "Denied"
    /\ phase' = "denied" /\ Unread(conn)
    /\ UNCHANGED <<conn, resume_token, stdin_open, client_seq, sent_stdin, last_server_seq,
                   out, code, dropped, c2s, dgc2s, handlerVars, taskVars, inbound, log,
                   daemonVars>>

\* The daemon has closed the connection and everything before the close has been
\* read; or the link fails, or is silent for the keepalive or connect timeout.
Disconnect ==
    /\ phase \in {"handshake", "attached"}
    /\ (~ServerOn(conn) /\ s2c[conn] = <<>>) \/ LinkMayFail(conn)
    /\ Retry
    /\ UNCHANGED <<conn, resume_token, stdin_open, client_seq, sent_stdin, last_server_seq,
                   out, code, dropped, c2s, dgc2s, handlerVars, taskVars, inbound, log,
                   daemonVars>>

\* The message for the chunk, or the end, just read from stdin.  Chunks are
\* named by their position in the input.
NextStdin(eof) ==
    IF eof THEN StdinEof(client_seq + 1) ELSE Stdin(client_seq + 1, client_seq + 1)

\* Reads stdin, sends the message, and keeps it for resend.
ReadStdin(eof) ==
    /\ phase = "attached" /\ stdin_open /\ client_seq < MaxStdin
    /\ client_seq' = client_seq + 1 /\ stdin_open' = ~eof
    /\ SendToServer(conn, <<NextStdin(eof)>>)
    /\ dgc2s' = IF ServerOn(conn)
                THEN [dgc2s EXCEPT ![conn] = @ \cup Duplicates(conn, <<NextStdin(eof)>>)]
                ELSE dgc2s
    /\ sent_stdin' = Append(sent_stdin, NextStdin(eof))
    /\ UNCHANGED <<phase, conn, resume_token, last_server_seq, out, code, dropped, s2c,
                   dgs2c, handlerVars, taskVars, inbound, log, daemonVars>>

\* Reads stdin but the send fails: the loop is left before the message is kept.
ReadStdinSendFails(eof) ==
    /\ phase = "attached" /\ stdin_open /\ client_seq < MaxStdin
    /\ ~ServerOn(conn) \/ LinkMayFail(conn)
    /\ client_seq' = client_seq + 1 /\ stdin_open' = ~eof
    /\ dropped' = dropped \cup {client_seq + 1}
    /\ Retry
    /\ UNCHANGED <<conn, resume_token, sent_stdin, last_server_seq, out, code, c2s, dgc2s,
                   handlerVars, taskVars, inbound, log, daemonVars>>

\* Faulty tests: one lets datagrams skip ahead too, one takes a message twice.
IsNextLoose(n, last_seen, reliable) == n > last_seen
IsNextAgain(n, last_seen, reliable) == n = last_seen + 1 \/ (reliable /\ n >= last_seen)

\* A frame may skip ahead, a datagram must be exactly the next message.
IsNext(n, last_seen, reliable) == n = last_seen + 1 \/ (reliable /\ n > last_seen)

\* Writes the output message and acknowledges it.
WriteOutput(m) ==
    /\ last_server_seq' = m.seq
    /\ out' = Append(out, m)
    /\ SendToServer(conn, <<Ack(m.seq)>>)
    /\ UNCHANGED <<phase, sent_stdin, code>>

\* Acknowledges the exit and returns its code.
ReturnCode(m) ==
    /\ SendToServer(conn, <<Ack(m.seq)>>)
    /\ phase' = "done" /\ code' = m.data
    /\ UNCHANGED <<last_server_seq, out, sent_stdin>>

\* A faulty test that also forgets the message after the acknowledged one.
UnackedOffByOne(m, acked) == m.seq > acked + 1

Unacked(m, acked) == m.seq > acked

\* Forgets the stdin messages up to acked.  sent_stdin is in sequence order
\* (StdinRetained), so what `retain` keeps is the suffix after some position n.
RetainAfter(acked) ==
    \E n \in 0 .. Len(sent_stdin) :
       /\ \A i \in 1 .. Len(sent_stdin) : Unacked(sent_stdin[i], acked) <=> i > n
       /\ sent_stdin' = SubSeq(sent_stdin, n + 1, Len(sent_stdin))

ClientRecv ==
    /\ phase = "attached" /\ s2c[conn] # <<>>
    /\ LET m == Head(s2c[conn]) IN
       /\ \/ /\ m.type \in Stdio /\ IsNext(m.seq, last_server_seq, TRUE)
             /\ WriteOutput(m)
          \/ /\ m.type = "Exit"
             /\ ReturnCode(m)
          \/ /\ m.type = "Ack"
             /\ RetainAfter(m.seq)
             /\ UNCHANGED <<phase, last_server_seq, out, code, c2s>>
          \/ /\ m.type \notin {"Exit", "Ack"}
             /\ ~(m.type \in Stdio /\ IsNext(m.seq, last_server_seq, TRUE))
             /\ UNCHANGED <<phase, last_server_seq, out, code, sent_stdin, c2s>>
       /\ s2c' = [s2c EXCEPT ![conn] = IF m.type = "Exit" THEN <<>> ELSE Tail(@)]
       /\ dgs2c' = [dgs2c EXCEPT ![conn] = IF m.type = "Exit" THEN {} ELSE @]
    /\ UNCHANGED <<conn, resume_token, stdin_open, client_seq, dropped, dgc2s, handlerVars,
                   taskVars, inbound, log, daemonVars>>

\* A datagram that is not the next message is ignored, which changes nothing.
ClientRecvDatagram ==
    /\ phase = "attached"
    /\ \E m \in dgs2c[conn] :
          /\ m.type \in Stdio /\ IsNext(m.seq, last_server_seq, FALSE)
          /\ WriteOutput(m)
    /\ UNCHANGED <<conn, resume_token, stdin_open, client_seq, dropped, s2c, dgc2s, dgs2c,
                   handlerVars, taskVars, inbound, log, daemonVars>>

\* Reading stdin or writing stdout/stderr fails locally: run_exec returns the error.
LocalError ==
    /\ LocalErrors /\ phase = "attached"
    /\ phase' = "failed" /\ Unread(conn)
    /\ UNCHANGED <<conn, resume_token, stdin_open, client_seq, sent_stdin, last_server_seq,
                   out, code, dropped, c2s, dgc2s, handlerVars, taskVars, inbound, log,
                   daemonVars>>

ClientNext ==
    \/ Connect \/ HandshakeStarted \/ HandshakeDenied \/ Disconnect
    \/ \E eof \in BOOLEAN : ReadStdin(eof) \/ ReadStdinSendFails(eof)
    \/ ClientRecv \/ ClientRecvDatagram \/ LocalError
=============================================================================
