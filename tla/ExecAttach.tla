----------------------------- MODULE ExecAttach -----------------------------
(***************************************************************************)
(* The daemon's side of one connection (server/src/lib.rs,                 *)
(* handle_connection and attach).                                          *)
(*                                                                         *)
(*   none      the connection does not exist yet                           *)
(*   queued    in the listen backlog, or before the WebSocket/QUIC accept  *)
(*   request   accepted, waiting for the ExecRequest                       *)
(*   pump      at the top of the loop of attach                            *)
(*   ack       the log has been sent, stdin_applied not yet read           *)
(*   select    waiting in select!                                          *)
(*   closed    returned                                                    *)
(*                                                                         *)
(* Authentication succeeds (the client of a running exec holds a token the *)
(* daemon accepts).  Sessions are resumable, as run_exec always asks for.  *)
(***************************************************************************)
EXTENDS ExecState

Goto(c, where) == handler' = [handler EXCEPT ![c] = where]

\* The handler returns: its locals and its end of the connection are gone.
Close(c) ==
    /\ Goto(c, "closed")
    /\ c2s' = [c2s EXCEPT ![c] = <<>>]
    /\ dgc2s' = [dgc2s EXCEPT ![c] = {}]
    /\ sent_up_to' = [sent_up_to EXCEPT ![c] = 0]
    /\ acked_stdin' = [acked_stdin EXCEPT ![c] = 0]
    /\ exit_seq' = [exit_seq EXCEPT ![c] = 0]
    /\ seen' = [seen EXCEPT ![c] = 0]

HandlerInit ==
    /\ c2s = [c \in Conns |-> <<>>] /\ s2c = [c \in Conns |-> <<>>]
    /\ dgc2s = [c \in Conns |-> {}] /\ dgs2c = [c \in Conns |-> {}]
    /\ handler = [c \in Conns |-> "none"]
    /\ sent_up_to = [c \in Conns |-> 0] /\ acked_stdin = [c \in Conns |-> 0]
    /\ exit_seq = [c \in Conns |-> 0] /\ seen = [c \in Conns |-> 0]

\* Connections are accepted until SIGTERM, by the next daemon after it.
Accept(c) ==
    /\ handler[c] = "queued" /\ daemon = "up"
    /\ Goto(c, "request")
    /\ UNCHANGED <<clientVars, wireVars, sent_up_to, acked_stdin, exit_seq, seen, taskVars,
                   inbound, log, daemonVars>>

\* The start of attach: Started goes out and `latest` is subscribed before the
\* log is read for the first time.
Attach(c, last_seq_seen) ==
    /\ Goto(c, "pump")
    /\ sent_up_to' = [sent_up_to EXCEPT ![c] = last_seq_seen]
    /\ acked_stdin' = [acked_stdin EXCEPT ![c] = 0]
    /\ exit_seq' = [exit_seq EXCEPT ![c] = 0]
    /\ seen' = [seen EXCEPT ![c] = Latest(log)]
    /\ c2s' = [c2s EXCEPT ![c] = Tail(@)]
    /\ SendToClient(c, <<Started>>)

\* start_session spawns the child and its task, the session is registered, and
\* the connection attached to it.
HandleExec(c) ==
    /\ handler[c] = "request" /\ c2s[c] # <<>> /\ Head(c2s[c]).type = "Exec"
    /\ task' = "running" /\ registered' = TRUE
    /\ Attach(c, 0)
    /\ UNCHANGED <<clientVars, dgc2s, dgs2c, stdin, child_in, stdin_applied, seq, open,
                   writer, exit_code, emitted, inbound, log, daemon, record, restarts>>

HandleResume(c) ==
    /\ handler[c] = "request" /\ c2s[c] # <<>> /\ Head(c2s[c]).type = "Resume"
    /\ registered
    /\ Attach(c, Head(c2s[c]).seq)
    /\ UNCHANGED <<clientVars, dgc2s, dgs2c, taskVars, inbound, log, daemonVars>>

\* A faulty Deny that closes the connection without an answer.
DenySilently(c) ==
    /\ handler[c] = "request" /\ c2s[c] # <<>> /\ Head(c2s[c]).type = "Resume"
    /\ ~registered
    /\ Close(c)
    /\ UNCHANGED <<clientVars, s2c, dgs2c, taskVars, inbound, log, daemonVars>>

\* Unknown resume token.
Deny(c) ==
    /\ handler[c] = "request" /\ c2s[c] # <<>> /\ Head(c2s[c]).type = "Resume"
    /\ ~registered
    /\ SendToClient(c, <<Denied>>)
    /\ Close(c)
    /\ UNCHANGED <<clientVars, dgs2c, taskVars, inbound, log, daemonVars>>

\* Sends what the log holds past sent_up_to, remembering an Exit in it (which is
\* its last message: the session task pushes Exit and returns).
Pump(c) ==
    /\ handler[c] = "pump"
    /\ LET ms == After(log, sent_up_to[c]) IN
       /\ SendToClient(c, ms)
       /\ dgs2c' = IF ClientOn(c) THEN [dgs2c EXCEPT ![c] = @ \cup Duplicates(c, ms)]
                                  ELSE dgs2c
       /\ sent_up_to' = [sent_up_to EXCEPT ![c] = @ + Len(ms)]
       /\ exit_seq' = IF ms # <<>> /\ ms[Len(ms)].type = "Exit"
                      THEN [exit_seq EXCEPT ![c] = ms[Len(ms)].seq] ELSE exit_seq
    /\ Goto(c, "ack")
    /\ UNCHANGED <<clientVars, c2s, dgc2s, acked_stdin, seen, taskVars, inbound, log,
                   daemonVars>>

\* Reports stdin progress when there is some.
AckStdin(c) ==
    /\ handler[c] = "ack"
    /\ SendToClient(c, IF stdin_applied > acked_stdin[c] THEN <<Ack(stdin_applied)>>
                                                        ELSE <<>>)
    /\ acked_stdin' = [acked_stdin EXCEPT ![c] = IF stdin_applied > @ THEN stdin_applied
                                                                     ELSE @]
    /\ Goto(c, "select")
    /\ UNCHANGED <<clientVars, c2s, dgc2s, dgs2c, sent_up_to, exit_seq, seen, taskVars,
                   inbound, log, daemonVars>>

\* A faulty wait that is woken only once.
NotifiedOnce(c) == seen[c] = 0 /\ Latest(log) # 0

Notified(c) == seen[c] # Latest(log)

\* latest.changed(): only while no Exit has been sent here.
Changed(c) ==
    /\ handler[c] = "select" /\ exit_seq[c] = 0 /\ Notified(c)
    /\ seen' = [seen EXCEPT ![c] = Latest(log)]
    /\ Goto(c, "pump")
    /\ UNCHANGED <<clientVars, wireVars, sent_up_to, acked_stdin, exit_seq, taskVars,
                   inbound, log, daemonVars>>

\* A faulty tick that pings without taking the loop around.
KeepaliveOnlyPings(c) ==
    handler[c] = "select" /\ c \notin QuicConns /\ UNCHANGED vars

\* A keepalive tick on a WebSocket that is still alive.  It takes the loop around,
\* which matters when there is stdin progress to report.
KeepaliveTick(c) ==
    /\ handler[c] = "select" /\ c \notin QuicConns /\ stdin_applied > acked_stdin[c]
    /\ Goto(c, "pump")
    /\ UNCHANGED <<clientVars, wireVars, sent_up_to, acked_stdin, exit_seq, seen, taskVars,
                   inbound, log, daemonVars>>

\* A send to a session task that has ended goes nowhere.
Forward(kind, m) ==
    inbound' = IF task = "running" THEN Append(inbound, [kind |-> kind, msg |-> m])
                                   ELSE inbound

\* A faulty test that takes any acknowledgement for that of the Exit.
ExitSent(c, n) == exit_seq[c] # 0

ExitAcked(c, n) == exit_seq[c] # 0 /\ n >= exit_seq[c]

\* An acknowledgement trims the log; the one that covers the Exit completes the
\* session.
RecvAck(c) ==
    /\ handler[c] = "select" /\ c2s[c] # <<>> /\ Head(c2s[c]).type = "Ack"
    /\ log' = Trim(log, Head(c2s[c]).seq)
    /\ IF ExitAcked(c, Head(c2s[c]).seq)
       THEN registered' = FALSE /\ Close(c)
       ELSE /\ Goto(c, "pump")
            /\ c2s' = [c2s EXCEPT ![c] = Tail(@)]
            /\ UNCHANGED <<registered, dgc2s, sent_up_to, acked_stdin, exit_seq, seen>>
    /\ UNCHANGED <<clientVars, s2c, dgs2c, taskVars, inbound, daemon, record, restarts>>

\* Every other frame goes to the session task.
RecvFrame(c) ==
    /\ handler[c] = "select" /\ c2s[c] # <<>> /\ Head(c2s[c]).type # "Ack"
    /\ Forward("Message", Head(c2s[c]))
    /\ c2s' = [c2s EXCEPT ![c] = Tail(@)]
    /\ Goto(c, "pump")
    /\ UNCHANGED <<clientVars, s2c, dgc2s, dgs2c, sent_up_to, acked_stdin, exit_seq, seen,
                   taskVars, log, daemonVars>>

RecvDatagram(c) ==
    /\ handler[c] = "select"
    /\ \E m \in dgc2s[c] :
          /\ Forward("Datagram", m)
          /\ dgc2s' = [dgc2s EXCEPT ![c] = @ \ {m}]
    /\ Goto(c, "pump")
    /\ UNCHANGED <<clientVars, c2s, s2c, dgs2c, sent_up_to, acked_stdin, exit_seq, seen,
                   taskVars, log, daemonVars>>

\* The connection is closed, fails, or is silent for the keepalive timeout; also
\* a send that fails and a session that cannot be started.  What the client sent
\* and the handler has not read is lost.
Detach(c) ==
    /\ handler[c] \in {"request", "pump", "ack", "select"}
    /\ ~ClientOn(c) \/ LinkMayFail(c)
    /\ Close(c)
    /\ UNCHANGED <<clientVars, s2c, dgs2c, taskVars, inbound, log, daemonVars>>

HandlerNext ==
    \E c \in Conns :
       \/ Accept(c) \/ HandleExec(c) \/ HandleResume(c) \/ Deny(c)
       \/ Pump(c) \/ AckStdin(c) \/ Changed(c) \/ KeepaliveTick(c)
       \/ RecvAck(c) \/ RecvFrame(c) \/ RecvDatagram(c) \/ Detach(c)
=============================================================================
