----------------------------- MODULE ExecState -----------------------------
(***************************************************************************)
(* State of one resumable exec: the client process that runs it            *)
(* (client/src/lib.rs, run_exec), the connections between client and       *)
(* daemon, the daemon's handler of each connection (server/src/lib.rs,     *)
(* handle_connection and attach), the session task that owns the child     *)
(* process, and the daemon itself, which may be restarted.                 *)
(*                                                                         *)
(* Connections are numbered in the order the client opens them.  The       *)
(* client uses one at a time and never returns to an earlier one, but the  *)
(* daemon may still be working on connections the client has given up.     *)
(***************************************************************************)
EXTENDS Integers, Sequences, Proto, OutboundLog

CONSTANTS
    MaxConns,          \* bound: connections the client opens
    QuicConns,         \* the connections that run over QUIC, the others use WebSocket
    MaxStdin,          \* bound: chunks (EOF included) the client reads from its stdin
    MaxOut,            \* bound: chunks the child writes to stdout and stderr together
    MaxRestarts,       \* bound: daemon restarts
    Codes,             \* exit codes the command may end with
    CommandEnds,       \* whether the command closes its output and ends
    SlowHandover,      \* whether a session may miss the handover deadline of 5 s
    Crashes,           \* whether the daemon may die without shutting down
    LocalErrors        \* whether the client's own stdio may fail

Conns == 1 .. MaxConns

WrapperKilled == 255    \* code reported when the exit pipe ends without a line
NoCode == -1

ASSUME BoundsAssumption ==
    /\ MaxConns \in Nat /\ MaxStdin \in Nat /\ MaxOut \in Nat /\ MaxRestarts \in Nat
    /\ QuicConns \subseteq Conns
    /\ Codes \subseteq 0 .. 255
    /\ CommandEnds \in BOOLEAN /\ SlowHandover \in BOOLEAN /\ Crashes \in BOOLEAN
    /\ LocalErrors \in BOOLEAN

VARIABLES
    (* client: run_exec *)
    phase,             \* where run_exec is
    conn,              \* the connection in use, 0 before the first
    resume_token,      \* whether the client holds a resume token
    stdin_open,        \* stdin.is_some()
    client_seq,        \* sequence number of the last stdin message
    sent_stdin,        \* unacknowledged stdin messages, for resend
    last_server_seq,   \* sequence number of the last output message written
    out,               \* history: the output messages written to stdout/stderr
    code,              \* the exit code returned
    dropped,           \* history: stdin sequence numbers read but neither sent nor kept
    (* wire, per connection *)
    c2s, s2c,          \* frames in flight
    dgc2s, dgs2c,      \* datagram copies in flight
    (* daemon: connection handlers *)
    handler,           \* where the handler is
    sent_up_to, acked_stdin, exit_seq,
    seen,              \* the version of `latest` this handler has observed
    (* daemon: the session *)
    task,              \* life of the session task
    inbound,           \* SessionInput queue
    stdin,             \* stdin.is_some() in the session task
    child_in,          \* history: the chunks written to the child's stdin
    stdin_applied,
    seq,               \* sequence number of the task's last outbound message
    log,
    open,              \* stdout_open and stderr_open
    writer,            \* whether the child still holds the write end of each stream
    exit_code,
    emitted,           \* history: every message pushed into the log
    (* daemon process *)
    daemon, registered, record, restarts

clientVars == <<phase, conn, resume_token, stdin_open, client_seq, sent_stdin,
                last_server_seq, out, code, dropped>>
wireVars == <<c2s, s2c, dgc2s, dgs2c>>
handlerVars == <<handler, sent_up_to, acked_stdin, exit_seq, seen>>
taskVars == <<task, stdin, child_in, stdin_applied, seq, open, writer, exit_code, emitted>>
daemonVars == <<daemon, registered, record, restarts>>
vars == <<clientVars, wireVars, handlerVars, taskVars, inbound, log, daemonVars>>

-----------------------------------------------------------------------------
(* The wire.  A frame sent to an end that is gone is lost.                  *)

\* The client is reading connection c.
ClientOn(c) == conn = c /\ phase \in {"handshake", "attached"}

\* The daemon holds connection c, accepted or still in the listen backlog.
ServerOn(c) == handler[c] \notin {"none", "closed"}

SendToServer(c, ms) ==
    c2s' = IF ServerOn(c) THEN [c2s EXCEPT ![c] = @ \o ms] ELSE c2s

SendToClient(c, ms) ==
    s2c' = IF ClientOn(c) THEN [s2c EXCEPT ![c] = @ \o ms] ELSE s2c

Duplicates(c, ms) ==
    IF c \in QuicConns THEN {ms[i] : i \in {j \in DOMAIN ms : WorthDuplicating(ms[j])}}
                       ELSE {}

\* The link of connection c may fail by itself: a connection is kept in reserve
\* for every restart still to come, so that running out of connections is never
\* mistaken for a client that stopped trying.
LinkMayFail(c) == c + (MaxRestarts - restarts) < MaxConns

NoRecord == [present |-> FALSE, log |-> Empty, stdin_applied |-> 0,
             stdin |-> FALSE, exit_code |-> NoCode]
=============================================================================
