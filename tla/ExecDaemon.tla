----------------------------- MODULE ExecDaemon -----------------------------
(***************************************************************************)
(* The daemon process across a restart (server/src/lib.rs: serve,          *)
(* shut_down, handover_sessions, restore_sessions).                        *)
(*                                                                         *)
(*   up          accepting connections                                     *)
(*   closing     SIGTERM received, QUIC closed, sessions not yet asked     *)
(*   waiting     waiting for the session's answer                          *)
(*   collected   sessions.json written, fds given to systemd               *)
(*   down        the process has exited                                    *)
(*                                                                         *)
(* Until it exits, the connections and the task of the old process run on. *)
(* The fd store and the runtime directory keep what they are given.        *)
(***************************************************************************)
EXTENDS ExecState

\* The handlers of the connections in cs return.
CloseAll(cs) ==
    /\ handler' = [c \in Conns |-> IF c \in cs THEN "closed" ELSE handler[c]]
    /\ c2s' = [c \in Conns |-> IF c \in cs THEN <<>> ELSE c2s[c]]
    /\ dgc2s' = [c \in Conns |-> IF c \in cs THEN {} ELSE dgc2s[c]]
    /\ sent_up_to' = [c \in Conns |-> IF c \in cs THEN 0 ELSE sent_up_to[c]]
    /\ acked_stdin' = [c \in Conns |-> IF c \in cs THEN 0 ELSE acked_stdin[c]]
    /\ exit_seq' = [c \in Conns |-> IF c \in cs THEN 0 ELSE exit_seq[c]]
    /\ seen' = [c \in Conns |-> IF c \in cs THEN 0 ELSE seen[c]]

DaemonInit == daemon = "up" /\ registered = FALSE /\ record = NoRecord /\ restarts = 0

\* serve stops accepting; shut_down closes every QUIC connection.
Sigterm ==
    /\ daemon = "up" /\ restarts < MaxRestarts
    /\ daemon' = "closing"
    /\ CloseAll({c \in QuicConns : ServerOn(c)})
    /\ UNCHANGED <<clientVars, s2c, dgs2c, taskVars, inbound, log, registered, record,
                   restarts>>

\* Sends the handover request, unless there is no session or its task has ended.
AskHandover ==
    /\ daemon = "closing"
    /\ IF registered /\ task = "running"
       THEN /\ inbound' = Append(inbound, [kind |-> "Handover", msg |-> Ack(0)])
            /\ daemon' = "waiting"
       ELSE daemon' = "collected" /\ UNCHANGED inbound
    /\ UNCHANGED <<clientVars, wireVars, handlerVars, taskVars, log, registered, record,
                   restarts>>

\* The answer is recorded and the session leaves the registry.
CollectHandover ==
    /\ daemon = "waiting" /\ task = "handed"
    /\ daemon' = "collected" /\ registered' = FALSE
    /\ UNCHANGED <<clientVars, wireVars, handlerVars, taskVars, inbound, log, record,
                   restarts>>

\* The task ended before it saw the request, or did not answer within 5 s.
NoHandover ==
    /\ daemon = "waiting"
    /\ task = "ended" \/ (SlowHandover /\ task = "running")
    /\ daemon' = "collected"
    /\ UNCHANGED <<clientVars, wireVars, handlerVars, taskVars, inbound, log, registered,
                   record, restarts>>

\* The process is gone, and with it its connections and its memory.  Connections
\* in the listen backlog stay with the socket.
Gone ==
    /\ daemon' = "down" /\ registered' = FALSE
    /\ CloseAll({c \in Conns : handler[c] \notin {"none", "queued"}})
    /\ task' = IF task = "running" THEN "lost" ELSE task
    /\ inbound' = <<>>
    /\ UNCHANGED <<clientVars, s2c, dgs2c, stdin, child_in, stdin_applied, seq, open,
                   writer, exit_code, emitted, log, restarts>>

DaemonExit == daemon = "collected" /\ Gone /\ UNCHANGED record

\* It dies before sessions.json is written: whatever was collected is lost.
Crash ==
    /\ Crashes /\ restarts < MaxRestarts /\ daemon \in {"up", "closing", "waiting"}
    /\ Gone /\ record' = NoRecord

\* The next instance starts and re-creates the recorded session.  A stream that
\* had ended gets a pipe that is at its end again.
Restart ==
    /\ daemon = "down"
    /\ daemon' = "up" /\ restarts' = restarts + 1
    /\ registered' = record.present
    /\ IF record.present
       THEN /\ task' = "running"
            /\ log' = record.log /\ seq' = Latest(record.log)
            /\ stdin_applied' = record.stdin_applied /\ stdin' = record.stdin
            /\ exit_code' = record.exit_code
            /\ open' = [s \in Stdio |-> TRUE]
       ELSE UNCHANGED <<task, log, seq, stdin_applied, stdin, exit_code, open>>
    /\ record' = NoRecord
    /\ UNCHANGED <<clientVars, wireVars, handlerVars, child_in, writer, emitted, inbound>>

DaemonNext ==
    Sigterm \/ AskHandover \/ CollectHandover \/ NoHandover \/ DaemonExit
    \/ Crash \/ Restart
=============================================================================
