---------------------------- MODULE ExecChannel ----------------------------
(***************************************************************************)
(* One resumable exec, end to end: client, connections, handlers, session  *)
(* task and daemon composed, and what the composition guarantees.          *)
(***************************************************************************)
EXTENDS ExecClient, ExecAttach, ExecTask, ExecDaemon, ExecProperties

Init == ClientInit /\ HandlerInit /\ TaskInit /\ DaemonInit

Next == ClientNext \/ HandlerNext \/ TaskNext \/ DaemonNext

Spec == Init /\ [][Next]_vars

\* The steps a handler takes one after another, and its reading of a frame.
Advance(c) == Accept(c) \/ HandleExec(c) \/ HandleResume(c) \/ Deny(c) \/ Pump(c) \/ AckStdin(c)
Recv(c) == RecvAck(c) \/ RecvFrame(c)

\* What keeps moving.  Client and daemon are tokio tasks, polled when an event is
\* ready, and select! picks at random among ready branches; the kernel delivers
\* what a live connection carries; the supervisor restarts the daemon; a command
\* that can end does.  Nothing is assumed of the user's typing, of failures, or of
\* datagrams.  Alternatives under one WF exclude each other.
Fairness ==
    /\ WF_vars(Connect \/ HandshakeStarted \/ HandshakeDenied \/ ClientRecv)
    /\ WF_vars(phase \in {"handshake", "attached"} /\ ~ServerOn(conn) /\ Disconnect)
    /\ \A c \in Conns :
          /\ WF_vars(Advance(c)) /\ WF_vars(Changed(c))
          /\ WF_vars(Recv(c)) /\ WF_vars(KeepaliveTick(c))
    /\ \A s \in Stdio : WF_vars(TaskEof(s))
    /\ WF_vars(TaskExitCode) /\ WF_vars(TaskStdin \/ TaskHandover)
    /\ WF_vars(AskHandover \/ CollectHandover \/ NoHandover \/ DaemonExit \/ Restart)

FairSpec == Spec /\ Fairness

-----------------------------------------------------------------------------
(* The registry                                                             *)

\* While the daemon stays up, a session leaves the registry only once the client
\* has its exit code (the only sessions.remove of a resumable session besides
\* expiry, on the acknowledgement of the Exit).
RemovedOnlyWhenDelivered ==
    [][registered /\ ~registered' /\ daemon' = "up" => phase = "done"]_vars

-----------------------------------------------------------------------------
(* Stdin                                                                    *)

\* What run_exec's documentation says of stdin: the stream stays byte-exact across
\* reconnects.
StdinByteExact ==
    \A i \in 1 .. Len(child_in) : child_in[i] = i

-----------------------------------------------------------------------------
(* Restarts and termination                                                 *)

\* A restart loses neither output nor the exit code: a session with an exit the
\* client still waits for is known to the restarted daemon.
ExitSurvivesRestart ==
    (daemon = "up" /\ Finished /\ resume_token /\ phase \in {"connect", "handshake"})
       => registered

\* A client is denied only when its session is gone for good.
DeniedOnlyWhenGone ==
    phase = "denied" => ~record.present /\ task # "running"

\* A client that holds a resume token gets its exit code, however often the
\* connection breaks, as long as the daemon is not restarted (no wakeup of the
\* attach loop is lost, no Exit is stranded on a dead connection).
EventuallyReturns == resume_token ~> phase = "done"

\* Stdin handed to a live connection is applied by the session or resent until it
\* is, unless the send failed or the exec is over.
StdinProgress ==
    []<>(\/ Returned
         \/ \A n \in 1 .. client_seq : n <= stdin_applied \/ n \in dropped)

\* The client learns of the stdin that was applied and forgets it: on a WebSocket
\* the keepalive tick takes the attach loop around even when nothing else happens.
\* On QUIC, which has no tick, nothing does.
StdinAcked ==
    []<>(\/ Returned
         \/ conn \in QuicConns
         \/ \A i \in 1 .. Len(sent_stdin) : sent_stdin[i].seq > stdin_applied)

\* run_exec returns, whatever restarts happen.
EventuallyAnswered == <>Returned
=============================================================================
