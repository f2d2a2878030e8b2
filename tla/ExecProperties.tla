--------------------------- MODULE ExecProperties ---------------------------
(***************************************************************************)
(* What every state of an exec satisfies: the types of the variables, and  *)
(* what the two directions of the channel guarantee.                       *)
(***************************************************************************)
EXTENDS ExecState

-----------------------------------------------------------------------------
(* Types                                                                    *)

Log == [trimmed : Nat, buffer : Seq(ChannelMessage)]

ClientTypeOK ==
    /\ phase \in {"connect", "handshake", "attached", "done", "denied", "failed"}
    /\ conn \in 0 .. MaxConns
    /\ phase \in {"handshake", "attached"} => conn \in Conns
    /\ resume_token \in BOOLEAN /\ stdin_open \in BOOLEAN
    /\ client_seq \in Nat /\ sent_stdin \in Seq(ChannelMessage)
    /\ dropped \subseteq Nat
    /\ last_server_seq \in Nat /\ out \in Seq(ChannelMessage)
    /\ code \in Nat \cup {NoCode}

WireTypeOK ==
    /\ c2s \in [Conns -> Seq(ChannelMessage)] /\ s2c \in [Conns -> Seq(ChannelMessage)]
    /\ dgc2s \in [Conns -> SUBSET ChannelMessage]
    /\ dgs2c \in [Conns -> SUBSET ChannelMessage]

HandlerTypeOK ==
    /\ handler \in [Conns -> {"none", "queued", "request", "pump", "ack", "select",
                              "closed"}]
    /\ sent_up_to \in [Conns -> Nat] /\ acked_stdin \in [Conns -> Nat]
    /\ exit_seq \in [Conns -> Nat] /\ seen \in [Conns -> Nat]

SessionTypeOK ==
    /\ task \in {"none", "running", "ended", "handed", "lost"}
    /\ stdin \in BOOLEAN /\ child_in \in Seq(Nat) /\ stdin_applied \in Nat
    /\ seq \in Nat /\ emitted \in Seq(ChannelMessage)
    /\ open \in [Stdio -> BOOLEAN] /\ writer \in [Stdio -> BOOLEAN]
    /\ exit_code \in Nat \cup {NoCode}

Inputs == [kind : {"Message", "Datagram", "Handover"}, msg : ChannelMessage]

Records == [present : BOOLEAN, log : Log, stdin_applied : Nat, stdin : BOOLEAN,
            exit_code : Nat \cup {NoCode}]

DaemonTypeOK ==
    /\ daemon \in {"up", "closing", "waiting", "collected", "down"}
    /\ registered \in BOOLEAN /\ restarts \in Nat /\ record \in Records

\* Every variable has its type; in particular the client is connected only on
\* connections there are, and an exit code is known whenever one is sent.
TypeOK ==
    /\ ClientTypeOK /\ WireTypeOK /\ HandlerTypeOK /\ SessionTypeOK
    /\ inbound \in Seq(Inputs) /\ log \in Log /\ DaemonTypeOK

-----------------------------------------------------------------------------
(* Output: child to client                                                  *)

Finished == emitted # <<>> /\ emitted[Len(emitted)].type = "Exit"

\* The replay log is the unacknowledged end of everything the session task ever
\* pushed, each entry under the number the client knows it by; so is the record a
\* restarting daemon leaves behind.  (The comment of OutboundLog, and the
\* numbering session_task takes over from the restored log.)
LogMatches(l) ==
    /\ Latest(l) = Len(emitted)
    /\ \A i \in 1 .. Len(l.buffer) :
          /\ l.buffer[i] = emitted[l.trimmed + i]
          /\ l.buffer[i].seq = l.trimmed + i

LogFaithful ==
    /\ LogMatches(log)
    /\ record.present => LogMatches(record.log)

\* The client has written exactly the first last_server_seq messages of the
\* session, in order, without gap or repetition, whatever connections, datagram
\* copies, replays and restarts delivered them (is_next, attach, OutboundLog).
OutputExact ==
    /\ Len(out) = last_server_seq
    /\ last_server_seq <= Len(emitted)
    /\ \A i \in 1 .. last_server_seq : out[i] = emitted[i]

\* When run_exec returns a code, it is the code of the session's Exit and all
\* output before it has been written (Exit is accepted without an is_next test).
ExitComplete ==
    phase = "done" =>
       /\ Finished
       /\ code = emitted[Len(emitted)].data
       /\ last_server_seq = Len(emitted) - 1

\* The daemon drops from the log, and from the record it hands over, nothing the
\* client may still ask for with Resume (trim by acknowledgement, also by one that
\* arrives late on a connection the client has left).
ReplayPossible ==
    phase # "done" =>
       /\ log.trimmed <= last_server_seq
       /\ record.present => record.log.trimmed <= last_server_seq

-----------------------------------------------------------------------------
(* Stdin: client to child                                                   *)

\* Every stdin message the client has read is known to be applied, or is kept for
\* resend in sequence order, or was dropped by a send that failed.
StdinRetained ==
    /\ \A i \in 1 .. Len(sent_stdin) : \A j \in 1 .. i - 1 :
          sent_stdin[j].seq < sent_stdin[i].seq
    /\ \A n \in 1 .. client_seq :
          \/ n <= stdin_applied
          \/ n \in dropped
          \/ \E i \in 1 .. Len(sent_stdin) : sent_stdin[i].seq = n

\* The child gets the client's chunks in order and once each, with no gap but for
\* those a failed send dropped, however frames, datagrams and resends over several
\* connections interleave (session_task's test of seq against last_client_seq).
StdinInOrder ==
    /\ \A i \in 1 .. Len(child_in) : \A j \in 1 .. i - 1 : child_in[j] < child_in[i]
    /\ stdin => {child_in[i] : i \in 1 .. Len(child_in)} = (1 .. stdin_applied) \ dropped

-----------------------------------------------------------------------------
(* The promise about output                                                 *)

\* The items behind a sequence of messages.
Items(ms) == [i \in 1 .. Len(ms) |-> [type |-> ms[i].type, data |-> ms[i].data]]

Abstract == INSTANCE ReliableExec WITH
    produced  <- Items(emitted),
    delivered <- Items(out) \o
                 (IF phase = "done" THEN <<[type |-> "Exit", data |-> code]>> ELSE <<>>),
    result    <- IF phase = "done" THEN "returned"
                 ELSE IF phase \in {"denied", "failed"} THEN "gave up" ELSE "waiting"

\* Connections, acknowledgements, replays, datagrams and restarts together deliver
\* what an exec promises: every chunk once and in order, then the code.
ImplementsReliableExec == Abstract!AbsSpec
=============================================================================
