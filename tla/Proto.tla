------------------------------- MODULE Proto -------------------------------
(***************************************************************************)
(* The messages of an exec channel (proto/src/lib.rs).  Every message is a *)
(* record of the same shape; payloads are abstracted to the name of the    *)
(* chunk they carry (its position in the stream it was read from) and, for *)
(* Exit, to the exit code.  The authentication exchange (Hello, Welcome)   *)
(* carries nothing the channel's state depends on and is left to the       *)
(* authentication model; agent messages travel on channels of their own.   *)
(***************************************************************************)
EXTENDS Naturals

Stdio == {"Stdout", "Stderr"}

ChannelMessage == [type : {"Started", "Denied", "Stdin", "StdinEof", "Stdout",
                           "Stderr", "Exit", "Ack", "Exec", "Resume"},
                   seq : Nat, data : Nat]

Msg(type, seq, data) == [type |-> type, seq |-> seq, data |-> data]

\* The two requests that open a channel.
Exec == Msg("Exec", 0, 0)
Resume(last_seq_seen) == Msg("Resume", last_seq_seen, 0)

\* Answers to a request.
Started == Msg("Started", 0, 0)
Denied == Msg("Denied", 0, 0)

Stdin(seq, data) == Msg("Stdin", seq, data)
StdinEof(seq) == Msg("StdinEof", seq, 0)
Output(stream, seq, data) == Msg(stream, seq, data)
Exit(seq, code) == Msg("Exit", seq, code)
Ack(seq) == Msg("Ack", seq, 0)

\* Small stdio messages are also sent as datagrams.  The size test (512 bytes)
\* is abstracted: a message too large to duplicate is one whose datagram copy
\* is lost.
WorthDuplicating(m) == m.type \in {"Stdin"} \cup Stdio
=============================================================================
