--------------------------- MODULE ExecOutputInv ---------------------------
(***************************************************************************)
(* The inductive invariant behind the output properties of ExecChannel: why *)
(* a client that resumes over and over still writes every message once and  *)
(* in order.                                                                *)
(***************************************************************************)
EXTENDS ExecProperties

Request(m) == m.type \in {"Exec", "Resume"}
Data(m) == m.type \in Stdio \cup {"Exit"}

\* The handler is in the loop of attach.
Active(c) == handler[c] \in {"pump", "ack", "select"}

\* m is a message the session task has pushed, under its own number.
IsEmitted(m) == m.seq \in 1 .. Len(emitted) /\ m = emitted[m.seq]

\* The session task numbers its messages from 1 and pushes nothing after Exit.
EmittedInv ==
    /\ seq = Len(emitted)
    /\ \A i \in 1 .. Len(emitted) :
          /\ emitted[i].seq = i /\ Data(emitted[i])
          /\ emitted[i].type = "Exit" => i = Len(emitted) /\ task = "ended"

\* There is one session, and while its record exists no task runs it.
SessionInv ==
    /\ LogFaithful
    /\ record.present => task = "handed"
    /\ conn = 0 => task = "none"

\* A request is the first frame of its connection and is answered before the
\* handler attaches; only the first connection asks for a new session.
RequestInv ==
    \A c \in Conns : \A i \in 1 .. Len(c2s[c]) :
       Request(c2s[c][i]) =>
          /\ i = 1 /\ handler[c] \in {"queued", "request"}
          /\ c2s[c][i].type = "Exec" =>
                c = 1 /\ conn # 0 /\ task = "none" /\ c2s[c][i].seq = 0
          /\ ClientOn(c) => /\ phase = "handshake" /\ c2s[c][i].seq = last_server_seq
                            /\ s2c[c] = <<>> /\ dgs2c[c] = {}

\* The client acknowledges only what it has written, and the Exit it returns.
AckInv ==
    \A c \in Conns : \A i \in 1 .. Len(c2s[c]) :
       c2s[c][i].type = "Ack" => c2s[c][i].seq <= last_server_seq \/ phase = "done"

\* Connections carry what was pushed, and nothing before they are opened.
CarriedInv ==
    \A c \in Conns :
       /\ \A i \in 1 .. Len(s2c[c]) : Data(s2c[c][i]) => IsEmitted(s2c[c][i])
       /\ \A m \in dgs2c[c] : IsEmitted(m)
       /\ c > conn => s2c[c] = <<>> /\ dgs2c[c] = {}
       /\ exit_seq[c] # 0 => exit_seq[c] = Len(emitted) /\ Finished

\* Every message after number n that precedes one in queue q is ahead of it in q.
NoGap(q, n) ==
    \A i \in 1 .. Len(q) : Data(q[i]) =>
       \A k \in n + 1 .. q[i].seq - 1 : \E j \in 1 .. i - 1 : Data(q[j]) /\ q[j].seq = k

\* q holds all messages after number n up to m, and none after m.
Covers(q, n, m) ==
    \A k \in n + 1 .. m : \E j \in 1 .. Len(q) : Data(q[j]) /\ q[j].seq = k
Within(q, m) == \A i \in 1 .. Len(q) : Data(q[i]) => q[i].seq <= m

\* What the client reads next has no gap, and what its handler counts as sent has
\* been written or is in the queue.
NoGapInv == \A c \in Conns : ClientOn(c) => NoGap(s2c[c], last_server_seq)

SentInv ==
    \A c \in Conns : ClientOn(c) /\ Active(c) =>
       /\ last_server_seq <= sent_up_to[c] /\ sent_up_to[c] <= Len(emitted)
       /\ Covers(s2c[c], last_server_seq, sent_up_to[c])
       /\ Within(s2c[c], sent_up_to[c])
       /\ \A m \in dgs2c[c] : m.seq <= sent_up_to[c]

\* The client's own bookkeeping.
ClientInv ==
    /\ OutputExact /\ ExitComplete /\ ReplayPossible
    /\ \A i \in 1 .. Len(out) : out[i].type \in Stdio
    /\ \A i \in 1 .. Len(sent_stdin) : sent_stdin[i].type \in {"Stdin", "StdinEof"}
    /\ phase = "attached" => resume_token
    /\ ~resume_token => last_server_seq = 0
    /\ conn = 0 => phase = "connect"
    /\ phase = "connect" /\ ~resume_token => conn = 0

OutputInv ==
    /\ EmittedInv /\ SessionInv /\ RequestInv /\ AckInv /\ CarriedInv
    /\ NoGapInv /\ SentInv /\ ClientInv

\* A daemon that has exited knows no session and serves no connection.
DownInv ==
    daemon = "down" =>
       ~registered /\ \A c \in Conns : handler[c] \in {"none", "queued", "closed"}
=============================================================================
