---------------------------- MODULE ExecStdinInv ----------------------------
(***************************************************************************)
(* The inductive invariant behind the stdin properties of ExecChannel: why *)
(* the child of a session sees its input in order and once, although       *)
(* several connections resend it and share one queue to the session task.  *)
(***************************************************************************)
EXTENDS ExecOutputInv

IsStdin(m) == m.type \in {"Stdin", "StdinEof"}

\* A stdin message as the client made it: numbered, not dropped, and carrying the
\* chunk of its number.
Sound(m) ==
    /\ m.seq \in 1 .. client_seq /\ m.seq \notin dropped
    /\ m.type = "Stdin" => m.data = m.seq

\* What the client keeps for resend.
KeptInv ==
    /\ StdinRetained
    /\ dropped \subseteq 1 .. client_seq
    /\ \A i \in 1 .. Len(sent_stdin) : IsStdin(sent_stdin[i]) /\ Sound(sent_stdin[i])

\* Stdin on its way, in frames, datagrams and the task's queue, is what was kept.
FlightInv ==
    /\ \A c \in Conns : /\ \A i \in 1 .. Len(c2s[c]) : IsStdin(c2s[c][i]) => Sound(c2s[c][i])
                        /\ \A m \in dgc2s[c] : IsStdin(m) => Sound(m)
    /\ \A i \in 1 .. Len(inbound) : IsStdin(inbound[i].msg) => Sound(inbound[i].msg)

\* What has been applied, also by a session that waits in a record.
AppliedInv ==
    /\ StdinInOrder
    /\ stdin_applied <= client_seq
    /\ \A i \in 1 .. Len(child_in) : child_in[i] <= stdin_applied
    /\ record.present => record.stdin_applied = stdin_applied /\ record.stdin = stdin

\* The client is told of nothing that has not been applied.
ToldInv ==
    \A c \in Conns : \A i \in 1 .. Len(s2c[c]) :
       s2c[c][i].type = "Ack" => s2c[c][i].seq <= stdin_applied

\* Nobody is attached before there is a session.
NoSessionInv ==
    task = "none" =>
       /\ ~registered /\ ~resume_token /\ client_seq = 0
       /\ \A c \in Conns : ~Active(c)
       /\ \A c \in Conns : \A i \in 1 .. Len(s2c[c]) : s2c[c][i].type # "Started"

\* No stdin is sent on a connection before its handler is in the loop of attach.
Pending(c) == handler[c] \in {"none", "queued", "request"}

PendingInv ==
    \A c \in Conns : Pending(c) =>
       /\ ~(phase = "attached" /\ conn = c)
       /\ \A i \in 1 .. Len(c2s[c]) : ~IsStdin(c2s[c][i])
       /\ \A i \in 1 .. Len(s2c[c]) : s2c[c][i].type # "Started"

\* The task and its queue end with the process.
StoppedInv == daemon = "down" => task # "running" /\ inbound = <<>>

\* Message k is among the first i frames of queue q, or of the task's inputs.
Holds(q, i, k) == \E j \in 1 .. i : IsStdin(q[j]) /\ q[j].seq = k
Queued(q, i, k) ==
    \E j \in 1 .. i : q[j].kind = "Message" /\ IsStdin(q[j].msg) /\ q[j].msg.seq = k

\* The task's queue skips nothing: what is missing before a message has been
\* applied or dropped, or is ahead of it.
QueueInv ==
    task = "running" =>
       \A i \in 1 .. Len(inbound) : inbound[i].kind = "Message" /\ IsStdin(inbound[i].msg) =>
          \A k \in stdin_applied + 1 .. inbound[i].msg.seq - 1 :
             k \in dropped \/ Queued(inbound, i - 1, k)

\* Nor does any connection whose handler feeds that queue, nor what the client has
\* sent on the one it uses.
FlowInv ==
    task = "running" => \A c \in Conns : Active(c) =>
       /\ \A i \in 1 .. Len(c2s[c]) : IsStdin(c2s[c][i]) =>
             \A k \in stdin_applied + 1 .. c2s[c][i].seq - 1 :
                k \in dropped \/ Holds(c2s[c], i - 1, k) \/ Queued(inbound, Len(inbound), k)
       /\ conn = c /\ phase = "attached" =>
             \A k \in stdin_applied + 1 .. client_seq :
                k \in dropped \/ Holds(c2s[c], Len(c2s[c]), k) \/ Queued(inbound, Len(inbound), k)

StdinInv ==
    /\ KeptInv /\ FlightInv /\ AppliedInv /\ ToldInv /\ NoSessionInv /\ PendingInv
    /\ StoppedInv /\ QueueInv /\ FlowInv
=============================================================================
