---------------------------- MODULE OutboundLog ----------------------------
(***************************************************************************)
(* The replay log of a session (server/src/lib.rs, OutboundLog): the       *)
(* messages the client has not acknowledged.  The entry at index i of      *)
(* buffer carries sequence number trimmed + i.  The watch channel `latest` *)
(* always holds Latest of the log: push and restore are the only writers   *)
(* and trim changes neither side of the sum.                               *)
(***************************************************************************)
EXTENDS Naturals, Sequences

Empty == [trimmed |-> 0, buffer |-> <<>>]

Latest(l) == l.trimmed + Len(l.buffer)

Push(l, m) == [l EXCEPT !.buffer = Append(@, m)]

SaturatingSub(a, b) == IF a >= b THEN a - b ELSE 0

\* A faulty After that skips one entry too many.
AfterSkippingOne(l, seq) ==
    SubSeq(l.buffer, SaturatingSub(seq, l.trimmed) + 2, Len(l.buffer))

\* The entries a connection that has sent everything up to seq still has to send.
After(l, seq) ==
    SubSeq(l.buffer, SaturatingSub(seq, l.trimmed) + 1, Len(l.buffer))

\* How many leading entries an acknowledgement of seq drops.
Dropped(l, seq) ==
    LET behind == SaturatingSub(seq, l.trimmed)
    IN  IF behind <= Len(l.buffer) THEN behind ELSE Len(l.buffer)

\* Faulty Trims: one does not count what it drops, one drops what was not
\* acknowledged.
TrimUncounted(l, seq) ==
    [l EXCEPT !.buffer = SubSeq(@, Dropped(l, seq) + 1, Len(@))]
TrimAll(l, seq) == [trimmed |-> Latest(l), buffer |-> <<>>]

Trim(l, seq) ==
    [trimmed |-> l.trimmed + Dropped(l, seq),
     buffer  |-> SubSeq(l.buffer, Dropped(l, seq) + 1, Len(l.buffer))]
=============================================================================
