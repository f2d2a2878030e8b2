------------------------------ MODULE AgentInv ------------------------------
(***************************************************************************)
(* The inductive invariant behind the properties of AgentForward: why      *)
(* requests and answers of programs that share channels arrive unbroken,   *)
(* and why nothing is stranded or left behind.                             *)
(***************************************************************************)
EXTENDS AgentForward, FiniteSets

-----------------------------------------------------------------------------
(* Histories and ids                                                        *)

HistoryOK ==
    /\ asked \in [Programs -> Nat] /\ got \in [Programs -> Seq(Seq(Nat))]
    /\ agent_got \in [Channels -> [Ids -> Seq(Seq(Nat))]]
    /\ replied \in [Channels -> [Ids -> Nat]]
    /\ opened_on \in [Programs -> Channels \cup {None}]
    /\ newest \in Channels \cup {None}

\* Every program that registers gets an id of its own.
IdInv ==
    /\ \A p \in Programs : prog[p] \in {"idle", "waiting"} => id[p] = None
    /\ \A p \in Programs : id[p] = None => prog[p] \in {"idle", "waiting", "refused"}
    /\ \A p \in Programs : id[p] < next_id
    /\ \A p, q \in Programs : id[p] = id[q] /\ id[p] # None => p = q
    /\ Cardinality({p \in Programs : id[p] # None}) = next_id - 1

-----------------------------------------------------------------------------
(* Channels and what they carry                                             *)

\* A side that does not read has nothing on the way to it.
ChannelInv ==
    \A c \in Channels :
       /\ cli[c] = "none" => srv[c] = "none"
       /\ cli[c] # "relay" \/ srv[c] = "none" => down[c] = <<>> /\ cstreams[c] = {}
       /\ srv[c] # "attached" => up[c] = <<>>

\* A program writes only after its connection was announced on some channel.
OpenedInv ==
    \A p \in Programs :
       /\ prog[p] \in {"relay", "closing", "done"} <=> opened_on[p] # None
       /\ opened_on[p] # None => srv[opened_on[p]] # "none"
       /\ opened_on[p] = None => asked[p] = 0

Carried(q, m) == \E k \in 1 .. Len(q) : q[k] = m
About(q, i) == \E k \in 1 .. Len(q) : q[k].id = i

\* No message about i comes before its AgentOpen.
OpenFirst(q, i) ==
    \A k \in 1 .. Len(q) : q[k] = AgentOpen(i) => \A j \in 1 .. k - 1 : q[j].id # i

\* A client knows of an id only by its AgentOpen.
Known(c, i) ==
    \/ i \in cstreams[c] \/ dialed[c][i] # "none" \/ Carried(down[c], AgentOpen(i))
    \/ About(up[c], i)

OwnerInv ==
    \A c \in Channels, i \in Ids :
       /\ Known(c, i) => \E p \in Programs : id[p] = i /\ opened_on[p] = c
       /\ About(down[c], i) => \E p \in Programs : id[p] = i /\ opened_on[p] # None

\* Without a task there is nothing for the agent or from it.
TaskInv ==
    \A c \in Channels, i \in Ids :
       /\ dialed[c][i] # "relay" => agent_got[c][i] = <<>>
       /\ dialed[c][i] = "none" => cwrite[c][i] = <<>>
       /\ replied[c][i] <= Len(agent_got[c][i])

\* Before AgentOpen arrives nothing has happened under its id.
FirstInv ==
    \A c \in Channels, i \in Ids :
       /\ OpenFirst(down[c], i)
       /\ Carried(down[c], AgentOpen(i)) =>
            dialed[c][i] = "none" /\ i \notin cstreams[c] /\ ~About(up[c], i)
       /\ \A p \in Programs : id[p] = i =>
            /\ Carried(down[c], AgentOpen(i)) => got[p] = <<>> /\ write[p] = <<>>
            /\ Carried(down[c], AgentClose(i)) => prog[p] = "done"

\* For a client of the hub's channel, every stream announced ends with AgentClose.
LeakInv ==
    channel # None /\ srv[channel] = "attached" =>
       \A i \in Ids : i \in cstreams[channel] \/ Carried(down[channel], AgentOpen(i)) =>
          \/ \E p \in Programs : id[p] = i /\ prog[p] \in {"relay", "closing"}
          \/ Carried(down[channel], AgentClose(i))

-----------------------------------------------------------------------------
(* Requests and answers                                                     *)

\* The messages of q about i with data are chunks of p above n and up to max; what
\* is missing before one comes earlier, and none comes twice.
Chunk(q, k, i, p, n) == q[k].type = "AgentData" /\ q[k].id = i /\ q[k].data = <<p, n>>

Unbroken(q, i, p, n, max) ==
    \A k \in 1 .. Len(q) : q[k].type = "AgentData" /\ q[k].id = i =>
       \E m \in n + 1 .. max :
          /\ Chunk(q, k, i, p, m)
          /\ \A l \in n + 1 .. m - 1 : \E j \in 1 .. k - 1 : Chunk(q, j, i, p, l)
          /\ \A j \in 1 .. k - 1 : ~Chunk(q, j, i, p, m)

\* Everything above n up to max is in q.
Complete(q, i, p, n, max) ==
    \A m \in n + 1 .. max : \E k \in 1 .. Len(q) : Chunk(q, k, i, p, m)

\* s continues the chunks of p behind the first n.
Continues(s, p, n) == \A k \in 1 .. Len(s) : s[k] = <<p, n + k>>

\* The client will take requests for i from channel c.
Live(c, i) ==
    Carried(down[c], AgentOpen(i)) \/ (i \in cstreams[c] /\ dialed[c][i] # "none")

Taken(c, i) == Len(agent_got[c][i]) + Len(cwrite[c][i])
Returned(p) == Len(got[p]) + Len(write[p])

RequestInv ==
    \A p \in Programs : opened_on[p] # None =>
       LET c == opened_on[p]
           i == id[p]
       IN  /\ Taken(c, i) <= asked[p]
           /\ Continues(agent_got[c][i], p, 0)
           /\ Continues(cwrite[c][i], p, Len(agent_got[c][i]))
           /\ Live(c, i) => Unbroken(down[c], i, p, Taken(c, i), asked[p])
           /\ Live(c, i) /\ Served(p) /\ prog[p] = "relay" =>
                Complete(down[c], i, p, Taken(c, i), asked[p])

AnswerInv ==
    \A p \in Programs :
       /\ Returned(p) <= asked[p]
       /\ Continues(got[p], p, 0)
       /\ Continues(write[p], p, Len(got[p]))
       /\ opened_on[p] # None =>
            LET c == opened_on[p]
                i == id[p]
            IN  streams[i] = p =>
                  /\ Unbroken(up[c], i, p, Returned(p), asked[p])
                  /\ dialed[c][i] # "none" /\ cli[c] = "relay" /\ srv[c] = "attached" =>
                       /\ Returned(p) <= replied[c][i]
                       /\ Unbroken(up[c], i, p, Returned(p), replied[c][i])
                       /\ Complete(up[c], i, p, Returned(p), replied[c][i])

\* A connection that is served ends only with an AgentClose.
EndInv ==
    \A p \in Programs : Served(p) /\ prog[p] = "relay" /\ streams[id[p]] = p =>
       Live(channel, id[p]) \/ Carried(up[channel], AgentClose(id[p]))

AgentInvariant ==
    /\ TypeOK /\ HistoryOK /\ IdInv /\ NewestServes /\ NoStreamLeaked
    /\ ChannelInv /\ OpenedInv /\ OwnerInv /\ TaskInv /\ FirstInv /\ LeakInv
    /\ RequestInv /\ AnswerInv /\ EndInv
=============================================================================
