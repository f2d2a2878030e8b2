---------------------------- MODULE AgentForward ----------------------------
(***************************************************************************)
(* Forwarding of the SSH agent (server/src/agent.rs, client/src/agent.rs). *)
(* Programs on the server connect to the hub's socket; each connection is  *)
(* relayed under an id over an agent channel, and the client at its other  *)
(* end dials its own agent for it.  Clients come and go: channels are      *)
(* numbered in the order they are opened, and a channel the server still   *)
(* serves may have been given up by its client or replaced by a later one. *)
(*                                                                         *)
(* A chunk of data is named by the program that wrote it and its position  *)
(* in what that program wrote; an agent (external) answers the requests of *)
(* one connection in order, and an answer has the name of its request.     *)
(* Two queues in a row that one task moves messages between are one queue: *)
(* down is channel_rx and the wire, up is outbound_rx and the wire.        *)
(***************************************************************************)
EXTENDS Naturals, Sequences

CONSTANTS
    MaxPrograms,     \* bound: connections to the hub's socket
    MaxChannels,     \* bound: agent channels the clients open
    MaxRequests      \* bound: chunks each program writes

Programs == 1 .. MaxPrograms

ASSUME AgentBounds ==
    MaxPrograms \in Nat /\ MaxChannels \in Nat /\ MaxRequests \in [Programs -> Nat]

Channels == 1 .. MaxChannels
Ids == 1 .. MaxPrograms
None == 0

VARIABLES
    (* server: AgentHub and its tasks *)
    channel,      \* the channel the hub sends to, or None
    streams,      \* program connected to the write half stored under each id, or None
    next_id,
    prog, id,     \* relay_agent_stream of each program: where it is, and its id
    write,        \* data the channels have queued for each program
    srv,          \* handle_agent_channel of each channel: where it is
    (* the channels *)
    down, up,     \* messages in flight to and from the client
    (* client, per channel and id *)
    cli,          \* relay_agent_channel: where it is
    cstreams,     \* the ids it has a stream for
    dialed,       \* relay_agent_stream: where it is
    cwrite,       \* data queued for the agent
    (* histories *)
    asked,        \* how many chunks each program has written
    got,          \* the chunks each program was answered with
    agent_got,    \* the chunks each open agent connection received
    replied,      \* how many of them the agent has answered
    opened_on,    \* the channel each program's AgentOpen went to
    newest        \* the channel attached last

hubVars == <<channel, streams, next_id>>
wireVars == <<down, up>>
clientVars == <<cli, cstreams, dialed, cwrite>>
agentVars == <<agent_got, replied>>
vars == <<hubVars, prog, id, write, srv, wireVars, clientVars, asked, got, agentVars, opened_on,
          newest>>

\* The link of channel c may fail: the last channel is kept, so that running out of
\* channels is not mistaken for clients that stopped trying.
LinkMayFail(c) == c < MaxChannels

AgentOpen(i) == [type |-> "AgentOpen", id |-> i, data |-> <<>>]
AgentData(i, data) == [type |-> "AgentData", id |-> i, data |-> data]
AgentClose(i) == [type |-> "AgentClose", id |-> i, data |-> <<>>]

AgentInit ==
    /\ channel = None /\ next_id = 1 /\ newest = None
    /\ streams = [i \in Ids |-> None]
    /\ prog = [p \in Programs |-> "idle"] /\ id = [p \in Programs |-> None]
    /\ write = [p \in Programs |-> <<>>]
    /\ srv = [c \in Channels |-> "none"] /\ cli = [c \in Channels |-> "none"]
    /\ down = [c \in Channels |-> <<>>] /\ up = [c \in Channels |-> <<>>]
    /\ cstreams = [c \in Channels |-> {}]
    /\ dialed = [c \in Channels |-> [i \in Ids |-> "none"]]
    /\ cwrite = [c \in Channels |-> [i \in Ids |-> <<>>]]
    /\ asked = [p \in Programs |-> 0] /\ got = [p \in Programs |-> <<>>]
    /\ agent_got = [c \in Channels |-> [i \in Ids |-> <<>>]]
    /\ replied = [c \in Channels |-> [i \in Ids |-> 0]]
    /\ opened_on = [p \in Programs |-> None]

-----------------------------------------------------------------------------
(* Server: one connection of a program (relay_agent_stream)                 *)

\* Hands m to the channel.  A handler that has left its loop reads no more.
SendToChannel(m) ==
    down' = IF channel # None /\ srv[channel] = "attached" /\ cli[channel] = "relay"
            THEN [down EXCEPT ![channel] = Append(@, m)] ELSE down

RelayGoto(p, where) == prog' = [prog EXCEPT ![p] = where]

Accept(p) ==
    /\ prog[p] = "idle" /\ (p > 1 => prog[p - 1] # "idle")
    /\ RelayGoto(p, "waiting")
    /\ UNCHANGED <<hubVars, id, write, srv, wireVars, clientVars, asked, got, agentVars,
                   opened_on, newest>>

\* channel_attached gives up after CHANNEL_WAIT.
NoChannel(p) ==
    /\ prog[p] = "waiting" /\ channel = None
    /\ RelayGoto(p, "refused")
    /\ UNCHANGED <<hubVars, id, write, srv, wireVars, clientVars, asked, got, agentVars,
                   opened_on, newest>>

\* next_id.fetch_add, and a faulty one that hands out the same id again.
SameId == next_id
IdAfter == next_id + 1

\* A channel is attached: take an id and store the write half under it.
Register(p) ==
    /\ prog[p] = "waiting" /\ channel # None
    /\ id' = [id EXCEPT ![p] = next_id] /\ next_id' = IdAfter
    /\ streams' = [streams EXCEPT ![next_id] = p]
    /\ RelayGoto(p, "opening")
    /\ UNCHANGED <<channel, write, srv, wireVars, clientVars, asked, got, agentVars, opened_on,
                   newest>>

\* The write half is removed if the connection cannot be announced; a faulty Open
\* leaves it behind.
LeftBehind(p) == streams
Announced(p) == IF channel = None THEN [streams EXCEPT ![id[p]] = None] ELSE streams

\* Announces the connection; the channel may have gone since.
Open(p) ==
    /\ prog[p] = "opening"
    /\ SendToChannel(AgentOpen(id[p])) /\ streams' = Announced(p)
    /\ RelayGoto(p, IF channel = None THEN "refused" ELSE "relay")
    /\ opened_on' = [opened_on EXCEPT ![p] = channel]
    /\ UNCHANGED <<channel, next_id, id, write, srv, up, clientVars, asked, got, agentVars,
                   newest>>

\* Data from the program; without a channel the connection is over.
ReadProgram(p) ==
    /\ prog[p] = "relay" /\ asked[p] < MaxRequests[p]
    /\ asked' = [asked EXCEPT ![p] = @ + 1]
    /\ SendToChannel(AgentData(id[p], <<p, asked[p] + 1>>))
    /\ RelayGoto(p, IF channel = None THEN "closing" ELSE "relay")
    /\ UNCHANGED <<hubVars, id, write, srv, up, clientVars, got, agentVars, opened_on, newest>>

WriteProgram(p) ==
    /\ prog[p] = "relay" /\ write[p] # <<>>
    /\ got' = [got EXCEPT ![p] = Append(@, Head(write[p]))]
    /\ write' = [write EXCEPT ![p] = Tail(@)]
    /\ UNCHANGED <<hubVars, prog, id, srv, wireVars, clientVars, asked, agentVars, opened_on,
                   newest>>

\* The loop ends: the program closes or cannot be written to, or write_rx.recv() is
\* None because the write half is gone and all its data has been written.
LeaveRelay(p, programCloses) ==
    /\ prog[p] = "relay"
    /\ programCloses \/ (write[p] = <<>> /\ streams[id[p]] # p)
    /\ RelayGoto(p, "closing")
    /\ UNCHANGED <<hubVars, id, write, srv, wireVars, clientVars, asked, got, agentVars,
                   opened_on, newest>>

\* The client is told of the end; a faulty Finish does not tell it.
CloseUnannounced(p) == UNCHANGED down
AnnounceClose(p) == SendToChannel(AgentClose(id[p]))

Finish(p) ==
    /\ prog[p] = "closing"
    /\ RelayGoto(p, "done")
    /\ streams' = [streams EXCEPT ![id[p]] = None] /\ write' = [write EXCEPT ![p] = <<>>]
    /\ AnnounceClose(p)
    /\ UNCHANGED <<channel, next_id, id, srv, up, clientVars, asked, got, agentVars, opened_on,
                   newest>>

-----------------------------------------------------------------------------
(* Server: one agent channel (handle_connection, handle_agent_channel)      *)

\* The channel replaces whatever channel the hub had.
Attach(c) ==
    /\ srv[c] = "none" /\ cli[c] # "none"
    /\ srv' = [srv EXCEPT ![c] = "attached"] /\ channel' = c /\ newest' = c
    /\ UNCHANGED <<streams, next_id, prog, id, write, wireVars, clientVars, asked, got,
                   agentVars, opened_on>>

\* Unknown resume token, or a session without forwarding; also a connection that
\* is lost before its request is read.
Deny(c) ==
    /\ srv[c] = "none" /\ cli[c] # "none"
    /\ srv' = [srv EXCEPT ![c] = "closed"]
    /\ UNCHANGED <<hubVars, prog, id, write, wireVars, clientVars, asked, got, agentVars,
                   opened_on, newest>>

\* A message from the client.  One for an id that has no write half is dropped.
RecvFromClient(c) ==
    /\ srv[c] = "attached" /\ up[c] # <<>>
    /\ LET m == Head(up[c]) IN
       /\ write' = IF m.type = "AgentData" /\ streams[m.id] # None
                   THEN [write EXCEPT ![streams[m.id]] = Append(@, m.data)] ELSE write
       /\ streams' = IF m.type = "AgentClose" THEN [streams EXCEPT ![m.id] = None] ELSE streams
    /\ up' = [up EXCEPT ![c] = Tail(@)]
    /\ UNCHANGED <<channel, next_id, prog, id, srv, down, clientVars, asked, got, agentVars,
                   opened_on, newest>>

\* The connection is closed or fails, and the loop ends.
EndChannel(c) ==
    /\ srv[c] = "attached" /\ LinkMayFail(c)
    /\ srv' = [srv EXCEPT ![c] = "ended"] /\ up' = [up EXCEPT ![c] = <<>>]
    /\ UNCHANGED <<hubVars, prog, id, write, down, clientVars, asked, got, agentVars, opened_on,
                   newest>>

\* The hub forgets the channel unless it has been replaced.  Faulty forms forget
\* the replacement too, or nothing.
ForgetAny(c) == None
ForgetNothing(c) == channel
Forget(c) == IF channel = c THEN None ELSE channel

Detach(c) ==
    /\ srv[c] = "ended"
    /\ srv' = [srv EXCEPT ![c] = "closed"] /\ channel' = Forget(c)
    /\ UNCHANGED <<streams, next_id, prog, id, write, wireVars, clientVars, asked, got,
                   agentVars, opened_on, newest>>

-----------------------------------------------------------------------------
(* Client: one agent channel (forward_agent, relay_agent_channel)           *)

\* A client connects, or connects again: some other channel may still be open.
OpenChannel(c) ==
    /\ cli[c] = "none" /\ (c > 1 => cli[c - 1] # "none")
    /\ cli' = [cli EXCEPT ![c] = "relay"]
    /\ UNCHANGED <<hubVars, prog, id, write, srv, wireVars, cstreams, dialed, cwrite, asked, got,
                   agentVars, opened_on, newest>>

RecvFromServer(c) ==
    /\ cli[c] = "relay" /\ down[c] # <<>>
    /\ LET m == Head(down[c]) IN
       /\ cstreams' = [cstreams EXCEPT ![c] = CASE m.type = "AgentOpen"  -> @ \cup {m.id}
                                                [] m.type = "AgentClose" -> @ \ {m.id}
                                                [] OTHER                 -> @]
       /\ dialed' = IF m.type = "AgentOpen" THEN [dialed EXCEPT ![c][m.id] = "dial"] ELSE dialed
       /\ cwrite' = IF m.type = "AgentData" /\ m.id \in cstreams[c] /\ dialed[c][m.id] # "none"
                    THEN [cwrite EXCEPT ![c][m.id] = Append(@, m.data)] ELSE cwrite
    /\ down' = [down EXCEPT ![c] = Tail(@)]
    /\ UNCHANGED <<hubVars, prog, id, write, srv, up, cli, asked, got, agentVars, opened_on,
                   newest>>

\* The connection drops, or the exec returns and aborts the forwarding.
LeaveChannel(c) ==
    /\ cli[c] = "relay" /\ LinkMayFail(c)
    /\ cli' = [cli EXCEPT ![c] = "gone"] /\ cstreams' = [cstreams EXCEPT ![c] = {}]
    /\ down' = [down EXCEPT ![c] = <<>>]
    /\ UNCHANGED <<hubVars, prog, id, write, srv, up, dialed, cwrite, asked, got, agentVars,
                   opened_on, newest>>

-----------------------------------------------------------------------------
(* Client: one connection to the agent (relay_agent_stream)                 *)

\* Sends on the channel while it lives.
SendToServer(c, m) ==
    up' = IF cli[c] = "relay" /\ srv[c] = "attached" THEN [up EXCEPT ![c] = Append(@, m)]
                                                     ELSE up

\* The task returns, and its connection to the agent is closed.
EndStream(c, i) ==
    /\ dialed' = [dialed EXCEPT ![c][i] = "none"] /\ cwrite' = [cwrite EXCEPT ![c][i] = <<>>]
    /\ agent_got' = [agent_got EXCEPT ![c][i] = <<>>] /\ replied' = [replied EXCEPT ![c][i] = 0]

Dial(c, i) ==
    /\ dialed[c][i] = "dial"
    /\ dialed' = [dialed EXCEPT ![c][i] = "relay"]
    /\ UNCHANGED <<hubVars, prog, id, write, srv, wireVars, cli, cstreams, cwrite, asked, got,
                   agentVars, opened_on, newest>>

\* The server is told of an agent that is gone; a faulty client does not tell it.
LossUnreported(c, i) == UNCHANGED up
ReportLoss(c, i) == SendToServer(c, AgentClose(i))

\* The agent cannot be dialed, closes, or cannot be written to.
AgentLost(c, i) ==
    /\ dialed[c][i] \in {"dial", "relay"}
    /\ EndStream(c, i) /\ ReportLoss(c, i)
    /\ UNCHANGED <<hubVars, prog, id, write, srv, down, cli, cstreams, asked, got, opened_on,
                   newest>>

\* The order write_rx gives data out in, and a faulty one.
NewestData(c, i) == cwrite[c][i][Len(cwrite[c][i])]
NextData(c, i) == Head(cwrite[c][i])

WriteAgent(c, i) ==
    /\ dialed[c][i] = "relay" /\ cwrite[c][i] # <<>>
    /\ agent_got' = [agent_got EXCEPT ![c][i] = Append(@, NextData(c, i))]
    /\ cwrite' = [cwrite EXCEPT ![c][i] = Tail(@)]
    /\ UNCHANGED <<hubVars, prog, id, write, srv, wireVars, cli, cstreams, dialed, asked, got,
                   replied, opened_on, newest>>

\* The agent answers its next request; without a channel the task returns.
ReadAgent(c, i) ==
    /\ dialed[c][i] = "relay" /\ replied[c][i] < Len(agent_got[c][i])
    /\ IF cli[c] = "relay"
       THEN /\ SendToServer(c, AgentData(i, agent_got[c][i][replied[c][i] + 1]))
            /\ replied' = [replied EXCEPT ![c][i] = @ + 1]
            /\ UNCHANGED <<dialed, cwrite, agent_got>>
       ELSE EndStream(c, i) /\ UNCHANGED up
    /\ UNCHANGED <<hubVars, prog, id, write, srv, down, cli, cstreams, asked, got, opened_on,
                   newest>>

\* The server closed the stream, or the channel is gone: no answer.
AgentStreamClosed(c, i) ==
    /\ dialed[c][i] = "relay" /\ cwrite[c][i] = <<>> /\ i \notin cstreams[c]
    /\ EndStream(c, i)
    /\ UNCHANGED <<hubVars, prog, id, write, srv, wireVars, cli, cstreams, asked, got, opened_on,
                   newest>>

-----------------------------------------------------------------------------
Next ==
    \/ \E p \in Programs :
          \/ Accept(p) \/ NoChannel(p) \/ Register(p) \/ Open(p) \/ ReadProgram(p)
          \/ WriteProgram(p) \/ Finish(p) \/ \E b \in BOOLEAN : LeaveRelay(p, b)
    \/ \E c \in Channels :
          \/ OpenChannel(c) \/ Attach(c) \/ Deny(c) \/ RecvFromClient(c) \/ EndChannel(c)
          \/ Detach(c) \/ RecvFromServer(c) \/ LeaveChannel(c)
          \/ \E i \in Ids : \/ Dial(c, i) \/ AgentLost(c, i) \/ WriteAgent(c, i)
                            \/ ReadAgent(c, i) \/ AgentStreamClosed(c, i)

Spec == AgentInit /\ [][Next]_vars

-----------------------------------------------------------------------------
Messages ==
    [type : {"AgentOpen", "AgentClose"}, id : Ids, data : {<<>>}]
       \cup [type : {"AgentData"}, id : Ids, data : Seq(Nat)]

\* Every variable has its type; the hub's sender always belongs to a handler that
\* has not returned, so a send through it cannot fail (send_to_channel).
TypeOK ==
    /\ channel \in {None} \cup {c \in Channels : srv[c] \in {"attached", "ended"}}
    /\ streams \in [Ids -> Programs \cup {None}] /\ next_id \in 1 .. MaxPrograms + 1
    /\ prog \in [Programs -> {"idle", "waiting", "opening", "relay", "closing", "done", "refused"}]
    /\ id \in [Programs -> Ids \cup {None}] /\ write \in [Programs -> Seq(Seq(Nat))]
    /\ srv \in [Channels -> {"none", "attached", "ended", "closed"}]
    /\ cli \in [Channels -> {"none", "relay", "gone"}]
    /\ down \in [Channels -> Seq(Messages)] /\ up \in [Channels -> Seq(Messages)]
    /\ cstreams \in [Channels -> SUBSET Ids]
    /\ dialed \in [Channels -> [Ids -> {"none", "dial", "relay"}]]
    /\ cwrite \in [Channels -> [Ids -> Seq(Seq(Nat))]]

\* A program is answered with the answers to its own requests, in order and
\* without a gap, although ids of all programs share the channels, channels are
\* replaced in the middle of a connection, and answers may come from a channel
\* that is no longer the hub's.
AnswersExact ==
    \A p \in Programs : \A n \in 1 .. Len(got[p]) : n <= asked[p] /\ got[p][n] = <<p, n>>

\* An agent sees on one connection an unbroken start of what one program wrote.
RequestsExact ==
    \A c \in Channels, i \in Ids : \A n \in 1 .. Len(agent_got[c][i]) :
       \E p \in Programs : id[p] = i /\ opened_on[p] = c /\ agent_got[c][i][n] = <<p, n>>

\* New connections go to the channel attached last, as long as it is attached: the
\* end of an older channel that the server notices late does not detach it.
NewestServes ==
    /\ newest # None /\ srv[newest] = "attached" => channel = newest
    /\ channel # None => channel = newest

\* The hub keeps a write half only for a connection that is still relayed.
NoStreamLeaked ==
    \A i \in Ids : streams[i] # None =>
       prog[streams[i]] \in {"opening", "relay", "closing"} /\ id[streams[i]] = i

\* On the hub's channel, the client keeps a stream to its agent only for programs
\* still connected: for every other one the AgentClose is on its way.
NoAgentStreamLeaked ==
    channel # None /\ srv[channel] = "attached" =>
       \A i \in cstreams[channel] :
          \/ \E p \in Programs : id[p] = i /\ prog[p] \in {"relay", "closing"}
          \/ \E k \in 1 .. Len(down[channel]) : down[channel][k] = AgentClose(i)

\* The channel a program's connection was announced on still serves it.
Served(p) ==
    /\ channel = opened_on[p] /\ channel # None
    /\ srv[channel] = "attached" /\ cli[channel] = "relay"

\* A request is never stranded: while the channel it was sent on serves the
\* program, an unanswered request is still on its way, or so is the end of the
\* connection.
OnItsWay(p, c, i) ==
    \/ \E k \in 1 .. Len(down[c]) : down[c][k].id = i
    \/ \E k \in 1 .. Len(up[c]) : up[c][k].id = i
    \/ dialed[c][i] = "dial" \/ cwrite[c][i] # <<>> \/ replied[c][i] < Len(agent_got[c][i])
    \/ write[p] # <<>> \/ streams[i] # p

NoRequestStranded ==
    \A p \in Programs :
       prog[p] = "relay" /\ Len(got[p]) < asked[p] /\ Served(p)
          => OnItsWay(p, channel, id[p])
=============================================================================
