---------------------------- MODULE AgentProofs -----------------------------
(***************************************************************************)
(* Agent forwarding keeps its promises for any number of programs and      *)
(* channels: AgentInvariant is inductive, and the invariants of            *)
(* AgentForward follow from it.                                            *)
(***************************************************************************)
EXTENDS AgentLemmas

-----------------------------------------------------------------------------
(* Requests                                                                 *)

\* RequestInv for one program, whose connection was announced on c as i.
Requested(p, c, i) ==
  /\ Taken(c, i) <= asked[p]
  /\ Continues(agent_got[c][i], p, 0)
  /\ Continues(cwrite[c][i], p, Len(agent_got[c][i]))
  /\ Live(c, i) => Unbroken(down[c], i, p, Taken(c, i), asked[p])
  /\ Live(c, i) /\ Served(p) /\ prog[p] = "relay" =>
       Complete(down[c], i, p, Taken(c, i), asked[p])

LEMMA RequestedBefore ==
  ASSUME AgentInvariant, NEW p \in Programs, NEW c, NEW i, Owns(p, c, i)
  PROVE  /\ Requested(p, c, i)
         /\ p \in Nat /\ asked[p] \in Nat /\ Taken(c, i) \in Nat
         /\ agent_got[c][i] \in Seq(Seq(Nat)) /\ cwrite[c][i] \in Seq(Seq(Nat))
         /\ down[c] \in Seq(Messages)
<1>1. Types /\ RequestInv
  BY Zenon DEF AgentInvariant, Types
<1>2. c \in Channels /\ i \in Ids /\ opened_on[p] = c /\ id[p] = i /\ c # None
  BY NotNone, Zenon DEF Owns
<1>3. agent_got[c][i] \in Seq(Seq(Nat))
  BY <1>1, <1>2, TypesAre, ZenonT(60)
<1>4. cwrite[c][i] \in Seq(Seq(Nat))
  BY <1>1, <1>2, TypesAre, ZenonT(60)
<1>5. asked[p] \in Nat /\ p \in Nat
  BY <1>1, TypesAre, NotNone, Zenon
<1>6. down[c] \in Seq(Messages)
  BY <1>1, <1>2, TypesAre, Zenon
<1>7. Taken(c, i) \in Nat
  BY <1>3, <1>4, TwoLengths, Zenon DEF Taken
<1>8. Requested(p, c, i)
  BY <1>1, <1>2, Zenon DEF RequestInv, Requested
<1> QED
  BY <1>3, <1>4, <1>5, <1>6, <1>7, <1>8, Zenon

\* What is left to show after a step.
LEMMA RequestedAfter ==
  ASSUME AgentInvariant, [Next]_vars, NEW p \in Programs, NEW c, NEW i, Owns(p, c, i),
         Taken(c, i)' <= asked'[p], Continues(agent_got'[c][i], p, 0),
         Continues(cwrite'[c][i], p, Len(agent_got'[c][i])),
         Live(c, i)' => Unbroken(down'[c], i, p, Taken(c, i)', asked'[p]),
         Live(c, i)' /\ Served(p)' /\ Served(p) /\ prog[p] = "relay" =>
            Complete(down'[c], i, p, Taken(c, i)', asked'[p])
  PROVE  Requested(p, c, i)'
<1>1. opened_on[p] # None
  BY NotNone, Zenon DEF Owns
<1>2. Served(p)' => Served(p)
  BY ServedBefore, Zenon
<1>3. prog'[p] = "relay" => prog[p] = "relay"
  BY <1>1, RelayBefore, Zenon
<1> QED
  BY <1>2, <1>3, Zenon DEF Requested

\* The agent's side is left alone, and so are the chunks in the queue.
LEMMA RequestedSame ==
  ASSUME AgentInvariant, [Next]_vars, NEW p \in Programs, NEW c, NEW i, Owns(p, c, i),
         agent_got'[c][i] = agent_got[c][i], cwrite'[c][i] = cwrite[c][i], asked'[p] = asked[p],
         \A n \in Nat : Unbroken(down[c], i, p, n, asked[p]) => Unbroken(down'[c], i, p, n, asked[p]),
         Served(p)' => \A n \in Nat :
            Complete(down[c], i, p, n, asked[p]) => Complete(down'[c], i, p, n, asked[p])
  PROVE  Requested(p, c, i)'
<1>1. Requested(p, c, i) /\ Taken(c, i) \in Nat
  BY RequestedBefore, Zenon
<1>2. Taken(c, i)' = Taken(c, i)
  BY Zenon DEF Taken
<1>3. Live(c, i)' => Live(c, i)
  BY LiveBefore, Zenon
<1>4. Taken(c, i)' <= asked'[p]
  BY <1>1, <1>2, Zenon DEF Requested
<1>5. /\ Continues(agent_got'[c][i], p, 0)
      /\ Continues(cwrite'[c][i], p, Len(agent_got'[c][i]))
  BY <1>1, Zenon DEF Requested
<1>6. Live(c, i)' => Unbroken(down'[c], i, p, Taken(c, i)', asked'[p])
  BY <1>1, <1>2, <1>3, Zenon DEF Requested
<1>7. Live(c, i)' /\ Served(p)' /\ Served(p) /\ prog[p] = "relay" =>
         Complete(down'[c], i, p, Taken(c, i)', asked'[p])
  BY <1>1, <1>2, <1>3, Zenon DEF Requested
<1> QED
  BY <1>4, <1>5, <1>6, <1>7, RequestedAfter, Zenon

\* A message to the client that is no chunk of this program.
LEMMA RequestedOther ==
  ASSUME AgentInvariant, [Next]_vars, NEW p \in Programs, NEW c, NEW i, Owns(p, c, i),
         agent_got'[c][i] = agent_got[c][i], cwrite'[c][i] = cwrite[c][i], asked'[p] = asked[p],
         NEW m \in Messages, SendToChannel(m), ~(m.type = "AgentData" /\ m.id = i)
  PROVE  Requested(p, c, i)'
<1>1. down[c] \in Seq(Messages) /\ asked[p] \in Nat /\ c \in Channels /\ Types
  BY RequestedBefore, Zenon DEF Owns, AgentInvariant, Types
<1>2. down'[c] = down[c] \/ down'[c] = Append(down[c], m)
  BY <1>1, QueuedDown, Zenon
<1>3. \A n \in Nat : Unbroken(down[c], i, p, n, asked[p]) => Unbroken(down'[c], i, p, n, asked[p])
  BY <1>1, <1>2, UnbrokenAppendOther, Zenon
<1>4. \A n \in Nat : Complete(down[c], i, p, n, asked[p]) => Complete(down'[c], i, p, n, asked[p])
  BY <1>1, <1>2, CompleteAppend, Zenon
<1> QED
  BY <1>3, <1>4, RequestedSame, Zenon

\* The next chunk of this program.
LEMMA RequestedNext ==
  ASSUME AgentInvariant, [Next]_vars, NEW p \in Programs, NEW c, NEW i, Owns(p, c, i), ReadProgram(p)
  PROVE  Requested(p, c, i)'
<1> DEFINE a == asked[p]
           m == AgentData(i, <<p, a + 1>>)
<1>1. /\ Requested(p, c, i) /\ p \in Nat /\ a \in Nat /\ Taken(c, i) \in Nat
      /\ down[c] \in Seq(Messages)
  BY RequestedBefore, Zenon
<1>2. Types /\ IdInv /\ c \in Channels /\ i \in Ids /\ id[p] = i /\ opened_on[p] = c /\ c # None
  BY NotNone, Zenon DEF Owns, AgentInvariant, Types
<1>3. m \in Messages /\ SendToChannel(m)
  BY <1>2, DataSent, Zenon
<1>4. UNCHANGED <<agent_got, cwrite>> /\ prog[p] = "relay"
  BY Zenon DEF ReadProgram, agentVars, clientVars
<1>5. asked'[p] = a + 1
  BY <1>2, TypesAre, Zenon DEF ReadProgram
<1>6. Taken(c, i)' = Taken(c, i)
  BY <1>4, Zenon DEF Taken
<1>7. Live(c, i)' => Live(c, i)
  BY LiveBefore, Zenon
<1>8. /\ Taken(c, i) <= a
      /\ Continues(agent_got'[c][i], p, 0) /\ Continues(cwrite'[c][i], p, Len(agent_got'[c][i]))
      /\ Live(c, i) => Unbroken(down[c], i, p, Taken(c, i), a)
      /\ Live(c, i) /\ Served(p) => Complete(down[c], i, p, Taken(c, i), a)
  BY <1>1, <1>4, Zenon DEF Requested
<1>9. Taken(c, i)' <= asked'[p]
  BY <1>1, <1>5, <1>6, <1>8
<1>10. CASE Served(p)
  <2>1. channel = c /\ srv[c] = "attached" /\ cli[c] = "relay"
    BY <1>2, <1>10, Zenon DEF Served
  <2>2. down'[c] = Append(down[c], m)
    <3> HIDE DEF m
    <3> QED
      BY <1>2, <1>3, <2>1, QueuedDown, Zenon
  <2>3. Live(c, i) => /\ Unbroken(down'[c], i, p, Taken(c, i), a + 1)
                      /\ Complete(down'[c], i, p, Taken(c, i), a + 1)
    BY <1>1, <1>2, <1>8, <1>10, <2>2, UnbrokenAppendNext
  <2> HIDE DEF m, a
  <2> QED
    BY <1>5, <1>6, <1>7, <1>8, <1>9, <2>3, RequestedAfter, Zenon
<1>11. CASE ~Served(p)
  <2>1. ~(c = channel /\ srv[c] = "attached" /\ cli[c] = "relay")
    BY <1>2, <1>11, Zenon DEF Served
  <2>2. down'[c] = down[c]
    <3> HIDE DEF m
    <3> QED
      BY <1>2, <1>3, <2>1, QueuedDown, Zenon
  <2>3. Live(c, i) => Unbroken(down'[c], i, p, Taken(c, i), a + 1)
    BY <1>1, <1>8, <2>2, UnbrokenFurther
  <2> HIDE DEF m, a
  <2> QED
    BY <1>5, <1>6, <1>7, <1>8, <1>9, <1>11, <2>3, RequestedAfter, Zenon
<1> QED
  BY <1>10, <1>11

LEMMA SumNext ==
  ASSUME NEW x \in Nat, NEW y \in Nat
  PROVE  x + (y + 1) = (x + y) + 1
OBVIOUS

LEMMA SumLess ==
  ASSUME NEW x \in Nat, NEW y \in Nat, NEW z \in Nat, x + y <= z
  PROVE  x + Len(<<>>) <= z
OBVIOUS

LEMMA SumAbove ==
  ASSUME NEW b \in Nat, NEW x \in Nat, NEW y \in Nat, NEW z \in Nat, b + 1 \in 1 .. x, x + y <= z
  PROVE  b + 1 \in Nat /\ b + 1 <= z
OBVIOUS

LEMMA PartLess ==
  ASSUME NEW x \in Nat, NEW n \in 1 .. x
  PROVE  0 + n = n /\ \A y, z \in Nat : x + y <= z => n <= z
OBVIOUS

\* The client takes a message from the queue.
LEMMA RequestedRecv ==
  ASSUME AgentInvariant, [Next]_vars, NEW p \in Programs, NEW c, NEW i, Owns(p, c, i),
         RecvFromServer(c)
  PROVE  Requested(p, c, i)'
<1> DEFINE m == Head(down[c])
           n == Taken(c, i)
           a == asked[p]
<1>1. /\ Requested(p, c, i) /\ p \in Nat /\ a \in Nat /\ n \in Nat
      /\ agent_got[c][i] \in Seq(Seq(Nat)) /\ cwrite[c][i] \in Seq(Seq(Nat))
      /\ down[c] \in Seq(Messages)
  BY RequestedBefore, Zenon
<1>2. Types /\ FirstInv /\ c \in Channels /\ i \in Ids
  BY Zenon DEF Owns, AgentInvariant, Types
<1>3. agent_got' = agent_got /\ asked' = asked
  BY Zenon DEF RecvFromServer, agentVars
<1>4. /\ down[c] # <<>> /\ down'[c] = Tail(down[c])
      /\ m.type = "AgentData" => (i \in cstreams'[c] <=> i \in cstreams[c])
      /\ m.type = "AgentData" => dialed'[c][i] = dialed[c][i]
      /\ cwrite'[c][i] = IF /\ i = m.id /\ m.type = "AgentData"
                            /\ i \in cstreams[c] /\ dialed[c][i] # "none"
                         THEN Append(cwrite[c][i], m.data) ELSE cwrite[c][i]
  BY <1>2, Received
<1>5. CASE /\ m.type = "AgentData" /\ m.id = i
           /\ i \in cstreams[c] /\ dialed[c][i] # "none"
  <2> HIDE DEF m, n, a
  <2>1. Live(c, i) /\ (Live(c, i)' => Live(c, i))
    BY <1>5, Zenon DEF Live
  <2>2. /\ Unbroken(down[c], i, p, n, a)
        /\ Served(p) /\ prog[p] = "relay" => Complete(down[c], i, p, n, a)
        /\ Continues(agent_got[c][i], p, 0) /\ Continues(cwrite[c][i], p, Len(agent_got[c][i]))
    BY <1>1, <2>1, Zenon DEF Requested, n, a
  <2>3. /\ m.data = <<p, n + 1>> /\ n + 1 <= a /\ Unbroken(Tail(down[c]), i, p, n + 1, a)
        /\ Complete(down[c], i, p, n, a) => Complete(Tail(down[c]), i, p, n + 1, a)
    <3>1. DataFor(Head(down[c]), i)
      BY <1>5, Zenon DEF m, DataFor
    <3>2. down[c] \in Seq(Messages) /\ down[c] # <<>> /\ n \in Nat /\ a \in Nat
      BY <1>1, <1>4, Zenon
    <3>3. Unbroken(down[c], i, p, n, a)
      BY <2>2, Zenon
    <3>4. /\ Head(down[c]).data = <<p, n + 1>> /\ n + 1 <= a
          /\ Unbroken(Tail(down[c]), i, p, n + 1, a)
          /\ Complete(down[c], i, p, n, a) => Complete(Tail(down[c]), i, p, n + 1, a)
      BY <3>1, <3>2, <3>3, TailNext, Zenon
    <3> QED
      BY <3>4, Zenon DEF m
  <2>4. n = Len(agent_got[c][i]) + Len(cwrite[c][i])
    BY Zenon DEF n, Taken
  <2>5. cwrite'[c][i] = Append(cwrite[c][i], <<p, (Len(agent_got[c][i]) + Len(cwrite[c][i])) + 1>>)
    BY <1>4, <1>5, <2>3, <2>4, Zenon
  <2>6. /\ Continues(cwrite'[c][i], p, Len(agent_got[c][i]))
        /\ Len(cwrite'[c][i]) = Len(cwrite[c][i]) + 1
    <3>1. Len(agent_got[c][i]) \in Nat /\ p \in Nat /\ cwrite[c][i] \in Seq(Seq(Nat))
      BY <1>1, TwoLengths, Zenon
    <3>2. Continues(cwrite[c][i], p, Len(agent_got[c][i]))
      BY <2>2, Zenon
    <3> DEFINE s == Append(cwrite[c][i], <<p, (Len(agent_got[c][i]) + Len(cwrite[c][i])) + 1>>)
    <3>3. Continues(s, p, Len(agent_got[c][i])) /\ Len(s) = Len(cwrite[c][i]) + 1
      BY <3>1, <3>2, ContinuesAppend, Zenon
    <3>4. cwrite'[c][i] = s
      BY <2>5, Zenon
    <3> HIDE DEF s
    <3> QED
      BY <3>3, <3>4, Zenon
  <2>7. Taken(c, i)' = n + 1
    <3>1. Taken(c, i)' = Len(agent_got[c][i]) + (Len(cwrite[c][i]) + 1)
      BY <1>3, <2>6, Zenon DEF Taken
    <3>2. Len(agent_got[c][i]) \in Nat /\ Len(cwrite[c][i]) \in Nat
      BY <1>1, TwoLengths, Zenon
    <3> QED
      BY <2>4, <3>1, <3>2, SumNext, Zenon
  <2> QED
    BY <1>3, <1>4, <2>2, <2>3, <2>6, <2>7, RequestedAfter, Zenon DEF a
<1>6. CASE /\ m.type = "AgentData" /\ m.id = i
           /\ ~(i \in cstreams[c] /\ dialed[c][i] # "none")
  <2>1. OpenFirst(down[c], i)
    BY <1>2, Zenon DEF FirstInv
  <2>2. ~Carried(Tail(down[c]), AgentOpen(i))
    BY <1>1, <1>2, <1>4, <1>6, <2>1, OpenFirstTail, Zenon
  <2>3. ~Live(c, i)'
    BY <1>4, <1>6, <2>2, Zenon DEF Live
  <2>4. cwrite'[c][i] = cwrite[c][i]
    BY <1>4, <1>6
  <2>5. /\ Taken(c, i)' <= asked'[p] /\ Continues(agent_got'[c][i], p, 0)
        /\ Continues(cwrite'[c][i], p, Len(agent_got'[c][i]))
    BY <1>1, <1>3, <2>4, Zenon DEF Requested, Taken
  <2> QED
    BY <2>3, <2>5, RequestedAfter, Zenon
<1>7. CASE ~(m.type = "AgentData" /\ m.id = i)
  <2>1. cwrite'[c][i] = cwrite[c][i]
    BY <1>4, <1>7
  <2>2. \A k \in Nat :
          /\ Unbroken(down[c], i, p, k, a) => Unbroken(down'[c], i, p, k, a)
          /\ Complete(down[c], i, p, k, a) => Complete(down'[c], i, p, k, a)
    BY <1>1, <1>4, <1>7, TailOther, Zenon
  <2> QED
    BY <1>3, <2>1, <2>2, RequestedSame, Zenon
<1> HIDE DEF m
<1> QED
  BY <1>5, <1>6, <1>7, Zenon

\* Nothing about this program changes.
LEMMA RequestedStill ==
  ASSUME AgentInvariant, [Next]_vars, NEW p \in Programs, NEW c, NEW i, Owns(p, c, i),
         agent_got'[c][i] = agent_got[c][i], cwrite'[c][i] = cwrite[c][i], asked'[p] = asked[p],
         down'[c] = down[c]
  PROVE  Requested(p, c, i)'
BY RequestedSame, Zenon

\* The client gives the channel up.
LEMMA RequestedLeft ==
  ASSUME AgentInvariant, [Next]_vars, NEW p \in Programs, NEW c, NEW i, Owns(p, c, i),
         LeaveChannel(c)
  PROVE  Requested(p, c, i)'
<1>1. UNCHANGED <<agent_got, cwrite, asked>>
  BY Zenon DEF LeaveChannel, agentVars
<1>2. Types /\ c \in Channels
  BY Zenon DEF Owns, AgentInvariant, Types
<1>3. down \in [Channels -> Seq(Messages)] /\ cli \in [Channels -> {"none", "relay", "gone"}]
  BY <1>2, TypesAre, Zenon
<1>4. down'[c] = <<>> /\ cli'[c] # "relay"
  BY <1>2, <1>3 DEF LeaveChannel
<1>5. ~Served(p)'
  BY <1>4, ServedBefore, Zenon
<1>6. \A n \in Nat : Unbroken(down'[c], i, p, n, asked[p])
  BY <1>4, EmptyQueue, Zenon
<1> QED
  BY <1>1, <1>5, <1>6, RequestedSame, Zenon

\* The agent is given the next chunk.
LEMMA RequestedWritten ==
  ASSUME AgentInvariant, [Next]_vars, NEW p \in Programs, NEW c, NEW i, Owns(p, c, i),
         WriteAgent(c, i)
  PROVE  Requested(p, c, i)'
<1> DEFINE s == agent_got[c][i]
           t == cwrite[c][i]
<1>1. /\ Requested(p, c, i) /\ p \in Nat /\ s \in Seq(Seq(Nat)) /\ t \in Seq(Seq(Nat))
  BY RequestedBefore, Zenon
<1>2. Types /\ c \in Channels /\ i \in Ids
  BY Zenon DEF Owns, AgentInvariant, Types
<1>3. t # <<>> /\ asked' = asked /\ down' = down
  BY Zenon DEF WriteAgent, wireVars
<1>4. agent_got'[c][i] = Append(s, Head(t)) /\ cwrite'[c][i] = Tail(t)
  BY <1>2, Written, ZenonT(60)
<1>5. Taken(c, i) = Len(s) + Len(t)
  BY Zenon DEF Taken
<1>6. Live(c, i)' => Live(c, i)
  BY LiveBefore, Zenon
<1> HIDE DEF s, t
<1>7. Continues(s, p, 0) /\ Continues(t, p, Len(s))
  BY <1>1, Zenon DEF Requested, s, t
<1>8. /\ Continues(Append(s, Head(t)), p, 0)
      /\ Continues(Tail(t), p, Len(Append(s, Head(t))))
      /\ Len(Append(s, Head(t))) + Len(Tail(t)) = Len(s) + Len(t)
  BY <1>1, <1>3, <1>7, ContinuesMove, Zenon
<1>9. Taken(c, i)' = Taken(c, i)
  BY <1>4, <1>5, <1>8, Zenon DEF Taken
<1>10. /\ Taken(c, i) <= asked[p]
       /\ Live(c, i) => Unbroken(down[c], i, p, Taken(c, i), asked[p])
       /\ Live(c, i) /\ Served(p) /\ prog[p] = "relay" =>
             Complete(down[c], i, p, Taken(c, i), asked[p])
  BY <1>1, Zenon DEF Requested
<1> QED
  BY <1>3, <1>4, <1>6, <1>8, <1>9, <1>10, RequestedAfter, Zenon

\* The client's task ends: nothing more is taken for the program.
LEMMA RequestedEnded ==
  ASSUME AgentInvariant, [Next]_vars, NEW p \in Programs, NEW c, NEW i, Owns(p, c, i),
         EndStream(c, i), dialed[c][i] # "none", down' = down, asked' = asked
  PROVE  Requested(p, c, i)'
<1>1. Types /\ FirstInv /\ c \in Channels /\ i \in Ids
  BY Zenon DEF Owns, AgentInvariant, Types
<1>2. asked[p] \in Nat
  BY RequestedBefore, Zenon
<1>3. agent_got'[c][i] = <<>> /\ cwrite'[c][i] = <<>> /\ dialed'[c][i] = "none"
  BY <1>1, Ended
<1>4. ~Carried(down'[c], AgentOpen(i))
  BY <1>1, Zenon DEF FirstInv
<1>5. ~Live(c, i)'
  BY <1>3, <1>4, Zenon DEF Live
<1>6. Taken(c, i)' <= asked'[p]
  <2>1. Taken(c, i)' = Len(<<>>) + Len(<<>>)
    BY <1>3, Zenon DEF Taken
  <2>2. Len(<<>>) + Len(<<>>) <= asked[p]
    BY <1>2
  <2> QED
    BY <2>1, <2>2, Zenon
<1>7. Continues(agent_got'[c][i], p, 0) /\ Continues(cwrite'[c][i], p, Len(agent_got'[c][i]))
  BY <1>3, NothingContinues, Zenon
<1> QED
  BY <1>5, <1>6, <1>7, RequestedAfter, Zenon

\* One step of a task of the client that serves a program.
LEMMA RequestedTask ==
  ASSUME AgentInvariant, [Next]_vars, NEW p \in Programs, NEW c, NEW i, Owns(p, c, i),
         \/ Dial(c, i) \/ AgentLost(c, i) \/ WriteAgent(c, i)
         \/ ReadAgent(c, i) \/ AgentStreamClosed(c, i)
  PROVE  Requested(p, c, i)'
<1>1. CASE Dial(c, i)
  <2>1. UNCHANGED <<agent_got, cwrite, asked, down>>
    BY <1>1, Zenon DEF Dial, agentVars, wireVars
  <2> QED
    BY <2>1, RequestedStill, Zenon
<1>2. CASE AgentLost(c, i)
  <2>1. EndStream(c, i) /\ dialed[c][i] # "none" /\ down' = down /\ asked' = asked
    BY <1>2 DEF AgentLost
  <2> QED
    BY <2>1, RequestedEnded, Zenon
<1>3. CASE AgentStreamClosed(c, i)
  <2>1. EndStream(c, i) /\ dialed[c][i] # "none" /\ down' = down /\ asked' = asked
    BY <1>3 DEF AgentStreamClosed, wireVars
  <2> QED
    BY <2>1, RequestedEnded, Zenon
<1>4. CASE ReadAgent(c, i)
  <2>1. dialed[c][i] # "none" /\ down' = down /\ asked' = asked
    BY <1>4 DEF ReadAgent
  <2>2. EndStream(c, i) \/ UNCHANGED <<agent_got, cwrite>>
    BY <1>4, Zenon DEF ReadAgent
  <2>3. CASE EndStream(c, i)
    BY <2>1, <2>3, RequestedEnded, Zenon
  <2>4. CASE UNCHANGED <<agent_got, cwrite>>
    BY <2>1, <2>4, RequestedStill, Zenon
  <2> QED
    BY <2>2, <2>3, <2>4, Zenon
<1> QED
  BY <1>1, <1>2, <1>3, <1>4, RequestedWritten, Zenon

\* A task of the client touches nothing but its own connection.
LEMMA TaskLeaves ==
  ASSUME NEW d, NEW j,
         \/ Dial(d, j) \/ AgentLost(d, j) \/ WriteAgent(d, j)
         \/ ReadAgent(d, j) \/ AgentStreamClosed(d, j)
  PROVE  UNCHANGED <<down, asked, got, write, streams, srv, cli, cstreams>>
<1>1. ASSUME Dial(d, j)
      PROVE  UNCHANGED <<down, asked, got, write, streams, srv, cli, cstreams>>
  BY <1>1, Zenon DEF Dial, wireVars, hubVars
<1>2. ASSUME AgentLost(d, j)
      PROVE  UNCHANGED <<down, asked, got, write, streams, srv, cli, cstreams>>
  BY <1>2, Zenon DEF AgentLost, hubVars
<1>3. ASSUME WriteAgent(d, j)
      PROVE  UNCHANGED <<down, asked, got, write, streams, srv, cli, cstreams>>
  BY <1>3, Zenon DEF WriteAgent, wireVars, hubVars
<1>4. ASSUME ReadAgent(d, j)
      PROVE  UNCHANGED <<down, asked, got, write, streams, srv, cli, cstreams>>
  BY <1>4, Zenon DEF ReadAgent, hubVars
<1>5. ASSUME AgentStreamClosed(d, j)
      PROVE  UNCHANGED <<down, asked, got, write, streams, srv, cli, cstreams>>
  BY <1>5, Zenon DEF AgentStreamClosed, wireVars, hubVars
<1> QED
  BY <1>1, <1>2, <1>3, <1>4, <1>5, Zenon

LEMMA TaskElsewhere ==
  ASSUME Types, NEW d \in Channels, NEW j \in Ids, NEW c \in Channels, NEW i \in Ids, ~(c = d /\ i = j),
         \/ Dial(d, j) \/ AgentLost(d, j) \/ WriteAgent(d, j)
         \/ ReadAgent(d, j) \/ AgentStreamClosed(d, j)
  PROVE  /\ agent_got'[c][i] = agent_got[c][i] /\ cwrite'[c][i] = cwrite[c][i]
         /\ dialed'[c][i] = dialed[c][i] /\ replied'[c][i] = replied[c][i]
<1> DEFINE Same == /\ agent_got'[c][i] = agent_got[c][i] /\ cwrite'[c][i] = cwrite[c][i]
                   /\ dialed'[c][i] = dialed[c][i] /\ replied'[c][i] = replied[c][i]
<1>1. ASSUME EndStream(d, j) PROVE Same
  BY <1>1, Ended
<1>2. CASE Dial(d, j)
  <2>1. UNCHANGED <<agent_got, cwrite, replied>>
    BY <1>2, Zenon DEF Dial, agentVars
  <2>2. dialed'[c][i] = dialed[c][i]
    BY <1>2, Dialed
  <2> QED
    BY <2>1, <2>2, Zenon
<1>3. CASE WriteAgent(d, j)
  <2>1. UNCHANGED <<dialed, replied>>
    BY <1>3, Zenon DEF WriteAgent
  <2>2. agent_got'[c][i] = agent_got[c][i] /\ cwrite'[c][i] = cwrite[c][i]
    BY <1>3, Written
  <2> QED
    BY <2>1, <2>2, Zenon
<1>4. CASE ReadAgent(d, j)
  <2>1. EndStream(d, j) \/ (cli[d] = "relay" /\ UNCHANGED <<agent_got, cwrite, dialed>>)
    BY <1>4, Zenon DEF ReadAgent
  <2>2. CASE cli[d] = "relay" /\ UNCHANGED <<agent_got, cwrite, dialed>>
    <3>1. replied'[c][i] = replied[c][i]
      BY <1>4, <2>2, Answered
    <3> QED
      BY <2>2, <3>1, Zenon
  <2> QED
    BY <1>1, <2>1, <2>2, Zenon
<1>5. CASE AgentLost(d, j) \/ AgentStreamClosed(d, j)
  <2>1. EndStream(d, j)
    BY <1>5, Zenon DEF AgentLost, AgentStreamClosed
  <2> QED
    BY <1>1, <2>1, Zenon
<1> QED
  BY <1>2, <1>3, <1>4, <1>5, Zenon

\* One message handed to the hub's channel.
LEMMA RequestedSend ==
  ASSUME AgentInvariant, [Next]_vars, NEW p \in Programs, NEW c, NEW i, Owns(p, c, i),
         NEW q \in Programs, Open(q) \/ ReadProgram(q) \/ Finish(q)
  PROVE  Requested(p, c, i)'
<1>1. Types /\ IdInv /\ i \in Ids /\ i # None /\ id[p] = i
  BY NotNone, Zenon DEF Owns, AgentInvariant, Types
<1>2. UNCHANGED <<agent_got, cwrite>>
  BY Zenon DEF Open, ReadProgram, Finish, agentVars, clientVars
<1>3. CASE Open(q)
  <2>1. AgentOpen(id[q]) \in Messages /\ SendToChannel(AgentOpen(id[q]))
    BY <1>1, <1>3, OpenSent, Zenon
  <2>2. AgentOpen(id[q]).type # "AgentData"
    BY OpenParts
  <2>3. asked' = asked
    BY <1>3, Zenon DEF Open
  <2> QED
    BY <1>2, <2>1, <2>2, <2>3, RequestedOther, Zenon
<1>4. CASE Finish(q)
  <2>1. AgentClose(id[q]) \in Messages /\ SendToChannel(AgentClose(id[q]))
    BY <1>1, <1>4, CloseSent, Zenon
  <2>2. AgentClose(id[q]).type # "AgentData"
    BY CloseParts
  <2>3. asked' = asked
    BY <1>4, Zenon DEF Finish
  <2> QED
    BY <1>2, <2>1, <2>2, <2>3, RequestedOther, Zenon
<1>5. CASE ReadProgram(q) /\ q # p
  <2> DEFINE m == AgentData(id[q], <<q, asked[q] + 1>>)
  <2>1. m \in Messages /\ SendToChannel(m)
    BY <1>1, <1>5, DataSent, Zenon
  <2>2. m.id = id[q]
    BY DataParts, Zenon
  <2>3. id[q] # i
    BY <1>1, <1>5, Zenon DEF IdInv
  <2>4. asked'[p] = asked[p]
    <3>1. asked \in [Programs -> Nat]
      BY <1>1, TypesAre, Zenon
    <3> QED
      BY <1>5, <3>1 DEF ReadProgram
  <2> HIDE DEF m
  <2> QED
    BY <1>2, <2>1, <2>2, <2>3, <2>4, RequestedOther, Zenon
<1> QED
  BY <1>3, <1>4, <1>5, RequestedNext, Zenon

LEMMA RequestedOwned ==
  ASSUME AgentInvariant, [Next]_vars, NEW p \in Programs, NEW c, NEW i, Owns(p, c, i)
  PROVE  Requested(p, c, i)'
<1>1. Types /\ c \in Channels /\ i \in Ids
  BY Zenon DEF Owns, AgentInvariant, Types
<1>2. ASSUME NEW q \in Programs, Open(q) \/ ReadProgram(q) \/ Finish(q)
      PROVE  Requested(p, c, i)'
  BY <1>2, RequestedSend, Zenon
<1>3. ASSUME NEW d \in Channels, RecvFromServer(d)
      PROVE  Requested(p, c, i)'
  <2>1. CASE d # c
    <3>1. down'[c] = down[c] /\ cwrite'[c][i] = cwrite[c][i]
      BY <1>1, <1>3, <2>1, Received
    <3>2. UNCHANGED <<agent_got, asked>>
      BY <1>3, Zenon DEF RecvFromServer, agentVars
    <3> QED
      BY <3>1, <3>2, RequestedStill, Zenon
  <2> QED
    BY <1>3, <2>1, RequestedRecv, Zenon
<1>4. ASSUME NEW d \in Channels, LeaveChannel(d)
      PROVE  Requested(p, c, i)'
  <2>1. CASE d # c
    <3>1. UNCHANGED <<agent_got, cwrite, asked>>
      BY <1>4, Zenon DEF LeaveChannel, agentVars
    <3>2. down \in [Channels -> Seq(Messages)]
      BY <1>1, TypesAre, Zenon
    <3>3. down'[c] = down[c]
      BY <1>1, <1>4, <2>1, <3>2 DEF LeaveChannel
    <3> QED
      BY <3>1, <3>3, RequestedStill, Zenon
  <2> QED
    BY <1>4, <2>1, RequestedLeft, Zenon
<1>5. ASSUME NEW d \in Channels, NEW j \in Ids,
             \/ Dial(d, j) \/ AgentLost(d, j) \/ WriteAgent(d, j)
             \/ ReadAgent(d, j) \/ AgentStreamClosed(d, j)
      PROVE  Requested(p, c, i)'
  <2>1. CASE d = c /\ j = i
    BY <1>5, <2>1, RequestedTask, Zenon
  <2>2. CASE ~(c = d /\ i = j)
    <3>1. agent_got'[c][i] = agent_got[c][i] /\ cwrite'[c][i] = cwrite[c][i]
      BY <1>1, <1>5, <2>2, TaskElsewhere, Zenon
    <3>2. UNCHANGED <<down, asked>>
      BY <1>5, TaskLeaves, Zenon
    <3> QED
      BY <3>1, <3>2, RequestedStill, Zenon
  <2> QED
    BY <2>1, <2>2, Zenon
<1>6. ASSUME UNCHANGED down, UNCHANGED <<dialed, cwrite, agent_got, replied>>, asked'[p] = asked[p]
      PROVE  Requested(p, c, i)'
  BY <1>6, RequestedStill, Zenon
<1> QED
  BY <1>2, <1>3, <1>4, <1>5, <1>6, DownMoves, TaskMoves, AskedMoves, Zenon

\* Nothing has been asked or taken when the connection is announced.
LEMMA RequestedFirst ==
  ASSUME AgentInvariant, [Next]_vars, NEW p \in Programs, NEW c \in Channels, NEW i \in Ids,
         Open(p), id[p] = i
  PROVE  Requested(p, c, i)'
<1>1. Types /\ IdInv /\ TaskInv
  BY Zenon DEF AgentInvariant, Types
<1>2. asked[p] = 0 /\ ~Known(c, i) /\ ~About(down[c], i)
  BY OpenUnknown, Zenon
<1>3. dialed[c][i] = "none"
  BY <1>2, Zenon DEF Known
<1>4. agent_got[c][i] = <<>> /\ cwrite[c][i] = <<>>
  BY <1>1, <1>3 DEF TaskInv
<1>5. UNCHANGED <<agent_got, cwrite, asked>>
  BY Zenon DEF Open, agentVars, clientVars
<1>6. Taken(c, i)' = Len(<<>>) + Len(<<>>)
  BY <1>4, <1>5, Zenon DEF Taken
<1>7. Taken(c, i)' = 0 /\ asked'[p] = 0
  BY <1>2, <1>5, <1>6
<1>8. Continues(agent_got'[c][i], p, 0) /\ Continues(cwrite'[c][i], p, Len(agent_got'[c][i]))
  BY <1>4, <1>5, NothingContinues, Zenon
<1>9. Unbroken(down'[c], i, p, 0, 0)
  <2> DEFINE m == AgentOpen(i)
  <2>1. m \in Messages /\ SendToChannel(m)
    BY <1>1, OpenSent, Zenon
  <2>2. m.type # "AgentData"
    BY OpenParts
  <2> HIDE DEF m
  <2>3. down[c] \in Seq(Messages) /\ (down'[c] = down[c] \/ down'[c] = Append(down[c], m))
    BY <1>1, <2>1, QueuedDown, Zenon
  <2>4. Unbroken(down[c], i, p, 0, 0)
    BY <1>2, <2>3, NoChunks, Zenon
  <2>5. 0 \in Nat
    OBVIOUS
  <2> QED
    BY <2>1, <2>2, <2>3, <2>4, <2>5, UnbrokenAppendOther, Zenon
<1>10. Complete(down'[c], i, p, 0, 0)
  BY DEF Complete
<1>11. Taken(c, i)' <= asked'[p]
  BY <1>7
<1> QED
  BY <1>7, <1>8, <1>9, <1>10, <1>11, Zenon DEF Requested

LEMMA RequestStep ==
  ASSUME AgentInvariant, [Next]_vars
  PROVE  RequestInv'
<1>1. SUFFICES ASSUME NEW p \in Programs, opened_on'[p] # None
               PROVE  \E c, i : opened_on'[p] = c /\ id'[p] = i /\ Requested(p, c, i)'
  BY <1>1, ZenonT(60) DEF RequestInv, Requested
<1>2. CASE opened_on[p] # None
  <2>1. PICK c, i : Owns(p, c, i)
    BY <1>2, OwnsFacts, Zenon
  <2>2. Requested(p, c, i)'
    BY <2>1, RequestedOwned, Zenon
  <2>3. opened_on'[p] = c /\ id'[p] = i
    BY <1>2, <2>1, OwnersKept, Zenon DEF Owns
  <2> QED
    BY <2>2, <2>3, Zenon
<1>3. CASE opened_on[p] = None
  <2>1. Open(p) /\ opened_on'[p] = channel /\ channel \in Channels
    BY <1>1, <1>3, OpenedBefore, Zenon
  <2>2. id[p] \in Ids /\ id' = id
    BY <2>1, OpenUnknown, Zenon DEF Open
  <2>3. PICK c \in Channels, i \in Ids : opened_on'[p] = c /\ id[p] = i /\ id'[p] = i
    BY <2>1, <2>2, Zenon
  <2>4. Requested(p, c, i)'
    BY <2>1, <2>3, RequestedFirst, Zenon
  <2> QED
    BY <2>3, <2>4, Zenon
<1> QED
  BY <1>2, <1>3, Zenon

-----------------------------------------------------------------------------
(* Answers                                                                  *)

\* AnswerInv for one program, and for one whose connection was announced on c as i.
Returning(p) ==
  /\ Returned(p) <= asked[p]
  /\ Continues(got[p], p, 0)
  /\ Continues(write[p], p, Len(got[p]))

Linked(c, i) == dialed[c][i] # "none" /\ cli[c] = "relay" /\ srv[c] = "attached"

Answering(p, c, i) ==
  streams[i] = p =>
    /\ Unbroken(up[c], i, p, Returned(p), asked[p])
    /\ Linked(c, i) => /\ Returned(p) <= replied[c][i]
                       /\ Unbroken(up[c], i, p, Returned(p), replied[c][i])
                       /\ Complete(up[c], i, p, Returned(p), replied[c][i])

LEMMA ReturningBefore ==
  ASSUME AgentInvariant, NEW p \in Programs
  PROVE  /\ Returning(p) /\ p \in Nat /\ asked[p] \in Nat /\ Returned(p) \in Nat
         /\ got[p] \in Seq(Seq(Nat)) /\ write[p] \in Seq(Seq(Nat))
<1>1. Types /\ AnswerInv
  BY Zenon DEF AgentInvariant, Types
<1>2. got[p] \in Seq(Seq(Nat)) /\ write[p] \in Seq(Seq(Nat))
  BY <1>1, TypesAre, Zenon
<1>3. asked[p] \in Nat /\ p \in Nat
  BY <1>1, TypesAre, NotNone, Zenon
<1>4. Returned(p) \in Nat
  BY <1>2, TwoLengths, Zenon DEF Returned
<1>5. Returning(p)
  BY <1>1, Zenon DEF AnswerInv, Returning
<1> QED
  BY <1>2, <1>3, <1>4, <1>5, Zenon

LEMMA AnsweringBefore ==
  ASSUME AgentInvariant, NEW p \in Programs, NEW c, NEW i, Owns(p, c, i)
  PROVE  Answering(p, c, i) /\ up[c] \in Seq(Messages) /\ replied[c][i] \in Nat
<1>1. Types /\ AnswerInv
  BY Zenon DEF AgentInvariant, Types
<1>2. c \in Channels /\ i \in Ids /\ opened_on[p] = c /\ id[p] = i /\ c # None
  BY NotNone, Zenon DEF Owns
<1>3. up[c] \in Seq(Messages)
  BY <1>1, <1>2, TypesAre, ZenonT(60)
<1>4. replied[c][i] \in Nat
  BY <1>1, <1>2, TypesAre, ZenonT(60)
<1>5. Answering(p, c, i)
  BY <1>1, <1>2, Zenon DEF AnswerInv, Answering, Linked
<1> QED
  BY <1>3, <1>4, <1>5, Zenon

LEMMA UpMoves ==
  ASSUME [Next]_vars
  PROVE  \/ up' = up
         \/ \E c \in Channels : RecvFromClient(c) \/ EndChannel(c)
         \/ \E c \in Channels, i \in Ids : AgentLost(c, i) \/ ReadAgent(c, i)
<1>1. ASSUME NEW r \in Programs,
             \/ Accept(r) \/ NoChannel(r) \/ Register(r) \/ Open(r) \/ ReadProgram(r)
             \/ WriteProgram(r) \/ Finish(r) \/ \E b \in BOOLEAN : LeaveRelay(r, b)
      PROVE  up' = up
  BY <1>1, Zenon DEF Accept, NoChannel, Register, Open, ReadProgram, WriteProgram, Finish,
                     LeaveRelay, wireVars
<1>2. ASSUME NEW c \in Channels,
             \/ OpenChannel(c) \/ Attach(c) \/ Deny(c)
             \/ Detach(c) \/ RecvFromServer(c) \/ LeaveChannel(c)
      PROVE  up' = up
  BY <1>2, Zenon DEF OpenChannel, Attach, Deny, Detach, RecvFromServer, LeaveChannel, wireVars
<1>3. ASSUME NEW c \in Channels, NEW i \in Ids,
             \/ Dial(c, i) \/ WriteAgent(c, i) \/ AgentStreamClosed(c, i)
      PROVE  up' = up
  BY <1>3, Zenon DEF Dial, WriteAgent, AgentStreamClosed, wireVars
<1>4. ASSUME UNCHANGED vars
      PROVE  up' = up
  BY <1>4, Zenon DEF vars, wireVars
<1> QED
  BY <1>1, <1>2, <1>3, <1>4, Zenon DEF Next

\* A link serves an id from the moment the client learns of it.
LEMMA LinkedBefore ==
  ASSUME AgentInvariant, [Next]_vars, NEW p \in Programs, NEW c, NEW i, Owns(p, c, i), Linked(c, i)'
  PROVE  Linked(c, i) \/ (RecvFromServer(c) /\ Head(down[c]) = AgentOpen(i))
<1>1. Types /\ OpenedInv /\ c \in Channels /\ i \in Ids /\ opened_on[p] = c /\ c # None
  BY NotNone, Zenon DEF Owns, AgentInvariant, Types
<1>2. srv[c] # "none"
  BY <1>1, Zenon DEF OpenedInv
<1>3. dialed'[c][i] # "none" /\ cli'[c] = "relay" /\ srv'[c] = "attached"
  BY Zenon DEF Linked
<1>4. srv[c] = "attached" /\ cli[c] = "relay"
  BY <1>1, <1>2, <1>3, LinkBefore, Zenon
<1>5. dialed[c][i] # "none" \/ (RecvFromServer(c) /\ Head(down[c]) = AgentOpen(i))
  BY <1>1, <1>3, DialedGrows, Zenon
<1> QED
  BY <1>4, <1>5, Zenon DEF Linked

\* How what a program was answered, or is about to be, can change.
LEMMA ReturnMoves ==
  ASSUME AgentInvariant, [Next]_vars, NEW p \in Programs
  PROVE  \/ got'[p] = got[p] /\ write'[p] = write[p]
         \/ WriteProgram(p) \/ Finish(p)
         \/ \E d \in Channels : /\ RecvFromClient(d) /\ Head(up[d]).type = "AgentData"
                                /\ streams[Head(up[d]).id] = p
<1>1. Types
  BY Zenon DEF AgentInvariant, Types
<1>2. got \in [Programs -> Seq(Seq(Nat))] /\ write \in [Programs -> Seq(Seq(Nat))]
  BY <1>1, TypesAre, Zenon
<1>3. ASSUME NEW q \in Programs, q # p, WriteProgram(q)
      PROVE  got'[p] = got[p] /\ write'[p] = write[p]
  BY <1>2, <1>3 DEF WriteProgram
<1>4. ASSUME NEW q \in Programs, q # p, Finish(q)
      PROVE  got'[p] = got[p] /\ write'[p] = write[p]
  BY <1>2, <1>4 DEF Finish
<1>5. ASSUME NEW d \in Channels, RecvFromClient(d),
             ~(Head(up[d]).type = "AgentData" /\ streams[Head(up[d]).id] = p)
      PROVE  got'[p] = got[p] /\ write'[p] = write[p]
  <2>1. got' = got
    BY <1>5, Zenon DEF RecvFromClient
  <2>2. write'[p] = write[p]
    BY <1>1, <1>5, ReceivedUp
  <2> QED
    BY <2>1, <2>2, Zenon
<1> QED
  BY <1>3, <1>4, <1>5, WriteMoves, Zenon

\* The hub takes the next answer for a program from its channel.
LEMMA AnsweringTake ==
  ASSUME AgentInvariant, [Next]_vars, NEW p \in Programs, NEW c, NEW i, Owns(p, c, i),
         RecvFromClient(c), DataFor(Head(up[c]), i), streams[i] = p
  PROVE  Returning(p)' /\ Answering(p, c, i)'
<1> DEFINE m == Head(up[c])
           n == Returned(p)
           a == asked[p]
           b == replied[c][i]
           s == write[p]
           l == Len(got[p])
<1>1. Types /\ c \in Channels /\ i \in Ids
  BY Zenon DEF Owns, AgentInvariant, Types
<1>2. Returning(p) /\ p \in Nat /\ a \in Nat /\ n \in Nat /\ s \in Seq(Seq(Nat)) /\ l \in Nat
  BY ReturningBefore, TwoLengths, Zenon
<1>3. Answering(p, c, i) /\ up[c] \in Seq(Messages) /\ b \in Nat
  BY AnsweringBefore, Zenon
<1>4. up[c] # <<>> /\ up'[c] = Tail(up[c]) /\ write'[p] = Append(s, m.data)
  BY <1>1, ReceivedUp, Zenon DEF DataFor
<1>5. got' = got /\ asked' = asked /\ replied' = replied /\ Linked(c, i)' = Linked(c, i)
  BY Zenon DEF RecvFromClient, agentVars, clientVars, Linked
<1>6. n = l + Len(s)
  BY Zenon DEF Returned
<1>7. /\ Unbroken(up[c], i, p, n, a)
      /\ Linked(c, i) => Unbroken(up[c], i, p, n, b) /\ Complete(up[c], i, p, n, b)
  BY <1>3, Zenon DEF Answering
<1>8. Continues(got[p], p, 0) /\ Continues(s, p, l)
  BY <1>2, Zenon DEF Returning
<1> HIDE DEF n, a, b, s, l
<1>9. m.data = <<p, n + 1>> /\ n + 1 <= a /\ Unbroken(Tail(up[c]), i, p, n + 1, a)
  <2>1. Unbroken(up[c], i, p, n, a)
    BY <1>7, Zenon
  <2>2. up[c] \in Seq(Messages) /\ up[c] # <<>> /\ n \in Nat /\ a \in Nat
    BY <1>2, <1>3, <1>4, Zenon
  <2>3. DataFor(Head(up[c]), i)
    OBVIOUS
  <2>4. /\ Head(up[c]).data = <<p, n + 1>> /\ n + 1 <= a
        /\ Unbroken(Tail(up[c]), i, p, n + 1, a)
    BY <2>1, <2>2, <2>3, TailNext, ZenonT(60)
  <2> QED
    BY <2>4, Zenon
<1>10. Linked(c, i) => /\ n + 1 <= b /\ Unbroken(Tail(up[c]), i, p, n + 1, b)
                       /\ Complete(Tail(up[c]), i, p, n + 1, b)
  <2>1. SUFFICES ASSUME Linked(c, i)
                 PROVE  /\ n + 1 <= b /\ Unbroken(Tail(up[c]), i, p, n + 1, b)
                        /\ Complete(Tail(up[c]), i, p, n + 1, b)
    BY Zenon
  <2>2. Unbroken(up[c], i, p, n, b) /\ Complete(up[c], i, p, n, b)
    BY <1>7, <2>1, Zenon
  <2>3. up[c] \in Seq(Messages) /\ up[c] # <<>> /\ n \in Nat /\ b \in Nat
    BY <1>2, <1>3, <1>4, Zenon
  <2> QED
    BY <2>2, <2>3, TailNext, Zenon
<1>11. Continues(write'[p], p, l) /\ Len(write'[p]) = Len(s) + 1
  <2>1. write'[p] = Append(s, <<p, (l + Len(s)) + 1>>)
    BY <1>4, <1>6, <1>9, Zenon
  <2>2. s \in Seq(Seq(Nat)) /\ p \in Nat /\ l \in Nat
    BY <1>2, Zenon
  <2> DEFINE t == Append(s, <<p, (l + Len(s)) + 1>>)
  <2>3. Continues(t, p, l) /\ Len(t) = Len(s) + 1
    BY <1>8, <2>2, ContinuesAppend, Zenon
  <2> HIDE DEF t
  <2>4. write'[p] = t
    BY <2>1, Zenon DEF t
  <2> QED
    BY <2>3, <2>4, Zenon
<1>12. Returned(p)' = n + 1
  <2>1. Returned(p)' = l + (Len(s) + 1)
    BY <1>5, <1>11, Zenon DEF Returned, l
  <2>2. Len(s) \in Nat
    BY <1>2, TwoLengths, Zenon
  <2> QED
    BY <1>2, <1>6, <2>1, <2>2, SumNext, Zenon
<1>13. Returning(p)'
  BY <1>5, <1>8, <1>9, <1>11, <1>12, Zenon DEF Returning, a, l
<1>14. Answering(p, c, i)'
  BY <1>4, <1>5, <1>9, <1>10, <1>12, Zenon DEF Answering, a, b
<1> QED
  BY <1>13, <1>14, Zenon

\* A program reads the next answer.
LEMMA ReturningRead ==
  ASSUME AgentInvariant, [Next]_vars, NEW p \in Programs, WriteProgram(p)
  PROVE  Returning(p)' /\ Returned(p)' = Returned(p)
<1> DEFINE s == got[p]
           t == write[p]
<1>1. Types
  BY Zenon DEF AgentInvariant, Types
<1>2. Returning(p) /\ p \in Nat /\ s \in Seq(Seq(Nat)) /\ t \in Seq(Seq(Nat))
  BY ReturningBefore, Zenon
<1>3. t # <<>> /\ asked' = asked
  BY Zenon DEF WriteProgram
<1>4. got \in [Programs -> Seq(Seq(Nat))] /\ write \in [Programs -> Seq(Seq(Nat))]
  BY <1>1, TypesAre, Zenon
<1>5. got'[p] = Append(s, Head(t)) /\ write'[p] = Tail(t)
  BY <1>4 DEF WriteProgram
<1>6. Returned(p) = Len(s) + Len(t)
  BY Zenon DEF Returned
<1>7. Continues(s, p, 0) /\ Continues(t, p, Len(s)) /\ Returned(p) <= asked[p]
  BY <1>2, Zenon DEF Returning
<1> HIDE DEF s, t
<1>8. /\ Continues(Append(s, Head(t)), p, 0)
      /\ Continues(Tail(t), p, Len(Append(s, Head(t))))
      /\ Len(Append(s, Head(t))) + Len(Tail(t)) = Len(s) + Len(t)
  BY <1>2, <1>3, <1>7, ContinuesMove, Zenon
<1>9. Returned(p)' = Returned(p)
  BY <1>5, <1>6, <1>8, Zenon DEF Returned
<1> QED
  BY <1>3, <1>5, <1>7, <1>8, <1>9, Zenon DEF Returning

\* A program is forgotten: its unread answers are dropped.
LEMMA ReturningDone ==
  ASSUME AgentInvariant, [Next]_vars, NEW p \in Programs, Finish(p)
  PROVE  Returning(p)'
<1>1. Types
  BY Zenon DEF AgentInvariant, Types
<1>2. Returning(p) /\ got[p] \in Seq(Seq(Nat)) /\ write[p] \in Seq(Seq(Nat)) /\ asked[p] \in Nat
  BY ReturningBefore, Zenon
<1>3. write \in [Programs -> Seq(Seq(Nat))]
  BY <1>1, TypesAre, Zenon
<1>4. got' = got /\ asked' = asked /\ write'[p] = <<>>
  BY <1>3 DEF Finish
<1>5. Returned(p)' = Len(got[p]) + Len(<<>>)
  BY <1>4, Zenon DEF Returned
<1>6. Len(got[p]) + Len(write[p]) <= asked[p]
  BY <1>2, Zenon DEF Returning, Returned
<1>7. Len(got[p]) + Len(<<>>) <= asked[p]
  BY <1>2, <1>6, TwoLengths, SumLess, Zenon
<1>8. Continues(got'[p], p, 0) /\ Continues(write'[p], p, Len(got'[p]))
  BY <1>2, <1>4, NothingContinues, Zenon DEF Returning
<1> QED
  BY <1>4, <1>5, <1>7, <1>8, Zenon DEF Returning

\* Nothing is taken for the program and its link is not new.
LEMMA AnsweringSame ==
  ASSUME AgentInvariant, [Next]_vars, NEW p \in Programs, NEW c, NEW i, Owns(p, c, i),
         Returned(p)' = Returned(p),
         streams'[i] = p => \A n, max \in Nat :
            Unbroken(up[c], i, p, n, max) => Unbroken(up'[c], i, p, n, max),
         Linked(c, i)' => /\ Linked(c, i) /\ replied'[c][i] = replied[c][i]
                          /\ \A n, max \in Nat :
                               Complete(up[c], i, p, n, max) => Complete(up'[c], i, p, n, max)
  PROVE  Answering(p, c, i)'
<1> DEFINE n == Returned(p)
           b == replied[c][i]
<1>1. SUFFICES ASSUME streams'[i] = p
               PROVE  /\ Unbroken(up'[c], i, p, n, asked'[p])
                      /\ Linked(c, i)' => /\ n <= replied'[c][i]
                                          /\ Unbroken(up'[c], i, p, n, replied'[c][i])
                                          /\ Complete(up'[c], i, p, n, replied'[c][i])
  BY Zenon DEF Answering
<1>2. asked[p] \in Nat /\ n \in Nat
  BY ReturningBefore, Zenon
<1>3. Answering(p, c, i) /\ up[c] \in Seq(Messages) /\ b \in Nat
  BY AnsweringBefore, Zenon
<1>4. streams[i] = p
  BY <1>1, StreamBefore, Zenon
<1>5. /\ Unbroken(up[c], i, p, n, asked[p])
      /\ Linked(c, i) => /\ n <= b /\ Unbroken(up[c], i, p, n, b) /\ Complete(up[c], i, p, n, b)
  BY <1>3, <1>4, Zenon DEF Answering
<1> HIDE DEF n
<1>6. Unbroken(up[c], i, p, n, asked'[p]) /\ asked'[p] \in Nat
  <2>1. CASE asked'[p] = asked[p]
    BY <1>2, <1>5, <2>1, Zenon
  <2>2. CASE asked'[p] = asked[p] + 1
    <3>1. asked[p] + 1 \in Nat /\ asked[p] <= asked[p] + 1
      BY <1>2
    <3>2. up[c] \in Seq(Messages) /\ n \in Nat /\ asked[p] \in Nat
      BY <1>2, <1>3, Zenon
    <3>3. Unbroken(up[c], i, p, n, asked[p])
      BY <1>5, Zenon
    <3>4. Unbroken(up[c], i, p, n, asked[p] + 1)
      BY <3>1, <3>2, <3>3, UnbrokenFurther
    <3> QED
      BY <2>2, <3>1, <3>4, Zenon
  <2> QED
    BY <2>1, <2>2, AskedMoves, Zenon
<1>7. Unbroken(up'[c], i, p, n, asked'[p])
  BY <1>1, <1>2, <1>6, Zenon
<1>8. ASSUME Linked(c, i)'
      PROVE  /\ n <= replied'[c][i]
             /\ Unbroken(up'[c], i, p, n, replied'[c][i])
             /\ Complete(up'[c], i, p, n, replied'[c][i])
  <2>1. Linked(c, i) /\ replied'[c][i] = b
    BY <1>8, Zenon
  <2> HIDE DEF b
  <2>2. n <= b /\ Unbroken(up[c], i, p, n, b) /\ Complete(up[c], i, p, n, b)
    BY <1>5, <2>1, Zenon
  <2>3. Unbroken(up'[c], i, p, n, b)
    BY <1>1, <1>2, <1>3, <2>2, Zenon
  <2>4. Complete(up'[c], i, p, n, b)
    BY <1>2, <1>3, <1>8, <2>2, Zenon
  <2> QED
    BY <2>1, <2>2, <2>3, <2>4, Zenon
<1> QED
  BY <1>7, <1>8, Zenon

\* A message from the client that is no answer for this program, or none at all.
LEMMA AnsweringOther ==
  ASSUME AgentInvariant, [Next]_vars, NEW p \in Programs, NEW c, NEW i, Owns(p, c, i),
         Returned(p)' = Returned(p), NEW m \in Messages, ~DataFor(m, i),
         up'[c] = up[c] \/ up'[c] = Append(up[c], m),
         Linked(c, i)' => Linked(c, i) /\ replied'[c][i] = replied[c][i]
  PROVE  Answering(p, c, i)'
<1>1. up[c] \in Seq(Messages)
  BY AnsweringBefore, Zenon
<1>2. ~(m.type = "AgentData" /\ m.id = i)
  BY Zenon DEF DataFor
<1>3. \A n, max \in Nat : Unbroken(up[c], i, p, n, max) => Unbroken(up'[c], i, p, n, max)
  BY <1>1, <1>2, UnbrokenAppendOther, Zenon
<1>4. \A n, max \in Nat : Complete(up[c], i, p, n, max) => Complete(up'[c], i, p, n, max)
  BY <1>1, CompleteAppend, Zenon
<1> QED
  BY <1>3, <1>4, AnsweringSame, Zenon

LEMMA AnsweringStill ==
  ASSUME AgentInvariant, [Next]_vars, NEW p \in Programs, NEW c, NEW i, Owns(p, c, i),
         Returned(p)' = Returned(p), up'[c] = up[c],
         Linked(c, i)' => Linked(c, i) /\ replied'[c][i] = replied[c][i]
  PROVE  Answering(p, c, i)'
BY AnsweringSame, Zenon

\* The client learns of the connection.
LEMMA AnsweringFresh ==
  ASSUME AgentInvariant, [Next]_vars, NEW p \in Programs, NEW c, NEW i, Owns(p, c, i),
         RecvFromServer(c), Head(down[c]) = AgentOpen(i)
  PROVE  Answering(p, c, i)'
<1>1. Types /\ c \in Channels /\ i \in Ids /\ id[p] = i
  BY Zenon DEF Owns, AgentInvariant, Types
<1>2. FirstInv /\ TaskInv
  BY Zenon DEF AgentInvariant
<1>3. Carried(down[c], AgentOpen(i))
  BY <1>1, PoppedDown
<1>4. dialed[c][i] = "none" /\ ~About(up[c], i) /\ got[p] = <<>> /\ write[p] = <<>>
  BY <1>1, <1>2, <1>3, Zenon DEF FirstInv
<1>5. agent_got[c][i] = <<>> /\ replied[c][i] <= Len(agent_got[c][i])
  BY <1>1, <1>2, <1>4 DEF TaskInv
<1>6. replied[c][i] \in Nat /\ up[c] \in Seq(Messages)
  BY AnsweringBefore, Zenon
<1>7. replied[c][i] = 0
  BY <1>5, <1>6
<1>8. UNCHANGED <<up, got, write, replied>>
  BY Zenon DEF RecvFromServer, agentVars
<1>9. Returned(p)' = Len(<<>>) + Len(<<>>)
  BY <1>4, <1>8, Zenon DEF Returned
<1>10. Returned(p)' = 0 /\ replied'[c][i] = 0 /\ Returned(p)' <= replied'[c][i]
  BY <1>7, <1>8, <1>9
<1>11. \A n, max : Unbroken(up'[c], i, p, n, max)
  BY <1>4, <1>6, <1>8, NoChunks, Zenon
<1>12. Complete(up'[c], i, p, 0, 0)
  BY DEF Complete
<1> QED
  BY <1>10, <1>11, <1>12, Zenon DEF Answering

\* The hub takes some message from some channel.
LEMMA AnsweringRecv ==
  ASSUME AgentInvariant, [Next]_vars, NEW p \in Programs, NEW c, NEW i, Owns(p, c, i),
         NEW d \in Channels, RecvFromClient(d)
  PROVE  Answering(p, c, i)'
<1> DEFINE m == Head(up[d])
<1>1. Types /\ c \in Channels /\ i \in Ids /\ id[p] = i /\ opened_on[p] = c
  BY Zenon DEF Owns, AgentInvariant, Types
<1>2. UNCHANGED <<got, replied>> /\ (Linked(c, i)' => Linked(c, i))
  BY Zenon DEF RecvFromClient, agentVars, clientVars, Linked
<1>3. /\ up[d] \in Seq(Messages) /\ up[d] # <<>>
      /\ up'[c] = IF c = d THEN Tail(up[c]) ELSE up[c]
      /\ write'[p] = IF m.type = "AgentData" /\ streams[m.id] = p
                     THEN Append(write[p], m.data) ELSE write[p]
  BY <1>1, ReceivedUp
<1>4. ASSUME m.type = "AgentData", streams[m.id] = p
      PROVE  d = c /\ m.id = i
  BY <1>1, <1>4, WrittenFor, Zenon
<1>5. CASE DataFor(m, i) /\ d = c
  <2>1. CASE streams[i] = p
    BY <1>5, <2>1, AnsweringTake, Zenon
  <2>2. CASE streams[i] # p
    <3>1. streams'[i] # p
      BY <2>2, StreamBefore, Zenon
    <3> QED
      BY <3>1, Zenon DEF Answering
  <2> QED
    BY <2>1, <2>2, Zenon
<1>6. CASE ~(DataFor(m, i) /\ d = c)
  <2>1. write'[p] = write[p]
    BY <1>3, <1>4, <1>6, Zenon DEF DataFor
  <2>2. Returned(p)' = Returned(p)
    BY <1>2, <2>1, Zenon DEF Returned
  <2>3. CASE d # c
    <3>1. up'[c] = up[c]
      BY <1>3, <2>3, Zenon
    <3> QED
      BY <1>2, <2>2, <3>1, AnsweringStill, Zenon
  <2>4. CASE d = c
    <3>1. up[c] \in Seq(Messages) /\ up[c] # <<>> /\ up'[c] = Tail(up[c])
      BY <1>3, <2>4, Zenon
    <3>2. ~(Head(up[c]).type = "AgentData" /\ Head(up[c]).id = i)
      BY <1>6, <2>4, Zenon DEF DataFor
    <3>3. \A n, max \in Nat :
            /\ Unbroken(up[c], i, p, n, max) => Unbroken(up'[c], i, p, n, max)
            /\ Complete(up[c], i, p, n, max) => Complete(up'[c], i, p, n, max)
      BY <3>1, <3>2, TailOther, Zenon
    <3> QED
      BY <1>2, <2>2, <3>3, AnsweringSame, Zenon
  <2> QED
    BY <2>3, <2>4, Zenon
<1> HIDE DEF m
<1> QED
  BY <1>5, <1>6, Zenon

\* The agent answers the program's next request.
LEMMA AnsweringSend ==
  ASSUME AgentInvariant, [Next]_vars, NEW p \in Programs, NEW c, NEW i, Owns(p, c, i),
         ReadAgent(c, i), cli[c] = "relay", Returned(p)' = Returned(p)
  PROVE  Answering(p, c, i)'
<1> DEFINE n == Returned(p)
           b == replied[c][i]
           a == asked[p]
           s == agent_got[c][i]
           m == AgentData(i, <<p, b + 1>>)
<1>1. Types /\ c \in Channels /\ i \in Ids
  BY Zenon DEF Owns, AgentInvariant, Types
<1>2. a \in Nat /\ n \in Nat /\ p \in Nat
  BY ReturningBefore, Zenon
<1>3. Answering(p, c, i) /\ up[c] \in Seq(Messages) /\ b \in Nat
  BY AnsweringBefore, Zenon
<1>4. b + 1 \in 1 .. Len(s) /\ AgentData(i, s[b + 1]) \in Messages
  BY <1>1, AnswerSent, Zenon
<1>5. Requested(p, c, i) /\ s \in Seq(Seq(Nat)) /\ cwrite[c][i] \in Seq(Seq(Nat))
  BY RequestedBefore, Zenon
<1>6. Continues(s, p, 0) /\ Len(s) + Len(cwrite[c][i]) <= a
  BY <1>5, Zenon DEF Requested, Taken
<1>7. /\ dialed[c][i] = "relay" /\ SendToServer(c, AgentData(i, s[b + 1]))
      /\ UNCHANGED <<asked, dialed, srv, cli>>
  BY Zenon DEF ReadAgent
<1>8. replied'[c][i] = b + 1
  BY <1>1, Answered
<1> HIDE DEF n, b, a, s
<1>9. s[b + 1] = <<p, b + 1>>
  <2>1. s[b + 1] = <<p, 0 + (b + 1)>>
    BY <1>4, <1>6, Zenon DEF Continues
  <2>2. 0 + (b + 1) = b + 1
    BY <1>3
  <2> QED
    BY <2>1, <2>2, Zenon
<1>10. b + 1 \in Nat /\ b + 1 <= a
  <2>1. Len(s) \in Nat /\ Len(cwrite[c][i]) \in Nat
    BY <1>5, TwoLengths, Zenon
  <2> QED
    BY <1>2, <1>3, <1>4, <1>6, <2>1, SumAbove, Zenon
<1>11. m \in Messages /\ SendToServer(c, m)
  BY <1>4, <1>7, <1>9, Zenon
<1>12. SUFFICES ASSUME streams'[i] = p
                PROVE  /\ Unbroken(up'[c], i, p, n, a)
                       /\ Linked(c, i)' => /\ n <= b + 1
                                           /\ Unbroken(up'[c], i, p, n, b + 1)
                                           /\ Complete(up'[c], i, p, n, b + 1)
  BY <1>7, <1>8, Zenon DEF Answering, n, a
<1>13. streams[i] = p
  BY <1>12, StreamBefore, Zenon
<1>14. CASE srv[c] = "attached"
  <2>1. Linked(c, i)
    BY <1>7, <1>14 DEF Linked
  <2>2. n <= b /\ Unbroken(up[c], i, p, n, b) /\ Complete(up[c], i, p, n, b)
    BY <1>3, <1>13, <2>1, Zenon DEF Answering, n, b
  <2>3. up'[c] = Append(up[c], m)
    <3> HIDE DEF m
    <3>1. \/ ~(srv[c] = "attached" /\ cli[c] = "relay")
          \/ up'[c] = Append(up[c], m)
      BY <1>1, <1>11, SentUp, Zenon
    <3> QED
      BY <1>14, <3>1, Zenon
  <2>4. up[c] \in Seq(Messages) /\ p \in Nat /\ n \in Nat /\ b \in Nat
    BY <1>2, <1>3, Zenon
  <2>5. Unbroken(up'[c], i, p, n, b + 1) /\ Complete(up'[c], i, p, n, b + 1)
    BY <1>1, <2>2, <2>3, <2>4, UnbrokenAppendNext
  <2>6. up'[c] \in Seq(Messages)
    BY <1>11, <2>3, <2>4, AppendIndex, Zenon
  <2>7. Unbroken(up'[c], i, p, n, a)
    BY <1>2, <1>10, <2>5, <2>6, UnbrokenFurther, Zenon
  <2>8. n <= b + 1
    BY <2>2, <2>4
  <2> QED
    BY <2>5, <2>7, <2>8, Zenon
<1>15. CASE srv[c] # "attached"
  <2>1. ~Linked(c, i)'
    BY <1>7, <1>15, Zenon DEF Linked
  <2>2. up'[c] = up[c]
    <3> HIDE DEF m
    <3> QED
      BY <1>1, <1>11, <1>15, QueuedUp, Zenon
  <2>3. Unbroken(up[c], i, p, n, a)
    BY <1>3, <1>13, Zenon DEF Answering, n, a
  <2> QED
    BY <2>1, <2>2, <2>3, Zenon
<1> QED
  BY <1>14, <1>15, Zenon

\* A step of the client's task for a program.
LEMMA AnsweringTask ==
  ASSUME AgentInvariant, [Next]_vars, NEW p \in Programs, NEW c, NEW i, Owns(p, c, i),
         \/ Dial(c, i) \/ AgentLost(c, i) \/ WriteAgent(c, i)
         \/ ReadAgent(c, i) \/ AgentStreamClosed(c, i),
         Returned(p)' = Returned(p), Linked(c, i)' => Linked(c, i)
  PROVE  Answering(p, c, i)'
<1>1. Types /\ c \in Channels /\ i \in Ids
  BY Zenon DEF Owns, AgentInvariant, Types
<1>2. ASSUME EndStream(c, i)
      PROVE  ~Linked(c, i)'
  <2>1. dialed'[c][i] = "none"
    BY <1>1, <1>2, Ended
  <2> QED
    BY <2>1, Zenon DEF Linked
<1>3. CASE Dial(c, i) \/ WriteAgent(c, i)
  <2>1. UNCHANGED <<up, replied>>
    BY <1>3, Zenon DEF Dial, WriteAgent, wireVars, agentVars
  <2> QED
    BY <2>1, AnsweringStill, Zenon
<1>4. CASE AgentStreamClosed(c, i)
  <2>1. EndStream(c, i) /\ up' = up
    BY <1>4, Zenon DEF AgentStreamClosed, wireVars
  <2> QED
    BY <1>2, <2>1, AnsweringStill, Zenon
<1>5. CASE AgentLost(c, i)
  <2> DEFINE m == AgentClose(i)
  <2>1. EndStream(c, i) /\ SendToServer(c, m)
    BY <1>5, Zenon DEF AgentLost, ReportLoss
  <2>2. m \in Messages
    BY <1>1, IsMessage, Zenon
  <2>3. ~DataFor(m, i)
    BY CloseParts DEF DataFor
  <2> HIDE DEF m
  <2>4. up'[c] = up[c] \/ up'[c] = Append(up[c], m)
    BY <1>1, <2>1, <2>2, QueuedUp, Zenon
  <2> QED
    BY <1>2, <2>1, <2>2, <2>3, <2>4, AnsweringOther, Zenon
<1>6. CASE ReadAgent(c, i) /\ cli[c] = "relay"
  BY <1>6, AnsweringSend, Zenon
<1>7. CASE ReadAgent(c, i) /\ cli[c] # "relay"
  <2>1. EndStream(c, i) /\ up' = up
    BY <1>7, Zenon DEF ReadAgent
  <2> QED
    BY <1>2, <2>1, AnsweringStill, Zenon
<1> QED
  BY <1>3, <1>4, <1>5, <1>6, <1>7, Zenon

\* A step of a task for another connection.
LEMMA AnsweringElsewhere ==
  ASSUME AgentInvariant, [Next]_vars, NEW p \in Programs, NEW c, NEW i, Owns(p, c, i),
         NEW d \in Channels, NEW j \in Ids, ~(c = d /\ i = j),
         \/ Dial(d, j) \/ AgentLost(d, j) \/ WriteAgent(d, j)
         \/ ReadAgent(d, j) \/ AgentStreamClosed(d, j),
         Returned(p)' = Returned(p), Linked(c, i)' => Linked(c, i)
  PROVE  Answering(p, c, i)'
<1>1. Types /\ c \in Channels /\ i \in Ids
  BY Zenon DEF Owns, AgentInvariant, Types
<1>2. replied'[c][i] = replied[c][i]
  BY <1>1, TaskElsewhere, Zenon
<1>3. ASSUME NEW m \in Messages, SendToServer(d, m), m.id = j
      PROVE  Answering(p, c, i)'
  <2>1. CASE d = c
    <3>1. ~DataFor(m, i)
      BY <1>3, <2>1, Zenon DEF DataFor
    <3>2. up'[c] = up[c] \/ up'[c] = Append(up[c], m)
      BY <1>1, <1>3, QueuedUp, Zenon
    <3> QED
      BY <1>2, <3>1, <3>2, AnsweringOther, Zenon
  <2>2. CASE d # c
    <3>1. up'[c] = up[c] \/ c = d
      BY <1>1, <1>3, QueuedUp, Zenon
    <3> QED
      BY <1>2, <2>2, <3>1, AnsweringStill, Zenon
  <2> QED
    BY <2>1, <2>2, Zenon
<1>4. CASE up' = up
  BY <1>2, <1>4, AnsweringStill, Zenon
<1>5. CASE AgentLost(d, j)
  <2>1. SendToServer(d, AgentClose(j)) /\ AgentClose(j) \in Messages /\ AgentClose(j).id = j
    BY <1>5, IsMessage, CloseParts, Zenon DEF AgentLost, ReportLoss
  <2> QED
    BY <1>3, <2>1, Zenon
<1>6. CASE ReadAgent(d, j)
  <2> DEFINE m == AgentData(j, agent_got[d][j][replied[d][j] + 1])
  <2>1. up' = up \/ SendToServer(d, m)
    BY <1>6, Zenon DEF ReadAgent
  <2>2. m \in Messages /\ m.id = j
    BY <1>1, <1>6, AnswerSent, DataParts, Zenon
  <2> HIDE DEF m
  <2> QED
    BY <1>3, <1>4, <2>1, <2>2, Zenon
<1>7. CASE Dial(d, j) \/ WriteAgent(d, j) \/ AgentStreamClosed(d, j)
  <2>1. up' = up
    BY <1>7, Zenon DEF Dial, WriteAgent, AgentStreamClosed, wireVars
  <2> QED
    BY <1>4, <2>1, Zenon
<1> QED
  BY <1>5, <1>6, <1>7, Zenon

LEMMA ReturningStep ==
  ASSUME AgentInvariant, [Next]_vars, NEW p \in Programs
  PROVE  Returning(p)'
<1>1. CASE got'[p] = got[p] /\ write'[p] = write[p]
  <2>1. Returning(p) /\ Returned(p) \in Nat /\ asked[p] \in Nat
    BY ReturningBefore, Zenon
  <2>2. Returned(p)' = Returned(p)
    BY <1>1, Zenon DEF Returned
  <2>3. Returned(p) <= asked[p]
    BY <2>1, Zenon DEF Returning
  <2>4. Returned(p) <= asked'[p]
    BY <2>1, <2>3, AskedMoves
  <2> QED
    BY <1>1, <2>1, <2>2, <2>4, Zenon DEF Returning
<1>2. ASSUME NEW d \in Channels, RecvFromClient(d), Head(up[d]).type = "AgentData",
             streams[Head(up[d]).id] = p
      PROVE  Returning(p)'
  <2>1. PICK i : i = Head(up[d]).id
    OBVIOUS
  <2>2. id[p] = i /\ i \in Ids /\ opened_on[p] = d
    BY <1>2, <2>1, WrittenFor, Zenon
  <2>3. Owns(p, d, i) /\ DataFor(Head(up[d]), i) /\ streams[i] = p
    BY <1>2, <2>1, <2>2, Zenon DEF Owns, DataFor
  <2> QED
    BY <1>2, <2>3, AnsweringTake, Zenon
<1> QED
  BY <1>1, <1>2, ReturnMoves, ReturningRead, ReturningDone, Zenon

LEMMA AnsweringOwned ==
  ASSUME AgentInvariant, [Next]_vars, NEW p \in Programs, NEW c, NEW i, Owns(p, c, i)
  PROVE  Answering(p, c, i)'
<1>1. Types /\ c \in Channels /\ i \in Ids /\ id[p] = i
  BY Zenon DEF Owns, AgentInvariant, Types
<1>2. CASE \E d \in Channels : RecvFromClient(d)
  BY <1>2, AnsweringRecv, Zenon
<1>3. CASE Finish(p)
  <2>1. streams \in [Ids -> Programs \cup {None}]
    BY <1>1, TypesAre, Zenon
  <2>2. streams'[i] = None
    BY <1>1, <1>3, <2>1 DEF Finish
  <2>3. None # p
    BY NotNone, Zenon
  <2> QED
    BY <2>2, <2>3, Zenon DEF Answering
<1>4. CASE RecvFromServer(c) /\ Head(down[c]) = AgentOpen(i)
  BY <1>4, AnsweringFresh, Zenon
<1>5. ASSUME ~\E d \in Channels : RecvFromClient(d), ~Finish(p),
             ~(RecvFromServer(c) /\ Head(down[c]) = AgentOpen(i))
      PROVE  Answering(p, c, i)'
  <2>1. Linked(c, i)' => Linked(c, i)
    BY <1>5, LinkedBefore, Zenon
  <2>2. Returned(p)' = Returned(p)
    <3>1. ASSUME got'[p] = got[p] /\ write'[p] = write[p]
          PROVE  Returned(p)' = Returned(p)
      BY <3>1, Zenon DEF Returned
    <3> QED
      BY <1>5, <3>1, ReturnMoves, ReturningRead, Zenon
  <2>3. ASSUME NEW d \in Channels, EndChannel(d)
        PROVE  Answering(p, c, i)'
    <3>1. up \in [Channels -> Seq(Messages)]
      BY <1>1, TypesAre, Zenon
    <3>2. srv \in [Channels -> {"none", "attached", "ended", "closed"}]
      BY <1>1, TypesAre, Zenon
    <3>3. replied' = replied
      BY <2>3, Zenon DEF EndChannel, agentVars
    <3>4. CASE d = c
      <4>1. up'[c] = <<>>
        BY <1>1, <2>3, <3>1, <3>4 DEF EndChannel
      <4>2. srv'[c] = "ended"
        BY <1>1, <2>3, <3>2, <3>4 DEF EndChannel
      <4>3. ~Linked(c, i)'
        BY <4>2 DEF Linked
      <4>4. \A n, max \in Nat : Unbroken(up'[c], i, p, n, max)
        BY <4>1, EmptyQueue, Zenon
      <4> QED
        BY <2>2, <4>3, <4>4, AnsweringSame, Zenon
    <3>5. CASE d # c
      <4>1. up'[c] = up[c]
        BY <1>1, <2>3, <3>1, <3>5 DEF EndChannel
      <4> QED
        BY <2>1, <2>2, <3>3, <4>1, AnsweringStill, Zenon
    <3> QED
      BY <3>4, <3>5, Zenon
  <2>4. ASSUME NEW d \in Channels, NEW j \in Ids,
               \/ Dial(d, j) \/ AgentLost(d, j) \/ WriteAgent(d, j)
               \/ ReadAgent(d, j) \/ AgentStreamClosed(d, j)
        PROVE  Answering(p, c, i)'
    <3>1. CASE d = c /\ j = i
      BY <2>1, <2>2, <2>4, <3>1, AnsweringTask, Zenon
    <3>2. CASE ~(c = d /\ i = j)
      BY <2>1, <2>2, <2>4, <3>2, AnsweringElsewhere, Zenon
    <3> QED
      BY <3>1, <3>2, Zenon
  <2>5. ASSUME up' = up, replied' = replied
        PROVE  Answering(p, c, i)'
    BY <2>1, <2>2, <2>5, AnsweringStill, Zenon
  <2>6. up' = up \/ (\E d \in Channels : EndChannel(d)) \/ Answering(p, c, i)'
    BY <1>5, <2>4, UpMoves, Zenon
  <2>7. replied' = replied \/ (\E d \in Channels : RecvFromServer(d)) \/ Answering(p, c, i)'
    BY <2>4, TaskMoves, Zenon
  <2>8. ASSUME NEW d \in Channels, RecvFromServer(d)
        PROVE  replied' = replied
    BY <2>8, Zenon DEF RecvFromServer, agentVars
  <2> QED
    BY <2>3, <2>5, <2>6, <2>7, <2>8, Zenon
<1> QED
  BY <1>2, <1>3, <1>4, <1>5, Zenon

LEMMA AnsweringFirst ==
  ASSUME AgentInvariant, [Next]_vars, NEW p \in Programs, NEW c \in Channels, NEW i \in Ids,
         Open(p), id[p] = i
  PROVE  Answering(p, c, i)'
<1>1. Types
  BY Zenon DEF AgentInvariant, Types
<1>2. ~Known(c, i)
  BY OpenUnknown, Zenon
<1>3. dialed[c][i] = "none" /\ ~About(up[c], i)
  BY <1>2, Zenon DEF Known
<1>4. UNCHANGED <<up, dialed>>
  BY Zenon DEF Open, clientVars
<1>5. up[c] \in Seq(Messages)
  BY <1>1, TypesAre, Zenon
<1>6. \A n, max : Unbroken(up'[c], i, p, n, max)
  BY <1>3, <1>4, <1>5, NoChunks, Zenon
<1>7. ~Linked(c, i)'
  BY <1>3, <1>4, Zenon DEF Linked
<1> QED
  BY <1>6, <1>7, Zenon DEF Answering

LEMMA AnswerStep ==
  ASSUME AgentInvariant, [Next]_vars
  PROVE  AnswerInv'
<1>1. ASSUME NEW p \in Programs, opened_on'[p] # None
      PROVE  \E c, i : opened_on'[p] = c /\ id'[p] = i /\ Answering(p, c, i)'
  <2>1. CASE opened_on[p] # None
    <3>1. PICK c, i : Owns(p, c, i)
      BY <2>1, OwnsFacts, Zenon
    <3>2. Answering(p, c, i)'
      BY <3>1, AnsweringOwned, Zenon
    <3>3. opened_on'[p] = c /\ id'[p] = i
      BY <2>1, <3>1, OwnersKept, Zenon DEF Owns
    <3> QED
      BY <3>2, <3>3, Zenon
  <2>2. CASE opened_on[p] = None
    <3>1. Open(p) /\ opened_on'[p] = channel /\ channel \in Channels
      BY <1>1, <2>2, OpenedBefore, Zenon
    <3>2. id[p] \in Ids /\ id' = id
      BY <3>1, OpenUnknown, Zenon DEF Open
    <3>3. PICK c \in Channels, i \in Ids : opened_on'[p] = c /\ id[p] = i /\ id'[p] = i
      BY <3>1, <3>2, Zenon
    <3>4. Answering(p, c, i)'
      BY <3>1, <3>3, AnsweringFirst, Zenon
    <3> QED
      BY <3>3, <3>4, Zenon
  <2> QED
    BY <2>1, <2>2, Zenon
<1>2. \A p \in Programs : Returning(p)'
  BY ReturningStep, Zenon
<1>3. ASSUME NEW p \in Programs, NEW c, NEW i, Answering(p, c, i)', streams'[i] = p
      PROVE  /\ Unbroken(up'[c], i, p, Returned(p)', asked'[p])
             /\ dialed'[c][i] # "none" /\ cli'[c] = "relay" /\ srv'[c] = "attached" =>
                  /\ Returned(p)' <= replied'[c][i]
                  /\ Unbroken(up'[c], i, p, Returned(p)', replied'[c][i])
                  /\ Complete(up'[c], i, p, Returned(p)', replied'[c][i])
  BY <1>3, Zenon DEF Answering, Linked
<1>4. ASSUME NEW p \in Programs
      PROVE  /\ Returned(p)' <= asked'[p]
             /\ Continues(got'[p], p, 0)
             /\ Continues(write'[p], p, Len(got'[p]))
  BY <1>2, Zenon DEF Returning
<1> QED
  BY <1>1, <1>3, <1>4, Zenon DEF AnswerInv

-----------------------------------------------------------------------------
(* The end of a connection                                                  *)

LEMMA StreamKept ==
  ASSUME Types, [Next]_vars, NEW d \in Channels, NEW j \in Ids, j \in cstreams[d]
  PROVE  \/ j \in cstreams'[d] \/ LeaveChannel(d)
         \/ RecvFromServer(d) /\ Head(down[d]) = AgentClose(j)
<1>1. CASE cstreams' = cstreams
  BY <1>1, Zenon
<1>2. ASSUME NEW c \in Channels, RecvFromServer(c)
      PROVE  j \in cstreams'[d] \/ (RecvFromServer(d) /\ Head(down[d]) = AgentClose(j))
  <2> DEFINE m == Head(down[c])
  <2>1. m \in Messages /\ (j \in cstreams'[d] \/ (d = c /\ j = m.id /\ m.type = "AgentClose"))
    BY <1>2, Received
  <2> HIDE DEF m
  <2>2. m.type = "AgentClose" => m = AgentClose(m.id)
    BY <2>1, MessageForm, Zenon
  <2> QED
    BY <1>2, <2>1, <2>2, Zenon DEF m
<1>3. ASSUME NEW c \in Channels, LeaveChannel(c)
      PROVE  j \in cstreams'[d] \/ LeaveChannel(d)
  <2>1. cstreams \in [Channels -> SUBSET Ids]
    BY TypesAre, Zenon
  <2>2. c # d => cstreams'[d] = cstreams[d]
    BY <1>3, <2>1 DEF LeaveChannel
  <2> QED
    BY <1>3, <2>2, Zenon
<1> QED
  BY <1>1, <1>2, <1>3, StreamMoves, Zenon

LEMMA DialedKept ==
  ASSUME Types, [Next]_vars, NEW d \in Channels, NEW j \in Ids, dialed[d][j] # "none"
  PROVE  \/ dialed'[d][j] # "none" \/ AgentLost(d, j) \/ AgentStreamClosed(d, j)
         \/ ReadAgent(d, j) /\ cli[d] # "relay"
<1>1. CASE UNCHANGED <<dialed, cwrite, agent_got, replied>>
  BY <1>1, Zenon
<1>2. ASSUME NEW c \in Channels, RecvFromServer(c)
      PROVE  dialed'[d][j] # "none"
  BY <1>2, Received
<1>3. ASSUME NEW c \in Channels, NEW i \in Ids,
             \/ Dial(c, i) \/ AgentLost(c, i) \/ WriteAgent(c, i)
             \/ ReadAgent(c, i) \/ AgentStreamClosed(c, i)
      PROVE  \/ dialed'[d][j] # "none" \/ AgentLost(d, j) \/ AgentStreamClosed(d, j)
             \/ ReadAgent(d, j) /\ cli[d] # "relay"
  <2>1. CASE ~(d = c /\ j = i)
    BY <1>3, <2>1, TaskElsewhere, Zenon
  <2>2. CASE d = c /\ j = i
    <3>1. Dial(d, j) => dialed'[d][j] = "relay"
      BY Dialed
    <3>2. WriteAgent(d, j) \/ (ReadAgent(d, j) /\ cli[d] = "relay") => dialed' = dialed
      BY Zenon DEF WriteAgent, ReadAgent
    <3>3. "relay" # "none"
      OBVIOUS
    <3> QED
      BY <1>3, <2>2, <3>1, <3>2, <3>3, Zenon
  <2> QED
    BY <2>1, <2>2, Zenon
<1> QED
  BY <1>1, <1>2, <1>3, TaskMoves, Zenon

\* A client that serves a connection goes on serving it unless its agent is lost.
LEMMA LiveKept ==
  ASSUME AgentInvariant, [Next]_vars, NEW p \in Programs, NEW c, NEW i, Owns(p, c, i), Live(c, i),
         cli[c] = "relay", cli'[c] = "relay", prog[p] = "relay"
  PROVE  Live(c, i)' \/ AgentLost(c, i)
<1>1. Types /\ IdInv /\ c \in Channels /\ i \in Ids /\ id[p] = i
  BY Zenon DEF Owns, AgentInvariant, Types
<1>2. FirstInv
  BY Zenon DEF AgentInvariant
<1>3. ~LeaveChannel(c)
  <2>1. cli \in [Channels -> {"none", "relay", "gone"}]
    BY <1>1, TypesAre, Zenon
  <2> QED
    BY <1>1, <2>1 DEF LeaveChannel
<1>4. CASE Carried(down[c], AgentOpen(i))
  <2>1. Carried(down'[c], AgentOpen(i)) \/ (RecvFromServer(c) /\ AgentOpen(i) = Head(down[c]))
    BY <1>1, <1>3, <1>4, CarriedKept, Zenon
  <2>2. ASSUME RecvFromServer(c), AgentOpen(i) = Head(down[c])
        PROVE  i \in cstreams'[c] /\ dialed'[c][i] = "dial"
    <3>1. Head(down[c]).type = "AgentOpen" /\ Head(down[c]).id = i
      BY <2>2, OpenParts
    <3> QED
      BY <1>1, <2>2, <3>1, Received
  <2>3. "dial" # "none"
    OBVIOUS
  <2> QED
    BY <2>1, <2>2, <2>3, Zenon DEF Live
<1>5. CASE i \in cstreams[c] /\ dialed[c][i] # "none"
  <2>1. ~(RecvFromServer(c) /\ Head(down[c]) = AgentClose(i))
    <3>1. Carried(down[c], AgentClose(i)) => prog[p] = "done"
      BY <1>1, <1>2, Zenon DEF FirstInv
    <3>2. RecvFromServer(c) /\ Head(down[c]) = AgentClose(i) => Carried(down[c], AgentClose(i))
      BY <1>1, PoppedDown, Zenon
    <3> QED
      BY <3>1, <3>2
  <2>2. i \in cstreams'[c]
    BY <1>1, <1>3, <1>5, <2>1, StreamKept, Zenon
  <2>3. ~AgentStreamClosed(c, i)
    BY <1>5, Zenon DEF AgentStreamClosed
  <2>4. dialed'[c][i] # "none" \/ AgentLost(c, i)
    BY <1>1, <1>5, <2>3, DialedKept, Zenon
  <2> QED
    BY <2>2, <2>4, Zenon DEF Live
<1> QED
  BY <1>4, <1>5, Zenon DEF Live

\* The hub still has the AgentClose before it, unless it takes it.
LEMMA CloseKept ==
  ASSUME AgentInvariant, [Next]_vars, NEW p \in Programs, NEW c, NEW i, Owns(p, c, i),
         Carried(up[c], AgentClose(i)), srv'[c] = "attached", streams'[i] = p
  PROVE  Carried(up'[c], AgentClose(i))
<1> DEFINE x == AgentClose(i)
<1>1. Types /\ c \in Channels /\ i \in Ids
  BY Zenon DEF Owns, AgentInvariant, Types
<1>2. up \in [Channels -> Seq(Messages)]
  BY <1>1, TypesAre, Zenon
<1>3. srv \in [Channels -> {"none", "attached", "ended", "closed"}]
  BY <1>1, TypesAre, Zenon
<1>4. CASE up' = up
  BY <1>4, Zenon
<1>5. ASSUME NEW d \in Channels, EndChannel(d)
      PROVE  Carried(up'[c], x)
  <2>1. d # c
    BY <1>3, <1>5 DEF EndChannel
  <2>2. up'[c] = up[c]
    BY <1>1, <1>2, <1>5, <2>1 DEF EndChannel
  <2> QED
    BY <2>2, Zenon
<1>6. ASSUME NEW d \in Channels, RecvFromClient(d)
      PROVE  Carried(up'[c], x)
  <2>1. Carried(up'[c], x) \/ (c = d /\ x = Head(up[d]))
    BY <1>1, <1>6, PoppedUp, Zenon
  <2>2. ASSUME x = Head(up[d])
        PROVE  FALSE
    <3>1. Head(up[d]).id = i /\ Head(up[d]).type = "AgentClose"
      BY <2>2, CloseParts
    <3>2. streams'[i] = None
      BY <1>1, <1>6, <3>1, ReceivedUp
    <3> QED
      BY <3>2, NotNone, Zenon
  <2> QED
    BY <2>1, <2>2, Zenon
<1>7. ASSUME NEW d \in Channels, NEW m \in Messages, SendToServer(d, m)
      PROVE  Carried(up'[c], x)
  BY <1>1, <1>7, QueuedUp, Zenon
<1>8. ASSUME NEW d \in Channels, NEW j \in Ids, AgentLost(d, j)
      PROVE  Carried(up'[c], x)
  <2>1. SendToServer(d, AgentClose(j)) /\ AgentClose(j) \in Messages
    BY <1>8, IsMessage, Zenon DEF AgentLost, ReportLoss
  <2> QED
    BY <1>7, <2>1, Zenon
<1>9. ASSUME NEW d \in Channels, NEW j \in Ids, ReadAgent(d, j)
      PROVE  Carried(up'[c], x)
  <2> DEFINE m == AgentData(j, agent_got[d][j][replied[d][j] + 1])
  <2>1. up' = up \/ SendToServer(d, m)
    BY <1>9, Zenon DEF ReadAgent
  <2>2. m \in Messages
    BY <1>1, <1>9, AnswerSent, Zenon
  <2> HIDE DEF m, x
  <2> QED
    BY <1>4, <1>7, <2>1, <2>2, Zenon DEF x
<1> HIDE DEF x
<1> QED
  BY <1>4, <1>5, <1>6, <1>8, <1>9, UpMoves, Zenon DEF x

LEMMA EndStep ==
  ASSUME AgentInvariant, [Next]_vars
  PROVE  EndInv'
<1>1. SUFFICES ASSUME NEW p \in Programs, Served(p)', prog'[p] = "relay", streams'[id'[p]] = p
               PROVE  \E c, i : /\ channel' = c /\ id'[p] = i
                                /\ Live(c, i)' \/ Carried(up'[c], AgentClose(i))
  BY <1>1, Zenon DEF EndInv, Live
<1>3. Types /\ IdInv
  BY Zenon DEF AgentInvariant, Types
<1>4. opened_on'[p] = channel' /\ channel' # None
  BY <1>1, Zenon DEF Served
<1>5. CASE opened_on[p] = None
  <2>1. Open(p) /\ channel \in Channels
    BY <1>4, <1>5, OpenedBefore, Zenon
  <2>2. UNCHANGED <<channel, id, srv, cli>>
    BY <2>1, Zenon DEF Open, clientVars
  <2>3. id[p] \in Ids /\ AgentOpen(id[p]) \in Messages /\ SendToChannel(AgentOpen(id[p]))
    BY <1>3, <2>1, OpenSent, Zenon
  <2>4. srv[channel] = "attached" /\ cli[channel] = "relay"
    BY <1>1, <2>2, Zenon DEF Served
  <2>5. PICK c \in Channels, i \in Ids : channel = c /\ id[p] = i
    BY <2>1, <2>3, Zenon
  <2>6. down[c] \in Seq(Messages) /\ down'[c] = Append(down[c], AgentOpen(i))
    BY <1>3, <2>3, <2>4, <2>5, QueuedDown
  <2>7. Carried(down'[c], AgentOpen(i))
    BY <2>3, <2>5, <2>6, CarriedAppend
  <2>8. Live(c, i)'
    BY <2>7, Zenon DEF Live
  <2> QED
    BY <2>2, <2>5, <2>8, Zenon
<1>6. CASE opened_on[p] # None
  <2>1. PICK c, i : Owns(p, c, i)
    BY <1>6, OwnsFacts, Zenon
  <2>2. /\ Served(p) /\ channel = c /\ channel' = c
        /\ srv[c] = "attached" /\ cli[c] = "relay" /\ srv'[c] = "attached" /\ cli'[c] = "relay"
    BY <1>1, <2>1, ServedBefore, Zenon
  <2>3. prog[p] = "relay"
    BY <1>1, <1>6, RelayBefore, Zenon
  <2>4. id'[p] = i /\ id[p] = i /\ c \in Channels /\ i \in Ids
    BY <1>6, <2>1, OwnersKept, Zenon DEF Owns
  <2>5. streams'[i] = p /\ streams[i] = p
    BY <1>1, <2>1, <2>4, StreamBefore, Zenon
  <2>6. Live(c, i) \/ Carried(up[c], AgentClose(i))
    <3>1. EndInv
      BY Zenon DEF AgentInvariant
    <3> QED
      BY <2>2, <2>3, <2>4, <2>5, <3>1, Zenon DEF EndInv
  <2>7. ASSUME AgentLost(c, i)
        PROVE  Carried(up'[c], AgentClose(i))
    <3>1. SendToServer(c, AgentClose(i)) /\ AgentClose(i) \in Messages
      BY <2>4, <2>7, IsMessage, Zenon DEF AgentLost, ReportLoss
    <3>2. up[c] \in Seq(Messages) /\ up'[c] = Append(up[c], AgentClose(i))
      BY <1>3, <2>2, <2>4, <3>1, QueuedUp
    <3> QED
      BY <3>1, <3>2, CarriedAppend
  <2>8. Live(c, i)' \/ Carried(up'[c], AgentClose(i))
    BY <2>1, <2>2, <2>3, <2>5, <2>6, <2>7, LiveKept, CloseKept, Zenon
  <2> QED
    BY <2>2, <2>4, <2>8, Zenon
<1> QED
  BY <1>5, <1>6, Zenon

-----------------------------------------------------------------------------
(* Ids: as many programs have one as ids have been given out               *)

INSTANCE FiniteSetTheorems

LEMMA IdsFinite ==
  IsFiniteSet(Programs) /\ Cardinality(Programs) = MaxPrograms
  BY FS_Interval, AgentBounds DEF Programs

\* No more ids have been given out than programs have registered.
LEMMA NextId ==
  ASSUME TypeOK, IdInv
  PROVE  IdLeft
<1> SUFFICES ASSUME NEW p \in Programs, id[p] = None
             PROVE  next_id \in Ids
  BY Zenon DEF IdLeft
<1> DEFINE R == {q \in Programs : id[q] # None}
<1>1. R \subseteq Programs /\ p \notin R
  OBVIOUS
<1>2. IsFiniteSet(R) /\ Cardinality(R) = next_id - 1
  BY <1>1, IdsFinite, FS_Subset, Zenon DEF IdInv
<1>3. IsFiniteSet(R \cup {p}) /\ Cardinality(R \cup {p}) = Cardinality(R) + 1
  BY <1>1, <1>2, FS_AddElement, Zenon
<1>4. R \cup {p} \subseteq Programs
  BY <1>1
<1>5. Cardinality(R \cup {p}) <= MaxPrograms
  BY <1>4, IdsFinite, FS_Subset
<1> QED
  BY <1>2, <1>3, <1>5, AgentBounds DEF TypeOK, Ids

LEMMA IdStep ==
  ASSUME AgentInvariant, IdLeft, [Next]_vars
  PROVE  IdInv'
<1>1. Types /\ IdInv /\ Types' /\ prog \in [Programs -> Stages] /\ id \in [Programs -> Ids \cup {None}]
  BY TypesStep, TypesAre, Zenon DEF AgentInvariant, Types
<1>2. CASE UNCHANGED <<prog, id, next_id>>
  BY <1>1, <1>2, Zenon DEF IdInv
<1>3. ASSUME NEW p \in Programs, NEW w \in Stages, RelayGoto(p, w), <<prog[p], w>> \in Moves,
             UNCHANGED <<id, next_id>>
      PROVE  IdInv'
  <2>1. \A q \in Programs : prog'[q] = IF q = p THEN w ELSE prog[q]
    BY <1>1, <1>3, Zenon DEF RelayGoto
  <2>2. prog[p] \in {"idle", "waiting"} \/ w \notin {"idle", "waiting"}
    BY <1>3, Zenon DEF Moves
  <2>3. prog[p] \notin {"idle", "waiting", "refused"} \/ w \in {"idle", "waiting", "refused"}
    BY <1>3, Zenon DEF Moves
  <2> QED
    BY <1>1, <1>3, <2>1, <2>2, <2>3, Zenon DEF IdInv
<1>4. ASSUME NEW p \in Programs, Register(p)
      PROVE  IdInv'
  <2>1. /\ id[p] = None /\ id' = [id EXCEPT ![p] = next_id] /\ next_id' = next_id + 1
        /\ prog' = [prog EXCEPT ![p] = "opening"]
    BY <1>1, <1>4, Zenon DEF Register, IdAfter, RelayGoto, IdInv
  <2>2. \A q \in Programs : /\ id'[q] = IF q = p THEN next_id ELSE id[q]
                            /\ prog'[q] = IF q = p THEN "opening" ELSE prog[q]
    BY <1>1, <2>1, Zenon
  <2>3. next_id \in Ids /\ next_id # None /\ next_id \in Nat
    BY <1>1, <2>1, NotNone, Zenon DEF IdLeft
  <2>4. \A q \in Programs : id[q] \in Nat /\ id[q] < next_id
    <3>1. \A q \in Programs : id[q] \in Nat
      BY <1>1, NotNone DEF None
    <3> QED
      BY <1>1, <3>1 DEF IdInv
  <2>5. \A q \in Programs : id'[q] < next_id'
    BY <2>1, <2>2, <2>3, <2>4
  <2>6. \A q, r \in Programs : id'[q] = id'[r] /\ id'[q] # None => q = r
    <3>1. \A q \in Programs : id[q] # next_id
      BY <2>3, <2>4
    <3> QED
      BY <1>1, <2>2, <3>1, Zenon DEF IdInv
  <2>7. Cardinality({q \in Programs : id'[q] # None}) = next_id' - 1
    <3> DEFINE R == {q \in Programs : id[q] # None}
    <3>1. {q \in Programs : id'[q] # None} = R \cup {p} /\ p \notin R /\ R \subseteq Programs
      BY <2>1, <2>2, <2>3
    <3>2. IsFiniteSet(R) /\ Cardinality(R) = next_id - 1
      BY <1>1, <3>1, IdsFinite, FS_Subset, Zenon DEF IdInv
    <3> HIDE DEF R
    <3>3. Cardinality(R \cup {p}) = Cardinality(R) + 1
      BY <3>1, <3>2, FS_AddElement, Zenon
    <3>4. (next_id - 1) + 1 = (next_id + 1) - 1
      BY <2>3
    <3> QED
      BY <2>1, <3>1, <3>2, <3>3, <3>4, Zenon
  <2>8. \A q \in Programs : /\ prog'[q] \in {"idle", "waiting"} => id'[q] = None
                            /\ id'[q] = None => prog'[q] \in {"idle", "waiting", "refused"}
    BY <1>1, <2>2, <2>3, Zenon DEF IdInv
  <2> QED
    BY <2>5, <2>6, <2>7, <2>8, Zenon DEF IdInv
<1> QED
  BY <1>1, <1>2, <1>3, <1>4, ProgramMoves, Zenon

-----------------------------------------------------------------------------
(* The invariant holds, and what follows from it                            *)

LEMMA InitialTypes ==
  ASSUME AgentInit
  PROVE  Types
<1>1. /\ channel = None /\ None \in {None} \cup Channels
      /\ 1 \in 1 .. MaxPrograms + 1
  BY AgentBounds DEF AgentInit
<1>2. Current
  BY <1>1, Zenon DEF Current
<1>3. <<>> \in Seq(Messages) /\ <<>> \in Seq(Seq(Nat))
  OBVIOUS
<1>4. /\ next_id = 1 /\ newest = None
      /\ streams \in [Ids -> Programs \cup {None}]
      /\ prog \in [Programs -> Stages] /\ id \in [Programs -> Ids \cup {None}]
      /\ write \in [Programs -> Seq(Seq(Nat))]
      /\ opened_on \in [Programs -> Channels \cup {None}]
  BY <1>3 DEF AgentInit, Stages
<1>5. /\ srv \in [Channels -> {"none", "attached", "ended", "closed"}]
      /\ cli \in [Channels -> {"none", "relay", "gone"}]
      /\ cstreams \in [Channels -> SUBSET Ids]
      /\ asked \in [Programs -> Nat] /\ got \in [Programs -> Seq(Seq(Nat))]
  BY <1>3 DEF AgentInit
<1>6. down \in [Channels -> Seq(Messages)] /\ up \in [Channels -> Seq(Messages)]
  BY <1>3, Zenon DEF AgentInit
<1>7. /\ dialed \in [Channels -> [Ids -> {"none", "dial", "relay"}]]
      /\ replied \in [Channels -> [Ids -> Nat]]
  BY DEF AgentInit
<1>8. /\ cwrite \in [Channels -> [Ids -> Seq(Seq(Nat))]]
      /\ agent_got \in [Channels -> [Ids -> Seq(Seq(Nat))]]
  BY <1>3 DEF AgentInit
<1>9. next_id \in 1 .. MaxPrograms + 1 /\ newest \in Channels \cup {None}
  BY <1>1, <1>4
<1> QED
  BY <1>2, <1>4, <1>5, <1>6, <1>7, <1>8, <1>9, TypesAre, Zenon

\* What is the case at first, one variable at a time.
LEMMA Initially ==
  ASSUME AgentInit
  PROVE  /\ channel = None /\ newest = None /\ next_id = 1
         /\ \A i \in Ids : streams[i] = None
         /\ \A p \in Programs : /\ prog[p] = "idle" /\ id[p] = None /\ opened_on[p] = None
                                /\ asked[p] = 0 /\ got[p] = <<>> /\ write[p] = <<>>
         /\ \A c \in Channels : /\ srv[c] = "none" /\ cli[c] = "none"
                                /\ down[c] = <<>> /\ up[c] = <<>> /\ cstreams[c] = {}
         /\ \A c \in Channels : \A i \in Ids :
               /\ dialed[c][i] = "none" /\ cwrite[c][i] = <<>>
               /\ agent_got[c][i] = <<>> /\ replied[c][i] = 0
<1>1. \A p \in Programs : /\ prog[p] = "idle" /\ id[p] = None /\ opened_on[p] = None
                          /\ asked[p] = 0 /\ got[p] = <<>> /\ write[p] = <<>>
  BY Zenon DEF AgentInit
<1>2. \A c \in Channels : /\ srv[c] = "none" /\ cli[c] = "none"
                          /\ down[c] = <<>> /\ up[c] = <<>> /\ cstreams[c] = {}
  BY Zenon DEF AgentInit
<1>3. \A c \in Channels : \A i \in Ids :
               /\ dialed[c][i] = "none" /\ cwrite[c][i] = <<>>
               /\ agent_got[c][i] = <<>> /\ replied[c][i] = 0
  BY Zenon DEF AgentInit
<1>4. channel = None /\ newest = None /\ next_id = 1 /\ \A i \in Ids : streams[i] = None
  BY Zenon DEF AgentInit
<1> QED
  BY <1>1, <1>2, <1>3, <1>4, Zenon

LEMMA InitialInvariant ==
  ASSUME AgentInit
  PROVE  AgentInvariant
<1>1. Types
  BY InitialTypes, Zenon
<1>2. /\ channel = None /\ newest = None /\ next_id = 1
      /\ \A i \in Ids : streams[i] = None
  BY Initially, Zenon
<1>3. \A p \in Programs : /\ prog[p] = "idle" /\ id[p] = None /\ opened_on[p] = None
                          /\ asked[p] = 0 /\ got[p] = <<>> /\ write[p] = <<>>
  BY Initially, Zenon
<1>4. \A c \in Channels : /\ srv[c] = "none" /\ cli[c] = "none"
                          /\ down[c] = <<>> /\ up[c] = <<>> /\ cstreams[c] = {}
  BY Initially, Zenon
<1>5. \A c \in Channels : \A i \in Ids :
               /\ dialed[c][i] = "none" /\ cwrite[c][i] = <<>>
               /\ agent_got[c][i] = <<>> /\ replied[c][i] = 0
  BY Initially, Zenon
<1>6. IdInv
  <2>1. {p \in Programs : id[p] # None} = {}
    BY <1>3
  <2>2. Cardinality({p \in Programs : id[p] # None}) = next_id - 1
    BY <1>2, <2>1, FS_EmptySet
  <2>3. \A p \in Programs : id[p] < next_id
    BY <1>2, <1>3 DEF None
  <2> QED
    BY <1>3, <2>2, <2>3, Zenon DEF IdInv
<1>7. NewestServes /\ NoStreamLeaked /\ LeakInv /\ EndInv
  BY <1>2, Zenon DEF NewestServes, NoStreamLeaked, LeakInv, EndInv, Served
<1>8. ChannelInv
  BY <1>4, Zenon DEF ChannelInv
<1>9. OpenedInv
  BY <1>3 DEF OpenedInv
<1>10. OwnerInv
  BY <1>4, <1>5, EmptyQueue, Zenon DEF OwnerInv, Known
<1>11. TaskInv
  BY <1>5 DEF TaskInv
<1>12. FirstInv
  BY <1>4, EmptyQueue, Zenon DEF FirstInv
<1>13. RequestInv
  BY <1>3, Zenon DEF RequestInv
<1>14. AnswerInv
  <2>1. \A p \in Programs : Returned(p) = Len(<<>>) + Len(<<>>)
    BY <1>3, Zenon DEF Returned
  <2>2. \A p \in Programs : Returned(p) <= asked[p]
    BY <1>3, <2>1
  <2> QED
    BY <1>3, <2>2, NothingContinues, Zenon DEF AnswerInv
<1> QED
  BY <1>1, <1>6, <1>7, <1>8, <1>9, <1>10, <1>11, <1>12, <1>13, <1>14, Zenon
     DEF AgentInvariant, Types

LEMMA NextInvariant ==
  ASSUME AgentInvariant, IdLeft, [Next]_vars
  PROVE  AgentInvariant'
BY TypesStep, IdStep, NewestStep, StreamStep, ChannelStep, OpenedStep, OwnerStep, TaskStep, FirstStep,
   LeakStep, RequestStep, AnswerStep, EndStep, Zenon DEF AgentInvariant, Types

\* In every state that agent forwarding can reach, for any number of programs,
\* channels and requests, AgentInvariant holds.
THEOREM AgentInvariantHolds == Spec => []AgentInvariant
<1>1. AgentInit => AgentInvariant
  BY InitialInvariant
<1>2. AgentInvariant => IdLeft
  BY NextId, Zenon DEF AgentInvariant
<1>3. AgentInvariant /\ [Next]_vars => AgentInvariant'
  BY <1>2, NextInvariant
<1> QED
  BY <1>1, <1>3, PTL DEF Spec

\* The hub, the channels and the clients keep their types, and the hub's sender
\* belongs to a channel handler that has not returned (send_to_channel).
THEOREM AgentTypeCorrect == Spec => []TypeOK
<1>1. AgentInvariant => TypeOK
  BY Zenon DEF AgentInvariant
<1> QED
  BY <1>1, AgentInvariantHolds, PTL

\* Programs are answered with the answers to their own requests, in order, without
\* a gap and without a repetition, however channels are replaced meanwhile.
THEOREM AgentAnswersExact == Spec => []AnswersExact
<1>1. ASSUME AgentInvariant PROVE AnswersExact
  <2>1. SUFFICES ASSUME NEW p \in Programs, NEW n \in 1 .. Len(got[p])
                 PROVE  n <= asked[p] /\ got[p][n] = <<p, n>>
    BY Zenon DEF AnswersExact
  <2>2. Returning(p) /\ asked[p] \in Nat /\ got[p] \in Seq(Seq(Nat)) /\ write[p] \in Seq(Seq(Nat))
    BY <1>1, ReturningBefore, Zenon
  <2>3. Len(got[p]) + Len(write[p]) <= asked[p] /\ Continues(got[p], p, 0)
    BY <2>2, Zenon DEF Returning, Returned
  <2>4. Len(got[p]) \in Nat /\ Len(write[p]) \in Nat
    BY <2>2, TwoLengths, Zenon
  <2>5. n <= asked[p]
    BY <2>1, <2>2, <2>3, <2>4, PartLess, Zenon
  <2>6. got[p][n] = <<p, 0 + n>>
    BY <2>1, <2>3, Zenon DEF Continues
  <2>7. 0 + n = n
    BY <2>1, <2>4, PartLess, Zenon
  <2> QED
    BY <2>5, <2>6, <2>7, Zenon
<1> QED
  BY <1>1, AgentInvariantHolds, PTL

\* What an agent receives on one connection is an unbroken start of what one
\* program wrote, the one the connection was opened for.
THEOREM AgentRequestsExact == Spec => []RequestsExact
<1>1. ASSUME AgentInvariant PROVE RequestsExact
  <2>1. SUFFICES ASSUME NEW c \in Channels, NEW i \in Ids, NEW n \in 1 .. Len(agent_got[c][i])
                 PROVE  \E p \in Programs : /\ id[p] = i /\ opened_on[p] = c
                                            /\ agent_got[c][i][n] = <<p, n>>
    BY Zenon DEF RequestsExact
  <2>2. TaskInv /\ OwnerInv
    BY <1>1, Zenon DEF AgentInvariant
  <2>3. dialed[c][i] = "relay"
    BY <2>1, <2>2 DEF TaskInv
  <2>4. Known(c, i)
    BY <2>3 DEF Known
  <2>5. PICK p \in Programs : id[p] = i /\ opened_on[p] = c
    BY <2>2, <2>4, Zenon DEF OwnerInv
  <2>6. Requested(p, c, i) /\ agent_got[c][i] \in Seq(Seq(Nat))
    BY <1>1, <2>5, RequestedBefore, Zenon DEF Owns
  <2>7. agent_got[c][i][n] = <<p, 0 + n>>
    BY <2>1, <2>6, Zenon DEF Requested, Continues
  <2>8. 0 + n = n
    BY <2>1
  <2> QED
    BY <2>5, <2>7, <2>8, Zenon
<1> QED
  BY <1>1, AgentInvariantHolds, PTL

\* The hub sends new connections to the channel attached last.
THEOREM AgentNewestServes == Spec => []NewestServes
<1>1. AgentInvariant => NewestServes
  BY Zenon DEF AgentInvariant
<1> QED
  BY <1>1, AgentInvariantHolds, PTL

\* The hub keeps no write half of a connection that is over.
THEOREM AgentNoStreamLeaked == Spec => []NoStreamLeaked
<1>1. AgentInvariant => NoStreamLeaked
  BY Zenon DEF AgentInvariant
<1> QED
  BY <1>1, AgentInvariantHolds, PTL

\* The client of the hub's channel keeps no stream to its agent for a program that
\* is gone without an AgentClose on the way.
THEOREM AgentNoAgentStreamLeaked == Spec => []NoAgentStreamLeaked
<1>1. ASSUME AgentInvariant PROVE NoAgentStreamLeaked
  <2>1. SUFFICES ASSUME channel # None, srv[channel] = "attached", NEW i \in cstreams[channel]
                 PROVE  \/ \E p \in Programs : id[p] = i /\ prog[p] \in {"relay", "closing"}
                        \/ \E k \in 1 .. Len(down[channel]) : down[channel][k] = AgentClose(i)
    BY Zenon DEF NoAgentStreamLeaked
  <2>2. Types /\ LeakInv
    BY <1>1, Zenon DEF AgentInvariant, Types
  <2>3. Current /\ cstreams \in [Channels -> SUBSET Ids]
    BY <2>2, TypesAre, Zenon
  <2>4. i \in Ids
    BY <2>1, <2>3 DEF Current
  <2> QED
    BY <2>1, <2>2, <2>4, Zenon DEF LeakInv, Carried
<1> QED
  BY <1>1, AgentInvariantHolds, PTL

LEMMA NothingMissing ==
  ASSUME NEW q \in Seq(Messages), NEW i, ~About(q, i), NEW p, NEW n \in Nat, NEW max \in Nat,
         Complete(q, i, p, n, max)
  PROVE  max <= n
<1>1. SUFFICES ASSUME n + 1 \in n + 1 .. max
               PROVE  FALSE
  OBVIOUS
<1>2. PICK k \in 1 .. Len(q) : Chunk(q, k, i, p, n + 1)
  BY <1>1, Zenon DEF Complete
<1> QED
  BY <1>2, Zenon DEF Chunk, About

\* While the channel of a program serves it, none of its requests is stranded: an
\* unanswered one, or the end of the connection, is on its way.
THEOREM AgentNoRequestStranded == Spec => []NoRequestStranded
<1>1. ASSUME AgentInvariant PROVE NoRequestStranded
  <2>1. SUFFICES ASSUME NEW p \in Programs, prog[p] = "relay", Len(got[p]) < asked[p], Served(p),
                        ~OnItsWay(p, channel, id[p])
                 PROVE  FALSE
    BY Zenon DEF NoRequestStranded
  <2>2. PICK c, i : c = channel /\ i = id[p]
    OBVIOUS
  <2>3. /\ ~About(down[c], i) /\ ~About(up[c], i) /\ cwrite[c][i] = <<>> /\ write[p] = <<>>
        /\ streams[i] = p /\ ~(replied[c][i] < Len(agent_got[c][i]))
    BY <2>1, <2>2, Zenon DEF OnItsWay, About
  <2>4. /\ opened_on[p] = c /\ opened_on[p] # None /\ srv[c] = "attached" /\ cli[c] = "relay"
    BY <2>1, <2>2, Zenon DEF Served
  <2>5. Owns(p, c, i)
    BY <1>1, <2>2, <2>4, OwnsFacts, Zenon
  <2>6. /\ Requested(p, c, i) /\ asked[p] \in Nat /\ Taken(c, i) \in Nat
        /\ agent_got[c][i] \in Seq(Seq(Nat)) /\ down[c] \in Seq(Messages)
    BY <1>1, <2>5, RequestedBefore, Zenon
  <2>7. Answering(p, c, i) /\ up[c] \in Seq(Messages) /\ replied[c][i] \in Nat
    BY <1>1, <2>5, AnsweringBefore, Zenon
  <2>8. Returned(p) \in Nat /\ got[p] \in Seq(Seq(Nat))
    BY <1>1, ReturningBefore, Zenon
  <2>9. Live(c, i)
    <3>1. EndInv
      BY <1>1, Zenon DEF AgentInvariant
    <3>2. Live(c, i) \/ Carried(up[c], AgentClose(i))
      BY <2>1, <2>2, <2>3, <3>1, Zenon DEF EndInv
    <3>3. Carried(up[c], AgentClose(i)) => About(up[c], i)
      BY CarriedAbout, CloseParts
    <3> QED
      BY <2>3, <3>2, <3>3, Zenon
  <2>10. dialed[c][i] # "none"
    <3>1. Carried(down[c], AgentOpen(i)) => About(down[c], i)
      BY CarriedAbout, OpenParts
    <3> QED
      BY <2>3, <2>9, <3>1, Zenon DEF Live
  <2>11. asked[p] <= Taken(c, i)
    <3>1. Complete(down[c], i, p, Taken(c, i), asked[p])
      BY <2>1, <2>6, <2>9, Zenon DEF Requested
    <3> QED
      BY <2>3, <2>6, <3>1, NothingMissing, Zenon
  <2>12. replied[c][i] <= Returned(p)
    <3>1. Linked(c, i)
      BY <2>4, <2>10, Zenon DEF Linked
    <3>2. Complete(up[c], i, p, Returned(p), replied[c][i])
      BY <2>3, <2>7, <3>1, Zenon DEF Answering
    <3> QED
      BY <2>3, <2>7, <2>8, <3>2, NothingMissing, Zenon
  <2>13. Taken(c, i) = Len(agent_got[c][i]) + Len(<<>>) /\ Returned(p) = Len(got[p]) + Len(<<>>)
    BY <2>3, Zenon DEF Taken, Returned
  <2>14. Len(agent_got[c][i]) \in Nat /\ Len(got[p]) \in Nat
    BY <2>6, <2>8, TwoLengths, Zenon
  <2> DEFINE x == Len(agent_got[c][i])
             y == Len(got[p])
             a == asked[p]
             b == replied[c][i]
  <2>15. /\ x \in Nat /\ y \in Nat /\ a \in Nat /\ b \in Nat
         /\ y < a /\ ~(b < x) /\ a <= x + Len(<<>>) /\ b <= y + Len(<<>>)
    BY <2>1, <2>3, <2>6, <2>7, <2>11, <2>12, <2>13, <2>14, Zenon
  <2> HIDE DEF x, y, a, b
  <2> QED
    BY <2>15
<1> QED
  BY <1>1, AgentInvariantHolds, PTL
=============================================================================
