-------------------------- MODULE ExecClientProofs --------------------------
(***************************************************************************)
(* Lemmas the proofs about an exec share: messages, queues and logs, and   *)
(* what a step preserves that leaves a part of the state alone. With them, *)
(* every step of the client preserves the types and the invariants.        *)
(***************************************************************************)
EXTENDS ExecStdinInv, ExecClient, SequenceTheorems, TLAPS

\* A leaf that names no prover is Zenon's; what needs arithmetic goes to SMT.
USE ZenonT(60)

-----------------------------------------------------------------------------
(* Messages, queues and logs                                                *)

Queues == [Conns -> Seq(ChannelMessage)]

LEMMA MsgType ==
    ASSUME NEW n \in Nat, NEW d \in Nat
    PROVE  /\ Exec \in ChannelMessage /\ Started \in ChannelMessage /\ Denied \in ChannelMessage
           /\ Resume(n) \in ChannelMessage /\ Ack(n) \in ChannelMessage
           /\ Stdin(n, d) \in ChannelMessage /\ StdinEof(n) \in ChannelMessage
           /\ Exit(n, d) \in ChannelMessage
           /\ \A s \in Stdio : Output(s, n, d) \in ChannelMessage
  BY DEF ChannelMessage, Exec, Started, Denied, Resume, Ack, Stdin, StdinEof, Exit, Output,
         Msg, Stdio

LEMMA SingletonSeq ==
    ASSUME NEW S, NEW x \in S
    PROVE  <<x>> \in Seq(S) /\ Len(<<x>>) = 1 /\ <<x>>[1] = x
  BY SMTT(60)

LEMMA NoElements ==
    /\ Len(<<>>) = 0 /\ 1 .. 0 = {} /\ 0 <= 0 /\ <<>> \o <<>> = <<>>
    /\ Latest(Empty) = 0 /\ Empty.trimmed = 0 /\ Empty.buffer = <<>> /\ 0 \in 0 .. MaxConns
<1>1. Len(<<>>) = 0 /\ 1 .. 0 = {} /\ 0 <= 0 /\ <<>> \o <<>> = <<>> /\ 0 + 0 = 0
  BY SMTT(60)
<1>2. 0 \in 0 .. MaxConns
  BY BoundsAssumption, SMTT(60)
<1>3. Empty.trimmed = 0 /\ Empty.buffer = <<>>
  BY DEF Empty
<1> QED
  BY <1>1, <1>2, <1>3 DEF Latest

LEMMA QueueHeadTail ==
    ASSUME NEW q \in Queues, NEW c \in Conns, q[c] # <<>>
    PROVE  /\ Head(q[c]) \in ChannelMessage
           /\ [q EXCEPT ![c] = Tail(@)] \in Queues
           /\ [q EXCEPT ![c] = <<>>] \in Queues
<1>1. Head(q[c]) \in ChannelMessage /\ Tail(q[c]) \in Seq(ChannelMessage)
  BY HeadTailProperties DEF Queues
<1>2. <<>> \in Seq(ChannelMessage)
  BY EmptySeq
<1>3. QED
  BY <1>1, <1>2 DEF Queues

LEMMA ElementType ==
    ASSUME NEW q \in Seq(ChannelMessage), NEW i \in 1 .. Len(q)
    PROVE  q[i] \in ChannelMessage /\ q[i].seq \in Nat
<1>1. q[i] \in ChannelMessage
  BY ElementOfSeq
<1>2. QED
  BY <1>1 DEF ChannelMessage

LEMMA DuplicatesType ==
    ASSUME NEW c \in Conns, NEW ms \in Seq(ChannelMessage)
    PROVE  Duplicates(c, ms) \subseteq ChannelMessage
  BY ElementOfSeq, SMTT(60) DEF Duplicates

\* What the operations on the replay log return.
LEMMA LogType ==
    ASSUME NEW l \in Log, NEW m \in ChannelMessage, NEW n \in Nat
    PROVE  /\ Latest(l) \in Nat
           /\ Push(l, m) \in Log
           /\ SaturatingSub(n, l.trimmed) \in Nat
           /\ After(l, n) \in Seq(ChannelMessage)
           /\ Dropped(l, n) \in 0 .. Len(l.buffer)
           /\ Trim(l, n) \in Log
<1>1. l.trimmed \in Nat /\ l.buffer \in Seq(ChannelMessage) /\ Len(l.buffer) \in Nat
  BY LenProperties DEF Log
<1>2. Latest(l) \in Nat
  BY <1>1, SMTT(60) DEF Latest
<1>3. Append(l.buffer, m) \in Seq(ChannelMessage)
  BY <1>1, AppendProperties
<1>4. Push(l, m) \in Log
  BY <1>1, <1>3 DEF Push, Log
<1>5. SaturatingSub(n, l.trimmed) \in Nat
  BY <1>1, SMTT(60) DEF SaturatingSub
<1>6. ASSUME NEW k \in Nat PROVE SubSeq(l.buffer, k + 1, Len(l.buffer)) \in Seq(ChannelMessage)
  BY <1>1, SubSeqProperties, SMTT(60)
<1>7. After(l, n) \in Seq(ChannelMessage)
  BY <1>5, <1>6 DEF After
<1>8. Dropped(l, n) \in 0 .. Len(l.buffer)
  BY <1>1, <1>5, SMTT(60) DEF Dropped
<1>9. Trim(l, n) \in Log
  BY <1>1, <1>6, <1>8, SMTT(60) DEF Trim, Log
<1>10. QED
  BY <1>2, <1>4, <1>5, <1>7, <1>8, <1>9

LEMMA TailElements ==
    ASSUME NEW S, NEW q \in Seq(S), q # <<>>
    PROVE  /\ Len(Tail(q)) = Len(q) - 1 /\ Len(q) \in Nat \ {0}
           /\ \A i \in 1 .. Len(Tail(q)) : Tail(q)[i] = q[i + 1] /\ i + 1 \in 1 .. Len(q)
           /\ Head(q) = q[1]
  BY HeadTailProperties, LenProperties, EmptySeq, SMTT(60)

LEMMA HeadFirst ==
    ASSUME NEW S, NEW q \in Seq(S), q # <<>>
    PROVE  1 \in 1 .. Len(q) /\ Head(q) = q[1]
  BY TailElements, SMTT(60)

LEMMA AppendElements ==
    ASSUME NEW S, NEW q \in Seq(S), NEW e \in S, NEW n \in Nat, Len(q) = n
    PROVE  /\ Len(Append(q, e)) = n + 1 /\ Append(q, e)[n + 1] = e
           /\ \A i \in 1 .. n : Append(q, e)[i] = q[i]
  BY AppendProperties

LEMMA ConcatElements ==
    ASSUME NEW S, NEW q \in Seq(S), NEW ms \in Seq(S)
    PROVE  /\ Len(q \o ms) = Len(q) + Len(ms) /\ Len(q) \in Nat /\ Len(ms) \in Nat
           /\ \A i \in 1 .. Len(q) : (q \o ms)[i] = q[i]
           /\ \A i \in 1 .. Len(ms) : (q \o ms)[Len(q) + i] = ms[i]
  BY ConcatProperties, LenProperties, SMTT(60)

\* r is q without its first k elements.
Suffix(q, k, r) ==
    /\ k <= Len(q) => Len(r) = Len(q) - k
    /\ k > Len(q) => Len(r) = 0
    /\ \A i \in 1 .. Len(r) : r[i] = q[k + i] /\ k + i \in 1 .. Len(q)

LEMMA SuffixElements ==
    \A q \in Seq(ChannelMessage), k \in Nat : Suffix(q, k, SubSeq(q, k + 1, Len(q)))
<1> SUFFICES ASSUME NEW q \in Seq(ChannelMessage), NEW k \in Nat
             PROVE  Suffix(q, k, SubSeq(q, k + 1, Len(q)))
  OBVIOUS
<1>1. Len(q) \in Nat
  BY LenProperties
<1> QED
  BY <1>1, SubSeqProperties, SMTT(60) DEF Suffix

\* Where the elements of a concatenation come from.
LEMMA IndexBehind ==
    ASSUME NEW a \in Nat, NEW b \in Nat
    PROVE  /\ a \in 0 .. a /\ a + b \in a .. a + b
           /\ \A i \in 1 .. a : i - 1 \in 0 .. a
           /\ \A i \in 1 .. a + b : i \notin 1 .. a =>
                \E j \in 1 .. b : /\ i = a + j /\ j - 1 \in 0 .. b
                                  /\ i - 1 = a + (j - 1) /\ i - 1 \in a .. a + b
<1>1. ASSUME NEW i \in 1 .. a + b, i \notin 1 .. a
      PROVE  \E j \in 1 .. b : /\ i = a + j /\ j - 1 \in 0 .. b
                               /\ i - 1 = a + (j - 1) /\ i - 1 \in a .. a + b
  <2>1. /\ i - a \in 1 .. b /\ i = a + (i - a) /\ (i - a) - 1 \in 0 .. b
        /\ i - 1 = a + ((i - a) - 1) /\ i - 1 \in a .. a + b
    BY <1>1, SMTT(60)
  <2> QED
    BY <2>1
<1>2. a \in 0 .. a /\ a + b \in a .. a + b /\ \A i \in 1 .. a : i - 1 \in 0 .. a
  BY SMTT(60)
<1> QED
  BY <1>1, <1>2

\* The rest of a queue behind what a log has trimmed, in the numbers of the log.
LEMMA SuffixNumbers ==
    ASSUME NEW t \in Nat, NEW b \in Nat, NEW n \in Nat, t <= n, n <= t + b
    PROVE  n - t <= b /\ b - (n - t) = (t + b) - n /\ \A i \in Nat : t + ((n - t) + i) = n + i
  BY SMTT(60)

-----------------------------------------------------------------------------
(* What a step leaves alone keeps its type                                  *)

LEMMA ClientUnchanged == ClientTypeOK /\ UNCHANGED clientVars => ClientTypeOK'
  BY DEF ClientTypeOK, clientVars

LEMMA WireUnchanged == WireTypeOK /\ UNCHANGED wireVars => WireTypeOK'
  BY DEF WireTypeOK, wireVars

LEMMA HandlerUnchanged == HandlerTypeOK /\ UNCHANGED handlerVars => HandlerTypeOK'
  BY DEF HandlerTypeOK, handlerVars

LEMMA SessionUnchanged == SessionTypeOK /\ UNCHANGED taskVars => SessionTypeOK'
  BY DEF SessionTypeOK, taskVars

LEMMA DaemonUnchanged == DaemonTypeOK /\ UNCHANGED daemonVars => DaemonTypeOK'
  BY DEF DaemonTypeOK, daemonVars

-----------------------------------------------------------------------------
(* What steps that leave a part alone preserve                              *)

LEMMA EmittedFrame ==
    ASSUME EmittedInv, UNCHANGED <<seq, emitted>>, task = "ended" => task' = "ended"
    PROVE  EmittedInv'
  BY DEF EmittedInv, Data

LEMMA LogFrame ==
    ASSUME LogFaithful, UNCHANGED <<log, record, emitted>>
    PROVE  LogFaithful'
  BY DEF LogFaithful, LogMatches

LEMMA SessionFrame ==
    ASSUME SessionInv, UNCHANGED <<log, record, emitted, task>>, conn' # 0 \/ UNCHANGED conn
    PROVE  SessionInv'
  BY LogFrame DEF SessionInv

LEMMA ClientFrame ==
    ASSUME ClientInv,
           UNCHANGED <<phase, conn, resume_token, last_server_seq, out, code, sent_stdin,
                       emitted, log, record>>
    PROVE  ClientInv'
  BY DEF ClientInv, OutputExact, ExitComplete, ReplayPossible, Finished

LEMMA AckFrame ==
    ASSUME AckInv, UNCHANGED <<c2s, last_server_seq, phase>>
    PROVE  AckInv'
  BY DEF AckInv

LEMMA CarriedFrame ==
    ASSUME CarriedInv, UNCHANGED <<s2c, dgs2c, conn, emitted, exit_seq>>
    PROVE  CarriedInv'
  BY DEF CarriedInv, IsEmitted, Finished, Data

LEMMA NoGapFrame ==
    ASSUME NoGapInv, UNCHANGED <<s2c, conn, phase, last_server_seq>>
    PROVE  NoGapInv'
  BY DEF NoGapInv, ClientOn

LEMMA SentFrame ==
    ASSUME SentInv, UNCHANGED <<s2c, dgs2c, conn, phase, last_server_seq, emitted>>,
           \A c \in Conns : Active(c)' => Active(c) /\ sent_up_to'[c] = sent_up_to[c]
    PROVE  SentInv'
  BY DEF SentInv, ClientOn

LEMMA RequestFrame ==
    ASSUME RequestInv,
           UNCHANGED <<conn, phase, last_server_seq, s2c, dgs2c>>,
           task = "none" => task' = "none",
           \A c \in Conns : \A i \in 1 .. Len(c2s'[c]) : Request(c2s'[c][i]) =>
              /\ i \in 1 .. Len(c2s[c]) /\ c2s'[c][i] = c2s[c][i]
              /\ handler'[c] \in {"queued", "request"}
    PROVE  RequestInv'
  BY SMTT(60) DEF RequestInv, ClientOn

\* Steps that touch neither the client, the wire, the handlers nor the log.
LEMMA NothingMoves ==
    ASSUME OutputInv,
           UNCHANGED <<seq, log, emitted, task, clientVars, wireVars, handlerVars, record>>
    PROVE  OutputInv'
<1>1. /\ UNCHANGED <<c2s, s2c, dgs2c, conn, phase, last_server_seq, handler, sent_up_to, exit_seq>>
      /\ UNCHANGED <<resume_token, out, code, sent_stdin>>
  BY DEF clientVars, wireVars, handlerVars
<1>2. EmittedInv' /\ SessionInv' /\ ClientInv'
  BY <1>1, EmittedFrame, SessionFrame, ClientFrame DEF OutputInv
<1>3. RequestInv'
  BY <1>1 DEF OutputInv, RequestInv, ClientOn
<1>4. AckInv' /\ CarriedInv' /\ NoGapInv'
  BY <1>1, AckFrame, CarriedFrame, NoGapFrame DEF OutputInv
<1>5. SentInv'
  <2>1. \A c \in Conns : Active(c)' => Active(c) /\ sent_up_to'[c] = sent_up_to[c]
    BY <1>1 DEF Active
  <2>2. QED
    BY <1>1, <2>1, SentFrame DEF OutputInv
<1>6. QED
  BY <1>2, <1>3, <1>4, <1>5 DEF OutputInv

-----------------------------------------------------------------------------
(* The promise about output                                                 *)

Waiting == phase \in {"connect", "handshake", "attached"}

\* One item for every message.
LEMMA ItemsType ==
    ASSUME NEW ms \in Seq(ChannelMessage)
    PROVE  /\ Items(ms) \in Seq([type : {"Started", "Denied", "Stdin", "StdinEof", "Stdout",
                                         "Stderr", "Exit", "Ack", "Exec", "Resume"}, data : Nat])
           /\ Len(Items(ms)) = Len(ms)
           /\ \A i \in 1 .. Len(ms) : Items(ms)[i] = [type |-> ms[i].type, data |-> ms[i].data]
<1>1. \A i \in 1 .. Len(ms) : ms[i] \in ChannelMessage
  BY ElementOfSeq
<1>2. Len(ms) \in Nat
  BY LenProperties
<1> QED
  BY <1>1, <1>2, SMTT(60) DEF Items, ChannelMessage

\* What the caller has and what it is told, in the terms of the exec.
Received == Items(out) \o (IF phase = "done" THEN <<[type |-> "Exit", data |-> code]>> ELSE <<>>)
Outcome == IF phase = "done" THEN "returned"
           ELSE IF phase \in {"denied", "failed"} THEN "gave up" ELSE "waiting"

LEMMA NoItems == Items(<<>>) = <<>>
  BY SMTT(60) DEF Items

\* No code has been returned.
LEMMA NothingMore ==
    ASSUME NEW ms \in Seq(ChannelMessage)
    PROVE  Items(ms) \o <<>> = Items(ms)
  BY ItemsType, ConcatEmptySeq

\* A message pushed is an item produced.
LEMMA PushIsProduce ==
    ASSUME TypeOK, OutputInv, TypeOK', UNCHANGED <<phase, out, code>>, task = "running",
           NEW m, emitted' = Append(emitted, m)
    PROVE  Abstract!Produce
<1>1. emitted \in Seq(ChannelMessage) /\ emitted' \in Seq(ChannelMessage)
  BY DEF TypeOK, SessionTypeOK
<1>2. Len(emitted) \in Nat /\ Len(emitted') = Len(emitted) + 1
      /\ \A i \in 1 .. Len(emitted) : emitted'[i] = emitted[i]
  BY <1>1, SMTT(60)
<1>3. /\ Len(Items(emitted)) = Len(emitted) /\ Len(Items(emitted')) = Len(emitted')
      /\ \A i \in 1 .. Len(emitted) : Items(emitted')[i] = Items(emitted)[i]
  BY <1>2, SMTT(60) DEF Items
<1>4. SubSeq(Items(emitted'), 1, Len(Items(emitted))) = Items(emitted)
  BY <1>1, <1>2, <1>3, ItemsType, SMTT(60)
<1>5. ~Abstract!Over
  <2> SUFFICES ASSUME Items(emitted) # <<>>, Items(emitted)[Len(emitted)].type = "Exit"
               PROVE  FALSE
    BY <1>3 DEF Abstract!Over
  <2>1. Len(emitted) \in 1 .. Len(emitted)
    BY <1>1, <1>2, SMTT(60) DEF Items
  <2>2. emitted[Len(emitted)].type = "Exit"
    BY <2>1, SMTT(60) DEF Items
  <2> QED
    BY <2>1, <2>2 DEF OutputInv, EmittedInv
<1> QED
  BY <1>2, <1>3, <1>4, <1>5 DEF Abstract!Produce, Received, Outcome

\* A message written is the next item delivered.
LEMMA WriteIsDeliver ==
    ASSUME TypeOK, TypeOK', OutputInv', UNCHANGED <<phase, code, emitted>>, Waiting,
           NEW m, out' = Append(out, m)
    PROVE  Abstract!Deliver
<1> DEFINE n == Len(out)
<1>1. emitted \in Seq(ChannelMessage) /\ out \in Seq(ChannelMessage) /\ out' \in Seq(ChannelMessage)
  BY DEF TypeOK, SessionTypeOK, ClientTypeOK
<1>2. n \in Nat /\ Len(out') = n + 1 /\ \A i \in 1 .. n : out'[i] = out[i]
  BY <1>1, SMTT(60)
<1>3. n + 1 <= Len(emitted) /\ out'[n + 1] = emitted[n + 1] /\ out'[n + 1].type \in Stdio
  BY <1>2, SMTT(60) DEF OutputInv, ClientInv, OutputExact
<1>4. Received = Items(out) /\ Received' = Items(out') /\ Outcome = "waiting" /\ UNCHANGED Outcome
  BY <1>1, NothingMore DEF Received, Outcome, Waiting
<1>5. Len(Items(out)) = n /\ Len(Items(emitted)) = Len(emitted) /\ Len(emitted) \in Nat
  BY <1>1, ItemsType, LenProperties
<1>6. n + 1 \in 1 .. Len(emitted)
  BY <1>2, <1>3, <1>5, SMTT(60)
<1>7. Items(emitted)[n + 1] = [type |-> out'[n + 1].type, data |-> out'[n + 1].data]
  BY <1>3, <1>6 DEF Items
<1>8. Items(out') = Append(Items(out), Items(emitted)[n + 1])
  BY <1>1, <1>2, <1>7, ItemsType, SMTT(60) DEF Items
<1>9. Items(emitted)[n + 1].type # "Exit"
  BY <1>3, <1>7, SMTT(60) DEF Stdio
<1>10. Len(Items(out)) < Len(Items(emitted))
  BY <1>2, <1>3, <1>5, SMTT(60)
<1> QED
  BY <1>4, <1>5, <1>8, <1>9, <1>10 DEF Abstract!Deliver, Received, Outcome

\* The code returned is the last item.
LEMMA CodeIsReturn ==
    ASSUME TypeOK, TypeOK', OutputInv', UNCHANGED <<out, emitted>>, Waiting, phase' = "done"
    PROVE  Abstract!Return
<1> DEFINE n == Len(out)
<1>1. emitted \in Seq(ChannelMessage) /\ out \in Seq(ChannelMessage)
  BY DEF TypeOK, SessionTypeOK, ClientTypeOK
<1>2. /\ emitted # <<>> /\ n = Len(emitted) - 1
      /\ emitted[Len(emitted)].type = "Exit" /\ emitted[Len(emitted)].data = code'
  BY DEF OutputInv, ClientInv, OutputExact, ExitComplete, Finished
<1>3. n \in Nat /\ Len(emitted) = n + 1 /\ n + 1 \in 1 .. Len(emitted)
  BY <1>1, <1>2, SMTT(60)
<1>4. Items(emitted)[n + 1] = [type |-> "Exit", data |-> code']
  BY <1>2, <1>3 DEF Items
<1>5. /\ Received = Items(out) /\ Received' = Items(out) \o <<Items(emitted)[n + 1]>>
      /\ Outcome = "waiting" /\ Outcome' = "returned"
  BY <1>1, <1>4, NothingMore DEF Received, Outcome, Waiting
<1>6. Len(Items(out)) = n /\ Len(Items(emitted)) = n + 1
  BY <1>1, <1>3, ItemsType
<1>7. Received' = Append(Items(out), Items(emitted)[n + 1])
  BY <1>1, <1>5, ItemsType, SMTT(60)
<1>8. Len(Items(out)) < Len(Items(emitted))
  BY <1>3, <1>6, SMTT(60)
<1>9. Items(emitted)[n + 1].type = "Exit"
  BY <1>4, SMTT(60)
<1> QED
  BY <1>5, <1>6, <1>7, <1>8, <1>9 DEF Abstract!Return, Received, Outcome

-----------------------------------------------------------------------------
(* Stdin: what steps preserve that do not add to it                         *)

\* Every message of r is one of q.
From(r, q) == \A i \in 1 .. Len(r) : \E j \in 1 .. Len(q) : r[i] = q[j]

\* r is q with messages behind it that are not stdin.
SameStdin(q, r) ==
    /\ Len(q) <= Len(r)
    /\ \A i \in 1 .. Len(q) : r[i] = q[i]
    /\ \A i \in 1 .. Len(r) : IsStdin(r[i]) => i \in 1 .. Len(q)

LEMMA FromSame == ASSUME NEW q PROVE From(q, q) /\ From(<<>>, q)
<1>1. From(q, q)
  BY DEF From
<1>2. From(<<>>, q)
  BY SMTT(60) DEF From
<1> QED
  BY <1>1, <1>2

LEMMA FromTail ==
    ASSUME NEW S, NEW q \in Seq(S), q # <<>>
    PROVE  From(Tail(q), q)
  BY TailElements DEF From

LEMMA SameItself ==
    ASSUME NEW S, NEW q \in Seq(S)
    PROVE  SameStdin(q, q)
<1>1. Len(q) <= Len(q)
  BY LenProperties, SMTT(60)
<1> QED
  BY <1>1 DEF SameStdin

LEMMA SameAppended ==
    ASSUME NEW q \in Seq(ChannelMessage), NEW ms \in Seq(ChannelMessage),
           \A i \in 1 .. Len(ms) : ~IsStdin(ms[i])
    PROVE  SameStdin(q, q \o ms)
<1>1. /\ Len(q \o ms) = Len(q) + Len(ms) /\ Len(q) \in Nat /\ Len(ms) \in Nat
      /\ \A i \in 1 .. Len(q) : (q \o ms)[i] = q[i]
      /\ \A i \in 1 .. Len(ms) : (q \o ms)[Len(q) + i] = ms[i]
  BY ConcatElements, SMTT(60)
<1>2. Len(q) <= Len(q \o ms)
  BY <1>1, SMTT(60)
<1>3. ASSUME NEW i \in 1 .. Len(q \o ms), i \notin 1 .. Len(q) PROVE ~IsStdin((q \o ms)[i])
  <2>1. i - Len(q) \in 1 .. Len(ms) /\ i = Len(q) + (i - Len(q))
    BY <1>1, <1>3, SMTT(60)
  <2> QED
    BY <1>1, <2>1
<1> QED
  BY <1>1, <1>2, <1>3 DEF SameStdin

LEMMA KeptFrame ==
    ASSUME TypeOK, TypeOK', KeptInv, UNCHANGED <<sent_stdin, client_seq, dropped>>,
           stdin_applied <= stdin_applied'
    PROVE  KeptInv'
<1>1. StdinRetained'
  <2>1. \A n \in 1 .. client_seq : n <= stdin_applied => n <= stdin_applied'
    BY SMTT(60) DEF TypeOK, SessionTypeOK, ClientTypeOK
  <2> QED
    BY <2>1 DEF KeptInv, StdinRetained
<1> QED
  BY <1>1 DEF KeptInv, Sound

LEMMA FlightFrame ==
    ASSUME FlightInv, UNCHANGED <<client_seq, dropped>>,
           \A c \in Conns : \/ From(c2s'[c], c2s[c])
                            \/ SameStdin(c2s[c], c2s'[c]),
           \A c \in Conns : dgc2s'[c] \subseteq dgc2s[c],
           From(inbound', inbound)
    PROVE  FlightInv'
<1>1. \A m : Sound(m) => Sound(m)'
  BY DEF Sound
<1>2. ASSUME NEW c \in Conns, NEW i \in 1 .. Len(c2s'[c]), IsStdin(c2s'[c][i])
      PROVE  Sound(c2s'[c][i])
  BY <1>2 DEF FlightInv, From, SameStdin
<1>3. ASSUME NEW i \in 1 .. Len(inbound'), IsStdin(inbound'[i].msg) PROVE Sound(inbound'[i].msg)
  BY <1>3 DEF FlightInv, From
<1> QED
  BY <1>1, <1>2, <1>3 DEF FlightInv, IsStdin

LEMMA AppliedFrame ==
    ASSUME AppliedInv, UNCHANGED <<child_in, stdin, stdin_applied, dropped, client_seq>>,
           record'.present => UNCHANGED record
    PROVE  AppliedInv'
  BY DEF AppliedInv, StdinInOrder

LEMMA ToldFrame ==
    ASSUME ToldInv, UNCHANGED stdin_applied, \A c \in Conns : From(s2c'[c], s2c[c])
    PROVE  ToldInv'
  BY SMTT(60) DEF ToldInv, From

LEMMA NoSessionFrame ==
    ASSUME NoSessionInv, task' = "none" => task = "none",
           UNCHANGED <<registered, resume_token, client_seq>>,
           \A c \in Conns : Active(c)' => Active(c),
           \A c \in Conns : From(s2c'[c], s2c[c])
    PROVE  NoSessionInv'
  BY DEF NoSessionInv, From

LEMMA PendingFrame ==
    ASSUME PendingInv, \A c \in Conns : Pending(c)' => Pending(c),
           phase' = "attached" => UNCHANGED <<phase, conn>>,
           \A c \in Conns : From(c2s'[c], c2s[c]) \/ SameStdin(c2s[c], c2s'[c]),
           \A c \in Conns : From(s2c'[c], s2c[c])
    PROVE  PendingInv'
<1> SUFFICES ASSUME NEW c \in Conns, Pending(c)'
             PROVE  /\ ~(phase' = "attached" /\ conn' = c)
                    /\ \A i \in 1 .. Len(c2s'[c]) : ~IsStdin(c2s'[c][i])
                    /\ \A i \in 1 .. Len(s2c'[c]) : s2c'[c][i].type # "Started"
  BY DEF PendingInv, IsStdin
<1>1. /\ ~(phase = "attached" /\ conn = c)
      /\ \A i \in 1 .. Len(c2s[c]) : ~IsStdin(c2s[c][i])
      /\ \A i \in 1 .. Len(s2c[c]) : s2c[c][i].type # "Started"
  BY DEF PendingInv
<1>2. \A i \in 1 .. Len(c2s'[c]) : ~IsStdin(c2s'[c][i])
  BY <1>1 DEF From, SameStdin
<1> QED
  BY <1>1, <1>2 DEF From

\* QueueInv of the next state, with the primes where the values are.
LEMMA QueueNext ==
    ASSUME task' = "running" =>
              \A i \in 1 .. Len(inbound') : inbound'[i].kind = "Message" /\ IsStdin(inbound'[i].msg) =>
                 \A k \in stdin_applied' + 1 .. inbound'[i].msg.seq - 1 :
                    k \in dropped' \/ Queued(inbound', i - 1, k)
    PROVE  QueueInv'
  BY SMTT(60) DEF QueueInv, Queued, IsStdin

LEMMA QueueFrame ==
    ASSUME QueueInv, task' = "running" => task = "running",
           UNCHANGED <<inbound, stdin_applied, dropped>>
    PROVE  QueueInv'
  BY SMTT(60) DEF QueueInv, Queued, IsStdin

\* FlowInv of the next state, with the primes where the values are.
LEMMA FlowNext ==
    ASSUME task' = "running" => \A c \in Conns : Active(c)' =>
              /\ \A i \in 1 .. Len(c2s'[c]) : IsStdin(c2s'[c][i]) =>
                    \A k \in stdin_applied' + 1 .. c2s'[c][i].seq - 1 :
                       \/ k \in dropped' \/ Holds(c2s'[c], i - 1, k)
                       \/ Queued(inbound', Len(inbound'), k)
              /\ conn' = c /\ phase' = "attached" =>
                    \A k \in stdin_applied' + 1 .. client_seq' :
                       \/ k \in dropped' \/ Holds(c2s'[c], Len(c2s'[c]), k)
                       \/ Queued(inbound', Len(inbound'), k)
    PROVE  FlowInv'
  BY SMTT(60) DEF FlowInv, Holds, Queued, IsStdin

\* What connections hold stays in place; no client becomes attached.
LEMMA FlowFrame ==
    ASSUME FlowInv, task' = "running" => task = "running",
           UNCHANGED <<inbound, stdin_applied, dropped, client_seq>>,
           phase' = "attached" => UNCHANGED <<phase, conn>>,
           \A c \in Conns : Active(c)' => Active(c) /\ SameStdin(c2s[c], c2s'[c])
    PROVE  FlowInv'
<1> SUFFICES ASSUME task' = "running", NEW c \in Conns, Active(c)'
             PROVE  /\ \A i \in 1 .. Len(c2s'[c]) : IsStdin(c2s'[c][i]) =>
                          \A k \in stdin_applied + 1 .. c2s'[c][i].seq - 1 :
                             \/ k \in dropped \/ Holds(c2s'[c], i - 1, k)
                             \/ Queued(inbound, Len(inbound), k)
                    /\ conn' = c /\ phase' = "attached" =>
                          \A k \in stdin_applied + 1 .. client_seq :
                             \/ k \in dropped \/ Holds(c2s'[c], Len(c2s'[c]), k)
                             \/ Queued(inbound, Len(inbound), k)
  BY SMTT(60) DEF FlowInv, Holds, Queued, IsStdin
<1>1. Active(c) /\ SameStdin(c2s[c], c2s'[c]) /\ task = "running"
  OBVIOUS
<1>2. \A i \in 1 .. Len(c2s[c]) : \A k : Holds(c2s[c], i - 1, k) => Holds(c2s'[c], i - 1, k)
  BY <1>1, SMTT(60) DEF SameStdin, Holds
<1>3. \A k : Holds(c2s[c], Len(c2s[c]), k) => Holds(c2s'[c], Len(c2s'[c]), k)
  BY <1>1, SMTT(60) DEF SameStdin, Holds
<1>4. ASSUME NEW i \in 1 .. Len(c2s'[c]), IsStdin(c2s'[c][i]),
             NEW k \in stdin_applied + 1 .. c2s'[c][i].seq - 1
      PROVE  k \in dropped \/ Holds(c2s'[c], i - 1, k) \/ Queued(inbound, Len(inbound), k)
  <2>1. i \in 1 .. Len(c2s[c]) /\ c2s'[c][i] = c2s[c][i]
    BY <1>1, <1>4 DEF SameStdin
  <2> QED
    BY <1>1, <1>2, <1>4, <2>1 DEF FlowInv
<1>5. ASSUME conn' = c, phase' = "attached", NEW k \in stdin_applied + 1 .. client_seq
      PROVE  k \in dropped \/ Holds(c2s'[c], Len(c2s'[c]), k) \/ Queued(inbound, Len(inbound), k)
  BY <1>1, <1>3, <1>5 DEF FlowInv
<1> QED
  BY <1>4, <1>5

-----------------------------------------------------------------------------
(* The task's queue grows                                                   *)

LEMMA QueuedAppend ==
    ASSUME NEW r \in Seq(Inputs), NEW x \in Inputs
    PROVE  /\ \A i \in 0 .. Len(r) : \A k : Queued(r, i, k) => Queued(Append(r, x), i, k)
           /\ \A k : Queued(r, Len(r), k) => Queued(Append(r, x), Len(r) + 1, k)
           /\ x.kind = "Message" /\ IsStdin(x.msg) =>
                 Queued(Append(r, x), Len(r) + 1, x.msg.seq)
           /\ Len(Append(r, x)) = Len(r) + 1
<1>1. /\ Len(r) \in Nat /\ Len(Append(r, x)) = Len(r) + 1 /\ Append(r, x)[Len(r) + 1] = x
      /\ \A i \in 1 .. Len(r) : Append(r, x)[i] = r[i]
  BY LenProperties, AppendElements, SMTT(60)
<1>2. \A i \in 0 .. Len(r) : \A k : Queued(r, i, k) => Queued(Append(r, x), i, k)
  BY <1>1, SMTT(60) DEF Queued
<1>3. \A k : Queued(r, Len(r), k) => Queued(Append(r, x), Len(r) + 1, k)
  BY <1>1, SMTT(60) DEF Queued
<1>4. Len(r) + 1 \in 1 .. Len(r) + 1
  BY <1>1, SMTT(60)
<1> QED
  BY <1>1, <1>2, <1>3, <1>4 DEF Queued

LEMMA QueueAppended ==
    ASSUME TypeOK, QueueInv, NEW x \in Inputs, inbound' = Append(inbound, x),
           UNCHANGED <<task, stdin_applied, dropped>>,
           task = "running" /\ x.kind = "Message" /\ IsStdin(x.msg) =>
              \A k \in stdin_applied + 1 .. x.msg.seq - 1 :
                 k \in dropped \/ Queued(inbound, Len(inbound), k)
    PROVE  QueueInv'
<1>1. inbound \in Seq(Inputs) /\ Len(inbound) \in Nat
  BY LenProperties DEF TypeOK
<1>2. /\ Len(inbound') = Len(inbound) + 1 /\ inbound'[Len(inbound) + 1] = x
      /\ \A i \in 1 .. Len(inbound) : inbound'[i] = inbound[i]
  BY <1>1, AppendElements, SMTT(60)
<1>3. \A i \in 0 .. Len(inbound) : \A k : Queued(inbound, i, k) => Queued(inbound', i, k)
  BY <1>1, QueuedAppend
<1>4. ASSUME task = "running", NEW i \in 1 .. Len(inbound'), inbound'[i].kind = "Message",
             IsStdin(inbound'[i].msg), NEW k \in stdin_applied + 1 .. inbound'[i].msg.seq - 1
      PROVE  k \in dropped \/ Queued(inbound', i - 1, k)
  <2>1. /\ i \in 1 .. Len(inbound) \/ i = Len(inbound) + 1
        /\ i - 1 \in 0 .. Len(inbound) /\ (i = Len(inbound) + 1 => i - 1 = Len(inbound))
    BY <1>1, <1>2, SMTT(60)
  <2>2. k \in dropped \/ Queued(inbound, i - 1, k)
    <3>1. CASE i \in 1 .. Len(inbound)
      BY <1>2, <1>4, <3>1 DEF QueueInv
    <3>2. CASE i = Len(inbound) + 1
      BY <1>2, <1>4, <2>1, <3>2
    <3> QED
      BY <2>1, <3>1, <3>2
  <2> QED
    BY <1>3, <2>1, <2>2
<1> QED
  BY <1>4, SMTT(60) DEF QueueInv, Queued, IsStdin

LEMMA FlightAppended ==
    ASSUME TypeOK, FlightInv, UNCHANGED <<client_seq, dropped>>,
           \A c \in Conns : From(c2s'[c], c2s[c]),
           \A c \in Conns : dgc2s'[c] \subseteq dgc2s[c],
           NEW x \in Inputs, inbound' = Append(inbound, x), IsStdin(x.msg) => Sound(x.msg)
    PROVE  FlightInv'
<1>1. \A m : Sound(m) => Sound(m)'
  BY DEF Sound
<1>2. ASSUME NEW c \in Conns, NEW i \in 1 .. Len(c2s'[c]), IsStdin(c2s'[c][i])
      PROVE  Sound(c2s'[c][i])
  BY <1>2 DEF FlightInv, From
<1>3. ASSUME NEW i \in 1 .. Len(inbound'), IsStdin(inbound'[i].msg) PROVE Sound(inbound'[i].msg)
  <2>1. inbound \in Seq(Inputs) /\ Len(inbound) \in Nat
    BY LenProperties DEF TypeOK
  <2>2. /\ Len(inbound') = Len(inbound) + 1 /\ inbound'[Len(inbound) + 1] = x
        /\ \A j \in 1 .. Len(inbound) : inbound'[j] = inbound[j]
    BY <2>1, AppendElements, SMTT(60)
  <2>3. i \in 1 .. Len(inbound) \/ i = Len(inbound) + 1
    BY <2>1, <2>2, SMTT(60)
  <2> QED
    BY <1>3, <2>2, <2>3 DEF FlightInv
<1> QED
  BY <1>2, <1>3 DEF FlightInv, Sound, IsStdin

\* What the task's queue gains, and connections lose to it, leaves no gap.
LEMMA TakenFlow ==
    ASSUME TypeOK, FlowInv, NEW c,
           UNCHANGED <<task, stdin_applied, dropped, client_seq, conn, phase>>,
           \A d \in Conns : Active(d)' => Active(d),
           task = "running" =>
              \A k : Queued(inbound, Len(inbound), k) => Queued(inbound', Len(inbound'), k),
           task = "running" => \A d \in Conns :
              \/ c2s'[d] = c2s[d]
              \/ /\ d = c /\ c2s[c] # <<>> /\ c2s'[c] = Tail(c2s[c])
                 /\ IsStdin(Head(c2s[c])) => Queued(inbound', Len(inbound'), Head(c2s[c]).seq)
    PROVE  FlowInv'
<1>1. ASSUME task = "running", NEW d \in Conns, Active(d)'
      PROVE  /\ \A i \in 1 .. Len(c2s'[d]) : IsStdin(c2s'[d][i]) =>
                   \A k \in stdin_applied + 1 .. c2s'[d][i].seq - 1 :
                      \/ k \in dropped \/ Holds(c2s'[d], i - 1, k)
                      \/ Queued(inbound', Len(inbound'), k)
             /\ conn = d /\ phase = "attached" =>
                   \A k \in stdin_applied + 1 .. client_seq :
                      \/ k \in dropped \/ Holds(c2s'[d], Len(c2s'[d]), k)
                      \/ Queued(inbound', Len(inbound'), k)
  <2>1. CASE c2s'[d] = c2s[d]
    BY <1>1, <2>1 DEF FlowInv
  <2>2. CASE /\ d = c /\ c2s[c] # <<>> /\ c2s'[c] = Tail(c2s[c])
             /\ IsStdin(Head(c2s[c])) => Queued(inbound', Len(inbound'), Head(c2s[c]).seq)
    <3> DEFINE q == c2s[c]
    <3>1. q \in Seq(ChannelMessage) /\ q # <<>>
      BY <2>2 DEF TypeOK, WireTypeOK
    <3>2. /\ Len(Tail(q)) = Len(q) - 1 /\ Len(q) \in Nat \ {0}
          /\ \A i \in 1 .. Len(Tail(q)) : Tail(q)[i] = q[i + 1] /\ i + 1 \in 1 .. Len(q)
          /\ Head(q) = q[1]
      BY <3>1, TailElements
    <3>3. ASSUME NEW i \in 0 .. Len(Tail(q)), NEW k, Holds(q, i + 1, k)
          PROVE  Holds(Tail(q), i, k) \/ Queued(inbound', Len(inbound'), k)
      <4>1. PICK j \in 1 .. i + 1 : IsStdin(q[j]) /\ q[j].seq = k
        BY <3>3 DEF Holds
      <4>2. CASE j = 1
        BY <2>2, <3>2, <4>1, <4>2
      <4>3. CASE j # 1
        <5>1. j - 1 \in 1 .. i /\ j - 1 \in 1 .. Len(Tail(q)) /\ (j - 1) + 1 = j
          BY <3>2, <4>3, SMTT(60)
        <5> QED
          BY <3>2, <4>1, <5>1 DEF Holds
      <4> QED
        BY <4>2, <4>3
    <3>4. ASSUME NEW i \in 1 .. Len(Tail(q)), IsStdin(Tail(q)[i]),
                 NEW k \in stdin_applied + 1 .. Tail(q)[i].seq - 1
          PROVE  \/ k \in dropped \/ Holds(Tail(q), i - 1, k)
                 \/ Queued(inbound', Len(inbound'), k)
      <4>1. i - 1 \in 0 .. Len(Tail(q)) /\ (i + 1) - 1 = (i - 1) + 1
        BY <3>2, SMTT(60)
      <4>2. \/ k \in dropped \/ Holds(q, (i + 1) - 1, k)
            \/ Queued(inbound, Len(inbound), k)
        BY <1>1, <2>2, <3>2, <3>4 DEF FlowInv
      <4> QED
        BY <1>1, <3>3, <4>1, <4>2
    <3>5. ASSUME conn = c, phase = "attached", NEW k \in stdin_applied + 1 .. client_seq
          PROVE  \/ k \in dropped \/ Holds(Tail(q), Len(Tail(q)), k)
                 \/ Queued(inbound', Len(inbound'), k)
      <4>1. Len(Tail(q)) \in 0 .. Len(Tail(q)) /\ Len(q) = Len(Tail(q)) + 1
        BY <3>2, SMTT(60)
      <4>2. \/ k \in dropped \/ Holds(q, Len(q), k)
            \/ Queued(inbound, Len(inbound), k)
        BY <1>1, <2>2, <3>5 DEF FlowInv
      <4> QED
        BY <1>1, <3>3, <4>1, <4>2
    <3> QED
      BY <2>2, <3>4, <3>5
  <2> QED
    BY <1>1, <2>1, <2>2
<1> QED
  BY <1>1, FlowNext

-----------------------------------------------------------------------------
(* The client: types                                                        *)

LEMMA ToServerType ==
    ASSUME c2s \in Queues, NEW c \in Conns, NEW ms \in Seq(ChannelMessage),
           SendToServer(c, ms)
    PROVE  c2s' \in Queues
<1>1. c2s[c] \o ms \in Seq(ChannelMessage)
  BY ConcatProperties DEF Queues
<1>2. QED
  BY <1>1 DEF SendToServer, Queues

LEMMA UnreadType ==
    ASSUME WireTypeOK, NEW c \in Conns, Unread(c), UNCHANGED <<c2s, dgc2s>>
    PROVE  WireTypeOK'
<1>1. <<>> \in Seq(ChannelMessage) /\ {} \in SUBSET ChannelMessage
  BY EmptySeq
<1>2. QED
  BY <1>1 DEF WireTypeOK, Unread

LEMMA ConnectType == TypeOK /\ Connect => TypeOK'
<1>1. SUFFICES ASSUME TypeOK, Connect PROVE TypeOK'
  OBVIOUS
<1> USE DEF TypeOK
<1>2. conn + 1 \in Conns /\ conn + 1 \in 0 .. MaxConns
  BY <1>1, BoundsAssumption, SMTT(60) DEF ClientTypeOK, Connect, Conns
<1>3. ClientTypeOK'
  BY <1>1, <1>2 DEF Connect, ClientTypeOK
<1>4. WireTypeOK'
  <2>1. (IF resume_token THEN Resume(last_server_seq) ELSE Exec) \in ChannelMessage
    BY <1>1, MsgType DEF ClientTypeOK
  <2>2. <<IF resume_token THEN Resume(last_server_seq) ELSE Exec>> \in Seq(ChannelMessage)
    BY <2>1, SingletonSeq
  <2>3. QED
    BY <1>1, <1>2, <2>2 DEF Connect, WireTypeOK
<1>5. HandlerTypeOK'
  BY <1>1, <1>2 DEF Connect, HandlerTypeOK
<1>6. QED
  BY <1>1, <1>3, <1>4, <1>5, SessionUnchanged, DaemonUnchanged DEF Connect

LEMMA HandshakeType == TypeOK /\ (HandshakeStarted \/ HandshakeDenied \/ Disconnect) => TypeOK'
<1>1. SUFFICES ASSUME TypeOK, HandshakeStarted \/ HandshakeDenied \/ Disconnect PROVE TypeOK'
  OBVIOUS
<1> USE DEF TypeOK
<1>2. conn \in Conns
  BY <1>1 DEF ClientTypeOK, HandshakeStarted, HandshakeDenied, Disconnect
<1>3. CASE HandshakeStarted
  <2>1. c2s' \in Queues
    BY <1>1, <1>2, <1>3, ToServerType DEF HandshakeStarted, WireTypeOK, ClientTypeOK, Queues
  <2>2. s2c' \in Queues
    BY <1>1, <1>2, <1>3, QueueHeadTail DEF HandshakeStarted, WireTypeOK, Queues
  <2>3. WireTypeOK'
    BY <1>1, <1>3, <2>1, <2>2 DEF HandshakeStarted, WireTypeOK, Queues
  <2>4. ClientTypeOK'
    BY <1>1, <1>2, <1>3 DEF HandshakeStarted, ClientTypeOK
  <2>5. QED
    BY <1>1, <1>3, <2>3, <2>4, HandlerUnchanged, SessionUnchanged, DaemonUnchanged
       DEF HandshakeStarted
<1>4. CASE HandshakeDenied \/ Disconnect
  <2>1. WireTypeOK'
    BY <1>1, <1>2, <1>4, UnreadType DEF HandshakeDenied, Disconnect, Retry
  <2>2. ClientTypeOK'
    <3>1. phase' \in {"connect", "denied", "failed"}
      BY <1>4 DEF HandshakeDenied, Disconnect, Retry
    <3>2. UNCHANGED <<conn, resume_token, stdin_open, client_seq, sent_stdin, last_server_seq,
                      out, code, dropped>>
      BY <1>4 DEF HandshakeDenied, Disconnect
    <3>3. QED
      BY <1>1, <3>1, <3>2 DEF ClientTypeOK
  <2>3. QED
    BY <1>1, <1>4, <2>1, <2>2, HandlerUnchanged, SessionUnchanged, DaemonUnchanged
       DEF HandshakeDenied, Disconnect
<1>5. QED
  BY <1>1, <1>3, <1>4

LEMMA StdinType ==
    ASSUME TypeOK, NEW eof \in BOOLEAN, ReadStdin(eof) \/ ReadStdinSendFails(eof)
    PROVE  TypeOK'
<1> USE DEF TypeOK
<1>1. conn \in Conns
  BY DEF ClientTypeOK, ReadStdin, ReadStdinSendFails
<1>2. NextStdin(eof) \in ChannelMessage
  BY MsgType, SMTT(60) DEF ClientTypeOK, NextStdin
<1>3. <<NextStdin(eof)>> \in Seq(ChannelMessage)
  BY <1>2, SingletonSeq
<1>4. CASE ReadStdin(eof)
  <2>1. c2s' \in Queues
    BY <1>1, <1>3, <1>4, ToServerType DEF ReadStdin, WireTypeOK, Queues
  <2>2. WireTypeOK'
    BY <1>1, <1>3, <1>4, <2>1, DuplicatesType DEF ReadStdin, WireTypeOK, Queues
  <2>3. sent_stdin' \in Seq(ChannelMessage)
    BY <1>2, <1>4, AppendProperties DEF ReadStdin, ClientTypeOK
  <2>4. stdin_open' \in BOOLEAN
    BY <1>4 DEF ReadStdin
  <2>5. ClientTypeOK'
    BY <1>4, <2>3, <2>4, SMTT(60) DEF ReadStdin, ClientTypeOK
  <2>6. QED
    BY <1>4, <2>2, <2>5, HandlerUnchanged, SessionUnchanged, DaemonUnchanged DEF ReadStdin
<1>5. CASE ReadStdinSendFails(eof)
  <2>1. WireTypeOK'
    BY <1>1, <1>5, UnreadType DEF ReadStdinSendFails, Retry
  <2>2. stdin_open' \in BOOLEAN
    BY <1>5 DEF ReadStdinSendFails
  <2>3. ClientTypeOK'
    BY <1>5, <2>2, SMTT(60) DEF ReadStdinSendFails, Retry, ClientTypeOK
  <2>4. QED
    BY <1>5, <2>1, <2>3, HandlerUnchanged, SessionUnchanged, DaemonUnchanged
       DEF ReadStdinSendFails
<1>6. QED
  BY <1>4, <1>5

LEMMA RetainType ==
    ASSUME ClientTypeOK, NEW acked, RetainAfter(acked)
    PROVE  sent_stdin' \in Seq(ChannelMessage)
<1>1. PICK n \in 0 .. Len(sent_stdin) :
         sent_stdin' = SubSeq(sent_stdin, n + 1, Len(sent_stdin))
  BY DEF RetainAfter
<1>2. sent_stdin \in Seq(ChannelMessage) /\ Len(sent_stdin) \in Nat
  BY LenProperties DEF ClientTypeOK
<1>3. QED
  BY <1>1, <1>2, SubSeqProperties, SMTT(60)

LEMMA WriteOutputType ==
    ASSUME ClientTypeOK, WireTypeOK, conn \in Conns, NEW m \in ChannelMessage, WriteOutput(m)
    PROVE  /\ c2s' \in Queues /\ last_server_seq' \in Nat
           /\ out' \in Seq(ChannelMessage) /\ UNCHANGED <<phase, sent_stdin, code>>
<1>1. m.seq \in Nat
  BY DEF ChannelMessage
<1>2. <<Ack(m.seq)>> \in Seq(ChannelMessage)
  BY <1>1, MsgType, SingletonSeq
<1>3. c2s' \in Queues
  BY <1>2, ToServerType DEF WriteOutput, WireTypeOK, Queues
<1>4. out' \in Seq(ChannelMessage)
  BY AppendProperties DEF WriteOutput, ClientTypeOK
<1>5. QED
  BY <1>1, <1>3, <1>4 DEF WriteOutput

LEMMA ReturnCodeType ==
    ASSUME ClientTypeOK, WireTypeOK, conn \in Conns, NEW m \in ChannelMessage, ReturnCode(m)
    PROVE  /\ c2s' \in Queues /\ phase' = "done" /\ code' \in Nat
           /\ UNCHANGED <<last_server_seq, out, sent_stdin>>
<1>1. m.seq \in Nat /\ m.data \in Nat
  BY DEF ChannelMessage
<1>2. <<Ack(m.seq)>> \in Seq(ChannelMessage)
  BY <1>1, MsgType, SingletonSeq
<1>3. c2s' \in Queues
  BY <1>2, ToServerType DEF ReturnCode, WireTypeOK, Queues
<1>4. QED
  BY <1>1, <1>3 DEF ReturnCode

LEMMA ClientRecvType == TypeOK /\ ClientRecv => TypeOK'
<1>1. SUFFICES ASSUME TypeOK, ClientRecv PROVE TypeOK'
  OBVIOUS
<1> USE DEF TypeOK
<1> DEFINE m == Head(s2c[conn])
<1>2. conn \in Conns /\ s2c[conn] # <<>>
  BY <1>1 DEF ClientTypeOK, ClientRecv
<1>3. /\ m \in ChannelMessage
      /\ [s2c EXCEPT ![conn] = Tail(@)] \in Queues /\ [s2c EXCEPT ![conn] = <<>>] \in Queues
  BY <1>1, <1>2, QueueHeadTail DEF WireTypeOK, Queues
<1>4. s2c' \in Queues
  <2>1. s2c' = [s2c EXCEPT ![conn] = IF m.type = "Exit" THEN <<>> ELSE Tail(@)]
    BY <1>1 DEF ClientRecv
  <2>2. CASE m.type = "Exit"
    BY <1>3, <2>1, <2>2
  <2>3. CASE m.type # "Exit"
    BY <1>3, <2>1, <2>3
  <2>4. QED
    BY <2>2, <2>3
<1>5. dgs2c' \in [Conns -> SUBSET ChannelMessage]
  BY <1>1 DEF ClientRecv, WireTypeOK
<1>6. m.seq \in Nat
  BY <1>3 DEF ChannelMessage
<1>7. /\ c2s' \in Queues /\ phase' \in {phase, "done"} /\ last_server_seq' \in Nat
      /\ out' \in Seq(ChannelMessage) /\ sent_stdin' \in Seq(ChannelMessage)
      /\ code' \in Nat \cup {NoCode}
  <2>1. CASE WriteOutput(m)
    BY <1>1, <1>2, <1>3, <2>1, WriteOutputType DEF ClientTypeOK
  <2>2. CASE ReturnCode(m)
    BY <1>1, <1>2, <1>3, <2>2, ReturnCodeType DEF ClientTypeOK
  <2>3. CASE RetainAfter(m.seq) /\ UNCHANGED <<phase, last_server_seq, out, code, c2s>>
    BY <1>1, <2>3, RetainType DEF ClientTypeOK, WireTypeOK, Queues
  <2>4. CASE UNCHANGED <<phase, last_server_seq, out, code, sent_stdin, c2s>>
    BY <1>1, <2>4 DEF ClientTypeOK, WireTypeOK, Queues
  <2>5. QED
    BY <1>1, <2>1, <2>2, <2>3, <2>4 DEF ClientRecv
<1>8. UNCHANGED <<conn, resume_token, stdin_open, client_seq, dropped, dgc2s, handlerVars,
                  taskVars, inbound, log, daemonVars>>
  BY <1>1 DEF ClientRecv
<1>9. ClientTypeOK'
  BY <1>1, <1>2, <1>7, <1>8 DEF ClientTypeOK
<1>10. WireTypeOK'
  BY <1>1, <1>4, <1>5, <1>7, <1>8 DEF WireTypeOK, Queues
<1>11. QED
  BY <1>1, <1>8, <1>9, <1>10, HandlerUnchanged, SessionUnchanged, DaemonUnchanged

LEMMA ClientRecvDatagramType == TypeOK /\ ClientRecvDatagram => TypeOK'
<1>1. SUFFICES ASSUME TypeOK, ClientRecvDatagram PROVE TypeOK'
  OBVIOUS
<1> USE DEF TypeOK
<1>2. conn \in Conns
  BY <1>1 DEF ClientTypeOK, ClientRecvDatagram
<1>3. PICK m \in dgs2c[conn] : WriteOutput(m)
  BY <1>1 DEF ClientRecvDatagram
<1>4. m \in ChannelMessage
  BY <1>1, <1>2 DEF WireTypeOK
<1>5. /\ c2s' \in Queues /\ last_server_seq' \in Nat
      /\ out' \in Seq(ChannelMessage) /\ UNCHANGED <<phase, sent_stdin, code>>
  BY <1>1, <1>2, <1>3, <1>4, WriteOutputType
<1>6. UNCHANGED <<conn, resume_token, stdin_open, client_seq, dropped, s2c, dgc2s, dgs2c,
                  handlerVars, taskVars, inbound, log, daemonVars>>
  BY <1>1 DEF ClientRecvDatagram
<1>7. ClientTypeOK'
  BY <1>1, <1>5, <1>6 DEF ClientTypeOK
<1>8. WireTypeOK'
  BY <1>1, <1>5, <1>6 DEF WireTypeOK, Queues
<1>9. QED
  BY <1>1, <1>6, <1>7, <1>8, HandlerUnchanged, SessionUnchanged, DaemonUnchanged

LEMMA LocalErrorType == TypeOK /\ LocalError => TypeOK'
<1>1. SUFFICES ASSUME TypeOK, LocalError PROVE TypeOK'
  OBVIOUS
<1> USE DEF TypeOK
<1>2. conn \in Conns
  BY <1>1 DEF ClientTypeOK, LocalError
<1>3. WireTypeOK'
  BY <1>1, <1>2, UnreadType DEF LocalError
<1>4. ClientTypeOK'
  BY <1>1 DEF LocalError, ClientTypeOK
<1>5. QED
  BY <1>1, <1>3, <1>4, HandlerUnchanged, SessionUnchanged, DaemonUnchanged DEF LocalError

LEMMA ClientType == TypeOK /\ ClientNext => TypeOK'
  BY ConnectType, HandshakeType, StdinType, ClientRecvType, ClientRecvDatagramType,
     LocalErrorType DEF ClientNext

-----------------------------------------------------------------------------
(* The client: output sent and taken                                        *)

\* A frame in a queue to the daemon after a send was there before or was sent.
LEMMA SentToServer ==
    ASSUME c2s \in Queues, NEW c \in Conns, NEW ms \in Seq(ChannelMessage),
           SendToServer(c, ms), NEW d \in Conns, NEW i \in 1 .. Len(c2s'[d])
    PROVE  \/ i \in 1 .. Len(c2s[d]) /\ c2s'[d][i] = c2s[d][i]
           \/ \E k \in 1 .. Len(ms) : c2s'[d][i] = ms[k]
<1>1. CASE ServerOn(c) /\ d = c
  <2>1. c2s'[d] = c2s[d] \o ms /\ c2s[d] \in Seq(ChannelMessage)
    BY <1>1 DEF SendToServer, Queues
  <2>2. CASE i \in 1 .. Len(c2s[d])
    BY <2>1, <2>2, ConcatElements, SMTT(60)
  <2>3. CASE i \notin 1 .. Len(c2s[d])
    <3>1. /\ Len(c2s[d]) \in Nat /\ Len(ms) \in Nat /\ i \in 1 .. Len(c2s[d]) + Len(ms)
      BY <2>1, ConcatElements
    <3>2. i - Len(c2s[d]) \in 1 .. Len(ms) /\ i = Len(c2s[d]) + (i - Len(c2s[d]))
      BY <2>3, <3>1, SMTT(60)
    <3>3. QED
      BY <2>1, <3>2, ConcatElements, SMTT(60)
  <2>4. QED
    BY <2>2, <2>3
<1>2. CASE ~(ServerOn(c) /\ d = c)
  BY <1>2 DEF SendToServer, Queues
<1>3. QED
  BY <1>1, <1>2

\* The reader takes the head of the queue and has then written it, if it is data.
LEMMA PopQueue ==
    ASSUME NEW q \in Seq(ChannelMessage), q # <<>>, NEW a \in Nat, NEW b \in Nat, a <= b,
           Data(Head(q)) => Head(q).seq <= b, NEW m \in Nat
    PROVE  /\ NoGap(q, a) => NoGap(Tail(q), b)
           /\ Covers(q, a, m) => Covers(Tail(q), b, m)
           /\ Within(q, m) => Within(Tail(q), m)
<1>1. /\ Len(Tail(q)) = Len(q) - 1 /\ Len(q) \in Nat \ {0}
      /\ \A i \in 1 .. Len(Tail(q)) : Tail(q)[i] = q[i + 1] /\ i + 1 \in 1 .. Len(q)
      /\ Head(q) = q[1]
  BY TailElements
<1>2. \A j \in 1 .. Len(q) : Data(q[j]) /\ q[j].seq > b =>
         j # 1 /\ j - 1 \in 1 .. Len(Tail(q)) /\ Tail(q)[j - 1] = q[j]
  <2>1. SUFFICES ASSUME NEW j \in 1 .. Len(q), Data(q[j]), q[j].seq > b
                 PROVE  j # 1 /\ j - 1 \in 1 .. Len(Tail(q)) /\ Tail(q)[j - 1] = q[j]
    OBVIOUS
  <2>2. q[j].seq \in Nat
    BY ElementType
  <2>3. j # 1
    BY <1>1, <2>1, <2>2, SMTT(60)
  <2>4. j - 1 \in 1 .. Len(Tail(q)) /\ (j - 1) + 1 = j
    BY <1>1, <2>3, SMTT(60)
  <2>5. QED
    BY <1>1, <2>3, <2>4
<1>3. ASSUME NoGap(q, a), NEW i \in 1 .. Len(Tail(q)), Data(Tail(q)[i]),
             NEW k \in b + 1 .. Tail(q)[i].seq - 1
      PROVE  \E j \in 1 .. i - 1 : Data(Tail(q)[j]) /\ Tail(q)[j].seq = k
  <2>1. Tail(q)[i] = q[i + 1] /\ i + 1 \in 1 .. Len(q)
    BY <1>1
  <2>2. q[i + 1].seq \in Nat
    BY <2>1, ElementType
  <2>3. k \in a + 1 .. q[i + 1].seq - 1 /\ k > b
    BY <1>3, <2>1, <2>2, SMTT(60)
  <2>4. PICK j \in 1 .. (i + 1) - 1 : Data(q[j]) /\ q[j].seq = k
    BY <1>3, <2>1, <2>3 DEF NoGap
  <2>5. j \in 1 .. Len(q)
    BY <1>1, <2>4, SMTT(60)
  <2>6. j # 1 /\ Tail(q)[j - 1] = q[j]
    BY <1>2, <2>3, <2>4, <2>5
  <2>7. j - 1 \in 1 .. i - 1
    BY <2>4, <2>6, SMTT(60)
  <2>8. QED
    BY <2>4, <2>6, <2>7
<1>4. ASSUME Covers(q, a, m), NEW k \in b + 1 .. m
      PROVE  \E j \in 1 .. Len(Tail(q)) : Data(Tail(q)[j]) /\ Tail(q)[j].seq = k
  <2>1. k \in a + 1 .. m /\ k > b
    BY <1>4, SMTT(60)
  <2>2. PICK j \in 1 .. Len(q) : Data(q[j]) /\ q[j].seq = k
    BY <1>4, <2>1 DEF Covers
  <2>3. QED
    BY <1>2, <2>1, <2>2
<1>5. NoGap(q, a) => NoGap(Tail(q), b)
  BY <1>3 DEF NoGap
<1>6. Covers(q, a, m) => Covers(Tail(q), b, m)
  BY <1>4 DEF Covers
<1>7. Within(q, m) => Within(Tail(q), m)
  BY <1>1 DEF Within
<1>8. QED
  BY <1>5, <1>6, <1>7

\* The reader has come further without taking from the queue.
LEMMA AdvanceQueue ==
    ASSUME NEW q \in Seq(ChannelMessage), NEW a \in Nat, NEW b \in Nat, a <= b, NEW m \in Nat
    PROVE  /\ NoGap(q, a) => NoGap(q, b)
           /\ Covers(q, a, m) => Covers(q, b, m)
<1>1. ASSUME NoGap(q, a), NEW i \in 1 .. Len(q), Data(q[i]), NEW k \in b + 1 .. q[i].seq - 1
      PROVE  \E j \in 1 .. i - 1 : Data(q[j]) /\ q[j].seq = k
  <2>1. q[i].seq \in Nat
    BY ElementType
  <2>2. k \in a + 1 .. q[i].seq - 1
    BY <2>1, SMTT(60)
  <2>3. QED
    BY <1>1, <2>2 DEF NoGap
<1>2. ASSUME NEW k \in b + 1 .. m PROVE k \in a + 1 .. m
  BY SMTT(60)
<1>3. Covers(q, a, m) => Covers(q, b, m)
  BY <1>2 DEF Covers
<1>4. QED
  BY <1>1, <1>3 DEF NoGap

-----------------------------------------------------------------------------
(* The client: output                                                       *)

LEMMA ConnectOutput == TypeOK /\ OutputInv /\ Connect => OutputInv'
<1>1. SUFFICES ASSUME TypeOK, OutputInv, Connect PROVE OutputInv'
  OBVIOUS
<1> DEFINE req == IF resume_token THEN Resume(last_server_seq) ELSE Exec
<1>2. /\ conn \in Nat /\ conn' = conn + 1 /\ conn' # 0 /\ phase = "connect"
      /\ phase' = "handshake" /\ conn + 1 \in Conns
  BY <1>1, ConnectType, BoundsAssumption, SMTT(60) DEF Connect, TypeOK, ClientTypeOK, Conns
<1>3. /\ handler' = [handler EXCEPT ![conn + 1] = "queued"]
      /\ c2s' = [c2s EXCEPT ![conn + 1] = <<req>>]
      /\ UNCHANGED <<resume_token, sent_stdin, last_server_seq, out, code, s2c, dgs2c,
                     sent_up_to, exit_seq, task, seq, emitted, log, record>>
  BY <1>1 DEF Connect, taskVars, daemonVars
<1>4. c2s \in Queues /\ handler \in [Conns -> {"none", "queued", "request", "pump", "ack",
                                            "select", "closed"}]
  BY <1>1 DEF TypeOK, WireTypeOK, HandlerTypeOK, Queues
<1>5. /\ req.type \in {"Exec", "Resume"} /\ req.seq = last_server_seq
      /\ req.type = "Exec" => conn = 0 /\ task = "none" /\ req.seq = 0
  BY <1>1, <1>2 DEF OutputInv, ClientInv, SessionInv, Resume, Exec, Msg
<1>6. s2c[conn + 1] = <<>> /\ dgs2c[conn + 1] = {}
  BY <1>1, <1>2, SMTT(60) DEF OutputInv, CarriedInv
<1>7. \A c \in Conns : \A i \in 1 .. Len(c2s'[c]) :
         IF c = conn + 1 THEN i = 1 /\ c2s'[c][i] = req
                         ELSE i \in 1 .. Len(c2s[c]) /\ c2s'[c][i] = c2s[c][i]
  <2> HIDE DEF req
  <2> QED
    BY <1>2, <1>3, <1>4, SMTT(60) DEF Queues
<1> HIDE DEF req
<1>8. EmittedInv' /\ SessionInv'
  BY <1>1, <1>2, <1>3, EmittedFrame, SessionFrame DEF OutputInv
<1>9. RequestInv'
  <2>1. ASSUME NEW c \in Conns, NEW i \in 1 .. Len(c2s'[c]), Request(c2s'[c][i])
        PROVE  /\ i = 1 /\ handler'[c] \in {"queued", "request"}
               /\ c2s'[c][i].type = "Exec" =>
                     c = 1 /\ conn' # 0 /\ task' = "none" /\ c2s'[c][i].seq = 0
               /\ ClientOn(c)' => /\ phase' = "handshake" /\ c2s'[c][i].seq = last_server_seq'
                                  /\ s2c'[c] = <<>> /\ dgs2c'[c] = {}
    <3>1. CASE c = conn + 1
      BY <1>2, <1>3, <1>4, <1>5, <1>6, <1>7, <2>1, <3>1, SMTT(60)
    <3>2. CASE c # conn + 1
      BY <1>1, <1>2, <1>3, <1>4, <1>7, <2>1, <3>2, SMTT(60) DEF OutputInv, RequestInv, ClientOn
    <3>3. QED
      BY <3>1, <3>2
  <2>2. QED
    BY <2>1 DEF RequestInv
<1>10. AckInv'
  BY <1>1, <1>2, <1>3, <1>5, <1>7, SMTT(60) DEF OutputInv, AckInv
<1>11. CarriedInv'
  BY <1>1, <1>2, <1>3, SMTT(60) DEF OutputInv, CarriedInv, IsEmitted, Finished, Data, Conns
<1>12. NoGapInv'
  BY <1>2, <1>3, <1>6, SMTT(60) DEF NoGapInv, ClientOn, NoGap
<1>13. SentInv'
  BY <1>2, <1>3, <1>4 DEF SentInv, ClientOn, Active
<1>14. ClientInv'
  BY <1>1, <1>2, <1>3 DEF OutputInv, ClientInv, OutputExact, ExitComplete, ReplayPossible
<1>15. QED
  BY <1>8, <1>9, <1>10, <1>11, <1>12, <1>13, <1>14 DEF OutputInv

\* The client drops its connection, or gives up: it reads no connection now.
\* What is carried stays right when the client drops what it has not read.
LEMMA LeftCarried ==
    ASSUME CarriedInv, UNCHANGED <<conn, exit_seq, emitted>>,
           \A c \in Conns : /\ s2c'[c] = IF c = conn THEN <<>> ELSE s2c[c]
                            /\ dgs2c'[c] = IF c = conn THEN {} ELSE dgs2c[c]
    PROVE  CarriedInv'
<1>1. SUFFICES ASSUME NEW c \in Conns
               PROVE  /\ \A i \in 1 .. Len(s2c'[c]) : Data(s2c'[c][i]) => IsEmitted(s2c'[c][i])
                      /\ \A m \in dgs2c'[c] : IsEmitted(m)
                      /\ c > conn => s2c'[c] = <<>> /\ dgs2c'[c] = {}
                      /\ exit_seq[c] # 0 => exit_seq[c] = Len(emitted) /\ Finished
  BY DEF CarriedInv, IsEmitted, Finished, Data
<1>2. CASE c = conn
  <2>1. s2c'[c] = <<>> /\ dgs2c'[c] = {} /\ Len(<<>>) = 0
    BY <1>2
  <2>2. exit_seq[c] # 0 => exit_seq[c] = Len(emitted) /\ Finished
    BY DEF CarriedInv
  <2>3. QED
    BY <2>1, <2>2, SMTT(60)
<1>3. CASE c # conn
  <2>1. s2c'[c] = s2c[c] /\ dgs2c'[c] = dgs2c[c]
    BY <1>3
  <2>2. QED
    BY <2>1 DEF CarriedInv
<1>4. QED
  BY <1>2, <1>3

LEMMA LeaveOutput ==
    ASSUME TypeOK, OutputInv, conn \in Conns, Unread(conn),
           phase' \in {"connect", "denied", "failed"}, phase # "done",
           phase' = "connect" => resume_token,
           \A i \in 1 .. Len(sent_stdin') : sent_stdin'[i].type \in {"Stdin", "StdinEof"},
           UNCHANGED <<conn, resume_token, last_server_seq, out, code, c2s, handler,
                       sent_up_to, exit_seq, task, seq, emitted, log, record>>
    PROVE  OutputInv'
<1>1. \A c \in Conns : ~ClientOn(c)'
  BY DEF ClientOn
<1>2. EmittedInv' /\ SessionInv'
  BY EmittedFrame, SessionFrame DEF OutputInv
<1>3. RequestInv'
  BY <1>1 DEF OutputInv, RequestInv
<1>4. AckInv'
  BY DEF OutputInv, AckInv
<1>5. CarriedInv'
  <2>1. s2c \in Queues /\ dgs2c \in [Conns -> SUBSET ChannelMessage]
    BY DEF TypeOK, WireTypeOK, Queues
  <2>2. ASSUME NEW c \in Conns
        PROVE  /\ s2c'[c] = IF c = conn THEN <<>> ELSE s2c[c]
               /\ dgs2c'[c] = IF c = conn THEN {} ELSE dgs2c[c]
    BY <2>1 DEF Unread, Queues
  <2>3. QED
    BY <2>2, LeftCarried DEF OutputInv
<1>6. NoGapInv' /\ SentInv'
  BY <1>1 DEF NoGapInv, SentInv
<1>7. ClientInv'
  BY SMTT(60) DEF OutputInv, ClientInv, OutputExact, ExitComplete, ReplayPossible, Conns
<1>8. QED
  BY <1>2, <1>3, <1>4, <1>5, <1>6, <1>7 DEF OutputInv

LEMMA DropOutput ==
    ASSUME TypeOK, OutputInv,
           HandshakeDenied \/ Disconnect \/ LocalError
              \/ \E eof \in BOOLEAN : ReadStdinSendFails(eof)
    PROVE  OutputInv'
<1>1. conn \in Conns /\ phase # "done"
  BY DEF TypeOK, ClientTypeOK, HandshakeDenied, Disconnect, LocalError, ReadStdinSendFails
<1>2. /\ Unread(conn) /\ phase' \in {"connect", "denied", "failed"}
      /\ phase' = "connect" => resume_token
  BY DEF HandshakeDenied, Disconnect, LocalError, ReadStdinSendFails, Retry
<1>3. UNCHANGED <<conn, resume_token, sent_stdin, last_server_seq, out, code, c2s, handler,
                  sent_up_to, exit_seq, task, seq, emitted, log, record>>
  BY DEF HandshakeDenied, Disconnect, LocalError, ReadStdinSendFails, handlerVars, taskVars,
         daemonVars
<1>4. \A i \in 1 .. Len(sent_stdin') : sent_stdin'[i].type \in {"Stdin", "StdinEof"}
  BY <1>3 DEF OutputInv, ClientInv
<1>5. QED
  BY <1>1, <1>2, <1>3, <1>4, LeaveOutput

\* Frames that are no requests leave the requests in place.
LEMMA RequestsKept ==
    ASSUME TypeOK, NEW c \in Conns, NEW ms \in Seq(ChannelMessage), SendToServer(c, ms),
           \A k \in 1 .. Len(ms) : ~Request(ms[k])
    PROVE  \A d \in Conns : \A i \in 1 .. Len(c2s'[d]) :
              Request(c2s'[d][i]) => i \in 1 .. Len(c2s[d]) /\ c2s'[d][i] = c2s[d][i]
<1>1. c2s \in Queues
  BY DEF TypeOK, WireTypeOK, Queues
<1>2. QED
  BY <1>1, SentToServer

LEMMA AcksSent ==
    ASSUME TypeOK, AckInv, NEW c \in Conns, NEW ms \in Seq(ChannelMessage), SendToServer(c, ms),
           \A k \in 1 .. Len(ms) : ms[k].type = "Ack" => ms[k].seq <= last_server_seq'
                                                         \/ phase' = "done",
           last_server_seq' \in Nat, last_server_seq <= last_server_seq',
           phase = "done" => phase' = "done"
    PROVE  AckInv'
<1>1. c2s \in Queues /\ last_server_seq \in Nat
  BY DEF TypeOK, WireTypeOK, ClientTypeOK, Queues
<1>2. SUFFICES ASSUME NEW d \in Conns, NEW i \in 1 .. Len(c2s'[d]), c2s'[d][i].type = "Ack"
               PROVE  c2s'[d][i].seq <= last_server_seq' \/ phase' = "done"
  BY DEF AckInv
<1>3. CASE i \in 1 .. Len(c2s[d]) /\ c2s'[d][i] = c2s[d][i]
  <2>1. c2s[d][i].seq \in Nat
    BY <1>1, <1>3, ElementType DEF Queues
  <2>2. QED
    BY <1>1, <1>2, <1>3, <2>1, SMTT(60) DEF AckInv
<1>4. CASE \E k \in 1 .. Len(ms) : c2s'[d][i] = ms[k]
  BY <1>2, <1>4
<1>5. QED
  BY <1>1, <1>3, <1>4, SentToServer

\* Requests still unread on a connection the client has left stay as they are.
LEMMA RequestsStay ==
    ASSUME RequestInv, UNCHANGED <<conn, handler, task>>,
           \A d \in Conns : \A i \in 1 .. Len(c2s'[d]) : Request(c2s'[d][i]) =>
              i \in 1 .. Len(c2s[d]) /\ c2s'[d][i] = c2s[d][i] /\ ~ClientOn(d)'
    PROVE  RequestInv'
<1>1. SUFFICES ASSUME NEW d \in Conns, NEW i \in 1 .. Len(c2s'[d]), Request(c2s'[d][i])
               PROVE  /\ i = 1 /\ handler[d] \in {"queued", "request"}
                      /\ c2s'[d][i].type = "Exec" =>
                            d = 1 /\ conn # 0 /\ task = "none" /\ c2s'[d][i].seq = 0
                      /\ ~ClientOn(d)'
  BY SMTT(60) DEF RequestInv, Request
<1>2. i \in 1 .. Len(c2s[d]) /\ c2s'[d][i] = c2s[d][i] /\ ~ClientOn(d)'
  BY <1>1
<1>3. Request(c2s[d][i])
  BY <1>1, <1>2
<1>4. /\ i = 1 /\ handler[d] \in {"queued", "request"}
      /\ c2s[d][i].type = "Exec" =>
            d = 1 /\ conn # 0 /\ task = "none" /\ c2s[d][i].seq = 0
  BY <1>2, <1>3 DEF RequestInv
<1>5. QED
  BY <1>2, <1>4

\* While the client is attached its request has been answered.
LEMMA AttachedRequests ==
    ASSUME RequestInv, phase # "handshake", UNCHANGED conn,
           task = "none" => task' = "none", UNCHANGED handler,
           \A d \in Conns : \A i \in 1 .. Len(c2s'[d]) :
              Request(c2s'[d][i]) => i \in 1 .. Len(c2s[d]) /\ c2s'[d][i] = c2s[d][i],
           \A d \in Conns : ClientOn(d)' => ClientOn(d)
    PROVE  RequestInv'
  BY SMTT(60) DEF RequestInv

LEMMA ReadStdinOutput ==
    ASSUME TypeOK, OutputInv, NEW eof \in BOOLEAN, ReadStdin(eof)
    PROVE  OutputInv'
<1>1. conn \in Conns /\ phase = "attached" /\ last_server_seq \in Nat
  BY DEF TypeOK, ClientTypeOK, ReadStdin
<1>2. /\ NextStdin(eof) \in ChannelMessage /\ NextStdin(eof).type \in {"Stdin", "StdinEof"}
  BY MsgType, SMTT(60) DEF TypeOK, ClientTypeOK, NextStdin, Stdin, StdinEof, Msg
<1>3. /\ <<NextStdin(eof)>> \in Seq(ChannelMessage) /\ Len(<<NextStdin(eof)>>) = 1
      /\ <<NextStdin(eof)>>[1] = NextStdin(eof)
  BY <1>2, SingletonSeq
<1>4. SendToServer(conn, <<NextStdin(eof)>>)
  BY DEF ReadStdin
<1>5. UNCHANGED <<phase, conn, resume_token, last_server_seq, out, code, s2c, dgs2c, handler,
                  sent_up_to, exit_seq, task, seq, emitted, log, record>>
  BY DEF ReadStdin, handlerVars, taskVars, daemonVars
<1>6. \A k \in 1 .. Len(<<NextStdin(eof)>>) : <<NextStdin(eof)>>[k].type \in {"Stdin", "StdinEof"}
  BY <1>2, <1>3, SMTT(60)
<1>7. EmittedInv' /\ SessionInv' /\ CarriedInv' /\ NoGapInv'
  BY <1>5, EmittedFrame, SessionFrame, CarriedFrame, NoGapFrame DEF OutputInv
<1>8. SentInv'
  BY <1>5, SentFrame DEF OutputInv, Active
<1>9. RequestInv'
  <2>1. \A d \in Conns : \A i \in 1 .. Len(c2s'[d]) :
           Request(c2s'[d][i]) => i \in 1 .. Len(c2s[d]) /\ c2s'[d][i] = c2s[d][i]
    BY <1>1, <1>3, <1>4, <1>6, RequestsKept DEF Request
  <2>2. QED
    BY <1>1, <1>5, <2>1, AttachedRequests DEF OutputInv, ClientOn
<1>10. AckInv'
  <2>1. \A k \in 1 .. Len(<<NextStdin(eof)>>) : <<NextStdin(eof)>>[k].type # "Ack"
    BY <1>6
  <2>2. /\ last_server_seq' \in Nat /\ last_server_seq <= last_server_seq'
        /\ phase = "done" => phase' = "done"
    BY <1>1, <1>5, SMTT(60)
  <2>3. QED
    BY <1>1, <1>3, <1>4, <2>1, <2>2, AcksSent DEF OutputInv
<1>11. \A i \in 1 .. Len(sent_stdin') : sent_stdin'[i].type \in {"Stdin", "StdinEof"}
  <2>1. sent_stdin' = Append(sent_stdin, NextStdin(eof)) /\ sent_stdin \in Seq(ChannelMessage)
    BY DEF ReadStdin, TypeOK, ClientTypeOK
  <2>2. QED
    BY <1>2, <2>1, AppendProperties, SMTT(60) DEF OutputInv, ClientInv
<1>12. ClientInv'
  BY <1>5, <1>11 DEF OutputInv, ClientInv, OutputExact, ExitComplete, ReplayPossible, Finished
<1>13. QED
  BY <1>7, <1>8, <1>9, <1>10, <1>12 DEF OutputInv

\* The client takes a frame; lss is the last message it has written then.
LEMMA TakeFrame ==
    ASSUME TypeOK, OutputInv, conn \in Conns, ClientOn(conn), s2c[conn] # <<>>,
           s2c' = [s2c EXCEPT ![conn] = Tail(@)],
           UNCHANGED <<conn, dgs2c, handler, sent_up_to, exit_seq, emitted>>,
           last_server_seq' \in Nat, last_server_seq <= last_server_seq',
           Data(Head(s2c[conn])) => Head(s2c[conn]).seq <= last_server_seq',
           Active(conn) => last_server_seq' <= sent_up_to[conn]
    PROVE  NoGapInv' /\ SentInv' /\ CarriedInv'
<1>1. /\ s2c \in Queues /\ s2c[conn] \in Seq(ChannelMessage) /\ last_server_seq \in Nat
      /\ sent_up_to[conn] \in Nat
  BY DEF TypeOK, WireTypeOK, HandlerTypeOK, ClientTypeOK, Queues
<1>2. \A c \in Conns : s2c'[c] = IF c = conn THEN Tail(s2c[conn]) ELSE s2c[c]
  BY <1>1 DEF Queues
<1>3. NoGapInv'
  <2>1. NoGap(Tail(s2c[conn]), last_server_seq')
    BY <1>1, PopQueue DEF OutputInv, NoGapInv
  <2>2. QED
    BY <1>2, <2>1 DEF NoGapInv, ClientOn
<1>4. SentInv'
  <2>1. SUFFICES ASSUME Active(conn)
                 PROVE  /\ last_server_seq' <= sent_up_to[conn]
                        /\ sent_up_to[conn] <= Len(emitted)
                        /\ Covers(Tail(s2c[conn]), last_server_seq', sent_up_to[conn])
                        /\ Within(Tail(s2c[conn]), sent_up_to[conn])
                        /\ \A m \in dgs2c[conn] : m.seq <= sent_up_to[conn]
    BY <1>2 DEF SentInv, ClientOn, Active
  <2>2. /\ sent_up_to[conn] <= Len(emitted)
        /\ Covers(s2c[conn], last_server_seq, sent_up_to[conn])
        /\ Within(s2c[conn], sent_up_to[conn])
        /\ \A m \in dgs2c[conn] : m.seq <= sent_up_to[conn]
    BY <2>1 DEF OutputInv, SentInv
  <2>3. QED
    BY <1>1, <2>1, <2>2, PopQueue
<1>5. CarriedInv'
  <2>1. \A i \in 1 .. Len(Tail(s2c[conn])) : Data(Tail(s2c[conn])[i]) => IsEmitted(Tail(s2c[conn])[i])
    BY <1>1, TailElements, SMTT(60) DEF OutputInv, CarriedInv
  <2>2. \A c \in Conns : \A i \in 1 .. Len(s2c'[c]) : Data(s2c'[c][i]) => IsEmitted(s2c'[c][i])
    BY <1>2, <2>1 DEF OutputInv, CarriedInv
  <2>3. ~(conn > conn)
    BY SMTT(60) DEF Conns
  <2>4. \A c \in Conns : c > conn => s2c'[c] = <<>> /\ dgs2c'[c] = {}
    BY <1>2, <2>3 DEF OutputInv, CarriedInv
  <2>5. \A m : IsEmitted(m) => IsEmitted(m)'
    BY DEF IsEmitted
  <2>6. Finished => Finished'
    BY DEF Finished
  <2>7. QED
    BY <2>2, <2>4, <2>5, <2>6 DEF OutputInv, CarriedInv
<1>6. QED
  BY <1>3, <1>4, <1>5

LEMMA HandshakeStartedOutput ==
    ASSUME TypeOK, OutputInv, HandshakeStarted
    PROVE  OutputInv'
<1>1. /\ conn \in Conns /\ phase = "handshake" /\ last_server_seq \in Nat /\ ClientOn(conn)
      /\ sent_stdin \in Seq(ChannelMessage)
  BY DEF TypeOK, ClientTypeOK, HandshakeStarted, ClientOn
<1>2. /\ s2c[conn] # <<>> /\ ~Data(Head(s2c[conn])) /\ phase' = "attached" /\ resume_token' = TRUE
      /\ s2c' = [s2c EXCEPT ![conn] = Tail(@)] /\ SendToServer(conn, sent_stdin)
      /\ UNCHANGED <<conn, sent_stdin, last_server_seq, out, code, dgs2c, handler, sent_up_to,
                     exit_seq, task, seq, emitted, log, record>>
  BY DEF HandshakeStarted, Data, Stdio, handlerVars, taskVars, daemonVars
<1>3. \A k \in 1 .. Len(sent_stdin) : sent_stdin[k].type \in {"Stdin", "StdinEof"}
  BY DEF OutputInv, ClientInv
<1>4. EmittedInv' /\ SessionInv'
  BY <1>2, EmittedFrame, SessionFrame DEF OutputInv
<1>5. Active(conn) => last_server_seq <= sent_up_to[conn]
  BY <1>1 DEF OutputInv, SentInv
<1>6. NoGapInv' /\ SentInv' /\ CarriedInv'
  BY <1>1, <1>2, <1>5, TakeFrame, SMTT(60)
<1>7. RequestInv'
  <2>1. \A d \in Conns : \A i \in 1 .. Len(c2s'[d]) :
           Request(c2s'[d][i]) => i \in 1 .. Len(c2s[d]) /\ c2s'[d][i] = c2s[d][i]
    BY <1>1, <1>2, <1>3, RequestsKept DEF Request
  <2>2. \A i \in 1 .. Len(c2s[conn]) : ~Request(c2s[conn][i])
    BY <1>1, <1>2 DEF OutputInv, RequestInv
  <2>3. \A d \in Conns : ClientOn(d)' => d = conn
    BY <1>2 DEF ClientOn
  <2>4. QED
    BY <1>2, <2>1, <2>2, <2>3, RequestsStay DEF OutputInv
<1>8. AckInv'
  <2>1. \A k \in 1 .. Len(sent_stdin) : sent_stdin[k].type # "Ack"
    BY <1>3
  <2>2. /\ last_server_seq' \in Nat /\ last_server_seq <= last_server_seq' /\ phase # "done"
    BY <1>1, <1>2, SMTT(60)
  <2>3. QED
    BY <1>1, <1>2, <2>1, <2>2, AcksSent DEF OutputInv
<1>9. ClientInv'
  <2>1. conn # 0
    BY <1>1, SMTT(60) DEF Conns
  <2>2. QED
    BY <1>1, <1>2, <2>1 DEF OutputInv, ClientInv, OutputExact, ExitComplete, ReplayPossible
<1>10. QED
  BY <1>4, <1>6, <1>7, <1>8, <1>9 DEF OutputInv

\* The client writes the next message of the session.
LEMMA WriteOutputInv ==
    ASSUME TypeOK, OutputInv, phase = "attached", conn \in Conns, NEW m \in ChannelMessage,
           IsEmitted(m), m.type \in Stdio, m.seq = last_server_seq + 1, WriteOutput(m),
           UNCHANGED <<conn, resume_token, handler, task, seq, emitted, log, record>>
    PROVE  EmittedInv' /\ SessionInv' /\ RequestInv' /\ AckInv' /\ ClientInv'
<1>1. last_server_seq \in Nat /\ m.seq \in Nat /\ out \in Seq(ChannelMessage)
  BY DEF TypeOK, ClientTypeOK, ChannelMessage
<1>2. /\ last_server_seq' = m.seq /\ out' = Append(out, m) /\ SendToServer(conn, <<Ack(m.seq)>>)
      /\ UNCHANGED <<phase, sent_stdin, code>>
  BY DEF WriteOutput
<1>3. Ack(m.seq) \in ChannelMessage /\ Ack(m.seq).type = "Ack" /\ Ack(m.seq).seq = m.seq
  BY <1>1, MsgType DEF Ack, Msg
<1>4. /\ <<Ack(m.seq)>> \in Seq(ChannelMessage) /\ Len(<<Ack(m.seq)>>) = 1
      /\ <<Ack(m.seq)>>[1] = Ack(m.seq)
  BY <1>3, SingletonSeq
<1>5. EmittedInv' /\ SessionInv'
  BY EmittedFrame, SessionFrame DEF OutputInv
<1>6. RequestInv'
  <2>1. \A k \in 1 .. Len(<<Ack(m.seq)>>) : ~Request(<<Ack(m.seq)>>[k])
    BY <1>3, <1>4, SMTT(60) DEF Request
  <2>2. \A d \in Conns : \A i \in 1 .. Len(c2s'[d]) :
           Request(c2s'[d][i]) => i \in 1 .. Len(c2s[d]) /\ c2s'[d][i] = c2s[d][i]
    BY <1>2, <1>4, <2>1, RequestsKept
  <2>3. QED
    BY <1>2, <2>2, AttachedRequests DEF OutputInv, ClientOn
<1>7. AckInv'
  <2>1. \A k \in 1 .. Len(<<Ack(m.seq)>>) : <<Ack(m.seq)>>[k].seq <= last_server_seq'
    BY <1>1, <1>2, <1>3, <1>4, SMTT(60)
  <2>2. last_server_seq' \in Nat /\ last_server_seq <= last_server_seq'
    BY <1>1, <1>2, SMTT(60)
  <2>3. QED
    BY <1>2, <1>4, <2>1, <2>2, AcksSent DEF OutputInv
<1>8. ClientInv'
  <2>1. Len(out) = last_server_seq /\ \A i \in 1 .. last_server_seq : out[i] = emitted[i]
    BY DEF OutputInv, ClientInv, OutputExact
  <2>2. /\ Len(out') = last_server_seq + 1 /\ out'[last_server_seq + 1] = m
        /\ \A i \in 1 .. last_server_seq : out'[i] = out[i]
    <3>0. out \in Seq(ChannelMessage) /\ last_server_seq \in Nat /\ Len(out) = last_server_seq
      BY <1>1, <2>1
    <3>1. /\ Len(Append(out, m)) = last_server_seq + 1 /\ Append(out, m)[last_server_seq + 1] = m
          /\ \A i \in 1 .. last_server_seq : Append(out, m)[i] = out[i]
      BY <3>0, AppendElements, SMTT(60)
    <3>2. out' = Append(out, m)
      BY <1>2
    <3>3. QED
      BY <3>1, <3>2
  <2>3. OutputExact'
    <3>1. m = emitted[last_server_seq + 1] /\ last_server_seq + 1 <= Len(emitted)
      BY SMTT(60) DEF IsEmitted
    <3>2. \A i \in 1 .. last_server_seq + 1 : out'[i] = emitted[i]
      BY <1>1, <2>1, <2>2, <3>1, SMTT(60)
    <3>3. last_server_seq' = last_server_seq + 1 /\ emitted' = emitted
      BY <1>2
    <3>4. QED
      BY <2>2, <3>1, <3>2, <3>3 DEF OutputExact
  <2>4. \A i \in 1 .. Len(out') : out'[i].type \in Stdio
    <3>1. \A i \in 1 .. last_server_seq : out[i].type \in Stdio
      BY <2>1 DEF OutputInv, ClientInv
    <3>2. TAKE i \in 1 .. Len(out')
    <3>3. i \in 1 .. last_server_seq \/ i = last_server_seq + 1
      BY <1>1, <2>2, SMTT(60)
    <3>4. QED
      BY <2>2, <3>1, <3>3
  <2>5. ExitComplete'
    BY <1>2 DEF ExitComplete
  <2>6. log.trimmed \in Nat /\ record.log.trimmed \in Nat
    BY DEF TypeOK, DaemonTypeOK, Records, Log
  <2>7. ReplayPossible'
    BY <1>1, <1>2, <2>6, SMTT(60) DEF OutputInv, ClientInv, ReplayPossible
  <2>8. QED
    BY <1>2, <2>3, <2>4, <2>5, <2>7 DEF OutputInv, ClientInv, Conns
<1>9. QED
  BY <1>5, <1>6, <1>7, <1>8

LEMMA ClientRecvDatagramOutput ==
    ASSUME TypeOK, OutputInv, ClientRecvDatagram
    PROVE  OutputInv'
<1>1. conn \in Conns /\ phase = "attached" /\ ClientOn(conn) /\ last_server_seq \in Nat
  BY DEF TypeOK, ClientTypeOK, ClientRecvDatagram, ClientOn
<1>2. UNCHANGED <<conn, resume_token, s2c, dgs2c, handler, sent_up_to, exit_seq, task, seq,
                  emitted, log, record>>
  BY DEF ClientRecvDatagram, handlerVars, taskVars, daemonVars
<1>3. PICK m \in dgs2c[conn] : /\ m.type \in Stdio /\ IsNext(m.seq, last_server_seq, FALSE)
                               /\ WriteOutput(m)
  BY DEF ClientRecvDatagram
<1>4. m \in ChannelMessage /\ IsEmitted(m) /\ m.seq = last_server_seq + 1
  BY <1>1, <1>3 DEF TypeOK, WireTypeOK, OutputInv, CarriedInv, IsNext
<1>5. EmittedInv' /\ SessionInv' /\ RequestInv' /\ AckInv' /\ ClientInv'
  BY <1>1, <1>2, <1>3, <1>4, WriteOutputInv
<1>6. last_server_seq' = last_server_seq + 1 /\ phase' = phase
  BY <1>3, <1>4 DEF WriteOutput
<1>7. CarriedInv'
  BY <1>2, CarriedFrame DEF OutputInv
<1>8. s2c[conn] \in Seq(ChannelMessage) /\ sent_up_to[conn] \in Nat
  BY <1>1 DEF TypeOK, WireTypeOK, HandlerTypeOK
<1>9. NoGapInv'
  <2>1. NoGap(s2c[conn], last_server_seq')
    BY <1>1, <1>6, <1>8, AdvanceQueue, SMTT(60) DEF OutputInv, NoGapInv
  <2>2. QED
    BY <1>2, <2>1 DEF NoGapInv, ClientOn
<1>10. SentInv'
  <2>1. SUFFICES ASSUME Active(conn)
                 PROVE  /\ last_server_seq' <= sent_up_to[conn]
                        /\ sent_up_to[conn] <= Len(emitted)
                        /\ Covers(s2c[conn], last_server_seq', sent_up_to[conn])
                        /\ Within(s2c[conn], sent_up_to[conn])
                        /\ \A d \in dgs2c[conn] : d.seq <= sent_up_to[conn]
    BY <1>2 DEF SentInv, ClientOn, Active
  <2>2. /\ sent_up_to[conn] <= Len(emitted)
        /\ Covers(s2c[conn], last_server_seq, sent_up_to[conn])
        /\ Within(s2c[conn], sent_up_to[conn])
        /\ \A d \in dgs2c[conn] : d.seq <= sent_up_to[conn]
    BY <1>1, <2>1 DEF OutputInv, SentInv
  <2>3. last_server_seq' <= sent_up_to[conn]
    BY <1>3, <1>4, <1>6, <2>2
  <2>4. Covers(s2c[conn], last_server_seq', sent_up_to[conn])
    BY <1>1, <1>6, <1>8, <2>2, AdvanceQueue, SMTT(60)
  <2>5. QED
    BY <2>2, <2>3, <2>4
<1>11. QED
  BY <1>5, <1>7, <1>9, <1>10 DEF OutputInv

\* The head of the client's queue is at most the next message to write.
LEMMA HeadIsNext ==
    ASSUME TypeOK, OutputInv, conn \in Conns, ClientOn(conn), s2c[conn] # <<>>,
           Data(Head(s2c[conn]))
    PROVE  /\ IsEmitted(Head(s2c[conn])) /\ Head(s2c[conn]).seq <= last_server_seq + 1
           /\ Active(conn) => Head(s2c[conn]).seq <= sent_up_to[conn]
<1> DEFINE q == s2c[conn]
<1>1. q \in Seq(ChannelMessage) /\ last_server_seq \in Nat
  BY DEF TypeOK, WireTypeOK, ClientTypeOK
<1>2. Len(q) \in Nat \ {0} /\ Head(q) = q[1] /\ 1 \in 1 .. Len(q)
  BY <1>1, TailElements, SMTT(60)
<1>3. q[1].seq \in Nat
  BY <1>1, <1>2, ElementType
<1>4. IsEmitted(q[1])
  BY <1>2 DEF OutputInv, CarriedInv
<1>5. Active(conn) => q[1].seq <= sent_up_to[conn]
  BY <1>2 DEF OutputInv, SentInv, Within
<1>6. \A k \in last_server_seq + 1 .. q[1].seq - 1 : \E j \in 1 .. 1 - 1 : q[j].seq = k
  BY <1>2 DEF OutputInv, NoGapInv, NoGap
<1>7. q[1].seq <= last_server_seq + 1
  <2>1. SUFFICES ASSUME q[1].seq > last_server_seq + 1 PROVE FALSE
    BY <1>1, <1>3, SMTT(60)
  <2>2. last_server_seq + 1 \in last_server_seq + 1 .. q[1].seq - 1
    BY <1>1, <1>3, <2>1, SMTT(60)
  <2>3. QED
    BY <1>6, <2>2, SMTT(60)
<1>8. QED
  BY <1>2, <1>4, <1>5, <1>7

\* The client returns: the Exit it read is the last message, and all before it
\* have been written.
LEMMA ReturnOutput ==
    ASSUME TypeOK, OutputInv, phase = "attached", conn \in Conns, s2c[conn] # <<>>,
           Head(s2c[conn]).type = "Exit", ReturnCode(Head(s2c[conn])),
           s2c' = [s2c EXCEPT ![conn] = <<>>], dgs2c' = [dgs2c EXCEPT ![conn] = {}],
           UNCHANGED <<conn, resume_token, handler, exit_seq, task, seq, emitted, log, record>>
    PROVE  OutputInv'
<1> DEFINE m == Head(s2c[conn])
<1>1. /\ s2c \in Queues /\ dgs2c \in [Conns -> SUBSET ChannelMessage]
      /\ last_server_seq \in Nat /\ emitted \in Seq(ChannelMessage) /\ ClientOn(conn)
  BY DEF TypeOK, WireTypeOK, ClientTypeOK, SessionTypeOK, Queues, ClientOn
<1>2. m \in ChannelMessage /\ m.seq \in Nat
  BY <1>1, QueueHeadTail DEF ChannelMessage
<1>3. IsEmitted(m) /\ m.seq <= last_server_seq + 1
  BY <1>1, HeadIsNext DEF Data
<1>4. /\ phase' = "done" /\ code' = m.data /\ SendToServer(conn, <<Ack(m.seq)>>)
      /\ UNCHANGED <<last_server_seq, out, sent_stdin>>
  BY DEF ReturnCode
<1>5. Len(emitted) \in Nat /\ m.seq = Len(emitted) /\ m = emitted[Len(emitted)] /\ Len(emitted) # 0
  BY <1>1, <1>3, LenProperties, SMTT(60) DEF OutputInv, EmittedInv, IsEmitted
<1>6. last_server_seq = Len(emitted) - 1
  <2>1. /\ last_server_seq <= Len(emitted) /\ Len(out) = last_server_seq
        /\ \A i \in 1 .. last_server_seq : out[i] = emitted[i]
        /\ \A i \in 1 .. Len(out) : out[i].type \in Stdio
    BY DEF OutputInv, ClientInv, OutputExact
  <2>2. last_server_seq # Len(emitted)
    BY <1>5, <2>1, SMTT(60) DEF Stdio
  <2>3. QED
    <3> DEFINE k == Len(emitted)
    <3>1. k \in Nat /\ last_server_seq \in Nat /\ k <= last_server_seq + 1
      BY <1>1, <1>3, <1>5
    <3>2. last_server_seq <= k /\ last_server_seq # k
      BY <2>1, <2>2
    <3> HIDE DEF k
    <3>3. last_server_seq = k - 1
      BY <3>1, <3>2, SMTT(60)
    <3>4. QED
      BY <3>3 DEF k
<1>7. Finished'
  BY <1>1, <1>5, EmptySeq DEF Finished
<1> HIDE DEF m
<1>8. \A c \in Conns : ~ClientOn(c)'
  BY <1>4 DEF ClientOn
<1>9. EmittedInv' /\ SessionInv'
  BY EmittedFrame, SessionFrame DEF OutputInv
<1>10. RequestInv'
  <2>1. Ack(m.seq) \in ChannelMessage /\ Ack(m.seq).type = "Ack"
    BY <1>2, MsgType DEF Ack, Msg
  <2>2. /\ <<Ack(m.seq)>> \in Seq(ChannelMessage)
        /\ \A k \in 1 .. Len(<<Ack(m.seq)>>) : ~Request(<<Ack(m.seq)>>[k])
    BY <2>1, SingletonSeq, SMTT(60) DEF Request
  <2>3. \A d \in Conns : \A i \in 1 .. Len(c2s'[d]) :
           Request(c2s'[d][i]) => i \in 1 .. Len(c2s[d]) /\ c2s'[d][i] = c2s[d][i]
    BY <1>4, <2>2, RequestsKept
  <2>4. QED
    BY <1>8, <2>3, RequestsStay DEF OutputInv
<1>11. AckInv'
  BY <1>4 DEF AckInv
<1>12. CarriedInv'
  <2>1. \A c \in Conns : /\ s2c'[c] = IF c = conn THEN <<>> ELSE s2c[c]
                         /\ dgs2c'[c] = IF c = conn THEN {} ELSE dgs2c[c]
    BY <1>1 DEF Queues
  <2>2. QED
    BY <2>1, LeftCarried DEF OutputInv
<1>13. NoGapInv' /\ SentInv'
  BY <1>8 DEF NoGapInv, SentInv
<1>14. ClientInv'
  <2>1. OutputExact'
    BY <1>4 DEF OutputInv, ClientInv, OutputExact
  <2>2. ExitComplete' /\ ReplayPossible'
    BY <1>4, <1>5, <1>6, <1>7 DEF ExitComplete, ReplayPossible
  <2>3. QED
    BY <1>4, <2>1, <2>2 DEF OutputInv, ClientInv, Conns
<1>15. QED
  BY <1>9, <1>10, <1>11, <1>12, <1>13, <1>14 DEF OutputInv

LEMMA ClientRecvOutput ==
    ASSUME TypeOK, OutputInv, ClientRecv
    PROVE  OutputInv'
<1> DEFINE m == Head(s2c[conn])
<1>1. /\ conn \in Conns /\ phase = "attached" /\ ClientOn(conn) /\ s2c[conn] # <<>>
      /\ last_server_seq \in Nat /\ s2c \in Queues
      /\ dgs2c \in [Conns -> SUBSET ChannelMessage]
  BY DEF TypeOK, ClientTypeOK, WireTypeOK, Queues, ClientRecv, ClientOn
<1>2. m \in ChannelMessage /\ m.seq \in Nat
  BY <1>1, QueueHeadTail DEF ChannelMessage
<1>3. UNCHANGED <<conn, resume_token, handler, sent_up_to, exit_seq, task, seq, emitted, log,
                  record>>
  BY DEF ClientRecv, handlerVars, taskVars, daemonVars
<1>4. /\ s2c' = [s2c EXCEPT ![conn] = IF m.type = "Exit" THEN <<>> ELSE Tail(@)]
      /\ dgs2c' = [dgs2c EXCEPT ![conn] = IF m.type = "Exit" THEN {} ELSE @]
  BY DEF ClientRecv
<1>5. CASE m.type = "Exit"
  <2>1. ReturnCode(m)
    BY <1>5 DEF ClientRecv, Stdio
  <2>2. s2c' = [s2c EXCEPT ![conn] = <<>>] /\ dgs2c' = [dgs2c EXCEPT ![conn] = {}]
    BY <1>4, <1>5
  <2>3. QED
    BY <1>1, <1>3, <1>5, <2>1, <2>2, ReturnOutput
<1>6. CASE m.type # "Exit"
  <2>1. s2c' = [s2c EXCEPT ![conn] = Tail(@)]
    BY <1>4, <1>6
  <2>2. dgs2c' = dgs2c
    BY <1>1, <1>4, <1>6
  <2>3. Data(m) => m.type \in Stdio /\ IsEmitted(m) /\ m.seq <= last_server_seq + 1
                   /\ (Active(conn) => m.seq <= sent_up_to[conn])
    BY <1>1, <1>6, HeadIsNext DEF Data
  <2>4. CASE m.type \in Stdio /\ IsNext(m.seq, last_server_seq, TRUE)
    <3>1. WriteOutput(m)
      BY <2>4 DEF ClientRecv, Stdio
    <3>2. IsEmitted(m) /\ m.seq = last_server_seq + 1 /\ (Active(conn) => m.seq <= sent_up_to[conn])
      BY <1>1, <1>2, <2>3, <2>4, SMTT(60) DEF IsNext, Data
    <3>3. EmittedInv' /\ SessionInv' /\ RequestInv' /\ AckInv' /\ ClientInv'
      BY <1>1, <1>2, <1>3, <2>4, <3>1, <3>2, WriteOutputInv
    <3>4. last_server_seq' = m.seq
      BY <3>1 DEF WriteOutput
    <3>5. NoGapInv' /\ SentInv' /\ CarriedInv'
      BY <1>1, <1>2, <1>3, <2>1, <2>2, <3>2, <3>4, TakeFrame, SMTT(60)
    <3>6. QED
      BY <3>3, <3>5 DEF OutputInv
  <2>5. CASE ~(m.type \in Stdio /\ IsNext(m.seq, last_server_seq, TRUE))
    <3>1. /\ UNCHANGED <<phase, last_server_seq, out, code, c2s>>
          /\ UNCHANGED sent_stdin \/ RetainAfter(m.seq)
      BY <1>6, <2>5 DEF ClientRecv
    <3>2. Data(m) => m.seq <= last_server_seq
      BY <1>1, <1>2, <2>3, <2>5, SMTT(60) DEF IsNext
    <3>3. Active(conn) => last_server_seq <= sent_up_to[conn]
      BY <1>1 DEF OutputInv, SentInv
    <3>4. NoGapInv' /\ SentInv' /\ CarriedInv'
      BY <1>1, <1>3, <2>1, <2>2, <3>1, <3>2, <3>3, TakeFrame, SMTT(60)
    <3>5. EmittedInv' /\ SessionInv' /\ AckInv'
      BY <1>3, <3>1, EmittedFrame, SessionFrame, AckFrame DEF OutputInv
    <3>6. RequestInv'
      BY <1>1, <1>3, <3>1, AttachedRequests DEF OutputInv, ClientOn
    <3>7. \A i \in 1 .. Len(sent_stdin') : sent_stdin'[i].type \in {"Stdin", "StdinEof"}
      <4>1. \A i \in 1 .. Len(sent_stdin) : sent_stdin[i].type \in {"Stdin", "StdinEof"}
        BY DEF OutputInv, ClientInv
      <4>2. CASE RetainAfter(m.seq)
        <5>1. sent_stdin \in Seq(ChannelMessage) /\ Len(sent_stdin) \in Nat
          BY LenProperties DEF TypeOK, ClientTypeOK
        <5>2. PICK n \in 0 .. Len(sent_stdin) :
                 sent_stdin' = SubSeq(sent_stdin, n + 1, Len(sent_stdin))
          BY <4>2 DEF RetainAfter
        <5>3. \A i \in 1 .. Len(sent_stdin') : /\ sent_stdin'[i] = sent_stdin[n + i]
                                               /\ n + i \in 1 .. Len(sent_stdin)
          BY <5>1, <5>2, SubSeqProperties, SMTT(60)
        <5>4. QED
          BY <4>1, <5>3
      <4>3. QED
        BY <3>1, <4>1, <4>2
    <3>8. ClientInv'
      BY <1>3, <3>1, <3>7 DEF OutputInv, ClientInv, OutputExact, ExitComplete, ReplayPossible,
                              Finished
    <3>9. QED
      BY <3>4, <3>5, <3>6, <3>8 DEF OutputInv
  <2>6. QED
    BY <2>4, <2>5
<1>7. QED
  BY <1>5, <1>6

LEMMA ClientOutput == TypeOK /\ OutputInv /\ ClientNext => OutputInv'
  BY ConnectOutput, HandshakeStartedOutput, DropOutput, ReadStdinOutput, ClientRecvOutput,
     ClientRecvDatagramOutput DEF ClientNext

-----------------------------------------------------------------------------
(* The client: stdin                                                        *)

\* Steps that neither send stdin nor change what is on its way.
LEMMA QuietStdin ==
    ASSUME TypeOK, TypeOK', StdinInv, KeptInv',
           UNCHANGED <<client_seq, dropped, dgc2s, inbound, handler, task, stdin_applied,
                       child_in, stdin, record, registered, daemon, resume_token, conn>>,
           phase' = "attached" => UNCHANGED phase,
           \A c \in Conns : SameStdin(c2s[c], c2s'[c]),
           \A c \in Conns : From(s2c'[c], s2c[c])
    PROVE  StdinInv'
<1> USE DEF StdinInv
<1>1. \A c \in Conns : dgc2s'[c] \subseteq dgc2s[c]
  OBVIOUS
<1>2. From(inbound', inbound)
  BY FromSame
<1>3. FlightInv'
  BY <1>1, <1>2, FlightFrame
<1>4. AppliedInv' /\ ToldInv'
  BY AppliedFrame, ToldFrame
<1>5. \A c \in Conns : (Active(c)' => Active(c)) /\ (Pending(c)' => Pending(c))
  BY DEF Active, Pending
<1>6. NoSessionInv' /\ PendingInv'
  BY <1>5, NoSessionFrame, PendingFrame
<1>7. StoppedInv'
  BY DEF StoppedInv
<1>8. QueueInv' /\ FlowInv'
  BY <1>5, QueueFrame, FlowFrame
<1> QED
  BY <1>3, <1>4, <1>6, <1>7, <1>8

LEMMA ConnectStdin ==
    ASSUME TypeOK, TypeOK', OutputInv, StdinInv, Connect
    PROVE  StdinInv'
<1> USE DEF StdinInv
<1> DEFINE r == IF resume_token THEN Resume(last_server_seq) ELSE Exec
<1>1. /\ UNCHANGED <<client_seq, dropped, dgc2s, inbound, task, stdin_applied, child_in, stdin,
                     record, registered, daemon, resume_token, sent_stdin, s2c>>
      /\ phase' = "handshake" /\ conn' = conn + 1
      /\ handler' = [handler EXCEPT ![conn + 1] = "queued"]
      /\ c2s' = [c2s EXCEPT ![conn + 1] = <<r>>]
  BY DEF Connect, taskVars, daemonVars
<1>2. ~IsStdin(r) /\ r \in ChannelMessage
  <2>1. r \in ChannelMessage
    BY MsgType DEF TypeOK, ClientTypeOK
  <2> QED
    BY <2>1 DEF IsStdin, Resume, Exec, Msg
<1>3. conn + 1 \in Conns /\ conn + 1 > conn
  BY BoundsAssumption, SMTT(60) DEF Connect, TypeOK, ClientTypeOK, Conns
<1> HIDE DEF r
<1>4. c2s \in Queues /\ s2c \in Queues /\ stdin_applied \in Nat /\ handler \in [Conns ->
         {"none", "queued", "request", "pump", "ack", "select", "closed"}]
  BY DEF TypeOK, WireTypeOK, HandlerTypeOK, SessionTypeOK, Queues
<1>5. \A c \in Conns : c # conn + 1 => c2s'[c] = c2s[c] /\ handler'[c] = handler[c]
  BY <1>1, <1>4 DEF Queues
<1>6. c2s'[conn + 1] = <<r>> /\ handler'[conn + 1] = "queued" /\ s2c[conn + 1] = <<>>
  BY <1>1, <1>3, <1>4 DEF Queues, OutputInv, CarriedInv
<1>7. \A i \in 1 .. Len(<<r>>) : ~IsStdin(<<r>>[i])
  BY <1>2, SMTT(60)
<1>8. KeptInv' /\ AppliedInv' /\ QueueInv'
  <2>1. stdin_applied <= stdin_applied'
    BY <1>1, <1>4, SMTT(60)
  <2> QED
    BY <1>1, <2>1, KeptFrame, AppliedFrame, QueueFrame
<1>9. FlightInv'
  <2> SUFFICES ASSUME NEW c \in Conns, NEW i \in 1 .. Len(c2s'[c]), IsStdin(c2s'[c][i])
               PROVE  Sound(c2s'[c][i])
    BY <1>1 DEF FlightInv, Sound, IsStdin
  <2>1. c # conn + 1
    BY <1>6, <1>7
  <2> QED
    BY <1>5, <2>1 DEF FlightInv
<1>10. \A c \in Conns : From(s2c'[c], s2c[c])
  BY <1>1, FromSame
<1>11. ToldInv'
  BY <1>1, <1>10, ToldFrame
<1>12. \A c \in Conns : Active(c)' => Active(c) /\ c # conn + 1
  BY <1>5, <1>6 DEF Active
<1>13. NoSessionInv'
  BY <1>1, <1>10, <1>12, NoSessionFrame
<1>14. PendingInv'
  <2> SUFFICES ASSUME NEW c \in Conns, Pending(c)'
               PROVE  /\ \A i \in 1 .. Len(c2s'[c]) : ~IsStdin(c2s'[c][i])
                      /\ \A i \in 1 .. Len(s2c[c]) : s2c[c][i].type # "Started"
    BY <1>1 DEF PendingInv, IsStdin
  <2>1. CASE c = conn + 1
    <3>1. 1 .. Len(s2c[c]) = {}
      BY <1>6, <2>1, SMTT(60)
    <3> QED
      BY <1>6, <1>7, <2>1, <3>1
  <2>2. CASE c # conn + 1
    BY <1>5, <2>2 DEF PendingInv, Pending
  <2> QED
    BY <2>1, <2>2
<1>15. StoppedInv'
  BY <1>1 DEF StoppedInv
<1>16. FlowInv'
  <2>1. \A c \in Conns : Active(c)' => Active(c) /\ SameStdin(c2s[c], c2s'[c])
    BY <1>4, <1>5, <1>12, SameItself DEF Queues
  <2> QED
    BY <1>1, <2>1, FlowFrame
<1> QED
  BY <1>8, <1>9, <1>11, <1>13, <1>14, <1>15, <1>16

\* What the client has not read of the connection it drops.
LEMMA UnreadFrom ==
    ASSUME TypeOK, NEW c \in Conns, Unread(c)
    PROVE  \A d \in Conns : From(s2c'[d], s2c[d])
<1>1. \A d \in Conns : s2c'[d] = s2c[d] \/ s2c'[d] = <<>>
  BY DEF Unread, TypeOK, WireTypeOK
<1> QED
  BY <1>1, FromSame

\* A connection is lost, or run_exec gives up.
LEMMA LeaveStdin ==
    ASSUME TypeOK, TypeOK', StdinInv, HandshakeDenied \/ Disconnect \/ LocalError
    PROVE  StdinInv'
<1>1. UNCHANGED <<client_seq, dropped, dgc2s, inbound, handler, task, stdin_applied, child_in,
                  stdin, record, registered, daemon, resume_token, conn, sent_stdin, c2s>>
  BY DEF HandshakeDenied, Disconnect, LocalError, handlerVars, taskVars, daemonVars
<1>2. conn \in Conns /\ Unread(conn) /\ phase' # "attached"
  BY DEF HandshakeDenied, Disconnect, LocalError, Retry, TypeOK, ClientTypeOK
<1>3. \A c \in Conns : From(s2c'[c], s2c[c])
  BY <1>2, UnreadFrom
<1>4. \A c \in Conns : SameStdin(c2s[c], c2s'[c])
  BY <1>1, SameItself DEF TypeOK, WireTypeOK
<1>5. KeptInv'
  <2>1. stdin_applied <= stdin_applied'
    BY <1>1, SMTT(60) DEF TypeOK, SessionTypeOK
  <2> QED
    BY <1>1, <2>1, KeptFrame DEF StdinInv
<1> QED
  BY <1>1, <1>2, <1>3, <1>4, <1>5, QuietStdin

\* An acknowledgement sent to the daemon is no stdin.
LEMMA AckSame ==
    ASSUME TypeOK, NEW c \in Conns, NEW n \in Nat, SendToServer(c, <<Ack(n)>>)
    PROVE  \A d \in Conns : SameStdin(c2s[d], c2s'[d])
<1>1. <<Ack(n)>> \in Seq(ChannelMessage) /\ \A i \in 1 .. Len(<<Ack(n)>>) : ~IsStdin(<<Ack(n)>>[i])
  <2>1. Ack(n) \in ChannelMessage /\ ~IsStdin(Ack(n))
    BY MsgType DEF IsStdin, Ack, Msg
  <2> QED
    BY <2>1, SMTT(60)
<1>2. \A d \in Conns : c2s[d] \in Seq(ChannelMessage)
  BY DEF TypeOK, WireTypeOK
<1>3. \A d \in Conns : c2s'[d] = c2s[d] \/ c2s'[d] = c2s[d] \o <<Ack(n)>>
  BY DEF SendToServer, TypeOK, WireTypeOK
<1> QED
  BY <1>1, <1>2, <1>3, SameItself, SameAppended

LEMMA HoldsConcat ==
    ASSUME NEW q \in Seq(ChannelMessage), NEW ms \in Seq(ChannelMessage)
    PROVE  /\ \A i \in 0 .. Len(q) : \A k : Holds(q, i, k) => Holds(q \o ms, i, k)
           /\ \A k : Holds(q, Len(q), k) =>
                 \A i \in Len(q) .. Len(q) + Len(ms) : Holds(q \o ms, i, k)
           /\ \A j \in 0 .. Len(ms) : \A k : Holds(ms, j, k) => Holds(q \o ms, Len(q) + j, k)
<1>1. /\ Len(q \o ms) = Len(q) + Len(ms) /\ Len(q) \in Nat /\ Len(ms) \in Nat
      /\ \A i \in 1 .. Len(q) : (q \o ms)[i] = q[i]
      /\ \A i \in 1 .. Len(ms) : (q \o ms)[Len(q) + i] = ms[i]
  BY ConcatElements, SMTT(60)
<1>2. \A i \in 0 .. Len(q) : \A k : Holds(q, i, k) => Holds(q \o ms, i, k)
  BY <1>1, SMTT(60) DEF Holds
<1>3. ASSUME NEW k, Holds(q, Len(q), k), NEW i \in Len(q) .. Len(q) + Len(ms)
      PROVE  Holds(q \o ms, i, k)
  BY <1>1, <1>3, SMTT(60) DEF Holds
<1>4. ASSUME NEW j \in 0 .. Len(ms), NEW k, Holds(ms, j, k)
      PROVE  Holds(q \o ms, Len(q) + j, k)
  <2>1. PICK l \in 1 .. j : IsStdin(ms[l]) /\ ms[l].seq = k
    BY <1>4 DEF Holds
  <2>2. Len(q) + l \in 1 .. Len(q) + j /\ (q \o ms)[Len(q) + l] = ms[l]
    BY <1>1, <2>1, SMTT(60)
  <2> QED
    BY <2>1, <2>2 DEF Holds
<1> QED
  BY <1>2, <1>3, <1>4

\* r is ms behind q.
Behind(q, ms, r) ==
    /\ Len(r) = Len(q) + Len(ms) /\ Len(q) \in Nat
    /\ \A i \in 1 .. Len(q) : r[i] = q[i]
    /\ \A i \in 1 .. Len(ms) : r[Len(q) + i] = ms[i]

LEMMA ConcatBehind == \A q, ms \in Seq(ChannelMessage) : Behind(q, ms, q \o ms)
  BY ConcatElements, SMTT(60) DEF Behind

\* What the client sends behind its earlier frames leaves no gap, when every number
\* missing before a message is on its way already or earlier in the same flight.
LEMMA SendFlow ==
    ASSUME TypeOK, TypeOK', FlowInv, conn \in Conns, NEW ms \in Seq(ChannelMessage),
           SendToServer(conn, ms),
           UNCHANGED <<conn, task, inbound, stdin_applied, dropped, handler>>,
           NEW Sent, Sent = {k \in Nat : \/ Holds(c2s[conn], Len(c2s[conn]), k)
                                         \/ Queued(inbound, Len(inbound), k)},
           task = "running" /\ Active(conn) =>
              /\ \A j \in 1 .. Len(ms) : IsStdin(ms[j]) =>
                    \A k \in stdin_applied + 1 .. ms[j].seq - 1 :
                       k \in dropped \cup Sent \/ Holds(ms, j - 1, k)
              /\ \A k \in stdin_applied + 1 .. client_seq' :
                    k \in dropped \cup Sent \/ Holds(ms, Len(ms), k)
    PROVE  FlowInv'
<1>1. /\ \A c \in Conns : c2s[c] \in Seq(ChannelMessage) /\ Len(c2s[c]) \in Nat
      /\ Len(ms) \in Nat /\ stdin_applied \in Nat /\ client_seq' \in Nat
  BY LenProperties DEF TypeOK, WireTypeOK, SessionTypeOK, ClientTypeOK
<1> SUFFICES ASSUME task = "running", NEW c \in Conns, Active(c)
             PROVE  /\ \A i \in 1 .. Len(c2s'[c]) : IsStdin(c2s'[c][i]) =>
                          \A k \in stdin_applied + 1 .. c2s'[c][i].seq - 1 :
                             \/ k \in dropped \/ Holds(c2s'[c], i - 1, k)
                             \/ Queued(inbound, Len(inbound), k)
                    /\ conn = c /\ phase' = "attached" =>
                          \A k \in stdin_applied + 1 .. client_seq' :
                             \/ k \in dropped \/ Holds(c2s'[c], Len(c2s'[c]), k)
                             \/ Queued(inbound, Len(inbound), k)
  BY FlowNext DEF Active
<1>2. CASE c # conn
  <2>1. c2s'[c] = c2s[c]
    BY <1>2 DEF SendToServer, TypeOK, WireTypeOK
  <2> QED
    BY <1>2, <2>1 DEF FlowInv
<1>3. CASE c = conn
  <2> DEFINE q == c2s[conn]
  <2>1. c2s'[c] = q \o ms
    BY <1>3 DEF SendToServer, TypeOK, WireTypeOK, Active, ServerOn
  <2>2. /\ Len(q \o ms) = Len(q) + Len(ms) /\ Len(q) \in Nat
        /\ \A i \in 1 .. Len(q) : (q \o ms)[i] = q[i]
        /\ \A i \in 1 .. Len(ms) : (q \o ms)[Len(q) + i] = ms[i]
    <3>1. Behind(q, ms, q \o ms)
      BY <1>1, ConcatBehind
    <3> QED
      BY <3>1 DEF Behind
  <2>3. /\ \A i \in 0 .. Len(q) : \A k : Holds(q, i, k) => Holds(q \o ms, i, k)
        /\ \A k : Holds(q, Len(q), k) =>
              \A i \in Len(q) .. Len(q) + Len(ms) : Holds(q \o ms, i, k)
        /\ \A j \in 0 .. Len(ms) : \A k : Holds(ms, j, k) => Holds(q \o ms, Len(q) + j, k)
    BY <1>1, HoldsConcat
  <2>4. \A k : k \in Sent => Holds(q, Len(q), k) \/ Queued(inbound, Len(inbound), k)
    OBVIOUS
  <2>5. ASSUME NEW i \in 1 .. Len(q \o ms), IsStdin((q \o ms)[i]),
               NEW k \in stdin_applied + 1 .. (q \o ms)[i].seq - 1
        PROVE  \/ k \in dropped \/ Holds(q \o ms, i - 1, k)
               \/ Queued(inbound, Len(inbound), k)
    <3>1. CASE i \in 1 .. Len(q)
      <4>1. (q \o ms)[i] = q[i] /\ i - 1 \in 0 .. Len(q)
        BY <1>1, <2>2, <3>1, IndexBehind
      <4>2. \/ k \in dropped \/ Holds(q, i - 1, k)
            \/ Queued(inbound, Len(inbound), k)
        BY <2>5, <3>1, <4>1, <1>3 DEF FlowInv
      <4> QED
        BY <2>3, <4>1, <4>2
    <3>2. CASE i \notin 1 .. Len(q)
      <4>1. PICK j \in 1 .. Len(ms) :
               /\ i = Len(q) + j /\ j - 1 \in 0 .. Len(ms)
               /\ i - 1 = Len(q) + (j - 1) /\ i - 1 \in Len(q) .. Len(q) + Len(ms)
        BY <1>1, <2>2, <3>2, IndexBehind
      <4>2. (q \o ms)[i] = ms[j]
        BY <2>2, <4>1
      <4>3. k \in dropped \cup Sent \/ Holds(ms, j - 1, k)
        BY <2>5, <4>1, <4>2, <1>3
      <4> QED
        BY <2>3, <2>4, <4>1, <4>3
    <3> QED
      BY <3>1, <3>2
  <2>6. ASSUME NEW k \in stdin_applied + 1 .. client_seq'
        PROVE  \/ k \in dropped \/ Holds(q \o ms, Len(q \o ms), k)
               \/ Queued(inbound, Len(inbound), k)
    <3>1. k \in dropped \cup Sent \/ Holds(ms, Len(ms), k)
      BY <1>3
    <3>2. Len(ms) \in 0 .. Len(ms) /\ Len(q) + Len(ms) \in Len(q) .. Len(q) + Len(ms)
      BY <1>1, <2>2, IndexBehind
    <3> QED
      BY <2>2, <2>3, <2>4, <3>1, <3>2
  <2> QED
    BY <2>1, <2>5, <2>6
<1> QED
  BY <1>2, <1>3

\* Sound in the next state.
SoundNext(m) ==
    /\ m.seq \in 1 .. client_seq' /\ m.seq \notin dropped'
    /\ m.type = "Stdin" => m.data = m.seq

LEMMA SendFlight ==
    ASSUME TypeOK, FlightInv, conn \in Conns, NEW ms \in Seq(ChannelMessage),
           SendToServer(conn, ms), UNCHANGED inbound,
           \A m : Sound(m) => SoundNext(m),
           \A j \in 1 .. Len(ms) : IsStdin(ms[j]) => SoundNext(ms[j]),
           \A c \in Conns : \A m \in dgc2s'[c] : m \in dgc2s[c] \/ SoundNext(m)
    PROVE  FlightInv'
<1>1. ASSUME NEW c \in Conns, NEW i \in 1 .. Len(c2s'[c]), IsStdin(c2s'[c][i])
      PROVE  SoundNext(c2s'[c][i])
  <2>1. \/ i \in 1 .. Len(c2s[c]) /\ c2s'[c][i] = c2s[c][i]
        \/ \E k \in 1 .. Len(ms) : c2s'[c][i] = ms[k]
    BY SentToServer DEF TypeOK, WireTypeOK, Queues
  <2> QED
    BY <1>1, <2>1 DEF FlightInv
<1>2. ASSUME NEW c \in Conns, NEW m \in dgc2s'[c], IsStdin(m) PROVE SoundNext(m)
  BY <1>2 DEF FlightInv
<1>3. ASSUME NEW i \in 1 .. Len(inbound), IsStdin(inbound[i].msg) PROVE SoundNext(inbound[i].msg)
  BY <1>3 DEF FlightInv
<1>4. \A c \in Conns :
         /\ \A i \in 1 .. Len(c2s'[c]) : IsStdin(c2s'[c][i]) => SoundNext(c2s'[c][i])
         /\ \A m \in dgc2s'[c] : IsStdin(m) => SoundNext(m)
  BY <1>1, <1>2
<1> QED
  BY <1>3, <1>4 DEF FlightInv, SoundNext, Sound, IsStdin

LEMMA HandshakeStartedStdin ==
    ASSUME TypeOK, TypeOK', StdinInv, HandshakeStarted
    PROVE  StdinInv'
<1> USE DEF StdinInv
<1>1. /\ UNCHANGED <<client_seq, dropped, dgc2s, inbound, handler, task, stdin_applied,
                     child_in, stdin, record, registered, daemon, conn, sent_stdin>>
      /\ phase' = "attached" /\ resume_token' = TRUE /\ SendToServer(conn, sent_stdin)
      /\ s2c' = [s2c EXCEPT ![conn] = Tail(@)] /\ s2c[conn] # <<>>
      /\ Head(s2c[conn]).type = "Started"
  BY DEF HandshakeStarted, handlerVars, taskVars, daemonVars
<1>2. /\ conn \in Conns /\ sent_stdin \in Seq(ChannelMessage) /\ Len(sent_stdin) \in Nat
      /\ stdin_applied \in Nat /\ client_seq \in Nat /\ s2c \in Queues
      /\ \A c \in Conns : s2c[c] \in Seq(ChannelMessage)
  BY LenProperties DEF HandshakeStarted, TypeOK, ClientTypeOK, WireTypeOK, SessionTypeOK, Queues
<1>3. \A c \in Conns : From(s2c'[c], s2c[c])
  <2>1. \A c \in Conns : s2c'[c] = s2c[c] \/ (c = conn /\ s2c'[c] = Tail(s2c[conn]))
    BY <1>1, <1>2 DEF Queues
  <2> QED
    BY <1>1, <1>2, <2>1, FromSame, FromTail
<1>4. task # "none" /\ ~Pending(conn)
  <2>1. 1 \in 1 .. Len(s2c[conn]) /\ s2c[conn][1].type = "Started"
    BY <1>1, <1>2, HeadFirst
  <2> QED
    BY <1>2, <2>1 DEF NoSessionInv, PendingInv
<1>5. KeptInv' /\ AppliedInv' /\ ToldInv' /\ QueueInv'
  <2>1. stdin_applied <= stdin_applied'
    BY <1>1, <1>2, SMTT(60)
  <2> QED
    BY <1>1, <1>3, <2>1, KeptFrame, AppliedFrame, ToldFrame, QueueFrame
<1>6. FlightInv'
  <2>1. \A m : Sound(m) => SoundNext(m)
    BY <1>1 DEF Sound, SoundNext
  <2>2. \A j \in 1 .. Len(sent_stdin) : SoundNext(sent_stdin[j])
    BY <2>1 DEF KeptInv
  <2> QED
    BY <1>1, <1>2, <2>1, <2>2, SendFlight
<1>7. NoSessionInv' /\ StoppedInv'
  BY <1>1, <1>4 DEF NoSessionInv, StoppedInv
<1>8. PendingInv'
  <2> SUFFICES ASSUME NEW c \in Conns, Pending(c)
               PROVE  /\ c # conn
                      /\ \A i \in 1 .. Len(c2s'[c]) : ~IsStdin(c2s'[c][i])
                      /\ \A i \in 1 .. Len(s2c'[c]) : s2c'[c][i].type # "Started"
    BY <1>1 DEF PendingInv, IsStdin, Pending
  <2>1. c # conn
    BY <1>4
  <2>2. c2s'[c] = c2s[c] /\ s2c'[c] = s2c[c]
    BY <1>1, <1>2, <2>1 DEF SendToServer, TypeOK, WireTypeOK, Queues
  <2> QED
    BY <2>1, <2>2 DEF PendingInv
<1>9. FlowInv'
  <2> DEFINE Sent == {k \in Nat : \/ Holds(c2s[conn], Len(c2s[conn]), k)
                                  \/ Queued(inbound, Len(inbound), k)}
  <2>1. ASSUME NEW k \in stdin_applied + 1 .. client_seq, k \notin dropped
        PROVE  \E i \in 1 .. Len(sent_stdin) : sent_stdin[i].seq = k
    <3>1. k \in 1 .. client_seq /\ ~(k <= stdin_applied)
      BY <1>2, SMTT(60)
    <3> QED
      BY <2>1, <3>1 DEF KeptInv, StdinRetained
  <2>2. ASSUME NEW j \in 1 .. Len(sent_stdin),
               NEW k \in stdin_applied + 1 .. sent_stdin[j].seq - 1
        PROVE  k \in dropped \/ Holds(sent_stdin, j - 1, k)
    <3>1. sent_stdin[j].seq \in 1 .. client_seq
      BY DEF KeptInv, Sound
    <3>2. k \in stdin_applied + 1 .. client_seq
      BY <1>2, <3>1, SMTT(60)
    <3> SUFFICES ASSUME k \notin dropped PROVE Holds(sent_stdin, j - 1, k)
      OBVIOUS
    <3>3. PICK i \in 1 .. Len(sent_stdin) : sent_stdin[i].seq = k
      BY <2>1, <3>2
    <3>4. i \in 1 .. j - 1
      <4>1. i < j \/ i = j \/ j \in 1 .. i - 1
        BY <1>2, SMTT(60)
      <4>2. j \in 1 .. i - 1 => sent_stdin[j].seq < sent_stdin[i].seq
        BY DEF KeptInv, StdinRetained
      <4> QED
        BY <1>2, <3>1, <3>3, <4>1, <4>2, SMTT(60)
    <3> QED
      BY <3>3, <3>4 DEF Holds, KeptInv
  <2>3. ASSUME NEW k \in stdin_applied + 1 .. client_seq
        PROVE  k \in dropped \/ Holds(sent_stdin, Len(sent_stdin), k)
    BY <2>1 DEF Holds, KeptInv
  <2>4. /\ \A j \in 1 .. Len(sent_stdin) : IsStdin(sent_stdin[j]) =>
              \A k \in stdin_applied + 1 .. sent_stdin[j].seq - 1 :
                 k \in dropped \cup Sent \/ Holds(sent_stdin, j - 1, k)
        /\ \A k \in stdin_applied + 1 .. client_seq' :
              k \in dropped \cup Sent \/ Holds(sent_stdin, Len(sent_stdin), k)
    BY <1>1, <2>2, <2>3
  <2> HIDE DEF Sent
  <2>5. Sent = {k \in Nat : \/ Holds(c2s[conn], Len(c2s[conn]), k)
                            \/ Queued(inbound, Len(inbound), k)}
    BY DEF Sent
  <2> QED
    BY <1>1, <1>2, <2>4, <2>5, SendFlow
<1> QED
  BY <1>5, <1>6, <1>7, <1>8, <1>9

\* Reading stdin takes a number no message has.
LEMMA ReadNumbers ==
    ASSUME TypeOK, KeptInv, AppliedInv, client_seq' = client_seq + 1,
           dropped' \in {dropped, dropped \cup {client_seq + 1}}
    PROVE  /\ \A m : Sound(m) => SoundNext(m)
           /\ dropped' \subseteq 1 .. client_seq'
           /\ \A k \in 1 .. stdin_applied : k \in dropped' => k \in dropped
           /\ stdin_applied <= client_seq' /\ stdin_applied \in Nat /\ client_seq \in Nat
<1>1. stdin_applied <= client_seq /\ stdin_applied \in Nat /\ client_seq \in Nat
  BY DEF AppliedInv, TypeOK, SessionTypeOK, ClientTypeOK
<1>2. \A n \in 1 .. client_seq : n \in 1 .. client_seq' /\ n # client_seq + 1
  BY <1>1, SMTT(60)
<1>3. \A m : Sound(m) => SoundNext(m)
  BY <1>2 DEF Sound, SoundNext
<1>4. dropped' \subseteq 1 .. client_seq'
  <2>1. client_seq + 1 \in 1 .. client_seq'
    BY <1>1, SMTT(60)
  <2> QED
    BY <1>2, <2>1 DEF KeptInv
<1>5. \A k \in 1 .. stdin_applied : k # client_seq + 1
  BY <1>1, SMTT(60)
<1>6. stdin_applied <= client_seq'
  BY <1>1, SMTT(60)
<1> QED
  BY <1>1, <1>3, <1>4, <1>5, <1>6

\* Reading stdin changes nothing about what was applied.
LEMMA ReadApplied ==
    ASSUME TypeOK, AppliedInv, UNCHANGED <<child_in, stdin, stdin_applied, record>>,
           stdin_applied <= client_seq', dropped \subseteq dropped',
           \A k \in 1 .. stdin_applied : k \in dropped' => k \in dropped
    PROVE  AppliedInv'
<1>1. (1 .. stdin_applied) \ dropped' = (1 .. stdin_applied) \ dropped
  OBVIOUS
<1> QED
  BY <1>1 DEF AppliedInv, StdinInOrder

LEMMA ReadStdinSendFailsStdin ==
    ASSUME TypeOK, TypeOK', OutputInv, StdinInv, NEW eof \in BOOLEAN, ReadStdinSendFails(eof)
    PROVE  StdinInv'
<1> USE DEF StdinInv
<1>1. /\ UNCHANGED <<dgc2s, inbound, handler, task, stdin_applied, child_in, stdin, record,
                     registered, daemon, resume_token, conn, sent_stdin, c2s>>
      /\ client_seq' = client_seq + 1 /\ dropped' = dropped \cup {client_seq + 1}
      /\ conn \in Conns /\ Unread(conn) /\ phase' # "attached" /\ phase = "attached"
  BY DEF ReadStdinSendFails, Retry, handlerVars, taskVars, daemonVars, TypeOK, ClientTypeOK
<1>2. /\ \A m : Sound(m) => SoundNext(m)
      /\ dropped' \subseteq 1 .. client_seq'
      /\ \A k \in 1 .. stdin_applied : k \in dropped' => k \in dropped
      /\ stdin_applied <= client_seq' /\ stdin_applied \in Nat /\ client_seq \in Nat
  BY <1>1, ReadNumbers
<1>3. AppliedInv'
  BY <1>1, <1>2, ReadApplied
<1>4. KeptInv'
  <2>1. StdinRetained'
    <3>1. \A n \in 1 .. client_seq' : n \in 1 .. client_seq \/ n = client_seq + 1
      BY <1>1, <1>2, SMTT(60)
    <3> QED
      BY <1>1, <3>1 DEF KeptInv, StdinRetained
  <2>2. \A i \in 1 .. Len(sent_stdin) : IsStdin(sent_stdin[i]) /\ SoundNext(sent_stdin[i])
    BY <1>2 DEF KeptInv
  <2> QED
    BY <1>1, <1>2, <2>1, <2>2 DEF KeptInv, Sound, SoundNext, IsStdin
<1>5. FlightInv'
  <2>1. /\ \A c \in Conns :
              /\ \A i \in 1 .. Len(c2s[c]) : IsStdin(c2s[c][i]) => SoundNext(c2s[c][i])
              /\ \A m \in dgc2s[c] : IsStdin(m) => SoundNext(m)
        /\ \A i \in 1 .. Len(inbound) : IsStdin(inbound[i].msg) => SoundNext(inbound[i].msg)
    BY <1>2 DEF FlightInv
  <2> QED
    BY <1>1, <2>1 DEF FlightInv, Sound, SoundNext, IsStdin
<1>6. \A c \in Conns : From(s2c'[c], s2c[c])
  BY <1>1, UnreadFrom
<1>7. \A c \in Conns : SameStdin(c2s[c], c2s'[c])
  BY <1>1, SameItself DEF TypeOK, WireTypeOK
<1>8. \A c \in Conns : (Active(c)' => Active(c)) /\ (Pending(c)' => Pending(c))
  BY <1>1 DEF Active, Pending
<1>9. ToldInv' /\ PendingInv'
  BY <1>1, <1>6, <1>7, <1>8, ToldFrame, PendingFrame
<1>10. NoSessionInv' /\ StoppedInv'
  <2>1. task # "none"
    BY <1>1 DEF OutputInv, ClientInv, NoSessionInv
  <2> QED
    BY <1>1, <2>1 DEF NoSessionInv, StoppedInv
<1>11. QueueInv'
  <2>1. dropped \subseteq dropped'
    BY <1>1
  <2> QED
    BY <1>1, <2>1, SMTT(60) DEF QueueInv, Queued, IsStdin
<1>12. FlowInv'
  <2> SUFFICES ASSUME task = "running", NEW c \in Conns, Active(c)
               PROVE  \A i \in 1 .. Len(c2s[c]) : IsStdin(c2s[c][i]) =>
                         \A k \in stdin_applied + 1 .. c2s[c][i].seq - 1 :
                            \/ k \in dropped \/ Holds(c2s[c], i - 1, k)
                            \/ Queued(inbound, Len(inbound), k)
    BY <1>1, SMTT(60) DEF FlowInv, Holds, Queued, IsStdin, Active
  <2> QED
    BY DEF FlowInv
<1> QED
  BY <1>3, <1>4, <1>5, <1>9, <1>10, <1>11, <1>12

LEMMA ReadStdinStdin ==
    ASSUME TypeOK, TypeOK', OutputInv, StdinInv, NEW eof \in BOOLEAN, ReadStdin(eof)
    PROVE  StdinInv'
<1> USE DEF StdinInv
<1> DEFINE m == NextStdin(eof)
<1>1. /\ UNCHANGED <<inbound, handler, task, stdin_applied, child_in, stdin, record, registered,
                     daemon, resume_token, conn, s2c, dropped, phase>>
      /\ client_seq' = client_seq + 1 /\ conn \in Conns /\ phase = "attached"
      /\ SendToServer(conn, <<m>>) /\ sent_stdin' = Append(sent_stdin, m)
      /\ dgc2s' = IF ServerOn(conn)
                  THEN [dgc2s EXCEPT ![conn] = @ \cup Duplicates(conn, <<m>>)] ELSE dgc2s
  BY DEF ReadStdin, handlerVars, taskVars, daemonVars, TypeOK, ClientTypeOK
<1>2. /\ \A x : Sound(x) => SoundNext(x)
      /\ dropped' \subseteq 1 .. client_seq'
      /\ \A k \in 1 .. stdin_applied : k \in dropped' => k \in dropped
      /\ stdin_applied <= client_seq' /\ stdin_applied \in Nat /\ client_seq \in Nat
  BY <1>1, ReadNumbers
<1>3. AppliedInv'
  BY <1>1, <1>2, ReadApplied
<1>4. client_seq + 1 \in Nat /\ client_seq + 1 \in 1 .. client_seq' /\ client_seq + 1 \notin dropped
  <2>1. client_seq + 1 \in 1 .. client_seq' /\ client_seq + 1 \notin 1 .. client_seq
    BY <1>1, <1>2, SMTT(60)
  <2>2. client_seq + 1 \in Nat
    BY <1>2, SMTT(60)
  <2> QED
    BY <2>1, <2>2 DEF KeptInv
<1>5. m \in ChannelMessage /\ IsStdin(m) /\ m.seq = client_seq + 1
      /\ (m.type = "Stdin" => m.data = m.seq)
  BY <1>4, MsgType, SMTT(60) DEF NextStdin, Stdin, StdinEof, Msg, IsStdin
<1>6. SoundNext(m)
  BY <1>1, <1>4, <1>5 DEF SoundNext
<1> HIDE DEF m
<1>7. /\ <<m>> \in Seq(ChannelMessage) /\ Len(<<m>>) = 1 /\ <<m>>[1] = m
      /\ \A j \in 1 .. Len(<<m>>) : j = 1
  BY <1>5, SingletonSeq, SMTT(60)
<1>8. KeptInv'
  <2>1. sent_stdin \in Seq(ChannelMessage) /\ Len(sent_stdin) \in Nat
    BY LenProperties DEF TypeOK, ClientTypeOK
  <2> PICK n \in Nat : Len(sent_stdin) = n
    BY <2>1
  <2>2. /\ Len(sent_stdin') = n + 1 /\ sent_stdin'[n + 1] = m
        /\ \A i \in 1 .. n : sent_stdin'[i] = sent_stdin[i]
    <3>1. /\ Len(Append(sent_stdin, m)) = n + 1 /\ Append(sent_stdin, m)[n + 1] = m
          /\ \A i \in 1 .. n : Append(sent_stdin, m)[i] = sent_stdin[i]
      BY <1>5, <2>1, AppendElements, SMTT(60)
    <3> QED
      BY <1>1, <3>1
  <2>3. \A i \in 1 .. Len(sent_stdin') : i \in 1 .. n \/ i = n + 1
    BY <2>1, <2>2, SMTT(60)
  <2>4. \A i \in 1 .. Len(sent_stdin') : IsStdin(sent_stdin'[i]) /\ SoundNext(sent_stdin'[i])
    BY <1>2, <1>5, <1>6, <2>2, <2>3 DEF KeptInv
  <2>5. ASSUME NEW i \in 1 .. Len(sent_stdin'), NEW j \in 1 .. i - 1
        PROVE  sent_stdin'[j].seq < sent_stdin'[i].seq
    <3>1. j \in 1 .. n
      BY <2>1, <2>2, SMTT(60)
    <3>2. CASE i \in 1 .. n
      BY <2>2, <3>1, <3>2 DEF KeptInv, StdinRetained
    <3>3. CASE i = n + 1
      <4>1. sent_stdin[j].seq \in 1 .. client_seq
        BY <3>1 DEF KeptInv, Sound
      <4>2. sent_stdin[j].seq < client_seq + 1
        BY <1>2, <4>1, SMTT(60)
      <4> QED
        BY <1>5, <2>2, <3>1, <3>3, <4>2
    <3> QED
      BY <2>3, <3>2, <3>3
  <2>6. ASSUME NEW k \in 1 .. client_seq'
        PROVE  \/ k <= stdin_applied \/ k \in dropped
               \/ \E i \in 1 .. Len(sent_stdin') : sent_stdin'[i].seq = k
    <3>1. \A i \in 1 .. n + 1 : i \in 1 .. Len(sent_stdin')
      BY <2>2
    <3>2. n + 1 \in 1 .. n + 1 /\ \A i \in 1 .. n : i \in 1 .. n + 1
      BY <2>1, SMTT(60)
    <3>3. k \in 1 .. client_seq \/ k = client_seq + 1
      BY <1>1, <1>2, SMTT(60)
    <3> QED
      BY <1>5, <2>2, <3>1, <3>2, <3>3 DEF KeptInv, StdinRetained
  <2>7. StdinRetained'
    BY <1>1, <2>5, <2>6 DEF StdinRetained
  <2> QED
    BY <1>2, <2>4, <2>7 DEF KeptInv, SoundNext, Sound, IsStdin
<1>9. FlightInv'
  <2>1. \A d \in Duplicates(conn, <<m>>) : d = m
    BY <1>7, SMTT(60) DEF Duplicates
  <2>2. \A c \in Conns : \A d \in dgc2s'[c] : d \in dgc2s[c] \/ d = m
    BY <1>1, <2>1 DEF TypeOK, WireTypeOK
  <2> QED
    BY <1>1, <1>2, <1>6, <1>7, <2>2, SendFlight
<1>10. \A c \in Conns : From(s2c'[c], s2c[c])
  BY <1>1, FromSame
<1>11. ToldInv'
  BY <1>1, <1>10, ToldFrame
<1>12. NoSessionInv' /\ StoppedInv'
  <2>1. task # "none"
    BY <1>1 DEF OutputInv, ClientInv, NoSessionInv
  <2> QED
    BY <1>1, <2>1 DEF NoSessionInv, StoppedInv
<1>13. PendingInv'
  <2> SUFFICES ASSUME NEW c \in Conns, Pending(c)
               PROVE  /\ c # conn
                      /\ \A i \in 1 .. Len(c2s'[c]) : ~IsStdin(c2s'[c][i])
                      /\ \A i \in 1 .. Len(s2c[c]) : s2c[c][i].type # "Started"
    BY <1>1 DEF PendingInv, IsStdin, Pending
  <2>1. c # conn
    BY <1>1 DEF PendingInv
  <2>2. c2s'[c] = c2s[c]
    BY <1>1, <2>1 DEF SendToServer, TypeOK, WireTypeOK
  <2> QED
    BY <2>1, <2>2 DEF PendingInv
<1>14. QueueInv'
  BY <1>1, QueueFrame
<1>15. FlowInv'
  <2> DEFINE Sent == {k \in Nat : \/ Holds(c2s[conn], Len(c2s[conn]), k)
                                  \/ Queued(inbound, Len(inbound), k)}
  <2>1. ASSUME task = "running", Active(conn), NEW k \in stdin_applied + 1 .. client_seq
        PROVE  k \in dropped \cup Sent
    <3>1. k \in Nat
      BY <1>2, SMTT(60)
    <3> QED
      BY <1>1, <2>1, <3>1 DEF FlowInv
  <2>2. \A k \in stdin_applied + 1 .. m.seq - 1 : k \in stdin_applied + 1 .. client_seq
    BY <1>2, <1>5, SMTT(60)
  <2>3. Holds(<<m>>, Len(<<m>>), client_seq + 1)
    <3>1. 1 \in 1 .. Len(<<m>>)
      BY <1>7, SMTT(60)
    <3> QED
      BY <1>5, <1>7, <3>1 DEF Holds
  <2>4. \A k \in stdin_applied + 1 .. client_seq' :
           k \in stdin_applied + 1 .. client_seq \/ k = client_seq + 1
    BY <1>1, <1>2, SMTT(60)
  <2>5. task = "running" /\ Active(conn) =>
           /\ \A j \in 1 .. Len(<<m>>) : IsStdin(<<m>>[j]) =>
                 \A k \in stdin_applied + 1 .. <<m>>[j].seq - 1 :
                    k \in dropped \cup Sent \/ Holds(<<m>>, j - 1, k)
           /\ \A k \in stdin_applied + 1 .. client_seq' :
                 k \in dropped \cup Sent \/ Holds(<<m>>, Len(<<m>>), k)
    <3> SUFFICES ASSUME task = "running", Active(conn)
                 PROVE  /\ \A j \in 1 .. Len(<<m>>) :
                              \A k \in stdin_applied + 1 .. <<m>>[j].seq - 1 :
                                 k \in dropped \cup Sent
                        /\ \A k \in stdin_applied + 1 .. client_seq' :
                              k \in dropped \cup Sent \/ Holds(<<m>>, Len(<<m>>), k)
      OBVIOUS
    <3> HIDE DEF Sent
    <3> QED
      BY <1>7, <2>1, <2>2, <2>3, <2>4
  <2> HIDE DEF Sent
  <2>6. Sent = {k \in Nat : \/ Holds(c2s[conn], Len(c2s[conn]), k)
                            \/ Queued(inbound, Len(inbound), k)}
    BY DEF Sent
  <2> QED
    BY <1>1, <1>7, <2>5, <2>6, SendFlow
<1> QED
  BY <1>3, <1>8, <1>9, <1>11, <1>12, <1>13, <1>14, <1>15


\* Acknowledged stdin has been applied, so that forgetting it loses nothing.
LEMMA RetainKept ==
    ASSUME TypeOK, KeptInv, NEW acked \in Nat, acked <= stdin_applied, RetainAfter(acked),
           UNCHANGED <<client_seq, dropped, stdin_applied>>
    PROVE  KeptInv'
<1>1. PICK n \in 0 .. Len(sent_stdin) :
         /\ \A i \in 1 .. Len(sent_stdin) : sent_stdin[i].seq > acked <=> i > n
         /\ sent_stdin' = SubSeq(sent_stdin, n + 1, Len(sent_stdin))
  BY DEF RetainAfter, Unacked
<1>2. sent_stdin \in Seq(ChannelMessage) /\ Len(sent_stdin) \in Nat /\ n \in Nat
      /\ stdin_applied \in Nat /\ client_seq \in Nat
  BY LenProperties, SMTT(60) DEF TypeOK, ClientTypeOK, SessionTypeOK
<1>3. /\ Len(sent_stdin') = Len(sent_stdin) - n
      /\ \A i \in 1 .. Len(sent_stdin') :
            sent_stdin'[i] = sent_stdin[n + i] /\ n + i \in 1 .. Len(sent_stdin)
  <2>1. Suffix(sent_stdin, n, sent_stdin')
    BY <1>1, <1>2, SuffixElements
  <2>2. n <= Len(sent_stdin)
    BY <1>2, SMTT(60)
  <2> QED
    BY <2>1, <2>2 DEF Suffix
<1>4. \A i \in 1 .. Len(sent_stdin') :
         n + i \in 1 .. Len(sent_stdin) /\ sent_stdin'[i] = sent_stdin[n + i]
  BY <1>3
<1>5. \A i \in 1 .. Len(sent_stdin') : IsStdin(sent_stdin'[i]) /\ SoundNext(sent_stdin'[i])
  BY <1>4 DEF KeptInv, Sound, SoundNext
<1>6. ASSUME NEW i \in 1 .. Len(sent_stdin'), NEW j \in 1 .. i - 1
      PROVE  sent_stdin'[j].seq < sent_stdin'[i].seq
  <2>1. j \in 1 .. Len(sent_stdin') /\ n + j \in 1 .. (n + i) - 1
    BY <1>2, <1>3, SMTT(60)
  <2> QED
    BY <1>4, <2>1 DEF KeptInv, StdinRetained
<1>7. ASSUME NEW k \in 1 .. client_seq
      PROVE  \/ k <= stdin_applied \/ k \in dropped
             \/ \E i \in 1 .. Len(sent_stdin') : sent_stdin'[i].seq = k
  <2> SUFFICES ASSUME NEW i \in 1 .. Len(sent_stdin), sent_stdin[i].seq = k, ~(k <= stdin_applied)
               PROVE  \E j \in 1 .. Len(sent_stdin') : sent_stdin'[j].seq = k
    BY DEF KeptInv, StdinRetained
  <2>1. sent_stdin[i].seq > acked
    BY <1>2, SMTT(60)
  <2>2. i > n
    BY <1>1, <2>1
  <2>3. i - n \in 1 .. Len(sent_stdin') /\ n + (i - n) = i
    BY <1>2, <1>3, <2>2, SMTT(60)
  <2> QED
    BY <1>4, <2>3
<1>8. StdinRetained'
  BY <1>6, <1>7 DEF StdinRetained
<1> QED
  BY <1>5, <1>8 DEF KeptInv, Sound, SoundNext, IsStdin

LEMMA ClientRecvStdin ==
    ASSUME TypeOK, TypeOK', StdinInv, ClientRecv
    PROVE  StdinInv'
<1> DEFINE m == Head(s2c[conn])
<1>1. /\ UNCHANGED <<client_seq, dropped, dgc2s, inbound, handler, task, stdin_applied,
                     child_in, stdin, record, registered, daemon, resume_token, conn>>
      /\ s2c' = [s2c EXCEPT ![conn] = IF m.type = "Exit" THEN <<>> ELSE Tail(@)]
      /\ \/ WriteOutput(m) \/ ReturnCode(m)
         \/ m.type = "Ack" /\ RetainAfter(m.seq) /\ UNCHANGED <<phase, c2s>>
         \/ UNCHANGED <<phase, sent_stdin, c2s>>
      /\ conn \in Conns /\ phase = "attached" /\ s2c[conn] # <<>>
  BY DEF ClientRecv, handlerVars, taskVars, daemonVars, TypeOK, ClientTypeOK
<1>2. /\ \A c \in Conns : s2c[c] \in Seq(ChannelMessage) /\ c2s[c] \in Seq(ChannelMessage)
      /\ s2c \in Queues /\ stdin_applied \in Nat
  BY DEF TypeOK, WireTypeOK, SessionTypeOK, Queues
<1>3. /\ m \in ChannelMessage /\ m.seq \in Nat
      /\ 1 \in 1 .. Len(s2c[conn]) /\ m = s2c[conn][1]
  <2>1. m \in ChannelMessage
    BY <1>1, <1>2, QueueHeadTail
  <2>2. m.seq \in Nat
    BY <2>1 DEF ChannelMessage
  <2> QED
    BY <1>1, <1>2, <2>1, <2>2, HeadFirst
<1>4. \A c \in Conns : From(s2c'[c], s2c[c])
  <2>1. \A c \in Conns : \/ s2c'[c] = s2c[c] \/ s2c'[c] = <<>>
                         \/ c = conn /\ s2c'[c] = Tail(s2c[conn])
    BY <1>1, <1>2 DEF Queues
  <2> QED
    BY <1>1, <1>2, <2>1, FromSame, FromTail
<1> HIDE DEF m
<1>5. stdin_applied <= stdin_applied'
  BY <1>1, <1>2, SMTT(60)
<1>6. KeptInv' /\ (phase' = "attached" => UNCHANGED phase)
      /\ \A c \in Conns : SameStdin(c2s[c], c2s'[c])
  <2>1. CASE WriteOutput(m) \/ ReturnCode(m)
    <3>1. SendToServer(conn, <<Ack(m.seq)>>) /\ UNCHANGED sent_stdin
          /\ (phase' = "attached" => UNCHANGED phase)
      BY <1>1, <2>1 DEF WriteOutput, ReturnCode
    <3> QED
      BY <1>1, <1>3, <1>5, <3>1, AckSame, KeptFrame DEF StdinInv
  <2>2. CASE m.type = "Ack" /\ RetainAfter(m.seq) /\ UNCHANGED <<phase, c2s>>
    <3>1. m.seq <= stdin_applied
      BY <1>1, <1>3, <2>2 DEF StdinInv, ToldInv
    <3> QED
      BY <1>1, <1>2, <1>3, <2>2, <3>1, RetainKept, SameItself DEF StdinInv
  <2>3. CASE UNCHANGED <<phase, sent_stdin, c2s>>
    BY <1>1, <1>2, <1>5, <2>3, KeptFrame, SameItself DEF StdinInv
  <2> QED
    BY <1>1, <2>1, <2>2, <2>3
<1> QED
  BY <1>1, <1>4, <1>6, QuietStdin

LEMMA ClientRecvDatagramStdin ==
    ASSUME TypeOK, TypeOK', StdinInv, ClientRecvDatagram
    PROVE  StdinInv'
<1>1. /\ UNCHANGED <<client_seq, dropped, dgc2s, inbound, handler, task, stdin_applied,
                     child_in, stdin, record, registered, daemon, resume_token, conn, s2c>>
      /\ conn \in Conns
  BY DEF ClientRecvDatagram, handlerVars, taskVars, daemonVars, TypeOK, ClientTypeOK
<1>2. PICK m \in dgs2c[conn] : WriteOutput(m)
  BY DEF ClientRecvDatagram
<1>3. m.seq \in Nat /\ stdin_applied <= stdin_applied'
  <2>1. m \in ChannelMessage /\ stdin_applied \in Nat
    BY <1>1 DEF TypeOK, WireTypeOK, SessionTypeOK
  <2>2. m.seq \in Nat
    BY <2>1 DEF ChannelMessage
  <2> QED
    BY <1>1, <2>1, <2>2, SMTT(60)
<1>4. /\ SendToServer(conn, <<Ack(m.seq)>>) /\ UNCHANGED <<sent_stdin, phase>>
  BY <1>2 DEF WriteOutput
<1>5. \A c \in Conns : SameStdin(c2s[c], c2s'[c]) /\ From(s2c'[c], s2c[c])
  BY <1>1, <1>3, <1>4, AckSame, FromSame
<1>6. KeptInv'
  BY <1>1, <1>3, <1>4, KeptFrame DEF StdinInv
<1> QED
  BY <1>1, <1>4, <1>5, <1>6, QuietStdin

LEMMA ClientStdin == TypeOK /\ OutputInv /\ StdinInv /\ ClientNext => StdinInv'
<1> SUFFICES ASSUME TypeOK, OutputInv, StdinInv, ClientNext PROVE StdinInv'
  OBVIOUS
<1>1. TypeOK'
  BY ClientType
<1> QED
  BY <1>1, ConnectStdin, HandshakeStartedStdin, LeaveStdin, ReadStdinStdin,
     ReadStdinSendFailsStdin, ClientRecvStdin, ClientRecvDatagramStdin DEF ClientNext
=============================================================================
