------------------------- MODULE ExecAttachProofs ---------------------------
(***************************************************************************)
(* Every step of a connection handler preserves the types and the invariants*)
(* of an exec.                                                             *)
(***************************************************************************)
EXTENDS ExecAttach, ExecClientProofs

\* A leaf that names no prover is Zenon's; what needs arithmetic goes to SMT.
USE ZenonT(60)

-----------------------------------------------------------------------------
(* Types                                                                    *)

LEMMA ToClientType ==
    ASSUME s2c \in Queues, NEW c \in Conns, NEW ms \in Seq(ChannelMessage),
           SendToClient(c, ms)
    PROVE  s2c' \in Queues
<1>1. s2c[c] \o ms \in Seq(ChannelMessage)
  BY ConcatProperties DEF Queues
<1>2. QED
  BY <1>1 DEF SendToClient, Queues

LEMMA CloseType ==
    ASSUME WireTypeOK, HandlerTypeOK, NEW c \in Conns, Close(c), s2c' \in Queues,
           UNCHANGED dgs2c
    PROVE  WireTypeOK' /\ HandlerTypeOK'
<1>1. <<>> \in Seq(ChannelMessage) /\ {} \in SUBSET ChannelMessage
  BY EmptySeq
<1>2. WireTypeOK'
  BY <1>1 DEF WireTypeOK, Close, Goto, Queues
<1>3. HandlerTypeOK'
  BY DEF HandlerTypeOK, Close, Goto
<1>4. QED
  BY <1>2, <1>3

LEMMA AttachType ==
    ASSUME WireTypeOK, HandlerTypeOK, log \in Log, NEW c \in Conns, c2s[c] # <<>>,
           NEW n \in Nat, Attach(c, n), UNCHANGED <<dgc2s, dgs2c>>
    PROVE  WireTypeOK' /\ HandlerTypeOK'
<1>1. <<Started>> \in Seq(ChannelMessage) /\ Latest(log) \in Nat
  BY MsgType, SingletonSeq, LogType
<1>2. s2c' \in Queues
  BY <1>1, ToClientType DEF Attach, WireTypeOK, Queues
<1>3. c2s' \in Queues
  BY QueueHeadTail DEF Attach, WireTypeOK, Queues
<1>4. HandlerTypeOK'
  BY <1>1 DEF Attach, Goto, HandlerTypeOK
<1>5. QED
  BY <1>2, <1>3, <1>4 DEF WireTypeOK, Queues

LEMMA RequestType ==
    ASSUME TypeOK, NEW c \in Conns,
           Accept(c) \/ HandleExec(c) \/ HandleResume(c) \/ Deny(c) \/ Detach(c)
    PROVE  TypeOK'
<1> USE DEF TypeOK
<1>1. CASE Accept(c)
  <2>1. HandlerTypeOK'
    BY <1>1 DEF Accept, Goto, HandlerTypeOK
  <2>2. QED
    BY <1>1, <2>1, ClientUnchanged, WireUnchanged, SessionUnchanged, DaemonUnchanged
       DEF Accept
<1>2. CASE HandleExec(c)
  <2>1. WireTypeOK' /\ HandlerTypeOK'
    BY <1>2, AttachType DEF HandleExec
  <2>2. SessionTypeOK'
    BY <1>2 DEF HandleExec, SessionTypeOK
  <2>3. DaemonTypeOK'
    BY <1>2 DEF HandleExec, DaemonTypeOK
  <2>4. QED
    BY <1>2, <2>1, <2>2, <2>3, ClientUnchanged DEF HandleExec
<1>3. CASE HandleResume(c)
  <2>1. Head(c2s[c]).seq \in Nat
    BY <1>3, QueueHeadTail DEF HandleResume, WireTypeOK, Queues, ChannelMessage
  <2>2. WireTypeOK' /\ HandlerTypeOK'
    BY <1>3, <2>1, AttachType DEF HandleResume
  <2>3. QED
    BY <1>3, <2>2, ClientUnchanged, SessionUnchanged, DaemonUnchanged DEF HandleResume
<1>4. CASE Deny(c)
  <2>1. <<Denied>> \in Seq(ChannelMessage)
    BY MsgType, SingletonSeq
  <2>2. s2c' \in Queues
    BY <1>4, <2>1, ToClientType DEF Deny, WireTypeOK, Queues
  <2>3. WireTypeOK' /\ HandlerTypeOK'
    BY <1>4, <2>2, CloseType DEF Deny
  <2>4. QED
    BY <1>4, <2>3, ClientUnchanged, SessionUnchanged, DaemonUnchanged DEF Deny
<1>5. CASE Detach(c)
  <2>1. s2c' \in Queues
    BY <1>5 DEF Detach, WireTypeOK, Queues
  <2>2. WireTypeOK' /\ HandlerTypeOK'
    BY <1>5, <2>1, CloseType DEF Detach
  <2>3. QED
    BY <1>5, <2>2, ClientUnchanged, SessionUnchanged, DaemonUnchanged DEF Detach
<1>6. QED
  BY <1>1, <1>2, <1>3, <1>4, <1>5

LEMMA SendType ==
    ASSUME TypeOK, NEW c \in Conns,
           Pump(c) \/ AckStdin(c) \/ Changed(c) \/ KeepaliveTick(c)
    PROVE  TypeOK'
<1> USE DEF TypeOK
<1>1. CASE Pump(c)
  <2> DEFINE ms == After(log, sent_up_to[c])
  <2>1. sent_up_to[c] \in Nat
    BY DEF HandlerTypeOK
  <2>2. ms \in Seq(ChannelMessage) /\ Len(ms) \in Nat
    BY <2>1, MsgType, LogType, LenProperties
  <2>3. s2c' \in Queues
    BY <1>1, <2>2, ToClientType DEF Pump, WireTypeOK, Queues
  <2>4. Duplicates(c, ms) \subseteq ChannelMessage
    BY <2>2, DuplicatesType
  <2>5. WireTypeOK'
    <3> HIDE DEF ms
    <3>1. dgs2c' = IF ClientOn(c) THEN [dgs2c EXCEPT ![c] = @ \cup Duplicates(c, ms)]
                                  ELSE dgs2c
      BY <1>1 DEF Pump, ms
    <3>2. UNCHANGED <<c2s, dgc2s>>
      BY <1>1 DEF Pump
    <3>3. QED
      BY <2>3, <2>4, <3>1, <3>2 DEF WireTypeOK, Queues
  <2>6. ms # <<>> => ms[Len(ms)].seq \in Nat
    <3> HIDE DEF ms
    <3>1. SUFFICES ASSUME ms # <<>> PROVE ms[Len(ms)].seq \in Nat
      OBVIOUS
    <3>2. Len(ms) \in 1 .. Len(ms)
      BY <2>2, <3>1, EmptySeq, SMTT(60)
    <3>3. ms[Len(ms)] \in ChannelMessage
      BY <2>2, <3>2, ElementOfSeq
    <3>4. QED
      BY <3>3 DEF ChannelMessage
  <2>7. HandlerTypeOK'
    <3>1. sent_up_to' = [sent_up_to EXCEPT ![c] = @ + Len(ms)]
      BY <1>1 DEF Pump
    <3>2. exit_seq' = IF ms # <<>> /\ ms[Len(ms)].type = "Exit"
                      THEN [exit_seq EXCEPT ![c] = ms[Len(ms)].seq] ELSE exit_seq
      BY <1>1 DEF Pump
    <3>3. handler' = [handler EXCEPT ![c] = "ack"] /\ UNCHANGED <<acked_stdin, seen>>
      BY <1>1 DEF Pump, Goto
    <3> HIDE DEF ms
    <3>4. QED
      BY <2>2, <2>6, <3>1, <3>2, <3>3, SMTT(60) DEF HandlerTypeOK
  <2>8. QED
    BY <1>1, <2>5, <2>7, ClientUnchanged, SessionUnchanged, DaemonUnchanged DEF Pump
<1>2. CASE AckStdin(c)
  <2>1. stdin_applied \in Nat
    BY DEF SessionTypeOK
  <2> DEFINE ms == IF stdin_applied > acked_stdin[c] THEN <<Ack(stdin_applied)>> ELSE <<>>
  <2>2. ms \in Seq(ChannelMessage)
    BY <2>1, EmptySeq, MsgType, SingletonSeq
  <2>3. s2c' \in Queues
    <3>1. SendToClient(c, ms)
      BY <1>2 DEF AckStdin
    <3> HIDE DEF ms
    <3>2. QED
      BY <2>2, <3>1, ToClientType DEF WireTypeOK, Queues
  <2>4. WireTypeOK'
    BY <1>2, <2>3 DEF AckStdin, WireTypeOK, Queues
  <2>5. HandlerTypeOK'
    BY <1>2, <2>1 DEF AckStdin, Goto, HandlerTypeOK
  <2>6. QED
    BY <1>2, <2>4, <2>5, ClientUnchanged, SessionUnchanged, DaemonUnchanged DEF AckStdin
<1>3. CASE Changed(c) \/ KeepaliveTick(c)
  <2>1. Latest(log) \in Nat
    BY MsgType, LogType
  <2>2. HandlerTypeOK'
    BY <1>3, <2>1 DEF Changed, KeepaliveTick, Goto, HandlerTypeOK
  <2>3. QED
    BY <1>3, <2>2, ClientUnchanged, WireUnchanged, SessionUnchanged, DaemonUnchanged
       DEF Changed, KeepaliveTick
<1>4. QED
  BY <1>1, <1>2, <1>3

LEMMA ForwardType ==
    ASSUME inbound \in Seq(Inputs), NEW kind \in {"Message", "Datagram"},
           NEW m \in ChannelMessage, Forward(kind, m)
    PROVE  inbound' \in Seq(Inputs)
<1>1. [kind |-> kind, msg |-> m] \in Inputs
  BY DEF Inputs
<1>2. Append(inbound, [kind |-> kind, msg |-> m]) \in Seq(Inputs)
  BY <1>1, AppendProperties
<1>3. QED
  BY <1>2 DEF Forward

LEMMA RecvType ==
    ASSUME TypeOK, NEW c \in Conns, RecvAck(c) \/ RecvFrame(c) \/ RecvDatagram(c)
    PROVE  TypeOK'
<1> USE DEF TypeOK
<1>1. c2s[c] # <<>> => /\ Head(c2s[c]) \in ChannelMessage /\ Head(c2s[c]).seq \in Nat
                       /\ [c2s EXCEPT ![c] = Tail(@)] \in Queues
  BY QueueHeadTail DEF WireTypeOK, Queues, ChannelMessage
<1>2. CASE RecvAck(c)
  <2>1. log' \in Log
    BY <1>1, <1>2, LogType DEF RecvAck
  <2>2. WireTypeOK' /\ HandlerTypeOK'
    <3>1. s2c' \in Queues /\ UNCHANGED <<s2c, dgs2c>>
      BY <1>2 DEF RecvAck, WireTypeOK, Queues
    <3>2. CASE ExitAcked(c, Head(c2s[c]).seq)
      BY <1>2, <3>1, <3>2, CloseType DEF RecvAck
    <3>3. CASE ~ExitAcked(c, Head(c2s[c]).seq)
      <4>1. /\ Goto(c, "pump") /\ c2s' = [c2s EXCEPT ![c] = Tail(@)]
            /\ UNCHANGED <<dgc2s, sent_up_to, acked_stdin, exit_seq, seen>>
        BY <1>2, <3>3 DEF RecvAck
      <4>2. WireTypeOK'
        BY <1>1, <1>2, <3>1, <4>1 DEF WireTypeOK, Queues, RecvAck
      <4>3. HandlerTypeOK'
        BY <4>1 DEF Goto, HandlerTypeOK
      <4>4. QED
        BY <4>2, <4>3
    <3>4. QED
      BY <3>2, <3>3
  <2>3. registered' \in BOOLEAN
    BY <1>2 DEF RecvAck, DaemonTypeOK
  <2>4. DaemonTypeOK'
    BY <1>2, <2>3 DEF RecvAck, DaemonTypeOK
  <2>5. QED
    BY <1>2, <2>1, <2>2, <2>4, ClientUnchanged, SessionUnchanged DEF RecvAck
<1>3. CASE RecvFrame(c)
  <2>1. inbound' \in Seq(Inputs)
    BY <1>1, <1>3, ForwardType DEF RecvFrame
  <2>2. WireTypeOK'
    BY <1>1, <1>3 DEF RecvFrame, WireTypeOK, Queues
  <2>3. HandlerTypeOK'
    BY <1>3 DEF RecvFrame, Goto, HandlerTypeOK
  <2>4. QED
    BY <1>3, <2>1, <2>2, <2>3, ClientUnchanged, SessionUnchanged, DaemonUnchanged
       DEF RecvFrame
<1>4. CASE RecvDatagram(c)
  <2>1. PICK m \in dgc2s[c] : Forward("Datagram", m) /\ dgc2s' = [dgc2s EXCEPT ![c] = @ \ {m}]
    BY <1>4 DEF RecvDatagram
  <2>2. m \in ChannelMessage
    BY DEF WireTypeOK
  <2>3. inbound' \in Seq(Inputs)
    BY <2>1, <2>2, ForwardType
  <2>4. WireTypeOK'
    BY <1>4, <2>1 DEF RecvDatagram, WireTypeOK
  <2>5. HandlerTypeOK'
    BY <1>4 DEF RecvDatagram, Goto, HandlerTypeOK
  <2>6. QED
    BY <1>4, <2>3, <2>4, <2>5, ClientUnchanged, SessionUnchanged, DaemonUnchanged
       DEF RecvDatagram
<1>5. QED
  BY <1>2, <1>3, <1>4

LEMMA HandlerType == TypeOK /\ HandlerNext => TypeOK'
  BY RequestType, SendType, RecvType DEF HandlerNext

-----------------------------------------------------------------------------
(* Output: what is sent and taken                                           *)

LEMMA AtMost ==
    ASSUME NEW a \in Nat, NEW b \in Nat, NEW k \in Nat, a <= b, b <= k
    PROVE  a <= k
  BY SMTT(60)

\* The frames of a queue to the client after a send.
LEMMA SentToClient ==
    ASSUME s2c \in Queues, NEW c \in Conns, NEW ms \in Seq(ChannelMessage),
           SendToClient(c, ms)
    PROVE  /\ \A d \in Conns : ~(d = c /\ ClientOn(c)) => s2c'[d] = s2c[d]
           /\ ClientOn(c) =>
                /\ Len(s2c'[c]) = Len(s2c[c]) + Len(ms)
                /\ Len(s2c[c]) \in Nat /\ Len(ms) \in Nat
                /\ \A i \in 1 .. Len(s2c[c]) : s2c'[c][i] = s2c[c][i]
                /\ \A i \in 1 .. Len(ms) : s2c'[c][Len(s2c[c]) + i] = ms[i]
<1>1. \A d \in Conns : ~(d = c /\ ClientOn(c)) => s2c'[d] = s2c[d]
  BY DEF SendToClient, Queues
<1>2. ASSUME ClientOn(c) PROVE s2c'[c] = s2c[c] \o ms /\ s2c[c] \in Seq(ChannelMessage)
  BY <1>2 DEF SendToClient, Queues
<1>3. ASSUME ClientOn(c)
      PROVE  /\ Len(s2c'[c]) = Len(s2c[c]) + Len(ms)
             /\ Len(s2c[c]) \in Nat /\ Len(ms) \in Nat
             /\ \A i \in 1 .. Len(s2c[c]) : s2c'[c][i] = s2c[c][i]
             /\ \A i \in 1 .. Len(ms) : s2c'[c][Len(s2c[c]) + i] = ms[i]
  <2> DEFINE q == s2c[c]
  <2>1. s2c'[c] = q \o ms /\ q \in Seq(ChannelMessage)
    BY <1>2, <1>3
  <2> HIDE DEF q
  <2>2. /\ Len(q \o ms) = Len(q) + Len(ms) /\ Len(q) \in Nat /\ Len(ms) \in Nat
        /\ \A i \in 1 .. Len(q) : (q \o ms)[i] = q[i]
        /\ \A i \in 1 .. Len(ms) : (q \o ms)[Len(q) + i] = ms[i]
    BY <2>1, ConcatElements, SMTT(60)
  <2>3. QED
    BY <2>1, <2>2 DEF q
<1>4. QED
  BY <1>1, <1>3

\* Frames that carry no output change nothing.
LEMMA PushControl ==
    ASSUME NEW q \in Seq(ChannelMessage), NEW ms \in Seq(ChannelMessage),
           \A i \in 1 .. Len(ms) : ~Data(ms[i]), NEW a \in Nat, NEW m \in Nat
    PROVE  /\ NoGap(q, a) => NoGap(q \o ms, a)
           /\ Covers(q, a, m) => Covers(q \o ms, a, m)
           /\ Within(q, m) => Within(q \o ms, m)
<1>1. /\ Len(q \o ms) = Len(q) + Len(ms) /\ Len(q) \in Nat /\ Len(ms) \in Nat
      /\ \A i \in 1 .. Len(q) : (q \o ms)[i] = q[i]
      /\ \A i \in 1 .. Len(ms) : (q \o ms)[Len(q) + i] = ms[i]
  BY ConcatElements, SMTT(60)
<1>2. \A i \in 1 .. Len(q \o ms) : Data((q \o ms)[i]) => i \in 1 .. Len(q)
  <2>1. SUFFICES ASSUME NEW i \in 1 .. Len(q \o ms), i \notin 1 .. Len(q)
                 PROVE  ~Data((q \o ms)[i])
    OBVIOUS
  <2>2. i - Len(q) \in 1 .. Len(ms) /\ Len(q) + (i - Len(q)) = i
    BY <1>1, <2>1, SMTT(60)
  <2>3. QED
    BY <1>1, <2>2
<1>3. NoGap(q, a) => NoGap(q \o ms, a)
  <2>1. SUFFICES ASSUME NoGap(q, a), NEW i \in 1 .. Len(q \o ms), Data((q \o ms)[i]),
                        NEW k \in a + 1 .. (q \o ms)[i].seq - 1
                 PROVE  \E j \in 1 .. i - 1 : Data((q \o ms)[j]) /\ (q \o ms)[j].seq = k
    BY DEF NoGap
  <2>2. i \in 1 .. Len(q) /\ (q \o ms)[i] = q[i]
    BY <1>1, <1>2, <2>1
  <2>3. PICK j \in 1 .. i - 1 : Data(q[j]) /\ q[j].seq = k
    BY <2>1, <2>2 DEF NoGap
  <2>4. j \in 1 .. Len(q)
    BY <1>1, <2>2, SMTT(60)
  <2>5. QED
    BY <1>1, <2>3, <2>4
<1>4. Covers(q, a, m) => Covers(q \o ms, a, m)
  <2>1. \A j \in 1 .. Len(q) : j \in 1 .. Len(q \o ms) /\ (q \o ms)[j] = q[j]
    BY <1>1, SMTT(60)
  <2>2. QED
    BY <2>1 DEF Covers
<1>5. Within(q, m) => Within(q \o ms, m)
  BY <1>1, <1>2 DEF Within
<1>6. QED
  BY <1>3, <1>4, <1>5

\* The messages after number k are sent by one that has sent all up to k.
LEMMA PushData ==
    ASSUME NEW q \in Seq(ChannelMessage), NEW ms \in Seq(ChannelMessage),
           NEW a \in Nat, NEW k \in Nat, a <= k,
           \A i \in 1 .. Len(ms) : Data(ms[i]) /\ ms[i].seq = k + i,
           NoGap(q, a), Covers(q, a, k), Within(q, k)
    PROVE  /\ NoGap(q \o ms, a)
           /\ Covers(q \o ms, a, k + Len(ms))
           /\ Within(q \o ms, k + Len(ms))
<1> DEFINE r == q \o ms
<1>1. /\ Len(r) = Len(q) + Len(ms) /\ Len(q) \in Nat /\ Len(ms) \in Nat
      /\ \A i \in 1 .. Len(q) : r[i] = q[i]
      /\ \A i \in 1 .. Len(ms) : r[Len(q) + i] = ms[i]
  BY ConcatElements, SMTT(60)
<1> HIDE DEF r
<1>2. \A i \in 1 .. Len(r) : i \notin 1 .. Len(q) =>
         /\ i - Len(q) \in 1 .. Len(ms) /\ r[i] = ms[i - Len(q)]
         /\ Data(r[i]) /\ r[i].seq = k + (i - Len(q))
  <2>1. SUFFICES ASSUME NEW i \in 1 .. Len(r), i \notin 1 .. Len(q)
                 PROVE  /\ i - Len(q) \in 1 .. Len(ms) /\ r[i] = ms[i - Len(q)]
                        /\ Data(r[i]) /\ r[i].seq = k + (i - Len(q))
    OBVIOUS
  <2>2. i - Len(q) \in 1 .. Len(ms) /\ Len(q) + (i - Len(q)) = i
    BY <1>1, <2>1, SMTT(60)
  <2>3. r[i] = ms[i - Len(q)]
    BY <1>1, <2>2
  <2>4. QED
    BY <2>2, <2>3
\* A number up to k is in q, one above k is where the new messages put it.
<1>3. ASSUME NEW n \in a + 1 .. k + Len(ms)
      PROVE  \E j \in 1 .. Len(r) : /\ Data(r[j]) /\ r[j].seq = n
                                    /\ j <= Len(q) \/ j = Len(q) + (n - k)
  <2>1. CASE n <= k
    <3>1. n \in a + 1 .. k
      BY <2>1, SMTT(60)
    <3>2. PICK j \in 1 .. Len(q) : Data(q[j]) /\ q[j].seq = n
      BY <3>1 DEF Covers
    <3>3. j \in 1 .. Len(r) /\ r[j] = q[j] /\ j <= Len(q)
      BY <1>1, SMTT(60)
    <3>4. QED
      BY <3>2, <3>3
  <2>2. CASE n > k
    <3>1. n - k \in 1 .. Len(ms) /\ Len(q) + (n - k) \in 1 .. Len(r) /\ k + (n - k) = n
      BY <1>1, <2>2, SMTT(60)
    <3>2. r[Len(q) + (n - k)] = ms[n - k] /\ ms[n - k].seq = n /\ Data(ms[n - k])
      BY <1>1, <3>1
    <3>3. QED
      BY <3>1, <3>2
  <2>3. QED
    BY <1>1, <2>1, <2>2, SMTT(60)
<1>4. NoGap(r, a)
  <2>1. SUFFICES ASSUME NEW i \in 1 .. Len(r), Data(r[i]), NEW n \in a + 1 .. r[i].seq - 1
                 PROVE  \E j \in 1 .. i - 1 : Data(r[j]) /\ r[j].seq = n
    BY DEF NoGap
  <2>2. CASE i \in 1 .. Len(q)
    <3>1. r[i] = q[i]
      BY <1>1, <2>2
    <3>2. PICK j \in 1 .. i - 1 : Data(q[j]) /\ q[j].seq = n
      BY <2>1, <2>2, <3>1 DEF NoGap
    <3>3. j \in 1 .. Len(q)
      BY <1>1, <2>2, SMTT(60)
    <3>4. r[j] = q[j]
      BY <1>1, <3>3
    <3>5. QED
      BY <3>2, <3>4
  <2>3. CASE i \notin 1 .. Len(q)
    <3>1. i - Len(q) \in 1 .. Len(ms) /\ r[i].seq = k + (i - Len(q))
      BY <1>2, <2>3
    <3>2. n \in a + 1 .. k + Len(ms) /\ n < k + (i - Len(q))
      BY <1>1, <3>1, SMTT(60)
    <3>3. PICK j \in 1 .. Len(r) : /\ Data(r[j]) /\ r[j].seq = n
                                   /\ j <= Len(q) \/ j = Len(q) + (n - k)
      BY <1>3, <3>2
    <3>4. j \in 1 .. i - 1
      BY <1>1, <3>1, <3>2, <3>3, SMTT(60)
    <3>5. QED
      BY <3>3, <3>4
  <2>4. QED
    BY <2>2, <2>3
<1>5. Covers(r, a, k + Len(ms))
  BY <1>3 DEF Covers
<1>6. Within(r, k + Len(ms))
  <2>1. SUFFICES ASSUME NEW i \in 1 .. Len(r), Data(r[i]) PROVE r[i].seq <= k + Len(ms)
    BY DEF Within
  <2>2. CASE i \in 1 .. Len(q)
    <3>1. r[i] = q[i] /\ q[i].seq \in Nat
      BY <1>1, <2>2, ElementType
    <3>2. QED
      BY <1>1, <2>1, <2>2, <3>1, SMTT(60) DEF Within
  <2>3. CASE i \notin 1 .. Len(q)
    BY <1>1, <1>2, <2>3, SMTT(60)
  <2>4. QED
    BY <2>2, <2>3
<1>7. QED
  BY <1>4, <1>5, <1>6 DEF r

\* A handler past its request has none left; one that takes the first frame of
\* its connection leaves none.
LEMMA NoRequests ==
    ASSUME TypeOK, OutputInv, NEW c \in Conns
    PROVE  /\ handler[c] \notin {"queued", "request"} =>
                \A i \in 1 .. Len(c2s[c]) : ~Request(c2s[c][i])
           /\ c2s[c] # <<>> => \A i \in 1 .. Len(Tail(c2s[c])) : ~Request(Tail(c2s[c])[i])
<1>1. c2s[c] \in Seq(ChannelMessage)
  BY DEF TypeOK, WireTypeOK
<1>2. \A i \in 1 .. Len(c2s[c]) : Request(c2s[c][i]) => i = 1 /\ handler[c] \in {"queued", "request"}
  BY DEF OutputInv, RequestInv
<1>3. c2s[c] # <<>> => \A i \in 1 .. Len(Tail(c2s[c])) :
                          Tail(c2s[c])[i] = c2s[c][i + 1] /\ i + 1 \in 1 .. Len(c2s[c])
  BY <1>1, TailElements
<1>4. QED
  BY <1>2, <1>3, SMTT(60)

\* The frames of other connections stay, those of c become fewer or stay.
FramesFewer(c) ==
    /\ \A d \in Conns : d # c => c2s'[d] = c2s[d] /\ handler'[d] = handler[d]
    /\ \A i \in 1 .. Len(c2s'[c]) : \E j \in 1 .. Len(c2s[c]) : c2s'[c][i] = c2s[c][j]

LEMMA FewerAcks ==
    ASSUME AckInv, NEW c \in Conns, FramesFewer(c), UNCHANGED <<last_server_seq, phase>>
    PROVE  AckInv'
  BY SMTT(60) DEF AckInv, FramesFewer

LEMMA FewerRequests ==
    ASSUME RequestInv, NEW c \in Conns, FramesFewer(c),
           \A i \in 1 .. Len(c2s'[c]) : ~Request(c2s'[c][i]),
           UNCHANGED <<conn, phase, last_server_seq>>,
           \A d \in Conns : d # c => s2c'[d] = s2c[d] /\ dgs2c'[d] = dgs2c[d],
           \/ task = "none" => task' = "none"
           \/ \A d \in Conns \ {c} : \A i \in 1 .. Len(c2s[d]) : c2s[d][i].type # "Exec"
    PROVE  RequestInv'
  BY SMTT(60) DEF RequestInv, FramesFewer, ClientOn

LEMMA PopFrames ==
    ASSUME TypeOK, NEW c \in Conns, c2s[c] # <<>>, c2s' = [c2s EXCEPT ![c] = Tail(@)],
           \A d \in Conns : d # c => handler'[d] = handler[d]
    PROVE  FramesFewer(c) /\ c2s'[c] = Tail(c2s[c])
<1>1. c2s \in Queues /\ c2s[c] \in Seq(ChannelMessage)
  BY DEF TypeOK, WireTypeOK, Queues
<1>2. c2s'[c] = Tail(c2s[c]) /\ \A d \in Conns : d # c => c2s'[d] = c2s[d]
  BY <1>1 DEF Queues
<1>3. \A i \in 1 .. Len(Tail(c2s[c])) : Tail(c2s[c])[i] = c2s[c][i + 1] /\ i + 1 \in 1 .. Len(c2s[c])
  BY <1>1, TailElements
<1>4. QED
  BY <1>2, <1>3, SMTT(60) DEF FramesFewer

LEMMA CloseFrames ==
    ASSUME TypeOK, NEW c \in Conns, Close(c)
    PROVE  /\ FramesFewer(c) /\ c2s'[c] = <<>> /\ handler'[c] = "closed" /\ exit_seq'[c] = 0
           /\ \A d \in Conns : d # c => /\ handler'[d] = handler[d]
                                        /\ sent_up_to'[d] = sent_up_to[d]
                                        /\ exit_seq'[d] = exit_seq[d]
<1>1. /\ c2s'[c] = <<>> /\ \A d \in Conns : d # c => c2s'[d] = c2s[d]
  BY DEF Close, TypeOK, WireTypeOK
<1>2. /\ handler'[c] = "closed" /\ exit_seq'[c] = 0
      /\ \A d \in Conns : d # c => /\ handler'[d] = handler[d]
                                   /\ sent_up_to'[d] = sent_up_to[d]
                                   /\ exit_seq'[d] = exit_seq[d]
  BY DEF Close, Goto, TypeOK, HandlerTypeOK
<1>3. QED
  BY <1>1, <1>2, SMTT(60) DEF FramesFewer

\* Frames without output, sent on c to the client if it is there.
LEMMA ControlSent ==
    ASSUME TypeOK, OutputInv, NEW c \in Conns, NEW ms \in Seq(ChannelMessage),
           \A i \in 1 .. Len(ms) : ~Data(ms[i]), SendToClient(c, ms),
           UNCHANGED <<conn, phase, last_server_seq, dgs2c, emitted>>
    PROVE  /\ NoGapInv'
           /\ (\A d \in Conns : exit_seq'[d] \in {exit_seq[d], 0}) => CarriedInv'
           /\ (\A d \in Conns : Active(d)' => Active(d) /\ sent_up_to'[d] = sent_up_to[d])
                 => SentInv'
<1>1. s2c \in Queues /\ last_server_seq \in Nat /\ sent_up_to[c] \in Nat
      /\ s2c[c] \in Seq(ChannelMessage)
  BY DEF TypeOK, WireTypeOK, ClientTypeOK, HandlerTypeOK, Queues
<1>2. /\ \A d \in Conns : ~(d = c /\ ClientOn(c)) => s2c'[d] = s2c[d]
      /\ ClientOn(c) => s2c'[c] = s2c[c] \o ms
  BY <1>1 DEF SendToClient, Queues
<1>3. NoGapInv'
  <2>1. ClientOn(c) => NoGap(s2c[c] \o ms, last_server_seq)
    BY <1>1, PushControl DEF OutputInv, NoGapInv
  <2>2. QED
    BY <1>2, <2>1 DEF OutputInv, NoGapInv, ClientOn
<1>4. ASSUME \A d \in Conns : exit_seq'[d] \in {exit_seq[d], 0} PROVE CarriedInv'
  <2>1. ASSUME NEW d \in Conns, NEW i \in 1 .. Len(s2c'[d]), Data(s2c'[d][i])
        PROVE  IsEmitted(s2c'[d][i])
    <3>1. CASE ~(d = c /\ ClientOn(c))
      BY <1>2, <2>1, <3>1 DEF OutputInv, CarriedInv
    <3>2. CASE d = c /\ ClientOn(c)
      <4>1. /\ Len(s2c'[c]) = Len(s2c[c]) + Len(ms) /\ Len(s2c[c]) \in Nat /\ Len(ms) \in Nat
            /\ \A j \in 1 .. Len(s2c[c]) : s2c'[c][j] = s2c[c][j]
            /\ \A j \in 1 .. Len(ms) : s2c'[c][Len(s2c[c]) + j] = ms[j]
        BY <1>1, <3>2, SentToClient
      <4>2. CASE i \in 1 .. Len(s2c[c])
        BY <2>1, <3>2, <4>1, <4>2 DEF OutputInv, CarriedInv
      <4>3. CASE i \notin 1 .. Len(s2c[c])
        <5>1. i - Len(s2c[c]) \in 1 .. Len(ms) /\ Len(s2c[c]) + (i - Len(s2c[c])) = i
          BY <3>2, <4>1, <4>3, SMTT(60)
        <5>2. QED
          BY <2>1, <3>2, <4>1, <5>1
      <4>4. QED
        BY <4>2, <4>3
    <3>3. QED
      BY <3>1, <3>2
  <2>2. \A d \in Conns : d > conn => s2c'[d] = s2c[d]
    BY <1>2, SMTT(60) DEF ClientOn, Conns
  <2>3. \A d \in Conns : exit_seq'[d] # 0 => exit_seq'[d] = Len(emitted) /\ Finished
    BY <1>4 DEF OutputInv, CarriedInv
  <2>4. QED
    BY <2>1, <2>2, <2>3, SMTT(60) DEF OutputInv, CarriedInv, IsEmitted, Finished
<1>5. ASSUME \A d \in Conns : Active(d)' => Active(d) /\ sent_up_to'[d] = sent_up_to[d]
      PROVE  SentInv'
  <2>1. ClientOn(c) /\ Active(c) => /\ Covers(s2c[c] \o ms, last_server_seq, sent_up_to[c])
                                   /\ Within(s2c[c] \o ms, sent_up_to[c])
    BY <1>1, PushControl DEF OutputInv, SentInv
  <2>2. QED
    BY <1>2, <1>5, <2>1 DEF OutputInv, SentInv, ClientOn
<1>6. QED
  BY <1>3, <1>4, <1>5

-----------------------------------------------------------------------------
(* Output: the steps                                                        *)

\* A handler that steps within its loop without sending or taking a frame.
LEMMA AcceptOutput ==
    ASSUME TypeOK, OutputInv, NEW c \in Conns, Accept(c) \/ Changed(c) \/ KeepaliveTick(c)
    PROVE  OutputInv'
<1>1. UNCHANGED <<clientVars, wireVars, sent_up_to, exit_seq, task, seq, emitted, log, record>>
  BY DEF Accept, Changed, KeepaliveTick, taskVars, daemonVars
<1>2. \A d \in Conns : /\ Active(d)' => Active(d)
                       /\ handler[d] \in {"queued", "request"} => handler'[d] \in {"queued", "request"}
  BY DEF Accept, Changed, KeepaliveTick, Goto, Active, TypeOK, HandlerTypeOK
<1>3. EmittedInv' /\ SessionInv' /\ AckInv' /\ CarriedInv' /\ NoGapInv' /\ ClientInv'
  BY <1>1, EmittedFrame, SessionFrame, AckFrame, CarriedFrame, NoGapFrame, ClientFrame
     DEF OutputInv, clientVars, wireVars
<1>4. SentInv'
  BY <1>1, <1>2, SentFrame DEF OutputInv, clientVars, wireVars
<1>5. RequestInv'
  <2>1. \A d \in Conns : \A i \in 1 .. Len(c2s'[d]) : Request(c2s'[d][i]) =>
           /\ i \in 1 .. Len(c2s[d]) /\ c2s'[d][i] = c2s[d][i]
           /\ handler'[d] \in {"queued", "request"}
    BY <1>1, <1>2 DEF OutputInv, RequestInv, wireVars
  <2>2. QED
    BY <1>1, <2>1, RequestFrame DEF OutputInv, clientVars, wireVars
<1>6. QED
  BY <1>3, <1>4, <1>5 DEF OutputInv

\* A connection is attached to the session, after message n.
LEMMA AttachOutput ==
    ASSUME TypeOK, OutputInv, NEW c \in Conns, NEW n \in Nat, c2s[c] # <<>>,
           handler[c] = "request", Request(Head(c2s[c])), ClientOn(c) => n = Head(c2s[c]).seq,
           Attach(c, n), UNCHANGED <<clientVars, dgs2c, emitted>>,
           \/ task = "none" => task' = "none"
           \/ Head(c2s[c]).type = "Exec"
    PROVE  RequestInv' /\ AckInv' /\ CarriedInv' /\ NoGapInv' /\ SentInv'
<1>1. UNCHANGED <<conn, phase, last_server_seq>>
  BY DEF clientVars
<1>2. /\ c2s' = [c2s EXCEPT ![c] = Tail(@)] /\ SendToClient(c, <<Started>>)
      /\ handler'[c] = "pump" /\ sent_up_to'[c] = n /\ exit_seq'[c] = 0
      /\ \A d \in Conns : d # c => /\ handler'[d] = handler[d] /\ sent_up_to'[d] = sent_up_to[d]
                                   /\ exit_seq'[d] = exit_seq[d]
  BY DEF Attach, Goto, TypeOK, HandlerTypeOK
<1>3. /\ <<Started>> \in Seq(ChannelMessage)
      /\ \A i \in 1 .. Len(<<Started>>) : ~Data(<<Started>>[i])
  BY MsgType, SingletonSeq, SMTT(60) DEF Data, Stdio, Started, Msg
<1>4. FramesFewer(c) /\ c2s'[c] = Tail(c2s[c])
  BY <1>2, PopFrames
<1>5. 1 \in 1 .. Len(c2s[c]) /\ Head(c2s[c]) = c2s[c][1]
  BY TailElements, SMTT(60) DEF TypeOK, WireTypeOK
<1>6. ClientOn(c) => n = last_server_seq /\ s2c[c] = <<>> /\ dgs2c[c] = {}
  BY <1>5 DEF OutputInv, RequestInv
<1>7. s2c \in Queues /\ last_server_seq \in Nat /\ Len(emitted) \in Nat
  BY LenProperties DEF TypeOK, WireTypeOK, ClientTypeOK, SessionTypeOK, Queues
<1>8. RequestInv'
  <2>1. \A d \in Conns : d # c => s2c'[d] = s2c[d]
    BY <1>2, <1>3, <1>7, SentToClient
  <2>2. \A i \in 1 .. Len(c2s'[c]) : ~Request(c2s'[c][i])
    BY <1>4, NoRequests
  <2>3. \/ task = "none" => task' = "none"
        \/ \A d \in Conns \ {c} : \A i \in 1 .. Len(c2s[d]) : c2s[d][i].type # "Exec"
    BY <1>5 DEF OutputInv, RequestInv, Request
  <2>4. QED
    BY <1>1, <1>4, <2>1, <2>2, <2>3, FewerRequests DEF OutputInv
<1>9. AckInv'
  BY <1>1, <1>4, FewerAcks DEF OutputInv
<1>10. NoGapInv' /\ CarriedInv'
  <2>1. \A d \in Conns : exit_seq'[d] \in {exit_seq[d], 0}
    BY <1>2
  <2>2. QED
    BY <1>1, <1>2, <1>3, <2>1, ControlSent
<1>11. SentInv'
  <2>1. SUFFICES ASSUME NEW d \in Conns, ClientOn(d), Active(d)'
                 PROVE  /\ last_server_seq <= sent_up_to'[d] /\ sent_up_to'[d] <= Len(emitted)
                        /\ Covers(s2c'[d], last_server_seq, sent_up_to'[d])
                        /\ Within(s2c'[d], sent_up_to'[d])
                        /\ \A m \in dgs2c[d] : m.seq <= sent_up_to'[d]
    BY <1>1 DEF SentInv, ClientOn
  <2>2. CASE d = c
    <3>1. /\ sent_up_to'[c] = last_server_seq /\ dgs2c[c] = {}
          /\ last_server_seq <= Len(emitted)
      BY <1>2, <1>6, <2>1, <2>2 DEF OutputInv, ClientInv, OutputExact
    <3>2. Covers(s2c'[c], last_server_seq, last_server_seq)
      BY <1>7, SMTT(60) DEF Covers
    <3>3. Within(s2c'[c], last_server_seq)
      <4>1. Within(s2c[c], last_server_seq)
        BY <1>6, <2>1, <2>2, SMTT(60) DEF Within
      <4>2. s2c[c] \in Seq(ChannelMessage) /\ s2c'[c] = s2c[c] \o <<Started>>
        BY <1>2, <1>7, <2>1, <2>2 DEF SendToClient, Queues
      <4>3. QED
        BY <1>3, <1>7, <4>1, <4>2, PushControl
    <3>4. QED
      BY <1>7, <2>2, <3>1, <3>2, <3>3, SMTT(60)
  <2>3. CASE d # c
    <3>1. s2c'[d] = s2c[d] /\ Active(d) /\ sent_up_to'[d] = sent_up_to[d]
      BY <1>2, <1>3, <1>7, <2>1, <2>3, SentToClient DEF Active
    <3>2. QED
      BY <2>1, <3>1 DEF OutputInv, SentInv
  <2>4. QED
    BY <2>2, <2>3
<1>12. QED
  BY <1>8, <1>9, <1>10, <1>11

LEMMA HandleOutput ==
    ASSUME TypeOK, OutputInv, NEW c \in Conns, HandleExec(c) \/ HandleResume(c)
    PROVE  OutputInv'
<1>1. /\ handler[c] = "request" /\ c2s[c] # <<>> /\ Request(Head(c2s[c]))
      /\ UNCHANGED <<clientVars, dgs2c, seq, emitted, log, record>>
  BY DEF HandleExec, HandleResume, Request, taskVars, daemonVars
<1>2. 1 \in 1 .. Len(c2s[c]) /\ Head(c2s[c]) = c2s[c][1] /\ Head(c2s[c]).seq \in Nat
  <2>1. c2s[c] \in Seq(ChannelMessage)
    BY DEF TypeOK, WireTypeOK
  <2>2. 1 \in 1 .. Len(c2s[c]) /\ Head(c2s[c]) = c2s[c][1]
    BY <1>1, <2>1, TailElements, SMTT(60)
  <2>3. c2s[c][1].seq \in Nat
    BY <2>1, <2>2, ElementType
  <2>4. QED
    BY <2>2, <2>3
<1>3. CASE HandleExec(c)
  <2>1. Head(c2s[c]).type = "Exec" /\ task' = "running" /\ Attach(c, 0)
    BY <1>3 DEF HandleExec
  <2>2. task = "none" /\ conn # 0 /\ Head(c2s[c]).seq = 0
    BY <1>1, <1>2, <2>1 DEF OutputInv, RequestInv
  <2>3. RequestInv' /\ AckInv' /\ CarriedInv' /\ NoGapInv' /\ SentInv'
    BY <1>1, <2>1, <2>2, AttachOutput, SMTT(60)
  <2>4. EmittedInv'
    BY <1>1, <2>2, EmittedFrame DEF OutputInv
  <2>5. SessionInv'
    BY <1>1, <2>2, LogFrame DEF OutputInv, SessionInv, clientVars
  <2>6. ClientInv'
    BY <1>1, ClientFrame DEF OutputInv, clientVars
  <2>7. QED
    BY <2>3, <2>4, <2>5, <2>6 DEF OutputInv
<1>4. CASE HandleResume(c)
  <2>1. Attach(c, Head(c2s[c]).seq) /\ UNCHANGED task
    BY <1>4 DEF HandleResume, taskVars
  <2>2. RequestInv' /\ AckInv' /\ CarriedInv' /\ NoGapInv' /\ SentInv'
    BY <1>1, <1>2, <2>1, AttachOutput
  <2>3. EmittedInv' /\ SessionInv' /\ ClientInv'
    BY <1>1, <2>1, EmittedFrame, SessionFrame, ClientFrame DEF OutputInv, clientVars
  <2>4. QED
    BY <2>2, <2>3 DEF OutputInv
<1>5. QED
  BY <1>3, <1>4

\* A handler returns, perhaps after a last frame without output.
LEMMA CloseOutput ==
    ASSUME TypeOK, OutputInv, NEW c \in Conns, Close(c), NEW ms \in Seq(ChannelMessage),
           \A i \in 1 .. Len(ms) : ~Data(ms[i]), SendToClient(c, ms),
           UNCHANGED <<clientVars, dgs2c, task, emitted>>
    PROVE  RequestInv' /\ AckInv' /\ CarriedInv' /\ NoGapInv' /\ SentInv'
<1>1. UNCHANGED <<conn, phase, last_server_seq>>
  BY DEF clientVars
<1>2. /\ FramesFewer(c) /\ c2s'[c] = <<>> /\ handler'[c] = "closed" /\ exit_seq'[c] = 0
      /\ \A d \in Conns : d # c => /\ handler'[d] = handler[d]
                                   /\ sent_up_to'[d] = sent_up_to[d]
                                   /\ exit_seq'[d] = exit_seq[d]
  BY CloseFrames
<1>3. s2c \in Queues
  BY DEF TypeOK, WireTypeOK, Queues
<1>4. RequestInv'
  <2>1. \A d \in Conns : d # c => s2c'[d] = s2c[d]
    BY <1>3, SentToClient
  <2>2. \A i \in 1 .. Len(c2s'[c]) : ~Request(c2s'[c][i])
    BY <1>2, SMTT(60)
  <2>3. QED
    BY <1>1, <1>2, <2>1, <2>2, FewerRequests DEF OutputInv
<1>5. AckInv'
  BY <1>1, <1>2, FewerAcks DEF OutputInv
<1>6. \A d \in Conns : Active(d)' => Active(d) /\ sent_up_to'[d] = sent_up_to[d]
  BY <1>2 DEF Active
<1>7. \A d \in Conns : exit_seq'[d] \in {exit_seq[d], 0}
  BY <1>2
<1>8. CarriedInv' /\ NoGapInv' /\ SentInv'
  BY <1>1, <1>6, <1>7, ControlSent
<1>9. QED
  BY <1>4, <1>5, <1>8

\* Sending nothing.
LEMMA NothingSent ==
    ASSUME TypeOK, NEW c \in Conns, UNCHANGED s2c
    PROVE  /\ SendToClient(c, <<>>) /\ <<>> \in Seq(ChannelMessage)
           /\ \A i \in 1 .. Len(<<>>) : ~Data(<<>>[i])
<1>1. s2c \in Queues /\ s2c[c] \in Seq(ChannelMessage)
  BY DEF TypeOK, WireTypeOK, Queues
<1>2. s2c[c] \o <<>> = s2c[c]
  BY <1>1, ConcatEmptySeq
<1>3. [s2c EXCEPT ![c] = s2c[c] \o <<>>] = s2c
  BY <1>1, <1>2 DEF Queues
<1>4. SendToClient(c, <<>>)
  BY <1>3 DEF SendToClient
<1>5. <<>> \in Seq(ChannelMessage) /\ Len(<<>>) = 0
  BY EmptySeq
<1>6. QED
  BY <1>4, <1>5, SMTT(60)

LEMMA DenyOutput ==
    ASSUME TypeOK, OutputInv, NEW c \in Conns, Deny(c) \/ Detach(c)
    PROVE  OutputInv'
<1>1. UNCHANGED <<clientVars, dgs2c, task, seq, emitted, log, record>> /\ Close(c)
  BY DEF Deny, Detach, taskVars, daemonVars
<1>2. RequestInv' /\ AckInv' /\ CarriedInv' /\ NoGapInv' /\ SentInv'
  <2>1. CASE Deny(c)
    <3>1. /\ <<Denied>> \in Seq(ChannelMessage)
          /\ \A i \in 1 .. Len(<<Denied>>) : ~Data(<<Denied>>[i])
      BY MsgType, SingletonSeq, SMTT(60) DEF Data, Stdio, Denied, Msg
    <3>2. SendToClient(c, <<Denied>>)
      BY <2>1 DEF Deny
    <3>3. QED
      BY <1>1, <3>1, <3>2, CloseOutput
  <2>2. CASE Detach(c)
    <3>1. UNCHANGED s2c
      BY <2>2 DEF Detach
    <3>2. QED
      BY <1>1, <3>1, NothingSent, CloseOutput
  <2>3. QED
    BY <2>1, <2>2
<1>3. EmittedInv' /\ SessionInv' /\ ClientInv'
  BY <1>1, EmittedFrame, SessionFrame, ClientFrame DEF OutputInv, clientVars
<1>4. QED
  BY <1>2, <1>3 DEF OutputInv

\* What the log gives out has been pushed; to one that has all up to n, and n is
\* not trimmed, it gives everything after n.
LEMMA AfterEmitted ==
    ASSUME EmittedInv, emitted \in Seq(ChannelMessage), NEW l \in Log, LogMatches(l),
           NEW n \in Nat
    PROVE  /\ \A i \in 1 .. Len(After(l, n)) : /\ IsEmitted(After(l, n)[i])
                                               /\ Data(After(l, n)[i])
           /\ l.trimmed <= n /\ n <= Len(emitted) =>
                /\ Len(After(l, n)) = Len(emitted) - n
                /\ \A i \in 1 .. Len(After(l, n)) : After(l, n)[i].seq = n + i
<1> DEFINE k == SaturatingSub(n, l.trimmed)
           ms == After(l, n)
<1>1. /\ l.trimmed \in Nat /\ l.buffer \in Seq(ChannelMessage) /\ Len(l.buffer) \in Nat
      /\ Len(emitted) \in Nat
  BY LenProperties DEF Log
<1>2. k \in Nat /\ (l.trimmed <= n => k = n - l.trimmed)
  BY <1>1, SMTT(60) DEF SaturatingSub
<1>3. /\ l.trimmed + Len(l.buffer) = Len(emitted)
      /\ \A i \in 1 .. Len(l.buffer) : /\ l.buffer[i] = emitted[l.trimmed + i]
                                       /\ l.buffer[i].seq = l.trimmed + i
  BY DEF LogMatches, Latest
<1>4. ms = SubSeq(l.buffer, k + 1, Len(l.buffer))
  BY DEF After
<1> HIDE DEF k, ms
<1>5. Suffix(l.buffer, k, ms)
  BY <1>1, <1>2, <1>4, SuffixElements
<1>6. ASSUME NEW i \in 1 .. Len(ms)
      PROVE  /\ ms[i] = emitted[l.trimmed + (k + i)] /\ ms[i].seq = l.trimmed + (k + i)
             /\ l.trimmed + (k + i) \in 1 .. Len(emitted)
  <2>1. ms[i] = l.buffer[k + i] /\ k + i \in 1 .. Len(l.buffer)
    BY <1>5 DEF Suffix
  <2>2. l.buffer[k + i] = emitted[l.trimmed + (k + i)] /\ l.buffer[k + i].seq = l.trimmed + (k + i)
    BY <1>3, <2>1
  <2>3. l.trimmed + (k + i) \in 1 .. Len(emitted)
    BY <1>1, <1>3, <2>1, SMTT(60)
  <2>4. QED
    BY <2>1, <2>2, <2>3
<1>7. \A i \in 1 .. Len(ms) : IsEmitted(ms[i]) /\ Data(ms[i])
  BY <1>6 DEF IsEmitted, EmittedInv
<1>8. ASSUME l.trimmed <= n, n <= Len(emitted)
      PROVE  Len(ms) = Len(emitted) - n /\ \A i \in 1 .. Len(ms) : ms[i].seq = n + i
  <2>1. k = n - l.trimmed
    BY <1>2, <1>8
  <2>2. Len(ms) = Len(emitted) - n
    <3>1. k <= Len(l.buffer) /\ Len(l.buffer) - k = Len(emitted) - n
      BY <1>1, <1>3, <1>8, <2>1, SuffixNumbers, SMTT(60)
    <3>2. Len(ms) = Len(l.buffer) - k
      BY <1>5, <3>1 DEF Suffix
    <3>3. QED
      BY <3>1, <3>2
  <2>3. ASSUME NEW i \in 1 .. Len(ms) PROVE ms[i].seq = n + i
    <3>1. i \in Nat /\ n <= l.trimmed + Len(l.buffer)
      BY <1>3, <1>8, SMTT(60)
    <3>2. l.trimmed + (k + i) = n + i
      BY <1>1, <1>8, <2>1, <3>1, SuffixNumbers, SMTT(60)
    <3> QED
      BY <1>6, <3>2
  <2>4. QED
    BY <2>2, <2>3
<1>9. QED
  BY <1>7, <1>8 DEF ms

LEMMA PumpOutput ==
    ASSUME TypeOK, OutputInv, NEW c \in Conns, Pump(c)
    PROVE  OutputInv'
<1> DEFINE ms == After(log, sent_up_to[c])
<1>1. /\ UNCHANGED <<clientVars, c2s, task, seq, emitted, log, record>> /\ handler[c] = "pump"
      /\ SendToClient(c, ms)
      /\ dgs2c' = IF ClientOn(c) THEN [dgs2c EXCEPT ![c] = @ \cup Duplicates(c, ms)] ELSE dgs2c
      /\ sent_up_to' = [sent_up_to EXCEPT ![c] = @ + Len(ms)]
      /\ exit_seq' = IF ms # <<>> /\ ms[Len(ms)].type = "Exit"
                     THEN [exit_seq EXCEPT ![c] = ms[Len(ms)].seq] ELSE exit_seq
      /\ handler' = [handler EXCEPT ![c] = "ack"]
  BY DEF Pump, Goto, taskVars, daemonVars
<1>2. UNCHANGED <<conn, phase, last_server_seq>>
  BY <1>1 DEF clientVars
<1>3. /\ s2c \in Queues /\ s2c[c] \in Seq(ChannelMessage) /\ last_server_seq \in Nat
      /\ dgs2c \in [Conns -> SUBSET ChannelMessage]
      /\ emitted \in Seq(ChannelMessage) /\ Len(emitted) \in Nat /\ log \in Log
      /\ log.trimmed \in Nat
  BY LenProperties DEF TypeOK, WireTypeOK, ClientTypeOK, SessionTypeOK, Queues, Log
<1>4. /\ handler \in [Conns -> {"none", "queued", "request", "pump", "ack", "select", "closed"}]
      /\ sent_up_to \in [Conns -> Nat] /\ exit_seq \in [Conns -> Nat]
  BY DEF TypeOK, HandlerTypeOK
<1>5. ms \in Seq(ChannelMessage) /\ Len(ms) \in Nat
  BY <1>3, <1>4, MsgType, LogType, LenProperties
<1>6. /\ \A i \in 1 .. Len(ms) : IsEmitted(ms[i]) /\ Data(ms[i])
      /\ log.trimmed <= sent_up_to[c] /\ sent_up_to[c] <= Len(emitted) =>
           /\ Len(ms) = Len(emitted) - sent_up_to[c]
           /\ \A i \in 1 .. Len(ms) : ms[i].seq = sent_up_to[c] + i
  BY <1>3, <1>4, AfterEmitted DEF OutputInv, SessionInv, LogFaithful
<1> HIDE DEF ms
<1>7. \A m \in Duplicates(c, ms) : \E i \in 1 .. Len(ms) : m = ms[i]
  BY <1>5, SMTT(60) DEF Duplicates
<1>8. /\ \A d \in Conns : ~(d = c /\ ClientOn(c)) => s2c'[d] = s2c[d] /\ dgs2c'[d] = dgs2c[d]
      /\ ClientOn(c) => s2c'[c] = s2c[c] \o ms /\ dgs2c'[c] = dgs2c[c] \cup Duplicates(c, ms)
  BY <1>1, <1>3 DEF SendToClient, Queues
<1>9. EmittedInv' /\ SessionInv' /\ AckInv' /\ ClientInv'
  BY <1>1, EmittedFrame, SessionFrame, AckFrame, ClientFrame DEF OutputInv, clientVars
<1>10. RequestInv'
  <2>1. \A i \in 1 .. Len(c2s'[c]) : ~Request(c2s'[c][i])
    BY <1>1, NoRequests
  <2>2. FramesFewer(c)
    BY <1>1, <1>4 DEF FramesFewer
  <2>3. \A d \in Conns : d # c => s2c'[d] = s2c[d] /\ dgs2c'[d] = dgs2c[d]
    BY <1>8
  <2>4. QED
    BY <1>1, <1>2, <2>1, <2>2, <2>3, FewerRequests DEF OutputInv
<1>11. CarriedInv'
  <2>1. ASSUME NEW d \in Conns, NEW i \in 1 .. Len(s2c'[d]), Data(s2c'[d][i])
        PROVE  IsEmitted(s2c'[d][i])
    <3>1. CASE ~(d = c /\ ClientOn(c))
      BY <1>8, <2>1, <3>1 DEF OutputInv, CarriedInv
    <3>2. CASE d = c /\ ClientOn(c)
      <4>1. /\ Len(s2c'[c]) = Len(s2c[c]) + Len(ms) /\ Len(s2c[c]) \in Nat
            /\ \A j \in 1 .. Len(s2c[c]) : s2c'[c][j] = s2c[c][j]
            /\ \A j \in 1 .. Len(ms) : s2c'[c][Len(s2c[c]) + j] = ms[j]
        BY <1>1, <1>3, <1>5, <3>2, SentToClient
      <4>2. CASE i \in 1 .. Len(s2c[c])
        BY <2>1, <3>2, <4>1, <4>2 DEF OutputInv, CarriedInv
      <4>3. CASE i \notin 1 .. Len(s2c[c])
        <5>1. i - Len(s2c[c]) \in 1 .. Len(ms) /\ Len(s2c[c]) + (i - Len(s2c[c])) = i
          BY <1>5, <3>2, <4>1, <4>3, SMTT(60)
        <5>2. QED
          BY <1>6, <3>2, <4>1, <5>1
      <4>4. QED
        BY <4>2, <4>3
    <3>3. QED
      BY <3>1, <3>2
  <2>2. ASSUME NEW d \in Conns, NEW m \in dgs2c'[d] PROVE IsEmitted(m)
    BY <1>6, <1>7, <1>8, SMTT(60) DEF OutputInv, CarriedInv
  <2>3. \A d \in Conns : d > conn => s2c'[d] = s2c[d] /\ dgs2c'[d] = dgs2c[d]
    BY <1>8, SMTT(60) DEF ClientOn, Conns
  <2>4. ASSUME NEW d \in Conns, exit_seq'[d] # 0
        PROVE  exit_seq'[d] = Len(emitted) /\ Finished
    <3>1. CASE d = c /\ ms # <<>> /\ ms[Len(ms)].type = "Exit"
      <4>1. Len(ms) \in 1 .. Len(ms)
        BY <1>5, <3>1, EmptySeq, SMTT(60)
      <4>2. IsEmitted(ms[Len(ms)])
        BY <1>6, <4>1
      <4>3. ms[Len(ms)].seq = Len(emitted) /\ emitted[Len(emitted)].type = "Exit" /\ Len(emitted) # 0
        BY <1>3, <3>1, <4>2, SMTT(60) DEF IsEmitted, OutputInv, EmittedInv
      <4>4. Finished
        BY <1>3, <4>3, EmptySeq DEF Finished
      <4>5. QED
        BY <1>1, <1>4, <3>1, <4>3, <4>4
    <3>2. CASE ~(d = c /\ ms # <<>> /\ ms[Len(ms)].type = "Exit")
      <4>1. exit_seq'[d] = exit_seq[d]
        BY <1>1, <1>4, <3>2
      <4>2. QED
        BY <2>4, <4>1 DEF OutputInv, CarriedInv
    <3>3. QED
      BY <3>1, <3>2
  <2>5. \A m : IsEmitted(m) => IsEmitted(m)'
    BY <1>1, <1>2 DEF IsEmitted
  <2>6. Finished => Finished'
    BY <1>1, <1>2 DEF Finished
  <2>7. QED
    BY <1>1, <1>2, <2>1, <2>2, <2>3, <2>4, <2>5, <2>6 DEF OutputInv, CarriedInv
<1>12. ASSUME ClientOn(c)
       PROVE  /\ sent_up_to[c] \in Nat /\ last_server_seq <= sent_up_to[c]
              /\ Len(ms) = Len(emitted) - sent_up_to[c] /\ sent_up_to'[c] = Len(emitted)
              /\ NoGap(s2c'[c], last_server_seq)
              /\ Covers(s2c'[c], last_server_seq, Len(emitted)) /\ Within(s2c'[c], Len(emitted))
  <2>1. /\ sent_up_to[c] \in Nat /\ last_server_seq <= sent_up_to[c]
        /\ sent_up_to[c] <= Len(emitted)
        /\ NoGap(s2c[c], last_server_seq) /\ Covers(s2c[c], last_server_seq, sent_up_to[c])
        /\ Within(s2c[c], sent_up_to[c])
    BY <1>1, <1>4, <1>12 DEF OutputInv, SentInv, NoGapInv, Active
  <2>2. log.trimmed <= sent_up_to[c]
    <3>1. log.trimmed <= last_server_seq
      BY <1>12 DEF OutputInv, ClientInv, ReplayPossible, ClientOn
    <3>2. QED
      BY <1>3, <2>1, <3>1, AtMost
  <2>3. /\ Len(ms) = Len(emitted) - sent_up_to[c]
        /\ \A i \in 1 .. Len(ms) : Data(ms[i]) /\ ms[i].seq = sent_up_to[c] + i
    BY <1>6, <2>1, <2>2
  <2>4. sent_up_to[c] + Len(ms) = Len(emitted) /\ sent_up_to'[c] = Len(emitted)
    <3>1. sent_up_to'[c] = sent_up_to[c] + Len(ms)
      BY <1>1, <1>4
    <3>2. /\ sent_up_to[c] \in Nat /\ Len(emitted) \in Nat
          /\ Len(ms) = Len(emitted) - sent_up_to[c]
      BY <1>3, <2>1, <2>3
    <3>3. sent_up_to[c] + Len(ms) = Len(emitted)
      BY <3>2, SMTT(60)
    <3>4. QED
      BY <3>1, <3>3
  <2>5. /\ NoGap(s2c[c] \o ms, last_server_seq)
        /\ Covers(s2c[c] \o ms, last_server_seq, sent_up_to[c] + Len(ms))
        /\ Within(s2c[c] \o ms, sent_up_to[c] + Len(ms))
    BY <1>3, <1>5, <2>1, <2>3, PushData
  <2>6. QED
    BY <1>8, <1>12, <2>1, <2>3, <2>4, <2>5
<1>13. NoGapInv'
  BY <1>2, <1>8, <1>12 DEF OutputInv, NoGapInv, ClientOn
<1>14. SentInv'
  <2>1. SUFFICES ASSUME NEW d \in Conns, ClientOn(d), Active(d)'
                 PROVE  /\ last_server_seq <= sent_up_to'[d] /\ sent_up_to'[d] <= Len(emitted)
                        /\ Covers(s2c'[d], last_server_seq, sent_up_to'[d])
                        /\ Within(s2c'[d], sent_up_to'[d])
                        /\ \A m \in dgs2c'[d] : m.seq <= sent_up_to'[d]
    BY <1>1, <1>2 DEF SentInv, ClientOn
  <2>2. CASE d = c
    <3>1. \A m \in dgs2c'[c] : m.seq <= Len(emitted)
      <4>1. \A m \in dgs2c'[c] : m.seq \in 1 .. Len(emitted)
        BY <1>1, <1>11 DEF CarriedInv, IsEmitted
      <4>2. QED
        BY <1>3, <4>1, SMTT(60)
    <3>2. last_server_seq <= Len(emitted)
      BY DEF OutputInv, ClientInv, OutputExact
    <3>3. QED
      BY <1>3, <1>12, <2>1, <2>2, <3>1, <3>2, SMTT(60)
  <2>3. CASE d # c
    <3>1. /\ s2c'[d] = s2c[d] /\ dgs2c'[d] = dgs2c[d] /\ Active(d)
          /\ sent_up_to'[d] = sent_up_to[d]
      BY <1>1, <1>4, <1>8, <2>1, <2>3 DEF Active
    <3>2. QED
      BY <2>1, <3>1 DEF OutputInv, SentInv
  <2>4. QED
    BY <2>2, <2>3
<1>15. QED
  BY <1>9, <1>10, <1>11, <1>13, <1>14 DEF OutputInv

LEMMA AckStdinOutput ==
    ASSUME TypeOK, OutputInv, NEW c \in Conns, AckStdin(c)
    PROVE  OutputInv'
<1> DEFINE ms == IF stdin_applied > acked_stdin[c] THEN <<Ack(stdin_applied)>> ELSE <<>>
<1>1. /\ UNCHANGED <<clientVars, c2s, dgs2c, sent_up_to, exit_seq, task, seq, emitted, log, record>>
      /\ handler[c] = "ack" /\ handler' = [handler EXCEPT ![c] = "select"] /\ SendToClient(c, ms)
  BY DEF AckStdin, Goto, taskVars, daemonVars
<1>2. /\ UNCHANGED <<conn, phase, last_server_seq>> /\ s2c \in Queues
      /\ handler \in [Conns -> {"none", "queued", "request", "pump", "ack", "select", "closed"}]
  BY <1>1 DEF clientVars, TypeOK, WireTypeOK, HandlerTypeOK, Queues
<1>3. ms \in Seq(ChannelMessage) /\ \A i \in 1 .. Len(ms) : ~Data(ms[i])
  <2>1. stdin_applied \in Nat
    BY DEF TypeOK, SessionTypeOK
  <2>2. Ack(stdin_applied) \in ChannelMessage /\ ~Data(Ack(stdin_applied))
    BY <2>1, MsgType DEF Ack, Msg, Data, Stdio
  <2>3. <<>> \in Seq(ChannelMessage) /\ Len(<<>>) = 0
    BY EmptySeq
  <2>4. /\ <<Ack(stdin_applied)>> \in Seq(ChannelMessage) /\ Len(<<Ack(stdin_applied)>>) = 1
        /\ <<Ack(stdin_applied)>>[1] = Ack(stdin_applied)
    BY <2>2, SingletonSeq
  <2>5. QED
    BY <2>2, <2>3, <2>4, SMTT(60)
<1> HIDE DEF ms
<1>4. EmittedInv' /\ SessionInv' /\ AckInv' /\ ClientInv'
  BY <1>1, EmittedFrame, SessionFrame, AckFrame, ClientFrame DEF OutputInv, clientVars
<1>5. RequestInv'
  <2>1. \A i \in 1 .. Len(c2s'[c]) : ~Request(c2s'[c][i])
    BY <1>1, NoRequests
  <2>2. FramesFewer(c)
    BY <1>1, <1>2 DEF FramesFewer
  <2>3. \A d \in Conns : d # c => s2c'[d] = s2c[d] /\ dgs2c'[d] = dgs2c[d]
    BY <1>1, <1>2, <1>3, SentToClient
  <2>4. QED
    BY <1>1, <1>2, <2>1, <2>2, <2>3, FewerRequests DEF OutputInv
<1>6. /\ \A d \in Conns : Active(d)' => Active(d) /\ sent_up_to'[d] = sent_up_to[d]
      /\ \A d \in Conns : exit_seq'[d] \in {exit_seq[d], 0}
  BY <1>1, <1>2 DEF Active
<1>7. CarriedInv' /\ NoGapInv' /\ SentInv'
  BY <1>1, <1>2, <1>3, <1>6, ControlSent
<1>8. QED
  BY <1>4, <1>5, <1>7 DEF OutputInv

\* A handler in select takes a frame and goes around its loop.
LEMMA FrameTaken ==
    ASSUME TypeOK, OutputInv, NEW c \in Conns, handler[c] = "select",
           \/ UNCHANGED c2s
           \/ c2s[c] # <<>> /\ c2s' = [c2s EXCEPT ![c] = Tail(@)],
           Goto(c, "pump"), UNCHANGED <<clientVars, s2c, dgs2c, sent_up_to, exit_seq, task, emitted>>
    PROVE  RequestInv' /\ AckInv' /\ CarriedInv' /\ NoGapInv' /\ SentInv'
<1>1. /\ UNCHANGED <<conn, phase, last_server_seq>> /\ handler' = [handler EXCEPT ![c] = "pump"]
      /\ handler \in [Conns -> {"none", "queued", "request", "pump", "ack", "select", "closed"}]
  BY DEF clientVars, TypeOK, HandlerTypeOK, Goto
<1>2. FramesFewer(c) /\ \A i \in 1 .. Len(c2s'[c]) : ~Request(c2s'[c][i])
  <2>1. CASE UNCHANGED c2s
    BY <1>1, <2>1, NoRequests DEF FramesFewer
  <2>2. CASE c2s[c] # <<>> /\ c2s' = [c2s EXCEPT ![c] = Tail(@)]
    BY <1>1, <2>2, PopFrames, NoRequests
  <2>3. QED
    BY <2>1, <2>2
<1>3. RequestInv' /\ AckInv'
  BY <1>1, <1>2, FewerRequests, FewerAcks DEF OutputInv
<1>4. CarriedInv' /\ NoGapInv'
  BY <1>1, CarriedFrame, NoGapFrame DEF OutputInv
<1>5. \A d \in Conns : Active(d)' => Active(d) /\ sent_up_to'[d] = sent_up_to[d]
  BY <1>1 DEF Active
<1>6. SentInv'
  BY <1>1, <1>5, SentFrame DEF OutputInv
<1>7. QED
  BY <1>3, <1>4, <1>6

LEMMA RecvFrameOutput ==
    ASSUME TypeOK, OutputInv, NEW c \in Conns, RecvFrame(c) \/ RecvDatagram(c)
    PROVE  OutputInv'
<1>1. /\ UNCHANGED <<clientVars, s2c, dgs2c, sent_up_to, exit_seq, task, seq, emitted, log, record>>
      /\ handler[c] = "select" /\ Goto(c, "pump")
      /\ \/ UNCHANGED c2s
         \/ c2s[c] # <<>> /\ c2s' = [c2s EXCEPT ![c] = Tail(@)]
  BY DEF RecvFrame, RecvDatagram, taskVars, daemonVars
<1>2. RequestInv' /\ AckInv' /\ CarriedInv' /\ NoGapInv' /\ SentInv'
  BY <1>1, FrameTaken
<1>3. EmittedInv' /\ SessionInv' /\ ClientInv'
  BY <1>1, EmittedFrame, SessionFrame, ClientFrame DEF OutputInv, clientVars
<1>4. QED
  BY <1>2, <1>3 DEF OutputInv

\* Trimming keeps the log an end of what was pushed, and trims no further than
\* the acknowledged number.
LEMMA TrimMatches ==
    ASSUME NEW l \in Log, LogMatches(l), NEW n \in Nat
    PROVE  /\ LogMatches(Trim(l, n))
           /\ Trim(l, n).trimmed <= l.trimmed \/ Trim(l, n).trimmed <= n
<1> DEFINE k == Dropped(l, n)
           r == SubSeq(l.buffer, k + 1, Len(l.buffer))
<1>1. l.trimmed \in Nat /\ l.buffer \in Seq(ChannelMessage) /\ Len(l.buffer) \in Nat
  BY LenProperties DEF Log
<1>2. k \in Nat /\ k <= Len(l.buffer) /\ (k = 0 \/ l.trimmed + k <= n)
  BY <1>1, SMTT(60) DEF Dropped, SaturatingSub
<1>3. Trim(l, n).trimmed = l.trimmed + k /\ Trim(l, n).buffer = r
  BY DEF Trim
<1> HIDE DEF k
<1>4. /\ Len(r) = Len(l.buffer) - k
      /\ \A i \in 1 .. Len(r) : r[i] = l.buffer[k + i] /\ k + i \in 1 .. Len(l.buffer)
  <2>1. Suffix(l.buffer, k, r)
    BY <1>1, <1>2, SuffixElements
  <2> QED
    BY <1>2, <2>1 DEF Suffix
<1> HIDE DEF r
<1>5. Latest(Trim(l, n)) = Latest(l)
  BY <1>1, <1>2, <1>3, <1>4, SMTT(60) DEF Latest
<1>6. ASSUME NEW i \in 1 .. Len(r)
      PROVE  r[i] = emitted[(l.trimmed + k) + i] /\ r[i].seq = (l.trimmed + k) + i
  <2>1. r[i] = l.buffer[k + i] /\ k + i \in 1 .. Len(l.buffer)
    BY <1>4
  <2>2. l.buffer[k + i] = emitted[l.trimmed + (k + i)] /\ l.buffer[k + i].seq = l.trimmed + (k + i)
    BY <2>1 DEF LogMatches
  <2>3. l.trimmed + (k + i) = (l.trimmed + k) + i
    BY <1>1, <1>2, <1>4, SMTT(60)
  <2>4. QED
    BY <2>1, <2>2, <2>3
<1>7. QED
  BY <1>1, <1>2, <1>3, <1>5, <1>6, SMTT(60) DEF LogMatches

LEMMA RecvAckOutput ==
    ASSUME TypeOK, OutputInv, NEW c \in Conns, RecvAck(c)
    PROVE  OutputInv'
<1> DEFINE n == Head(c2s[c]).seq
<1>1. /\ UNCHANGED <<clientVars, s2c, dgs2c, task, seq, emitted, record>> /\ handler[c] = "select"
      /\ c2s[c] # <<>> /\ Head(c2s[c]).type = "Ack" /\ log' = Trim(log, n)
  BY DEF RecvAck, taskVars
<1>2. n \in Nat /\ (n <= last_server_seq \/ phase = "done")
  <2>1. c2s[c] \in Seq(ChannelMessage)
    BY DEF TypeOK, WireTypeOK
  <2>2. 1 \in 1 .. Len(c2s[c]) /\ Head(c2s[c]) = c2s[c][1]
    BY <1>1, <2>1, TailElements, SMTT(60)
  <2>3. c2s[c][1].seq \in Nat
    BY <2>1, <2>2, ElementType
  <2>4. QED
    BY <1>1, <2>2, <2>3 DEF OutputInv, AckInv
<1>3. RequestInv' /\ AckInv' /\ CarriedInv' /\ NoGapInv' /\ SentInv'
  <2>1. CASE ExitAcked(c, n)
    <3>1. Close(c)
      BY <2>1 DEF RecvAck
    <3>2. QED
      BY <1>1, <3>1, NothingSent, CloseOutput
  <2>2. CASE ~ExitAcked(c, n)
    <3>1. /\ Goto(c, "pump") /\ c2s' = [c2s EXCEPT ![c] = Tail(@)]
          /\ UNCHANGED <<sent_up_to, exit_seq>>
      BY <2>2 DEF RecvAck
    <3>2. QED
      BY <1>1, <3>1, FrameTaken
  <2>3. QED
    BY <2>1, <2>2
<1> HIDE DEF n
<1>4. /\ LogMatches(log) /\ log \in Log /\ log.trimmed \in Nat /\ last_server_seq \in Nat
  BY DEF OutputInv, SessionInv, LogFaithful, TypeOK, ClientTypeOK, Log
<1>5. /\ LogMatches(log') /\ log'.trimmed \in Nat
      /\ log'.trimmed <= log.trimmed \/ log'.trimmed <= n
  BY <1>1, <1>2, <1>4, MsgType, LogType, TrimMatches DEF Log
<1>6. EmittedInv'
  BY <1>1, EmittedFrame DEF OutputInv
<1>7. SessionInv'
  BY <1>1, <1>5 DEF OutputInv, SessionInv, LogFaithful, LogMatches, clientVars
<1>8. ClientInv'
  <2>1. ReplayPossible'
    <3>1. SUFFICES ASSUME phase # "done" PROVE
             /\ log'.trimmed <= last_server_seq
             /\ record.present => record.log.trimmed <= last_server_seq
      BY <1>1 DEF ReplayPossible, clientVars
    <3>2. /\ log.trimmed <= last_server_seq
          /\ record.present => record.log.trimmed <= last_server_seq
      BY <3>1 DEF OutputInv, ClientInv, ReplayPossible
    <3>3. n <= last_server_seq
      BY <1>2, <3>1
    <3>4. QED
      BY <1>2, <1>4, <1>5, <3>2, <3>3, AtMost
  <2>2. QED
    BY <1>1, <2>1 DEF OutputInv, ClientInv, OutputExact, ExitComplete, Finished, clientVars
<1>9. QED
  BY <1>3, <1>6, <1>7, <1>8 DEF OutputInv

LEMMA HandlerOutput == TypeOK /\ OutputInv /\ HandlerNext => OutputInv'
  BY AcceptOutput, HandleOutput, DenyOutput, PumpOutput, AckStdinOutput, RecvAckOutput,
     RecvFrameOutput DEF HandlerNext

\* An acknowledgement that covers the Exit can only come from a client that has
\* returned: a client still running has acknowledged nothing but output it wrote.
LEMMA ExitAckedByReturn ==
    ASSUME TypeOK, OutputInv, NEW c \in Conns, RecvAck(c), ExitAcked(c, Head(c2s[c]).seq)
    PROVE  phase = "done"
<1>1. c2s[c] # <<>> /\ Head(c2s[c]).type = "Ack" /\ c2s[c] \in Seq(ChannelMessage)
  BY DEF RecvAck, TypeOK, WireTypeOK
<1>2. 1 \in 1 .. Len(c2s[c]) /\ Head(c2s[c]) = c2s[c][1]
  BY <1>1, HeadFirst
<1>3. Head(c2s[c]).seq \in Nat
  BY <1>1, <1>2, ElementType
<1>4. Head(c2s[c]).seq <= last_server_seq \/ phase = "done"
  BY <1>1, <1>2 DEF OutputInv, AckInv
<1>5. Finished /\ Head(c2s[c]).seq >= Len(emitted)
  BY DEF OutputInv, CarriedInv, ExitAcked
<1>6. /\ last_server_seq \in Nat /\ last_server_seq <= Len(emitted) /\ Len(out) = last_server_seq
      /\ \A i \in 1 .. last_server_seq : out[i] = emitted[i] /\ out[i].type \in Stdio
  BY DEF OutputInv, ClientInv, OutputExact, TypeOK, ClientTypeOK
<1>7. emitted # <<>> /\ Len(emitted) \in Nat /\ Len(emitted) # 0
  BY <1>5, LenProperties, EmptySeq DEF Finished, TypeOK, SessionTypeOK
<1>8. last_server_seq # Len(emitted)
  BY <1>5, <1>6, <1>7, SMTT(60) DEF Finished, Stdio
<1>9. ~(Head(c2s[c]).seq <= last_server_seq)
  BY <1>3, <1>5, <1>6, <1>7, <1>8, SMTT(60)
<1>10. QED
  BY <1>4, <1>9

-----------------------------------------------------------------------------
(* Stdin                                                                    *)

\* A connection's frames to the client after a step of its handler: no new Started,
\* and an acknowledgement only of stdin that has been applied.
Answers(r, q, n) ==
    \A i \in 1 .. Len(r) : \/ \E j \in 1 .. Len(q) : r[i] = q[j]
                           \/ r[i].type # "Started" /\ (r[i].type = "Ack" => r[i].seq <= n)

LEMMA AnswersSent ==
    ASSUME TypeOK, NEW c \in Conns, NEW ms \in Seq(ChannelMessage), SendToClient(c, ms),
           \A i \in 1 .. Len(ms) : /\ ms[i].type # "Started"
                                   /\ ms[i].type = "Ack" => ms[i].seq <= stdin_applied
    PROVE  \A d \in Conns : Answers(s2c'[d], s2c[d], stdin_applied)
<1>1. \A d \in Conns : s2c[d] \in Seq(ChannelMessage)
  BY DEF TypeOK, WireTypeOK
<1>2. \A d \in Conns : s2c'[d] = s2c[d] \/ s2c'[d] = s2c[d] \o ms
  BY DEF SendToClient, TypeOK, WireTypeOK
<1>3. ASSUME NEW d \in Conns, NEW i \in 1 .. Len(s2c[d] \o ms)
      PROVE  \/ \E j \in 1 .. Len(s2c[d]) : (s2c[d] \o ms)[i] = s2c[d][j]
             \/ \E j \in 1 .. Len(ms) : (s2c[d] \o ms)[i] = ms[j]
  <2>1. /\ Len(s2c[d] \o ms) = Len(s2c[d]) + Len(ms) /\ Len(s2c[d]) \in Nat /\ Len(ms) \in Nat
        /\ \A j \in 1 .. Len(s2c[d]) : (s2c[d] \o ms)[j] = s2c[d][j]
        /\ \A j \in 1 .. Len(ms) : (s2c[d] \o ms)[Len(s2c[d]) + j] = ms[j]
    BY <1>1, ConcatElements, SMTT(60)
  <2>2. i \in 1 .. Len(s2c[d]) \/ (i - Len(s2c[d]) \in 1 .. Len(ms)
                                   /\ i = Len(s2c[d]) + (i - Len(s2c[d])))
    BY <2>1, SMTT(60)
  <2> QED
    BY <2>1, <2>2
<1>4. \A d \in Conns : Answers(s2c[d], s2c[d], stdin_applied)
  BY DEF Answers
<1>5. ASSUME NEW d \in Conns PROVE Answers(s2c[d] \o ms, s2c[d], stdin_applied)
  <2> DEFINE r == s2c[d] \o ms
  <2> SUFFICES ASSUME NEW i \in 1 .. Len(r)
               PROVE  \/ \E j \in 1 .. Len(s2c[d]) : r[i] = s2c[d][j]
                      \/ r[i].type # "Started" /\ (r[i].type = "Ack" => r[i].seq <= stdin_applied)
    BY DEF Answers
  <2>1. \/ \E j \in 1 .. Len(s2c[d]) : r[i] = s2c[d][j]
        \/ \E j \in 1 .. Len(ms) : r[i] = ms[j]
    BY <1>3
  <2> HIDE DEF r
  <2> QED
    BY <2>1
<1> QED
  BY <1>2, <1>4, <1>5

\* What a step of an attached handler, or of one that attaches nobody, preserves.
LEMMA HandlerFrame ==
    ASSUME TypeOK, TypeOK', StdinInv,
           UNCHANGED <<client_seq, dropped, sent_stdin, resume_token, conn, phase, stdin_applied,
                       child_in, stdin, record, task, daemon>>,
           registered' => registered, daemon = "down" => UNCHANGED inbound,
           \A d \in Conns : (Active(d)' => Active(d)) /\ (Pending(d)' => Pending(d)),
           \A d \in Conns : From(c2s'[d], c2s[d]),
           \A d \in Conns : Answers(s2c'[d], s2c[d], stdin_applied)
    PROVE  KeptInv' /\ AppliedInv' /\ ToldInv' /\ NoSessionInv' /\ PendingInv' /\ StoppedInv'
<1> USE DEF StdinInv
<1>1. KeptInv' /\ AppliedInv'
  <2>1. stdin_applied <= stdin_applied'
    BY SMTT(60) DEF TypeOK, SessionTypeOK
  <2> QED
    BY <2>1, KeptFrame, AppliedFrame
<1>2. ToldInv'
  BY SMTT(60) DEF ToldInv, Answers
<1>3. NoSessionInv'
  BY DEF NoSessionInv, Answers
<1>4. PendingInv'
  <2> SUFFICES ASSUME NEW c \in Conns, Pending(c)
               PROVE  /\ ~(phase = "attached" /\ conn = c)
                      /\ \A i \in 1 .. Len(c2s'[c]) : ~IsStdin(c2s'[c][i])
                      /\ \A i \in 1 .. Len(s2c'[c]) : s2c'[c][i].type # "Started"
    BY DEF PendingInv, IsStdin
  <2> QED
    BY DEF PendingInv, From, Answers
<1>5. StoppedInv'
  BY DEF StoppedInv
<1> QED
  BY <1>1, <1>2, <1>3, <1>4, <1>5

\* Steps that take nothing from a connection that stays attached.
LEMMA HandlerQuiet ==
    ASSUME TypeOK, TypeOK', StdinInv, NEW c \in Conns,
           UNCHANGED <<client_seq, dropped, sent_stdin, resume_token, conn, phase, stdin_applied,
                       child_in, stdin, record, task, daemon, inbound>>,
           registered' => registered,
           \A d \in Conns : d # c => handler'[d] = handler[d],
           (Active(c)' => Active(c)) /\ (Pending(c)' => Pending(c)),
           \A d \in Conns : \/ c2s'[d] = c2s[d] /\ dgc2s'[d] = dgc2s[d]
                            \/ d = c /\ handler'[d] = "closed" /\ c2s'[d] = <<>> /\ dgc2s'[d] = {},
           \A d \in Conns : Answers(s2c'[d], s2c[d], stdin_applied)
    PROVE  StdinInv'
<1>1. \A d \in Conns : (Active(d)' => Active(d)) /\ (Pending(d)' => Pending(d))
  BY DEF Active, Pending
<1>2. \A d \in Conns : From(c2s'[d], c2s[d]) /\ dgc2s'[d] \subseteq dgc2s[d]
  BY FromSame
<1>3. KeptInv' /\ AppliedInv' /\ ToldInv' /\ NoSessionInv' /\ PendingInv' /\ StoppedInv'
  BY <1>1, <1>2, HandlerFrame
<1>4. FlightInv'
  BY <1>2, FromSame, FlightFrame DEF StdinInv
<1>5. \A d \in Conns : Active(d)' => SameStdin(c2s[d], c2s'[d])
  <2>1. \A d \in Conns : Active(d)' => c2s'[d] = c2s[d]
    BY DEF Active
  <2> QED
    BY <2>1, SameItself DEF TypeOK, WireTypeOK
<1>6. QueueInv' /\ FlowInv'
  BY <1>1, <1>5, QueueFrame, FlowFrame DEF StdinInv
<1> QED
  BY <1>3, <1>4, <1>6 DEF StdinInv

LEMMA ClosedStdin ==
    ASSUME TypeOK, NEW c \in Conns, Close(c)
    PROVE  /\ \A d \in Conns : d # c => handler'[d] = handler[d]
           /\ ~Active(c)' /\ ~Pending(c)'
           /\ \A d \in Conns : \/ c2s'[d] = c2s[d] /\ dgc2s'[d] = dgc2s[d]
                               \/ d = c /\ handler'[d] = "closed" /\ c2s'[d] = <<>> /\ dgc2s'[d] = {}
<1>1. handler'[c] = "closed" /\ \A d \in Conns : d # c => handler'[d] = handler[d]
  BY DEF Close, Goto, TypeOK, HandlerTypeOK
<1>2. \A d \in Conns : \/ c2s'[d] = c2s[d] /\ dgc2s'[d] = dgc2s[d]
                       \/ d = c /\ c2s'[d] = <<>> /\ dgc2s'[d] = {}
  BY DEF Close, TypeOK, WireTypeOK
<1> QED
  BY <1>1, <1>2 DEF Active, Pending

\* Accept, the two wakeups, Deny and Detach.
LEMMA IdleStdin ==
    ASSUME TypeOK, TypeOK', StdinInv, NEW c \in Conns,
           Accept(c) \/ Changed(c) \/ KeepaliveTick(c) \/ Deny(c) \/ Detach(c)
    PROVE  StdinInv'
<1>1. UNCHANGED <<client_seq, dropped, sent_stdin, resume_token, conn, phase, stdin_applied,
                  child_in, stdin, record, task, daemon, inbound, registered>>
  BY DEF Accept, Changed, KeepaliveTick, Deny, Detach, clientVars, taskVars, daemonVars
<1>2. \A d \in Conns : Answers(s2c[d], s2c[d], stdin_applied)
  BY DEF Answers
<1>3. CASE Accept(c) \/ Changed(c) \/ KeepaliveTick(c)
  <2>1. UNCHANGED <<c2s, s2c, dgc2s>>
    BY <1>3 DEF Accept, Changed, KeepaliveTick, wireVars
  <2>2. /\ \A d \in Conns : d # c => handler'[d] = handler[d]
        /\ (Active(c)' => Active(c)) /\ (Pending(c)' => Pending(c))
    BY <1>3 DEF Accept, Changed, KeepaliveTick, Goto, Active, Pending, TypeOK, HandlerTypeOK
  <2> QED
    BY <1>1, <1>2, <2>1, <2>2, HandlerQuiet
<1>4. CASE Deny(c)
  <2>1. Close(c) /\ SendToClient(c, <<Denied>>)
    BY <1>4 DEF Deny
  <2>2. /\ <<Denied>> \in Seq(ChannelMessage)
        /\ \A i \in 1 .. Len(<<Denied>>) : <<Denied>>[i].type \notin {"Started", "Ack"}
    BY MsgType, SMTT(60) DEF Denied, Msg
  <2>3. \A d \in Conns : Answers(s2c'[d], s2c[d], stdin_applied)
    BY <2>1, <2>2, AnswersSent
  <2> QED
    BY <1>1, <2>1, <2>3, ClosedStdin, HandlerQuiet
<1>5. CASE Detach(c)
  <2>1. Close(c) /\ UNCHANGED s2c
    BY <1>5 DEF Detach
  <2> QED
    BY <1>1, <1>2, <2>1, ClosedStdin, HandlerQuiet
<1> QED
  BY <1>3, <1>4, <1>5

LEMMA PumpStdin ==
    ASSUME TypeOK, TypeOK', OutputInv, StdinInv, NEW c \in Conns, Pump(c) \/ AckStdin(c)
    PROVE  StdinInv'
<1>1. UNCHANGED <<client_seq, dropped, sent_stdin, resume_token, conn, phase, stdin_applied,
                  child_in, stdin, record, task, daemon, inbound, registered, c2s, dgc2s>>
  BY DEF Pump, AckStdin, clientVars, taskVars, daemonVars
<1>2. /\ \A d \in Conns : d # c => handler'[d] = handler[d]
      /\ (Active(c)' => Active(c)) /\ (Pending(c)' => Pending(c))
  BY DEF Pump, AckStdin, Goto, Active, Pending, TypeOK, HandlerTypeOK
<1>3. CASE Pump(c)
  <2> DEFINE ms == After(log, sent_up_to[c])
  <2>1. SendToClient(c, ms)
    BY <1>3 DEF Pump
  <2>2. sent_up_to[c] \in Nat /\ log \in Log /\ emitted \in Seq(ChannelMessage)
    BY DEF TypeOK, HandlerTypeOK, SessionTypeOK
  <2>3. ms \in Seq(ChannelMessage)
    BY <2>2, LogType, MsgType
  <2>4. \A i \in 1 .. Len(ms) : Data(ms[i])
    BY <2>2, AfterEmitted DEF OutputInv, SessionInv, LogFaithful
  <2>5. \A i \in 1 .. Len(ms) : ms[i].type \notin {"Started", "Ack"}
    BY <2>4 DEF Data, Stdio
  <2> HIDE DEF ms
  <2>6. \A d \in Conns : Answers(s2c'[d], s2c[d], stdin_applied)
    BY <2>1, <2>3, <2>5, AnswersSent
  <2> QED
    BY <1>1, <1>2, <2>6, HandlerQuiet
<1>4. CASE AckStdin(c)
  <2> DEFINE ms == IF stdin_applied > acked_stdin[c] THEN <<Ack(stdin_applied)>> ELSE <<>>
  <2>1. SendToClient(c, ms)
    BY <1>4 DEF AckStdin
  <2>2. stdin_applied \in Nat
    BY DEF TypeOK, SessionTypeOK
  <2>3. Ack(stdin_applied) \in ChannelMessage
    BY <2>2, MsgType
  <2>4. Ack(stdin_applied).type = "Ack" /\ Ack(stdin_applied).seq <= stdin_applied
    BY <2>2, SMTT(60) DEF Ack, Msg
  <2>5. /\ ms \in Seq(ChannelMessage)
        /\ \A i \in 1 .. Len(ms) : ms[i] = Ack(stdin_applied)
    BY <2>3, SMTT(60)
  <2> HIDE DEF ms
  <2>6. \A d \in Conns : Answers(s2c'[d], s2c[d], stdin_applied)
    BY <2>1, <2>4, <2>5, AnswersSent
  <2> QED
    BY <1>1, <1>2, <2>6, HandlerQuiet
<1> QED
  BY <1>3, <1>4

LEMMA AttachStdin ==
    ASSUME TypeOK, TypeOK', OutputInv, DownInv, StdinInv, NEW c \in Conns,
           HandleExec(c) \/ HandleResume(c)
    PROVE  StdinInv'
<1> USE DEF StdinInv
<1>1. /\ UNCHANGED <<client_seq, dropped, sent_stdin, resume_token, conn, phase, stdin_applied,
                     child_in, stdin, record, daemon, inbound, dgc2s>>
      /\ handler[c] = "request" /\ c2s[c] # <<>>
      /\ Goto(c, "pump") /\ c2s' = [c2s EXCEPT ![c] = Tail(@)] /\ SendToClient(c, <<Started>>)
  BY DEF HandleExec, HandleResume, Attach, clientVars, taskVars, daemonVars
<1>2. /\ c2s \in Queues /\ \A d \in Conns : c2s[d] \in Seq(ChannelMessage)
      /\ handler'[c] = "pump" /\ \A d \in Conns : d # c => handler'[d] = handler[d]
      /\ stdin_applied \in Nat
  BY <1>1 DEF Goto, TypeOK, WireTypeOK, HandlerTypeOK, SessionTypeOK, Queues
<1>3. /\ c2s'[c] = Tail(c2s[c]) /\ \A d \in Conns : d # c => c2s'[d] = c2s[d] /\ s2c'[d] = s2c[d]
  BY <1>1, <1>2 DEF Queues, SendToClient, TypeOK, WireTypeOK
<1>4. \A d \in Conns : From(c2s'[d], c2s[d])
  BY <1>1, <1>2, <1>3, FromSame, FromTail
<1>5. \A i \in 1 .. Len(c2s'[c]) : ~IsStdin(c2s'[c][i])
  <2>1. \A i \in 1 .. Len(c2s[c]) : ~IsStdin(c2s[c][i])
    BY <1>1 DEF PendingInv, Pending
  <2> QED
    BY <1>4, <2>1 DEF From
<1>6. /\ task = "none" => task' = "running" /\ \A d \in Conns : ~Active(d)
      /\ task # "none" => task' = task
      /\ task' # "none" /\ ~(phase = "attached" /\ conn = c)
  <2>1. CASE HandleExec(c)
    <3>1. 1 \in 1 .. Len(c2s[c]) /\ c2s[c][1].type = "Exec"
      BY <1>2, <2>1, HeadFirst DEF HandleExec
    <3>2. task = "none"
      BY <3>1 DEF OutputInv, RequestInv, Request
    <3> QED
      BY <1>1, <2>1, <3>2 DEF HandleExec, NoSessionInv, PendingInv, Pending
  <2>2. CASE HandleResume(c)
    BY <1>1, <2>2 DEF HandleResume, NoSessionInv, PendingInv, Pending, taskVars
  <2> QED
    BY <2>1, <2>2
<1>7. KeptInv' /\ AppliedInv' /\ FlightInv'
  <2>1. stdin_applied <= stdin_applied'
    BY <1>1, <1>2, SMTT(60)
  <2> QED
    BY <1>1, <1>4, <2>1, FromSame, KeptFrame, AppliedFrame, FlightFrame
<1>8. ToldInv'
  <2>1. Started \in ChannelMessage /\ Started.type = "Started"
    BY MsgType, SMTT(60) DEF Started, Msg
  <2>2. /\ <<Started>> \in Seq(ChannelMessage)
        /\ \A i \in 1 .. Len(<<Started>>) : <<Started>>[i] = Started
    BY <2>1, SMTT(60)
  <2>3. ASSUME NEW d \in Conns, NEW i \in 1 .. Len(s2c'[d]), s2c'[d][i].type = "Ack"
        PROVE  s2c'[d][i].seq <= stdin_applied
    <3>1. \/ \E j \in 1 .. Len(s2c[d]) : s2c'[d][i] = s2c[d][j]
          \/ s2c'[d][i] = Started
      <4>1. CASE d = c /\ ClientOn(c)
        <5>1. /\ Len(s2c'[c]) = Len(s2c[c]) + Len(<<Started>>)
              /\ Len(s2c[c]) \in Nat /\ Len(<<Started>>) \in Nat
              /\ \A j \in 1 .. Len(s2c[c]) : s2c'[c][j] = s2c[c][j]
              /\ \A j \in 1 .. Len(<<Started>>) : s2c'[c][Len(s2c[c]) + j] = <<Started>>[j]
          BY <1>1, <2>2, <4>1, SentToClient DEF TypeOK, WireTypeOK, Queues
        <5>2. \/ i \in 1 .. Len(s2c[c])
              \/ i - Len(s2c[c]) \in 1 .. Len(<<Started>>) /\ i = Len(s2c[c]) + (i - Len(s2c[c]))
          BY <4>1, <5>1, SMTT(60)
        <5> QED
          BY <2>2, <4>1, <5>1, <5>2
      <4>2. CASE ~(d = c /\ ClientOn(c))
        BY <1>1, <2>2, <4>2, SentToClient DEF TypeOK, WireTypeOK, Queues
      <4> QED
        BY <4>1, <4>2
    <3>2. s2c'[d][i] # Started
      BY <2>1, <2>3
    <3> QED
      BY <2>3, <3>1, <3>2 DEF ToldInv
  <2> QED
    BY <1>1, <2>3 DEF ToldInv
<1>9. NoSessionInv'
  BY <1>6 DEF NoSessionInv
<1>10. PendingInv'
  <2> SUFFICES ASSUME NEW d \in Conns, Pending(d)'
               PROVE  /\ ~(phase = "attached" /\ conn = d)
                      /\ \A i \in 1 .. Len(c2s'[d]) : ~IsStdin(c2s'[d][i])
                      /\ \A i \in 1 .. Len(s2c'[d]) : s2c'[d][i].type # "Started"
    BY <1>1 DEF PendingInv, IsStdin
  <2>1. d # c /\ Pending(d)
    BY <1>2 DEF Pending
  <2> QED
    BY <1>3, <2>1 DEF PendingInv
<1>11. StoppedInv'
  <2>1. daemon # "down"
    BY <1>1 DEF DownInv
  <2> QED
    BY <1>1, <2>1 DEF StoppedInv
<1>12. QueueInv'
  <2>1. CASE task = "none"
    <3>1. \A i \in 1 .. Len(inbound) : ~IsStdin(inbound[i].msg)
      <4>1. client_seq = 0
        BY <2>1 DEF NoSessionInv
      <4>2. 1 .. client_seq = {}
        BY <4>1, SMTT(60)
      <4> QED
        BY <4>2 DEF FlightInv, Sound
    <3> QED
      BY <1>1, <3>1 DEF QueueInv, IsStdin
  <2>2. CASE task # "none"
    BY <1>1, <1>6, <2>2, QueueFrame
  <2> QED
    BY <2>1, <2>2
<1>13. FlowInv'
  <2>1. ASSUME task' = "running", NEW d \in Conns, Active(d)'
        PROVE  /\ \A i \in 1 .. Len(c2s'[d]) : IsStdin(c2s'[d][i]) =>
                     \A k \in stdin_applied + 1 .. c2s'[d][i].seq - 1 :
                        \/ k \in dropped \/ Holds(c2s'[d], i - 1, k)
                        \/ Queued(inbound, Len(inbound), k)
               /\ conn = d /\ phase = "attached" =>
                     \A k \in stdin_applied + 1 .. client_seq :
                        \/ k \in dropped \/ Holds(c2s'[d], Len(c2s'[d]), k)
                        \/ Queued(inbound, Len(inbound), k)
    <3>1. CASE d = c
      BY <1>5, <1>6, <3>1
    <3>2. CASE d # c
      <4>1. Active(d) /\ c2s'[d] = c2s[d]
        BY <1>2, <1>3, <2>1, <3>2 DEF Active
      <4>2. task = "running"
        BY <1>6, <2>1, <4>1
      <4> QED
        BY <4>1, <4>2 DEF FlowInv
    <3> QED
      BY <3>1, <3>2
  <2> QED
    BY <1>1, <2>1, FlowNext
<1> QED
  BY <1>7, <1>8, <1>9, <1>10, <1>11, <1>12, <1>13

\* What a handler that goes on after select! leaves of the connections.
LEMMA TakenFrames ==
    ASSUME TypeOK, NEW c \in Conns, handler[c] = "select", Goto(c, "pump"),
           \/ UNCHANGED c2s
           \/ c2s[c] # <<>> /\ c2s' = [c2s EXCEPT ![c] = Tail(@)]
    PROVE  /\ \A d \in Conns : (Active(d)' => Active(d)) /\ (Pending(d)' => Pending(d))
           /\ \A d \in Conns : From(c2s'[d], c2s[d])
           /\ \A d \in Conns : \/ c2s'[d] = c2s[d]
                               \/ d = c /\ c2s[c] # <<>> /\ c2s'[c] = Tail(c2s[c])
<1>1. \A d \in Conns : (Active(d)' => Active(d)) /\ (Pending(d)' => Pending(d))
  BY DEF Goto, Active, Pending, TypeOK, HandlerTypeOK
<1>2. \A d \in Conns : \/ c2s'[d] = c2s[d]
                       \/ d = c /\ c2s[c] # <<>> /\ c2s'[c] = Tail(c2s[c])
  BY DEF TypeOK, WireTypeOK
<1>3. \A d \in Conns : c2s[d] \in Seq(ChannelMessage)
  BY DEF TypeOK, WireTypeOK
<1>4. \A d \in Conns : From(c2s'[d], c2s[d])
  BY <1>2, <1>3, FromSame, FromTail
<1> QED
  BY <1>1, <1>2, <1>4

LEMMA RecvAckStdin ==
    ASSUME TypeOK, TypeOK', StdinInv, NEW c \in Conns, RecvAck(c)
    PROVE  StdinInv'
<1>1. /\ UNCHANGED <<client_seq, dropped, sent_stdin, resume_token, conn, phase, stdin_applied,
                     child_in, stdin, record, task, daemon, inbound, s2c>>
      /\ handler[c] = "select" /\ c2s[c] # <<>> /\ Head(c2s[c]).type = "Ack"
  BY DEF RecvAck, clientVars, taskVars
<1>2. \A d \in Conns : Answers(s2c'[d], s2c[d], stdin_applied)
  BY <1>1 DEF Answers
<1>3. CASE registered' = FALSE /\ Close(c)
  BY <1>1, <1>2, <1>3, ClosedStdin, HandlerQuiet
<1>4. CASE /\ Goto(c, "pump") /\ c2s' = [c2s EXCEPT ![c] = Tail(@)]
           /\ UNCHANGED <<registered, dgc2s>>
  <2>1. /\ \A d \in Conns : (Active(d)' => Active(d)) /\ (Pending(d)' => Pending(d))
        /\ \A d \in Conns : From(c2s'[d], c2s[d])
        /\ \A d \in Conns : \/ c2s'[d] = c2s[d]
                            \/ d = c /\ c2s[c] # <<>> /\ c2s'[c] = Tail(c2s[c])
    BY <1>1, <1>4, TakenFrames
  <2>2. KeptInv' /\ AppliedInv' /\ ToldInv' /\ NoSessionInv' /\ PendingInv' /\ StoppedInv'
    BY <1>1, <1>2, <1>4, <2>1, HandlerFrame
  <2>3. FlightInv' /\ QueueInv'
    BY <1>1, <1>4, <2>1, FromSame, FlightFrame, QueueFrame DEF StdinInv
  <2>4. FlowInv'
    <3>1. ~IsStdin(Head(c2s[c]))
      BY <1>1 DEF IsStdin
    <3> QED
      BY <1>1, <2>1, <3>1, TakenFlow DEF StdinInv
  <2> QED
    BY <2>2, <2>3, <2>4 DEF StdinInv
<1> QED
  BY <1>3, <1>4 DEF RecvAck

LEMMA RecvFrameStdin ==
    ASSUME TypeOK, TypeOK', DownInv, StdinInv, NEW c \in Conns, RecvFrame(c) \/ RecvDatagram(c)
    PROVE  StdinInv'
<1>1. /\ UNCHANGED <<client_seq, dropped, sent_stdin, resume_token, conn, phase, stdin_applied,
                     child_in, stdin, record, task, daemon, registered, s2c>>
      /\ handler[c] = "select" /\ Goto(c, "pump")
      /\ \/ UNCHANGED c2s
         \/ c2s[c] # <<>> /\ c2s' = [c2s EXCEPT ![c] = Tail(@)]
  BY DEF RecvFrame, RecvDatagram, clientVars, taskVars, daemonVars
<1>2. /\ \A d \in Conns : (Active(d)' => Active(d)) /\ (Pending(d)' => Pending(d))
      /\ \A d \in Conns : From(c2s'[d], c2s[d])
      /\ \A d \in Conns : \/ c2s'[d] = c2s[d]
                          \/ d = c /\ c2s[c] # <<>> /\ c2s'[c] = Tail(c2s[c])
  BY <1>1, TakenFrames
<1>3. \A d \in Conns : dgc2s'[d] \subseteq dgc2s[d]
  BY DEF RecvFrame, RecvDatagram, TypeOK, WireTypeOK
<1>4. \A d \in Conns : Answers(s2c'[d], s2c[d], stdin_applied)
  BY <1>1 DEF Answers
<1>5. daemon # "down" /\ Active(c)
  BY <1>1 DEF DownInv, Active
<1>6. KeptInv' /\ AppliedInv' /\ ToldInv' /\ NoSessionInv' /\ PendingInv' /\ StoppedInv'
  BY <1>1, <1>2, <1>4, <1>5, HandlerFrame
<1>7. CASE task # "running"
  <2>1. UNCHANGED inbound
    BY <1>7 DEF RecvFrame, RecvDatagram, Forward
  <2>2. FlightInv' /\ QueueInv'
    BY <1>1, <1>2, <1>3, <2>1, FromSame, FlightFrame, QueueFrame DEF StdinInv
  <2>3. FlowInv'
    BY <1>1, <1>7 DEF FlowInv
  <2> QED
    BY <1>6, <2>2, <2>3 DEF StdinInv
<1>8. CASE task = "running"
  <2>1. PICK x \in Inputs :
           /\ inbound' = Append(inbound, x)
           /\ IsStdin(x.msg) => Sound(x.msg)
           /\ \/ /\ c2s[c] # <<>> /\ x = [kind |-> "Message", msg |-> Head(c2s[c])]
              \/ x.kind = "Datagram" /\ UNCHANGED c2s
    <3>1. CASE RecvFrame(c)
      <4> DEFINE m == Head(c2s[c])
                 x == [kind |-> "Message", msg |-> m]
      <4>1. /\ inbound' = Append(inbound, x) /\ c2s[c] # <<>>
            /\ c2s[c] \in Seq(ChannelMessage) /\ c2s \in Queues
        BY <1>8, <3>1 DEF RecvFrame, Forward, TypeOK, WireTypeOK, Queues
      <4>2. m \in ChannelMessage /\ 1 \in 1 .. Len(c2s[c]) /\ m = c2s[c][1]
        BY <4>1, QueueHeadTail, HeadFirst
      <4>3. x \in Inputs /\ x.msg = m
        BY <4>2 DEF Inputs
      <4>4. IsStdin(m) => Sound(m)
        BY <4>2 DEF StdinInv, FlightInv
      <4> QED
        BY <4>1, <4>3, <4>4
    <3>2. CASE RecvDatagram(c)
      <4>1. PICK m \in dgc2s[c] : Forward("Datagram", m)
        BY <3>2 DEF RecvDatagram
      <4> DEFINE x == [kind |-> "Datagram", msg |-> m]
      <4>2. inbound' = Append(inbound, x) /\ UNCHANGED c2s
        BY <1>8, <3>2, <4>1 DEF RecvDatagram, Forward
      <4>3. m \in ChannelMessage
        BY DEF TypeOK, WireTypeOK
      <4>4. x \in Inputs /\ x.msg = m /\ x.kind = "Datagram"
        BY <4>3 DEF Inputs
      <4>5. IsStdin(m) => Sound(m)
        BY DEF StdinInv, FlightInv
      <4> QED
        BY <4>2, <4>4, <4>5
    <3> QED
      BY <3>1, <3>2
  <2>2. FlightInv'
    BY <1>1, <1>2, <1>3, <2>1, FlightAppended DEF StdinInv
  <2>3. inbound \in Seq(Inputs)
    BY DEF TypeOK
  <2>4. /\ \A k : Queued(inbound, Len(inbound), k) => Queued(inbound', Len(inbound'), k)
        /\ x.kind = "Message" /\ IsStdin(x.msg) => Queued(inbound', Len(inbound'), x.msg.seq)
    BY <2>1, <2>3, QueuedAppend
  <2>5. CASE c2s[c] # <<>> /\ x = [kind |-> "Message", msg |-> Head(c2s[c])]
    <3>1. x.kind = "Message" /\ x.msg = Head(c2s[c])
      BY <2>5
    <3>2. ASSUME IsStdin(x.msg), NEW k \in stdin_applied + 1 .. x.msg.seq - 1
          PROVE  k \in dropped \/ Queued(inbound, Len(inbound), k)
      <4>1. 1 \in 1 .. Len(c2s[c]) /\ x.msg = c2s[c][1]
        BY <2>5, <3>1, HeadFirst DEF TypeOK, WireTypeOK
      <4>2. \/ k \in dropped \/ Holds(c2s[c], 1 - 1, k)
            \/ Queued(inbound, Len(inbound), k)
        BY <1>5, <1>8, <3>2, <4>1 DEF StdinInv, FlowInv
      <4>3. ~Holds(c2s[c], 1 - 1, k)
        BY SMTT(60) DEF Holds
      <4> QED
        BY <4>2, <4>3
    <3>3. QueueInv'
      BY <1>1, <2>1, <3>2, QueueAppended DEF StdinInv
    <3>4. FlowInv'
      BY <1>1, <1>2, <2>4, <3>1, TakenFlow DEF StdinInv
    <3> QED
      BY <1>6, <2>2, <3>3, <3>4 DEF StdinInv
  <2>6. CASE x.kind = "Datagram" /\ UNCHANGED c2s
    <3>1. QueueInv'
      BY <1>1, <2>1, <2>6, QueueAppended DEF StdinInv
    <3>2. FlowInv'
      BY <1>1, <1>2, <2>4, <2>6, TakenFlow DEF StdinInv
    <3> QED
      BY <1>6, <2>2, <3>1, <3>2 DEF StdinInv
  <2> QED
    BY <2>1, <2>5, <2>6
<1> QED
  BY <1>7, <1>8

LEMMA HandlerStdin == TypeOK /\ OutputInv /\ DownInv /\ StdinInv /\ HandlerNext => StdinInv'
<1> SUFFICES ASSUME TypeOK, OutputInv, DownInv, StdinInv, HandlerNext PROVE StdinInv'
  OBVIOUS
<1>1. TypeOK'
  BY HandlerType
<1> QED
  BY <1>1, IdleStdin, PumpStdin, AttachStdin, RecvAckStdin, RecvFrameStdin DEF HandlerNext
=============================================================================
