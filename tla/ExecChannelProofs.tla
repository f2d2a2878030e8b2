------------------------- MODULE ExecChannelProofs --------------------------
(***************************************************************************)
(* Every step of the session task and of the daemon preserves the types and*)
(* the invariants of an exec; with the steps of the client and of the      *)
(* handlers, this gives the theorems about one resumable exec, for all     *)
(* bounds.                                                                 *)
(***************************************************************************)
EXTENDS ExecChannel, ExecClientProofs, ExecAttachProofs

\* A leaf that names no prover is Zenon's; what needs arithmetic goes to SMT.
USE ZenonT(60)

-----------------------------------------------------------------------------
(* Types: the session task                                                  *)

LEMMA EmptyLogType == Empty \in Log
  BY EmptySeq DEF Empty, Log

LEMMA NoRecordType == NoRecord \in Records
  BY EmptyLogType DEF NoRecord, Records

LEMMA PushOutType ==
    ASSUME SessionTypeOK, log \in Log, NEW m \in ChannelMessage, PushOut(m)
    PROVE  seq' \in Nat /\ log' \in Log /\ emitted' \in Seq(ChannelMessage)
<1>1. m.seq \in Nat
  BY DEF ChannelMessage
<1>2. Push(log, m) \in Log
  BY <1>1, LogType
<1>3. Append(emitted, m) \in Seq(ChannelMessage)
  BY AppendProperties DEF SessionTypeOK
<1>4. QED
  BY <1>1, <1>2, <1>3 DEF PushOut

LEMMA LoopTailType ==
    ASSUME SessionTypeOK, log \in Log, NEW o, NEW n \in Nat \cup {NoCode}, LoopTail(o, n)
    PROVE  /\ seq' \in Nat /\ log' \in Log /\ emitted' \in Seq(ChannelMessage)
           /\ task' \in {task, "ended"}
<1>1. CASE Complete(o, n)
  <2>1. n \in Nat /\ seq + 1 \in Nat
    BY <1>1, SMTT(60) DEF Complete, SessionTypeOK
  <2>2. Exit(seq + 1, n) \in ChannelMessage
    BY <2>1, MsgType
  <2>3. PushOut(Exit(seq + 1, n)) /\ task' = "ended"
    BY <1>1 DEF LoopTail
  <2>4. QED
    BY <2>2, <2>3, PushOutType
<1>2. CASE ~Complete(o, n)
  BY <1>2 DEF LoopTail, SessionTypeOK
<1>3. QED
  BY <1>1, <1>2

LEMMA TaskOutputType ==
    ASSUME TypeOK, TaskExitCode \/ \E s \in Stdio : TaskRead(s) \/ TaskEof(s)
    PROVE  TypeOK'
<1> USE DEF TypeOK
<1>1. ASSUME NEW s \in Stdio, TaskRead(s) PROVE TypeOK'
  <2>1. seq + 1 \in Nat /\ Len(emitted) + 1 \in Nat
    BY LenProperties, SMTT(60) DEF SessionTypeOK
  <2>2. Output(s, seq + 1, Len(emitted) + 1) \in ChannelMessage
    BY <2>1, MsgType
  <2>3. seq' \in Nat /\ log' \in Log /\ emitted' \in Seq(ChannelMessage)
    BY <1>1, <2>2, PushOutType DEF TaskRead
  <2>4. SessionTypeOK'
    BY <1>1, <2>3 DEF TaskRead, SessionTypeOK
  <2>5. QED
    BY <1>1, <2>3, <2>4, ClientUnchanged, WireUnchanged, HandlerUnchanged, DaemonUnchanged
       DEF TaskRead
<1>2. ASSUME NEW s \in Stdio, TaskEof(s) PROVE TypeOK'
  <2>1. exit_code \in Nat \cup {NoCode}
    BY DEF SessionTypeOK
  <2>2. /\ seq' \in Nat /\ log' \in Log /\ emitted' \in Seq(ChannelMessage)
        /\ task' \in {task, "ended"}
    BY <1>2, <2>1, LoopTailType DEF TaskEof
  <2>3. open' \in [Stdio -> BOOLEAN] /\ writer' \in [Stdio -> BOOLEAN]
    BY <1>2 DEF TaskEof, SessionTypeOK
  <2>4. SessionTypeOK'
    BY <1>2, <2>2, <2>3 DEF TaskEof, SessionTypeOK
  <2>5. QED
    BY <1>2, <2>2, <2>4, ClientUnchanged, WireUnchanged, HandlerUnchanged, DaemonUnchanged
       DEF TaskEof
<1>3. ASSUME TaskExitCode PROVE TypeOK'
  <2>1. exit_code' \in Nat
    BY <1>3, BoundsAssumption, SMTT(60) DEF TaskExitCode, WrapperKilled
  <2>2. /\ seq' \in Nat /\ log' \in Log /\ emitted' \in Seq(ChannelMessage)
        /\ task' \in {task, "ended"}
    BY <1>3, <2>1, LoopTailType DEF TaskExitCode
  <2>3. SessionTypeOK'
    BY <1>3, <2>1, <2>2 DEF TaskExitCode, SessionTypeOK
  <2>4. QED
    BY <1>3, <2>2, <2>3, ClientUnchanged, WireUnchanged, HandlerUnchanged, DaemonUnchanged
       DEF TaskExitCode
<1>4. QED
  BY <1>1, <1>2, <1>3

LEMMA SnapshotType ==
    ASSUME SessionTypeOK, log \in Log
    PROVE  Snapshot \in Records
  BY DEF Snapshot, Records, SessionTypeOK

LEMMA TaskInputType ==
    ASSUME TypeOK, TaskStdin \/ TaskHandover
    PROVE  TypeOK'
<1> USE DEF TypeOK
<1>1. inbound # <<>> /\ Head(inbound) \in Inputs /\ Tail(inbound) \in Seq(Inputs)
  BY HeadTailProperties DEF TaskStdin, TaskHandover
<1>2. Head(inbound).msg.seq \in Nat /\ Head(inbound).msg.data \in Nat
  BY <1>1 DEF Inputs, ChannelMessage
<1>3. CASE TaskStdin
  <2>1. stdin_applied' \in Nat
    BY <1>2, <1>3 DEF TaskStdin, SessionTypeOK
  <2>2. Append(child_in, Head(inbound).msg.data) \in Seq(Nat)
    BY <1>2, AppendProperties DEF SessionTypeOK
  <2>3. child_in' \in Seq(Nat)
    BY <1>3, <2>2 DEF TaskStdin, WriteStdin, SessionTypeOK
  <2>4. stdin' \in BOOLEAN
    BY <1>3 DEF TaskStdin, WriteStdin, SessionTypeOK
  <2>5. SessionTypeOK'
    BY <1>3, <2>1, <2>3, <2>4 DEF TaskStdin, SessionTypeOK
  <2>6. QED
    BY <1>1, <1>3, <2>5, ClientUnchanged, WireUnchanged, HandlerUnchanged, DaemonUnchanged
       DEF TaskStdin
<1>4. CASE TaskHandover
  <2>1. record' \in Records
    BY <1>4, SnapshotType, NoRecordType DEF TaskHandover
  <2>2. DaemonTypeOK'
    BY <1>4, <2>1 DEF TaskHandover, DaemonTypeOK
  <2>3. SessionTypeOK'
    BY <1>4 DEF TaskHandover, SessionTypeOK
  <2>4. inbound' \in Seq(Inputs)
    BY <1>4, EmptySeq DEF TaskHandover
  <2>5. QED
    BY <1>4, <2>2, <2>3, <2>4, ClientUnchanged, WireUnchanged, HandlerUnchanged
       DEF TaskHandover
<1>5. QED
  BY <1>3, <1>4

LEMMA TaskType == TypeOK /\ TaskNext => TypeOK'
  BY TaskOutputType, TaskInputType DEF TaskNext

-----------------------------------------------------------------------------
(* Types: the daemon                                                        *)

\* The handlers of a set of connections return.
LEMMA CloseAllType ==
    ASSUME WireTypeOK, HandlerTypeOK, NEW cs, CloseAll(cs), UNCHANGED <<s2c, dgs2c>>
    PROVE  WireTypeOK' /\ HandlerTypeOK'
<1>1. <<>> \in Seq(ChannelMessage) /\ {} \in SUBSET ChannelMessage
  BY EmptySeq
<1>2. WireTypeOK'
  BY <1>1 DEF WireTypeOK, CloseAll
<1>3. HandlerTypeOK'
  BY DEF HandlerTypeOK, CloseAll
<1>4. QED
  BY <1>2, <1>3

LEMMA GoneType ==
    ASSUME TypeOK, Gone, record' \in Records
    PROVE  TypeOK'
<1> USE DEF TypeOK
<1>1. WireTypeOK' /\ HandlerTypeOK'
  BY CloseAllType DEF Gone
<1>2. SessionTypeOK'
  BY DEF Gone, SessionTypeOK
<1>3. DaemonTypeOK'
  BY DEF Gone, DaemonTypeOK
<1>4. inbound' \in Seq(Inputs)
  BY EmptySeq DEF Gone
<1>5. QED
  BY <1>1, <1>2, <1>3, <1>4, ClientUnchanged DEF Gone

LEMMA DaemonType == TypeOK /\ DaemonNext => TypeOK'
<1>1. SUFFICES ASSUME TypeOK, DaemonNext PROVE TypeOK'
  OBVIOUS
<1> USE DEF TypeOK
<1>2. CASE Sigterm
  <2>1. WireTypeOK' /\ HandlerTypeOK'
    BY <1>1, <1>2, CloseAllType DEF Sigterm
  <2>2. DaemonTypeOK'
    BY <1>1, <1>2 DEF Sigterm, DaemonTypeOK
  <2>3. QED
    BY <1>1, <1>2, <2>1, <2>2, ClientUnchanged, SessionUnchanged DEF Sigterm
<1>3. CASE AskHandover
  <2>1. [kind |-> "Handover", msg |-> Ack(0)] \in Inputs
    BY MsgType DEF Inputs
  <2>2. inbound' \in Seq(Inputs)
    BY <1>1, <1>3, <2>1, AppendProperties DEF AskHandover
  <2>3. DaemonTypeOK'
    BY <1>1, <1>3 DEF AskHandover, DaemonTypeOK
  <2>4. QED
    BY <1>1, <1>3, <2>2, <2>3, ClientUnchanged, WireUnchanged, HandlerUnchanged,
       SessionUnchanged DEF AskHandover
<1>4. CASE CollectHandover \/ NoHandover
  <2>1. DaemonTypeOK'
    BY <1>1, <1>4 DEF CollectHandover, NoHandover, DaemonTypeOK
  <2>2. QED
    BY <1>1, <1>4, <2>1, ClientUnchanged, WireUnchanged, HandlerUnchanged, SessionUnchanged
       DEF CollectHandover, NoHandover
<1>5. CASE DaemonExit \/ Crash
  <2>1. record' \in Records
    BY <1>1, <1>5, NoRecordType DEF DaemonExit, Crash, DaemonTypeOK
  <2>2. QED
    BY <1>1, <1>5, <2>1, GoneType DEF DaemonExit, Crash
<1>6. CASE Restart
  <2>1. /\ record.log \in Log /\ record.stdin_applied \in Nat /\ record.stdin \in BOOLEAN
        /\ record.exit_code \in Nat \cup {NoCode} /\ record.present \in BOOLEAN
    BY <1>1 DEF DaemonTypeOK, Records
  <2>2. Latest(record.log) \in Nat
    BY <2>1, MsgType, LogType
  <2>3. log' \in Log /\ seq' \in Nat /\ stdin_applied' \in Nat /\ exit_code' \in Nat \cup {NoCode}
    BY <1>1, <1>6, <2>1, <2>2 DEF Restart, SessionTypeOK
  <2>4. stdin' \in BOOLEAN /\ open' \in [Stdio -> BOOLEAN]
    BY <1>1, <1>6, <2>1 DEF Restart, SessionTypeOK
  <2>5. task' \in {task, "running"} /\ UNCHANGED <<child_in, writer, emitted>>
    BY <1>6 DEF Restart
  <2>6. SessionTypeOK'
    BY <1>1, <2>3, <2>4, <2>5 DEF SessionTypeOK
  <2>7. DaemonTypeOK'
    BY <1>1, <1>6, <2>1, NoRecordType, SMTT(60) DEF Restart, DaemonTypeOK
  <2>8. QED
    BY <1>1, <1>6, <2>3, <2>6, <2>7, ClientUnchanged, WireUnchanged, HandlerUnchanged
       DEF Restart
<1>7. QED
  BY <1>1, <1>2, <1>3, <1>4, <1>5, <1>6 DEF DaemonNext

-----------------------------------------------------------------------------
(* Output: the session task                                                 *)

\* While the task runs the exec is not over, and no request for a new one is left.
LEMMA Running ==
    ASSUME TypeOK, OutputInv, task \in {"running", "handed"}
    PROVE  /\ \A i \in 1 .. Len(emitted) : emitted[i].type # "Exit"
           /\ ~Finished /\ phase # "done" /\ conn # 0
           /\ \A c \in Conns : exit_seq[c] = 0
           /\ \A c \in Conns : \A i \in 1 .. Len(c2s[c]) : c2s[c][i].type # "Exec"
<1>1. \A i \in 1 .. Len(emitted) : emitted[i].type # "Exit"
  BY DEF OutputInv, EmittedInv
<1>2. ~Finished
  <2>1. emitted \in Seq(ChannelMessage)
    BY DEF TypeOK, SessionTypeOK
  <2>2. emitted # <<>> => Len(emitted) \in 1 .. Len(emitted)
    BY <2>1, LenProperties, EmptySeq, SMTT(60)
  <2>3. QED
    BY <1>1, <2>2 DEF Finished
<1>3. phase # "done" /\ conn # 0 /\ \A c \in Conns : exit_seq[c] = 0
  BY <1>2 DEF OutputInv, ClientInv, ExitComplete, CarriedInv, SessionInv
<1>4. \A c \in Conns : \A i \in 1 .. Len(c2s[c]) : c2s[c][i].type # "Exec"
  BY DEF OutputInv, RequestInv, Request
<1>5. QED
  BY <1>1, <1>2, <1>3, <1>4

\* What was pushed before a push is still there after it.
LEMMA EmittedGrows ==
    ASSUME TypeOK, NEW m \in ChannelMessage, emitted' = Append(emitted, m)
    PROVE  /\ Len(emitted') = Len(emitted) + 1 /\ Len(emitted) \in Nat
           /\ emitted'[Len(emitted) + 1] = m
           /\ \A i \in 1 .. Len(emitted) : emitted'[i] = emitted[i]
           /\ \A n : IsEmitted(n) => IsEmitted(n)'
<1>1. emitted \in Seq(ChannelMessage)
  BY DEF TypeOK, SessionTypeOK
<1>2. /\ Len(emitted') = Len(emitted) + 1 /\ Len(emitted) \in Nat
      /\ emitted'[Len(emitted) + 1] = m
      /\ \A i \in 1 .. Len(emitted) : emitted'[i] = emitted[i]
  BY <1>1, AppendProperties, LenProperties, SMTT(60)
<1>3. ASSUME NEW n, IsEmitted(n) PROVE IsEmitted(n)'
  <2>1. n.seq \in 1 .. Len(emitted) /\ n = emitted[n.seq]
    BY <1>3 DEF IsEmitted
  <2>2. n.seq \in 1 .. Len(emitted') /\ emitted'[n.seq] = emitted[n.seq]
    BY <1>2, <2>1, SMTT(60)
  <2>3. QED
    BY <2>1, <2>2 DEF IsEmitted
<1>4. QED
  BY <1>2, <1>3

LEMMA PushMatches ==
    ASSUME TypeOK, OutputInv, NEW m \in ChannelMessage, m.seq = seq + 1, PushOut(m)
    PROVE  LogMatches(log)' /\ log'.trimmed = log.trimmed
<1>1. /\ Len(emitted') = Len(emitted) + 1 /\ Len(emitted) \in Nat
      /\ emitted'[Len(emitted) + 1] = m
      /\ \A i \in 1 .. Len(emitted) : emitted'[i] = emitted[i]
  BY EmittedGrows DEF PushOut
<1>2. /\ log.trimmed \in Nat /\ log.buffer \in Seq(ChannelMessage)
      /\ log = [trimmed |-> log.trimmed, buffer |-> log.buffer]
  BY DEF TypeOK, Log
<1>3. log'.trimmed = log.trimmed /\ log'.buffer = Append(log.buffer, m)
  BY <1>2 DEF PushOut, Push
<1>4. /\ Len(log'.buffer) = Len(log.buffer) + 1 /\ Len(log.buffer) \in Nat
      /\ log'.buffer[Len(log.buffer) + 1] = m
      /\ \A i \in 1 .. Len(log.buffer) : log'.buffer[i] = log.buffer[i]
  BY <1>2, <1>3, AppendProperties, LenProperties, SMTT(60)
<1>5. /\ log.trimmed + Len(log.buffer) = Len(emitted) /\ seq = Len(emitted)
      /\ \A i \in 1 .. Len(log.buffer) : /\ log.buffer[i] = emitted[log.trimmed + i]
                                         /\ log.buffer[i].seq = log.trimmed + i
  BY DEF OutputInv, SessionInv, LogFaithful, LogMatches, Latest, EmittedInv
<1>6. Latest(log') = Len(emitted')
  <2>1. Latest(log') = log'.trimmed + Len(log'.buffer)
    BY DEF Latest
  <2>2. log'.trimmed = log.trimmed /\ Len(log'.buffer) = Len(log.buffer) + 1
    BY <1>3, <1>4
  <2>3. Len(log.buffer) \in Nat /\ log.trimmed \in Nat /\ Len(emitted') = Len(emitted) + 1
    BY <1>1, <1>2, <1>4
  <2>4. log.trimmed + Len(log.buffer) = Len(emitted)
    BY <1>5
  <2>5. QED
    BY <2>1, <2>2, <2>3, <2>4, SMTT(60)
<1>7. ASSUME NEW i \in 1 .. Len(log'.buffer)
      PROVE  /\ log'.buffer[i] = emitted'[log'.trimmed + i]
             /\ log'.buffer[i].seq = log'.trimmed + i
  <2>1. CASE i \in 1 .. Len(log.buffer)
    <3>1. log.trimmed + i \in 1 .. Len(emitted)
      BY <1>2, <1>4, <1>5, <2>1, SMTT(60)
    <3>2. QED
      BY <1>1, <1>3, <1>4, <1>5, <2>1, <3>1
  <2>2. CASE i \notin 1 .. Len(log.buffer)
    <3>1. i = Len(log.buffer) + 1
      BY <1>4, <2>2, SMTT(60)
    <3>2. log.trimmed + i = Len(emitted) + 1
      BY <1>2, <1>4, <1>5, <3>1, SMTT(60)
    <3>3. QED
      BY <1>1, <1>3, <1>4, <1>5, <3>1, <3>2
  <2>3. QED
    BY <2>1, <2>2
<1>8. QED
  BY <1>3, <1>6, <1>7 DEF LogMatches

\* The running task pushes its next message; an Exit is its last.
LEMMA PushOutput ==
    ASSUME TypeOK, OutputInv, task = "running", NEW m \in ChannelMessage, m.seq = seq + 1,
           Data(m), m.type = "Exit" => task' = "ended", task' \in {"running", "ended"},
           PushOut(m), UNCHANGED <<clientVars, wireVars, handlerVars, record>>
    PROVE  OutputInv'
<1>1. /\ UNCHANGED <<c2s, s2c, dgs2c, conn, phase, last_server_seq, handler, sent_up_to, exit_seq>>
      /\ UNCHANGED <<resume_token, out, code, sent_stdin>>
  BY DEF clientVars, wireVars, handlerVars
<1>2. /\ Len(emitted') = Len(emitted) + 1 /\ Len(emitted) \in Nat
      /\ emitted'[Len(emitted) + 1] = m
      /\ \A i \in 1 .. Len(emitted) : emitted'[i] = emitted[i]
      /\ \A n : IsEmitted(n) => IsEmitted(n)'
  BY EmittedGrows DEF PushOut
<1>3. /\ \A i \in 1 .. Len(emitted) : emitted[i].type # "Exit"
      /\ phase # "done" /\ conn # 0
      /\ \A c \in Conns : exit_seq[c] = 0
      /\ \A c \in Conns : \A i \in 1 .. Len(c2s[c]) : c2s[c][i].type # "Exec"
  BY Running
<1>4. LogMatches(log)' /\ log'.trimmed = log.trimmed
  BY PushMatches
<1>5. EmittedInv'
  <2>1. seq = Len(emitted) /\ \A i \in 1 .. Len(emitted) : emitted[i].seq = i /\ Data(emitted[i])
    BY DEF OutputInv, EmittedInv
  <2>2. seq' = Len(emitted')
    BY <1>2, <2>1 DEF PushOut
  <2>3. ASSUME NEW i \in 1 .. Len(emitted')
        PROVE  /\ emitted'[i].seq = i /\ Data(emitted'[i])
               /\ emitted'[i].type = "Exit" => i = Len(emitted') /\ task' = "ended"
    <3>1. CASE i \in 1 .. Len(emitted)
      BY <1>2, <1>3, <2>1, <3>1
    <3>2. CASE i \notin 1 .. Len(emitted)
      <4>1. i = Len(emitted) + 1
        BY <1>2, <3>2, SMTT(60)
      <4>2. QED
        BY <1>2, <2>1, <4>1
    <3>3. QED
      BY <3>1, <3>2
  <2>4. QED
    BY <2>2, <2>3 DEF EmittedInv, Data
<1>6. SessionInv'
  <2>1. ~record.present
    BY DEF OutputInv, SessionInv
  <2>2. QED
    BY <1>1, <1>3, <1>4, <2>1 DEF SessionInv, LogFaithful, LogMatches
<1>7. RequestInv'
  BY <1>1, <1>3 DEF OutputInv, RequestInv, ClientOn
<1>8. AckInv' /\ NoGapInv'
  BY <1>1, AckFrame, NoGapFrame DEF OutputInv
<1>9. CarriedInv'
  BY <1>1, <1>2, <1>3 DEF OutputInv, CarriedInv
<1>10. SentInv'
  <2>1. \A c \in Conns : sent_up_to[c] \in Nat
    BY DEF TypeOK, HandlerTypeOK
  <2>2. \A c \in Conns : sent_up_to[c] <= Len(emitted) => sent_up_to[c] <= Len(emitted')
    BY <1>2, <2>1, SMTT(60)
  <2>3. \A c \in Conns : ClientOn(c)' = ClientOn(c) /\ Active(c)' = Active(c)
    BY <1>1 DEF ClientOn, Active
  <2>4. QED
    BY <1>1, <2>2, <2>3 DEF OutputInv, SentInv
<1>11. ClientInv'
  <2>1. last_server_seq \in Nat
    BY DEF TypeOK, ClientTypeOK
  <2>2. OutputExact'
    BY <1>1, <1>2, <2>1, SMTT(60) DEF OutputInv, ClientInv, OutputExact
  <2>3. ExitComplete'
    BY <1>1, <1>3 DEF ExitComplete
  <2>4. ReplayPossible'
    BY <1>1, <1>4 DEF OutputInv, ClientInv, ReplayPossible
  <2>5. QED
    BY <1>1, <2>2, <2>3, <2>4 DEF OutputInv, ClientInv
<1>12. QED
  BY <1>5, <1>6, <1>7, <1>8, <1>9, <1>10, <1>11 DEF OutputInv

LEMMA LoopTailOutput ==
    ASSUME TypeOK, OutputInv, task = "running", NEW o, NEW n \in Nat \cup {NoCode},
           LoopTail(o, n), UNCHANGED <<clientVars, wireVars, handlerVars, record>>
    PROVE  OutputInv'
<1>1. CASE Complete(o, n)
  <2>1. n \in Nat /\ seq + 1 \in Nat
    BY <1>1, SMTT(60) DEF Complete, TypeOK, SessionTypeOK
  <2>2. Exit(seq + 1, n) \in ChannelMessage
    BY <2>1, MsgType
  <2>3. PushOut(Exit(seq + 1, n)) /\ task' = "ended"
    BY <1>1 DEF LoopTail
  <2>4. Exit(seq + 1, n).seq = seq + 1 /\ Data(Exit(seq + 1, n))
    BY DEF Exit, Msg, Data
  <2>5. QED
    BY <2>2, <2>3, <2>4, PushOutput
<1>2. CASE ~Complete(o, n)
  <2>1. UNCHANGED <<seq, log, emitted, task, clientVars, wireVars, handlerVars, record>>
    BY <1>2 DEF LoopTail
  <2>2. QED
    BY <2>1, NothingMoves
<1>3. QED
  BY <1>1, <1>2

LEMMA TaskOutput == TypeOK /\ OutputInv /\ TaskNext => OutputInv'
<1>1. SUFFICES ASSUME TypeOK, OutputInv, TaskNext PROVE OutputInv'
  OBVIOUS
<1>2. ASSUME NEW s \in Stdio, TaskRead(s) PROVE OutputInv'
  <2> DEFINE m == Output(s, seq + 1, Len(emitted) + 1)
  <2>1. seq + 1 \in Nat /\ Len(emitted) + 1 \in Nat
    BY <1>1, LenProperties, SMTT(60) DEF TypeOK, SessionTypeOK
  <2>2. m \in ChannelMessage
    BY <2>1, MsgType
  <2>3. m.seq = seq + 1 /\ Data(m) /\ m.type # "Exit"
    BY DEF Output, Msg, Data, Stdio
  <2>4. /\ task = "running" /\ UNCHANGED task /\ PushOut(m)
        /\ UNCHANGED <<clientVars, wireVars, handlerVars, record>>
    BY <1>2 DEF TaskRead, daemonVars
  <2> HIDE DEF m
  <2>5. QED
    BY <1>1, <2>2, <2>3, <2>4, PushOutput
<1>3. ASSUME NEW s \in Stdio, TaskEof(s) PROVE OutputInv'
  <2>1. exit_code \in Nat \cup {NoCode}
    BY <1>1 DEF TypeOK, SessionTypeOK
  <2>2. /\ task = "running" /\ LoopTail(open', exit_code)
        /\ UNCHANGED <<clientVars, wireVars, handlerVars, record>>
    BY <1>3 DEF TaskEof, daemonVars
  <2>3. QED
    BY <1>1, <2>1, <2>2, LoopTailOutput
<1>4. CASE TaskExitCode
  <2>1. exit_code' \in Nat \cup {NoCode}
    BY <1>4, BoundsAssumption, SMTT(60) DEF TaskExitCode, WrapperKilled
  <2>2. /\ task = "running" /\ LoopTail(open, exit_code')
        /\ UNCHANGED <<clientVars, wireVars, handlerVars, record>>
    BY <1>4 DEF TaskExitCode, daemonVars
  <2>3. QED
    BY <1>1, <2>1, <2>2, LoopTailOutput
<1>5. CASE TaskStdin
  <2>1. UNCHANGED <<seq, log, emitted, task, clientVars, wireVars, handlerVars, record>>
    BY <1>5 DEF TaskStdin, daemonVars
  <2>2. QED
    BY <1>1, <2>1, NothingMoves
<1>6. CASE TaskHandover
  <2>1. /\ UNCHANGED <<clientVars, wireVars, handlerVars, seq, emitted, log>>
        /\ task = "running" /\ task' = "handed"
        /\ record' \in {Snapshot, NoRecord}
    BY <1>6 DEF TaskHandover
  <2>2. record'.present => record'.log = log
    BY <2>1, SMTT(60) DEF Snapshot, NoRecord
  <2>3. /\ UNCHANGED <<c2s, s2c, dgs2c, conn, phase, last_server_seq, handler, sent_up_to, exit_seq>>
        /\ UNCHANGED <<resume_token, out, code, sent_stdin>>
    BY <2>1 DEF clientVars, wireVars, handlerVars
  <2>4. EmittedInv'
    BY <1>1, <2>1, EmittedFrame DEF OutputInv
  <2>5. SessionInv'
    <3>1. conn # 0
      BY <1>1, <2>1 DEF OutputInv, SessionInv
    <3>2. QED
      BY <1>1, <2>1, <2>2, <2>3, <3>1 DEF OutputInv, SessionInv, LogFaithful, LogMatches
  <2>6. RequestInv'
    BY <1>1, <2>1, <2>3 DEF OutputInv, RequestInv, ClientOn
  <2>7. AckInv' /\ CarriedInv' /\ NoGapInv'
    BY <1>1, <2>1, <2>3, AckFrame, CarriedFrame, NoGapFrame DEF OutputInv
  <2>8. SentInv'
    <3>1. \A c \in Conns : Active(c)' => Active(c) /\ sent_up_to'[c] = sent_up_to[c]
      BY <2>3 DEF Active
    <3>2. QED
      BY <1>1, <2>1, <2>3, <3>1, SentFrame DEF OutputInv
  <2>9. ClientInv'
    <3>1. ReplayPossible'
      BY <1>1, <2>1, <2>2, <2>3 DEF OutputInv, ClientInv, ReplayPossible
    <3>2. QED
      BY <1>1, <2>1, <2>3, <3>1 DEF OutputInv, ClientInv, OutputExact, ExitComplete, Finished
  <2>10. QED
    BY <2>4, <2>5, <2>6, <2>7, <2>8, <2>9 DEF OutputInv
<1>7. QED
  BY <1>1, <1>2, <1>3, <1>4, <1>5, <1>6 DEF TaskNext

-----------------------------------------------------------------------------
(* Output: the daemon                                                       *)

\* Handlers return and take the frames they have not read with them.
LEMMA CloseAllOutput ==
    ASSUME TypeOK, OutputInv, NEW cs, CloseAll(cs), UNCHANGED <<clientVars, s2c, dgs2c, emitted>>,
           task = "none" => task' = "none"
    PROVE  RequestInv' /\ AckInv' /\ CarriedInv' /\ NoGapInv' /\ SentInv'
<1>1. UNCHANGED <<conn, phase, last_server_seq>>
  BY DEF clientVars
<1>2. \A c \in Conns :
         \/ c2s'[c] = <<>> /\ handler'[c] = "closed" /\ exit_seq'[c] = 0
         \/ /\ c2s'[c] = c2s[c] /\ handler'[c] = handler[c]
            /\ exit_seq'[c] = exit_seq[c] /\ sent_up_to'[c] = sent_up_to[c]
  BY DEF CloseAll
<1>3. \A c \in Conns : \A i \in 1 .. Len(c2s'[c]) :
         /\ i \in 1 .. Len(c2s[c]) /\ c2s'[c][i] = c2s[c][i] /\ handler'[c] = handler[c]
  <2>1. Len(<<>>) = 0
    BY EmptySeq
  <2>2. QED
    BY <1>2, <2>1, SMTT(60)
<1>4. RequestInv'
  <2>1. \A c \in Conns : \A i \in 1 .. Len(c2s[c]) :
           Request(c2s[c][i]) => handler[c] \in {"queued", "request"}
    BY DEF OutputInv, RequestInv
  <2>2. QED
    BY <1>1, <1>3, <2>1, RequestFrame DEF OutputInv
<1>5. AckInv'
  BY <1>1, <1>3 DEF OutputInv, AckInv
<1>6. CarriedInv'
  BY <1>1, <1>2 DEF OutputInv, CarriedInv, IsEmitted, Finished
<1>7. NoGapInv'
  BY <1>1, NoGapFrame DEF OutputInv
<1>8. SentInv'
  <2>1. \A c \in Conns : Active(c)' => Active(c) /\ sent_up_to'[c] = sent_up_to[c]
    BY <1>2 DEF Active
  <2>2. QED
    BY <1>1, <2>1, SentFrame DEF OutputInv
<1>9. QED
  BY <1>4, <1>5, <1>6, <1>7, <1>8

\* The process exits, with or without the record of the session.
LEMMA GoneOutput ==
    ASSUME TypeOK, OutputInv, Gone, UNCHANGED record \/ record' = NoRecord
    PROVE  OutputInv'
<1>1. /\ UNCHANGED <<clientVars, s2c, dgs2c, seq, emitted, log>>
      /\ task' = IF task = "running" THEN "lost" ELSE task
      /\ CloseAll({c \in Conns : handler[c] \notin {"none", "queued"}})
  BY DEF Gone
<1>2. task = "none" => task' = "none"
  BY <1>1
<1>3. RequestInv' /\ AckInv' /\ CarriedInv' /\ NoGapInv' /\ SentInv'
  BY <1>1, <1>2, CloseAllOutput
<1>4. EmittedInv'
  BY <1>1, EmittedFrame DEF OutputInv
<1>5. record'.present => UNCHANGED record
  BY SMTT(60) DEF NoRecord
<1>6. SessionInv'
  <2>1. UNCHANGED conn
    BY <1>1 DEF clientVars
  <2>2. QED
    BY <1>1, <1>5, <2>1 DEF OutputInv, SessionInv, LogFaithful, LogMatches
<1>7. ClientInv'
  <2>1. UNCHANGED <<phase, conn, resume_token, last_server_seq, out, code, sent_stdin>>
    BY <1>1 DEF clientVars
  <2>2. ReplayPossible'
    BY <1>1, <1>5, <2>1 DEF OutputInv, ClientInv, ReplayPossible
  <2>3. QED
    BY <1>1, <2>1, <2>2 DEF OutputInv, ClientInv, OutputExact, ExitComplete, Finished
<1>8. QED
  BY <1>3, <1>4, <1>6, <1>7 DEF OutputInv

\* The session of the record goes on where the log of its predecessor ended.
LEMMA RestartOutput ==
    ASSUME TypeOK, OutputInv, Restart, record.present
    PROVE  OutputInv'
<1>1. /\ task = "handed" /\ task' = "running" /\ log' = record.log /\ seq' = Latest(record.log)
      /\ record' = NoRecord /\ UNCHANGED <<clientVars, wireVars, handlerVars, emitted>>
  BY DEF OutputInv, SessionInv, Restart
<1>2. /\ UNCHANGED <<c2s, s2c, dgs2c, conn, phase, last_server_seq, handler, sent_up_to, exit_seq>>
      /\ UNCHANGED <<resume_token, out, code, sent_stdin>>
  BY <1>1 DEF clientVars, wireVars, handlerVars
<1>3. /\ \A i \in 1 .. Len(emitted) : emitted[i].type # "Exit"
      /\ phase # "done" /\ conn # 0
      /\ \A c \in Conns : \A i \in 1 .. Len(c2s[c]) : c2s[c][i].type # "Exec"
  BY <1>1, Running
<1>4. LogMatches(record.log) /\ ~record'.present
  BY <1>1 DEF OutputInv, SessionInv, LogFaithful, NoRecord
<1>5. EmittedInv'
  BY <1>1, <1>3, <1>4 DEF OutputInv, EmittedInv, LogMatches, Data
<1>6. SessionInv'
  BY <1>1, <1>2, <1>3, <1>4 DEF SessionInv, LogFaithful, LogMatches
<1>7. RequestInv'
  BY <1>2, <1>3, SMTT(60) DEF OutputInv, RequestInv, ClientOn
<1>8. AckInv' /\ CarriedInv' /\ NoGapInv'
  BY <1>1, <1>2, AckFrame, CarriedFrame, NoGapFrame DEF OutputInv
<1>9. SentInv'
  <2>1. \A c \in Conns : Active(c)' => Active(c) /\ sent_up_to'[c] = sent_up_to[c]
    BY <1>2 DEF Active
  <2>2. QED
    BY <1>1, <1>2, <2>1, SentFrame DEF OutputInv
<1>10. ClientInv'
  <2>1. ReplayPossible'
    BY <1>1, <1>2, <1>4 DEF OutputInv, ClientInv, ReplayPossible
  <2>2. QED
    BY <1>1, <1>2, <2>1 DEF OutputInv, ClientInv, OutputExact, ExitComplete, Finished
<1>11. QED
  BY <1>5, <1>6, <1>7, <1>8, <1>9, <1>10 DEF OutputInv

LEMMA DaemonOutput == TypeOK /\ OutputInv /\ DaemonNext => OutputInv'
<1>1. SUFFICES ASSUME TypeOK, OutputInv, DaemonNext PROVE OutputInv'
  OBVIOUS
<1>2. CASE Sigterm
  <2>1. /\ UNCHANGED <<clientVars, s2c, dgs2c, task, seq, emitted, log, record>>
        /\ CloseAll({c \in QuicConns : ServerOn(c)})
    BY <1>2 DEF Sigterm, taskVars
  <2>2. RequestInv' /\ AckInv' /\ CarriedInv' /\ NoGapInv' /\ SentInv'
    BY <1>1, <2>1, CloseAllOutput
  <2>3. EmittedInv' /\ SessionInv' /\ ClientInv'
    BY <1>1, <2>1, EmittedFrame, SessionFrame, ClientFrame DEF OutputInv, clientVars
  <2>4. QED
    BY <2>2, <2>3 DEF OutputInv
<1>3. CASE AskHandover \/ CollectHandover \/ NoHandover
  <2>1. UNCHANGED <<seq, log, emitted, task, clientVars, wireVars, handlerVars, record>>
    BY <1>3 DEF AskHandover, CollectHandover, NoHandover, taskVars
  <2>2. QED
    BY <1>1, <2>1, NothingMoves
<1>4. CASE DaemonExit \/ Crash
  BY <1>1, <1>4, GoneOutput DEF DaemonExit, Crash
<1>5. CASE Restart /\ record.present
  BY <1>1, <1>5, RestartOutput
<1>6. CASE Restart /\ ~record.present
  <2>1. /\ UNCHANGED <<seq, log, emitted, task, clientVars, wireVars, handlerVars>>
        /\ record' = NoRecord
    BY <1>6 DEF Restart
  <2>2. ~record'.present
    BY <2>1 DEF NoRecord
  <2>3. UNCHANGED <<c2s, s2c, dgs2c, conn, phase, last_server_seq, handler, sent_up_to,
                    exit_seq, resume_token, out, code, sent_stdin>>
    BY <2>1 DEF clientVars, wireVars, handlerVars
  <2>4. EmittedInv' /\ AckInv' /\ CarriedInv' /\ NoGapInv'
    BY <1>1, <2>1, <2>3, EmittedFrame, AckFrame, CarriedFrame, NoGapFrame DEF OutputInv
  <2>5. SessionInv'
    BY <1>1, <2>1, <2>2, <2>3 DEF OutputInv, SessionInv, LogFaithful, LogMatches
  <2>6. RequestInv'
    BY <1>1, <2>1, <2>3 DEF OutputInv, RequestInv, ClientOn
  <2>7. SentInv'
    <3>1. \A c \in Conns : Active(c)' => Active(c) /\ sent_up_to'[c] = sent_up_to[c]
      BY <2>3 DEF Active
    <3>2. QED
      BY <1>1, <2>1, <2>3, <3>1, SentFrame DEF OutputInv
  <2>8. ClientInv'
    BY <1>1, <2>1, <2>2, <2>3
       DEF OutputInv, ClientInv, OutputExact, ExitComplete, ReplayPossible, Finished
  <2>9. QED
    BY <2>4, <2>5, <2>6, <2>7, <2>8 DEF OutputInv
<1>7. QED
  BY <1>1, <1>2, <1>3, <1>4, <1>5, <1>6 DEF DaemonNext

-----------------------------------------------------------------------------
(* Stdin: the session task and the daemon                                   *)

\* Steps that apply no stdin and start no task: handlers may return, the task may
\* end, its queue may be dropped with it, and a record may be taken of it.
LEMMA SessionStdin ==
    ASSUME TypeOK, TypeOK', StdinInv, StoppedInv',
           UNCHANGED <<client_seq, dropped, sent_stdin, resume_token, conn, phase, s2c,
                       child_in, stdin, stdin_applied>>,
           registered' => registered, task' = "none" => task = "none",
           task' = "running" => task = "running" /\ UNCHANGED inbound,
           inbound' = inbound \/ inbound' = <<>>,
           record'.present => \/ UNCHANGED record
                              \/ record'.stdin_applied = stdin_applied /\ record'.stdin = stdin,
           \A c \in Conns : \/ /\ handler'[c] = handler[c]
                               /\ c2s'[c] = c2s[c] /\ dgc2s'[c] = dgc2s[c]
                            \/ handler'[c] = "closed" /\ c2s'[c] = <<>> /\ dgc2s'[c] = {}
    PROVE  StdinInv'
<1> USE DEF StdinInv
<1>1. \A c \in Conns : /\ (Active(c)' => Active(c) /\ c2s'[c] = c2s[c])
                       /\ (Pending(c)' => Pending(c))
  BY DEF Active, Pending
<1>2. \A c \in Conns : /\ From(c2s'[c], c2s[c]) /\ From(s2c'[c], s2c[c])
                       /\ dgc2s'[c] \subseteq dgc2s[c]
  BY FromSame
<1>3. From(inbound', inbound)
  BY FromSame
<1>4. KeptInv' /\ FlightInv' /\ ToldInv'
  <2>1. stdin_applied <= stdin_applied'
    BY SMTT(60) DEF TypeOK, SessionTypeOK
  <2> QED
    BY <1>2, <1>3, <2>1, KeptFrame, FlightFrame, ToldFrame
<1>5. AppliedInv'
  BY DEF AppliedInv, StdinInOrder
<1>6. NoSessionInv'
  BY <1>1 DEF NoSessionInv
<1>7. PendingInv'
  BY <1>1, <1>2, PendingFrame
<1>8. QueueInv'
  <2>1. CASE task' = "running"
    BY <2>1, QueueFrame
  <2>2. CASE task' # "running"
    BY <2>2 DEF QueueInv
  <2> QED
    BY <2>1, <2>2
<1>9. FlowInv'
  <2>1. CASE task' = "running"
    <3>1. \A c \in Conns : Active(c)' => Active(c) /\ SameStdin(c2s[c], c2s'[c])
      BY <1>1, SameItself DEF TypeOK, WireTypeOK
    <3> QED
      BY <2>1, <3>1, FlowFrame
  <2>2. CASE task' # "running"
    BY <2>2 DEF FlowInv
  <2> QED
    BY <2>1, <2>2
<1> QED
  BY <1>4, <1>5, <1>6, <1>7, <1>8, <1>9

LEMMA TaskOutputStdin ==
    ASSUME TypeOK, TypeOK', StdinInv, TaskExitCode \/ \E s \in Stdio : TaskRead(s) \/ TaskEof(s)
    PROVE  StdinInv'
<1>1. /\ UNCHANGED <<clientVars, wireVars, handlerVars, stdin, child_in, stdin_applied, inbound,
                     daemonVars>>
      /\ task = "running" /\ task' \in {"running", "ended"}
  BY DEF TaskExitCode, TaskRead, TaskEof, LoopTail
<1>2. UNCHANGED <<client_seq, dropped, sent_stdin, resume_token, conn, phase, c2s, s2c, dgc2s,
                  handler, registered, record, daemon>>
  BY <1>1 DEF clientVars, wireVars, handlerVars, daemonVars
<1>3. StoppedInv'
  BY <1>1, <1>2 DEF StdinInv, StoppedInv
<1>4. task' # "none"
  BY <1>1
<1> QED
  BY <1>1, <1>2, <1>3, <1>4, SessionStdin

\* A message the task has taken is not asked for again.
LEMMA PoppedQueued ==
    ASSUME NEW r \in Seq(Inputs), r # <<>>, NEW n \in Nat,
           Head(r).kind = "Message" /\ IsStdin(Head(r).msg) => Head(r).msg.seq <= n
    PROVE  \A i \in 0 .. Len(Tail(r)) : \A k \in Nat :
              k > n /\ Queued(r, i + 1, k) => Queued(Tail(r), i, k)
<1>1. /\ Len(Tail(r)) = Len(r) - 1 /\ Len(r) \in Nat \ {0}
      /\ \A i \in 1 .. Len(Tail(r)) : Tail(r)[i] = r[i + 1] /\ i + 1 \in 1 .. Len(r)
      /\ Head(r) = r[1]
  BY TailElements
<1> SUFFICES ASSUME NEW i \in 0 .. Len(Tail(r)), NEW k \in Nat, k > n, Queued(r, i + 1, k)
             PROVE  Queued(Tail(r), i, k)
  OBVIOUS
<1>2. PICK j \in 1 .. i + 1 : r[j].kind = "Message" /\ IsStdin(r[j].msg) /\ r[j].msg.seq = k
  BY DEF Queued
<1>3. j # 1
  BY <1>1, <1>2, SMTT(60)
<1>4. j - 1 \in 1 .. i /\ j - 1 \in 1 .. Len(Tail(r)) /\ (j - 1) + 1 = j
  BY <1>1, <1>3, SMTT(60)
<1> QED
  BY <1>1, <1>2, <1>4 DEF Queued

\* The task takes an input: what it applies has no gap before it.
LEMMA TaskStdinApplied ==
    ASSUME TypeOK, OutputInv, StdinInv, TaskStdin
    PROVE  /\ AppliedInv' /\ stdin_applied <= stdin_applied'
           /\ Head(inbound).kind = "Message" /\ IsStdin(Head(inbound).msg) =>
                 Head(inbound).msg.seq <= stdin_applied'
<1> DEFINE x == Head(inbound)
           n == x.msg.seq
<1>1. /\ UNCHANGED <<client_seq, dropped, record>> /\ task = "running" /\ inbound # <<>>
      /\ inbound \in Seq(Inputs) /\ stdin_applied \in Nat /\ client_seq \in Nat
      /\ child_in \in Seq(Nat) /\ stdin \in BOOLEAN
  BY DEF TaskStdin, clientVars, daemonVars, TypeOK, SessionTypeOK, ClientTypeOK
<1>2. x \in Inputs /\ 1 \in 1 .. Len(inbound) /\ x = inbound[1]
  BY <1>1, HeadFirst, HeadTailProperties
<1>3. x.kind \in {"Message", "Datagram", "Handover"} /\ x.msg \in ChannelMessage /\ n \in Nat
  BY <1>2 DEF Inputs, ChannelMessage
<1>4. ~record.present
  BY <1>1 DEF OutputInv, SessionInv
<1>5. CASE ~Fresh(x)
  <2>1. UNCHANGED <<stdin, child_in, stdin_applied>>
    BY <1>5 DEF TaskStdin
  <2>2. AppliedInv'
    BY <1>1, <2>1, AppliedFrame DEF StdinInv
  <2>3. x.kind = "Message" /\ IsStdin(x.msg) => ~(n > stdin_applied)
    BY <1>5 DEF Fresh, IsStdin
  <2>4. (~(n > stdin_applied) => n <= stdin_applied) /\ stdin_applied <= stdin_applied
    BY <1>1, <1>3, SMTT(60)
  <2> QED
    BY <2>1, <2>2, <2>3, <2>4
<1>6. CASE Fresh(x)
  <2>1. /\ stdin_applied' = n
        /\ \/ x.msg.type = "StdinEof" /\ stdin' = FALSE /\ UNCHANGED child_in
           \/ x.msg.type # "StdinEof" /\ WriteStdin(x.msg)
    BY <1>6 DEF TaskStdin
  <2>2. IsStdin(x.msg) /\ (n > stdin_applied \/ n = stdin_applied + 1)
    BY <1>6 DEF Fresh, IsStdin
  <2>3. Sound(x.msg)
    BY <1>2, <2>2 DEF StdinInv, FlightInv
  <2>4. n \in 1 .. client_seq /\ n \notin dropped /\ n > stdin_applied /\ n <= n /\ n <= client_seq
        /\ stdin_applied <= n
    BY <1>1, <1>3, <2>2, <2>3, SMTT(60) DEF Sound
  <2>5. \A k \in stdin_applied + 1 .. n - 1 : k \in dropped
    <3>1. CASE x.kind = "Message"
      <4>1. \A k \in stdin_applied + 1 .. n - 1 : k \in dropped \/ Queued(inbound, 1 - 1, k)
        BY <1>1, <1>2, <2>2, <3>1 DEF StdinInv, QueueInv
      <4>2. \A k : ~Queued(inbound, 1 - 1, k)
        BY SMTT(60) DEF Queued
      <4> QED
        BY <4>1, <4>2
    <3>2. CASE x.kind # "Message"
      <4>1. n = stdin_applied + 1
        BY <1>6, <3>2 DEF Fresh
      <4> QED
        BY <1>1, <4>1, SMTT(60)
    <3> QED
      BY <3>1, <3>2
  <2>6. (1 .. n) \ dropped = ((1 .. stdin_applied) \ dropped) \cup {n}
    <3>1. \A k : k \in 1 .. n <=> \/ k \in 1 .. stdin_applied \/ k = n
                                  \/ k \in stdin_applied + 1 .. n - 1
      BY <1>1, <1>3, <2>4, SMTT(60)
    <3> QED
      BY <2>4, <2>5, <3>1
  <2>7. \A i \in 1 .. Len(child_in) : child_in[i] \in Nat /\ child_in[i] < n
    <3>1. \A i \in 1 .. Len(child_in) : child_in[i] \in Nat /\ child_in[i] <= stdin_applied
      BY <1>1, ElementOfSeq DEF StdinInv, AppliedInv
    <3> QED
      BY <1>1, <1>3, <2>4, <3>1, SMTT(60)
  <2>8. \A i \in 1 .. Len(child_in) : child_in[i] <= n
    BY <1>3, <2>7, SMTT(60)
  <2> HIDE DEF n, x
  <2>9. ASSUME stdin' = FALSE, UNCHANGED child_in PROVE AppliedInv'
    <3>1. StdinInOrder'
      BY <2>9 DEF StdinInv, AppliedInv, StdinInOrder
    <3>2. /\ stdin_applied' <= client_seq' /\ ~record'.present
          /\ \A i \in 1 .. Len(child_in') : child_in'[i] <= stdin_applied'
      BY <1>1, <1>4, <2>1, <2>4, <2>8, <2>9
    <3> QED
      BY <3>1, <3>2 DEF AppliedInv
  <2>10. ASSUME x.msg.type # "StdinEof", stdin, child_in' = Append(child_in, x.msg.data),
                UNCHANGED stdin
         PROVE  AppliedInv'
    <3>1. x.msg.data = n
      BY <2>2, <2>3, <2>10 DEF IsStdin, Sound, n
    <3>2. Len(child_in) \in Nat
      BY <1>1, LenProperties
    <3> PICK l \in Nat : Len(child_in) = l
      BY <3>2
    <3>3. /\ Len(child_in') = l + 1 /\ child_in'[l + 1] = n
          /\ \A i \in 1 .. l : child_in'[i] = child_in[i]
      <4>1. n \in Nat /\ child_in \in Seq(Nat)
        BY <1>1, <1>3
      <4>2. /\ Len(Append(child_in, n)) = l + 1 /\ Append(child_in, n)[l + 1] = n
            /\ \A i \in 1 .. l : Append(child_in, n)[i] = child_in[i]
        BY <4>1, AppendElements, SMTT(60)
      <4> QED
        BY <2>10, <3>1, <4>2
    <3>4. /\ \A i \in 1 .. l + 1 : i \in 1 .. l \/ i = l + 1
          /\ \A i \in 1 .. l : i \in 1 .. l + 1
          /\ l + 1 \in 1 .. l + 1 /\ (l + 1) - 1 = l
      BY SMTT(60)
    <3>5. {child_in'[i] : i \in 1 .. l + 1} = {child_in[i] : i \in 1 .. l} \cup {n}
      BY <3>3, <3>4
    <3>6. {child_in[i] : i \in 1 .. l} = (1 .. stdin_applied) \ dropped
      BY <2>10 DEF StdinInv, AppliedInv, StdinInOrder
    <3>7. ASSUME NEW i \in 1 .. l + 1, NEW j \in 1 .. i - 1 PROVE child_in'[j] < child_in'[i]
      <4>1. j \in 1 .. l
        BY SMTT(60)
      <4>2. CASE i \in 1 .. l
        BY <3>3, <4>1, <4>2 DEF StdinInv, AppliedInv, StdinInOrder
      <4>3. CASE i = l + 1
        BY <2>7, <3>3, <4>1, <4>3
      <4> QED
        BY <3>4, <4>2, <4>3
    <3>8. \A i \in 1 .. l + 1 : child_in'[i] <= n
      BY <2>4, <2>8, <3>3, <3>4
    <3>9. StdinInOrder'
      BY <1>1, <2>1, <2>6, <3>3, <3>5, <3>6, <3>7 DEF StdinInOrder
    <3> QED
      <4>1. /\ stdin_applied' <= client_seq' /\ ~record'.present
            /\ \A i \in 1 .. Len(child_in') : child_in'[i] <= stdin_applied'
        BY <1>1, <1>4, <2>1, <2>4, <3>3, <3>8
      <4> QED
        BY <3>9, <4>1 DEF AppliedInv
  <2>11. AppliedInv'
    BY <2>1, <2>9, <2>10 DEF WriteStdin
  <2> QED
    BY <2>1, <2>4, <2>11 DEF n, x
<1> QED
  BY <1>5, <1>6

LEMMA RangeAbove ==
    ASSUME NEW a \in Nat, NEW b \in Nat, a <= b, NEW n \in Nat
    PROVE  /\ \A k \in b + 1 .. n - 1 : k \in a + 1 .. n - 1 /\ k \in Nat /\ k > b
           /\ \A k \in b + 1 .. n : k \in a + 1 .. n /\ k \in Nat /\ k > b
  BY SMTT(60)

LEMMA TaskStdinStdin ==
    ASSUME TypeOK, TypeOK', OutputInv, StdinInv, TaskStdin
    PROVE  StdinInv'
<1> USE DEF StdinInv
<1>1. /\ UNCHANGED <<client_seq, dropped, sent_stdin, resume_token, conn, phase, c2s, s2c, dgc2s,
                     handler, registered, record, daemon, task>>
      /\ inbound' = Tail(inbound) /\ inbound # <<>> /\ task = "running"
  BY DEF TaskStdin, clientVars, wireVars, handlerVars, daemonVars
<1>2. /\ AppliedInv' /\ stdin_applied <= stdin_applied'
      /\ Head(inbound).kind = "Message" /\ IsStdin(Head(inbound).msg) =>
            Head(inbound).msg.seq <= stdin_applied'
  BY TaskStdinApplied
<1>3. inbound \in Seq(Inputs) /\ stdin_applied \in Nat /\ stdin_applied' \in Nat
      /\ client_seq \in Nat
  BY DEF TypeOK, SessionTypeOK, ClientTypeOK
<1>4. \A c \in Conns : /\ From(c2s'[c], c2s[c]) /\ From(s2c'[c], s2c[c])
                       /\ dgc2s'[c] \subseteq dgc2s[c] /\ SameStdin(c2s[c], c2s'[c])
  BY <1>1, FromSame, SameItself DEF TypeOK, WireTypeOK
<1>5. From(inbound', inbound)
  BY <1>1, <1>3, FromTail
<1>6. KeptInv' /\ FlightInv'
  BY <1>1, <1>2, <1>4, <1>5, KeptFrame, FlightFrame
<1>7. ToldInv'
  <2>1. ASSUME NEW c \in Conns, NEW i \in 1 .. Len(s2c[c]), s2c[c][i].type = "Ack"
        PROVE  s2c[c][i].seq <= stdin_applied'
    <3>1. s2c[c][i].seq \in Nat /\ s2c[c][i].seq <= stdin_applied
      BY <2>1, ElementType DEF ToldInv, TypeOK, WireTypeOK
    <3> QED
      BY <1>2, <1>3, <3>1, SMTT(60)
  <2> QED
    BY <1>1, <2>1 DEF ToldInv
<1>8. \A c \in Conns : (Active(c)' => Active(c)) /\ (Pending(c)' => Pending(c))
  BY <1>1 DEF Active, Pending
<1>9. NoSessionInv' /\ PendingInv' /\ StoppedInv'
  <2>1. NoSessionInv' /\ StoppedInv'
    BY <1>1 DEF NoSessionInv, StoppedInv
  <2> QED
    BY <1>1, <1>4, <1>8, <2>1, PendingFrame
<1>10. /\ Len(Tail(inbound)) = Len(inbound) - 1 /\ Len(inbound) \in Nat \ {0}
       /\ \A i \in 1 .. Len(Tail(inbound)) : /\ Tail(inbound)[i] = inbound[i + 1]
                                             /\ i + 1 \in 1 .. Len(inbound)
  BY <1>1, <1>3, TailElements
<1>11. \A i \in 0 .. Len(Tail(inbound)) : \A k \in Nat :
          k > stdin_applied' /\ Queued(inbound, i + 1, k) => Queued(Tail(inbound), i, k)
  BY <1>1, <1>2, <1>3, PoppedQueued
<1>12. \A a \in Nat : \A k \in stdin_applied' + 1 .. a - 1 :
          k \in stdin_applied + 1 .. a - 1 /\ k \in Nat /\ k > stdin_applied'
  BY <1>2, <1>3, RangeAbove
<1>13. QueueInv'
  <2>1. ASSUME NEW i \in 1 .. Len(inbound'), inbound'[i].kind = "Message",
               IsStdin(inbound'[i].msg), NEW k \in stdin_applied' + 1 .. inbound'[i].msg.seq - 1
        PROVE  k \in dropped \/ Queued(inbound', i - 1, k)
    <3>1. inbound'[i] = inbound[i + 1] /\ i + 1 \in 1 .. Len(inbound) /\ inbound'[i] \in Inputs
      BY <1>1, <1>3, <1>10, ElementOfSeq
    <3>2. inbound'[i].msg.seq \in Nat
      BY <3>1 DEF Inputs, ChannelMessage
    <3>3. k \in stdin_applied + 1 .. inbound[i + 1].msg.seq - 1 /\ k \in Nat /\ k > stdin_applied'
      BY <1>12, <3>1, <3>2
    <3>4. k \in dropped \/ Queued(inbound, (i + 1) - 1, k)
      BY <1>1, <2>1, <3>1, <3>3 DEF QueueInv
    <3>5. i - 1 \in 0 .. Len(Tail(inbound)) /\ (i - 1) + 1 = (i + 1) - 1
      BY <1>1, <1>10, SMTT(60)
    <3> QED
      BY <1>1, <1>11, <3>3, <3>4, <3>5
  <2> QED
    BY <1>1, <2>1, QueueNext
<1>14. ASSUME NEW k \in Nat, k > stdin_applied', Queued(inbound, Len(inbound), k)
       PROVE  Queued(inbound', Len(inbound'), k)
  <2>1. Len(Tail(inbound)) \in 0 .. Len(Tail(inbound)) /\ Len(inbound) = Len(Tail(inbound)) + 1
    BY <1>10, SMTT(60)
  <2> QED
    BY <1>1, <1>11, <1>14, <2>1
<1>15. FlowInv'
  <2>1. ASSUME NEW c \in Conns, Active(c), NEW i \in 1 .. Len(c2s[c]), IsStdin(c2s[c][i]),
               NEW k \in stdin_applied' + 1 .. c2s[c][i].seq - 1
        PROVE  k \in dropped \/ Holds(c2s[c], i - 1, k) \/ Queued(inbound', Len(inbound'), k)
    <3>1. c2s[c][i].seq \in Nat
      BY ElementType DEF TypeOK, WireTypeOK
    <3>2. k \in stdin_applied + 1 .. c2s[c][i].seq - 1 /\ k \in Nat /\ k > stdin_applied'
      BY <1>12, <3>1
    <3> QED
      BY <1>1, <1>14, <2>1, <3>2 DEF FlowInv
  <2>2. ASSUME NEW c \in Conns, Active(c), conn = c, phase = "attached",
               NEW k \in stdin_applied' + 1 .. client_seq
        PROVE  \/ k \in dropped \/ Holds(c2s[c], Len(c2s[c]), k)
               \/ Queued(inbound', Len(inbound'), k)
    <3>1. k \in stdin_applied + 1 .. client_seq /\ k \in Nat /\ k > stdin_applied'
      BY <1>2, <1>3, RangeAbove
    <3> QED
      BY <1>1, <1>14, <2>2, <3>1 DEF FlowInv
  <2>3. \A c \in Conns : Active(c)' =>
          /\ \A i \in 1 .. Len(c2s[c]) : IsStdin(c2s[c][i]) =>
                \A k \in stdin_applied' + 1 .. c2s[c][i].seq - 1 :
                   \/ k \in dropped \/ Holds(c2s[c], i - 1, k)
                   \/ Queued(inbound', Len(inbound'), k)
          /\ conn = c /\ phase = "attached" =>
                \A k \in stdin_applied' + 1 .. client_seq :
                   \/ k \in dropped \/ Holds(c2s[c], Len(c2s[c]), k)
                   \/ Queued(inbound', Len(inbound'), k)
    BY <1>8, <2>1, <2>2
  <2> QED
    BY <1>1, <2>3, FlowNext
<1> QED
  BY <1>2, <1>6, <1>7, <1>9, <1>13, <1>15

LEMMA TaskHandoverStdin ==
    ASSUME TypeOK, TypeOK', StdinInv, TaskHandover
    PROVE  StdinInv'
<1>1. /\ UNCHANGED <<client_seq, dropped, sent_stdin, resume_token, conn, phase, c2s, s2c, dgc2s,
                     handler, registered, daemon, stdin, child_in, stdin_applied>>
      /\ task = "running" /\ task' = "handed" /\ inbound' = <<>>
      /\ record' = Snapshot \/ record' = NoRecord
  BY DEF TaskHandover, clientVars, wireVars, handlerVars
<1>2. StoppedInv'
  BY <1>1 DEF StoppedInv
<1>3. record'.present => record'.stdin_applied = stdin_applied /\ record'.stdin = stdin
  BY <1>1, SMTT(60) DEF Snapshot, NoRecord
<1>4. task' # "none" /\ task' # "running"
  BY <1>1
<1> QED
  BY <1>1, <1>2, <1>3, <1>4, SessionStdin

LEMMA TaskStdinInv == TypeOK /\ OutputInv /\ StdinInv /\ TaskNext => StdinInv'
<1> SUFFICES ASSUME TypeOK, OutputInv, StdinInv, TaskNext PROVE StdinInv'
  OBVIOUS
<1>1. TypeOK'
  BY TaskType
<1> QED
  BY <1>1, TaskOutputStdin, TaskStdinStdin, TaskHandoverStdin DEF TaskNext

LEMMA DaemonStdin == TypeOK /\ OutputInv /\ DownInv /\ StdinInv /\ DaemonNext => StdinInv'
<1> SUFFICES ASSUME TypeOK, OutputInv, DownInv, StdinInv, DaemonNext PROVE StdinInv'
  OBVIOUS
<1>1. TypeOK'
  BY DaemonType
<1>2. UNCHANGED <<client_seq, dropped, sent_stdin, resume_token, conn, phase, s2c, child_in>>
  BY DEF DaemonNext, Sigterm, AskHandover, CollectHandover, NoHandover, DaemonExit, Crash, Gone,
         Restart, clientVars, wireVars, taskVars
<1>3. ASSUME NEW cs, CloseAll(cs)
      PROVE  \A c \in Conns : \/ /\ handler'[c] = handler[c]
                                 /\ c2s'[c] = c2s[c] /\ dgc2s'[c] = dgc2s[c]
                              \/ handler'[c] = "closed" /\ c2s'[c] = <<>> /\ dgc2s'[c] = {}
  BY <1>3 DEF CloseAll
<1>4. CASE Sigterm
  <2>1. /\ UNCHANGED <<registered, record, task, inbound, stdin, stdin_applied>>
        /\ daemon' = "closing" /\ CloseAll({c \in QuicConns : ServerOn(c)})
    BY <1>4 DEF Sigterm, taskVars
  <2>2. StoppedInv'
    BY <2>1 DEF StoppedInv
  <2> QED
    BY <1>1, <1>2, <1>3, <2>1, <2>2, SessionStdin
<1>5. CASE CollectHandover \/ NoHandover \/ (AskHandover /\ UNCHANGED inbound)
  <2>1. /\ UNCHANGED <<record, task, inbound, stdin, stdin_applied, c2s, dgc2s, handler>>
        /\ daemon' # "down" /\ (registered' = FALSE \/ UNCHANGED registered)
    <3>1. CASE CollectHandover \/ NoHandover
      BY <3>1 DEF CollectHandover, NoHandover, taskVars, wireVars, handlerVars
    <3>2. CASE AskHandover /\ UNCHANGED inbound
      BY <3>2 DEF AskHandover, taskVars, wireVars, handlerVars
    <3> QED
      BY <1>5, <3>1, <3>2
  <2>2. StoppedInv'
    BY <2>1 DEF StoppedInv
  <2>3. registered' => registered
    BY <2>1
  <2> QED
    BY <1>1, <1>2, <2>1, <2>2, <2>3, SessionStdin
<1>6. CASE AskHandover /\ inbound' = Append(inbound, [kind |-> "Handover", msg |-> Ack(0)])
  <2> DEFINE x == [kind |-> "Handover", msg |-> Ack(0)]
  <2>1. /\ UNCHANGED <<record, task, registered, stdin, stdin_applied, c2s, dgc2s, handler>>
        /\ daemon' # "down" /\ inbound' = Append(inbound, x)
    BY <1>6 DEF AskHandover, taskVars, wireVars, handlerVars
  <2>2. /\ x \in Inputs /\ x.kind = "Handover" /\ ~IsStdin(x.msg) /\ inbound \in Seq(Inputs)
    <3>1. Ack(0) \in ChannelMessage
      BY MsgType, SMTT(60)
    <3>2. x \in Inputs
      BY <3>1 DEF Inputs
    <3>3. ~IsStdin(x.msg)
      BY SMTT(60) DEF Ack, Msg, IsStdin
    <3> QED
      BY <3>2, <3>3 DEF TypeOK
  <2> HIDE DEF x
  <2>3. \A c \in Conns : /\ From(c2s'[c], c2s[c]) /\ From(s2c'[c], s2c[c])
                         /\ dgc2s'[c] \subseteq dgc2s[c]
                         /\ (Active(c)' => Active(c)) /\ (Pending(c)' => Pending(c))
    BY <1>2, <2>1, FromSame DEF Active, Pending
  <2>4. KeptInv' /\ AppliedInv' /\ ToldInv'
    <3>1. stdin_applied <= stdin_applied'
      BY <2>1, SMTT(60) DEF TypeOK, SessionTypeOK
    <3> QED
      BY <1>1, <1>2, <2>1, <2>3, <3>1, KeptFrame, AppliedFrame, ToldFrame DEF StdinInv
  <2>5. FlightInv' /\ QueueInv'
    BY <1>2, <2>1, <2>2, <2>3, FlightAppended, QueueAppended DEF StdinInv
  <2>6. NoSessionInv' /\ PendingInv' /\ StoppedInv'
    <3>1. StoppedInv'
      BY <2>1 DEF StoppedInv
    <3> QED
      BY <1>2, <2>1, <2>3, <3>1, NoSessionFrame, PendingFrame DEF StdinInv
  <2>7. FlowInv'
    <3>1. \A k : Queued(inbound, Len(inbound), k) => Queued(inbound', Len(inbound'), k)
      BY <2>1, <2>2, QueuedAppend
    <3> QED
      BY <1>2, <2>1, <2>3, <3>1, TakenFlow DEF StdinInv
  <2> QED
    BY <2>4, <2>5, <2>6, <2>7 DEF StdinInv
<1>7. CASE DaemonExit \/ Crash
  <2>1. /\ UNCHANGED <<stdin, stdin_applied>> /\ registered' = FALSE /\ inbound' = <<>>
        /\ task' # "running" /\ (task' = "none" => task = "none")
        /\ CloseAll({c \in Conns : handler[c] \notin {"none", "queued"}})
        /\ UNCHANGED record \/ record' = NoRecord
    BY <1>7 DEF DaemonExit, Crash, Gone
  <2>2. StoppedInv'
    BY <2>1 DEF StoppedInv
  <2>3. record'.present => UNCHANGED record
    BY <2>1, SMTT(60) DEF NoRecord
  <2> QED
    BY <1>1, <1>2, <1>3, <2>1, <2>2, <2>3, SessionStdin
<1>8. CASE Restart
  <2>1. /\ UNCHANGED <<inbound, c2s, dgc2s, handler>> /\ daemon' # "down" /\ daemon = "down"
        /\ record' = NoRecord /\ registered' = record.present
    BY <1>8 DEF Restart, wireVars, handlerVars
  <2>2. StoppedInv'
    BY <2>1 DEF StoppedInv
  <2>3. ~record'.present
    BY <2>1, SMTT(60) DEF NoRecord
  <2>4. CASE ~record.present
    <3>1. UNCHANGED <<task, stdin, stdin_applied>> /\ registered' = record.present
      BY <1>8, <2>4 DEF Restart
    <3> QED
      BY <1>1, <1>2, <2>1, <2>2, <2>3, <2>4, <3>1, SessionStdin
  <2>5. CASE record.present
    <3>1. /\ task' = "running" /\ stdin_applied' = record.stdin_applied /\ stdin' = record.stdin
      BY <1>8, <2>5 DEF Restart
    <3>2. UNCHANGED <<stdin_applied, stdin>>
      BY <2>5, <3>1 DEF StdinInv, AppliedInv
    <3>3. inbound = <<>> /\ \A c \in Conns : ~Active(c)
      BY <2>1 DEF StdinInv, StoppedInv, DownInv, Active
    <3>4. \A c \in Conns : /\ From(c2s'[c], c2s[c]) /\ From(s2c'[c], s2c[c])
                           /\ dgc2s'[c] \subseteq dgc2s[c]
                           /\ ~Active(c)' /\ (Pending(c)' => Pending(c))
      BY <1>2, <2>1, <3>3, FromSame DEF Active, Pending
    <3>5. KeptInv' /\ AppliedInv' /\ ToldInv'
      <4>1. stdin_applied <= stdin_applied'
        BY <3>2, SMTT(60) DEF TypeOK, SessionTypeOK
      <4> QED
        BY <1>1, <1>2, <2>3, <3>2, <3>4, <4>1, KeptFrame, AppliedFrame, ToldFrame DEF StdinInv
    <3>6. FlightInv' /\ PendingInv'
      BY <1>2, <2>1, <3>4, FromSame, FlightFrame, PendingFrame DEF StdinInv
    <3>7. NoSessionInv'
      BY <3>1 DEF NoSessionInv
    <3>8. QueueInv'
      <4>1. 1 .. Len(inbound') = {}
        BY <2>1, <3>3, SMTT(60)
      <4> QED
        BY <4>1 DEF QueueInv
    <3>9. FlowInv'
      BY <3>4 DEF FlowInv
    <3> QED
      BY <2>2, <3>5, <3>6, <3>7, <3>8, <3>9 DEF StdinInv
  <2> QED
    BY <2>4, <2>5
<1> QED
  BY <1>4, <1>5, <1>6, <1>7, <1>8 DEF DaemonNext, AskHandover

-----------------------------------------------------------------------------
(* The exec: types                                                          *)

LEMMA TypeInit == Init => TypeOK
<1>1. SUFFICES ASSUME Init PROVE TypeOK
  OBVIOUS
<1>2. <<>> \in Seq(ChannelMessage) /\ <<>> \in Seq(Nat) /\ <<>> \in Seq(Inputs)
  BY EmptySeq
<1>3. ClientTypeOK
  <2>1. resume_token \in BOOLEAN /\ stdin_open \in BOOLEAN
    BY <1>1 DEF Init, ClientInit
  <2>2. QED
    BY <1>1, <1>2, <2>1, NoElements DEF Init, ClientInit, ClientTypeOK
<1>4. WireTypeOK /\ HandlerTypeOK
  BY <1>1, <1>2 DEF Init, HandlerInit, WireTypeOK, HandlerTypeOK
<1>5. SessionTypeOK /\ inbound \in Seq(Inputs) /\ log \in Log
  BY <1>1, <1>2, EmptyLogType DEF Init, TaskInit, SessionTypeOK
<1>6. DaemonTypeOK
  BY <1>1, NoRecordType DEF Init, DaemonInit, DaemonTypeOK
<1>7. QED
  BY <1>3, <1>4, <1>5, <1>6 DEF TypeOK

LEMMA TypeStep == TypeOK /\ [Next]_vars => TypeOK'
<1>1. TypeOK /\ UNCHANGED vars => TypeOK'
  BY ClientUnchanged, WireUnchanged, HandlerUnchanged, SessionUnchanged, DaemonUnchanged
     DEF TypeOK, vars
<1>2. QED
  BY <1>1, ClientType, HandlerType, TaskType, DaemonType DEF Next

\* Every variable of the exec channel keeps its type, for any number of
\* connections, restarts and chunks: the client never works on a connection that
\* does not exist, no Exit without a code is pushed, and what a restarted daemon
\* takes back from sessions.json is a session.
THEOREM ExecTypeCorrect == Spec => []TypeOK
  BY TypeInit, TypeStep, PTL DEF Spec

-----------------------------------------------------------------------------
(* The exec: output                                                         *)

LEMMA OutputInit == Init => OutputInv
<1>1. SUFFICES ASSUME Init PROVE OutputInv
  OBVIOUS
<1>2. emitted = <<>> /\ log = Empty /\ ~record.present /\ out = <<>> /\ sent_stdin = <<>>
  BY <1>1 DEF Init, TaskInit, DaemonInit, NoRecord, ClientInit
<1>3. \A c \in Conns : c2s[c] = <<>> /\ s2c[c] = <<>> /\ dgs2c[c] = {} /\ exit_seq[c] = 0
  BY <1>1 DEF Init, HandlerInit
<1>4. EmittedInv
  BY <1>1, <1>2, NoElements DEF EmittedInv, Init, TaskInit
<1>5. SessionInv
  BY <1>1, <1>2, NoElements DEF SessionInv, LogFaithful, LogMatches, Init, TaskInit
<1>6. RequestInv /\ AckInv
  BY <1>3, NoElements DEF RequestInv, AckInv
<1>7. CarriedInv
  BY <1>3, NoElements DEF CarriedInv
<1>8. \A c \in Conns : ~ClientOn(c)
  BY <1>1 DEF ClientOn, Init, ClientInit
<1>9. NoGapInv /\ SentInv
  BY <1>8 DEF NoGapInv, SentInv
<1>10. ClientInv
  BY <1>1, <1>2, NoElements DEF ClientInv, OutputExact, ExitComplete, ReplayPossible, Init,
                                ClientInit
<1>11. QED
  BY <1>4, <1>5, <1>6, <1>7, <1>9, <1>10 DEF OutputInv

LEMMA OutputStep == TypeOK /\ OutputInv /\ [Next]_vars => OutputInv'
<1>1. OutputInv /\ UNCHANGED vars => OutputInv'
  <2>1. UNCHANGED vars => UNCHANGED <<seq, log, emitted, task, clientVars, wireVars,
                                      handlerVars, record>>
    BY DEF vars, taskVars, daemonVars
  <2>2. QED
    BY <2>1, NothingMoves
<1>2. QED
  BY <1>1, ClientOutput, HandlerOutput, TaskOutput, DaemonOutput DEF Next

\* The inductive invariant of the output direction: the log, every connection,
\* every handler's sent_up_to and the client's last_server_seq agree on the one
\* numbering of the session's messages.
THEOREM OutputInvariant == Spec => []OutputInv
  BY TypeInit, TypeStep, OutputInit, OutputStep, PTL DEF Spec

\* The replay log (OutboundLog), and the record a restart hands over, are the
\* unacknowledged end of what session_task pushed, each message under its number.
THEOREM LogAlwaysFaithful == Spec => []LogFaithful
<1>1. OutputInv => LogFaithful
  BY DEF OutputInv, SessionInv
<1>2. QED
  BY <1>1, OutputInvariant, PTL

\* run_exec writes the session's output without gap, repetition or reordering, for
\* any number of connections, restarts, chunks and datagram copies.
THEOREM OutputAlwaysExact == Spec => []OutputExact
<1>1. OutputInv => OutputExact
  BY DEF OutputInv, ClientInv
<1>2. QED
  BY <1>1, OutputInvariant, PTL

\* run_exec returns the session's own exit code, and only after it has written all
\* output before it, although it accepts Exit without testing its number.
THEOREM ExitAlwaysComplete == Spec => []ExitComplete
<1>1. OutputInv => ExitComplete
  BY DEF OutputInv, ClientInv
<1>2. QED
  BY <1>1, OutputInvariant, PTL

\* OutboundLog::trim, on whatever connection the acknowledgement arrives, never
\* drops a message that a client still running may ask for with Resume.
THEOREM ReplayAlwaysPossible == Spec => []ReplayPossible
<1>1. OutputInv => ReplayPossible
  BY DEF OutputInv, ClientInv
<1>2. QED
  BY <1>1, OutputInvariant, PTL

-----------------------------------------------------------------------------
(* The exec: the promise about output                                       *)

\* The client's steps, as the caller sees them: nothing, giving up, one more
\* message written, or the return of a code.
LEMMA ClientAsCaller ==
    ASSUME TypeOK, ClientNext
    PROVE  /\ UNCHANGED emitted
           /\ \/ UNCHANGED <<out, code>> /\ Waiting /\ Waiting'
              \/ UNCHANGED <<out, code>> /\ Waiting /\ phase' \in {"denied", "failed"}
              \/ UNCHANGED <<phase, code>> /\ Waiting /\ \E m : out' = Append(out, m)
              \/ UNCHANGED out /\ Waiting /\ phase' = "done"
<1>1. UNCHANGED emitted
  BY DEF ClientNext, Connect, HandshakeStarted, HandshakeDenied, Disconnect, ReadStdin,
         ReadStdinSendFails, ClientRecv, ClientRecvDatagram, LocalError, taskVars
<1>2. CASE Connect \/ HandshakeStarted \/ HandshakeDenied \/ LocalError
  BY <1>1, <1>2 DEF Connect, HandshakeStarted, HandshakeDenied, LocalError, Waiting
<1>3. CASE Disconnect \/ \E eof \in BOOLEAN : ReadStdin(eof) \/ ReadStdinSendFails(eof)
  BY <1>1, <1>3 DEF Disconnect, Retry, ReadStdin, ReadStdinSendFails, Waiting
<1>4. CASE ClientRecv \/ ClientRecvDatagram
  BY <1>1, <1>4 DEF ClientRecv, ClientRecvDatagram, WriteOutput, ReturnCode, Waiting
<1> QED
  BY <1>2, <1>3, <1>4 DEF ClientNext

\* The other steps leave the caller alone and push at most one message.
LEMMA OthersAsCommand ==
    ASSUME TypeOK, OutputInv, HandlerNext \/ TaskNext \/ DaemonNext \/ UNCHANGED vars
    PROVE  /\ UNCHANGED <<phase, out, code>>
           /\ UNCHANGED emitted \/ (task = "running" /\ \E m : emitted' = Append(emitted, m))
<1>1. UNCHANGED <<phase, out, code>>
  <2>1. UNCHANGED clientVars
    <3>1. CASE HandlerNext
      BY <3>1 DEF HandlerNext, Accept, HandleExec, HandleResume, Deny, Pump, AckStdin, Changed,
              KeepaliveTick, RecvAck, RecvFrame, RecvDatagram, Detach
    <3>2. CASE TaskNext
      BY <3>2 DEF TaskNext, TaskRead, TaskEof, TaskExitCode, TaskStdin, TaskHandover
    <3>3. CASE DaemonNext
      BY <3>3 DEF DaemonNext, Sigterm, AskHandover, CollectHandover, NoHandover, DaemonExit, Crash,
              Gone, Restart
    <3>4. CASE UNCHANGED vars
      BY <3>4 DEF vars
    <3> QED
      BY <3>1, <3>2, <3>3, <3>4
  <2> QED
    BY <2>1 DEF clientVars
<1>2. CASE HandlerNext
  <2>1. UNCHANGED emitted
    BY <1>2 DEF HandlerNext, Accept, HandleExec, HandleResume, Deny, Pump, AckStdin, Changed,
              KeepaliveTick, RecvAck, RecvFrame, RecvDatagram, Detach, taskVars
  <2> QED
    BY <1>1, <2>1
<1>3. CASE TaskNext
  <2>1. UNCHANGED emitted \/ (task = "running" /\ \E m : emitted' = Append(emitted, m))
    BY <1>3 DEF TaskNext, TaskRead, TaskEof, TaskExitCode, LoopTail, PushOut, TaskStdin, TaskHandover
  <2> QED
    BY <1>1, <2>1
<1>4. CASE DaemonNext
  <2>1. UNCHANGED emitted
    BY <1>4 DEF DaemonNext, Sigterm, AskHandover, CollectHandover, NoHandover, DaemonExit, Crash,
              Gone, Restart, taskVars
  <2> QED
    BY <1>1, <2>1
<1>5. CASE UNCHANGED vars
  BY <1>1, <1>5 DEF vars, taskVars
<1> QED
  BY <1>2, <1>3, <1>4, <1>5

\* Every step of the exec is a step of the promise, or none.
LEMMA AbstractStep ==
    ASSUME TypeOK, OutputInv, TypeOK', OutputInv', [Next]_vars
    PROVE  [Abstract!AbsNext]_(Abstract!absVars)
<1>1. CASE UNCHANGED <<out, code, emitted>> /\ (UNCHANGED phase \/ (Waiting /\ Waiting'))
  BY <1>1 DEF Abstract!absVars, Waiting
<1>2. CASE UNCHANGED <<out, code, emitted>> /\ Waiting /\ phase' \in {"denied", "failed"}
  BY <1>2 DEF Abstract!AbsNext, Abstract!GiveUp, Waiting
<1>3. ASSUME UNCHANGED <<phase, code, emitted>>, Waiting, NEW m, out' = Append(out, m)
      PROVE  Abstract!AbsNext
  BY <1>3, WriteIsDeliver DEF Abstract!AbsNext
<1>4. CASE UNCHANGED <<out, emitted>> /\ Waiting /\ phase' = "done"
  BY <1>4, CodeIsReturn DEF Abstract!AbsNext
<1>5. ASSUME UNCHANGED <<phase, out, code>>, task = "running", NEW m, emitted' = Append(emitted, m)
      PROVE  Abstract!AbsNext
  BY <1>5, PushIsProduce DEF Abstract!AbsNext
<1>6. CASE ClientNext
  BY <1>1, <1>2, <1>3, <1>4, <1>6, ClientAsCaller
<1>7. CASE ~ClientNext
  BY <1>1, <1>5, <1>7, OthersAsCommand DEF Next
<1> QED
  BY <1>6, <1>7

\* Nothing has been produced or delivered.
LEMMA AbstractInit == Init => Abstract!AbsInit
<1> SUFFICES ASSUME Init PROVE Abstract!AbsInit
  OBVIOUS
<1>1. emitted = <<>> /\ out = <<>> /\ phase = "connect"
  BY DEF Init, ClientInit, TaskInit
<1> QED
  BY <1>1, NoItems, NoElements DEF Abstract!AbsInit

\* Whatever the connections, acknowledgements, replays, datagram copies and
\* restarts do, run_exec and the daemon together keep the promise of an exec: each
\* chunk the command wrote is delivered once and in order, and the code after the
\* last of them.
THEOREM ExecImplementsPromise == Spec => ImplementsReliableExec
  BY TypeInit, TypeStep, OutputInit, OutputStep, AbstractInit, AbstractStep, PTL
     DEF Spec, ImplementsReliableExec, Abstract!AbsSpec

-----------------------------------------------------------------------------
(* The exec: the registry                                                   *)

LEMMA DownStep == TypeOK /\ DownInv /\ [Next]_vars => DownInv'
<1>1. SUFFICES ASSUME TypeOK, DownInv, [Next]_vars PROVE DownInv'
  OBVIOUS
<1>2. handler \in [Conns -> {"none", "queued", "request", "pump", "ack", "select", "closed"}]
  BY <1>1 DEF TypeOK, HandlerTypeOK
<1>3. CASE UNCHANGED vars
  BY <1>1, <1>3 DEF vars, handlerVars, daemonVars, DownInv
<1>4. CASE ClientNext
  <2>1. UNCHANGED daemonVars
    BY <1>4 DEF ClientNext, Connect, HandshakeStarted, HandshakeDenied, Disconnect, ReadStdin,
                ReadStdinSendFails, ClientRecv, ClientRecvDatagram, LocalError
  <2>2. UNCHANGED handler \/ handler' = [handler EXCEPT ![conn + 1] = "queued"]
    BY <1>4 DEF ClientNext, Connect, HandshakeStarted, HandshakeDenied, Disconnect, ReadStdin,
                ReadStdinSendFails, ClientRecv, ClientRecvDatagram, LocalError, handlerVars
  <2>3. QED
    BY <1>1, <1>2, <2>1, <2>2 DEF DownInv, daemonVars
<1>5. CASE HandlerNext
  <2>1. ASSUME daemon = "down" PROVE UNCHANGED <<handler, registered>>
    <3>1. \A d \in Conns : handler[d] \in {"none", "queued", "closed"}
      BY <1>1, <2>1 DEF DownInv
    <3>2. QED
      BY <1>5, <2>1, <3>1 DEF HandlerNext, Accept, HandleExec, HandleResume, Deny, Pump, AckStdin,
            Changed, KeepaliveTick, RecvAck, RecvFrame, RecvDatagram, Detach
  <2>2. UNCHANGED daemon
    BY <1>5 DEF HandlerNext, Accept, HandleExec, HandleResume, Deny, Pump, AckStdin,
            Changed, KeepaliveTick, RecvAck, RecvFrame, RecvDatagram, Detach, daemonVars
  <2>3. QED
    BY <1>1, <2>1, <2>2 DEF DownInv
<1>6. CASE TaskNext
  <2>1. UNCHANGED <<handler, daemon, registered>>
    BY <1>6 DEF TaskNext, TaskRead, TaskEof, TaskExitCode, TaskStdin, TaskHandover,
                handlerVars, daemonVars
  <2>2. QED
    BY <1>1, <2>1 DEF DownInv
<1>7. CASE DaemonNext
  <2>1. CASE DaemonExit \/ Crash
    <3>1. \A c \in Conns : handler'[c] \in {"none", "queued", "closed"}
      BY <2>1 DEF DaemonExit, Crash, Gone, CloseAll
    <3> QED
      BY <2>1, <3>1 DEF DaemonExit, Crash, Gone, DownInv
  <2>2. CASE Sigterm \/ AskHandover \/ CollectHandover \/ NoHandover \/ Restart
    BY <2>2 DEF Sigterm, AskHandover, CollectHandover, NoHandover, Restart, DownInv
  <2>3. QED
    BY <1>7, <2>1, <2>2 DEF DaemonNext
<1>8. QED
  BY <1>1, <1>3, <1>4, <1>5, <1>6, <1>7 DEF Next

LEMMA RemovedStep ==
    ASSUME TypeOK, OutputInv, DownInv, [Next]_vars, registered, ~registered', daemon' = "up"
    PROVE  phase = "done"
<1>1. CASE UNCHANGED vars
  BY <1>1 DEF vars, daemonVars
<1>2. CASE ClientNext
  BY <1>2 DEF ClientNext, Connect, HandshakeStarted, HandshakeDenied, Disconnect, ReadStdin,
              ReadStdinSendFails, ClientRecv, ClientRecvDatagram, LocalError, daemonVars
<1>3. ASSUME NEW c \in Conns, RecvAck(c) PROVE phase = "done"
  <2>1. ExitAcked(c, Head(c2s[c]).seq)
    BY <1>3 DEF RecvAck
  <2>2. QED
    BY <1>3, <2>1, ExitAckedByReturn
<1>4. CASE HandlerNext
  BY <1>3, <1>4 DEF HandlerNext, Accept, HandleExec, HandleResume, Deny, Pump, AckStdin, Changed,
              KeepaliveTick, RecvFrame, RecvDatagram, Detach, daemonVars
<1>5. CASE TaskNext
  BY <1>5 DEF TaskNext, TaskRead, TaskEof, TaskExitCode, TaskStdin, TaskHandover, daemonVars
<1>6. CASE DaemonNext
  BY <1>6 DEF DaemonNext, Sigterm, AskHandover, CollectHandover, NoHandover, DaemonExit, Crash,
              Gone, Restart, DownInv
<1>7. QED
  BY <1>1, <1>2, <1>4, <1>5, <1>6 DEF Next

\* While the daemon serves, sessions.remove on an acknowledged Exit takes a session
\* out of the registry only when its client has returned with the code.
THEOREM SessionRemovedOnlyWhenDelivered == Spec => RemovedOnlyWhenDelivered
<1>1. Init => DownInv
  BY DEF Init, DaemonInit, DownInv
<1>2. TypeOK /\ OutputInv /\ DownInv /\ [Next]_vars
         => [registered /\ ~registered' /\ daemon' = "up" => phase = "done"]_vars
  BY RemovedStep
<1>3. QED
  BY <1>1, <1>2, TypeInit, TypeStep, OutputInit, OutputStep, DownStep, PTL
     DEF Spec, RemovedOnlyWhenDelivered
-----------------------------------------------------------------------------
(* The exec: stdin                                                          *)

LEMMA StdinInit == Init => StdinInv /\ DownInv
<1> SUFFICES ASSUME Init PROVE StdinInv /\ DownInv
  OBVIOUS
<1>1. /\ sent_stdin = <<>> /\ client_seq = 0 /\ dropped = {} /\ phase = "connect" /\ ~resume_token
      /\ inbound = <<>> /\ stdin_applied = 0 /\ child_in = <<>> /\ task = "none"
      /\ daemon = "up" /\ ~registered /\ ~record.present
  BY DEF Init, ClientInit, TaskInit, DaemonInit, NoRecord
<1>2. \A c \in Conns : /\ c2s[c] = <<>> /\ s2c[c] = <<>> /\ dgc2s[c] = {} /\ handler[c] = "none"
  BY DEF Init, HandlerInit
<1>3. KeptInv
  BY <1>1, NoElements DEF KeptInv, StdinRetained
<1>4. FlightInv /\ ToldInv
  BY <1>1, <1>2, NoElements DEF FlightInv, ToldInv
<1>5. AppliedInv
  <2>1. {child_in[i] : i \in 1 .. Len(child_in)} = (1 .. stdin_applied) \ dropped
    BY <1>1, NoElements
  <2> QED
    BY <1>1, <2>1, NoElements DEF AppliedInv, StdinInOrder
<1>6. NoSessionInv /\ PendingInv /\ StoppedInv
  BY <1>1, <1>2, NoElements DEF NoSessionInv, PendingInv, StoppedInv, Active
<1>7. QueueInv /\ FlowInv /\ DownInv
  BY <1>1 DEF QueueInv, FlowInv, DownInv
<1> QED
  BY <1>3, <1>4, <1>5, <1>6, <1>7 DEF StdinInv

LEMMA StdinUnchanged == TypeOK /\ StdinInv /\ UNCHANGED vars => StdinInv'
<1> SUFFICES ASSUME TypeOK, StdinInv, UNCHANGED vars PROVE StdinInv'
  OBVIOUS
<1>1. UNCHANGED <<clientVars, wireVars, handlerVars, taskVars, inbound, daemonVars>>
  BY DEF vars
<1>2. /\ UNCHANGED <<client_seq, dropped, sent_stdin, resume_token, conn, phase, s2c>>
      /\ UNCHANGED <<child_in, stdin, stdin_applied, registered, task, inbound, record>>
      /\ UNCHANGED <<handler, c2s, dgc2s, daemon>>
  BY <1>1 DEF clientVars, wireVars, handlerVars, taskVars, daemonVars
<1>3. TypeOK'
  BY TypeStep
<1>4. StoppedInv'
  BY <1>2 DEF StdinInv, StoppedInv
<1> QED
  BY <1>2, <1>3, <1>4, SessionStdin

LEMMA StdinStep == TypeOK /\ OutputInv /\ DownInv /\ StdinInv /\ [Next]_vars => StdinInv'
  BY StdinUnchanged, ClientStdin, HandlerStdin, TaskStdinInv, DaemonStdin DEF Next

\* The inductive invariant of the stdin half of an exec holds in every execution.
THEOREM StdinInvariant == Spec => []StdinInv
  BY TypeInit, TypeStep, OutputInit, OutputStep, StdinInit, DownStep, StdinStep, PTL DEF Spec

\* A stdin message run_exec has numbered stays in sent_stdin, in order, until the
\* session task has applied it, so that a reconnect can always resend it.
THEOREM StdinAlwaysRetained == Spec => []StdinRetained
<1>1. StdinInv => StdinRetained
  BY DEF StdinInv, KeptInv
<1> QED
  BY <1>1, StdinInvariant, PTL

\* The child reads each stdin chunk at most once and in order, and none is skipped,
\* although run_exec resends on every connection and handlers that a newer one has
\* replaced still feed the session task's queue.
THEOREM StdinAlwaysInOrder == Spec => []StdinInOrder
<1>1. StdinInv => StdinInOrder
  BY DEF StdinInv, AppliedInv
<1> QED
  BY <1>1, StdinInvariant, PTL
=============================================================================
