------------------------------ MODULE ExecTask ------------------------------
(***************************************************************************)
(* The session task (server/src/lib.rs, session_task), which owns the      *)
(* child's pipes.  Each action is one pass of its loop: one branch of      *)
(* select! and the completion test at the loop's tail.                     *)
(*                                                                         *)
(*   none      no session yet                                              *)
(*   running   in the loop                                                 *)
(*   ended     pushed Exit and returned                                    *)
(*   handed    answered a handover request and returned                    *)
(*   lost      went down with the daemon, not handed over                  *)
(***************************************************************************)
EXTENDS ExecState

TaskInit ==
    /\ task = "none" /\ inbound = <<>> /\ stdin = TRUE /\ child_in = <<>> /\ stdin_applied = 0
    /\ seq = 0 /\ log = Empty /\ exit_code = NoCode /\ emitted = <<>>
    /\ open = [s \in Stdio |-> TRUE] /\ writer = [s \in Stdio |-> TRUE]

\* Pushes a message, keeping the history of everything pushed.
PushOut(m) ==
    /\ seq' = m.seq
    /\ log' = Push(log, m)
    /\ emitted' = Append(emitted, m)

\* A faulty test that does not wait for the exit code.
StreamsEnded(now_open, now_code) == \A s \in Stdio : ~now_open[s]

Complete(now_open, now_code) == now_code # NoCode /\ \A s \in Stdio : ~now_open[s]

\* The tail of the loop: when the code is known and both streams have ended, Exit
\* is pushed and the task returns.
LoopTail(now_open, now_code) ==
    IF Complete(now_open, now_code)
    THEN PushOut(Exit(seq + 1, now_code)) /\ task' = "ended"
    ELSE UNCHANGED <<seq, log, emitted, task>>

\* The child wrote a chunk.  Chunks are named by the order they are read in.
TaskRead(s) ==
    /\ task = "running" /\ open[s] /\ writer[s] /\ Len(emitted) < MaxOut
    /\ PushOut(Output(s, seq + 1, Len(emitted) + 1))
    /\ UNCHANGED <<clientVars, wireVars, handlerVars, task, stdin, child_in, stdin_applied,
                   open, writer, exit_code, inbound, daemonVars>>

\* End of a stream: every process holding its write end has closed it.
TaskEof(s) ==
    /\ task = "running" /\ open[s] /\ (writer[s] => CommandEnds)
    /\ writer' = [writer EXCEPT ![s] = FALSE]
    /\ open' = [open EXCEPT ![s] = FALSE]
    /\ LoopTail(open', exit_code)
    /\ UNCHANGED <<clientVars, wireVars, handlerVars, stdin, child_in, stdin_applied,
                   exit_code, inbound, daemonVars>>

\* The wrapper's line with the command's code, or its end without one.
TaskExitCode ==
    /\ task = "running" /\ exit_code = NoCode /\ CommandEnds
    /\ exit_code' \in Codes \cup {WrapperKilled}
    /\ LoopTail(open, exit_code')
    /\ UNCHANGED <<clientVars, wireVars, handlerVars, stdin, child_in, stdin_applied, open,
                   writer, inbound, daemonVars>>

\* Writes a chunk to the child; a broken pipe closes stdin for good.
WriteStdin(m) ==
    \/ /\ stdin
       /\ child_in' = Append(child_in, m.data) /\ UNCHANGED stdin
    \/ /\ stdin' = FALSE /\ UNCHANGED child_in

\* A faulty test that lets datagrams skip ahead too.
FreshLoose(input) ==
    input.msg.type \in {"Stdin", "StdinEof"} /\ input.msg.seq > stdin_applied

\* Stdin from a frame must be new, from a datagram exactly the next message.
Fresh(input) ==
    \/ /\ input.kind = "Message"
       /\ input.msg.type \in {"Stdin", "StdinEof"} /\ input.msg.seq > stdin_applied
    \/ /\ input.kind = "Datagram"
       /\ input.msg.type = "Stdin" /\ input.msg.seq = stdin_applied + 1

\* One queued input.  Nothing here can complete the session.
TaskStdin ==
    /\ task = "running" /\ inbound # <<>> /\ Head(inbound).kind # "Handover"
    /\ IF ~Fresh(Head(inbound))
       THEN UNCHANGED <<stdin, child_in, stdin_applied>>
       ELSE /\ stdin_applied' = Head(inbound).msg.seq
            /\ IF Head(inbound).msg.type = "StdinEof"
               THEN stdin' = FALSE /\ UNCHANGED child_in
               ELSE WriteStdin(Head(inbound).msg)
    /\ inbound' = Tail(inbound)
    /\ UNCHANGED <<clientVars, wireVars, handlerVars, task, seq, log, open, writer,
                   exit_code, emitted, daemonVars>>

\* A faulty snapshot that does not record how far either direction has come.
SnapshotForgetful ==
    [present |-> TRUE, log |-> [log EXCEPT !.trimmed = 0], stdin_applied |-> 0,
     stdin |-> stdin, exit_code |-> exit_code]

Snapshot ==
    [present |-> TRUE, log |-> log, stdin_applied |-> stdin_applied,
     stdin |-> stdin, exit_code |-> exit_code]

\* Gives the session's state and pipes back and returns.  The reply is lost when
\* the daemon no longer waits for it; what is still queued is lost either way.
TaskHandover ==
    /\ task = "running" /\ inbound # <<>> /\ Head(inbound).kind = "Handover"
    /\ task' = "handed"
    /\ record' = IF daemon = "waiting" THEN Snapshot ELSE NoRecord
    /\ inbound' = <<>>
    /\ UNCHANGED <<clientVars, wireVars, handlerVars, stdin, child_in, stdin_applied, seq,
                   log, open, writer, exit_code, emitted, daemon, registered, restarts>>

TaskNext ==
    \/ \E s \in Stdio : TaskRead(s) \/ TaskEof(s)
    \/ TaskExitCode \/ TaskStdin \/ TaskHandover
=============================================================================
