-------------------------- MODULE SessionLifetime --------------------------
(***************************************************************************)
(* How long a session lives (server/src/lib.rs): the registry, the         *)
(* AttachGuard every connection to a session holds, the expiry sweep and   *)
(* the end of the session task.  Connections, sweep and task run on        *)
(* different threads, so a step here is one atomic operation, one critical *)
(* section or one message, not a whole handler.                            *)
(*                                                                         *)
(* A connection is                                                         *)
(*   out        not on this session                                        *)
(*   got        holding the session, before AttachGuard::new               *)
(*   counted    inside AttachGuard::new, after fetch_add                   *)
(*   attached   running attach or handle_agent_channel                     *)
(*   leaving    returning, before the guard's fetch_sub                    *)
(*   last       inside drop, fetch_sub returned 1                          *)
(***************************************************************************)
EXTENDS Integers, FiniteSets

CONSTANTS
    Conns,         \* connections that may use the session, one after another or at once
    First          \* the connection that starts it

ASSUME ConnsAssumption == IsFiniteSet(Conns) /\ First \in Conns

VARIABLES
    pc,            \* where each connection is
    attached,      \* Session.attached
    detached_at,   \* "none"; "fresh" or, once the session timeout has passed, "old"
    resumable,     \* Session.resumable
    registered,    \* whether the registry holds the session
    abort,         \* whether SessionInput::Abort is queued
    task,          \* the session task: "running", "ended" (with Exit) or "aborted"
    expirer        \* expire_sessions: "sweep", or "found" once the session is in its list

vars == <<pc, attached, detached_at, resumable, registered, abort, task, expirer>>

Step(c, from, to) == pc[c] = from /\ pc' = [pc EXCEPT ![c] = to]

\* Just started and registered by the first connection, or restored by a daemon
\* that took over, with no connection yet.
Init ==
    /\ resumable \in BOOLEAN
    /\ pc \in {[c \in Conns |-> IF c = First THEN "got" ELSE "out"]}
              \cup (IF resumable THEN {[c \in Conns |-> "out"]} ELSE {})
    /\ attached = 0 /\ detached_at = "fresh"
    /\ registered = TRUE /\ abort = FALSE /\ task = "running" /\ expirer = "sweep"

\* registry.get for Resume or AgentChannel.  Only a resumable session's token is
\* ever told to a client.
Get(c) ==
    /\ Step(c, "out", "got")
    /\ resumable /\ registered
    /\ UNCHANGED <<attached, detached_at, resumable, registered, abort, task, expirer>>

\* A connection that ends before attach (an agent channel without forwarding).
Forget(c) ==
    /\ Step(c, "got", "out") /\ resumable
    /\ UNCHANGED <<attached, detached_at, resumable, registered, abort, task, expirer>>

\* A faulty guard that does not count itself.
CountForgotten(c) ==
    /\ Step(c, "got", "counted")
    /\ UNCHANGED <<attached, detached_at, resumable, registered, abort, task, expirer>>

Count(c) ==
    /\ Step(c, "got", "counted")
    /\ attached' = attached + 1
    /\ UNCHANGED <<detached_at, resumable, registered, abort, task, expirer>>

Clear(c) ==
    /\ Step(c, "counted", "attached")
    /\ detached_at' = "none"
    /\ UNCHANGED <<attached, resumable, registered, abort, task, expirer>>

\* Closed, failed or silent for the keepalive timeout: the session outlives the
\* connection only if it is resumable.
LeaveClosed(c) ==
    /\ Step(c, "attached", "leaving")
    /\ registered' = (registered /\ resumable)
    /\ abort' = (abort \/ ~resumable)
    /\ UNCHANGED <<attached, detached_at, resumable, task, expirer>>

\* A faulty return that bypasses the guard.
LeaveUnguarded(c) ==
    /\ Step(c, "attached", "out")
    /\ UNCHANGED <<attached, detached_at, resumable, registered, abort, task, expirer>>

\* A send fails, or an agent channel ends: nothing is said to the session.
LeaveError(c) ==
    /\ Step(c, "attached", "leaving")
    /\ UNCHANGED <<attached, detached_at, resumable, registered, abort, task, expirer>>

\* The client acknowledged the Exit.
LeaveDone(c) ==
    /\ Step(c, "attached", "leaving")
    /\ task = "ended"
    /\ registered' = FALSE
    /\ UNCHANGED <<attached, detached_at, resumable, abort, task, expirer>>

\* A faulty drop that compares the count after the subtraction.
SubComparesNew(c) ==
    /\ Step(c, "leaving", IF attached = 2 THEN "last" ELSE "out")
    /\ attached' = attached - 1
    /\ UNCHANGED <<detached_at, resumable, registered, abort, task, expirer>>

\* fetch_sub returns the count before.
Sub(c) ==
    /\ Step(c, "leaving", IF attached = 1 THEN "last" ELSE "out")
    /\ attached' = attached - 1
    /\ UNCHANGED <<detached_at, resumable, registered, abort, task, expirer>>

Stamp(c) ==
    /\ Step(c, "last", "out")
    /\ detached_at' = "fresh"
    /\ UNCHANGED <<attached, resumable, registered, abort, task, expirer>>

\* The session timeout has passed since the stamp.
Age ==
    /\ detached_at = "fresh" /\ detached_at' = "old"
    /\ UNCHANGED <<pc, attached, resumable, registered, abort, task, expirer>>

\* One tick: registry.expired() lists the session, and then it is removed and its
\* task told to abort.
Sweep ==
    /\ expirer = "sweep" /\ registered /\ detached_at = "old"
    /\ expirer' = "found"
    /\ UNCHANGED <<pc, attached, detached_at, resumable, registered, abort, task>>

\* A faulty expiry that forgets the session without stopping it.
ExpireQuietly ==
    /\ expirer = "found"
    /\ expirer' = "sweep" /\ registered' = FALSE
    /\ UNCHANGED <<pc, attached, detached_at, resumable, abort, task>>

Expire ==
    /\ expirer = "found"
    /\ expirer' = "sweep" /\ registered' = FALSE /\ abort' = TRUE
    /\ UNCHANGED <<pc, attached, detached_at, resumable, task>>

\* The command ends and Exit is pushed.
TaskEnd ==
    /\ task = "running" /\ task' = "ended"
    /\ UNCHANGED <<pc, attached, detached_at, resumable, registered, abort, expirer>>

\* Abort is received, or every holder of the session is gone.
TaskAbort ==
    /\ task = "running"
    /\ abort \/ (~registered /\ expirer = "sweep" /\ \A c \in Conns : pc[c] = "out")
    /\ task' = "aborted"
    /\ UNCHANGED <<pc, attached, detached_at, resumable, registered, abort, expirer>>

Enter(c) == Get(c) \/ Forget(c) \/ Count(c) \/ Clear(c)
Leave(c) == LeaveClosed(c) \/ LeaveError(c) \/ LeaveDone(c) \/ Sub(c) \/ Stamp(c)

Next ==
    \/ \E c \in Conns : Enter(c) \/ Leave(c)
    \/ Age \/ Sweep \/ Expire \/ TaskEnd \/ TaskAbort

Spec == Init /\ [][Next]_vars

\* What a thread has begun it finishes, time passes, the sweep ticks.  Nothing is
\* assumed of clients: they need not leave, nor come back.
Fairness ==
    /\ \A c \in Conns : /\ WF_vars(Count(c) \/ Forget(c)) /\ WF_vars(Clear(c))
                        /\ WF_vars(Sub(c)) /\ WF_vars(Stamp(c))
    /\ WF_vars(Age) /\ WF_vars(Sweep) /\ WF_vars(Expire) /\ WF_vars(TaskAbort)

FairSpec == Spec /\ Fairness

-----------------------------------------------------------------------------
\* Every variable has its type (the fields of Session and where each thread is).
TypeOK ==
    /\ pc \in [Conns -> {"out", "got", "counted", "attached", "leaving", "last"}]
    /\ attached \in Nat /\ detached_at \in {"none", "fresh", "old"}
    /\ resumable \in BOOLEAN /\ registered \in BOOLEAN /\ abort \in BOOLEAN
    /\ task \in {"running", "ended", "aborted"} /\ expirer \in {"sweep", "found"}

Counted == {c \in Conns : pc[c] \in {"counted", "attached", "leaving"}}

\* AttachGuard's counter is the number of guards alive, so it never wraps below
\* zero, whatever way connections return.
CountExact == attached = Cardinality(Counted)

\* A session nobody is attached to carries a detach time, or the last connection is
\* about to write it.  Without one the sweep would never find the session and its
\* command would run for ever (AttachGuard::drop against AttachGuard::new).
DetachStamped ==
    attached = 0 /\ (\A c \in Conns : pc[c] # "last") => detached_at # "none"

\* A command whose session nobody can reach any more is killed, or has ended.
RemovedSessionDies == ~registered ~> task # "running"

\* A session all clients have left for good is dropped, resumable or not, and
\* whichever way the last connection ended.
SessionReclaimed == (<>[](\A c \in Conns : pc[c] = "out")) => <>~registered

\* The comment of expire_sessions: it kills sessions whose client has been gone
\* for longer than the timeout.
OnlyGoneClientsExpire ==
    [][expirer = "found" /\ expirer' = "sweep" => \A c \in Conns : pc[c] # "attached"]_vars

\* The comment in attach on a session task that ended without an Exit message: the
\* connection notices and closes.  (The branch waits for every sender of `latest`
\* to be gone, but the handler's own session holds one, so it is never taken and
\* has no action here.)
AbortNoticed ==
    \A c \in Conns : (pc[c] = "attached" /\ task = "aborted") ~> pc[c] # "attached"
=============================================================================
