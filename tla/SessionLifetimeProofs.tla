----------------------- MODULE SessionLifetimeProofs -----------------------
(***************************************************************************)
(* For any finite number of connections: AttachGuard's counter is exact,   *)
(* and a session without connections is never without a detach time.       *)
(***************************************************************************)
EXTENDS SessionLifetime, FiniteSetTheorems, TLAPS

\* A leaf that names no prover is Zenon's; what needs arithmetic goes to SMT.
USE ZenonT(60)

\* The counted connections after connection c has moved.
LEMMA CountedFinite == Counted \subseteq Conns /\ IsFiniteSet(Counted)
<1>1. Counted \subseteq Conns
  BY DEF Counted
<1>2. QED
  BY <1>1, ConnsAssumption, FS_Subset

\* Types, with the exact count that keeps the counter from going below zero.
CountInv == TypeOK /\ CountExact

LEMMA CountInit == Init => CountInv
<1>1. SUFFICES ASSUME Init PROVE CountInv
  OBVIOUS
<1>2. TypeOK
  BY <1>1, ConnsAssumption DEF Init, TypeOK
<1>3. Counted = {}
  BY <1>1 DEF Init, Counted
<1>4. QED
  BY <1>1, <1>2, <1>3, FS_EmptySet DEF CountInv, CountExact, Init

\* A step that moves c between two places that are both counted, or both not,
\* and leaves the counter alone.
LEMMA Uncounted ==
    ASSUME TypeOK, NEW c \in Conns, NEW from, NEW to,
           Step(c, from, to), UNCHANGED attached,
           from \in {"counted", "attached", "leaving"} <=>
              to \in {"counted", "attached", "leaving"},
           CountExact
    PROVE  CountExact'
<1>1. Counted' = Counted
  BY DEF Counted, Step, TypeOK
<1>2. QED
  BY <1>1 DEF CountExact

LEMMA CountNext == CountInv /\ [Next]_vars => CountInv'
<1>1. SUFFICES ASSUME CountInv, [Next]_vars PROVE CountInv'
  OBVIOUS
<1> USE DEF CountInv
<1>2. ASSUME NEW c \in Conns, Get(c) \/ Forget(c) \/ Clear(c) PROVE CountInv'
  <2>1. TypeOK'
    BY <1>1, <1>2 DEF TypeOK, Get, Forget, Clear, Step
  <2>2. CountExact'
    BY <1>1, <1>2, Uncounted DEF Get, Forget, Clear
  <2>3. QED
    BY <2>1, <2>2
<1>3. ASSUME NEW c \in Conns, Count(c) PROVE CountInv'
  <2>1. TypeOK'
    BY <1>1, <1>3, SMTT(60) DEF TypeOK, Count, Step
  <2>2. Counted' = Counted \cup {c} /\ c \notin Counted
    BY <1>1, <1>3 DEF Counted, Count, Step, TypeOK
  <2>3. Cardinality(Counted') = Cardinality(Counted) + 1
    BY <2>2, CountedFinite, FS_AddElement
  <2>4. QED
    BY <1>1, <1>3, <2>1, <2>3 DEF CountExact, Count
<1>4. ASSUME NEW c \in Conns, LeaveClosed(c) \/ LeaveError(c) \/ LeaveDone(c)
      PROVE  CountInv'
  <2>1. TypeOK'
    BY <1>1, <1>4 DEF TypeOK, LeaveClosed, LeaveError, LeaveDone, Step
  <2>2. CountExact'
    BY <1>1, <1>4, Uncounted DEF LeaveClosed, LeaveError, LeaveDone
  <2>3. QED
    BY <2>1, <2>2
<1>5. ASSUME NEW c \in Conns, Sub(c) PROVE CountInv'
  <2>1. Counted' = Counted \ {c} /\ c \in Counted
    BY <1>1, <1>5 DEF Counted, Sub, Step, TypeOK
  <2>2. Cardinality(Counted') = Cardinality(Counted) - 1
    BY <2>1, CountedFinite, FS_RemoveElement
  <2>3. Cardinality(Counted') \in Nat
    BY <2>1, CountedFinite, FS_Subset, FS_CardinalityType
  <2>4. attached' = Cardinality(Counted')
    BY <1>1, <1>5, <2>2 DEF CountExact, Sub
  <2>5. TypeOK'
    BY <1>1, <1>5, <2>3, <2>4 DEF TypeOK, Sub, Step
  <2>6. QED
    BY <2>4, <2>5 DEF CountExact
<1>6. ASSUME NEW c \in Conns, Stamp(c) PROVE CountInv'
  <2>1. TypeOK'
    BY <1>1, <1>6 DEF TypeOK, Stamp, Step
  <2>2. QED
    BY <1>1, <1>6, <2>1, Uncounted DEF Stamp
<1>7. ASSUME Age \/ Sweep \/ Expire \/ TaskEnd \/ TaskAbort \/ UNCHANGED vars PROVE CountInv'
  <2>1. TypeOK'
    BY <1>1, <1>7 DEF TypeOK, Age, Sweep, Expire, TaskEnd, TaskAbort, vars
  <2>2. Counted' = Counted /\ attached' = attached
    BY <1>7 DEF Counted, Age, Sweep, Expire, TaskEnd, TaskAbort, vars
  <2>3. QED
    BY <1>1, <2>1, <2>2 DEF CountExact
<1>8. QED
  BY <1>1, <1>2, <1>3, <1>4, <1>5, <1>6, <1>7 DEF Next, Enter, Leave

\* Every variable of the session's lifetime keeps its type; in particular the
\* unsigned counter of AttachGuard never wraps.
THEOREM LifetimeTypeCorrect == Spec => []TypeOK
<1>1. CountInv => TypeOK
  BY DEF CountInv
<1>2. QED
  BY CountInit, CountNext, <1>1, PTL DEF Spec

\* AttachGuard's counter is the number of guards alive.
THEOREM CounterExact == Spec => []CountExact
<1>1. CountInv => CountExact
  BY DEF CountInv
<1>2. QED
  BY CountInit, CountNext, <1>1, PTL DEF Spec

\* A session nobody is attached to can be found by the expiry sweep.  The argument:
\* detached_at is cleared only by a guard that is counted, so the counter is not zero
\* then, and the counter reaches zero only in a drop that goes on to stamp.
THEOREM NoUnstampedSession == Spec => []DetachStamped
<1>1. Init => DetachStamped
  BY DEF Init, DetachStamped
<1>2. CountInv /\ DetachStamped /\ [Next]_vars => DetachStamped'
  <2>1. SUFFICES ASSUME CountInv, DetachStamped, [Next]_vars PROVE DetachStamped'
    OBVIOUS
  <2>2. TypeOK /\ attached = Cardinality(Counted)
    BY <2>1 DEF CountInv, CountExact
  <2>3. ASSUME NEW c \in Conns,
               Get(c) \/ Forget(c) \/ LeaveClosed(c) \/ LeaveError(c) \/ LeaveDone(c)
        PROVE  DetachStamped'
    BY <2>1, <2>2, <2>3 DEF DetachStamped, TypeOK, Step, Get, Forget, LeaveClosed, LeaveError,
                            LeaveDone
  <2>4. ASSUME NEW c \in Conns, Count(c) PROVE DetachStamped'
    BY <2>2, <2>4, SMTT(60) DEF DetachStamped, TypeOK, Count
  <2>5. ASSUME NEW c \in Conns, Clear(c) PROVE DetachStamped'
    <3>1. c \in Counted
      BY <2>5 DEF Counted, Clear, Step
    <3>2. Counted # {}
      BY <3>1
    <3>3. attached # 0
      BY <2>2, <3>2, CountedFinite, FS_EmptySet
    <3>4. QED
      BY <2>5, <3>3 DEF DetachStamped, Clear
  <2>6. ASSUME NEW c \in Conns, Sub(c) PROVE DetachStamped'
    <3>1. CASE attached = 1
      BY <2>2, <2>6, <3>1 DEF DetachStamped, TypeOK, Sub, Step
    <3>2. CASE attached # 1
      BY <2>2, <2>6, <3>2, SMTT(60) DEF DetachStamped, TypeOK, Sub
    <3>3. QED
      BY <3>1, <3>2
  <2>7. ASSUME NEW c \in Conns, Stamp(c) PROVE DetachStamped'
    BY <2>7 DEF DetachStamped, Stamp
  <2>8. ASSUME Age \/ Sweep \/ Expire \/ TaskEnd \/ TaskAbort \/ UNCHANGED vars
        PROVE  DetachStamped'
    BY <2>1, <2>8 DEF DetachStamped, Age, Sweep, Expire, TaskEnd, TaskAbort, vars
  <2>9. QED
    BY <2>1, <2>3, <2>4, <2>5, <2>6, <2>7, <2>8 DEF Next, Enter, Leave
<1>3. QED
  BY CountInit, CountNext, <1>1, <1>2, PTL DEF Spec
=============================================================================
