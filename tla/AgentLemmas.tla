---------------------------- MODULE AgentLemmas ----------------------------
(***************************************************************************)
(* What the steps of agent forwarding do to its queues, streams and tasks, *)
(* and that they keep the parts of AgentInvariant which do not follow the  *)
(* chunks themselves: types, channels, ids' owners, tasks and leaks.       *)
(***************************************************************************)
EXTENDS AgentInv, TLAPS

-----------------------------------------------------------------------------
(* Queues of messages                                                       *)

LEMMA AppendIndex ==
  ASSUME NEW q \in Seq(Messages), NEW m \in Messages
  PROVE  /\ Append(q, m) \in Seq(Messages) /\ Len(Append(q, m)) = Len(q) + 1
         /\ Append(q, m)[Len(q) + 1] = m
         /\ \A k \in 1 .. Len(q) : Append(q, m)[k] = q[k]
  OBVIOUS

LEMMA TailIndex ==
  ASSUME NEW q \in Seq(Messages), q # <<>>
  PROVE  /\ Tail(q) \in Seq(Messages) /\ Len(q) \in Nat /\ Len(q) > 0
         /\ Len(Tail(q)) = Len(q) - 1 /\ Head(q) = q[1] /\ q[1] \in Messages
         /\ \A k \in 1 .. Len(q) - 1 : Tail(q)[k] = q[k + 1]
  OBVIOUS

LEMMA IsMessage ==
  ASSUME NEW i \in Ids
  PROVE  /\ AgentOpen(i) \in Messages /\ AgentClose(i) \in Messages
         /\ \A d \in Seq(Nat) : AgentData(i, d) \in Messages
  BY DEF AgentOpen, AgentClose, AgentData, Messages

LEMMA MessageForm ==
  ASSUME NEW m \in Messages
  PROVE  /\ m.id \in Ids /\ m.data \in Seq(Nat)
         /\ m.type \in {"AgentOpen", "AgentData", "AgentClose"}
         /\ m.type = "AgentOpen" => m = AgentOpen(m.id)
         /\ m.type = "AgentData" => m = AgentData(m.id, m.data)
         /\ m.type = "AgentClose" => m = AgentClose(m.id)
<1>1. CASE m \in [type : {"AgentOpen", "AgentClose"}, id : Ids, data : {<<>>}]
  <2>1. /\ m = [type |-> m.type, id |-> m.id, data |-> <<>>] /\ m.data = <<>>
        /\ m.id \in Ids /\ m.type \in {"AgentOpen", "AgentClose"}
    BY <1>1
  <2> QED
    BY <2>1 DEF AgentOpen, AgentClose
<1>2. CASE m \in [type : {"AgentData"}, id : Ids, data : Seq(Nat)]
  <2>1. m = [type |-> "AgentData", id |-> m.id, data |-> m.data]
    BY <1>2
  <2> QED
    BY <1>2, <2>1 DEF AgentData
<1> QED
  BY <1>1, <1>2 DEF Messages

LEMMA MessageId ==
  ASSUME NEW m \in Messages
  PROVE  m.id \in Ids /\ m.data \in Seq(Nat)
  BY MessageForm

LEMMA CarriedAppend ==
  ASSUME NEW q \in Seq(Messages), NEW m \in Messages, NEW x
  PROVE  Carried(Append(q, m), x) <=> Carried(q, x) \/ m = x
  BY AppendIndex DEF Carried

LEMMA AboutAppend ==
  ASSUME NEW q \in Seq(Messages), NEW m \in Messages, NEW i
  PROVE  About(Append(q, m), i) <=> About(q, i) \/ m.id = i
  BY AppendIndex DEF About

LEMMA CarriedTail ==
  ASSUME NEW q \in Seq(Messages), q # <<>>, NEW x
  PROVE  Carried(q, x) <=> Head(q) = x \/ Carried(Tail(q), x)
<1>1. Carried(Tail(q), x) => Carried(q, x)
  BY TailIndex DEF Carried
<1>2. Head(q) = x => Carried(q, x)
  BY TailIndex DEF Carried
<1>3. ASSUME Carried(q, x), Head(q) # x
      PROVE  Carried(Tail(q), x)
  <2>1. PICK k \in 1 .. Len(q) : q[k] = x
    BY <1>3 DEF Carried
  <2>2. k - 1 \in 1 .. Len(Tail(q)) /\ Tail(q)[k - 1] = x
    BY <2>1, <1>3, TailIndex
  <2> QED
    BY <2>2 DEF Carried
<1> QED
  BY <1>1, <1>2, <1>3

LEMMA AboutTail ==
  ASSUME NEW q \in Seq(Messages), q # <<>>, NEW i
  PROVE  About(q, i) <=> Head(q).id = i \/ About(Tail(q), i)
<1>1. About(Tail(q), i) => About(q, i)
  BY TailIndex DEF About
<1>2. Head(q).id = i => About(q, i)
  BY TailIndex DEF About
<1>3. ASSUME About(q, i), Head(q).id # i
      PROVE  About(Tail(q), i)
  <2>1. PICK k \in 1 .. Len(q) : q[k].id = i
    BY <1>3 DEF About
  <2>2. k - 1 \in 1 .. Len(Tail(q)) /\ Tail(q)[k - 1].id = i
    BY <2>1, <1>3, TailIndex
  <2> QED
    BY <2>2, Zenon DEF About
<1> QED
  BY <1>1, <1>2, <1>3

LEMMA EmptyQueue ==
  \A x, i : /\ ~Carried(<<>>, x) /\ ~About(<<>>, i) /\ OpenFirst(<<>>, i)
            /\ \A p, n, max : Unbroken(<<>>, i, p, n, max)
  BY DEF Carried, About, OpenFirst, Unbroken

LEMMA OpenFirstAppend ==
  ASSUME NEW q \in Seq(Messages), NEW m \in Messages, NEW i \in Ids,
         OpenFirst(q, i), m = AgentOpen(i) => ~About(q, i)
  PROVE  OpenFirst(Append(q, m), i)
  BY AppendIndex DEF OpenFirst, About

LEMMA OpenFirstTail ==
  ASSUME NEW q \in Seq(Messages), q # <<>>, NEW i \in Ids, OpenFirst(q, i)
  PROVE  /\ OpenFirst(Tail(q), i)
         /\ Head(q).id = i => ~Carried(Tail(q), AgentOpen(i))
<1>1. OpenFirst(Tail(q), i)
  <2> SUFFICES ASSUME NEW k \in 1 .. Len(Tail(q)), Tail(q)[k] = AgentOpen(i),
                      NEW j \in 1 .. k - 1
               PROVE  Tail(q)[j].id # i
    BY DEF OpenFirst
  <2>1. /\ k + 1 \in 1 .. Len(q) /\ q[k + 1] = AgentOpen(i)
        /\ j + 1 \in 1 .. (k + 1) - 1 /\ Tail(q)[j] = q[j + 1]
    BY TailIndex
  <2> QED
    BY <2>1 DEF OpenFirst
<1>2. ASSUME Head(q).id = i, Carried(Tail(q), AgentOpen(i))
      PROVE  FALSE
  <2>1. PICK k \in 1 .. Len(Tail(q)) : Tail(q)[k] = AgentOpen(i)
    BY <1>2, Zenon DEF Carried
  <2>2. k + 1 \in 1 .. Len(q) /\ q[k + 1] = AgentOpen(i) /\ 1 \in 1 .. (k + 1) - 1
    BY <2>1, TailIndex
  <2> QED
    BY <2>2, <1>2, TailIndex DEF OpenFirst
<1> QED
  BY <1>1, <1>2

-----------------------------------------------------------------------------
(* Chunks in a queue                                                        *)

LEMMA ChunkAppend ==
  ASSUME NEW q \in Seq(Messages), NEW m \in Messages, NEW k \in 1 .. Len(q), NEW i, NEW p, NEW n
  PROVE  Chunk(Append(q, m), k, i, p, n) <=> Chunk(q, k, i, p, n)
  BY AppendIndex DEF Chunk

LEMMA ChunkTail ==
  ASSUME NEW q \in Seq(Messages), q # <<>>, NEW k \in 1 .. Len(q) - 1, NEW i, NEW p, NEW n
  PROVE  Chunk(Tail(q), k, i, p, n) <=> Chunk(q, k + 1, i, p, n)
  BY TailIndex DEF Chunk

LEMMA NoChunks ==
  ASSUME NEW q \in Seq(Messages), NEW i, ~About(q, i)
  PROVE  \A p, n, max : Unbroken(q, i, p, n, max)
  BY DEF About, Unbroken

LEMMA UnbrokenFurther ==
  ASSUME NEW q \in Seq(Messages), NEW i, NEW p, NEW n \in Nat, NEW max \in Nat,
         NEW further \in Nat, max <= further, Unbroken(q, i, p, n, max)
  PROVE  Unbroken(q, i, p, n, further)
<1> SUFFICES ASSUME NEW k \in 1 .. Len(q), q[k].type = "AgentData", q[k].id = i
             PROVE  \E m \in n + 1 .. further :
                       /\ Chunk(q, k, i, p, m)
                       /\ \A l \in n + 1 .. m - 1 : \E j \in 1 .. k - 1 : Chunk(q, j, i, p, l)
                       /\ \A j \in 1 .. k - 1 : ~Chunk(q, j, i, p, m)
  BY DEF Unbroken
<1>1. PICK m \in n + 1 .. max :
         /\ Chunk(q, k, i, p, m)
         /\ \A l \in n + 1 .. m - 1 : \E j \in 1 .. k - 1 : Chunk(q, j, i, p, l)
         /\ \A j \in 1 .. k - 1 : ~Chunk(q, j, i, p, m)
  BY Zenon DEF Unbroken
<1>2. m \in n + 1 .. further
  OBVIOUS
<1> QED
  BY <1>1, <1>2

\* A message that is not a chunk of i changes nothing.
LEMMA UnbrokenAppendOther ==
  ASSUME NEW q \in Seq(Messages), NEW m \in Messages, NEW i, NEW p, NEW n \in Nat, NEW max \in Nat,
         ~(m.type = "AgentData" /\ m.id = i), Unbroken(q, i, p, n, max)
  PROVE  Unbroken(Append(q, m), i, p, n, max)
<1> DEFINE r == Append(q, m)
<1> SUFFICES ASSUME NEW k \in 1 .. Len(r), r[k].type = "AgentData", r[k].id = i
             PROVE  \E x \in n + 1 .. max :
                       /\ Chunk(r, k, i, p, x)
                       /\ \A l \in n + 1 .. x - 1 : \E j \in 1 .. k - 1 : Chunk(r, j, i, p, l)
                       /\ \A j \in 1 .. k - 1 : ~Chunk(r, j, i, p, x)
  BY Zenon DEF Unbroken
<1>1. k \in 1 .. Len(q) /\ r[k] = q[k]
  BY AppendIndex
<1>2. PICK x \in n + 1 .. max :
         /\ Chunk(q, k, i, p, x)
         /\ \A l \in n + 1 .. x - 1 : \E j \in 1 .. k - 1 : Chunk(q, j, i, p, l)
         /\ \A j \in 1 .. k - 1 : ~Chunk(q, j, i, p, x)
  BY <1>1 DEF Unbroken
<1>3. \A j \in 1 .. k - 1 : j \in 1 .. Len(q)
  BY <1>1
<1>4. \A j \in 1 .. Len(q) : \A y : Chunk(r, j, i, p, y) <=> Chunk(q, j, i, p, y)
  BY ChunkAppend
<1> HIDE DEF r
<1> QED
  BY <1>1, <1>2, <1>3, <1>4, Zenon

LEMMA CompleteAppend ==
  ASSUME NEW q \in Seq(Messages), NEW m \in Messages, NEW i, NEW p, NEW n \in Nat, NEW max \in Nat,
         Complete(q, i, p, n, max)
  PROVE  Complete(Append(q, m), i, p, n, max)
<1>1. \A k \in 1 .. Len(q) : k \in 1 .. Len(Append(q, m))
  BY AppendIndex
<1> QED
  BY <1>1, ChunkAppend DEF Complete

\* The next chunk behind all those before it.
LEMMA UnbrokenAppendNext ==
  ASSUME NEW q \in Seq(Messages), NEW i \in Ids, NEW p \in Nat, NEW n \in Nat, NEW max \in Nat,
         n <= max, Unbroken(q, i, p, n, max), Complete(q, i, p, n, max)
  PROVE  LET r == Append(q, AgentData(i, <<p, max + 1>>))
         IN  Unbroken(r, i, p, n, max + 1) /\ Complete(r, i, p, n, max + 1)
<1> DEFINE m == AgentData(i, <<p, max + 1>>)
           r == Append(q, m)
<1>1. /\ m \in Messages /\ m.type = "AgentData" /\ m.id = i /\ m.data = <<p, max + 1>>
  BY DEF AgentData, Messages
<1> HIDE DEF m
<1>2. /\ Len(r) = Len(q) + 1 /\ Len(q) \in Nat /\ r[Len(q) + 1] = m
      /\ \A k \in 1 .. Len(q) : r[k] = q[k]
  BY <1>1, AppendIndex
<1>3. \A k \in 1 .. Len(q) : \A x : Chunk(r, k, i, p, x) <=> Chunk(q, k, i, p, x)
  BY <1>1, ChunkAppend
<1>4. Chunk(r, Len(q) + 1, i, p, max + 1)
  BY <1>1, <1>2 DEF Chunk
<1>5. \A k \in 1 .. Len(q) : ~Chunk(q, k, i, p, max + 1)
  <2> SUFFICES ASSUME NEW k \in 1 .. Len(q), Chunk(q, k, i, p, max + 1)
               PROVE  FALSE
    OBVIOUS
  <2>1. PICK x \in n + 1 .. max : Chunk(q, k, i, p, x)
    BY DEF Unbroken, Chunk
  <2> QED
    BY <2>1 DEF Chunk
<1>6. Complete(r, i, p, n, max + 1)
  <2> SUFFICES ASSUME NEW x \in n + 1 .. max + 1
               PROVE  \E k \in 1 .. Len(r) : Chunk(r, k, i, p, x)
    BY DEF Complete
  <2>1. CASE x = max + 1
    BY <2>1, <1>2, <1>4
  <2>2. CASE x \in n + 1 .. max
    <3>1. PICK k \in 1 .. Len(q) : Chunk(q, k, i, p, x)
      BY <2>2 DEF Complete
    <3>2. k \in 1 .. Len(r)
      BY <1>2
    <3> QED
      BY <3>1, <3>2, <1>3
  <2> QED
    BY <2>1, <2>2
<1>7. Unbroken(r, i, p, n, max + 1)
  <2> SUFFICES ASSUME NEW k \in 1 .. Len(r), r[k].type = "AgentData", r[k].id = i
               PROVE  \E x \in n + 1 .. max + 1 :
                         /\ Chunk(r, k, i, p, x)
                         /\ \A l \in n + 1 .. x - 1 : \E j \in 1 .. k - 1 : Chunk(r, j, i, p, l)
                         /\ \A j \in 1 .. k - 1 : ~Chunk(r, j, i, p, x)
    BY DEF Unbroken
  <2>1. CASE k = Len(q) + 1
    <3>1. max + 1 \in n + 1 .. max + 1 /\ (max + 1) - 1 = max /\ k - 1 = Len(q)
      BY <2>1, <1>2
    <3>2. \A l \in n + 1 .. max : \E j \in 1 .. Len(q) : Chunk(r, j, i, p, l)
      BY <1>3, Zenon DEF Complete
    <3> QED
      BY <2>1, <3>1, <3>2, <1>3, <1>4, <1>5, Zenon
  <2>2. CASE k \in 1 .. Len(q)
    <3>1. PICK x \in n + 1 .. max :
             /\ Chunk(q, k, i, p, x)
             /\ \A l \in n + 1 .. x - 1 : \E j \in 1 .. k - 1 : Chunk(q, j, i, p, l)
             /\ \A j \in 1 .. k - 1 : ~Chunk(q, j, i, p, x)
      BY <2>2, <1>2, Zenon DEF Unbroken
    <3>2. x \in n + 1 .. max + 1
      BY <2>2, <1>2
    <3>3. \A j \in 1 .. k - 1 : j \in 1 .. Len(q)
      BY <2>2, <1>2
    <3> QED
      BY <2>2, <3>1, <3>2, <3>3, <1>3
  <2> QED
    BY <2>1, <2>2, <1>2
<1> QED
  BY <1>6, <1>7 DEF m

LEMMA TailOther ==
  ASSUME NEW q \in Seq(Messages), q # <<>>, NEW i, NEW p, NEW n \in Nat, NEW max \in Nat,
         ~(Head(q).type = "AgentData" /\ Head(q).id = i)
  PROVE  /\ Unbroken(q, i, p, n, max) => Unbroken(Tail(q), i, p, n, max)
         /\ Complete(q, i, p, n, max) => Complete(Tail(q), i, p, n, max)
<1> DEFINE r == Tail(q)
<1>1. /\ Len(r) = Len(q) - 1 /\ Len(q) \in Nat /\ Len(q) > 0 /\ Head(q) = q[1]
      /\ \A k \in 1 .. Len(q) - 1 : r[k] = q[k + 1]
  BY TailIndex
<1>2. \A k \in 1 .. Len(q) - 1 : \A x : Chunk(r, k, i, p, x) <=> Chunk(q, k + 1, i, p, x)
  BY ChunkTail
<1>3. \A x : ~Chunk(q, 1, i, p, x)
  BY <1>1 DEF Chunk
<1> HIDE DEF r
\* Whatever is found in q at j is found one place earlier in its tail.
<1>4. \A k \in Nat : \A x : \A j \in 1 .. k : k <= Len(q) - 1 /\ Chunk(q, j, i, p, x) =>
         j - 1 \in 1 .. k - 1 /\ Chunk(r, j - 1, i, p, x)
  <2> SUFFICES ASSUME NEW k \in Nat, NEW x, NEW j \in 1 .. k, k <= Len(q) - 1,
                      Chunk(q, j, i, p, x)
               PROVE  j - 1 \in 1 .. k - 1 /\ Chunk(r, j - 1, i, p, x)
    OBVIOUS
  <2>1. j # 1
    BY <1>3
  <2>2. j - 1 \in 1 .. k - 1 /\ j - 1 \in 1 .. Len(q) - 1 /\ (j - 1) + 1 = j
    BY <2>1, <1>1
  <2> QED
    BY <2>2, <1>2
<1>5. ASSUME Unbroken(q, i, p, n, max)
      PROVE  Unbroken(r, i, p, n, max)
  <2> SUFFICES ASSUME NEW k \in 1 .. Len(r), r[k].type = "AgentData", r[k].id = i
               PROVE  \E x \in n + 1 .. max :
                         /\ Chunk(r, k, i, p, x)
                         /\ \A l \in n + 1 .. x - 1 : \E j \in 1 .. k - 1 : Chunk(r, j, i, p, l)
                         /\ \A j \in 1 .. k - 1 : ~Chunk(r, j, i, p, x)
    BY Zenon DEF Unbroken
  <2>1. /\ k \in 1 .. Len(q) - 1 /\ k + 1 \in 1 .. Len(q) /\ r[k] = q[k + 1]
        /\ k \in Nat /\ k <= Len(q) - 1 /\ (k + 1) - 1 = k
    BY <1>1
  <2>2. PICK x \in n + 1 .. max :
           /\ Chunk(q, k + 1, i, p, x)
           /\ \A l \in n + 1 .. x - 1 : \E j \in 1 .. k : Chunk(q, j, i, p, l)
           /\ \A j \in 1 .. k : ~Chunk(q, j, i, p, x)
    BY <2>1, <1>5 DEF Unbroken
  <2>3. \A j \in 1 .. k - 1 : j \in 1 .. Len(q) - 1 /\ j + 1 \in 1 .. k
    BY <2>1
  <2> QED
    BY <2>1, <2>2, <2>3, <1>2, <1>4, Zenon
<1>6. ASSUME Complete(q, i, p, n, max)
      PROVE  Complete(r, i, p, n, max)
  <2> SUFFICES ASSUME NEW x \in n + 1 .. max
               PROVE  \E k \in 1 .. Len(r) : Chunk(r, k, i, p, x)
    BY DEF Complete
  <2>1. PICK j \in 1 .. Len(q) : Chunk(q, j, i, p, x)
    BY <1>6 DEF Complete
  <2>2. j # 1
    BY <2>1, <1>3
  <2>3. j - 1 \in 1 .. Len(r) /\ j - 1 \in 1 .. Len(q) - 1 /\ (j - 1) + 1 = j
    BY <2>2, <1>1
  <2> QED
    BY <2>1, <2>3, <1>2, Zenon
<1> QED
  BY <1>5, <1>6 DEF r

DataFor(m, i) == m.type = "AgentData" /\ m.id = i

\* The first chunk is the next one, and the rest continues behind it.
LEMMA TailNext ==
  ASSUME NEW q \in Seq(Messages), q # <<>>, NEW i, NEW p, NEW n \in Nat, NEW max \in Nat,
         DataFor(Head(q), i), Unbroken(q, i, p, n, max)
  PROVE  /\ Head(q).data = <<p, n + 1>> /\ n + 1 <= max
         /\ Unbroken(Tail(q), i, p, n + 1, max)
         /\ Complete(q, i, p, n, max) => Complete(Tail(q), i, p, n + 1, max)
<1> DEFINE r == Tail(q)
<1>1. /\ Len(r) = Len(q) - 1 /\ Len(q) \in Nat /\ Len(q) > 0 /\ Head(q) = q[1]
      /\ 1 \in 1 .. Len(q)
      /\ \A k \in 1 .. Len(q) - 1 : r[k] = q[k + 1]
  BY TailIndex
<1>2. \A k \in 1 .. Len(q) - 1 : \A x : Chunk(r, k, i, p, x) <=> Chunk(q, k + 1, i, p, x)
  BY ChunkTail
<1> HIDE DEF r
<1>3. PICK first \in n + 1 .. max :
         /\ Chunk(q, 1, i, p, first)
         /\ \A l \in n + 1 .. first - 1 : \E j \in 1 .. 1 - 1 : Chunk(q, j, i, p, l)
  BY <1>1, Zenon DEF Unbroken, DataFor
<1>4. first = n + 1
  <2>1. \A j : j \notin 1 .. 1 - 1
    OBVIOUS
  <2>2. \A l \in n + 1 .. first - 1 : FALSE
    BY <1>3, <2>1
  <2>3. first # n + 1 => n + 1 \in n + 1 .. first - 1
    OBVIOUS
  <2> QED
    BY <2>2, <2>3
<1>5. Head(q).data = <<p, n + 1>> /\ n + 1 <= max /\ Chunk(q, 1, i, p, n + 1)
  BY <1>1, <1>3, <1>4 DEF Chunk
<1>6. \A x : Chunk(q, 1, i, p, x) => x = n + 1
  BY <1>5 DEF Chunk
<1>7. \A k \in Nat : \A x : \A j \in 1 .. k : k <= Len(q) - 1 /\ Chunk(q, j, i, p, x) /\ x # n + 1 =>
         j - 1 \in 1 .. k - 1 /\ Chunk(r, j - 1, i, p, x)
  <2> SUFFICES ASSUME NEW k \in Nat, NEW x, NEW j \in 1 .. k, k <= Len(q) - 1,
                      Chunk(q, j, i, p, x), x # n + 1
               PROVE  j - 1 \in 1 .. k - 1 /\ Chunk(r, j - 1, i, p, x)
    OBVIOUS
  <2>1. j # 1
    BY <1>6
  <2>2. j - 1 \in 1 .. k - 1 /\ j - 1 \in 1 .. Len(q) - 1 /\ (j - 1) + 1 = j
    BY <2>1, <1>1
  <2> QED
    BY <2>2, <1>2
<1>8. Unbroken(r, i, p, n + 1, max)
  <2> SUFFICES ASSUME NEW k \in 1 .. Len(r), r[k].type = "AgentData", r[k].id = i
               PROVE  \E x \in (n + 1) + 1 .. max :
                         /\ Chunk(r, k, i, p, x)
                         /\ \A l \in (n + 1) + 1 .. x - 1 :
                               \E j \in 1 .. k - 1 : Chunk(r, j, i, p, l)
                         /\ \A j \in 1 .. k - 1 : ~Chunk(r, j, i, p, x)
    BY Zenon DEF Unbroken
  <2>1. /\ k \in 1 .. Len(q) - 1 /\ k + 1 \in 1 .. Len(q) /\ r[k] = q[k + 1]
        /\ k \in Nat /\ k <= Len(q) - 1 /\ (k + 1) - 1 = k /\ 1 \in 1 .. k
    BY <1>1
  <2>2. PICK x \in n + 1 .. max :
           /\ Chunk(q, k + 1, i, p, x)
           /\ \A l \in n + 1 .. x - 1 : \E j \in 1 .. k : Chunk(q, j, i, p, l)
           /\ \A j \in 1 .. k : ~Chunk(q, j, i, p, x)
    BY <2>1, Zenon DEF Unbroken
  <2>3. x # n + 1
    BY <2>1, <2>2, <1>5
  <2>4. x \in (n + 1) + 1 .. max
    BY <2>3
  <2>5. \A l \in (n + 1) + 1 .. x - 1 : l \in n + 1 .. x - 1 /\ l # n + 1
    OBVIOUS
  <2>6. \A j \in 1 .. k - 1 : j \in 1 .. Len(q) - 1 /\ j + 1 \in 1 .. k
    BY <2>1
  <2>7. \A l \in (n + 1) + 1 .. x - 1 : \E j \in 1 .. k - 1 : Chunk(r, j, i, p, l)
    BY <2>1, <2>2, <2>5, <1>7, Zenon
  <2>8. Chunk(r, k, i, p, x) /\ \A j \in 1 .. k - 1 : ~Chunk(r, j, i, p, x)
    BY <2>1, <2>2, <2>6, <1>2
  <2> QED
    BY <2>4, <2>7, <2>8
<1>9. ASSUME Complete(q, i, p, n, max)
      PROVE  Complete(r, i, p, n + 1, max)
  <2> SUFFICES ASSUME NEW x \in (n + 1) + 1 .. max
               PROVE  \E k \in 1 .. Len(r) : Chunk(r, k, i, p, x)
    BY DEF Complete
  <2>1. x \in n + 1 .. max /\ x # n + 1
    OBVIOUS
  <2>2. PICK j \in 1 .. Len(q) : Chunk(q, j, i, p, x)
    BY <2>1, <1>9 DEF Complete
  <2>3. j # 1
    BY <2>1, <2>2, <1>6
  <2>4. j - 1 \in 1 .. Len(r) /\ j - 1 \in 1 .. Len(q) - 1 /\ (j - 1) + 1 = j
    BY <2>3, <1>1
  <2> QED
    BY <2>2, <2>4, <1>2, Zenon
<1> QED
  BY <1>5, <1>8, <1>9 DEF r

-----------------------------------------------------------------------------
(* Chunks that have arrived                                                 *)

LEMMA NothingContinues ==
  \A p, n : Continues(<<>>, p, n)
  BY DEF Continues

LEMMA TwoLengths ==
  ASSUME NEW s \in Seq(Seq(Nat)), NEW t \in Seq(Seq(Nat))
  PROVE  Len(s) \in Nat /\ Len(t) \in Nat /\ Len(s) + Len(t) \in Nat
OBVIOUS

LEMMA ContinuesAppend ==
  ASSUME NEW s \in Seq(Seq(Nat)), NEW p \in Nat, NEW n \in Nat, Continues(s, p, n)
  PROVE  /\ Continues(Append(s, <<p, (n + Len(s)) + 1>>), p, n)
         /\ Len(Append(s, <<p, (n + Len(s)) + 1>>)) = Len(s) + 1
<1> DEFINE t == Append(s, <<p, (n + Len(s)) + 1>>)
<1>1. <<p, (n + Len(s)) + 1>> \in Seq(Nat)
  OBVIOUS
<1>2. /\ Len(t) = Len(s) + 1 /\ Len(s) \in Nat
      /\ t[Len(s) + 1] = <<p, n + (Len(s) + 1)>>
      /\ \A k \in 1 .. Len(s) : t[k] = s[k]
  BY <1>1
<1> HIDE DEF t
<1>3. ASSUME NEW k \in 1 .. Len(t)
      PROVE  t[k] = <<p, n + k>>
  <2>1. CASE k = Len(s) + 1
    <3>1. t[k] = t[Len(s) + 1] /\ n + k = n + (Len(s) + 1)
      BY <2>1
    <3> QED
      BY <3>1, <1>2, Zenon
  <2>2. CASE k \in 1 .. Len(s)
    BY <2>2, <1>2, Zenon DEF Continues
  <2>3. k = Len(s) + 1 \/ k \in 1 .. Len(s)
    BY <1>2
  <2> QED
    BY <2>1, <2>2, <2>3
<1>4. Continues(t, p, n)
  BY <1>3 DEF Continues
<1> QED
  BY <1>2, <1>4 DEF t

\* The first of the waiting chunks t goes behind those that were taken before.
LEMMA ContinuesMove ==
  ASSUME NEW s \in Seq(Seq(Nat)), NEW t \in Seq(Seq(Nat)), NEW p \in Nat, t # <<>>,
         Continues(s, p, 0), Continues(t, p, Len(s))
  PROVE  /\ Continues(Append(s, Head(t)), p, 0)
         /\ Continues(Tail(t), p, Len(Append(s, Head(t))))
         /\ Len(Append(s, Head(t))) + Len(Tail(t)) = Len(s) + Len(t)
         /\ Len(Append(s, Head(t))) = Len(s) + 1
<1>1. Len(t) \in Nat /\ Len(t) > 0 /\ Head(t) = t[1] /\ Head(t) \in Seq(Nat)
  OBVIOUS
<1>2. Head(t) = <<p, Len(s) + 1>>
  BY <1>1 DEF Continues
<1>3. /\ Len(Append(s, Head(t))) = Len(s) + 1 /\ Len(Tail(t)) = Len(t) - 1
      /\ Append(s, Head(t))[Len(s) + 1] = Head(t)
      /\ \A k \in 1 .. Len(s) : Append(s, Head(t))[k] = s[k]
      /\ \A k \in 1 .. Len(t) - 1 : Tail(t)[k] = t[k + 1]
  BY <1>1
<1>4. Continues(Append(s, Head(t)), p, 0)
  BY <1>2, <1>3 DEF Continues
<1>5. Continues(Tail(t), p, Len(s) + 1)
  <2> SUFFICES ASSUME NEW k \in 1 .. Len(Tail(t))
               PROVE  Tail(t)[k] = <<p, (Len(s) + 1) + k>>
    BY DEF Continues
  <2>1. /\ k \in 1 .. Len(t) - 1 /\ k + 1 \in 1 .. Len(t)
        /\ Len(s) + (k + 1) = (Len(s) + 1) + k
    BY <1>1, <1>3
  <2> QED
    BY <2>1, <1>3 DEF Continues
<1> QED
  BY <1>1, <1>3, <1>4, <1>5

-----------------------------------------------------------------------------
(* Types and ids                                                            *)

LEMMA NotNone ==
  /\ None \notin Programs /\ None \notin Channels /\ None \notin Ids
  /\ \A p \in Programs : p \in Nat
  /\ \A i \in Ids : i \in Nat
  BY AgentBounds DEF None, Programs, Channels, Ids

LEMMA RecvStreams ==
  ASSUME TypeOK, NEW c \in Channels, RecvFromServer(c)
  PROVE  cstreams' = [cstreams EXCEPT ![c] =
                        IF Head(down[c]).type = "AgentOpen" THEN @ \cup {Head(down[c]).id}
                        ELSE IF Head(down[c]).type = "AgentClose" THEN @ \ {Head(down[c]).id}
                        ELSE @]
  BY Zenon DEF RecvFromServer

Stages == {"idle", "waiting", "opening", "relay", "closing", "done", "refused"}
Types == TypeOK /\ HistoryOK

\* An id is left for a program that has not registered.
IdLeft == \A p \in Programs : id[p] = None => next_id \in Ids

\* The hub's channel is one whose handler has not returned.
Current == channel \in {None} \cup {c \in Channels : srv[c] \in {"attached", "ended"}}

LEMMA TypesAre ==
  Types <=>
    /\ Current
    /\ streams \in [Ids -> Programs \cup {None}] /\ next_id \in 1 .. MaxPrograms + 1
    /\ prog \in [Programs -> Stages] /\ id \in [Programs -> Ids \cup {None}]
    /\ write \in [Programs -> Seq(Seq(Nat))]
    /\ srv \in [Channels -> {"none", "attached", "ended", "closed"}]
    /\ cli \in [Channels -> {"none", "relay", "gone"}] /\ down \in [Channels -> Seq(Messages)]
    /\ up \in [Channels -> Seq(Messages)] /\ cstreams \in [Channels -> SUBSET Ids]
    /\ dialed \in [Channels -> [Ids -> {"none", "dial", "relay"}]]
    /\ cwrite \in [Channels -> [Ids -> Seq(Seq(Nat))]] /\ asked \in [Programs -> Nat]
    /\ got \in [Programs -> Seq(Seq(Nat))]
    /\ agent_got \in [Channels -> [Ids -> Seq(Seq(Nat))]]
    /\ replied \in [Channels -> [Ids -> Nat]]
    /\ opened_on \in [Programs -> Channels \cup {None}] /\ newest \in Channels \cup {None}
  BY Zenon DEF Types, TypeOK, HistoryOK, Current, Stages

\* A step that keeps the type of each variable it changes.
LEMMA TypesKept ==
  ASSUME Types, Current',
         streams' \in [Ids -> Programs \cup {None}] \/ UNCHANGED streams,
         next_id' \in 1 .. MaxPrograms + 1 \/ UNCHANGED next_id,
         prog' \in [Programs -> Stages] \/ UNCHANGED prog,
         id' \in [Programs -> Ids \cup {None}] \/ UNCHANGED id,
         write' \in [Programs -> Seq(Seq(Nat))] \/ UNCHANGED write,
         srv' \in [Channels -> {"none", "attached", "ended", "closed"}] \/ UNCHANGED srv,
         cli' \in [Channels -> {"none", "relay", "gone"}] \/ UNCHANGED cli,
         down' \in [Channels -> Seq(Messages)] \/ UNCHANGED down,
         up' \in [Channels -> Seq(Messages)] \/ UNCHANGED up,
         cstreams' \in [Channels -> SUBSET Ids] \/ UNCHANGED cstreams,
         dialed' \in [Channels -> [Ids -> {"none", "dial", "relay"}]] \/ UNCHANGED dialed,
         cwrite' \in [Channels -> [Ids -> Seq(Seq(Nat))]] \/ UNCHANGED cwrite,
         asked' \in [Programs -> Nat] \/ UNCHANGED asked,
         got' \in [Programs -> Seq(Seq(Nat))] \/ UNCHANGED got,
         agent_got' \in [Channels -> [Ids -> Seq(Seq(Nat))]] \/ UNCHANGED agent_got,
         replied' \in [Channels -> [Ids -> Nat]] \/ UNCHANGED replied,
         opened_on' \in [Programs -> Channels \cup {None}] \/ UNCHANGED opened_on,
         newest' \in Channels \cup {None} \/ UNCHANGED newest
  PROVE  Types'
<1>1. streams' \in [Ids -> Programs \cup {None}]
  BY TypesAre, Zenon
<1>2. next_id' \in 1 .. MaxPrograms + 1
  BY TypesAre, Zenon
<1>3. prog' \in [Programs -> Stages]
  BY TypesAre, Zenon
<1>4. id' \in [Programs -> Ids \cup {None}]
  BY TypesAre, Zenon
<1>5. write' \in [Programs -> Seq(Seq(Nat))]
  BY TypesAre, Zenon
<1>6. srv' \in [Channels -> {"none", "attached", "ended", "closed"}]
  BY TypesAre, Zenon
<1>7. cli' \in [Channels -> {"none", "relay", "gone"}]
  BY TypesAre, Zenon
<1>8. down' \in [Channels -> Seq(Messages)]
  BY TypesAre, Zenon
<1>9. up' \in [Channels -> Seq(Messages)]
  BY TypesAre, Zenon
<1>10. cstreams' \in [Channels -> SUBSET Ids]
  BY TypesAre, Zenon
<1>11. dialed' \in [Channels -> [Ids -> {"none", "dial", "relay"}]]
  BY TypesAre, Zenon
<1>12. cwrite' \in [Channels -> [Ids -> Seq(Seq(Nat))]]
  BY TypesAre, Zenon
<1>13. asked' \in [Programs -> Nat]
  BY TypesAre, Zenon
<1>14. got' \in [Programs -> Seq(Seq(Nat))]
  BY TypesAre, Zenon
<1>15. agent_got' \in [Channels -> [Ids -> Seq(Seq(Nat))]]
  BY TypesAre, Zenon
<1>16. replied' \in [Channels -> [Ids -> Nat]]
  BY TypesAre, Zenon
<1>17. opened_on' \in [Programs -> Channels \cup {None}]
  BY TypesAre, Zenon
<1>18. newest' \in Channels \cup {None}
  BY TypesAre, Zenon
<1> QED
  BY <1>1, <1>2, <1>3, <1>4, <1>5, <1>6, <1>7, <1>8, <1>9, <1>10, <1>11,
     <1>12, <1>13, <1>14, <1>15, <1>16, <1>17, <1>18,
     ZenonT(30) DEF Types, TypeOK, HistoryOK, Current, Stages

LEMMA SendToChannelType ==
  ASSUME Types, NEW m \in Messages, SendToChannel(m)
  PROVE  down' \in [Channels -> Seq(Messages)]
<1>1. down \in [Channels -> Seq(Messages)] /\ channel \in {None} \cup Channels
  BY TypesAre, Zenon DEF Current
<1> QED
  BY <1>1 DEF SendToChannel

LEMMA SendToServerType ==
  ASSUME Types, NEW m \in Messages, NEW c \in Channels, SendToServer(c, m)
  PROVE  up' \in [Channels -> Seq(Messages)]
<1>1. up \in [Channels -> Seq(Messages)]
  BY TypesAre, Zenon
<1> QED
  BY <1>1 DEF SendToServer

LEMMA RelayGotoType ==
  ASSUME Types, NEW p \in Programs, NEW where \in Stages, RelayGoto(p, where)
  PROVE  prog' \in [Programs -> Stages]
  BY TypesAre, Zenon DEF RelayGoto

LEMMA CurrentKept ==
  ASSUME Types, UNCHANGED <<channel, srv>>
  PROVE  Current'
  BY TypesAre, Zenon DEF Current

LEMMA HasId ==
  ASSUME Types, IdInv, NEW p \in Programs, prog[p] \in {"opening", "relay", "closing", "done"}
  PROVE  id[p] \in Ids
<1>1. id[p] \in Ids \cup {None}
  BY TypesAre, Zenon
<1>2. id[p] # None
  BY Zenon DEF IdInv
<1> QED
  BY <1>1, <1>2

LEMMA ProgramTypes ==
  ASSUME Types, IdInv, IdLeft, NEW p \in Programs,
         \/ Accept(p) \/ NoChannel(p) \/ Register(p) \/ Open(p) \/ ReadProgram(p)
         \/ WriteProgram(p) \/ Finish(p) \/ \E b \in BOOLEAN : LeaveRelay(p, b)
  PROVE  Types'
<1> USE Zenon DEF hubVars, wireVars, clientVars, agentVars
<1>1. Current'
  BY CurrentKept
     DEF Accept, NoChannel, Register, Open, ReadProgram, WriteProgram, Finish, LeaveRelay
<1>2. prog' \in [Programs -> Stages] \/ UNCHANGED prog
  BY RelayGotoType
     DEF Accept, NoChannel, Register, Open, ReadProgram, WriteProgram, Finish, LeaveRelay, Stages
<1>3. CASE Accept(p) \/ NoChannel(p) \/ \E b \in BOOLEAN : LeaveRelay(p, b)
  BY <1>1, <1>2, <1>3, TypesKept DEF Accept, NoChannel, LeaveRelay
<1>4. CASE Register(p)
  <2>1. next_id \in Ids
    BY <1>4 DEF Register, IdInv, IdLeft
  <2>2. next_id' \in 1 .. MaxPrograms + 1
    BY <1>4, <2>1, AgentBounds, SMT DEF Ids, Register, IdAfter
  <2>3. id' \in [Programs -> Ids \cup {None}]
    BY <1>4, <2>1, TypesAre DEF Register
  <2>4. streams' \in [Ids -> Programs \cup {None}]
    BY <1>4, <2>1, TypesAre DEF Register
  <2> QED
    BY <1>1, <1>2, <1>4, <2>2, <2>3, <2>4, TypesKept DEF Register
<1>5. CASE Open(p)
  <2>1. id[p] \in Ids
    BY <1>5, HasId DEF Open
  <2>2. down' \in [Channels -> Seq(Messages)]
    BY <1>5, <2>1, IsMessage, SendToChannelType DEF Open
  <2>3. streams' \in [Ids -> Programs \cup {None}]
    BY <1>5, <2>1, TypesAre DEF Open, Announced
  <2>4. opened_on' \in [Programs -> Channels \cup {None}]
    <3>1. channel \in Channels \cup {None} /\ opened_on \in [Programs -> Channels \cup {None}]
      BY TypesAre DEF Current
    <3> QED
      BY <1>5, <3>1 DEF Open
  <2> QED
    BY <1>1, <1>2, <1>5, <2>2, <2>3, <2>4, TypesKept DEF Open
<1>6. CASE ReadProgram(p)
  <2>1. id[p] \in Ids
    BY <1>6, HasId DEF ReadProgram
  <2>2. asked \in [Programs -> Nat] /\ asked[p] \in Nat
    BY TypesAre
  <2>3. <<p, asked[p] + 1>> \in Seq(Nat) /\ asked[p] + 1 \in Nat
    BY <2>2, NotNone, SMT
  <2>4. down' \in [Channels -> Seq(Messages)]
    BY <1>6, <2>1, <2>3, IsMessage, SendToChannelType DEF ReadProgram
  <2>5. asked' \in [Programs -> Nat]
    BY <1>6, <2>2, <2>3 DEF ReadProgram
  <2> QED
    BY <1>1, <1>2, <1>6, <2>4, <2>5, TypesKept DEF ReadProgram
<1>7. CASE WriteProgram(p)
  <2>1. /\ write \in [Programs -> Seq(Seq(Nat))] /\ got \in [Programs -> Seq(Seq(Nat))]
        /\ write[p] \in Seq(Seq(Nat)) /\ got[p] \in Seq(Seq(Nat)) /\ write[p] # <<>>
    BY <1>7, TypesAre DEF WriteProgram
  <2>2. Tail(write[p]) \in Seq(Seq(Nat)) /\ Append(got[p], Head(write[p])) \in Seq(Seq(Nat))
    BY <2>1, SMT
  <2>3. write' \in [Programs -> Seq(Seq(Nat))] /\ got' \in [Programs -> Seq(Seq(Nat))]
    BY <1>7, <2>1, <2>2 DEF WriteProgram
  <2> QED
    BY <1>1, <1>2, <1>7, <2>3, TypesKept DEF WriteProgram
<1>8. CASE Finish(p)
  <2>1. id[p] \in Ids
    BY <1>8, HasId DEF Finish
  <2>2. down' \in [Channels -> Seq(Messages)]
    BY <1>8, <2>1, IsMessage, SendToChannelType DEF Finish, AnnounceClose
  <2>3. streams' \in [Ids -> Programs \cup {None}]
    BY <1>8, <2>1, TypesAre DEF Finish
  <2>4. <<>> \in Seq(Seq(Nat))
    BY SMT
  <2>5. write' \in [Programs -> Seq(Seq(Nat))]
    BY <1>8, <2>4, TypesAre DEF Finish
  <2> QED
    BY <1>1, <1>2, <1>8, <2>2, <2>3, <2>5, TypesKept DEF Finish
<1> QED
  BY <1>3, <1>4, <1>5, <1>6, <1>7, <1>8

LEMMA ChannelTypes ==
  ASSUME Types, NEW c \in Channels,
         \/ OpenChannel(c) \/ Attach(c) \/ Deny(c) \/ RecvFromClient(c) \/ EndChannel(c)
         \/ Detach(c) \/ RecvFromServer(c) \/ LeaveChannel(c)
  PROVE  Types'
<1> USE Zenon DEF hubVars, wireVars, clientVars, agentVars
<1>1. /\ srv \in [Channels -> {"none", "attached", "ended", "closed"}]
      /\ cli \in [Channels -> {"none", "relay", "gone"}]
      /\ down \in [Channels -> Seq(Messages)] /\ up \in [Channels -> Seq(Messages)]
      /\ cstreams \in [Channels -> SUBSET Ids] /\ channel \in {None} \cup Channels
      /\ channel # None => srv[channel] \in {"attached", "ended"}
  BY TypesAre DEF Current
<1>0. <<>> \in Seq(Messages)
  BY SMT
<1>2. CASE OpenChannel(c)
  <2>1. Current' /\ cli' \in [Channels -> {"none", "relay", "gone"}]
    BY <1>1, <1>2, CurrentKept DEF OpenChannel
  <2> QED
    BY <1>2, <2>1, TypesKept DEF OpenChannel
<1>3. CASE Attach(c)
  <2>1. /\ srv' \in [Channels -> {"none", "attached", "ended", "closed"}]
        /\ newest' \in Channels \cup {None}
    BY <1>1, <1>3 DEF Attach
  <2>2. Current'
    BY <1>1, <1>3 DEF Attach, Current
  <2> QED
    BY <1>3, <2>1, <2>2, TypesKept DEF Attach
<1>4. CASE Deny(c)
  <2>1. srv' \in [Channels -> {"none", "attached", "ended", "closed"}]
    BY <1>1, <1>4 DEF Deny
  <2>2. Current'
    BY <1>1, <1>4, SMT DEF Deny, Current
  <2> QED
    BY <1>4, <2>1, <2>2, TypesKept DEF Deny
<1>5. CASE RecvFromClient(c)
  <2>1. up[c] \in Seq(Messages) /\ up[c] # <<>>
    BY <1>1, <1>5 DEF RecvFromClient
  <2>2. Head(up[c]) \in Messages /\ Tail(up[c]) \in Seq(Messages)
    BY <2>1, TailIndex
  <2>3. Head(up[c]).id \in Ids /\ Head(up[c]).data \in Seq(Nat)
    BY <2>2, MessageId, Zenon
  <2>4. up' \in [Channels -> Seq(Messages)]
    BY <1>1, <1>5, <2>2 DEF RecvFromClient
  <2>5. write' \in [Programs -> Seq(Seq(Nat))]
    <3>1. write \in [Programs -> Seq(Seq(Nat))] /\ streams \in [Ids -> Programs \cup {None}]
      BY TypesAre
    <3>2. \A p \in Programs : Append(write[p], Head(up[c]).data) \in Seq(Seq(Nat))
      BY <2>3, <3>1, SMT
    <3> QED
      BY <1>5, <2>3, <3>1, <3>2 DEF RecvFromClient
  <2>6. streams' \in [Ids -> Programs \cup {None}]
    BY <1>5, <2>3, TypesAre DEF RecvFromClient
  <2>7. Current'
    BY <1>5, CurrentKept DEF RecvFromClient
  <2> QED
    BY <1>5, <2>4, <2>5, <2>6, <2>7, TypesKept DEF RecvFromClient
<1>6. CASE EndChannel(c)
  <2>1. /\ srv' \in [Channels -> {"none", "attached", "ended", "closed"}]
        /\ up' \in [Channels -> Seq(Messages)]
    BY <1>0, <1>1, <1>6 DEF EndChannel
  <2>2. Current'
    BY <1>1, <1>6, SMT DEF EndChannel, Current
  <2> QED
    BY <1>6, <2>1, <2>2, TypesKept DEF EndChannel
<1>7. CASE Detach(c)
  <2>1. srv' \in [Channels -> {"none", "attached", "ended", "closed"}]
    BY <1>1, <1>7 DEF Detach
  <2>2. Current'
    BY <1>1, <1>7, SMT DEF Detach, Forget, Current
  <2> QED
    BY <1>7, <2>1, <2>2, TypesKept DEF Detach
<1>8. CASE RecvFromServer(c)
  <2>1. down[c] \in Seq(Messages) /\ down[c] # <<>>
    BY <1>1, <1>8 DEF RecvFromServer
  <2>2. Head(down[c]) \in Messages /\ Tail(down[c]) \in Seq(Messages)
    BY <2>1, TailIndex
  <2>3. Head(down[c]).id \in Ids /\ Head(down[c]).data \in Seq(Nat)
    BY <2>2, MessageId, Zenon
  <2>4. down' \in [Channels -> Seq(Messages)]
    BY <1>1, <1>8, <2>2 DEF RecvFromServer
  <2>5. cstreams' \in [Channels -> SUBSET Ids]
    <3>1. /\ cstreams[c] \cup {Head(down[c]).id} \in SUBSET Ids
          /\ cstreams[c] \ {Head(down[c]).id} \in SUBSET Ids
      BY <1>1, <2>3, SMT
    <3> DEFINE new == IF Head(down[c]).type = "AgentOpen" THEN cstreams[c] \cup {Head(down[c]).id}
                      ELSE IF Head(down[c]).type = "AgentClose"
                           THEN cstreams[c] \ {Head(down[c]).id} ELSE cstreams[c]
    <3>2. cstreams' = [cstreams EXCEPT ![c] = new]
      BY <1>8, RecvStreams DEF Types
    <3>3. new \in SUBSET Ids
      BY <1>1, <3>1
    <3> QED
      BY <1>1, <3>2, <3>3
  <2>6. dialed' \in [Channels -> [Ids -> {"none", "dial", "relay"}]]
    <3>1. dialed \in [Channels -> [Ids -> {"none", "dial", "relay"}]]
      BY TypesAre
    <3> QED
      BY <1>8, <2>3, <3>1 DEF RecvFromServer
  <2>7. cwrite' \in [Channels -> [Ids -> Seq(Seq(Nat))]]
    <3>1. cwrite \in [Channels -> [Ids -> Seq(Seq(Nat))]]
      BY TypesAre
    <3>2. Append(cwrite[c][Head(down[c]).id], Head(down[c]).data) \in Seq(Seq(Nat))
      BY <2>3, <3>1, SMT
    <3> QED
      BY <1>8, <2>3, <3>1, <3>2 DEF RecvFromServer
  <2>8. Current'
    BY <1>8, CurrentKept DEF RecvFromServer
  <2> QED
    BY <1>8, <2>4, <2>5, <2>6, <2>7, <2>8, TypesKept DEF RecvFromServer
<1>9. CASE LeaveChannel(c)
  <2>1. /\ cli' \in [Channels -> {"none", "relay", "gone"}]
        /\ cstreams' \in [Channels -> SUBSET Ids] /\ down' \in [Channels -> Seq(Messages)]
    BY <1>1, <1>9, SMT DEF LeaveChannel
  <2>2. Current'
    BY <1>9, CurrentKept DEF LeaveChannel
  <2> QED
    BY <1>9, <2>1, <2>2, TypesKept DEF LeaveChannel
<1> QED
  BY <1>2, <1>3, <1>4, <1>5, <1>6, <1>7, <1>8, <1>9

LEMMA EndStreamType ==
  ASSUME Types, NEW c \in Channels, NEW i \in Ids, EndStream(c, i)
  PROVE  /\ dialed' \in [Channels -> [Ids -> {"none", "dial", "relay"}]]
         /\ cwrite' \in [Channels -> [Ids -> Seq(Seq(Nat))]]
         /\ agent_got' \in [Channels -> [Ids -> Seq(Seq(Nat))]]
         /\ replied' \in [Channels -> [Ids -> Nat]]
<1>1. /\ dialed \in [Channels -> [Ids -> {"none", "dial", "relay"}]]
      /\ cwrite \in [Channels -> [Ids -> Seq(Seq(Nat))]]
      /\ agent_got \in [Channels -> [Ids -> Seq(Seq(Nat))]]
      /\ replied \in [Channels -> [Ids -> Nat]]
  BY TypesAre, Zenon
<1>2. <<>> \in Seq(Seq(Nat)) /\ 0 \in Nat
  BY SMT
<1> QED
  BY <1>1, <1>2, Zenon DEF EndStream

LEMMA AgentTypes ==
  ASSUME Types, NEW c \in Channels, NEW i \in Ids,
         \/ Dial(c, i) \/ AgentLost(c, i) \/ WriteAgent(c, i)
         \/ ReadAgent(c, i) \/ AgentStreamClosed(c, i)
  PROVE  Types'
<1> USE Zenon DEF hubVars, wireVars, clientVars, agentVars
<1>1. Current'
  BY CurrentKept DEF Dial, AgentLost, WriteAgent, ReadAgent, AgentStreamClosed
<1>2. /\ dialed \in [Channels -> [Ids -> {"none", "dial", "relay"}]]
      /\ cwrite \in [Channels -> [Ids -> Seq(Seq(Nat))]]
      /\ agent_got \in [Channels -> [Ids -> Seq(Seq(Nat))]]
      /\ replied \in [Channels -> [Ids -> Nat]]
  BY TypesAre
<1>3. CASE Dial(c, i)
  <2>1. dialed' \in [Channels -> [Ids -> {"none", "dial", "relay"}]]
    BY <1>2, <1>3 DEF Dial
  <2> QED
    BY <1>1, <1>3, <2>1, TypesKept DEF Dial
<1>4. CASE AgentLost(c, i)
  <2>1. up' \in [Channels -> Seq(Messages)]
    BY <1>4, IsMessage, SendToServerType DEF AgentLost, ReportLoss
  <2> QED
    BY <1>1, <1>4, <2>1, EndStreamType, TypesKept DEF AgentLost
<1>5. CASE WriteAgent(c, i)
  <2>1. /\ cwrite[c][i] \in Seq(Seq(Nat)) /\ cwrite[c][i] # <<>>
        /\ agent_got[c][i] \in Seq(Seq(Nat))
    BY <1>2, <1>5 DEF WriteAgent
  <2>2. /\ Tail(cwrite[c][i]) \in Seq(Seq(Nat))
        /\ Append(agent_got[c][i], Head(cwrite[c][i])) \in Seq(Seq(Nat))
    BY <2>1, SMT
  <2>3. /\ cwrite' \in [Channels -> [Ids -> Seq(Seq(Nat))]]
        /\ agent_got' \in [Channels -> [Ids -> Seq(Seq(Nat))]]
    BY <1>2, <1>5, <2>2 DEF WriteAgent, NextData
  <2> QED
    BY <1>1, <1>5, <2>3, TypesKept DEF WriteAgent
<1>6. CASE ReadAgent(c, i)
  <2>1. CASE cli[c] = "relay"
    <3>1. agent_got[c][i][replied[c][i] + 1] \in Seq(Nat) /\ replied[c][i] + 1 \in Nat
      <4>1. agent_got[c][i] \in Seq(Seq(Nat)) /\ replied[c][i] \in Nat
        BY <1>2
      <4>2. replied[c][i] < Len(agent_got[c][i])
        BY <1>6 DEF ReadAgent
      <4>3. replied[c][i] + 1 \in 1 .. Len(agent_got[c][i]) /\ replied[c][i] + 1 \in Nat
        BY <4>1, <4>2, SMT
      <4>4. ASSUME NEW s \in Seq(Seq(Nat)), NEW k \in 1 .. Len(s)
            PROVE  s[k] \in Seq(Nat)
        BY SMT
      <4> QED
        BY <4>1, <4>3, <4>4
    <3>2. up' \in [Channels -> Seq(Messages)]
      BY <1>6, <2>1, <3>1, IsMessage, SendToServerType DEF ReadAgent
    <3>3. replied' \in [Channels -> [Ids -> Nat]]
      <4>1. replied' = [replied EXCEPT ![c][i] = replied[c][i] + 1]
        BY <1>6, <2>1 DEF ReadAgent
      <4> QED
        BY <1>2, <3>1, <4>1
    <3> QED
      BY <1>1, <1>6, <2>1, <3>2, <3>3, TypesKept DEF ReadAgent
  <2>2. CASE cli[c] # "relay"
    BY <1>1, <1>6, <2>2, EndStreamType, TypesKept DEF ReadAgent
  <2> QED
    BY <2>1, <2>2
<1>7. CASE AgentStreamClosed(c, i)
  BY <1>1, <1>7, EndStreamType, TypesKept DEF AgentStreamClosed
<1> QED
  BY <1>3, <1>4, <1>5, <1>6, <1>7

LEMMA NestedUpdate ==
  ASSUME NEW S, NEW f \in [Channels -> [Ids -> S]], NEW c \in Channels, NEW i \in Ids, NEW v
  PROVE  \A d \in Channels : \A j \in Ids :
            [f EXCEPT ![c][i] = v][d][j] = IF d = c /\ j = i THEN v ELSE f[d][j]
  OBVIOUS

LEMMA TypesStep ==
  ASSUME AgentInvariant, IdLeft, [Next]_vars
  PROVE  Types'
<1>1. CASE UNCHANGED vars
  <2>1. UNCHANGED <<channel, srv>>
    BY <1>1, Zenon DEF vars, hubVars
  <2> QED
    BY <1>1, <2>1, CurrentKept, TypesKept, Zenon
       DEF AgentInvariant, Types, vars, hubVars, wireVars, clientVars, agentVars
<1>2. CASE Next
  BY <1>2, ProgramTypes, ChannelTypes, AgentTypes, Zenon DEF Next, AgentInvariant, Types
<1> QED
  BY <1>1, <1>2

-----------------------------------------------------------------------------
(* What a step does                                                         *)

\* What relay_agent_stream of one program may do next.
Moves == {<<"idle", "waiting">>, <<"waiting", "refused">>, <<"opening", "refused">>,
          <<"opening", "relay">>, <<"relay", "relay">>, <<"relay", "closing">>,
          <<"closing", "done">>}

LEMMA ProgramMoves ==
  ASSUME Types, [Next]_vars
  PROVE  \/ UNCHANGED <<prog, id, next_id>>
         \/ \E p \in Programs, w \in Stages :
               RelayGoto(p, w) /\ <<prog[p], w>> \in Moves /\ UNCHANGED <<id, next_id>>
         \/ \E p \in Programs : Register(p)
<1> USE Zenon DEF hubVars, wireVars, clientVars, agentVars
<1>1. CASE UNCHANGED vars
  BY <1>1 DEF vars
<1>2. ASSUME NEW p \in Programs, NEW w \in Stages, RelayGoto(p, w), UNCHANGED <<id, next_id>>,
             <<prog[p], w>> \in Moves
      PROVE  \E q \in Programs, v \in Stages :
               RelayGoto(q, v) /\ <<prog[q], v>> \in Moves /\ UNCHANGED <<id, next_id>>
  BY <1>2
<1>3. ASSUME NEW p \in Programs, Accept(p) \/ NoChannel(p) \/ Open(p)
      PROVE  \E w \in Stages :
               RelayGoto(p, w) /\ <<prog[p], w>> \in Moves /\ UNCHANGED <<id, next_id>>
  BY <1>3 DEF Accept, NoChannel, Open, Moves, Stages
<1>4. ASSUME NEW p \in Programs, ReadProgram(p) \/ Finish(p) \/ \E b \in BOOLEAN : LeaveRelay(p, b)
      PROVE  \E w \in Stages :
               RelayGoto(p, w) /\ <<prog[p], w>> \in Moves /\ UNCHANGED <<id, next_id>>
  BY <1>4 DEF ReadProgram, Finish, LeaveRelay, Moves, Stages
<1>5. ASSUME NEW p \in Programs, WriteProgram(p)
      PROVE  UNCHANGED <<prog, id, next_id>>
  BY <1>5 DEF WriteProgram
<1>6. ASSUME NEW c \in Channels,
             \/ OpenChannel(c) \/ Attach(c) \/ Deny(c) \/ RecvFromClient(c) \/ EndChannel(c)
             \/ Detach(c) \/ RecvFromServer(c) \/ LeaveChannel(c)
      PROVE  UNCHANGED <<prog, id, next_id>>
  BY <1>6 DEF OpenChannel, Attach, Deny, RecvFromClient, EndChannel, Detach, RecvFromServer,
              LeaveChannel
<1>7. ASSUME NEW c \in Channels, NEW i \in Ids,
             \/ Dial(c, i) \/ AgentLost(c, i) \/ WriteAgent(c, i)
             \/ ReadAgent(c, i) \/ AgentStreamClosed(c, i)
      PROVE  UNCHANGED <<prog, id, next_id>>
  BY <1>7 DEF Dial, AgentLost, WriteAgent, ReadAgent, AgentStreamClosed
<1> QED
  BY <1>1, <1>3, <1>4, <1>5, <1>6, <1>7 DEF Next

\* What a message handed to the hub does to the queues to the clients.
LEMMA SentDown ==
  ASSUME Types, NEW m, SendToChannel(m)
  PROVE  \A d \in Channels :
            down'[d] = IF d = channel /\ srv[d] = "attached" /\ cli[d] = "relay"
                       THEN Append(down[d], m) ELSE down[d]
<1>1. down \in [Channels -> Seq(Messages)] /\ channel \in {None} \cup Channels
  BY TypesAre, Zenon DEF Current
<1>2. None \notin Channels
  BY NotNone
<1> QED
  BY <1>1, <1>2, Zenon DEF SendToChannel

LEMMA SentUp ==
  ASSUME Types, NEW c \in Channels, NEW m, SendToServer(c, m)
  PROVE  \A d \in Channels :
            up'[d] = IF d = c /\ srv[d] = "attached" /\ cli[d] = "relay"
                     THEN Append(up[d], m) ELSE up[d]
<1>1. up \in [Channels -> Seq(Messages)]
  BY TypesAre, Zenon
<1> QED
  BY <1>1, Zenon DEF SendToServer

-----------------------------------------------------------------------------
(* Ids, channels and programs                                               *)

LEMMA ChannelMoves ==
  ASSUME [Next]_vars
  PROVE  \/ UNCHANGED <<channel, newest, srv, cli>>
         \/ \E c \in Channels : \/ OpenChannel(c) \/ Attach(c) \/ Deny(c) \/ EndChannel(c)
                                \/ Detach(c) \/ LeaveChannel(c)
<1> USE Zenon DEF hubVars, wireVars, clientVars, agentVars
<1>1. CASE UNCHANGED vars
  BY <1>1 DEF vars
<1>2. ASSUME NEW p \in Programs,
             \/ Accept(p) \/ NoChannel(p) \/ Register(p) \/ Open(p) \/ ReadProgram(p)
             \/ WriteProgram(p) \/ Finish(p) \/ \E b \in BOOLEAN : LeaveRelay(p, b)
      PROVE  UNCHANGED <<channel, newest, srv, cli>>
  BY <1>2 DEF Accept, NoChannel, Register, Open, ReadProgram, WriteProgram, Finish, LeaveRelay
<1>3. ASSUME NEW c \in Channels, RecvFromClient(c) \/ RecvFromServer(c)
      PROVE  UNCHANGED <<channel, newest, srv, cli>>
  BY <1>3 DEF RecvFromClient, RecvFromServer
<1>4. ASSUME NEW c \in Channels, NEW i \in Ids,
             \/ Dial(c, i) \/ AgentLost(c, i) \/ WriteAgent(c, i)
             \/ ReadAgent(c, i) \/ AgentStreamClosed(c, i)
      PROVE  UNCHANGED <<channel, newest, srv, cli>>
  BY <1>4 DEF Dial, AgentLost, WriteAgent, ReadAgent, AgentStreamClosed
<1> QED
  BY <1>1, <1>2, <1>3, <1>4 DEF Next

LEMMA NewestStep ==
  ASSUME AgentInvariant, [Next]_vars
  PROVE  NewestServes'
<1>1. /\ NewestServes /\ None \notin Channels /\ newest \in Channels \cup {None}
      /\ srv \in [Channels -> {"none", "attached", "ended", "closed"}]
  BY NotNone, TypesAre, Zenon DEF AgentInvariant, Types
<1>2. CASE UNCHANGED <<channel, newest, srv, cli>>
  BY <1>1, <1>2, Zenon DEF NewestServes
<1>3. ASSUME NEW c \in Channels, NEW w, w # "attached", srv' = [srv EXCEPT ![c] = w],
             channel' = channel \/ channel' = Forget(c) , newest' = newest
      PROVE  NewestServes'
  <2>1. newest # None /\ srv'[newest] = "attached" => newest # c /\ srv[newest] = "attached"
    BY <1>1, <1>3, Zenon
  <2> QED
    BY <1>1, <1>3, <2>1, Zenon DEF NewestServes, Forget
<1>4. ASSUME NEW c \in Channels,
             \/ OpenChannel(c) \/ Attach(c) \/ Deny(c) \/ EndChannel(c)
             \/ Detach(c) \/ LeaveChannel(c)
      PROVE  NewestServes'
  <2>1. CASE OpenChannel(c) \/ LeaveChannel(c)
    BY <2>1, <1>2, <1>1, Zenon DEF OpenChannel, LeaveChannel, hubVars, NewestServes
  <2>2. CASE Attach(c)
    BY <2>2, Zenon DEF Attach, NewestServes
  <2>3. CASE Deny(c) \/ EndChannel(c) \/ Detach(c)
    BY <2>3, <1>3, Zenon DEF Deny, EndChannel, Detach, hubVars
  <2> QED
    BY <1>4, <2>1, <2>2, <2>3
<1> QED
  BY <1>2, <1>4, ChannelMoves, Zenon

LEMMA StreamStep ==
  ASSUME AgentInvariant, IdLeft, [Next]_vars
  PROVE  NoStreamLeaked'
<1> USE DEF hubVars
<1>1. /\ Types /\ IdInv /\ NoStreamLeaked /\ None \notin Programs /\ None \notin Ids
      /\ prog \in [Programs -> Stages] /\ id \in [Programs -> Ids \cup {None}]
      /\ streams \in [Ids -> Programs \cup {None}]
  BY NotNone, TypesAre, Zenon DEF AgentInvariant, Types
<1>2. ASSUME UNCHANGED <<streams, prog, id>>
      PROVE  NoStreamLeaked'
  BY <1>1, <1>2, Zenon DEF NoStreamLeaked
<1>3. ASSUME NEW p \in Programs, NEW w, RelayGoto(p, w), UNCHANGED id,
             \A j \in Ids : streams'[j] # None => streams'[j] = streams[j],
             \/ w \in {"opening", "relay", "closing"} 
             \/ prog[p] \notin {"opening", "relay", "closing"}
             \/ id[p] \in Ids /\ streams'[id[p]] = None
      PROVE  NoStreamLeaked'
  <2> SUFFICES ASSUME NEW j \in Ids, streams'[j] # None
               PROVE  prog'[streams'[j]] \in {"opening", "relay", "closing"} /\ id'[streams'[j]] = j
    BY Zenon DEF NoStreamLeaked
  <2>1. PICK q \in Programs : q = streams[j] /\ q = streams'[j]
    BY <1>1, <1>3, Zenon
  <2>2. prog[q] \in {"opening", "relay", "closing"} /\ id[q] = j
    BY <1>1, <1>3, <2>1, Zenon DEF NoStreamLeaked
  <2>3. q = p => w \in {"opening", "relay", "closing"}
    BY <1>3, <2>1, <2>2, Zenon
  <2>4. prog'[q] = IF q = p THEN w ELSE prog[q]
    BY <1>1, <1>3, Zenon DEF RelayGoto
  <2> QED
    BY <1>3, <2>1, <2>2, <2>3, <2>4, Zenon
<1>4. ASSUME NEW p \in Programs, Accept(p) \/ NoChannel(p) \/ ReadProgram(p)
                                 \/ \E b \in BOOLEAN : LeaveRelay(p, b)
      PROVE  NoStreamLeaked'
  BY <1>1, <1>3, <1>4, Zenon DEF Accept, NoChannel, ReadProgram, LeaveRelay
<1>5. ASSUME NEW p \in Programs, Open(p)
      PROVE  NoStreamLeaked'
  <2>1. id[p] \in Ids
    BY <1>1, <1>5, HasId, Zenon DEF Open
  <2>2. \A j \in Ids : streams'[j] # None => streams'[j] = streams[j]
    BY <1>1, <1>5, <2>1, Zenon DEF Open, Announced
  <2>3. channel = None => streams'[id[p]] = None
    BY <1>1, <1>5, <2>1, Zenon DEF Open, Announced
  <2> QED
    BY <1>3, <1>5, <2>1, <2>2, <2>3, Zenon DEF Open
<1>6. ASSUME NEW p \in Programs, Finish(p)
      PROVE  NoStreamLeaked'
  <2>1. id[p] \in Ids
    BY <1>1, <1>6, HasId, Zenon DEF Finish
  <2>2. streams'[id[p]] = None /\ \A j \in Ids : streams'[j] # None => streams'[j] = streams[j]
    BY <1>1, <1>6, <2>1, Zenon DEF Finish
  <2> QED
    BY <1>3, <1>6, <2>1, <2>2, Zenon DEF Finish
<1>7. ASSUME NEW p \in Programs, Register(p)
      PROVE  NoStreamLeaked'
  <2>1. next_id \in Ids /\ prog[p] = "waiting"
    BY <1>1, <1>7, Zenon DEF Register, IdInv, IdLeft
  <2>2. \A j \in Ids : streams'[j] = IF j = next_id THEN p ELSE streams[j]
    BY <1>1, <1>7, <2>1, Zenon DEF Register
  <2>3. \A q \in Programs : /\ id'[q] = IF q = p THEN next_id ELSE id[q]
                            /\ prog'[q] = IF q = p THEN "opening" ELSE prog[q]
    BY <1>1, <1>7, Zenon DEF Register, RelayGoto
  <2> SUFFICES ASSUME NEW j \in Ids, streams'[j] # None
               PROVE  prog'[streams'[j]] \in {"opening", "relay", "closing"} /\ id'[streams'[j]] = j
    BY Zenon DEF NoStreamLeaked
  <2>4. CASE j = next_id
    BY <2>2, <2>3, <2>4, Zenon
  <2>5. CASE j # next_id
    <3>1. PICK q \in Programs : q = streams[j] /\ q = streams'[j]
      BY <1>1, <2>2, <2>5, Zenon
    <3>2. prog[q] \in {"opening", "relay", "closing"} /\ id[q] = j
      BY <1>1, <2>2, <2>5, <3>1, Zenon DEF NoStreamLeaked
    <3>3. q # p
      BY <2>1, <3>2, Zenon
    <3> QED
      BY <2>3, <3>1, <3>2, <3>3, Zenon
  <2> QED
    BY <2>4, <2>5
<1>8. ASSUME NEW c \in Channels, RecvFromClient(c)
      PROVE  NoStreamLeaked'
  <2>1. \A j \in Ids : streams'[j] # None => streams'[j] = streams[j]
    BY <1>1, <1>8, Zenon DEF RecvFromClient
  <2> QED
    BY <1>1, <1>8, <2>1, Zenon DEF RecvFromClient, NoStreamLeaked
<1>9. ASSUME NEW p \in Programs, WriteProgram(p)
      PROVE  NoStreamLeaked'
  BY <1>2, <1>9, Zenon DEF WriteProgram
<1>10. ASSUME NEW c \in Channels,
              \/ OpenChannel(c) \/ Attach(c) \/ Deny(c) \/ EndChannel(c)
              \/ Detach(c) \/ RecvFromServer(c) \/ LeaveChannel(c)
       PROVE  NoStreamLeaked'
  BY <1>2, <1>10, Zenon DEF OpenChannel, Attach, Deny, EndChannel, Detach, RecvFromServer,
                            LeaveChannel
<1>11. ASSUME NEW c \in Channels, NEW i \in Ids,
              \/ Dial(c, i) \/ AgentLost(c, i) \/ WriteAgent(c, i)
              \/ ReadAgent(c, i) \/ AgentStreamClosed(c, i)
       PROVE  NoStreamLeaked'
  BY <1>2, <1>11, Zenon DEF Dial, AgentLost, WriteAgent, ReadAgent, AgentStreamClosed
<1>12. CASE UNCHANGED vars
  BY <1>2, <1>12, Zenon DEF vars
<1> QED
  BY <1>4, <1>5, <1>6, <1>7, <1>8, <1>9, <1>10, <1>11, <1>12, Zenon DEF Next

LEMMA ChannelStep ==
  ASSUME AgentInvariant, [Next]_vars
  PROVE  ChannelInv'
<1> USE DEF hubVars, wireVars, clientVars, agentVars
<1> DEFINE Quiet(c) == /\ cli[c] = "none" => srv[c] = "none"
                       /\ cli[c] # "relay" \/ srv[c] = "none" => down[c] = <<>> /\ cstreams[c] = {}
                       /\ srv[c] # "attached" => up[c] = <<>>
<1>1. /\ Types /\ IdInv /\ \A d \in Channels : Quiet(d)
      /\ srv \in [Channels -> {"none", "attached", "ended", "closed"}]
      /\ cli \in [Channels -> {"none", "relay", "gone"}]
      /\ down \in [Channels -> Seq(Messages)] /\ up \in [Channels -> Seq(Messages)]
      /\ cstreams \in [Channels -> SUBSET Ids]
  BY TypesAre, Zenon DEF AgentInvariant, Types, ChannelInv
<1> SUFFICES ASSUME NEW d \in Channels
             PROVE  Quiet(d)'
  BY Zenon DEF ChannelInv
<1>2. Quiet(d)
  BY <1>1
<1>3. ASSUME UNCHANGED <<srv, cli, cstreams, up, down>>
      PROVE  Quiet(d)'
  BY <1>2, <1>3, Zenon
<1>4. ASSUME NEW m, SendToChannel(m), UNCHANGED <<srv, cli, cstreams, up>>
      PROVE  Quiet(d)'
  <2>1. cli[d] # "relay" \/ srv[d] = "none" => down'[d] = down[d]
    BY <1>1, <1>4, SentDown, Zenon
  <2> QED
    BY <1>2, <1>4, <2>1, Zenon
<1>5. ASSUME NEW c \in Channels, NEW m, SendToServer(c, m), UNCHANGED <<srv, cli, cstreams, down>>
      PROVE  Quiet(d)'
  <2>1. srv[d] # "attached" => up'[d] = up[d]
    BY <1>1, <1>5, SentUp, Zenon
  <2> QED
    BY <1>2, <1>5, <2>1, Zenon
<1>6. ASSUME NEW p \in Programs,
             \/ Accept(p) \/ NoChannel(p) \/ Register(p) \/ Open(p) \/ ReadProgram(p)
             \/ WriteProgram(p) \/ Finish(p) \/ \E b \in BOOLEAN : LeaveRelay(p, b)
      PROVE  Quiet(d)'
  <2>1. CASE Open(p) \/ ReadProgram(p) \/ Finish(p)
    BY <1>4, <2>1, Zenon DEF Open, ReadProgram, Finish, AnnounceClose
  <2>2. CASE Accept(p) \/ NoChannel(p) \/ Register(p) \/ WriteProgram(p)
             \/ \E b \in BOOLEAN : LeaveRelay(p, b)
    BY <1>3, <2>2, Zenon DEF Accept, NoChannel, Register, WriteProgram, LeaveRelay
  <2> QED
    BY <1>6, <2>1, <2>2
<1>7. ASSUME NEW c \in Channels, NEW i \in Ids,
             \/ Dial(c, i) \/ AgentLost(c, i) \/ WriteAgent(c, i)
             \/ ReadAgent(c, i) \/ AgentStreamClosed(c, i)
      PROVE  Quiet(d)'
  <2>1. CASE AgentLost(c, i)
    BY <1>5, <2>1, Zenon DEF AgentLost, ReportLoss
  <2>2. CASE ReadAgent(c, i)
    BY <1>3, <1>5, <2>2, Zenon DEF ReadAgent
  <2>3. CASE Dial(c, i) \/ WriteAgent(c, i) \/ AgentStreamClosed(c, i)
    BY <1>3, <2>3, Zenon DEF Dial, WriteAgent, AgentStreamClosed
  <2> QED
    BY <1>7, <2>1, <2>2, <2>3
<1>8. ASSUME NEW c \in Channels,
             \/ OpenChannel(c) \/ Attach(c) \/ Deny(c) \/ RecvFromClient(c) \/ EndChannel(c)
             \/ Detach(c) \/ RecvFromServer(c) \/ LeaveChannel(c)
      PROVE  Quiet(d)'
  <2>1. CASE OpenChannel(c)
    <3>1. cli'[d] = IF d = c THEN "relay" ELSE cli[d]
      BY <1>1, <2>1, Zenon DEF OpenChannel
    <3> QED
      BY <1>2, <2>1, <3>1, Zenon DEF OpenChannel
  <2>2. CASE Attach(c)
    <3>1. srv'[d] = IF d = c THEN "attached" ELSE srv[d]
      BY <1>1, <2>2, Zenon DEF Attach
    <3> QED
      BY <1>2, <2>2, <3>1, Zenon DEF Attach
  <2>3. CASE Deny(c)
    <3>1. srv'[d] = IF d = c THEN "closed" ELSE srv[d]
      BY <1>1, <2>3, Zenon DEF Deny
    <3> QED
      BY <1>2, <2>3, <3>1, Zenon DEF Deny
  <2>4. CASE RecvFromClient(c)
    <3>1. up'[d] = IF d = c THEN Tail(up[d]) ELSE up[d]
      BY <1>1, <2>4, Zenon DEF RecvFromClient
    <3> QED
      BY <1>2, <2>4, <3>1, Zenon DEF RecvFromClient
  <2>5. CASE EndChannel(c)
    <3>1. /\ srv'[d] = IF d = c THEN "ended" ELSE srv[d]
          /\ up'[d] = IF d = c THEN <<>> ELSE up[d]
      BY <1>1, <2>5, Zenon DEF EndChannel
    <3>2. srv[c] = "attached" /\ UNCHANGED <<cli, down, cstreams>>
      BY <2>5, Zenon DEF EndChannel
    <3> QED
      BY <1>2, <3>1, <3>2, Zenon
  <2>6. CASE Detach(c)
    <3>1. srv'[d] = IF d = c THEN "closed" ELSE srv[d]
      BY <1>1, <2>6, Zenon DEF Detach
    <3>2. srv[c] = "ended" /\ UNCHANGED <<cli, down, cstreams, up>>
      BY <2>6, Zenon DEF Detach
    <3> QED
      BY <1>2, <3>1, <3>2, Zenon
  <2>7. CASE RecvFromServer(c)
    <3>1. d # c => cstreams'[d] = cstreams[d] /\ down'[d] = down[d]
      BY <1>1, <2>7, Zenon DEF RecvFromServer
    <3>2. d = c => cli[d] = "relay" /\ srv[d] # "none"
      BY <1>2, <2>7, Zenon DEF RecvFromServer
    <3> QED
      BY <1>2, <2>7, <3>1, <3>2, Zenon DEF RecvFromServer
  <2>8. CASE LeaveChannel(c)
    <3>1. /\ cli'[d] = IF d = c THEN "gone" ELSE cli[d]
          /\ down'[d] = IF d = c THEN <<>> ELSE down[d]
          /\ cstreams'[d] = IF d = c THEN {} ELSE cstreams[d]
      BY <1>1, <2>8, Zenon DEF LeaveChannel
    <3>2. UNCHANGED <<srv, up>>
      BY <2>8, Zenon DEF LeaveChannel
    <3> QED
      BY <1>2, <3>1, <3>2, Zenon
  <2> HIDE DEF Quiet
  <2> QED
    BY <1>8, <2>1, <2>2, <2>3, <2>4, <2>5, <2>6, <2>7, <2>8, Zenon
<1>9. CASE UNCHANGED vars
  BY <1>3, <1>9, Zenon DEF vars
<1> QED
  BY <1>6, <1>7, <1>8, <1>9, Zenon DEF Next

LEMMA OpenedStep ==
  ASSUME AgentInvariant, [Next]_vars
  PROVE  OpenedInv'
<1> USE DEF hubVars, wireVars, clientVars, agentVars
<1> DEFINE Opened(p) == /\ prog[p] \in {"relay", "closing", "done"} <=> opened_on[p] # None
                        /\ opened_on[p] # None => srv[opened_on[p]] # "none"
                        /\ opened_on[p] = None => asked[p] = 0
<1>1. /\ Types /\ IdInv /\ \A q \in Programs : Opened(q)
      /\ srv \in [Channels -> {"none", "attached", "ended", "closed"}] /\ Current
      /\ prog \in [Programs -> Stages] /\ asked \in [Programs -> Nat]
      /\ opened_on \in [Programs -> Channels \cup {None}]
  BY TypesAre, Zenon DEF AgentInvariant, Types, OpenedInv
<1> SUFFICES ASSUME NEW q \in Programs
             PROVE  Opened(q)'
  BY Zenon DEF OpenedInv
<1>2. Opened(q) /\ opened_on[q] \in Channels \cup {None}
  BY <1>1
<1>3. ASSUME prog'[q] \in {"relay", "closing", "done"} <=> prog[q] \in {"relay", "closing", "done"},
             \/ asked'[q] = asked[q] \/ prog[q] = "relay",
             UNCHANGED <<srv, opened_on>>
      PROVE  Opened(q)'
  BY <1>2, <1>3, Zenon
<1>4. ASSUME NEW c \in Channels, NEW w, srv' = [srv EXCEPT ![c] = w], w # "none",
             UNCHANGED <<prog, opened_on, asked>>
      PROVE  Opened(q)'
  <2>1. opened_on[q] # None /\ srv[opened_on[q]] # "none" => srv'[opened_on[q]] # "none"
    BY <1>1, <1>2, <1>4, Zenon
  <2> QED
    BY <1>2, <1>4, <2>1, Zenon
<1>5. ASSUME NEW p \in Programs, Open(p)
      PROVE  Opened(q)'
  <2>1. /\ prog'[q] = IF q = p THEN IF channel = None THEN "refused" ELSE "relay" ELSE prog[q]
        /\ opened_on'[q] = IF q = p THEN channel ELSE opened_on[q]
    BY <1>1, <1>5, Zenon DEF Open, RelayGoto
  <2>2. CASE q # p
    BY <1>2, <1>5, <2>1, <2>2, Zenon DEF Open
  <2>3. CASE q = p
    <3>1. prog[q] = "opening" /\ opened_on[q] = None /\ asked[q] = 0
      BY <1>2, <1>5, <2>3, Zenon DEF Open
    <3>2. channel # None => srv[channel] # "none"
      BY <1>1, Zenon DEF Current
    <3> QED
      BY <1>5, <2>1, <2>3, <3>1, <3>2, Zenon DEF Open
  <2> QED
    BY <2>2, <2>3
<1>6. ASSUME NEW p \in Programs,
             \/ Accept(p) \/ NoChannel(p) \/ Register(p) \/ ReadProgram(p) \/ Finish(p)
             \/ \E b \in BOOLEAN : LeaveRelay(p, b)
      PROVE  Opened(q)'
  <2>1. PICK w : /\ prog' = [prog EXCEPT ![p] = w]
                 /\ w \in {"relay", "closing", "done"} <=> prog[p] \in {"relay", "closing", "done"}
    BY <1>6, Zenon DEF Accept, NoChannel, Register, ReadProgram, Finish, LeaveRelay, RelayGoto
  <2>2. prog'[q] \in {"relay", "closing", "done"} <=> prog[q] \in {"relay", "closing", "done"}
    BY <1>1, <2>1, Zenon
  <2>3. asked'[q] = asked[q] \/ prog[q] = "relay"
    BY <1>1, <1>6, Zenon DEF Accept, NoChannel, Register, ReadProgram, Finish, LeaveRelay
  <2>4. UNCHANGED <<srv, opened_on>>
    BY <1>6, Zenon DEF Accept, NoChannel, Register, ReadProgram, Finish, LeaveRelay
  <2> QED
    BY <1>3, <2>2, <2>3, <2>4, Zenon
<1>7. ASSUME NEW c \in Channels, Attach(c) \/ Deny(c) \/ EndChannel(c) \/ Detach(c)
      PROVE  Opened(q)'
  BY <1>4, <1>7, Zenon DEF Attach, Deny, EndChannel, Detach
<1>8. ASSUME UNCHANGED <<prog, asked, srv, opened_on>>
      PROVE  Opened(q)'
  BY <1>3, <1>8, Zenon
<1>9. ASSUME NEW p \in Programs, WriteProgram(p)
      PROVE  Opened(q)'
  BY <1>8, <1>9, Zenon DEF WriteProgram
<1>10. ASSUME NEW c \in Channels,
              OpenChannel(c) \/ RecvFromClient(c) \/ RecvFromServer(c) \/ LeaveChannel(c)
       PROVE  Opened(q)'
  BY <1>8, <1>10, Zenon DEF OpenChannel, RecvFromClient, RecvFromServer, LeaveChannel
<1>11. ASSUME NEW c \in Channels, NEW i \in Ids,
              \/ Dial(c, i) \/ AgentLost(c, i) \/ WriteAgent(c, i)
              \/ ReadAgent(c, i) \/ AgentStreamClosed(c, i)
       PROVE  Opened(q)'
  BY <1>8, <1>11, Zenon DEF Dial, AgentLost, WriteAgent, ReadAgent, AgentStreamClosed
<1>12. CASE UNCHANGED vars
  BY <1>8, <1>12, Zenon DEF vars
<1> QED
  BY <1>5, <1>6, <1>7, <1>9, <1>10, <1>11, <1>12, Zenon DEF Next

-----------------------------------------------------------------------------
(* What the actions do to one client's streams and to one program           *)

LEMMA OpenParts ==
  \A i : AgentOpen(i).type = "AgentOpen" /\ AgentOpen(i).id = i
  BY DEF AgentOpen

LEMMA CloseParts ==
  \A i : AgentClose(i).type = "AgentClose" /\ AgentClose(i).id = i
  BY DEF AgentClose

LEMMA DataParts ==
  \A i, d : /\ AgentData(i, d).type = "AgentData" /\ AgentData(i, d).id = i
            /\ AgentData(i, d).data = d
  BY DEF AgentData

\* A message handed to the hub, for the queue to the client of channel d.
LEMMA QueuedDown ==
  ASSUME Types, NEW m \in Messages, SendToChannel(m), NEW d \in Channels
  PROVE  /\ down[d] \in Seq(Messages)
         /\ \/ down'[d] = down[d] /\ ~(d = channel /\ srv[d] = "attached" /\ cli[d] = "relay")
            \/ /\ down'[d] = Append(down[d], m)
               /\ d = channel /\ srv[d] = "attached" /\ cli[d] = "relay"
         /\ \A x : Carried(down'[d], x) => Carried(down[d], x) \/ (d = channel /\ x = m)
         /\ \A x : Carried(down[d], x) => Carried(down'[d], x)
         /\ \A i : About(down'[d], i) => About(down[d], i) \/ (d = channel /\ i = m.id)
<1>1. down[d] \in Seq(Messages)
  BY TypesAre, Zenon
<1>2. \/ down'[d] = down[d] /\ ~(d = channel /\ srv[d] = "attached" /\ cli[d] = "relay")
      \/ /\ down'[d] = Append(down[d], m)
         /\ d = channel /\ srv[d] = "attached" /\ cli[d] = "relay"
  BY SentDown, Zenon
<1>3. \A x : Carried(Append(down[d], m), x) <=> Carried(down[d], x) \/ x = m
  BY <1>1, CarriedAppend
<1>4. \A i : About(Append(down[d], m), i) <=> About(down[d], i) \/ i = m.id
  BY <1>1, AboutAppend
<1> QED
  BY <1>1, <1>2, <1>3, <1>4, Zenon

\* A message a client sends on channel c, for the queue from the client of d.
LEMMA QueuedUp ==
  ASSUME Types, NEW m \in Messages, NEW c \in Channels, SendToServer(c, m), NEW d \in Channels
  PROVE  /\ up[d] \in Seq(Messages)
         /\ \/ up'[d] = up[d] /\ ~(d = c /\ srv[d] = "attached" /\ cli[d] = "relay")
            \/ /\ up'[d] = Append(up[d], m)
               /\ d = c /\ srv[d] = "attached" /\ cli[d] = "relay"
         /\ \A x : Carried(up'[d], x) => Carried(up[d], x) \/ (d = c /\ x = m)
         /\ \A x : Carried(up[d], x) => Carried(up'[d], x)
         /\ \A i : About(up'[d], i) => About(up[d], i) \/ (d = c /\ i = m.id)
<1>1. up[d] \in Seq(Messages)
  BY TypesAre, Zenon
<1>2. \/ up'[d] = up[d] /\ ~(d = c /\ srv[d] = "attached" /\ cli[d] = "relay")
      \/ up'[d] = Append(up[d], m) /\ d = c /\ srv[d] = "attached" /\ cli[d] = "relay"
  BY SentUp, Zenon
<1>3. \A x : Carried(Append(up[d], m), x) <=> Carried(up[d], x) \/ x = m
  BY <1>1, CarriedAppend
<1>4. \A i : About(Append(up[d], m), i) <=> About(up[d], i) \/ i = m.id
  BY <1>1, AboutAppend
<1> QED
  BY <1>1, <1>2, <1>3, <1>4, Zenon

LEMMA AboutDown ==
  ASSUME Types, NEW m \in Messages, SendToChannel(m), NEW d \in Channels, NEW i, About(down'[d], i)
  PROVE  About(down[d], i) \/ (d = channel /\ i = m.id)
  BY QueuedDown, Zenon

LEMMA CarriedDown ==
  ASSUME Types, NEW m \in Messages, SendToChannel(m), NEW d \in Channels, NEW x,
         Carried(down'[d], x)
  PROVE  Carried(down[d], x) \/ (d = channel /\ x = m)
  BY QueuedDown, Zenon

LEMMA AboutUp ==
  ASSUME Types, NEW m \in Messages, NEW c \in Channels, SendToServer(c, m), NEW d \in Channels,
         NEW i, About(up'[d], i)
  PROVE  About(up[d], i) \/ (d = c /\ i = m.id)
  BY QueuedUp, Zenon

\* The messages the actions send.
LEMMA OpenSent ==
  ASSUME Types, IdInv, NEW p \in Programs, Open(p)
  PROVE  /\ id[p] \in Ids /\ AgentOpen(id[p]) \in Messages /\ SendToChannel(AgentOpen(id[p]))
<1>1. id[p] \in Ids
  BY HasId, Zenon DEF Open
<1> QED
  BY <1>1, IsMessage, Zenon DEF Open

LEMMA DataSent ==
  ASSUME Types, IdInv, NEW p \in Programs, ReadProgram(p)
  PROVE  /\ id[p] \in Ids /\ p \in Nat /\ asked[p] \in Nat
         /\ AgentData(id[p], <<p, asked[p] + 1>>) \in Messages
         /\ SendToChannel(AgentData(id[p], <<p, asked[p] + 1>>))
<1>1. id[p] \in Ids
  BY HasId, Zenon DEF ReadProgram
<1>2. p \in Nat /\ asked[p] \in Nat
  BY NotNone, TypesAre, Zenon
<1>3. <<p, asked[p] + 1>> \in Seq(Nat)
  BY <1>2
<1> QED
  BY <1>1, <1>2, <1>3, IsMessage, Zenon DEF ReadProgram

LEMMA CloseSent ==
  ASSUME Types, IdInv, NEW p \in Programs, Finish(p)
  PROVE  /\ id[p] \in Ids /\ AgentClose(id[p]) \in Messages /\ SendToChannel(AgentClose(id[p]))
<1>1. id[p] \in Ids
  BY HasId, Zenon DEF Finish
<1> QED
  BY <1>1, IsMessage, Zenon DEF Finish, AnnounceClose

LEMMA AnswerSent ==
  ASSUME Types, NEW c \in Channels, NEW i \in Ids, ReadAgent(c, i)
  PROVE  /\ replied[c][i] \in Nat /\ agent_got[c][i] \in Seq(Seq(Nat))
         /\ replied[c][i] + 1 \in 1 .. Len(agent_got[c][i])
         /\ AgentData(i, agent_got[c][i][replied[c][i] + 1]) \in Messages
<1>1. agent_got[c][i] \in Seq(Seq(Nat)) /\ replied[c][i] \in Nat
  BY TypesAre, Zenon
<1>2. replied[c][i] < Len(agent_got[c][i])
  BY Zenon DEF ReadAgent
<1>3. /\ replied[c][i] + 1 \in 1 .. Len(agent_got[c][i])
      /\ agent_got[c][i][replied[c][i] + 1] \in Seq(Nat)
  BY <1>1, <1>2
<1> QED
  BY <1>1, <1>3, IsMessage, Zenon

\* RecvFromServer, for every channel d and id j.
LEMMA Received ==
  ASSUME Types, NEW c \in Channels, RecvFromServer(c)
  PROVE  LET m == Head(down[c]) IN
         /\ down[c] \in Seq(Messages) /\ down[c] # <<>> /\ m \in Messages
         /\ \A d \in Channels : down'[d] = IF d = c THEN Tail(down[d]) ELSE down[d]
         /\ \A d \in Channels, j \in Ids :
              /\ j \in cstreams'[d] <=>
                   \/ d = c /\ j = m.id /\ m.type = "AgentOpen"
                   \/ j \in cstreams[d] /\ ~(d = c /\ j = m.id /\ m.type = "AgentClose")
              /\ dialed'[d][j] = IF d = c /\ j = m.id /\ m.type = "AgentOpen" THEN "dial"
                                 ELSE dialed[d][j]
              /\ cwrite'[d][j] =
                   IF /\ d = c /\ j = m.id /\ m.type = "AgentData"
                      /\ j \in cstreams[d] /\ dialed[d][j] # "none"
                   THEN Append(cwrite[d][j], m.data) ELSE cwrite[d][j]
<1> DEFINE m == Head(down[c])
<1>1. /\ TypeOK /\ down \in [Channels -> Seq(Messages)] /\ cstreams \in [Channels -> SUBSET Ids]
      /\ dialed \in [Channels -> [Ids -> {"none", "dial", "relay"}]]
      /\ cwrite \in [Channels -> [Ids -> Seq(Seq(Nat))]]
  BY TypesAre, Zenon DEF Types
<1>2. down[c] \in Seq(Messages) /\ down[c] # <<>> /\ m \in Messages
  BY <1>1, TailIndex DEF RecvFromServer
<1>3. m.id \in Ids
  BY <1>2, MessageId, Zenon
<1>4. \A d \in Channels : down'[d] = IF d = c THEN Tail(down[d]) ELSE down[d]
  BY <1>1, Zenon DEF RecvFromServer
<1>5. ASSUME NEW d \in Channels, NEW j \in Ids
      PROVE  j \in cstreams'[d] <=>
               \/ d = c /\ j = m.id /\ m.type = "AgentOpen"
               \/ j \in cstreams[d] /\ ~(d = c /\ j = m.id /\ m.type = "AgentClose")
  <2>1. cstreams' = [cstreams EXCEPT ![c] = IF m.type = "AgentOpen" THEN cstreams[c] \cup {m.id}
                                            ELSE IF m.type = "AgentClose" THEN cstreams[c] \ {m.id}
                                            ELSE cstreams[c]]
    BY <1>1, RecvStreams
  <2> HIDE DEF m
  <2> QED
    BY <1>1, <2>1
<1>6. ASSUME NEW d \in Channels, NEW j \in Ids
      PROVE  dialed'[d][j] = IF d = c /\ j = m.id /\ m.type = "AgentOpen" THEN "dial"
                             ELSE dialed[d][j]
  <2>1. dialed' = IF m.type = "AgentOpen" THEN [dialed EXCEPT ![c][m.id] = "dial"] ELSE dialed
    BY Zenon DEF RecvFromServer
  <2>2. [dialed EXCEPT ![c][m.id] = "dial"][d][j] = IF d = c /\ j = m.id THEN "dial"
                                                    ELSE dialed[d][j]
    BY <1>1, <1>3, NestedUpdate
  <2> HIDE DEF m
  <2> QED
    BY <2>1, <2>2, Zenon
<1>7. ASSUME NEW d \in Channels, NEW j \in Ids
      PROVE  cwrite'[d][j] = IF /\ d = c /\ j = m.id /\ m.type = "AgentData"
                                /\ j \in cstreams[d] /\ dialed[d][j] # "none"
                             THEN Append(cwrite[d][j], m.data) ELSE cwrite[d][j]
  <2> DEFINE v == Append(cwrite[c][m.id], m.data)
  <2>1. cwrite' = IF m.type = "AgentData" /\ m.id \in cstreams[c] /\ dialed[c][m.id] # "none"
                  THEN [cwrite EXCEPT ![c][m.id] = v] ELSE cwrite
    BY DEF RecvFromServer
  <2>3. d = c /\ j = m.id => v = Append(cwrite[d][j], m.data)
    OBVIOUS
  <2> HIDE DEF v
  <2>2. [cwrite EXCEPT ![c][m.id] = v][d][j] = IF d = c /\ j = m.id THEN v ELSE cwrite[d][j]
    BY <1>1, <1>3, NestedUpdate
  <2> HIDE DEF m
  <2> QED
    BY <2>1, <2>2, <2>3, Zenon
<1> HIDE DEF m
<1>8. /\ down[c] \in Seq(Messages) /\ down[c] # <<>> /\ m \in Messages
      /\ \A d \in Channels : down'[d] = IF d = c THEN Tail(down[d]) ELSE down[d]
      /\ \A d \in Channels, j \in Ids :
           /\ j \in cstreams'[d] <=>
                \/ d = c /\ j = m.id /\ m.type = "AgentOpen"
                \/ j \in cstreams[d] /\ ~(d = c /\ j = m.id /\ m.type = "AgentClose")
           /\ dialed'[d][j] = IF d = c /\ j = m.id /\ m.type = "AgentOpen" THEN "dial"
                              ELSE dialed[d][j]
           /\ cwrite'[d][j] =
                IF /\ d = c /\ j = m.id /\ m.type = "AgentData"
                   /\ j \in cstreams[d] /\ dialed[d][j] # "none"
                THEN Append(cwrite[d][j], m.data) ELSE cwrite[d][j]
  BY <1>2, <1>4, <1>5, <1>6, <1>7, Zenon
<1> QED
  BY <1>8 DEF m

\* RecvFromClient, for every channel d, id j and program q.
LEMMA ReceivedUp ==
  ASSUME Types, NEW c \in Channels, RecvFromClient(c)
  PROVE  LET m == Head(up[c]) IN
         /\ up[c] \in Seq(Messages) /\ up[c] # <<>> /\ m \in Messages
         /\ \A d \in Channels : up'[d] = IF d = c THEN Tail(up[d]) ELSE up[d]
         /\ \A j \in Ids : streams'[j] = IF j = m.id /\ m.type = "AgentClose" THEN None
                                         ELSE streams[j]
         /\ \A q \in Programs : write'[q] = IF m.type = "AgentData" /\ streams[m.id] = q
                                            THEN Append(write[q], m.data) ELSE write[q]
<1> DEFINE m == Head(up[c])
<1>1. /\ up \in [Channels -> Seq(Messages)] /\ streams \in [Ids -> Programs \cup {None}]
      /\ write \in [Programs -> Seq(Seq(Nat))] /\ None \notin Programs
  BY TypesAre, NotNone, Zenon
<1>2. up[c] \in Seq(Messages) /\ up[c] # <<>> /\ m \in Messages
  BY <1>1, TailIndex DEF RecvFromClient
<1>3. m.id \in Ids
  BY <1>2, MessageId
<1>4. /\ up' = [up EXCEPT ![c] = Tail(@)]
      /\ streams' = IF m.type = "AgentClose" THEN [streams EXCEPT ![m.id] = None] ELSE streams
      /\ write' = IF m.type = "AgentData" /\ streams[m.id] # None
                  THEN [write EXCEPT ![streams[m.id]] = Append(@, m.data)] ELSE write
  BY DEF RecvFromClient
<1> HIDE DEF m
<1>5. \A d \in Channels : up'[d] = IF d = c THEN Tail(up[d]) ELSE up[d]
  BY <1>1, <1>4, Zenon
<1>6. \A j \in Ids : streams'[j] = IF j = m.id /\ m.type = "AgentClose" THEN None
                                   ELSE streams[j]
  BY <1>1, <1>3, <1>4, Zenon
<1>7. \A q \in Programs : write'[q] = IF m.type = "AgentData" /\ streams[m.id] = q
                                      THEN Append(write[q], m.data) ELSE write[q]
  BY <1>1, <1>3, <1>4, Zenon
<1> QED
  BY <1>2, <1>5, <1>6, <1>7 DEF m

\* A client takes the first message of its queue.
LEMMA PoppedDown ==
  ASSUME Types, NEW c \in Channels, RecvFromServer(c), NEW d \in Channels
  PROVE  /\ \A x : Carried(down[d], x) <=> Carried(down'[d], x) \/ (d = c /\ x = Head(down[c]))
         /\ \A i : About(down[d], i) <=> About(down'[d], i) \/ (d = c /\ i = Head(down[c]).id)
<1> DEFINE m == Head(down[c])
<1>1. /\ down[c] \in Seq(Messages) /\ down[c] # <<>>
      /\ down'[d] = IF d = c THEN Tail(down[d]) ELSE down[d]
  BY Received, Zenon
<1>2. \A x : Carried(down[c], x) <=> Carried(Tail(down[c]), x) \/ x = m
  BY <1>1, CarriedTail
<1>3. \A i : About(down[c], i) <=> About(Tail(down[c]), i) \/ i = m.id
  BY <1>1, AboutTail
<1> HIDE DEF m
<1>4. CASE d = c
  BY <1>1, <1>2, <1>3, <1>4, Zenon DEF m
<1>5. CASE d # c
  BY <1>1, <1>5, Zenon
<1> QED
  BY <1>4, <1>5

LEMMA PoppedUp ==
  ASSUME Types, NEW c \in Channels, RecvFromClient(c), NEW d \in Channels
  PROVE  /\ \A x : Carried(up[d], x) <=> Carried(up'[d], x) \/ (d = c /\ x = Head(up[c]))
         /\ \A i : About(up[d], i) <=> About(up'[d], i) \/ (d = c /\ i = Head(up[c]).id)
<1> DEFINE m == Head(up[c])
<1>1. /\ up[c] \in Seq(Messages) /\ up[c] # <<>>
      /\ up'[d] = IF d = c THEN Tail(up[d]) ELSE up[d]
  BY ReceivedUp, Zenon
<1>2. \A x : Carried(up[c], x) <=> Carried(Tail(up[c]), x) \/ x = m
  BY <1>1, CarriedTail
<1>3. \A i : About(up[c], i) <=> About(Tail(up[c]), i) \/ i = m.id
  BY <1>1, AboutTail
<1> HIDE DEF m
<1>4. CASE d = c
  BY <1>1, <1>2, <1>3, <1>4, Zenon DEF m
<1>5. CASE d # c
  BY <1>1, <1>5, Zenon
<1> QED
  BY <1>4, <1>5

\* EndStream, for every channel d and id j.
LEMMA Ended ==
  ASSUME Types, NEW c \in Channels, NEW i \in Ids, EndStream(c, i)
  PROVE  \A d \in Channels, j \in Ids :
            /\ dialed'[d][j] = IF d = c /\ j = i THEN "none" ELSE dialed[d][j]
            /\ cwrite'[d][j] = IF d = c /\ j = i THEN <<>> ELSE cwrite[d][j]
            /\ agent_got'[d][j] = IF d = c /\ j = i THEN <<>> ELSE agent_got[d][j]
            /\ replied'[d][j] = IF d = c /\ j = i THEN 0 ELSE replied[d][j]
<1>1. /\ dialed \in [Channels -> [Ids -> {"none", "dial", "relay"}]]
      /\ cwrite \in [Channels -> [Ids -> Seq(Seq(Nat))]]
      /\ agent_got \in [Channels -> [Ids -> Seq(Seq(Nat))]]
      /\ replied \in [Channels -> [Ids -> Nat]]
  BY TypesAre, Zenon
<1>2. /\ dialed' = [dialed EXCEPT ![c][i] = "none"] /\ cwrite' = [cwrite EXCEPT ![c][i] = <<>>]
      /\ agent_got' = [agent_got EXCEPT ![c][i] = <<>>] /\ replied' = [replied EXCEPT ![c][i] = 0]
  BY DEF EndStream
<1>3. \A d \in Channels : \A j \in Ids :
         dialed'[d][j] = IF d = c /\ j = i THEN "none" ELSE dialed[d][j]
  BY <1>1, <1>2, NestedUpdate
<1>4. \A d \in Channels : \A j \in Ids :
         cwrite'[d][j] = IF d = c /\ j = i THEN <<>> ELSE cwrite[d][j]
  BY <1>1, <1>2, NestedUpdate
<1>5. \A d \in Channels : \A j \in Ids :
         agent_got'[d][j] = IF d = c /\ j = i THEN <<>> ELSE agent_got[d][j]
  BY <1>1, <1>2, NestedUpdate
<1>6. \A d \in Channels : \A j \in Ids :
         replied'[d][j] = IF d = c /\ j = i THEN 0 ELSE replied[d][j]
  BY <1>1, <1>2, NestedUpdate
<1> QED
  BY <1>3, <1>4, <1>5, <1>6, Zenon

-----------------------------------------------------------------------------
(* Who a message is about                                                   *)

LEMMA OwnersKept ==
  ASSUME AgentInvariant, [Next]_vars, NEW q \in Programs, opened_on[q] # None
  PROVE  id'[q] = id[q] /\ opened_on'[q] = opened_on[q]
<1> USE DEF hubVars, wireVars, clientVars, agentVars
<1>1. /\ prog[q] \in {"relay", "closing", "done"}
      /\ id \in [Programs -> Ids \cup {None}] /\ opened_on \in [Programs -> Channels \cup {None}]
  BY TypesAre, Zenon DEF AgentInvariant, Types, OpenedInv
<1>2. ASSUME NEW p \in Programs, Open(p) \/ Register(p)
      PROVE  id'[q] = id[q] /\ opened_on'[q] = opened_on[q]
  BY <1>1, <1>2, Zenon DEF Open, Register
<1>3. ASSUME NEW p \in Programs,
             \/ Accept(p) \/ NoChannel(p) \/ ReadProgram(p) \/ WriteProgram(p) \/ Finish(p)
             \/ \E b \in BOOLEAN : LeaveRelay(p, b)
      PROVE  UNCHANGED <<id, opened_on>>
  BY <1>3, Zenon DEF Accept, NoChannel, ReadProgram, WriteProgram, Finish, LeaveRelay
<1>4. ASSUME NEW c \in Channels,
             \/ OpenChannel(c) \/ Attach(c) \/ Deny(c) \/ RecvFromClient(c) \/ EndChannel(c)
             \/ Detach(c) \/ RecvFromServer(c) \/ LeaveChannel(c)
      PROVE  UNCHANGED <<id, opened_on>>
  BY <1>4, Zenon DEF OpenChannel, Attach, Deny, RecvFromClient, EndChannel, Detach,
                     RecvFromServer, LeaveChannel
<1>5. ASSUME NEW c \in Channels, NEW i \in Ids,
             \/ Dial(c, i) \/ AgentLost(c, i) \/ WriteAgent(c, i)
             \/ ReadAgent(c, i) \/ AgentStreamClosed(c, i)
      PROVE  UNCHANGED <<id, opened_on>>
  BY <1>5, Zenon DEF Dial, AgentLost, WriteAgent, ReadAgent, AgentStreamClosed
<1>6. CASE UNCHANGED vars
  BY <1>6, Zenon DEF vars
<1> QED
  BY <1>2, <1>3, <1>4, <1>5, <1>6, Zenon DEF Next

LEMMA DownMoves ==
  ASSUME [Next]_vars
  PROVE  \/ UNCHANGED down
         \/ \E p \in Programs : Open(p) \/ ReadProgram(p) \/ Finish(p)
         \/ \E c \in Channels : RecvFromServer(c) \/ LeaveChannel(c)
<1> USE Zenon DEF hubVars, wireVars, clientVars, agentVars
<1>1. CASE UNCHANGED vars
  BY <1>1 DEF vars
<1>2. ASSUME NEW p \in Programs,
             \/ Accept(p) \/ NoChannel(p) \/ Register(p) \/ WriteProgram(p)
             \/ \E b \in BOOLEAN : LeaveRelay(p, b)
      PROVE  UNCHANGED down
  BY <1>2 DEF Accept, NoChannel, Register, WriteProgram, LeaveRelay
<1>3. ASSUME NEW c \in Channels,
             \/ OpenChannel(c) \/ Attach(c) \/ Deny(c) \/ RecvFromClient(c) \/ EndChannel(c)
             \/ Detach(c)
      PROVE  UNCHANGED down
  BY <1>3 DEF OpenChannel, Attach, Deny, RecvFromClient, EndChannel, Detach
<1>4. ASSUME NEW c \in Channels, NEW i \in Ids,
             \/ Dial(c, i) \/ AgentLost(c, i) \/ WriteAgent(c, i)
             \/ ReadAgent(c, i) \/ AgentStreamClosed(c, i)
      PROVE  UNCHANGED down
  BY <1>4 DEF Dial, AgentLost, WriteAgent, ReadAgent, AgentStreamClosed
<1> QED
  BY <1>1, <1>2, <1>3, <1>4 DEF Next

\* What a client has seen of an id; Known adds the AgentOpen on its way.
Seen(c, i) == i \in cstreams[c] \/ dialed[c][i] # "none" \/ About(up[c], i)

LEMMA KnownSeen ==
  \A c, i : /\ Known(c, i) <=> Seen(c, i) \/ Carried(down[c], AgentOpen(i))
            /\ Known(c, i)' <=> Seen(c, i)' \/ Carried(down'[c], AgentOpen(i))
  BY Zenon DEF Known, Seen

\* A client comes to see an id only by its AgentOpen.
LEMMA SeenGrows ==
  ASSUME Types, [Next]_vars, NEW d \in Channels, NEW j \in Ids, Seen(d, j)'
  PROVE  Seen(d, j) \/ (RecvFromServer(d) /\ Head(down[d]) = AgentOpen(j))
<1> USE DEF hubVars, wireVars, clientVars, agentVars
<1>1. /\ up \in [Channels -> Seq(Messages)] /\ cstreams \in [Channels -> SUBSET Ids]
      /\ dialed \in [Channels -> [Ids -> {"none", "dial", "relay"}]]
  BY TypesAre, Zenon
<1>3. ASSUME j \in cstreams'[d] => Seen(d, j), dialed'[d][j] # "none" => Seen(d, j),
             About(up'[d], j) => Seen(d, j)
      PROVE  Seen(d, j)
  BY <1>3, Zenon DEF Seen
<1>4. /\ j \in cstreams[d] => Seen(d, j)
      /\ dialed[d][j] # "none" => Seen(d, j)
      /\ About(up[d], j) => Seen(d, j)
  BY Zenon DEF Seen
<1>5. ASSUME UNCHANGED <<cstreams, dialed, up>>
      PROVE  Seen(d, j)
  BY <1>3, <1>4, <1>5, Zenon
<1>6. ASSUME NEW p \in Programs,
             \/ Accept(p) \/ NoChannel(p) \/ Register(p) \/ Open(p) \/ ReadProgram(p)
             \/ WriteProgram(p) \/ Finish(p) \/ \E b \in BOOLEAN : LeaveRelay(p, b)
      PROVE  Seen(d, j)
  BY <1>5, <1>6, Zenon DEF Accept, NoChannel, Register, Open, ReadProgram, WriteProgram, Finish,
                           LeaveRelay
<1>7. ASSUME NEW c \in Channels, NEW m \in Messages, SendToServer(c, m), dialed[c][m.id] # "none",
             dialed'[d][j] # "none" => dialed[d][j] # "none", UNCHANGED cstreams
      PROVE  Seen(d, j)
  <2>1. SendToServer(c, m)
    BY <1>7
  <2>2. About(up'[d], j) => About(up[d], j) \/ (d = c /\ m.id = j)
    BY <2>1, AboutUp, Zenon
  <2> QED
    BY <1>3, <1>4, <1>7, <2>2, Zenon
<1>8. ASSUME NEW c \in Channels, NEW i \in Ids,
             \/ Dial(c, i) \/ AgentLost(c, i) \/ WriteAgent(c, i)
             \/ ReadAgent(c, i) \/ AgentStreamClosed(c, i)
      PROVE  Seen(d, j)
  <2>1. AgentClose(i) \in Messages /\ AgentClose(i).id = i
    BY IsMessage, CloseParts, Zenon
  <2>2. EndStream(c, i) => (dialed'[d][j] # "none" => dialed[d][j] # "none")
    BY Ended
  <2>3. CASE AgentLost(c, i)
    <3>1. dialed[c][i] # "none"
      BY <2>3, Zenon DEF AgentLost
    <3> QED
      BY <1>7, <2>1, <2>2, <2>3, <3>1, Zenon DEF AgentLost, ReportLoss
  <2>4. CASE ReadAgent(c, i)
    <3> DEFINE m == AgentData(i, agent_got[c][i][replied[c][i] + 1])
    <3>1. m \in Messages
      BY <2>4, AnswerSent, Zenon
    <3>2. m.id = i
      BY DataParts, Zenon
    <3>3. CASE cli[c] = "relay"
      <4>1. /\ SendToServer(c, m) /\ UNCHANGED <<dialed, cstreams>> /\ dialed[c][i] # "none"
        BY <2>4, <3>3, Zenon DEF ReadAgent
      <4> HIDE DEF m
      <4> QED
        BY <1>7, <3>1, <3>2, <4>1, Zenon
    <3>4. CASE cli[c] # "relay"
      BY <1>3, <1>4, <2>2, <2>4, <3>4, Zenon DEF ReadAgent
    <3> QED
      BY <3>3, <3>4
  <2>5. CASE AgentStreamClosed(c, i)
    BY <1>3, <1>4, <2>2, <2>5, Zenon DEF AgentStreamClosed
  <2>6. CASE Dial(c, i)
    <3>1. dialed' = [dialed EXCEPT ![c][i] = "relay"] /\ dialed[c][i] = "dial"
      BY <2>6, Zenon DEF Dial
    <3>2. dialed'[d][j] # "none" => dialed[d][j] # "none"
      BY <1>1, <3>1, NestedUpdate
    <3> QED
      BY <1>3, <1>4, <2>6, <3>2, Zenon DEF Dial
  <2>7. CASE WriteAgent(c, i)
    BY <1>5, <2>7, Zenon DEF WriteAgent
  <2> QED
    BY <1>8, <2>3, <2>4, <2>5, <2>6, <2>7, Zenon
<1>9. ASSUME NEW c \in Channels,
             \/ OpenChannel(c) \/ Attach(c) \/ Deny(c) \/ RecvFromClient(c) \/ EndChannel(c)
             \/ Detach(c) \/ LeaveChannel(c)
      PROVE  Seen(d, j)
  <2>1. CASE OpenChannel(c) \/ Attach(c) \/ Deny(c) \/ Detach(c)
    BY <1>5, <2>1, Zenon DEF OpenChannel, Attach, Deny, Detach
  <2>2. CASE RecvFromClient(c)
    <3>1. About(up'[d], j) => About(up[d], j)
      BY <2>2, PoppedUp, Zenon
    <3> QED
      BY <1>3, <1>4, <2>2, <3>1, Zenon DEF RecvFromClient
  <2>3. CASE EndChannel(c)
    <3>1. About(up'[d], j) => About(up[d], j)
      BY <1>1, <2>3, EmptyQueue, Zenon DEF EndChannel
    <3> QED
      BY <1>3, <1>4, <2>3, <3>1, Zenon DEF EndChannel
  <2>4. CASE LeaveChannel(c)
    <3>1. j \in cstreams'[d] => j \in cstreams[d]
      BY <1>1, <2>4, Zenon DEF LeaveChannel
    <3> QED
      BY <1>3, <1>4, <2>4, <3>1, Zenon DEF LeaveChannel
  <2> QED
    BY <1>9, <2>1, <2>2, <2>3, <2>4, Zenon
<1>10. ASSUME NEW c \in Channels, RecvFromServer(c)
       PROVE  Seen(d, j) \/ (d = c /\ Head(down[d]) = AgentOpen(j))
  <2> DEFINE m == Head(down[c])
  <2>1. /\ m \in Messages
        /\ j \in cstreams'[d] => j \in cstreams[d] \/ (d = c /\ j = m.id /\ m.type = "AgentOpen")
        /\ dialed'[d][j] # "none" =>
             dialed[d][j] # "none" \/ (d = c /\ j = m.id /\ m.type = "AgentOpen")
    BY <1>10, Received
  <2>2. j = m.id /\ m.type = "AgentOpen" => m = AgentOpen(j)
    <3> HIDE DEF m
    <3> QED
      BY <2>1, MessageForm
  <2>3. UNCHANGED up
    BY <1>10, Zenon DEF RecvFromServer
  <2>4. d = c => m = Head(down[d])
    OBVIOUS
  <2> HIDE DEF m
  <2> QED
    BY <1>3, <1>4, <2>1, <2>2, <2>3, <2>4, Zenon
<1>11. CASE UNCHANGED vars
  BY <1>5, <1>11, Zenon DEF vars
<1> QED
  BY <1>6, <1>8, <1>9, <1>10, <1>11, Zenon DEF Next

\* Messages without data come to a client's queue only from Open and Finish.
LEMMA CarriedGrows ==
  ASSUME Types, IdInv, [Next]_vars, NEW d \in Channels, NEW x, x.type # "AgentData",
         Carried(down'[d], x)
  PROVE  \/ Carried(down[d], x)
         \/ \E p \in Programs : Open(p) /\ channel = d /\ x = AgentOpen(id[p])
         \/ \E p \in Programs : Finish(p) /\ channel = d /\ x = AgentClose(id[p])
<1>1. down \in [Channels -> Seq(Messages)]
  BY TypesAre, Zenon
<1>2. ASSUME NEW p \in Programs, Open(p)
      PROVE  Carried(down[d], x) \/ (channel = d /\ x = AgentOpen(id[p]))
  <2>1. AgentOpen(id[p]) \in Messages /\ SendToChannel(AgentOpen(id[p]))
    BY <1>2, OpenSent, Zenon
  <2> QED
    BY <2>1, CarriedDown, Zenon
<1>3. ASSUME NEW p \in Programs, ReadProgram(p)
      PROVE  Carried(down[d], x)
  <2> DEFINE m == AgentData(id[p], <<p, asked[p] + 1>>)
  <2>1. m \in Messages /\ SendToChannel(m)
    BY <1>3, DataSent, Zenon
  <2>2. m.type = "AgentData"
    BY DataParts
  <2> HIDE DEF m
  <2> QED
    BY <2>1, <2>2, CarriedDown, Zenon
<1>4. ASSUME NEW p \in Programs, Finish(p)
      PROVE  Carried(down[d], x) \/ (channel = d /\ x = AgentClose(id[p]))
  <2>1. AgentClose(id[p]) \in Messages /\ SendToChannel(AgentClose(id[p]))
    BY <1>4, CloseSent, Zenon
  <2> QED
    BY <2>1, CarriedDown, Zenon
<1>5. ASSUME NEW c \in Channels, RecvFromServer(c)
      PROVE  Carried(down[d], x)
  BY <1>5, PoppedDown, Zenon
<1>6. ASSUME NEW c \in Channels, LeaveChannel(c)
      PROVE  Carried(down[d], x)
  BY <1>1, <1>6, EmptyQueue, Zenon DEF LeaveChannel
<1>7. CASE UNCHANGED down
  BY <1>7, Zenon
<1> QED
  BY <1>2, <1>3, <1>4, <1>5, <1>6, <1>7, DownMoves, Zenon

LEMMA CarriedKept ==
  ASSUME Types, IdInv, [Next]_vars, NEW d \in Channels, NEW x, Carried(down[d], x)
  PROVE  \/ Carried(down'[d], x)
         \/ RecvFromServer(d) /\ x = Head(down[d])
         \/ LeaveChannel(d)
<1>1. down \in [Channels -> Seq(Messages)]
  BY TypesAre, Zenon
<1>2. ASSUME NEW m \in Messages, SendToChannel(m)
      PROVE  Carried(down'[d], x)
  BY <1>2, QueuedDown, Zenon
<1>3. ASSUME NEW p \in Programs, Open(p) \/ ReadProgram(p) \/ Finish(p)
      PROVE  \E m \in Messages : SendToChannel(m)
  BY <1>3, OpenSent, DataSent, CloseSent, Zenon
<1>4. ASSUME NEW c \in Channels, RecvFromServer(c)
      PROVE  Carried(down'[d], x) \/ (d = c /\ x = Head(down[d]))
  BY <1>4, PoppedDown, Zenon
<1>5. ASSUME NEW c \in Channels, LeaveChannel(c)
      PROVE  Carried(down'[d], x) \/ d = c
  BY <1>1, <1>5, Zenon DEF LeaveChannel
<1>6. CASE UNCHANGED down
  BY <1>6, Zenon
<1> QED
  BY <1>2, <1>3, <1>4, <1>5, <1>6, DownMoves, Zenon

LEMMA OpenGrows ==
  ASSUME Types, IdInv, [Next]_vars, NEW d \in Channels, NEW j \in Ids,
         Carried(down'[d], AgentOpen(j)), ~Carried(down[d], AgentOpen(j))
  PROVE  \E p \in Programs : Open(p) /\ channel = d /\ id[p] = j
<1>1. AgentOpen(j).type # "AgentData"
  BY OpenParts, Zenon
<1>2. \A k : AgentOpen(j) = AgentOpen(k) => j = k
  BY OpenParts
<1>3. \A k : AgentOpen(j) # AgentClose(k)
  BY OpenParts, CloseParts
<1> QED
  BY <1>1, <1>2, <1>3, CarriedGrows, Zenon

LEMMA KnownGrows ==
  ASSUME Types, IdInv, [Next]_vars, NEW d \in Channels, NEW j \in Ids, Known(d, j)'
  PROVE  Known(d, j) \/ \E p \in Programs : Open(p) /\ channel = d /\ id[p] = j
<1>1. Seen(d, j)' => Known(d, j)
  <2> SUFFICES ASSUME Seen(d, j)'
               PROVE  Known(d, j)
    OBVIOUS
  <2>1. RecvFromServer(d) => Carried(down[d], Head(down[d]))
    BY PoppedDown, Zenon
  <2> QED
    BY <2>1, SeenGrows, KnownSeen, Zenon
<1>2. Carried(down'[d], AgentOpen(j)) =>
         Known(d, j) \/ \E p \in Programs : Open(p) /\ channel = d /\ id[p] = j
  BY OpenGrows, KnownSeen, Zenon
<1> QED
  BY <1>1, <1>2, KnownSeen, Zenon

LEMMA AboutGrows ==
  ASSUME AgentInvariant, [Next]_vars, NEW d \in Channels, NEW j \in Ids, About(down'[d], j)
  PROVE  About(down[d], j) \/ \E p \in Programs : id'[p] = j /\ opened_on'[p] # None
<1> USE DEF hubVars, wireVars, clientVars, agentVars
<1>1. Types /\ IdInv /\ OpenedInv
  BY Zenon DEF AgentInvariant, Types
<1>2. down \in [Channels -> Seq(Messages)] /\ opened_on \in [Programs -> Channels \cup {None}]
  BY <1>1, TypesAre, Zenon
<1>3. ASSUME NEW p \in Programs, Open(p)
      PROVE  About(down[d], j) \/ \E q \in Programs : id'[q] = j /\ opened_on'[q] # None
  <2>1. About(down[d], j) \/ (d = channel /\ j = AgentOpen(id[p]).id)
    BY <1>1, <1>3, OpenSent, AboutDown, Zenon
  <2>2. id' = id /\ opened_on'[p] = channel
    BY <1>2, <1>3, Zenon DEF Open
  <2> QED
    BY <2>1, <2>2, OpenParts, NotNone, Zenon
<1>4. ASSUME NEW p \in Programs, ReadProgram(p)
      PROVE  About(down[d], j) \/ \E q \in Programs : id'[q] = j /\ opened_on'[q] # None
  <2> DEFINE m == AgentData(id[p], <<p, asked[p] + 1>>)
  <2>3. Types /\ m \in Messages /\ SendToChannel(m)
    BY <1>1, <1>4, DataSent, Zenon
  <2>1. About(down[d], j) \/ j = m.id
    <3> HIDE DEF m
    <3> QED
      BY <2>3, AboutDown, Zenon
  <2>2. opened_on[p] # None /\ UNCHANGED <<id, opened_on>>
    BY <1>1, <1>4, Zenon DEF ReadProgram, OpenedInv
  <2>4. m.id = id[p]
    BY DataParts
  <2> HIDE DEF m
  <2> QED
    BY <2>1, <2>2, <2>4, Zenon
<1>5. ASSUME NEW p \in Programs, Finish(p)
      PROVE  About(down[d], j) \/ \E q \in Programs : id'[q] = j /\ opened_on'[q] # None
  <2>1. About(down[d], j) \/ j = AgentClose(id[p]).id
    BY <1>1, <1>5, CloseSent, AboutDown, Zenon
  <2>2. opened_on[p] # None /\ UNCHANGED <<id, opened_on>>
    BY <1>1, <1>5, Zenon DEF Finish, OpenedInv
  <2> QED
    BY <2>1, <2>2, CloseParts, Zenon
<1>6. ASSUME NEW c \in Channels, RecvFromServer(c)
      PROVE  About(down[d], j)
  BY <1>1, <1>6, PoppedDown, Zenon
<1>7. ASSUME NEW c \in Channels, LeaveChannel(c)
      PROVE  About(down[d], j)
  BY <1>2, <1>7, EmptyQueue, Zenon DEF LeaveChannel
<1>8. CASE UNCHANGED down
  BY <1>8, Zenon
<1> QED
  BY <1>3, <1>4, <1>5, <1>6, <1>7, <1>8, DownMoves, Zenon

LEMMA OwnerStep ==
  ASSUME AgentInvariant, [Next]_vars
  PROVE  OwnerInv'
<1>0. Types /\ IdInv /\ OwnerInv
  BY Zenon DEF AgentInvariant, Types
<1>1. OwnerInv /\ None \notin Channels /\ opened_on \in [Programs -> Channels \cup {None}]
  BY <1>0, NotNone, TypesAre, Zenon
<1>2. ASSUME NEW d \in Channels, NEW j \in Ids, Known(d, j)'
      PROVE  \E p \in Programs : id'[p] = j /\ opened_on'[p] = d
  <2>1. CASE Known(d, j)
    <3>1. PICK p \in Programs : id[p] = j /\ opened_on[p] = d
      BY <1>1, <2>1, Zenon DEF OwnerInv
    <3>2. id'[p] = j /\ opened_on'[p] = d
      BY <1>1, <3>1, OwnersKept, Zenon
    <3> QED
      BY <3>2
  <2>2. ASSUME NEW p \in Programs, Open(p), channel = d, id[p] = j
        PROVE  id'[p] = j /\ opened_on'[p] = d
    BY <1>1, <2>2, Zenon DEF Open
  <2> QED
    BY <1>0, <1>2, <2>1, <2>2, KnownGrows, Zenon
<1>3. ASSUME NEW d \in Channels, NEW j \in Ids, About(down'[d], j)
      PROVE  \E p \in Programs : id'[p] = j /\ opened_on'[p] # None
  <2>1. CASE About(down[d], j)
    <3>1. PICK p \in Programs : id[p] = j /\ opened_on[p] # None
      BY <1>1, <2>1, Zenon DEF OwnerInv
    <3>2. id'[p] = j /\ opened_on'[p] # None
      BY <3>1, OwnersKept, Zenon
    <3> QED
      BY <3>2
  <2> QED
    BY <1>3, <2>1, AboutGrows, Zenon
<1> QED
  BY <1>2, <1>3, Zenon DEF OwnerInv

-----------------------------------------------------------------------------
(* The client's tasks, and what comes first                                 *)

\* The steps that change what a client's tasks hold.
LEMMA TaskMoves ==
  ASSUME [Next]_vars
  PROVE  \/ UNCHANGED <<dialed, cwrite, agent_got, replied>>
         \/ \E c \in Channels : RecvFromServer(c)
         \/ \E c \in Channels, i \in Ids : \/ Dial(c, i) \/ AgentLost(c, i) \/ WriteAgent(c, i)
                                           \/ ReadAgent(c, i) \/ AgentStreamClosed(c, i)
<1> USE Zenon DEF hubVars, wireVars, clientVars, agentVars
<1>1. CASE UNCHANGED vars
  BY <1>1 DEF vars
<1>2. ASSUME NEW p \in Programs,
             \/ Accept(p) \/ NoChannel(p) \/ Register(p) \/ Open(p) \/ ReadProgram(p)
             \/ WriteProgram(p) \/ Finish(p) \/ \E b \in BOOLEAN : LeaveRelay(p, b)
      PROVE  UNCHANGED <<dialed, cwrite, agent_got, replied>>
  BY <1>2 DEF Accept, NoChannel, Register, Open, ReadProgram, WriteProgram, Finish, LeaveRelay
<1>3. ASSUME NEW c \in Channels,
             \/ OpenChannel(c) \/ Attach(c) \/ Deny(c) \/ RecvFromClient(c) \/ EndChannel(c)
             \/ Detach(c) \/ LeaveChannel(c)
      PROVE  UNCHANGED <<dialed, cwrite, agent_got, replied>>
  BY <1>3 DEF OpenChannel, Attach, Deny, RecvFromClient, EndChannel, Detach, LeaveChannel
<1> QED
  BY <1>1, <1>2, <1>3 DEF Next

\* The agent's actions, for every channel d and id j.
LEMMA Dialed ==
  ASSUME Types, NEW c \in Channels, NEW i \in Ids, Dial(c, i), NEW d \in Channels, NEW j \in Ids
  PROVE  dialed'[d][j] = IF d = c /\ j = i THEN "relay" ELSE dialed[d][j]
<1>1. dialed \in [Channels -> [Ids -> {"none", "dial", "relay"}]]
  BY TypesAre, Zenon
<1>2. dialed' = [dialed EXCEPT ![c][i] = "relay"]
  BY Zenon DEF Dial
<1> QED
  BY <1>1, <1>2, NestedUpdate

LEMMA Written ==
  ASSUME Types, NEW c \in Channels, NEW i \in Ids, WriteAgent(c, i), NEW d \in Channels, NEW j \in Ids
  PROVE  /\ agent_got'[d][j] = IF d = c /\ j = i THEN Append(agent_got[d][j], Head(cwrite[d][j]))
                               ELSE agent_got[d][j]
         /\ cwrite'[d][j] = IF d = c /\ j = i THEN Tail(cwrite[d][j]) ELSE cwrite[d][j]
<1> DEFINE s == Append(agent_got[c][i], Head(cwrite[c][i]))
           t == Tail(cwrite[c][i])
<1>1. cwrite \in [Channels -> [Ids -> Seq(Seq(Nat))]]
  BY TypesAre, Zenon
<1>2. agent_got \in [Channels -> [Ids -> Seq(Seq(Nat))]]
  BY TypesAre, Zenon
<1>3. agent_got' = [agent_got EXCEPT ![c][i] = s] /\ cwrite' = [cwrite EXCEPT ![c][i] = t]
  BY DEF WriteAgent, NextData
<1>4. d = c /\ j = i => /\ s = Append(agent_got[d][j], Head(cwrite[d][j]))
                        /\ t = Tail(cwrite[d][j])
  OBVIOUS
<1> HIDE DEF s, t
<1>5. agent_got'[d][j] = IF d = c /\ j = i THEN s ELSE agent_got[d][j]
  BY <1>2, <1>3, NestedUpdate
<1>6. cwrite'[d][j] = IF d = c /\ j = i THEN t ELSE cwrite[d][j]
  BY <1>1, <1>3, NestedUpdate
<1> QED
  BY <1>4, <1>5, <1>6, Zenon

LEMMA Answered ==
  ASSUME Types, NEW c \in Channels, NEW i \in Ids, ReadAgent(c, i), cli[c] = "relay",
         NEW d \in Channels, NEW j \in Ids
  PROVE  replied'[d][j] = IF d = c /\ j = i THEN replied[d][j] + 1 ELSE replied[d][j]
<1> DEFINE n == replied[c][i] + 1
<1>1. replied \in [Channels -> [Ids -> Nat]]
  BY TypesAre, Zenon
<1>2. replied' = [replied EXCEPT ![c][i] = n]
  BY DEF ReadAgent
<1>3. d = c /\ j = i => n = replied[d][j] + 1
  OBVIOUS
<1> HIDE DEF n
<1> QED
  BY <1>1, <1>2, <1>3, NestedUpdate

LEMMA TaskStep ==
  ASSUME AgentInvariant, [Next]_vars
  PROVE  TaskInv'
<1> USE DEF agentVars
<1> DEFINE Task(c, i) == /\ dialed[c][i] # "relay" => agent_got[c][i] = <<>>
                         /\ dialed[c][i] = "none" => cwrite[c][i] = <<>>
                         /\ replied[c][i] <= Len(agent_got[c][i])
<1>1. Types /\ TaskInv /\ FirstInv
  BY Zenon DEF AgentInvariant, Types
<1> SUFFICES ASSUME NEW d \in Channels, NEW j \in Ids
             PROVE  Task(d, j)'
  BY Zenon DEF TaskInv
<1>2. Task(d, j)
  BY <1>1, Zenon DEF TaskInv
<1>3. /\ agent_got[d][j] \in Seq(Seq(Nat)) /\ cwrite[d][j] \in Seq(Seq(Nat))
      /\ replied[d][j] \in Nat /\ dialed[d][j] \in {"none", "dial", "relay"}
  BY <1>1, TypesAre, Zenon
<1>4. ASSUME UNCHANGED <<dialed, cwrite, agent_got, replied>>
      PROVE  Task(d, j)'
  BY <1>2, <1>4, Zenon
<1>5. ASSUME NEW c \in Channels, NEW i \in Ids, EndStream(c, i)
      PROVE  Task(d, j)'
  <2>1. /\ dialed'[d][j] = IF d = c /\ j = i THEN "none" ELSE dialed[d][j]
        /\ cwrite'[d][j] = IF d = c /\ j = i THEN <<>> ELSE cwrite[d][j]
        /\ agent_got'[d][j] = IF d = c /\ j = i THEN <<>> ELSE agent_got[d][j]
        /\ replied'[d][j] = IF d = c /\ j = i THEN 0 ELSE replied[d][j]
    BY <1>1, <1>5, Ended
  <2> QED
    BY <1>2, <2>1
<1>6. ASSUME NEW c \in Channels, RecvFromServer(c)
      PROVE  Task(d, j)'
  <2> DEFINE m == Head(down[c])
  <2>1. /\ m \in Messages
        /\ dialed'[d][j] = IF d = c /\ j = m.id /\ m.type = "AgentOpen" THEN "dial"
                           ELSE dialed[d][j]
        /\ cwrite'[d][j] = IF /\ d = c /\ j = m.id /\ m.type = "AgentData"
                              /\ j \in cstreams[d] /\ dialed[d][j] # "none"
                           THEN Append(cwrite[d][j], m.data) ELSE cwrite[d][j]
    BY <1>1, <1>6, Received
  <2>2. d = c /\ j = m.id /\ m.type = "AgentOpen" => dialed[d][j] = "none"
    <3>1. Carried(down[c], m)
      BY <1>1, <1>6, PoppedDown, Zenon
    <3>2. m.type = "AgentOpen" => m = AgentOpen(m.id)
      <4> HIDE DEF m
      <4> QED
        BY <2>1, MessageForm
    <3>3. Carried(down[d], AgentOpen(j)) => dialed[d][j] = "none"
      BY <1>1, Zenon DEF FirstInv
    <3> HIDE DEF m
    <3> QED
      BY <3>1, <3>2, <3>3, Zenon
  <2>3. UNCHANGED <<agent_got, replied>>
    BY <1>6, Zenon DEF RecvFromServer
  <2> HIDE DEF m
  <2>4. dialed'[d][j] = "relay" <=> dialed[d][j] = "relay"
    BY <2>1, <2>2, Zenon
  <2>5. dialed'[d][j] = "none" => cwrite'[d][j] = <<>>
    BY <1>2, <2>1, Zenon
  <2> QED
    BY <1>2, <2>3, <2>4, <2>5, Zenon
<1>7. ASSUME NEW c \in Channels, NEW i \in Ids, Dial(c, i)
      PROVE  Task(d, j)'
  <2>1. dialed'[d][j] = IF d = c /\ j = i THEN "relay" ELSE dialed[d][j]
    BY <1>1, <1>7, Dialed
  <2>2. UNCHANGED <<cwrite, agent_got, replied>>
    BY <1>7, Zenon DEF Dial
  <2> QED
    BY <1>2, <2>1, <2>2, Zenon
<1>8. ASSUME NEW c \in Channels, NEW i \in Ids, WriteAgent(c, i)
      PROVE  Task(d, j)'
  <2>1. /\ agent_got'[d][j] = IF d = c /\ j = i THEN Append(agent_got[d][j], Head(cwrite[d][j]))
                              ELSE agent_got[d][j]
        /\ cwrite'[d][j] = IF d = c /\ j = i THEN Tail(cwrite[d][j]) ELSE cwrite[d][j]
    BY <1>1, <1>8, Written
  <2>2. dialed[c][i] = "relay" /\ UNCHANGED <<dialed, replied>> /\ cwrite[c][i] # <<>>
    BY <1>8, Zenon DEF WriteAgent
  <2>3. CASE d = c /\ j = i
    <3>1. Len(agent_got'[d][j]) = Len(agent_got[d][j]) + 1
      BY <1>3, <2>1, <2>2, <2>3
    <3>2. replied[d][j] <= Len(agent_got'[d][j])
      BY <1>2, <1>3, <3>1
    <3> QED
      BY <2>2, <2>3, <3>2, Zenon
  <2>4. CASE ~(d = c /\ j = i)
    BY <1>2, <2>1, <2>2, <2>4, Zenon
  <2> QED
    BY <2>3, <2>4
<1>9. ASSUME NEW c \in Channels, NEW i \in Ids, ReadAgent(c, i)
      PROVE  Task(d, j)'
  <2>1. CASE cli[c] = "relay"
    <3>1. replied'[d][j] = IF d = c /\ j = i THEN replied[d][j] + 1 ELSE replied[d][j]
      BY <1>1, <1>9, <2>1, Answered
    <3>2. replied[c][i] < Len(agent_got[c][i]) /\ UNCHANGED <<dialed, cwrite, agent_got>>
      BY <1>9, <2>1, Zenon DEF ReadAgent
    <3>3. replied'[d][j] <= Len(agent_got[d][j])
      BY <1>2, <1>3, <3>1, <3>2
    <3> QED
      BY <1>2, <3>2, <3>3, Zenon
  <2>2. CASE cli[c] # "relay"
    BY <1>5, <1>9, <2>2, Zenon DEF ReadAgent
  <2> QED
    BY <2>1, <2>2
<1>10. ASSUME NEW c \in Channels, NEW i \in Ids, AgentLost(c, i) \/ AgentStreamClosed(c, i)
       PROVE  Task(d, j)'
  BY <1>5, <1>10, Zenon DEF AgentLost, AgentStreamClosed
<1> HIDE DEF Task
<1> QED
  BY <1>4, <1>6, <1>7, <1>8, <1>9, <1>10, TaskMoves, Zenon

LEMMA CarriedAbout ==
  ASSUME NEW q, NEW x, Carried(q, x)
  PROVE  About(q, x.id)
  BY DEF Carried, About

\* Ids have one owner, and it is the one the client was told of.
LEMMA KnownOwner ==
  ASSUME AgentInvariant, NEW d \in Channels, NEW j \in Ids, Known(d, j), NEW p \in Programs, id[p] = j
  PROVE  opened_on[p] = d /\ d # None
<1>1. IdInv /\ OwnerInv /\ j # None /\ d # None
  BY NotNone, Zenon DEF AgentInvariant
<1>2. PICK q \in Programs : id[q] = j /\ opened_on[q] = d
  BY <1>1, Zenon DEF OwnerInv
<1>3. q = p
  BY <1>1, <1>2, Zenon DEF IdInv
<1> QED
  BY <1>1, <1>2, <1>3, Zenon

LEMMA AboutOwner ==
  ASSUME AgentInvariant, NEW d \in Channels, NEW j \in Ids, About(down[d], j),
         NEW p \in Programs, id[p] = j
  PROVE  opened_on[p] # None
<1>1. IdInv /\ OwnerInv /\ j # None
  BY NotNone, Zenon DEF AgentInvariant
<1>2. PICK q \in Programs : id[q] = j /\ opened_on[q] # None
  BY <1>1, Zenon DEF OwnerInv
<1>3. q = p
  BY <1>1, <1>2, Zenon DEF IdInv
<1> QED
  BY <1>2, <1>3

\* Nobody else is given an id that has been given out.
LEMMA IdBefore ==
  ASSUME AgentInvariant, [Next]_vars, NEW q \in Programs, id[q] \in Ids, NEW p \in Programs,
         id'[p] = id[q]
  PROVE  p = q
<1>1. Types /\ IdInv
  BY Zenon DEF AgentInvariant, Types
<1>2. id \in [Programs -> Ids \cup {None}] /\ None \notin Ids /\ id[q] \in Nat
  BY <1>1, TypesAre, NotNone, Zenon
<1>3. CASE id' = id
  BY <1>1, <1>2, <1>3, Zenon DEF IdInv
<1>4. ASSUME NEW r \in Programs, Register(r)
      PROVE  p = q
  <2>1. id'[p] = IF p = r THEN next_id ELSE id[p]
    BY <1>2, <1>4, Zenon DEF Register
  <2>2. id[q] < next_id /\ next_id \in Nat
    <3>1. id[q] < next_id
      BY <1>1, Zenon DEF IdInv
    <3>2. next_id \in 1 .. MaxPrograms + 1
      BY <1>1, TypesAre, Zenon
    <3> QED
      BY <3>1, <3>2
  <2>3. id[q] # next_id
    BY <1>2, <2>2
  <2>4. id[p] = id[q]
    BY <2>1, <2>3, Zenon
  <2> QED
    BY <1>1, <1>2, <2>4, Zenon DEF IdInv
<1> QED
  BY <1>1, <1>3, <1>4, ProgramMoves, Zenon

\* The steps that change what a program was answered, or will be.
LEMMA WriteMoves ==
  ASSUME [Next]_vars
  PROVE  \/ UNCHANGED <<got, write>>
         \/ \E p \in Programs : WriteProgram(p)
         \/ \E p \in Programs : Finish(p)
         \/ \E c \in Channels : RecvFromClient(c)
<1> USE Zenon DEF hubVars, wireVars, clientVars, agentVars
<1>1. CASE UNCHANGED vars
  BY <1>1 DEF vars
<1>2. ASSUME NEW p \in Programs,
             \/ Accept(p) \/ NoChannel(p) \/ Register(p) \/ Open(p) \/ ReadProgram(p)
             \/ \E b \in BOOLEAN : LeaveRelay(p, b)
      PROVE  UNCHANGED <<got, write>>
  BY <1>2 DEF Accept, NoChannel, Register, Open, ReadProgram, LeaveRelay
<1>3. ASSUME NEW c \in Channels,
             \/ OpenChannel(c) \/ Attach(c) \/ Deny(c) \/ EndChannel(c)
             \/ Detach(c) \/ RecvFromServer(c) \/ LeaveChannel(c)
      PROVE  UNCHANGED <<got, write>>
  BY <1>3 DEF OpenChannel, Attach, Deny, EndChannel, Detach, RecvFromServer, LeaveChannel
<1>4. ASSUME NEW c \in Channels, NEW i \in Ids,
             \/ Dial(c, i) \/ AgentLost(c, i) \/ WriteAgent(c, i)
             \/ ReadAgent(c, i) \/ AgentStreamClosed(c, i)
      PROVE  UNCHANGED <<got, write>>
  BY <1>4 DEF Dial, AgentLost, WriteAgent, ReadAgent, AgentStreamClosed
<1> QED
  BY <1>1, <1>2, <1>3, <1>4 DEF Next

\* Data is written for the program the sender's channel belongs to.
LEMMA WrittenFor ==
  ASSUME AgentInvariant, NEW c \in Channels, RecvFromClient(c), Head(up[c]).type = "AgentData",
         NEW p \in Programs, streams[Head(up[c]).id] = p
  PROVE  id[p] = Head(up[c]).id /\ id[p] \in Ids /\ About(up[c], id[p]) /\ opened_on[p] = c
<1> DEFINE m == Head(up[c])
<1>1. Types /\ NoStreamLeaked /\ None \notin Programs
  BY NotNone, Zenon DEF AgentInvariant, Types
<1>2. m \in Messages
  BY <1>1, ReceivedUp
<1>3. About(up[c], m.id)
  BY <1>1, PoppedUp
<1>7. streams[m.id] = p
  OBVIOUS
<1> HIDE DEF m
<1>4. m.id \in Ids
  BY <1>2, MessageId, Zenon
<1>5. id[p] = m.id
  <2>1. streams[m.id] # None
    BY <1>1, <1>7
  <2>2. id[streams[m.id]] = m.id
    BY <1>1, <1>4, <2>1, Zenon DEF NoStreamLeaked
  <2> QED
    BY <1>7, <2>2
<1>6. Known(c, m.id)
  BY <1>3, Zenon DEF Known
<1>8. opened_on[p] = c
  BY <1>4, <1>5, <1>6, KnownOwner, Zenon
<1> QED
  BY <1>3, <1>4, <1>5, <1>8 DEF m

\* A connection that is being announced is known nowhere.
LEMMA OpenUnknown ==
  ASSUME AgentInvariant, NEW p \in Programs, Open(p)
  PROVE  /\ id[p] \in Ids /\ opened_on[p] = None /\ asked[p] = 0
         /\ \A d \in Channels : ~Known(d, id[p]) /\ ~About(down[d], id[p])
<1>1. Types /\ IdInv /\ OpenedInv
  BY Zenon DEF AgentInvariant, Types
<1>2. opened_on[p] = None /\ asked[p] = 0
  BY <1>1, Zenon DEF OpenedInv, Open
<1>3. id[p] \in Ids
  BY <1>1, OpenSent, Zenon
<1> QED
  BY <1>2, <1>3, KnownOwner, AboutOwner, Zenon

LEMMA FirstStep ==
  ASSUME AgentInvariant, [Next]_vars
  PROVE  FirstInv'
<1> USE DEF hubVars, wireVars, clientVars, agentVars
<1>1. Types /\ IdInv
  BY Zenon DEF AgentInvariant, Types
<1> SUFFICES ASSUME NEW d \in Channels, NEW j \in Ids
             PROVE  /\ OpenFirst(down'[d], j)
                    /\ Carried(down'[d], AgentOpen(j)) => ~Seen(d, j)'
                    /\ \A p \in Programs : id'[p] = j =>
                         /\ Carried(down'[d], AgentOpen(j)) => got'[p] = <<>> /\ write'[p] = <<>>
                         /\ Carried(down'[d], AgentClose(j)) => prog'[p] = "done"
  BY Zenon DEF FirstInv, Seen, AgentOpen, AgentClose
<1>2. /\ OpenFirst(down[d], j)
      /\ Carried(down[d], AgentOpen(j)) => ~Seen(d, j)
  BY Zenon DEF AgentInvariant, FirstInv, Seen
<1>3. \A p \in Programs : id[p] = j =>
         /\ Carried(down[d], AgentOpen(j)) => got[p] = <<>> /\ write[p] = <<>>
         /\ Carried(down[d], AgentClose(j)) => prog[p] = "done"
  BY Zenon DEF AgentInvariant, FirstInv
<1>4. down[d] \in Seq(Messages)
  BY <1>1, TypesAre, Zenon
\* Where an AgentOpen or an AgentClose comes from.
<1>5. ASSUME Carried(down'[d], AgentOpen(j))
      PROVE  \/ Carried(down[d], AgentOpen(j))
             \/ \E p \in Programs : Open(p) /\ channel = d /\ id[p] = j
  BY <1>1, <1>5, OpenGrows, Zenon
<1>6. ASSUME Carried(down'[d], AgentClose(j))
      PROVE  \/ Carried(down[d], AgentClose(j))
             \/ \E p \in Programs : Finish(p) /\ j = id[p]
  <2>1. AgentClose(j).type # "AgentData"
    BY CloseParts, Zenon
  <2>2. \A k : AgentClose(j) = AgentClose(k) => j = k
    BY CloseParts
  <2>3. \A k : AgentClose(j) # AgentOpen(k)
    BY OpenParts, CloseParts
  <2> QED
    BY <1>1, <1>6, <2>1, <2>2, <2>3, CarriedGrows, Zenon
<1>7. OpenFirst(down'[d], j)
  <2>1. CASE UNCHANGED down
    BY <1>2, <2>1, Zenon
  <2>2. ASSUME NEW m \in Messages, SendToChannel(m), m = AgentOpen(j) => ~About(down[d], j)
        PROVE  OpenFirst(down'[d], j)
    <3>1. OpenFirst(Append(down[d], m), j)
      BY <1>2, <1>4, <2>2, OpenFirstAppend
    <3>2. down'[d] = down[d] \/ down'[d] = Append(down[d], m)
      BY <1>1, <2>2, QueuedDown, Zenon
    <3> QED
      BY <1>2, <3>1, <3>2, Zenon
  <2>3. ASSUME NEW p \in Programs, Open(p)
        PROVE  OpenFirst(down'[d], j)
    <3>1. AgentOpen(id[p]) \in Messages /\ SendToChannel(AgentOpen(id[p]))
      BY <1>1, <2>3, OpenSent, Zenon
    <3>2. AgentOpen(id[p]) = AgentOpen(j) => id[p] = j
      BY OpenParts
    <3>3. ~About(down[d], id[p])
      BY <2>3, OpenUnknown, Zenon
    <3> QED
      BY <2>2, <3>1, <3>2, <3>3, Zenon
  <2>4. ASSUME NEW p \in Programs, ReadProgram(p)
        PROVE  OpenFirst(down'[d], j)
    <3> DEFINE m == AgentData(id[p], <<p, asked[p] + 1>>)
    <3>1. m \in Messages /\ SendToChannel(m)
      BY <1>1, <2>4, DataSent, Zenon
    <3>2. m # AgentOpen(j)
      BY OpenParts, DataParts
    <3> HIDE DEF m
    <3> QED
      BY <2>2, <3>1, <3>2, Zenon
  <2>5. ASSUME NEW p \in Programs, Finish(p)
        PROVE  OpenFirst(down'[d], j)
    <3>1. AgentClose(id[p]) \in Messages /\ SendToChannel(AgentClose(id[p]))
      BY <1>1, <2>5, CloseSent, Zenon
    <3>2. AgentClose(id[p]) # AgentOpen(j)
      BY OpenParts, CloseParts
    <3> QED
      BY <2>2, <3>1, <3>2, Zenon
  <2>6. ASSUME NEW c \in Channels, RecvFromServer(c)
        PROVE  OpenFirst(down'[d], j)
    <3>1. down[c] # <<>> /\ down'[d] = IF d = c THEN Tail(down[d]) ELSE down[d]
      BY <1>1, <2>6, Received
    <3>2. d = c => OpenFirst(Tail(down[d]), j)
      BY <1>2, <1>4, <3>1, OpenFirstTail
    <3> QED
      BY <1>2, <3>1, <3>2, Zenon
  <2>7. ASSUME NEW c \in Channels, LeaveChannel(c)
        PROVE  OpenFirst(down'[d], j)
    <3>1. down'[d] = IF d = c THEN <<>> ELSE down[d]
      BY <1>1, <2>7, TypesAre, Zenon DEF LeaveChannel
    <3> QED
      BY <1>2, <3>1, EmptyQueue, Zenon
  <2> QED
    BY <2>1, <2>3, <2>4, <2>5, <2>6, <2>7, DownMoves, Zenon
<1>8. ASSUME Carried(down'[d], AgentOpen(j)), Seen(d, j)'
      PROVE  FALSE
  <2>1. CASE RecvFromServer(d) /\ Head(down[d]) = AgentOpen(j)
    <3>1. down[d] # <<>> /\ down'[d] = Tail(down[d])
      BY <1>1, <2>1, Received
    <3>2. Head(down[d]).id = j
      BY <2>1, OpenParts, Zenon
    <3>3. ~Carried(Tail(down[d]), AgentOpen(j))
      BY <1>2, <1>4, <3>1, <3>2, OpenFirstTail
    <3> QED
      BY <1>8, <3>1, <3>3, Zenon
  <2>2. CASE Seen(d, j)
    <3>1. PICK p \in Programs : Open(p) /\ j = id[p]
      BY <1>2, <1>5, <1>8, <2>2, Zenon
    <3> QED
      BY <2>2, <3>1, OpenUnknown, KnownSeen, Zenon
  <2> QED
    BY <1>1, <1>8, <2>1, <2>2, SeenGrows, Zenon
<1>9. ASSUME NEW p \in Programs, id'[p] = j, Carried(down'[d], AgentOpen(j))
      PROVE  got'[p] = <<>> /\ write'[p] = <<>>
  <2>0. /\ got[p] \in Seq(Seq(Nat)) /\ write[p] \in Seq(Seq(Nat))
        /\ got \in [Programs -> Seq(Seq(Nat))] /\ write \in [Programs -> Seq(Seq(Nat))]
    BY <1>1, TypesAre, Zenon
  <2>1. ASSUME NEW q \in Programs, Open(q), j = id[q]
        PROVE  got'[p] = <<>> /\ write'[p] = <<>>
    <3>1. p = q
      BY <1>9, <2>1, IdBefore, Zenon
    <3>2. Returned(p) <= 0
      <4>1. Returned(p) <= asked[p]
        BY Zenon DEF AgentInvariant, AnswerInv
      <4>2. asked[p] = 0
        BY <2>1, <3>1, OpenUnknown, Zenon
      <4> QED
        BY <4>1, <4>2
    <3>3. got[p] = <<>> /\ write[p] = <<>>
      BY <2>0, <3>2 DEF Returned
    <3>4. UNCHANGED <<got, write>>
      BY <2>1, Zenon DEF Open
    <3> QED
      BY <3>3, <3>4, Zenon
  <2>2. CASE Carried(down[d], AgentOpen(j))
    <3>1. Known(d, j)
      BY <2>2, KnownSeen, Zenon
    <3>2. PICK q \in Programs : id[q] = j
      BY <3>1, Zenon DEF AgentInvariant, OwnerInv
    <3>3. id[p] = j
      BY <1>9, <3>2, IdBefore, Zenon
    <3>4. got[p] = <<>> /\ write[p] = <<>>
      BY <1>3, <2>2, <3>3, Zenon
    <3>5. ASSUME NEW c \in Channels, RecvFromClient(c)
          PROVE  got'[p] = <<>> /\ write'[p] = <<>>
      <4>1. ASSUME Head(up[c]).type = "AgentData", streams[Head(up[c]).id] = p
            PROVE  FALSE
        <5>1. About(up[c], j) /\ opened_on[p] = c
          BY <3>3, <3>5, <4>1, WrittenFor, Zenon
        <5>2. opened_on[p] = d
          BY <3>1, <3>3, KnownOwner, Zenon
        <5> QED
          BY <1>2, <2>2, <5>1, <5>2, Zenon DEF Seen
      <4>2. write'[p] = write[p]
        BY <1>1, <3>5, <4>1, ReceivedUp
      <4> QED
        BY <3>4, <3>5, <4>2, Zenon DEF RecvFromClient
    <3>6. ASSUME NEW r \in Programs, WriteProgram(r)
          PROVE  got'[p] = <<>> /\ write'[p] = <<>>
      BY <2>0, <3>4, <3>6, Zenon DEF WriteProgram
    <3>7. ASSUME NEW r \in Programs, Finish(r)
          PROVE  got'[p] = <<>> /\ write'[p] = <<>>
      BY <2>0, <3>4, <3>7, Zenon DEF Finish
    <3>8. CASE UNCHANGED <<got, write>>
      BY <3>4, <3>8, Zenon
    <3> QED
      BY <3>5, <3>6, <3>7, <3>8, WriteMoves, Zenon
  <2> QED
    BY <1>5, <1>9, <2>1, <2>2, Zenon
<1>10. ASSUME NEW p \in Programs, id'[p] = j, Carried(down'[d], AgentClose(j))
       PROVE  prog'[p] = "done"
  <2>0. prog \in [Programs -> Stages]
    BY <1>1, TypesAre, Zenon
  <2>1. ASSUME NEW q \in Programs, Finish(q), j = id[q]
        PROVE  prog'[p] = "done"
    <3>1. p = q
      BY <1>10, <2>1, IdBefore, Zenon
    <3> QED
      BY <2>0, <2>1, <3>1, Zenon DEF Finish, RelayGoto
  <2>2. CASE Carried(down[d], AgentClose(j))
    <3>1. About(down[d], AgentClose(j).id)
      BY <2>2, CarriedAbout, Zenon
    <3>2. About(down[d], j)
      BY <3>1, CloseParts, Zenon
    <3>3. PICK q \in Programs : id[q] = j
      BY <3>2, Zenon DEF AgentInvariant, OwnerInv
    <3>4. prog[p] = "done"
      BY <1>3, <1>10, <2>2, <3>3, IdBefore, Zenon
    <3>5. ASSUME NEW r \in Programs, NEW w \in Stages, RelayGoto(r, w), <<prog[r], w>> \in Moves
          PROVE  prog'[p] = "done"
      <4>1. r # p
        BY <3>4, <3>5, Zenon DEF Moves
      <4> QED
        BY <2>0, <3>4, <3>5, <4>1, Zenon DEF RelayGoto
    <3>6. ASSUME NEW r \in Programs, Register(r)
          PROVE  prog'[p] = "done"
      BY <2>0, <3>4, <3>6, Zenon DEF Register, RelayGoto
    <3> QED
      BY <1>1, <3>4, <3>5, <3>6, ProgramMoves, Zenon
  <2> QED
    BY <1>6, <1>10, <2>1, <2>2, Zenon
<1> QED
  BY <1>7, <1>8, <1>9, <1>10, Zenon

\* The steps that change which streams the clients have.
LEMMA StreamMoves ==
  ASSUME [Next]_vars
  PROVE  \/ cstreams' = cstreams
         \/ \E c \in Channels : RecvFromServer(c) \/ LeaveChannel(c)
<1> USE DEF hubVars, wireVars, clientVars, agentVars
<1>1. ASSUME NEW p \in Programs,
             \/ Accept(p) \/ NoChannel(p) \/ Register(p) \/ Open(p) \/ ReadProgram(p)
             \/ WriteProgram(p) \/ Finish(p) \/ \E b \in BOOLEAN : LeaveRelay(p, b)
      PROVE  cstreams' = cstreams
  BY <1>1, Zenon DEF Accept, NoChannel, Register, Open, ReadProgram, WriteProgram, Finish,
                     LeaveRelay
<1>2. ASSUME NEW c \in Channels, NEW i \in Ids,
             \/ Dial(c, i) \/ AgentLost(c, i) \/ WriteAgent(c, i)
             \/ ReadAgent(c, i) \/ AgentStreamClosed(c, i)
      PROVE  cstreams' = cstreams
  BY <1>2, Zenon DEF Dial, AgentLost, WriteAgent, ReadAgent, AgentStreamClosed
<1>3. ASSUME NEW c \in Channels,
             \/ OpenChannel(c) \/ Attach(c) \/ Deny(c) \/ RecvFromClient(c) \/ EndChannel(c)
             \/ Detach(c)
      PROVE  cstreams' = cstreams
  BY <1>3, Zenon DEF OpenChannel, Attach, Deny, RecvFromClient, EndChannel, Detach
<1>4. ASSUME UNCHANGED vars
      PROVE  cstreams' = cstreams
  BY <1>4, Zenon DEF vars
<1> QED
  BY <1>1, <1>2, <1>3, <1>4, Zenon DEF Next

LEMMA StreamGrows ==
  ASSUME Types, [Next]_vars, NEW d \in Channels, NEW j \in Ids, j \in cstreams'[d],
         j \notin cstreams[d]
  PROVE  Carried(down[d], AgentOpen(j))
<1>1. cstreams \in [Channels -> SUBSET Ids]
  BY TypesAre, Zenon
<1>2. ASSUME NEW c \in Channels, RecvFromServer(c)
      PROVE  Carried(down[d], AgentOpen(j))
  <2> DEFINE m == Head(down[c])
  <2>1. m \in Messages /\ d = c /\ j = m.id /\ m.type = "AgentOpen"
    BY <1>2, Received
  <2>2. Carried(down[c], m)
    BY <1>2, PoppedDown, Zenon
  <2> HIDE DEF m
  <2>3. m = AgentOpen(j)
    BY <2>1, MessageForm
  <2> QED
    BY <2>1, <2>2, <2>3, Zenon
<1>3. ASSUME NEW c \in Channels, LeaveChannel(c)
      PROVE  FALSE
  BY <1>1, <1>3, Zenon DEF LeaveChannel
<1>4. CASE cstreams' = cstreams
  BY <1>4, Zenon
<1> QED
  BY <1>2, <1>3, <1>4, StreamMoves, Zenon

\* The hub's channel after a step, unless it was attached by it.
LEMMA ChannelBefore ==
  ASSUME AgentInvariant, [Next]_vars, channel' # None, srv'[channel'] = "attached"
  PROVE  \/ /\ channel' = channel /\ channel \in Channels /\ srv[channel] = "attached"
         \/ /\ channel' \in Channels /\ Attach(channel') /\ down'[channel'] = <<>>
            /\ cstreams'[channel'] = {} /\ srv[channel'] = "none"
<1>1. Types /\ ChannelInv
  BY Zenon DEF AgentInvariant, Types
<1>2. Current /\ srv \in [Channels -> {"none", "attached", "ended", "closed"}]
  BY <1>1, TypesAre, Zenon
<1>3. channel # None => channel \in Channels
  BY <1>2, Zenon DEF Current
<1>4. CASE UNCHANGED <<channel, newest, srv, cli>>
  BY <1>3, <1>4, Zenon
<1>5. ASSUME NEW c \in Channels, Attach(c)
      PROVE  /\ channel' = c /\ down'[c] = <<>> /\ cstreams'[c] = {} /\ srv[c] = "none"
  BY <1>1, <1>5, Zenon DEF Attach, ChannelInv, wireVars, clientVars
<1>6. ASSUME NEW c \in Channels, NEW w, w # "attached", srv' = [srv EXCEPT ![c] = w],
             channel' = channel
      PROVE  channel' = channel /\ channel \in Channels /\ srv[channel] = "attached"
  BY <1>2, <1>3, <1>6, Zenon
<1>7. ASSUME NEW c \in Channels, Deny(c) \/ EndChannel(c)
      PROVE  channel' = channel /\ channel \in Channels /\ srv[channel] = "attached"
  BY <1>6, <1>7, Zenon DEF Deny, EndChannel, hubVars
<1>8. ASSUME NEW c \in Channels, Detach(c)
      PROVE  channel' = channel /\ channel \in Channels /\ srv[channel] = "attached"
  BY <1>6, <1>8, Zenon DEF Detach, Forget
<1>9. ASSUME NEW c \in Channels, OpenChannel(c) \/ LeaveChannel(c)
      PROVE  channel' = channel /\ channel \in Channels /\ srv[channel] = "attached"
  BY <1>3, <1>9, Zenon DEF OpenChannel, LeaveChannel, hubVars
<1> QED
  BY <1>3, <1>4, <1>5, <1>7, <1>8, <1>9, ChannelMoves, Zenon

\* How a connection that is relayed goes on.
LEMMA RelayedAfter ==
  ASSUME AgentInvariant, [Next]_vars, NEW p \in Programs, prog[p] \in {"relay", "closing"}
  PROVE  id'[p] = id[p] /\ (prog'[p] \in {"relay", "closing"} \/ Finish(p))
<1> USE DEF hubVars, wireVars, clientVars, agentVars
<1>1. Types /\ OpenedInv
  BY Zenon DEF AgentInvariant, Types
<1>2. prog \in [Programs -> Stages]
  BY <1>1, TypesAre, Zenon
<1>3. id'[p] = id[p]
  BY <1>1, OwnersKept, Zenon DEF OpenedInv
<1>4. ASSUME NEW r \in Programs, r # p, NEW w, RelayGoto(r, w)
      PROVE  prog'[p] = prog[p]
  BY <1>2, <1>4, Zenon DEF RelayGoto
<1>5. ASSUME NEW r \in Programs, Accept(r) \/ NoChannel(r) \/ Register(r) \/ Open(r)
      PROVE  prog'[p] = prog[p]
  BY <1>4, <1>5, Zenon DEF Accept, NoChannel, Register, Open
<1>6. ASSUME NEW r \in Programs, ReadProgram(r) \/ \E b \in BOOLEAN : LeaveRelay(r, b)
      PROVE  prog'[p] \in {"relay", "closing"}
  BY <1>2, <1>6, Zenon DEF ReadProgram, LeaveRelay, RelayGoto
<1>7. ASSUME NEW r \in Programs, Finish(r)
      PROVE  prog'[p] = prog[p] \/ r = p
  BY <1>4, <1>7, Zenon DEF Finish
<1>8. ASSUME NEW r \in Programs, WriteProgram(r)
      PROVE  prog'[p] = prog[p]
  BY <1>8, Zenon DEF WriteProgram
<1>9. ASSUME NEW c \in Channels,
             \/ OpenChannel(c) \/ Attach(c) \/ Deny(c) \/ RecvFromClient(c) \/ EndChannel(c)
             \/ Detach(c) \/ RecvFromServer(c) \/ LeaveChannel(c)
      PROVE  prog'[p] = prog[p]
  BY <1>9, Zenon DEF OpenChannel, Attach, Deny, RecvFromClient, EndChannel, Detach,
                     RecvFromServer, LeaveChannel
<1>10. ASSUME NEW c \in Channels, NEW i \in Ids,
              \/ Dial(c, i) \/ AgentLost(c, i) \/ WriteAgent(c, i)
              \/ ReadAgent(c, i) \/ AgentStreamClosed(c, i)
       PROVE  prog'[p] = prog[p]
  BY <1>10, Zenon DEF Dial, AgentLost, WriteAgent, ReadAgent, AgentStreamClosed
<1>11. CASE UNCHANGED vars
  BY <1>11, Zenon DEF vars
<1>12. prog'[p] \in {"relay", "closing"} \/ Finish(p)
  BY <1>5, <1>6, <1>7, <1>8, <1>9, <1>10, <1>11, Zenon DEF Next
<1> QED
  BY <1>3, <1>12

LEMMA LeakStep ==
  ASSUME AgentInvariant, [Next]_vars
  PROVE  LeakInv'
<1>1. Types /\ IdInv /\ LeakInv /\ ChannelInv
  BY Zenon DEF AgentInvariant, Types
<1> SUFFICES ASSUME channel' # None, srv'[channel'] = "attached", NEW i \in Ids,
                    i \in cstreams'[channel'] \/ Carried(down'[channel'], AgentOpen(i))
             PROVE  \/ \E p \in Programs : id'[p] = i /\ prog'[p] \in {"relay", "closing"}
                    \/ Carried(down'[channel'], AgentClose(i))
  BY Zenon DEF LeakInv, AgentOpen, AgentClose
<1>2. CASE down'[channel'] = <<>> /\ cstreams'[channel'] = {}
  BY <1>2, EmptyQueue, Zenon
<1>3. ASSUME NEW d \in Channels, d = channel, d = channel', srv[d] = "attached"
      PROVE  \/ \E p \in Programs : id'[p] = i /\ prog'[p] \in {"relay", "closing"}
             \/ Carried(down'[d], AgentClose(i))
  <2>0. d # None
    BY NotNone, Zenon
  <2>1. ASSUME NEW p \in Programs, Open(p), i = id[p]
        PROVE  id'[p] = i /\ prog'[p] \in {"relay", "closing"}
    <3>1. prog \in [Programs -> Stages]
      BY <1>1, TypesAre, Zenon
    <3> QED
      BY <1>3, <2>0, <2>1, <3>1, Zenon DEF Open, RelayGoto
  <2>2. CASE i \in cstreams[d] \/ Carried(down[d], AgentOpen(i))
    <3>1. \/ \E p \in Programs : id[p] = i /\ prog[p] \in {"relay", "closing"}
          \/ Carried(down[d], AgentClose(i))
      BY <1>1, <1>3, <2>0, <2>2, Zenon DEF LeakInv
    <3>2. ASSUME NEW p \in Programs, id[p] = i, prog[p] \in {"relay", "closing"}
          PROVE  \/ id'[p] = i /\ prog'[p] \in {"relay", "closing"}
                 \/ Carried(down'[d], AgentClose(i))
      <4>1. CASE Finish(p)
        <5>1. AgentClose(i) \in Messages /\ SendToChannel(AgentClose(i))
          BY <1>1, <3>2, <4>1, CloseSent, Zenon
        <5>2. cli[d] = "relay"
          BY <1>1, <2>2, EmptyQueue, Zenon DEF ChannelInv
        <5>3. down[d] \in Seq(Messages) /\ down'[d] = Append(down[d], AgentClose(i))
          BY <1>1, <1>3, <5>1, <5>2, QueuedDown, Zenon
        <5> QED
          BY <5>1, <5>3, CarriedAppend
      <4> QED
        BY <3>2, <4>1, RelayedAfter, Zenon
    <3>3. ASSUME Carried(down[d], AgentClose(i))
          PROVE  Carried(down'[d], AgentClose(i))
      <4>1. CASE RecvFromServer(d) /\ AgentClose(i) = Head(down[d])
        <5>1. /\ down[d] \in Seq(Messages) /\ down[d] # <<>> /\ down'[d] = Tail(down[d])
              /\ i \notin cstreams'[d]
          <6>1. Head(down[d]).id = i /\ Head(down[d]).type = "AgentClose"
            BY <4>1, CloseParts, Zenon
          <6> QED
            BY <1>1, <4>1, <6>1, Received
        <5>2. ~Carried(Tail(down[d]), AgentOpen(i))
          <6>1. OpenFirst(down[d], i)
            BY Zenon DEF AgentInvariant, FirstInv
          <6>2. Head(down[d]).id = i
            BY <4>1, CloseParts, Zenon
          <6> QED
            BY <5>1, <6>1, <6>2, OpenFirstTail
        <5> QED
          BY <1>3, <5>1, <5>2, Zenon
      <4>2. CASE LeaveChannel(d)
        <5>1. down'[d] = <<>> /\ cstreams'[d] = {}
          BY <1>1, <4>2, TypesAre, Zenon DEF LeaveChannel
        <5> QED
          BY <1>3, <5>1, EmptyQueue, Zenon
      <4> QED
        BY <1>1, <3>3, <4>1, <4>2, CarriedKept, Zenon
    <3> QED
      BY <3>1, <3>2, <3>3, Zenon
  <2>3. ASSUME ~(i \in cstreams[d] \/ Carried(down[d], AgentOpen(i)))
        PROVE  \E p \in Programs : Open(p) /\ i = id[p]
    <3>1. CASE Carried(down'[d], AgentOpen(i))
      BY <1>1, <2>3, <3>1, OpenGrows, Zenon
    <3>2. CASE i \in cstreams'[d]
      BY <1>1, <2>3, <3>2, StreamGrows, Zenon
    <3> QED
      BY <1>3, <3>1, <3>2
  <2> QED
    BY <2>1, <2>2, <2>3, Zenon
<1> QED
  BY <1>2, <1>3, ChannelBefore, Zenon

-----------------------------------------------------------------------------
(* A connection that has been announced                                     *)

\* p's connection was announced on c as i.
Owns(p, c, i) == c \in Channels /\ i \in Ids /\ opened_on[p] = c /\ id[p] = i

LEMMA OwnsFacts ==
  ASSUME AgentInvariant, NEW p \in Programs, opened_on[p] # None
  PROVE  Owns(p, opened_on[p], id[p])
<1>1. Types /\ IdInv /\ OpenedInv
  BY Zenon DEF AgentInvariant, Types
<1>2. opened_on[p] \in Channels
  BY <1>1, TypesAre, Zenon
<1>3. prog[p] \in {"relay", "closing", "done"}
  BY <1>1, Zenon DEF OpenedInv
<1>4. id[p] \in Ids
  BY <1>1, <1>3, HasId, Zenon
<1> QED
  BY <1>2, <1>4, Zenon DEF Owns

LEMMA OpenedBefore ==
  ASSUME AgentInvariant, [Next]_vars, NEW p \in Programs, opened_on'[p] # None, opened_on[p] = None
  PROVE  Open(p) /\ opened_on'[p] = channel /\ channel \in Channels
<1> USE DEF hubVars, wireVars, clientVars, agentVars
<1>1. Types
  BY Zenon DEF AgentInvariant, Types
<1>2. opened_on \in [Programs -> Channels \cup {None}] /\ Current
  BY <1>1, TypesAre, Zenon
<1>3. ASSUME NEW r \in Programs, Open(r)
      PROVE  r = p /\ opened_on'[p] = channel /\ channel \in Channels
  BY <1>2, <1>3, Zenon DEF Open, Current
<1>4. ASSUME NEW r \in Programs,
             \/ Accept(r) \/ NoChannel(r) \/ Register(r) \/ ReadProgram(r)
             \/ WriteProgram(r) \/ Finish(r) \/ \E b \in BOOLEAN : LeaveRelay(r, b)
      PROVE  FALSE
  BY <1>4, Zenon DEF Accept, NoChannel, Register, ReadProgram, WriteProgram, Finish, LeaveRelay
<1>5. ASSUME NEW c \in Channels,
             \/ OpenChannel(c) \/ Attach(c) \/ Deny(c) \/ RecvFromClient(c) \/ EndChannel(c)
             \/ Detach(c) \/ RecvFromServer(c) \/ LeaveChannel(c)
      PROVE  FALSE
  BY <1>5, Zenon DEF OpenChannel, Attach, Deny, RecvFromClient, EndChannel, Detach,
                     RecvFromServer, LeaveChannel
<1>6. ASSUME NEW c \in Channels, NEW i \in Ids,
             \/ Dial(c, i) \/ AgentLost(c, i) \/ WriteAgent(c, i)
             \/ ReadAgent(c, i) \/ AgentStreamClosed(c, i)
      PROVE  FALSE
  BY <1>6, Zenon DEF Dial, AgentLost, WriteAgent, ReadAgent, AgentStreamClosed
<1>7. CASE UNCHANGED vars
  BY <1>7, Zenon DEF vars
<1> QED
  BY <1>3, <1>4, <1>5, <1>6, <1>7, Zenon DEF Next

LEMMA RelayBefore ==
  ASSUME AgentInvariant, [Next]_vars, NEW p \in Programs, opened_on[p] # None, prog'[p] = "relay"
  PROVE  prog[p] = "relay"
<1>1. Types /\ OpenedInv
  BY Zenon DEF AgentInvariant, Types
<1>2. prog \in [Programs -> Stages] /\ prog[p] \in {"relay", "closing", "done"}
  BY <1>1, TypesAre, Zenon DEF OpenedInv
<1>3. ASSUME NEW r \in Programs, NEW w \in Stages, RelayGoto(r, w), <<prog[r], w>> \in Moves
      PROVE  prog[p] = "relay"
  BY <1>2, <1>3, Zenon DEF RelayGoto, Moves
<1>4. ASSUME NEW r \in Programs, Register(r)
      PROVE  prog[p] = "relay"
  BY <1>2, <1>4, Zenon DEF Register, RelayGoto
<1> QED
  BY <1>1, <1>3, <1>4, ProgramMoves, Zenon

\* A link that is up was up before, if a connection was announced on it.
LEMMA LinkBefore ==
  ASSUME AgentInvariant, [Next]_vars, NEW c \in Channels, srv[c] # "none",
         srv'[c] = "attached", cli'[c] = "relay"
  PROVE  srv[c] = "attached" /\ cli[c] = "relay"
<1>1. Types /\ ChannelInv
  BY Zenon DEF AgentInvariant, Types
<1>2. /\ srv \in [Channels -> {"none", "attached", "ended", "closed"}]
      /\ cli \in [Channels -> {"none", "relay", "gone"}] /\ cli[c] # "none"
  BY <1>1, TypesAre, Zenon DEF ChannelInv
<1>3. ASSUME NEW d \in Channels,
             \/ OpenChannel(d) \/ Attach(d) \/ Deny(d) \/ EndChannel(d)
             \/ Detach(d) \/ LeaveChannel(d)
      PROVE  srv[c] = "attached" /\ cli[c] = "relay"
  <2>1. CASE OpenChannel(d)
    BY <1>2, <2>1, Zenon DEF OpenChannel
  <2>2. CASE Attach(d)
    BY <1>2, <2>2, Zenon DEF Attach, clientVars
  <2>3. CASE Deny(d) \/ EndChannel(d)
    BY <1>2, <2>3, Zenon DEF Deny, EndChannel, clientVars
  <2>4. CASE Detach(d)
    BY <1>2, <2>4, Zenon DEF Detach, clientVars
  <2>5. CASE LeaveChannel(d)
    BY <1>2, <2>5, Zenon DEF LeaveChannel
  <2> QED
    BY <1>3, <2>1, <2>2, <2>3, <2>4, <2>5, Zenon
<1>4. CASE UNCHANGED <<channel, newest, srv, cli>>
  BY <1>4, Zenon
<1> QED
  BY <1>3, <1>4, ChannelMoves, Zenon

LEMMA ServedBefore ==
  ASSUME AgentInvariant, [Next]_vars, NEW p \in Programs, NEW c, NEW i, Owns(p, c, i), Served(p)'
  PROVE  /\ Served(p) /\ channel = c /\ channel' = c
         /\ srv[c] = "attached" /\ cli[c] = "relay" /\ srv'[c] = "attached" /\ cli'[c] = "relay"
<1>1. c \in Channels /\ opened_on[p] = c /\ c # None
  BY NotNone, Zenon DEF Owns
<1>2. channel' = opened_on'[p] /\ channel' # None /\ srv'[channel'] = "attached" /\ cli'[channel'] = "relay"
  BY Zenon DEF Served
<1>3. channel' = c
  BY <1>1, <1>2, OwnersKept, Zenon
<1>4. srv[c] # "none"
  BY <1>1, Zenon DEF AgentInvariant, OpenedInv
<1>5. srv[c] = "attached" /\ cli[c] = "relay"
  BY <1>1, <1>2, <1>3, <1>4, LinkBefore, Zenon
<1>6. channel = c
  BY <1>2, <1>3, <1>4, ChannelBefore, Zenon
<1> QED
  BY <1>1, <1>2, <1>3, <1>5, <1>6, Zenon DEF Served

LEMMA StreamBefore ==
  ASSUME AgentInvariant, [Next]_vars, NEW p \in Programs, NEW c, NEW i, Owns(p, c, i),
         streams'[i] = p
  PROVE  streams[i] = p
<1> USE DEF hubVars
<1>1. Types /\ IdInv
  BY Zenon DEF AgentInvariant, Types
<1>2. /\ streams \in [Ids -> Programs \cup {None}] /\ None \notin Programs /\ i \in Ids /\ id[p] = i
      /\ c \in Channels /\ opened_on[p] = c /\ None \notin Channels
  BY <1>1, TypesAre, NotNone, Zenon DEF Owns
<1>3. ASSUME NEW r \in Programs, Register(r)
      PROVE  streams[i] = p
  <2>1. r # p
    BY <1>2, <1>3, Zenon DEF Register, AgentInvariant, OpenedInv
  <2> QED
    BY <1>2, <1>3, <2>1, Zenon DEF Register
<1>4. ASSUME NEW r \in Programs, Open(r)
      PROVE  streams[i] = p
  BY <1>2, <1>4, Zenon DEF Open, Announced
<1>5. ASSUME NEW r \in Programs, Finish(r)
      PROVE  streams[i] = p
  BY <1>2, <1>5, Zenon DEF Finish
<1>6. ASSUME NEW d \in Channels, RecvFromClient(d)
      PROVE  streams[i] = p
  BY <1>2, <1>6, Zenon DEF RecvFromClient
<1>7. CASE UNCHANGED streams
  BY <1>7
<1>8. ASSUME NEW r \in Programs,
             \/ Accept(r) \/ NoChannel(r) \/ ReadProgram(r) \/ WriteProgram(r)
             \/ \E b \in BOOLEAN : LeaveRelay(r, b)
      PROVE  UNCHANGED streams
  BY <1>8, Zenon DEF Accept, NoChannel, ReadProgram, WriteProgram, LeaveRelay
<1>9. ASSUME NEW d \in Channels,
             \/ OpenChannel(d) \/ Attach(d) \/ Deny(d) \/ EndChannel(d)
             \/ Detach(d) \/ RecvFromServer(d) \/ LeaveChannel(d)
      PROVE  UNCHANGED streams
  BY <1>9, Zenon DEF OpenChannel, Attach, Deny, EndChannel, Detach, RecvFromServer, LeaveChannel
<1>10. ASSUME NEW d \in Channels, NEW j \in Ids,
              \/ Dial(d, j) \/ AgentLost(d, j) \/ WriteAgent(d, j)
              \/ ReadAgent(d, j) \/ AgentStreamClosed(d, j)
       PROVE  UNCHANGED streams
  BY <1>10, Zenon DEF Dial, AgentLost, WriteAgent, ReadAgent, AgentStreamClosed
<1>11. CASE UNCHANGED vars
  BY <1>11, Zenon DEF vars
<1> QED
  BY <1>3, <1>4, <1>5, <1>6, <1>7, <1>8, <1>9, <1>10, <1>11, Zenon DEF Next

LEMMA DialedGrows ==
  ASSUME Types, [Next]_vars, NEW d \in Channels, NEW j \in Ids, dialed'[d][j] # "none",
         dialed[d][j] = "none"
  PROVE  RecvFromServer(d) /\ Head(down[d]) = AgentOpen(j)
<1>1. CASE UNCHANGED <<dialed, cwrite, agent_got, replied>>
  BY <1>1, Zenon
<1>2. ASSUME NEW c \in Channels, RecvFromServer(c)
      PROVE  d = c /\ Head(down[d]) = AgentOpen(j)
  <2> DEFINE m == Head(down[c])
  <2>1. m \in Messages /\ d = c /\ j = m.id /\ m.type = "AgentOpen"
    BY <1>2, Received
  <2>2. d = c => m = Head(down[d])
    OBVIOUS
  <2> HIDE DEF m
  <2>3. m = AgentOpen(j)
    BY <2>1, MessageForm
  <2> QED
    BY <2>1, <2>2, <2>3, Zenon
<1>3. ASSUME NEW c \in Channels, NEW i \in Ids, EndStream(c, i)
      PROVE  FALSE
  BY <1>3, Ended
<1>4. ASSUME NEW c \in Channels, NEW i \in Ids, Dial(c, i)
      PROVE  FALSE
  <2>1. dialed[c][i] = "dial"
    BY <1>4, Zenon DEF Dial
  <2> QED
    BY <1>4, <2>1, Dialed
<1>5. ASSUME NEW c \in Channels, NEW i \in Ids,
             \/ AgentLost(c, i) \/ WriteAgent(c, i) \/ ReadAgent(c, i) \/ AgentStreamClosed(c, i)
      PROVE  FALSE
  BY <1>3, <1>5, Zenon DEF AgentLost, WriteAgent, ReadAgent, AgentStreamClosed
<1> QED
  BY <1>1, <1>2, <1>4, <1>5, TaskMoves, Zenon

LEMMA LiveBefore ==
  ASSUME AgentInvariant, [Next]_vars, NEW p \in Programs, NEW c, NEW i, Owns(p, c, i), Live(c, i)'
  PROVE  Live(c, i)
<1>1. Types /\ IdInv
  BY Zenon DEF AgentInvariant, Types
<1>2. c \in Channels /\ i \in Ids /\ opened_on[p] = c /\ id[p] = i /\ None \notin Channels
      /\ None \notin Ids
  BY NotNone, Zenon DEF Owns
<1>3. CASE Carried(down'[c], AgentOpen(i))
  <2>1. ASSUME NEW r \in Programs, Open(r), id[r] = i
        PROVE  FALSE
    <3>1. r = p
      BY <1>1, <1>2, <2>1, Zenon DEF IdInv
    <3> QED
      BY <1>2, <2>1, <3>1, OpenUnknown, Zenon
  <2>2. Carried(down[c], AgentOpen(i))
    BY <1>1, <1>2, <1>3, <2>1, OpenGrows, Zenon
  <2> QED
    BY <2>2, Zenon DEF Live
<1>4. CASE i \in cstreams'[c] /\ dialed'[c][i] # "none"
  <2>1. Carried(down[c], AgentOpen(i)) \/ i \in cstreams[c]
    BY <1>1, <1>2, <1>4, StreamGrows, Zenon
  <2>2. Carried(down[c], AgentOpen(i)) \/ dialed[c][i] # "none"
    <3>1. RecvFromServer(c) => Carried(down[c], Head(down[c]))
      BY <1>1, <1>2, PoppedDown, Zenon
    <3> QED
      BY <1>1, <1>2, <1>4, <3>1, DialedGrows, Zenon
  <2> QED
    BY <2>1, <2>2, Zenon DEF Live
<1>5. Carried(down'[c], AgentOpen(i)) \/ (i \in cstreams'[c] /\ dialed'[c][i] # "none")
  BY Zenon DEF Live, AgentOpen
<1> QED
  BY <1>3, <1>4, <1>5

\* A program writes one chunk at a time.
LEMMA AskedMoves ==
  ASSUME AgentInvariant, [Next]_vars, NEW p \in Programs
  PROVE  /\ asked[p] \in Nat
         /\ asked'[p] = asked[p] \/ (ReadProgram(p) /\ asked'[p] = asked[p] + 1)
<1> USE DEF hubVars, wireVars, clientVars, agentVars
<1>1. asked \in [Programs -> Nat]
  BY TypesAre, Zenon DEF AgentInvariant, Types
<1>2. ASSUME NEW r \in Programs, ReadProgram(r)
      PROVE  asked'[p] = asked[p] \/ (r = p /\ asked'[p] = asked[p] + 1)
  BY <1>1, <1>2, Zenon DEF ReadProgram
<1>3. ASSUME NEW r \in Programs,
             \/ Accept(r) \/ NoChannel(r) \/ Register(r) \/ Open(r)
             \/ WriteProgram(r) \/ Finish(r) \/ \E b \in BOOLEAN : LeaveRelay(r, b)
      PROVE  asked' = asked
  BY <1>3, Zenon DEF Accept, NoChannel, Register, Open, WriteProgram, Finish, LeaveRelay
<1>4. ASSUME NEW c \in Channels,
             \/ OpenChannel(c) \/ Attach(c) \/ Deny(c) \/ RecvFromClient(c) \/ EndChannel(c)
             \/ Detach(c) \/ RecvFromServer(c) \/ LeaveChannel(c)
      PROVE  asked' = asked
  BY <1>4, Zenon DEF OpenChannel, Attach, Deny, RecvFromClient, EndChannel, Detach,
                     RecvFromServer, LeaveChannel
<1>5. ASSUME NEW c \in Channels, NEW i \in Ids,
             \/ Dial(c, i) \/ AgentLost(c, i) \/ WriteAgent(c, i)
             \/ ReadAgent(c, i) \/ AgentStreamClosed(c, i)
      PROVE  asked' = asked
  BY <1>5, Zenon DEF Dial, AgentLost, WriteAgent, ReadAgent, AgentStreamClosed
<1>6. ASSUME UNCHANGED vars
      PROVE  asked' = asked
  BY <1>6, Zenon DEF vars
<1>7. asked' = asked \/ \E r \in Programs : ReadProgram(r)
  BY <1>3, <1>4, <1>5, <1>6, Zenon DEF Next
<1> QED
  BY <1>1, <1>2, <1>7, Zenon
=============================================================================
