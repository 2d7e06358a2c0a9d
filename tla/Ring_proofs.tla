---------------------------- MODULE Ring_proofs ----------------------------
(***************************************************************************)
(* Proofs about Ring, for every capacity, packet set and bound.            *)
(***************************************************************************)
EXTENDS Ring, SequenceTheorems, TLAPS

\* One step or one lap past the end of the array wraps to its start.
LEMMA Wrap ==
    ASSUME NEW c \in Nat \ {0}, NEW x \in Nat, x < c + c
    PROVE  x % c = IF x < c THEN x ELSE x - c
BY SMT

\* An index at most one lap past the end of the array, folded back into it.
Lap(x) == IF x < capacity THEN x ELSE x - capacity

LEMMA LapIsMod ==
    ASSUME capacity \in Nat \ {0}
    PROVE  \A i \in 0 .. capacity - 1, j \in 0 .. capacity :
               (i + j) % capacity = Lap(i + j)
<1> SUFFICES ASSUME NEW i \in 0 .. capacity - 1, NEW j \in 0 .. capacity
             PROVE  (i + j) % capacity = Lap(i + j)
  OBVIOUS
<1>1. i + j \in Nat /\ i + j < capacity + capacity
  OBVIOUS
<1>2. QED BY <1>1, Wrap DEF Lap

\* The inductive invariant: while there is no ring nothing is counted, and
\* then the head is where the properties need it.
Empty == capacity = 0 => /\ head = 0 /\ tail = 0 /\ count = 0
                         /\ pushed = 0 /\ popped = 0 /\ dropped = 0
                         /\ peeked = NoPeek

IInv == TypeOK /\ Empty /\ IndicesAgree /\ Conservation /\ PeekStable

\* While there is a ring, all indices are inside it.
LEMMA Indices ==
    ASSUME IInv, capacity > 0
    PROVE  /\ capacity \in Nat \ {0}
           /\ head \in 0 .. capacity - 1 /\ tail \in 0 .. capacity - 1
           /\ count \in 0 .. capacity
           /\ head = Lap(tail + count)
<1>1. /\ capacity \in Nat \ {0} /\ tail \in 0 .. capacity - 1
      /\ count \in 0 .. capacity /\ head = (tail + count) % capacity
  BY DEF IInv, TypeOK, IndicesAgree
<1>2. head = Lap(tail + count)
  BY <1>1, LapIsMod
<1>3. head \in 0 .. capacity - 1
  BY <1>1, <1>2 DEF Lap
<1>4. QED BY <1>1, <1>2, <1>3

LEMMA InitIInv == Init => IInv
BY RingAssumption DEF Init, IInv, TypeOK, Empty, IndicesAgree, Conservation,
                      PeekStable, NoPeek, Gone

LEMMA StepIInv == IInv /\ [Next]_vars => IInv'
<1> SUFFICES ASSUME IInv, [Next]_vars PROVE IInv'
  OBVIOUS
<1> USE RingAssumption DEF IInv
<1>1. ASSUME NEW c \in Requests, Create(c) PROVE IInv'
  <2>1. capacity' \in Nat \ {0}
    BY <1>1 DEF Create
  <2>2. TypeOK'
    BY <1>1, <2>1 DEF Create, TypeOK, Empty
  <2>3. Empty' /\ IndicesAgree' /\ Conservation'
    BY <1>1, <2>1 DEF Create, TypeOK, Empty, IndicesAgree, Conservation
  <2>4. PeekStable'
    BY <1>1 DEF Create, Empty, PeekStable, NoPeek
  <2>5. QED BY <2>2, <2>3, <2>4
<1>2. CASE Destroy
  BY <1>2 DEF Destroy, TypeOK, Empty, IndicesAgree, Conservation, PeekStable, NoPeek
<1>3. ASSUME NEW p \in Packets, Push(p) PROVE IInv'
  <2>1. /\ capacity \in Nat \ {0} /\ capacity' = capacity
        /\ head \in 0 .. capacity - 1 /\ tail \in 0 .. capacity - 1
        /\ count \in 0 .. capacity
        /\ head = Lap(tail + count)
    BY <1>3, Indices DEF Push
  <2>2. head' = Lap(head + 1)
    BY <1>3, <2>1, LapIsMod DEF Push
  <2>3. CASE count = capacity
    <3>1. tail' = Lap(tail + 1) /\ count' = count /\ dropped' = dropped + 1
      BY <1>3, <2>1, <2>3, LapIsMod DEF Push, MakeRoom
    <3>2. TypeOK' /\ Empty' /\ Conservation'
      BY <1>3, <2>1, <2>2, <3>1 DEF Lap, Push, TypeOK, Empty, Conservation
    <3>3. IndicesAgree'
      <4>1. /\ tail' \in 0 .. capacity' - 1 /\ count' \in 0 .. capacity'
            /\ head' = Lap(tail' + count')
        BY <2>1, <2>2, <2>3, <3>1 DEF Lap
      <4>2. QED BY <2>1, <4>1, LapIsMod DEF IndicesAgree
    <3>4. PeekStable'
      BY <1>3, <2>1, <3>1 DEF Push, TypeOK, PeekStable, Gone, NoPeek
    <3>5. QED BY <3>2, <3>3, <3>4
  <2>4. CASE count # capacity
    <3>1. tail' = tail /\ count' = count + 1 /\ dropped' = dropped
      BY <1>3, <2>4 DEF Push, MakeRoom
    <3>2. TypeOK' /\ Empty' /\ Conservation'
      BY <1>3, <2>1, <2>2, <3>1 DEF Lap, Push, TypeOK, Empty, Conservation
    <3>3. IndicesAgree'
      <4>1. /\ tail' \in 0 .. capacity' - 1 /\ count' \in 0 .. capacity'
            /\ head' = Lap(tail' + count')
        BY <2>1, <2>2, <2>4, <3>1 DEF Lap
      <4>2. QED BY <2>1, <4>1, LapIsMod DEF IndicesAgree
    <3>4. count > 0 => head # tail
      BY <2>1, <2>4 DEF Lap
    <3>5. PeekStable'
      BY <1>3, <2>1, <3>1, <3>4 DEF Push, TypeOK, PeekStable, Gone, NoPeek
    <3>6. QED BY <3>2, <3>3, <3>5
  <2>5. QED BY <2>3, <2>4
<1>4. CASE Pop
  <2>1. /\ capacity \in Nat \ {0} /\ capacity' = capacity
        /\ head \in 0 .. capacity - 1 /\ tail \in 0 .. capacity - 1
        /\ count \in 1 .. capacity
        /\ head = Lap(tail + count)
    <3>1. capacity > 0
      BY <1>4 DEF Pop, Filled, TypeOK, IndicesAgree
    <3>2. QED BY <1>4, <3>1, Indices DEF Pop, Filled, TypeOK
  <2>2. tail' = Lap(tail + 1)
    BY <1>4, <2>1, LapIsMod DEF Pop, Filled
  <2>3. TypeOK' /\ Empty' /\ Conservation'
    BY <1>4, <2>1, <2>2 DEF Lap, Pop, Filled, TypeOK, Empty, Conservation
  <2>4. IndicesAgree'
    <3>1. /\ tail' \in 0 .. capacity' - 1 /\ count' \in 0 .. capacity'
          /\ head' = Lap(tail' + count')
      BY <1>4, <2>1, <2>2 DEF Lap, Pop, Filled
    <3>2. QED BY <2>1, <3>1, LapIsMod DEF IndicesAgree
  <2>5. PeekStable'
    BY <1>4 DEF Pop, Filled, TypeOK, PeekStable, Gone, NoPeek
  <2>6. QED BY <2>3, <2>4, <2>5
<1>5. CASE Peek
  <2>1. tail \in 0 .. capacity - 1
    BY <1>5 DEF Peek, Filled, TypeOK, IndicesAgree
  <2>2. TypeOK'
    BY <1>5, <2>1 DEF Peek, Filled, ring, TypeOK, Gone
  <2>3. Empty' /\ IndicesAgree' /\ Conservation'
    BY <1>5, <2>1 DEF Peek, Filled, ring, TypeOK, Empty, IndicesAgree, Conservation
  <2>4. PeekStable'
    BY <1>5 DEF Peek, Filled, ring, TypeOK, PeekStable, Gone
  <2>5. QED BY <2>2, <2>3, <2>4
<1>6. CASE UNCHANGED vars
  BY <1>6 DEF vars, ring, TypeOK, Empty, IndicesAgree, Conservation, PeekStable,
              Gone, NoPeek
<1>7. QED
  BY <1>1, <1>2, <1>3, <1>4, <1>5, <1>6 DEF Next

LEMMA Invariant == Spec => []IInv
BY InitIInv, StepIInv, PTL DEF Spec

\* Every variable keeps its type, for every capacity.
THEOREM TypeCorrect == Spec => []TypeOK
BY Invariant, PTL DEF IInv

\* The head, where ring_push writes, is count slots after the tail.
THEOREM IndicesAlwaysAgree == Spec => []IndicesAgree
BY Invariant, PTL DEF IInv

\* No packet is lost or counted twice.
THEOREM NothingLost == Spec => []Conservation
BY Invariant, PTL DEF IInv

\* A pointer from ring_peek shows its packet until that packet leaves.
THEOREM PeekIsStable == Spec => []PeekStable
BY Invariant, PTL DEF IInv

-----------------------------------------------------------------------------
\* The slot of the i-th packet from tail t, without the modulus.
LEMMA SlotAt ==
    ASSUME IInv, capacity > 0
    PROVE  \A t \in 0 .. capacity - 1, i \in 1 .. capacity :
               /\ (t + i - 1) % capacity = Lap(t + (i - 1))
               /\ Lap(t + (i - 1)) \in 0 .. capacity - 1
<1> SUFFICES ASSUME NEW t \in 0 .. capacity - 1, NEW i \in 1 .. capacity
             PROVE  /\ (t + i - 1) % capacity = Lap(t + (i - 1))
                    /\ Lap(t + (i - 1)) \in 0 .. capacity - 1
  OBVIOUS
<1>1. capacity \in Nat \ {0} /\ i - 1 \in 0 .. capacity /\ t + i - 1 = t + (i - 1)
  BY Indices
<1>2. QED BY <1>1, LapIsMod DEF Lap

\* What Queue holds, in terms of the array.
LEMMA QueueIs ==
    IInv => /\ Queue \in Seq(Packets \cup {NoPacket})
            /\ Len(Queue) = count
            /\ \A i \in 1 .. count : Queue[i] = entries[Lap(tail + (i - 1))]
<1> SUFFICES ASSUME IInv
             PROVE  /\ Queue \in Seq(Packets \cup {NoPacket})
                    /\ Len(Queue) = count
                    /\ \A i \in 1 .. count :
                           Queue[i] = entries[Lap(tail + (i - 1))]
  OBVIOUS
<1>1. count \in Nat /\ capacity \in Nat
  BY DEF IInv, TypeOK
<1>2. CASE capacity = 0
  BY <1>1, <1>2 DEF IInv, Empty, Queue
<1>3. CASE capacity > 0
  <2>1. \A i \in 1 .. count :
            /\ (tail + i - 1) % capacity = Lap(tail + (i - 1))
            /\ Lap(tail + (i - 1)) \in 0 .. capacity - 1
    BY <1>3, Indices, SlotAt
  <2>2. \A i \in 1 .. count : Queue[i] = entries[Lap(tail + (i - 1))]
    BY <2>1 DEF Queue
  <2>3. \A i \in 1 .. count : Queue[i] \in Packets \cup {NoPacket}
    BY <2>1, <2>2 DEF IInv, TypeOK
  <2>4. QED BY <1>1, <2>2, <2>3 DEF Queue
<1>4. QED BY <1>1, <1>2, <1>3

LEMMA StepFifo == IInv /\ IInv' /\ [Next]_vars => [Fifo!Next]_(Fifo!vars)
<1> DEFINE P == Packets \cup {NoPacket}
<1> SUFFICES ASSUME IInv, IInv', [Next]_vars PROVE [Fifo!Next]_(Fifo!vars)
  OBVIOUS
<1>0. /\ Queue' \in Seq(P) /\ Len(Queue') = count'
      /\ \A i \in 1 .. count' : Queue'[i] = entries'[Lap(tail + (i - 1))']
  <2>1. IInv' => (/\ Queue \in Seq(Packets \cup {NoPacket})
                  /\ Len(Queue) = count
                  /\ \A i \in 1 .. count :
                         Queue[i] = entries[Lap(tail + (i - 1))])'
    BY QueueIs, PTL
  <2>2. QED BY <2>1
<1> USE RingAssumption DEF Fifo!Next
<1>1. ASSUME NEW c \in Requests, Create(c) PROVE Fifo!Create(c)
  <2>1. count = 0 /\ count' = 0
    BY <1>1 DEF Create, IInv, Empty
  <2>2. Queue = <<>> /\ Queue' = <<>>
    BY <2>1 DEF Queue
  <2>3. QED BY <1>1, <2>2 DEF Create, Fifo!Create
<1>2. CASE Destroy
  <2>1. count' = 0
    BY <1>2 DEF Destroy
  <2>2. Queue' = <<>>
    BY <2>1 DEF Queue
  <2>3. Fifo!Destroy
    BY <1>2, <2>2 DEF Destroy, Fifo!Destroy
  <2>4. QED BY <2>3
<1>3. ASSUME NEW p \in Packets, Push(p) PROVE Fifo!Push(p)
  <2>1. capacity > 0 /\ capacity' = capacity /\ out' = out
    BY <1>3 DEF Push
  <2>2. entries' = [entries EXCEPT ![head] = p]
    BY <1>3 DEF Push
  <2>3. Append(Queue, p) \in Seq(P)
    BY QueueIs, AppendProperties
  <2>4. CASE count < capacity
    <3>1. count' = count + 1 /\ tail' = tail /\ dropped' = dropped
      BY <1>3, <2>4, Indices DEF Push, MakeRoom
    <3>2. \A i \in 1 .. count : Queue'[i] = Queue[i]
      <4> TAKE i \in 1 .. count
      <4>1. Lap(tail + (i - 1)) # head /\ Lap(tail + (i - 1)) \in 0 .. capacity - 1
        BY <2>1, <2>4, Indices DEF Lap
      <4>2. Queue'[i] = entries'[Lap(tail + (i - 1))]
        BY <1>0, <2>1, <3>1, Indices DEF Lap
      <4>3. QED BY <2>2, <4>1, <4>2, QueueIs DEF IInv, TypeOK
    <3>3. Queue'[count + 1] = p
      BY <1>0, <2>1, <2>2, <3>1, Indices DEF Lap, IInv, TypeOK
    <3>4. Queue' = Append(Queue, p)
      BY <1>0, <2>1, <2>3, <3>1, <3>2, <3>3, Indices, QueueIs, AppendProperties, SeqEqual
    <3>5. QED BY <2>1, <2>4, <3>1, <3>4, QueueIs DEF Fifo!Push
  <2>5. CASE count = capacity
    <3>1. count' = count /\ tail' = Lap(tail + 1) /\ dropped' = dropped + 1
      BY <1>3, <2>1, <2>5, Indices, LapIsMod DEF Push, MakeRoom
    <3>2. \A i \in 1 .. count - 1 : Queue'[i] = Queue[i + 1]
      <4> TAKE i \in 1 .. count - 1
      <4>1. Lap(tail' + (i - 1)) = Lap(tail + ((i + 1) - 1))
        BY <2>1, <3>1, Indices DEF Lap
      <4>2. Queue'[i] = entries'[Lap(tail' + (i - 1))]
        BY <1>0, <2>1, <3>1, Indices, SMTT(15) DEF Lap
      <4>3. Queue[i + 1] = entries[Lap(tail + ((i + 1) - 1))]
        BY <2>1, Indices, QueueIs
      <4>4. Lap(tail + ((i + 1) - 1)) \in (0 .. capacity - 1) \ {head}
        BY <2>1, <2>5, Indices DEF Lap
      <4>5. QED BY <2>2, <4>1, <4>2, <4>3, <4>4 DEF IInv, TypeOK
    <3>3. Queue'[count] = p
      <4>1. Lap(tail' + (count - 1)) = head /\ head \in 0 .. capacity - 1
        BY <2>1, <2>5, <3>1, Indices DEF Lap
      <4>2. Queue'[count] = entries'[Lap(tail' + (count - 1))]
        BY <1>0, <2>1, <2>5, <3>1, Indices DEF Lap
      <4>3. QED BY <2>2, <4>1, <4>2 DEF IInv, TypeOK
    <3>4. Queue # <<>>
      BY <2>1, <2>5, QueueIs
    <3>5. /\ Tail(Queue) \in Seq(P) /\ Len(Tail(Queue)) = count - 1
          /\ \A i \in 1 .. count - 1 : Tail(Queue)[i] = Queue[i + 1]
      BY <3>4, QueueIs, HeadTailProperties
    <3>6. Queue' = Append(Tail(Queue), p)
      <4>1. /\ Append(Tail(Queue), p) \in Seq(P)
            /\ Len(Append(Tail(Queue), p)) = count
            /\ \A i \in 1 .. count - 1 : Append(Tail(Queue), p)[i] = Queue[i + 1]
            /\ Append(Tail(Queue), p)[count] = p
        BY <2>1, <2>5, <3>5, Indices, AppendProperties
      <4>2. \A i \in 1 .. count : Queue'[i] = Append(Tail(Queue), p)[i]
        BY <2>1, <2>5, <3>2, <3>3, <4>1, Indices
      <4>3. QED BY <1>0, <3>1, <4>1, <4>2, SeqEqual
    <3>7. QED BY <2>1, <2>5, <3>1, <3>6, QueueIs DEF Fifo!Push
  <2>6. QED BY <2>1, <2>4, <2>5, Indices
<1>4. CASE Pop
  <2>1. capacity > 0 /\ count > 0
    BY <1>4 DEF Pop, Filled, IInv, TypeOK, IndicesAgree
  <2>2. capacity' = capacity /\ entries' = entries
        /\ tail' = Lap(tail + 1) /\ count' = count - 1
    BY <1>4, <2>1, Indices, LapIsMod DEF Pop, Filled
  <2>3. Queue # <<>> /\ Head(Queue) = entries[tail]
    BY <2>1, Indices, QueueIs DEF Lap
  <2>4. \A i \in 1 .. count - 1 : Queue'[i] = Queue[i + 1]
    <3> TAKE i \in 1 .. count - 1
    <3>1. Lap(tail' + (i - 1)) = Lap(tail + ((i + 1) - 1))
      BY <2>1, <2>2, Indices DEF Lap
    <3>2. Queue'[i] = entries[Lap(tail' + (i - 1))]
      BY <1>0, <2>1, <2>2, Indices DEF Lap
    <3>3. Queue[i + 1] = entries[Lap(tail + ((i + 1) - 1))]
      BY <2>1, Indices, QueueIs
    <3>4. QED BY <3>1, <3>2, <3>3
  <2>5. Queue' = Tail(Queue)
    BY <1>0, <2>1, <2>2, <2>3, <2>4, Indices, QueueIs, HeadTailProperties, SeqEqual
  <2>6. Fifo!Pop
    BY <1>4, <2>3, <2>5 DEF Pop, Filled, Fifo!Pop
  <2>7. QED BY <2>6
<1>5. CASE Peek \/ UNCHANGED vars
  BY <1>5 DEF Peek, Filled, vars, ring, Queue, Fifo!vars
<1>6. QED
  BY <1>1, <1>2, <1>3, <1>4, <1>5 DEF Next

\* The ring implements the lossy queue: every step of ring.c is a step of
\* RingFifo on the packets between tail and head, or leaves them alone.
THEOREM RingIsFifo == Spec => IsFifo
<1>1. Init => Fifo!Init
  BY DEF Init, Fifo!Init, Queue
<1>2. QED BY <1>1, StepFifo, Invariant, PTL DEF Spec, IsFifo, Fifo!Spec
=============================================================================
