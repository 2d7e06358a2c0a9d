-------------------------------- MODULE Ring --------------------------------
(***************************************************************************)
(* src/ring.c: the packet ring, a circular array addressed by head, tail   *)
(* and count.  A full ring overwrites its oldest packet and counts it.     *)
(* Calls rejected for a NULL argument, a zero or an oversized length, and  *)
(* a pop of an empty ring, change nothing and are left out.                *)
(***************************************************************************)
EXTENDS Integers, Sequences

CONSTANTS Packets,          \* what ring_entry_t holds: bytes, len, timestamp
          NoPacket,         \* a zeroed ring_entry_t
          Requests,         \* capacities callers pass to ring_create
          DefaultCapacity,  \* RING_DEFAULT_CAPACITY
          MaxPush           \* bound: pushes in the life of one ring

ASSUME RingAssumption == /\ NoPacket \notin Packets
                         /\ Requests \subseteq Nat
                         /\ DefaultCapacity \in Nat \ {0}
                         /\ MaxPush \in Nat

VARIABLES capacity, entries, head, tail, count, dropped,  \* ring_buf_t
          out,      \* the packet the last ring_pop copied to its caller
          peeked,   \* the pointer the last ring_peek returned (see Peek)
          pushed,   \* history: packets pushed into this ring
          popped    \* history: packets popped from this ring

ring == <<capacity, entries, head, tail, count, dropped>>
vars == <<ring, out, peeked, pushed, popped>>

\* No pointer is held: ring_peek was not called or returned NULL.
NoPeek == [slot |-> -1, pkt |-> NoPacket, at |-> 0]

\* How many packets of this ring have left it; it names the oldest entry.
Gone == popped + dropped

\* There is no ring yet: the pointer is NULL, shown as capacity 0.
Init == /\ capacity = 0 /\ entries = <<>>
        /\ head = 0 /\ tail = 0 /\ count = 0 /\ dropped = 0
        /\ out = NoPacket /\ peeked = NoPeek
        /\ pushed = 0 /\ popped = 0

Create(c) ==
    /\ capacity = 0
    /\ capacity' = IF c = 0 THEN DefaultCapacity ELSE c
    /\ entries' = [i \in 0 .. capacity' - 1 |-> NoPacket]
    /\ UNCHANGED <<head, tail, count, dropped, out, peeked, pushed, popped>>

Destroy ==
    /\ capacity > 0
    /\ capacity' = 0 /\ entries' = <<>>
    /\ head' = 0 /\ tail' = 0 /\ count' = 0 /\ dropped' = 0
    /\ peeked' = NoPeek /\ pushed' = 0 /\ popped' = 0
    /\ UNCHANGED out

\* Mutants of MakeRoom: the overflow is not counted; the tail stays behind.
MakeRoomUncounted ==
    IF count = capacity
    THEN tail' = (tail + 1) % capacity /\ UNCHANGED <<count, dropped>>
    ELSE count' = count + 1 /\ UNCHANGED <<tail, dropped>>
MakeRoomTailStays ==
    IF count = capacity
    THEN dropped' = dropped + 1 /\ UNCHANGED <<count, tail>>
    ELSE count' = count + 1 /\ UNCHANGED <<tail, dropped>>

\* A full ring gives up its oldest packet, another one grows.
MakeRoom ==
    IF count = capacity
    THEN /\ tail' = (tail + 1) % capacity
         /\ dropped' = dropped + 1
         /\ UNCHANGED count
    ELSE /\ count' = count + 1
         /\ UNCHANGED <<tail, dropped>>

Push(p) ==
    /\ capacity > 0
    /\ pushed < MaxPush
    /\ MakeRoom
    /\ entries' = [entries EXCEPT ![head] = p]
    /\ head' = (head + 1) % capacity
    /\ pushed' = pushed + 1
    /\ UNCHANGED <<capacity, out, peeked, popped>>

\* Mutant of Filled: the test for an empty ring is missing.
FilledAlways == capacity > 0

Filled == count > 0

Pop ==
    /\ Filled
    /\ out' = entries[tail]
    /\ tail' = (tail + 1) % capacity
    /\ count' = count - 1
    /\ popped' = popped + 1
    /\ UNCHANGED <<capacity, entries, head, dropped, peeked, pushed>>

\* The caller keeps a pointer into the array: the slot, what it showed then,
\* and which packet of the stream it was.
Peek ==
    /\ Filled
    /\ peeked' = [slot |-> tail, pkt |-> entries[tail], at |-> Gone]
    /\ UNCHANGED <<ring, out, pushed, popped>>

Next == \/ \E c \in Requests : Create(c)
        \/ Destroy
        \/ \E p \in Packets : Push(p)
        \/ Pop
        \/ Peek

Spec == Init /\ [][Next]_vars

-----------------------------------------------------------------------------
\* Every variable has its type.
TypeOK ==
    /\ capacity \in Nat
    /\ entries \in [0 .. capacity - 1 -> Packets \cup {NoPacket}]
    /\ head \in Nat /\ tail \in Nat /\ count \in Nat /\ dropped \in Nat
    /\ out \in Packets \cup {NoPacket}
    /\ peeked \in [slot : Int, pkt : Packets \cup {NoPacket}, at : Nat]
    /\ pushed \in Nat /\ popped \in Nat

\* ring_push writes at head and ring_pop reads at tail (ring.c:47, 62): the
\* two are always count slots apart and inside the array, so the write never
\* lands on a packet that is still counted.
IndicesAgree ==
    /\ count <= capacity
    /\ capacity > 0 => /\ tail < capacity
                       /\ head = (tail + count) % capacity

\* Every packet accepted is held, was popped or is in the drop count that
\* ring_dropped reports: none is lost silently or counted twice.
Conservation == pushed = popped + dropped + count

\* The pointer ring_peek returns shows the same packet, the one the next pop
\* delivers, for as long as that packet has not left, whatever is pushed
\* meanwhile (ring.c:68-72 hands out a pointer into the array).
PeekStable ==
    peeked # NoPeek =>
        /\ peeked.at <= Gone
        /\ peeked.at = Gone => /\ count > 0
                               /\ peeked.slot = tail
                               /\ entries[tail] = peeked.pkt

\* The packets the ring holds, oldest first.
Queue == [i \in 1 .. count |-> entries[(tail + i - 1) % capacity]]

Fifo == INSTANCE RingFifo WITH queue <- Queue

\* The ring is the lossy first-in first-out queue of ring.h: ring.h:32
\* "Overwrites oldest entry when full", ring.h:36 "Pop the oldest packet".
IsFifo == Fifo!Spec
=============================================================================
