------------------------------ MODULE RingFifo ------------------------------
(***************************************************************************)
(* What ring.h promises of the packet ring, without its array and indices: *)
(* a bounded first-in first-out queue that, when a packet arrives at a     *)
(* full queue, gives up the oldest packet and counts it as dropped.        *)
(***************************************************************************)
EXTENDS Integers, Sequences

CONSTANTS Packets,          \* what ring_entry_t holds: bytes, len, timestamp
          NoPacket,         \* a zeroed ring_entry_t
          Requests,         \* capacities callers pass to ring_create
          DefaultCapacity   \* RING_DEFAULT_CAPACITY

VARIABLES capacity,   \* 0 while there is no ring
          queue,      \* the packets held, oldest first
          dropped,    \* packets given up to make room
          out         \* the packet the last pop delivered

vars == <<capacity, queue, dropped, out>>

Init == /\ capacity = 0
        /\ queue = <<>>
        /\ dropped = 0
        /\ out = NoPacket

Create(c) == /\ capacity = 0
             /\ capacity' = IF c = 0 THEN DefaultCapacity ELSE c
             /\ UNCHANGED <<queue, dropped, out>>

Destroy == /\ capacity > 0
           /\ capacity' = 0
           /\ queue' = <<>>
           /\ dropped' = 0
           /\ UNCHANGED out

Push(p) == /\ capacity > 0
           /\ \/ /\ Len(queue) < capacity
                 /\ queue' = Append(queue, p)
                 /\ UNCHANGED dropped
              \/ /\ Len(queue) = capacity
                 /\ queue' = Append(Tail(queue), p)
                 /\ dropped' = dropped + 1
           /\ UNCHANGED <<capacity, out>>

Pop == /\ queue # <<>>
       /\ out' = Head(queue)
       /\ queue' = Tail(queue)
       /\ UNCHANGED <<capacity, dropped>>

Next == \/ \E c \in Requests : Create(c)
        \/ Destroy
        \/ \E p \in Packets : Push(p)
        \/ Pop

Spec == Init /\ [][Next]_vars
=============================================================================
