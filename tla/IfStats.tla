------------------------------ MODULE IfStats ------------------------------
(***************************************************************************)
(* src/ifstats.c: two snapshots of an interface's counters and their       *)
(* difference.  The eight counters of a line are read and subtracted       *)
(* alike, so one stands for them; printing and the sum of the errors are   *)
(* left out.                                                               *)
(***************************************************************************)
EXTENDS Integers

CONSTANTS Ifaces,    \* the interfaces the machine may have
          Wrap,      \* bound: counters wrap here, where the code's do at 2^64
          MaxCount,  \* bound: packets that an interface passes
          MaxLife    \* bound: times an interface appears

\* What the constants are.
IfStatsAssumption == Wrap \in Nat \ {0}

VARIABLES there,   \* the interfaces that /proc/net/dev has a line of
          passed,  \* packets each passed since it appeared
          life,    \* history: how often each has appeared
          snap,    \* the caller's snapshots
          was      \* history: what each snapshot was last read from

Slots == {"before", "after"}

Init == /\ there = Ifaces
        /\ passed = [i \in Ifaces |-> 0] /\ life = [i \in Ifaces |-> 1]
        /\ snap = [s \in Slots |-> 0] /\ was = [s \in Slots |-> <<"nothing", 0, 0>>]

Pass(i) == /\ i \in there /\ passed[i] < MaxCount
           /\ passed' = [passed EXCEPT ![i] = @ + 1]
           /\ UNCHANGED <<there, life, snap, was>>

Vanish(i) == i \in there /\ there' = there \ {i} /\ UNCHANGED <<passed, life, snap, was>>

Appear(i) == /\ i \notin there /\ life[i] < MaxLife
             /\ there' = there \cup {i}
             /\ passed' = [passed EXCEPT ![i] = 0] /\ life' = [life EXCEPT ![i] = @ + 1]
             /\ UNCHANGED <<snap, was>>

\* A line that is the interface's is copied; with none, or a file that cannot be read,
\* -1 is returned and the snapshot stays.
Read(i, slot) ==
    \/ /\ i \in there
       /\ snap' = [snap EXCEPT ![slot] = passed[i] % Wrap]
       /\ was' = [was EXCEPT ![slot] = <<i, life[i], passed[i]>>]
       /\ UNCHANGED <<there, passed, life>>
    \/ UNCHANGED <<there, passed, life, snap, was>>

Next == \E i \in Ifaces : Pass(i) \/ Vanish(i) \/ Appear(i) \/ \E slot \in Slots : Read(i, slot)

\* Mutant of Delta: a counter that went down is taken for one that stood still.
DeltaClipped == IF snap["after"] < snap["before"] THEN 0 ELSE snap["after"] - snap["before"]

\* ifstats_delta, unsigned
Delta == (snap["after"] - snap["before"]) % Wrap

-----------------------------------------------------------------------------
TypeOK == there \subseteq Ifaces /\ \A s \in Slots : snap[s] \in 0 .. Wrap - 1

\* ifstats.c:15-54, 66-78.  Whatever reads failed meanwhile, and across a wrap of the
\* counter, the difference of two snapshots is what passed between the reads, if it
\* fits a counter and both are of the same interface, not created anew in between.
DeltaExact ==
    LET between == was["after"][3] - was["before"][3]
    IN /\ was["before"][1] = was["after"][1] /\ was["before"][2] = was["after"][2]
       /\ between \in 0 .. Wrap - 1
       => Delta = between
=============================================================================
