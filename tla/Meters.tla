------------------------------- MODULE Meters -------------------------------
(***************************************************************************)
(* What is counted of a packet's bytes: src/snaplen.c, src/truncate.c and  *)
(* src/stats.c.  NULL arguments change nothing, times and printing are     *)
(* left out; the counters, of 32 and 64 bits, do not wrap here.            *)
(***************************************************************************)
EXTENDS Integers, Sequences, SequencesExt

CONSTANTS Lens,      \* lengths of packets
          Caps,      \* lengths asked for with snaplen_init and _set, and truncate_init
          MaxCalls   \* bound: packets metered

\* What the constants are.
MetersAssumption == Lens \subseteq Nat /\ Caps \subseteq Nat

VARIABLES snap,    \* snaplen_ctx_t
          cut,     \* truncate_ctx_t
          stats,   \* pktsnare_stats_t: packets by class, bytes, dropped
          seen,    \* history: <<length, length left>> of what each meter was given
          valid    \* history: a snap length was accepted since snaplen_init

Classes == {"tcp", "udp", "icmp", "arp", "other"}
Meter == {"snap", "cut", "stats"}
NoStats == [packets |-> [c \in Classes |-> 0], total |-> 0, bytes |-> 0, dropped |-> 0]

Valid(len) == 14 <= len /\ len <= 65535

MaxPayload(max) == IF max = 0 \/ max > 65535 THEN 128 ELSE max

Fresh(max) == [max_payload |-> MaxPayload(max), enabled |-> TRUE, bytes |-> 0, packets |-> 0]

Init == /\ snap = [value |-> 65535, total |-> 0, truncated |-> 0] /\ valid = TRUE
        /\ cut = Fresh(0) /\ stats = NoStats /\ seen = [m \in Meter |-> <<>>]

Forgotten(m) == [seen EXCEPT ![m] = <<>>]
Metered(m, len, left) == /\ SumFunctionOnSet([k \in Meter |-> Len(seen[k])], Meter) < MaxCalls
                         /\ seen' = [seen EXCEPT ![m] = Append(@, <<len, left>>)]

\* A length that snaplen_init refuses leaves a context that cuts every packet to nothing.
SnapInit(len) == /\ snap' = [value |-> IF Valid(len) THEN len ELSE 0, total |-> 0, truncated |-> 0]
                 /\ valid' = Valid(len) /\ seen' = Forgotten("snap")
                 /\ UNCHANGED <<cut, stats>>

SnapSet(len) == /\ Valid(len) /\ snap' = [snap EXCEPT !.value = len] /\ valid' = TRUE
                /\ UNCHANGED <<cut, stats, seen>>

Clamp(len) ==
    LET left == Min({len, snap.value})
    IN /\ snap' = [snap EXCEPT !.total = @ + 1, !.truncated = IF len > left THEN @ + 1 ELSE @]
       /\ Metered("snap", len, left)
       /\ UNCHANGED <<cut, stats, valid>>

CutInit(max) == cut' = Fresh(max) /\ seen' = Forgotten("cut") /\ UNCHANGED <<snap, stats, valid>>

\* The caller's own assignment.
Enable(on) == cut' = [cut EXCEPT !.enabled = on] /\ UNCHANGED <<snap, stats, seen, valid>>

\* Mutant of Cleared: the packets that were cut are counted on.
ClearedBytes == [cut EXCEPT !.bytes = 0]

Cleared == [cut EXCEPT !.bytes = 0, !.packets = 0]

CutReset == cut' = Cleared /\ seen' = Forgotten("cut") /\ UNCHANGED <<snap, stats, valid>>

Apply(len) ==
    LET left == IF cut.enabled THEN Min({len, cut.max_payload}) ELSE len
    IN /\ cut' = IF len > left THEN [cut EXCEPT !.bytes = @ + (len - left), !.packets = @ + 1]
                 ELSE cut
       /\ Metered("cut", len, left)
       /\ UNCHANGED <<snap, stats, valid>>

StatsInit == stats' = NoStats /\ seen' = Forgotten("stats") /\ UNCHANGED <<snap, cut, valid>>

Update(class, len) == /\ stats' = [stats EXCEPT !.packets[class] = @ + 1, !.total = @ + 1,
                                                !.bytes = @ + len]
                      /\ Metered("stats", len, len)
                      /\ UNCHANGED <<snap, cut, valid>>

Drop == /\ stats.dropped < MaxCalls /\ stats' = [stats EXCEPT !.dropped = @ + 1]
        /\ UNCHANGED <<snap, cut, seen, valid>>

Next == \/ \E len \in Lens : Clamp(len) \/ Apply(len) \/ \E class \in Classes : Update(class, len)
        \/ \E len \in Caps : SnapInit(len) \/ SnapSet(len) \/ CutInit(len)
        \/ (\E on \in BOOLEAN : Enable(on)) \/ CutReset \/ StatsInit \/ Drop

-----------------------------------------------------------------------------
\* The packets a meter was given that it shortened, and the bytes it took off.
Shortened(m) == {i \in DOMAIN seen[m] : seen[m][i][2] < seen[m][i][1]}
Lost(m) == [i \in DOMAIN seen[m] |-> seen[m][i][1] - seen[m][i][2]]
Given(m) == [i \in DOMAIN seen[m] |-> seen[m][i][1]]
Total(amounts) == SumFunctionOnSet(amounts, DOMAIN amounts)

TypeOK == /\ snap.value = 0 \/ Valid(snap.value)
          /\ 1 <= cut.max_payload /\ cut.max_payload <= 65535

\* snaplen.c:5-45, truncate.c:5-45, stats.c:12-31.  Over any mix of packets, new
\* limits and resets the counters say what was done: the packets that were cut
\* since the last reset, the bytes they lost, and every packet in one class; and
\* a packet that is longer than the least snap length keeps that many bytes
\* unless the length last initialised was refused.
CountersAdd ==
    /\ snap.total = Len(seen["snap"]) /\ snap.truncated = Cardinality(Shortened("snap"))
    /\ cut.packets = Cardinality(Shortened("cut")) /\ cut.bytes = Total(Lost("cut"))
    /\ stats.total = Len(seen["stats"])
    /\ stats.total = Total(stats.packets)
    /\ stats.bytes = Total(Given("stats"))
    /\ valid => snap.value >= 14
=============================================================================
