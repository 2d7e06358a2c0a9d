------------------------------ MODULE Throttle ------------------------------
(***************************************************************************)
(* src/throttle.c: limits on packets and bytes per second, enforced per    *)
(* window of 100 ms.  The window starts anew at the first check after it   *)
(* has passed, as elapsed_ms has it: from whole seconds and the            *)
(* nanoseconds within them, cut to ms.  A nanosecond is a tick here, and   *)
(* time moves Step of them at once; throttle_dropped and the statistics    *)
(* are left out, and throttle_set_limits has no definition.                *)
(***************************************************************************)
EXTENDS Integers, Sequences, SequencesExt

CONSTANTS SecondMs,  \* 1000
          Ms,        \* 1000000, the ticks in a ms
          WindowMs,  \* THROTTLE_WINDOW_MS
          Step,      \* granularity of the clock, in ticks
          Limits,    \* <<max_pps, max_bps>> passed to throttle_init
          Lens,      \* packet lengths
          MaxPerStep \* bound: packets checked in one step of the clock

\* What the constants are.
ThrottleAssumption ==
    /\ SecondMs \in Nat /\ Ms \in Nat \ {0}
    /\ WindowMs \in 1 .. SecondMs /\ Step \in 1 .. SecondMs * Ms
    /\ Limits \subseteq Nat \X Nat /\ Lens \subseteq Nat
    /\ MaxPerStep \in Nat

Second == SecondMs * Ms

\* The steps that pass at most between the first and the last packet of a span
\* of one ms less than a window; one such span meets one step more.
Span == ((WindowMs - 1) * Ms) \div Step + 1

VARIABLES max_pps, max_bps, pkt_count, byte_count,  \* throttle_t
          window_start,  \* its tv_nsec
          nsec,     \* the clock's tv_nsec
          secs,     \* by how much the tv_sec of the two differ; no window
                    \* lasts past a second, so 2 stands for more
          checked,  \* bound: packets checked in this step
          admitted, \* did the last check admit its packet
          recent    \* history: what was admitted in each step of the span
                    \* that ends now, latest first

vars == <<max_pps, max_bps, pkt_count, byte_count, window_start, nsec, secs,
          checked, admitted, recent>>

NoneYet == [pkts |-> 0, bytes |-> 0]
NoneRecent == [i \in 1 .. Span |-> NoneYet]

\* throttle_init
Init == /\ \E l \in Limits : max_pps = l[1] /\ max_bps = l[2]
        /\ pkt_count = 0 /\ byte_count = 0
        /\ window_start \in 0 .. Second - 1 /\ nsec = window_start /\ secs = 0
        /\ checked = 0 /\ admitted = FALSE /\ recent = NoneRecent

Reset == /\ pkt_count' = 0 /\ byte_count' = 0
         /\ window_start' = nsec /\ secs' = 0
         /\ admitted' = FALSE /\ recent' = NoneRecent
         /\ UNCHANGED <<max_pps, max_bps, nsec, checked>>

\* throttle.c:53-56: a limit per second scaled to the window; 0 is no limit.
Scaled(max) == (max * WindowMs) \div SecondMs
WithinPkts(n) == max_pps = 0 \/ n <= Scaled(max_pps)
WithinBytes(n) == max_bps = 0 \/ n <= Scaled(max_bps)

\* The division of C, which cuts towards zero.
Quotient(a, b) == IF a >= 0 THEN a \div b ELSE -((-a) \div b)

\* Mutant of ElapsedMs: the nanoseconds are scaled by a factor of ten too many.
ElapsedMsEarly == secs * SecondMs + Quotient(10 * (nsec - window_start), Ms)

\* elapsed_ms: when the nanoseconds differ by less than zero, cutting rounds up.
ElapsedMs == secs * SecondMs + Quotient(nsec - window_start, Ms)

WindowOver == ElapsedMs >= WindowMs

\* Mutant of Counted: the bytes are not cleared.
CountedBytesOn == [pkts |-> IF WindowOver THEN 0 ELSE pkt_count, bytes |-> byte_count]

\* What the window that this packet falls into has let through.
Counted == IF WindowOver THEN NoneYet ELSE [pkts |-> pkt_count, bytes |-> byte_count]

\* Mutant of Admits: the packet's own bytes are forgotten.
AdmitsBefore(c, len) == WithinPkts(c.pkts + 1) /\ WithinBytes(c.bytes)

Admits(c, len) == WithinPkts(c.pkts + 1) /\ WithinBytes(c.bytes + len)

Check(len) ==
    /\ checked < MaxPerStep
    /\ checked' = checked + 1
    /\ IF WindowOver THEN window_start' = nsec /\ secs' = 0
                     ELSE UNCHANGED <<window_start, secs>>
    /\ LET ok == Admits(Counted, len)
       IN  /\ admitted' = ok
           /\ pkt_count' = Counted.pkts + (IF ok THEN 1 ELSE 0)
           /\ byte_count' = Counted.bytes + (IF ok THEN len ELSE 0)
           /\ recent' = IF ok THEN [recent EXCEPT ![1].pkts = @ + 1, ![1].bytes = @ + len]
                              ELSE recent
    /\ UNCHANGED <<max_pps, max_bps, nsec>>

Tick == /\ IF nsec + Step < Second
           THEN nsec' = nsec + Step /\ UNCHANGED secs
           ELSE nsec' = nsec + Step - Second /\ secs' = IF secs < 2 THEN secs + 1 ELSE 2
        /\ checked' = 0
        /\ admitted' = FALSE
        /\ recent' = <<NoneYet>> \o Front(recent)
        /\ UNCHANGED <<max_pps, max_bps, pkt_count, byte_count, window_start>>

Next == Reset \/ (\E len \in Lens : Check(len)) \/ Tick

Spec == Init /\ [][Next]_vars

\* Time passes, and packets of every length keep coming.
FairSpec == Spec /\ WF_vars(Tick) /\ \A len \in Lens : SF_vars(Check(len))

-----------------------------------------------------------------------------
\* What was admitted in each of the last steps, and in all of them.
Pkts == [i \in DOMAIN recent |-> recent[i].pkts]
Bytes == [i \in DOMAIN recent |-> recent[i].bytes]
Total(amounts) == SumFunctionOnSet(amounts, DOMAIN amounts)

\* Every variable has its type, and a window never holds more than its share.
TypeOK == /\ <<max_pps, max_bps>> \in Limits
          /\ pkt_count \in Nat /\ WithinPkts(pkt_count)
          /\ byte_count \in Nat /\ WithinBytes(byte_count)
          /\ {window_start, nsec} \subseteq 0 .. Second - 1 /\ secs \in 0 .. 2
          /\ checked \in 0 .. MaxPerStep /\ admitted \in BOOLEAN
          /\ recent \in [1 .. Span -> [pkts : Nat, bytes : Nat]]

\* Windows tumble, and one may end up to a ms early as elapsed_ms can round up
\* (throttle.c:8-10), never earlier: a span of 99 ms meets two of them at most, so
\* whatever the pattern of calls it sees no more than twice a window's packets or
\* bytes (throttle.c:45-50).  A span of a whole 100 ms may meet three.
AtMostTwice == /\ max_pps # 0 => Total(Pkts) <= 2 * Scaled(max_pps)
               /\ max_bps # 0 => Total(Bytes) <= 2 * Scaled(max_bps)

\* A throttled stream is never shut off for good: packets keep being admitted
\* (tests/test_throttle.c:83 "packet allowed after reset").
KeepsAdmitting == []<>admitted
=============================================================================
