----------------------------- MODULE RateLimit -----------------------------
(***************************************************************************)
(* src/ratelimit.c: a token bucket.  Tokens are counted in equal parts,    *)
(* Unit of them to a packet, and time in ticks, so that the arithmetic on  *)
(* double is exact; rounding is not modelled.                              *)
(***************************************************************************)
EXTENDS Integers, FiniteSetsExt

CONSTANTS Unit,     \* the parts of one token
          Rates,    \* parts added per tick: rate_pps
          Bursts,   \* sizes of the bucket, in parts: burst
          MaxTime,  \* bound on the clock
          MaxChecks \* bound on the packets of one tick

ASSUME RateLimitAssumption == /\ Unit \in Nat \ {0}
                              /\ Rates \subseteq Nat \ {0}
                              /\ Bursts \subseteq Nat \ {0}
                              /\ MaxTime \in Nat /\ MaxChecks \in Nat

VARIABLES rate, capacity, tokens, last_refill, allowed, dropped,  \* ratelimit_t
          now,    \* clock_gettime(CLOCK_MONOTONIC)
          checks, \* bound: packets checked in this tick
          start,  \* history: when the bucket was last set up or reset
          log     \* history: packets allowed at each tick since then

vars == <<rate, capacity, tokens, last_refill, allowed, dropped, now, checks, start, log>>

NoneAllowed == [t \in 0 .. MaxTime |-> 0]

\* ratelimit_init, with arguments it does not reject.
Init == /\ rate \in Rates /\ capacity \in Bursts
        /\ tokens = capacity
        /\ last_refill = 0 /\ now = 0 /\ start = 0
        /\ allowed = 0 /\ dropped = 0
        /\ checks = 0 /\ log = NoneAllowed

\* Mutants of Refilled: the bucket has no lid; a fraction of a token is lost;
\* last_refill is never moved on.
RefilledOver == tokens + (now - last_refill) * rate
RefilledWhole == LET sum == tokens + (((now - last_refill) * rate) \div Unit) * Unit
                 IN  IF sum > capacity THEN capacity ELSE sum

RefilledAgain == LET sum == tokens + (now - start) * rate
                 IN  IF sum > capacity THEN capacity ELSE sum

\* The bucket after the refill ratelimit_check starts with.
Refilled == LET sum == tokens + (now - last_refill) * rate
            IN  IF sum > capacity THEN capacity ELSE sum

Check ==
    /\ checks < MaxChecks
    /\ checks' = checks + 1
    /\ last_refill' = now
    /\ \/ /\ Refilled >= Unit
          /\ tokens' = Refilled - Unit
          /\ allowed' = allowed + 1
          /\ log' = [log EXCEPT ![now] = @ + 1]
          /\ UNCHANGED dropped
       \/ /\ Refilled < Unit
          /\ tokens' = Refilled
          /\ dropped' = dropped + 1
          /\ UNCHANGED <<allowed, log>>
    /\ UNCHANGED <<rate, capacity, now, start>>

Reset == /\ tokens' = capacity
         /\ allowed' = 0 /\ dropped' = 0
         /\ last_refill' = now
         /\ start' = now /\ log' = NoneAllowed
         /\ UNCHANGED <<rate, capacity, now, checks>>

Tick == /\ now < MaxTime
        /\ now' = now + 1
        /\ checks' = 0
        /\ UNCHANGED <<rate, capacity, tokens, last_refill, allowed, dropped, start, log>>

Next == Check \/ Reset \/ Tick

Spec == Init /\ [][Next]_vars

-----------------------------------------------------------------------------
\* Every variable has its type; the bucket never holds more than its burst.
TypeOK == /\ rate \in Rates /\ capacity \in Bursts
          /\ tokens \in 0 .. capacity
          /\ now \in 0 .. MaxTime
          /\ start \in 0 .. now /\ last_refill \in start .. now
          /\ allowed \in Nat /\ dropped \in Nat /\ checks \in Nat
          /\ log \in [0 .. MaxTime -> Nat]

\* Since the last reset no more packets passed than the burst and the rate
\* allow (ratelimit.h:21-22), and what is left in the bucket is accounted for
\* too, however often the partial refills of ratelimit.c:31-34 cut it off.
RateBound == allowed * Unit + tokens <= capacity + rate * (last_refill - start)

AllowedSince(t) == MapThenSumSet(LAMBDA u : log[u], t .. now)

\* One more packet now keeps every interval that ends now within the burst
\* plus the rate.
Conforms == \A t \in start .. now :
               (AllowedSince(t) + 1) * Unit <= capacity + rate * (now - t)

\* ratelimit_check lets a packet through exactly when that keeps every
\* interval, whenever it began, within burst and rate: it is neither laxer nor
\* stricter than the envelope, at any pattern of calls.
AdmitsIffConforms ==
    [][/\ allowed' > allowed => Conforms
       /\ dropped' > dropped => ~Conforms]_vars
=============================================================================
