-------------------------- MODULE RateLimit_proofs --------------------------
(***************************************************************************)
(* Proofs about RateLimit, for every rate, burst and size of the token.    *)
(***************************************************************************)
EXTENDS RateLimit, TableLemmas

\* The time before and after a refill adds up.
LEMMA Elapsed == \A r, a, b, c \in Int : r * (b - c) + (a - b) * r = r * (a - c)
  <1> SUFFICES ASSUME NEW r \in Int, NEW a \in Int, NEW b \in Int, NEW c \in Int
               PROVE  r * (b - c) + (a - b) * r = r * (a - c)
    OBVIOUS
  <1> QED BY Z3

\* A refill adds no less than nothing.
LEMMA Gain == \A r, d \in Nat : d * r \in Nat
  OBVIOUS

\* One more packet is one more Unit.
LEMMA OneMore == \A a \in Nat, u \in Nat : (a + 1) * u = a * u + u
  <1> SUFFICES ASSUME NEW a \in Nat, NEW u \in Nat PROVE (a + 1) * u = a * u + u
    OBVIOUS
  <1> QED BY Z3

\* The refilled bucket is within its lid, and within what the time brings.
LEMMA RefilledBounds ==
  ASSUME TypeOK
  PROVE  /\ Refilled \in 0 .. capacity
         /\ Refilled <= tokens + (now - last_refill) * rate
  <1> /\ rate \in Nat /\ capacity \in Nat /\ tokens \in 0 .. capacity
      /\ now - last_refill \in Nat
    BY RateLimitAssumption DEF TypeOK
  <1>1. (now - last_refill) * rate \in Nat
    BY Gain
  <1> DEFINE gain == (now - last_refill) * rate
  <1> HIDE DEF gain
  <1>2. gain \in Nat /\ Refilled = IF tokens + gain > capacity THEN capacity ELSE tokens + gain
    BY <1>1 DEF gain, Refilled
  <1>3. Refilled \in 0 .. capacity /\ Refilled <= tokens + gain
    BY <1>2
  <1> QED BY <1>3 DEF gain

-----------------------------------------------------------------------------
LEMMA InitTypeOK == Init => TypeOK
  BY RateLimitAssumption DEF Init, TypeOK, NoneAllowed

LEMMA NextTypeOK == TypeOK /\ [Next]_vars => TypeOK'
  <1> SUFFICES ASSUME TypeOK, [Next]_vars PROVE TypeOK'
    OBVIOUS
  <1> USE RateLimitAssumption
  <1>1. CASE Check
    <2>1. Refilled \in 0 .. capacity
      BY RefilledBounds
    <2>2. tokens' \in 0 .. capacity'
      BY <1>1, <2>1 DEF Check, TypeOK
    <2>3. allowed' \in Nat /\ dropped' \in Nat /\ checks' \in Nat
      BY <1>1 DEF Check, TypeOK
    <2>4. log' \in [0 .. MaxTime -> Nat]
      BY <1>1 DEF Check, TypeOK
    <2> QED BY <1>1, <2>2, <2>3, <2>4 DEF Check, TypeOK
  <1>2. CASE Reset
    BY <1>2 DEF Reset, TypeOK, NoneAllowed
  <1>3. CASE Tick
    BY <1>3 DEF Tick, TypeOK
  <1>4. CASE UNCHANGED vars
    BY <1>4 DEF vars, TypeOK
  <1> QED BY <1>1, <1>2, <1>3, <1>4 DEF Next

\* Every variable keeps its type, and the bucket its lid (ratelimit.c:32-33).
THEOREM TypeCorrect == Spec => []TypeOK
  BY InitTypeOK, NextTypeOK, PTL DEF Spec

-----------------------------------------------------------------------------
LEMMA InitRateBound == Init => RateBound
  <1> SUFFICES ASSUME Init PROVE RateBound
    OBVIOUS
  <1>1. rate \in Nat /\ capacity \in Nat
    BY RateLimitAssumption DEF Init
  <1>2. rate * (last_refill - start) = 0 /\ allowed * Unit = 0
    BY <1>1, RateLimitAssumption DEF Init
  <1> QED BY <1>1, <1>2 DEF Init, RateBound

LEMMA NextRateBound == TypeOK /\ RateBound /\ [Next]_vars => RateBound'
  <1> SUFFICES ASSUME TypeOK, RateBound, [Next]_vars PROVE RateBound'
    OBVIOUS
  <1> /\ rate \in Nat /\ capacity \in Nat /\ Unit \in Nat /\ tokens \in Int
      /\ now \in Int /\ last_refill \in Int /\ start \in Int /\ allowed \in Nat
    BY RateLimitAssumption DEF TypeOK
  <1>1. CASE Check
    <2> DEFINE before == rate * (last_refill - start)
               gain == (now - last_refill) * rate
               passed == allowed * Unit
    <2>1. before \in Int /\ gain \in Int /\ passed \in Int
      OBVIOUS
    <2>2. rate * (now - start) = before + gain
      BY Elapsed
    <2>3. Refilled \in Int /\ Refilled <= tokens + gain
      BY RefilledBounds
    <2>4. passed + tokens <= capacity + before
      BY DEF RateBound
    <2>5. (allowed + 1) * Unit = passed + Unit
      BY OneMore
    <2>6. /\ last_refill' = now /\ start' = start /\ rate' = rate /\ capacity' = capacity
          /\ \/ tokens' = Refilled - Unit /\ allowed' = allowed + 1
             \/ tokens' = Refilled /\ allowed' = allowed
      BY <1>1 DEF Check
    <2>7. allowed' * Unit + tokens' = passed + Refilled
      <3> HIDE DEF before, gain
      <3>1. CASE tokens' = Refilled - Unit /\ allowed' = allowed + 1
        <4> HIDE DEF passed
        <4>1. allowed' * Unit = passed + Unit
          BY <3>1, <2>5
        <4> QED BY <3>1, <4>1, <2>1, <2>3
      <3>2. CASE tokens' = Refilled /\ allowed' = allowed
        BY <3>2
      <3> QED BY <3>1, <3>2, <2>6
    <2>8. passed + Refilled <= capacity + (before + gain)
      <3> HIDE DEF before, gain, passed
      <3> QED BY <2>1, <2>3, <2>4
    <2>9. rate' * (last_refill' - start') = before + gain
      BY <2>2, <2>6
    <2> HIDE DEF before, gain, passed
    <2> QED BY <2>6, <2>7, <2>8, <2>9 DEF RateBound
  <1>2. CASE Reset
    <2>1. rate' * (last_refill' - start') = 0 /\ allowed' * Unit = 0
      BY <1>2 DEF Reset
    <2> QED BY <1>2, <2>1 DEF Reset, RateBound
  <1>3. CASE Tick
    BY <1>3 DEF Tick, RateBound
  <1>4. CASE UNCHANGED vars
    BY <1>4 DEF vars, RateBound
  <1> QED BY <1>1, <1>2, <1>3, <1>4 DEF Next

\* Since the last reset, the packets that passed and the tokens that are left
\* stay within the burst and the rate (ratelimit.c:29-43), whatever the
\* pattern of checks.
THEOREM RateAlwaysBounded == Spec => []RateBound
  <1>1. Init => TypeOK /\ RateBound
    BY InitTypeOK, InitRateBound
  <1>2. (TypeOK /\ RateBound) /\ [Next]_vars => (TypeOK /\ RateBound)'
    BY NextTypeOK, NextRateBound
  <1> QED BY <1>1, <1>2, PTL DEF Spec

-----------------------------------------------------------------------------
\* What a log has from tick a to tick b.
Logs == [0 .. MaxTime -> Nat]
Since(f, a, b) == SumFunctionOnSet(f, a .. b)

LEMMA SinceSums ==
  ASSUME NEW f \in Logs, NEW a \in Nat, NEW b \in Nat, b <= MaxTime
  PROVE  /\ IsFiniteSet(a .. b) /\ \A u \in a .. b : u \in 0 .. MaxTime /\ f[u] \in Nat
         /\ Since(f, a, b) \in Nat
         /\ (\A u \in a .. b : f[u] = 0) => Since(f, a, b) = 0
  <1>1. PICK S : S = a .. b
    OBVIOUS
  <1>2. IsFiniteSet(S)
    <2>1. a \in Int /\ b \in Int
      OBVIOUS
    <2>2. QED BY <1>1, <2>1, FS_Interval
  <1>3. \A u \in S : u \in 0 .. MaxTime
    BY <1>1, RateLimitAssumption
  <1>4. \A u \in S : f[u] \in Nat
    BY <1>3 DEF Logs
  <1>5. SumFunctionOnSet(f, S) \in Nat
    BY <1>2, <1>4, SumRemove
  <1>6. (\A u \in S : f[u] = 0) => SumFunctionOnSet(f, S) = 0
    BY <1>2, SumZero
  <1>7. QED BY <1>1, <1>2, <1>3, <1>4, <1>5, <1>6 DEF Since

\* One more packet at the last tick.
LEMMA SinceMore ==
  ASSUME NEW f \in Logs, NEW g \in Logs, NEW a \in Nat, NEW b \in Nat, a <= b, b <= MaxTime,
         g[b] = f[b] + 1, \A u \in 0 .. MaxTime : u # b => g[u] = f[u]
  PROVE  Since(g, a, b) = Since(f, a, b) + 1
  <1>1. PICK S : S = a .. b
    OBVIOUS
  <1>2. /\ IsFiniteSet(S) /\ b \in S
        /\ \A u \in S : u \in 0 .. MaxTime /\ f[u] \in Nat /\ g[u] \in Nat
    <2>1. IsFiniteSet(S) /\ \A u \in S : u \in 0 .. MaxTime /\ f[u] \in Nat
      BY <1>1, SinceSums
    <2>2. \A u \in S : g[u] \in Nat
      BY <1>1, SinceSums
    <2>3. QED BY <1>1, <2>1, <2>2
  <1>3. PICK T : T = S \ {b}
    OBVIOUS
  <1>4. IsFiniteSet(T) /\ \A u \in T : f[u] \in Nat /\ g[u] = f[u]
    BY <1>2, <1>3, FS_Subset
  <1>5. SumFunctionOnSet(f, T) = SumFunctionOnSet(g, T)
    BY <1>4, SumSame
  <1>6. SumFunctionOnSet(f, S) = f[b] + SumFunctionOnSet(f, T)
    BY <1>2, <1>3, SumRemove
  <1>7. SumFunctionOnSet(g, S) = g[b] + SumFunctionOnSet(g, T)
    BY <1>2, <1>3, SumRemove
  <1>8. SumFunctionOnSet(f, T) \in Nat
    BY <1>4, SumRemove
  <1>9. f[b] \in Nat
    BY <1>2
  <1>10. SumFunctionOnSet(g, S) = SumFunctionOnSet(f, S) + 1
    BY <1>5, <1>6, <1>7, <1>8, <1>9
  <1>11. QED BY <1>1, <1>10 DEF Since

\* Ticks at which nothing passed add nothing.
LEMMA SinceTail ==
  ASSUME NEW f \in Logs, NEW a \in Nat, NEW b \in Nat, NEW c \in Nat, a <= b, b <= c, c <= MaxTime,
         \A u \in b + 1 .. MaxTime : f[u] = 0
  PROVE  Since(f, a, c) = Since(f, a, b)
  <1>1. PICK S : S = a .. c
    OBVIOUS
  <1>2. PICK T : T = a .. b
    OBVIOUS
  <1>3. IsFiniteSet(S) /\ \A u \in S : f[u] \in Nat
    BY <1>1, SinceSums
  <1>4. T \in SUBSET S /\ \A u \in S \ T : f[u] = 0
    BY <1>1, <1>2, RateLimitAssumption
  <1>5. IsFiniteSet(S \ T) /\ IsFiniteSet(T)
    BY <1>3, <1>4, FS_Subset
  <1>6. SumFunctionOnSet(f, S \ T) = 0
    BY <1>4, <1>5, SumZero
  <1>7. SumFunctionOnSet(f, T) \in Nat
    BY <1>3, <1>4, <1>5, SumRemove
  <1>8. SumFunctionOnSet(f, S) = SumFunctionOnSet(f, T) + SumFunctionOnSet(f, S \ T)
    BY <1>3, <1>4, SumSplit
  <1>9. SumFunctionOnSet(f, S) = SumFunctionOnSet(f, T)
    BY <1>6, <1>7, <1>8
  <1>10. QED BY <1>1, <1>2, <1>9 DEF Since

LEMMA AllowedIs == \A t : AllowedSince(t) = Since(log, t, now)
  BY Zenon DEF AllowedSince, Since, MapThenSumSet, SumFunctionOnSet, FoldFunctionOnSet, MapThenFoldSet

-----------------------------------------------------------------------------
\* What the envelope of the interval from t to n leaves, when a packets passed in it.
Left(t, n, a) == capacity + rate * (n - t) - a * Unit
Slack(t) == Left(t, last_refill, Since(log, t, last_refill))
Room(t) == Left(t, now, Since(log, t, now))

\* The tokens are what the tightest of the intervals leaves.
Tightest == /\ \A u \in last_refill + 1 .. MaxTime : log[u] = 0
            /\ \A t \in start .. last_refill : tokens <= Slack(t)
            /\ \E t \in start .. last_refill : tokens = Slack(t)

LEMMA Numbers ==
  ASSUME TypeOK
  PROVE  /\ rate \in Nat /\ capacity \in Nat /\ Unit \in Nat \ {0} /\ tokens \in Nat
         /\ tokens <= capacity /\ now \in Nat /\ start \in Nat /\ last_refill \in Nat
         /\ start <= last_refill /\ last_refill <= now /\ now <= MaxTime /\ MaxTime \in Nat
         /\ allowed \in Nat /\ dropped \in Nat /\ log \in Logs
  BY RateLimitAssumption DEF TypeOK, Logs

\* What an interval leaves grows with the time, and is a Unit less after a packet.
LEMMA LeftGrows ==
  ASSUME rate \in Nat, capacity \in Nat, Unit \in Nat,
         NEW t \in Nat, NEW l \in Nat, NEW n \in Nat, NEW a \in Nat
  PROVE  /\ Left(t, l, a) \in Int
         /\ Left(t, n, a) = Left(t, l, a) + (n - l) * rate
         /\ Left(t, n, a + 1) = Left(t, n, a) - Unit
         /\ Left(n, n, 0) = capacity
  <1>1. PICK x \in Int : x = rate * (l - t)
    OBVIOUS
  <1>2. PICK y \in Int : y = (n - l) * rate
    OBVIOUS
  <1>3. rate * (n - t) = x + y
    BY <1>1, <1>2, Elapsed
  <1>4. PICK z \in Int : z = a * Unit
    OBVIOUS
  <1>5. (a + 1) * Unit = z + Unit
    BY <1>4, OneMore
  <1>6. rate * (n - n) = 0 /\ 0 * Unit = 0
    BY Z3
  <1>7. QED BY <1>1, <1>2, <1>3, <1>4, <1>5, <1>6 DEF Left

\* The bucket, refilled, is what the tightest of the intervals that end now leaves.
LEMMA RefilledTight ==
  ASSUME TypeOK, Tightest
  PROVE  /\ \A t \in start .. now : Refilled <= Room(t) /\ Room(t) \in Int
         /\ \E t \in start .. now : Refilled = Room(t)
  <1>1. /\ rate \in Nat /\ capacity \in Nat /\ Unit \in Nat \ {0} /\ tokens \in Nat
        /\ tokens <= capacity /\ now \in Nat /\ start \in Nat /\ last_refill \in Nat
        /\ start <= last_refill /\ last_refill <= now /\ now <= MaxTime /\ MaxTime \in Nat
        /\ log \in Logs
    BY Numbers
  <1>2. PICK gain \in Nat : gain = (now - last_refill) * rate
    <2>1. now - last_refill \in Nat
      BY <1>1
    <2>2. QED BY <1>1, <2>1, Gain
  <1>3. Refilled = IF tokens + gain > capacity THEN capacity ELSE tokens + gain
    BY <1>2 DEF Refilled
  <1>4. ASSUME NEW t \in start .. last_refill
        PROVE  /\ Room(t) = Slack(t) + gain /\ Slack(t) \in Int /\ tokens <= Slack(t)
               /\ t \in start .. now
    <2>1. t \in Nat /\ last_refill <= MaxTime
      BY <1>1
    <2>2. PICK a \in Nat : a = Since(log, t, last_refill)
      BY <1>1, <2>1, SinceSums
    <2>3. Since(log, t, now) = a
      <3>1. Since(log, t, now) = Since(log, t, last_refill)
        BY <1>1, <2>1, SinceTail DEF Tightest
      <3>2. QED BY <2>2, <3>1
    <2>4. Left(t, last_refill, a) \in Int /\ Left(t, now, a) = Left(t, last_refill, a) + gain
      BY <1>1, <1>2, <2>1, LeftGrows
    <2>5. QED BY <1>1, <2>2, <2>3, <2>4 DEF Room, Slack, Tightest
  <1>5. ASSUME NEW t \in last_refill + 1 .. now
        PROVE  Room(t) \in Int /\ Room(t) >= capacity /\ (t = now => Room(t) = capacity)
    <2>1. t \in Nat /\ \A u \in t .. now : u \in last_refill + 1 .. MaxTime
      BY <1>1
    <2>2. Since(log, t, now) = 0
      <3>1. \A u \in t .. now : log[u] = 0
        BY <2>1 DEF Tightest
      <3>2. QED BY <1>1, <2>1, <3>1, SinceSums
    <2>3. Room(t) = Left(t, now, 0)
      BY <2>2 DEF Room
    <2>4. Left(t, now, 0) = Left(t, t, 0) + (now - t) * rate /\ Left(t, t, 0) = capacity
      BY <1>1, <2>1, LeftGrows
    <2>5. now - t \in Nat
      BY <1>1
    <2>6. PICK x \in Nat : x = (now - t) * rate
      BY <1>1, <2>5, Gain
    <2>7. t = now => Left(t, now, 0) = capacity
      BY <2>4
    <2>8. QED BY <1>1, <2>3, <2>4, <2>6, <2>7
  <1>6. ASSUME NEW t \in start .. now
        PROVE  Refilled <= Room(t) /\ Room(t) \in Int
    <2>1. CASE t <= last_refill
      BY <1>1, <1>2, <1>3, <1>4, <2>1
    <2>2. CASE t > last_refill
      <3>1. t \in last_refill + 1 .. now
        BY <1>1, <2>2
      <3>2. Room(t) \in Int /\ Room(t) >= capacity
        BY <1>5, <3>1
      <3>3. QED BY <1>1, <1>2, <1>3, <3>2
    <2>3. QED BY <1>1, <2>1, <2>2
  <1>7. \E t \in start .. now : Refilled = Room(t)
    <2>1. PICK t \in start .. last_refill : tokens = Slack(t)
      BY DEF Tightest
    <2>2. Room(t) = tokens + gain /\ t \in start .. now
      BY <1>4, <2>1
    <2>3. CASE tokens + gain <= capacity
      BY <1>1, <1>2, <1>3, <2>2, <2>3
    <2>4. CASE tokens + gain > capacity /\ now > last_refill
      <3>1. now \in last_refill + 1 .. now /\ now \in start .. now
        BY <1>1, <2>4
      <3>2. Room(now) = capacity
        BY <1>5, <3>1
      <3>3. QED BY <1>3, <2>4, <3>1, <3>2
    <2>5. CASE now = last_refill
      <3>1. gain = 0
        BY <1>1, <1>2, <2>5
      <3>2. QED BY <1>1, <2>3, <3>1
    <2>6. QED BY <1>1, <1>2, <2>3, <2>4, <2>5
  <1>8. QED BY <1>6, <1>7

\* A Unit is left in the bucket just if every interval leaves one.
LEMMA ConformsIs ==
  ASSUME TypeOK, Tightest
  PROVE  Conforms <=> Refilled >= Unit
  <1>1. /\ rate \in Nat /\ capacity \in Nat /\ Unit \in Nat \ {0} /\ now \in Nat /\ start \in Nat
        /\ start <= now /\ now <= MaxTime /\ log \in Logs
    BY Numbers
  <1>2. ASSUME NEW t \in start .. now
        PROVE  (AllowedSince(t) + 1) * Unit <= capacity + rate * (now - t) <=> Unit <= Room(t)
    <2>1. t \in Nat
      BY <1>1
    <2>2. PICK a \in Nat : a = Since(log, t, now)
      BY <1>1, <2>1, SinceSums
    <2>3. AllowedSince(t) = a
      BY <2>2, AllowedIs
    <2>4. PICK z \in Int : z = a * Unit
      BY <1>1
    <2>5. (a + 1) * Unit = z + Unit
      BY <1>1, <2>4, OneMore
    <2>6. PICK x \in Int : x = rate * (now - t)
      BY <1>1, <2>1
    <2>7. Room(t) = capacity + x - z
      BY <2>2, <2>4, <2>6 DEF Room, Left
    <2>8. QED BY <1>1, <2>3, <2>4, <2>5, <2>6, <2>7
  <1>3. Conforms <=> \A t \in start .. now : Unit <= Room(t)
    BY <1>2, Zenon DEF Conforms
  <1>4. Refilled \in Int
    BY <1>1, RefilledBounds
  <1>5. QED BY <1>1, <1>3, <1>4, RefilledTight

\* A full bucket after nothing passed.
Full == /\ TypeOK /\ start = last_refill /\ tokens = capacity
        /\ \A u \in 0 .. MaxTime : log[u] = 0

LEMMA FullTightest == Full => Tightest
  <1> SUFFICES ASSUME Full PROVE Tightest
    OBVIOUS
  <1>1. /\ rate \in Nat /\ capacity \in Nat /\ Unit \in Nat /\ last_refill \in Nat
        /\ start = last_refill /\ tokens = capacity
        /\ last_refill <= MaxTime /\ MaxTime \in Nat /\ log \in Logs
    BY Numbers DEF Full
  <1>2. \A u \in last_refill .. last_refill : log[u] = 0
    BY <1>1 DEF Full
  <1>3. Since(log, last_refill, last_refill) = 0
    BY <1>1, <1>2, SinceSums
  <1>4. Slack(last_refill) = capacity
    BY <1>1, <1>3, LeftGrows DEF Slack
  <1>5. start .. last_refill = {last_refill}
    BY <1>1
  <1>6. \A u \in last_refill + 1 .. MaxTime : log[u] = 0
    BY <1>1 DEF Full
  <1>7. QED BY <1>1, <1>4, <1>5, <1>6 DEF Tightest

LEMMA InitTightest == Init => Tightest
  <1> SUFFICES ASSUME Init PROVE Tightest
    OBVIOUS
  <1>1. TypeOK
    BY InitTypeOK
  <1>2. /\ start = 0 /\ last_refill = 0 /\ tokens = capacity /\ now = 0
        /\ \A u \in 0 .. MaxTime : log[u] = 0
    BY DEF Init, NoneAllowed
  <1>3. QED BY <1>1, <1>2, FullTightest DEF Full

LEMMA NextTightest == TypeOK /\ Tightest /\ [Next]_vars => Tightest'
  <1> SUFFICES ASSUME TypeOK, Tightest, [Next]_vars PROVE Tightest'
    OBVIOUS
  <1>0. /\ rate \in Nat /\ capacity \in Nat /\ Unit \in Nat \ {0} /\ now \in Nat /\ start \in Nat
        /\ start <= now /\ last_refill <= now /\ last_refill \in Nat /\ now <= MaxTime
        /\ MaxTime \in Nat /\ log \in Logs
    BY Numbers
  <1>1. CASE Check
    <2>1. /\ last_refill' = now /\ start' = start /\ rate' = rate /\ capacity' = capacity
          /\ \/ tokens' = Refilled - Unit /\ log' = [log EXCEPT ![now] = @ + 1]
             \/ tokens' = Refilled /\ log' = log
      BY <1>1 DEF Check
    <2>2. PICK d \in {0, 1} : tokens' = (IF d = 1 THEN Refilled - Unit ELSE Refilled)
                              /\ log' = (IF d = 1 THEN [log EXCEPT ![now] = @ + 1] ELSE log)
      BY <2>1
    <2>3. \A u \in now + 1 .. MaxTime : log'[u] = 0
      <3>1. \A u \in now + 1 .. MaxTime : log[u] = 0 /\ u # now
        BY <1>0 DEF Tightest
      <3>2. \A u \in now + 1 .. MaxTime : log'[u] = log[u]
        BY <1>0, <2>2, <3>1 DEF Logs
      <3>3. QED BY <3>1, <3>2
    <2>4. PICK r : r = Refilled
      OBVIOUS
    <2>5. r \in Int /\ tokens' = (IF d = 1 THEN r - Unit ELSE r)
      BY <1>0, <2>2, <2>4, RefilledBounds
    <2>6. ASSUME NEW t \in start .. now
          PROVE  /\ Slack(t)' = (IF d = 1 THEN Room(t) - Unit ELSE Room(t))
                 /\ Room(t) \in Int /\ r <= Room(t)
      <3>1. t \in Nat /\ t <= now
        BY <1>0
      <3>2. PICK a \in Nat : a = Since(log, t, now)
        BY <1>0, <3>1, SinceSums
      <3>3. Since(log', t, now) = a + d
        <4>1. CASE d = 1
          <5>1. PICK g : g = log'
            OBVIOUS
          <5>2. /\ g \in Logs /\ g[now] = log[now] + 1
                /\ \A u \in 0 .. MaxTime : u # now => g[u] = log[u]
            BY <1>0, <2>2, <4>1, <5>1 DEF Logs
          <5>3. Since(g, t, now) = Since(log, t, now) + 1
            BY <1>0, <3>1, <5>2, SinceMore
          <5>4. QED BY <3>2, <4>1, <5>1, <5>3
        <4>2. CASE d = 0
          BY <2>2, <3>2, <4>2
        <4>3. QED BY <4>1, <4>2
      <3>4. Slack(t)' = Left(t, now, a + d)
        BY <2>1, <3>3, Zenon DEF Slack, Left
      <3>5. Room(t) = Left(t, now, a) /\ Left(t, now, a) \in Int
        BY <1>0, <3>1, <3>2, LeftGrows DEF Room
      <3>6. Left(t, now, a + 1) = Left(t, now, a) - Unit
        BY <1>0, <3>1, LeftGrows
      <3>7. r <= Room(t)
        BY <2>4, RefilledTight
      <3>8. a + 0 = a
        OBVIOUS
      <3>9. QED BY <3>4, <3>5, <3>6, <3>7, <3>8
    <2>7. PICK t \in start .. now : r = Room(t)
      BY <2>4, RefilledTight
    <2>8. \A t_1 \in start .. now : tokens' <= Slack(t_1)'
      BY <1>0, <2>5, <2>6
    <2>9. tokens' = Slack(t)'
      BY <2>5, <2>6, <2>7
    <2>10. QED BY <2>1, <2>3, <2>8, <2>9, Zenon DEF Tightest
  <1>2. CASE Reset
    <2>1. TypeOK'
      BY NextTypeOK
    <2>2. /\ start' = now /\ last_refill' = now /\ tokens' = capacity' /\ now' = now
          /\ \A u \in 0 .. MaxTime : log'[u] = 0
      BY <1>2 DEF Reset, NoneAllowed
    <2>3. Full'
      BY <2>1, <2>2 DEF Full
    <2>4. Full' => Tightest'
      BY FullTightest, PTL
    <2>5. QED BY <2>3, <2>4
  <1>3. CASE Tick
    BY <1>3 DEF Tick, Tightest, Slack, Left
  <1>4. CASE UNCHANGED vars
    BY <1>4 DEF vars, Tightest, Slack, Left
  <1> QED BY <1>1, <1>2, <1>3, <1>4 DEF Next

\* A packet passes just if every interval that ends with it stays within the burst and the
\* rate (ratelimit.c:29-43): the bucket is neither laxer nor stricter than the envelope.
THEOREM AdmitsWhatConforms == Spec => AdmitsIffConforms
  <1>1. Init => TypeOK /\ Tightest
    BY InitTypeOK, InitTightest
  <1>2. (TypeOK /\ Tightest) /\ [Next]_vars => (TypeOK /\ Tightest)'
    BY NextTypeOK, NextTightest
  <1>3. (TypeOK /\ Tightest) /\ [Next]_vars
          => [/\ allowed' > allowed => Conforms
              /\ dropped' > dropped => ~Conforms]_vars
    <2> SUFFICES ASSUME TypeOK, Tightest, Next
                 PROVE  /\ allowed' > allowed => Conforms
                        /\ dropped' > dropped => ~Conforms
      OBVIOUS
    <2>1. allowed \in Nat /\ dropped \in Nat /\ Unit \in Nat
      BY Numbers
    <2>2. CASE Check
      <3>1. \/ Refilled >= Unit /\ allowed' = allowed + 1 /\ dropped' = dropped
            \/ Refilled < Unit /\ allowed' = allowed /\ dropped' = dropped + 1
        BY <2>2 DEF Check
      <3>2. Refilled \in Int
        BY RefilledBounds, Numbers
      <3>3. QED BY <2>1, <3>1, <3>2, ConformsIs
    <2>3. CASE Reset
      BY <2>1, <2>3 DEF Reset
    <2>4. CASE Tick
      BY <2>1, <2>4 DEF Tick
    <2>5. QED BY <2>2, <2>3, <2>4 DEF Next
  <1> QED BY <1>1, <1>2, <1>3, PTL DEF Spec, AdmitsIffConforms
=============================================================================
