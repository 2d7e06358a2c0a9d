-------------------------- MODULE Conntrack_proofs --------------------------
(***************************************************************************)
(* Proofs about Conntrack, for every table size, key set and hash.         *)
(***************************************************************************)
EXTENDS Conntrack, TableLemmas

LEMMA Wrap ==
    ASSUME NEW c \in Nat \ {0}, NEW x \in Nat, x < c + c
    PROVE  x % c = IF x < c THEN x ELSE x - c
BY SMT

\* Two slots are never equally far from a key's home slot.
LEMMA DistInjective ==
    ASSUME NEW k \in Keys, NEW s \in Slots, NEW t \in Slots
    PROVE  /\ Dist(k, s) \in Nat
           /\ Dist(k, s) = Dist(k, t) => s = t
<1> DEFINE x(u) == u - Hash[k] + Size
<1>1. Size \in Nat \ {0} /\ Hash[k] \in 0 .. Size - 1
  BY ConntrackAssumption DEF Slots
<1>2. /\ x(s) \in Nat /\ x(s) < Size + Size
      /\ x(t) \in Nat /\ x(t) < Size + Size
  BY <1>1 DEF Slots
<1>3. /\ x(s) % Size = IF x(s) < Size THEN x(s) ELSE x(s) - Size
      /\ x(t) % Size = IF x(t) < Size THEN x(t) ELSE x(t) - Size
  BY <1>1, <1>2, Wrap
<1>4. QED BY <1>1, <1>2, <1>3 DEF Dist, Slots

\* FirstProbed picks the one closest slot of a set.
LEMMA FirstProbedIsFirst ==
    ASSUME NEW k \in Keys, NEW S \in SUBSET Slots, S # {}
    PROVE  /\ FirstProbed(k, S) \in S
           /\ \A t \in S : Dist(k, FirstProbed(k, S)) <= Dist(k, t)
<1> DEFINE D == {Dist(k, s) : s \in S}
<1>1. D \subseteq Nat /\ D # {}
  BY DistInjective
<1>2. PICK n \in D : \A m \in D : n <= m
  <2> HIDE DEF D
  <2>1. QED BY <1>1, Least
<1>4. PICK s \in S : n = Dist(k, s)
  OBVIOUS
<1>5. \A t \in S : Dist(k, s) <= Dist(k, t)
  BY <1>2, <1>4
<1>6. QED BY <1>5 DEF FirstProbed

LEMMA FirstProbedUnique ==
    ASSUME NEW k \in Keys, NEW S \in SUBSET Slots, NEW s \in S,
           \A t \in S : Dist(k, s) <= Dist(k, t)
    PROVE  FirstProbed(k, S) = s
<1>1. /\ FirstProbed(k, S) \in S
      /\ Dist(k, FirstProbed(k, S)) <= Dist(k, s)
      /\ Dist(k, s) <= Dist(k, FirstProbed(k, S))
  BY FirstProbedIsFirst
<1>2. QED BY <1>1, DistInjective

-----------------------------------------------------------------------------
LiveOf(k) == {s \in Live : entries[s].key = k}

TableOK == /\ entries \in [Slots -> Entry]
           /\ now \in Nat \ {0}
           /\ latest \in [Keys -> Nat]
           /\ \A s \in Slots : /\ entries[s].last <= now
                               /\ entries[s].first = 0 => /\ entries[s].state = "new"
                                                          /\ entries[s].key = NoKey

\* Nothing that lookup could return lies before a live entry of the same key,
\* except a live entry that is at least as recent.
Ordered == \A k \in Keys : \A s \in Matches(k), t \in LiveOf(k) :
              Dist(k, s) < Dist(k, t) => /\ s \in Live
                                        /\ entries[s].last >= entries[t].last

FirstIsLatest == \A k \in Keys :
                    LiveOf(k) # {} => entries[Lookup(k)].last = latest[k]

IInv == TableOK /\ CountIsLive /\ Ordered /\ FirstIsLatest

LEMMA SlotsFinite == IsFiniteSet(Slots)
BY FS_Interval, ConntrackAssumption DEF Slots

\* A slot is either taken over by a new connection or active.
LEMMA VacantOrActive ==
    ASSUME TableOK, NEW s \in Slots
    PROVE  Vacant(entries[s]) <=> s \notin Live
BY DEF TableOK, Entry, Vacant, Live, Active, Closed

\* A key with a live entry is found, and what is found is live.
LEMMA LookupLive ==
    ASSUME IInv, NEW k \in Keys, LiveOf(k) # {}
    PROVE  /\ Lookup(k) \in Matches(k) /\ Lookup(k) \in Live
           /\ \A t \in LiveOf(k) : entries[Lookup(k)].last >= entries[t].last
<1>1. LiveOf(k) \subseteq Matches(k) /\ Matches(k) \subseteq Slots
  BY DEF LiveOf, Live, Active, Matches
<1>2. /\ Lookup(k) \in Matches(k)
      /\ \A t \in Matches(k) : Dist(k, Lookup(k)) <= Dist(k, t)
  BY <1>1, FirstProbedIsFirst DEF Lookup
<1>3. ASSUME NEW t \in LiveOf(k)
      PROVE  Lookup(k) \in Live /\ entries[Lookup(k)].last >= entries[t].last
  <2>1. CASE Lookup(k) = t
    BY <2>1, <1>1 DEF LiveOf, IInv, TableOK, Entry
  <2>2. CASE Lookup(k) # t
    <3>1. Dist(k, Lookup(k)) < Dist(k, t)
      BY <1>1, <1>2, <2>2, DistInjective
    <3>2. QED BY <1>2, <3>1 DEF IInv, Ordered
  <2>3. QED BY <2>1, <2>2
<1>4. QED BY <1>2, <1>3

\* Recording another packet keeps the entry's key and makes it recent.
LEMMA AgainEntry ==
    ASSUME NEW e \in Entry, NEW d \in Dirs, now \in Nat
    PROVE  /\ Again(e, d) \in Entry
           /\ Again(e, d).key = e.key /\ Again(e, d).last = now
           /\ Again(e, d).first = e.first /\ Again(e, d).state = "established"
<1> DEFINE q == [e.pkts EXCEPT ![d] = @ + 1]
<1>1. q \in [Dirs -> Nat]
  BY DEF Entry
<1>2. Again(e, d) = [e EXCEPT !.last = now, !.state = "established", !.pkts = q]
  BY DEF Again
<1> HIDE DEF q
<1>3. QED BY <1>1, <1>2 DEF Entry

LEMMA InitIInv == Init => IInv
<1> SUFFICES ASSUME Init PROVE IInv
  OBVIOUS
<1>1. TableOK
  BY ConntrackAssumption DEF Init, TableOK, Entry, Unused, Nothing, Dirs
<1>2. Live = {}
  BY DEF Init, Live, Active, Unused
<1>3. QED BY <1>1, <1>2, FS_EmptySet
         DEF Init, IInv, CountIsLive, Ordered, FirstIsLatest, LiveOf

LEMMA StepIInv == IInv /\ [Next]_vars => IInv'
<1> SUFFICES ASSUME IInv, [Next]_vars PROVE IInv'
  OBVIOUS
<1> USE ConntrackAssumption
<1>0. IsFiniteSet(Live) /\ Cardinality(Live) \in Nat
  BY SlotsFinite, FS_Subset, FS_CardinalityType DEF Live
<1>1. ASSUME NEW k \in Keys, NEW d \in Dirs, Update(k, d) PROVE IInv'
  <2> DEFINE s0 == FirstProbed(k, Stops(k))
  <2>1. /\ s0 \in Slots /\ s0 \in Stops(k)
        /\ \A t \in Stops(k) : Dist(k, s0) <= Dist(k, t)
    BY <1>1, FirstProbedIsFirst DEF Update, Counted, Stops
  <2>2. latest' = [latest EXCEPT ![k] = now] /\ now' = now
    BY <1>1 DEF Update, Counted
  <2> DEFINE e == entries'[s0]
  <2>3. /\ entries' = [entries EXCEPT ![s0] = e]
        /\ e \in Entry /\ e.key = k /\ e.last = now /\ e.first # 0
        /\ e.state \in {"new", "established"}
    <3>1. CASE Vacant(entries[s0])
      <4>1. entries' = [entries EXCEPT ![s0] = Fresh(k, d)]
        BY <1>1, <3>1 DEF Update, Counted
      <4>2. Fresh(k, d) \in Entry
        BY DEF Fresh, Entry, Nothing, Dirs, IInv, TableOK
      <4>3. QED BY <2>1, <4>1, <4>2 DEF Fresh, IInv, TableOK
    <3>2. CASE ~Vacant(entries[s0])
      <4>1. /\ entries[s0].key = k /\ entries[s0].first # 0
            /\ entries[s0] \in Entry
        BY <2>1, <3>2 DEF Stops, Vacant, IInv, TableOK
      <4>2. entries' = [entries EXCEPT ![s0] = Again(entries[s0], d)]
        BY <1>1, <2>1, <3>2 DEF Update, Counted, IInv, TableOK
      <4>3. Again(entries[s0], d) \in Entry
        BY <4>1, AgainEntry DEF IInv, TableOK
      <4>4. QED BY <2>1, <4>1, <4>2, <4>3, AgainEntry DEF Entry, IInv, TableOK
    <3>3. QED BY <3>1, <3>2
  <2>4. Live' = Live \cup {s0}
    BY <2>1, <2>3 DEF Live, Active, Closed, IInv, TableOK
  <2> HIDE DEF s0, e
  <2>5. TableOK'
    BY <2>1, <2>2, <2>3 DEF IInv, TableOK
  <2>6. CountIsLive'
    <3>1. s0 \in Live => count' = count
      BY <1>1, <2>1, VacantOrActive DEF Update, Counted, s0, IInv
    <3>2. s0 \notin Live => count' = count + 1
      BY <1>1, <2>1, VacantOrActive DEF Update, Counted, s0, IInv
    <3>3. QED BY <1>0, <2>4, <3>1, <3>2, FS_AddElement DEF IInv, CountIsLive
  <2>7. Matches(k)' = Matches(k) \cup {s0} /\ LiveOf(k)' = LiveOf(k) \cup {s0}
    BY <2>1, <2>3, <2>4 DEF Matches, LiveOf, IInv, TableOK, Live
  <2>8. ASSUME NEW j \in Keys \ {k}
        PROVE  Matches(j)' = Matches(j) \ {s0} /\ LiveOf(j)' = LiveOf(j)
    <3>1. s0 \notin LiveOf(j)
      BY <2>1, VacantOrActive DEF Stops, LiveOf, IInv
    <3>2. QED BY <2>1, <2>3, <2>4, <3>1 DEF Matches, LiveOf, Live, IInv, TableOK
  <2>9. Ordered'
    <3>1. \A s \in Slots, j \in Keys : Dist(j, s)' = Dist(j, s)
      BY DEF Dist
    <3>2. ASSUME NEW s \in Matches(k)', NEW t \in LiveOf(k)', Dist(k, s) < Dist(k, t)
          PROVE  s \in Live' /\ entries'[s].last >= entries'[t].last
      <4>1. CASE s = s0
        <5>1. entries'[t].last <= now
          BY <2>2, <2>5, <3>2 DEF TableOK, LiveOf, Live
        <5>2. QED BY <2>1, <2>3, <2>4, <4>1, <5>1, <3>2 DEF TableOK, Entry, IInv, LiveOf, Live
      <4>2. CASE s # s0 /\ t = s0
        <5>1. s \in Stops(k)
          BY <2>7, <3>2, <4>2 DEF Matches, Stops
        <5>2. QED BY <2>1, <3>2, <4>2, <5>1, DistInjective DEF Stops
      <4>3. CASE s # s0 /\ t # s0
        <5>1. s \in Matches(k) /\ t \in LiveOf(k)
          BY <2>7, <3>2, <4>3
        <5>2. entries'[s] = entries[s] /\ entries'[t] = entries[t]
          BY <2>3, <4>3, <5>1 DEF IInv, TableOK, Matches, LiveOf, Live
        <5>3. QED BY <2>4, <3>2, <5>1, <5>2 DEF IInv, Ordered
      <4>4. QED BY <4>1, <4>2, <4>3
    <3>3. ASSUME NEW j \in Keys \ {k}, NEW s \in Matches(j)', NEW t \in LiveOf(j)',
                 Dist(j, s) < Dist(j, t)
          PROVE  s \in Live' /\ entries'[s].last >= entries'[t].last
      <4>1. s \in Matches(j) /\ t \in LiveOf(j) /\ s # s0 /\ t # s0
        BY <2>4, <2>8, <3>3, <2>1, <2>3 DEF LiveOf, Live, IInv, TableOK
      <4>2. entries'[s] = entries[s] /\ entries'[t] = entries[t]
        BY <2>3, <4>1 DEF IInv, TableOK, Matches, LiveOf, Live
      <4>3. QED BY <2>4, <3>3, <4>1, <4>2 DEF IInv, Ordered
    <3>4. QED BY <3>1, <3>2, <3>3 DEF Ordered
  <2>10. FirstIsLatest'
    <3>1. Lookup(k)' = s0
      <4>1. /\ s0 \in Matches(k)' /\ Matches(k)' \in SUBSET Slots
            /\ \A u \in Matches(k)' : Dist(k, s0) <= Dist(k, u)
        BY <2>1, <2>7, DistInjective DEF Matches, Stops
      <4>2. FirstProbed(k, Matches(k)') = s0
        BY <4>1, FirstProbedUnique
      <4>3. QED BY <4>2 DEF Lookup, FirstProbed, Dist
    <3>2. ASSUME NEW j \in Keys \ {k}, LiveOf(j)' # {}
          PROVE  Lookup(j)' = Lookup(j) /\ Lookup(j) # s0 /\ Lookup(j) \in Slots
      <4>1. LiveOf(j) # {} /\ Matches(j) \in SUBSET Slots
        BY <2>8, <3>2 DEF Matches
      <4>2. Lookup(j) \in Matches(j) /\ Lookup(j) \in LiveOf(j)
        BY <4>1, LookupLive DEF LiveOf, Matches
      <4>3. Lookup(j) # s0
        BY <2>1, <4>2, VacantOrActive DEF Stops, LiveOf, IInv
      <4>4. \A u \in Matches(j) : Dist(j, Lookup(j)) <= Dist(j, u)
        BY <4>1, <4>2, FirstProbedIsFirst DEF Lookup
      <4>5. FirstProbed(j, Matches(j) \ {s0}) = Lookup(j)
        BY <4>1, <4>2, <4>3, <4>4, FirstProbedUnique
      <4>6. QED BY <2>8, <4>1, <4>2, <4>3, <4>5 DEF Lookup, FirstProbed, Dist
    <3>3. QED BY <2>1, <2>2, <2>3, <2>8, <3>1, <3>2 DEF FirstIsLatest, IInv, TableOK
  <2>11. QED BY <2>5, <2>6, <2>9, <2>10 DEF IInv
<1>2. ASSUME NEW t \in Timeouts, Expire(t) PROVE IInv'
  <2>1. /\ \A s \in Slots : entries'[s] = IF s \in Stale(t)
                                        THEN [entries[s] EXCEPT !.state = "closed"]
                                        ELSE entries[s]
        /\ latest' = latest /\ now' = now
    BY <1>2 DEF Expire
  <2>2. TableOK'
    <3>1. \A s \in Slots : [entries[s] EXCEPT !.state = "closed"] \in Entry
      BY DEF IInv, TableOK, Entry
    <3>2. entries' \in [Slots -> Entry]
      BY <1>2, <3>1 DEF Expire, IInv, TableOK
    <3>3. \A s \in Slots : /\ entries'[s].key = entries[s].key
                           /\ entries'[s].first = entries[s].first
                           /\ entries'[s].last = entries[s].last
                           /\ entries[s].first = 0 => entries'[s] = entries[s]
      BY <2>1 DEF IInv, TableOK, Entry, Stale, Active
    <3>4. QED BY <2>1, <3>2, <3>3 DEF IInv, TableOK
  <2>3. Live' = Live \ Stale(t) /\ Stale(t) \subseteq Live
    BY <2>1 DEF Live, Stale, Active, Closed, IInv, TableOK, Entry
  <2>4. CountIsLive'
    <3>1. Live \cap Stale(t) = Stale(t)
      BY <2>3
    <3>2. Cardinality(Live \ Stale(t)) = Cardinality(Live) - Cardinality(Stale(t))
      BY <1>0, <3>1, FS_Difference
    <3>3. QED BY <1>2, <2>3, <3>2 DEF Expire, IInv, CountIsLive
  <2>5. /\ \A k \in Keys : /\ Matches(k)' = Matches(k) /\ Lookup(k)' = Lookup(k)
                            /\ LiveOf(k)' = LiveOf(k) \ Stale(t)
        /\ \A s \in Slots : entries'[s].last = entries[s].last
    <3>1. \A s \in Slots : /\ entries'[s].key = entries[s].key
                           /\ entries'[s].first = entries[s].first
                           /\ entries'[s].last = entries[s].last
      BY <2>1 DEF IInv, TableOK, Entry
    <3>2. \A k \in Keys : Matches(k)' = Matches(k)
      BY <3>1 DEF Matches
    <3>3. QED BY <2>3, <3>1, <3>2 DEF LiveOf, Live, Lookup, FirstProbed, Dist
  \* A live entry that is at least as recent as one that stays, stays.
  <2>6. ASSUME NEW s \in Live, NEW u \in Live \ Stale(t), entries[s].last >= entries[u].last
        PROVE  s \notin Stale(t)
    BY <2>6, ConntrackAssumption DEF Live, Stale, IInv, TableOK, Entry
  <2>7. Ordered'
    <3> SUFFICES ASSUME NEW k \in Keys, NEW s \in Matches(k), NEW u \in LiveOf(k) \ Stale(t),
                        Dist(k, s) < Dist(k, u)
                 PROVE  s \in Live \ Stale(t) /\ entries[s].last >= entries[u].last
      BY <2>3, <2>5 DEF Ordered, Dist, Matches, LiveOf, Live
    <3>1. s \in Live /\ entries[s].last >= entries[u].last
      BY DEF IInv, Ordered
    <3>2. QED BY <2>6, <3>1 DEF LiveOf
  <2>8. FirstIsLatest'
    <3> SUFFICES ASSUME NEW k \in Keys, LiveOf(k) \ Stale(t) # {}
                 PROVE  entries'[Lookup(k)].last = latest[k]
      BY <2>1, <2>5 DEF FirstIsLatest
    <3>1. Lookup(k) \in Slots
      BY LookupLive DEF Live
    <3>2. QED BY <2>5, <3>1 DEF IInv, FirstIsLatest
  <2>9. QED BY <2>2, <2>4, <2>7, <2>8 DEF IInv
<1>3. CASE Restart
  <2>1. TableOK'
    BY <1>3 DEF Restart, IInv, TableOK, Entry, Unused, Nothing, Dirs
  <2>2. Live' = {}
    BY <1>3 DEF Restart, Live, Active, Unused
  <2>3. QED BY <1>3, <2>1, <2>2, FS_EmptySet
           DEF Restart, IInv, CountIsLive, Ordered, FirstIsLatest, LiveOf
<1>4. CASE Tick
  <2>1. Live' = Live /\ \A k \in Keys : Matches(k)' = Matches(k) /\ LiveOf(k)' = LiveOf(k)
    BY <1>4 DEF Tick, Live, Matches, LiveOf
  <2>2. QED BY <1>4, <2>1 DEF Tick, IInv, TableOK, Entry, CountIsLive, Ordered, FirstIsLatest, Lookup
<1>5. CASE UNCHANGED vars
  <2>1. Live' = Live /\ \A k \in Keys : Matches(k)' = Matches(k) /\ LiveOf(k)' = LiveOf(k)
    BY <1>5 DEF vars, Live, Matches, LiveOf
  <2>2. QED BY <1>5, <2>1 DEF vars, IInv, TableOK, CountIsLive, Ordered, FirstIsLatest, Lookup
<1>6. QED BY <1>1, <1>2, <1>3, <1>4, <1>5 DEF Next

LEMMA Invariant == Spec => []IInv
BY InitIInv, StepIInv, PTL DEF Spec

\* conntrack_count is the number of active entries of a table of any size,
\* whatever its hash.
THEOREM CountAlwaysLive == Spec => []CountIsLive
BY Invariant, PTL DEF IInv

\* A live connection is found, with its latest packet, whatever entries
\* collided, expired or were taken over before.
THEOREM LookupAlwaysLatest == Spec => []LookupIsLatest
<1>1. IInv => LookupIsLatest
  <2> SUFFICES ASSUME IInv, NEW k \in Keys, NEW s \in Live, entries[s].key = k
               PROVE  Lookup(k) \in Live /\ entries[Lookup(k)].last = latest[k]
    BY DEF LookupIsLatest
  <2>1. LiveOf(k) # {}
    BY DEF LiveOf
  <2>2. QED BY <2>1, LookupLive DEF IInv, FirstIsLatest
<1>2. QED BY <1>1, Invariant, PTL
-----------------------------------------------------------------------------
\* The packets of each live entry, with what has expired, are all there were.
PacketsOK == /\ accepted \in [Dirs -> Nat] /\ retired \in [Dirs -> Nat]
             /\ Conservation

\* A sum over entries is a number, and can be taken apart.
LEMMA PacketsSum ==
    ASSUME TableOK, NEW S \in SUBSET Slots, NEW d \in Dirs
    PROVE  /\ Packets(S, d) \in Nat
           /\ S = {} => Packets(S, d) = 0
           /\ \A s \in S : Packets(S, d) = entries[s].pkts[d] + Packets(S \ {s}, d)
           /\ \A T \in SUBSET S : Packets(S, d) = Packets(T, d) + Packets(S \ T, d)
<1>1. PICK f : f = [s \in Slots |-> entries[s].pkts[d]]
  OBVIOUS
<1>2. \A s \in Slots : f[s] = entries[s].pkts[d] /\ f[s] \in Nat
  BY <1>1 DEF TableOK, Entry
<1>3. IsFiniteSet(S) /\ \A s \in S : f[s] \in Nat
  BY <1>2, SlotsFinite, FS_Subset
<1>4. \A T : Packets(T, d) = SumFunctionOnSet(f, T)
  BY <1>1 DEF Packets
<1>5. /\ SumFunctionOnSet(f, S) \in Nat
      /\ S = {} => SumFunctionOnSet(f, S) = 0
      /\ \A s \in S : SumFunctionOnSet(f, S) = f[s] + SumFunctionOnSet(f, S \ {s})
  BY <1>3, SumRemove
<1>6. \A T \in SUBSET S : SumFunctionOnSet(f, S) = SumFunctionOnSet(f, T) + SumFunctionOnSet(f, S \ T)
  BY <1>3, SumSplit
<1>7. QED BY <1>2, <1>4, <1>5, <1>6

LEMMA PacketsSumNext ==
    ASSUME TableOK', NEW S \in SUBSET Slots, NEW d \in Dirs
    PROVE  /\ Packets(S, d)' \in Nat
           /\ S = {} => Packets(S, d)' = 0
           /\ \A s \in S : Packets(S, d)' = entries'[s].pkts[d] + Packets(S \ {s}, d)'
<1>1. PICK f : f = [s \in Slots |-> entries'[s].pkts[d]]
  OBVIOUS
<1>2. \A s \in Slots : f[s] = entries'[s].pkts[d] /\ f[s] \in Nat
  BY <1>1 DEF TableOK, Entry
<1>3. IsFiniteSet(S) /\ \A s \in S : f[s] \in Nat
  BY <1>2, SlotsFinite, FS_Subset
<1>4. \A T \in SUBSET Slots : Packets(T, d)' = SumFunctionOnSet(f, T)
  BY <1>1 DEF Packets
<1>5. /\ SumFunctionOnSet(f, S) \in Nat
      /\ S = {} => SumFunctionOnSet(f, S) = 0
      /\ \A s \in S : SumFunctionOnSet(f, S) = f[s] + SumFunctionOnSet(f, S \ {s})
  BY <1>3, SumRemove
<1>6. QED BY <1>2, <1>4, <1>5

LEMMA StepPackets == IInv /\ IInv' /\ PacketsOK /\ [Next]_vars => PacketsOK'
<1> SUFFICES ASSUME IInv, IInv', PacketsOK, [Next]_vars PROVE PacketsOK'
  OBVIOUS
<1>0. TableOK /\ TableOK' /\ Live \in SUBSET Slots /\ Live' \in SUBSET Slots
  BY DEF IInv, Live
<1>1. ASSUME NEW k \in Keys, NEW d \in Dirs, Update(k, d) PROVE PacketsOK'
  <2>1. PICK s0 : s0 = FirstProbed(k, Stops(k))
    OBVIOUS
  <2>2. s0 \in Slots /\ s0 \in Stops(k)
    BY <1>1, <2>1, FirstProbedIsFirst DEF Update, Stops
  <2>3. entries' = [entries EXCEPT ![s0] = IF Vacant(entries[s0]) THEN Fresh(k, d)
                                           ELSE Again(entries[s0], d)]
    BY <1>1, <2>1 DEF Update
  <2>4. PICK e : e = entries'[s0]
    OBVIOUS
  <2>5. \A s \in Slots : entries'[s] = IF s = s0 THEN e ELSE entries[s]
    BY <1>0, <2>2, <2>3, <2>4 DEF TableOK
  <2>6. /\ e.first # 0 /\ e.state \in {"new", "established"}
        /\ \A c \in Dirs : e.pkts[c] = (IF s0 \in Live THEN entries[s0].pkts[c] ELSE 0)
                                       + (IF c = d THEN 1 ELSE 0)
    <3>1. CASE Vacant(entries[s0])
      <4>1. e = Fresh(k, d) /\ s0 \notin Live /\ now # 0
        BY <1>0, <2>2, <2>3, <2>4, <3>1, VacantOrActive DEF TableOK
      <4>2. QED BY <4>1 DEF Fresh, Nothing, Dirs
    <3>2. CASE ~Vacant(entries[s0])
      <4>1. e = Again(entries[s0], d) /\ s0 \in Live /\ entries[s0] \in Entry
        BY <1>0, <2>2, <2>3, <2>4, <3>2, VacantOrActive DEF TableOK
      <4>2. entries[s0].pkts \in [Dirs -> Nat] /\ entries[s0].first # 0
        BY <4>1 DEF Entry, Live, Active
      <4>3. e.first = entries[s0].first /\ e.state = "established"
        BY <1>0, <4>1, AgainEntry DEF TableOK
      <4>4. e.pkts = [entries[s0].pkts EXCEPT ![d] = @ + 1]
        BY <4>1 DEF Again, Entry
      <4>5. QED BY <4>1, <4>2, <4>3, <4>4
    <3>3. QED BY <3>1, <3>2
  <2>7. Live' = Live \cup {s0}
    BY <2>2, <2>5, <2>6 DEF Live, Active, Closed
  <2>8. ASSUME NEW c \in Dirs
        PROVE  Packets(Live, c)' = Packets(Live, c) + (IF c = d THEN 1 ELSE 0)
    <3>1. PICK R : R = Live \ {s0}
      OBVIOUS
    <3>2. R \in SUBSET Slots
      BY <1>0, <3>1
    <3>3. Packets(Live, c)' = e.pkts[c] + Packets(R, c)'
      <4>1. Live' \ {s0} = R /\ s0 \in Live'
        BY <2>7, <3>1
      <4>2. \A S \in SUBSET Slots : \A s \in S :
               Packets(S, c)' = entries'[s].pkts[c] + Packets(S \ {s}, c)'
        BY <1>0, PacketsSumNext
      <4>3. QED BY <1>0, <2>4, <4>1, <4>2
    <3>4. Packets(R, c)' = Packets(R, c)
      <4>1. PICK f, g : /\ f = [s \in Slots |-> entries[s].pkts[c]]
                        /\ g = [s \in Slots |-> entries'[s].pkts[c]]
        OBVIOUS
      <4>2. \A s \in R : f[s] \in Nat /\ g[s] = f[s]
        BY <1>0, <2>5, <3>1, <3>2, <4>1 DEF TableOK, Entry
      <4>3. IsFiniteSet(R)
        BY <3>2, SlotsFinite, FS_Subset
      <4>4. SumFunctionOnSet(f, R) = SumFunctionOnSet(g, R)
        BY <4>2, <4>3, SumSame
      <4>5. QED BY <4>1, <4>4 DEF Packets
    <3>5. Packets(Live, c) = (IF s0 \in Live THEN entries[s0].pkts[c] ELSE 0) + Packets(R, c)
      <4>1. CASE s0 \in Live
        BY <1>0, <3>1, <4>1, PacketsSum
      <4>2. CASE s0 \notin Live
        BY <1>0, <3>1, <3>2, <4>2, PacketsSum
      <4>3. QED BY <4>1, <4>2
    <3>6. Packets(R, c) \in Nat /\ (s0 \in Live => entries[s0].pkts[c] \in Nat)
      BY <1>0, <2>2, <3>2, PacketsSum DEF TableOK, Entry
    <3>7. QED BY <2>6, <3>3, <3>4, <3>5, <3>6
  <2>9. accepted' = [accepted EXCEPT ![d] = @ + 1] /\ retired' = retired
    BY <1>1 DEF Update
  <2>10. \A c \in Dirs : Packets(Live, c) \in Nat
    BY <1>0, PacketsSum
  <2>11. Conservation'
    BY <2>8, <2>9, <2>10 DEF PacketsOK, Conservation
  <2>12. QED BY <2>9, <2>11 DEF PacketsOK
<1>2. ASSUME NEW t \in Timeouts, Expire(t) PROVE PacketsOK'
  <2>1. /\ \A s \in Slots : entries'[s] = IF s \in Stale(t)
                                        THEN [entries[s] EXCEPT !.state = "closed"]
                                        ELSE entries[s]
        /\ accepted' = accepted
        /\ retired' = [d \in Dirs |-> retired[d] + Packets(Stale(t), d)]
    BY <1>2 DEF Expire
  <2>2. Stale(t) \in SUBSET Live /\ Stale(t) \in SUBSET Slots
    BY DEF Stale, Live
  <2>3. Live' = Live \ Stale(t)
    BY <1>0, <2>1 DEF Live, Stale, Active, Closed, TableOK, Entry
  <2>4. ASSUME NEW d \in Dirs
        PROVE  /\ Packets(Live, d) = Packets(Stale(t), d) + Packets(Live, d)'
               /\ Packets(Stale(t), d) \in Nat /\ Packets(Live, d)' \in Nat
    <3>1. \A s \in Slots : entries'[s].pkts[d] = entries[s].pkts[d]
      BY <1>0, <2>1 DEF TableOK, Entry
    <3>2. [s \in Slots |-> entries'[s].pkts[d]] = [s \in Slots |-> entries[s].pkts[d]]
      BY <3>1
    <3>3. Packets(Live, d)' = Packets(Live \ Stale(t), d)
      BY <2>3, <3>2 DEF Packets
    <3>4. QED BY <1>0, <2>2, <3>3, PacketsSum
  <2>5. retired' \in [Dirs -> Nat]
    BY <2>1, <2>4 DEF PacketsOK
  <2>6. Conservation'
    <3> SUFFICES ASSUME NEW d \in Dirs
                 PROVE  accepted'[d] = retired'[d] + Packets(Live, d)'
      BY DEF Conservation
    <3>1. accepted[d] = retired[d] + Packets(Live, d) /\ retired[d] \in Nat
      BY DEF PacketsOK, Conservation
    <3>2. QED BY <2>1, <2>4, <3>1
  <2>7. QED BY <2>1, <2>5, <2>6 DEF PacketsOK
<1>3. CASE Restart
  <2>1. accepted' = Nothing /\ retired' = Nothing /\ Live' = {}
    BY <1>3 DEF Restart, Live, Active, Unused
  <2>2. \A d \in Dirs : Packets(Live, d)' = 0
    BY <1>0, <2>1, PacketsSumNext
  <2>3. QED BY <2>1, <2>2 DEF PacketsOK, Conservation, Nothing
<1>4. CASE Tick
  BY <1>4 DEF Tick, PacketsOK, Conservation, Packets, Live
<1>5. CASE UNCHANGED vars
  BY <1>5 DEF vars, PacketsOK, Conservation, Packets, Live
<1>6. QED BY <1>1, <1>2, <1>3, <1>4, <1>5 DEF Next

LEMMA PacketsInvariant == Spec => [](IInv /\ PacketsOK)
<1>1. Init => IInv /\ PacketsOK
  <2> SUFFICES ASSUME Init PROVE IInv /\ PacketsOK
    OBVIOUS
  <2>1. TableOK /\ Live = {} /\ IInv
    BY InitIInv DEF IInv, Init, Live, Active, Unused
  <2>2. \A d \in Dirs : Packets(Live, d) = 0
    BY <2>1, PacketsSum
  <2>3. QED BY <2>1, <2>2 DEF Init, PacketsOK, Conservation, Nothing
<1>2. QED BY <1>1, StepIInv, StepPackets, PTL DEF Spec

\* Every packet recorded is counted by one live entry until that expires, in
\* its direction, for every table size and hash.
THEOREM PacketsConserved == Spec => []Conservation
BY PacketsInvariant, PTL DEF PacketsOK

\* Every variable keeps its type; the count never goes below zero, though
\* it is decremented for each entry expired.
THEOREM TypesKept == Spec => []TypeOK
<1>1. IInv /\ PacketsOK => TypeOK
  <2> SUFFICES ASSUME IInv, PacketsOK PROVE TypeOK
    OBVIOUS
  <2>1. count \in Nat
    BY SlotsFinite, FS_Subset, FS_CardinalityType DEF Live, IInv, CountIsLive
  <2>2. QED BY <2>1 DEF TypeOK, IInv, TableOK, PacketsOK
<1>2. QED BY <1>1, PacketsInvariant, PTL
=============================================================================
