------------------------------ MODULE FragTrack ------------------------------
(***************************************************************************)
(* src/fragtrack.c: the tracker that decides, without keeping any bytes,   *)
(* whether all fragments of an IP datagram have passed.  It adds up sizes. *)
(* Its environment is a network that delivers the fragments of a few       *)
(* datagrams in any order, and may repeat them.                            *)
(***************************************************************************)
EXTENDS Integers, FiniteSets, SwapArray

CONSTANTS Keys,        \* <<src, dst, ip_id, protocol>>
          Cut,         \* Cut[k]: the fragments datagram k was cut into
          MaxEntries,  \* FRAGTRACK_MAX_ENTRIES
          MaxFrags,    \* FRAGTRACK_MAX_FRAGS
          Timeout,     \* FRAGTRACK_TIMEOUT_SEC
          MaxTime,     \* bound on the clock
          MaxAdds      \* bound on the calls of fragtrack_add

Uint16Max == 65535

Fragment == [offset : 0 .. Uint16Max, size : 0 .. Uint16Max, more : BOOLEAN]

\* How long the datagram cut into F is.
SizeOf(F) == SumFunctionOnSet([f \in F |-> f.size], F)

\* What the constants are: a datagram is cut into pieces without a gap or an
\* overlap, the last of which says so.
FragTrackAssumption ==
    /\ Cut \in [Keys -> SUBSET Fragment]
    /\ \A k \in Keys :
          /\ IsFiniteSet(Cut[k]) /\ \E f \in Cut[k] : ~f.more
          /\ \A f \in Cut[k] : f.size > 0 /\ (~f.more => f.offset + f.size = SizeOf(Cut[k]))
          /\ SizeOf(Cut[k]) <= Uint16Max
    /\ MaxEntries \in Nat \ {0} /\ MaxFrags \in Nat \ {0} /\ Timeout \in Nat
    /\ MaxTime \in Nat /\ MaxAdds \in Nat

VARIABLES entries,      \* the array, count entries of it
          reassembled, dropped, expired,
          now,          \* time(NULL)
          adds,         \* bound: calls of fragtrack_add so far
          created,      \* history: entries ever put into the table
          done          \* history: of those, removed or expired complete

vars == <<entries, reassembled, dropped, expired, now, adds, created, done>>

Init == /\ entries = <<>>
        /\ reassembled = 0 /\ dropped = 0 /\ expired = 0
        /\ now = 0
        /\ adds = 0
        /\ created = 0 /\ done = 0

Of(k, es) == {i \in DOMAIN es : es[i].key = k}
Empty(k) == [key |-> k, frags |-> <<>>, total |-> 0, complete |-> FALSE, last |-> now]

\* fragtrack.c:74: idle for more than the timeout at time t.
IsStale(e, t) == t - e.last > Timeout
Swept(t) == Sweep(entries, {e \in ToSet(entries) : IsStale(e, t)})
StaleAt(t) == {i \in DOMAIN entries : IsStale(entries[i], t)}

\* The counters fragtrack_expire moves.
CountExpired(t) ==
    /\ expired' = expired + Cardinality({i \in StaleAt(t) : ~entries[i].complete})
    /\ done' = done + Cardinality({i \in StaleAt(t) : entries[i].complete})

\* The sum of the sizes, a uint16_t.
Covered(frags) ==
    SumFunctionOnSet([i \in DOMAIN frags |-> frags[i].size], DOMAIN frags) % (Uint16Max + 1)

\* Mutant of Whole: the last fragment alone completes the datagram.
WholeWhenLast(e) == e.total > 0

Whole(e) == e.total > 0 /\ Covered(e.frags) >= e.total

\* An entry after fragment f is recorded in it.
Record(e, f) ==
    LET r == [e EXCEPT !.frags = Append(@, f), !.last = now,
                       !.total = IF f.more THEN @ ELSE (f.offset + f.size) % (Uint16Max + 1)]
    IN  [r EXCEPT !.complete = @ \/ Whole(r)]

\* Mutant of Place: a new entry is added though the key has one.
PlaceAlways(k, es) == Append(es, Empty(k))

\* The array with an entry for k.
Place(k, es) == IF Of(k, es) = {} THEN Append(es, Empty(k)) ELSE es

\* Mutant of TableFull: one entry too many.
TableFullLate(es) == Len(es) > MaxEntries

TableFull(es) == Len(es) >= MaxEntries

\* fragtrack_add, which first expires what is stale.
Add(k, f) ==
    /\ adds < MaxAdds
    /\ adds' = adds + 1
    /\ CountExpired(now)
    /\ LET es == Swept(now) IN
       IF Of(k, es) = {} /\ TableFull(es)
       THEN /\ dropped' = dropped + 1
            /\ entries' = es
            /\ UNCHANGED <<reassembled, created>>
       ELSE LET placed == Place(k, es)
                i == Min(Of(k, placed))
                r == Record(placed[i], f)
            IN  /\ created' = created + Len(placed) - Len(es)
                /\ IF Len(placed[i].frags) >= MaxFrags
                   THEN /\ dropped' = dropped + 1
                        /\ entries' = placed
                        /\ UNCHANGED reassembled
                   ELSE /\ entries' = [placed EXCEPT ![i] = r]
                        /\ reassembled' = IF Whole(r) THEN reassembled + 1 ELSE reassembled
                        /\ UNCHANGED dropped
    /\ UNCHANGED now

\* fragtrack_expire with the caller's idea of the time, which may be ahead.
Expire(t) == /\ entries' = Swept(t)
             /\ CountExpired(t)
             /\ UNCHANGED <<reassembled, dropped, now, adds, created>>

\* fragtrack_remove
RemoveEntry(k) ==
    /\ Of(k, entries) # {}
    /\ entries' = SwapOut(entries, Min(Of(k, entries)))
    /\ done' = done + 1
    /\ UNCHANGED <<reassembled, dropped, expired, now, adds, created>>

Tick == /\ now < MaxTime
        /\ now' = now + 1
        /\ UNCHANGED <<entries, reassembled, dropped, expired, adds, created, done>>

Next == \/ \E k \in Keys : \E f \in Cut[k] : Add(k, f)
        \/ \E t \in now .. now + 1 : Expire(t)
        \/ \E k \in Keys : RemoveEntry(k)
        \/ Tick

Spec == Init /\ [][Next]_vars

-----------------------------------------------------------------------------
\* Every variable has its type; the arrays keep to their declared sizes
\* (fragtrack.h:8-10).
TypeOK ==
    /\ entries \in Seq([key : Keys, frags : Seq(Fragment), total : 0 .. Uint16Max,
                        complete : BOOLEAN, last : Nat])
    /\ Len(entries) <= MaxEntries
    /\ \A i \in DOMAIN entries : Len(entries[i].frags) <= MaxFrags
    /\ {reassembled, dropped, expired, now, adds, created, done} \subseteq Nat

\* Entries are never lost or doubled by the swap that frees one
\* (fragtrack.c:77, 90): all ever created are held, expired or done with, and
\* no datagram has two.
EntriesAccounted ==
    /\ created = Len(entries) + expired + done
    /\ \A k \in Keys : Cardinality(Of(k, entries)) <= 1

\* fragtrack_expire, alone or from fragtrack_add, frees the stale entries and
\* no others, wherever they stand in the array (fragtrack.c:73-81).
ExpireIsExact ==
    [][\A t \in now .. now + 1 : Expire(t) =>
           ToSet(entries') = {e \in ToSet(entries) : ~IsStale(e, t)}]_vars

Repeats(e) == Len(e.frags) > Cardinality(ToSet(e.frags))

\* An entry that holds no fragment twice is complete exactly when every
\* fragment of its datagram is in it, in whatever order they came:
\* tests/test_fragtrack.c:23 has a datagram incomplete while a fragment is
\* missing and :28 complete after the last.
CompleteIsWhole ==
    \A i \in DOMAIN entries : ~Repeats(entries[i]) =>
        (entries[i].complete <=> ToSet(entries[i].frags) = Cut[entries[i].key])

\* A datagram with a missing fragment is never complete, whatever is repeated
\* (tests/test_fragtrack.c:23 "assert(!fragtrack_is_complete").
NoHole == \A i \in DOMAIN entries :
             entries[i].complete => ToSet(entries[i].frags) = Cut[entries[i].key]
=============================================================================
