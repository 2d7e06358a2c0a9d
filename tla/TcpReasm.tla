------------------------------ MODULE TcpReasm ------------------------------
(***************************************************************************)
(* src/tcpreasm.c: TCP streams as lists of segments sorted by sequence     *)
(* number, in a fixed table of stream slots.  A caller holds the pointer   *)
(* tcpreasm_get_stream returned until that stream is freed or expired.     *)
(* Segments are never consumed: next_seq and reassembled are not used by   *)
(* the code, and last_seen is only ever zeroed.  Calls that change nothing *)
(* (NULL, no data, malloc failing, no free slot) are left out.             *)
(***************************************************************************)
EXTENDS Integers, Sequences, FiniteSets, FiniteSetsExt, SequencesExt

CONSTANTS Keys,       \* addresses and ports of a stream
          NoKey,      \* the zeroed key
          MaxStreams, \* TCPREASM_MAX_STREAMS
          MaxSegs,    \* TCPREASM_MAX_SEG_BUF
          Timeout,    \* TCPREASM_TIMEOUT_SEC
          Offsets,    \* places in a stream that segments start at
          First,      \* First[k]: the sequence number of offset 0
          SeqSpace,   \* 2^32, the range of a sequence number
          MaxTime,    \* bound on the caller's clock
          MaxCalls    \* bound on streams made, streams freed and segments

Slots == 1 .. MaxStreams

\* What the constants are.
TcpReasmAssumption ==
    /\ NoKey \notin Keys
    /\ MaxStreams \in Nat \ {0} /\ MaxSegs \in Nat \ {0} /\ Timeout \in Nat
    /\ SeqSpace \in Nat \ {0}
    /\ Offsets \subseteq Nat /\ First \in [Keys -> Nat]
    /\ MaxTime \in Nat /\ MaxCalls \in Nat

VARIABLES streams,       \* slot -> key, in_use, last_seen and segment list
          stream_count, dropped_ooo, expired,
          handle,        \* caller: the slot it holds for a key, or 0
          now,           \* caller: the clock it passes to tcpreasm_expire
          calls,         \* bound
          allocated, freed,  \* history: segments allocated and freed
          unreported     \* history: streams freed by their owners

vars == <<streams, stream_count, dropped_ooo, expired, handle, now, calls,
          allocated, freed, unreported>>

Zeroed == [key |-> NoKey, in_use |-> FALSE, last_seen |-> 0, segs |-> <<>>]

Init == /\ streams = [s \in Slots |-> Zeroed]
        /\ stream_count = 0 /\ dropped_ooo = 0 /\ expired = 0
        /\ handle = [k \in Keys |-> 0]
        /\ now = 0 /\ calls = 0 /\ allocated = 0 /\ freed = 0
        /\ unreported = 0

InUse == {s \in Slots : streams[s].in_use}
Idle == Slots \ InUse
Of(k) == {s \in InUse : streams[s].key = k}

GetStream(k) ==
    \/ /\ Of(k) # {}
       /\ handle' = [handle EXCEPT ![k] = Min(Of(k))]
       /\ UNCHANGED <<streams, stream_count, dropped_ooo, expired, now, calls,
                      allocated, freed, unreported>>
    \/ /\ Of(k) = {} /\ Idle # {} /\ calls < MaxCalls
       /\ calls' = calls + 1
       /\ handle' = [handle EXCEPT ![k] = Min(Idle)]
       /\ streams' = [streams EXCEPT ![Min(Idle)] = [Zeroed EXCEPT !.key = k, !.in_use = TRUE]]
       /\ stream_count' = stream_count + 1
       /\ UNCHANGED <<dropped_ooo, expired, now, allocated, freed, unreported>>

Number(k, off) == (First[k] + off) % SeqSpace

\* Mutant of Insert: the new segment always becomes the head.
InsertFront(segs, seg) == <<seg>> \o segs

\* The new segment goes before the first one whose number is not smaller.
Insert(segs, seg) ==
    LET before == {i \in DOMAIN segs : \A j \in 1 .. i : segs[j].seq < seg.seq}
    IN  InsertAt(segs, Cardinality(before) + 1, seg)

Full(s) == Len(streams[s].segs) >= MaxSegs

AddSegment(k, off) ==
    /\ handle[k] # 0 /\ calls < MaxCalls
    /\ calls' = calls + 1
    /\ LET s == handle[k] IN
       \/ /\ Full(s)
          /\ dropped_ooo' = dropped_ooo + 1
          /\ UNCHANGED <<streams, allocated>>
       \/ /\ ~Full(s)
          /\ streams' = [streams EXCEPT ![s].segs =
                             Insert(@, [seq |-> Number(k, off), key |-> k, off |-> off])]
          /\ allocated' = allocated + 1
          /\ UNCHANGED dropped_ooo
    /\ UNCHANGED <<stream_count, expired, handle, now, freed, unreported>>

Released(S) == SumFunctionOnSet([s \in Slots |-> Len(streams[s].segs)], S)

\* Mutant of Emptied: the slot is given up with its list.
EmptiedNot(st) == [st EXCEPT !.in_use = FALSE]

Emptied(st) == [st EXCEPT !.segs = <<>>, !.in_use = FALSE]

\* tcpreasm_free_stream of the streams S: their lists are freed, the keys stay.
FreeAll(S) ==
    /\ streams' = [s \in Slots |-> IF s \in S THEN Emptied(streams[s]) ELSE streams[s]]
    /\ freed' = freed + Released(S)
    /\ handle' = [k \in Keys |-> IF handle[k] \in S THEN 0 ELSE handle[k]]

\* tcpreasm_free_stream called by the owner of the handle.
FreeStream(k) ==
    /\ handle[k] # 0 /\ calls < MaxCalls
    /\ calls' = calls + 1
    /\ FreeAll({handle[k]})
    /\ unreported' = unreported + 1
    /\ UNCHANGED <<stream_count, dropped_ooo, expired, now, allocated>>

Stale == {s \in InUse : now - streams[s].last_seen >= Timeout}

Expire ==
    /\ FreeAll(Stale)
    /\ stream_count' = stream_count - Cardinality(Stale)
    /\ expired' = expired + Cardinality(Stale)
    /\ UNCHANGED <<dropped_ooo, now, calls, allocated, unreported>>

Tick == /\ now < MaxTime
        /\ now' = now + 1
        /\ UNCHANGED <<streams, stream_count, dropped_ooo, expired, handle, calls,
                       allocated, freed, unreported>>

Next == \/ \E k \in Keys : GetStream(k) \/ FreeStream(k)
        \/ \E k \in Keys, off \in Offsets : AddSegment(k, off)
        \/ Expire
        \/ Tick

Spec == Init /\ [][Next]_vars

\* tcpreasm_get_data with a large buffer: every segment of the list in turn.
Data(s) == streams[s].segs

-----------------------------------------------------------------------------
\* Every variable has its type; no list is longer than its bound.
TypeOK ==
    /\ \A s \in Slots : /\ streams[s].key \in Keys \cup {NoKey}
                        /\ streams[s].in_use \in BOOLEAN
                        /\ Len(streams[s].segs) <= MaxSegs
    /\ {stream_count, dropped_ooo, expired, now, calls, allocated, freed} \subseteq Nat
    /\ handle \in [Keys -> Slots \cup {0}]

\* A handle leads to its key's stream, the only one in use for that key, and
\* the stream holds that key's segments only, though slots are reused.  Taking a
\* slot zeroes it (tcpreasm.c:24), which never forgets a list: every segment
\* malloc gave is on one until it is freed.  And stream_count is too high by just
\* the streams freed by their owners, whom tcpreasm.c:76-86 gives no access to it.
StreamsSeparate ==
    /\ \A k \in Keys : handle[k] # 0 => Of(k) = {handle[k]}
    /\ \A s \in Slots : \A i \in DOMAIN Data(s) : Data(s)[i].key = streams[s].key
    /\ allocated = freed + Released(Slots)
    /\ stream_count = Cardinality(InUse) + unreported

Wraps(k) == \E off \in Offsets : First[k] + off >= SeqSpace

\* tcpreasm_get_data copies the segments in the order of the stream, however
\* they arrived (tcpreasm.c:51), unless the stream's numbers wrap.
DataInOrder ==
    \A s \in InUse : ~Wraps(streams[s].key) => \A i, j \in DOMAIN Data(s) :
        i < j => Data(s)[i].off <= Data(s)[j].off
=============================================================================
