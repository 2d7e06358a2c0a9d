----------------------------- MODULE Reassembly -----------------------------
(***************************************************************************)
(* The three components that put pieces together: fragtrack.c, ipdefrag.c  *)
(* and tcpreasm.c.  They share no state, so they are explored one at a     *)
(* time, and what holds of one alone holds of it among the others.         *)
(***************************************************************************)
EXTENDS Integers

CONSTANTS Parts,       \* those that may run
          Keys, NoKey, \* datagrams or streams
          Tracked,     \* the fragments fragtrack.c sees of each datagram,
          TrackedMax, MaxFrags, TrackedTimeout, MaxTracked,  \* and its bounds
          Carried,     \* the fragments ipdefrag.c gets of each datagram,
          CarriedMax, MaxCarried,                            \* and its bounds
          Offsets, First, SeqSpace,  \* where TCP segments start,
          MaxStreams, MaxSegs, StreamTimeout, MaxCalls,      \* and tcpreasm.c's bounds
          MaxTime

VARIABLES part,  \* the one that runs
          entries, reassembled, dropped, expired, now, adds, created, done,
          frag_table, heap, content, got, ready, outside, frags_added,
          streams, stream_count, dropped_ooo, streams_expired, handle, clock, calls,
          allocated, freed, unreported

Frag == INSTANCE FragTrack WITH
            Cut <- Tracked, MaxEntries <- TrackedMax, Timeout <- TrackedTimeout,
            MaxAdds <- MaxTracked
Defrag == INSTANCE IpDefrag WITH
            entries <- frag_table, adds <- frags_added,
            Cut <- Carried, MaxEntries <- CarriedMax, MaxAdds <- MaxCarried
Tcp == INSTANCE TcpReasm WITH
            expired <- streams_expired, now <- clock, Timeout <- StreamTimeout

ASSUME ReassemblyAssumption == /\ Frag!FragTrackAssumption /\ Defrag!IpDefragAssumption
                               /\ Tcp!TcpReasmAssumption

fragVars == <<entries, reassembled, dropped, expired, now, adds, created, done>>
defragVars == <<frag_table, heap, content, got, ready, outside, frags_added>>
tcpVars == <<streams, stream_count, dropped_ooo, streams_expired, handle, clock, calls,
             allocated, freed, unreported>>
vars == <<part, fragVars, defragVars, tcpVars>>

Init == /\ part \in Parts
        /\ Frag!Init /\ Defrag!Init /\ Tcp!Init

\* A part that does not run stays as it is.
Only(t) == /\ part = t /\ UNCHANGED part
           /\ t # "fragtrack" => UNCHANGED fragVars
           /\ t # "ipdefrag" => UNCHANGED defragVars
           /\ t # "tcpreasm" => UNCHANGED tcpVars

Next == \/ Only("fragtrack") /\ Frag!Next
        \/ Only("ipdefrag") /\ Defrag!Next
        \/ Only("tcpreasm") /\ Tcp!Next

Spec == Init /\ [][Next]_vars

-----------------------------------------------------------------------------
\* Every part's variables have their types; the arrays keep to their sizes.
TypeOK == Frag!TypeOK /\ Defrag!TypeOK /\ Tcp!TypeOK

\* fragtrack.c: no entry is lost, a sweep is exact.
EntriesAccounted == Frag!EntriesAccounted
ExpireIsExact == Frag!ExpireIsExact

\* fragtrack.c: what is complete is the whole datagram; ipdefrag.c: what is handed
\* out is whole exactly when an add had said so.  Repeated fragments are excepted.
CompleteIsWhole == Frag!CompleteIsWhole /\ Defrag!GotWhole

\* tests/test_fragtrack.c:23: nothing is complete with a fragment missing.
NoHole == Frag!NoHole

\* tests/test_ipdefrag.c:57: nothing is handed out with a fragment missing.
NothingMissing == Defrag!NothingMissing

\* ipdefrag.c: blocks have one owner, and copies stay inside them.
BlocksOwned == Defrag!BlocksOwned

\* tcpreasm.c: streams do not mix or leak, data is in order.
StreamsSeparate == Tcp!StreamsSeparate
DataInOrder == Tcp!DataInOrder
=============================================================================
