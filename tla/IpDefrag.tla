------------------------------ MODULE IpDefrag ------------------------------
(***************************************************************************)
(* src/ipdefrag.c: the reassembler that keeps the bytes of IP fragments in *)
(* one growing heap block per datagram.  frag_entry_t is not declared in   *)
(* the repository; its fields are read off their uses.  A byte is shown by *)
(* the fragment it came in; bytes of a block no fragment was copied to are *)
(* undefined.  Fragments come in any order, may be repeated, may never     *)
(* come, and may lie beyond what a uint16_t counts.  Calls that change     *)
(* nothing are left out: an add to a full table, a get that returns        *)
(* IPDEFRAG_ERR.                                                           *)
(***************************************************************************)
EXTENDS Integers, FiniteSets, FiniteSetsExt, SwapArray

CONSTANTS Keys,         \* <<id, src, dst>>
          Cut,          \* Cut[k]: the fragments datagram k was cut into
          MaxEntries,   \* MAX_FRAGS
          MaxAdds       \* bound on the calls of ipdefrag_add

Uint16Max == 65535

Fragment == [offset : 0 .. Uint16Max, len : 1 .. Uint16Max, more : BOOLEAN]

\* How long the datagram cut into F is.
LengthOf(F) == SumFunctionOnSet([f \in F |-> f.len], F)

\* What the constants are: a datagram is cut into pieces without a gap or an
\* overlap, the last of which says so.
IpDefragAssumption ==
    /\ Cut \in [Keys -> SUBSET Fragment]
    /\ \A k \in Keys :
          /\ IsFiniteSet(Cut[k])
          /\ \A f \in Cut[k] : ~f.more => f.offset + f.len = LengthOf(Cut[k])
    /\ MaxEntries \in Nat \ {0} /\ MaxAdds \in Nat

Blocks == 1 .. MaxEntries
NoBlock == 0

VARIABLES entries,    \* frag_table, frag_count entries of it
          heap,       \* the blocks malloc holds for it
          content,    \* content[b]: the fragments copied into block b
          got,        \* what the last ipdefrag_get copied out, and from
                      \* what entry
          ready,      \* caller: keys whose last add returned COMPLETE
          outside,    \* history: fragments copied behind the end of a block;
                      \* what the program does then is undefined, the model
                      \* goes on as if nothing had been there
          adds        \* bound: calls of ipdefrag_add so far

vars == <<entries, heap, content, got, ready, outside, adds>>

NothingGot == [key |-> <<>>, told |-> FALSE, total |-> 0, received |-> 0, frags |-> {}]

Init == /\ entries = <<>>
        /\ heap = {} /\ content = [b \in Blocks |-> {}]
        /\ got = NothingGot
        /\ ready = {} /\ outside = {} /\ adds = 0

Of(k, es) == {i \in DOMAIN es : es[i].key = k}
Empty(k) == [key |-> k, block |-> NoBlock, buf |-> 0, received |-> 0, total |-> 0, last |-> FALSE]

\* ipdefrag.c:52: end is a uint16_t.
End(f) == (f.offset + f.len) % (Uint16Max + 1)

\* Mutant of Grows: the block is as long as the fragment, wherever that starts.
GrowsByLen(e, f) == f.len > e.buf

Grows(e, f) == End(f) > e.buf

\* An entry after fragment f was copied into block b.
Record(e, f, b) ==
    LET r == [e EXCEPT !.block = b, !.buf = IF Grows(e, f) THEN End(f) ELSE @,
                       !.received = @ + f.len]
    IN  IF f.more THEN r ELSE [r EXCEPT !.total = End(f), !.last = TRUE]

\* The block f is copied to: the one there is, or the first that realloc gives.
Target(e, f) == IF Grows(e, f) /\ e.block = NoBlock THEN Blocks \ heap ELSE {e.block}

\* The copy goes to offset whatever the block's length (ipdefrag.c:60).
Behind(e, f) == IF f.offset + f.len > e.buf THEN {f} ELSE {}

Complete(e) == e.last /\ e.received >= e.total

Room(es) == Len(es) < MaxEntries

\* ipdefrag_add.  A failed realloc leaves a new entry in the table.
Add(k, f) ==
    /\ adds < MaxAdds
    /\ Of(k, entries) # {} \/ Room(entries)
    /\ adds' = adds + 1
    /\ LET es == IF Of(k, entries) = {} THEN Append(entries, Empty(k)) ELSE entries
           i == Min(Of(k, es))
       IN  \/ /\ Grows(es[i], f)   \* realloc returns NULL
              /\ entries' = es
              /\ UNCHANGED <<heap, content, ready, outside>>
           \/ \E b \in Target(es[i], f) :
                 /\ entries' = [es EXCEPT ![i] = Record(@, f, b)]
                 /\ heap' = heap \cup ({b} \ {NoBlock})
                 /\ content' = [c \in Blocks |-> IF c = b THEN content[c] \cup {<<k, f>>} ELSE content[c]]
                 /\ outside' = outside \cup Behind(entries'[i], f)
                 /\ ready' = IF Complete(entries'[i]) THEN ready \cup {k} ELSE ready \ {k}
    /\ UNCHANGED got

\* Mutant of Owner: the last entry is moved first, then its block freed.
OwnerMoved(i) == Last(entries)

\* The entry whose block free_entry frees.
Owner(i) == entries[i]

FreeEntry(i) ==
    LET b == Owner(i).block IN
    /\ entries' = SwapOut(entries, i)
    /\ heap' = heap \ {b}
    /\ content' = [c \in Blocks |-> IF c = b THEN {} ELSE content[c]]

\* ipdefrag.c:77: what ipdefrag_get hands out.
Deliverable(e) == e.last

Held(e) == IF e.block = NoBlock THEN {} ELSE content[e.block]

\* ipdefrag_get, with room for the datagram at the caller.
Get(k) ==
    /\ \E i \in DOMAIN entries :
          /\ i \in Of(k, entries)
          /\ Deliverable(entries[i])
          /\ got' = [key |-> k, told |-> k \in ready, total |-> entries[i].total,
                     received |-> entries[i].received, frags |-> Held(entries[i])]
          /\ FreeEntry(i)
    /\ ready' = ready \ {k}
    /\ UNCHANGED <<outside, adds>>

Flush == /\ entries' = <<>>
         /\ heap' = heap \ {entries[i].block : i \in DOMAIN entries}
         /\ content' = [b \in Blocks |-> {}]
         /\ ready' = {}
         /\ UNCHANGED <<got, outside, adds>>

Next == \/ \E k \in Keys : \E f \in Cut[k] : Add(k, f)
        \/ \E k \in Keys : Get(k)
        \/ Flush

Spec == Init /\ [][Next]_vars

-----------------------------------------------------------------------------
\* Every variable has its type.
TypeOK ==
    /\ entries \in Seq([key : Keys, block : Blocks \cup {NoBlock}, buf : 0 .. Uint16Max,
                        received : Nat, total : 0 .. Uint16Max, last : BOOLEAN])
    /\ Len(entries) <= MaxEntries
    /\ heap \subseteq Blocks
    /\ ready \subseteq Keys

\* A copy stays inside its block but for a fragment whose end no uint16_t holds
\* (ipdefrag.c:52-60).  Unless there was one, every heap block belongs to exactly
\* one entry, and holds bytes of that entry's datagram only, though free_entry
\* moves entries and their pointers (ipdefrag.c:36-42) and a flush frees them all:
\* nothing leaks, nothing is freed twice, no two datagrams share a block.  A
\* failed realloc may leave an entry without one, but ipdefrag_get, which copies
\* total_len bytes from a block of buf_len (ipdefrag.c:79), stays inside the block.
BlocksOwned ==
    /\ \A f \in outside : f.offset + f.len > Uint16Max
    /\ outside = {} =>
          /\ heap = {entries[i].block : i \in DOMAIN entries} \ {NoBlock}
          /\ \A i, j \in DOMAIN entries :
                /\ entries[i].block = entries[j].block /\ i # j => entries[i].block = NoBlock
                /\ entries[i].block # NoBlock =>
                      \A w \in content[entries[i].block] : w[1] = entries[i].key
                /\ entries[i].last =>
                      entries[i].block # NoBlock /\ entries[i].total <= entries[i].buf

Bytes(frags) == SumFunctionOnSet([w \in frags |-> w[2].len], frags)

\* The fragments of a whole datagram.
Pieces(k) == {<<k, f>> : f \in Cut[k]}

\* ipdefrag_get asks for the last fragment only (ipdefrag.c:77), so it also hands
\* out datagrams with holes.  What tells them apart is the last ipdefrag_add:
\* whatever the order of fragments, a get hands out as many bytes as the datagram
\* has, and all of its fragments exactly when that add returned IPDEFRAG_COMPLETE.
\* Excepted are datagrams of which a fragment was repeated, as repeated bytes
\* count again (ipdefrag.c:61), and what comes after a copy behind a block.
GotWhole ==
    got # NothingGot /\ outside = {} =>
        /\ got.total = LengthOf(Cut[got.key])
        /\ got.received = Bytes(got.frags) => (got.told <=> got.frags = Pieces(got.key))

\* tests/test_ipdefrag.c:57 "get returns err when incomplete": nothing with a
\* hole is handed out.  ipdefrag.c:77 does not see to it.
NothingMissing == got # NothingGot => got.frags = Pieces(got.key)
=============================================================================
