# pktsnare in TLA+

pktsnare captures packets from a raw socket on Linux, dissects and prints them, and comes with a family of
small fixed-size components: buffers, tables about the traffic, reassemblers, limiters, a capture-file writer.
This directory models its C sources in TLA+, checks the models with TLC on small instances, and proves the most
important results for every value of the constants with TLAPS. Paths below are relative to the repository's root;
the C files are in `src/`, their tests in `tests/`.

    tlc -config MCRing.cfg MCRing          # a run (the list is below)
    tlapm Ring_proofs.tla                  # the proofs of a module

## The program as it is

The components hardly call each other. `main.c` drives a capture handle and the dissector; everything else is a
library of its own that only its test uses. The code is also less finished than its documentation:

- Several `.c` files do not match their headers: `main.c` calls `capture_open`, `capture_next` and
  `dissect_packet` with signatures no header declares; `session.c` and `ipdefrag.c` define another interface
  than `session.h` and `ipdefrag.h` declare (`SESSION_TABLE_SIZE` and `frag_entry_t` are defined nowhere).
- The Makefile's `SRCS` leaves out conntrack, ipdefrag, fragtrack, dnstrack, mactrack, ttltrack, promisc,
  bpf_wrap, ifstats, portmap, snaplen, truncate, tcpreasm and ethtype.
- Constants in `conntrack_cfg.h`, `mactrack_cfg.h`, `flowtrack_cfg.h` and others are used by no source file.

The models follow the text of the `.c` files. Where a component has no caller in the repository, its environment
is the usage its tests show, and the module's header says so.

## Inventory

| component | state | operations | what makes it correct | what is hard |
|---|---|---|---|---|
| ring | circular array, head, tail, count, dropped | create, destroy, push, pop, peek | a bounded FIFO that gives up its oldest packet; packets accounted for | wrapping indices, full and empty, a pointer from peek |
| conntrack | open-addressed table, count | update, lookup, expire, init/free | count is the active entries; a live connection is found | slots closed in place and reused on others' probe paths |
| fragtrack | array of datagrams with fragment sizes | add, expire, remove | complete means whole; none lost | order, repetition, swap removal, 16-bit sums |
| ipdefrag | array of datagrams with heap blocks | add, get, flush | a block has one owner; a get is whole when an add said so | order, realloc that fails, moved pointers, a 16-bit end |
| tcpreasm | stream slots with sorted segment lists | get_stream, add_segment, get_data, free, expire | no segment leaks, data in order, streams apart | slot reuse, order, wrapping numbers |
| ratelimit | token bucket | init, check, reset | every interval stays within burst and rate | refills of fractions |
| throttle | counters of a 100 ms window | init, check, reset | bounded per window, never shut off | tumbling windows, a clock read in two parts, integer division |
| mactrack, flowtrack | slots with an active flag, count | update/insert/lookup, expire, reset | one map from keys to counts | free slots before live ones |
| session | direct-mapped table, count | lookup, create, update, expire | the latest conversation of a slot | overwriting, two directions |
| dnstrack | unordered array of queries | add, match, expire, reset | queries and responses add up | swap removal, repeated numbers |
| ttltrack, alarm | flags per host or rule, counters | update; evaluate, add_rule, callback | rising edges counted once | state that must fall again |
| portmap | unordered array of names | register, lookup, remove, clear | one map from ports to names | swap removal, a full table |
| capture | socket, counters | open, close, loop | descriptors owned, a stop ends the loop | partial failure, a flag set by a signal, recv |
| promisc | interface flags, belief about them | init, enable, disable, free | the belief is right for a sole user | read-modify-write in two system calls |
| pcap | stdio file, count | open, write, flush, close | what was accepted, or at least flushed, is readable | short writes, failing flushes, crashes |
| main | options, handle, running flag | main, the signal handler | the count is kept, a signal ends it | signals at any point |
| dissect, decode | the caller's packet structure | dissect_packet; a decoder per header | nothing read behind the packet, fields where the headers have them | lengths a packet claims, structures used again |
| filter | a context of few fields and flags | init, parse, match | what is kept is what was asked | fields shared by primitives, refused expressions, several parses |
| output | one global handle and format | init, write, set_format, close | a record goes to the file opened last | files opened over each other, writes after close |
| bpf_wrap | compiled programs, an error per thread | compile, match, free | nothing leaks, errors stay with their thread | failures half way, threads |
| snaplen, truncate, stats | a limit, counters | init, set, clamp, apply, reset, update, drop | counters say what was done | limits and resets in mid-stream |
| ifstats | snapshots of kernel counters | read, delta | differences are what passed | failed reads, wraps, interfaces that come back |
| hexdump | a position in a buffer | hexdump_buf | the string ends inside the buffer | the last bytes of room |
| proto | none | proto_identify | both directions alike | ports of two services |
| iface, ethtype, timestamp, log helpers | none | queries of the kernel, constant tables, printing | - | - |

`PROJECT.json` lists every component with its status, and the hazards with the line each bites at.

## Modules

| module | models | composed in, run by |
|---|---|---|
| `Ring` | `ring.c` | `MCRing` |
| `RingFifo` | what `ring.h` promises: a lossy bounded queue; `Ring` implements it | |
| `Conntrack` | `conntrack.c` | `MCConntrack` (two configurations) |
| `RateLimit` | `ratelimit.c` | `MCRateLimit` |
| `SwapArray` | removing from an unordered array by moving the last entry, shared by four tables | |
| `FragTrack`, `IpDefrag`, `TcpReasm` | `fragtrack.c`, `ipdefrag.c`, `tcpreasm.c` | `Reassembly`, `MCReassembly` (three configurations) |
| `Tracker` | a map from keys to packet counts, which `MacTrack` and `FlowTrack` implement | |
| `PortNames` | a map from ports to names, which `PortMap` implements | |
| `MacTrack`, `FlowTrack`, `Session`, `DnsTrack`, `TtlTrack`, `PortMap`, `Alarm` | the files of the same names | `Tables`, `MCTables` |
| `Throttle`, `Capture`, `Promisc`, `Pcap`, `Main` | `throttle.c`, `capture.c`, `promisc.c`, `pcap.c`, `main.c` | `Path`, `MCPath` (two configurations); `Capture` by itself |
| `Dissect` | `dissect.c`, measured against the decoders of `decode.c` | `Path`; by itself |
| `Filter`, `Output`, `BpfWrap`, `IfStats`, `Hexdump` | `filter.c`, `output.c`, `bpf_wrap.c`, `ifstats.c`, `hexdump.c` | `Path` |
| `Meters` | `snaplen.c`, `truncate.c`, `stats.c` | `Path` |
| `Proto` | `proto.c`, with its theorem | |
| `TableLemmas` | facts about sums, sweeps and swaps that the proofs share | |
| `Ring_proofs`, `Conntrack_proofs`, `RateLimit_proofs`, `Reassembly_proofs`, `Tables_proofs`, `Path_proofs` | the proofs, one module for each one that is run | |

Each module keeps the names of the C fields for its variables and has one action per function (several where the
function can be interrupted: `Capture`'s loop, `Promisc`'s two system calls, `Main`'s phases). Calls that are
refused and change nothing are left out, and the module's header says which. Variables commented *history* exist
for the properties only, those commented *bound* for TLC. Data is abstracted to what the properties tell apart:
keys, addresses and packets are model values, byte counters follow packet counters and are mostly left out, times
are small integers. Beside some definitions stands a *mutant*: a plausible mistake in the code that the
properties must notice when the definition is replaced by it. No specification uses one.

### Correspondence, component by component

- **Ring.** `Push` is `ring_push` whole: `MakeRoom` (overwriting moves tail and counts a drop) and the write at head.
  `Peek` records the slot pointed to; later pushes may overwrite it, which `PeekStable` is about. Bytes, length
  and time stamp are one model value.
- **Conntrack.** `FirstProbed` is the linear probe; `Hash` is a constant function, so that any collision can be
  posed. `Expire` marks entries CLOSED in place; `Vacant` slots are taken over by the next new connection.
- **FragTrack.** `Add` first sweeps, as `fragtrack_add` does; the sweep is a fold over the array that follows the
  loop's index. The sum of sizes has 16 bits.
- **IpDefrag.** Blocks are numbers and a heap set; `realloc` may fail after the entry was made. A byte is shown by
  the fragment that brought it. `End` has 16 bits as in the code, so a fragment may end beyond them; what it copies
  behind its block then is noted in `outside`, and what such a copy does to the program is not modelled. A get takes
  any datagram whose last fragment came, holes and all, and `got` remembers what it was told and handed.
- **TcpReasm.** `last_seen` is only ever zeroed by the code, so a sweep takes any stream once the caller's clock is
  late enough. Callers drop their pointer when a stream is freed or expired.
- **RateLimit.** Arithmetic is exact: tokens are counted in `Unit`ths. `AdmitsIffConforms` compares every decision
  with a definition that looks at all intervals since the start, not at tokens.
- **Throttle.** A `timespec` is kept in two parts, `nsec` and by how many whole seconds the clock is ahead of the
  window's start, in ticks of which `Ms` make a millisecond; the clock moves `Step` of them at once (`Tock` in `Path`).
  `ElapsedMs` subtracts and divides as `elapsed_ms` does, towards zero, so that a window can end up to a millisecond
  early. The limits are scaled by the integer division of the code.
- **The tables.** `MacTrack`, `FlowTrack` and `PortMap` are shown to implement maps; a variable `call` names the
  latest call in both, so that an update of one key cannot pass for an update of another. `FlowTrack` and
  `Session` look up, create if there is nothing, and update, as their tests do.
- **Capture.** The kernel's descriptor table gives the lowest free number, which the rest of the process uses too.
  After a failed open `sockfd` keeps the number of a closed descriptor, and `capture_close` may be called then, as after
  any other open, once or twice. It may take another's descriptor, which `FdsOwned` excludes only after an open that
  did not fail; what its owner does then is not modelled.
- **Promisc.** Several processes and an administrator change one interface. The property speaks of a process whose
  flag nobody else wrote since it read it; the others' beliefs do go stale in this code.
- **Pcap.** stdio moves any prefix to the disk at any time. Each call of it may fail, `fflush` and `fclose` too, whose
  results the code ignores: some of the buffer is on the disk then, and the rest kept, or lost, or lost but for a
  part of the next piece. The writer goes on, also behind a wreck, until it is closed; then it may be opened again.
- **Dissect.** A frame is the lengths its headers claim and the bytes captured; a field is the place it is copied
  from. So reading behind the packet, and finding a field where the decoder of `decode.c` finds it, can be said
  without any byte. `info` is kept from call to call, as a caller's structure is.
- **Filter.** An expression comes token by token: `Token` is one turn of the `strtok` loop (an argument, a protocol, a
  word of a primitive, or an unknown word, which is passed over), `Return` the end of an expression, after which the
  next may be parsed into the same context. `FilterMeans` compares `filter_match` with the meaning of each primitive
  after any number of parses, with ends that are refused or passed over, as long as no two primitives write the
  same field.
- **Output.** A record is the number of a packet; the history of handles says what each file should hold.
- **BpfWrap.** One action for each way `bpf_wrap_compile` ends; a block libpcap refuses is freed in the same call.
- **Meters.** Every meter remembers what it was given; the counters are compared with that.
- **IfStats.** Counters wrap at 2 for 2^64; interfaces vanish and come back with counters at zero.
- **Hexdump.** One action is one turn of the loop, with `snprintf` cutting what does not fit.
- **Main.** A signal before the handlers are installed kills the process. `capture_next` is external: it returns
  1, 0 or -1.

## Runs

| run | question | bounds, and why they are enough | distinct states |
|---|---|---|---|
| `ring` | Do index arithmetic, accounting and peek hold, and is the array a FIFO? | capacities 1 to 3, six pushes: two laps of the largest array | 6 thousand |
| `conntrack` | Are count and lookup right over collisions, expiry and reuse? | three slots, probes that collide, cross and wrap; clock to 3, five packets | 297 thousand |
| `reassembly` | The three reassemblers, one at a time | three datagrams or streams for two entries; five or six adds let every fragment come and some repeat; repeated sizes pass 65535, and one datagram ends beyond it | 148 thousand |
| `ratelimit` | Does the bucket admit exactly the conforming packets? | bursts below one token to two and a half, rates below and above a token per tick | 23 thousand |
| `tables` | The seven tables, one at a time | three keys for two slots (four ports for three); clock to 3 | 85 thousand |
| `path` | Capture, promisc, throttle, pcap, main, dissect, filter, output, bpf_wrap, ifstats, meters and hexdump, one at a time | two descriptors, queue of two, two processes, a throttle with four ticks to a window and two to a millisecond over all phases of the second, three records in each capture file, counts -1 to 3; header lengths below, at and above the least with captured lengths around every header's end; expressions of nine tokens, in any order and number, with two primitives in force at once, against 72 packets; three opens and three records; two threads; buffers from 1 to 16 bytes | 200 thousand |
| `conntrack_twice` | a connection entered twice | as `conntrack` | violation |
| `fragtrack_hole` | a datagram complete with a hole | as `reassembly` (`MCReassemblyHole.cfg`) | violation |
| `defrag_get` | a datagram handed out with a hole | as `reassembly` (`MCReassemblyGet.cfg`) | violation |
| `throttle_low` | a limit below ten per second admits nothing | one limit (`MCPathLow.cfg`) | violation |
| `capture_idle` | a stop flag nobody sees | as `path` | violation |
| `dissect_malformed` | a malformed frame is taken | as `path`, more lengths | violation |

Where a property of a run joins properties of several components (`CompleteIsWhole`, `TablesAreMaps`, `EdgesCounted`,
`StaysInside`, `CountersAdd`), the components' modules state them one by one. `reassembly`, `tables` and `path` each
hold several components that share no state but, in `tables`, a clock. One variable chooses at the start which of them
runs, and the others stay as they are. What is checked of a component alone holds of it beside the others, because
none of their steps changes its variables, and the number of states is the sum, not the product. The cost is that no
interleaving of two components is checked; there is none to check, as no component reads another's state. In `path`
the finished main program is the only state that may stop, and stutters explicitly, so deadlock is checked everywhere.

**Fairness.** `FairSpec` of `Path` assumes: the thread in `capture_loop` runs (weak fairness of its steps) and
packets keep coming to the socket, without which `StopEnds` is false, as `capture_idle` shows; time passes and
packets of every length are checked infinitely often (strong fairness, since `MaxPerStep` interrupts them) for
`KeepsAdmitting`; the main program runs and `capture_next` returns, which its use in the loop (`main.c:100-106`
tells three outcomes apart) supposes, for `SignalEnds`. No fairness is assumed of anything that may fail.

## What the runs found

Each is a run that violates one property (see `findings` in `PROJECT.json`):

1. `conntrack.c:49`: a closed slot is taken without looking further for a live entry of the key, so one connection
   gets two entries and the count says two.
2. `fragtrack.c:57`: sizes are summed without regard to offsets; a repeated fragment fills a hole.
3. `throttle.c:54`: limits below ten packets per second scale to zero per window and refuse everything.
4. `ipdefrag.c:77`: `ipdefrag_get` asks for the last fragment only. When that comes first, nothing repeated, it returns
   `IPDEFRAG_COMPLETE` and a block with holes, where `tests/test_ipdefrag.c:57` has "get returns err when incomplete".
   Only the result of the last `ipdefrag_add` tells a whole datagram from one with holes (`GotWhole`).
5. `capture.c:73`: `recv` has no time-out, so the stop flag goes unseen on an idle network.
6. `dissect.c:38`, `:60`: header lengths are compared with the bytes captured at most, not with their least, so
   frames that `dissect.h:59` calls malformed are taken; an IP header length of 0 has the ports read over the IP header.

Disagreements read in the code that no run shows, because a single line does: `ipdefrag.h` promises an expiry that
`ipdefrag.c` does not have, so datagrams that lost a fragment stay for ever; `ipdefrag_add` counts repeated bytes
again, and cuts the end of a fragment to 16 bits (`ipdefrag.c:52`), so that the block is too small for a fragment that
ends beyond them (`BlocksOwned` excepts just these); `session_hash` is not symmetric (`session.c:19`), so a lookup
with source and destination swapped looks in another slot and misses, where `tests/test_session.c:36` has "lookup with
reversed src/dst should still find the session" (by the hash that conversation's directions go to slots 25 and 46 of
64); `pcap_writer_flush`, which `pcap.h:52` says will "Flush buffered data to disk", and `pcap_writer_close` ignore
what `fflush` and `fclose` return (`pcap.c:65`, `:70`), so on a full disk records already accepted are lost and nobody
is told; `capture_close` after a failed `capture_open` closes whatever now has the number left in `sockfd`
(`capture.c:33`, `:43`); `tcpreasm_free_stream` cannot reach `stream_count`, which therefore drifts up by every stream
its owner frees (`StreamsSeparate` states the count as it is), and `last_seen` is never set, so a sweep takes busy
streams too; a fragment of a complete datagram counts as another reassembly; the throttle's "sliding window"
(`throttle.h:11`) tumbles, so that 99 ms can see two windows' worth, and as `elapsed_ms` rounds up when the
nanoseconds go down (`throttle.c:8-10`), 100 ms can see three; a full portmap refuses to rename; answered DNS queries
keep their slots; `promisc_free` leaves the flag set; `main` returns `EXIT_SUCCESS` after an error, and a negative
`-c` ends the capture at once; `ratelimit_log.c:37` alerts at the threshold that `ratelimit_log.h:14` says must be
exceeded; `filter.h:25` describes a syntax `filter.c` does not parse, and declares another context; `host a` asks both
addresses to be `a` (`filter.c:103`), `port p src port q` overwrites the port it is to compare, unknown words are
passed over, a word after `src` or `dst` with them, and `filter_print` looks names up by protocol in a table of four;
the payload `dissect_packet` finds includes Ethernet padding, and the field `dissect.h:43` calls the UDP payload
length is the length with the header; `output_init` over an open file leaks its handle; a `snaplen_init` that is
refused leaves a limit of 0, which clamps every packet to nothing.

## What is proved

Every safety invariant, every action property and every refinement that a passing run checks is also a theorem, for
every value of the constants. `PROJECT.json` lists which theorem states which property.

**Assumptions.** Each component names what its constants are (`RingAssumption`, `CaptureAssumption`, ...), and the
composed modules assume the conjunction (`ReassemblyAssumption`, `TablesAssumption`, `PathAssumption`); TLC evaluates
them on every run. They say no more than the code's types and definitions: sizes and periods are positive, times and
bounds natural numbers, keys are not the empty key, a hash lands inside the table, a header length has four bits, a
datagram is finite and ends where its last fragment does (beyond 65535 too in `ipdefrag.c`), the throttle's window is
no longer than a second and its clock moves by no more than one. The bounds that keep TLC finite appear in the guards,
so a theorem holds for each value of them, however large. Nothing else is taken for granted.

**Compositions.** A step of `Reassembly`, `Tables` or `Path` is one of a single part and leaves the others alone
(lemma `Steps` of `Path_proofs`), so each part has an invariant of its own.

- **`TableLemmas`**: a nonempty set of numbers has a least one (`Least`), from which come induction over numbers and
  over finite sets in a form the provers can apply, namely about a set of things instead of an operator (`Inductive`,
  `SetInductive`). With it the library's sum over a function is shown to be a sum: a term can be taken out, a set
  split, terms renamed (`SumRemove`, `SumSplit`, `SumSame`, `SumMapped`). The sweep over an array, a fold that swaps
  the last entry into the hole and looks at that index again, keeps every entry that is not stale, once, and no other
  (`SweepFrees`).
- **`Ring_proofs`**: `TypeCorrect`, `IndicesAlwaysAgree`, `NothingLost`, `PeekIsStable`, and the refinement
  `RingIsFifo`. The invariant is the conjunction of all four properties and `Empty` (a destroyed ring has nothing
  left): none is inductive alone, because the places a push writes are known only from `head` being `count` slots
  after `tail`. `LapIsMod` replaces the modulus by a case split once and for all, which leaves linear arithmetic. The
  refinement maps the array to the sequence `Queue` read from `tail`; each action is shown to append, drop or take an
  element of it.
- **`Conntrack_proofs`**: `TypesKept`, `CountAlwaysLive`, `LookupAlwaysLatest` and `PacketsConserved`. That lookup
  finds the latest entry is not inductive: after a collision and an expiry one key may have several live entries. The
  strengthening `Ordered` says that of a key's entries, the ones nearer to its home slot are live when a farther one
  is and not older, and `FirstIsLatest` that the first found is the newest; `FirstProbed` is a minimum, shown unique
  by `DistInjective`. Packets are conserved by taking the entry touched out of the sum over the table.
- **`RateLimit_proofs`**: `TypeCorrect`, `RateAlwaysBounded` and `AdmitsWhatConforms`. The bound is inductive with the
  type invariant. That the bucket admits *exactly* the packets that conform needs `Tightest`: the tokens are what the
  tightest of all intervals ending at the last refill leaves of burst and rate, none leaves less and one leaves just
  that. A refill moves every interval's end (`RefilledTight`), or fills the bucket, after which the shortest interval
  is the tightest (`FullTightest`); a packet is taken from all of them.
- **`Reassembly_proofs`**: `TablesTyped`, `TrackedAccounted`, `SweepsExact`, `WholeWhenComplete`, `OneOwner`,
  `StreamsApart` and `InOrder`. For `fragtrack.c`, `FragInv` keeps one entry per key, no more entries than slots, and
  created = held + expired + done. For `ipdefrag.c`, `DefragInv` says that table, heap and contents `Fit`: every block
  in use has one entry, and what it holds are fragments of that entry's datagram; and `ReadyOK`: the keys an add has
  called complete are those of the complete entries. So what a get hands out is whole exactly if an add had said so
  (`AllPieces`: as many bytes as the datagram has are all of its fragments). Nothing is assumed of where fragments
  end: `FitsAfter` shows that a copy behind a block takes one that ends beyond 65535. For `tcpreasm.c`, `TcpInv`
  counts the segments allocated as those freed and those on lists, a sum over the slots, and keeps the lists sorted;
  `stream_count` is off by just the streams their owners freed.
- **`Tables_proofs`**: `TablesTyped`, `SessionsKept`, `QueriesKept`, `EdgesKept` and the refinements `TablesRefine` of
  `Tracker` and `PortNames`. Key to `mactrack.c` and `flowtrack.c` is that a key has one slot although free slots come
  before live ones; the lemmas `KnownAgain`, `KnownNew` and `KnownLess` say what a packet of a known key, one of a new
  key and a sweep do to the map read off the slots, for both tables. `DnsInv` balances the books of a swept array;
  `SesInv` compares each slot with the latest run of one conversation in the slot's log; `TtlInv` and `AlarmInv`
  relate each flag to the last value and each counter to the number of rising edges; `PortInv` allows one entry per
  port. `TablesSafe` is their conjunction.
- **`Path_proofs`**: one theorem for each part, and `PathTyped` for all of their types. `DescriptorsOwned` and
  `OneMoreAtMost` (the loop runs on an open socket only, and nothing has come late while it waits or handles a packet
  begun before the stop: `LoopOK`); `FlagsAreKnown` (a context's copy of the flags is from before somebody else's
  write only if that is noted); `CapturesEnd` (`MainOK`: a reason to end is given once); `NothingLeaks`;
  `NothingOutside` (`HexInv`: between turns `pos` is three times the bytes rendered, and the string ends there);
  `DissectsRight`, by cases over the headers and the ends of the captured bytes; `RecordsGo` (`OutInv`: only the last
  handle is in use, and a file's latest handle says what it holds); `ReadersGet` (`PcInv`: the packets of the last
  flush before a failure are whole pairs of header and data and on the disk, and without a failure the file is such
  pairs and nothing else; `LeftAgrees`: no failure takes away what is on the disk); `NoMoreThanTwice` (`ThrInv`: the
  window began `e` ticks ago, which `Aged` reads off the two parts of the clock, and has let through no less than the
  steps since then show; it and the one before hold no more than their share. A window that has ended is less than a
  millisecond short of its length, whence any 99 ms see two shares at most; sums over a span that shifts);
  `FilterIsMeant` (`FilInv`: the context's flags are those of the primitives in force, and each field holds what its
  only primitive wrote); `CountersRight` (`MetInv`: each counter is the sum or the number that its log gives, over
  sequences that grow; `IfsInv`: a snapshot is a remainder, and the difference of two remainders is that of what
  passed).
- **`Proto`**: `AlwaysBothWaysAlike`: `proto_identify` does not depend on the direction, over all of its inputs,
  unless the two ports belong to different services (then the destination's wins).

**Model-checked only.** The liveness properties `StopEnds`, `SignalEnds` and `KeepsAdmitting`, because the prover does not
reason about fairness or `ENABLED`; their safety halves (`OneAfterStop`, `CaptureEnds`) are proved. The six runs that
find a violation are TLC's by nature.

## Not modelled

`iface` asks the kernel and keeps nothing (each query closes the socket it opened, on every path); `ethtype` is a
constant table; `timestamp` and the log helpers (`conntrack_log.c`, and headers without a source) turn values into
text. Within modelled components: rounding of `double` (`ratelimit`), padding
bytes compared by `memcmp` (`conntrack`, `flowtrack`; the tests clear their keys), stale stream pointers (`tcpreasm`), the
256 bytes an expression is cut to (`filter`), the meaning of a compiled program (`bpf_wrap`), and printing everywhere.

No composition of capture loop, ring, conntrack and the others is modelled, although the repository's README
describes the program so: no source file calls them together, and `main.c` calls a capture handle that does not exist.

One hazard has no property: datagrams that lost a fragment stay in `ipdefrag`'s table, since the expiry its header
promises is not in the code, and there is no caller whose flushes could be assumed fair.

## Plan

The order was that of importance: ring, conntrack, the reassemblers, the limiters, the tables, the capture path and
main; then the dissector, the filters, the output and the meters; then the proofs, invariants first, refinements
and sums after them. All of it is done.

What could follow: `iface`, `ethtype` and `timestamp` keep no state and are left out on purpose. A composition of
capture, ring and trackers is worth a module as soon as a source file calls them together, and an expiry in
`ipdefrag.c` would let the open hazard be stated as a liveness property.
