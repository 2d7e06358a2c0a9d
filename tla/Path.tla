-------------------------------- MODULE Path --------------------------------
(***************************************************************************)
(* What a packet passes: the socket and its loop, the interface's flags    *)
(* and counters, the dissector, the filters, the throttle, the meters, the *)
(* capture file, the output, the dump and the program's main loop.  They   *)
(* share no state, so they are explored one at a time, and what holds of   *)
(* one alone holds of it among the others.                                 *)
(***************************************************************************)
EXTENDS Integers, Sequences

CONSTANTS Parts,                                        \* those that may run
          Fds, CapLens, MaxQueue, MaxArrivals,          \* capture.c
          Ctxs,                                         \* promisc.c
          SecondMs, Ms, WindowMs, Tock, Limits, ThrLens, MaxPerStep,  \* throttle.c
          PcapLens, Snaplen, MaxRecords,                \* pcap.c
          Counts, Snaplens, MaxPackets,                 \* main.c
          Ihls, Doffs, FrameLens, SizeSpace,            \* dissect.c
          Tokens, Atoi, InetAddr, Packets, MaxPrims,  \* filter.c
          Paths, MaxOpens, MaxWrites,                   \* output.c
          Threads, Blocks,                              \* bpf_wrap.c
          Ifaces, Wrap, MaxCount, MaxLife,              \* ifstats.c
          DumpLens, Sizes,                              \* hexdump.c
          MeterLens, Caps, MaxCalls                     \* snaplen.c, truncate.c, stats.c

VARIABLES part,  \* the one that runs
          sockfd, promiscuous, pkt_count, byte_count, pc, buf, stop_flag,
          open_fds, member, queue, opened, others, astray, arrived, handled, late,
          flags, ctx, step, copy, wanted, shared, torn,
          max_pps, max_bps, win_pkts, win_bytes, window_start, nsec, secs,
          checked, admitted, recent,
          file, disk, saved, writes, writing, io_failed, accepted, flushed,
          phase, count, snaplen, captured, running, handle_open, status, printed,
          after, reason,
          frame, ret, info,
          filter, words, parse_ret, asked,
          format, out_fp, handles, out_disk, written,
          bpf_errbuf, heap, compiled, progs, owned, failed,
          there, passed, life, snapshots, was,
          dump_len, out_sz, at, pos, nul, reached,
          snap, cut, stats, seen, valid

capVars == <<sockfd, promiscuous, pkt_count, byte_count, pc, buf, stop_flag, open_fds,
             member, queue, opened, others, astray, arrived, handled, late>>
promVars == <<flags, ctx, step, copy, wanted, shared, torn>>
thrVars == <<max_pps, max_bps, win_pkts, win_bytes, window_start, nsec, secs,
             checked, admitted, recent>>
pcVars == <<file, disk, saved, writes, writing, io_failed, accepted, flushed>>
mnVars == <<phase, count, snaplen, captured, running, handle_open, status, printed,
            after, reason>>
disVars == <<frame, ret, info>>
filVars == <<filter, words, parse_ret, asked>>
outVars == <<format, out_fp, handles, out_disk, written>>
bpfVars == <<bpf_errbuf, heap, compiled, progs, owned, failed>>
ifVars == <<there, passed, life, snapshots, was>>
dumpVars == <<dump_len, out_sz, at, pos, nul, reached>>
metVars == <<snap, cut, stats, seen, valid>>

vars == <<part, capVars, promVars, thrVars, pcVars, mnVars, disVars, filVars, outVars,
          bpfVars, ifVars, dumpVars, metVars>>

Cap == INSTANCE Capture WITH Lens <- CapLens, MaxPkts <- MaxArrivals
Prom == INSTANCE Promisc
Thr == INSTANCE Throttle WITH Lens <- ThrLens, Step <- Tock,
                              pkt_count <- win_pkts, byte_count <- win_bytes
Pc == INSTANCE Pcap WITH Lens <- PcapLens, MaxWrites <- MaxRecords,
                         pkt_count <- saved, open <- writing, failed <- io_failed
Mn == INSTANCE Main
Dis == INSTANCE Dissect WITH Lens <- FrameLens
Fil == INSTANCE Filter WITH ctx <- filter, ret <- parse_ret
Out == INSTANCE Output WITH disk <- out_disk
Bpf == INSTANCE BpfWrap
Ifs == INSTANCE IfStats WITH snap <- snapshots
Hex == INSTANCE Hexdump WITH Lens <- DumpLens, len <- dump_len, i <- at
Met == INSTANCE Meters WITH Lens <- MeterLens

ASSUME PathAssumption == /\ Cap!CaptureAssumption /\ Thr!ThrottleAssumption /\ Pc!PcapAssumption
                         /\ Mn!MainAssumption /\ Dis!DissectAssumption /\ Hex!HexdumpAssumption
                         /\ Ifs!IfStatsAssumption /\ Met!MetersAssumption
                         /\ Fil!FilterAssumption

Init == /\ part \in Parts
        /\ Cap!Init
        /\ Prom!Init /\ (part # "promisc" => flags = [up |-> TRUE, promisc |-> FALSE])
        /\ Thr!Init /\ (part # "throttle" => /\ <<max_pps, max_bps>> = CHOOSE l \in Limits : TRUE
                                            /\ nsec = 0)
        /\ Pc!Init /\ Mn!Init /\ Dis!Init /\ Fil!Init /\ Out!Init /\ Bpf!Init /\ Ifs!Init
        /\ Met!Init
        /\ IF part = "hexdump" THEN Hex!Init ELSE Hex!Rendered(0, 1)

\* A part that does not run stays as it is.
Only(t) == /\ part = t /\ UNCHANGED part
           /\ t # "capture" => UNCHANGED capVars
           /\ t # "promisc" => UNCHANGED promVars
           /\ t # "throttle" => UNCHANGED thrVars
           /\ t # "pcap" => UNCHANGED pcVars
           /\ t # "main" => UNCHANGED mnVars
           /\ t # "dissect" => UNCHANGED disVars
           /\ t # "filter" => UNCHANGED filVars
           /\ t # "output" => UNCHANGED outVars
           /\ t # "bpf" => UNCHANGED bpfVars
           /\ t # "ifstats" => UNCHANGED ifVars
           /\ t # "hexdump" => UNCHANGED dumpVars
           /\ t # "meters" => UNCHANGED metVars

Next == \/ Only("capture") /\ Cap!Next
        \/ Only("promisc") /\ Prom!Next
        \/ Only("throttle") /\ Thr!Next
        \/ Only("pcap") /\ Pc!Next
        \/ Only("main") /\ Mn!Next
        \/ Only("dissect") /\ Dis!Next
        \/ Only("filter") /\ Fil!Next
        \/ Only("output") /\ Out!Next
        \/ Only("bpf") /\ Bpf!Next
        \/ Only("ifstats") /\ Ifs!Next
        \/ Only("hexdump") /\ Hex!Next
        \/ Only("meters") /\ Met!Next
        \/ part = "main" /\ phase = "done" /\ UNCHANGED vars  \* the process is gone

Spec == Init /\ [][Next]_vars

\* The loop runs and packets keep coming to it; time passes, and packets of
\* every length are checked again and again; main runs, and capture_next
\* returns.
FairSpec == /\ Spec
            /\ WF_vars(Only("capture") /\ Cap!LoopStep)
            /\ WF_vars(Only("capture") /\ \E len \in CapLens : Cap!Arrive(len))
            /\ WF_vars(Only("throttle") /\ Thr!Tick)
            /\ \A len \in ThrLens : SF_vars(Only("throttle") /\ Thr!Check(len))
            /\ WF_vars(Only("main") /\ Mn!Step)
            /\ WF_vars(Only("main") /\ Mn!Return)

-----------------------------------------------------------------------------
\* Every part's variables have their types, and a window of throttle.c never
\* holds more than its share.
TypeOK == /\ Cap!TypeOK /\ Prom!TypeOK /\ Thr!TypeOK /\ Pc!TypeOK /\ Mn!TypeOK
          /\ Dis!TypeOK /\ Fil!TypeOK /\ Out!TypeOK /\ Bpf!TypeOK /\ Ifs!TypeOK /\ Met!TypeOK

\* capture.c: whose the descriptors are, and what a stop still lets through.
FdsOwned == Cap!FdsOwned
OneAfterStop == Cap!OneAfterStop
StopEnds == Cap!StopEnds

\* promisc.c: enabled says how the interface is.
FlagsKnown == Prom!FlagsKnown

\* throttle.c: 99 ms see at most two windows' worth, and the stream goes on.
AtMostTwice == Thr!AtMostTwice
KeepsAdmitting == part = "throttle" => Thr!KeepsAdmitting

\* pcap.c: what a reader gets of the file, when stdio fails too.
PcapReadable == Pc!PcapReadable

\* main.c: how a capture ends, and that a signal ends it.
CaptureEnds == Mn!CaptureEnds
SignalEnds == Mn!SignalEnds

\* dissect.c and hexdump.c: no frame is read, and no buffer written, behind its end.
StaysInside == Dis!ReadsInside /\ Hex!WritesInside

\* dissect.c: it finds what is there.
DissectRight == Dis!DissectRight

\* filter.c: a filter keeps what its expressions ask for.
FilterMeans == Fil!FilterMeans

\* output.c: which records a file holds.
OutputGoes == Out!OutputGoes

\* bpf_wrap.c: nothing leaks, and errors stay with their thread.
BpfOwned == Bpf!BpfOwned

\* snaplen.c, truncate.c, stats.c and ifstats.c: the counters say what was done,
\* and their differences what happened in between.
CountersAdd == Met!CountersAdd /\ Ifs!DeltaExact
=============================================================================
