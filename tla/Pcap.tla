-------------------------------- MODULE Pcap --------------------------------
(***************************************************************************)
(* src/pcap.c: the writer of capture files.  stdio takes what is written   *)
(* in a buffer and moves it to the disk when told to, or when it likes; a  *)
(* call of it may fail, as on a full disk, and then part of the buffer is  *)
(* written, and the rest kept or lost.  The writer goes on after it:       *)
(* nobody looks at what fflush and fclose return.  A crash leaves what is  *)
(* on the disk.  The file's own header, magic and times are left out.      *)
(***************************************************************************)
EXTENDS Integers, Sequences, FiniteSets, FiniteSetsExt

CONSTANTS Lens,     \* packet lengths
          Snaplen,
          MaxWrites \* bound on the packets written

\* What the constants are.
PcapAssumption == Lens \subseteq Nat \ {0} /\ Snaplen \in Nat

VARIABLES file,      \* the pieces written and not lost: record headers, with
                     \* the length they announce, data, and parts of these
          disk,      \* how many of them are on the disk
          pkt_count,
          writes,    \* bound
          open,      \* is there a writer still
          failed,    \* history: has a call of stdio failed
          accepted,  \* history: the packets accepted before that
          flushed    \* history: of these, the packets at the last flush or close

pcapVars == <<file, disk, pkt_count, writes, open, failed, accepted, flushed>>

\* pcap_writer_open, here and in Reopen: a new file.
Init == /\ file = <<>> /\ disk = 0 /\ pkt_count = 0 /\ writes = 0 /\ open = TRUE
        /\ failed = FALSE /\ accepted = 0 /\ flushed = 0

RecHeader(incl) == [kind |-> "header", len |-> incl]
Data(size) == [kind |-> "data", len |-> size]
Part == [kind |-> "part", len |-> 0]  \* some bytes of a piece, not all

Included(len) == IF len > Snaplen THEN Snaplen ELSE len

\* Mutant of Whole: the data is not cut.
WholeUncut(len) == <<RecHeader(Included(len)), Data(len)>>

Whole(len) == <<RecHeader(Included(len)), Data(Included(len))>>

\* What a write that fails may have put into the buffer.
Torn(len) == {<<>>, <<Part>>, <<RecHeader(Included(len))>>, <<RecHeader(Included(len)), Part>>}

\* What may become of the pieces when the first n of them reach the disk and
\* the call fails: the rest is kept, or lost, or lost but for a part of the next.
Left(pieces, n) ==
    LET moved == SubSeq(pieces, 1, n)
    IN  {pieces, moved} \cup (IF n < Len(pieces) THEN {Append(moved, Part)} ELSE {})

\* A call of stdio fails with these pieces taken.
Fails(pieces) == /\ \E n \in disk .. Len(pieces) : disk' = n /\ file' \in Left(pieces, n)
                 /\ failed' = TRUE
                 /\ UNCHANGED <<accepted, flushed>>

\* All that was taken reaches the disk.
Moves == /\ disk' = Len(file)
         /\ flushed' = IF failed THEN flushed ELSE accepted
         /\ UNCHANGED <<file, failed, accepted>>

\* pcap_writer_write, which returns -1 when stdio fails.
Write(len) ==
    /\ open /\ writes < MaxWrites /\ writes' = writes + 1
    /\ \/ /\ file' = file \o Whole(len)
          /\ pkt_count' = pkt_count + 1
          /\ accepted' = IF failed THEN accepted ELSE accepted + 1
          /\ UNCHANGED <<disk, failed, flushed>>
       \/ /\ \E pieces \in Torn(len) : Fails(file \o pieces)
          /\ UNCHANGED pkt_count
    /\ UNCHANGED open

\* pcap_writer_flush and pcap_writer_close, which tell nobody.
Flush == open /\ (Moves \/ Fails(file)) /\ UNCHANGED <<pkt_count, writes, open>>
Close == open /\ (Moves \/ Fails(file)) /\ open' = FALSE /\ UNCHANGED <<pkt_count, writes>>

Reopen == /\ ~open /\ open' = TRUE
          /\ file' = <<>> /\ disk' = 0 /\ pkt_count' = 0 /\ writes' = 0
          /\ failed' = FALSE /\ accepted' = 0 /\ flushed' = 0

\* stdio moves what it likes.
Spill == /\ open /\ disk' \in disk .. Len(file)
         /\ UNCHANGED <<file, pkt_count, writes, open, failed, accepted, flushed>>

Next == (\E len \in Lens : Write(len)) \/ Flush \/ Close \/ Reopen \/ Spill

Spec == Init /\ [][Next]_pcapVars

-----------------------------------------------------------------------------
\* Every variable has its type.
TypeOK == /\ file \in Seq([kind : {"header", "data", "part"}, len : Nat])
          /\ disk \in 0 .. Len(file)
          /\ {pkt_count, writes, accepted, flushed} \subseteq Nat
          /\ {open, failed} \subseteq BOOLEAN

\* The records a reader gets: it takes a header, then as many bytes of data
\* as the header announces, until something else comes.
Readable(pieces) ==
    Max({n \in 0 .. Len(pieces) \div 2 :
            \A i \in 1 .. n : /\ pieces[2 * i - 1].kind = "header"
                              /\ pieces[2 * i] = Data(pieces[2 * i - 1].len)})

OnDisk == SubSeq(file, 1, disk)

\* As long as no call of stdio has failed a reader gets every packet the writer
\* accepted, of a crashed program's file at least those accepted before the last
\* flush and of a closed one all, and the counter is right (pcap.c:57-71).  After
\* a failure, which may lose packets already accepted and leave a record cut short
\* between later ones, the packets of the flushes before it are still to be had.
PcapReadable == /\ Readable(OnDisk) >= flushed
                /\ ~failed => /\ Readable(file) = accepted /\ pkt_count = accepted
                              /\ ~open => Readable(OnDisk) = accepted
=============================================================================
