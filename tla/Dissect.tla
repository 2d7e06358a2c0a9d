------------------------------ MODULE Dissect ------------------------------
(***************************************************************************)
(* src/dissect.c, and the field tables of src/decode.c that it is measured *)
(* against.  A frame is what the code branches on: its type, the header    *)
(* lengths it claims and the bytes captured.  A field is the place in the  *)
(* frame that it is copied from, <<offset, width>>, not the bytes there.   *)
(* NULL arguments change nothing and dissect_print only prints: both are   *)
(* left out.                                                               *)
(***************************************************************************)
EXTENDS Integers

CONSTANTS Ihls, Doffs,  \* the header lengths, in words, that frames claim
          Lens,         \* the numbers of bytes captured
          SizeSpace     \* bound: lengths wrap here, where size_t wraps at 2^64

\* What the constants are: lengths in four bits, and bytes that a size_t counts.
DissectAssumption == /\ Ihls \subseteq 0 .. 15 /\ Doffs \subseteq 0 .. 15
                     /\ SizeSpace \in Nat \ {0} /\ Lens \subseteq 0 .. SizeSpace - 1

VARIABLES frame,  \* history: the frame looked at last
          ret,    \* what dissect_packet returned for it
          info    \* the caller's packet_info_t, kept from call to call

EthFields == [dst_mac |-> <<0, 6>>, src_mac |-> <<6, 6>>, ethertype |-> <<12, 2>>]
IpFields == [ttl |-> <<8, 1>>, protocol |-> <<9, 1>>, tot_len |-> <<2, 2>>,
             src_ip |-> <<12, 4>>, dst_ip |-> <<16, 4>>]
TcpFields == [src_port |-> <<0, 2>>, dst_port |-> <<2, 2>>, seq |-> <<4, 4>>,
              ack |-> <<8, 4>>, flags |-> <<13, 1>>]
UdpFields == [src_port |-> <<0, 2>>, dst_port |-> <<2, 2>>, length |-> <<4, 2>>]

\* The fields of a header that starts at base.
At(fields, base) == [x \in DOMAIN fields |-> <<fields[x][1] + base, fields[x][2]>>]

\* The fields of f, over those of g.
Over(f, g) == [x \in DOMAIN f \cup DOMAIN g |-> IF x \in DOMAIN f THEN f[x] ELSE g[x]]

\* memset: no field, PROTO_UNKNOWN, no payload.
Nothing == [fields |-> <<>>, top |-> "unknown", payload |-> 0, payload_len |-> 0]

\* Mutant of Cleared: the structure is not cleared, the last packet's fields stay.
ClearedNot == info

Cleared == Nothing

\* Mutant of IpFits: the header's own length is not compared with the bytes.
IpFitsMin(len, ihl) == len >= 20

IpFits(len, ihl) == len >= 20 /\ len >= 4 * ihl

WithHeader(out, fields, base, len, size, top) ==
    [fields |-> Over(At(fields, base), out.fields), top |-> top, payload |-> base + size,
     payload_len |-> IF len > size THEN len - size ELSE 0]

\* parse_transport on the len bytes from base on.
Transport(f, base, len, out) ==
    CASE f.proto = "tcp" /\ len >= 20 -> WithHeader(out, TcpFields, base, len, 4 * f.doff, "tcp")
      [] f.proto = "udp" /\ len >= 8 -> WithHeader(out, UdpFields, base, len, 8, "udp")
      [] f.proto = "icmp" -> [out EXCEPT !.top = "icmp"]
      [] OTHER -> [out EXCEPT !.top = "unknown"]

\* parse_ipv4 and what it hands on; dissect_packet leaves out as it is when it fails.
Ipv4(f, out) ==
    Transport(f, 14 + 4 * f.ihl, (f.len - 14 - 4 * f.ihl) % SizeSpace,
              [out EXCEPT !.fields = Over(At(IpFields, 14), @)])

Parsed(f) ==
    LET eth == [Cleared EXCEPT !.fields = Over(EthFields, @)]
    IN CASE f.type # "ipv4" -> [eth EXCEPT !.top = f.type]
         [] f.type = "ipv4" /\ IpFits(f.len - 14, f.ihl) -> Ipv4(f, eth)
         [] OTHER -> eth

Refused(f) == f.len < 14 \/ (f.type = "ipv4" /\ ~IpFits(f.len - 14, f.ihl))

DissectPacket(f) ==
    /\ frame' = f
    /\ ret' = IF Refused(f) THEN -1 ELSE 0
    /\ info' = IF f.len < 14 THEN info ELSE Parsed(f)

\* What a header says counts only where it is there: other frames claim the least.
Frames == {f \in [type : {"ipv4", "arp", "ipv6", "unknown"}, len : Lens, ihl : Ihls,
                  proto : {"tcp", "udp", "icmp", "unknown"}, doff : Doffs] :
             /\ f.len < 14 => f.type = "unknown"
             /\ f.type # "ipv4" => f.ihl = 5 /\ f.proto = "unknown"
             /\ f.proto # "tcp" => f.doff = 5}

Init == /\ frame = [type |-> "unknown", len |-> 0, ihl |-> 5, proto |-> "unknown", doff |-> 5]
        /\ ret = -1 /\ info = Nothing

Next == \E f \in Frames : DissectPacket(f)

vars == <<frame, ret, info>>

Spec == Init /\ [][Next]_vars

-----------------------------------------------------------------------------
\* The least a decoder of decode.c takes, and where it finds each field.
Decoded == [ethernet |-> [least |-> 14, fields |->
                [dst_mac |-> <<0, 6>>, src_mac |-> <<6, 6>>, ethertype |-> <<12, 2>>]],
            ipv4 |-> [least |-> 20, fields |->
                [version |-> <<0, 1>>, ihl |-> <<0, 1>>, tos |-> <<1, 1>>, tot_len |-> <<2, 2>>,
                 ttl |-> <<8, 1>>, protocol |-> <<9, 1>>, src_ip |-> <<12, 4>>,
                 dst_ip |-> <<16, 4>>]],
            tcp |-> [least |-> 20, fields |->
                [src_port |-> <<0, 2>>, dst_port |-> <<2, 2>>, seq |-> <<4, 4>>,
                 ack |-> <<8, 4>>, flags |-> <<13, 1>>, window |-> <<14, 2>>]],
            udp |-> [least |-> 8, fields |->
                [src_port |-> <<0, 2>>, dst_port |-> <<2, 2>>, length |-> <<4, 2>>,
                 checksum |-> <<6, 2>>]]]

\* A frame whose headers are as long as they must be, and are all there.
HeaderEnd(f) == CASE f.type # "ipv4" -> 14
                  [] f.proto = "tcp" -> 14 + 4 * f.ihl + 4 * f.doff
                  [] f.proto = "udp" -> 14 + 4 * f.ihl + 8
                  [] OTHER -> 14 + 4 * f.ihl
WellFormed(f) == /\ f.len >= HeaderEnd(f)
                 /\ f.type = "ipv4" => f.ihl >= 5 /\ (f.proto = "tcp" => f.doff >= 5)

\* The headers of a well formed frame, each with the place it starts at.
Layers(f) == {<<"ethernet", 0>>}
             \cup IF f.type # "ipv4" THEN {}
                  ELSE {<<"ipv4", 14>>} \cup IF f.proto \notin {"tcp", "udp"} THEN {}
                                             ELSE {<<f.proto, 14 + 4 * f.ihl>>}

\* The fields packet_info_t has room for (dissect.h:21-50).
Kept == DOMAIN EthFields \cup DOMAIN IpFields \cup DOMAIN TcpFields \cup DOMAIN UdpFields

\* dissect.c:32-92.  Whatever lengths a frame claims, nothing is read behind
\* the bytes that were captured, and a payload that is not empty ends with them.
ReadsInside ==
    frame.len >= 14 =>
        /\ \A x \in DOMAIN info.fields : info.fields[x][1] + info.fields[x][2] <= frame.len
        /\ info.payload_len > 0 => info.payload + info.payload_len = frame.len

\* dissect.c:76-104.  A well formed frame is taken, and described by just the
\* fields that decode.c's decoders find at the same places, with no trace of
\* the frame before it; its payload is what follows the headers.
DissectRight ==
    WellFormed(frame) =>
        /\ ret = 0
        /\ \A l \in Layers(frame) : frame.len - l[2] >= Decoded[l[1]].least
        /\ {<<x, info.fields[x]>> : x \in DOMAIN info.fields}
             = UNION {{<<x, <<l[2] + Decoded[l[1]].fields[x][1], Decoded[l[1]].fields[x][2]>>>> :
                         x \in Kept \cap DOMAIN Decoded[l[1]].fields} : l \in Layers(frame)}
        /\ info.top = IF frame.type = "ipv4" THEN frame.proto ELSE frame.type
        /\ frame.type = "ipv4" /\ frame.proto \in {"tcp", "udp"} =>
             /\ info.payload = HeaderEnd(frame)
             /\ info.payload_len = frame.len - HeaderEnd(frame)

\* dissect.h:59: dissect_packet "returns 0 on success, -1 if the packet is
\* malformed or too short": what it takes is well formed.
MalformedRefused == ret = 0 => WellFormed(frame)

TypeOK == ret \in {-1, 0} /\ info.top \in {"tcp", "udp", "icmp", "arp", "ipv6", "unknown"}
=============================================================================
