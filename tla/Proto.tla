------------------------------- MODULE Proto -------------------------------
(***************************************************************************)
(* src/proto.c: which protocol a packet speaks, from its IP protocol and   *)
(* its two ports.  Names and descriptions are left out.                    *)
(***************************************************************************)
EXTENDS Integers, TLAPS

Ports == 0 .. 65535
IpProtos == 0 .. 255

\* port_lookup
Service(port) == CASE port = 53 -> "dns"
                   [] port = 80 -> "http"
                   [] port = 443 -> "tls"
                   [] port \in {67, 68} -> "dhcp"
                   [] port = 123 -> "ntp"
                   [] OTHER -> "unknown"

\* Of two ports that name a service, the destination's counts.
ServiceOf(src_port, dst_port) ==
    IF Service(dst_port) # "unknown" THEN Service(dst_port) ELSE Service(src_port)

\* proto_identify
Identify(ip_proto, src_port, dst_port) ==
    LET known == ServiceOf(src_port, dst_port)
    IN CASE ip_proto = 1 -> "icmp"
         [] ip_proto = 6 -> IF known # "unknown" THEN known ELSE "tcp"
         [] ip_proto = 17 -> IF known # "unknown" THEN known ELSE "udp"
         [] OTHER -> "unknown"

\* proto.c:31-48.  Both directions of a conversation are taken for the same
\* protocol, unless its two ports belong to different services.
BothWaysAlike ==
    \A ip_proto \in IpProtos, a, b \in Ports :
        "unknown" \in {Service(a), Service(b)} \/ Service(a) = Service(b) =>
            Identify(ip_proto, a, b) = Identify(ip_proto, b, a)

THEOREM AlwaysBothWaysAlike == BothWaysAlike
  <1>1. SUFFICES ASSUME NEW ip_proto \in IpProtos, NEW a \in Ports, NEW b \in Ports,
                        "unknown" \in {Service(a), Service(b)} \/ Service(a) = Service(b)
                 PROVE  Identify(ip_proto, a, b) = Identify(ip_proto, b, a)
    BY DEF BothWaysAlike
  <1>2. ServiceOf(a, b) = ServiceOf(b, a)
    BY <1>1 DEF ServiceOf
  <1>3. QED
    BY <1>2 DEF Identify
=============================================================================
