------------------------------- MODULE MCPath -------------------------------
(***************************************************************************)
(* Limits on packets, on bytes and on both, for a throttle whose clock has *)
(* two steps to a ms.  Header lengths below, at and above the least, and   *)
(* captured lengths around the end of each header.                         *)
(* Port 65616 is 80 once more, and 0 stands for any; a word of the grammar *)
(* may stand where a number or an address is due.  Buffers too small for   *)
(* one byte, for all the bytes, and larger than that.                      *)
(***************************************************************************)
EXTENDS Path, TLC

CONSTANTS p, q

MCLimits == {<<2, 0>>, <<5, 0>>, <<0, 200>>, <<6, 300>>}
MCCounts == -1 .. 3
MCSizes == 1 .. 16

MCTokens == {"tcp", "udp", "src", "dst", "port", "host", "80", "65616", "0"}
MCAtoi == [t \in MCTokens |-> CASE t = "80" -> 80 [] t = "65616" -> 65616 [] OTHER -> 0]
MCInetAddr == [t \in MCTokens |-> CASE t = "80" -> 1 [] t = "65616" -> 2 [] t = "0" -> 0 [] OTHER -> -1]
MCPackets == [proto : {"tcp", "icmp"}, port : [{"src", "dst"} -> {0, 53, 80}],
              ip : [{"src", "dst"} -> {1, 2}]]

\* A limit below ten packets per second.
MCLow == {<<5, 0>>}
=============================================================================
