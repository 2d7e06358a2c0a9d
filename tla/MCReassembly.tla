---------------------------- MODULE MCReassembly ----------------------------
(***************************************************************************)
(* Datagrams of three fragments, of two and whole.  Those fragtrack.c sees *)
(* are so long that repeats wrap its sum of sizes; the datagram y that     *)
(* ipdefrag.c gets ends behind 65535.  Three streams for two slots, two    *)
(* places to start a segment at; the numbers of z wrap between them.       *)
(***************************************************************************)
EXTENDS Reassembly, TLC

CONSTANTS x, y, z

MCKeys == {x, y, z}

Sized(offset, size, more) == [offset |-> offset, size |-> size, more |-> more]
MCTracked == x :> {Sized(0, 30000, TRUE), Sized(30000, 30000, TRUE), Sized(60000, 200, FALSE)}
          @@ y :> {Sized(0, 40000, TRUE), Sized(40000, 100, FALSE)}
          @@ z :> {Sized(0, 100, FALSE)}

Long(offset, len, more) == [offset |-> offset, len |-> len, more |-> more]
MCCarried == x :> {Long(0, 8, TRUE), Long(8, 8, TRUE), Long(16, 4, FALSE)}
          @@ y :> {Long(0, 65528, TRUE), Long(65528, 20, FALSE)}
          @@ z :> {Long(0, 10, FALSE)}

MCFirst == x :> 0 @@ y :> 1000 @@ z :> 2040
=============================================================================
