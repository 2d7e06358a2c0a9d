------------------------------ MODULE Hexdump ------------------------------
(***************************************************************************)
(* src/hexdump.c: hexdump_buf, which renders bytes into a buffer of the    *)
(* caller's, three characters each.  What the characters are, NULL         *)
(* arguments and a buffer of size 0, which change nothing, and             *)
(* hexdump_print, which only prints, are left out.                         *)
(***************************************************************************)
EXTENDS Integers

CONSTANTS Lens,  \* numbers of bytes to render
          Sizes  \* sizes of the buffer

\* What the constants are.
HexdumpAssumption == Lens \subseteq Nat /\ Sizes \subseteq Nat \ {0}

VARIABLES len, out_sz,  \* the arguments
          i, pos,       \* the loop's position in the bytes and in the buffer
          nul,          \* where the string in the buffer ends
          reached       \* history: how far the buffer was written

dumpVars == <<len, out_sz, i, pos, nul, reached>>

Rendered(n, sz) == /\ len = n /\ out_sz = sz
                   /\ i = 0 /\ pos = 0 /\ nul = 0 /\ reached = 1

Init == \E n \in Lens, sz \in Sizes : Rendered(n, sz)

\* Mutant of Fits: there is room for the three characters, not for the NUL.
FitsBarely == pos + 2 < out_sz

Fits == pos + 4 < out_sz

\* snprintf writes what there is room for and counts what it would have written.
Byte == LET room == out_sz - pos
            kept == IF room > 3 THEN 3 ELSE room - 1
        IN /\ i < len /\ Fits
           /\ nul' = pos + kept /\ reached' = pos + kept + 1
           /\ pos' = pos + 3 /\ i' = i + 1
           /\ UNCHANGED <<len, out_sz>>

\* The next call, when the loop has ended.
Call(n, sz) == /\ ~(i < len /\ Fits)
               /\ len' = n /\ out_sz' = sz
               /\ i' = 0 /\ pos' = 0 /\ nul' = 0 /\ reached' = 1

Next == Byte \/ \E n \in Lens, sz \in Sizes : Call(n, sz)

Spec == Init /\ [][Next]_dumpVars

-----------------------------------------------------------------------------
\* hexdump.h:25 "The result is always NUL-terminated", inside the buffer, and
\* behind whole bytes only, none cut in half (hexdump.c:46-53).
WritesInside == nul < out_sz /\ reached <= out_sz /\ nul = 3 * i /\ i <= len
=============================================================================
