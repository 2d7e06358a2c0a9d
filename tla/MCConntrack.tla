---------------------------- MODULE MCConntrack ----------------------------
\* A table of three slots for TLC: two keys share a home slot, a third probes
\* into it from the slot before, so that probes cross, wrap and collide.
EXTENDS Conntrack, TLC
CONSTANTS a, b, c

MCKeys == {a, b, c}
MCHash == (a :> 2) @@ (b :> 2) @@ (c :> 1)
=============================================================================
