------------------------------- MODULE MCRing -------------------------------
\* Small instances of Ring for TLC.
EXTENDS Ring
CONSTANTS p1, p2

MCPackets == {p1, p2}

\* 0 asks for the default capacity, here 3.
MCRequests == 0 .. 2
=============================================================================
