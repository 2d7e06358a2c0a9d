---------------------------- MODULE MCRateLimit ----------------------------
\* Buckets of less than one token to two and a half, rates of a third of a
\* token per tick to more than one, for TLC.
EXTENDS RateLimit
=============================================================================
