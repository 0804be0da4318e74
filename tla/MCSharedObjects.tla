-------------------------- MODULE MCSharedObjects ---------------------------
EXTENDS SharedObjects

\* Two slots each; the counters of the first queue wrap after four rounds.
MCN == 2
MCMod == 8

\* Two buckets, and values on, between and above the boundaries.
MCBoundaries == <<1, 3>>
=============================================================================
