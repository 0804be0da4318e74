--------------------------- MODULE MCPreTradeRisk ---------------------------
EXTENDS PreTradeRisk

\* Losses that reach the threshold in one or two steps, and recoveries.
MCOpenThreshold == -3
MCDeltas == {-3, -2, 2, 3}
=============================================================================
