------------------------- MODULE MCTradingPipeline -------------------------
EXTENDS TradingPipeline

\* Buys and sells of different sizes, so that a mixed-up fill shows.
MCSigned == <<2, -1, -2, 1>>
=============================================================================
