----------------------------- MODULE MCTrading ------------------------------
EXTENDS Trading

\* Momentum needs SlowPeriod quotes before its first signal.
MCMaxTicks == [k \in Kinds |-> CASE k = "MarketMaker" -> 3
                                 [] k = "Momentum"    -> 5
                                 [] k = "StatArb"     -> 4]
=============================================================================
