----------------------------- MODULE MCBacktest -----------------------------
EXTENDS Backtest

\* Everything at once, and halves that leave a remainder below one lot.
MCFillRatios == {<<1, 1>>, <<1, 2>>}
=============================================================================
