------------------------------ MODULE Backtest ------------------------------
(***************************************************************************)
(* The two programs that keep their books with a PositionManager: the      *)
(* trading program, where PositionThread applies whatever fills arrive     *)
(* while other threads read, and the back test (src/backtest), one thread  *)
(* in which Backtester::feed_bbo drives SimExchange, hands its             *)
(* acknowledgements and then its fills on, and the day's realised PnL goes *)
(* to a MetricsReport.  A behaviour is one of either.                      *)
(***************************************************************************)
EXTENDS PositionManager, SimExchange

CONSTANTS MaxQuotes,     \* bound: quotes fed
          QuotesPerDay   \* BBOS_PER_DAY

\* Prices, the range of the fills, covers the quotes that the back test fills at.
ASSUME BacktestAssumption ==
    /\ MaxQuotes \in Nat /\ QuotesPerDay \in Nat \ {0}
    /\ \A t \in Ticks : \E lo, hi \in Prices : lo <= t /\ t <= hi

VARIABLES program,     \* "live" or "backtest"
          btPc,        \* Backtester::feed_bbo
          bboCount,    \* bbo_count_
          days,        \* daily_pnls_
          prev,        \* prev_realized_pnl
          acked,       \* history: ids the acknowledgement handler was given
          applied      \* history: per order, quantity handed to on_fill

backtestVars == <<exchangeVars, btPc, bboCount, days, prev, acked, applied>>
programVars == <<program, vars, backtestVars>>

BacktestInit ==
    /\ program \in {"live", "backtest"}
    /\ Init
    /\ ExchangeInit
    /\ btPc = "idle" /\ bboCount = 0
    /\ days = <<>> /\ prev = 0
    /\ acked = {}
    /\ applied = [i \in 1 .. MaxOrders |-> 0]

\* The strategy sends an order between two quotes.
Order(req) ==
    /\ btPc = "idle"
    /\ SendNewOrder(req)
    /\ UNCHANGED <<vars, btPc, bboCount, days, prev, acked, applied>>

\* feed_bbo: match, ...
FeedBbo(q) ==
    /\ btPc = "idle" /\ bboCount < MaxQuotes
    /\ bboCount' = bboCount + 1
    /\ ProcessBbo(q)
    /\ btPc' = "acks"
    /\ UNCHANGED <<vars, days, prev, acked, applied>>

\* ... hand on every acknowledgement, ...
DrainAck ==
    /\ btPc = "acks"
    /\ PopAck
    /\ acked' = acked \union {Head(ackQ)}
    /\ UNCHANGED <<vars, btPc, bboCount, days, prev, applied>>

AcksDrained ==
    /\ btPc = "acks" /\ ackQ = <<>>
    /\ btPc' = "fills"
    /\ UNCHANGED <<vars, exchangeVars, bboCount, days, prev, acked, applied>>

\* ... and every fill: on_fill of the position manager.
DrainFill ==
    /\ btPc = "fills" /\ PopFill
    /\ LET f == Head(fillQ)
       IN /\ Realize([side |-> f.side, qty |-> f.qty, px |-> f.px])
          /\ applied' = [applied EXCEPT ![f.id] = @ + f.qty]
    /\ UNCHANGED <<btPc, bboCount, days, prev, acked>>

FillsDrained ==
    /\ btPc = "fills" /\ pc = "idle" /\ fillQ = <<>>
    /\ btPc' = IF bboCount % QuotesPerDay = 0 THEN "record" ELSE "idle"
    /\ UNCHANGED <<vars, exchangeVars, bboCount, days, prev, acked, applied>>

\* The rest of on_fill.
OnFillStores ==
    /\ StoreAvg \/ StoreNet
    /\ UNCHANGED backtestVars

\* The end of a trading day: record_pnl of what was realised since the last.
RecordPnl ==
    /\ btPc = "record"
    /\ days' = Append(days, realized - prev)
    /\ prev' = realized
    /\ btPc' = "idle"
    /\ UNCHANGED <<vars, exchangeVars, bboCount, acked, applied>>

\* The loop of the back test.
BacktestLoop ==
    \/ \E req \in Requests : Order(req)
    \/ \E q \in Quotes : FeedBbo(q)
    \/ DrainAck \/ AcksDrained
    \/ DrainFill \/ FillsDrained
    \/ OnFillStores
    \/ RecordPnl

BacktestNext ==
    /\ UNCHANGED program
    /\ \/ program = "live" /\ Next /\ UNCHANGED backtestVars
       \/ program = "backtest" /\ BacktestLoop

BacktestSpec == BacktestInit /\ [][BacktestNext]_programVars

-----------------------------------------------------------------------------
(* MetricsReport.                                                          *)

\* Cumulative PnL after k days.
Equity(k) == MapThenSumSet(LAMBDA d : days[d], 1 .. k)

TotalPnl == Equity(Len(days))

DrawdownStep(acc, v) ==
    LET cumulative == acc.cumulative + v
        peak       == Max({acc.peak, cumulative})
    IN [cumulative |-> cumulative, peak |-> peak,
        maxDd |-> Max({acc.maxDd, peak - cumulative})]

\* One pass that carries the running total, its peak and the deepest fall.
FallFrom(first, start) ==
    LET after[k \in first .. Len(days)] ==
            IF k = first THEN start ELSE DrawdownStep(after[k - 1], days[k])
    IN after[Len(days)].maxDd

\* Mutant: the peak starts with the first day instead of with 0.
MaxDrawdownFromFirst ==
    IF days = <<>> THEN 0
    ELSE FallFrom(1, [cumulative |-> days[1], peak |-> days[1], maxDd |-> 0])

\* max_drawdown: the pass starts from 0.
MaxDrawdown == FallFrom(0, [cumulative |-> 0, peak |-> 0, maxDd |-> 0])

-----------------------------------------------------------------------------
\* Resting quantities of order i.
Resting(i) == {pending[k].req.qty : k \in {j \in DOMAIN pending : pending[j].id = i}}

\* What the fills handed on bought, less what they sold.
BoughtBy == [i \in DOMAIN sent |-> IF sent[i].side = "BUY" THEN applied[i] ELSE -applied[i]]
Bought == MapThenSumSet(LAMBDA i : BoughtBy[i], DOMAIN sent)

(***************************************************************************)
(* Between two quotes every order is accounted for: what its fills brought *)
(* to the position manager and what still rests make up what was ordered,  *)
(* or nothing rests and the missing part is one whose share rounds down to *)
(* nothing.  Only acknowledged orders were filled, and the position is the *)
(* sum of the fills.                                                       *)
(***************************************************************************)
OrdersAreConserved ==
    program = "backtest" /\ btPc = "idle" =>
        /\ \A i \in DOMAIN sent :
            /\ applied[i] > 0 => i \in acked
            /\ LET missing == sent[i].qty - applied[i]
               IN \/ Resting(i) = {missing}
                  \/ Resting(i) = {} /\ FillQty(missing) = 0
        /\ net = Bought

\* The days recorded add up to the realised PnL of the last of them, and the
\* one-pass drawdown is the deepest fall of that curve from an earlier point.
ReportMatchesBooks ==
    /\ TotalPnl = prev
    /\ MaxDrawdown = Max({Equity(d[1]) - Equity(d[2]) :
                            d \in {e \in (0 .. Len(days)) \X (0 .. Len(days)) :
                                        e[1] <= e[2]}})

\* Orders, fills, position and report of the back test add up.
BacktestReconciles == OrdersAreConserved /\ ReportMatchesBooks

\* "Cumulative always <= 0: max_drawdown should be 0": a back test that never
\* was in profit reports no drawdown.
NoProfitNoDrawdown ==
    (\A k \in 0 .. Len(days) : Equity(k) <= 0) => MaxDrawdown = 0
=============================================================================
