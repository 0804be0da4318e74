-------------------------- MODULE PositionManager --------------------------
(***************************************************************************)
(* PositionManager and PnlCalculator (src/src/position): PositionThread    *)
(* applies fills to the position of one instrument (net quantity, average  *)
(* cost, realised PnL, three separate atomics), any thread reads net       *)
(* quantity and then average cost to mark the position to market.          *)
(*                                                                         *)
(* netHist and avgHist are the modification orders of the two atomics.  A  *)
(* load may return an old value.  net_qty is stored with release and       *)
(* loaded with acquire: whoever reads an entry of netHist sees at least    *)
(* the avg_cost that was stored before it (its upTo).                      *)
(***************************************************************************)
EXTENDS Integers, Sequences, SequencesExt, FiniteSetsExt

CONSTANTS MaxQty,      \* bound: largest fill
          Prices,      \* fill prices, positive
          MaxFills     \* bound: fills applied

ASSUME PositionAssumption ==
    /\ MaxQty \in Nat \ {0} /\ MaxFills \in Nat
    /\ Prices # {} /\ IsFiniteSet(Prices) /\ Prices \subseteq Nat \ {0}

VARIABLES realized,   \* realized_pnl
          netHist,    \* net_qty: records of its value and of what it publishes
          avgHist,    \* avg_cost
          pc, fill,   \* PositionThread in on_fill
          rdPc, rdNet, rdSeen, rdAvg,   \* a thread in calc_unrealized_pnl
          inForce,    \* history: per net_qty entry, its average in avgHist
          fills,      \* history: fills applied
          cash,       \* history: what the fills paid (-) and brought in (+)
          slack       \* history: bound on what the integer averages rounded off

writerVars == <<realized, netHist, avgHist, pc, fill, inForce, fills, cash, slack>>
readerVars == <<rdPc, rdNet, rdSeen, rdAvg>>
vars == <<writerVars, readerVars>>

FillEvents == [side : {"BUY", "SELL"}, qty : 1 .. MaxQty, px : Prices]
Abs(x) == IF x < 0 THEN -x ELSE x
MinOf(a, b) == IF a < b THEN a ELSE b

net == Last(netHist).qty
avg == Last(avgHist)

Signed(f) == IF f.side = "BUY" THEN f.qty ELSE -f.qty
NewQty(f) == net + Signed(f)

\* Cases A and C: flat, or the fill has the sign of the position.
Opens(f) == IF f.side = "BUY" THEN net >= 0 ELSE net <= 0
\* Cases B and D with a fill larger than the position.
Flips(f) == ~Opens(f) /\ f.qty > Abs(net)
CloseQty(f) == MinOf(f.qty, Abs(net))

\* Mutant: the closed quantity is not limited to the position.
PnlDeltaWhole(f) ==
    IF Opens(f) THEN 0
    ELSE IF f.side = "BUY" THEN (avg - f.px) * f.qty ELSE (f.px - avg) * f.qty

\* What the part of the fill that closes realises.
PnlDelta(f) ==
    IF Opens(f) THEN 0
    ELSE IF f.side = "BUY" THEN (avg - f.px) * CloseQty(f)
                           ELSE (f.px - avg) * CloseQty(f)

\* Weighted average when opening, fill price on a flip, 0 when flat.
NewAvg(f) ==
    IF Opens(f)
    THEN (avg * Abs(net) + f.px * f.qty) \div Abs(NewQty(f))
    ELSE IF Flips(f) THEN f.px
    ELSE IF NewQty(f) = 0 THEN 0
    ELSE avg

\* Reducing a position without closing it does not store avg_cost.
StoresAvg(f) == Opens(f) \/ Flips(f) \/ NewQty(f) = 0

Init ==
    /\ realized = 0
    /\ netHist = <<[qty |-> 0, upTo |-> 1]>>
    /\ avgHist = <<0>>
    /\ pc = "idle"
    /\ fill = [side |-> "BUY", qty |-> 1, px |-> Min(Prices)]
    /\ rdPc = "idle" /\ rdNet = 0 /\ rdSeen = <<1, 1>> /\ rdAvg = 0
    /\ inForce = <<1>> /\ fills = 0 /\ cash = 0 /\ slack = 0

-----------------------------------------------------------------------------
(* on_fill: realised PnL, then average cost, then net quantity.            *)

Realize(f) ==
    /\ pc = "idle" /\ fills < MaxFills
    /\ fill' = f
    /\ realized' = realized + PnlDelta(f)
    /\ pc' = "avg"
    /\ fills' = fills + 1
    /\ cash' = cash - Signed(f) * f.px
    /\ slack' = slack + IF Opens(f) THEN Abs(NewQty(f)) - 1 ELSE 0
    /\ UNCHANGED <<netHist, avgHist, inForce, readerVars>>

StoreAvg ==
    /\ pc = "avg"
    /\ avgHist' = IF StoresAvg(fill) THEN Append(avgHist, NewAvg(fill))
                                     ELSE avgHist
    /\ pc' = "net"
    /\ UNCHANGED <<realized, netHist, fill, inForce, fills, cash, slack,
                   readerVars>>

\* Mutant: the quantity is stored with relaxed order and publishes nothing.
StoreNetRelaxed ==
    /\ pc = "net"
    /\ netHist' = Append(netHist, [qty |-> NewQty(fill), upTo |-> 1])
    /\ inForce' = Append(inForce, Len(avgHist))
    /\ pc' = "idle"
    /\ UNCHANGED <<realized, avgHist, fill, fills, cash, slack, readerVars>>

StoreNet ==
    /\ pc = "net"
    /\ netHist' = Append(netHist, [qty |-> NewQty(fill), upTo |-> Len(avgHist)])
    /\ inForce' = Append(inForce, Len(avgHist))
    /\ pc' = "idle"
    /\ UNCHANGED <<realized, avgHist, fill, fills, cash, slack, readerVars>>

-----------------------------------------------------------------------------
(* calc_unrealized_pnl: net_qty with acquire, then avg_cost.               *)

\* rdSeen holds the reader's positions in the two modification orders.
ReadNet(k) ==
    /\ rdPc = "idle"
    /\ k \in rdSeen[1] .. Len(netHist)
    /\ rdNet' = netHist[k].qty
    /\ rdSeen' = <<k, Max({rdSeen[2], netHist[k].upTo})>>
    /\ rdPc' = "avg"
    /\ UNCHANGED <<writerVars, rdAvg>>

ReadAvg(j) ==
    /\ rdPc = "avg"
    /\ j \in rdSeen[2] .. Len(avgHist)
    /\ rdAvg' = avgHist[j]
    /\ rdSeen' = [rdSeen EXCEPT ![2] = j]
    /\ rdPc' = "done"
    /\ UNCHANGED <<writerVars, rdNet>>

ReadReturns ==
    /\ rdPc = "done"
    /\ rdPc' = "idle"
    /\ UNCHANGED <<writerVars, rdNet, rdSeen, rdAvg>>

Versions == 1 .. MaxFills + 1

Next ==
    \/ \E f \in FillEvents : Realize(f)
    \/ StoreAvg
    \/ StoreNet
    \/ \E k \in Versions : ReadNet(k) \/ ReadAvg(k)
    \/ ReadReturns

Spec == Init /\ [][Next]_vars

-----------------------------------------------------------------------------
(***************************************************************************)
(* The books balance between fills: realised PnL minus the cost of the     *)
(* open position is what the fills moved in cash, up to what the integer   *)
(* averages rounded off (less than one tick per unit at each increase);    *)
(* and the average cost is 0 exactly when the position is flat, otherwise  *)
(* between the lowest and the highest fill price, through increases,       *)
(* reductions and flips in both directions.                                *)
(***************************************************************************)
BooksBalance ==
    pc = "idle" =>
        /\ Abs(realized - avg * net - cash) <= slack
        /\ IF net = 0 THEN avg = 0
                      ELSE avg >= Min(Prices) /\ avg <= Max(Prices)

\* A reader never combines a quantity with an average older than it: the
\* average it loads was stored for that fill or for a later one.
AverageIsNotOlder ==
    rdPc = "done" => rdSeen[2] >= inForce[rdSeen[1]]
=============================================================================
