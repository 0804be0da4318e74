----------------------------- MODULE Strategies -----------------------------
(***************************************************************************)
(* The three strategies of src/src/strategy, each against an OMS that      *)
(* takes its orders from order_queue_ and answers late: MarketMaker with   *)
(* acknowledgements, cancels and resting quotes, Momentum and StatArb with *)
(* IOC orders that are filled in part, completely or not at all.           *)
(*                                                                         *)
(* on_bbo and on_order_ack run on the strategy thread, on_fill on another  *)
(* one: a fill may arrive between any two of the loads of inventory_ in    *)
(* Momentum's on_bbo.  The inventories are atomics of their own.           *)
(*                                                                         *)
(* Momentum's averages are exact in units of 1 / Unit tick.  StatArb's     *)
(* z-score is a double out of a square root; only where it lies among the  *)
(* thresholds matters, so that is chosen freely.                           *)
(***************************************************************************)
EXTENDS Integers, Sequences, SequencesExt, FiniteSetsExt

CONSTANTS OrderQty,        \* order_qty
          MaxInventory,    \* max_inventory (MarketMaker)
          FastPeriod, SlowPeriod, SignalBand, MaxAdverse,   \* Momentum
          Mids,            \* mid prices
          Unit,            \* resolution of the averages
          QueueCap,        \* depth of order_queue_
          SideCap,         \* depth of pending_side_queue_
          CancelCap,       \* depth of cancel_queue_
          MaxTicks,        \* bound: quotes of the market, for each strategy
          MaxFlight        \* bound: orders with OMS and not yet answered

Kinds == {"MarketMaker", "Momentum", "StatArb"}

ASSUME StrategyAssumption ==
    /\ OrderQty \in Nat \ {0} /\ MaxInventory \in Nat
    /\ FastPeriod \in Nat \ {0} /\ SlowPeriod \in Nat \ {0}
    /\ SignalBand \in Nat /\ MaxAdverse \in Nat
    /\ Mids \subseteq Nat \ {0} /\ Unit \in Nat \ {0}
    /\ QueueCap \in Nat \ {0} /\ SideCap \in Nat \ {0} /\ CancelCap \in Nat \ {0}
    /\ MaxTicks \in [Kinds -> Nat] /\ MaxFlight \in Nat

VARIABLES kind,        \* which strategy
          ticks,       \* quotes so far
          queue,       \* order_queue_
          flight,      \* external: orders OMS took, oldest first
          inv,         \* inventory_ of each leg; MarketMaker and Momentum use "A"
          mishaps,     \* history: what may have confused the strategy
          lastMid, bidId, askId, sides, cancels,   \* MarketMaker
          acks,        \* external: acknowledgements on their way
          live,        \* external: side of every order that rests
          nextId,      \* external: ids OMS gave out
          sideOf,      \* history: side of every id
          fast, slow, warm, lastSignal, entry, pc, \* Momentum
          arb          \* state_ of StatArb

mmVars == <<lastMid, bidId, askId, sides, cancels, acks, live, nextId, sideOf>>
momVars == <<fast, slow, warm, lastSignal, entry, pc>>
common == <<kind, ticks, queue, flight, inv, mishaps>>
vars == <<common, mmVars, momVars, arb>>

Legs == {"A", "B"}
Abs(x) == IF x < 0 THEN -x ELSE x
Order(leg, sign, qty) == [leg |-> leg, sign |-> sign, qty |-> qty]

\* What a queue of some depth accepts of the items pushed into it in turn.
Fitting(items, q, cap) == SubSeq(items, 1, Min({Len(items), cap - Len(q)}))

\* send_order of each order in turn: a full queue refuses it.
Accepted(orders) == Fitting(orders, queue, QueueCap)
Waiting == queue # << >> \/ flight # << >>
SendOrders(orders) ==
    /\ queue' = queue \o Accepted(orders)
    /\ mishaps' = mishaps
        \cup (IF Accepted(orders) # orders THEN {"dropped"} ELSE {})
        \cup (IF orders # << >> /\ Waiting THEN {"early"} ELSE {})

MakerInit ==
    /\ lastMid = 0 /\ bidId = 0 /\ askId = 0 /\ sides = << >> /\ cancels = << >>
    /\ acks = << >> /\ live = {} /\ nextId = 1 /\ sideOf = << >>
MomentumInit ==
    /\ fast = 0 /\ slow = 0 /\ warm = 0 /\ lastSignal = "NONE" /\ entry = 0
    /\ pc = "idle"
ArbInit == arb = "FLAT"

Init ==
    /\ kind \in Kinds
    /\ ticks = 0 /\ queue = << >> /\ flight = << >>
    /\ inv = [l \in Legs |-> 0] /\ mishaps = {}
    /\ MakerInit /\ MomentumInit /\ ArbInit

-----------------------------------------------------------------------------
(* MarketMaker                                                             *)

\* cancel_active_orders: the known ids, then forgotten.
Known(id) == IF id # 0 THEN <<id>> ELSE << >>
ActiveIds == Known(bidId) \o Known(askId)

\* quote(): both sides unless the inventory is at its limit.
Quotes ==
    (IF inv["A"] < MaxInventory THEN <<Order("A", 1, OrderQty)>> ELSE << >>)
    \o (IF inv["A"] > -MaxInventory THEN <<Order("A", -1, OrderQty)>> ELSE << >>)

\* on_bbo: nothing unless the mid moved; cancel, then quote anew.
MakerOnBbo(mid) ==
    /\ kind = "MarketMaker" /\ ticks < MaxTicks[kind] /\ mid # lastMid
    /\ ticks' = ticks + 1
    /\ lastMid' = mid
    /\ cancels' = cancels \o Fitting(ActiveIds, cancels, CancelCap)
    /\ bidId' = 0 /\ askId' = 0
    /\ LET known == Accepted(Quotes)
           room  == Fitting(known, sides, SideCap) IN
       /\ queue' = queue \o known
       /\ sides' = sides \o [i \in DOMAIN room |-> room[i].sign]
       /\ mishaps' = mishaps
            \cup (IF room # known \/ Len(cancels') # Len(cancels \o ActiveIds)
                  THEN {"dropped"} ELSE {})
            \cup (IF sides # << >> \/ acks # << >> THEN {"early"} ELSE {})
    /\ UNCHANGED <<kind, flight, inv, acks, live, nextId, sideOf, momVars, arb>>

\* Mutant: a rejection leaves its side in the queue.
SidesAfterRejectKept == sides
SidesAfterReject == Tail(sides)

\* on_order_ack: the oldest pending side says which quote this is.
MakerOnAck ==
    /\ acks # << >>
    /\ acks' = Tail(acks)
    /\ IF sides = << >>
       THEN UNCHANGED <<bidId, askId, sides>>
       ELSE LET ack == Head(acks)
                id  == IF ack.ok THEN ack.id ELSE 0 IN
            /\ sides' = IF ack.ok THEN Tail(sides) ELSE SidesAfterReject
            /\ IF Head(sides) = 1
               THEN bidId' = id /\ UNCHANGED askId
               ELSE askId' = id /\ UNCHANGED bidId
    /\ UNCHANGED <<common, lastMid, cancels, live, nextId, sideOf, momVars, arb>>

\* OMS (external): risk refuses an order without an answer, or the exchange
\* accepts or rejects it.
MakerOrderRefused ==
    /\ kind = "MarketMaker" /\ queue # << >>
    /\ queue' = Tail(queue)
    /\ mishaps' = mishaps \cup {"unanswered"}
    /\ UNCHANGED <<kind, ticks, flight, inv, mmVars, momVars, arb>>

MakerOrderAnswered(ok) ==
    /\ kind = "MarketMaker" /\ queue # << >>
    /\ queue' = Tail(queue)
    /\ acks' = Append(acks, [id |-> nextId, ok |-> ok])
    /\ live' = IF ok THEN live \cup {nextId} ELSE live
    /\ sideOf' = Append(sideOf, Head(queue).sign)
    /\ nextId' = nextId + 1
    /\ UNCHANGED <<kind, ticks, flight, inv, mishaps, lastMid, bidId, askId, sides,
                   cancels, momVars, arb>>

\* pop_cancel, and the exchange (external): an order that still rests goes.
MakerCancelled ==
    /\ cancels # << >>
    /\ cancels' = Tail(cancels)
    /\ live' = live \ {Head(cancels)}
    /\ UNCHANGED <<common, lastMid, bidId, askId, sides, acks, nextId, sideOf,
                   momVars, arb>>

\* on_fill of a resting quote.
MakerOnFill(id) ==
    /\ id \in live
    /\ live' = live \ {id}
    /\ inv' = [inv EXCEPT !["A"] = @ + sideOf[id] * OrderQty]
    /\ UNCHANGED <<kind, ticks, queue, flight, mishaps, lastMid, bidId, askId, sides,
                   cancels, acks, nextId, sideOf, momVars, arb>>

-----------------------------------------------------------------------------
(* Momentum                                                                *)

\* ema_update with alpha = 2 / (period + 1).
Ema(prev, mid, period) == prev + (2 * (mid * Unit - prev)) \div (period + 1)

UpdateEma(mid) ==
    /\ fast' = IF warm = 0 THEN mid * Unit ELSE Ema(fast, mid, FastPeriod)
    /\ slow' = IF warm = 0 THEN mid * Unit ELSE Ema(slow, mid, SlowPeriod)
    /\ warm' = Min({warm + 1, SlowPeriod})

\* compute_signal
Signal ==
    IF warm < SlowPeriod THEN "NONE"
    ELSE IF fast - slow > SignalBand * Unit THEN "LONG"
    ELSE IF fast - slow < -(SignalBand * Unit) THEN "SHORT"
    ELSE "NONE"

\* Mutant: the usual size is closed, not what is held.
CloseQtyFixed == OrderQty
CloseQty == Abs(inv["A"])

\* close_position: forget the signal; an order only if something is held.
CloseOrders ==
    IF inv["A"] = 0 THEN << >>
    ELSE <<Order("A", IF inv["A"] > 0 THEN -1 ELSE 1, CloseQty)>>
ClosePosition == SendOrders(CloseOrders) /\ lastSignal' = "NONE" /\ entry' = 0

OpenPosition(sig) ==
    /\ SendOrders(<<Order("A", IF sig = "LONG" THEN 1 ELSE -1, OrderQty)>>)
    /\ lastSignal' = sig
    /\ entry' = fast \div Unit

\* check_stop_loss: the price moved against the position by too much.
StopLoss(mid) ==
    /\ entry # 0 /\ inv["A"] # 0
    /\ (IF inv["A"] > 0 THEN entry - mid ELSE mid - entry) > MaxAdverse

\* on_bbo, first part: the averages, then the stop-loss.
MomentumStop(mid) ==
    /\ kind = "Momentum" /\ pc = "idle" /\ ticks < MaxTicks[kind]
    /\ ticks' = ticks + 1
    /\ UpdateEma(mid)
    /\ pc' = IF StopLoss(mid) THEN "stop" ELSE "signal"
    /\ UNCHANGED <<kind, queue, flight, inv, mishaps, lastSignal, entry, mmVars, arb>>

\* on_bbo, second part: open when flat, close when the signal is gone or
\* reversed; the inventory is loaded again.
MomentumSignal ==
    /\ pc = "signal"
    /\ \/ /\ inv["A"] = 0 /\ Signal \notin {"NONE", lastSignal}
          /\ OpenPosition(Signal)
          /\ pc' = "idle"
       \/ /\ inv["A"] # 0
          /\ Signal # (IF inv["A"] > 0 THEN "LONG" ELSE "SHORT")
          /\ pc' = "close"
          /\ UNCHANGED <<queue, mishaps, lastSignal, entry>>
       \/ /\ IF inv["A"] = 0
             THEN Signal \in {"NONE", lastSignal}
             ELSE Signal = (IF inv["A"] > 0 THEN "LONG" ELSE "SHORT")
          /\ pc' = "idle"
          /\ UNCHANGED <<queue, mishaps, lastSignal, entry>>
    /\ UNCHANGED <<kind, ticks, flight, inv, fast, slow, warm, mmVars, arb>>

\* close_position, from the stop-loss or from the signal: it loads the
\* inventory for itself.
MomentumClose ==
    /\ pc \in {"stop", "close"}
    /\ ClosePosition
    /\ pc' = IF pc = "stop" THEN "signal" ELSE "idle"
    /\ UNCHANGED <<kind, ticks, flight, inv, fast, slow, warm, mmVars, arb>>

-----------------------------------------------------------------------------
(* StatArb                                                                 *)

Zones == {"below -stop", "below -entry", "between", "within exit",
          "above entry", "above stop"}
Pair(sign) == <<Order("A", sign, OrderQty), Order("B", -sign, OrderQty)>>

\* try_open
ArbOpens(z) ==
    /\ arb = "FLAT"
    /\ \/ /\ z \in {"above entry", "above stop"}
          /\ SendOrders(Pair(-1)) /\ arb' = "SHORT_SPREAD"
       \/ /\ z \in {"below -entry", "below -stop"}
          /\ SendOrders(Pair(1)) /\ arb' = "LONG_SPREAD"

\* Mutant: the legs are closed in the direction they were opened.
ClosingSignSame == IF arb = "LONG_SPREAD" THEN 1 ELSE -1
ClosingSign == IF arb = "LONG_SPREAD" THEN -1 ELSE 1

\* try_close: reverted, or diverged too far.
ArbCloses(z) ==
    /\ arb # "FLAT"
    /\ z \in {"within exit", "above stop", "below -stop"}
    /\ SendOrders(Pair(ClosingSign))
    /\ arb' = "FLAT"

\* on_bbo of either leg, once both have a price and there are enough samples.
ArbOnBbo(z) ==
    /\ kind = "StatArb" /\ ticks < MaxTicks[kind]
    /\ ticks' = ticks + 1
    /\ ArbOpens(z) \/ ArbCloses(z)
    /\ UNCHANGED <<kind, flight, inv, mmVars, momVars>>

-----------------------------------------------------------------------------
(* The IOC orders of Momentum and StatArb: taken by OMS, answered later    *)
(* with a fill of any size (external), which on_fill books.                *)

PopOrder ==
    /\ kind # "MarketMaker" /\ queue # << >> /\ Len(flight) < MaxFlight
    /\ flight' = Append(flight, Head(queue))
    /\ queue' = Tail(queue)
    /\ UNCHANGED <<kind, ticks, inv, mishaps, mmVars, momVars, arb>>

OnIocFill(q) ==
    /\ flight # << >> /\ q <= Head(flight).qty
    /\ inv' = [inv EXCEPT ![Head(flight).leg] = @ + Head(flight).sign * q]
    /\ flight' = Tail(flight)
    /\ mishaps' = IF q < Head(flight).qty THEN mishaps \cup {"unfilled"} ELSE mishaps
    /\ UNCHANGED <<kind, ticks, queue, mmVars, momVars, arb>>

Next ==
    \/ \E mid \in Mids : MakerOnBbo(mid) \/ MomentumStop(mid)
    \/ MakerOnAck \/ MakerOrderRefused \/ MakerCancelled
    \/ \E ok \in BOOLEAN : MakerOrderAnswered(ok)
    \/ \E id \in DOMAIN sideOf : MakerOnFill(id)
    \/ MomentumSignal \/ MomentumClose
    \/ \E z \in Zones : ArbOnBbo(z)
    \/ PopOrder
    \/ \E q \in 0 .. OrderQty * MaxFlight : OnIocFill(q)

Spec == Init /\ [][Next]_vars

-----------------------------------------------------------------------------
(***************************************************************************)
(* The market maker keeps track of its quotes: an id it holds belongs to   *)
(* the side it holds it for, and every acknowledged order that still rests *)
(* is held or about to be cancelled.  Until an order goes unanswered, a    *)
(* side does not fit into its queue, or the market moves before the        *)
(* previous quotes are acknowledged.                                       *)
(***************************************************************************)
QuotesAreTracked ==
    (kind = "MarketMaker" /\ mishaps = {}) =>
        /\ bidId # 0 => sideOf[bidId] = 1
        /\ askId # 0 => sideOf[askId] = -1
        /\ \A id \in live :
            \/ id \in {bidId, askId}
            \/ \E i \in DOMAIN cancels : cancels[i] = id
            \/ \E i \in DOMAIN acks : acks[i].id = id

\* "Holds one direction only, never adds" (momentum.hpp): as long as every
\* order is answered before the next one is decided, no fill, partial or not,
\* makes the position larger than one order or turns it around.
MomentumHoldsOneDirection ==
    [][(kind = "Momentum" /\ mishaps' \cap {"early"} = {}) =>
            /\ Abs(inv["A"]') <= OrderQty
            /\ inv["A"] * inv["A"]' >= 0]_vars

\* What the orders of a sequence buy of a leg, less what they sell of it.
Ordered(leg, orders) ==
    LET bought == [i \in DOMAIN orders |->
                     IF orders[i].leg = leg THEN orders[i].sign * orders[i].qty ELSE 0]
    IN MapThenSumSet(LAMBDA i : bought[i], DOMAIN orders)
Pending(leg) == Ordered(leg, queue) + Ordered(leg, flight)

Held == CASE arb = "FLAT" -> 0
          [] arb = "LONG_SPREAD" -> OrderQty
          [] arb = "SHORT_SPREAD" -> -OrderQty

(***************************************************************************)
(* The legs of the arbitrage match its state: what is held and what is     *)
(* ordered add up to the spread that state_ stands for, in opposite legs,  *)
(* however late the fills come, until an order is dropped or not filled.   *)
(***************************************************************************)
ArbLegsMatchState ==
    (kind = "StatArb" /\ mishaps \cap {"dropped", "unfilled"} = {}) =>
        /\ inv["A"] + Pending("A") = Held
        /\ inv["B"] + Pending("B") = -Held

\* What a strategy believes of its orders is what the market holds for it.
StrategiesKeepTrack == QuotesAreTracked /\ ArbLegsMatchState
=============================================================================
