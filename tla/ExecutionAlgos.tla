--------------------------- MODULE ExecutionAlgos ---------------------------
(***************************************************************************)
(* The execution algorithms of src/src/execution (twap.cpp, vwap.cpp,      *)
(* pov.cpp): a parent order of total lots is worked in child orders.       *)
(*                                                                         *)
(* Twap and Vwap send one child per slice when its time has come; Twap     *)
(* jitters the size, Vwap plans it from a volume profile and re-plans when *)
(* the fills deviate by more than a fifth.  Pov follows the market's       *)
(* volume.  Fills arrive at any later time, in pieces, also after a        *)
(* restart with start().                                                   *)
(*                                                                         *)
(* Weights, rates and jitter are rationals here and doubles in the code: a *)
(* product that is an integer may come out just below it, so truncation    *)
(* may lose one unit there (Truncated).                                    *)
(***************************************************************************)
EXTENDS Integers, Functions, FiniteSetsExt

CONSTANTS Totals,       \* total_qty
          SliceCounts,  \* slices
          Weights,      \* volume profile entries, as integer weights
          JitterNum, JitterDen,   \* jitter_ratio
          RateNum, RateDen,       \* participation_rate
          Trades,       \* sizes of market trades
          MaxVolume,    \* bound: market volume
          MaxStarts     \* bound: calls of start()

ASSUME AlgoAssumption ==
    /\ Totals \subseteq Nat \ {0} /\ SliceCounts \subseteq Nat \ {0}
    /\ Weights \subseteq Nat
    /\ JitterNum \in Nat /\ JitterDen \in Nat \ {0} /\ JitterNum <= JitterDen
    /\ RateNum \in Nat /\ RateDen \in Nat \ {0}
    /\ Trades \subseteq Nat \ {0} /\ MaxVolume \in Nat /\ MaxStarts \in Nat

VARIABLES algo, total, slices, profile,   \* what the constructor fixes
          target,    \* target_qty_ (Vwap)
          idx,       \* slice_index_
          sent,      \* sent_qty_, dispatched_qty_, ordered_qty_
          filled,    \* total_filled_ (Vwap), sent_qty_ (Pov)
          clock,     \* slice intervals since start_ns_
          volume,    \* market_volume_ (Pov)
          inFlight,  \* external: sent and not yet reported filled
          starts     \* calls of start() so far

parent == <<algo, total, slices, profile>>
algosVars == <<parent, target, idx, sent, filled, clock, volume, inFlight, starts>>

MinOf(a, b) == IF a < b THEN a ELSE b
MaxOf(a, b) == IF a < b THEN b ELSE a

\* static_cast<Qty>(x) of a double near a / b.
Truncated(a, b) ==
    {a \div b} \cup IF a > 0 /\ a % b = 0 THEN {a \div b - 1} ELSE {}

WeightSum(from, to) == MapThenSumSet(LAMBDA i : profile[i], from .. to)

\* Distribute qty over the slices from first on by weight; the last takes the rest.
Plans(w, old, first, n, qty, weightSum) ==
    {p \in [0 .. n - 1 -> 0 .. MaxOf(qty, Max({old[i] : i \in 0 .. n - 1}))] :
        /\ \A i \in 0 .. first - 1 : p[i] = old[i]
        /\ \A i \in first .. n - 2 : p[i] \in Truncated(qty * w[i], weightSum)
        /\ p[n - 1] = qty - MapThenSumSet(LAMBDA i : p[i], first .. n - 2)}

\* The constructors.  start_ns_ is 0, so that every slice is due at once.
AlgosInit ==
    /\ algo \in {"TWAP", "VWAP", "POV"}
    /\ total \in Totals
    /\ slices \in SliceCounts
    /\ profile \in {w \in [0 .. slices - 1 -> Weights] : \E i \in DOMAIN w : w[i] > 0}
    /\ algo # "VWAP" => \A i, j \in DOMAIN profile : profile[i] = profile[j]
    /\ LET zero == [i \in 0 .. slices - 1 |-> 0] IN
       target \in IF algo = "VWAP"
                  THEN Plans(profile, zero, 0, slices, total,
                             WeightSum(0, slices - 1))
                  ELSE {zero}
    /\ idx = 0 /\ sent = 0 /\ filled = 0
    /\ clock = slices /\ volume = 0 /\ inFlight = 0 /\ starts = 0

\* start(): Twap and Vwap only.  The plan is kept as it is.
Start ==
    /\ algo # "POV" /\ starts < MaxStarts
    /\ idx' = 0 /\ sent' = 0 /\ filled' = 0 /\ clock' = 0
    /\ starts' = starts + 1
    /\ UNCHANGED <<parent, target, volume, inFlight>>

\* Time passes (external).
Advance ==
    /\ clock < slices
    /\ clock' = clock + 1
    /\ UNCHANGED <<parent, target, idx, sent, filled, volume, inFlight, starts>>

-----------------------------------------------------------------------------
Due == idx < slices /\ clock >= idx
LastSlice == idx = slices - 1

\* Mutant: no lot is kept back for the slices to come.
HeadroomWhole == total - sent
\* What may be sent now so that every later slice still gets one lot.
Headroom == total - sent - (slices - 1 - idx)

\* The size of the slice that is due, from the size wanted.
SliceQty(wanted) ==
    IF LastSlice THEN total - sent ELSE MaxOf(1, MinOf(wanted, Headroom))

\* Mutant: an empty slice returns before it is counted.
SendSliceReturns(qty) ==
    IF qty <= 0
    THEN UNCHANGED <<sent, inFlight, idx>>
    ELSE sent' = sent + qty /\ inFlight' = inFlight + qty /\ idx' = idx + 1
\* send_new_order if the size is positive; the slice is over either way.
SendSlice(qty) ==
    /\ sent' = sent + MaxOf(0, qty)
    /\ inFlight' = inFlight + MaxOf(0, qty)
    /\ idx' = idx + 1

\* apply_jitter: any size within the ratio of the base size, at least 1.
Jittered(base) ==
    {MaxOf(1, q) : q \in ((base * (JitterDen - JitterNum)) \div JitterDen)
                         .. ((base * (JitterDen + JitterNum)) \div JitterDen)}

TwapTick ==
    /\ algo = "TWAP" /\ Due
    /\ \E q \in Jittered(total \div slices) : SendSlice(SliceQty(q))
    /\ UNCHANGED <<parent, target, filled, clock, volume, starts>>

\* maybe_rebalance: the conditions, then the plan for what is not yet filled.
Expected == Truncated(total * WeightSum(0, idx - 1), WeightSum(0, slices - 1))
Deviates(expected) ==
    /\ idx > 0 /\ filled # 0 /\ expected > 0
    /\ 5 * (filled - expected) > expected \/ 5 * (expected - filled) > expected
    /\ total > filled
    /\ WeightSum(idx, slices - 1) > 0

MaybeRebalance ==
    \E expected \in Expected :
        IF Deviates(expected)
        THEN target' \in Plans(profile, target, idx, slices, total - filled,
                               WeightSum(idx, slices - 1))
        ELSE target' = target

VwapTick ==
    /\ algo = "VWAP" /\ Due
    /\ MaybeRebalance
    /\ SendSlice(SliceQty(target'[idx]))
    /\ UNCHANGED <<parent, filled, clock, volume, starts>>

\* Mutant: the gap is measured against the fills, not against the orders sent.
GapToFills(tgt) == tgt - filled
Gap(tgt) == tgt - sent

\* Pov::on_market_trade: order the gap if it exceeds kMinOrderSize = 1.
MarketTrade(q) ==
    /\ algo = "POV" /\ volume + q <= MaxVolume
    /\ volume' = volume + q
    /\ \E tgt \in Truncated((volume + q) * RateNum, RateDen) :
        LET order == IF Gap(tgt) > 1 THEN MaxOf(0, MinOf(Gap(tgt), total - sent))
                                     ELSE 0
        IN sent' = sent + order /\ inFlight' = inFlight + order
    /\ UNCHANGED <<parent, target, idx, filled, clock, starts>>

\* on_fill: the gateway reports a part of what is in flight.
OnFill(q) ==
    /\ algo # "TWAP" /\ q <= inFlight
    /\ filled' = filled + q
    /\ inFlight' = inFlight - q
    /\ UNCHANGED <<parent, target, idx, sent, clock, volume, starts>>

AlgosNext ==
    \/ Start
    \/ Advance
    \/ TwapTick
    \/ VwapTick
    \/ \E q \in Trades : MarketTrade(q)
    \/ \E q \in 1 .. inFlight : OnFill(q)

AlgosSpec == AlgosInit /\ [][AlgosNext]_algosVars

\* Time passes and the caller keeps calling tick(); nobody has to trade, to
\* fill or to restart.
AlgosFairness == WF_algosVars(Advance) /\ WF_algosVars(TwapTick \/ VwapTick)

FairSpec == AlgosSpec /\ AlgosFairness

-----------------------------------------------------------------------------
(***************************************************************************)
(* Twap and Vwap never send more than the parent order and have sent all   *)
(* of it after the last slice, through jitter, re-planning, late fills and *)
(* restarts, when there is a lot for every slice.                          *)
(***************************************************************************)
ParentQuantityIsExact ==
    algo # "POV" /\ total >= slices =>
        /\ sent <= total
        /\ idx = slices => sent = total

\* "Never overshoot total": Twap and Vwap send no more than the parent order,
\* however few its lots are.
NeverOvershoots == algo # "POV" => sent <= total

(***************************************************************************)
(* Pov never orders more than its share of the market's volume or than the *)
(* parent order, and is behind its share by at most kMinOrderSize (and one *)
(* unit lost to truncation) until the parent order is exhausted.           *)
(***************************************************************************)
PovTracksMarket ==
    algo = "POV" =>
        /\ sent <= total
        /\ sent * RateDen <= volume * RateNum
        /\ sent = total \/ (volume * RateNum) \div RateDen - sent <= 2

\* Every schedule is worked off: Twap and Vwap come to their last slice again
\* after every start().
ScheduleCompletes == algo # "POV" ~> idx = slices
=============================================================================
