--------------------------- MODULE PositionLimits ---------------------------
(***************************************************************************)
(* PositionLimits (src/src/risk/position_limits.cpp): the net position of  *)
(* one instrument, reserved before an order is sent and given back when    *)
(* the order is cancelled.  Several threads may call it; a reservation is  *)
(* a relaxed load, a bounds test and a weak compare-exchange that retries, *)
(* a cancel is one fetch_add.                                              *)
(***************************************************************************)
EXTENDS Integers, FiniteSets, FiniteSetsExt

CONSTANTS Reservers,       \* callers of check_and_reserve
          MaxNetQty,     \* max_net_qty_
          MaxNotional,   \* max_notional_
          MaxQty,        \* bound: largest order
          Prices,        \* order prices; 0 for a market order
          MaxOrders      \* bound: reservations made

ASSUME LimitsAssumption ==
    /\ MaxNetQty \in Nat /\ MaxNotional \in Nat /\ MaxQty \in Nat \ {0}
    /\ Prices \subseteq Nat /\ MaxOrders \in Nat

VARIABLES net,       \* slots_[id].v
          plPc,        \* where each thread is in check_and_reserve
          delta,     \* the signed quantity the thread wants to reserve
          old,       \* the thread's old_qty
          live,      \* history: reserved orders not cancelled, k -> signed qty
          made,      \* history: reservations made so far
          cancelled  \* history: whether a reservation was given back

limitVars == <<net, plPc, delta, old, live, made, cancelled>>

SignedQtys == -MaxQty .. MaxQty
Abs(x) == IF x < 0 THEN -x ELSE x

\* A reserved order is a pair of its number and its signed quantity.
Reserved == SUBSET ((1 .. MaxOrders) \X SignedQtys)
SumLive == MapThenSumSet(LAMBDA o : o[2], live)

LimitsInit ==
    /\ net = 0
    /\ plPc = [t \in Reservers |-> "idle"]
    /\ delta = [t \in Reservers |-> 0]
    /\ old = [t \in Reservers |-> 0]
    /\ live = {}
    /\ made = 0
    /\ cancelled = FALSE

\* The notional test: only a priced order of positive quantity is tested.
NotionalOK(price, qty) == price > 0 /\ qty > 0 => price * qty <= MaxNotional

\* The bounds test of one round of the loop.
Within(q) == q <= MaxNetQty /\ q >= -MaxNetQty

\* check_and_reserve up to the first load of the slot.
Begin(t, d, price) ==
    /\ plPc[t] = "idle"
    /\ made < MaxOrders
    /\ d # 0
    /\ NotionalOK(price, Abs(d))
    /\ delta' = [delta EXCEPT ![t] = d]
    /\ old' = [old EXCEPT ![t] = net]
    /\ plPc' = [plPc EXCEPT ![t] = "check"]
    /\ UNCHANGED <<net, live, made, cancelled>>

\* The bounds test of one round of the loop.
Check(t) ==
    /\ plPc[t] = "check"
    /\ plPc' = [plPc EXCEPT ![t] =
                IF Within(old[t] + delta[t]) THEN "cas" ELSE "idle"]
    /\ UNCHANGED <<net, delta, old, live, made, cancelled>>

\* Mutant: the new value is stored without comparing.
CasSuccessBlind(t) ==
    /\ plPc[t] = "cas"
    /\ made < MaxOrders
    /\ net' = old[t] + delta[t]
    /\ live' = live \cup {<<made + 1, delta[t]>>}
    /\ made' = made + 1
    /\ plPc' = [plPc EXCEPT ![t] = "idle"]
    /\ UNCHANGED <<delta, old, cancelled>>

\* Mutant: the tested sum is dropped and delta added to whatever is there.
CasSuccessAdds(t) ==
    /\ plPc[t] = "cas"
    /\ made < MaxOrders
    /\ net' = net + delta[t]
    /\ live' = live \cup {<<made + 1, delta[t]>>}
    /\ made' = made + 1
    /\ plPc' = [plPc EXCEPT ![t] = "idle"]
    /\ UNCHANGED <<delta, old, cancelled>>

\* compare_exchange_weak succeeds: the reservation is made.
CasSuccess(t) ==
    /\ plPc[t] = "cas"
    /\ made < MaxOrders
    /\ net = old[t]
    /\ net' = old[t] + delta[t]
    /\ live' = live \cup {<<made + 1, delta[t]>>}
    /\ made' = made + 1
    /\ plPc' = [plPc EXCEPT ![t] = "idle"]
    /\ UNCHANGED <<delta, old, cancelled>>

\* compare_exchange_weak fails, because the slot changed or spuriously.
CasFail(t) ==
    /\ plPc[t] = "cas"
    /\ old' = [old EXCEPT ![t] = net]
    /\ plPc' = [plPc EXCEPT ![t] = "check"]
    /\ UNCHANGED <<net, delta, live, made, cancelled>>

\* on_cancel: give the reservation of an order back, without a bounds test.
OnCancel(o) ==
    /\ o \in live
    /\ net' = net - o[2]
    /\ live' = live \ {o}
    /\ cancelled' = TRUE
    /\ UNCHANGED <<plPc, delta, old, made>>

LimitsNext ==
    \/ \E t \in Reservers :
        \/ \E d \in SignedQtys, price \in Prices : Begin(t, d, price)
        \/ Check(t)
        \/ CasSuccess(t)
        \/ CasFail(t)
    \/ \E o \in live : OnCancel(o)

LimitsSpec == LimitsInit /\ [][LimitsNext]_limitVars

-----------------------------------------------------------------------------
\* Every variable stays in its type.
LimitsTypeOK ==
    /\ net \in Int
    /\ plPc \in [Reservers -> {"idle", "check", "cas"}]
    /\ delta \in [Reservers -> SignedQtys]
    /\ old \in [Reservers -> Int]
    /\ live \in Reserved
    /\ made \in 0 .. MaxOrders
    /\ cancelled \in BOOLEAN

\* The slot is the sum of the orders reserved and not cancelled: no
\* reservation is lost to a concurrent one and none is counted twice.
NetIsSumOfReservations == net = SumLive

\* The position limit: until a reservation is given back, the reserved net
\* position stays within +-max_net_qty_ at every moment.
WithinLimits == cancelled \/ Within(net)
=============================================================================
