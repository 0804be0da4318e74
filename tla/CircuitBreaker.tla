--------------------------- MODULE CircuitBreaker ---------------------------
(***************************************************************************)
(* CircuitBreaker (src/src/risk/circuit_breaker.cpp): the daily PnL is     *)
(* accumulated by any number of threads; a loss at or below the threshold  *)
(* opens the breaker, a recovery above half of it makes it HALF_OPEN, and  *)
(* only reset() closes it again.  update_pnl is an atomic add followed by  *)
(* a compare-exchange on the state; reset is two separate stores.          *)
(***************************************************************************)
EXTENDS Integers

CONSTANTS Threads,          \* callers of update_pnl
          OpenThreshold,    \* open_threshold_, negative
          Deltas,           \* PnL increments
          PnlBound,         \* bound: |daily_pnl_|
          MaxResets         \* bound: calls of reset

ASSUME ThresholdAssumption ==
    /\ OpenThreshold \in Int /\ OpenThreshold < 0
    /\ Deltas \subseteq Int /\ PnlBound \in Nat
    /\ MaxResets \in Nat

VARIABLES state,       \* state_
          pnl,         \* daily_pnl_
          pc,          \* per thread: idle, or between the add and the CAS
          newPnl,      \* per thread: the sum its add produced
          resetting,   \* between reset's two stores
          resets,      \* reset calls so far
          overlapped   \* history: a reset and an update ran at the same time

vars == <<state, pnl, pc, newPnl, resetting, resets, overlapped>>

\* half_open_threshold_: C++ division truncates towards zero.
HalfOpenThreshold == -((-OpenThreshold) \div 2)

Pnls == -PnlBound .. PnlBound

Init ==
    /\ state = "CLOSED"
    /\ pnl = 0
    /\ pc = [t \in Threads |-> "idle"]
    /\ newPnl = [t \in Threads |-> 0]
    /\ resetting = FALSE
    /\ resets = 0
    /\ overlapped = FALSE

\* update_pnl: the atomic add.
Accumulate(t, d) ==
    /\ pc[t] = "idle"
    /\ pnl + d \in Pnls
    /\ pnl' = pnl + d
    /\ newPnl' = [newPnl EXCEPT ![t] = pnl + d]
    /\ pc' = [pc EXCEPT ![t] = "cas"]
    /\ overlapped' = (overlapped \/ resetting)
    /\ UNCHANGED <<state, resetting, resets>>

\* Mutant: the threshold itself does not trip the breaker.
StateAfterStrict(cur, sum) ==
    IF sum < OpenThreshold
    THEN IF cur = "CLOSED" THEN "OPEN" ELSE cur
    ELSE IF sum > HalfOpenThreshold /\ cur = "OPEN" THEN "HALF_OPEN" ELSE cur

\* The two compare-exchanges: CLOSED -> OPEN on a breach, OPEN -> HALF_OPEN on
\* a recovery above the half threshold, nothing between the two.
StateAfter(cur, sum) ==
    IF sum <= OpenThreshold
    THEN IF cur = "CLOSED" THEN "OPEN" ELSE cur
    ELSE IF sum > HalfOpenThreshold /\ cur = "OPEN" THEN "HALF_OPEN" ELSE cur

\* Mutant: the compare-exchange uses a fresh load of the PnL.
TripReloads(t) ==
    /\ pc[t] = "cas"
    /\ state' = StateAfter(state, pnl)
    /\ pc' = [pc EXCEPT ![t] = "idle"]
    /\ UNCHANGED <<pnl, newPnl, resetting, resets, overlapped>>

\* update_pnl: the compare-exchange, with the sum of the own add.
Trip(t) ==
    /\ pc[t] = "cas"
    /\ state' = StateAfter(state, newPnl[t])
    /\ pc' = [pc EXCEPT ![t] = "idle"]
    /\ UNCHANGED <<pnl, newPnl, resetting, resets, overlapped>>

\* reset: store 0 ...
ResetPnl ==
    /\ ~resetting
    /\ resets < MaxResets
    /\ pnl' = 0
    /\ resetting' = TRUE
    /\ resets' = resets + 1
    /\ overlapped' = (overlapped \/ \E t \in Threads : pc[t] = "cas")
    /\ UNCHANGED <<state, pc, newPnl>>

\* ... then store CLOSED.
ResetState ==
    /\ resetting
    /\ state' = "CLOSED"
    /\ resetting' = FALSE
    /\ UNCHANGED <<pnl, pc, newPnl, resets, overlapped>>

Next ==
    \/ \E t \in Threads : Trip(t) \/ \E d \in Deltas : Accumulate(t, d)
    \/ ResetPnl
    \/ ResetState

Spec == Init /\ [][Next]_vars

\* A call that was entered returns.
FairSpec ==
    /\ Spec
    /\ \A t \in Threads : WF_vars(Trip(t))
    /\ WF_vars(ResetState)

-----------------------------------------------------------------------------
\* Every variable stays in its type.
TypeOK ==
    /\ state \in {"CLOSED", "OPEN", "HALF_OPEN"}
    /\ pnl \in Pnls
    /\ pc \in [Threads -> {"idle", "cas"}]
    /\ newPnl \in [Threads -> Pnls]
    /\ resetting \in BOOLEAN
    /\ resets \in 0 .. MaxResets
    /\ overlapped \in BOOLEAN

Quiet == ~resetting /\ \A t \in Threads : pc[t] = "idle"

\* allow_order()
AllowOrder == state = "CLOSED"

\* No order passes once the accumulated loss reached the threshold and the
\* calls that recorded it have returned, whoever else was updating, unless a
\* reset ever overlapped an update.
BreachBlocksOrders ==
    Quiet /\ pnl <= OpenThreshold => overlapped \/ ~AllowOrder

\* A breach is never missed: the update that saw it opens the breaker even if
\* another thread's profit lifts the PnL again before its compare-exchange.
BreachIsNotMissed ==
    pnl <= OpenThreshold ~> (~AllowOrder \/ overlapped)

\* Only reset() lets orders through again.
OnlyResetCloses ==
    [][~AllowOrder /\ AllowOrder' => resetting /\ ~resetting']_vars
=============================================================================
