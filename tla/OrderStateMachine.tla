------------------------- MODULE OrderStateMachine -------------------------
(***************************************************************************)
(* The order life cycle of src/src/oms/order_state_machine.cpp as pure     *)
(* operators: which status may follow which, and what a fill does to an    *)
(* order.  An order is a record with status, qty, filled and exchId (0     *)
(* until the exchange acknowledged the order).                             *)
(***************************************************************************)
EXTENDS Integers

Statuses == {"PENDING_NEW", "NEW", "PARTIALLY_FILLED", "FILLED",
             "PENDING_CANCEL", "CANCELLED", "REJECTED"}

IsActive(s) == s \in {"PENDING_NEW", "NEW", "PARTIALLY_FILLED",
                      "PENDING_CANCEL"}
IsTerminal(s) == s \in {"FILLED", "CANCELLED", "REJECTED"}

\* Mutant: a filled order may still be cancelled.
NextStatusesReopen(s) ==
    CASE s = "PENDING_NEW" -> {"NEW", "REJECTED"}
      [] s \in {"NEW", "PARTIALLY_FILLED"} ->
            {"PARTIALLY_FILLED", "FILLED", "PENDING_CANCEL"}
      [] s \in {"PENDING_CANCEL", "FILLED"} -> {"CANCELLED", "FILLED"}
      [] OTHER -> {}

\* transition(): the statuses an order may move to.
NextStatuses(s) ==
    CASE s = "PENDING_NEW" -> {"NEW", "REJECTED"}
      [] s \in {"NEW", "PARTIALLY_FILLED"} ->
            {"PARTIALLY_FILLED", "FILLED", "PENDING_CANCEL"}
      [] s = "PENDING_CANCEL" -> {"CANCELLED", "FILLED"}
      [] OTHER -> {}

CanTransition(order, new) == new \in NextStatuses(order.status)

\* transition(): an illegal move leaves the order as it is.
Transition(order, new) ==
    IF CanTransition(order, new) THEN [order EXCEPT !.status = new] ELSE order

\* Mutant: no clamp on an overfill.
FilledAfterUnclamped(order, fillQty) == order.filled + fillQty
\* Mutant: the fill replaces the cumulative quantity.
FilledAfterLast(order, fillQty) == fillQty
\* Mutant: any fill counts as complete.
FilledAfterWhole(order, fillQty) == order.qty
\* apply_fill(): the cumulative quantity, clamped to the order's quantity.
FilledAfter(order, fillQty) ==
    IF order.filled + fillQty > order.qty THEN order.qty
                                          ELSE order.filled + fillQty

FillTarget(order, fillQty) ==
    IF FilledAfter(order, fillQty) >= order.qty THEN "FILLED"
                                                ELSE "PARTIALLY_FILLED"

\* apply_fill(): when it returns true
CanFill(order, fillQty) ==
    /\ fillQty > 0
    /\ IsActive(order.status)
    /\ CanTransition(order, FillTarget(order, fillQty))

\* apply_fill(): its effect; a refused fill is rolled back completely.
ApplyFill(order, fillQty) ==
    IF CanFill(order, fillQty)
    THEN [order EXCEPT !.filled = FilledAfter(order, fillQty),
                       !.status = FillTarget(order, fillQty)]
    ELSE order
=============================================================================
