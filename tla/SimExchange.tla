---------------------------- MODULE SimExchange ----------------------------
(***************************************************************************)
(* SimExchange (src/backtest/sim_exchange.cpp): the exchange of the back   *)
(* test.  Orders wait in a queue; every quote tries each of them once, in  *)
(* order, fills the configured share of its quantity and puts what is left *)
(* back.  send_cancel and send_modify do nothing.                          *)
(***************************************************************************)
EXTENDS Integers, Sequences

CONSTANTS Ticks,        \* limit prices and quotes, positive
          MaxOrderQty,  \* bound: largest order
          Slippage,     \* slippage_ticks_, truncated
          FillRatios,   \* fill_ratio_: pairs numerator, denominator
          MaxOrders     \* bound: orders sent

ASSUME ExchangeAssumption ==
    /\ Ticks \subseteq Nat \ {0} /\ MaxOrderQty \in Nat \ {0}
    /\ Slippage \in Nat /\ MaxOrders \in Nat
    /\ \A r \in FillRatios : r[1] \in Nat /\ r[2] \in Nat \ {0} /\ r[1] <= r[2]

VARIABLES ratio,      \* fill_ratio_
          pending,    \* pending_orders_
          ackQ,       \* ack_queue_: order ids
          fillQ,      \* fill_queue_
          sent        \* history: the orders, by id

exchangeVars == <<ratio, pending, ackQ, fillQ, sent>>

\* IOC stands for FOK too: process_bbo has a branch for neither.
Requests == [side : {"BUY", "SELL"}, type : {"LIMIT", "MARKET", "IOC"},
             price : Ticks, qty : 1 .. MaxOrderQty]
Quotes == [bid : Ticks, ask : Ticks]

ExchangeInit ==
    /\ ratio \in FillRatios
    /\ pending = <<>> /\ ackQ = <<>> /\ fillQ = <<>>
    /\ sent = <<>>

\* send_new_order: the next id, to the end of the queue.
SendNewOrder(req) ==
    /\ Len(sent) < MaxOrders
    /\ sent' = Append(sent, req)
    /\ pending' = Append(pending, [id |-> Len(sent) + 1, req |-> req])
    /\ UNCHANGED <<ratio, ackQ, fillQ>>

IsValidBbo(q) == q.bid < q.ask

CanFill(req, q) ==
    \/ req.type = "MARKET"
    \/ /\ req.type = "LIMIT"
       /\ IF req.side = "BUY" THEN q.ask <= req.price + Slippage
                              ELSE q.bid >= req.price - Slippage

\* The conversion to Qty truncates.
FillQty(qty) == (qty * ratio[1]) \div ratio[2]

\* Mutant: an order that was filled in part is not put back.
LeftoverLost(entry) == <<>>

\* What is left of a filled order goes back to the queue.
Leftover(entry) ==
    LET rest == entry.req.qty - FillQty(entry.req.qty)
    IN IF rest > 0 THEN <<[entry EXCEPT !.req.qty = rest]>> ELSE <<>>

\* One round of the loop: wait on, be dropped (the share is below one lot), or
\* be acknowledged and filled at the far side of the quote.
Match(q, book, entry) ==
    LET req == entry.req
    IN IF ~CanFill(req, q)
       THEN [book EXCEPT !.pending = Append(@, entry)]
       ELSE IF FillQty(req.qty) <= 0 THEN book
       ELSE [pending |-> book.pending \o Leftover(entry),
             acks    |-> Append(book.acks, entry.id),
             fills   |-> Append(book.fills,
                           [id |-> entry.id, side |-> req.side,
                            qty |-> FillQty(req.qty),
                            px |-> IF req.side = "BUY" THEN q.ask ELSE q.bid])]

\* process_bbo: the entries that wait now, each once.
ProcessBbo(q) ==
    LET round[k \in 0 .. Len(pending)] ==
            IF k = 0 THEN [pending |-> <<>>, acks |-> ackQ, fills |-> fillQ]
                     ELSE Match(q, round[k - 1], pending[k])
        after == round[Len(pending)]
    IN /\ IF IsValidBbo(q)
          THEN /\ pending' = after.pending
               /\ ackQ' = after.acks
               /\ fillQ' = after.fills
          ELSE UNCHANGED <<pending, ackQ, fillQ>>
       /\ UNCHANGED <<ratio, sent>>

PopAck == ackQ # <<>> /\ ackQ' = Tail(ackQ) /\ UNCHANGED <<ratio, pending, fillQ, sent>>
PopFill == fillQ # <<>> /\ fillQ' = Tail(fillQ) /\ UNCHANGED <<ratio, pending, ackQ, sent>>
=============================================================================
