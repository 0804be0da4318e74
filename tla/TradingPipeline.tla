-------------------------- MODULE TradingPipeline --------------------------
(***************************************************************************)
(* The threads of src/src/main.cpp and the queues between them:            *)
(*                                                                         *)
(*   MarketDataThread -> strategy -> order_queue_ -> StrategyThread        *)
(*     -> strat_to_oms_queue -> OMSThread (risk, OMS, execution, gateway)  *)
(*     -> oms_to_gw_cloid + SimGateway fills -> GatewayThread (OMS)        *)
(*     -> FillTracker -> PositionThread -> PositionManager                 *)
(*                                                                         *)
(* Every queue is a bounded FIFO whose failed push is ignored by main.cpp  *)
(* (SpscQueue proves that the queues are such FIFOs).  A thread's step is  *)
(* one call on shared state.  A call on OMS is taken to be atomic, and so  *)
(* is a push or pop of SimGateway's fill_queue_, a plain std::queue,       *)
(* although OMSThread and GatewayThread make both without a lock: what a   *)
(* torn map, pool or queue would do is not modelled.                       *)
(*                                                                         *)
(* Requests are numbered; Signed[r] is the quantity of request r, negative *)
(* for a sell.                                                             *)
(***************************************************************************)
EXTENDS OrderStateMachine, Sequences, FiniteSets, FiniteSetsExt, SequencesExt

CONSTANTS MaxReq,      \* bound: requests the strategy makes
          Signed,      \* request -> signed quantity
          QueueCap,    \* order_queue_ and strat_to_oms_queue
          CloidCap,    \* oms_to_gw_cloid
          TrackCap,    \* FillTracker's queue
          PoolSize,    \* OMS's MemoryPool
          MaxNetQty    \* PositionLimits

\* No order is empty: order_qty is positive in every configuration, and a
\* strategy that closes a position returns early when there is none.
ASSUME PipelineAssumption ==
    /\ MaxReq \in Nat /\ QueueCap \in Nat \ {0} /\ CloidCap \in Nat \ {0}
    /\ TrackCap \in Nat \ {0} /\ PoolSize \in Nat \ {0} /\ MaxNetQty \in Nat
    /\ Signed \in [1 .. MaxReq -> Int \ {0}]

VARIABLES stop,        \* g_stop
          made,        \* requests the strategy made (market data thread)
          mdPc,        \* MarketDataThread
          orderQueue,  \* StrategyBase::order_queue_
          stPc, stReq, \* StrategyThread
          relay,       \* strat_to_oms_queue
          omPc, omReq, omOrder,   \* OMSThread; omOrder = 0 is nullptr
          reserved,    \* PositionLimits::slots_[id].v
          orders,      \* OMS: id -> order
          nextId,
          cloids,      \* oms_to_gw_cloid
          simFills,    \* SimGateway::fill_queue_
          gwPc, gwCloid, gwFill,  \* GatewayThread
          tracked,     \* FillTracker::fill_queue_
          psPc,        \* PositionThread
          monPc,       \* MonitorThread
          position,    \* PositionManager's net quantity
          sent,        \* history: requests handed to the gateway
          booked,      \* history: requests whose fill reached the position
          refused,     \* history: requests whose fill OMS refused
          losses       \* history: "id" once an id was not handed over,
                       \* "fill" once FillTracker dropped a fill

mdVars == <<made, mdPc, orderQueue>>
stVars == <<stPc, stReq>>
omVars == <<omPc, omReq, omOrder>>
omsVars == <<orders, nextId>>
gwVars == <<gwPc, gwCloid, gwFill>>
psVars == <<psPc, position, booked>>
histVars == <<sent, refused, losses>>
vars == <<stop, mdVars, stVars, relay, omVars, reserved, omsVars, cloids,
          simFills, gwVars, tracked, psVars, monPc, histVars>>

Reqs == 1 .. MaxReq
Abs(x) == IF x < 0 THEN -x ELSE x
Qty(r) == Abs(Signed[r])
InMap == DOMAIN orders

\* An ignored failed push: the value is gone.
PushTo(q, cap, x) == IF Len(q) < cap THEN Append(q, x) ELSE q

Init ==
    /\ stop = FALSE
    /\ made = 0 /\ mdPc = "run" /\ orderQueue = << >>
    /\ stPc = "pop" /\ stReq = 0
    /\ relay = << >>
    /\ omPc = "pop" /\ omReq = 0 /\ omOrder = 0
    /\ reserved = 0
    /\ orders = [id \in {} |-> 0] /\ nextId = 1
    /\ cloids = << >> /\ simFills = << >>
    /\ gwPc = "pop" /\ gwCloid = 0 /\ gwFill = 0
    /\ tracked = << >>
    /\ psPc = "run" /\ position = 0 /\ monPc = "run"
    /\ sent = {} /\ booked = {} /\ refused = {} /\ losses = {}

-----------------------------------------------------------------------------
\* SIGINT or SIGTERM.
Signal ==
    /\ ~stop
    /\ stop' = TRUE
    /\ UNCHANGED <<mdVars, stVars, relay, omVars, reserved, omsVars, cloids,
                   simFills, gwVars, tracked, psVars, monPc, histVars>>

\* MarketDataThread: a market data event makes the strategy send an order.
Quote ==
    /\ mdPc = "run" /\ made < MaxReq
    /\ made' = made + 1
    /\ orderQueue' = PushTo(orderQueue, QueueCap, made + 1)
    /\ UNCHANGED <<stop, mdPc, stVars, relay, omVars, reserved, omsVars, cloids,
                   simFills, gwVars, tracked, psVars, monPc, histVars>>

\* MarketDataThread: the replay is over or the feed cannot be opened; the
\* thread tells the others to stop.
MarketDataEnds ==
    /\ mdPc = "run"
    /\ stop' = TRUE
    /\ mdPc' = "done"
    /\ UNCHANGED <<made, orderQueue, stVars, relay, omVars, reserved,
                   omsVars, cloids, simFills, gwVars, tracked, psVars, monPc, histVars>>

\* MarketDataThread sees the signal and returns.  Whether it does is a question of
\* MarketData: a run() that comes after stop() does not.
MarketDataExits ==
    /\ mdPc = "run" /\ stop
    /\ mdPc' = "done"
    /\ UNCHANGED <<stop, made, orderQueue, stVars, relay, omVars, reserved,
                   omsVars, cloids, simFills, gwVars, tracked, psVars, monPc, histVars>>

-----------------------------------------------------------------------------
\* StrategyThread: pop_order, then push to strat_to_oms_queue.
StrategyPops ==
    /\ stPc = "pop" /\ ~stop /\ orderQueue # << >>
    /\ stReq' = Head(orderQueue)
    /\ orderQueue' = Tail(orderQueue)
    /\ stPc' = "push"
    /\ UNCHANGED <<stop, made, mdPc, relay, omVars, reserved, omsVars, cloids,
                   simFills, gwVars, tracked, psVars, monPc, histVars>>

StrategyRelays ==
    /\ stPc = "push"
    /\ relay' = PushTo(relay, QueueCap, stReq)
    /\ stPc' = "pop"
    /\ UNCHANGED <<stop, mdVars, stReq, omVars, reserved, omsVars, cloids,
                   simFills, gwVars, tracked, psVars, monPc, histVars>>

StrategyExits ==
    /\ stPc = "pop" /\ stop
    /\ stPc' = "done"
    /\ UNCHANGED <<stop, mdVars, stReq, relay, omVars, reserved, omsVars, cloids,
                   simFills, gwVars, tracked, psVars, monPc, histVars>>

-----------------------------------------------------------------------------
(* OMSThread: pop, risk.check, oms.submit, exec_engine.submit, oms.on_ack, *)
(* oms_to_gw_cloid.push.                                                   *)

OmsPops ==
    /\ omPc = "pop" /\ ~stop /\ relay # << >>
    /\ omReq' = Head(relay)
    /\ relay' = Tail(relay)
    /\ omPc' = "risk"
    /\ UNCHANGED <<stop, mdVars, stVars, omOrder, reserved, omsVars, cloids,
                   simFills, gwVars, tracked, psVars, monPc, histVars>>

\* Mutant: the limit is tested on the single order, not on the sum.
WithinLimitSingle(net, d) == Abs(d) <= MaxNetQty
WithinLimit(net, d) == Abs(net + d) <= MaxNetQty

\* PreTradeRisk::check: nothing updates the circuit breaker's PnL, so it stays
\* closed; the rate limiter may refuse; the position limit reserves.
RiskPasses ==
    /\ omPc = "risk"
    /\ WithinLimit(reserved, Signed[omReq])
    /\ reserved' = reserved + Signed[omReq]
    /\ omPc' = "submit"
    /\ UNCHANGED <<stop, mdVars, stVars, relay, omReq, omOrder, omsVars, cloids,
                   simFills, gwVars, tracked, psVars, monPc, histVars>>

RiskRefuses ==
    /\ omPc = "risk"
    /\ omPc' = "pop"
    /\ UNCHANGED <<stop, mdVars, stVars, relay, omReq, omOrder, reserved,
                   omsVars, cloids, simFills, gwVars, tracked, psVars, monPc, histVars>>

NewOrder(r) == [req |-> r, status |-> "PENDING_NEW", qty |-> Qty(r),
                filled |-> 0, exchId |-> 0]

\* Mutant: the id is handed over before the order is routed.
OmsSubmitsEarly ==
    /\ omPc = "submit"
    /\ Cardinality(InMap) < PoolSize
    /\ orders' = [id \in InMap \cup {nextId} |->
                    IF id = nextId THEN NewOrder(omReq) ELSE orders[id]]
    /\ omOrder' = nextId
    /\ nextId' = nextId + 1
    /\ cloids' = PushTo(cloids, CloidCap, nextId)
    /\ omPc' = "route"
    /\ UNCHANGED <<stop, mdVars, stVars, relay, omReq, reserved,
                   simFills, gwVars, tracked, psVars, monPc, histVars>>

\* oms.submit; nullptr when the pool is exhausted.
OmsSubmits ==
    /\ omPc = "submit"
    /\ IF Cardinality(InMap) < PoolSize
       THEN /\ orders' = [id \in InMap \cup {nextId} |->
                            IF id = nextId THEN NewOrder(omReq) ELSE orders[id]]
            /\ omOrder' = nextId
            /\ nextId' = nextId + 1
       ELSE /\ omOrder' = 0
            /\ UNCHANGED omsVars
    /\ omPc' = "route"
    /\ UNCHANGED <<stop, mdVars, stVars, relay, omReq, reserved, cloids,
                   simFills, gwVars, tracked, psVars, monPc, histVars>>

\* Mutant: the acknowledgement is not simulated.
OmsRoutesUnacked ==
    /\ omPc = "route"
    /\ simFills' = Append(simFills, omReq)
    /\ sent' = sent \cup {omReq}
    /\ losses' = IF omOrder = 0 THEN losses \cup {"id"} ELSE losses
    /\ omPc' = IF omOrder = 0 THEN "pop" ELSE "cloid"
    /\ UNCHANGED <<stop, mdVars, stVars, relay, omReq, omOrder, reserved,
                   omsVars, cloids, gwVars, tracked, psVars, monPc, refused>>

\* exec_engine.submit -> SmartRouter::send -> SimGateway::send_new_order: the
\* fill is queued at once, with or without an order in OMS.  The push does not
\* exclude the pop of GatewayTakesFill; it is taken to be atomic.
OmsRoutes ==
    /\ omPc = "route"
    /\ simFills' = Append(simFills, omReq)
    /\ sent' = sent \cup {omReq}
    /\ losses' = IF omOrder = 0 THEN losses \cup {"id"} ELSE losses
    /\ omPc' = IF omOrder = 0 THEN "pop" ELSE "ack"
    /\ UNCHANGED <<stop, mdVars, stVars, relay, omReq, omOrder, reserved,
                   omsVars, cloids, gwVars, tracked, psVars, monPc, refused>>

\* oms.on_ack with the simulated acknowledgement.
OmsAcks ==
    /\ omPc = "ack"
    /\ orders' = IF omOrder \in InMap
                 THEN [orders EXCEPT ![omOrder] =
                         Transition([@ EXCEPT !.exchId = 1], "NEW")]
                 ELSE orders
    /\ omPc' = "cloid"
    /\ UNCHANGED <<stop, mdVars, stVars, relay, omReq, omOrder, reserved, nextId,
                   cloids, simFills, gwVars, tracked, psVars, monPc, histVars>>

OmsHandsOver ==
    /\ omPc = "cloid"
    /\ cloids' = PushTo(cloids, CloidCap, omOrder)
    /\ losses' = IF Len(cloids) < CloidCap THEN losses ELSE losses \cup {"id"}
    /\ omPc' = "pop"
    /\ UNCHANGED <<stop, mdVars, stVars, relay, omReq, omOrder, reserved,
                   omsVars, simFills, gwVars, tracked, psVars, monPc, sent, refused>>

\* Mutant: the thread waits for its last order before it exits.
OmsExitsDrained ==
    /\ omPc = "pop" /\ stop /\ InMap = {}
    /\ omPc' = "done"
    /\ UNCHANGED <<stop, mdVars, stVars, relay, omReq, omOrder, reserved,
                   omsVars, cloids, simFills, gwVars, tracked, psVars, monPc, histVars>>

OmsExits ==
    /\ omPc = "pop" /\ stop
    /\ omPc' = "done"
    /\ UNCHANGED <<stop, mdVars, stVars, relay, omReq, omOrder, reserved,
                   omsVars, cloids, simFills, gwVars, tracked, psVars, monPc, histVars>>

-----------------------------------------------------------------------------
(* GatewayThread: pop an id, pop a fill, write the id into the fill, give  *)
(* it to OMS and release the order (a simulated fill is always complete).  *)

GatewayPops ==
    /\ gwPc = "pop" /\ ~stop /\ cloids # << >>
    /\ gwCloid' = Head(cloids)
    /\ cloids' = Tail(cloids)
    /\ gwPc' = "fill"
    /\ UNCHANGED <<stop, mdVars, stVars, relay, omVars, reserved, omsVars,
                   simFills, gwFill, tracked, psVars, monPc, histVars>>

\* Mutant: the newest fill is taken.
GatewayTakesNewest ==
    /\ gwPc = "fill"
    /\ IF simFills # << >>
       THEN /\ gwFill' = Last(simFills)
            /\ simFills' = Front(simFills)
            /\ gwPc' = "apply"
       ELSE /\ gwPc' = "pop"
            /\ UNCHANGED <<gwFill, simFills>>
    /\ UNCHANGED <<stop, mdVars, stVars, relay, omVars, reserved, omsVars,
                   cloids, gwCloid, tracked, psVars, monPc, histVars>>

\* sim_gw.pop_fill: the pop does not exclude the push of OmsRoutes; it is taken to
\* be atomic.
GatewayTakesFill ==
    /\ gwPc = "fill"
    /\ IF simFills # << >>
       THEN /\ gwFill' = Head(simFills)
            /\ simFills' = Tail(simFills)
            /\ gwPc' = "apply"
       ELSE /\ gwPc' = "pop"
            /\ UNCHANGED <<gwFill, simFills>>
    /\ UNCHANGED <<stop, mdVars, stVars, relay, omVars, reserved, omsVars,
                   cloids, gwCloid, tracked, psVars, monPc, histVars>>

\* Mutant: a fill is forwarded only if it leaves the order active.
GatewayAppliesActive ==
    /\ gwPc = "apply"
    /\ IF gwCloid \in InMap /\ CanFill(orders[gwCloid], Qty(gwFill))
       THEN /\ orders' = [orders EXCEPT ![gwCloid] = ApplyFill(@, Qty(gwFill))]
            /\ tracked' = IF IsActive(orders'[gwCloid].status)
                          THEN PushTo(tracked, TrackCap, gwFill) ELSE tracked
            /\ UNCHANGED <<refused, losses>>
       ELSE /\ refused' = refused \cup {gwFill}
            /\ UNCHANGED <<orders, tracked, losses>>
    /\ gwPc' = "release"
    /\ UNCHANGED <<stop, mdVars, stVars, relay, omVars, reserved, nextId, cloids,
                   simFills, gwCloid, gwFill, psVars, monPc, sent>>

\* oms.on_fill, which forwards an accepted fill to FillTracker.
GatewayApplies ==
    /\ gwPc = "apply"
    /\ IF gwCloid \in InMap /\ CanFill(orders[gwCloid], Qty(gwFill))
       THEN /\ orders' = [orders EXCEPT ![gwCloid] = ApplyFill(@, Qty(gwFill))]
            /\ tracked' = PushTo(tracked, TrackCap, gwFill)
            /\ losses' = IF Len(tracked) < TrackCap THEN losses
                                                    ELSE losses \cup {"fill"}
            /\ UNCHANGED refused
       ELSE /\ refused' = refused \cup {gwFill}
            /\ UNCHANGED <<orders, tracked, losses>>
    /\ gwPc' = "release"
    /\ UNCHANGED <<stop, mdVars, stVars, relay, omVars, reserved, nextId, cloids,
                   simFills, gwCloid, gwFill, psVars, monPc, sent>>

GatewayReleases ==
    /\ gwPc = "release"
    /\ orders' = [id \in InMap \ {gwCloid} |-> orders[id]]
    /\ gwPc' = "pop"
    /\ UNCHANGED <<stop, mdVars, stVars, relay, omVars, reserved, nextId, cloids,
                   simFills, gwCloid, gwFill, tracked, psVars, monPc, histVars>>

GatewayExits ==
    /\ gwPc = "pop" /\ stop
    /\ gwPc' = "done"
    /\ UNCHANGED <<stop, mdVars, stVars, relay, omVars, reserved, omsVars, cloids,
                   simFills, gwCloid, gwFill, tracked, psVars, monPc, histVars>>

-----------------------------------------------------------------------------
\* PositionThread: pop_fill, pos_mgr.on_fill (pl.on_fill does nothing).
PositionBooks ==
    /\ psPc = "run" /\ ~stop /\ tracked # << >>
    /\ position' = position + Signed[Head(tracked)]
    /\ booked' = booked \cup {Head(tracked)}
    /\ tracked' = Tail(tracked)
    /\ UNCHANGED <<stop, mdVars, stVars, relay, omVars, reserved, omsVars, cloids,
                   simFills, gwVars, psPc, monPc, histVars>>

PositionExits ==
    /\ psPc = "run" /\ stop
    /\ psPc' = "done"
    /\ UNCHANGED <<stop, mdVars, stVars, relay, omVars, reserved, omsVars, cloids,
                   simFills, gwVars, tracked, position, booked, monPc, histVars>>

-----------------------------------------------------------------------------
pipelineVars == <<stop, mdVars, stVars, relay, omVars, reserved, omsVars, cloids,
                  simFills, gwVars, tracked, psVars, histVars>>

\* MonitorThread: a round of sleeping, reading the others' counters and printing
\* them changes nothing; the loop ends at the first test of g_stop that sees it.
MonitorThread ==
    /\ monPc = "run" /\ stop
    /\ monPc' = "done"
    /\ UNCHANGED pipelineVars

-----------------------------------------------------------------------------
MarketDataThread == Quote \/ MarketDataEnds \/ MarketDataExits
StrategyThread == StrategyPops \/ StrategyRelays \/ StrategyExits
OMSThread == OmsPops \/ RiskPasses \/ RiskRefuses \/ OmsSubmits \/ OmsRoutes
             \/ OmsAcks \/ OmsHandsOver \/ OmsExits
GatewayThread == GatewayPops \/ GatewayTakesFill \/ GatewayApplies
                 \/ GatewayReleases \/ GatewayExits
PositionThread == PositionBooks \/ PositionExits

Next == Signal \/ MarketDataThread \/ StrategyThread \/ OMSThread
        \/ GatewayThread \/ PositionThread \/ MonitorThread

Spec == Init /\ [][Next]_vars

\* Every worker thread is pinned to a core of its own and never blocks.  The
\* market data thread owes nothing: no market need trade, and its receive loop
\* may go on after the signal.
FairSpec ==
    /\ Spec
    /\ WF_vars(StrategyThread) /\ WF_vars(OMSThread) /\ WF_vars(GatewayThread)
    /\ WF_vars(PositionThread) /\ WF_vars(MonitorThread)

-----------------------------------------------------------------------------
(***************************************************************************)
(* The ids and the fills travel in two queues that GatewayThread pairs by  *)
(* position: until an id is lost to an exhausted pool or a full queue, a   *)
(* fill is applied to the order it executes.                               *)
(***************************************************************************)
FillGoesToItsOrder ==
    ("id" \notin losses /\ gwPc = "apply" /\ gwCloid \in InMap)
        => orders[gwCloid].req = gwFill

\* OMSThread keeps using its Order* after exec_engine.submit produced the fill:
\* the order is not released by GatewayThread before the last use.
OrderAliveWhileInUse == omPc \in {"ack", "cloid"} => omOrder \in InMap

\* No fill of the gateway is refused by the state machine: the
\* acknowledgement always precedes it, and no order is filled twice, not even
\* when fills and ids are paired wrongly.
NoFillRefused == refused = {}

\* Until FillTracker drops a fill, the limit PositionLimits enforces on
\* reservations holds for the position that PositionThread books as well,
\* because fills arrive in the order of the reservations.
PositionWithinLimits == "fill" \in losses \/ Abs(position) <= MaxNetQty

\* A fill is applied to the order it executes, is accepted, and leaves the
\* booked position within the limit.
FillsAreBookedRight == FillGoesToItsOrder /\ NoFillRefused /\ PositionWithinLimits

\* Every order handed to the gateway ends up in the position, unless the
\* process stops or a full queue or pool lost an id or a fill.
EverySentOrderIsBooked ==
    \A r \in Reqs : r \in sent ~> (r \in booked \/ stop \/ losses # {})

WorkersDone == stPc = "done" /\ omPc = "done" /\ gwPc = "done"
               /\ psPc = "done" /\ monPc = "done"

\* After SIGINT or SIGTERM the five worker threads leave their loops, whatever is
\* still queued and even if the market data thread goes on making orders.
WorkersExit == stop ~> WorkersDone
=============================================================================
