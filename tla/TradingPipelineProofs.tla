----------------------- MODULE TradingPipelineProofs -----------------------
(***************************************************************************)
(* Theorems about the threads of src/src/main.cpp: OMSThread's order is    *)
(* not released under it, a fill of the gateway is applied to the order it *)
(* executes and is accepted, and the booked position stays within the      *)
(* limit that was enforced on reservations, for any requests, any queue    *)
(* and pool sizes, and wherever each thread is when g_stop is set.         *)
(***************************************************************************)
EXTENDS TradingPipeline, TLAPS

-----------------------------------------------------------------------------
(* The inductive invariant                                                 *)

OmHolds == omPc \in {"route", "ack", "cloid"} /\ omOrder # 0
GwHolds == gwPc \in {"fill", "apply", "release"}

Orders == [req : Reqs, status : Statuses, qty : Int, filled : Int,
           exchId : {0, 1}]

\* Whatever travels between the threads is a request that was made.
InFlight ==
    /\ made \in 0 .. MaxReq
    /\ orderQueue \in Seq(Reqs) /\ relay \in Seq(Reqs)
    /\ simFills \in Seq(Reqs) /\ tracked \in Seq(Reqs)
    /\ cloids \in Seq(Nat)
    /\ omOrder \in Nat /\ gwCloid \in Nat /\ nextId \in Nat \ {0}
    /\ stPc = "push" => stReq \in Reqs
    /\ omPc \in {"risk", "submit", "route", "ack", "cloid"} => omReq \in Reqs
    /\ gwPc \in {"apply", "release"} => gwFill \in Reqs
    /\ reserved \in Int /\ position \in Int

(***************************************************************************)
(* An id passes from OMSThread through oms_to_gw_cloid to GatewayThread,   *)
(* in the order in which OMS assigned the ids: each is in exactly one of   *)
(* the three places, and its order stays in OMS, acknowledged and          *)
(* unfilled, until GatewayThread has applied the fill.                     *)
(***************************************************************************)
IdsInv ==
    /\ \A id \in InMap : id \in Nat /\ 0 < id /\ id < nextId
                         /\ orders[id] \in Orders
    /\ \A i \in 1 .. Len(cloids) :
          cloids[i] \in InMap /\ orders[cloids[i]].status = "NEW"
    /\ \A i, j \in 1 .. Len(cloids) : i < j => cloids[i] < cloids[j]
    /\ omPc \in {"ack", "cloid"} => omOrder # 0
    /\ OmHolds =>
          /\ omOrder \in InMap
          /\ orders[omOrder].status
                = IF omPc = "cloid" THEN "NEW" ELSE "PENDING_NEW"
          /\ \A i \in 1 .. Len(cloids) : cloids[i] < omOrder
          /\ GwHolds => gwCloid < omOrder
    /\ GwHolds =>
          /\ gwCloid \in InMap
          /\ \A i \in 1 .. Len(cloids) : gwCloid < cloids[i]
    /\ gwPc \in {"fill", "apply"} => orders[gwCloid].status = "NEW"
    /\ NoFillRefused

\* Positions by which the fills in SimGateway are ahead of the ids in
\* oms_to_gw_cloid: the fill GatewayThread is about to take, and the one whose
\* id OMSThread is about to hand over.
Ahead == IF gwPc = "fill" THEN 1 ELSE 0
Behind == IF omPc \in {"ack", "cloid"} THEN 1 ELSE 0

(***************************************************************************)
(* While no id is lost, the two queues hold the same orders: the i-th id   *)
(* is the id of the i-th fill's order, counting what the threads hold.     *)
(***************************************************************************)
PairsInv ==
    /\ "id" \notin losses =>
          /\ Len(simFills) = Ahead + Len(cloids) + Behind
          /\ gwPc = "fill" => orders[gwCloid].req = simFills[1]
          /\ \A i \in 1 .. Len(cloids) :
                orders[cloids[i]].req = simFills[Ahead + i]
          /\ omPc \in {"ack", "cloid"} =>
                orders[omOrder].req = simFills[Len(simFills)]
          /\ gwPc = "apply" => orders[gwCloid].req = gwFill
    /\ OmHolds => orders[omOrder].req = omReq

Limits == -MaxNetQty .. MaxNetQty

\* Booking the requests of q one by one takes the net quantity from one value
\* to another and never leaves the limits; level[i] is the value after i of them.
Books(q, from, to) ==
    \E level \in [0 .. Len(q) -> Limits] :
        /\ level[0] = from /\ level[Len(q)] = to
        /\ \A i \in 1 .. Len(q) : level[i] = level[i - 1] + Signed[q[i]]

\* The net quantity once the fills in FillTracker are booked, once the one
\* GatewayThread holds is, and once those in SimGateway are.
LevelsAre(applied, taken, routed) ==
    /\ Books(tracked, position, applied)
    /\ taken = IF gwPc = "apply" THEN applied + Signed[gwFill] ELSE applied
    /\ Books(simFills, taken, routed)
    /\ reserved = IF omPc \in {"submit", "route"}
                  THEN routed + Signed[omReq] ELSE routed

(***************************************************************************)
(* While no fill is lost, every request that was reserved and is not yet   *)
(* booked is in FillTracker, at GatewayThread, in SimGateway or at         *)
(* OMSThread, in the order of the reservations; booking them in that order *)
(* leads from the booked position through the limits to what is reserved.  *)
(***************************************************************************)
LevelsInv ==
    /\ reserved \in Limits
    /\ "fill" \notin losses =>
          \E applied, taken, routed \in Limits : LevelsAre(applied, taken, routed)

PipelineInv == InFlight /\ IdsInv /\ PairsInv /\ LevelsInv

-----------------------------------------------------------------------------
(* The operators of the invariant                                          *)

\* A push, ignored or not, keeps the type of a queue (main.cpp's queues).
LEMMA PushTyped ==
  ASSUME NEW S, NEW q \in Seq(S), NEW cap, NEW x \in S
  PROVE  PushTo(q, cap, x) \in Seq(S)
BY DEF PushTo

\* Nothing to book: the position is what is reserved.
LEMMA BooksNothing ==
  ASSUME NEW from \in Limits
  PROVE  Books(<< >>, from, from)
<1>. DEFINE level == [i \in 0 .. 0 |-> from]
<1>1. level \in [0 .. Len(<< >>) -> Limits] /\ level[0] = from
  OBVIOUS
<1>2. 1 .. Len(<< >>) = {} /\ Len(<< >>) = 0
  OBVIOUS
<1> QED BY <1>1, <1>2 DEF Books

\* Both ends of a booking are within the limits PositionLimits enforces.
LEMMA BooksWithin ==
  ASSUME NEW q \in Seq(Reqs), NEW from, NEW to, Books(q, from, to)
  PROVE  from \in Limits /\ to \in Limits
<1>1. PICK level \in [0 .. Len(q) -> Limits] :
          level[0] = from /\ level[Len(q)] = to
  BY DEF Books
<1>2. Len(q) \in Nat
  OBVIOUS
<1>3. 0 \in 0 .. Len(q) /\ Len(q) \in 0 .. Len(q)
  BY <1>2
<1> QED BY <1>1, <1>3

\* A request that arrives is booked last (SimGateway's and FillTracker's push).
LEMMA BooksAppend ==
  ASSUME NEW q \in Seq(Reqs), NEW from, NEW to, NEW r \in Reqs,
         Books(q, from, to), to + Signed[r] \in Limits
  PROVE  Books(Append(q, r), from, to + Signed[r])
<1>1. PICK level \in [0 .. Len(q) -> Limits] :
          /\ level[0] = from /\ level[Len(q)] = to
          /\ \A i \in 1 .. Len(q) : level[i] = level[i - 1] + Signed[q[i]]
  BY DEF Books
<1>2. Len(q) \in Nat /\ Len(Append(q, r)) = Len(q) + 1
  OBVIOUS
<1>. DEFINE n == Len(q)
            more == [i \in 0 .. (n + 1) |->
                        IF i = n + 1 THEN to + Signed[r] ELSE level[i]]
<1>3. more \in [0 .. Len(Append(q, r)) -> Limits]
  <2>1. SUFFICES ASSUME NEW i \in 0 .. (n + 1) PROVE more[i] \in Limits
    BY <1>2
  <2>2. i # n + 1 => i \in 0 .. n
    BY <1>2
  <2> QED BY <2>2, <1>1
<1>4. more[0] = from /\ more[n + 1] = to + Signed[r] /\ more[n] = to
  BY <1>1, <1>2
<1>5. ASSUME NEW i \in 1 .. (n + 1)
      PROVE  more[i] = more[i - 1] + Signed[Append(q, r)[i]]
  <2>1. CASE i = n + 1
    <3>1. Append(q, r)[i] = r /\ i - 1 = n
      BY <2>1, <1>2
    <3> QED BY <3>1, <2>1, <1>4
  <2>2. CASE i # n + 1
    <3>1. i \in 1 .. n /\ i \in 0 .. n /\ i - 1 \in 0 .. n /\ i - 1 # n + 1
      BY <2>2, <1>2
    <3>2. Append(q, r)[i] = q[i]
      BY <3>1
    <3>3. more[i] = level[i] /\ more[i - 1] = level[i - 1]
      BY <3>1, <2>2, <1>2
    <3> QED BY <3>1, <3>2, <3>3, <1>1
  <2> QED BY <2>1, <2>2
<1> HIDE DEF more
<1> QED BY <1>2, <1>3, <1>4, <1>5 DEF Books

\* The first request is booked first (the pops of the same two queues).
LEMMA BooksTail ==
  ASSUME NEW q \in Seq(Reqs), NEW from, NEW to, q # << >>,
         Books(q, from, to)
  PROVE  /\ from + Signed[Head(q)] \in Limits
         /\ Books(Tail(q), from + Signed[Head(q)], to)
<1>1. PICK level \in [0 .. Len(q) -> Limits] :
          /\ level[0] = from /\ level[Len(q)] = to
          /\ \A i \in 1 .. Len(q) : level[i] = level[i - 1] + Signed[q[i]]
  BY DEF Books
<1>2. Len(q) \in Nat /\ Len(q) > 0 /\ Len(Tail(q)) = Len(q) - 1 /\ Head(q) = q[1]
  OBVIOUS
<1>. DEFINE n == Len(q)
            rest == [i \in 0 .. (n - 1) |-> level[i + 1]]
<1>3. 1 \in 1 .. n /\ 1 \in 0 .. n
  BY <1>2
<1>4. level[1] = from + Signed[Head(q)]
  BY <1>1, <1>2, <1>3
<1>5. rest \in [0 .. Len(Tail(q)) -> Limits]
  <2>1. \A i \in 0 .. (n - 1) : i + 1 \in 0 .. n
    BY <1>2
  <2> QED BY <2>1, <1>1, <1>2
<1>6. rest[0] = from + Signed[Head(q)] /\ rest[n - 1] = to
  BY <1>1, <1>2, <1>4
<1>7. ASSUME NEW i \in 1 .. (n - 1)
      PROVE  rest[i] = rest[i - 1] + Signed[Tail(q)[i]]
  <2>1. i + 1 \in 1 .. n /\ (i + 1) - 1 = i /\ (i - 1) + 1 = i
        /\ i \in 0 .. (n - 1) /\ i - 1 \in 0 .. (n - 1)
    BY <1>2
  <2>2. Tail(q)[i] = q[i + 1]
    BY <1>2
  <2>3. rest[i] = level[i + 1] /\ rest[i - 1] = level[i]
    BY <2>1
  <2>4. level[i + 1] = level[(i + 1) - 1] + Signed[q[i + 1]]
    BY <2>1, <1>1
  <2> QED BY <2>1, <2>2, <2>3, <2>4
<1>8. level[1] \in Limits
  BY <1>1, <1>3
<1> HIDE DEF rest
<1> QED BY <1>2, <1>4, <1>5, <1>6, <1>7, <1>8 DEF Books

-----------------------------------------------------------------------------
(* The steps keep the invariant                                            *)

\* Every thread's step passes on what it popped, whether or not its push fits.
LEMMA InFlightStep == InFlight /\ [Next]_vars => InFlight'
<1>. SUFFICES ASSUME InFlight, [Next]_vars PROVE InFlight'
  OBVIOUS
<1>. USE PipelineAssumption
     DEF InFlight, mdVars, stVars, omVars, omsVars, gwVars, psVars, histVars
<1>1. CASE Signal
  BY <1>1 DEF Signal
<1>2. CASE MarketDataThread
  <2>1. CASE Quote
    <3>1. made + 1 \in Reqs
      BY <2>1 DEF Quote, Reqs
    <3>2. orderQueue' \in Seq(Reqs)
      BY <2>1, <3>1, PushTyped DEF Quote
    <3>3. made' \in 0 .. MaxReq
      BY <2>1 DEF Quote
    <3> QED BY <2>1, <3>2, <3>3 DEF Quote
  <2>2. CASE MarketDataEnds
    BY <2>2 DEF MarketDataEnds
  <2>3. CASE MarketDataExits
    BY <2>3 DEF MarketDataExits
  <2> QED BY <1>2, <2>1, <2>2, <2>3 DEF MarketDataThread
<1>3. CASE StrategyThread
  <2>1. CASE StrategyPops
    BY <2>1 DEF StrategyPops
  <2>2. CASE StrategyRelays
    <3>1. relay' \in Seq(Reqs)
      BY <2>2, PushTyped DEF StrategyRelays
    <3> QED BY <2>2, <3>1 DEF StrategyRelays
  <2>3. CASE StrategyExits
    BY <2>3 DEF StrategyExits
  <2> QED BY <1>3, <2>1, <2>2, <2>3 DEF StrategyThread
<1>4. CASE OMSThread
  <2>1. CASE OmsPops
    BY <2>1 DEF OmsPops
  <2>2. CASE RiskPasses
    <3>1. Signed[omReq] \in Int
      BY <2>2 DEF RiskPasses, Reqs
    <3>2. reserved' \in Int
      BY <2>2, <3>1 DEF RiskPasses
    <3> QED BY <2>2, <3>2 DEF RiskPasses
  <2>3. CASE RiskRefuses
    BY <2>3 DEF RiskRefuses
  <2>4. CASE OmsSubmits
    <3>1. (omOrder' = nextId /\ nextId' = nextId + 1)
            \/ (omOrder' = 0 /\ nextId' = nextId)
      BY <2>4 DEF OmsSubmits
    <3>2. omOrder' \in Nat /\ nextId' \in Nat \ {0}
      BY <3>1
    <3>3. UNCHANGED <<stop, mdVars, stVars, relay, omReq, reserved, cloids,
                      simFills, gwVars, tracked, psVars, monPc, histVars>>
          /\ omPc = "submit"
      BY <2>4 DEF OmsSubmits
    <3> QED BY <3>2, <3>3
  <2>5. CASE OmsRoutes
    <3>1. omReq \in Reqs /\ simFills' = Append(simFills, omReq)
      BY <2>5 DEF OmsRoutes
    <3>2. simFills' \in Seq(Reqs)
      BY <3>1
    <3> QED BY <2>5, <3>2 DEF OmsRoutes
  <2>6. CASE OmsAcks
    BY <2>6 DEF OmsAcks
  <2>7. CASE OmsHandsOver
    <3>1. cloids' \in Seq(Nat)
      BY <2>7, PushTyped DEF OmsHandsOver
    <3> QED BY <2>7, <3>1 DEF OmsHandsOver
  <2>8. CASE OmsExits
    BY <2>8 DEF OmsExits
  <2> QED BY <1>4, <2>1, <2>2, <2>3, <2>4, <2>5, <2>6, <2>7, <2>8 DEF OMSThread
<1>5. CASE GatewayThread
  <2>1. CASE GatewayPops
    BY <2>1 DEF GatewayPops
  <2>2. CASE GatewayTakesFill
    <3>1. simFills # << >> => /\ Head(simFills) \in Reqs
                              /\ Tail(simFills) \in Seq(Reqs)
      OBVIOUS
    <3> QED BY <2>2, <3>1 DEF GatewayTakesFill
  <2>3. CASE GatewayApplies
    <3>1. tracked' \in Seq(Reqs)
      BY <2>3, PushTyped DEF GatewayApplies
    <3> QED BY <2>3, <3>1 DEF GatewayApplies
  <2>4. CASE GatewayReleases
    BY <2>4 DEF GatewayReleases
  <2>5. CASE GatewayExits
    BY <2>5 DEF GatewayExits
  <2> QED BY <1>5, <2>1, <2>2, <2>3, <2>4, <2>5 DEF GatewayThread
<1>6. CASE PositionThread
  <2>1. CASE PositionBooks
    <3>1. Head(tracked) \in Reqs /\ Tail(tracked) \in Seq(Reqs)
      BY <2>1 DEF PositionBooks
    <3>2. Signed[Head(tracked)] \in Int
      BY <3>1 DEF Reqs
    <3>3. position' \in Int
      BY <2>1, <3>2 DEF PositionBooks
    <3> QED BY <2>1, <3>1, <3>3 DEF PositionBooks
  <2>2. CASE PositionExits
    BY <2>2 DEF PositionExits
  <2> QED BY <1>6, <2>1, <2>2 DEF PositionThread
<1>7. CASE MonitorThread
  BY <1>7 DEF MonitorThread, pipelineVars
<1>8. CASE UNCHANGED vars
  BY <1>8 DEF vars
<1> QED BY <1>1, <1>2, <1>3, <1>4, <1>5, <1>6, <1>7, <1>8 DEF Next

\* oms.on_ack of a new order makes it NEW and keeps what it is an order for.
LEMMA AckedOrder ==
  ASSUME NEW order \in Orders, order.status = "PENDING_NEW"
  PROVE  LET acked == Transition([order EXCEPT !.exchId = 1], "NEW")
         IN  acked \in Orders /\ acked.status = "NEW" /\ acked.req = order.req
<1>. DEFINE known == [order EXCEPT !.exchId = 1]
<1>1. known \in Orders /\ known.status = "PENDING_NEW" /\ known.req = order.req
  BY DEF Orders
<1>2. CanTransition(known, "NEW")
  BY <1>1 DEF CanTransition, NextStatuses
<1>3. Transition(known, "NEW") = [known EXCEPT !.status = "NEW"]
  BY <1>2 DEF Transition
<1> HIDE DEF known
<1>4. [known EXCEPT !.status = "NEW"] \in Orders
  BY <1>1 DEF Orders, Statuses
<1>5. /\ [known EXCEPT !.status = "NEW"].status = "NEW"
      /\ [known EXCEPT !.status = "NEW"].req = known.req
  BY <1>1 DEF Orders
<1> QED BY <1>1, <1>3, <1>4, <1>5 DEF known

\* The quantity of a request is positive, since no order is empty.
LEMMA PositiveQty ==
  ASSUME NEW r \in Reqs
  PROVE  Qty(r) \in Int /\ Qty(r) > 0
<1>1. Signed[r] \in Int /\ Signed[r] # 0
  BY PipelineAssumption DEF Reqs
<1> QED BY <1>1 DEF Qty, Abs

\* apply_fill accepts a fill of an acknowledged order that has none yet.
LEMMA FilledOrder ==
  ASSUME NEW order \in Orders, order.status = "NEW", NEW r \in Reqs
  PROVE  /\ CanFill(order, Qty(r))
         /\ ApplyFill(order, Qty(r)) \in Orders
         /\ ApplyFill(order, Qty(r)).req = order.req
<1>. DEFINE q == Qty(r)
<1>1. q \in Int /\ q > 0
  BY PositiveQty
<1> HIDE DEF q
<1>2. FillTarget(order, q) \in {"FILLED", "PARTIALLY_FILLED"}
  BY DEF FillTarget
<1>3. CanFill(order, q)
  BY <1>1, <1>2 DEF CanFill, IsActive, CanTransition, NextStatuses
<1>4. order.filled \in Int /\ order.qty \in Int
  BY DEF Orders
<1>5. FilledAfter(order, q) \in Int
  BY <1>1, <1>4 DEF FilledAfter
<1>6. ApplyFill(order, q) = [order EXCEPT !.filled = FilledAfter(order, q),
                                          !.status = FillTarget(order, q)]
  BY <1>3 DEF ApplyFill
<1>7. FillTarget(order, q) \in Statuses
  BY <1>2 DEF Statuses
<1>8. ASSUME NEW f \in Int, NEW t \in Statuses
      PROVE  /\ [order EXCEPT !.filled = f, !.status = t] \in Orders
             /\ [order EXCEPT !.filled = f, !.status = t].req = order.req
  BY DEF Orders
<1> QED BY <1>3, <1>5, <1>6, <1>7, <1>8 DEF q

\* A thread that touches neither the ids nor the orders leaves them as they are.
LEMMA IdsElsewhere ==
  ASSUME IdsInv,
         UNCHANGED <<orders, nextId, cloids, omOrder, gwCloid, gwPc, refused>>,
         omPc' = omPc
         \/ {omPc, omPc'} \cap {"route", "ack", "cloid"} = {}
  PROVE  IdsInv'
<1>1. CASE omPc' = omPc
  BY <1>1 DEF IdsInv, OmHolds, GwHolds, InMap, NoFillRefused
<1>2. CASE {omPc, omPc'} \cap {"route", "ack", "cloid"} = {}
  <2>1. omPc' \notin {"route", "ack", "cloid"}
    BY <1>2
  <2> QED BY <2>1 DEF IdsInv, OmHolds, GwHolds, InMap, NoFillRefused
<1> QED BY <1>1, <1>2

\* OMSThread's id is newer than every id it has handed over (oms.submit to
\* oms_to_gw_cloid.push), and its order stays in OMS meanwhile.
LEMMA OMSThreadKeepsIds ==
  ASSUME InFlight, IdsInv, OMSThread
  PROVE  IdsInv'
<1>. USE DEF mdVars, stVars, omVars, omsVars, gwVars, psVars, histVars
<1>1. CASE OmsPops \/ RiskPasses \/ RiskRefuses \/ OmsExits
  <2>1. /\ UNCHANGED <<orders, nextId, cloids, omOrder, gwCloid, gwPc, refused>>
        /\ omPc \notin {"route", "ack", "cloid"}
        /\ omPc' \notin {"route", "ack", "cloid"}
    BY <1>1 DEF OmsPops, RiskPasses, RiskRefuses, OmsExits
  <2> QED BY <2>1, IdsElsewhere
<1>2. CASE OmsSubmits
  <2>1. /\ UNCHANGED <<cloids, gwCloid, gwPc, gwFill, refused>>
        /\ omPc = "submit" /\ omPc' = "route"
    BY <1>2 DEF OmsSubmits
  <2>2. CASE Cardinality(InMap) < PoolSize
    <3>1. /\ orders' = [id \in InMap \cup {nextId} |->
                          IF id = nextId THEN NewOrder(omReq) ELSE orders[id]]
          /\ omOrder' = nextId /\ nextId' = nextId + 1
      BY <1>2, <2>2 DEF OmsSubmits
    <3>2. NewOrder(omReq) \in Orders /\ NewOrder(omReq).status = "PENDING_NEW"
      <4>1. omReq \in Reqs
        BY <2>1 DEF InFlight
      <4>2. Qty(omReq) \in Int
        BY <4>1, PositiveQty
      <4> QED BY <4>1, <4>2 DEF NewOrder, Orders, Statuses
    <3>3. /\ nextId \in Nat /\ nextId > 0 /\ nextId \notin InMap
          /\ \A id \in InMap : id \in Nat /\ 0 < id /\ id < nextId
      BY DEF InFlight, IdsInv
    <3>4. /\ InMap' = InMap \cup {nextId}
          /\ orders'[nextId] = NewOrder(omReq)
          /\ \A id \in InMap : orders'[id] = orders[id]
      BY <3>1, <3>3 DEF InMap
    <3>5. \A id \in InMap' : id \in Nat /\ 0 < id /\ id < nextId'
      BY <3>1, <3>3, <3>4
    <3>6. \A id \in InMap' : orders'[id] \in Orders
      BY <3>2, <3>4 DEF IdsInv
    <3>7. \A i \in 1 .. Len(cloids) :
             /\ cloids[i] \in InMap' /\ orders'[cloids[i]].status = "NEW"
             /\ cloids[i] < omOrder'
      BY <3>1, <3>3, <3>4 DEF IdsInv
    <3>8. GwHolds => /\ gwCloid \in InMap /\ gwCloid \in InMap'
                     /\ gwCloid < omOrder'
      BY <3>1, <3>3, <3>4 DEF IdsInv
    <3>9. gwPc \in {"fill", "apply"} => orders'[gwCloid].status = "NEW"
      BY <3>4, <3>8 DEF IdsInv, GwHolds
    <3>10. omOrder' \in InMap' /\ orders'[omOrder'].status = "PENDING_NEW"
      BY <3>1, <3>2, <3>4
    <3> QED BY <2>1, <3>5, <3>6, <3>7, <3>8, <3>9, <3>10
            DEF IdsInv, OmHolds, GwHolds, NoFillRefused
  <2>3. CASE ~(Cardinality(InMap) < PoolSize)
    <3>1. omOrder' = 0 /\ UNCHANGED <<orders, nextId>>
      BY <1>2, <2>3 DEF OmsSubmits
    <3> QED BY <2>1, <3>1 DEF IdsInv, OmHolds, GwHolds, InMap, NoFillRefused
  <2> QED BY <2>2, <2>3
<1>3. CASE OmsRoutes
  <2>1. /\ UNCHANGED <<orders, nextId, cloids, omOrder, gwCloid, gwPc, refused>>
        /\ omPc = "route"
        /\ omPc' = IF omOrder = 0 THEN "pop" ELSE "ack"
    BY <1>3 DEF OmsRoutes
  <2> QED BY <2>1 DEF IdsInv, OmHolds, GwHolds, InMap, NoFillRefused
<1>4. CASE OmsAcks
  <2>1. /\ UNCHANGED <<nextId, cloids, omOrder, gwCloid, gwPc, refused>>
        /\ omPc = "ack" /\ omPc' = "cloid"
    BY <1>4 DEF OmsAcks
  <2>2. /\ OmHolds /\ omOrder \in InMap /\ orders[omOrder] \in Orders
        /\ orders[omOrder].status = "PENDING_NEW"
        /\ omOrder \in Nat
    BY <2>1 DEF IdsInv, OmHolds, InFlight
  <2>3. orders' = [orders EXCEPT ![omOrder] =
                     Transition([@ EXCEPT !.exchId = 1], "NEW")]
    BY <1>4, <2>2 DEF OmsAcks
  <2>4. /\ InMap' = InMap
        /\ \A id \in InMap : id # omOrder => orders'[id] = orders[id]
    BY <2>3 DEF InMap
  <2>5. orders'[omOrder] \in Orders /\ orders'[omOrder].status = "NEW"
    BY <2>2, <2>3, AckedOrder DEF InMap
  <2>6. \A id \in InMap' : /\ id \in Nat /\ 0 < id /\ id < nextId'
                           /\ orders'[id] \in Orders
    BY <2>1, <2>4, <2>5 DEF IdsInv
  <2>7. \A i \in 1 .. Len(cloids) :
           /\ cloids[i] \in InMap' /\ orders'[cloids[i]].status = "NEW"
           /\ cloids[i] < omOrder
    BY <2>2, <2>4, <2>5 DEF IdsInv
  <2>8. GwHolds => gwCloid \in InMap' /\ gwCloid < omOrder /\ gwCloid # omOrder
    <3>1. GwHolds => gwCloid \in InMap' /\ gwCloid < omOrder
      BY <2>2, <2>4 DEF IdsInv
    <3> QED BY <3>1, <2>2 DEF InFlight
  <2>9. gwPc \in {"fill", "apply"} => orders'[gwCloid].status = "NEW"
    BY <2>4, <2>8 DEF IdsInv, GwHolds
  <2> QED BY <2>1, <2>2, <2>4, <2>5, <2>6, <2>7, <2>8, <2>9
          DEF IdsInv, OmHolds, GwHolds, NoFillRefused
<1>5. CASE OmsHandsOver
  <2>1. /\ UNCHANGED <<orders, nextId, omOrder, gwCloid, gwPc, refused>>
        /\ omPc = "cloid" /\ omPc' = "pop"
        /\ cloids' = PushTo(cloids, CloidCap, omOrder)
    BY <1>5 DEF OmsHandsOver
  <2>2. /\ omOrder \in InMap /\ orders[omOrder].status = "NEW"
        /\ \A i \in 1 .. Len(cloids) : cloids[i] < omOrder
        /\ GwHolds => gwCloid < omOrder
    BY <2>1 DEF IdsInv, OmHolds
  <2>3. /\ \A i \in 1 .. Len(cloids') :
             cloids'[i] \in InMap /\ orders[cloids'[i]].status = "NEW"
        /\ \A i, j \in 1 .. Len(cloids') : i < j => cloids'[i] < cloids'[j]
        /\ GwHolds => \A i \in 1 .. Len(cloids') : gwCloid < cloids'[i]
    <3>1. CASE Len(cloids) < CloidCap
      <4>1. cloids' = Append(cloids, omOrder)
        BY <2>1, <3>1 DEF PushTo
      <4>2. /\ cloids \in Seq(Nat) /\ omOrder \in Nat /\ Len(cloids) \in Nat
            /\ Len(cloids') = Len(cloids) + 1
            /\ cloids'[Len(cloids) + 1] = omOrder
            /\ \A i \in 1 .. Len(cloids) : cloids'[i] = cloids[i]
        BY <4>1 DEF InFlight
      <4>3. \A i \in 1 .. Len(cloids') :
               i \in 1 .. Len(cloids) \/ i = Len(cloids) + 1
        BY <4>2
      <4>4. \A i, j \in 1 .. Len(cloids') : i < j => i \in 1 .. Len(cloids)
        BY <4>2
      <4> QED BY <2>2, <4>2, <4>3, <4>4 DEF IdsInv
    <3>2. CASE ~(Len(cloids) < CloidCap)
      <4>1. cloids' = cloids
        BY <2>1, <3>2 DEF PushTo
      <4> QED BY <4>1 DEF IdsInv
    <3> QED BY <3>1, <3>2
  <2> QED BY <2>1, <2>3 DEF IdsInv, OmHolds, GwHolds, InMap, NoFillRefused
<1> QED BY <1>1, <1>2, <1>3, <1>4, <1>5 DEF OMSThread

\* GatewayThread's id is older than every other, so that the order it fills and
\* releases is nobody else's; the fill is accepted (oms.on_fill, oms.release).
LEMMA GatewayThreadKeepsIds ==
  ASSUME InFlight, IdsInv, GatewayThread
  PROVE  IdsInv'
<1>. USE DEF mdVars, stVars, omVars, omsVars, gwVars, psVars, histVars
<1>1. CASE GatewayPops
  <2>1. /\ UNCHANGED <<orders, nextId, omOrder, omPc, refused>>
        /\ gwPc' = "fill" /\ cloids # << >>
        /\ gwCloid' = Head(cloids) /\ cloids' = Tail(cloids)
    BY <1>1 DEF GatewayPops
  <2>2. /\ cloids \in Seq(Nat) /\ Len(cloids) \in Nat /\ Len(cloids) > 0
        /\ gwCloid' = cloids[1] /\ Len(cloids') = Len(cloids) - 1
        /\ \A i \in 1 .. Len(cloids') : cloids'[i] = cloids[i + 1]
    BY <2>1 DEF InFlight
  <2>3. /\ 1 \in 1 .. Len(cloids)
        /\ \A i \in 1 .. Len(cloids') : i + 1 \in 1 .. Len(cloids) /\ 1 < i + 1
        /\ \A i, j \in 1 .. Len(cloids') : i < j => i + 1 < j + 1
    BY <2>2
  <2>4. gwCloid' \in InMap /\ orders[gwCloid'].status = "NEW"
    BY <2>2, <2>3 DEF IdsInv
  <2>5. \A i \in 1 .. Len(cloids') :
           cloids'[i] \in InMap /\ orders[cloids'[i]].status = "NEW"
    BY <2>2, <2>3 DEF IdsInv
  <2>6. \A i, j \in 1 .. Len(cloids') : i < j => cloids'[i] < cloids'[j]
    BY <2>2, <2>3 DEF IdsInv
  <2>7. \A i \in 1 .. Len(cloids') : gwCloid' < cloids'[i]
    BY <2>2, <2>3 DEF IdsInv
  <2>8. OmHolds => /\ \A i \in 1 .. Len(cloids') : cloids'[i] < omOrder
                   /\ gwCloid' < omOrder
    BY <2>2, <2>3 DEF IdsInv
  <2> QED BY <2>1, <2>4, <2>5, <2>6, <2>7, <2>8
          DEF IdsInv, OmHolds, GwHolds, InMap, NoFillRefused
<1>2. CASE GatewayTakesFill
  <2>1. /\ UNCHANGED <<orders, nextId, cloids, omOrder, omPc, gwCloid, refused>>
        /\ gwPc = "fill" /\ gwPc' \in {"apply", "pop"}
    BY <1>2 DEF GatewayTakesFill
  <2> QED BY <2>1 DEF IdsInv, OmHolds, GwHolds, InMap, NoFillRefused
<1>3. CASE GatewayApplies
  <2>1. /\ UNCHANGED <<nextId, cloids, omOrder, omPc, gwCloid>>
        /\ gwPc = "apply" /\ gwPc' = "release"
    BY <1>3 DEF GatewayApplies
  <2>2. /\ gwCloid \in InMap /\ orders[gwCloid] \in Orders
        /\ orders[gwCloid].status = "NEW" /\ gwFill \in Reqs
        /\ gwCloid \in Nat
    BY <2>1 DEF IdsInv, GwHolds, InFlight
  <2>3. /\ CanFill(orders[gwCloid], Qty(gwFill))
        /\ ApplyFill(orders[gwCloid], Qty(gwFill)) \in Orders
    BY <2>2, FilledOrder
  <2>4. /\ orders' = [orders EXCEPT ![gwCloid] = ApplyFill(@, Qty(gwFill))]
        /\ UNCHANGED refused
    BY <1>3, <2>2, <2>3 DEF GatewayApplies
  <2>5. /\ InMap' = InMap
        /\ \A id \in InMap : id # gwCloid => orders'[id] = orders[id]
        /\ orders'[gwCloid] \in Orders
    BY <2>2, <2>3, <2>4 DEF InMap
  <2>6. \A id \in InMap' : /\ id \in Nat /\ 0 < id /\ id < nextId'
                           /\ orders'[id] \in Orders
    BY <2>1, <2>5 DEF IdsInv
  <2>7. \A i \in 1 .. Len(cloids) : cloids[i] # gwCloid
    <3>1. \A i \in 1 .. Len(cloids) : gwCloid < cloids[i] /\ cloids[i] \in InMap
      BY <2>1 DEF IdsInv, GwHolds
    <3>2. \A id \in InMap : id \in Nat
      BY DEF IdsInv
    <3> QED BY <2>2, <3>1, <3>2
  <2>8. OmHolds => omOrder # gwCloid
    BY <2>1, <2>2 DEF IdsInv, GwHolds, InFlight
  <2>9. /\ \A i \in 1 .. Len(cloids) :
             cloids[i] \in InMap' /\ orders'[cloids[i]].status = "NEW"
        /\ OmHolds => /\ omOrder \in InMap'
                      /\ orders'[omOrder].status = orders[omOrder].status
    BY <2>5, <2>7, <2>8 DEF IdsInv
  <2> QED BY <2>1, <2>2, <2>4, <2>5, <2>6, <2>9
          DEF IdsInv, OmHolds, GwHolds, NoFillRefused
<1>4. CASE GatewayReleases
  <2>1. /\ UNCHANGED <<nextId, cloids, omOrder, omPc, gwCloid, refused>>
        /\ gwPc = "release" /\ gwPc' = "pop"
        /\ orders' = [id \in InMap \ {gwCloid} |-> orders[id]]
    BY <1>4 DEF GatewayReleases
  <2>2. /\ InMap' = InMap \ {gwCloid}
        /\ \A id \in InMap' : orders'[id] = orders[id]
    BY <2>1 DEF InMap
  <2>3. \A i \in 1 .. Len(cloids) : cloids[i] # gwCloid
    <3>1. \A i \in 1 .. Len(cloids) : gwCloid < cloids[i] /\ cloids[i] \in InMap
      BY <2>1 DEF IdsInv, GwHolds
    <3>2. \A id \in InMap : id \in Nat
      BY DEF IdsInv
    <3> QED BY <3>1, <3>2 DEF InFlight
  <2>4. OmHolds => omOrder # gwCloid
    BY <2>1 DEF IdsInv, GwHolds, InFlight
  <2>5. \A i \in 1 .. Len(cloids) :
           cloids[i] \in InMap' /\ orders'[cloids[i]].status = "NEW"
    BY <2>2, <2>3 DEF IdsInv
  <2>6. OmHolds => /\ omOrder \in InMap'
                   /\ orders'[omOrder] = orders[omOrder]
    BY <2>2, <2>4 DEF IdsInv
  <2>7. \A id \in InMap' : /\ id \in Nat /\ 0 < id /\ id < nextId'
                           /\ orders'[id] \in Orders
    BY <2>1, <2>2 DEF IdsInv
  <2> QED BY <2>1, <2>5, <2>6, <2>7 DEF IdsInv, OmHolds, GwHolds, NoFillRefused
<1>5. CASE GatewayExits
  <2>1. /\ UNCHANGED <<orders, nextId, cloids, omOrder, omPc, gwCloid, refused>>
        /\ gwPc = "pop" /\ gwPc' = "done"
    BY <1>5 DEF GatewayExits
  <2> QED BY <2>1 DEF IdsInv, OmHolds, GwHolds, InMap, NoFillRefused
<1> QED BY <1>1, <1>2, <1>3, <1>4, <1>5 DEF GatewayThread

\* The other threads, and a signal, touch neither the ids nor the orders.
LEMMA Elsewhere ==
  ASSUME [Next]_vars, ~OMSThread, ~GatewayThread
  PROVE  /\ UNCHANGED <<omVars, omsVars, reserved, cloids, simFills, gwVars,
                        refused, losses>>
         /\ PositionThread \/ UNCHANGED <<tracked, position>>
<1>. USE DEF mdVars, stVars, omVars, omsVars, gwVars, psVars, histVars
<1>1. CASE Signal
  BY <1>1 DEF Signal
<1>2. CASE MarketDataThread
  BY <1>2 DEF MarketDataThread, Quote, MarketDataEnds, MarketDataExits
<1>3. CASE StrategyThread
  BY <1>3 DEF StrategyThread, StrategyPops, StrategyRelays, StrategyExits
<1>4. CASE PositionThread
  BY <1>4 DEF PositionThread, PositionBooks, PositionExits
<1>5. CASE MonitorThread
  BY <1>5 DEF MonitorThread, pipelineVars
<1>6. CASE UNCHANGED vars
  BY <1>6 DEF vars
<1> QED BY <1>1, <1>2, <1>3, <1>4, <1>5, <1>6 DEF Next

\* No step of any thread breaks the path of the ids.
LEMMA IdsStep == InFlight /\ IdsInv /\ [Next]_vars => IdsInv'
<1>1. ASSUME IdsInv, [Next]_vars, ~OMSThread, ~GatewayThread PROVE IdsInv'
  <2>1. UNCHANGED <<orders, nextId, cloids, omOrder, omPc, gwCloid, gwPc, refused>>
    BY <1>1, Elsewhere DEF omVars, omsVars, gwVars
  <2> QED BY <1>1, <2>1, IdsElsewhere
<1> QED BY <1>1, OMSThreadKeepsIds, GatewayThreadKeepsIds

\* OMSThread puts the fill (through SimGateway) and later the id at the end of
\* their queues, and both are of the request it is working on.
LEMMA OMSThreadKeepsPairs ==
  ASSUME InFlight, IdsInv, PairsInv, OMSThread
  PROVE  PairsInv'
<1>. USE DEF mdVars, stVars, omVars, omsVars, gwVars, psVars, histVars
<1>1. CASE OmsPops \/ RiskPasses \/ RiskRefuses \/ OmsExits
  <2>1. /\ UNCHANGED <<orders, cloids, simFills, omOrder, gwCloid, gwPc, gwFill,
                       losses>>
        /\ omPc \notin {"route", "ack", "cloid"}
        /\ omPc' \notin {"route", "ack", "cloid"}
    BY <1>1 DEF OmsPops, RiskPasses, RiskRefuses, OmsExits
  <2> QED BY <2>1 DEF PairsInv, OmHolds, Ahead, Behind
<1>2. CASE OmsSubmits
  <2>1. /\ UNCHANGED <<cloids, simFills, omReq, gwCloid, gwPc, gwFill, losses>>
        /\ omPc = "submit" /\ omPc' = "route"
    BY <1>2 DEF OmsSubmits
  <2>2. /\ \A id \in InMap : orders'[id] = orders[id]
        /\ omOrder' # 0 => orders'[omOrder'].req = omReq
    <3>1. nextId \notin InMap
      BY DEF IdsInv, InFlight
    <3>2. CASE Cardinality(InMap) < PoolSize
      <4>1. /\ orders' = [id \in InMap \cup {nextId} |->
                           IF id = nextId THEN NewOrder(omReq) ELSE orders[id]]
            /\ omOrder' = nextId
        BY <1>2, <3>2 DEF OmsSubmits
      <4>2. orders'[nextId] = NewOrder(omReq)
        BY <4>1
      <4>3. NewOrder(omReq).req = omReq
        BY DEF NewOrder
      <4> QED BY <3>1, <4>1, <4>2, <4>3
    <3>3. CASE ~(Cardinality(InMap) < PoolSize)
      BY <1>2, <3>3 DEF OmsSubmits
    <3> QED BY <3>2, <3>3
  <2>3. /\ \A i \in 1 .. Len(cloids) : orders'[cloids[i]] = orders[cloids[i]]
        /\ gwPc \in {"fill", "apply"} => orders'[gwCloid] = orders[gwCloid]
    BY <2>2 DEF IdsInv, GwHolds
  <2> QED BY <2>1, <2>2, <2>3 DEF PairsInv, OmHolds, Ahead, Behind
<1>3. CASE OmsRoutes
  <2>1. /\ UNCHANGED <<orders, cloids, omOrder, omReq, gwCloid, gwPc, gwFill>>
        /\ omPc = "route"
        /\ omPc' = IF omOrder = 0 THEN "pop" ELSE "ack"
        /\ simFills' = Append(simFills, omReq)
        /\ losses' = IF omOrder = 0 THEN losses \cup {"id"} ELSE losses
    BY <1>3 DEF OmsRoutes
  <2>2. /\ simFills \in Seq(Reqs) /\ Len(simFills) \in Nat
        /\ Len(cloids) \in Nat /\ Ahead \in {0, 1}
    BY DEF InFlight, Ahead
  <2>3. /\ Len(simFills') = Len(simFills) + 1
        /\ simFills'[Len(simFills) + 1] = omReq
        /\ \A i \in 1 .. Len(simFills) : simFills'[i] = simFills[i]
    BY <2>1, <2>2 DEF InFlight
  <2>4. CASE omOrder = 0
    BY <2>1, <2>4 DEF PairsInv, OmHolds
  <2>5. CASE omOrder # 0
    <3>1. /\ OmHolds /\ orders[omOrder].req = omReq
          /\ omPc' = "ack" /\ losses' = losses /\ Behind = 0 /\ Behind' = 1
          /\ Ahead' = Ahead
      BY <2>1, <2>5 DEF PairsInv, OmHolds, Behind, Ahead
    <3>2. SUFFICES ASSUME "id" \notin losses
                   PROVE  /\ Len(simFills') = Ahead + Len(cloids) + 1
                          /\ gwPc = "fill" => orders[gwCloid].req = simFills'[1]
                          /\ \A i \in 1 .. Len(cloids) :
                                orders[cloids[i]].req = simFills'[Ahead + i]
                          /\ gwPc = "apply" => orders[gwCloid].req = gwFill
      BY <2>1, <2>3, <3>1 DEF PairsInv, OmHolds
    <3>3. Len(simFills) = Ahead + Len(cloids)
      <4>1. Len(simFills) = Ahead + Len(cloids) + Behind
        BY <3>2 DEF PairsInv
      <4> QED BY <4>1, <3>1, <2>2
    <3>4. \A i \in 1 .. Len(cloids) : Ahead + i \in 1 .. Len(simFills)
      BY <2>2, <3>3
    <3>5. gwPc = "fill" => 1 \in 1 .. Len(simFills)
      BY <2>2, <3>3 DEF Ahead
    <3>6. Len(simFills') = Ahead + Len(cloids) + 1
      BY <2>2, <2>3, <3>3
    <3> QED BY <2>3, <3>2, <3>4, <3>5, <3>6 DEF PairsInv
  <2> QED BY <2>4, <2>5
<1>4. CASE OmsAcks
  <2>1. /\ UNCHANGED <<cloids, simFills, omOrder, omReq, gwCloid, gwPc, gwFill,
                       losses>>
        /\ omPc = "ack" /\ omPc' = "cloid"
    BY <1>4 DEF OmsAcks
  <2>2. /\ OmHolds /\ omOrder \in InMap /\ orders[omOrder] \in Orders
        /\ orders[omOrder].status = "PENDING_NEW"
    BY <2>1 DEF IdsInv, OmHolds
  <2>3. orders' = [orders EXCEPT ![omOrder] =
                     Transition([@ EXCEPT !.exchId = 1], "NEW")]
    BY <1>4, <2>2 DEF OmsAcks
  <2>4. \A id \in InMap : orders'[id].req = orders[id].req
    <3>1. orders'[omOrder].req = orders[omOrder].req
      BY <2>2, <2>3, AckedOrder DEF InMap
    <3>2. \A id \in InMap : id # omOrder => orders'[id] = orders[id]
      BY <2>3 DEF InMap
    <3> QED BY <3>1, <3>2
  <2>5. /\ \A i \in 1 .. Len(cloids) :
             orders'[cloids[i]].req = orders[cloids[i]].req
        /\ gwPc \in {"fill", "apply"} =>
             orders'[gwCloid].req = orders[gwCloid].req
        /\ orders'[omOrder].req = orders[omOrder].req
    BY <2>2, <2>4 DEF IdsInv, GwHolds
  <2>6. Ahead' = Ahead /\ Behind' = Behind
    BY <2>1 DEF Ahead, Behind
  <2> QED BY <2>1, <2>2, <2>5, <2>6 DEF PairsInv, OmHolds
<1>5. CASE OmsHandsOver
  <2>1. /\ UNCHANGED <<orders, simFills, omOrder, omReq, gwCloid, gwPc, gwFill>>
        /\ omPc = "cloid" /\ omPc' = "pop"
        /\ cloids' = PushTo(cloids, CloidCap, omOrder)
        /\ losses' = IF Len(cloids) < CloidCap THEN losses
                                               ELSE losses \cup {"id"}
    BY <1>5 DEF OmsHandsOver
  <2>2. CASE ~(Len(cloids) < CloidCap)
    BY <2>1, <2>2 DEF PairsInv, OmHolds
  <2>3. CASE Len(cloids) < CloidCap
    <3>1. cloids' = Append(cloids, omOrder) /\ losses' = losses
      BY <2>1, <2>3 DEF PushTo
    <3>2. /\ Len(cloids) \in Nat
          /\ Len(cloids') = Len(cloids) + 1
          /\ cloids'[Len(cloids) + 1] = omOrder
          /\ \A i \in 1 .. Len(cloids) : cloids'[i] = cloids[i]
      BY <3>1 DEF InFlight
    <3>3. \A i \in 1 .. Len(cloids') :
             i \in 1 .. Len(cloids) \/ i = Len(cloids) + 1
      BY <3>2
    <3>4. Behind = 1 /\ Behind' = 0 /\ Ahead' = Ahead /\ Ahead \in {0, 1}
      BY <2>1 DEF Behind, Ahead
    <3>5. SUFFICES ASSUME "id" \notin losses
                   PROVE  /\ Len(simFills) = Ahead + Len(cloids') + 0
                          /\ \A i \in 1 .. Len(cloids') :
                                orders[cloids'[i]].req = simFills[Ahead + i]
      BY <2>1, <3>1, <3>4 DEF PairsInv, OmHolds
    <3>6. /\ Len(simFills) = Ahead + Len(cloids) + Behind
          /\ orders[omOrder].req = simFills[Len(simFills)]
          /\ \A i \in 1 .. Len(cloids) : orders[cloids[i]].req = simFills[Ahead + i]
      BY <2>1, <3>5 DEF PairsInv
    <3>7. /\ Len(simFills) = Ahead + Len(cloids') + 0
          /\ Len(simFills) = Ahead + (Len(cloids) + 1)
      BY <3>2, <3>4, <3>6
    <3> QED BY <3>2, <3>3, <3>6, <3>7
  <2> QED BY <2>2, <2>3
<1> QED BY <1>1, <1>2, <1>3, <1>4, <1>5 DEF OMSThread

\* GatewayThread takes the first id and then the first fill.
LEMMA GatewayThreadKeepsPairs ==
  ASSUME InFlight, IdsInv, PairsInv, GatewayThread
  PROVE  PairsInv'
<1>. USE DEF mdVars, stVars, omVars, omsVars, gwVars, psVars, histVars
<1>1. CASE GatewayPops
  <2>1. /\ UNCHANGED <<orders, simFills, omOrder, omPc, omReq, gwFill, losses>>
        /\ gwPc = "pop" /\ gwPc' = "fill" /\ cloids # << >>
        /\ gwCloid' = Head(cloids) /\ cloids' = Tail(cloids)
    BY <1>1 DEF GatewayPops
  <2>2. /\ Len(cloids) \in Nat /\ Len(cloids) > 0
        /\ gwCloid' = cloids[1] /\ Len(cloids') = Len(cloids) - 1
        /\ \A i \in 1 .. Len(cloids') : cloids'[i] = cloids[i + 1]
    BY <2>1 DEF InFlight
  <2>3. Ahead = 0 /\ Ahead' = 1 /\ Behind' = Behind /\ Behind \in {0, 1}
    BY <2>1 DEF Ahead, Behind
  <2>4. SUFFICES ASSUME "id" \notin losses
                 PROVE  /\ Len(simFills) = 1 + Len(cloids') + Behind
                        /\ orders[gwCloid'].req = simFills[1]
                        /\ \A i \in 1 .. Len(cloids') :
                              orders[cloids'[i]].req = simFills[1 + i]
    BY <2>1, <2>3 DEF PairsInv, OmHolds
  <2>5. /\ Len(simFills) = 0 + Len(cloids) + Behind
        /\ \A i \in 1 .. Len(cloids) : orders[cloids[i]].req = simFills[0 + i]
    BY <2>3, <2>4 DEF PairsInv
  <2>6. Len(simFills) = 1 + Len(cloids') + Behind
    BY <2>2, <2>3, <2>5
  <2>7. orders[cloids[1]].req = simFills[1]
    <3>1. 1 \in 1 .. Len(cloids) /\ 0 + 1 = 1
      BY <2>2
    <3> QED BY <2>5, <3>1
  <2>8. ASSUME NEW i \in 1 .. Len(cloids')
        PROVE  orders[cloids'[i]].req = simFills[1 + i]
    <3>1. i + 1 \in 1 .. Len(cloids) /\ 0 + (i + 1) = 1 + i
      BY <2>2
    <3>2. orders[cloids[i + 1]].req = simFills[0 + (i + 1)]
      BY <2>5, <3>1
    <3> QED BY <2>2, <3>1, <3>2
  <2> QED BY <2>2, <2>6, <2>7, <2>8
<1>2. CASE GatewayTakesFill
  <2>1. /\ UNCHANGED <<orders, cloids, omOrder, omPc, omReq, gwCloid, losses>>
        /\ gwPc = "fill"
    BY <1>2 DEF GatewayTakesFill
  <2>2. /\ Ahead = 1 /\ Behind' = Behind /\ Behind \in {0, 1}
        /\ Len(cloids) \in Nat /\ simFills \in Seq(Reqs)
    BY <2>1 DEF Ahead, Behind, InFlight
  <2>3. CASE "id" \in losses
    BY <2>1, <2>3 DEF PairsInv, OmHolds
  <2>4. CASE "id" \notin losses
    <3>1. /\ Len(simFills) = 1 + Len(cloids) + Behind
          /\ orders[gwCloid].req = simFills[1]
          /\ \A i \in 1 .. Len(cloids) : orders[cloids[i]].req = simFills[1 + i]
          /\ omPc \in {"ack", "cloid"} =>
                orders[omOrder].req = simFills[Len(simFills)]
      BY <2>1, <2>2, <2>4 DEF PairsInv
    <3>2. simFills # << >>
      BY <2>2, <3>1
    <3>3. /\ gwFill' = Head(simFills) /\ simFills' = Tail(simFills)
          /\ gwPc' = "apply"
      BY <1>2, <3>2 DEF GatewayTakesFill
    <3>4. /\ Head(simFills) = simFills[1]
          /\ Len(simFills') = Len(simFills) - 1
          /\ \A i \in 1 .. Len(simFills') : simFills'[i] = simFills[i + 1]
      BY <2>2, <3>2, <3>3
    <3>5. Ahead' = 0 /\ Len(simFills') = 0 + Len(cloids) + Behind
      BY <2>2, <3>1, <3>3, <3>4 DEF Ahead
    <3>6. ASSUME NEW i \in 1 .. Len(cloids)
          PROVE  orders[cloids[i]].req = simFills'[0 + i]
      <4>1. 0 + i = i /\ i \in 1 .. Len(simFills') /\ i + 1 = 1 + i
        BY <2>2, <3>5
      <4> QED BY <3>1, <3>4, <4>1
    <3>7. ASSUME omPc \in {"ack", "cloid"}
          PROVE  orders[omOrder].req = simFills'[Len(simFills')]
      <4>1. Behind = 1
        BY <3>7 DEF Behind
      <4>2. /\ Len(simFills') \in 1 .. Len(simFills')
            /\ Len(simFills') + 1 = Len(simFills)
        BY <2>2, <3>1, <3>4, <3>5, <4>1
      <4> QED BY <3>1, <3>4, <3>7, <4>2
    <3>8. /\ Len(simFills') = Ahead' + Len(cloids') + Behind'
          /\ \A i \in 1 .. Len(cloids') :
                orders'[cloids'[i]].req = simFills'[Ahead' + i]
      BY <2>1, <2>2, <3>5, <3>6
    <3>9. /\ omPc' \in {"ack", "cloid"} =>
                orders'[omOrder'].req = simFills'[Len(simFills')]
          /\ orders'[gwCloid'].req = gwFill'
      BY <2>1, <3>1, <3>3, <3>4, <3>7
    <3>10. OmHolds' => orders'[omOrder'].req = omReq'
      BY <2>1 DEF PairsInv, OmHolds
    <3> QED BY <3>3, <3>8, <3>9, <3>10 DEF PairsInv
  <2> QED BY <2>3, <2>4
<1>3. CASE GatewayApplies
  <2>1. /\ UNCHANGED <<cloids, simFills, omOrder, omPc, omReq, gwCloid, gwFill>>
        /\ gwPc = "apply" /\ gwPc' = "release"
        /\ "id" \notin losses' => "id" \notin losses
    BY <1>3 DEF GatewayApplies
  <2>2. /\ gwCloid \in InMap /\ orders[gwCloid] \in Orders
        /\ orders[gwCloid].status = "NEW" /\ gwFill \in Reqs
    BY <2>1 DEF IdsInv, GwHolds, InFlight
  <2>3. /\ CanFill(orders[gwCloid], Qty(gwFill))
        /\ ApplyFill(orders[gwCloid], Qty(gwFill)).req = orders[gwCloid].req
    BY <2>2, FilledOrder
  <2>4. orders' = [orders EXCEPT ![gwCloid] = ApplyFill(@, Qty(gwFill))]
    BY <1>3, <2>2, <2>3 DEF GatewayApplies
  <2>5. \A id \in InMap : orders'[id].req = orders[id].req
    <3>1. \A id \in InMap : id # gwCloid => orders'[id] = orders[id]
      BY <2>4 DEF InMap
    <3>2. orders'[gwCloid].req = orders[gwCloid].req
      BY <2>2, <2>3, <2>4 DEF InMap
    <3> QED BY <3>1, <3>2
  <2>6. /\ \A i \in 1 .. Len(cloids) :
             orders'[cloids[i]].req = orders[cloids[i]].req
        /\ OmHolds => orders'[omOrder].req = orders[omOrder].req
        /\ omPc \in {"ack", "cloid"} => OmHolds
    BY <2>5 DEF IdsInv, OmHolds
  <2>7. Ahead' = Ahead /\ Behind' = Behind
    BY <2>1 DEF Ahead, Behind
  <2> QED BY <2>1, <2>6, <2>7 DEF PairsInv, OmHolds
<1>4. CASE GatewayReleases
  <2>1. /\ UNCHANGED <<cloids, simFills, omOrder, omPc, omReq, gwCloid, losses>>
        /\ gwPc = "release" /\ gwPc' = "pop"
        /\ orders' = [id \in InMap \ {gwCloid} |-> orders[id]]
    BY <1>4 DEF GatewayReleases
  <2>2. \A i \in 1 .. Len(cloids) : cloids[i] \in InMap /\ cloids[i] # gwCloid
    <3>1. \A i \in 1 .. Len(cloids) : gwCloid < cloids[i] /\ cloids[i] \in InMap
      BY <2>1 DEF IdsInv, GwHolds
    <3>2. \A id \in InMap : id \in Nat
      BY DEF IdsInv
    <3> QED BY <3>1, <3>2 DEF InFlight
  <2>3. OmHolds => omOrder \in InMap /\ omOrder # gwCloid
    BY <2>1 DEF IdsInv, GwHolds, InFlight
  <2>4. /\ \A i \in 1 .. Len(cloids) : orders'[cloids[i]] = orders[cloids[i]]
        /\ OmHolds => orders'[omOrder] = orders[omOrder]
        /\ omPc \in {"ack", "cloid"} => OmHolds
    BY <2>1, <2>2, <2>3 DEF IdsInv, OmHolds
  <2>5. Ahead' = Ahead /\ Behind' = Behind
    BY <2>1 DEF Ahead, Behind
  <2>6. OmHolds' => orders'[omOrder'].req = omReq'
    BY <2>1, <2>4 DEF PairsInv, OmHolds
  <2>7. SUFFICES ASSUME "id" \notin losses
                 PROVE  /\ Len(simFills) = Ahead + Len(cloids) + Behind
                        /\ \A i \in 1 .. Len(cloids) :
                              orders'[cloids[i]].req = simFills[Ahead + i]
                        /\ omPc \in {"ack", "cloid"} =>
                              orders'[omOrder].req = simFills[Len(simFills)]
    BY <2>1, <2>5, <2>6 DEF PairsInv
  <2> QED BY <2>4, <2>7 DEF PairsInv
<1>5. CASE GatewayExits
  <2>1. /\ UNCHANGED <<orders, cloids, simFills, omOrder, omPc, omReq, gwCloid,
                       gwFill, losses>>
        /\ gwPc = "pop" /\ gwPc' = "done"
    BY <1>5 DEF GatewayExits
  <2> QED BY <2>1 DEF PairsInv, OmHolds, Ahead, Behind
<1> QED BY <1>1, <1>2, <1>3, <1>4, <1>5 DEF GatewayThread

\* No step of any thread breaks the pairing of ids and fills.
LEMMA PairsStep == InFlight /\ IdsInv /\ PairsInv /\ [Next]_vars => PairsInv'
<1>1. ASSUME PairsInv, [Next]_vars, ~OMSThread, ~GatewayThread PROVE PairsInv'
  <2>1. UNCHANGED <<orders, cloids, simFills, omOrder, omPc, omReq, gwCloid,
                    gwPc, gwFill, losses>>
    BY <1>1, Elsewhere DEF omVars, omsVars, gwVars
  <2> QED BY <1>1, <2>1 DEF PairsInv, OmHolds, Ahead, Behind
<1> QED BY <1>1, OMSThreadKeepsPairs, GatewayThreadKeepsPairs

\* A reservation is kept (PositionLimits::check_and_reserve) only if the net
\* quantity stays within the limits, and waits behind every other fill.
LEMMA OMSThreadKeepsLevels ==
  ASSUME InFlight, LevelsInv, OMSThread
  PROVE  LevelsInv'
<1>. USE DEF mdVars, stVars, omVars, omsVars, gwVars, psVars, histVars
<1>1. CASE OmsPops \/ RiskRefuses \/ OmsExits \/ OmsAcks \/ OmsHandsOver
  <2>1. /\ UNCHANGED <<reserved, tracked, position, gwPc, gwFill, simFills>>
        /\ omPc \notin {"submit", "route"} /\ omPc' \notin {"submit", "route"}
        /\ "fill" \notin losses' => "fill" \notin losses
    BY <1>1 DEF OmsPops, RiskRefuses, OmsExits, OmsAcks, OmsHandsOver
  <2> QED BY <2>1 DEF LevelsInv, LevelsAre
<1>2. CASE RiskPasses
  <2>1. /\ UNCHANGED <<tracked, position, gwPc, gwFill, simFills, omReq, losses>>
        /\ omPc = "risk" /\ omPc' = "submit"
        /\ reserved' = reserved + Signed[omReq]
        /\ Abs(reserved') <= MaxNetQty
    BY <1>2 DEF RiskPasses, WithinLimit
  <2>2. reserved \in Int /\ Signed[omReq] \in Int /\ MaxNetQty \in Nat
    BY <2>1, PipelineAssumption DEF InFlight, Reqs
  <2>3. reserved' \in Limits
    BY <2>1, <2>2 DEF Abs, Limits
  <2> QED BY <2>1, <2>3 DEF LevelsInv, LevelsAre
<1>3. CASE OmsSubmits
  <2>1. /\ UNCHANGED <<reserved, tracked, position, gwPc, gwFill, simFills,
                       omReq, losses>>
        /\ omPc = "submit" /\ omPc' = "route"
    BY <1>3 DEF OmsSubmits
  <2> QED BY <2>1 DEF LevelsInv, LevelsAre
<1>4. CASE OmsRoutes
  <2>1. /\ UNCHANGED <<reserved, tracked, position, gwPc, gwFill, omReq>>
        /\ omPc = "route" /\ omPc' \notin {"submit", "route"}
        /\ simFills' = Append(simFills, omReq)
        /\ "fill" \notin losses' => "fill" \notin losses
    BY <1>4 DEF OmsRoutes
  <2>2. SUFFICES ASSUME "fill" \notin losses
                 PROVE  \E applied, taken, routed \in Limits :
                           LevelsAre(applied, taken, routed)'
    BY <2>1 DEF LevelsInv
  <2>3. PICK applied, taken, routed \in Limits : LevelsAre(applied, taken, routed)
    BY <2>2 DEF LevelsInv
  <2>4. reserved = routed + Signed[omReq] /\ reserved \in Limits
    BY <2>1, <2>3 DEF LevelsAre, LevelsInv
  <2>5. Books(simFills', taken, reserved)
    <3>1. omReq \in Reqs /\ simFills \in Seq(Reqs)
      BY <2>1 DEF InFlight
    <3>2. Books(simFills, taken, routed)
      BY <2>3 DEF LevelsAre
    <3>3. Books(Append(simFills, omReq), taken, routed + Signed[omReq])
      BY <2>4, <3>1, <3>2, BooksAppend
    <3> QED BY <2>1, <2>4, <3>3
  <2>6. PICK net \in Limits : net = reserved
    BY <2>4
  <2>7. LevelsAre(applied, taken, net)'
    BY <2>1, <2>3, <2>5, <2>6 DEF LevelsAre
  <2> QED BY <2>7
<1> QED BY <1>1, <1>2, <1>3, <1>4 DEF OMSThread

\* The fill that leaves SimGateway first reaches FillTracker first: it is never
\* refused, and with GatewayThread at most one is on its way.
LEMMA GatewayThreadKeepsLevels ==
  ASSUME InFlight, IdsInv, LevelsInv, GatewayThread
  PROVE  LevelsInv'
<1>. USE DEF mdVars, stVars, omVars, omsVars, gwVars, psVars, histVars
<1>1. CASE GatewayPops \/ GatewayReleases \/ GatewayExits
  <2>1. /\ UNCHANGED <<reserved, tracked, position, simFills, omPc, omReq, losses>>
        /\ gwPc # "apply" /\ gwPc' # "apply"
    BY <1>1 DEF GatewayPops, GatewayReleases, GatewayExits
  <2> QED BY <2>1 DEF LevelsInv, LevelsAre
<1>2. CASE GatewayTakesFill
  <2>1. /\ UNCHANGED <<reserved, tracked, position, omPc, omReq, losses>>
        /\ gwPc = "fill"
    BY <1>2 DEF GatewayTakesFill
  <2>2. CASE simFills = << >>
    <3>1. gwPc' = "pop" /\ UNCHANGED simFills
      BY <1>2, <2>2 DEF GatewayTakesFill
    <3> QED BY <2>1, <3>1 DEF LevelsInv, LevelsAre
  <2>3. CASE simFills # << >>
    <3>1. /\ gwPc' = "apply" /\ gwFill' = Head(simFills)
          /\ simFills' = Tail(simFills)
      BY <1>2, <2>3 DEF GatewayTakesFill
    <3>2. SUFFICES ASSUME "fill" \notin losses
                   PROVE  \E applied, taken, routed \in Limits :
                             LevelsAre(applied, taken, routed)'
      BY <2>1 DEF LevelsInv
    <3>3. PICK applied, taken, routed \in Limits :
             LevelsAre(applied, taken, routed)
      BY <3>2 DEF LevelsInv
    <3>4. taken = applied /\ Books(simFills, taken, routed)
      BY <2>1, <3>3 DEF LevelsAre
    <3>5. /\ taken + Signed[Head(simFills)] \in Limits
          /\ Books(Tail(simFills), taken + Signed[Head(simFills)], routed)
      BY <2>3, <3>4, BooksTail DEF InFlight
    <3>6. PICK next \in Limits : next = taken + Signed[Head(simFills)]
      BY <3>5
    <3>7. LevelsAre(applied, next, routed)'
      BY <2>1, <3>1, <3>3, <3>4, <3>5, <3>6 DEF LevelsAre
    <3> QED BY <3>7
  <2> QED BY <2>2, <2>3
<1>3. CASE GatewayApplies
  <2>1. /\ UNCHANGED <<reserved, position, simFills, omPc, omReq>>
        /\ gwPc = "apply" /\ gwPc' = "release"
    BY <1>3 DEF GatewayApplies
  <2>2. /\ gwCloid \in InMap /\ orders[gwCloid] \in Orders
        /\ orders[gwCloid].status = "NEW" /\ gwFill \in Reqs
    BY <2>1 DEF IdsInv, GwHolds, InFlight
  <2>3. /\ tracked' = PushTo(tracked, TrackCap, gwFill)
        /\ losses' = IF Len(tracked) < TrackCap THEN losses
                                                ELSE losses \cup {"fill"}
    BY <1>3, <2>2, FilledOrder DEF GatewayApplies
  <2>4. SUFFICES ASSUME "fill" \notin losses'
                 PROVE  \E applied, taken, routed \in Limits :
                           LevelsAre(applied, taken, routed)'
    BY <2>1 DEF LevelsInv
  <2>5. "fill" \notin losses /\ tracked' = Append(tracked, gwFill)
    BY <2>3, <2>4 DEF PushTo
  <2>6. PICK applied, taken, routed \in Limits : LevelsAre(applied, taken, routed)
    BY <2>5 DEF LevelsInv
  <2>7. taken = applied + Signed[gwFill] /\ Books(tracked, position, applied)
    BY <2>1, <2>6 DEF LevelsAre
  <2>8. Books(Append(tracked, gwFill), position, taken)
    BY <2>2, <2>7, BooksAppend DEF InFlight
  <2>9. LevelsAre(taken, taken, routed)'
    BY <2>1, <2>5, <2>6, <2>8 DEF LevelsAre
  <2> QED BY <2>9
<1> QED BY <1>1, <1>2, <1>3 DEF GatewayThread

\* PositionThread books the fill that left SimGateway first.
LEMMA PositionThreadKeepsLevels ==
  ASSUME InFlight, LevelsInv, PositionThread
  PROVE  LevelsInv'
<1>. USE DEF mdVars, stVars, omVars, omsVars, gwVars, psVars, histVars
<1>1. CASE PositionExits
  <2>1. UNCHANGED <<reserved, tracked, position, gwPc, gwFill, simFills, omPc,
                    omReq, losses>>
    BY <1>1 DEF PositionExits
  <2> QED BY <2>1 DEF LevelsInv, LevelsAre
<1>2. CASE PositionBooks
  <2>1. /\ UNCHANGED <<reserved, gwPc, gwFill, simFills, omPc, omReq, losses>>
        /\ tracked # << >> /\ tracked' = Tail(tracked)
        /\ position' = position + Signed[Head(tracked)]
    BY <1>2 DEF PositionBooks
  <2>2. SUFFICES ASSUME "fill" \notin losses
                 PROVE  \E applied, taken, routed \in Limits :
                           LevelsAre(applied, taken, routed)'
    BY <2>1 DEF LevelsInv
  <2>3. PICK applied, taken, routed \in Limits : LevelsAre(applied, taken, routed)
    BY <2>2 DEF LevelsInv
  <2>4. Books(tracked', position', applied)
    BY <2>1, <2>3, BooksTail DEF LevelsAre, InFlight
  <2>5. LevelsAre(applied, taken, routed)'
    BY <2>1, <2>3, <2>4 DEF LevelsAre
  <2> QED BY <2>5
<1> QED BY <1>1, <1>2 DEF PositionThread

\* No step of any thread breaks the booking within the limits.
LEMMA LevelsStep == InFlight /\ IdsInv /\ LevelsInv /\ [Next]_vars => LevelsInv'
<1>1. ASSUME LevelsInv, [Next]_vars, ~OMSThread, ~GatewayThread, ~PositionThread
      PROVE  LevelsInv'
  <2>1. UNCHANGED <<reserved, tracked, position, gwPc, gwFill, simFills, omPc,
                    omReq, losses>>
    BY <1>1, Elsewhere DEF omVars, omsVars, gwVars
  <2> QED BY <1>1, <2>1 DEF LevelsInv, LevelsAre
<1> QED BY <1>1, OMSThreadKeepsLevels, GatewayThreadKeepsLevels,
           PositionThreadKeepsLevels

-----------------------------------------------------------------------------
(* The theorems                                                            *)

\* Nothing is on its way when main starts the threads.
LEMMA PipelineStarts == Init => PipelineInv
<1>. SUFFICES ASSUME Init PROVE PipelineInv
  OBVIOUS
<1>. USE DEF Init
<1>1. InFlight
  BY PipelineAssumption DEF InFlight
<1>2. IdsInv
  BY DEF IdsInv, InMap, OmHolds, GwHolds, NoFillRefused
<1>3. PairsInv
  BY DEF PairsInv, OmHolds, Ahead, Behind
<1>4. 0 \in Limits
  BY PipelineAssumption DEF Limits
<1>5. LevelsAre(0, 0, 0)
  <2>1. Books(<< >>, 0, 0)
    BY <1>4, BooksNothing
  <2> QED BY <2>1 DEF LevelsAre
<1>6. LevelsInv
  BY <1>4, <1>5 DEF LevelsInv
<1> QED BY <1>1, <1>2, <1>3, <1>6 DEF PipelineInv

\* No step of any of main.cpp's threads breaks the invariant.
LEMMA PipelineStep == PipelineInv /\ [Next]_vars => PipelineInv'
BY InFlightStep, IdsStep, PairsStep, LevelsStep DEF PipelineInv

\* The type and the path of every request, id and fill are kept for ever.
THEOREM PipelineInvariance == Spec => []PipelineInv
BY PipelineStarts, PipelineStep, PTL DEF Spec

\* OMSThread never uses an Order that GatewayThread has released, although its
\* fill is already in the gateway's queue while it does.
THEOREM OrderStaysAlive == Spec => []OrderAliveWhileInUse
<1>1. PipelineInv => OrderAliveWhileInUse
  BY DEF PipelineInv, IdsInv, OmHolds, OrderAliveWhileInUse
<1> QED BY <1>1, PipelineInvariance, PTL

\* A fill is applied to its own order until an id is lost, it is always
\* accepted, and the booked position is within the limit until a fill is lost.
THEOREM FillsReachTheirOrders == Spec => []FillsAreBookedRight
<1>1. ASSUME PipelineInv PROVE FillsAreBookedRight
  <2>1. FillGoesToItsOrder
    BY <1>1 DEF PipelineInv, PairsInv, FillGoesToItsOrder
  <2>2. NoFillRefused
    BY <1>1 DEF PipelineInv, IdsInv
  <2>3. PositionWithinLimits
    <3>1. SUFFICES ASSUME "fill" \notin losses PROVE Abs(position) <= MaxNetQty
      BY DEF PositionWithinLimits
    <3>2. PICK applied \in Limits : Books(tracked, position, applied)
      BY <1>1, <3>1 DEF PipelineInv, LevelsInv, LevelsAre
    <3>3. position \in Limits
      BY <1>1, <3>2, BooksWithin DEF PipelineInv, InFlight
    <3> QED BY <3>3, PipelineAssumption DEF Limits, Abs
  <2> QED BY <2>1, <2>2, <2>3 DEF FillsAreBookedRight
<1> QED BY <1>1, PipelineInvariance, PTL

=============================================================================
