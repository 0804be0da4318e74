----------------------------- MODULE OMSProofs -----------------------------
(***************************************************************************)
(* Theorems about the order management system, for every number of orders, *)
(* order size, pool size and queue capacity, and for a wire that reorders  *)
(* and repeats reports as it likes.                                        *)
(***************************************************************************)
EXTENDS OMS, SumTheorems, SequenceTheorems, TLAPS

\* What StatusMatchesQuantity says of one order, with its quantity positive.
GoodOrder(o) ==
    /\ o \in Orders
    /\ o.qty >= 1
    /\ o.filled <= o.qty
    /\ o.status = "FILLED" <=> o.filled = o.qty
    /\ o.status = "PARTIALLY_FILLED" => o.filled > 0
    /\ o.status \in {"PENDING_NEW", "NEW", "REJECTED"} => o.filled = 0

-----------------------------------------------------------------------------
(* The state machine on one order.                                         *)

\* transition() keeps status and quantity in agreement, for every target the
\* OMS asks for by itself (a fill goes through apply_fill).
LEMMA TransitionGood ==
    ASSUME NEW o, GoodOrder(o),
           NEW new \in {"NEW", "REJECTED", "PENDING_CANCEL", "CANCELLED"}
    PROVE  GoodOrder(Transition(o, new))
<1> USE BoundsAssumption DEF GoodOrder, Orders
<1>1. CASE ~CanTransition(o, new)
  BY <1>1 DEF Transition
<1>2. CASE CanTransition(o, new)
  <2> DEFINE p == [o EXCEPT !.status = new]
  <2>1. p \in Orders /\ p.status = new /\ p.qty = o.qty /\ p.filled = o.filled
    BY DEF Statuses
  <2>2. o.status \in {"PENDING_NEW", "NEW", "PARTIALLY_FILLED", "PENDING_CANCEL"}
    BY <1>2 DEF CanTransition, NextStatuses, Statuses
  <2>3. o.filled # o.qty
    BY <2>2
  <2>4. new \in {"NEW", "REJECTED"} => o.status = "PENDING_NEW"
    BY <1>2, <2>2 DEF CanTransition, NextStatuses
  <2>5. GoodOrder(p)
    BY <2>1, <2>3, <2>4
  <2> QED
    BY <1>2, <2>5 DEF Transition
<1> QED
  BY <1>1, <1>2

\* apply_fill() keeps status and quantity in agreement, whatever the fill.
LEMMA ApplyFillGood ==
    ASSUME NEW o, GoodOrder(o), NEW q \in Qtys
    PROVE  GoodOrder(ApplyFill(o, q))
<1> USE BoundsAssumption DEF GoodOrder, Orders
<1>1. CASE ~CanFill(o, q)
  BY <1>1 DEF ApplyFill
<1>2. CASE CanFill(o, q)
  <2> DEFINE f == FilledAfter(o, q)
             p == [o EXCEPT !.filled = f, !.status = FillTarget(o, q)]
  <2>1. f \in 1 .. o.qty /\ f \in 0 .. MaxQty
    BY DEF FilledAfter, Qtys
  <2>2. FillTarget(o, q) = IF f = o.qty THEN "FILLED" ELSE "PARTIALLY_FILLED"
    BY <2>1 DEF FillTarget
  <2>3. p \in Orders /\ p.status = FillTarget(o, q) /\ p.qty = o.qty
        /\ p.filled = f
    BY <2>1, <2>2 DEF Statuses
  <2>4. GoodOrder(p)
    BY <2>1, <2>2, <2>3
  <2> QED
    BY <1>2, <2>4 DEF ApplyFill
<1> QED
  BY <1>1, <1>2

\* Neither transition() nor apply_fill() moves an order out of a terminal
\* status, or changes its quantities there.
LEMMA TerminalFrozen ==
    ASSUME NEW o, IsTerminal(o.status)
    PROVE  /\ \A new : ~CanTransition(o, new)
           /\ \A new : Transition(o, new) = o
           /\ \A q : ~CanFill(o, q) /\ ApplyFill(o, q) = o
  BY DEF IsTerminal, IsActive, CanTransition, NextStatuses, Transition,
         CanFill, ApplyFill

-----------------------------------------------------------------------------
(* Type correctness and StatusMatchesQuantity are proved together.         *)

StatusInv ==
    /\ TypeOK
    /\ \A id \in InMap : GoodOrder(Order(id))

\* An order in the map has an id, a slot and an Order in it.
LEMMA MapTypes ==
    ASSUME TypeOK, NEW id \in InMap
    PROVE  id \in Ids /\ orders[id] \in Slots /\ Order(id) \in Orders
  BY DEF TypeOK, PoolTypes, Order

\* What a report of order id does to the pool: nothing, or it replaces the
\* contents of id's own slot by a good order, frozen if id was terminal.
OwnSlotOnly(id) ==
    /\ id \in InMap
    /\ storage' \in [Slots -> Orders]
    /\ \A s \in Slots : s # orders[id] => storage'[s] = storage[s]
    /\ GoodOrder(storage'[orders[id]])
    /\ IsTerminal(Order(id).status) =>
            /\ storage'[orders[id]].status = Order(id).status
            /\ storage'[orders[id]].filled = Order(id).filled

\* Writing a good order into id's slot touches no other slot.
LEMMA OwnSlotUpdate ==
    ASSUME StatusInv, NEW id \in InMap, NEW o, GoodOrder(o),
           storage' = [storage EXCEPT ![orders[id]] = o],
           IsTerminal(Order(id).status) =>
                o.status = Order(id).status /\ o.filled = Order(id).filled
    PROVE  OwnSlotOnly(id)
<1>1. orders[id] \in Slots /\ storage \in [Slots -> Orders] /\ o \in Orders
  BY MapTypes DEF StatusInv, TypeOK, PoolTypes, GoodOrder
<1>2. storage' \in [Slots -> Orders] /\ storage'[orders[id]] = o
  BY <1>1
<1>3. \A s \in Slots : s # orders[id] => storage'[s] = storage[s]
  BY <1>1
<1> QED
  BY <1>2, <1>3 DEF OwnSlotOnly

\* on_ack, on_fill and on_cancel_ack write at most the slot of their own order.
LEMMA HandleEffect ==
    ASSUME StatusInv, NEW id \in Ids, NEW r \in Reports, Handle(id, r)
    PROVE  storage' = storage \/ OwnSlotOnly(id)
<1> USE DEF StatusInv
<1>0. SUFFICES ASSUME storage' # storage PROVE OwnSlotOnly(id)
  OBVIOUS
<1>1. CASE r.kind = "ack" /\ OnAck(id, r.status)
  <2>1. id \in InMap
    BY <1>0, <1>1 DEF OnAck
  <2>2. r.status \in {"NEW", "REJECTED"}
    BY <1>1 DEF Reports
  <2> DEFINE e == IF r.status = "NEW" THEN 1 ELSE 0
             p == [Order(id) EXCEPT !.exchId = e]
             o == Transition(p, r.status)
  <2>3. GoodOrder(p) /\ p.status = Order(id).status
        /\ p.filled = Order(id).filled
    BY <2>1 DEF GoodOrder, Orders
  <2>4. GoodOrder(o)
    BY <2>2, <2>3, TransitionGood
  <2>5. IsTerminal(Order(id).status) => o = p
    BY <2>3, TerminalFrozen
  <2>6. storage' = [storage EXCEPT ![orders[id]] = o]
    BY <1>1, <2>1, MapTypes DEF OnAck, Order, TypeOK, PoolTypes
  <2>7. IsTerminal(Order(id).status) =>
          o.status = Order(id).status /\ o.filled = Order(id).filled
    BY <2>3, <2>5
  <2> HIDE DEF o
  <2> QED
    BY <2>1, <2>4, <2>6, <2>7, OwnSlotUpdate
<1>2. CASE r.kind = "fill" /\ OnFill(id, r.qty)
  <2> DEFINE o == ApplyFill(Order(id), r.qty)
  <2>1. id \in InMap /\ storage' = [storage EXCEPT ![orders[id]] = o]
    BY <1>0, <1>2, MapTypes DEF OnFill, Order, TypeOK, PoolTypes
  <2>2. r.qty \in Qtys
    BY <1>2 DEF Reports
  <2>3. GoodOrder(o)
    BY <2>1, <2>2, ApplyFillGood
  <2>4. IsTerminal(Order(id).status) => o = Order(id)
    BY TerminalFrozen
  <2> HIDE DEF o
  <2> QED
    BY <2>1, <2>3, <2>4, OwnSlotUpdate
<1>3. CASE r.kind = "cancel_ack" /\ OnCancelAck(id)
  <2> DEFINE o == Transition(Order(id), "CANCELLED")
  <2>1. id \in InMap
    BY <1>0, <1>3 DEF OnCancelAck
  <2>2. storage' = [storage EXCEPT ![orders[id]] = o]
    BY <1>3, <2>1, MapTypes DEF OnCancelAck, Order, TypeOK, PoolTypes
  <2>3. GoodOrder(o)
    BY <2>1, TransitionGood
  <2>4. IsTerminal(Order(id).status) => o = Order(id)
    BY TerminalFrozen
  <2> HIDE DEF o
  <2> QED
    BY <2>1, <2>2, <2>3, <2>4, OwnSlotUpdate
<1> QED
  BY <1>1, <1>2, <1>3 DEF Handle

\* A step that rewrites one order's slot and keeps the map keeps all orders good.
LEMMA OwnSlotGood ==
    ASSUME StatusInv, NEW id \in InMap, OwnSlotOnly(id), orders' = orders
    PROVE  \A a \in InMap' : GoodOrder(Order(a))'
<1>1. ASSUME NEW a \in InMap PROVE GoodOrder(storage'[orders[a]])
  <2>1. orders[a] \in Slots /\ GoodOrder(storage[orders[a]])
    BY MapTypes DEF StatusInv, Order
  <2> QED
    BY <2>1 DEF OwnSlotOnly
<1> QED
  BY <1>1 DEF InMap, Order, GoodOrder

\* What a report does to the tracker's variables keeps their types.
LEMMA HandleTracker ==
    ASSUME StatusInv, NEW id \in Ids, NEW r \in Reports, Handle(id, r)
    PROVE  TrackTypes'
<1> USE DEF TrackTypes
<1>0. TrackTypes
  BY DEF StatusInv, TypeOK
<1>1. CASE UNCHANGED trackVars
  BY <1>0, <1>1 DEF trackVars
<1>2. CASE /\ r.kind = "fill" /\ id \in InMap
           /\ booked' = [booked EXCEPT ![id] = FilledAfter(Order(id), r.qty)]
           /\ TrackerOnFill(id, r.qty)
  <2>1. r.qty \in Qtys
    BY <1>2 DEF Reports
  <2>2. [id |-> id, qty |-> r.qty] \in Fills
    BY <2>1 DEF Fills
  <2>3. Order(id).qty \in 0 .. MaxQty /\ Order(id).filled \in 0 .. MaxQty
    BY <1>2, MapTypes DEF StatusInv, Orders
  <2>4. FilledAfter(Order(id), r.qty) \in 0 .. MaxQty
    BY <2>1, <2>3, BoundsAssumption DEF FilledAfter, Qtys
  <2>5. booked' \in [Ids -> 0 .. MaxQty]
    BY <1>0, <1>2, <2>4
  <2>6. fillQueue' = fillQueue
        \/ fillQueue' = Append(fillQueue, [id |-> id, qty |-> r.qty])
    BY <1>2 DEF TrackerOnFill
  <2>7. fillQueue' \in Seq(Fills)
    BY <1>0, <2>2, <2>6
  <2>8. fillCount' \in Nat /\ filledQty' \in Nat /\ popped' \in Nat
        /\ dropped' \in Nat
    BY <1>0, <1>2, <2>1, BoundsAssumption DEF TrackerOnFill, Qtys
  <2> QED
    BY <2>5, <2>7, <2>8
<1> QED
  BY <1>1, <1>2 DEF Handle, OnAck, OnFill, OnCancelAck

\* A report is delivered: what the action changes besides wire and dups.
LEMMA HandleStatusInv ==
    ASSUME StatusInv, NEW id \in Ids, NEW r \in Reports, Handle(id, r),
           UNCHANGED <<orders, free, nextId>>, EnvTypes'
    PROVE  StatusInv'
<1>1. TrackTypes'
  BY HandleTracker
<1>2. CASE storage' = storage
  BY <1>1, <1>2 DEF StatusInv, TypeOK, PoolTypes, InMap, Order
<1>3. CASE OwnSlotOnly(id)
  <2>1. id \in InMap /\ storage' \in [Slots -> Orders]
    BY <1>3 DEF OwnSlotOnly
  <2>2. PoolTypes'
    BY <2>1 DEF StatusInv, TypeOK, PoolTypes, InMap
  <2>3. \A a \in InMap' : GoodOrder(Order(a))'
    BY <1>3, <2>1, OwnSlotGood
  <2> QED
    BY <1>1, <2>2, <2>3 DEF StatusInv, TypeOK
<1> QED
  BY <1>2, <1>3, HandleEffect

-----------------------------------------------------------------------------
(* The remaining actions, one lemma each.                                  *)

\* The constructor's state: an empty map.
LEMMA InitStatus == Init => StatusInv
<1> SUFFICES ASSUME Init PROVE StatusInv
  OBVIOUS
<1> USE BoundsAssumption DEF Init
<1>1. NoOrder \in Orders
  BY DEF NoOrder, Orders, Statuses
<1>2. PoolTypes
  BY <1>1 DEF PoolTypes, InMap, Ids, Slots
<1>3. TrackTypes
  BY DEF TrackTypes
<1>4. EnvTypes
  BY DEF EnvTypes, Books
<1>5. InMap = {}
  BY DEF InMap
<1> QED
  BY <1>2, <1>3, <1>4, <1>5 DEF StatusInv, TypeOK

\* submit puts a PENDING_NEW order with nothing filled into a free slot.
LEMMA SubmitStatus ==
    ASSUME StatusInv, NEW q \in Qtys, Submit(q)
    PROVE  StatusInv'
<1> USE BoundsAssumption
<1> DEFINE s == Head(free)
           o == [status |-> "PENDING_NEW", qty |-> q, filled |-> 0, exchId |-> 0]
<1>0. PoolTypes /\ TrackTypes /\ EnvTypes /\ nextId \in Ids
  BY DEF StatusInv, TypeOK, Submit
<1>1. s \in Slots /\ Tail(free) \in Seq(Slots)
  BY <1>0 DEF Submit, PoolTypes
<1>2. GoodOrder(o)
  BY DEF GoodOrder, Orders, Statuses, Qtys
<1>3. storage' = [storage EXCEPT ![s] = o] /\ free' = Tail(free)
  BY DEF Submit, Acquire, Acquired
<1>4. InMap' = InMap \cup {nextId}
      /\ orders' = [id \in InMap \cup {nextId} |->
                      IF id = nextId THEN s ELSE orders[id]]
  BY DEF Submit, Acquired, InMap
<1>5. PoolTypes'
  <2>1. InMap' \subseteq Ids /\ orders' \in [InMap' -> Slots]
    BY <1>0, <1>1, <1>4 DEF PoolTypes
  <2>2. storage' \in [Slots -> Orders]
    BY <1>0, <1>1, <1>2, <1>3 DEF PoolTypes, GoodOrder
  <2>3. nextId' \in 1 .. MaxOrders + 1
    BY <1>0 DEF Submit, Ids
  <2> QED
    BY <1>1, <1>3, <2>1, <2>2, <2>3 DEF PoolTypes
<1>6. TrackTypes'
  BY <1>0 DEF Submit, trackVars, TrackTypes
<1>7. EnvTypes'
  <2>1. exch[nextId] \in Books
    BY <1>0 DEF EnvTypes
  <2>2. [exch[nextId] EXCEPT !.state = "sent", !.qty = q] \in Books
    <3> DEFINE b == [exch[nextId] EXCEPT !.state = "sent"]
    <3>1. q \in 0 .. MaxQty
      BY DEF Qtys
    <3>2. b \in Books
      BY <2>1 DEF Books
    <3>3. [b EXCEPT !.qty = q] \in Books
      BY <3>1, <3>2 DEF Books
    <3> QED
      BY <3>3
  <2>3. exch' = [exch EXCEPT ![nextId] =
                   [exch[nextId] EXCEPT !.state = "sent", !.qty = q]]
    BY <1>0 DEF Submit, EnvTypes
  <2> QED
    BY <1>0, <2>2, <2>3 DEF Submit, EnvTypes
<1>8. ASSUME NEW a \in InMap' PROVE GoodOrder(storage'[orders'[a]])
  <2>1. CASE a = nextId
    BY <1>0, <1>1, <1>2, <1>3, <1>4, <2>1 DEF PoolTypes
  <2>2. CASE a # nextId
    <3>1. a \in InMap /\ orders'[a] = orders[a]
      BY <1>4, <1>8, <2>2
    <3>2. orders[a] \in Slots /\ GoodOrder(storage[orders[a]])
      BY <3>1, MapTypes DEF StatusInv, Order
    <3> QED
      BY <1>0, <1>2, <1>3, <3>1, <3>2 DEF PoolTypes
  <2> QED
    BY <2>1, <2>2
<1>9. \A a \in InMap' : GoodOrder(Order(a))'
  BY <1>8 DEF Order, GoodOrder
<1> QED
  BY <1>5, <1>6, <1>7, <1>9 DEF StatusInv, TypeOK

\* release only forgets.
LEMMA ReleaseStatus ==
    ASSUME StatusInv, NEW id \in Ids, Release(id)
    PROVE  StatusInv'
<1>0. PoolTypes /\ TrackTypes /\ EnvTypes /\ id \in InMap
  BY DEF StatusInv, TypeOK, Release
<1>1. InMap' = InMap \ {id} /\ orders' = [i \in InMap \ {id} |-> orders[i]]
      /\ storage' = storage
  BY DEF Release, InMap
<1>2. free' \in Seq(Slots)
  BY <1>0, MapTypes DEF Release, ReleaseSlot, PoolTypes, StatusInv
<1>3. PoolTypes'
  BY <1>0, <1>1, <1>2 DEF PoolTypes, Release
<1>4. TrackTypes' /\ EnvTypes'
  BY <1>0 DEF Release, trackVars, envVars, TrackTypes, EnvTypes
<1>5. \A a \in InMap' : GoodOrder(Order(a))'
  BY <1>1 DEF StatusInv, Order, GoodOrder
<1> QED
  BY <1>3, <1>4, <1>5 DEF StatusInv, TypeOK

\* A cancel request rewrites the order's own slot.
LEMMA RequestCancelEffect ==
    ASSUME StatusInv, NEW id \in Ids, RequestCancel(id)
    PROVE  OwnSlotOnly(id)
<1> DEFINE o == Transition(Order(id), "PENDING_CANCEL")
<1>0. PoolTypes /\ id \in InMap
  BY DEF StatusInv, TypeOK, RequestCancel
<1>1. GoodOrder(o)
  BY <1>0, TransitionGood DEF StatusInv
<1>2. storage' = [storage EXCEPT ![orders[id]] = o]
  BY <1>0, MapTypes DEF RequestCancel, Order, PoolTypes, InMap
<1>3. IsTerminal(Order(id).status) => o = Order(id)
  BY TerminalFrozen
<1> HIDE DEF o
<1> QED
  BY <1>0, <1>1, <1>2, <1>3, OwnSlotUpdate

\* A cancel request keeps status and quantity in agreement.
LEMMA RequestCancelStatus ==
    ASSUME StatusInv, NEW id \in Ids, RequestCancel(id)
    PROVE  StatusInv'
<1>0. PoolTypes /\ TrackTypes /\ EnvTypes /\ id \in InMap /\ orders' = orders
  BY DEF StatusInv, TypeOK, RequestCancel
<1>1. OwnSlotOnly(id)
  BY RequestCancelEffect
<1>2. PoolTypes'
  BY <1>0, <1>1 DEF PoolTypes, RequestCancel, OwnSlotOnly, InMap
<1>3. TrackTypes' /\ EnvTypes'
  BY <1>0 DEF RequestCancel, trackVars, TrackTypes, EnvTypes, Books
<1>4. \A a \in InMap' : GoodOrder(Order(a))'
  BY <1>0, <1>1, OwnSlotGood
<1> QED
  BY <1>2, <1>3, <1>4 DEF StatusInv, TypeOK

\* A step of the exchange or the position layer does not touch the orders.
LEMMA PoolUntouched ==
    ASSUME StatusInv, UNCHANGED omsVars, TrackTypes', EnvTypes'
    PROVE  StatusInv'
<1>1. PoolTypes'
  BY DEF StatusInv, TypeOK, PoolTypes, omsVars, InMap
<1>2. \A a \in InMap' : GoodOrder(Order(a))'
  BY DEF StatusInv, omsVars, InMap, Order, GoodOrder
<1> QED
  BY <1>1, <1>2 DEF StatusInv, TypeOK

\* What the exchange sends is a report.
LEMMA ReportTypes ==
    ASSUME StatusInv, NEW id \in Ids, NEW r \in Reports, Report(id, r)
    PROVE  wire' \in [Ids -> Seq(Reports)]
<1>1. wire \in [Ids -> Seq(Reports)]
  BY DEF StatusInv, TypeOK, EnvTypes
<1>2. Append(wire[id], r) \in Seq(Reports)
  BY <1>1
<1>3. wire' = [wire EXCEPT ![id] = Append(wire[id], r)]
  BY <1>1 DEF Report
<1> QED
  BY <1>1, <1>2, <1>3

\* The exchange's actions leave OMS alone.
LEMMA ExchangeStatus ==
    ASSUME StatusInv, NEW id \in Ids,
           \/ ExchangeAccepts(id) \/ ExchangeRejects(id) \/ ExchangeCancels(id)
           \/ \E q \in Qtys : ExchangeFills(id, q)
    PROVE  StatusInv'
<1> USE BoundsAssumption
<1>0. /\ exch \in [Ids -> Books] /\ exch[id] \in Books
      /\ dups \in 0 .. MaxDup /\ mixed \subseteq Ids /\ TrackTypes
  BY DEF StatusInv, TypeOK, EnvTypes
<1>1. CASE ExchangeAccepts(id)
  <2>1. [kind |-> "ack", status |-> "NEW"] \in Reports
    BY DEF Reports
  <2>2. wire' \in [Ids -> Seq(Reports)]
    BY <1>1, <2>1, ReportTypes DEF ExchangeAccepts
  <2>3. EnvTypes'
    BY <1>0, <1>1, <2>2 DEF ExchangeAccepts, EnvTypes, Books
  <2> QED
    BY <1>0, <1>1, <2>3, PoolUntouched DEF ExchangeAccepts, TrackTypes, trackVars
<1>2. CASE ExchangeRejects(id)
  <2>1. [kind |-> "ack", status |-> "REJECTED"] \in Reports
    BY DEF Reports
  <2>2. wire' \in [Ids -> Seq(Reports)]
    BY <1>2, <2>1, ReportTypes DEF ExchangeRejects
  <2>3. EnvTypes'
    BY <1>0, <1>2, <2>2 DEF ExchangeRejects, EnvTypes, Books
  <2> QED
    BY <1>0, <1>2, <2>3, PoolUntouched DEF ExchangeRejects, TrackTypes, trackVars
<1>3. CASE ExchangeCancels(id)
  <2>1. [kind |-> "cancel_ack"] \in Reports
    BY DEF Reports
  <2>2. wire' \in [Ids -> Seq(Reports)]
    BY <1>3, <2>1, ReportTypes DEF ExchangeCancels
  <2>3. EnvTypes'
    BY <1>0, <1>3, <2>2 DEF ExchangeCancels, EnvTypes, Books
  <2> QED
    BY <1>0, <1>3, <2>3, PoolUntouched DEF ExchangeCancels, TrackTypes, trackVars
<1>4. ASSUME NEW q \in Qtys, ExchangeFills(id, q) PROVE StatusInv'
  <2>1. [kind |-> "fill", qty |-> q] \in Reports
    BY DEF Reports
  <2>2. wire' \in [Ids -> Seq(Reports)]
    BY <1>4, <2>1, ReportTypes DEF ExchangeFills
  <2> DEFINE x == IF exch[id].filled + q = exch[id].qty THEN "done" ELSE "live"
             b == [exch[id] EXCEPT !.filled = exch[id].filled + q]
             c == [b EXCEPT !.state = x]
  <2>a. exch[id].filled \in 0 .. MaxQty /\ exch[id].qty \in 0 .. MaxQty
    BY <1>0 DEF Books
  <2>b. q \in Nat /\ exch[id].filled + q <= exch[id].qty
    BY <1>4 DEF ExchangeFills, Qtys
  <2>3. exch[id].filled + q \in 0 .. MaxQty
    BY <2>a, <2>b
  <2>4. b \in Books
    BY <1>0, <2>3 DEF Books
  <2>5. c \in Books
    BY <2>4 DEF Books
  <2>6. exch' = [exch EXCEPT ![id] = c]
    BY <1>0, <1>4 DEF ExchangeFills
  <2> HIDE DEF c, b
  <2>c. exch' \in [Ids -> Books]
    BY <1>0, <2>5, <2>6
  <2>d. dups' = dups /\ mixed' = mixed
    BY <1>4 DEF ExchangeFills
  <2>7. EnvTypes'
    BY <1>0, <2>2, <2>c, <2>d DEF EnvTypes
  <2> QED
    BY <1>0, <1>4, <2>7, PoolUntouched DEF ExchangeFills, TrackTypes, trackVars
<1> QED
  BY <1>1, <1>2, <1>3, <1>4

\* A delivered report, in or out of turn, once or twice.
LEMMA DeliverStatus ==
    ASSUME StatusInv, NEW id \in Ids, NEW i \in Nat,
           Deliver(id, i) \/ DeliverDuplicate(id, i)
    PROVE  StatusInv'
<1> USE BoundsAssumption
<1>0. EnvTypes /\ wire[id] \in Seq(Reports) /\ i \in DOMAIN wire[id]
  BY DEF StatusInv, TypeOK, EnvTypes, Deliver, DeliverDuplicate
<1>1. wire[id][i] \in Reports
  BY <1>0
<1>2. CASE Deliver(id, i)
  <2>1. RemoveAt(wire[id], i) \in Seq(Reports)
    BY <1>0 DEF RemoveAt
  <2>2. EnvTypes'
    BY <1>0, <1>2, <2>1 DEF Deliver, EnvTypes
  <2> QED
    BY <1>1, <1>2, <2>2, HandleStatusInv DEF Deliver
<1>3. CASE DeliverDuplicate(id, i)
  <2>1. EnvTypes'
    BY <1>0, <1>3 DEF DeliverDuplicate, EnvTypes
  <2> QED
    BY <1>1, <1>3, <2>1, HandleStatusInv DEF DeliverDuplicate
<1> QED
  BY <1>2, <1>3

\* pop_fill leaves the orders alone.
LEMMA PopFillStatus ==
    ASSUME StatusInv, PopFill
    PROVE  StatusInv'
<1>1. TrackTypes /\ EnvTypes
  BY DEF StatusInv, TypeOK
<1>2. Tail(fillQueue) \in Seq(Fills)
  BY <1>1 DEF PopFill, TrackTypes
<1>3. TrackTypes'
  BY <1>1, <1>2 DEF PopFill, TrackTypes
<1>4. EnvTypes'
  BY <1>1 DEF PopFill, EnvTypes, envVars
<1> QED
  BY <1>3, <1>4, PoolUntouched DEF PopFill

\* Every step keeps types and agreement.
LEMMA NextStatus == StatusInv /\ [Next]_vars => StatusInv'
<1> SUFFICES ASSUME StatusInv, [Next]_vars PROVE StatusInv'
  OBVIOUS
<1>1. ASSUME NEW q \in Qtys, Submit(q) PROVE StatusInv'
  BY <1>1, SubmitStatus
<1>2. CASE PopFill
  BY <1>2, PopFillStatus
<1>3. ASSUME NEW id \in Ids, Release(id) PROVE StatusInv'
  BY <1>3, ReleaseStatus
<1>4. ASSUME NEW id \in Ids, RequestCancel(id) PROVE StatusInv'
  BY <1>4, RequestCancelStatus
<1>5. ASSUME NEW id \in Ids,
             \/ ExchangeAccepts(id) \/ ExchangeRejects(id) \/ ExchangeCancels(id)
             \/ \E q \in Qtys : ExchangeFills(id, q)
      PROVE  StatusInv'
  BY <1>5, ExchangeStatus
<1>6. ASSUME NEW id \in Ids, NEW i \in 1 .. MaxReports,
             Deliver(id, i) \/ DeliverDuplicate(id, i)
      PROVE  StatusInv'
  <2>1. i \in Nat
    BY BoundsAssumption DEF MaxReports
  <2> QED
    BY <1>6, <2>1, DeliverStatus
<1>7. CASE UNCHANGED vars
  <2>1. TrackTypes' /\ EnvTypes'
    BY <1>7 DEF StatusInv, TypeOK, vars, trackVars, envVars, TrackTypes, EnvTypes
  <2> QED
    BY <1>7, <2>1, PoolUntouched DEF vars
<1> QED
  BY <1>1, <1>2, <1>3, <1>4, <1>5, <1>6, <1>7 DEF Next

\* Every variable keeps its type: no order exceeds its size, whatever the wire
\* does with the reports.
THEOREM TypeCorrect == Spec => []TypeOK
<1>1. StatusInv => TypeOK
  BY DEF StatusInv
<1> QED
  BY <1>1, InitStatus, NextStatus, PTL DEF Spec

\* OrderStateMachine keeps status and filled quantity of every order in the map
\* in agreement, with reports reordered, repeated, or late.
THEOREM StatusAgreement == Spec => []StatusMatchesQuantity
<1>1. StatusInv => StatusMatchesQuantity
  BY DEF StatusInv, StatusMatchesQuantity, GoodOrder
<1> QED
  BY <1>1, InitStatus, NextStatus, PTL DEF Spec

-----------------------------------------------------------------------------
(* The pool: no slot is free twice, in use twice, or free and in use.      *)

PoolInv ==
    /\ StatusInv
    /\ PoolPartition
    /\ \A id \in InMap : id < nextId

\* The map is finite, so that its size changes by one with one id.
LEMMA MapIsFinite == TypeOK => IsFiniteSet(InMap)
<1>1. IsFiniteSet(Ids)
  BY BoundsAssumption, FS_Interval DEF Ids
<1> QED
  BY <1>1, FS_Subset DEF TypeOK, PoolTypes

\* The initial pool: every slot is free.
LEMMA InitPool == Init => PoolInv
<1>. SUFFICES ASSUME Init PROVE PoolInv
  OBVIOUS
<1>1. StatusInv
  BY InitStatus
<1>2. InMap = {} /\ free = [s \in Slots |-> s]
  BY DEF Init, InMap
<1>3. free \in Seq(Slots) /\ Len(free) = PoolSize /\ DOMAIN free = Slots
  BY <1>2, BoundsAssumption DEF Slots
<1>4. Cardinality(InMap) = 0
  BY <1>2, FS_EmptySet
<1>5. PoolPartition
  BY <1>2, <1>3, <1>4, BoundsAssumption DEF PoolPartition
<1> QED
  BY <1>1, <1>2, <1>5 DEF PoolInv

\* submit moves the head of the free list into the map, under a new id.
LEMMA SubmitPool ==
    ASSUME PoolInv, NEW q \in Qtys, Submit(q)
    PROVE  PoolInv'
<1>. DEFINE n == Len(free)
<1>0. StatusInv /\ PoolTypes /\ nextId \in Ids /\ nextId \in Nat /\ TypeOK
  BY DEF PoolInv, StatusInv, TypeOK, Submit, Ids
<1>1. StatusInv'
  BY <1>0, SubmitStatus
<1>2. /\ InMap' = InMap \cup {nextId} /\ free' = Tail(free)
      /\ orders' = [id \in InMap \cup {nextId} |->
                      IF id = nextId THEN Head(free) ELSE orders[id]]
      /\ nextId' = nextId + 1
  BY DEF Submit, Acquire, Acquired, InMap
<1>3. /\ nextId \notin InMap /\ \A id \in InMap : id \in Nat /\ id < nextId
  BY <1>0 DEF PoolInv, PoolTypes, Ids
<1>4. /\ free \in Seq(Slots) /\ n \in Nat /\ n >= 1 /\ Head(free) = free[1]
      /\ free' \in Seq(Slots) /\ Len(free') = n - 1
      /\ \A i \in 1 .. n - 1 : free'[i] = free[i + 1] /\ i + 1 \in DOMAIN free
      /\ DOMAIN free' = 1 .. n - 1 /\ DOMAIN free = 1 .. n
  BY <1>0, <1>2 DEF PoolTypes, Submit
<1>. HIDE DEF n
<1>5. /\ \A i, j \in DOMAIN free : free[i] = free[j] => i = j
      /\ \A a, b \in InMap : orders[a] = orders[b] => a = b
      /\ \A i \in DOMAIN free, a \in InMap : free[i] # orders[a]
      /\ n + Cardinality(InMap) = PoolSize
  BY DEF PoolInv, PoolPartition, n
<1>6. \A i, j \in DOMAIN free' : free'[i] = free'[j] => i = j
  <2>. SUFFICES ASSUME NEW i \in 1 .. n - 1, NEW j \in 1 .. n - 1, free'[i] = free'[j]
                PROVE  i = j
    BY <1>4
  <2>1. free[i + 1] = free[j + 1] /\ i + 1 \in DOMAIN free /\ j + 1 \in DOMAIN free
    BY <1>4
  <2>2. i + 1 = j + 1
    BY <2>1, <1>5
  <2> QED BY <2>2, <1>4
<1>7. ASSUME NEW i \in DOMAIN free' PROVE free'[i] # free[1]
  <2>1. i \in Nat /\ i >= 1 /\ free'[i] = free[i + 1] /\ i + 1 \in DOMAIN free
    BY <1>4
  <2>2. 1 \in DOMAIN free /\ i + 1 # 1
    BY <2>1, <1>4
  <2> QED BY <2>1, <2>2, <1>5
<1>8. \A a, b \in InMap' : orders'[a] = orders'[b] => a = b
  <2>1. 1 \in DOMAIN free
    BY <1>4
  <2> QED BY <2>1, <1>2, <1>3, <1>4, <1>5
<1>9. \A i \in DOMAIN free', a \in InMap' : free'[i] # orders'[a]
  <2>. SUFFICES ASSUME NEW i \in DOMAIN free', NEW a \in InMap'
                PROVE  free'[i] # orders'[a]
    OBVIOUS
  <2>1. CASE a = nextId
    BY <2>1, <1>2, <1>4, <1>7
  <2>2. CASE a # nextId
    <3>1. a \in InMap /\ orders'[a] = orders[a]
      BY <2>2, <1>2
    <3>2. free'[i] = free[i + 1] /\ i + 1 \in DOMAIN free
      BY <1>4
    <3> QED BY <3>1, <3>2, <1>5
  <2> QED BY <2>1, <2>2
<1>10. Len(free') + Cardinality(InMap') = PoolSize
  <2>1. IsFiniteSet(InMap)
    BY <1>0, MapIsFinite
  <2>2. Cardinality(InMap') = Cardinality(InMap) + 1 /\ Cardinality(InMap) \in Nat
    BY <2>1, <1>2, <1>3, FS_AddElement, FS_CardinalityType
  <2> QED BY <2>2, <1>4, <1>5
<1>11. \A id \in InMap' : id < nextId'
  BY <1>0, <1>2, <1>3
<1> QED
  BY <1>1, <1>6, <1>8, <1>9, <1>10, <1>11 DEF PoolInv, PoolPartition

\* release moves a slot of the map back to the front of the free list.
LEMMA ReleasePool ==
    ASSUME PoolInv, NEW id \in Ids, Release(id)
    PROVE  PoolInv'
<1>. DEFINE n == Len(free)
            s == orders[id]
<1>0. StatusInv /\ PoolTypes /\ TypeOK /\ id \in InMap
  BY DEF PoolInv, StatusInv, TypeOK, Release
<1>1. StatusInv'
  BY <1>0, ReleaseStatus
<1>2. /\ InMap' = InMap \ {id} /\ free' = <<s>> \o free /\ nextId' = nextId
      /\ orders' = [i \in InMap \ {id} |-> orders[i]]
  BY DEF Release, ReleaseSlot, InMap
<1>3. s \in Slots
  BY <1>0, MapTypes
<1>. HIDE DEF s
<1>4. /\ free \in Seq(Slots) /\ n \in Nat
      /\ Len(free') = n + 1 /\ DOMAIN free' = 1 .. n + 1 /\ DOMAIN free = 1 .. n
      /\ free'[1] = s /\ \A i \in 2 .. n + 1 : free'[i] = free[i - 1] /\ i - 1 \in DOMAIN free
  BY <1>0, <1>2, <1>3 DEF PoolTypes
<1>. HIDE DEF n
<1>5. /\ \A i, j \in DOMAIN free : free[i] = free[j] => i = j
      /\ \A a, b \in InMap : orders[a] = orders[b] => a = b
      /\ \A i \in DOMAIN free, a \in InMap : free[i] # orders[a]
      /\ n + Cardinality(InMap) = PoolSize
  BY DEF PoolInv, PoolPartition, n
<1>6. ASSUME NEW i \in 1 .. n + 1, i # 1
      PROVE  i \in 2 .. n + 1 /\ free'[i] = free[i - 1] /\ i - 1 \in DOMAIN free /\ free'[i] # s
  <2>1. i \in 2 .. n + 1
    BY <1>4, <1>6
  <2> QED BY <2>1, <1>0, <1>4, <1>5 DEF s
<1>7. \A i, j \in DOMAIN free' : free'[i] = free'[j] => i = j
  <2>. SUFFICES ASSUME NEW i \in 1 .. n + 1, NEW j \in 1 .. n + 1, free'[i] = free'[j]
                PROVE  i = j
    BY <1>4
  <2>1. CASE i = 1 \/ j = 1
    BY <2>1, <1>4, <1>6
  <2>2. CASE i # 1 /\ j # 1
    <3>1. i - 1 = j - 1
      BY <2>2, <1>5, <1>6
    <3> QED BY <3>1, <1>4
  <2> QED BY <2>1, <2>2
<1>8. \A a, b \in InMap' : orders'[a] = orders'[b] => a = b
  BY <1>2, <1>5
<1>9. \A i \in DOMAIN free', a \in InMap' : free'[i] # orders'[a]
  <2>. SUFFICES ASSUME NEW i \in 1 .. n + 1, NEW a \in InMap, a # id
                PROVE  free'[i] # orders[a]
    BY <1>2, <1>4
  <2>1. CASE i = 1
    BY <2>1, <1>0, <1>4, <1>5 DEF s
  <2>2. CASE i # 1
    BY <2>2, <1>5, <1>6
  <2> QED BY <2>1, <2>2
<1>10. Len(free') + Cardinality(InMap') = PoolSize
  <2>1. IsFiniteSet(InMap)
    BY <1>0, MapIsFinite
  <2>2. Cardinality(InMap') = Cardinality(InMap) - 1 /\ Cardinality(InMap) \in Nat
    BY <2>1, <1>0, <1>2, FS_RemoveElement, FS_CardinalityType
  <2> QED BY <2>2, <1>4, <1>5
<1>11. \A a \in InMap' : a < nextId'
  BY <1>2 DEF PoolInv
<1> QED
  BY <1>1, <1>7, <1>8, <1>9, <1>10, <1>11 DEF PoolInv, PoolPartition

\* Every step keeps the pool partitioned.
LEMMA NextPool == PoolInv /\ [Next]_vars => PoolInv'
<1>. SUFFICES ASSUME PoolInv, [Next]_vars PROVE PoolInv'
  OBVIOUS
<1>1. StatusInv'
  BY NextStatus DEF PoolInv
<1>2. ASSUME NEW q \in Qtys, Submit(q) PROVE PoolInv'
  BY <1>2, SubmitPool
<1>3. ASSUME NEW id \in Ids, Release(id) PROVE PoolInv'
  BY <1>3, ReleasePool
<1>4. CASE UNCHANGED <<orders, free, nextId>>
  BY <1>1, <1>4 DEF PoolInv, PoolPartition, InMap
<1>5. ASSUME ~UNCHANGED <<orders, free, nextId>>
      PROVE  (\E q \in Qtys : Submit(q)) \/ (\E id \in Ids : Release(id))
  BY <1>5 DEF Next, vars, omsVars, PopFill, RequestCancel, ExchangeAccepts,
     ExchangeRejects, ExchangeFills, ExchangeCancels, Deliver, DeliverDuplicate
<1> QED
  BY <1>2, <1>3, <1>4, <1>5

\* The slots of OMS's MemoryPool are partitioned at every moment: a slot is on
\* the free list once, or the home of exactly one order, and none is lost.
THEOREM PoolIsPartitioned == Spec => []PoolPartition
<1>1. PoolInv => PoolPartition
  BY DEF PoolInv
<1> QED
  BY <1>1, InitPool, NextPool, PTL DEF Spec

-----------------------------------------------------------------------------
(* What a step may do to an order that stays in the map.                   *)

\* The actions that reach order id: its own reports and cancel requests.
OwnStep(id) ==
    \/ RequestCancel(id)
    \/ \E i \in 1 .. MaxReports : Deliver(id, i) \/ DeliverDuplicate(id, i)

\* An order keeps its slot while it stays in the map, and only its own step
\* changes what is in it.
LEMMA OrderKept ==
    ASSUME PoolInv, [Next]_vars, NEW b \in InMap, b \in DOMAIN orders'
    PROVE  /\ orders'[b] = orders[b]
           /\ Order(b)' = Order(b) \/ (OwnStep(b) /\ OwnSlotOnly(b))
<1>. USE DEF PoolInv
<1>0. orders[b] \in Slots /\ PoolTypes
  BY MapTypes DEF StatusInv, TypeOK
<1>1. ASSUME NEW q \in Qtys, Submit(q) PROVE orders'[b] = orders[b] /\ Order(b)' = Order(b)
  <2>1. b \in Ids /\ b < nextId /\ nextId \in Ids
    BY <1>1, MapTypes DEF Submit, StatusInv
  <2>2. orders'[b] = orders[b]
    BY <2>1, <1>1 DEF Submit, Ids
  <2>3. 1 \in DOMAIN free /\ Head(free) = free[1]
    BY <1>0, <1>1 DEF Submit, PoolTypes
  <2>4. Acquired # orders[b]
    BY <2>3 DEF PoolPartition, Acquired
  <2>5. storage'[orders[b]] = storage[orders[b]]
    BY <2>4, <1>0, <1>1 DEF Submit, PoolTypes
  <2> QED BY <2>2, <2>5 DEF Order
<1>2. ASSUME NEW id \in Ids, Release(id) PROVE orders'[b] = orders[b] /\ Order(b)' = Order(b)
  BY <1>2 DEF Release, Order
<1>3. ASSUME NEW id \in Ids, OwnStep(id)
      PROVE  /\ orders'[b] = orders[b]
             /\ Order(b)' = Order(b) \/ (OwnStep(b) /\ OwnSlotOnly(b))
  <2>1. orders' = orders
    BY <1>3 DEF OwnStep, RequestCancel, Deliver, DeliverDuplicate
  <2>2. storage' = storage \/ OwnSlotOnly(id)
    <3>1. CASE RequestCancel(id)
      BY <3>1, RequestCancelEffect
    <3>2. ASSUME NEW i \in 1 .. MaxReports, Deliver(id, i) \/ DeliverDuplicate(id, i)
          PROVE  storage' = storage \/ OwnSlotOnly(id)
      <4>1. wire[id] \in Seq(Reports) /\ i \in DOMAIN wire[id]
        BY <3>2 DEF StatusInv, TypeOK, EnvTypes, Deliver, DeliverDuplicate
      <4>2. wire[id][i] \in Reports /\ Handle(id, wire[id][i])
        BY <4>1, <3>2 DEF Deliver, DeliverDuplicate
      <4> QED BY <4>2, HandleEffect
    <3> QED BY <1>3, <3>1, <3>2 DEF OwnStep
  <2>3. CASE id = b
    BY <2>1, <2>2, <2>3, <1>3 DEF Order
  <2>4. CASE id # b
    <3>1. OwnSlotOnly(id) => orders[id] # orders[b]
      BY <2>4 DEF OwnSlotOnly, PoolPartition
    <3>2. storage'[orders[b]] = storage[orders[b]]
      BY <2>2, <3>1, <1>0 DEF OwnSlotOnly
    <3> QED BY <2>1, <3>2 DEF Order
  <2> QED BY <2>3, <2>4
<1>4. CASE UNCHANGED <<orders, storage>>
  BY <1>4 DEF Order
<1>5. ASSUME ~UNCHANGED <<orders, storage>>
      PROVE  \/ \E q \in Qtys : Submit(q)
             \/ \E id \in Ids : Release(id) \/ OwnStep(id)
  BY <1>5 DEF Next, vars, omsVars, PopFill, ExchangeAccepts, ExchangeRejects,
     ExchangeFills, ExchangeCancels, OwnStep
<1> QED
  BY <1>1, <1>2, <1>3, <1>4, <1>5

\* A late or repeated report, cancel request or cancel confirmation never
\* reopens or changes a FILLED, CANCELLED or REJECTED order.
THEOREM TerminalStays == Spec => TerminalIsFinal
<1>1. ASSUME PoolInv, [Next]_vars, NEW id \in InMap, IsTerminal(Order(id).status),
             id \in DOMAIN orders'
      PROVE  /\ Order(id)'.status = Order(id).status
             /\ Order(id)'.filled = Order(id).filled
  <2>1. CASE Order(id)' = Order(id)
    BY <2>1
  <2>2. CASE OwnSlotOnly(id)
    <3>1. orders'[id] = orders[id]
      BY <1>1, OrderKept
    <3> QED BY <2>2, <3>1, <1>1 DEF OwnSlotOnly, Order
  <2> QED BY <2>1, <2>2, <1>1, OrderKept
<1>2. PoolInv /\ [Next]_vars =>
        [\A id \in InMap :
           (IsTerminal(Order(id).status) /\ id \in DOMAIN orders') =>
              /\ Order(id)'.status = Order(id).status
              /\ Order(id)'.filled = Order(id).filled]_vars
  BY <1>1
<1> QED
  BY <1>2, InitPool, NextPool, PTL DEF Spec, TerminalIsFinal

\* A report delivered for one order changes no other, not even the one that
\* now lives in the slot of a released order.
THEOREM ReportsAreIsolated == Spec => LateReportIsIsolated
<1>1. ASSUME PoolInv, [Next]_vars, NEW a \in Ids, NEW b \in Ids, a # b,
             Len(wire'[a]) < Len(wire[a]), b \in InMap, b \in DOMAIN orders'
      PROVE  Order(b)' = Order(b)
  <2>1. ~OwnStep(b)
    <3>0. wire \in [Ids -> Seq(Reports)]
      BY <1>1 DEF PoolInv, StatusInv, TypeOK, EnvTypes
    <3>1. SUFFICES ASSUME OwnStep(b) PROVE FALSE
      OBVIOUS
    <3>2. wire'[a] = wire[a]
      BY <3>0, <3>1, <1>1 DEF OwnStep, RequestCancel, Deliver, DeliverDuplicate
    <3>3. Len(wire[a]) \in Nat
      BY <3>0
    <3> QED BY <3>2, <3>3, <1>1
  <2> QED BY <2>1, <1>1, OrderKept
<1>2. PoolInv /\ [Next]_vars =>
        [\A a, b \in Ids :
           (/\ a # b /\ Len(wire'[a]) < Len(wire[a])
            /\ b \in InMap /\ b \in DOMAIN orders')
           => Order(b)' = Order(b)]_vars
  BY <1>1
<1> QED
  BY <1>2, InitPool, NextPool, PTL DEF Spec, LateReportIsIsolated

-----------------------------------------------------------------------------
(* The executed lots on an order's wire, and their sum.                    *)

\* What one report, and what all reports of a wire, say was executed.
Lot(r)    == IF r.kind = "fill" THEN r.qty ELSE 0
Lots(w)   == [i \in DOMAIN w |-> Lot(w[i])]
LotSum(w) == SumOver(Lots(w), DOMAIN w)

\* The lots of a wire are natural numbers, at finitely many places.
LEMMA LotsType ==
    ASSUME NEW w \in Seq(Reports)
    PROVE  /\ DOMAIN w = 1 .. Len(w) /\ Len(w) \in Nat /\ IsFiniteSet(DOMAIN w)
           /\ \A i \in DOMAIN w : w[i] \in Reports /\ Lot(w[i]) \in Nat /\ Lots(w)[i] = Lot(w[i])
           /\ LotSum(w) \in Nat
<1>1. DOMAIN w = 1 .. Len(w) /\ Len(w) \in Nat /\ IsFiniteSet(1 .. Len(w))
  BY FS_Interval
<1>2. ASSUME NEW r \in Reports PROVE Lot(r) \in Nat
  <2>1. r.kind = "fill" => r.qty \in Qtys
    BY DEF Reports
  <2> QED BY <2>1, BoundsAssumption DEF Lot, Qtys
<1>3. \A i \in DOMAIN w : w[i] \in Reports /\ Lot(w[i]) \in Nat /\ Lots(w)[i] = Lot(w[i])
  BY <1>1, <1>2 DEF Lots
<1>4. LotSum(w) \in Nat
  BY <1>1, <1>3, SumNat DEF LotSum
<1> QED BY <1>1, <1>3, <1>4

\* InFlight is that sum.
LEMMA InFlightIsSum ==
    ASSUME NEW w \in Seq(Reports)
    PROVE  FoldSeq(LAMBDA r, sum : sum + IF r.kind = "fill" THEN r.qty ELSE 0, 0, w)
             = LotSum(w)
<1>. DEFINE D == DOMAIN w
            Body(it) == [s \in SUBSET D |->
                           IF s = {} THEN 0
                           ELSE it[s \ {CHOOSE x \in s : TRUE}]
                                  + IF w[CHOOSE x \in s : TRUE].kind = "fill"
                                    THEN w[CHOOSE x \in s : TRUE].qty ELSE 0]
<1>1. FoldSeq(LAMBDA r, sum : sum + IF r.kind = "fill" THEN r.qty ELSE 0, 0, w)
        = (CHOOSE it : it = Body(it))[D]
  BY DEF FoldSeq, FoldFunction, FoldFunctionOnSet, MapThenFoldSet
<1>2. ASSUME NEW it PROVE Body(it) = FoldBody(Lots(w), D, it)
  <2>1. ASSUME NEW s \in SUBSET D, s # {}
        PROVE  Lots(w)[AnyOf(s)] = Lot(w[AnyOf(s)])
    <3>1. AnyOf(s) \in D
      BY <2>1, AnyOfIn
    <3> QED BY <3>1 DEF Lots
  <2> QED BY <2>1 DEF FoldBody, AnyOf, Lot
<1>3. (CHOOSE it : it = Body(it)) = (CHOOSE it : it = FoldBody(Lots(w), D, it))
  <2>. HIDE DEF Body, D
  <2> QED BY <1>2
<1>4. (CHOOSE it : it = FoldBody(Lots(w), D, it))[D] = SumOver(Lots(w), D)
  <2>1. IsFiniteSet(D) /\ \A i \in D : Lots(w)[i] \in Int
    BY LotsType
  <2>. HIDE DEF D
  <2> QED BY <2>1, SumFold
<1>. HIDE DEF Body
<1> QED BY <1>1, <1>3, <1>4 DEF LotSum

\* An empty wire carries nothing.
LEMMA LotsEmpty == LotSum(<< >>) = 0
<1>1. DOMAIN << >> = {}
  OBVIOUS
<1> QED BY <1>1, SumEmpty DEF LotSum

\* A report sent adds its lot.
LEMMA LotsAppend ==
    ASSUME NEW w \in Seq(Reports), NEW r \in Reports
    PROVE  LotSum(Append(w, r)) = LotSum(w) + Lot(r)
<1>. DEFINE v == Append(w, r)
            n == Len(w)
            D == 1 .. n
<1>1. v \in Seq(Reports) /\ Len(v) = n + 1 /\ n \in Nat /\ DOMAIN v = D \cup {n + 1}
      /\ DOMAIN w = D /\ v[n + 1] = r /\ \A i \in D : v[i] = w[i]
  OBVIOUS
<1>. HIDE DEF v, n
<1>2. n + 1 \notin D /\ IsFiniteSet(D)
  BY <1>1, LotsType
<1>3. \A i \in D \cup {n + 1} : Lots(v)[i] \in Int /\ Lots(v)[i] = Lot(v[i])
  BY <1>1, LotsType
<1>4. SumOver(Lots(v), D \cup {n + 1}) = SumOver(Lots(v), D) + Lots(v)[n + 1]
  <2>. DEFINE y == n + 1
  <2>1. y \notin D /\ Lots(v)[y] \in Int /\ \A i \in D : Lots(v)[i] \in Int
    BY <1>2, <1>3
  <2>. HIDE DEF y, D
  <2>2. SumOver(Lots(v), D \cup {y}) = SumOver(Lots(v), D) + Lots(v)[y]
    BY <1>2, <2>1, SumAdd
  <2> QED BY <2>2 DEF y
<1>5. SumOver(Lots(v), D) = SumOver(Lots(w), D)
  <2>1. \A i \in D : Lots(v)[i] = Lots(w)[i]
    BY <1>1, <1>3, LotsType
  <2>. HIDE DEF D
  <2> QED BY <2>1, <1>2, SumEqual
<1>6. Lots(v)[n + 1] = Lot(r)
  BY <1>1, <1>3
<1>7. LotSum(v) = SumOver(Lots(v), D \cup {n + 1}) /\ LotSum(w) = SumOver(Lots(w), D)
  BY <1>1, Zenon DEF LotSum
<1>. HIDE DEF D
<1>8. LotSum(v) = LotSum(w) + Lot(r)
  BY <1>4, <1>5, <1>6, <1>7, Zenon
<1> QED BY <1>8 DEF v

\* A report taken off the wire, at the front or further back, shortens it by one.
LEMMA RemoveAtSeq ==
    ASSUME NEW w \in Seq(Reports), NEW i \in DOMAIN w
    PROVE  /\ RemoveAt(w, i) \in Seq(Reports) /\ Len(RemoveAt(w, i)) = Len(w) - 1
           /\ \A j \in 1 .. Len(w) - 1 :
                RemoveAt(w, i)[j] = w[IF j < i THEN j ELSE j + 1]
<1>. DEFINE n == Len(w)
            a == SubSeq(w, 1, i - 1)
            b == SubSeq(w, i + 1, n)
<1>0. n \in Nat /\ i \in 1 .. n
  OBVIOUS
<1>1. a \in Seq(Reports) /\ Len(a) = i - 1 /\ \A j \in 1 .. i - 1 : a[j] = w[j]
  BY <1>0
<1>2. b \in Seq(Reports) /\ Len(b) = n - i /\ \A j \in 1 .. n - i : b[j] = w[i + j]
  BY <1>0
<1>. HIDE DEF a, b, n
<1>5. /\ a \o b \in Seq(Reports) /\ Len(a \o b) = Len(a) + Len(b)
      /\ \A k \in 1 .. Len(a) + Len(b) :
            (a \o b)[k] = IF k <= Len(a) THEN a[k] ELSE b[k - Len(a)]
  BY <1>1, <1>2, ConcatProperties
<1>. DEFINE c == a \o b
<1>6. c \in Seq(Reports) /\ Len(c) = (i - 1) + (n - i)
      /\ \A k \in 1 .. n - 1 : c[k] = IF k <= i - 1 THEN a[k] ELSE b[k - (i - 1)]
  <2>1. Len(a) + Len(b) = n - 1
    BY <1>0, <1>1, <1>2
  <2> QED BY <2>1, <1>5, <1>1, <1>2
<1>. HIDE DEF c
<1>3. c \in Seq(Reports) /\ Len(c) = n - 1
  BY <1>0, <1>6
<1>4. ASSUME NEW j \in 1 .. n - 1 PROVE c[j] = w[IF j < i THEN j ELSE j + 1]
  <2>1. CASE j < i
    BY <2>1, <1>0, <1>1, <1>6
  <2>2. CASE j >= i
    <3>1. j - (i - 1) \in 1 .. n - i /\ i + (j - (i - 1)) = j + 1
      BY <2>2, <1>0
    <3>2. c[j] = b[j - (i - 1)]
      BY <2>2, <1>0, <1>6
    <3>3. b[j - (i - 1)] = w[i + (j - (i - 1))]
      BY <3>1, <1>2
    <3> QED BY <2>2, <3>1, <3>2, <3>3, <1>0
  <2> QED BY <2>1, <2>2, <1>0
<1> QED BY <1>3, <1>4 DEF RemoveAt, a, b, c, n

\* A report taken off the wire takes its lot with it.
LEMMA LotsRemove ==
    ASSUME NEW w \in Seq(Reports), NEW i \in DOMAIN w
    PROVE  LotSum(w) = Lot(w[i]) + LotSum(RemoveAt(w, i)) /\ Lot(w[i]) <= LotSum(w)
<1>. DEFINE v == RemoveAt(w, i)
            n == Len(w)
            D == 1 .. n
            E == 1 .. n - 1
            f == [j \in E |-> IF j < i THEN j ELSE j + 1]
<1>1. /\ v \in Seq(Reports) /\ n \in Nat /\ DOMAIN w = D /\ DOMAIN v = E /\ i \in D
      /\ \A j \in E : v[j] = w[f[j]]
  <2>1. v \in Seq(Reports) /\ Len(v) = n - 1 /\ n \in Nat /\ DOMAIN w = D
    BY RemoveAtSeq
  <2>2. \A j \in E : v[j] = w[f[j]]
    BY RemoveAtSeq
  <2>. HIDE DEF v
  <2> QED BY <2>1, <2>2
<1>. HIDE DEF v, n
<1>2. f \in [E -> D] /\ \A x, y \in E : f[x] = f[y] => x = y
  BY <1>1
<1>3. {f[x] : x \in E} = D \ {i}
  <2>1. \A x \in E : f[x] \in D \ {i}
    BY <1>1
  <2>2. ASSUME NEW y \in D, y # i PROVE \E x \in E : f[x] = y
    <3>1. CASE y < i
      <4>1. y \in E /\ f[y] = y
        BY <1>1, <3>1
      <4> QED BY <4>1
    <3>2. CASE y > i
      <4>1. y - 1 \in E /\ f[y - 1] = y
        BY <1>1, <3>2
      <4> QED BY <4>1
    <3> QED BY <3>1, <3>2, <2>2, <1>1
  <2>. HIDE DEF f, D, E
  <2> QED BY <2>1, <2>2
<1>4. \A x \in E : Lots(v)[x] \in Int /\ Lots(w)[f[x]] = Lots(v)[x]
  <2>1. \A x \in E : Lots(v)[x] = Lot(v[x]) /\ Lot(v[x]) \in Nat
    BY <1>1, LotsType
  <2>2. \A x \in D : Lots(w)[x] = Lot(w[x])
    BY <1>1, LotsType
  <2>3. \A x \in E : f[x] \in D
    BY <1>2
  <2>. HIDE DEF f, D, E
  <2> QED BY <2>1, <2>2, <2>3, <1>1
<1>5. IsFiniteSet(D) /\ IsFiniteSet(E)
  <2>1. n - 1 \in Int /\ n \in Int
    BY <1>1
  <2> QED BY <2>1, FS_Interval
<1>6. LotSum(v) \in Nat /\ \A x \in D : Lots(w)[x] \in Int /\ Lots(w)[x] = Lot(w[x])
  BY <1>1, LotsType
<1>. HIDE DEF f, D, E
<1>7. SumOver(Lots(v), E) = SumOver(Lots(w), {f[x] : x \in E})
  BY <1>2, <1>4, <1>5, SumImage
<1>8. SumOver(Lots(v), E) = SumOver(Lots(w), D \ {i})
  BY <1>3, <1>7, Zenon
<1>9. SumOver(Lots(w), D) = Lots(w)[i] + SumOver(Lots(w), D \ {i})
  BY <1>1, <1>5, <1>6, SumRemove
<1>10. LotSum(v) = SumOver(Lots(v), E) /\ LotSum(w) = SumOver(Lots(w), D)
  BY <1>1, Zenon DEF LotSum
<1>11. LotSum(w) = Lot(w[i]) + LotSum(v) /\ Lot(w[i]) \in Int
  BY <1>1, <1>6, <1>8, <1>9, <1>10
<1> QED BY <1>6, <1>11 DEF v

-----------------------------------------------------------------------------
(* The ledger: what OMS booked, what is on the wire, what was executed.    *)

\* OMS's order o, its wire w, the exchange's book e of it and the booked
\* quantity b tell the same story, for an order whose reports kept their order
\* and that nobody asked to cancel: the acknowledgement is at the front of the
\* wire until OMS has seen it, nothing follows a rejection, and every executed
\* lot is booked or on its way.
InStep(o, w, e, b) ==
    /\ b + LotSum(w) = e.filled
    /\ \A i \in DOMAIN w : w[i].kind # "cancel_ack" /\ (w[i].kind = "ack" => i = 1)
    /\ o.status \notin {"PENDING_CANCEL", "CANCELLED"}
    /\ e.state = "sent" => w = << >> /\ o.status = "PENDING_NEW"
    /\ (w # << >> /\ w[1].kind = "ack") => o.status = "PENDING_NEW"
    /\ (o.status = "PENDING_NEW" /\ e.state # "sent") => w # << >> /\ w[1].kind = "ack"
    /\ (w # << >> /\ w[1].kind = "ack" /\ w[1].status = "REJECTED")
            => Len(w) = 1 /\ e.state = "done"
    /\ o.status = "REJECTED" => w = << >> /\ e.state = "done"

\* What holds of each id: nothing is known of it before submit hands it out,
\* no lot is invented, and the order in the map is the one the exchange has.
Ledger(id) ==
    /\ exch[id].filled <= exch[id].qty
    /\ exch[id].state = "none" <=> id >= nextId
    /\ id >= nextId => booked[id] = 0 /\ exch[id].filled = 0 /\ wire[id] = << >>
                       /\ ~exch[id].cancel
    /\ (dups = 0 \/ id \notin mixed) => booked[id] + LotSum(wire[id]) <= exch[id].filled
    /\ id \in InMap => booked[id] = Order(id).filled /\ Order(id).qty = exch[id].qty
    /\ (id \in InMap /\ id \notin mixed /\ ~exch[id].cancel)
            => InStep(Order(id), wire[id], exch[id], booked[id])

\* The tracker's counters.
Counted ==
    /\ fillCount = popped + Len(fillQueue) + dropped
    /\ dups = 0 => filledQty = SumOver(booked, Ids)

LedgerInv == PoolInv /\ (\A id \in Ids : Ledger(id)) /\ Counted

\* The types the steps below compute with.
LEMMA LedgerTypes ==
    ASSUME PoolInv, NEW id \in Ids
    PROVE  /\ id \in Nat /\ nextId \in Nat /\ booked[id] \in Nat /\ booked \in [Ids -> 0 .. MaxQty]
           /\ exch \in [Ids -> Books] /\ exch[id] \in Books
           /\ exch[id].filled \in Nat /\ exch[id].qty \in Nat
           /\ wire \in [Ids -> Seq(Reports)] /\ wire[id] \in Seq(Reports)
           /\ LotSum(wire[id]) \in Nat /\ dups \in Nat /\ IsFiniteSet(Ids)
           /\ fillCount \in Nat /\ filledQty \in Nat /\ popped \in Nat /\ dropped \in Nat
           /\ fillQueue \in Seq(Fills)
<1>. USE BoundsAssumption
<1>1. PoolTypes /\ TrackTypes /\ EnvTypes
  BY DEF PoolInv, StatusInv, TypeOK
<1>2. exch \in [Ids -> Books] /\ exch[id] \in Books /\ wire \in [Ids -> Seq(Reports)]
      /\ wire[id] \in Seq(Reports) /\ dups \in Nat
  BY <1>1 DEF EnvTypes
<1>3. exch[id].filled \in Nat /\ exch[id].qty \in Nat
  BY <1>2 DEF Books
<1>4. IsFiniteSet(Ids)
  BY FS_Interval DEF Ids
<1>5. id \in Nat /\ nextId \in Nat
  BY <1>1 DEF Ids, PoolTypes
<1>6. LotSum(wire[id]) \in Nat
  BY <1>2, LotsType
<1> QED BY <1>1, <1>2, <1>3, <1>4, <1>5, <1>6 DEF TrackTypes

\* An id that a step does not touch keeps its ledger.
LEMMA LedgerKept ==
    ASSUME PoolInv, NEW a \in Ids, Ledger(a),
           exch'[a] = exch[a], wire'[a] = wire[a], booked'[a] = booked[a],
           a \in mixed => a \in mixed', dups' \in Nat, dups' >= dups,
           a \in InMap' => a \in InMap /\ Order(a)' = Order(a),
           a >= nextId' <=> a >= nextId
    PROVE  Ledger(a)'
<1>. USE DEF Ledger
<1>1. dups \in Nat
  BY LedgerTypes
<1>2. dups' = 0 => dups = 0
  BY <1>1
<1>3. (dups' = 0 \/ a \notin mixed') => booked'[a] + LotSum(wire'[a]) <= exch'[a].filled
  BY <1>2
<1>4. (a \in InMap' /\ a \notin mixed' /\ ~exch'[a].cancel)
        => InStep(Order(a)', wire'[a], exch'[a], booked'[a])
  BY Zenon
<1>5. a \in InMap' => booked'[a] = Order(a)'.filled /\ Order(a)'.qty = exch'[a].qty
  BY Zenon
<1> QED BY <1>3, <1>4, <1>5

\* A step that rewrites at most the slot of id leaves the other orders alone.
LEMMA OthersKept ==
    ASSUME PoolInv, NEW id \in Ids, storage' = storage \/ OwnSlotOnly(id),
           orders' = orders, NEW b \in InMap, b # id
    PROVE  Order(b)' = Order(b)
<1>1. orders[b] \in Slots
  BY MapTypes DEF PoolInv, StatusInv
<1>2. OwnSlotOnly(id) => orders[id] # orders[b]
  BY DEF OwnSlotOnly, PoolInv, PoolPartition
<1>3. storage'[orders[b]] = storage[orders[b]]
  BY <1>1, <1>2 DEF OwnSlotOnly
<1> QED BY <1>3 DEF Order

\* Nothing is known of any id at the start.
LEMMA InitLedger == Init => LedgerInv
<1>. SUFFICES ASSUME Init PROVE LedgerInv
  OBVIOUS
<1>1. PoolInv
  BY InitPool
<1>2. ASSUME NEW id \in Ids PROVE Ledger(id)
  <2>1. id \in Nat /\ id >= 1
    BY <1>1, LedgerTypes DEF Ids
  <2>2. LotSum(wire[id]) = 0
    BY LotsEmpty DEF Init
  <2>3. InMap = {}
    BY DEF Init, InMap
  <2> QED BY <2>1, <2>2, <2>3 DEF Init, Ledger
<1>3. Counted
  <2>1. IsFiniteSet(Ids)
    BY BoundsAssumption, FS_Interval DEF Ids
  <2>2. SumOver(booked, Ids) = 0
    <3>1. \A id \in Ids : booked[id] = 0
      BY DEF Init
    <3> QED BY <2>1, <3>1, SumZero
  <2> QED BY <2>2 DEF Init, Counted
<1> QED BY <1>1, <1>2, <1>3 DEF LedgerInv

\* submit opens the ledger of the next id.
LEMMA SubmitLedger ==
    ASSUME LedgerInv, NEW q \in Qtys, Submit(q), PoolInv'
    PROVE  LedgerInv'
<1>0. PoolInv /\ nextId \in Ids /\ nextId' = nextId + 1 /\ nextId \in Nat
  BY LedgerTypes DEF LedgerInv, Submit
<1>1. /\ InMap' = InMap \cup {nextId} /\ booked' = booked /\ wire' = wire
      /\ dups' = dups /\ mixed' = mixed
  BY DEF Submit, InMap, trackVars
<1>2. ASSUME NEW a \in Ids, a = nextId PROVE Ledger(a)'
  <2>1. Ledger(a)
    BY <1>2, <1>0 DEF LedgerInv
  <2>2. /\ booked[a] = 0 /\ wire[a] = << >> /\ exch[a].filled = 0
        /\ exch[a].state = "none" /\ ~exch[a].cancel
    BY <1>2, <2>1, <1>0 DEF Ledger
  <2>3. exch'[a].state = "sent" /\ exch'[a].qty = q /\ exch'[a].filled = 0
    <3>1. exch \in [Ids -> Books] /\ exch[a] \in Books
      BY <1>2, <1>0, LedgerTypes
    <3> QED BY <1>2, <3>1, <2>2, <1>0 DEF Submit, Books
  <2>4. q \in Nat
    BY BoundsAssumption DEF Qtys
  <2>5. Order(a)' = [status |-> "PENDING_NEW", qty |-> q, filled |-> 0, exchId |-> 0]
    <3>1. Acquired \in Slots /\ storage \in [Slots -> Orders]
      BY <1>2, <1>0 DEF Submit, Acquired, PoolInv, StatusInv, TypeOK, PoolTypes
    <3>2. orders'[a] = Acquired
      BY <1>2 DEF Submit, InMap
    <3>3. storage'[Acquired]
            = [status |-> "PENDING_NEW", qty |-> q, filled |-> 0, exchId |-> 0]
      BY <3>1 DEF Submit
    <3> QED BY <3>2, <3>3 DEF Order
  <2>6. LotSum(wire'[a]) = 0
    BY <1>2, <1>1, <2>2, LotsEmpty
  <2>7. InStep(Order(a)', wire'[a], exch'[a], booked'[a])
    BY <1>2, <1>1, <2>2, <2>3, <2>5, <2>6 DEF InStep
  <2> QED BY <1>2, <1>0, <1>1, <2>2, <2>3, <2>4, <2>5, <2>6, <2>7 DEF Ledger
<1>3. ASSUME NEW a \in Ids, a # nextId PROVE Ledger(a)'
  <2>1. exch'[a] = exch[a]
    BY <1>0, <1>3, LedgerTypes DEF Submit
  <2>2. a \in InMap => Order(a)' = Order(a)
    <3>. SUFFICES ASSUME a \in InMap PROVE Order(a)' = Order(a)
      OBVIOUS
    <3>0. PoolTypes /\ orders[a] \in Slots
      BY <1>0, MapTypes DEF PoolInv, StatusInv, TypeOK
    <3>1. orders'[a] = orders[a]
      BY <1>3 DEF Submit, InMap
    <3>2. 1 \in DOMAIN free /\ Acquired = free[1]
      BY <3>0 DEF Submit, PoolTypes, Acquired
    <3>3. Acquired # orders[a]
      BY <3>2, <1>0 DEF PoolInv, PoolPartition
    <3>4. storage'[orders[a]] = storage[orders[a]]
      BY <3>0, <3>3 DEF Submit, PoolTypes
    <3> QED BY <3>1, <3>4 DEF Order
  <2>3. a >= nextId' <=> a >= nextId
    BY <1>0, <1>3, LedgerTypes
  <2>4. Ledger(a) /\ dups' \in Nat /\ dups' >= dups
    BY <1>0, <1>1, LedgerTypes DEF LedgerInv
  <2>5. a \in InMap' => a \in InMap
    BY <1>1, <1>3
  <2> QED BY <1>0, <1>1, <2>1, <2>2, <2>3, <2>4, <2>5, LedgerKept
<1>4. Counted'
  BY DEF Submit, trackVars, LedgerInv, Counted
<1> QED BY <1>2, <1>3, <1>4 DEF LedgerInv

\* release forgets an order; what was booked and what is under way stays.
LEMMA ReleaseLedger ==
    ASSUME LedgerInv, NEW id \in Ids, Release(id), PoolInv'
    PROVE  LedgerInv'
<1>0. PoolInv /\ InMap' = InMap \ {id} /\ nextId' = nextId /\ UNCHANGED <<trackVars, envVars>>
  BY DEF LedgerInv, Release, InMap
<1>1. ASSUME NEW a \in Ids PROVE Ledger(a)'
  <2>1. a \in InMap' => a \in InMap /\ Order(a)' = Order(a)
    BY <1>0 DEF Release, Order
  <2>2. /\ exch'[a] = exch[a] /\ wire'[a] = wire[a] /\ booked'[a] = booked[a]
        /\ mixed' = mixed /\ dups' = dups
    BY <1>0 DEF trackVars, envVars
  <2>3. dups' \in Nat /\ dups' >= dups
    BY <1>0, <2>2, LedgerTypes
  <2>4. Ledger(a) /\ (a >= nextId' <=> a >= nextId)
    BY <1>0 DEF LedgerInv
  <2> QED BY <1>0, <2>1, <2>2, <2>3, <2>4, LedgerKept
<1>2. Counted'
  BY <1>0 DEF trackVars, envVars, LedgerInv, Counted
<1> QED BY <1>1, <1>2 DEF LedgerInv

\* The position layer takes a fill off the queue.
LEMMA PopFillLedger ==
    ASSUME LedgerInv, PopFill, PoolInv'
    PROVE  LedgerInv'
<1>0. PoolInv /\ UNCHANGED <<omsVars, booked, envVars, filledQty, fillCount, dropped>>
  BY DEF LedgerInv, PopFill
<1>1. ASSUME NEW a \in Ids PROVE Ledger(a)'
  <2>1. a \in InMap' => a \in InMap /\ Order(a)' = Order(a)
    BY <1>0 DEF omsVars, Order, InMap
  <2>2. /\ exch'[a] = exch[a] /\ wire'[a] = wire[a] /\ booked'[a] = booked[a]
        /\ mixed' = mixed /\ dups' = dups /\ nextId' = nextId
    BY <1>0 DEF omsVars, envVars
  <2>3. dups' \in Nat /\ dups' >= dups
    BY <1>0, <2>2, LedgerTypes
  <2>4. Ledger(a) /\ (a >= nextId' <=> a >= nextId)
    BY <2>2 DEF LedgerInv
  <2> QED BY <1>0, <2>1, <2>2, <2>3, <2>4, LedgerKept
<1>2. Counted'
  <2>1. /\ fillQueue \in Seq(Fills) /\ popped \in Nat /\ dropped \in Nat
        /\ fillQueue # << >> /\ fillQueue' = Tail(fillQueue) /\ popped' = popped + 1
    BY <1>0 DEF PopFill, PoolInv, StatusInv, TypeOK, TrackTypes
  <2>2. Len(fillQueue') = Len(fillQueue) - 1 /\ Len(fillQueue) \in Nat
    BY <2>1
  <2> QED BY <1>0, <2>1, <2>2 DEF LedgerInv, Counted, envVars
<1> QED BY <1>1, <1>2 DEF LedgerInv

\* A cancel request ends what the ledger promises of the order's wire.
LEMMA RequestCancelLedger ==
    ASSUME LedgerInv, NEW id \in Ids, RequestCancel(id), PoolInv'
    PROVE  LedgerInv'
<1>0. /\ PoolInv /\ orders' = orders /\ InMap' = InMap /\ nextId' = nextId /\ id \in InMap
      /\ UNCHANGED <<trackVars, wire, dups, mixed>>
  BY DEF LedgerInv, RequestCancel, InMap
<1>1. StatusInv /\ OwnSlotOnly(id)
  BY <1>0, RequestCancelEffect DEF PoolInv
<1>2. ASSUME NEW a \in Ids, a # id PROVE Ledger(a)'
  <2>1. a \in InMap' => a \in InMap /\ Order(a)' = Order(a)
    BY <1>0, <1>1, <1>2, OthersKept
  <2>2. /\ exch'[a] = exch[a] /\ wire'[a] = wire[a] /\ booked'[a] = booked[a]
        /\ mixed' = mixed /\ dups' = dups
    BY <1>0, <1>2, LedgerTypes DEF RequestCancel, trackVars
  <2>3. dups' \in Nat /\ dups' >= dups
    BY <1>0, <2>2, LedgerTypes
  <2>4. Ledger(a) /\ (a >= nextId' <=> a >= nextId)
    BY <1>0 DEF LedgerInv
  <2> QED BY <1>0, <2>1, <2>2, <2>3, <2>4, LedgerKept
<1>3. Ledger(id)'
  <2>1. /\ exch'[id].cancel /\ exch'[id].filled = exch[id].filled
        /\ exch'[id].qty = exch[id].qty /\ exch'[id].state = exch[id].state
    <3>1. exch \in [Ids -> Books] /\ exch[id] \in Books
      BY <1>0, LedgerTypes
    <3> QED BY <3>1 DEF RequestCancel, Books
  <2>2. Order(id)'.filled = Order(id).filled /\ Order(id)'.qty = Order(id).qty
    <3>1. orders[id] \in Slots /\ storage \in [Slots -> Orders] /\ Order(id) \in Orders
      BY <1>0, MapTypes DEF PoolInv, StatusInv, TypeOK, PoolTypes
    <3>2. Order(id)' = Transition(Order(id), "PENDING_CANCEL")
      BY <1>0, <3>1 DEF RequestCancel, Order
    <3> QED BY <3>1, <3>2 DEF Transition, Orders
  <2>3. Ledger(id) /\ id < nextId /\ id \in Nat /\ nextId \in Nat
    BY <1>0, LedgerTypes DEF LedgerInv, PoolInv
  <2> QED BY <1>0, <2>1, <2>2, <2>3 DEF Ledger, trackVars
<1>4. Counted'
  BY <1>0 DEF trackVars, LedgerInv, Counted
<1> QED BY <1>2, <1>3, <1>4 DEF LedgerInv

\* The exchange moves one order's book and reports it: the other ids keep their
\* ledger, and its own needs the three facts about book and wire.
LEMMA ExchangeLedger ==
    ASSUME LedgerInv, NEW id \in Ids, NEW r \in Reports, Report(id, r),
           UNCHANGED <<omsVars, trackVars, dups, mixed>>, PoolInv',
           \A a \in Ids : a # id => exch'[a] = exch[a],
           exch[id].state # "none", exch'[id].state # "none",
           exch'[id].qty = exch[id].qty, exch'[id].cancel = exch[id].cancel,
           exch'[id].filled = exch[id].filled + Lot(r), exch'[id].filled <= exch[id].qty,
           (id \in InMap /\ id \notin mixed /\ ~exch[id].cancel)
              => InStep(Order(id), Append(wire[id], r), exch'[id], booked[id])
    PROVE  LedgerInv'
<1>0. /\ PoolInv /\ InMap' = InMap /\ nextId' = nextId /\ booked' = booked
      /\ \A a \in Ids : Order(a)' = Order(a)
  BY DEF LedgerInv, omsVars, trackVars, InMap, Order
<1>1. wire'[id] = Append(wire[id], r) /\ \A a \in Ids : a # id => wire'[a] = wire[a]
  BY <1>0, LedgerTypes DEF Report
<1>2. ASSUME NEW a \in Ids, a # id PROVE Ledger(a)'
  <2>1. /\ exch'[a] = exch[a] /\ wire'[a] = wire[a] /\ booked'[a] = booked[a]
    BY <1>0, <1>1, <1>2
  <2>2. dups' \in Nat /\ dups' >= dups
    BY <1>0, LedgerTypes
  <2>3. Ledger(a) /\ (a >= nextId' <=> a >= nextId)
    BY <1>0 DEF LedgerInv
  <2> QED BY <1>0, <2>1, <2>2, <2>3, LedgerKept
<1>3. Ledger(id)'
  <2>1. LotSum(wire'[id]) = LotSum(wire[id]) + Lot(r) /\ Lot(r) \in Nat
    <3>1. wire[id] \in Seq(Reports)
      BY <1>0, LedgerTypes
    <3>2. Lot(r) \in Nat
      <4>1. r.kind = "fill" => r.qty \in Qtys
        BY DEF Reports
      <4> QED BY <4>1, BoundsAssumption DEF Lot, Qtys
    <3>3. LotSum(Append(wire[id], r)) = LotSum(wire[id]) + Lot(r)
      BY <3>1, LotsAppend
    <3> QED BY <3>2, <3>3, <1>1, Zenon
  <2>2. Ledger(id) /\ ~(id >= nextId) /\ exch[id].filled \in Nat /\ booked[id] \in Nat
        /\ LotSum(wire[id]) \in Nat
    BY <1>0, LedgerTypes DEF LedgerInv, Ledger
  <2>3. (dups' = 0 \/ id \notin mixed') => booked'[id] + LotSum(wire'[id]) <= exch'[id].filled
    BY <1>0, <2>1, <2>2 DEF Ledger
  <2>4. (id \in InMap' /\ id \notin mixed' /\ ~exch'[id].cancel)
           => InStep(Order(id)', wire'[id], exch'[id], booked'[id])
    BY <1>0, <1>1, Zenon
  <2>5. id \in InMap' => booked'[id] = Order(id)'.filled /\ Order(id)'.qty = exch'[id].qty
    BY <1>0, <2>2 DEF Ledger
  <2>6. exch'[id].filled <= exch'[id].qty /\ (exch'[id].state = "none" <=> id >= nextId')
        /\ ~(id >= nextId')
    BY <1>0, <2>2
  <2> QED BY <2>3, <2>4, <2>5, <2>6 DEF Ledger
<1>4. Counted'
  BY <1>0 DEF trackVars, LedgerInv, Counted
<1> QED BY <1>2, <1>3, <1>4 DEF LedgerInv

\* A fill the exchange reports keeps the order in step: the exchange executes
\* only live orders, so its acceptance is on the wire or was seen before.
LEMMA FillInStep ==
    ASSUME NEW o, NEW w \in Seq(Reports), NEW e, NEW f, NEW b \in Nat, NEW q \in Qtys,
           InStep(o, w, e, b), e.state = "live", f.state \in {"live", "done"},
           e.filled \in Nat, f.filled = e.filled + q
    PROVE  InStep(o, Append(w, [kind |-> "fill", qty |-> q]), f, b)
<1>. DEFINE r == [kind |-> "fill", qty |-> q]
            v == Append(w, r)
<1>0. r \in Reports /\ r.kind = "fill" /\ Lot(r) = q /\ q \in Nat
  BY BoundsAssumption DEF Reports, Qtys, Lot
<1>. HIDE DEF r
<1>1. LotSum(v) = LotSum(w) + q /\ LotSum(w) \in Nat
  BY <1>0, LotsAppend, LotsType
<1>2. /\ Len(v) = Len(w) + 1 /\ Len(w) \in Nat /\ DOMAIN v = 1 .. Len(w) + 1
      /\ DOMAIN w = 1 .. Len(w) /\ v # << >>
      /\ \A i \in DOMAIN w : v[i] = w[i]
      /\ v[Len(w) + 1] = r
      /\ w # << >> => Len(w) >= 1 /\ v[1] = w[1]
      /\ w = << >> => v[1] = r
  BY <1>0
<1>3. /\ b + LotSum(w) = e.filled
      /\ \A i \in DOMAIN w : w[i].kind # "cancel_ack" /\ (w[i].kind = "ack" => i = 1)
      /\ o.status \notin {"PENDING_CANCEL", "CANCELLED", "REJECTED"}
      /\ (w # << >> /\ w[1].kind = "ack") => o.status = "PENDING_NEW"
      /\ o.status = "PENDING_NEW" => w # << >> /\ w[1].kind = "ack"
      /\ ~(w # << >> /\ w[1].kind = "ack" /\ w[1].status = "REJECTED")
  BY DEF InStep
<1>. HIDE DEF v
<1>4. b + LotSum(v) = f.filled
  BY <1>0, <1>1, <1>3
<1>5. \A i \in DOMAIN v : v[i].kind # "cancel_ack" /\ (v[i].kind = "ack" => i = 1)
  <2>. SUFFICES ASSUME NEW i \in DOMAIN v
                PROVE v[i].kind # "cancel_ack" /\ (v[i].kind = "ack" => i = 1)
    OBVIOUS
  <2>1. CASE i \in DOMAIN w
    BY <2>1, <1>2, <1>3
  <2>2. CASE i = Len(w) + 1
    BY <2>2, <1>0, <1>2
  <2> QED BY <2>1, <2>2, <1>2
<1>6. /\ (v # << >> /\ v[1].kind = "ack") => (w # << >> /\ w[1].kind = "ack" /\ v[1] = w[1])
      /\ (w # << >> /\ w[1].kind = "ack") => v[1].kind = "ack"
  BY <1>0, <1>2
<1>7. InStep(o, v, f, b)
  BY <1>2, <1>3, <1>4, <1>5, <1>6 DEF InStep
<1> QED BY <1>7 DEF v, r

\* An answer to a sent order is the first report on its wire.
LEMMA AnswerInStep ==
    ASSUME NEW o, NEW w, NEW e, NEW f, NEW b \in Nat, NEW st \in {"NEW", "REJECTED"},
           InStep(o, w, e, b), e.state = "sent", f.filled = e.filled,
           f.state = IF st = "NEW" THEN "live" ELSE "done"
    PROVE  InStep(o, Append(w, [kind |-> "ack", status |-> st]), f, b)
<1>. DEFINE r == [kind |-> "ack", status |-> st]
            v == Append(w, r)
<1>0. r \in Reports /\ r.kind = "ack" /\ r.status = st /\ Lot(r) = 0
  BY DEF Reports, Lot
<1>. HIDE DEF r
<1>1. w = << >> /\ o.status = "PENDING_NEW" /\ b + LotSum(w) = e.filled
  BY DEF InStep
<1>2. w \in Seq(Reports)
  BY <1>1
<1>3. LotSum(v) = LotSum(w) + Lot(r) /\ LotSum(w) \in Nat
  BY <1>0, <1>2, LotsAppend, LotsType
<1>4. Len(v) = 1 /\ DOMAIN v = {1} /\ v[1] = r /\ v # << >>
  BY <1>0, <1>1
<1>. HIDE DEF v
<1>5. b + LotSum(v) = f.filled
  BY <1>0, <1>1, <1>3
<1>6. InStep(o, v, f, b)
  BY <1>0, <1>1, <1>4, <1>5 DEF InStep
<1> QED BY <1>6 DEF v, r

\* Each of the exchange's actions moves one book and reports it.
LEMMA ExchangeActions ==
    ASSUME LedgerInv, NEW id \in Ids, PoolInv',
           \/ ExchangeAccepts(id) \/ ExchangeRejects(id) \/ ExchangeCancels(id)
           \/ \E q \in Qtys : ExchangeFills(id, q)
    PROVE  LedgerInv'
<1>0. /\ PoolInv /\ Ledger(id) /\ exch \in [Ids -> Books] /\ exch[id] \in Books
      /\ wire[id] \in Seq(Reports) /\ booked[id] \in Nat
      /\ exch[id].filled \in Nat /\ exch[id].qty \in Nat /\ exch[id].filled <= exch[id].qty
  BY LedgerTypes DEF LedgerInv, Ledger
<1>1. (id \in InMap /\ id \notin mixed /\ ~exch[id].cancel)
          => InStep(Order(id), wire[id], exch[id], booked[id])
  BY <1>0 DEF Ledger
<1>2. ASSUME NEW st \in {"NEW", "REJECTED"}, exch[id].state = "sent",
             exch' = [exch EXCEPT ![id].state = IF st = "NEW" THEN "live" ELSE "done"],
             Report(id, [kind |-> "ack", status |-> st]),
             UNCHANGED <<omsVars, trackVars, dups, mixed>>
      PROVE  LedgerInv'
  <2>. DEFINE r == [kind |-> "ack", status |-> st]
  <2>1. r \in Reports /\ Lot(r) = 0
    BY DEF Reports, Lot
  <2>2. /\ \A a \in Ids : a # id => exch'[a] = exch[a]
        /\ exch'[id].state = IF st = "NEW" THEN "live" ELSE "done"
        /\ exch'[id].qty = exch[id].qty /\ exch'[id].cancel = exch[id].cancel
        /\ exch'[id].filled = exch[id].filled
    BY <1>0, <1>2 DEF Books
  <2>3. (id \in InMap /\ id \notin mixed /\ ~exch[id].cancel)
          => InStep(Order(id), Append(wire[id], r), exch'[id], booked[id])
    BY <1>0, <1>1, <1>2, <2>2, AnswerInStep
  <2>4. exch'[id].filled = exch[id].filled + Lot(r) /\ exch'[id].state # "none"
        /\ exch'[id].filled <= exch[id].qty /\ Report(id, r)
    BY <1>0, <1>2, <2>1, <2>2
  <2>. HIDE DEF r
  <2> QED BY <1>2, <2>1, <2>2, <2>3, <2>4, ExchangeLedger
<1>3. CASE ExchangeAccepts(id)
  BY <1>3, <1>2 DEF ExchangeAccepts
<1>4. CASE ExchangeRejects(id)
  BY <1>4, <1>2 DEF ExchangeRejects
<1>5. CASE ExchangeCancels(id)
  <2>. DEFINE r == [kind |-> "cancel_ack"]
  <2>1. r \in Reports /\ Lot(r) = 0
    BY DEF Reports, Lot
  <2>2. /\ \A a \in Ids : a # id => exch'[a] = exch[a]
        /\ exch'[id].state = "done" /\ exch[id].cancel
        /\ exch'[id].qty = exch[id].qty /\ exch'[id].cancel = exch[id].cancel
        /\ exch'[id].filled = exch[id].filled
    BY <1>0, <1>5 DEF ExchangeCancels, Books
  <2>4. exch'[id].filled = exch[id].filled + Lot(r) /\ exch'[id].state # "none"
        /\ exch[id].state # "none"
        /\ exch'[id].filled <= exch[id].qty /\ Report(id, r)
        /\ UNCHANGED <<omsVars, trackVars, dups, mixed>>
    BY <1>0, <1>5, <2>1, <2>2 DEF ExchangeCancels
  <2>. HIDE DEF r
  <2> QED BY <2>1, <2>2, <2>4, ExchangeLedger
<1>6. ASSUME NEW q \in Qtys, ExchangeFills(id, q) PROVE LedgerInv'
  <2>. DEFINE r == [kind |-> "fill", qty |-> q]
  <2>1. r \in Reports /\ Lot(r) = q /\ q \in Nat
    BY BoundsAssumption DEF Reports, Lot, Qtys
  <2>2. /\ \A a \in Ids : a # id => exch'[a] = exch[a]
        /\ exch[id].state = "live" /\ exch'[id].state \in {"live", "done"}
        /\ exch'[id].qty = exch[id].qty /\ exch'[id].cancel = exch[id].cancel
        /\ exch'[id].filled = exch[id].filled + q /\ exch[id].filled + q <= exch[id].qty
    BY <1>0, <1>6 DEF ExchangeFills, Books
  <2>3. (id \in InMap /\ id \notin mixed /\ ~exch[id].cancel)
          => InStep(Order(id), Append(wire[id], r), exch'[id], booked[id])
    BY <1>0, <1>1, <2>2, FillInStep
  <2>4. exch'[id].filled = exch[id].filled + Lot(r) /\ exch'[id].state # "none"
        /\ exch[id].state # "none"
        /\ exch'[id].filled <= exch[id].qty /\ Report(id, r)
        /\ UNCHANGED <<omsVars, trackVars, dups, mixed>>
    BY <1>0, <1>6, <2>1, <2>2 DEF ExchangeFills
  <2>. HIDE DEF r
  <2> QED BY <2>1, <2>2, <2>3, <2>4, ExchangeLedger
<1> QED BY <1>3, <1>4, <1>5, <1>6

\* on_fill accepted: the order, the booked quantity and the tracker move.
Accepts(id, r) ==
    /\ r.kind = "fill" /\ id \in InMap /\ CanFill(Order(id), r.qty)
    /\ Order(id)' = ApplyFill(Order(id), r.qty)
    /\ booked' = [booked EXCEPT ![id] = FilledAfter(Order(id), r.qty)]
    /\ TrackerOnFill(id, r.qty)

\* Every other report: no quantity moves.
Ignores(id, r) ==
    /\ UNCHANGED trackVars
    /\ ~(r.kind = "fill" /\ id \in InMap /\ CanFill(Order(id), r.qty))
    /\ id \in InMap => Order(id)'.filled = Order(id).filled /\ Order(id)'.qty = Order(id).qty
    /\ (id \in InMap /\ r.kind = "ack" /\ Order(id).status = "PENDING_NEW")
            => Order(id)'.status = r.status

\* A report is one or the other.
LEMMA HandleBooks ==
    ASSUME StatusInv, NEW id \in Ids, NEW r \in Reports, Handle(id, r), orders' = orders
    PROVE  Accepts(id, r) \/ Ignores(id, r)
<1>0. /\ storage \in [Slots -> Orders]
      /\ id \in InMap => orders[id] \in Slots /\ Order(id) \in Orders
  BY MapTypes DEF StatusInv, TypeOK, PoolTypes
<1>1. CASE r.kind = "ack" /\ OnAck(id, r.status)
  <2>1. CASE id \in InMap
    <3>. DEFINE e == IF r.status = "NEW" THEN 1 ELSE 0
                p == [Order(id) EXCEPT !.exchId = e]
    <3>1. Order(id)' = Transition(p, r.status)
      BY <1>0, <1>1, <2>1 DEF OnAck, Order
    <3>2. p \in Orders /\ p.status = Order(id).status /\ p.qty = Order(id).qty
          /\ p.filled = Order(id).filled
      BY <1>0, <2>1 DEF Orders
    <3>3. r.status \in {"NEW", "REJECTED"}
      BY <1>1 DEF Reports
    <3>. HIDE DEF p
    <3>4. Order(id)'.filled = Order(id).filled /\ Order(id)'.qty = Order(id).qty
      BY <3>1, <3>2 DEF Transition, Orders
    <3>5. Order(id).status = "PENDING_NEW" => Order(id)'.status = r.status
      BY <3>1, <3>2, <3>3 DEF Transition, CanTransition, NextStatuses, Orders
    <3> QED BY <1>1, <3>4, <3>5 DEF Ignores, OnAck
  <2>2. CASE id \notin InMap
    BY <1>1, <2>2 DEF Ignores, OnAck
  <2> QED BY <2>1, <2>2
<1>2. CASE r.kind = "fill" /\ OnFill(id, r.qty)
  <2>1. CASE id \in InMap /\ CanFill(Order(id), r.qty)
    <3>1. Order(id)' = ApplyFill(Order(id), r.qty)
      BY <1>0, <1>2, <2>1 DEF OnFill, Order
    <3> QED BY <1>2, <2>1, <3>1 DEF Accepts, OnFill
  <2>2. CASE ~(id \in InMap /\ CanFill(Order(id), r.qty))
    BY <1>2, <2>2 DEF Ignores, OnFill, Order
  <2> QED BY <2>1, <2>2
<1>3. CASE r.kind = "cancel_ack" /\ OnCancelAck(id)
  <2>1. CASE id \in InMap
    <3>1. Order(id)' = Transition(Order(id), "CANCELLED")
      BY <1>0, <1>3, <2>1 DEF OnCancelAck, Order
    <3>2. Order(id)'.filled = Order(id).filled /\ Order(id)'.qty = Order(id).qty
      BY <1>0, <2>1, <3>1 DEF Transition, Orders
    <3> QED BY <1>3, <3>2 DEF Ignores, OnCancelAck
  <2>2. CASE id \notin InMap
    BY <1>3, <2>2 DEF Ignores, OnCancelAck
  <2> QED BY <2>1, <2>2
<1> QED BY <1>1, <1>2, <1>3 DEF Handle

\* apply_fill of a lot that fits: nothing is clamped away.
LEMMA FillThatFits ==
    ASSUME NEW o, GoodOrder(o), NEW q \in Qtys, CanFill(o, q)
    PROVE  /\ ApplyFill(o, q).filled = FilledAfter(o, q) /\ ApplyFill(o, q).qty = o.qty
           /\ ApplyFill(o, q).status \in {"FILLED", "PARTIALLY_FILLED"}
           /\ FilledAfter(o, q) <= o.filled + q /\ FilledAfter(o, q) \in Nat
           /\ o.filled + q <= o.qty => FilledAfter(o, q) = o.filled + q
<1>. USE BoundsAssumption
<1>1. o \in Orders /\ o.filled \in Nat /\ o.qty \in Nat /\ q \in Nat
  BY DEF GoodOrder, Orders, Qtys
<1>2. /\ ApplyFill(o, q).filled = FilledAfter(o, q) /\ ApplyFill(o, q).qty = o.qty
      /\ ApplyFill(o, q).status = FillTarget(o, q)
  BY <1>1 DEF ApplyFill, Orders
<1> QED BY <1>1, <1>2 DEF FilledAfter, FillTarget

\* A report of id changes the tracker as the ledger expects.
LEMMA HandleCounts ==
    ASSUME LedgerInv, NEW id \in Ids, NEW i \in DOMAIN wire[id],
           Accepts(id, wire[id][i]) \/ Ignores(id, wire[id][i]), dups' \in Nat, dups' >= dups
    PROVE  Counted'
<1>. DEFINE r == wire[id][i]
            q == r.qty
<1>0. /\ PoolInv /\ Ledger(id) /\ wire[id] \in Seq(Reports) /\ IsFiniteSet(Ids) /\ dups \in Nat
      /\ booked \in [Ids -> 0 .. MaxQty] /\ booked[id] \in Nat /\ LotSum(wire[id]) \in Nat
      /\ exch[id].filled \in Nat /\ exch[id].qty \in Nat
      /\ fillCount \in Nat /\ filledQty \in Nat /\ popped \in Nat /\ dropped \in Nat
      /\ fillQueue \in Seq(Fills) /\ Counted
  BY LedgerTypes DEF LedgerInv
<1>1. CASE Ignores(id, r)
  BY <1>0, <1>1 DEF Ignores, trackVars, Counted
<1>2. CASE Accepts(id, r)
  <2>1. r \in Reports /\ r.kind = "fill" /\ q \in Qtys /\ q \in Nat /\ Lot(r) = q
    <3>1. r \in Reports /\ r.kind = "fill"
      BY <1>0, <1>2, LotsType DEF Accepts
    <3>2. q \in Qtys
      BY <3>1 DEF Reports
    <3> QED BY <3>1, <3>2, BoundsAssumption DEF Lot, Qtys
  <2>2. q <= LotSum(wire[id])
    BY <1>0, <2>1, LotsRemove
  <2>. HIDE DEF q, r
  <2>3. fillCount' = popped' + Len(fillQueue') + dropped'
    <3>1. Len(fillQueue) \in Nat
      BY <1>0
    <3>2. /\ fillCount' = fillCount + 1 /\ popped' = popped
          /\ \/ dropped' = dropped /\ Len(fillQueue') = Len(fillQueue) + 1
             \/ dropped' = dropped + 1 /\ Len(fillQueue') = Len(fillQueue)
      <4>1. [id |-> id, qty |-> q] \in Fills
        BY <2>1 DEF Fills
      <4> QED BY <1>0, <1>2, <4>1 DEF Accepts, TrackerOnFill, q
    <3>3. fillCount = popped + Len(fillQueue) + dropped
      BY <1>0 DEF Counted
    <3>4. fillCount \in Nat /\ popped \in Nat /\ dropped \in Nat
      BY <1>0
    <3> QED BY <3>1, <3>2, <3>3, <3>4
  <2>4. ASSUME dups' = 0 PROVE filledQty' = SumOver(booked', Ids)
    <3>1. dups = 0
      BY <1>0, <2>4
    <3>2. filledQty = SumOver(booked, Ids) /\ booked[id] + LotSum(wire[id]) <= exch[id].filled
          /\ exch[id].filled <= exch[id].qty
      BY <1>0, <3>1 DEF Counted, Ledger
    <3>3. /\ id \in InMap /\ CanFill(Order(id), q) /\ GoodOrder(Order(id))
          /\ booked[id] = Order(id).filled /\ Order(id).qty = exch[id].qty
      BY <1>0, <1>2 DEF Accepts, Ledger, PoolInv, StatusInv, q
    <3>4. Order(id).filled + q <= Order(id).qty
      <4>1. /\ booked[id] \in Nat /\ LotSum(wire[id]) \in Nat /\ exch[id].filled \in Nat
            /\ exch[id].qty \in Nat /\ q \in Nat /\ q <= LotSum(wire[id])
        BY <1>0, <2>1, <2>2
      <4>2. booked[id] + q <= exch[id].qty
        BY <4>1, <3>2
      <4> QED BY <4>2, <3>3
    <3>5. FilledAfter(Order(id), q) = booked[id] + q
      BY <2>1, <3>3, <3>4, FillThatFits
    <3>6. booked' = [booked EXCEPT ![id] = booked[id] + q] /\ filledQty' = filledQty + q
      BY <1>2, <3>5 DEF Accepts, TrackerOnFill, q
    <3>7. /\ booked'[id] = booked[id] + q
          /\ \A x \in Ids : x # id => booked'[x] = booked[x]
          /\ \A x \in Ids : booked[x] \in Int /\ booked'[x] \in Int
      BY <1>0, <2>1, <3>6, BoundsAssumption
    <3>8. SumOver(booked', Ids) = SumOver(booked, Ids) - booked[id] + booked'[id]
      BY <1>0, <3>7, SumUpdate
    <3> QED BY <1>0, <2>1, <3>2, <3>6, <3>7, <3>8
  <2> QED BY <2>3, <2>4 DEF Counted
<1> QED BY <1>1, <1>2

\* A report of id leaves the ledgers of the other ids alone.
LEMMA HandleOthers ==
    ASSUME LedgerInv, NEW id \in Ids, NEW r \in Reports, Handle(id, r),
           Accepts(id, r) \/ Ignores(id, r),
           UNCHANGED <<orders, nextId, exch>>, mixed \subseteq mixed', dups' \in Nat, dups' >= dups,
           NEW a \in Ids, a # id, wire'[a] = wire[a]
    PROVE  Ledger(a)'
<1>0. PoolInv /\ StatusInv /\ Ledger(a) /\ InMap' = InMap
  BY DEF LedgerInv, PoolInv, InMap
<1>1. storage' = storage \/ OwnSlotOnly(id)
  BY <1>0, HandleEffect
<1>2. a \in InMap' => a \in InMap /\ Order(a)' = Order(a)
  BY <1>0, <1>1, OthersKept
<1>3. booked'[a] = booked[a]
  BY <1>0, LedgerTypes DEF Accepts, Ignores, trackVars
<1> QED BY <1>0, <1>2, <1>3, LedgerKept

\* The report at the front of an order's wire is taken, and the order is in
\* step afterwards: an acknowledgement decides the order, a fill is never
\* refused, and a cancel confirmation cannot be there.
LEMMA HeadInStep ==
    ASSUME PoolInv, NEW id \in InMap, id \in Ids, Ledger(id), 1 \in DOMAIN wire[id],
           wire'[id] = RemoveAt(wire[id], 1), exch'[id] = exch[id],
           Accepts(id, wire[id][1]) \/ Ignores(id, wire[id][1]),
           InStep(Order(id), wire[id], exch[id], booked[id])
    PROVE  InStep(Order(id)', wire'[id], exch'[id], booked'[id])
<1>. DEFINE w == wire[id]
            v == wire'[id]
            r == w[1]
            o == Order(id)
            n == Len(w)
<1>0. /\ w \in Seq(Reports) /\ booked[id] \in Nat /\ booked \in [Ids -> 0 .. MaxQty]
      /\ LotSum(w) \in Nat /\ exch[id].filled \in Nat /\ exch[id].qty \in Nat
      /\ n \in Nat /\ n >= 1 /\ w # << >> /\ DOMAIN w = 1 .. n
  BY LedgerTypes
<1>1. /\ GoodOrder(o) /\ booked[id] = o.filled /\ o.qty = exch[id].qty
      /\ exch[id].filled <= exch[id].qty
  BY DEF PoolInv, StatusInv, Ledger
<1>2. r \in Reports /\ Lot(r) \in Nat /\ LotSum(w) = Lot(r) + LotSum(v) /\ Lot(r) <= LotSum(w)
  BY <1>0, LotsType, LotsRemove
<1>3. /\ v \in Seq(Reports) /\ Len(v) = n - 1 /\ DOMAIN v = 1 .. n - 1
      /\ \A j \in DOMAIN v : v[j] = w[j + 1] /\ j + 1 \in DOMAIN w /\ j + 1 # 1
      /\ (v = << >> <=> n = 1)
  <2>1. v \in Seq(Reports) /\ Len(v) = n - 1
        /\ \A j \in 1 .. n - 1 : v[j] = w[IF j < 1 THEN j ELSE j + 1]
    BY <1>0, RemoveAtSeq
  <2>. HIDE DEF v, w
  <2>2. DOMAIN v = 1 .. n - 1
    BY <2>1
  <2>3. \A j \in 1 .. n - 1 : ~(j < 1) /\ j + 1 \in 1 .. n /\ j + 1 # 1
    BY <1>0
  <2>4. v = << >> <=> n = 1
    BY <1>0, <2>1
  <2> QED BY <1>0, <2>1, <2>2, <2>3, <2>4
<1>4. /\ booked[id] + LotSum(w) = exch[id].filled
      /\ \A i \in DOMAIN w : w[i].kind # "cancel_ack" /\ (w[i].kind = "ack" => i = 1)
      /\ o.status \notin {"PENDING_CANCEL", "CANCELLED", "REJECTED"}
      /\ exch[id].state # "sent"
      /\ r.kind = "ack" <=> o.status = "PENDING_NEW"
      /\ (r.kind = "ack" /\ r.status = "REJECTED") => n = 1 /\ exch[id].state = "done"
  BY <1>0 DEF InStep
<1>5. LotSum(v) \in Nat
  BY <1>3, LotsType
<1>. HIDE DEF w, v, r, n
<1>6. \A j \in DOMAIN v : v[j].kind # "cancel_ack" /\ v[j].kind # "ack"
  BY <1>3, <1>4
<1>7. v # << >> => v[1].kind # "ack"
  <2>1. v # << >> => 1 \in DOMAIN v
    BY <1>3, <1>0
  <2> QED BY <2>1, <1>6
<1>8. CASE r.kind = "ack"
  <2>1. Ignores(id, r)
    BY <1>8 DEF Accepts, r, w
  <2>2. r.status \in {"NEW", "REJECTED"}
    BY <1>2, <1>8 DEF Reports
  <2>3. booked' = booked /\ Order(id)'.status = r.status
    BY <2>1, <1>4, <1>8 DEF Ignores, trackVars, o
  <2>4. Lot(r) = 0
    BY <1>8 DEF Lot
  <2>5. booked'[id] + LotSum(v) = exch'[id].filled
    BY <2>3, <2>4, <1>2, <1>4, <1>5
  <2>6. r.status = "REJECTED" => v = << >> /\ exch'[id].state = "done"
    BY <1>3, <1>4, <1>8
  <2>7. exch'[id].state # "sent"
    BY <1>4
  <2>8. InStep(Order(id)', v, exch'[id], booked'[id])
    BY <1>6, <1>7, <2>2, <2>3, <2>5, <2>6, <2>7 DEF InStep
  <2> QED BY <2>8 DEF v
<1>9. CASE r.kind = "fill"
  <2>. DEFINE q == r.qty
  <2>1. q \in Qtys /\ q \in Nat /\ q > 0 /\ Lot(r) = q
    <3>1. q \in Qtys
      BY <1>2, <1>9 DEF Reports
    <3> QED BY <3>1, <1>9, BoundsAssumption DEF Qtys, Lot
  <2>. HIDE DEF q
  <2>2. o.filled + q <= o.qty
    <3>1. booked[id] + q <= exch[id].qty
      BY <1>0, <1>1, <1>2, <1>4, <2>1 DEF w
    <3> QED BY <3>1, <1>1
  <2>3. o.status \in {"NEW", "PARTIALLY_FILLED"}
    <3>1. o.status # "FILLED"
      <4>1. o.filled \in Nat /\ o.qty \in Nat
        BY <1>1, BoundsAssumption DEF GoodOrder, Orders
      <4>2. o.filled # o.qty
        BY <4>1, <2>1, <2>2
      <4> QED BY <4>2, <1>1 DEF GoodOrder
    <3>2. o.status \in Statuses
      BY <1>1 DEF GoodOrder, Orders
    <3> QED BY <3>1, <3>2, <1>4, <1>9 DEF Statuses
  <2>4. CanFill(o, q)
    BY <2>1, <2>3 DEF CanFill, IsActive, CanTransition, NextStatuses, FillTarget
  <2>5. Accepts(id, r)
    BY <2>4, <1>9 DEF Ignores, q, o, r, w
  <2>6. /\ ApplyFill(o, q).status \in {"FILLED", "PARTIALLY_FILLED"}
        /\ FilledAfter(o, q) = o.filled + q
    <3>. HIDE DEF o
    <3> QED BY <1>1, <2>1, <2>2, <2>4, FillThatFits
  <2>7. Order(id)'.status \in {"FILLED", "PARTIALLY_FILLED"} /\ booked'[id] = booked[id] + q
    <3>1. Order(id)' = ApplyFill(o, q)
      BY <2>5 DEF Accepts, q
    <3>2. booked'[id] = FilledAfter(o, q)
      BY <2>5, <1>0 DEF Accepts, q
    <3> QED BY <3>1, <3>2, <2>6, <1>1
  <2>8. booked'[id] + LotSum(v) = exch'[id].filled
    BY <1>0, <1>2, <1>4, <1>5, <2>1, <2>7
  <2>9. exch'[id].state # "sent"
    BY <1>4
  <2>10. InStep(Order(id)', v, exch'[id], booked'[id])
    BY <1>6, <1>7, <2>7, <2>8, <2>9 DEF InStep
  <2> QED BY <2>10 DEF v
<1>10. r.kind \in {"ack", "fill"}
  <2>1. r.kind # "cancel_ack"
    BY <1>4, <1>0 DEF r
  <2> QED BY <2>1, <1>2 DEF Reports
<1> QED BY <1>8, <1>9, <1>10

\* A report of id keeps what the ledger says of id's map entry.
LEMMA HandleOwn ==
    ASSUME PoolInv, NEW id \in Ids, NEW r \in Reports, Ledger(id),
           Accepts(id, r) \/ Ignores(id, r), exch' = exch, orders' = orders
    PROVE  /\ id \in InMap => booked'[id] = Order(id)'.filled /\ Order(id)'.qty = exch'[id].qty
           /\ booked'[id] \in Nat /\ booked'[id] <= booked[id] + Lot(r)
<1>0. booked \in [Ids -> 0 .. MaxQty] /\ booked[id] \in Nat
  BY LedgerTypes
<1>1. CASE Ignores(id, r)
  <2>1. Lot(r) \in Nat
    <3>1. r.kind = "fill" => r.qty \in Qtys
      BY DEF Reports
    <3> QED BY <3>1, BoundsAssumption DEF Lot, Qtys
  <2> QED BY <1>0, <1>1, <2>1 DEF Ignores, trackVars, Ledger
<1>2. CASE Accepts(id, r)
  <2>1. r.qty \in Qtys /\ Lot(r) = r.qty /\ r.qty \in Nat
    <3>1. r.qty \in Qtys
      BY <1>2 DEF Accepts, Reports
    <3> QED BY <3>1, <1>2, BoundsAssumption DEF Accepts, Lot, Qtys
  <2>2. id \in InMap /\ GoodOrder(Order(id)) /\ CanFill(Order(id), r.qty)
        /\ booked[id] = Order(id).filled /\ Order(id).qty = exch[id].qty
    BY <1>2 DEF Accepts, Ledger, PoolInv, StatusInv
  <2>3. /\ ApplyFill(Order(id), r.qty).filled = FilledAfter(Order(id), r.qty)
        /\ ApplyFill(Order(id), r.qty).qty = Order(id).qty
        /\ FilledAfter(Order(id), r.qty) <= Order(id).filled + r.qty
        /\ FilledAfter(Order(id), r.qty) \in Nat
    BY <2>1, <2>2, FillThatFits
  <2>4. Order(id)' = ApplyFill(Order(id), r.qty) /\ booked'[id] = FilledAfter(Order(id), r.qty)
    BY <1>0, <1>2 DEF Accepts
  <2> QED BY <2>1, <2>2, <2>3, <2>4
<1> QED BY <1>1, <1>2

\* A report is delivered, in its turn or out of it.
LEMMA DeliverLedger ==
    ASSUME LedgerInv, NEW id \in Ids, NEW i \in Nat, Deliver(id, i), PoolInv'
    PROVE  LedgerInv'
<1>. DEFINE w == wire[id]
            r == w[i]
<1>0. /\ PoolInv /\ StatusInv /\ Ledger(id) /\ w \in Seq(Reports) /\ i \in DOMAIN w /\ r \in Reports
      /\ dups \in Nat /\ booked[id] \in Nat /\ LotSum(w) \in Nat /\ exch[id].filled \in Nat
      /\ id \in Nat /\ nextId \in Nat
  BY LedgerTypes DEF LedgerInv, PoolInv, Deliver
<1>1. /\ Handle(id, r) /\ UNCHANGED <<orders, nextId, exch, dups>> /\ InMap' = InMap
      /\ mixed \subseteq mixed' /\ (id \notin mixed' => i = 1 /\ id \notin mixed)
      /\ wire'[id] = RemoveAt(w, i) /\ \A a \in Ids : a # id => wire'[a] = wire[a]
  BY LedgerTypes DEF Deliver, InMap, LedgerInv
<1>2. Accepts(id, r) \/ Ignores(id, r)
  BY <1>0, <1>1, HandleBooks
<1>3. ASSUME NEW a \in Ids, a # id PROVE Ledger(a)'
  <2>1. dups' \in Nat /\ dups' >= dups
    BY <1>0, <1>1
  <2>. HIDE DEF r
  <2> QED BY <1>0, <1>1, <1>2, <1>3, <2>1, HandleOthers
<1>4. Counted'
  BY <1>0, <1>1, <1>2, HandleCounts
<1>5. Ledger(id)'
  <2>1. /\ id \in InMap => booked'[id] = Order(id)'.filled /\ Order(id)'.qty = exch'[id].qty
        /\ booked'[id] \in Nat /\ booked'[id] <= booked[id] + Lot(r)
    <3>. HIDE DEF r
    <3> QED BY <1>0, <1>1, <1>2, HandleOwn
  <2>2. LotSum(w) = Lot(r) + LotSum(wire'[id]) /\ Lot(r) \in Nat /\ LotSum(wire'[id]) \in Nat
    <3>1. LotSum(w) = Lot(r) + LotSum(RemoveAt(w, i)) /\ Lot(r) \in Nat
      BY <1>0, LotsRemove, LotsType
    <3>2. LotSum(RemoveAt(w, i)) \in Nat
      BY <1>0, RemoveAtSeq, LotsType
    <3> QED BY <3>1, <3>2, <1>1, Zenon
  <2>3. ~(id >= nextId) /\ exch[id].state # "none"
    BY <1>0 DEF Ledger
  <2>4. (dups' = 0 \/ id \notin mixed') => booked'[id] + LotSum(wire'[id]) <= exch'[id].filled
    <3>. SUFFICES ASSUME dups' = 0 \/ id \notin mixed'
                  PROVE  booked'[id] + LotSum(wire'[id]) <= exch[id].filled
      BY <1>1
    <3>1. booked[id] + LotSum(w) <= exch[id].filled
      BY <1>0, <1>1 DEF Ledger
    <3>2. /\ Lot(r) \in Nat /\ LotSum(wire'[id]) \in Nat /\ booked'[id] \in Nat
          /\ booked[id] \in Nat /\ exch[id].filled \in Nat
      BY <1>0, <2>1, <2>2
    <3>3. booked'[id] <= booked[id] + Lot(r) /\ LotSum(w) = Lot(r) + LotSum(wire'[id])
      BY <2>1, <2>2
    <3>. HIDE DEF w, r
    <3> QED BY <3>1, <3>2, <3>3
  <2>5. (id \in InMap' /\ id \notin mixed' /\ ~exch'[id].cancel)
          => InStep(Order(id)', wire'[id], exch'[id], booked'[id])
    <3>. SUFFICES ASSUME id \in InMap, id \notin mixed', ~exch[id].cancel
                  PROVE  InStep(Order(id)', wire'[id], exch'[id], booked'[id])
      BY <1>1
    <3>1. i = 1 /\ InStep(Order(id), wire[id], exch[id], booked[id])
      BY <1>0, <1>1 DEF Ledger
    <3>2. 1 \in DOMAIN wire[id] /\ wire'[id] = RemoveAt(wire[id], 1) /\ exch'[id] = exch[id]
          /\ (Accepts(id, wire[id][1]) \/ Ignores(id, wire[id][1]))
      BY <1>0, <1>1, <1>2, <3>1
    <3> QED BY <1>0, <3>1, <3>2, HeadInStep
  <2>6. exch'[id].filled <= exch'[id].qty
    BY <1>0, <1>1 DEF Ledger
  <2> QED BY <1>1, <2>1, <2>3, <2>4, <2>5, <2>6 DEF Ledger
<1> QED BY <1>3, <1>4, <1>5 DEF LedgerInv

\* A report is delivered and stays on the wire.
LEMMA DuplicateLedger ==
    ASSUME LedgerInv, NEW id \in Ids, NEW i \in Nat, DeliverDuplicate(id, i), PoolInv'
    PROVE  LedgerInv'
<1>. DEFINE r == wire[id][i]
<1>0. /\ PoolInv /\ StatusInv /\ Ledger(id) /\ wire[id] \in Seq(Reports) /\ i \in DOMAIN wire[id]
      /\ r \in Reports /\ dups \in Nat /\ id \in Nat /\ nextId \in Nat
  BY LedgerTypes DEF LedgerInv, PoolInv, DeliverDuplicate
<1>1. /\ Handle(id, r) /\ UNCHANGED <<orders, nextId, exch, wire>> /\ InMap' = InMap
      /\ mixed' = mixed \cup {id} /\ dups' = dups + 1
  BY DEF DeliverDuplicate, InMap
<1>2. Accepts(id, r) \/ Ignores(id, r)
  BY <1>0, <1>1, HandleBooks
<1>3. dups' \in Nat /\ dups' >= dups /\ dups' # 0
  BY <1>0, <1>1
<1>4. ASSUME NEW a \in Ids, a # id PROVE Ledger(a)'
  <2>1. wire'[a] = wire[a] /\ mixed \subseteq mixed'
    BY <1>1
  <2>. HIDE DEF r
  <2> QED BY <1>0, <1>1, <1>2, <1>3, <1>4, <2>1, HandleOthers
<1>5. Counted'
  BY <1>0, <1>2, <1>3, HandleCounts
<1>6. Ledger(id)'
  <2>1. id \in InMap => booked'[id] = Order(id)'.filled /\ Order(id)'.qty = exch'[id].qty
    <3>. HIDE DEF r
    <3> QED BY <1>0, <1>1, <1>2, HandleOwn
  <2>2. ~(id >= nextId) /\ exch[id].state # "none" /\ exch[id].filled <= exch[id].qty
    BY <1>0 DEF Ledger
  <2> QED BY <1>1, <1>3, <2>1, <2>2 DEF Ledger
<1> QED BY <1>4, <1>5, <1>6 DEF LedgerInv

\* Every step keeps the ledger.
LEMMA NextLedger == LedgerInv /\ [Next]_vars => LedgerInv'
<1>. SUFFICES ASSUME LedgerInv, [Next]_vars PROVE LedgerInv'
  OBVIOUS
<1>1. PoolInv'
  BY NextPool DEF LedgerInv
<1>2. ASSUME NEW q \in Qtys, Submit(q) PROVE LedgerInv'
  BY <1>1, <1>2, SubmitLedger
<1>3. CASE PopFill
  BY <1>1, <1>3, PopFillLedger
<1>4. ASSUME NEW id \in Ids, Release(id) PROVE LedgerInv'
  BY <1>1, <1>4, ReleaseLedger
<1>5. ASSUME NEW id \in Ids, RequestCancel(id) PROVE LedgerInv'
  BY <1>1, <1>5, RequestCancelLedger
<1>6. ASSUME NEW id \in Ids,
             \/ ExchangeAccepts(id) \/ ExchangeRejects(id) \/ ExchangeCancels(id)
             \/ \E q \in Qtys : ExchangeFills(id, q)
      PROVE  LedgerInv'
  BY <1>1, <1>6, ExchangeActions
<1>7. ASSUME NEW id \in Ids, NEW i \in 1 .. MaxReports,
             Deliver(id, i) \/ DeliverDuplicate(id, i)
      PROVE  LedgerInv'
  <2>1. i \in Nat
    BY BoundsAssumption DEF MaxReports
  <2> QED BY <1>1, <1>7, <2>1, DeliverLedger, DuplicateLedger
<1>8. CASE UNCHANGED vars
  <2>1. \A a \in Ids : Ledger(a)'
    BY <1>8 DEF LedgerInv, Ledger, vars, omsVars, trackVars, envVars, Order, InMap
  <2>2. Counted'
    BY <1>8 DEF LedgerInv, Counted, vars, omsVars, trackVars, envVars
  <2> QED BY <1>1, <2>1, <2>2 DEF LedgerInv
<1> QED
  BY <1>2, <1>3, <1>4, <1>5, <1>6, <1>7, <1>8 DEF Next

\* OMS, its pool and FillTracker agree at every moment: no slot is lost or
\* shared, every counted fill is accounted for and no executed lot is invented
\* or lost, for any number of orders and any traffic on the wire.
THEOREM LedgerAgrees == Spec => []OmsReconciles
<1>1. LedgerInv => OmsReconciles
  <2>. SUFFICES ASSUME LedgerInv PROVE OmsReconciles
    OBVIOUS
  <2>1. PoolPartition
    BY DEF LedgerInv, PoolInv
  <2>2. TrackerAccounts
    <3>1. SumOver(booked, Ids) = MapThenSumSet(LAMBDA id : booked[id], Ids)
      BY DEF SumOver
    <3> QED BY <3>1 DEF LedgerInv, Counted, TrackerAccounts
  <2>3. FillsReconcile
    <3>. SUFFICES ASSUME NEW id \in Ids \ mixed
                  PROVE  /\ booked[id] <= exch[id].filled
                         /\ (id \in InMap /\ ~ exch[id].cancel)
                               => booked[id] + InFlight(id) = exch[id].filled
      BY DEF FillsReconcile
    <3>1. /\ wire[id] \in Seq(Reports) /\ booked[id] \in Nat /\ LotSum(wire[id]) \in Nat
          /\ exch[id].filled \in Nat /\ Ledger(id)
      BY LedgerTypes DEF LedgerInv
    <3>2. InFlight(id) = LotSum(wire[id])
      BY <3>1, InFlightIsSum DEF InFlight
    <3>3. booked[id] + LotSum(wire[id]) <= exch[id].filled
      BY <3>1 DEF Ledger
    <3>4. booked[id] <= exch[id].filled
      BY <3>1, <3>3
    <3>5. (id \in InMap /\ ~ exch[id].cancel) => booked[id] + InFlight(id) = exch[id].filled
      BY <3>1, <3>2 DEF Ledger, InStep
    <3> QED BY <3>4, <3>5
  <2> QED BY <2>1, <2>2, <2>3 DEF OmsReconciles
<1> QED
  BY <1>1, InitLedger, NextLedger, PTL DEF Spec
=============================================================================
