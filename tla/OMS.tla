-------------------------------- MODULE OMS --------------------------------
(***************************************************************************)
(* The order management system of src/src/oms: OMS owns the orders (a map  *)
(* from client order id to a slot of its MemoryPool), drives them through  *)
(* the state machine on acknowledgements, fills and cancel                 *)
(* acknowledgements, and forwards every accepted fill to FillTracker,      *)
(* whose bounded queue feeds the position layer.                           *)
(*                                                                         *)
(* OMS is not thread safe and each of its methods is one action here.      *)
(* What is concurrent is the exchange: it executes orders while reports,   *)
(* cancel requests and cancel confirmations are in flight.  The exchange   *)
(* and the wire are external.  The wire may deliver the reports of one     *)
(* order in any order and repeat one; mixed remembers for which orders it  *)
(* did, because some promises hold only for the others.                    *)
(***************************************************************************)
EXTENDS OrderStateMachine, Sequences, FiniteSets, FiniteSetsExt, SequencesExt

CONSTANTS MaxOrders,   \* bound: client order ids used
          MaxQty,      \* bound: largest order
          MaxTotal,    \* bound: quantity of all orders together
          PoolSize,    \* slots of MemoryPool<Order, N>
          QueueCap,    \* capacity of FillTracker's queue
          MaxDup       \* bound: reports delivered a second time

ASSUME BoundsAssumption ==
    /\ MaxOrders \in Nat /\ MaxQty \in Nat \ {0} /\ PoolSize \in Nat \ {0}
    /\ QueueCap \in Nat \ {0} /\ MaxDup \in Nat /\ MaxTotal \in Nat

VARIABLES orders,       \* orders_: id -> slot, for the ids in the map
          storage,      \* the Order objects in the pool's slots
          free,         \* the pool's free list, free_head_ first
          nextId,       \* next_order_id_
          fillCount,    \* FillTracker::fill_count_
          filledQty,    \* FillTracker::instrument_qty_ of the one instrument
          fillQueue,    \* FillTracker::fill_queue_
          popped,       \* history: fills consumed by the position layer
          dropped,      \* history: fills the full queue refused
          booked,       \* history: id -> quantity OMS booked as filled
          exch,         \* external: the exchange's view of each order
          wire,         \* external: reports on their way, per order
          dups,         \* reports repeated so far
          mixed         \* history: ids with a reordered or repeated report

omsVars   == <<orders, storage, free, nextId>>
trackVars == <<fillCount, filledQty, fillQueue, popped, dropped, booked>>
envVars   == <<exch, wire, dups, mixed>>
vars == <<omsVars, trackVars, envVars>>

Ids     == 1 .. MaxOrders
Slots   == 1 .. PoolSize
Qtys    == 1 .. MaxQty
InMap   == DOMAIN orders
Order(id) == storage[orders[id]]

Orders == [status : Statuses, qty : 0 .. MaxQty, filled : 0 .. MaxQty,
           exchId : {0, 1}]
Reports == [kind : {"ack"}, status : {"NEW", "REJECTED"}]
           \cup [kind : {"fill"}, qty : Qtys]
           \cup [kind : {"cancel_ack"}]
Fills == [id : Ids, qty : Qtys]

\* The exchange's view of one order.
Books == [state : {"none", "sent", "live", "done"}, qty : 0 .. MaxQty,
          filled : 0 .. MaxQty, cancel : BOOLEAN]

NoOrder == [status |-> "PENDING_NEW", qty |-> 0, filled |-> 0, exchId |-> 0]

Init ==
    /\ orders = [id \in {} |-> 1]
    /\ storage = [s \in Slots |-> NoOrder]
    /\ free = [s \in Slots |-> s]
    /\ nextId = 1
    /\ fillCount = 0 /\ filledQty = 0 /\ fillQueue = << >>
    /\ popped = 0 /\ dropped = 0
    /\ booked = [id \in Ids |-> 0]
    /\ exch = [id \in Ids |-> [state |-> "none", qty |-> 0, filled |-> 0,
                               cancel |-> FALSE]]
    /\ wire = [id \in Ids |-> << >>]
    /\ dups = 0 /\ mixed = {}

-----------------------------------------------------------------------------
(* MemoryPool: acquire takes the head of the free list, release pushes.    *)

Acquired == Head(free)

\* Mutant: the slot is not taken off the free list.
AcquireKeepsSlot == free' = free
Acquire == free' = Tail(free)
ReleaseSlot(s) == free' = <<s>> \o free

-----------------------------------------------------------------------------
(* OMS::submit.  With the pool exhausted it returns nullptr and changes    *)
(* nothing; the caller then has no order to follow.                        *)

Ordered == MapThenSumSet(LAMBDA id : exch[id].qty, Ids)

Submit(q) ==
    /\ nextId \in Ids
    /\ Ordered + q <= MaxTotal
    /\ free # << >>
    /\ Acquire
    /\ storage' = [storage EXCEPT ![Acquired] =
            [status |-> "PENDING_NEW", qty |-> q, filled |-> 0, exchId |-> 0]]
    /\ orders' = [id \in InMap \cup {nextId} |->
                    IF id = nextId THEN Acquired ELSE orders[id]]
    /\ nextId' = nextId + 1
    /\ exch' = [exch EXCEPT ![nextId].state = "sent", ![nextId].qty = q]
    /\ UNCHANGED <<trackVars, wire, dups, mixed>>

\* Mutant: the slot is freed while the map still leads to it.
ReleaseKeepsEntry(id) ==
    /\ id \in InMap
    /\ ReleaseSlot(orders[id])
    /\ UNCHANGED <<orders, storage, nextId, trackVars, envVars>>

\* OMS::release: forget the order, whatever its status, and free its slot.
Release(id) ==
    /\ id \in InMap
    /\ ReleaseSlot(orders[id])
    /\ orders' = [i \in InMap \ {id} |-> orders[i]]
    /\ UNCHANGED <<storage, nextId, trackVars, envVars>>

\* The caller asks for a cancel: find, then transition(PENDING_CANCEL).
RequestCancel(id) ==
    /\ id \in InMap
    /\ CanTransition(Order(id), "PENDING_CANCEL")
    /\ storage' = [storage EXCEPT ![orders[id]] = Transition(@, "PENDING_CANCEL")]
    /\ exch' = [exch EXCEPT ![id].cancel = TRUE]
    /\ UNCHANGED <<orders, free, nextId, trackVars, wire, dups, mixed>>

-----------------------------------------------------------------------------
(* OMS::on_ack, on_fill, on_cancel_ack.  A report for an id that is not in *)
(* the map is ignored.                                                     *)

\* on_ack stores the exchange's id before it asks the state machine.
OnAck(id, status) ==
    /\ storage' = IF id \in InMap
                  THEN [storage EXCEPT ![orders[id]] =
                          Transition([@ EXCEPT !.exchId =
                                        IF status = "NEW" THEN 1 ELSE 0],
                                     status)]
                  ELSE storage
    /\ UNCHANGED trackVars

\* FillTracker::on_fill: count, then push; a full queue drops the fill.
TrackerOnFill(id, q) ==
    /\ fillCount' = fillCount + 1
    /\ filledQty' = filledQty + q
    /\ IF Len(fillQueue) < QueueCap
       THEN /\ fillQueue' = Append(fillQueue, [id |-> id, qty |-> q])
            /\ dropped' = dropped
       ELSE /\ dropped' = dropped + 1
            /\ fillQueue' = fillQueue
    /\ UNCHANGED popped

\* Mutant: refused fills are forwarded to the tracker as well.
OnFillForwardsAll(id, q) ==
    /\ storage' = IF id \in InMap
                  THEN [storage EXCEPT ![orders[id]] = ApplyFill(@, q)]
                  ELSE storage
    /\ TrackerOnFill(id, q)
    /\ UNCHANGED booked

\* OMS::on_fill: the state machine first, then the tracker if it accepted.
OnFill(id, q) ==
    \/ /\ id \in InMap
       /\ CanFill(Order(id), q)
       /\ storage' = [storage EXCEPT ![orders[id]] = ApplyFill(@, q)]
       /\ booked' = [booked EXCEPT ![id] = FilledAfter(Order(id), q)]
       /\ TrackerOnFill(id, q)
    \/ /\ ~ (id \in InMap /\ CanFill(Order(id), q))
       /\ UNCHANGED <<storage, trackVars>>

OnCancelAck(id) ==
    /\ storage' = IF id \in InMap
                  THEN [storage EXCEPT ![orders[id]] = Transition(@, "CANCELLED")]
                  ELSE storage
    /\ UNCHANGED trackVars

Handle(id, r) ==
    \/ r.kind = "ack" /\ OnAck(id, r.status)
    \/ r.kind = "fill" /\ OnFill(id, r.qty)
    \/ r.kind = "cancel_ack" /\ OnCancelAck(id)

\* FillTracker::pop_fill, called by the position layer.
PopFill ==
    /\ fillQueue # << >>
    /\ fillQueue' = Tail(fillQueue)
    /\ popped' = popped + 1
    /\ UNCHANGED <<omsVars, fillCount, filledQty, dropped, booked, envVars>>

-----------------------------------------------------------------------------
(* The exchange and the wire (external).                                   *)

Report(id, r) == wire' = [wire EXCEPT ![id] = Append(@, r)]

ExchangeAccepts(id) ==
    /\ exch[id].state = "sent"
    /\ exch' = [exch EXCEPT ![id].state = "live"]
    /\ Report(id, [kind |-> "ack", status |-> "NEW"])
    /\ UNCHANGED <<omsVars, trackVars, dups, mixed>>

ExchangeRejects(id) ==
    /\ exch[id].state = "sent"
    /\ exch' = [exch EXCEPT ![id].state = "done"]
    /\ Report(id, [kind |-> "ack", status |-> "REJECTED"])
    /\ UNCHANGED <<omsVars, trackVars, dups, mixed>>

ExchangeFills(id, q) ==
    /\ exch[id].state = "live"
    /\ exch[id].filled + q <= exch[id].qty
    /\ exch' = [exch EXCEPT ![id].filled = @ + q,
                    ![id].state = IF exch[id].filled + q = exch[id].qty
                                  THEN "done" ELSE "live"]
    /\ Report(id, [kind |-> "fill", qty |-> q])
    /\ UNCHANGED <<omsVars, trackVars, dups, mixed>>

ExchangeCancels(id) ==
    /\ exch[id].state = "live"
    /\ exch[id].cancel
    /\ exch' = [exch EXCEPT ![id].state = "done"]
    /\ Report(id, [kind |-> "cancel_ack"])
    /\ UNCHANGED <<omsVars, trackVars, dups, mixed>>

\* A report arrives; the wire may lose the order but no report.
Deliver(id, i) ==
    /\ i \in DOMAIN wire[id]
    /\ Handle(id, wire[id][i])
    /\ wire' = [wire EXCEPT ![id] = RemoveAt(@, i)]
    /\ mixed' = IF i = 1 THEN mixed ELSE mixed \cup {id}
    /\ UNCHANGED <<orders, free, nextId, exch, dups>>

\* A report arrives and will arrive again.
DeliverDuplicate(id, i) ==
    /\ dups < MaxDup
    /\ i \in DOMAIN wire[id]
    /\ Handle(id, wire[id][i])
    /\ dups' = dups + 1
    /\ mixed' = mixed \cup {id}
    /\ UNCHANGED <<orders, free, nextId, exch, wire>>

MaxReports == MaxQty + 2    \* reports of one order: ack, fills, cancel ack

Next ==
    \/ \E q \in Qtys : Submit(q)
    \/ PopFill
    \/ \E id \in Ids :
        \/ Release(id)
        \/ RequestCancel(id)
        \/ ExchangeAccepts(id)
        \/ ExchangeRejects(id)
        \/ \E q \in Qtys : ExchangeFills(id, q)
        \/ ExchangeCancels(id)
        \/ \E i \in 1 .. MaxReports : Deliver(id, i) \/ DeliverDuplicate(id, i)

Spec == Init /\ [][Next]_vars

\* The session thread keeps delivering what the exchange sent.
FairSpec == Spec /\ \A id \in Ids : WF_vars(Deliver(id, 1))

-----------------------------------------------------------------------------
PoolTypes ==
    /\ InMap \subseteq Ids /\ orders \in [InMap -> Slots]
    /\ storage \in [Slots -> Orders]
    /\ free \in Seq(Slots)
    /\ nextId \in 1 .. MaxOrders + 1

TrackTypes ==
    /\ fillCount \in Nat /\ filledQty \in Nat
    /\ fillQueue \in Seq(Fills) /\ popped \in Nat /\ dropped \in Nat
    /\ booked \in [Ids -> 0 .. MaxQty]

EnvTypes ==
    /\ exch \in [Ids -> Books]
    /\ wire \in [Ids -> Seq(Reports)]
    /\ dups \in 0 .. MaxDup
    /\ mixed \subseteq Ids

\* Every variable stays in its type: quantities never exceed the largest
\* order, ids and slots exist.
TypeOK == PoolTypes /\ TrackTypes /\ EnvTypes

(***************************************************************************)
(* Status and quantity of every order in the map agree: FILLED exactly     *)
(* when the whole quantity is filled, PARTIALLY_FILLED strictly between,   *)
(* nothing filled before the exchange accepted, never more than ordered.   *)
(* Holds whatever the order of the reports and with repeated reports.      *)
(***************************************************************************)
StatusMatchesQuantity ==
    \A id \in InMap : LET o == Order(id) IN
        /\ o.filled <= o.qty
        /\ o.status = "FILLED" <=> o.filled = o.qty
        /\ o.status = "PARTIALLY_FILLED" => o.filled > 0
        /\ o.status \in {"PENDING_NEW", "NEW", "REJECTED"} => o.filled = 0

(***************************************************************************)
(* The pool's slots are partitioned: each is either in the free list, once *)
(* or the home of exactly one order of the map.                            *)
(***************************************************************************)
PoolPartition ==
    /\ \A i, j \in DOMAIN free : free[i] = free[j] => i = j
    /\ \A a, b \in InMap : orders[a] = orders[b] => a = b
    /\ \A i \in DOMAIN free, a \in InMap : free[i] # orders[a]
    /\ Len(free) + Cardinality(InMap) = PoolSize

\* Every counted fill is with the position layer, queued, or was dropped by
\* the full queue; and until a report is repeated the tracker's quantity is the
\* sum of what the orders booked.
TrackerAccounts ==
    /\ fillCount = popped + Len(fillQueue) + dropped
    /\ dups = 0 => filledQty = MapThenSumSet(LAMBDA id : booked[id], Ids)

InFlight(id) ==
    FoldSeq(LAMBDA r, sum : sum + IF r.kind = "fill" THEN r.qty ELSE 0, 0, wire[id])

(***************************************************************************)
(* As long as the wire has kept the order of an order's reports, OMS       *)
(* neither invents nor loses a fill of it: it never books more than the    *)
(* exchange executed, and booked plus still in flight is exactly that,     *)
(* unless a cancel was requested.                                          *)
(***************************************************************************)
FillsReconcile ==
    \A id \in Ids \ mixed :
        /\ booked[id] <= exch[id].filled
        /\ (id \in InMap /\ ~ exch[id].cancel)
               => booked[id] + InFlight(id) = exch[id].filled

\* OMS, its pool and its fill tracker agree: slots, fill counters and booked
\* quantities add up at every moment.
OmsReconciles == PoolPartition /\ TrackerAccounts /\ FillsReconcile

\* A terminal order is frozen: as long as its id stays in the map its status
\* and filled quantity never change again, whatever arrives late.
TerminalIsFinal ==
    [][\A id \in InMap :
          (IsTerminal(Order(id).status) /\ id \in DOMAIN orders') =>
              /\ Order(id)'.status = Order(id).status
              /\ Order(id)'.filled = Order(id).filled]_vars

\* A report that arrives late, for an order released meanwhile, never touches
\* the order that reuses its slot: a report changes no order but its own.
LateReportIsIsolated ==
    [][\A a, b \in Ids :
          (/\ a # b /\ Len(wire'[a]) < Len(wire[a])
           /\ b \in InMap /\ b \in DOMAIN orders')
          => Order(b)' = Order(b)]_vars

\* An order the exchange executed completely ends up FILLED in OMS, unless it
\* is released or cancelled, or the wire mixes up its reports.
ExecutedGetsFilled ==
    \A id \in Ids :
        (exch[id].state = "done" /\ exch[id].filled = exch[id].qty /\ id \in InMap)
        ~> \/ id \notin InMap \/ exch[id].cancel \/ id \in mixed
           \/ Order(id).status = "FILLED"
=============================================================================
