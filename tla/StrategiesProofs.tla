-------------------------- MODULE StrategiesProofs --------------------------
(***************************************************************************)
(* Theorems about src/src/strategy and src/src/execution: what the three   *)
(* strategies believe of the market against what is really in it, for any  *)
(* sizes, queue and sequence of mishaps; and Twap, Vwap and Pov, for every *)
(* order size, number of slices, volume profile, participation rate and    *)
(* jitter, whatever the fills and restarts.                                *)
(***************************************************************************)
EXTENDS Trading, SumTheorems

-----------------------------------------------------------------------------
(* Strategies                                                              *)

Orders == [leg : Legs, sign : {1, -1}, qty : Nat]
Acks == [id : Nat, ok : BOOLEAN]

\* What the variables hold, and which ones a strategy leaves alone.
StrategyType ==
    /\ kind \in Kinds /\ queue \in Seq(Orders) /\ flight \in Seq(Orders)
    /\ inv \in [Legs -> Int] /\ bidId \in Nat /\ askId \in Nat
    /\ sides \in Seq({1, -1}) /\ cancels \in Seq(Nat) /\ acks \in Seq(Acks)
    /\ sideOf \in Seq({1, -1}) /\ nextId = Len(sideOf) + 1
    /\ kind # "Momentum" => pc = "idle"
    /\ kind # "MarketMaker" => live = {}

\* A queue accepts what comes first, and everything if there is room.
IsPrefix2(p, s, S) ==
    /\ p \in Seq(S) /\ Len(p) <= Len(s) /\ \A i \in 1 .. Len(p) : p[i] = s[i]

\* Fitting takes a prefix of what it is offered.
LEMMA FittingIsPrefix ==
    ASSUME NEW S, NEW s \in Seq(S), NEW T, NEW q \in Seq(T), NEW cap \in Nat
    PROVE  IsPrefix2(Fitting(s, q, cap), s, S)
<1>. DEFINE m == Min({Len(s), cap - Len(q)})
<1>1. m \in Int /\ m <= Len(s) /\ Len(s) \in Nat
  <2>1. Len(s) \in Int /\ cap - Len(q) \in Int
    OBVIOUS
  <2> HIDE DEF m
  <2>2. m \in {Len(s), cap - Len(q)} /\ m <= Len(s)
    BY <2>1, MinOfTwo DEF m
  <2> QED BY <2>1, <2>2
<1>2. Fitting(s, q, cap) = SubSeq(s, 1, m)
  BY DEF Fitting
<1>. HIDE DEF m
<1>3. SubSeq(s, 1, m) \in Seq(S) /\ Len(SubSeq(s, 1, m)) = IF 1 <= m THEN m ELSE 0
  BY <1>1
<1>4. \A i \in 1 .. Len(SubSeq(s, 1, m)) : SubSeq(s, 1, m)[i] = s[i]
  BY <1>1, <1>3
<1>5. Len(SubSeq(s, 1, m)) <= Len(s)
  BY <1>1, <1>3
<1> QED BY <1>2, <1>3, <1>4, <1>5 DEF IsPrefix2

\* The orders a callback sends reach the queue as a prefix, the whole of it unless
\* one is dropped, and nothing is under way before unless it decides early.
LEMMA SendOrdersFacts ==
    ASSUME StrategyType, NEW orders \in Seq(Orders), SendOrders(orders)
    PROVE  /\ queue' = queue \o Accepted(orders) /\ IsPrefix2(Accepted(orders), orders, Orders)
           /\ queue' \in Seq(Orders) /\ mishaps \subseteq mishaps'
           /\ "dropped" \notin mishaps' => queue' = queue \o orders
           /\ "early" \notin mishaps' /\ orders # << >> => queue = << >> /\ flight = << >>
<1>1. IsPrefix2(Accepted(orders), orders, Orders)
  BY FittingIsPrefix, StrategyAssumption DEF Accepted, StrategyType
<1>2. queue' = queue \o Accepted(orders) /\ queue' \in Seq(Orders) /\ mishaps \subseteq mishaps'
  BY <1>1 DEF SendOrders, StrategyType, IsPrefix2
<1>3. "dropped" \notin mishaps' => queue' = queue \o orders
  BY DEF SendOrders
<1>4. "early" \notin mishaps' /\ orders # << >> => queue = << >> /\ flight = << >>
  BY DEF SendOrders, Waiting
<1> QED BY <1>1, <1>2, <1>3, <1>4

-----------------------------------------------------------------------------

\* An order as Order builds it.
LEMMA OrderType ==
    ASSUME NEW l \in Legs, NEW g \in {1, -1}, NEW q \in Nat
    PROVE  /\ Order(l, g, q) \in Orders /\ <<Order(l, g, q)>> \in Seq(Orders)
           /\ Order(l, g, q).leg = l /\ Order(l, g, q).sign = g /\ Order(l, g, q).qty = q
BY DEF Order, Orders

\* Whatever a strategy sends is a sequence of orders.
LEMMA SentType ==
    ASSUME StrategyType
    PROVE  /\ \A g \in {1, -1} : Pair(g) \in Seq(Orders)
           /\ \A sig : <<Order("A", IF sig = "LONG" THEN 1 ELSE -1, OrderQty)>> \in Seq(Orders)
           /\ CloseOrders \in Seq(Orders) /\ Quotes \in Seq(Orders)
<1>1. "A" \in Legs /\ "B" \in Legs /\ OrderQty \in Nat
  BY StrategyAssumption DEF Legs
<1>2. ASSUME NEW g \in {1, -1} PROVE Pair(g) \in Seq(Orders)
  <2>1. -g \in {1, -1}
    OBVIOUS
  <2>2. Order("A", g, OrderQty) \in Orders /\ Order("B", -g, OrderQty) \in Orders
    BY <1>1, <2>1, OrderType
  <2> QED BY <2>2 DEF Pair
<1>3. ASSUME NEW sig
      PROVE  <<Order("A", IF sig = "LONG" THEN 1 ELSE -1, OrderQty)>> \in Seq(Orders)
  BY <1>1, OrderType
<1>4. CloseOrders \in Seq(Orders)
  <2>1. inv["A"] \in Int
    BY <1>1 DEF StrategyType
  <2>2. CloseQty \in Nat
    BY <2>1 DEF CloseQty, Abs
  <2> QED BY <1>1, <2>2, OrderType DEF CloseOrders
<1>5. Quotes \in Seq(Orders)
  <2>1. << >> \in Seq(Orders) /\ <<Order("A", 1, OrderQty)>> \in Seq(Orders)
         /\ <<Order("A", -1, OrderQty)>> \in Seq(Orders)
    BY <1>1, OrderType
  <2> QED BY <2>1 DEF Quotes
<1> QED BY <1>2, <1>3, <1>4, <1>5

\* The initial state has the types.
LEMMA StrategyInitType == Init => StrategyType
BY DEF Init, MakerInit, MomentumInit, ArbInit, StrategyType

\* The market maker's callbacks keep the types.
LEMMA MakerType ==
    ASSUME StrategyType,
           \/ \E mid \in Mids : MakerOnBbo(mid)
           \/ MakerOnAck \/ MakerOrderRefused \/ MakerCancelled
           \/ \E ok \in BOOLEAN : MakerOrderAnswered(ok)
           \/ \E id \in DOMAIN sideOf : MakerOnFill(id)
    PROVE  StrategyType'
<1>1. ASSUME NEW mid \in Mids, MakerOnBbo(mid) PROVE StrategyType'
  <2>. DEFINE known == Accepted(Quotes)
              room  == Fitting(known, sides, SideCap)
              out   == Fitting(ActiveIds, cancels, CancelCap)
  <2>1. known \in Seq(Orders)
    BY SentType, FittingIsPrefix, StrategyAssumption DEF Accepted, StrategyType, IsPrefix2
  <2>2. room \in Seq(Orders)
    BY <2>1, FittingIsPrefix, StrategyAssumption DEF StrategyType, IsPrefix2
  <2>3. ActiveIds \in Seq(Nat)
    BY DEF ActiveIds, Known, StrategyType
  <2>4. out \in Seq(Nat)
    BY <2>3, FittingIsPrefix, StrategyAssumption DEF StrategyType, IsPrefix2
  <2>5. [i \in DOMAIN room |-> room[i].sign] \in Seq({1, -1})
    <3>1. DOMAIN room = 1 .. Len(room) /\ Len(room) \in Nat /\ \A i \in DOMAIN room : room[i] \in Orders
      BY <2>2
    <3> HIDE DEF room
    <3> QED BY <3>1 DEF Orders
  <2>6. /\ queue' = queue \o known /\ sides' = sides \o [i \in DOMAIN room |-> room[i].sign]
        /\ cancels' = cancels \o out /\ bidId' = 0 /\ askId' = 0
        /\ UNCHANGED <<kind, flight, inv, acks, live, nextId, sideOf, pc>>
    BY <1>1 DEF MakerOnBbo, momVars
  <2>. HIDE DEF known, room, out
  <2>7. queue' \in Seq(Orders) /\ cancels' \in Seq(Nat)
    BY <2>1, <2>4, <2>6 DEF StrategyType
  <2>8. sides' \in Seq({1, -1})
    <3>. DEFINE new == [i \in DOMAIN room |-> room[i].sign]
    <3>1. new \in Seq({1, -1}) /\ sides \in Seq({1, -1}) /\ sides' = sides \o new
      BY <2>5, <2>6 DEF StrategyType
    <3> HIDE DEF new
    <3> QED BY <3>1
  <2> QED BY <2>6, <2>7, <2>8 DEF StrategyType
<1>2. CASE MakerOnAck
  <2>1. /\ acks # << >> /\ acks' = Tail(acks) /\ Head(acks) \in Acks
    BY <1>2 DEF MakerOnAck, StrategyType
  <2>2. UNCHANGED <<kind, queue, flight, inv, cancels, sideOf, nextId, pc, live>>
    BY <1>2 DEF MakerOnAck, common, momVars
  <2>3. sides' \in Seq({1, -1})
    <3>1. sides \in Seq({1, -1})
      BY DEF StrategyType
    <3>2. sides' = sides \/ (sides # << >> /\ sides' = Tail(sides))
      BY <1>2 DEF MakerOnAck, SidesAfterReject
    <3> QED BY <3>1, <3>2
  <2>4. Head(acks).id \in Nat
    BY <2>1 DEF Acks
  <2>5. bidId' \in Nat /\ askId' \in Nat
    BY <1>2, <2>4 DEF MakerOnAck, StrategyType
  <2> QED BY <2>1, <2>2, <2>3, <2>5 DEF StrategyType
<1>3. CASE MakerOrderRefused
  BY <1>3 DEF MakerOrderRefused, StrategyType, mmVars, momVars
<1>4. CASE MakerCancelled
  BY <1>4 DEF MakerCancelled, StrategyType, common, momVars
<1>5. ASSUME NEW ok \in BOOLEAN, MakerOrderAnswered(ok) PROVE StrategyType'
  <2>1. Head(queue) \in Orders /\ queue # << >>
    BY <1>5 DEF MakerOrderAnswered, StrategyType
  <2>2. queue' \in Seq(Orders) /\ kind = "MarketMaker"
    BY <1>5 DEF MakerOrderAnswered, StrategyType
  <2>3. nextId \in Nat /\ [id |-> nextId, ok |-> ok] \in Acks
    BY DEF Acks, StrategyType
  <2>4. acks' \in Seq(Acks)
    BY <1>5, <2>3 DEF MakerOrderAnswered, StrategyType
  <2>5. Head(queue).sign \in {1, -1}
    BY <2>1 DEF Orders
  <2>6. sideOf' \in Seq({1, -1}) /\ nextId' = Len(sideOf') + 1
    BY <1>5, <2>5 DEF MakerOrderAnswered, StrategyType
  <2>7. UNCHANGED <<kind, flight, inv, bidId, askId, sides, cancels, pc>>
    BY <1>5 DEF MakerOrderAnswered, momVars
  <2> QED BY <2>2, <2>4, <2>6, <2>7 DEF StrategyType
<1>6. ASSUME NEW id \in DOMAIN sideOf, MakerOnFill(id) PROVE StrategyType'
  <2>1. sideOf[id] \in {1, -1} /\ OrderQty \in Nat /\ "A" \in Legs /\ inv["A"] \in Int
    BY StrategyAssumption DEF StrategyType, Legs
  <2>2. sideOf[id] * OrderQty \in Int
    BY <2>1
  <2>3. inv' = [inv EXCEPT !["A"] = @ + sideOf[id] * OrderQty] /\ id \in live /\ live' = live \ {id}
         /\ UNCHANGED <<kind, queue, flight, bidId, askId, sides, cancels, acks, nextId, sideOf, pc>>
    BY <1>6 DEF MakerOnFill, momVars
  <2>4. inv' \in [Legs -> Int]
    BY <2>1, <2>2, <2>3 DEF StrategyType
  <2> QED BY <2>3, <2>4 DEF StrategyType
<1> QED BY <1>1, <1>2, <1>3, <1>4, <1>5, <1>6

\* A signed quantity, without a product.
LEMMA FillArithmetic ==
    ASSUME NEW o \in Orders, NEW q \in Nat
    PROVE  o.sign * q \in Int /\ (o.sign = 1 => o.sign * q = q) /\ (o.sign = -1 => o.sign * q = -q)
BY DEF Orders

\* Every step keeps the types.
LEMMA StrategyTypeStep ==
    ASSUME StrategyType, [Next]_vars PROVE StrategyType'
<1>1. ASSUME NEW mid \in Mids, MomentumStop(mid) PROVE StrategyType'
  BY <1>1 DEF MomentumStop, StrategyType, mmVars
<1>2. CASE MomentumSignal
  <2>1. kind = "Momentum" /\ UNCHANGED <<kind, flight, inv, bidId, askId, sides, cancels, acks,
                                         live, nextId, sideOf>>
    BY <1>2 DEF MomentumSignal, mmVars, StrategyType
  <2>2. queue' \in Seq(Orders)
    <3>1. CASE queue' = queue
      BY <3>1 DEF StrategyType
    <3>2. CASE OpenPosition(Signal)
      BY <3>2, SentType, SendOrdersFacts DEF OpenPosition
    <3> QED BY <1>2, <3>1, <3>2 DEF MomentumSignal
  <2> QED BY <2>1, <2>2 DEF StrategyType
<1>3. CASE MomentumClose
  <2>1. kind = "Momentum" /\ UNCHANGED <<kind, flight, inv, bidId, askId, sides, cancels, acks,
                                         live, nextId, sideOf>>
    BY <1>3 DEF MomentumClose, mmVars, StrategyType
  <2>2. queue' \in Seq(Orders)
    BY <1>3, SentType, SendOrdersFacts DEF MomentumClose, ClosePosition
  <2> QED BY <2>1, <2>2 DEF StrategyType
<1>4. ASSUME NEW z \in Zones, ArbOnBbo(z) PROVE StrategyType'
  <2>1. UNCHANGED <<kind, flight, inv, bidId, askId, sides, cancels, acks, live, nextId, sideOf, pc>>
    BY <1>4 DEF ArbOnBbo, mmVars, momVars
  <2>2. PICK g \in {1, -1} : SendOrders(Pair(g))
    BY <1>4 DEF ArbOnBbo, ArbOpens, ArbCloses, ClosingSign
  <2>3. queue' \in Seq(Orders)
    BY <2>2, SentType, SendOrdersFacts
  <2> QED BY <2>1, <2>3 DEF StrategyType
<1>5. CASE PopOrder
  BY <1>5 DEF PopOrder, StrategyType, mmVars, momVars
<1>6. ASSUME NEW q \in 0 .. OrderQty * MaxFlight, OnIocFill(q) PROVE StrategyType'
  <2>1. Head(flight) \in Orders /\ flight # << >>
    BY <1>6 DEF OnIocFill, StrategyType
  <2>2. q \in Nat /\ Head(flight).sign * q \in Int /\ Head(flight).leg \in Legs
    BY <2>1, FillArithmetic DEF Orders
  <2>3. inv' \in [Legs -> Int] /\ flight' \in Seq(Orders)
    BY <1>6, <2>2 DEF OnIocFill, StrategyType
  <2>4. UNCHANGED <<kind, queue, bidId, askId, sides, cancels, acks, live, nextId, sideOf, pc>>
    BY <1>6 DEF OnIocFill, mmVars, momVars
  <2> QED BY <2>3, <2>4 DEF StrategyType
<1>7. CASE UNCHANGED vars
  BY <1>7 DEF vars, common, mmVars, momVars, StrategyType
<1> QED BY <1>1, <1>2, <1>3, <1>4, <1>5, <1>6, <1>7, MakerType DEF Next

-----------------------------------------------------------------------------
(* Momentum: one order at a time, and none that adds to what is held       *)

\* An order Momentum may have out while it holds x: it opens from nothing or
\* reduces.
Reduces(o, x) ==
    /\ o.leg = "A"
    /\ o.qty <= (IF x = 0 THEN OrderQty ELSE Abs(x))
    /\ x > 0 => o.sign = -1
    /\ x < 0 => o.sign = 1

MomentumInv ==
    (kind = "Momentum" /\ "early" \notin mishaps) =>
        /\ Abs(inv["A"]) <= OrderQty
        /\ Len(queue) + Len(flight) <= 1
        /\ \A i \in DOMAIN queue : Reduces(queue[i], inv["A"])
        /\ \A i \in DOMAIN flight : Reduces(flight[i], inv["A"])

\* Nothing waits, and at most one order goes out.
LEMMA MomentumSends ==
    ASSUME StrategyType, MomentumInv, kind' = "Momentum", UNCHANGED <<kind, flight, inv>>,
           NEW orders \in Seq(Orders), SendOrders(orders), Len(orders) <= 1,
           \A i \in DOMAIN orders : Reduces(orders[i], inv["A"])
    PROVE  MomentumInv'
<1>. SUFFICES ASSUME "early" \notin mishaps' PROVE MomentumInv'
  BY DEF MomentumInv
<1>1. queue' = queue \o Accepted(orders) /\ IsPrefix2(Accepted(orders), orders, Orders)
       /\ (orders # << >> => queue = << >> /\ flight = << >>) /\ "early" \notin mishaps
  BY SendOrdersFacts
<1>2. /\ Abs(inv["A"]) <= OrderQty /\ Len(queue) + Len(flight) <= 1
      /\ \A i \in DOMAIN queue : Reduces(queue[i], inv["A"])
      /\ \A i \in DOMAIN flight : Reduces(flight[i], inv["A"])
  BY <1>1 DEF MomentumInv
<1>3. inv' = inv /\ flight' = flight /\ Abs(inv["A"])' = Abs(inv["A"])
  BY DEF Abs
<1>4. PICK acc \in Seq(Orders) : acc = Accepted(orders) /\ Len(acc) <= Len(orders)
                                 /\ \A i \in 1 .. Len(acc) : acc[i] = orders[i]
  BY <1>1 DEF IsPrefix2
<1>5. CASE orders = << >>
  <2>1. acc = << >>
    BY <1>4, <1>5
  <2>2. queue' = queue
    BY <1>1, <1>4, <2>1 DEF StrategyType
  <2> QED BY <1>2, <1>3, <2>2 DEF MomentumInv
<1>6. CASE orders # << >>
  <2>1. queue' = acc /\ flight' = << >>
    BY <1>1, <1>3, <1>4, <1>6
  <2>2. \A i \in DOMAIN acc : Reduces(acc[i], inv["A"])
    <3>1. ASSUME NEW i \in DOMAIN acc PROVE Reduces(acc[i], inv["A"])
      <4>1. i \in 1 .. Len(acc) /\ i \in DOMAIN orders
        BY <1>4
      <4>2. acc[i] = orders[i]
        BY <1>4, <4>1
      <4> QED BY <4>1, <4>2
    <3> QED BY <3>1
  <2>3. Len(queue') + Len(flight') <= 1
    BY <1>4, <2>1
  <2>4. \A i \in DOMAIN queue' : Reduces(queue'[i], inv'["A"])
    BY <1>3, <2>1, <2>2
  <2>5. \A i \in DOMAIN flight' : Reduces(flight'[i], inv'["A"])
    BY <2>1
  <2> QED BY <1>2, <1>3, <2>3, <2>4, <2>5 DEF MomentumInv
<1> QED BY <1>5, <1>6

\* An order that only reduces leaves a position no larger and not turned
\* around, however much of it is filled; and then nothing is out.
LEMMA FillReduces ==
    ASSUME NEW x \in Int, NEW o \in Orders, Reduces(o, x), Abs(x) <= OrderQty,
           NEW q \in Nat, q <= o.qty
    PROVE  Abs(x + o.sign * q) <= OrderQty /\ x * (x + o.sign * q) >= 0
<1>1. o.sign * q \in Int /\ (o.sign = 1 => o.sign * q = q) /\ (o.sign = -1 => o.sign * q = -q)
       /\ o.qty \in Nat /\ o.sign \in {1, -1} /\ OrderQty \in Nat
  BY FillArithmetic, StrategyAssumption DEF Orders
<1>2. PICK d \in Int : d = o.sign * q
  BY <1>1
<1>3. CASE x = 0
  BY <1>1, <1>2, <1>3 DEF Reduces, Abs
<1>4. CASE x > 0
  <2>1. d = -q /\ q <= x /\ x <= OrderQty
    BY <1>1, <1>2, <1>4 DEF Reduces, Abs
  <2>2. x + d \in Nat /\ x + d <= OrderQty
    BY <1>1, <2>1, <1>4
  <2>3. x * (x + d) >= 0
    BY <2>2, <1>4
  <2> QED BY <1>2, <2>2, <2>3 DEF Abs
<1>5. CASE x < 0
  <2>1. d = q /\ q <= -x /\ -x <= OrderQty
    BY <1>1, <1>2, <1>5 DEF Reduces, Abs
  <2>2. -(x + d) \in Nat /\ -(x + d) <= OrderQty
    BY <1>1, <2>1, <1>5
  <2>3. x * (x + d) >= 0
    <3>1. PICK m \in Nat : x = -m
      BY <1>5
    <3>2. PICK n \in Nat : x + d = -n
      BY <2>2
    <3>3. (-m) * (-n) = m * n /\ m * n >= 0
      OBVIOUS
    <3> QED BY <3>1, <3>2, <3>3
  <2> QED BY <1>2, <2>2, <2>3 DEF Abs
<1> QED BY <1>3, <1>4, <1>5

MomentumDirection ==
    (kind = "Momentum" /\ "early" \notin mishaps') =>
        Abs(inv["A"]') <= OrderQty /\ inv["A"] * inv["A"]' >= 0

\* One order in two sequences that hold one at most.
LEMMA OneOfTwo ==
    ASSUME NEW m \in Nat, NEW n \in Nat, m + n <= 1, m >= 1
    PROVE  m = 1 /\ n = 0
OBVIOUS

\* What a fill does.
LEMMA MomentumFill ==
    ASSUME StrategyType, MomentumInv, NEW q \in Nat, OnIocFill(q), kind = "Momentum",
           "early" \notin mishaps'
    PROVE  MomentumInv' /\ MomentumDirection
<1>1. /\ flight # << >> /\ q <= Head(flight).qty /\ flight' = Tail(flight)
      /\ inv' = [inv EXCEPT ![Head(flight).leg] = @ + Head(flight).sign * q]
      /\ "early" \notin mishaps /\ UNCHANGED <<queue, kind>>
  BY DEF OnIocFill
<1>2. /\ Abs(inv["A"]) <= OrderQty /\ Len(queue) + Len(flight) <= 1
      /\ \A i \in DOMAIN flight : Reduces(flight[i], inv["A"])
  BY <1>1 DEF MomentumInv
<1>3. flight \in Seq(Orders) /\ queue \in Seq(Orders) /\ inv["A"] \in Int /\ inv \in [Legs -> Int]
  BY DEF StrategyType, Legs
<1>4. queue' = << >> /\ flight' = << >> /\ Len(flight) = 1
  <2>1. Len(flight) >= 1 /\ Len(queue) \in Nat /\ Len(flight) \in Nat
    BY <1>1, <1>3
  <2>1a. Len(flight) + Len(queue) <= 1
    BY <1>2, <2>1
  <2>2. Len(flight) = 1 /\ Len(queue) = 0
    BY <2>1, <2>1a, OneOfTwo
  <2> QED BY <1>1, <1>3, <2>2, OneElement
<1>5. PICK o \in Orders : o = Head(flight) /\ Reduces(o, inv["A"])
  <2>1. Head(flight) = flight[1] /\ Head(flight) \in Orders
    BY <1>3, <1>4, OneElement
  <2>2. 1 \in DOMAIN flight
    BY <1>3, <1>4
  <2> QED BY <1>2, <2>1, <2>2
<1>6. Abs(inv["A"] + o.sign * q) <= OrderQty /\ inv["A"] * (inv["A"] + o.sign * q) >= 0
  BY <1>1, <1>2, <1>3, <1>5, FillReduces
<1>7. inv'["A"] = inv["A"] + o.sign * q
  BY <1>1, <1>3, <1>5 DEF Reduces, Legs
<1>8. inv["A"]' = inv'["A"] /\ Abs(inv["A"])' = Abs(inv["A"] + o.sign * q)
  BY <1>7 DEF Abs
<1>9. Abs(inv["A"]') <= OrderQty /\ inv["A"] * inv["A"]' >= 0
  BY <1>6, <1>7, <1>8
<1>10. Abs(inv["A"])' <= OrderQty
  BY <1>6, <1>8
<1>11. Len(queue') + Len(flight') <= 1 /\ DOMAIN queue' = {} /\ DOMAIN flight' = {}
  BY <1>4
<1>12. MomentumInv'
  BY <1>10, <1>11 DEF MomentumInv
<1> QED BY <1>9, <1>12 DEF MomentumDirection

\* No step breaks the invariant of Momentum, and none turns its position around.
LEMMA MomentumStep ==
    ASSUME StrategyType, MomentumInv, [Next]_vars
    PROVE  MomentumInv' /\ MomentumDirection
<1>. SUFFICES ASSUME kind = "Momentum", "early" \notin mishaps' PROVE MomentumInv' /\ MomentumDirection
  <2>1. kind' = kind
    BY DEF Next, vars, common, MakerOnBbo, MomentumStop, MakerOnAck, MakerOrderRefused,
           MakerCancelled, MakerOrderAnswered, MakerOnFill, MomentumSignal, MomentumClose,
           ArbOnBbo, PopOrder, OnIocFill
  <2> QED BY <2>1 DEF MomentumInv, MomentumDirection
<1>0. ASSUME UNCHANGED <<kind, inv>> PROVE kind' = "Momentum" /\ (MomentumInv' => MomentumDirection)
  <2>1. inv["A"] \in Int
    BY DEF StrategyType, Legs
  <2>2. inv["A"]' = inv["A"] /\ inv["A"] * inv["A"] >= 0
    BY <1>0, <2>1
  <2>3. Abs(inv["A"])' = Abs(inv["A"]')
    BY DEF Abs
  <2> QED BY <1>0, <2>2, <2>3 DEF MomentumInv, MomentumDirection
<1>1. ASSUME UNCHANGED <<kind, inv, queue, flight>>, mishaps \subseteq mishaps' PROVE MomentumInv'
  <2>1. Abs(inv["A"])' = Abs(inv["A"]) /\ "early" \notin mishaps
    BY <1>1 DEF Abs
  <2> QED BY <1>1, <2>1 DEF MomentumInv
<1>2. ASSUME NEW mid \in Mids, MomentumStop(mid) PROVE MomentumInv' /\ MomentumDirection
  BY <1>0, <1>1, <1>2 DEF MomentumStop
<1>3. CASE MomentumSignal
  <2>1. UNCHANGED <<kind, inv, flight>>
    BY <1>3 DEF MomentumSignal
  <2>2. CASE UNCHANGED <<queue, mishaps>>
    BY <1>0, <1>1, <2>1, <2>2
  <2>3. CASE inv["A"] = 0 /\ OpenPosition(Signal)
    <3>1. PICK g \in {1, -1} : SendOrders(<<Order("A", g, OrderQty)>>)
      BY <2>3 DEF OpenPosition
    <3>2. <<Order("A", g, OrderQty)>> \in Seq(Orders) /\ Order("A", g, OrderQty).leg = "A"
           /\ Order("A", g, OrderQty).qty = OrderQty /\ OrderQty \in Nat
      BY OrderType, StrategyAssumption DEF Legs
    <3>3. Reduces(Order("A", g, OrderQty), inv["A"])
      BY <2>3, <3>2 DEF Reduces
    <3>4. PICK orders \in Seq(Orders) : orders = <<Order("A", g, OrderQty)>>
      BY <3>2
    <3>5. Len(orders) <= 1 /\ \A i \in DOMAIN orders : Reduces(orders[i], inv["A"])
      BY <3>3, <3>4
    <3>6. MomentumInv'
      BY <2>1, <3>1, <3>4, <3>5, MomentumSends
    <3> QED BY <1>0, <2>1, <3>6
  <2> QED BY <1>3, <2>2, <2>3 DEF MomentumSignal
<1>4. CASE MomentumClose
  <2>1. UNCHANGED <<kind, inv, flight>> /\ SendOrders(CloseOrders)
    BY <1>4 DEF MomentumClose, ClosePosition
  <2>2. inv["A"] \in Int /\ Abs(inv["A"]) \in Nat /\ "A" \in Legs
    BY DEF StrategyType, Legs, Abs
  <2>3. CloseOrders \in Seq(Orders) /\ Len(CloseOrders) <= 1
         /\ \A i \in DOMAIN CloseOrders : Reduces(CloseOrders[i], inv["A"])
    <3>1. CASE inv["A"] = 0
      BY <3>1, SentType DEF CloseOrders
    <3>2. CASE inv["A"] # 0
      <4>1. PICK g \in {1, -1} : g = (IF inv["A"] > 0 THEN -1 ELSE 1)
        OBVIOUS
      <4>2. CloseOrders = <<Order("A", g, Abs(inv["A"]))>>
        BY <3>2, <4>1 DEF CloseOrders, CloseQty
      <4>3. Reduces(Order("A", g, Abs(inv["A"])), inv["A"])
        <5>1. Order("A", g, Abs(inv["A"])).leg = "A"
              /\ Order("A", g, Abs(inv["A"])).sign = g
              /\ Order("A", g, Abs(inv["A"])).qty = Abs(inv["A"])
          BY <2>2, OrderType
        <5> QED BY <2>2, <3>2, <4>1, <5>1 DEF Reduces
      <4> QED BY <4>2, <4>3, SentType
    <3> QED BY <3>1, <3>2
  <2>4. MomentumInv'
    BY <2>1, <2>3, MomentumSends
  <2> QED BY <1>0, <2>1, <2>4
<1>5. CASE PopOrder
  <2>1. UNCHANGED <<kind, inv, mishaps>> /\ queue # << >> /\ queue' = Tail(queue)
         /\ flight' = Append(flight, Head(queue))
    BY <1>5 DEF PopOrder
  <2>2. /\ Abs(inv["A"]) <= OrderQty /\ Len(queue) + Len(flight) <= 1
        /\ \A i \in DOMAIN queue : Reduces(queue[i], inv["A"])
    BY <2>1 DEF MomentumInv
  <2>3. queue \in Seq(Orders) /\ flight \in Seq(Orders)
    BY DEF StrategyType
  <2>4. Len(queue) = 1 /\ flight = << >>
    <3>1. Len(queue) >= 1 /\ Len(flight) \in Nat /\ Len(queue) \in Nat
      BY <2>1, <2>3
    <3>2. Len(queue) = 1 /\ Len(flight) = 0
      BY <2>2, <3>1, OneOfTwo
    <3> QED BY <2>3, <3>2
  <2>5. queue' = << >> /\ flight' = <<queue[1]>>
    BY <2>1, <2>3, <2>4, OneElement
  <2>6. Reduces(queue[1], inv["A"])
    <3>1. 1 \in DOMAIN queue
      BY <2>3, <2>4
    <3> QED BY <2>2, <3>1
  <2>7. Abs(inv["A"])' = Abs(inv["A"]) /\ inv' = inv
    BY <2>1 DEF Abs
  <2>8. Len(queue') + Len(flight') <= 1
    BY <2>5
  <2>9. \A i \in DOMAIN queue' : Reduces(queue'[i], inv'["A"])
    BY <2>5
  <2>10. \A i \in DOMAIN flight' : Reduces(flight'[i], inv'["A"])
    <3>1. DOMAIN flight' = {1} /\ flight'[1] = queue[1]
      BY <2>5
    <3> QED BY <2>6, <2>7, <3>1
  <2>11. MomentumInv'
    BY <2>2, <2>7, <2>8, <2>9, <2>10 DEF MomentumInv
  <2> QED BY <1>0, <2>1, <2>11
<1>6. ASSUME NEW q \in 0 .. OrderQty * MaxFlight, OnIocFill(q)
      PROVE  MomentumInv' /\ MomentumDirection
  BY <1>6, MomentumFill
<1>7. CASE UNCHANGED vars
  <2>1. UNCHANGED common
    BY <1>7 DEF vars
  <2> QED BY <1>0, <1>1, <2>1 DEF common
<1>8. CASE MakerOnAck \/ MakerCancelled
  <2>1. UNCHANGED common
    BY <1>8 DEF MakerOnAck, MakerCancelled
  <2> QED BY <1>0, <1>1, <2>1 DEF common
<1>9. /\ \A mid : ~MakerOnBbo(mid)
      /\ ~MakerOrderRefused /\ \A ok : ~MakerOrderAnswered(ok)
      /\ \A id : ~MakerOnFill(id) /\ \A z : ~ArbOnBbo(z)
  BY DEF MakerOnBbo, MakerOrderRefused, MakerOrderAnswered, MakerOnFill, ArbOnBbo, StrategyType
<1> QED BY <1>2, <1>3, <1>4, <1>5, <1>6, <1>7, <1>8, <1>9 DEF Next

-----------------------------------------------------------------------------
(* StatArb: what is held and ordered is the spread the state stands for    *)

\* What one order adds to a leg, and what the orders of a sequence do.
SignedFor(leg, o) == IF o.leg = leg THEN o.sign * o.qty ELSE 0
SignedOf(leg, s) == [i \in DOMAIN s |-> SignedFor(leg, s[i])]

\* A signed quantity is an integer.
LEMMA SignedInt == ASSUME NEW leg, NEW o \in Orders PROVE SignedFor(leg, o) \in Int
<1>1. o.qty \in Nat /\ o.sign * o.qty \in Int
  BY FillArithmetic DEF Orders
<1> QED BY <1>1 DEF SignedFor

\* What a sequence orders of a leg is a sum over its positions.
LEMMA OrderedIsSum ==
    ASSUME NEW leg, NEW s \in Seq(Orders)
    PROVE  /\ Ordered(leg, s) = SumOver(SignedOf(leg, s), 1 .. Len(s))
           /\ IsFiniteSet(1 .. Len(s)) /\ Len(s) \in Nat
           /\ \A i \in 1 .. Len(s) : SignedOf(leg, s)[i] = SignedFor(leg, s[i])
                                     /\ SignedOf(leg, s)[i] \in Int
<1>1. DOMAIN s = 1 .. Len(s) /\ Len(s) \in Nat
  OBVIOUS
<1>2. Ordered(leg, s) = SumOver(SignedOf(leg, s), DOMAIN s)
  BY DEF Ordered, SumOver, SignedOf, SignedFor
<1>3. IsFiniteSet(1 .. Len(s))
  BY <1>1, FS_Interval
<1>4. ASSUME NEW i \in 1 .. Len(s)
      PROVE  SignedOf(leg, s)[i] = SignedFor(leg, s[i]) /\ SignedOf(leg, s)[i] \in Int
  <2>1. SignedOf(leg, s)[i] = SignedFor(leg, s[i])
    BY <1>1, <1>4 DEF SignedOf
  <2>2. s[i] \in Orders
    BY <1>4
  <2> QED BY <2>1, <2>2, SignedInt
<1>5. Ordered(leg, s) = SumOver(SignedOf(leg, s), 1 .. Len(s))
  BY <1>1, <1>2
<1> QED BY <1>1, <1>3, <1>4, <1>5

\* ... an integer, ...
LEMMA OrderedInt ==
    ASSUME NEW leg, NEW s \in Seq(Orders) PROVE Ordered(leg, s) \in Int
<1>1. SumOver(SignedOf(leg, s), 1 .. Len(s)) \in Int
  BY OrderedIsSum, SumInt
<1> QED BY <1>1, OrderedIsSum

\* ... nothing when the sequence is empty, ...
LEMMA OrderedEmpty == ASSUME NEW leg PROVE Ordered(leg, << >>) = 0
<1>1. << >> \in Seq(Orders) /\ 1 .. Len(<< >>) = {}
  OBVIOUS
<1>2. Ordered(leg, << >>) = SumOver(SignedOf(leg, << >>), {})
  BY <1>1, OrderedIsSum
<1> QED BY <1>2, SumEmpty

\* ... more by the order that joins it at the end ...
LEMMA OrderedAppend ==
    ASSUME NEW leg, NEW s \in Seq(Orders), NEW o \in Orders
    PROVE  Ordered(leg, Append(s, o)) = Ordered(leg, s) + SignedFor(leg, o)
<1>0. Append(s, o) \in Seq(Orders)
  OBVIOUS
<1>1. PICK t \in Seq(Orders) : t = Append(s, o)
  BY <1>0
<1>2. Len(t) = Len(s) + 1 /\ t[Len(s) + 1] = o /\ \A i \in 1 .. Len(s) : t[i] = s[i]
  BY <1>1
<1>. DEFINE g == SignedOf(leg, t)
            k == SignedOf(leg, s)
            n == Len(s)
<1>3. n \in Nat /\ Ordered(leg, s) = SumOver(k, 1 .. n)
       /\ \A i \in 1 .. n : k[i] = SignedFor(leg, s[i]) /\ k[i] \in Int
  BY OrderedIsSum
<1>4. Ordered(leg, t) = SumOver(g, 1 .. n + 1)
       /\ \A i \in 1 .. n + 1 : g[i] = SignedFor(leg, t[i]) /\ g[i] \in Int
  BY <1>2, OrderedIsSum
<1>. HIDE DEF g, k
<1>5. g[n + 1] = SignedFor(leg, o) /\ \A i \in 1 .. n : k[i] = g[i]
  BY <1>2, <1>3, <1>4
<1>6. SumOver(g, 1 .. n + 1) = SumOver(k, 1 .. n) + g[n + 1]
  <2>. HIDE DEF n
  <2> QED BY <1>3, <1>4, <1>5, SumToNext
<1> QED BY <1>1, <1>3, <1>4, <1>5, <1>6

\* ... and less by the one taken from its head.
LEMMA OrderedTail ==
    ASSUME NEW leg, NEW s \in Seq(Orders), s # << >>
    PROVE  Ordered(leg, s) = SignedFor(leg, Head(s)) + Ordered(leg, Tail(s))
<1>0. Tail(s) \in Seq(Orders)
  OBVIOUS
<1>1. PICK t \in Seq(Orders) : t = Tail(s)
  BY <1>0
<1>2. Len(s) = Len(t) + 1 /\ Head(s) = s[1] /\ \A i \in 1 .. Len(t) : t[i] = s[i + 1]
  BY <1>1, TailElements
<1>. DEFINE g == SignedOf(leg, s)
            k == SignedOf(leg, t)
            n == Len(t)
<1>3. n \in Nat /\ Ordered(leg, t) = SumOver(k, 1 .. n)
       /\ \A i \in 1 .. n : k[i] = SignedFor(leg, t[i]) /\ k[i] \in Int
  BY OrderedIsSum
<1>4. Ordered(leg, s) = SumOver(g, 1 .. n + 1)
       /\ \A i \in 1 .. n + 1 : g[i] = SignedFor(leg, s[i]) /\ g[i] \in Int
  BY <1>2, OrderedIsSum
<1>. HIDE DEF g, k
<1>5. g[1] = SignedFor(leg, Head(s)) /\ \A i \in 1 .. n : k[i] = g[i + 1]
  BY <1>2, <1>3, <1>4
<1>6. SumOver(g, 1 .. n + 1) = g[1] + SumOver(k, 1 .. n)
  <2>. HIDE DEF n
  <2> QED BY <1>3, <1>4, <1>5, SumFromFirst
<1> QED BY <1>1, <1>3, <1>4, <1>5, <1>6

\* What each leg has been ordered to hold, and what is held of it.
LegMatches(leg, x) == inv[leg] + Pending(leg) = x

\* The two orders of a spread buy one leg and sell the other.
LEMMA PairFacts ==
    ASSUME NEW g \in {1, -1}
    PROVE  /\ Order("A", g, OrderQty) \in Orders /\ Order("B", -g, OrderQty) \in Orders
           /\ SignedFor("A", Order("A", g, OrderQty)) = g * OrderQty
           /\ SignedFor("A", Order("B", -g, OrderQty)) = 0
           /\ SignedFor("B", Order("A", g, OrderQty)) = 0
           /\ SignedFor("B", Order("B", -g, OrderQty)) = -(g * OrderQty)
<1>1. OrderQty \in Nat /\ "A" \in Legs /\ "B" \in Legs /\ -g \in {1, -1}
  BY StrategyAssumption DEF Legs
<1>2. Order("A", g, OrderQty) \in Orders /\ Order("B", -g, OrderQty) \in Orders
  BY <1>1, OrderType
<1>3. (-g) * OrderQty = -(g * OrderQty)
  BY <1>1
<1> QED BY <1>2, <1>3 DEF SignedFor, Order

\* An order that leaves the OMS's queue is in flight; one answered in full is
\* held.
LEMMA PopKeepsPending ==
    ASSUME StrategyType, PopOrder, NEW leg \in Legs
    PROVE  inv'[leg] + Pending(leg)' = inv[leg] + Pending(leg)
<1>1. /\ queue # << >> /\ queue' = Tail(queue) /\ flight' = Append(flight, Head(queue))
      /\ inv' = inv /\ queue \in Seq(Orders) /\ flight \in Seq(Orders) /\ Head(queue) \in Orders
  BY DEF PopOrder, StrategyType
<1>2. Ordered(leg, queue) = SignedFor(leg, Head(queue)) + Ordered(leg, Tail(queue))
  BY <1>1, OrderedTail
<1>3. Ordered(leg, Append(flight, Head(queue))) = Ordered(leg, flight) + SignedFor(leg, Head(queue))
  BY <1>1, OrderedAppend
<1>4. Ordered(leg, flight) \in Int /\ Ordered(leg, Tail(queue)) \in Int
       /\ SignedFor(leg, Head(queue)) \in Int
  <2>1. Tail(queue) \in Seq(Orders)
    BY <1>1
  <2> QED BY <1>1, <2>1, OrderedInt, SignedInt
<1>5. Pending(leg) = Ordered(leg, queue) + Ordered(leg, flight)
       /\ Pending(leg)' = Ordered(leg, Tail(queue)) + Ordered(leg, Append(flight, Head(queue)))
  BY <1>1 DEF Pending
<1>6. Pending(leg)' = Pending(leg)
  BY <1>2, <1>3, <1>4, <1>5
<1> QED BY <1>1, <1>6

\* A fill of the whole order moves it from the orders under way to the inventory.
LEMMA FillKeepsPending ==
    ASSUME StrategyType, NEW q \in Nat, OnIocFill(q), "unfilled" \notin mishaps', NEW leg \in Legs
    PROVE  inv'[leg] + Pending(leg)' = inv[leg] + Pending(leg)
<1>1. /\ flight # << >> /\ flight' = Tail(flight) /\ q <= Head(flight).qty /\ queue' = queue
      /\ inv' = [inv EXCEPT ![Head(flight).leg] = @ + Head(flight).sign * q]
      /\ queue \in Seq(Orders) /\ flight \in Seq(Orders) /\ Head(flight) \in Orders
      /\ inv \in [Legs -> Int]
  BY DEF OnIocFill, StrategyType
<1>2. q = Head(flight).qty
  <2>1. ~(q < Head(flight).qty)
    BY DEF OnIocFill
  <2>2. Head(flight).qty \in Nat
    BY <1>1 DEF Orders
  <2> QED BY <1>1, <2>1, <2>2
<1>3. inv'[leg] = inv[leg] + SignedFor(leg, Head(flight))
  <2>1. inv[leg] \in Int /\ Head(flight).leg \in Legs
    BY <1>1 DEF Orders
  <2>2. CASE Head(flight).leg = leg
    BY <1>1, <1>2, <2>1, <2>2 DEF SignedFor
  <2>3. CASE Head(flight).leg # leg
    BY <1>1, <1>2, <2>1, <2>3 DEF SignedFor
  <2> QED BY <2>2, <2>3
<1>4. Ordered(leg, flight) = SignedFor(leg, Head(flight)) + Ordered(leg, Tail(flight))
  BY <1>1, OrderedTail
<1>5. Ordered(leg, queue) \in Int /\ Ordered(leg, Tail(flight)) \in Int
       /\ SignedFor(leg, Head(flight)) \in Int
  <2>1. Tail(flight) \in Seq(Orders)
    BY <1>1
  <2> QED BY <1>1, <2>1, OrderedInt, SignedInt
<1>6. Pending(leg) = Ordered(leg, queue) + Ordered(leg, flight)
       /\ Pending(leg)' = Ordered(leg, queue) + Ordered(leg, Tail(flight))
  BY <1>1 DEF Pending
<1>7. inv[leg] \in Int
  BY <1>1
<1> QED BY <1>3, <1>4, <1>5, <1>6, <1>7

\* A pair that fits into the queue moves both legs, in opposite directions.
LEMMA PairAdds ==
    ASSUME StrategyType, NEW g \in {1, -1}, SendOrders(Pair(g)), "dropped" \notin mishaps',
           UNCHANGED <<inv, flight>>
    PROVE  /\ inv'["A"] + Pending("A")' = inv["A"] + Pending("A") + g * OrderQty
           /\ inv'["B"] + Pending("B")' = (inv["B"] + Pending("B")) - g * OrderQty
<1>1. Pair(g) \in Seq(Orders) /\ queue' = queue \o Pair(g)
  BY SentType, SendOrdersFacts
<1>2. PICK a \in Orders, b \in Orders : a = Order("A", g, OrderQty) /\ b = Order("B", -g, OrderQty)
  BY PairFacts
<1>3. queue \in Seq(Orders) /\ flight \in Seq(Orders) /\ inv["A"] \in Int /\ inv["B"] \in Int
  BY DEF StrategyType, Legs
<1>4. queue' = Append(Append(queue, a), b)
  <2>1. queue' = queue \o <<a, b>>
    BY <1>1, <1>2 DEF Pair
  <2> QED BY <1>3, <2>1
<1>5. ASSUME NEW leg PROVE Ordered(leg, queue') = Ordered(leg, queue) + SignedFor(leg, a) + SignedFor(leg, b)
  <2>1. Append(queue, a) \in Seq(Orders)
    BY <1>3
  <2>2. Ordered(leg, Append(Append(queue, a), b)) = Ordered(leg, Append(queue, a)) + SignedFor(leg, b)
    BY <2>1, OrderedAppend
  <2>3. Ordered(leg, Append(queue, a)) = Ordered(leg, queue) + SignedFor(leg, a)
    BY <1>3, OrderedAppend
  <2> QED BY <1>4, <2>2, <2>3
<1>6. ASSUME NEW leg
      PROVE  Pending(leg)' = Pending(leg) + SignedFor(leg, a) + SignedFor(leg, b) /\ Pending(leg) \in Int
  <2>1. Pending(leg) = Ordered(leg, queue) + Ordered(leg, flight)
         /\ Pending(leg)' = Ordered(leg, queue') + Ordered(leg, flight)
    BY DEF Pending
  <2>2. Ordered(leg, queue) \in Int /\ Ordered(leg, flight) \in Int
         /\ SignedFor(leg, a) \in Int /\ SignedFor(leg, b) \in Int
    BY <1>3, OrderedInt, SignedInt
  <2> QED BY <1>5, <2>1, <2>2
<1>7. g * OrderQty \in Int
  BY StrategyAssumption
<1>8. /\ Pending("A") \in Int /\ Pending("A")' = Pending("A") + g * OrderQty + 0
      /\ Pending("B") \in Int /\ Pending("B")' = Pending("B") + 0 + -(g * OrderQty)
  BY <1>2, <1>6, PairFacts
<1>9. PICK d \in Int : d = g * OrderQty
  BY <1>7
<1>10. PICK x \in Int, y \in Int, p \in Int, r \in Int :
           /\ x = inv["A"] /\ y = inv["B"] /\ p = Pending("A") /\ r = Pending("B")
  BY <1>3, <1>8
<1>11. /\ Pending("A")' = p + d /\ Pending("B")' = r - d
       /\ inv'["A"] = x /\ inv'["B"] = y
  BY <1>8, <1>9, <1>10
<1>12. x + (p + d) = x + p + d /\ y + (r - d) = (y + r) - d
  OBVIOUS
<1> QED BY <1>9, <1>10, <1>11, <1>12, Zenon

-----------------------------------------------------------------------------
ArbInv == ArbLegsMatchState /\ arb \in {"FLAT", "LONG_SPREAD", "SHORT_SPREAD"}

\* A mishap is never forgotten.
LEMMA MishapsRemain == ASSUME [Next]_vars PROVE kind' = kind /\ mishaps \subseteq mishaps'
<1>1. kind' = kind
  BY DEF Next, vars, common, MakerOnBbo, MomentumStop, MakerOnAck, MakerOrderRefused,
         MakerCancelled, MakerOrderAnswered, MakerOnFill, MomentumSignal, MomentumClose,
         ArbOnBbo, PopOrder, OnIocFill
<1>2. ASSUME NEW orders, SendOrders(orders) PROVE mishaps \subseteq mishaps'
  BY <1>2 DEF SendOrders
<1>3. ASSUME MomentumSignal \/ MomentumClose \/ \E z \in Zones : ArbOnBbo(z)
      PROVE  mishaps \subseteq mishaps'
  BY <1>2, <1>3 DEF MomentumSignal, MomentumClose, ArbOnBbo, ArbOpens, ArbCloses, OpenPosition,
                    ClosePosition
<1>4. ASSUME NEW mid, MakerOnBbo(mid) PROVE mishaps \subseteq mishaps'
  BY <1>4 DEF MakerOnBbo
<1>5. ASSUME NEW q, OnIocFill(q) PROVE mishaps \subseteq mishaps'
  BY <1>5 DEF OnIocFill
<1> QED
  BY <1>1, <1>3, <1>4, <1>5
  DEF Next, vars, common, MomentumStop, MakerOnAck, MakerOrderRefused, MakerCancelled,
      MakerOrderAnswered, MakerOnFill, PopOrder

\* No step breaks what the legs of the arbitrage add up to.
LEMMA ArbStep ==
    ASSUME StrategyType, ArbInv, [Next]_vars PROVE ArbInv'
<1>1. OrderQty \in Nat
  BY StrategyAssumption
<1>2. kind' = kind /\ mishaps \subseteq mishaps'
  BY MishapsRemain
<1>3. CASE UNCHANGED <<inv, queue, flight, arb>>
  <2>1. Pending("A")' = Pending("A") /\ Pending("B")' = Pending("B") /\ Held' = Held
    BY <1>3 DEF Pending, Held
  <2> QED BY <1>2, <1>3, <2>1 DEF ArbInv, ArbLegsMatchState
<1>4. CASE kind # "StatArb"
  <2>1. arb' = arb
    BY <1>4 DEF Next, vars, common, MakerOnBbo, MomentumStop, MakerOnAck, MakerOrderRefused,
           MakerCancelled, MakerOrderAnswered, MakerOnFill, MomentumSignal, MomentumClose,
           ArbOnBbo, PopOrder, OnIocFill
  <2> QED BY <1>2, <1>4, <2>1 DEF ArbInv, ArbLegsMatchState
<1>. SUFFICES ASSUME kind = "StatArb", mishaps' \cap {"dropped", "unfilled"} = {}
              PROVE  ArbInv' \/ UNCHANGED <<inv, queue, flight, arb>>
  <2>1. CASE arb' \in {"FLAT", "LONG_SPREAD", "SHORT_SPREAD"}
    BY <1>2, <1>3, <1>4, <2>1 DEF ArbInv, ArbLegsMatchState
  <2>2. arb' \in {"FLAT", "LONG_SPREAD", "SHORT_SPREAD"}
    BY DEF ArbInv, Next, vars, common, MakerOnBbo, MomentumStop, MakerOnAck, MakerOrderRefused,
           MakerCancelled, MakerOrderAnswered, MakerOnFill, MomentumSignal, MomentumClose,
           ArbOnBbo, PopOrder, OnIocFill, ArbOpens, ArbCloses
  <2> QED BY <2>1, <2>2
<1>5. inv["A"] + Pending("A") = Held /\ inv["B"] + Pending("B") = -Held
  BY <1>2 DEF ArbInv, ArbLegsMatchState
<1>6. CASE PopOrder
  <2>1. inv'["A"] + Pending("A")' = Held /\ inv'["B"] + Pending("B")' = -Held
    BY <1>5, <1>6, PopKeepsPending DEF Legs
  <2>2. arb' = arb /\ Held' = Held
    BY <1>6 DEF PopOrder, Held
  <2> QED BY <2>1, <2>2 DEF ArbInv, ArbLegsMatchState
<1>7. ASSUME NEW q \in 0 .. OrderQty * MaxFlight, OnIocFill(q) PROVE ArbInv'
  <2>1. inv'["A"] + Pending("A")' = Held /\ inv'["B"] + Pending("B")' = -Held
    BY <1>5, <1>7, FillKeepsPending DEF Legs
  <2>2. arb' = arb /\ Held' = Held
    BY <1>7 DEF OnIocFill, Held
  <2> QED BY <2>1, <2>2 DEF ArbInv, ArbLegsMatchState
<1>8. ASSUME NEW z \in Zones, ArbOnBbo(z) PROVE ArbInv'
  <2>1. UNCHANGED <<inv, flight>>
    BY <1>8 DEF ArbOnBbo
  <2>2. PICK g \in {1, -1} : SendOrders(Pair(g)) /\ arb' \in {"FLAT", "LONG_SPREAD", "SHORT_SPREAD"}
                             /\ Held' = Held + g * OrderQty
    <3>1. CASE arb = "FLAT" /\ SendOrders(Pair(-1)) /\ arb' = "SHORT_SPREAD"
      BY <1>1, <3>1 DEF Held
    <3>2. CASE arb = "FLAT" /\ SendOrders(Pair(1)) /\ arb' = "LONG_SPREAD"
      BY <1>1, <3>2 DEF Held
    <3>3. CASE arb = "LONG_SPREAD" /\ SendOrders(Pair(-1)) /\ arb' = "FLAT"
      BY <1>1, <3>3 DEF Held
    <3>4. CASE arb = "SHORT_SPREAD" /\ SendOrders(Pair(1)) /\ arb' = "FLAT"
      BY <1>1, <3>4 DEF Held
    <3> QED BY <1>8, <3>1, <3>2, <3>3, <3>4 DEF ArbOnBbo, ArbOpens, ArbCloses, ClosingSign, ArbInv
  <2>3. Held \in Int /\ g * OrderQty \in Int
    BY <1>1 DEF Held, ArbInv
  <2>4. /\ inv'["A"] + Pending("A")' = Held + g * OrderQty
        /\ inv'["B"] + Pending("B")' = -Held - g * OrderQty
    <3>1. /\ inv'["A"] + Pending("A")' = inv["A"] + Pending("A") + g * OrderQty
          /\ inv'["B"] + Pending("B")' = (inv["B"] + Pending("B")) - g * OrderQty
      <4>1. "dropped" \notin mishaps'
        OBVIOUS
      <4> QED BY <2>1, <2>2, <4>1, PairAdds
    <3> QED BY <1>5, <3>1, Zenon
  <2>5. -Held - g * OrderQty = -(Held + g * OrderQty)
    BY <2>3
  <2> QED BY <2>2, <2>4, <2>5 DEF ArbInv, ArbLegsMatchState
<1>9. /\ \A mid : ~MakerOnBbo(mid) /\ ~MomentumStop(mid)
      /\ ~MakerOrderRefused /\ \A ok : ~MakerOrderAnswered(ok)
      /\ \A id : ~MakerOnFill(id) /\ ~MomentumSignal /\ ~MomentumClose
  BY DEF MakerOnBbo, MomentumStop, MakerOrderRefused, MakerOrderAnswered, MakerOnFill,
         MomentumSignal, MomentumClose, StrategyType
<1>10. ASSUME MakerOnAck \/ MakerCancelled \/ UNCHANGED vars PROVE UNCHANGED <<inv, queue, flight, arb>>
  BY <1>10 DEF MakerOnAck, MakerCancelled, vars, common
<1> QED BY <1>6, <1>7, <1>8, <1>9, <1>10 DEF Next

-----------------------------------------------------------------------------
(* MarketMaker: the pending sides are those of the acknowledgements to     *)
(* come, and then of the orders not yet answered                           *)

SidesAligned ==
    /\ Len(sides) = Len(acks) + Len(queue)
    /\ \A i \in 1 .. Len(acks) :
         acks[i].id \in DOMAIN sideOf /\ sides[i] = sideOf[acks[i].id]
    /\ \A j \in 1 .. Len(queue) : sides[Len(acks) + j] = queue[j].sign

\* One quote of each side at most is pending, and then none is known.
OnePendingEach ==
    /\ \A i, j \in 1 .. Len(sides) : sides[i] = sides[j] => i = j
    /\ \A i \in 1 .. Len(sides) : (sides[i] = 1 => bidId = 0) /\ (sides[i] = -1 => askId = 0)

\* What rests was acknowledged, or its acknowledgement is on its way.
RestingKnown ==
    /\ live \subseteq DOMAIN sideOf
    /\ \A i \in 1 .. Len(acks) : acks[i].ok \/ acks[i].id \notin live
    /\ \A id \in live : \/ id \in {bidId, askId}
                        \/ \E i \in DOMAIN cancels : cancels[i] = id
                        \/ \E i \in DOMAIN acks : acks[i].id = id

SidesKnown ==
    /\ bidId # 0 => bidId \in DOMAIN sideOf /\ sideOf[bidId] = 1
    /\ askId # 0 => askId \in DOMAIN sideOf /\ sideOf[askId] = -1

MakerInv ==
    (kind = "MarketMaker" /\ mishaps = {}) =>
        SidesAligned /\ OnePendingEach /\ RestingKnown /\ SidesKnown

\* The quotes of one update are orders, at most one for each side.
LEMMA QuotesFacts ==
    ASSUME StrategyType
    PROVE
    /\ Quotes \in Seq(Orders)
    /\ \A i, j \in 1 .. Len(Quotes) : Quotes[i].sign = Quotes[j].sign => i = j
<1>1. PICK b \in Orders, a \in Orders :
           /\ b = Order("A", 1, OrderQty) /\ a = Order("A", -1, OrderQty)
           /\ b.sign = 1 /\ a.sign = -1
  BY OrderType, StrategyAssumption DEF Legs
<1>2. PICK p \in {<< >>, <<b>>}, r \in {<< >>, <<a>>} : Quotes = p \o r
  BY <1>1 DEF Quotes
<1>3. /\ p \in Seq(Orders) /\ Len(p) <= 1 /\ \A i \in 1 .. Len(p) : p[i] = b
      /\ r \in Seq(Orders) /\ Len(r) <= 1 /\ \A i \in 1 .. Len(r) : r[i] = a
  <2>1. ASSUME NEW S, NEW o \in S, NEW s \in {<< >>, <<o>>}
        PROVE  s \in Seq(S) /\ Len(s) <= 1 /\ \A i \in 1 .. Len(s) : s[i] = o
    <3>1. CASE s = << >>
      BY <3>1
    <3>2. CASE s = <<o>>
      BY <3>2
    <3> QED BY <3>1, <3>2
  <2> QED BY <2>1
<1>4. ASSUME NEW i \in 1 .. Len(Quotes), NEW j \in 1 .. Len(Quotes), i < j
      PROVE  Quotes[i] = b /\ Quotes[j] = a
  <2>1. Len(Quotes) = Len(p) + Len(r) /\ Len(p) \in Nat /\ Len(r) \in Nat
    BY <1>2, <1>3
  <2>2. i = 1 /\ j = 2 /\ Len(p) = 1 /\ Len(r) = 1
    BY <1>3, <1>4, <2>1
  <2>3. p[1] = b /\ r[1] = a
    BY <1>3, <2>2
  <2>4. /\ \A n \in 1 .. Len(p) : (p \o r)[n] = p[n]
        /\ \A n \in 1 .. Len(r) : (p \o r)[Len(p) + n] = r[n]
    BY <1>3, ConcatElements
  <2>5. (p \o r)[1] = p[1] /\ (p \o r)[1 + 1] = r[1]
    <3>1. 1 \in 1 .. Len(p) /\ 1 \in 1 .. Len(r)
      BY <2>2
    <3> QED BY <2>2, <2>4, <3>1
  <2> QED BY <1>2, <2>2, <2>3, <2>5
<1>5. \A i, j \in 1 .. Len(Quotes) : Quotes[i].sign = Quotes[j].sign => i = j
  <2>1. Len(Quotes) \in Nat
    BY SentType
  <2>2. ASSUME NEW i \in 1 .. Len(Quotes), NEW j \in 1 .. Len(Quotes),
               Quotes[i].sign = Quotes[j].sign
        PROVE  ~(i < j)
    BY <1>1, <1>4, <2>2
  <2> QED BY <2>1, <2>2
<1> QED BY <1>5, SentType

\* A prefix as long as its sequence is the sequence.
LEMMA FullPrefix ==
    ASSUME NEW S, NEW s \in Seq(S), NEW p, IsPrefix2(p, s, S), Len(p) = Len(s)
    PROVE  p = s
BY DEF IsPrefix2

\* on_bbo when nothing was pending: everything known goes to the cancels, and
\* every quote is pending.
LEMMA MakerQuotes ==
    ASSUME StrategyType, MakerInv, NEW mid \in Mids, MakerOnBbo(mid), mishaps' = {}
    PROVE  SidesAligned' /\ OnePendingEach' /\ RestingKnown' /\ SidesKnown'
<1>. DEFINE known == Accepted(Quotes)
            room  == Fitting(known, sides, SideCap)
            out   == Fitting(ActiveIds, cancels, CancelCap)
<1>1. /\ kind = "MarketMaker" /\ mishaps = {} /\ sides = << >> /\ acks = << >> /\ room = known
      /\ Len(cancels') = Len(cancels \o ActiveIds) /\ cancels' = cancels \o out
      /\ queue' = queue \o known /\ sides' = sides \o [i \in DOMAIN room |-> room[i].sign]
      /\ bidId' = 0 /\ askId' = 0 /\ acks' = acks /\ live' = live /\ sideOf' = sideOf
  BY DEF MakerOnBbo
<1>2. PICK k \in Seq(Orders) : k = known /\ Len(k) <= Len(Quotes) /\ \A i \in 1 .. Len(k) : k[i] = Quotes[i]
  BY QuotesFacts, FittingIsPrefix, StrategyAssumption DEF Accepted, StrategyType, IsPrefix2
<1>3. ActiveIds \in Seq(Nat) /\ IsPrefix2(out, ActiveIds, Nat) /\ out \in Seq(Nat)
  <2>1. ActiveIds \in Seq(Nat)
    BY DEF ActiveIds, Known, StrategyType
  <2>2. IsPrefix2(out, ActiveIds, Nat)
    BY <2>1, FittingIsPrefix, StrategyAssumption DEF StrategyType
  <2> QED BY <2>1, <2>2 DEF IsPrefix2
<1>. HIDE DEF known, room, out
<1>4. SidesAligned /\ RestingKnown
  BY <1>1 DEF MakerInv
<1>5. queue = << >>
  BY <1>1, <1>4 DEF SidesAligned, StrategyType
<1>6. queue' = k /\ sides' = [i \in 1 .. Len(k) |-> k[i].sign] /\ acks' = << >>
  <2>1. [i \in DOMAIN k |-> k[i].sign] = [i \in 1 .. Len(k) |-> k[i].sign]
    BY <1>2
  <2>2. [i \in DOMAIN k |-> k[i].sign] \in Seq({1, -1})
    <3>1. DOMAIN k = 1 .. Len(k) /\ Len(k) \in Nat /\ \A i \in DOMAIN k : k[i] \in Orders
      BY <1>2
    <3> QED BY <3>1 DEF Orders
  <2>3. PICK v \in Seq({1, -1}) : v = [i \in DOMAIN k |-> k[i].sign]
    BY <2>2
  <2>4. sides' = << >> \o v /\ queue' = << >> \o k
    BY <1>1, <1>2, <1>5, <2>3
  <2> QED BY <1>1, <2>1, <2>3, <2>4
<1>7. out = ActiveIds
  <2>1. Len(out) = Len(ActiveIds)
    <3>1. cancels \in Seq(Nat)
      BY DEF StrategyType
    <3>2. Len(cancels \o out) = Len(cancels) + Len(out)
           /\ Len(cancels \o ActiveIds) = Len(cancels) + Len(ActiveIds)
      BY <1>3, <3>1
    <3>3. Len(cancels) \in Nat /\ Len(out) \in Nat /\ Len(ActiveIds) \in Nat
      BY <1>3, <3>1
    <3> QED BY <1>1, <3>2, <3>3
  <2> QED BY <1>3, <2>1, FullPrefix
<1>8. PICK v \in Seq({1, -1}) : sides' = v /\ Len(v) = Len(k) /\ \A i \in 1 .. Len(k) : v[i] = k[i].sign
  <2>1. Len(k) \in Nat /\ \A i \in 1 .. Len(k) : k[i].sign \in {1, -1}
    <3>1. Len(k) \in Nat /\ \A i \in 1 .. Len(k) : k[i] \in Orders
      BY <1>2
    <3> QED BY <3>1 DEF Orders
  <2> QED BY <1>6, <2>1
<1>9. SidesAligned'
  <2>1. Len(v) = 0 + Len(k) /\ \A j \in 1 .. Len(k) : v[0 + j] = k[j].sign
    BY <1>2, <1>8
  <2> QED BY <1>6, <1>8, <2>1 DEF SidesAligned
<1>10. OnePendingEach'
  <2>1. \A i, j \in 1 .. Len(v) : v[i] = v[j] => i = j
    <3>1. ASSUME NEW i \in 1 .. Len(v), NEW j \in 1 .. Len(v), v[i] = v[j] PROVE i = j
      <4>1. i \in 1 .. Len(Quotes) /\ j \in 1 .. Len(Quotes)
        BY <1>2, <1>8, QuotesFacts
      <4>2. Quotes[i].sign = Quotes[j].sign
        BY <1>2, <1>8, <3>1
      <4> QED BY <4>1, <4>2, QuotesFacts
    <3> QED BY <3>1
  <2> QED BY <1>1, <1>8, <2>1 DEF OnePendingEach
<1>11. RestingKnown'
  <2>1. ASSUME NEW id \in live
        PROVE  \E i \in DOMAIN cancels' : cancels'[i] = id
    <3>1. cancels' = cancels \o ActiveIds /\ cancels \in Seq(Nat) /\ ActiveIds \in Seq(Nat)
      BY <1>1, <1>3, <1>7 DEF StrategyType
    <3>2. \/ id \in {bidId, askId} \/ \E i \in DOMAIN cancels : cancels[i] = id
      BY <1>1, <1>4 DEF RestingKnown
    <3>3. ASSUME NEW i \in DOMAIN cancels, cancels[i] = id PROVE i \in DOMAIN cancels' /\ cancels'[i] = id
      BY <3>1, <3>3
    <3>4. id # 0
      BY <1>4 DEF RestingKnown, StrategyType
    <3>5. CASE id \in {bidId, askId}
      <4>1. \E n \in 1 .. Len(ActiveIds) : ActiveIds[n] = id
        <5>1. CASE id = bidId
          <6>0. Known(askId) \in Seq(Nat)
            BY DEF Known, StrategyType
          <6>1. PICK t \in Seq(Nat) : t = Known(askId)
            BY <6>0
          <6>2. ActiveIds = <<id>> \o t /\ id \in Nat
            BY <3>4, <5>1, <6>1 DEF ActiveIds, Known, StrategyType
          <6>3. Len(ActiveIds) >= 1 /\ ActiveIds[1] = id
            BY <6>1, <6>2
          <6>4. 1 \in 1 .. Len(ActiveIds)
            BY <1>3, <6>3
          <6> QED BY <6>3, <6>4
        <5>2. CASE id = askId
          <6>0. Known(bidId) \in Seq(Nat)
            BY DEF Known, StrategyType
          <6>1. PICK t \in Seq(Nat) : t = Known(bidId)
            BY <6>0
          <6>2. ActiveIds = t \o <<id>> /\ id \in Nat
            BY <3>4, <5>2, <6>1 DEF ActiveIds, Known, StrategyType
          <6>3. Len(ActiveIds) = Len(t) + 1 /\ ActiveIds[Len(t) + 1] = id
            BY <6>1, <6>2
          <6>4. Len(t) + 1 \in 1 .. Len(ActiveIds)
            BY <6>1, <6>3
          <6> QED BY <6>3, <6>4
        <5> QED BY <3>5, <5>1, <5>2
      <4>2. PICK n \in 1 .. Len(ActiveIds) : ActiveIds[n] = id
        BY <4>1
      <4>3. Len(cancels) + n \in DOMAIN cancels' /\ cancels'[Len(cancels) + n] = id
        BY <3>1, <4>2
      <4> QED BY <4>3
    <3> QED BY <3>2, <3>3, <3>5
  <2> QED BY <1>1, <1>4, <1>6, <2>1 DEF RestingKnown
<1>12. SidesKnown'
  BY <1>1 DEF SidesKnown
<1> QED BY <1>9, <1>10, <1>11, <1>12

\* on_order_ack: the oldest acknowledgement belongs to the oldest side.
LEMMA MakerAck ==
    ASSUME StrategyType, MakerOnAck, SidesAligned, OnePendingEach, RestingKnown, SidesKnown
    PROVE  SidesAligned' /\ OnePendingEach' /\ RestingKnown' /\ SidesKnown'
<1>1. acks \in Seq(Acks) /\ sides \in Seq({1, -1}) /\ queue \in Seq(Orders) /\ acks # << >>
       /\ bidId \in Nat /\ askId \in Nat
  BY DEF StrategyType, MakerOnAck
<1>2. sides # << >>
  <2>1. Len(acks) >= 1 /\ Len(acks) \in Nat /\ Len(queue) \in Nat
    BY <1>1
  <2>2. Len(sides) >= 1
    BY <2>1 DEF SidesAligned
  <2> QED BY <1>1, <2>2
<1>3. PICK a \in Seq(Acks), s \in Seq({1, -1}) :
           /\ a = Tail(acks) /\ Len(acks) = Len(a) + 1 /\ \A i \in 1 .. Len(a) : a[i] = acks[i + 1]
           /\ s = Tail(sides) /\ Len(sides) = Len(s) + 1 /\ \A i \in 1 .. Len(s) : s[i] = sides[i + 1]
  <2>1. /\ Tail(acks) \in Seq(Acks) /\ Len(acks) = Len(Tail(acks)) + 1
        /\ \A i \in 1 .. Len(Tail(acks)) : Tail(acks)[i] = acks[i + 1]
    BY <1>1, TailElements
  <2>2. /\ Tail(sides) \in Seq({1, -1}) /\ Len(sides) = Len(Tail(sides)) + 1
        /\ \A i \in 1 .. Len(Tail(sides)) : Tail(sides)[i] = sides[i + 1]
    BY <1>1, <1>2, TailElements
  <2> QED BY <2>1, <2>2
<1>4. PICK ack \in Acks, g \in {1, -1} :
           /\ ack = acks[1] /\ ack = Head(acks) /\ g = sides[1] /\ g = Head(sides)
  BY <1>1, <1>2, TailElements
<1>5. PICK id \in Nat : id = IF ack.ok THEN ack.id ELSE 0
  BY DEF Acks
<1>6. /\ acks' = a /\ sides' = s /\ UNCHANGED <<queue, cancels, live, sideOf>>
      /\ g = 1 => bidId' = id /\ askId' = askId
      /\ g = -1 => askId' = id /\ bidId' = bidId
  <2>1. acks' = a /\ sides' = s /\ UNCHANGED <<queue, cancels, live, sideOf>>
    BY <1>2, <1>3 DEF MakerOnAck, common, SidesAfterReject
  <2>2. IF g = 1 THEN bidId' = id /\ askId' = askId ELSE askId' = id /\ bidId' = bidId
    BY <1>2, <1>4, <1>5 DEF MakerOnAck
  <2> QED BY <2>1, <2>2
<1>7. ack.id \in DOMAIN sideOf /\ g = sideOf[ack.id] /\ (g = 1 => bidId = 0) /\ (g = -1 => askId = 0)
  <2>1. 1 \in 1 .. Len(acks) /\ 1 \in 1 .. Len(sides)
    BY <1>3
  <2> QED BY <1>4, <2>1 DEF SidesAligned, OnePendingEach
<1>8. SidesAligned'
  <2>1. Len(s) = Len(a) + Len(queue)
    BY <1>1, <1>3 DEF SidesAligned
  <2>2. ASSUME NEW i \in 1 .. Len(a) PROVE a[i].id \in DOMAIN sideOf /\ s[i] = sideOf[a[i].id]
    <3>1. i + 1 \in 1 .. Len(acks) /\ i \in 1 .. Len(s)
      BY <1>1, <1>3, <2>1
    <3>2. acks[i + 1].id \in DOMAIN sideOf /\ sides[i + 1] = sideOf[acks[i + 1].id]
      BY <3>1 DEF SidesAligned
    <3> QED BY <1>3, <3>1, <3>2
  <2>3. ASSUME NEW j \in 1 .. Len(queue) PROVE s[Len(a) + j] = queue[j].sign
    <3>1. Len(a) + j \in 1 .. Len(s) /\ Len(acks) + j = (Len(a) + j) + 1
      BY <1>1, <1>3, <2>1
    <3>2. sides[Len(acks) + j] = queue[j].sign
      BY DEF SidesAligned
    <3> QED BY <1>3, <3>1, <3>2
  <2> QED BY <1>6, <2>1, <2>2, <2>3 DEF SidesAligned
<1>9. OnePendingEach'
  <2>1. ASSUME NEW i \in 1 .. Len(s)
        PROVE  /\ i + 1 \in 1 .. Len(sides) /\ s[i] = sides[i + 1] /\ s[i] # g
               /\ (s[i] = 1 => bidId' = 0) /\ (s[i] = -1 => askId' = 0)
    <3>1. i + 1 \in 1 .. Len(sides) /\ 1 \in 1 .. Len(sides) /\ i + 1 # 1 /\ s[i] = sides[i + 1]
      BY <1>3
    <3>2. s[i] # g
      BY <1>4, <3>1 DEF OnePendingEach
    <3>3. (s[i] = 1 => bidId = 0) /\ (s[i] = -1 => askId = 0)
      BY <3>1 DEF OnePendingEach
    <3> QED BY <1>6, <3>1, <3>2, <3>3
  <2>2. ASSUME NEW i \in 1 .. Len(s), NEW j \in 1 .. Len(s), s[i] = s[j] PROVE i = j
    <3>1. i + 1 = j + 1
      BY <2>1, <2>2 DEF OnePendingEach
    <3> QED BY <3>1
  <2> QED BY <1>6, <2>1, <2>2 DEF OnePendingEach
<1>10. RestingKnown'
  <2>1. ASSUME NEW i \in 1 .. Len(a) PROVE a[i].ok \/ a[i].id \notin live
    <3>1. i + 1 \in 1 .. Len(acks)
      BY <1>3
    <3> QED BY <1>3, <3>1 DEF RestingKnown
  <2>2. ASSUME NEW x \in live
        PROVE  \/ x \in {bidId', askId'}
               \/ \E i \in DOMAIN cancels : cancels[i] = x
               \/ \E i \in DOMAIN a : a[i].id = x
    <3>1. x # 0 /\ x \in DOMAIN sideOf
      BY DEF RestingKnown, StrategyType
    <3>2. CASE x \in {bidId, askId}
      BY <1>6, <1>7, <3>1, <3>2
    <3>3. ASSUME NEW i \in DOMAIN acks, acks[i].id = x, i # 1
          PROVE  \E k \in DOMAIN a : a[k].id = x
      <4>1. i \in 1 .. Len(acks)
        BY <1>1
      <4>2. i - 1 \in 1 .. Len(a) /\ a[i - 1] = acks[(i - 1) + 1] /\ (i - 1) + 1 = i
        BY <1>3, <3>3, <4>1
      <4>3. i - 1 \in DOMAIN a
        BY <4>2
      <4> QED BY <3>3, <4>2, <4>3
    <3>4. CASE ack.id = x
      <4>1. ack.ok
        <5>1. 1 \in 1 .. Len(acks)
          BY <1>3
        <5> QED BY <1>4, <3>4, <5>1 DEF RestingKnown
      <4>2. id = x
        BY <1>5, <3>4, <4>1
      <4> QED BY <1>6, <4>2
    <3> QED BY <1>4, <3>2, <3>3, <3>4 DEF RestingKnown
  <2> QED BY <1>6, <2>1, <2>2 DEF RestingKnown
<1>11. SidesKnown'
  <2>1. id # 0 => id \in DOMAIN sideOf /\ sideOf[id] = g
    BY <1>5, <1>7
  <2> QED BY <1>6, <2>1 DEF SidesKnown
<1> QED BY <1>8, <1>9, <1>10, <1>11

\* The exchange accepts or rejects the oldest order.
LEMMA MakerAnswered ==
    ASSUME StrategyType, NEW ok \in BOOLEAN, MakerOrderAnswered(ok),
           SidesAligned, OnePendingEach, RestingKnown, SidesKnown
    PROVE  SidesAligned' /\ OnePendingEach' /\ RestingKnown' /\ SidesKnown'
<1>1. acks \in Seq(Acks) /\ sides \in Seq({1, -1}) /\ queue \in Seq(Orders) /\ queue # << >>
       /\ bidId \in Nat /\ askId \in Nat /\ sideOf \in Seq({1, -1}) /\ nextId = Len(sideOf) + 1
  BY DEF StrategyType, MakerOrderAnswered
<1>2. PICK q \in Seq(Orders) :
           q = Tail(queue) /\ Len(queue) = Len(q) + 1 /\ \A i \in 1 .. Len(q) : q[i] = queue[i + 1]
  <2>1. /\ Tail(queue) \in Seq(Orders) /\ Len(queue) = Len(Tail(queue)) + 1
        /\ \A i \in 1 .. Len(Tail(queue)) : Tail(queue)[i] = queue[i + 1]
    BY <1>1, TailElements
  <2> QED BY <2>1
<1>3. PICK o \in Orders, g \in {1, -1} : o = Head(queue) /\ o = queue[1] /\ g = o.sign
  <2>1. Head(queue) \in Orders /\ Head(queue) = queue[1]
    BY <1>1, TailElements
  <2>2. Head(queue).sign \in {1, -1}
    BY <2>1 DEF Orders
  <2> QED BY <2>1, <2>2
<1>4. PICK e \in Acks : e = [id |-> nextId, ok |-> ok]
  <2>1. nextId \in Nat
    BY <1>1
  <2>2. [id |-> nextId, ok |-> ok] \in Acks
    BY <2>1 DEF Acks
  <2> QED BY <2>2
<1>5. e.id = nextId /\ e.ok = ok
  BY <1>4
<1>6. PICK a \in Seq(Acks), f \in Seq({1, -1}) :
           /\ a = Append(acks, e) /\ Len(a) = Len(acks) + 1 /\ a[Len(acks) + 1] = e
           /\ \A i \in 1 .. Len(acks) : a[i] = acks[i]
           /\ f = Append(sideOf, g) /\ DOMAIN f = DOMAIN sideOf \cup {nextId} /\ f[nextId] = g
           /\ \A i \in DOMAIN sideOf : f[i] = sideOf[i]
  <2>1. ASSUME NEW S, NEW s \in Seq(S), NEW x \in S
        PROVE  /\ Append(s, x) \in Seq(S) /\ Len(Append(s, x)) = Len(s) + 1
               /\ Append(s, x)[Len(s) + 1] = x /\ \A i \in 1 .. Len(s) : Append(s, x)[i] = s[i]
    OBVIOUS
  <2>2. DOMAIN sideOf = 1 .. Len(sideOf) /\ DOMAIN Append(sideOf, g) = 1 .. Len(sideOf) + 1
         /\ Len(sideOf) \in Nat
    BY <1>1, <2>1
  <2>3. 1 .. Len(sideOf) + 1 = (1 .. Len(sideOf)) \cup {Len(sideOf) + 1}
    BY <2>2
  <2>4. DOMAIN Append(sideOf, g) = DOMAIN sideOf \cup {nextId}
    BY <1>1, <2>2, <2>3, Zenon
  <2>5. /\ Append(sideOf, g) \in Seq({1, -1}) /\ Append(sideOf, g)[nextId] = g
        /\ \A i \in DOMAIN sideOf : Append(sideOf, g)[i] = sideOf[i]
    <3>1. sideOf \in Seq({1, -1}) /\ g \in {1, -1}
      BY <1>1
    <3>2. Append(sideOf, g) \in Seq({1, -1})
      BY <3>1, <2>1
    <3>3. Append(sideOf, g)[Len(sideOf) + 1] = g
      BY <3>1, <2>1
    <3>4. \A i \in 1 .. Len(sideOf) : Append(sideOf, g)[i] = sideOf[i]
      BY <3>1, <2>1
    <3> QED BY <1>1, <2>2, <3>2, <3>3, <3>4, Zenon
  <2>6. /\ Append(acks, e) \in Seq(Acks) /\ Len(Append(acks, e)) = Len(acks) + 1
        /\ Append(acks, e)[Len(acks) + 1] = e
        /\ \A i \in 1 .. Len(acks) : Append(acks, e)[i] = acks[i]
    <3>1. acks \in Seq(Acks) /\ e \in Acks
      BY <1>1
    <3> QED BY <3>1, <2>1
  <2> QED BY <2>4, <2>5, <2>6
<1>7. /\ queue' = q /\ acks' = a /\ sideOf' = f /\ live' = IF ok THEN live \cup {nextId} ELSE live
      /\ UNCHANGED <<sides, bidId, askId, cancels>>
  BY <1>2, <1>3, <1>4, <1>6 DEF MakerOrderAnswered
<1>8. nextId \notin DOMAIN sideOf
  BY <1>1
<1>9. /\ Len(acks) \in Nat /\ Len(q) \in Nat /\ Len(sides) = Len(acks) + (Len(q) + 1)
      /\ DOMAIN a = 1 .. Len(acks) + 1 /\ DOMAIN acks = 1 .. Len(acks)
  BY <1>1, <1>2, <1>6 DEF SidesAligned
<1>10. SidesAligned'
  <2>1. Len(sides) = Len(a) + Len(q)
    BY <1>6, <1>9
  <2>2. ASSUME NEW i \in 1 .. Len(a) PROVE a[i].id \in DOMAIN f /\ sides[i] = f[a[i].id]
    <3>1. CASE i \in 1 .. Len(acks)
      <4>1. acks[i].id \in DOMAIN sideOf /\ sides[i] = sideOf[acks[i].id]
        BY <3>1 DEF SidesAligned
      <4> QED BY <1>6, <3>1, <4>1
    <3>2. CASE i = Len(acks) + 1
      <4>1. 1 \in 1 .. Len(queue)
        BY <1>2, <1>9
      <4>2. sides[Len(acks) + 1] = queue[1].sign
        BY <4>1 DEF SidesAligned
      <4> QED BY <1>3, <1>5, <1>6, <3>2, <4>2
    <3> QED BY <1>6, <1>9, <3>1, <3>2
  <2>3. ASSUME NEW j \in 1 .. Len(q) PROVE sides[Len(a) + j] = q[j].sign
    <3>1. j + 1 \in 1 .. Len(queue) /\ Len(acks) + (j + 1) = Len(a) + j
      BY <1>2, <1>6, <1>9
    <3>2. sides[Len(acks) + (j + 1)] = queue[j + 1].sign
      BY <3>1 DEF SidesAligned
    <3> QED BY <1>2, <3>1, <3>2
  <2> QED BY <1>7, <2>1, <2>2, <2>3 DEF SidesAligned
<1>11. OnePendingEach'
  BY <1>7 DEF OnePendingEach
<1>12. RestingKnown'
  <2>1. live' \subseteq DOMAIN f
    BY <1>6, <1>7 DEF RestingKnown
  <2>2. ASSUME NEW i \in 1 .. Len(a) PROVE a[i].ok \/ a[i].id \notin live'
    <3>1. CASE i \in 1 .. Len(acks)
      <4>1. acks[i].id \in DOMAIN sideOf
        BY <3>1 DEF SidesAligned
      <4>2. acks[i].ok \/ acks[i].id \notin live
        BY <3>1 DEF RestingKnown
      <4>3. a[i] = acks[i] /\ acks[i].id # nextId
        BY <1>6, <1>8, <3>1, <4>1
      <4>4. CASE acks[i].ok
        BY <4>3, <4>4
      <4>5. CASE acks[i].id \notin live
        BY <1>7, <4>3, <4>5
      <4> QED BY <4>2, <4>4, <4>5
    <3>2. CASE i = Len(acks) + 1
      <4>1. a[i] = e
        BY <1>6, <3>2
      <4>2. CASE ok
        BY <1>5, <4>1, <4>2
      <4>3. CASE ~ok
        BY <1>5, <1>7, <1>8, <4>1, <4>3 DEF RestingKnown
      <4> QED BY <4>2, <4>3
    <3> QED BY <1>6, <1>9, <3>1, <3>2
  <2>3. ASSUME NEW x \in live'
        PROVE  \/ x \in {bidId, askId}
               \/ \E i \in DOMAIN cancels : cancels[i] = x
               \/ \E i \in DOMAIN a : a[i].id = x
    <3>1. CASE x = nextId
      <4>1. Len(acks) + 1 \in DOMAIN a /\ a[Len(acks) + 1].id = x
        BY <1>5, <1>6, <1>9, <3>1
      <4> QED BY <4>1
    <3>2. CASE x \in live
      <4>1. ASSUME NEW i \in DOMAIN acks, acks[i].id = x PROVE i \in DOMAIN a /\ a[i].id = x
        BY <1>6, <1>9, <4>1
      <4> QED BY <3>2, <4>1 DEF RestingKnown
    <3> QED BY <1>7, <3>1, <3>2
  <2> QED BY <1>7, <2>1, <2>2, <2>3 DEF RestingKnown
<1>13. SidesKnown'
  BY <1>6, <1>7 DEF SidesKnown
<1> QED BY <1>10, <1>11, <1>12, <1>13

\* No step breaks the invariant of the market maker.
LEMMA MakerStep ==
    ASSUME StrategyType, MakerInv, [Next]_vars PROVE MakerInv'
<1>. SUFFICES ASSUME kind = "MarketMaker", mishaps' = {}
              PROVE  SidesAligned' /\ OnePendingEach' /\ RestingKnown' /\ SidesKnown'
  BY MishapsRemain DEF MakerInv
<1>1. SidesAligned /\ OnePendingEach /\ RestingKnown /\ SidesKnown
  BY MishapsRemain DEF MakerInv
<1>2. ASSUME UNCHANGED <<queue, sides, acks, sideOf, bidId, askId, live, cancels>>
      PROVE  SidesAligned' /\ OnePendingEach' /\ RestingKnown' /\ SidesKnown'
  BY <1>1, <1>2 DEF SidesAligned, OnePendingEach, RestingKnown, SidesKnown
<1>3. ASSUME UNCHANGED <<queue, sides, acks, sideOf, bidId, askId>>, live' \subseteq live,
             \A x \in live' : (\E i \in DOMAIN cancels : cancels[i] = x)
                              => \E i \in DOMAIN cancels' : cancels'[i] = x
      PROVE  SidesAligned' /\ OnePendingEach' /\ RestingKnown' /\ SidesKnown'
  <2>1. SidesAligned' /\ OnePendingEach' /\ SidesKnown'
    BY <1>1, <1>3 DEF SidesAligned, OnePendingEach, SidesKnown
  <2>2. RestingKnown'
    BY <1>1, <1>3 DEF RestingKnown
  <2> QED BY <2>1, <2>2
<1>4. ASSUME NEW mid \in Mids, MakerOnBbo(mid)
      PROVE  SidesAligned' /\ OnePendingEach' /\ RestingKnown' /\ SidesKnown'
  BY <1>4, MakerQuotes
<1>5. CASE MakerOnAck
  BY <1>1, <1>5, MakerAck
<1>6. ASSUME NEW ok \in BOOLEAN, MakerOrderAnswered(ok)
      PROVE  SidesAligned' /\ OnePendingEach' /\ RestingKnown' /\ SidesKnown'
  BY <1>1, <1>6, MakerAnswered
<1>7. CASE MakerCancelled
  <2>1. /\ cancels # << >> /\ cancels' = Tail(cancels) /\ live' = live \ {Head(cancels)}
        /\ UNCHANGED <<queue, sides, acks, sideOf, bidId, askId>> /\ cancels \in Seq(Nat)
    BY <1>7 DEF MakerCancelled, common, StrategyType
  <2>2. PICK t \in Seq(Nat) : t = Tail(cancels) /\ Len(cancels) = Len(t) + 1
                              /\ \A i \in 1 .. Len(t) : t[i] = cancels[i + 1]
    <3>1. /\ Tail(cancels) \in Seq(Nat) /\ Len(cancels) = Len(Tail(cancels)) + 1
          /\ \A i \in 1 .. Len(Tail(cancels)) : Tail(cancels)[i] = cancels[i + 1]
      BY <2>1, TailElements
    <3> QED BY <3>1
  <2>3. Head(cancels) = cancels[1]
    BY <2>1, TailElements
  <2>4. ASSUME NEW x \in live', NEW i \in DOMAIN cancels, cancels[i] = x
        PROVE  \E k \in DOMAIN t : t[k] = x
    <3>1. i # 1 /\ i \in 1 .. Len(cancels)
      BY <2>1, <2>3, <2>4
    <3>2. i - 1 \in 1 .. Len(t) /\ (i - 1) + 1 = i
      BY <2>2, <3>1
    <3>3. t[i - 1] = x /\ i - 1 \in DOMAIN t
      BY <2>2, <2>4, <3>2
    <3> QED BY <3>3
  <2> QED BY <1>3, <2>1, <2>2, <2>4
<1>8. ASSUME NEW id \in DOMAIN sideOf, MakerOnFill(id)
      PROVE  SidesAligned' /\ OnePendingEach' /\ RestingKnown' /\ SidesKnown'
  BY <1>3, <1>8 DEF MakerOnFill
<1>9. ASSUME NEW q, OnIocFill(q)
      PROVE  SidesAligned' /\ OnePendingEach' /\ RestingKnown' /\ SidesKnown'
  BY <1>2, <1>9 DEF OnIocFill, mmVars
<1>10. CASE UNCHANGED vars
  BY <1>2, <1>10 DEF vars, common, mmVars
<1>11. ~MakerOrderRefused
  BY DEF MakerOrderRefused
<1>12. /\ \A mid : ~MomentumStop(mid)
       /\ ~MomentumSignal /\ ~MomentumClose /\ \A z : ~ArbOnBbo(z) /\ ~PopOrder
  BY DEF MomentumStop, MomentumSignal, MomentumClose, ArbOnBbo, PopOrder, StrategyType
<1> QED BY <1>4, <1>5, <1>6, <1>7, <1>8, <1>9, <1>10, <1>11, <1>12 DEF Next

-----------------------------------------------------------------------------
StrategyInv == StrategyType /\ MakerInv /\ MomentumInv /\ ArbInv

\* All three strategies start in their invariants.
LEMMA StrategyInvInit == Init => StrategyInv
<1>. SUFFICES ASSUME Init PROVE StrategyInv
  OBVIOUS
<1>1. StrategyType
  BY StrategyInitType
<1>2. /\ queue = << >> /\ flight = << >> /\ inv["A"] = 0 /\ inv["B"] = 0 /\ arb = "FLAT"
      /\ sides = << >> /\ acks = << >> /\ live = {} /\ bidId = 0 /\ askId = 0
  BY DEF Init, MakerInit, ArbInit, Legs
<1>3. MakerInv
  BY <1>2 DEF MakerInv, SidesAligned, OnePendingEach, RestingKnown, SidesKnown
<1>4. MomentumInv
  <2>1. Abs(inv["A"]) <= OrderQty
    BY <1>2, StrategyAssumption DEF Abs
  <2> QED BY <1>2, <2>1 DEF MomentumInv
<1>5. ArbInv
  <2>1. Pending("A") = 0 /\ Pending("B") = 0
    BY <1>2, OrderedEmpty DEF Pending
  <2> QED BY <1>2, <2>1 DEF ArbInv, ArbLegsMatchState, Held
<1> QED BY <1>1, <1>3, <1>4, <1>5 DEF StrategyInv

\* The inductive invariant of the three strategies: the types, and for each of
\* them how its own fields answer to the orders, acknowledgements and fills that
\* are still under way between its thread and the others.
THEOREM StrategyInvariant == Spec => []StrategyInv
<1>1. StrategyInv /\ [Next]_vars => StrategyInv'
  BY StrategyTypeStep, MakerStep, MomentumStep, ArbStep DEF StrategyInv
<1> QED BY StrategyInvInit, <1>1, PTL DEF Spec

\* For every queue depth, size, limit and number of quotes, what the market
\* maker and the arbitrage believe of their orders is what the market holds for
\* them, as long as none is dropped, left unanswered or unfilled or decided too
\* early: an id the maker keeps is on the side it keeps it for, no resting quote
\* is forgotten, and the two legs add up to the spread state_ stands for.
THEOREM BeliefsMatchTheMarket == Spec => []StrategiesKeepTrack
<1>1. StrategyInv => StrategiesKeepTrack
  BY DEF StrategyInv, MakerInv, RestingKnown, SidesKnown, ArbInv, StrategiesKeepTrack,
         QuotesAreTracked
<1> QED BY StrategyInvariant, <1>1, PTL

\* For every size and however the fills arrive between the loads of
\* inventory_, Momentum's position never exceeds one order and never turns
\* around in one step, as long as it does not decide before its last order is
\* answered.
THEOREM MomentumNeverAdds == Spec => MomentumHoldsOneDirection
<1>1. StrategyInv /\ [Next]_vars
      => [(kind = "Momentum" /\ mishaps' \cap {"early"} = {}) =>
            /\ Abs(inv["A"]') <= OrderQty
            /\ inv["A"] * inv["A"]' >= 0]_vars
  <2>. SUFFICES ASSUME StrategyInv, [Next]_vars, kind = "Momentum", mishaps' \cap {"early"} = {}
                PROVE  Abs(inv["A"]') <= OrderQty /\ inv["A"] * inv["A"]' >= 0
    OBVIOUS
  <2>1. MomentumDirection
    BY MomentumStep DEF StrategyInv
  <2> QED BY <2>1 DEF MomentumDirection
<1>2. Spec => [][Next]_vars
  BY DEF Spec
<1> QED BY StrategyInvariant, <1>1, <1>2, PTL DEF MomentumHoldsOneDirection

-----------------------------------------------------------------------------
(* Twap, Vwap and Pov                                                      *)

\* What the constructors fix, and where the schedule and the plan are.
ScheduleTypes ==
    /\ total \in Nat \ {0} /\ slices \in Nat \ {0}
    /\ idx \in 0 .. slices
    /\ target \in [0 .. slices - 1 -> Int]

(***************************************************************************)
(* That sent never exceeds total says nothing of the slices to come.  The  *)
(* invariant keeps one lot back for each of them, which is what Headroom   *)
(* is for; with too few lots every slice before the last sends just one.   *)
(***************************************************************************)
Reserve ==
    IF total >= slices
    THEN IF idx < slices THEN sent + (slices - idx) <= total ELSE sent = total
    ELSE sent = IF idx < slices THEN idx ELSE slices - 1

ScheduleInv ==
    /\ ScheduleTypes
    /\ algo # "POV" => sent \in Int /\ Reserve

\* A plan has an integer for every slice.
LEMMA PlanTypes ==
    ASSUME NEW w, NEW old, NEW first, NEW n, NEW qty, NEW weightSum,
           NEW p \in Plans(w, old, first, n, qty, weightSum)
    PROVE  p \in [0 .. n - 1 -> Int]
<1> DEFINE most == MaxOf(qty, Max({old[i] : i \in 0 .. n - 1}))
<1>1. p \in [0 .. n - 1 -> 0 .. most]
  BY Zenon DEF Plans
<1> HIDE DEF most
<1>2. 0 .. most \subseteq Int
  OBVIOUS
<1> QED
  BY <1>1, <1>2

\* The constructor keeps a lot back for every slice.
LEMMA InitSchedule == AlgosInit => ScheduleInv
<1> SUFFICES ASSUME AlgosInit PROVE ScheduleInv
  OBVIOUS
<1>1. total \in Nat \ {0} /\ slices \in Nat \ {0} /\ idx = 0 /\ sent = 0
  BY AlgoAssumption DEF AlgosInit
<1>2. target \in [0 .. slices - 1 -> Int]
  <2>1. CASE algo = "VWAP"
    BY <2>1, PlanTypes DEF AlgosInit
  <2>2. CASE algo # "VWAP"
    BY <2>2 DEF AlgosInit
  <2> QED
    BY <2>1, <2>2
<1> QED
  BY <1>1, <1>2 DEF ScheduleInv, ScheduleTypes, Reserve

\* Sending the slice that is due, of whatever size was wanted, keeps one lot
\* for every later slice, and the last slice takes exactly the rest.
LEMMA SliceKeepsReserve ==
    ASSUME total \in Nat \ {0}, slices \in Nat \ {0}, idx \in 0 .. slices,
           sent \in Int, Reserve, Due, NEW wanted \in Int,
           SendSlice(SliceQty(wanted)), total' = total, slices' = slices
    PROVE  idx' \in 0 .. slices /\ sent' \in Int /\ Reserve'
<1>1. idx \in 0 .. slices - 1 /\ idx' = idx + 1
  BY DEF Due, SendSlice
<1>2. CASE LastSlice
  <2>1. sent' = sent + MaxOf(0, total - sent) /\ idx' = slices
    BY <1>1, <1>2 DEF SendSlice, SliceQty, LastSlice
  <2> QED
    BY <1>1, <1>2, <2>1 DEF Reserve, LastSlice, MaxOf
<1>3. CASE ~LastSlice
  <2>1. sent' = sent + MaxOf(0, MaxOf(1, MinOf(wanted, Headroom)))
    BY <1>3 DEF SendSlice, SliceQty
  <2> QED
    BY <1>1, <1>3, <2>1 DEF Reserve, LastSlice, MaxOf, MinOf, Headroom
<1> QED
  BY <1>2, <1>3

\* Jitter returns an integer.
LEMMA JitterTypes ==
    ASSUME NEW base, NEW q \in Jittered(base)
    PROVE  q \in Int
  BY DEF Jittered, MaxOf

\* Every action keeps the reserve.
LEMMA ScheduleStep == ScheduleInv /\ [AlgosNext]_algosVars => ScheduleInv'
<1> SUFFICES ASSUME ScheduleInv, [AlgosNext]_algosVars PROVE ScheduleInv'
  OBVIOUS
<1> USE DEF ScheduleInv, ScheduleTypes
<1>1. CASE Start
  BY <1>1 DEF Start, parent, Reserve
<1>2. CASE Advance
  BY <1>2 DEF Advance, parent, Reserve
<1>3. CASE TwapTick
  <2>1. PICK q \in Jittered(total \div slices) : SendSlice(SliceQty(q))
    BY <1>3 DEF TwapTick
  <2>2. q \in Int
    BY JitterTypes
  <2>3. algo = "TWAP" /\ Due /\ UNCHANGED <<algo, total, slices, target>>
    BY <1>3 DEF TwapTick, parent
  <2>4. idx' \in 0 .. slices /\ sent' \in Int /\ Reserve'
    BY <2>1, <2>2, <2>3, SliceKeepsReserve
  <2> QED
    BY <2>3, <2>4
<1>4. CASE VwapTick
  <2>1. algo = "VWAP" /\ Due /\ UNCHANGED <<algo, total, slices>>
    BY <1>4 DEF VwapTick, parent
  <2>2. target' \in [0 .. slices - 1 -> Int]
    <3>1. PICK expected \in Expected :
            IF Deviates(expected)
            THEN target' \in Plans(profile, target, idx, slices, total - filled,
                                   WeightSum(idx, slices - 1))
            ELSE target' = target
      BY <1>4 DEF VwapTick, MaybeRebalance
    <3> QED
      BY <3>1, PlanTypes
  <2>3. target'[idx] \in Int
    BY <2>1, <2>2 DEF Due
  <2>4. SendSlice(SliceQty(target'[idx]))
    BY <1>4 DEF VwapTick
  <2>5. idx' \in 0 .. slices /\ sent' \in Int /\ Reserve'
    BY <2>1, <2>3, <2>4, SliceKeepsReserve
  <2> QED
    BY <2>1, <2>2, <2>5
<1>5. ASSUME NEW q \in Trades, MarketTrade(q) PROVE ScheduleInv'
  BY <1>5 DEF MarketTrade, parent
<1>6. ASSUME NEW q \in 1 .. inFlight, OnFill(q) PROVE ScheduleInv'
  BY <1>6 DEF OnFill, parent, Reserve
<1>7. CASE UNCHANGED algosVars
  BY <1>7 DEF algosVars, parent, Reserve
<1> QED
  BY <1>1, <1>2, <1>3, <1>4, <1>5, <1>6, <1>7 DEF AlgosNext

\* Twap and Vwap never send more than the parent order and have sent all of it
\* after the last slice, for every size, profile, jitter and order of fills
\* and restarts; with fewer lots than slices they send one per slice.
THEOREM ParentIsExact == AlgosSpec => []ParentQuantityIsExact
<1>1. ScheduleInv => ParentQuantityIsExact
  BY DEF ScheduleInv, ScheduleTypes, Reserve, ParentQuantityIsExact
<1> QED
  BY InitSchedule, ScheduleStep, <1>1, PTL DEF AlgosSpec

-----------------------------------------------------------------------------
(* Pov                                                                     *)

\* Pov's counters, and the property itself: it is inductive.
PovInv ==
    /\ total \in Nat
    /\ algo = "POV" => sent \in Nat /\ volume \in Nat
    /\ PovTracksMarket

\* Truncation loses at most one unit.
LEMMA TruncatedBounds ==
    ASSUME NEW a \in Nat, NEW b \in Nat \ {0}, NEW t \in Truncated(a, b)
    PROVE  t \in Int /\ t * b <= a /\ a \div b \in Int /\ a \div b <= t + 1
<1>1. PICK q \in Int : a \div b = q /\ b * q <= a /\ a < b * q + b
  BY DivBounds
<1>2. t = q \/ t = q - 1
  BY <1>1 DEF Truncated
<1>3. q * b <= a /\ (q - 1) * b <= a
  BY <1>1
<1> QED BY <1>1, <1>2, <1>3

\* A market trade: the order sent brings Pov to its share or to the end of the
\* parent order, and no order is sent for a gap of one unit or less.
LEMMA MarketTradePov ==
    ASSUME PovInv, NEW q \in Trades, MarketTrade(q)
    PROVE  PovInv'
<1>. DEFINE V == volume + q
            A == V * RateNum
            fl == A \div RateDen
<1>0. /\ algo = "POV" /\ sent \in Nat /\ total \in Nat /\ volume \in Nat /\ q \in Nat
      /\ RateDen \in Nat \ {0} /\ RateNum \in Nat
      /\ sent <= total /\ sent * RateDen <= volume * RateNum
  BY AlgoAssumption DEF PovInv, PovTracksMarket, MarketTrade
<1>1. V \in Nat /\ A \in Nat /\ volume * RateNum <= A
  BY <1>0
<1>2. /\ algo' = algo /\ total' = total /\ volume' = V
  BY DEF MarketTrade, parent
<1>3. PICK tgt \in Truncated(A, RateDen) :
        sent' = sent + IF Gap(tgt) > 1 THEN MaxOf(0, MinOf(Gap(tgt), total - sent)) ELSE 0
  BY DEF MarketTrade
<1>4. tgt \in Int /\ tgt * RateDen <= A /\ fl \in Int /\ fl <= tgt + 1
  <2>. HIDE DEF A
  <2> QED BY <1>0, <1>1, TruncatedBounds
<1>5. /\ sent' \in Nat /\ sent' <= total
      /\ sent' = sent \/ sent' <= tgt
      /\ sent' = total \/ fl - sent' <= 2
  <2>. HIDE DEF fl
  <2>1. CASE Gap(tgt) > 1
    <3>1. /\ sent' = sent + MinOf(tgt - sent, total - sent) /\ MinOf(tgt - sent, total - sent) >= 0
      BY <1>0, <1>3, <1>4, <2>1 DEF Gap, MaxOf, MinOf
    <3> QED BY <1>0, <1>4, <3>1 DEF MinOf
  <2>2. CASE ~(Gap(tgt) > 1)
    BY <1>0, <1>3, <1>4, <2>2 DEF Gap
  <2> QED BY <2>1, <2>2
<1>6. sent' * RateDen <= A
  <2>1. CASE sent' = sent
    <3>. DEFINE x == sent * RateDen
    <3>1. x \in Int /\ x <= volume * RateNum /\ volume * RateNum \in Int /\ sent' * RateDen = x
      BY <1>0, <2>1
    <3>. HIDE DEF x, A
    <3> QED BY <1>1, <3>1
  <2>2. CASE sent' <= tgt
    <3>1. sent' * RateDen <= tgt * RateDen
      <4>1. sent' \in Int /\ tgt \in Int /\ RateDen \in Nat
        BY <1>0, <1>4, <1>5
      <4> QED BY <4>1, <2>2, TimesMonotone
    <3>2. sent' * RateDen \in Int /\ tgt * RateDen \in Int
      BY <1>0, <1>4, <1>5
    <3>. HIDE DEF A
    <3> QED BY <1>1, <1>4, <3>1, <3>2
  <2> QED BY <1>5, <2>1, <2>2
<1>7. PovTracksMarket'
  BY <1>2, <1>5, <1>6 DEF PovTracksMarket
<1> QED BY <1>0, <1>1, <1>2, <1>5, <1>7 DEF PovInv

\* Pov stays within its share of the market's volume and within the parent
\* order, and falls behind by at most two units until that is exhausted, for
\* every participation rate and every run of trades.
THEOREM PovFollows == AlgosSpec => []PovTracksMarket
<1>1. AlgosInit => PovInv
  <2>. SUFFICES ASSUME AlgosInit PROVE PovInv
    OBVIOUS
  <2>1. total \in Nat /\ sent = 0 /\ volume = 0 /\ RateDen \in Nat \ {0} /\ RateNum \in Nat
    BY AlgoAssumption DEF AlgosInit
  <2>2. (volume * RateNum) \div RateDen = 0 /\ sent * RateDen = 0 /\ volume * RateNum = 0
    BY <2>1
  <2> QED BY <2>1, <2>2 DEF PovInv, PovTracksMarket
<1>2. PovInv /\ [AlgosNext]_algosVars => PovInv'
  <2>. SUFFICES ASSUME PovInv, [AlgosNext]_algosVars PROVE PovInv'
    OBVIOUS
  <2>1. ASSUME NEW q \in Trades, MarketTrade(q) PROVE PovInv'
    BY <2>1, MarketTradePov
  <2>2. CASE Start \/ TwapTick \/ VwapTick
    BY <2>2 DEF PovInv, PovTracksMarket, Start, TwapTick, VwapTick, parent
  <2>3. CASE UNCHANGED <<algo, total, sent, volume>>
    BY <2>3 DEF PovInv, PovTracksMarket
  <2>4. Advance \/ UNCHANGED algosVars \/ (\E q \in 1 .. inFlight : OnFill(q))
          => UNCHANGED <<algo, total, sent, volume>>
    BY DEF Advance, algosVars, OnFill, parent
  <2> QED BY <2>1, <2>2, <2>3, <2>4 DEF AlgosNext
<1>3. PovInv => PovTracksMarket
  BY DEF PovInv
<1> QED BY <1>1, <1>2, <1>3, PTL DEF AlgosSpec

\* The sources of orders as MCTrading runs them: a behaviour of the composition
\* is one of the strategies and one of the algorithms, so what is proved of
\* either, by on_bbo, on_fill and tick, holds of it.
THEOREM TradingKept ==
    TradingSpec => /\ []StrategiesKeepTrack /\ MomentumHoldsOneDirection
                   /\ [](ParentQuantityIsExact /\ PovTracksMarket)
<1>1. TradingInit => Init /\ AlgosInit
  BY DEF TradingInit
<1>2. [TradingNext]_tradingVars => [Next]_vars /\ [AlgosNext]_algosVars
  BY DEF TradingNext, tradingVars
<1>3. TradingSpec => Spec /\ AlgosSpec
  BY <1>1, <1>2, PTL DEF TradingSpec, Spec, AlgosSpec
<1> QED
  BY <1>3, BeliefsMatchTheMarket, MomentumNeverAdds, ParentIsExact, PovFollows, PTL
=============================================================================
