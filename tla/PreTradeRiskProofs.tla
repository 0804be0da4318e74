------------------------- MODULE PreTradeRiskProofs -------------------------
(***************************************************************************)
(* Theorems about the three checks of PreTradeRisk, for any number of      *)
(* calling threads and any limits: the circuit breaker blocks every        *)
(* breach, the position limits lose no reservation, and the rate limiter   *)
(* grants what its rate allows.                                            *)
(***************************************************************************)
EXTENDS PreTradeRisk, SumTheorems

-----------------------------------------------------------------------------
(* The circuit breaker blocks every breach, for any threshold and any      *)
(* increments, as long as no reset() has run at the same time as an        *)
(* update_pnl.                                                             *)


(***************************************************************************)
(* Quiescence alone says nothing about the moments between the add and the *)
(* compare-exchange.  There a breach under a CLOSED breaker is owed to     *)
(* some thread that added the breaching amount and has yet to trip it.     *)
(***************************************************************************)
BreachInv ==
    /\ TypeOK
    /\ (~overlapped /\ resetting) => pnl = 0 /\ \A t \in Threads : pc[t] = "idle"
    /\ (~overlapped /\ state = "CLOSED" /\ pnl <= OpenThreshold)
        => \E t \in Threads : pc[t] = "cas" /\ newPnl[t] <= OpenThreshold

\* The constructor's values have their types.
LEMMA InitTypes == Init => TypeOK
<1> SUFFICES ASSUME Init PROVE TypeOK
  OBVIOUS
<1>1. 0 \in Pnls /\ 0 \in 0 .. MaxResets
  BY ThresholdAssumption DEF Pnls
<1>2. state = "CLOSED" /\ resetting = FALSE /\ overlapped = FALSE /\ resets = 0 /\ pnl = 0
  BY DEF Init
<1>3. pc \in [Threads -> {"idle", "cas"}] /\ newPnl \in [Threads -> Pnls]
  BY <1>1 DEF Init
<1> QED
  BY <1>1, <1>2, <1>3, Zenon DEF TypeOK

\* Every action keeps the types.
LEMMA TypeStep == TypeOK /\ [Next]_vars => TypeOK'
<1> SUFFICES ASSUME TypeOK, [Next]_vars PROVE TypeOK'
  OBVIOUS
<1>1. ASSUME NEW t \in Threads, Trip(t) PROVE TypeOK'
  BY <1>1 DEF TypeOK, Trip, StateAfter
<1>2. ASSUME NEW t \in Threads, NEW d \in Deltas, Accumulate(t, d)
      PROVE  TypeOK'
  BY <1>2 DEF TypeOK, Accumulate
<1>3. CASE ResetPnl
  BY <1>3, ThresholdAssumption DEF TypeOK, ResetPnl, Pnls
<1>4. CASE ResetState
  BY <1>4 DEF TypeOK, ResetState
<1>5. CASE UNCHANGED vars
  BY <1>5 DEF TypeOK, vars
<1> QED
  BY <1>1, <1>2, <1>3, <1>4, <1>5 DEF Next

\* Every variable keeps its type: in particular daily_pnl_ and the threads'
\* copies of it stay in the modelled range.
THEOREM TypeCorrect == Spec => []TypeOK
  BY InitTypes, TypeStep, PTL DEF Spec

\* No compare-exchange of update_pnl closes the breaker.
LEMMA TripNeverCloses ==
    ASSUME NEW cur \in {"OPEN", "HALF_OPEN"}, NEW sum \in Int
    PROVE  StateAfter(cur, sum) # "CLOSED"
  BY DEF StateAfter

\* The inductive step, one step per action.
LEMMA BreachInvStep ==
    ASSUME BreachInv, [Next]_vars
    PROVE  BreachInv'
<1> USE ThresholdAssumption
<1>0. TypeOK /\ TypeOK'
  BY TypeStep DEF BreachInv
<1>1. ASSUME overlapped' PROVE BreachInv'
  BY <1>0, <1>1 DEF BreachInv
<1>2. ASSUME ~overlapped' PROVE ~overlapped
  BY <1>2 DEF Next, Trip, Accumulate, ResetPnl, ResetState, vars
<1>3. ASSUME ~overlapped', ~overlapped PROVE BreachInv'
  <2> USE <1>3 DEF BreachInv
  <2>1. ASSUME NEW t \in Threads, Trip(t) PROVE BreachInv'
    <3>1. ~resetting /\ ~resetting'
      BY <2>1 DEF Trip
    <3>2. ASSUME state' = "CLOSED", pnl' <= OpenThreshold
          PROVE  \E u \in Threads : pc'[u] = "cas" /\ newPnl'[u] <= OpenThreshold
      <4>1. state = "CLOSED" /\ newPnl[t] > OpenThreshold
        BY <2>1, <3>2 DEF Trip, StateAfter, TypeOK, Pnls
      <4>2. PICK u \in Threads : pc[u] = "cas" /\ newPnl[u] <= OpenThreshold
        BY <2>1, <3>2, <4>1 DEF Trip
      <4>3. u # t
        BY <4>1, <4>2 DEF TypeOK, Pnls
      <4> QED
        BY <2>1, <4>2, <4>3 DEF Trip, TypeOK
    <3> QED
      BY <1>0, <3>1, <3>2
  <2>2. ASSUME NEW t \in Threads, NEW d \in Deltas, Accumulate(t, d)
        PROVE  BreachInv'
    <3>1. ~resetting /\ ~resetting'
      BY <2>2 DEF Accumulate
    <3>2. pc'[t] = "cas" /\ newPnl'[t] = pnl'
      BY <2>2 DEF Accumulate, TypeOK
    <3> QED
      BY <1>0, <3>1, <3>2
  <2>3. CASE ResetPnl
    <3>1. \A t \in Threads : pc[t] = "idle" /\ pc'[t] = "idle"
      BY <2>3 DEF ResetPnl, TypeOK
    <3>2. pnl' = 0
      BY <2>3 DEF ResetPnl
    <3> QED
      BY <1>0, <3>1, <3>2
  <2>4. CASE ResetState
    BY <1>0, <2>4 DEF ResetState
  <2>5. CASE UNCHANGED vars
    BY <1>0, <2>5 DEF vars
  <2> QED
    BY <2>1, <2>2, <2>3, <2>4, <2>5 DEF Next
<1> QED
  BY <1>1, <1>2, <1>3

\* allow_order() returns false once the accumulated loss has reached
\* open_threshold_ and the update_pnl calls that recorded it have returned.
THEOREM BreachBlocks == Spec => []BreachBlocksOrders
<1>1. Init => BreachInv
  BY InitTypes, ThresholdAssumption DEF Init, BreachInv
<1>2. BreachInv /\ [Next]_vars => BreachInv'
  BY BreachInvStep
<1>3. BreachInv => BreachBlocksOrders
  BY DEF BreachInv, BreachBlocksOrders, Quiet, AllowOrder, TypeOK
<1> QED
  BY <1>1, <1>2, <1>3, PTL DEF Spec

\* Orders pass again only through the second store of reset(), with or without
\* updates running at the same time.
THEOREM OnlyReset == Spec => OnlyResetCloses
<1>1. TypeOK /\ [Next]_vars =>
        [~AllowOrder /\ AllowOrder' => resetting /\ ~resetting']_vars
  <2> SUFFICES ASSUME TypeOK, [Next]_vars, ~AllowOrder, AllowOrder'
               PROVE  resetting /\ ~resetting'
    OBVIOUS
  <2>0. state \in {"OPEN", "HALF_OPEN"} /\ state' = "CLOSED"
    BY DEF TypeOK, AllowOrder
  <2>1. ASSUME NEW t \in Threads, Trip(t) PROVE FALSE
    <3>1. newPnl[t] \in Int
      BY DEF TypeOK, Pnls
    <3> QED
      BY <2>0, <2>1, <3>1, TripNeverCloses DEF Trip
  <2>2. ASSUME NEW t \in Threads, NEW d \in Deltas, Accumulate(t, d)
        PROVE  FALSE
    BY <2>0, <2>2 DEF Accumulate
  <2>3. CASE ResetPnl
    BY <2>0, <2>3 DEF ResetPnl
  <2>4. CASE ResetState
    BY <2>4 DEF ResetState
  <2>5. CASE UNCHANGED vars
    BY <2>0, <2>5 DEF vars
  <2> QED
    BY <2>1, <2>2, <2>3, <2>4, <2>5 DEF Next
<1> QED
  BY <1>1, TypeCorrect, PTL DEF Spec, OnlyResetCloses

-----------------------------------------------------------------------------
(* The reservation loop of check_and_reserve keeps the net position within *)
(* its limits for any limits and any order sizes, until a reservation is   *)
(* given back.  on_cancel has no bounds test: with a limit of 2, reserve   *)
(* +2, -2 and -2, then cancel the +2; the slot holds -4.                   *)


(***************************************************************************)
(* WithinLimits alone is not inductive: a thread about to compare-exchange *)
(* must have tested the very sum it is going to store.  The test is on its *)
(* old copy, and the exchange succeeds only if that copy is still current. *)
(***************************************************************************)
LimitInv ==
    /\ LimitsTypeOK
    /\ WithinLimits
    /\ \A t \in Reservers : plPc[t] = "cas" => Within(old[t] + delta[t])

\* The initial state is well typed and within the limits.
LEMMA LimitsInitTypes == LimitsInit => LimitsTypeOK /\ Within(net)
<1> SUFFICES ASSUME LimitsInit PROVE LimitsTypeOK /\ Within(net)
  OBVIOUS
<1>1. /\ net \in Int /\ plPc \in [Reservers -> {"idle", "check", "cas"}]
      /\ delta \in [Reservers -> SignedQtys] /\ old \in [Reservers -> Int]
      /\ live \in Reserved /\ made \in 0 .. MaxOrders /\ Within(net)
  BY LimitsAssumption DEF LimitsInit, SignedQtys, Reserved, Within
<1>2. cancelled \in BOOLEAN
  BY Zenon DEF LimitsInit
<1> QED
  BY <1>1, <1>2, Zenon DEF LimitsTypeOK

\* Every variable keeps its type, cancels included.
THEOREM LimitsTypeCorrect == LimitsSpec => []LimitsTypeOK
<1> USE LimitsAssumption
<1>1. LimitsInit => LimitsTypeOK
  BY LimitsInitTypes
<1>2. LimitsTypeOK /\ [LimitsNext]_limitVars => LimitsTypeOK'
  <2> SUFFICES ASSUME LimitsTypeOK, [LimitsNext]_limitVars PROVE LimitsTypeOK'
    OBVIOUS
  <2>1. ASSUME NEW t \in Reservers, NEW d \in SignedQtys, NEW price \in Prices,
               Begin(t, d, price)
        PROVE  LimitsTypeOK'
    BY <2>1 DEF LimitsTypeOK, Begin
  <2>2. ASSUME NEW t \in Reservers, Check(t) PROVE LimitsTypeOK'
    BY <2>2 DEF LimitsTypeOK, Check
  <2>3. ASSUME NEW t \in Reservers, CasSuccess(t) PROVE LimitsTypeOK'
    <3>1. <<made + 1, delta[t]>> \in (1 .. MaxOrders) \X SignedQtys
      BY <2>3 DEF LimitsTypeOK, CasSuccess
    <3>2. live' \in Reserved
      BY <2>3, <3>1 DEF LimitsTypeOK, CasSuccess, Reserved
    <3>3. net' \in Int /\ made' \in 0 .. MaxOrders
      BY <2>3 DEF LimitsTypeOK, CasSuccess, SignedQtys
    <3> QED
      BY <2>3, <3>2, <3>3 DEF LimitsTypeOK, CasSuccess
  <2>4. ASSUME NEW t \in Reservers, CasFail(t) PROVE LimitsTypeOK'
    BY <2>4 DEF LimitsTypeOK, CasFail
  <2>5. ASSUME NEW o \in live, OnCancel(o) PROVE LimitsTypeOK'
    <3>1. o[2] \in Int
      BY DEF LimitsTypeOK, Reserved, SignedQtys
    <3>2. net' \in Int
      BY <2>5, <3>1 DEF LimitsTypeOK, OnCancel
    <3> QED
      BY <2>5, <3>2 DEF LimitsTypeOK, OnCancel, Reserved
  <2>6. CASE UNCHANGED limitVars
    BY <2>6 DEF LimitsTypeOK, limitVars
  <2> QED
    BY <2>1, <2>2, <2>3, <2>4, <2>5, <2>6 DEF LimitsNext
<1> QED
  BY <1>1, <1>2, PTL DEF LimitsSpec

\* The inductive step of the limit, given that the types are kept.
LEMMA LimitInvStep ==
    ASSUME LimitInv, [LimitsNext]_limitVars, LimitsTypeOK'
    PROVE  LimitInv'
<1> USE LimitsAssumption DEF LimitInv, WithinLimits
<1>1. ASSUME NEW t \in Reservers, NEW d \in SignedQtys, NEW price \in Prices,
             Begin(t, d, price)
      PROVE  LimitInv'
  <2>1. (cancelled \/ Within(net))'
    BY <1>1 DEF Begin, Within
  <2>2. ASSUME NEW u \in Reservers, plPc'[u] = "cas"
        PROVE  Within(old[u] + delta[u])'
    <3>1. u # t
      BY <1>1, <2>2 DEF Begin, LimitsTypeOK
    <3>2. plPc[u] = "cas" /\ old'[u] = old[u] /\ delta'[u] = delta[u]
      BY <1>1, <2>2, <3>1 DEF Begin, LimitsTypeOK
    <3> QED
      BY <3>2 DEF Within
  <2> QED
    BY <2>1, <2>2
<1>2. ASSUME NEW t \in Reservers, Check(t) PROVE LimitInv'
  <2>1. (cancelled \/ Within(net))'
    BY <1>2 DEF Check, Within
  <2>2. ASSUME NEW u \in Reservers, plPc'[u] = "cas"
        PROVE  Within(old[u] + delta[u])'
    <3>1. CASE u = t
      BY <1>2, <2>2, <3>1 DEF Check, LimitsTypeOK, Within
    <3>2. CASE u # t
      BY <1>2, <2>2, <3>2 DEF Check, LimitsTypeOK, Within
    <3> QED
      BY <3>1, <3>2
  <2> QED
    BY <2>1, <2>2
<1>3. ASSUME NEW t \in Reservers, CasSuccess(t) PROVE LimitInv'
  <2>1. (cancelled \/ Within(net))'
    BY <1>3 DEF CasSuccess, Within
  <2>2. ASSUME NEW u \in Reservers, plPc'[u] = "cas"
        PROVE  Within(old[u] + delta[u])'
    BY <1>3, <2>2 DEF CasSuccess, LimitsTypeOK, Within
  <2> QED
    BY <2>1, <2>2
<1>4. ASSUME NEW t \in Reservers, CasFail(t) PROVE LimitInv'
  <2>1. (cancelled \/ Within(net))'
    BY <1>4 DEF CasFail, Within
  <2>2. ASSUME NEW u \in Reservers, plPc'[u] = "cas"
        PROVE  Within(old[u] + delta[u])'
    <3>1. u # t
      BY <1>4, <2>2 DEF CasFail, LimitsTypeOK
    <3>2. plPc[u] = "cas" /\ old'[u] = old[u] /\ delta'[u] = delta[u]
      BY <1>4, <2>2, <3>1 DEF CasFail, LimitsTypeOK
    <3> QED
      BY <3>2 DEF Within
  <2> QED
    BY <2>1, <2>2
<1>5. ASSUME NEW o \in live, OnCancel(o) PROVE LimitInv'
  <2>1. cancelled'
    BY <1>5 DEF OnCancel
  <2>2. ASSUME NEW u \in Reservers, plPc'[u] = "cas"
        PROVE  Within(old[u] + delta[u])'
    BY <1>5, <2>2 DEF OnCancel, Within
  <2> QED
    BY <2>1, <2>2
<1>6. CASE UNCHANGED limitVars
  BY <1>6 DEF limitVars, Within
<1> QED
  BY <1>1, <1>2, <1>3, <1>4, <1>5, <1>6 DEF LimitsNext

\* Until a reservation is given back, the reserved net position never leaves
\* +-max_net_qty_, however many threads race through the compare-exchange loop.
THEOREM LimitsHold == LimitsSpec => []WithinLimits
<1>1. LimitsInit => LimitInv
  BY LimitsInitTypes DEF LimitsInit, LimitInv, WithinLimits
<1>2. LimitInv => WithinLimits
  BY DEF LimitInv
<1>3. LimitInv /\ LimitsTypeOK' /\ [LimitsNext]_limitVars => LimitInv'
  BY LimitInvStep
<1> QED
  BY <1>1, <1>2, <1>3, LimitsTypeCorrect, PTL DEF LimitsSpec

\* The slot and the live reservations agree, and reservations are numbered, so
\* that two of the same quantity are counted twice.
SlotInv ==
    /\ LimitsTypeOK
    /\ NetIsSumOfReservations
    /\ \A o \in live : o[1] <= made

\* The signed quantity of a reservation.
Qty == [o \in (1 .. MaxOrders) \X SignedQtys |-> o[2]]

\* There are finitely many reservations, of integer quantities.
LEMMA LiveIsFinite ==
    ASSUME NEW L \in Reserved
    PROVE  IsFiniteSet(L) /\ \A o \in L : Qty[o] = o[2] /\ Qty[o] \in Int
<1>1. IsFiniteSet(1 .. MaxOrders) /\ IsFiniteSet(SignedQtys)
  <2>1. -MaxQty \in Int /\ MaxQty \in Int /\ MaxOrders \in Int /\ 1 \in Int
    BY LimitsAssumption
  <2> QED BY <2>1, FS_Interval DEF SignedQtys
<1>2. IsFiniteSet((1 .. MaxOrders) \X SignedQtys)
  BY <1>1, FS_Product
<1>3. IsFiniteSet(L)
  BY <1>2, FS_Subset DEF Reserved
<1>4. SignedQtys \subseteq Int
  BY LimitsAssumption DEF SignedQtys
<1> QED BY <1>3, <1>4 DEF Reserved, Qty

\* SumLive is the sum of those quantities.
LEMMA SumLiveIsSum ==
    ASSUME NEW L \in Reserved
    PROVE  MapThenSumSet(LAMBDA o : o[2], L) = SumOver(Qty, L)
<1>. DEFINE BodyQ(it) == [s \in SUBSET L |->
                            IF s = {} THEN 0
                            ELSE Qty[CHOOSE x \in s : TRUE] + it[s \ {CHOOSE x \in s : TRUE}]]
            BodyL(it) == [s \in SUBSET L |->
                            IF s = {} THEN 0
                            ELSE (CHOOSE x \in s : TRUE)[2] + it[s \ {CHOOSE x \in s : TRUE}]]
            iter == CHOOSE it : it = BodyL(it)
<1>1. MapThenSumSet(LAMBDA o : o[2], L) = iter[L]
  BY DEF MapThenSumSet, MapThenFoldSet
<1>2. ASSUME NEW it PROVE BodyQ(it) = BodyL(it)
  <2>1. ASSUME NEW s \in SUBSET L, s # {}
        PROVE  Qty[CHOOSE x \in s : TRUE] = (CHOOSE x \in s : TRUE)[2]
    BY <2>1, LiveIsFinite
  <2> QED BY <2>1
<1>3. PICK h : IsSum(Qty, L, h)
  BY LiveIsFinite, SumExists
<1>4. h = BodyL(h)
  <2>1. h = BodyQ(h)
    BY <1>3 DEF IsSum, SumStep, AnyOf
  <2>. HIDE DEF BodyQ, BodyL
  <2> QED BY <2>1, <1>2
<1>5. iter = BodyL(iter)
  <2>. HIDE DEF BodyL
  <2> QED BY <1>4
<1>6. IsSum(Qty, L, iter)
  <2>. HIDE DEF iter
  <2>1. iter = BodyQ(iter)
    <3>. HIDE DEF BodyQ, BodyL
    <3> QED BY <1>2, <1>5
  <2> QED BY <2>1 DEF IsSum, SumStep, AnyOf
<1>7. PICK k : IsSum(Qty, L, k) /\ SumOver(Qty, L) = k[L]
  BY LiveIsFinite, SumIsSum
<1>. HIDE DEF iter
<1>8. iter[L] = k[L]
  BY <1>6, <1>7, LiveIsFinite, SumUnique
<1> QED BY <1>1, <1>7, <1>8

\* Each step changes the slot by what it adds to or takes from the live
\* reservations: a successful compare-exchange adds to the very value it read.
LEMMA SlotInvStep ==
    ASSUME SlotInv, [LimitsNext]_limitVars, LimitsTypeOK'
    PROVE  SlotInv'
<1>. USE DEF SlotInv
<1>0. /\ live \in Reserved /\ live' \in Reserved /\ made \in Nat /\ net \in Int
      /\ net = SumOver(Qty, live)
  BY SumLiveIsSum, LimitsAssumption DEF LimitsTypeOK, NetIsSumOfReservations, SumLive
<1>6. MapThenSumSet(LAMBDA o : o[2], live') = SumOver(Qty, live')
  BY <1>0, SumLiveIsSum
<1>7. SumLive' = SumOver(Qty, live')
  BY <1>6 DEF SumLive, MapThenSumSet, MapThenFoldSet
<1>1. SUFFICES /\ net' = SumOver(Qty, live')
               /\ \A o \in live' : o[1] <= made'
  BY <1>7 DEF NetIsSumOfReservations
<1>2. CASE UNCHANGED <<net, live, made>>
  BY <1>0, <1>2
<1>3. ASSUME NEW t \in Reservers, CasSuccess(t)
      PROVE  net' = SumOver(Qty, live') /\ \A o \in live' : o[1] <= made'
  <2>. DEFINE o == <<made + 1, delta[t]>>
  <2>1. /\ live' = live \cup {o} /\ made' = made + 1 /\ net' = net + delta[t]
        /\ o[1] = made + 1 /\ o[2] = delta[t]
    BY <1>3 DEF CasSuccess
  <2>. HIDE DEF o
  <2>2. o \notin live
    BY <1>0, <2>1
  <2>3. Qty[o] = delta[t] /\ Qty[o] \in Int
    BY <1>0, <2>1, LiveIsFinite
  <2>4. SumOver(Qty, live \cup {o}) = SumOver(Qty, live) + Qty[o]
    BY <1>0, <2>2, <2>3, LiveIsFinite, SumAdd
  <2>5. \A x \in live' : x[1] <= made'
    <3>1. \A x \in live : x[1] \in Int
      BY <1>0, LimitsAssumption DEF Reserved
    <3> QED BY <3>1, <1>0, <2>1
  <2>6. net' = SumOver(Qty, live')
    BY <1>0, <2>1, <2>3, <2>4
  <2> QED BY <2>5, <2>6
<1>4. ASSUME NEW o \in live, OnCancel(o)
      PROVE  net' = SumOver(Qty, live') /\ \A x \in live' : x[1] <= made'
  <2>1. live' = live \ {o} /\ made' = made /\ net' = net - o[2]
    BY <1>4 DEF OnCancel
  <2>2. Qty[o] = o[2] /\ Qty[o] \in Int /\ SumOver(Qty, live') \in Int
    BY <1>0, LiveIsFinite, SumInt
  <2>3. SumOver(Qty, live) = Qty[o] + SumOver(Qty, live \ {o})
    BY <1>0, LiveIsFinite, SumRemove
  <2> QED BY <1>0, <2>1, <2>2, <2>3
<1>5. ASSUME ~UNCHANGED <<net, live, made>>
      PROVE  (\E t \in Reservers : CasSuccess(t)) \/ (\E o \in live : OnCancel(o))
  BY <1>5 DEF LimitsNext, limitVars, Begin, Check, CasFail
<1> QED BY <1>2, <1>3, <1>4, <1>5

\* slots_[id].v is at every moment the sum of the reservations made and not
\* cancelled, for any number of threads in check_and_reserve and on_cancel.
THEOREM SlotIsSum == LimitsSpec => []NetIsSumOfReservations
<1>1. LimitsInit => SlotInv
  <2>. SUFFICES ASSUME LimitsInit PROVE SlotInv
    OBVIOUS
  <2>1. {} \in Reserved /\ live = {} /\ net = 0
    BY DEF LimitsInit, Reserved
  <2>2. SumLive = 0
    BY <2>1, SumLiveIsSum, SumEmpty DEF SumLive
  <2> QED BY <2>1, <2>2, LimitsInitTypes DEF SlotInv, NetIsSumOfReservations
<1>2. SlotInv => NetIsSumOfReservations
  BY DEF SlotInv
<1>3. SlotInv /\ LimitsTypeOK' /\ [LimitsNext]_limitVars => SlotInv'
  BY SlotInvStep
<1> QED
  BY <1>1, <1>2, <1>3, LimitsTypeCorrect, PTL DEF LimitsSpec
-----------------------------------------------------------------------------
(* The rate limiter, for any burst, rate, time unit and word size: what it  *)
(* stores, has granted and is about to add is paid for by the time up to    *)
(* the last stamp and by the increments whose stamp failed.                 *)

\* What a time span is worth grows with the span.
LEMMA AccruedMonotone ==
    ASSUME NEW a \in Int, NEW b \in Int, a <= b
    PROVE  Accrued(a) \in Int /\ Accrued(a) <= Accrued(b)
<1>. DEFINE r == RateScaled
            n == NsPerSec
<1>. r \in Nat /\ n \in Nat \ {0}
  BY RateAssumption
<1>. HIDE DEF r, n
<1>1. a * r \in Int /\ b * r \in Int /\ a * r <= b * r
  <2>. DEFINE d == b - a
  <2>1. d \in Nat /\ b = a + d
    OBVIOUS
  <2>. HIDE DEF d
  <2>2. b * r = a * r + d * r /\ d * r >= 0
    BY <2>1
  <2> QED BY <2>2
<1>. DEFINE x == a * r
            y == b * r
<1>2. x \in Int /\ y \in Int /\ x <= y
  BY <1>1
<1>. HIDE DEF x, y
<1>3. x \div n <= y \div n /\ x \div n \in Int
  BY <1>2, DivMonotone, DivBounds
<1> QED BY <1>3 DEF Accrued, x, y, r, n

\* Two spans one after the other are worth at most the whole.
LEMMA AccruedSuperadditive ==
    ASSUME NEW a \in Int, NEW b \in Int
    PROVE  Accrued(a) + Accrued(b) <= Accrued(a + b)
<1>. DEFINE r == RateScaled
            n == NsPerSec
            x == a * r
            y == b * r
<1>. r \in Nat /\ n \in Nat \ {0}
  BY RateAssumption
<1>1. x \in Int /\ y \in Int /\ (a + b) * r = x + y
  OBVIOUS
<1>. HIDE DEF x, y
<1>2. (x \div n) + (y \div n) <= (x + y) \div n
  BY <1>1, DivSuperadditive
<1> QED BY <1>1, <1>2 DEF Accrued, x, y

\* No time, or a negative span, is worth nothing.
LEMMA AccruedZero == Accrued(0) = 0
<1>1. 0 * RateScaled = 0 /\ 0 \div NsPerSec = 0
  BY RateAssumption
<1> QED BY <1>1 DEF Accrued

\* The signed product wraps downwards, and not at all while it fits.
LEMMA WrapBounds ==
    ASSUME NEW x \in Nat
    PROVE  /\ Wrap(x) \in Int /\ Wrap(x) <= x
           /\ x <= IntMax => Wrap(x) = x
<1>. DEFINE M == IntMax + 1
            y == x + IntMax + 1
<1>1. M \in Nat /\ M >= 1 /\ y \in Nat /\ 2 * M \in Nat \ {0}
  BY RateAssumption
<1>. HIDE DEF M
<1>2. y % (2 * M) \in Nat /\ y % (2 * M) <= y
  BY <1>1
<1>3. y < 2 * M => y % (2 * M) = y
  BY <1>1
<1> QED BY <1>1, <1>2, <1>3, RateAssumption DEF Wrap, M

\* A positive increment is at most what the elapsed time is worth, and exactly
\* that while the product fits into the integer.
LEMMA IncrementBound ==
    ASSUME NEW e \in Nat
    PROVE  /\ AddScaled(e) \in Int /\ AddScaled(e) <= Accrued(e)
           /\ e * RateScaled <= IntMax => AddScaled(e) = Accrued(e)
<1>. DEFINE x == e * RateScaled
            n == NsPerSec
<1>1. x \in Nat /\ n \in Nat \ {0}
  BY RateAssumption
<1>. HIDE DEF x, n
<1>2. Wrap(x) \in Int /\ Wrap(x) <= x /\ (x <= IntMax => Wrap(x) = x)
  BY <1>1, WrapBounds
<1>3. x \div n \in Int /\ x \div n >= 0
  <2>1. 0 \div n <= x \div n /\ 0 \div n = 0
    BY <1>1, DivMonotone
  <2> QED BY <1>1, <2>1
<1>4. CASE Wrap(x) >= 0
  <2>1. Wrap(x) \div n <= x \div n /\ Wrap(x) \div n \in Int
    BY <1>1, <1>2, DivMonotone
  <2>2. Quotient(Wrap(x), n) = Wrap(x) \div n
    BY <1>4 DEF Quotient
  <2> QED BY <1>2, <2>1, <2>2 DEF AddScaled, Accrued, x, n
<1>5. CASE Wrap(x) < 0
  <2>. DEFINE w == -Wrap(x)
  <2>1. w \in Nat /\ 0 <= w
    BY <1>2, <1>5
  <2>. HIDE DEF w
  <2>2. w \div n \in Int /\ 0 \div n <= w \div n /\ 0 \div n = 0
    BY <1>1, <2>1, DivMonotone
  <2>3. Quotient(Wrap(x), n) = -(w \div n)
    BY <1>2, <1>5 DEF Quotient, w
  <2>4. ~(x <= IntMax)
    BY <1>1, <1>2, <1>5
  <2>5. Quotient(Wrap(x), n) <= x \div n /\ Quotient(Wrap(x), n) \in Int
    BY <1>3, <2>2, <2>3
  <2> QED BY <2>4, <2>5 DEF AddScaled, Accrued, x, n
<1> QED BY <1>2, <1>4, <1>5

(***************************************************************************)
(* The bucket and what was handed out are covered by the burst, the time   *)
(* up to the last stamp and the surplus; an increment on its way from its  *)
(* stamp to tokens_ is already owed.  And a caller past its refill leaves  *)
(* no whole increment behind, unless one of the two windows was hit.       *)
(***************************************************************************)
Owed == [t \in Callers |-> IF rlPc[t] = "refill" THEN add[t] ELSE 0]

RateTypes ==
    /\ clock \in Nat /\ tokens \in Nat /\ granted \in Nat /\ surplus \in Nat
    /\ last \in 0 .. clock
    /\ rlPc \in [Callers -> {"idle", "load", "stamp", "refill", "take"}]
    /\ now \in [Callers -> Nat] /\ \A t \in Callers : now[t] <= clock
    /\ seenLast \in [Callers -> Nat] /\ add \in [Callers -> Nat]

TokensAreCovered ==
    tokens + granted * Scale + SumOver(Owed, Callers)
        <= BurstScaled + Accrued(last) + surplus

StampIsDue ==
    \A t \in Callers : rlPc[t] = "stamp" =>
        /\ seenLast[t] < now[t] /\ add[t] > 0
        /\ add[t] <= Accrued(now[t] - seenLast[t])

NothingIsLeft ==
    \/ overflowed \/ surplus > 0
    \/ /\ ~wronged
       /\ \A t \in Callers : rlPc[t] \in {"refill", "take"} => Accrued(now[t] - last) <= 0

RateInv == RateTypes /\ TokensAreCovered /\ StampIsDue /\ NothingIsLeft

\* The constants of the limiter, and its burst.
LEMMA RateConstants ==
    /\ Scale \in Nat /\ Scale > 0 /\ BurstScaled \in Nat /\ IsFiniteSet(Callers)
<1>1. Burst \in Nat /\ Scale \in Nat /\ Scale > 0 /\ IsFiniteSet(Callers)
  BY RateAssumption
<1>2. Burst * Scale \in Nat
  BY <1>1
<1> QED BY <1>1, <1>2 DEF BurstScaled

\* What is owed is a natural number.
LEMMA OwedType ==
    ASSUME RateTypes
    PROVE  SumOver(Owed, Callers) \in Nat /\ \A t \in Callers : Owed[t] \in Nat
<1>1. \A t \in Callers : Owed[t] \in Nat
  BY DEF RateTypes, Owed
<1> QED BY <1>1, RateConstants, SumNat

\* A step that moves one caller changes what is owed by that caller's part.
LEMMA OwedStep ==
    ASSUME RateTypes, RateTypes', NEW t \in Callers,
           \A u \in Callers : u # t => rlPc'[u] = rlPc[u] /\ add'[u] = add[u]
    PROVE  SumOver(Owed', Callers) = SumOver(Owed, Callers) - Owed[t] + Owed'[t]
<1>1. \A u \in Callers : Owed[u] \in Int /\ Owed'[u] \in Int
  BY DEF RateTypes, Owed
<1>2. \A u \in Callers : u # t => Owed'[u] = Owed[u]
  BY DEF Owed
<1>. DEFINE g == Owed
            k == Owed'
<1>3. (\A u \in Callers : g[u] \in Int /\ k[u] \in Int) /\ (\A u \in Callers : u # t => k[u] = g[u])
  BY <1>1, <1>2
<1>. HIDE DEF g, k
<1>4. SumOver(k, Callers) = SumOver(g, Callers) - g[t] + k[t]
  BY <1>3, RateConstants, SumUpdate
<1> QED BY <1>4 DEF g, k

\* A new limiter: the bucket is full and nobody is in it.
LEMMA RateInitInv == RateInit => RateInv
<1>. SUFFICES ASSUME RateInit PROVE RateInv
  OBVIOUS
<1>1. RateTypes
  BY RateConstants DEF RateInit, RateTypes
<1>2. SumOver(Owed, Callers) = 0
  <2>1. \A t \in Callers : Owed[t] = 0
    BY DEF RateInit, Owed
  <2> QED BY <2>1, SumZero, RateConstants
<1>3. TokensAreCovered
  <2>1. 0 * Scale = 0
    BY RateConstants
  <2> QED BY <2>1, <1>2, AccruedZero, RateConstants DEF RateInit, TokensAreCovered
<1>4. StampIsDue /\ NothingIsLeft
  BY DEF RateInit, StampIsDue, NothingIsLeft
<1> QED BY <1>1, <1>3, <1>4 DEF RateInv

\* A step that leaves the bucket, the stamp and the counts alone, and moves one
\* caller neither into nor out of the loop that adds, keeps what is covered.
LEMMA CoverKept ==
    ASSUME RateInv, RateTypes', NEW t \in Callers,
           \A u \in Callers : u # t => rlPc'[u] = rlPc[u] /\ add'[u] = add[u],
           rlPc[t] # "refill", rlPc'[t] # "refill",
           UNCHANGED <<tokens, last, granted, surplus>>
    PROVE  TokensAreCovered'
<1>1. SumOver(Owed', Callers) = SumOver(Owed, Callers) - Owed[t] + Owed'[t]
  BY OwedStep DEF RateInv
<1>2. Owed[t] = 0 /\ Owed'[t] = 0
  BY DEF Owed
<1>3. SumOver(Owed', Callers) = SumOver(Owed, Callers)
  BY <1>1, <1>2, OwedType DEF RateInv
<1> QED BY <1>3 DEF RateInv, TokensAreCovered, Accrued

\* The clock moves on.
LEMMA TickInv ==
    ASSUME RateInv, Tick
    PROVE  RateInv'
<1>. USE DEF Tick
<1>1. RateTypes'
  BY DEF RateInv, RateTypes
<1>2. Owed' = Owed
  BY DEF Owed
<1>3. TokensAreCovered'
  BY <1>2 DEF RateInv, TokensAreCovered, Accrued
<1>4. StampIsDue' /\ NothingIsLeft'
  BY DEF RateInv, StampIsDue, NothingIsLeft, Accrued
<1> QED BY <1>1, <1>3, <1>4 DEF RateInv

\* try_acquire reads the clock.
LEMMA ReadClockInv ==
    ASSUME RateInv, NEW t \in Callers, ReadClock(t)
    PROVE  RateInv'
<1>. USE DEF ReadClock
<1>1. RateTypes'
  BY DEF RateInv, RateTypes
<1>2. rlPc[t] = "idle" /\ rlPc'[t] = "load"
      /\ \A u \in Callers : u # t => rlPc'[u] = rlPc[u] /\ now'[u] = now[u]
  BY DEF RateInv, RateTypes
<1>3. TokensAreCovered'
  BY <1>1, <1>2, CoverKept
<1>4. StampIsDue' /\ NothingIsLeft'
  BY <1>2 DEF RateInv, StampIsDue, NothingIsLeft, Accrued
<1> QED BY <1>1, <1>3, <1>4 DEF RateInv

\* refill's load and its early return: what is not added is worth nothing.
LEMMA LoadLastInv ==
    ASSUME RateInv, NEW t \in Callers, LoadLast(t)
    PROVE  RateInv'
<1>. DEFINE e == now[t] - last
            inc == AddScaled(e)
            skip == e <= 0 \/ inc <= 0
<1>0. /\ e \in Int /\ last \in Nat /\ now[t] \in Nat
      /\ rlPc[t] = "load"
  BY DEF RateInv, RateTypes, LoadLast
<1>1. ~skip => inc \in Nat /\ inc > 0 /\ inc <= Accrued(e) /\ last < now[t]
  BY <1>0, IncrementBound
<1>2. /\ seenLast' = [seenLast EXCEPT ![t] = last]
      /\ rlPc' = [rlPc EXCEPT ![t] = IF skip THEN "take" ELSE "stamp"]
      /\ add' = [add EXCEPT ![t] = IF skip THEN 0 ELSE inc]
      /\ UNCHANGED <<clock, tokens, last, now, granted, surplus>>
  BY DEF LoadLast
<1>3. skip => overflowed' \/ Accrued(e) <= 0
  <2>1. CASE e <= 0
    BY <1>0, <2>1, AccruedMonotone, AccruedZero
  <2>2. CASE e > 0 /\ e * RateScaled <= IntMax
    BY <1>0, <2>2, IncrementBound, AccruedZero
  <2>3. CASE e * RateScaled > IntMax
    BY <2>3 DEF LoadLast
  <2>4. e * RateScaled \in Int /\ IntMax \in Int
    BY <1>0, RateAssumption
  <2> QED BY <1>0, <2>1, <2>2, <2>3, <2>4
<1>4. (overflowed => overflowed') /\ (wronged' <=> wronged)
  BY DEF LoadLast
<1>. HIDE DEF skip, inc
<1>5. RateTypes'
  BY <1>0, <1>1, <1>2 DEF RateInv, RateTypes
<1>6. /\ rlPc'[t] = IF skip THEN "take" ELSE "stamp"
      /\ add'[t] = IF skip THEN 0 ELSE inc
      /\ seenLast'[t] = last
      /\ \A u \in Callers : u # t => /\ rlPc'[u] = rlPc[u] /\ add'[u] = add[u]
                                     /\ seenLast'[u] = seenLast[u]
  BY <1>2 DEF RateInv, RateTypes
<1>7. TokensAreCovered'
  BY <1>0, <1>2, <1>5, <1>6, CoverKept
<1>8. StampIsDue'
  <2>. SUFFICES ASSUME NEW u \in Callers, rlPc'[u] = "stamp"
                PROVE  /\ seenLast'[u] < now[u] /\ add'[u] > 0
                       /\ add'[u] <= Accrued(now[u] - seenLast'[u])
    BY <1>2 DEF StampIsDue, Accrued
  <2>1. CASE u = t
    BY <2>1, <1>1, <1>6
  <2>2. CASE u # t
    BY <2>2, <1>6 DEF RateInv, StampIsDue
  <2> QED BY <2>1, <2>2
<1>9. NothingIsLeft'
  <2>. SUFFICES ASSUME ~overflowed', ~(surplus > 0)
                PROVE  ~wronged' /\ \A u \in Callers :
                          rlPc'[u] \in {"refill", "take"} => Accrued(now[u] - last) <= 0
    BY <1>2 DEF NothingIsLeft, Accrued
  <2>1. ~wronged /\ \A u \in Callers :
            rlPc[u] \in {"refill", "take"} => Accrued(now[u] - last) <= 0
    BY <1>4 DEF RateInv, NothingIsLeft
  <2>2. ASSUME NEW u \in Callers, rlPc'[u] \in {"refill", "take"}
        PROVE  Accrued(now[u] - last) <= 0
    <3>1. CASE u = t
      BY <3>1, <2>2, <1>3, <1>6
    <3>2. CASE u # t
      BY <3>2, <2>1, <2>2, <1>6
    <3> QED BY <3>1, <3>2
  <2> QED BY <2>1, <2>2, <1>4
<1> QED BY <1>5, <1>7, <1>8, <1>9 DEF RateInv

\* refill's stamp: it pays for the increment with the time between the two
\* stamps, or the increment is surplus.
LEMMA StampInv ==
    ASSUME RateInv, NEW t \in Callers, Stamp(t)
    PROVE  RateInv'
<1>. USE DEF Stamp
<1>0. /\ last \in Nat /\ now[t] \in Nat /\ now[t] <= clock /\ clock \in Nat /\ add[t] \in Nat
      /\ seenLast[t] \in Nat /\ surplus \in Nat
      /\ seenLast[t] < now[t] /\ add[t] > 0 /\ add[t] <= Accrued(now[t] - seenLast[t])
  BY DEF RateInv, RateTypes, StampIsDue
<1>1. RateTypes'
  <2>1. surplus' \in Nat /\ last' \in 0 .. clock
    BY <1>0 DEF RateInv, RateTypes
  <2> QED BY <2>1 DEF RateInv, RateTypes
<1>2. /\ rlPc[t] = "stamp" /\ rlPc'[t] = "refill"
      /\ \A u \in Callers : u # t => rlPc'[u] = rlPc[u]
  BY DEF RateInv, RateTypes
<1>3. SumOver(Owed', Callers) = SumOver(Owed, Callers) + add[t]
  <2>1. SumOver(Owed', Callers) = SumOver(Owed, Callers) - Owed[t] + Owed'[t]
    BY <1>1, <1>2, OwedStep DEF RateInv
  <2>2. Owed[t] = 0 /\ Owed'[t] = add[t]
    BY <1>2 DEF Owed
  <2> QED BY <2>1, <2>2, <1>0, OwedType DEF RateInv
<1>4. /\ last' >= last /\ last' \in Nat /\ Accrued(last) \in Int /\ Accrued(last') \in Int
      /\ Accrued(last) + surplus + add[t] <= Accrued(last') + surplus'
  <2>1. CASE last = seenLast[t]
    <3>1. last' = now[t] /\ surplus' = surplus
      BY <2>1
    <3>2. last + (now[t] - last) = now[t]
      BY <1>0
    <3>3. Accrued(last) + Accrued(now[t] - last) <= Accrued(now[t])
      <4>1. last \in Int /\ now[t] - last \in Int
        BY <1>0
      <4>2. Accrued(last) + Accrued(now[t] - last) <= Accrued(last + (now[t] - last))
        BY <4>1, AccruedSuperadditive, Zenon
      <4> QED BY <3>2, <4>2, Zenon
    <3>4. Accrued(last) \in Int /\ Accrued(now[t] - last) \in Int /\ Accrued(now[t]) \in Int
      BY <1>0, AccruedMonotone
    <3> QED BY <1>0, <2>1, <3>1, <3>3, <3>4
  <2>2. CASE last # seenLast[t]
    BY <2>2, <1>0, AccruedMonotone
  <2> QED BY <2>1, <2>2
<1>5. TokensAreCovered'
  <2>1. /\ tokens \in Nat /\ granted * Scale \in Int /\ BurstScaled \in Nat
        /\ SumOver(Owed, Callers) \in Nat
    BY RateConstants, OwedType DEF RateInv, RateTypes
  <2>2. tokens + granted * Scale + SumOver(Owed, Callers)
            <= BurstScaled + Accrued(last) + surplus
    BY DEF RateInv, TokensAreCovered
  <2>3. tokens + granted * Scale + SumOver(Owed', Callers)
            <= BurstScaled + Accrued(last') + surplus'
    <3>. DEFINE gs == granted * Scale
    <3>1. gs \in Int /\ tokens + gs + SumOver(Owed, Callers) <= BurstScaled + Accrued(last) + surplus
      BY <2>1, <2>2
    <3>2. surplus' \in Int
      BY <1>1 DEF RateTypes
    <3>. HIDE DEF gs
    <3>3. tokens + gs + SumOver(Owed', Callers) <= BurstScaled + Accrued(last') + surplus'
      BY <2>1, <3>1, <3>2, <1>0, <1>3, <1>4
    <3> QED BY <3>3 DEF gs
  <2>4. Accrued(last)' = Accrued(last')
    BY DEF Accrued
  <2> QED BY <2>3, <2>4 DEF TokensAreCovered
<1>6. StampIsDue'
  BY <1>2 DEF RateInv, StampIsDue, Accrued
<1>7. NothingIsLeft'
  <2>1. CASE last # seenLast[t]
    BY <2>1, <1>0 DEF NothingIsLeft
  <2>2. CASE last = seenLast[t]
    <3>. SUFFICES ASSUME ~overflowed, ~(surplus > 0)
                  PROVE  ~wronged /\ \A u \in Callers :
                            rlPc'[u] \in {"refill", "take"} => Accrued(now[u] - last') <= 0
      BY <2>2 DEF NothingIsLeft, Accrued
    <3>1. ~wronged /\ \A u \in Callers :
              rlPc[u] \in {"refill", "take"} => Accrued(now[u] - last) <= 0
      BY DEF RateInv, NothingIsLeft
    <3>2. ASSUME NEW u \in Callers, rlPc'[u] \in {"refill", "take"}
          PROVE  Accrued(now[u] - last') <= 0
      <4>1. CASE u = t
        <5>1. now[t] - last' = 0
          BY <2>2, <1>0
        <5> QED BY <4>1, <5>1, AccruedZero
      <4>2. CASE u # t
        <5>1. Accrued(now[u] - last) <= 0
          BY <3>1, <3>2, <4>2, <1>2
        <5>2. now[u] \in Nat /\ now[u] - last' <= now[u] - last
          BY <1>0, <1>4 DEF RateInv, RateTypes
        <5>3. Accrued(now[u] - last') <= Accrued(now[u] - last)
              /\ Accrued(now[u] - last') \in Int /\ Accrued(now[u] - last) \in Int
          BY <1>0, <1>4, <5>2, AccruedMonotone
        <5> QED BY <5>1, <5>3
      <4> QED BY <4>1, <4>2
    <3> QED BY <3>1, <3>2
  <2> QED BY <2>1, <2>2
<1> QED BY <1>1, <1>5, <1>6, <1>7 DEF RateInv

\* The loop that adds: the increment is no longer owed, it is in the bucket as
\* far as the burst has room for it.
LEMMA AddTokensInv ==
    ASSUME RateInv, NEW t \in Callers, AddTokens(t)
    PROVE  RateInv'
<1>. USE DEF AddTokens
<1>0. /\ tokens \in Nat /\ add[t] \in Nat /\ BurstScaled \in Nat /\ surplus \in Nat
      /\ tokens' \in Nat /\ tokens' <= tokens + add[t]
  BY RateConstants DEF RateInv, RateTypes, Refilled, MinOf
<1>1. RateTypes'
  BY <1>0 DEF RateInv, RateTypes
<1>2. /\ rlPc[t] = "refill" /\ rlPc'[t] = "take"
      /\ \A u \in Callers : u # t => rlPc'[u] = rlPc[u]
  BY DEF RateInv, RateTypes
<1>3. SumOver(Owed', Callers) = SumOver(Owed, Callers) - add[t]
  <2>1. SumOver(Owed', Callers) = SumOver(Owed, Callers) - Owed[t] + Owed'[t]
    BY <1>1, <1>2, OwedStep DEF RateInv
  <2>2. Owed[t] = add[t] /\ Owed'[t] = 0
    BY <1>2 DEF Owed
  <2> QED BY <2>1, <2>2, <1>0, OwedType DEF RateInv
<1>4. TokensAreCovered'
  <2>. DEFINE gs == granted * Scale
  <2>1. gs \in Int /\ SumOver(Owed, Callers) \in Nat /\ Accrued(last) \in Int
    BY RateConstants, OwedType, AccruedMonotone DEF RateInv, RateTypes
  <2>2. tokens + gs + SumOver(Owed, Callers) <= BurstScaled + Accrued(last) + surplus
    BY DEF RateInv, TokensAreCovered
  <2>. HIDE DEF gs
  <2>3. tokens' + gs + SumOver(Owed', Callers) <= BurstScaled + Accrued(last) + surplus
    BY <1>0, <1>3, <2>1, <2>2
  <2> QED BY <2>3 DEF TokensAreCovered, Accrued, gs
<1>5. StampIsDue' /\ NothingIsLeft'
  BY <1>2 DEF RateInv, StampIsDue, NothingIsLeft, Accrued
<1> QED BY <1>1, <1>4, <1>5 DEF RateInv

\* A caller that returns leaves the others' promises as they are.
LEMMA ReturnsKeeps ==
    ASSUME RateInv, NEW t \in Callers, rlPc[t] = "take", Returns(t)
    PROVE  /\ rlPc' \in [Callers -> {"idle", "load", "stamp", "refill", "take"}]
           /\ now' \in [Callers -> Nat] /\ seenLast' \in [Callers -> Nat]
           /\ add' \in [Callers -> Nat] /\ rlPc'[t] = "idle"
           /\ \A u \in Callers : now'[u] <= clock
           /\ \A u \in Callers : u # t => /\ rlPc'[u] = rlPc[u] /\ add'[u] = add[u]
                                          /\ now'[u] = now[u] /\ seenLast'[u] = seenLast[u]
<1>1. /\ rlPc \in [Callers -> {"idle", "load", "stamp", "refill", "take"}]
      /\ now \in [Callers -> Nat] /\ seenLast \in [Callers -> Nat]
      /\ add \in [Callers -> Nat] /\ clock \in Nat /\ \A u \in Callers : now[u] <= clock
  BY DEF RateInv, RateTypes
<1> QED BY <1>1 DEF Returns

\* try_acquire takes a token.
LEMMA TakeInv ==
    ASSUME RateInv, NEW t \in Callers, Take(t)
    PROVE  RateInv'
<1>. USE DEF Take
<1>0. /\ tokens \in Nat /\ granted \in Nat /\ Scale \in Nat /\ tokens >= Scale
  BY RateConstants DEF RateInv, RateTypes, Enough
<1>1. /\ rlPc'[t] = "idle"
      /\ \A u \in Callers : u # t => /\ rlPc'[u] = rlPc[u] /\ add'[u] = add[u]
                                     /\ now'[u] = now[u] /\ seenLast'[u] = seenLast[u]
  BY ReturnsKeeps
<1>2. RateTypes'
  BY <1>0, ReturnsKeeps DEF RateInv, RateTypes
<1>3. SumOver(Owed', Callers) = SumOver(Owed, Callers)
  <2>1. SumOver(Owed', Callers) = SumOver(Owed, Callers) - Owed[t] + Owed'[t]
    BY <1>1, <1>2, OwedStep DEF RateInv
  <2>2. Owed[t] = 0 /\ Owed'[t] = 0
    BY <1>1 DEF Owed
  <2> QED BY <2>1, <2>2, OwedType DEF RateInv
<1>4. TokensAreCovered'
  <2>1. (granted + 1) * Scale = granted * Scale + Scale /\ granted * Scale \in Int
    BY <1>0
  <2>2. SumOver(Owed, Callers) \in Nat
    BY OwedType DEF RateInv
  <2>3. tokens' + granted' * Scale = tokens + granted * Scale
    BY <1>0, <2>1
  <2> QED BY <1>3, <2>3 DEF RateInv, TokensAreCovered, Accrued
<1>5. StampIsDue' /\ NothingIsLeft'
  BY <1>1 DEF RateInv, StampIsDue, NothingIsLeft, Accrued
<1> QED BY <1>2, <1>4, <1>5 DEF RateInv

\* try_acquire refuses: the bucket and what the time since the last stamp is
\* worth do not make a token, but for the two windows.
LEMMA RefuseInv ==
    ASSUME RateInv, NEW t \in Callers, Refuse(t)
    PROVE  RateInv'
<1>. USE DEF Refuse
<1>1. /\ rlPc[t] = "take" /\ rlPc'[t] = "idle"
      /\ \A u \in Callers : u # t => /\ rlPc'[u] = rlPc[u] /\ add'[u] = add[u]
                                     /\ now'[u] = now[u] /\ seenLast'[u] = seenLast[u]
  BY ReturnsKeeps
<1>2. RateTypes'
  BY ReturnsKeeps DEF RateInv, RateTypes
<1>3. TokensAreCovered'
  BY <1>1, <1>2, CoverKept
<1>4. StampIsDue'
  BY <1>1 DEF RateInv, StampIsDue, Accrued
<1>5. NothingIsLeft'
  <2>. SUFFICES ASSUME ~overflowed, ~(surplus > 0)
                PROVE  ~wronged' /\ \A u \in Callers :
                          rlPc'[u] \in {"refill", "take"} => Accrued(now'[u] - last) <= 0
    BY DEF NothingIsLeft, Accrued
  <2>1. ~wronged /\ \A u \in Callers :
            rlPc[u] \in {"refill", "take"} => Accrued(now[u] - last) <= 0
    BY DEF RateInv, NothingIsLeft
  <2>2. Accrued(now[t] - last) <= 0 /\ Accrued(now[t] - last) \in Int
    <3>1. now[t] - last \in Int
      BY DEF RateInv, RateTypes
    <3> QED BY <3>1, <2>1, <1>1, AccruedMonotone
  <2>3. ~(tokens + Accrued(now[t] - last) >= Scale)
    BY <2>2, RateConstants DEF RateInv, RateTypes, Enough
  <2>4. ~wronged'
    BY <2>1, <2>3
  <2> QED BY <2>1, <2>4, <1>1
<1> QED BY <1>2, <1>3, <1>4, <1>5 DEF RateInv

\* Every step keeps the invariant.
LEMMA RateNextInv == RateInv /\ [RateNext]_rateVars => RateInv'
<1>. SUFFICES ASSUME RateInv, [RateNext]_rateVars PROVE RateInv'
  OBVIOUS
<1>1. CASE RateNext
  BY <1>1, TickInv, ReadClockInv, LoadLastInv, StampInv, AddTokensInv, TakeInv, RefuseInv
     DEF RateNext
<1>2. CASE UNCHANGED rateVars
  <2>1. Owed' = Owed
    BY <1>2 DEF rateVars, Owed
  <2>2. TokensAreCovered'
    BY <1>2, <2>1 DEF rateVars, RateInv, TokensAreCovered, Accrued
  <2> QED BY <1>2, <2>2 DEF rateVars, RateInv, RateTypes, StampIsDue, NothingIsLeft, Accrued
<1> QED BY <1>1, <1>2

\* try_acquire grants at most the burst and what the time yields, and refuses
\* only when that is less than a token, but for overlapping refills and an
\* overflow of the product, for any number of callers and any rate.
THEOREM RateKept == RateSpec => []RateIsKept
<1>1. RateInv => RateIsKept
  <2>. SUFFICES ASSUME RateInv PROVE RateIsKept
    OBVIOUS
  <2>1. RateIsRespected
    <3>. DEFINE gs == granted * Scale
    <3>1. gs \in Int /\ SumOver(Owed, Callers) \in Nat /\ tokens \in Nat
          /\ BurstScaled \in Nat /\ surplus \in Nat
      BY RateConstants, OwedType DEF RateInv, RateTypes
    <3>2. tokens + gs + SumOver(Owed, Callers) <= BurstScaled + Accrued(last) + surplus
      BY DEF RateInv, TokensAreCovered
    <3>3. Accrued(last) \in Int /\ Accrued(clock) \in Int /\ Accrued(last) <= Accrued(clock)
      BY AccruedMonotone DEF RateInv, RateTypes
    <3>. HIDE DEF gs
    <3>4. gs <= BurstScaled + Accrued(clock) + surplus
      BY <3>1, <3>2, <3>3
    <3> QED BY <3>4 DEF RateIsRespected, gs
  <2>2. RefusedOnlyWhenEmpty
    BY DEF RateInv, NothingIsLeft, RefusedOnlyWhenEmpty
  <2> QED BY <2>1, <2>2 DEF RateIsKept
<1> QED BY <1>1, RateInitInv, RateNextInv, PTL DEF RateSpec
-----------------------------------------------------------------------------
\* What the three checks promise holds of PreTradeRisk as a whole: a step of
\* check() is a step of one of them and leaves the others alone.
THEOREM RiskKept ==
    RiskSpec => [](/\ BreachBlocksOrders /\ RateIsKept
                   /\ WithinLimits /\ NetIsSumOfReservations)
<1>1. RiskInit => Init /\ RateInit /\ LimitsInit
  BY DEF RiskInit
<1>2. [RiskNext]_riskVars => [Next]_vars /\ [RateNext]_rateVars /\ [LimitsNext]_limitVars
  BY DEF RiskNext, riskVars
<1>3. RiskSpec => Spec /\ RateSpec /\ LimitsSpec
  BY <1>1, <1>2, PTL DEF RiskSpec, Spec, RateSpec, LimitsSpec
<1> QED BY <1>3, BreachBlocks, RateKept, LimitsHold, SlotIsSum, PTL
=============================================================================
