------------------------ MODULE SharedObjectsProofs -------------------------
(***************************************************************************)
(* Theorems about the objects that threads share without one lock around   *)
(* them: the two lock-free queues of src/src/infra, for every capacity,    *)
(* any payloads and any set of producers; and of src/src/monitor the ring  *)
(* of latency samples, the histogram and the alert history, for any set of *)
(* threads and any sizes.                                                  *)
(***************************************************************************)
EXTENDS SharedObjects, SumTheorems

-----------------------------------------------------------------------------
(* SPSCQueue, for every counter width too.  The only nonlinear reasoning,  *)
(* that two positions less than N apart never share a slot even across the *)
(* wrap of the counters, is kept in the first lemmas; the rest is linear   *)
(* arithmetic and sequences.                                               *)

\* Two numbers strictly less than n apart, modulo multiples of n, have
\* different remainders: the arithmetic behind buffer_[i & MASK].
LEMMA ModWindow ==
    ASSUME NEW a \in Int, NEW b \in Int, NEW n \in Nat \ {0}, NEW k \in Int,
           a % n = b % n, a < b + k * n, b + k * n < a + n
    PROVE  FALSE
<1>1. a = n * (a \div n) + (a % n) /\ (a \div n) \in Int
  OBVIOUS
<1>2. b = n * (b \div n) + (b % n) /\ (b \div n) \in Int
  OBVIOUS
<1>3. PICK q1 \in Int : a = n * q1 + (a % n)
  BY <1>1
<1>4. PICK q2 \in Int : b = n * q2 + (b % n)
  BY <1>2
<1>. DEFINE d == q2 + k - q1
<1>5. b + k * n - a = n * d
  BY <1>3, <1>4
<1>6. d \in Int
  OBVIOUS
<1>7. CASE d >= 1
  <2>1. n * d >= n
    BY <1>6, <1>7
  <2> QED BY <2>1, <1>5
<1>8. CASE d <= 0
  <2>1. n * d <= 0
    BY <1>6, <1>8
  <2> QED BY <2>1, <1>5
<1> QED BY <1>6, <1>7, <1>8

\* The counters can tell a full queue from an empty one: 2N fits in them.
LEMMA ModBound == N \in Nat /\ N >= 1 /\ Mod \in Nat /\ Mod >= N + N
<1>1. PICK k \in 2 .. Mod : Mod = k * N
  BY ModAssumption
<1>2. k * N >= 2 * N
  BY <1>1, CapacityAssumption
<1> QED BY <1>1, <1>2, CapacityAssumption, ModAssumption

\* Positions fewer than N apart in the ring use different slots, also when
\* the counter wrapped between them.
LEMMA SlotsDistinct ==
    ASSUME NEW a \in Counter, NEW b \in Counter,
           Sub(b, a) >= 1, Sub(b, a) < N
    PROVE  Slot(a) # Slot(b)
<1>. SUFFICES ASSUME a % N = b % N PROVE FALSE
  BY DEF Slot
<1>1. PICK k \in 2 .. Mod : Mod = k * N
  BY ModAssumption
<1>. N \in Nat \ {0} /\ a \in Int /\ b \in Int
  BY CapacityAssumption, ModBound DEF Counter
<1>2. CASE b >= a
  <2>1. a < b + 0 * N /\ b + 0 * N < a + N
    BY <1>2 DEF Sub
  <2>2. 0 \in Int
    OBVIOUS
  <2> QED BY <2>1, <2>2, ModWindow, Zenon
<1>3. CASE b < a
  <2>1. a < b + Mod /\ b + Mod < a + N
    BY <1>3, ModBound DEF Sub
  <2>2. a < b + k * N /\ b + k * N < a + N
    BY <2>1, <1>1
  <2>3. k \in Int
    BY ModBound
  <2> QED BY <2>2, <2>3, ModWindow, Zenon
<1> QED BY <1>2, <1>3

\* The index operations stay inside their types.
LEMMA IndexTypes ==
    ASSUME NEW a \in Counter
    PROVE  Inc(a) \in Counter /\ Slot(a) \in Slots
<1>1. a % N \in 0 .. N - 1
  BY CapacityAssumption, ModBound DEF Counter
<1> QED BY <1>1, ModBound DEF Counter, Inc, Slot, Slots

\* The initial state satisfies the inductive invariant.
LEMMA InitInv == Init => IndInv
BY ModBound DEF Init, IndInv, TypeOK, SizeIsExact, RingHoldsItems,
   Counter, Slots, Sub

\* push's load and full test keep the invariant: the loaded head_ lies between
\* the one seen before and the live one, so passing the test leaves a free slot.
LEMMA PushLoadInv ==
    ASSUME IndInv, NEW v \in Values, NEW h \in Counter, PushLoad(v, h)
    PROVE  IndInv'
<1>. USE DEF PushLoad, consVars
<1>1. TypeOK'
  BY DEF IndInv, TypeOK
<1>2. SizeIsExact' /\ RingHoldsItems'
  BY DEF IndInv, SizeIsExact, RingHoldsItems
<1>3. /\ Sub(head, h) <= Sub(tail, h) /\ Sub(tail, h) <= N
      /\ ~Full(tail, h) => Sub(tail, h) < N
  BY ModBound DEF IndInv, TypeOK, Visible, Full, Sub, Counter
<1> QED BY <1>1, <1>2, <1>3 DEF IndInv, TypeOK

\* push's copy keeps the invariant: the slot of tail_ holds no published value.
LEMMA PushWriteInv ==
    ASSUME IndInv, PushWrite
    PROVE  IndInv'
<1>. USE DEF PushWrite, consVars
<1>0. Slot(tail) \in Slots
  BY IndexTypes DEF IndInv, TypeOK
<1>1. TypeOK'
  BY <1>0 DEF IndInv, TypeOK
<1>2. SizeIsExact'
  BY DEF IndInv, SizeIsExact
<1>3. Len(items) < N
  BY ModBound DEF IndInv, TypeOK, SizeIsExact, Sub, Counter
<1>4. ASSUME NEW i \in 1 .. Len(items)
      PROVE  Slot(Add(head, i - 1)) # Slot(tail)
  <2>. DEFINE p == Add(head, i - 1)
  <2>1. Len(items) \in Nat
    BY DEF IndInv, TypeOK
  <2>2. p \in Counter /\ Sub(tail, p) >= 1 /\ Sub(tail, p) < N
    BY <1>3, <2>1, ModBound DEF IndInv, TypeOK, SizeIsExact, Add, Sub, Counter
  <2> QED BY <2>2, SlotsDistinct DEF IndInv, TypeOK
<1>5. RingHoldsItems'
  BY <1>0, <1>4 DEF IndInv, TypeOK, RingHoldsItems
<1>6. buffer'[Slot(tail)] = pval
  BY <1>0 DEF IndInv, TypeOK
<1> QED BY <1>1, <1>2, <1>5, <1>6 DEF IndInv, TypeOK

\* push's store of tail_ publishes exactly the value copied before it.
LEMMA PushPublishInv ==
    ASSUME IndInv, PushPublish
    PROVE  IndInv'
<1>. USE DEF PushPublish, consVars
<1>0. Len(items) \in Nat /\ Len(items) < N
  BY ModBound DEF IndInv, TypeOK, SizeIsExact, Sub, Counter
<1>1. TypeOK'
  BY IndexTypes DEF IndInv, TypeOK
<1>2. Sub(Inc(tail), head) = Sub(tail, head) + 1
  BY <1>0, ModBound DEF IndInv, TypeOK, SizeIsExact, Sub, Inc, Counter
<1>3. Len(items') = Len(items) + 1
  BY DEF IndInv, TypeOK
<1>4. SizeIsExact'
  BY <1>0, <1>2, <1>3, ModBound DEF IndInv, SizeIsExact
<1>5. Add(head, Len(items)) = tail
  BY <1>0, ModBound DEF IndInv, TypeOK, SizeIsExact, Sub, Add, Counter
<1>6. RingHoldsItems'
  <2>. SUFFICES ASSUME NEW i \in 1 .. Len(items')
                PROVE  buffer[Slot(Add(head, i - 1))] = items'[i]
    BY DEF RingHoldsItems
  <2>1. CASE i \in 1 .. Len(items)
    BY <2>1 DEF IndInv, TypeOK, RingHoldsItems
  <2>2. CASE i = Len(items) + 1
    <3>1. items'[i] = pval
      BY <2>2 DEF IndInv, TypeOK
    <3>2. i - 1 = Len(items)
      BY <2>2, <1>0
    <3> QED BY <3>1, <3>2, <1>5 DEF IndInv
  <2> QED BY <2>1, <2>2, <1>0, <1>3
<1>7. /\ Sub(head, seenHead) <= Sub(Inc(tail), seenHead)
      /\ Sub(Inc(tail), seenHead) <= N
      /\ Sub(seenTail, head) <= Sub(Inc(tail), head)
  BY <1>0, <1>2, ModBound DEF IndInv, TypeOK, SizeIsExact, Sub, Inc, Counter
<1>8. cpc = "publish" => cval = items'[1]
  <2>1. cpc = "publish" => Len(items) >= 1
    BY <1>0, ModBound DEF IndInv, TypeOK, SizeIsExact, Sub, Counter
  <2> QED BY <2>1, <1>0 DEF IndInv, TypeOK
<1> QED BY <1>1, <1>4, <1>6, <1>7, <1>8 DEF IndInv, TypeOK

\* pop's load and empty test keep the invariant: the loaded tail_ is not behind
\* head_, so passing the test means a value has been published.
LEMMA PopLoadInv ==
    ASSUME IndInv, NEW t \in Counter, PopLoad(t)
    PROVE  IndInv'
<1>. USE DEF PopLoad, prodVars
<1>1. TypeOK'
  BY DEF IndInv, TypeOK
<1>2. SizeIsExact' /\ RingHoldsItems'
  BY DEF IndInv, SizeIsExact, RingHoldsItems
<1>3. Sub(t, head) <= Sub(tail, head)
  BY ModBound DEF IndInv, TypeOK, Visible, Sub, Counter
<1>4. ~Empty(t, head) => t # head
  BY DEF Empty
<1> QED BY <1>1, <1>2, <1>3, <1>4 DEF IndInv, TypeOK

\* A consumer past its empty test finds the queue non-empty.
LEMMA ConsumerHasItem ==
    ASSUME IndInv, cpc # "idle"
    PROVE  Len(items) \in Nat /\ Len(items) >= 1
BY ModBound DEF IndInv, TypeOK, SizeIsExact, Sub, Counter

\* pop's copy reads the oldest published value.
LEMMA PopReadInv ==
    ASSUME IndInv, PopRead
    PROVE  IndInv'
<1>. USE DEF PopRead, prodVars
<1>0. Len(items) \in Nat /\ Len(items) >= 1
  BY ConsumerHasItem
<1>1. TypeOK'
  <2>1. Slot(head) \in Slots
    BY IndexTypes DEF IndInv, TypeOK
  <2> QED BY <2>1 DEF IndInv, TypeOK
<1>2. SizeIsExact' /\ RingHoldsItems'
  BY DEF IndInv, SizeIsExact, RingHoldsItems
<1>3. Add(head, 1 - 1) = head
  BY ModBound DEF IndInv, TypeOK, Add, Counter
<1>4. buffer[Slot(head)] = items[1]
  BY <1>0, <1>3 DEF IndInv, RingHoldsItems
<1> QED BY <1>1, <1>2, <1>4 DEF IndInv, TypeOK

\* pop's store of head_ frees exactly the slot that was copied.
LEMMA PopPublishInv ==
    ASSUME IndInv, PopPublish
    PROVE  IndInv'
<1>. USE DEF PopPublish, prodVars
<1>0. Len(items) \in Nat /\ Len(items) >= 1 /\ Len(items) <= N
  BY ConsumerHasItem DEF IndInv, SizeIsExact
<1>1. TypeOK'
  <2>1. Inc(head) \in Counter
    BY IndexTypes DEF IndInv, TypeOK
  <2>2. Tail(items) \in Seq(Values)
    BY <1>0 DEF IndInv, TypeOK
  <2> QED BY <2>1, <2>2 DEF IndInv, TypeOK
<1>2. Len(items') = Len(items) - 1
  BY <1>0 DEF IndInv, TypeOK
<1>3. Sub(tail, Inc(head)) = Sub(tail, head) - 1
  BY <1>0, ModBound DEF IndInv, TypeOK, SizeIsExact, Sub, Inc, Counter
<1>4. SizeIsExact'
  BY <1>0, <1>2, <1>3, ModBound DEF IndInv, SizeIsExact
<1>5. RingHoldsItems'
  <2>. SUFFICES ASSUME NEW i \in 1 .. Len(items')
                PROVE  buffer[Slot(Add(Inc(head), i - 1))] = items'[i]
    BY DEF RingHoldsItems
  <2>1. items'[i] = items[i + 1]
    BY <1>0, <1>2 DEF IndInv, TypeOK
  <2>2. Add(Inc(head), i - 1) = Add(head, (i + 1) - 1)
    BY <1>0, <1>2, ModBound DEF IndInv, TypeOK, Add, Inc, Counter
  <2>3. i + 1 \in 1 .. Len(items)
    BY <1>0, <1>2
  <2> QED BY <2>1, <2>2, <2>3 DEF IndInv, RingHoldsItems
<1>6. /\ Sub(Inc(head), seenHead) <= Sub(tail, seenHead)
      /\ Sub(seenTail, Inc(head)) <= Sub(tail, Inc(head))
  BY <1>0, <1>3, ModBound DEF IndInv, TypeOK, SizeIsExact, Sub, Inc, Counter
<1> QED BY <1>1, <1>4, <1>5, <1>6 DEF IndInv, TypeOK

\* Every step of either thread preserves the inductive invariant.
LEMMA NextInv == IndInv /\ [Next]_vars => IndInv'
<1>. SUFFICES ASSUME IndInv, [Next]_vars PROVE IndInv'
  OBVIOUS
<1>1. CASE Producer
  BY <1>1, PushLoadInv, PushWriteInv, PushPublishInv DEF Producer
<1>2. CASE Consumer
  BY <1>2, PopLoadInv, PopReadInv, PopPublishInv DEF Consumer
<1>3. CASE UNCHANGED vars
  BY <1>3 DEF vars, prodVars, consVars, IndInv, TypeOK, SizeIsExact,
              RingHoldsItems
<1> QED BY <1>1, <1>2, <1>3 DEF Next

\* SPSCQueue keeps its inductive invariant, and with it its type invariant,
\* in every behaviour of one producer and one consumer.
THEOREM Invariance == Spec => []IndInv
<1>1. Init => IndInv
  BY InitInv
<1>2. IndInv /\ [Next]_vars => IndInv'
  BY NextInv
<1> QED BY <1>1, <1>2, PTL DEF Spec

\* push and pop never copy to and from the same slot at the same time.
THEOREM DataRaceFreedom == Spec => []NoSlotRace
<1>1. IndInv => NoSlotRace
  <2>. SUFFICES ASSUME IndInv, ppc = "write", cpc = "read"
                PROVE  Slot(head) # Slot(tail)
    BY DEF NoSlotRace
  <2>1. Len(items) \in Nat /\ Len(items) >= 1
    BY ConsumerHasItem
  <2>2. Sub(tail, head) >= 1 /\ Sub(tail, head) < N
    BY <2>1, ModBound DEF IndInv, TypeOK, SizeIsExact, Sub, Counter
  <2> QED BY <2>2, SlotsDistinct DEF IndInv, TypeOK
<1> QED BY <1>1, Invariance, PTL

\* The value a pop is about to return is the oldest published one.
THEOREM FifoDelivery == Spec => []PopReturnsOldest
<1>1. IndInv => PopReturnsOldest
  <2>. SUFFICES ASSUME IndInv, cpc = "publish"
                PROVE  items # << >> /\ cval = Head(items)
    BY DEF PopReturnsOldest
  <2>1. Len(items) \in Nat /\ Len(items) >= 1
    BY ConsumerHasItem
  <2> QED BY <2>1 DEF IndInv, TypeOK
<1> QED BY <1>1, Invariance, PTL

\* size() is the number of published values and at most the capacity.
THEOREM ExactSize == Spec => []SizeIsExact
<1>1. IndInv => SizeIsExact
  BY DEF IndInv
<1> QED BY <1>1, Invariance, PTL

\* Every step of the queue is a Put, a Take or a stutter of the bounded FIFO.
LEMMA StepSimulation ==
    IndInv /\ [Next]_vars => [Fifo!FifoNext]_<<items, out>>
<1>. SUFFICES ASSUME IndInv, [Next]_vars
              PROVE  [Fifo!FifoNext]_<<items, out>>
  OBVIOUS
<1>1. ASSUME NEW v \in Values, NEW h \in Counter, PushLoad(v, h)
      PROVE  UNCHANGED <<items, out>>
  BY <1>1 DEF PushLoad
<1>2. CASE PushWrite
  BY <1>2 DEF PushWrite
<1>3. CASE PushPublish
  <2>1. Len(items) < N
    BY <1>3, ModBound DEF PushPublish, IndInv, TypeOK, SizeIsExact, Sub, Counter
  <2>2. Fifo!Put(pval)
    BY <2>1, <1>3 DEF PushPublish, Fifo!Put
  <2> QED BY <2>2 DEF Fifo!FifoNext, IndInv, TypeOK
<1>4. ASSUME NEW t \in Counter, PopLoad(t)
      PROVE  UNCHANGED <<items, out>>
  BY <1>4 DEF PopLoad
<1>5. CASE PopRead
  BY <1>5 DEF PopRead
<1>6. CASE PopPublish
  <2>1. Len(items) \in Nat /\ Len(items) >= 1
    BY <1>6, ConsumerHasItem DEF PopPublish
  <2>2. items # << >> /\ cval = Head(items)
    BY <2>1, <1>6 DEF PopPublish, IndInv, TypeOK
  <2>3. Fifo!Take
    BY <2>2, <1>6 DEF PopPublish, Fifo!Take
  <2> QED BY <2>3 DEF Fifo!FifoNext
<1>7. CASE UNCHANGED vars
  BY <1>7 DEF vars
<1> QED BY <1>1, <1>2, <1>3, <1>4, <1>5, <1>6, <1>7 DEF Next, Producer, Consumer

\* SPSCQueue refines the bounded FIFO, for every capacity and counter width.
THEOREM Refinement == Spec => ImplementsFifo
<1>1. Init => Fifo!FifoInit
  BY DEF Init, Fifo!FifoInit
<1>2. IndInv /\ [Next]_vars => [Fifo!FifoNext]_<<items, out>>
  BY StepSimulation
<1>3. Fifo!fifoVars = <<items, out>>
  BY DEF Fifo!fifoVars
<1> QED BY <1>1, <1>2, <1>3, Invariance, PTL
        DEF Spec, ImplementsFifo, Fifo!FifoSpec, Fifo!fifoVars

-----------------------------------------------------------------------------
(* MPSCQueue                                                               *)

MpscTypeOK ==
    /\ claimed \in Nat /\ taken \in Nat
    /\ seq \in [Cells -> Nat] /\ data \in [Cells -> Payloads]
    /\ pushPc \in [Producers -> {"idle", "check", "reload", "claim", "write", "publish"}]
    /\ pushPos \in [Producers -> Nat] /\ pushVal \in [Producers -> Payloads]
    /\ popPc \in {"idle", "read", "release"}
    /\ popVal \in Payloads /\ delivery \in Payloads
    /\ accepted \in Seq(Payloads)

\* The positions that the slots stand for, and the ones among them in use.
Window == taken .. taken + Capacity - 1
InUse == taken .. claimed - 1
Owning(p) == pushPc[p] \in {"write", "publish"}

\* tail_ - head_ counts the values accepted, and never exceeds the capacity.
CountersAgree ==
    /\ claimed <= taken + Capacity
    /\ claimed = taken + Len(accepted)

\* The sequence number of a position's slot: its own, or one more when the
\* position was claimed and published.
SlotsTakeTurns ==
    \A k \in Window : \/ seq[Cell(k)] = k
                      \/ k < claimed /\ seq[Cell(k)] = k + 1

\* A published slot holds the value accepted for its position.
PublishedIsAccepted ==
    \A k \in InUse : seq[Cell(k)] = k + 1 => data[Cell(k)] = accepted[k - taken + 1]

\* What a producer knows at each point of push.
ProducersKnow ==
    \A p \in Producers :
        /\ pushPc[p] = "claim" => seq[Cell(pushPos[p])] >= pushPos[p]
        /\ Owning(p) => /\ pushPos[p] \in InUse
                        /\ seq[Cell(pushPos[p])] = pushPos[p]
                        /\ accepted[pushPos[p] - taken + 1] = pushVal[p]
        /\ pushPc[p] = "publish" => data[Cell(pushPos[p])] = pushVal[p]

\* The compare-exchange gives a position to one producer.
ClaimsAreUnique ==
    \A p, r \in Producers :
        Owning(p) /\ Owning(r) /\ pushPos[p] = pushPos[r] => p = r

\* What the consumer knows at each point of pop.
ConsumerKnows ==
    /\ popPc # "idle" => taken < claimed /\ seq[Cell(taken)] = taken + 1
    /\ popPc = "release" => popVal = accepted[1]

MpscInv ==
    /\ MpscTypeOK /\ CountersAgree /\ SlotsTakeTurns /\ PublishedIsAccepted
    /\ ProducersKnow /\ ClaimsAreUnique /\ ConsumerKnows

-----------------------------------------------------------------------------
(* Positions and slots                                                     *)

\* slots_[pos & MASK] is a slot.
LEMMA CellType ==
    ASSUME NEW a \in Nat
    PROVE  Cell(a) \in Cells
BY MpscAssumption DEF Cell, Cells

\* Division with remainder.
LEMMA DivMod ==
    ASSUME NEW a \in Nat, NEW n \in Nat \ {0}
    PROVE  \E q \in Int : a = n * q + (a % n)
<1>1. a = n * (a \div n) + (a % n) /\ (a \div n) \in Int
  OBVIOUS
<1> QED BY <1>1

\* Two positions less than Capacity apart use different slots.
LEMMA CellsDistinct ==
    ASSUME NEW a \in Nat, NEW b \in Nat, a < b, b < a + Capacity
    PROVE  Cell(a) # Cell(b)
<1>. DEFINE n == Capacity
<1>. n \in Nat \ {0}
  BY MpscAssumption
<1>. SUFFICES ASSUME a % n = b % n PROVE FALSE
  BY DEF Cell
<1>. HIDE DEF n
<1>3. PICK q1 \in Int : a = n * q1 + (a % n)
  BY DivMod
<1>4. PICK q2 \in Int : b = n * q2 + (b % n)
  BY DivMod
<1>. DEFINE d == q2 - q1
<1>5. d \in Int /\ b - a = n * d
  BY <1>3, <1>4
<1>6. b - a < n
  BY DEF n
<1>7. CASE d >= 1
  <2>1. n * d >= n
    BY <1>5, <1>7
  <2> QED BY <2>1, <1>5, <1>6
<1>8. CASE d <= 0
  <2>1. n * d <= 0
    BY <1>5, <1>8
  <2> QED BY <2>1, <1>5
<1> QED BY <1>5, <1>7, <1>8

\* pos and pos + Capacity, the next round, use the same slot.
LEMMA CellNextRound ==
    ASSUME NEW a \in Nat
    PROVE  Cell(a + Capacity) = Cell(a)
<1>. DEFINE n == Capacity
<1>. n \in Nat \ {0}
  BY MpscAssumption
<1>. HIDE DEF n
<1>1. (a + n) % n = a % n
  <2>1. PICK q \in Int : a = n * q + (a % n)
    BY DivMod
  <2>2. a + n = n * (q + 1) + (a % n)
    BY <2>1
  <2>3. PICK r \in Int : a + n = n * r + ((a + n) % n)
    <3>1. a + n \in Nat
      OBVIOUS
    <3> QED BY <3>1, DivMod
  <2>4. a % n \in 0 .. n - 1 /\ (a + n) % n \in 0 .. n - 1
    OBVIOUS
  <2>. DEFINE d == r - (q + 1)
  <2>5. d \in Int /\ (a % n) - ((a + n) % n) = n * d
    BY <2>2, <2>3
  <2>6. CASE d >= 1
    <3>1. n * d >= n
      BY <2>5, <2>6
    <3> QED BY <3>1, <2>4, <2>5
  <2>7. CASE d <= -1
    <3>1. n * d <= -n
      BY <2>5, <2>7
    <3> QED BY <3>1, <2>4, <2>5
  <2>8. CASE d = 0
    BY <2>4, <2>5, <2>8
  <2> QED BY <2>5, <2>6, <2>7, <2>8
<1> QED BY <1>1 DEF Cell, n

\* Two positions of the window with the same slot are the same position.
LEMMA WindowInjective ==
    ASSUME MpscTypeOK, NEW a \in Window, NEW b \in Window, Cell(a) = Cell(b)
    PROVE  a = b
<1>1. a \in Nat /\ b \in Nat /\ a < b + Capacity /\ b < a + Capacity
  BY MpscAssumption DEF MpscTypeOK, Window
<1>2. CASE a < b
  BY <1>1, <1>2, CellsDistinct
<1>3. CASE b < a
  BY <1>1, <1>3, CellsDistinct
<1> QED BY <1>1, <1>2, <1>3

\* A position in use is one of the window.
LEMMA InUseInWindow ==
    ASSUME MpscTypeOK, CountersAgree, NEW k \in InUse
    PROVE  k \in Window /\ k \in Nat /\ Cell(k) \in Cells
<1>1. k \in Window /\ k \in Nat
  BY MpscAssumption DEF MpscTypeOK, CountersAgree, InUse, Window
<1> QED BY <1>1, CellType

\* What is behind the compare-exchange: when the sequence number of the slot
\* of tail_ has reached tail_, it is tail_, and the queue is not full.
LEMMA TailSlotIsFree ==
    ASSUME MpscInv, seq[Cell(claimed)] >= claimed
    PROVE  claimed \in Window /\ seq[Cell(claimed)] = claimed
<1>1. /\ claimed \in Nat /\ taken \in Nat /\ seq \in [Cells -> Nat]
      /\ taken <= claimed /\ claimed <= taken + Capacity
  BY DEF MpscInv, MpscTypeOK, CountersAgree
<1>2. Capacity \in Nat /\ Capacity >= 2
  BY MpscAssumption
<1>3. SlotsTakeTurns
  BY DEF MpscInv
<1>4. claimed # taken + Capacity
  <2>. SUFFICES ASSUME claimed = taken + Capacity PROVE FALSE
    OBVIOUS
  <2>1. Cell(claimed) = Cell(taken)
    BY <1>1, CellNextRound
  <2>2. taken \in Window
    BY <1>1, <1>2 DEF Window
  <2>3. seq[Cell(taken)] = taken \/ seq[Cell(taken)] = taken + 1
    BY <1>3, <2>2 DEF SlotsTakeTurns
  <2> QED BY <1>1, <1>2, <2>1, <2>3
<1>5. claimed \in Window
  BY <1>1, <1>2, <1>4 DEF Window
<1> QED BY <1>1, <1>3, <1>5 DEF SlotsTakeTurns

-----------------------------------------------------------------------------
(* Every step keeps the invariant                                          *)

\* The state in which MPSCQueue is constructed.
LEMMA MpscInitInv == MpscInit => MpscInv
<1>. SUFFICES ASSUME MpscInit PROVE MpscInv
  OBVIOUS
<1>. USE DEF MpscInit
<1>0. T \in Payloads
  BY MpscAssumption DEF T
<1>1. MpscTypeOK
  BY <1>0 DEF MpscTypeOK, Cells
<1>2. CountersAgree
  BY MpscAssumption DEF CountersAgree
<1>3. SlotsTakeTurns
  <2>. SUFFICES ASSUME NEW k \in 0 .. Capacity - 1 PROVE seq[Cell(k)] = k
    BY MpscAssumption DEF SlotsTakeTurns, Window
  <2>1. Cell(k) = k
    BY MpscAssumption DEF Cell
  <2> QED BY <2>1 DEF Cells
<1>4. PublishedIsAccepted
  BY DEF PublishedIsAccepted, InUse
<1>5. ProducersKnow /\ ClaimsAreUnique /\ ConsumerKnows
  BY DEF ProducersKnow, ClaimsAreUnique, ConsumerKnows, Owning
<1> QED BY <1>1, <1>2, <1>3, <1>4, <1>5 DEF MpscInv

\* A step of push that moves a producer that owns no slot, and gives it none,
\* needs only what the producer learns about the slot it will compete for.
LEMMA LocalStepInv ==
    ASSUME MpscInv, MpscTypeOK', NEW p \in Producers, ~Owning(p), ~Owning(p)',
           \A r \in Producers \ {p} : /\ pushPc'[r] = pushPc[r]
                                      /\ pushPos'[r] = pushPos[r]
                                      /\ pushVal'[r] = pushVal[r],
           pushPc'[p] = "claim" => seq[Cell(pushPos'[p])] >= pushPos'[p],
           UNCHANGED <<claimed, seq, data, popVars, accepted>>
    PROVE  MpscInv'
<1>. USE DEF popVars
<1>1. CountersAgree' /\ SlotsTakeTurns' /\ PublishedIsAccepted' /\ ConsumerKnows'
  BY DEF MpscInv, CountersAgree, SlotsTakeTurns, PublishedIsAccepted, ConsumerKnows,
         Window, InUse, Cell
<1>2. ProducersKnow'
  <2>. SUFFICES ASSUME NEW r \in Producers
                PROVE  /\ pushPc'[r] = "claim" => seq[Cell(pushPos'[r])] >= pushPos'[r]
                       /\ Owning(r)' => /\ pushPos'[r] \in InUse
                                        /\ seq[Cell(pushPos'[r])] = pushPos'[r]
                                        /\ accepted[pushPos'[r] - taken + 1] = pushVal'[r]
                       /\ pushPc'[r] = "publish" => data[Cell(pushPos'[r])] = pushVal'[r]
    BY DEF ProducersKnow, InUse, Cell
  <2>1. CASE r = p
    BY <2>1 DEF Owning
  <2>2. CASE r # p
    BY <2>2 DEF MpscInv, ProducersKnow, Owning
  <2> QED BY <2>1, <2>2
<1>3. ClaimsAreUnique'
  BY DEF MpscInv, ClaimsAreUnique, Owning
<1> QED BY <1>1, <1>2, <1>3 DEF MpscInv

\* push's first load of tail_.
LEMMA PushLoadsTailInv ==
    ASSUME MpscInv, NEW p \in Producers, NEW v \in Payloads, NEW pos \in Nat,
           PushLoadsTail(p, v, pos)
    PROVE  MpscInv'
<1>. USE DEF PushLoadsTail
<1>1. MpscTypeOK'
  BY DEF MpscInv, MpscTypeOK, popVars
<1>2. pushPc[p] = "idle" /\ pushPc'[p] = "check"
  BY DEF MpscInv, MpscTypeOK
<1> QED BY <1>1, <1>2, LocalStepInv DEF MpscInv, MpscTypeOK, Owning

\* The test of the slot's sequence number: passing it, a producer knows that
\* the number has reached its position, stale as the load may be.
LEMMA PushChecksInv ==
    ASSUME MpscInv, NEW p \in Producers, NEW s \in Nat, PushChecks(p, s)
    PROVE  MpscInv'
<1>. USE DEF PushChecks
<1>0. T \in Payloads
  BY MpscAssumption DEF T
<1>1. Turn(s, pushPos[p]) \in {"claim", "idle", "reload"}
  BY DEF Turn
<1>2. MpscTypeOK'
  <2>1. pushPos' \in [Producers -> Nat] /\ pushVal' \in [Producers -> Payloads]
    <3>1. pushPos \in [Producers -> Nat] /\ pushVal \in [Producers -> Payloads]
      BY DEF MpscInv, MpscTypeOK
    <3>2. CASE PushReturns(p)
      BY <1>0, <3>1, <3>2 DEF PushReturns
    <3>3. CASE UNCHANGED <<pushPos, pushVal>>
      BY <3>1, <3>3
    <3> QED BY <3>2, <3>3
  <2>2. pushPc' \in [Producers -> {"idle", "check", "reload", "claim", "write", "publish"}]
    BY <1>1 DEF MpscInv, MpscTypeOK
  <2> QED BY <2>1, <2>2 DEF MpscInv, MpscTypeOK, popVars
<1>3. pushPc[p] = "check" /\ pushPc'[p] = Turn(s, pushPos[p])
  BY DEF MpscInv, MpscTypeOK
<1>4. pushPc'[p] = "claim" => pushPos'[p] = pushPos[p] /\ s = pushPos[p]
  BY <1>3 DEF Turn
<1>5. s <= seq[Cell(pushPos[p])]
  <2>1. Cell(pushPos[p]) \in Cells
    BY CellType DEF MpscInv, MpscTypeOK
  <2> QED BY <2>1 DEF MpscInv, MpscTypeOK, Past
<1>6. \A r \in Producers \ {p} : /\ pushPc'[r] = pushPc[r]
                                 /\ pushPos'[r] = pushPos[r]
                                 /\ pushVal'[r] = pushVal[r]
  BY DEF MpscInv, MpscTypeOK, PushReturns
<1> QED BY <1>1, <1>2, <1>3, <1>4, <1>5, <1>6, LocalStepInv DEF Owning

\* The reload of tail_ by a producer whose position is out of date.
LEMMA PushReloadsInv ==
    ASSUME MpscInv, NEW p \in Producers, NEW pos \in Nat, PushReloads(p, pos)
    PROVE  MpscInv'
<1>. USE DEF PushReloads
<1>1. MpscTypeOK'
  BY DEF MpscInv, MpscTypeOK, popVars
<1>2. pushPc[p] = "reload" /\ pushPc'[p] = "check"
  BY DEF MpscInv, MpscTypeOK
<1> QED BY <1>1, <1>2, LocalStepInv DEF MpscInv, MpscTypeOK, Owning

\* A compare-exchange that fails.
LEMMA PushLosesInv ==
    ASSUME MpscInv, NEW p \in Producers, PushLoses(p)
    PROVE  MpscInv'
<1>. USE DEF PushLoses
<1>1. MpscTypeOK'
  BY DEF MpscInv, MpscTypeOK, popVars
<1>2. pushPc[p] = "claim" /\ pushPc'[p] = "check"
  BY DEF MpscInv, MpscTypeOK
<1> QED BY <1>1, <1>2, LocalStepInv DEF MpscInv, MpscTypeOK, Owning

\* A position in use is the place of its value among the accepted ones.
LEMMA InUseIndex ==
    ASSUME MpscTypeOK, CountersAgree
    PROVE  \A k \in InUse : k - taken + 1 \in 1 .. Len(accepted) /\ k < claimed
<1>1. claimed \in Nat /\ taken \in Nat /\ claimed - taken = Len(accepted)
  BY DEF MpscTypeOK, CountersAgree
<1>2. \A k \in taken .. claimed - 1 : k - taken + 1 \in 1 .. claimed - taken /\ k < claimed
  BY <1>1
<1> QED BY <1>1, <1>2 DEF InUse

\* The compare-exchange that succeeds: tail_ is the producer's position, so
\* the slot it has seen free is still free, and nobody else owns it.
LEMMA PushClaimsInv ==
    ASSUME MpscInv, NEW p \in Producers, PushClaims(p)
    PROVE  MpscInv'
<1>. USE DEF PushClaims, popVars
<1>1. /\ claimed \in Window /\ seq[Cell(claimed)] = claimed
      /\ pushPos[p] = claimed /\ ~Owning(p)
  <2>1. seq[Cell(claimed)] >= claimed
    BY DEF MpscInv, ProducersKnow
  <2> QED BY <2>1, TailSlotIsFree DEF Owning
<1>2. /\ claimed \in Nat /\ taken \in Nat /\ Capacity \in Nat
      /\ accepted \in Seq(Payloads) /\ pushVal[p] \in Payloads
      /\ claimed = taken + Len(accepted) /\ Len(accepted) \in Nat
      /\ claimed < taken + Capacity
  BY <1>1, MpscAssumption DEF MpscInv, MpscTypeOK, CountersAgree, Window
<1>3. MpscTypeOK'
  BY <1>2 DEF MpscInv, MpscTypeOK
<1>4. /\ Len(accepted') = Len(accepted) + 1
      /\ accepted'[Len(accepted) + 1] = pushVal[p]
      /\ \A k \in 1 .. Len(accepted) : accepted'[k] = accepted[k]
  BY <1>2
<1>5. CountersAgree'
  BY <1>2, <1>4 DEF CountersAgree
<1>6. SlotsTakeTurns'
  <2>. SUFFICES ASSUME NEW k \in Window
                PROVE  \/ seq[Cell(k)] = k
                       \/ k < claimed + 1 /\ seq[Cell(k)] = k + 1
    BY DEF SlotsTakeTurns, Window, Cell
  <2>1. k \in Int
    BY <1>2 DEF Window
  <2> QED BY <2>1, <1>2 DEF MpscInv, SlotsTakeTurns
<1>14. InUse' = taken .. claimed
  <2>1. claimed' - 1 = claimed
    BY <1>2
  <2> QED BY <2>1 DEF InUse
<1>7. PublishedIsAccepted'
  <2>. SUFFICES ASSUME NEW k \in taken .. claimed, seq[Cell(k)] = k + 1
                PROVE  data[Cell(k)] = accepted'[k - taken + 1]
    BY <1>14 DEF PublishedIsAccepted, Cell
  <2>1. k # claimed
    BY <1>1, <1>2
  <2>2. k \in InUse /\ k - taken + 1 \in 1 .. Len(accepted)
    <3>1. claimed \in Nat /\ taken \in Nat /\ claimed - taken = Len(accepted)
      BY <1>2
    <3>2. k \in taken .. claimed - 1 /\ k - taken + 1 \in 1 .. claimed - taken
      BY <2>1, <3>1
    <3> QED BY <3>1, <3>2 DEF InUse
  <2> QED BY <2>2, <1>4 DEF MpscInv, PublishedIsAccepted
<1>8. ASSUME NEW r \in Producers, Owning(r)
      PROVE  /\ r # p /\ pushPos[r] \in InUse /\ pushPos[r] < claimed
             /\ accepted'[pushPos[r] - taken + 1] = pushVal[r]
  <2>1. r # p /\ pushPos[r] \in InUse /\ accepted[pushPos[r] - taken + 1] = pushVal[r]
    BY <1>1, <1>8 DEF MpscInv, ProducersKnow
  <2>a. \A k \in InUse : k - taken + 1 \in 1 .. Len(accepted) /\ k < claimed
    BY InUseIndex DEF MpscInv
  <2>2. pushPos[r] - taken + 1 \in 1 .. Len(accepted) /\ pushPos[r] < claimed
    BY <2>1, <2>a
  <2> QED BY <2>1, <2>2, <1>4
<1>9. pushPc'[p] = "write" /\ \A r \in Producers \ {p} : pushPc'[r] = pushPc[r]
  BY DEF MpscInv, MpscTypeOK
<1>10. ProducersKnow'
  <2>. SUFFICES ASSUME NEW r \in Producers
                PROVE  /\ pushPc'[r] = "claim" => seq[Cell(pushPos[r])] >= pushPos[r]
                       /\ Owning(r)' => /\ pushPos[r] \in taken .. claimed
                                        /\ seq[Cell(pushPos[r])] = pushPos[r]
                                        /\ accepted'[pushPos[r] - taken + 1] = pushVal[r]
                       /\ pushPc'[r] = "publish" => data[Cell(pushPos[r])] = pushVal[r]
    BY <1>14 DEF ProducersKnow, Cell
  <2>1. CASE r = p
    <3>1. claimed - taken + 1 = Len(accepted) + 1 /\ claimed \in taken .. claimed
      BY <1>2
    <3> QED BY <2>1, <3>1, <1>1, <1>4, <1>9
  <2>2. CASE r # p
    <3>1. Owning(r)' <=> Owning(r)
      BY <2>2, <1>9 DEF Owning
    <3>2. InUse \subseteq taken .. claimed
      BY <1>2 DEF InUse
    <3> QED BY <2>2, <3>1, <3>2, <1>8, <1>9 DEF MpscInv, ProducersKnow
  <2> QED BY <2>1, <2>2
<1>11. ClaimsAreUnique'
  <2>. SUFFICES ASSUME NEW r \in Producers, NEW t \in Producers,
                       Owning(r)', Owning(t)', pushPos[r] = pushPos[t]
                PROVE  r = t
    BY DEF ClaimsAreUnique
  <2>1. \A u \in Producers \ {p} : Owning(u)' => Owning(u) /\ pushPos[u] # pushPos[p]
    <3>. TAKE u \in Producers \ {p}
    <3>. HAVE Owning(u)'
    <3>1. Owning(u)
      BY <1>9 DEF Owning
    <3>2. pushPos[u] < claimed
      BY <3>1, <1>8
    <3> QED BY <3>1, <3>2, <1>1, <1>2
  <2> QED BY <2>1 DEF MpscInv, ClaimsAreUnique
<1>12. ConsumerKnows'
  BY <1>2, <1>4 DEF MpscInv, ConsumerKnows, Cell
<1> QED BY <1>3, <1>5, <1>6, <1>7, <1>10, <1>11, <1>12 DEF MpscInv

\* What holds of a producer that owns a slot.
LEMMA OwnerFacts ==
    ASSUME MpscInv, NEW p \in Producers, Owning(p)
    PROVE  /\ pushPos[p] \in InUse /\ pushPos[p] \in Window /\ pushPos[p] \in Nat
           /\ Cell(pushPos[p]) \in Cells /\ seq[Cell(pushPos[p])] = pushPos[p]
           /\ accepted[pushPos[p] - taken + 1] = pushVal[p]
           /\ \A k \in Window : Cell(k) = Cell(pushPos[p]) => k = pushPos[p]
           /\ \A r \in Producers : Owning(r) /\ Cell(pushPos[r]) = Cell(pushPos[p]) => r = p
           /\ popPc # "idle" => Cell(taken) # Cell(pushPos[p])
<1>1. /\ pushPos[p] \in InUse /\ seq[Cell(pushPos[p])] = pushPos[p]
      /\ accepted[pushPos[p] - taken + 1] = pushVal[p]
  BY DEF MpscInv, ProducersKnow
<1>2. pushPos[p] \in Window /\ pushPos[p] \in Nat /\ Cell(pushPos[p]) \in Cells
  BY <1>1, InUseInWindow DEF MpscInv
<1>3. \A k \in Window : Cell(k) = Cell(pushPos[p]) => k = pushPos[p]
  BY <1>2, WindowInjective DEF MpscInv
<1>4. ASSUME NEW r \in Producers, Owning(r), Cell(pushPos[r]) = Cell(pushPos[p])
      PROVE  r = p
  <2>1. pushPos[r] \in Window
    BY <1>4, InUseInWindow DEF MpscInv, ProducersKnow
  <2>2. pushPos[r] = pushPos[p]
    BY <2>1, <1>3, <1>4
  <2> QED BY <2>2, <1>4 DEF MpscInv, ClaimsAreUnique
<1>5. ASSUME popPc # "idle", Cell(taken) = Cell(pushPos[p])
      PROVE  FALSE
  <2>1. taken \in Nat /\ taken \in Window
    BY MpscAssumption DEF MpscInv, MpscTypeOK, Window
  <2>2. taken = pushPos[p]
    BY <2>1, <1>3, <1>5
  <2> QED BY <2>1, <2>2, <1>1, <1>5 DEF MpscInv, ConsumerKnows
<1> QED BY <1>1, <1>2, <1>3, <1>4, <1>5

\* push's copy: the slot is the producer's alone, and not yet published.
LEMMA PushWritesInv ==
    ASSUME MpscInv, NEW p \in Producers, PushWrites(p)
    PROVE  MpscInv'
<1>. USE DEF PushWrites, popVars
<1>. DEFINE c == Cell(pushPos[p])
<1>1. Owning(p)
  BY DEF Owning
<1>2. /\ c \in Cells /\ seq[c] = pushPos[p] /\ pushPos[p] \in Nat
      /\ \A k \in Window : Cell(k) = c => k = pushPos[p]
      /\ \A r \in Producers : Owning(r) /\ Cell(pushPos[r]) = c => r = p
  BY <1>1, OwnerFacts
<1>. HIDE DEF c
<1>3. data' = [data EXCEPT ![c] = pushVal[p]] /\ data \in [Cells -> Payloads]
  BY DEF c, MpscInv, MpscTypeOK
<1>4. MpscTypeOK'
  BY DEF MpscInv, MpscTypeOK
<1>5. CountersAgree' /\ SlotsTakeTurns' /\ ConsumerKnows'
  BY DEF MpscInv, CountersAgree, SlotsTakeTurns, ConsumerKnows, Window, Cell
<1>6. PublishedIsAccepted'
  <2>. SUFFICES ASSUME NEW k \in InUse, seq[Cell(k)] = k + 1
                PROVE  data'[Cell(k)] = accepted[k - taken + 1]
    BY DEF PublishedIsAccepted, InUse, Cell
  <2>1. k \in Window /\ k \in Nat /\ Cell(k) \in Cells
    BY InUseInWindow DEF MpscInv
  <2>2. Cell(k) # c
    BY <1>2, <2>1
  <2>3. data'[Cell(k)] = data[Cell(k)]
    BY <1>3, <2>1, <2>2
  <2> QED BY <2>3 DEF MpscInv, PublishedIsAccepted
<1>7. pushPc'[p] = "publish" /\ \A r \in Producers \ {p} : pushPc'[r] = pushPc[r]
  BY DEF MpscInv, MpscTypeOK
<1>8. \A r \in Producers : Owning(r)' <=> Owning(r)
  BY <1>1, <1>7 DEF Owning
<1>9. ProducersKnow'
  <2>. SUFFICES ASSUME NEW r \in Producers
                PROVE  /\ pushPc'[r] = "claim" => seq[Cell(pushPos[r])] >= pushPos[r]
                       /\ Owning(r)' => /\ pushPos[r] \in InUse
                                        /\ seq[Cell(pushPos[r])] = pushPos[r]
                                        /\ accepted[pushPos[r] - taken + 1] = pushVal[r]
                       /\ pushPc'[r] = "publish" => data'[Cell(pushPos[r])] = pushVal[r]
    BY DEF ProducersKnow, InUse, Cell
  <2>1. CASE r = p
    <3>1. data'[c] = pushVal[p]
      BY <1>2, <1>3
    <3> QED BY <2>1, <3>1, <1>1, <1>7, <1>8 DEF MpscInv, ProducersKnow, c
  <2>2. CASE r # p
    <3>1. ASSUME pushPc[r] = "publish" PROVE data'[Cell(pushPos[r])] = data[Cell(pushPos[r])]
      <4>1. Owning(r)
        BY <3>1 DEF Owning
      <4>2. Cell(pushPos[r]) \in Cells
        BY <4>1, OwnerFacts
      <4> QED BY <4>1, <4>2, <2>2, <1>2, <1>3
    <3> QED BY <2>2, <3>1, <1>7, <1>8 DEF MpscInv, ProducersKnow
  <2> QED BY <2>1, <2>2
<1>10. ClaimsAreUnique'
  BY <1>8 DEF MpscInv, ClaimsAreUnique
<1> QED BY <1>4, <1>5, <1>6, <1>9, <1>10 DEF MpscInv

\* push's publication: the number of the producer's own slot moves on by one,
\* and the value the consumer will find there is the one accepted.
LEMMA PushPublishesInv ==
    ASSUME MpscInv, NEW p \in Producers, PushPublishes(p)
    PROVE  MpscInv'
<1>. USE DEF PushPublishes, popVars
<1>. DEFINE c == Cell(pushPos[p])
           pos == pushPos[p]
<1>1. Owning(p) /\ pushPc[p] = "publish"
  BY DEF Owning
<1>2. /\ c \in Cells /\ seq[c] = pos /\ pos \in Nat /\ pos \in InUse /\ pos \in Window
      /\ \A k \in Window : Cell(k) = c => k = pos
      /\ \A r \in Producers : Owning(r) /\ Cell(pushPos[r]) = c => r = p
      /\ popPc # "idle" => Cell(taken) # c
      /\ accepted[pos - taken + 1] = data[c]
  BY <1>1, OwnerFacts DEF MpscInv, ProducersKnow
<1>3. /\ seq' = [seq EXCEPT ![c] = pos + 1] /\ seq \in [Cells -> Nat]
      /\ T \in Payloads
  BY MpscAssumption DEF MpscInv, MpscTypeOK, T
<1>4. Cell(pos) = c
  OBVIOUS
<1>. HIDE DEF c, pos
<1>5. MpscTypeOK'
  <2>1. seq' \in [Cells -> Nat]
    BY <1>2, <1>3
  <2>2. /\ pushPos' \in [Producers -> Nat] /\ pushVal' \in [Producers -> Payloads]
        /\ pushPc' \in [Producers -> {"idle", "check", "reload", "claim", "write", "publish"}]
    BY <1>3 DEF MpscInv, MpscTypeOK, PushReturns
  <2> QED BY <2>1, <2>2 DEF MpscInv, MpscTypeOK
<1>6. CountersAgree'
  BY DEF MpscInv, CountersAgree
<1>7. SlotsTakeTurns'
  <2>. SUFFICES ASSUME NEW k \in Window
                PROVE  \/ seq'[Cell(k)] = k
                       \/ k < claimed /\ seq'[Cell(k)] = k + 1
    BY DEF SlotsTakeTurns, Window, Cell
  <2>1. CASE Cell(k) = c
    <3>1. k = pos /\ seq'[c] = pos + 1
      BY <2>1, <1>2, <1>3
    <3>2. pos < claimed
      BY <1>2 DEF InUse, MpscInv, MpscTypeOK
    <3> QED BY <2>1, <3>1, <3>2
  <2>2. CASE Cell(k) # c
    BY <2>2, <1>3 DEF MpscInv, SlotsTakeTurns
  <2> QED BY <2>1, <2>2
<1>8. PublishedIsAccepted'
  <2>. SUFFICES ASSUME NEW k \in InUse, seq'[Cell(k)] = k + 1
                PROVE  data[Cell(k)] = accepted[k - taken + 1]
    BY DEF PublishedIsAccepted, InUse, Cell
  <2>1. k \in Window
    BY InUseInWindow DEF MpscInv
  <2>2. CASE Cell(k) = c
    BY <2>1, <2>2, <1>2
  <2>3. CASE Cell(k) # c
    BY <2>3, <1>3 DEF MpscInv, PublishedIsAccepted
  <2> QED BY <2>2, <2>3
<1>9. /\ pushPc'[p] = "idle"
      /\ \A r \in Producers \ {p} : /\ pushPc'[r] = pushPc[r]
                                    /\ pushPos'[r] = pushPos[r]
                                    /\ pushVal'[r] = pushVal[r]
  BY DEF MpscInv, MpscTypeOK, PushReturns
<1>10. ASSUME NEW i \in Cells PROVE seq'[i] >= seq[i] /\ seq[i] \in Nat
  BY <1>2, <1>3
<1>11. ProducersKnow'
  <2>. SUFFICES ASSUME NEW r \in Producers, r # p
                PROVE  /\ pushPc[r] = "claim" => seq'[Cell(pushPos[r])] >= pushPos[r]
                       /\ Owning(r) => /\ pushPos[r] \in InUse
                                       /\ seq'[Cell(pushPos[r])] = pushPos[r]
                                       /\ accepted[pushPos[r] - taken + 1] = pushVal[r]
                       /\ pushPc[r] = "publish" => data[Cell(pushPos[r])] = pushVal[r]
    BY <1>9 DEF ProducersKnow, InUse, Cell, Owning
  <2>1. pushPos[r] \in Nat /\ Cell(pushPos[r]) \in Cells
    BY CellType DEF MpscInv, MpscTypeOK
  <2>2. pushPc[r] = "claim" => seq'[Cell(pushPos[r])] >= pushPos[r]
    <3>1. seq'[Cell(pushPos[r])] \in Nat
      BY <2>1, <1>5 DEF MpscTypeOK
    <3> QED BY <2>1, <3>1, <1>10 DEF MpscInv, ProducersKnow
  <2>3. Owning(r) => seq'[Cell(pushPos[r])] = seq[Cell(pushPos[r])]
    BY <2>1, <1>2, <1>3
  <2> QED BY <2>2, <2>3 DEF MpscInv, ProducersKnow
<1>12. ClaimsAreUnique'
  BY <1>9 DEF MpscInv, ClaimsAreUnique, Owning
<1>13. ConsumerKnows'
  <2>1. popPc # "idle" => seq'[Cell(taken)] = seq[Cell(taken)]
    <3>1. Cell(taken) \in Cells
      BY CellType DEF MpscInv, MpscTypeOK
    <3> QED BY <3>1, <1>2, <1>3
  <2> QED BY <2>1 DEF MpscInv, ConsumerKnows, Cell
<1> QED BY <1>5, <1>6, <1>7, <1>8, <1>11, <1>12, <1>13 DEF MpscInv

\* pop's test: the number it saw, however old, is at least taken + 1, so the
\* slot of head_ is published now.
LEMMA PopChecksInv ==
    ASSUME MpscInv, NEW s \in Nat, PopChecks(s)
    PROVE  MpscInv'
<1>. USE DEF PopChecks, pushVars
<1>1. MpscTypeOK'
  BY DEF MpscInv, MpscTypeOK
<1>2. CountersAgree' /\ SlotsTakeTurns' /\ PublishedIsAccepted'
  BY DEF MpscInv, CountersAgree, SlotsTakeTurns, PublishedIsAccepted, Window, InUse, Cell
<1>3. ProducersKnow' /\ ClaimsAreUnique'
  BY DEF MpscInv, ProducersKnow, ClaimsAreUnique, Owning, InUse, Cell
<1>4. ConsumerKnows'
  <2>. SUFFICES ASSUME Ready(s) PROVE taken < claimed /\ seq[Cell(taken)] = taken + 1
    BY DEF ConsumerKnows, Cell
  <2>1. taken \in Nat /\ taken \in Window /\ Cell(taken) \in Cells
    BY MpscAssumption, CellType DEF MpscInv, MpscTypeOK, Window
  <2>2. seq[Cell(taken)] \in Nat /\ s <= seq[Cell(taken)]
    BY <2>1 DEF MpscInv, MpscTypeOK, Past
  <2>3. seq[Cell(taken)] # taken
    BY <2>1, <2>2 DEF Ready
  <2> QED BY <2>1, <2>3 DEF MpscInv, SlotsTakeTurns
<1> QED BY <1>1, <1>2, <1>3, <1>4 DEF MpscInv

\* A consumer past its test finds the oldest accepted value in the slot.
LEMMA ConsumerHasValue ==
    ASSUME MpscInv, popPc # "idle"
    PROVE  /\ taken \in Nat /\ claimed \in Nat /\ taken < claimed
           /\ Cell(taken) \in Cells /\ seq[Cell(taken)] = taken + 1
           /\ accepted \in Seq(Payloads) /\ Len(accepted) \in Nat /\ Len(accepted) >= 1
           /\ data[Cell(taken)] = accepted[1]
<1>1. /\ taken \in Nat /\ claimed \in Nat /\ taken < claimed
      /\ seq[Cell(taken)] = taken + 1
      /\ accepted \in Seq(Payloads) /\ claimed = taken + Len(accepted)
  BY DEF MpscInv, MpscTypeOK, ConsumerKnows, CountersAgree
<1>2. Len(accepted) \in Nat /\ Len(accepted) >= 1
  BY <1>1
<1>3. taken \in InUse /\ taken - taken + 1 = 1
  BY <1>1 DEF InUse
<1>4. data[Cell(taken)] = accepted[1]
  BY <1>1, <1>3 DEF MpscInv, PublishedIsAccepted
<1> QED BY <1>1, <1>2, <1>4, CellType

\* pop's copy.
LEMMA PopReadsInv ==
    ASSUME MpscInv, PopReads
    PROVE  MpscInv'
<1>. USE DEF PopReads, pushVars
<1>1. Cell(taken) \in Cells /\ data[Cell(taken)] = accepted[1]
  BY ConsumerHasValue
<1>2. MpscTypeOK'
  BY <1>1 DEF MpscInv, MpscTypeOK
<1>3. CountersAgree' /\ SlotsTakeTurns' /\ PublishedIsAccepted'
  BY DEF MpscInv, CountersAgree, SlotsTakeTurns, PublishedIsAccepted, Window, InUse, Cell
<1>4. ProducersKnow' /\ ClaimsAreUnique'
  BY DEF MpscInv, ProducersKnow, ClaimsAreUnique, Owning, InUse, Cell
<1>5. ConsumerKnows'
  BY <1>1 DEF MpscInv, ConsumerKnows, Cell
<1> QED BY <1>2, <1>3, <1>4, <1>5 DEF MpscInv

\* pop's release: the slot of head_ becomes the one of the position a round
\* later, which enters the window as head_ leaves it.
LEMMA PopReleasesInv ==
    ASSUME MpscInv, PopReleases
    PROVE  MpscInv'
<1>. USE DEF PopReleases, pushVars
<1>. DEFINE c == Cell(taken)
<1>1. /\ taken \in Nat /\ claimed \in Nat /\ taken < claimed /\ c \in Cells
      /\ seq[c] = taken + 1 /\ accepted \in Seq(Payloads)
      /\ Len(accepted) \in Nat /\ Len(accepted) >= 1
  BY ConsumerHasValue
<1>2. Capacity \in Nat /\ Capacity >= 2 /\ T \in Payloads
  BY MpscAssumption DEF T
<1>3. seq' = [seq EXCEPT ![c] = taken + Capacity] /\ seq \in [Cells -> Nat]
  BY DEF MpscInv, MpscTypeOK
<1>4. /\ taken \in Window /\ Cell(taken + Capacity) = c
      /\ \A k \in Window : Cell(k) = c => k = taken
  <2>1. taken \in Window
    BY <1>1, <1>2 DEF Window
  <2> QED BY <2>1, <1>1, CellNextRound, WindowInjective DEF MpscInv
<1>5. claimed <= taken + Capacity /\ claimed = taken + Len(accepted)
  BY DEF MpscInv, CountersAgree
<1>. HIDE DEF c
<1>6. /\ accepted' \in Seq(Payloads) /\ Len(accepted') = Len(accepted) - 1
      /\ \A k \in 1 .. Len(accepted') : accepted'[k] = accepted[k + 1]
  BY <1>1
<1>7. MpscTypeOK'
  <2>1. seq' \in [Cells -> Nat] /\ taken' \in Nat
    BY <1>1, <1>2, <1>3
  <2> QED BY <2>1, <1>2, <1>6 DEF MpscInv, MpscTypeOK
<1>8. CountersAgree'
  BY <1>1, <1>2, <1>5, <1>6 DEF CountersAgree
<1>9. SlotsTakeTurns'
  <2>. SUFFICES ASSUME NEW k \in Window'
                PROVE  \/ seq'[Cell(k)] = k
                       \/ k < claimed /\ seq'[Cell(k)] = k + 1
    BY DEF SlotsTakeTurns, Cell
  <2>1. k \in Nat /\ (k = taken + Capacity \/ (k \in Window /\ k # taken))
    BY <1>1, <1>2 DEF Window
  <2>2. CASE k = taken + Capacity
    BY <2>2, <1>1, <1>3, <1>4
  <2>3. CASE k \in Window /\ k # taken
    <3>1. Cell(k) \in Cells /\ Cell(k) # c
      BY <2>1, <2>3, <1>4, CellType
    <3>2. seq'[Cell(k)] = seq[Cell(k)]
      BY <3>1, <1>3
    <3> QED BY <2>3, <3>2 DEF MpscInv, SlotsTakeTurns
  <2> QED BY <2>1, <2>2, <2>3
<1>10. ASSUME NEW k \in InUse, k # taken
       PROVE  /\ k \in InUse' /\ seq'[Cell(k)] = seq[Cell(k)]
              /\ accepted'[k - taken' + 1] = accepted[k - taken + 1]
  <2>1. k \in Window /\ k \in Nat /\ Cell(k) \in Cells
    BY InUseInWindow DEF MpscInv
  <2>2. Cell(k) # c
    BY <2>1, <1>4, <1>10
  <2>3. seq'[Cell(k)] = seq[Cell(k)]
    BY <2>1, <2>2, <1>3
  <2>4. /\ k \in InUse' /\ k - taken' + 1 \in 1 .. Len(accepted')
        /\ (k - taken' + 1) + 1 = k - taken + 1
    BY <2>1, <1>1, <1>5, <1>6, <1>10 DEF InUse
  <2> QED BY <2>3, <2>4, <1>6
<1>11. PublishedIsAccepted'
  <2>. SUFFICES ASSUME NEW k \in InUse', seq'[Cell(k)] = k + 1
                PROVE  data[Cell(k)] = accepted'[k - taken' + 1]
    BY DEF PublishedIsAccepted, Cell
  <2>1. k \in InUse /\ k # taken
    BY <1>1 DEF InUse
  <2> QED BY <2>1, <1>10 DEF MpscInv, PublishedIsAccepted
<1>12. ASSUME NEW i \in Cells PROVE seq'[i] >= seq[i] /\ seq[i] \in Nat /\ seq'[i] \in Nat
  BY <1>1, <1>2, <1>3
<1>13. ProducersKnow'
  <2>. SUFFICES ASSUME NEW r \in Producers
                PROVE  /\ pushPc[r] = "claim" => seq'[Cell(pushPos[r])] >= pushPos[r]
                       /\ Owning(r) => /\ pushPos[r] \in InUse'
                                       /\ seq'[Cell(pushPos[r])] = pushPos[r]
                                       /\ accepted'[pushPos[r] - taken' + 1] = pushVal[r]
                       /\ pushPc[r] = "publish" => data[Cell(pushPos[r])] = pushVal[r]
    BY DEF ProducersKnow, Cell, Owning
  <2>1. pushPos[r] \in Nat /\ Cell(pushPos[r]) \in Cells
    BY CellType DEF MpscInv, MpscTypeOK
  <2>2. pushPc[r] = "claim" => seq'[Cell(pushPos[r])] >= pushPos[r]
    BY <2>1, <1>12 DEF MpscInv, ProducersKnow
  <2>3. Owning(r) => pushPos[r] \in InUse /\ pushPos[r] # taken
    BY <1>1, OwnerFacts DEF c
  <2> QED BY <2>2, <2>3, <1>10 DEF MpscInv, ProducersKnow
<1>14. ClaimsAreUnique'
  BY DEF MpscInv, ClaimsAreUnique, Owning
<1>15. ConsumerKnows'
  BY DEF ConsumerKnows
<1> QED BY <1>7, <1>8, <1>9, <1>11, <1>13, <1>14, <1>15 DEF MpscInv

\* Every step of a producer or of the consumer keeps the invariant.
LEMMA MpscNextInv == MpscInv /\ [MpscNext]_mpscVars => MpscInv'
<1>. SUFFICES ASSUME MpscInv, [MpscNext]_mpscVars PROVE MpscInv'
  OBVIOUS
<1>0. /\ 0 .. MaxAccepted \subseteq Nat
      /\ 0 .. MaxAccepted + Capacity \subseteq Nat
  BY MpscAssumption
<1>1. CASE Pop
  BY <1>0, <1>1, PopChecksInv, PopReadsInv, PopReleasesInv DEF Pop
<1>2. ASSUME NEW p \in Producers, Push(p) PROVE MpscInv'
  BY <1>0, <1>2, PushLoadsTailInv, PushChecksInv, PushReloadsInv, PushClaimsInv,
     PushLosesInv, PushWritesInv, PushPublishesInv DEF Push
<1>3. CASE UNCHANGED mpscVars
  BY <1>3 DEF mpscVars, pushVars, popVars, MpscInv, MpscTypeOK, CountersAgree,
     SlotsTakeTurns, PublishedIsAccepted, ProducersKnow, ClaimsAreUnique,
     ConsumerKnows, Window, InUse, Owning, Cell
<1> QED BY <1>1, <1>2, <1>3 DEF MpscNext

-----------------------------------------------------------------------------
(* What follows for the queue                                              *)

\* MPSCQueue keeps its inductive invariant: every slot belongs to one position
\* of the window, and its sequence number says how far that position has come.
THEOREM MpscInvariance == MpscSpec => []MpscInv
<1>1. MpscInit => MpscInv
  BY MpscInitInv
<1>2. MpscInv /\ [MpscNext]_mpscVars => MpscInv'
  BY MpscNextInv
<1> QED BY <1>1, <1>2, PTL DEF MpscSpec

\* No two producers, and no producer and the consumer, are at work on the same
\* slot of slots_ at the same time, for any number of producers.
THEOREM OneOwner == MpscSpec => []SlotHasOneOwner
<1>1. MpscInv => SlotHasOneOwner
  <2>. SUFFICES ASSUME MpscInv PROVE SlotHasOneOwner
    OBVIOUS
  <2>1. ASSUME NEW i \in Cells PROVE Cardinality(Owners(i)) <= 1
    <3>1. CASE Owners(i) = {}
      BY <3>1, FS_EmptySet
    <3>2. ASSUME NEW p \in Owners(i) PROVE Cardinality(Owners(i)) <= 1
      <4>1. Owners(i) = {p}
        BY <3>2, OwnerFacts DEF Owners, Owning
      <4>2. Cardinality({p}) = 1
        BY FS_Singleton
      <4> QED BY <4>1, <4>2
    <3> QED BY <3>1, <3>2
  <2>2. popPc # "idle" => Owners(Cell(taken)) = {}
    BY OwnerFacts DEF Owners, Owning
  <2> QED BY <2>1, <2>2 DEF SlotHasOneOwner
<1> QED BY <1>1, MpscInvariance, PTL

\* Every step of the queue is a Put, a Take or a stutter of the bounded FIFO:
\* a value is put when its position is claimed, taken when it is released.
LEMMA MpscStepSimulation ==
    MpscInv /\ [MpscNext]_mpscVars => [MpscFifo!FifoNext]_<<accepted, delivery>>
<1>. SUFFICES ASSUME MpscInv, [MpscNext]_mpscVars
              PROVE  [MpscFifo!FifoNext]_<<accepted, delivery>>
  OBVIOUS
<1>1. ASSUME NEW p \in Producers, PushClaims(p)
      PROVE  MpscFifo!FifoNext
  <2>1. seq[Cell(claimed)] >= claimed
    BY <1>1 DEF PushClaims, MpscInv, ProducersKnow
  <2>2. Len(accepted) < Capacity
    BY <2>1, TailSlotIsFree, MpscAssumption DEF MpscInv, MpscTypeOK, CountersAgree, Window
  <2>3. pushVal[p] \in Payloads
    BY DEF MpscInv, MpscTypeOK
  <2>4. MpscFifo!Put(pushVal[p])
    BY <2>2, <1>1 DEF PushClaims, popVars, MpscFifo!Put
  <2> QED BY <2>3, <2>4 DEF MpscFifo!FifoNext
<1>2. ASSUME NEW p \in Producers, Push(p), ~PushClaims(p)
      PROVE  UNCHANGED <<accepted, delivery>>
  BY <1>2 DEF Push, PushLoadsTail, PushChecks, PushReloads, PushLoses, PushWrites,
              PushPublishes, popVars
<1>3. CASE PopReleases
  <2>1. accepted # << >> /\ popVal = Head(accepted)
    BY <1>3, ConsumerHasValue DEF PopReleases, MpscInv, ConsumerKnows
  <2>2. MpscFifo!Take
    BY <2>1, <1>3 DEF PopReleases, MpscFifo!Take
  <2> QED BY <2>2 DEF MpscFifo!FifoNext
<1>4. ASSUME Pop, ~PopReleases PROVE UNCHANGED <<accepted, delivery>>
  BY <1>4 DEF Pop, PopChecks, PopReads
<1>5. CASE UNCHANGED mpscVars
  BY <1>5 DEF mpscVars, popVars
<1> QED BY <1>1, <1>2, <1>3, <1>4, <1>5 DEF MpscNext

\* MPSCQueue refines the bounded FIFO, in the order in which the producers won
\* their compare-exchanges, for every capacity and any number of producers.
THEOREM MpscRefinement == MpscSpec => MpscImplementsFifo
<1>1. MpscInit => MpscFifo!FifoInit
  BY MpscAssumption DEF MpscInit, MpscFifo!FifoInit, T
<1>2. MpscInv /\ [MpscNext]_mpscVars => [MpscFifo!FifoNext]_<<accepted, delivery>>
  BY MpscStepSimulation
<1>3. MpscFifo!fifoVars = <<accepted, delivery>>
  BY DEF MpscFifo!fifoVars
<1> QED BY <1>1, <1>2, <1>3, MpscInvariance, PTL
        DEF MpscSpec, MpscImplementsFifo, MpscFifo!FifoSpec, MpscFifo!fifoVars

-----------------------------------------------------------------------------
\* The infrastructure as a whole: the queues share no state, so whichever is
\* used keeps its slots free of races and is the bounded FIFO its callers see.
THEOREM QueuesKept ==
    QueuesSpec => /\ [](NoSlotRace /\ SlotHasOneOwner)
                  /\ ImplementsFifo /\ MpscImplementsFifo
<1>1. QueuesInit => Init /\ MpscInit
  BY DEF QueuesInit
<1>2. [QueuesNext]_queueVars => [Next]_vars /\ [MpscNext]_mpscVars
  BY DEF QueuesNext, queueVars
<1>3. QueuesSpec => Spec /\ MpscSpec
  BY <1>1, <1>2, PTL DEF QueuesSpec, Spec, MpscSpec
<1> QED BY <1>3, DataRaceFreedom, OneOwner, Refinement, MpscRefinement, PTL

-----------------------------------------------------------------------------
(* LatencyTracker                                                          *)

\* The sample at a rank of a sequence is one of the sequence.
LEMMA RankedIsSample ==
    ASSUME NEW s \in Seq(Nat), NEW r \in 1 .. Len(s)
    PROVE  Ranked(s, r) \in Range(s)
<1>. DEFINE D == 1 .. Len(s)
            UpToX(x) == {i \in D : s[i] <= x}
            Below(x) == {i \in D : s[i] < x}
            Good == {x \in Nat : r <= Cardinality(UpToX(x))}
<1>0. D = DOMAIN s /\ Len(s) \in Nat /\ \A i \in D : s[i] \in Nat
  OBVIOUS
<1>1. IsFiniteSet(D) /\ Cardinality(D) = Len(s)
  <2>1. IsFiniteSet(1 .. Len(s)) /\ Cardinality(1 .. Len(s)) = IF 1 > Len(s) THEN 0 ELSE Len(s) - 1 + 1
    BY <1>0, FS_Interval
  <2> QED BY <1>0, <2>1
<1>2. \A x : IsFiniteSet(UpToX(x)) /\ Cardinality(UpToX(x)) \in Nat
  BY <1>1, FS_Subset, FS_CardinalityType
<1>3. Good # {}
  <2>. DEFINE V == {s[i] : i \in D}
  <2>1. IsFiniteSet(V) /\ V # {} /\ \A x \in V : x \in Int
    <3>1. IsFiniteSet(V)
      <4>. DEFINE f == [i \in D |-> s[i]]
      <4>1. f \in [D -> V] /\ V = {f[i] : i \in D} /\ IsFiniteSet(D)
        BY <1>1
      <4>2. f \in Surjection(D, V)
        BY <4>1 DEF Surjection
      <4> QED BY <4>1, <4>2, FS_Surjection
    <3>2. 1 \in D
      BY <1>0
    <3> QED BY <1>0, <3>1, <3>2
  <2>2. PICK m \in V : \A y \in V : m >= y
    <3> HIDE DEF V
    <3> QED BY <2>1, MaxExists
  <2>3. UpToX(m) = D
    BY <1>0, <2>1, <2>2
  <2> QED BY <1>0, <1>1, <2>2, <2>3
<1>4. Min(Good) \in Good /\ \A y \in Good : Min(Good) <= y
  <2>1. \A x \in Good : x \in Nat
    OBVIOUS
  <2> HIDE DEF Good
  <2> QED BY <1>3, <2>1, MinBounds
<1>5. PICK x \in Good : \A y \in Good : x <= y
  BY <1>4
<1>6. x \in Nat /\ r <= Cardinality(UpToX(x))
  OBVIOUS
<1>7. Cardinality(Below(x)) < r
  <2>1. CASE x = 0
    <3>1. Below(x) = {}
      BY <1>0, <2>1
    <3>2. Cardinality(Below(x)) = 0
      BY <3>1, FS_EmptySet
    <3> HIDE DEF Below
    <3> QED BY <3>2
  <2>2. CASE x # 0
    <3>1. x - 1 \in Nat /\ x - 1 \notin Good
      BY <1>5, <1>6, <2>2
    <3>2. Below(x) = UpToX(x - 1)
      BY <1>0, <1>6
    <3>3. ~(r <= Cardinality(UpToX(x - 1)))
      BY <3>1
    <3> HIDE DEF UpToX, Below
    <3> QED BY <1>2, <3>2, <3>3
  <2> QED BY <2>1, <2>2
<1>8. x \in Range(s)
  <2>. SUFFICES ASSUME x \notin Range(s) PROVE FALSE
    OBVIOUS
  <2>1. UpToX(x) = Below(x)
    BY <1>0, <1>6 DEF Range
  <2>2. Cardinality(UpToX(x)) \in Nat
    BY <1>2
  <2> HIDE DEF UpToX, Below
  <2> QED BY <1>6, <1>7, <2>1, <2>2
<1>9. /\ Cardinality({i \in DOMAIN s : s[i] < x}) < r
      /\ r <= Cardinality({i \in DOMAIN s : s[i] <= x})
  BY <1>0, <1>6, <1>7
<1> QED BY <1>8, <1>9 DEF Ranked
-----------------------------------------------------------------------------
\* Where sample k belongs: the samples are counted from the last reset.
Place(k) == (k - 1 - resetAt) % WindowSize

TrackerType ==
    /\ samples \in [Positions -> Nat] /\ count \in Nat
    /\ recSlot \in [Recorders -> Positions \cup {-1}] /\ recValue \in [Recorders -> Nat]
    /\ recorded \in Nat /\ resetAt \in Nat /\ clearing \in SUBSET Positions
    /\ total \in Nat \cup {-1} /\ copied \in Seq(Nat) /\ result \in Nat \cup {-1}
    /\ oldest \in Int

\* Every sample counted since the last reset is under way to its place, or
\* stored there, or was overwritten by a later one.
SamplesInv ==
    /\ count = recorded - resetAt
    /\ \A p \in Positions : samples[p] <= recorded
    /\ \A t \in Recorders : recValue[t] <= recorded
    /\ ~lapped => \A k \in resetAt + 1 .. recorded :
        \/ \E t \in Recorders : recSlot[t] = Place(k) /\ recValue[t] = k
        \/ samples[Place(k)] >= k

\* While nothing disturbs the reader, the samples it counts are recent.
ReaderInv ==
    /\ total = -1 => copied = << >> /\ result = -1
    /\ total # -1 => Len(copied) <= Valid(total)
    /\ total # -1 /\ ~early /\ ~lapped =>
        /\ clearing = {}
        /\ \A i \in 0 .. Valid(total) - 1 : samples[i] >= oldest
        /\ \A j \in 1 .. Len(copied) : copied[j] \in oldest .. recorded
        /\ total > 0 /\ result # -1 => result \in oldest .. recorded

TrackerInv == TrackerType /\ SamplesInv /\ ReaderInv

\* The ring and its places.
LEMMA WindowFacts == WindowSize \in Nat /\ WindowSize >= 1 /\ Positions = 0 .. WindowSize - 1
BY TrackerAssumption DEF Positions

\* What percentile copies: the samples counted, a ring of them at most.
LEMMA ValidBounds ==
    ASSUME NEW n \in Nat
    PROVE  Valid(n) \in {n, WindowSize} /\ Valid(n) <= n /\ Valid(n) <= WindowSize
<1>1. {n, WindowSize} # {} /\ \A x \in {n, WindowSize} : x \in Nat
  BY WindowFacts
<1> QED BY <1>1, MinBounds DEF Valid

\* Every sample has its place in the ring.
LEMMA PlaceInRing == TrackerType => \A k \in Int : Place(k) \in Positions
BY WindowFacts DEF TrackerType, Place

\* The empty tracker.
LEMMA TrackerInitInv == LatencyInit => TrackerInv
<1>. SUFFICES ASSUME LatencyInit PROVE TrackerInv
  OBVIOUS
<1>1. TrackerType
  BY WindowFacts DEF LatencyInit, TrackerType
<1>2. SamplesInv
  BY WindowFacts DEF LatencyInit, SamplesInv
<1>3. ReaderInv
  BY DEF LatencyInit, ReaderInv
<1> QED BY <1>1, <1>2, <1>3 DEF TrackerInv

\* A percentile is one of the samples copied.
LEMMA PickIsCopied ==
    ASSUME TrackerType, NEW percent \in Percents, PercentilePicks(percent)
    PROVE  \E j \in 1 .. Len(copied) : result' = copied[j] /\ copied[j] \in Nat
<1>. DEFINE n == Len(copied)
            k == Rank(percent, n)
            r == Min({k, n})
<1>1. total \in Nat /\ total > 0 /\ n = Valid(total) /\ result' = Ranked(copied, r)
      /\ copied \in Seq(Nat) /\ percent \in Nat
  BY TrackerAssumption DEF TrackerType, PercentilePicks
<1>2. n \in Nat /\ n >= 1
  BY <1>1, ValidBounds, WindowFacts
<1>3. k \in Nat /\ k >= 1
  <2>1. percent * (n - 1) \in Nat
    BY <1>1, <1>2
  <2>2. \A b \in Nat : (b + 50) \div 100 \in Nat
    OBVIOUS
  <2>3. (percent * (n - 1) + 50) \div 100 \in Nat
    BY <2>1, <2>2
  <2> QED BY <2>3 DEF Rank
<1>. HIDE DEF k, n
<1>4. {k, n} # {} /\ \A x \in {k, n} : x \in Nat
  BY <1>2, <1>3
<1>5. r \in {k, n} /\ r <= n
  BY <1>4, MinBounds
<1>6. r \in 1 .. Len(copied)
  BY <1>2, <1>3, <1>5 DEF n
<1>. HIDE DEF r
<1>7. result' \in Range(copied)
  BY <1>1, <1>6, RankedIsSample
<1> QED BY <1>1, <1>7 DEF Range

\* Every step keeps the types, ...
LEMMA TrackerTypeStep == ASSUME TrackerInv, Latency PROVE TrackerType'
<1>0. TrackerType /\ \A n \in Int : Position(n) \in Positions
  BY WindowFacts DEF TrackerInv, Position
<1>1. ASSUME NEW t \in Recorders, RecordCounts(t) \/ RecordStores(t) PROVE TrackerType'
  <2>1. UNCHANGED <<resetAt, clearing, total, copied, result, oldest>>
    BY <1>1 DEF RecordCounts, RecordStores, resetVars, readVars
  <2>2. count' \in Nat /\ recorded' \in Nat
    <3>1. count \in Nat /\ recorded \in Nat
      BY <1>0 DEF TrackerType
    <3>2. (count' = count + 1 /\ recorded' = recorded + 1) \/ UNCHANGED <<count, recorded>>
      BY <1>1 DEF RecordCounts, RecordStores
    <3> QED BY <3>1, <3>2
  <2>3. recSlot' \in [Recorders -> Positions \cup {-1}] /\ recValue' \in [Recorders -> Nat]
    <3>1. PICK i \in Positions \cup {-1}, v \in Nat :
            recSlot' = [recSlot EXCEPT ![t] = i] /\ recValue' = [recValue EXCEPT ![t] = v]
      <4>1. CASE RecordCounts(t)
        <5>1. Position(count) \in Positions /\ recorded + 1 \in Nat
          BY <1>0 DEF TrackerType
        <5> QED BY <4>1, <5>1 DEF RecordCounts
      <4>2. CASE RecordStores(t)
        BY <4>2 DEF RecordStores
      <4> QED BY <1>1, <4>1, <4>2
    <3> QED BY <1>0, <3>1 DEF TrackerType
  <2>4. samples' \in [Positions -> Nat]
    BY <1>0, <1>1 DEF TrackerType, RecordCounts, RecordStores
  <2> QED BY <1>0, <2>1, <2>2, <2>3, <2>4 DEF TrackerType
<1>2. CASE ResetCount
  BY <1>0, <1>2 DEF TrackerType, ResetCount, recVars, readVars
<1>3. CASE ResetClears
  BY <1>0, <1>3 DEF TrackerType, ResetClears, recVars, readVars
<1>4. CASE PercentileCounts
  <2>1. Valid(count) \in Int
    BY <1>0, ValidBounds, WindowFacts DEF TrackerType
  <2>2. /\ total' \in Nat \cup {-1} /\ copied' \in Seq(Nat) /\ result' \in Nat \cup {-1}
        /\ oldest' \in Int
    BY <1>0, <1>4, <2>1 DEF TrackerType, PercentileCounts
  <2>3. UNCHANGED <<samples, count, recSlot, recValue, recorded, resetAt, clearing>>
    BY <1>4 DEF PercentileCounts, recVars, resetVars
  <2> QED BY <1>0, <2>2, <2>3 DEF TrackerType
<1>5. CASE PercentileCopies
  <2>1. total \in Nat /\ Len(copied) \in Nat
    BY <1>0, <1>5 DEF TrackerType, PercentileCopies
  <2>2. Len(copied) \in Positions
    BY <1>5, <2>1, ValidBounds, WindowFacts DEF PercentileCopies
  <2>3. samples[Len(copied)] \in Nat
    BY <1>0, <2>2 DEF TrackerType
  <2>4. copied' \in Seq(Nat)
    BY <1>0, <1>5, <2>3 DEF TrackerType, PercentileCopies
  <2>5. UNCHANGED <<samples, count, recSlot, recValue, recorded, resetAt, clearing, total,
                    result, oldest>>
    BY <1>5 DEF PercentileCopies, recVars, resetVars
  <2> QED BY <1>0, <2>4, <2>5 DEF TrackerType
<1>6. CASE PercentileReturns
  BY <1>0, <1>6 DEF TrackerType, PercentileReturns, recVars, resetVars
<1>7. ASSUME NEW percent \in Percents, PercentilePicks(percent) PROVE TrackerType'
  <2>1. result' \in Nat
    BY <1>0, <1>7, PickIsCopied
  <2> QED BY <1>0, <1>7, <2>1 DEF TrackerType, PercentilePicks, recVars, resetVars
<1> QED BY <1>1, <1>2, <1>3, <1>4, <1>5, <1>6, <1>7 DEF Latency

\* ... the account of where each sample is ...
LEMMA SamplesStep == ASSUME TrackerInv, TrackerType', Latency PROVE SamplesInv'
<1>0. TrackerType /\ SamplesInv /\ \A k \in Int : Place(k) \in Positions
  BY PlaceInRing DEF TrackerInv
<1>a. /\ count \in Nat /\ recorded \in Nat /\ resetAt \in Nat /\ count = recorded - resetAt
      /\ samples \in [Positions -> Nat] /\ \A p \in Positions : samples[p] <= recorded
      /\ recValue \in [Recorders -> Nat] /\ \A u \in Recorders : recValue[u] <= recorded
  BY <1>0 DEF TrackerType, SamplesInv
<1>1. ASSUME NEW t \in Recorders, RecordCounts(t) PROVE SamplesInv'
  <2>1. /\ recSlot[t] = -1 /\ recorded' = recorded + 1 /\ count' = count + 1
        /\ recSlot' = [recSlot EXCEPT ![t] = Position(count)]
        /\ recValue' = [recValue EXCEPT ![t] = recorded + 1]
        /\ UNCHANGED <<samples, resetAt, lapped>>
    BY <1>1 DEF RecordCounts, resetVars
  <2>2. count' = recorded' - resetAt' /\ \A p \in Positions : samples'[p] <= recorded'
    <3>1. count' = recorded' - resetAt'
      BY <1>a, <2>1
    <3>2. \A p \in Positions : samples[p] <= recorded + 1
      BY <1>a
    <3> QED BY <2>1, <3>1, <3>2
  <2>3. \A u \in Recorders : recValue'[u] <= recorded'
    BY <1>a, <2>1
  <2>4. ASSUME ~lapped', NEW k \in resetAt' + 1 .. recorded'
        PROVE  \/ \E u \in Recorders : recSlot'[u] = Place(k)' /\ recValue'[u] = k
               \/ samples'[Place(k)'] >= k
    <3>0. Place(k)' = Place(k) /\ ~lapped
      BY <2>1, <2>4 DEF Place
    <3>1. CASE k = recorded + 1
      <4>1. Position(count) = Place(k)
        <5>1. count = k - 1 - resetAt
          BY <1>0, <3>1 DEF SamplesInv, TrackerType
        <5> QED BY <5>1 DEF Position, Place
      <4>2. recSlot'[t] = Place(k) /\ recValue'[t] = k
        BY <1>0, <2>1, <3>1, <4>1 DEF TrackerType
      <4> QED BY <3>0, <4>2
    <3>2. CASE k # recorded + 1
      <4>1. k \in resetAt + 1 .. recorded /\ Place(k) # -1
        BY <1>0, <2>1, <3>2, WindowFacts DEF TrackerType
      <4>2. CASE samples[Place(k)] >= k
        BY <2>1, <3>0, <4>2
      <4>3. CASE \E u \in Recorders : recSlot[u] = Place(k) /\ recValue[u] = k
        <5>1. PICK u \in Recorders : recSlot[u] = Place(k) /\ recValue[u] = k
          BY <4>3
        <5>2. recSlot'[u] = Place(k) /\ recValue'[u] = k
          BY <1>0, <2>1, <4>1, <5>1 DEF TrackerType
        <5> QED BY <3>0, <5>2
      <4> QED BY <1>0, <3>0, <4>1, <4>2, <4>3 DEF SamplesInv
    <3> QED BY <3>1, <3>2
  <2> QED BY <2>2, <2>3, <2>4 DEF SamplesInv
<1>2. ASSUME NEW t \in Recorders, RecordStores(t) PROVE SamplesInv'
  <2>1. /\ recSlot[t] # -1 /\ samples' = [samples EXCEPT ![recSlot[t]] = recValue[t]]
        /\ ~lapped' => ~lapped /\ ~(samples[recSlot[t]] > recValue[t])
        /\ recSlot' = [recSlot EXCEPT ![t] = -1] /\ recValue' = [recValue EXCEPT ![t] = 0]
        /\ UNCHANGED <<count, recorded, resetAt>>
    BY <1>2 DEF RecordStores, resetVars
  <2>2. recSlot[t] \in Positions /\ recValue[t] \in Nat /\ recValue[t] <= recorded
    BY <1>0, <2>1 DEF TrackerType, SamplesInv
  <2>3. /\ count' = recorded' - resetAt' /\ \A p \in Positions : samples'[p] <= recorded'
        /\ \A u \in Recorders : recValue'[u] <= recorded'
    <3>1. \A p \in Positions : samples'[p] <= recorded
      BY <1>a, <2>1, <2>2
    <3>2. \A u \in Recorders : recValue'[u] <= recorded
      BY <1>a, <2>1
    <3> QED BY <1>a, <2>1, <3>1, <3>2
  <2>4. ASSUME ~lapped', NEW k \in resetAt' + 1 .. recorded'
        PROVE  \/ \E u \in Recorders : recSlot'[u] = Place(k)' /\ recValue'[u] = k
               \/ samples'[Place(k)'] >= k
    <3>0. Place(k)' = Place(k) /\ ~lapped /\ k \in resetAt + 1 .. recorded
           /\ ~(samples[recSlot[t]] > recValue[t])
      BY <2>1, <2>4 DEF Place
    <3>1. CASE samples[Place(k)] >= k
      <4>0. Place(k) \in Positions
        BY <1>0, <1>a, <3>0
      <4>1. samples'[Place(k)] >= samples[Place(k)]
        BY <1>a, <2>1, <2>2, <3>0, <4>0
      <4>2. samples'[Place(k)] \in Int /\ samples[Place(k)] \in Int
        BY <1>a, <2>1, <2>2, <4>0
      <4> QED BY <3>0, <3>1, <4>1, <4>2
    <3>2. CASE \E u \in Recorders : recSlot[u] = Place(k) /\ recValue[u] = k
      <4>1. PICK u \in Recorders : recSlot[u] = Place(k) /\ recValue[u] = k
        BY <3>2
      <4>2. CASE u = t
        <5>1. samples'[Place(k)] = k
          BY <1>0, <2>1, <2>2, <4>1, <4>2 DEF TrackerType
        <5> QED BY <3>0, <5>1
      <4>3. CASE u # t
        BY <1>0, <2>1, <3>0, <4>1, <4>3 DEF TrackerType
      <4> QED BY <4>2, <4>3
    <3> QED BY <1>0, <3>0, <3>1, <3>2 DEF SamplesInv
  <2> QED BY <2>3, <2>4 DEF SamplesInv
<1>3. CASE ResetCount
  <2>1. count' = 0 /\ resetAt' = recorded /\ UNCHANGED <<samples, recSlot, recValue, recorded>>
    BY <1>3 DEF ResetCount, recVars
  <2>2. resetAt' + 1 .. recorded' = {} /\ count' = recorded' - resetAt'
    BY <1>0, <2>1 DEF TrackerType
  <2> QED BY <1>0, <2>1, <2>2 DEF SamplesInv
<1>4. CASE ResetClears
  <2>. DEFINE m == Min(clearing)
  <2>1. m \in Positions
    <3>1. clearing # {} /\ \A p \in clearing : p \in Nat /\ p \in Positions
      <4>1. clearing # {} /\ clearing \in SUBSET Positions
        BY <1>0, <1>4 DEF ResetClears, TrackerType
      <4>2. \A p \in Positions : p \in Nat
        BY WindowFacts
      <4> QED BY <4>1, <4>2
    <3> QED BY <3>1, MinBounds
  <2>2. /\ samples' = [samples EXCEPT ![m] = 0]
        /\ ~lapped' => ~lapped /\ ~(samples[m] > resetAt)
        /\ UNCHANGED <<count, recSlot, recValue, recorded, resetAt>>
    BY <1>4 DEF ResetClears, recVars
  <2>. HIDE DEF m
  <2>3. /\ count' = recorded' - resetAt' /\ \A p \in Positions : samples'[p] <= recorded'
        /\ \A u \in Recorders : recValue'[u] <= recorded'
    <3>1. \A p \in Positions : samples'[p] <= recorded
      BY <1>a, <2>1, <2>2
    <3> QED BY <1>a, <2>2, <3>1
  <2>4. ASSUME ~lapped', NEW k \in resetAt' + 1 .. recorded'
        PROVE  \/ \E u \in Recorders : recSlot'[u] = Place(k)' /\ recValue'[u] = k
               \/ samples'[Place(k)'] >= k
    <3>0. Place(k)' = Place(k) /\ ~lapped /\ k \in resetAt + 1 .. recorded
           /\ ~(samples[m] > resetAt)
      BY <2>2, <2>4 DEF Place
    <3>1. CASE samples[Place(k)] >= k
      <4>1. Place(k) # m
        BY <1>0, <2>1, <3>0, <3>1 DEF TrackerType
      <4> QED BY <1>0, <2>1, <2>2, <3>0, <3>1, <4>1 DEF TrackerType
    <3>2. CASE \E u \in Recorders : recSlot[u] = Place(k) /\ recValue[u] = k
      BY <2>2, <3>0, <3>2
    <3> QED BY <1>0, <3>0, <3>1, <3>2 DEF SamplesInv
  <2> QED BY <2>3, <2>4 DEF SamplesInv
<1>5. ASSUME \/ PercentileCounts \/ PercentileCopies \/ PercentileReturns
             \/ \E percent \in Percents : PercentilePicks(percent)
      PROVE  SamplesInv'
  <2>1. UNCHANGED <<samples, count, recSlot, recValue, recorded, resetAt, lapped>>
    BY <1>5 DEF PercentileCounts, PercentileCopies, PercentileReturns, PercentilePicks,
                recVars, resetVars
  <2> QED BY <1>0, <2>1 DEF SamplesInv, Place
<1> QED BY <1>1, <1>2, <1>3, <1>4, <1>5 DEF Latency

\* Nothing under way: the ring holds exactly the last samples.
LEMMA QuietRing ==
    ASSUME TrackerInv, ~lapped, \A t \in Recorders : recSlot[t] = -1
    PROVE  \A i \in 0 .. Valid(count) - 1 : samples[i] >= recorded - Valid(count) + 1
<1>0. TrackerType /\ SamplesInv
  BY DEF TrackerInv
<1>1. /\ count \in Nat /\ recorded \in Nat /\ resetAt \in Nat /\ count = recorded - resetAt
      /\ Valid(count) \in {count, WindowSize} /\ Valid(count) <= count
      /\ Valid(count) <= WindowSize /\ WindowSize \in Nat \ {0}
  BY <1>0, ValidBounds, WindowFacts DEF TrackerType, SamplesInv
<1>. SUFFICES ASSUME NEW i \in 0 .. Valid(count) - 1
              PROVE  samples[i] >= recorded - Valid(count) + 1
  OBVIOUS
<1>2. count - 1 \in Nat /\ i \in 0 .. WindowSize - 1 /\ i <= count - 1
  BY <1>1
<1>3. PICK j \in 0 .. count - 1 : count - 1 - WindowSize < j /\ j % WindowSize = i
  BY <1>1, <1>2, LastRound
<1>. DEFINE k == resetAt + 1 + j
<1>4. k \in resetAt + 1 .. recorded /\ k - 1 - resetAt = j /\ k >= recorded - Valid(count) + 1
  BY <1>1, <1>3
<1>5. Place(k) = i
  BY <1>3, <1>4 DEF Place
<1>6. i \in Positions /\ i # -1
  BY <1>2, WindowFacts
<1>. HIDE DEF k
<1>7. samples[i] >= k
  BY <1>0, <1>4, <1>5, <1>6 DEF SamplesInv
<1>8. samples[i] \in Int
  BY <1>0, <1>6 DEF TrackerType
<1> QED BY <1>1, <1>4, <1>7, <1>8

\* ... and what the reader may rely on.
LEMMA ReaderStep == ASSUME TrackerInv, TrackerType', Latency PROVE ReaderInv'
<1>0. TrackerType /\ SamplesInv /\ ReaderInv
  BY DEF TrackerInv
<1>a. total # -1 => /\ Valid(total) \in Nat /\ Valid(total) <= WindowSize
                    /\ \A i \in 0 .. Valid(total) - 1 : i \in Positions
  <2>. SUFFICES ASSUME total # -1 PROVE /\ Valid(total) \in Nat /\ Valid(total) <= WindowSize
                                        /\ \A i \in 0 .. Valid(total) - 1 : i \in Positions
    OBVIOUS
  <2>1. total \in Nat
    BY <1>0 DEF TrackerType
  <2>2. Valid(total) \in Nat /\ Valid(total) <= WindowSize
    BY <2>1, ValidBounds, WindowFacts
  <2> QED BY <2>2, WindowFacts
<1>1. ASSUME NEW t \in Recorders, RecordCounts(t) PROVE ReaderInv'
  <2>1. recorded' = recorded + 1
        /\ UNCHANGED <<samples, clearing, total, copied, result, oldest, early, lapped>>
    BY <1>1 DEF RecordCounts, resetVars, readVars
  <2> QED BY <1>0, <2>1 DEF ReaderInv, TrackerType
<1>2. ASSUME NEW t \in Recorders, RecordStores(t) PROVE ReaderInv'
  <2>1. /\ recSlot[t] # -1 /\ samples' = [samples EXCEPT ![recSlot[t]] = recValue[t]]
        /\ ~lapped' => ~lapped /\ ~(samples[recSlot[t]] > recValue[t])
        /\ UNCHANGED <<recorded, clearing, total, copied, result, oldest, early>>
    BY <1>2 DEF RecordStores, resetVars, readVars
  <2>2. recSlot[t] \in Positions /\ recValue[t] \in Nat
    BY <1>0, <2>1 DEF TrackerType
  <2>3. ASSUME total # -1, ~early, ~lapped'
        PROVE  \A i \in 0 .. Valid(total) - 1 : samples'[i] >= oldest
    <3>. TAKE i \in 0 .. Valid(total) - 1
    <3>1. i \in Positions /\ samples[i] >= oldest
      BY <1>0, <1>a, <2>1, <2>3 DEF ReaderInv
    <3>2. samples'[i] >= samples[i] /\ samples'[i] \in Int /\ samples[i] \in Int
      BY <1>0, <2>1, <2>2, <2>3, <3>1 DEF TrackerType
    <3>3. oldest \in Int
      BY <1>0 DEF TrackerType
    <3> QED BY <3>1, <3>2, <3>3
  <2> QED BY <1>0, <2>1, <2>3 DEF ReaderInv
<1>3. CASE ResetCount
  BY <1>0, <1>3 DEF ReaderInv, ResetCount, readVars
<1>4. CASE ResetClears
  BY <1>0, <1>4 DEF ReaderInv, ResetClears, readVars
<1>5. CASE PercentileCounts
  <2>1. /\ total' = count /\ copied' = << >> /\ result' = (IF count = 0 THEN 0 ELSE -1)
        /\ oldest' = recorded - Valid(count) + 1
        /\ early' = (clearing # {} \/ \E t \in Recorders : recSlot[t] # -1)
        /\ UNCHANGED <<samples, recorded, clearing, lapped>>
    BY <1>5 DEF PercentileCounts, recVars, resetVars
  <2>2. count \in Nat /\ Valid(count) \in Nat
    BY <1>0, ValidBounds, WindowFacts DEF TrackerType
  <2>3. total' # -1 => Len(copied') <= Valid(total')
    BY <2>1, <2>2
  <2>4. ASSUME ~early', ~lapped'
        PROVE  /\ clearing' = {}
               /\ \A i \in 0 .. Valid(total') - 1 : samples'[i] >= oldest'
    <3>1. clearing = {} /\ ~lapped /\ \A t \in Recorders : recSlot[t] = -1
      BY <2>1, <2>4
    <3> QED BY <2>1, <3>1, QuietRing
  <2>5. 1 .. Len(copied') = {} /\ ~(total' > 0 /\ result' # -1) /\ total' # -1
    BY <2>1, <2>2
  <2> QED BY <2>3, <2>4, <2>5 DEF ReaderInv
<1>6. CASE PercentileCopies
  <2>1. /\ total # -1 /\ Len(copied) < Valid(total)
        /\ copied' = Append(copied, samples[Len(copied)])
        /\ UNCHANGED <<samples, recorded, clearing, total, result, oldest, early, lapped>>
    BY <1>6 DEF PercentileCopies, recVars, resetVars
  <2>2. Len(copied) \in Nat /\ copied \in Seq(Nat) /\ Len(copied) \in 0 .. Valid(total) - 1
    BY <1>0, <1>a, <2>1 DEF TrackerType
  <2>3. samples[Len(copied)] \in Nat /\ samples[Len(copied)] <= recorded
    BY <1>0, <1>a, <2>1, <2>2 DEF TrackerType, SamplesInv
  <2>4. /\ Len(copied') = Len(copied) + 1 /\ copied'[Len(copied) + 1] = samples[Len(copied)]
        /\ \A j \in 1 .. Len(copied) : copied'[j] = copied[j]
    BY <2>1, <2>2, <2>3
  <2>5. Len(copied') <= Valid(total')
    BY <1>a, <2>1, <2>2, <2>4
  <2>6. ASSUME ~early, ~lapped
        PROVE  \A j \in 1 .. Len(copied') : copied'[j] \in oldest .. recorded
    <3>1. samples[Len(copied)] >= oldest
      BY <1>0, <2>1, <2>2, <2>6 DEF ReaderInv
    <3>2. samples[Len(copied)] \in oldest .. recorded
      BY <1>0, <2>3, <3>1 DEF TrackerType
    <3>3. \A j \in 1 .. Len(copied) : copied[j] \in oldest .. recorded
      BY <1>0, <2>1, <2>6 DEF ReaderInv
    <3>4. \A j \in 1 .. Len(copied') : j \in 1 .. Len(copied) \/ j = Len(copied) + 1
      BY <2>2, <2>4
    <3> QED BY <2>4, <3>2, <3>3, <3>4
  <2> QED BY <1>0, <2>1, <2>5, <2>6 DEF ReaderInv
<1>7. CASE PercentileReturns
  BY <1>7 DEF ReaderInv, PercentileReturns
<1>8. ASSUME NEW percent \in Percents, PercentilePicks(percent) PROVE ReaderInv'
  <2>1. /\ total > 0 /\ result = -1
        /\ UNCHANGED <<samples, recorded, clearing, total, copied, oldest, early, lapped>>
    BY <1>8 DEF PercentilePicks, recVars, resetVars
  <2>2. PICK j \in 1 .. Len(copied) : result' = copied[j]
    BY <1>0, <1>8, PickIsCopied
  <2>3. total # -1
    BY <2>1
  <2> QED BY <1>0, <2>1, <2>2, <2>3 DEF ReaderInv
<1> QED BY <1>1, <1>2, <1>3, <1>4, <1>5, <1>6, <1>7, <1>8 DEF Latency

\* No step of a recorder, of reset or of a reader breaks the invariant.
LEMMA TrackerStep ==
    ASSUME TrackerInv, Latency \/ UNCHANGED latencyVars PROVE TrackerInv'
<1>1. CASE Latency
  BY <1>1, TrackerTypeStep, SamplesStep, ReaderStep DEF TrackerInv
<1>2. CASE UNCHANGED latencyVars
  <2>1. UNCHANGED <<samples, count, recSlot, recValue, recorded, resetAt, clearing, total,
                    copied, result, oldest, early, lapped>>
    BY <1>2 DEF latencyVars, recVars, resetVars, readVars
  <2> QED BY <2>1 DEF TrackerInv, TrackerType, SamplesInv, ReaderInv, Place
<1> QED BY <1>1, <1>2

\* "Keeps the last N samples" (latency_tracker.hpp): for every ring size and any
\* number of recording threads, the value a percentile returns was recorded and is
\* one of the last WindowSize when the count was loaded, or newer, except in the
\* windows that the code leaves open.
THEOREM PercentilesAreRecent == MonitorSpec => []PercentileIsRecent
<1>1. MonitorInit => TrackerInv
  BY TrackerInitInv DEF MonitorInit
<1>2. TrackerInv /\ [MonitorNext]_monitorVars => TrackerInv'
  BY TrackerStep DEF MonitorNext, monitorVars
<1>3. TrackerInv => PercentileIsRecent
  BY DEF TrackerInv, TrackerType, ReaderInv, PercentileIsRecent
<1> QED BY <1>1, <1>2, <1>3, PTL DEF MonitorSpec

-----------------------------------------------------------------------------
(* Histogram                                                               *)

-----------------------------------------------------------------------------
Levels == 0 .. Count
At(lvl, v) == {t \in Observers : obsStep[t] > lvl /\ obsValue[t] = v}
Passed(lvl) == [v \in Observables |-> ended[v] + Cardinality(At(lvl, v))]

HistogramType ==
    /\ buckets \in [DOMAIN Boundaries -> Int] /\ sum \in Int /\ hits \in Int
    /\ obsStep \in [Observers -> Levels] /\ obsValue \in [Observers -> Nat]
    /\ \A t \in Observers : obsStep[t] # Idle => obsValue[t] \in Observables
    /\ begun \in [Observables -> Nat] /\ ended \in [Observables -> Nat]
    /\ base \in [Observables -> Nat]

ObservedInv ==
    /\ begun = Passed(0)
    /\ \A b \in DOMAIN Boundaries : buckets[b] = CallsWith(Passed(b), UpTo(Boundaries[b]))
    /\ sum = TotalOf(Passed(Sum))
    /\ hits = CallsWith(Passed(Count), Observables)

Loaded == IF scStep = Text THEN Len(Boundaries) ELSE IF scStep \in {Idle, Sum} THEN 0 ELSE scStep - 1

ScrapedInv ==
    /\ scraped = [count |-> scraped.count, sum |-> scraped.sum, buckets |-> scraped.buckets]
    /\ scStep \in {Text, Idle, Sum} \cup DOMAIN Boundaries
    /\ scraped.buckets \in Seq(Int) /\ Len(scraped.buckets) = Loaded
    /\ \A v \in Observables : base[v] <= ended[v]
    /\ scStep # Idle =>
        scraped.count \in CallsWith(base, Observables) .. CallsWith(begun, Observables)
    /\ scStep \notin {Idle, Sum} => scraped.sum \in TotalOf(base) .. TotalOf(begun)
    /\ \A b \in 1 .. Loaded :
        scraped.buckets[b] \in CallsWith(base, UpTo(Boundaries[b])) ..
                               CallsWith(begun, UpTo(Boundaries[b]))

HistogramInv == HistogramType /\ ObservedInv /\ ScrapedInv

Counts == [Observables -> Nat]

\* The boundaries and the steps of a call, which number the fields it updates.
LEMMA LevelFacts ==
    /\ Len(Boundaries) \in Nat /\ DOMAIN Boundaries = 1 .. Len(Boundaries)
    /\ Sum = Len(Boundaries) + 1 /\ Count = Len(Boundaries) + 2 /\ Idle = 0 /\ Text = -1
    /\ \A b \in DOMAIN Boundaries : Boundaries[b] \in Nat
BY HistogramAssumption DEF Sum, Count, Idle, Text

\* The sets of values the numbers are taken over.
LEMMA SetsFinite ==
    /\ IsFiniteSet(Observables) /\ \A x : IsFiniteSet(UpTo(x)) /\ UpTo(x) \subseteq Observables
BY HistogramAssumption, FS_Subset DEF UpTo

\* Calls are counted by a sum.
LEMMA CallsAreSums == ASSUME NEW c, NEW s PROVE CallsWith(c, s) = SumOver(c, s)
BY DEF CallsWith, SumOver

\* One more call with a value.
LEMMA OneMore ==
    ASSUME NEW c, c \in Counts, NEW v, v \in Observables, NEW s, s \subseteq Observables
    PROVE  CallsWith([c EXCEPT ![v] = @ + 1], s) =
             CallsWith(c, s) + IF v \in s THEN 1 ELSE 0
<1>. DEFINE k == [c EXCEPT ![v] = @ + 1]
<1>1. IsFiniteSet(s) /\ \A x \in s : c[x] \in Int /\ k[x] \in Int
  BY SetsFinite, FS_Subset DEF Counts
<1>2. /\ k[v] = c[v] + 1 /\ c[v] \in Int
      /\ \A x \in s : x # v => k[x] = c[x]
  BY DEF Counts
<1>3. SumOver(c, s) \in Int
  BY <1>1, SumInt
<1>. HIDE DEF k
<1>4. CASE v \in s
  <2>1. SumOver(k, s) = SumOver(c, s) - c[v] + k[v]
    <3>1. ChangedAt(c, k, v, s)
      BY <1>1, <1>2, <1>4 DEF ChangedAt
    <3> QED BY <3>1, SumChanged
  <2> QED BY <1>2, <1>3, <1>4, <2>1, CallsAreSums DEF k
<1>5. CASE v \notin s
  <2>1. SumOver(k, s) = SumOver(c, s)
    BY <1>1, <1>2, <1>5, SumEqual
  <2> QED BY <1>3, <1>5, <2>1, CallsAreSums DEF k
<1> QED BY <1>4, <1>5

\* ... and their total by its value.
LEMMA OneMoreTotal ==
    ASSUME NEW c, c \in Counts, NEW v, v \in Observables
    PROVE  TotalOf([c EXCEPT ![v] = @ + 1]) = TotalOf(c) + v
<1>. DEFINE d == [c EXCEPT ![v] = @ + 1]
            g == [x \in Observables |-> x * c[x]]
            k == [x \in Observables |-> x * d[x]]
<1>0. v \in Nat /\ Observables \subseteq Nat /\ IsFiniteSet(Observables)
  BY HistogramAssumption
<1>1. /\ \A x \in Observables : g[x] = x * c[x] /\ k[x] = x * d[x]
      /\ \A x \in Observables : c[x] \in Nat /\ x \in Nat /\ (x # v => d[x] = c[x])
      /\ d[v] = c[v] + 1
  BY <1>0 DEF Counts
<1>. HIDE DEF d
<1>. HIDE DEF g, k
<1>2. \A x \in Observables : x # v => k[x] = g[x]
  BY <1>1
<1>3. v * c[v] \in Nat /\ v * (c[v] + 1) = v * c[v] + v
  BY <1>0, <1>1, TimesNext
<1>4. k[v] = g[v] + v /\ g[v] \in Nat
  BY <1>1, <1>3
<1>5. \A x \in Observables : g[x] \in Int /\ k[x] \in Int
  <2>. TAKE x \in Observables
  <2>1. g[x] \in Int
    BY <1>1, TimesNext
  <2> QED BY <2>1, <1>0, <1>2, <1>4
<1>6. SumOver(k, Observables) = SumOver(g, Observables) - g[v] + k[v]
  <2>1. ChangedAt(g, k, v, Observables)
    BY <1>0, <1>2, <1>5 DEF ChangedAt
  <2> QED BY <2>1, SumChanged
<1>7. SumOver(g, Observables) \in Int
  BY <1>0, <1>5, SumInt
<1>8. TotalOf(c) = SumOver(g, Observables) /\ TotalOf(d) = SumOver(k, Observables)
  BY CallsAreSums DEF TotalOf, g, k
<1> QED BY <1>0, <1>4, <1>6, <1>7, <1>8 DEF d

\* More calls of every value make more calls and a greater total.
LEMMA CountsMonotone ==
    ASSUME NEW c \in Counts, NEW d \in Counts, \A v \in Observables : c[v] <= d[v]
    PROVE  /\ \A s \in SUBSET Observables :
                /\ CallsWith(c, s) \in Int /\ CallsWith(d, s) \in Int
                /\ CallsWith(c, s) <= CallsWith(d, s)
           /\ TotalOf(c) \in Int /\ TotalOf(d) \in Int /\ TotalOf(c) <= TotalOf(d)
<1>1. ASSUME NEW s \in SUBSET Observables
      PROVE  /\ CallsWith(c, s) \in Int /\ CallsWith(d, s) \in Int
             /\ CallsWith(c, s) <= CallsWith(d, s)
  <2>1. IsFiniteSet(s) /\ \A x \in s : c[x] \in Int /\ d[x] \in Int /\ c[x] <= d[x]
    BY SetsFinite, FS_Subset DEF Counts
  <2>2. SumOver(c, s) \in Int /\ SumOver(d, s) \in Int
    BY <2>1, SumInt
  <2>3. SumOver(c, s) <= SumOver(d, s)
    BY <2>1, SumMonotone
  <2> QED BY <2>2, <2>3, CallsAreSums
<1>. DEFINE g == [x \in Observables |-> x * c[x]]
            k == [x \in Observables |-> x * d[x]]
<1>2. \A x \in Observables : g[x] \in Int /\ k[x] \in Int /\ g[x] <= k[x]
  <2>. TAKE x \in Observables
  <2>1. x \in Nat /\ c[x] \in Nat /\ d[x] \in Nat /\ c[x] <= d[x]
    BY HistogramAssumption DEF Counts
  <2>2. x * c[x] \in Nat /\ x * d[x] \in Nat /\ x * c[x] <= x * d[x]
    BY <2>1, TimesNext, TimesLess
  <2> QED BY <2>2
<1>. HIDE DEF g, k
<1>3. SumOver(g, Observables) \in Int /\ SumOver(k, Observables) \in Int
      /\ SumOver(g, Observables) <= SumOver(k, Observables)
  BY <1>2, SetsFinite, SumInt, SumMonotone
<1>4. TotalOf(c) = SumOver(g, Observables) /\ TotalOf(d) = SumOver(k, Observables)
  BY CallsAreSums DEF TotalOf, g, k
<1> QED BY <1>1, <1>3, <1>4

-----------------------------------------------------------------------------
\* The observers past a level, with a value, are finitely many.
LEMMA AtFinite == \A lvl, v : IsFiniteSet(At(lvl, v)) /\ Cardinality(At(lvl, v)) \in Nat
BY HistogramAssumption, FS_Subset, FS_CardinalityType DEF At

\* The calls past a field are counted per value.
LEMMA PassedType ==
    ASSUME HistogramType, NEW lvl
    PROVE  /\ Passed(lvl) \in Counts
           /\ \A v \in Observables : Passed(lvl)[v] = ended[v] + Cardinality(At(lvl, v))
BY AtFinite DEF Passed, Counts, HistogramType

\* What has passed a level began and includes what returned.
LEMMA PassedBetween ==
    ASSUME HistogramType, NEW l \in Levels, NEW m \in Levels, l <= m, NEW v \in Observables
    PROVE  ended[v] <= Passed(m)[v] /\ Passed(m)[v] <= Passed(l)[v]
<1>1. At(m, v) \subseteq At(l, v)
  BY LevelFacts DEF At, HistogramType, Levels
<1>2. Cardinality(At(m, v)) <= Cardinality(At(l, v))
  BY <1>1, AtFinite, FS_Subset
<1>3. ended[v] \in Nat
  BY DEF HistogramType
<1> QED BY <1>2, <1>3, AtFinite, PassedType

\* An observer goes from one level to the next.
LEMMA LevelUp ==
    ASSUME HistogramType, NEW t \in Observers, NEW l \in Levels, l # Count,
           obsStep[t] = l, NEW w \in Observables, obsValue'[t] = w, l # 0 => obsValue[t] = w,
           \A u \in Observers : u # t => obsStep'[u] = obsStep[u] /\ obsValue'[u] = obsValue[u],
           obsStep'[t] = l + 1, ended' = ended
    PROVE  /\ Passed(l)' = [Passed(l) EXCEPT ![w] = @ + 1]
           /\ \A m \in Levels : m # l => Passed(m)' = Passed(m)
<1>1. At(l, w)' = At(l, w) \cup {t} /\ t \notin At(l, w)
  BY LevelFacts DEF At, HistogramType, Levels
<1>2. Cardinality(At(l, w)') = Cardinality(At(l, w)) + 1
  <2>. DEFINE A == At(l, w)
              B == At(l, w)'
  <2>1. IsFiniteSet(A) /\ B = A \cup {t} /\ t \notin A
    BY <1>1, AtFinite
  <2> HIDE DEF A, B
  <2>2. Cardinality(B) = Cardinality(A) + 1
    BY <2>1, FS_AddElement
  <2> QED BY <2>2 DEF A, B
<1>3. ASSUME NEW v, v # w PROVE At(l, v)' = At(l, v)
  <2>1. ~(obsStep[t] > l) /\ obsValue'[t] # v
    BY <1>3, LevelFacts DEF Levels
  <2>2. \A u \in Observers : obsStep'[u] > l /\ obsValue'[u] = v <=> obsStep[u] > l /\ obsValue[u] = v
    BY <2>1
  <2> QED BY <2>2 DEF At
<1>4. \A m \in Levels : m # l => \A v : At(m, v)' = At(m, v)
  BY LevelFacts DEF At, HistogramType, Levels
<1>5. Passed(l)' = [Passed(l) EXCEPT ![w] = @ + 1]
  <2>1. Passed(l)' = [v \in Observables |-> ended[v] + Cardinality(At(l, v)')]
    BY DEF Passed
  <2>2. /\ Passed(l) = [v \in Observables |-> ended[v] + Cardinality(At(l, v))]
        /\ ended[w] \in Nat /\ Cardinality(At(l, w)) \in Nat
    BY AtFinite DEF Passed, HistogramType
  <2>3. ended[w] + Cardinality(At(l, w)') = (ended[w] + Cardinality(At(l, w))) + 1
    BY <1>2, <2>2
  <2> QED BY <1>3, <2>1, <2>2, <2>3
<1>6. ASSUME NEW m \in Levels, m # l PROVE Passed(m)' = Passed(m)
  BY <1>4, <1>6 DEF Passed
<1> QED BY <1>5, <1>6

\* Every number counts what has passed the level at which it is written.
LEMMA ObserveLevel ==
    ASSUME HistogramType, ObservedInv, NEW t \in Observers, NEW v \in Observables, Observe(t, v)
    PROVE  ObservedInv' /\ \A x \in Observables : begun[x] <= begun'[x]
<1>1. /\ Passed(0)' = [Passed(0) EXCEPT ![v] = @ + 1]
      /\ \A m \in Levels : m # 0 => Passed(m)' = Passed(m)
  BY LevelUp, LevelFacts DEF Observe, HistogramType, Levels
<1>2. UNCHANGED <<buckets, sum, hits>> /\ begun' = [begun EXCEPT ![v] = @ + 1]
  BY DEF Observe
<1>3. DOMAIN Boundaries \subseteq Levels \ {0} /\ Sum \in Levels \ {0} /\ Count \in Levels \ {0}
  BY LevelFacts DEF Levels
<1>4. begun' = Passed(0)'
  BY <1>1, <1>2 DEF ObservedInv
<1>5. \A b \in DOMAIN Boundaries : buckets'[b] = CallsWith(Passed(b)', UpTo(Boundaries[b]))
  BY <1>1, <1>2, <1>3 DEF ObservedInv
<1>6. sum' = TotalOf(Passed(Sum)') /\ hits' = CallsWith(Passed(Count)', Observables)
  BY <1>1, <1>2, <1>3 DEF ObservedInv
<1>7. \A x \in Observables : begun[x] <= begun'[x]
  BY <1>2 DEF HistogramType
<1> QED BY <1>4, <1>5, <1>6, <1>7 DEF ObservedInv

\* A bucket is incremented by the calls that pass it, ...
LEMMA ObserveBucketLevel ==
    ASSUME HistogramType, ObservedInv, NEW t \in Observers, ObserveBucket(t)
    PROVE  ObservedInv' /\ begun' = begun
<1>a. PICK l \in Levels : obsStep[t] = l
  BY DEF HistogramType
<1>b. PICK w \in Observables : obsValue[t] = w
  BY LevelFacts DEF ObserveBucket, HistogramType
<1>0. l \in DOMAIN Boundaries /\ l # 0 /\ l # Count
  BY <1>a, LevelFacts DEF ObserveBucket
<1>1. /\ Passed(l)' = [Passed(l) EXCEPT ![w] = @ + 1]
      /\ \A m \in Levels : m # l => Passed(m)' = Passed(m)
  <2>1. obsStep' = [obsStep EXCEPT ![t] = @ + 1] /\ obsValue' = obsValue /\ ended' = ended
    BY DEF ObserveBucket
  <2>2. /\ \A u \in Observers : u # t => obsStep'[u] = obsStep[u] /\ obsValue'[u] = obsValue[u]
        /\ obsStep'[t] = l + 1 /\ obsValue'[t] = w
    BY <1>a, <1>b, <2>1 DEF HistogramType
  <2> QED BY <1>0, <1>a, <1>b, <2>1, <2>2, LevelUp
<1>2. /\ UNCHANGED <<sum, hits, begun>>
      /\ buckets' = IF w <= Boundaries[l] THEN [buckets EXCEPT ![l] = @ + 1] ELSE buckets
  BY <1>a, <1>b DEF ObserveBucket, FallsInside
<1>3. DOMAIN Boundaries \subseteq Levels \ {0} /\ 0 \in Levels
      /\ Sum \in Levels \ DOMAIN Boundaries /\ Count \in Levels \ DOMAIN Boundaries
  BY LevelFacts DEF Levels
<1>4. begun' = Passed(0)'
  BY <1>0, <1>1, <1>2, <1>3 DEF ObservedInv
<1>5. ASSUME NEW b \in DOMAIN Boundaries
      PROVE  buckets'[b] = CallsWith(Passed(b)', UpTo(Boundaries[b]))
  <2>1. CASE b # l
    BY <1>1, <1>2, <1>3, <2>1 DEF ObservedInv, HistogramType
  <2>2. CASE b = l
    <3>1. CallsWith(Passed(l)', UpTo(Boundaries[l])) =
            CallsWith(Passed(l), UpTo(Boundaries[l])) + IF w \in UpTo(Boundaries[l]) THEN 1 ELSE 0
      <4>1. Passed(l) \in Counts /\ UpTo(Boundaries[l]) \subseteq Observables
        BY PassedType DEF UpTo
      <4>2. CallsWith([Passed(l) EXCEPT ![w] = @ + 1], UpTo(Boundaries[l])) =
              CallsWith(Passed(l), UpTo(Boundaries[l])) + IF w \in UpTo(Boundaries[l]) THEN 1 ELSE 0
        BY <4>1, OneMore
      <4> QED BY <1>1, <4>2
    <3>2. w \in UpTo(Boundaries[l]) <=> w <= Boundaries[l]
      BY <1>0 DEF UpTo
    <3>3. buckets[l] = CallsWith(Passed(l), UpTo(Boundaries[l])) /\ buckets[l] \in Int
      BY <1>0 DEF ObservedInv, HistogramType
    <3>4. buckets'[l] = buckets[l] + IF w <= Boundaries[l] THEN 1 ELSE 0
      BY <1>0, <1>2, <3>3 DEF HistogramType
    <3>5. CASE w <= Boundaries[l]
      BY <2>2, <3>1, <3>2, <3>3, <3>4, <3>5
    <3>6. CASE ~(w <= Boundaries[l])
      BY <2>2, <3>1, <3>2, <3>3, <3>4, <3>6
    <3> QED BY <3>5, <3>6
  <2> QED BY <2>1, <2>2
<1>6. sum' = TotalOf(Passed(Sum)') /\ hits' = CallsWith(Passed(Count)', Observables)
  BY <1>0, <1>1, <1>2, <1>3 DEF ObservedInv
<1> QED BY <1>2, <1>4, <1>5, <1>6 DEF ObservedInv

\* ... the sum grows by their value ...
LEMMA ObserveSumLevel ==
    ASSUME HistogramType, ObservedInv, NEW t \in Observers, ObserveSum(t)
    PROVE  ObservedInv' /\ begun' = begun
<1>. DEFINE w == obsValue[t]
<1>0. Sum \in Levels /\ Sum # 0 /\ Sum # Count /\ w \in Observables /\ Count = Sum + 1
      /\ obsStep[t] = Sum
  BY LevelFacts DEF ObserveSum, HistogramType, Levels
<1>1. /\ Passed(Sum)' = [Passed(Sum) EXCEPT ![w] = @ + 1]
      /\ \A m \in Levels : m # Sum => Passed(m)' = Passed(m)
  BY <1>0, LevelUp DEF ObserveSum, HistogramType
<1>2. UNCHANGED <<buckets, hits, begun>> /\ sum' = sum + w
  BY DEF ObserveSum
<1>3. DOMAIN Boundaries \subseteq Levels \ {Sum} /\ 0 \in Levels \ {Sum}
      /\ Count \in Levels \ {Sum}
  BY LevelFacts DEF Levels
<1>4. begun' = Passed(0)'
  BY <1>0, <1>1, <1>2, <1>3 DEF ObservedInv
<1>5. \A b \in DOMAIN Boundaries : buckets'[b] = CallsWith(Passed(b)', UpTo(Boundaries[b]))
  BY <1>1, <1>2, <1>3 DEF ObservedInv
<1>6. sum' = TotalOf(Passed(Sum)')
  <2>1. Passed(Sum) \in Counts /\ w \in Observables /\ sum = TotalOf(Passed(Sum))
    BY <1>0, PassedType DEF ObservedInv
  <2>2. TotalOf([Passed(Sum) EXCEPT ![w] = @ + 1]) = TotalOf(Passed(Sum)) + w
    BY <2>1, OneMoreTotal
  <2> QED BY <1>1, <1>2, <2>1, <2>2
<1>7. hits' = CallsWith(Passed(Count)', Observables)
  BY <1>1, <1>2, <1>3 DEF ObservedInv
<1> QED BY <1>2, <1>4, <1>5, <1>6, <1>7 DEF ObservedInv

\* The last step: the observer is no longer past any level, its call is among
\* those that returned.
LEMMA ObserveCountLevel ==
    ASSUME HistogramType, ObservedInv, NEW t \in Observers, ObserveCount(t)
    PROVE  ObservedInv' /\ begun' = begun /\ \A x \in Observables : ended[x] <= ended'[x]
<1>. DEFINE w == obsValue[t]
<1>0. Count \in Levels /\ Count # 0 /\ w \in Observables /\ obsStep[t] = Count
  BY LevelFacts DEF ObserveCount, HistogramType, Levels
<1>1. /\ UNCHANGED <<buckets, sum, begun>> /\ hits' = hits + 1
      /\ ended' = [ended EXCEPT ![w] = @ + 1]
      /\ obsStep'[t] = Idle /\ \A u \in Observers : u # t => obsStep'[u] = obsStep[u]
      /\ \A u \in Observers : u # t => obsValue'[u] = obsValue[u]
  BY DEF ObserveCount, HistogramType
<1>. HIDE DEF w
<1>2. obsValue[t] = w
  BY DEF w
<1>3. ASSUME NEW m \in Levels, m # Count, NEW v \in Observables
      PROVE  ended'[v] + Cardinality(At(m, v)') = ended[v] + Cardinality(At(m, v))
  <2>1. CASE v = w
    <3>1. At(m, v) = At(m, v)' \cup {t} /\ t \notin At(m, v)'
      BY <1>0, <1>1, <1>2, <1>3, <2>1, LevelFacts DEF At, HistogramType, Levels
    <3>2. IsFiniteSet(At(m, v)')
      BY AtFinite, FS_Subset, <3>1
    <3>3. Cardinality(At(m, v)) = Cardinality(At(m, v)') + 1 /\ Cardinality(At(m, v)') \in Nat
      BY <3>1, <3>2, FS_AddElement, FS_CardinalityType
    <3>4. ended'[v] = ended[v] + 1 /\ ended[v] \in Nat
      BY <1>0, <1>1, <2>1 DEF HistogramType
    <3> QED BY <3>3, <3>4
  <2>2. CASE v # w
    <3>1. ~(obsStep'[t] > m)
      BY <1>1, LevelFacts DEF Levels
    <3>2. \A u \in Observers : obsStep'[u] > m /\ obsValue'[u] = v <=> obsStep[u] > m /\ obsValue[u] = v
      BY <1>1, <1>2, <2>2, <3>1
    <3>3. At(m, v) = At(m, v)'
      BY <3>2 DEF At
    <3> QED BY <1>1, <2>2, <3>3 DEF HistogramType
  <2> QED BY <2>1, <2>2
<1>4. \A m \in Levels : m # Count => Passed(m)' = Passed(m)
  BY <1>3 DEF Passed
<1>5. Passed(Count) = ended /\ Passed(Count)' = ended'
  <2>1. \A v : At(Count, v) = {} /\ At(Count, v)' = {}
    <3>1. \A u \in Observers : ~(obsStep[u] > Count)
      BY LevelFacts DEF HistogramType, Levels
    <3>2. \A u \in Observers : ~(obsStep'[u] > Count)
      BY <1>1, <3>1, LevelFacts
    <3> QED BY <3>1, <3>2 DEF At
  <2>2. Cardinality({}) = 0
    BY FS_EmptySet
  <2>3. ended \in [Observables -> Nat] /\ ended' \in [Observables -> Nat]
    BY <1>0, <1>1 DEF HistogramType
  <2> QED BY <2>1, <2>2, <2>3 DEF Passed
<1>6. DOMAIN Boundaries \subseteq Levels \ {Count} /\ 0 \in Levels \ {Count}
      /\ Sum \in Levels \ {Count}
  BY LevelFacts DEF Levels
<1>7. begun' = Passed(0)' /\ sum' = TotalOf(Passed(Sum)')
  BY <1>1, <1>4, <1>6 DEF ObservedInv
<1>8. \A b \in DOMAIN Boundaries : buckets'[b] = CallsWith(Passed(b)', UpTo(Boundaries[b]))
  BY <1>1, <1>4, <1>6 DEF ObservedInv
<1>9. hits' = CallsWith(Passed(Count)', Observables)
  <2>1. CallsWith(ended', Observables) = CallsWith(ended, Observables) + 1
    <3>1. ended \in Counts
      BY DEF HistogramType, Counts
    <3>2. CallsWith([ended EXCEPT ![w] = @ + 1], Observables) =
            CallsWith(ended, Observables) + IF w \in Observables THEN 1 ELSE 0
      BY <1>0, <3>1, OneMore
    <3> QED BY <1>0, <1>1, <3>2
  <2> QED BY <1>1, <1>5, <2>1 DEF ObservedInv
<1>10. \A x \in Observables : ended[x] <= ended'[x]
  BY <1>1 DEF HistogramType
<1> QED BY <1>1, <1>7, <1>8, <1>9, <1>10 DEF ObservedInv

-----------------------------------------------------------------------------
\* The three numbers lie between what ended and what began.
LEMMA NumbersBracketed ==
    ASSUME HistogramType, ObservedInv
    PROVE  /\ hits \in CallsWith(ended, Observables) .. CallsWith(begun, Observables)
           /\ sum \in TotalOf(ended) .. TotalOf(begun)
           /\ \A b \in DOMAIN Boundaries :
                buckets[b] \in CallsWith(ended, UpTo(Boundaries[b])) ..
                               CallsWith(begun, UpTo(Boundaries[b]))
<1>1. ended \in Counts /\ begun \in Counts
  BY DEF HistogramType, Counts
<1>2. 0 \in Levels /\ Sum \in Levels /\ Count \in Levels /\ DOMAIN Boundaries \subseteq Levels
  BY LevelFacts DEF Levels
<1>3. ASSUME NEW l \in Levels
      PROVE  /\ Passed(l) \in Counts
             /\ \A v \in Observables : ended[v] <= Passed(l)[v] /\ Passed(l)[v] <= begun[v]
  <2>1. \A v \in Observables : ended[v] <= Passed(l)[v] /\ Passed(l)[v] <= Passed(0)[v]
    BY <1>2, PassedBetween DEF Levels
  <2> QED BY <2>1, PassedType DEF ObservedInv
<1>4. ASSUME NEW l \in Levels
      PROVE  /\ \A s \in SUBSET Observables :
                   CallsWith(Passed(l), s) \in CallsWith(ended, s) .. CallsWith(begun, s)
             /\ TotalOf(Passed(l)) \in TotalOf(ended) .. TotalOf(begun)
  <2>1. Passed(l) \in Counts /\ \A v \in Observables : ended[v] <= Passed(l)[v]
    BY <1>3
  <2>2. /\ \A s \in SUBSET Observables :
             /\ CallsWith(ended, s) \in Int /\ CallsWith(Passed(l), s) \in Int
             /\ CallsWith(ended, s) <= CallsWith(Passed(l), s)
        /\ TotalOf(ended) \in Int /\ TotalOf(Passed(l)) \in Int
        /\ TotalOf(ended) <= TotalOf(Passed(l))
    BY <1>1, <2>1, CountsMonotone
  <2>3. \A v \in Observables : Passed(l)[v] <= begun[v]
    BY <1>3
  <2>4. /\ \A s \in SUBSET Observables :
             CallsWith(begun, s) \in Int /\ CallsWith(Passed(l), s) <= CallsWith(begun, s)
        /\ TotalOf(begun) \in Int /\ TotalOf(Passed(l)) <= TotalOf(begun)
    BY <1>1, <2>1, <2>3, CountsMonotone
  <2> QED BY <2>2, <2>4
<1>5. hits \in CallsWith(ended, Observables) .. CallsWith(begun, Observables)
  BY <1>2, <1>4 DEF ObservedInv
<1>6. sum \in TotalOf(ended) .. TotalOf(begun)
  BY <1>2, <1>4 DEF ObservedInv
<1>7. \A b \in DOMAIN Boundaries :
        buckets[b] \in CallsWith(ended, UpTo(Boundaries[b])) .. CallsWith(begun, UpTo(Boundaries[b]))
  BY <1>2, <1>4, SetsFinite DEF ObservedInv
<1> QED BY <1>5, <1>6, <1>7

\* What was bracketed stays so while observations begin and return.
LEMMA BracketsHold ==
    ASSUME HistogramType, ScrapedInv, HistogramType',
           \A v \in Observables : begun[v] <= begun'[v] /\ ended[v] <= ended'[v],
           UNCHANGED scrapeVars
    PROVE  ScrapedInv'
<1>1. base \in Counts /\ begun \in Counts /\ begun' \in Counts /\ ended \in Counts /\ ended' \in Counts
  BY DEF HistogramType, Counts
<1>2. /\ \A s \in SUBSET Observables :
           /\ CallsWith(begun, s) \in Int /\ CallsWith(begun', s) \in Int
           /\ CallsWith(begun, s) <= CallsWith(begun', s)
      /\ TotalOf(begun) \in Int /\ TotalOf(begun') \in Int /\ TotalOf(begun) <= TotalOf(begun')
  BY <1>1, CountsMonotone
<1>3. /\ \A s \in SUBSET Observables : CallsWith(base, s) \in Int
      /\ TotalOf(base) \in Int
  BY <1>1, CountsMonotone DEF Counts
<1>4. UNCHANGED <<scStep, scraped, base, Loaded>>
  BY DEF scrapeVars, Loaded
<1>5. \A v \in Observables : base'[v] <= ended'[v]
  BY <1>1, <1>4 DEF ScrapedInv, Counts
<1>6. scStep' # Idle =>
        scraped'.count \in CallsWith(base', Observables) .. CallsWith(begun', Observables)
  BY <1>2, <1>3, <1>4 DEF ScrapedInv
<1>7. scStep' \notin {Idle, Sum} => scraped'.sum \in TotalOf(base') .. TotalOf(begun')
  BY <1>2, <1>3, <1>4 DEF ScrapedInv
<1>8. \A b \in 1 .. Loaded' :
        scraped'.buckets[b] \in CallsWith(base', UpTo(Boundaries[b])) ..
                                CallsWith(begun', UpTo(Boundaries[b]))
  BY <1>2, <1>3, <1>4, SetsFinite DEF ScrapedInv
<1> QED BY <1>4, <1>5, <1>6, <1>7, <1>8 DEF ScrapedInv

\* Every step keeps the types.
LEMMA HistogramTypeStep ==
    ASSUME HistogramType, Measure PROVE HistogramType'
<1>0. /\ \A l \in Levels : l # Count => l + 1 \in Levels
      /\ 0 \in Levels /\ 1 \in Levels /\ Count \in Levels /\ Idle \in Levels /\ Idle = 0
      /\ Sum \in Levels /\ DOMAIN Boundaries \subseteq Levels /\ Count \notin DOMAIN Boundaries
      /\ 0 \notin DOMAIN Boundaries /\ Sum # 0 /\ Count # 0
  BY LevelFacts DEF Levels
<1>1. ASSUME NEW t \in Observers, NEW v \in Observables, Observe(t, v) PROVE HistogramType'
  <2>1. /\ obsStep' = [obsStep EXCEPT ![t] = 1] /\ obsValue' = [obsValue EXCEPT ![t] = v]
        /\ begun' = [begun EXCEPT ![v] = @ + 1] /\ v \in Nat /\ 1 \in Levels
        /\ UNCHANGED <<buckets, sum, hits, ended, base>>
    BY <1>0, <1>1, HistogramAssumption DEF Observe, scrapeVars
  <2>2. obsStep' \in [Observers -> Levels] /\ obsValue' \in [Observers -> Nat]
    BY <2>1 DEF HistogramType
  <2>3. \A u \in Observers : obsStep'[u] # Idle => obsValue'[u] \in Observables
    BY <2>1 DEF HistogramType
  <2>4. begun' \in [Observables -> Nat]
    BY <2>1 DEF HistogramType
  <2> QED BY <2>1, <2>2, <2>3, <2>4 DEF HistogramType
<1>2. ASSUME NEW t \in Observers, ObserveBucket(t) PROVE HistogramType'
  <2>1. /\ obsStep' = [obsStep EXCEPT ![t] = @ + 1] /\ obsStep[t] + 1 \in Levels
        /\ obsStep[t] # Idle
    BY <1>0, <1>2 DEF HistogramType, ObserveBucket
  <2>2. /\ UNCHANGED <<sum, hits, obsValue, begun, ended, base>>
        /\ \/ buckets' = [buckets EXCEPT ![obsStep[t]] = @ + 1]
           \/ buckets' = buckets
    BY <1>2 DEF ObserveBucket, scrapeVars
  <2>3. buckets' \in [DOMAIN Boundaries -> Int]
    BY <2>2 DEF HistogramType
  <2>4. obsStep' \in [Observers -> Levels]
         /\ \A u \in Observers : obsStep'[u] # Idle => obsStep[u] # Idle
    BY <2>1 DEF HistogramType
  <2> QED BY <2>2, <2>3, <2>4 DEF HistogramType
<1>3. ASSUME NEW t \in Observers, ObserveSum(t) PROVE HistogramType'
  <2>1. /\ obsStep[t] = Sum /\ Sum # Idle /\ Count \in Levels
        /\ obsStep' = [obsStep EXCEPT ![t] = Count]
        /\ UNCHANGED <<buckets, hits, obsValue, begun, ended, base>>
    BY <1>0, <1>3 DEF ObserveSum, scrapeVars
  <2>2. /\ obsStep' \in [Observers -> Levels]
        /\ \A u \in Observers : obsStep'[u] # Idle => obsStep[u] # Idle
    BY <2>1 DEF HistogramType
  <2>3. sum' \in Int
    BY <1>3 DEF HistogramType, ObserveSum
  <2> QED BY <2>1, <2>2, <2>3 DEF HistogramType
<1>4. ASSUME NEW t \in Observers, ObserveCount(t) PROVE HistogramType'
  <2>1. /\ obsStep[t] = Count /\ Count # Idle /\ Idle \in Levels
        /\ obsStep' = [obsStep EXCEPT ![t] = Idle]
        /\ obsValue' = [obsValue EXCEPT ![t] = 0]
        /\ ended' = [ended EXCEPT ![obsValue[t]] = @ + 1]
        /\ UNCHANGED <<buckets, sum, begun, base>>
    BY <1>0, <1>4 DEF ObserveCount, scrapeVars
  <2>2. obsStep' \in [Observers -> Levels] /\ obsValue' \in [Observers -> Nat]
    BY <2>1 DEF HistogramType
  <2>3. \A u \in Observers : obsStep'[u] # Idle => obsStep[u] # Idle /\ obsValue'[u] = obsValue[u]
    BY <2>1 DEF HistogramType
  <2>4. hits' \in Int /\ ended' \in [Observables -> Nat]
    BY <1>4, <2>1 DEF HistogramType, ObserveCount
  <2> QED BY <2>1, <2>2, <2>3, <2>4 DEF HistogramType
<1>5. None \in [Observables -> Nat]
  BY DEF None
<1>6. ASSUME ScrapeCount \/ ScrapeSum \/ ScrapeBucket \/ ScrapeReturns PROVE HistogramType'
  BY <1>5, <1>6 DEF HistogramType, ScrapeCount, ScrapeSum, ScrapeBucket, ScrapeReturns, obsVars
<1> QED BY <1>1, <1>2, <1>3, <1>4, <1>6 DEF Measure

\* Every load of a scrape lies between the calls that had returned when it began
\* and those that have begun.
LEMMA ScrapeStep ==
    ASSUME HistogramInv, ScrapeCount \/ ScrapeSum \/ ScrapeBucket \/ ScrapeReturns
    PROVE  ScrapedInv'
<1>0. HistogramType /\ ObservedInv /\ ScrapedInv
  BY DEF HistogramInv
<1>1. UNCHANGED <<begun, ended>>
  BY DEF ScrapeCount, ScrapeSum, ScrapeBucket, ScrapeReturns, obsVars
<1>2. /\ hits \in CallsWith(ended, Observables) .. CallsWith(begun, Observables)
      /\ sum \in TotalOf(ended) .. TotalOf(begun)
      /\ \A b \in DOMAIN Boundaries :
           buckets[b] \in CallsWith(ended, UpTo(Boundaries[b])) ..
                          CallsWith(begun, UpTo(Boundaries[b]))
  BY <1>0, NumbersBracketed
<1>3. base \in Counts /\ ended \in Counts /\ begun \in Counts
  BY <1>0 DEF HistogramType, Counts
<1>4. /\ \A s \in SUBSET Observables :
           /\ CallsWith(base, s) \in Int /\ CallsWith(ended, s) \in Int
           /\ CallsWith(base, s) <= CallsWith(ended, s)
      /\ TotalOf(base) \in Int /\ TotalOf(ended) \in Int /\ TotalOf(base) <= TotalOf(ended)
  BY <1>0, <1>3, CountsMonotone DEF ScrapedInv
<1>5. CASE ScrapeCount
  <2>1. /\ scStep' = Sum /\ base' = ended /\ scraped'.count = hits
        /\ scraped' = [count |-> scraped'.count, sum |-> scraped'.sum, buckets |-> scraped'.buckets]
        /\ scraped'.buckets = scraped.buckets /\ scStep = Idle
    BY <1>0, <1>5 DEF ScrapeCount, ScrapedInv
  <2>2. Loaded = 0 /\ Loaded' = 0
    BY <2>1, LevelFacts DEF Loaded
  <2>3. \A v \in Observables : base'[v] <= ended'[v]
    BY <1>1, <1>3, <2>1 DEF Counts
  <2>4. scraped'.count \in CallsWith(base', Observables) .. CallsWith(begun', Observables)
    BY <1>1, <1>2, <2>1
  <2> QED BY <1>0, <2>1, <2>2, <2>3, <2>4 DEF ScrapedInv
<1>6. CASE ScrapeSum
  <2>1. /\ scStep' = (IF Boundaries = << >> THEN Text ELSE 1) /\ base' = base
        /\ scraped'.sum = sum
        /\ scraped' = [count |-> scraped'.count, sum |-> scraped'.sum, buckets |-> scraped'.buckets]
        /\ scraped'.count = scraped.count
        /\ scraped'.buckets = scraped.buckets /\ scStep = Sum
    BY <1>0, <1>6 DEF ScrapeSum, ScrapedInv
  <2>2. Loaded = 0 /\ Loaded' = 0 /\ scStep' \in {Text} \cup DOMAIN Boundaries
    BY <2>1, LevelFacts, HistogramAssumption DEF Loaded
  <2>3. scraped'.sum \in TotalOf(base') .. TotalOf(begun')
    <3>1. TotalOf(begun) \in Int
      BY <1>0, <1>3, CountsMonotone DEF Counts
    <3>2. sum \in TotalOf(base) .. TotalOf(begun)
      BY <1>2, <1>4, <3>1
    <3> QED BY <1>1, <2>1, <3>2
  <2>4. scraped'.count \in CallsWith(base', Observables) .. CallsWith(begun', Observables)
    BY <1>0, <1>1, <2>1, LevelFacts DEF ScrapedInv
  <2> QED BY <1>0, <1>1, <2>1, <2>2, <2>3, <2>4 DEF ScrapedInv
<1>7. CASE ScrapeBucket
  <2>1. /\ scStep' = (IF scStep = Len(Boundaries) THEN Text ELSE scStep + 1) /\ base' = base
        /\ scraped' = [count |-> scraped'.count, sum |-> scraped'.sum, buckets |-> scraped'.buckets]
        /\ scraped'.count = scraped.count /\ scraped'.sum = scraped.sum
        /\ scraped'.buckets = Append(scraped.buckets, buckets[scStep])
        /\ scStep \in DOMAIN Boundaries
    BY <1>0, <1>7 DEF ScrapeBucket, ScrapedInv
  <2>2. Loaded = scStep - 1 /\ Loaded' = scStep /\ scStep' \in {Text} \cup DOMAIN Boundaries
    BY <2>1, LevelFacts DEF Loaded
  <2>3. buckets[scStep] \in Int /\ scraped.buckets \in Seq(Int) /\ Len(scraped.buckets) = scStep - 1
    BY <1>0, <2>1, <2>2 DEF HistogramType, ScrapedInv
  <2>4. /\ scraped'.buckets \in Seq(Int) /\ Len(scraped'.buckets) = scStep
        /\ scraped'.buckets[scStep] = buckets[scStep]
        /\ \A b \in 1 .. scStep - 1 : scraped'.buckets[b] = scraped.buckets[b]
    BY <2>1, <2>3, LevelFacts
  <2>5. ASSUME NEW b \in 1 .. Loaded'
        PROVE  scraped'.buckets[b] \in CallsWith(base', UpTo(Boundaries[b])) ..
                                       CallsWith(begun', UpTo(Boundaries[b]))
    <3>1. CASE b = scStep
      <4>1. b \in DOMAIN Boundaries
        BY <3>1, <2>1
      <4>2. UpTo(Boundaries[b]) \in SUBSET Observables
        BY DEF UpTo
      <4>3. CallsWith(begun, UpTo(Boundaries[b])) \in Int
        BY <1>3, <4>2, CountsMonotone DEF Counts
      <4>4. buckets[b] \in CallsWith(base, UpTo(Boundaries[b])) ..
                           CallsWith(begun, UpTo(Boundaries[b]))
        BY <1>2, <1>4, <4>1, <4>2, <4>3
      <4> QED BY <1>1, <2>1, <2>4, <3>1, <4>4
    <3>2. CASE b # scStep
      <4>1. b \in 1 .. Loaded /\ b \in 1 .. scStep - 1
        BY <2>1, <2>2, <3>2, LevelFacts
      <4> QED BY <1>0, <1>1, <2>1, <2>4, <4>1 DEF ScrapedInv
    <3> QED BY <3>1, <3>2
  <2>6. scStep \notin {Idle, Sum}
    BY <2>1, LevelFacts
  <2>7. scraped'.count \in CallsWith(base', Observables) .. CallsWith(begun', Observables)
         /\ scraped'.sum \in TotalOf(base') .. TotalOf(begun')
    BY <1>0, <1>1, <2>1, <2>6 DEF ScrapedInv
  <2> QED BY <1>0, <1>1, <2>1, <2>2, <2>4, <2>5, <2>7 DEF ScrapedInv
<1>8. CASE ScrapeReturns
  <2>1. scStep' = Idle /\ scraped' = NothingScraped /\ base' = None
    BY <1>8 DEF ScrapeReturns
  <2>2. Loaded' = 0
    BY <2>1, LevelFacts DEF Loaded
  <2>3. \A v \in Observables : base'[v] <= ended'[v]
    BY <1>1, <1>3, <2>1 DEF None, Counts
  <2> QED BY <2>1, <2>2, <2>3 DEF ScrapedInv, NothingScraped
<1> QED BY <1>5, <1>6, <1>7, <1>8

\* The empty histogram.
LEMMA HistogramInitInv == HistogramInit => HistogramInv
<1>. SUFFICES ASSUME HistogramInit PROVE HistogramInv
  OBVIOUS
<1>1. HistogramType
  BY LevelFacts DEF HistogramInit, HistogramType, None, Levels
<1>2. \A lvl \in Levels : \A v : At(lvl, v) = {}
  BY LevelFacts DEF HistogramInit, At, Levels
<1>3. \A lvl \in Levels : Passed(lvl) = None
  BY <1>2, FS_EmptySet DEF Passed, HistogramInit, None
<1>4. 0 \in Levels /\ Sum \in Levels /\ Count \in Levels /\ DOMAIN Boundaries \subseteq Levels
  BY LevelFacts DEF Levels
<1>5. \A s \in SUBSET Observables : CallsWith(None, s) = 0
  <2>. TAKE s \in SUBSET Observables
  <2>1. IsFiniteSet(s) /\ \A x \in s : None[x] = 0
    BY SetsFinite, FS_Subset DEF None
  <2> QED BY <2>1, SumZero, CallsAreSums
<1>6. TotalOf(None) = 0
  <2>. DEFINE g == [v \in Observables |-> v * None[v]]
  <2>1. \A v \in Observables : g[v] = 0
    BY HistogramAssumption DEF None
  <2> HIDE DEF g
  <2>2. SumOver(g, Observables) = 0
    BY <2>1, SetsFinite, SumZero
  <2> QED BY <2>2, CallsAreSums DEF TotalOf, g
<1>7. ObservedInv
  BY <1>3, <1>4, <1>5, <1>6, SetsFinite DEF ObservedInv, HistogramInit
<1>8. Loaded = 0
  BY LevelFacts DEF HistogramInit, Loaded
<1>9. ScrapedInv
  BY <1>8 DEF HistogramInit, ScrapedInv, NothingScraped, None
<1> QED BY <1>1, <1>7, <1>9 DEF HistogramInv

\* No step of an observing or a scraping thread breaks the invariant.
LEMMA HistogramStep ==
    ASSUME HistogramInv, Measure \/ UNCHANGED histogramVars
    PROVE  HistogramInv'
<1>0. HistogramType /\ ObservedInv /\ ScrapedInv
  BY DEF HistogramInv
<1>1. CASE UNCHANGED histogramVars
  <2>1. UNCHANGED <<buckets, sum, hits, obsStep, obsValue, begun, ended, scStep, scraped, base>>
    BY <1>1 DEF histogramVars, obsVars, scrapeVars
  <2> QED BY <1>0, <2>1
         DEF HistogramInv, HistogramType, ObservedInv, ScrapedInv, Passed, At, Loaded
<1>2. CASE Measure
  <2>0. HistogramType'
    BY <1>0, <1>2, HistogramTypeStep
  <2>a. \A v \in Observables : begun[v] \in Nat /\ ended[v] \in Nat
    BY <1>0 DEF HistogramType
  <2>1. ASSUME NEW t \in Observers, NEW v \in Observables, Observe(t, v) PROVE HistogramInv'
    <3>1. ObservedInv' /\ (\A x \in Observables : begun[x] <= begun'[x]) /\ ended' = ended
           /\ UNCHANGED scrapeVars
      BY <1>0, <2>1, ObserveLevel DEF Observe
    <3>2. \A x \in Observables : begun[x] <= begun'[x] /\ ended[x] <= ended'[x]
      BY <3>1, <2>a
    <3> QED BY <1>0, <2>0, <3>1, <3>2, BracketsHold DEF HistogramInv
  <2>2. ASSUME NEW t \in Observers, ObserveBucket(t) \/ ObserveSum(t) PROVE HistogramInv'
    <3>1. ObservedInv' /\ begun' = begun /\ ended' = ended /\ UNCHANGED scrapeVars
      BY <1>0, <2>2, ObserveBucketLevel, ObserveSumLevel DEF ObserveBucket, ObserveSum
    <3>2. \A x \in Observables : begun[x] <= begun'[x] /\ ended[x] <= ended'[x]
      BY <3>1, <2>a
    <3> QED BY <1>0, <2>0, <3>1, <3>2, BracketsHold DEF HistogramInv
  <2>3. ASSUME NEW t \in Observers, ObserveCount(t) PROVE HistogramInv'
    <3>1. ObservedInv' /\ begun' = begun /\ (\A x \in Observables : ended[x] <= ended'[x])
           /\ UNCHANGED scrapeVars
      BY <1>0, <2>3, ObserveCountLevel DEF ObserveCount
    <3>2. \A x \in Observables : begun[x] <= begun'[x] /\ ended[x] <= ended'[x]
      BY <3>1, <2>a
    <3> QED BY <1>0, <2>0, <3>1, <3>2, BracketsHold DEF HistogramInv
  <2>4. ASSUME ScrapeCount \/ ScrapeSum \/ ScrapeBucket \/ ScrapeReturns PROVE HistogramInv'
    <3>1. UNCHANGED <<buckets, sum, hits, obsStep, obsValue, begun, ended>>
      BY <2>4 DEF ScrapeCount, ScrapeSum, ScrapeBucket, ScrapeReturns, obsVars
    <3>2. ObservedInv'
      BY <1>0, <3>1 DEF ObservedInv, Passed, At
    <3> QED BY <2>0, <2>4, <3>2, ScrapeStep DEF HistogramInv
  <2> QED BY <1>2, <2>1, <2>2, <2>3, <2>4 DEF Measure
<1> QED BY <1>1, <1>2

\* For every list of boundaries and any number of observing threads, each count,
\* sum and bucket that Histogram's text shows includes all observations complete
\* when the scrape began and none that began after it, although each of them is a
\* separate atomic that observe() updates one after the other.
THEOREM ScrapesAreBracketed == MonitorSpec => []ScrapeIsBracketed
<1>1. MonitorInit => HistogramInv
  BY HistogramInitInv DEF MonitorInit
<1>2. HistogramInv /\ [MonitorNext]_monitorVars => HistogramInv'
  BY HistogramStep DEF MonitorNext, monitorVars
<1>3. HistogramInv => ScrapeIsBracketed
  <2>. SUFFICES ASSUME HistogramInv, scStep = Text PROVE ScrapeIsBracketed
    BY DEF ScrapeIsBracketed
  <2>1. Loaded = Len(Boundaries) /\ scStep \notin {Idle, Sum}
    BY LevelFacts DEF Loaded
  <2> QED BY <2>1, LevelFacts DEF HistogramInv, ScrapedInv, ScrapeIsBracketed
<1> QED BY <1>1, <1>2, <1>3, PTL DEF MonitorSpec

-----------------------------------------------------------------------------
(* Alerting                                                                *)

Alerts == [ts : Nat, level : AlertLevels, earlier : SUBSET Nat]
Raised == {c \in Callers : firing[c] # "idle"}
ReturnedStamps == {a.ts : a \in returned}
Entered == returned \cup {alert[c] : c \in {d \in Callers : firing[d] = "post"}}

AlertingType ==
    /\ history \in Seq(Alerts) /\ fired \in Nat /\ returned \subseteq Alerts
    /\ firing \in [Callers -> {"idle", "record", "post"}] /\ alert \in [Callers -> Alerts]

\* Nobody who began before an alert returned has it among the earlier ones.
RaisedInv ==
    /\ \A c \in Raised :
        /\ alert[c].ts \in 1 .. fired /\ alert[c].ts \notin ReturnedStamps
        /\ alert[c].earlier \subseteq ReturnedStamps
    /\ \A c, d \in Raised : c # d => alert[c].ts # alert[d].ts
    /\ \A a \in returned : a.ts \in 1 .. fired /\ a.earlier \subseteq ReturnedStamps
    /\ \A i \in DOMAIN history : history[i].earlier \subseteq ReturnedStamps

HistoryInv ==
    /\ Len(history) <= MaxHistory
    /\ \A i, j \in DOMAIN history : i < j => history[j].ts \notin history[i].earlier
    /\ \A a \in Entered :
        a \notin Range(history) =>
            /\ Len(history) = MaxHistory
            /\ \A b \in Range(history) : b.ts \notin a.earlier

AlertingInv == AlertingType /\ RaisedInv /\ HistoryInv

\* The alert of a caller that has raised none yet.
LEMMA NoAlertType == NoAlert \in Alerts
BY AlertingAssumption DEF NoAlert, Alerts

\* The empty history.
LEMMA AlertingInitInv == AlertingInit => AlertingInv
<1>. SUFFICES ASSUME AlertingInit PROVE AlertingInv
  OBVIOUS
<1>1. AlertingType
  BY NoAlertType DEF AlertingInit, AlertingType
<1>2. RaisedInv
  BY DEF AlertingInit, RaisedInv, Raised, ReturnedStamps
<1>3. HistoryInv
  BY AlertingAssumption DEF AlertingInit, HistoryInv, Entered, Range
<1> QED BY <1>1, <1>2, <1>3 DEF AlertingInv

\* The history s is h without its first d alerts and with e at its end.
Moved(h, d, e, s) ==
    /\ s \in Seq(Alerts) /\ Len(s) = Len(h) + 1 - d /\ Len(s) <= MaxHistory
    /\ s[Len(s)] = e /\ \A i \in 1 .. Len(s) - 1 : s[i] = h[i + d]

\* Making room drops the oldest alert of a full history and no other.
LEMMA RoomIsMade ==
    ASSUME NEW h \in Seq(Alerts), Len(h) <= MaxHistory, NEW e \in Alerts,
           NEW d \in {0, 1}, d = 1 <=> Len(h) = MaxHistory
    PROVE  Moved(h, d, e, Append(Trimmed(h), e))
<1>. DEFINE s == Append(Trimmed(h), e)
<1>. SUFFICES Moved(h, d, e, s)
  OBVIOUS
<1>0. Len(h) \in Nat /\ MaxHistory \in Nat
  BY AlertingAssumption
<1>1. CASE Len(h) = MaxHistory
  <2>1. h # << >>
    BY <1>1, AlertingAssumption
  <2>2. Trimmed(h) = Tail(h) /\ d = 1
    BY <1>1, AlertingAssumption DEF Trimmed
  <2>3. Tail(h) \in Seq(Alerts) /\ Len(Tail(h)) = Len(h) - 1
         /\ \A i \in 1 .. Len(h) - 1 : Tail(h)[i] = h[i + 1]
    BY <2>1
  <2>4. s \in Seq(Alerts) /\ Len(s) = Len(h) /\ s[Len(s)] = e
    BY <1>0, <2>2, <2>3
  <2>5. \A i \in 1 .. Len(s) - 1 : s[i] = h[i + 1]
    BY <1>0, <2>2, <2>3, <2>4
  <2>6. Len(s) = Len(h) + 1 - 1 /\ Len(s) <= MaxHistory
    BY <1>0, <1>1, <2>2, <2>4
  <2> HIDE DEF s
  <2>7. Moved(h, 1, e, s)
    BY <2>4, <2>5, <2>6 DEF Moved
  <2> QED BY <2>2, <2>7
<1>2. CASE Len(h) # MaxHistory
  <2>1. Trimmed(h) = h /\ d = 0
    BY <1>0, <1>2 DEF Trimmed
  <2>2. s \in Seq(Alerts) /\ Len(s) = Len(h) + 1 /\ s[Len(s)] = e
         /\ \A i \in 1 .. Len(h) : s[i] = h[i]
    BY <1>0, <2>1
  <2> HIDE DEF s
  <2> QED BY <1>0, <1>2, <2>1, <2>2 DEF Moved
<1> QED BY <1>1, <1>2

\* A caller takes its time stamp before the lock, ...
LEMMA FireStampsInv ==
    ASSUME AlertingInv, NEW c \in Callers, NEW l \in AlertLevels, FireStamps(c, l)
    PROVE  AlertingInv'
<1>. DEFINE e == [ts |-> fired + 1, level |-> l, earlier |-> ReturnedStamps]
<1>0. AlertingType /\ RaisedInv /\ HistoryInv
  BY DEF AlertingInv
<1>1. /\ firing[c] = "idle" /\ fired' = fired + 1 /\ UNCHANGED <<history, returned>>
      /\ alert' = [alert EXCEPT ![c] = e] /\ firing' = [firing EXCEPT ![c] = "record"]
  BY DEF FireStamps, ReturnedStamps
<1>2. e \in Alerts /\ e.earlier = ReturnedStamps /\ e.ts = fired + 1
  BY <1>0 DEF AlertingType, Alerts, ReturnedStamps
<1>. HIDE DEF e
<1>3. AlertingType'
  BY <1>0, <1>1, <1>2 DEF AlertingType
<1>4. /\ Raised' = Raised \cup {c} /\ c \notin Raised
      /\ alert'[c] = e /\ \A d \in Callers : d # c => alert'[d] = alert[d]
      /\ ReturnedStamps' = ReturnedStamps
  BY <1>0, <1>1 DEF AlertingType, Raised, ReturnedStamps
<1>5. RaisedInv'
  <2>1. fired + 1 \notin ReturnedStamps
    BY <1>0 DEF RaisedInv, ReturnedStamps, AlertingType
  <2>2. \A d \in Raised' :
          /\ alert'[d].ts \in 1 .. fired' /\ alert'[d].ts \notin ReturnedStamps'
          /\ alert'[d].earlier \subseteq ReturnedStamps'
    BY <1>0, <1>1, <1>2, <1>4, <2>1 DEF RaisedInv, AlertingType, Raised
  <2>3. \A d, f \in Raised' : d # f => alert'[d].ts # alert'[f].ts
    BY <1>0, <1>1, <1>2, <1>4 DEF RaisedInv, AlertingType, Raised
  <2>4. \A a \in returned' : a.ts \in 1 .. fired' /\ a.earlier \subseteq ReturnedStamps'
    BY <1>0, <1>1, <1>4 DEF RaisedInv, AlertingType
  <2>5. \A i \in DOMAIN history' : history'[i].earlier \subseteq ReturnedStamps'
    BY <1>0, <1>1, <1>4 DEF RaisedInv
  <2> QED BY <2>2, <2>3, <2>4, <2>5 DEF RaisedInv
<1>6. HistoryInv'
  <2>1. Entered' = Entered
    BY <1>0, <1>1 DEF Entered, AlertingType
  <2> QED BY <1>0, <1>1, <2>1 DEF HistoryInv
<1> QED BY <1>3, <1>5, <1>6 DEF AlertingInv

\* ... enters the history under the lock, where the oldest may make room for it, ...
LEMMA FireRecordsInv ==
    ASSUME AlertingInv, NEW c \in Callers, FireRecords(c)
    PROVE  AlertingInv'
<1>. DEFINE e == alert[c]
            d == IF Len(history) = MaxHistory THEN 1 ELSE 0
<1>0. AlertingType /\ RaisedInv /\ HistoryInv
  BY DEF AlertingInv
<1>1. /\ firing[c] = "record" /\ history' = Append(Trimmed(history), e)
      /\ firing' = [firing EXCEPT ![c] = "post"] /\ UNCHANGED <<alert, fired, returned>>
  BY DEF FireRecords
<1>2. e \in Alerts /\ history \in Seq(Alerts) /\ Len(history) <= MaxHistory /\ c \in Raised
  BY <1>0, <1>1 DEF AlertingType, HistoryInv, Raised
<1>2a. d \in {0, 1} /\ (d = 1 <=> Len(history) = MaxHistory)
  OBVIOUS
<1>. HIDE DEF d
<1>3. /\ history' \in Seq(Alerts) /\ Len(history') = Len(history) + 1 - d
      /\ Len(history') <= MaxHistory
      /\ history'[Len(history')] = e
      /\ \A i \in 1 .. Len(history') - 1 : history'[i] = history[i + d]
  <2> HIDE DEF e
  <2>1. history' = Append(Trimmed(history), e) /\ history \in Seq(Alerts) /\ e \in Alerts
         /\ Len(history) <= MaxHistory
    BY <1>1, <1>2
  <2>2. Moved(history, d, e, history')
    BY <2>1, <1>2a, RoomIsMade
  <2> QED BY <2>2 DEF Moved
<1>4. /\ d \in {0, 1} /\ Len(history) \in Nat
      /\ Len(history') = Len(history) + 1 - d /\ Len(history') \in Nat
  BY <1>2, <1>2a, <1>3
<1>4a. DOMAIN history = 1 .. Len(history) /\ DOMAIN history' = 1 .. Len(history')
  BY <1>2, <1>3
<1>6. AlertingType'
  BY <1>0, <1>1, <1>3 DEF AlertingType
<1>7. Raised' = Raised /\ ReturnedStamps' = ReturnedStamps /\ alert' = alert
  BY <1>0, <1>1 DEF AlertingType, Raised, ReturnedStamps
<1>8. e.earlier \subseteq ReturnedStamps /\ e.ts \notin ReturnedStamps
  BY <1>0, <1>2 DEF RaisedInv
<1>. HIDE DEF e
<1>9. \A i \in DOMAIN history' :
        history'[i] = e \/ \E j \in DOMAIN history : history'[i] = history[j]
  <2>. SUFFICES ASSUME NEW i \in DOMAIN history', history'[i] # e
                PROVE  \E j \in DOMAIN history : history'[i] = history[j]
    OBVIOUS
  <2>1. i \in 1 .. Len(history') - 1
    BY <1>3, <1>4, <1>4a
  <2>2. i + d \in DOMAIN history
    BY <2>1, <1>4, <1>4a
  <2> QED BY <2>1, <2>2, <1>3
<1>10. RaisedInv'
  <2>1. \A i \in DOMAIN history' : history'[i].earlier \subseteq ReturnedStamps
    BY <1>0, <1>8, <1>9 DEF RaisedInv
  <2> QED BY <2>1, <1>0, <1>1, <1>7 DEF RaisedInv
<1>11. \A i, j \in DOMAIN history' : i < j => history'[j].ts \notin history'[i].earlier
  <2>. SUFFICES ASSUME NEW i \in DOMAIN history', NEW j \in DOMAIN history', i < j
                PROVE  history'[j].ts \notin history'[i].earlier
    OBVIOUS
  <2>. i \in 1 .. Len(history') /\ j \in 1 .. Len(history')
    BY <1>4a
  <2>1. i \in 1 .. Len(history') - 1 /\ i + d \in DOMAIN history /\ history'[i] = history[i + d]
    <3>1. i \in 1 .. Len(history') - 1 /\ i + d \in 1 .. Len(history)
      BY <1>4
    <3> QED BY <3>1, <1>3, <1>4a
  <2>2. CASE j = Len(history')
    BY <2>1, <2>2, <1>0, <1>3, <1>8 DEF RaisedInv
  <2>3. CASE j # Len(history')
    <3>1. j + d \in DOMAIN history /\ history'[j] = history[j + d] /\ i + d < j + d
      <4>1. j \in 1 .. Len(history') - 1 /\ j + d \in 1 .. Len(history) /\ i + d < j + d
        BY <2>3, <1>4
      <4> QED BY <4>1, <1>3, <1>4a
    <3> QED BY <3>1, <2>1, <1>0 DEF HistoryInv
  <2> QED BY <2>2, <2>3
<1>12. ASSUME NEW a \in Entered', a \notin Range(history')
       PROVE  /\ Len(history') = MaxHistory
              /\ \A b \in Range(history') : b.ts \notin a.earlier
  <2>1. e \in Range(history')
    <3>1. Len(history') \in DOMAIN history'
      <4>1. Len(history') \in 1 .. Len(history')
        BY <1>4, <1>2a, AlertingAssumption
      <4> QED BY <4>1, <1>4a
    <3> QED BY <3>1, <1>3 DEF Range
  <2>2. a \in Entered
    BY <1>0, <1>1, <1>12, <2>1 DEF Entered, AlertingType, e
  <2>3. a.earlier \subseteq ReturnedStamps
    BY <2>2, <1>0 DEF Entered, RaisedInv, Raised
  <2>4. CASE a \notin Range(history)
    <3>1. Len(history) = MaxHistory /\ \A b \in Range(history) : b.ts \notin a.earlier
      BY <2>2, <2>4, <1>0 DEF HistoryInv
    <3>2. Len(history') = MaxHistory
      BY <3>1, <1>3, <1>4, <1>2a
    <3>3. ASSUME NEW b \in Range(history') PROVE b.ts \notin a.earlier
      <4>1. b = e \/ b \in Range(history)
        BY <1>9 DEF Range
      <4> QED BY <4>1, <3>1, <2>3, <1>8
    <3> QED BY <3>2, <3>3
  <2>5. CASE a \in Range(history)
    <3>1. PICK k \in DOMAIN history : a = history[k]
      BY <2>5 DEF Range
    <3>2. k = 1 /\ d = 1
      <4>. SUFFICES ASSUME k > d PROVE FALSE
        BY <1>4, <1>4a, <3>1
      <4>1. k - d \in 1 .. Len(history') - 1 /\ k - d \in DOMAIN history' /\ k - d + d = k
        BY <1>4, <1>4a, <3>1
      <4>2. history'[k - d] = a
        BY <4>1, <3>1, <1>3
      <4> QED BY <4>1, <4>2, <1>12 DEF Range
    <3>3. Len(history') = MaxHistory
      BY <3>2, <1>3, <1>4, <1>2a
    <3>4. ASSUME NEW b \in Range(history') PROVE b.ts \notin a.earlier
      <4>1. PICK j \in DOMAIN history' : b = history'[j]
        BY DEF Range
      <4>2. CASE j = Len(history')
        BY <4>1, <4>2, <1>3, <1>8, <2>3
      <4>3. CASE j # Len(history')
        <5>1. j + 1 \in DOMAIN history /\ b = history[j + 1] /\ 1 < j + 1
          BY <4>1, <4>3, <1>3, <1>4, <1>4a, <3>2
        <5> QED BY <5>1, <3>1, <3>2, <1>0 DEF HistoryInv
      <4> QED BY <4>2, <4>3
    <3> QED BY <3>3, <3>4
  <2> QED BY <2>4, <2>5
<1>13. HistoryInv'
  BY <1>3, <1>11, <1>12 DEF HistoryInv
<1> QED BY <1>6, <1>10, <1>13 DEF AlertingInv

\* ... and returns when its post is handed on.
LEMMA FireReturnsInv ==
    ASSUME AlertingInv, NEW c \in Callers, FireReturns(c)
    PROVE  AlertingInv'
<1>. DEFINE e == alert[c]
<1>0. AlertingType /\ RaisedInv /\ HistoryInv
  BY DEF AlertingInv
<1>1. /\ firing[c] = "post" /\ returned' = returned \cup {e}
      /\ firing' = [firing EXCEPT ![c] = "idle"] /\ UNCHANGED <<history, fired>>
      /\ alert' = [alert EXCEPT ![c] = NoAlert]
  BY DEF FireReturns
<1>2. e \in Alerts /\ c \in Raised
  BY <1>0, <1>1 DEF AlertingType, Raised
<1>3. AlertingType'
  BY <1>0, <1>1, <1>2, NoAlertType DEF AlertingType
<1>4. /\ Raised' = Raised \ {c} /\ ReturnedStamps' = ReturnedStamps \cup {e.ts}
      /\ \A d \in Raised' : alert'[d] = alert[d]
  BY <1>0, <1>1 DEF AlertingType, Raised, ReturnedStamps
<1>5. e.ts \in 1 .. fired /\ e.earlier \subseteq ReturnedStamps
      /\ \A d \in Raised : d # c => alert[d].ts # e.ts
  BY <1>0, <1>2 DEF RaisedInv
<1>. HIDE DEF e
<1>6. RaisedInv'
  BY <1>0, <1>1, <1>4, <1>5 DEF RaisedInv
<1>7. Entered' \subseteq Entered
  BY <1>0, <1>1, <1>3 DEF Entered, AlertingType, e
<1>8. HistoryInv'
  BY <1>0, <1>1, <1>7 DEF HistoryInv
<1> QED BY <1>3, <1>6, <1>8 DEF AlertingInv

\* No step of a caller or of a posting thread breaks the invariant.
LEMMA AlertingStep ==
    ASSUME AlertingInv, (Fire \/ Posting) \/ UNCHANGED alertVars
    PROVE  AlertingInv'
<1>1. CASE Fire
  BY <1>1, FireStampsInv, FireRecordsInv, FireReturnsInv DEF Fire
<1>2. CASE Posting \/ UNCHANGED alertVars
  <2>1. UNCHANGED <<history, firing, alert, fired, returned>>
    BY <1>2 DEF Posting, PostFails, PostOpens, PostCloses, alertVars
  <2> QED
    BY <2>1 DEF AlertingInv, AlertingType, RaisedInv, HistoryInv, Raised, Entered, ReturnedStamps
<1> QED BY <1>1, <1>2

\* For every limit and any number of threads that call fire(), the history never
\* exceeds its limit, keeps the order in which calls followed each other, and
\* lacks an alert whose fire() returned only when MaxHistory others that are not
\* earlier pushed it out.
THEOREM AlertHistory == MonitorSpec => []AlertsAreKept
<1>1. MonitorInit => AlertingInv
  BY AlertingInitInv DEF MonitorInit
<1>2. AlertingInv /\ [MonitorNext]_monitorVars => AlertingInv'
  BY AlertingStep DEF MonitorNext, monitorVars
<1>3. AlertingInv => AlertsAreKept
  BY DEF AlertingInv, HistoryInv, AlertsAreKept, Entered
<1> QED BY <1>1, <1>2, <1>3, PTL DEF MonitorSpec

-----------------------------------------------------------------------------
\* The objects as MCSharedObjects runs them: a behaviour of the composition is
\* one of the queues and one of the monitor, so what is proved of either, by
\* push, pop, percentile, scrape and fire, holds of it.
THEOREM SharedObjectsKept ==
    SharedSpec => /\ [](NoSlotRace /\ SlotHasOneOwner)
                  /\ ImplementsFifo /\ MpscImplementsFifo
                  /\ [](PercentileIsRecent /\ ScrapeIsBracketed /\ AlertsAreKept)
<1>1. SharedInit => QueuesInit /\ MonitorInit
  BY DEF SharedInit
<1>2. [SharedNext]_sharedVars => [QueuesNext]_queueVars /\ [MonitorNext]_monitorVars
  BY DEF SharedNext, sharedVars
<1>3. SharedSpec => QueuesSpec /\ MonitorSpec
  BY <1>1, <1>2, PTL DEF SharedSpec, QueuesSpec, MonitorSpec
<1> QED
  BY <1>3, QueuesKept, PercentilesAreRecent, ScrapesAreBracketed, AlertHistory, PTL
=============================================================================
