----------------------------- MODULE SpscQueue -----------------------------
(***************************************************************************)
(* SPSCQueue<T, N> (src/src/infra/spsc_queue.hpp): one producer thread,    *)
(* one consumer thread, a ring of N slots and two free-running counters.   *)
(*                                                                         *)
(* Each call is split where the other thread can interleave: the load of   *)
(* the other side's counter, the copy of the payload, the store of the own *)
(* counter.  An acquire load need not return the newest value of an atomic *)
(* written by another thread; it returns one no older than the last value  *)
(* this thread saw.  seenHead and seenTail are those last seen values, and *)
(* a load picks any value from there up to the current one.                *)
(*                                                                         *)
(* size_t arithmetic wraps at Mod (2^64 in the program).                   *)
(***************************************************************************)
EXTENDS Integers, Sequences

CONSTANTS N,        \* capacity, a power of two
          Mod,      \* the counters are unsigned integers modulo Mod
          Values    \* payloads

ASSUME CapacityAssumption == N \in Nat \ {0}
ASSUME ModAssumption == Mod \in Nat /\ \E k \in 2 .. Mod : Mod = k * N
ASSUME ValuesAssumption == Values # {}

VARIABLES tail,      \* tail_, written by the producer only
          head,      \* head_, written by the consumer only
          buffer,    \* buffer_[0 .. N-1]
          ppc,       \* where the producer is in push
          pval,      \* the argument of the current push
          seenHead,  \* the value of head_ the producer loaded last
          cpc,       \* where the consumer is in pop
          cval,      \* the value the current pop copied out of the buffer
          seenTail,  \* the value of tail_ the consumer loaded last
          items,     \* history: published and not yet popped values
          out        \* history: the value the last successful pop returned

prodVars == <<ppc, pval, seenHead>>
consVars == <<cpc, cval, seenTail>>
vars == <<tail, head, buffer, prodVars, consVars, items, out>>

Counter == 0 .. Mod - 1
Slots   == 0 .. N - 1

\* size_t arithmetic: x + 1, x + d and x - y modulo Mod, and x & MASK
Inc(x) == IF x + 1 = Mod THEN 0 ELSE x + 1
Add(x, d) == IF x + d >= Mod THEN x + d - Mod ELSE x + d
Sub(x, y) == IF x >= y THEN x - y ELSE x - y + Mod
Slot(x)   == x % N

\* Mutant: the full test is off by one.
FullOffByOne(t, h) == Sub(t, h) = N + 1
Full(t, h)  == Sub(t, h) = N
\* Mutant: the last value in the ring is taken for an empty ring.
EmptyOffByOne(t, h) == Sub(t, h) <= 1
Empty(t, h) == t = h

\* The values an acquire load may return: from the last one seen to the current.
Visible(seen, cur) == {x \in Counter : Sub(x, seen) <= Sub(cur, seen)}

Init ==
    /\ tail = 0 /\ head = 0
    /\ buffer \in [Slots -> Values]       \* uninitialised storage
    /\ ppc = "idle" /\ pval \in Values /\ seenHead = 0
    /\ cpc = "idle" /\ cval \in Values /\ seenTail = 0
    /\ items = << >>
    /\ out = cval

-----------------------------------------------------------------------------
(* push(val): load tail_ and head_, return false when full, copy, publish. *)

PushLoad(v, h) ==
    /\ ppc = "idle"
    /\ h \in Visible(seenHead, head)
    /\ seenHead' = h
    /\ pval' = v
    /\ ppc' = IF Full(tail, h) THEN "idle" ELSE "write"
    /\ UNCHANGED <<tail, head, buffer, consVars, items, out>>

PushWrite ==
    /\ ppc = "write"
    /\ buffer' = [buffer EXCEPT ![Slot(tail)] = pval]
    /\ ppc' = "publish"
    /\ UNCHANGED <<tail, head, pval, seenHead, consVars, items, out>>

PushPublish ==
    /\ ppc = "publish"
    /\ tail' = Inc(tail)
    /\ items' = Append(items, pval)
    /\ ppc' = "idle"
    /\ UNCHANGED <<head, buffer, pval, seenHead, consVars, out>>

-----------------------------------------------------------------------------
(* pop(val): load head_ and tail_, return false when empty, copy, publish. *)

PopLoad(t) ==
    /\ cpc = "idle"
    /\ t \in Visible(seenTail, tail)
    /\ seenTail' = t
    /\ cpc' = IF Empty(t, head) THEN "idle" ELSE "read"
    /\ UNCHANGED <<tail, head, buffer, prodVars, cval, items, out>>

\* Mutant: the copy is taken from the slot after the front.
PopReadNext ==
    /\ cpc = "read"
    /\ cval' = buffer[Slot(Inc(head))]
    /\ cpc' = "publish"
    /\ UNCHANGED <<tail, head, buffer, prodVars, seenTail, items, out>>

PopRead ==
    /\ cpc = "read"
    /\ cval' = buffer[Slot(head)]
    /\ cpc' = "publish"
    /\ UNCHANGED <<tail, head, buffer, prodVars, seenTail, items, out>>

PopPublish ==
    /\ cpc = "publish"
    /\ head' = Inc(head)
    /\ items' = Tail(items)
    /\ out' = cval
    /\ cpc' = "idle"
    /\ UNCHANGED <<tail, buffer, prodVars, cval, seenTail>>

Producer ==
    \/ \E v \in Values, h \in Counter : PushLoad(v, h)
    \/ PushWrite
    \/ PushPublish

Consumer ==
    \/ \E t \in Counter : PopLoad(t)
    \/ PopRead
    \/ PopPublish

Next == Producer \/ Consumer

Spec == Init /\ [][Next]_vars

(***************************************************************************)
(* The consumer thread polls for ever, and a store becomes visible to      *)
(* another thread in finite time.  Nothing obliges the producer to push.   *)
(***************************************************************************)
Fairness ==
    /\ WF_vars(PopLoad(tail))
    /\ WF_vars(PopRead)
    /\ WF_vars(PopPublish)

FairSpec == Spec /\ Fairness

-----------------------------------------------------------------------------
\* Every variable stays in its type; the counters stay unsigned integers.
TypeOK ==
    /\ tail \in Counter /\ head \in Counter
    /\ buffer \in [Slots -> Values]
    /\ ppc \in {"idle", "write", "publish"} /\ pval \in Values
    /\ seenHead \in Counter
    /\ cpc \in {"idle", "read", "publish"} /\ cval \in Values
    /\ seenTail \in Counter
    /\ items \in Seq(Values)
    /\ out \in Values

(***************************************************************************)
(* The two threads never touch one slot at the same time: while push       *)
(* copies into buffer_[tail & MASK] the pop that is copying reads another  *)
(* slot, however stale the counters the two loaded were.                   *)
(***************************************************************************)
NoSlotRace ==
    ~ (ppc = "write" /\ cpc = "read" /\ Slot(tail) = Slot(head))

(***************************************************************************)
(* The value a pop has copied and is about to return is the oldest         *)
(* published one: nothing is lost, duplicated, reordered or overwritten.   *)
(***************************************************************************)
PopReturnsOldest ==
    cpc = "publish" => items # << >> /\ cval = Head(items)

(***************************************************************************)
(* size(), an unsigned subtraction, counts the published values exactly,   *)
(* also after the counters wrapped, and never exceeds the capacity.        *)
(***************************************************************************)
SizeIsExact ==
    Sub(tail, head) = Len(items) /\ Len(items) <= N

\* The ring between head_ and tail_ holds the published values in order.
RingHoldsItems ==
    \A i \in 1 .. Len(items) : buffer[Slot(Add(head, i - 1))] = items[i]

(***************************************************************************)
(* The inductive invariant.  A stale view is still ordered with the live   *)
(* counters (seenHead <= head <= tail and head <= seenTail <= tail, modulo *)
(* Mod), a producer past its full test has a free slot, a consumer past    *)
(* its empty test has a published value.                                   *)
(***************************************************************************)
IndInv ==
    /\ TypeOK
    /\ SizeIsExact
    /\ RingHoldsItems
    /\ Sub(head, seenHead) <= Sub(tail, seenHead) /\ Sub(tail, seenHead) <= N
    /\ Sub(seenTail, head) <= Sub(tail, head)
    /\ ppc # "idle" => Sub(tail, seenHead) < N
    /\ ppc = "publish" => buffer[Slot(tail)] = pval
    /\ cpc # "idle" => seenTail # head
    /\ cpc = "publish" => cval = items[1]

\* The queue implements a FIFO of N values.
Fifo == INSTANCE BoundedFifo WITH q <- items
ImplementsFifo == Fifo!FifoSpec

\* A published value does not stay at the front: the consumer gets past it.
FrontIsConsumed ==
    \A h \in Counter : (head = h /\ items # << >>) ~> (head # h)
=============================================================================
