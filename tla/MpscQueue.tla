----------------------------- MODULE MpscQueue -----------------------------
(***************************************************************************)
(* MPSCQueue<T, N> (src/src/infra/mpsc_queue.hpp): producers compete for   *)
(* positions with a compare-exchange on tail_, one consumer takes them in  *)
(* order.  The sequence number of a slot says whose turn it is: pos for    *)
(* the producer that claims pos, pos + 1 for the consumer, pos + Capacity  *)
(* for the producer of the next round.                                     *)
(*                                                                         *)
(* A load of an atomic that other threads write may return any value it    *)
(* had so far, which includes every staleness the memory orders allow; the *)
(* compare-exchange sees the newest, and may fail spuriously.              *)
(***************************************************************************)
EXTENDS Integers, Sequences, FiniteSets

CONSTANTS Producers,    \* threads that call push
          Capacity,     \* N
          Payloads,     \* values pushed
          MaxAccepted   \* bound: positions claimed

\* The static_assert admits a capacity of 1 too, for which pos + 1 and
\* pos + Capacity are the same number and a full slot looks free.
ASSUME MpscAssumption ==
    /\ Capacity \in Nat \ {0, 1} /\ Payloads # {} /\ MaxAccepted \in Nat

VARIABLES claimed,    \* tail_
          taken,      \* head_, the consumer's own
          seq,        \* slots_[i].seq
          data,       \* slots_[i].data
          pushPc,     \* per producer: where it is in push
          pushPos,    \* per producer: pos
          pushVal,    \* per producer: val
          popPc,      \* where the consumer is in pop
          popVal,     \* val, once copied
          accepted,   \* history: claimed and not yet delivered values
          delivery    \* history: the value delivered last

pushVars == <<pushPc, pushPos, pushVal>>
popVars == <<taken, popPc, popVal, delivery>>
mpscVars == <<claimed, seq, data, pushVars, popVars, accepted>>

Cells == 0 .. Capacity - 1
Cell(pos) == pos % Capacity

\* T{}, and what a local variable is set to when its call has returned.
T == CHOOSE v \in Payloads : TRUE

\* The values that the sequence number of a slot has had.
Past(i) == {s \in 0 .. seq[i] : s >= i /\ Cell(s - i) \in {0, 1}}

MpscInit ==
    /\ claimed = 0 /\ taken = 0
    /\ seq = [i \in Cells |-> i]
    /\ pushPc = [p \in Producers |-> "idle"] /\ pushPos = [p \in Producers |-> 0]
    /\ popPc = "idle" /\ popVal = T /\ delivery = T
    /\ pushVal = [p \in Producers |-> T]
    /\ data = [i \in Cells |-> T]
    /\ accepted = << >>

-----------------------------------------------------------------------------
(* push(val)                                                               *)

PushReturns(p) ==
    /\ pushPos' = [pushPos EXCEPT ![p] = 0]
    /\ pushVal' = [pushVal EXCEPT ![p] = T]

Pushing == {p \in Producers : pushPc[p] # "idle"}

PushLoadsTail(p, v, pos) ==
    /\ pushPc[p] = "idle"
    /\ claimed + Cardinality(Pushing) < MaxAccepted
    /\ pos \in 0 .. claimed
    /\ pushPos' = [pushPos EXCEPT ![p] = pos]
    /\ pushVal' = [pushVal EXCEPT ![p] = v]
    /\ pushPc' = [pushPc EXCEPT ![p] = "check"]
    /\ UNCHANGED <<claimed, seq, data, popVars, accepted>>

\* Mutant: a slot of the round before is taken for a free one.
TurnEarly(s, pos) == IF s >= pos - Capacity /\ s <= pos THEN "claim" ELSE "reload"

\* The sign of seq - pos: mine, the queue is full (push returns false), or pos
\* is out of date.
Turn(s, pos) == IF s = pos THEN "claim" ELSE IF s < pos THEN "idle" ELSE "reload"

PushChecks(p, s) ==
    /\ pushPc[p] = "check"
    /\ s \in Past(Cell(pushPos[p]))
    /\ pushPc' = [pushPc EXCEPT ![p] = Turn(s, pushPos[p])]
    /\ IF pushPc'[p] = "idle" THEN PushReturns(p) ELSE UNCHANGED <<pushPos, pushVal>>
    /\ UNCHANGED <<claimed, seq, data, popVars, accepted>>

PushReloads(p, pos) ==
    /\ pushPc[p] = "reload"
    /\ pos \in 0 .. claimed
    /\ pushPos' = [pushPos EXCEPT ![p] = pos]
    /\ pushPc' = [pushPc EXCEPT ![p] = "check"]
    /\ UNCHANGED <<claimed, seq, data, pushVal, popVars, accepted>>

\* Mutant: the sequence number is published before the value is written.
PushClaimsPublished(p) ==
    /\ pushPc[p] = "claim" /\ claimed = pushPos[p]
    /\ claimed' = claimed + 1
    /\ accepted' = Append(accepted, pushVal[p])
    /\ seq' = [seq EXCEPT ![Cell(pushPos[p])] = pushPos[p] + 1]
    /\ pushPc' = [pushPc EXCEPT ![p] = "write"]
    /\ UNCHANGED <<data, pushPos, pushVal, popVars>>

\* The compare-exchange succeeds: the position is this producer's ...
PushClaims(p) ==
    /\ pushPc[p] = "claim" /\ claimed = pushPos[p]
    /\ claimed' = claimed + 1
    /\ accepted' = Append(accepted, pushVal[p])
    /\ pushPc' = [pushPc EXCEPT ![p] = "write"]
    /\ UNCHANGED <<seq, data, pushPos, pushVal, popVars>>

\* ... or fails, and has loaded tail_.
PushLoses(p) ==
    /\ pushPc[p] = "claim"
    /\ pushPos' = [pushPos EXCEPT ![p] = claimed]
    /\ pushPc' = [pushPc EXCEPT ![p] = "check"]
    /\ UNCHANGED <<claimed, seq, data, pushVal, popVars, accepted>>

PushWrites(p) ==
    /\ pushPc[p] = "write"
    /\ data' = [data EXCEPT ![Cell(pushPos[p])] = pushVal[p]]
    /\ pushPc' = [pushPc EXCEPT ![p] = "publish"]
    /\ UNCHANGED <<claimed, seq, pushPos, pushVal, popVars, accepted>>

PushPublishes(p) ==
    /\ pushPc[p] = "publish"
    /\ seq' = [seq EXCEPT ![Cell(pushPos[p])] = pushPos[p] + 1]
    /\ pushPc' = [pushPc EXCEPT ![p] = "idle"]
    /\ PushReturns(p)
    /\ UNCHANGED <<claimed, data, popVars, accepted>>

-----------------------------------------------------------------------------
(* pop(val)                                                                *)

Ready(s) == s >= taken + 1

PopChecks(s) ==
    /\ popPc = "idle"
    /\ s \in Past(Cell(taken))
    /\ popPc' = IF Ready(s) THEN "read" ELSE "idle"
    /\ UNCHANGED <<claimed, seq, data, pushVars, taken, popVal, delivery, accepted>>

PopReads ==
    /\ popPc = "read"
    /\ popVal' = data[Cell(taken)]
    /\ popPc' = "release"
    /\ UNCHANGED <<claimed, seq, data, pushVars, taken, delivery, accepted>>

\* The slot goes to the next round; head_ is read by no other thread.
PopReleases ==
    /\ popPc = "release"
    /\ seq' = [seq EXCEPT ![Cell(taken)] = taken + Capacity]
    /\ taken' = taken + 1
    /\ delivery' = popVal /\ accepted' = Tail(accepted)
    /\ popPc' = "idle" /\ popVal' = T
    /\ UNCHANGED <<claimed, data, pushVars>>

Push(p) ==
    \/ \E v \in Payloads, pos \in 0 .. MaxAccepted : PushLoadsTail(p, v, pos)
    \/ \E s \in 0 .. MaxAccepted + Capacity : PushChecks(p, s)
    \/ \E pos \in 0 .. MaxAccepted : PushReloads(p, pos)
    \/ PushClaims(p) \/ PushLoses(p) \/ PushWrites(p) \/ PushPublishes(p)

Pop ==
    \/ \E s \in 0 .. MaxAccepted + Capacity : PopChecks(s)
    \/ PopReads \/ PopReleases

MpscNext == Pop \/ \E p \in Producers : Push(p)

MpscSpec == MpscInit /\ [][MpscNext]_mpscVars

-----------------------------------------------------------------------------
\* The producers that are about to write, or to publish, a slot.
Owners(i) == {p \in Producers : pushPc[p] \in {"write", "publish"} /\ Cell(pushPos[p]) = i}

(***************************************************************************)
(* A slot has one owner at a time, a producer between its claim and its    *)
(* publication or the consumer between its test and its release, however   *)
(* stale the loads that led there.                                         *)
(***************************************************************************)
SlotHasOneOwner ==
    /\ \A i \in Cells : Cardinality(Owners(i)) <= 1
    /\ popPc # "idle" => Owners(Cell(taken)) = {}

(***************************************************************************)
(* The queue is a FIFO in the order in which the producers claimed their   *)
(* positions, although they fill them in any order.                        *)
(***************************************************************************)
MpscFifo == INSTANCE BoundedFifo WITH q <- accepted, out <- delivery,
                                      N <- Capacity, Values <- Payloads
MpscImplementsFifo == MpscFifo!FifoSpec
=============================================================================
