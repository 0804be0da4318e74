--------------------------- MODULE LatencyTracker ---------------------------
(***************************************************************************)
(* LatencyTracker (src/src/monitor/latency_tracker.cpp): a ring of the     *)
(* last WindowSize samples.  record() takes a position by an atomic        *)
(* increment of the count and then stores its sample there; a statistic    *)
(* loads the count and then reads as many samples, while others record.    *)
(* The samples are plain memory: two accesses of one word at a time are a  *)
(* data race, which the build's aligned 64-bit loads and stores resolve to *)
(* the old or the new value.                                               *)
(*                                                                         *)
(* The k-th record() brings sample k: the values only tell which call a    *)
(* sample comes from.                                                      *)
(***************************************************************************)
EXTENDS Integers, Sequences, SequencesExt, FiniteSetsExt

CONSTANTS Recorders,    \* threads that call record()
          WindowSize,   \* window_size_
          Percents,     \* 100 * p of the calls percentile(p)
          MaxRecords,   \* bound: calls of record
          MaxResets,    \* bound: calls of reset
          MaxReads      \* bound: calls of percentile

ASSUME TrackerAssumption ==
    /\ WindowSize \in Nat \ {0} /\ Percents \subseteq 0 .. 100
    /\ MaxRecords \in Nat /\ MaxResets \in Nat /\ MaxReads \in Nat

VARIABLES samples,  \* samples_
          count,    \* count_
          recSlot,  \* per recorder: the position it took, or -1
          recValue, \* per recorder: its sample
          recorded, \* history: calls of record so far
          resets,   \* calls of reset so far
          clearing, \* positions reset() still has to clear
          resetAt,  \* history: calls of record before the last reset
          reads,    \* statistics begun so far
          total,    \* the reader: the count it loaded, or -1
          copied,   \* the reader: the samples it has read
          result,   \* the reader: what percentile returned, or -1
          oldest,   \* history: the oldest sample the ring should hold
          early,    \* history: a counted sample was not stored yet, or a reset
                    \* ran, when the reader loaded the count or since
          lapped    \* history: a slow store or clearing hit a newer sample

recVars == <<recSlot, recValue, recorded>>
resetVars == <<resets, clearing, resetAt>>
readVars == <<reads, total, copied, result, oldest>>
latencyVars == <<samples, count, recVars, resetVars, readVars, early, lapped>>

Positions == 0 .. WindowSize - 1

LatencyInit ==
    /\ samples = [i \in Positions |-> 0] /\ count = 0
    /\ recSlot = [t \in Recorders |-> -1] /\ recValue = [t \in Recorders |-> 0]
    /\ recorded = 0 /\ resets = 0 /\ clearing = {} /\ resetAt = 0
    /\ reads = 0 /\ total = -1 /\ copied = << >> /\ result = -1 /\ oldest = 0
    /\ early = FALSE /\ lapped = FALSE

-----------------------------------------------------------------------------
\* Mutant: the position is taken from the count after the increment.
PositionAfter(old) == (old + 1) % WindowSize
Position(old) == old % WindowSize

\* record: the atomic increment hands out a position ...
RecordCounts(t) ==
    /\ recSlot[t] = -1 /\ recorded < MaxRecords
    /\ recorded' = recorded + 1
    /\ recSlot' = [recSlot EXCEPT ![t] = Position(count)]
    /\ recValue' = [recValue EXCEPT ![t] = recorded + 1]
    /\ count' = count + 1
    /\ UNCHANGED <<samples, resetVars, readVars, early, lapped>>

\* ... and then the sample is stored there.
RecordStores(t) ==
    /\ recSlot[t] # -1
    /\ samples' = [samples EXCEPT ![recSlot[t]] = recValue[t]]
    /\ lapped' = (lapped \/ samples[recSlot[t]] > recValue[t])
    /\ recSlot' = [recSlot EXCEPT ![t] = -1]
    /\ recValue' = [recValue EXCEPT ![t] = 0]
    /\ UNCHANGED <<count, recorded, resetVars, readVars, early>>

\* reset: the count first ...
ResetCount ==
    /\ clearing = {} /\ resets < MaxResets
    /\ resets' = resets + 1
    /\ count' = 0
    /\ clearing' = Positions /\ resetAt' = recorded
    /\ early' = TRUE
    /\ UNCHANGED <<samples, recVars, readVars, lapped>>

\* ... then the samples in their order.
ResetClears ==
    /\ clearing # {}
    /\ samples' = [samples EXCEPT ![Min(clearing)] = 0]
    /\ clearing' = clearing \ {Min(clearing)}
    /\ lapped' = (lapped \/ samples[Min(clearing)] > resetAt)
    /\ UNCHANGED <<count, recVars, resets, resetAt, readVars, early>>

-----------------------------------------------------------------------------
Valid(n) == Min({n, WindowSize})

\* percentile: load the count; without samples the answer is 0.
PercentileCounts ==
    /\ total = -1 /\ reads < MaxReads
    /\ reads' = reads + 1
    /\ total' = count
    /\ copied' = << >> /\ result' = IF count = 0 THEN 0 ELSE -1
    /\ oldest' = recorded - Valid(count) + 1
    /\ early' = (clearing # {} \/ \E t \in Recorders : recSlot[t] # -1)
    /\ UNCHANGED <<samples, count, recVars, resetVars, lapped>>

\* percentile: the copy reads the valid samples one after the other.
PercentileCopies ==
    /\ total # -1 /\ Len(copied) < Valid(total)
    /\ copied' = Append(copied, samples[Len(copied)])
    /\ UNCHANGED <<samples, count, recVars, resetVars, reads, total, result, oldest,
                   early, lapped>>

\* static_cast<size_t>(p * (n - 1) + 0.5), as a position counted from 1.
Rank(percent, n) == 1 + (percent * (n - 1) + 50) \div 100

\* What stands at this rank once the samples are sorted.
Ranked(s, rank) ==
    CHOOSE x \in Range(s) :
        /\ Cardinality({i \in DOMAIN s : s[i] < x}) < rank
        /\ rank <= Cardinality({i \in DOMAIN s : s[i] <= x})

\* percentile: sort and pick.
PercentilePicks(percent) ==
    /\ total > 0 /\ Len(copied) = Valid(total) /\ result = -1
    /\ result' = Ranked(copied, Min({Rank(percent, Len(copied)), Len(copied)}))
    /\ UNCHANGED <<samples, count, recVars, resetVars, reads, total, copied, oldest,
                   early, lapped>>

PercentileReturns ==
    /\ result # -1
    /\ total' = -1 /\ result' = -1 /\ copied' = << >> /\ oldest' = 0
    /\ early' = FALSE
    /\ UNCHANGED <<samples, count, recVars, resetVars, reads, lapped>>

Latency ==
    \/ \E t \in Recorders : RecordCounts(t) \/ RecordStores(t)
    \/ ResetCount \/ ResetClears
    \/ PercentileCounts \/ PercentileCopies \/ PercentileReturns
    \/ \E percent \in Percents : PercentilePicks(percent)

-----------------------------------------------------------------------------
(***************************************************************************)
(* "Keeps the last N samples": a percentile is a sample that was really    *)
(* recorded and one of the last WindowSize at the time the count was       *)
(* loaded, or newer, although nobody stops recording meanwhile.  The       *)
(* exceptions are the windows the code leaves open: a sample that was      *)
(* counted and not yet stored, a reset during the call, a recorder so slow *)
(* that a whole ring of samples overtook it before it stored its own, and  *)
(* a reset that clears a sample recorded since it set the count to 0.      *)
(***************************************************************************)
PercentileIsRecent ==
    total > 0 /\ result # -1 => early \/ lapped \/ result \in oldest .. recorded
=============================================================================
