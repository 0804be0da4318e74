----------------------------- MODULE Histogram -----------------------------
(***************************************************************************)
(* Histogram (src/src/monitor/metrics.cpp): observe() increments every     *)
(* bucket whose boundary is not below the value, then the sum, then the    *)
(* count, each an atomic of its own; to_prometheus_text() loads the count  *)
(* and the sum first and the buckets after them.  Nothing makes the loads  *)
(* of one scrape consistent with each other.                               *)
(***************************************************************************)
EXTENDS Integers, Sequences, FiniteSetsExt

CONSTANTS Observers,    \* threads that call observe()
          Observables,  \* observed values
          Boundaries,   \* boundaries_, sorted by the constructor
          MaxObserved,  \* bound: calls of observe
          MaxScrapes    \* bound: calls of to_prometheus_text

ASSUME HistogramAssumption ==
    /\ IsFiniteSet(Observers) /\ IsFiniteSet(Observables)
    /\ Observables \subseteq Nat /\ Boundaries \in Seq(Nat)
    /\ MaxObserved \in Nat /\ MaxScrapes \in Nat

VARIABLES buckets,  \* buckets_
          sum,      \* sum_
          hits,     \* count_
          obsStep,  \* per observer: the next bucket, Sum, Count or Idle
          obsValue, \* per observer: its value
          begun,    \* history: value -> calls of observe begun with it
          ended,    \* history: value -> calls of observe returned
          scStep,   \* the scraper: the next bucket, Sum, Count or Idle
          scraped,  \* the scraper: what it has loaded
          base,     \* history: ended when the scrape began
          scrapes   \* calls of to_prometheus_text so far

obsVars == <<buckets, sum, hits, obsStep, obsValue, begun, ended>>
scrapeVars == <<scStep, scraped, base, scrapes>>
histogramVars == <<obsVars, scrapeVars>>

\* The steps of a call: the buckets 1, 2, ..., or one of
Sum == Len(Boundaries) + 1
Count == Len(Boundaries) + 2
Idle == 0
Text == -1   \* everything is loaded

None == [v \in Observables |-> 0]
NothingScraped == [count |-> 0, sum |-> 0, buckets |-> << >>]

HistogramInit ==
    /\ buckets = [b \in DOMAIN Boundaries |-> 0] /\ sum = 0 /\ hits = 0
    /\ obsStep = [t \in Observers |-> Idle] /\ obsValue = [t \in Observers |-> 0]
    /\ begun = None /\ ended = None /\ base = None
    /\ scStep = Idle /\ scraped = NothingScraped /\ scrapes = 0

\* How many calls brought a value of the set, and what those values add up to.
CallsWith(calls, set) == MapThenSumSet(LAMBDA v : calls[v], set)
TotalOf(calls) == CallsWith([v \in Observables |-> v * calls[v]], Observables)
UpTo(bound) == {v \in Observables : v <= bound}

-----------------------------------------------------------------------------
Observe(t, v) ==
    /\ obsStep[t] = Idle /\ CallsWith(begun, Observables) < MaxObserved
    /\ obsStep' = [obsStep EXCEPT ![t] = 1]
    /\ obsValue' = [obsValue EXCEPT ![t] = v]
    /\ begun' = [begun EXCEPT ![v] = @ + 1]
    /\ UNCHANGED <<buckets, sum, hits, ended, scrapeVars>>

\* Mutant: a value on the boundary is not counted.
FallsInsideStrict(v, bound) == v < bound
FallsInside(v, bound) == v <= bound

ObserveBucket(t) ==
    /\ obsStep[t] \in DOMAIN Boundaries
    /\ LET b == obsStep[t] IN
       buckets' = IF FallsInside(obsValue[t], Boundaries[b])
                  THEN [buckets EXCEPT ![b] = @ + 1] ELSE buckets
    /\ obsStep' = [obsStep EXCEPT ![t] = @ + 1]
    /\ UNCHANGED <<sum, hits, obsValue, begun, ended, scrapeVars>>

ObserveSum(t) ==
    /\ obsStep[t] = Sum
    /\ sum' = sum + obsValue[t]
    /\ obsStep' = [obsStep EXCEPT ![t] = Count]
    /\ UNCHANGED <<buckets, hits, obsValue, begun, ended, scrapeVars>>

ObserveCount(t) ==
    /\ obsStep[t] = Count
    /\ hits' = hits + 1
    /\ ended' = [ended EXCEPT ![obsValue[t]] = @ + 1]
    /\ obsStep' = [obsStep EXCEPT ![t] = Idle]
    /\ obsValue' = [obsValue EXCEPT ![t] = 0]
    /\ UNCHANGED <<buckets, sum, begun, scrapeVars>>

-----------------------------------------------------------------------------
(* to_prometheus_text                                                      *)

ScrapeCount ==
    /\ scStep = Idle /\ scrapes < MaxScrapes
    /\ scrapes' = scrapes + 1
    /\ base' = ended
    /\ scraped' = [scraped EXCEPT !.count = hits]
    /\ scStep' = Sum
    /\ UNCHANGED obsVars

ScrapeSum ==
    /\ scStep = Sum
    /\ scraped' = [scraped EXCEPT !.sum = sum]
    /\ scStep' = IF Boundaries = << >> THEN Text ELSE 1
    /\ UNCHANGED <<obsVars, base, scrapes>>

ScrapeBucket ==
    /\ scStep \in DOMAIN Boundaries
    /\ scraped' = [scraped EXCEPT !.buckets = Append(@, buckets[scStep])]
    /\ scStep' = IF scStep = Len(Boundaries) THEN Text ELSE scStep + 1
    /\ UNCHANGED <<obsVars, base, scrapes>>

ScrapeReturns ==
    /\ scStep = Text
    /\ scraped' = NothingScraped /\ base' = None
    /\ scStep' = Idle
    /\ UNCHANGED <<obsVars, scrapes>>

Measure ==
    \/ \E t \in Observers :
        ObserveBucket(t) \/ ObserveSum(t) \/ ObserveCount(t) \/ \E v \in Observables : Observe(t, v)
    \/ ScrapeCount \/ ScrapeSum \/ ScrapeBucket \/ ScrapeReturns

-----------------------------------------------------------------------------
(***************************************************************************)
(* Every number of a scrape counts all observations that were complete     *)
(* when it began and none that had not begun when it ended, each with the  *)
(* buckets its value belongs to.  Without an observation under way the     *)
(* text is the exact, cumulative histogram; with one it may show a bucket  *)
(* above a larger one or above the +Inf line, by no more than the          *)
(* observations under way.                                                 *)
(***************************************************************************)
ScrapeIsBracketed ==
    scStep = Text =>
        /\ scraped.count \in CallsWith(base, Observables) .. CallsWith(begun, Observables)
        /\ scraped.sum \in TotalOf(base) .. TotalOf(begun)
        /\ \A b \in DOMAIN Boundaries :
            scraped.buckets[b] \in CallsWith(base, UpTo(Boundaries[b])) ..
                                   CallsWith(begun, UpTo(Boundaries[b]))
=============================================================================
