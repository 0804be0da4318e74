---------------------------- MODULE RateLimiter ----------------------------
(***************************************************************************)
(* RateLimiter (src/src/risk/rate_limiter.cpp): a token bucket on atomics. *)
(* try_acquire reads the clock, refills (load last_refill_ns_, compute the *)
(* increment, compare-exchange last_refill_ns_ and ignore whether that     *)
(* worked, add the increment up to the burst) and then takes its tokens.   *)
(* The two compare-exchange loops on tokens_ take effect at their          *)
(* successful iteration and are one step each.                             *)
(*                                                                         *)
(* Tokens are stored scaled (Scale is 1000 in the program) and a time unit *)
(* yields RateScaled / NsPerSec scaled tokens, by integer division.  The   *)
(* product elapsed * RateScaled is a signed integer of the program: it     *)
(* wraps above IntMax, what the build's two's complement arithmetic does   *)
(* with the overflow.                                                      *)
(***************************************************************************)
EXTENDS Integers, FiniteSets

CONSTANTS Callers,
          Burst,        \* bucket capacity in tokens
          Scale,        \* scaled tokens per token
          RateScaled,   \* scaled tokens per NsPerSec time units
          NsPerSec,     \* time units per second
          IntMax,       \* largest signed integer
          MaxTime       \* bound: the clock

ASSUME RateAssumption ==
    /\ Burst \in Nat \ {0} /\ Scale \in Nat \ {0} /\ RateScaled \in Nat \ {0}
    /\ NsPerSec \in Nat \ {0} /\ IntMax \in Nat \ {0} /\ MaxTime \in Nat
    /\ IsFiniteSet(Callers)

VARIABLES clock,     \* CLOCK_MONOTONIC_RAW
          tokens,    \* tokens_
          last,      \* last_refill_ns_
          rlPc,        \* per thread: where it is in try_acquire
          now,       \* per thread: the clock it read
          seenLast,  \* per thread: the last_refill_ns_ it loaded
          add,       \* per thread: add_scaled
          granted,   \* history: tokens handed out
          wronged,   \* history: a refused caller was due a whole token
          surplus,   \* history: increments added although the stamp failed
          overflowed \* history: a product left the integers

rateVars == <<clock, tokens, last, rlPc, now, seenLast, add, granted, wronged,
              surplus, overflowed>>

BurstScaled == Burst * Scale
MinOf(a, b) == IF a < b THEN a ELSE b

\* Signed wrap-around.
Wrap(x) == ((x + IntMax + 1) % (2 * (IntMax + 1))) - (IntMax + 1)

\* C++ integer division truncates towards zero.
Quotient(a, b) == IF a >= 0 THEN a \div b ELSE -((-a) \div b)

AddScaled(elapsed) == Quotient(Wrap(elapsed * RateScaled), NsPerSec)

\* What a time span is worth, computed without a word size.
Accrued(elapsed) == (elapsed * RateScaled) \div NsPerSec

RateInit ==
    /\ clock = 0
    /\ tokens = BurstScaled
    /\ last = 0
    /\ rlPc = [t \in Callers |-> "idle"]
    /\ now = [t \in Callers |-> 0]
    /\ seenLast = [t \in Callers |-> 0]
    /\ add = [t \in Callers |-> 0]
    /\ granted = 0
    /\ wronged = FALSE
    /\ surplus = 0
    /\ overflowed = FALSE

Tick ==
    /\ clock < MaxTime
    /\ clock' = clock + 1
    /\ UNCHANGED <<tokens, last, rlPc, now, seenLast, add, granted, wronged,
                   surplus, overflowed>>

\* try_acquire: get_ns().
ReadClock(t) ==
    /\ rlPc[t] = "idle"
    /\ now' = [now EXCEPT ![t] = clock]
    /\ rlPc' = [rlPc EXCEPT ![t] = "load"]
    /\ UNCHANGED <<clock, tokens, last, seenLast, add, granted, wronged,
                   surplus, overflowed>>

\* refill: load last_refill_ns_; too little time, or no whole increment, and
\* the refill is over.
LoadLast(t) ==
    /\ rlPc[t] = "load"
    /\ seenLast' = [seenLast EXCEPT ![t] = last]
    /\ LET elapsed == now[t] - last
           inc     == AddScaled(elapsed)
       IN IF elapsed <= 0 \/ inc <= 0
          THEN /\ rlPc' = [rlPc EXCEPT ![t] = "take"]
               /\ add' = [add EXCEPT ![t] = 0]
          ELSE /\ rlPc' = [rlPc EXCEPT ![t] = "stamp"]
               /\ add' = [add EXCEPT ![t] = inc]
    /\ overflowed' = (overflowed \/ (now[t] - last) * RateScaled > IntMax)
    /\ UNCHANGED <<clock, tokens, last, now, granted, wronged, surplus>>

\* refill: compare-exchange last_refill_ns_; a failure is ignored.
Stamp(t) ==
    /\ rlPc[t] = "stamp"
    /\ IF last = seenLast[t]
       THEN last' = now[t] /\ surplus' = surplus
       ELSE last' = last /\ surplus' = surplus + add[t]
    /\ rlPc' = [rlPc EXCEPT ![t] = "refill"]
    /\ UNCHANGED <<clock, tokens, now, seenLast, add, granted, wronged,
                   overflowed>>

\* Mutant: the refill fills the bucket.
RefilledFull(old, inc) == BurstScaled
Refilled(old, inc) == MinOf(old + inc, BurstScaled)

\* refill: the loop that adds the increment, at most up to the burst.
AddTokens(t) ==
    /\ rlPc[t] = "refill"
    /\ tokens' = Refilled(tokens, add[t])
    /\ rlPc' = [rlPc EXCEPT ![t] = "take"]
    /\ UNCHANGED <<clock, last, now, seenLast, add, granted, wronged,
                   surplus, overflowed>>

\* try_acquire returns and its locals are gone.
Returns(t) ==
    /\ rlPc' = [rlPc EXCEPT ![t] = "idle"]
    /\ now' = [now EXCEPT ![t] = 0]
    /\ seenLast' = [seenLast EXCEPT ![t] = 0]
    /\ add' = [add EXCEPT ![t] = 0]

\* Mutant: refuses when exactly the needed tokens are there.
EnoughStrict(cur) == cur > Scale
Enough(cur) == cur >= Scale

\* try_acquire: the loop that takes one token.
Take(t) ==
    /\ rlPc[t] = "take"
    /\ Enough(tokens)
    /\ tokens' = tokens - Scale
    /\ granted' = granted + 1
    /\ Returns(t)
    /\ UNCHANGED <<clock, last, wronged, surplus, overflowed>>

Refuse(t) ==
    /\ rlPc[t] = "take"
    /\ ~Enough(tokens)
    /\ wronged' = (wronged \/ tokens + Accrued(now[t] - last) >= Scale)
    /\ Returns(t)
    /\ UNCHANGED <<clock, tokens, last, granted, surplus, overflowed>>

RateNext ==
    \/ Tick
    \/ \E t \in Callers :
        \/ ReadClock(t)
        \/ LoadLast(t)
        \/ Stamp(t)
        \/ AddTokens(t)
        \/ Take(t)
        \/ Refuse(t)

RateSpec == RateInit /\ [][RateNext]_rateVars

-----------------------------------------------------------------------------
\* "At most rate_per_sec tokens per second": since the start no more tokens
\* were granted than the burst, what the elapsed time yields, and the
\* increments of the refills that added although another caller's stamp had
\* overtaken theirs.  The limiter exceeds its rate by no other way.
RateIsRespected ==
    granted * Scale <= BurstScaled + Accrued(clock) + surplus

\* "First refill what accumulated since the last call, then take": a caller is
\* refused only when the stored tokens and those accrued since the last
\* refill do not make one token, unless the product overflowed after a long
\* pause or two refills overlapped.
RefusedOnlyWhenEmpty ==
    ~wronged \/ overflowed \/ surplus > 0

\* The limiter grants what its rate allows, neither more nor less, but for the
\* two windows that the parts name.
RateIsKept == RateIsRespected /\ RefusedOnlyWhenEmpty
=============================================================================
