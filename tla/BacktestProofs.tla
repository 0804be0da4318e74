--------------------------- MODULE BacktestProofs ---------------------------
(***************************************************************************)
(* Theorems about the books of the trading program and of the back test:   *)
(* PositionManager keeps its average cost and its realised PnL in balance  *)
(* with the money that moved; a reader of the two atomics never combines a *)
(* quantity with an older average; and in the back test orders, fills,     *)
(* position and report add up, for every sequence of orders, quotes and    *)
(* fills.                                                                  *)
(***************************************************************************)
EXTENDS Backtest, SumTheorems, TLAPS

-----------------------------------------------------------------------------
(* One fill, as arithmetic                                                 *)

Lo == Min(Prices)
Hi == Max(Prices)

\* A fill at a price in the range of the market.
SomeFills == [side : {"BUY", "SELL"}, qty : Nat \ {0}, px : Lo .. Hi]

\* The prices of the fills have a lowest and a highest one.
LEMMA PriceRange ==
    /\ Lo \in Nat \ {0} /\ Hi \in Nat \ {0}
    /\ FillEvents \subseteq SomeFills
<1>1. /\ Prices # {} /\ IsFiniteSet(Prices) /\ \A x \in Prices : x \in Nat \ {0}
      /\ MaxQty \in Nat \ {0}
  BY PositionAssumption
<1>2. Lo \in Prices /\ \A y \in Prices : Lo <= y
  BY <1>1, MinBounds DEF Lo
<1>3. Hi \in Prices /\ \A y \in Prices : Hi >= y
  BY <1>1, MaxBounds DEF Hi
<1>4. ASSUME NEW y \in Prices PROVE y \in Lo .. Hi
  BY <1>1, <1>2, <1>3
<1>5. 1 .. MaxQty \subseteq Nat \ {0}
  BY <1>1
<1> QED BY <1>1, <1>2, <1>3, <1>4, <1>5 DEF FillEvents, SomeFills

\* The integer average of n units at a and q units at p loses less than one
\* tick per unit and stays between bounds that both prices respect.
LEMMA IntegerMean ==
    ASSUME NEW a \in Nat, NEW n \in Nat, NEW p \in Nat, NEW q \in Nat \ {0},
           NEW lo \in Nat, NEW hi \in Nat, lo <= p, p <= hi,
           n # 0 => lo <= a /\ a <= hi
    PROVE  \E v \in Nat : /\ (a * n + p * q) \div (n + q) = v
                          /\ v * (n + q) <= a * n + p * q
                          /\ a * n + p * q <= v * (n + q) + (n + q) - 1
                          /\ lo <= v /\ v <= hi
<1>. DEFINE x == a * n + p * q
            m == n + q
<1>1. x \in Int /\ m \in Nat \ {0}
  OBVIOUS
<1>2. lo * m <= x /\ x <= hi * m
  <2>1. lo * n <= a * n /\ a * n <= hi * n
    <3>1. CASE n = 0
      BY <3>1
    <3>2. CASE n # 0
      BY <3>2, TimesMonotone
    <3> QED BY <3>1, <3>2
  <2>2. lo * q <= p * q /\ p * q <= hi * q
    BY TimesMonotone
  <2>3. lo * m = lo * n + lo * q /\ hi * m = hi * n + hi * q
    OBVIOUS
  <2>4. /\ lo * n \in Int /\ lo * q \in Int /\ hi * n \in Int /\ hi * q \in Int
        /\ a * n \in Int /\ p * q \in Int
    OBVIOUS
  <2> QED BY <2>1, <2>2, <2>3, <2>4
<1>3. (a * n + p * q) \div (n + q) = x \div m
  OBVIOUS
<1>. HIDE DEF x, m
<1>4. PICK v \in Int : x \div m = v /\ m * v <= x /\ x < m * v + m
  BY <1>1, DivBounds
<1>5. lo <= v
  <2>. SUFFICES ASSUME v + 1 <= lo PROVE FALSE
    OBVIOUS
  <2>1. (v + 1) * m <= lo * m
    BY <1>1, TimesMonotone
  <2>2. (v + 1) * m = m * v + m /\ lo * m \in Int /\ m * v \in Int
    BY <1>1
  <2> QED BY <1>1, <1>2, <1>4, <2>1, <2>2
<1>6. v <= hi
  <2>. SUFFICES ASSUME hi + 1 <= v PROVE FALSE
    OBVIOUS
  <2>1. (hi + 1) * m <= v * m
    BY <1>1, TimesMonotone
  <2>2. (hi + 1) * m = hi * m + m /\ v * m = m * v /\ hi * m \in Int /\ m * v \in Int
    BY <1>1
  <2> QED BY <1>1, <1>2, <1>4, <2>1, <2>2
<1>7. v \in Nat /\ v * m = m * v /\ m * v \in Int
  BY <1>1, <1>5
<1>8. v * m <= x /\ x <= v * m + m - 1
  BY <1>1, <1>4, <1>7
<1> QED BY <1>3, <1>4, <1>5, <1>6, <1>7, <1>8 DEF x, m

\* Reducing, closing or flipping realises exactly what leaves the position.
LEMMA ClosingIsExact ==
    ASSUME NEW a \in Int, NEW n \in Int, NEW p \in Int, NEW q \in Int
    PROVE  /\ (a - p) * (-n) - p * (n + q) + q * p + a * n = 0
           /\ (p - a) * n - p * (n - q) + (-q) * p + a * n = 0
           /\ (a - p) * q - a * (n + q) + q * p + a * n = 0
           /\ (p - a) * q - a * (n - q) + (-q) * p + a * n = 0
           /\ (a - p) * (-n) \in Int /\ (p - a) * n \in Int
           /\ (a - p) * q \in Int /\ (p - a) * q \in Int
<1>1. (a - p) * (-n) = p * n - a * n /\ (p - a) * n = p * n - a * n
  OBVIOUS
<1>2. (a - p) * q = a * q - p * q /\ (p - a) * q = p * q - a * q
  OBVIOUS
<1>3. p * (n + q) = p * n + p * q /\ p * (n - q) = p * n - p * q
  OBVIOUS
<1>4. a * (n + q) = a * n + a * q /\ a * (n - q) = a * n - a * q
  OBVIOUS
<1>5. q * p = p * q /\ (-q) * p = -(p * q)
  OBVIOUS
<1>6. a * n \in Int /\ p * n \in Int /\ a * q \in Int /\ p * q \in Int
  OBVIOUS
<1> QED BY <1>1, <1>2, <1>3, <1>4, <1>5, <1>6

\* Position and cost between two fills: an average is kept exactly for a
\* position that is open, and it lies in the range of the prices.
Priced(a, n) ==
    /\ a \in Nat /\ n \in Int
    /\ IF n = 0 THEN a = 0 ELSE Lo <= a /\ a <= Hi

\* What a fill does to realised PnL minus cost of the position minus cash.
Drift(f) == PnlDelta(f) - NewAvg(f) * NewQty(f) + Signed(f) * f.px + avg * net

\* on_fill: whether it opens, reduces, closes or flips the position, a fill
\* moves that difference by no more than the rounding of a new average.
LEMMA FillIsBalanced ==
    ASSUME Priced(avg, net), NEW f \in SomeFills
    PROVE  /\ Priced(NewAvg(f), NewQty(f))
           /\ PnlDelta(f) \in Int /\ Signed(f) \in Int
           /\ Drift(f) \in Int
           /\ Opens(f) => Abs(NewQty(f)) - 1 \in Nat /\ Abs(Drift(f)) <= Abs(NewQty(f)) - 1
           /\ ~Opens(f) => Drift(f) = 0
<1>. DEFINE a == avg
            n == net
            p == f.px
            q == f.qty
<1>1. /\ a \in Nat /\ n \in Int /\ p \in Nat /\ q \in Nat \ {0} /\ f.side \in {"BUY", "SELL"}
      /\ Lo \in Nat \ {0} /\ Hi \in Nat \ {0} /\ Lo <= p /\ p <= Hi
      /\ n # 0 => Lo <= a /\ a <= Hi
      /\ n = 0 => a = 0
  BY PriceRange DEF Priced, SomeFills
<1>a. a = avg /\ n = net /\ p = f.px /\ q = f.qty
  OBVIOUS
<1>. HIDE DEF a, n, p, q
<1>. DEFINE d == IF f.side = "BUY" THEN q ELSE -q
<1>2. Signed(f) = d /\ NewQty(f) = n + d /\ d \in Int
  BY <1>a, <1>1 DEF Signed, NewQty
<1>3. CASE f.side = "BUY" /\ n >= 0
  <2>1. Opens(f) /\ PnlDelta(f) = 0 /\ NewQty(f) = n + q /\ Abs(n) = n /\ Abs(n + q) = n + q
    BY <1>a, <1>1, <1>2, <1>3 DEF Opens, PnlDelta, Abs
  <2>2. PICK v \in Nat : /\ (a * n + p * q) \div (n + q) = v
                         /\ v * (n + q) <= a * n + p * q
                         /\ a * n + p * q <= v * (n + q) + (n + q) - 1
                         /\ Lo <= v /\ v <= Hi
    BY <1>1, <1>3, IntegerMean
  <2>3. NewAvg(f) = v
    BY <1>a, <2>1, <2>2 DEF NewAvg
  <2>4. Drift(f) = (a * n + p * q) - v * (n + q)
    BY <1>a, <1>1, <1>2, <1>3, <2>1, <2>3 DEF Drift
  <2>a. n + q \in Nat \ {0}
    BY <1>1, <1>3
  <2>5. a * n + p * q \in Int /\ v * (n + q) \in Int /\ n + q \in Nat \ {0}
    BY <1>1, <1>3
  <2>6. Priced(NewAvg(f), NewQty(f))
    BY <2>1, <2>2, <2>3, <2>5 DEF Priced
  <2>7. Drift(f) \in Int /\ Drift(f) >= 0 /\ Drift(f) <= (n + q) - 1
    <3>. DEFINE x == a * n + p * q
                y == v * (n + q)
                w == n + q
    <3>0. x \in Int /\ y \in Int /\ w \in Int
      BY <2>5, <2>a
    <3>1. /\ x \in Int /\ y \in Int /\ w \in Int /\ y <= x /\ x <= y + w - 1
          /\ Drift(f) = x - y
      BY <3>0, <2>2, <2>4, Zenon
    <3>2. Drift(f) \in Int /\ Drift(f) >= 0 /\ Drift(f) <= w - 1
      <4>. HIDE DEF x, y, w
      <4> QED BY <3>1
    <3> QED BY <3>2
  <2>8. Abs(Drift(f)) = Drift(f)
    BY <2>7 DEF Abs
  <2>9. Abs(NewQty(f)) - 1 = (n + q) - 1 /\ (n + q) - 1 \in Nat
    <3>1. Abs(NewQty(f)) = n + q
      BY <2>1
    <3>. DEFINE w == n + q
                z == Abs(NewQty(f))
    <3>2. w \in Nat \ {0} /\ z = w
      BY <2>a, <3>1
    <3>3. z - 1 = w - 1 /\ w - 1 \in Nat
      <4>. HIDE DEF w, z
      <4> QED BY <3>2
    <3> QED BY <3>3
  <2>10. Abs(Drift(f)) <= (n + q) - 1
    BY <2>7, <2>8
  <2>11. PnlDelta(f) \in Int /\ Signed(f) \in Int
    BY <1>2, <2>1
  <2> QED BY <2>1, <2>6, <2>7, <2>9, <2>10, <2>11, Zenon
<1>4. CASE f.side = "SELL" /\ n <= 0
  <2>. DEFINE m == -n
  <2>0. m \in Nat /\ n = -m /\ (m # 0 => Lo <= a /\ a <= Hi)
    BY <1>1, <1>4
  <2>1. Opens(f) /\ PnlDelta(f) = 0 /\ NewQty(f) = -(m + q) /\ Abs(n) = m /\ Abs(NewQty(f)) = m + q
    BY <1>a, <1>1, <1>2, <1>4 DEF Opens, PnlDelta, Abs
  <2>2. PICK v \in Nat : /\ (a * m + p * q) \div (m + q) = v
                         /\ v * (m + q) <= a * m + p * q
                         /\ a * m + p * q <= v * (m + q) + (m + q) - 1
                         /\ Lo <= v /\ v <= Hi
    BY <1>1, <2>0, IntegerMean
  <2>3. NewAvg(f) = v
    BY <1>a, <2>1, <2>2 DEF NewAvg
  <2>4. Drift(f) = v * (m + q) - (a * m + p * q)
    BY <1>a, <1>1, <1>2, <1>4, <2>1, <2>3 DEF Drift
  <2>a. m + q \in Nat \ {0}
    BY <1>1, <2>0
  <2>5. a * m + p * q \in Int /\ v * (m + q) \in Int /\ m + q \in Nat \ {0}
    BY <1>1, <2>0
  <2>6. Priced(NewAvg(f), NewQty(f))
    BY <2>1, <2>2, <2>3, <2>5 DEF Priced
  <2>7. Drift(f) \in Int /\ Drift(f) <= 0 /\ -Drift(f) <= (m + q) - 1
    <3>. DEFINE x == a * m + p * q
                y == v * (m + q)
                w == m + q
    <3>0. x \in Int /\ y \in Int /\ w \in Int
      BY <2>5, <2>a
    <3>1. /\ x \in Int /\ y \in Int /\ w \in Int /\ y <= x /\ x <= y + w - 1
          /\ Drift(f) = y - x
      BY <3>0, <2>2, <2>4, Zenon
    <3>2. Drift(f) \in Int /\ Drift(f) <= 0 /\ -Drift(f) <= w - 1
      <4>. HIDE DEF x, y, w
      <4> QED BY <3>1
    <3> QED BY <3>2
  <2>8. Abs(Drift(f)) = -Drift(f)
    BY <2>7 DEF Abs
  <2>9. Abs(NewQty(f)) - 1 = (m + q) - 1 /\ (m + q) - 1 \in Nat
    <3>1. Abs(NewQty(f)) = m + q
      BY <2>1
    <3>. DEFINE w == m + q
                z == Abs(NewQty(f))
    <3>2. w \in Nat \ {0} /\ z = w
      BY <2>a, <3>1
    <3>3. z - 1 = w - 1 /\ w - 1 \in Nat
      <4>. HIDE DEF w, z
      <4> QED BY <3>2
    <3> QED BY <3>3
  <2>10. Abs(Drift(f)) <= (m + q) - 1
    BY <2>7, <2>8
  <2>11. PnlDelta(f) \in Int /\ Signed(f) \in Int
    BY <1>2, <2>1
  <2> QED BY <2>1, <2>6, <2>7, <2>9, <2>10, <2>11, Zenon
<1>5. CASE f.side = "BUY" /\ n < 0
  <2>1. ~Opens(f) /\ Abs(n) = -n /\ NewQty(f) = n + q /\ Signed(f) = q
    BY <1>a, <1>1, <1>2, <1>5 DEF Opens, Abs
  <2>2. CASE q > -n
    <3>1. NewAvg(f) = p /\ PnlDelta(f) = (a - p) * (-n)
      BY <1>a, <1>1, <1>5, <2>1, <2>2 DEF NewAvg, Flips, PnlDelta, CloseQty, MinOf
    <3>2. Drift(f) = (a - p) * (-n) - p * (n + q) + q * p + a * n
      BY <1>a, <2>1, <3>1 DEF Drift
    <3>3. (a - p) * (-n) - p * (n + q) + q * p + a * n = 0 /\ (a - p) * (-n) \in Int
      BY <1>1, ClosingIsExact
    <3>4. Priced(NewAvg(f), NewQty(f))
      BY <1>1, <2>1, <2>2, <3>1 DEF Priced
    <3> QED BY <1>2, <2>1, <3>1, <3>2, <3>3, <3>4
  <2>3. CASE q <= -n
    <3>1. /\ ~Flips(f) /\ PnlDelta(f) = (a - p) * q
          /\ NewAvg(f) = IF n + q = 0 THEN 0 ELSE a
      BY <1>a, <1>1, <1>5, <2>1, <2>3 DEF NewAvg, Flips, PnlDelta, CloseQty, MinOf
    <3>2. NewAvg(f) * (n + q) = a * (n + q)
      BY <1>1, <3>1
    <3>3. Drift(f) = (a - p) * q - a * (n + q) + q * p + a * n
      BY <1>a, <2>1, <3>1, <3>2 DEF Drift
    <3>4. (a - p) * q - a * (n + q) + q * p + a * n = 0 /\ (a - p) * q \in Int
      BY <1>1, ClosingIsExact
    <3>5. Priced(NewAvg(f), NewQty(f))
      BY <1>1, <2>1, <2>3, <3>1 DEF Priced
    <3> QED BY <1>2, <2>1, <3>1, <3>3, <3>4, <3>5
  <2> QED BY <1>1, <2>2, <2>3
<1>6. CASE f.side = "SELL" /\ n > 0
  <2>1. ~Opens(f) /\ Abs(n) = n /\ NewQty(f) = n - q /\ Signed(f) = -q
    BY <1>a, <1>1, <1>2, <1>6 DEF Opens, Abs
  <2>2. CASE q > n
    <3>1. NewAvg(f) = p /\ PnlDelta(f) = (p - a) * n
      BY <1>a, <1>1, <1>6, <2>1, <2>2 DEF NewAvg, Flips, PnlDelta, CloseQty, MinOf
    <3>2. Drift(f) = (p - a) * n - p * (n - q) + (-q) * p + a * n
      BY <1>a, <2>1, <3>1 DEF Drift
    <3>3. (p - a) * n - p * (n - q) + (-q) * p + a * n = 0 /\ (p - a) * n \in Int
      BY <1>1, ClosingIsExact
    <3>4. Priced(NewAvg(f), NewQty(f))
      BY <1>1, <2>1, <2>2, <3>1 DEF Priced
    <3> QED BY <1>2, <2>1, <3>1, <3>2, <3>3, <3>4
  <2>3. CASE q <= n
    <3>1. /\ ~Flips(f) /\ PnlDelta(f) = (p - a) * q
          /\ NewAvg(f) = IF n - q = 0 THEN 0 ELSE a
      BY <1>a, <1>1, <1>6, <2>1, <2>3 DEF NewAvg, Flips, PnlDelta, CloseQty, MinOf
    <3>2. NewAvg(f) * (n - q) = a * (n - q)
      BY <1>1, <3>1
    <3>3. Drift(f) = (p - a) * q - a * (n - q) + (-q) * p + a * n
      BY <1>a, <2>1, <3>1, <3>2 DEF Drift
    <3>4. (p - a) * q - a * (n - q) + (-q) * p + a * n = 0 /\ (p - a) * q \in Int
      BY <1>1, ClosingIsExact
    <3>5. Priced(NewAvg(f), NewQty(f))
      BY <1>1, <2>1, <2>3, <3>1 DEF Priced
    <3> QED BY <1>2, <2>1, <3>1, <3>3, <3>4, <3>5
  <2> QED BY <1>1, <2>2, <2>3
<1> QED BY <1>1, <1>3, <1>4, <1>5, <1>6

-----------------------------------------------------------------------------
(* The books                                                               *)

Balanced(a, n) == Priced(a, n) /\ Abs(realized - a * n - cash) <= slack

(***************************************************************************)
(* on_fill updates its three atomics one after the other.  Once the PnL is *)
(* realised, the books balance with the average and the quantity that are  *)
(* still to be stored; once the average is stored, with it and the         *)
(* quantity still to be stored.                                            *)
(***************************************************************************)
BookInv ==
    /\ realized \in Int /\ cash \in Int /\ slack \in Nat
    /\ avgHist \in Seq(Nat) /\ avgHist # << >>
    /\ netHist \in Seq([qty : Int, upTo : Nat]) /\ netHist # << >>
    /\ pc \in {"idle", "avg", "net"}
    /\ pc = "idle" => Balanced(avg, net)
    /\ pc = "avg" => fill \in SomeFills /\ Balanced(NewAvg(fill), NewQty(fill))
    /\ pc = "net" => fill \in SomeFills /\ Balanced(avg, NewQty(fill))

\* The latest entry of a modification order is the one appended last.
LEMMA LastAppended ==
    ASSUME NEW S, NEW s \in Seq(S), NEW x \in S
    PROVE  /\ Append(s, x) \in Seq(S) /\ Append(s, x) # << >> /\ Len(Append(s, x)) = Len(s) + 1
           /\ Last(Append(s, x)) = x
           /\ \A i \in 1 .. Len(s) : Append(s, x)[i] = s[i]
<1>1. Len(Append(s, x)) = Len(s) + 1 /\ Append(s, x)[Len(s) + 1] = x
  OBVIOUS
<1> QED BY <1>1 DEF Last

\* The fill in hand decides what is still to be stored.
LEMMA PlanIsStable ==
    ASSUME NEW f, fill' = f, net' = net, avg' = avg
    PROVE  NewAvg(fill)' = NewAvg(f) /\ NewQty(fill)' = NewQty(f)
<1>1. Signed(fill)' = Signed(f) /\ Opens(fill)' = Opens(f)
  BY DEF Signed, Opens
<1>2. NewQty(fill)' = NewQty(f)
  BY <1>1 DEF NewQty
<1>3. Flips(fill)' = Flips(f)
  BY <1>1 DEF Flips, Abs
<1> QED BY <1>1, <1>2, <1>3 DEF NewAvg, Abs

\* on_fill realises the PnL of a fill.
LEMMA RealizeBooks ==
    ASSUME BookInv, NEW f \in SomeFills, Realize(f)
    PROVE  BookInv'
<1>1. /\ Balanced(avg, net) /\ realized \in Int /\ cash \in Int /\ slack \in Nat
      /\ realized' = realized + PnlDelta(f) /\ cash' = cash - Signed(f) * f.px
      /\ slack' = slack + IF Opens(f) THEN Abs(NewQty(f)) - 1 ELSE 0
      /\ fill' = f /\ pc' = "avg" /\ UNCHANGED <<netHist, avgHist>>
  BY DEF BookInv, Realize
<1>2. net' = net /\ avg' = avg
  BY <1>1 DEF net, avg
<1>3. NewAvg(fill)' = NewAvg(f) /\ NewQty(fill)' = NewQty(f)
  BY <1>1, <1>2, PlanIsStable
<1>4. /\ Priced(NewAvg(f), NewQty(f))
      /\ PnlDelta(f) \in Int /\ Signed(f) \in Int /\ Drift(f) \in Int
      /\ Opens(f) => Abs(NewQty(f)) - 1 \in Nat /\ Abs(Drift(f)) <= Abs(NewQty(f)) - 1
      /\ ~Opens(f) => Drift(f) = 0
  BY <1>1, FillIsBalanced DEF Balanced
<1>. DEFINE e == realized - avg * net - cash
            x == IF Opens(f) THEN Abs(NewQty(f)) - 1 ELSE 0
            dr == Drift(f)
<1>5. x \in Nat /\ dr \in Int /\ Abs(dr) <= x
  <2>1. CASE Opens(f)
    BY <1>4, <2>1
  <2>2. CASE ~Opens(f)
    BY <1>4, <2>2 DEF Abs
  <2> QED BY <2>1, <2>2
<1>6. f.px \in Int /\ avg \in Int /\ net \in Int /\ NewAvg(f) \in Int /\ NewQty(f) \in Int
  BY <1>1, <1>4, PriceRange DEF Balanced, Priced, SomeFills
<1>7. realized' \in Int /\ cash' \in Int /\ slack' \in Nat
  <2>1. Signed(f) * f.px \in Int
    BY <1>4, <1>6
  <2>2. slack' = slack + x
    BY <1>1
  <2>. HIDE DEF x
  <2> QED BY <1>1, <1>4, <1>5, <2>1, <2>2
<1>8. realized' - NewAvg(f) * NewQty(f) - cash' = e + dr /\ e \in Int
  <2>. DEFINE k == Signed(f) * f.px
              u == avg * net
              v == NewAvg(f) * NewQty(f)
  <2>1. k \in Int /\ u \in Int /\ v \in Int
    BY <1>4, <1>6
  <2>2. /\ realized' = realized + PnlDelta(f) /\ cash' = cash - k
        /\ dr = PnlDelta(f) - v + k + u /\ e = realized - u - cash
    BY <1>1 DEF Drift
  <2>3. realized' - v - cash' = e + dr /\ e \in Int
    <3>. HIDE DEF k, u, v, e, dr
    <3> QED BY <1>1, <1>4, <2>1, <2>2
  <2> QED BY <2>3
<1>9. Abs(e + dr) <= slack + x
  <2>1. Abs(e) <= slack
    BY <1>1 DEF Balanced
  <2>. HIDE DEF e, dr, x
  <2> QED BY <1>1, <1>5, <1>8, <2>1 DEF Abs
<1>10. Abs(realized' - NewAvg(f) * NewQty(f) - cash') <= slack'
  BY <1>1, <1>8, <1>9
<1>11. Balanced(NewAvg(fill), NewQty(fill))'
  BY <1>3, <1>4, <1>10 DEF Balanced, Priced, Abs
<1>12. avgHist' = avgHist /\ netHist' = netHist /\ pc' = "avg" /\ fill' \in SomeFills
  BY <1>1
<1> QED BY <1>7, <1>11, <1>12 DEF BookInv

\* on_fill stores the average, or leaves it when the position is reduced.
LEMMA StoreAvgBooks ==
    ASSUME BookInv, StoreAvg
    PROVE  BookInv'
<1>1. /\ pc = "avg" /\ fill \in SomeFills /\ Balanced(NewAvg(fill), NewQty(fill))
      /\ avgHist' = (IF StoresAvg(fill) THEN Append(avgHist, NewAvg(fill)) ELSE avgHist)
      /\ pc' = "net" /\ UNCHANGED <<realized, netHist, fill, cash, slack>>
  BY DEF BookInv, StoreAvg
<1>2. NewAvg(fill) \in Nat /\ avgHist \in Seq(Nat) /\ avgHist # << >>
  BY <1>1 DEF Balanced, Priced, BookInv
<1>3. avgHist' \in Seq(Nat) /\ avgHist' # << >> /\ avg' = NewAvg(fill)
  <2>1. CASE StoresAvg(fill)
    <3>1. avgHist' = Append(avgHist, NewAvg(fill))
      BY <1>1, <2>1
    <3> QED BY <1>2, <3>1, LastAppended DEF avg
  <2>2. CASE ~StoresAvg(fill)
    <3>1. NewAvg(fill) = avg
      BY <2>2 DEF StoresAvg, NewAvg
    <3> QED BY <1>1, <1>2, <2>2, <3>1 DEF avg
  <2> QED BY <2>1, <2>2
<1>4. NewQty(fill)' = NewQty(fill)
  BY <1>1 DEF NewQty, net, Signed
<1>5. Balanced(avg, NewQty(fill))'
  BY <1>1, <1>3, <1>4 DEF Balanced, Priced, Abs
<1> QED BY <1>1, <1>3, <1>5 DEF BookInv

\* on_fill publishes the quantity ...
LEMMA PublishesQuantity ==
    ASSUME BookInv, StoreNet
    PROVE  /\ netHist' \in Seq([qty : Int, upTo : Nat]) /\ netHist' # << >>
           /\ net' = NewQty(fill)
<1>1. /\ pc = "net" /\ fill \in SomeFills /\ Balanced(avg, NewQty(fill))
      /\ netHist' = Append(netHist, [qty |-> NewQty(fill), upTo |-> Len(avgHist)])
      /\ netHist \in Seq([qty : Int, upTo : Nat])
  BY DEF BookInv, StoreNet
<1>2. [qty |-> NewQty(fill), upTo |-> Len(avgHist)] \in [qty : Int, upTo : Nat]
  BY <1>1 DEF Balanced, Priced, BookInv
<1>3. Last(netHist') = [qty |-> NewQty(fill), upTo |-> Len(avgHist)]
  BY <1>1, <1>2, LastAppended
<1> QED BY <1>1, <1>2, <1>3, LastAppended DEF net

\* ... and the books balance with it.
LEMMA StoreNetBooks ==
    ASSUME BookInv, StoreNet
    PROVE  BookInv'
<1>1. /\ pc = "net" /\ fill \in SomeFills /\ Balanced(avg, NewQty(fill))
      /\ pc' = "idle" /\ UNCHANGED <<realized, avgHist, cash, slack>>
  BY DEF BookInv, StoreNet
<1>3. netHist' \in Seq([qty : Int, upTo : Nat]) /\ netHist' # << >> /\ net' = NewQty(fill)
  BY PublishesQuantity
<1>4. avg' = avg
  BY <1>1 DEF avg
<1>5. Balanced(avg, net)'
  BY <1>1, <1>3, <1>4 DEF Balanced, Priced, Abs
<1> QED BY <1>1, <1>3, <1>5 DEF BookInv

\* A thread that marks the position to market changes nothing in the books.
LEMMA ReaderBooks ==
    ASSUME BookInv, UNCHANGED writerVars
    PROVE  BookInv'
<1>1. UNCHANGED <<realized, netHist, avgHist, pc, fill, cash, slack>>
  BY DEF writerVars
<1>2. net' = net /\ avg' = avg
  BY <1>1 DEF net, avg
<1>3. NewAvg(fill)' = NewAvg(fill) /\ NewQty(fill)' = NewQty(fill)
  BY <1>1, <1>2, PlanIsStable
<1> QED BY <1>1, <1>2, <1>3 DEF BookInv, Balanced, Priced, Abs

\* What either program does to its books: a fill from the market, the stores
\* that follow it, or loads of a reader.
AnyMove ==
    \/ \E f \in SomeFills : Realize(f)
    \/ StoreAvg \/ StoreNet
    \/ \E k \in Versions : ReadNet(k) \/ ReadAvg(k)
    \/ ReadReturns
    \/ UNCHANGED vars

\* The trading program makes no other moves.
LEMMA LiveMoves == [Next]_vars => AnyMove
BY PriceRange DEF Next, AnyMove

\* Every step of PositionThread and of a reader keeps the books.
LEMMA BookStep == BookInv /\ AnyMove => BookInv'
<1>. SUFFICES ASSUME BookInv, AnyMove PROVE BookInv'
  OBVIOUS
<1>1. ASSUME NEW f \in SomeFills, Realize(f) PROVE BookInv'
  BY <1>1, RealizeBooks
<1>2. CASE StoreAvg
  BY <1>2, StoreAvgBooks
<1>3. CASE StoreNet
  BY <1>3, StoreNetBooks
<1>4. ASSUME ~(\E f \in SomeFills : Realize(f)), ~StoreAvg, ~StoreNet PROVE UNCHANGED writerVars
  BY <1>4 DEF AnyMove, vars, ReadNet, ReadAvg, ReadReturns
<1> QED BY <1>1, <1>2, <1>3, <1>4, ReaderBooks

\* Nothing is booked at the start.
LEMMA BooksOpen == Init => BookInv
<1>. SUFFICES ASSUME Init PROVE BookInv
  OBVIOUS
<1>1. netHist = <<[qty |-> 0, upTo |-> 1]>> /\ avgHist = <<0>>
  BY DEF Init
<1>2. net = 0 /\ avg = 0
  BY <1>1 DEF net, avg, Last
<1>3. netHist \in Seq([qty : Int, upTo : Nat]) /\ avgHist \in Seq(Nat)
  BY <1>1
<1>4. realized = 0 /\ cash = 0 /\ slack = 0 /\ pc = "idle"
  BY DEF Init
<1> QED BY <1>1, <1>2, <1>3, <1>4 DEF BookInv, Balanced, Priced, Abs

-----------------------------------------------------------------------------
(* The reader of quantity and average                                      *)

\* Every quantity publishes the average that was stored for its fill, and what
\* the reader has seen of the averages is not behind the quantity it read.
ReaderInv ==
    /\ avgHist \in Seq(Nat) /\ netHist \in Seq([qty : Int, upTo : Nat])
    /\ inForce \in Seq(Nat) /\ Len(inForce) = Len(netHist)
    /\ \A i \in 1 .. Len(netHist) : netHist[i].upTo = inForce[i]
    /\ rdSeen \in (1 .. Len(netHist)) \X Nat
    /\ rdPc # "idle" => rdSeen[2] >= inForce[rdSeen[1]]

\* No store of PositionThread and no load of a reader breaks it.
LEMMA ReaderStep == BookInv /\ BookInv' /\ ReaderInv /\ AnyMove => ReaderInv'
<1>. SUFFICES ASSUME BookInv, BookInv', ReaderInv, AnyMove PROVE ReaderInv'
  OBVIOUS
<1>0. avgHist' \in Seq(Nat) /\ netHist' \in Seq([qty : Int, upTo : Nat])
  BY DEF BookInv
<1>1. ASSUME NEW f \in SomeFills, Realize(f) PROVE ReaderInv'
  BY <1>0, <1>1 DEF ReaderInv, Realize, readerVars
<1>2. CASE StoreAvg
  BY <1>0, <1>2 DEF ReaderInv, StoreAvg, readerVars
<1>3. CASE StoreNet
  <2>. DEFINE e == [qty |-> NewQty(fill), upTo |-> Len(avgHist)]
              n == Len(netHist)
  <2>1. /\ netHist' = Append(netHist, e) /\ inForce' = Append(inForce, Len(avgHist))
        /\ UNCHANGED <<avgHist, rdPc, rdSeen>>
    BY <1>3 DEF StoreNet, readerVars
  <2>2. Len(avgHist) \in Nat /\ n \in Nat /\ Len(inForce) = n
    BY DEF ReaderInv
  <2>3. e \in [qty : Int, upTo : Nat]
    BY <1>3, <2>2 DEF BookInv, StoreNet, Balanced, Priced
  <2>4. /\ Len(netHist') = n + 1 /\ netHist'[n + 1] = e
        /\ \A i \in 1 .. n : netHist'[i] = netHist[i]
    BY <2>1, <2>3 DEF ReaderInv
  <2>5. /\ inForce' \in Seq(Nat) /\ Len(inForce') = n + 1 /\ inForce'[n + 1] = Len(avgHist)
        /\ \A i \in 1 .. n : inForce'[i] = inForce[i]
    BY <2>1, <2>2 DEF ReaderInv
  <2>6. ASSUME NEW i \in 1 .. n + 1 PROVE netHist'[i].upTo = inForce'[i]
    <3>1. i = n + 1 \/ i \in 1 .. n
      BY <2>2
    <3>2. e.upTo = Len(avgHist)
      OBVIOUS
    <3> QED BY <2>4, <2>5, <3>1, <3>2 DEF ReaderInv
  <2>7. rdSeen' \in (1 .. n + 1) \X Nat /\ rdSeen[1] \in 1 .. n
    BY <2>1, <2>2 DEF ReaderInv
  <2>8. rdPc' # "idle" => rdSeen'[2] >= inForce'[rdSeen'[1]]
    BY <2>1, <2>5, <2>7 DEF ReaderInv
  <2>. HIDE DEF e, n
  <2> QED BY <1>0, <2>1, <2>4, <2>5, <2>6, <2>7, <2>8 DEF ReaderInv
<1>4. ASSUME NEW k \in Versions, ReadNet(k) PROVE ReaderInv'
  <2>. DEFINE m == Max({rdSeen[2], netHist[k].upTo})
  <2>1. /\ k \in 1 .. Len(netHist) /\ netHist[k].upTo = inForce[k] /\ inForce[k] \in Nat
        /\ rdSeen[2] \in Nat
    BY <1>4 DEF ReadNet, ReaderInv
  <2>2. m \in Nat /\ m >= netHist[k].upTo
    <3>1. rdSeen[2] \in Int /\ netHist[k].upTo \in Int
      BY <2>1
    <3>2. m \in {rdSeen[2], netHist[k].upTo} /\ m >= netHist[k].upTo
      BY <3>1, MaxOfTwo
    <3> QED BY <2>1, <3>2
  <2>3. rdSeen' = <<k, m>> /\ UNCHANGED <<netHist, avgHist, inForce>>
    BY <1>4 DEF ReadNet, writerVars
  <2>. HIDE DEF m
  <2> QED BY <1>0, <2>1, <2>2, <2>3 DEF ReaderInv
<1>5. ASSUME NEW j \in Versions, ReadAvg(j) PROVE ReaderInv'
  <2>1. /\ j \in rdSeen[2] .. Len(avgHist) /\ rdPc = "avg"
        /\ rdSeen' = [rdSeen EXCEPT ![2] = j] /\ UNCHANGED <<netHist, avgHist, inForce>>
    BY <1>5 DEF ReadAvg, writerVars
  <2>2. /\ rdSeen \in (1 .. Len(netHist)) \X Nat /\ inForce[rdSeen[1]] \in Nat
        /\ rdSeen[2] >= inForce[rdSeen[1]]
    BY <2>1 DEF ReaderInv
  <2>3. j \in Nat /\ j >= rdSeen[2]
    BY <2>1, <2>2
  <2>4. rdSeen' = <<rdSeen[1], j>>
    BY <2>1, <2>2
  <2>5. rdSeen' \in (1 .. Len(netHist)) \X Nat /\ rdSeen'[2] >= inForce[rdSeen'[1]]
    BY <2>2, <2>3, <2>4
  <2> QED BY <1>0, <2>1, <2>5 DEF ReaderInv
<1>6. CASE ReadReturns
  BY <1>0, <1>6 DEF ReaderInv, ReadReturns, writerVars
<1>7. CASE UNCHANGED vars
  BY <1>0, <1>7 DEF ReaderInv, vars, writerVars, readerVars
<1> QED BY <1>1, <1>2, <1>3, <1>4, <1>5, <1>6, <1>7 DEF AnyMove

\* A reader starts with the empty position.
LEMMA ReaderStarts == Init => ReaderInv
<1>. SUFFICES ASSUME Init PROVE ReaderInv
  OBVIOUS
<1>1. netHist = <<[qty |-> 0, upTo |-> 1]>> /\ avgHist = <<0>> /\ inForce = <<1>>
  BY DEF Init
<1>2. rdPc = "idle" /\ rdSeen = <<1, 1>>
  BY DEF Init
<1> QED BY <1>1, <1>2 DEF ReaderInv

\* What the two invariants say of the books and of a reader.
LEMMA BooksMean == (BookInv => BooksBalance) /\ (ReaderInv => AverageIsNotOlder)
BY DEF BookInv, Balanced, Priced, BooksBalance, Lo, Hi, ReaderInv, AverageIsNotOlder

\* Between fills realised PnL minus the cost of the position is what moved in
\* cash, up to the rounding of the averages, and the average is that of an open
\* position, through every sequence of increases, reductions and flips.
THEOREM BooksAreKept == Spec => []BooksBalance
<1>1. BookInv /\ [Next]_vars => BookInv'
  BY LiveMoves, BookStep
<1> QED BY <1>1, BooksMean, BooksOpen, PTL DEF Spec

\* calc_unrealized_pnl never marks a quantity to an average older than it,
\* although the two are separate atomics that it loads one after the other.
THEOREM AverageKeepsUp == Spec => []AverageIsNotOlder
<1>1. BookInv /\ ReaderInv /\ [Next]_vars => BookInv' /\ ReaderInv'
  BY LiveMoves, BookStep, ReaderStep
<1> QED BY <1>1, BooksMean, BooksOpen, ReaderStarts, PTL DEF Spec

-----------------------------------------------------------------------------
(* The report                                                              *)

\* The maximum of a set is its element that no other one exceeds.
LEMMA MaxIs ==
    ASSUME NEW S, NEW m \in S, \A x \in S : x \in Int /\ m >= x
    PROVE  Max(S) = m
<1>1. Max(S) \in S /\ \A y \in S : Max(S) >= y
  BY DEF Max
<1> QED BY <1>1

\* The pass of max_drawdown over the first n days is well defined.
NoFall == [cumulative |-> 0, peak |-> 0, maxDd |-> 0]
IsPass(it, n) == it = [k \in 0 .. n |-> IF k = 0 THEN NoFall ELSE DrawdownStep(it[k - 1], days[k])]

\* There is a pass over any number of days.
LEMMA PassExists ==
    ASSUME NEW n \in Nat
    PROVE  \E it : IsPass(it, n)
<1>. DEFINE S == {k \in 0 .. n : \E it : IsPass(it, k)}
<1>1. 0 \in S
  <2>1. IsPass([k \in 0 .. 0 |-> NoFall], 0)
    BY DEF IsPass
  <2> QED BY <2>1
<1>2. ASSUME NEW m \in 0 .. n - 1, m \in S PROVE m + 1 \in S
  <2>1. PICK it : IsPass(it, m)
    BY <1>2
  <2>. DEFINE next == [k \in 0 .. m + 1 |->
                         IF k = m + 1 THEN DrawdownStep(it[m], days[m + 1]) ELSE it[k]]
  <2>2. ASSUME NEW k \in 0 .. m + 1
        PROVE  next[k] = IF k = 0 THEN NoFall ELSE DrawdownStep(next[k - 1], days[k])
    <3>1. CASE k = m + 1
      <4>1. next[k - 1] = it[m] /\ k # 0
        BY <3>1
      <4> QED BY <3>1, <4>1
    <3>2. CASE k # m + 1
      <4>1. k \in 0 .. m /\ next[k] = it[k]
        BY <3>2
      <4>2. it[k] = IF k = 0 THEN NoFall ELSE DrawdownStep(it[k - 1], days[k])
        BY <2>1, <4>1 DEF IsPass
      <4>3. k # 0 => next[k - 1] = it[k - 1]
        BY <4>1
      <4> QED BY <4>1, <4>2, <4>3
    <3> QED BY <3>1, <3>2
  <2>3. IsPass(next, m + 1)
    BY <2>2 DEF IsPass
  <2>4. m + 1 \in 0 .. n
    OBVIOUS
  <2>. HIDE DEF next
  <2> QED BY <2>3, <2>4
<1>. HIDE DEF S
<1>3. n \in S
  BY <1>1, <1>2, InductionUpTo
<1> QED BY <1>3 DEF S

\* The equity curve starts at 0 and moves by what a day brought.
LEMMA EquityCurve ==
    ASSUME days \in Seq(Int)
    PROVE  /\ Equity(0) = 0
           /\ \A k \in 0 .. Len(days) : Equity(k) \in Int
           /\ \A k \in 0 .. Len(days) - 1 : Equity(k + 1) = Equity(k) + days[k + 1]
<1>1. \A k : Equity(k) = SumOver(days, 1 .. k)
  BY DEF Equity, SumOver
<1>2. Equity(0) = 0
  <2>1. 1 .. 0 = {}
    OBVIOUS
  <2> QED BY <1>1, <2>1, SumEmpty
<1>3. ASSUME NEW k \in 0 .. Len(days) PROVE Equity(k) \in Int
  <2>1. IsFiniteSet(1 .. k)
    BY FS_Interval
  <2>2. \A i \in 1 .. k : days[i] \in Int
    OBVIOUS
  <2> QED BY <1>1, <2>1, <2>2, SumInt
<1>4. ASSUME NEW k \in 0 .. Len(days) - 1 PROVE Equity(k + 1) = Equity(k) + days[k + 1]
  <2>1. k \in Nat /\ \A i \in 1 .. k + 1 : days[i] \in Int
    OBVIOUS
  <2>2. SumOver(days, 1 .. k + 1) = SumOver(days, 1 .. k) + days[k + 1]
    BY <2>1, SumToNext
  <2> QED BY <1>1, <2>2
<1> QED BY <1>2, <1>3, <1>4

\* The falls of the curve up to day k.
Falls(k) == {Equity(d[1]) - Equity(d[2]) : d \in {e \in (0 .. k) \X (0 .. k) : e[1] <= e[2]}}

\* What the pass has after k days.
Follows(acc, k) ==
    /\ acc.cumulative = Equity(k)
    /\ \E j \in 0 .. k : acc.peak = Equity(j)
    /\ \A j \in 0 .. k : Equity(j) <= acc.peak
    /\ \E i \in 0 .. k, j \in 0 .. k : i <= j /\ acc.maxDd = Equity(i) - Equity(j)
    /\ \A i \in 0 .. k : \A j \in 0 .. k : i <= j => Equity(i) - Equity(j) <= acc.maxDd

\* One more day.
LEMMA PassStep ==
    ASSUME days \in Seq(Int), NEW k \in 0 .. Len(days) - 1, NEW acc, Follows(acc, k)
    PROVE  Follows(DrawdownStep(acc, days[k + 1]), k + 1)
<1>. DEFINE c == acc.cumulative + days[k + 1]
            p == Max({acc.peak, c})
            d == Max({acc.maxDd, p - c})
<1>0. k \in Nat /\ k + 1 \in 0 .. Len(days) /\ Len(days) \in Nat
  OBVIOUS
<1>1. c = Equity(k + 1) /\ c \in Int
  BY <1>0, EquityCurve DEF Follows
<1>2. \A j \in 0 .. k : Equity(j) \in Int
  <2>1. \A j \in 0 .. k : j \in 0 .. Len(days)
    BY <1>0
  <2> QED BY <2>1, EquityCurve
<1>3. acc.peak \in Int /\ acc.maxDd \in Int
  <2>1. PICK h \in 0 .. k : acc.peak = Equity(h)
    BY DEF Follows
  <2>2. PICK i \in 0 .. k, j \in 0 .. k : acc.maxDd = Equity(i) - Equity(j)
    BY DEF Follows
  <2> QED BY <1>2, <2>1, <2>2
<1>. DEFINE s == DrawdownStep(acc, days[k + 1])
<1>4. s.cumulative = c /\ s.peak = p /\ s.maxDd = d
  BY DEF DrawdownStep
<1>. HIDE DEF c, s
<1>5. p \in {acc.peak, c} /\ p >= acc.peak /\ p >= c /\ p \in Int
  BY <1>1, <1>3, MaxOfTwo
<1>. HIDE DEF p
<1>6. d \in {acc.maxDd, p - c} /\ d >= acc.maxDd /\ d >= p - c /\ d \in Int
  <2>1. p - c \in Int
    BY <1>1, <1>5
  <2> QED BY <1>3, <2>1, MaxOfTwo
<1>. HIDE DEF d
<1>7. \A j \in 0 .. k + 1 : j \in 0 .. k \/ j = k + 1
  BY <1>0
<1>8. \A j \in 0 .. k : j \in 0 .. k + 1 /\ j <= k + 1
  BY <1>0
<1>9. k + 1 \in 0 .. k + 1 /\ k + 1 <= k + 1
  BY <1>0
<1>10. \E j \in 0 .. k + 1 : p = Equity(j)
  <2>1. CASE p = acc.peak
    BY <1>8, <2>1 DEF Follows
  <2>2. CASE p = c
    BY <1>1, <1>9, <2>2
  <2> QED BY <1>5, <2>1, <2>2
<1>11. ASSUME NEW j \in 0 .. k + 1 PROVE Equity(j) <= p
  <2>1. CASE j \in 0 .. k
    BY <1>2, <1>3, <1>5, <2>1 DEF Follows
  <2>2. CASE j = k + 1
    BY <1>1, <1>5, <2>2
  <2> QED BY <1>7, <2>1, <2>2
<1>12. \E i \in 0 .. k + 1, j \in 0 .. k + 1 : i <= j /\ d = Equity(i) - Equity(j)
  <2>1. CASE d = acc.maxDd
    BY <1>8, <2>1 DEF Follows
  <2>2. CASE d = p - c
    <3>1. PICK i \in 0 .. k + 1 : p = Equity(i)
      BY <1>10
    <3>2. i <= k + 1
      BY <1>0
    <3> QED BY <1>1, <1>9, <2>2, <3>1, <3>2
  <2> QED BY <1>6, <2>1, <2>2
<1>13. ASSUME NEW i \in 0 .. k + 1, NEW j \in 0 .. k + 1, i <= j PROVE Equity(i) - Equity(j) <= d
  <2>1. CASE j \in 0 .. k
    <3>1. i \in 0 .. k
      BY <1>13, <2>1
    <3>2. Equity(i) - Equity(j) <= acc.maxDd /\ Equity(i) \in Int /\ Equity(j) \in Int
      BY <1>2, <1>13, <2>1, <3>1 DEF Follows
    <3> QED BY <1>3, <1>6, <3>2
  <2>2. CASE j = k + 1
    <3>1. Equity(i) <= p /\ Equity(j) = c
      BY <1>1, <1>11, <2>2
    <3>2. Equity(i) \in Int
      BY <1>1, <1>2, <1>7
    <3> QED BY <1>1, <1>5, <1>6, <3>1, <3>2
  <2> QED BY <1>7, <2>1, <2>2
<1>14. Follows(s, k + 1)
  BY <1>1, <1>4, <1>10, <1>11, <1>12, <1>13 DEF Follows
<1> QED BY <1>14 DEF s

\* The one pass finds the deepest fall, for every list of days.
LEMMA DrawdownIsDeepest ==
    ASSUME days \in Seq(Int)
    PROVE  MaxDrawdown = Max(Falls(Len(days)))
<1>. DEFINE n == Len(days)
            pass == CHOOSE it : IsPass(it, n)
<1>0. n \in Nat
  OBVIOUS
<1>1. IsPass(pass, n)
  BY <1>0, PassExists
<1>2. MaxDrawdown = pass[n].maxDd
  BY DEF MaxDrawdown, FallFrom, IsPass, NoFall
<1>. HIDE DEF pass
<1>3. \A k \in 0 .. n : pass[k] = IF k = 0 THEN NoFall ELSE DrawdownStep(pass[k - 1], days[k])
  BY <1>1 DEF IsPass
<1>. DEFINE S == {k \in 0 .. n : Follows(pass[k], k)}
<1>4. 0 \in S
  <2>1. Equity(0) = 0
    BY EquityCurve
  <2>2. pass[0] = NoFall /\ 0 \in 0 .. n
    BY <1>0, <1>3
  <2>3. 0 .. 0 = {0}
    OBVIOUS
  <2>4. Follows(NoFall, 0)
    BY <2>1, <2>3 DEF Follows, NoFall
  <2> QED BY <2>2, <2>4
<1>5. ASSUME NEW k \in 0 .. n - 1, k \in S PROVE k + 1 \in S
  <2>1. k + 1 \in 0 .. n /\ k + 1 # 0 /\ (k + 1) - 1 = k
    BY <1>0
  <2>2. pass[k + 1] = DrawdownStep(pass[k], days[k + 1])
    BY <1>3, <2>1
  <2>3. Follows(pass[k], k)
    BY <1>5
  <2>4. Follows(pass[k + 1], k + 1)
    BY <2>2, <2>3, PassStep
  <2> QED BY <2>1, <2>4
<1>6. n \in S
  <2>. HIDE DEF S, n
  <2>1. \A k \in 0 .. n - 1 : k \in S => k + 1 \in S
    BY <1>5
  <2>2. n \in 0 .. n
    BY <1>0
  <2> QED BY <1>0, <1>4, <2>1, <2>2, InductionUpTo
<1>7. Follows(pass[n], n)
  BY <1>6
<1>8. \A k \in 0 .. n : Equity(k) \in Int
  BY EquityCurve
<1>. HIDE DEF n, S
<1>9. \A x \in Falls(n) : x \in Int /\ pass[n].maxDd >= x
  <2>1. ASSUME NEW x \in Falls(n) PROVE x \in Int /\ pass[n].maxDd >= x
    <3>1. PICK i \in 0 .. n, j \in 0 .. n : i <= j /\ x = Equity(i) - Equity(j)
      BY DEF Falls
    <3>2. Equity(i) - Equity(j) <= pass[n].maxDd /\ pass[n].maxDd \in Int
      BY <1>7, <1>8, <3>1 DEF Follows
    <3> QED BY <1>8, <3>1, <3>2
  <2> QED BY <2>1
<1>10. pass[n].maxDd \in Falls(n)
  <2>1. PICK i \in 0 .. n, j \in 0 .. n : i <= j /\ pass[n].maxDd = Equity(i) - Equity(j)
    BY <1>7 DEF Follows
  <2>2. <<i, j>> \in {e \in (0 .. n) \X (0 .. n) : e[1] <= e[2]}
    BY <2>1
  <2> QED BY <2>1, <2>2 DEF Falls
<1>11. Max(Falls(n)) = pass[n].maxDd
  BY <1>9, <1>10, MaxIs
<1> QED BY <1>2, <1>11 DEF n

-----------------------------------------------------------------------------
(* Orders, fills and position                                              *)

\* What waits in the exchange: an order with what is left of its quantity.
Entries == [id : Nat, req : [side : {"BUY", "SELL"}, type : {"LIMIT", "MARKET", "IOC"},
                             price : Ticks, qty : Nat \ {0}]]
SimFills == [id : Nat, side : {"BUY", "SELL"}, qty : Nat \ {0}, px : Ticks]

\* The quantity of order i among fills on their way to the position manager,
\* and what of the order was never filled.
QtyOf(i, s) == [k \in DOMAIN s |-> IF s[k].id = i THEN s[k].qty ELSE 0]
Waiting(i, s) == SumOver(QtyOf(i, s), 1 .. Len(s))
Missing(i, s) == sent[i].qty - (applied[i] + Waiting(i, s))

\* An entry in E holds what is missing of order i, or there is none and no lot
\* of what is missing would be filled.
Accounted(i, E, s) ==
    /\ Missing(i, s) \in Nat
    /\ \A e \in E : e.id = i => e.req.qty = Missing(i, s) /\ e.req.side = sent[i].side
    /\ (\A e \in E : e.id # i) => FillQty(Missing(i, s)) = 0
Known(s, ids) ==
    \A k \in 1 .. Len(s) : /\ s[k].id \in DOMAIN sent /\ s[k].id \in ids
                           /\ s[k].side = sent[s[k].id].side

\* Nothing is on its way in an empty queue.
LEMMA WaitingNone == ASSUME NEW i PROVE Waiting(i, << >>) = 0
<1>1. 1 .. Len(<< >>) = {}
  OBVIOUS
<1> QED BY <1>1, SumEmpty DEF Waiting

\* The quantities of one order among a sequence of fills.
LEMMA QtyType ==
    ASSUME NEW i, NEW s \in Seq(SimFills)
    PROVE  /\ Len(s) \in Nat
           /\ \A k \in 1 .. Len(s) : /\ QtyOf(i, s)[k] \in Nat
                                     /\ QtyOf(i, s)[k] = IF s[k].id = i THEN s[k].qty ELSE 0
<1>1. \A k \in 1 .. Len(s) : s[k] \in SimFills
  OBVIOUS
<1> QED BY <1>1 DEF QtyOf, SimFills

\* A quantity waits, or nothing does.
LEMMA WaitingNat ==
    ASSUME NEW i, NEW s \in Seq(SimFills)
    PROVE  Waiting(i, s) \in Nat
<1>1. IsFiniteSet(1 .. Len(s))
  BY FS_Interval
<1> QED BY <1>1, QtyType, SumNat DEF Waiting

\* A fill that joins the queue ...
LEMMA WaitingAppend ==
    ASSUME NEW i, NEW s \in Seq(SimFills), NEW f \in SimFills
    PROVE  Waiting(i, Append(s, f)) = Waiting(i, s) + IF f.id = i THEN f.qty ELSE 0
<1>0. Append(s, f) \in Seq(SimFills)
  OBVIOUS
<1>1. PICK t \in Seq(SimFills) : t = Append(s, f)
  BY <1>0
<1>2. Len(t) = Len(s) + 1 /\ t[Len(s) + 1] = f /\ \A k \in 1 .. Len(s) : t[k] = s[k]
  BY <1>1
<1>. DEFINE n == Len(s)
            g == QtyOf(i, t)
            h == QtyOf(i, s)
<1>3. n \in Nat /\ n + 1 \in 1 .. n + 1 /\ \A k \in 1 .. n : k \in 1 .. n + 1
  OBVIOUS
<1>4. /\ \A k \in 1 .. n + 1 : g[k] \in Nat /\ g[k] = IF t[k].id = i THEN t[k].qty ELSE 0
      /\ \A k \in 1 .. n : h[k] = IF s[k].id = i THEN s[k].qty ELSE 0
  BY <1>2, QtyType
<1>5. Waiting(i, t) = SumOver(g, 1 .. n + 1) /\ Waiting(i, s) = SumOver(h, 1 .. n)
  BY <1>2 DEF Waiting
<1>. HIDE DEF g, h
<1>6. g[n + 1] = (IF f.id = i THEN f.qty ELSE 0) /\ \A k \in 1 .. n : h[k] = g[k]
  BY <1>2, <1>3, <1>4
<1>. HIDE DEF n
<1>7. \A k \in 1 .. n + 1 : g[k] \in Int
  BY <1>4
<1>8. SumOver(g, 1 .. n + 1) = SumOver(h, 1 .. n) + g[n + 1]
  BY <1>3, <1>6, <1>7, SumToNext
<1> QED BY <1>1, <1>5, <1>6, <1>8

\* ... and the fill handed on.
LEMMA WaitingTail ==
    ASSUME NEW i, NEW s \in Seq(SimFills), s # << >>
    PROVE  Waiting(i, s) = (IF Head(s).id = i THEN Head(s).qty ELSE 0) + Waiting(i, Tail(s))
<1>0. Tail(s) \in Seq(SimFills)
  OBVIOUS
<1>1. PICK t \in Seq(SimFills) : t = Tail(s)
  BY <1>0
<1>2. Len(s) = Len(t) + 1 /\ Head(s) = s[1] /\ \A k \in 1 .. Len(t) : t[k] = s[k + 1]
  BY <1>1, TailElements
<1>. DEFINE n == Len(t)
            g == QtyOf(i, s)
            h == QtyOf(i, t)
<1>3. n \in Nat /\ 1 \in 1 .. n + 1 /\ \A k \in 1 .. n : k + 1 \in 1 .. n + 1
  OBVIOUS
<1>4. /\ \A k \in 1 .. n + 1 : g[k] \in Nat /\ g[k] = IF s[k].id = i THEN s[k].qty ELSE 0
      /\ \A k \in 1 .. n : h[k] = IF t[k].id = i THEN t[k].qty ELSE 0
  BY <1>2, QtyType
<1>5. Waiting(i, s) = SumOver(g, 1 .. n + 1) /\ Waiting(i, t) = SumOver(h, 1 .. n)
  BY <1>2 DEF Waiting
<1>. HIDE DEF g, h
<1>6. g[1] = (IF Head(s).id = i THEN Head(s).qty ELSE 0) /\ \A k \in 1 .. n : h[k] = g[k + 1]
  BY <1>2, <1>3, <1>4
<1>. HIDE DEF n
<1>7. \A k \in 1 .. n + 1 : g[k] \in Int
  BY <1>4
<1>8. SumOver(g, 1 .. n + 1) = g[1] + SumOver(h, 1 .. n)
  BY <1>3, <1>6, <1>7, SumFromFirst
<1> QED BY <1>1, <1>5, <1>6, <1>8

\* The share of a quantity that is filled is part of it.
LEMMA ShareIsPart ==
    ASSUME ratio \in FillRatios, NEW q \in Nat
    PROVE  FillQty(q) \in Nat /\ FillQty(q) <= q /\ FillQty(0) = 0
<1>1. PICK a \in Nat, b \in Nat \ {0} : a = ratio[1] /\ b = ratio[2] /\ a <= b
  BY ExchangeAssumption
<1>2. q * a \in Nat /\ q * a <= b * q /\ 0 * a = 0
  <2>1. a * q <= b * q
    BY <1>1, TimesMonotone
  <2> QED BY <2>1
<1>3. PICK m \in Int : (q * a) \div b = m /\ b * m <= q * a /\ q * a < b * m + b
  BY <1>2, DivBounds
<1>4. m >= 0
  <2>. SUFFICES ASSUME m <= -1 PROVE FALSE
    BY <1>3
  <2>1. b * m <= -b
    <3>1. m * b <= (-1) * b
      BY TimesMonotone
    <3> QED BY <3>1
  <2> QED BY <1>2, <1>3, <2>1
<1>5. m <= q
  <2>. SUFFICES ASSUME m >= q + 1 PROVE FALSE
    BY <1>3
  <2>1. (q + 1) * b <= m * b
    BY <1>3, TimesMonotone
  <2>2. (q + 1) * b = b * q + b /\ m * b = b * m
    OBVIOUS
  <2>3. b * q \in Int /\ b * m \in Int /\ q * a \in Int
    BY <1>3
  <2> QED BY <1>1, <1>2, <1>3, <2>1, <2>2, <2>3
<1>6. FillQty(q) = m /\ FillQty(0) = 0
  BY <1>1, <1>2, <1>3 DEF FillQty
<1> QED BY <1>3, <1>4, <1>5, <1>6

\* A round of process_bbo over the entries that wait is well defined.
NoMatch == [pending |-> << >>, acks |-> ackQ, fills |-> fillQ]
IsRound(q, it, n) ==
    it = [k \in 0 .. n |-> IF k = 0 THEN NoMatch ELSE Match(q, it[k - 1], pending[k])]

\* There is a round over any number of entries.
LEMMA RoundExists ==
    ASSUME NEW q, NEW n \in Nat
    PROVE  \E it : IsRound(q, it, n)
<1>. DEFINE S == {k \in 0 .. n : \E it : IsRound(q, it, k)}
<1>1. 0 \in S
  <2>1. IsRound(q, [k \in 0 .. 0 |-> NoMatch], 0)
    BY DEF IsRound
  <2> QED BY <2>1
<1>2. ASSUME NEW m \in 0 .. n - 1, m \in S PROVE m + 1 \in S
  <2>1. PICK it : IsRound(q, it, m)
    BY <1>2
  <2>. DEFINE next == [k \in 0 .. m + 1 |->
                         IF k = m + 1 THEN Match(q, it[m], pending[m + 1]) ELSE it[k]]
  <2>2. ASSUME NEW k \in 0 .. m + 1
        PROVE  next[k] = IF k = 0 THEN NoMatch ELSE Match(q, next[k - 1], pending[k])
    <3>1. CASE k = m + 1
      <4>1. next[k - 1] = it[m] /\ k # 0
        BY <3>1
      <4> QED BY <3>1, <4>1
    <3>2. CASE k # m + 1
      <4>1. k \in 0 .. m /\ next[k] = it[k]
        BY <3>2
      <4>2. it[k] = IF k = 0 THEN NoMatch ELSE Match(q, it[k - 1], pending[k])
        BY <2>1, <4>1 DEF IsRound
      <4>3. k # 0 => next[k - 1] = it[k - 1]
        BY <4>1
      <4> QED BY <4>1, <4>2, <4>3
    <3> QED BY <3>1, <3>2
  <2>3. IsRound(q, next, m + 1)
    BY <2>2 DEF IsRound
  <2>4. m + 1 \in 0 .. n
    OBVIOUS
  <2>. HIDE DEF next
  <2> QED BY <2>3, <2>4
<1>. HIDE DEF S
<1>3. n \in S
  BY <1>1, <1>2, InductionUpTo
<1> QED BY <1>3 DEF S

\* After k entries: what was put back, what was acknowledged and filled, and
\* the entries that still have their turn account for every order.
Items(s) == {s[j] : j \in 1 .. Len(s)}
EntriesAt(b, k) == Items(b.pending) \cup {pending[j] : j \in k + 1 .. Len(pending)}
RoundInv(b, k) ==
    /\ b.pending \in Seq(Entries) /\ b.acks \in Seq(Nat) /\ b.fills \in Seq(SimFills)
    /\ b = [pending |-> b.pending, acks |-> b.acks, fills |-> b.fills]
    /\ \A j \in 1 .. Len(b.pending) : \E m \in 1 .. k : b.pending[j].id = pending[m].id
    /\ \A j, m \in 1 .. Len(b.pending) : b.pending[j].id = b.pending[m].id => j = m
    /\ \A i \in DOMAIN sent : Accounted(i, EntriesAt(b, k), b.fills)
    /\ Known(b.fills, acked \cup Range(b.acks))
    /\ Range(ackQ) \subseteq Range(b.acks)

\* Orders that wait are known and wait once.
PendingInv ==
    /\ pending \in Seq(Entries)
    /\ \A j \in 1 .. Len(pending) : pending[j].id \in DOMAIN sent
    /\ \A j, k \in 1 .. Len(pending) : pending[j].id = pending[k].id => j = k
ExchangeType ==
    /\ ratio \in FillRatios /\ sent \in Seq(Requests) /\ Len(sent) <= MaxOrders
    /\ ackQ \in Seq(Nat) /\ fillQ \in Seq(SimFills)
    /\ applied \in [1 .. MaxOrders -> Nat]
    /\ btPc \in {"idle", "acks", "fills", "record"}

\* What reached the position manager, the fills and the entries account for
\* every order, whatever the strategy sent between the quotes.
OrdersInv ==
    /\ \A i \in DOMAIN sent : Accounted(i, Items(pending), fillQ)
    /\ \A i \in 1 .. MaxOrders : i \notin DOMAIN sent => applied[i] = 0

\* Acknowledgements are handed on before the fills, and both before the next
\* order, quote or report.
AcksInv ==
    /\ Known(fillQ, acked \cup Range(ackQ))
    /\ \A i \in 1 .. MaxOrders : applied[i] > 0 => i \in acked \cup Range(ackQ)
    /\ btPc # "acks" => ackQ = << >>
    /\ btPc \notin {"acks", "fills"} => fillQ = << >>
    /\ btPc # "fills" => pc = "idle"

\* The quantity stored, or about to be stored, is the sum of the fills.
PositionInv == IF pc = "idle" THEN net = Bought ELSE NewQty(fill) = Bought

ExchangeInv == ExchangeType /\ PendingInv /\ OrdersInv /\ AcksInv /\ PositionInv

\* The elements of a sequence with one more.
LEMMA AppendedElements ==
    ASSUME NEW S, NEW s \in Seq(S), NEW x \in S
    PROVE  /\ Append(s, x) \in Seq(S) /\ Len(Append(s, x)) = Len(s) + 1
           /\ Items(Append(s, x)) = Items(s) \cup {x}
           /\ Range(Append(s, x)) = Range(s) \cup {x}
<1>1. Append(s, x) \in Seq(S)
  OBVIOUS
<1>2. PICK t \in Seq(S) : t = Append(s, x)
  BY <1>1
<1>3. /\ Len(t) = Len(s) + 1 /\ t[Len(s) + 1] = x /\ \A j \in 1 .. Len(s) : t[j] = s[j]
      /\ DOMAIN t = 1 .. Len(t) /\ DOMAIN s = 1 .. Len(s) /\ Len(s) \in Nat
  BY <1>2
<1>4. 1 .. Len(t) = (1 .. Len(s)) \cup {Len(s) + 1}
  BY <1>3
<1>5. Items(t) = Items(s) \cup {x}
  <2>1. ASSUME NEW y
        PROVE  y \in {t[j] : j \in 1 .. Len(t)} <=> y \in {s[j] : j \in 1 .. Len(s)} \cup {x}
    BY <1>3, <1>4
  <2> QED BY <2>1 DEF Items
<1>6. Range(t) = Items(t) /\ Range(s) = Items(s)
  BY <1>3 DEF Range, Items
<1> QED BY <1>1, <1>2, <1>3, <1>5, <1>6

\* Entries and fills that agree about an order account for it alike.
LEMMA AccountedAlike ==
    ASSUME NEW i, NEW E, NEW F, NEW s, NEW t, Accounted(i, E, s), Waiting(i, t) = Waiting(i, s),
           \A e : e.id = i => (e \in E <=> e \in F)
    PROVE  Accounted(i, F, t)
<1>1. Missing(i, t) = Missing(i, s)
  BY DEF Missing
<1> QED BY <1>1 DEF Accounted

\* An entry put back, with its quantity or less, stands for its order.
PutBackTo(p, k, b, x) ==
    /\ p \in Seq(Entries) /\ Items(p) = Items(b.pending) \cup {x}
    /\ \A j \in 1 .. Len(p) : \E m \in 1 .. k + 1 : p[j].id = pending[m].id
    /\ \A j, m \in 1 .. Len(p) : p[j].id = p[m].id => j = m

\* The queue with one more entry, of an order that is not in it yet.
LEMMA PutBack ==
    ASSUME PendingInv, NEW k \in 0 .. Len(pending) - 1, NEW b, RoundInv(b, k),
           NEW x \in Entries, x.id = pending[k + 1].id,
           NEW p, p = Append(b.pending, x)
    PROVE  PutBackTo(p, k, b, x)
<1>1. b.pending \in Seq(Entries) /\ k + 1 \in 1 .. Len(pending) /\ k \in Nat /\ Len(pending) \in Nat
  BY DEF RoundInv, PendingInv
<1>. DEFINE n == Len(b.pending)
<1>2. /\ p \in Seq(Entries) /\ Len(p) = n + 1 /\ n \in Nat
      /\ Items(p) = Items(b.pending) \cup {x}
  BY <1>1, AppendedElements
<1>3. p[n + 1] = x /\ \A j \in 1 .. n : p[j] = b.pending[j]
  BY <1>1
<1>4. \A j \in 1 .. n : b.pending[j].id # x.id
  <2>. SUFFICES ASSUME NEW j \in 1 .. n, b.pending[j].id = x.id PROVE FALSE
    OBVIOUS
  <2>1. PICK m \in 1 .. k : b.pending[j].id = pending[m].id
    BY DEF RoundInv
  <2>2. m \in 1 .. Len(pending) /\ m # k + 1
    BY <1>1
  <2> QED BY <1>1, <2>1, <2>2 DEF PendingInv
<1>5. \A j \in 1 .. n + 1 : j \in 1 .. n \/ j = n + 1
  BY <1>2
<1>6. ASSUME NEW j \in 1 .. n + 1 PROVE \E m \in 1 .. k + 1 : p[j].id = pending[m].id
  <2>1. CASE j \in 1 .. n
    <3>1. PICK m \in 1 .. k : b.pending[j].id = pending[m].id
      BY <2>1 DEF RoundInv
    <3>2. m \in 1 .. k + 1
      BY <1>1
    <3> QED BY <1>3, <2>1, <3>1, <3>2
  <2>2. CASE j = n + 1
    <3>1. k + 1 \in 1 .. k + 1
      BY <1>1
    <3> QED BY <1>3, <2>2, <3>1
  <2> QED BY <1>5, <2>1, <2>2
<1>7. ASSUME NEW j \in 1 .. n + 1, NEW m \in 1 .. n + 1, p[j].id = p[m].id PROVE j = m
  <2>1. CASE j \in 1 .. n /\ m \in 1 .. n
    BY <1>3, <1>7, <2>1 DEF RoundInv
  <2>2. CASE j = n + 1 /\ m \in 1 .. n
    BY <1>3, <1>4, <1>7, <2>2
  <2>3. CASE j \in 1 .. n /\ m = n + 1
    BY <1>3, <1>4, <1>7, <2>3
  <2> QED BY <1>5, <2>1, <2>2, <2>3
<1>. HIDE DEF n
<1> QED BY <1>2, <1>6, <1>7 DEF PutBackTo

\* What one round of the loop over the waiting entries does: nothing, drop the
\* entry, or fill its share and put the rest back.
Matched(m, b, e) ==
    \/ m = [pending |-> Append(b.pending, e), acks |-> b.acks, fills |-> b.fills]
    \/ m = b /\ FillQty(e.req.qty) = 0
    \/ \E f \in SimFills, rest \in Nat :
        /\ f.id = e.id /\ f.side = e.req.side /\ f.qty = FillQty(e.req.qty)
        /\ rest = e.req.qty - f.qty
        /\ m.acks = Append(b.acks, e.id) /\ m.fills = Append(b.fills, f)
        /\ m = [pending |-> m.pending, acks |-> m.acks, fills |-> m.fills]
        /\ IF rest = 0 THEN m.pending = b.pending \o << >>
           ELSE \E x \in Entries : /\ x.id = e.id /\ x.req.qty = rest /\ x.req.side = e.req.side
                                   /\ m.pending = b.pending \o <<x>>

\* Nothing else happens to an entry.
LEMMA MatchCases ==
    ASSUME ratio \in FillRatios, NEW q \in Quotes, NEW e \in Entries, NEW b,
           b = [pending |-> b.pending, acks |-> b.acks, fills |-> b.fills]
    PROVE  Matched(Match(q, b, e), b, e)
<1>1. /\ e.req.qty \in Nat \ {0} /\ e.req.side \in {"BUY", "SELL"} /\ e.id \in Nat
      /\ q.ask \in Ticks /\ q.bid \in Ticks
  BY DEF Entries, Quotes
<1>2. FillQty(e.req.qty) \in Nat /\ FillQty(e.req.qty) <= e.req.qty
  BY <1>1, ShareIsPart
<1>3. CASE ~CanFill(e.req, q)
  <2>1. Match(q, b, e) = [b EXCEPT !.pending = Append(@, e)]
    BY <1>3 DEF Match
  <2>2. [b EXCEPT !.pending = Append(@, e)]
        = [pending |-> Append(b.pending, e), acks |-> b.acks, fills |-> b.fills]
    OBVIOUS
  <2> QED BY <2>1, <2>2 DEF Matched
<1>4. CASE CanFill(e.req, q) /\ FillQty(e.req.qty) <= 0
  BY <1>2, <1>4 DEF Match, Matched
<1>5. CASE CanFill(e.req, q) /\ ~(FillQty(e.req.qty) <= 0)
  <2>. DEFINE f == [id |-> e.id, side |-> e.req.side, qty |-> FillQty(e.req.qty),
                    px |-> IF e.req.side = "BUY" THEN q.ask ELSE q.bid]
              rest == e.req.qty - FillQty(e.req.qty)
              m == Match(q, b, e)
  <2>1. f \in SimFills /\ rest \in Nat
    BY <1>1, <1>2, <1>5 DEF SimFills
  <2>2. m = [pending |-> b.pending \o Leftover(e), acks |-> Append(b.acks, e.id),
             fills |-> Append(b.fills, f)]
    BY <1>5 DEF Match
  <2>3. /\ m.acks = Append(b.acks, e.id) /\ m.fills = Append(b.fills, f)
        /\ m.pending = b.pending \o Leftover(e)
        /\ m = [pending |-> m.pending, acks |-> m.acks, fills |-> m.fills]
    BY <2>2
  <2>4. CASE rest = 0
    <3>1. Leftover(e) = << >>
      BY <2>4 DEF Leftover
    <3>2. /\ f.id = e.id /\ f.side = e.req.side /\ f.qty = FillQty(e.req.qty)
          /\ rest = e.req.qty - f.qty
      OBVIOUS
    <3>. HIDE DEF f, rest, m
    <3>3. Matched(m, b, e)
      BY <2>1, <2>3, <2>4, <3>1, <3>2 DEF Matched
    <3> QED BY <3>3 DEF m
  <2>5. CASE rest # 0
    <3>. DEFINE x == [e EXCEPT !.req.qty = rest]
    <3>1. Leftover(e) = <<x>>
      BY <2>1, <2>5 DEF Leftover
    <3>2. x \in Entries /\ x.id = e.id /\ x.req.qty = rest /\ x.req.side = e.req.side
      BY <2>1, <2>5 DEF Entries
    <3>3. /\ f.id = e.id /\ f.side = e.req.side /\ f.qty = FillQty(e.req.qty)
          /\ rest = e.req.qty - f.qty
      OBVIOUS
    <3>. HIDE DEF f, rest, m, x
    <3>4. Matched(m, b, e)
      BY <2>1, <2>3, <2>5, <3>1, <3>2, <3>3 DEF Matched
    <3> QED BY <3>4 DEF m
  <2> QED BY <2>4, <2>5
<1> QED BY <1>3, <1>4, <1>5

\* Each round keeps the account.
LEMMA MatchKeeps ==
    ASSUME ExchangeType, PendingInv, NEW q \in Quotes, NEW k \in 0 .. Len(pending) - 1, NEW b,
           RoundInv(b, k)
    PROVE  RoundInv(Match(q, b, pending[k + 1]), k + 1)
<1>. DEFINE e == pending[k + 1]
            B == Items(b.pending)
            D == {pending[j] : j \in k + 2 .. Len(pending)}
            m == Match(q, b, e)
<1>0. k \in Nat /\ Len(pending) \in Nat /\ k + 1 \in 1 .. Len(pending) /\ (k + 1) + 1 = k + 2
  BY DEF PendingInv
<1>1. e \in Entries /\ e.id \in DOMAIN sent /\ e.req.qty \in Nat \ {0} /\ e.id \in Nat
  <2>1. e \in Entries /\ e.id \in DOMAIN sent
    BY <1>0 DEF PendingInv
  <2>. HIDE DEF e
  <2> QED BY <2>1 DEF Entries
<1>2. EntriesAt(b, k) = B \cup {e} \cup D
  <2>1. k + 1 .. Len(pending) = {k + 1} \cup (k + 2 .. Len(pending))
    BY <1>0
  <2>2. ASSUME NEW y PROVE y \in {pending[j] : j \in k + 1 .. Len(pending)} <=> y \in {e} \cup D
    BY <2>1
  <2> QED BY <2>2 DEF EntriesAt
<1>3. \A y \in B : y.id # e.id
  <2>. SUFFICES ASSUME NEW j \in 1 .. Len(b.pending), b.pending[j].id = e.id PROVE FALSE
    BY DEF Items
  <2>1. PICK i \in 1 .. k : b.pending[j].id = pending[i].id
    BY DEF RoundInv
  <2>2. i \in 1 .. Len(pending) /\ i # k + 1
    BY <1>0
  <2> QED BY <1>0, <2>1, <2>2 DEF PendingInv
<1>4. \A y \in D : y.id # e.id
  <2>. SUFFICES ASSUME NEW j \in k + 2 .. Len(pending), pending[j].id = e.id PROVE FALSE
    OBVIOUS
  <2>1. j \in 1 .. Len(pending) /\ j # k + 1
    BY <1>0
  <2> QED BY <1>0, <2>1 DEF PendingInv
<1>5. /\ b.pending \in Seq(Entries) /\ b.acks \in Seq(Nat) /\ b.fills \in Seq(SimFills)
      /\ b = [pending |-> b.pending, acks |-> b.acks, fills |-> b.fills]
      /\ \A i \in DOMAIN sent : Accounted(i, B \cup {e} \cup D, b.fills)
      /\ Known(b.fills, acked \cup Range(b.acks)) /\ Range(ackQ) \subseteq Range(b.acks)
  BY <1>2 DEF RoundInv
<1>6. /\ \A j \in 1 .. Len(b.pending) : \E i \in 1 .. k + 1 : b.pending[j].id = pending[i].id
      /\ \A j, i \in 1 .. Len(b.pending) : b.pending[j].id = b.pending[i].id => j = i
  <2>1. \A i \in 1 .. k : i \in 1 .. k + 1
    BY <1>0
  <2> QED BY <2>1 DEF RoundInv
<1>7. /\ Missing(e.id, b.fills) = e.req.qty /\ e.req.side = sent[e.id].side
  BY <1>1, <1>5 DEF Accounted
<1>8. FillQty(e.req.qty) \in Nat /\ FillQty(e.req.qty) <= e.req.qty /\ FillQty(0) = 0
  BY <1>1, ShareIsPart DEF ExchangeType
<1>9. \A y : EntriesAt(y, k + 1) = Items(y.pending) \cup D
  BY <1>0 DEF EntriesAt
<1>a. \A x \in Entries : \A p : x.id = e.id /\ p = Append(b.pending, x) => PutBackTo(p, k, b, x)
  BY PutBack
<1>10. CASE m = [pending |-> Append(b.pending, e), acks |-> b.acks, fills |-> b.fills]
  <2>1. m.pending = Append(b.pending, e) /\ m.acks = b.acks /\ m.fills = b.fills
        /\ m = [pending |-> m.pending, acks |-> m.acks, fills |-> m.fills]
    BY <1>10
  <2>2. PutBackTo(m.pending, k, b, e)
    <3>. HIDE DEF m, e
    <3> QED BY <1>1, <1>a, <2>1
  <2>3. EntriesAt(m, k + 1) = B \cup {e} \cup D
    <3>. HIDE DEF m, e, B, D
    <3> QED BY <1>9, <2>2 DEF PutBackTo, B
  <2>. HIDE DEF m, e, B, D
  <2>4. RoundInv(m, k + 1)
    BY <1>5, <2>1, <2>2, <2>3 DEF RoundInv, PutBackTo
  <2> QED BY <2>4 DEF m, e
<1>11. CASE m = b /\ FillQty(e.req.qty) = 0
  <2>1. EntriesAt(m, k + 1) = B \cup D
    BY <1>9, <1>11
  <2>2. ASSUME NEW i \in DOMAIN sent PROVE Accounted(i, B \cup D, b.fills)
    <3>1. CASE i = e.id
      <4>1. \A y \in B \cup D : y.id # i
        BY <1>3, <1>4, <3>1
      <4>. HIDE DEF B, D, e
      <4> QED BY <1>1, <1>7, <1>11, <3>1, <4>1 DEF Accounted
    <3>2. CASE i # e.id
      <4>1. Accounted(i, B \cup {e} \cup D, b.fills)
        BY <1>5
      <4>2. \A y : y.id = i => (y \in B \cup {e} \cup D <=> y \in B \cup D)
        BY <3>2
      <4>. HIDE DEF B, D, e
      <4> QED BY <4>1, <4>2, AccountedAlike
    <3> QED BY <3>1, <3>2
  <2>. HIDE DEF m, e, B, D
  <2>3. RoundInv(m, k + 1)
    BY <1>5, <1>6, <1>11, <2>1, <2>2 DEF RoundInv
  <2> QED BY <2>3 DEF m, e
<1>12. ASSUME NEW f \in SimFills, NEW rest \in Nat,
              f.id = e.id, f.side = e.req.side, f.qty = FillQty(e.req.qty),
              rest = e.req.qty - f.qty,
              m.acks = Append(b.acks, e.id), m.fills = Append(b.fills, f),
              m = [pending |-> m.pending, acks |-> m.acks, fills |-> m.fills],
              IF rest = 0 THEN m.pending = b.pending \o << >>
              ELSE \E x \in Entries : /\ x.id = e.id /\ x.req.qty = rest
                                      /\ x.req.side = e.req.side
                                      /\ m.pending = b.pending \o <<x>>
       PROVE  RoundInv(m, k + 1)
  <2>1. /\ m.acks \in Seq(Nat) /\ Range(m.acks) = Range(b.acks) \cup {e.id}
        /\ m.fills \in Seq(SimFills)
    <3>. HIDE DEF m, e
    <3>1. b.acks \in Seq(Nat) /\ e.id \in Nat /\ m.acks = Append(b.acks, e.id)
      BY <1>1, <1>5, <1>12
    <3>2. m.acks \in Seq(Nat) /\ Range(m.acks) = Range(b.acks) \cup {e.id}
      BY <3>1, AppendedElements
    <3>3. m.fills \in Seq(SimFills)
      BY <1>5, <1>12
    <3> QED BY <3>2, <3>3
  <2>2. \A i : Waiting(i, m.fills) = Waiting(i, b.fills) + IF f.id = i THEN f.qty ELSE 0
    BY <1>5, <1>12, WaitingAppend
  <2>3. Known(m.fills, acked \cup Range(m.acks)) /\ Range(ackQ) \subseteq Range(m.acks)
    <3>1. /\ Len(m.fills) = Len(b.fills) + 1 /\ m.fills[Len(b.fills) + 1] = f
          /\ \A j \in 1 .. Len(b.fills) : m.fills[j] = b.fills[j]
          /\ Len(b.fills) \in Nat
      <4>. HIDE DEF m, e
      <4> QED BY <1>5, <1>12
    <3>2. \A j \in 1 .. Len(m.fills) : j \in 1 .. Len(b.fills) \/ j = Len(b.fills) + 1
      BY <3>1
    <3>. HIDE DEF m, e, B, D
    <3>3. ASSUME NEW j \in 1 .. Len(m.fills)
          PROVE  /\ m.fills[j].id \in DOMAIN sent
                 /\ m.fills[j].id \in acked \cup Range(m.acks)
                 /\ m.fills[j].side = sent[m.fills[j].id].side
      <4>1. CASE j \in 1 .. Len(b.fills)
        BY <1>5, <2>1, <3>1, <4>1 DEF Known
      <4>2. CASE j = Len(b.fills) + 1
        BY <1>1, <1>7, <1>12, <2>1, <3>1, <4>2
      <4> QED BY <3>2, <4>1, <4>2
    <3> QED BY <1>5, <2>1, <3>3 DEF Known
  <2>4. Missing(e.id, m.fills) = rest
    <3>1. Waiting(e.id, b.fills) \in Nat /\ Waiting(e.id, m.fills) = Waiting(e.id, b.fills) + f.qty
      BY <1>5, <1>12, <2>2, WaitingNat
    <3>2. sent[e.id].qty \in Int /\ applied[e.id] \in Int
      <4>. HIDE DEF e
      <4>1. e.id \in 1 .. Len(sent) /\ sent[e.id] \in Requests /\ Len(sent) \in Nat
        BY <1>1 DEF ExchangeType
      <4>2. e.id \in 1 .. MaxOrders
        BY <4>1, ExchangeAssumption DEF ExchangeType
      <4> QED BY <4>1, <4>2 DEF ExchangeType, Requests
    <3>3. sent[e.id].qty - (applied[e.id] + Waiting(e.id, b.fills)) = e.req.qty
      BY <1>7 DEF Missing
    <3>4. f.qty \in Nat
      BY DEF SimFills
    <3>. HIDE DEF m, e
    <3>5. sent[e.id].qty - (applied[e.id] + Waiting(e.id, m.fills)) = rest
      BY <1>1, <1>12, <3>1, <3>2, <3>3, <3>4
    <3> QED BY <3>5 DEF Missing
  <2>5. ASSUME NEW i \in DOMAIN sent, i # e.id, NEW E,
               \A y : y.id = i => (y \in B \cup {e} \cup D <=> y \in E)
        PROVE  Accounted(i, E, m.fills)
    <3>1. Accounted(i, B \cup {e} \cup D, b.fills)
      BY <1>5
    <3>2. Waiting(i, m.fills) = Waiting(i, b.fills)
      <4>1. Waiting(i, b.fills) \in Nat
        BY <1>5, WaitingNat
      <4> QED BY <1>12, <2>2, <2>5, <4>1
    <3>. HIDE DEF m, e, B, D
    <3> QED BY <2>5, <3>1, <3>2, AccountedAlike
  <2>6. CASE rest = 0
    <3>1. m.pending = b.pending
      <4>1. b.pending \o << >> = b.pending
        BY <1>5
      <4> QED BY <1>12, <2>6, <4>1
    <3>2. EntriesAt(m, k + 1) = B \cup D
      BY <1>9, <3>1
    <3>3. Accounted(e.id, B \cup D, m.fills)
      <4>1. \A y \in B \cup D : y.id # e.id
        BY <1>3, <1>4
      <4>. HIDE DEF m, e, B, D
      <4> QED BY <1>8, <2>4, <2>6, <4>1 DEF Accounted
    <3>4. ASSUME NEW i \in DOMAIN sent PROVE Accounted(i, B \cup D, m.fills)
      <4>1. CASE i # e.id
        <5>1. \A y : y.id = i => (y \in B \cup {e} \cup D <=> y \in B \cup D)
          BY <4>1
        <5>. HIDE DEF m, e, B, D
        <5> QED BY <2>5, <4>1, <5>1
      <4> QED BY <3>3, <4>1
    <3>. HIDE DEF m, e, B, D
    <3> QED BY <1>5, <1>6, <1>12, <2>1, <2>3, <3>1, <3>2, <3>4 DEF RoundInv
  <2>7. CASE rest # 0
    <3>1. PICK x \in Entries : /\ x.id = e.id /\ x.req.qty = rest /\ x.req.side = e.req.side
                               /\ m.pending = b.pending \o <<x>>
      BY <1>12, <2>7
    <3>2. m.pending = Append(b.pending, x)
      <4>1. b.pending \o <<x>> = Append(b.pending, x)
        BY <1>5
      <4> QED BY <3>1, <4>1
    <3>3. PutBackTo(m.pending, k, b, x)
      <4>. HIDE DEF m, e
      <4> QED BY <1>a, <3>1, <3>2
    <3>4. EntriesAt(m, k + 1) = B \cup {x} \cup D
      <4>. HIDE DEF m, e, B, D
      <4> QED BY <1>9, <3>3 DEF PutBackTo, B
    <3>5. Accounted(e.id, B \cup {x} \cup D, m.fills)
      <4>1. \A y \in B \cup {x} \cup D : y.id = e.id => y = x
        BY <1>3, <1>4
      <4>2. x \in B \cup {x} \cup D
        OBVIOUS
      <4>. HIDE DEF m, e, B, D
      <4> QED BY <1>7, <2>4, <3>1, <4>1, <4>2 DEF Accounted
    <3>6. ASSUME NEW i \in DOMAIN sent PROVE Accounted(i, B \cup {x} \cup D, m.fills)
      <4>1. CASE i # e.id
        <5>1. \A y : y.id = i => (y \in B \cup {e} \cup D <=> y \in B \cup {x} \cup D)
          BY <3>1, <4>1
        <5>. HIDE DEF m, e, B, D
        <5> QED BY <2>5, <4>1, <5>1
      <4> QED BY <3>5, <4>1
    <3>. HIDE DEF m, e, B, D
    <3> QED BY <1>5, <1>12, <2>1, <2>3, <3>3, <3>4, <3>6 DEF RoundInv, PutBackTo
  <2> QED BY <2>6, <2>7
<1>13. Matched(m, b, e)
  <2>1. ratio \in FillRatios
    BY DEF ExchangeType
  <2>2. b = [pending |-> b.pending, acks |-> b.acks, fills |-> b.fills] /\ e \in Entries
    BY <1>1, <1>5
  <2>3. m = Match(q, b, e)
    OBVIOUS
  <2>. HIDE DEF e, m
  <2> QED BY <2>1, <2>2, <2>3, MatchCases
<1>14. RoundInv(m, k + 1)
  <2>1. CASE m = [pending |-> Append(b.pending, e), acks |-> b.acks, fills |-> b.fills]
    BY <1>10, <2>1
  <2>2. CASE m = b /\ FillQty(e.req.qty) = 0
    BY <1>11, <2>2
  <2>. HIDE DEF m, e
  <2> QED BY <1>12, <1>13, <2>1, <2>2 DEF Matched
<1> QED BY <1>14

\* process_bbo tries every entry that waits, once and in order.
LEMMA RoundKeeps ==
    ASSUME ExchangeType, PendingInv, NEW q \in Quotes, RoundInv(NoMatch, 0),
           ProcessBbo(q), IsValidBbo(q)
    PROVE  \E b : /\ RoundInv(b, Len(pending))
                  /\ pending' = b.pending /\ ackQ' = b.acks /\ fillQ' = b.fills
<1>. DEFINE n == Len(pending)
            round == CHOOSE it : IsRound(q, it, n)
<1>0. n \in Nat
  BY DEF PendingInv
<1>1. IsRound(q, round, n)
  BY <1>0, RoundExists
<1>2. pending' = round[n].pending /\ ackQ' = round[n].acks /\ fillQ' = round[n].fills
  BY DEF ProcessBbo, IsRound, NoMatch
<1>. HIDE DEF round
<1>3. \A k \in 0 .. n : round[k] = IF k = 0 THEN NoMatch ELSE Match(q, round[k - 1], pending[k])
  BY <1>1 DEF IsRound
<1>. DEFINE S == {k \in 0 .. n : RoundInv(round[k], k)}
<1>4. 0 \in S
  <2>1. round[0] = NoMatch /\ 0 \in 0 .. n
    BY <1>0, <1>3
  <2> QED BY <2>1
<1>5. ASSUME NEW k \in 0 .. n - 1, k \in S PROVE k + 1 \in S
  <2>1. k + 1 \in 0 .. n /\ k + 1 # 0 /\ (k + 1) - 1 = k
    BY <1>0
  <2>2. round[k + 1] = Match(q, round[k], pending[k + 1])
    BY <1>3, <2>1
  <2>3. RoundInv(round[k], k)
    BY <1>5
  <2>4. RoundInv(round[k + 1], k + 1)
    BY <2>2, <2>3, MatchKeeps
  <2> QED BY <2>1, <2>4
<1>6. n \in S
  <2>. HIDE DEF S, n
  <2>1. \A k \in 0 .. n - 1 : k \in S => k + 1 \in S
    BY <1>5
  <2>2. n \in 0 .. n
    BY <1>0
  <2> QED BY <1>0, <1>4, <2>1, <2>2, InductionUpTo
<1> QED BY <1>2, <1>6

\* The quantity bought as a sum over the orders.
LEMMA SumOfBought ==
    /\ Bought = SumOver(BoughtBy, DOMAIN sent)
    /\ Bought' = SumOver(BoughtBy', DOMAIN sent')
<1>1. Bought = SumOver(BoughtBy, DOMAIN sent)
  BY DEF Bought, SumOver
<1>2. Bought' = SumOver(BoughtBy', DOMAIN sent')
  BY DEF Bought, SumOver, MapThenSumSet, MapThenFoldSet
<1> QED BY <1>1, <1>2

\* Where neither the orders nor what was handed on changes, a quantity bought,
\* an account and a round keep their meaning.
LEMMA SameOrders ==
    ASSUME UNCHANGED <<ratio, sent, applied>>
    PROVE  /\ Bought' = Bought /\ DOMAIN sent' = DOMAIN sent
           /\ \A i, E, s : Accounted(i, E, s)' = Accounted(i, E, s)
           /\ \A s, ids : Known(s, ids)' = Known(s, ids)
<1>1. Bought' = Bought /\ DOMAIN sent' = DOMAIN sent
  <2>1. Bought = SumOver(BoughtBy, DOMAIN sent) /\ Bought' = SumOver(BoughtBy', DOMAIN sent')
    BY SumOfBought
  <2>2. BoughtBy' = BoughtBy
    BY DEF BoughtBy
  <2> QED BY <2>1, <2>2
<1>2. ASSUME NEW i, NEW E, NEW s PROVE Accounted(i, E, s)' = Accounted(i, E, s)
  <2>1. Missing(i, s)' = Missing(i, s)
    BY DEF Missing, Waiting, QtyOf
  <2>2. FillQty(Missing(i, s))' = FillQty(Missing(i, s))
    BY <2>1 DEF FillQty
  <2> QED BY <2>1, <2>2 DEF Accounted
<1>3. ASSUME NEW s, NEW ids PROVE Known(s, ids)' = Known(s, ids)
  BY DEF Known
<1> QED BY <1>1, <1>2, <1>3

\* Steps that move neither orders nor fills.
LEMMA QuietKeeps ==
    ASSUME ExchangeInv, UNCHANGED <<exchangeVars, acked, applied, net>>,
           btPc' \in {"idle", "acks", "fills", "record"}, pc' = pc, pc = "idle",
           btPc' # "acks" => ackQ = << >>, btPc' \notin {"acks", "fills"} => fillQ = << >>
    PROVE  ExchangeInv'
<1>1. UNCHANGED <<ratio, sent, applied, pending, ackQ, fillQ, acked>>
  BY DEF exchangeVars
<1>2. ExchangeType' /\ PendingInv'
  BY <1>1 DEF ExchangeInv, ExchangeType, PendingInv
<1>3. OrdersInv' /\ AcksInv' /\ PositionInv'
  BY <1>1, SameOrders DEF ExchangeInv, OrdersInv, AcksInv, PositionInv
<1> QED BY <1>2, <1>3 DEF ExchangeInv

\* The strategy orders: the order waits, with all of its quantity missing.
LEMMA OrderKeeps ==
    ASSUME ExchangeInv, NEW req \in Requests, Order(req)
    PROVE  ExchangeInv'
<1>0. Len(sent) \in Nat
  BY DEF ExchangeInv, ExchangeType
<1>n. PICK n \in Nat : n = Len(sent)
  BY <1>0
<1>. DEFINE x == [id |-> n + 1, req |-> req]
<1>1. /\ sent \in Seq(Requests) /\ n \in Nat /\ n < MaxOrders /\ MaxOrders \in Nat
      /\ n + 1 \in 1 .. MaxOrders /\ n + 1 \notin 1 .. n
      /\ DOMAIN sent = 1 .. n /\ \A i \in 1 .. n : i \in 1 .. MaxOrders /\ i # n + 1
  BY <1>n, ExchangeAssumption DEF ExchangeInv, ExchangeType, Order, SendNewOrder
<1>2. /\ sent' = Append(sent, req) /\ pending' = Append(pending, x)
      /\ UNCHANGED <<ratio, ackQ, fillQ, vars, btPc, acked, applied>> /\ btPc = "idle"
  BY <1>n DEF Order, SendNewOrder
<1>3. ackQ = << >> /\ fillQ = << >> /\ pc = "idle" /\ pc' = "idle"
  BY <1>2 DEF ExchangeInv, AcksInv, vars, writerVars
<1>4. x \in Entries /\ x.id = n + 1 /\ x.req = req /\ req.qty \in Nat \ {0}
  BY <1>1, ExchangeAssumption DEF Requests, Entries
<1>5. /\ sent' \in Seq(Requests) /\ Len(sent') = n + 1 /\ sent'[n + 1] = req
      /\ DOMAIN sent' = 1 .. n + 1 /\ \A i \in 1 .. n : sent'[i] = sent[i]
  BY <1>1, <1>2
<1>. HIDE DEF x
<1>6. /\ pending \in Seq(Entries) /\ pending' \in Seq(Entries)
      /\ Items(pending') = Items(pending) \cup {x}
      /\ Len(pending') = Len(pending) + 1 /\ pending'[Len(pending) + 1] = x /\ Len(pending) \in Nat
      /\ \A j \in 1 .. Len(pending) : pending'[j] = pending[j] /\ pending[j].id \in 1 .. n
  <2>1. pending \in Seq(Entries) /\ \A j \in 1 .. Len(pending) : pending[j].id \in 1 .. n
    BY <1>1 DEF ExchangeInv, PendingInv
  <2> QED BY <1>2, <1>4, <2>1, AppendedElements
<1>7. \A j \in 1 .. Len(pending) + 1 : j \in 1 .. Len(pending) \/ j = Len(pending) + 1
  BY <1>6
<1>8. \A e \in Items(pending) : e.id \in 1 .. n
  BY <1>6 DEF Items
<1>9. \A i \in 1 .. n : i \in 1 .. n + 1
  BY <1>1
<1>10. ExchangeType'
  BY <1>1, <1>2, <1>5 DEF ExchangeInv, ExchangeType
<1>11. PendingInv'
  <2>1. ASSUME NEW j \in 1 .. Len(pending) + 1 PROVE pending'[j].id \in 1 .. n + 1
    <3>1. n + 1 \in 1 .. n + 1
      BY <1>1
    <3> QED BY <1>4, <1>6, <1>7, <1>9, <3>1
  <2>2. ASSUME NEW j \in 1 .. Len(pending) + 1, NEW k \in 1 .. Len(pending) + 1,
               pending'[j].id = pending'[k].id
        PROVE  j = k
    <3>1. CASE j \in 1 .. Len(pending) /\ k \in 1 .. Len(pending)
      BY <1>6, <2>2, <3>1 DEF ExchangeInv, PendingInv
    <3>2. CASE j \in 1 .. Len(pending) /\ k = Len(pending) + 1
      BY <1>1, <1>4, <1>6, <2>2, <3>2
    <3>3. CASE j = Len(pending) + 1 /\ k \in 1 .. Len(pending)
      BY <1>1, <1>4, <1>6, <2>2, <3>3
    <3> QED BY <1>7, <3>1, <3>2, <3>3
  <2> QED BY <1>5, <1>6, <2>1, <2>2 DEF PendingInv
<1>12. FillQty(0) = 0 /\ \A q : FillQty(q)' = FillQty(q)
  BY <1>2, ShareIsPart DEF ExchangeInv, ExchangeType, FillQty
<1>13. \A i : Waiting(i, fillQ) = 0 /\ Waiting(i, fillQ)' = 0
  BY <1>2, <1>3, WaitingNone
<1>14. OrdersInv'
  <2>1. ASSUME NEW i \in 1 .. n PROVE Accounted(i, Items(pending), fillQ)'
    <3>1. Accounted(i, Items(pending), fillQ)
      BY <1>1 DEF ExchangeInv, OrdersInv
    <3>2. Missing(i, fillQ)' = Missing(i, fillQ)
      BY <1>2, <1>5, <1>13 DEF Missing
    <3>3. x.id # i
      BY <1>1, <1>4
    <3>4. FillQty(Missing(i, fillQ))' = FillQty(Missing(i, fillQ))
      BY <1>2, <3>2 DEF FillQty
    <3> QED BY <1>5, <1>6, <3>1, <3>2, <3>3, <3>4 DEF Accounted
  <2>2. Accounted(n + 1, Items(pending), fillQ)'
    <3>1. applied[n + 1] = 0
      BY <1>1 DEF ExchangeInv, OrdersInv
    <3>2. Missing(n + 1, fillQ)' = req.qty
      BY <1>2, <1>4, <1>5, <1>13, <3>1 DEF Missing
    <3>3. \A e \in Items(pending') : e.id = n + 1 => e = x
      BY <1>1, <1>6, <1>8
    <3>4. x \in Items(pending')
      BY <1>6
    <3> QED BY <1>4, <1>5, <3>2, <3>3, <3>4 DEF Accounted
  <2>3. \A i \in 1 .. n + 1 : i \in 1 .. n \/ i = n + 1
    BY <1>1
  <2>4. \A i \in 1 .. MaxOrders : i \notin 1 .. n + 1 => applied[i] = 0
    BY <1>1, <1>9 DEF ExchangeInv, OrdersInv
  <2> QED BY <1>2, <1>5, <2>1, <2>2, <2>3, <2>4 DEF OrdersInv
<1>15. AcksInv'
  <2>1. Known(fillQ, acked \cup Range(ackQ))'
    BY <1>2, <1>3 DEF Known
  <2> QED BY <1>2, <1>3, <2>1 DEF ExchangeInv, AcksInv
<1>16. PositionInv'
  <2>1. net' = net
    BY <1>2 DEF net, vars, writerVars
  <2>2. BoughtBy'[n + 1] = 0 /\ \A i \in 1 .. n : BoughtBy'[i] = BoughtBy[i]
    <3>1. applied[n + 1] = 0
      BY <1>1 DEF ExchangeInv, OrdersInv
    <3>2. n + 1 \in 1 .. n + 1
      BY <1>1
    <3> QED BY <1>1, <1>2, <1>5, <1>9, <3>1, <3>2 DEF BoughtBy
  <2>3. \A i \in 1 .. n : BoughtBy[i] \in Int
    BY <1>1 DEF BoughtBy, ExchangeInv, ExchangeType
  <2>4. SumOver(BoughtBy', 1 .. n + 1) = SumOver(BoughtBy, 1 .. n) + BoughtBy'[n + 1]
    <3>1. \A i \in 1 .. n + 1 : BoughtBy'[i] \in Int
      <4>1. \A i \in 1 .. n + 1 : i \in 1 .. n \/ i = n + 1
        BY <1>1
      <4> QED BY <2>2, <2>3, <4>1
    <3> QED BY <2>2, <3>1, SumToNext
  <2>5. Bought' = Bought
    <3>1. SumOver(BoughtBy, 1 .. n) \in Int
      <4>1. IsFiniteSet(1 .. n)
        BY <1>1, FS_Interval
      <4> QED BY <2>3, <4>1, SumInt
    <3>2. Bought = SumOver(BoughtBy, 1 .. n) /\ Bought' = SumOver(BoughtBy', 1 .. n + 1)
      BY <1>1, <1>5, SumOfBought
    <3> QED BY <2>2, <2>4, <3>1, <3>2
  <2> QED BY <1>3, <2>1, <2>5 DEF ExchangeInv, PositionInv
<1> QED BY <1>10, <1>11, <1>14, <1>15, <1>16 DEF ExchangeInv

\* A quote is matched: the entries put back and the new fills account for every
\* order, and every fill has its acknowledgement.
LEMMA FeedKeeps ==
    ASSUME ExchangeInv, NEW q \in Quotes, FeedBbo(q)
    PROVE  ExchangeInv'
<1>1. /\ UNCHANGED <<vars, ratio, sent, acked, applied>> /\ btPc = "idle" /\ btPc' = "acks"
      /\ ProcessBbo(q)
  BY DEF FeedBbo, ProcessBbo
<1>2. pc = "idle" /\ pc' = "idle" /\ net' = net /\ Bought' = Bought /\ PositionInv'
  <2>1. pc = "idle" /\ pc' = pc /\ net' = net
    BY <1>1 DEF ExchangeInv, AcksInv, vars, writerVars, net
  <2> QED BY <1>1, <2>1, SameOrders DEF ExchangeInv, PositionInv
<1>3. CASE ~IsValidBbo(q)
  <2>1. UNCHANGED <<pending, ackQ, fillQ>>
    BY <1>1, <1>3 DEF ProcessBbo
  <2>2. UNCHANGED <<exchangeVars, acked, applied, net>>
    BY <1>1, <1>2, <2>1 DEF exchangeVars
  <2> QED BY <1>1, <1>2, <2>2, QuietKeeps
<1>4. CASE IsValidBbo(q)
  <2>1. RoundInv(NoMatch, 0)
    <3>1. EntriesAt(NoMatch, 0) = Items(pending) /\ Len(<< >>) = 0 /\ << >> \in Seq(Entries)
      BY DEF EntriesAt, NoMatch, Items
    <3> QED BY <3>1 DEF RoundInv, NoMatch, ExchangeInv, ExchangeType, OrdersInv, AcksInv
  <2>2. ExchangeType /\ PendingInv
    BY DEF ExchangeInv
  <2>3. PICK b : /\ RoundInv(b, Len(pending))
                 /\ pending' = b.pending /\ ackQ' = b.acks /\ fillQ' = b.fills
    BY <1>1, <1>4, <2>1, <2>2, RoundKeeps
  <2>4. EntriesAt(b, Len(pending)) = Items(pending')
    <3>1. Len(pending) + 1 .. Len(pending) = {}
      BY <2>2 DEF PendingInv
    <3> QED BY <2>3, <3>1 DEF EntriesAt
  <2>5. ExchangeType'
    BY <1>1, <2>2, <2>3 DEF ExchangeType, RoundInv
  <2>6. PendingInv'
    BY <1>1, <2>2, <2>3 DEF PendingInv, RoundInv
  <2>7. OrdersInv'
    <3>1. \A i \in DOMAIN sent : Accounted(i, Items(pending'), fillQ')
      BY <2>3, <2>4 DEF RoundInv
    <3>2. \A i \in DOMAIN sent : Accounted(i, Items(pending), fillQ)'
      <4>1. PICK E, s : E = Items(pending') /\ s = fillQ'
        OBVIOUS
      <4>2. \A i \in DOMAIN sent : Accounted(i, E, s)'
        BY <1>1, <3>1, <4>1, SameOrders
      <4> QED BY <4>1, <4>2 DEF Accounted, Missing, Waiting, QtyOf
    <3> QED BY <1>1, <3>2 DEF ExchangeInv, OrdersInv
  <2>8. AcksInv'
    <3>1. Known(fillQ, acked \cup Range(ackQ))'
      BY <1>1, <2>3 DEF RoundInv, Known
    <3>2. \A i \in 1 .. MaxOrders : applied'[i] > 0 => i \in acked' \cup Range(ackQ')
      BY <1>1, <2>3 DEF RoundInv, ExchangeInv, AcksInv
    <3> QED BY <1>1, <1>2, <3>1, <3>2 DEF AcksInv
  <2> QED BY <1>2, <2>5, <2>6, <2>7, <2>8 DEF ExchangeInv
<1> QED BY <1>3, <1>4

\* What a queue holds is its head and its tail.
LEMMA HeadAndTail ==
    ASSUME NEW S, NEW s \in Seq(S), s # << >>
    PROVE  /\ Tail(s) \in Seq(S) /\ Head(s) \in S
           /\ Range(s) = {Head(s)} \cup Range(Tail(s))
<1>1. Tail(s) \in Seq(S) /\ Head(s) \in S
  OBVIOUS
<1>2. PICK t \in Seq(S) : t = Tail(s)
  BY <1>1
<1>3. /\ Len(s) = Len(t) + 1 /\ Head(s) = s[1] /\ Len(t) \in Nat
      /\ \A k \in 1 .. Len(t) : t[k] = s[k + 1]
  BY <1>2, TailElements
<1>4. DOMAIN s = 1 .. Len(t) + 1 /\ DOMAIN t = 1 .. Len(t)
  BY <1>3
<1>5. ASSUME NEW y PROVE y \in Range(s) <=> y \in {Head(s)} \cup Range(t)
  <2>1. ASSUME NEW k \in 1 .. Len(t) + 1, y = s[k] PROVE y \in {Head(s)} \cup Range(t)
    <3>1. CASE k = 1
      BY <1>3, <2>1, <3>1
    <3>2. CASE k # 1
      <4>1. k - 1 \in 1 .. Len(t) /\ (k - 1) + 1 = k
        BY <1>3, <3>2
      <4>2. t[k - 1] = y
        BY <1>3, <2>1, <4>1
      <4> QED BY <1>4, <4>1, <4>2 DEF Range
    <3> QED BY <3>1, <3>2
  <2>2. ASSUME NEW k \in 1 .. Len(t), y = t[k] PROVE y \in Range(s)
    <3>1. k + 1 \in 1 .. Len(t) + 1 /\ s[k + 1] = y
      BY <1>3, <2>2
    <3> QED BY <1>4, <3>1 DEF Range
  <2>3. 1 \in 1 .. Len(t) + 1
    BY <1>3
  <2> QED BY <1>3, <1>4, <2>1, <2>2, <2>3 DEF Range
<1> QED BY <1>1, <1>2, <1>5

\* An acknowledgement is handed on.
LEMMA AckKeeps ==
    ASSUME ExchangeInv, DrainAck
    PROVE  ExchangeInv'
<1>1. /\ ackQ \in Seq(Nat) /\ ackQ # << >> /\ ackQ' = Tail(ackQ) /\ acked' = acked \cup {Head(ackQ)}
      /\ UNCHANGED <<vars, ratio, pending, fillQ, sent, btPc, applied>> /\ btPc = "acks"
  BY DEF DrainAck, PopAck, ExchangeInv, ExchangeType
<1>2. ackQ' \in Seq(Nat) /\ Range(ackQ) = {Head(ackQ)} \cup Range(ackQ')
  BY <1>1, HeadAndTail
<1>3. acked' \cup Range(ackQ') = acked \cup Range(ackQ)
  BY <1>1, <1>2
<1>4. pc' = pc /\ net' = net /\ pc = "idle"
  BY <1>1 DEF vars, writerVars, net, ExchangeInv, AcksInv
<1>5. ExchangeType' /\ PendingInv'
  BY <1>1, <1>2 DEF ExchangeInv, ExchangeType, PendingInv
<1>6. OrdersInv' /\ PositionInv'
  BY <1>1, <1>4, SameOrders DEF ExchangeInv, OrdersInv, PositionInv
<1>7. AcksInv'
  <2>1. Known(fillQ, acked \cup Range(ackQ))'
    BY <1>1, <1>3 DEF Known, ExchangeInv, AcksInv
  <2> QED BY <1>1, <1>3, <1>4, <2>1 DEF ExchangeInv, AcksInv
<1> QED BY <1>5, <1>6, <1>7 DEF ExchangeInv

\* Quotes lie in the range of the fills of the position manager.
LEMMA QuotesAreMarket == \A t \in Ticks : t \in Lo .. Hi
<1>1. /\ Prices # {} /\ IsFiniteSet(Prices) /\ \A x \in Prices : x \in Nat \ {0}
  BY PositionAssumption
<1>2. Lo \in Prices /\ \A y \in Prices : Lo <= y
  BY <1>1, MinBounds DEF Lo
<1>3. Hi \in Prices /\ \A y \in Prices : Hi >= y
  BY <1>1, MaxBounds DEF Hi
<1>4. ASSUME NEW t \in Ticks PROVE t \in Lo .. Hi
  <2>1. PICK lo \in Prices, hi \in Prices : lo <= t /\ t <= hi
    BY BacktestAssumption
  <2>2. t \in Nat
    BY ExchangeAssumption
  <2> QED BY <1>1, <1>2, <1>3, <2>1, <2>2
<1> QED BY <1>4

\* A fill is handed to on_fill: what waited is now applied.
LEMMA FillKeeps ==
    ASSUME ExchangeInv, DrainFill
    PROVE  /\ ExchangeInv'
           /\ \E g \in SomeFills : Realize(g)
<1>. DEFINE h == Head(fillQ)
<1>1. fillQ \in Seq(SimFills) /\ fillQ # << >>
  BY DEF ExchangeInv, ExchangeType, DrainFill, PopFill
<1>2. Tail(fillQ) \in Seq(SimFills) /\ h \in SimFills /\ h = fillQ[1] /\ 1 \in 1 .. Len(fillQ)
  BY <1>1, HeadAndTail
<1>3. PICK f \in SimFills : f = h
  BY <1>2
<1>. DEFINE g == [side |-> f.side, qty |-> f.qty, px |-> f.px]
<1>4. /\ fillQ' = Tail(fillQ) /\ applied' = [applied EXCEPT ![f.id] = @ + f.qty]
      /\ Realize(g) /\ btPc = "fills" /\ btPc' = "fills"
      /\ UNCHANGED <<ratio, pending, ackQ, sent, acked>>
  BY <1>3 DEF DrainFill, PopFill
<1>5. g \in SomeFills /\ g.side = f.side /\ g.qty = f.qty
  BY QuotesAreMarket DEF SimFills, SomeFills
<1>6. /\ f.id \in DOMAIN sent /\ f.id \in acked \cup Range(ackQ) /\ f.side = sent[f.id].side
      /\ f.qty \in Nat \ {0}
  BY <1>2, <1>3 DEF ExchangeInv, AcksInv, Known, SimFills
<1>. HIDE DEF h, g
<1>7. /\ sent \in Seq(Requests) /\ DOMAIN sent = 1 .. Len(sent) /\ Len(sent) \in Nat
      /\ \A i \in DOMAIN sent : i \in 1 .. MaxOrders
      /\ applied \in [1 .. MaxOrders -> Nat]
  BY ExchangeAssumption DEF ExchangeInv, ExchangeType
<1>8. /\ applied' \in [1 .. MaxOrders -> Nat]
      /\ \A i \in 1 .. MaxOrders : applied'[i] = applied[i] + IF f.id = i THEN f.qty ELSE 0
  BY <1>4, <1>6, <1>7
<1>9. ExchangeType' /\ PendingInv'
  BY <1>2, <1>4, <1>8 DEF ExchangeInv, ExchangeType, PendingInv
<1>10. OrdersInv'
  <2>1. ASSUME NEW i \in DOMAIN sent PROVE Accounted(i, Items(pending), fillQ)'
    <3>1. Accounted(i, Items(pending), fillQ)
      BY DEF ExchangeInv, OrdersInv
    <3>2. Missing(i, fillQ)' = Missing(i, fillQ)
      <4>1. Waiting(i, fillQ) = (IF f.id = i THEN f.qty ELSE 0) + Waiting(i, Tail(fillQ))
        BY <1>1, <1>3, WaitingTail DEF h
      <4>2. Waiting(i, Tail(fillQ)) \in Nat
        BY <1>2, WaitingNat
      <4>3. Waiting(i, fillQ)' = Waiting(i, Tail(fillQ))
        BY <1>4 DEF Waiting, QtyOf
      <4>4. i \in 1 .. MaxOrders /\ applied[i] \in Nat
        BY <1>7
      <4>5. applied'[i] + Waiting(i, fillQ)' = applied[i] + Waiting(i, fillQ)
        BY <1>6, <1>8, <4>1, <4>2, <4>3, <4>4
      <4> QED BY <1>4, <4>5 DEF Missing
    <3>3. FillQty(Missing(i, fillQ))' = FillQty(Missing(i, fillQ))
      BY <1>4, <3>2 DEF FillQty
    <3> QED BY <1>4, <3>1, <3>2, <3>3 DEF Accounted
  <2>2. \A i \in 1 .. MaxOrders : i \notin DOMAIN sent => applied'[i] = 0
    BY <1>6, <1>8 DEF ExchangeInv, OrdersInv
  <2> QED BY <1>4, <2>1, <2>2 DEF OrdersInv
<1>11. AcksInv'
  <2>1. Known(fillQ, acked \cup Range(ackQ))'
    <3>1. /\ Len(fillQ) = Len(Tail(fillQ)) + 1
          /\ \A k \in 1 .. Len(Tail(fillQ)) : Tail(fillQ)[k] = fillQ[k + 1]
      BY <1>1, TailElements
    <3>2. \A k \in 1 .. Len(Tail(fillQ)) : k + 1 \in 1 .. Len(fillQ)
      BY <1>2, <3>1
    <3>3. Known(fillQ, acked \cup Range(ackQ))
      BY DEF ExchangeInv, AcksInv
    <3> QED BY <1>4, <3>1, <3>2, <3>3 DEF Known
  <2>2. \A i \in 1 .. MaxOrders : applied'[i] > 0 => i \in acked \cup Range(ackQ)
    <3>1. ASSUME NEW i \in 1 .. MaxOrders, applied'[i] > 0 PROVE i \in acked \cup Range(ackQ)
      BY <1>6, <1>7, <1>8, <3>1 DEF ExchangeInv, AcksInv
    <3> QED BY <3>1
  <2>3. btPc' # "acks" => ackQ' = << >>
    BY <1>4 DEF ExchangeInv, AcksInv
  <2> QED BY <1>4, <2>1, <2>2, <2>3 DEF AcksInv
<1>12. PositionInv'
  <2>1. pc = "idle" /\ pc' = "avg" /\ fill' = g /\ net' = net /\ net = Bought
    BY <1>4 DEF Realize, net, ExchangeInv, PositionInv
  <2>2. NewQty(fill)' = net + Signed(g)
    BY <2>1 DEF NewQty, Signed
  <2>3. \A i \in DOMAIN sent : BoughtBy[i] \in Int /\ BoughtBy'[i] \in Int
    BY <1>4, <1>7, <1>8 DEF BoughtBy
  <2>4. /\ \A i \in DOMAIN sent : i # f.id => BoughtBy'[i] = BoughtBy[i]
        /\ BoughtBy'[f.id] = BoughtBy[f.id] + Signed(g)
    <3>1. \A i \in DOMAIN sent : i # f.id => applied'[i] = applied[i]
      BY <1>7, <1>8
    <3>2. \A i \in DOMAIN sent : i # f.id => BoughtBy'[i] = BoughtBy[i]
      BY <1>4, <3>1 DEF BoughtBy
    <3>3. applied'[f.id] = applied[f.id] + f.qty /\ applied[f.id] \in Nat
      BY <1>6, <1>7, <1>8
    <3>4. BoughtBy'[f.id] = BoughtBy[f.id] + Signed(g)
      BY <1>4, <1>5, <1>6, <3>3 DEF BoughtBy, Signed
    <3> QED BY <3>2, <3>4
  <2>a. IsFiniteSet(DOMAIN sent)
    BY <1>7, FS_Interval
  <2>5. SumOver(BoughtBy', DOMAIN sent)
        = SumOver(BoughtBy, DOMAIN sent) - BoughtBy[f.id] + BoughtBy'[f.id]
    BY <1>6, <2>a, <2>3, <2>4, SumUpdate
  <2>6. SumOver(BoughtBy, DOMAIN sent) \in Int /\ Signed(g) \in Int /\ BoughtBy[f.id] \in Int
    <3>1. SumOver(BoughtBy, DOMAIN sent) \in Int
      BY <2>a, <2>3, SumInt
    <3> QED BY <1>5, <1>6, <2>3, <3>1 DEF Signed
  <2>7. Bought = SumOver(BoughtBy, DOMAIN sent) /\ Bought' = SumOver(BoughtBy', DOMAIN sent)
    BY <1>4, SumOfBought
  <2>8. Bought' = Bought + Signed(g)
    BY <2>4, <2>5, <2>6, <2>7
  <2> QED BY <2>1, <2>2, <2>8 DEF PositionInv
<1> QED BY <1>4, <1>5, <1>9, <1>10, <1>11, <1>12 DEF ExchangeInv

\* The rest of on_fill publishes the quantity that was handed on.
LEMMA StoresKeep ==
    ASSUME ExchangeInv, BookInv, OnFillStores
    PROVE  ExchangeInv'
<1>1. UNCHANGED <<ratio, sent, applied, pending, ackQ, fillQ, acked, btPc>>
  BY DEF OnFillStores, backtestVars, exchangeVars
<1>2. ExchangeType' /\ PendingInv' /\ OrdersInv'
  BY <1>1, SameOrders DEF ExchangeInv, ExchangeType, PendingInv, OrdersInv
<1>3. pc # "idle" /\ pc' \in {"net", "idle"}
  BY DEF OnFillStores, StoreAvg, StoreNet
<1>4. AcksInv'
  BY <1>1, <1>3, SameOrders DEF ExchangeInv, AcksInv
<1>5. PositionInv'
  <2>1. CASE StoreAvg
    <3>1. pc = "avg" /\ pc' = "net" /\ fill' = fill /\ netHist' = netHist
      BY <2>1 DEF StoreAvg
    <3>2. NewQty(fill)' = NewQty(fill)
      BY <3>1 DEF NewQty, net, Signed
    <3> QED BY <1>1, <3>1, <3>2, SameOrders DEF ExchangeInv, PositionInv
  <2>2. CASE StoreNet
    <3>1. pc = "net" /\ pc' = "idle" /\ net' = NewQty(fill)
      BY <2>2, PublishesQuantity DEF StoreNet
    <3> QED BY <1>1, <3>1, SameOrders DEF ExchangeInv, PositionInv
  <2> QED BY <2>1, <2>2 DEF OnFillStores
<1> QED BY <1>2, <1>4, <1>5 DEF ExchangeInv

\* The report has booked what was realised when a day was last recorded.
ReportInv == days \in Seq(Int) /\ prev \in Int /\ TotalPnl = prev

\* A day is recorded.
LEMMA RecordKeeps ==
    ASSUME ReportInv, realized \in Int, RecordPnl
    PROVE  ReportInv'
<1>0. Len(days) \in Nat
  BY DEF ReportInv
<1>1. PICK n \in Nat : n = Len(days)
  BY <1>0
<1>2. days' = Append(days, realized - prev) /\ prev' = realized /\ days \in Seq(Int) /\ prev \in Int
  BY DEF RecordPnl, ReportInv
<1>3. /\ days' \in Seq(Int) /\ Len(days') = n + 1 /\ days'[n + 1] = realized - prev
      /\ \A i \in 1 .. n : days'[i] = days[i]
  BY <1>1, <1>2
<1>4. TotalPnl = SumOver(days, 1 .. n)
  BY <1>1 DEF TotalPnl, Equity, SumOver
<1>5. TotalPnl' = SumOver(days', 1 .. n + 1)
  BY <1>3 DEF TotalPnl, Equity, SumOver, MapThenSumSet, MapThenFoldSet
<1>6. SumOver(days', 1 .. n + 1) = SumOver(days, 1 .. n) + days'[n + 1]
  <2>1. \A i \in 1 .. n + 1 : days'[i] \in Int
    BY <1>3
  <2> QED BY <1>3, <2>1, SumToNext
<1>7. TotalPnl = prev
  BY DEF ReportInv
<1>8. TotalPnl' = realized
  BY <1>2, <1>3, <1>4, <1>5, <1>6, <1>7
<1> QED BY <1>2, <1>3, <1>8 DEF ReportInv

\* Steps that record nothing.
LEMMA ReportStays ==
    ASSUME ReportInv, UNCHANGED <<days, prev>>
    PROVE  ReportInv'
<1>1. TotalPnl = SumOver(days, 1 .. Len(days))
  BY DEF TotalPnl, Equity, SumOver
<1>2. TotalPnl' = SumOver(days', 1 .. Len(days'))
  BY DEF TotalPnl, Equity, SumOver, MapThenSumSet, MapThenFoldSet
<1> QED BY <1>1, <1>2 DEF ReportInv

BacktestInv ==
    /\ BookInv /\ ReaderInv /\ ReportInv
    /\ program = "backtest" => ExchangeInv

\* Both programs start with nothing ordered, filled or recorded.
LEMMA BacktestOpens == BacktestInit => BacktestInv
<1>. SUFFICES ASSUME BacktestInit PROVE BacktestInv
  OBVIOUS
<1>1. /\ ratio \in FillRatios /\ pending = << >> /\ ackQ = << >> /\ fillQ = << >> /\ sent = << >>
      /\ Init /\ btPc = "idle" /\ days = << >> /\ prev = 0 /\ acked = {}
      /\ applied = [i \in 1 .. MaxOrders |-> 0]
  BY DEF BacktestInit, ExchangeInit
<1>2. BookInv /\ ReaderInv /\ pc = "idle" /\ net = 0
  <2>1. pc = "idle" /\ netHist = <<[qty |-> 0, upTo |-> 1]>>
    BY <1>1 DEF Init
  <2> QED BY <1>1, <2>1, BooksOpen, ReaderStarts DEF net, Last
<1>3. ReportInv
  <2>1. 1 .. Len(days) = {} /\ days \in Seq(Int)
    BY <1>1
  <2>2. TotalPnl = SumOver(days, {})
    BY <2>1 DEF TotalPnl, Equity, SumOver
  <2> QED BY <1>1, <2>1, <2>2, SumEmpty DEF ReportInv
<1>4. DOMAIN sent = {} /\ Len(sent) = 0 /\ sent \in Seq(Requests)
  BY <1>1
<1>5. ExchangeType
  BY <1>1, <1>4, ExchangeAssumption DEF ExchangeType
<1>6. PendingInv
  BY <1>1 DEF PendingInv
<1>7. OrdersInv
  BY <1>1, <1>4 DEF OrdersInv
<1>8. AcksInv
  BY <1>1, <1>2 DEF AcksInv, Known
<1>9. PositionInv
  <2>1. Bought = SumOver(BoughtBy, {})
    BY <1>4, SumOfBought
  <2> QED BY <1>2, <2>1, SumEmpty DEF PositionInv
<1> QED BY <1>2, <1>3, <1>5, <1>6, <1>7, <1>8, <1>9 DEF BacktestInv, ExchangeInv

\* Every step of the back test keeps orders, fills and position together, and
\* moves the books as PositionThread does.
LEMMA ExchangeStep ==
    ASSUME ExchangeInv, BookInv, BacktestLoop
    PROVE  ExchangeInv' /\ AnyMove /\ (RecordPnl \/ UNCHANGED <<days, prev>>)
<1>1. ASSUME NEW req \in Requests, Order(req) PROVE ExchangeInv' /\ UNCHANGED <<vars, days, prev>>
  <2>1. ExchangeInv'
    BY <1>1, OrderKeeps
  <2> QED BY <1>1, <2>1 DEF Order
<1>2. ASSUME NEW q \in Quotes, FeedBbo(q) PROVE ExchangeInv' /\ UNCHANGED <<vars, days, prev>>
  <2>1. ExchangeInv'
    BY <1>2, FeedKeeps
  <2> QED BY <1>2, <2>1 DEF FeedBbo
<1>3. CASE DrainAck
  <2>1. ExchangeInv'
    BY <1>3, AckKeeps
  <2> QED BY <1>3, <2>1 DEF DrainAck, AnyMove
<1>4. CASE AcksDrained
  <2>1. /\ UNCHANGED <<vars, exchangeVars, acked, applied, days, prev>>
        /\ btPc = "acks" /\ btPc' = "fills" /\ ackQ = << >>
    BY <1>4 DEF AcksDrained
  <2>2. pc = "idle" /\ pc' = pc /\ net' = net
    BY <2>1 DEF vars, writerVars, net, ExchangeInv, AcksInv
  <2>3. ExchangeInv'
    BY <2>1, <2>2, QuietKeeps
  <2> QED BY <2>1, <2>3 DEF AnyMove
<1>5. CASE DrainFill
  <2>1. ExchangeInv' /\ \E g \in SomeFills : Realize(g)
    BY <1>5, FillKeeps
  <2> QED BY <1>5, <2>1 DEF DrainFill, AnyMove
<1>6. CASE FillsDrained
  <2>1. /\ UNCHANGED <<vars, exchangeVars, acked, applied, days, prev>>
        /\ btPc = "fills" /\ btPc' \in {"record", "idle"} /\ fillQ = << >> /\ pc = "idle"
    BY <1>6 DEF FillsDrained
  <2>2. pc' = pc /\ net' = net /\ ackQ = << >>
    BY <2>1 DEF vars, writerVars, net, ExchangeInv, AcksInv
  <2>3. ExchangeInv'
    BY <2>1, <2>2, QuietKeeps
  <2> QED BY <2>1, <2>3 DEF AnyMove
<1>7. CASE OnFillStores
  <2>1. ExchangeInv'
    BY <1>7, StoresKeep
  <2> QED BY <1>7, <2>1 DEF OnFillStores, AnyMove, backtestVars
<1>8. CASE RecordPnl
  <2>1. /\ UNCHANGED <<vars, exchangeVars, acked, applied>> /\ btPc = "record" /\ btPc' = "idle"
    BY <1>8 DEF RecordPnl
  <2>2. pc = "idle" /\ pc' = pc /\ net' = net /\ ackQ = << >> /\ fillQ = << >>
    BY <2>1 DEF vars, writerVars, net, ExchangeInv, AcksInv
  <2>3. ExchangeInv'
    BY <2>1, <2>2, QuietKeeps
  <2> QED BY <1>8, <2>1, <2>3 DEF AnyMove
<1> QED BY <1>1, <1>2, <1>3, <1>4, <1>5, <1>6, <1>7, <1>8 DEF AnyMove, BacktestLoop

\* Every step of either program.
LEMMA BacktestStep == BacktestInv /\ [BacktestNext]_programVars => BacktestInv'
<1>. SUFFICES ASSUME BacktestInv, [BacktestNext]_programVars PROVE BacktestInv'
  OBVIOUS
<1>0. BookInv /\ ReaderInv /\ ReportInv /\ realized \in Int /\ (program = "backtest" => ExchangeInv)
  BY DEF BacktestInv, BookInv
<1>1. ASSUME AnyMove, RecordPnl \/ UNCHANGED <<days, prev>>
      PROVE  BookInv' /\ ReaderInv' /\ ReportInv'
  <2>1. BookInv' /\ ReaderInv'
    BY <1>0, <1>1, BookStep, ReaderStep
  <2>2. ReportInv'
    BY <1>0, <1>1, RecordKeeps, ReportStays
  <2> QED BY <2>1, <2>2
<1>2. CASE program = "live" /\ Next /\ UNCHANGED program /\ UNCHANGED backtestVars
  BY <1>1, <1>2, LiveMoves DEF backtestVars, BacktestInv
<1>3. CASE UNCHANGED programVars
  <2>1. UNCHANGED vars /\ UNCHANGED backtestVars /\ program' = program
    BY <1>3 DEF programVars
  <2>2. BookInv' /\ ReaderInv' /\ ReportInv'
    BY <1>1, <2>1 DEF AnyMove, backtestVars
  <2>3. ASSUME program = "backtest" PROVE ExchangeInv'
    <3>1. ExchangeInv /\ UNCHANGED <<ratio, sent, applied, pending, ackQ, fillQ, acked, btPc>>
      BY <1>0, <2>1, <2>3 DEF backtestVars, exchangeVars
    <3>2. ExchangeType' /\ PendingInv' /\ OrdersInv' /\ AcksInv'
      BY <2>1, <3>1, SameOrders
      DEF ExchangeInv, ExchangeType, PendingInv, OrdersInv, AcksInv, vars, writerVars
    <3>3. net' = net /\ NewQty(fill)' = NewQty(fill) /\ pc' = pc
      BY <2>1 DEF vars, writerVars, net, NewQty, Signed
    <3> QED BY <3>1, <3>2, <3>3, SameOrders DEF ExchangeInv, PositionInv
  <2> QED BY <2>1, <2>2, <2>3 DEF BacktestInv
<1>4. CASE program = "backtest" /\ UNCHANGED program /\ BacktestLoop
  <2>1. ExchangeInv' /\ AnyMove /\ (RecordPnl \/ UNCHANGED <<days, prev>>)
    BY <1>0, <1>4, ExchangeStep
  <2> QED BY <1>1, <1>4, <2>1 DEF BacktestInv
<1> QED BY <1>2, <1>3, <1>4 DEF BacktestNext

\* Between two quotes nothing is on its way: orders, fills and position add up.
LEMMA OrdersAddUp == ExchangeInv /\ program = "backtest" => OrdersAreConserved
<1>. SUFFICES ASSUME ExchangeInv, btPc = "idle"
              PROVE  /\ \A i \in DOMAIN sent :
                         /\ applied[i] > 0 => i \in acked
                         /\ LET missing == sent[i].qty - applied[i]
                            IN \/ Resting(i) = {missing}
                               \/ Resting(i) = {} /\ FillQty(missing) = 0
                     /\ net = Bought
  BY DEF OrdersAreConserved
<1>1. ackQ = << >> /\ fillQ = << >> /\ pc = "idle" /\ net = Bought
  BY DEF ExchangeInv, AcksInv, PositionInv
<1>2. ASSUME NEW i \in DOMAIN sent PROVE applied[i] > 0 => i \in acked
  <2>1. i \in 1 .. MaxOrders
    BY ExchangeAssumption DEF ExchangeInv, ExchangeType
  <2>2. Range(ackQ) = {}
    BY <1>1 DEF Range
  <2> QED BY <2>1, <2>2 DEF ExchangeInv, AcksInv
<1>3. ASSUME NEW i \in DOMAIN sent
      PROVE  LET missing == sent[i].qty - applied[i]
             IN \/ Resting(i) = {missing}
                \/ Resting(i) = {} /\ FillQty(missing) = 0
  <2>. DEFINE missing == sent[i].qty - applied[i]
  <2>1. Missing(i, fillQ) = missing
    <3>1. applied[i] \in Nat
      <4>1. i \in 1 .. MaxOrders
        BY ExchangeAssumption DEF ExchangeInv, ExchangeType
      <4> QED BY <4>1 DEF ExchangeInv, ExchangeType
    <3> QED BY <1>1, <3>1, WaitingNone DEF Missing
  <2>2. Accounted(i, Items(pending), fillQ)
    BY DEF ExchangeInv, OrdersInv
  <2>3. DOMAIN pending = 1 .. Len(pending)
    BY DEF ExchangeInv, PendingInv
  <2>. HIDE DEF missing
  <2>4. \A j \in DOMAIN pending : pending[j].id = i => pending[j].req.qty = missing
    BY <2>1, <2>2, <2>3 DEF Accounted, Items
  <2>5. CASE \E j \in DOMAIN pending : pending[j].id = i
    BY <2>4, <2>5 DEF Resting, missing
  <2>6. CASE ~\E j \in DOMAIN pending : pending[j].id = i
    <3>1. \A e \in Items(pending) : e.id # i
      BY <2>3, <2>6 DEF Items
    <3>2. FillQty(missing) = 0
      BY <2>1, <2>2, <3>1 DEF Accounted
    <3>3. Resting(i) = {}
      BY <2>6 DEF Resting
    <3> QED BY <3>2, <3>3 DEF missing
  <2> QED BY <2>5, <2>6
<1> QED BY <1>1, <1>2, <1>3

\* Both programs keep their books; between two quotes of the back test every
\* order is filled, resting or too small to fill, the position is the sum of the
\* fills, and the report adds up to the realised PnL with the deepest fall of
\* its curve as its drawdown, for every sequence of orders and quotes.
THEOREM BacktestIsKept ==
    BacktestSpec => []BooksBalance /\ []AverageIsNotOlder /\ []BacktestReconciles
<1>1. BacktestInv => BacktestReconciles
  <2>. SUFFICES ASSUME BacktestInv PROVE BacktestReconciles
    OBVIOUS
  <2>1. OrdersAreConserved
    BY OrdersAddUp DEF BacktestInv, OrdersAreConserved
  <2>2. ReportMatchesBooks
    BY DrawdownIsDeepest DEF BacktestInv, ReportInv, ReportMatchesBooks, Falls
  <2> QED BY <2>1, <2>2 DEF BacktestReconciles
<1>2. BacktestInv => BooksBalance /\ AverageIsNotOlder
  BY BooksMean DEF BacktestInv
<1> QED BY <1>1, <1>2, BacktestOpens, BacktestStep, PTL DEF BacktestSpec
=============================================================================
