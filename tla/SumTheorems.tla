---------------------------- MODULE SumTheorems ----------------------------
(***************************************************************************)
(* Sums over finite sets, for the proofs about what the program adds up:   *)
(* reserved quantities, fills, tokens.  SumOver(g, S) is the community     *)
(* modules' MapThenSumSet for a function g; it takes the elements of S one *)
(* by one in an order of its own, and the lemmas show that this order does *)
(* not matter.                                                             *)
(*                                                                         *)
(* The induction is by least counterexample: a non-empty set of subsets of *)
(* a finite set has one that is minimal under inclusion.                   *)
(***************************************************************************)
EXTENDS Integers, Sequences, FiniteSetsExt, FiniteSetTheorems, TLAPS

SumOver(g, S) == MapThenSumSet(LAMBDA x : g[x], S)

\* The order in which MapThenSumSet takes the elements, and what it computes
\* for the subsets of S on the way.
AnyOf(s) == CHOOSE x \in s : TRUE
SumStep(g, h, s) == IF s = {} THEN 0 ELSE g[AnyOf(s)] + h[s \ {AnyOf(s)}]
IsSum(g, S, h) == h = [s \in SUBSET S |-> SumStep(g, h, s)]

-----------------------------------------------------------------------------
(* The recursion is well defined                                           *)

\* Among the counterexamples there is a minimal one.
LEMMA SmallestSubset ==
    ASSUME NEW S, IsFiniteSet(S), NEW B \in SUBSET (SUBSET S), B # {}
    PROVE  \E s \in B : \A t \in B : ~(t \subseteq s /\ t # s)
<1>1. IsWellFoundedOn(StrictSubsetOrdering(S), FiniteSubsetsOf(S))
  BY FS_StrictSubsetOrderingWellFounded
<1>2. B \subseteq FiniteSubsetsOf(S)
  BY FS_Subset DEF FiniteSubsetsOf
<1>3. PICK s \in B : \A t \in B : ~(<<t, s>> \in StrictSubsetOrdering(S))
  BY <1>1, <1>2, WFMin
<1> QED BY <1>3 DEF StrictSubsetOrdering

\* The element taken is one of the set.
LEMMA AnyOfIn == ASSUME NEW s, s # {} PROVE AnyOf(s) \in s
BY DEF AnyOf

\* Two solutions of the recursion agree where both are defined.
LEMMA SumUnique ==
    ASSUME NEW g, NEW S, IsFiniteSet(S), NEW T, NEW h, NEW k,
           IsSum(g, S, h), IsSum(g, T, k), NEW s, s \subseteq S, s \subseteq T
    PROVE  h[s] = k[s]
<1>. DEFINE B == {t \in SUBSET S : t \subseteq T /\ h[t] # k[t]}
<1>. SUFFICES ASSUME B # {} PROVE FALSE
  OBVIOUS
<1>1. PICK t \in B : \A u \in B : ~(u \subseteq t /\ u # t)
  <2>1. B \in SUBSET (SUBSET S)
    OBVIOUS
  <2> HIDE DEF B
  <2> QED BY <2>1, SmallestSubset
<1>2. h[t] = SumStep(g, h, t) /\ k[t] = SumStep(g, k, t)
  BY DEF IsSum
<1>3. t # {}
  BY <1>2 DEF SumStep
<1>. DEFINE r == t \ {AnyOf(t)}
<1>4. r \subseteq t /\ r # t /\ r \subseteq S /\ r \subseteq T
  BY <1>3, AnyOfIn
<1>5. h[r] = k[r]
  BY <1>1, <1>4
<1> QED BY <1>2, <1>3, <1>5 DEF SumStep

\* The recursion has a solution on the subsets of every finite set.
LEMMA SumExists ==
    ASSUME NEW g, NEW S, IsFiniteSet(S)
    PROVE  \E h : IsSum(g, S, h)
<1>. DEFINE B == {t \in SUBSET S : ~\E h : IsSum(g, t, h)}
<1>. SUFFICES ASSUME B # {} PROVE FALSE
  OBVIOUS
<1>1. PICK t \in B : \A u \in B : ~(u \subseteq t /\ u # t)
  <2>1. B \in SUBSET (SUBSET S)
    OBVIOUS
  <2> HIDE DEF B
  <2> QED BY <2>1, SmallestSubset
<1>. DEFINE F(u) == CHOOSE h : IsSum(g, u, h)
            H == [s \in SUBSET t |-> IF s = {} THEN 0
                     ELSE g[AnyOf(s)] + F(s \ {AnyOf(s)})[s \ {AnyOf(s)}]]
<1>2. \A u : u \subseteq t /\ u # t => IsSum(g, u, F(u))
  <2>. TAKE u
  <2>. HAVE u \subseteq t /\ u # t
  <2>1. u \in SUBSET S /\ u \notin B
    BY <1>1
  <2>2. \E h : IsSum(g, u, h)
    BY <2>1
  <2> QED BY <2>2
<1>. HIDE DEF F
<1>3. ASSUME NEW s \in SUBSET t, s # {}
      PROVE  H[s \ {AnyOf(s)}] = F(s \ {AnyOf(s)})[s \ {AnyOf(s)}]
  <2>. DEFINE r == s \ {AnyOf(s)}
  <2>1. r \subseteq t /\ r # t /\ r \in SUBSET t
    BY <1>3, AnyOfIn
  <2>2. IsSum(g, r, F(r))
    BY <2>1, <1>2
  <2>3. F(r)[r] = SumStep(g, F(r), r)
    BY <2>2 DEF IsSum
  <2>4. CASE r = {}
    BY <2>1, <2>3, <2>4 DEF SumStep
  <2>5. CASE r # {}
    <3>. DEFINE q == r \ {AnyOf(r)}
    <3>1. q \subseteq t /\ q # t /\ q \subseteq r /\ IsFiniteSet(r)
      <4>1. IsFiniteSet(t)
        BY FS_Subset
      <4> QED BY <2>1, <2>5, AnyOfIn, FS_Subset, <4>1
    <3>2. IsSum(g, q, F(q))
      BY <3>1, <1>2
    <3>. HIDE DEF q, r
    <3>3. F(r)[q] = F(q)[q]
      BY <2>2, <3>1, <3>2, SumUnique
    <3> QED BY <2>1, <2>3, <2>5, <3>3 DEF SumStep, q, r
  <2> QED BY <2>4, <2>5
<1>4. IsSum(g, t, H)
  <2>1. \A s \in SUBSET t : H[s] = SumStep(g, H, s)
    <3>. TAKE s \in SUBSET t
    <3>1. CASE s = {}
      BY <3>1 DEF SumStep
    <3>2. CASE s # {}
      <4>1. H[s] = g[AnyOf(s)] + F(s \ {AnyOf(s)})[s \ {AnyOf(s)}]
        BY <3>2
      <4>. HIDE DEF H
      <4> QED BY <1>3, <3>2, <4>1 DEF SumStep
    <3> QED BY <3>1, <3>2
  <2>2. H = [s \in SUBSET t |-> H[s]]
    OBVIOUS
  <2>. HIDE DEF H
  <2> QED BY <2>1, <2>2 DEF IsSum
<1> QED BY <1>4

\* MapThenSumSet computes that solution.
LEMMA SumIsSum ==
    ASSUME NEW g, NEW S, IsFiniteSet(S)
    PROVE  \E h : IsSum(g, S, h) /\ SumOver(g, S) = h[S]
<1>. DEFINE Body(it) == [s \in SUBSET S |->
                           IF s = {} THEN 0
                           ELSE g[CHOOSE x \in s : TRUE] + it[s \ {CHOOSE x \in s : TRUE}]]
            iter == CHOOSE it : it = Body(it)
<1>1. SumOver(g, S) = iter[S]
  BY DEF SumOver, MapThenSumSet, MapThenFoldSet
<1>2. PICK h : IsSum(g, S, h)
  BY SumExists
<1>3. h = Body(h)
  BY <1>2 DEF IsSum, SumStep, AnyOf
<1>4. iter = Body(iter)
  <2>. HIDE DEF Body
  <2> QED BY <1>3
<1>5. IsSum(g, S, iter)
  <2>. HIDE DEF iter
  <2> QED BY <1>4 DEF IsSum, SumStep, AnyOf
<1> QED BY <1>1, <1>5

\* One step of the recursion.
LEMMA SumUnfold ==
    ASSUME NEW g, NEW S, IsFiniteSet(S)
    PROVE  /\ S = {} => SumOver(g, S) = 0
           /\ S # {} => SumOver(g, S) = g[AnyOf(S)] + SumOver(g, S \ {AnyOf(S)})
<1>. DEFINE r == S \ {AnyOf(S)}
<1>1. PICK h : IsSum(g, S, h) /\ SumOver(g, S) = h[S]
  BY SumIsSum
<1>2. IsFiniteSet(r)
  BY FS_Subset
<1>3. PICK k : IsSum(g, r, k) /\ SumOver(g, r) = k[r]
  BY <1>2, SumIsSum
<1>4. h[S] = SumStep(g, h, S)
  BY <1>1 DEF IsSum
<1>. HIDE DEF r
<1>5. h[r] = k[r]
  <2>1. r \subseteq S
    BY DEF r
  <2> QED BY <1>1, <1>3, <2>1, SumUnique
<1> QED BY <1>1, <1>3, <1>4, <1>5 DEF SumStep, r

-----------------------------------------------------------------------------
(* The laws the proofs use                                                 *)

\* The empty sum.
LEMMA SumEmpty == ASSUME NEW g PROVE SumOver(g, {}) = 0
BY SumUnfold, FS_EmptySet

\* A sum of integers is an integer.
LEMMA SumInt ==
    ASSUME NEW S, IsFiniteSet(S), NEW g, \A x \in S : g[x] \in Int
    PROVE  SumOver(g, S) \in Int
<1>. DEFINE B == {t \in SUBSET S : SumOver(g, t) \notin Int}
<1>. SUFFICES ASSUME B # {} PROVE FALSE
  OBVIOUS
<1>1. PICK t \in B : \A u \in B : ~(u \subseteq t /\ u # t)
  <2>1. B \in SUBSET (SUBSET S)
    OBVIOUS
  <2> HIDE DEF B
  <2> QED BY <2>1, SmallestSubset
<1>2. IsFiniteSet(t) /\ t \in SUBSET S
  BY FS_Subset
<1>3. t # {}
  BY SumEmpty
<1>4. SumOver(g, t \ {AnyOf(t)}) \in Int /\ AnyOf(t) \in S
  BY <1>1, <1>2, <1>3, AnyOfIn
<1>5. SumOver(g, t) = g[AnyOf(t)] + SumOver(g, t \ {AnyOf(t)})
  BY <1>2, <1>3, SumUnfold
<1> QED BY <1>4, <1>5

\* Any element may be taken out of a sum first.
LEMMA SumRemove ==
    ASSUME NEW S, IsFiniteSet(S), NEW g, \A x \in S : g[x] \in Int, NEW y \in S
    PROVE  SumOver(g, S) = g[y] + SumOver(g, S \ {y})
<1>. DEFINE B == {t \in SUBSET S : \E z \in t : SumOver(g, t) # g[z] + SumOver(g, t \ {z})}
<1>. SUFFICES ASSUME B # {} PROVE FALSE
  OBVIOUS
<1>1. PICK t \in B : \A u \in B : ~(u \subseteq t /\ u # t)
  <2>1. B \in SUBSET (SUBSET S)
    OBVIOUS
  <2> HIDE DEF B
  <2> QED BY <2>1, SmallestSubset
<1>2. PICK z \in t : SumOver(g, t) # g[z] + SumOver(g, t \ {z})
  OBVIOUS
<1>. DEFINE a == AnyOf(t)
<1>3. /\ IsFiniteSet(t) /\ t \in SUBSET S /\ t # {} /\ a \in t
      /\ SumOver(g, t) = g[a] + SumOver(g, t \ {a})
  BY <1>2, FS_Subset, SumUnfold, AnyOfIn
<1>. HIDE DEF a
<1>4. a # z
  BY <1>2, <1>3
<1>5. \A c, d \in t : c # d => SumOver(g, t \ {c}) = g[d] + SumOver(g, (t \ {c}) \ {d})
  <2>. TAKE c, d \in t
  <2>. HAVE c # d
  <2>1. t \ {c} \in SUBSET S /\ t \ {c} \subseteq t /\ t \ {c} # t /\ d \in t \ {c}
    BY <1>3
  <2>2. t \ {c} \notin B
    BY <1>1, <2>1
  <2> QED BY <2>1, <2>2
<1>6. (t \ {a}) \ {z} = (t \ {z}) \ {a}
  OBVIOUS
<1>. DEFINE w == SumOver(g, (t \ {z}) \ {a})
<1>7. w \in Int /\ g[a] \in Int /\ g[z] \in Int
  <2>1. IsFiniteSet((t \ {z}) \ {a}) /\ \A x \in (t \ {z}) \ {a} : g[x] \in Int
    BY <1>3, FS_Subset
  <2> QED BY <2>1, <1>3, SumInt
<1>8. SumOver(g, t \ {a}) = g[z] + w /\ SumOver(g, t \ {z}) = g[a] + w
  BY <1>3, <1>4, <1>5, <1>6
<1>. HIDE DEF w
<1> QED BY <1>2, <1>3, <1>7, <1>8

\* A new element adds its value.
LEMMA SumAdd ==
    ASSUME NEW S, IsFiniteSet(S), NEW y, y \notin S, NEW g, g[y] \in Int,
           \A x \in S : g[x] \in Int
    PROVE  SumOver(g, S \cup {y}) = SumOver(g, S) + g[y]
<1>. DEFINE T == S \cup {y}
<1>1. IsFiniteSet(T) /\ y \in T /\ T \ {y} = S /\ \A x \in T : g[x] \in Int
  BY FS_AddElement
<1>2. SumOver(g, S) \in Int
  BY SumInt
<1>. HIDE DEF T
<1>3. SumOver(g, T) = g[y] + SumOver(g, T \ {y})
  BY <1>1, SumRemove
<1>4. T \ {y} = S
  BY <1>1
<1>5. SumOver(g, T) = g[y] + SumOver(g, S)
  BY <1>3, <1>4, Zenon
<1>6. g[y] + SumOver(g, S) = SumOver(g, S) + g[y]
  BY <1>2
<1> QED BY <1>5, <1>6, Zenon DEF T

\* The sum depends only on the values at the elements.
LEMMA SumEqual ==
    ASSUME NEW S, IsFiniteSet(S), NEW g, NEW k, \A x \in S : g[x] = k[x]
    PROVE  SumOver(g, S) = SumOver(k, S)
<1>. DEFINE B == {t \in SUBSET S : SumOver(g, t) # SumOver(k, t)}
<1>. SUFFICES ASSUME B # {} PROVE FALSE
  OBVIOUS
<1>1. PICK t \in B : \A u \in B : ~(u \subseteq t /\ u # t)
  <2>1. B \in SUBSET (SUBSET S)
    OBVIOUS
  <2> HIDE DEF B
  <2> QED BY <2>1, SmallestSubset
<1>2. IsFiniteSet(t) /\ t \in SUBSET S
  BY FS_Subset
<1>3. t # {}
  BY SumEmpty
<1>4. SumOver(g, t \ {AnyOf(t)}) = SumOver(k, t \ {AnyOf(t)}) /\ AnyOf(t) \in S
  BY <1>1, <1>2, <1>3, AnyOfIn
<1>5. /\ SumOver(g, t) = g[AnyOf(t)] + SumOver(g, t \ {AnyOf(t)})
      /\ SumOver(k, t) = k[AnyOf(t)] + SumOver(k, t \ {AnyOf(t)})
  BY <1>2, <1>3, SumUnfold
<1> QED BY <1>4, <1>5

\* Changing one value changes the sum by as much.
LEMMA SumUpdate ==
    ASSUME NEW S, IsFiniteSet(S), NEW g, NEW k, NEW y \in S,
           \A x \in S : g[x] \in Int /\ k[x] \in Int,
           \A x \in S : x # y => k[x] = g[x]
    PROVE  SumOver(k, S) = SumOver(g, S) - g[y] + k[y]
<1>1. IsFiniteSet(S \ {y})
  BY FS_Subset
<1>2. SumOver(g, S \ {y}) = SumOver(k, S \ {y})
  BY <1>1, SumEqual
<1>3. SumOver(g, S \ {y}) \in Int
  BY <1>1, SumInt
<1>4. SumOver(g, S) = g[y] + SumOver(g, S \ {y}) /\ SumOver(k, S) = k[y] + SumOver(k, S \ {y})
  BY SumRemove
<1> QED BY <1>2, <1>3, <1>4

\* A sum of values that are not negative is not negative.
LEMMA SumNat ==
    ASSUME NEW S, IsFiniteSet(S), NEW g, \A x \in S : g[x] \in Nat
    PROVE  SumOver(g, S) \in Nat
<1>. DEFINE B == {t \in SUBSET S : SumOver(g, t) \notin Nat}
<1>. SUFFICES ASSUME B # {} PROVE FALSE
  OBVIOUS
<1>1. PICK t \in B : \A u \in B : ~(u \subseteq t /\ u # t)
  <2>1. B \in SUBSET (SUBSET S)
    OBVIOUS
  <2> HIDE DEF B
  <2> QED BY <2>1, SmallestSubset
<1>2. IsFiniteSet(t) /\ t \in SUBSET S
  BY FS_Subset
<1>3. t # {}
  BY SumEmpty
<1>4. SumOver(g, t \ {AnyOf(t)}) \in Nat /\ AnyOf(t) \in S
  BY <1>1, <1>2, <1>3, AnyOfIn
<1>5. SumOver(g, t) = g[AnyOf(t)] + SumOver(g, t \ {AnyOf(t)})
  BY <1>2, <1>3, SumUnfold
<1> QED BY <1>4, <1>5

\* A sum of zeros is zero.
LEMMA SumZero ==
    ASSUME NEW S, IsFiniteSet(S), NEW g, \A x \in S : g[x] = 0
    PROVE  SumOver(g, S) = 0
<1>. DEFINE B == {t \in SUBSET S : SumOver(g, t) # 0}
<1>. SUFFICES ASSUME B # {} PROVE FALSE
  OBVIOUS
<1>1. PICK t \in B : \A u \in B : ~(u \subseteq t /\ u # t)
  <2>1. B \in SUBSET (SUBSET S)
    OBVIOUS
  <2> HIDE DEF B
  <2> QED BY <2>1, SmallestSubset
<1>2. IsFiniteSet(t) /\ t \in SUBSET S
  BY FS_Subset
<1>3. t # {}
  BY SumEmpty
<1>4. SumOver(g, t \ {AnyOf(t)}) = 0 /\ AnyOf(t) \in S
  BY <1>1, <1>2, <1>3, AnyOfIn
<1>5. SumOver(g, t) = g[AnyOf(t)] + SumOver(g, t \ {AnyOf(t)})
  BY <1>2, <1>3, SumUnfold
<1> QED BY <1>4, <1>5

\* Renaming the elements one to one does not change the sum.
LEMMA SumImage ==
    ASSUME NEW S, IsFiniteSet(S), NEW T, IsFiniteSet(T),
           NEW f \in [S -> T], \A x, y \in S : f[x] = f[y] => x = y, NEW g,
           NEW k, \A x \in S : g[x] \in Int /\ k[f[x]] = g[x]
    PROVE  SumOver(g, S) = SumOver(k, {f[x] : x \in S})
<1>. DEFINE Im(t) == {f[x] : x \in t}
            B == {t \in SUBSET S : SumOver(g, t) # SumOver(k, Im(t))}
<1>. SUFFICES ASSUME B # {} PROVE FALSE
  OBVIOUS
<1>1. PICK t \in B : \A u \in B : ~(u \subseteq t /\ u # t)
  <2>1. B \in SUBSET (SUBSET S)
    OBVIOUS
  <2> HIDE DEF B
  <2> QED BY <2>1, SmallestSubset
<1>2. IsFiniteSet(t) /\ t \in SUBSET S
  BY FS_Subset
<1>3. t # {}
  <2>1. Im({}) = {}
    OBVIOUS
  <2> QED BY <2>1, SumEmpty
<1>. DEFINE a == AnyOf(t)
            r == t \ {a}
<1>4. a \in t /\ a \in S /\ r \subseteq t /\ r # t /\ r \in SUBSET S /\ IsFiniteSet(r)
  BY <1>2, <1>3, AnyOfIn, FS_Subset
<1>5. SumOver(g, r) = SumOver(k, Im(r))
  BY <1>1, <1>4
<1>6. SumOver(g, t) = g[a] + SumOver(g, r)
  BY <1>2, <1>3, SumUnfold
<1>7. SumOver(g, r) \in Int
  BY <1>4, SumInt
<1>. HIDE DEF a
<1>8. Im(t) = Im(r) \cup {f[a]} /\ f[a] \notin Im(r)
  BY <1>4
<1>9. IsFiniteSet(Im(r))
  <2>1. Im(r) \subseteq T
    BY <1>4
  <2> QED BY <2>1, FS_Subset
<1>10. k[f[a]] = g[a] /\ g[a] \in Int /\ \A y \in Im(r) : k[y] \in Int
  BY <1>4
<1>11. SumOver(k, Im(t)) = SumOver(k, Im(r)) + k[f[a]]
  <2>. DEFINE I == Im(r)
              b == f[a]
  <2>1. IsFiniteSet(I) /\ b \notin I /\ k[b] \in Int /\ \A y \in I : k[y] \in Int
    BY <1>8, <1>9, <1>10
  <2>. HIDE DEF I, b
  <2>2. SumOver(k, I \cup {b}) = SumOver(k, I) + k[b]
    BY <2>1, SumAdd
  <2>. HIDE DEF Im
  <2> QED BY <2>2, <1>8, Zenon DEF I, b
<1>12. SumOver(g, t) # SumOver(k, Im(t))
  OBVIOUS
<1>. HIDE DEF Im, r, B
<1> QED BY <1>5, <1>6, <1>7, <1>10, <1>11, <1>12

\* A fold that adds each value to what it has so far computes the sum.
FoldBody(g, S, it) ==
    [s \in SUBSET S |-> IF s = {} THEN 0 ELSE it[s \ {AnyOf(s)}] + g[AnyOf(s)]]

LEMMA SumFold ==
    ASSUME NEW S, IsFiniteSet(S), NEW g, \A x \in S : g[x] \in Int
    PROVE  (CHOOSE it : it = FoldBody(g, S, it))[S] = SumOver(g, S)
<1>. DEFINE H == [s \in SUBSET S |-> SumOver(g, s)]
            c == CHOOSE it : it = FoldBody(g, S, it)
<1>1. H = FoldBody(g, S, H)
  <2>1. ASSUME NEW s \in SUBSET S
        PROVE  SumOver(g, s) = IF s = {} THEN 0 ELSE H[s \ {AnyOf(s)}] + g[AnyOf(s)]
    <3>1. IsFiniteSet(s) /\ IsFiniteSet(s \ {AnyOf(s)}) /\ s \ {AnyOf(s)} \in SUBSET S
      BY FS_Subset
    <3>2. H[s \ {AnyOf(s)}] = SumOver(g, s \ {AnyOf(s)})
      BY <3>1
    <3>3. SumOver(g, s \ {AnyOf(s)}) \in Int
      BY <3>1, SumInt
    <3>4. CASE s = {}
      BY <3>4, SumEmpty
    <3>5. CASE s # {}
      <4>1. SumOver(g, s) = g[AnyOf(s)] + SumOver(g, s \ {AnyOf(s)})
        BY <3>1, <3>5, SumUnfold
      <4>2. g[AnyOf(s)] \in Int
        BY <3>5, AnyOfIn
      <4>. HIDE DEF H
      <4> QED BY <3>2, <3>3, <3>5, <4>1, <4>2
    <3> QED BY <3>4, <3>5
  <2> QED BY <2>1 DEF FoldBody
<1>2. c = FoldBody(g, S, c)
  <2>. HIDE DEF H
  <2> QED BY <1>1
<1>. HIDE DEF c
<1>3. c = H
  <2>. DEFINE B == {t \in SUBSET S : c[t] # H[t]}
  <2>1. B = {}
    <3>. SUFFICES ASSUME B # {} PROVE FALSE
      OBVIOUS
    <3>1. PICK t \in B : \A u \in B : ~(u \subseteq t /\ u # t)
      <4>1. B \in SUBSET (SUBSET S)
        OBVIOUS
      <4> HIDE DEF B
      <4> QED BY <4>1, SmallestSubset
    <3>. HIDE DEF H
    <3>2. /\ c[t] = IF t = {} THEN 0 ELSE c[t \ {AnyOf(t)}] + g[AnyOf(t)]
          /\ H[t] = IF t = {} THEN 0 ELSE H[t \ {AnyOf(t)}] + g[AnyOf(t)]
      BY <1>1, <1>2 DEF FoldBody
    <3>3. t # {} => c[t \ {AnyOf(t)}] = H[t \ {AnyOf(t)}]
      BY <3>1, AnyOfIn
    <3> QED BY <3>2, <3>3
  <2>2. c = [s \in SUBSET S |-> c[s]]
    BY <1>2 DEF FoldBody
  <2> QED BY <2>1, <2>2
<1> QED BY <1>3 DEF c

-----------------------------------------------------------------------------
(* Integer division                                                        *)

\* Integer division by a positive number, between two multiples.
LEMMA DivBounds ==
    ASSUME NEW a \in Int, NEW n \in Nat \ {0}
    PROVE  \E q \in Int : a \div n = q /\ n * q <= a /\ a < n * q + n
<1>1. a = n * (a \div n) + (a % n) /\ (a \div n) \in Int /\ a % n \in 0 .. n - 1
  OBVIOUS
<1> QED BY <1>1

\* Division is monotone.
LEMMA DivMonotone ==
    ASSUME NEW a \in Int, NEW b \in Int, NEW n \in Nat \ {0}, a <= b
    PROVE  a \div n <= b \div n
<1>1. PICK p \in Int : a \div n = p /\ n * p <= a /\ a < n * p + n
  BY DivBounds
<1>2. PICK q \in Int : b \div n = q /\ n * q <= b /\ b < n * q + n
  BY DivBounds
<1>. SUFFICES ASSUME p >= q + 1 PROVE FALSE
  BY <1>1, <1>2
<1>3. n * p >= n * q + n
  <2>. DEFINE d == p - q - 1
  <2>1. d \in Nat /\ p = q + 1 + d
    OBVIOUS
  <2>. HIDE DEF d
  <2>2. n * p = n * q + n + n * d /\ n * d >= 0
    BY <2>1
  <2> QED BY <2>2
<1> QED BY <1>1, <1>2, <1>3

\* Rounding down twice loses at least as much as rounding down once.
LEMMA DivSuperadditive ==
    ASSUME NEW a \in Int, NEW b \in Int, NEW n \in Nat \ {0}
    PROVE  (a \div n) + (b \div n) <= (a + b) \div n
<1>1. PICK p \in Int : a \div n = p /\ n * p <= a /\ a < n * p + n
  BY DivBounds
<1>2. PICK q \in Int : b \div n = q /\ n * q <= b /\ b < n * q + n
  BY DivBounds
<1>3. PICK r \in Int : (a + b) \div n = r /\ n * r <= a + b /\ a + b < n * r + n
  BY DivBounds
<1>. SUFFICES ASSUME p + q >= r + 1 PROVE FALSE
  BY <1>1, <1>2, <1>3
<1>4. n * p + n * q >= n * r + n
  <2>. DEFINE d == p + q - r - 1
  <2>1. d \in Nat /\ p + q = r + 1 + d
    OBVIOUS
  <2>. HIDE DEF d
  <2>2. n * (p + q) = n * r + n + n * d /\ n * d >= 0
    BY <2>1
  <2> QED BY <2>2
<1> QED BY <1>1, <1>2, <1>3, <1>4

\* Multiplication by a natural number is monotone.
LEMMA TimesMonotone ==
    ASSUME NEW a \in Int, NEW b \in Int, NEW n \in Nat, a <= b
    PROVE  a * n <= b * n
<1>. DEFINE d == b - a
<1>1. d \in Nat /\ b = a + d
  OBVIOUS
<1>. HIDE DEF d
<1>2. b * n = a * n + d * n /\ d * n >= 0
  BY <1>1
<1> QED BY <1>2

-----------------------------------------------------------------------------
(* Largest and smallest elements                                           *)

\* A finite set of integers has a largest element.
LEMMA MaxExists ==
    ASSUME NEW S, IsFiniteSet(S), S # {}, \A x \in S : x \in Int
    PROVE  \E m \in S : \A y \in S : m >= y
<1>. DEFINE B == {t \in SUBSET S : t # {} /\ ~\E m \in t : \A y \in t : m >= y}
<1>. SUFFICES ASSUME B # {} PROVE FALSE
  OBVIOUS
<1>1. PICK t \in B : \A u \in B : ~(u \subseteq t /\ u # t)
  <2>1. B \in SUBSET (SUBSET S)
    OBVIOUS
  <2> HIDE DEF B
  <2> QED BY <2>1, SmallestSubset
<1>2. PICK x \in t : TRUE
  OBVIOUS
<1>3. t \ {x} # {}
  <2>. SUFFICES ASSUME t = {x} PROVE FALSE
    BY <1>2
  <2> QED BY <1>2
<1>4. t \ {x} \notin B
  BY <1>1, <1>2
<1>5. PICK m \in t \ {x} : \A y \in t \ {x} : m >= y
  BY <1>3, <1>4
<1>6. m \in Int /\ x \in Int /\ \A y \in t : y \in Int
  BY <1>2, <1>5
<1>7. CASE m >= x
  BY <1>2, <1>5, <1>6, <1>7
<1>8. CASE x >= m
  <2>1. \A y \in t : x >= y
    BY <1>2, <1>5, <1>6, <1>8
  <2> QED BY <1>2, <2>1
<1> QED BY <1>6, <1>7, <1>8

\* A finite set of integers has a smallest element.
LEMMA MinExists ==
    ASSUME NEW S, IsFiniteSet(S), S # {}, \A x \in S : x \in Int
    PROVE  \E m \in S : \A y \in S : m <= y
<1>. DEFINE B == {t \in SUBSET S : t # {} /\ ~\E m \in t : \A y \in t : m <= y}
<1>. SUFFICES ASSUME B # {} PROVE FALSE
  OBVIOUS
<1>1. PICK t \in B : \A u \in B : ~(u \subseteq t /\ u # t)
  <2>1. B \in SUBSET (SUBSET S)
    OBVIOUS
  <2> HIDE DEF B
  <2> QED BY <2>1, SmallestSubset
<1>2. PICK x \in t : TRUE
  OBVIOUS
<1>3. t \ {x} # {}
  <2>. SUFFICES ASSUME t = {x} PROVE FALSE
    BY <1>2
  <2> QED BY <1>2
<1>4. t \ {x} \notin B
  BY <1>1, <1>2
<1>5. PICK m \in t \ {x} : \A y \in t \ {x} : m <= y
  BY <1>3, <1>4
<1>6. m \in Int /\ x \in Int /\ \A y \in t : y \in Int
  BY <1>2, <1>5
<1>7. CASE m <= x
  BY <1>2, <1>5, <1>6, <1>7
<1>8. CASE x <= m
  <2>1. \A y \in t : x <= y
    BY <1>2, <1>5, <1>6, <1>8
  <2> QED BY <1>2, <2>1
<1> QED BY <1>6, <1>7, <1>8

\* Max of a finite set of integers.
LEMMA MaxBounds ==
    ASSUME NEW S, IsFiniteSet(S), S # {}, \A x \in S : x \in Int
    PROVE  Max(S) \in S /\ \A y \in S : Max(S) >= y
BY MaxExists DEF Max

\* Max of two numbers.
LEMMA MaxOfTwo ==
    ASSUME NEW a \in Int, NEW b \in Int
    PROVE  Max({a, b}) \in {a, b} /\ Max({a, b}) >= a /\ Max({a, b}) >= b
<1>1. \E x \in {a, b} : \A y \in {a, b} : x >= y
  BY a >= b \/ b >= a
<1>2. Max({a, b}) \in {a, b} /\ \A y \in {a, b} : Max({a, b}) >= y
  BY <1>1 DEF Max
<1> QED BY <1>2

\* Min of a set of natural numbers, finite or not.
LEMMA MinBounds ==
    ASSUME NEW S, S # {}, \A x \in S : x \in Nat
    PROVE  Min(S) \in S /\ \A y \in S : Min(S) <= y
<1>1. PICK x \in S : TRUE
  OBVIOUS
<1>. DEFINE T == {y \in S : y <= x}
<1>2. x \in Nat /\ x <= x
  BY <1>1
<1>6. T \subseteq 0 .. x /\ (\A y \in T : y \in Int) /\ x \in T
  <2>1. \A y \in T : y \in 0 .. x /\ y \in Int
    BY <1>2
  <2>2. x \in T
    BY <1>1, <1>2
  <2> QED BY <2>1, <2>2
<1>3. IsFiniteSet(T)
  <2>1. IsFiniteSet(0 .. x)
    BY <1>2, FS_Interval
  <2>. HIDE DEF T
  <2> QED BY <2>1, <1>6, FS_Subset
<1>4. PICK m \in T : \A y \in T : m <= y
  <2>. HIDE DEF T
  <2> QED BY <1>6, <1>3, MinExists
<1>5. m \in S /\ \A y \in S : m <= y
  BY <1>2, <1>4
<1> QED BY <1>5 DEF Min

\* Sums are monotone.
LEMMA SumMonotone ==
    ASSUME NEW S, IsFiniteSet(S), NEW g, NEW k,
           \A x \in S : g[x] \in Int /\ k[x] \in Int /\ g[x] <= k[x]
    PROVE  SumOver(g, S) <= SumOver(k, S)
<1>. DEFINE B == {t \in SUBSET S : ~(SumOver(g, t) <= SumOver(k, t))}
<1>. SUFFICES ASSUME B # {} PROVE FALSE
  OBVIOUS
<1>1. PICK t \in B : \A u \in B : ~(u \subseteq t /\ u # t)
  <2>1. B \in SUBSET (SUBSET S)
    OBVIOUS
  <2> HIDE DEF B
  <2> QED BY <2>1, SmallestSubset
<1>2. IsFiniteSet(t) /\ t \in SUBSET S
  BY FS_Subset
<1>3. t # {}
  BY SumEmpty
<1>. DEFINE a == AnyOf(t)
            r == t \ {a}
<1>4. a \in t /\ r \in SUBSET S /\ IsFiniteSet(r)
  BY <1>2, <1>3, AnyOfIn, FS_Subset
<1>5. SumOver(g, t) = g[a] + SumOver(g, r) /\ SumOver(k, t) = k[a] + SumOver(k, r)
  BY <1>2, <1>3, SumUnfold
<1>6. SumOver(g, r) <= SumOver(k, r)
  BY <1>1, <1>4
<1>7. SumOver(g, r) \in Int /\ SumOver(k, r) \in Int
  BY <1>4, SumInt
<1>8. g[a] \in Int /\ k[a] \in Int /\ g[a] <= k[a]
  BY <1>2, <1>4
<1>. HIDE DEF a, r
<1> QED BY <1>5, <1>6, <1>7, <1>8

\* Two functions to be summed that differ at one place at most.
ChangedAt(g, k, y, S) ==
    /\ IsFiniteSet(S) /\ y \in S
    /\ \A x \in S : g[x] \in Int /\ k[x] \in Int
    /\ \A x \in S : x # y => k[x] = g[x]

\* SumUpdate, with its hypotheses under a name.
LEMMA SumChanged ==
    ASSUME NEW g, NEW k, NEW y, NEW S, ChangedAt(g, k, y, S)
    PROVE  SumOver(k, S) = SumOver(g, S) - g[y] + k[y]
BY SumUpdate DEF ChangedAt

\* Nonlinear steps, apart.
LEMMA TimesNext == \A v, n \in Nat : v * n \in Nat /\ v * (n + 1) = v * n + v
OBVIOUS

\* Multiplication keeps an order, from either side.
LEMMA TimesLess == \A v, m, n \in Nat : m <= n => v * m <= v * n
<1>1. \A v, m, n \in Nat : m <= n => m * v <= n * v
  BY TimesMonotone
<1> QED BY <1>1

\* The remainder of a multiple and something smaller.
LEMMA ModUnique ==
    ASSUME NEW n \in Nat \ {0}, NEW q \in Int, NEW i \in 0 .. n - 1, NEW j \in Int,
           j = n * q + i
    PROVE  j % n = i
<1>1. j = n * (j \div n) + (j % n) /\ (j \div n) \in Int /\ j % n \in 0 .. n - 1
  OBVIOUS
<1>2. PICK p \in Int, r \in 0 .. n - 1 : j = n * p + r /\ j % n = r
  BY <1>1
<1>. DEFINE d == q - p
<1>3a. n * d = n * q - n * p /\ d \in Int
  OBVIOUS
<1>3. n * d = (j % n) - i /\ d \in Int
  <2>1. n * q \in Int /\ n * p \in Int
    OBVIOUS
  <2> QED BY <1>2, <1>3a, <2>1
<1>4. n * d < n /\ n * d > -n
  BY <1>1, <1>3
<1>. HIDE DEF d
<1>5. CASE d >= 1
  <2>1. n * d >= n
    BY <1>3, <1>5
  <2> QED BY <2>1, <1>4
<1>6. CASE d <= -1
  <2>1. n * d <= -n
    BY <1>3, <1>6
  <2> QED BY <2>1, <1>4
<1>7. CASE d = 0
  BY <1>1, <1>3, <1>7
<1> QED BY <1>3, <1>5, <1>6, <1>7

\* Among the last n numbers up to a there is one of every remainder.
LEMMA LastRound ==
    ASSUME NEW n \in Nat \ {0}, NEW a \in Nat, NEW i \in 0 .. n - 1, i <= a
    PROVE  \E j \in 0 .. a : a - n < j /\ j % n = i
<1>. DEFINE b == a - i
<1>1. b \in Nat /\ b = n * (b \div n) + (b % n) /\ (b \div n) \in Int /\ b % n \in 0 .. n - 1
  OBVIOUS
<1>2. PICK q \in Int, r \in 0 .. n - 1 : b = n * q + r
  BY <1>1
<1>. DEFINE j == a - r
<1>3. j \in Int /\ j = n * q + i /\ a - n < j /\ j <= a
  BY <1>2
<1>4. j % n = i
  BY <1>2, <1>3, ModUnique
<1>5. q >= 0
  <2>. SUFFICES ASSUME q <= -1 PROVE FALSE
    BY <1>2
  <2>1. n * q <= -n
    BY <1>2
  <2> QED BY <1>1, <1>2, <2>1
<1>6. n * q >= 0
  BY <1>2, <1>5
<1>7. j >= 0
  <2>1. n * q \in Int
    BY <1>2
  <2> HIDE DEF j
  <2> QED BY <1>3, <1>6, <2>1
<1> QED BY <1>3, <1>4, <1>7

\* The smaller of two numbers, at a full queue or the end of a list.
LEMMA MinOfTwo ==
    ASSUME NEW a \in Int, NEW b \in Int
    PROVE  Min({a, b}) \in {a, b} /\ Min({a, b}) <= a /\ Min({a, b}) <= b
<1>1. \E x \in {a, b} : \A y \in {a, b} : x <= y
  BY a <= b \/ b <= a
<1>2. Min({a, b}) \in {a, b} /\ \A y \in {a, b} : Min({a, b}) <= y
  BY <1>1 DEF Min
<1> QED BY <1>2

\* A sum over positions grows by the last one ...
LEMMA SumToNext ==
    ASSUME NEW n \in Nat, NEW g, NEW k,
           \A i \in 1 .. n + 1 : g[i] \in Int, \A i \in 1 .. n : k[i] = g[i]
    PROVE  SumOver(g, 1 .. n + 1) = SumOver(k, 1 .. n) + g[n + 1]
<1>1. 1 .. n + 1 = (1 .. n) \cup {n + 1} /\ n + 1 \notin 1 .. n /\ n + 1 \in 1 .. n + 1
  OBVIOUS
<1>2. IsFiniteSet(1 .. n)
  BY FS_Interval
<1>3. (\A i \in 1 .. n : g[i] \in Int) /\ g[n + 1] \in Int
  BY <1>1
<1>4. SumOver(g, (1 .. n) \cup {n + 1}) = SumOver(g, 1 .. n) + g[n + 1]
  BY <1>1, <1>2, <1>3, SumAdd
<1>5. SumOver(g, 1 .. n) = SumOver(k, 1 .. n)
  BY <1>2, SumEqual
<1> QED BY <1>1, <1>4, <1>5

\* ... and consists of the first one and the others, one place further.
LEMMA SumFromFirst ==
    ASSUME NEW n \in Nat, NEW g, NEW k,
           \A i \in 1 .. n + 1 : g[i] \in Int, \A i \in 1 .. n : k[i] = g[i + 1]
    PROVE  SumOver(g, 1 .. n + 1) = g[1] + SumOver(k, 1 .. n)
<1>. DEFINE D == 1 .. n
            T == 1 .. n + 1
            f == [i \in D |-> i + 1]
<1>1. IsFiniteSet(D) /\ IsFiniteSet(T) /\ 1 \in T
  BY FS_Interval
<1>2. /\ f \in [D -> T] /\ \A i, j \in D : f[i] = f[j] => i = j
      /\ \A i \in D : k[i] \in Int /\ g[f[i]] = k[i]
  <2>1. \A i \in D : i + 1 \in T /\ f[i] = i + 1
    OBVIOUS
  <2> QED BY <2>1
<1>3. {f[i] : i \in D} = T \ {1}
  <2>1. ASSUME NEW j PROVE j \in {f[i] : i \in D} <=> j \in T \ {1}
    <3>1. ASSUME j \in T \ {1} PROVE j \in {f[i] : i \in D}
      <4>1. j - 1 \in D /\ f[j - 1] = j
        BY <3>1
      <4> QED BY <4>1
    <3>2. ASSUME j \in {f[i] : i \in D} PROVE j \in T \ {1}
      BY <3>2
    <3> QED BY <3>1, <3>2
  <2> QED BY <2>1
<1>4. \A x \in T : g[x] \in Int
  OBVIOUS
<1>. HIDE DEF D, T, f
<1>5. SumOver(k, D) = SumOver(g, {f[i] : i \in D})
  BY <1>1, <1>2, SumImage
<1>6. SumOver(g, T) = g[1] + SumOver(g, T \ {1})
  BY <1>1, <1>4, SumRemove
<1> QED BY <1>3, <1>5, <1>6 DEF D, T

\* Induction up to n, about membership of a set.
LEMMA InductionUpTo ==
    ASSUME NEW n \in Nat, NEW S, 0 \in S, \A k \in 0 .. n - 1 : k \in S => k + 1 \in S
    PROVE  \A k \in 0 .. n : k \in S
<1>. DEFINE B == {k \in 0 .. n : k \notin S}
<1>. SUFFICES ASSUME B # {} PROVE FALSE
  OBVIOUS
<1>1. \A x \in B : x \in Nat
  OBVIOUS
<1>2. Min(B) \in B /\ \A y \in B : Min(B) <= y
  <2>. HIDE DEF B
  <2> QED BY <1>1, MinBounds
<1>3. PICK m \in B : \A y \in B : m <= y
  BY <1>2
<1>4. m \in 0 .. n /\ m \notin S /\ m - 1 \notin B
  BY <1>3
<1>5. m # 0
  BY <1>4
<1>6. m - 1 \in 0 .. n - 1 /\ m - 1 \in S /\ m = (m - 1) + 1
  BY <1>4, <1>5
<1> QED BY <1>4, <1>6

-----------------------------------------------------------------------------
(* Sequences, element by element.                                        *)

\* A sequence of one element.
LEMMA OneElement ==
    ASSUME NEW S, NEW s \in Seq(S), Len(s) = 1
    PROVE  Tail(s) = << >> /\ s = <<Head(s)>> /\ Head(s) \in S /\ s[1] = Head(s)
<1>1. Tail(s) \in Seq(S) /\ Len(Tail(s)) = 0
  OBVIOUS
<1>2. Head(s) \in S /\ s[1] = Head(s)
  OBVIOUS
<1>3. s = <<Head(s)>>
  OBVIOUS
<1>4. Tail(s) = << >>
  <2>1. PICK t \in Seq(S) : t = Tail(s) /\ Len(t) = 0
    BY <1>1
  <2> QED BY <2>1
<1> QED BY <1>2, <1>3, <1>4, Zenon

\* Where the elements of two sequences are in the one that joins them.
LEMMA ConcatElements ==
    ASSUME NEW S, NEW p \in Seq(S), NEW r \in Seq(S)
    PROVE  /\ \A i \in 1 .. Len(p) : (p \o r)[i] = p[i]
           /\ \A i \in 1 .. Len(r) : (p \o r)[Len(p) + i] = r[i]
OBVIOUS

\* A sequence is its head and then its tail.
LEMMA TailElements ==
    ASSUME NEW S, NEW s \in Seq(S), s # << >>
    PROVE  /\ Tail(s) \in Seq(S) /\ Len(s) = Len(Tail(s)) + 1 /\ Len(Tail(s)) \in Nat
           /\ Head(s) = s[1] /\ Head(s) \in S
           /\ \A i \in 1 .. Len(Tail(s)) : Tail(s)[i] = s[i + 1]
OBVIOUS

\* What is left of a sequence without its first z elements.
LEMMA RestOf ==
    ASSUME NEW S, NEW s \in Seq(S), NEW z \in Nat, z <= Len(s)
    PROVE  /\ SubSeq(s, z + 1, Len(s)) \in Seq(S)
           /\ Len(SubSeq(s, z + 1, Len(s))) = Len(s) - z
           /\ \A k \in 1 .. Len(s) - z : SubSeq(s, z + 1, Len(s))[k] = s[z + k]
<1>1. SubSeq(s, z + 1, Len(s)) \in Seq(S) /\ Len(SubSeq(s, z + 1, Len(s))) = Len(s) - z
  OBVIOUS
<1>2. ASSUME NEW k \in 1 .. Len(s) - z PROVE SubSeq(s, z + 1, Len(s))[k] = s[z + k]
  OBVIOUS
<1> QED BY <1>1, <1>2
=============================================================================
