------------------------------ MODULE DataLemmas ------------------------------
(***************************************************************************)
(* What the proofs need to know of data: induction over numbers, queues    *)
(* without repetition, and what the operators of Quantize return for every *)
(* tick, step and amount.                                                  *)
(***************************************************************************)
EXTENDS Quantize, SequencesExt, SequenceTheorems, FiniteSetTheorems, TLAPS

\* A set of numbers that holds 0 and, with a number, the next is that of all
\* numbers: the least number it does not hold would have a predecessor.
LEMMA AllNumbers ==
  ASSUME NEW S \in SUBSET Nat, 0 \in S, \A n \in S : n + 1 \in S
  PROVE  S = Nat
<1> SUFFICES ASSUME NEW m \in Nat, m \notin S PROVE FALSE
  OBVIOUS
<1> DEFINE Below(n) == 0 .. n
           T == {Below(n) : n \in Nat \ S}
<1>1. T \subseteq FiniteSubsetsOf(Nat)
  <2>1. \A n \in Nat : IsFiniteSet(0 .. n) /\ 0 .. n \subseteq Nat
    BY FS_Interval
  <2> QED
    BY <2>1 DEF FiniteSubsetsOf
<1>2. Below(m) \in T
  OBVIOUS
<1>3. IsWellFoundedOn(StrictSubsetOrdering(Nat), FiniteSubsetsOf(Nat))
  BY FS_StrictSubsetOrderingWellFounded
<1>4. PICK x \in T : \A y \in T : ~ (<<y, x>> \in StrictSubsetOrdering(Nat))
  <2> HIDE DEF T
  <2> QED BY <1>1, <1>2, <1>3, WFMin
<1>5. PICK n \in Nat \ S : x = Below(n)
  BY <1>4
<1>6. n # 0 /\ n - 1 \in Nat \ S
  <2>1. n # 0
    OBVIOUS
  <2>2. n - 1 \in Nat /\ (n - 1) + 1 = n
    BY <2>1
  <2> QED
    BY <2>1, <2>2
<1>7. <<Below(n - 1), Below(n)>> \in StrictSubsetOrdering(Nat)
  <2>1. 0 .. n - 1 \subseteq 0 .. n /\ n \in 0 .. n /\ n \notin 0 .. n - 1
    BY <1>6
  <2>2. 0 .. n - 1 \in SUBSET Nat /\ 0 .. n \in SUBSET Nat
    OBVIOUS
  <2> QED
    BY <2>1, <2>2 DEF StrictSubsetOrdering
<1> QED
  BY <1>4, <1>5, <1>6, <1>7

\* The operator Max of the community modules on a set of indices.
LEMMA Greatest ==
  ASSUME NEW n \in Nat, NEW S \in SUBSET (1 .. n), S # {}
  PROVE  Max(S) \in S /\ \A k \in S : Max(S) >= k
<1> DEFINE HasOne(R) == \E m \in R : \A k \in R : m >= k
           T == {i \in Nat : \A R \in SUBSET (1 .. i) : R = {} \/ HasOne(R)}
<1>1. 0 \in T
  <2>1. 1 .. 0 = {}
    OBVIOUS
  <2> QED
    BY <2>1
<1>2. ASSUME NEW i \in T PROVE i + 1 \in T
  <2> SUFFICES ASSUME NEW R \in SUBSET (1 .. i + 1), R # {} PROVE HasOne(R)
    OBVIOUS
  <2>1. CASE i + 1 \in R
    BY <2>1
  <2>2. CASE i + 1 \notin R
    <3>1. R \in SUBSET (1 .. i)
      BY <2>2
    <3> QED
      BY <3>1
  <2> QED
    BY <2>1, <2>2
<1>3. T = Nat
  <2> HIDE DEF T
  <2>1. T \in SUBSET Nat
    BY DEF T
  <2> QED
    BY <1>1, <1>2, <2>1, AllNumbers
<1>4. HasOne(S)
  BY <1>3
<1> QED
  BY <1>4 DEF Max

\* What a loop has computed after each of its n rounds, ...
Values(n, B) == [0 .. n -> B]

\* ... each of which takes one value to the next.
Steps(n, B) == [1 .. n -> [B -> B]]

Rounds(g, b, n, step) == g[0] = b /\ \A k \in 1 .. n : g[k] = step[k][g[k - 1]]

\* Every loop has computed something.
LEMMA RecursionOver ==
  ASSUME NEW B, NEW b \in B, NEW n \in Nat, NEW step \in Steps(n, B)
  PROVE  \E g \in Values(n, B) : Rounds(g, b, n, step)
<1> DEFINE Upto(m) == \E g \in [0 .. m -> B] :
             g[0] = b /\ \A k \in 1 .. m : g[k] = step[k][g[k - 1]]
           S == {m \in Nat : m <= n => Upto(m)}
<1>1. Upto(0)
  <2> DEFINE g == [k \in 0 .. 0 |-> b]
  <2>1. g \in [0 .. 0 -> B] /\ g[0] = b /\ 1 .. 0 = {}
    OBVIOUS
  <2> QED
    BY <2>1
<1>2. ASSUME NEW m \in Nat, m + 1 <= n, Upto(m) PROVE Upto(m + 1)
  <2>1. PICK g \in [0 .. m -> B] :
          g[0] = b /\ \A k \in 1 .. m : g[k] = step[k][g[k - 1]]
    BY <1>2
  <2> DEFINE h == [k \in 0 .. m + 1 |-> IF k <= m THEN g[k] ELSE step[m + 1][g[m]]]
  <2>2. m \in 0 .. m /\ m + 1 \in 1 .. n /\ g[m] \in B /\ step[m + 1][g[m]] \in B
    BY <1>2 DEF Steps
  <2>3. h \in [0 .. m + 1 -> B]
    BY <2>2
  <2>4. h[0] = b /\ h[m + 1] = step[m + 1][g[m]] /\ \A k \in 0 .. m : h[k] = g[k]
    BY <2>1
  <2> HIDE DEF h
  <2>5. ASSUME NEW k \in 1 .. m + 1 PROVE h[k] = step[k][h[k - 1]]
    <3>1. CASE k = m + 1
      <4>1. k - 1 = m /\ m \in 0 .. m
        BY <3>1
      <4> QED
        BY <2>4, <3>1, <4>1
    <3>2. CASE k # m + 1
      <4>1. k \in 1 .. m /\ k \in 0 .. m /\ k - 1 \in 0 .. m
        BY <3>2
      <4> QED
        BY <2>1, <2>4, <4>1
    <3> QED
      BY <3>1, <3>2
  <2> QED
    BY <2>3, <2>4, <2>5
<1> HIDE DEF Upto
<1>3. S = Nat
  <2>1. \A m \in S : m + 1 \in S
    BY <1>2
  <2>2. S \in SUBSET Nat /\ 0 \in S
    BY <1>1
  <2> HIDE DEF S
  <2> QED
    BY <2>1, <2>2, AllNumbers
<1>4. Upto(n)
  BY <1>3
<1> QED
  BY <1>4 DEF Upto, Rounds, Values

-----------------------------------------------------------------------------
(* Sequences as lists of engines and as queues of coroutines.              *)

\* What Append adds.
LEMMA Appended ==
  ASSUME NEW S, NEW s \in Seq(S), NEW e \in S
  PROVE  /\ Append(s, e) \in Seq(S)
         /\ ToSet(Append(s, e)) = ToSet(s) \cup {e}
<1>1. /\ Append(s, e) \in Seq(S) /\ Len(Append(s, e)) = Len(s) + 1
      /\ \A i \in 1 .. Len(s) : Append(s, e)[i] = s[i]
      /\ Append(s, e)[Len(s) + 1] = e
  BY AppendProperties
<1>2. DOMAIN s = 1 .. Len(s) /\ Len(s) \in Nat
  BY LenProperties
<1>3. DOMAIN Append(s, e) = 1 .. Len(s) + 1
  BY <1>1, LenProperties
<1> QED
  BY <1>1, <1>2, <1>3 DEF ToSet

\* What RemoveAt leaves, position by position.
LEMMA RemovedAt ==
  ASSUME NEW S, NEW s \in Seq(S), NEW i \in DOMAIN s
  PROVE  /\ RemoveAt(s, i) \in Seq(S)
         /\ Len(RemoveAt(s, i)) = Len(s) - 1
         /\ \A k \in 1 .. Len(s) - 1 :
              RemoveAt(s, i)[k] = IF k < i THEN s[k] ELSE s[k + 1]
<1> DEFINE l == SubSeq(s, 1, i - 1)
           r == SubSeq(s, i + 1, Len(s))
<1>1. i \in 1 .. Len(s) /\ Len(s) \in Nat /\ \A k \in 1 .. Len(s) : s[k] \in S
  BY LenProperties, ElementOfSeq
<1>2. /\ l \in Seq(S) /\ Len(l) = i - 1
      /\ \A k \in 1 .. i - 1 : l[k] = s[k]
  BY <1>1, SubSeqProperties
<1>3. /\ r \in Seq(S) /\ Len(r) = Len(s) - i
      /\ \A k \in 1 .. Len(s) - i : r[k] = s[i + k]
  BY <1>1, SubSeqProperties
<1>4. /\ l \o r \in Seq(S) /\ Len(l \o r) = Len(l) + Len(r)
      /\ \A k \in 1 .. Len(l) + Len(r) :
           (l \o r)[k] = IF k <= Len(l) THEN l[k] ELSE r[k - Len(l)]
  BY <1>2, <1>3, ConcatProperties
<1> HIDE DEF l, r
<1>5. Len(l) + Len(r) = Len(s) - 1
  BY <1>1, <1>2, <1>3
<1>6. ASSUME NEW k \in 1 .. Len(s) - 1
      PROVE  (l \o r)[k] = IF k < i THEN s[k] ELSE s[k + 1]
  <2>1. (l \o r)[k] = IF k <= Len(l) THEN l[k] ELSE r[k - Len(l)]
    <3>1. k \in 1 .. Len(l) + Len(r)
      BY <1>5
    <3> QED
      BY <1>4, <3>1
  <2>2. CASE k < i
    BY <1>1, <1>2, <2>1, <2>2
  <2>3. CASE ~(k < i)
    <3> DEFINE j == k - Len(l)
    <3>1. j \in 1 .. Len(s) - i /\ i + j = k + 1
      BY <1>1, <1>2, <2>3
    <3>2. (l \o r)[k] = r[j]
      BY <1>1, <1>2, <2>1, <2>3
    <3> HIDE DEF j
    <3>3. r[j] = s[i + j]
      BY <1>3, <3>1
    <3> QED
      BY <2>3, <3>1, <3>2, <3>3
  <2> QED
    BY <2>2, <2>3
<1>7. RemoveAt(s, i) = l \o r
  BY DEF RemoveAt, l, r
<1> QED
  BY <1>4, <1>6, <1>7, <1>5

\* A queue without i, of which no element was there twice.
LEMMA LeftTheQueue ==
  ASSUME NEW S, NEW s \in Seq(S), IsInjective(s), NEW i \in DOMAIN s
  PROVE  /\ IsInjective(RemoveAt(s, i))
         /\ \A k \in DOMAIN RemoveAt(s, i) :
              \E j \in DOMAIN s \ {i} : RemoveAt(s, i)[k] = s[j]
<1> DEFINE t == RemoveAt(s, i)
           Was(k) == IF k < i THEN k ELSE k + 1
<1>1. DOMAIN s = 1 .. Len(s) /\ Len(s) \in Nat /\ i \in 1 .. Len(s)
  BY LenProperties
<1>2. t \in Seq(S) /\ Len(t) = Len(s) - 1
  BY RemovedAt
<1>3. DOMAIN t = 1 .. Len(s) - 1
  BY <1>2, LenProperties
<1>4. \A k \in DOMAIN t : Was(k) \in DOMAIN s \ {i} /\ t[k] = s[Was(k)]
  <2>1. \A k \in 1 .. Len(s) - 1 : t[k] = IF k < i THEN s[k] ELSE s[k + 1]
    BY RemovedAt
  <2> HIDE DEF t
  <2> QED
    BY <1>1, <1>3, <2>1
<1>5. \A k, l \in DOMAIN t : Was(k) = Was(l) => k = l
  BY <1>1, <1>3
<1> HIDE DEF t, Was
<1>6. IsInjective(t)
  BY <1>4, <1>5 DEF IsInjective
<1>7. \A k \in DOMAIN t : \E j \in DOMAIN s \ {i} : t[k] = s[j]
  BY <1>4
<1> QED
  BY <1>6, <1>7 DEF t

\* ... and with one more, who was not in it.
LEMMA JoinedTheQueue ==
  ASSUME NEW S, NEW s \in Seq(S), IsInjective(s), NEW e \in S,
         \A i \in DOMAIN s : s[i] # e
  PROVE  /\ IsInjective(Append(s, e))
         /\ \A k \in DOMAIN Append(s, e) :
              \/ Append(s, e)[k] = e
              \/ \E i \in DOMAIN s : Append(s, e)[k] = s[i]
<1>1. /\ Append(s, e) \in Seq(S) /\ Len(Append(s, e)) = Len(s) + 1
      /\ \A i \in 1 .. Len(s) : Append(s, e)[i] = s[i]
      /\ Append(s, e)[Len(s) + 1] = e
  BY AppendProperties
<1>2. DOMAIN s = 1 .. Len(s) /\ Len(s) \in Nat
  BY LenProperties
<1>3. DOMAIN Append(s, e) = 1 .. Len(s) + 1
  BY <1>1, LenProperties
<1>4. \A k \in DOMAIN Append(s, e) :
        \/ k \in DOMAIN s /\ Append(s, e)[k] = s[k]
        \/ k = Len(s) + 1
  BY <1>1, <1>2, <1>3
<1> QED
  BY <1>1, <1>2, <1>4 DEF IsInjective

\* ... or without its first.
LEMMA FirstLeft ==
  ASSUME NEW S, NEW s \in Seq(S), IsInjective(s), s # << >>
  PROVE  /\ Head(s) \in S /\ Tail(s) \in Seq(S) /\ IsInjective(Tail(s))
         /\ \E i \in DOMAIN s : s[i] = Head(s)
         /\ \A k \in DOMAIN Tail(s) :
              \E j \in DOMAIN s : Tail(s)[k] = s[j] /\ s[j] # Head(s)
<1>1. /\ Len(s) \in Nat /\ Len(s) >= 1 /\ DOMAIN s = 1 .. Len(s)
      /\ Head(s) = s[1]
  BY EmptySeq, LenProperties
<1>2. /\ Head(s) \in S /\ Tail(s) \in Seq(S) /\ Len(Tail(s)) = Len(s) - 1
      /\ \A k \in 1 .. Len(s) - 1 : Tail(s)[k] = s[k + 1]
  BY HeadTailProperties
<1>3. DOMAIN Tail(s) = 1 .. Len(s) - 1
  BY <1>1, <1>2, LenProperties
<1>4. \A k \in DOMAIN Tail(s) :
        k + 1 \in DOMAIN s /\ 1 \in DOMAIN s /\ k + 1 # 1 /\ Tail(s)[k] = s[k + 1]
  BY <1>1, <1>2, <1>3
<1>5. \A k, l \in DOMAIN Tail(s) : k + 1 = l + 1 => k = l
  BY <1>1, <1>3
<1> QED
  BY <1>1, <1>2, <1>4, <1>5 DEF IsInjective

-----------------------------------------------------------------------------
(* Rounding.                                                               *)

LEMMA Division ==
  ASSUME NEW x \in Nat, NEW u \in Nat \ {0}
  PROVE  /\ x \div u \in Nat /\ x % u \in 0 .. u - 1
         /\ x = (x \div u) * u + (x % u)
         /\ (x \div u) * u \in Nat
OBVIOUS

LEMMA Multiple ==
  ASSUME NEW d \in Nat, NEW u \in Nat \ {0}
  PROVE  (d * u) \div u = d /\ (d * u) % u = 0
OBVIOUS

\* A price is rounded down by less than a unit, ...
LEMMA PriceDown ==
  ASSUME NEW price \in Nat, NEW tick, tick.unit \in Nat \ {0}
  PROVE  /\ QuantizePrice(price, tick) \in Nat
         /\ price - QuantizePrice(price, tick) \in 0 .. tick.unit - 1
<1> DEFINE d == price \div tick.unit
           r == price % tick.unit
<1>1. /\ r \in 0 .. tick.unit - 1 /\ price = d * tick.unit + r
      /\ d * tick.unit \in Nat
  BY Division
<1>2. QuantizePrice(price, tick) = d * tick.unit
  BY DEF QuantizePrice
<1> HIDE DEF d, r
<1> QED
  BY <1>1, <1>2

\* ... and a rounded price is adopted, after a restart, as it is.
LEMMA PriceStays ==
  ASSUME NEW price \in Nat, NEW tick, tick.unit \in Nat \ {0}
  PROVE  QuantizeHalfEven(QuantizePrice(price, tick), tick) = QuantizePrice(price, tick)
<1> DEFINE d == price \div tick.unit
<1>1. d \in Nat
  BY Division
<1> HIDE DEF d
<1>2. (d * tick.unit) \div tick.unit = d /\ (d * tick.unit) % tick.unit = 0
  BY <1>1, Multiple
<1>3. QuantizeHalfEven(d * tick.unit, tick) = d * tick.unit
  BY <1>2 DEF QuantizeHalfEven
<1> QED
  BY <1>3 DEF QuantizePrice, d

\* An amount is rounded by half a unit at most, up from the half.
LEMMA AmountHalfUp ==
  ASSUME NEW amount \in Nat, NEW step, step.unit \in Nat \ {0}
  PROVE  /\ QuantizeAmount(amount, step) \in Nat
         /\ 2 * (QuantizeAmount(amount, step) - amount)
              \in -step.unit + 1 .. step.unit
<1> DEFINE u == step.unit
           x == 2 * amount + u
           d == x \div (2 * u)
           r == x % (2 * u)
<1>1. x \in Nat /\ 2 * u \in Nat \ {0}
  OBVIOUS
<1> HIDE DEF x
<1>2. d \in Nat /\ r \in 0 .. 2 * u - 1 /\ x = d * (2 * u) + r
  BY <1>1, Division
<1> HIDE DEF d, r
<1>3. d * u \in Nat /\ d * (2 * u) = 2 * (d * u)
  BY <1>2
<1>4. 2 * (d * u - amount) = u - r
  BY <1>2, <1>3 DEF x
<1>5. QuantizeAmount(amount, step) = d * u
  BY DEF QuantizeAmount, d, x
<1> QED
  BY <1>2, <1>3, <1>4, <1>5

\* A level of the mirror: at most a unit below the source's price, half a unit
\* from its amount or cut by the cap, and never above it.
LEMMA LevelFacts ==
  ASSUME NEW raw, raw.price \in Nat, raw.amount \in Nat, NEW rules \in TradingRules
  PROVE  LET level == QuantizedLevel(raw, rules)
         IN  /\ level \in [price: Nat, amount: Nat]
             /\ rules.max > 0 => level.amount <= rules.max
             /\ raw.price - level.price \in 0 .. rules.priceTick.unit - 1
             /\ QuantizeHalfEven(level.price, rules.priceTick) = level.price
             /\ \/ level.amount = rules.max
                \/ 2 * (level.amount - raw.amount)
                     \in -rules.amountStep.unit + 1 .. rules.amountStep.unit
<1> DEFINE p == QuantizePrice(raw.price, rules.priceTick)
           q == QuantizeAmount(raw.amount, rules.amountStep)
<1>1. /\ rules.priceTick.unit \in Nat \ {0} /\ rules.amountStep.unit \in Nat \ {0}
      /\ rules.max \in Nat
  BY DEF TradingRules
<1>2. p \in Nat /\ raw.price - p \in 0 .. rules.priceTick.unit - 1
  BY <1>1, PriceDown
<1>3. QuantizeHalfEven(p, rules.priceTick) = p
  BY <1>1, PriceStays
<1>4. /\ q \in Nat
      /\ 2 * (q - raw.amount) \in -rules.amountStep.unit + 1 .. rules.amountStep.unit
  BY <1>1, AmountHalfUp
<1> HIDE DEF p, q
<1>5. /\ Cap(q, rules.max) \in {q, rules.max}
      /\ rules.max > 0 => Cap(q, rules.max) <= rules.max
  BY <1>1, <1>4 DEF Cap
<1>6. QuantizedLevel(raw, rules) = [price |-> p, amount |-> Cap(q, rules.max)]
  BY DEF QuantizedLevel, p, q
<1> QED
  BY <1>1, <1>2, <1>3, <1>4, <1>5, <1>6

\* What is worth the minimum at the rounded price is worth it at the source's.
LEMMA WorthMore ==
  ASSUME NEW p \in Nat, NEW q \in Nat, q <= p, NEW a \in Nat, NEW min \in Nat,
         EnoughNotional(q, a, min)
  PROVE  p * a >= min
<1>1. p * a >= q * a
  OBVIOUS
<1>2. p * a \in Nat /\ q * a \in Nat
  OBVIOUS
<1> QED
  BY <1>1, <1>2 DEF EnoughNotional
=============================================================================
