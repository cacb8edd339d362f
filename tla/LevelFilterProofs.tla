-------------------------- MODULE LevelFilterProofs --------------------------
(***************************************************************************)
(* What prepare_levels returns is within the trading rules, for every book *)
(* and every tick, step, cap and minimum.                                  *)
(***************************************************************************)
EXTENDS LevelFilter, DataLemmas

\* A level made, by the rules, of one of the first n levels of a source side.
Right(level, side, by, n) ==
  /\ level \in [price: Nat \ {0}, amount: Nat \ {0}]
  /\ EnoughNotional(level.price, level.amount, by.minNotional)
  /\ by.max > 0 => level.amount <= by.max
  /\ QuantizeHalfEven(level.price, by.priceTick) = level.price
  /\ \E j \in 1 .. n :
       /\ side[j].price - level.price \in 0 .. by.priceTick.unit - 1
       /\ \/ level.amount = by.max
          \/ 2 * (level.amount - side[j].amount)
               \in -by.amountStep.unit + 1 .. by.amountStep.unit

AllRight(n) == \A k \in DOMAIN result : Right(result[k], raw, rules, n)

Inv == TypeOK /\ AllRight(i)

LEMMA LevelIsRight ==
  ASSUME Inv, i < Len(raw), Passes(Level)
  PROVE  Right(Level, raw, rules, i + 1)
<1>1. /\ raw \in Seq([price: Nat, amount: Nat]) /\ rules \in TradingRules
      /\ i \in Nat /\ i + 1 \in 1 .. Len(raw)
  BY FilterAssumption, LenProperties DEF Inv, TypeOK
<1>2. raw[i + 1] \in [price: Nat, amount: Nat]
  BY <1>1, ElementOfSeq
<1>3. /\ Level \in [price: Nat, amount: Nat]
      /\ rules.max > 0 => Level.amount <= rules.max
      /\ raw[i + 1].price - Level.price \in 0 .. rules.priceTick.unit - 1
      /\ QuantizeHalfEven(Level.price, rules.priceTick) = Level.price
      /\ \/ Level.amount = rules.max
         \/ 2 * (Level.amount - raw[i + 1].amount)
              \in -rules.amountStep.unit + 1 .. rules.amountStep.unit
  BY <1>1, <1>2, LevelFacts DEF Level
<1>4. /\ Level.price > 0 /\ Level.amount > 0
      /\ EnoughNotional(Level.price, Level.amount, rules.minNotional)
  BY DEF Passes, Mirrorable
<1>5. Level \in [price: Nat \ {0}, amount: Nat \ {0}]
  BY <1>3, <1>4
<1>6. i + 1 \in 1 .. i + 1
  BY <1>1
<1> QED
  BY <1>3, <1>4, <1>5, <1>6 DEF Right

\* What was right of the first levels is right of more of them.
LEMMA StaysRight ==
  ASSUME NEW level, NEW side, NEW by, NEW n \in Nat, Right(level, side, by, n)
  PROVE  Right(level, side, by, n + 1)
<1>1. 1 .. n \subseteq 1 .. n + 1
  OBVIOUS
<1> QED
  BY <1>1 DEF Right

LEMMA InitInv == Init => Inv
<1> SUFFICES ASSUME Init PROVE Inv
  OBVIOUS
<1>1. Len(raw) \in Nat
  BY FilterAssumption, LenProperties DEF Init
<1>2. result \in Seq([price : Nat \ {0}, amount : Nat \ {0}]) /\ DOMAIN result = {}
  BY EmptySeq DEF Init
<1>3. Len(result) = 0
  BY DEF Init
<1>4. rules.levels \in Nat
  BY FilterAssumption DEF Init, TradingRules
<1> QED
  BY <1>1, <1>2, <1>3, <1>4 DEF Init, Inv, AllRight, TypeOK

LEMMA StepInv == Inv /\ [Next]_vars => Inv'
<1> SUFFICES ASSUME Inv, [Next]_vars PROVE Inv'
  OBVIOUS
<1>1. Len(raw) \in Nat /\ i \in 0 .. Len(raw)
      /\ result \in Seq([price : Nat \ {0}, amount : Nat \ {0}])
      /\ rules.levels \in Nat /\ Len(result) <= rules.levels
  BY FilterAssumption, LenProperties DEF Inv, TypeOK, TradingRules
<1>2. CASE Keep
  <2>1. Right(Level, raw, rules, i + 1) /\ Level \in [price : Nat \ {0}, amount : Nat \ {0}]
    BY <1>2, LevelIsRight DEF Keep, Right
  <2>2. /\ result' \in Seq([price : Nat \ {0}, amount : Nat \ {0}])
        /\ Len(result') = Len(result) + 1
        /\ \A k \in 1 .. Len(result) : result'[k] = result[k]
        /\ result'[Len(result) + 1] = Level
    BY <1>1, <1>2, <2>1, AppendProperties DEF Keep
  <2>3. /\ DOMAIN result = 1 .. Len(result) /\ Len(result) \in Nat
        /\ DOMAIN result' = 1 .. Len(result) + 1
    BY <1>1, <2>2, LenProperties
  <2>4. \A k \in DOMAIN result' : Right(result'[k], raw, rules, i + 1)
    <3>1. \A k \in 1 .. Len(result) : Right(result[k], raw, rules, i + 1)
      <4> SUFFICES ASSUME NEW k \in 1 .. Len(result)
                   PROVE  Right(result[k], raw, rules, i + 1)
        OBVIOUS
      <4>1. Right(result[k], raw, rules, i) /\ i \in Nat
        <5>1. AllRight(i) /\ k \in DOMAIN result /\ i \in Nat
          BY <1>1, <2>3 DEF Inv
        <5> QED
          BY <5>1 DEF AllRight
      <4> QED
        BY <4>1, StaysRight
    <3> QED
      BY <2>1, <2>2, <2>3, <3>1
  <2>5. \A k \in DOMAIN result' : Right(result'[k], raw', rules', i')
    BY <1>2, <2>4 DEF Keep
  <2>6. Len(result') <= rules.levels
    BY <1>1, <1>2, <2>2, <2>3 DEF Keep, Full
  <2> QED
    BY <1>1, <1>2, <2>2, <2>5, <2>6 DEF Keep, Inv, AllRight, TypeOK
<1>3. CASE Skip
  <2>1. \A k \in DOMAIN result : Right(result[k], raw, rules, i + 1)
    BY <1>1, StaysRight DEF Inv, AllRight
  <2> QED
    BY <1>1, <1>3, <2>1 DEF Skip, Inv, AllRight, TypeOK
<1>4. CASE Return \/ UNCHANGED vars
  BY <1>4 DEF Return, vars, Inv, AllRight, TypeOK
<1> QED
  BY <1>2, <1>3, <1>4 DEF Next

LEMMA Invariant == Spec => []Inv
  BY InitInv, StepInv, PTL DEF Spec

\* At no point has prepare_levels kept more levels than the pair asks for, one
\* whose price or amount is 0 once rounded and capped, or read past the end of the
\* side.
THEOREM TypeCorrect == Spec => []TypeOK
<1>1. Inv => TypeOK
  BY DEF Inv
<1> QED
  BY <1>1, Invariant, PTL

\* What the service is asked for is worth its minimum after rounding and cap, is
\* within the cap, and is no further from a source level than rounding explains;
\* adoption would find it at the same price.
THEOREM WithinTheRulesCorrect == Spec => []WithinTheRules
<1>1. Inv => WithinTheRules
  BY DEF Inv, AllRight, Right, WithinTheRules
<1> QED
  BY <1>1, Invariant, PTL
-----------------------------------------------------------------------------
(* The loop against the one-step definition.                               *)

Side == Seq([price: Nat, amount: Nat])

\* The definition goes through the levels one by one.
LEMMA Filtering ==
  ASSUME NEW side \in Side, NEW by \in TradingRules
  PROVE  LET kept == MirrorableLevels(side, by)
         IN  /\ kept[0] = << >>
             /\ \A n \in 1 .. Len(side) :
                  kept[n] = With(kept[n - 1], QuantizedLevel(side[n], by), by)
<1> DEFINE m == Len(side)
           Q(n) == QuantizedLevel(side[n], by)
           step == [n \in 1 .. m |-> [s \in Side |-> With(s, Q(n), by)]]
           all == CHOOSE g : g = [n \in 0 .. m |->
                    IF n = 0 THEN << >>
                    ELSE With(g[n - 1], QuantizedLevel(side[n], by), by)]
<1>1. m \in Nat /\ << >> \in Side
  BY LenProperties DEF Side
<1>2. \A n \in 1 .. m : Q(n) \in [price: Nat, amount: Nat]
  <2> SUFFICES ASSUME NEW n \in 1 .. m PROVE Q(n) \in [price: Nat, amount: Nat]
    OBVIOUS
  <2>1. side[n] \in [price: Nat, amount: Nat]
    BY ElementOfSeq DEF Side
  <2> QED
    BY <2>1, LevelFacts
<1>3. MirrorableLevels(side, by) = all
  BY DEF MirrorableLevels
<1> HIDE DEF Q, all
<1>4. \A n \in 1 .. m, s \in Side : With(s, Q(n), by) \in Side
  BY <1>2, AppendProperties DEF With, Side
<1>5. step \in Steps(m, Side)
  BY <1>4 DEF Steps
<1> HIDE DEF m, step
<1>6. PICK g \in Values(m, Side) : Rounds(g, << >>, m, step)
  BY <1>1, <1>5, RecursionOver
<1>7. \A n \in 1 .. m : g[n] = With(g[n - 1], Q(n), by)
  <2>1. \A n \in 1 .. m : n - 1 \in 0 .. m
    BY <1>1
  <2>2. \A n \in 1 .. m : g[n - 1] \in Side
    BY <2>1, <1>6 DEF Values
  <2> QED
    BY <1>6, <2>2 DEF step, Rounds
<1>8. g = [n \in 0 .. m |->
          IF n = 0 THEN << >>
          ELSE With(g[n - 1], QuantizedLevel(side[n], by), by)]
  BY <1>1, <1>6, <1>7 DEF Values, Rounds, Q
<1>9. all = [n \in 0 .. m |->
          IF n = 0 THEN << >>
          ELSE With(all[n - 1], QuantizedLevel(side[n], by), by)]
  BY <1>8 DEF all, m
<1>10. all[0] = << >> /\ \A n \in 1 .. m : all[n] = With(all[n - 1], Q(n), by)
  BY <1>1, <1>9 DEF Q
<1> QED
  BY <1>3, <1>10 DEF m, Q

\* One sequence goes on as the other.
Continues(longer, s) ==
  /\ Len(s) <= Len(longer)
  /\ \A k \in 1 .. Len(s) : longer[k] = s[k]

\* What has passed once stays where it is.
LEMMA FilteringGoesOn ==
  ASSUME NEW side \in Side, NEW by \in TradingRules, NEW n \in 0 .. Len(side)
  PROVE  LET kept == MirrorableLevels(side, by)
         IN  kept[Len(side)] \in Side /\ Continues(kept[Len(side)], kept[n])
<1> DEFINE m == Len(side)
           kept == MirrorableLevels(side, by)
           Q(l) == QuantizedLevel(side[l], by)
           Good(l) == /\ kept[l] \in Side
                      /\ n <= l => kept[n] \in Side /\ Continues(kept[l], kept[n])
           S == {l \in Nat : l <= m => Good(l)}
<1>1. m \in Nat /\ n \in Nat /\ n <= m /\ << >> \in Side
  BY LenProperties DEF Side
<1>2. /\ kept[0] = << >>
      /\ \A l \in 1 .. m : kept[l] = With(kept[l - 1], Q(l), by)
  BY Filtering
<1>3. \A l \in 1 .. m : Q(l) \in [price: Nat, amount: Nat]
  <2> SUFFICES ASSUME NEW l \in 1 .. m PROVE Q(l) \in [price: Nat, amount: Nat]
    OBVIOUS
  <2>1. side[l] \in [price: Nat, amount: Nat]
    BY ElementOfSeq DEF Side
  <2> QED
    BY <2>1, LevelFacts
<1> HIDE DEF m, kept, Q
<1>4. \A s \in Side : Len(s) \in Nat /\ Continues(s, s)
  BY LenProperties DEF Side, Continues
<1>5. 0 \in S
  BY <1>1, <1>2, <1>4
<1>6. ASSUME NEW l \in S PROVE l + 1 \in S
  <2> SUFFICES ASSUME l + 1 <= m PROVE Good(l + 1)
    OBVIOUS
  <2>1. l \in Nat /\ l + 1 \in 1 .. m /\ (l + 1) - 1 = l /\ Good(l)
    BY <1>1
  <2>2. kept[l + 1] = With(kept[l], Q(l + 1), by)
    BY <1>2, <2>1
  <2>3. kept[l + 1] \in Side /\ Continues(kept[l + 1], kept[l])
    <3>1. CASE kept[l + 1] = kept[l]
      BY <1>4, <2>1, <3>1
    <3>2. CASE kept[l + 1] = Append(kept[l], Q(l + 1))
      <4>1. /\ kept[l + 1] \in Side /\ Len(kept[l + 1]) = Len(kept[l]) + 1
            /\ \A k \in 1 .. Len(kept[l]) : kept[l + 1][k] = kept[l][k]
        BY <1>3, <2>1, <3>2, AppendProperties DEF Side
      <4> QED
        BY <1>4, <2>1, <4>1 DEF Continues
    <3> QED
      BY <2>2, <3>1, <3>2 DEF With
  <2>4. ASSUME n <= l + 1 PROVE kept[n] \in Side /\ Continues(kept[l + 1], kept[n])
    <3>1. CASE n = l + 1
      BY <1>4, <2>3, <3>1
    <3>2. CASE n <= l
      <4>1. /\ kept[n] \in Side /\ Continues(kept[l], kept[n])
            /\ Len(kept[n]) \in Nat /\ Len(kept[l]) \in Nat
            /\ Len(kept[l + 1]) \in Nat
        BY <1>4, <2>1, <2>3, <3>2
      <4> QED
        BY <2>3, <4>1 DEF Continues
    <3> QED
      BY <1>1, <2>1, <2>4, <3>1, <3>2
  <2> QED
    BY <2>3, <2>4
<1> HIDE DEF S
<1>7. S = Nat
  <2>1. S \in SUBSET Nat
    BY DEF S
  <2> QED
    BY <1>5, <1>6, <2>1, AllNumbers
<1>8. Good(m)
  BY <1>1, <1>7 DEF S
<1> QED
  BY <1>1, <1>8 DEF m, kept

-----------------------------------------------------------------------------
(* The loop has what passed among the levels it has seen.                  *)

LoopInv ==
  /\ result = MirrorableLevels(raw, rules)[i]
  /\ at = "returned" => i = Len(raw) \/ Full

\* What a round finds.
LEMMA Arguments ==
  ASSUME Inv
  PROVE  /\ raw \in Side /\ rules \in TradingRules /\ rules.levels \in Nat
         /\ Len(raw) \in Nat /\ i \in 0 .. Len(raw)
         /\ result \in Side /\ Len(result) \in Nat /\ Len(result) <= rules.levels
<1>1. result \in Seq([price : Nat \ {0}, amount : Nat \ {0}])
  BY DEF Inv, TypeOK
<1>2. /\ Len(result) \in Nat
      /\ result \in [1 .. Len(result) -> [price : Nat \ {0}, amount : Nat \ {0}]]
  BY <1>1, LenProperties
<1>3. result \in [1 .. Len(result) -> [price: Nat, amount: Nat]]
  BY <1>2
<1>4. result \in Side
  BY <1>2, <1>3, SeqDef DEF Side
<1>5. raw \in Side /\ rules \in TradingRules
  BY FilterAssumption DEF Inv, TypeOK, Side
<1> QED
  BY <1>2, <1>4, <1>5, LenProperties DEF Inv, TypeOK, TradingRules, Side

LEMMA LoopStart == Init => LoopInv
<1> SUFFICES ASSUME Init PROVE LoopInv
  OBVIOUS
<1>1. Inv
  BY InitInv
<1>2. MirrorableLevels(raw, rules)[0] = << >>
  BY <1>1, Arguments, Filtering
<1>3. Len(<< >>) = 0
  OBVIOUS
<1> QED
  BY <1>1, <1>2, <1>3, Arguments DEF Init, LoopInv

LEMMA LoopStep ==
  ASSUME Inv, LoopInv, [Next]_vars
  PROVE  LoopInv'
<1> DEFINE kept == MirrorableLevels(raw, rules)
<1>1. /\ rules.levels \in Nat /\ Len(raw) \in Nat /\ i \in Nat
      /\ result \in Side /\ Len(result) \in Nat
  BY Arguments
<1>2. ASSUME i < Len(raw)
      PROVE  kept[i + 1] = With(kept[i], Level, rules)
  <2>1. i + 1 \in 1 .. Len(raw) /\ (i + 1) - 1 = i
    BY <1>1, <1>2
  <2>2. kept[i + 1] = With(kept[(i + 1) - 1], QuantizedLevel(raw[i + 1], rules), rules)
    BY <2>1, Arguments, Filtering
  <2> QED
    BY <2>1, <2>2 DEF Level
<1> HIDE DEF kept
<1>3. CASE Keep
  <2>1. /\ i < Len(raw) /\ ~Full /\ Passes(Level) /\ at' = "loop"
        /\ i' = i + 1 /\ result' = Append(result, Level) /\ UNCHANGED <<raw, rules>>
    BY <1>3 DEF Keep
  <2>2. result' = kept[i']
    BY <1>2, <2>1 DEF LoopInv, With, Passes, kept
  <2> QED
    BY <2>1, <2>2 DEF LoopInv, kept
<1>4. CASE Skip
  BY <1>1, <1>2, <1>4 DEF Skip, LoopInv, With, Passes, kept
<1>5. CASE Return
  BY <1>5 DEF Return, LoopInv, Full
<1>6. CASE UNCHANGED vars
  BY <1>6 DEF vars, LoopInv, Full
<1> QED
  BY <1>3, <1>4, <1>5, <1>6 DEF Next

\* The break before the next level and the count after the last one agree.
LEMMA CutOff ==
  ASSUME Inv, LoopInv, at = "returned"
  PROVE  result = PrepareLevels(raw, rules)
<1> DEFINE passing == MirrorableLevels(raw, rules)[Len(raw)]
           n == rules.levels
<1>1. /\ n \in Nat /\ Len(raw) \in Nat /\ result \in Side /\ Len(result) \in Nat
      /\ Len(result) <= n
  BY Arguments DEF LoopInv
<1>2. passing \in Side /\ Continues(passing, result)
  BY Arguments, FilteringGoesOn DEF LoopInv
<1>3. PrepareLevels(raw, rules) =
        IF Len(passing) > n THEN SubSeq(passing, 1, n) ELSE passing
  BY DEF PrepareLevels
<1>4. i = Len(raw) => passing = result
  BY DEF LoopInv
<1> HIDE DEF passing, n
<1>5. Len(passing) \in Nat
  BY <1>2, LenProperties DEF Side
<1>6. CASE passing = result
  BY <1>1, <1>3, <1>6
<1>7. CASE Len(result) = n /\ Len(passing) <= n
  <2>1. Len(passing) = Len(result) /\ \A k \in 1 .. Len(passing) : passing[k] = result[k]
    BY <1>1, <1>2, <1>5, <1>7 DEF Continues
  <2>2. passing = result
    BY <1>1, <1>2, <2>1, SeqEqual DEF Side
  <2> QED
    BY <1>6, <2>2
<1>8. CASE Len(result) = n /\ Len(passing) > n
  <2> DEFINE cut == SubSeq(passing, 1, n)
  <2>1. /\ cut \in Side /\ Len(cut) = n
        /\ \A k \in 1 .. n : cut[k] = passing[k]
    <3>1. \A k \in 1 .. n : passing[k] \in [price: Nat, amount: Nat]
      <4>1. \A k \in 1 .. Len(passing) : passing[k] \in [price: Nat, amount: Nat]
        BY <1>2, ElementOfSeq DEF Side
      <4> QED
        BY <1>1, <1>5, <1>8, <4>1
    <3>2. n - 1 + 1 = n /\ (1 <= n \/ n = 0) /\ \A k \in 1 .. n : 1 + k - 1 = k
      BY <1>1
    <3> QED
      BY <1>1, <3>1, <3>2, SubSeqProperties DEF Side
  <2>2. \A k \in 1 .. Len(cut) : cut[k] = result[k]
    BY <1>2, <1>8, <2>1 DEF Continues
  <2> HIDE DEF cut
  <2>3. cut = result
    BY <1>1, <1>8, <2>1, <2>2, SeqEqual DEF Side
  <2> QED
    BY <1>3, <1>8, <2>3 DEF cut
<1>9. passing = result \/ Len(result) = n
  BY <1>1, <1>4 DEF LoopInv, Full, n
<1> QED
  BY <1>1, <1>5, <1>6, <1>7, <1>8, <1>9

\* The loop of prepare_levels, which breaks as soon as it has enough and skips
\* what may not be mirrored, returns the first levels that pass, for every book
\* side and every set of rules: the definition MirrorEngine's books are made by.
THEOREM ReturnsPreparedLevelsCorrect == Spec => []ReturnsPreparedLevels
<1>1. Inv /\ LoopInv => ReturnsPreparedLevels
  BY CutOff DEF ReturnsPreparedLevels
<1>2. Inv /\ LoopInv /\ [Next]_vars => LoopInv'
  BY LoopStep
<1> QED
  BY <1>1, <1>2, LoopStart, Invariant, PTL DEF Spec
=============================================================================
