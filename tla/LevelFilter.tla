----------------------------- MODULE LevelFilter -----------------------------
(***************************************************************************)
(* The loop of prepare_levels, one iteration a step, over every book side  *)
(* and every set of trading rules of an instance.  MirrorEngine takes what *)
(* the loop builds in one step, by the definition PrepareLevels.           *)
(***************************************************************************)
EXTENDS Quantize, FiniteSets, SequencesExt

CONSTANTS
  Book,   \* raw book sides, best level first: sequences of [price, amount]
  Rules   \* [priceTick, amountStep, max, minNotional, levels]

ASSUME FilterAssumption ==
  /\ Book \subseteq Seq([price: Nat, amount: Nat])
  /\ Rules \subseteq TradingRules

VARIABLES
  raw, rules,  \* the arguments
  i,           \* the levels of raw seen
  result,      \* the levels kept
  at           \* "loop" or "returned"

vars == <<raw, rules, i, result, at>>

TypeOK ==
  /\ raw \in Book /\ rules \in Rules
  /\ i \in 0 .. Len(raw)
  /\ result \in Seq([price : Nat \ {0}, amount : Nat \ {0}])
  /\ Len(result) <= rules.levels
  /\ at \in {"loop", "returned"}

Init ==
  /\ raw \in Book /\ rules \in Rules
  /\ i = 0 /\ result = << >> /\ at = "loop"

Level == QuantizedLevel(raw[i + 1], rules)

\* Mutant: one level more than asked for.
OneTooMany == Len(result) > rules.levels

Full == Len(result) >= rules.levels

\* Mutant: the notional is the source's, before the cap.
UncappedNotional(level) ==
  /\ level.price > 0 /\ level.amount > 0
  /\ EnoughNotional(raw[i + 1].price, raw[i + 1].amount, rules.minNotional)

\* Mutant: a price below one tick is mirrored at 0.
AtAnyPrice(level) == EnoughNotional(level.price, level.amount, rules.minNotional)

Passes(level) == Mirrorable(level, rules)

Keep ==
  /\ at = "loop" /\ i < Len(raw) /\ ~Full
  /\ Passes(Level)
  /\ i' = i + 1
  /\ result' = Append(result, Level)
  /\ UNCHANGED <<raw, rules, at>>

Skip ==
  /\ at = "loop" /\ i < Len(raw) /\ ~Full
  /\ ~Passes(Level)
  /\ i' = i + 1
  /\ UNCHANGED <<raw, rules, result, at>>

Return ==
  /\ at = "loop"
  /\ i = Len(raw) \/ Full
  /\ at' = "returned"
  /\ UNCHANGED <<raw, rules, i, result>>

Next == Keep \/ Skip \/ Return

Spec == Init /\ [][Next]_vars

-----------------------------------------------------------------------------
\* The loop, with its break and its continues, returns what the one-step
\* definition says, whose filter comes before the count.
ReturnsPreparedLevels == at = "returned" => result = PrepareLevels(raw, rules)

\* What the service is asked for is worth its minimum also after the cap, never
\* above the cap, and no further from the source than the rounding explains: a
\* price less than a tick below, an amount half a step away.  An order that was
\* placed for it is adopted, after a restart, at the price it has.
WithinTheRules ==
  \A k \in DOMAIN result :
    LET level == result[k]
    IN  /\ EnoughNotional(level.price, level.amount, rules.minNotional)
        /\ rules.max > 0 => level.amount <= rules.max
        /\ QuantizeHalfEven(level.price, rules.priceTick) = level.price
        /\ \E j \in 1 .. i :
             /\ raw[j].price - level.price \in 0 .. rules.priceTick.unit - 1
             /\ \/ level.amount = rules.max
                \/ 2 * (level.amount - raw[j].amount)
                     \in -rules.amountStep.unit + 1 .. rules.amountStep.unit
=============================================================================
