------------------------------ MODULE Quantize ------------------------------
(***************************************************************************)
(* quantize.py: a raw source book side to the levels to mirror.            *)
(*                                                                         *)
(* A Decimal is an integer number of a smallest unit.  Decimal.quantize    *)
(* looks only at the exponent of its argument, so a tick is given by its   *)
(* digits and the power of ten they are counted in: "0.05" is 5 times      *)
(* 0.01, and quantizing to it keeps multiples of 0.01.                     *)
(***************************************************************************)
EXTENDS Integers, Sequences

\* A price_precision or amount_precision: its value is digits * unit.
Tick(digits, unit) == [digits |-> digits, unit |-> unit]

\* What a pair is configured with; max is max_order_amount or
\* max_market_order_amount.
TradingRules ==
  LET TickSize == [digits: Nat \ {0}, unit: Nat \ {0}]
  IN  [priceTick: TickSize, amountStep: TickSize, max: Nat, minNotional: Nat,
       levels: Nat]

\* ROUND_DOWN
QuantizePrice(price, tick) == (price \div tick.unit) * tick.unit

\* ROUND_HALF_UP
QuantizeAmount(amount, step) ==
  ((2 * amount + step.unit) \div (2 * step.unit)) * step.unit

\* The default ROUND_HALF_EVEN, which only adopt_open_orders uses.
QuantizeHalfEven(price, tick) ==
  LET down == price \div tick.unit
      rest == price % tick.unit
      up   == \/ 2 * rest > tick.unit
              \/ 2 * rest = tick.unit /\ down % 2 = 1
  IN  (IF up THEN down + 1 ELSE down) * tick.unit

\* max_order_amount and max_market_order_amount: 0 is no cap.
Cap(amount, max) == IF max > 0 /\ amount > max THEN max ELSE amount

EnoughNotional(price, amount, minNotional) ==
  minNotional > 0 => price * amount >= minNotional

QuantizedLevel(raw, rules) ==
  [price  |-> QuantizePrice(raw.price, rules.priceTick),
   amount |-> Cap(QuantizeAmount(raw.amount, rules.amountStep), rules.max)]

Mirrorable(level, rules) ==
  /\ level.price > 0
  /\ level.amount > 0
  /\ EnoughNotional(level.price, level.amount, rules.minNotional)

\* kept, with the next level if it passes the filters.
With(kept, level, rules) ==
  IF Mirrorable(level, rules) THEN Append(kept, level) ELSE kept

\* What passes, of none, one, two, ... of the raw levels.
MirrorableLevels(raw, rules) ==
  LET kept[n \in 0 .. Len(raw)] ==
        IF n = 0 THEN << >>
        ELSE With(kept[n - 1], QuantizedLevel(raw[n], rules), rules)
  IN  kept

\* prepare_levels: the first rules.levels levels that pass the filters.
PrepareLevels(raw, rules) ==
  LET passing == MirrorableLevels(raw, rules)[Len(raw)]
  IN  IF Len(passing) > rules.levels THEN SubSeq(passing, 1, rules.levels)
                                     ELSE passing

\* prepare_market_amount: <<>> stands for None.
PrepareMarketAmount(raw, rules) ==
  LET level == QuantizedLevel(raw, rules)
  IN  IF /\ level.amount > 0
         /\ EnoughNotional(level.price, level.amount, rules.minNotional)
        THEN <<level>> ELSE << >>
=============================================================================
