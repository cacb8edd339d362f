--------------------------- MODULE MCLevelFilter ---------------------------
(* Instances of LevelFilter for TLC: prices and amounts on both sides of a  *)
(* tick and of half a step; caps on and off the step; a minimum notional    *)
(* that some levels reach only before the cap.                              *)
EXTENDS LevelFilter, TLC

Raw == [price : {9, 15, 20}, amount : {4, 5, 25}]

BestFirst(side) ==
  \/ \A j, k \in DOMAIN side : j < k => side[j].price > side[k].price
  \/ \A j, k \in DOMAIN side : j < k => side[j].price < side[k].price

Books == {side \in UNION {[1 .. n -> Raw] : n \in 0 .. 3} : BestFirst(side)}

RulesOn(digits) ==
  [priceTick : {Tick(digits, 10)}, amountStep : {Tick(1, 10)},
   max : {0, 15}, minNotional : {0, 200, 350}, levels : {1, 2}]

PowersOfTen == RulesOn(1)
FiveTicks == RulesOn(5)

(* Does not hold with FiveTicks, see README.md. *)

\* A mirrored price is a multiple of the tick size.
OnTheTick ==
  \A k \in DOMAIN result :
    result[k].price % (rules.priceTick.digits * rules.priceTick.unit) = 0
=============================================================================
