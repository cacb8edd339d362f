---------------------------- MODULE MCTradeTape ----------------------------
(* Instances of TradeTape for TLC. *)
EXTENDS TradeTape, TLC

\* Trades that the cap cuts, that round up to a step, and that are too small.
Trades ==
  { [price |-> 20, amount |-> 25, buyerMaker |-> TRUE],
    [price |-> 19, amount |-> 5, buyerMaker |-> FALSE],
    [price |-> 9, amount |-> 15, buyerMaker |-> FALSE] }

TapeRules == [priceTick |-> Tick(1, 10), amountStep |-> Tick(1, 10),
              max |-> 15, minNotional |-> 100, levels |-> 1]

Amounts == {10, 15, 20, 30}

(* Does not hold, see README.md. *)

\* "throttled by min_seconds_between_market_orders": two market orders are Gap
\* apart.
AtMostOnePerGap ==
  \A x, y \in tape : x.began < y.began => y.time - x.time >= Gap

\* One market order for a trade.
OneOrderPerTrade == \A x, y \in tape : x.began = y.began => x = y
=============================================================================
