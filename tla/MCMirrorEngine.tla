--------------------------- MODULE MCMirrorEngine ---------------------------
(* Instances of MirrorEngine for TLC. *)
EXTENDS MirrorEngine, TLC

Q == INSTANCE Quantize

CONSTANTS i1, i2

\* Symmetric up to renaming: an id is only compared and sent.
IdSymmetry == Permutations(OrderId \ Ids(LeftBehind))

\* price_precision and amount_precision counted in hundredths and in ones;
\* max_order_amount 11, min_notional 1, levels 2.
Rules(tick) == [priceTick |-> tick, amountStep |-> Q!Tick(1, 1), max |-> 11,
                minNotional |-> 100, levels |-> 2]

Tenth == Q!Tick(1, 10)
One   == Q!Tick(1, 100)

Raw(p, a) == [price |-> p, amount |-> a]

BookOf(bids, asks, tick) == [buy  |-> Q!PrepareLevels(bids, Rules(tick)),
                             sell |-> Q!PrepareLevels(asks, Rules(tick))]

\* A bid drifts beyond the tolerance while another one appears and goes; the ask
\* drifts within it (10 against 11, the cap).
BooksDrifting ==
  { BookOf(<<Raw(118, 4), Raw(104, 2)>>, <<Raw(123, 10)>>, Tenth),
    BookOf(<<Raw(109, 4)>>, <<Raw(123, 14)>>, Tenth) }

\* The market moves up through the old ask.
BooksMoving ==
  BooksDrifting \cup { BookOf(<<Raw(121, 4)>>, <<Raw(139, 3)>>, Tenth) }

\* Two source bids share the price 1.0 on the tick of the pair.
BooksColliding == { BookOf(<<Raw(109, 4), Raw(102, 2)>>, << >>, Tenth) }

\* Books of a pair with the tick 1: the bid shrinks, or moves up to the old ask.
BooksCoarse ==
  { BookOf(<<Raw(118, 4)>>, <<Raw(204, 3)>>, One),
    BookOf(<<Raw(109, 2)>>, << >>, One),
    BookOf(<<Raw(209, 2)>>, << >>, One) }

MCPrice == {40, 100, 110, 120, 130, 200}
MCAmount == 1..11

QuantizedTo(tick) ==
  [p \in MCPrice |-> LET q == Q!QuantizeHalfEven(p, tick)
                     IN  IF q = 0 THEN NoPrice ELSE q]

\* The pair's tick is that of the resting orders, or it has become 1.
SamePrice == QuantizedTo(Tenth)
CoarserTick == QuantizedTo(One)

LeftBid(id, p) == [id |-> id, side |-> "buy", price |-> p, amount |-> 4]

Nothing == {}
\* A market as a crash leaves it, with two bids of the pair.
TwoBids == {LeftBid(i1, 110), LeftBid(i2, 120)}
\* ... with a bid whose price vanishes on the coarser tick.
LostBid == {LeftBid(i1, 40)}

-----------------------------------------------------------------------------
(* Claims of comments and documentation that do not hold, see README.md.   *)

\* The bids and asks of the pair never cross, even while a pass is under way.
NeverCrosses ==
  \A x, y \in live : x.side = "buy" /\ y.side = "sell" => x.price < y.price

\* adopt_open_orders registers or cancels every order it was given.
AdoptsAll == [][StartLoop => Ids(live) \subseteq Ids(tracker)]_vars
=============================================================================
