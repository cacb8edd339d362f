------------------------------ MODULE TradeTape ------------------------------
(***************************************************************************)
(* Market-order mirroring: trade_callback and on_public_trade of one pair, *)
(* over the promise of the client.  The receive loop of the pair's         *)
(* connection awaits the callback, so a trade is looked at when the order  *)
(* of the one before is through, however long ago it happened; an attempt  *)
(* the client has given up may be executed at any later time.              *)
(*                                                                         *)
(* Faults are those of OrderPort, and                                      *)
(*   "interrupt"  the connection's task is cancelled, or an exception ends *)
(*                the callback, while the order is awaited                 *)
(***************************************************************************)
EXTENDS Quantize, FiniteSets, SequencesExt

CONSTANTS
  OrderId, NoId, NoOrder, Amount, MaxRetries, Faults, Late,  \* as in OrderPort
  Tape,      \* the receive loop of the pair's connection
  RawTrade,  \* public trades: [price, amount, buyerMaker]
  Rules,     \* the pair's, with max for max_market_order_amount
  Gap,       \* min_seconds_between_market_orders
  MaxTime    \* bound: the clock stops here

VARIABLES
  executed, call, late,  \* OrderPort: the market orders the service has executed
  now,     \* time.monotonic()
  last,    \* _last_market_ts
  began,   \* the time the current callback has read
  trade,   \* the trade it mirrors
  origin,  \* history: the callback and the trade of each attempt on its way
  tape     \* history: what the service executed, and for which callback

portVars == <<executed, call, late>>
vars == <<portVars, now, last, began, trade, origin, tape>>

\* A market order has no price; it leaves the market as soon as it is executed.
Market == "market"
Port == INSTANCE OrderPort WITH
  live <- executed, Caller <- {Tape}, Price <- {Market}, LeftBehind <- {}

ASSUME TapeAssumption ==
  /\ Gap \in Nat /\ MaxTime \in Nat /\ Gap <= MaxTime
  /\ RawTrade \subseteq [price: Nat, amount: Nat, buyerMaker: BOOLEAN]
  /\ Rules \in TradingRules
  /\ {QuantizedLevel(t, Rules).amount : t \in RawTrade} \subseteq Amount
  /\ NoId \notin OrderId /\ NoOrder \notin Port!Order \cup RawTrade

Busy == call[Tape] # Port!NoCall
Made == call[Tape].made

Origin(b, t) == [began |-> b, trade |-> t]

TypeOK ==
  /\ Port!PortTypeOK
  /\ now \in Gap .. MaxTime
  /\ last \in 0 .. now /\ began \in 0 .. now
  /\ trade \in RawTrade \cup {NoOrder}
  /\ Busy <=> trade # NoOrder
  /\ origin \in [Late -> [began: Nat, trade: RawTrade \cup {NoOrder}]]
  /\ tape \subseteq [id: OrderId, began: Nat, time: Nat, trade: RawTrade,
                     side: Port!Side, amount: Amount, heard: BOOLEAN]

\* The clock of a machine that has been up for longer than Gap.
Init ==
  /\ Port!PortInit
  /\ now = Gap /\ last = 0 /\ began = 0
  /\ trade = NoOrder
  /\ origin = [k \in Late |-> Origin(0, NoOrder)]
  /\ tape = {}

\* Bound: an id is used once, and a call finds one for each of its attempts.
FreshIds == OrderId \ Port!Ids(executed)

-----------------------------------------------------------------------------
TimePasses ==
  /\ now < MaxTime
  /\ now' = now + 1
  /\ UNCHANGED <<portVars, last, began, trade, origin, tape>>

\* Mutant: the throttle is not asked.
AlwaysDue == TRUE

Due == now - last >= Gap

\* Mutant: the maker's side.
MakerSide(t) == IF t.buyerMaker THEN "buy" ELSE "sell"

\* The aggressor's: the buyer was the maker, so a seller came.
SameSide(t) == IF t.buyerMaker THEN "sell" ELSE "buy"

\* on_public_trade, up to the await; a trade that is throttled or filtered
\* leaves no trace.
OnPublicTrade ==
  /\ ~Busy
  /\ Cardinality(FreshIds) >= MaxRetries
  /\ Due
  /\ \E t \in RawTrade :
       \E level \in ToSet(PrepareMarketAmount(t, Rules)) :
         /\ Port!Begin(Tape, "place", [id |-> NoId, side |-> SameSide(t),
                                       price |-> Market, amount |-> level.amount])
         /\ trade' = t
  /\ began' = now
  /\ UNCHANGED <<executed, late, now, last, origin, tape>>

\* An order for the tape: what the service was asked for, when, and why.
Entry(id, order, from) ==
  [id |-> id, began |-> from.began, time |-> now, trade |-> from.trade,
   side |-> order.side, amount |-> order.amount, heard |-> FALSE]

\* The service executes an attempt, the answer of which may be lost.  Ids are
\* only compared: which of the fresh ones it gives does not matter.
Executes ==
  LET id == CHOOSE i \in FreshIds : TRUE
  IN  /\ FreshIds # {}
      /\ Port!PlaceServed(Tape, id)
      /\ tape' = tape \cup {Entry(id, call[Tape].order, Origin(began, trade))}
      /\ UNCHANGED <<now, last, began, trade, origin>>

\* An attempt given up now is one of the callback that runs now.
Remembers ==
  origin' = [k \in Late |-> IF late'[k] # late[k] THEN Origin(began, trade)
                                                  ELSE origin[k]]

\* The client gives an attempt up while it is on its way, ...
Strays ==
  /\ Port!Lag(Tape)
  /\ Remembers
  /\ UNCHANGED <<now, last, began, trade, tape>>

\* ... and the service executes it later, whatever the callback does then.
ExecutesLate ==
  LET id == CHOOSE i \in FreshIds : TRUE
  IN  /\ FreshIds # {}
      /\ \E k \in Late :
           /\ Port!LateServed(k, id)
           /\ tape' = tape \cup {Entry(id, late[k], origin[k])}
           /\ origin' = [origin EXCEPT ![k] = Origin(0, NoOrder)]
      /\ UNCHANGED <<now, last, began, trade>>

\* Mutant: the end of the interval is stored.
IntervalEnd == began + Gap

\* `now` was read before the await.
IntervalStart == began

\* The callback returns an id: the throttle starts where the callback began.
Acknowledged ==
  /\ \E id \in Made : Port!PlaceReturnsId(Tape, id)
  /\ last' = IntervalStart
  /\ tape' = {IF x.id \in Made THEN [x EXCEPT !.heard = TRUE] ELSE x : x \in tape}
  /\ trade' = NoOrder
  /\ UNCHANGED <<now, began, origin>>

\* None, or an exception: the throttle stays where it was.
Unacknowledged ==
  /\ \/ Port!PlaceReturnsNone(Tape)
     \/ "interrupt" \in Faults /\ Port!Abandon(Tape)
  /\ Remembers
  /\ trade' = NoOrder
  /\ UNCHANGED <<now, last, began, tape>>

Next ==
  \/ TimePasses \/ OnPublicTrade \/ Executes \/ Strays \/ ExecutesLate
  \/ Acknowledged \/ Unacknowledged

Spec == Init /\ [][Next]_vars

-----------------------------------------------------------------------------
\* Of three callbacks, the orders the first was told of and those of the last are
\* as far apart as the throttle says, if the one between was told of its order
\* too, although the throttle starts before that order is executed and although
\* the orders of the last may have been executed late.
TwoTradesPerGap ==
  \A x, y, z \in tape :
    x.began < y.began /\ y.began < z.began /\ x.heard /\ y.heard
      => z.time - x.time >= Gap

\* What is executed, for the callback that waits or long after it, is of the
\* aggressor's side, within the cap and worth the minimum, and if the cap did not
\* cut it, half a step at most from the trade.
MirrorsTheTrade ==
  \A x \in tape :
    /\ x.side = IF x.trade.buyerMaker THEN "sell" ELSE "buy"
    /\ Rules.max > 0 => x.amount <= Rules.max
    /\ x.trade.price * x.amount >= Rules.minNotional
    /\ \/ x.amount = Rules.max
       \/ 2 * (x.amount - x.trade.amount)
            \in -Rules.amountStep.unit + 1 .. Rules.amountStep.unit
=============================================================================
