---------------------------- MODULE MirrorEngine ----------------------------
(***************************************************************************)
(* One MirrorEngine: the life of a pair's limit quotes, from the adoption  *)
(* of open orders through the passes of its reconcile loop to cancel_all.  *)
(*                                                                         *)
(* A step runs from one await to the next or is shorter; the coroutine     *)
(* that drives the engine (add_pair while adopting, the reconcile loop,    *)
(* then remove_pair or shutdown) is the caller Loop of OrderPort, so it    *)
(* awaits at most one request.  Further fault kinds:                       *)
(*   "fill"       a resting order trades                                   *)
(*   "interrupt"  the coroutine is cancelled while it awaits a request     *)
(*   "error"      an unexpected exception leaves a request                 *)
(*   "crash"      the process dies (kill -9)                               *)
(*   "blind"      open_orders fails and returns []                         *)
(***************************************************************************)
EXTENDS OrderPort, Integers, Sequences, FiniteSetsExt

CONSTANTS
  Loop,               \* the coroutine that runs the engine
  Targets,            \* per side, what prepare_levels yields for a source book
  NoBook,             \* the source book is not ready, or empty on both sides
  TolerancePct,       \* amount_tolerance, in percent
  AdoptPrice,         \* price of an adopted order, quantized to the pair's tick
  NoPrice,            \* ... when that is 0
  AdoptOnStartup,     \* reconcile_on_startup
  CancelOnShutdown    \* cancel_on_shutdown

Level == [price: Price, amount: Amount]

ASSUME EngineAssumption ==
  /\ Loop \in Caller
  /\ Amount \subseteq Nat \ {0}
  /\ TolerancePct \in Nat
  /\ Targets \subseteq [Side -> Seq(Level)]
  /\ NoBook \notin Targets
  /\ AdoptPrice \in [Price -> Price \cup {NoPrice}]
  /\ NoPrice \notin Price
  /\ AdoptOnStartup \in BOOLEAN
  /\ CancelOnShutdown \in BOOLEAN

VARIABLES
  book,     \* the current source book, quantized
  tracker,  \* OrderTracker: the orders the engine believes are resting
  phase,    \* where the engine's coroutine is
  todo,     \* adopting: the fetched orders not looked at yet
  target,   \* pass: target_bids and target_asks
  side,     \* pass: the side being reconciled
  levels    \* pass: the target levels not looked at yet

engineVars == <<book, tracker, phase, todo, target, side, levels>>
vars == <<portVars, engineVars>>
passVars == <<target, side, levels>>

Phase == {"off", "fetching", "adopting", "idle", "pulling", "placing",
          "clearing"}

\* The reconcile loop runs.
Active == {"idle", "pulling", "placing"}

TypeOK ==
  /\ PortTypeOK
  /\ book \in Targets \cup {NoBook}
  /\ tracker \in SUBSET Order
  /\ phase \in Phase
  /\ todo \in SUBSET Order
  /\ target \in Targets \cup {NoBook}
  /\ phase \in {"pulling", "placing"} => target \in Targets
  /\ side \in Side
  /\ levels \in Seq(Level)

Init ==
  /\ PortInit
  /\ book = NoBook
  /\ tracker = {}
  /\ phase = "off"
  /\ todo = {}
  /\ target = NoBook
  /\ side = "buy"
  /\ levels = << >>

-----------------------------------------------------------------------------
\* OrderTracker: a map from side and price to the order.
Slot(o) == <<o.side, o.price>>

Without(orders, s, p) == {o \in orders : Slot(o) # <<s, p>>}

\* Mutant: the order is not registered.
RememberNothing(orders, o) == orders

Remember(orders, o) == Without(orders, o.side, o.price) \cup {o}

Tracked(s, p) == \E o \in tracker : Slot(o) = <<s, p>>

Busy == call[Loop] # NoCall
Await == call[Loop].order
Made == call[Loop].made

\* An id the service never used: it names nothing the engine still knows.
FreshIds ==
  OrderId \ (Ids(live \cup tracker \cup todo)
               \cup UNION {{call[c].order.id} \cup call[c].made :
                            c \in {d \in Caller : call[d] # NoCall}}
               \cup {late[k].id : k \in {j \in Late : late[j] # NoOrder}})

-----------------------------------------------------------------------------
(* The environment.                                                        *)

\* The feed applies a diff or a snapshot, or reconnects and is not ready.
BookMoves ==
  /\ book' \in (Targets \cup {NoBook}) \ {book}
  /\ UNCHANGED <<portVars, tracker, phase, todo, passVars>>

QuoteFilled ==
  /\ "fill" \in Faults
  /\ \E o \in live : Fill(o)
  /\ UNCHANGED engineVars

\* The order service carries out the request the engine awaits.
ServiceActs ==
  /\ \/ \E id \in FreshIds : PlaceServed(Loop, id)
     \/ CancelServed(Loop)
  /\ UNCHANGED engineVars

\* An attempt times out on its way and is carried out later, if ever.
AttemptStrays ==
  /\ \/ Lag(Loop)
     \/ \E k \in Late, id \in FreshIds : LateServed(k, id)
  /\ UNCHANGED engineVars

-----------------------------------------------------------------------------
(* Start: add_pair builds an engine with an empty tracker.                 *)

Launch ==
  /\ phase = "off"
  /\ phase' = IF AdoptOnStartup THEN "fetching" ELSE "idle"
  /\ tracker' = {}
  /\ UNCHANGED <<portVars, book, todo, passVars>>

\* open_orders answers with the market's open orders, or fails: [].
FetchOpenOrders ==
  /\ phase = "fetching"
  /\ todo' \in {live} \cup IF "blind" \in Faults THEN {{}} ELSE {}
  /\ phase' = "adopting"
  /\ UNCHANGED <<portVars, book, tracker, passVars>>

\* The order is registered under its price on the pair's own tick.
AdoptOrder ==
  /\ phase = "adopting" /\ ~Busy
  /\ \E o \in todo :
       LET p == AdoptPrice[o.price]
           mine == [o EXCEPT !.price = p]
       IN  /\ todo' = todo \ {o}
           /\ \/ /\ p = NoPrice
                 /\ UNCHANGED <<tracker, call>>
              \/ /\ p # NoPrice /\ ~Tracked(o.side, p)
                 /\ tracker' = Remember(tracker, mine)
                 /\ UNCHANGED call
              \* The bucket is taken: _cancel, which forgets the bucket first.
              \/ /\ p # NoPrice /\ Tracked(o.side, p)
                 /\ tracker' = Without(tracker, o.side, p)
                 /\ Begin(Loop, "cancel", mine)
  /\ UNCHANGED <<live, late, book, phase, passVars>>

StartLoop ==
  /\ phase = "adopting" /\ ~Busy /\ todo = {}
  /\ phase' = "idle"
  /\ UNCHANGED <<portVars, book, tracker, todo, passVars>>

-----------------------------------------------------------------------------
(* A pass of the reconcile loop.                                           *)

\* Mutant: no early return when the book is not ready.
AlwaysReady == TRUE

BookReady == book # NoBook

\* The pass reads the book once, for both sides.
BeginPass ==
  /\ phase = "idle"
  /\ BookReady
  /\ target' = book
  /\ side' = "buy"
  /\ phase' = "pulling"
  /\ UNCHANGED <<portVars, book, tracker, todo, levels>>

LevelsAt(p) == {i \in DOMAIN target[side] : target[side][i].price = p}

\* Mutant: the drift is measured against the best level of the side.
BestAmount(p) == target[side][1].amount

\* target_map: of several levels at one price the last one counts.
TargetAmount(p) == target[side][Max(LevelsAt(p))].amount

Within(a, b) == 100 * (IF a > b THEN a - b ELSE b - a) <= TolerancePct * b

\* Mutants: drift is ignored; only drift counts.
KeptAtAnyAmount(o) == LevelsAt(o.price) # {}
KeptUnlessDrifted(o) ==
  LevelsAt(o.price) # {} => Within(o.amount, TargetAmount(o.price))

\* Neither unwanted at its price nor drifted.
Kept(o) == LevelsAt(o.price) # {} /\ Within(o.amount, TargetAmount(o.price))

\* _cancel: dropped from the tracker first, then cancelled.
PullStale ==
  /\ phase = "pulling" /\ ~Busy
  /\ \E o \in tracker :
       /\ o.side = side
       /\ ~Kept(o)
       /\ tracker' = Without(tracker, o.side, o.price)
       /\ Begin(Loop, "cancel", o)
  /\ UNCHANGED <<live, late, book, phase, todo, passVars>>

BeginPlacing ==
  /\ phase = "pulling" /\ ~Busy
  /\ \A o \in tracker : o.side = side => Kept(o)
  /\ levels' = target[side]
  /\ phase' = "placing"
  /\ UNCHANGED <<portVars, book, tracker, todo, target, side>>

\* Mutant: a level is placed whether or not it is tracked.
NeverCovered(s, level) == FALSE

Covered(s, level) == Tracked(s, level.price)

PlaceLevel ==
  /\ phase = "placing" /\ ~Busy /\ levels # << >>
  /\ levels' = Tail(levels)
  /\ IF Covered(side, Head(levels))
       THEN UNCHANGED call
       ELSE Begin(Loop, "place",
                  [id |-> NoId, side |-> side, price |-> Head(levels).price,
                   amount |-> Head(levels).amount])
  /\ UNCHANGED <<live, late, book, tracker, phase, todo, target, side>>

LeavePass ==
  /\ phase' = "idle"
  /\ target' = NoBook
  /\ side' = "buy"
  /\ levels' = << >>

EndSide ==
  /\ phase = "placing" /\ ~Busy /\ levels = << >>
  /\ \/ /\ side = "buy"
        /\ side' = "sell"
        /\ phase' = "pulling"
        /\ UNCHANGED <<target, levels>>
     \/ side = "sell" /\ LeavePass
  /\ UNCHANGED <<portVars, book, tracker, todo>>

-----------------------------------------------------------------------------
(* The end of a request.                                                   *)

\* Mutant: the result of place_order is not tested before tracker.add.
PlaceReturnsUntested ==
  /\ \/ \E id \in Made : PlaceReturnsId(Loop, id)
     \/ PlaceReturnsNone(Loop)
  /\ tracker' = Remember(tracker, Await)
  /\ UNCHANGED <<book, phase, todo, passVars>>

PlaceReturns ==
  /\ \/ \E id \in Made :
          /\ PlaceReturnsId(Loop, id)
          /\ tracker' = Remember(tracker, [Await EXCEPT !.id = id])
     \/ /\ PlaceReturnsNone(Loop)
        /\ UNCHANGED tracker
  /\ UNCHANGED <<book, phase, todo, passVars>>

\* cancel_all drops an order from the tracker after the request, whatever
\* its result; _cancel has dropped it before.
CancelReturns ==
  /\ CancelReturnsTrue(Loop) \/ CancelReturnsFalse(Loop)
  /\ tracker' = IF phase = "clearing"
                  THEN Without(tracker, Await.side, Await.price)
                  ELSE tracker
  /\ UNCHANGED <<book, phase, todo, passVars>>

\* adopt_open_orders goes on with the next order, _reconcile_loop gives the
\* pass up, remove_pair gives cancel_all up and drops the engine.
RequestRaises ==
  /\ "error" \in Faults
  /\ Abandon(Loop)
  /\ \/ phase = "adopting" /\ UNCHANGED <<tracker, phase, passVars>>
     \/ phase \in {"pulling", "placing"} /\ LeavePass /\ UNCHANGED tracker
     \/ /\ phase = "clearing"
        /\ phase' = "off"
        /\ tracker' = {}
        /\ UNCHANGED passVars
  /\ UNCHANGED <<book, todo>>

-----------------------------------------------------------------------------
(* The end of the engine.                                                  *)

\* remove_pair stops a running loop and clears the market; shutdown clears it
\* only with cancel_on_shutdown, and otherwise the process just exits.
Endings ==
  {p \in {"clearing", "off"} :
     \/ p = "clearing" /\ (phase \in Active \/ CancelOnShutdown)
     \/ p = "off" /\ ~CancelOnShutdown}

WindDown ==
  /\ phase' \in Endings
  /\ tracker' = IF phase' = "off" THEN {} ELSE tracker
  /\ target' = NoBook
  /\ side' = "buy"
  /\ levels' = << >>
  /\ todo' = {}
  /\ UNCHANGED book

\* While the loop sleeps between two passes.
Stop ==
  /\ phase = "idle"
  /\ WindDown
  /\ UNCHANGED portVars

\* While the coroutine awaits a request: CancelledError at the await.
Interrupt ==
  /\ "interrupt" \in Faults
  /\ \/ phase = "fetching" /\ UNCHANGED portVars
     \/ phase \in {"adopting", "pulling", "placing", "clearing"} /\ Abandon(Loop)
  /\ WindDown

\* Mutant: only one side.
AllBuys == {o \in tracker : o.side = "buy"}

AllOrders == {o \in tracker : o.side \in Side}

\* cancel_all, over a copy of the tracker.
ClearOrder ==
  /\ phase = "clearing" /\ ~Busy
  /\ \E o \in AllOrders : Begin(Loop, "cancel", o)
  /\ UNCHANGED <<live, late, engineVars>>

Cleared ==
  /\ phase = "clearing" /\ ~Busy /\ AllOrders = {}
  /\ phase' = "off"
  /\ tracker' = {}
  /\ UNCHANGED <<portVars, book, todo, passVars>>

\* The tracker is in memory only; the orders stay on my_cex.
Crash ==
  /\ "crash" \in Faults
  /\ phase # "off"
  /\ phase' = "off"
  /\ tracker' = {}
  /\ todo' = {}
  /\ target' = NoBook
  /\ side' = "buy"
  /\ levels' = << >>
  /\ IF Busy THEN Abandon(Loop) ELSE UNCHANGED portVars
  /\ UNCHANGED book

-----------------------------------------------------------------------------
Pass == BeginPass \/ PullStale \/ BeginPlacing \/ PlaceLevel \/ EndSide

Next ==
  \/ BookMoves \/ QuoteFilled \/ ServiceActs \/ AttemptStrays
  \/ Launch \/ FetchOpenOrders \/ AdoptOrder \/ StartLoop
  \/ Pass
  \/ PlaceReturns \/ CancelReturns \/ RequestRaises
  \/ Stop \/ Interrupt \/ ClearOrder \/ Cleared \/ Crash

Spec == Init /\ [][Next]_vars

-----------------------------------------------------------------------------
(* Safety.                                                                 *)

InFlight == IF Busy THEN {Await.id} \cup Made ELSE {}

\* While an engine runs, every order resting on the market is one it tracks,
\* has still to adopt, or is placing or cancelling right now: none is left on
\* the book that no later pass or cancel_all would look at.
NoOrphans ==
  phase \in Active \cup {"adopting", "clearing"} =>
    Ids(live) \subseteq Ids(tracker) \cup Ids(todo) \cup InFlight

\* The market never carries two of our orders at one side and price.
OneQuotePerLevel == \A x, y \in live : Slot(x) = Slot(y) => x = y

\* An order the engine believes to rest does rest with that side and amount,
\* except the one cancel_all is cancelling: a level the tracker covers is
\* covered on the market.
NoPhantoms ==
  \A o \in tracker :
    \/ \E q \in live : q.id = o.id /\ q.side = o.side /\ q.amount = o.amount
    \/ phase = "clearing" /\ o.id \in InFlight

\* Whatever goes wrong, an order the tracker holds was created by the service
\* under that id, and if it still rests it has that side and amount, at a
\* price of that bucket: cancelling by id never hits another quote.
TrackerNamesItsOrders ==
  \A o \in tracker :
    /\ o.id \in OrderId
    /\ \A q \in live : q.id = o.id =>
         /\ q.side = o.side /\ q.amount = o.amount
         /\ o.price \in {q.price, AdoptPrice[q.price]}

\* The tracked orders of a side are quotes of the book the pass has read.
FromTarget(s) ==
  \A o \in tracker : o.side = s =>
    \E i \in DOMAIN target[s] : /\ target[s][i].price = o.price
                                /\ Within(o.amount, target[s][i].amount)

\* A side of a pass that runs to its end, through whatever failures, leaves no
\* tracked order at a price outside the book the pass has read or with an amount
\* beyond the tolerance; when the second side ends that is true of both, so the
\* quotes cross no more than that one book, however far the source has moved
\* while the pass ran.
PassLeavesOnlyTargets ==
  [][EndSide => FromTarget(side) /\ FromTarget("buy")]_vars

\* When cancel_all has gone through the tracker the market is empty.
ClearedMarketIsEmpty == [][Cleared => live = {}]_vars

-----------------------------------------------------------------------------
(* Liveness.                                                               *)

Mirrors(t) ==
  /\ \A s \in Side : \A i \in DOMAIN t[s] :
       \E o \in live : /\ Slot(o) = <<s, t[s][i].price>>
                       /\ Within(o.amount, t[s][i].amount)
  /\ \A o \in live : \E i \in DOMAIN t[o.side] : t[o.side][i].price = o.price

\* refresh_interval elapses, a pass runs on, and every request is answered or
\* times out; the service does not refuse a level for ever.
Fairness ==
  /\ WF_vars(Pass)
  /\ WF_vars(AdoptOrder \/ StartLoop)
  /\ WF_vars(ServiceActs \/ PlaceReturns \/ CancelReturns)
  /\ SF_vars(ServiceActs)

FairSpec == Spec /\ Fairness

\* Once the source book stays what it is and the engine keeps running, the
\* market comes to mirror it and stays so.
Converges ==
  \A t \in Targets :
    <>[](book = t /\ phase \in Active) => <>[]Mirrors(t)

\* ... and sends no more requests: steady levels cost nothing.
Settles ==
  \A t \in Targets :
    <>[](book = t /\ phase \in Active) => <>[]~Busy
=============================================================================
