------------------------- MODULE MirrorEngineProofs -------------------------
(***************************************************************************)
(* Theorems about MirrorEngine, for every set of callers, ids, prices,     *)
(* amounts and source books, and every tolerance and number of retries.    *)
(***************************************************************************)
EXTENDS MirrorEngine, DataLemmas


\* The levels before and after a pass: none.
LEMMA NoLevels == << >> \in Seq(Level)
OBVIOUS

\* place_order and cancel_order are only given orders of the pair.
LEMMA BeginType ==
  ASSUME TypeOK, NEW o \in Order, NEW op \in {"place", "cancel"},
         Begin(Loop, op, o)
  PROVE  call' \in [Caller -> Call]
<1>1. [op |-> op, order |-> o, made |-> {}] \in Call
  BY DEF Call
<1> QED
  BY <1>1 DEF TypeOK, PortTypeOK, Begin

\* What a request in flight looks like.
LEMMA AwaitType ==
  ASSUME TypeOK, Busy
  PROVE  /\ call[Loop] \in [op: {"place", "cancel"}, order: Order,
                            made: SUBSET OrderId]
         /\ Await \in Order
         /\ Made \in SUBSET OrderId
BY EngineAssumption DEF TypeOK, PortTypeOK, Busy, Await, Made, Call

\* The end of a request leaves the port as a request found it.
LEMMA ReturnType ==
  ASSUME TypeOK, Return(Loop)
  PROVE  PortTypeOK'
BY DEF TypeOK, PortTypeOK, Return, Call, NoCall

\* An attempt that is given up is the order of the request.
LEMMA PutOffType ==
  ASSUME TypeOK, Busy, PutOff(Loop)
  PROVE  late' \in [Late -> Order \cup {NoOrder}]
BY AwaitType DEF PutOff, TypeOK, PortTypeOK, Await

\* So does the cancellation of the coroutine that awaits it.
LEMMA AbandonType ==
  ASSUME TypeOK, Abandon(Loop)
  PROVE  PortTypeOK'
<1>1. Busy
  BY DEF Abandon, Busy
<1>2. late' \in [Late -> Order \cup {NoOrder}]
  BY <1>1, PutOffType DEF Abandon, TypeOK, PortTypeOK
<1> QED
  BY <1>2 DEF Abandon, TypeOK, PortTypeOK, Call, NoCall

\* What the service creates and deletes are orders of the pair.
LEMMA ServedType ==
  ASSUME TypeOK, ServiceActs
  PROVE  PortTypeOK'
<1>1. CASE \E id \in FreshIds : PlaceServed(Loop, id)
  <2>1. PICK id \in FreshIds : PlaceServed(Loop, id)
    BY <1>1
  <2>2. call[Loop].op = "place" /\ id \in OrderId
    BY <2>1 DEF PlaceServed
  <2>3. Busy
    BY <2>2 DEF Busy, NoCall
  <2>4. call[Loop] \in [op: {"place", "cancel"}, order: Order, made: SUBSET OrderId]
    BY <2>3, AwaitType
  <2>5. [call[Loop].order EXCEPT !.id = id] \in Order
    BY <2>2, <2>4 DEF Order
  <2>6. [call[Loop] EXCEPT !.made = @ \cup {id}] \in Call
    BY <2>2, <2>4 DEF Call
  <2> QED
    BY <2>1, <2>5, <2>6 DEF PlaceServed, Created, TypeOK, PortTypeOK
<1>2. CASE CancelServed(Loop)
  BY <1>2 DEF CancelServed, Deleted, TypeOK, PortTypeOK
<1> QED
  BY <1>1, <1>2 DEF ServiceActs

\* ... also when it carries an attempt out late.
LEMMA StrayType ==
  ASSUME TypeOK, AttemptStrays
  PROVE  PortTypeOK'
<1>1. CASE Lag(Loop)
  <2>1. late' \in [Late -> Order \cup {NoOrder}]
    BY <1>1, PutOffType DEF Lag, Busy
  <2> QED
    BY <1>1, <2>1 DEF Lag, TypeOK, PortTypeOK
<1>2. ASSUME NEW k \in Late, NEW id \in FreshIds, LateServed(k, id)
      PROVE  PortTypeOK'
  <2>1. late[k] \in Order
    BY <1>2 DEF LateServed, TypeOK, PortTypeOK
  <2>2. live' \in SUBSET Order
    BY <1>2, <2>1 DEF LateServed, Created, Deleted, Order, TypeOK, PortTypeOK
  <2> QED
    BY <1>2, <2>2 DEF LateServed, TypeOK, PortTypeOK
<1> QED
  BY <1>1, <1>2 DEF AttemptStrays

\* OrderTracker.add keeps the tracker a set of orders.
LEMMA RememberType ==
  ASSUME NEW orders \in SUBSET Order, NEW o \in Order
  PROVE  Remember(orders, o) \in SUBSET Order
BY DEF Remember, Without

\* OrderTracker.remove keeps the tracker a set of orders.
LEMMA WithoutType ==
  ASSUME NEW orders \in SUBSET Order, NEW s, NEW p
  PROVE  Without(orders, s, p) \in SUBSET Order
BY DEF Without

\* A process starts with a well-typed engine.
LEMMA InitType == Init => TypeOK
<1> SUFFICES ASSUME Init PROVE TypeOK
  OBVIOUS
<1>1. PortTypeOK
  BY PortAssumption DEF Init, PortInit, Call, PortTypeOK
<1> QED
  BY <1>1, NoLevels DEF Init, TypeOK, PortInit, Phase, Side

\* What the passes of the reconcile loop keep.
LEMMA PassType ==
  ASSUME TypeOK, Pass
  PROVE  TypeOK'
<1> USE DEF TypeOK, PortTypeOK, Phase, Side, portVars
<1>1. CASE BeginPass
  BY <1>1 DEF BeginPass, BookReady
<1>2. CASE PullStale
  <2>1. PICK o \in tracker : /\ tracker' = Without(tracker, o.side, o.price)
                             /\ Begin(Loop, "cancel", o)
    BY <1>2 DEF PullStale
  <2>2. tracker' \in SUBSET Order
    BY <2>1, WithoutType
  <2>3. call' \in [Caller -> Call]
    BY <2>1, BeginType
  <2> QED
    BY <1>2, <2>2, <2>3 DEF PullStale, passVars
<1>3. CASE BeginPlacing
  <2>1. target[side] \in Seq(Level)
    BY <1>3, EngineAssumption DEF BeginPlacing
  <2> QED
    BY <1>3, <2>1 DEF BeginPlacing
<1>4. CASE PlaceLevel
  <2>1. Head(levels) \in Level /\ Tail(levels) \in Seq(Level)
    BY <1>4 DEF PlaceLevel
  <2>2. [id |-> NoId, side |-> side, price |-> Head(levels).price,
         amount |-> Head(levels).amount] \in Order
    BY <2>1 DEF Order, Level
  <2>3. call' \in [Caller -> Call]
    BY <1>4, <2>2, BeginType DEF PlaceLevel
  <2> QED
    BY <1>4, <2>1, <2>3 DEF PlaceLevel
<1>5. CASE EndSide
  BY <1>5 DEF EndSide, LeavePass
<1> QED
  BY <1>1, <1>2, <1>3, <1>4, <1>5 DEF Pass

\* adopt_open_orders registers and cancels orders of the pair.
LEMMA AdoptType ==
  ASSUME TypeOK, AdoptOrder
  PROVE  TypeOK'
<1>1. PICK o \in todo :
        LET p == AdoptPrice[o.price]
            mine == [o EXCEPT !.price = p]
        IN  /\ todo' = todo \ {o}
            /\ \/ /\ p = NoPrice
                  /\ UNCHANGED <<tracker, call>>
               \/ /\ p # NoPrice /\ ~Tracked(o.side, p)
                  /\ tracker' = Remember(tracker, mine)
                  /\ UNCHANGED call
               \/ /\ p # NoPrice /\ Tracked(o.side, p)
                  /\ tracker' = Without(tracker, o.side, p)
                  /\ Begin(Loop, "cancel", mine)
  BY DEF AdoptOrder
<1> DEFINE p == AdoptPrice[o.price]
           mine == [o EXCEPT !.price = p]
<1>2. o \in Order
  BY DEF TypeOK
<1>3. p \in Price \cup {NoPrice}
  BY <1>2, EngineAssumption DEF Order
<1>4. p # NoPrice => mine \in Order
  BY <1>2, <1>3 DEF Order
<1>5. tracker' \in SUBSET Order /\ call' \in [Caller -> Call]
  <2>1. CASE p = NoPrice /\ UNCHANGED <<tracker, call>>
    BY <2>1 DEF TypeOK, PortTypeOK
  <2>2. CASE p # NoPrice /\ tracker' = Remember(tracker, mine) /\ UNCHANGED call
    BY <2>2, <1>4, RememberType DEF TypeOK, PortTypeOK
  <2>3. CASE /\ p # NoPrice /\ tracker' = Without(tracker, o.side, p)
             /\ Begin(Loop, "cancel", mine)
    BY <2>3, <1>4, WithoutType, BeginType DEF TypeOK, PortTypeOK
  <2> QED
    BY <1>1, <2>1, <2>2, <2>3
<1> QED
  BY <1>1, <1>5 DEF AdoptOrder, TypeOK, PortTypeOK, passVars

\* Every step keeps the types: one case per action.
LEMMA NextType ==
  ASSUME TypeOK, [Next]_vars
  PROVE  TypeOK'
<1> USE DEF Phase, Side, portVars
<1>1. CASE BookMoves
  BY <1>1 DEF BookMoves, passVars, TypeOK, PortTypeOK
<1>2. CASE QuoteFilled
  BY <1>2 DEF QuoteFilled, Fill, engineVars, TypeOK, PortTypeOK
<1>3. CASE ServiceActs
  BY <1>3, ServedType DEF ServiceActs, engineVars, TypeOK
<1>4. CASE AttemptStrays
  BY <1>4, StrayType DEF AttemptStrays, engineVars, TypeOK
<1>5. CASE Launch
  BY <1>5 DEF Launch, passVars, TypeOK, PortTypeOK
<1>6. CASE FetchOpenOrders
  BY <1>6 DEF FetchOpenOrders, passVars, TypeOK, PortTypeOK
<1>7. CASE AdoptOrder
  BY <1>7, AdoptType
<1>8. CASE StartLoop
  BY <1>8 DEF StartLoop, passVars, TypeOK, PortTypeOK
<1>9. CASE Pass
  BY <1>9, PassType
<1>10. CASE PlaceReturns
  <2>1. CASE \E id \in Made :
                  /\ PlaceReturnsId(Loop, id)
                  /\ tracker' = Remember(tracker, [Await EXCEPT !.id = id])
    <3>1. PICK id \in Made :
            /\ PlaceReturnsId(Loop, id)
            /\ tracker' = Remember(tracker, [Await EXCEPT !.id = id])
      BY <2>1
    <3>2. Busy
      BY <3>1 DEF PlaceReturnsId, Busy, NoCall
    <3>3. [Await EXCEPT !.id = id] \in Order
      BY <3>1, <3>2, AwaitType DEF Order
    <3>4. tracker' \in SUBSET Order
      BY <3>1, <3>3, RememberType DEF TypeOK
    <3> QED
      BY <1>10, <3>1, <3>4, ReturnType
      DEF PlaceReturns, PlaceReturnsId, passVars, TypeOK
  <2>2. CASE PlaceReturnsNone(Loop) /\ UNCHANGED tracker
    BY <1>10, <2>2, ReturnType DEF PlaceReturns, PlaceReturnsNone, passVars, TypeOK
  <2> QED
    BY <1>10, <2>1, <2>2 DEF PlaceReturns
<1>11. CASE CancelReturns
  <2>1. PortTypeOK'
    BY <1>11, ReturnType
    DEF CancelReturns, CancelReturnsTrue, CancelReturnsFalse
  <2>2. tracker' \in SUBSET Order
    BY <1>11, WithoutType DEF CancelReturns, TypeOK
  <2> QED
    BY <1>11, <2>1, <2>2 DEF CancelReturns, passVars, TypeOK
<1>12. CASE RequestRaises
  BY <1>12, AbandonType, NoLevels
  DEF RequestRaises, LeavePass, passVars, TypeOK
<1>13. CASE Stop
  BY <1>13, NoLevels DEF Stop, WindDown, Endings, TypeOK, PortTypeOK
<1>14. CASE Interrupt
  BY <1>14, AbandonType, NoLevels
  DEF Interrupt, WindDown, Endings, TypeOK, PortTypeOK
<1>15. CASE ClearOrder
  <2>1. PICK o \in tracker : Begin(Loop, "cancel", o)
    BY <1>15 DEF ClearOrder, AllOrders
  <2>2. call' \in [Caller -> Call]
    BY <2>1, BeginType DEF TypeOK
  <2> QED
    BY <1>15, <2>2 DEF ClearOrder, engineVars, TypeOK, PortTypeOK
<1>16. CASE Cleared
  BY <1>16 DEF Cleared, passVars, TypeOK, PortTypeOK
<1>17. CASE Crash
  BY <1>17, AbandonType, NoLevels DEF Crash, TypeOK, PortTypeOK
<1>18. CASE UNCHANGED vars
  BY <1>18 DEF vars, engineVars, TypeOK, PortTypeOK
<1> QED
  BY <1>1, <1>2, <1>3, <1>4, <1>5, <1>6, <1>7, <1>8, <1>9, <1>10, <1>11, <1>12, <1>13,
     <1>14, <1>15, <1>16, <1>17, <1>18 DEF Next

(***************************************************************************)
(* Every state a run reaches is well formed: a pass only ever works on a   *)
(* source book that was ready, and what reconcile, adopt_open_orders and   *)
(* cancel_all hand to the client and put into the tracker are orders of    *)
(* this pair.                                                              *)
(***************************************************************************)
THEOREM TypeCorrect == Spec => []TypeOK
<1>1. TypeOK /\ [Next]_vars => TypeOK'
  BY NextType
<1> QED
  BY InitType, <1>1, PTL DEF Spec

-----------------------------------------------------------------------------
(***************************************************************************)
(* What has to hold for the engine to know every order it has on the book: *)
(* no answer of the order service is lost and no attempt outlives its      *)
(* call, the service refuses no cancel, no coroutine is cut off inside a   *)
(* request, and a start adopts what an earlier process left behind, one    *)
(* order per level and on the same tick.                                   *)
(* Orders may still fill and be rejected, and the process may crash.       *)
(***************************************************************************)
Lossless ==
  /\ Faults \cap {"lost", "refuse", "interrupt", "error", "blind"} = {}
  /\ Late = {}
  /\ AdoptOnStartup
  /\ \A p \in Price : AdoptPrice[p] = p
  /\ \A x, y \in LeftBehind : Slot(x) = Slot(y) => x = y

OneEach(orders) == \A x, y \in orders : Slot(x) = Slot(y) => x = y

\* Where the engine is in a request, and what the request is.
Request ==
  /\ phase \in {"off", "fetching", "adopting", "idle"} => ~Busy
  /\ Busy => /\ phase \in {"pulling", "clearing"} =>
                  call[Loop].op = "cancel" /\ Made = {}
             /\ phase = "clearing" => Await \in tracker
             /\ phase = "placing" =>
                  /\ call[Loop].op = "place"
                  /\ ~Tracked(Await.side, Await.price)
                  /\ Await.id = NoId
                  /\ \A i, j \in Made : i = j

\* The orders of a start are in the tracker or still to be looked at.
Adoption ==
  /\ phase = "fetching" => tracker = {}
  /\ phase # "adopting" => todo = {}
  /\ OneEach(tracker \cup todo)
  /\ tracker \cap todo = {}

\* Order by order, what rests is tracked, to be adopted, or in flight.
Known ==
  phase \notin {"off", "fetching"} =>
    live \subseteq tracker \cup todo \cup
      IF Busy THEN {Await} \cup {[Await EXCEPT !.id = i] : i \in Made} ELSE {}

LiveIds == \A o \in live : o.id # NoId

QuoteInv == Request /\ Adoption /\ Known /\ LiveIds /\ OneQuotePerLevel

\* A market with one order per level satisfies the invariant at the start.
LEMMA InitQuote ==
  ASSUME Lossless, Init
  PROVE  QuoteInv
<1>1. ~Busy
  BY EngineAssumption DEF Init, PortInit, Busy
<1>2. LiveIds
  BY PortAssumption DEF Init, PortInit, LiveIds
<1> QED
  BY <1>1, <1>2 DEF Lossless, Init, PortInit, QuoteInv, Request, Adoption, Known,
     OneQuotePerLevel, OneEach

\* The service creates an order only at a level that carries none of ours.
LEMMA ServedQuote ==
  ASSUME Lossless, TypeOK, QuoteInv, ServiceActs
  PROVE  QuoteInv'
<1> USE DEF QuoteInv, portVars
<1>1. CASE \E id \in FreshIds : PlaceServed(Loop, id)
  <2>1. PICK id \in FreshIds : PlaceServed(Loop, id)
    BY <1>1
  <2> DEFINE o == [Await EXCEPT !.id = id]
  <2>2. Busy /\ call[Loop].op = "place"
    BY <2>1 DEF PlaceServed, Busy, NoCall
  <2>3. phase = "placing" /\ todo = {}
    BY <2>2 DEF Request, Adoption, TypeOK, Phase
  <2>4. Made = {}
    BY <2>1 DEF PlaceServed, Made, Lossless
  <2>5. Await.id = NoId /\ ~Tracked(Await.side, Await.price)
    BY <2>2, <2>3 DEF Request
  <2>6. live \subseteq tracker
    BY <2>2, <2>3, <2>4, <2>5 DEF Known, LiveIds
  <2>7. live' = live \cup {o} /\ call' = [call EXCEPT ![Loop].made = @ \cup {id}]
    BY <2>1 DEF PlaceServed, Created, Await
  <2>8. /\ Busy' /\ Await' = Await /\ Made' = {id}
        /\ call'[Loop].op = "place"
    BY <2>2, <2>4, <2>7, EngineAssumption, AwaitType
    DEF Busy, Await, Made, NoCall, TypeOK, PortTypeOK
  <2>9. o.side = Await.side /\ o.price = Await.price /\ o.id = id /\ id # NoId
    BY <2>1, <2>2, AwaitType, PortAssumption DEF PlaceServed, Order
  <2>10. UNCHANGED <<tracker, phase, todo>>
    BY DEF ServiceActs, engineVars
  <2>11. Request'
    BY <2>3, <2>5, <2>8, <2>10 DEF Request, Tracked
  <2>12. Adoption'
    BY <2>10 DEF Adoption, OneEach
  <2>13. Known'
    BY <2>6, <2>7, <2>8, <2>10 DEF Known
  <2>14. LiveIds'
    BY <2>7, <2>9 DEF LiveIds
  <2>15. OneQuotePerLevel'
    <3>1. Slot(o) = <<Await.side, Await.price>>
      BY <2>9 DEF Slot
    <3>2. \A x \in live : Slot(x) # Slot(o)
      BY <2>5, <2>6, <3>1 DEF Tracked
    <3> HIDE DEF o
    <3> QED
      BY <2>7, <3>2 DEF OneQuotePerLevel
  <2> QED
    BY <2>11, <2>12, <2>13, <2>14, <2>15
<1>2. CASE CancelServed(Loop)
  BY <1>2 DEF ServiceActs, CancelServed, Deleted, engineVars, Request, Adoption, Known,
     LiveIds, OneQuotePerLevel, OneEach, Busy, Await, Made, Tracked
<1> QED
  BY <1>1, <1>2 DEF ServiceActs

\* One order per level is adopted as it is: no bucket is taken twice.
LEMMA AdoptQuote ==
  ASSUME Lossless, TypeOK, QuoteInv, AdoptOrder
  PROVE  QuoteInv'
<1> USE DEF QuoteInv, portVars
<1>1. PICK o \in todo :
        LET p == AdoptPrice[o.price]
            mine == [o EXCEPT !.price = p]
        IN  /\ todo' = todo \ {o}
            /\ \/ /\ p = NoPrice
                  /\ UNCHANGED <<tracker, call>>
               \/ /\ p # NoPrice /\ ~Tracked(o.side, p)
                  /\ tracker' = Remember(tracker, mine)
                  /\ UNCHANGED call
               \/ /\ p # NoPrice /\ Tracked(o.side, p)
                  /\ tracker' = Without(tracker, o.side, p)
                  /\ Begin(Loop, "cancel", mine)
  BY DEF AdoptOrder
<1>2. o \in Order /\ phase = "adopting" /\ ~Busy
  BY DEF TypeOK, AdoptOrder
<1>3. AdoptPrice[o.price] = o.price /\ o.price # NoPrice
  BY <1>2, EngineAssumption DEF Lossless, Order
<1>4. [o EXCEPT !.price = AdoptPrice[o.price]] = o
  BY <1>2, <1>3 DEF Order
<1>5. ~Tracked(o.side, o.price)
  BY <1>1 DEF Adoption, OneEach, Tracked, Slot
<1>6. todo' = todo \ {o} /\ tracker' = Remember(tracker, o) /\ UNCHANGED call
  BY <1>1, <1>3, <1>4, <1>5
<1>7. tracker' = tracker \cup {o}
  BY <1>5, <1>6 DEF Remember, Without, Tracked
<1>8. UNCHANGED <<live, phase>>
  BY DEF AdoptOrder
<1>9. Adoption' /\ Known'
  BY <1>1, <1>2, <1>6, <1>7, <1>8 DEF Adoption, OneEach, Known, Busy
<1> QED
  BY <1>2, <1>6, <1>8, <1>9 DEF Request, LiveIds, OneQuotePerLevel, Busy

\* reconcile asks for an order only at a level without one.
LEMMA PassQuote ==
  ASSUME Lossless, TypeOK, QuoteInv, Pass
  PROVE  QuoteInv'
<1> USE DEF QuoteInv, portVars
<1>1. CASE BeginPass
  BY <1>1 DEF BeginPass, Request, Adoption, Known, LiveIds, OneQuotePerLevel,
     OneEach, Busy, Await, Made
<1>2. CASE PullStale
  <2>1. PICK o \in tracker : /\ tracker' = Without(tracker, o.side, o.price)
                             /\ Begin(Loop, "cancel", o)
    BY <1>2 DEF PullStale
  <2>2. phase = "pulling" /\ todo = {} /\ ~Busy
        /\ UNCHANGED <<live, phase, todo>>
    BY <1>2 DEF PullStale, Adoption
  <2>3. tracker' = tracker \ {o}
    BY <2>1, <2>2 DEF Without, Adoption, OneEach, Slot
  <2>4. call'[Loop] = [op |-> "cancel", order |-> o, made |-> {}]
    BY <2>1, EngineAssumption DEF Begin, TypeOK, PortTypeOK
  <2>5. Busy' /\ Await' = o /\ Made' = {}
    BY <2>4 DEF Busy, Await, Made, NoCall
  <2> QED
    BY <2>2, <2>3, <2>4, <2>5 DEF Request, Adoption, Known, LiveIds,
       OneQuotePerLevel, OneEach
<1>3. CASE BeginPlacing
  BY <1>3 DEF BeginPlacing, Request, Adoption, Known, LiveIds,
     OneQuotePerLevel, OneEach, Busy, Await, Made
<1>4. CASE PlaceLevel
  <2>1. phase = "placing" /\ todo = {} /\ ~Busy
        /\ UNCHANGED <<live, phase, todo, tracker>>
    BY <1>4 DEF PlaceLevel, Adoption
  <2>2. CASE UNCHANGED call
    BY <2>1, <2>2 DEF Request, Adoption, Known, LiveIds, OneQuotePerLevel,
       OneEach, Busy, Await, Made
  <2>3. CASE call' # call
    <3> DEFINE o == [id |-> NoId, side |-> side, price |-> Head(levels).price,
                     amount |-> Head(levels).amount]
    <3>1. ~Tracked(o.side, o.price) /\ Begin(Loop, "place", o)
      BY <1>4, <2>3 DEF PlaceLevel, Covered
    <3>2. call'[Loop] = [op |-> "place", order |-> o, made |-> {}]
      BY <3>1, EngineAssumption DEF Begin, TypeOK, PortTypeOK
    <3>3. Busy' /\ Await' = o /\ Made' = {}
      BY <3>2 DEF Busy, Await, Made, NoCall
    <3>4. Request'
      BY <2>1, <3>1, <3>2, <3>3 DEF Request, Tracked
    <3> QED
      BY <2>1, <3>3, <3>4 DEF Adoption, Known, LiveIds, OneQuotePerLevel, OneEach
  <2> QED
    BY <2>2, <2>3
<1>5. CASE EndSide
  BY <1>5 DEF EndSide, LeavePass, Request, Adoption, Known, LiveIds,
     OneQuotePerLevel, OneEach, Busy, Await, Made
<1> QED
  BY <1>1, <1>2, <1>3, <1>4, <1>5 DEF Pass

\* After a request the engine awaits nothing and no order has moved.
LEMMA ReturnClears ==
  ASSUME TypeOK, Return(Loop)
  PROVE  ~Busy' /\ UNCHANGED live
BY EngineAssumption DEF Return, Busy, TypeOK, PortTypeOK

\* place_order has returned, with an id or with None.
LEMMA PlaceEnds ==
  ASSUME PlaceReturns
  PROVE  Return(Loop) /\ Busy /\ call[Loop].op = "place"
<1>1. Return(Loop) /\ call[Loop].op = "place"
  BY DEF PlaceReturns, PlaceReturnsId, PlaceReturnsNone
<1> QED
  BY <1>1 DEF Busy, NoCall

\* An order that was placed goes into the tracker with the id it has.
LEMMA PlacedQuote ==
  ASSUME Lossless, TypeOK, QuoteInv, PlaceReturns
  PROVE  QuoteInv'
<1> USE DEF QuoteInv, portVars
<1>1. Return(Loop) /\ Busy /\ call[Loop].op = "place"
  BY PlaceEnds
<1>2. ~Busy' /\ UNCHANGED <<live, phase, todo>>
  BY <1>1, ReturnClears DEF PlaceReturns
<1>3. phase = "placing" /\ todo = {} /\ ~Tracked(Await.side, Await.price)
  BY <1>1 DEF Request, Adoption, TypeOK, Phase
<1>4. ASSUME NEW id \in Made, PlaceReturnsId(Loop, id),
             tracker' = Remember(tracker, [Await EXCEPT !.id = id])
      PROVE  QuoteInv'
  <2> DEFINE o == [Await EXCEPT !.id = id]
  <2>1. Slot(o) = <<Await.side, Await.price>> /\ o \in Order /\ Made = {id}
    BY <1>1, <1>3, <1>4, AwaitType DEF Slot, Order, Request
  <2>2. tracker' = tracker \cup {o}
    BY <1>3, <1>4, <2>1 DEF Remember, Without, Tracked, Slot
  <2>3. live \subseteq tracker \cup {o}
    BY <1>1, <1>3, <2>1 DEF Known, LiveIds, Request
  <2> HIDE DEF o
  <2>4. Adoption'
    BY <1>2, <1>3, <2>1, <2>2 DEF Adoption, OneEach, Tracked
  <2> QED
    BY <1>2, <1>3, <2>2, <2>3, <2>4 DEF Request, Known, LiveIds, OneQuotePerLevel
<1>5. CASE PlaceReturnsNone(Loop) /\ UNCHANGED tracker
  <2>1. Made = {}
    BY <1>5 DEF PlaceReturnsNone, Made, Lossless
  <2>2. Await.id = NoId
    BY <1>1, <1>3, <2>1 DEF Request
  <2>3. live \subseteq tracker
    BY <1>1, <1>3, <2>1, <2>2 DEF Known, LiveIds
  <2> QED
    BY <1>2, <1>3, <1>5, <2>3 DEF Request, Adoption, Known, LiveIds,
       OneQuotePerLevel, OneEach
<1> QED
  BY <1>4, <1>5 DEF PlaceReturns

\* A cancel that returns without loss has taken the order off the market.
LEMMA CancelledQuote ==
  ASSUME Lossless, TypeOK, QuoteInv, CancelReturns
  PROVE  QuoteInv'
<1> USE DEF QuoteInv, portVars
<1>1. Return(Loop) /\ Busy /\ call[Loop].op = "cancel"
  BY DEF CancelReturns, CancelReturnsTrue, CancelReturnsFalse, Busy, NoCall
<1>2. ~Busy' /\ UNCHANGED <<live, phase, todo>>
  BY <1>1, ReturnClears DEF CancelReturns
<1>3. Await \notin live
  BY DEF CancelReturns, CancelReturnsTrue, CancelReturnsFalse, Lossless, Await, Ids
<1>4. phase \in {"pulling", "clearing"} /\ todo = {}
  BY <1>1 DEF Request, Adoption, TypeOK, Phase
<1>5. tracker' \subseteq tracker /\ tracker \subseteq tracker' \cup {Await}
  BY <1>1 DEF CancelReturns, Without, Request, Adoption, OneEach, Slot
<1>6. Known'
  <2>1. live \subseteq tracker \cup {Await}
    BY <1>1, <1>4 DEF Known, Request
  <2> QED
    BY <1>2, <1>3, <1>4, <1>5, <2>1 DEF Known
<1> QED
  BY <1>2, <1>4, <1>5, <1>6 DEF Request, Adoption, LiveIds, OneQuotePerLevel,
     OneEach

\* Every step keeps the invariant: one case per action.
LEMMA NextQuote ==
  ASSUME Lossless, TypeOK, QuoteInv, [Next]_vars
  PROVE  QuoteInv'
<1> USE DEF QuoteInv, portVars
<1>1. CASE BookMoves
  BY <1>1 DEF BookMoves, passVars, Request, Adoption, Known, LiveIds,
     OneQuotePerLevel, OneEach, Busy, Await, Made, Tracked
<1>2. CASE QuoteFilled
  BY <1>2 DEF QuoteFilled, Fill, engineVars, Request, Adoption, Known, LiveIds,
     OneQuotePerLevel, OneEach, Busy, Await, Made, Tracked
<1>3. CASE ServiceActs
  BY <1>3, ServedQuote
<1>4. CASE AttemptStrays
  BY <1>4 DEF AttemptStrays, Lag, PutOff, LateServed, Lossless
<1>5. CASE Launch
  BY <1>5 DEF Launch, Lossless, Request, Adoption, Known, LiveIds,
     OneQuotePerLevel, OneEach, Busy, Await, Made
<1>6. CASE FetchOpenOrders
  BY <1>6 DEF FetchOpenOrders, Lossless, Request, Adoption, Known, LiveIds,
     OneQuotePerLevel, OneEach, Busy, Await, Made
<1>7. CASE AdoptOrder
  BY <1>7, AdoptQuote
<1>8. CASE StartLoop
  BY <1>8 DEF StartLoop, Request, Adoption, Known, LiveIds, OneQuotePerLevel,
     OneEach, Busy, Await, Made
<1>9. CASE Pass
  BY <1>9, PassQuote
<1>10. CASE PlaceReturns
  BY <1>10, PlacedQuote
<1>11. CASE CancelReturns
  BY <1>11, CancelledQuote
<1>12. CASE RequestRaises \/ Interrupt
  BY <1>12 DEF RequestRaises, Interrupt, Lossless
<1>13. CASE Stop
  BY <1>13 DEF Stop, WindDown, Endings, Request, Adoption, Known, LiveIds,
     OneQuotePerLevel, OneEach, Busy, Await, Made
<1>14. CASE ClearOrder
  <2>1. PICK o \in tracker : Begin(Loop, "cancel", o)
    BY <1>14 DEF ClearOrder, AllOrders
  <2>2. call'[Loop] = [op |-> "cancel", order |-> o, made |-> {}]
    BY <2>1, EngineAssumption DEF Begin, TypeOK, PortTypeOK
  <2>3. Busy' /\ Await' = o /\ Made' = {}
    BY <2>2 DEF Busy, Await, Made, NoCall
  <2> QED
    BY <1>14, <2>1, <2>2, <2>3 DEF ClearOrder, engineVars, Request, Adoption,
       Known, LiveIds, OneQuotePerLevel, OneEach
<1>15. CASE Cleared
  BY <1>15 DEF Cleared, Request, Adoption, Known, LiveIds, OneQuotePerLevel,
     OneEach, Busy
<1>16. CASE Crash
  <2>1. ~Busy'
    BY <1>16, EngineAssumption DEF Crash, Abandon, Busy, TypeOK, PortTypeOK
  <2> QED
    BY <1>16, <2>1 DEF Crash, Abandon, Request, Adoption, Known, LiveIds,
       OneQuotePerLevel, OneEach
<1>17. CASE UNCHANGED vars
  BY <1>17 DEF vars, engineVars, Request, Adoption, Known, LiveIds,
     OneQuotePerLevel, OneEach, Busy, Await, Made, Tracked
<1> QED
  BY <1>1, <1>2, <1>3, <1>4, <1>5, <1>6, <1>7, <1>8, <1>9, <1>10, <1>11, <1>12,
     <1>13, <1>14, <1>15, <1>16, <1>17 DEF Next

\* QuoteInv is an invariant: what the engine believes of its orders and what
\* the service has of them differ by no more than the request in flight.
THEOREM QuotesInvariant ==
  ASSUME Lossless
  PROVE  Spec => [](TypeOK /\ QuoteInv)
<1>1. Init => TypeOK /\ QuoteInv
  BY InitType, InitQuote
<1>2. TypeOK /\ QuoteInv /\ [Next]_vars => (TypeOK /\ QuoteInv)'
  BY NextType, NextQuote
<1> QED
  BY <1>1, <1>2, PTL DEF Spec

(***************************************************************************)
(* adopt_open_orders, reconcile and cancel_all never lose an order, not    *)
(* even when the process dies in the middle of one of them and starts      *)
(* again: with Lossless, what rests on my_cex while an engine runs is in   *)
(* its tracker, waits to be adopted, or is the order of the request it     *)
(* awaits.  So the optimistic _cancel and the in-memory tracker leave      *)
(* orphans only through the faults Lossless names.                         *)
(***************************************************************************)
THEOREM NoOrphansCorrect ==
  ASSUME Lossless
  PROVE  Spec => []NoOrphans
<1>1. ASSUME TypeOK, QuoteInv, NEW o \in live, phase \notin {"off", "fetching"}
      PROVE  o.id \in Ids(tracker) \cup Ids(todo) \cup InFlight
  <2>1. CASE o \in tracker \cup todo \cup IF Busy THEN {Await} ELSE {}
    BY <2>1 DEF Ids, InFlight
  <2>2. CASE Busy /\ \E i \in Made : o = [Await EXCEPT !.id = i]
    BY <2>2, AwaitType DEF InFlight, Order
  <2> QED
    BY <1>1, <2>1, <2>2 DEF QuoteInv, Known
<1>2. TypeOK /\ QuoteInv => NoOrphans
  BY <1>1 DEF NoOrphans, Ids, Active, TypeOK, Phase
<1> QED
  BY <1>2, QuotesInvariant, PTL

(***************************************************************************)
(* With Lossless, _reconcile_side never puts a second order of the pair on *)
(* a side and price that still carries one, whatever becomes of the book,  *)
(* the fills and the process meanwhile.                                    *)
(***************************************************************************)
THEOREM OneQuotePerLevelCorrect ==
  ASSUME Lossless
  PROVE  Spec => []OneQuotePerLevel
<1>1. TypeOK /\ QuoteInv => OneQuotePerLevel
  BY DEF QuoteInv
<1> QED
  BY <1>1, QuotesInvariant, PTL

-----------------------------------------------------------------------------
(* A pass under every fault.                                               *)

\* A quote of the book the pass has read, but for the tolerance.
Wanted(p, a) ==
  \E i \in DOMAIN target[side] : /\ target[side][i].price = p
                                /\ Within(a, target[side][i].amount)

\* From the moment its stale orders are gone, a side holds and places only
\* quotes of the book the pass has read.
PassInv ==
  phase = "placing" =>
    /\ \A o \in tracker : o.side = side => Wanted(o.price, o.amount)
    /\ \A i \in DOMAIN levels : Wanted(levels[i].price, levels[i].amount)
    /\ Busy => call[Loop].op = "place" /\ Await.side = side /\ Wanted(Await.price, Await.amount)

LEMMA SameAmount == \A a \in Amount : Within(a, a)
  BY EngineAssumption DEF Within

\* The passes of reconcile keep it.
LEMMA PassesInv ==
  ASSUME TypeOK, PassInv, Pass
  PROVE  PassInv'
<1> USE DEF portVars
<1>1. CASE BeginPass \/ PullStale \/ EndSide
  BY <1>1 DEF BeginPass, PullStale, EndSide, LeavePass, passVars, PassInv
<1>2. CASE BeginPlacing
  <2>2. target[side] \in Seq(Level)
    BY <1>2, EngineAssumption DEF BeginPlacing, TypeOK
  <2>1. \A o \in tracker : o.side = side => Wanted(o.price, o.amount)
    <3> SUFFICES ASSUME NEW o \in tracker, o.side = side
                 PROVE  Wanted(o.price, o.amount)
      OBVIOUS
    <3>1. Kept(o)
      BY <1>2 DEF BeginPlacing
    <3>2. LevelsAt(o.price) \in SUBSET (1 .. Len(target[side]))
      BY <2>2 DEF LevelsAt
    <3>3. Len(target[side]) \in Nat
      BY <2>2
    <3>4. Max(LevelsAt(o.price)) \in LevelsAt(o.price)
      BY <3>1, <3>2, <3>3, Greatest DEF Kept
    <3> QED
      BY <3>1, <3>4 DEF Kept, TargetAmount, Wanted, LevelsAt
  <2>3. \A i \in DOMAIN target[side] : Wanted(target[side][i].price, target[side][i].amount)
    <3>1. \A i \in DOMAIN target[side] : target[side][i].amount \in Amount
      <4>1. \A i \in DOMAIN target[side] : target[side][i] \in Level
        BY <2>2
      <4> QED
        BY <4>1 DEF Level
    <3> QED
      BY <3>1, SameAmount DEF Wanted
  <2> QED
    BY <1>2, <2>1, <2>3 DEF BeginPlacing, PassInv, Wanted, Busy
<1>3. CASE PlaceLevel
  <2>1. levels # << >> /\ levels \in Seq(Level) /\ levels' = Tail(levels)
        /\ phase = "placing" /\ UNCHANGED <<tracker, phase, target, side>>
    BY <1>3 DEF PlaceLevel, TypeOK
  <2>2. \A p, a : Wanted(p, a)' <=> Wanted(p, a)
    BY <2>1 DEF Wanted
  <2>3. \A i \in DOMAIN Tail(levels) :
          i + 1 \in DOMAIN levels /\ Tail(levels)[i] = levels[i + 1]
    BY <2>1
  <2>4. \A i \in DOMAIN levels' : Wanted(levels'[i].price, levels'[i].amount)
    BY <2>1, <2>3 DEF PassInv
  <2>5. 1 \in DOMAIN levels /\ Head(levels) = levels[1]
    BY <2>1
  <2>6. Busy' => /\ call'[Loop].op = "place" /\ Await'.side = side
                 /\ Wanted(Await'.price, Await'.amount)
    <3>1. Wanted(Head(levels).price, Head(levels).amount)
      BY <2>1, <2>5 DEF PassInv
    <3>2. CASE UNCHANGED call
      BY <1>3, <3>2 DEF PlaceLevel, Busy
    <3>3. CASE call' # call
      <4> DEFINE o == [id |-> NoId, side |-> side, price |-> Head(levels).price,
                       amount |-> Head(levels).amount]
      <4>1. call'[Loop] = [op |-> "place", order |-> o, made |-> {}]
        BY <1>3, <3>3, EngineAssumption
        DEF PlaceLevel, Begin, TypeOK, PortTypeOK
      <4> QED
        BY <3>1, <4>1 DEF Await
    <3> QED
      BY <3>2, <3>3
  <2> QED
    BY <2>1, <2>2, <2>4, <2>6 DEF PassInv
<1> QED
  BY <1>1, <1>2, <1>3 DEF Pass

\* So do the requests a pass awaits.
LEMMA RequestInv ==
  ASSUME TypeOK, PassInv, ServiceActs \/ PlaceReturns \/ CancelReturns
  PROVE  PassInv'
<1>1. UNCHANGED <<phase, target, side, levels>>
  BY DEF ServiceActs, PlaceReturns, CancelReturns, engineVars, passVars
<1>2. \A p, a : Wanted(p, a)' <=> Wanted(p, a)
  BY <1>1 DEF Wanted
<1> SUFFICES ASSUME phase = "placing"
    PROVE /\ \A o \in tracker' : o.side = side => Wanted(o.price, o.amount)
          /\ Busy' => /\ call'[Loop].op = "place" /\ Await'.side = side
                      /\ Wanted(Await'.price, Await'.amount)
  BY <1>1, <1>2 DEF PassInv
<1>3. CASE ServiceActs
  <2>1. Busy /\ call[Loop].op = "place" /\ UNCHANGED tracker
    BY <1>3 DEF ServiceActs, PlaceServed, CancelServed, engineVars, PassInv,
       Busy, NoCall
  <2>2. PICK id \in FreshIds : PlaceServed(Loop, id)
    BY <1>3, <2>1 DEF ServiceActs, CancelServed
  <2>3. call'[Loop].op = "place" /\ Await' = Await
    BY <2>1, <2>2, AwaitType, EngineAssumption
    DEF PlaceServed, Await, TypeOK, PortTypeOK
  <2> QED
    BY <2>1, <2>3 DEF PassInv
<1>4. CASE PlaceReturns
  <2>1. ~Busy' /\ Busy
    BY <1>4, PlaceEnds, ReturnClears
  <2>2. \A o \in tracker' \ tracker : /\ o.side = Await.side /\ o.price = Await.price
                                     /\ o.amount = Await.amount
    BY <1>4, <2>1, AwaitType DEF PlaceReturns, Remember, Without, Order
  <2> QED
    BY <2>1, <2>2 DEF PassInv
<1>5. CASE CancelReturns
  <2>1. Busy /\ call[Loop].op = "cancel"
    BY <1>5 DEF CancelReturns, CancelReturnsTrue, CancelReturnsFalse, Busy, NoCall
  <2> QED
    BY <2>1 DEF PassInv
<1> QED
  BY <1>3, <1>4, <1>5

\* Every step keeps it.
LEMMA NextPass ==
  ASSUME TypeOK, PassInv, [Next]_vars
  PROVE  PassInv'
<1>1. CASE Pass
  BY <1>1, PassesInv
<1>2. CASE ServiceActs \/ PlaceReturns \/ CancelReturns
  BY <1>2, RequestInv
<1>3. CASE BookMoves \/ QuoteFilled \/ AttemptStrays \/ UNCHANGED vars
  BY <1>3 DEF BookMoves, QuoteFilled, Fill, AttemptStrays, Lag, LateServed,
     portVars, engineVars, vars, passVars,
     PassInv, Wanted, Busy, Await
<1>4. CASE \/ Launch \/ FetchOpenOrders \/ AdoptOrder \/ StartLoop
           \/ RequestRaises \/ Stop \/ Interrupt \/ ClearOrder \/ Cleared \/ Crash
  <2>1. phase' # "placing"
    BY <1>4 DEF Launch, FetchOpenOrders, AdoptOrder, StartLoop, RequestRaises,
       LeavePass, Stop, Interrupt, WindDown, Endings, ClearOrder, Cleared, Crash,
       engineVars
  <2> QED
    BY <2>1 DEF PassInv
<1> QED
  BY <1>1, <1>2, <1>3, <1>4 DEF Next

\* While the second side is under way, the first is still that of the book the
\* pass has read; nothing is placed before the stale orders are gone.
FirstSideInv ==
  /\ phase \in {"off", "fetching", "idle"} => ~Busy
  /\ phase = "pulling" /\ Busy => call[Loop].op = "cancel"
  /\ phase \in {"pulling", "placing"} /\ side = "sell" => FromTarget("buy")

\* The passes of reconcile keep it.
LEMMA PassFirstSide ==
  ASSUME TypeOK, PassInv, FirstSideInv, Pass
  PROVE  FirstSideInv'
<1> USE DEF portVars
<1>1. CASE BeginPass
  BY <1>1 DEF BeginPass, FirstSideInv, Busy
<1>2. CASE PullStale
  <2>1. PICK o \in tracker : /\ tracker' = Without(tracker, o.side, o.price)
                            /\ Begin(Loop, "cancel", o)
    BY <1>2 DEF PullStale
  <2>2. phase = "pulling" /\ UNCHANGED <<phase, target, side>> /\ tracker' \subseteq tracker
    BY <1>2, <2>1 DEF PullStale, passVars, Without
  <2>3. call'[Loop].op = "cancel"
    BY <2>1, EngineAssumption DEF Begin, TypeOK, PortTypeOK
  <2> QED
    BY <2>2, <2>3 DEF FirstSideInv, FromTarget
<1>3. CASE BeginPlacing \/ PlaceLevel
  BY <1>3 DEF BeginPlacing, PlaceLevel, FirstSideInv, FromTarget
<1>4. CASE EndSide
  <2>1. CASE phase' = "idle"
    BY <1>4, <2>1 DEF EndSide, FirstSideInv, Busy
  <2>2. CASE phase' # "idle"
    <3>1. phase = "placing" /\ side = "buy" /\ ~Busy /\ UNCHANGED <<call, tracker, target>>
      BY <1>4, <2>2 DEF EndSide, LeavePass
    <3>2. FromTarget("buy")
      BY <3>1 DEF PassInv, Wanted, FromTarget
    <3> QED
      BY <3>1, <3>2 DEF FirstSideInv, FromTarget, Busy
  <2> QED
    BY <2>1, <2>2
<1> QED
  BY <1>1, <1>2, <1>3, <1>4 DEF Pass

\* So do the requests a pass awaits.
LEMMA RequestFirstSide ==
  ASSUME TypeOK, PassInv, FirstSideInv, ServiceActs \/ PlaceReturns \/ CancelReturns
  PROVE  FirstSideInv'
<1>1. UNCHANGED <<phase, target, side>>
  BY DEF ServiceActs, PlaceReturns, CancelReturns, engineVars, passVars
<1>2. CASE ServiceActs
  <2>1. UNCHANGED tracker
    BY <1>2 DEF ServiceActs, engineVars
  <2>2. Busy /\ call'[Loop].op = call[Loop].op
    BY <1>2, AwaitType, EngineAssumption
    DEF ServiceActs, PlaceServed, CancelServed, Busy, NoCall, TypeOK, PortTypeOK
  <2> QED
    BY <1>1, <2>1, <2>2 DEF FirstSideInv, FromTarget
<1>3. CASE PlaceReturns
  <2>1. ~Busy' /\ Busy /\ call[Loop].op = "place"
    BY <1>3, PlaceEnds, ReturnClears
    DEF PlaceReturns, PlaceReturnsId, PlaceReturnsNone
  <2>2. phase = "placing" => Await.side = side
    BY <2>1 DEF PassInv
  <2>3. phase = "placing" => \A o \in tracker' \ tracker : o.side = side
    BY <1>3, <2>1, <2>2, AwaitType DEF PlaceReturns, Remember, Without, Order
  <2> QED
    BY <1>1, <2>1, <2>3 DEF FirstSideInv, FromTarget
<1>4. CASE CancelReturns /\ phase = "clearing"
  BY <1>1, <1>4, ReturnClears
  DEF CancelReturns, CancelReturnsTrue, CancelReturnsFalse, FirstSideInv
<1>5. CASE CancelReturns /\ phase # "clearing"
  <2>1. UNCHANGED tracker
    BY <1>5 DEF CancelReturns
  <2>2. ~Busy'
    BY <1>5, ReturnClears
    DEF CancelReturns, CancelReturnsTrue, CancelReturnsFalse
  <2> QED
    BY <1>1, <2>1, <2>2 DEF FirstSideInv, FromTarget
<1> QED
  BY <1>2, <1>3, <1>4, <1>5

\* Every step keeps it.
LEMMA NextFirstSide ==
  ASSUME TypeOK, PassInv, FirstSideInv, [Next]_vars
  PROVE  FirstSideInv'
<1>1. CASE Pass
  BY <1>1, PassFirstSide
<1>2. CASE ServiceActs \/ PlaceReturns \/ CancelReturns
  BY <1>2, RequestFirstSide
<1>3. CASE BookMoves \/ QuoteFilled \/ AttemptStrays \/ UNCHANGED vars
  BY <1>3 DEF BookMoves, QuoteFilled, Fill, AttemptStrays, Lag, LateServed,
     portVars, engineVars, vars, passVars, FirstSideInv, FromTarget, Busy
<1>4. CASE \/ Launch \/ FetchOpenOrders \/ AdoptOrder \/ StartLoop
           \/ Stop \/ Interrupt \/ ClearOrder \/ Cleared \/ Crash
  <2>1. phase' \notin {"pulling", "placing"}
    BY <1>4 DEF Launch, FetchOpenOrders, AdoptOrder, StartLoop, Stop, Interrupt,
       WindDown, Endings, ClearOrder, Cleared, Crash, engineVars
  <2>2. phase' \in {"off", "fetching", "idle"} => ~Busy'
    <3>1. CASE Launch \/ StartLoop \/ Stop \/ Cleared
      BY <3>1 DEF Launch, StartLoop, Stop, Cleared, portVars, Busy, FirstSideInv
    <3>2. CASE FetchOpenOrders \/ AdoptOrder \/ ClearOrder
      BY <3>2 DEF FetchOpenOrders, AdoptOrder, ClearOrder, engineVars
    <3>3. CASE Interrupt \/ Crash
      BY <3>3, EngineAssumption DEF Interrupt, Crash, Abandon, portVars, Busy,
         FirstSideInv, TypeOK, PortTypeOK
    <3> QED
      BY <1>4, <3>1, <3>2, <3>3
  <2> QED
    BY <2>1, <2>2 DEF FirstSideInv
<1>5. CASE RequestRaises
  <2>1. phase' \notin {"pulling", "placing"}
    BY <1>5 DEF RequestRaises, LeavePass
  <2>2. ~Busy'
    BY <1>5, EngineAssumption DEF RequestRaises, Abandon, Busy, TypeOK, PortTypeOK
  <2> QED
    BY <2>1, <2>2 DEF FirstSideInv
<1> QED
  BY <1>1, <1>2, <1>3, <1>4, <1>5 DEF Next

(***************************************************************************)
(* A side of a pass that _reconcile_side runs to its end leaves no tracked *)
(* order at a price outside the book it has read or with an amount beyond  *)
(* the tolerance, nor, at the end of the pass, on the side before it,      *)
(* whatever place_order and cancel_order returned and whatever the service *)
(* did: no hypothesis.                                                     *)
(***************************************************************************)
THEOREM PassLeavesOnlyTargetsCorrect == Spec => PassLeavesOnlyTargets
<1>1. Init => PassInv /\ FirstSideInv
  BY EngineAssumption DEF Init, PortInit, PassInv, FirstSideInv, Busy
<1>2. TypeOK /\ PassInv /\ FirstSideInv /\ [Next]_vars => PassInv' /\ FirstSideInv'
  BY NextPass, NextFirstSide
<1>3. TypeOK /\ PassInv /\ FirstSideInv =>
        (EndSide => FromTarget(side) /\ FromTarget("buy"))
  <2> SUFFICES ASSUME TypeOK, PassInv, FirstSideInv, EndSide
      PROVE  FromTarget(side) /\ FromTarget("buy")
    OBVIOUS
  <2>1. phase = "placing" /\ ~Busy /\ side \in {"buy", "sell"}
    BY DEF EndSide, TypeOK, Side
  <2>3. FromTarget(side)
    BY <2>1 DEF PassInv, Wanted, FromTarget
  <2> QED
    BY <2>1, <2>3 DEF FirstSideInv
<1> QED
  BY <1>1, <1>2, <1>3, TypeCorrect, PTL DEF Spec, PassLeavesOnlyTargets

-----------------------------------------------------------------------------
(* Names under every fault.                                                *)

\* The service gives an id to one order only.
OneEachId(l) ==
  /\ \A q \in l : q.id \in OrderId
  /\ \A x, y \in l : x.id = y.id => x = y

\* An order still to be adopted is a copy of the one that rests, if it does.
Copied(o, l) == o.id \in OrderId /\ \A q \in l : q.id = o.id => q = o

\* An order the service has made for a request is what the request says.
AsAsked(a, l) ==
  a.op = "place" => \A q \in l : q.id \in a.made => q = [a.order EXCEPT !.id = q.id]

Names(o, l) ==
  /\ o.id \in OrderId
  /\ \A q \in l : q.id = o.id =>
       /\ q.side = o.side /\ q.amount = o.amount
       /\ o.price \in {q.price, AdoptPrice[q.price]}

NameInv ==
  /\ OneEachId(live)
  /\ \A o \in todo : Copied(o, live)
  /\ AsAsked(call[Loop], live)
  /\ \A o \in tracker : Names(o, live)

LEMMA InitNames == Init => NameInv
<1> SUFFICES ASSUME Init PROVE NameInv
  OBVIOUS
<1>1. live = LeftBehind /\ call[Loop] = NoCall
  BY EngineAssumption DEF Init, PortInit
<1>2. OneEachId(live)
  BY <1>1, PortAssumption DEF OneEachId, Order
<1> QED
  BY <1>1, <1>2 DEF Init, NameInv, AsAsked, NoCall

\* Fewer orders rest: what was named right still is.
LEMMA FewerNames ==
  ASSUME NameInv, live' \subseteq live, UNCHANGED <<call, engineVars>>
  PROVE  NameInv'
BY DEF NameInv, engineVars, OneEachId, Copied, AsAsked, Names

\* One order more rests, under an id nothing refers to, except that it may be
\* the one the engine asks for.
LEMMA MoreNames ==
  ASSUME TypeOK, NameInv, NEW id \in FreshIds, NEW n, n.id = id,
         live' = live \cup {n}, UNCHANGED engineVars,
         \/ call' = call
         \/ /\ call[Loop].op = "place" /\ n = [Await EXCEPT !.id = id]
            /\ call'[Loop] = [call[Loop] EXCEPT !.made = @ \cup {id}]
  PROVE  NameInv'
<1>1. /\ id \in OrderId /\ id \notin Ids(live \cup tracker \cup todo)
  BY DEF FreshIds
<1>2. Busy => id \notin Made
  <2> SUFFICES ASSUME Busy PROVE id \notin Made
    OBVIOUS
  <2>1. {call[Loop].order.id} \cup call[Loop].made
          \in {{call[c].order.id} \cup call[c].made :
               c \in {d \in Caller : call[d] # NoCall}}
    BY EngineAssumption DEF Busy
  <2>2. id \notin {call[Loop].order.id} \cup call[Loop].made
    BY <2>1 DEF FreshIds
  <2> QED
    BY <2>2 DEF Made
<1>3. OneEachId(live')
  BY <1>1 DEF NameInv, OneEachId, Ids
<1>4. \A o \in todo : Copied(o, live')
  BY <1>1 DEF NameInv, Copied, Ids
<1>5. \A o \in tracker : Names(o, live')
  BY <1>1 DEF NameInv, Names, Ids
<1>6. AsAsked(call'[Loop], live')
  <2>1. CASE call' = call
    <3>1. call[Loop].op = "place" => Busy
      BY DEF Busy, NoCall
    <3> QED
      BY <1>2, <2>1, <3>1 DEF NameInv, AsAsked, Made
  <2>2. CASE /\ call[Loop].op = "place" /\ n = [Await EXCEPT !.id = id]
             /\ call'[Loop] = [call[Loop] EXCEPT !.made = @ \cup {id}]
    <3>1. Busy
      BY <2>2 DEF Busy, NoCall
    <3>2. /\ call'[Loop].order = Await /\ call'[Loop].made = Made \cup {id}
          /\ call'[Loop].op = "place"
      BY <2>2, <3>1, AwaitType DEF Await, Made
    <3>3. id \notin Ids(live)
      BY <1>1 DEF Ids
    <3> QED
      BY <2>2, <3>2, <3>3 DEF NameInv, AsAsked, Await, Made, Ids
  <2> QED
    BY <2>1, <2>2
<1> QED
  BY <1>3, <1>4, <1>5, <1>6 DEF NameInv, engineVars

LEMMA ServedNames ==
  ASSUME TypeOK, NameInv, ServiceActs
  PROVE  NameInv'
<1>1. UNCHANGED engineVars
  BY DEF ServiceActs
<1>2. ASSUME NEW id \in FreshIds, PlaceServed(Loop, id)
      PROVE  NameInv'
  <2>1. call[Loop].op = "place" /\ id \in OrderId /\ Busy
    BY <1>2 DEF PlaceServed, Busy, NoCall
  <2>2. /\ live' = live \cup {[Await EXCEPT !.id = id]}
        /\ call' = [call EXCEPT ![Loop].made = @ \cup {id}]
    BY <1>2 DEF PlaceServed, Created, Await
  <2>3. [Await EXCEPT !.id = id].id = id
    BY <2>1, AwaitType DEF Order
  <2>4. call'[Loop] = [call[Loop] EXCEPT !.made = @ \cup {id}]
    BY <2>2, EngineAssumption DEF TypeOK, PortTypeOK
  <2> QED
    BY <1>1, <2>1, <2>2, <2>3, <2>4, MoreNames
<1>3. CASE CancelServed(Loop)
  BY <1>1, <1>3, FewerNames DEF CancelServed, Deleted
<1> QED
  BY <1>2, <1>3 DEF ServiceActs

LEMMA StrayNames ==
  ASSUME TypeOK, NameInv, AttemptStrays
  PROVE  NameInv'
<1>1. UNCHANGED engineVars
  BY DEF AttemptStrays
<1>2. CASE Lag(Loop)
  BY <1>1, <1>2, FewerNames DEF Lag
<1>3. ASSUME NEW k \in Late, NEW id \in FreshIds, LateServed(k, id)
      PROVE  NameInv'
  <2>1. late[k] \in Order /\ call' = call
    BY <1>3 DEF LateServed, TypeOK, PortTypeOK
  <2>2. CASE live' = Created(late[k], id)
    <3>1. live' = live \cup {[late[k] EXCEPT !.id = id]}
      BY <2>2 DEF Created
    <3>2. [late[k] EXCEPT !.id = id].id = id
      BY <2>1 DEF Order
    <3> QED
      BY <1>1, <2>1, <3>1, <3>2, MoreNames
  <2>3. CASE live' = Deleted(late[k])
    BY <1>1, <2>1, <2>3, FewerNames DEF Deleted
  <2> QED
    BY <1>3, <2>2, <2>3 DEF LateServed
<1> QED
  BY <1>2, <1>3 DEF AttemptStrays

\* The engine forgets orders, and is asked for or returned something that names
\* no order yet.
LEMMA ForgottenNames ==
  ASSUME NameInv, UNCHANGED live, tracker' \subseteq tracker, todo' \subseteq todo,
         \/ call' = call
         \/ call'[Loop].op = "cancel" \/ call'[Loop].made = {}
  PROVE  NameInv'
BY DEF NameInv, AsAsked

\* Begin and the ends of a request make nothing.
LEMMA NothingMade ==
  ASSUME TypeOK,
         \/ \E op \in {"place", "cancel"}, o \in Order : Begin(Loop, op, o)
         \/ Return(Loop) \/ Abandon(Loop)
  PROVE  call'[Loop].made = {}
BY EngineAssumption DEF TypeOK, PortTypeOK, Begin, Return, Abandon, NoCall

LEMMA AdoptNames ==
  ASSUME TypeOK, NameInv, AdoptOrder
  PROVE  NameInv'
<1>1. PICK o \in todo :
        LET p == AdoptPrice[o.price]
            mine == [o EXCEPT !.price = p]
        IN  /\ todo' = todo \ {o}
            /\ \/ /\ p = NoPrice
                  /\ UNCHANGED <<tracker, call>>
               \/ /\ p # NoPrice /\ ~Tracked(o.side, p)
                  /\ tracker' = Remember(tracker, mine)
                  /\ UNCHANGED call
               \/ /\ p # NoPrice /\ Tracked(o.side, p)
                  /\ tracker' = Without(tracker, o.side, p)
                  /\ Begin(Loop, "cancel", mine)
  BY DEF AdoptOrder
<1> DEFINE p == AdoptPrice[o.price]
           mine == [o EXCEPT !.price = p]
<1>2. o \in Order /\ UNCHANGED live /\ todo' \subseteq todo
  BY <1>1 DEF TypeOK, AdoptOrder
<1>3. CASE p = NoPrice /\ UNCHANGED <<tracker, call>>
  BY <1>2, <1>3, ForgottenNames
<1>4. CASE p # NoPrice /\ tracker' = Remember(tracker, mine) /\ UNCHANGED call
  <2>1. /\ mine.id = o.id /\ mine.side = o.side /\ mine.amount = o.amount
        /\ mine.price = AdoptPrice[o.price]
    BY <1>2 DEF Order
  <2> HIDE DEF mine
  <2>2. Names(mine, live)
    BY <2>1 DEF NameInv, Copied, Names
  <2>3. tracker' \subseteq tracker \cup {mine}
    BY <1>4 DEF Remember, Without
  <2> QED
    BY <1>2, <1>4, <2>2, <2>3 DEF NameInv
<1>5. CASE /\ p # NoPrice /\ tracker' = Without(tracker, o.side, p)
           /\ Begin(Loop, "cancel", mine)
  <2>1. call'[Loop].op = "cancel"
    BY <1>5, EngineAssumption DEF Begin, TypeOK, PortTypeOK
  <2>2. tracker' \subseteq tracker
    BY <1>5 DEF Without
  <2> QED
    BY <1>2, <2>1, <2>2, ForgottenNames
<1> QED
  BY <1>1, <1>3, <1>4, <1>5

LEMMA PlacedNames ==
  ASSUME TypeOK, NameInv, PlaceReturns
  PROVE  NameInv'
<1>1. Return(Loop) /\ Busy /\ call[Loop].op = "place" /\ UNCHANGED todo
  BY PlaceEnds DEF PlaceReturns
<1>2. call'[Loop].made = {} /\ UNCHANGED live
  BY <1>1, NothingMade DEF Return
<1>3. ASSUME NEW id \in Made, tracker' = Remember(tracker, [Await EXCEPT !.id = id])
      PROVE  NameInv'
  <2> DEFINE o == [Await EXCEPT !.id = id]
  <2>1. Await \in Order /\ id \in OrderId
    BY <1>1, <1>3, AwaitType
  <2>2. o.id = id
    BY <2>1 DEF Order
  <2>3. \A q \in live : q.id = id => q = o
    BY <1>1, <1>3 DEF NameInv, AsAsked, Await, Made
  <2> HIDE DEF o
  <2>4. Names(o, live)
    BY <2>1, <2>2, <2>3 DEF Names
  <2>5. tracker' \subseteq tracker \cup {o}
    BY <1>3 DEF Remember, Without, o
  <2> QED
    BY <1>1, <1>2, <2>4, <2>5 DEF NameInv, AsAsked
<1>4. CASE UNCHANGED tracker
  BY <1>1, <1>2, <1>4, ForgottenNames
<1> QED
  BY <1>3, <1>4 DEF PlaceReturns

LEMMA PassNames ==
  ASSUME TypeOK, NameInv, Pass
  PROVE  NameInv'
<1>1. UNCHANGED <<live, todo>> /\ tracker' \subseteq tracker
  BY DEF Pass, BeginPass, PullStale, BeginPlacing, PlaceLevel, EndSide, portVars,
     Without
<1>2. CASE BeginPass \/ BeginPlacing \/ EndSide
  BY <1>1, <1>2, ForgottenNames DEF BeginPass, BeginPlacing, EndSide, portVars
<1>3. CASE PullStale
  <2>1. PICK o \in tracker : Begin(Loop, "cancel", o)
    BY <1>3 DEF PullStale
  <2>2. call'[Loop].op = "cancel"
    BY <2>1, EngineAssumption DEF Begin, TypeOK, PortTypeOK
  <2> QED
    BY <1>1, <2>2, ForgottenNames
<1>4. CASE PlaceLevel
  <2>1. call' = call \/ call'[Loop].made = {}
    BY <1>4, EngineAssumption DEF PlaceLevel, Begin, TypeOK, PortTypeOK
  <2> QED
    BY <1>1, <2>1, ForgottenNames
<1> QED
  BY <1>2, <1>3, <1>4 DEF Pass

LEMMA NextNames ==
  ASSUME TypeOK, NameInv, [Next]_vars
  PROVE  NameInv'
<1>1. CASE BookMoves \/ Launch \/ StartLoop \/ Stop \/ Cleared \/ UNCHANGED vars
  <2>1. UNCHANGED <<live, call>> /\ tracker' \subseteq tracker /\ todo' \subseteq todo
    BY <1>1 DEF BookMoves, Launch, StartLoop, Stop, WindDown, Cleared, vars,
       portVars, engineVars
  <2> QED
    BY <2>1, ForgottenNames
<1>2. CASE QuoteFilled
  BY <1>2, FewerNames DEF QuoteFilled, Fill
<1>3. CASE FetchOpenOrders
  <2>1. UNCHANGED <<live, call, tracker>> /\ todo' \subseteq live
    BY <1>3 DEF FetchOpenOrders, portVars
  <2>2. \A o \in todo' : Copied(o, live)
    BY <2>1 DEF NameInv, OneEachId, Copied
  <2> QED
    BY <2>1, <2>2 DEF NameInv
<1>4. CASE CancelReturns
  <2>1. Return(Loop) /\ tracker' \subseteq tracker /\ UNCHANGED todo
    BY <1>4 DEF CancelReturns, CancelReturnsTrue, CancelReturnsFalse, Without
  <2> QED
    BY <2>1, NothingMade, ForgottenNames DEF Return
<1>5. CASE RequestRaises
  BY <1>5, NothingMade, ForgottenNames DEF RequestRaises, Abandon
<1>6. CASE Interrupt
  <2>1. tracker' \subseteq tracker /\ todo' \subseteq todo /\ UNCHANGED live
    BY <1>6 DEF Interrupt, WindDown, Abandon, portVars
  <2>2. call' = call \/ call'[Loop].made = {}
    BY <1>6, NothingMade DEF Interrupt, portVars
  <2> QED
    BY <2>1, <2>2, ForgottenNames
<1>7. CASE ClearOrder
  <2>1. PICK o \in tracker : Begin(Loop, "cancel", o)
    BY <1>7 DEF ClearOrder, AllOrders
  <2>2. call'[Loop].op = "cancel"
    BY <2>1, EngineAssumption DEF Begin, TypeOK, PortTypeOK
  <2> QED
    BY <1>7, <2>2, ForgottenNames DEF ClearOrder, engineVars
<1>8. CASE Crash
  <2>1. tracker' \subseteq tracker /\ todo' \subseteq todo /\ UNCHANGED live
    BY <1>8 DEF Crash, Abandon, portVars
  <2>2. call' = call \/ call'[Loop].made = {}
    BY <1>8, NothingMade DEF Crash, portVars
  <2> QED
    BY <2>1, <2>2, ForgottenNames
<1> QED
  BY <1>1, <1>2, <1>3, <1>4, <1>5, <1>6, <1>7, <1>8, ServedNames, StrayNames,
     AdoptNames, PassNames, PlacedNames DEF Next

(***************************************************************************)
(* Under every fault, what OrderTracker holds under an id is the order the *)
(* service created under it, at its price or the one adoption rounds it    *)
(* to: _cancel and cancel_all, which send the id only, never take another  *)
(* quote off the book, however answers are lost, late or cut off.          *)
(***************************************************************************)
THEOREM TrackerNamesItsOrdersCorrect == Spec => []TrackerNamesItsOrders
<1>1. Init => TypeOK /\ NameInv
  BY InitType, InitNames
<1>2. TypeOK /\ NameInv /\ [Next]_vars => (TypeOK /\ NameInv)'
  BY NextType, NextNames
<1>3. NameInv => TrackerNamesItsOrders
  BY DEF NameInv, Names, TrackerNamesItsOrders
<1> QED
  BY <1>1, <1>2, <1>3, PTL DEF Spec

-----------------------------------------------------------------------------
(* Tracked orders rest.                                                    *)

\* No order trades, no coroutine is cut off inside a request and no attempt
\* outlives its call.  Answers may be lost, cancels refused, a start may see
\* no orders or orders that collide, and the process may crash.
Undisturbed == Faults \cap {"fill", "interrupt"} = {} /\ Late = {}

Rests(o, l) ==
  \E q \in l : q.id = o.id /\ q.side = o.side /\ q.amount = o.amount

\* What is in flight, and that it names no order the engine still counts on.
InRequest ==
  /\ phase \in {"off", "fetching", "idle"} => ~Busy
  /\ Busy /\ phase = "placing" =>
       /\ call[Loop].op = "place"
       /\ \A id \in Made : [Await EXCEPT !.id = id] \in live /\ id \notin Ids(tracker)
  /\ Busy /\ phase # "placing" => call[Loop].op = "cancel"
  /\ Busy /\ phase \in {"adopting", "pulling"} => Await.id \notin Ids(tracker \cup todo)
  /\ Busy /\ phase = "clearing" => Await \in tracker

\* The orders of a start rest, and none of them is in the tracker yet.
Fetched ==
  /\ phase = "fetching" => tracker = {}
  /\ phase # "adopting" => todo = {}
  /\ todo \subseteq live
  /\ Ids(tracker) \cap Ids(todo) = {}

Resting ==
  /\ \A x, y \in tracker : x.id = y.id => x = y
  /\ \A o \in tracker : \/ Rests(o, live)
                        \/ phase = "clearing" /\ Busy /\ o = Await

RestInv == InRequest /\ Fetched /\ Resting

LEMMA InitRests == Init => RestInv
<1> SUFFICES ASSUME Init PROVE RestInv
  OBVIOUS
<1>1. ~Busy
  BY EngineAssumption DEF Init, PortInit, Busy
<1> QED
  BY <1>1 DEF Init, RestInv, InRequest, Fetched, Resting, Ids

\* The service carries out the request that is awaited.
LEMMA ServedRests ==
  ASSUME TypeOK, NameInv, RestInv, ServiceActs
  PROVE  RestInv'
<1>1. UNCHANGED engineVars
  BY DEF ServiceActs
<1>2. ASSUME NEW id \in FreshIds, PlaceServed(Loop, id)
      PROVE  RestInv'
  <2>1. call[Loop].op = "place" /\ Busy /\ phase = "placing"
    <3>1. call[Loop].op = "place" /\ Busy
      BY <1>2 DEF PlaceServed, Busy, NoCall
    <3> QED
      BY <3>1 DEF RestInv, InRequest
  <2>2. /\ live' = live \cup {[Await EXCEPT !.id = id]}
        /\ call' = [call EXCEPT ![Loop].made = @ \cup {id}]
    BY <1>2 DEF PlaceServed, Created, Await
  <2>3. /\ call'[Loop].op = "place" /\ Await' = Await /\ Made' = Made \cup {id}
        /\ Busy'
    <3>1. call'[Loop] = [call[Loop] EXCEPT !.made = @ \cup {id}]
      BY <2>2, EngineAssumption DEF TypeOK, PortTypeOK
    <3>2. /\ call'[Loop].op = "place" /\ call'[Loop].order = call[Loop].order
          /\ call'[Loop].made = call[Loop].made \cup {id}
      BY <2>1, <3>1, AwaitType
    <3> QED
      BY <3>2 DEF Await, Made, Busy, NoCall
  <2>4. id \notin Ids(tracker)
    BY DEF FreshIds, Ids
  <2>5. InRequest'
    BY <1>1, <2>1, <2>2, <2>3, <2>4 DEF RestInv, InRequest, engineVars
  <2>6. Fetched' /\ Resting'
    BY <1>1, <2>1, <2>2 DEF RestInv, Fetched, Resting, Rests, engineVars
  <2> QED
    BY <2>5, <2>6 DEF RestInv
<1>3. CASE CancelServed(Loop)
  <2>1. /\ call[Loop].op = "cancel" /\ Busy /\ phase # "placing"
        /\ live' = {x \in live : x.id # Await.id}
        /\ UNCHANGED call
    <3>1. call[Loop].op = "cancel" /\ Busy
      BY <1>3 DEF CancelServed, Busy, NoCall
    <3> QED
      BY <1>3, <3>1 DEF CancelServed, Deleted, Await, RestInv, InRequest
  <2>2. phase \in {"adopting", "pulling", "clearing"}
    BY <2>1 DEF RestInv, InRequest, TypeOK, Phase
  <2>3. InRequest'
    BY <1>1, <2>1 DEF RestInv, InRequest, Busy, Await, Made, engineVars
  <2>4. todo' \subseteq live'
    BY <1>1, <2>1, <2>2 DEF RestInv, InRequest, Fetched, Ids, engineVars
  <2>5. \A o \in tracker : o.id # Await.id => (Rests(o, live) => Rests(o, live'))
    BY <2>1 DEF Rests
  <2>6. \A o \in tracker : o.id = Await.id => phase = "clearing" /\ o = Await
    BY <2>1, <2>2 DEF RestInv, InRequest, Resting, Ids
  <2>7. Resting'
    BY <1>1, <2>1, <2>5, <2>6 DEF RestInv, Resting, Busy, Await, engineVars
  <2> QED
    BY <1>1, <2>3, <2>4, <2>7 DEF RestInv, Fetched, engineVars
<1> QED
  BY <1>2, <1>3 DEF ServiceActs

\* Between requests, the engine forgets orders and goes on.
LEMMA QuietRests ==
  ASSUME RestInv, ~Busy, ~Busy', UNCHANGED live, tracker' \subseteq tracker,
         \/ todo' = {}
         \/ todo' = todo /\ phase = "adopting" /\ phase' = "adopting",
         phase' = "fetching" => tracker' = {}
  PROVE  RestInv'
<1>1. InRequest' /\ Fetched'
  BY DEF RestInv, InRequest, Fetched, Ids
<1>2. Resting'
  BY DEF RestInv, Resting
<1> QED
  BY <1>1, <1>2 DEF RestInv

\* Where a request that returns leaves the others.
LEMMA AdoptRests ==
  ASSUME TypeOK, NameInv, RestInv, AdoptOrder
  PROVE  RestInv'
<1> DEFINE p(o) == AdoptPrice[o.price]
           mine(o) == [o EXCEPT !.price = p(o)]
<1>1. /\ phase = "adopting" /\ phase' = "adopting" /\ ~Busy
      /\ UNCHANGED live
  BY DEF AdoptOrder
<1>2. PICK o \in todo :
        /\ todo' = todo \ {o}
        /\ \/ UNCHANGED <<tracker, call>>
           \/ tracker' = Remember(tracker, mine(o)) /\ UNCHANGED call
           \/ /\ tracker' = Without(tracker, o.side, p(o))
              /\ Begin(Loop, "cancel", mine(o))
  BY DEF AdoptOrder
<1>3. o \in live /\ o \in Order
  BY <1>2 DEF RestInv, Fetched, TypeOK
<1>4. /\ mine(o).id = o.id /\ mine(o).side = o.side /\ mine(o).amount = o.amount
  BY <1>3 DEF Order
<1>5. todo' \subseteq todo /\ o.id \notin Ids(todo') /\ o.id \notin Ids(tracker)
  BY <1>2, <1>3 DEF RestInv, Fetched, Ids, NameInv, OneEachId
<1> HIDE DEF mine, p
<1>6. CASE UNCHANGED <<tracker, call>>
  BY <1>1, <1>5, <1>6 DEF RestInv, InRequest, Fetched, Resting, Ids, Busy
<1>7. CASE tracker' = Remember(tracker, mine(o)) /\ UNCHANGED call
  <2>1. tracker' \subseteq tracker \cup {mine(o)}
    BY <1>7 DEF Remember, Without
  <2>2. Ids(tracker') \cap Ids(todo') = {}
    BY <1>4, <1>5, <2>1 DEF RestInv, Fetched, Ids
  <2>3. Rests(mine(o), live)
    BY <1>3, <1>4 DEF Rests
  <2>4. Resting'
    BY <1>1, <1>4, <1>5, <2>1, <2>3 DEF RestInv, Resting, Ids
  <2> QED
    BY <1>1, <1>5, <1>7, <2>2, <2>4 DEF RestInv, InRequest, Fetched, Busy
<1>8. CASE /\ tracker' = Without(tracker, o.side, p(o))
           /\ Begin(Loop, "cancel", mine(o))
  <2>1. tracker' \subseteq tracker
    BY <1>8 DEF Without
  <2>2. /\ call'[Loop].op = "cancel" /\ Await' = mine(o) /\ Made' = {}
    BY <1>8, EngineAssumption DEF Begin, TypeOK, PortTypeOK, Await, Made
  <2>3. Await'.id \notin Ids(tracker' \cup todo')
    BY <1>4, <1>5, <2>1, <2>2 DEF Ids
  <2>4. InRequest'
    BY <1>1, <2>2, <2>3 DEF InRequest
  <2>5. Fetched'
    BY <1>1, <1>5, <2>1 DEF RestInv, Fetched, Ids
  <2>6. Resting'
    BY <1>1, <2>1 DEF RestInv, Resting
  <2> QED
    BY <2>4, <2>5, <2>6 DEF RestInv
<1> QED
  BY <1>2, <1>6, <1>7, <1>8

LEMMA PassRests ==
  ASSUME TypeOK, RestInv, Pass
  PROVE  RestInv'
<1>1. /\ UNCHANGED live /\ tracker' \subseteq tracker /\ todo = {} /\ todo' = {}
      /\ ~Busy /\ phase \in Active /\ phase' \in Active
  BY DEF Pass, BeginPass, PullStale, BeginPlacing, PlaceLevel, EndSide, LeavePass,
     portVars, Without, RestInv, InRequest, Fetched, Active
<1>2. Fetched' /\ Resting'
  BY <1>1 DEF RestInv, Fetched, Resting, Ids, Active
<1>3. CASE BeginPass \/ BeginPlacing \/ EndSide
  <2>1. ~Busy'
    BY <1>1, <1>3 DEF BeginPass, BeginPlacing, EndSide, portVars, Busy
  <2> QED
    BY <1>2, <2>1 DEF RestInv, InRequest
<1>4. CASE PullStale
  <2>1. PICK o \in tracker : /\ tracker' = Without(tracker, o.side, o.price)
                             /\ Begin(Loop, "cancel", o)
    BY <1>4 DEF PullStale
  <2>2. /\ call'[Loop].op = "cancel" /\ Await' = o /\ phase' = "pulling"
    BY <1>4, <2>1, EngineAssumption
    DEF Begin, TypeOK, PortTypeOK, Await, PullStale
  <2>3. o.id \notin Ids(tracker' \cup todo')
    BY <1>1, <2>1 DEF RestInv, Resting, Ids, Without, Slot
  <2> QED
    BY <1>2, <2>2, <2>3 DEF RestInv, InRequest
<1>5. CASE PlaceLevel
  <2>1. CASE UNCHANGED call
    BY <1>1, <1>2, <2>1 DEF RestInv, InRequest, Busy, Active
  <2>2. CASE \E o : Begin(Loop, "place", o)
    <3>1. call'[Loop].op = "place" /\ Made' = {} /\ phase' = "placing"
      BY <1>5, <2>2, EngineAssumption
      DEF Begin, TypeOK, PortTypeOK, Made, PlaceLevel
    <3> QED
      BY <1>2, <3>1 DEF RestInv, InRequest
  <2> QED
    BY <1>5, <2>1, <2>2 DEF PlaceLevel
<1> QED
  BY <1>3, <1>4, <1>5 DEF Pass

\* The order the answer names was created, and rests.
LEMMA PlacedRests ==
  ASSUME TypeOK, NameInv, RestInv, PlaceReturns
  PROVE  RestInv'
<1>1. /\ Return(Loop) /\ Busy /\ call[Loop].op = "place"
      /\ UNCHANGED <<phase, todo>>
  BY PlaceEnds DEF PlaceReturns
<1>2. ~Busy' /\ UNCHANGED live
  BY <1>1, ReturnClears
<1>3. phase = "placing" /\ todo = {}
  BY <1>1 DEF RestInv, InRequest, Fetched
<1>4. InRequest' /\ Fetched'
  BY <1>1, <1>2, <1>3 DEF InRequest, Fetched, Ids
<1>5. ASSUME NEW id \in Made, tracker' = Remember(tracker, [Await EXCEPT !.id = id])
      PROVE  Resting'
  <2> DEFINE o == [Await EXCEPT !.id = id]
  <2>1. Await \in Order
    BY <1>1, AwaitType
  <2>2. o.id = id
    BY <2>1 DEF Order
  <2>3. o \in live /\ id \notin Ids(tracker)
    BY <1>1, <1>3 DEF RestInv, InRequest
  <2> HIDE DEF o
  <2>4. tracker' \subseteq tracker \cup {o}
    BY <1>5 DEF Remember, Without, o
  <2>5. Rests(o, live)
    BY <2>3 DEF Rests
  <2> QED
    BY <1>1, <1>2, <1>3, <2>2, <2>3, <2>4, <2>5 DEF RestInv, Resting, Ids
<1>6. CASE UNCHANGED tracker
  <2>1. Resting'
    BY <1>1, <1>2, <1>3, <1>6 DEF RestInv, Resting
  <2> QED
    BY <1>4, <2>1 DEF RestInv
<1> QED
  BY <1>4, <1>5, <1>6 DEF RestInv, PlaceReturns

\* cancel_all: what it cancels is forgotten when the request is over.
LEMMA ClearRests ==
  ASSUME TypeOK, RestInv, ClearOrder
  PROVE  RestInv'
<1>1. PICK o \in tracker : Begin(Loop, "cancel", o)
  BY DEF ClearOrder, AllOrders
<1>2. /\ phase = "clearing" /\ ~Busy
      /\ UNCHANGED <<live, phase, tracker, todo>>
  BY DEF ClearOrder, engineVars
<1>3. call'[Loop].op = "cancel" /\ Await' = o
  BY <1>1, EngineAssumption DEF Begin, TypeOK, PortTypeOK, Await
<1> QED
  BY <1>2, <1>3 DEF RestInv, InRequest, Fetched, Resting

LEMMA CancelledRests ==
  ASSUME TypeOK, RestInv, CancelReturns
  PROVE  RestInv'
<1>1. /\ Return(Loop) /\ call[Loop].op = "cancel" /\ Busy
      /\ UNCHANGED <<phase, todo>>
  <2>1. Return(Loop) /\ call[Loop].op = "cancel"
    BY DEF CancelReturns, CancelReturnsTrue, CancelReturnsFalse
  <2> QED
    BY <2>1 DEF CancelReturns, Busy, NoCall
<1>2. ~Busy' /\ UNCHANGED live
  BY <1>1, ReturnClears
<1>3. tracker' \subseteq tracker
  BY DEF CancelReturns, Without
<1>4. phase = "clearing" => Await \notin tracker'
  BY DEF CancelReturns, Without, Slot
<1>5. InRequest' /\ Fetched'
  BY <1>1, <1>2, <1>3 DEF RestInv, InRequest, Fetched, Ids
<1>6. Resting'
  BY <1>1, <1>2, <1>3, <1>4 DEF RestInv, Resting
<1> QED
  BY <1>5, <1>6 DEF RestInv

\* A coroutine that stops inside a request leaves no request.
LEMMA AbandonClears ==
  ASSUME TypeOK, Abandon(Loop)
  PROVE  ~Busy' /\ Busy /\ UNCHANGED live
BY EngineAssumption DEF Abandon, Busy, TypeOK, PortTypeOK

LEMMA RaisedRests ==
  ASSUME TypeOK, RestInv, RequestRaises
  PROVE  RestInv'
<1>1. ~Busy' /\ Busy /\ UNCHANGED <<live, todo>>
  BY AbandonClears DEF RequestRaises
<1>2. CASE phase = "adopting" /\ UNCHANGED <<tracker, phase>>
  BY <1>1, <1>2 DEF RestInv, InRequest, Fetched, Resting
<1>3. CASE phase \in {"pulling", "placing"} /\ phase' = "idle" /\ UNCHANGED tracker
  BY <1>1, <1>3 DEF RestInv, InRequest, Fetched, Resting, Ids
<1>4. CASE phase = "clearing" /\ phase' = "off" /\ tracker' = {}
  BY <1>1, <1>4 DEF RestInv, InRequest, Fetched, Resting, Ids
<1> QED
  BY <1>2, <1>3, <1>4 DEF RequestRaises, LeavePass

LEMMA NextRests ==
  ASSUME Undisturbed, TypeOK, NameInv, RestInv, [Next]_vars
  PROVE  RestInv'
<1>1. CASE UNCHANGED vars \/ BookMoves
  BY <1>1 DEF vars, portVars, engineVars, BookMoves, RestInv, InRequest, Fetched,
     Resting, Busy, Await, Made
<1>2. CASE Launch
  <2>1. ~Busy /\ ~Busy' /\ todo = {}
    BY <1>2 DEF Launch, portVars, RestInv, InRequest, Fetched, Busy
  <2> QED
    BY <1>2, <2>1, QuietRests DEF Launch, portVars
<1>3. CASE FetchOpenOrders
  <2>1. /\ ~Busy' /\ tracker' = {} /\ todo' \subseteq live /\ UNCHANGED live
        /\ phase' = "adopting"
    BY <1>3 DEF FetchOpenOrders, portVars, RestInv, InRequest, Fetched, Busy
  <2> QED
    BY <2>1 DEF RestInv, InRequest, Fetched, Resting, Ids
<1>4. CASE StartLoop \/ Stop \/ Cleared
  <2>1. ~Busy /\ UNCHANGED portVars
    BY <1>4 DEF StartLoop, Stop, Cleared, RestInv, InRequest
  <2>2. ~Busy' /\ UNCHANGED live
    BY <2>1 DEF portVars, Busy
  <2>3. tracker' \subseteq tracker /\ phase' # "fetching" /\ todo' = {}
    BY <1>4 DEF StartLoop, Stop, Cleared, WindDown, Endings, RestInv, Fetched
  <2> QED
    BY <2>1, <2>2, <2>3, QuietRests
<1>5. CASE Crash
  <2>1. ~Busy' /\ UNCHANGED live
    BY <1>5, AbandonClears DEF Crash, portVars, Busy
  <2> QED
    BY <1>5, <2>1 DEF Crash, RestInv, InRequest, Fetched, Resting, Ids
<1>6. ~QuoteFilled /\ ~Interrupt
  BY DEF Undisturbed, QuoteFilled, Interrupt
<1>7. ~AttemptStrays
  BY DEF Undisturbed, AttemptStrays, Lag, PutOff
<1> QED
  BY <1>1, <1>2, <1>3, <1>4, <1>5, <1>6, <1>7, ServedRests, AdoptRests, PassRests,
     PlacedRests, CancelledRests, RaisedRests, ClearRests DEF Next

(***************************************************************************)
(* As long as nobody trades against them and no coroutine is cut off       *)
(* inside a request, the orders of OrderTracker do rest on my_cex with the *)
(* side and amount it has: place_order's answer, adoption and the order of *)
(* tracker updates and requests in _cancel and cancel_all keep it so,      *)
(* although answers are lost, cancels refused and processes crash.         *)
(***************************************************************************)
THEOREM NoPhantomsCorrect ==
  ASSUME Undisturbed
  PROVE  Spec => []NoPhantoms
<1>1. Init => TypeOK /\ NameInv /\ RestInv
  BY InitType, InitNames, InitRests
<1>2. TypeOK /\ NameInv /\ RestInv /\ [Next]_vars => (TypeOK /\ NameInv /\ RestInv)'
  BY NextType, NextNames, NextRests
<1>3. RestInv => NoPhantoms
  BY DEF RestInv, Resting, Rests, NoPhantoms, InFlight
<1> QED
  BY <1>1, <1>2, <1>3, PTL DEF Spec
=============================================================================
