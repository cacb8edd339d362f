--------------------------- MODULE TradeTapeProofs ---------------------------
(***************************************************************************)
(* The throttle and the filter of market orders, for every interval, every *)
(* set of trades and every rules, under every fault.                       *)
(***************************************************************************)
EXTENDS TradeTape, DataLemmas

\* Tape orders by the time their callback read: what the callback was told of was
\* executed before the next one began, an interval later.
After(x, b) == x.began < b /\ x.heard => x.time <= b /\ b - x.began >= Gap

\* An executed order, the callback that runs or ran last, and the throttle.
Placed(x, ids, time, start, throttle, made) ==
  /\ x.id \in ids
  /\ x.began <= x.time /\ x.time <= time
  /\ x.began <= start
  /\ x.heard => x.began <= throttle /\ (x.began < start => x.time <= start)
  /\ x.id \in made => x.began = start

\* What MirrorsTheTrade says of one order.
Mirrors(side, amount, t) ==
  /\ side = IF t.buyerMaker THEN "sell" ELSE "buy"
  /\ Rules.max > 0 => amount <= Rules.max
  /\ t.price * amount >= Rules.minNotional
  /\ \/ amount = Rules.max
     \/ 2 * (amount - t.amount)
          \in -Rules.amountStep.unit + 1 .. Rules.amountStep.unit

\* What is still on its way.
OnItsWay(k) ==
  late[k] # NoOrder =>
    /\ late[k].id = NoId /\ origin[k].trade \in RawTrade
    /\ origin[k].began <= began
    /\ \A x \in tape : After(x, origin[k].began)
    /\ Mirrors(late[k].side, late[k].amount, origin[k].trade)

Inv ==
  /\ TypeOK
  /\ \A x \in tape :
       /\ Placed(x, Port!Ids(executed), now, began, last, Made)
       /\ Mirrors(x.side, x.amount, x.trade)
  /\ \A x, y \in tape : After(x, y.began)
  /\ Busy => /\ call[Tape].op = "place"
             /\ call[Tape].order.id = NoId
             /\ Made \subseteq Port!Ids(executed)
             /\ began - last >= Gap
             /\ Mirrors(call[Tape].order.side, call[Tape].order.amount, trade)
  /\ \A k \in Late : OnItsWay(k)

\* The parts of TypeOK that steps change.
LEMMA Types ==
  ASSUME TypeOK
  PROVE  /\ call[Tape] \in Port!Call /\ call \in [{Tape} -> Port!Call]
         /\ executed \subseteq Port!Order
         /\ now \in Nat /\ last \in Nat /\ began \in Nat
         /\ last <= now /\ began <= now
         /\ late \in [Late -> Port!Order \cup {NoOrder}]
         /\ \A x \in tape : x.began \in Nat /\ x.time \in Nat
         /\ \A k \in Late : origin[k].began \in Nat
  BY TapeAssumption DEF TypeOK, Port!PortTypeOK

LEMMA Asked ==
  ASSUME NEW t \in RawTrade, NEW level \in ToSet(PrepareMarketAmount(t, Rules))
  PROVE  /\ level.amount \in Amount
         /\ Mirrors(SameSide(t), level.amount, t)
<1>1. /\ level = QuantizedLevel(t, Rules)
      /\ EnoughNotional(level.price, level.amount, Rules.minNotional)
  <2>1. ToSet(<< >>) = {} /\ \A l : ToSet(<<l>>) = {l}
    BY DEF ToSet
  <2> QED
    BY <2>1 DEF PrepareMarketAmount
<1>2. t.price \in Nat /\ t.amount \in Nat /\ Rules \in TradingRules
  BY TapeAssumption
<1>3. /\ level \in [price: Nat, amount: Nat]
      /\ Rules.max > 0 => level.amount <= Rules.max
      /\ t.price - level.price \in 0 .. Rules.priceTick.unit - 1
      /\ \/ level.amount = Rules.max
         \/ 2 * (level.amount - t.amount)
              \in -Rules.amountStep.unit + 1 .. Rules.amountStep.unit
  BY <1>1, <1>2, LevelFacts
<1>4. t.price * level.amount >= Rules.minNotional
  <2>1. Rules.minNotional \in Nat /\ Rules.priceTick.unit \in Nat
    BY <1>2 DEF TradingRules
  <2>2. level.price <= t.price /\ level.price \in Nat /\ level.amount \in Nat
    BY <1>2, <1>3, <2>1
  <2> QED
    BY <1>1, <1>2, <2>1, <2>2, WorthMore
<1>5. level.amount \in Amount
  BY <1>1, TapeAssumption
<1> QED
  BY <1>3, <1>4, <1>5 DEF Mirrors, SameSide

-----------------------------------------------------------------------------
(* Initially, and step by step.                                            *)

LEMMA InitInv == Init => Inv
<1> SUFFICES ASSUME Init PROVE Inv
  OBVIOUS
<1>1. Port!PortTypeOK /\ call[Tape] = Port!NoCall
  BY DEF Init, Port!PortInit, Port!PortTypeOK, Port!Call
<1>2. TypeOK
  BY <1>1, TapeAssumption DEF Init, TypeOK, Busy, Origin
<1> QED
  BY <1>1, <1>2 DEF Init, Inv, Busy, Made, OnItsWay, Port!PortInit

\* Tape and callback as they were: only the clock may go on.
LEMMA ClockGoesOn ==
  ASSUME Inv, UNCHANGED <<portVars, last, began, trade, origin, tape>>,
         now' \in now .. MaxTime
  PROVE  Inv'
<1>1. TypeOK'
  BY Types, TapeAssumption DEF Inv, TypeOK, Port!PortTypeOK, Busy, portVars
<1>2. now' \in Nat /\ now <= now'
  BY Types, TapeAssumption DEF Inv
<1>3. \A x \in tape : Placed(x, Port!Ids(executed), now', began, last, Made)
  BY <1>2, Types DEF Inv, Placed
<1> QED
  BY <1>1, <1>3 DEF Inv, Busy, Made, After, Mirrors, OnItsWay, portVars

LEMMA OnPublicTradeStep ==
  ASSUME Inv, OnPublicTrade
  PROVE  Inv'
<1>0. PICK t \in RawTrade : \E level \in ToSet(PrepareMarketAmount(t, Rules)) :
        /\ Port!Begin(Tape, "place", [id |-> NoId, side |-> SameSide(t),
                                      price |-> Market, amount |-> level.amount])
        /\ trade' = t
  BY DEF OnPublicTrade
<1>1. PICK level \in ToSet(PrepareMarketAmount(t, Rules)) :
        /\ Port!Begin(Tape, "place", [id |-> NoId, side |-> SameSide(t),
                                      price |-> Market, amount |-> level.amount])
        /\ trade' = t
  BY <1>0
<1> DEFINE o == [id |-> NoId, side |-> SameSide(t), price |-> Market,
                 amount |-> level.amount]
<1>2. level.amount \in Amount /\ Mirrors(SameSide(t), level.amount, t)
  BY Asked
<1>3. /\ o \in Port!Order /\ o.side = SameSide(t) /\ o.amount = level.amount
      /\ o.id = NoId
  BY <1>2 DEF Port!Order, Port!Side, SameSide
<1>4. call'[Tape] = [op |-> "place", order |-> o, made |-> {}]
  BY <1>1, Types DEF Port!Begin, Inv
<1>5. /\ UNCHANGED <<executed, late, now, last, origin, tape>> /\ began' = now
      /\ now - last >= Gap
  BY DEF OnPublicTrade, Due
<1> HIDE DEF o
<1>6. /\ call'[Tape].op = "place" /\ call'[Tape].order = o /\ call'[Tape].made = {}
      /\ call'[Tape] \in Port!Call /\ call'[Tape] # Port!NoCall
      /\ call' \in [{Tape} -> Port!Call]
  <2>1. call'[Tape] \in Port!Call /\ call'[Tape].op # Port!NoCall.op
    BY <1>3, <1>4 DEF Port!Call, Port!NoCall
  <2> QED
    BY <1>1, <1>4, <2>1, Types DEF Port!Begin, Inv
<1>7. trade' = t /\ t # NoOrder
  BY <1>1, TapeAssumption
<1>8. TypeOK'
  BY <1>5, <1>6, <1>7, Types DEF Inv, TypeOK, Port!PortTypeOK, Busy
<1>9. \A x \in tape : Placed(x, Port!Ids(executed), now, now, last, {})
  BY Types, <1>5 DEF Inv, Placed
<1>10. Mirrors(call'[Tape].order.side, call'[Tape].order.amount, trade')
  BY <1>2, <1>3, <1>6, <1>7
<1>11. \A k \in Late : OnItsWay(k)'
  BY <1>5, Types DEF Inv, OnItsWay, Mirrors, After
<1> QED
  BY <1>3, <1>5, <1>6, <1>8, <1>9, <1>10, <1>11 DEF Inv, Busy, Made, After, Mirrors

LEMMA ExecutesStep ==
  ASSUME Inv, Executes
  PROVE  Inv'
<1>1. PICK id \in FreshIds :
        /\ Port!PlaceServed(Tape, id)
        /\ tape' = tape \cup {Entry(id, call[Tape].order, Origin(began, trade))}
        /\ UNCHANGED <<now, last, began, trade, origin>>
  BY DEF Executes
<1> DEFINE z == Entry(id, call[Tape].order, Origin(began, trade))
           n == [call[Tape].order EXCEPT !.id = id]
<1>2. /\ id \in OrderId /\ id \notin Port!Ids(executed)
      /\ call[Tape].op = "place" /\ late' = late
      /\ executed' = executed \cup {n}
      /\ call' = [call EXCEPT ![Tape].made = @ \cup {id}]
  BY <1>1 DEF FreshIds, Port!PlaceServed, Port!Created
<1>3. /\ call[Tape].order \in Port!Order /\ call[Tape].made \subseteq OrderId
      /\ call[Tape] \in [op: {"place", "cancel"}, order: Port!Order,
                         made: SUBSET OrderId]
      /\ Busy /\ trade \in RawTrade
  BY <1>2, Types DEF Inv, TypeOK, Port!Call, Port!NoCall, Busy
<1>4. /\ call'[Tape] \in [op: {"place", "cancel"}, order: Port!Order,
                          made: SUBSET OrderId]
      /\ call'[Tape].op = "place" /\ call'[Tape].order = call[Tape].order
      /\ call'[Tape].made = call[Tape].made \cup {id}
      /\ call' \in [{Tape} -> Port!Call]
  BY <1>2, <1>3, Types DEF Inv, Port!Call
<1>5. call'[Tape] # Port!NoCall
  BY <1>4 DEF Port!NoCall
<1>6. n \in Port!Order /\ n.id = id
  BY <1>2, <1>3 DEF Port!Order
<1>7. z \in [id: OrderId, began: Nat, time: Nat, trade: RawTrade,
             side: Port!Side, amount: Amount, heard: BOOLEAN]
  BY <1>2, <1>3, Types DEF Inv, Port!Order, Entry, Origin
<1>8. /\ tape' = tape \cup {z} /\ z.id = id /\ z.began = began /\ z.time = now
      /\ z.trade = trade /\ z.side = call[Tape].order.side
      /\ z.amount = call[Tape].order.amount /\ z.heard = FALSE
  BY <1>1 DEF Entry, Origin
<1> HIDE DEF z, n
<1>9. TypeOK'
  <2>1. Port!PortTypeOK'
    BY <1>2, <1>4, <1>6 DEF Inv, TypeOK, Port!PortTypeOK
  <2> QED
    BY <1>1, <1>3, <1>5, <1>7, <1>8, <2>1 DEF Inv, TypeOK, Busy
<1>10. Port!Ids(executed') = Port!Ids(executed) \cup {id}
  BY <1>2, <1>6 DEF Port!Ids
<1>11. \A x \in tape' : Placed(x, Port!Ids(executed'), now, began, last, Made')
  <2>1. \A x \in tape : Placed(x, Port!Ids(executed'), now, began, last, Made')
    BY <1>2, <1>4, <1>10 DEF Inv, Placed, Made
  <2>2. Placed(z, Port!Ids(executed'), now, began, last, Made')
    BY <1>8, <1>10, Types DEF Inv, Placed
  <2> QED
    BY <1>8, <2>1, <2>2
<1>12. \A x, y \in tape' : After(x, y.began)
  <2>1. \A x \in tape : After(x, z.began)
    <3> SUFFICES ASSUME NEW x \in tape, x.began < began
                 PROVE  x.heard => x.time <= began /\ began - x.began >= Gap
      BY <1>8 DEF After
    <3>1. /\ x.heard => x.began <= last /\ x.time <= began
          /\ began - last >= Gap
      BY <1>3 DEF Inv, Placed
    <3>2. x.began \in Nat /\ began \in Nat /\ last \in Nat /\ Gap \in Nat
      BY Types, TapeAssumption DEF Inv
    <3> QED
      BY <3>1, <3>2
  <2>2. \A y \in tape' : After(z, y.began)
    BY <1>8, Types DEF Inv, Placed, After
  <2> QED
    BY <1>8, <2>1, <2>2 DEF Inv
<1>13. \A x \in tape' : Mirrors(x.side, x.amount, x.trade)
  BY <1>3, <1>8 DEF Inv
<1>14. \A k \in Late : OnItsWay(k)'
  BY <1>1, <1>2, <1>8 DEF Inv, OnItsWay, After
<1>15. Made' \subseteq Port!Ids(executed')
  BY <1>2, <1>3, <1>4, <1>10 DEF Inv, Made
<1> QED
  BY <1>1, <1>2, <1>3, <1>4, <1>9, <1>11, <1>12, <1>13, <1>14, <1>15 DEF Inv, Busy

LEMMA AcknowledgedStep ==
  ASSUME Inv, Acknowledged
  PROVE  Inv'
<1> DEFINE Heard(x) == IF x.id \in Made THEN [x EXCEPT !.heard = TRUE] ELSE x
<1>1. /\ call' = [call EXCEPT ![Tape] = Port!NoCall] /\ last' = began
      /\ tape' = {Heard(x) : x \in tape} /\ trade' = NoOrder
      /\ UNCHANGED <<executed, late, now, began, origin>>
  BY DEF Acknowledged, IntervalStart, Port!PlaceReturnsId, Port!Return
<1>2. /\ call'[Tape] = Port!NoCall /\ call' \in [{Tape} -> Port!Call]
      /\ Made' = {}
  BY <1>1, Types DEF Inv, Port!Call, Port!NoCall, Made
<1>3. \A x \in tape :
        /\ Heard(x) \in [id: OrderId, began: Nat, time: Nat, trade: RawTrade,
                         side: Port!Side, amount: Amount, heard: BOOLEAN]
        /\ Heard(x).id = x.id /\ Heard(x).began = x.began
        /\ Heard(x).time = x.time /\ Heard(x).trade = x.trade
        /\ Heard(x).side = x.side /\ Heard(x).amount = x.amount
        /\ Heard(x).heard => x.heard \/ x.id \in Made
  BY DEF Inv, TypeOK
<1> HIDE DEF Heard
<1>4. TypeOK'
  BY <1>1, <1>2, <1>3 DEF Inv, TypeOK, Port!PortTypeOK, Busy
<1>5. \A x \in tape : Placed(Heard(x), Port!Ids(executed), now, began, began, {})
  BY <1>3, Types DEF Inv, Placed
<1>6. \A x, y \in tape : After(Heard(x), Heard(y).began)
  BY <1>3, Types DEF Inv, Placed, After
<1>7. \A x \in tape : Mirrors(Heard(x).side, Heard(x).amount, Heard(x).trade)
  BY <1>3 DEF Inv
<1>8. \A k \in Late : OnItsWay(k)'
  <2> SUFFICES ASSUME NEW k \in Late, late[k] # NoOrder,
                      NEW x \in tape
               PROVE  After(Heard(x), origin[k].began)
    BY <1>1 DEF Inv, OnItsWay
  <2>1. After(x, origin[k].began) /\ origin[k].began <= began
    BY DEF Inv, OnItsWay
  <2>2. x.id \in Made => x.began = began
    BY DEF Inv, Placed
  <2> QED
    BY <1>3, <2>1, <2>2, Types DEF Inv, After
<1> QED
  BY <1>1, <1>2, <1>4, <1>5, <1>6, <1>7, <1>8 DEF Inv, Busy

\* An attempt of the callback that runs goes its own way, or none does.
LEMMA Straying ==
  ASSUME Inv, Busy, Remembers, Port!PutOff(Tape) \/ UNCHANGED late,
         UNCHANGED <<began, tape>>
  PROVE  /\ late' \in [Late -> Port!Order \cup {NoOrder}]
         /\ origin' \in [Late -> [began: Nat, trade: RawTrade \cup {NoOrder}]]
         /\ \A k \in Late : OnItsWay(k)'
<1>1. /\ call[Tape].order \in Port!Order /\ call[Tape].order.id = NoId
      /\ trade \in RawTrade
      /\ Mirrors(call[Tape].order.side, call[Tape].order.amount, trade)
  BY Types DEF Inv, TypeOK, Port!Call, Port!NoCall, Busy
<1>2. late' \in [Late -> Port!Order \cup {NoOrder}]
  BY <1>1, Types DEF Inv, Port!PutOff
<1>3. Origin(began, trade) \in [began: Nat, trade: RawTrade \cup {NoOrder}]
  BY <1>1, Types DEF Inv, Origin
<1>4. origin' \in [Late -> [began: Nat, trade: RawTrade \cup {NoOrder}]]
  BY <1>3 DEF Remembers, Inv, TypeOK
<1>5. \A x \in tape : After(x, began)
  <2> SUFFICES ASSUME NEW x \in tape PROVE After(x, began)
    OBVIOUS
  <2>1. /\ x.heard => x.began <= last /\ (x.began < began => x.time <= began)
        /\ began - last >= Gap
    BY DEF Inv, Placed
  <2> QED
    BY <2>1, Types, TapeAssumption DEF Inv, After
<1>6. ASSUME NEW k \in Late PROVE OnItsWay(k)'
  <2>1. CASE late'[k] = late[k]
    <3>1. origin'[k] = origin[k]
      BY <2>1 DEF Remembers
    <3> QED
      BY <2>1, <3>1 DEF Inv, OnItsWay, After, Mirrors
  <2>2. CASE late'[k] # late[k]
    <3>1. late'[k] = call[Tape].order
      BY <2>2, Types DEF Inv, Port!PutOff
    <3>2. origin'[k].began = began /\ origin'[k].trade = trade
      BY <2>2 DEF Remembers, Origin
    <3>3. began <= began'
      BY Types DEF Inv
    <3> QED
      BY <1>1, <1>5, <3>1, <3>2, <3>3 DEF OnItsWay, After, Mirrors
  <2> QED
    BY <2>1, <2>2
<1> QED
  BY <1>2, <1>4, <1>6

LEMMA StraysStep ==
  ASSUME Inv, Strays
  PROVE  Inv'
<1>1. /\ Busy /\ Remembers /\ Port!PutOff(Tape)
      /\ UNCHANGED <<executed, call, now, last, began, trade, tape>>
  BY DEF Strays, Port!Lag, Busy
<1>2. /\ late' \in [Late -> Port!Order \cup {NoOrder}]
      /\ origin' \in [Late -> [began: Nat, trade: RawTrade \cup {NoOrder}]]
      /\ \A k \in Late : OnItsWay(k)'
  BY <1>1, Straying
<1>3. TypeOK'
  BY <1>1, <1>2 DEF Inv, TypeOK, Port!PortTypeOK, Busy
<1> QED
  BY <1>1, <1>2, <1>3 DEF Inv, Busy, Made, After, Mirrors

LEMMA ExecutesLateStep ==
  ASSUME Inv, ExecutesLate
  PROVE  Inv'
<1>1. PICK id \in FreshIds, k \in Late :
        /\ Port!LateServed(k, id)
        /\ tape' = tape \cup {Entry(id, late[k], origin[k])}
        /\ origin' = [origin EXCEPT ![k] = Origin(0, NoOrder)]
        /\ UNCHANGED <<now, last, began, trade>>
  BY DEF ExecutesLate
<1> DEFINE z == Entry(id, late[k], origin[k])
           n == [late[k] EXCEPT !.id = id]
<1>2. late[k] # NoOrder /\ OnItsWay(k)
  BY <1>1 DEF Port!LateServed, Inv
<1>3. /\ late[k] \in Port!Order /\ late[k].id = NoId
      /\ origin[k].trade \in RawTrade /\ origin[k].began <= began
      /\ Mirrors(late[k].side, late[k].amount, origin[k].trade)
      /\ \A x \in tape : After(x, origin[k].began)
  BY <1>2, Types DEF Inv, OnItsWay
<1>4. /\ id \in OrderId /\ id \notin Port!Ids(executed)
      /\ late' = [late EXCEPT ![k] = NoOrder]
      /\ executed' = executed \cup {n} /\ call' = call
  BY <1>1, <1>3 DEF FreshIds, Port!LateServed, Port!Created
<1>5. n \in Port!Order /\ n.id = id
  BY <1>3, <1>4 DEF Port!Order
<1>6. /\ z.id = id /\ z.began = origin[k].began /\ z.time = now
      /\ z.trade = origin[k].trade /\ z.side = late[k].side
      /\ z.amount = late[k].amount /\ z.heard = FALSE
      /\ tape' = tape \cup {z}
  BY <1>1 DEF Entry
<1>7. z \in [id: OrderId, began: Nat, time: Nat, trade: RawTrade,
             side: Port!Side, amount: Amount, heard: BOOLEAN]
  BY <1>3, <1>4, Types DEF Inv, Port!Order, Entry
<1> HIDE DEF z, n
<1>8. Port!Ids(executed') = Port!Ids(executed) \cup {id}
  BY <1>4, <1>5 DEF Port!Ids
<1>9. TypeOK'
  <2>1. Port!PortTypeOK'
    BY <1>4, <1>5 DEF Inv, TypeOK, Port!PortTypeOK
  <2>2. origin' \in [Late -> [began: Nat, trade: RawTrade \cup {NoOrder}]]
    BY <1>1 DEF Inv, TypeOK, Origin
  <2> QED
    BY <1>1, <1>4, <1>6, <1>7, <2>1, <2>2 DEF Inv, TypeOK, Busy
<1>10. id \notin Made
  BY <1>4 DEF Inv, Busy, Made, Port!NoCall
<1>11. \A x \in tape' : Placed(x, Port!Ids(executed'), now, began, last, Made)
  <2>1. \A x \in tape : Placed(x, Port!Ids(executed'), now, began, last, Made)
    BY <1>8 DEF Inv, Placed
  <2>2. Placed(z, Port!Ids(executed'), now, began, last, Made)
    BY <1>3, <1>6, <1>8, <1>10, Types DEF Inv, Placed
  <2> QED
    BY <1>6, <2>1, <2>2
<1>12. \A x, y \in tape' : After(x, y.began)
  BY <1>3, <1>6 DEF Inv, After
<1>13. \A x \in tape' : Mirrors(x.side, x.amount, x.trade)
  BY <1>3, <1>6 DEF Inv
<1>14. \A j \in Late : OnItsWay(j)'
  <2> SUFFICES ASSUME NEW j \in Late, late'[j] # NoOrder PROVE OnItsWay(j)'
    BY DEF OnItsWay
  <2>1. late'[j] = late[j] /\ origin'[j] = origin[j]
    BY <1>1, <1>4, Types DEF Inv, TypeOK
  <2>2. OnItsWay(j) /\ \A x \in tape' : After(x, origin[j].began)
    BY <1>6, <2>1 DEF Inv, OnItsWay, After
  <2> QED
    BY <1>1, <2>1, <2>2 DEF OnItsWay, After, Mirrors
<1> QED
  BY <1>1, <1>4, <1>8, <1>9, <1>11, <1>12, <1>13, <1>14
     DEF Inv, Busy, Made, After, Mirrors

LEMMA UnacknowledgedStep ==
  ASSUME Inv, Unacknowledged
  PROVE  Inv'
<1>1. /\ call' = [call EXCEPT ![Tape] = Port!NoCall] /\ executed' = executed
      /\ Port!PutOff(Tape) \/ UNCHANGED late
      /\ Busy /\ Remembers /\ trade' = NoOrder
      /\ UNCHANGED <<now, last, began, tape>>
  BY DEF Unacknowledged, Port!PlaceReturnsNone, Port!Return, Port!Abandon, Busy,
     Port!NoCall
<1>2. /\ call'[Tape] = Port!NoCall /\ call' \in [{Tape} -> Port!Call]
      /\ Made' = {}
  BY <1>1, Types DEF Inv, Port!Call, Port!NoCall, Made
<1>3. /\ late' \in [Late -> Port!Order \cup {NoOrder}]
      /\ origin' \in [Late -> [began: Nat, trade: RawTrade \cup {NoOrder}]]
      /\ \A k \in Late : OnItsWay(k)'
  BY <1>1, Straying
<1>4. TypeOK'
  BY <1>1, <1>2, <1>3 DEF Inv, TypeOK, Port!PortTypeOK, Busy
<1>5. \A x \in tape : Placed(x, Port!Ids(executed), now, began, last, {})
  BY DEF Inv, Placed
<1> QED
  BY <1>1, <1>2, <1>3, <1>4, <1>5 DEF Inv, Busy, After, Mirrors

LEMMA StepInv == Inv /\ [Next]_vars => Inv'
<1> SUFFICES ASSUME Inv, [Next]_vars PROVE Inv'
  OBVIOUS
<1>1. CASE TimePasses \/ UNCHANGED vars
  <2>1. now' \in now .. MaxTime
    BY <1>1, Types, TapeAssumption DEF Inv, TypeOK, TimePasses, vars
  <2> QED
    BY <1>1, <2>1, ClockGoesOn DEF TimePasses, vars, portVars
<1> QED
  BY <1>1, OnPublicTradeStep, ExecutesStep, StraysStep, ExecutesLateStep,
     AcknowledgedStep, UnacknowledgedStep DEF Next

LEMMA Invariant == Spec => []Inv
  BY InitInv, StepInv, PTL DEF Spec

-----------------------------------------------------------------------------
\* Every market order is for a public trade the callback has looked at, and the
\* callback awaits one call at a time.
THEOREM TypeCorrect == Spec => []TypeOK
<1>1. Inv => TypeOK
  BY DEF Inv
<1> QED
  BY <1>1, Invariant, PTL

\* The throttle of on_public_trade, for every interval: of three callbacks the
\* first two of which were told of their orders, the orders of the first and the
\* last are an interval apart, whatever is lost, retried, cancelled or late.
THEOREM TwoTradesPerGapCorrect == Spec => []TwoTradesPerGap
<1>1. Inv => TwoTradesPerGap
  BY Types, TapeAssumption DEF Inv, TwoTradesPerGap, After, Placed
<1> QED
  BY <1>1, Invariant, PTL

\* prepare_market_amount and on_public_trade: the aggressor's side, within the
\* cap, worth the minimum, and half a step at most from the trade, for every order
\* the service executes, one the client has given up long ago included.
THEOREM MirrorsTheTradeCorrect == Spec => []MirrorsTheTrade
<1>1. Inv => MirrorsTheTrade
  BY DEF Inv, MirrorsTheTrade, Mirrors
<1> QED
  BY <1>1, Invariant, PTL
=============================================================================
