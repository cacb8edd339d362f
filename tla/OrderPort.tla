------------------------------ MODULE OrderPort ------------------------------
(***************************************************************************)
(* The order service of my_cex seen through MyCexClient: what a caller of  *)
(* place_order and cancel_order can rely on, and nothing else.  A call is  *)
(* a sequence of at most MaxRetries HTTP attempts, each of which the       *)
(* service may carry out whether or not its answer comes back, and even    *)
(* after the call has given it up.  The modules of the callers extend this *)
(* one; AnsweredPort adds what a caller is told, and MyCexClient is how    *)
(* the client gets there (attempts, back-off, semaphore).                  *)
(*                                                                         *)
(* Faults names what may go wrong in a behaviour:                          *)
(*   "reject"  place_order returns None and nothing was created            *)
(*   "lost"    an attempt was carried out but its answer never arrived     *)
(*   "refuse"  cancel_order returns False and the order still rests        *)
(* The modules that build on this one add fault kinds of their own.        *)
(***************************************************************************)
EXTENDS Naturals, FiniteSets

CONSTANTS
  Caller,      \* the coroutines that call the client
  OrderId,     \* exchange order ids
  NoId,        \* the id of an order the service has not created
  NoOrder,     \* the order of a caller that is not in a call
  Price, Amount,
  MaxRetries,  \* attempts per call (mycex.max_retries)
  Faults,      \* the fault kinds that may occur
  Late,        \* bound: how many given-up attempts may be under way
  LeftBehind   \* the orders an earlier process left resting

Side == {"buy", "sell"}

\* RestingOrder: exchange_order_id, side, price, amount.
Order == [id: OrderId \cup {NoId}, side: Side, price: Price, amount: Amount]

Ids(orders) == {o.id : o \in orders}

ASSUME PortAssumption ==
  /\ NoId \notin OrderId
  /\ NoOrder \notin Order
  /\ MaxRetries \in Nat \ {0}
  /\ LeftBehind \subseteq {o \in Order : o.id # NoId}
  /\ \A x, y \in LeftBehind : x.id = y.id => x = y

VARIABLES
  live,  \* the orders resting on my_cex for this market
  call,  \* per caller: the call it awaits
  late   \* the attempts given up while they were on their way

portVars == <<live, call, late>>

\* A caller that awaits nothing.
NoCall == [op |-> "none", order |-> NoOrder, made |-> {}]

\* order is the request's argument, with NoId in a place request; made are
\* the orders the service has created for the attempts of the call.
Call == {NoCall}
          \cup [op: {"place", "cancel"}, order: Order, made: SUBSET OrderId]

PortTypeOK ==
  /\ live \in SUBSET Order
  /\ call \in [Caller -> Call]
  /\ late \in [Late -> Order \cup {NoOrder}]

PortInit ==
  /\ live = LeftBehind
  /\ call = [c \in Caller |-> NoCall]
  /\ late = [k \in Late |-> NoOrder]

-----------------------------------------------------------------------------
\* A coroutine reaches `await client.place_order(...)` or cancel_order.
Begin(c, op, o) ==
  /\ call[c] = NoCall
  /\ call' = [call EXCEPT ![c] = [op |-> op, order |-> o, made |-> {}]]

\* POST: a new order; DELETE: an order less, if it still rests.
Created(o, id) == live \cup {[o EXCEPT !.id = id]}
Deleted(o) == {x \in live : x.id # o.id}

\* The service carries out an attempt the client still waits for.
PlaceServed(c, id) ==
  /\ call[c].op = "place"
  /\ Cardinality(call[c].made) < MaxRetries
  /\ call[c].made # {} => "lost" \in Faults
  /\ id \in OrderId \ (Ids(live) \cup call[c].made)
  /\ live' = Created(call[c].order, id)
  /\ call' = [call EXCEPT ![c].made = @ \cup {id}]
  /\ UNCHANGED late

CancelServed(c) ==
  /\ call[c].op = "cancel"
  /\ call[c].order.id \in Ids(live)
  /\ live' = Deleted(call[c].order)
  /\ UNCHANGED <<call, late>>

\* An attempt of c is given up while it is still on its way.
PutOff(c) ==
  \E k \in Late : /\ late[k] = NoOrder
                  /\ late' = [late EXCEPT ![k] = call[c].order]

Lag(c) ==
  /\ call[c] # NoCall
  /\ PutOff(c)
  /\ UNCHANGED <<live, call>>

\* ... and the service carries it out in the end.
LateServed(k, id) ==
  /\ late[k] # NoOrder
  /\ late' = [late EXCEPT ![k] = NoOrder]
  /\ IF late[k].id = NoId
       THEN id \in OrderId \ Ids(live) /\ live' = Created(late[k], id)
       ELSE live' = Deleted(late[k])
  /\ UNCHANGED call

Return(c) ==
  /\ call' = [call EXCEPT ![c] = NoCall]
  /\ UNCHANGED <<live, late>>

\* place_order returns the id of the order the answered attempt created.
PlaceReturnsId(c, id) ==
  /\ call[c].op = "place"
  /\ id \in call[c].made
  /\ Return(c)

\* place_order returns None: refused, or every answer was lost.
PlaceReturnsNone(c) ==
  /\ call[c].op = "place"
  /\ IF call[c].made = {} THEN "reject" \in Faults ELSE "lost" \in Faults
  /\ Return(c)

\* cancel_order returns True: deleted, or "not found" because it was gone.
CancelReturnsTrue(c) ==
  /\ call[c].op = "cancel"
  /\ call[c].order.id \notin Ids(live)
  /\ Return(c)

\* cancel_order returns False.
CancelReturnsFalse(c) ==
  /\ call[c].op = "cancel"
  /\ \/ "refuse" \in Faults
     \/ "lost" \in Faults /\ call[c].order.id \notin Ids(live)
  /\ Return(c)

\* The awaiting coroutine is cancelled, or an exception other than MyCexError
\* leaves the call: the caller never learns what becomes of its attempt.
Abandon(c) ==
  /\ call[c] # NoCall
  /\ call' = [call EXCEPT ![c] = NoCall]
  /\ UNCHANGED late \/ PutOff(c)
  /\ UNCHANGED live

\* Someone trades against a resting order and takes it off the book.
Fill(o) ==
  /\ o \in live
  /\ live' = live \ {o}
  /\ UNCHANGED <<call, late>>
=============================================================================
