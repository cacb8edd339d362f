----------------------------- MODULE MyCexClient -----------------------------
(***************************************************************************)
(* MyCexClient: the requests of every engine and of the pair manager       *)
(* through _request, its semaphore, its back-off and its retries.          *)
(*                                                                         *)
(* "get" stands for the read-only requests (exchange_info, open_orders).   *)
(* Faults are those of OrderPort; here they say what may happen to an      *)
(* attempt: "reject" and "refuse" that a POST or a DELETE is not carried   *)
(* out, "lost" that it is and the answer is not usable (5xx, timeout, no   *)
(* orderID).  The module implements AnsweredPort.                          *)
(***************************************************************************)
EXTENDS Naturals, FiniteSets, Sequences, SequencesExt

CONSTANTS Caller, OrderId, NoId, NoOrder, Price, Amount, MaxRetries, Faults,
          Late, LeftBehind,
          MaxConcurrency   \* permits of the semaphore

VARIABLES
  live, late,  \* the service, as in OrderPort
  told,        \* per caller: what place_order or cancel_order returned
  req,         \* per caller: the request it awaits
  free,        \* permits nobody holds
  queue        \* the callers that wait for a permit, first come first served

vars == <<live, late, told, req, free, queue>>

\* at: "idle", "queued" for a permit, "sent", "resting" after a 5xx or 429
\* (the sleep is inside the semaphore), "waiting" after a network error (the
\* sleep is outside).  answer: what the service made of the current attempt, id:
\* the orderID in it.
Idle == [at |-> "idle", op |-> "none", order |-> NoOrder, made |-> {},
         attempt |-> 1, answer |-> "none", id |-> NoId]

Holding == {c \in Caller : req[c].at \in {"sent", "resting"}}

\* What AnsweredPort sees of a request.
PortCall ==
  [c \in Caller |->
     IF req[c].op \in {"place", "cancel"}
       THEN [op |-> req[c].op, order |-> req[c].order, made |-> req[c].made]
       ELSE [op |-> "none", order |-> NoOrder, made |-> {}]]

Port == INSTANCE AnsweredPort WITH call <- PortCall

ASSUME ClientAssumption ==
  /\ MaxConcurrency \in Nat \ {0}
  /\ MaxRetries \in Nat \ {0}
  /\ NoId \notin OrderId /\ NoOrder \notin Port!Order
  /\ LeftBehind \subseteq {o \in Port!Order : o.id # NoId}

Request ==
  [at: {"idle", "queued", "sent", "resting", "waiting"},
   op: {"none", "get", "place", "cancel"},
   order: Port!Order \cup {NoOrder}, made: SUBSET OrderId,
   attempt: 1..MaxRetries,
   answer: {"none", "ok", "refused"}, id: OrderId \cup {NoId}]

TypeOK ==
  /\ Port!AnsweredTypeOK
  /\ req \in [Caller -> Request]
  /\ free \in 0..MaxConcurrency
  /\ queue \in Seq(Caller)

Init ==
  /\ live = LeftBehind
  /\ late = [k \in Late |-> NoOrder]
  /\ told = [c \in Caller |-> Port!Nothing]
  /\ req = [c \in Caller |-> Idle]
  /\ free = MaxConcurrency
  /\ queue = << >>

FreshIds ==
  OrderId \ (Port!Ids(live)
               \cup UNION {{req[c].order.id} \cup req[c].made :
                            c \in {d \in Caller : req[d].order # NoOrder}}
               \cup {late[k].id : k \in {j \in Late : late[j] # NoOrder}})

-----------------------------------------------------------------------------
(* The caller and the semaphore.                                           *)

Asked(op, o) == [at |-> "queued", op |-> op, order |-> o, made |-> {},
                 attempt |-> 1, answer |-> "none", id |-> NoId]

\* The orders a caller may want cancelled: those that rest and, as it cannot know,
\* those that have traded or were deleted.
Cancellable ==
  {o \in Port!Order : o.id # NoId /\ (o \in live \/ o.id \notin Port!Ids(live))}

Start(c) ==
  /\ req[c] = Idle
  /\ \/ req' = [req EXCEPT ![c] = Asked("get", NoOrder)] /\ UNCHANGED told
     \/ /\ \/ \E o \in Port!Order :
               o.id = NoId /\ req' = [req EXCEPT ![c] = Asked("place", o)]
           \/ \E o \in Cancellable : req' = [req EXCEPT ![c] = Asked("cancel", o)]
        /\ Port!Tell(c, Port!Nothing)
  /\ queue' = Append(queue, c)
  /\ UNCHANGED <<live, late, free>>

\* `async with self._sem`, then the request goes out.
Acquire(c) ==
  /\ queue # << >> /\ Head(queue) = c
  /\ free > 0
  /\ free' = free - 1
  /\ queue' = Tail(queue)
  /\ req' = [req EXCEPT ![c].at = "sent"]
  /\ UNCHANGED <<live, late, told>>

-----------------------------------------------------------------------------
(* The service.                                                            *)

Pending(c) == req[c].at = "sent" /\ req[c].answer = "none"

\* The faults that keep an attempt from being carried out.
MayFail(c) ==
  \/ req[c].op = "get"
  \/ req[c].op = "place" /\ "reject" \in Faults
  \/ req[c].op = "cancel" /\ "refuse" \in Faults

MayBeLost(c) == req[c].op = "get" \/ "lost" \in Faults

ServiceActs(c) ==
  /\ Pending(c)
  /\ \/ /\ req[c].op = "get"
        /\ req' = [req EXCEPT ![c].answer = "ok"]
        /\ UNCHANGED live
     \/ /\ req[c].op = "place"
        /\ \E id \in FreshIds :
             /\ live' = Port!Created(req[c].order, id)
             /\ req' = [req EXCEPT ![c].answer = "ok", ![c].id = id,
                                   ![c].made = @ \cup {id}]
     \* "not found" counts as success
     \/ /\ req[c].op = "cancel"
        /\ live' = Port!Deleted(req[c].order)
        /\ req' = [req EXCEPT ![c].answer = "ok"]
  /\ UNCHANGED <<late, told, free, queue>>

\* 4xx: terminal.
Refuses(c) ==
  /\ Pending(c) /\ MayFail(c)
  /\ req' = [req EXCEPT ![c].answer = "refused"]
  /\ UNCHANGED <<live, late, told, free, queue>>

LateArrives ==
  /\ UNCHANGED <<told, req, free, queue>>
  /\ \E k \in Late, id \in FreshIds : Port!LateServed(k, id)

Fill ==
  /\ \E o \in live : live' = live \ {o}
  /\ UNCHANGED <<late, told, req, free, queue>>

-----------------------------------------------------------------------------
(* The end of an attempt.                                                  *)

\* Mutant: the permit is not given back.
Keep == UNCHANGED free

Release == free' = free + 1

\* Mutant: cancel_order does not look at how the request ended.
Reported(c) ==
  IF req[c].op = "cancel" THEN {Port!Word("True")} ELSE {Port!Word("None")}

\* What the caller makes of MyCexError: None or False.
Failed(c) == {Port!Word(IF req[c].op = "place" THEN "None" ELSE "False")}

\* ... and of a body, which may come without an orderID.
Results(c) ==
  CASE req[c].answer # "ok" -> Failed(c)
    [] req[c].answer = "ok" /\ req[c].op = "cancel" -> {Port!Word("True")}
    [] OTHER -> {Port!IdOf(req[c].id)}
                  \cup {a \in {Port!Word("None")} : MayBeLost(c)}

\* The call is over and the caller goes on with one of these results.
Comes(c, results) ==
  /\ req' = [req EXCEPT ![c] = Idle]
  /\ IF req[c].op = "get" THEN UNCHANGED told
                          ELSE \E a \in results : Port!Tell(c, a)

\* _request returns the body or raises MyCexError.
AnswerArrives(c) ==
  /\ req[c].at = "sent" /\ req[c].answer # "none"
  /\ Comes(c, Results(c))
  /\ Release
  /\ UNCHANGED <<live, late, queue>>

Unusable(c) == IF req[c].answer = "none" THEN MayFail(c) ELSE MayBeLost(c)

\* 5xx or 429: the permit is kept during the sleep.
ServerError(c) ==
  /\ req[c].at = "sent" /\ Unusable(c)
  /\ req' = [req EXCEPT ![c].at = "resting", ![c].answer = "none", ![c].id = NoId]
  /\ UNCHANGED <<live, late, told, free, queue>>

\* ClientError or TimeoutError: leaving the `async with` gives the permit back.
NetworkError(c) ==
  /\ req[c].at = "sent" /\ Unusable(c)
  /\ req' = [req EXCEPT ![c].at = "waiting", ![c].answer = "none", ![c].id = NoId]
  /\ Release
  /\ \/ UNCHANGED late
     \* the attempt is still on its way
     \/ Pending(c) /\ req[c].op # "get" /\ Port!PutOff(c)
  /\ UNCHANGED <<live, told, queue>>

\* Mutant: one attempt too many.
OnceMore(c) == TRUE

AttemptsLeft(c) == req[c].attempt < MaxRetries

\* The sleep is over: the next attempt, or MyCexError after the last one.
Wake(c) ==
  /\ req[c].at \in {"resting", "waiting"}
  /\ IF req[c].at = "resting" THEN Release ELSE UNCHANGED free
  /\ IF AttemptsLeft(c)
       THEN /\ req' = [req EXCEPT ![c].at = "queued", ![c].attempt = @ + 1]
            /\ queue' = Append(queue, c)
            /\ UNCHANGED told
       ELSE /\ Comes(c, Failed(c))
            /\ UNCHANGED queue
  /\ UNCHANGED <<live, late>>

\* A cancelled waiter leaves the queue of the semaphore.
Without(c) ==
  IF c \in ToSet(queue)
    THEN RemoveAt(queue, CHOOSE i \in DOMAIN queue : queue[i] = c)
    ELSE queue

\* Task.cancel() of the coroutine, wherever it awaits.
Cancelled(c) ==
  /\ req[c] # Idle
  /\ Comes(c, {Port!Word("raised")})
  /\ IF c \in Holding THEN Release ELSE UNCHANGED free
  /\ queue' = Without(c)
  /\ \/ UNCHANGED late
     \/ Pending(c) /\ req[c].op # "get" /\ Port!PutOff(c)
  /\ UNCHANGED live

-----------------------------------------------------------------------------
Next ==
  \/ LateArrives \/ Fill
  \/ \E c \in Caller :
       \/ Start(c) \/ Acquire(c) \/ ServiceActs(c) \/ Refuses(c)
       \/ AnswerArrives(c) \/ ServerError(c) \/ NetworkError(c) \/ Wake(c)
       \/ Cancelled(c)

Spec == Init /\ [][Next]_vars

\* The event loop runs every coroutine that can go on, and an attempt ends
\* after request_timeout at the latest.
Fairness ==
  \A c \in Caller :
    /\ WF_vars(Acquire(c))
    /\ WF_vars(AnswerArrives(c) \/ ServerError(c) \/ NetworkError(c))
    /\ WF_vars(ServiceActs(c))
    /\ WF_vars(Wake(c))

FairSpec == Spec /\ Fairness

-----------------------------------------------------------------------------
\* Whatever the interleaving of retries, sleeps, cancelled coroutines and late
\* attempts, what place_order and cancel_order return says of the order what
\* AnsweredPort lets it say: an id only if an attempt of this call created that
\* order, True only if the order is gone, None and False without loss only if
\* nothing was carried out.
ImplementsPort == Port!AnsweredSpec

\* On every path out of an attempt, the permit it took is given back, once.
NoPermitLost == free = MaxConcurrency - Cardinality(Holding)

\* Every request comes back to its caller, however many share the permits.
EveryCallReturns == \A c \in Caller : req[c] # Idle ~> req[c] = Idle
=============================================================================
