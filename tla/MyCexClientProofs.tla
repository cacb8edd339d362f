-------------------------- MODULE MyCexClientProofs --------------------------
(***************************************************************************)
(* MyCexClient loses no permit and implements AnsweredPort, for any number *)
(* of callers, permits and attempts and under every fault.                 *)
(***************************************************************************)
EXTENDS MyCexClient, DataLemmas

-----------------------------------------------------------------------------
(* The semaphore.                                                          *)

\* Who waits for a permit has none, and waits once; permits and holders add up.
SemInv ==
  /\ req \in [Caller -> Request]
  /\ queue \in Seq(Caller) /\ IsInjective(queue)
  /\ \A i \in DOMAIN queue : req[queue[i]].at = "queued"
  /\ \A c \in Caller : req[c].at = "idle" => req[c] = Idle
  /\ IsFiniteSet(Holding)
  /\ free \in Nat /\ free = MaxConcurrency - Cardinality(Holding)

LEMMA IdleType == Idle \in Request /\ Idle.at = "idle"
  BY ClientAssumption DEF Idle, Request

\* Holding after a step of c.
LEMMA HoldingAfter ==
  ASSUME NEW c \in Caller, \A d \in Caller \ {c} : req'[d] = req[d]
  PROVE  Holding' = IF req'[c].at \in {"sent", "resting"}
                      THEN Holding \cup {c} ELSE Holding \ {c}
  BY DEF Holding

\* Permits and holders still add up when c takes a permit, gives it back, or
\* neither.
LEMMA PermitsAfter ==
  ASSUME SemInv, NEW c \in Caller, \A d \in Caller \ {c} : req'[d] = req[d],
         \/ /\ c \notin Holding /\ free > 0 /\ free' = free - 1
            /\ req'[c].at \in {"sent", "resting"}
         \/ /\ c \in Holding /\ free' = free + 1
            /\ req'[c].at \notin {"sent", "resting"}
         \/ /\ free' = free
            /\ c \in Holding <=> req'[c].at \in {"sent", "resting"}
  PROVE  /\ IsFiniteSet(Holding')
         /\ free' \in Nat /\ free' = MaxConcurrency - Cardinality(Holding')
<1>1. /\ IsFiniteSet(Holding \cup {c}) /\ IsFiniteSet(Holding \ {c})
      /\ Cardinality(Holding \cup {c}) =
           IF c \in Holding THEN Cardinality(Holding) ELSE Cardinality(Holding) + 1
      /\ Cardinality(Holding \ {c}) =
           IF c \in Holding THEN Cardinality(Holding) - 1 ELSE Cardinality(Holding)
      /\ Cardinality(Holding) \in Nat
  BY FS_AddElement, FS_RemoveElement, FS_CardinalityType DEF SemInv
<1>2. Holding' = IF req'[c].at \in {"sent", "resting"}
                   THEN Holding \cup {c} ELSE Holding \ {c}
  BY HoldingAfter
<1>3. free \in Nat /\ free = MaxConcurrency - Cardinality(Holding)
      /\ MaxConcurrency \in Nat
  BY ClientAssumption DEF SemInv
<1> QED
  BY <1>1, <1>2, <1>3

\* The queue after a step of c: c did not wait, begins to, has its turn, or
\* goes away.
LEMMA QueueAfter ==
  ASSUME SemInv, NEW c \in Caller, \A d \in Caller \ {c} : req'[d] = req[d],
         \/ req[c].at # "queued" /\ queue' = queue
         \/ /\ req[c].at # "queued" /\ req'[c].at = "queued"
            /\ queue' = Append(queue, c)
         \/ queue # << >> /\ Head(queue) = c /\ queue' = Tail(queue)
         \/ queue' = Without(c)
  PROVE  /\ queue' \in Seq(Caller) /\ IsInjective(queue')
         /\ \A i \in DOMAIN queue' : req'[queue'[i]].at = "queued"
<1>0. \A i \in DOMAIN queue : queue[i] \in Caller /\ req[queue[i]].at = "queued"
  BY ElementOfSeq, LenProperties DEF SemInv
<1>1. CASE req[c].at # "queued" /\ queue' = queue
  BY <1>0, <1>1 DEF SemInv
<1>2. CASE /\ req[c].at # "queued" /\ req'[c].at = "queued"
           /\ queue' = Append(queue, c)
  <2>1. \A i \in DOMAIN queue : queue[i] # c
    BY <1>0, <1>2
  <2>2. queue' \in Seq(Caller)
    BY <1>2, AppendProperties DEF SemInv
  <2>3. /\ IsInjective(queue')
        /\ \A k \in DOMAIN queue' :
             queue'[k] = c \/ \E i \in DOMAIN queue : queue'[k] = queue[i]
    BY <1>2, <2>1, JoinedTheQueue DEF SemInv
  <2>4. \A k \in DOMAIN queue' : req'[queue'[k]].at = "queued"
    BY <1>0, <1>2, <2>3
  <2> QED
    BY <2>2, <2>3, <2>4
<1>3. CASE queue # << >> /\ Head(queue) = c /\ queue' = Tail(queue)
  <2>1. /\ queue' \in Seq(Caller) /\ IsInjective(queue')
        /\ \A k \in DOMAIN queue' :
             \E j \in DOMAIN queue : queue'[k] = queue[j] /\ queue[j] # c
    BY <1>3, FirstLeft DEF SemInv
  <2> QED
    BY <1>0, <2>1
<1>4. CASE queue' = Without(c)
  <2>1. CASE c \in ToSet(queue)
    <3> DEFINE k == CHOOSE i \in DOMAIN queue : queue[i] = c
    <3>1. k \in DOMAIN queue /\ queue[k] = c
      BY <2>1 DEF ToSet
    <3>2. queue' = RemoveAt(queue, k)
      BY <1>4, <2>1 DEF Without
    <3> HIDE DEF k
    <3>3. queue' \in Seq(Caller)
      BY <3>1, <3>2, RemovedAt DEF SemInv
    <3>4. /\ IsInjective(queue')
          /\ \A i \in DOMAIN queue' :
               \E j \in DOMAIN queue \ {k} : queue'[i] = queue[j]
      BY <3>1, <3>2, LeftTheQueue DEF SemInv
    <3>5. \A j \in DOMAIN queue \ {k} : queue[j] # c
      BY <3>1 DEF SemInv, IsInjective
    <3> QED
      BY <1>0, <3>3, <3>4, <3>5
  <2>2. CASE c \notin ToSet(queue)
    <3>1. queue' = queue /\ \A i \in DOMAIN queue : queue[i] # c
      BY <1>4, <2>2 DEF Without, ToSet
    <3> QED
      BY <1>0, <3>1 DEF SemInv
  <2> QED
    BY <2>1, <2>2
<1> QED
  BY <1>1, <1>2, <1>3, <1>4

\* A step of one caller.
LEMMA CallerKeepsSem ==
  ASSUME SemInv, NEW c \in Caller, NEW r \in Request,
         req' = [req EXCEPT ![c] = r], r.at = "idle" => r = Idle,
         \/ /\ c \notin Holding /\ free > 0 /\ free' = free - 1
            /\ r.at \in {"sent", "resting"}
         \/ /\ c \in Holding /\ free' = free + 1
            /\ r.at \notin {"sent", "resting"}
         \/ /\ free' = free
            /\ c \in Holding <=> r.at \in {"sent", "resting"},
         \/ req[c].at # "queued" /\ queue' = queue
         \/ req[c].at # "queued" /\ r.at = "queued" /\ queue' = Append(queue, c)
         \/ queue # << >> /\ Head(queue) = c /\ queue' = Tail(queue)
         \/ queue' = Without(c)
  PROVE  SemInv'
<1>1. /\ req' \in [Caller -> Request] /\ req'[c] = r
      /\ \A d \in Caller \ {c} : req'[d] = req[d]
  BY DEF SemInv
<1>2. /\ queue' \in Seq(Caller) /\ IsInjective(queue')
      /\ \A i \in DOMAIN queue' : req'[queue'[i]].at = "queued"
  BY <1>1, QueueAfter
<1>3. /\ IsFiniteSet(Holding')
      /\ free' \in Nat /\ free' = MaxConcurrency - Cardinality(Holding')
  BY <1>1, PermitsAfter
<1>4. \A d \in Caller : req'[d].at = "idle" => req'[d] = Idle
  BY <1>1 DEF SemInv
<1> QED
  BY <1>1, <1>2, <1>3, <1>4 DEF SemInv

LEMMA AskedType ==
  ASSUME NEW op \in {"get", "place", "cancel"}, NEW o \in Port!Order \cup {NoOrder}
  PROVE  /\ Asked(op, o) \in Request
         /\ Asked(op, o).at = "queued" /\ Asked(op, o).op = op
         /\ Asked(op, o).order = o /\ Asked(op, o).made = {}
         /\ Asked(op, o).attempt = 1 /\ Asked(op, o).answer = "none"
         /\ Asked(op, o).id = NoId
<1>1. 1 \in 1 .. MaxRetries
  BY ClientAssumption
<1> QED
  BY <1>1 DEF Request, Asked

\* What a step may make of a request.
LEMMA RequestAfter ==
  ASSUME NEW r \in Request
  PROVE  /\ [r EXCEPT !.at = "sent"] \in Request
         /\ [r EXCEPT !.at = "sent"].at = "sent"
         /\ [r EXCEPT !.answer = "ok"] \in Request
         /\ [r EXCEPT !.answer = "ok"].at = r.at
         /\ [r EXCEPT !.answer = "refused"] \in Request
         /\ [r EXCEPT !.answer = "refused"].at = r.at
  BY DEF Request

LEMMA ServedAfter ==
  ASSUME NEW r \in Request, NEW id \in OrderId
  PROVE  /\ [r EXCEPT !.answer = "ok", !.id = id, !.made = @ \cup {id}] \in Request
         /\ [r EXCEPT !.answer = "ok", !.id = id, !.made = @ \cup {id}].at = r.at
  BY DEF Request

LEMMA FailedAfter ==
  ASSUME NEW r \in Request, NEW x \in {"resting", "waiting"}
  PROVE  /\ [r EXCEPT !.at = x, !.answer = "none", !.id = NoId] \in Request
         /\ [r EXCEPT !.at = x, !.answer = "none", !.id = NoId].at = x
  BY DEF Request

LEMMA AgainAfter ==
  ASSUME NEW r \in Request, r.attempt < MaxRetries
  PROVE  /\ [r EXCEPT !.at = "queued", !.attempt = @ + 1] \in Request
         /\ [r EXCEPT !.at = "queued", !.attempt = @ + 1].at = "queued"
<1>1. r.attempt + 1 \in 1 .. MaxRetries
  BY ClientAssumption DEF Request
<1> QED
  BY <1>1 DEF Request

LEMMA SemStep ==
  ASSUME SemInv, live \subseteq Port!Order, [Next]_vars
  PROVE  SemInv'
<1>1. CASE UNCHANGED <<req, free, queue>>
  BY <1>1 DEF SemInv, Holding
<1>0. \A c \in Caller : req[c] \in Request
  BY DEF SemInv
<1>2. ASSUME NEW c \in Caller, Start(c)
      PROVE  SemInv'
  <2>1. PICK op \in {"get", "place", "cancel"}, o \in Port!Order \cup {NoOrder} :
               req' = [req EXCEPT ![c] = Asked(op, o)]
    BY <1>2 DEF Start, Cancellable
  <2>2. req[c].at = "idle" /\ c \notin Holding
    BY <1>2, IdleType DEF Start, Holding
  <2>3. Asked(op, o) \in Request /\ Asked(op, o).at = "queued"
    BY AskedType
  <2>4. req[c].at # "queued" /\ queue' = Append(queue, c) /\ free' = free
    BY <1>2, <2>2 DEF Start
  <2> QED
    BY <2>1, <2>2, <2>3, <2>4, CallerKeepsSem
<1>3. ASSUME NEW c \in Caller, Acquire(c)
      PROVE  SemInv'
  <2> DEFINE r == [req[c] EXCEPT !.at = "sent"]
  <2>1. r \in Request /\ r.at = "sent"
    BY RequestAfter DEF SemInv
  <2>2. req' = [req EXCEPT ![c] = r]
    BY <1>3 DEF Acquire
  <2>3. c \notin Holding
    <3>1. \E i \in DOMAIN queue : queue[i] = c
      BY <1>3, FirstLeft DEF Acquire, SemInv
    <3> QED
      BY <3>1 DEF SemInv, Holding
  <2> HIDE DEF r
  <2> QED
    BY <1>3, <2>1, <2>2, <2>3, CallerKeepsSem DEF Acquire
<1>4. ASSUME NEW c \in Caller, req[c].at = "sent",
             NEW r \in Request, r.at = "sent", req' = [req EXCEPT ![c] = r],
             UNCHANGED <<free, queue>>
      PROVE  SemInv'
  <2>1. c \in Holding
    BY <1>4 DEF Holding
  <2> QED
    BY <1>4, <2>1, CallerKeepsSem
<1>5. ASSUME NEW c \in Caller, ServiceActs(c)
      PROVE  SemInv'
  <2>1. PICK r : /\ \/ r = [req[c] EXCEPT !.answer = "ok"]
                    \/ \E id \in OrderId :
                         r = [req[c] EXCEPT !.answer = "ok", !.id = id, !.made = @ \cup {id}]
                 /\ req' = [req EXCEPT ![c] = r]
    <3>1. CASE req' = [req EXCEPT ![c].answer = "ok"]
      BY <3>1
    <3>2. ASSUME NEW id \in FreshIds,
                 req' = [req EXCEPT ![c].answer = "ok", ![c].id = id,
                                   ![c].made = @ \cup {id}]
          PROVE  req' = [req EXCEPT ![c] =
                           [req[c] EXCEPT !.answer = "ok", !.id = id, !.made = @ \cup {id}]]
      BY <1>0, <3>2 DEF SemInv
    <3>3. FreshIds \subseteq OrderId
      BY DEF FreshIds
    <3> QED
      BY <1>5, <3>1, <3>2, <3>3 DEF ServiceActs
  <2>2. r \in Request /\ r.at = "sent" /\ req[c].at = "sent"
    <3>1. req[c].at = "sent"
      BY <1>5 DEF ServiceActs, Pending
    <3>2. CASE r = [req[c] EXCEPT !.answer = "ok"]
      BY <1>0, <3>1, <3>2, RequestAfter
    <3>3. ASSUME NEW id \in OrderId,
                 r = [req[c] EXCEPT !.answer = "ok", !.id = id, !.made = @ \cup {id}]
          PROVE  r \in Request /\ r.at = "sent"
      BY <1>0, <3>1, <3>3, ServedAfter
    <3> QED
      BY <2>1, <3>1, <3>2, <3>3
  <2> QED
    BY <1>4, <1>5, <2>1, <2>2 DEF ServiceActs
<1>6. ASSUME NEW c \in Caller, Refuses(c)
      PROVE  SemInv'
  <2> DEFINE r == [req[c] EXCEPT !.answer = "refused"]
  <2>1. r \in Request /\ r.at = "sent" /\ req[c].at = "sent"
    BY <1>0, <1>6, RequestAfter DEF Refuses, Pending
  <2>2. req' = [req EXCEPT ![c] = r]
    BY <1>6 DEF Refuses
  <2> HIDE DEF r
  <2> QED
    BY <1>4, <1>6, <2>1, <2>2 DEF Refuses
<1>7. ASSUME NEW c \in Caller, AnswerArrives(c)
      PROVE  SemInv'
  <2>1. c \in Holding /\ req[c].at # "queued"
    BY <1>7 DEF AnswerArrives, Holding
  <2>2. Idle \in Request /\ Idle.at \notin {"sent", "resting"}
    BY IdleType
  <2> QED
    BY <1>7, <2>1, <2>2, CallerKeepsSem DEF AnswerArrives, Release, Comes
<1>8. ASSUME NEW c \in Caller, ServerError(c)
      PROVE  SemInv'
  <2> DEFINE r == [req[c] EXCEPT !.at = "resting", !.answer = "none", !.id = NoId]
  <2>1. r \in Request /\ r.at = "resting"
    BY <1>0, FailedAfter
  <2>2. req' = [req EXCEPT ![c] = r]
    BY <1>8 DEF ServerError
  <2>3. c \in Holding /\ req[c].at # "queued"
    BY <1>8 DEF ServerError, Holding
  <2> HIDE DEF r
  <2> QED
    BY <1>8, <2>1, <2>2, <2>3, CallerKeepsSem DEF ServerError
<1>9. ASSUME NEW c \in Caller, NetworkError(c)
      PROVE  SemInv'
  <2> DEFINE r == [req[c] EXCEPT !.at = "waiting", !.answer = "none", !.id = NoId]
  <2>1. r \in Request /\ r.at = "waiting"
    BY <1>0, FailedAfter
  <2>2. req' = [req EXCEPT ![c] = r]
    BY <1>9 DEF NetworkError
  <2>3. c \in Holding /\ req[c].at # "queued"
    BY <1>9 DEF NetworkError, Holding
  <2> HIDE DEF r
  <2> QED
    BY <1>9, <2>1, <2>2, <2>3, CallerKeepsSem DEF NetworkError, Release
<1>10. ASSUME NEW c \in Caller, Wake(c)
       PROVE  SemInv'
  <2>1. /\ req[c].at # "queued"
        /\ \/ c \in Holding /\ free' = free + 1
           \/ c \notin Holding /\ free' = free
    BY <1>10 DEF Wake, Holding, Release
  <2>2. CASE AttemptsLeft(c)
    <3> DEFINE r == [req[c] EXCEPT !.at = "queued", !.attempt = @ + 1]
    <3>1. r \in Request /\ r.at = "queued"
      BY <1>0, <2>2, AgainAfter DEF AttemptsLeft
    <3>2. req' = [req EXCEPT ![c] = r] /\ queue' = Append(queue, c)
      BY <1>10, <2>2 DEF Wake
    <3> HIDE DEF r
    <3> QED
      BY <2>1, <3>1, <3>2, CallerKeepsSem
  <2>3. CASE ~AttemptsLeft(c)
    <3>1. req' = [req EXCEPT ![c] = Idle] /\ queue' = queue
      BY <1>10, <2>3 DEF Wake, Comes
    <3> QED
      BY <2>1, <3>1, IdleType, CallerKeepsSem
  <2> QED
    BY <2>2, <2>3
<1>11. ASSUME NEW c \in Caller, Cancelled(c)
       PROVE  SemInv'
  <2>1. /\ req' = [req EXCEPT ![c] = Idle] /\ queue' = Without(c)
        /\ \/ c \in Holding /\ free' = free + 1
           \/ c \notin Holding /\ free' = free
    BY <1>11 DEF Cancelled, Release, Comes
  <2> QED
    BY <2>1, IdleType, CallerKeepsSem
<1> QED
  BY <1>1, <1>2, <1>3, <1>5, <1>6, <1>7, <1>8, <1>9, <1>10, <1>11
     DEF Next, vars, LateArrives, Fill

-----------------------------------------------------------------------------
(* The calls: what an attempt has done so far, and what its caller may be   *)
(* told of it.                                                              *)

\* What a request is about.
Sound(r) ==
  /\ r.op \in {"place", "cancel"} => r.order \in Port!Order
  /\ r.op = "none" => r.at = "idle"
  /\ r.op = "place" => r.order.id = NoId
  /\ r.op = "cancel" => r.order.id # NoId
  /\ r.at # "sent" => r.answer = "none"

\* No more orders than attempts, and fewer before an attempt is carried out.
Counted(r) ==
  /\ IsFiniteSet(r.made) /\ Cardinality(r.made) <= r.attempt
  /\ r.at = "queued" \/ (r.at = "sent" /\ r.answer # "ok")
       => Cardinality(r.made) < r.attempt

PlaceSound(r) ==
  r.op = "place" =>
    /\ r.made # {} => "lost" \in Faults \/ r.answer = "ok"
    /\ r.answer = "ok" => r.id \in r.made
    /\ r.answer = "refused" => "reject" \in Faults
    /\ r.at \in {"resting", "waiting"} /\ r.made = {} => "reject" \in Faults

CancelSound(r, l) ==
  r.op = "cancel" =>
    /\ r.answer = "ok" => r.order.id \notin Port!Ids(l)
    /\ r.answer = "refused" => "refuse" \in Faults
    /\ r.at \in {"resting", "waiting"}
         => \/ "refuse" \in Faults
            \/ "lost" \in Faults /\ r.order.id \notin Port!Ids(l)

Fine(r, l) == Sound(r) /\ Counted(r) /\ PlaceSound(r) /\ CancelSound(r, l)

MarketTypes ==
  /\ live \subseteq {o \in Port!Order : o.id # NoId}
  /\ late \in [Late -> Port!Order \cup {NoOrder}]

CallInv == MarketTypes /\ \A c \in Caller : Fine(req[c], live)

\* The market of the next state: an order that is gone comes back under no id
\* that a request is about.
NoneReturns ==
  \A c \in Caller : req[c].op = "cancel" /\ req[c].order.id \notin Port!Ids(live)
                    => req[c].order.id \notin Port!Ids(live')

LEMMA CreatedFacts ==
  ASSUME SemInv, CallInv, NEW o \in Port!Order, NEW id \in FreshIds,
         live' = Port!Created(o, id)
  PROVE  /\ live' \subseteq {x \in Port!Order : x.id # NoId}
         /\ NoneReturns
<1> DEFINE n == [o EXCEPT !.id = id]
<1>1. id \in OrderId /\ id # NoId
  BY ClientAssumption DEF FreshIds
<1>2. n \in Port!Order /\ n.id = id
  BY <1>1 DEF Port!Order
<1>3. live' = live \cup {n}
  BY DEF Port!Created
<1> HIDE DEF n
<1>4. \A c \in Caller : req[c].op = "cancel" => req[c].order.id # id
  <2> SUFFICES ASSUME NEW c \in Caller, req[c].op = "cancel"
               PROVE  req[c].order.id # id
    OBVIOUS
  <2>1. req[c].order # NoOrder
    BY ClientAssumption DEF CallInv, Fine, Sound
  <2>2. {req[c].order.id} \cup req[c].made
          \in {{req[d].order.id} \cup req[d].made :
               d \in {e \in Caller : req[e].order # NoOrder}}
    BY <2>1
  <2>3. id \notin {req[c].order.id} \cup req[c].made
    BY <2>2 DEF FreshIds
  <2> QED
    BY <2>3
<1>5. Port!Ids(live') = Port!Ids(live) \cup {id}
  BY <1>2, <1>3 DEF Port!Ids
<1> QED
  BY <1>1, <1>2, <1>3, <1>4, <1>5 DEF CallInv, MarketTypes, NoneReturns

LEMMA FewerFacts ==
  ASSUME CallInv, live' \subseteq live
  PROVE  /\ live' \subseteq {x \in Port!Order : x.id # NoId}
         /\ NoneReturns
  BY DEF CallInv, MarketTypes, NoneReturns, Port!Ids

\* Requests that do not change stay fine.
LEMMA OthersStayFine ==
  ASSUME SemInv, CallInv, NoneReturns, NEW c \in Caller, req'[c] = req[c]
  PROVE  Fine(req'[c], live')
  BY DEF CallInv, Fine, Sound, Counted, PlaceSound, CancelSound, NoneReturns

LEMMA CallerKeepsCalls ==
  ASSUME SemInv, CallInv, NEW c \in Caller, NEW r, req' = [req EXCEPT ![c] = r],
         Fine(r, live'), MarketTypes', NoneReturns
  PROVE  CallInv'
<1>1. req'[c] = r /\ \A d \in Caller \ {c} : req'[d] = req[d]
  BY DEF SemInv
<1>2. \A d \in Caller \ {c} : Fine(req'[d], live')
  BY <1>1, OthersStayFine
<1>3. Fine(req'[c], live')
  BY <1>1 DEF Fine, Sound, Counted, PlaceSound, CancelSound
<1> QED
  BY <1>2, <1>3 DEF CallInv

\* What OrderPort sees.
Seen(r) ==
  IF r.op \in {"place", "cancel"}
    THEN [op |-> r.op, order |-> r.order, made |-> r.made]
    ELSE [op |-> "none", order |-> NoOrder, made |-> {}]

LEMMA SeenAfter ==
  ASSUME SemInv, NEW c \in Caller, NEW r, req' = [req EXCEPT ![c] = r]
  PROVE  /\ PortCall[c] = Seen(req[c])
         /\ PortCall' = [PortCall EXCEPT ![c] = Seen(r)]
<1>1. PortCall = [d \in Caller |-> Seen(req[d])]
  BY DEF PortCall, Seen
<1>2. PortCall' = [d \in Caller |-> Seen(req'[d])]
  BY DEF PortCall, Seen
<1>3. req'[c] = r /\ \A d \in Caller \ {c} : req'[d] = req[d]
  BY DEF SemInv
<1> HIDE DEF Seen
<1>4. \A d \in Caller : PortCall'[d] = [PortCall EXCEPT ![c] = Seen(r)][d]
  BY <1>1, <1>2, <1>3
<1> QED
  BY <1>1, <1>2, <1>4

\* A request that looks the same to OrderPort.
LEMMA UnseenAfter ==
  ASSUME SemInv, NEW c \in Caller, NEW r, req' = [req EXCEPT ![c] = r],
         Seen(r) = Seen(req[c])
  PROVE  PortCall' = PortCall
<1>1. PortCall[c] = Seen(r) /\ PortCall' = [PortCall EXCEPT ![c] = Seen(r)]
  BY SeenAfter
<1>2. PortCall = [PortCall EXCEPT ![c] = PortCall[c]]
  BY DEF PortCall
<1> QED
  BY <1>1, <1>2

-----------------------------------------------------------------------------
(* Step by step.                                                            *)

PortStep == Port!AnsweredNext \/ UNCHANGED <<live, PortCall, late, told>>

LEMMA NoneMade == IsFiniteSet({}) /\ Cardinality({}) = 0
  BY FS_EmptySet

LEMMA IdleIsFine == \A l : Fine(Idle, l)
  BY NoneMade DEF Idle, Fine, Sound, Counted, PlaceSound, CancelSound

LEMMA AskedIsFine ==
  ASSUME NEW op \in {"get", "place", "cancel"}, NEW o,
         op \in {"place", "cancel"} => o \in Port!Order,
         op = "place" => o.id = NoId, op = "cancel" => o.id # NoId
  PROVE  \A l : Fine(Asked(op, o), l)
  BY NoneMade DEF Asked, Fine, Sound, Counted, PlaceSound, CancelSound

\* The market as it was.
LEMMA SameMarket ==
  ASSUME CallInv, UNCHANGED <<live, late>>
  PROVE  MarketTypes' /\ NoneReturns
  BY DEF CallInv, MarketTypes, NoneReturns

LEMMA StartStep ==
  ASSUME SemInv, CallInv, NEW c \in Caller, Start(c)
  PROVE  CallInv' /\ PortStep
<1>0. /\ req[c] = Idle /\ UNCHANGED <<live, late>>
      /\ MarketTypes' /\ NoneReturns
  BY SameMarket DEF Start
<1>1. CASE req' = [req EXCEPT ![c] = Asked("get", NoOrder)] /\ UNCHANGED told
  <2>1. Fine(Asked("get", NoOrder), live')
    BY AskedIsFine
  <2>2. Seen(Asked("get", NoOrder)) = Seen(req[c])
    BY <1>0 DEF Seen, Asked, Idle
  <2>3. PortCall' = PortCall
    BY <1>1, <2>2, UnseenAfter
  <2> QED
    BY <1>0, <1>1, <2>1, <2>3, CallerKeepsCalls DEF PortStep
<1>2. ASSUME NEW op \in {"place", "cancel"}, NEW o \in Port!Order,
             op = "place" => o.id = NoId, op = "cancel" => o.id # NoId,
             req' = [req EXCEPT ![c] = Asked(op, o)],
             Port!Tell(c, Port!Nothing)
      PROVE  CallInv' /\ PortStep
  <2>1. Fine(Asked(op, o), live')
    BY <1>2, AskedIsFine
  <2>2. /\ Seen(Asked(op, o)) = [op |-> op, order |-> o, made |-> {}]
        /\ Seen(req[c]) = Port!NoCall
    BY <1>0 DEF Seen, Asked, Idle, Port!NoCall
  <2>3. /\ PortCall[c] = Seen(req[c])
        /\ PortCall' = [PortCall EXCEPT ![c] = Seen(Asked(op, o))]
    BY <1>2, SeenAfter
  <2>4. Port!Begin(c, op, o)
    BY <2>2, <2>3 DEF Port!Begin
  <2>5. Port!AnsweredNext
    BY <1>0, <1>2, <2>4 DEF Port!AnsweredNext, Port!Ask
  <2> QED
    BY <1>0, <1>2, <2>1, <2>5, CallerKeepsCalls DEF PortStep
<1> QED
  BY <1>1, <1>2 DEF Start, Cancellable

\* Steps inside the client that OrderPort does not see.
LEMMA UnseenStep ==
  ASSUME SemInv, CallInv, NEW c \in Caller, NEW r, req' = [req EXCEPT ![c] = r],
         Seen(r) = Seen(req[c]), Fine(r, live'), UNCHANGED <<live, late, told>>
  PROVE  CallInv' /\ PortStep
  BY SameMarket, CallerKeepsCalls, UnseenAfter DEF PortStep

LEMMA AcquireStep ==
  ASSUME SemInv, CallInv, NEW c \in Caller, Acquire(c)
  PROVE  CallInv' /\ PortStep
<1> DEFINE r == [req[c] EXCEPT !.at = "sent"]
<1>1. req[c] \in Request /\ Fine(req[c], live)
  BY DEF SemInv, CallInv
<1>2. req[c].at = "queued"
  BY FirstLeft DEF Acquire, SemInv
<1>3. /\ r.at = "sent" /\ r.op = req[c].op /\ r.order = req[c].order
      /\ r.made = req[c].made /\ r.answer = req[c].answer
      /\ r.attempt = req[c].attempt
  BY <1>1 DEF Request
<1>4. req' = [req EXCEPT ![c] = r] /\ UNCHANGED <<live, late, told>>
  BY DEF Acquire
<1> HIDE DEF r
<1>5. Fine(r, live')
  BY <1>1, <1>2, <1>3, <1>4 DEF Fine, Sound, Counted, PlaceSound, CancelSound
<1>6. Seen(r) = Seen(req[c])
  BY <1>3 DEF Seen
<1> QED
  BY <1>4, <1>5, <1>6, UnseenStep

LEMMA RefusesStep ==
  ASSUME SemInv, CallInv, NEW c \in Caller, Refuses(c)
  PROVE  CallInv' /\ PortStep
<1> DEFINE r == [req[c] EXCEPT !.answer = "refused"]
<1>1. req[c] \in Request /\ Fine(req[c], live)
  BY DEF SemInv, CallInv
<1>2. req[c].at = "sent" /\ req[c].answer = "none" /\ MayFail(c)
  BY DEF Refuses, Pending
<1>3. /\ r.at = "sent" /\ r.op = req[c].op /\ r.order = req[c].order
      /\ r.made = req[c].made /\ r.answer = "refused"
      /\ r.attempt = req[c].attempt
  BY <1>1, <1>2 DEF Request
<1>4. req' = [req EXCEPT ![c] = r] /\ UNCHANGED <<live, late, told>>
  BY DEF Refuses
<1> HIDE DEF r
<1>5. Fine(r, live')
  BY <1>1, <1>2, <1>3, <1>4
     DEF Fine, Sound, Counted, PlaceSound, CancelSound, MayFail
<1>6. Seen(r) = Seen(req[c])
  BY <1>3 DEF Seen
<1> QED
  BY <1>4, <1>5, <1>6, UnseenStep

\* An attempt that failed, whatever the service made of it.
LEMMA FailedIsFine ==
  ASSUME SemInv, CallInv, NEW c \in Caller, NEW at \in {"resting", "waiting"},
         req[c].at = "sent", Unusable(c)
  PROVE  LET r == [req[c] EXCEPT !.at = at, !.answer = "none", !.id = NoId]
         IN  Fine(r, live) /\ Seen(r) = Seen(req[c])
<1> DEFINE r == [req[c] EXCEPT !.at = at, !.answer = "none", !.id = NoId]
<1>1. req[c] \in Request /\ Fine(req[c], live)
  BY DEF SemInv, CallInv
<1>2. /\ r.at = at /\ r.op = req[c].op /\ r.order = req[c].order
      /\ r.made = req[c].made /\ r.answer = "none" /\ r.attempt = req[c].attempt
  BY <1>1 DEF Request
<1> HIDE DEF r
<1>3. Sound(r) /\ Counted(r)
  BY <1>1, <1>2 DEF Fine, Sound, Counted
<1>4. PlaceSound(r)
  <2>1. req[c].answer \in {"none", "ok", "refused"} /\ PlaceSound(req[c])
    BY <1>1 DEF Request, Fine
  <2>2. req[c].answer = "none" => MayFail(c)
    BY DEF Unusable
  <2>3. req[c].answer = "ok" => MayBeLost(c)
    BY DEF Unusable
  <2> QED
    BY <1>2, <2>1, <2>2, <2>3 DEF PlaceSound, MayFail, MayBeLost
<1>5. CancelSound(r, live)
  BY <1>1, <1>2 DEF Fine, CancelSound, Unusable, MayFail, MayBeLost, Request
<1>6. Seen(r) = Seen(req[c])
  BY <1>2 DEF Seen
<1> QED
  BY <1>3, <1>4, <1>5, <1>6 DEF Fine, r

LEMMA ServerErrorStep ==
  ASSUME SemInv, CallInv, NEW c \in Caller, ServerError(c)
  PROVE  CallInv' /\ PortStep
<1> DEFINE r == [req[c] EXCEPT !.at = "resting", !.answer = "none", !.id = NoId]
<1>1. Fine(r, live) /\ Seen(r) = Seen(req[c])
  BY FailedIsFine DEF ServerError
<1>2. req' = [req EXCEPT ![c] = r] /\ UNCHANGED <<live, late, told>>
  BY DEF ServerError
<1> HIDE DEF r
<1> QED
  BY <1>1, <1>2, UnseenStep

\* An attempt of a write that goes its own way.
LEMMA PutOffFacts ==
  ASSUME SemInv, CallInv, NEW c \in Caller, req[c].op # "get", req[c].op # "none",
         Port!PutOff(c)
  PROVE  late' \in [Late -> Port!Order \cup {NoOrder}] /\ PortCall[c] # Port!NoCall
<1>1. req[c] \in Request /\ Sound(req[c])
  BY DEF SemInv, CallInv, Fine
<1>2. req[c].op \in {"place", "cancel"} /\ req[c].order \in Port!Order
  BY <1>1 DEF Request, Sound
<1>3. /\ PortCall[c].order = req[c].order
      /\ PortCall[c].op = req[c].op
  BY <1>2 DEF PortCall
<1>4. PortCall[c] # Port!NoCall
  BY <1>2, <1>3 DEF Port!NoCall
<1> QED
  BY <1>2, <1>3, <1>4 DEF Port!PutOff, CallInv, MarketTypes

LEMMA NetworkErrorStep ==
  ASSUME SemInv, CallInv, NEW c \in Caller, NetworkError(c)
  PROVE  CallInv' /\ PortStep
<1> DEFINE r == [req[c] EXCEPT !.at = "waiting", !.answer = "none", !.id = NoId]
<1>1. Fine(r, live) /\ Seen(r) = Seen(req[c])
  BY FailedIsFine DEF NetworkError
<1>2. req' = [req EXCEPT ![c] = r] /\ UNCHANGED <<live, told>>
  BY DEF NetworkError
<1> HIDE DEF r
<1>3. CASE late' = late
  BY <1>1, <1>2, <1>3, UnseenStep
<1>4. CASE Pending(c) /\ req[c].op # "get" /\ Port!PutOff(c)
  <2>1. req[c].op # "none"
    <3>1. req[c].at = "sent" /\ Sound(req[c])
      BY DEF NetworkError, CallInv, Fine
    <3> QED
      BY <3>1 DEF Sound
  <2>2. late' \in [Late -> Port!Order \cup {NoOrder}] /\ PortCall[c] # Port!NoCall
    BY <1>4, <2>1, PutOffFacts
  <2>3. MarketTypes' /\ NoneReturns
    BY <1>2, <2>2 DEF CallInv, MarketTypes, NoneReturns
  <2>4. CallInv'
    BY <1>1, <1>2, <2>3, CallerKeepsCalls
  <2>5. PortCall' = PortCall
    BY <1>1, <1>2, UnseenAfter
  <2>6. Port!Lag(c)
    BY <1>2, <1>4, <2>2, <2>5 DEF Port!Lag
  <2>7. Port!AnsweredNext
    BY <1>2, <2>6 DEF Port!AnsweredNext, Port!Silent
  <2> QED
    BY <2>4, <2>7 DEF PortStep
<1> QED
  BY <1>3, <1>4 DEF NetworkError

\* What OrderPort sees of a write.
LEMMA WriteSeen ==
  ASSUME SemInv, CallInv, NEW c \in Caller, req[c].op \in {"place", "cancel"}
  PROVE  /\ PortCall[c].op = req[c].op /\ PortCall[c].order = req[c].order
         /\ PortCall[c].made = req[c].made /\ PortCall[c] # Port!NoCall
  BY DEF PortCall, Port!NoCall

\* The call is over.
LEMMA BackToIdle ==
  ASSUME SemInv, CallInv, NEW c \in Caller, req' = [req EXCEPT ![c] = Idle],
         live' = live, MarketTypes'
  PROVE  /\ CallInv'
         /\ PortCall' = [PortCall EXCEPT ![c] = Port!NoCall]
         /\ req[c].op \notin {"place", "cancel"} => PortCall' = PortCall
<1>1. Seen(Idle) = Port!NoCall
  BY DEF Seen, Idle, Port!NoCall
<1>2. NoneReturns
  BY DEF NoneReturns
<1>3. CallInv'
  BY <1>2, IdleIsFine, CallerKeepsCalls
<1>4. PortCall' = [PortCall EXCEPT ![c] = Port!NoCall]
  BY <1>1, SeenAfter
<1>5. req[c].op \notin {"place", "cancel"} => Seen(Idle) = Seen(req[c])
  BY DEF Seen, Idle
<1> QED
  BY <1>3, <1>4, <1>5, UnseenAfter

\* A read comes back; OrderPort knows nothing of it.
LEMMA ReadReturns ==
  ASSUME SemInv, CallInv, NEW c \in Caller, NEW results, Comes(c, results),
         req[c].op \in {"none", "get"}, req[c].at # "idle",
         UNCHANGED <<live, late>>
  PROVE  CallInv' /\ PortStep
<1>1. req[c].op = "get" => UNCHANGED told
  BY DEF Comes
<1>2. req[c].op = "get"
  BY DEF CallInv, Fine, Sound
<1>3. req' = [req EXCEPT ![c] = Idle]
  BY DEF Comes
<1>4. CallInv' /\ PortCall' = PortCall
  BY <1>3, BackToIdle, SameMarket
<1> QED
  BY <1>1, <1>2, <1>4 DEF PortStep

\* place_order returns an id that an attempt of this call created, or None.
LEMMA PlaceReturned ==
  ASSUME SemInv, CallInv, NEW c \in Caller, NEW a, req[c].op = "place",
         req' = [req EXCEPT ![c] = Idle], Port!Tell(c, a),
         UNCHANGED <<live, late>>,
         \/ \E id \in OrderId : id \in req[c].made /\ a = Port!IdOf(id)
         \/ /\ IF req[c].made = {} THEN "reject" \in Faults ELSE "lost" \in Faults
            /\ a = Port!Word("None")
  PROVE  CallInv' /\ PortStep
<1>1. CallInv' /\ PortCall' = [PortCall EXCEPT ![c] = Port!NoCall]
  BY SameMarket, BackToIdle
<1>2. Port!Return(c)
  BY <1>1 DEF Port!Return
<1>3. PortCall[c].op = "place" /\ PortCall[c].made = req[c].made
  BY WriteSeen
<1>4. Port!Told(c)
  BY <1>2, <1>3 DEF Port!Told, Port!PlaceReturnsId, Port!PlaceReturnsNone
<1> QED
  BY <1>1, <1>4 DEF PortStep, Port!AnsweredNext

\* cancel_order returns True of an order that is gone, or False.
LEMMA CancelReturned ==
  ASSUME SemInv, CallInv, NEW c \in Caller, NEW a, req[c].op = "cancel",
         req' = [req EXCEPT ![c] = Idle], Port!Tell(c, a),
         UNCHANGED <<live, late>>,
         \/ req[c].order.id \notin Port!Ids(live) /\ a = Port!Word("True")
         \/ /\ \/ "refuse" \in Faults
               \/ "lost" \in Faults /\ req[c].order.id \notin Port!Ids(live)
            /\ a = Port!Word("False")
  PROVE  CallInv' /\ PortStep
<1>1. CallInv' /\ PortCall' = [PortCall EXCEPT ![c] = Port!NoCall]
  BY SameMarket, BackToIdle
<1>2. Port!Return(c)
  BY <1>1 DEF Port!Return
<1>3. PortCall[c].op = "cancel" /\ PortCall[c].order = req[c].order
  BY WriteSeen
<1>4. Port!Told(c)
  BY <1>2, <1>3 DEF Port!Told, Port!CancelReturnsTrue, Port!CancelReturnsFalse
<1> QED
  BY <1>1, <1>4 DEF PortStep, Port!AnsweredNext

LEMMA AnswerArrivesStep ==
  ASSUME SemInv, CallInv, NEW c \in Caller, AnswerArrives(c)
  PROVE  CallInv' /\ PortStep
<1>1. /\ req[c] \in Request /\ PlaceSound(req[c]) /\ CancelSound(req[c], live)
  BY DEF SemInv, CallInv, Fine
<1>2. /\ Comes(c, Results(c)) /\ UNCHANGED <<live, late>>
      /\ req[c].answer \in {"ok", "refused"} /\ req[c].made \subseteq OrderId
  BY <1>1 DEF AnswerArrives, Request
<1>3. CASE req[c].op = "place"
  <2>1. PICK a \in Results(c) : req' = [req EXCEPT ![c] = Idle] /\ Port!Tell(c, a)
    BY <1>2, <1>3 DEF Comes
  <2>2. CASE req[c].answer = "ok"
    <3>1. \/ a = Port!IdOf(req[c].id)
          \/ a = Port!Word("None") /\ MayBeLost(c)
      BY <1>3, <2>1, <2>2 DEF Results
    <3>2. req[c].id \in req[c].made
      BY <1>1, <1>3, <2>2 DEF PlaceSound
    <3> QED
      BY <1>2, <1>3, <2>1, <3>1, <3>2, PlaceReturned DEF MayBeLost
  <2>3. CASE req[c].answer = "refused"
    <3>1. a = Port!Word("None")
      BY <1>3, <2>1, <2>3 DEF Results, Failed
    <3>2. IF req[c].made = {} THEN "reject" \in Faults ELSE "lost" \in Faults
      BY <1>1, <1>3, <2>3 DEF PlaceSound
    <3> QED
      BY <1>2, <1>3, <2>1, <3>1, <3>2, PlaceReturned
  <2> QED
    BY <1>2, <2>2, <2>3
<1>4. CASE req[c].op = "cancel"
  <2>1. PICK a \in Results(c) : req' = [req EXCEPT ![c] = Idle] /\ Port!Tell(c, a)
    BY <1>2, <1>4 DEF Comes
  <2>2. \/ req[c].answer = "ok" /\ a = Port!Word("True")
        \/ req[c].answer = "refused" /\ a = Port!Word("False")
    BY <1>2, <1>4, <2>1 DEF Results, Failed
  <2>3. \/ req[c].order.id \notin Port!Ids(live) /\ a = Port!Word("True")
        \/ "refuse" \in Faults /\ a = Port!Word("False")
    BY <1>1, <1>4, <2>2 DEF CancelSound
  <2> QED
    BY <1>2, <1>4, <2>1, <2>3, CancelReturned
<1>5. req[c].at # "idle" /\ req[c].op \in {"none", "get", "place", "cancel"}
  BY <1>1 DEF AnswerArrives, Request
<1> QED
  BY <1>2, <1>3, <1>4, <1>5, ReadReturns

\* After the last attempt.
LEMMA LastAttemptFailed ==
  ASSUME SemInv, CallInv, NEW c \in Caller, Wake(c), ~AttemptsLeft(c)
  PROVE  CallInv' /\ PortStep
<1>1. /\ req[c] \in Request /\ Sound(req[c])
      /\ PlaceSound(req[c]) /\ CancelSound(req[c], live)
  BY DEF SemInv, CallInv, Fine
<1>2. /\ req[c].at \in {"resting", "waiting"} /\ UNCHANGED <<live, late>>
      /\ Comes(c, Failed(c)) /\ req[c].answer = "none"
  BY <1>1 DEF Wake, Sound
<1>3. CASE req[c].op = "place"
  <2>1. req' = [req EXCEPT ![c] = Idle] /\ Port!Tell(c, Port!Word("None"))
    BY <1>2, <1>3 DEF Comes, Failed
  <2>2. IF req[c].made = {} THEN "reject" \in Faults ELSE "lost" \in Faults
    BY <1>1, <1>2, <1>3 DEF PlaceSound
  <2> QED
    BY <1>2, <1>3, <2>1, <2>2, PlaceReturned
<1>4. CASE req[c].op = "cancel"
  <2>1. req' = [req EXCEPT ![c] = Idle] /\ Port!Tell(c, Port!Word("False"))
    BY <1>2, <1>4 DEF Comes, Failed
  <2>2. \/ "refuse" \in Faults
        \/ "lost" \in Faults /\ req[c].order.id \notin Port!Ids(live)
    BY <1>1, <1>2, <1>4 DEF CancelSound
  <2> QED
    BY <1>2, <1>4, <2>1, <2>2, CancelReturned
<1>5. req[c].at # "idle" /\ req[c].op \in {"none", "get", "place", "cancel"}
  BY <1>1 DEF Wake, Request
<1> QED
  BY <1>2, <1>3, <1>4, <1>5, ReadReturns

LEMMA WakeStep ==
  ASSUME SemInv, CallInv, NEW c \in Caller, Wake(c)
  PROVE  CallInv' /\ PortStep
<1>1. req[c] \in Request /\ Fine(req[c], live) /\ Sound(req[c])
  BY DEF SemInv, CallInv, Fine
<1>2. /\ req[c].at \in {"resting", "waiting"} /\ UNCHANGED <<live, late>>
      /\ AttemptsLeft(c) => UNCHANGED told
  BY DEF Wake
<1>3. CASE AttemptsLeft(c)
  <2> DEFINE r == [req[c] EXCEPT !.at = "queued", !.attempt = @ + 1]
  <2>1. req' = [req EXCEPT ![c] = r]
    BY <1>3 DEF Wake
  <2>2. /\ r.at = "queued" /\ r.op = req[c].op /\ r.order = req[c].order
        /\ r.made = req[c].made /\ r.answer = req[c].answer
        /\ r.attempt = req[c].attempt + 1
    BY <1>1 DEF Request
  <2> HIDE DEF r
  <2>3. Sound(r)
    BY <1>1, <1>2, <2>2 DEF Sound
  <2>4. Counted(r)
    <3>1. /\ IsFiniteSet(req[c].made) /\ Cardinality(req[c].made) <= req[c].attempt
          /\ req[c].attempt \in Nat
      BY <1>1, ClientAssumption DEF Fine, Counted, Request
    <3>2. Cardinality(req[c].made) \in Nat
      BY <3>1, FS_CardinalityType
    <3> QED
      BY <2>2, <3>1, <3>2 DEF Counted
  <2>5. PlaceSound(r) /\ CancelSound(r, live)
    BY <1>1, <1>2, <2>2 DEF Fine, Sound, PlaceSound, CancelSound
  <2>6. Fine(r, live')
    BY <1>2, <2>3, <2>4, <2>5 DEF Fine
  <2>7. Seen(r) = Seen(req[c])
    BY <2>2 DEF Seen
  <2> QED
    BY <1>2, <1>3, <2>1, <2>6, <2>7, UnseenStep
<1>4. CASE ~AttemptsLeft(c)
  BY <1>4, LastAttemptFailed
<1> QED
  BY <1>3, <1>4

LEMMA CancelledStep ==
  ASSUME SemInv, CallInv, NEW c \in Caller, Cancelled(c)
  PROVE  CallInv' /\ PortStep
<1>1. /\ req' = [req EXCEPT ![c] = Idle] /\ live' = live
      /\ IF req[c].op = "get" THEN UNCHANGED told
                              ELSE Port!Tell(c, Port!Word("raised"))
  BY DEF Cancelled, Comes
<1>2. req[c] \in Request /\ Sound(req[c])
  BY DEF SemInv, CallInv, Fine
<1>3. req[c].op # "none"
  BY <1>2 DEF Cancelled, Sound, SemInv
<1>4. /\ \/ late' = late
         \/ req[c].op # "get" /\ Port!PutOff(c)
      /\ MarketTypes'
  <2>1. \/ late' = late
        \/ req[c].op # "get" /\ Port!PutOff(c)
    BY DEF Cancelled
  <2>2. late' \in [Late -> Port!Order \cup {NoOrder}]
    BY <1>3, <2>1, PutOffFacts DEF CallInv, MarketTypes
  <2> QED
    BY <1>1, <2>1, <2>2 DEF CallInv, MarketTypes
<1>5. /\ CallInv'
      /\ PortCall' = [PortCall EXCEPT ![c] = Port!NoCall]
      /\ req[c].op \notin {"place", "cancel"} => PortCall' = PortCall
  BY <1>1, <1>4, BackToIdle
<1>6. CASE req[c].op = "get"
  BY <1>1, <1>4, <1>5, <1>6 DEF PortStep
<1>7. CASE req[c].op # "get"
  <2>1. req[c].op \in {"place", "cancel"}
    BY <1>2, <1>3, <1>7 DEF Request
  <2>2. PortCall[c] # Port!NoCall
    BY <2>1, WriteSeen
  <2>3. Port!Abandon(c)
    BY <1>1, <1>4, <1>5, <2>2 DEF Port!Abandon
  <2> QED
    BY <1>1, <1>5, <1>7, <2>3 DEF PortStep, Port!AnsweredNext, Port!Told
<1> QED
  BY <1>6, <1>7

\* OrderPort counts as this module does.
LEMMA SameCount == ASSUME NEW S PROVE Port!Cardinality(S) = Cardinality(S)
  BY DEF Port!Cardinality, Cardinality

\* The service creates one order more for the attempt of c.
LEMMA PlacedStep ==
  ASSUME SemInv, CallInv, NEW c \in Caller, NEW id \in FreshIds, NEW r,
         Pending(c), req[c].op = "place",
         r = [req[c] EXCEPT !.answer = "ok", !.id = id, !.made = @ \cup {id}],
         req' = [req EXCEPT ![c] = r],
         live' = Port!Created(req[c].order, id), UNCHANGED <<late, told>>
  PROVE  CallInv' /\ PortStep
<1>1. /\ req[c] \in Request /\ Sound(req[c]) /\ Counted(req[c])
      /\ PlaceSound(req[c])
  BY DEF SemInv, CallInv, Fine
<1>2. /\ r.at = "sent" /\ r.op = "place" /\ r.order = req[c].order
      /\ r.made = req[c].made \cup {id} /\ r.answer = "ok" /\ r.id = id
      /\ r.attempt = req[c].attempt
      /\ req[c].at = "sent" /\ req[c].answer = "none"
  BY <1>1 DEF Request, Pending
<1>3. /\ req[c].order \in Port!Order /\ id \in OrderId
      /\ id \notin Port!Ids(live) /\ id \notin req[c].made
  <2>1. req[c].order \in Port!Order /\ req[c].order # NoOrder
    BY <1>1, ClientAssumption DEF Sound
  <2>2. {req[c].order.id} \cup req[c].made
          \in {{req[d].order.id} \cup req[d].made :
               d \in {e \in Caller : req[e].order # NoOrder}}
    BY <2>1
  <2>3. id \in OrderId /\ id \notin Port!Ids(live)
        /\ id \notin {req[c].order.id} \cup req[c].made
    BY <2>2 DEF FreshIds
  <2> QED
    BY <2>1, <2>3
<1>4. /\ live' \subseteq {x \in Port!Order : x.id # NoId}
      /\ NoneReturns
  BY <1>3, CreatedFacts
<1>5. MarketTypes'
  BY <1>4 DEF CallInv, MarketTypes
<1>6. /\ IsFiniteSet(req[c].made) /\ Cardinality(req[c].made) < req[c].attempt
      /\ Cardinality(req[c].made) \in Nat /\ req[c].attempt \in 1 .. MaxRetries
  BY <1>1, <1>2, FS_CardinalityType DEF Counted, Request
<1>7. IsFiniteSet(r.made) /\ Cardinality(r.made) = Cardinality(req[c].made) + 1
  BY <1>2, <1>3, <1>6, FS_AddElement
<1>8. Counted(r)
  BY <1>2, <1>6, <1>7 DEF Counted
<1>9. Sound(r) /\ PlaceSound(r) /\ CancelSound(r, live')
  BY <1>1, <1>2 DEF Sound, PlaceSound, CancelSound
<1>10. CallInv'
  BY <1>4, <1>5, <1>8, <1>9, CallerKeepsCalls DEF Fine
<1>11. /\ PortCall[c].op = "place" /\ PortCall[c].made = req[c].made
       /\ PortCall[c].order = req[c].order
  BY <1>2, WriteSeen
<1>12. PortCall' = [PortCall EXCEPT ![c].made = @ \cup {id}]
  <2>1. PortCall[c] = [op |-> "place", order |-> req[c].order, made |-> req[c].made]
    BY <1>2 DEF PortCall
  <2>2. Seen(r) = [op |-> "place", order |-> req[c].order,
                   made |-> req[c].made \cup {id}]
    BY <1>2 DEF Seen
  <2>3. Seen(r) = [PortCall[c] EXCEPT !.made = @ \cup {id}]
    BY <2>1, <2>2
  <2>4. PortCall' = [PortCall EXCEPT ![c] = Seen(r)]
    BY SeenAfter
  <2> QED
    BY <2>3, <2>4
<1>13. req[c].made # {} => "lost" \in Faults
  BY <1>1, <1>2 DEF PlaceSound
<1>14. Port!PlaceServed(c, id)
  <2>1. Cardinality(req[c].made) < MaxRetries
    BY <1>6, ClientAssumption
  <2>2. Port!Cardinality(PortCall[c].made) < MaxRetries
    BY <1>11, <2>1, SameCount
  <2> QED
    BY <1>3, <1>11, <1>12, <1>13, <2>2 DEF Port!PlaceServed
<1> QED
  BY <1>3, <1>10, <1>14 DEF PortStep, Port!AnsweredNext, Port!Silent

\* The service deletes the order of c, or has it no more.
LEMMA DeletedStep ==
  ASSUME SemInv, CallInv, NEW c \in Caller, NEW r,
         Pending(c), req[c].op = "cancel",
         r = [req[c] EXCEPT !.answer = "ok"],
         req' = [req EXCEPT ![c] = r],
         live' = Port!Deleted(req[c].order), UNCHANGED <<late, told>>
  PROVE  CallInv' /\ PortStep
<1>1. /\ req[c] \in Request /\ Sound(req[c]) /\ Counted(req[c])
  BY DEF SemInv, CallInv, Fine
<1>2. /\ r.at = "sent" /\ r.op = "cancel" /\ r.order = req[c].order
      /\ r.made = req[c].made /\ r.answer = "ok" /\ r.attempt = req[c].attempt
      /\ req[c].at = "sent" /\ req[c].answer = "none"
  BY <1>1 DEF Request, Pending
<1>3. live' \subseteq live /\ req[c].order.id \notin Port!Ids(live')
  BY DEF Port!Deleted, Port!Ids
<1>4. /\ live' \subseteq {x \in Port!Order : x.id # NoId}
      /\ NoneReturns
  BY <1>3, FewerFacts
<1>5. MarketTypes'
  BY <1>4 DEF CallInv, MarketTypes
<1>6. Counted(r)
  <2>1. Cardinality(req[c].made) < req[c].attempt
    BY <1>1, <1>2 DEF Counted
  <2> QED
    BY <1>1, <1>2, <2>1 DEF Counted
<1>7. Sound(r) /\ PlaceSound(r) /\ CancelSound(r, live')
  BY <1>1, <1>2, <1>3 DEF Sound, PlaceSound, CancelSound
<1>8. CallInv'
  BY <1>4, <1>5, <1>6, <1>7, CallerKeepsCalls DEF Fine
<1>9. Seen(r) = Seen(req[c])
  BY <1>2 DEF Seen
<1>10. PortCall' = PortCall
  BY <1>9, UnseenAfter
<1>11. CASE req[c].order.id \in Port!Ids(live)
  <2>1. PortCall[c].op = "cancel" /\ PortCall[c].order = req[c].order
    BY WriteSeen
  <2>2. Port!CancelServed(c)
    BY <1>10, <1>11, <2>1 DEF Port!CancelServed
  <2> QED
    BY <1>8, <2>2 DEF PortStep, Port!AnsweredNext, Port!Silent
<1>12. CASE req[c].order.id \notin Port!Ids(live)
  <2>1. live' = live
    BY <1>12 DEF Port!Deleted, Port!Ids
  <2> QED
    BY <1>8, <1>10, <2>1 DEF PortStep
<1> QED
  BY <1>11, <1>12

LEMMA ServiceActsStep ==
  ASSUME SemInv, CallInv, NEW c \in Caller, ServiceActs(c)
  PROVE  CallInv' /\ PortStep
<1>1. req[c] \in Request /\ Fine(req[c], live) /\ Pending(c)
      /\ UNCHANGED <<late, told>>
  BY DEF SemInv, CallInv, ServiceActs
<1>2. CASE req[c].op = "get" /\ UNCHANGED live /\ req' = [req EXCEPT ![c].answer = "ok"]
  <2> DEFINE r == [req[c] EXCEPT !.answer = "ok"]
  <2>1. /\ r.at = "sent" /\ r.op = "get" /\ r.made = req[c].made
        /\ r.attempt = req[c].attempt
        /\ req[c].at = "sent" /\ req[c].answer = "none"
    BY <1>1, <1>2 DEF Request, Pending
  <2>2. req' = [req EXCEPT ![c] = r]
    BY <1>2
  <2> HIDE DEF r
  <2>3. Fine(r, live')
    BY <1>1, <2>1 DEF Fine, Sound, Counted, PlaceSound, CancelSound
  <2>4. Seen(r) = Seen(req[c])
    BY <1>2, <2>1 DEF Seen
  <2> QED
    BY <1>1, <1>2, <2>2, <2>3, <2>4, UnseenStep
<1>3. ASSUME req[c].op = "place", NEW id \in FreshIds,
             live' = Port!Created(req[c].order, id),
             req' = [req EXCEPT ![c].answer = "ok", ![c].id = id,
                                   ![c].made = @ \cup {id}]
      PROVE  CallInv' /\ PortStep
  <2> DEFINE r == [req[c] EXCEPT !.answer = "ok", !.id = id, !.made = @ \cup {id}]
  <2>1. req' = [req EXCEPT ![c] = r]
    BY <1>3, <1>1 DEF SemInv
  <2> QED
    BY <1>1, <1>3, <2>1, PlacedStep
<1>4. CASE /\ req[c].op = "cancel"
           /\ live' = Port!Deleted(req[c].order)
           /\ req' = [req EXCEPT ![c].answer = "ok"]
  <2>1. req' = [req EXCEPT ![c] = [req[c] EXCEPT !.answer = "ok"]]
    BY <1>4
  <2> QED
    BY <1>1, <1>4, <2>1, DeletedStep
<1> QED
  BY <1>2, <1>3, <1>4 DEF ServiceActs

\* The market changes and no request does.
LEMMA MarketMoves ==
  ASSUME SemInv, CallInv, UNCHANGED req, MarketTypes', NoneReturns
  PROVE  CallInv' /\ PortCall' = PortCall
<1>1. \A c \in Caller : Fine(req'[c], live')
  BY OthersStayFine
<1> QED
  BY <1>1 DEF CallInv, PortCall

LEMMA FillStep ==
  ASSUME SemInv, CallInv, Fill
  PROVE  CallInv' /\ PortStep
<1>1. PICK o \in live : live' = live \ {o}
  BY DEF Fill
<1>2. MarketTypes' /\ NoneReturns
  BY <1>1, FewerFacts DEF CallInv, MarketTypes, Fill
<1>3. CallInv' /\ PortCall' = PortCall
  BY <1>2, MarketMoves DEF Fill
<1>4. Port!Fill(o)
  BY <1>1, <1>3 DEF Port!Fill, Fill
<1> QED
  BY <1>1, <1>3, <1>4 DEF PortStep, Port!AnsweredNext, Port!Silent, Fill

LEMMA LateArrivesStep ==
  ASSUME SemInv, CallInv, LateArrives
  PROVE  CallInv' /\ PortStep
<1>1. PICK k \in Late, id \in FreshIds : Port!LateServed(k, id)
  BY DEF LateArrives
<1>2. late[k] \in Port!Order /\ late' = [late EXCEPT ![k] = NoOrder]
  BY <1>1 DEF Port!LateServed, CallInv, MarketTypes
<1>3. CASE live' = Port!Created(late[k], id)
  <2>1. live' \subseteq {x \in Port!Order : x.id # NoId} /\ NoneReturns
    BY <1>2, <1>3, CreatedFacts
  <2> QED
    BY <1>2, <2>1, MarketMoves, <1>1 DEF CallInv, MarketTypes, LateArrives,
       PortStep, Port!AnsweredNext, Port!Silent, FreshIds
<1>4. CASE live' = Port!Deleted(late[k])
  <2>1. live' \subseteq live
    BY <1>4 DEF Port!Deleted
  <2>2. live' \subseteq {x \in Port!Order : x.id # NoId} /\ NoneReturns
    BY <2>1, FewerFacts
  <2> QED
    BY <1>2, <2>2, MarketMoves, <1>1 DEF CallInv, MarketTypes, LateArrives,
       PortStep, Port!AnsweredNext, Port!Silent, FreshIds
<1> QED
  BY <1>1, <1>3, <1>4 DEF Port!LateServed

\* Every step of the client is one of OrderPort, or none.
LEMMA CallStep ==
  ASSUME SemInv, CallInv, [Next]_vars
  PROVE  CallInv' /\ PortStep
<1>1. CASE UNCHANGED vars
  <2>1. MarketTypes' /\ NoneReturns /\ UNCHANGED req
    BY <1>1, SameMarket DEF vars
  <2>2. CallInv' /\ PortCall' = PortCall
    BY <2>1, MarketMoves
  <2> QED
    BY <1>1, <2>2 DEF PortStep, vars
<1> QED
  BY <1>1, LateArrivesStep, FillStep, StartStep, AcquireStep, ServiceActsStep,
     RefusesStep, AnswerArrivesStep, ServerErrorStep, NetworkErrorStep, WakeStep,
     CancelledStep DEF Next

-----------------------------------------------------------------------------
(* The theorems.                                                            *)

ToldType == told \in [Caller -> Port!Answer]

Inv == SemInv /\ CallInv /\ ToldType

LEMMA AnswerTypes ==
  /\ \A w \in {"nothing", "None", "True", "False", "raised"} :
       Port!Word(w) \in Port!Answer
  /\ Port!Nothing \in Port!Answer
  /\ \A id \in OrderId \cup {NoId} : Port!IdOf(id) \in Port!Answer
  BY DEF Port!Word, Port!IdOf, Port!Nothing, Port!Answer

\* Whatever a caller is told is an answer.
LEMMA ToldStep ==
  ASSUME SemInv, ToldType, [Next]_vars
  PROVE  ToldType'
<1>1. ASSUME NEW c \in Caller, NEW a \in Port!Answer, Port!Tell(c, a)
      PROVE  ToldType'
  BY <1>1 DEF ToldType, Port!Tell
<1>2. CASE UNCHANGED told
  BY <1>2 DEF ToldType
<1>3. ASSUME NEW c \in Caller PROVE Failed(c) \subseteq Port!Answer
  BY AnswerTypes DEF Failed
<1>4. ASSUME NEW c \in Caller PROVE Results(c) \subseteq Port!Answer
  <2>1. req[c].id \in OrderId \cup {NoId}
    BY DEF SemInv, Request
  <2>2. CASE req[c].answer # "ok"
    BY <1>3, <2>2 DEF Results
  <2>3. CASE req[c].answer = "ok"
    BY <2>1, <2>3, AnswerTypes DEF Results
  <2> QED
    BY <2>2, <2>3
<1>5. ASSUME NEW c \in Caller, NEW rs \in SUBSET Port!Answer, Comes(c, rs)
      PROVE  ToldType'
  BY <1>1, <1>2, <1>5 DEF Comes
<1>6. ASSUME NEW c \in Caller, Start(c) PROVE ToldType'
  BY <1>1, <1>2, <1>6, AnswerTypes DEF Start
<1>7. ASSUME NEW c \in Caller, AnswerArrives(c) PROVE ToldType'
  BY <1>4, <1>5, <1>7 DEF AnswerArrives
<1>8. ASSUME NEW c \in Caller, Wake(c) PROVE ToldType'
  BY <1>2, <1>3, <1>5, <1>8 DEF Wake
<1>9. ASSUME NEW c \in Caller, Cancelled(c) PROVE ToldType'
  <2>1. {Port!Word("raised")} \in SUBSET Port!Answer
    BY AnswerTypes
  <2> QED
    BY <1>5, <1>9, <2>1 DEF Cancelled
<1> QED
  BY <1>2, <1>6, <1>7, <1>8, <1>9 DEF Next, vars, LateArrives, Fill, Acquire,
     ServiceActs, Refuses, ServerError, NetworkError

LEMMA InitInv == Init => Inv
<1> SUFFICES ASSUME Init PROVE Inv
  OBVIOUS
<1>1. Holding = {} /\ IsFiniteSet({}) /\ Cardinality({}) = 0
  BY NoneMade DEF Init, Holding, Idle
<1>2. queue \in Seq(Caller) /\ IsInjective(queue) /\ DOMAIN queue = {}
  BY EmptySeq DEF Init, IsInjective
<1>3. SemInv
  BY <1>1, <1>2, IdleType, ClientAssumption DEF Init, SemInv
<1>4. CallInv
  BY IdleIsFine, ClientAssumption DEF Init, CallInv, MarketTypes
<1>5. ToldType
  BY AnswerTypes DEF Init, ToldType
<1> QED
  BY <1>3, <1>4, <1>5 DEF Inv

LEMMA StepInv == Inv /\ [Next]_vars => Inv' /\ PortStep
<1> SUFFICES ASSUME Inv, [Next]_vars PROVE Inv' /\ PortStep
  OBVIOUS
<1>1. live \subseteq Port!Order
  BY DEF Inv, CallInv, MarketTypes
<1> QED
  BY <1>1, SemStep, CallStep, ToldStep DEF Inv

LEMMA InvTypes == Inv => TypeOK
<1> SUFFICES ASSUME Inv PROVE TypeOK
  OBVIOUS
<1>1. \A c \in Caller : PortCall[c] \in Port!Call
  <2> SUFFICES ASSUME NEW c \in Caller PROVE PortCall[c] \in Port!Call
    OBVIOUS
  <2>1. req[c] \in Request /\ Sound(req[c])
    BY DEF Inv, SemInv, CallInv, Fine
  <2>2. CASE req[c].op \in {"place", "cancel"}
    BY <2>1, <2>2 DEF PortCall, Request, Sound, Port!Call
  <2>3. CASE req[c].op \notin {"place", "cancel"}
    BY <2>3 DEF PortCall, Port!Call, Port!NoCall
  <2> QED
    BY <2>2, <2>3
<1>2. PortCall \in [Caller -> Port!Call]
  BY <1>1 DEF PortCall
<1>3. Port!AnsweredTypeOK
  BY <1>2 DEF Port!AnsweredTypeOK, Port!PortTypeOK, Inv, CallInv, MarketTypes, ToldType
<1>4. free \in 0 .. MaxConcurrency
  <2>1. Cardinality(Holding) \in Nat
    BY FS_CardinalityType DEF Inv, SemInv
  <2> QED
    BY <2>1, ClientAssumption DEF Inv, SemInv
<1> QED
  BY <1>3, <1>4 DEF TypeOK, Inv, SemInv

LEMMA Invariant == Spec => []Inv
<1>1. Inv /\ [Next]_vars => Inv'
  BY StepInv
<1> QED
  BY <1>1, InitInv, PTL DEF Spec

\* The types: no more permits than there are, every request well formed, and the
\* calls it stands for those of OrderPort.
THEOREM TypeCorrect == Spec => []TypeOK
  BY Invariant, InvTypes, PTL

\* The permits nobody holds and the attempts under way or asleep inside the
\* semaphore always add up: no path out of _request, an answer, an error, the
\* last retry or a cancelled coroutine, loses a permit or gives one back twice.
THEOREM NoPermitLostCorrect == Spec => []NoPermitLost
<1>1. Inv => NoPermitLost
  BY DEF Inv, SemInv, NoPermitLost
<1> QED
  BY <1>1, Invariant, PTL

\* What place_order and cancel_order tell their caller is true of the order: an
\* id names an order that an attempt of this very call created, True is said of
\* an order that rests no more, and None and False, unless an answer was lost, of
\* a request that was not carried out.  No call creates more orders than it has
\* attempts.  This is what the engines are checked and proved against.
THEOREM ImplementsPortCorrect == Spec => ImplementsPort
<1>1. Init => Port!AnsweredInit
  BY DEF Init, Port!AnsweredInit, Port!PortInit, PortCall, Idle, Port!NoCall
<1>2. Inv /\ [Next]_vars => [Port!AnsweredNext]_(Port!answeredVars)
  BY StepInv DEF PortStep, Port!answeredVars, Port!portVars
<1> QED
  BY <1>1, <1>2, Invariant, PTL DEF Spec, ImplementsPort, Port!AnsweredSpec
=============================================================================
