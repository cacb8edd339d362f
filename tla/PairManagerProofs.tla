-------------------------- MODULE PairManagerProofs --------------------------
(***************************************************************************)
(* Invariants of PairManager, for any markets, pairs and faults.           *)
(***************************************************************************)
EXTENDS PairManager, DataLemmas

-----------------------------------------------------------------------------
(* The lock: who is past the first await of its critical section holds it,  *)
(* who waits for it has a call to make.                                     *)

Call == [at: At, pair: Pair \cup {NoPair}, market: Symbol \cup {NoMarket},
         persist: BOOLEAN]

WellFormed(t) ==
  /\ t \in Call
  /\ t.at \in At \ {"idle", "remove"} => t.pair \in Pair
  /\ t.at \in {"remove", "stopping", "unsubscribing"} => t.market \in Symbol

LockInv ==
  /\ holder \in Worker \cup {NoOne}
  /\ waiting \in Seq(Worker) /\ IsInjective(waiting)
  /\ task \in [Worker -> Call]
  /\ \A w \in Worker : WellFormed(task[w])
  /\ \A w \in Worker : task[w].at \in Inside => holder = w
  /\ \A w \in Worker : holder = w => task[w].at # "idle"
  /\ \A i \in DOMAIN waiting :
       task[waiting[i]].at \in {"add", "remove"} /\ waiting[i] # holder
  /\ ~booted => \A p \in Pair : task[p] = Resting

LEMMA WorkerFacts == NoOne \notin Worker /\ Pair \subseteq Worker
  BY ManagerAssumption DEF Worker

LEMMA RestingIsWellFormed == WellFormed(Resting)
  BY DEF WellFormed, Resting, Call, At

LEMMA AddCallIsWellFormed ==
  ASSUME NEW p \in Pair, NEW keep \in BOOLEAN
  PROVE  WellFormed(AddCall(p, keep)) /\ AddCall(p, keep).at = "add"
  BY DEF WellFormed, AddCall, Call, At

LEMMA RemoveCallIsWellFormed ==
  ASSUME NEW m \in Symbol
  PROVE  WellFormed(RemoveCall(m)) /\ RemoveCall(m).at = "remove"
  BY DEF WellFormed, RemoveCall, Call, At

\* A worker that was idle takes the lock or queues up for it.
LEMMA AsksKeepsLock ==
  ASSUME LockInv, NEW w \in {Kafka, Retry}, task[w] = Resting,
         NEW next, WellFormed(next), next.at \in {"add", "remove"},
         Asks(w, next), UNCHANGED booted
  PROVE  LockInv'
<1> w \in Worker /\ w \notin Pair
  BY ManagerAssumption DEF Worker
<1>1. /\ task' \in [Worker -> Call]
      /\ task'[w] = next
      /\ \A v \in Worker \ {w} : task'[v] = task[v]
  BY DEF LockInv, Asks, WellFormed
<1>2. task[w].at = "idle" /\ holder # w
  BY DEF LockInv, Resting
<1>3. \A i \in DOMAIN waiting : waiting[i] # w /\ waiting[i] \in Worker
  BY <1>2, ElementOfSeq, LenProperties DEF LockInv
<1>4. next.at \notin Inside /\ next.at # "idle"
  BY DEF Inside, At
<1>5. \A v \in Worker : WellFormed(task'[v])
  <2> SUFFICES ASSUME NEW v \in Worker PROVE WellFormed(task'[v])
    OBVIOUS
  <2>1. CASE v = w
    BY <1>1, <2>1
  <2>2. CASE v # w
    BY <1>1, <2>2 DEF LockInv
  <2> QED
    BY <2>1, <2>2
<1>6. ~booted' => \A p \in Pair : task'[p] = Resting
  BY <1>1, WorkerFacts DEF LockInv
<1>7. CASE holder = NoOne /\ waiting = << >>
  <2>1. holder' = w /\ waiting' = << >>
    BY <1>7 DEF Asks
  <2>2. DOMAIN << >> = {}
    OBVIOUS
  <2>3. \A v \in Worker : task[v].at \notin Inside
    BY <1>7, WorkerFacts DEF LockInv
  <2>4. waiting' \in Seq(Worker) /\ IsInjective(waiting')
    BY <2>1, <1>7 DEF LockInv
  <2>5. \A v \in Worker : task'[v].at \notin Inside
    BY <1>1, <1>4, <2>3
  <2>6. \A v \in Worker : holder' = v => task'[v].at # "idle"
    BY <1>1, <1>4, <2>1
  <2> QED
    BY <1>1, <1>5, <1>6, <2>1, <2>2, <2>4, <2>5, <2>6 DEF LockInv
<1>8. CASE ~(holder = NoOne /\ waiting = << >>)
  <2>1. holder' = holder /\ waiting' = Append(waiting, w)
    BY <1>8 DEF Asks
  <2>2. /\ waiting' \in Seq(Worker) /\ Len(waiting') = Len(waiting) + 1
        /\ \A i \in 1 .. Len(waiting) : waiting'[i] = waiting[i]
        /\ waiting'[Len(waiting) + 1] = w
    BY <2>1, AppendProperties DEF LockInv
  <2>3. /\ DOMAIN waiting = 1 .. Len(waiting) /\ Len(waiting) \in Nat
        /\ DOMAIN waiting' = 1 .. Len(waiting) + 1
    BY <2>2, LenProperties DEF LockInv
  <2>4. IsInjective(waiting')
    BY <1>3, <2>2, <2>3 DEF LockInv, IsInjective
  <2>5. \A i \in DOMAIN waiting' :
          task'[waiting'[i]].at \in {"add", "remove"} /\ waiting'[i] # holder'
    BY <1>1, <1>2, <1>3, <2>1, <2>2, <2>3 DEF LockInv
  <2>6. \A v \in Worker : task'[v].at \in Inside => holder' = v
    BY <1>1, <1>4, <2>1 DEF LockInv
  <2>7. \A v \in Worker : holder' = v => task'[v].at # "idle"
    BY <1>1, <1>4, <2>1 DEF LockInv
  <2>8. holder' \in Worker \cup {NoOne}
    BY <2>1 DEF LockInv
  <2> QED
    BY <1>1, <1>5, <1>6, <2>2, <2>4, <2>5, <2>6, <2>7, <2>8 DEF LockInv
<1> QED
  BY <1>7, <1>8

\* The worker whose move it is in a critical section.
Turn(w) ==
  \/ task[w].at \in {"add", "remove"} /\ Enters(w)
  \/ task[w].at \in Inside /\ UNCHANGED waiting

\* Nobody else is inside then, and who still waits is somebody else.
LEMMA TurnFacts ==
  ASSUME LockInv, NEW w \in Worker, Turn(w)
  PROVE  /\ \A v \in Worker \ {w} : task[v].at \notin Inside
         /\ waiting' \in Seq(Worker) /\ IsInjective(waiting')
         /\ \A i \in DOMAIN waiting' :
              /\ waiting'[i] \in Worker \ {w}
              /\ task[waiting'[i]].at \in {"add", "remove"}
<1>1. CASE UNCHANGED waiting /\ holder = w
  <2>1. \A i \in DOMAIN waiting : waiting[i] \in Worker
    BY ElementOfSeq, LenProperties DEF LockInv
  <2> QED
    BY <1>1, <2>1 DEF LockInv
<1>2. CASE /\ holder = NoOne /\ waiting # << >> /\ Head(waiting) = w
           /\ waiting' = Tail(waiting)
  <2>1. /\ Len(waiting) \in Nat /\ Len(waiting) >= 1
        /\ DOMAIN waiting = 1 .. Len(waiting)
        /\ w = waiting[1]
    BY <1>2, EmptySeq, LenProperties DEF LockInv
  <2>2. /\ waiting' \in Seq(Worker) /\ Len(waiting') = Len(waiting) - 1
        /\ \A i \in 1 .. Len(waiting) - 1 : waiting'[i] = waiting[i + 1]
    BY <1>2, HeadTailProperties DEF LockInv
  <2>3. DOMAIN waiting' = 1 .. Len(waiting) - 1
    BY <2>1, <2>2, LenProperties
  <2>4. \A i \in DOMAIN waiting' : i + 1 \in DOMAIN waiting /\ i + 1 # 1
    BY <2>1, <2>3
  <2>5. IsInjective(waiting')
    BY <2>2, <2>3, <2>4 DEF LockInv, IsInjective
  <2>6. \A i \in DOMAIN waiting' : waiting'[i] \in Worker \ {w}
    BY <2>1, <2>2, <2>3, <2>4, ElementOfSeq DEF LockInv, IsInjective
  <2>7. \A i \in DOMAIN waiting' : task[waiting'[i]].at \in {"add", "remove"}
    BY <2>2, <2>3, <2>4 DEF LockInv
  <2>8. \A v \in Worker : task[v].at \notin Inside
    BY <1>2, WorkerFacts DEF LockInv
  <2> QED
    BY <2>2, <2>5, <2>6, <2>7, <2>8
<1> QED
  BY <1>1, <1>2 DEF Turn, Enters, LockInv

\* That move keeps the lock or gives it back.
LEMMA TurnKeepsLock ==
  ASSUME LockInv, NEW w \in Worker, Turn(w), UNCHANGED booted,
         NEW next, WellFormed(next), task' = [task EXCEPT ![w] = next],
         \/ holder' = w /\ next.at \in Inside
         \/ holder' = NoOne /\ next = Resting
  PROVE  LockInv'
<1>1. /\ task' \in [Worker -> Call]
      /\ task'[w] = next
      /\ \A v \in Worker \ {w} : task'[v] = task[v]
  BY DEF LockInv, WellFormed
<1>2. \A v \in Worker : WellFormed(task'[v])
  <2> SUFFICES ASSUME NEW v \in Worker PROVE WellFormed(task'[v])
    OBVIOUS
  <2>1. CASE v = w
    BY <1>1, <2>1
  <2>2. CASE v # w
    BY <1>1, <2>2 DEF LockInv
  <2> QED
    BY <2>1, <2>2
<1>3. "idle" \notin Inside /\ Resting.at = "idle"
  BY DEF Inside, Resting
<1>4. task[w].at # "idle"
  BY <1>3 DEF Turn
<1>5. ~booted' => \A p \in Pair : task'[p] = Resting
  BY <1>1, <1>3, <1>4, WorkerFacts DEF LockInv
<1>6. \A v \in Worker : task'[v].at \in Inside => holder' = v
  BY <1>1, <1>3, TurnFacts
<1>7. \A v \in Worker : holder' = v => task'[v].at # "idle"
  BY <1>1, <1>3, WorkerFacts
<1>8. \A i \in DOMAIN waiting' :
        task'[waiting'[i]].at \in {"add", "remove"} /\ waiting'[i] # holder'
  BY <1>1, TurnFacts, WorkerFacts
<1>9. holder' \in Worker \cup {NoOne}
  OBVIOUS
<1> QED
  BY <1>1, <1>2, <1>5, <1>6, <1>7, <1>8, <1>9, TurnFacts DEF LockInv

LEMMA GoingOnKeepsLock ==
  ASSUME LockInv, NEW w \in Worker, Turn(w), UNCHANGED booted,
         NEW next, WellFormed(next), next.at \in Inside, GoesOn(w, next)
  PROVE  LockInv'
  BY TurnKeepsLock DEF GoesOn

LEMMA LeavingKeepsLock ==
  ASSUME LockInv, NEW w \in Worker, Turn(w), UNCHANGED booted, Leave(w)
  PROVE  LockInv'
  BY TurnKeepsLock, RestingIsWellFormed DEF Leave

\* The tasks of the bootstrap queue up behind who is there.
LEMMA BootstrapKeepsLock ==
  ASSUME LockInv, known \subseteq Symbol, loaded \subseteq Pair, Bootstrap
  PROVE  LockInv'
<1>0. PICK usable \in SUBSET known :
        /\ \E order \in SetToSeqs(BootPairs(usable)) : waiting' = waiting \o order
        /\ task' = [w \in Worker |->
                      IF w \in BootPairs(usable) THEN AddCall(w, FALSE) ELSE task[w]]
  BY DEF Bootstrap
<1>0a. holder' = holder /\ ~booted /\ booted'
  BY DEF Bootstrap
<1> DEFINE B == BootPairs(usable)
<1>1. B \subseteq Pair
  BY DEF BootPairs, Own, Pair
<1>2. Cardinality(B) \in Nat
  BY <1>1, ManagerAssumption, FS_Subset, FS_CardinalityType
<1>3. PICK order \in SetToSeqs(B) : waiting' = waiting \o order
  BY <1>0
<1>4. /\ order \in Seq(B) /\ Len(order) = Cardinality(B)
      /\ DOMAIN order = 1 .. Cardinality(B)
      /\ \A i, j \in DOMAIN order : i # j => order[i] # order[j]
  <2>1. /\ order \in [1 .. Cardinality(B) -> B]
        /\ \A i, j \in DOMAIN order : i # j => order[i] # order[j]
    BY <1>3 DEF SetToSeqs, IsInjective
  <2> HIDE DEF B
  <2> QED
    BY <1>2, <2>1, SeqDef, LenProperties
<1> HIDE DEF B
<1>5. \A p \in Pair : p \in Worker /\ task[p] = Resting
  BY <1>0a, WorkerFacts DEF LockInv
<1>6. \A v \in Worker : task'[v] = IF v \in B THEN AddCall(v, FALSE) ELSE task[v]
  BY <1>0 DEF B
<1>7. "idle" \notin Inside /\ "add" \notin Inside /\ Resting.at = "idle"
  BY DEF Inside, Resting
<1>8. \A v \in Worker : WellFormed(task'[v])
  BY <1>1, <1>6, AddCallIsWellFormed DEF LockInv
<1>9. task' \in [Worker -> Call]
  BY <1>0, <1>8 DEF WellFormed
<1>10. \A p \in B : AddCall(p, FALSE).at = "add"
  BY <1>1, AddCallIsWellFormed
<1>11. \A v \in Worker : task'[v].at \in Inside => holder' = v
  <2> SUFFICES ASSUME NEW v \in Worker, task'[v].at \in Inside
               PROVE  holder = v
    BY <1>0a
  <2>1. v \notin B
    BY <1>6, <1>7, <1>10
  <2>2. task[v].at \in Inside
    BY <1>6, <2>1
  <2> QED
    BY <2>2 DEF LockInv
<1>12. \A v \in Worker : holder' = v => task'[v].at # "idle"
  BY <1>0a, <1>6, <1>10 DEF LockInv
<1>13. holder \notin B
  BY <1>1, <1>5, <1>7, WorkerFacts DEF LockInv
<1>14. /\ DOMAIN waiting = 1 .. Len(waiting) /\ Len(waiting) \in Nat
       /\ \A i \in DOMAIN waiting : waiting[i] \in Worker \ B
  <2>1. \A i \in DOMAIN waiting : waiting[i] \notin B
    BY <1>1, <1>5, <1>7 DEF LockInv
  <2> QED
    BY <2>1, LenProperties, ElementOfSeq DEF LockInv
<1>15. \A i \in 1 .. Len(order) : order[i] \in B
  BY <1>4, ElementOfSeq
<1>16. order \in Seq(Worker)
  BY <1>1, <1>4, <1>5
<1>17. /\ waiting' \in Seq(Worker) /\ Len(waiting') = Len(waiting) + Len(order)
       /\ \A i \in 1 .. Len(waiting) + Len(order) :
            waiting'[i] = IF i <= Len(waiting) THEN waiting[i]
                                               ELSE order[i - Len(waiting)]
  BY <1>3, <1>16, ConcatProperties DEF LockInv
<1>18. DOMAIN waiting' = 1 .. Len(waiting) + Len(order)
  BY <1>17, LenProperties
<1>19. \A i \in DOMAIN waiting' :
         \/ i \in DOMAIN waiting /\ waiting'[i] = waiting[i]
         \/ /\ i > Len(waiting) /\ i - Len(waiting) \in DOMAIN order
            /\ waiting'[i] = order[i - Len(waiting)]
  BY <1>2, <1>4, <1>14, <1>17, <1>18
<1>20. \A i \in DOMAIN waiting' : \A j \in DOMAIN waiting' :
         waiting'[i] = waiting'[j] => i = j
  <2> SUFFICES ASSUME NEW i \in DOMAIN waiting', NEW j \in DOMAIN waiting',
                      waiting'[i] = waiting'[j]
               PROVE  i = j
    OBVIOUS
  <2>1. CASE waiting'[i] \in B
    <3>1. /\ i - Len(waiting) \in DOMAIN order /\ j - Len(waiting) \in DOMAIN order
          /\ order[i - Len(waiting)] = order[j - Len(waiting)]
      BY <1>14, <1>19, <2>1
    <3>2. i - Len(waiting) = j - Len(waiting)
      BY <1>4, <3>1
    <3> QED
      BY <3>2, <1>14, <1>18
  <2>2. CASE waiting'[i] \notin B
    <3>1. /\ i \in DOMAIN waiting /\ j \in DOMAIN waiting
          /\ waiting[i] = waiting[j]
      BY <1>4, <1>15, <1>19, <2>2
    <3> QED
      BY <3>1 DEF LockInv, IsInjective
  <2> QED
    BY <2>1, <2>2
<1>21. \A i \in DOMAIN waiting' :
         task'[waiting'[i]].at \in {"add", "remove"} /\ waiting'[i] # holder'
  <2> SUFFICES ASSUME NEW i \in DOMAIN waiting'
               PROVE  /\ task'[waiting'[i]].at \in {"add", "remove"}
                      /\ waiting'[i] # holder
    BY <1>0a
  <2>1. CASE i \in DOMAIN waiting /\ waiting'[i] = waiting[i]
    BY <1>6, <1>14, <2>1 DEF LockInv
  <2>2. CASE waiting'[i] \in B
    BY <1>1, <1>5, <1>6, <1>10, <1>13, <2>2
  <2> QED
    BY <1>4, <1>15, <1>19, <2>1, <2>2
<1> QED
  BY <1>0a, <1>8, <1>9, <1>11, <1>12, <1>17, <1>20, <1>21
     DEF LockInv, IsInjective

-----------------------------------------------------------------------------
(* Types of what is not the lock, and the lock along every step.            *)

DataTypes ==
  /\ known \subseteq Symbol /\ gone \subseteq Symbol
  /\ config \subseteq Pair /\ loaded \subseteq Pair /\ booted \in BOOLEAN
  /\ engines \in Seq(Pair) /\ loops \subseteq Symbol /\ feed \subseteq Symbol
  /\ pending \subseteq Pair /\ snapshot \subseteq Pair

LEMMA OwnIsPair == ASSUME NEW m \in Symbol PROVE Own(m) \in Pair
  BY DEF Own, Pair

LEMMA RunningPairs ==
  ASSUME engines \in Seq(Pair)
  PROVE  /\ Running \subseteq Pair /\ Sources(Running) \subseteq Symbol
         /\ \A i \in DOMAIN engines : engines[i] \in Running
<1>1. \A i \in DOMAIN engines : engines[i] \in Pair
  BY ElementOfSeq, LenProperties
<1> QED
  BY <1>1 DEF Running, ToSet, Sources, Pair

\* The pair remove_pair finds is one that runs.
LEMMA FoundRuns ==
  ASSUME engines \in Seq(Pair), NEW m
  PROVE  Found(m) \subseteq Running
  BY RunningPairs DEF Found, Matching

LEMMA WithoutEngineIsSeq ==
  ASSUME engines \in Seq(Pair), NEW e
  PROVE  WithoutEngine(e) \in Seq(Pair)
<1>1. CASE e \in Running
  <2> DEFINE k == CHOOSE i \in DOMAIN engines : engines[i] = e
  <2>1. k \in DOMAIN engines
    BY <1>1 DEF Running, ToSet
  <2> HIDE DEF k
  <2>2. RemoveAt(engines, k) \in Seq(Pair)
    BY <2>1, RemovedAt
  <2> QED
    BY <1>1, <2>2 DEF WithoutEngine, k
<1>2. CASE e \notin Running
  BY <1>2 DEF WithoutEngine
<1> QED
  BY <1>1, <1>2

\* The tasks the invariant knows to carry a pair or a market do.
LEMMA Carries ==
  ASSUME LockInv, NEW w \in Worker
  PROVE  /\ task[w].at \in {"add", "exists", "known", "adopt", "stopping", "unsubscribing"}
              => task[w].pair \in Pair
         /\ task[w].at \in {"remove", "stopping", "unsubscribing"}
              => task[w].market \in Symbol
<1>1. WellFormed(task[w])
  BY DEF LockInv
<1> QED
  BY <1>1 DEF WellFormed, At

\* Nobody is inside and nobody waits once every coroutine is gone.
LEMMA RestKeepsLock ==
  ASSUME holder' = NoOne, waiting' = << >>, task' = [w \in Worker |-> Resting]
  PROVE  LockInv'
<1>1. << >> \in Seq(Worker) /\ DOMAIN << >> = {}
  OBVIOUS
<1>2. Resting.at = "idle" /\ "idle" \notin Inside /\ Resting \in Call
  BY RestingIsWellFormed DEF Resting, Inside, WellFormed
<1> QED
  BY <1>1, <1>2, WorkerFacts, RestingIsWellFormed DEF LockInv, IsInjective

LEMMA LockStep ==
  ASSUME DataTypes, LockInv, [Next]_vars
  PROVE  LockInv'
<1>1. CASE UNCHANGED vars
  BY <1>1 DEF vars, LockInv, WellFormed
<1>2. CASE ServiceChanges
  BY <1>2 DEF ServiceChanges, LockInv
<1>3. ASSUME NEW m \in Symbol, EnableEvent(m)
      PROVE  LockInv'
  <2>1. AddCall(Own(m), TRUE).at = "add" /\ WellFormed(AddCall(Own(m), TRUE))
    BY OwnIsPair, AddCallIsWellFormed
  <2> QED
    BY <1>3, <2>1, AsksKeepsLock DEF EnableEvent
<1>4. ASSUME NEW m \in Symbol, DelistEvent(m)
      PROVE  LockInv'
  BY <1>4, RemoveCallIsWellFormed, AsksKeepsLock DEF DelistEvent
<1>5. CASE Bootstrap
  BY <1>5, BootstrapKeepsLock DEF DataTypes
<1>6. CASE RetryBegins
  BY <1>6 DEF RetryBegins, LockInv
<1>7. CASE RetryNext
  <2>1. PICK p \in snapshot :
               IF StillQueued(p)
                 THEN Asks(Retry, AddCall(p, TRUE))
                 ELSE UNCHANGED <<task, waiting, holder>>
    BY <1>7 DEF RetryNext
  <2>2. AddCall(p, TRUE).at = "add" /\ WellFormed(AddCall(p, TRUE))
    BY AddCallIsWellFormed DEF DataTypes
  <2>3. CASE Asks(Retry, AddCall(p, TRUE))
    BY <1>7, <2>2, <2>3, AsksKeepsLock DEF RetryNext
  <2>4. CASE UNCHANGED <<task, waiting, holder>>
    BY <1>7, <2>4 DEF RetryNext, LockInv
  <2> QED
    BY <2>1, <2>3, <2>4
<1>8. ASSUME NEW w \in Worker, Proceed(w)
      PROVE  LockInv'
  <2>0. WellFormed(task[w])
    BY DEF LockInv
  <2>1. CASE AddEnters(w)
    <3> DEFINE next == [task[w] EXCEPT !.at = "exists"]
    <3>1. Turn(w)
      BY <2>1 DEF AddEnters, Turn
    <3>2. WellFormed(next) /\ next.at \in Inside
      BY <2>0, <2>1 DEF AddEnters, WellFormed, Call, At, Inside
    <3> HIDE DEF next
    <3>3. Leave(w) \/ GoesOn(w, next)
      BY <2>1 DEF AddEnters, next
    <3> QED
      BY <2>1, <3>1, <3>2, <3>3, LeavingKeepsLock, GoingOnKeepsLock DEF AddEnters
  <2>2. CASE ExistsAnswers(w)
    <3> DEFINE next == [task[w] EXCEPT !.at = "known"]
    <3>1. Turn(w)
      BY <2>2 DEF ExistsAnswers, Turn, Inside, At
    <3>2. WellFormed(next) /\ next.at \in Inside
      BY <2>0, <2>2 DEF ExistsAnswers, WellFormed, Call, At, Inside
    <3> HIDE DEF next
    <3>3. Leave(w) \/ GoesOn(w, next)
      BY <2>2 DEF ExistsAnswers, next
    <3> QED
      BY <2>2, <3>1, <3>2, <3>3, LeavingKeepsLock, GoingOnKeepsLock DEF ExistsAnswers
  <2>3. CASE Queued(w)
    BY <2>3, LeavingKeepsLock DEF Queued, Turn, Inside, At
  <2>3a. CASE StartFails(w)
    BY <2>3a, LeavingKeepsLock DEF StartFails, Turn, Inside, At
  <2>4. CASE Started(w)
    <3> DEFINE next == [task[w] EXCEPT !.at = "adopt"]
    <3>1. Turn(w)
      BY <2>4 DEF Started, Turn, Inside, At
    <3>2. WellFormed(next) /\ next.at \in Inside
      BY <2>0, <2>4 DEF Started, WellFormed, Call, At, Inside
    <3> HIDE DEF next
    <3>3. GoesOn(w, next)
      BY <2>4 DEF Started, next
    <3> QED
      BY <2>4, <3>1, <3>2, <3>3, GoingOnKeepsLock DEF Started
  <2>5. CASE Adopted(w)
    BY <2>5, LeavingKeepsLock DEF Adopted, Turn, Inside, At
  <2>6. CASE RemoveEnters(w)
    <3>1. Turn(w)
      BY <2>6 DEF RemoveEnters, Turn
    <3>2. CASE Leave(w)
      BY <2>6, <3>1, <3>2, LeavingKeepsLock DEF RemoveEnters
    <3>3. ASSUME NEW e \in Found(task[w].market),
                 GoesOn(w, [task[w] EXCEPT !.at = "stopping", !.pair = e])
          PROVE  LockInv'
      <4> DEFINE next == [task[w] EXCEPT !.at = "stopping", !.pair = e]
      <4>1. e \in Pair
        BY FoundRuns, RunningPairs DEF DataTypes
      <4>2. WellFormed(next) /\ next.at \in Inside
        BY <2>0, <2>6, <4>1 DEF RemoveEnters, WellFormed, Call, At, Inside
      <4>3. GoesOn(w, next)
        BY <3>3
      <4> HIDE DEF next
      <4> QED
        BY <2>6, <3>1, <4>2, <4>3, GoingOnKeepsLock DEF RemoveEnters
    <3> QED
      BY <2>6, <3>2, <3>3 DEF RemoveEnters
  <2>7. CASE Stopped(w)
    <3> DEFINE next == [task[w] EXCEPT !.at = "unsubscribing"]
    <3>1. Turn(w)
      BY <2>7 DEF Stopped, Turn, Inside, At
    <3>2. WellFormed(next) /\ next.at \in Inside
      BY <2>0, <2>7 DEF Stopped, WellFormed, Call, At, Inside
    <3> HIDE DEF next
    <3>3. GoesOn(w, next)
      BY <2>7 DEF Stopped, next
    <3> QED
      BY <2>7, <3>1, <3>2, <3>3, GoingOnKeepsLock DEF Stopped
  <2>8. CASE Removed(w)
    BY <2>8, LeavingKeepsLock DEF Removed, Turn, Inside, At
  <2> QED
    BY <1>8, <2>1, <2>2, <2>3, <2>3a, <2>4, <2>5, <2>6, <2>7, <2>8 DEF Proceed
<1>9. CASE Crash
  BY <1>9, RestKeepsLock DEF Crash, StartsAnew
<1> QED
  BY <1>1, <1>2, <1>3, <1>4, <1>5, <1>6, <1>7, <1>8, <1>9 DEF Next

\* A step inside a critical section leaves the types alone.
LEMMA ProceedKeepsTypes ==
  ASSUME DataTypes, LockInv, NEW w \in Worker, Proceed(w)
  PROVE  DataTypes'
<1>1. CASE AddEnters(w)
  BY <1>1 DEF AddEnters, DataTypes, registries
<1>2. CASE ExistsAnswers(w)
  BY <1>2 DEF ExistsAnswers, DataTypes, registries
<1>3. CASE Queued(w)
  BY <1>3, Carries DEF Queued, DataTypes, registries, Enqueued, WithoutKey
<1>3a. CASE StartFails(w)
  <2>1. task[w].pair \in Pair /\ task[w].pair.source \in Symbol
    BY <1>3a, Carries DEF StartFails, Pair
  <2> QED
    BY <1>3a, <2>1 DEF StartFails, DataTypes, Dequeued, WithoutKey
<1>4. CASE Started(w)
  <2>1. task[w].pair \in Pair /\ task[w].pair.source \in Symbol
    BY <1>4, Carries DEF Started, Pair
  <2>2. engines' \in Seq(Pair)
    BY <1>4, <2>1, Appended DEF Started, DataTypes
  <2> QED
    BY <1>4, <2>1, <2>2 DEF Started, DataTypes, Dequeued, WithoutKey
<1>5. CASE Adopted(w)
  <2>1. task[w].pair \in Pair /\ task[w].pair.source \in Symbol
    BY <1>5, Carries DEF Adopted, Pair
  <2>2. Written(task[w].pair) \subseteq Pair
    BY <2>1 DEF Written, DataTypes
  <2> QED
    BY <1>5, <2>1, <2>2 DEF Adopted, DataTypes
<1>6. CASE RemoveEnters(w)
  <2>1. task[w].market \in Symbol
    BY <1>6, Carries DEF RemoveEnters
  <2> QED
    BY <1>6, <2>1 DEF RemoveEnters, DataTypes, WithoutKey, Erased, Delisted
<1>7. CASE Stopped(w)
  BY <1>7, WithoutEngineIsSeq DEF Stopped, DataTypes
<1>8. CASE Removed(w)
  <2>1. task[w].market \in Symbol
    BY <1>8, Carries DEF Removed
  <2> QED
    BY <1>8, <2>1 DEF Removed, DataTypes, Erased, Unsubscribed, Delisted
<1> QED
  BY <1>1, <1>2, <1>3, <1>3a, <1>4, <1>5, <1>6, <1>7, <1>8 DEF Proceed

LEMMA AnewKeepsTypes ==
  ASSUME DataTypes, StartsAnew
  PROVE  DataTypes'
<1>1. << >> \in Seq(Pair)
  OBVIOUS
<1> QED
  BY <1>1 DEF StartsAnew, DataTypes

LEMMA TypeStep ==
  ASSUME DataTypes, LockInv, [Next]_vars
  PROVE  DataTypes'
<1>1. CASE UNCHANGED vars
  BY <1>1 DEF vars, registries, DataTypes
<1>2. CASE ServiceChanges
  BY <1>2 DEF ServiceChanges, registries, DataTypes
<1>3. ASSUME NEW m \in Symbol, EnableEvent(m) \/ DelistEvent(m)
      PROVE  DataTypes'
  BY <1>3 DEF EnableEvent, DelistEvent, registries, DataTypes
<1>4. CASE Bootstrap
  BY <1>4 DEF Bootstrap, registries, DataTypes
<1>5. CASE RetryBegins
  BY <1>5 DEF RetryBegins, registries, DataTypes
<1>6. CASE RetryNext
  BY <1>6 DEF RetryNext, registries, DataTypes
<1>7. CASE Crash
  BY <1>7, AnewKeepsTypes DEF Crash
<1> QED
  BY <1>1, <1>2, <1>3, <1>4, <1>5, <1>6, <1>7, ProceedKeepsTypes DEF Next

LEMMA TypesAtStart == Init => DataTypes /\ LockInv
<1> SUFFICES ASSUME Init PROVE DataTypes /\ LockInv
  OBVIOUS
<1>1. << >> \in Seq(Worker) /\ << >> \in Seq(Pair) /\ DOMAIN << >> = {}
  OBVIOUS
<1>2. DataTypes
  BY <1>1, ManagerAssumption DEF Init, DataTypes
<1>3. Resting.at = "idle" /\ "idle" \notin Inside /\ Resting \in Call
  BY RestingIsWellFormed DEF Resting, Inside, WellFormed
<1>4. LockInv
  BY <1>1, <1>3, WorkerFacts, RestingIsWellFormed DEF Init, LockInv, IsInjective
<1> QED
  BY <1>2, <1>4

\* TypeOK, in which the lock has one holder and nobody queues for it twice
\* (asyncio.Lock in add_pair and remove_pair).
THEOREM TypeCorrect == Spec => []TypeOK
<1>1. DataTypes /\ LockInv /\ [Next]_vars => (DataTypes /\ LockInv)'
  BY TypeStep, LockStep
<1>2. DataTypes /\ LockInv => TypeOK
  BY DEF DataTypes, LockInv, TypeOK, Call
<1> QED
  BY <1>1, <1>2, TypesAtStart, PTL DEF Spec

-----------------------------------------------------------------------------
(* The registries.  Between two critical sections they agree; inside one    *)
(* they differ by the pair at hand, in the way its place in the code tells. *)

OneEnginePerSource ==
  \A i, j \in DOMAIN engines : engines[i].source = engines[j].source => i = j

\* A book for each of the sources, and for none else but that of a pair whose
\* engine cannot be made.
BooksFor(sources) ==
  sources \subseteq feed /\ feed \subseteq sources \cup Sources(Malformed)

Settled == loops = Sources(Running) /\ BooksFor(Sources(Running))

\* The engine is there, its loop not yet or no longer.
HalfThere(p) ==
  /\ p \in Running
  /\ loops = Sources(Running) \ {p.source} /\ BooksFor(Sources(Running))

\* The engine is gone, its book not yet.
HalfGone(p) ==
  /\ p.source \notin Sources(Running)
  /\ loops = Sources(Running) /\ BooksFor(Sources(Running) \cup {p.source})

Midway(t) ==
  /\ t.at \in {"exists", "known"} => t.pair.source \notin Sources(Running)
  /\ t.at \in {"adopt", "stopping"} => HalfThere(t.pair)
  /\ t.at = "unsubscribing" => HalfGone(t.pair)

Unsettling == {"adopt", "stopping", "unsubscribing"}

RegInv ==
  /\ OneEnginePerSource
  /\ \A w \in Worker : Midway(task[w])
  /\ (\A w \in Worker : task[w].at \notin Unsettling) => Settled

LEMMA OutsideIsNotMidway ==
  ASSUME NEW t, t.at \in {"idle", "add", "remove"}
  PROVE  Midway(t) /\ t.at \notin Unsettling
  BY DEF Midway, Unsettling

LEMMA SettlingIsInside == Unsettling \cup {"exists", "known"} = Inside
  BY DEF Unsettling, Inside, At

\* With an engine more, or one less.
LEMMA EngineAdded ==
  ASSUME engines \in Seq(Pair), OneEnginePerSource,
         NEW p \in Pair, p.source \notin Sources(Running),
         engines' = Append(engines, p)
  PROVE  /\ OneEnginePerSource' /\ p \in Running'
         /\ Sources(Running') = Sources(Running) \cup {p.source}
<1>1. Running' = Running \cup {p}
  BY Appended DEF Running
<1>2. /\ Len(engines) \in Nat /\ DOMAIN engines = 1 .. Len(engines)
      /\ engines' \in Seq(Pair) /\ Len(engines') = Len(engines) + 1
      /\ \A i \in 1 .. Len(engines) : engines'[i] = engines[i]
      /\ engines'[Len(engines) + 1] = p
  BY AppendProperties, LenProperties
<1>3. DOMAIN engines' = 1 .. Len(engines) + 1
  BY <1>2, LenProperties
<1>4. \A i \in DOMAIN engines : engines[i].source # p.source
  BY RunningPairs DEF Sources
<1>5. OneEnginePerSource'
  <2> SUFFICES ASSUME NEW i \in DOMAIN engines', NEW j \in DOMAIN engines',
                      engines'[i].source = engines'[j].source
               PROVE  i = j
    BY DEF OneEnginePerSource
  <2>1. i \in DOMAIN engines \/ i = Len(engines) + 1
    BY <1>2, <1>3
  <2>2. j \in DOMAIN engines \/ j = Len(engines) + 1
    BY <1>2, <1>3
  <2> QED
    BY <1>2, <1>4, <2>1, <2>2 DEF OneEnginePerSource
<1> QED
  BY <1>1, <1>5 DEF Sources

LEMMA EngineTaken ==
  ASSUME engines \in Seq(Pair), OneEnginePerSource, NEW p \in Running,
         engines' = WithoutEngine(p)
  PROVE  /\ OneEnginePerSource'
         /\ Sources(Running') = Sources(Running) \ {p.source}
         /\ Running' \subseteq Running
<1> DEFINE k == CHOOSE i \in DOMAIN engines : engines[i] = p
           n == Len(engines)
           Shift(i) == IF i < k THEN i ELSE i + 1
<1>1. k \in DOMAIN engines /\ engines[k] = p
  BY DEF Running, ToSet
<1>2. engines' = RemoveAt(engines, k)
  BY DEF WithoutEngine
<1> HIDE DEF k
<1>3. n \in Nat /\ DOMAIN engines = 1 .. n
  BY LenProperties
<1>4. /\ engines' \in Seq(Pair) /\ Len(engines') = n - 1
      /\ \A i \in 1 .. n - 1 :
           engines'[i] = IF i < k THEN engines[i] ELSE engines[i + 1]
  BY <1>1, <1>2, RemovedAt
<1>5. DOMAIN engines' = 1 .. n - 1
  BY <1>4, LenProperties
<1>6. \A i \in DOMAIN engines' :
        Shift(i) \in DOMAIN engines \ {k} /\ engines'[i] = engines[Shift(i)]
  BY <1>1, <1>3, <1>4, <1>5
<1>7. \A i, j \in DOMAIN engines' : Shift(i) = Shift(j) => i = j
  BY <1>1, <1>3, <1>5
<1>8. OneEnginePerSource'
  <2> SUFFICES ASSUME NEW i \in DOMAIN engines', NEW j \in DOMAIN engines',
                      engines'[i].source = engines'[j].source
               PROVE  i = j
    BY DEF OneEnginePerSource
  <2> HIDE DEF Shift
  <2>1. Shift(i) = Shift(j)
    BY <1>6 DEF OneEnginePerSource
  <2> QED
    BY <1>7, <2>1
<1>9. \A j \in DOMAIN engines \ {k} : \E i \in DOMAIN engines' : j = Shift(i)
  <2> SUFFICES ASSUME NEW j \in DOMAIN engines \ {k}
               PROVE  \E i \in DOMAIN engines' : j = Shift(i)
    OBVIOUS
  <2>1. CASE j < k
    BY <1>1, <1>3, <1>5, <2>1
  <2>2. CASE ~(j < k)
    <3>1. j - 1 \in DOMAIN engines' /\ Shift(j - 1) = j
      BY <1>1, <1>3, <1>5, <2>2
    <3> QED
      BY <3>1
  <2> QED
    BY <2>1, <2>2
<1> HIDE DEF Shift
<1>10. Running' = {engines[j] : j \in DOMAIN engines \ {k}}
  <2>1. Running' = {engines'[i] : i \in DOMAIN engines'}
    BY DEF Running, ToSet
  <2> QED
    BY <1>6, <1>9, <2>1
<1>11. Sources(Running') = {engines[j].source : j \in DOMAIN engines \ {k}}
  BY <1>10 DEF Sources
<1>12. Sources(Running) = {engines[j].source : j \in DOMAIN engines}
  BY DEF Running, ToSet, Sources
<1>13. Running' \subseteq Running
  BY <1>10 DEF Running, ToSet
<1> QED
  BY <1>1, <1>8, <1>11, <1>12, <1>13 DEF OneEnginePerSource

\* Calls that are made, and answers that move nobody inside, change nothing here.
LEMMA OutsideSteps ==
  ASSUME RegInv, UNCHANGED registries,
         \A w \in Worker :
           \/ task'[w] = task[w]
           \/ /\ task[w].at \in {"idle", "add", "remove"}
              /\ task'[w].at \in {"idle", "add", "remove"}
  PROVE  RegInv'
<1>1. \A w \in Worker : Midway(task'[w])
  BY OutsideIsNotMidway DEF RegInv
<1>2. (\A w \in Worker : task'[w].at \notin Unsettling) => Settled
  BY OutsideIsNotMidway DEF RegInv
<1> QED
  BY <1>1, <1>2
     DEF RegInv, registries, Midway, HalfThere, HalfGone, Running, Settled,
         BooksFor, OneEnginePerSource

\* In its turn a worker is the only one inside.
LEMMA TurnStep ==
  ASSUME LockInv, NEW w \in Worker, Turn(w),
         \A v \in Worker \ {w} : task'[v] = task[v],
         OneEnginePerSource', Midway(task[w])',
         (task[w].at \notin Unsettling => Settled)'
  PROVE  RegInv'
<1>1. \A v \in Worker \ {w} : task[v].at \in {"idle", "add", "remove"}
  <2> SUFFICES ASSUME NEW v \in Worker \ {w}
               PROVE  task[v].at \in {"idle", "add", "remove"}
    OBVIOUS
  <2>1. task[v].at \in At
    BY DEF LockInv, Call
  <2> QED
    BY <2>1, TurnFacts DEF Inside
<1>2. \A v \in Worker \ {w} :
        task'[v].at \notin Unsettling \cup {"exists", "known"}
  BY <1>1 DEF Unsettling
<1>3. \A v \in Worker : Midway(task[v])'
  <2> SUFFICES ASSUME NEW v \in Worker \ {w} PROVE Midway(task[v])'
    OBVIOUS
  <2> QED
    BY <1>2 DEF Midway, Unsettling
<1> QED
  BY <1>3 DEF RegInv

\* What the registries look like when it is w's turn.
LEMMA AtTurn ==
  ASSUME LockInv, RegInv, NEW w \in Worker, Turn(w)
  PROVE  /\ OneEnginePerSource
         /\ Midway(task[w])
         /\ task[w].at \notin Unsettling => Settled
<1>1. \A v \in Worker \ {w} : task[v].at \notin Unsettling
  BY TurnFacts, SettlingIsInside
<1> QED
  BY <1>1 DEF RegInv

\* How the task of w changes when its critical section goes on or ends.
LEMMA TaskAfter ==
  ASSUME LockInv, NEW w \in Worker, NEW next, task' = [task EXCEPT ![w] = next]
  PROVE  task'[w] = next /\ \A v \in Worker \ {w} : task'[v] = task[v]
  BY DEF LockInv

LEMMA ProceedKeepsRegistries ==
  ASSUME DataTypes, LockInv, RegInv, NEW w \in Worker, Proceed(w)
  PROVE  RegInv'
<1> DEFINE t == task[w]
           p == task[w].pair
<1>0. t \in Call
  BY DEF LockInv
<1>a. ASSUME Leave(w)
      PROVE  /\ task'[w].at = "idle"
             /\ \A v \in Worker \ {w} : task'[v] = task[v]
  <2>1. task'[w] = Resting /\ \A v \in Worker \ {w} : task'[v] = task[v]
    BY <1>a, TaskAfter DEF Leave
  <2> QED
    BY <2>1 DEF Resting
<1>b. ASSUME NEW next, GoesOn(w, next)
      PROVE  task'[w] = next /\ \A v \in Worker \ {w} : task'[v] = task[v]
  BY <1>b, TaskAfter DEF GoesOn
<1>1. CASE AddEnters(w)
  <2>1. Turn(w) /\ t.at = "add"
    BY <1>1 DEF AddEnters, Turn
  <2>2. OneEnginePerSource /\ Settled
    BY <2>1, AtTurn DEF Unsettling
  <2>3. OneEnginePerSource' /\ Settled'
    BY <1>1, <2>2 DEF AddEnters, registries, OneEnginePerSource, Settled, BooksFor, Running
  <2>4. CASE Leave(w)
    <3>1. Midway(task[w])'
      BY <1>a, <2>4 DEF Midway
    <3> QED
      BY <1>a, <2>1, <2>3, <2>4, <3>1, TurnStep
  <2>5. CASE ~Mirrored(p) /\ GoesOn(w, [task[w] EXCEPT !.at = "exists"])
    <3>1. task'[w] = [task[w] EXCEPT !.at = "exists"]
      BY <1>b, <2>5
    <3>2. task'[w].at = "exists" /\ task'[w].pair = p
      BY <1>0, <3>1 DEF Call
    <3>3. p.source \notin Sources(Running')
      BY <1>1, <2>5 DEF AddEnters, registries, Mirrored, Running
    <3>4. Midway(task[w])'
      BY <3>2, <3>3 DEF Midway
    <3> QED
      BY <1>b, <2>1, <2>3, <2>5, <3>4, TurnStep
  <2> QED
    BY <1>1, <2>4, <2>5 DEF AddEnters
<1>2. CASE ExistsAnswers(w)
  <2>1. Turn(w) /\ t.at = "exists"
    BY <1>2 DEF ExistsAnswers, Turn, Inside, At
  <2>2. OneEnginePerSource /\ Settled /\ p.source \notin Sources(Running)
    BY <2>1, AtTurn DEF Unsettling, Midway
  <2>3. OneEnginePerSource' /\ Settled' /\ p.source \notin Sources(Running')
    BY <1>2, <2>2 DEF ExistsAnswers, registries, OneEnginePerSource, Settled, BooksFor, Running
  <2>4. CASE Leave(w)
    <3>1. Midway(task[w])'
      BY <1>a, <2>4 DEF Midway
    <3> QED
      BY <1>a, <2>1, <2>3, <2>4, <3>1, TurnStep
  <2>5. CASE GoesOn(w, [task[w] EXCEPT !.at = "known"])
    <3>1. task'[w] = [task[w] EXCEPT !.at = "known"]
      BY <1>b, <2>5
    <3>2. task'[w].at = "known" /\ task'[w].pair = p
      BY <1>0, <3>1 DEF Call
    <3>3. Midway(task[w])'
      BY <2>3, <3>2 DEF Midway
    <3> QED
      BY <1>b, <2>1, <2>3, <2>5, <3>3, TurnStep
  <2> QED
    BY <1>2, <2>4, <2>5 DEF ExistsAnswers
<1>3. CASE Queued(w)
  <2>1. Turn(w) /\ t.at = "known" /\ Leave(w)
    BY <1>3 DEF Queued, Turn, Inside, At
  <2>2. OneEnginePerSource /\ Settled
    BY <2>1, AtTurn DEF Unsettling
  <2>3. OneEnginePerSource' /\ Settled'
    BY <1>3, <2>2 DEF Queued, registries, OneEnginePerSource, Settled, BooksFor, Running
  <2>4. Midway(task[w])'
    BY <1>a, <2>1 DEF Midway
  <2> QED
    BY <1>a, <2>1, <2>3, <2>4, TurnStep
<1>3a. CASE StartFails(w)
  <2>1. Turn(w) /\ t.at = "known" /\ Leave(w)
    BY <1>3a DEF StartFails, Turn, Inside, At
  <2>2. OneEnginePerSource /\ Settled
    BY <2>1, AtTurn DEF Unsettling
  <2>3. OneEnginePerSource' /\ Running' = Running
    BY <1>3a, <2>2 DEF StartFails, OneEnginePerSource, Running
  <2>4. Settled'
    BY <1>3a, <2>2, <2>3 DEF StartFails, Settled, BooksFor, Sources
  <2>5. Midway(task[w])'
    BY <1>a, <2>1 DEF Midway
  <2> QED
    BY <1>a, <2>1, <2>3, <2>4, <2>5, TurnStep
<1>4. CASE Started(w)
  <2>1. Turn(w) /\ t.at = "known"
    BY <1>4 DEF Started, Turn, Inside, At
  <2>2. OneEnginePerSource /\ Settled /\ p.source \notin Sources(Running)
    BY <2>1, AtTurn DEF Unsettling, Midway
  <2>3. p \in Pair
    BY <2>1, Carries
  <2>4. /\ feed' = feed \cup {p.source} /\ engines' = Append(engines, p)
        /\ loops' = loops /\ GoesOn(w, [task[w] EXCEPT !.at = "adopt"])
    BY <1>4 DEF Started
  <2>5. /\ OneEnginePerSource' /\ p \in Running'
        /\ Sources(Running') = Sources(Running) \cup {p.source}
    BY <2>2, <2>3, <2>4, EngineAdded DEF DataTypes
  <2>6. task'[w].at = "adopt" /\ task'[w].pair = p
    <3>1. task'[w] = [task[w] EXCEPT !.at = "adopt"]
      BY <1>b, <2>4
    <3> QED
      BY <1>0, <3>1 DEF Call
  <2>7. loops' = Sources(Running') \ {p.source} /\ BooksFor(Sources(Running))'
    BY <2>2, <2>4, <2>5 DEF Settled, BooksFor
  <2>8. Midway(task[w])' /\ task'[w].at \in Unsettling
    BY <2>5, <2>6, <2>7 DEF Midway, HalfThere, Unsettling
  <2> QED
    BY <1>b, <2>1, <2>4, <2>5, <2>8, TurnStep
<1>5. CASE Adopted(w)
  <2>1. Turn(w) /\ t.at = "adopt" /\ Leave(w)
    BY <1>5 DEF Adopted, Turn, Inside, At
  <2>2. OneEnginePerSource /\ HalfThere(p)
    BY <2>1, AtTurn DEF Midway
  <2>3. OneEnginePerSource'
    BY <1>5, <2>2 DEF Adopted, OneEnginePerSource
  <2>4. Settled'
    BY <1>5, <2>2 DEF Adopted, Settled, HalfThere, BooksFor, Running, Sources
  <2>5. Midway(task[w])'
    BY <1>a, <2>1 DEF Midway
  <2> QED
    BY <1>a, <2>1, <2>3, <2>4, <2>5, TurnStep
<1>6. CASE RemoveEnters(w)
  <2>1. Turn(w) /\ t.at = "remove"
    BY <1>6 DEF RemoveEnters, Turn
  <2>2. OneEnginePerSource /\ Settled
    BY <2>1, AtTurn DEF Unsettling
  <2>3. OneEnginePerSource' /\ Running' = Running /\ feed' = feed
    BY <1>6, <2>2 DEF RemoveEnters, OneEnginePerSource, Running
  <2>4. CASE Leave(w) /\ loops' = loops
    <3>1. Midway(task[w])'
      BY <1>a, <2>4 DEF Midway
    <3>2. Settled'
      BY <2>2, <2>3, <2>4 DEF Settled, BooksFor
    <3> QED
      BY <1>a, <2>1, <2>3, <2>4, <3>1, <3>2, TurnStep
  <2>5. ASSUME NEW e \in Found(task[w].market), loops' = loops \ {e.source},
               GoesOn(w, [task[w] EXCEPT !.at = "stopping", !.pair = e])
        PROVE  RegInv'
    <3>1. e \in Running
      BY FoundRuns DEF DataTypes
    <3>2. task'[w].at = "stopping" /\ task'[w].pair = e
      <4>1. task'[w] = [task[w] EXCEPT !.at = "stopping", !.pair = e]
        BY <1>b, <2>5
      <4> QED
        BY <1>0, <4>1 DEF Call
    <3>3. Midway(task[w])' /\ task'[w].at \in Unsettling
      BY <2>2, <2>3, <2>5, <3>1, <3>2 DEF Midway, HalfThere, Settled, BooksFor, Unsettling
    <3> QED
      BY <1>b, <2>1, <2>3, <2>5, <3>3, TurnStep
  <2> QED
    BY <1>6, <2>4, <2>5 DEF RemoveEnters
<1>7. CASE Stopped(w)
  <2>1. Turn(w) /\ t.at = "stopping"
    BY <1>7 DEF Stopped, Turn, Inside, At
  <2>2. OneEnginePerSource /\ HalfThere(p)
    BY <2>1, AtTurn DEF Midway
  <2>3. /\ engines' = WithoutEngine(p) /\ loops' = loops /\ feed' = feed
        /\ GoesOn(w, [task[w] EXCEPT !.at = "unsubscribing"])
    BY <1>7 DEF Stopped
  <2>4. OneEnginePerSource' /\ Sources(Running') = Sources(Running) \ {p.source}
    BY <2>2, <2>3, EngineTaken DEF DataTypes, HalfThere
  <2>5. task'[w].at = "unsubscribing" /\ task'[w].pair = p
    <3>1. task'[w] = [task[w] EXCEPT !.at = "unsubscribing"]
      BY <1>b, <2>3
    <3> QED
      BY <1>0, <3>1 DEF Call
  <2>6. /\ p.source \in Sources(Running)
        /\ loops = Sources(Running) \ {p.source} /\ BooksFor(Sources(Running))
    BY <2>2 DEF HalfThere, Sources
  <2>7. /\ p.source \notin Sources(Running')
        /\ loops' = Sources(Running')
        /\ Sources(Running') \cup {p.source} \subseteq feed'
        /\ feed' \subseteq Sources(Running') \cup {p.source} \cup Sources(Malformed)
    BY <2>3, <2>4, <2>6 DEF BooksFor
  <2>8. Midway(task[w])' /\ task'[w].at \in Unsettling
    BY <2>5, <2>7 DEF Midway, HalfGone, BooksFor, Unsettling
  <2> QED
    BY <1>b, <2>1, <2>3, <2>4, <2>8, TurnStep
<1>8. CASE Removed(w)
  <2>1. Turn(w) /\ t.at = "unsubscribing" /\ Leave(w)
    BY <1>8 DEF Removed, Turn, Inside, At
  <2>2. OneEnginePerSource /\ HalfGone(p)
    BY <2>1, AtTurn DEF Midway
  <2>3. OneEnginePerSource' /\ Running' = Running
    BY <1>8, <2>2 DEF Removed, OneEnginePerSource, Running
  <2>4. Settled'
    BY <1>8, <2>2, <2>3 DEF Removed, Settled, HalfGone, BooksFor, Unsubscribed
  <2>5. Midway(task[w])'
    BY <1>a, <2>1 DEF Midway
  <2> QED
    BY <1>a, <2>1, <2>3, <2>4, <2>5, TurnStep
<1> QED
  BY <1>1, <1>2, <1>3, <1>3a, <1>4, <1>5, <1>6, <1>7, <1>8 DEF Proceed

LEMMA RegistriesStep ==
  ASSUME DataTypes, LockInv, RegInv, [Next]_vars
  PROVE  RegInv'
<1>1. CASE UNCHANGED vars
  BY <1>1, OutsideSteps DEF vars
<1>2. CASE ServiceChanges
  BY <1>2, OutsideSteps DEF ServiceChanges
<1>3. ASSUME NEW m \in Symbol, EnableEvent(m) \/ DelistEvent(m)
      PROVE  RegInv'
  <2>1. PICK next : /\ task[Kafka] = Resting /\ next.at \in {"add", "remove"}
                    /\ task' = [task EXCEPT ![Kafka] = next]
    <3>1. CASE EnableEvent(m)
      BY <3>1, OwnIsPair, AddCallIsWellFormed DEF EnableEvent, Asks
    <3>2. CASE DelistEvent(m)
      BY <3>2, RemoveCallIsWellFormed DEF DelistEvent, Asks
    <3> QED
      BY <1>3, <3>1, <3>2
  <2>2. task[Kafka].at = "idle"
    BY <2>1 DEF Resting
  <2>3. task'[Kafka] = next /\ \A v \in Worker \ {Kafka} : task'[v] = task[v]
    BY <2>1, TaskAfter DEF Worker
  <2> QED
    BY <1>3, <2>1, <2>2, <2>3, OutsideSteps DEF EnableEvent, DelistEvent
<1>4. CASE Bootstrap
  <2>0. PICK usable \in SUBSET known :
          task' = [w \in Worker |->
                    IF w \in BootPairs(usable) THEN AddCall(w, FALSE) ELSE task[w]]
    BY <1>4 DEF Bootstrap
  <2> DEFINE B == BootPairs(usable)
  <2>1. B \subseteq Pair
    BY DEF BootPairs, Own, Pair, DataTypes
  <2>2. \A v \in B : task[v].at = "idle" /\ AddCall(v, FALSE).at = "add"
    <3>1. \A v \in B : task[v] = Resting
      BY <1>4, <2>1 DEF Bootstrap, LockInv
    <3>2. \A v \in B : AddCall(v, FALSE).at = "add"
      BY <2>1, AddCallIsWellFormed
    <3>3. Resting.at = "idle"
      BY DEF Resting
    <3> QED
      BY <3>1, <3>2, <3>3
  <2>3. \A v \in Worker :
          task'[v] = IF v \in B THEN AddCall(v, FALSE) ELSE task[v]
    BY <2>0
  <2> HIDE DEF B
  <2> QED
    BY <1>4, <2>2, <2>3, OutsideSteps DEF Bootstrap
<1>5. CASE RetryBegins
  BY <1>5, OutsideSteps DEF RetryBegins
<1>6. CASE RetryNext
  <2>1. CASE UNCHANGED task
    BY <1>6, <2>1, OutsideSteps DEF RetryNext
  <2>2. ASSUME NEW p \in snapshot, Asks(Retry, AddCall(p, TRUE))
        PROVE  RegInv'
    <3>1. AddCall(p, TRUE).at = "add" /\ task[Retry].at = "idle"
      <4>1. task[Retry] = Resting /\ p \in Pair
        BY <1>6 DEF RetryNext, DataTypes
      <4>2. AddCall(p, TRUE).at = "add"
        BY <4>1, AddCallIsWellFormed
      <4>3. Resting.at = "idle"
        BY DEF Resting
      <4> QED
        BY <4>1, <4>2, <4>3
    <3>2. /\ task'[Retry] = AddCall(p, TRUE)
          /\ \A v \in Worker \ {Retry} : task'[v] = task[v]
      BY <2>2, TaskAfter DEF Worker, Asks
    <3> QED
      BY <1>6, <3>1, <3>2, OutsideSteps DEF RetryNext
  <2> QED
    BY <1>6, <2>1, <2>2 DEF RetryNext
<1>7. CASE Crash
  <2>1. /\ engines' = << >> /\ loops' = {} /\ feed' = {}
        /\ \A w \in Worker : task'[w].at = "idle"
    BY <1>7 DEF Crash, StartsAnew, Resting
  <2>2. Running' = {} /\ Sources(Running') = {}
    BY <2>1 DEF Running, ToSet, Sources
  <2> QED
    BY <2>1, <2>2 DEF RegInv, OneEnginePerSource, Settled, BooksFor, Midway, Unsettling
<1> QED
  BY <1>1, <1>2, <1>3, <1>4, <1>5, <1>6, <1>7, ProceedKeepsRegistries DEF Next

LEMMA RegistriesAtStart == Init => RegInv
<1> SUFFICES ASSUME Init PROVE RegInv
  OBVIOUS
<1>1. /\ engines = << >> /\ loops = {} /\ feed = {}
      /\ \A w \in Worker : task[w].at = "idle"
  BY DEF Init, Resting
<1>2. Running = {} /\ Sources(Running) = {}
  BY <1>1 DEF Running, ToSet, Sources
<1> QED
  BY <1>1, <1>2 DEF RegInv, OneEnginePerSource, Settled, BooksFor, Midway, Unsettling

\* Engines, loops and books agree between two critical sections, and inside one
\* no source has two engines, no engine is without a book and no loop without
\* an engine (add_pair, remove_pair).
THEOREM RegistriesAgreeCorrect == Spec => []RegistriesAgree
<1> DEFINE I == DataTypes /\ LockInv /\ RegInv
<1>1. Init => I
  BY TypesAtStart, RegistriesAtStart
<1>2. I /\ [Next]_vars => I'
  BY TypeStep, LockStep, RegistriesStep
<1>3. I => RegistriesAgree
  <2> SUFFICES ASSUME I PROVE RegistriesAgree
    OBVIOUS
  <2>1. ASSUME holder = NoOne PROVE Settled
    BY <2>1, WorkerFacts, SettlingIsInside DEF LockInv, RegInv
  <2>2. Settled \/ (\E w \in Worker : HalfThere(task[w].pair))
                \/ (\E w \in Worker : HalfGone(task[w].pair))
    BY DEF RegInv, Midway, Unsettling
  <2>3. loops \subseteq Sources(Running) /\ Sources(Running) \subseteq feed
    BY <2>2 DEF Settled, HalfThere, HalfGone, BooksFor
  <2> QED
    BY <2>1, <2>3 DEF RegistriesAgree, RegInv, OneEnginePerSource, Settled, BooksFor, Sources
<1> QED
  BY <1>1, <1>2, <1>3, PTL DEF Spec

-----------------------------------------------------------------------------
(* The retry queue.                                                         *)

\* What holds of the engines although a critical section may have been left
\* before its end: a pair that is checked does not run yet, one that is adopted
\* or stopped does, and no loop outlives it.
Halfway(t) ==
  /\ t.at \in {"exists", "known", "unsubscribing"}
       => t.pair.source \notin Sources(Running)
  /\ t.at \in {"adopt", "stopping"} => t.pair \in Running
  /\ t.at = "stopping" => t.pair.source \notin loops

EnginesInv ==
  /\ OneEnginePerSource
  /\ loops \subseteq Sources(Running) /\ Sources(Running) \subseteq feed
  /\ \A w \in Worker : Halfway(task[w])

LEMMA RegistriesAreSound ==
  ASSUME RegInv
  PROVE  EnginesInv
<1>1. Settled \/ (\E w \in Worker : HalfThere(task[w].pair))
              \/ (\E w \in Worker : HalfGone(task[w].pair))
  BY DEF RegInv, Midway, Unsettling
<1>2. loops \subseteq Sources(Running) /\ Sources(Running) \subseteq feed
  BY <1>1 DEF Settled, HalfThere, HalfGone, BooksFor
<1>3. \A w \in Worker : Halfway(task[w])
  BY DEF RegInv, Midway, Halfway, HalfThere, HalfGone
<1> QED
  BY <1>2, <1>3 DEF EnginesInv, RegInv

\* What joins the queue is not running, what starts leaves it.
LEMMA QueueStep ==
  ASSUME DataTypes, LockInv, EnginesInv, PendingNotRunning, [Next]_vars
  PROVE  PendingNotRunning'
<1>1. ASSUME UNCHANGED <<pending, engines>>
      PROVE  PendingNotRunning'
  BY <1>1 DEF PendingNotRunning, Running
<1>2. CASE Crash
  BY <1>2 DEF Crash, StartsAnew, PendingNotRunning, Sources
<1>3. ASSUME NEW w \in Worker, Queued(w)
      PROVE  PendingNotRunning'
  <2>1. task[w].pair.source \notin Sources(Running)
    BY <1>3 DEF Queued, EnginesInv, Halfway
  <2>2. Running' = Running
    BY <1>3 DEF Queued, registries, Running
  <2> QED
    BY <1>3, <2>1, <2>2
       DEF Queued, Enqueued, WithoutKey, PendingNotRunning, Sources
<1>3a. ASSUME NEW w \in Worker, StartFails(w)
      PROVE  PendingNotRunning'
  BY <1>3a DEF StartFails, Dequeued, WithoutKey, PendingNotRunning, Sources, Running
<1>4. ASSUME NEW w \in Worker, Started(w)
      PROVE  PendingNotRunning'
  <2>1. task[w].pair \in Pair /\ task[w].pair.source \notin Sources(Running)
    BY <1>4, Carries DEF Started, EnginesInv, Halfway
  <2>2. Sources(Running') = Sources(Running) \cup {task[w].pair.source}
    BY <1>4, <2>1, EngineAdded DEF Started, DataTypes, EnginesInv
  <2> QED
    BY <1>4, <2>2 DEF Started, Dequeued, WithoutKey, PendingNotRunning, Sources
<1>5. ASSUME NEW w \in Worker, RemoveEnters(w)
      PROVE  PendingNotRunning'
  BY <1>5 DEF RemoveEnters, WithoutKey, PendingNotRunning, Sources, Running
<1>6. ASSUME NEW w \in Worker, Stopped(w)
      PROVE  PendingNotRunning'
  <2>1. task[w].pair \in Running
    BY <1>6 DEF Stopped, EnginesInv, Halfway
  <2>2. Sources(Running') \subseteq Sources(Running)
    BY <1>6, <2>1, EngineTaken DEF Stopped, DataTypes, EnginesInv
  <2> QED
    BY <1>6, <2>2 DEF Stopped, PendingNotRunning
<1>7. ASSUME NEW w \in Worker, Proceed(w)
      PROVE  PendingNotRunning'
  BY <1>1, <1>3, <1>3a, <1>4, <1>5, <1>6, <1>7
     DEF Proceed, AddEnters, ExistsAnswers, Adopted, Removed, registries
<1> QED
  BY <1>1, <1>2, <1>7
     DEF Next, vars, registries, ServiceChanges, EnableEvent, DelistEvent, Bootstrap,
         RetryBegins, RetryNext

\* The retry queue holds at most one pair per source and none that runs: a retry
\* never starts a second engine (add_pair's queue, retry_pending, remove_pair).
THEOREM PendingNotRunningCorrect == Spec => []PendingNotRunning
<1> DEFINE I == DataTypes /\ LockInv /\ RegInv /\ PendingNotRunning
<1>1. Init => I
  BY TypesAtStart, RegistriesAtStart DEF Init, PendingNotRunning, Sources
<1>2. I /\ [Next]_vars => I'
  BY TypeStep, LockStep, RegistriesStep, RegistriesAreSound, QueueStep
<1> QED
  BY <1>1, <1>2, PTL DEF Spec

-----------------------------------------------------------------------------
(* What has been delisted.                                                  *)

\* Every pair in use is one of config.yaml or a market's own.
Genuine == HandWritten \cup {Own(m) : m \in Symbol}

OriginInv ==
  /\ config \cup loaded \cup Running \cup pending \cup snapshot \subseteq Genuine
  /\ \A w \in Worker : task[w].at \notin {"idle", "remove"} => task[w].pair \in Genuine

\* Nothing brings the plain market m back but a new call for it.
Absent(m) ==
  /\ Own(m) \notin Running \cup pending \cup config
  /\ \A w \in Worker :
       task[w].at \in {"exists", "known", "adopt"} => task[w].pair # Own(m)
  /\ task[Retry].at = "add" => task[Retry].pair # Own(m)

\* Half removed, a plain market is out of the queue, and its engine is at hand or
\* gone.
Leaving(t) ==
  t.at \in {"stopping", "unsubscribing"} /\ Plain(t.market) =>
    /\ t.pair = Own(t.market) /\ Own(t.market) \notin pending
    /\ t.at = "unsubscribing" => Own(t.market) \notin Running

GoneInv ==
  /\ OriginInv
  /\ \A m \in gone : Plain(m) => Absent(m)
  /\ \A w \in Worker : Leaving(task[w])

LEMMA PlainPair ==
  ASSUME NEW m, Plain(m), NEW p \in Genuine, m \in {p.source, p.mycex}
  PROVE  p = Own(m)
  BY DEF Plain, Genuine, Own

LEMMA GoneIsGone ==
  ASSUME GoneInv
  PROVE  DelistedStaysGone
<1> SUFFICES ASSUME NEW m \in gone, Plain(m), NEW p \in Running \cup pending \cup config,
                    p.mycex = m
             PROVE  FALSE
  BY DEF DelistedStaysGone, Markets
<1>1. p = Own(m)
  BY PlainPair DEF GoneInv, OriginInv
<1> QED
  BY <1>1 DEF GoneInv, Absent

\* Calls that are made, also those that the retry makes, and coroutines that end.
LEMMA GoneOutside ==
  ASSUME GoneInv, UNCHANGED <<config, engines, pending, gone>>,
         loaded' \cup snapshot' \subseteq Genuine,
         \A w \in Worker :
           \/ task'[w] = task[w]
           \/ task'[w].at \in {"idle", "remove"}
           \/ task'[w].at = "add" /\ task'[w].pair \in Genuine,
         \/ task'[Retry] = task[Retry] \/ task'[Retry].at # "add"
         \/ \A m \in gone : Plain(m) => task'[Retry].pair # Own(m)
  PROVE  GoneInv'
<1> Running' = Running
  BY DEF Running
<1>1. OriginInv'
  BY DEF GoneInv, OriginInv
<1>2. ASSUME NEW m \in gone, Plain(m) PROVE Absent(m)'
  BY <1>2 DEF GoneInv, Absent
<1>3. ASSUME NEW w \in Worker PROVE Leaving(task[w])'
  <2>1. CASE task'[w] = task[w]
    BY <2>1 DEF GoneInv, Leaving
  <2>2. CASE task'[w].at \in {"idle", "remove", "add"}
    BY <2>2 DEF Leaving
  <2> QED
    BY <2>1, <2>2
<1> QED
  BY <1>1, <1>2, <1>3 DEF GoneInv

LEMMA AnewKeepsGone ==
  ASSUME GoneInv, StartsAnew
  PROVE  GoneInv'
<1>1. /\ engines' = << >> /\ pending' = {} /\ snapshot' = {}
      /\ config' = config /\ loaded' = config /\ gone' = gone
      /\ \A w \in Worker : task'[w].at = "idle"
  BY DEF StartsAnew, Resting
<1>2. Running' = {}
  BY <1>1 DEF Running, ToSet
<1>3. Retry \in Worker
  BY DEF Worker
<1> QED
  BY <1>1, <1>2, <1>3 DEF GoneInv, OriginInv, Absent, Leaving

\* In its turn a worker is the only one inside, so what it leaves behind is all
\* there is to look at.
LEMMA GoneTurn ==
  ASSUME LockInv, GoneInv, NEW w \in Worker, Turn(w),
         \A v \in Worker \ {w} : task'[v] = task[v],
         config' \cup loaded' \cup Running' \cup pending' \cup snapshot' \subseteq Genuine,
         task'[w].at \notin {"idle", "remove"} => task'[w].pair \in Genuine,
         task'[w].at # "add", Leaving(task[w])',
         \A m \in gone' : Plain(m) =>
           /\ Own(m) \notin Running' \cup pending' \cup config'
           /\ task'[w].at \in {"exists", "known", "adopt"} => task'[w].pair # Own(m)
           /\ Retry # w /\ task[Retry].at = "add" => task[Retry].pair # Own(m)
  PROVE  GoneInv'
<1>1. \A v \in Worker \ {w} : task'[v].at \notin Inside
  BY TurnFacts
<1>2. OriginInv'
  BY DEF GoneInv, OriginInv
<1>3. ASSUME NEW m \in gone', Plain(m) PROVE Absent(m)'
  <2>1. Retry \in Worker
    BY DEF Worker
  <2>2. \A v \in Worker : task'[v].at \in {"exists", "known", "adopt"} =>
                            task'[v].pair # Own(m)
    BY <1>1, <1>3 DEF Inside, At
  <2>3. task'[Retry].at = "add" => task'[Retry].pair # Own(m)
    BY <1>3, <2>1
  <2> QED
    BY <1>3, <2>2, <2>3 DEF Absent
<1>4. ASSUME NEW v \in Worker PROVE Leaving(task[v])'
  <2>1. CASE v = w
    BY <2>1
  <2>2. CASE v # w
    BY <1>1, <2>2 DEF Leaving, Inside, At
  <2> QED
    BY <2>1, <2>2
<1> QED
  BY <1>2, <1>3, <1>4 DEF GoneInv

LEMMA JustDelisted ==
  ASSUME NEW M, NEW m \in Delisted(M)
  PROVE  \/ m \in gone
         \/ m = M /\ (task[Retry].at = "add" => task[Retry].pair # Own(M))
  BY DEF Delisted, Own

LEMMA ProceedKeepsGone ==
  ASSUME DataTypes, LockInv, EnginesInv, GoneInv, NEW w \in Worker, Proceed(w)
  PROVE  GoneInv'
<1> DEFINE t == task[w]
           p == task[w].pair
           M == task[w].market
<1>0. /\ t \in Call
      /\ \A m \in gone : Plain(m) => Absent(m)
      /\ t.at \notin {"idle", "remove"} => p \in Genuine
      /\ config \cup loaded \cup Running \cup pending \cup snapshot \subseteq Genuine
  BY DEF LockInv, GoneInv, OriginInv
<1>a. ASSUME NEW next, task' = [task EXCEPT ![w] = next]
      PROVE  task'[w] = next /\ \A v \in Worker \ {w} : task'[v] = task[v]
  BY <1>a, TaskAfter
<1>b. Resting.at = "idle" /\ Leaving(Resting) /\ Leaving(Resting)'
  BY DEF Resting, Leaving
<1>1. CASE AddEnters(w)
  <2>1. /\ t.at = "add" /\ Turn(w) /\ Running' = Running
        /\ UNCHANGED <<config, loaded, pending, snapshot>>
    BY <1>1 DEF AddEnters, registries, Turn, Running
  <2>2. PICK next \in {Resting, [task[w] EXCEPT !.at = "exists"]} :
               task' = [task EXCEPT ![w] = next]
    BY <1>1 DEF AddEnters, Leave, GoesOn
  <2>3. /\ next.at \in {"idle", "exists"}
        /\ next.at = "exists" => next.pair = p
    BY <1>0, <1>b, <2>2 DEF Call
  <2>4. /\ \A m \in gone' : m \in gone
        /\ w # Retry => p.mycex \notin gone'
    BY <1>1 DEF AddEnters
  <2>5. ASSUME NEW m \in gone', Plain(m)
        PROVE  Absent(m) /\ p # Own(m)
    <3>1. Absent(m)
      BY <1>0, <2>4, <2>5
    <3>2. CASE w = Retry
      BY <2>1, <3>1, <3>2 DEF Absent
    <3>3. CASE w # Retry
      <4>1. Own(m).mycex = m
        BY DEF Own
      <4> QED
        BY <2>4, <2>5, <3>1, <3>3, <4>1
    <3> QED
      BY <3>1, <3>2, <3>3
  <2>6. task'[w] = next /\ \A v \in Worker \ {w} : task'[v] = task[v]
    BY <1>a, <2>2
  <2>7. Leaving(task[w])'
    BY <2>3, <2>6 DEF Leaving
  <2> HIDE DEF p, t, M
  <2>8. task'[w].at \notin {"idle", "remove"} => task'[w].pair \in Genuine
    BY <1>0, <2>1, <2>3, <2>6
  <2> QED
    BY <1>0, <2>1, <2>3, <2>5, <2>6, <2>7, <2>8, GoneTurn DEF Absent
<1>2. CASE ExistsAnswers(w)
  <2>1. /\ t.at = "exists" /\ Turn(w) /\ Running' = Running
        /\ UNCHANGED <<config, loaded, pending, snapshot, gone>>
    BY <1>2 DEF ExistsAnswers, registries, Turn, Running, Inside, At
  <2>2. PICK next \in {Resting, [task[w] EXCEPT !.at = "known"]} :
               task' = [task EXCEPT ![w] = next]
    BY <1>2 DEF ExistsAnswers, Leave, GoesOn
  <2>3. /\ next.at \in {"idle", "known"}
        /\ next.at = "known" => next.pair = p
    BY <1>0, <1>b, <2>2 DEF Call
  <2>5. ASSUME NEW m \in gone', Plain(m)
        PROVE  Absent(m) /\ p # Own(m)
    BY <1>0, <2>1, <2>5 DEF Absent
  <2>6. task'[w] = next /\ \A v \in Worker \ {w} : task'[v] = task[v]
    BY <1>a, <2>2
  <2>7. Leaving(task[w])'
    BY <2>3, <2>6 DEF Leaving
  <2> HIDE DEF p, t, M
  <2>8. task'[w].at \notin {"idle", "remove"} => task'[w].pair \in Genuine
    BY <1>0, <2>1, <2>3, <2>6
  <2> QED
    BY <1>0, <2>1, <2>3, <2>5, <2>6, <2>7, <2>8, GoneTurn DEF Absent
<1>3. CASE Queued(w) \/ StartFails(w)
  <2>1. /\ t.at = "known" /\ Turn(w) /\ Running' = Running
        /\ UNCHANGED <<config, loaded, gone>> /\ snapshot' \subseteq snapshot
        /\ pending' \subseteq pending \cup {p}
    BY <1>3 DEF Queued, StartFails, Enqueued, Dequeued, WithoutKey, registries, Turn,
                Running, Inside, At
  <2>2. task' = [task EXCEPT ![w] = Resting]
    BY <1>3 DEF Queued, StartFails, Leave
  <2>5. ASSUME NEW m \in gone', Plain(m)
        PROVE  Absent(m) /\ p # Own(m)
    BY <1>0, <2>1, <2>5 DEF Absent
  <2>6. task'[w] = Resting /\ \A v \in Worker \ {w} : task'[v] = task[v]
    BY <1>a, <2>2
  <2>7. Leaving(task[w])'
    BY <1>b, <2>6 DEF Leaving
  <2> HIDE DEF p, t, M
  <2> QED
    BY <1>0, <1>b, <2>1, <2>5, <2>6, <2>7, GoneTurn DEF Absent
<1>4. CASE Started(w)
  <2>1. /\ t.at = "known" /\ Turn(w) /\ engines' = Append(engines, p)
        /\ UNCHANGED <<config, loaded, snapshot, gone>> /\ pending' \subseteq pending
    BY <1>4 DEF Started, Dequeued, WithoutKey, Turn, Inside, At
  <2>2. task' = [task EXCEPT ![w] = [task[w] EXCEPT !.at = "adopt"]]
    BY <1>4 DEF Started, GoesOn
  <2>3. Running' = Running \cup {p}
    BY <2>1, Carries, Appended DEF Running, DataTypes
  <2>5. ASSUME NEW m \in gone', Plain(m)
        PROVE  Absent(m) /\ p # Own(m)
    BY <1>0, <2>1, <2>5 DEF Absent
  <2>6. /\ task'[w].at = "adopt" /\ task'[w].pair = p
        /\ \A v \in Worker \ {w} : task'[v] = task[v]
    <3>1. /\ task'[w] = [task[w] EXCEPT !.at = "adopt"]
          /\ \A v \in Worker \ {w} : task'[v] = task[v]
      BY <1>a, <2>2
    <3> QED
      BY <1>0, <3>1 DEF Call
  <2>7. Leaving(task[w])'
    BY <2>6 DEF Leaving
  <2> HIDE DEF p, t, M
  <2> QED
    BY <1>0, <2>1, <2>3, <2>5, <2>6, <2>7, GoneTurn DEF Absent
<1>5. CASE Adopted(w)
  <2>1. /\ t.at = "adopt" /\ Turn(w) /\ Running' = Running
        /\ UNCHANGED <<loaded, pending, snapshot, gone>>
        /\ config' \subseteq config \cup {p}
    BY <1>5 DEF Adopted, Written, Turn, Running, Inside, At
  <2>2. task' = [task EXCEPT ![w] = Resting]
    BY <1>5 DEF Adopted, Leave
  <2>5. ASSUME NEW m \in gone', Plain(m)
        PROVE  Absent(m) /\ p # Own(m)
    BY <1>0, <2>1, <2>5 DEF Absent
  <2>6. task'[w] = Resting /\ \A v \in Worker \ {w} : task'[v] = task[v]
    BY <1>a, <2>2
  <2>7. Leaving(task[w])'
    BY <1>b, <2>6 DEF Leaving
  <2> HIDE DEF p, t, M
  <2> QED
    BY <1>0, <1>b, <2>1, <2>5, <2>6, <2>7, GoneTurn DEF Absent
<1>6. CASE Stopped(w)
  <2>1. /\ t.at = "stopping" /\ Turn(w) /\ engines' = WithoutEngine(p)
        /\ UNCHANGED <<config, loaded, pending, snapshot, gone>>
    BY <1>6 DEF Stopped, Turn, Inside, At
  <2>2. task' = [task EXCEPT ![w] = [task[w] EXCEPT !.at = "unsubscribing"]]
    BY <1>6 DEF Stopped, GoesOn
  <2>3. p \in Running
    BY <2>1 DEF EnginesInv, Halfway
  <2>4. Running' \subseteq Running /\ Sources(Running') = Sources(Running) \ {p.source}
    BY <2>1, <2>3, EngineTaken DEF DataTypes, EnginesInv
  <2>5. ASSUME NEW m \in gone', Plain(m)
        PROVE  Absent(m)
    BY <1>0, <2>1, <2>5
  <2>6. /\ task'[w].at = "unsubscribing" /\ task'[w].pair = p /\ task'[w].market = M
        /\ \A v \in Worker \ {w} : task'[v] = task[v]
    <3>1. /\ task'[w] = [task[w] EXCEPT !.at = "unsubscribing"]
          /\ \A v \in Worker \ {w} : task'[v] = task[v]
      BY <1>a, <2>2
    <3> QED
      BY <1>0, <3>1 DEF Call
  <2>7. ASSUME Plain(M)
        PROVE  p = Own(M) /\ Own(M) \notin pending /\ Own(M) \notin Running'
    <3>1. p = Own(M) /\ Own(M) \notin pending
      BY <2>1, <2>7 DEF GoneInv, Leaving
    <3>2. p \notin Running'
      BY <2>4 DEF Sources
    <3> QED
      BY <3>1, <3>2
  <2>8. Leaving(task[w])'
    BY <2>1, <2>6, <2>7 DEF Leaving
  <2>9. Retry # w => \A m \in gone' :
          Plain(m) /\ task[Retry].at = "add" => task[Retry].pair # Own(m)
    BY <2>5 DEF Absent
  <2> HIDE DEF p, t, M
  <2> QED
    BY <1>0, <2>1, <2>4, <2>5, <2>6, <2>8, <2>9, GoneTurn DEF Absent
<1>7. CASE RemoveEnters(w)
  <2>1. /\ t.at = "remove" /\ Turn(w) /\ Running' = Running
        /\ UNCHANGED <<loaded, snapshot>> /\ pending' = WithoutKey(M)
    BY <1>7 DEF RemoveEnters, Turn, Running
  <2>2. pending' \subseteq pending /\ Own(M) \notin pending'
    BY <2>1 DEF WithoutKey, Own
  <2>3. CASE Matching(M) = {} /\ Leave(w) /\ config' = Erased(M) /\ gone' = Delisted(M)
    <3>1. task'[w] = Resting /\ \A v \in Worker \ {w} : task'[v] = task[v]
      BY <1>a, <2>3 DEF Leave
    <3>2. Own(M) \notin Running
      BY <2>3 DEF Matching, Running, ToSet, Own
    <3>3. Leaving(task[w])'
      BY <1>b, <3>1 DEF Leaving
    <3> HIDE DEF p, t, M
    <3>5. config' \subseteq config /\ Own(M) \notin config'
      BY <2>3 DEF Erased, Own
    <3>4. ASSUME NEW m \in gone', Plain(m)
          PROVE  /\ Own(m) \notin Running' \cup pending' \cup config'
                 /\ task[Retry].at = "add" => task[Retry].pair # Own(m)
      <4>1. CASE m \in gone
        BY <1>0, <2>1, <2>2, <3>4, <3>5, <4>1 DEF Absent
      <4>2. CASE m \notin gone
        BY <2>1, <2>2, <2>3, <3>2, <3>4, <3>5, <4>2, JustDelisted
      <4> QED
        BY <4>1, <4>2
    <3> QED
      BY <1>0, <1>b, <2>1, <2>2, <3>1, <3>3, <3>4, <3>5, GoneTurn
  <2>4. ASSUME NEW e \in Found(M), UNCHANGED <<config, gone>>,
               GoesOn(w, [task[w] EXCEPT !.at = "stopping", !.pair = e])
        PROVE  GoneInv'
    <3>1. /\ task'[w].at = "stopping" /\ task'[w].pair = e /\ task'[w].market = M
          /\ \A v \in Worker \ {w} : task'[v] = task[v]
      <4>1. /\ task'[w] = [task[w] EXCEPT !.at = "stopping", !.pair = e]
            /\ \A v \in Worker \ {w} : task'[v] = task[v]
        BY <1>a, <2>4 DEF GoesOn
      <4> QED
        BY <1>0, <4>1 DEF Call
    <3>2. e \in Running /\ M \in {e.source, e.mycex}
      BY FoundRuns DEF DataTypes, Found, Matching
    <3>3. Plain(M) => e = Own(M)
      BY <1>0, <3>2, PlainPair
    <3>4. Leaving(task[w])'
      BY <2>2, <3>1, <3>3 DEF Leaving
    <3> HIDE DEF p, t, M
    <3>5. ASSUME NEW m \in gone', Plain(m) PROVE Absent(m)
      BY <1>0, <2>4, <3>5
    <3> QED
      BY <1>0, <2>1, <2>2, <2>4, <3>1, <3>2, <3>4, <3>5, GoneTurn DEF Absent
  <2> QED
    BY <1>7, <2>3, <2>4 DEF RemoveEnters
<1>8. CASE Removed(w)
  <2>1. /\ t.at = "unsubscribing" /\ Turn(w) /\ Running' = Running /\ Leave(w)
        /\ UNCHANGED <<loaded, snapshot, pending>>
        /\ config' = Erased(M) /\ gone' = Delisted(M)
    BY <1>8 DEF Removed, Turn, Running, Inside, At
  <2>2. task'[w] = Resting /\ \A v \in Worker \ {w} : task'[v] = task[v]
    BY <1>a, <2>1 DEF Leave
  <2>3. Plain(M) => Own(M) \notin Running /\ Own(M) \notin pending
    BY <2>1 DEF GoneInv, Leaving
  <2>4. Leaving(task[w])'
    BY <1>b, <2>2 DEF Leaving
  <2>6. config' \subseteq config /\ Own(M) \notin config'
    BY <2>1 DEF Erased, Own
  <2> HIDE DEF p, t, M
  <2>5. ASSUME NEW m \in gone', Plain(m)
        PROVE  /\ Own(m) \notin Running' \cup pending' \cup config'
               /\ task[Retry].at = "add" => task[Retry].pair # Own(m)
    <3>1. CASE m \in gone
      BY <1>0, <2>1, <2>5, <2>6, <3>1 DEF Absent
    <3>2. CASE m \notin gone
      BY <2>1, <2>3, <2>5, <2>6, <3>2, JustDelisted
    <3> QED
      BY <3>1, <3>2
  <2> QED
    BY <1>0, <1>b, <2>1, <2>2, <2>4, <2>5, <2>6, GoneTurn
<1> QED
  BY <1>1, <1>2, <1>3, <1>4, <1>5, <1>6, <1>7, <1>8 DEF Proceed
\* A pair still in the queue whose source is that of a market's own pair.
LEMMA ReplayedIsQueued ==
  ASSUME GoneInv, NEW p \in snapshot, StillQueued(p)
  PROVE  /\ p \in Genuine
         /\ \A m \in gone : Plain(m) => p # Own(m)
<1>1. p \in Genuine
  BY DEF GoneInv, OriginInv
<1>2. ASSUME NEW m \in gone, Plain(m), p = Own(m)
      PROVE  FALSE
  <2>1. PICK q \in pending : q.source = m
    BY <1>2 DEF StillQueued, Sources, Own
  <2>2. q = Own(m)
    BY <1>2, <2>1, PlainPair DEF GoneInv, OriginInv
  <2> QED
    BY <1>2, <2>1, <2>2 DEF GoneInv, Absent
<1> QED
  BY <1>1, <1>2

LEMMA GoneStep ==
  ASSUME DataTypes, LockInv, EnginesInv, GoneInv, [Next]_vars
  PROVE  GoneInv'
<1>0. /\ config \cup loaded \cup pending \cup snapshot \subseteq Genuine
      /\ Kafka \in Worker /\ Retry \in Worker /\ Kafka # Retry
      /\ task \in [Worker -> Call]
  BY ManagerAssumption DEF GoneInv, OriginInv, Worker, LockInv
<1>1. ASSUME NEW m \in Symbol, EnableEvent(m)
      PROVE  GoneInv'
  <2>1. task' = [task EXCEPT ![Kafka] = AddCall(Own(m), TRUE)]
    BY <1>1 DEF EnableEvent, Asks
  <2>2. Own(m) \in Genuine
    BY DEF Genuine
  <2>3. /\ task'[Kafka] = AddCall(Own(m), TRUE)
        /\ \A v \in Worker \ {Kafka} : task'[v] = task[v]
    BY <1>0, <2>1
  <2>4. \A v \in Worker : \/ task'[v] = task[v]
                          \/ task'[v].at = "add" /\ task'[v].pair \in Genuine
    BY <2>2, <2>3 DEF AddCall
  <2> QED
    BY <1>0, <1>1, <2>3, <2>4, GoneOutside DEF EnableEvent, registries
<1>2. ASSUME NEW m \in Symbol, DelistEvent(m)
      PROVE  GoneInv'
  <2>1. task' = [task EXCEPT ![Kafka] = RemoveCall(m)]
    BY <1>2 DEF DelistEvent, Asks
  <2>2. /\ task'[Kafka] = RemoveCall(m)
        /\ \A v \in Worker \ {Kafka} : task'[v] = task[v]
    BY <1>0, <2>1
  <2>3. \A v \in Worker : task'[v] = task[v] \/ task'[v].at \in {"idle", "remove"}
    BY <2>2 DEF RemoveCall
  <2> QED
    BY <1>0, <1>2, <2>2, <2>3, GoneOutside DEF DelistEvent, registries
<1>3. CASE Bootstrap
  <2>1. PICK usable \in SUBSET known :
          task' = [w \in Worker |->
                     IF w \in BootPairs(usable) THEN AddCall(w, FALSE) ELSE task[w]]
    BY <1>3 DEF Bootstrap
  <2>2. BootPairs(usable) \subseteq Genuine
    BY <1>0 DEF BootPairs, Genuine, DataTypes
  <2>3. \A v \in Worker : \/ task'[v] = task[v]
                          \/ task'[v].at = "add" /\ task'[v].pair \in Genuine
    BY <2>1, <2>2 DEF AddCall
  <2>4. task'[Retry] = task[Retry]
    <3>1. BootPairs(usable) \subseteq Pair
      BY DEF BootPairs, Own, Pair, DataTypes
    <3> QED
      BY <1>0, <2>1, <3>1, ManagerAssumption
  <2> QED
    BY <1>0, <1>3, <2>3, <2>4, GoneOutside DEF Bootstrap, registries
<1>4. CASE RetryBegins
  BY <1>0, <1>4, GoneOutside DEF RetryBegins, registries
<1>5. CASE RetryNext
  <2>1. PICK p \in snapshot :
          /\ snapshot' = snapshot \ {p}
          /\ \/ StillQueued(p) /\ task' = [task EXCEPT ![Retry] = AddCall(p, TRUE)]
             \/ task' = task
    BY <1>5 DEF RetryNext, Asks
  <2>2. CASE task' = task
    BY <1>0, <1>5, <2>1, <2>2, GoneOutside DEF RetryNext, registries
  <2>3. CASE StillQueued(p) /\ task' = [task EXCEPT ![Retry] = AddCall(p, TRUE)]
    <3>1. /\ task'[Retry].at = "add" /\ task'[Retry].pair = p
          /\ \A v \in Worker \ {Retry} : task'[v] = task[v]
      BY <1>0, <2>3 DEF AddCall
    <3>2. p \in Genuine /\ \A m \in gone : Plain(m) => p # Own(m)
      BY <2>3, ReplayedIsQueued
    <3> QED
      BY <1>0, <1>5, <2>1, <3>1, <3>2, GoneOutside DEF RetryNext, registries
  <2> QED
    BY <2>1, <2>2, <2>3
<1>6. CASE ServiceChanges \/ UNCHANGED vars
  BY <1>0, <1>6, GoneOutside DEF ServiceChanges, vars, registries
<1> QED
  BY <1>1, <1>2, <1>3, <1>4, <1>5, <1>6, ProceedKeepsGone, AnewKeepsGone
     DEF Next, Crash

LEMMA GoneAtStart == Init => GoneInv
  BY DEF Init, GoneInv, OriginInv, Leaving, Resting, Genuine, Running, ToSet

\* A market that config.yaml neither quotes from another book nor uses as a book
\* does not come back after its delisting: remove_pair under the lock, which takes
\* the pair out of engines, queue and config.yaml in three different steps, leaves
\* nothing from which a retry (retry_pending with a stale copy of the queue), an
\* add that was half done or a restart could quote it again.
THEOREM DelistedStaysGoneCorrect == Spec => []DelistedStaysGone
<1> DEFINE I == DataTypes /\ LockInv /\ RegInv /\ GoneInv
<1>1. Init => I
  BY TypesAtStart, RegistriesAtStart, GoneAtStart
<1>2. I /\ [Next]_vars => I'
  BY TypeStep, LockStep, RegistriesStep, RegistriesAreSound, GoneStep
<1>3. I => DelistedStaysGone
  BY GoneIsGone
<1> QED
  BY <1>1, <1>2, <1>3, PTL DEF Spec
=============================================================================
