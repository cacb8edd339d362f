---------------------------- MODULE ProcessProofs ----------------------------
(***************************************************************************)
(* Invariants of Process, for any markets, topic, offset reset and faults. *)
(***************************************************************************)
EXTENDS Process, PairManagerProofs

-----------------------------------------------------------------------------
(* The invariant, beside DataTypes and LockInv of the pair manager.        *)

\* The topic and the positions in it.
TopicInv ==
  /\ topic \in Seq(Event) /\ Len(topic) <= MaxEvents
  /\ enabled \subseteq Symbol
  /\ polled \in 0 .. Len(topic)
  /\ handled \in 0 .. polled
  /\ committed \in {NoOffset} \cup 0 .. Len(topic)
  /\ heard \subseteq Symbol /\ skipped \subseteq Symbol

\* Nothing of the process is left that could place an order.
AtRest ==
  /\ \A w \in Worker : task[w] = Resting
  /\ snapshot = {} /\ loops = {} /\ passing = {}

\* How far run has come, and what has ended by then.
StageInv ==
  /\ stage \in {"starting", "serving", "stopping", "clearing", "exited"}
  /\ stop \in BOOLEAN
  /\ stage \in {"stopping", "clearing", "exited"} => stop
  /\ stage \in {"clearing", "exited"} => AtRest
  /\ stage # "clearing" => clearing = {}

\* Passes belong to loops, orders to engines.
OrdersInv ==
  /\ passing \subseteq loops
  /\ clearing \subseteq quoted /\ quoted \subseteq Running
  /\ left \subseteq Symbol

ProcessInv == DataTypes /\ LockInv /\ TopicInv /\ StageInv /\ OrdersInv

-----------------------------------------------------------------------------
(* What a step of the process is for the pair manager.                     *)

LEMMA NextEvent ==
  ASSUME TopicInv, handled < polled
  PROVE  /\ topic[handled + 1] \in Event
         /\ topic[handled + 1].kind \in {"enabled", "disabled"}
              => topic[handled + 1].market \in Symbol
<1>1. handled + 1 \in 1 .. Len(topic)
  BY LenProperties DEF TopicInv
<1>2. topic[handled + 1] \in Event
  BY <1>1, ElementOfSeq DEF TopicInv
<1> QED
  BY <1>2 DEF Event

\* An event the consumer acts on is a call.
LEMMA DispatchedCall ==
  ASSUME TopicInv, Dispatches
  PROVE  [Next]_vars
<1> DEFINE event == topic[handled + 1]
<1>1. /\ event.kind \in {"enabled", "disabled"} => event.market \in Symbol
      /\ Acts(event)
  BY NextEvent DEF Dispatches
<1> HIDE DEF event
<1>2. CASE event.kind = "enabled"
  BY <1>1, <1>2 DEF Acts, Next
<1>3. CASE event.kind = "disabled"
  BY <1>1, <1>3 DEF Acts, Next
<1>4. CASE event.kind \notin {"enabled", "disabled"}
  BY <1>1, <1>4 DEF Acts
<1> QED
  BY <1>2, <1>3, <1>4

PlatformActs(m) ==
  PlatformEnables(m) \/ ServiceRegisters(m) \/ ServiceDelists(m) \/ PlatformDisables(m)

LEMMA PlatformStep ==
  ASSUME NEW m \in Symbol, PlatformActs(m)
  PROVE  [Next]_vars
<1>1. CASE PlatformEnables(m) \/ PlatformDisables(m)
  BY <1>1 DEF PlatformEnables, PlatformDisables, Announces, platformOnly, vars, registries
<1>2. CASE ServiceRegisters(m) \/ ServiceDelists(m)
  <2>1. known' = (known \ {m}) \cup ({m} \ known)
    BY <1>2 DEF ServiceRegisters, ServiceDelists
  <2> QED
    BY <1>2, <2>1 DEF ServiceRegisters, ServiceDelists, platformOnly, ServiceChanges, Next
<1> QED
  BY <1>1, <1>2 DEF PlatformActs

\* All but the end of the process are steps of PairManager, or none at all.
LEMMA ManagerStep ==
  ASSUME TopicInv, [ProcessNext]_all
  PROVE  [Next]_vars \/ StartsAnew \/ ConsumerCancelled \/ TasksCancelled
<1>1. CASE UNCHANGED all
  BY <1>1 DEF all
<1>2. CASE PlatformChatters
  BY <1>2 DEF PlatformChatters, Announces, platformOnly, vars, registries
<1>3. CASE Boots \/ Retries
  BY <1>3 DEF Boots, Retries, Next
<1>4. ASSUME NEW w \in Worker, Manages(w)
      PROVE  [Next]_vars
  BY <1>4 DEF Manages, Next
<1>5. CASE ConsumerStarts \/ Polls \/ AutoCommits \/ Signal \/ Exits
  BY <1>5 DEF ConsumerStarts, Polls, AutoCommits, Signal, Exits
<1>6. ASSUME NEW p \in Running, Quotes(p) \/ Clears(p)
      PROVE  [Next]_vars
  BY <1>6 DEF Quotes, Clears
<1>7. ASSUME NEW s \in Symbol, PassEnds(s)
      PROVE  [Next]_vars
  BY <1>7 DEF PassEnds
<1>8. CASE Restart \/ Dies \/ ConsumerFails
  BY <1>8 DEF Restart, Dies, ConsumerFails, Restarted
<1> QED
  BY <1>1, <1>2, <1>3, <1>4, <1>5, <1>6, <1>7, <1>8, PlatformStep, DispatchedCall
     DEF ProcessNext, PlatformActs

-----------------------------------------------------------------------------
(* The lock and the types of the pair manager, also through a shutdown.    *)

\* Who is cancelled in the queue leaves the others in it.
LEMMA LeftTheLockQueue ==
  ASSUME LockInv, CancelledInQueue, UNCHANGED booted
  PROVE  LockInv'
<1>1. Kafka \in Worker /\ Kafka \notin Pair
  BY ManagerAssumption DEF Worker
<1>2. /\ task' \in [Worker -> Call]
      /\ task'[Kafka] = Resting
      /\ \A v \in Worker \ {Kafka} : task'[v] = task[v]
  BY <1>1, RestingIsWellFormed DEF LockInv, CancelledInQueue, WellFormed
<1>3. holder' = holder /\ holder # Kafka
  BY DEF CancelledInQueue
<1>4. /\ waiting' \in Seq(Worker) /\ IsInjective(waiting')
      /\ \A k \in DOMAIN waiting' :
           \E j \in DOMAIN waiting : waiting'[k] = waiting[j] /\ waiting[j] # Kafka
  <2>1. CASE Kafka \in ToSet(waiting)
    <3> DEFINE i == CHOOSE i \in DOMAIN waiting : waiting[i] = Kafka
    <3>1. i \in DOMAIN waiting /\ waiting[i] = Kafka
      BY <2>1 DEF ToSet
    <3>2. waiting' = RemoveAt(waiting, i)
      BY <2>1 DEF CancelledInQueue, WithoutWaiter
    <3> HIDE DEF i
    <3>3. \A j \in DOMAIN waiting \ {i} : waiting[j] # Kafka
      BY <3>1 DEF LockInv, IsInjective
    <3>4. waiting' \in Seq(Worker)
      BY <3>1, <3>2, RemovedAt DEF LockInv
    <3>5. /\ IsInjective(waiting')
          /\ \A k \in DOMAIN waiting' :
               \E j \in DOMAIN waiting \ {i} : waiting'[k] = waiting[j]
      BY <3>1, <3>2, LeftTheQueue DEF LockInv
    <3> QED
      BY <3>3, <3>4, <3>5
  <2>2. CASE Kafka \notin ToSet(waiting)
    BY <2>2 DEF CancelledInQueue, WithoutWaiter, LockInv, ToSet
  <2> QED
    BY <2>1, <2>2
<1>5. \A i \in DOMAIN waiting : waiting[i] \in Worker
  BY ElementOfSeq, LenProperties DEF LockInv
<1>6. \A k \in DOMAIN waiting' :
        task'[waiting'[k]].at \in {"add", "remove"} /\ waiting'[k] # holder'
  BY <1>2, <1>3, <1>4, <1>5 DEF LockInv
<1>7. Resting.at = "idle" /\ "idle" \notin Inside
  BY DEF Resting, Inside
<1>8. \A v \in Worker : WellFormed(task'[v])
  BY <1>2, RestingIsWellFormed DEF LockInv
<1>9. \A v \in Worker : task'[v].at \in Inside => holder' = v
  BY <1>2, <1>3, <1>7 DEF LockInv
<1>10. \A v \in Worker : holder' = v => task'[v].at # "idle"
  BY <1>2, <1>3 DEF LockInv
<1>11. ~booted' => \A p \in Pair : task'[p] = Resting
  BY <1>1, <1>2, WorkerFacts DEF LockInv
<1> QED
  BY <1>2, <1>3, <1>4, <1>6, <1>8, <1>9, <1>10, <1>11 DEF LockInv

LEMMA CancellingKeepsLock ==
  ASSUME LockInv, ConsumerCancelled
  PROVE  LockInv'
<1>1. CASE CancelledInQueue
  BY <1>1, LeftTheLockQueue DEF ConsumerCancelled
<1>2. CASE CancelledInside
  <2>1. Kafka \in Worker
    BY DEF Worker
  <2>2. Turn(Kafka)
    BY <1>2 DEF CancelledInside, Turn, Inside, At
  <2> QED
    BY <1>2, <2>1, <2>2, LeavingKeepsLock DEF CancelledInside, ConsumerCancelled
<1>3. CASE Swallowed
  BY <1>3 DEF Swallowed, ConsumerCancelled, LockInv
<1> QED
  BY <1>1, <1>2, <1>3 DEF ConsumerCancelled

LEMMA ManagerKept ==
  ASSUME DataTypes, LockInv, TopicInv, [ProcessNext]_all
  PROVE  DataTypes' /\ LockInv'
<1>1. CASE [Next]_vars
  BY <1>1, TypeStep, LockStep
<1>2. CASE StartsAnew
  BY <1>2, AnewKeepsTypes, RestKeepsLock DEF StartsAnew
<1>3. CASE ConsumerCancelled
  BY <1>3, CancellingKeepsLock DEF ConsumerCancelled, DataTypes, registries
<1>4. CASE TasksCancelled
  BY <1>4, RestKeepsLock DEF TasksCancelled, StillPassing, DataTypes
<1> QED
  BY <1>1, <1>2, <1>3, <1>4, ManagerStep

-----------------------------------------------------------------------------
(* The topic, and what has been read of it.                                *)

\* The topic gains an event, or nothing.
LEMMA TopicGrows ==
  ASSUME TopicInv, NEW event \in Event, Announces(event)
  PROVE  /\ topic' \in Seq(Event) /\ Len(topic') = Len(topic) + 1
         /\ Len(topic') <= MaxEvents
<1>1. topic' = Append(topic, event) /\ Len(topic) < MaxEvents
  BY DEF Announces
<1>2. topic' \in Seq(Event) /\ Len(topic') = Len(topic) + 1 /\ Len(topic) \in Nat
  BY <1>1, AppendProperties, LenProperties DEF TopicInv
<1> QED
  BY <1>1, <1>2, ProcessAssumption

LEMMA AnnouncingKeepsTopic ==
  ASSUME TopicInv, NEW event \in Event, Announces(event),
         enabled' \subseteq Symbol
  PROVE  TopicInv'
<1>1. /\ topic' \in Seq(Event) /\ Len(topic') = Len(topic) + 1
      /\ Len(topic') <= MaxEvents
  BY TopicGrows
<1>2. Len(topic) \in Nat
  BY LenProperties DEF TopicInv
<1>3. UNCHANGED <<polled, handled, committed, heard, skipped>>
  BY DEF Announces, platformOnly, consumer, told
<1> QED
  BY <1>1, <1>2, <1>3 DEF TopicInv

LEMMA TopicStep ==
  ASSUME DataTypes, TopicInv, [ProcessNext]_all
  PROVE  TopicInv'
<1>0. Len(topic) \in Nat /\ DOMAIN topic = 1 .. Len(topic)
  BY LenProperties DEF TopicInv
<1>1. ASSUME UNCHANGED <<topic, enabled, consumer, told>>
      PROVE  TopicInv'
  BY <1>1 DEF TopicInv, consumer, told
<1>2. ASSUME NEW m \in Symbol, PlatformEnables(m)
      PROVE  TopicInv'
  <2>1. [kind |-> "enabled", market |-> m] \in Event
    BY DEF Event
  <2> QED
    BY <1>2, <2>1, AnnouncingKeepsTopic DEF PlatformEnables, TopicInv
<1>3. ASSUME NEW m \in Symbol, ServiceRegisters(m) \/ ServiceDelists(m)
      PROVE  TopicInv'
  BY <1>3 DEF ServiceRegisters, ServiceDelists, platformOnly, TopicInv, consumer, told
<1>4. ASSUME NEW m \in Symbol, PlatformDisables(m)
      PROVE  TopicInv'
  <2>1. [kind |-> "disabled", market |-> m] \in Event
    BY DEF Event
  <2> QED
    BY <1>4, <2>1, AnnouncingKeepsTopic DEF PlatformDisables, TopicInv
<1>5. CASE PlatformChatters
  <2>1. PICK kind \in {"other"} \cup (Faults \cap {"odd"}) :
               Announces([kind |-> kind, market |-> NoMarket])
    BY <1>5 DEF PlatformChatters
  <2>2. [kind |-> kind, market |-> NoMarket] \in Event
    BY DEF Event
  <2> QED
    BY <1>5, <2>1, <2>2, AnnouncingKeepsTopic DEF PlatformChatters, TopicInv
<1>6. CASE ConsumerStarts
  <2>1. StartOffset \in 0 .. Len(topic)
    BY <1>0 DEF StartOffset, TopicInv
  <2>2. \A j \in 1 .. StartOffset : topic[j] \in Event
    BY <1>0, <2>1, ElementOfSeq DEF TopicInv
  <2>3. skipped' \subseteq Symbol
    BY <1>6, <2>2 DEF ConsumerStarts, Event
  <2>4. /\ polled' = StartOffset /\ handled' = StartOffset
        /\ UNCHANGED <<topic, enabled, committed, heard>>
    BY <1>6 DEF ConsumerStarts, vars
  <2> HIDE DEF StartOffset
  <2> QED
    BY <1>0, <2>1, <2>3, <2>4 DEF TopicInv
<1>7. CASE Polls
  <2>1. UNCHANGED <<topic, enabled, handled, committed, told>>
    BY <1>7 DEF Polls, vars
  <2>2. polled' \in polled + 1 .. Len(topic)
    BY <1>7 DEF Polls
  <2> QED
    BY <1>0, <2>1, <2>2 DEF TopicInv, told
<1>8. CASE AutoCommits
  <2>1. UNCHANGED <<topic, enabled, polled, handled, told>>
    BY <1>8 DEF AutoCommits, vars
  <2>2. committed' = polled
    BY <1>8 DEF AutoCommits
  <2> QED
    BY <1>0, <2>1, <2>2 DEF TopicInv, told
<1>9. CASE Dispatches
  <2> DEFINE event == topic[handled + 1]
  <2>1. /\ handled < polled
        /\ handled' \in {polled, handled + 1}
        /\ heard' = IF event.kind = "enabled" THEN heard \cup {event.market} ELSE heard
        /\ UNCHANGED <<topic, enabled, polled, committed, skipped>>
        /\ Acts(event)
    BY <1>9 DEF Dispatches
  <2>2. event.kind = "enabled" => event.market \in Symbol
    BY <2>1, NextEvent
  <2> HIDE DEF event
  <2>4. heard' \subseteq Symbol
    BY <2>1, <2>2 DEF TopicInv
  <2> QED
    BY <1>0, <2>1, <2>4 DEF TopicInv
<1>10. CASE Boots
  <2>1. Markets(loaded) \subseteq Symbol
    BY DEF Markets, DataTypes, Pair
  <2> QED
    BY <1>10, <2>1 DEF Boots, Bootstrap, TopicInv, DataTypes, consumer
<1>11. CASE Retries
  BY <1>1, <1>11 DEF Retries, RetryBegins, RetryNext
<1>12. ASSUME NEW w \in Worker, Manages(w)
       PROVE  TopicInv'
  BY <1>1, <1>12
     DEF Manages, Proceed, AddEnters, ExistsAnswers, Queued, StartFails, Started, Adopted,
         RemoveEnters, Stopped, Removed
<1>13. ASSUME NEW p \in Running, Quotes(p) \/ Clears(p)
       PROVE  TopicInv'
  BY <1>1, <1>13 DEF Quotes, Clears, vars
<1>14. ASSUME NEW s \in Symbol, PassEnds(s)
       PROVE  TopicInv'
  BY <1>1, <1>14 DEF PassEnds, vars
<1>15. CASE Signal \/ ConsumerCancelled \/ Exits \/ UNCHANGED all
  BY <1>1, <1>15 DEF Signal, ConsumerCancelled, Exits, all, vars
<1>16. CASE TasksCancelled
  BY <1>0, <1>16 DEF TasksCancelled, TopicInv, told
<1>17. CASE Restart \/ Dies \/ ConsumerFails
  <2>1. Restarted
    BY <1>17 DEF Restart, Dies, ConsumerFails
  <2> QED
    BY <1>0, <2>1 DEF Restarted, StartsAnew, TopicInv
<1> QED
  BY <1>2, <1>3, <1>4, <1>5, <1>6, <1>7, <1>8, <1>9, <1>10, <1>11, <1>12, <1>13,
     <1>14, <1>15, <1>16, <1>17 DEF ProcessNext

-----------------------------------------------------------------------------
(* How far run has come.                                                   *)

\* Who moves in a critical section was not at rest.
LEMMA MoversAreNotIdle ==
  ASSUME NEW w, Proceed(w)
  PROVE  task[w] # Resting
<1>1. task[w].at # "idle"
  BY DEF Proceed, AddEnters, ExistsAnswers, Queued, StartFails, Started, Adopted,
         RemoveEnters, Stopped, Removed
<1> QED
  BY <1>1 DEF Resting

LEMMA StageKept ==
  ASSUME StageInv, UNCHANGED <<stage, stop, clearing>>,
         stage \in {"clearing", "exited"} => UNCHANGED <<task, snapshot, loops, passing>>
  PROVE  StageInv'
<1>1. CASE stage \in {"clearing", "exited"}
  BY <1>1 DEF StageInv, AtRest
<1>2. CASE stage \notin {"clearing", "exited"}
  BY <1>2 DEF StageInv
<1> QED
  BY <1>1, <1>2

LEMMA StageStep ==
  ASSUME StageInv, OrdersInv, [ProcessNext]_all
  PROVE  StageInv'
<1>1. ASSUME UNCHANGED <<stage, stop, clearing, passing, task, snapshot, loops>>
      PROVE  StageInv'
  BY <1>1, StageKept
<1>2. ASSUME NEW m \in Symbol, PlatformActs(m)
      PROVE  StageInv'
  BY <1>1, <1>2
     DEF PlatformActs, PlatformEnables, ServiceRegisters, ServiceDelists,
         PlatformDisables, Announces,
         platformOnly, registries, orders
<1>3. CASE PlatformChatters
  BY <1>1, <1>3 DEF PlatformChatters, Announces, platformOnly, registries, orders
<1>4. CASE ConsumerStarts
  <2>1. /\ stage = "starting" /\ stage' = "serving"
        /\ UNCHANGED <<stop, clearing>>
    BY <1>4 DEF ConsumerStarts, orders
  <2> QED
    BY <2>1 DEF StageInv
<1>5. CASE Polls \/ AutoCommits
  BY <1>1, <1>5 DEF Polls, AutoCommits, vars, registries, orders
<1>6. CASE Dispatches
  <2>1. stage = "serving" /\ UNCHANGED <<stage, stop, clearing>>
    BY <1>6 DEF Dispatches, orders
  <2> QED
    BY <2>1, StageKept
<1>7. CASE Boots \/ Retries
  <2>1. /\ stage \in {"starting", "serving", "stopping"}
        /\ UNCHANGED <<stage, stop, clearing>>
    BY <1>7 DEF Boots, Retries, orders
  <2> QED
    BY <2>1, StageKept
<1>8. ASSUME NEW w \in Worker, Manages(w)
      PROVE  StageInv'
  <2>1. stage \notin {"clearing", "exited"}
    BY <1>8, MoversAreNotIdle DEF Manages, StageInv, AtRest
  <2>2. UNCHANGED <<stage, stop, clearing>>
    BY <1>8 DEF Manages
  <2> QED
    BY <2>1, <2>2, StageKept
<1>9. ASSUME NEW p \in Running, Quotes(p)
      PROVE  StageInv'
  BY <1>1, <1>9 DEF Quotes, vars, registries
<1>10. ASSUME NEW s \in Symbol, PassEnds(s)
       PROVE  StageInv'
  <2>1. s \in passing /\ UNCHANGED <<stage, stop, clearing>>
    BY <1>10 DEF PassEnds
  <2>2. stage \notin {"clearing", "exited"}
    BY <2>1 DEF StageInv, AtRest
  <2> QED
    BY <2>1, <2>2, StageKept
<1>11. ASSUME NEW p \in Running, Clears(p)
       PROVE  StageInv'
  <2>1. /\ clearing' \subseteq clearing
        /\ UNCHANGED <<stage, stop, passing, task, snapshot, loops>>
    BY <1>11 DEF Clears, Through, vars, registries
  <2> QED
    BY <2>1 DEF StageInv, AtRest
<1>12. CASE Signal
  <2>1. /\ stage \in {"starting", "serving"} /\ stop' = TRUE
        /\ UNCHANGED <<stage, clearing>>
    BY <1>12 DEF Signal
  <2> QED
    BY <2>1 DEF StageInv
<1>13. CASE ConsumerCancelled
  <2>1. /\ stage = "serving" /\ stop /\ stage' = "stopping"
        /\ UNCHANGED <<stop, clearing>>
    BY <1>13 DEF ConsumerCancelled, orders
  <2> QED
    BY <2>1 DEF StageInv
<1>14. CASE TasksCancelled
  <2>1. /\ stage = "stopping" /\ stage' = "clearing" /\ stop' = stop
        /\ \A w \in Worker : task'[w] = Resting
        /\ snapshot' = {} /\ loops' = {} /\ passing' = {}
    BY <1>14 DEF TasksCancelled, StillPassing
  <2> QED
    BY <2>1 DEF StageInv, AtRest
<1>15. CASE Exits
  <2>1. /\ stage = "clearing" /\ stage' = "exited" /\ clearing' = {}
        /\ UNCHANGED <<stop, passing, task, snapshot, loops>>
    BY <1>15 DEF Exits, vars, registries
  <2> QED
    BY <2>1 DEF StageInv, AtRest
<1>16. CASE Restart \/ Dies \/ ConsumerFails
  <2>1. stage' = "starting" /\ stop' = FALSE /\ clearing' = {}
    BY <1>16 DEF Restart, Dies, ConsumerFails, Restarted
  <2> QED
    BY <2>1 DEF StageInv
<1>17. CASE UNCHANGED all
  BY <1>1, <1>17 DEF all, vars, registries, orders
<1> QED
  BY <1>2, <1>3, <1>4, <1>5, <1>6, <1>7, <1>8, <1>9, <1>10, <1>11, <1>12, <1>13,
     <1>14, <1>15, <1>16, <1>17 DEF ProcessNext, PlatformActs

-----------------------------------------------------------------------------
(* The orders.                                                             *)

LEMMA OrdersStep ==
  ASSUME DataTypes, LockInv, TopicInv, StageInv, OrdersInv, [ProcessNext]_all
  PROVE  OrdersInv'
<1>0. Running \subseteq Pair
  BY RunningPairs DEF DataTypes
<1>1. ASSUME UNCHANGED <<engines, loops, orders>>
      PROVE  OrdersInv'
  BY <1>1 DEF OrdersInv, orders, Running
<1>2. ASSUME NEW m \in Symbol, PlatformActs(m)
      PROVE  OrdersInv'
  BY <1>1, <1>2
     DEF PlatformActs, PlatformEnables, ServiceRegisters, ServiceDelists,
         PlatformDisables, Announces,
         platformOnly, registries
<1>3. CASE PlatformChatters
  BY <1>1, <1>3 DEF PlatformChatters, Announces, platformOnly, registries
<1>4. CASE ConsumerStarts \/ Polls \/ AutoCommits
  BY <1>1, <1>4 DEF ConsumerStarts, Polls, AutoCommits, vars, registries
<1>5. CASE Dispatches
  <2>1. UNCHANGED orders /\ Acts(topic[handled + 1])
    BY <1>5 DEF Dispatches
  <2>2. UNCHANGED <<engines, loops>>
    BY <2>1 DEF Acts, EnableEvent, DelistEvent, vars, registries
  <2> QED
    BY <1>1, <2>1, <2>2
<1>6. CASE Boots \/ Retries
  BY <1>1, <1>6 DEF Boots, Retries, Bootstrap, RetryBegins, RetryNext, registries
<1>7. ASSUME NEW w \in Worker, Manages(w)
      PROVE  OrdersInv'
  <2>1. clearing = {}
    BY <1>7, MoversAreNotIdle DEF Manages, StageInv, AtRest
  <2>2. /\ passing' \subseteq loops' /\ quoted' \subseteq Running'
        /\ left' \subseteq left /\ clearing' = clearing
    BY <1>7 DEF Manages, Running
  <2> QED
    BY <2>1, <2>2 DEF OrdersInv
<1>8. ASSUME NEW p \in Running, Quotes(p) \/ Clears(p)
      PROVE  OrdersInv'
  <2>1. UNCHANGED <<engines, loops, passing, left>>
    BY <1>8 DEF Quotes, Clears, vars, registries
  <2>2. \/ quoted' = quoted \cup {p} /\ clearing' = clearing
        \/ quoted' = quoted \ {p} /\ clearing' = clearing \ {p}
    BY <1>8 DEF Quotes, Clears, Through
  <2> QED
    BY <2>1, <2>2 DEF OrdersInv, Running
<1>9. ASSUME NEW s \in Symbol, PassEnds(s)
      PROVE  OrdersInv'
  BY <1>9 DEF PassEnds, vars, registries, OrdersInv, Running
<1>10. CASE Signal
  BY <1>10 DEF Signal, vars, registries, OrdersInv, Running
<1>11. CASE ConsumerCancelled
  BY <1>1, <1>11 DEF ConsumerCancelled, registries
<1>12. CASE TasksCancelled
  BY <1>12 DEF TasksCancelled, StillPassing, OrdersInv, Running
<1>13. CASE Exits
  BY <1>13 DEF Exits, vars, registries, OrdersInv, Running
<1>14. CASE Restart \/ Dies \/ ConsumerFails
  <2>1. /\ passing' = {} /\ quoted' = {} /\ clearing' = {}
        /\ left' = left \cup Markets(quoted)
    BY <1>14 DEF Restart, Dies, ConsumerFails, Restarted
  <2>2. Markets(quoted) \subseteq Symbol
    BY <1>0 DEF OrdersInv, Markets, Pair
  <2> QED
    BY <2>1, <2>2 DEF OrdersInv
<1>15. CASE UNCHANGED all
  BY <1>1, <1>15 DEF all, vars, registries
<1> QED
  BY <1>2, <1>3, <1>4, <1>5, <1>6, <1>7, <1>8, <1>9, <1>10, <1>11, <1>12, <1>13,
     <1>14, <1>15 DEF ProcessNext, PlatformActs

-----------------------------------------------------------------------------
LEMMA ProcessInvAtStart == ProcessInit => ProcessInv
<1> SUFFICES ASSUME ProcessInit PROVE ProcessInv
  OBVIOUS
<1>1. DataTypes /\ LockInv
  BY TypesAtStart DEF ProcessInit
<1>2. << >> \in Seq(Event) /\ Len(<< >>) = 0
  OBVIOUS
<1>3. TopicInv
  BY <1>1, <1>2, ProcessAssumption DEF ProcessInit, TopicInv, DataTypes
<1>4. StageInv /\ OrdersInv
  BY DEF ProcessInit, StageInv, OrdersInv
<1> QED
  BY <1>1, <1>3, <1>4 DEF ProcessInv

LEMMA ProcessInvStep ==
  ASSUME ProcessInv, [ProcessNext]_all
  PROVE  ProcessInv'
  BY ManagerKept, TopicStep, StageStep, OrdersStep DEF ProcessInv

\* ProcessTypeOK, in which the consumer's positions do not run ahead of the
\* topic or of one another, a pass belongs to a loop and every tracked order to
\* an engine, from the start of run to the end of its shutdown and after any
\* crash.
THEOREM ProcessTypeCorrect == ProcessSpec => []ProcessTypeOK
<1>1. ProcessInv => ProcessTypeOK
  BY DEF ProcessInv, DataTypes, LockInv, Call, TypeOK, TopicInv, StageInv,
         OrdersInv, ProcessTypeOK
<1> QED
  BY <1>1, ProcessInvAtStart, ProcessInvStep, PTL DEF ProcessSpec

-----------------------------------------------------------------------------
(* The end of the shutdown.                                                *)

\* Once cancel_all has begun nothing is placed and nothing adopted.
LEMMA OrdersOnlyGo ==
  ASSUME StageInv, stage \in {"clearing", "exited"}, [ProcessNext]_all
  PROVE  quoted' \subseteq quoted
<1>1. AtRest /\ stop
  BY DEF StageInv
<1>2. ASSUME NEW p \in Running, Quotes(p)
      PROVE  FALSE
  BY <1>1, <1>2 DEF Quotes, InAPass, AtRest
<1>3. ASSUME NEW p \in Running, Clears(p)
      PROVE  quoted' \subseteq quoted
  BY <1>3 DEF Clears
<1>4. ASSUME NEW w \in Worker, Manages(w)
      PROVE  FALSE
  BY <1>1, <1>4, MoversAreNotIdle DEF Manages, AtRest
<1>5. ASSUME NEW m \in Symbol, PlatformActs(m)
      PROVE  quoted' \subseteq quoted
  BY <1>5 DEF PlatformActs, PlatformEnables, ServiceRegisters, ServiceDelists,
         PlatformDisables, Announces,
              platformOnly, orders
<1>6. CASE PlatformChatters \/ UNCHANGED all
  BY <1>6 DEF PlatformChatters, Announces, platformOnly, orders, all
<1>7. ASSUME NEW s \in Symbol, PassEnds(s)
      PROVE  quoted' \subseteq quoted
  BY <1>7 DEF PassEnds
<1>8. CASE Exits \/ Restart \/ Dies \/ ConsumerFails
  BY <1>8 DEF Exits, Restart, Dies, ConsumerFails, Restarted
<1>9. CASE \/ ConsumerStarts \/ Polls \/ AutoCommits \/ Dispatches \/ Boots
           \/ Retries \/ Signal \/ ConsumerCancelled \/ TasksCancelled
  BY <1>9 DEF ConsumerStarts, Polls, AutoCommits, Dispatches, Boots, Retries,
              Signal, ConsumerCancelled, TasksCancelled
<1> QED
  BY <1>2, <1>3, <1>4, <1>5, <1>6, <1>7, <1>8, <1>9 DEF ProcessNext, PlatformActs

\* Nothing new turns up once cancel_all has begun.
NothingNewAtTheEnd ==
  [][(stage \in {"clearing", "exited"}) => quoted' \subseteq quoted]_all

\* From the first cancel_all of the shutdown on no tracker gains an order, even
\* where another cancel_all raises: what is left then is what was there when the
\* loops had been cancelled (run, from its stop.wait() on).
THEOREM NothingNewAtTheEndCorrect == ProcessSpec => NothingNewAtTheEnd
<1>1. ProcessInv /\ [ProcessNext]_all
        => [(stage \in {"clearing", "exited"}) => quoted' \subseteq quoted]_all
  BY OrdersOnlyGo DEF ProcessInv
<1> QED
  BY <1>1, ProcessInvAtStart, ProcessInvStep, PTL DEF ProcessSpec, NothingNewAtTheEnd

\* What cancel_all still has to go through is all there is.
Cleared ==
  /\ stage = "clearing" => quoted \subseteq clearing
  /\ stage = "exited" => quoted = {}

LEMMA ClearedStep ==
  ASSUME "raise" \notin Faults, ProcessInv, Cleared, [ProcessNext]_all
  PROVE  Cleared'
<1>1. ASSUME stage \in {"clearing", "exited"}, UNCHANGED <<stage, clearing>>
      PROVE  Cleared'
  BY <1>1, OrdersOnlyGo DEF Cleared, ProcessInv
<1>2. ASSUME NEW p \in Running, Clears(p)
      PROVE  Cleared'
  <2>1. stage = "clearing"
    BY <1>2 DEF Clears, ProcessInv, StageInv
  <2> QED
    BY <1>2, <2>1 DEF Clears, Through, Cleared
<1>3. CASE TasksCancelled
  BY <1>3 DEF TasksCancelled, Cleared
<1>4. CASE Exits
  BY <1>4 DEF Exits, Cleared
<1>5. CASE Restart \/ Dies \/ ConsumerFails
  BY <1>5 DEF Restart, Dies, ConsumerFails, Restarted, Cleared
<1>6. CASE ConsumerStarts \/ ConsumerCancelled
  BY <1>6 DEF ConsumerStarts, ConsumerCancelled, Cleared
<1>7. ASSUME UNCHANGED <<stage, clearing>>
      PROVE  Cleared'
  <2>1. CASE stage \in {"clearing", "exited"}
    BY <1>1, <1>7, <2>1
  <2>2. CASE stage \notin {"clearing", "exited"}
    BY <1>7, <2>2 DEF Cleared
  <2> QED
    BY <2>1, <2>2
<1>8. ASSUME NEW m \in Symbol, PlatformActs(m)
      PROVE  UNCHANGED <<stage, clearing>>
  BY <1>8 DEF PlatformActs, PlatformEnables, ServiceRegisters, ServiceDelists,
         PlatformDisables, Announces,
              platformOnly, orders
<1>9. CASE PlatformChatters \/ UNCHANGED all
  BY <1>7, <1>9 DEF PlatformChatters, Announces, platformOnly, orders, all
<1>10. CASE Polls \/ AutoCommits \/ Dispatches \/ Boots \/ Retries \/ Signal
  BY <1>7, <1>10 DEF Polls, AutoCommits, Dispatches, Boots, Retries, Signal, orders
<1>11. ASSUME NEW w \in Worker, Manages(w)
       PROVE  UNCHANGED <<stage, clearing>>
  BY <1>11 DEF Manages
<1>12. ASSUME NEW s \in Symbol, PassEnds(s)
       PROVE  UNCHANGED <<stage, clearing>>
  BY <1>12 DEF PassEnds
<1>13. ASSUME NEW p \in Running, Quotes(p)
       PROVE  UNCHANGED <<stage, clearing>>
  BY <1>13 DEF Quotes
<1> QED
  BY <1>2, <1>3, <1>4, <1>5, <1>6, <1>7, <1>8, <1>9, <1>10, <1>11, <1>12, <1>13
     DEF ProcessNext, PlatformActs

\* A shutdown in which cancel_all does not raise leaves no order in any tracker,
\* wherever add_pair, remove_pair, the retries, the bootstrap and the reconcile
\* loops were when the signal came (run, MarketLifecycleConsumer.stop).
THEOREM ShutdownClearsCorrect ==
  ASSUME "raise" \notin Faults
  PROVE  ProcessSpec => []ShutdownClears
<1>1. ProcessInit => Cleared
  BY DEF ProcessInit, Cleared
<1>2. ProcessInv /\ Cleared /\ [ProcessNext]_all => Cleared'
  BY ClearedStep
<1>3. Cleared => ShutdownClears
  BY DEF Cleared, ShutdownClears
<1> QED
  BY <1>1, <1>2, <1>3, ProcessInvAtStart, ProcessInvStep, PTL DEF ProcessSpec

-----------------------------------------------------------------------------
(* The engines, with critical sections that are left before their end.     *)

LEMMA EnginesUntouched ==
  ASSUME EnginesInv, UNCHANGED <<engines, feed>>, loops' \in {loops, {}},
         \A w \in Worker :
           \/ task'[w] = task[w]
           \/ task'[w].at \in {"idle", "add", "remove"}
  PROVE  EnginesInv'
<1>1. Running' = Running /\ loops' \subseteq loops
  BY DEF Running
<1>2. \A w \in Worker : Halfway(task[w])'
  BY <1>1 DEF EnginesInv, Halfway
<1> QED
  BY <1>1, <1>2 DEF EnginesInv, OneEnginePerSource

\* In its turn a worker is the only one inside.
LEMMA OthersAreOutside ==
  ASSUME LockInv, NEW w \in Worker, Turn(w), NEW next,
         task' = [task EXCEPT ![w] = next],
         OneEnginePerSource', loops' \subseteq Sources(Running'),
         Sources(Running') \subseteq feed', Halfway(task[w])'
  PROVE  EnginesInv'
<1>1. task'[w] = next /\ \A v \in Worker \ {w} : task'[v] = task[v]
  BY TaskAfter
<1>2. \A v \in Worker \ {w} : task'[v].at \notin Inside
  BY <1>1, TurnFacts
<1>3. \A v \in Worker : Halfway(task[v])'
  BY <1>1, <1>2, SettlingIsInside DEF Halfway, Unsettling
<1> QED
  BY <1>3 DEF EnginesInv

LEMMA ProceedKeepsEngines ==
  ASSUME DataTypes, LockInv, EnginesInv, NEW w \in Worker, Proceed(w)
  PROVE  EnginesInv'
<1> DEFINE t == task[w]
           p == task[w].pair
<1>0. t \in Call /\ Halfway(t)
  BY DEF LockInv, EnginesInv
<1>a. Leave(w) => Halfway(task[w])'
  <2> SUFFICES ASSUME Leave(w) PROVE Halfway(task[w])'
    OBVIOUS
  <2>1. task'[w] = Resting
    BY TaskAfter DEF Leave
  <2> QED
    BY <2>1 DEF Halfway, Resting
<1>c. ASSUME NEW next, GoesOn(w, next)
      PROVE  task'[w] = next
  BY <1>c, TaskAfter DEF GoesOn
<1>b. /\ OneEnginePerSource
      /\ loops \subseteq Sources(Running) /\ Sources(Running) \subseteq feed
  BY DEF EnginesInv
<1>1. CASE AddEnters(w)
  <2> DEFINE next == [task[w] EXCEPT !.at = "exists"]
  <2>1. Turn(w)
    BY <1>1 DEF AddEnters, Turn
  <2>2. UNCHANGED <<engines, loops, feed>> /\ Running' = Running
    BY <1>1 DEF AddEnters, registries, Running
  <2>3. CASE Leave(w)
    BY <1>a, <1>b, <2>1, <2>2, <2>3, OthersAreOutside DEF Leave, OneEnginePerSource
  <2>4. CASE ~Mirrored(p) /\ GoesOn(w, next)
    <3>1. task'[w].at = "exists" /\ task'[w].pair = p
      BY <1>0, <1>c, <2>4 DEF Call
    <3> HIDE DEF next
    <3>2. Halfway(task[w])'
      BY <2>2, <2>4, <3>1 DEF Halfway, Mirrored
    <3> QED
      BY <1>b, <2>1, <2>2, <2>4, <3>2, OthersAreOutside DEF GoesOn, OneEnginePerSource
  <2> QED
    BY <1>1, <2>3, <2>4 DEF AddEnters
<1>2. CASE ExistsAnswers(w)
  <2> DEFINE next == [task[w] EXCEPT !.at = "known"]
  <2>1. Turn(w) /\ t.at = "exists"
    BY <1>2 DEF ExistsAnswers, Turn, Inside, At
  <2>2. UNCHANGED <<engines, loops, feed>> /\ Running' = Running
    BY <1>2 DEF ExistsAnswers, registries, Running
  <2>3. CASE Leave(w)
    BY <1>a, <1>b, <2>1, <2>2, <2>3, OthersAreOutside DEF Leave, OneEnginePerSource
  <2>4. CASE GoesOn(w, next)
    <3>1. task'[w].at = "known" /\ task'[w].pair = p
      BY <1>0, <1>c, <2>4 DEF Call
    <3> HIDE DEF next
    <3>2. Halfway(task[w])'
      BY <1>0, <2>1, <2>2, <3>1 DEF Halfway
    <3> QED
      BY <1>b, <2>1, <2>2, <2>4, <3>2, OthersAreOutside DEF GoesOn, OneEnginePerSource
  <2> QED
    BY <1>2, <2>3, <2>4 DEF ExistsAnswers
<1>3. CASE Queued(w)
  <2>1. Turn(w) /\ Leave(w)
    BY <1>3 DEF Queued, Turn, Inside, At
  <2>2. UNCHANGED <<engines, loops, feed>> /\ Running' = Running
    BY <1>3 DEF Queued, registries, Running
  <2> QED
    BY <1>a, <1>b, <2>1, <2>2, OthersAreOutside DEF Leave, OneEnginePerSource
<1>3a. CASE StartFails(w)
  <2>1. Turn(w) /\ Leave(w)
    BY <1>3a DEF StartFails, Turn, Inside, At
  <2>2. feed' = feed \cup {p.source} /\ UNCHANGED <<engines, loops>> /\ Running' = Running
    BY <1>3a DEF StartFails, Running
  <2> QED
    BY <1>a, <1>b, <2>1, <2>2, OthersAreOutside DEF Leave, OneEnginePerSource
<1>4. CASE Started(w)
  <2> DEFINE next == [task[w] EXCEPT !.at = "adopt"]
  <2>1. Turn(w) /\ t.at = "known"
    BY <1>4 DEF Started, Turn, Inside, At
  <2>2. p \in Pair /\ p.source \notin Sources(Running)
    BY <1>0, <2>1, Carries DEF Halfway
  <2>3. /\ feed' = feed \cup {p.source} /\ engines' = Append(engines, p)
        /\ loops' = loops /\ GoesOn(w, next)
    BY <1>4 DEF Started
  <2>4. /\ OneEnginePerSource' /\ p \in Running'
        /\ Sources(Running') = Sources(Running) \cup {p.source}
    BY <1>b, <2>2, <2>3, EngineAdded DEF DataTypes
  <2>5. task'[w].at = "adopt" /\ task'[w].pair = p
    BY <1>0, <1>c, <2>3 DEF Call
  <2> HIDE DEF next
  <2>6. Halfway(task[w])'
    BY <2>4, <2>5 DEF Halfway
  <2> QED
    BY <1>b, <2>1, <2>3, <2>4, <2>6, OthersAreOutside DEF GoesOn
<1>5. CASE Adopted(w)
  <2>1. Turn(w) /\ t.at = "adopt" /\ Leave(w)
    BY <1>5 DEF Adopted, Turn, Inside, At
  <2>2. p.source \in Sources(Running)
    BY <1>0, <2>1 DEF Halfway, Sources
  <2>3. loops' = loops \cup {p.source} /\ UNCHANGED <<engines, feed>>
    BY <1>5 DEF Adopted
  <2>4. Running' = Running
    BY <2>3 DEF Running
  <2> QED
    BY <1>a, <1>b, <2>1, <2>2, <2>3, <2>4, OthersAreOutside DEF Leave, OneEnginePerSource
<1>6. CASE RemoveEnters(w)
  <2>1. Turn(w)
    BY <1>6 DEF RemoveEnters, Turn
  <2>2. UNCHANGED <<engines, feed>> /\ Running' = Running
    BY <1>6 DEF RemoveEnters, Running
  <2>3. CASE Leave(w) /\ loops' = loops
    BY <1>a, <1>b, <2>1, <2>2, <2>3, OthersAreOutside DEF Leave, OneEnginePerSource
  <2>4. ASSUME NEW e \in Found(task[w].market), loops' = loops \ {e.source},
               GoesOn(w, [task[w] EXCEPT !.at = "stopping", !.pair = e])
        PROVE  EnginesInv'
    <3> DEFINE next == [task[w] EXCEPT !.at = "stopping", !.pair = e]
    <3>1. e \in Running
      BY FoundRuns DEF DataTypes
    <3>2. /\ task'[w].at = "stopping" /\ task'[w].pair = e
          /\ GoesOn(w, next)
      BY <1>0, <1>c, <2>4 DEF Call
    <3> HIDE DEF next
    <3>3. Halfway(task[w])'
      BY <2>2, <2>4, <3>1, <3>2 DEF Halfway
    <3> QED
      BY <1>b, <2>1, <2>2, <2>4, <3>2, <3>3, OthersAreOutside
         DEF GoesOn, OneEnginePerSource
  <2> QED
    BY <1>6, <2>3, <2>4 DEF RemoveEnters
<1>7. CASE Stopped(w)
  <2> DEFINE next == [task[w] EXCEPT !.at = "unsubscribing"]
  <2>1. Turn(w) /\ t.at = "stopping"
    BY <1>7 DEF Stopped, Turn, Inside, At
  <2>2. p \in Running /\ p.source \notin loops
    BY <1>0, <2>1 DEF Halfway
  <2>3. /\ engines' = WithoutEngine(p) /\ loops' = loops /\ feed' = feed
        /\ GoesOn(w, next)
    BY <1>7 DEF Stopped
  <2>4. OneEnginePerSource' /\ Sources(Running') = Sources(Running) \ {p.source}
    BY <1>b, <2>2, <2>3, EngineTaken DEF DataTypes
  <2>5. task'[w].at = "unsubscribing" /\ task'[w].pair = p
    BY <1>0, <1>c, <2>3 DEF Call
  <2> HIDE DEF next
  <2>6. Halfway(task[w])'
    BY <2>4, <2>5 DEF Halfway
  <2> QED
    BY <1>b, <2>1, <2>2, <2>3, <2>4, <2>6, OthersAreOutside DEF GoesOn
<1>8. CASE Removed(w)
  <2>1. Turn(w) /\ t.at = "unsubscribing" /\ Leave(w)
    BY <1>8 DEF Removed, Turn, Inside, At
  <2>2. p.source \notin Sources(Running)
    BY <1>0, <2>1 DEF Halfway
  <2>3. feed' = feed \ {p.source} /\ UNCHANGED <<engines, loops>>
    BY <1>8 DEF Removed, Unsubscribed
  <2>4. Running' = Running
    BY <2>3 DEF Running
  <2> QED
    BY <1>a, <1>b, <2>1, <2>2, <2>3, <2>4, OthersAreOutside DEF Leave, OneEnginePerSource
<1> QED
  BY <1>1, <1>2, <1>3, <1>3a, <1>4, <1>5, <1>6, <1>7, <1>8 DEF Proceed

\* Whoever asks for the lock has been resting, and is outside.
LEMMA AskingIsOutside ==
  ASSUME LockInv, NEW w \in Worker, NEW next, next.at \in {"add", "remove"},
         Asks(w, next)
  PROVE  \A v \in Worker :
           \/ task'[v] = task[v]
           \/ task'[v].at \in {"idle", "add", "remove"}
<1>1. task'[w] = next /\ \A v \in Worker \ {w} : task'[v] = task[v]
  BY TaskAfter DEF Asks
<1> QED
  BY <1>1

LEMMA AnewKeepsEngines ==
  ASSUME StartsAnew
  PROVE  EnginesInv'
<1>1. /\ engines' = << >> /\ loops' = {} /\ feed' = {}
      /\ \A w \in Worker : task'[w].at = "idle"
  BY DEF StartsAnew, Resting
<1>2. Running' = {} /\ Sources(Running') = {}
  BY <1>1 DEF Running, ToSet, Sources
<1> QED
  BY <1>1, <1>2 DEF EnginesInv, OneEnginePerSource, Halfway

LEMMA EnginesStep ==
  ASSUME DataTypes, LockInv, EnginesInv, [Next]_vars
  PROVE  EnginesInv'
<1>1. CASE ServiceChanges \/ RetryBegins \/ UNCHANGED vars
  BY <1>1, EnginesUntouched DEF ServiceChanges, RetryBegins, vars, registries
<1>2. ASSUME NEW m \in Symbol, EnableEvent(m)
      PROVE  EnginesInv'
  <2>1. AddCall(Own(m), TRUE).at = "add"
    BY OwnIsPair, AddCallIsWellFormed
  <2>2. Kafka \in Worker /\ Asks(Kafka, AddCall(Own(m), TRUE))
    BY <1>2 DEF EnableEvent, Worker
  <2> DEFINE next == AddCall(Own(m), TRUE)
  <2>a. next.at \in {"add", "remove"} /\ Asks(Kafka, next)
    BY <2>1, <2>2
  <2> HIDE DEF next
  <2>3. \A v \in Worker :
          task'[v] = task[v] \/ task'[v].at \in {"idle", "add", "remove"}
    BY <2>2, <2>a, AskingIsOutside
  <2> QED
    BY <1>2, <2>3, EnginesUntouched DEF EnableEvent, registries
<1>3. ASSUME NEW m \in Symbol, DelistEvent(m)
      PROVE  EnginesInv'
  BY <1>3, RemoveCallIsWellFormed, AskingIsOutside, EnginesUntouched
     DEF DelistEvent, registries, Worker
<1>4. CASE Bootstrap
  <2>0. PICK usable \in SUBSET known :
          task' = [w \in Worker |->
                    IF w \in BootPairs(usable) THEN AddCall(w, FALSE) ELSE task[w]]
    BY <1>4 DEF Bootstrap
  <2> DEFINE B == BootPairs(usable)
  <2>1. B \subseteq Pair
    BY DEF BootPairs, Own, Pair, DataTypes
  <2>2. \A v \in B : AddCall(v, FALSE).at = "add"
    BY <2>1, AddCallIsWellFormed
  <2>3. \A v \in Worker :
          task'[v] = IF v \in B THEN AddCall(v, FALSE) ELSE task[v]
    BY <2>0
  <2> HIDE DEF B
  <2> QED
    BY <1>4, <2>2, <2>3, EnginesUntouched DEF Bootstrap, registries
<1>5. CASE RetryNext
  <2>1. PICK p \in snapshot :
               IF StillQueued(p)
                 THEN Asks(Retry, AddCall(p, TRUE))
                 ELSE UNCHANGED <<task, waiting, holder>>
    BY <1>5 DEF RetryNext
  <2>2. AddCall(p, TRUE).at = "add"
    BY AddCallIsWellFormed DEF DataTypes
  <2>3. UNCHANGED <<engines, loops, feed>>
    BY <1>5 DEF RetryNext, registries
  <2>4. CASE Asks(Retry, AddCall(p, TRUE))
    <3> DEFINE next == AddCall(p, TRUE)
    <3>a. Retry \in Worker /\ next.at \in {"add", "remove"} /\ Asks(Retry, next)
      BY <2>2, <2>4 DEF Worker
    <3> HIDE DEF next
    <3>1. \A v \in Worker :
            task'[v] = task[v] \/ task'[v].at \in {"idle", "add", "remove"}
      BY <3>a, AskingIsOutside
    <3> QED
      BY <2>3, <3>1, EnginesUntouched
  <2>5. CASE UNCHANGED task
    BY <2>3, <2>5, EnginesUntouched
  <2> QED
    BY <2>1, <2>4, <2>5
<1>6. CASE Crash
  BY <1>6, AnewKeepsEngines DEF Crash
<1> QED
  BY <1>1, <1>2, <1>3, <1>4, <1>5, <1>6, ProceedKeepsEngines DEF Next

\* The steps of a shutdown leave the engines and their books alone.
LEMMA EndingKeepsEngines ==
  ASSUME LockInv, EnginesInv, ConsumerCancelled \/ TasksCancelled
  PROVE  EnginesInv'
<1>1. CASE ConsumerCancelled
  <2>1. task' = task \/ task' = [task EXCEPT ![Kafka] = Resting]
    BY <1>1 DEF ConsumerCancelled, CancelledInQueue, CancelledInside, Leave, Swallowed
  <2>2. \A v \in Worker :
          task'[v] = task[v] \/ task'[v].at \in {"idle", "add", "remove"}
    BY <2>1 DEF LockInv, Resting
  <2> QED
    BY <1>1, <2>2, EnginesUntouched DEF ConsumerCancelled, registries
<1>2. CASE TasksCancelled
  <2>1. \A v \in Worker : task'[v].at = "idle"
    BY <1>2 DEF TasksCancelled, Resting
  <2>2. loops' = {} /\ UNCHANGED <<engines, feed>>
    BY <1>2 DEF TasksCancelled, StillPassing
  <2> QED
    BY <2>1, <2>2, EnginesUntouched
<1> QED
  BY <1>1, <1>2

LEMMA EnginesKept ==
  ASSUME ProcessInv, EnginesInv, [ProcessNext]_all
  PROVE  EnginesInv'
  BY ManagerStep, EnginesStep, AnewKeepsEngines, EndingKeepsEngines DEF ProcessInv

LEMMA EnginesAtStart == ProcessInit => EnginesInv
  BY RegistriesAtStart, RegistriesAreSound DEF ProcessInit

\* Also when a cancelled add_pair or remove_pair is left half done, no source has
\* two engines, every engine has a book to read and every loop an engine
\* (add_pair, remove_pair, MarketLifecycleConsumer.stop, the end of run).
THEOREM EnginesStaySoundCorrect == ProcessSpec => []EnginesStaySound
<1>1. EnginesInv => EnginesStaySound
  BY DEF EnginesInv, OneEnginePerSource, EnginesStaySound
<1> QED
  BY <1>1, ProcessInvAtStart, ProcessInvStep, EnginesAtStart, EnginesKept, PTL
     DEF ProcessSpec

LEMMA EndingKeepsGone ==
  ASSUME LockInv, GoneInv, ConsumerCancelled \/ TasksCancelled
  PROVE  GoneInv'
<1>0. config \cup loaded \cup Running \cup pending \cup snapshot \subseteq Genuine
  BY DEF GoneInv, OriginInv
<1>1. /\ UNCHANGED <<config, engines, pending, gone, loaded>>
      /\ snapshot' \subseteq snapshot
  BY DEF ConsumerCancelled, TasksCancelled, registries
<1>2. \A v \in Worker : task'[v] = task[v] \/ task'[v].at = "idle"
  <2>1. Resting.at = "idle"
    BY DEF Resting
  <2>2. CASE ConsumerCancelled
    <3>1. task' = task \/ task' = [task EXCEPT ![Kafka] = Resting]
      BY <2>2 DEF ConsumerCancelled, CancelledInQueue, CancelledInside, Leave, Swallowed
    <3> QED
      BY <2>1, <3>1 DEF LockInv
  <2>3. CASE TasksCancelled
    BY <2>1, <2>3 DEF TasksCancelled
  <2> QED
    BY <2>2, <2>3
<1>3. Retry \in Worker
  BY DEF Worker
<1> QED
  BY <1>0, <1>1, <1>2, <1>3, GoneOutside

\* A market that has been delisted stays away also when the consumer is cancelled
\* half-way through remove_pair, or a shutdown and a restart come in between
\* (remove_pair, retry_pending, MarketLifecycleConsumer.stop, run).
THEOREM DelistedStaysGoneInProcess == ProcessSpec => []DelistedStaysGone
<1>1. ProcessInit => GoneInv
  BY GoneAtStart DEF ProcessInit
<1>2. ProcessInv /\ EnginesInv /\ GoneInv /\ [ProcessNext]_all => GoneInv'
  BY ManagerStep, GoneStep, AnewKeepsGone, EndingKeepsGone DEF ProcessInv
<1> QED
  BY <1>1, <1>2, GoneIsGone, ProcessInvAtStart, ProcessInvStep, EnginesAtStart,
     EnginesKept, PTL DEF ProcessSpec

\* What is queued for a retry does not run, in whatever order events, retries, the
\* bootstrap, cancellations and restarts come (retry_pending, add_pair, run).
THEOREM QueueStaysSound == ProcessSpec => []PendingNotRunning
<1>1. ProcessInit => PendingNotRunning
  BY DEF ProcessInit, Init, PendingNotRunning, Sources
<1>2. ASSUME ProcessInv, EnginesInv, PendingNotRunning, [ProcessNext]_all
      PROVE  PendingNotRunning'
  <2>1. CASE [Next]_vars
    BY <1>2, <2>1, QueueStep DEF ProcessInv
  <2>2. CASE StartsAnew
    BY <2>2 DEF StartsAnew, PendingNotRunning, Sources
  <2>3. CASE ConsumerCancelled \/ TasksCancelled
    BY <1>2, <2>3
       DEF ConsumerCancelled, TasksCancelled, registries, PendingNotRunning, Running
  <2> QED
    BY <1>2, <2>1, <2>2, <2>3, ManagerStep DEF ProcessInv
<1> QED
  BY <1>1, <1>2, ProcessInvAtStart, ProcessInvStep, EnginesAtStart, EnginesKept, PTL
     DEF ProcessSpec

=============================================================================
