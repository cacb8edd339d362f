------------------------------- MODULE Process -------------------------------
(***************************************************************************)
(* The process around PairManager: the platform that puts events on the    *)
(* market-lifecycle topic, the consumer that polls them in batches, run    *)
(* from its start to the end of a shutdown, and starts after that.  Of an  *)
(* engine's orders the module knows whether there are any.                 *)
(*                                                                         *)
(* Fault kinds beside those of PairManager:                                *)
(*   "odd"     a message is valid JSON but not an object                   *)
(*   "early"   the end of a market is announced while my_cex trades it     *)
(*   "broker"  consumer.start raises, run ends and is started again        *)
(*   "raise"   cancel_all of one engine raises in the shutdown             *)
(***************************************************************************)
EXTENDS PairManager

CONSTANTS
  MaxEvents,    \* bound: the length of the topic
  OffsetReset,  \* auto_offset_reset
  NoOffset      \* the group has committed nothing yet

ASSUME ProcessAssumption ==
  /\ MaxEvents \in Nat
  /\ OffsetReset \in {"latest", "earliest"}
  /\ NoOffset \notin Nat

VARIABLES
  topic,      \* market-lifecycle, one partition
  enabled,    \* the markets the platform has enabled
  polled,     \* the consumer's position: what getmany has returned
  handled,    \* what _dispatch has been called for, or never will be
  committed,  \* the group's offset
  stage,      \* how far run has come
  stop,       \* the stop event of run
  passing,    \* the sources whose loop was in a pass when stop was set, and still is
  quoted,     \* the pairs with orders in their tracker
  clearing,   \* the pairs whose cancel_all is not through in the shutdown
  left,       \* the markets with orders of a process that is gone
  heard,      \* history: the markets this process has been told of
  skipped     \* history: the markets whose end it was not told of, for the topic
              \*   held it when the group had no offset yet

consumer == <<polled, handled, committed>>
orders == <<passing, quoted, clearing, left>>
told == <<heard, skipped>>
all == <<vars, topic, enabled, consumer, stage, stop, orders, told>>

Event == [kind: {"enabled", "disabled"}, market: Symbol]
           \cup [kind: {"other", "odd"}, market: {NoMarket}]

ProcessTypeOK ==
  /\ TypeOK
  /\ topic \in Seq(Event) /\ Len(topic) <= MaxEvents
  /\ enabled \subseteq Symbol
  /\ polled \in 0 .. Len(topic)
  /\ handled \in 0 .. polled
  /\ committed \in {NoOffset} \cup 0 .. Len(topic)
  /\ stage \in {"starting", "serving", "stopping", "clearing", "exited"}
  /\ stop \in BOOLEAN
  /\ stage \in {"stopping", "clearing", "exited"} => stop
  /\ passing \subseteq loops
  /\ clearing \subseteq quoted /\ quoted \subseteq Running
  /\ left \subseteq Symbol /\ heard \subseteq Symbol /\ skipped \subseteq Symbol

ProcessInit ==
  /\ Init
  /\ topic = << >> /\ enabled = known
  /\ polled = 0 /\ handled = 0 /\ committed = NoOffset
  /\ stage = "starting" /\ stop = FALSE
  /\ passing = {} /\ quoted = {} /\ clearing = {} /\ left = {}
  /\ heard = {} /\ skipped = {}

-----------------------------------------------------------------------------
(* The platform: the order service trades a market after it was announced, *)
(* and may stop at any time; the end is announced after that.              *)

platformOnly ==
  UNCHANGED <<config, loaded, booted, registries, pending, holder, waiting, task,
              snapshot, gone, consumer, stage, stop, orders, told>>

Announces(event) ==
  /\ Len(topic) < MaxEvents
  /\ topic' = Append(topic, event)
  /\ platformOnly

PlatformEnables(m) ==
  /\ Announces([kind |-> "enabled", market |-> m])
  /\ enabled' = enabled \cup {m}
  /\ UNCHANGED known

ServiceRegisters(m) ==
  /\ m \in enabled \ known
  /\ known' = known \cup {m}
  /\ platformOnly /\ UNCHANGED <<topic, enabled>>

ServiceDelists(m) ==
  /\ m \in known
  /\ known' = known \ {m}
  /\ platformOnly /\ UNCHANGED <<topic, enabled>>

PlatformDisables(m) ==
  /\ m \notin known \/ "early" \in Faults
  /\ Announces([kind |-> "disabled", market |-> m])
  /\ enabled' = enabled \ {m}
  /\ UNCHANGED known

PlatformChatters ==
  /\ \E kind \in {"other"} \cup (Faults \cap {"odd"}) :
       Announces([kind |-> kind, market |-> NoMarket])
  /\ UNCHANGED <<enabled, known>>

-----------------------------------------------------------------------------
(* MarketLifecycleConsumer.                                                *)

\* It goes on where the group has been; without an offset, after what is there.
StartOffset ==
  IF committed # NoOffset THEN committed
  ELSE IF OffsetReset = "latest" THEN Len(topic) ELSE 0

ConsumerStarts ==
  /\ stage = "starting" /\ stage' = "serving"
  /\ polled' = StartOffset /\ handled' = StartOffset
  /\ skipped' = IF committed # NoOffset THEN {}
                ELSE {topic[i].market : i \in {j \in 1 .. StartOffset :
                                               topic[j].kind = "disabled"}}
  /\ UNCHANGED <<vars, topic, enabled, committed, stop, orders, heard>>

\* getmany, once the batch before is done with.
Polls ==
  /\ stage = "serving" /\ task[Kafka] = Resting /\ handled = polled
  /\ polled' \in polled + 1 .. Len(topic)
  /\ UNCHANGED <<vars, topic, enabled, handled, committed, stage, stop, orders, told>>

\* enable_auto_commit, at any time.
AutoCommits ==
  /\ stage \in {"serving", "stopping"}
  /\ committed # polled /\ committed' = polled
  /\ UNCHANGED <<vars, topic, enabled, polled, handled, stage, stop, orders, told>>

\* Mutant: a disabled market is left alone, as one with an unknown state.
Unrecognised(event) ==
  CASE event.kind = "enabled" -> EnableEvent(event.market)
    [] OTHER -> UNCHANGED vars

\* _dispatch and handle_market_event.
Acts(event) ==
  CASE event.kind = "enabled"  -> EnableEvent(event.market)
    [] event.kind = "disabled" -> DelistEvent(event.market)
    [] OTHER -> UNCHANGED vars

\* The next message of the batch.  One that is no object makes event.get raise
\* before the try of _dispatch: _consume_loop goes on with the next batch.
Dispatches ==
  LET event == topic[handled + 1]
  IN  /\ stage = "serving" /\ task[Kafka] = Resting /\ AtAnAwait
      /\ handled < polled
      /\ Acts(event)
      /\ handled' = IF event.kind = "odd" THEN polled ELSE handled + 1
      /\ heard' = IF event.kind = "enabled" THEN heard \cup {event.market} ELSE heard
      /\ UNCHANGED <<topic, enabled, polled, committed, stage, stop, orders, skipped>>

-----------------------------------------------------------------------------
(* The coroutines while the process serves.                                *)

\* An exchange_info under way when stop is set is still made use of.
Boots ==
  /\ stage \in {"starting", "serving", "stopping"}
  /\ Bootstrap
  /\ heard' = heard \cup known \cup Markets(loaded)
  /\ UNCHANGED <<topic, enabled, consumer, stage, stop, orders, skipped>>

\* _pending_retry_loop looks at stop before a retry, retry_pending does not.
Retries ==
  /\ stage \in {"serving", "stopping"}
  /\ (RetryBegins /\ stage = "serving" /\ ~stop) \/ RetryNext
  /\ UNCHANGED <<topic, enabled, consumer, stage, stop, orders, told>>

\* A step of add_pair or remove_pair.  The loop of a removed pair has no pass
\* any more, cancel_all takes its orders away; adoption finds those of an
\* earlier process.
Manages(w) ==
  LET found == IF task[w].at = "adopt" THEN left \cap {task[w].pair.mycex} ELSE {}
  IN  /\ Proceed(w)
      /\ passing' = passing \cap loops'
      /\ quoted' = (IF found = {} THEN quoted ELSE quoted \cup {task[w].pair})
                     \cap ToSet(engines')
      /\ left' = left \ found
      /\ UNCHANGED <<topic, enabled, consumer, stage, stop, clearing, told>>

\* _reconcile_loop looks at stop before a pass: after it only the passes that
\* had begun go on.
InAPass == IF stop THEN passing ELSE loops

Quotes(p) ==
  /\ p.source \in InAPass
  /\ quoted' = quoted \cup {p}
  /\ UNCHANGED <<vars, topic, enabled, consumer, stage, stop, passing, clearing, left, told>>

PassEnds(s) ==
  /\ s \in passing
  /\ passing' = passing \ {s}
  /\ UNCHANGED <<vars, topic, enabled, consumer, stage, stop, quoted, clearing, left, told>>

-----------------------------------------------------------------------------
(* The end of run.                                                         *)

Signal ==
  /\ stage \in {"starting", "serving"} /\ ~stop
  /\ stop' = TRUE
  /\ passing' \in SUBSET loops
  /\ UNCHANGED <<vars, topic, enabled, consumer, stage, quoted, clearing, left, told>>

\* asyncio.Lock.acquire: a cancelled waiter leaves the queue of the lock.
WithoutWaiter(w) ==
  IF w \in ToSet(waiting)
    THEN RemoveAt(waiting, CHOOSE i \in DOMAIN waiting : waiting[i] = w)
    ELSE waiting

\* The consumer's task is cancelled while it waits for the lock ...
CancelledInQueue ==
  /\ task[Kafka].at \in {"add", "remove"} /\ holder # Kafka
  /\ waiting' = WithoutWaiter(Kafka)
  /\ task' = [task EXCEPT ![Kafka] = Resting]
  /\ UNCHANGED holder

\* ... or in a request, of cancel_all among others: the lock is given back.
CancelledInside ==
  /\ task[Kafka].at \in {"exists", "known", "adopt", "stopping"}
  /\ Leave(Kafka)
  /\ UNCHANGED waiting

\* ... or while remove_pair or remove_symbol awaits a task it has cancelled
\* itself, and takes the CancelledError for that task's.
Swallowed ==
  /\ task[Kafka].at \in {"idle", "stopping", "unsubscribing"}
  /\ UNCHANGED <<task, holder, waiting>>

\* consumer.stop: a cancelled consumer takes no further message.
ConsumerCancelled ==
  /\ stage = "serving" /\ stop /\ AtAnAwait
  /\ CancelledInQueue \/ CancelledInside \/ Swallowed
  /\ stage' = "stopping"
  /\ UNCHANGED <<known, config, loaded, booted, registries, pending, snapshot, gone,
                 topic, enabled, consumer, stop, orders, told>>

\* Mutant: the loops of dynamically added pairs are not cancelled.
AllPassing == passing

StillPassing == {}

\* It has ended and its position is committed; retry loop, bootstrap and
\* reconcile loops are cancelled, each at an await that lets the CancelledError
\* through.  What cancel_all will go through is what the trackers hold now.
TasksCancelled ==
  /\ stage = "stopping" /\ task[Kafka] = Resting /\ AtAnAwait
  /\ stage' = "clearing"
  /\ committed' = polled
  /\ task' = [w \in Worker |-> Resting] /\ holder' = NoOne /\ waiting' = << >>
  /\ snapshot' = {}
  /\ loops' = StillPassing /\ passing' = StillPassing
  /\ clearing' = quoted
  /\ UNCHANGED <<known, config, loaded, booted, engines, feed, pending, gone,
                 topic, enabled, polled, handled, stop, quoted, left, told>>

\* Mutant: who is through is not told.
StillClearing(p) == clearing

Through(p) == clearing \ {p}

\* cancel_all of one engine; they run concurrently.
Clears(p) ==
  /\ p \in clearing
  /\ clearing' = Through(p) /\ quoted' = quoted \ {p}
  /\ UNCHANGED <<vars, topic, enabled, consumer, stage, stop, passing, left, told>>

Exits ==
  /\ stage = "clearing" /\ stage' = "exited"
  /\ clearing = {} \/ "raise" \in Faults
  /\ clearing' = {}
  /\ UNCHANGED <<vars, topic, enabled, consumer, stop, passing, quoted, left, told>>

\* The next process reads config.yaml, and has no position in the topic yet.
Restarted ==
  /\ StartsAnew
  /\ stage' = "starting" /\ stop' = FALSE
  /\ polled' = 0 /\ handled' = 0
  /\ passing' = {} /\ quoted' = {} /\ clearing' = {}
  /\ left' = left \cup Markets(quoted)
  /\ heard' = {} /\ skipped' = {}
  /\ UNCHANGED <<topic, enabled, committed>>

Restart == stage = "exited" /\ Restarted

\* kill -9
Dies == "crash" \in Faults /\ Restarted

\* run raises, and nothing is cancelled on my_cex.
ConsumerFails == "broker" \in Faults /\ stage = "starting" /\ Restarted

-----------------------------------------------------------------------------
ProcessNext ==
  \/ \E m \in Symbol : \/ PlatformEnables(m) \/ ServiceRegisters(m)
                       \/ ServiceDelists(m) \/ PlatformDisables(m)
  \/ PlatformChatters
  \/ ConsumerStarts \/ Polls \/ AutoCommits \/ Dispatches
  \/ Boots \/ Retries
  \/ \E w \in Worker : Manages(w)
  \/ \E s \in Symbol : PassEnds(s)
  \/ \E p \in Running : Quotes(p) \/ Clears(p)
  \/ Signal \/ ConsumerCancelled \/ TasksCancelled \/ Exits
  \/ Restart \/ Dies \/ ConsumerFails

ProcessSpec == ProcessInit /\ [][ProcessNext]_all

\* Every request ends within its timeout, the loops of __main__ keep running,
\* and run goes on when what it awaits is there.  Strong where AtAnAwait is
\* asked for: it is false for no longer than one step of another coroutine,
\* and the event loop then runs whoever is ready.
ProcessFairness ==
  /\ WF_all(Boots) /\ SF_all(Retries)
  /\ \A w \in Worker : WF_all(Manages(w))
  /\ WF_all(ConsumerStarts) /\ WF_all(Polls) /\ SF_all(Dispatches)
  /\ SF_all(ConsumerCancelled \/ TasksCancelled)
  /\ \A p \in Pair : WF_all(Clears(p))
  /\ WF_all(Exits)

FairProcess == ProcessSpec /\ ProcessFairness

-----------------------------------------------------------------------------
\* When the shutdown is over, no engine knows of an order of its own: none is
\* placed, and none adopted, after cancel_all has looked, although add_pair and
\* remove_pair may have been anywhere when the signal came.
ShutdownClears == stage = "exited" => quoted = {}

\* Although a cancelled add_pair or remove_pair leaves its work half done, no
\* source has two engines, and who walks through them until the end (reconcile,
\* format_status, remove_pair) finds a book for each and none for a loop alone.
EnginesStaySound ==
  /\ \A i, j \in DOMAIN engines : engines[i].source = engines[j].source => i = j
  /\ loops \subseteq Sources(Running) /\ Sources(Running) \subseteq feed

\* The shutdown ends, whoever holds the lock, waits for it or swallows the
\* cancellation: a process does not stay in one for ever.
ShutdownEnds == []<>(stop => stage = "exited")

\* Every event, retry and bootstrap task is through with the lock in the end.
EveryCallEnds == \A w \in Worker : []<>(task[w] = Resting)

\* A process that stays up
Up == stage \in {"starting", "serving"} /\ ~stop

IsMirrored(m) == \E p \in Running : p.mycex = m /\ p.source \in loops

\* ... mirrors in the end, with a running loop and every order of its
\* predecessors adopted, what it has been told of by an event, config.yaml or
\* its first exchange-info, once my_cex trades it: although it may have been
\* queued first, and whatever old events it is told again.
EnabledIsMirrored ==
  \A m \in Listed :
    <>[](Up /\ m \in known \cap heard) => <>[](IsMirrored(m) /\ m \notin left)

\* ... and ceases to mirror what my_cex no longer trades and has said so, even if
\* its predecessor was stopped or died before the event was handled.
DelistedIsStopped ==
  \A m \in Symbol :
    <>[](Up /\ m \notin known \cup enabled \cup skipped) => <>[](m \notin Markets(Running))
=============================================================================
