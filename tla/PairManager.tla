----------------------------- MODULE PairManager -----------------------------
(***************************************************************************)
(* PairManager with the coroutines that call it: the Kafka consumer (one   *)
(* event at a time), the pending-retry loop and the add_pair tasks of the  *)
(* bootstrap.  They interleave at every await; one asyncio.Lock, first     *)
(* come first served, serialises add_pair and remove_pair.                 *)
(*                                                                         *)
(* A market is its no-separator symbol.  A pair quotes the market mycex    *)
(* from the book of source; only a hand-written pair of config.yaml may    *)
(* have the two differ.  Fault kinds:                                      *)
(*   "service"  symbol_known raises MyCexError                             *)
(*   "binance"  the check of the source symbol fails and answers False     *)
(*   "unusable" exchange-info lists a market without tick or step          *)
(*   "crash"    the process dies and is started again                      *)
(***************************************************************************)
EXTENDS Naturals, FiniteSets, Sequences, SequencesExt

CONSTANTS
  Symbol,       \* markets, on my_cex and on Binance
  Listed,       \* those Binance lists
  HandWritten,  \* the pairs of config.yaml before anything ran
  Malformed,    \* those of them whose tick or step is no number
  Faults,       \* the fault kinds that may occur
  Kafka, Retry, \* the consumer and the pending-retry loop
  NoOne, NoMarket, NoPair

Pair == [source: Symbol, mycex: Symbol]

\* pair_from_market_event and pair_from_exchange_info, when they find what they
\* need; an event they find unusable changes nothing.
Own(m) == [source |-> m, mycex |-> m]

ASSUME ManagerAssumption ==
  /\ Listed \subseteq Symbol
  /\ HandWritten \subseteq Pair /\ Malformed \subseteq HandWritten
  /\ \A p, q \in HandWritten : p.mycex = q.mycex => p = q
  /\ Kafka \notin Pair /\ Retry \notin Pair /\ Kafka # Retry
  /\ NoOne \notin Pair \cup {Kafka, Retry}
  /\ IsFiniteSet(Pair)

\* The bootstrap runs one add_pair task per pair.
Worker == {Kafka, Retry} \cup Pair

VARIABLES
  known,     \* the markets exchange-info reports as TRADING
  config,    \* the pairs of config.yaml
  loaded,    \* cfg.pairs: config.yaml as this process has read it
  booted,    \* the bootstrap has had its exchange-info
  engines,   \* _engines; _engines_by_symbol is the same, by source
  loops,     \* _task_by_symbol: the sources whose reconcile loop runs
  feed,      \* the sources with a book in BinanceFeed
  pending,   \* _pending, a pair per source
  holder,    \* who holds _lock
  waiting,   \* who waits for it
  task,      \* where each worker is
  snapshot,  \* retry_pending: the pairs it has still to replay
  gone       \* history: markets delisted, with no retry waiting for the lock,
             \*   and since then added by no event and by no bootstrap

registries == <<engines, loops, feed>>
vars == <<known, config, loaded, booted, registries, pending, holder, waiting,
          task, snapshot, gone>>

Resting == [at |-> "idle", pair |-> NoPair, market |-> NoMarket, persist |-> FALSE]

At == {"idle", "add", "exists", "known", "adopt",
       "remove", "stopping", "unsubscribing"}

\* ... past the first await of its critical section.
Inside == At \ {"idle", "add", "remove"}

TypeOK ==
  /\ known \subseteq Symbol /\ gone \subseteq Symbol
  /\ config \subseteq Pair /\ loaded \subseteq Pair /\ booted \in BOOLEAN
  /\ engines \in Seq(Pair) /\ loops \subseteq Symbol /\ feed \subseteq Symbol
  /\ pending \subseteq Pair /\ snapshot \subseteq Pair
  /\ holder \in Worker \cup {NoOne}
  /\ waiting \in Seq(Worker) /\ IsInjective(waiting)
  /\ \A w \in Worker : task[w].at \in Inside => holder = w
  /\ task \in [Worker -> [at: At, pair: Pair \cup {NoPair},
                          market: Symbol \cup {NoMarket}, persist: BOOLEAN]]

Init ==
  /\ known \in SUBSET Symbol
  /\ config = HandWritten /\ loaded = HandWritten /\ booted = FALSE
  /\ engines = << >> /\ loops = {} /\ feed = {}
  /\ pending = {} /\ snapshot = {}
  /\ holder = NoOne /\ waiting = << >>
  /\ task = [w \in Worker |-> Resting]
  /\ gone = {}

Sources(pairs) == {p.source : p \in pairs}
Markets(pairs) == {p.mycex : p \in pairs}
Running == ToSet(engines)

\* _pending is keyed by the source.
WithoutKey(s) == {p \in pending : p.source # s}

-----------------------------------------------------------------------------
(* The calls.                                                              *)

\* The platform registers a market or takes it out of trading.
ServiceChanges ==
  /\ \E m \in Symbol : known' = (known \ {m}) \cup ({m} \ known)
  /\ UNCHANGED <<config, loaded, booted, registries, pending, holder, waiting,
                 task, snapshot, gone>>

AddCall(p, keep) ==
  [at |-> "add", pair |-> p, market |-> NoMarket, persist |-> keep]
RemoveCall(m) ==
  [at |-> "remove", pair |-> NoPair, market |-> m, persist |-> FALSE]

\* async with _lock: a free lock that nobody waits for is taken at once.
Asks(w, next) ==
  /\ task' = [task EXCEPT ![w] = next]
  /\ IF holder = NoOne /\ waiting = << >>
       THEN holder' = w /\ UNCHANGED waiting
       ELSE waiting' = Append(waiting, w) /\ UNCHANGED holder

\* handle_market_event: state enabled.
EnableEvent(m) ==
  /\ task[Kafka] = Resting
  /\ Asks(Kafka, AddCall(Own(m), TRUE))
  /\ UNCHANGED <<known, config, loaded, booted, registries, pending, snapshot, gone>>

\* handle_market_event: market.delisted, or state disabled.
DelistEvent(m) ==
  /\ task[Kafka] = Resting
  /\ Asks(Kafka, RemoveCall(m))
  /\ UNCHANGED <<known, config, loaded, booted, registries, pending, snapshot, gone>>

\* _bootstrap_pairs: a hand-tuned entry wins over a market's own rules.
BootPairs(listed) ==
  loaded \cup {Own(m) : m \in listed \ Markets(loaded)}

\* _bootstrap_loop, once exchange_info has answered.
Bootstrap ==
  /\ ~booted
  /\ booted' = TRUE
  /\ \E usable \in SUBSET known :
       /\ usable = known \/ "unusable" \in Faults
       /\ \E order \in SetToSeqs(BootPairs(usable)) : waiting' = waiting \o order
       /\ task' = [w \in Worker |->
                     IF w \in BootPairs(usable) THEN AddCall(w, FALSE) ELSE task[w]]
  /\ UNCHANGED <<known, config, loaded, registries, pending, holder, snapshot, gone>>

\* A call that has taken a free lock runs on to its first await: nobody looks
\* at the queue in between.
AtAnAwait ==
  \A w \in Worker : holder = w => task[w].at \notin {"add", "remove"}

\* retry_pending copies the queue ...
RetryBegins ==
  /\ AtAnAwait
  /\ task[Retry] = Resting /\ snapshot = {} /\ pending # {}
  /\ snapshot' = pending
  /\ UNCHANGED <<known, config, loaded, booted, registries, pending, holder,
                 waiting, task, gone>>

\* Mutant: the copy is replayed without a look at the queue.
Replayed(p) == TRUE

StillQueued(p) == p.source \in Sources(pending)

\* ... and replays what is still in it, before it waits for the lock.
RetryNext ==
  /\ AtAnAwait
  /\ task[Retry] = Resting
  /\ \E p \in snapshot :
       /\ snapshot' = snapshot \ {p}
       /\ IF StillQueued(p)
            THEN Asks(Retry, AddCall(p, TRUE))
            ELSE UNCHANGED <<task, waiting, holder>>
  /\ UNCHANGED <<known, config, loaded, booted, registries, pending, gone>>

-----------------------------------------------------------------------------
(* The lock.                                                               *)

\* w has taken the lock, or was the first to wait when it was given back.
Enters(w) ==
  \/ holder = w /\ UNCHANGED waiting
  \/ /\ holder = NoOne /\ waiting # << >> /\ Head(waiting) = w
     /\ waiting' = Tail(waiting)

\* Mutant: the lock is given back at the first await.
GoesOnUnlocked(w, next) ==
  /\ holder' = NoOne
  /\ task' = [task EXCEPT ![w] = next]

\* The critical section goes on at the next await.
GoesOn(w, next) ==
  /\ holder' = w
  /\ task' = [task EXCEPT ![w] = next]

\* Mutant: an early return before the lock is given back.
LeaveWithLock(w) ==
  /\ holder' = w
  /\ task' = [task EXCEPT ![w] = Resting]

\* The call returns, and with it goes the lock.
Leave(w) ==
  /\ holder' = NoOne
  /\ task' = [task EXCEPT ![w] = Resting]

-----------------------------------------------------------------------------
(* add_pair.                                                               *)

\* Mutant: no look at the engines once the lock is held.
NeverMirrored(p) == FALSE

Mirrored(p) == p.source \in Sources(Running)

AddEnters(w) ==
  /\ task[w].at = "add" /\ Enters(w)
  /\ IF Mirrored(task[w].pair)
       THEN Leave(w)
       ELSE GoesOn(w, [task[w] EXCEPT !.at = "exists"])
  /\ gone' = IF w = Retry THEN gone ELSE gone \ {task[w].pair.mycex}
  /\ UNCHANGED <<known, config, loaded, booted, registries, pending, snapshot>>

\* symbol_exists_on_binance answers.
ExistsAnswers(w) ==
  /\ task[w].at = "exists"
  /\ \/ /\ task[w].pair.source \in Listed
        /\ GoesOn(w, [task[w] EXCEPT !.at = "known"])
     \/ /\ task[w].pair.source \notin Listed \/ "binance" \in Faults
        /\ Leave(w)
  /\ UNCHANGED <<known, config, loaded, booted, registries, pending, waiting,
                 snapshot, gone>>

\* Mutant: the pair is only logged as unknown.
OnlyLogged(p) == pending

Enqueued(p) == WithoutKey(p.source) \cup {p}

\* Mutant: what the market's state is on my_cex is not asked.
TakenForKnown(p) == TRUE

KnownToService(p) == p.mycex \in known

\* symbol_known says no, or raises: queued.
Queued(w) ==
  /\ task[w].at = "known"
  /\ ~KnownToService(task[w].pair) \/ "service" \in Faults
  /\ pending' = Enqueued(task[w].pair)
  /\ Leave(w)
  /\ UNCHANGED <<known, config, loaded, booted, registries, waiting, snapshot, gone>>

\* Mutant: the started pair stays in the retry queue.
KeepPending(p) == pending

Dequeued(p) == WithoutKey(p.source)

\* symbol_known says yes, but the engine cannot be made: the exception ends the
\* call, and with it the replay of a retry; the book is there already.
StartFails(w) ==
  LET p == task[w].pair
  IN  /\ task[w].at = "known"
      /\ KnownToService(p) /\ p \in Malformed
      /\ pending' = Dequeued(p)
      /\ feed' = feed \cup {p.source}
      /\ snapshot' = IF w = Retry THEN {} ELSE snapshot
      /\ Leave(w)
      /\ UNCHANGED <<known, config, loaded, booted, engines, loops, waiting, gone>>

\* symbol_known says yes: the book and the engine are there before
\* adopt_open_orders is awaited.
Started(w) ==
  LET p == task[w].pair
  IN  /\ task[w].at = "known"
      /\ KnownToService(p) /\ p \notin Malformed
      /\ pending' = Dequeued(p)
      /\ feed' = feed \cup {p.source}
      /\ engines' = Append(engines, p)
      /\ GoesOn(w, [task[w] EXCEPT !.at = "adopt"])
      /\ UNCHANGED <<known, config, loaded, booted, loops, waiting, snapshot, gone>>

\* append_pair_to_yaml
Written(p) == IF p.mycex \in Markets(config) THEN config ELSE config \cup {p}

\* The loop starts; the pair is written outside the lock, but without an
\* await in between.
Adopted(w) ==
  LET p == task[w].pair
  IN  /\ task[w].at = "adopt"
      /\ loops' = loops \cup {p.source}
      /\ config' = IF task[w].persist THEN Written(p) ELSE config
      /\ Leave(w)
      /\ UNCHANGED <<known, loaded, booted, engines, feed, pending, waiting,
                     snapshot, gone>>

-----------------------------------------------------------------------------
(* remove_pair.                                                            *)

Matching(m) == {i \in DOMAIN engines : m \in {engines[i].source, engines[i].mycex}}

\* _find_engine: the first engine the symbol matches on either side, if any.
Found(m) ==
  {engines[i] : i \in {i \in Matching(m) : \A j \in Matching(m) : i <= j}}

\* remove_pair_from_yaml
Erased(m) == {p \in config : p.mycex # m}

\* The delisting of m is through.
Delisted(m) ==
  IF task[Retry].at = "add" /\ task[Retry].pair.mycex = m THEN gone ELSE gone \cup {m}

RemoveEnters(w) ==
  LET m == task[w].market
  IN  /\ task[w].at = "remove" /\ Enters(w)
      /\ pending' = WithoutKey(m)
      /\ \/ /\ Matching(m) = {}
            /\ Leave(w)
            /\ config' = Erased(m)
            /\ gone' = Delisted(m)
            /\ UNCHANGED loops
         \/ \E e \in Found(m) :
              /\ GoesOn(w, [task[w] EXCEPT !.at = "stopping", !.pair = e])
              /\ loops' = loops \ {e.source}
              /\ UNCHANGED <<config, gone>>
      /\ UNCHANGED <<known, loaded, booted, engines, feed, snapshot>>

WithoutEngine(e) ==
  IF e \in Running
    THEN RemoveAt(engines, CHOOSE i \in DOMAIN engines : engines[i] = e)
    ELSE engines

\* The loop's task has ended and cancel_all is through, or has raised.
Stopped(w) ==
  /\ task[w].at = "stopping"
  /\ engines' = WithoutEngine(task[w].pair)
  /\ GoesOn(w, [task[w] EXCEPT !.at = "unsubscribing"])
  /\ UNCHANGED <<known, config, loaded, booted, loops, feed, pending, waiting,
                 snapshot, gone>>

\* Mutant: remove_symbol leaves the book.
BookLeft(s) == feed

Unsubscribed(s) == feed \ {s}

\* feed.remove_symbol has ended the connection and drops the book.
Removed(w) ==
  LET m == task[w].market
  IN  /\ task[w].at = "unsubscribing"
      /\ feed' = Unsubscribed(task[w].pair.source)
      /\ config' = Erased(m)
      /\ gone' = Delisted(m)
      /\ Leave(w)
      /\ UNCHANGED <<known, loaded, booted, engines, loops, pending, waiting,
                     snapshot>>

-----------------------------------------------------------------------------
\* The process is started anew: only config.yaml outlives it.
StartsAnew ==
  /\ loaded' = config /\ booted' = FALSE
  /\ engines' = << >> /\ loops' = {} /\ feed' = {}
  /\ pending' = {} /\ snapshot' = {}
  /\ holder' = NoOne /\ waiting' = << >>
  /\ task' = [w \in Worker |-> Resting]
  /\ UNCHANGED <<known, config, gone>>

Crash == "crash" \in Faults /\ StartsAnew

Proceed(w) ==
  \/ AddEnters(w) \/ ExistsAnswers(w) \/ Queued(w)
  \/ StartFails(w) \/ Started(w) \/ Adopted(w)
  \/ RemoveEnters(w) \/ Stopped(w) \/ Removed(w)

Next ==
  \/ ServiceChanges
  \/ \E m \in Symbol : EnableEvent(m) \/ DelistEvent(m)
  \/ Bootstrap \/ RetryBegins \/ RetryNext
  \/ \E w \in Worker : Proceed(w)
  \/ Crash

Spec == Init /\ [][Next]_vars

-----------------------------------------------------------------------------
(* Safety.                                                                 *)

\* No source has two engines, an engine always has a book to read (format_status
\* and reconcile raise KeyError without one) and no loop outlives its engine; and
\* between two critical sections there is nothing else: no engine without a loop,
\* and no book that nobody reads but that of a pair whose engine cannot be made.
RegistriesAgree ==
  /\ \A i, j \in DOMAIN engines : engines[i].source = engines[j].source => i = j
  /\ loops \subseteq Sources(Running) /\ Sources(Running) \subseteq feed
  /\ holder = NoOne => /\ loops = Sources(Running)
                       /\ feed \subseteq Sources(Running \cup Malformed)

\* A pair that runs is not in the retry queue, nor two pairs for one source.
PendingNotRunning ==
  /\ Sources(pending) \cap Sources(Running) = {}
  /\ \A p, q \in pending : p.source = q.source => p = q

\* A market that config.yaml does not quote from another book, nor another from
\* its book
Plain(m) == \A p \in HandWritten : m \in {p.source, p.mycex} => p = Own(m)

\* ... is, once it has been delisted, neither quoted nor queued nor resumed by a
\* restart until an event or the bootstrap adds it again, whatever copy of the
\* queue a retry has in hand; only a retry that waits for the lock already gets
\* past the delisting.
DelistedStaysGone ==
  \A m \in gone :
    Plain(m) => m \notin Markets(Running \cup pending \cup config)
=============================================================================
