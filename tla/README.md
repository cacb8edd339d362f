# cex-mirror in TLA+

cex-mirror copies Binance order books to the exchange my_cex: one asyncio process, one
engine per market, an order service reached over REST. This directory holds TLA+
modules of that program, TLC configurations that check them on small instances, and
TLAPS proofs. `PROJECT.json` lists components, runs, mutants, the lines every
definition stands for, findings, hazards and theorems.

    tlc -config MCMirrorEngine_crash.cfg MCMirrorEngine
    tlapm MirrorEngineProofs.tla

and `tlapm` likewise for `PairManagerProofs`, `ProcessProofs`, `MyCexClientProofs`,
`BinanceFeedProofs`, `LevelFilterProofs`, `TradeTapeProofs` and `DataLemmas`.

## 1. The system

| component | state | operations | talks to |
|---|---|---|---|
| `MirrorEngine` (mirror_engine.py) | its tracker, throttle timestamp | `adopt_open_orders`, `reconcile`, `cancel_all`, `on_public_trade` | reads the book of `BinanceFeed`, awaits `MyCexClient` |
| `OrderTracker` (order_tracker.py) | side -> price -> order | `get`, `add`, `remove`, copies of its orders | owned by an engine |
| quantization (quantize.py) | none | `prepare_levels`, `prepare_market_amount` | called by an engine |
| `MyCexClient` (mycex_client.py) | one semaphore for all pairs | `place_order`, `cancel_order`, `open_orders`, `exchange_info`, `symbol_known`, all through `_request` | the order service |
| `BinanceFeed` (binance_feed.py) | books, diff buffers, connections | `add_symbol`, `remove_symbol`, `symbol_exists_on_binance`, snapshot, diffs, trades | Binance; calls `trade_callback` inline |
| `PairManager` (pair_manager.py) | engines, by source too, loops, retry queue, one lock | `add_pair`, `remove_pair`, `retry_pending`, `handle_market_event` | feed, client, engines, config.yaml |
| `MarketLifecycleConsumer` (kafka_consumer.py) | position in the topic | `_consume_loop`, `_dispatch`, `stop` | Kafka; awaits `handle_market_event` |
| process (`__main__.py`) | stop event, tasks | bootstrap, retry loop, reconcile loops, shutdown | all of them |
| configuration (config.py) | config.yaml | load, append a pair, remove a pair, pair constructors | file |
| status (status.py) | none | a line of text | reads engines |

Everything runs on one event loop: code between two `await`s is atomic, everything else
interleaves. What is hard is what happens at the awaits: requests of one engine that are
lost, repeated, late or cancelled while the tracker is updated before or after them;
books, fills and delistings that change meanwhile; snapshots that arrive before, among or
after the diffs they belong to; crashes, after which only my_cex's open orders, config.yaml
and the committed offset are left; a shutdown that cancels coroutines wherever they are;
registries of `PairManager` that several coroutines change, each holding the lock but not
the queue entry they looked at; permits and locks that must come back on every path.

What makes each component correct:

* engine: no order of ours that nobody looks at; one order per level; the tracker tells
  the truth; a steady book is reached and then costs nothing; clearing clears.
* quantization: what it returns is within the trading rules, and the loop with its break
  and continues is the filter one means.
* client: the promise its callers rely on, no permit lost, every call returns.
* pair manager: the registries agree, a market has one engine, delisted stays delisted,
  enabled becomes mirrored, config.yaml resumes it.
* feed: a ready book is one Binance had, never goes back, and catches up.
* market orders: the right side and amount, no more of them than the throttle allows.
* consumer and process: an event is not forgotten, or the next bootstrap makes it good; a
  shutdown ends and leaves no order.

## 2. Modules

    Quantize --------> LevelFilter            pure operators / the loop of prepare_levels
       |
       +-------------> TradeTape              market orders of one pair, over OrderPort
                          |
    OrderPort -------> MirrorEngine           promise of the client / one engine
        |                   ^
    AnsweredPort            | proves          the promise with what callers are told
        ^              MirrorEngineProofs
        | implements
    MyCexClient                               semaphore, retries, back-off
    SourceBook <------ BinanceFeed            promise of a ready book / one connection
    PairManager -----> Process                all pairs / consumer, start and shutdown

The proofs about a component stand in a module of their own: `MirrorEngineProofs`,
`MyCexClientProofs`, `PairManagerProofs`, `ProcessProofs` (which builds on the former),
`BinanceFeedProofs`, `LevelFilterProofs`, `TradeTapeProofs`. They share `DataLemmas`: queues
without repetition; division, rounding and the trading rules; induction over the numbers
and the function that a loop computes.

`MC*` modules hold the instances, `MC*_<run>.cfg` the constants of a run.

**OrderPort** is what a caller of `place_order` and `cancel_order` may rely on. A call is
up to `MaxRetries` attempts; the service (external, modelled from how the client uses it)
may carry out an attempt whose answer is lost, and even one that was given up (`late`).
`Faults` lists what may go wrong in a behaviour, so a property can be stated for the
faults it survives. **AnsweredPort** adds `told`, what each caller's last call came back
with (an id, None, True, False, or an exception), under the condition OrderPort has for
that answer: an id only of an order this call created, None and False without a loss only
if nothing was carried out, True only if the order is gone.

**MirrorEngine** is a pair's coroutine from one await to the next (or shorter). `phase`
says where it is: `fetching` and `adopting` (`adopt_open_orders`), `idle` (asleep between
passes), `pulling` (the cancel loop of `_reconcile_side`), `placing` (its place loop),
`clearing` (`cancel_all`), `off`. `tracker` is the `OrderTracker`, a set of orders with at
most one per slot; `book` what `prepare_levels` makes of the source book, `target` what the
pass has read. `PullStale`, `AdoptOrder`, `PlaceReturns`, `CancelReturns` and `ClearOrder`
differ, as in the code, in whether the tracker changes before or after the request.
`Interrupt` is `Task.cancel()` at an await (by `remove_pair` or shutdown), `RequestRaises`
an unexpected exception, `Crash` a kill -9. The orders of a set are looked at in any order,
where the code uses the insertion order of a dictionary or the service's order.

**MyCexClient** is `_request`: a caller is queued for a permit, sent, resting (asleep with
the permit after a 5xx or 429) or waiting (asleep without it after a network error). The
permits are an asyncio semaphore, first come first served. `Results` and `Failed` are what
`place_order` and `cancel_order` make of a body, of a body without an order id and of
`MyCexError`. A caller may cancel an order that has traded or was deleted before
(`Cancellable`): the answer "not found" counts as success. An exception other than
`MyCexError` leaves a call as its cancellation does.

**PairManager** has the Kafka consumer, the retry loop and one bootstrap task per pair as
workers. A worker with the lock stops at each await of `add_pair` (`exists`, `known`,
`adopt`) and `remove_pair` (`stopping`, `unsubscribing`). A free lock that nobody waits for
is taken without an await: `AtAnAwait` keeps the retry loop from looking at the queue in
between. `Crash` leaves only config.yaml. `Own` is the pair that an event or an exchange-info
entry yields, if it yields one: an unusable event changes nothing, and an entry without
tick or step (fault `unusable`) gets no bootstrap task. `StartFails` is the `MirrorEngine`
constructor that raises, for a hand-written pair whose tick is no number (`Malformed`),
after `add_symbol`: its book stays subscribed, and a replay of the queue ends there. `gone`
remembers the markets whose `remove_pair` is through and which no event and no bootstrap
has added since.

**Process** extends PairManager by what is around it: the platform writes `topic`, and
my_cex begins to trade a market after it was announced and ceases at any time
(`ServiceDelists`), the end being announced after that, or before (fault `early`); the
consumer polls it in batches (`polled`), dispatches message by message (`handled`) and
commits at any time (`committed`); `stage` says how far `run` has come. A signal sets `stop`;
then the consumer's task is cancelled (in the lock's queue, in a request, or inside
`remove_pair`, which swallows the cancellation), then loops and retries, and `cancel_all`
goes through what the trackers hold. `quoted` are the pairs with tracked orders, `passing`
those whose reconcile loop was inside a pass when the signal came, `left` the markets with
orders of a process that is gone. `Dies` and `Restart` start a new process from config.yaml
and the committed offset.

**BinanceFeed** is one symbol: every symbol has a connection of its own, because the feed is
started without symbols. Binance is a sequence of updates, each of which makes one level
appear or vanish; a diff is a range of updates, and is received some time after it was sent
(`wire`). `fetches` are the `_bootstrap_snapshot` tasks, which nobody waits for or cancels.
`busy` is the receive loop awaiting the trade callback. **SourceBook** is what engines may
rely on: a ready book is the book after some update, and updates only go forward.

**TradeTape** is `on_public_trade` over OrderPort (a market order is created and gone at
once): `began` is the time read before the await, `last` the throttle. An attempt that the
client gives up (`Strays`) is executed later (`ExecutesLate`), when the callback may have
returned and others have run; `origin` remembers the trade it is for. That the callback
returns is not a property of this module: it awaits one call of the client, which returns
by `EveryCallReturns`.

**Quantize** counts decimals in a smallest unit; a tick is digits times a power of ten,
because `Decimal.quantize` looks at the exponent only. `MirrorableLevels` is what passes of
the first n levels of a side, as a recursive function. **LevelFilter** runs the loop of
`prepare_levels`.

## 3. What the runs show

Passing runs:

| run | shows |
|---|---|
| engine_crash | `NoOrphans`, `OneQuotePerLevel` with rejections, fills and crashes at any step, adopting at start |
| engine_live | `NoPhantoms`, `Converges`, `Settles`, `ClearedMarketIsEmpty` when requests may be rejected and a removal clears the market |
| engine_all | what holds under every fault: `TrackerNamesItsOrders`, `PassLeavesOnlyTargets` |
| levels | `ReturnsPreparedLevels`, `WithinTheRules` |
| client_port | `ImplementsPort` (refinement of AnsweredPort: what callers are told is true), `NoPermitLost` |
| client_live | `EveryCallReturns` |
| pairs_all | `RegistriesAgree`, `PendingNotRunning` |
| lifecycle | `ShutdownClears`, `EnginesStaySound`, `DelistedStaysGone`, `ShutdownEnds`, `EveryCallEnds`, `EnabledIsMirrored`, `DelistedIsStopped`, over any number of crashes, failed and graceful stops |
| feed | `ImplementsSourceBook` (refinement), `UpdatedLevelsAreRight`, `CatchesUp` |
| tape | `TwoTradesPerGap`, `MirrorsTheTrade` with answers lost, callbacks interrupted and one attempt executed late |

Runs that end in a counterexample, each against a sentence of the documentation or of a
comment (quoted in `findings`):

| run | what the trace shows |
|---|---|
| fill | a filled quote stays in the tracker, its level stays empty |
| interrupt | delisting cancels the loop inside `place_order`; `cancel_all` does not know the order |

Other disagreements met while modelling. They are not runs of the project; each is seen by
changing an instance as said, and the code is at the line given.

| change | fails | why |
|---|---|---|
| engine_crash, fault `lost` added | `NoOrphans` | a POST carried out without an answer is retried or given up (mycex_client.py:93); order_tracker.py:4 "We remember exactly what we placed" |
| engine_crash, fault `refuse` added | `NoOrphans` | `_cancel` forgets the order before the request (mirror_engine.py:157) |
| engine_crash, fault `blind` added | `NoOrphans` | `open_orders` answers [] when it fails (mycex_client.py:190); README.md:74-75 "never leaves orphaned orders" |
| engine_crash, `Late = {k1}` | `NoOrphans` | a POST is carried out after a restart has adopted |
| engine_live, `Targets <- BooksColliding` | `Settles` | two source levels with one quantized price: the first is placed, the last compared, so each pass cancels and places (mirror_engine.py:128,141); TUNING.md:22-24 |
| levels, `Rules <- FiveTicks` | `OnTheTick` | `Decimal.quantize` ignores the digits of a tick such as 0.05 (quantize.py:19); quantize.py:4 "ROUND_DOWN to price_precision tick" |
| pairs_all | `OneEnginePerMarket` | `add_pair` looks for the source, not the market (pair_manager.py:156); its docstring "Idempotent per market symbol" |
| pairs_all | `OnlyTheDelistedStops` | `_find_engine` matches the source too (pair_manager.py:314); README.md:139 "Every other running pair is left untouched" |
| engine_all, `Faults = {}`, `Late = {}`, `LeftBehind <- TwoBids` | `AdoptsAll` | on a collision `_cancel` of the second order drops the first from the tracker (mirror_engine.py:85); its comment "cancel the extra" |
| engine_crash | `NeverCrosses` | bids are placed before the stale asks are cancelled (mirror_engine.py:124); the crossing is gone at the end of the pass (`PassLeavesOnlyTargets`) |
| pairs_all, `HandWritten` and `Malformed` `<- NoPairs`, `Faults = {}` | `DelistedIsNotRetried` | a retry waits for the lock behind the delisting of its market and queues or starts it again (pair_manager.py:243); its comment "should stop being retried when it's delisted/disabled" |
| pairs_all | `DelistedIsNotRetried` | the queue is keyed by source, `remove_pair` pops the market (pair_manager.py:265) |
| lifecycle, `Faults = {"service"}` | `NothingDiscoveredIsWritten` | a retry persists what the bootstrap had queued (pair_manager.py:245); README.md:92 |
| lifecycle, `RecoveringSpec`, fault `binance` | `EnabledIsMirrored` | any failure of the check on Binance means "not listed" (binance_feed.py:104), and the pair is not queued |
| lifecycle, no faults | `TradedIsMirrored` | the bootstrap asks once; a market that my_cex trades, or trades again, only after it, and whose event an earlier process has committed, handled or not (kafka_consumer.py:97,158), is never added |
| lifecycle, fault `early` | `DelistedIsStopped` | the end is announced while my_cex still trades the market: a bootstrap or a retry that asks after the event adds it, and no further event comes |
| lifecycle | `NeverTradedIsMirrored` | with `auto_offset_reset: latest` and no offset yet, an end announced after the bootstrap and before the first position is not heard of; it holds with `OffsetReset = "earliest"`. `__main__.py`:226-229 calls the consumer load-bearing for exactly this |
| lifecycle, fault `odd` | `DelistedIsStopped` | a message that is no object drops the rest of its batch (kafka_consumer.py:126); line 92-93 "already contained in _dispatch" |
| lifecycle | `ExitLeavesNothing` | the broker is away, `run` raises, and the orders of the bootstrap stay (`__main__.py`:239); README.md:73; it holds with `Faults = {}` |
| lifecycle, fault `raise` | `ShutdownClears` | `gather` without `return_exceptions` (`__main__.py`:264) |
| lifecycle | `DelistedIsCleared` | orders of a process that died rest on a market that was delisted meanwhile, which nobody adds and so nobody adopts |
| feed | `SnapshotRetried` | nobody fetches a failed snapshot again (binance_feed.py:224); its log "will retry on next diff" |
| feed | `NeverGoesBack` | a snapshot outlives its connection and overwrites the book of the next one (binance_feed.py:227) |
| tape, `Faults = {"reject"}`, `Late = {}` | `AtMostOnePerGap` | the throttle starts where the callback began, the order is executed later (mirror_engine.py:188); mirror_engine.py:11-12, README.md:29-31 |
| tape | `OneOrderPerTrade` | a retried POST or a lost answer (mycex_client.py:93); it holds with `Faults = {"reject"}`, `Late = {}` |

The claims stand, each with its comment, at the end of the `MC*` modules.

Bounds, and why they are enough. *Engine*: one caller, since an engine awaits one request
at a time, and the others reach it only through the service; two or three source books of
at most two levels, chosen so that an amount drifts within the tolerance (10 against 11)
and past it (2 against 4), and a level appears, vanishes, moves through the opposite side,
collides with another on the tick; one or two orders left by an earlier process;
`MaxRetries` 2 as configured. Three to five order ids: an id may be used again once nothing
refers to it, so ids bound what exists at one time and not the length of a behaviour.
`Late` bounds the attempts under way at one time to one. *Client*: two callers for one
permit, the smallest that queue, and two order ids, so that an order that is gone and a new
one, or the two orders of a repeated POST, are told apart. *Pairs*: two markets, one or both
known, and two hand-written pairs for one book: one that quotes B from the book of A, one
whose tick is no number; the two workers beside the bootstrap are all there are. *Process*:
one market and two events, enough for an event to be lost, repeated after a restart or to
overtake a retry; with three events the run exceeds its time. The faults `odd`, `early`,
`raise`, `binance` and `service` are left out of it because the table shows what they break.
*Feed*: three updates of two levels, two snapshots under way, one trade on the wire; the
fault set is chosen at the start of a behaviour, so that each property says which faults it
survives. *Tape*: an interval of two, time for three intervals, four orders, one attempt
under way, trades that are within, above and below the rules. *Levels*: up to three levels,
prices and amounts below, on and above a tick or half a step, caps on and off the step,
minimum notionals that only some levels reach. The source book of the engine runs is
computed by `PrepareLevels`, which run levels ties to the loop.

The order of my_cex and the topic is an assumption about the platform, which is not in this
repository: a market is traded after it is announced, and its end is announced after it
ceased to be traded, however long after. `DelistedIsStopped` needs the second half.

`DelistedStaysGone` is about markets that no hand-written pair quotes from another book
(`Plain`), because `remove_pair` looks for source and market alike, and leaves out the retry
that waits for the lock while its market is delisted. Both exceptions are needed:
`DelistedIsNotRetried`, the comment without them, fails twice in the table. It is checked
by lifecycle, with crashes and shutdowns, and proved for PairManager and for Process.

`NoOrphans` is claimed only where no request is lost, refused, late or interrupted: the
table above and run interrupt show one by one that none of these faults can be added to
engine_crash.

Fairness. *Engine*: a pass goes on and the next begins (`refresh_interval` elapses),
requests end (the client has a timeout), and the service does not reject one level for
ever (strong fairness of `ServiceActs`; without it `Converges` would ask the impossible).
*Client*: coroutines that can go on do, attempts end after `request_timeout`. *Process*: every
step of a critical section, of the consumer, of the bootstrap and of the shutdown is taken in
the end; strong fairness of the retry loop, the dispatch and the two cancellations of the shutdown because
`AtAnAwait` is false for at most one step of someone else at a time, and the event loop then
runs whoever is ready. Passes, commits, signals, crashes and the platform owe nothing.
`EnabledIsMirrored` and `DelistedIsStopped` are about a process that stays up in the end.
*Feed*: Binance sends and answers, the connection is tried again, the receive loop reads on,
the callback returns, which `EveryCallReturns` of the client justifies; nothing makes a
connection drop or a symbol come or go.

## 4. What is proved

Each theorem holds for all values of the constants that satisfy the module's named
assumptions. These say of which kind a constant is (TLC evaluates them on every run); they
bound no number or size, except that `Pair` is finite in `ManagerAssumption`, that there is
at least one permit and one attempt, and that `Gap <= MaxTime` in `TapeAssumption`. Where
the last column says "every fault", the property itself may name the faults it is about, as
`UpdatedLevelsAreRight` and `ImplementsSourceBook` do.

| module | theorems (`Spec => ...`) | under |
|---|---|---|
| `MirrorEngineProofs` | `TypeOK`, `PassLeavesOnlyTargets`, `TrackerNamesItsOrders` | every fault |
| | `NoOrphans`, `OneQuotePerLevel` | `Lossless` |
| | `NoPhantoms` | `Undisturbed` |
| `MyCexClientProofs` | `TypeOK`, `NoPermitLost`, `ImplementsPort` | every fault |
| `PairManagerProofs` | `TypeOK`, `RegistriesAgree`, `PendingNotRunning`, `DelistedStaysGone` | every fault |
| `ProcessProofs` | `ProcessTypeOK`, `EnginesStaySound`, `NothingNewAtTheEnd`, `PendingNotRunning`, `DelistedStaysGone` | every fault |
| | `ShutdownClears` | `"raise" \notin Faults` |
| `BinanceFeedProofs` | `TypeOK`, `UpdatedLevelsAreRight`, `ImplementsSourceBook` | every fault |
| `LevelFilterProofs` | `TypeOK`, `WithinTheRules`, `ReturnsPreparedLevels` | |
| `TradeTapeProofs` | `TypeOK`, `TwoTradesPerGap`, `MirrorsTheTrade` | every fault |

**Engine.** `Lossless` rules out exactly the faults section 3 shows to be fatal to
`NoOrphans` (lost, refused, late and interrupted requests, unexpected exceptions, failed
adoption, adoption off or with collisions). Rejections, fills, moving books and crashes
stay. `NoOrphans` says nothing of which request is in flight, so it cannot tell that the
order about to be created has no twin. `QuoteInv` adds `Request` (what is in flight in each
phase, and that a place request is for an empty slot), `Adoption` (tracker and fetched
orders share no slot), `Known` (order by order, what rests is tracked, fetched or in
flight) and that live orders have ids. `PassInv` says that from the end of the cancel loop
on a side has only orders and levels of the book the pass has read; `FirstSideInv` carries
that over the pass of the second side, during which no order of the first is placed: at the
end of a pass the two sides come from one source book, however far it has moved. `NameInv`,
for the names, says that an id names one order, that what adoption looks at and what a
request has made are that order, and so survives every fault. `Undisturbed` excludes only
fills, interrupted requests and late attempts, each of which makes a phantom; `RestInv`
adds to `NoPhantoms` that no tracked or fetched order has the id of a cancel in flight,
except the one `cancel_all` is about, and that what a place request has made rests.

**Client.** `SemInv`: free permits and holders add up to the semaphore's size, the queue
holds every queued caller once and nobody else. `CallInv`: no more orders than attempts
were made for a request, a caller that is told an id is told of one it made, and the order
of a cancel that is gone does not come back (`NoneReturns`). With these, every step of the
client, a back-off, a retry, a cancelled caller, a late attempt, is a step of AnsweredPort
or stutters. Each answer is proved to meet the condition AnsweredPort has for it: `told`
changes exactly when a call ends, and to what `place_order` or `cancel_order` returns.
AnsweredPort adds only `told` to OrderPort, so what is proved of the engine over OrderPort
is about this client.

**Pair manager.** `LockInv`: whoever is past the first await of a critical section holds
the lock, no two do, the queue is without repetition and whoever waits in it has a call.
`RegInv`: engines, their map by source and the loops agree, except for the pair the holder
is about (`HalfThere` while it is added, `HalfGone` while it is removed). That exception is
why `RegistriesAgree` alone is not inductive: what a step ends with depends on how far the
holder had come. `BooksFor` allows for the books that `StartFails` leaves. `GoneInv`, for
`DelistedStaysGone`, says of a plain market that is gone that nothing at hand can bring it
back (`Absent`): no engine, queue or file entry, no worker in the middle of adding it and no
retry that waits with it; that a removal which is half done has it out of the queue and,
later, of the engines (`Leaving`); and that every pair in use is hand-written or a market's
own (`Genuine`), so that a plain market has one. A retry with a stale copy then finds the
source no longer queued (`ReplayedIsQueued`).

**Process.** Its steps are those of the pair manager and those around it, so the proof
takes `LockInv` and the types from PairManagerProofs and adds `TopicInv` (the consumer's
positions), `OrdersInv` (passes belong to loops, tracked orders to engines) and `StageInv`:
once `cancel_all` has begun, every worker and every loop is at rest (`AtRest`). From
`AtRest` follows the action property `NothingNewAtTheEnd`, that no tracker gains an order
then, under every fault. `ShutdownClears` needs `Cleared` in addition (while the shutdown
clears, what is tracked is what is still to be cleared) and that no `cancel_all` raises: with
`raise` it is false (section 3), and `NothingNewAtTheEnd` is what remains of it.
`RegistriesAgree` does not survive the shutdown, which cancels the consumer between two
updates of `add_pair` or `remove_pair`. `EnginesInv` says what does: `EnginesStaySound`, and
for each worker how far the registries are with its pair (`Halfway`). It follows from the
`RegInv` of the pair manager alone, is kept by each step of a critical section, and by its
being cut off. `GoneInv` asks no more of the engines than that, so it survives too.

**Feed.** `FeedInv` follows every update from Binance to the book. `WireGoesOn`: the diffs on
the wire are in order and hold what Binance has sent and the connection has not delivered
(`Got`); `BufferGoesOn`: the buffer holds all that was delivered since the connection came
up; `OneSnapshot`: without `overlap` a snapshot belongs to the connection that is up;
`IdsExist`: no id is ahead of Binance. Hence whatever the snapshot was, the buffered diffs
that are not older go on without a gap from the start of the connection, and
`UpdatedLevelsAreRight`; if the snapshot is not older than the connection either, the whole
book is right (`WholeBook`), and each step is one of SourceBook. How many diffs the buffer
has is not bounded: `CaughtUpIsRight` is an induction over it.

**Levels and tape.** `LoopInv` says that the loop has, of the levels it has seen, those
that pass. `FilteringGoesOn`, by induction over the book side, says that these are a
beginning of those that pass in the end, and `CutOff` that the first so many of them are
the beginning of that length: where the loop breaks early it returns what `PrepareLevels`
does. What is returned is related, entry by entry, to a level of the source book, by the
rounding bounds of `DataLemmas`: a price rounded down is less than one unit below, an
amount rounded half up at most half a step away, and a price that is rounded already is a
fixed point. On the tape, orders are executed one after the other (`Sequential`), each
after its callback began (`Placed`), so of three in a row the first two callbacks are a
throttle interval apart and the third order is later still, executed in time or late;
`Mirrors` carries side and amount from the trade through retries, and through `origin` to
the attempts that were given up.

**Induction.** The induction theorems of the library take an operator as a parameter, which
the installed provers cannot instantiate. `AllNumbers` states induction for a *set* of
numbers instead, from the well-foundedness of `<`, and `RecursionOver` says that a function
that is defined step by step over `0 .. n` exists and obeys its definition. Feed and levels
use both.

Only model-checked: all liveness properties (`Converges`, `Settles`, `ClearedMarketIsEmpty`,
`EveryCallReturns`, `ShutdownEnds`, `EveryCallEnds`, `EnabledIsMirrored`, `DelistedIsStopped`,
`CatchesUp`), because fairness and ENABLED are out of the prover's reach. Every
invariant and every refinement of a passing run is also a theorem.

## 5. Not modelled

* A trade's market order against our own quotes: TradeTape and MirrorEngine share the
  order service, but a market order that hits the engine's own limit orders is only the
  fault `fill` of the engine.
* Two engines that share a service in one model: engines interact only through permits
  (MyCexClient) and, on one market, when `OneEnginePerMarket` fails.
* Partial fills: a fill takes the order away, which is what the tracker cannot see; it
  never compares amounts with the market.
* Time: intervals, timeouts and back-off are steps that may be taken.
* The contents of config.yaml beyond source and market of each pair: `min_notional`, which
  `append_pair_to_yaml` does not write (config.py:316), and a crash while the file is
  rewritten in place (config.py:332), which would leave it cut. `Written` and `Erased`
  change it at once.
* Values that are no numbers where my_cex or the platform sends them: `Decimal` raises in
  `pair_from_market_event`, which ends the handling of that event (kafka_consumer.py), and
  in `pair_from_exchange_info`, which ends the task of the bootstrap (config.py:244).
* Parsing and validation of configuration, events and answers, HTTP details, logging,
  the status line, command line and deployment files.

## 6. What could come next

1. `QuoteSlots`: the abstract promise of an engine (per slot: empty, asked for, resting),
   implemented by MirrorEngine when `Lossless`.
2. An abstract registry (a pair is added or removed in one step) implemented by PairManager,
   which would carry `RegistriesAgree` to whoever reads it between two critical sections.
3. `quoted` of Process as an abstraction of the tracker of MirrorEngine, proved.
4. `Process` with two markets, which needs a smaller model of the critical sections.
