----------------------------- MODULE BinanceFeed -----------------------------
(***************************************************************************)
(* BinanceFeed for one symbol: its connection, the diffs and trades that   *)
(* arrive on it, the snapshot that makes the book ready, reconnection,     *)
(* add_symbol, remove_symbol and stop.  Every symbol has a connection of   *)
(* its own (the feed starts empty, PairManager adds each pair).            *)
(*                                                                         *)
(* What may go wrong is chosen once for a behaviour:                       *)
(*   "drop"     the connection ends                                        *)
(*   "overlap"  ... or the symbol is removed while a snapshot is under way *)
(*   "fail"     the snapshot request fails                                 *)
(*   "lag"      the snapshot is older than the connection                  *)
(*   "refused"  the answer carries no book (an error body)                 *)
(***************************************************************************)
EXTENDS Naturals, Sequences, FiniteSets

CONSTANTS
  Price,
  MaxUpdates,   \* bound: updates of the Binance book
  Fetch,        \* bound: the snapshot requests under way at one time
  FaultModels,  \* the sets of faults a behaviour may have
  NoBook, NotReady

VARIABLES
  faults,   \* what may go wrong in this behaviour
  hist,     \* Binance: the level each update has changed
  book,     \* _books[symbol], with its last_update_id and its ready flag
  buffer,   \* _diff_buffers[symbol]
  conn,     \* the connection's task: "off", "down", "up", "ending" or "stopped"
  since,    \* the last update before this connection
  sent,     \* the last update Binance has sent a diff for on it
  wire,     \* the messages that have not been received yet
  busy,     \* the receive loop awaits the trade callback
  fetches   \* the snapshot requests under way

stream == <<conn, since, sent, wire, busy>>
vars == <<faults, hist, book, buffer, stream, fetches>>

Book == [levels: SUBSET Price, id: Nat, ready: BOOLEAN]

ASSUME FeedAssumption ==
  /\ MaxUpdates \in Nat
  /\ \A f \in FaultModels :
       f \subseteq {"drop", "overlap", "fail", "lag", "refused"}
  /\ NoBook \notin Book

EmptyBook == [levels |-> {}, id |-> 0, ready |-> FALSE]

\* A diff covers the updates first .. last (U and u).
Diff(u, v) == [kind |-> "diff", first |-> u, last |-> v]
Trade == [kind |-> "trade", first |-> 0, last |-> 0]
Message == [kind: {"diff", "trade"}, first: Nat, last: Nat]

NoFetch == [at |-> "none", id |-> 0]

TypeOK ==
  /\ faults \in FaultModels
  /\ hist \in Seq(Price)
  /\ book \in Book \cup {NoBook}
  /\ buffer \in Seq(Message)
  /\ conn \in {"off", "down", "up", "ending", "stopped"}
  /\ conn = "off" <=> book = NoBook
  /\ since \in 0 .. sent /\ sent \in 0 .. Len(hist)
  /\ wire \in Seq(Message)
  /\ busy \in BOOLEAN /\ (busy => conn = "up")
  /\ fetches \in [Fetch -> [at: {"none", "asked", "taken"}, id: Nat]]

Init ==
  /\ faults \in FaultModels
  /\ hist = << >>
  /\ book = NoBook /\ buffer = << >>
  /\ conn = "off" /\ since = 0 /\ sent = 0 /\ wire = << >> /\ busy = FALSE
  /\ fetches = [f \in Fetch |-> NoFetch]

UnderWay == {f \in Fetch : fetches[f] # NoFetch}

\* A connection only ends between a snapshot and the next, or not at all.
MayEnd == UnderWay = {} \/ "overlap" \in faults

-----------------------------------------------------------------------------
(* Binance.                                                                *)

Update ==
  /\ Len(hist) < MaxUpdates
  /\ \E p \in Price : hist' = Append(hist, p)
  /\ UNCHANGED <<faults, book, buffer, stream, fetches>>

\* A level appears with its first update and vanishes with the next one.
LevelsAt(n) ==
  {p \in Price : Cardinality({i \in 1 .. n : hist[i] = p}) % 2 = 1}

\* Every 100 ms a diff with all updates since the last one.
SendsDiff ==
  /\ conn = "up" /\ sent < Len(hist)
  /\ wire' = Append(wire, Diff(sent + 1, Len(hist)))
  /\ sent' = Len(hist)
  /\ UNCHANGED <<faults, hist, book, buffer, conn, since, busy, fetches>>

\* Bound: one trade at a time on the wire.
SendsTrade ==
  /\ conn = "up" /\ \A i \in DOMAIN wire : wire[i] # Trade
  /\ wire' = Append(wire, Trade)
  /\ UNCHANGED <<faults, hist, book, buffer, conn, since, sent, busy, fetches>>

ServesSnapshot(f) ==
  /\ fetches[f].at = "asked"
  /\ \E n \in IF "lag" \in faults THEN 0 .. Len(hist) ELSE {Len(hist)} :
       fetches' = [fetches EXCEPT ![f] = [at |-> "taken", id |-> n]]
  /\ UNCHANGED <<faults, hist, book, buffer, stream>>

-----------------------------------------------------------------------------
(* The symbol and its connection.                                          *)

\* add_symbol
Added ==
  /\ conn = "off"
  /\ book' = EmptyBook /\ buffer' = << >>
  /\ conn' = "down"
  /\ UNCHANGED <<faults, hist, since, sent, wire, busy, fetches>>

Closed(next) ==
  /\ conn' = next
  /\ wire' = << >>
  /\ UNCHANGED <<since, sent>>

\* remove_symbol cancels the task, wherever it awaits, ...
Removing ==
  /\ conn \in {"down", "up"} /\ MayEnd
  /\ Closed("ending")
  /\ busy' = FALSE
  /\ UNCHANGED <<faults, hist, book, buffer, fetches>>

\* Mutant: the book outlives its symbol.
LeavesBook ==
  /\ conn = "ending" /\ conn' = "off"
  /\ UNCHANGED <<faults, hist, book, buffer, since, sent, wire, busy, fetches>>

\* ... and forgets the symbol.
Removed ==
  /\ conn = "ending"
  /\ book' = NoBook /\ buffer' = << >>
  /\ conn' = "off"
  /\ UNCHANGED <<faults, hist, since, sent, wire, busy, fetches>>

\* Mutant: no snapshot for a new connection.
NothingAsked == UNCHANGED fetches

Reset(b) == [b EXCEPT !.ready = FALSE]

AskSnapshot ==
  \E f \in Fetch \ UnderWay :
    fetches' = [fetches EXCEPT ![f].at = "asked"]

Connects ==
  /\ conn = "down"
  /\ conn' = "up" /\ since' = Len(hist) /\ sent' = Len(hist)
  /\ book' = Reset(book) /\ buffer' = << >>
  /\ AskSnapshot
  /\ UNCHANGED <<faults, hist, wire, busy>>

\* The receive loop sees the end when it reads on, and connects again.
Drops ==
  /\ "drop" \in faults
  /\ conn = "up" /\ ~busy /\ MayEnd
  /\ Closed("down")
  /\ UNCHANGED <<faults, hist, book, buffer, busy, fetches>>

\* stop, in the shutdown; a snapshot under way is not waited for.
Stops ==
  /\ conn \in {"down", "up"}
  /\ Closed("stopped")
  /\ busy' = FALSE
  /\ UNCHANGED <<faults, hist, book, buffer, fetches>>

-----------------------------------------------------------------------------
(* Diffs, trades and snapshots.                                            *)

\* Mutant: a diff the snapshot covers is applied again.
NeverStale(b, d) == FALSE

Stale(b, d) == d.last <= b.id

Touched(d) == {hist[i] : i \in d.first .. d.last}

\* _apply_diff: the levels of the diff, with the quantities of its last update.
Applied(b, d) ==
  IF Stale(b, d) THEN b
  ELSE [b EXCEPT !.levels = (@ \ Touched(d)) \cup (Touched(d) \cap LevelsAt(d.last)),
                 !.id = d.last]

\* Mutant: only what is ready is told of a diff.
Dropped(d) == buffer

Buffered(d) == Append(buffer, d)

\* _on_message
ReceivesDiff ==
  /\ conn = "up" /\ ~busy /\ wire # << >> /\ Head(wire) # Trade
  /\ wire' = Tail(wire)
  /\ IF book.ready
       THEN book' = Applied(book, Head(wire)) /\ UNCHANGED buffer
       ELSE buffer' = Buffered(Head(wire)) /\ UNCHANGED book
  /\ UNCHANGED <<faults, hist, conn, since, sent, busy, fetches>>

ReceivesTrade ==
  /\ conn = "up" /\ ~busy /\ wire # << >> /\ Head(wire) = Trade
  /\ wire' = Tail(wire)
  /\ busy' = TRUE
  /\ UNCHANGED <<faults, hist, book, buffer, conn, since, sent, fetches>>

CallbackReturns ==
  /\ busy
  /\ busy' = FALSE
  /\ UNCHANGED <<faults, hist, book, buffer, conn, since, sent, wire, fetches>>

\* What the body of an answer makes of the book.
Answer(n) ==
  {[levels |-> LevelsAt(n), id |-> n, ready |-> TRUE]}
    \cup IF "refused" \in faults THEN {[EmptyBook EXCEPT !.ready = TRUE]} ELSE {}

\* What has arrived since the snapshot was asked for, in its order.
CaughtUp(b) ==
  LET after[i \in 0 .. Len(buffer)] ==
        IF i = 0 THEN b ELSE Applied(after[i - 1], buffer[i])
  IN  after[Len(buffer)]

\* _bootstrap_snapshot goes on with the answer; without a book it dies of a
\* KeyError that nobody sees.
SnapshotArrives(f) ==
  /\ fetches[f].at = "taken"
  /\ fetches' = [fetches EXCEPT ![f] = NoFetch]
  /\ IF book = NoBook
       THEN UNCHANGED <<book, buffer>>
       ELSE /\ \E b \in Answer(fetches[f].id) : book' = CaughtUp(b)
            /\ buffer' = << >>
  /\ UNCHANGED <<faults, hist, stream>>

SnapshotFails(f) ==
  /\ "fail" \in faults
  /\ f \in UnderWay
  /\ fetches' = [fetches EXCEPT ![f] = NoFetch]
  /\ UNCHANGED <<faults, hist, book, buffer, stream>>

-----------------------------------------------------------------------------
Next ==
  \/ Update \/ SendsDiff \/ SendsTrade
  \/ Added \/ Removing \/ Removed \/ Connects \/ Drops \/ Stops
  \/ ReceivesDiff \/ ReceivesTrade \/ CallbackReturns
  \/ \E f \in Fetch : ServesSnapshot(f) \/ SnapshotArrives(f) \/ SnapshotFails(f)

Spec == Init /\ [][Next]_vars

\* Binance sends and answers, the connection is tried again, the receive loop
\* reads on, and the trade callback returns (EveryCallReturns of MyCexClient).
Fairness ==
  /\ WF_vars(SendsDiff) /\ WF_vars(Connects)
  /\ WF_vars(ReceivesDiff \/ ReceivesTrade) /\ WF_vars(CallbackReturns)
  /\ \A f \in Fetch : WF_vars(ServesSnapshot(f)) /\ WF_vars(SnapshotArrives(f))

FairSpec == Spec /\ Fairness

-----------------------------------------------------------------------------
Ready == book # NoBook /\ book.ready

Gapless == faults \subseteq {"drop", "fail"}

\* Whatever is dropped and reconnected, a ready book is one Binance had, and it
\* never goes back to an older one, as long as snapshots are neither late nor
\* empty nor outlive their connection.
Source == INSTANCE SourceBook WITH
  view <- IF Gapless /\ Ready
            THEN [id |-> book.id, levels |-> book.levels] ELSE NotReady

ImplementsSourceBook == Source!Spec

\* Even after a late or an empty snapshot, a level Binance has updated since the
\* connection came up is right: the harm is confined to older levels.
UpdatedLevelsAreRight ==
  "overlap" \notin faults /\ conn = "up" /\ Ready =>
    \A i \in since + 1 .. book.id :
      hist[i] \in book.levels <=> hist[i] \in LevelsAt(book.id)

\* A connection that stays up shows, in the end, the book Binance has, however
\* the trade callback holds back the diffs.
CatchesUp ==
  faults \subseteq {"drop"} =>
    (<>[](conn = "up") => <>[](Ready /\ book.id = Len(hist)))
=============================================================================
