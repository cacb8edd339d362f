---------------------------- MODULE MCPairManager ----------------------------
(* Instances of PairManager for TLC. *)
EXTENDS PairManager, TLC

CONSTANTS A, B

\* config.yaml without pairs, or with market B quoted from the book of A.
NoPairs == {}
Renamed == {[source |-> A, mycex |-> B]}

\* ... and a second pair for the book of A whose tick is no number.
Unparsable == {[source |-> A, mycex |-> A]}
RenamedAndUnparsable == Renamed \cup Unparsable

-----------------------------------------------------------------------------
(* Claims of comments and documentation that do not hold, see README.md.   *)

\* A market is quoted by one engine: two of them would cancel and place orders
\* on one book, each unaware of the other's.
OneEnginePerMarket ==
  \A i, j \in DOMAIN engines : engines[i].mycex = engines[j].mycex => i = j

\* Only the pair of the delisted market is stopped: every other running pair is
\* left untouched.
OnlyTheDelistedStops ==
  [][\A w \in Worker : Stopped(w) => task[w].pair.mycex = task[w].market]_vars

\* A queued market stops being retried when it is delisted: it is out of the
\* queue, and who retries it finds it there.
DelistedIsNotRetried ==
  [][\A w \in Worker :
       /\ RemoveEnters(w) => task[w].market \notin Markets(pending')
       /\ w = Retry /\ AddEnters(w) /\ ~Mirrored(task[w].pair) =>
            task[w].pair \in pending]_vars
=============================================================================
