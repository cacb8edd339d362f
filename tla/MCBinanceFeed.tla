--------------------------- MODULE MCBinanceFeed ---------------------------
(* Instances of BinanceFeed for TLC. *)
EXTENDS BinanceFeed, TLC

\* Every single fault and the pairs that meet in one connection.
Models ==
  { {"drop", "fail"}, {"drop"}, {"drop", "lag", "refused"}, {"drop", "overlap"} }

(* Does not hold, see README.md. *)

\* A book whose snapshot has failed asks for another with the next diff.
SnapshotRetried ==
  [][ReceivesDiff /\ ~book.ready /\ UnderWay = {}
       => \E f \in Fetch : fetches'[f].at = "asked"]_vars

\* Under an overlap as well a ready book never goes back.
NeverGoesBack ==
  [][conn = "up" /\ conn' = "up" /\ book.ready => book'.id >= book.id]_vars
=============================================================================
