---------------------------- MODULE MCMyCexClient ----------------------------
(* Instances of MyCexClient for TLC. *)
EXTENDS MyCexClient, TLC

CONSTANT i1

NoneLeft == {}
OneBid == {[id |-> i1, side |-> "buy", price |-> 1, amount |-> 1]}

\* Ids and callers are only compared.
Symmetry == Permutations(OrderId \ Port!Ids(LeftBehind)) \cup Permutations(Caller)
=============================================================================
