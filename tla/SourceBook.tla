----------------------------- MODULE SourceBook -----------------------------
(***************************************************************************)
(* What an engine may rely on when it reads a source book: a ready book is *)
(* the book Binance had at some update, and it never goes back.  It may    *)
(* lag.  An update makes one price level appear or vanish.                 *)
(***************************************************************************)
EXTENDS Naturals, Sequences, FiniteSets

CONSTANTS Price, NotReady

VARIABLES
  hist,  \* Binance: the level each update has changed
  view   \* the book as engines read it, NotReady while ready is False

vars == <<hist, view>>

\* The levels of the book after update n.
LevelsAt(n) ==
  {p \in Price : Cardinality({i \in 1 .. n : hist[i] = p}) % 2 = 1}

Snapshot(n) == [id |-> n, levels |-> LevelsAt(n)]

Init == hist = << >> /\ view = NotReady

Update == \E p \in Price : hist' = Append(hist, p) /\ UNCHANGED view

Advance ==
  /\ \E n \in 0 .. Len(hist) :
       /\ view # NotReady => n >= view.id
       /\ view' = Snapshot(n)
  /\ UNCHANGED hist

Withdraw == view' = NotReady /\ UNCHANGED hist

Next == Update \/ Advance \/ Withdraw

Spec == Init /\ [][Next]_vars
=============================================================================
