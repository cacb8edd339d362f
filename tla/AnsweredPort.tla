----------------------------- MODULE AnsweredPort -----------------------------
(***************************************************************************)
(* OrderPort with what its callers are told: place_order returns an id or  *)
(* None, cancel_order True or False, and a call that is cancelled or left  *)
(* by an exception tells nothing else.  This is the specification that     *)
(* MyCexClient implements.                                                 *)
(***************************************************************************)
EXTENDS OrderPort

VARIABLE
  told  \* per caller: what its last call came back with, if it is over

answeredVars == <<portVars, told>>

Answer == [is: {"nothing", "id", "None", "True", "False", "raised"},
           id: OrderId \cup {NoId}]

Word(w) == [is |-> w, id |-> NoId]
IdOf(id) == [is |-> "id", id |-> id]
Nothing == Word("nothing")

AnsweredTypeOK == PortTypeOK /\ told \in [Caller -> Answer]

AnsweredInit == PortInit /\ told = [c \in Caller |-> Nothing]

Tell(c, a) == told' = [told EXCEPT ![c] = a]

\* A caller asks; what it was told before is history.
Ask(c) ==
  /\ \E o \in Order : \/ o.id = NoId /\ Begin(c, "place", o)
                      \/ o.id # NoId /\ Begin(c, "cancel", o)
  /\ Tell(c, Nothing)
  /\ UNCHANGED <<live, late>>

\* The market and the attempts on their way; nobody is told anything.
Silent ==
  /\ \/ \E c \in Caller, id \in OrderId : PlaceServed(c, id)
     \/ \E c \in Caller : CancelServed(c) \/ Lag(c)
     \/ \E k \in Late, id \in OrderId : LateServed(k, id)
     \/ \E o \in live : Fill(o)
  /\ UNCHANGED told

\* A caller is told how its call ended: each answer under its own condition on
\* what has become of the order.
Told(c) ==
  \/ \E id \in OrderId : PlaceReturnsId(c, id) /\ Tell(c, IdOf(id))
  \/ PlaceReturnsNone(c) /\ Tell(c, Word("None"))
  \/ CancelReturnsTrue(c) /\ Tell(c, Word("True"))
  \/ CancelReturnsFalse(c) /\ Tell(c, Word("False"))
  \/ Abandon(c) /\ Tell(c, Word("raised"))

AnsweredNext == Silent \/ \E c \in Caller : Ask(c) \/ Told(c)

AnsweredSpec == AnsweredInit /\ [][AnsweredNext]_answeredVars
=============================================================================
