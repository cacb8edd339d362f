------------------------------ MODULE MCProcess ------------------------------
(* Instances of Process for TLC. *)
EXTENDS Process, TLC

CONSTANT A

NoPairs == {}

-----------------------------------------------------------------------------
(* Claims of comments and documentation that do not hold, see README.md.   *)

\* What my_cex trades is mirrored in the end, whatever the process was doing
\* when the event came.
TradedIsMirrored ==
  \A m \in Listed : <>[](Up /\ m \in known) => <>[]IsMirrored(m)

\* What my_cex no longer trades, and has said so, is not mirrored, even if it was
\* taken out of trading between the first bootstrap and the first position of the
\* consumer.
NeverTradedIsMirrored ==
  \A m \in Symbol :
    <>[](Up /\ m \notin known \cup enabled) => <>[](m \notin Markets(Running))

\* An ended process leaves no order of ours behind.
ExitLeavesNothing == stage = "exited" => quoted = {} /\ left = {}

\* A market that my_cex no longer trades has none either.
DelistedIsCleared ==
  \A m \in Symbol : <>[](Up /\ m \notin known \cup enabled) => <>[](m \notin left)

\* config.yaml gains only pairs that a Kafka event has announced.
NothingDiscoveredIsWritten ==
  \A p \in config \ HandWritten :
    [kind |-> "enabled", market |-> p.mycex] \in ToSet(topic)

\* Failures of Binance are transient: who asks over and over has an answer.
RecoveringSpec ==
  FairProcess /\ \A w \in Worker : SF_all(Manages(w) /\ task'[w].at = "known")
=============================================================================
