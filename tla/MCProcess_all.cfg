SPECIFICATION FairProcess
CONSTANTS
  A = A
  Symbol = {A}
  Listed = {A}
  HandWritten <- NoPairs
  Malformed <- NoPairs
  Faults = {"crash", "broker"}
  Kafka = Kafka
  Retry = Retry
  NoOne = NoOne
  NoMarket = NoMarket
  NoPair = NoPair
  MaxEvents = 2
  OffsetReset = "latest"
  NoOffset = NoOffset
INVARIANTS ProcessTypeOK ShutdownClears EnginesStaySound DelistedStaysGone
PROPERTIES ShutdownEnds EveryCallEnds EnabledIsMirrored DelistedIsStopped
CHECK_DEADLOCK FALSE
