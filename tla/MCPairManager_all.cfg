SPECIFICATION Spec
CONSTANTS
  A = A
  B = B
  Symbol = {A, B}
  Listed = {A, B}
  HandWritten <- RenamedAndUnparsable
  Malformed <- Unparsable
  Faults = {"service", "binance", "unusable", "crash"}
  Kafka = Kafka
  Retry = Retry
  NoOne = NoOne
  NoMarket = NoMarket
  NoPair = NoPair
INVARIANTS TypeOK RegistriesAgree PendingNotRunning
