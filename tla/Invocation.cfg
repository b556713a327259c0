SPECIFICATION ExchangeSpec
CONSTANTS
  Exchanges <- MCExchanges
  Chunks = 2
  MaxAfter = 2
INVARIANTS CleanEndIsWhole AfterWorkAwaited
PROPERTY LimitedSettles
CHECK_DEADLOCK FALSE
